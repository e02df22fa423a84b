-------------------------- MODULE DuetEngineProofs --------------------------
(***************************************************************************)
(* Proofs about DuetEngine, for every board that obeys the rules and every *)
(* number of tokens.                                                       *)
(***************************************************************************)
EXTENDS DuetEngineRefinement, FiniteSetTheorems, TLAPS

-----------------------------------------------------------------------------
(***************************************************************************)
(* Type correctness                                                        *)
(***************************************************************************)

\* Handing over to the next turn keeps the types of everything it assigns.
LEMMA SwitchRolesType ==
  ASSUME TypeOK, NEW live \in ClueEntries, SwitchRoles(live)
  PROVE  /\ phase' \in Phases
         /\ clueGiver' \in Seats /\ guesser' \in Seats
         /\ turn' \in Nat /\ guesses' \in Nat
         /\ clue' \in ClueEntries
         /\ history' \in Seq(ClueEntries)
         /\ sdPending' \in BOOLEAN
         /\ sdRanked' \subseteq Seats
         /\ result' \in Results \cup {NoResult}
<1>1. /\ turn' \in Nat /\ guesses' \in Nat
      /\ clueGiver' \in Seats /\ guesser' \in Seats
      /\ sdRanked' \subseteq Seats
      /\ result' \in Results \cup {NoResult}
  BY DEF TypeOK, SwitchRoles
<1>5. phase' \in Phases
  BY DEF SwitchRoles, Phases
<1>6. sdPending' \in BOOLEAN
  BY DEF TypeOK, SwitchRoles
<1>2. clue' \in ClueEntries
  BY DEF SwitchRoles, NoClue, ClueEntries, Seats
<1>3. history' \in Seq(ClueEntries)
  BY DEF TypeOK, SwitchRoles
<1>4. QED BY <1>1, <1>2, <1>3, <1>5, <1>6

\* Opening the guessing phase on a clue keeps the types of what it assigns.
LEMMA OpenGuessingType ==
  ASSUME TypeOK, NEW entry \in ClueEntries, OpenGuessing(entry)
  PROVE  /\ phase' \in Phases
         /\ clueGiver' \in Seats /\ guesser' \in Seats
         /\ turn' \in Nat /\ guesses' \in Nat
         /\ clue' \in ClueEntries
         /\ history' \in Seq(ClueEntries)
         /\ sdPending' \in BOOLEAN
         /\ sdRanked' \subseteq Seats
         /\ result' \in Results \cup {NoResult}
BY DEF TypeOK, OpenGuessing, measureVars, Phases

\* Spending a token keeps the types of the reserve and of the piles.
LEMMA SpendType ==
  ASSUME TypeOK, NEW pile \in Piles, Spend(pile)
  PROVE  timer' \in Int /\ spent' \in [Piles -> Nat]
BY DEF TypeOK, Spend, Piles

LEMMA FinishType ==
  ASSUME NEW res \in Results, FinishGame(res)
  PROVE  phase' \in Phases /\ result' \in Results \cup {NoResult}
BY DEF FinishGame, Phases

\* A hit keeps the types of the cards and of the pending words.
LEMMA RevealCardType ==
  ASSUME TypeOK, NEW p \in Seats, NEW c \in Cards, RevealAgent(p, c)
  PROVE  /\ revealed' \subseteq Cards
         /\ revealedBy' \in [Cards -> SUBSET Seats]
         /\ markers' \in [Cards -> SUBSET Seats]
         /\ visible' \subseteq Cards
         /\ pending' \in [Seats -> Int]
<1>1. Finders(p, c) \subseteq Seats
  BY DEF Finders
<1>2. QED BY <1>1 DEF TypeOK, RevealAgent

\* Every call the engine accepts keeps the types.
LEMMA TypeOKStep == TypeOK /\ [Next]_vars => TypeOK'
<1> SUFFICES ASSUME TypeOK, [Next]_vars PROVE TypeOK'
  OBVIOUS
<1>1. ASSUME NEW p \in Seats, NEW word \in ClueWords, ReceiveClue(p, word)
      PROVE  TypeOK'
  <2>1. ClueEntry(p, word) \in ClueEntries
    BY DEF TypeOK, ClueEntries, ClueEntry, Offends
  <2>2. CASE ~Offends(word)
    BY <1>1, <2>1, <2>2, OpenGuessingType DEF ReceiveClue, TypeOK, tokenVars, cardVars
  <2>3. CASE Offends(word) /\ timer' # 0
    BY <1>1, <2>1, <2>3, OpenGuessingType, SpendType DEF ReceiveClue, TypeOK, cardVars, Piles
  <2>4. CASE Offends(word) /\ timer' = 0
    BY <1>1, <2>1, <2>4, SwitchRolesType, SpendType DEF ReceiveClue, TypeOK, cardVars, Piles
  <2>5. QED BY <1>1, <2>2, <2>3, <2>4 DEF ReceiveClue
<1>2. CASE AttachConfidenceRanking
  BY <1>2 DEF AttachConfidenceRanking, TypeOK, cardVars, tokenVars, measureVars, ClueEntries
<1>3. ASSUME NEW p \in Seats, AttachSuddenDeathRanking(p) PROVE TypeOK'
  BY <1>3 DEF AttachSuddenDeathRanking, TypeOK, cardVars, tokenVars, roleVars
<1>4. ASSUME NEW p \in Seats, NEW c \in Cards, ResolveGuess(p, c) PROVE TypeOK'
  <2>1. CASE RevealAgent(p, c)
    <3>1. CASE WinAfterReveal
      BY <2>1, <3>1, RevealCardType, SpendType, FinishType
         DEF WinAfterReveal, TypeOK, tokenVars, roleVars, measureVars, Piles, Results
    <3>2. CASE TurnEndsOnLastWord(p)
      BY <2>1, <3>2, RevealCardType, SpendType, SwitchRolesType
         DEF TurnEndsOnLastWord, StopTurn, TypeOK, Piles
    <3>3. CASE HandOffSuddenDeath
      BY <2>1, <3>3, RevealCardType
         DEF HandOffSuddenDeath, TypeOK, tokenVars, roleVars, Phases
    <3>4. CASE KeepGuessing(p)
      BY <2>1, <3>4, RevealCardType
         DEF KeepGuessing, TypeOK, tokenVars, roleVars, measureVars
    <3>5. QED BY <2>1, <3>1, <3>2, <3>3, <3>4 DEF RevealAgent
  <2>2. CASE TouchAssassin
    BY <2>2, FinishType
       DEF TouchAssassin, TypeOK, cardVars, tokenVars, roleVars, measureVars, Results
  <2>3. CASE TouchBystander(c)
    <3>1. markers' \in [Cards -> SUBSET Seats] /\ visible' \subseteq Cards
      BY <2>3 DEF TouchBystander, TypeOK
    <3>2. QED BY <2>3, <3>1, SpendType, SwitchRolesType DEF TouchBystander, TypeOK, Piles
  <2>4. ASSUME NEW role \in Roles, MissInSuddenDeath(role) PROVE TypeOK'
    BY <2>4, FinishType
       DEF MissInSuddenDeath, TypeOK, cardVars, tokenVars, roleVars, measureVars, Results
  <2>5. Side[Other(p)][c] \in Roles
    BY SideAssumption DEF Other, Seats
  <2>6. QED BY <1>4, <2>1, <2>2, <2>3, <2>4, <2>5 DEF ResolveGuess
<1>5. ASSUME NEW p \in Seats, PassTurn(p) PROVE TypeOK'
  BY <1>5, SpendType, SwitchRolesType DEF PassTurn, StopTurn, TypeOK, cardVars, Piles
<1>6. ASSUME NEW p \in Seats, ConcedeSuddenDeath(p) PROVE TypeOK'
  BY <1>6, FinishType
     DEF ConcedeSuddenDeath, TypeOK, cardVars, tokenVars, roleVars, measureVars, Results
<1>7. CASE UNCHANGED vars
  BY <1>7 DEF vars, TypeOK, cardVars, tokenVars, roleVars, measureVars
<1>8. QED BY <1>1, <1>2, <1>3, <1>4, <1>5, <1>6, <1>7 DEF Next

LEMMA InitType == Init => TypeOK
<1> SUFFICES ASSUME Init PROVE TypeOK
  OBVIOUS
<1>1. /\ phase \in Phases
      /\ clueGiver \in Seats /\ guesser \in Seats
      /\ result \in Results \cup {NoResult}
  BY DEF Init, Phases, Seats, Other
<1>2. turn \in Nat /\ guesses \in Nat
  BY DEF Init
<1>3. timer \in Int /\ pending \in [Seats -> Int]
  BY CountAssumption DEF Init
<1>4. clue \in ClueEntries
  BY DEF Init, NoClue, ClueEntries, Seats
<1>5. history \in Seq(ClueEntries)
  BY DEF Init
<1>6. spent \in [Piles -> Nat]
  BY DEF Init
<1>7. /\ revealed \subseteq Cards /\ visible \subseteq Cards
      /\ revealedBy \in [Cards -> SUBSET Seats]
      /\ markers \in [Cards -> SUBSET Seats]
  BY DEF Init
<1>8. sdPending \in BOOLEAN /\ sdRanked \subseteq Seats
  BY DEF Init
<1>9. QED
  BY <1>1, <1>2, <1>3, <1>4, <1>5, <1>6, <1>7, <1>8 DEF TypeOK

\* The state of the engine always has its types.
THEOREM TypeCorrect == Spec => []TypeOK
  BY InitType, TypeOKStep, PTL DEF Spec

-----------------------------------------------------------------------------
(***************************************************************************)
(* What a step can do to the board                                         *)
(***************************************************************************)

\* Seat p touches word c and it is an agent for it.
Hit(p, c) ==
  /\ MayGuess(p)
  /\ IsGuessableBy(p, c)
  /\ Side[Other(p)][c] = Agent
  /\ RevealAgent(p, c)

\* Seat p touches word c in normal play and it is a bystander for it.
Bystander(p, c) ==
  /\ phase = Guessing /\ p = guesser
  /\ IsGuessableBy(p, c)
  /\ Side[Other(p)][c] = Civilian
  /\ TouchBystander(c)

\* Apart from a hit and a bystander no step changes what lies on the words.
LEMMA CardSteps ==
  ASSUME [Next]_vars
  PROVE  \/ \E p \in Seats, c \in Cards : Hit(p, c)
         \/ \E p \in Seats, c \in Cards : Bystander(p, c)
         \/ UNCHANGED <<pending, revealed, revealedBy, markers, visible>>
<1>1. ASSUME NEW p \in Seats, NEW word \in ClueWords, ReceiveClue(p, word)
      PROVE  UNCHANGED <<pending, revealed, revealedBy, markers, visible>>
  BY <1>1 DEF ReceiveClue, cardVars
<1>2. CASE AttachConfidenceRanking
  BY <1>2 DEF AttachConfidenceRanking, cardVars
<1>3. ASSUME NEW p \in Seats, AttachSuddenDeathRanking(p)
      PROVE  UNCHANGED <<pending, revealed, revealedBy, markers, visible>>
  BY <1>3 DEF AttachSuddenDeathRanking, cardVars
<1>4. ASSUME NEW p \in Seats, NEW c \in Cards, ResolveGuess(p, c)
      PROVE  \/ Hit(p, c)
             \/ Bystander(p, c)
             \/ UNCHANGED <<pending, revealed, revealedBy, markers, visible>>
  <2>1. SDPhases \cap {Guessing} = {}
    BY DEF SDPhases, SDLlm, SDHuman, Guessing
  <2>2. phase = Guessing /\ MayGuess(p) => p = guesser
    BY DEF MayGuess, SDPhase, SDLlm, SDHuman, Guessing
  <2>3. QED
    BY <1>4, <2>1, <2>2
       DEF ResolveGuess, Hit, Bystander, TouchAssassin, MissInSuddenDeath, cardVars
<1>5. ASSUME NEW p \in Seats, PassTurn(p)
      PROVE  UNCHANGED <<pending, revealed, revealedBy, markers, visible>>
  BY <1>5 DEF PassTurn, cardVars
<1>6. ASSUME NEW p \in Seats, ConcedeSuddenDeath(p)
      PROVE  UNCHANGED <<pending, revealed, revealedBy, markers, visible>>
  BY <1>6 DEF ConcedeSuddenDeath, cardVars
<1>7. CASE UNCHANGED vars
  BY <1>7 DEF vars, cardVars
<1>8. QED BY <1>1, <1>2, <1>3, <1>4, <1>5, <1>6, <1>7 DEF Next

\* Whatever has been covered, the words a seat has to find are a finite set.
LEMMA PendingFinite ==
  ASSUME NEW s \in Seats, NEW covered
  PROVE  /\ IsFiniteSet(Having(Agent, Other(s)) \ covered)
         /\ Cardinality(Having(Agent, Other(s)) \ covered) \in Nat
BY CardsAssumption, FS_Subset, FS_CardinalityType DEF Having

-----------------------------------------------------------------------------
(***************************************************************************)
(* The pending counters follow the board                                   *)
(***************************************************************************)

LEMMA PendingMatchesBoardStep ==
  TypeOK /\ PendingMatchesBoard /\ [Next]_vars => PendingMatchesBoard'
<1> SUFFICES ASSUME TypeOK, PendingMatchesBoard, [Next]_vars,
                    NEW s \in Seats
             PROVE  pending'[s] = Cardinality(PendingOnBoard(s)')
  BY DEF PendingMatchesBoard, PendingOnBoard
<1>1. ASSUME UNCHANGED <<pending, revealed>>
      PROVE  pending'[s] = Cardinality(PendingOnBoard(s)')
  BY <1>1 DEF PendingMatchesBoard, PendingOnBoard
<1>2. ASSUME NEW p \in Seats, NEW c \in Cards, Hit(p, c)
      PROVE  pending'[s] = Cardinality(PendingOnBoard(s)')
  <2>1. PendingOnBoard(s)' = PendingOnBoard(s) \ {c}
    BY <1>2 DEF Hit, RevealAgent, PendingOnBoard
  <2>2. c \in PendingOnBoard(s) <=> s \in Finders(p, c)
    BY <1>2 DEF Hit, IsGuessableBy, IsCovered, PendingOnBoard, Having, Finders, Seats, Other
  <2>3. pending'[s] = IF s \in Finders(p, c) THEN pending[s] - 1 ELSE pending[s]
    BY <1>2 DEF Hit, RevealAgent
  <2>4. Cardinality(PendingOnBoard(s)') =
          IF c \in PendingOnBoard(s) THEN Cardinality(PendingOnBoard(s)) - 1
                                     ELSE Cardinality(PendingOnBoard(s))
    <3>1. IsFiniteSet(PendingOnBoard(s))
      BY PendingFinite DEF PendingOnBoard
    <3>2. QED BY <2>1, <3>1, FS_RemoveElement
  <2>5. QED BY <2>2, <2>3, <2>4 DEF PendingMatchesBoard
<1>3. ASSUME NEW p \in Seats, NEW c \in Cards, Bystander(p, c)
      PROVE  pending'[s] = Cardinality(PendingOnBoard(s)')
  BY <1>1, <1>3 DEF Bystander, TouchBystander
<1>4. QED BY <1>1, <1>2, <1>3, CardSteps

\* The pending counter of each seat is at every moment the number of words on
\* the board it still has to find.
THEOREM PendingCorrect == Spec => []PendingMatchesBoard
<1>1. Init => PendingMatchesBoard
  BY BoardAssumption DEF Init, PendingMatchesBoard, PendingOnBoard, BoardRules, Seats, Other
<1>2. QED BY <1>1, PendingMatchesBoardStep, TypeCorrect, PTL DEF Spec

\* Hence a counter is a natural number.
LEMMA PendingNat ==
  ASSUME PendingMatchesBoard, NEW s \in Seats
  PROVE  pending[s] \in Nat
BY PendingFinite DEF PendingMatchesBoard, PendingOnBoard

-----------------------------------------------------------------------------
(***************************************************************************)
(* The phase fits the board, and no token is lost                          *)
(*                                                                         *)
(* The two go together: the reserve stays above zero because only a phase  *)
(* with a positive reserve spends, and the phase is right because the      *)
(* reserve and the pending counters are.                                   *)
(***************************************************************************)

PhaseInv == TypeOK /\ PendingMatchesBoard /\ PhaseFitsTheBoard /\ TokensAddUp

\* The phases are distinct.
LEMMA PhasesDistinct ==
  /\ GivingClue \notin SDPhases \cup {Guessing, GameOver}
  /\ Guessing \notin SDPhases \cup {GameOver}
  /\ GameOver \notin SDPhases
  /\ SDLlm # SDHuman
  /\ \A p \in Seats : SDPhase[p] \in SDPhases
  /\ SDPhase[0] = SDLlm /\ SDPhase[1] = SDHuman
BY DEF GivingClue, Guessing, SDLlm, SDHuman, GameOver, SDPhases, SDPhase, Seats

\* Spending one token of a positive reserve keeps the total.
LEMMA SpendKeepsTotal ==
  ASSUME TypeOK, TokensAddUp, timer > 0, NEW pile \in Piles, Spend(pile)
  PROVE  TokensAddUp' /\ timer' = timer - 1 /\ timer' \in Nat
<1>1. /\ timer' = timer - 1
      /\ timer' \in Nat
  BY DEF TypeOK, Spend
<1>2. timer' + spent'["bystander"] + spent'["check"] + spent'["penalty"] = Tokens
  <2>1. CASE pile = "bystander"
    BY <2>1, CountAssumption DEF TypeOK, TokensAddUp, Spend, Piles
  <2>2. CASE pile = "check"
    BY <2>2, CountAssumption DEF TypeOK, TokensAddUp, Spend, Piles
  <2>3. CASE pile = "penalty"
    BY <2>3, CountAssumption DEF TypeOK, TokensAddUp, Spend, Piles
  <2>4. QED BY <2>1, <2>2, <2>3 DEF Piles
<1>3. QED BY <1>1, <1>2 DEF TokensAddUp

\* Whoever hands over, while some word is pending, leaves a phase that fits.
LEMMA SwitchRolesFits ==
  ASSUME TypeOK, NEW live, SwitchRoles(live), clueGiver # guesser, timer' \in Nat,
         \A s \in Seats : pending'[s] \in Nat,
         \E s \in Seats : pending'[s] > 0
  PROVE  PhaseFitsTheBoard'
<1>1. AnyPendingWords'
  BY DEF AnyPendingWords
<1>2. CASE timer' = 0
  <2>1. phase' = IF pending'[0] = 0 THEN SDHuman ELSE SDLlm
    BY <1>1, <1>2 DEF SwitchRoles
  <2>2. pending'[0] = 0 => pending'[1] > 0
    BY DEF Seats
  <2>3. phase' \notin {GivingClue, Guessing}
    BY <2>1, PhasesDistinct DEF SDPhases
  <2>4. QED BY <1>2, <2>1, <2>2, <2>3, PhasesDistinct DEF PhaseFitsTheBoard, Seats
<1>3. CASE timer' # 0
  <2>1. phase' = GivingClue
    BY <1>3 DEF SwitchRoles
  <2>2. phase' \notin SDPhases
    BY <2>1, PhasesDistinct
  <2>3. clueGiver' # guesser' /\ pending'[guesser'] > 0
    BY DEF TypeOK, SwitchRoles, Seats
  <2>4. QED BY <1>3, <2>1, <2>2, <2>3 DEF PhaseFitsTheBoard, SDPhases
<1>4. QED BY <1>2, <1>3

\* A step that keeps phase, roles, reserve and counters keeps the fit.
LEMMA PhaseFitsFrame ==
  ASSUME PhaseFitsTheBoard, UNCHANGED <<phase, timer, clueGiver, guesser, pending>>
  PROVE  PhaseFitsTheBoard'
BY DEF PhaseFitsTheBoard

LEMMA OverFits ==
  ASSUME phase' = GameOver
  PROVE  PhaseFitsTheBoard'
BY PhasesDistinct DEF PhaseFitsTheBoard, SDPhases

LEMMA TokensFrame ==
  ASSUME TokensAddUp, UNCHANGED tokenVars
  PROVE  TokensAddUp'
BY DEF TokensAddUp, tokenVars

\* A hit leaves a phase that fits, on each of its four ways out.
LEMMA HitFits ==
  ASSUME PhaseInv, NEW p \in Seats, NEW c \in Cards, Hit(p, c), TypeOK', PendingMatchesBoard'
  PROVE  PhaseFitsTheBoard' /\ TokensAddUp'
<1>1. \A s \in Seats : pending'[s] \in Nat
  BY PendingFinite DEF PendingMatchesBoard, PendingOnBoard
<1>2. CASE WinAfterReveal
  <2>1. phase' = GameOver
    BY <1>2 DEF WinAfterReveal, FinishGame
  <2>2. CASE phase \in SDPhases
    BY <1>2, <2>1, <2>2, OverFits, TokensFrame DEF WinAfterReveal, PhaseInv
  <2>3. CASE phase \notin SDPhases
    <3>1. phase = Guessing
      BY <2>3, PhasesDistinct DEF Hit, MayGuess
    <3>2. timer > 0
      BY <3>1 DEF PhaseInv, PhaseFitsTheBoard
    <3>3. Spend("check")
      BY <1>2, <2>3 DEF WinAfterReveal
    <3>4. QED BY <2>1, <3>2, <3>3, OverFits, SpendKeepsTotal DEF PhaseInv, Piles
  <2>4. QED BY <2>2, <2>3
<1>3. CASE TurnEndsOnLastWord(p)
  <2>1. timer > 0 /\ clueGiver # guesser
    BY <1>3 DEF PhaseInv, PhaseFitsTheBoard, TurnEndsOnLastWord
  <2>2. Spend("check") /\ SwitchRoles(clue) /\ AnyPendingWords'
    BY <1>3 DEF TurnEndsOnLastWord, StopTurn
  <2>3. TokensAddUp' /\ timer' \in Nat
    BY <2>1, <2>2, SpendKeepsTotal DEF PhaseInv, Piles
  <2>4. \E s \in Seats : pending'[s] > 0
    BY <2>2 DEF AnyPendingWords
  <2>5. QED BY <1>1, <2>1, <2>2, <2>3, <2>4, SwitchRolesFits DEF PhaseInv
<1>4. CASE HandOffSuddenDeath
  <2>1. /\ phase = SDLlm /\ phase' = SDHuman
        /\ pending'[0] = 0 /\ AnyPendingWords'
        /\ UNCHANGED tokenVars
    BY <1>4 DEF HandOffSuddenDeath
  <2>2. timer' = 0
    BY <2>1 DEF PhaseInv, PhaseFitsTheBoard, tokenVars, SDPhases
  <2>3. pending'[1] > 0
    BY <1>1, <2>1 DEF AnyPendingWords, Seats
  <2>4. PhaseFitsTheBoard'
    BY <2>1, <2>2, <2>3, PhasesDistinct DEF PhaseFitsTheBoard, SDPhases
  <2>5. QED BY <2>1, <2>4, TokensFrame DEF PhaseInv
<1>5. CASE KeepGuessing(p)
  <2>1. /\ UNCHANGED <<phase, timer, clueGiver, guesser>>
        /\ UNCHANGED tokenVars
        /\ AnyPendingWords'
        /\ phase = Guessing => pending'[p] # 0
        /\ phase = SDLlm => pending'[0] # 0
    BY <1>5 DEF KeepGuessing, tokenVars, roleVars
  <2>2. CASE phase = Guessing
    <3>1. p = guesser
      BY <2>2, PhasesDistinct DEF Hit, MayGuess
    <3>2. pending'[guesser'] > 0
      BY <1>1, <2>1, <2>2, <3>1
    <3>3. timer' > 0 /\ clueGiver' # guesser' /\ phase' = Guessing
      BY <2>1, <2>2 DEF PhaseInv, PhaseFitsTheBoard
    <3>4. QED BY <2>1, <3>2, <3>3, PhasesDistinct, TokensFrame
              DEF PhaseFitsTheBoard, PhaseInv, SDPhases
  <2>3. CASE phase = SDLlm
    <3>1. pending'[0] > 0
      BY <1>1, <2>1, <2>3 DEF Seats
    <3>2. timer' = 0 /\ phase' = SDLlm
      BY <2>1, <2>3 DEF PhaseInv, PhaseFitsTheBoard, SDPhases
    <3>3. QED BY <2>1, <3>1, <3>2, PhasesDistinct, TokensFrame
              DEF PhaseFitsTheBoard, PhaseInv, SDPhases
  <2>4. CASE phase = SDHuman
    <3>1. pending[0] = 0 /\ timer' = 0 /\ phase' = SDHuman
      BY <2>1, <2>4 DEF PhaseInv, PhaseFitsTheBoard, SDPhases
    <3>2. pending'[0] = 0
      <4>1. pending'[0] = pending[0] \/ pending'[0] = pending[0] - 1
        BY DEF Hit, RevealAgent, Seats
      <4>2. QED BY <1>1, <3>1, <4>1 DEF Seats
    <3>3. pending'[1] > 0
      BY <1>1, <2>1, <3>2 DEF AnyPendingWords, Seats
    <3>4. QED BY <2>1, <3>1, <3>2, <3>3, PhasesDistinct, TokensFrame
              DEF PhaseFitsTheBoard, PhaseInv, SDPhases
  <2>5. QED BY <2>2, <2>3, <2>4, PhasesDistinct DEF Hit, MayGuess, SDPhases
<1>6. QED BY <1>2, <1>3, <1>4, <1>5 DEF Hit, RevealAgent

LEMMA PhaseStep ==
  PhaseInv /\ [Next]_vars /\ TypeOK' /\ PendingMatchesBoard' => PhaseInv'
<1> SUFFICES ASSUME PhaseInv, [Next]_vars, TypeOK', PendingMatchesBoard'
             PROVE  PhaseFitsTheBoard' /\ TokensAddUp'
  BY DEF PhaseInv
<1>0. \A s \in Seats : pending[s] \in Nat
  BY PendingNat DEF PhaseInv
<1>1. ASSUME NEW p \in Seats, NEW word \in ClueWords, ReceiveClue(p, word)
      PROVE  PhaseFitsTheBoard' /\ TokensAddUp'
  <2>1. timer > 0 /\ clueGiver # guesser /\ pending[guesser] > 0 /\ UNCHANGED pending
    BY <1>1 DEF ReceiveClue, PhaseInv, PhaseFitsTheBoard
  <2>2. ASSUME OpenGuessing(ClueEntry(p, word)), timer' > 0 PROVE PhaseFitsTheBoard'
    BY <2>1, <2>2, PhasesDistinct DEF OpenGuessing, PhaseFitsTheBoard, SDPhases
  <2>3. CASE ~Offends(word)
    BY <1>1, <2>1, <2>2, <2>3, TokensFrame DEF ReceiveClue, tokenVars, PhaseInv
  <2>4. CASE Offends(word)
    <3>1. TokensAddUp' /\ timer' \in Nat
      BY <1>1, <2>1, <2>4, SpendKeepsTotal DEF ReceiveClue, PhaseInv, Piles
    <3>2. CASE timer' # 0
      BY <1>1, <2>2, <2>4, <3>1, <3>2 DEF ReceiveClue
    <3>3. CASE timer' = 0
      <4>1. SwitchRoles(ClueEntry(p, word))
        BY <1>1, <2>4, <3>3 DEF ReceiveClue
      <4>2. guesser \in Seats
        BY DEF PhaseInv, TypeOK
      <4>3. QED BY <1>0, <2>1, <3>1, <4>1, <4>2, SwitchRolesFits DEF PhaseInv
    <3>4. QED BY <3>1, <3>2, <3>3
  <2>5. QED BY <2>3, <2>4
<1>2. CASE AttachConfidenceRanking
  BY <1>2, PhaseFitsFrame, TokensFrame DEF AttachConfidenceRanking, PhaseInv, tokenVars
<1>3. ASSUME NEW p \in Seats, AttachSuddenDeathRanking(p)
      PROVE  PhaseFitsTheBoard' /\ TokensAddUp'
  BY <1>3, PhaseFitsFrame, TokensFrame DEF AttachSuddenDeathRanking, PhaseInv, tokenVars, roleVars
<1>4. ASSUME NEW p \in Seats, NEW c \in Cards, ResolveGuess(p, c)
      PROVE  PhaseFitsTheBoard' /\ TokensAddUp'
  <2>1. CASE Side[Other(p)][c] = Agent /\ RevealAgent(p, c)
    BY <1>4, <2>1, HitFits DEF ResolveGuess, Hit
  <2>2. CASE TouchAssassin
    BY <2>2, OverFits, TokensFrame DEF TouchAssassin, FinishGame, PhaseInv
  <2>3. CASE phase = Guessing /\ TouchBystander(c)
    <3>1. timer > 0 /\ clueGiver # guesser /\ pending[guesser] > 0
      BY <2>3 DEF PhaseInv, PhaseFitsTheBoard
    <3>2. TokensAddUp' /\ timer' \in Nat
      BY <2>3, <3>1, SpendKeepsTotal DEF TouchBystander, PhaseInv, Piles
    <3>3. guesser \in Seats /\ UNCHANGED pending /\ SwitchRoles(clue)
      BY <2>3 DEF TouchBystander, PhaseInv, TypeOK
    <3>4. QED BY <1>0, <3>1, <3>2, <3>3, SwitchRolesFits DEF PhaseInv
  <2>4. ASSUME NEW role, MissInSuddenDeath(role)
        PROVE  PhaseFitsTheBoard' /\ TokensAddUp'
    BY <2>4, OverFits, TokensFrame DEF MissInSuddenDeath, FinishGame, PhaseInv
  <2>5. QED BY <1>4, <2>1, <2>2, <2>3, <2>4 DEF ResolveGuess
<1>5. ASSUME NEW p \in Seats, PassTurn(p)
      PROVE  PhaseFitsTheBoard' /\ TokensAddUp'
  <2>1. timer > 0 /\ clueGiver # guesser /\ pending[guesser] > 0
    BY <1>5 DEF PassTurn, PhaseInv, PhaseFitsTheBoard
  <2>2. TokensAddUp' /\ timer' \in Nat
    BY <1>5, <2>1, SpendKeepsTotal DEF PassTurn, StopTurn, PhaseInv, Piles
  <2>3. guesser \in Seats /\ UNCHANGED pending /\ SwitchRoles(clue)
    BY <1>5 DEF PassTurn, StopTurn, PhaseInv, TypeOK
  <2>4. QED BY <1>0, <2>1, <2>2, <2>3, SwitchRolesFits DEF PhaseInv
<1>6. ASSUME NEW p \in Seats, ConcedeSuddenDeath(p)
      PROVE  PhaseFitsTheBoard' /\ TokensAddUp'
  BY <1>6, OverFits, TokensFrame DEF ConcedeSuddenDeath, FinishGame, PhaseInv
<1>7. CASE UNCHANGED vars
  BY <1>7, PhaseFitsFrame, TokensFrame DEF vars, tokenVars, roleVars, PhaseInv
<1>8. QED BY <1>1, <1>2, <1>3, <1>4, <1>5, <1>6, <1>7 DEF Next

LEMMA PhaseInvariant == Spec => []PhaseInv
<1>1. Init => PhaseFitsTheBoard /\ TokensAddUp
  <2> SUFFICES ASSUME Init PROVE PhaseFitsTheBoard /\ TokensAddUp
    OBVIOUS
  <2>1. PhaseFitsTheBoard
    BY CountAssumption, PhasesDistinct
       DEF Init, PhaseFitsTheBoard, Seats, Other, SDPhases
  <2>2. TokensAddUp
    BY CountAssumption DEF Init, TokensAddUp, Piles
  <2>3. QED BY <2>1, <2>2
<1>2. QED
  BY <1>1, PhaseStep, TypeCorrect, PendingCorrect, PTL DEF Spec, PhaseInv

\* The phase always names a seat with something to do, on every board.
THEOREM PhaseCorrect == Spec => []PhaseFitsTheBoard
BY PhaseInvariant, PTL DEF PhaseInv

\* No token is ever lost or made up, and the reserve never runs below zero.
THEOREM TokensCorrect == Spec => []TokensAddUp
BY PhaseInvariant, PTL DEF PhaseInv

-----------------------------------------------------------------------------
(***************************************************************************)
(* What lies on the words                                                  *)
(***************************************************************************)

\* revealed_by names the seats for which the covered word was still to find.
LEMMA RevealedByStep ==
  TypeOK /\ RevealedByIsWhoFoundIt /\ [Next]_vars => RevealedByIsWhoFoundIt'
<1> SUFFICES ASSUME TypeOK, RevealedByIsWhoFoundIt, [Next]_vars,
                    NEW c \in Cards, NEW s \in Seats
             PROVE  s \in revealedBy'[c] <=> c \in revealed' /\ Side[Other(s)][c] = Agent
  BY DEF RevealedByIsWhoFoundIt
<1>1. ASSUME NEW p \in Seats, NEW d \in Cards, Hit(p, d)
      PROVE  s \in revealedBy'[c] <=> c \in revealed' /\ Side[Other(s)][c] = Agent
  <2>1. CASE d # c
    BY <1>1, <2>1 DEF Hit, RevealAgent, TypeOK, RevealedByIsWhoFoundIt
  <2>2. CASE d = c
    <3>1. c \notin revealed /\ s \notin revealedBy[c]
      BY <1>1, <2>2 DEF Hit, IsGuessableBy, IsCovered, RevealedByIsWhoFoundIt
    <3>2. s \in revealedBy'[c] <=> s \in Finders(p, c)
      BY <1>1, <2>2, <3>1 DEF Hit, RevealAgent, TypeOK
    <3>3. s \in Finders(p, c) <=> Side[Other(s)][c] = Agent
      BY <1>1, <2>2 DEF Hit, Finders, Seats, Other
    <3>4. c \in revealed'
      BY <1>1, <2>2 DEF Hit, RevealAgent
    <3>5. QED BY <3>2, <3>3, <3>4
  <2>3. QED BY <2>1, <2>2
<1>2. ASSUME NEW p \in Seats, NEW d \in Cards, Bystander(p, d)
      PROVE  UNCHANGED <<revealed, revealedBy>>
  BY <1>2 DEF Bystander, TouchBystander
<1>3. QED BY <1>1, <1>2, CardSteps DEF RevealedByIsWhoFoundIt

THEOREM RevealedByCorrect == Spec => []RevealedByIsWhoFoundIt
<1>1. Init => RevealedByIsWhoFoundIt
  BY DEF Init, RevealedByIsWhoFoundIt
<1>2. QED BY <1>1, RevealedByStep, TypeCorrect, PTL DEF Spec

\* A time token is only ever laid on a word that is beige for its seat.
LEMMA TokensLieStep ==
  TypeOK /\ TokensLieOnBystanders /\ [Next]_vars => TokensLieOnBystanders'
<1> SUFFICES ASSUME TypeOK, TokensLieOnBystanders, [Next]_vars
             PROVE  TokensLieOnBystanders'
  OBVIOUS
<1>1. ASSUME NEW p \in Seats, NEW d \in Cards, Hit(p, d)
      PROVE  TokensLieOnBystanders'
  <2>1. UNCHANGED markers /\ revealed' = revealed \cup {d}
    BY <1>1 DEF Hit, RevealAgent
  <2>2. \E s \in Seats : Side[s][d] = Agent
    BY <1>1 DEF Hit, Seats, Other
  <2>3. QED BY <2>1, <2>2 DEF TokensLieOnBystanders
<1>2. ASSUME NEW p \in Seats, NEW d \in Cards, Bystander(p, d)
      PROVE  TokensLieOnBystanders'
  <2>1. /\ markers' = [markers EXCEPT ![d] = @ \cup {p}]
        /\ UNCHANGED revealed
        /\ Side[Other(p)][d] = Civilian
    BY <1>2 DEF Bystander, TouchBystander
  <2>2. QED BY <2>1 DEF TokensLieOnBystanders, TypeOK
<1>3. QED BY <1>1, <1>2, CardSteps DEF TokensLieOnBystanders

THEOREM TokensLieCorrect == Spec => []TokensLieOnBystanders
<1>1. Init => TokensLieOnBystanders
  BY DEF Init, TokensLieOnBystanders
<1>2. QED BY <1>1, TokensLieStep, TypeCorrect, PTL DEF Spec

LEMMA RolesDistinct == Agent # Assassin /\ Agent # Civilian /\ Assassin # Civilian
BY DEF Agent, Assassin, Civilian

\* No game is ever past winning: a word a seat still has to find carries no
\* token of that seat, so the seat may touch it.
THEOREM PendingReachable == Spec => []EveryPendingWordReachable
<1>1. TypeOK /\ TokensLieOnBystanders => EveryPendingWordReachable
  BY RolesDistinct
     DEF TypeOK, TokensLieOnBystanders, EveryPendingWordReachable, PendingOnBoard,
         Having, IsGuessableBy, IsCovered
<1>2. QED BY <1>1, TypeCorrect, TokensLieCorrect, PTL

\* What the giver's prompt assumes: an uncovered green word is one its partner
\* may touch.
THEOREM GiverAgentsFindable == Spec => []GiverAgentsAreFindable
<1>1. TypeOK /\ TokensLieOnBystanders => GiverAgentsAreFindable
  BY RolesDistinct
     DEF TypeOK, TokensLieOnBystanders, GiverAgentsAreFindable, Having,
         IsGuessableBy, IsCovered, Seats, Other
<1>2. QED BY <1>1, TypeCorrect, TokensLieCorrect, PTL

\* What the guesser's prompt assumes: a black word was only ever touched by
\* the seat it is black for.
THEOREM BlackWordsOwnersOnly == Spec => []BlackWordsTouchedByOwnerOnly
<1>1. TypeOK /\ TokensLieOnBystanders /\ RevealedByIsWhoFoundIt
        => BlackWordsTouchedByOwnerOnly
  <2> SUFFICES ASSUME TypeOK, TokensLieOnBystanders, RevealedByIsWhoFoundIt,
                      NEW s \in Seats, NEW c \in Cards, Side[s][c] = Assassin
               PROVE  /\ Other(s) \notin markers[c]
                      /\ c \in revealed => revealedBy[c] = {s}
    BY DEF BlackWordsTouchedByOwnerOnly
  <2>1. Other(s) \in Seats /\ Other(Other(s)) = s
    BY DEF Seats, Other
  <2>2. Other(s) \notin markers[c]
    BY <2>1, RolesDistinct DEF TokensLieOnBystanders
  <2>3. ASSUME c \in revealed PROVE revealedBy[c] = {s}
    <3>1. Side[Other(s)][c] = Agent
      BY <2>1, <2>3, RolesDistinct DEF TokensLieOnBystanders, Seats, Other
    <3>2. s \in revealedBy[c]
      BY <2>3, <3>1 DEF RevealedByIsWhoFoundIt
    <3>3. Other(s) \notin revealedBy[c]
      BY <2>1, RolesDistinct DEF RevealedByIsWhoFoundIt
    <3>4. revealedBy[c] \subseteq {s, Other(s)}
      BY DEF TypeOK, Seats, Other
    <3>5. QED BY <3>2, <3>3, <3>4
  <2>4. QED BY <2>2, <2>3
<1>2. QED BY <1>1, TypeCorrect, TokensLieCorrect, RevealedByCorrect, PTL

\* The clue validator's visible words are exactly the uncovered ones.
LEMMA ValidatorStep ==
  TypeOK /\ ValidatorSeesTheBoard /\ [Next]_vars => ValidatorSeesTheBoard'
<1> SUFFICES ASSUME TypeOK, ValidatorSeesTheBoard, [Next]_vars
             PROVE  visible' = {c \in Cards : ~(c \in revealed' \/ markers'[c] = Seats)}
  BY DEF ValidatorSeesTheBoard, IsCovered
<1> USE DEF IsCovered
<1>1. ASSUME NEW p \in Seats, NEW d \in Cards, Hit(p, d)
      PROVE  visible' = {c \in Cards : ~(c \in revealed' \/ markers'[c] = Seats)}
  BY <1>1 DEF Hit, RevealAgent, ValidatorSeesTheBoard
<1>2. ASSUME NEW p \in Seats, NEW d \in Cards, Bystander(p, d)
      PROVE  visible' = {c \in Cards : ~(c \in revealed' \/ markers'[c] = Seats)}
  <2>1. /\ markers' = [markers EXCEPT ![d] = @ \cup {p}]
        /\ visible' = IF markers'[d] = Seats THEN visible \ {d} ELSE visible
        /\ UNCHANGED revealed
        /\ d \in visible
    BY <1>2 DEF Bystander, TouchBystander, IsGuessableBy, ValidatorSeesTheBoard
  <2>2. \A c \in Cards \ {d} : markers'[c] = markers[c]
    BY <2>1 DEF TypeOK
  <2>3. QED BY <2>1, <2>2 DEF ValidatorSeesTheBoard
<1>3. QED BY <1>1, <1>2, CardSteps DEF ValidatorSeesTheBoard

THEOREM ValidatorCorrect == Spec => []ValidatorSeesTheBoard
<1>1. Init => ValidatorSeesTheBoard
  BY DEF Init, ValidatorSeesTheBoard, IsCovered, Seats
<1>2. QED BY <1>1, ValidatorStep, TypeCorrect, PTL DEF Spec

-----------------------------------------------------------------------------
(***************************************************************************)
(* The result is honest                                                    *)
(***************************************************************************)

LEMMA ResultsDistinct ==
  /\ NoResult \notin Results
  /\ Victories \subseteq Results
  /\ "loss_assassin" \in Results \ Victories
  /\ "loss_stopped_sd" \in Results \ Victories
  /\ "loss_civilian_sd" \in Results \ Victories
  /\ "loss_assassin_sd" \in Results \ Victories
BY DEF Results, NoResult, Victories

\* Handing over never ends the game.
LEMMA SwitchRolesGoesOn ==
  ASSUME NEW live, SwitchRoles(live)
  PROVE  phase' \in {GivingClue, SDLlm, SDHuman} /\ UNCHANGED result
BY DEF SwitchRoles

\* A game that was not over ends in a loss with words still to find.
LEMMA LossKeepsWonIff ==
  ASSUME WonIffAllFound, result = NoResult, UNCHANGED pending,
         NEW res \in Results \ Victories, FinishGame(res)
  PROVE  WonIffAllFound'
<1>1. AnyPendingWords
  BY ResultsDistinct DEF WonIffAllFound
<1>2. AnyPendingWords'
  BY <1>1 DEF AnyPendingWords
<1>3. QED BY <1>2, ResultsDistinct DEF WonIffAllFound, FinishGame, IsGameOver

\* A step that neither ends the game nor finds a word.
LEMMA OpenKeepsWonIff ==
  ASSUME WonIffAllFound, result = NoResult, AnyPendingWords',
         phase' # GameOver, UNCHANGED result
  PROVE  WonIffAllFound'
BY ResultsDistinct DEF WonIffAllFound, IsGameOver

LEMMA WonIffStep ==
  PhaseInv /\ PendingMatchesBoard' /\ WonIffAllFound /\ [Next]_vars => WonIffAllFound'
<1> SUFFICES ASSUME PhaseInv, PendingMatchesBoard', WonIffAllFound, [Next]_vars
             PROVE  WonIffAllFound'
  OBVIOUS
<1>0. GameOver \notin {GivingClue, SDLlm, SDHuman, Guessing}
  BY PhasesDistinct DEF SDPhases
<1>a. phase # GameOver => result = NoResult /\ AnyPendingWords
  BY ResultsDistinct DEF WonIffAllFound, IsGameOver
<1>b. UNCHANGED pending /\ AnyPendingWords => AnyPendingWords'
  BY DEF AnyPendingWords
<1>1. ASSUME NEW p \in Seats, NEW word \in ClueWords, ReceiveClue(p, word)
      PROVE  WonIffAllFound'
  <2>1. phase # GameOver /\ UNCHANGED pending
    BY <1>0, <1>1 DEF ReceiveClue
  <2>2. phase' # GameOver /\ UNCHANGED result
    BY <1>0, <1>1, SwitchRolesGoesOn DEF ReceiveClue, OpenGuessing
  <2>3. QED BY <1>a, <1>b, <2>1, <2>2, OpenKeepsWonIff
<1>2. CASE AttachConfidenceRanking
  BY <1>0, <1>2, <1>a, <1>b, OpenKeepsWonIff DEF AttachConfidenceRanking
<1>3. ASSUME NEW p \in Seats, AttachSuddenDeathRanking(p) PROVE WonIffAllFound'
  BY <1>a, <1>b, <1>3, OpenKeepsWonIff, PhasesDistinct DEF AttachSuddenDeathRanking
<1>4. ASSUME NEW p \in Seats, NEW c \in Cards, ResolveGuess(p, c) PROVE WonIffAllFound'
  <2>1. phase # GameOver
    BY <1>4, PhasesDistinct DEF ResolveGuess, MayGuess
  <2>2. CASE RevealAgent(p, c)
    <3>1. CASE WinAfterReveal
      <4>1. ~AnyPendingWords'
        BY <3>1 DEF WinAfterReveal, AnyPendingWords
      <4>2. phase' = GameOver /\ result' \in Victories
        BY <3>1 DEF WinAfterReveal, FinishGame, Victories
      <4>3. QED BY <4>1, <4>2, ResultsDistinct DEF WonIffAllFound, IsGameOver
    <3>2. CASE TurnEndsOnLastWord(p)
      <4>1. AnyPendingWords' /\ phase' # GameOver /\ UNCHANGED result
        BY <1>0, <3>2, SwitchRolesGoesOn DEF TurnEndsOnLastWord, StopTurn
      <4>2. QED BY <1>a, <2>1, <4>1, OpenKeepsWonIff
    <3>3. CASE HandOffSuddenDeath
      <4>1. AnyPendingWords' /\ phase' # GameOver /\ UNCHANGED result
        BY <1>0, <3>3 DEF HandOffSuddenDeath
      <4>2. QED BY <1>a, <2>1, <4>1, OpenKeepsWonIff
    <3>4. CASE KeepGuessing(p)
      <4>1. AnyPendingWords' /\ phase' # GameOver /\ UNCHANGED result
        BY <2>1, <3>4 DEF KeepGuessing
      <4>2. QED BY <1>a, <2>1, <4>1, OpenKeepsWonIff
    <3>5. QED BY <2>2, <3>1, <3>2, <3>3, <3>4 DEF RevealAgent
  <2>3. CASE TouchAssassin
    BY <1>a, <2>1, <2>3, LossKeepsWonIff, ResultsDistinct DEF TouchAssassin
  <2>4. CASE TouchBystander(c)
    <3>1. UNCHANGED pending /\ phase' # GameOver /\ UNCHANGED result
      BY <1>0, <2>4, SwitchRolesGoesOn DEF TouchBystander
    <3>2. QED BY <1>a, <1>b, <2>1, <3>1, OpenKeepsWonIff
  <2>5. ASSUME NEW role, MissInSuddenDeath(role) PROVE WonIffAllFound'
    <3>1. PICK res \in Results \ Victories : FinishGame(res)
      BY <2>5, ResultsDistinct DEF MissInSuddenDeath
    <3>2. QED BY <1>a, <2>1, <2>5, <3>1, LossKeepsWonIff DEF MissInSuddenDeath
  <2>6. QED BY <1>4, <2>2, <2>3, <2>4, <2>5 DEF ResolveGuess
<1>5. ASSUME NEW p \in Seats, PassTurn(p) PROVE WonIffAllFound'
  <2>1. phase # GameOver /\ UNCHANGED pending
    BY <1>0, <1>5 DEF PassTurn
  <2>2. phase' # GameOver /\ UNCHANGED result
    BY <1>0, <1>5, SwitchRolesGoesOn DEF PassTurn, StopTurn
  <2>3. QED BY <1>a, <1>b, <2>1, <2>2, OpenKeepsWonIff
<1>6. ASSUME NEW p \in Seats, ConcedeSuddenDeath(p) PROVE WonIffAllFound'
  BY <1>a, <1>6, LossKeepsWonIff, ResultsDistinct, PhasesDistinct DEF ConcedeSuddenDeath
<1>7. CASE UNCHANGED vars
  BY <1>7 DEF vars, WonIffAllFound, IsGameOver, AnyPendingWords
<1>8. QED BY <1>1, <1>2, <1>3, <1>4, <1>5, <1>6, <1>7 DEF Next

\* A game is won exactly when both seats have found all their words, and has a
\* result exactly when it is over.
THEOREM ResultCorrect == Spec => []WonIffAllFound
<1>1. Init => WonIffAllFound
  BY CountAssumption, PhasesDistinct, ResultsDistinct
     DEF Init, WonIffAllFound, IsGameOver, AnyPendingWords, Seats
<1>2. QED
  BY <1>1, WonIffStep, PhaseInvariant, PendingCorrect, PTL DEF Spec

-----------------------------------------------------------------------------
(***************************************************************************)
(* The engine implements DuetRules                                         *)
(***************************************************************************)

RulesInv == PhaseInv /\ RevealedByIsWhoFoundIt /\ WonIffAllFound

\* A seat has found every word exactly when its counter is zero.
LEMMA FoundAll ==
  ASSUME NEW s \in Seats, NEW covered, NEW by,
         \A c \in Cards : s \in by[c] <=> c \in covered /\ Side[Other(s)][c] = Agent
  PROVE  {c \in Cards : s \in by[c]} = Having(Agent, Other(s))
           <=> Cardinality(Having(Agent, Other(s)) \ covered) = 0
<1>1. {c \in Cards : s \in by[c]} = Having(Agent, Other(s)) \cap covered
  BY DEF Having
<1>2. Cardinality(Having(Agent, Other(s)) \ covered) = 0
        <=> Having(Agent, Other(s)) \ covered = {}
  BY PendingFinite, FS_EmptySet
<1>3. QED BY <1>1, <1>2

LEMMA FoundIffNothingPending ==
  ASSUME PendingMatchesBoard, RevealedByIsWhoFoundIt, NEW s \in Seats
  PROVE  WordsFound[s] = WordsToFind[s] <=> pending[s] = 0
<1>1. \A c \in Cards : s \in revealedBy[c] <=> c \in revealed /\ Side[Other(s)][c] = Agent
  BY DEF RevealedByIsWhoFoundIt
<1>2. pending[s] = Cardinality(Having(Agent, Other(s)) \ revealed)
  BY DEF PendingMatchesBoard, PendingOnBoard
<1>3. {c \in Cards : s \in revealedBy[c]} = Having(Agent, Other(s)) <=> pending[s] = 0
  BY <1>1, <1>2, FoundAll
<1>4. QED BY <1>3 DEF WordsFound, WordsToFind

LEMMA FoundIffNothingPendingNext ==
  ASSUME PendingMatchesBoard', RevealedByIsWhoFoundIt', NEW s \in Seats
  PROVE  WordsFound'[s] = WordsToFind[s] <=> pending'[s] = 0
<1>1. \A c \in Cards : s \in revealedBy'[c] <=> c \in revealed' /\ Side[Other(s)][c] = Agent
  BY DEF RevealedByIsWhoFoundIt
<1>2. pending'[s] = Cardinality(Having(Agent, Other(s)) \ revealed')
  BY DEF PendingMatchesBoard, PendingOnBoard
<1>3. {c \in Cards : s \in revealedBy'[c]} = Having(Agent, Other(s)) <=> pending'[s] = 0
  BY <1>1, <1>2, FoundAll
<1>4. QED BY <1>3 DEF WordsFound, WordsToFind

\* Payments of the engine are payments of the rules.
LEMMA SwitchIsPay ==
  ASSUME result = NoResult, phase \notin SDPhases, timer > 0, timer \in Int,
         timer' = timer - 1, AnyPendingWords', NEW live, SwitchRoles(live)
  PROVE  Rules!Pay
<1>1. Standing = "playing"
  BY DEF Standing
<1>2. UNCHANGED result
  BY DEF SwitchRoles
<1>3. CASE timer' = 0
  <2>1. phase' \in SDPhases
    BY <1>3 DEF SwitchRoles, SDPhases
  <2>2. Standing' = "sudden_death"
    BY <1>2, <2>1 DEF Standing
  <2>3. QED BY <1>1, <1>3, <2>2 DEF Rules!Pay
<1>4. CASE timer' # 0
  <2>1. phase' = GivingClue
    BY <1>4 DEF SwitchRoles
  <2>2. Standing' = "playing"
    BY <1>2, <2>1, PhasesDistinct DEF Standing
  <2>3. QED BY <1>1, <1>4, <2>2 DEF Rules!Pay
<1>5. QED BY <1>3, <1>4

\* A hit is a word found, on each of its four ways out.
LEMMA HitIsFind ==
  ASSUME RulesInv, RulesInv', NEW p \in Seats, NEW c \in Cards, Hit(p, c)
  PROVE  Rules!Find(p, c)
<1>1. phase # GameOver /\ result = NoResult /\ (phase \in SDPhases \/ phase = Guessing)
  BY PhasesDistinct, ResultsDistinct
     DEF Hit, MayGuess, RulesInv, WonIffAllFound, IsGameOver
<1>2. Standing = (IF phase \in SDPhases THEN "sudden_death" ELSE "playing")
  BY <1>1 DEF Standing
<1>3. Rules!HasTheTurn(p)
  <2>1. Standing = "sudden_death" /\ p = 1 => phase = SDHuman
    BY <1>2, PhasesDistinct DEF Hit, MayGuess, SDPhases
  <2>2. phase = SDHuman => WordsFound[0] = WordsToFind[0]
    BY FoundIffNothingPending DEF RulesInv, PhaseInv, PhaseFitsTheBoard, Seats
  <2>3. QED BY <2>1, <2>2 DEF Rules!HasTheTurn
<1>4. c \in WordsToFind[p] \ WordsFound[p]
  BY DEF Hit, IsGuessableBy, IsCovered, WordsToFind, WordsFound, Having, RulesInv,
         RevealedByIsWhoFoundIt
<1>5. WordsFound' = [t \in Rules!Seats |->
                       IF c \in WordsToFind[t] THEN WordsFound[t] \cup {c} ELSE WordsFound[t]]
  <2>1. \A t \in Seats : t \in Finders(p, c) <=> c \in WordsToFind[t]
    BY DEF Hit, Finders, WordsToFind, Having, Seats, Other
  <2>2. revealedBy' = [revealedBy EXCEPT ![c] = @ \cup Finders(p, c)]
    BY DEF Hit, RevealAgent
  <2>3. \A t \in Seats : {d \in Cards : t \in revealedBy'[d]} =
           IF c \in WordsToFind[t] THEN {d \in Cards : t \in revealedBy[d]} \cup {c}
                                   ELSE {d \in Cards : t \in revealedBy[d]}
    BY <2>1, <2>2 DEF RulesInv, PhaseInv, TypeOK
  <2>4. QED BY <2>3 DEF WordsFound, Rules!Seats, Seats
<1>6. Rules!AllFound' <=> ~AnyPendingWords'
  <2>1. \A s \in Seats : WordsFound'[s] = WordsToFind[s] <=> pending'[s] = 0
    BY FoundIffNothingPendingNext DEF RulesInv, PhaseInv
  <2>2. \A s \in Seats : pending'[s] \in Nat
    BY PendingFinite DEF RulesInv, PhaseInv, PendingMatchesBoard, PendingOnBoard
  <2>3. QED BY <2>1, <2>2 DEF Rules!AllFound, Rules!Seats, Seats, AnyPendingWords
<1>7. WordsFound'[p] = WordsToFind[p] <=> pending'[p] = 0
  BY FoundIffNothingPendingNext DEF RulesInv, PhaseInv
<1>8. Standing \in Rules!Live
  BY <1>2 DEF Rules!Live
<1>9. \/ /\ Rules!AllFound'
         /\ Standing' = "won"
         /\ timer' = IF Standing = "playing" THEN timer - 1 ELSE timer
      \/ /\ ~Rules!AllFound'
         /\ WordsFound'[p] = WordsToFind[p]
         /\ Rules!Pay
      \/ /\ ~Rules!AllFound'
         /\ Standing = "playing" => WordsFound'[p] # WordsToFind[p]
         /\ UNCHANGED <<timer, Standing>>
  <2>1. CASE WinAfterReveal
    <3>1. ~AnyPendingWords'
      BY <2>1 DEF WinAfterReveal, AnyPendingWords
    <3>2. result' \in Victories
      BY <2>1 DEF WinAfterReveal, FinishGame, Victories
    <3>3. Standing' = "won"
      BY <3>2, ResultsDistinct DEF Standing
    <3>4. timer' = IF phase \in SDPhases THEN timer ELSE timer - 1
      BY <2>1 DEF WinAfterReveal, tokenVars, Spend
    <3>5. QED BY <1>2, <1>6, <3>1, <3>3, <3>4
  <2>2. CASE TurnEndsOnLastWord(p)
    <3>1. /\ AnyPendingWords' /\ phase = Guessing /\ pending'[p] = 0
          /\ timer' = timer - 1 /\ SwitchRoles(clue)
      BY <2>2 DEF TurnEndsOnLastWord, StopTurn, Spend
    <3>2. timer > 0 /\ timer \in Int
      BY <3>1 DEF RulesInv, PhaseInv, PhaseFitsTheBoard, TypeOK
    <3>3. Rules!Pay
      BY <1>1, <3>1, <3>2, SwitchIsPay, PhasesDistinct
    <3>4. QED BY <1>6, <1>7, <3>1, <3>3
  <2>3. CASE HandOffSuddenDeath
    <3>1. /\ AnyPendingWords' /\ phase = SDLlm /\ phase' = SDHuman
          /\ UNCHANGED <<timer, result>>
      BY <2>3 DEF HandOffSuddenDeath, tokenVars
    <3>2. Standing = "sudden_death" /\ Standing' = "sudden_death"
      BY <1>1, <3>1 DEF Standing, SDPhases
    <3>3. QED BY <1>6, <3>1, <3>2
  <2>4. CASE KeepGuessing(p)
    <3>1. /\ AnyPendingWords' /\ UNCHANGED <<phase, timer, result>>
          /\ phase = Guessing => pending'[p] # 0
      BY <2>4 DEF KeepGuessing, tokenVars
    <3>2. UNCHANGED Standing
      BY <3>1 DEF Standing
    <3>3. Standing = "playing" => phase = Guessing
      BY <1>1, <1>2
    <3>4. QED BY <1>6, <1>7, <3>1, <3>2, <3>3
  <2>5. QED BY <2>1, <2>2, <2>3, <2>4 DEF Hit, RevealAgent
<1>10. QED BY <1>3, <1>4, <1>5, <1>8, <1>9 DEF Rules!Find

\* A payment of the engine that finds nothing.
LEMMA PayOnlyStep ==
  ASSUME RulesInv, RulesInv', phase \in {GivingClue, Guessing}, UNCHANGED revealedBy,
         timer' = timer - 1, UNCHANGED pending, NEW live, SwitchRoles(live)
  PROVE  Rules!PayOnly
<1>1. result = NoResult /\ phase \notin SDPhases
  BY PhasesDistinct DEF RulesInv, WonIffAllFound, IsGameOver
<1>2. timer > 0 /\ timer \in Int /\ pending[guesser] > 0 /\ guesser \in Seats
  BY DEF RulesInv, PhaseInv, PhaseFitsTheBoard, TypeOK
<1>3. AnyPendingWords'
  BY <1>2 DEF AnyPendingWords
<1>4. Rules!Pay
  BY <1>1, <1>2, <1>3, SwitchIsPay
<1>5. QED BY <1>4 DEF Rules!PayOnly, WordsFound

\* A loss of the engine is a loss of the rules.
LEMMA LossIsLose ==
  ASSUME RulesInv, phase # GameOver, UNCHANGED <<revealedBy, timer>>,
         NEW res \in Results \ Victories, FinishGame(res)
  PROVE  Rules!Lose
<1>1. result = NoResult
  BY DEF RulesInv, WonIffAllFound, IsGameOver
<1>2. Standing \in Rules!Live
  BY <1>1 DEF Standing, Rules!Live
<1>3. Standing' = "lost"
  BY ResultsDistinct DEF Standing, FinishGame
<1>4. QED BY <1>2, <1>3 DEF Rules!Lose, WordsFound

\* What the rules do not see.
LEMMA RulesStutter ==
  ASSUME UNCHANGED <<revealedBy, timer, result>>, phase \in SDPhases <=> phase' \in SDPhases
  PROVE  UNCHANGED Rules!vars
BY DEF Rules!vars, WordsFound, Standing

LEMMA RulesStep ==
  RulesInv /\ RulesInv' /\ [Next]_vars => [Rules!Next]_(Rules!vars)
<1> SUFFICES ASSUME RulesInv, RulesInv', [Next]_vars
             PROVE  [Rules!Next]_(Rules!vars)
  OBVIOUS
<1>1. ASSUME NEW p \in Seats, NEW word \in ClueWords, ReceiveClue(p, word)
      PROVE  [Rules!Next]_(Rules!vars)
  <2>1. phase = GivingClue /\ UNCHANGED <<pending, revealedBy>>
    BY <1>1 DEF ReceiveClue, cardVars
  <2>2. CASE ~Offends(word)
    <3>1. phase' = Guessing /\ UNCHANGED <<timer, result>>
      BY <1>1, <2>2 DEF ReceiveClue, OpenGuessing, tokenVars
    <3>2. QED BY <2>1, <3>1, RulesStutter, PhasesDistinct
  <2>3. CASE Offends(word) /\ timer' = 0
    <3>1. timer' = timer - 1 /\ SwitchRoles(ClueEntry(p, word))
      BY <1>1, <2>3 DEF ReceiveClue, Spend
    <3>2. Rules!PayOnly
      BY <2>1, <3>1, PayOnlyStep
    <3>3. QED BY <3>2 DEF Rules!Next
  <2>4. CASE Offends(word) /\ timer' # 0
    <3>1. timer' = timer - 1 /\ phase' = Guessing /\ UNCHANGED result
      BY <1>1, <2>4 DEF ReceiveClue, Spend, OpenGuessing
    <3>2. result = NoResult
      BY <2>1, PhasesDistinct DEF RulesInv, WonIffAllFound, IsGameOver
    <3>3. Standing = "playing" /\ Standing' = "playing"
      BY <2>1, <3>1, <3>2, PhasesDistinct DEF Standing
    <3>4. Rules!PayOnly
      BY <2>1, <2>4, <3>1, <3>3 DEF Rules!PayOnly, Rules!Pay, WordsFound
    <3>5. QED BY <3>4 DEF Rules!Next
  <2>5. QED BY <2>2, <2>3, <2>4
<1>2. CASE AttachConfidenceRanking
  BY <1>2, RulesStutter DEF AttachConfidenceRanking, cardVars, tokenVars
<1>3. ASSUME NEW p \in Seats, AttachSuddenDeathRanking(p)
      PROVE  [Rules!Next]_(Rules!vars)
  BY <1>3, RulesStutter DEF AttachSuddenDeathRanking, cardVars, tokenVars
<1>4. ASSUME NEW p \in Seats, NEW c \in Cards, ResolveGuess(p, c)
      PROVE  [Rules!Next]_(Rules!vars)
  <2>1. phase # GameOver
    BY <1>4, PhasesDistinct DEF ResolveGuess, MayGuess
  <2>2. CASE Side[Other(p)][c] = Agent /\ RevealAgent(p, c)
    <3>1. Rules!Find(p, c)
      BY <1>4, <2>2, HitIsFind DEF ResolveGuess, Hit
    <3>2. QED BY <3>1 DEF Rules!Next, Rules!Seats, Seats
  <2>3. CASE TouchAssassin
    <3>1. Rules!Lose
      BY <2>1, <2>3, LossIsLose, ResultsDistinct DEF TouchAssassin, cardVars, tokenVars
    <3>2. QED BY <3>1 DEF Rules!Next
  <2>4. CASE phase = Guessing /\ TouchBystander(c)
    <3>1. Rules!PayOnly
      BY <2>4, PayOnlyStep DEF TouchBystander, Spend
    <3>2. QED BY <3>1 DEF Rules!Next
  <2>5. ASSUME NEW role, MissInSuddenDeath(role) PROVE [Rules!Next]_(Rules!vars)
    <3>1. PICK res \in Results \ Victories : FinishGame(res)
      BY <2>5, ResultsDistinct DEF MissInSuddenDeath
    <3>2. Rules!Lose
      BY <2>1, <2>5, <3>1, LossIsLose DEF MissInSuddenDeath, cardVars, tokenVars
    <3>3. QED BY <3>2 DEF Rules!Next
  <2>6. QED BY <1>4, <2>2, <2>3, <2>4, <2>5 DEF ResolveGuess
<1>5. ASSUME NEW p \in Seats, PassTurn(p) PROVE [Rules!Next]_(Rules!vars)
  <2>1. Rules!PayOnly
    BY <1>5, PayOnlyStep DEF PassTurn, StopTurn, Spend, cardVars
  <2>2. QED BY <2>1 DEF Rules!Next
<1>6. ASSUME NEW p \in Seats, ConcedeSuddenDeath(p) PROVE [Rules!Next]_(Rules!vars)
  <2>1. Rules!Lose
    BY <1>6, LossIsLose, ResultsDistinct, PhasesDistinct
       DEF ConcedeSuddenDeath, cardVars, tokenVars
  <2>2. QED BY <2>1 DEF Rules!Next
<1>7. CASE UNCHANGED vars
  BY <1>7, RulesStutter DEF vars, cardVars, tokenVars
<1>8. QED BY <1>1, <1>2, <1>3, <1>4, <1>5, <1>6, <1>7 DEF Next

\* Every game of the engine, on every board, is a game of DuetRules.
THEOREM EngineImplementsRules == Spec => PlaysByTheRules
<1>1. Init => Rules!Init
  <2> SUFFICES ASSUME Init PROVE Rules!Init
    OBVIOUS
  <2>1. WordsFound = [s \in Rules!Seats |-> {}]
    BY DEF Init, WordsFound, Rules!Seats, Seats
  <2>2. Standing = "playing" /\ timer = Tokens
    BY PhasesDistinct DEF Init, Standing
  <2>3. QED BY <2>1, <2>2 DEF Rules!Init
<1>2. Spec => []RulesInv
  BY PhaseInvariant, RevealedByCorrect, ResultCorrect, PTL DEF RulesInv
<1>3. QED
  BY <1>1, <1>2, RulesStep, PTL DEF Spec, PlaysByTheRules, Rules!Spec

-----------------------------------------------------------------------------
(***************************************************************************)
(* The time tokens on the words                                            *)
(***************************************************************************)

\* The tokens on the words, each with the seat it belongs to.
Laid == {m \in Cards \X Seats : m[2] \in markers[m[1]]}

LEMMA LaidFinite == IsFiniteSet(Laid)
<1>1. IsFiniteSet(Seats)
  <2>1. IsFiniteSet(0 .. 1)
    BY FS_Interval, 0 \in Int, 1 \in Int
  <2>2. Seats = 0 .. 1
    BY DEF Seats
  <2>3. QED BY <2>1, <2>2
<1>2. IsFiniteSet(Cards \X Seats)
  BY <1>1, CardsAssumption, FS_Product
<1>3. Laid \subseteq Cards \X Seats
  BY DEF Laid
<1>4. QED BY <1>2, <1>3, FS_Subset

\* A bystander is the only thing a token of the bystander pile is spent on.
LEMMA BystanderPile ==
  ASSUME TypeOK, [Next]_vars
  PROVE  \/ \E p \in Seats, c \in Cards :
              Bystander(p, c) /\ spent'["bystander"] = spent["bystander"] + 1
         \/ markers' = markers /\ spent'["bystander"] = spent["bystander"]
<1> USE DEF TypeOK, Piles
<1>1. ASSUME NEW pile \in {"check", "penalty"}, Spend(pile)
      PROVE  spent'["bystander"] = spent["bystander"]
  BY <1>1 DEF Spend
<1>2. ASSUME NEW p \in Seats, NEW word \in ClueWords, ReceiveClue(p, word)
      PROVE  markers' = markers /\ spent'["bystander"] = spent["bystander"]
  BY <1>1, <1>2 DEF ReceiveClue, cardVars, tokenVars
<1>3. ASSUME NEW p \in Seats,
             AttachConfidenceRanking \/ AttachSuddenDeathRanking(p) \/ ConcedeSuddenDeath(p)
      PROVE  markers' = markers /\ spent'["bystander"] = spent["bystander"]
  BY <1>3 DEF AttachConfidenceRanking, AttachSuddenDeathRanking, ConcedeSuddenDeath,
              cardVars, tokenVars
<1>4. ASSUME NEW p \in Seats, PassTurn(p)
      PROVE  markers' = markers /\ spent'["bystander"] = spent["bystander"]
  BY <1>1, <1>4 DEF PassTurn, StopTurn, cardVars
<1>5. ASSUME NEW p \in Seats, NEW c \in Cards, ResolveGuess(p, c)
      PROVE  \/ Bystander(p, c) /\ spent'["bystander"] = spent["bystander"] + 1
             \/ markers' = markers /\ spent'["bystander"] = spent["bystander"]
  <2>1. ASSUME RevealAgent(p, c)
        PROVE  markers' = markers /\ spent'["bystander"] = spent["bystander"]
    BY <1>1, <2>1 DEF RevealAgent, WinAfterReveal, TurnEndsOnLastWord, StopTurn,
                      HandOffSuddenDeath, KeepGuessing, tokenVars
  <2>2. ASSUME phase = Guessing, MayGuess(p), IsGuessableBy(p, c),
               Side[Other(p)][c] = Civilian, TouchBystander(c)
        PROVE  Bystander(p, c) /\ spent'["bystander"] = spent["bystander"] + 1
    BY <2>2 DEF TouchBystander, Spend, Bystander, MayGuess, SDPhase, SDLlm, SDHuman, Guessing
  <2>3. QED
    BY <1>5, <2>1, <2>2
       DEF ResolveGuess, TouchAssassin, MissInSuddenDeath, cardVars, tokenVars
<1>6. CASE UNCHANGED vars
  BY <1>6 DEF vars, cardVars, tokenVars
<1>7. QED BY <1>2, <1>3, <1>4, <1>5, <1>6 DEF Next, Seats

LEMMA BystanderTokensStep ==
  TypeOK /\ BystanderTokensOnWords /\ [Next]_vars => BystanderTokensOnWords'
<1> SUFFICES ASSUME TypeOK, BystanderTokensOnWords, [Next]_vars
             PROVE  BystanderTokensOnWords'
  OBVIOUS
<1>1. ASSUME markers' = markers, spent'["bystander"] = spent["bystander"]
      PROVE  BystanderTokensOnWords'
  BY <1>1 DEF BystanderTokensOnWords
<1>2. ASSUME NEW p \in Seats, NEW c \in Cards, Bystander(p, c),
             spent'["bystander"] = spent["bystander"] + 1
      PROVE  BystanderTokensOnWords'
  <2>1. p = guesser /\ p \notin markers[c]
    BY <1>2 DEF Bystander, IsGuessableBy
  <2>2. markers' = [markers EXCEPT ![c] = @ \cup {p}]
    BY <1>2, <2>1 DEF Bystander, TouchBystander
  <2>3. Laid' = Laid \cup {<<c, p>>}
    BY <2>2 DEF Laid, TypeOK
  <2>4. <<c, p>> \notin Laid
    BY <2>1 DEF Laid
  <2>5. Cardinality(Laid') = Cardinality(Laid) + 1
    BY <2>3, <2>4, LaidFinite, FS_AddElement
  <2>6. QED BY <1>2, <2>5 DEF BystanderTokensOnWords, Laid
<1>3. QED BY <1>1, <1>2, BystanderPile

\* The tokens spent on bystanders are the tokens lying on the words.
THEOREM BystanderTokensCorrect == Spec => []BystanderTokensOnWords
<1>1. Init => BystanderTokensOnWords
  <2> SUFFICES ASSUME Init PROVE BystanderTokensOnWords
    OBVIOUS
  <2>1. Laid = {}
    BY DEF Init, Laid
  <2>2. spent["bystander"] = 0
    BY DEF Init, Piles
  <2>3. QED BY <2>1, <2>2, FS_EmptySet DEF BystanderTokensOnWords, Laid
<1>2. QED BY <1>1, TypeCorrect, BystanderTokensStep, PTL DEF Spec

\* What lies on a covered word is final, and nothing leaves a word.
THEOREM CoveredCorrect == Spec => CoveredIsFinal
<1> DEFINE Final(c) ==
      /\ markers[c] \subseteq markers'[c]
      /\ (c \in revealed => c \in revealed')
      /\ IsCovered(c) => /\ markers'[c] = markers[c]
                         /\ revealedBy'[c] = revealedBy[c]
                         /\ c \in revealed' => c \in revealed
<1>1. TypeOK /\ [Next]_vars => [\A c \in Cards : Final(c)]_vars
  <2> SUFFICES ASSUME TypeOK, [Next]_vars, NEW c \in Cards PROVE Final(c)
    OBVIOUS
  <2>1. ASSUME NEW p \in Seats, NEW d \in Cards, Hit(p, d) PROVE Final(c)
    BY <2>1 DEF Hit, RevealAgent, IsGuessableBy, TypeOK
  <2>2. ASSUME NEW p \in Seats, NEW d \in Cards, Bystander(p, d) PROVE Final(c)
    BY <2>2 DEF Bystander, TouchBystander, IsGuessableBy, TypeOK
  <2>3. CASE UNCHANGED <<pending, revealed, revealedBy, markers, visible>>
    BY <2>3
  <2>4. QED BY <2>1, <2>2, <2>3, CardSteps
<1>2. QED BY <1>1, TypeCorrect, PTL DEF Spec, CoveredIsFinal

\* A seat with nothing left to find never moves again, in a turn of its own or in
\* sudden death, and no token and no found word is its doing any more.
THEOREM DoneSeatsRest == Spec => DoneSeatTouchesNothing
<1> DEFINE Rests(s) ==
      pending[s] = 0 =>
        /\ \A c \in Cards : /\ s \in markers'[c] => s \in markers[c]
                            /\ s \in revealedBy'[c] => s \in revealedBy[c]
        /\ ~Plays(s)
<1>1. PhaseInv /\ [Next]_vars => [\A s \in Seats : Rests(s)]_vars
  <2> SUFFICES ASSUME PhaseInv, [Next]_vars, NEW s \in Seats, pending[s] = 0
               PROVE  /\ \A c \in Cards : /\ s \in markers'[c] => s \in markers[c]
                                          /\ s \in revealedBy'[c] => s \in revealedBy[c]
                      /\ ~Plays(s)
    OBVIOUS
  <2>1. ~(guesser = s /\ phase = Guessing) /\ phase # SDPhase[s]
    BY PhasesDistinct DEF PhaseInv, PhaseFitsTheBoard, SDPhase, Seats
  <2>2. ~Plays(s)
    BY <2>1 DEF Plays, ResolveGuess, MayGuess, PassTurn, ConcedeSuddenDeath
  <2>3. ASSUME NEW p \in Seats, NEW d \in Cards, Hit(p, d)
        PROVE  UNCHANGED markers /\ \A c \in Cards : s \in revealedBy'[c] => s \in revealedBy[c]
    <3>1. s \notin Finders(p, d)
      <4>1. PendingMatchesBoard'
        BY PendingMatchesBoardStep DEF PhaseInv
      <4>2. IsFiniteSet(PendingOnBoard(s)')
        BY PendingFinite DEF PendingOnBoard
      <4>3. Cardinality(PendingOnBoard(s)') \in Nat
        BY <4>2, FS_CardinalityType
      <4>4. pending'[s] = Cardinality(PendingOnBoard(s)')
        BY <4>1 DEF PendingMatchesBoard
      <4>5. pending'[s] # -1
        BY <4>3, <4>4
      <4>6. s \in Finders(p, d) => pending'[s] = pending[s] - 1
        BY <2>3 DEF Hit, RevealAgent, PhaseInv, TypeOK
      <4>7. QED BY <4>5, <4>6
    <3>2. UNCHANGED markers /\ revealedBy' = [revealedBy EXCEPT ![d] = @ \cup Finders(p, d)]
      BY <2>3 DEF Hit, RevealAgent
    <3>3. QED BY <3>1, <3>2 DEF PhaseInv, TypeOK
  <2>4. ASSUME NEW p \in Seats, NEW d \in Cards, Bystander(p, d)
        PROVE  UNCHANGED revealedBy /\ \A c \in Cards : s \in markers'[c] => s \in markers[c]
    BY <2>1, <2>4 DEF Bystander, TouchBystander, PhaseInv, TypeOK
  <2>5. QED BY <2>2, <2>3, <2>4, CardSteps
<1>2. QED BY <1>1, PhaseInvariant, PTL DEF Spec, DoneSeatTouchesNothing

-----------------------------------------------------------------------------
(***************************************************************************)
(* The archive and the piles of tokens                                     *)
(***************************************************************************)

\* The archived clues that were invalid, by their place in the archive.
InvalidArchived == {i \in DOMAIN history : history[i].invalid}

\* The tokens that paid for a turn.
TurnTokens == spent["bystander"] + spent["check"]

\* What must be known of the clue in play for the archive to be right: it is
\* there while somebody guesses on it, and it is the clue of this very turn.
ClueOfThisTurn ==
  /\ phase = GivingClue => clue = NoClue
  /\ phase = Guessing => clue # NoClue
  /\ clue # NoClue => clue.turn = turn /\ clue.giver = clueGiver

ArchiveInOrder ==
  /\ Len(history) = turn - 1
  /\ \A i \in DOMAIN history : history[i].turn = i

PenaltiesPaid ==
  spent["penalty"] = Cardinality(InvalidArchived) + (IF clue.invalid THEN 1 ELSE 0)

\* Every ended turn is paid for while a turn is being played; only after the
\* last token went on a penalty is one not.
TurnsPaid ==
  /\ result = "victory" => TurnTokens = Len(history) + 1
  /\ result # "victory" =>
       \/ TurnTokens = Len(history)
       \/ /\ phase \notin {GivingClue, Guessing}
          /\ TurnTokens = Len(history) - 1 /\ timer = 0 /\ history[Len(history)].invalid

ArchiveInv == ClueOfThisTurn /\ ArchiveInOrder /\ PenaltiesPaid /\ TurnsPaid

LEMMA InvalidFinite ==
  ASSUME TypeOK
  PROVE  IsFiniteSet(InvalidArchived) /\ Cardinality(InvalidArchived) \in Nat
<1>1. DOMAIN history = 1 .. Len(history) /\ Len(history) \in Nat
  BY DEF TypeOK
<1>2. IsFiniteSet(1 .. Len(history))
  BY <1>1, FS_Interval, 1 \in Int
<1>3. InvalidArchived \in SUBSET (1 .. Len(history))
  BY <1>1 DEF InvalidArchived
<1>4. QED BY <1>2, <1>3, FS_Subset, FS_CardinalityType

\* Handing over archives the live clue under the number of its turn, and the
\* archive holds one invalid clue more exactly when the live one was invalid.
LEMMA SwitchFiles ==
  ASSUME TypeOK, ArchiveInOrder, NEW live \in ClueEntries, live.turn = turn,
         SwitchRoles(live)
  PROVE  /\ ArchiveInOrder' /\ ClueOfThisTurn'
         /\ ~clue'.invalid
         /\ Len(history') = Len(history) + 1
         /\ history'[Len(history')] = live
         /\ Cardinality(InvalidArchived') =
              Cardinality(InvalidArchived) + (IF live.invalid THEN 1 ELSE 0)
<1>1. /\ history \in Seq(ClueEntries) /\ turn \in Nat /\ Len(history) \in Nat
      /\ history' = Append(history, live) /\ turn' = turn + 1 /\ clue' = NoClue
      /\ Len(history) = turn - 1 /\ \A i \in DOMAIN history : history[i].turn = i
  BY DEF TypeOK, ArchiveInOrder, SwitchRoles
<1>2. /\ Len(history') = Len(history) + 1
      /\ DOMAIN history = 1 .. Len(history)
      /\ DOMAIN history' = 1 .. (Len(history) + 1)
      /\ history'[Len(history) + 1] = live
      /\ \A i \in 1 .. Len(history) : history'[i] = history[i]
  BY <1>1
<1>3. ArchiveInOrder'
  BY <1>1, <1>2 DEF ArchiveInOrder
<1>4. ClueOfThisTurn' /\ ~clue'.invalid
  <2>1. phase' # Guessing
    BY PhasesDistinct DEF SwitchRoles, SDPhases
  <2>2. QED BY <1>1, <2>1 DEF ClueOfThisTurn, NoClue
<1>5. Cardinality(InvalidArchived') =
        Cardinality(InvalidArchived) + (IF live.invalid THEN 1 ELSE 0)
  <2>1. CASE live.invalid
    <3>1. InvalidArchived' = InvalidArchived \cup {Len(history) + 1}
      BY <1>1, <1>2, <2>1 DEF InvalidArchived
    <3>2. Len(history) + 1 \notin InvalidArchived
      BY <1>1, <1>2 DEF InvalidArchived
    <3>3. Cardinality(InvalidArchived') = Cardinality(InvalidArchived) + 1
      BY <3>1, <3>2, InvalidFinite, FS_AddElement
    <3>4. QED BY <2>1, <3>3
  <2>2. CASE ~live.invalid
    <3>1. InvalidArchived' = InvalidArchived
      BY <1>1, <1>2, <2>2 DEF InvalidArchived
    <3>2. QED BY <2>2, <3>1, InvalidFinite
  <2>3. QED BY <2>1, <2>2
<1>6. QED BY <1>1, <1>2, <1>3, <1>4, <1>5

\* A turn that ends on a token of its own: stopped, missed, or stopped by the
\* guesser's last word.
LEMMA PaidTurnEnds ==
  ASSUME PhaseInv, ArchiveInv, phase = Guessing, result # "victory",
         NEW pile \in {"bystander", "check"}, Spend(pile), SwitchRoles(clue)
  PROVE  ArchiveInv'
<1>1. clue \in ClueEntries /\ clue.turn = turn /\ TypeOK /\ ArchiveInOrder
  BY DEF PhaseInv, TypeOK, ArchiveInv, ClueOfThisTurn
<1>2. /\ ArchiveInOrder' /\ ClueOfThisTurn' /\ ~clue'.invalid
      /\ Len(history') = Len(history) + 1
      /\ Cardinality(InvalidArchived') =
           Cardinality(InvalidArchived) + (IF clue.invalid THEN 1 ELSE 0)
  BY <1>1, SwitchFiles
<1>3. spent \in [Piles -> Nat] /\ Len(history) \in Nat
  BY DEF PhaseInv, TypeOK
<1>4. spent'["penalty"] = spent["penalty"]
  BY <1>3 DEF Spend, Piles
<1>5. TurnTokens' = TurnTokens + 1 /\ TurnTokens \in Nat
  BY <1>3 DEF Spend, Piles, TurnTokens
<1>6. PenaltiesPaid'
  <2>1. spent["penalty"] = Cardinality(InvalidArchived) + (IF clue.invalid THEN 1 ELSE 0)
    BY DEF ArchiveInv, PenaltiesPaid
  <2>2. Cardinality(InvalidArchived') \in Nat
    BY <1>1, <1>2, InvalidFinite
  <2>3. QED BY <1>2, <1>4, <2>1, <2>2 DEF PenaltiesPaid
<1>7. TurnsPaid'
  <2>1. TurnTokens = Len(history)
    BY DEF ArchiveInv, TurnsPaid
  <2>2. TurnTokens' = Len(history')
    BY <1>2, <1>5, <2>1
  <2>3. result' # "victory"
    BY DEF SwitchRoles
  <2>4. QED BY <2>2, <2>3 DEF TurnsPaid
<1>8. QED BY <1>2, <1>6, <1>7 DEF ArchiveInv

\* A clue whose penalty took the last token: its turn ends unpaid, and the archive
\* says so.
LEMMA UnpaidTurnEnds ==
  ASSUME PhaseInv, ArchiveInv, phase = GivingClue, result # "victory",
         NEW p \in Seats, NEW word, Offends(word), Spend("penalty"), timer' = 0,
         AnyPendingWords', SwitchRoles(ClueEntry(p, word))
  PROVE  ArchiveInv'
<1> DEFINE live == ClueEntry(p, word)
<1>1. live \in ClueEntries /\ live.turn = turn /\ TypeOK /\ ArchiveInOrder /\ live.invalid
  BY DEF PhaseInv, TypeOK, ArchiveInv, ClueEntry, ClueEntries, Offends
<1>2. /\ ArchiveInOrder' /\ ClueOfThisTurn' /\ ~clue'.invalid
      /\ Len(history') = Len(history) + 1 /\ history'[Len(history')] = live
      /\ Cardinality(InvalidArchived') = Cardinality(InvalidArchived) + 1
  BY <1>1, SwitchFiles
<1>3. spent \in [Piles -> Nat] /\ Len(history) \in Nat
  BY DEF PhaseInv, TypeOK
<1>4. spent'["penalty"] = spent["penalty"] + 1
  BY <1>3 DEF Spend, Piles
<1>5. TurnTokens' = TurnTokens
  BY <1>3 DEF Spend, Piles, TurnTokens
<1>6. PenaltiesPaid'
  <2>1. spent["penalty"] = Cardinality(InvalidArchived)
    <3>1. ~clue.invalid
      BY DEF ArchiveInv, ClueOfThisTurn, NoClue
    <3>2. Cardinality(InvalidArchived) \in Nat
      BY <1>1, InvalidFinite
    <3>3. QED BY <3>1, <3>2 DEF ArchiveInv, PenaltiesPaid
  <2>2. Cardinality(InvalidArchived) \in Nat
    BY <1>1, InvalidFinite
  <2>3. QED BY <1>2, <1>4, <2>1, <2>2 DEF PenaltiesPaid
<1>7. TurnsPaid'
  <2>1. TurnTokens = Len(history)
    BY DEF ArchiveInv, TurnsPaid
  <2>2. TurnTokens' = Len(history') - 1
    BY <1>2, <1>3, <1>5, <2>1
  <2>3. result' # "victory" /\ phase' \notin {GivingClue, Guessing}
    BY PhasesDistinct DEF SwitchRoles, SDPhases
  <2>4. history'[Len(history')].invalid
    BY <1>1, <1>2
  <2>5. QED BY <2>2, <2>3, <2>4 DEF TurnsPaid
<1>8. QED BY <1>2, <1>6, <1>7 DEF ArchiveInv

\* A clue comes into play, its penalty paid if it has one.
LEMMA ClueOpens ==
  ASSUME PhaseInv, ArchiveInv, phase = GivingClue, result # "victory",
         NEW word, OpenGuessing(ClueEntry(clueGiver, word)),
         \/ ~Offends(word) /\ UNCHANGED tokenVars
         \/ Offends(word) /\ Spend("penalty")
  PROVE  ArchiveInv'
<1> DEFINE live == ClueEntry(clueGiver, word)
<1>1. /\ clue' = live /\ phase' = Guessing
      /\ UNCHANGED <<clueGiver, turn, history, result>>
  BY DEF OpenGuessing
<1>2. /\ spent \in [Piles -> Nat] /\ Len(history) \in Nat /\ turn = Len(history) + 1
      /\ TurnTokens = Len(history)
      /\ Cardinality(InvalidArchived) \in Nat /\ spent["penalty"] = Cardinality(InvalidArchived)
  <2>1. spent \in [Piles -> Nat] /\ Len(history) \in Nat /\ turn = Len(history) + 1
    BY DEF PhaseInv, TypeOK, ArchiveInv, ArchiveInOrder
  <2>2. ~clue.invalid /\ TurnTokens = Len(history)
    BY DEF ArchiveInv, ClueOfThisTurn, NoClue, TurnsPaid
  <2>3. Cardinality(InvalidArchived) \in Nat
    BY InvalidFinite DEF PhaseInv
  <2>4. QED BY <2>1, <2>2, <2>3 DEF ArchiveInv, PenaltiesPaid
<1>3. live.turn = turn /\ live.giver = clueGiver /\ (live.invalid <=> Offends(word))
  BY DEF ClueEntry
<1>4. ClueOfThisTurn'
  <2>1. live # NoClue
    <3>1. live.turn # 0
      BY <1>2, <1>3
    <3>2. NoClue.turn = 0
      BY DEF NoClue
    <3>3. QED BY <3>1, <3>2
  <2>2. QED BY <1>1, <1>3, <2>1, PhasesDistinct DEF ClueOfThisTurn
<1>5. ArchiveInOrder' /\ InvalidArchived' = InvalidArchived
  BY <1>1 DEF ArchiveInv, ArchiveInOrder, InvalidArchived
<1>6. TurnTokens' = TurnTokens
  BY <1>2 DEF tokenVars, Spend, Piles, TurnTokens
<1>7. TurnsPaid'
  BY <1>1, <1>2, <1>6 DEF TurnsPaid
<1>8. PenaltiesPaid'
  <2>1. CASE ~Offends(word)
    <3>1. spent' = spent
      BY <2>1 DEF tokenVars
    <3>2. ~clue'.invalid
      BY <1>1, <1>3, <2>1
    <3>3. QED BY <1>2, <1>5, <3>1, <3>2 DEF PenaltiesPaid
  <2>2. CASE Offends(word)
    <3>1. spent'["penalty"] = spent["penalty"] + 1
      BY <1>2, <2>2 DEF Spend, Piles
    <3>2. clue'.invalid
      BY <1>1, <1>3, <2>2
    <3>3. QED BY <1>2, <1>5, <3>1, <3>2 DEF PenaltiesPaid
  <2>3. QED BY <2>1, <2>2
<1>9. QED BY <1>4, <1>5, <1>7, <1>8 DEF ArchiveInv

\* What neither ends a turn nor touches the tokens, in play or in sudden death.
LEMMA ArchiveRests ==
  ASSUME ArchiveInv, UNCHANGED <<spent, timer, roleVars>>,
         phase' = phase \/ phase' \in {SDHuman, GameOver},
         result = "victory" <=> result' = "victory"
  PROVE  ArchiveInv'
<1>1. /\ UNCHANGED <<clueGiver, turn, clue, history, InvalidArchived, TurnTokens>>
      /\ phase' \in {GivingClue, Guessing} => phase' = phase
  BY PhasesDistinct DEF roleVars, InvalidArchived, TurnTokens, SDPhases
<1>2. ClueOfThisTurn' /\ ArchiveInOrder' /\ PenaltiesPaid'
  BY <1>1 DEF ArchiveInv, ClueOfThisTurn, ArchiveInOrder, PenaltiesPaid
<1>3. TurnsPaid'
  BY <1>1 DEF ArchiveInv, TurnsPaid
<1>4. QED BY <1>2, <1>3 DEF ArchiveInv

\* The turn that wins in play is paid for, and not archived.
LEMMA WinIsPaid ==
  ASSUME PhaseInv, ArchiveInv, phase = Guessing, result # "victory", Spend("check"),
         FinishGame("victory"), UNCHANGED roleVars
  PROVE  ArchiveInv'
<1>1. /\ UNCHANGED <<clueGiver, turn, clue, history, InvalidArchived>>
      /\ phase' = GameOver /\ result' = "victory"
  BY DEF roleVars, InvalidArchived, FinishGame
<1>2. spent \in [Piles -> Nat] /\ Len(history) \in Nat
  BY DEF PhaseInv, TypeOK
<1>3. UNCHANGED spent["penalty"] /\ TurnTokens' = TurnTokens + 1
  BY <1>2 DEF Spend, Piles, TurnTokens
<1>4. TurnTokens = Len(history)
  BY DEF ArchiveInv, TurnsPaid
<1>5. ClueOfThisTurn' /\ ArchiveInOrder' /\ PenaltiesPaid'
  BY <1>1, <1>3, PhasesDistinct DEF ArchiveInv, ClueOfThisTurn, ArchiveInOrder, PenaltiesPaid
<1>6. TurnsPaid'
  BY <1>1, <1>2, <1>3, <1>4 DEF TurnsPaid
<1>7. QED BY <1>5, <1>6 DEF ArchiveInv

LEMMA ArchiveStep ==
  PhaseInv /\ WonIffAllFound /\ ArchiveInv /\ [Next]_vars => ArchiveInv'
<1> SUFFICES ASSUME PhaseInv, WonIffAllFound, ArchiveInv, [Next]_vars PROVE ArchiveInv'
  OBVIOUS
<1>0. phase # GameOver => result # "victory"
  BY DEF WonIffAllFound, IsGameOver, NoResult
<1>1. ASSUME NEW p \in Seats, NEW word \in ClueWords, ReceiveClue(p, word)
      PROVE  ArchiveInv'
  <2>1. phase = GivingClue /\ p = clueGiver /\ result # "victory"
    BY <1>0, <1>1, PhasesDistinct DEF ReceiveClue
  <2>2. CASE OpenGuessing(ClueEntry(p, word))
    BY <1>1, <2>1, <2>2, ClueOpens DEF ReceiveClue
  <2>3. CASE Offends(word) /\ Spend("penalty") /\ timer' = 0 /\ SwitchRoles(ClueEntry(p, word))
    <3>1. guesser \in Seats /\ pending[guesser] > 0 /\ UNCHANGED pending
      BY <1>1, <2>1 DEF ReceiveClue, PhaseInv, PhaseFitsTheBoard, TypeOK
    <3>2. AnyPendingWords'
      BY <3>1 DEF AnyPendingWords
    <3>3. QED BY <2>1, <2>3, <3>2, UnpaidTurnEnds
  <2>4. QED BY <1>1, <2>2, <2>3 DEF ReceiveClue
<1>2. CASE AttachConfidenceRanking
  <2>1. /\ phase = Guessing /\ clue' = [clue EXCEPT !.ranked = TRUE] /\ clue \in ClueEntries
        /\ UNCHANGED <<phase, timer, spent, result, clueGiver, turn, history>>
        /\ clue # NoClue
    BY <1>2 DEF AttachConfidenceRanking, tokenVars, PhaseInv, TypeOK
  <2>2. /\ clue'.turn = clue.turn /\ clue'.giver = clue.giver
        /\ (clue'.invalid <=> clue.invalid)
    BY <2>1 DEF ClueEntries
  <2>3. clue.turn = turn /\ clue.giver = clueGiver /\ turn = Len(history) + 1
        /\ Len(history) \in Nat
    BY <2>1 DEF ArchiveInv, ClueOfThisTurn, ArchiveInOrder, PhaseInv, TypeOK
  <2>4. clue' # NoClue
    <3>1. clue'.turn # 0
      BY <2>2, <2>3
    <3>2. NoClue.turn = 0
      BY DEF NoClue
    <3>3. QED BY <3>1, <3>2
  <2>5. ClueOfThisTurn'
    BY <2>1, <2>2, <2>3, <2>4, PhasesDistinct DEF ClueOfThisTurn
  <2>6. UNCHANGED <<InvalidArchived, TurnTokens>>
    BY <2>1 DEF InvalidArchived, TurnTokens
  <2>7. ArchiveInOrder' /\ PenaltiesPaid'
    BY <2>1, <2>2, <2>6 DEF ArchiveInv, ArchiveInOrder, PenaltiesPaid
  <2>8. TurnsPaid'
    BY <2>1, <2>6 DEF ArchiveInv, TurnsPaid
  <2>9. QED BY <2>5, <2>7, <2>8 DEF ArchiveInv
<1>3. ASSUME NEW p \in Seats, AttachSuddenDeathRanking(p) PROVE ArchiveInv'
  BY <1>3, ArchiveRests DEF AttachSuddenDeathRanking, tokenVars
<1>4. ASSUME NEW p \in Seats, NEW c \in Cards, ResolveGuess(p, c) PROVE ArchiveInv'
  <2>0. phase # GameOver
    BY <1>4, PhasesDistinct DEF ResolveGuess, MayGuess
  <2>1. CASE RevealAgent(p, c)
    <3>1. CASE WinAfterReveal
      <4>1. CASE phase \in SDPhases
        <5>1. UNCHANGED tokenVars /\ FinishGame("victory_sd") /\ UNCHANGED roleVars
          BY <3>1, <4>1 DEF WinAfterReveal
        <5>2. phase' = GameOver /\ result' # "victory" /\ UNCHANGED <<spent, timer>>
          BY <5>1 DEF FinishGame, tokenVars
        <5>3. QED BY <1>0, <2>0, <5>1, <5>2, ArchiveRests
      <4>2. CASE phase \notin SDPhases
        <5>1. phase = Guessing
          BY <1>4, <4>2, PhasesDistinct DEF ResolveGuess, MayGuess
        <5>2. QED BY <1>0, <2>0, <3>1, <4>2, <5>1, WinIsPaid DEF WinAfterReveal
      <4>3. QED BY <4>1, <4>2
    <3>2. CASE TurnEndsOnLastWord(p)
      BY <1>0, <2>0, <3>2, PaidTurnEnds DEF TurnEndsOnLastWord, StopTurn
    <3>3. CASE HandOffSuddenDeath
      BY <3>3, ArchiveRests DEF HandOffSuddenDeath, tokenVars
    <3>4. CASE KeepGuessing(p)
      BY <3>4, ArchiveRests DEF KeepGuessing, tokenVars
    <3>5. QED BY <2>1, <3>1, <3>2, <3>3, <3>4 DEF RevealAgent
  <2>2. CASE TouchAssassin
    <3>1. phase' = GameOver /\ result' # "victory" /\ UNCHANGED <<spent, timer>>
      BY <2>2 DEF TouchAssassin, FinishGame, tokenVars
    <3>2. QED BY <1>0, <2>0, <2>2, <3>1, ArchiveRests DEF TouchAssassin
  <2>3. CASE phase = Guessing /\ TouchBystander(c)
    BY <1>0, <2>0, <2>3, PaidTurnEnds DEF TouchBystander
  <2>4. ASSUME NEW role, MissInSuddenDeath(role) PROVE ArchiveInv'
    <3>1. phase' = GameOver /\ result' # "victory" /\ UNCHANGED <<spent, timer>>
      BY <2>4 DEF MissInSuddenDeath, FinishGame, tokenVars
    <3>2. QED BY <1>0, <2>0, <2>4, <3>1, ArchiveRests DEF MissInSuddenDeath
  <2>5. QED BY <1>4, <2>1, <2>2, <2>3, <2>4 DEF ResolveGuess
<1>5. ASSUME NEW p \in Seats, PassTurn(p) PROVE ArchiveInv'
  BY <1>0, <1>5, PaidTurnEnds, PhasesDistinct DEF PassTurn, StopTurn
<1>6. ASSUME NEW p \in Seats, ConcedeSuddenDeath(p) PROVE ArchiveInv'
  <2>1. phase # GameOver
    BY <1>6, PhasesDistinct DEF ConcedeSuddenDeath
  <2>2. phase' = GameOver /\ result' # "victory" /\ UNCHANGED <<spent, timer>>
    BY <1>6 DEF ConcedeSuddenDeath, FinishGame, tokenVars
  <2>3. QED BY <1>0, <1>6, <2>1, <2>2, ArchiveRests DEF ConcedeSuddenDeath
<1>7. CASE UNCHANGED vars
  BY <1>7, ArchiveRests DEF vars, tokenVars
<1>8. QED BY <1>1, <1>2, <1>3, <1>4, <1>5, <1>6, <1>7 DEF Next

LEMMA InitArchive == Init => ArchiveInv
<1> SUFFICES ASSUME Init PROVE ArchiveInv
  OBVIOUS
<1>1. /\ phase = GivingClue /\ clue = NoClue /\ history = <<>> /\ turn = 1
      /\ result # "victory" /\ spent = [k \in Piles |-> 0]
  BY DEF Init, NoResult
<1>2. InvalidArchived = {} /\ Len(history) = 0 /\ DOMAIN history = {}
  BY <1>1 DEF InvalidArchived
<1>3. TurnTokens = 0 /\ spent["penalty"] = 0
  BY <1>1 DEF TurnTokens, Piles
<1>4. ClueOfThisTurn /\ ArchiveInOrder
  BY <1>1, <1>2, PhasesDistinct DEF ClueOfThisTurn, ArchiveInOrder
<1>5. PenaltiesPaid
  BY <1>1, <1>2, <1>3, FS_EmptySet DEF PenaltiesPaid, NoClue
<1>6. TurnsPaid
  BY <1>1, <1>2, <1>3 DEF TurnsPaid
<1>7. QED BY <1>4, <1>5, <1>6 DEF ArchiveInv

\* The archive and the piles tell the same game, however its turns ended: every
\* ended turn is archived once, in order, and paid for with one token, save the one
\* whose penalty took the last; and each invalid clue cost one penalty.
THEOREM ArchiveCorrect == Spec => []ArchiveAccountsForTheTokens
<1>1. ArchiveInv => ArchiveAccountsForTheTokens
  <2> SUFFICES ASSUME ArchiveInv PROVE EveryTurnIsPaidOnce /\ HistoryIsFaithful
    BY DEF ArchiveAccountsForTheTokens
  <2>1. EveryTurnIsPaidOnce
    BY DEF ArchiveInv, ArchiveInOrder, TurnsPaid, TurnTokens, EveryTurnIsPaidOnce
  <2>2. HistoryIsFaithful
    BY DEF ArchiveInv, ArchiveInOrder, ClueOfThisTurn, PenaltiesPaid, InvalidArchived,
           HistoryIsFaithful
  <2>3. QED BY <2>1, <2>2
<1>2. QED
  BY <1>1, InitArchive, ArchiveStep, PhaseInvariant, ResultCorrect, PTL DEF Spec

-----------------------------------------------------------------------------
(***************************************************************************)
(* The guard                                                               *)
(***************************************************************************)

\* The strict invariant guard finds nothing in any state of any game.
THEOREM GuardCorrect == Spec => []GuardFindsNothing
<1>1. TokensAddUp /\ PendingMatchesBoard /\ TokensLieOnBystanders
        /\ BystanderTokensOnWords /\ ValidatorSeesTheBoard /\ PhaseFitsTheBoard
        /\ WonIffAllFound => GuardFindsNothing
  BY DEF GuardFindsNothing, CheckInvariants
<1>2. QED
  BY <1>1, TokensCorrect, PendingCorrect, TokensLieCorrect, BystanderTokensCorrect,
     ValidatorCorrect, PhaseCorrect, ResultCorrect, PTL

=============================================================================
