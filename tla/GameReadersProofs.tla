------------------------- MODULE GameReadersProofs -------------------------
(***************************************************************************)
(* What the models were told of a game, and what the analysis reads back   *)
(* of it from the stored rows, for every board, reserve, cap and set of    *)
(* proposals.  The prompts show the engine's board (LLMService); the rows  *)
(* rebuild what the prompts showed and what the guesses did (GameReaders). *)
(***************************************************************************)
EXTENDS GameReaders, GameConductorProofs

-----------------------------------------------------------------------------
(***************************************************************************)
(* The prompts show the board: what the engine keeps true of tokens,       *)
(* finders and the validator's words is what the two prompts of a turn     *)
(* rely on to agree                                                        *)
(***************************************************************************)

LEMMA PartnerOfPartner == \A s \in Seats : Other(s) \in Seats /\ Other(Other(s)) = s
BY DEF Seats, Other

\* Every card has one of the three roles on either side.
LEMMA RolesCover ==
  \A s \in Seats : Cards = Having(Agent, s) \cup Having(Assassin, s) \cup Having(Civilian, s)
BY SideAssumption DEF Having, Roles

\* The words the partner is offered, by their role on the giver's side.
LEMMA OpenWords ==
  ASSUME NEW s \in Seats
  PROVE  /\ ClueGiverBoard(s).agents = {c \in Having(Agent, s) : IsGuessableBy(Other(s), c)}
         /\ ClueGiverBoard(s).assassins = {c \in Having(Assassin, s) : IsGuessableBy(Other(s), c)}
         /\ ClueGiverBoard(s).civilians = {c \in Having(Civilian, s) : IsGuessableBy(Other(s), c)}
         /\ ClueGiverBoard(s).otherVisible =
              {c \in Cards : ~IsCovered(c) /\ ~IsGuessableBy(Other(s), c)}
         /\ ClueGiverBoard(s).revealed = Having(Agent, s) \cap revealed
BY DEF ClueGiverBoard, IsGuessableBy

\* The words the guesser is shown are those the giver is told of, and with the
\* words listed apart they are the words a clue may not use.
LEMMA WordsAgree ==
  ASSUME NEW s \in Seats, ValidatorSeesTheBoard
  PROVE  LET board == ClueGiverBoard(s)
             words == GuesserView(Other(s)).words
         IN  /\ words = board.agents \cup board.assassins \cup board.civilians
             /\ visible = words \cup board.otherVisible
<1>1. GuesserView(Other(s)).words = {c \in Cards : IsGuessableBy(Other(s), c)}
  BY DEF GuesserView
<1>2. Cards = Having(Agent, s) \cup Having(Assassin, s) \cup Having(Civilian, s)
  BY RolesCover
<1>3. \A c \in Cards : IsGuessableBy(Other(s), c) => ~IsCovered(c)
  BY DEF IsGuessableBy
<1>4. QED
  BY <1>1, <1>2, <1>3, OpenWords DEF ValidatorSeesTheBoard

\* The green words listed are the partner's pending ones, those listed as
\* covered are the ones the partner found.
LEMMA AgentsAgree ==
  ASSUME NEW s \in Seats, TypeOK, GiverAgentsAreFindable, RevealedByIsWhoFoundIt,
         TokensLieOnBystanders
  PROVE  LET board == ClueGiverBoard(s)
         IN  /\ board.agents = PendingOnBoard(Other(s))
             /\ board.revealed = {c \in Cards : Other(s) \in revealedBy[c]}
<1> DEFINE p == Other(s)
<1>1. p \in Seats /\ Other(p) = s
  BY PartnerOfPartner
<1>2. \A c \in Having(Agent, s) : c \notin revealed => ~IsCovered(c)
  <2> SUFFICES ASSUME NEW c \in Having(Agent, s), c \notin revealed, markers[c] = Seats
               PROVE  FALSE
    BY DEF IsCovered
  <2>1. Side[s][c] = Civilian
    BY <1>1 DEF TokensLieOnBystanders, Having
  <2>2. QED BY <2>1, RolesDistinct DEF Having
<1>3. \A c \in Having(Agent, s) : IsGuessableBy(p, c) <=> c \notin revealed
  BY <1>2 DEF GiverAgentsAreFindable, IsGuessableBy, IsCovered
<1>4. ClueGiverBoard(s).agents = PendingOnBoard(p)
  BY <1>1, <1>3, OpenWords DEF PendingOnBoard, Having
<1>5. ClueGiverBoard(s).revealed = {c \in Cards : p \in revealedBy[c]}
  BY <1>1, OpenWords DEF RevealedByIsWhoFoundIt, Having
<1>6. QED BY <1>4, <1>5

\* A word listed apart carries the partner's token, so it is beige.
LEMMA ApartIsBeige ==
  ASSUME NEW s \in Seats, TokensLieOnBystanders
  PROVE  ClueGiverBoard(s).otherVisible \subseteq Having(Civilian, s)
<1> SUFFICES ASSUME NEW c \in Cards, ~IsCovered(c), ~IsGuessableBy(Other(s), c)
             PROVE  c \in Having(Civilian, s)
  BY OpenWords
<1>1. Other(s) \in markers[c]
  BY DEF IsGuessableBy
<1>2. QED
  BY <1>1, PartnerOfPartner DEF TokensLieOnBystanders, Having

\* What the guesser is told of its own key adds up to the words it is offered,
\* and what it is told of a black word is what happened.
LEMMA KeyAgrees ==
  ASSUME NEW p \in Seats, TypeOK, TokensLieOnBystanders, RevealedByIsWhoFoundIt,
         BlackWordsTouchedByOwnerOnly
  PROVE  LET key == OwnKey(p)
         IN  /\ GuesserView(p).words = key.green \cup key.beige
                  \cup {c \in DOMAIN key.black : key.black[c] = "untouched"}
             /\ \A c \in DOMAIN key.black :
                  /\ key.black[c] = "your_agent" =>
                       Side[Other(p)][c] = Agent /\ p \in revealedBy[c]
                  /\ key.black[c] = "your_civilian" => Side[Other(p)][c] = Civilian
<1>1. /\ GuesserView(p).words = {c \in Cards : IsGuessableBy(p, c)}
      /\ OwnKey(p).green = {c \in Having(Agent, p) : IsGuessableBy(p, c)}
      /\ OwnKey(p).beige = {c \in Having(Civilian, p) : IsGuessableBy(p, c)}
      /\ OwnKey(p).black = [c \in Having(Assassin, p) |-> BlackLine(p, c)]
  BY DEF GuesserView, OwnKey
<1>2. Cards = Having(Agent, p) \cup Having(Assassin, p) \cup Having(Civilian, p)
  BY RolesCover
<1>3. \A c \in Having(Assassin, p) : BlackLine(p, c) = "untouched" <=> IsGuessableBy(p, c)
  <2> SUFFICES ASSUME NEW c \in Having(Assassin, p)
               PROVE  BlackLine(p, c) = "untouched" <=> IsGuessableBy(p, c)
    OBVIOUS
  <2>1. Other(p) \notin markers[c]
    BY DEF BlackWordsTouchedByOwnerOnly, Having
  <2>2. markers[c] # Seats
    BY <2>1, PartnerOfPartner
  <2>3. QED BY <2>2 DEF BlackLine, IsGuessableBy, IsCovered
<1>4. GuesserView(p).words = OwnKey(p).green \cup OwnKey(p).beige
        \cup {c \in DOMAIN OwnKey(p).black : OwnKey(p).black[c] = "untouched"}
  BY <1>1, <1>2, <1>3
<1>5. ASSUME NEW c \in Having(Assassin, p), BlackLine(p, c) = "your_agent"
      PROVE  Side[Other(p)][c] = Agent /\ p \in revealedBy[c]
  <2>1. c \in revealed /\ c \in Cards
    BY <1>5 DEF BlackLine, Having
  <2>2. p \in revealedBy[c]
    BY <2>1 DEF BlackWordsTouchedByOwnerOnly, Having
  <2>3. QED BY <2>1, <2>2 DEF RevealedByIsWhoFoundIt
<1>6. ASSUME NEW c \in Having(Assassin, p), BlackLine(p, c) = "your_civilian"
      PROVE  Side[Other(p)][c] = Civilian
  <2>1. p \in markers[c] /\ c \in Cards
    BY <1>6 DEF BlackLine, Having
  <2>2. QED BY <2>1 DEF TokensLieOnBystanders
<1>7. \A c \in DOMAIN OwnKey(p).black :
        /\ OwnKey(p).black[c] = "your_agent" => Side[Other(p)][c] = Agent /\ p \in revealedBy[c]
        /\ OwnKey(p).black[c] = "your_civilian" => Side[Other(p)][c] = Civilian
  BY <1>1, <1>5, <1>6
<1>8. QED BY <1>4, <1>7

\* In every game the two prompts of a turn describe one board, the engine's,
\* and what they say of it is true (_clue_giver_board, _format_own_key).
THEOREM PromptsCorrect == Spec => []PromptsShowTheBoard
<1>1. TypeOK /\ ValidatorSeesTheBoard /\ GiverAgentsAreFindable /\ RevealedByIsWhoFoundIt
        /\ TokensLieOnBystanders /\ BlackWordsTouchedByOwnerOnly => PromptsShowTheBoard
  BY PartnerOfPartner, WordsAgree, AgentsAgree, ApartIsBeige, KeyAgrees
     DEF PromptsShowTheBoard
<1>2. QED
  BY <1>1, TypeCorrect, ValidatorCorrect, GiverAgentsFindable, RevealedByCorrect,
     TokensLieCorrect, BlackWordsOwnersOnly, PTL


-----------------------------------------------------------------------------
(***************************************************************************)
(* A game with its prompts is a game                                       *)
(***************************************************************************)

LEMMA RowsStepIsGameStep ==
  ASSUME [RowsNext]_rowsVars
  PROVE  [GameNext]_gameVars
BY DEF RowsNext, rowsVars, GameNext, ProposeClue, ProposeWords, ElicitRanking, ElicitRankingSD,
       ProposeWordsSD

LEMMA RowsPlayTheEngine == RowsSpec => Spec
<1>1. RowsInit => Init /\ TypeOK
  BY InitType DEF RowsInit, GameInit
<1>2. TypeOK /\ [RowsNext]_rowsVars => [Next]_vars
  BY RowsStepIsGameStep, GameStepIsEngineStep
<1>3. RowsSpec => []TypeOK
  BY <1>1, <1>2, TypeOKStep, PTL DEF RowsSpec
<1>4. QED BY <1>1, <1>2, <1>3, PTL DEF RowsSpec, Spec

\* What is known of a game, its prompts apart.
GameInv == EngineInv /\ DriverInv /\ RecordInv /\ RowInv

LEMMA GameInvariant == RowsSpec => []GameInv
<1>1. RowsSpec => []EngineInv
  BY RowsPlayTheEngine, PhaseInvariant, ResultCorrect, PTL DEF EngineInv
<1>2. RowsInit => DriverInv /\ RecordInv /\ RowInv
  <2>1. GameInit => DriverInv
    BY CountAssumption, PhasesDistinct
       DEF GameInit, Init, DriverInv, PlaceInv, PaidInv, MeasureInv, Running, SDPhases
  <2>2. GameInit => RowInv
    BY StatusOfRow DEF GameInit, RowInv, Places
  <2>3. QED BY <2>1, <2>2, RecordInit DEF RowsInit
<1>3. EngineInv /\ EngineInv' /\ DriverInv /\ RecordInv /\ RowInv /\ [RowsNext]_rowsVars
        => DriverInv' /\ RecordInv' /\ RowInv'
  BY RowsStepIsGameStep, DriverStep, RecordStep, RowStep DEF EngineInv
<1>4. QED BY <1>1, <1>2, <1>3, PTL DEF RowsSpec, GameInv

\* A stored game is the game in the recorder.
LEMMA StoredTurns ==
  ASSUME RowInv, IsStored
  PROVE  row.turns = turns /\ row.result = result
BY DEF RowInv, IsStored, RowOf

-----------------------------------------------------------------------------
(***************************************************************************)
(* What a step does to the record                                          *)
(***************************************************************************)

\* A turn is opened, with nothing in it yet.
Opening(kind) ==
  /\ Len(turns') = Len(turns) + 1 /\ DOMAIN turns' = DOMAIN turns \cup {Len(turns')}
  /\ \A i \in DOMAIN turns : turns'[i] = turns[i]
  /\ LET t == turns'[Len(turns')]
     IN  t.number = Len(turns) /\ t.phase = kind /\ t.reveals = <<>> /\ ~t.measured

\* The last turn is written to; reveals are only added, and by a guess.
Writing ==
  /\ Len(turns) \in DOMAIN turns /\ DOMAIN turns' = DOMAIN turns /\ Len(turns') = Len(turns)
  /\ \A i \in DOMAIN turns \ {Len(turns)} : turns'[i] = turns[i]
  /\ LET t == turns[Len(turns)]
         u == turns'[Len(turns)]
     IN  u.number = t.number /\ u.phase = t.phase /\ u.giver = t.giver

\* The reveals of the last turn stay.
SameReveals == turns'[Len(turns)].reveals = turns[Len(turns)].reveals

LEMMA ClueOpensTurn ==
  ASSUME GameInv, NEW word \in ClueWords, ConductClue(word)
  PROVE  /\ Opening("normal") /\ turns'[Len(turns')].giver = clueGiver
         /\ sdTurn = 0 /\ sdTurn' = 0
<1> DEFINE rec == [EmptyTurn("normal", clueGiver) EXCEPT !.invalid = Offends(word)]
<1>1. /\ turns' = Append(turns, rec) /\ sdTurn' = sdTurn /\ phase = GivingClue
  BY DEF ConductClue, RecordClue, ClueEntry
<1>2. turns \in Seq(TurnRecords) /\ clueGiver \in Seats /\ visible \subseteq Cards
  BY DEF GameInv, RecordInv, RecordTypes, EngineInv, PhaseInv, TypeOK
<1>3. EmptyTurn("normal", clueGiver) \in TurnRecords
  BY <1>2, EmptyTurnType DEF GameInv
<1>4. /\ rec \in TurnRecords /\ rec.number = Len(turns) /\ rec.phase = "normal"
      /\ rec.reveals = <<>> /\ ~rec.measured /\ rec.giver = clueGiver
  BY <1>3 DEF EmptyTurn, TurnRecords, Offends
<1> HIDE DEF rec
<1>5. sdTurn = 0
  BY <1>1 DEF GameInv, RecordInv, ShapeInv
<1>6. QED BY <1>1, <1>2, <1>4, <1>5, OpenTurn DEF Opening

\* A proposal or a measurement of a normal turn is written to it.
LEMMA ProposalWrites ==
  ASSUME GameInv, NEW words \in Proposals, ProposeGuess(words)
  PROVE  /\ Writing /\ SameReveals /\ sdTurn' = sdTurn /\ phase = Guessing /\ sdTurn = 0
         /\ turns'[Len(turns)].measured = turns[Len(turns)].measured
<1> DEFINE n == Len(turns)
           rec == [turns[n] EXCEPT !.play = words]
<1>1. phase = Guessing /\ turns' = [turns EXCEPT ![n] = rec] /\ sdTurn' = sdTurn
  BY DEF ProposeGuess, RecordPlayProposal
<1>2. n \in DOMAIN turns /\ turns[n] \in TurnRecords /\ sdTurn = 0
  BY <1>1, GuessedTurn DEF GameInv
<1>3. words \in Seq(ClueWords)
  BY ProposalsAssumption
<1>4. /\ rec \in TurnRecords /\ rec.number = turns[n].number /\ rec.phase = turns[n].phase
      /\ rec.giver = turns[n].giver /\ rec.reveals = turns[n].reveals
      /\ rec.measured = turns[n].measured
  BY <1>2, <1>3 DEF TurnRecords
<1> HIDE DEF rec
<1>5. QED BY <1>1, <1>2, <1>4, UpdateTurn DEF Writing, SameReveals, GameInv, RecordInv, RecordTypes

LEMMA MeasurementWrites ==
  ASSUME GameInv, MeasureNormal
  PROVE  /\ phase = Guessing /\ sdTurn = 0 /\ sdTurn' = sdTurn
         /\ \/ UNCHANGED <<vars, turns>>
            \/ Writing /\ SameReveals
<1> DEFINE n == Len(turns)
           rec == [turns[n] EXCEPT !.measured = TRUE]
<1>1. phase = Guessing /\ sdTurn' = sdTurn
  BY DEF MeasureNormal
<1>2. n \in DOMAIN turns /\ turns[n] \in TurnRecords /\ sdTurn = 0
  BY <1>1, GuessedTurn DEF GameInv
<1>3. UNCHANGED <<vars, turns>> \/ turns' = [turns EXCEPT ![n] = rec]
  BY DEF MeasureNormal
<1>4. /\ rec \in TurnRecords /\ rec.number = turns[n].number /\ rec.phase = turns[n].phase
      /\ rec.giver = turns[n].giver /\ rec.reveals = turns[n].reveals
  BY <1>2 DEF TurnRecords
<1> HIDE DEF rec
<1>5. turns' = [turns EXCEPT ![n] = rec] => Writing /\ SameReveals
  BY <1>2, <1>4, UpdateTurn DEF Writing, SameReveals, GameInv, RecordInv, RecordTypes
<1>6. QED BY <1>1, <1>2, <1>3, <1>5

\* A write to the sudden-death turn opens it if need be.
LEMMA SuddenRecords ==
  ASSUME GameInv, phase \in SDPhases, NEW rec \in TurnRecords,
         turns' = [SDTurns EXCEPT ![SDIndex] = rec],
         LET t == SDTurns[SDIndex]
         IN  /\ rec.number = t.number /\ rec.phase = t.phase /\ rec.giver = t.giver
             /\ rec.reveals = t.reveals /\ rec.measured = t.measured
  PROVE  \/ Opening("sudden_death")
         \/ /\ Writing /\ SameReveals
            /\ turns'[Len(turns)].measured = turns[Len(turns)].measured
<1>1. /\ SDIndex \in Nat \ {0} /\ Len(turns') = SDIndex
      /\ DOMAIN turns' = DOMAIN turns \cup {SDIndex} /\ turns'[SDIndex] = rec
      /\ \A i \in DOMAIN turns \ {SDIndex} : turns'[i] = turns[i]
      /\ SDIndex \in DOMAIN turns => SDIndex = Len(turns) /\ SDTurns[SDIndex] = turns[SDIndex]
      /\ SDIndex \notin DOMAIN turns =>
           /\ SDIndex = Len(turns) + 1
           /\ SDTurns[SDIndex] = EmptyTurn("sudden_death", clueGiver)
  BY SuddenPlace DEF GameInv
<1>2. LET t == EmptyTurn("sudden_death", clueGiver)
      IN  /\ t.number = Len(turns) /\ t.phase = "sudden_death" /\ t.reveals = <<>>
          /\ ~t.measured
  BY DEF EmptyTurn
<1>3. CASE SDIndex \in DOMAIN turns
  BY <1>1, <1>3 DEF Writing, SameReveals
<1>4. CASE SDIndex \notin DOMAIN turns
  BY <1>1, <1>2, <1>4 DEF Opening
<1>5. QED BY <1>3, <1>4


\* A guess is written to the turn it was made on, which is the last.
LEMMA GuessWrites ==
  ASSUME GameInv, EngineInv', PlayWord
  PROVE  LET c == proposal[next]
             r == RevealOf(c, Returned(Side[Other(Acting)][c]))
             n == Len(turns)
         IN  /\ Writing /\ sdTurn' = sdTurn /\ r \in Reveals
             /\ turns'[n].measured = turns[n].measured
             /\ turns[n].reveals \in Seq(Reveals)
             /\ turns'[n].reveals = Append(turns[n].reveals, r)
<1> DEFINE c   == proposal[next]
           str == Returned(Side[Other(Acting)][c])
           n   == Len(turns)
           r   == RevealOf(c, str)
           rec == [turns[n] EXCEPT !.reveals = Append(turns[n].reveals, r)]
<1>1. /\ at = "resolve" /\ c \in Cards /\ ResolveGuess(Acting, c) /\ RecordReveal(c, str)
      /\ sdTurn' = sdTurn
  BY DEF PlayWord
<1>2. /\ Acting \in Seats /\ TypeOK /\ TypeOK' /\ PhaseInv /\ ClueInv
      /\ next \in Nat \ {0} /\ timer' \in Int
  BY ActingIsASeat DEF GameInv, EngineInv, PhaseInv, RecordInv, RecordTypes, TypeOK
<1>3. phase \in {Guessing} \cup SDPhases
  BY <1>1, <1>2, PhasesDistinct DEF ResolveGuess, MayGuess
<1>4. ResultRoleOf(str) \in Roles
  BY <1>1, <1>2, GuessTells
<1>5. n \in DOMAIN turns /\ turns[n] \in TurnRecords /\ GuessTurn = n
  BY <1>1, <1>3, ResolvedTurn DEF GameInv
<1>6. turns' = [turns EXCEPT ![n] = rec]
  BY <1>1, <1>5 DEF RecordReveal, GuessTurn
<1>7. r \in Reveals
  BY <1>1, <1>2, <1>4 DEF RevealOf, Reveals
<1> HIDE DEF c, str, n, r
<1>8. turns[n].reveals \in Seq(Reveals) /\ Append(turns[n].reveals, r) \in Seq(Reveals)
  BY <1>5, <1>7, RevealTypes, AppendProperties
<1>9. /\ rec \in TurnRecords /\ rec.reveals = Append(turns[n].reveals, r)
      /\ rec.number = turns[n].number /\ rec.phase = turns[n].phase
      /\ rec.giver = turns[n].giver /\ rec.measured = turns[n].measured
  BY <1>5, <1>8 DEF TurnRecords
<1> HIDE DEF rec
<1>10. /\ Len(turns') = Len(turns) /\ DOMAIN turns' = DOMAIN turns /\ turns'[n] = rec
       /\ \A i \in DOMAIN turns \ {n} : turns'[i] = turns[i]
  BY <1>5, <1>6, <1>9, UpdateTurn DEF GameInv, RecordInv, RecordTypes
<1>11. QED
  BY <1>1, <1>5, <1>7, <1>8, <1>9, <1>10 DEF Writing, c, str, n, r

\* Sudden death opens its turn or writes to it, and leaves its reveals alone.
LEMMA SuddenDeathWrites ==
  ASSUME GameInv, 
         MeasureSuddenDeath \/ \E words \in Proposals : ProposeGuessSD(words)
  PROVE  /\ phase \in SDPhases
         /\ \/ UNCHANGED turns
            \/ Opening("sudden_death")
            \/ Writing /\ SameReveals /\ turns'[Len(turns)].measured = turns[Len(turns)].measured
<1> DEFINE t == SDTurns[SDIndex]
<1>1. phase \in SDPhases
  BY DEF MeasureSuddenDeath, ProposeGuessSD, GameInv, DriverInv, PlaceInv, Running, EngineInv,
         PhaseInv, TypeOK, Phases, SDPhases
<1>2. t \in TurnRecords /\ Acting \in Seats
  BY <1>1, SuddenTurn, ActingIsASeat DEF GameInv, EngineInv, PhaseInv
<1>3. CASE MeasureSuddenDeath
  <2> DEFINE rec == [t EXCEPT !.sdMeasured = @ \cup {Acting}]
  <2>1. UNCHANGED turns \/ turns' = [SDTurns EXCEPT ![SDIndex] = rec]
    BY <1>3 DEF MeasureSuddenDeath, RecordSDMeasurement, recordVars
  <2> HIDE DEF t
  <2>2. /\ rec \in TurnRecords /\ rec.number = t.number /\ rec.phase = t.phase
        /\ rec.giver = t.giver /\ rec.reveals = t.reveals /\ rec.measured = t.measured
    BY <1>2 DEF TurnRecords
  <2> HIDE DEF rec
  <2>3. QED BY <1>1, <2>1, <2>2, SuddenRecords DEF t
<1>4. ASSUME NEW words \in Proposals, ProposeGuessSD(words)
      PROVE  Opening("sudden_death")
             \/ (Writing /\ SameReveals
                 /\ turns'[Len(turns)].measured = turns[Len(turns)].measured)
  <2> DEFINE rec == [t EXCEPT !.sdPlay[Acting] = words]
  <2>1. turns' = [SDTurns EXCEPT ![SDIndex] = rec] /\ words \in Seq(ClueWords)
    BY <1>4, ProposalsAssumption DEF ProposeGuessSD, RecordSDPlayProposal
  <2> HIDE DEF t
  <2>2. t.sdPlay \in [Seats -> Seq(ClueWords)]
    BY <1>2 DEF TurnRecords
  <2>3. /\ rec \in TurnRecords /\ rec.number = t.number /\ rec.phase = t.phase
        /\ rec.giver = t.giver /\ rec.reveals = t.reveals /\ rec.measured = t.measured
    BY <1>2, <2>1, <2>2 DEF TurnRecords
  <2> HIDE DEF rec
  <2>4. QED BY <1>1, <2>1, <2>3, SuddenRecords DEF t
<1>5. QED BY <1>1, <1>3, <1>4


\* The record only grows: a turn opened is the last, only the last turn is
\* written to, and what opened it stays.
Grows ==
  /\ DOMAIN turns \subseteq DOMAIN turns'
  /\ \A i \in DOMAIN turns : LET t == turns[i] u == turns'[i]
                             IN  /\ u.number = t.number /\ u.phase = t.phase
                                 /\ u.giver = t.giver
                                 /\ i # Len(turns') => u.reveals = t.reveals
  /\ \A i \in DOMAIN turns' \ DOMAIN turns : LET u == turns'[i]
                                             IN  /\ i = Len(turns) + 1 /\ i = Len(turns')
                                                 /\ u.number = Len(turns) /\ u.reveals = <<>>

\* A normal turn is opened by the request for its clue.
ClueAsked ==
  \A i \in DOMAIN turns' \ DOMAIN turns :
    turns'[i].phase = "normal" =>
      /\ phase = GivingClue /\ turns'[i].giver = clueGiver
      /\ Ask(ClueRequest(clueGiver))

\* A measurement is written by the request for it, to the turn guessed on.
MeasurementAsked ==
  \A i \in DOMAIN turns' : turns'[i].measured =>
    \/ i \in DOMAIN turns /\ turns[i].measured
    \/ /\ i = Len(turns) /\ i \in DOMAIN turns
       /\ phase = Guessing /\ at = "measure" /\ Ask(MeasurementRequest(guesser))

LEMMA OpeningGrows ==
  ASSUME NEW kind, Opening(kind)
  PROVE  Grows
BY DEF Opening, Grows

LEMMA WritingGrows ==
  ASSUME Writing
  PROVE  Grows
BY DEF Writing, Grows

LEMMA RestGrows ==
  ASSUME UNCHANGED turns
  PROVE  Grows /\ ClueAsked /\ MeasurementAsked
BY DEF Grows, ClueAsked, MeasurementAsked

\* The steps that ask nothing and write nothing.
Resting ==
  \/ EnterSuddenDeath \/ ModelCallFails \/ SkipWord \/ StopGuessing \/ NothingPlayable
  \/ Concede \/ TooManyDispatches \/ FlushCommits \/ FlushFails \/ ErrorFlush
  \/ UNCHANGED rowsVars

LEMMA RestingRests ==
  ASSUME Resting
  PROVE  UNCHANGED <<turns, sdTurn>>
BY DEF Resting, EnterSuddenDeath, ModelCallFails, SkipWord, StopGuessing, NothingPlayable,
       Concede, TooManyDispatches, FlushCommits, FlushFails, ErrorFlush, Raise, recordVars,
       rowsVars, gameVars

\* The steps of a game with its prompts.
LEMMA RowsSteps ==
  ASSUME [RowsNext]_rowsVars
  PROVE  \/ \E word \in ClueWords : ProposeClue(word)
         \/ \E words \in Proposals : ProposeWords(words)
         \/ \E words \in Proposals : ProposeWordsSD(words)
         \/ ElicitRanking
         \/ ElicitRankingSD
         \/ PlayWord /\ UNCHANGED asked
         \/ Resting /\ UNCHANGED asked
BY DEF RowsNext, Resting, rowsVars

LEMMA RecordGrows ==
  ASSUME GameInv, EngineInv', [RowsNext]_rowsVars
  PROVE  Grows /\ ClueAsked /\ MeasurementAsked
<1>1. ASSUME NEW word \in ClueWords, ProposeClue(word)
      PROVE  Grows /\ ClueAsked /\ MeasurementAsked
  <2>1. ConductClue(word) /\ Ask(ClueRequest(clueGiver)) /\ phase = GivingClue
    BY <1>1 DEF ProposeClue, MayProposeClue
  <2>2. Opening("normal") /\ turns'[Len(turns')].giver = clueGiver
    BY <2>1, ClueOpensTurn
  <2>3. QED BY <2>1, <2>2, OpeningGrows DEF Opening, ClueAsked, MeasurementAsked
<1>2. ASSUME NEW words \in Proposals, ProposeWords(words)
      PROVE  Grows /\ ClueAsked /\ MeasurementAsked
  <2>1. Writing /\ turns'[Len(turns)].measured = turns[Len(turns)].measured
    BY <1>2, ProposalWrites DEF ProposeWords
  <2>2. QED BY <2>1, WritingGrows DEF Writing, ClueAsked, MeasurementAsked
<1>3. ASSUME \/ UNCHANGED turns
             \/ Opening("sudden_death")
             \/ Writing /\ turns'[Len(turns)].measured = turns[Len(turns)].measured
      PROVE  Grows /\ ClueAsked /\ MeasurementAsked
  BY <1>3, RestGrows, OpeningGrows, WritingGrows DEF Opening, Writing, ClueAsked, MeasurementAsked
<1>4. ASSUME NEW words \in Proposals, ProposeWordsSD(words)
      PROVE  Grows /\ ClueAsked /\ MeasurementAsked
  BY <1>3, <1>4, SuddenDeathWrites DEF ProposeWordsSD
<1>5. CASE ElicitRankingSD
  BY <1>3, <1>5, SuddenDeathWrites DEF ElicitRankingSD
<1>6. CASE ElicitRanking
  <2>1. MeasureNormal /\ Ask(MeasurementRequest(guesser)) /\ at = "measure"
    BY <1>6 DEF ElicitRanking, MeasureNormal
  <2>2. phase = Guessing /\ (UNCHANGED turns \/ Writing)
    BY <2>1, MeasurementWrites
  <2>3. QED
    BY <2>1, <2>2, RestGrows, WritingGrows DEF Writing, ClueAsked, MeasurementAsked
<1>7. CASE PlayWord
  BY <1>3, <1>7, GuessWrites
<1>8. CASE Resting
  BY <1>8, RestingRests, RestGrows
<1>9. QED BY <1>1, <1>2, <1>4, <1>5, <1>6, <1>7, <1>8, RowsSteps


-----------------------------------------------------------------------------
(***************************************************************************)
(* What the requests of a game are known to be                             *)
(***************************************************************************)

\* The log is a sequence.
AskedIsALog == \E S : asked \in Seq(S)

LEMMA Asking ==
  ASSUME AskedIsALog, NEW q, Ask(q)
  PROVE  /\ AskedIsALog'
         /\ DOMAIN asked' = DOMAIN asked \cup {Len(asked')}
         /\ Len(asked') \notin DOMAIN asked /\ asked'[Len(asked')] = q
         /\ \A k \in DOMAIN asked : asked'[k] = asked[k]
<1>1. PICK S : asked \in Seq(S)
  BY DEF AskedIsALog
<1>2. asked' = Append(asked, q) /\ asked \in Seq(S \cup {q})
  BY <1>1 DEF Ask
<1>3. /\ asked' \in Seq(S \cup {q}) /\ Len(asked') = Len(asked) + 1
      /\ \A k \in 1..Len(asked) : asked'[k] = asked[k]
      /\ asked'[Len(asked) + 1] = q
  BY <1>2, AppendProperties
<1>4. /\ Len(asked) \in Nat /\ DOMAIN asked = 1..Len(asked)
      /\ DOMAIN asked' = 1..(Len(asked) + 1)
  BY <1>2, <1>3
<1>5. \A m \in Nat : 1..(m + 1) = 1..m \cup {m + 1} /\ m + 1 \notin 1..m
  OBVIOUS
<1>6. QED BY <1>3, <1>4, <1>5 DEF AskedIsALog

\* A request once made stays in the log.
LEMMA AskedStays ==
  ASSUME AskedIsALog, [RowsNext]_rowsVars
  PROVE  /\ AskedIsALog' /\ DOMAIN asked \subseteq DOMAIN asked'
         /\ \A k \in DOMAIN asked : asked'[k] = asked[k]
<1>1. UNCHANGED asked \/ \E q : Ask(q)
  BY DEF RowsNext, ProposeClue, ProposeWords, ProposeWordsSD, ElicitRanking, ElicitRankingSD,
         rowsVars
<1>2. CASE UNCHANGED asked
  BY <1>2 DEF AskedIsALog
<1>3. ASSUME NEW q, Ask(q)
      PROVE  /\ AskedIsALog' /\ DOMAIN asked \subseteq DOMAIN asked'
             /\ \A k \in DOMAIN asked : asked'[k] = asked[k]
  BY <1>3, Asking
<1>4. QED BY <1>1, <1>2, <1>3

\* What the engine is known to keep, besides what its driver relies on.
PlayInv == GameInv /\ ArchiveAccountsForTheTokens /\ PromptsShowTheBoard

LEMMA PlayInvariant == RowsSpec => []PlayInv
BY GameInvariant, RowsPlayTheEngine, ArchiveCorrect, PromptsCorrect, PTL DEF PlayInv

\* The engine's turn counter counts the turns of the record.
LEMMA TurnIsCounted ==
  ASSUME PlayInv
  PROVE  /\ Len(turns) \in Nat /\ DOMAIN turns = 1..Len(turns) /\ turn \in Nat
         /\ Len(history) \in Nat /\ DOMAIN history = 1..Len(history)
         /\ Len(history) = turn - 1
         /\ \A i \in DOMAIN history : history[i].turn = i
         /\ phase = GivingClue => turn = Len(turns) + 1
         /\ phase = Guessing => turn = Len(turns) /\ clue.turn = turn
<1>1. /\ turns \in Seq(TurnRecords) /\ history \in Seq(ClueEntries) /\ turn \in Nat
      /\ clue \in ClueEntries
  BY DEF PlayInv, GameInv, RecordInv, RecordTypes, EngineInv, PhaseInv, TypeOK
<1>2. /\ Len(history) = turn - 1 /\ \A i \in DOMAIN history : history[i].turn = i
      /\ clue # NoClue => clue.turn = turn
  BY DEF PlayInv, ArchiveAccountsForTheTokens, EveryTurnIsPaidOnce, HistoryIsFaithful
<1>3. /\ phase = GivingClue => clue = NoClue /\ Len(turns) = Len(LiveClues)
      /\ phase = Guessing => clue # NoClue /\ Len(turns) = Len(LiveClues)
  <2>1. Len(LiveClues) \in Nat
    BY <1>1 DEF LiveClues
  <2>2. /\ phase \in {GivingClue, Guessing} => sdTurn = 0
        /\ Len(turns) = Len(LiveClues) + (IF sdTurn = 0 THEN 0 ELSE 1)
    BY DEF PlayInv, GameInv, RecordInv, ShapeInv
  <2>3. sdTurn = 0 => Len(turns) = Len(LiveClues)
    BY <2>1, <2>2
  <2>4. QED BY <2>2, <2>3 DEF PlayInv, GameInv, RecordInv, ClueInv
<1>4. Len(history) \in Nat /\ Len(turns) \in Nat
  BY <1>1
<1>5. clue # NoClue => Len(LiveClues) = Len(history) + 1
  BY <1>1 DEF LiveClues
<1>6. clue = NoClue => Len(LiveClues) = Len(history)
  BY DEF LiveClues
<1>7. QED BY <1>1, <1>2, <1>3, <1>4, <1>5, <1>6

-----------------------------------------------------------------------------
(***************************************************************************)
(* The board, as the rows of earlier turns tell it                         *)
(***************************************************************************)

\* The words covered, and the seats whose token lies on a word, when turn i of
\* the record began.
FoundBefore(i) ==
  {c \in Cards : \E h \in DOMAIN turns : h < i /\ \E r \in RevealsOf(h) :
                   r.role = Agent /\ r.card = c}
TokensBefore(i, c) ==
  {s \in Seats : \E h \in DOMAIN turns : h < i /\ \E r \in RevealsOf(h) :
                   r.role = Civilian /\ r.card = c /\ r.seat = s}

\* What came before a turn is settled once the turn is open.
LEMMA PastStays ==
  ASSUME Grows, turns' \in Seq(TurnRecords), NEW i \in DOMAIN turns'
  PROVE  /\ FoundBefore(i)' = FoundBefore(i)
         /\ \A c \in Cards : TokensBefore(i, c)' = TokensBefore(i, c)
<1>1. i \in Nat /\ i <= Len(turns') /\ Len(turns') \in Nat /\ DOMAIN turns' \subseteq Nat
  OBVIOUS
<1>2. \A h \in DOMAIN turns' : h < i => h \in DOMAIN turns
  BY <1>1 DEF Grows
<1>3. \A h \in DOMAIN turns : h < i => RevealsOf(h)' = RevealsOf(h)
  BY <1>1 DEF Grows, RevealsOf
<1>4. DOMAIN turns \subseteq DOMAIN turns'
  BY DEF Grows
<1>5. FoundBefore(i)' = FoundBefore(i)
  BY <1>2, <1>3, <1>4 DEF FoundBefore
<1>6. ASSUME NEW c \in Cards PROVE TokensBefore(i, c)' = TokensBefore(i, c)
  BY <1>2, <1>3, <1>4 DEF TokensBefore
<1>7. QED BY <1>5, <1>6

\* With nothing revealed since, the words found are the covered ones.
LEMMA FoundIsCovered ==
  ASSUME BoardRebuildsFromReveals, revealed \subseteq Cards, NEW i,
         \A h \in DOMAIN turns : h < i \/ turns[h].reveals = <<>>
  PROVE  FoundBefore(i) = revealed
<1>1. revealed = {r.card : r \in {x \in AllReveals : x.role = Agent}}
  BY DEF BoardRebuildsFromReveals
<1>2. \A h \in DOMAIN turns : turns[h].reveals = <<>> => RevealsOf(h) = {}
  BY DEF RevealsOf
<1>3. QED BY <1>1, <1>2 DEF FoundBefore, AllReveals

\* And the tokens are those on the board, while every turn is a normal one.
LEMMA TokensAreMarked ==
  ASSUME BoardRebuildsFromReveals, markers \in [Cards -> SUBSET Seats], NEW i,
         \A h \in DOMAIN turns : h < i \/ turns[h].reveals = <<>>,
         \A h \in DOMAIN turns : turns[h].phase = "normal", NEW c \in Cards
  PROVE  TokensBefore(i, c) = markers[c]
<1>1. markers[c] = {r.seat : r \in {x \in NormalReveals : x.card = c /\ x.role = Civilian}}
  BY DEF BoardRebuildsFromReveals
<1>2. \A h \in DOMAIN turns : turns[h].reveals = <<>> => RevealsOf(h) = {}
  BY DEF RevealsOf
<1>3. NormalTurns = DOMAIN turns /\ markers[c] \subseteq Seats
  BY DEF NormalTurns
<1>4. QED BY <1>1, <1>2, <1>3 DEF TokensBefore, NormalReveals

-----------------------------------------------------------------------------
(***************************************************************************)
(* What the giver was shown                                                *)
(***************************************************************************)

\* The rows are numbered from 0.
NumberInv == \A i \in DOMAIN turns : turns[i].number = i - 1

\* The prompt of a clue listed every agent of the giver not found before its turn.
ShownOn(i) ==
  \E k \in DOMAIN asked :
    /\ asked[k].call = "clue_giver" /\ asked[k].turn = i /\ asked[k].seat = turns[i].giver
    /\ Having(Agent, turns[i].giver) \ FoundBefore(i) \subseteq asked[k].board.agents

ShownInv == \A i \in NormalTurns : ShownOn(i)

LEMMA NumberStep ==
  ASSUME PlayInv, NumberInv, Grows
  PROVE  NumberInv'
<1>1. Len(turns) \in Nat /\ DOMAIN turns = 1..Len(turns)
  BY TurnIsCounted
<1>2. QED BY <1>1 DEF NumberInv, Grows

LEMMA ShownStep ==
  ASSUME PlayInv, PlayInv', AskedIsALog, ShownInv, [RowsNext]_rowsVars
  PROVE  ShownInv'
<1>1. Grows /\ ClueAsked /\ turns' \in Seq(TurnRecords)
  BY RecordGrows DEF PlayInv, GameInv, RecordInv, RecordTypes
<1>2. SUFFICES ASSUME NEW i \in DOMAIN turns', turns'[i].phase = "normal"
               PROVE  ShownOn(i)'
  BY DEF ShownInv, NormalTurns
<1>3. FoundBefore(i)' = FoundBefore(i)
  BY <1>1, PastStays
<1>4. CASE i \in DOMAIN turns
  <2>1. turns'[i].giver = turns[i].giver /\ turns[i].phase = "normal"
    BY <1>1, <1>2, <1>4 DEF Grows
  <2>2. ShownOn(i)
    BY <1>4, <2>1 DEF ShownInv, NormalTurns
  <2>3. QED BY <1>3, <2>1, <2>2, AskedStays DEF ShownOn
<1>5. CASE i \notin DOMAIN turns
  <2>1. /\ phase = GivingClue /\ turns'[i].giver = clueGiver /\ i = Len(turns) + 1
        /\ Ask(ClueRequest(clueGiver))
    BY <1>1, <1>2, <1>5 DEF ClueAsked, Grows
  <2>2. turn = i /\ \A h \in DOMAIN turns : h < i
    <3>1. Len(turns) \in Nat /\ DOMAIN turns = 1..Len(turns) /\ turn = Len(turns) + 1
      BY <2>1, TurnIsCounted
    <3>2. QED BY <2>1, <3>1
  <2>3. BoardRebuildsFromReveals /\ revealed \subseteq Cards /\ clueGiver \in Seats
    BY DEF PlayInv, GameInv, RecordInv, EngineInv, PhaseInv, TypeOK
  <2>4. FoundBefore(i) = revealed
    BY <2>2, <2>3, FoundIsCovered
  <2>5. ClueGiverBoard(clueGiver).agents = Having(Agent, clueGiver) \ revealed
    BY <2>3, PartnerOfPartner DEF PlayInv, PromptsShowTheBoard, PendingOnBoard
  <2>6. LET q == asked'[Len(asked')]
        IN  /\ Len(asked') \in DOMAIN asked'
            /\ q.call = "clue_giver" /\ q.turn = i /\ q.seat = clueGiver
            /\ q.board.agents = Having(Agent, clueGiver) \ revealed
    BY <2>1, <2>2, <2>5, Asking DEF ClueRequest
  <2>7. QED BY <1>3, <2>1, <2>4, <2>6 DEF ShownOn
<1>6. QED BY <1>4, <1>5

\* The rows a reader sees of turn i.
TurnRow(i) ==
  [turn |-> i, number |-> turns[i].number, giver |-> turns[i].giver, phase |-> turns[i].phase]

LEMMA RowsOfTurns ==
  ASSUME RowInv, IsStored
  PROVE  /\ TurnRows = {TurnRow(i) : i \in DOMAIN turns}
         /\ ClueRows = {TurnRow(i) : i \in NormalTurns}
<1>1. row.turns = turns
  BY StoredTurns
<1>2. TurnRows = {TurnRow(i) : i \in DOMAIN turns}
  BY <1>1 DEF TurnRows, TurnRow
<1>3. \A i \in DOMAIN turns : TurnRow(i).phase = turns[i].phase
  BY DEF TurnRow
<1>4. QED BY <1>2, <1>3 DEF ClueRows, NormalTurns


\* The rows a reader sees of reveal k of turn i.
RevealRow(i, k) ==
  [turn |-> i, number |-> turns[i].number, phase |-> turns[i].phase, position |-> k,
   reveal |-> turns[i].reveals[k]]

LEMMA RowsOfReveals ==
  ASSUME RowInv, IsStored
  PROVE  \A x : x \in RevealRows <=>
                  \E i \in DOMAIN turns : \E k \in DOMAIN turns[i].reveals : x = RevealRow(i, k)
<1>1. row.turns = turns /\ TurnRows = {TurnRow(i) : i \in DOMAIN turns}
  BY StoredTurns, RowsOfTurns
<1>2. \A i \in DOMAIN turns : LET t == TurnRow(i)
                             IN  t.turn = i /\ t.number = turns[i].number
                                 /\ t.phase = turns[i].phase /\ t.giver = turns[i].giver
  BY DEF TurnRow
<1> DEFINE Of(t) == {[turn |-> t.turn, number |-> t.number, phase |-> t.phase, position |-> k,
                      reveal |-> turns[t.turn].reveals[k]] : k \in DOMAIN turns[t.turn].reveals}
<1>3. RevealRows = UNION {Of(t) : t \in TurnRows}
  BY <1>1 DEF RevealRows
<1>4. \A i \in DOMAIN turns : Of(TurnRow(i)) = {RevealRow(i, k) : k \in DOMAIN turns[i].reveals}
  BY <1>2 DEF RevealRow
<1> HIDE DEF Of
<1>5. \A x : x \in RevealRows <=> \E i \in DOMAIN turns : x \in Of(TurnRow(i))
  BY <1>1, <1>3
<1>6. QED BY <1>4, <1>5

\* Rows of earlier turns are earlier rows.
LEMMA EarlierRows ==
  ASSUME PlayInv, NumberInv, IsStored, NEW i \in DOMAIN turns
  PROVE  \A x : x \in EarlierReveals(TurnRow(i)) <=>
                  \E h \in DOMAIN turns :
                    h < i /\ \E k \in DOMAIN turns[h].reveals : x = RevealRow(h, k)
<1>1. \A x : x \in RevealRows <=>
        \E h \in DOMAIN turns : \E k \in DOMAIN turns[h].reveals : x = RevealRow(h, k)
  BY RowsOfReveals DEF PlayInv, GameInv
<1>2. \A h \in DOMAIN turns : turns[h].number = h - 1 /\ h \in Nat
  BY TurnIsCounted DEF NumberInv
<1>3. TurnRow(i).number = i - 1
  BY <1>2 DEF TurnRow
<1>4. \A h \in DOMAIN turns : \A k \in DOMAIN turns[h].reveals : RevealRow(h, k).number = h - 1
  BY <1>2 DEF RevealRow
<1>5. \A h \in DOMAIN turns : h - 1 < i - 1 <=> h < i
  BY <1>2
<1>6. QED BY <1>1, <1>3, <1>4, <1>5 DEF EarlierReveals

-----------------------------------------------------------------------------
(***************************************************************************)
(* What the guesser was asked                                              *)
(***************************************************************************)

\* A turn whose guesser has been asked nothing yet.
Quiet == phase = GivingClue \/ (phase = Guessing /\ at = "dispatch")

\* The play and the measurement of a turn are asked in that turn, once it has
\* its clue.
AskedInOrder ==
  /\ \A k \in DOMAIN asked : asked[k].turn \in Nat /\ asked[k].turn <= turn
  /\ Quiet => \A k \in DOMAIN asked :
                asked[k].call \in {"guesser", "measurement"} => asked[k].turn < turn

\* They show the same words and the same clues, for nothing happens in between.
AskedAlike ==
  /\ \A k, l \in DOMAIN asked :
       asked[k].call = "measurement" /\ asked[l].call = "guesser"
         /\ asked[k].turn = asked[l].turn =>
           asked[k].view = asked[l].view /\ asked[k].clue = asked[l].clue
  /\ phase = Guessing /\ at = "measure" =>
       \A k \in DOMAIN asked : asked[k].call = "guesser" /\ asked[k].turn = turn =>
         asked[k].view = GuesserView(guesser) /\ asked[k].clue = clue.turn

OrderInv == AskedInOrder /\ AskedAlike

\* What a step that asks no guesser leaves of it: the turn counter never goes
\* back, and a turn that has asked nothing is the same one or a new one.
MovesOn ==
  /\ turn' \in {turn, turn + 1}
  /\ Quiet' => turn' = turn + 1 \/ Quiet
  /\ phase' = Guessing /\ at' = "measure" =>
       UNCHANGED <<turn, clue, phase, at, guesser, history, revealed, markers>>

LEMMA SwitchMovesOn ==
  ASSUME NEW live, SwitchRoles(live), phase' # Guessing \/ at' # "measure"
  PROVE  MovesOn
BY DEF SwitchRoles, MovesOn

LEMMA StaysMovesOn ==
  ASSUME turn' = turn, Quiet' => Quiet, phase' # Guessing \/ at' # "measure"
  PROVE  MovesOn
BY DEF MovesOn

LEMMA ClueMovesOn ==
  ASSUME PlayInv, NEW word, ConductClue(word)
  PROVE  MovesOn
<1>1. /\ phase = GivingClue /\ at = "dispatch" /\ at' = at
      /\ ReceiveClue(clueGiver, word)
  BY DEF ConductClue, Dispatch
<1>2. CASE OpenGuessing(ClueEntry(clueGiver, word))
  BY <1>1, <1>2 DEF OpenGuessing, MovesOn, Quiet
<1>3. CASE SwitchRoles(ClueEntry(clueGiver, word))
  BY <1>1, <1>3, SwitchMovesOn
<1>4. QED BY <1>1, <1>2, <1>3 DEF ReceiveClue

\* A guess keeps the turn or ends it.
LEMMA GuessMovesOn ==
  ASSUME PlayInv, EngineInv', PlayWord
  PROVE  MovesOn
<1> DEFINE c   == proposal[next]
           str == Returned(Side[Other(Acting)][c])
<1>1. at = "resolve" /\ c \in Cards /\ ResolveGuess(Acting, c) /\ at' = LoopAfter(str)
  BY DEF PlayWord
<1>2. at' # "measure"
  BY <1>1 DEF LoopAfter, After
<1>3. /\ Acting \in Seats /\ TypeOK /\ TypeOK' /\ PhaseInv
  BY ActingIsASeat DEF PlayInv, GameInv, EngineInv, PhaseInv
<1>4. \/ phase' = GameOver
      \/ phase = Guessing /\ TurnIsOver
      \/ phase' \in SDPhases
      \/ phase' = phase /\ str = Agent
  BY <1>1, <1>3, GuessMoves DEF SDPhases
<1>5. turn' = turn \/ \E live : SwitchRoles(live)
  BY <1>1 DEF ResolveGuess, RevealAgent, WinAfterReveal, TurnEndsOnLastWord, StopTurn,
       HandOffSuddenDeath, KeepGuessing, TouchAssassin, TouchBystander, MissInSuddenDeath, roleVars
<1>6. CASE \E live : SwitchRoles(live)
  BY <1>2, <1>6, SwitchMovesOn
<1>7. CASE turn' = turn /\ ~TurnIsOver
  <2>1. phase \in {Guessing} \cup SDPhases
    BY <1>1, <1>3, PhasesDistinct DEF ResolveGuess, MayGuess
  <2>2. ~Quiet'
    <3>1. phase' = phase /\ str = Agent => at' = "resolve"
      BY <1>1 DEF LoopAfter
    <3>2. QED BY <1>4, <1>7, <2>1, <3>1, PhasesDistinct DEF Quiet
  <2>3. QED BY <1>2, <1>7, <2>2, StaysMovesOn
<1>8. TurnIsOver /\ turn' = turn => \E live : SwitchRoles(live)
  <2>1. SUFFICES ASSUME TurnIsOver, ~\E live : SwitchRoles(live)
                 PROVE  FALSE
    OBVIOUS
  <2>2. timer' = timer - 1 /\ phase' \in {GivingClue} \cup SDPhases
    BY <2>1 DEF TurnIsOver
  <2>3. QED
    BY <1>1, <1>3, <2>1, <2>2, PhasesDistinct DEF ResolveGuess, RevealAgent, WinAfterReveal, FinishGame,
       TurnEndsOnLastWord, StopTurn, HandOffSuddenDeath, KeepGuessing, TouchAssassin,
       TouchBystander, MissInSuddenDeath, tokenVars, TypeOK
<1>9. QED BY <1>5, <1>6, <1>7, <1>8

LEMMA RestMovesOn ==
  ASSUME PlayInv, Resting
  PROVE  MovesOn
<1>1. CASE EnterSuddenDeath
  <2>1. phase' = phase /\ turn' = turn /\ phase \in SDPhases
    BY <1>1 DEF EnterSuddenDeath, vars, roleVars
  <2>2. QED BY <2>1, PhasesDistinct DEF MovesOn, Quiet
<1>2. ASSUME NEW why, Raise(why) PROVE MovesOn
  BY <1>2 DEF Raise, MovesOn, Quiet, vars, roleVars
<1>3. CASE ModelCallFails \/ NothingPlayable \/ TooManyDispatches
  BY <1>2, <1>3 DEF ModelCallFails, NothingPlayable, TooManyDispatches
<1>4. CASE SkipWord
  BY <1>4 DEF SkipWord, MovesOn, Quiet, vars, roleVars
<1>5. CASE StopGuessing
  <2>1. SwitchRoles(clue) /\ at' = "dispatch"
    BY <1>5 DEF StopGuessing, PassTurn, StopTurn
  <2>2. QED BY <2>1, SwitchMovesOn
<1>6. CASE Concede
  <2>1. turn' = turn /\ at' = "flush" /\ phase' = GameOver
    BY <1>6 DEF Concede, ConcedeSuddenDeath, FinishGame, roleVars
  <2>2. QED BY <2>1, PhasesDistinct DEF MovesOn, Quiet
<1>7. CASE FlushCommits \/ FlushFails \/ ErrorFlush
  BY <1>7 DEF FlushCommits, FlushFails, ErrorFlush, MovesOn, Quiet, vars, roleVars
<1>8. CASE UNCHANGED rowsVars
  BY <1>8 DEF rowsVars, gameVars, vars, roleVars, cardVars, driverVars, MovesOn, Quiet
<1>9. QED BY <1>1, <1>3, <1>4, <1>5, <1>6, <1>7, <1>8 DEF Resting


\* What the guesser sees, while the board and the archive stay.
LEMMA ViewStays ==
  ASSUME UNCHANGED <<history, revealed, markers>>, NEW s
  PROVE  GuesserView(s)' = GuesserView(s)
BY DEF GuesserView, IsGuessableBy, IsCovered

\* A step that asks nothing, or asks no guesser of a normal turn, keeps the order.
LEMMA OrderRests ==
  ASSUME PlayInv, OrderInv, MovesOn, UNCHANGED asked
  PROVE  OrderInv'
<1>1. turn \in Nat /\ turn' \in {turn, turn + 1}
  BY TurnIsCounted DEF MovesOn
<1>2. \A k \in DOMAIN asked : asked[k].turn \in Nat /\ asked[k].turn <= turn'
  BY <1>1 DEF OrderInv, AskedInOrder
<1>3. Quiet' => \A k \in DOMAIN asked :
                  asked[k].call \in {"guesser", "measurement"} => asked[k].turn < turn'
  BY <1>1, <1>2 DEF OrderInv, AskedInOrder, MovesOn
<1>4. phase' = Guessing /\ at' = "measure" =>
        \A k \in DOMAIN asked : asked[k].call = "guesser" /\ asked[k].turn = turn' =>
          asked[k].view = GuesserView(guesser)' /\ asked[k].clue = clue'.turn
  BY ViewStays DEF OrderInv, AskedAlike, MovesOn
<1>5. QED BY <1>2, <1>3, <1>4 DEF OrderInv, AskedInOrder, AskedAlike

LEMMA OrderAsksOther ==
  ASSUME PlayInv, OrderInv, MovesOn, AskedIsALog, NEW q, Ask(q),
         q.call \notin {"guesser", "measurement"}, q.turn = turn
  PROVE  OrderInv'
<1> DEFINE n == Len(asked')
<1>1. /\ DOMAIN asked' = DOMAIN asked \cup {n} /\ asked'[n] = q
      /\ \A k \in DOMAIN asked : asked'[k] = asked[k]
  BY Asking
<1> HIDE DEF n
<1>2. turn \in Nat /\ turn' \in {turn, turn + 1}
  BY TurnIsCounted DEF MovesOn
<1>3. \A k \in DOMAIN asked' : asked'[k].turn \in Nat /\ asked'[k].turn <= turn'
  BY <1>1, <1>2 DEF OrderInv, AskedInOrder
<1>4. Quiet' => \A k \in DOMAIN asked' :
                  asked'[k].call \in {"guesser", "measurement"} => asked'[k].turn < turn'
  BY <1>1, <1>2 DEF OrderInv, AskedInOrder, MovesOn
<1>5. \A k, l \in DOMAIN asked' :
        asked'[k].call = "measurement" /\ asked'[l].call = "guesser"
          /\ asked'[k].turn = asked'[l].turn =>
            asked'[k].view = asked'[l].view /\ asked'[k].clue = asked'[l].clue
  BY <1>1 DEF OrderInv, AskedAlike
<1>6. phase' = Guessing /\ at' = "measure" =>
        \A k \in DOMAIN asked' : asked'[k].call = "guesser" /\ asked'[k].turn = turn' =>
          asked'[k].view = GuesserView(guesser)' /\ asked'[k].clue = clue'.turn
  BY <1>1, ViewStays DEF OrderInv, AskedAlike, MovesOn
<1>7. QED BY <1>3, <1>4, <1>5, <1>6 DEF OrderInv, AskedInOrder, AskedAlike

\* The play is asked first, of a turn that has asked nothing.
LEMMA OrderAsksPlay ==
  ASSUME PlayInv, OrderInv, AskedIsALog, NEW words, ProposeGuess(words),
         Ask(GuessRequest(guesser))
  PROVE  OrderInv'
<1> DEFINE n == Len(asked')
           q == GuessRequest(guesser)
<1>1. /\ DOMAIN asked' = DOMAIN asked \cup {n} /\ asked'[n] = q
      /\ \A k \in DOMAIN asked : asked'[k] = asked[k]
  BY Asking
<1>2. /\ phase = Guessing /\ at = "dispatch" /\ at' = "measure"
      /\ UNCHANGED <<turn, phase, guesser, clue, history, revealed, markers>>
  BY DEF ProposeGuess, Dispatch, vars, roleVars, cardVars
<1>3. /\ q.call = "guesser" /\ q.turn = turn /\ q.clue = clue.turn
      /\ q.view = GuesserView(guesser)
  BY DEF GuessRequest
<1> HIDE DEF n, q
<1>4. turn \in Nat
  BY TurnIsCounted
<1>5. \A k \in DOMAIN asked :
        asked[k].call \in {"guesser", "measurement"} => asked[k].turn < turn
  BY <1>2 DEF OrderInv, AskedInOrder, Quiet
<1>6. \A k \in DOMAIN asked' : asked'[k].turn \in Nat /\ asked'[k].turn <= turn'
  BY <1>1, <1>2, <1>3, <1>4 DEF OrderInv, AskedInOrder
<1>7. ~Quiet'
  BY <1>2, PhasesDistinct DEF Quiet
<1>8. \A k \in DOMAIN asked : asked[k].call \in {"guesser", "measurement"} => asked[k].turn # turn
  BY <1>4, <1>5 DEF OrderInv, AskedInOrder
<1>9. \A k, l \in DOMAIN asked' :
        asked'[k].call = "measurement" /\ asked'[l].call = "guesser"
          /\ asked'[k].turn = asked'[l].turn =>
            asked'[k].view = asked'[l].view /\ asked'[k].clue = asked'[l].clue
  BY <1>1, <1>3, <1>8 DEF OrderInv, AskedAlike
<1>10. \A k \in DOMAIN asked' : asked'[k].call = "guesser" /\ asked'[k].turn = turn' =>
         asked'[k].view = GuesserView(guesser)' /\ asked'[k].clue = clue'.turn
  BY <1>1, <1>2, <1>3, <1>8, ViewStays
<1>11. QED BY <1>6, <1>7, <1>9, <1>10 DEF OrderInv, AskedInOrder, AskedAlike

\* The measurement is asked next, on the same board and the same archive.
LEMMA OrderAsksMeasurement ==
  ASSUME PlayInv, OrderInv, AskedIsALog, MeasureNormal, Ask(MeasurementRequest(guesser))
  PROVE  OrderInv'
<1> DEFINE n == Len(asked')
           q == MeasurementRequest(guesser)
<1>1. /\ DOMAIN asked' = DOMAIN asked \cup {n} /\ asked'[n] = q
      /\ \A k \in DOMAIN asked : asked'[k] = asked[k]
  BY Asking
<1>2. /\ phase = Guessing /\ at = "measure" /\ at' = "resolve"
      /\ UNCHANGED <<turn, phase>>
  BY DEF MeasureNormal, AttachConfidenceRanking, vars, roleVars
<1>3. /\ q.call = "measurement" /\ q.turn = turn /\ q.clue = clue.turn
      /\ q.view = GuesserView(guesser)
  BY DEF MeasurementRequest
<1> HIDE DEF n, q
<1>4. turn \in Nat
  BY TurnIsCounted
<1>5. \A k \in DOMAIN asked' : asked'[k].turn \in Nat /\ asked'[k].turn <= turn'
  BY <1>1, <1>2, <1>3, <1>4 DEF OrderInv, AskedInOrder
<1>6. ~Quiet' /\ at' # "measure"
  BY <1>2, PhasesDistinct DEF Quiet
<1>7. \A k, l \in DOMAIN asked' :
        asked'[k].call = "measurement" /\ asked'[l].call = "guesser"
          /\ asked'[k].turn = asked'[l].turn =>
            asked'[k].view = asked'[l].view /\ asked'[k].clue = asked'[l].clue
  BY <1>1, <1>2, <1>3 DEF OrderInv, AskedAlike
<1>8. QED BY <1>5, <1>6, <1>7 DEF OrderInv, AskedInOrder, AskedAlike

LEMMA OrderStep ==
  ASSUME PlayInv, EngineInv', OrderInv, AskedIsALog, [RowsNext]_rowsVars
  PROVE  OrderInv'
<1>1. ASSUME NEW word \in ClueWords, ProposeClue(word) PROVE OrderInv'
  <2>1. MovesOn /\ Ask(ClueRequest(clueGiver))
    BY <1>1, ClueMovesOn DEF ProposeClue
  <2>2. ClueRequest(clueGiver).call = "clue_giver" /\ ClueRequest(clueGiver).turn = turn
    BY DEF ClueRequest
  <2>3. QED BY <2>1, <2>2, OrderAsksOther
<1>2. ASSUME NEW words \in Proposals, ProposeWords(words) PROVE OrderInv'
  BY <1>2, OrderAsksPlay DEF ProposeWords
<1>3. ASSUME turn' = turn, phase' \in SDPhases PROVE MovesOn
  BY <1>3, PhasesDistinct DEF MovesOn, Quiet
<1>4. ASSUME NEW words \in Proposals, ProposeWordsSD(words) PROVE OrderInv'
  <2>1. ProposeGuessSD(words) /\ Ask(GuessSDRequest(Acting)) /\ turn' = turn /\ phase' = phase
    BY <1>4 DEF ProposeWordsSD, ProposeGuessSD, vars, roleVars
  <2>2. phase \in SDPhases
    BY <2>1, SuddenDeathWrites DEF PlayInv
  <2>3. GuessSDRequest(Acting).call = "guesser_sd" /\ GuessSDRequest(Acting).turn = turn
    BY DEF GuessSDRequest
  <2>4. QED BY <1>3, <2>1, <2>2, <2>3, OrderAsksOther
<1>5. CASE ElicitRanking
  BY <1>5, OrderAsksMeasurement DEF ElicitRanking
<1>6. CASE ElicitRankingSD
  <2>1. /\ MeasureSuddenDeath /\ Ask(MeasurementSDRequest(Acting))
        /\ turn' = turn /\ phase' = phase /\ phase \in SDPhases
    BY <1>6 DEF ElicitRankingSD, MeasureSuddenDeath, AttachSuddenDeathRanking, vars, roleVars
  <2>2. MeasurementSDRequest(Acting).call = "measurement_sd"
        /\ MeasurementSDRequest(Acting).turn = turn
    BY DEF MeasurementSDRequest
  <2>3. QED BY <1>3, <2>1, <2>2, OrderAsksOther
<1>7. CASE PlayWord /\ UNCHANGED asked
  BY <1>7, GuessMovesOn, OrderRests
<1>8. CASE Resting /\ UNCHANGED asked
  BY <1>8, RestMovesOn, OrderRests
<1>9. QED BY <1>1, <1>2, <1>4, <1>5, <1>6, <1>7, <1>8, RowsSteps


\* The words a seat could still touch when turn i began.
OpenBefore(i, s) ==
  {c \in Cards \ FoundBefore(i) : TokensBefore(i, c) # Seats /\ s \notin TokensBefore(i, c)}

\* The prompt of a measurement listed exactly those.
OfferedOn(i) ==
  \E k \in DOMAIN asked :
    /\ asked[k].call = "measurement" /\ asked[k].turn = i
    /\ asked[k].seat = Other(turns[i].giver)
    /\ asked[k].view.words = OpenBefore(i, Other(turns[i].giver))

OfferedInv == \A i \in NormalTurns : turns[i].measured => OfferedOn(i)

LEMMA OpenStays ==
  ASSUME Grows, turns' \in Seq(TurnRecords), NEW i \in DOMAIN turns', NEW s
  PROVE  OpenBefore(i, s)' = OpenBefore(i, s)
BY PastStays DEF OpenBefore

\* The words a guesser is shown before its turn has revealed anything.
LEMMA ShownIsOpen ==
  ASSUME PlayInv, phase = Guessing, at = "measure"
  PROVE  /\ Len(turns) \in DOMAIN turns /\ turn = Len(turns)
         /\ guesser = Other(turns[Len(turns)].giver)
         /\ GuesserView(guesser).words = OpenBefore(Len(turns), guesser)
<1> DEFINE n == Len(turns)
<1>1. /\ n \in DOMAIN turns /\ DOMAIN turns = 1..n /\ turns[n].giver = clueGiver
      /\ sdTurn = 0
  BY GuessedTurn DEF PlayInv, GameInv
<1>2. turn = n /\ n \in Nat
  BY TurnIsCounted
<1>3. guesser = Other(clueGiver)
  <2>1. clueGiver # guesser /\ clueGiver \in Seats /\ guesser \in Seats
    BY DEF PlayInv, GameInv, EngineInv, PhaseInv, TypeOK, PhaseFitsTheBoard
  <2>2. QED BY <2>1 DEF Seats, Other
<1>4. turns[n].reveals = <<>>
  BY DEF PlayInv, GameInv, RecordInv, GuessedInv
<1>5. \A h \in DOMAIN turns : h < n \/ turns[h].reveals = <<>>
  BY <1>1, <1>2, <1>4
<1>6. \A h \in DOMAIN turns : turns[h].phase = "normal"
  BY <1>1 DEF PlayInv, GameInv, RecordInv, ShapeInv
<1>7. /\ BoardRebuildsFromReveals /\ revealed \subseteq Cards
      /\ markers \in [Cards -> SUBSET Seats]
  BY DEF PlayInv, GameInv, RecordInv, EngineInv, PhaseInv, TypeOK
<1>8. FoundBefore(n) = revealed /\ \A c \in Cards : TokensBefore(n, c) = markers[c]
  BY <1>5, <1>6, <1>7, FoundIsCovered, TokensAreMarked
<1>9. QED
  BY <1>1, <1>2, <1>3, <1>8 DEF GuesserView, OpenBefore, IsGuessableBy, IsCovered

LEMMA OfferedStep ==
  ASSUME PlayInv, PlayInv', AskedIsALog, OfferedInv, [RowsNext]_rowsVars
  PROVE  OfferedInv'
<1>1. Grows /\ MeasurementAsked /\ turns' \in Seq(TurnRecords)
  BY RecordGrows DEF PlayInv, GameInv, RecordInv, RecordTypes
<1>2. SUFFICES ASSUME NEW i \in DOMAIN turns', turns'[i].phase = "normal", turns'[i].measured
               PROVE  OfferedOn(i)'
  BY DEF OfferedInv, NormalTurns
<1>3. \A s : OpenBefore(i, s)' = OpenBefore(i, s)
  BY <1>1, OpenStays
<1>4. CASE i \in DOMAIN turns /\ turns[i].measured
  <2>1. turns'[i].giver = turns[i].giver /\ turns[i].phase = "normal"
    BY <1>1, <1>2, <1>4 DEF Grows
  <2>2. OfferedOn(i)
    BY <1>4, <2>1 DEF OfferedInv, NormalTurns
  <2>3. QED BY <1>3, <2>1, <2>2, AskedStays DEF OfferedOn
<1>5. CASE ~(i \in DOMAIN turns /\ turns[i].measured)
  <2>1. /\ i = Len(turns) /\ i \in DOMAIN turns /\ phase = Guessing /\ at = "measure"
        /\ Ask(MeasurementRequest(guesser))
    BY <1>1, <1>2, <1>5 DEF MeasurementAsked
  <2>2. /\ turn = i /\ guesser = Other(turns[i].giver) /\ turns'[i].giver = turns[i].giver
        /\ GuesserView(guesser).words = OpenBefore(i, guesser)
    BY <1>1, <2>1, ShownIsOpen DEF Grows
  <2>3. LET q == asked'[Len(asked')]
        IN  /\ Len(asked') \in DOMAIN asked'
            /\ q.call = "measurement" /\ q.turn = i /\ q.seat = guesser
            /\ q.view.words = OpenBefore(i, guesser)
    BY <2>1, <2>2, Asking DEF MeasurementRequest
  <2>4. QED BY <1>3, <2>2, <2>3 DEF OfferedOn
<1>6. QED BY <1>4, <1>5

\* What is known of the requests of a game.
RequestInv == AskedIsALog /\ NumberInv /\ ShownInv /\ OrderInv /\ OfferedInv

LEMMA RequestInvariant == RowsSpec => [](PlayInv /\ RequestInv)
<1>1. RowsInit => RequestInv
  <2> SUFFICES ASSUME RowsInit PROVE RequestInv
    OBVIOUS
  <2>1. turns = <<>> /\ asked = <<>>
    BY DEF RowsInit, GameInit
  <2>2. asked \in Seq({}) /\ DOMAIN turns = {} /\ DOMAIN asked = {}
    BY <2>1
  <2>3. QED
    BY <2>1, <2>2 DEF RequestInv, AskedIsALog, NumberInv, ShownInv, NormalTurns, OrderInv,
       AskedInOrder, AskedAlike, OfferedInv
<1>2. PlayInv /\ PlayInv' /\ RequestInv /\ [RowsNext]_rowsVars => RequestInv'
  <2> SUFFICES ASSUME PlayInv, PlayInv', RequestInv, [RowsNext]_rowsVars PROVE RequestInv'
    OBVIOUS
  <2>1. AskedIsALog' /\ NumberInv'
    BY AskedStays, NumberStep, RecordGrows DEF RequestInv, PlayInv, GameInv
  <2>2. ShownInv' /\ OfferedInv'
    BY ShownStep, OfferedStep DEF RequestInv
  <2>3. OrderInv'
    BY OrderStep DEF RequestInv, PlayInv, GameInv
  <2>4. QED BY <2>1, <2>2, <2>3 DEF RequestInv
<1>3. QED BY <1>1, <1>2, PlayInvariant, PTL DEF RowsSpec


\* In every game that is stored complete, each agent the clue metrics take for
\* available when a clue was given was among the green words of its prompt
\* (load_turn_states against _clue_giver_board): no clue is scored on a word the
\* giver could not have known of.
THEOREM AvailableShown == RowsSpec => []AvailableWasShown
<1>1. PlayInv /\ RequestInv => AvailableWasShown
  <2> SUFFICES ASSUME PlayInv, NumberInv, ShownInv, IsCompleted, NEW t \in ClueRows
               PROVE  \E q \in AskedOn(t, "clue_giver", t.giver) :
                        AvailableAgents(t) \subseteq q.board.agents
    BY DEF AvailableWasShown, RequestInv
  <2>1. PICK i \in NormalTurns : t = TurnRow(i)
    BY RowsOfTurns DEF IsCompleted, PlayInv, GameInv
  <2>2. i \in DOMAIN turns /\ i \in Nat /\ t.giver = turns[i].giver /\ t.number + 1 = i
    <3>1. i \in DOMAIN turns /\ i \in Nat /\ t.giver = turns[i].giver /\ t.number = turns[i].number
      BY <2>1, TurnIsCounted DEF TurnRow, NormalTurns
    <3>2. QED BY <3>1 DEF NumberInv
  <2>3. PICK k \in DOMAIN asked :
          /\ asked[k].call = "clue_giver" /\ asked[k].turn = i /\ asked[k].seat = turns[i].giver
          /\ Having(Agent, turns[i].giver) \ FoundBefore(i) \subseteq asked[k].board.agents
    BY <2>1 DEF ShownInv, ShownOn
  <2>4. asked[k] \in AskedOn(t, "clue_giver", t.giver)
    BY <2>2, <2>3 DEF AskedOn
  <2>5. ASSUME NEW c \in Cards, c \in FoundBefore(i) PROVE c \notin Unrevealed(t)
    <3>1. PICK h \in DOMAIN turns : h < i /\ \E r \in RevealsOf(h) : r.role = Agent /\ r.card = c
      BY <2>5 DEF FoundBefore
    <3>2. PICK j \in DOMAIN turns[h].reveals : turns[h].reveals[j].card = c
      BY <3>1 DEF RevealsOf
    <3>3. RevealRow(h, j) \in EarlierReveals(t) /\ RevealRow(h, j).reveal.card = c
      BY <2>1, <2>2, <3>1, <3>2, EarlierRows DEF IsCompleted, RevealRow
    <3>4. QED BY <3>3 DEF Unrevealed
  <2>6. AvailableAgents(t) \subseteq Having(Agent, turns[i].giver) \ FoundBefore(i)
    BY <2>2, <2>5 DEF AvailableAgents, Having
  <2>7. QED BY <2>3, <2>4, <2>6
<1>2. QED BY <1>1, RequestInvariant, PTL


\* Two tokens on a word are one of each seat.
LEMMA BothSeats ==
  ASSUME NEW T \in SUBSET Seats
  PROVE  Cardinality(T) < 2 <=> T # Seats
<1>1. T = {} \/ T = {0} \/ T = {1} \/ T = Seats
  BY DEF Seats
<1>2. Cardinality({}) = 0 /\ Cardinality({0}) = 1 /\ Cardinality({1}) = 1
  BY FS_EmptySet, FS_Singleton
<1>3. Cardinality(Seats) = 2
  <2>1. Seats = {0} \cup {1} /\ IsFiniteSet({0}) /\ 1 \notin {0}
    BY FS_Singleton DEF Seats
  <2>2. Cardinality({0} \cup {1}) = 1 + 1
    BY <1>2, <2>1, FS_AddElement
  <2>3. QED BY <2>1, <2>2
<1>4. QED BY <1>1, <1>2, <1>3

\* A reveal of the record is on a card, by a seat.
LEMMA RevealsAreTyped ==
  ASSUME PlayInv, NEW i \in DOMAIN turns, NEW k \in DOMAIN turns[i].reveals
  PROVE  turns[i].reveals[k] \in Reveals
<1>1. turns[i] \in TurnRecords
  BY DEF PlayInv, GameInv, RecordInv, RecordTypes
<1>2. QED BY <1>1, RevealTypes

\* What was on offer, rebuilt from the rows, is what the board had open.
LEMMA OfferedIsOpen ==
  ASSUME PlayInv, NumberInv, IsStored, NEW i \in DOMAIN turns, NEW s
  PROVE  WordsOffered(TurnRow(i), s) = OpenBefore(i, s)
<1> DEFINE t == TurnRow(i)
           covered == {r.reveal.card : r \in {x \in EarlierReveals(t) : x.reveal.role = Agent}}
           tokens(c) == {r.reveal.seat : r \in {x \in EarlierReveals(t) :
                                            x.reveal.role = Civilian /\ x.reveal.card = c}}
<1>1. \A x : x \in EarlierReveals(t) <=>
        \E h \in DOMAIN turns :
          h < i /\ \E k \in DOMAIN turns[h].reveals : x = RevealRow(h, k)
  BY EarlierRows
<1>2. \A h \in DOMAIN turns : \A k \in DOMAIN turns[h].reveals :
        /\ RevealRow(h, k).reveal = turns[h].reveals[k]
        /\ turns[h].reveals[k].seat \in Seats
  BY RevealsAreTyped DEF RevealRow, Reveals
<1>3. \A c \in Cards : c \in covered <=> c \in FoundBefore(i)
  BY <1>1, <1>2 DEF FoundBefore, RevealsOf
<1>4. ASSUME NEW c \in Cards PROVE tokens(c) = TokensBefore(i, c)
  BY <1>1, <1>2 DEF TokensBefore, RevealsOf
<1>5. ASSUME NEW c \in Cards
      PROVE  Cardinality(tokens(c)) < 2 <=> TokensBefore(i, c) # Seats
  <2>1. TokensBefore(i, c) \in SUBSET Seats
    BY DEF TokensBefore
  <2>2. QED BY <1>4, <2>1, BothSeats
<1>6. WordsOffered(t, s) =
        {c \in Cards \ covered : Cardinality(tokens(c)) < 2 /\ s \notin tokens(c)}
  BY DEF WordsOffered
<1> HIDE DEF covered, tokens
<1>7. QED BY <1>3, <1>4, <1>5, <1>6 DEF OpenBefore

\* The measurements a reader sees: of the guesser of a normal turn, or of a seat
\* in sudden death.
LEMMA MeasurementRows ==
  ASSUME NEW p \in ProposalRows, p.kind = "measurement"
  PROVE  \E t \in TurnRows :
           /\ p.turn = t.turn
           /\ IF t.phase = "normal"
                THEN p.seat = Other(t.giver) /\ row.turns[t.turn].measured
                ELSE p.seat \in row.turns[t.turn].sdMeasured
<1> DEFINE stored(t) == row.turns[t.turn]
           of(t, kind, seats) == {[turn |-> t.turn, kind |-> kind, seat |-> s] : s \in seats}
           plays(t) ==
             IF t.phase = "normal"
               THEN {s \in {Other(t.giver)} : stored(t).play # <<>>}
               ELSE {s \in Seats : stored(t).sdPlay[s] # <<>>}
           measures(t) ==
             IF t.phase = "normal"
               THEN {s \in {Other(t.giver)} : stored(t).measured}
               ELSE stored(t).sdMeasured
<1>1. ProposalRows =
        UNION {of(t, "play", plays(t)) \cup of(t, "measurement", measures(t)) : t \in TurnRows}
  BY DEF ProposalRows
<1>2. PICK t \in TurnRows : p \in of(t, "play", plays(t)) \cup of(t, "measurement", measures(t))
  BY <1>1
<1>3. PICK s \in measures(t) : p.turn = t.turn /\ p.seat = s
  <2>1. \A x \in of(t, "play", plays(t)) : x.kind = "play"
    OBVIOUS
  <2>2. p \in of(t, "measurement", measures(t))
    BY <1>2, <2>1
  <2>3. QED BY <2>2
<1>4. QED BY <1>3

\* A measurement of a normal turn is one the engine took, of the seat that did
\* not give the clue.
LEMMA MeasuredTurns ==
  ASSUME PlayInv, IsStored, NEW g \in GuesserTurns
  PROVE  \E i \in NormalTurns :
           /\ turns[i].measured /\ g.turn = TurnRow(i) /\ g.seat = Other(turns[i].giver)
           /\ g.offered = WordsOffered(TurnRow(i), Other(turns[i].giver))
<1>1. /\ row.turns = turns /\ TurnRows = {TurnRow(i) : i \in DOMAIN turns}
      /\ ClueRows = {TurnRow(i) : i \in NormalTurns}
  BY StoredTurns, RowsOfTurns DEF PlayInv, GameInv
<1>2. \A i \in DOMAIN turns : LET t == TurnRow(i)
                             IN  t.turn = i /\ t.phase = turns[i].phase /\ t.giver = turns[i].giver
  BY DEF TurnRow
<1>3. PICK i \in NormalTurns, p \in ProposalRows :
        /\ p.turn = i /\ p.kind = "measurement" /\ g.turn = TurnRow(i) /\ g.seat = p.seat
        /\ g.offered = WordsOffered(TurnRow(i), p.seat)
  <2>1. PICK t \in ClueRows, p \in ProposalRows :
          /\ p.turn = t.turn /\ p.kind = "measurement"
          /\ g = [turn |-> t, seat |-> p.seat, offered |-> WordsOffered(t, p.seat)]
    BY DEF GuesserTurns
  <2>2. PICK i \in NormalTurns : t = TurnRow(i)
    BY <1>1, <2>1
  <2>3. i \in DOMAIN turns
    BY DEF NormalTurns
  <2>4. QED BY <1>2, <2>1, <2>2, <2>3
<1>4. i \in DOMAIN turns /\ turns[i].phase = "normal"
  BY DEF NormalTurns
<1>5. PICK t \in TurnRows :
        p.turn = t.turn /\ (IF t.phase = "normal" THEN p.seat = Other(t.giver) /\ row.turns[t.turn].measured
                                                 ELSE p.seat \in row.turns[t.turn].sdMeasured)
  BY <1>3, MeasurementRows
<1>6. PICK j \in DOMAIN turns : t = TurnRow(j)
  BY <1>1, <1>5
<1>7. j = i /\ t.phase = "normal" /\ t.giver = turns[i].giver
  BY <1>2, <1>3, <1>4, <1>5, <1>6
<1>8. QED BY <1>1, <1>3, <1>5, <1>6, <1>7

\* In every game stored complete, what CIT takes for on offer in a measured turn
\* (words_offered) is what the prompt of that measurement listed, and the prompt
\* of the play showed the same words and clues.
THEOREM OfferedAsAsked == RowsSpec => []OfferedIsWhatWasAsked
<1>1. PlayInv /\ RequestInv => OfferedIsWhatWasAsked
  <2> SUFFICES ASSUME PlayInv, RequestInv, IsCompleted, NEW g \in GuesserTurns
               PROVE  \E q \in AskedOn(g.turn, "measurement", g.seat) :
                        /\ q.view.words = g.offered
                        /\ \A p \in AskedOn(g.turn, "guesser", g.seat) :
                             p.view = q.view /\ p.clue = q.clue
    BY DEF OfferedIsWhatWasAsked
  <2>1. PICK i \in NormalTurns :
          /\ turns[i].measured /\ g.turn = TurnRow(i) /\ g.seat = Other(turns[i].giver)
          /\ g.offered = WordsOffered(TurnRow(i), Other(turns[i].giver))
    BY MeasuredTurns DEF IsCompleted
  <2>2. i \in DOMAIN turns /\ g.turn.number + 1 = i
    <3>1. i \in DOMAIN turns /\ i \in Nat /\ g.turn.number = turns[i].number
      BY <2>1, TurnIsCounted DEF TurnRow, NormalTurns
    <3>2. QED BY <3>1 DEF RequestInv, NumberInv
  <2>3. g.offered = OpenBefore(i, g.seat)
    BY <2>1, <2>2, OfferedIsOpen DEF IsCompleted, RequestInv
  <2>4. PICK k \in DOMAIN asked :
          /\ asked[k].call = "measurement" /\ asked[k].turn = i /\ asked[k].seat = g.seat
          /\ asked[k].view.words = g.offered
    BY <2>1, <2>3 DEF RequestInv, OfferedInv, OfferedOn
  <2>5. asked[k] \in AskedOn(g.turn, "measurement", g.seat)
    BY <2>2, <2>4 DEF AskedOn
  <2>6. ASSUME NEW p \in AskedOn(g.turn, "guesser", g.seat)
        PROVE  p.view = asked[k].view /\ p.clue = asked[k].clue
    <3>1. PICK l \in DOMAIN asked : asked[l].call = "guesser" /\ asked[l].turn = i /\ p = asked[l]
      BY <2>2 DEF AskedOn
    <3>2. QED BY <2>4, <3>1 DEF RequestInv, OrderInv, AskedAlike
  <2>7. QED BY <2>4, <2>5, <2>6
<1>2. QED BY <1>1, RequestInvariant, PTL


-----------------------------------------------------------------------------
(***************************************************************************)
(* How a game ends, in its record                                          *)
(***************************************************************************)

\* What the recorder stores of a guess is the role the partner's side gives the
\* card, whichever way the engine phrased it, and how the game ends.
LEMMA GuessEnds ==
  ASSUME TypeOK, TypeOK', PhaseInv, NEW p \in Seats, NEW c \in Cards,
         ResolveGuess(p, c), NEW str, str = Returned(Side[Other(p)][c])
  PROVE  LET role == Side[Other(p)][c]
         IN  /\ ResultRoleOf(str) = role
             /\ phase' = GameOver =>
                  \/ phase = Guessing /\ result' \in {"victory", "loss_assassin"}
                  \/ phase \in SDPhases /\ role = Agent /\ result' = "victory_sd"
                  \/ /\ phase \in SDPhases /\ role # Agent
                     /\ result' = IF role = Civilian THEN "loss_civilian_sd"
                                                     ELSE "loss_assassin_sd"
<1> DEFINE role == Side[Other(p)][c]
<1> USE PhasesDistinct
<1>1. phase \in {Guessing} \cup SDPhases /\ role \in Roles
  BY SideAssumption, PartnerOfPartner DEF ResolveGuess, MayGuess
<1>2. /\ ResultRoleOf(Agent) = Agent /\ ResultRoleOf("agent_turn_end") = Agent
      /\ ResultRoleOf("victory") = Agent /\ ResultRoleOf("victory_sd") = Agent
      /\ ResultRoleOf(Assassin) = Assassin /\ ResultRoleOf("loss_assassin_sd") = Assassin
      /\ ResultRoleOf(Civilian) = Civilian /\ ResultRoleOf("loss_civilian_sd") = Civilian
  BY DEF ResultRoleOf, Agent, Assassin, Civilian, Victories
<1>3. /\ Agent # Assassin /\ Agent # Civilian /\ Assassin # Civilian
      /\ Roles = {Agent, Assassin, Civilian}
  BY RolesDistinct DEF Roles
<1> HIDE DEF role
<1>4. CASE RevealAgent(p, c) /\ role = Agent
  <2>1. CASE WinAfterReveal
    <3>1. phase' = GameOver /\ result' = IF phase \in SDPhases THEN "victory_sd" ELSE "victory"
      BY <2>1 DEF WinAfterReveal, FinishGame, SDPhases
    <3>2. str = result'
      BY <1>4, <3>1 DEF Returned, role
    <3>3. QED BY <1>1, <1>2, <1>4, <3>1, <3>2 DEF role
  <2>2. CASE TurnEndsOnLastWord(p)
    <3>1. phase = Guessing /\ phase' \in {GivingClue} \cup SDPhases
      BY <2>2 DEF TurnEndsOnLastWord, StopTurn, SwitchRoles, SDPhases
    <3>2. str = "agent_turn_end" /\ phase' # GameOver
      BY <1>4, <3>1 DEF Returned, SDPhases, role
    <3>3. QED BY <1>2, <1>4, <3>2 DEF role
  <2>3. CASE HandOffSuddenDeath
    <3>1. phase = SDLlm /\ phase' = SDHuman
      BY <2>3 DEF HandOffSuddenDeath
    <3>2. str = Agent /\ phase' # GameOver
      BY <1>4, <3>1 DEF Returned, SDPhases, role
    <3>3. QED BY <1>2, <1>4, <3>2 DEF role
  <2>4. CASE KeepGuessing(p)
    <3>1. phase' = phase
      BY <2>4 DEF KeepGuessing
    <3>2. str = Agent /\ phase' # GameOver
      BY <1>1, <1>4, <3>1 DEF Returned, SDPhases, role
    <3>3. QED BY <1>2, <1>4, <3>2 DEF role
  <2>5. QED BY <1>4, <2>1, <2>2, <2>3, <2>4 DEF RevealAgent
<1>5. CASE TouchAssassin /\ role = Assassin /\ phase = Guessing
  <2>1. phase' = GameOver /\ result' = "loss_assassin"
    BY <1>5 DEF TouchAssassin, FinishGame
  <2>2. str = Assassin
    BY <1>3, <1>5 DEF Returned, role
  <2>3. QED BY <1>2, <1>5, <2>1, <2>2 DEF role
<1>6. CASE TouchBystander(c) /\ role = Civilian /\ phase = Guessing
  <2>1. phase' \in {GivingClue} \cup SDPhases
    BY <1>6 DEF TouchBystander, SwitchRoles, SDPhases
  <2>2. str = Civilian /\ phase' # GameOver
    BY <1>3, <1>6, <2>1 DEF Returned, role
  <2>3. QED BY <1>2, <1>6, <2>2 DEF role
<1>7. CASE MissInSuddenDeath(role) /\ role # Agent /\ phase \in SDPhases
  <2>1. phase' = GameOver /\ result' = IF role = Civilian THEN "loss_civilian_sd"
                                                          ELSE "loss_assassin_sd"
    BY <1>7 DEF MissInSuddenDeath, FinishGame
  <2>2. str = result'
    BY <1>7 DEF Returned, SDPhases, role
  <2>3. QED BY <1>1, <1>2, <1>3, <1>7, <2>1, <2>2 DEF role
<1>8. QED BY <1>4, <1>5, <1>6, <1>7 DEF ResolveGuess, role

\* A game that is over stays as it is.
LEMMA OverIsOver ==
  ASSUME PlayInv, [RowsNext]_rowsVars, phase = GameOver
  PROVE  UNCHANGED <<vars, turns, sdTurn, asked>>
<1>1. at \notin Running
  BY DEF PlayInv, GameInv, DriverInv, PlaceInv
<1>2. at \notin {"dispatch", "measure", "propose_sd", "resolve"}
  BY <1>1 DEF Running
<1>3. CASE FlushCommits \/ FlushFails \/ ErrorFlush
  BY <1>2, <1>3 DEF RowsNext, FlushCommits, FlushFails, ErrorFlush, recordVars, ProposeClue,
     ConductClue, Dispatch, ProposeWords, ProposeGuess, ProposeWordsSD, ProposeGuessSD, ElicitRanking,
     MeasureNormal, ElicitRankingSD, MeasureSuddenDeath, PlayWord, rowsVars, gameVars
<1>4. CASE UNCHANGED rowsVars
  BY <1>4 DEF rowsVars, gameVars, recordVars
<1>5. QED
  BY <1>2, <1>3, <1>4 DEF RowsNext, ProposeClue, ConductClue, Dispatch, ProposeWords,
     ProposeGuess, ProposeWordsSD, ProposeGuessSD, ElicitRanking, MeasureNormal,
     ElicitRankingSD, MeasureSuddenDeath, EnterSuddenDeath, ModelCallFails, SkipWord, PlayWord,
     StopGuessing, NothingPlayable, Concede, RunOut, TooManyDispatches


\* Nothing but a guess adds to the reveals; nothing but a guess or a concession
\* ends a game.
Uneventful ==
  /\ Kept
  /\ phase' = GameOver => UNCHANGED <<vars, turns, sdTurn>>

LEMMA WritingKeeps ==
  ASSUME (Writing /\ SameReveals) \/ \E kind : Opening(kind)
  PROVE  Kept
BY DEF Writing, SameReveals, Opening, Kept

LEMMA OtherSteps ==
  ASSUME PlayInv, EngineInv', [RowsNext]_rowsVars
  PROVE  \/ PlayWord
         \/ Concede /\ UNCHANGED <<turns, sdTurn>>
         \/ Uneventful
<1>1. CASE phase = GameOver
  BY <1>1, OverIsOver DEF Uneventful, Kept
<1>2. CASE phase # GameOver
  <2>1. ASSUME Kept, phase' # GameOver PROVE Uneventful
    BY <2>1 DEF Uneventful
  <2>2. ASSUME NEW word \in ClueWords, ProposeClue(word) PROVE Uneventful
    <3>1. ConductClue(word)
      BY <2>2 DEF ProposeClue
    <3>2. phase' = Guessing \/ TurnIsOver
      BY <3>1, ClueMoves DEF ConductClue, PlayInv, GameInv, EngineInv
    <3>3. Kept
      BY <3>1, ClueOpensTurn, WritingKeeps DEF PlayInv
    <3>4. QED BY <2>1, <3>2, <3>3, PhasesDistinct DEF TurnIsOver
  <2>3. ASSUME NEW words \in Proposals, ProposeWords(words) PROVE Uneventful
    <3>1. ProposeGuess(words) /\ phase' = phase
      BY <2>3 DEF ProposeWords, ProposeGuess, vars
    <3>2. QED BY <1>2, <2>1, <3>1, ProposalWrites, WritingKeeps DEF PlayInv
  <2>4. CASE ElicitRanking
    <3>1. MeasureNormal /\ phase' = phase
      BY <2>4 DEF ElicitRanking, MeasureNormal, AttachConfidenceRanking, vars
    <3>2. UNCHANGED turns \/ (Writing /\ SameReveals)
      BY <3>1, MeasurementWrites DEF PlayInv
    <3>3. QED BY <1>2, <2>1, <3>1, <3>2, WritingKeeps DEF Kept
  <2>5. ASSUME ElicitRankingSD \/ \E words \in Proposals : ProposeWordsSD(words)
        PROVE  Uneventful
    <3>1. /\ MeasureSuddenDeath \/ \E words \in Proposals : ProposeGuessSD(words)
          /\ phase' = phase
      BY <2>5 DEF ElicitRankingSD, ProposeWordsSD, MeasureSuddenDeath, ProposeGuessSD,
         AttachSuddenDeathRanking, vars
    <3>2. UNCHANGED turns \/ (Writing /\ SameReveals) \/ Opening("sudden_death")
      BY <3>1, SuddenDeathWrites DEF PlayInv
    <3>3. QED BY <1>2, <2>1, <3>1, <3>2, WritingKeeps DEF Kept
  <2>6. CASE Concede
    BY <2>6 DEF Concede, recordVars
  <2>7. CASE Resting /\ ~Concede
    <3>1. UNCHANGED <<turns, sdTurn>>
      BY <2>7, RestingRests
    <3>2. CASE StopGuessing
      <4>1. SwitchRoles(clue)
        BY <3>2 DEF StopGuessing, PassTurn, StopTurn
      <4>2. phase' # GameOver
        BY <4>1, PhasesDistinct DEF SwitchRoles, SDPhases
      <4>3. QED BY <2>1, <3>1, <4>2 DEF Kept
    <3>3. CASE ~StopGuessing
      <4>1. UNCHANGED vars
        BY <2>7, <3>3 DEF Resting, EnterSuddenDeath, ModelCallFails, SkipWord, NothingPlayable,
           TooManyDispatches, FlushCommits, FlushFails, ErrorFlush, Raise, rowsVars, gameVars
      <4>2. QED BY <3>1, <4>1 DEF Uneventful, Kept
    <3>4. QED BY <3>2, <3>3
  <2>8. QED BY <2>2, <2>3, <2>4, <2>5, <2>6, <2>7, RowsSteps
<1>3. QED BY <1>1, <1>2

\* What a reader makes of the reveals: each has the role that the partner's side
\* gives its card, no agent is found twice, the reveal that ended the game is the
\* last of all, and of a sudden death it names the result.
RolesInv ==
  \A i \in DOMAIN turns : \A k \in DOMAIN turns[i].reveals :
    LET r == turns[i].reveals[k] IN r.role = Side[Other(r.seat)][r.card]

FoundOnce ==
  \A i, j \in DOMAIN turns : \A k \in DOMAIN turns[i].reveals, l \in DOMAIN turns[j].reveals :
    LET r == turns[i].reveals[k]
        q == turns[j].reveals[l]
    IN  r.role = Agent /\ q.role = Agent /\ r.card = q.card => i = j /\ k = l

LastOne ==
  \A i \in DOMAIN turns : \A k \in DOMAIN turns[i].reveals :
    LET r == turns[i].reveals[k]
    IN  r.endedGame =>
          /\ phase = GameOver /\ i = Len(turns) /\ k = Len(turns[i].reveals)
          /\ turns[i].phase = "sudden_death" /\ r.role # Agent =>
               result = IF r.role = Civilian THEN "loss_civilian_sd" ELSE "loss_assassin_sd"

MissStored ==
  result \in SdFailureResults =>
    /\ sdTurn # 0
    /\ \E k \in DOMAIN turns[sdTurn].reveals :
         turns[sdTurn].reveals[k].endedGame /\ turns[sdTurn].reveals[k].role # Agent

SuddenDeathNamed ==
  result # NoResult => (sdTurn # 0 <=> result \notin {"victory", "loss_assassin"})

EndInv == RolesInv /\ FoundOnce /\ LastOne /\ MissStored /\ SuddenDeathNamed

\* With the reveals as they were, and no end of the game, all of it stays.
LEMMA EndKept ==
  ASSUME PlayInv, EngineInv', EndInv, Uneventful, [RowsNext]_rowsVars
  PROVE  EndInv'
<1>1. /\ Kept
      /\ phase' = GameOver => UNCHANGED <<phase, result, turns, sdTurn>>
  BY DEF Uneventful, vars
<1>2. \A i \in DOMAIN turns' : \A k \in DOMAIN turns'[i].reveals :
        /\ i \in DOMAIN turns /\ k \in DOMAIN turns[i].reveals
        /\ turns'[i].reveals[k] = turns[i].reveals[k]
  BY <1>1 DEF Kept
<1>3. RolesInv'
  BY <1>2 DEF EndInv, RolesInv
<1>4. FoundOnce'
  BY <1>2 DEF EndInv, FoundOnce
<1>5. CASE phase' = GameOver
  <2>1. LastOne' /\ MissStored' /\ SuddenDeathNamed'
    BY <1>1, <1>5 DEF EndInv, LastOne, MissStored, SuddenDeathNamed
  <2>2. QED BY <1>3, <1>4, <2>1 DEF EndInv
<1>6. CASE phase' # GameOver
  <2>1. result' = NoResult
    BY <1>6 DEF EngineInv, WonIffAllFound, IsGameOver
  <2>2. NoResult \notin SdFailureResults
    BY DEF NoResult, SdFailureResults
  <2>3. MissStored' /\ SuddenDeathNamed'
    BY <2>1, <2>2 DEF MissStored, SuddenDeathNamed
  <2>4. LastOne'
    <3>1. \A i \in DOMAIN turns : \A k \in DOMAIN turns[i].reveals :
            ~turns[i].reveals[k].endedGame
      <4>1. CASE phase = GameOver
        BY <1>6, <4>1, OverIsOver DEF vars
      <4>2. QED BY <4>1 DEF EndInv, LastOne
    <3>2. QED BY <1>2, <3>1 DEF LastOne
  <2>5. QED BY <1>3, <1>4, <2>3, <2>4 DEF EndInv
<1>7. QED BY <1>5, <1>6


\* While the game goes on, no reveal has ended it.
LEMMA NoneHasEnded ==
  ASSUME LastOne, phase # GameOver
  PROVE  \A i \in DOMAIN turns : \A k \in DOMAIN turns[i].reveals :
           ~turns[i].reveals[k].endedGame
BY DEF LastOne

\* A concession ends sudden death without a reveal.
LEMMA EndConceded ==
  ASSUME PlayInv, EndInv, Concede, UNCHANGED <<turns, sdTurn>>
  PROVE  EndInv'
<1>1. /\ at = "resolve" /\ phase \in SDPhases /\ phase' = GameOver
      /\ result' = "loss_stopped_sd"
  BY DEF Concede, RunOut, ConcedeSuddenDeath, FinishGame
<1>2. sdTurn # 0
  BY <1>1 DEF PlayInv, GameInv, RecordInv, ShapeInv
<1>3. MissStored' /\ SuddenDeathNamed'
  BY <1>1, <1>2 DEF MissStored, SuddenDeathNamed, SdFailureResults
<1>4. LastOne'
  BY <1>1, NoneHasEnded, PhasesDistinct DEF EndInv, LastOne
<1>5. QED BY <1>3, <1>4 DEF EndInv, RolesInv, FoundOnce

\* A guess adds the last reveal of all.
LEMMA EndPlayed ==
  ASSUME PlayInv, EngineInv', EndInv, PlayWord
  PROVE  EndInv'
<1> DEFINE c == proposal[next]
           str == Returned(Side[Other(Acting)][c])
           r == RevealOf(c, str)
           n == Len(turns)
           m == Len(turns'[n].reveals)
           role == Side[Other(Acting)][c]
<1>1. /\ at = "resolve" /\ c \in Cards /\ ResolveGuess(Acting, c)
  BY DEF PlayWord
<1>2. /\ Acting \in Seats /\ TypeOK /\ TypeOK' /\ PhaseInv /\ RecordInv /\ EngineInv
  BY ActingIsASeat DEF PlayInv, GameInv, EngineInv, PhaseInv
<1>3. phase \in {Guessing} \cup SDPhases
  BY <1>1, <1>2, PhasesDistinct DEF ResolveGuess, MayGuess
<1>4. /\ ResultRoleOf(str) = role
      /\ phase' = GameOver =>
           \/ phase = Guessing /\ result' \in {"victory", "loss_assassin"}
           \/ phase \in SDPhases /\ role = Agent /\ result' = "victory_sd"
           \/ /\ phase \in SDPhases /\ role # Agent
              /\ result' = IF role = Civilian THEN "loss_civilian_sd" ELSE "loss_assassin_sd"
  BY <1>1, <1>2, GuessEnds
<1>5. /\ r.card = c /\ r.role = role /\ r.seat = Acting /\ (r.endedGame <=> phase' = GameOver)
  BY <1>4 DEF RevealOf
<1>6. /\ Writing /\ sdTurn' = sdTurn /\ r \in Reveals
      /\ turns[n].reveals \in Seq(Reveals)
      /\ turns'[n].reveals = Append(turns[n].reveals, r)
  BY GuessWrites DEF PlayInv, GameInv
<1>7. /\ turns[n].phase = IF phase = Guessing THEN "normal" ELSE "sudden_death"
      /\ phase = Guessing => sdTurn = 0
      /\ phase \in SDPhases => sdTurn # 0 /\ sdTurn = n
  BY <1>1, <1>2, <1>3, ResolvedTurn DEF GuessTurn
<1> HIDE DEF c, str, r, role
<1>8. /\ m = Len(turns[n].reveals) + 1 /\ turns'[n].reveals[m] = r
      /\ DOMAIN turns'[n].reveals = DOMAIN turns[n].reveals \cup {m}
      /\ \A k \in DOMAIN turns[n].reveals : turns'[n].reveals[k] = turns[n].reveals[k]
      /\ m \notin DOMAIN turns[n].reveals
  <2>1. /\ turns'[n].reveals \in Seq(Reveals) /\ Len(turns'[n].reveals) = Len(turns[n].reveals) + 1
        /\ \A k \in 1..Len(turns[n].reveals) : turns'[n].reveals[k] = turns[n].reveals[k]
        /\ turns'[n].reveals[Len(turns[n].reveals) + 1] = r
    BY <1>6, AppendProperties
  <2>2. /\ Len(turns[n].reveals) \in Nat /\ DOMAIN turns[n].reveals = 1..Len(turns[n].reveals)
        /\ DOMAIN turns'[n].reveals = 1..(Len(turns[n].reveals) + 1)
    BY <1>6, <2>1
  <2>3. \A b \in Nat : 1..(b + 1) = 1..b \cup {b + 1} /\ b + 1 \notin 1..b
    OBVIOUS
  <2>4. QED BY <2>1, <2>2, <2>3
<1>9. /\ n \in DOMAIN turns /\ DOMAIN turns' = DOMAIN turns /\ Len(turns') = n
      /\ \A i \in DOMAIN turns \ {n} : turns'[i] = turns[i]
      /\ turns'[n].phase = turns[n].phase
  BY <1>6 DEF Writing
<1> HIDE DEF m, n
\* A reveal of the new record is the new one or an old one in its old place.
<1>10. \A i \in DOMAIN turns' : \A k \in DOMAIN turns'[i].reveals :
         \/ i = n /\ k = m /\ turns'[i].reveals[k] = r
         \/ i \in DOMAIN turns /\ k \in DOMAIN turns[i].reveals
            /\ turns'[i].reveals[k] = turns[i].reveals[k]
  BY <1>8, <1>9
<1>11. RolesInv'
  BY <1>5, <1>10 DEF EndInv, RolesInv, role
<1>12. FoundOnce'
  <2>1. c \notin revealed
    BY <1>1 DEF ResolveGuess, IsGuessableBy, IsCovered
  <2>2. \A i \in DOMAIN turns : \A k \in DOMAIN turns[i].reveals :
          turns[i].reveals[k].role = Agent => turns[i].reveals[k].card # c
    <3>1. revealed = {x.card : x \in {y \in AllReveals : y.role = Agent}}
      BY <1>2 DEF RecordInv, BoardRebuildsFromReveals
    <3>2. \A i \in DOMAIN turns : \A k \in DOMAIN turns[i].reveals :
            turns[i].reveals[k] \in AllReveals
      BY DEF AllReveals, RevealsOf
    <3>3. QED BY <2>1, <3>1, <3>2
  <2>3. QED BY <1>5, <1>10, <2>2 DEF EndInv, FoundOnce
<1>13. LastOne'
  <2>1. \A i \in DOMAIN turns : \A k \in DOMAIN turns[i].reveals :
          ~turns[i].reveals[k].endedGame
    BY <1>3, NoneHasEnded, PhasesDistinct DEF EndInv
  <2>2. r.endedGame =>
          /\ phase' = GameOver
          /\ turns'[n].phase = "sudden_death" /\ r.role # Agent =>
               result' = IF r.role = Civilian THEN "loss_civilian_sd" ELSE "loss_assassin_sd"
    BY <1>4, <1>5, <1>7, <1>9, PhasesDistinct
  <2>3. QED BY <1>9, <1>10, <2>1, <2>2 DEF LastOne, m
<1>14. CASE phase' # GameOver
  <2>1. result' = NoResult /\ NoResult \notin SdFailureResults
    BY <1>14 DEF EngineInv, WonIffAllFound, IsGameOver, NoResult, SdFailureResults
  <2>2. QED BY <1>11, <1>12, <1>13, <2>1 DEF EndInv, MissStored, SuddenDeathNamed
<1>15. CASE phase' = GameOver
  <2>1. SuddenDeathNamed'
    BY <1>3, <1>4, <1>6, <1>7, <1>15, PhasesDistinct DEF SuddenDeathNamed
  <2>2. MissStored'
    <3>1. SUFFICES ASSUME result' \in SdFailureResults PROVE MissStored'
      BY DEF MissStored
    <3>2. phase \in SDPhases /\ role # Agent
      BY <1>4, <1>15, <3>1 DEF SdFailureResults
    <3>3. m \in DOMAIN turns'[n].reveals /\ turns'[n].reveals[m] = r
      BY <1>8
    <3>4. QED BY <1>5, <1>6, <1>7, <1>15, <3>2, <3>3 DEF MissStored
  <2>3. QED BY <1>11, <1>12, <1>13, <2>1, <2>2 DEF EndInv
<1>16. QED BY <1>14, <1>15

LEMMA EndStep ==
  ASSUME PlayInv, EngineInv', EndInv, [RowsNext]_rowsVars
  PROVE  EndInv'
BY OtherSteps, EndPlayed, EndConceded, EndKept


-----------------------------------------------------------------------------
(***************************************************************************)
(* What the seats were asked in sudden death                               *)
(***************************************************************************)

\* The archive is closed once sudden death begins or the game is over.
LEMMA ArchiveClosed ==
  ASSUME PlayInv, [RowsNext]_rowsVars, phase \in SDPhases \cup {GameOver}
  PROVE  phase' \in SDPhases \cup {GameOver} /\ UNCHANGED <<clue, history>>
<1>1. [Next]_vars
  BY RowsStepIsGameStep, GameStepIsEngineStep DEF PlayInv, GameInv, EngineInv, PhaseInv
<1>2. phase # GivingClue /\ phase # Guessing
  BY PhasesDistinct
<1>3. ASSUME NEW p \in Seats, NEW c \in Cards, ResolveGuess(p, c)
      PROVE  phase' \in SDPhases \cup {GameOver} /\ UNCHANGED <<clue, history>>
  <2>1. CASE RevealAgent(p, c)
    BY <1>2, <2>1 DEF RevealAgent, WinAfterReveal, FinishGame, TurnEndsOnLastWord,
       HandOffSuddenDeath, KeepGuessing, SDPhases, roleVars
  <2>2. CASE MissInSuddenDeath(Side[Other(p)][c])
    BY <2>2 DEF MissInSuddenDeath, FinishGame, roleVars
  <2>3. QED BY <1>2, <1>3, <2>1, <2>2 DEF ResolveGuess
<1>4. CASE UNCHANGED vars
  BY <1>4 DEF vars, roleVars
<1>5. CASE \E p \in Seats : AttachSuddenDeathRanking(p) \/ ConcedeSuddenDeath(p)
  BY <1>5 DEF AttachSuddenDeathRanking, ConcedeSuddenDeath, FinishGame, roleVars
<1>6. QED
  BY <1>1, <1>2, <1>3, <1>4, <1>5 DEF Next, ReceiveClue, AttachConfidenceRanking, PassTurn

\* A seat is ranked in sudden death by the request for it.
LEMMA RankedByAsking ==
  ASSUME PlayInv, EngineInv', [RowsNext]_rowsVars
  PROVE  \/ UNCHANGED sdRanked
         \/ /\ phase \in SDPhases /\ sdRanked' = sdRanked \cup {Acting}
            /\ Ask(MeasurementSDRequest(Acting))
<1>1. ASSUME NEW word \in ClueWords, ProposeClue(word) PROVE UNCHANGED sdRanked
  BY <1>1 DEF ProposeClue, ConductClue, ReceiveClue, OpenGuessing, SwitchRoles, measureVars
<1>2. ASSUME \E words \in Proposals : ProposeWords(words) \/ ProposeWordsSD(words)
      PROVE  UNCHANGED sdRanked
  BY <1>2 DEF ProposeWords, ProposeWordsSD, ProposeGuess, ProposeGuessSD, vars, measureVars
<1>3. CASE ElicitRanking
  BY <1>3 DEF ElicitRanking, MeasureNormal, AttachConfidenceRanking, vars, measureVars
<1>4. CASE ElicitRankingSD
  BY <1>4 DEF ElicitRankingSD, MeasureSuddenDeath, AttachSuddenDeathRanking, vars, measureVars
<1>5. CASE PlayWord
  <2>1. Acting \in Seats /\ TypeOK /\ TypeOK' /\ PhaseInv
    BY ActingIsASeat DEF PlayInv, GameInv, EngineInv, PhaseInv
  <2>2. proposal[next] \in Cards /\ ResolveGuess(Acting, proposal[next])
    BY <1>5 DEF PlayWord
  <2>3. QED BY <2>1, <2>2, GuessMoves
<1>6. CASE Resting
  BY <1>6 DEF Resting, EnterSuddenDeath, ModelCallFails, SkipWord, StopGuessing, PassTurn,
     StopTurn, SwitchRoles, NothingPlayable, Concede, ConcedeSuddenDeath, TooManyDispatches,
     FlushCommits, FlushFails, ErrorFlush, Raise, vars, measureVars, rowsVars, gameVars
<1>7. QED BY <1>1, <1>2, <1>3, <1>4, <1>5, <1>6, RowsSteps

\* A sudden-death measurement listed the clues of the whole game, and every seat
\* that was ranked was asked.
SDAskedInv ==
  /\ \A k \in DOMAIN asked, s \in Seats :
       asked[k].call = "measurement_sd" /\ asked[k].seat = s =>
         /\ phase \in SDPhases \cup {GameOver} /\ clue = NoClue
         /\ asked[k].view.clues = GuesserView(s).clues
  /\ \A s \in sdRanked : \E k \in DOMAIN asked :
       asked[k].call = "measurement_sd" /\ asked[k].seat = s

LEMMA CluesStay ==
  ASSUME UNCHANGED history, NEW s
  PROVE  GuesserView(s).clues' = GuesserView(s).clues
BY DEF GuesserView

\* What a step adds to the log is no sudden-death measurement, or one that shows
\* what the seat has received.
LEMMA SDAskedNow ==
  ASSUME AskedIsALog, [RowsNext]_rowsVars
  PROVE  \A k \in DOMAIN asked' \ DOMAIN asked : asked'[k].call = "measurement_sd" =>
           /\ phase \in SDPhases
           /\ asked'[k].view.clues = GuesserView(asked'[k].seat).clues
<1>1. ASSUME NEW q, Ask(q), q.call # "measurement_sd"
      PROVE  \A k \in DOMAIN asked' \ DOMAIN asked : asked'[k].call # "measurement_sd"
  BY <1>1, Asking
<1>2. ASSUME NEW word \in ClueWords, ProposeClue(word)
      PROVE  \A k \in DOMAIN asked' \ DOMAIN asked : asked'[k].call # "measurement_sd"
  BY <1>1, <1>2 DEF ProposeClue, ClueRequest
<1>3. ASSUME NEW words \in Proposals, ProposeWords(words) \/ ProposeWordsSD(words)
      PROVE  \A k \in DOMAIN asked' \ DOMAIN asked : asked'[k].call # "measurement_sd"
  BY <1>1, <1>3 DEF ProposeWords, GuessRequest, ProposeWordsSD, GuessSDRequest
<1>4. CASE ElicitRanking
  BY <1>1, <1>4 DEF ElicitRanking, MeasurementRequest
<1>5. CASE ElicitRankingSD
  <2>1. Ask(MeasurementSDRequest(Acting)) /\ phase \in SDPhases
    BY <1>5 DEF ElicitRankingSD, MeasureSuddenDeath
  <2>2. \A k \in DOMAIN asked' \ DOMAIN asked : asked'[k] = MeasurementSDRequest(Acting)
    BY <2>1, Asking
  <2>3. QED BY <2>1, <2>2 DEF MeasurementSDRequest
<1>6. QED BY <1>2, <1>3, <1>4, <1>5, RowsSteps

LEMMA SDAskedStep ==
  ASSUME PlayInv, EngineInv', AskedIsALog, SDAskedInv, [RowsNext]_rowsVars
  PROVE  SDAskedInv'
<1>1. ASSUME NEW k \in DOMAIN asked', NEW s \in Seats,
             asked'[k].call = "measurement_sd", asked'[k].seat = s
      PROVE  /\ phase' \in SDPhases \cup {GameOver} /\ clue' = NoClue
             /\ asked'[k].view.clues = GuesserView(s).clues'
  <2>1. /\ phase \in SDPhases \cup {GameOver} /\ clue = NoClue
        /\ asked'[k].view.clues = GuesserView(s).clues
    <3>1. CASE k \in DOMAIN asked
      BY <1>1, <3>1, AskedStays DEF SDAskedInv
    <3>2. CASE k \notin DOMAIN asked
      BY <1>1, <3>2, SDAskedNow DEF PlayInv, GameInv, RecordInv, ClueInv
    <3>3. QED BY <3>1, <3>2
  <2>2. phase' \in SDPhases \cup {GameOver} /\ UNCHANGED <<clue, history>>
    BY <2>1, ArchiveClosed
  <2>3. GuesserView(s).clues' = GuesserView(s).clues
    BY <2>2, CluesStay
  <2>4. QED BY <2>1, <2>2, <2>3
<1>2. ASSUME NEW s \in sdRanked'
      PROVE  \E k \in DOMAIN asked' : asked'[k].call = "measurement_sd" /\ asked'[k].seat = s
  <2>1. CASE s \in sdRanked
    BY <2>1, AskedStays DEF SDAskedInv
  <2>2. CASE s \notin sdRanked
    <3>1. s = Acting /\ Ask(MeasurementSDRequest(Acting))
      BY <1>2, <2>2, RankedByAsking
    <3>2. QED BY <3>1, Asking DEF MeasurementSDRequest
  <2>3. QED BY <2>1, <2>2
<1>3. QED BY <1>1, <1>2 DEF SDAskedInv

-----------------------------------------------------------------------------
(***************************************************************************)
(* Numbers in order                                                        *)
(***************************************************************************)

\* Distinct places among as many: each is somebody's.
LEMMA PlaceExists ==
  ASSUME NEW S, IsFiniteSet(S), NEW place \in [S -> 1..Cardinality(S)],
         \A x, y \in S : x # y => place[x] # place[y],
         NEW n \in 1..Cardinality(S)
  PROVE  \E x \in S : place[x] = n
<1> DEFINE T == 1..Cardinality(S)
<1>1. Cardinality(S) \in Nat
  BY FS_CardinalityType
<1>2. IsFiniteSet(T) /\ Cardinality(T) = Cardinality(S)
  BY <1>1, FS_Interval, 1 \in Int
<1>3. place \in Injection(S, T)
  BY DEF Injection, IsInjective
<1>4. place \in Surjection(S, T)
  BY <1>2, <1>3, FS_Injection
<1>5. QED BY <1>4 DEF Surjection

\* The place of a number in a set of numbers.
UpTo(S, x) == {m \in S : m <= x}

LEMMA PlacesFit ==
  ASSUME NEW S \in SUBSET Nat, IsFiniteSet(S), NEW x \in S
  PROVE  Cardinality(UpTo(S, x)) \in 1..Cardinality(S)
<1>1. UpTo(S, x) \in SUBSET S /\ x \in UpTo(S, x)
  BY DEF UpTo
<1>2. /\ IsFiniteSet(UpTo(S, x)) /\ Cardinality(UpTo(S, x)) <= Cardinality(S)
      /\ UpTo(S, x) # {}
  BY <1>1, FS_Subset
<1>3. QED BY <1>2, FS_CardinalityType, FS_EmptySet

LEMMA PlacesDiffer ==
  ASSUME NEW S \in SUBSET Nat, IsFiniteSet(S), NEW x \in S, NEW y \in S, x # y
  PROVE  Cardinality(UpTo(S, x)) # Cardinality(UpTo(S, y))
<1>1. ASSUME NEW u \in S, NEW v \in S, u < v
      PROVE  Cardinality(UpTo(S, u)) # Cardinality(UpTo(S, v))
  <2>1. u \in Nat /\ v \in Nat /\ v \in UpTo(S, v) /\ v \notin UpTo(S, u)
    BY <1>1 DEF UpTo
  <2>2. UpTo(S, u) \subseteq UpTo(S, v) /\ UpTo(S, v) \in SUBSET S
    <3>1. ASSUME NEW z \in S, z <= u PROVE z <= v
      BY <1>1, <2>1, <3>1
    <3>2. QED BY <3>1 DEF UpTo
  <2>3. IsFiniteSet(UpTo(S, v))
    BY <2>2, FS_Subset
  <2>4. UpTo(S, u) \in SUBSET UpTo(S, v) /\ UpTo(S, u) # UpTo(S, v)
    BY <2>1, <2>2
  <2>5. QED BY <2>3, <2>4, FS_Subset
<1>2. x < y \/ y < x
  OBVIOUS
<1>3. QED BY <1>1, <1>2

\* Each place of the list holds the number of that place.
LEMMA AscendingPlaces ==
  ASSUME NEW S \in SUBSET Nat, IsFiniteSet(S)
  PROVE  /\ DOMAIN Ascending(S) = 1..Cardinality(S)
         /\ \A k \in DOMAIN Ascending(S) :
              Ascending(S)[k] \in S /\ Cardinality(UpTo(S, Ascending(S)[k])) = k
<1> DEFINE place == [x \in S |-> Cardinality(UpTo(S, x))]
<1>1. place \in [S -> 1..Cardinality(S)] /\ \A x, y \in S : x # y => place[x] # place[y]
  BY PlacesFit, PlacesDiffer
<1>2. ASSUME NEW k \in 1..Cardinality(S) PROVE \E x \in S : Cardinality(UpTo(S, x)) = k
  <2>1. \E x \in S : place[x] = k
    <3> HIDE DEF place
    <3>1. QED BY <1>1, PlaceExists
  <2>2. QED BY <2>1
<1>3. ASSUME NEW k \in 1..Cardinality(S)
      PROVE  Ascending(S)[k] \in S /\ Cardinality(UpTo(S, Ascending(S)[k])) = k
  BY <1>2 DEF Ascending, UpTo
<1>4. QED BY <1>3 DEF Ascending

\* A set shifted by one is as large,
LEMMA ShiftedCount ==
  ASSUME NEW S \in SUBSET Nat, IsFiniteSet(S), NEW T \in SUBSET Nat,
         0 \notin S, \A n \in Nat : n \in T <=> n + 1 \in S
  PROVE  IsFiniteSet(T) /\ Cardinality(T) = Cardinality(S)
<1> DEFINE f == [n \in S |-> n - 1]
<1>1. \A n \in S : n - 1 \in Nat /\ (n - 1) + 1 = n
  OBVIOUS
<1>2. f \in [S -> T]
  BY <1>1
<1>3. \A n, m \in S : n # m => f[n] # f[m]
  BY <1>1
<1>4. \A m \in T : m + 1 \in S /\ f[m + 1] = m
  OBVIOUS
<1>5. f \in Injection(S, T) /\ f \in Surjection(S, T)
  <2> HIDE DEF f
  <2>1. QED BY <1>2, <1>3, <1>4 DEF Injection, IsInjective, Surjection
<1>6. QED BY <1>5, FS_Surjection

\* and listed in the same order.
LEMMA ShiftedOrder ==
  ASSUME NEW S \in SUBSET Nat, IsFiniteSet(S), NEW T \in SUBSET Nat,
         0 \notin S, \A n \in Nat : n \in T <=> n + 1 \in S
  PROVE  Ascending(S) = [k \in DOMAIN Ascending(T) |-> Ascending(T)[k] + 1]
<1>1. IsFiniteSet(T) /\ Cardinality(T) = Cardinality(S)
  BY ShiftedCount
<1>2. /\ DOMAIN Ascending(S) = 1..Cardinality(S) /\ DOMAIN Ascending(T) = 1..Cardinality(S)
      /\ \A k \in 1..Cardinality(S) :
           /\ Ascending(S)[k] \in S /\ Cardinality(UpTo(S, Ascending(S)[k])) = k
           /\ Ascending(T)[k] \in T /\ Cardinality(UpTo(T, Ascending(T)[k])) = k
  BY <1>1, AscendingPlaces
<1>3. ASSUME NEW n \in T
      PROVE  n + 1 \in S /\ Cardinality(UpTo(S, n + 1)) = Cardinality(UpTo(T, n))
  <2>1. /\ UpTo(S, n + 1) \in SUBSET S /\ UpTo(S, n + 1) \in SUBSET Nat
        /\ UpTo(T, n) \in SUBSET Nat /\ 0 \notin UpTo(S, n + 1)
        /\ \A m \in Nat : m \in UpTo(T, n) <=> m + 1 \in UpTo(S, n + 1)
    <3>1. n \in Nat /\ \A m \in Nat : m <= n <=> m + 1 <= n + 1
      OBVIOUS
    <3>2. QED BY <3>1 DEF UpTo
  <2>2. IsFiniteSet(UpTo(S, n + 1))
    BY <2>1, FS_Subset
  <2>3. QED BY <2>1, <2>2, ShiftedCount
<1>4. ASSUME NEW k \in 1..Cardinality(S) PROVE Ascending(S)[k] = Ascending(T)[k] + 1
  <2>1. PICK n \in T : n = Ascending(T)[k] /\ Cardinality(UpTo(T, n)) = k
    BY <1>2
  <2>2. n + 1 \in S /\ Cardinality(UpTo(S, n + 1)) = k
    BY <1>3, <2>1
  <2>3. PICK m \in S : m = Ascending(S)[k] /\ Cardinality(UpTo(S, m)) = k
    BY <1>2
  <2>4. m = n + 1
    BY <2>2, <2>3, PlacesDiffer
  <2>5. QED BY <2>1, <2>3, <2>4
<1>5. Ascending(S) = [k \in 1..Cardinality(S) |-> Ascending(S)[k]]
  <2> DEFINE nth(k) == CHOOSE n \in S : Cardinality({m \in S : m <= n}) = k
  <2>1. Ascending(S) = [k \in 1..Cardinality(S) |-> nth(k)]
    BY DEF Ascending
  <2> HIDE DEF nth
  <2>2. QED BY <2>1
<1>6. QED BY <1>2, <1>4, <1>5

-----------------------------------------------------------------------------
(***************************************************************************)
(* What is known of every game, for its readers                            *)
(***************************************************************************)

ReadInv == PlayInv /\ RequestInv /\ EndInv /\ SDAskedInv

LEMMA ReadInvariant == RowsSpec => []ReadInv
<1>1. RowsInit => EndInv /\ SDAskedInv
  <2> SUFFICES ASSUME RowsInit PROVE EndInv /\ SDAskedInv
    OBVIOUS
  <2>1. turns = <<>> /\ asked = <<>> /\ result = NoResult /\ sdRanked = {} /\ sdTurn = 0
    BY DEF RowsInit, GameInit, Init
  <2>2. DOMAIN turns = {} /\ DOMAIN asked = {} /\ result \notin SdFailureResults
    BY <2>1, ResultsDistinct DEF SdFailureResults
  <2>3. EndInv
    BY <2>1, <2>2 DEF EndInv, RolesInv, FoundOnce, LastOne, MissStored, SuddenDeathNamed
  <2>4. QED BY <2>1, <2>2, <2>3 DEF SDAskedInv
<1>2. PlayInv /\ PlayInv' /\ RequestInv /\ EndInv /\ SDAskedInv /\ [RowsNext]_rowsVars
        => EndInv' /\ SDAskedInv'
  BY EndStep, SDAskedStep DEF RequestInv, PlayInv, GameInv
<1>3. QED BY <1>1, <1>2, RequestInvariant, PTL DEF RowsSpec, ReadInv

\* The clues a seat received, rebuilt from the rows, are those its prompts list.
LEMMA CluesAreNumbered ==
  ASSUME PlayInv, NumberInv, IsStored, clue = NoClue, NEW s \in Seats
  PROVE  GuesserView(s).clues =
           [k \in DOMAIN PartnerClueHistory(s) |-> PartnerClueHistory(s)[k] + 1]
<1> DEFINE S == {i \in DOMAIN history : history[i].giver # s}
           T == {t.number : t \in {x \in ClueRows : x.giver = Other(s)}}
<1>1. /\ Len(history) \in Nat /\ DOMAIN history = 1..Len(history)
      /\ \A i \in DOMAIN history : history[i].turn = i
  BY TurnIsCounted
<1>2. /\ NormalTurns = DOMAIN history
      /\ \A i \in DOMAIN history : history[i].giver \in Seats /\ turns[i].giver = history[i].giver
  <2>1. LiveClues = history
    BY DEF LiveClues
  <2>2. RecordMatchesEngine /\ history \in Seq(ClueEntries)
    BY RecordMatches, <2>1 DEF PlayInv, GameInv, EngineInv, PhaseInv, TypeOK
  <2>3. \A i \in DOMAIN history : history[i] \in ClueEntries
    BY <2>2
  <2>4. QED BY <2>1, <2>2, <2>3 DEF RecordMatchesEngine, ClueEntries
<1>3. S \in SUBSET Nat /\ 0 \notin S /\ IsFiniteSet(S)
  <2>1. IsFiniteSet(1..Len(history))
    BY <1>1, FS_Interval, 1 \in Int
  <2>2. QED BY <1>1, <2>1, FS_Subset
<1>4. \A x : x \in T <=> \E i \in DOMAIN history : turns[i].giver = Other(s) /\ x = i - 1
  <2>1. ClueRows = {TurnRow(i) : i \in DOMAIN history}
    BY <1>2, RowsOfTurns DEF PlayInv, GameInv
  <2>2. \A i \in DOMAIN history : TurnRow(i).giver = turns[i].giver /\ TurnRow(i).number = i - 1
    BY <1>2 DEF TurnRow, NumberInv, NormalTurns
  <2>3. QED BY <2>1, <2>2
<1>5. T \in SUBSET Nat /\ \A n \in Nat : n \in T <=> n + 1 \in S
  <2>1. \A i \in DOMAIN history : turns[i].giver = Other(s) <=> history[i].giver # s
    BY <1>2 DEF Seats, Other
  <2>2. \A i \in DOMAIN history : i - 1 \in Nat /\ (i - 1) + 1 = i
    BY <1>1
  <2>3. \A x : x \in T <=> \E i \in S : x = i - 1
    <3> HIDE DEF T
    <3>1. QED BY <1>4, <2>1
  <2> HIDE DEF T
  <2>4. \A i \in S : i \in Nat /\ i - 1 \in Nat
    BY <1>1, <2>2
  <2> HIDE DEF S
  <2>5. QED BY <2>3, <2>4
<1>6. Ascending(S) = [k \in DOMAIN Ascending(T) |-> Ascending(T)[k] + 1]
  <2> HIDE DEF S, T
  <2>1. QED BY <1>3, <1>5, ShiftedOrder
<1>7. \A k \in DOMAIN Ascending(S) : history[Ascending(S)[k]].turn = Ascending(S)[k]
  <2>1. \A k \in DOMAIN Ascending(S) : Ascending(S)[k] \in S
    <3> HIDE DEF S
    <3>1. QED BY <1>3, AscendingPlaces
  <2>2. QED BY <1>1, <2>1
<1>8. GuesserView(s).clues = [k \in DOMAIN Ascending(S) |-> history[Ascending(S)[k]].turn]
  BY DEF GuesserView
<1>9. PartnerClueHistory(s) = Ascending(T)
  BY DEF PartnerClueHistory
<1> HIDE DEF S, T
<1>10. DOMAIN Ascending(S) = DOMAIN Ascending(T)
  BY <1>6
<1>11. \A k \in DOMAIN Ascending(T) : history[Ascending(S)[k]].turn = Ascending(T)[k] + 1
  BY <1>6, <1>7, <1>10
<1>12. QED BY <1>8, <1>9, <1>10, <1>11

\* A seat measured in sudden death is one the engine ranked.
LEMMA SdSeatsWereRanked ==
  ASSUME PlayInv, IsStored, NEW rec \in SdSeatRecords
  PROVE  rec.seat \in sdRanked /\ rec.clues = PartnerClueHistory(rec.seat)
<1>1. row.turns = turns /\ TurnRows = {TurnRow(i) : i \in DOMAIN turns}
  BY StoredTurns, RowsOfTurns DEF PlayInv, GameInv
<1>2. PICK p \in ProposalRows :
        /\ p.kind = "measurement" /\ turns[p.turn].phase = "sudden_death"
        /\ rec.seat = p.seat /\ rec.clues = PartnerClueHistory(p.seat)
  BY <1>1 DEF SdSeatRecords
<1>3. PICK t \in TurnRows :
        p.turn = t.turn /\ (IF t.phase = "normal" THEN p.seat = Other(t.giver) /\ row.turns[t.turn].measured
                                                 ELSE p.seat \in row.turns[t.turn].sdMeasured)
  BY <1>2, MeasurementRows
<1>4. PICK i \in DOMAIN turns : t = TurnRow(i)
  BY <1>1, <1>3
<1>5. t.turn = i /\ t.phase = turns[i].phase
  BY <1>4 DEF TurnRow
<1>6. i = sdTurn /\ turns[i].sdMeasured = sdRanked
  <2>1. turns[i].phase = "sudden_death"
    BY <1>2, <1>3, <1>5
  <2>2. i \in Nat \ {0}
    BY DEF PlayInv, GameInv, RecordInv, RecordTypes
  <2>3. QED BY <2>1, <2>2 DEF PlayInv, GameInv, RecordInv, ShapeInv
<1>7. QED BY <1>1, <1>2, <1>3, <1>5, <1>6

\* The wrongly selected cards are the reveals that ended a sudden death badly.
LEMMA WronglySelectedRows ==
  ASSUME RowInv, IsStored
  PROVE  \A x : x \in WronglySelected <=>
           /\ result \in SdFailureResults
           /\ \E i \in DOMAIN turns : \E k \in DOMAIN turns[i].reveals :
                /\ x = RevealRow(i, k) /\ turns[i].phase = "sudden_death"
                /\ turns[i].reveals[k].endedGame /\ turns[i].reveals[k].role # Agent
<1>1. row.result = result
  BY StoredTurns
<1>2. \A i, k : RevealRow(i, k).phase = turns[i].phase /\ RevealRow(i, k).reveal = turns[i].reveals[k]
  BY DEF RevealRow
<1>3. QED BY <1>1, <1>2, RowsOfReveals DEF WronglySelected

\* The turn of sudden death is the last one, or there is none.
LEMMA SuddenDeathTurn ==
  ASSUME PlayInv
  PROVE  /\ sdTurn # 0 <=> sdTurn \in DOMAIN turns
         /\ \A i \in DOMAIN turns : turns[i].phase = "sudden_death" <=> i = sdTurn
<1>1. /\ sdTurn \in {0, Len(turns)}
      /\ \A i \in DOMAIN turns :
           turns[i].phase = IF i = sdTurn THEN "sudden_death" ELSE "normal"
  BY DEF PlayInv, GameInv, RecordInv, ShapeInv
<1>2. Len(turns) \in Nat /\ DOMAIN turns = 1..Len(turns)
  BY TurnIsCounted
<1>3. ASSUME NEW n \in Nat, NEW m \in {0, n} PROVE m # 0 <=> m \in 1..n
  BY <1>3
<1>4. QED BY <1>1, <1>2, <1>3

\* In every game stored complete, what the sudden-death metrics read back is what
\* happened (sd_metrics.load_sd_seat_records, load_sd_reach,
\* directional_fg_check): the clues of a measured seat are those its prompt
\* listed, hits and misses fall on their sides of the partner's key, the turn is
\* there exactly when the result says so, and a failure names its one card.
THEOREM SuddenDeathRead == RowsSpec => []SuddenDeathIsReadRight
<1>1. ReadInv => SuddenDeathIsReadRight
  <2> SUFFICES ASSUME PlayInv, RequestInv, EndInv, SDAskedInv, IsCompleted
               PROVE  SuddenDeathIsReadRight
    BY DEF ReadInv, SuddenDeathIsReadRight
  <2>1. IsStored /\ RowInv /\ TypeOK /\ NumberInv
    BY DEF IsCompleted, PlayInv, GameInv, RequestInv, EngineInv, PhaseInv
  <2>2. row.result = result /\ row.turns = turns /\ result # NoResult
    BY <2>1, StoredTurns DEF IsCompleted, RowInv
  <2>3. ASSUME NEW rec \in SdSeatRecords
        PROVE  \E i \in DOMAIN asked :
                 /\ asked[i].call = "measurement_sd" /\ asked[i].seat = rec.seat
                 /\ asked[i].view.clues = [k \in DOMAIN rec.clues |-> rec.clues[k] + 1]
    <3>1. rec.seat \in sdRanked /\ rec.seat \in Seats /\ rec.clues = PartnerClueHistory(rec.seat)
      BY <2>1, SdSeatsWereRanked DEF TypeOK
    <3>2. PICK k \in DOMAIN asked : asked[k].call = "measurement_sd" /\ asked[k].seat = rec.seat
      BY <3>1 DEF SDAskedInv
    <3>3. clue = NoClue /\ asked[k].view.clues = GuesserView(rec.seat).clues
      BY <3>1, <3>2 DEF SDAskedInv
    <3>4. QED BY <2>1, <3>1, <3>2, <3>3, CluesAreNumbered
  <2>4. ASSUME NEW r \in RevealRows
        PROVE  r.reveal.role = Agent <=> r.reveal.card \notin NonAgentWords(r.reveal.seat)
    <3>1. PICK i \in DOMAIN turns : \E k \in DOMAIN turns[i].reveals : r = RevealRow(i, k)
      BY <2>1, RowsOfReveals
    <3>2. PICK k \in DOMAIN turns[i].reveals : r = RevealRow(i, k)
      BY <3>1
    <3>3. r.reveal = turns[i].reveals[k] /\ r.reveal \in Reveals
      BY <3>2, RevealsAreTyped DEF RevealRow
    <3>4. r.reveal.card \in Cards /\ r.reveal.role = Side[Other(r.reveal.seat)][r.reveal.card]
      BY <3>3 DEF EndInv, RolesInv, Reveals
    <3>5. QED BY <3>4 DEF NonAgentWords
  <2>5. ReachedSuddenDeath <=> row.result \notin {"victory", "loss_assassin"}
    <3>1. ReachedSuddenDeath <=> \E i \in DOMAIN turns : turns[i].phase = "sudden_death"
      <4>1. TurnRows = {TurnRow(i) : i \in DOMAIN turns}
        BY <2>1, RowsOfTurns
      <4>2. \A i : TurnRow(i).phase = turns[i].phase
        BY DEF TurnRow
      <4>3. QED BY <4>1, <4>2 DEF ReachedSuddenDeath
    <3>2. (\E i \in DOMAIN turns : turns[i].phase = "sudden_death") <=> sdTurn # 0
      BY SuddenDeathTurn
    <3>3. QED BY <2>2, <3>1, <3>2 DEF EndInv, SuddenDeathNamed
  <2>6. row.result \in SdFailureResults <=> WronglySelected # {}
    <3>1. ASSUME result \in SdFailureResults PROVE WronglySelected # {}
      <4>1. PICK k \in DOMAIN turns[sdTurn].reveals :
              turns[sdTurn].reveals[k].endedGame /\ turns[sdTurn].reveals[k].role # Agent
        BY <3>1 DEF EndInv, MissStored
      <4>2. sdTurn \in DOMAIN turns /\ turns[sdTurn].phase = "sudden_death"
        BY <3>1, SuddenDeathTurn DEF EndInv, MissStored
      <4>3. RevealRow(sdTurn, k) \in WronglySelected
        BY <2>1, <3>1, <4>1, <4>2, WronglySelectedRows
      <4>4. QED BY <4>3
    <3>2. QED BY <2>1, <2>2, <3>1, WronglySelectedRows
  <2>7. ASSUME NEW r \in WronglySelected
        PROVE  /\ WronglySelected = {r}
               /\ row.result = IF r.reveal.role = Civilian THEN "loss_civilian_sd"
                                                           ELSE "loss_assassin_sd"
    <3>1. ASSUME NEW x \in WronglySelected
          PROVE  /\ x = RevealRow(Len(turns), Len(turns[Len(turns)].reveals))
                 /\ result = IF x.reveal.role = Civilian THEN "loss_civilian_sd"
                                                         ELSE "loss_assassin_sd"
      <4>1. PICK i \in DOMAIN turns : \E k \in DOMAIN turns[i].reveals :
              /\ x = RevealRow(i, k) /\ turns[i].phase = "sudden_death"
              /\ turns[i].reveals[k].endedGame /\ turns[i].reveals[k].role # Agent
        BY <2>1, <3>1, WronglySelectedRows
      <4>2. PICK k \in DOMAIN turns[i].reveals :
              /\ x = RevealRow(i, k)
              /\ turns[i].reveals[k].endedGame /\ turns[i].reveals[k].role # Agent
        BY <4>1
      <4>3. x.reveal = turns[i].reveals[k]
        BY <4>2 DEF RevealRow
      <4>4. QED BY <4>1, <4>2, <4>3 DEF EndInv, LastOne
    <3>2. QED BY <2>2, <3>1
  <2>8. QED BY <2>3, <2>4, <2>5, <2>6, <2>7 DEF SuddenDeathIsReadRight
<1>2. QED BY <1>1, ReadInvariant, PTL

-----------------------------------------------------------------------------
(***************************************************************************)
(* Items and the cards they turned over                                    *)
(***************************************************************************)

\* The play proposal of seat s on turn i, its row and one of its items.
Proposed(i, s) == IF turns[i].phase = "normal" THEN turns[i].play ELSE turns[i].sdPlay[s]

HasPlayed(i, s) ==
  /\ turns[i].phase = "normal" => s = Other(turns[i].giver)
  /\ Proposed(i, s) # <<>>

PlayRow(i, s) == [turn |-> i, kind |-> "play", seat |-> s]

ItemRow(i, s, k) ==
  [turn |-> i, seat |-> s, position |-> k, word |-> Proposed(i, s)[k],
   linked |-> LinkedReveals(PlayRow(i, s), k)]

LEMMA PlayRows ==
  ASSUME PlayInv, IsStored
  PROVE  \A x : x \in ProposalRows /\ x.kind = "play" <=>
                  \E i \in DOMAIN turns : \E s \in Seats : HasPlayed(i, s) /\ x = PlayRow(i, s)
<1> DEFINE stored(t) == row.turns[t.turn]
           of(t, kind, seats) == {[turn |-> t.turn, kind |-> kind, seat |-> s] : s \in seats}
           plays(t) ==
             IF t.phase = "normal"
               THEN {s \in {Other(t.giver)} : stored(t).play # <<>>}
               ELSE {s \in Seats : stored(t).sdPlay[s] # <<>>}
           measures(t) ==
             IF t.phase = "normal"
               THEN {s \in {Other(t.giver)} : stored(t).measured}
               ELSE stored(t).sdMeasured
<1>1. ProposalRows =
        UNION {of(t, "play", plays(t)) \cup of(t, "measurement", measures(t)) : t \in TurnRows}
  BY DEF ProposalRows
<1>2. /\ row.turns = turns /\ TurnRows = {TurnRow(i) : i \in DOMAIN turns}
      /\ \A i : /\ TurnRow(i).turn = i /\ TurnRow(i).phase = turns[i].phase
                /\ TurnRow(i).giver = turns[i].giver
  BY StoredTurns, RowsOfTurns DEF PlayInv, GameInv, TurnRow
<1>3. ASSUME NEW x
      PROVE  x \in ProposalRows /\ x.kind = "play" <=> \E t \in TurnRows : x \in of(t, "play", plays(t))
  <2>1. ASSUME NEW t PROVE /\ \A y \in of(t, "measurement", measures(t)) : y.kind = "measurement"
                           /\ \A y \in of(t, "play", plays(t)) : y.kind = "play"
    OBVIOUS
  <2> HIDE DEF of, plays, measures
  <2>2. QED BY <1>1, <2>1
<1>4. ASSUME NEW i \in DOMAIN turns, NEW x
      PROVE  x \in of(TurnRow(i), "play", plays(TurnRow(i)))
               <=> \E s \in Seats : HasPlayed(i, s) /\ x = PlayRow(i, s)
  <2>1. \A s : s \in plays(TurnRow(i)) <=> s \in Seats /\ HasPlayed(i, s)
    <3>1. turns[i].giver \in Seats
      <4>1. turns[i] \in TurnRecords
        BY DEF PlayInv, GameInv, RecordInv, RecordTypes
      <4>2. QED BY <4>1 DEF TurnRecords
    <3>2. Other(turns[i].giver) \in Seats
      BY <3>1, PartnerOfPartner
    <3>3. QED BY <1>2, <3>2 DEF HasPlayed, Proposed
  <2>2. x \in of(TurnRow(i), "play", plays(TurnRow(i)))
          <=> \E s \in plays(TurnRow(i)) : x = PlayRow(i, s)
    <3> HIDE DEF plays
    <3>1. QED BY <1>2 DEF PlayRow
  <2> HIDE DEF plays, of
  <2>3. QED BY <2>1, <2>2
<1> DEFINE rows(t) == of(t, "play", plays(t))
<1>5. ASSUME NEW x
      PROVE  (\E t \in TurnRows : x \in rows(t)) <=> \E i \in DOMAIN turns : x \in rows(TurnRow(i))
  <2> HIDE DEF rows
  <2>1. QED BY <1>2
<1>6. ASSUME NEW x
      PROVE  x \in ProposalRows /\ x.kind = "play" <=>
               \E i \in DOMAIN turns : \E s \in Seats : HasPlayed(i, s) /\ x = PlayRow(i, s)
  <2>1. x \in ProposalRows /\ x.kind = "play" <=> \E t \in TurnRows : x \in rows(t)
    BY <1>3
  <2>2. \A i \in DOMAIN turns :
          x \in rows(TurnRow(i)) <=> \E s \in Seats : HasPlayed(i, s) /\ x = PlayRow(i, s)
    BY <1>4
  <2> HIDE DEF rows
  <2>3. QED BY <1>5, <2>1, <2>2
<1>7. QED BY <1>6

\* The reveals of a turn that carry the position of an item of a seat.
LEMMA LinkedRows ==
  ASSUME PlayInv, IsStored, NEW i \in DOMAIN turns, NEW s \in Seats, HasPlayed(i, s), NEW k
  PROVE  \A x : x \in LinkedReveals(PlayRow(i, s), k) <=>
                  \E j \in DOMAIN turns[i].reveals :
                    /\ x = RevealRow(i, j)
                    /\ turns[i].reveals[j].seat = s /\ turns[i].reveals[j].index = k
<1>1. \A x : x \in RevealRows <=>
               \E h \in DOMAIN turns : \E j \in DOMAIN turns[h].reveals : x = RevealRow(h, j)
  BY RowsOfReveals DEF PlayInv, GameInv
<1>2. \A h, j : /\ RevealRow(h, j).turn = h /\ RevealRow(h, j).phase = turns[h].phase
                /\ RevealRow(h, j).reveal = turns[h].reveals[j]
  BY DEF RevealRow
<1>3. ASSUME NEW j \in DOMAIN turns[i].reveals
      PROVE  (turns[i].phase = "sudden_death" => turns[i].reveals[j].seat = s)
               <=> turns[i].reveals[j].seat = s
  <2>1. turns[i].phase \in {"normal", "sudden_death"}
    <3>1. turns[i] \in TurnRecords
      BY DEF PlayInv, GameInv, RecordInv, RecordTypes
    <3>2. QED BY <3>1 DEF TurnRecords
  <2>2. turns[i].phase = "normal" => turns[i].reveals[j].seat = Other(turns[i].giver)
    BY DEF PlayInv, GameInv, RecordInv, RevealsLinkToProposals
  <2>3. QED BY <2>1, <2>2 DEF HasPlayed
<1>4. PlayRow(i, s).turn = i /\ PlayRow(i, s).seat = s
  BY DEF PlayRow
<1>5. ASSUME NEW x
      PROVE  x \in LinkedReveals(PlayRow(i, s), k) <=>
               /\ x \in RevealRows /\ x.turn = i /\ x.reveal.index = k
               /\ x.phase = "sudden_death" => x.reveal.seat = s
  BY <1>4 DEF LinkedReveals
<1>6. QED BY <1>1, <1>2, <1>3, <1>5

\* No two of them are of one seat and one position.
LEMMA OneReveal ==
  ASSUME PlayInv, NEW i \in DOMAIN turns,
         NEW j \in DOMAIN turns[i].reveals, NEW l \in DOMAIN turns[i].reveals,
         turns[i].reveals[j].seat = turns[i].reveals[l].seat,
         turns[i].reveals[j].index = turns[i].reveals[l].index
  PROVE  j = l
<1>1. /\ turns[i] \in TurnRecords /\ LinkedTurn(turns[i])
  BY TurnByTurn DEF PlayInv, GameInv, RecordInv, RecordTypes
<1>2. /\ Len(turns[i].reveals) \in Nat /\ DOMAIN turns[i].reveals = 1..Len(turns[i].reveals)
      /\ turns[i].reveals[j].index \in Nat
  BY <1>1, RevealTypes
<1>3. ASSUME NEW a \in DOMAIN turns[i].reveals, NEW b \in DOMAIN turns[i].reveals, a < b,
             turns[i].reveals[a].seat = turns[i].reveals[b].seat
      PROVE  turns[i].reveals[a].index < turns[i].reveals[b].index
  <2>1. a \in 1..(b - 1)
    BY <1>2, <1>3
  <2>2. QED BY <1>1, <1>3, <2>1 DEF LinkedTurn
<1>4. j < l \/ l < j \/ j = l
  BY <1>2
<1>5. QED BY <1>2, <1>3, <1>4

\* The items a reader sees: no link is overwritten.
LEMMA ItemRows ==
  ASSUME PlayInv, IsStored
  PROVE  \A x : x \in PlayItemRows <=>
                  \E i \in DOMAIN turns : \E s \in Seats :
                    HasPlayed(i, s) /\ \E k \in DOMAIN Proposed(i, s) : x = ItemRow(i, s, k)
<1> DEFINE words(p) == IF row.turns[p.turn].phase = "normal"
                         THEN row.turns[p.turn].play
                         ELSE row.turns[p.turn].sdPlay[p.seat]
           link(rs) ==
             IF rs = {} THEN {} ELSE {CHOOSE r \in rs : \A q \in rs : q.position <= r.position}
           items(p) ==
             {[turn |-> p.turn, seat |-> p.seat, position |-> k, word |-> words(p)[k],
               linked |-> link(LinkedReveals(p, k))] : k \in DOMAIN words(p)}
<1>1. PlayItemRows = UNION {items(p) : p \in {q \in ProposalRows : q.kind = "play"}}
  BY DEF PlayItemRows
<1>2. \A x : x \in PlayItemRows <=>
               \E i \in DOMAIN turns : \E s \in Seats : HasPlayed(i, s) /\ x \in items(PlayRow(i, s))
  <2> HIDE DEF items
  <2>1. QED BY <1>1, PlayRows
<1>3. ASSUME NEW i \in DOMAIN turns, NEW s \in Seats, HasPlayed(i, s), NEW k
      PROVE  link(LinkedReveals(PlayRow(i, s), k)) = LinkedReveals(PlayRow(i, s), k)
  <2>1. ASSUME NEW x \in LinkedReveals(PlayRow(i, s), k)
        PROVE  LinkedReveals(PlayRow(i, s), k) = {x} /\ x.position \in Nat
    <3>1. PICK j \in DOMAIN turns[i].reveals :
            /\ x = RevealRow(i, j)
            /\ turns[i].reveals[j].seat = s /\ turns[i].reveals[j].index = k
      BY <1>3, <2>1, LinkedRows
    <3>2. ASSUME NEW y \in LinkedReveals(PlayRow(i, s), k) PROVE y = x
      <4>1. PICK l \in DOMAIN turns[i].reveals :
              /\ y = RevealRow(i, l)
              /\ turns[i].reveals[l].seat = s /\ turns[i].reveals[l].index = k
        BY <1>3, <3>2, LinkedRows
      <4>2. QED BY <3>1, <4>1, OneReveal
    <3>3. x.position = j /\ j \in Nat
      <4>1. turns[i] \in TurnRecords
        BY DEF PlayInv, GameInv, RecordInv, RecordTypes
      <4>2. QED BY <3>1, <4>1, RevealTypes DEF RevealRow
    <3>4. QED BY <2>1, <3>2, <3>3
  <2>2. ASSUME NEW x, x.position \in Nat PROVE link({x}) = {x}
    BY <2>2
  <2> HIDE DEF link
  <2>3. link({}) = {}
    BY DEF link
  <2>4. QED BY <2>1, <2>2, <2>3
<1>4. ASSUME NEW i \in DOMAIN turns, NEW s \in Seats, HasPlayed(i, s)
      PROVE  items(PlayRow(i, s)) = {ItemRow(i, s, k) : k \in DOMAIN Proposed(i, s)}
  <2>1. PlayRow(i, s).turn = i /\ PlayRow(i, s).seat = s /\ words(PlayRow(i, s)) = Proposed(i, s)
    BY StoredTurns DEF PlayRow, Proposed, PlayInv, GameInv
  <2> HIDE DEF words, link
  <2>2. QED BY <1>3, <1>4, <2>1 DEF ItemRow
<1> HIDE DEF items
<1>5. QED BY <1>2, <1>4

\* Every card turned over is linked to one item, of its seat and its word.
LEMMA EveryRevealIsLinked ==
  ASSUME PlayInv, IsStored, NEW r \in RevealRows
  PROVE  \E i \in PlayItemRows :
           /\ i.linked = {r} /\ i.seat = r.reveal.seat /\ i.word = r.reveal.card
           /\ i.turn = r.turn
           /\ \A j \in PlayItemRows : r \in j.linked => j = i
<1>1. PICK i \in DOMAIN turns : \E j \in DOMAIN turns[i].reveals : r = RevealRow(i, j)
  BY RowsOfReveals DEF PlayInv, GameInv
<1>2. PICK j \in DOMAIN turns[i].reveals : r = RevealRow(i, j)
  BY <1>1
<1> DEFINE s == turns[i].reveals[j].seat
           k == turns[i].reveals[j].index
<1>3. /\ r.reveal = turns[i].reveals[j] /\ r.turn = i /\ r.position = j
  BY <1>2 DEF RevealRow
<1>4. /\ turns[i] \in TurnRecords /\ turns[i].phase \in {"normal", "sudden_death"}
      /\ turns[i].giver \in Seats
      /\ turns[i].play \in Seq(ClueWords) /\ turns[i].sdPlay \in [Seats -> Seq(ClueWords)]
  <2>1. turns[i] \in TurnRecords
    BY DEF PlayInv, GameInv, RecordInv, RecordTypes
  <2>2. QED BY <2>1 DEF TurnRecords
<1>5. s \in Seats /\ k \in Nat \ {0}
  BY RevealsAreTyped DEF Reveals
<1>6. /\ turns[i].phase = "normal" => s = Other(turns[i].giver)
      /\ k <= Len(Proposed(i, s)) /\ Proposed(i, s)[k] = turns[i].reveals[j].card
  BY <1>4 DEF Proposed, PlayInv, GameInv, RecordInv, RevealsLinkToProposals
<1>7. k \in DOMAIN Proposed(i, s)
  <2>1. Proposed(i, s) \in Seq(ClueWords)
    BY <1>4, <1>5 DEF Proposed
  <2> HIDE DEF s, k
  <2>2. QED BY <1>5, <1>6, <2>1
<1>8. HasPlayed(i, s)
  <2>1. Proposed(i, s) # <<>>
    BY <1>7
  <2>2. QED BY <1>6, <2>1 DEF HasPlayed
<1>9. ItemRow(i, s, k) \in PlayItemRows
  <2> HIDE DEF s, k
  <2>1. QED BY <1>5, <1>7, <1>8, ItemRows
<1>10. \A x : x \in LinkedReveals(PlayRow(i, s), k) <=> x = r
  <2>1. \A l \in DOMAIN turns[i].reveals :
          turns[i].reveals[l].seat = s /\ turns[i].reveals[l].index = k => l = j
    BY OneReveal
  <2>2. turns[i].reveals[j].seat = s /\ turns[i].reveals[j].index = k
    OBVIOUS
  <2> HIDE DEF s, k
  <2>3. QED BY <1>2, <1>5, <1>8, <2>1, <2>2, LinkedRows
<1>11. ASSUME NEW y \in PlayItemRows, r \in y.linked PROVE y = ItemRow(i, s, k)
  <2>1. PICK h \in DOMAIN turns, p \in Seats :
          HasPlayed(h, p) /\ \E n \in DOMAIN Proposed(h, p) : y = ItemRow(h, p, n)
    BY <1>11, ItemRows
  <2>2. PICK n \in DOMAIN Proposed(h, p) : y = ItemRow(h, p, n)
    BY <2>1
  <2>3. r \in LinkedReveals(PlayRow(h, p), n)
    BY <1>11, <2>2 DEF ItemRow
  <2>4. PICK l \in DOMAIN turns[h].reveals :
          /\ r = RevealRow(h, l)
          /\ turns[h].reveals[l].seat = p /\ turns[h].reveals[l].index = n
    BY <2>1, <2>3, LinkedRows
  <2>5. h = i /\ l = j
    BY <1>3, <2>4 DEF RevealRow
  <2>6. QED BY <2>2, <2>4, <2>5
<1>12. /\ ItemRow(i, s, k).linked = {r} /\ ItemRow(i, s, k).seat = r.reveal.seat
       /\ ItemRow(i, s, k).word = r.reveal.card /\ ItemRow(i, s, k).turn = r.turn
  <2>1. LinkedReveals(PlayRow(i, s), k) = {r}
    BY <1>10
  <2>2. r.reveal.seat = s
    BY <1>3
  <2> HIDE DEF s, k
  <2>3. QED BY <1>3, <1>6, <2>1, <2>2 DEF ItemRow
<1> HIDE DEF s, k
<1>13. ItemRow(i, s, k) \in PlayItemRows /\ \A y \in PlayItemRows : r \in y.linked => y = ItemRow(i, s, k)
  BY <1>9, <1>11
<1>14. QED BY <1>12, <1>13

\* An item is linked to one card of its turn, or to none.
LEMMA EveryLinkIsAReveal ==
  ASSUME PlayInv, IsStored, NEW y \in PlayItemRows, y.linked # {}
  PROVE  \E r \in RevealRows : y.linked = {r} /\ y.turn = r.turn
<1>1. PICK h \in DOMAIN turns, p \in Seats :
        HasPlayed(h, p) /\ \E n \in DOMAIN Proposed(h, p) : y = ItemRow(h, p, n)
  BY ItemRows
<1>2. PICK n \in DOMAIN Proposed(h, p) : y = ItemRow(h, p, n)
  BY <1>1
<1>3. y.linked = LinkedReveals(PlayRow(h, p), n)
  BY <1>2 DEF ItemRow
<1>4. PICK r \in y.linked : r \in RevealRows
  BY <1>3 DEF LinkedReveals
<1>5. \E i \in PlayItemRows : i.linked = {r} /\ i.turn = r.turn
                                /\ \A j \in PlayItemRows : r \in j.linked => j = i
  BY <1>4, EveryRevealIsLinked
<1>6. QED BY <1>4, <1>5

\* As many items as cards, when they are linked one to one.
LEMMA MatchedCount ==
  ASSUME NEW R, IsFiniteSet(R), NEW I,
         \A r \in R : \E i \in I : i.linked = {r},
         \A i \in I : \E r \in R : i.linked = {r},
         \A i, j \in I : i.linked = j.linked => i = j
  PROVE  Cardinality(I) = Cardinality(R)
<1> DEFINE g == [i \in I |-> CHOOSE r \in R : i.linked = {r}]
<1>1. \A i \in I : g[i] \in R /\ i.linked = {g[i]}
  OBVIOUS
<1>2. g \in [I -> R]
  BY <1>1
<1> HIDE DEF g
<1>3. \A i, j \in I : i # j => g[i] # g[j]
  <2>1. ASSUME NEW i \in I, NEW j \in I, g[i] = g[j] PROVE i = j
    <3>1. i.linked = {g[i]} /\ j.linked = {g[j]}
      BY <1>1
    <3>2. i.linked = j.linked
      BY <2>1, <3>1
    <3>3. QED BY <3>2
  <2>2. QED BY <2>1
<1>4. \A r \in R : \E i \in I : g[i] = r
  <2>1. ASSUME NEW r \in R PROVE \E i \in I : g[i] = r
    <3>1. PICK i \in I : i.linked = {r}
      OBVIOUS
    <3>2. {g[i]} = {r}
      BY <1>1, <3>1
    <3>3. QED BY <3>2
  <2>2. QED BY <2>1
<1>5. g \in Injection(I, R) /\ g \in Surjection(I, R)
  BY <1>2, <1>3, <1>4 DEF Injection, IsInjective, Surjection
<1>6. QED BY <1>5, FS_Injection

\* A game has finitely many reveals.
LEMMA FiniteReveals ==
  ASSUME PlayInv, IsStored
  PROVE  IsFiniteSet(RevealRows)
<1> DEFINE rows(i) == {RevealRow(i, j) : j \in DOMAIN turns[i].reveals}
           all == {rows(i) : i \in DOMAIN turns}
<1>1. ASSUME NEW i \in DOMAIN turns PROVE IsFiniteSet(rows(i))
  <2> DEFINE D == DOMAIN turns[i].reveals
             f == [j \in D |-> RevealRow(i, j)]
  <2>1. Len(turns[i].reveals) \in Nat /\ D = 1..Len(turns[i].reveals)
    <3>1. turns[i] \in TurnRecords
      BY DEF PlayInv, GameInv, RecordInv, RecordTypes
    <3>2. QED BY <3>1, RevealTypes
  <2>2. IsFiniteSet(D)
    <3> HIDE DEF D
    <3>1. QED BY <2>1, FS_Interval, 1 \in Int
  <2>3. f \in Surjection(D, rows(i))
    BY DEF Surjection
  <2>4. QED
    <3> HIDE DEF D, f, rows
    <3>1. QED BY <2>2, <2>3, FS_Surjection
<1>2. IsFiniteSet(all)
  <2> DEFINE f == [i \in DOMAIN turns |-> rows(i)]
  <2>1. f \in Surjection(DOMAIN turns, all)
    <3> HIDE DEF rows
    <3>1. QED BY DEF Surjection
  <2>2. IsFiniteSet(DOMAIN turns)
    BY TurnIsCounted, FS_Interval, 1 \in Int
  <2>3. QED
    <3> HIDE DEF f, all
    <3>1. QED BY <2>1, <2>2, FS_Surjection
<1>3. IsFiniteSet(UNION all)
  <2> HIDE DEF rows
  <2>1. \A T \in all : IsFiniteSet(T)
    BY <1>1
  <2> HIDE DEF all
  <2>2. QED BY <1>2, <2>1, FS_UNION
<1>4. RevealRows \subseteq UNION all
  BY RowsOfReveals DEF PlayInv, GameInv
<1> HIDE DEF all
<1>5. QED BY <1>3, <1>4, FS_Subset

\* The positions of the agents revealed on a turn.
AgentPlaces(i) == {k \in DOMAIN turns[i].reveals : turns[i].reveals[k].role = Agent}

LEMMA AgentPlacesCounted ==
  ASSUME PlayInv, FoundOnce, IsStored, NEW i \in DOMAIN turns
  PROVE  /\ AgentPlaces(i) \in SUBSET Nat /\ IsFiniteSet(AgentPlaces(i))
         /\ Cardinality(AgentPlaces(i)) \in Nat /\ Cardinality(Cards) \in Nat
         /\ AgentsRevealed(TurnRow(i)) = Cardinality(AgentPlaces(i))
         /\ Cardinality(AgentPlaces(i)) <= Cardinality(Cards)
<1> DEFINE rows == {r \in RevealRows : r.turn = TurnRow(i).turn /\ r.reveal.role = Agent}
<1>1. /\ Len(turns[i].reveals) \in Nat
      /\ DOMAIN turns[i].reveals = 1..Len(turns[i].reveals)
  <2>1. turns[i] \in TurnRecords
    BY DEF PlayInv, GameInv, RecordInv, RecordTypes
  <2>2. QED BY <2>1, RevealTypes
<1>2. AgentPlaces(i) \in SUBSET Nat /\ IsFiniteSet(AgentPlaces(i))
  <2>1. IsFiniteSet(1..Len(turns[i].reveals))
    BY <1>1, FS_Interval, 1 \in Int
  <2>2. AgentPlaces(i) \in SUBSET (1..Len(turns[i].reveals))
    BY <1>1 DEF AgentPlaces
  <2>3. QED BY <2>1, <2>2, FS_Subset
<1>3. Cardinality(AgentPlaces(i)) <= Cardinality(Cards)
  <2> DEFINE f == [k \in AgentPlaces(i) |-> turns[i].reveals[k].card]
  <2>1. f \in Injection(AgentPlaces(i), Cards)
    <3>1. \A k \in AgentPlaces(i) : turns[i].reveals[k].card \in Cards
      BY RevealsAreTyped DEF AgentPlaces, Reveals
    <3>2. \A k, l \in AgentPlaces(i) :
            turns[i].reveals[k].card = turns[i].reveals[l].card => k = l
      BY DEF AgentPlaces, FoundOnce
    <3>3. QED BY <3>1, <3>2 DEF Injection, IsInjective
  <2>2. QED
    <3> HIDE DEF f
    <3>1. QED BY <2>1, CardsAssumption, FS_Injection
<1>4. \A x : x \in rows <=> \E k \in AgentPlaces(i) : x = RevealRow(i, k)
  <2>1. \A x : x \in RevealRows <=>
                 \E h \in DOMAIN turns : \E j \in DOMAIN turns[h].reveals : x = RevealRow(h, j)
    BY RowsOfReveals DEF PlayInv, GameInv
  <2>2. \A h, j : RevealRow(h, j).turn = h /\ RevealRow(h, j).reveal = turns[h].reveals[j]
    BY DEF RevealRow
  <2>3. TurnRow(i).turn = i
    BY DEF TurnRow
  <2>4. QED BY <2>1, <2>2, <2>3 DEF AgentPlaces
<1>5. Cardinality(rows) = Cardinality(AgentPlaces(i))
  <2> DEFINE f == [k \in AgentPlaces(i) |-> RevealRow(i, k)]
  <2>1. \A k : RevealRow(i, k).position = k
    BY DEF RevealRow
  <2>2. f \in [AgentPlaces(i) -> rows]
    <3> HIDE DEF rows
    <3>1. QED BY <1>4
  <2>3. \A k, l \in AgentPlaces(i) : k # l => f[k] # f[l]
    BY <2>1
  <2>4. \A x \in rows : \E k \in AgentPlaces(i) : f[k] = x
    <3> HIDE DEF rows
    <3>1. QED BY <1>4
  <2>5. f \in Injection(AgentPlaces(i), rows) /\ f \in Surjection(AgentPlaces(i), rows)
    <3> HIDE DEF f, rows
    <3>1. QED BY <2>2, <2>3, <2>4 DEF Injection, IsInjective, Surjection
  <2>6. QED
    <3> HIDE DEF f, rows
    <3>1. QED BY <1>2, <2>5, FS_Surjection
<1>6. AgentsRevealed(TurnRow(i)) = Cardinality(rows)
  BY DEF AgentsRevealed
<1> HIDE DEF rows
<1>7. QED BY <1>2, <1>3, <1>5, <1>6, FS_CardinalityType, CardsAssumption

\* The agents credited to the turns are the covered words, each once.
LEMMA CreditedAgents ==
  ASSUME PlayInv, FoundOnce, IsStored
  PROVE  Cardinality(revealed) =
           Cardinality({x \in TurnRows \X (1..Cardinality(Cards)) : x[2] <= AgentsRevealed(x[1])})
<1> DEFINE P == {x \in TurnRows \X (1..Cardinality(Cards)) : x[2] <= AgentsRevealed(x[1])}
           nth(i, n) == Ascending(AgentPlaces(i))[n]
           found(i, k) == turns[i].reveals[k].card
           g == [x \in P |-> found(x[1].turn, nth(x[1].turn, x[2]))]
<1>1. /\ TurnRows = {TurnRow(i) : i \in DOMAIN turns}
      /\ \A i : TurnRow(i).turn = i
  BY RowsOfTurns DEF TurnRow, PlayInv, GameInv
<1>2. \A i \in DOMAIN turns :
        /\ Cardinality(AgentPlaces(i)) \in Nat /\ Cardinality(Cards) \in Nat
        /\ AgentsRevealed(TurnRow(i)) = Cardinality(AgentPlaces(i))
        /\ Cardinality(AgentPlaces(i)) <= Cardinality(Cards)
  BY AgentPlacesCounted
<1>3. ASSUME NEW x
      PROVE  x \in P <=> \E i \in DOMAIN turns : \E n \in 1..Cardinality(AgentPlaces(i)) :
                           x = <<TurnRow(i), n>>
  <2>1. ASSUME NEW i \in DOMAIN turns, NEW n
        PROVE  n \in 1..Cardinality(AgentPlaces(i))
                 <=> n \in 1..Cardinality(Cards) /\ n <= AgentsRevealed(TurnRow(i))
    BY <1>2
  <2>2. x \in P <=> \E t \in TurnRows : \E n \in 1..Cardinality(Cards) :
                      x = <<t, n>> /\ n <= AgentsRevealed(t)
    OBVIOUS
  <2> HIDE DEF P
  <2>3. QED BY <1>1, <2>1, <2>2
<1>4. ASSUME NEW i \in DOMAIN turns
      PROVE  /\ \A n \in 1..Cardinality(AgentPlaces(i)) :
                  /\ nth(i, n) \in AgentPlaces(i)
                  /\ Cardinality(UpTo(AgentPlaces(i), nth(i, n))) = n
             /\ \A k \in AgentPlaces(i) : \E n \in 1..Cardinality(AgentPlaces(i)) : nth(i, n) = k
  <2>1. AgentPlaces(i) \in SUBSET Nat /\ IsFiniteSet(AgentPlaces(i))
    BY AgentPlacesCounted
  <2>2. \A n \in 1..Cardinality(AgentPlaces(i)) :
          nth(i, n) \in AgentPlaces(i) /\ Cardinality(UpTo(AgentPlaces(i), nth(i, n))) = n
    BY <2>1, AscendingPlaces
  <2> HIDE DEF nth
  <2>3. ASSUME NEW k \in AgentPlaces(i)
        PROVE  \E n \in 1..Cardinality(AgentPlaces(i)) : nth(i, n) = k
    <3>1. PICK n \in 1..Cardinality(AgentPlaces(i)) : n = Cardinality(UpTo(AgentPlaces(i), k))
      BY <2>1, PlacesFit
    <3>2. PICK m \in AgentPlaces(i) : m = nth(i, n) /\ Cardinality(UpTo(AgentPlaces(i), m)) = n
      BY <2>2
    <3>3. m = k
      BY <2>1, <3>1, <3>2, PlacesDiffer
    <3>4. QED BY <3>2, <3>3
  <2>4. QED BY <2>2, <2>3
<1>5. \A c : c \in revealed <=> \E i \in DOMAIN turns : \E k \in AgentPlaces(i) : found(i, k) = c
  BY DEF AgentPlaces, PlayInv, GameInv, RecordInv, BoardRebuildsFromReveals, AllReveals, RevealsOf
<1>6. \A i, j \in DOMAIN turns : \A k \in AgentPlaces(i), l \in AgentPlaces(j) :
        found(i, k) = found(j, l) => i = j /\ k = l
  BY DEF AgentPlaces, FoundOnce
<1> HIDE DEF P, nth, found
<1>7. \A i \in DOMAIN turns : \A n \in 1..Cardinality(AgentPlaces(i)) :
        <<TurnRow(i), n>> \in P /\ g[<<TurnRow(i), n>>] = found(i, nth(i, n))
  BY <1>1, <1>3
<1>8. g \in [P -> revealed]
  <2>1. DOMAIN g = P /\ g = [x \in P |-> g[x]]
    OBVIOUS
  <2> HIDE DEF g
  <2>2. ASSUME NEW x \in P PROVE g[x] \in revealed
    <3>1. PICK i \in DOMAIN turns : \E n \in 1..Cardinality(AgentPlaces(i)) : x = <<TurnRow(i), n>>
      BY <1>3
    <3>2. PICK n \in 1..Cardinality(AgentPlaces(i)) : x = <<TurnRow(i), n>>
      BY <3>1
    <3>3. QED BY <1>4, <1>5, <1>7, <3>2
  <2>3. QED BY <2>1, <2>2
<1> HIDE DEF g
<1>9. ASSUME NEW x \in P, NEW y \in P, g[x] = g[y] PROVE x = y
  <2>1. PICK i \in DOMAIN turns : \E n \in 1..Cardinality(AgentPlaces(i)) : x = <<TurnRow(i), n>>
    BY <1>3
  <2>2. PICK n \in 1..Cardinality(AgentPlaces(i)) : x = <<TurnRow(i), n>>
    BY <2>1
  <2>3. PICK j \in DOMAIN turns : \E m \in 1..Cardinality(AgentPlaces(j)) : y = <<TurnRow(j), m>>
    BY <1>3
  <2>4. PICK m \in 1..Cardinality(AgentPlaces(j)) : y = <<TurnRow(j), m>>
    BY <2>3
  <2>5. found(i, nth(i, n)) = found(j, nth(j, m))
    BY <1>7, <1>9, <2>2, <2>4
  <2>6. i = j /\ nth(i, n) = nth(j, m)
    BY <1>4, <1>6, <2>5
  <2>7. n = m
    BY <1>4, <2>6
  <2>8. QED BY <2>2, <2>4, <2>6, <2>7
<1>10. ASSUME NEW c \in revealed PROVE \E x \in P : g[x] = c
  <2>1. PICK i \in DOMAIN turns : \E k \in AgentPlaces(i) : found(i, k) = c
    BY <1>5
  <2>2. PICK k \in AgentPlaces(i) : found(i, k) = c
    BY <2>1
  <2>3. PICK n \in 1..Cardinality(AgentPlaces(i)) : nth(i, n) = k
    BY <1>4
  <2>4. QED BY <1>7, <2>2, <2>3
<1>11. g \in Injection(P, revealed) /\ g \in Surjection(P, revealed)
  BY <1>8, <1>9, <1>10 DEF Injection, IsInjective, Surjection
<1>12. IsFiniteSet(revealed)
  BY CardsAssumption, FS_Subset DEF PlayInv, GameInv, EngineInv, PhaseInv, TypeOK
<1>13. Cardinality(P) = Cardinality(revealed)
  BY <1>11, <1>12, FS_Injection
<1>14. QED BY <1>13 DEF P

\* In every game stored complete, what the skill metrics count is what was played
\* (skill_metrics: PA, EP, the agents found): every card turned over has its one
\* item, of the seat that touched it and of its word, the items played in normal
\* turns are as many as the cards, the agents credited are the covered words, and
\* a win left nothing to find.
THEOREM SkillRead == RowsSpec => []SkillIsReadRight
<1>1. ReadInv => SkillIsReadRight
  <2> SUFFICES ASSUME PlayInv, FoundOnce, IsCompleted PROVE SkillIsReadRight
    BY DEF ReadInv, EndInv, SkillIsReadRight
  <2>1. IsStored /\ RowInv /\ row.turns = turns /\ row.result = result
    BY StoredTurns DEF IsCompleted, PlayInv, GameInv
  <2>2. ASSUME NEW r \in RevealRows
        PROVE  \E i \in PlayItemRows :
                 /\ i.linked = {r} /\ i.seat = r.reveal.seat /\ i.word = r.reveal.card
                 /\ \A j \in PlayItemRows : r \in j.linked => j = i
    BY <2>1, EveryRevealIsLinked
  <2>3. Cardinality(PlayedCards) = Cardinality({r \in RevealRows : r.phase = "normal"})
    <3> DEFINE R == {r \in RevealRows : r.phase = "normal"}
    <3>1. IsFiniteSet(R)
      BY <2>1, FiniteReveals, FS_Subset
    <3>2. \A r \in RevealRows : r.phase = turns[r.turn].phase
      <4>1. \A i, j : RevealRow(i, j).phase = turns[RevealRow(i, j).turn].phase
        BY DEF RevealRow
      <4>2. QED BY <2>1, <4>1, RowsOfReveals
    <3>3. \A y : y \in PlayedCards <=>
                   y \in PlayItemRows /\ y.linked # {} /\ turns[y.turn].phase = "normal"
      BY <2>1 DEF PlayedCards
    <3>4. ASSUME NEW r \in R PROVE \E i \in PlayedCards : i.linked = {r}
      <4>1. PICK i \in PlayItemRows : i.linked = {r} /\ i.turn = r.turn
        BY <2>1, EveryRevealIsLinked
      <4>2. QED BY <3>2, <3>3, <4>1
    <3>5. ASSUME NEW i \in PlayedCards PROVE \E r \in R : i.linked = {r}
      <4>1. PICK r \in RevealRows : i.linked = {r} /\ i.turn = r.turn
        BY <2>1, <3>3, EveryLinkIsAReveal
      <4>2. QED BY <3>2, <3>3, <4>1
    <3>6. ASSUME NEW i \in PlayedCards, NEW j \in PlayedCards, i.linked = j.linked PROVE i = j
      <4>1. PICK r \in R : i.linked = {r}
        BY <3>5
      <4>2. r \in i.linked /\ r \in j.linked /\ i \in PlayItemRows /\ j \in PlayItemRows
        BY <3>3, <3>6, <4>1
      <4>3. QED BY <2>2, <4>2
    <3> HIDE DEF R
    <3>7. Cardinality(PlayedCards) = Cardinality(R)
      BY <3>1, <3>4, <3>5, <3>6, MatchedCount
    <3>8. QED BY <3>7 DEF R
  <2>4. revealed = {r.reveal.card : r \in {x \in RevealRows : x.reveal.role = Agent}}
    <3>1. \A c : c \in revealed <=>
                   \E i \in DOMAIN turns : \E k \in DOMAIN turns[i].reveals :
                     turns[i].reveals[k].role = Agent /\ turns[i].reveals[k].card = c
      BY DEF PlayInv, GameInv, RecordInv, BoardRebuildsFromReveals, AllReveals, RevealsOf
    <3>2. \A i, k : RevealRow(i, k).reveal = turns[i].reveals[k]
      BY DEF RevealRow
    <3>3. QED BY <2>1, <3>1, <3>2, RowsOfReveals
  <2>5. Cardinality(revealed) =
          Cardinality({x \in TurnRows \X (1..Cardinality(Cards)) : x[2] <= AgentsRevealed(x[1])})
    BY <2>1, CreditedAgents
  <2>6. IsWin <=> ~AnyPendingWords
    BY <2>1 DEF IsWin, PlayInv, GameInv, EngineInv, WonIffAllFound
  <2>7. QED BY <2>2, <2>3, <2>4, <2>5, <2>6 DEF SkillIsReadRight
<1>2. QED BY <1>1, ReadInvariant, PTL

=============================================================================
