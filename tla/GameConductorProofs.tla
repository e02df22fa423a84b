------------------------ MODULE GameConductorProofs ------------------------
(***************************************************************************)
(* Proofs about GameConductor, for every board, reserve, cap and set of    *)
(* proposals: the driver plays the engine, so what DuetEngineProofs shows  *)
(* of the engine holds of every game; the guard finds nothing; the game's  *)
(* row is final and whole; a game needs few dispatches, so the cap of the  *)
(* runner never fires unless it is set below what a game can need; and a   *)
(* seat comes to its sudden-death play with its measurement armed and not  *)
(* yet taken.  Then what the recorder stores: the record of a game, at     *)
(* every moment, tells the game the engine is playing.                     *)
(***************************************************************************)
EXTENDS GameConductor, DuetEngineProofs, SequenceTheorems

-----------------------------------------------------------------------------
(***************************************************************************)
(* The driver plays the engine                                             *)
(***************************************************************************)

\* What the acting seat is; only seats act.
LEMMA ActingIsASeat == TypeOK => Acting \in Seats
BY DEF TypeOK, Acting, Seats

LEMMA RaiseKeepsTheGame == ASSUME NEW why, Raise(why) PROVE UNCHANGED vars
BY DEF Raise

\* Every step of a game is a step of the engine or leaves it alone.
LEMMA GameStepIsEngineStep ==
  ASSUME TypeOK, [GameNext]_gameVars
  PROVE  [Next]_vars
<1>1. Acting \in Seats
  BY ActingIsASeat
<1>2. clueGiver \in Seats
  BY DEF TypeOK
<1>3. ASSUME NEW word \in ClueWords, ConductClue(word) PROVE [Next]_vars
  BY <1>2, <1>3 DEF ConductClue, Next
<1>4. ASSUME NEW words \in Proposals, ProposeGuess(words) \/ ProposeGuessSD(words)
      PROVE  [Next]_vars
  BY <1>4 DEF ProposeGuess, ProposeGuessSD
<1>5. CASE MeasureNormal
  BY <1>5 DEF MeasureNormal, Next
<1>6. CASE EnterSuddenDeath
  BY <1>6 DEF EnterSuddenDeath
<1>7. CASE MeasureSuddenDeath
  BY <1>1, <1>7 DEF MeasureSuddenDeath, Next
<1>8. CASE ModelCallFails
  BY <1>8, RaiseKeepsTheGame DEF ModelCallFails
<1>9. CASE SkipWord
  BY <1>9 DEF SkipWord
<1>10. CASE PlayWord
  BY <1>1, <1>10 DEF PlayWord, Next
<1>11. CASE StopGuessing
  BY <1>1, <1>11 DEF StopGuessing, Next
<1>12. CASE NothingPlayable
  BY <1>12, RaiseKeepsTheGame DEF NothingPlayable
<1>13. CASE Concede
  BY <1>1, <1>13 DEF Concede, Next
<1>14. CASE TooManyDispatches
  BY <1>14, RaiseKeepsTheGame DEF TooManyDispatches
<1>15. CASE FlushCommits \/ FlushFails \/ ErrorFlush
  BY <1>15 DEF FlushCommits, FlushFails, ErrorFlush
<1>16. CASE UNCHANGED gameVars
  BY <1>16 DEF gameVars
<1>17. QED
  BY <1>3, <1>4, <1>5, <1>6, <1>7, <1>8, <1>9, <1>10, <1>11, <1>12, <1>13, <1>14,
     <1>15, <1>16 DEF GameNext

\* Every game the runner plays is a game of the engine: the conductors make no
\* call the engine would refuse, whatever the models propose.
THEOREM ConductorPlaysTheEngine == GameSpec => PlaysTheEngine
<1>1. GameInit => Init
  BY DEF GameInit
<1>2. Init => TypeOK
  BY InitType
<1>3. GameSpec => []TypeOK
  BY <1>1, <1>2, TypeOKStep, GameStepIsEngineStep, PTL DEF GameSpec
<1>4. QED
  BY <1>1, <1>3, GameStepIsEngineStep, PTL DEF GameSpec, PlaysTheEngine, Spec

\* The strict invariant guard never ends a game: wherever the runner looks, it
\* finds nothing to report.
THEOREM GuardNeverEndsAGame == GameSpec => []GuardFindsNothing
BY ConductorPlaysTheEngine, GuardCorrect, PTL DEF PlaysTheEngine

-----------------------------------------------------------------------------
(***************************************************************************)
(* The row of the game                                                     *)
(***************************************************************************)

\* The strengthening: while the game runs it has no row and no latch; it comes
\* to its flush with a result; a row, once there, is of the game as it stands,
\* and the latch is up over a completed row only after that row's own commit.
RowInv ==
  /\ at \in Places
  /\ row = NoRow \/ \E status \in {"completed", "error"} : row = RowOf(status)
  /\ at \notin {"error", "done"} => row = NoRow /\ failure = "none"
  /\ at # "done" => ~flushed /\ report = "none"
  /\ at = "flush" => result # NoResult
  /\ row.status = "completed" => result # NoResult
  /\ at = "error" /\ row # NoRow => failure = "persist" /\ row.status = "completed"
  /\ failure = "persist" => result # NoResult
  /\ report = "completed" <=> at = "done" /\ flushed /\ row.status = "completed"
  /\ report = "error" /\ row.status = "completed" => failure = "persist"

LEMMA StatusOfRow ==
  /\ NoRow.status = "none"
  /\ \A status : RowOf(status).status = status
  /\ \A status \in {"completed", "error"} : RowOf(status) # NoRow
<1>1. NoRow.status = "none" /\ \A status : RowOf(status).status = status
  BY DEF NoRow, RowOf
<1>2. QED BY <1>1

\* A step before the end leaves the store alone; it comes to the flush only
\* with the game over.
LEMMA RunningStep ==
  ASSUME RowInv, at \notin {"flush", "error", "done"}, at' # "done",
         UNCHANGED storeVars, at' \in Places, failure' # "persist",
         at' # "error" => failure' = "none", at' = "flush" => result' # NoResult
  PROVE  RowInv'
BY StatusOfRow DEF RowInv, storeVars, RowOf, NoRow

LEMMA RowStep ==
  ASSUME RowInv, WonIffAllFound', [GameNext]_gameVars
  PROVE  RowInv'
<1> DEFINE Running == at \notin {"flush", "error", "done"}
<1>1. phase' = GameOver => result' # NoResult
  BY DEF WonIffAllFound, IsGameOver
<1>2. ASSUME Running, at' \in {"dispatch", "measure", "propose_sd", "resolve"},
             UNCHANGED <<failure, storeVars>>
      PROVE  RowInv'
  BY <1>2, RunningStep DEF RowInv, Places
<1>3. ASSUME Running, NEW why \in {"model_call", "no_playable_card", "too_many_dispatches"},
             Raise(why)
      PROVE  RowInv'
  BY <1>3, RunningStep DEF Raise, Places
<1>4. ASSUME NEW word \in ClueWords, ConductClue(word) PROVE RowInv'
  BY <1>2, <1>4 DEF ConductClue, Dispatch
<1>5. ASSUME NEW words \in Proposals, ProposeGuess(words) \/ ProposeGuessSD(words)
      PROVE  RowInv'
  BY <1>2, <1>5 DEF ProposeGuess, ProposeGuessSD, Dispatch
<1>6. CASE MeasureNormal \/ EnterSuddenDeath \/ MeasureSuddenDeath
  BY <1>2, <1>6 DEF MeasureNormal, EnterSuddenDeath, MeasureSuddenDeath, Dispatch
<1>7. CASE SkipWord \/ StopGuessing
  BY <1>2, <1>7 DEF SkipWord, StopGuessing, RunOut
<1>8. CASE ModelCallFails \/ NothingPlayable \/ TooManyDispatches
  BY <1>3, <1>8 DEF ModelCallFails, NothingPlayable, TooManyDispatches, Dispatch, RunOut
<1>9. CASE PlayWord
  <2>1. Running /\ UNCHANGED <<failure, storeVars>>
    BY <1>9 DEF PlayWord
  <2>2. PICK str : at' = LoopAfter(str)
    BY <1>9 DEF PlayWord
  <2>3. at' \in {"dispatch", "resolve"} \/ (at' = "flush" /\ phase' = GameOver)
    BY <2>2 DEF LoopAfter, After
  <2>4. QED BY <1>1, <2>1, <2>3, RunningStep DEF RowInv, Places
<1>10. CASE Concede
  <2>1. result' # NoResult
    BY <1>1, <1>10 DEF Concede, ConcedeSuddenDeath, FinishGame
  <2>2. QED BY <1>10, <2>1, RunningStep DEF Concede, RunOut, RowInv, Places
<1>11. CASE FlushCommits
  <2>1. row' = RowOf("completed")'
    BY <1>11 DEF FlushCommits, RowOf, recordVars, vars, tokenVars
  <2>2. result' = result
    BY <1>11 DEF FlushCommits, vars
  <2>3. QED BY <1>11, <2>1, <2>2, StatusOfRow DEF FlushCommits, RowInv, Places, RowOf
<1>12. CASE FlushFails
  <2>1. row' \in {NoRow, RowOf("completed")'}
    BY <1>12 DEF FlushFails, RowOf, recordVars, vars, tokenVars
  <2>2. result' = result
    BY <1>12 DEF FlushFails, vars
  <2>3. QED BY <1>12, <2>1, <2>2, StatusOfRow DEF FlushFails, RowInv, Places, RowOf
<1>13. CASE ErrorFlush
  <2>1. \A status : RowOf(status)' = RowOf(status)
    BY <1>13 DEF ErrorFlush, RowOf, recordVars, vars, tokenVars
  <2>2. result' = result /\ failure' = failure /\ at = "error" /\ at' = "done"
          /\ report' = "error" /\ ~flushed
    BY <1>13 DEF ErrorFlush, RowInv, vars
  <2>3. CASE row = NoRow /\ row' = RowOf("error")
    BY <2>1, <2>2, <2>3, StatusOfRow DEF RowInv, Places, RowOf
  <2>4. CASE row' = row /\ flushed' = flushed
    BY <2>1, <2>2, <2>4, StatusOfRow DEF RowInv, Places, RowOf
  <2>5. QED BY <1>13, <2>3, <2>4 DEF ErrorFlush
<1>14. CASE UNCHANGED gameVars
  <2>1. \A status : RowOf(status)' = RowOf(status)
    BY <1>14 DEF gameVars, RowOf, recordVars, vars, tokenVars
  <2>2. UNCHANGED <<at, failure, flushed, row, report, result>>
    BY <1>14 DEF gameVars, driverVars, storeVars, vars
  <2>3. QED BY <2>1, <2>2 DEF RowInv, RowOf
<1>15. QED
  BY <1>4, <1>5, <1>6, <1>7, <1>8, <1>9, <1>10, <1>11, <1>12, <1>13, <1>14 DEF GameNext

LEMMA RowInvariant == GameSpec => []RowInv
<1>1. GameInit => RowInv
  BY StatusOfRow DEF GameInit, RowInv, Places
<1>2. GameSpec => []WonIffAllFound
  BY ConductorPlaysTheEngine, ResultCorrect, PTL DEF PlaysTheEngine
<1>3. QED BY <1>1, <1>2, RowStep, PTL DEF GameSpec

\* A row stored as completed is the whole finished game, no row is a mixture,
\* completion is reported exactly when its own commit was acknowledged, and an
\* error over a completed row means that the answer to the commit was lost.
THEOREM CompletedRowCorrect == GameSpec => []CompletedRowIsTheGame
<1>1. RowInv => CompletedRowIsTheGame
  BY StatusOfRow DEF RowInv, CompletedRowIsTheGame, RowOf, NoRow
<1>2. QED BY <1>1, RowInvariant, PTL

\* The row of a game is written once: no later flush, of the boundary or of the
\* driver, ever changes it.
THEOREM RowWrittenOnce == GameSpec => RowIsFinal
<1>1. RowInv /\ [GameNext]_gameVars => [row # NoRow => row' = row]_gameVars
  <2> SUFFICES ASSUME RowInv, GameNext, row # NoRow PROVE row' = row
    BY DEF gameVars
  <2>1. at \in {"error", "done"}
    BY DEF RowInv
  <2>2. ErrorFlush
    BY <2>1 DEF GameNext, ConductClue, ProposeGuess, ProposeGuessSD, MeasureNormal,
                EnterSuddenDeath, MeasureSuddenDeath, ModelCallFails, SkipWord, PlayWord,
                StopGuessing, NothingPlayable, Concede, TooManyDispatches, FlushCommits,
                FlushFails, Dispatch, RunOut
  <2>3. QED BY <2>2 DEF ErrorFlush
<1>2. QED BY <1>1, RowInvariant, PTL DEF GameSpec, RowIsFinal

-----------------------------------------------------------------------------
(***************************************************************************)
(* What the engine's methods do to the phase, the reserve and the flag     *)
(***************************************************************************)

\* A turn is over: a token is gone, and the next turn is a clue or a
\* sudden-death play whose measurement is armed.
TurnIsOver ==
  /\ phase' \in {GivingClue} \cup SDPhases
  /\ phase' \in SDPhases => sdPending'
  /\ timer' = timer - 1
  /\ UNCHANGED <<sdRanked, result>>

LEMMA SwitchEndsTurn ==
  ASSUME NEW pile, NEW live, Spend(pile), SwitchRoles(live)
  PROVE  TurnIsOver
BY DEF Spend, SwitchRoles, TurnIsOver, SDPhases, GivingClue, SDLlm, SDHuman

\* A clue opens the guessing, at the price of a token if it is invalid, or ends
\* the turn.
LEMMA ClueMoves ==
  ASSUME PhaseInv, NEW p, NEW word, ReceiveClue(p, word)
  PROVE  \/ /\ phase' = Guessing
            /\ timer' \in {timer, timer - 1}
            /\ UNCHANGED <<sdRanked, sdPending, result>>
         \/ TurnIsOver
<1>1. CASE OpenGuessing(ClueEntry(p, word)) /\ UNCHANGED tokenVars
  BY <1>1 DEF OpenGuessing, tokenVars, measureVars
<1>2. CASE OpenGuessing(ClueEntry(p, word)) /\ Spend("penalty")
  BY <1>2 DEF OpenGuessing, Spend, measureVars
<1>3. CASE Spend("penalty") /\ SwitchRoles(ClueEntry(p, word))
  BY <1>3, SwitchEndsTurn
<1>4. QED BY <1>1, <1>2, <1>3 DEF ReceiveClue

\* A guess ends the game, ends the turn, hands the board to seat 1 in sudden
\* death, or leaves the guesser where it was; what resolve_guess returns tells
\* the loop over the proposal which.
LEMMA GuessMoves ==
  ASSUME TypeOK, TypeOK', PhaseInv, NEW p \in Seats, NEW c \in Cards, ResolveGuess(p, c),
         NEW str, str = Returned(Side[Other(p)][c])
  PROVE  /\ sdRanked' = sdRanked
         /\ \/ phase' = GameOver /\ str # Agent
            \/ phase = Guessing /\ TurnIsOver /\ str # Agent
            \/ /\ phase = SDLlm /\ phase' = SDHuman
               /\ sdPending' /\ UNCHANGED <<timer, result>>
            \/ /\ phase' = phase /\ str = Agent
               /\ UNCHANGED <<timer, sdPending, result>>
<1> DEFINE role == Side[Other(p)][c]
<1>1. GameOver \notin SDPhases /\ Guessing \notin SDPhases /\ GameOver # Guessing
        /\ GivingClue # Guessing /\ GivingClue # GameOver /\ GivingClue \notin SDPhases
        /\ SDLlm # SDHuman
  BY PhasesDistinct DEF SDPhases
<1>2. phase \in {Guessing} \cup SDPhases /\ Agent \notin Results
        /\ Agent # Assassin /\ Agent # Civilian /\ Agent # "agent_turn_end"
  BY RolesDistinct DEF ResolveGuess, MayGuess, SDPhase, SDPhases, Results, Agent, Seats
<1>3. result' \in Results \cup {NoResult}
  BY DEF TypeOK
<1>4. CASE RevealAgent(p, c) /\ role = Agent
  <2>1. CASE WinAfterReveal
    <3>1. phase' = GameOver /\ result' \in Results /\ sdRanked' = sdRanked
      BY <2>1 DEF WinAfterReveal, FinishGame, measureVars, Results
    <3>2. str = result'
      BY <1>4, <3>1 DEF Returned
    <3>3. QED BY <1>2, <3>1, <3>2
  <2>2. CASE TurnEndsOnLastWord(p)
    <3>1. TurnIsOver /\ phase = Guessing
      BY <2>2, SwitchEndsTurn DEF TurnEndsOnLastWord, StopTurn
    <3>2. str = "agent_turn_end"
      BY <1>1, <1>4, <3>1 DEF Returned, TurnIsOver
    <3>3. QED BY <1>2, <3>1, <3>2 DEF TurnIsOver
  <2>3. CASE HandOffSuddenDeath
    <3>1. pending'[1] > 0
      BY <2>3, <1>4 DEF HandOffSuddenDeath, AnyPendingWords, Seats
    <3>2. QED BY <2>3, <3>1 DEF HandOffSuddenDeath, tokenVars
  <2>4. CASE KeepGuessing(p)
    <3>1. phase' = phase /\ UNCHANGED <<timer, sdPending, sdRanked, result>>
      BY <2>4 DEF KeepGuessing, tokenVars, measureVars
    <3>2. str = Agent
      BY <1>1, <1>2, <1>4, <3>1 DEF Returned
    <3>3. QED BY <3>1, <3>2
  <2>5. QED BY <1>4, <2>1, <2>2, <2>3, <2>4 DEF RevealAgent
<1>5. CASE TouchAssassin /\ role = Assassin /\ phase = Guessing
  <2>1. str = Assassin
    BY <1>2, <1>5 DEF Returned
  <2>2. QED BY <1>2, <1>5, <2>1 DEF TouchAssassin, FinishGame, measureVars
<1>6. CASE TouchBystander(c) /\ role = Civilian /\ phase = Guessing
  <2>1. str = Civilian
    BY <1>2, <1>6 DEF Returned
  <2>2. TurnIsOver
    BY <1>6, SwitchEndsTurn DEF TouchBystander
  <2>3. QED BY <1>2, <1>6, <2>1, <2>2 DEF TurnIsOver
<1>7. CASE MissInSuddenDeath(role) /\ role # Agent /\ phase \in SDPhases
  <2>1. phase' = GameOver /\ result' \in Results /\ sdRanked' = sdRanked
    BY <1>7 DEF MissInSuddenDeath, FinishGame, measureVars, Results
  <2>2. str = result'
    BY <1>1, <1>7, <2>1 DEF Returned
  <2>3. QED BY <1>2, <2>1, <2>2
<1>8. QED BY <1>4, <1>5, <1>6, <1>7 DEF ResolveGuess

-----------------------------------------------------------------------------
(***************************************************************************)
(* The invariant of the driver                                             *)
(***************************************************************************)

Running == {"dispatch", "measure", "propose_sd", "resolve"}

\* Where the game can stand in each phase.
PlaceInv ==
  /\ at \in Running => phase # GameOver
  /\ phase = GivingClue => at \notin {"measure", "propose_sd", "resolve"}
  /\ phase = Guessing => at # "propose_sd"

\* Two dispatches are paid with every token, and a dispatch in hand with the
\* token its turn is about to cost.
PaidInv ==
  /\ dispatches \in Nat
  /\ phase = GivingClue /\ at = "dispatch" => dispatches <= 2 * (Tokens - timer)
  /\ phase = Guessing /\ at = "dispatch" => dispatches <= 2 * (Tokens - timer) + 1
  /\ phase = Guessing => dispatches <= 2 * (Tokens - timer) + 2
  /\ phase = SDLlm /\ at = "dispatch" => dispatches <= 2 * Tokens
  /\ phase = SDLlm => dispatches <= 2 * Tokens + 1
  /\ phase = SDHuman /\ at = "dispatch" => dispatches <= 2 * Tokens + 1
  /\ dispatches <= 2 * Tokens + 2

\* Only the seats that have come to their play are measured.
MeasureInv ==
  /\ phase \in {GivingClue, Guessing} => sdRanked = {}
  /\ phase = SDLlm => sdRanked \subseteq {0}
  /\ at = "dispatch" /\ phase \in SDPhases => sdPending /\ Acting \notin sdRanked

DriverInv == PlaceInv /\ PaidInv /\ MeasureInv

\* What is known of the engine on both sides of a step.
EngineInv == PhaseInv /\ WonIffAllFound

LEMMA EngineInvariant == GameSpec => []EngineInv
BY ConductorPlaysTheEngine, PhaseInvariant, ResultCorrect, PTL DEF PlaysTheEngine, EngineInv

\* The reserve lies between nothing and what the game started with.
LEMMA Reserve ==
  ASSUME EngineInv
  PROVE  timer \in Nat /\ timer <= Tokens /\ Tokens \in Nat
         /\ (phase \in SDPhases => timer = 0)
<1>1. spent \in [Piles -> Nat] /\ timer \in Int
  BY DEF EngineInv, PhaseInv, TypeOK
<1>2. spent["bystander"] \in Nat /\ spent["check"] \in Nat /\ spent["penalty"] \in Nat
  BY <1>1 DEF Piles
<1>3. QED
  BY <1>1, <1>2, CountAssumption DEF EngineInv, PhaseInv, TokensAddUp, PhaseFitsTheBoard

LEMMA ReserveNext ==
  ASSUME EngineInv'
  PROVE  timer' \in Nat /\ (phase' \in SDPhases => timer' = 0)
BY DEF EngineInv, PhaseInv, TypeOK, TokensAddUp, PhaseFitsTheBoard

LEMMA Paid ==
  ASSUME NEW d \in Nat, NEW n \in Nat, NEW left \in Nat, d <= 2 * (n - left)
  PROVE  d <= 2 * n
OBVIOUS

\* A turn that is over leaves the driver at its loop with the turn paid for.
LEMMA TurnOverKeeps ==
  ASSUME EngineInv, EngineInv', DriverInv, phase \in {GivingClue, Guessing},
         TurnIsOver, at' = "dispatch",
         \/ UNCHANGED dispatches /\ phase = Guessing
         \/ dispatches' = dispatches + 1 /\ phase = GivingClue /\ at = "dispatch"
  PROVE  DriverInv'
<1>1. timer \in Nat /\ timer <= Tokens /\ timer' \in Nat /\ Tokens \in Nat
      /\ (phase' \in SDPhases => timer' = 0)
  BY Reserve, ReserveNext
<1>2. dispatches' \in Nat /\ dispatches' <= 2 * (Tokens - timer')
  BY <1>1 DEF DriverInv, PaidInv, TurnIsOver
<1>3. phase' \in {GivingClue, SDLlm, SDHuman} /\ phase' # GameOver /\ phase' # Guessing
  BY PhasesDistinct DEF TurnIsOver, SDPhases
<1>4. PlaceInv'
  BY <1>3 DEF PlaceInv
<1>5. PaidInv'
  <2>1. dispatches' <= 2 * Tokens
    BY <1>1, <1>2, Paid
  <2>2. dispatches' <= 2 * Tokens + 1 /\ dispatches' <= 2 * Tokens + 2
    BY <1>1, <1>2, <2>1
  <2>3. QED BY <1>2, <1>3, <2>1, <2>2 DEF PaidInv
<1>6. sdRanked' = {} /\ (phase' \in SDPhases => sdPending')
  BY PhasesDistinct DEF TurnIsOver, DriverInv, MeasureInv
<1>7. QED BY <1>4, <1>5, <1>6 DEF DriverInv, MeasureInv

\* A step that leaves the engine and the count alone, and does not come back to
\* the loop.
LEMMA DriverFrame ==
  ASSUME DriverInv, UNCHANGED <<phase, guesser, timer, sdPending, sdRanked, dispatches>>,
         at' # "dispatch" \/ at' = at, PlaceInv'
  PROVE  DriverInv'
<1>1. PaidInv'
  BY DEF DriverInv, PaidInv
<1>2. MeasureInv'
  BY DEF DriverInv, MeasureInv, Acting
<1>3. QED BY <1>1, <1>2 DEF DriverInv

\* The game is over.
LEMMA OverKeeps ==
  ASSUME DriverInv, phase' = GameOver, at' \notin Running, UNCHANGED dispatches
  PROVE  DriverInv'
<1>1. PlaceInv' /\ PaidInv' /\ MeasureInv'
  BY PhasesDistinct DEF DriverInv, PlaceInv, PaidInv, MeasureInv, SDPhases, Running
<1>2. QED BY <1>1 DEF DriverInv

LEMMA DriverStep ==
  ASSUME EngineInv, EngineInv', DriverInv, [GameNext]_gameVars
  PROVE  DriverInv'
<1> USE PhasesDistinct
<1>1. timer \in Nat /\ timer <= Tokens /\ Tokens \in Nat /\ timer' \in Nat
      /\ (phase \in SDPhases => timer = 0)
  BY Reserve, ReserveNext
<1>2. dispatches \in Nat
  BY DEF DriverInv, PaidInv
<1>3. TypeOK /\ TypeOK' /\ PhaseInv
  BY DEF EngineInv, PhaseInv
<1>4. ASSUME NEW word \in ClueWords, ConductClue(word) PROVE DriverInv'
  <2>1. /\ phase = GivingClue /\ at = "dispatch" /\ at' = "dispatch"
        /\ dispatches' = dispatches + 1
    BY <1>4 DEF ConductClue, Dispatch
  <2>2. CASE TurnIsOver
    BY <2>1, <2>2, TurnOverKeeps
  <2>3. CASE /\ phase' = Guessing
             /\ timer' \in {timer, timer - 1}
             /\ UNCHANGED <<sdRanked, sdPending, result>>
    <3>1. dispatches' \in Nat /\ dispatches <= 2 * (Tokens - timer)
      BY <1>2, <2>1 DEF DriverInv, PaidInv
    <3>2. dispatches' <= 2 * (Tokens - timer') + 1
      BY <1>1, <1>2, <2>1, <2>3, <3>1
    <3>3. PaidInv'
      BY <1>1, <2>1, <2>3, <3>1, <3>2 DEF PaidInv, SDPhases
    <3>4. PlaceInv' /\ MeasureInv'
      BY <2>1, <2>3 DEF DriverInv, PlaceInv, MeasureInv, SDPhases
    <3>5. QED BY <3>3, <3>4 DEF DriverInv
  <2>4. QED BY <1>3, <1>4, <2>2, <2>3, ClueMoves DEF ConductClue
<1>5. ASSUME NEW words \in Proposals, ProposeGuess(words) PROVE DriverInv'
  <2>1. /\ phase = Guessing /\ at = "dispatch" /\ at' = "measure"
        /\ dispatches' = dispatches + 1
        /\ UNCHANGED <<phase, timer, sdPending, sdRanked>>
    BY <1>5 DEF ProposeGuess, Dispatch, vars, tokenVars, measureVars
  <2>2. PaidInv'
    BY <1>1, <1>2, <2>1 DEF DriverInv, PaidInv, SDPhases
  <2>3. PlaceInv' /\ MeasureInv'
    BY <2>1 DEF DriverInv, PlaceInv, MeasureInv
  <2>4. QED BY <2>2, <2>3 DEF DriverInv
<1>6. ASSUME NEW words \in Proposals, ProposeGuessSD(words) PROVE DriverInv'
  <2>1. /\ at = "propose_sd" /\ at' = "resolve"
        /\ UNCHANGED <<phase, guesser, timer, sdPending, sdRanked, dispatches>>
    BY <1>6 DEF ProposeGuessSD, vars, tokenVars, roleVars, measureVars
  <2>2. PlaceInv'
    BY <2>1 DEF DriverInv, PlaceInv, Running
  <2>3. QED BY <2>1, <2>2, DriverFrame
<1>7. CASE MeasureNormal
  <2>1. /\ at = "measure" /\ phase = Guessing /\ at' = "resolve"
        /\ UNCHANGED <<phase, guesser, timer, sdPending, sdRanked, dispatches>>
    BY <1>7 DEF MeasureNormal, AttachConfidenceRanking, vars, tokenVars, roleVars, measureVars
  <2>2. PlaceInv'
    BY <2>1 DEF DriverInv, PlaceInv, Running
  <2>3. QED BY <2>1, <2>2, DriverFrame
<1>8. CASE EnterSuddenDeath
  <2>1. /\ phase \in SDPhases /\ at = "dispatch" /\ at' \in {"measure", "propose_sd"}
        /\ dispatches' = dispatches + 1
        /\ UNCHANGED <<phase, timer, sdPending, sdRanked>>
    BY <1>8 DEF EnterSuddenDeath, Dispatch, vars, tokenVars, measureVars
  <2>2. PaidInv'
    BY <1>1, <1>2, <2>1 DEF DriverInv, PaidInv, SDPhases
  <2>3. PlaceInv' /\ MeasureInv'
    BY <2>1 DEF DriverInv, PlaceInv, MeasureInv
  <2>4. QED BY <2>2, <2>3 DEF DriverInv
<1>9. CASE MeasureSuddenDeath
  <2>1. /\ at = "measure" /\ phase \in SDPhases /\ at' = "propose_sd"
        /\ UNCHANGED <<phase, timer, dispatches>>
        /\ sdRanked' \in {sdRanked, sdRanked \cup {Acting}}
    BY <1>9 DEF MeasureSuddenDeath, AttachSuddenDeathRanking, vars, tokenVars, measureVars
  <2>2. phase = SDLlm => Acting = 0
    BY DEF Acting
  <2>3. PaidInv'
    BY <2>1 DEF DriverInv, PaidInv
  <2>4. PlaceInv' /\ MeasureInv'
    BY <2>1, <2>2 DEF DriverInv, PlaceInv, MeasureInv, SDPhases
  <2>5. QED BY <2>3, <2>4 DEF DriverInv
<1>10. ASSUME NEW why, Raise(why), at \in Running,
              \/ UNCHANGED dispatches
              \/ dispatches' = dispatches + 1 /\ at = "dispatch"
       PROVE  DriverInv'
  <2>1. at' = "error" /\ phase' = phase /\ timer' = timer /\ sdRanked' = sdRanked
        /\ phase # GameOver
    BY <1>10 DEF Raise, vars, tokenVars, measureVars, DriverInv, PlaceInv
  <2>2. phase \in {GivingClue, Guessing, SDLlm, SDHuman}
    BY <1>3, <2>1 DEF TypeOK, Phases
  <2>3. PaidInv'
    BY <1>1, <1>2, <1>10, <2>1, <2>2 DEF DriverInv, PaidInv
  <2>4. PlaceInv' /\ MeasureInv'
    BY <2>1 DEF DriverInv, PlaceInv, MeasureInv, Running
  <2>5. QED BY <2>3, <2>4 DEF DriverInv
<1>11. CASE ModelCallFails \/ NothingPlayable \/ TooManyDispatches
  BY <1>10, <1>11
     DEF ModelCallFails, NothingPlayable, TooManyDispatches, Dispatch, RunOut, Running
<1>12. CASE SkipWord
  <2>1. at' = at /\ UNCHANGED <<phase, guesser, timer, sdPending, sdRanked, dispatches>>
    BY <1>12 DEF SkipWord, vars, tokenVars, roleVars, measureVars
  <2>2. QED BY <2>1, DriverFrame DEF DriverInv, PlaceInv
<1>13. CASE PlayWord
  <2>1. PICK c \in Cards :
          /\ ResolveGuess(Acting, c)
          /\ at' = LoopAfter(Returned(Side[Other(Acting)][c]))
    BY <1>13 DEF PlayWord
  <2>2. PICK str :
          /\ at = "resolve" /\ UNCHANGED dispatches
          /\ str = Returned(Side[Other(Acting)][c])
          /\ ResolveGuess(Acting, c)
          /\ at' = LoopAfter(str)
    BY <1>13, <2>1 DEF PlayWord
  <2>3. Acting \in Seats
    BY <1>3, ActingIsASeat
  <2>4. phase \in {Guessing} \cup SDPhases
    BY <2>2, <2>3 DEF ResolveGuess, MayGuess
  <2>5. CASE phase' = GameOver /\ str # Agent
    BY <2>2, <2>5, OverKeeps DEF LoopAfter, After, Running
  <2>6. CASE phase = Guessing /\ TurnIsOver /\ str # Agent
    <3>1. at' = "dispatch"
      BY <2>2, <2>6 DEF LoopAfter, After, TurnIsOver, SDPhases
    <3>2. QED BY <2>2, <2>6, <3>1, TurnOverKeeps
  <2>7. CASE /\ phase = SDLlm /\ phase' = SDHuman /\ sdRanked' = sdRanked
             /\ sdPending' /\ UNCHANGED <<timer, result>>
    <3>1. at' = "dispatch"
      BY <2>2, <2>7 DEF LoopAfter, After, SDPhases
    <3>2. Acting' = 1
      BY <2>7 DEF Acting
    <3>3. PaidInv'
      BY <1>2, <2>2, <2>7 DEF DriverInv, PaidInv, SDPhases
    <3>4. PlaceInv' /\ MeasureInv'
      BY <2>7, <3>1, <3>2 DEF DriverInv, PlaceInv, MeasureInv, SDPhases
    <3>5. QED BY <3>3, <3>4 DEF DriverInv
  <2>8. CASE /\ phase' = phase /\ str = Agent /\ sdRanked' = sdRanked
             /\ UNCHANGED <<timer, sdPending, result>>
    <3>1. at' = "resolve" /\ phase # GameOver
      BY <2>2, <2>4, <2>8 DEF LoopAfter, SDPhases
    <3>2. PaidInv' /\ PlaceInv' /\ MeasureInv'
      BY <2>2, <2>8, <3>1 DEF DriverInv, PaidInv, PlaceInv, MeasureInv
    <3>3. QED BY <3>2 DEF DriverInv
  <2>9. QED BY <1>3, <2>2, <2>5, <2>6, <2>7, <2>8, <2>3, GuessMoves
<1>14. CASE StopGuessing
  <2>1. phase = Guessing /\ UNCHANGED dispatches /\ at' = "dispatch"
    BY <1>14 DEF StopGuessing, RunOut
  <2>2. TurnIsOver
    BY <1>14, SwitchEndsTurn DEF StopGuessing, PassTurn, StopTurn
  <2>3. QED BY <2>1, <2>2, TurnOverKeeps
<1>15. CASE Concede
  BY <1>15, OverKeeps DEF Concede, ConcedeSuddenDeath, FinishGame, Running
<1>16. CASE FlushCommits \/ FlushFails \/ ErrorFlush
  <2>1. at' \in {"error", "done"}
        /\ UNCHANGED <<phase, guesser, timer, sdPending, sdRanked, dispatches>>
    BY <1>16 DEF FlushCommits, FlushFails, ErrorFlush, vars, tokenVars, roleVars, measureVars
  <2>2. PlaceInv'
    BY <2>1 DEF PlaceInv, Running
  <2>3. QED BY <2>1, <2>2, DriverFrame
<1>17. CASE UNCHANGED gameVars
  <2>1. at' = at /\ UNCHANGED <<phase, guesser, timer, sdPending, sdRanked, dispatches>>
    BY <1>17 DEF gameVars, driverVars, vars, tokenVars, roleVars, measureVars
  <2>2. QED BY <2>1, DriverFrame DEF DriverInv, PlaceInv
<1>18. QED
  BY <1>4, <1>5, <1>6, <1>7, <1>8, <1>9, <1>11, <1>12, <1>13, <1>14, <1>15, <1>16, <1>17
     DEF GameNext

LEMMA DriverInvariant == GameSpec => []DriverInv
<1>1. GameInit => DriverInv
  BY CountAssumption, PhasesDistinct
     DEF GameInit, Init, DriverInv, PlaceInv, PaidInv, MeasureInv, Running, SDPhases
<1>2. QED BY <1>1, EngineInvariant, DriverStep, PTL DEF GameSpec

-----------------------------------------------------------------------------
(***************************************************************************)
(* What follows                                                            *)
(***************************************************************************)

\* Each seat comes to its sudden-death play with the measurement armed and not
\* yet taken, whatever became of the other seat's.
THEOREM SuddenDeathAsked == GameSpec => []SuddenDeathSeatsAreAsked
<1>1. DriverInv => SuddenDeathSeatsAreAsked
  BY DEF DriverInv, MeasureInv, SuddenDeathSeatsAreAsked
<1>2. QED BY <1>1, DriverInvariant, PTL

\* A game needs no more dispatches than two for each token of the reserve and
\* one for each seat in sudden death, whatever the models propose.
THEOREM FewDispatches == GameSpec => []DispatchesAreFew
<1>1. DriverInv => DispatchesAreFew
  BY DEF DriverInv, PaidInv, DispatchesAreFew
<1>2. QED BY <1>1, DriverInvariant, PTL

\* A game that the cap stopped was still being played.
CapInv ==
  /\ dispatches \in Nat /\ dispatches <= MaxDispatches
  /\ failure = "too_many_dispatches" => result = NoResult

LEMMA CapStep ==
  ASSUME CapInv, DriverInv, EngineInv, RowInv, [GameNext]_gameVars
  PROVE  CapInv'
<1>1. CASE TooManyDispatches
  <2>1. phase # GameOver /\ UNCHANGED <<result, dispatches>>
    BY <1>1 DEF TooManyDispatches, Raise, DriverInv, PlaceInv, Running, vars
  <2>2. result = NoResult
    BY <2>1 DEF EngineInv, WonIffAllFound, IsGameOver
  <2>3. QED BY <2>1, <2>2 DEF CapInv
<1>2. ASSUME failure' # "too_many_dispatches", UNCHANGED dispatches \/ Dispatch
      PROVE  CapInv'
  BY <1>2, MaxDispatchesAssumption DEF CapInv, Dispatch
<1>3. ASSUME UNCHANGED <<failure, dispatches>>, at \in Running
      PROVE  CapInv'
  BY <1>2, <1>3 DEF RowInv, Running
<1>4. ASSUME NEW word \in ClueWords, ConductClue(word) PROVE CapInv'
  BY <1>2, <1>4 DEF ConductClue, Dispatch, RowInv
<1>5. ASSUME NEW words \in Proposals, ProposeGuess(words) PROVE CapInv'
  BY <1>2, <1>5 DEF ProposeGuess, Dispatch, RowInv
<1>6. CASE EnterSuddenDeath
  BY <1>2, <1>6 DEF EnterSuddenDeath, Dispatch, RowInv
<1>7. CASE ModelCallFails \/ NothingPlayable
  BY <1>2, <1>7 DEF ModelCallFails, NothingPlayable, Raise
<1>8. ASSUME NEW words \in Proposals, ProposeGuessSD(words) PROVE CapInv'
  BY <1>3, <1>8 DEF ProposeGuessSD, Running
<1>9. CASE MeasureNormal \/ MeasureSuddenDeath \/ SkipWord
  BY <1>3, <1>9 DEF MeasureNormal, MeasureSuddenDeath, SkipWord, Running
<1>10. CASE PlayWord \/ StopGuessing \/ Concede
  BY <1>3, <1>10 DEF PlayWord, StopGuessing, Concede, RunOut, Running
<1>11. CASE FlushFails
  BY <1>2, <1>11 DEF FlushFails
<1>12. CASE FlushCommits \/ ErrorFlush \/ UNCHANGED gameVars
  <2>1. UNCHANGED <<failure, dispatches, result>>
    BY <1>12 DEF FlushCommits, ErrorFlush, gameVars, driverVars, vars
  <2>2. QED BY <2>1 DEF CapInv
<1>13. QED
  BY <1>1, <1>4, <1>5, <1>6, <1>7, <1>8, <1>9, <1>10, <1>11, <1>12 DEF GameNext

\* The cap stops a game in time, and what it cut short has no result and is not
\* reported as completed.
THEOREM CapCorrect == GameSpec => []CapHolds
<1>1. GameInit => CapInv
  BY MaxDispatchesAssumption DEF GameInit, CapInv
<1>2. GameSpec => []CapInv
  BY <1>1, CapStep, DriverInvariant, EngineInvariant, RowInvariant, PTL DEF GameSpec
<1>3. CapInv /\ RowInv => CapHolds
  BY DEF CapInv, RowInv, CapHolds
<1>4. QED BY <1>2, <1>3, RowInvariant, PTL

\* With a cap above what a game can need (2000 against twice nine tokens and
\* one), the cap never stops a game: a game that reaches it is a defect of the
\* conductors, never a slow game.
THEOREM CapNeverFires ==
  ASSUME MaxDispatches > 2 * Tokens + 1
  PROVE  GameSpec => [](failure # "too_many_dispatches")
<1> DEFINE Uncapped == failure # "too_many_dispatches"
<1>1. GameInit => Uncapped
  BY DEF GameInit
<1>2. Uncapped /\ DriverInv /\ EngineInv /\ [GameNext]_gameVars => Uncapped'
  <2> SUFFICES ASSUME Uncapped, DriverInv, EngineInv, [GameNext]_gameVars PROVE Uncapped'
    OBVIOUS
  <2>1. ~TooManyDispatches
    <3> SUFFICES ASSUME TooManyDispatches PROVE FALSE
      OBVIOUS
    <3>1. at = "dispatch" /\ dispatches >= MaxDispatches
      BY DEF TooManyDispatches
    <3>2. phase \in {GivingClue, Guessing, SDLlm, SDHuman}
      BY <3>1 DEF DriverInv, PlaceInv, Running, EngineInv, PhaseInv, TypeOK, Phases
    <3>3. timer \in Nat /\ timer <= Tokens /\ Tokens \in Nat
      BY Reserve
    <3>4. /\ dispatches \in Nat
          /\ \/ dispatches <= 2 * (Tokens - timer)
             \/ dispatches <= 2 * (Tokens - timer) + 1
             \/ dispatches <= 2 * Tokens
             \/ dispatches <= 2 * Tokens + 1
      BY <3>1, <3>2 DEF DriverInv, PaidInv
    <3>5. dispatches <= 2 * Tokens + 1
      BY <3>3, <3>4
    <3>6. QED BY <3>1, <3>3, <3>4, <3>5, MaxDispatchesAssumption
  <2>2. QED
    BY <2>1 DEF GameNext, ConductClue, ProposeGuess, ProposeGuessSD, MeasureNormal,
       EnterSuddenDeath, MeasureSuddenDeath, ModelCallFails, SkipWord, PlayWord,
       StopGuessing, NothingPlayable, Concede, FlushCommits, FlushFails, ErrorFlush,
       Raise, gameVars, driverVars
<1>3. QED BY <1>1, <1>2, DriverInvariant, EngineInvariant, PTL DEF GameSpec

-----------------------------------------------------------------------------
(***************************************************************************)
(* The record of a game: the invariant                                     *)
(***************************************************************************)

\* A clue is live exactly while it is guessed on; the end of a game may leave
\* one behind.
ClueInv ==
  /\ turn >= 1
  /\ phase \in {GivingClue} \cup SDPhases => clue = NoClue
  /\ phase = Guessing => clue # NoClue /\ clue.giver = clueGiver

RecordTypes ==
  /\ turns \in Seq(TurnRecords)
  /\ sdTurn \in Nat
  /\ next \in Nat \ {0}
  /\ proposal \in Seq(ClueWords)

\* One normal turn for every clue, and at most one sudden-death turn, the last.
ShapeInv ==
  /\ \A i \in DOMAIN turns : turns[i].phase = IF i = sdTurn THEN "sudden_death" ELSE "normal"
  /\ sdTurn \in {0, Len(turns)}
  /\ Len(turns) = Len(LiveClues) + (IF sdTurn = 0 THEN 0 ELSE 1)
  /\ phase \in {GivingClue, Guessing} => sdTurn = 0
  /\ phase \in SDPhases /\ at = "resolve" => sdTurn # 0
  /\ sdTurn = 0 => sdRanked = {}
  /\ sdTurn # 0 => turns[sdTurn].sdMeasured = sdRanked

\* Turn t was opened by this clue.
Tells(t, entry) ==
  /\ t.giver = entry.giver
  /\ t.invalid = entry.invalid
  /\ t.measured = entry.ranked

MatchInv == \A i \in DOMAIN LiveClues : Tells(turns[i], LiveClues[i])

\* The turn being guessed: nothing is revealed before its proposal is resolved,
\* and what has been revealed came from earlier in the proposal and left the
\* turn and the reserve as they are.
GuessedInv ==
  phase = Guessing =>
    LET t == turns[Len(turns)]
    IN  /\ at \in {"dispatch", "measure"} => t.reveals = <<>> /\ guesses = 0
        /\ at \in {"measure", "resolve"} => t.play = proposal
        /\ at = "resolve" =>
             \A k \in DOMAIN t.reveals : /\ t.reveals[k].index < next
                                         /\ ~t.reveals[k].endedTurn
                                         /\ ~t.reveals[k].endedGame
                                         /\ t.reveals[k].timer = timer

\* The sudden-death turn: the acting seat has revealed nothing before it
\* proposes, and seat 1 nothing while seat 0 plays.
SuddenInv ==
  phase \in SDPhases /\ sdTurn # 0 =>
    LET t == turns[sdTurn]
    IN  /\ phase = SDLlm => \A k \in DOMAIN t.reveals : t.reveals[k].seat = 0
        /\ at # "resolve" /\ at \in Running =>
             \A k \in DOMAIN t.reveals : t.reveals[k].seat # Acting
        /\ at = "resolve" =>
             /\ t.sdPlay[Acting] = proposal
             /\ \A k \in DOMAIN t.reveals :
                  t.reveals[k].seat = Acting => t.reveals[k].index < next

RecordInv ==
  /\ RecordTypes
  /\ ClueInv
  /\ ShapeInv
  /\ MatchInv
  /\ GuessedInv
  /\ SuddenInv
  /\ BoardRebuildsFromReveals
  /\ RevealsLinkToProposals
  /\ TimerRunsDown

-----------------------------------------------------------------------------
(***************************************************************************)
(* What the engine's methods do to the clues and the board                 *)
(***************************************************************************)

\* Handing over archives a clue and leaves none live.
LEMMA SwitchArchives ==
  ASSUME TypeOK, NEW live, SwitchRoles(live)
  PROVE  /\ LiveClues' = Append(history, live)
         /\ clue' = NoClue /\ turn' = turn + 1 /\ turn \in Nat
         /\ phase' \in {GivingClue} \cup SDPhases
         /\ guesses' = 0 /\ sdRanked' = sdRanked
<1>1. /\ history' = Append(history, live) /\ clue' = NoClue /\ turn' = turn + 1
      /\ guesses' = 0 /\ sdRanked' = sdRanked
      /\ phase' \in {GivingClue, SDHuman, SDLlm}
  BY DEF SwitchRoles
<1>2. QED BY <1>1 DEF LiveClues, TypeOK, SDPhases

\* A clue is live or archived when the engine has taken it.
LEMMA ClueTells ==
  ASSUME TypeOK, ClueInv, NEW word, phase = GivingClue, ReceiveClue(clueGiver, word)
  PROVE  /\ LiveClues' = Append(LiveClues, ClueEntry(clueGiver, word))
         /\ ClueInv'
         /\ guesses' = 0 /\ UNCHANGED <<revealed, markers, sdRanked>>
<1> DEFINE entry == ClueEntry(clueGiver, word)
<1>1. clue = NoClue /\ LiveClues = history /\ turn \in Nat /\ turn >= 1
  BY DEF ClueInv, LiveClues, TypeOK
<1>2. entry.turn = turn /\ entry.giver = clueGiver
  BY DEF ClueEntry
<1>3. entry # NoClue
  <2>1. NoClue.turn = 0
    BY DEF NoClue
  <2>2. QED BY <1>1, <1>2, <2>1
<1>4. UNCHANGED <<revealed, markers>>
  BY DEF ReceiveClue, cardVars
<1>5. CASE OpenGuessing(entry)
  <2>1. /\ phase' = Guessing /\ clue' = entry /\ guesses' = 0
        /\ UNCHANGED <<clueGiver, turn, history, sdRanked>>
    BY <1>5 DEF OpenGuessing, measureVars
  <2>2. LiveClues' = Append(LiveClues, entry)
    BY <1>1, <1>3, <2>1 DEF LiveClues
  <2>3. ClueInv'
    BY <1>1, <1>2, <1>3, <2>1, PhasesDistinct DEF ClueInv
  <2>4. QED BY <1>4, <2>1, <2>2, <2>3
<1>6. CASE SwitchRoles(entry)
  <2>1. /\ LiveClues' = Append(history, entry) /\ clue' = NoClue /\ turn' = turn + 1
        /\ phase' \in {GivingClue} \cup SDPhases /\ guesses' = 0 /\ sdRanked' = sdRanked
    BY <1>6, SwitchArchives
  <2>2. ClueInv'
    BY <1>1, <2>1, PhasesDistinct DEF ClueInv
  <2>3. QED BY <1>1, <1>4, <2>1, <2>2
<1>7. QED BY <1>5, <1>6 DEF ReceiveClue

\* A turn that ends archives the clue that was live: the list of clues stays.
LEMMA TurnArchives ==
  ASSUME TypeOK, ClueInv, phase = Guessing, SwitchRoles(clue)
  PROVE  LiveClues' = LiveClues /\ ClueInv'
<1>1. /\ LiveClues' = Append(history, clue) /\ clue' = NoClue /\ turn' = turn + 1
      /\ turn \in Nat /\ phase' \in {GivingClue} \cup SDPhases
  BY SwitchArchives
<1>2. LiveClues = Append(history, clue) /\ turn >= 1
  BY DEF LiveClues, ClueInv
<1>3. ClueInv'
  BY <1>1, <1>2, PhasesDistinct DEF ClueInv
<1>4. QED BY <1>1, <1>2, <1>3

\* What a guess does to the clues and the words, and what the recorder reads off
\* the engine's answer.
LEMMA GuessTells ==
  ASSUME TypeOK, TypeOK', ClueInv, PhaseInv, NEW p \in Seats, NEW c \in Cards,
         ResolveGuess(p, c), NEW str, str = Returned(Side[Other(p)][c])
  PROVE  /\ LiveClues' = LiveClues
         /\ ClueInv'
         /\ ResultRoleOf(str) \in Roles
         /\ \/ /\ ResultRoleOf(str) = Agent
               /\ revealed' = revealed \cup {c} /\ markers' = markers
            \/ /\ ResultRoleOf(str) = Civilian /\ phase = Guessing /\ p = guesser
               /\ revealed' = revealed
               /\ markers' = [markers EXCEPT ![c] = @ \cup {p}]
            \/ /\ ResultRoleOf(str) # Agent
               /\ phase = Guessing => ResultRoleOf(str) # Civilian
               /\ UNCHANGED <<revealed, markers>>
         /\ phase = Guessing =>
              timer' = timer - (IF str # Agent /\ ResultRoleOf(str) # Assassin THEN 1 ELSE 0)
<1> DEFINE role == Side[Other(p)][c]
<1> USE PhasesDistinct
<1>1. phase \in {Guessing} \cup SDPhases /\ (phase = Guessing => p = guesser)
  BY DEF ResolveGuess, MayGuess
<1>2. /\ ResultRoleOf(Agent) = Agent /\ ResultRoleOf("agent_turn_end") = Agent
      /\ ResultRoleOf("victory") = Agent /\ ResultRoleOf("victory_sd") = Agent
      /\ ResultRoleOf(Assassin) = Assassin /\ ResultRoleOf("loss_assassin_sd") = Assassin
      /\ ResultRoleOf(Civilian) = Civilian /\ ResultRoleOf("loss_civilian_sd") = Civilian
  BY DEF ResultRoleOf, Agent, Assassin, Civilian, Victories
<1>3. /\ Agent # Assassin /\ Agent # Civilian /\ Assassin # Civilian
      /\ Agent \notin Results /\ Agent # "agent_turn_end"
      /\ {Agent, Assassin, Civilian} = Roles
  BY DEF Agent, Assassin, Civilian, Results, Roles
<1>4. turn \in Nat /\ timer \in Int
  BY DEF TypeOK
<1>5. ASSUME UNCHANGED roleVars,
             phase' \in {phase, GameOver} \/ (phase \in SDPhases /\ phase' \in SDPhases)
      PROVE  LiveClues' = LiveClues /\ ClueInv'
  BY <1>5 DEF roleVars, LiveClues, ClueInv, SDPhases
<1>6. CASE RevealAgent(p, c) /\ role = Agent
  <2>1. revealed' = revealed \cup {c} /\ markers' = markers
    BY <1>6 DEF RevealAgent
  <2>2. CASE WinAfterReveal
    <3>1. /\ phase' = GameOver /\ UNCHANGED roleVars
          /\ result' = IF phase \in SDPhases THEN "victory_sd" ELSE "victory"
          /\ (phase = Guessing => timer' = timer - 1)
      BY <2>2 DEF WinAfterReveal, FinishGame, Spend, SDPhases
    <3>2. str = result'
      BY <1>6, <3>1 DEF Returned
    <3>3. ResultRoleOf(str) = Agent /\ str # Agent
      BY <1>2, <1>3, <3>1, <3>2 DEF Results
    <3>4. QED BY <1>3, <1>5, <2>1, <3>1, <3>3
  <2>3. CASE TurnEndsOnLastWord(p)
    <3>1. phase = Guessing /\ timer' = timer - 1 /\ SwitchRoles(clue)
      BY <2>3 DEF TurnEndsOnLastWord, StopTurn, Spend
    <3>2. phase' \in {GivingClue} \cup SDPhases
      BY <3>1, SwitchArchives
    <3>3. str = "agent_turn_end"
      BY <1>6, <3>1, <3>2 DEF Returned, SDPhases
    <3>4. QED BY <1>2, <1>3, <2>1, <3>1, <3>3, TurnArchives
  <2>4. CASE HandOffSuddenDeath
    <3>1. phase = SDLlm /\ phase' = SDHuman /\ UNCHANGED roleVars
      BY <2>4 DEF HandOffSuddenDeath
    <3>2. str = Agent
      BY <1>6, <3>1 DEF Returned, SDPhases
    <3>3. QED BY <1>2, <1>3, <1>5, <2>1, <3>1, <3>2 DEF SDPhases
  <2>5. CASE KeepGuessing(p)
    <3>1. phase' = phase /\ UNCHANGED roleVars /\ timer' = timer
      BY <2>5 DEF KeepGuessing, tokenVars
    <3>2. str = Agent
      BY <1>1, <1>6, <3>1 DEF Returned, SDPhases
    <3>3. QED BY <1>2, <1>3, <1>4, <1>5, <2>1, <3>1, <3>2
  <2>6. QED BY <1>6, <2>2, <2>3, <2>4, <2>5 DEF RevealAgent
<1>7. CASE TouchAssassin /\ role = Assassin /\ phase = Guessing
  <2>1. phase' = GameOver /\ UNCHANGED <<roleVars, revealed, markers, timer>>
    BY <1>7 DEF TouchAssassin, FinishGame, cardVars, tokenVars
  <2>2. str = Assassin
    BY <1>3, <1>7 DEF Returned
  <2>3. QED BY <1>2, <1>3, <1>4, <1>5, <2>1, <2>2
<1>8. CASE TouchBystander(c) /\ role = Civilian /\ phase = Guessing
  <2>1. /\ SwitchRoles(clue) /\ revealed' = revealed /\ timer' = timer - 1
        /\ markers' = [markers EXCEPT ![c] = @ \cup {p}]
    BY <1>1, <1>8 DEF TouchBystander, Spend
  <2>2. str = Civilian
    BY <1>3, <1>8 DEF Returned
  <2>3. QED BY <1>1, <1>2, <1>3, <1>8, <2>1, <2>2, TurnArchives
<1>9. CASE MissInSuddenDeath(role) /\ role # Agent /\ phase \in SDPhases
  <2>1. phase' = GameOver /\ UNCHANGED <<roleVars, revealed, markers>>
        /\ result' \in {"loss_civilian_sd", "loss_assassin_sd"}
    BY <1>9 DEF MissInSuddenDeath, FinishGame, cardVars
  <2>2. str = result'
    BY <1>9 DEF Returned, SDPhases
  <2>3. QED BY <1>2, <1>3, <1>5, <1>9, <2>1, <2>2
<1>10. QED BY <1>6, <1>7, <1>8, <1>9 DEF ResolveGuess

-----------------------------------------------------------------------------
(***************************************************************************)
(* What the recorder does to its turns                                     *)
(***************************************************************************)

\* Writing to a turn changes that turn only.
LEMMA UpdateTurn ==
  ASSUME turns \in Seq(TurnRecords), NEW n \in DOMAIN turns, NEW rec \in TurnRecords,
         turns' = [turns EXCEPT ![n] = rec]
  PROVE  /\ turns' \in Seq(TurnRecords)
         /\ Len(turns') = Len(turns) /\ DOMAIN turns' = DOMAIN turns
         /\ turns'[n] = rec
         /\ \A i \in DOMAIN turns \ {n} : turns'[i] = turns[i]
OBVIOUS

\* Opening a turn leaves the others alone.
LEMMA OpenTurn ==
  ASSUME turns \in Seq(TurnRecords), NEW rec \in TurnRecords, turns' = Append(turns, rec)
  PROVE  /\ turns' \in Seq(TurnRecords)
         /\ Len(turns') = Len(turns) + 1 /\ DOMAIN turns' = DOMAIN turns \cup {Len(turns')}
         /\ Len(turns') \notin DOMAIN turns /\ Len(turns') \in Nat \ {0}
         /\ turns'[Len(turns')] = rec
         /\ \A i \in DOMAIN turns : turns'[i] = turns[i]
<1>1. Len(turns) \in Nat /\ DOMAIN turns = 1..Len(turns)
  OBVIOUS
<1>2. turns' \in Seq(TurnRecords) /\ Len(turns') = Len(turns) + 1
  OBVIOUS
<1>3. DOMAIN turns' = 1..(Len(turns) + 1)
  BY <1>2
<1>4. QED BY <1>1, <1>2, <1>3

\* Every turn keeps its phase and its reveals, and a turn just opened has none.
Kept ==
  /\ DOMAIN turns \subseteq DOMAIN turns'
  /\ \A i \in DOMAIN turns : /\ turns'[i].phase = turns[i].phase
                             /\ turns'[i].reveals = turns[i].reveals
  /\ \A i \in DOMAIN turns' \ DOMAIN turns : turns'[i].reveals = <<>>

\* Then the reveals of the record are the same.
LEMMA KeptReveals ==
  ASSUME Kept
  PROVE  AllReveals' = AllReveals /\ NormalReveals' = NormalReveals
<1>1. \A i \in DOMAIN turns : RevealsOf(i)' = RevealsOf(i)
  BY DEF Kept, RevealsOf
<1>2. \A i \in DOMAIN turns' \ DOMAIN turns : RevealsOf(i)' = {}
  BY DEF Kept, RevealsOf
<1>3. NormalTurns \subseteq DOMAIN turns /\ NormalTurns' \subseteq DOMAIN turns'
      /\ \A i \in DOMAIN turns : i \in NormalTurns' <=> i \in NormalTurns
  BY DEF Kept, NormalTurns
<1>4. DOMAIN turns \subseteq DOMAIN turns'
  BY DEF Kept
<1>5. AllReveals' = AllReveals
  BY <1>1, <1>2, <1>4 DEF AllReveals
<1>6. NormalReveals' = NormalReveals
  BY <1>1, <1>2, <1>3, <1>4 DEF NormalReveals
<1>7. QED BY <1>5, <1>6

\* One turn n gets one more reveal r.
Revealing(n, r) ==
  /\ n \in DOMAIN turns /\ DOMAIN turns' = DOMAIN turns
  /\ turns[n].reveals \in Seq(Reveals)
  /\ turns'[n].reveals = Append(turns[n].reveals, r)
  /\ \A i \in DOMAIN turns : turns'[i].phase = turns[i].phase
  /\ \A i \in DOMAIN turns \ {n} : turns'[i].reveals = turns[i].reveals

\* Then the record has that one reveal more.
LEMMA OneMoreReveal ==
  ASSUME NEW n, NEW r, Revealing(n, r)
  PROVE  /\ AllReveals' = AllReveals \cup {r}
         /\ NormalReveals' = IF turns[n].phase = "normal" THEN NormalReveals \cup {r}
                                                         ELSE NormalReveals
<1>1. \A i \in DOMAIN turns \ {n} : RevealsOf(i)' = RevealsOf(i)
  BY DEF Revealing, RevealsOf
<1>2. RevealsOf(n)' = RevealsOf(n) \cup {r}
  BY DEF Revealing, RevealsOf
<1>3. NormalTurns' = NormalTurns /\ n \in DOMAIN turns /\ DOMAIN turns' = DOMAIN turns
      /\ NormalTurns \subseteq DOMAIN turns
      /\ (n \in NormalTurns <=> turns[n].phase = "normal")
  BY DEF Revealing, NormalTurns
<1>4. AllReveals' = AllReveals \cup {r}
  BY <1>1, <1>2, <1>3 DEF AllReveals
<1>5. CASE n \in NormalTurns
  BY <1>1, <1>2, <1>3, <1>4, <1>5 DEF NormalReveals
<1>6. CASE n \notin NormalTurns
  BY <1>1, <1>2, <1>3, <1>4, <1>6 DEF NormalReveals
<1>7. QED BY <1>3, <1>4, <1>5, <1>6

\* The two properties of a turn's reveals, turn by turn.
LinkedTurn(t) ==
  \A k \in DOMAIN t.reveals : LET r == t.reveals[k] IN
    /\ t.phase = "normal" => /\ r.seat = Other(t.giver)
                             /\ r.index <= Len(t.play) /\ t.play[r.index] = r.card
    /\ t.phase = "sudden_death" =>
         r.index <= Len(t.sdPlay[r.seat]) /\ t.sdPlay[r.seat][r.index] = r.card
    /\ \A j \in 1..(k - 1) :
         t.reveals[j].seat = r.seat => t.reveals[j].index < r.index

TimedTurn(t) ==
  \A k \in DOMAIN t.reveals : LET r == t.reveals[k] IN
    /\ k < Len(t.reveals) => ~r.endedTurn /\ ~r.endedGame
    /\ k > 1 => r.timer = t.reveals[k - 1].timer
                            - (IF r.endedTurn /\ r.role # Assassin THEN 1 ELSE 0)

\* The properties of the whole record, read turn by turn.
LEMMA TurnByTurn ==
  /\ RevealsLinkToProposals <=> \A i \in DOMAIN turns : LinkedTurn(turns[i])
  /\ TimerRunsDown <=>
       \A i \in DOMAIN turns : turns[i].phase = "normal" => TimedTurn(turns[i])
  /\ RevealsLinkToProposals' <=> \A i \in DOMAIN turns' : LinkedTurn(turns'[i])
  /\ TimerRunsDown' <=>
       \A i \in DOMAIN turns' : turns'[i].phase = "normal" => TimedTurn(turns'[i])
<1>1. RevealsLinkToProposals <=> \A i \in DOMAIN turns : LinkedTurn(turns[i])
  BY DEF RevealsLinkToProposals, LinkedTurn
<1>2. TimerRunsDown <=>
        \A i \in DOMAIN turns : turns[i].phase = "normal" => TimedTurn(turns[i])
  BY DEF TimerRunsDown, TimedTurn, NormalTurns
<1>3. RevealsLinkToProposals' <=> \A i \in DOMAIN turns' : LinkedTurn(turns'[i])
  BY DEF RevealsLinkToProposals, LinkedTurn
<1>4. TimerRunsDown' <=>
        \A i \in DOMAIN turns' : turns'[i].phase = "normal" => TimedTurn(turns'[i])
  BY DEF TimerRunsDown, TimedTurn, NormalTurns
<1>5. QED BY <1>1, <1>2, <1>3, <1>4

\* A reveal that points past every earlier one of its seat keeps a turn linked.
LEMMA LinkedReveal ==
  ASSUME NEW t \in TurnRecords, LinkedTurn(t), NEW r \in Reveals,
         \A k \in DOMAIN t.reveals :
           t.reveals[k].seat = r.seat => t.reveals[k].index < r.index,
         t.phase = "normal" => /\ r.seat = Other(t.giver)
                               /\ r.index <= Len(t.play) /\ t.play[r.index] = r.card,
         t.phase = "sudden_death" =>
           r.index <= Len(t.sdPlay[r.seat]) /\ t.sdPlay[r.seat][r.index] = r.card
  PROVE  LinkedTurn([t EXCEPT !.reveals = Append(t.reveals, r)])
<1> DEFINE n == Len(t.reveals)
           u == [t EXCEPT !.reveals = Append(t.reveals, r)]
<1>1. t.reveals \in Seq(Reveals) /\ n \in Nat /\ DOMAIN t.reveals = 1..n
  BY DEF TurnRecords
<1>2. /\ u.phase = t.phase /\ u.giver = t.giver /\ u.play = t.play /\ u.sdPlay = t.sdPlay
      /\ u.reveals = Append(t.reveals, r)
  BY DEF TurnRecords
<1>3. /\ DOMAIN u.reveals = 1..(n + 1)
      /\ \A k \in 1..n : u.reveals[k] = t.reveals[k]
      /\ u.reveals[n + 1] = r
  BY <1>1, <1>2
<1> HIDE DEF u, n
<1> DEFINE Body(k) ==
      LET v == u.reveals[k] IN
      /\ u.phase = "normal" => /\ v.seat = Other(u.giver)
                               /\ v.index <= Len(u.play) /\ u.play[v.index] = v.card
      /\ u.phase = "sudden_death" =>
           v.index <= Len(u.sdPlay[v.seat]) /\ u.sdPlay[v.seat][v.index] = v.card
      /\ \A j \in 1..(k - 1) :
           u.reveals[j].seat = v.seat => u.reveals[j].index < v.index
<1>4. ASSUME NEW k \in 1..n PROVE Body(k)
  <2>1. \A j \in 1..(k - 1) : u.reveals[j] = t.reveals[j]
    BY <1>1, <1>3
  <2>2. u.reveals[k] = t.reveals[k] /\ k \in DOMAIN t.reveals
    BY <1>1, <1>3
  <2>3. QED BY <1>2, <2>1, <2>2 DEF LinkedTurn
<1>5. \A j \in 1..n : u.reveals[j].seat = r.seat => u.reveals[j].index < r.index
  BY <1>1, <1>3
<1>6. n + 1 - 1 = n /\ 1..(n + 1) = 1..n \cup {n + 1}
  BY <1>1
<1>7. /\ t.phase = "normal" => /\ r.seat = Other(u.giver)
                              /\ r.index <= Len(u.play) /\ u.play[r.index] = r.card
      /\ t.phase = "sudden_death" =>
           r.index <= Len(u.sdPlay[r.seat]) /\ u.sdPlay[r.seat][r.index] = r.card
  BY <1>2
<1>8. Body(n + 1)
  BY <1>2, <1>3, <1>5, <1>6, <1>7
<1>9. LinkedTurn(u)
  <2>1. \A k \in DOMAIN u.reveals : Body(k)
    <3> HIDE DEF Body
    <3>1. QED BY <1>3, <1>4, <1>6, <1>8
  <2>2. QED BY <2>1 DEF LinkedTurn
<1>10. QED BY <1>9 DEF u

\* A reveal that starts from the reserve the earlier ones left keeps a turn timed.
LEMMA TimedReveal ==
  ASSUME NEW t \in TurnRecords, TimedTurn(t), NEW r \in Reveals, NEW before \in Int,
         \A k \in DOMAIN t.reveals : /\ ~t.reveals[k].endedTurn
                                     /\ ~t.reveals[k].endedGame
                                     /\ t.reveals[k].timer = before,
         r.timer = before - (IF r.endedTurn /\ r.role # Assassin THEN 1 ELSE 0)
  PROVE  TimedTurn([t EXCEPT !.reveals = Append(t.reveals, r)])
<1> DEFINE n == Len(t.reveals)
           u == [t EXCEPT !.reveals = Append(t.reveals, r)]
<1>1. t.reveals \in Seq(Reveals) /\ n \in Nat /\ DOMAIN t.reveals = 1..n
  BY DEF TurnRecords
<1>2. u.reveals = Append(t.reveals, r)
  BY DEF TurnRecords
<1>3. /\ DOMAIN u.reveals = 1..(n + 1) /\ Len(u.reveals) = n + 1
      /\ \A k \in 1..n : u.reveals[k] = t.reveals[k]
      /\ u.reveals[n + 1] = r
  BY <1>1, <1>2
<1> HIDE DEF u, n
<1>4. ASSUME NEW k \in 1..n
      PROVE  LET v == u.reveals[k] IN
             /\ ~v.endedTurn /\ ~v.endedGame
             /\ k > 1 => v.timer = u.reveals[k - 1].timer
                                   - (IF v.endedTurn /\ v.role # Assassin THEN 1 ELSE 0)
  <2>1. ASSUME k > 1 PROVE u.reveals[k - 1].timer = before
    <3>1. k - 1 \in 1..n
      BY <1>1, <2>1
    <3>2. u.reveals[k - 1] = t.reveals[k - 1] /\ k - 1 \in DOMAIN t.reveals
      BY <1>1, <1>3, <3>1
    <3>3. QED BY <3>2
  <2>2. u.reveals[k].timer = before /\ ~u.reveals[k].endedTurn /\ ~u.reveals[k].endedGame
    BY <1>1, <1>3
  <2>3. QED BY <2>1, <2>2
<1>5. n + 1 > 1 => u.reveals[n + 1 - 1].timer = before
  BY <1>1, <1>3
<1>6. 1..(n + 1) = 1..n \cup {n + 1}
  BY <1>1
<1>7. TimedTurn(u)
  BY <1>1, <1>3, <1>4, <1>5, <1>6 DEF TimedTurn
<1>8. QED BY <1>7 DEF u

\* A turn n is opened or written to, but for its reveals.
LEMMA WriteTurn ==
  ASSUME RecordInv, NEW n, NEW rec, DOMAIN turns' = DOMAIN turns \cup {n}, turns'[n] = rec,
         \A i \in DOMAIN turns \ {n} : turns'[i] = turns[i],
         n \in DOMAIN turns => rec.phase = turns[n].phase /\ rec.reveals = turns[n].reveals,
         n \notin DOMAIN turns => rec.reveals = <<>>,
         LinkedTurn(rec), UNCHANGED <<revealed, markers>>
  PROVE  BoardRebuildsFromReveals' /\ RevealsLinkToProposals' /\ TimerRunsDown'
<1>1. Kept
  BY DEF Kept
<1>2. BoardRebuildsFromReveals'
  BY <1>1, KeptReveals DEF RecordInv, BoardRebuildsFromReveals
<1>3. \A i \in DOMAIN turns' : LinkedTurn(turns'[i])
  BY TurnByTurn DEF RecordInv
<1>4. ASSUME NEW i \in DOMAIN turns, turns[i].phase = "normal" PROVE TimedTurn(turns'[i])
  <2>1. TimedTurn(turns[i])
    BY <1>4, TurnByTurn DEF RecordInv
  <2>2. turns'[i].reveals = turns[i].reveals
    BY <1>1 DEF Kept
  <2>3. QED BY <2>1, <2>2 DEF TimedTurn
<1>5. ASSUME NEW i \in DOMAIN turns' \ DOMAIN turns PROVE TimedTurn(turns'[i])
  BY <1>1, <1>5 DEF Kept, TimedTurn
<1>6. \A i \in DOMAIN turns' : turns'[i].phase = "normal" => TimedTurn(turns'[i])
  BY <1>1, <1>4, <1>5 DEF Kept
<1>7. QED BY <1>2, <1>3, <1>6, TurnByTurn

\* The record is left alone, and so are the words.
LEMMA SameTurns ==
  ASSUME RecordInv, UNCHANGED <<turns, revealed, markers>>
  PROVE  BoardRebuildsFromReveals' /\ RevealsLinkToProposals' /\ TimerRunsDown'
<1>1. BoardRebuildsFromReveals'
  <2>1. Kept
    BY DEF Kept
  <2>2. QED BY <2>1, KeptReveals DEF RecordInv, BoardRebuildsFromReveals
<1>2. RevealsLinkToProposals' /\ TimerRunsDown'
  BY TurnByTurn DEF RecordInv
<1>3. QED BY <1>1, <1>2

-----------------------------------------------------------------------------
(***************************************************************************)
(* The steps                                                               *)
(***************************************************************************)

\* The game stops where it is, or is over without a word being touched.
LEMMA StopKeeps ==
  ASSUME RecordInv, at' \notin Running,
         UNCHANGED <<clueGiver, clue, history, turn, revealed, markers, sdRanked>>,
         UNCHANGED <<turns, sdTurn, proposal, next>>, phase' \in {phase, GameOver}
  PROVE  RecordInv'
<1>1. RecordTypes' /\ ClueInv'
  BY PhasesDistinct DEF RecordInv, RecordTypes, ClueInv
<1>2. LiveClues' = LiveClues
  BY DEF LiveClues
<1>3. ShapeInv' /\ MatchInv'
  BY <1>2, PhasesDistinct DEF RecordInv, ShapeInv, MatchInv, Running
<1>4. GuessedInv' /\ SuddenInv'
  BY PhasesDistinct DEF RecordInv, GuessedInv, SuddenInv, Running
<1>5. QED BY <1>1, <1>3, <1>4, SameTurns DEF RecordInv

\* A turn just opened is a turn.
LEMMA EmptyTurnType ==
  ASSUME RecordInv, NEW kind \in {"normal", "sudden_death"}, NEW giver \in Seats
  PROVE  EmptyTurn(kind, giver) \in TurnRecords
<1>1. Len(turns) \in Nat
  BY DEF RecordInv, RecordTypes
<1>2. <<>> \in Seq(ClueWords) /\ <<>> \in Seq(Reveals)
  OBVIOUS
<1>3. [s \in Seats |-> <<>>] \in [Seats -> Seq(ClueWords)]
  BY <1>2
<1>4. QED BY <1>1, <1>2, <1>3 DEF EmptyTurn, TurnRecords

\* A clue opens a normal turn.
LEMMA ConductClueKeeps ==
  ASSUME RecordInv, EngineInv, NEW word \in ClueWords, ConductClue(word)
  PROVE  RecordInv'
<1> DEFINE entry == ClueEntry(clueGiver, word)
           rec == [EmptyTurn("normal", entry.giver) EXCEPT !.invalid = entry.invalid]
<1>1. /\ phase = GivingClue /\ at' = "dispatch" /\ turns' = Append(turns, rec)
      /\ sdTurn' = sdTurn /\ proposal' = proposal /\ next' = next
      /\ ReceiveClue(clueGiver, word)
  BY DEF ConductClue, RecordClue, Dispatch
<1>2. /\ LiveClues' = Append(LiveClues, entry) /\ ClueInv'
      /\ guesses' = 0 /\ UNCHANGED <<revealed, markers, sdRanked>>
  BY <1>1, ClueTells DEF RecordInv, EngineInv, PhaseInv
<1>3. clueGiver \in Seats /\ visible \subseteq Cards /\ turn \in Nat
      /\ history \in Seq(ClueEntries) /\ clue \in ClueEntries
  BY DEF EngineInv, PhaseInv, TypeOK
<1>4. entry.giver = clueGiver /\ entry.invalid \in BOOLEAN /\ entry.ranked = FALSE
      /\ entry \in ClueEntries
  BY <1>3 DEF ClueEntry, Offends, ClueEntries
<1>5. LiveClues \in Seq(ClueEntries)
  BY <1>3 DEF LiveClues
<1> HIDE DEF entry
<1>6. /\ rec \in TurnRecords /\ rec.reveals = <<>> /\ rec.phase = "normal"
      /\ Tells(rec, entry)
  <2>1. EmptyTurn("normal", entry.giver) \in TurnRecords
    BY <1>3, <1>4, EmptyTurnType
  <2>2. QED BY <1>4, <2>1 DEF EmptyTurn, TurnRecords, Tells
<1> HIDE DEF rec
<1>7. /\ turns' \in Seq(TurnRecords) /\ Len(turns') = Len(turns) + 1
      /\ DOMAIN turns' = DOMAIN turns \cup {Len(turns')} /\ Len(turns') \notin DOMAIN turns
      /\ turns'[Len(turns')] = rec /\ Len(turns') \in Nat \ {0}
      /\ \A i \in DOMAIN turns : turns'[i] = turns[i]
  BY <1>1, <1>6, OpenTurn DEF RecordInv, RecordTypes
<1>8. sdTurn = 0 /\ Len(turns) = Len(LiveClues) /\ sdRanked = {}
  BY <1>1 DEF RecordInv, ShapeInv
<1>9. RecordTypes'
  BY <1>1, <1>7 DEF RecordInv, RecordTypes
<1>10. Len(LiveClues') = Len(LiveClues) + 1
  BY <1>2, <1>4, <1>5
<1>11. ShapeInv'
  BY <1>1, <1>2, <1>6, <1>7, <1>8, <1>10 DEF RecordInv, ShapeInv
<1>12. MatchInv'
  <2>1. DOMAIN LiveClues' = DOMAIN LiveClues \cup {Len(turns')}
    BY <1>2, <1>4, <1>5, <1>7, <1>8
  <2>2. LiveClues'[Len(turns')] = entry
        /\ \A i \in DOMAIN LiveClues : LiveClues'[i] = LiveClues[i]
    BY <1>2, <1>4, <1>5, <1>7, <1>8
  <2>3. DOMAIN LiveClues = DOMAIN turns
    BY <1>5, <1>8 DEF RecordInv, RecordTypes
  <2>4. QED BY <1>6, <1>7, <2>1, <2>2, <2>3 DEF RecordInv, MatchInv
<1>13. GuessedInv'
  BY <1>1, <1>2, <1>6, <1>7 DEF GuessedInv
<1>14. SuddenInv'
  BY <1>1, <1>8 DEF SuddenInv
<1>15. BoardRebuildsFromReveals' /\ RevealsLinkToProposals' /\ TimerRunsDown'
  <2>1. LinkedTurn(rec)
    BY <1>6 DEF LinkedTurn
  <2>2. QED BY <1>2, <1>6, <1>7, <2>1, WriteTurn
<1>16. QED BY <1>2, <1>9, <1>11, <1>12, <1>13, <1>14, <1>15 DEF RecordInv

\* While a turn is guessed on, the last turn of the record is that turn.
LEMMA GuessedTurn ==
  ASSUME RecordInv, EngineInv, phase = Guessing
  PROVE  /\ Len(turns) \in DOMAIN turns /\ DOMAIN turns = 1..Len(turns)
         /\ Len(turns) = Len(LiveClues) /\ DOMAIN LiveClues = DOMAIN turns
         /\ LiveClues = Append(history, clue) /\ LiveClues \in Seq(ClueEntries)
         /\ LiveClues[Len(turns)] = clue
         /\ turns[Len(turns)] \in TurnRecords
         /\ turns[Len(turns)].phase = "normal"
         /\ turns[Len(turns)].giver = clueGiver
         /\ sdTurn = 0 /\ sdRanked = {}
<1>1. sdTurn = 0 /\ Len(turns) = Len(LiveClues) /\ sdRanked = {}
  BY DEF RecordInv, ShapeInv
<1>2. clue # NoClue /\ clue.giver = clueGiver
  BY DEF RecordInv, ClueInv
<1>3. history \in Seq(ClueEntries) /\ clue \in ClueEntries /\ turns \in Seq(TurnRecords)
  BY DEF EngineInv, PhaseInv, TypeOK, RecordInv, RecordTypes
<1>4. LiveClues = Append(history, clue)
  BY <1>2 DEF LiveClues
<1>5. /\ Len(LiveClues) = Len(history) + 1 /\ LiveClues[Len(LiveClues)] = clue
      /\ LiveClues \in Seq(ClueEntries) /\ Len(history) \in Nat
  BY <1>3, <1>4
<1>6. Len(turns) \in DOMAIN turns /\ DOMAIN turns = 1..Len(turns)
      /\ DOMAIN LiveClues = DOMAIN turns
  BY <1>1, <1>3, <1>5
<1>7. turns[Len(turns)] \in TurnRecords
  BY <1>3, <1>6
<1>8. turns[Len(turns)].phase = "normal"
  BY <1>1, <1>5, <1>6 DEF RecordInv, ShapeInv
<1>9. turns[Len(turns)].giver = clueGiver
  BY <1>1, <1>2, <1>5, <1>6 DEF RecordInv, MatchInv, Tells
<1>10. QED BY <1>1, <1>4, <1>5, <1>6, <1>7, <1>8, <1>9

\* A proposal is written to the turn of its clue before anything is revealed.
LEMMA ProposeGuessKeeps ==
  ASSUME RecordInv, EngineInv, NEW words \in Proposals, ProposeGuess(words)
  PROVE  RecordInv'
<1> DEFINE n == Len(turns)
           rec == [turns[n] EXCEPT !.play = words]
<1>1. /\ phase = Guessing /\ at = "dispatch" /\ at' = "measure" /\ sdTurn' = sdTurn
      /\ turns' = [turns EXCEPT ![n].play = words] /\ proposal' = words /\ next' = 1
      /\ UNCHANGED <<phase, clueGiver, guesser, clue, history, turn, guesses, sdRanked>>
      /\ UNCHANGED <<revealed, markers>>
  BY DEF ProposeGuess, Dispatch, RecordPlayProposal, vars, roleVars, measureVars, cardVars
<1>2. words \in Seq(ClueWords)
  BY ProposalsAssumption
<1>3. /\ n \in DOMAIN turns /\ turns[n] \in TurnRecords /\ turns[n].reveals = <<>>
      /\ sdTurn = 0 /\ n = Len(LiveClues) /\ guesses = 0
      /\ DOMAIN LiveClues = DOMAIN turns
  BY <1>1, GuessedTurn DEF RecordInv, GuessedInv
<1>4. /\ rec \in TurnRecords /\ rec.play = words
      /\ rec.phase = turns[n].phase /\ rec.reveals = turns[n].reveals
      /\ rec.giver = turns[n].giver /\ rec.invalid = turns[n].invalid
      /\ rec.measured = turns[n].measured
  BY <1>2, <1>3 DEF TurnRecords
<1>5. turns' = [turns EXCEPT ![n] = rec]
  BY <1>1
<1> HIDE DEF rec
<1>6. /\ turns' \in Seq(TurnRecords) /\ Len(turns') = n /\ DOMAIN turns' = DOMAIN turns
      /\ turns'[n] = rec /\ \A i \in DOMAIN turns \ {n} : turns'[i] = turns[i]
  BY <1>3, <1>4, <1>5, UpdateTurn DEF RecordInv, RecordTypes
<1>7. LinkedTurn(rec)
  BY <1>3, <1>4 DEF LinkedTurn
<1>8. BoardRebuildsFromReveals' /\ RevealsLinkToProposals' /\ TimerRunsDown'
  BY <1>1, <1>3, <1>4, <1>6, <1>7, WriteTurn
<1>9. LiveClues' = LiveClues
  BY <1>1 DEF LiveClues
<1>10. RecordTypes' /\ ClueInv'
  BY <1>1, <1>2, <1>6 DEF RecordInv, RecordTypes, ClueInv
<1>11. ShapeInv'
  BY <1>1, <1>3, <1>4, <1>6, <1>9 DEF RecordInv, ShapeInv
<1>12. MatchInv'
  BY <1>3, <1>4, <1>6, <1>9 DEF RecordInv, MatchInv, Tells
<1>13. GuessedInv'
  BY <1>1, <1>3, <1>4, <1>6 DEF GuessedInv
<1>14. SuddenInv'
  BY <1>1, <1>3, PhasesDistinct DEF SuddenInv
<1>15. QED BY <1>8, <1>10, <1>11, <1>12, <1>13, <1>14 DEF RecordInv

\* A measurement marks the clue and its turn together, or neither.
LEMMA MeasureNormalKeeps ==
  ASSUME RecordInv, EngineInv, MeasureNormal
  PROVE  RecordInv'
<1> DEFINE n == Len(turns)
           rec == [turns[n] EXCEPT !.measured = TRUE]
<1>1. /\ phase = Guessing /\ at = "measure" /\ at' = "resolve" /\ sdTurn' = sdTurn
      /\ proposal' = proposal /\ next' = next
      /\ UNCHANGED <<phase, clueGiver, guesser, history, turn, guesses, timer, sdRanked>>
      /\ UNCHANGED <<revealed, markers>>
  BY DEF MeasureNormal, AttachConfidenceRanking, vars, roleVars, measureVars, cardVars, tokenVars
<1>2. /\ n \in DOMAIN turns /\ turns[n] \in TurnRecords /\ turns[n].reveals = <<>>
      /\ turns[n].play = proposal /\ DOMAIN turns = 1..n
      /\ sdTurn = 0 /\ n = Len(LiveClues) /\ LiveClues \in Seq(ClueEntries)
      /\ DOMAIN LiveClues = DOMAIN turns
      /\ LiveClues = Append(history, clue) /\ LiveClues[n] = clue
  BY <1>1, GuessedTurn DEF RecordInv, GuessedInv
<1>3. history \in Seq(ClueEntries) /\ clue \in ClueEntries
  BY DEF EngineInv, PhaseInv, TypeOK
<1>4. CASE AttachConfidenceRanking /\ turns' = [turns EXCEPT ![n].measured = TRUE]
  <2>1. clue' = [clue EXCEPT !.ranked = TRUE]
    BY <1>4 DEF AttachConfidenceRanking
  <2>2. /\ clue' \in ClueEntries /\ clue'.ranked /\ clue'.giver = clue.giver
        /\ clue'.invalid = clue.invalid
    BY <1>3, <2>1 DEF ClueEntries
  <2>3. ~NoClue.ranked
    BY DEF NoClue
  <2>4. clue' # NoClue
    BY <2>2, <2>3
  <2>5. LiveClues' = Append(history, clue')
    BY <1>1, <2>4 DEF LiveClues
  <2>6. /\ Len(LiveClues') = n /\ DOMAIN LiveClues' = DOMAIN turns
        /\ LiveClues'[n] = clue'
        /\ \A i \in DOMAIN turns \ {n} : LiveClues'[i] = LiveClues[i]
    BY <1>2, <1>3, <2>2, <2>5
  <2>7. /\ rec \in TurnRecords /\ rec.play = turns[n].play /\ rec.sdPlay = turns[n].sdPlay
        /\ rec.phase = turns[n].phase /\ rec.reveals = turns[n].reveals
        /\ rec.giver = turns[n].giver /\ rec.invalid = turns[n].invalid
        /\ rec.measured = TRUE
    BY <1>2 DEF TurnRecords
  <2>8. turns' = [turns EXCEPT ![n] = rec]
    BY <1>4
  <2> HIDE DEF rec
  <2>9. /\ turns' \in Seq(TurnRecords) /\ Len(turns') = n /\ DOMAIN turns' = DOMAIN turns
        /\ turns'[n] = rec /\ \A i \in DOMAIN turns \ {n} : turns'[i] = turns[i]
    BY <1>2, <2>7, <2>8, UpdateTurn DEF RecordInv, RecordTypes
  <2>10. LinkedTurn(rec)
    BY <1>2, <2>7 DEF LinkedTurn
  <2>11. BoardRebuildsFromReveals' /\ RevealsLinkToProposals' /\ TimerRunsDown'
    BY <1>1, <1>2, <2>7, <2>9, <2>10, WriteTurn
  <2>12. RecordTypes' /\ ClueInv'
    BY <1>1, <2>2, <2>4, <2>9, PhasesDistinct DEF RecordInv, RecordTypes, ClueInv
  <2>13. ShapeInv'
    BY <1>1, <1>2, <2>6, <2>7, <2>9, PhasesDistinct DEF RecordInv, ShapeInv
  <2>14. Tells(rec, clue')
    <3>1. MatchInv
      BY DEF RecordInv
    <3>2. Tells(turns[n], clue)
      BY <1>2, <3>1 DEF MatchInv
    <3>3. QED BY <2>2, <2>7, <3>2 DEF Tells
  <2>15. MatchInv'
    BY <1>2, <2>6, <2>9, <2>14 DEF RecordInv, MatchInv
  <2>16. GuessedInv' /\ SuddenInv'
    BY <1>1, <1>2, <2>7, <2>9, PhasesDistinct DEF GuessedInv, SuddenInv
  <2>17. QED BY <2>11, <2>12, <2>13, <2>15, <2>16 DEF RecordInv
<1>5. CASE UNCHANGED <<vars, turns>>
  <2>1. clue' = clue /\ turns' = turns
    BY <1>5 DEF vars, roleVars
  <2>2. LiveClues' = LiveClues
    BY <1>1, <2>1 DEF LiveClues
  <2>3. RecordTypes' /\ ClueInv' /\ MatchInv'
    BY <1>1, <2>1, <2>2 DEF RecordInv, RecordTypes, ClueInv, MatchInv
  <2>4. ShapeInv'
    BY <1>1, <2>1, <2>2, PhasesDistinct DEF RecordInv, ShapeInv
  <2>5. GuessedInv' /\ SuddenInv'
    BY <1>1, <1>2, <2>1, PhasesDistinct DEF GuessedInv, SuddenInv
  <2>6. QED BY <1>1, <2>1, <2>3, <2>4, <2>5, SameTurns DEF RecordInv
<1>6. QED BY <1>4, <1>5 DEF MeasureNormal

\* The head of a sudden-death dispatch touches nothing of the record.
LEMMA EnterSuddenDeathKeeps ==
  ASSUME RecordInv, EnterSuddenDeath
  PROVE  RecordInv'
<1>1. /\ phase \in SDPhases /\ at = "dispatch" /\ at' \in {"measure", "propose_sd"}
      /\ UNCHANGED <<turns, sdTurn, proposal, next>>
      /\ UNCHANGED <<phase, clueGiver, guesser, clue, history, turn, sdRanked>>
      /\ UNCHANGED <<revealed, markers>>
  BY DEF EnterSuddenDeath, Dispatch, vars, roleVars, measureVars, cardVars, recordVars
<1>2. LiveClues' = LiveClues /\ Acting' = Acting
  BY <1>1 DEF LiveClues, Acting
<1>3. RecordTypes' /\ ClueInv' /\ MatchInv'
  BY <1>1, <1>2 DEF RecordInv, RecordTypes, ClueInv, MatchInv
<1>4. ShapeInv'
  BY <1>1, <1>2 DEF RecordInv, ShapeInv
<1>5. GuessedInv' /\ SuddenInv'
  BY <1>1, <1>2, PhasesDistinct DEF RecordInv, GuessedInv, SuddenInv, Running
<1>6. QED BY <1>1, <1>3, <1>4, <1>5, SameTurns DEF RecordInv

\* Where a write to the sudden-death turn goes: to the last turn of the record,
\* or to a turn opened for it.
LEMMA SuddenPlace ==
  ASSUME RecordInv, EngineInv, NEW rec \in TurnRecords,
         turns' = [SDTurns EXCEPT ![SDIndex] = rec]
  PROVE  /\ turns' \in Seq(TurnRecords) /\ SDIndex \in Nat \ {0} /\ Len(turns') = SDIndex
         /\ DOMAIN turns' = DOMAIN turns \cup {SDIndex} /\ turns'[SDIndex] = rec
         /\ \A i \in DOMAIN turns \ {SDIndex} : turns'[i] = turns[i]
         /\ SDIndex \in DOMAIN turns <=> sdTurn # 0
         /\ SDIndex \in DOMAIN turns => SDIndex = Len(turns) /\ SDTurns[SDIndex] = turns[SDIndex]
         /\ SDIndex \notin DOMAIN turns =>
              /\ SDIndex = Len(turns) + 1
              /\ SDTurns[SDIndex] = EmptyTurn("sudden_death", clueGiver)
         /\ SDIndex = Len(LiveClues) + 1
<1>1. turns \in Seq(TurnRecords) /\ sdTurn \in {0, Len(turns)} /\ Len(turns) \in Nat
  BY DEF RecordInv, RecordTypes, ShapeInv
<1>2. history \in Seq(ClueEntries) /\ clue \in ClueEntries /\ clueGiver \in Seats
  BY DEF EngineInv, PhaseInv, TypeOK
<1>3. CASE sdTurn = 0
  <2> DEFINE new == EmptyTurn("sudden_death", clueGiver)
  <2>1. new \in TurnRecords
    BY <1>2, EmptyTurnType
  <2>2. SDTurns = Append(turns, new) /\ SDIndex = Len(turns) + 1
    BY <1>3 DEF SDTurns, SDIndex
  <2> HIDE DEF new
  <2>3. /\ SDTurns \in Seq(TurnRecords) /\ Len(SDTurns) = Len(turns) + 1
        /\ SDTurns[SDIndex] = new /\ \A i \in 1..Len(turns) : SDTurns[i] = turns[i]
    BY <1>1, <2>1, <2>2, AppendProperties
  <2>4. DOMAIN turns = 1..Len(turns) /\ DOMAIN SDTurns = 1..(Len(turns) + 1)
    BY <1>1, <2>3
  <2>5. /\ turns' \in Seq(TurnRecords) /\ Len(turns') = Len(turns) + 1
        /\ turns'[SDIndex] = rec /\ \A i \in 1..Len(turns) : turns'[i] = turns[i]
    <3>1. SDIndex \in 1..Len(SDTurns)
      BY <1>1, <2>2, <2>3
    <3>2. /\ turns' \in Seq(TurnRecords) /\ Len(turns') = Len(SDTurns)
          /\ \A j \in 1..Len(SDTurns) : turns'[j] = IF j = SDIndex THEN rec ELSE SDTurns[j]
      BY <2>3, <3>1, ExceptSeq
    <3>3. QED BY <1>1, <2>2, <2>3, <3>1, <3>2
  <2>6. Len(turns) = Len(LiveClues)
    BY <1>3 DEF RecordInv, ShapeInv
  <2>7. SDIndex \notin DOMAIN turns /\ DOMAIN turns' = DOMAIN turns \cup {SDIndex}
    <3>1. DOMAIN turns' = 1..(Len(turns) + 1)
      BY <2>5
    <3>2. \A m \in Nat : 1..(m + 1) = 1..m \cup {m + 1} /\ m + 1 \notin 1..m
      OBVIOUS
    <3>3. QED BY <1>1, <2>2, <2>4, <3>1, <3>2
  <2>8. SDTurns[SDIndex] = EmptyTurn("sudden_death", clueGiver)
    BY <2>3 DEF new
  <2>9. SDIndex = Len(LiveClues) + 1 /\ SDIndex \in Nat \ {0} /\ Len(turns') = SDIndex
    BY <1>1, <2>2, <2>5, <2>6
  <2>10. \A i \in DOMAIN turns \ {SDIndex} : turns'[i] = turns[i]
    BY <2>4, <2>5
  <2>11. QED BY <1>3, <2>2, <2>5, <2>7, <2>8, <2>9, <2>10
<1>4. CASE sdTurn # 0
  <2>1. SDTurns = turns /\ SDIndex = sdTurn /\ sdTurn = Len(turns)
    BY <1>1, <1>4 DEF SDTurns, SDIndex
  <2>2. sdTurn \in DOMAIN turns /\ DOMAIN turns = 1..Len(turns)
    BY <1>1, <1>4, <2>1
  <2>3. Len(turns) = Len(LiveClues) + 1
    BY <1>4 DEF RecordInv, ShapeInv
  <2>4. QED BY <1>1, <1>4, <2>1, <2>2, <2>3, UpdateTurn
<1>5. QED BY <1>3, <1>4

\* Writing to the sudden-death turn, which is opened when it is not there.
LEMMA SuddenWrite ==
  ASSUME RecordInv, EngineInv, phase \in SDPhases, NEW rec \in TurnRecords,
         turns' = [SDTurns EXCEPT ![SDIndex] = rec], sdTurn' = SDIndex,
         rec.phase = "sudden_death", rec.reveals = SDTurns[SDIndex].reveals,
         rec.sdMeasured = sdRanked', LinkedTurn(rec),
         UNCHANGED <<phase, clue, history, revealed, markers>>
  PROVE  /\ turns' \in Seq(TurnRecords) /\ sdTurn' \in Nat \ {0} /\ turns'[sdTurn'] = rec
         /\ BoardRebuildsFromReveals' /\ RevealsLinkToProposals' /\ TimerRunsDown'
         /\ ShapeInv' /\ MatchInv'
<1>1. turns \in Seq(TurnRecords) /\ sdTurn \in {0, Len(turns)} /\ Len(turns) \in Nat
  BY DEF RecordInv, RecordTypes, ShapeInv
<1>2. LiveClues' = LiveClues
  BY DEF LiveClues
<1>3. history \in Seq(ClueEntries) /\ clue \in ClueEntries /\ clueGiver \in Seats
  BY DEF EngineInv, PhaseInv, TypeOK
<1>4. Len(LiveClues) \in Nat /\ DOMAIN LiveClues = 1..Len(LiveClues)
  BY <1>3 DEF LiveClues
<1>5. /\ turns' \in Seq(TurnRecords) /\ SDIndex \in Nat \ {0} /\ Len(turns') = SDIndex
      /\ DOMAIN turns' = DOMAIN turns \cup {SDIndex} /\ turns'[SDIndex] = rec
      /\ \A i \in DOMAIN turns \ {SDIndex} : turns'[i] = turns[i]
      /\ SDIndex \in DOMAIN turns <=> sdTurn # 0
      /\ SDIndex \in DOMAIN turns => SDTurns[SDIndex] = turns[SDIndex]
      /\ SDIndex \notin DOMAIN turns => SDTurns[SDIndex].reveals = <<>>
      /\ SDIndex = Len(LiveClues) + 1
  <2>1. EmptyTurn("sudden_death", clueGiver).reveals = <<>>
    BY DEF EmptyTurn
  <2>2. QED BY <2>1, SuddenPlace
<1>6. \A i \in DOMAIN turns \ {SDIndex} : turns[i].phase = "normal" /\ i # sdTurn
  BY <1>1, <1>5 DEF RecordInv, ShapeInv, SDIndex
<1>7. sdTurn # 0 => turns[sdTurn].phase = "sudden_death" /\ SDIndex = sdTurn
  BY <1>5 DEF RecordInv, ShapeInv, SDIndex
<1>8. BoardRebuildsFromReveals' /\ RevealsLinkToProposals' /\ TimerRunsDown'
  BY <1>5, <1>7, WriteTurn
<1>9. ShapeInv'
  <2>1. \A i \in DOMAIN turns' :
          turns'[i].phase = IF i = sdTurn' THEN "sudden_death" ELSE "normal"
    BY <1>5, <1>6
  <2>2. sdTurn' = Len(turns') /\ sdTurn' # 0
    BY <1>5
  <2>3. Len(turns') = Len(LiveClues') + 1
    BY <1>2, <1>5
  <2>4. phase' \in SDPhases /\ phase' \notin {GivingClue, Guessing}
    BY PhasesDistinct
  <2>5. turns'[sdTurn'].sdMeasured = sdRanked'
    BY <1>5
  <2>6. QED BY <2>1, <2>2, <2>3, <2>4, <2>5 DEF ShapeInv
<1>10. MatchInv'
  <2>1. \A i \in DOMAIN LiveClues : i \in DOMAIN turns' /\ i # SDIndex
    BY <1>4, <1>5
  <2>2. QED BY <1>2, <1>5, <2>1 DEF RecordInv, MatchInv
<1>11. QED BY <1>5, <1>8, <1>9, <1>10

\* What the reveals of a turn are.
LEMMA RevealTypes ==
  ASSUME NEW t \in TurnRecords
  PROVE  /\ t.reveals \in Seq(Reveals) /\ Len(t.reveals) \in Nat
         /\ DOMAIN t.reveals = 1..Len(t.reveals)
         /\ \A k \in DOMAIN t.reveals :
              t.reveals[k].seat \in Seats /\ t.reveals[k].index \in Nat
<1>1. t.reveals \in Seq(Reveals)
  BY DEF TurnRecords
<1>2. Len(t.reveals) \in Nat /\ DOMAIN t.reveals = 1..Len(t.reveals)
      /\ \A k \in 1..Len(t.reveals) : t.reveals[k] \in Reveals
  BY <1>1
<1>3. \A r \in Reveals : r.seat \in Seats /\ r.index \in Nat
  BY DEF Reveals
<1>4. QED BY <1>1, <1>2, <1>3

\* The sudden-death turn as the recorder finds or opens it.
LEMMA SuddenTurn ==
  ASSUME RecordInv, EngineInv, phase \in SDPhases
  PROVE  /\ SDTurns[SDIndex] \in TurnRecords /\ LinkedTurn(SDTurns[SDIndex])
         /\ SDTurns[SDIndex].phase = "sudden_death"
         /\ SDTurns[SDIndex].sdMeasured = sdRanked
         /\ at # "resolve" /\ at \in Running =>
              \A k \in DOMAIN SDTurns[SDIndex].reveals :
                SDTurns[SDIndex].reveals[k].seat # Acting
         /\ phase = SDLlm =>
              \A k \in DOMAIN SDTurns[SDIndex].reveals : SDTurns[SDIndex].reveals[k].seat = 0
<1>1. turns \in Seq(TurnRecords) /\ sdTurn \in {0, Len(turns)} /\ Len(turns) \in Nat
  BY DEF RecordInv, RecordTypes, ShapeInv
<1>2. CASE sdTurn = 0
  <2> DEFINE new == EmptyTurn("sudden_death", clueGiver)
  <2>1. new \in TurnRecords
    BY EmptyTurnType DEF EngineInv, PhaseInv, TypeOK
  <2>2. new.reveals = <<>> /\ new.phase = "sudden_death" /\ new.sdMeasured = {}
    BY DEF EmptyTurn
  <2> HIDE DEF new
  <2>3. SDTurns = Append(turns, new) /\ SDIndex = Len(turns) + 1
    BY <1>2 DEF SDTurns, SDIndex, new
  <2>4. SDTurns[SDIndex] = new
    BY <1>1, <2>1, <2>3, AppendProperties
  <2>5. LinkedTurn(new)
    BY <2>2 DEF LinkedTurn
  <2>6. sdRanked = {}
    BY <1>2 DEF RecordInv, ShapeInv
  <2>7. QED BY <2>1, <2>2, <2>4, <2>5, <2>6
<1>3. CASE sdTurn # 0
  <2>1. SDTurns[SDIndex] = turns[sdTurn] /\ sdTurn \in DOMAIN turns
    BY <1>1, <1>3 DEF SDTurns, SDIndex
  <2>2. turns[sdTurn] \in TurnRecords
    BY <1>1, <2>1
  <2>3. LinkedTurn(turns[sdTurn])
    BY <2>1, TurnByTurn DEF RecordInv
  <2>4. turns[sdTurn].phase = "sudden_death" /\ turns[sdTurn].sdMeasured = sdRanked
    BY <1>3, <2>1 DEF RecordInv, ShapeInv
  <2>5. QED BY <1>3, <2>1, <2>2, <2>3, <2>4 DEF RecordInv, SuddenInv
<1>4. QED BY <1>2, <1>3

\* A sudden-death measurement is written to the engine and to the one turn.
LEMMA MeasureSuddenDeathKeeps ==
  ASSUME RecordInv, EngineInv, MeasureSuddenDeath
  PROVE  RecordInv'
<1> DEFINE t == SDTurns[SDIndex]
           rec == [t EXCEPT !.sdMeasured = @ \cup {Acting}]
<1>1. /\ phase \in SDPhases /\ at = "measure" /\ at' = "propose_sd"
      /\ UNCHANGED <<proposal, next>>
  BY DEF MeasureSuddenDeath
<1>2. CASE AttachSuddenDeathRanking(Acting) /\ RecordSDMeasurement(Acting)
  <2>1. /\ UNCHANGED <<phase, guesser, clueGiver, clue, history, turn, revealed, markers>>
        /\ sdRanked' = sdRanked \cup {Acting}
        /\ turns' = [SDTurns EXCEPT ![SDIndex] = rec] /\ sdTurn' = SDIndex
    BY <1>2 DEF AttachSuddenDeathRanking, RecordSDMeasurement, roleVars, cardVars
  <2>2. /\ t \in TurnRecords /\ LinkedTurn(t) /\ t.phase = "sudden_death"
        /\ t.sdMeasured = sdRanked
        /\ \A k \in DOMAIN t.reveals : t.reveals[k].seat # Acting
        /\ phase = SDLlm => \A k \in DOMAIN t.reveals : t.reveals[k].seat = 0
    BY <1>1, SuddenTurn DEF Running
  <2>3. Acting \in Seats
    BY ActingIsASeat DEF EngineInv, PhaseInv
  <2> HIDE DEF t
  <2>4. /\ rec \in TurnRecords /\ rec.phase = t.phase /\ rec.reveals = t.reveals
        /\ rec.giver = t.giver /\ rec.play = t.play /\ rec.sdPlay = t.sdPlay
        /\ rec.sdMeasured = sdRanked'
    BY <2>1, <2>2, <2>3 DEF TurnRecords
  <2> HIDE DEF rec
  <2>5. LinkedTurn(rec)
    BY <2>2, <2>4 DEF LinkedTurn
  <2>6. /\ turns' \in Seq(TurnRecords) /\ sdTurn' \in Nat \ {0} /\ turns'[sdTurn'] = rec
        /\ BoardRebuildsFromReveals' /\ RevealsLinkToProposals' /\ TimerRunsDown'
        /\ ShapeInv' /\ MatchInv'
    BY <1>1, <2>1, <2>2, <2>4, <2>5, SuddenWrite DEF t
  <2>7. RecordTypes' /\ ClueInv'
    BY <1>1, <2>1, <2>6 DEF RecordInv, RecordTypes, ClueInv
  <2>8. Acting' = Acting
    BY <2>1 DEF Acting
  <2>9. GuessedInv' /\ SuddenInv'
    BY <1>1, <2>1, <2>2, <2>4, <2>6, <2>8, PhasesDistinct DEF GuessedInv, SuddenInv
  <2>10. QED BY <2>6, <2>7, <2>9 DEF RecordInv
<1>3. CASE UNCHANGED <<vars, recordVars>>
  <2>1. /\ UNCHANGED <<phase, clueGiver, guesser, clue, history, turn, sdRanked>>
        /\ UNCHANGED <<revealed, markers, turns, sdTurn>>
    BY <1>3 DEF vars, roleVars, measureVars, cardVars, recordVars
  <2>2. LiveClues' = LiveClues /\ Acting' = Acting
    BY <2>1 DEF LiveClues, Acting
  <2>3. RecordTypes' /\ ClueInv' /\ MatchInv'
    BY <1>1, <2>1, <2>2 DEF RecordInv, RecordTypes, ClueInv, MatchInv
  <2>4. ShapeInv'
    BY <1>1, <2>1, <2>2 DEF RecordInv, ShapeInv
  <2>5. GuessedInv' /\ SuddenInv'
    BY <1>1, <2>1, <2>2, PhasesDistinct DEF RecordInv, GuessedInv, SuddenInv, Running
  <2>6. QED BY <2>1, <2>3, <2>4, <2>5, SameTurns DEF RecordInv
<1>4. QED BY <1>2, <1>3 DEF MeasureSuddenDeath

\* A seat proposes before its own first reveal of the sudden-death turn.
LEMMA ProposeGuessSDKeeps ==
  ASSUME RecordInv, EngineInv, DriverInv, NEW words \in Proposals, ProposeGuessSD(words)
  PROVE  RecordInv'
<1> DEFINE t == SDTurns[SDIndex]
           rec == [t EXCEPT !.sdPlay[Acting] = words]
<1>1. /\ at = "propose_sd" /\ at' = "resolve" /\ proposal' = words /\ next' = 1
      /\ UNCHANGED <<phase, guesser, clueGiver, clue, history, turn, sdRanked>>
      /\ UNCHANGED <<revealed, markers>>
      /\ turns' = [SDTurns EXCEPT ![SDIndex] = rec] /\ sdTurn' = SDIndex
  BY DEF ProposeGuessSD, RecordSDPlayProposal, vars, roleVars, measureVars, cardVars
<1>2. phase \in SDPhases
  BY <1>1 DEF DriverInv, PlaceInv, Running, EngineInv, PhaseInv, TypeOK, Phases, SDPhases
<1>3. /\ t \in TurnRecords /\ LinkedTurn(t) /\ t.phase = "sudden_death"
      /\ t.sdMeasured = sdRanked
      /\ \A k \in DOMAIN t.reveals : t.reveals[k].seat # Acting
      /\ phase = SDLlm => \A k \in DOMAIN t.reveals : t.reveals[k].seat = 0
  BY <1>1, <1>2, SuddenTurn DEF Running
<1>4. Acting \in Seats /\ words \in Seq(ClueWords)
  BY ActingIsASeat, ProposalsAssumption DEF EngineInv, PhaseInv
<1> HIDE DEF t
<1>5. t.sdPlay \in [Seats -> Seq(ClueWords)] /\ t.reveals \in Seq(Reveals)
  BY <1>3 DEF TurnRecords
<1>6. /\ rec \in TurnRecords /\ rec.phase = t.phase /\ rec.reveals = t.reveals
      /\ rec.giver = t.giver /\ rec.play = t.play /\ rec.sdMeasured = t.sdMeasured
      /\ rec.sdPlay = [t.sdPlay EXCEPT ![Acting] = words]
  BY <1>3, <1>4, <1>5 DEF TurnRecords
<1>7. rec.sdPlay[Acting] = words /\ \A s \in Seats \ {Acting} : rec.sdPlay[s] = t.sdPlay[s]
  BY <1>4, <1>5, <1>6
<1> HIDE DEF rec
<1>8. LinkedTurn(rec)
  <2>1. \A k \in DOMAIN t.reveals : t.reveals[k].seat \in Seats \ {Acting}
    BY <1>3, RevealTypes
  <2>2. QED BY <1>3, <1>6, <1>7, <2>1 DEF LinkedTurn
<1>9. /\ turns' \in Seq(TurnRecords) /\ sdTurn' \in Nat \ {0} /\ turns'[sdTurn'] = rec
      /\ BoardRebuildsFromReveals' /\ RevealsLinkToProposals' /\ TimerRunsDown'
      /\ ShapeInv' /\ MatchInv'
  BY <1>1, <1>2, <1>3, <1>6, <1>8, SuddenWrite DEF t
<1>10. RecordTypes' /\ ClueInv'
  BY <1>1, <1>4, <1>9 DEF RecordInv, RecordTypes, ClueInv
<1>11. Acting' = Acting
  BY <1>1 DEF Acting
<1>12. GuessedInv' /\ SuddenInv'
  <2>1. phase' \in SDPhases /\ phase' # Guessing /\ phase' = phase
    BY <1>1, <1>2, PhasesDistinct
  <2>2. GuessedInv'
    BY <2>1 DEF GuessedInv
  <2>3. phase = SDLlm => \A k \in DOMAIN rec.reveals : rec.reveals[k].seat = 0
    BY <1>3, <1>6
  <2>4. rec.sdPlay[Acting'] = proposal'
    BY <1>1, <1>7, <1>11
  <2>5. \A k \in DOMAIN rec.reveals : rec.reveals[k].seat # Acting'
    BY <1>3, <1>6, <1>11
  <2>6. at' = "resolve"
    BY <1>1
  <2>7. SuddenInv'
    BY <1>9, <2>1, <2>3, <2>4, <2>5, <2>6 DEF SuddenInv
  <2>8. QED BY <2>2, <2>7
<1>13. QED BY <1>9, <1>10, <1>12 DEF RecordInv

\* A skipped word only moves the index on.
LEMMA SkipWordKeeps ==
  ASSUME RecordInv, EngineInv, SkipWord
  PROVE  RecordInv'
<1>1. /\ at = "resolve" /\ at' = at /\ next' = next + 1 /\ next \in Nat \ {0}
      /\ UNCHANGED <<phase, clueGiver, guesser, clue, history, turn, sdRanked, timer>>
      /\ UNCHANGED <<revealed, markers, guesses, turns, sdTurn, proposal>>
  BY DEF SkipWord, vars, roleVars, measureVars, cardVars, tokenVars, recordVars,
         RecordInv, RecordTypes
<1>2. LiveClues' = LiveClues /\ Acting' = Acting
  BY <1>1 DEF LiveClues, Acting
<1>3. RecordTypes' /\ ClueInv' /\ MatchInv'
  BY <1>1, <1>2 DEF RecordInv, RecordTypes, ClueInv, MatchInv
<1>4. ShapeInv'
  BY <1>1, <1>2 DEF RecordInv, ShapeInv
<1>5. GuessedInv'
  <2> SUFFICES ASSUME phase = Guessing PROVE GuessedInv'
    BY <1>1 DEF GuessedInv
  <2>1. turns[Len(turns)] \in TurnRecords
    BY GuessedTurn
  <2>2. \A k \in DOMAIN turns[Len(turns)].reveals :
          turns[Len(turns)].reveals[k].index \in Nat
    BY <2>1, RevealTypes
  <2>3. \A k \in DOMAIN turns[Len(turns)].reveals :
          turns[Len(turns)].reveals[k].index < next + 1
    BY <1>1, <2>2 DEF RecordInv, GuessedInv
  <2>4. QED BY <1>1, <2>3 DEF RecordInv, GuessedInv
<1>6. SuddenInv'
  <2> SUFFICES ASSUME phase \in SDPhases, sdTurn # 0 PROVE SuddenInv'
    BY <1>1 DEF SuddenInv
  <2>1. SDTurns[SDIndex] = turns[sdTurn] /\ SDTurns[SDIndex] \in TurnRecords
    BY SuddenTurn DEF SDTurns, SDIndex
  <2>2. \A k \in DOMAIN turns[sdTurn].reveals : turns[sdTurn].reveals[k].index \in Nat
    BY <2>1, RevealTypes
  <2>3. \A k \in DOMAIN turns[sdTurn].reveals :
          turns[sdTurn].reveals[k].index < next => turns[sdTurn].reveals[k].index < next + 1
    BY <1>1, <2>2
  <2>4. QED BY <1>1, <1>2, <2>3 DEF RecordInv, SuddenInv
<1>7. QED BY <1>1, <1>3, <1>4, <1>5, <1>6, SameTurns DEF RecordInv

\* The turn a guess belongs to, and where the proposal being resolved stands in it.
GuessTurn == IF phase \in SDPhases THEN sdTurn ELSE Len(turns)

\* That turn, while its proposal is resolved.
LEMMA ResolvedTurn ==
  ASSUME RecordInv, EngineInv, at = "resolve", phase \in {Guessing} \cup SDPhases
  PROVE  /\ GuessTurn \in DOMAIN turns /\ turns[GuessTurn] \in TurnRecords
         /\ LinkedTurn(turns[GuessTurn])
         /\ turns[GuessTurn].phase = IF phase = Guessing THEN "normal" ELSE "sudden_death"
         /\ \A k \in DOMAIN turns[GuessTurn].reveals :
              turns[GuessTurn].reveals[k].seat = Acting =>
                turns[GuessTurn].reveals[k].index < next
         /\ phase = Guessing =>
              /\ GuessTurn = Len(turns) /\ sdTurn = 0 /\ sdRanked = {}
              /\ TimedTurn(turns[GuessTurn])
              /\ turns[GuessTurn].play = proposal
              /\ Acting = Other(turns[GuessTurn].giver)
              /\ \A k \in DOMAIN turns[GuessTurn].reveals :
                   /\ turns[GuessTurn].reveals[k].index < next
                   /\ ~turns[GuessTurn].reveals[k].endedTurn
                   /\ ~turns[GuessTurn].reveals[k].endedGame
                   /\ turns[GuessTurn].reveals[k].timer = timer
         /\ phase \in SDPhases =>
              /\ GuessTurn = sdTurn /\ sdTurn # 0 /\ sdTurn = Len(turns)
              /\ turns[GuessTurn].sdPlay[Acting] = proposal
              /\ turns[GuessTurn].sdMeasured = sdRanked
              /\ phase = SDLlm =>
                   \A k \in DOMAIN turns[GuessTurn].reveals :
                     turns[GuessTurn].reveals[k].seat = 0
<1>1. CASE phase = Guessing
  <2>1. GuessTurn = Len(turns)
    BY <1>1, PhasesDistinct DEF GuessTurn
  <2>2. /\ Len(turns) \in DOMAIN turns /\ turns[Len(turns)] \in TurnRecords
        /\ turns[Len(turns)].phase = "normal" /\ turns[Len(turns)].giver = clueGiver
        /\ sdTurn = 0 /\ sdRanked = {}
    BY <1>1, GuessedTurn
  <2>3. LinkedTurn(turns[Len(turns)]) /\ TimedTurn(turns[Len(turns)])
    BY <2>2, TurnByTurn DEF RecordInv
  <2>4. Acting = Other(clueGiver)
    <3>1. clueGiver # guesser /\ clueGiver \in Seats /\ guesser \in Seats
      BY <1>1 DEF EngineInv, PhaseInv, TypeOK, PhaseFitsTheBoard
    <3>2. Acting = guesser
      BY <1>1, PhasesDistinct DEF Acting, SDPhases
    <3>3. QED BY <3>1, <3>2 DEF Seats, Other
  <2>5. /\ turns[Len(turns)].play = proposal
        /\ \A k \in DOMAIN turns[Len(turns)].reveals :
             /\ turns[Len(turns)].reveals[k].index < next
             /\ ~turns[Len(turns)].reveals[k].endedTurn
             /\ ~turns[Len(turns)].reveals[k].endedGame
             /\ turns[Len(turns)].reveals[k].timer = timer
    BY <1>1 DEF RecordInv, GuessedInv
  <2>6. QED BY <1>1, <2>1, <2>2, <2>3, <2>4, <2>5, PhasesDistinct
<1>2. CASE phase \in SDPhases
  <2>1. GuessTurn = sdTurn /\ sdTurn # 0 /\ sdTurn = Len(turns)
    BY <1>2 DEF GuessTurn, RecordInv, ShapeInv
  <2>2. SDTurns[SDIndex] = turns[sdTurn]
    BY <2>1 DEF SDTurns, SDIndex
  <2>3. /\ turns[sdTurn] \in TurnRecords /\ LinkedTurn(turns[sdTurn])
        /\ turns[sdTurn].phase = "sudden_death" /\ turns[sdTurn].sdMeasured = sdRanked
        /\ phase = SDLlm =>
             \A k \in DOMAIN turns[sdTurn].reveals : turns[sdTurn].reveals[k].seat = 0
    BY <1>2, <2>2, SuddenTurn
  <2>4. sdTurn \in DOMAIN turns
    BY <2>1 DEF RecordInv, RecordTypes
  <2>5. /\ turns[sdTurn].sdPlay[Acting] = proposal
        /\ \A k \in DOMAIN turns[sdTurn].reveals :
             turns[sdTurn].reveals[k].seat = Acting => turns[sdTurn].reveals[k].index < next
    BY <1>2, <2>1 DEF RecordInv, SuddenInv
  <2>6. QED BY <1>2, <2>1, <2>3, <2>4, <2>5, PhasesDistinct
<1>3. QED BY <1>1, <1>2

\* One more reveal keeps the board and the rows of the record together.
LEMMA BoardKeeps ==
  ASSUME RecordInv, TypeOK, NEW n, NEW r, Revealing(n, r), r.card \in Cards,
         r.seat \in Seats,
         turns[n].phase = IF phase = Guessing THEN "normal" ELSE "sudden_death",
         \/ /\ r.role = Agent
            /\ revealed' = revealed \cup {r.card} /\ markers' = markers
         \/ /\ r.role = Civilian /\ phase = Guessing
            /\ revealed' = revealed
            /\ markers' = [markers EXCEPT ![r.card] = @ \cup {r.seat}]
         \/ /\ r.role # Agent
            /\ phase = Guessing => r.role # Civilian
            /\ UNCHANGED <<revealed, markers>>
  PROVE  BoardRebuildsFromReveals'
<1> DEFINE Agents(S) == {x.card : x \in {y \in S : y.role = Agent}}
           On(S, c) == {x.seat : x \in {y \in S : y.card = c /\ y.role = Civilian}}
<1>1. /\ AllReveals' = AllReveals \cup {r}
      /\ NormalReveals' = IF phase = Guessing THEN NormalReveals \cup {r} ELSE NormalReveals
  BY OneMoreReveal
<1>2. revealed = Agents(AllReveals) /\ \A c \in Cards : markers[c] = On(NormalReveals, c)
  BY DEF RecordInv, BoardRebuildsFromReveals
<1>3. Agent # Civilian
  BY DEF Agent, Civilian
<1>4. /\ Agents(AllReveals \cup {r}) =
           IF r.role = Agent THEN Agents(AllReveals) \cup {r.card} ELSE Agents(AllReveals)
  OBVIOUS
<1>5. \A c \in Cards : On(NormalReveals \cup {r}, c) =
           IF r.card = c /\ r.role = Civilian
             THEN On(NormalReveals, c) \cup {r.seat} ELSE On(NormalReveals, c)
  OBVIOUS
<1>6. markers \in [Cards -> SUBSET Seats]
  BY DEF TypeOK
<1> HIDE DEF Agents, On
<1>7. revealed' = Agents(AllReveals')
  BY <1>1, <1>2, <1>3, <1>4
<1>8. ASSUME NEW c \in Cards PROVE markers'[c] = On(NormalReveals', c)
  BY <1>1, <1>2, <1>3, <1>5, <1>6
<1>9. QED BY <1>7, <1>8 DEF BoardRebuildsFromReveals, Agents, On

\* A played word is revealed in its turn as the engine resolved it.
LEMMA PlayWordKeeps ==
  ASSUME RecordInv, EngineInv, EngineInv', PlayWord
  PROVE  RecordInv'
<1> DEFINE c   == proposal[next]
           str == Returned(Side[Other(Acting)][c])
           n   == GuessTurn
           r   == RevealOf(c, str)
           rec == [turns[n] EXCEPT !.reveals = Append(turns[n].reveals, r)]
<1>1. /\ at = "resolve" /\ next <= Len(proposal) /\ c \in Cards
      /\ ResolveGuess(Acting, c) /\ RecordReveal(c, str) /\ at' = LoopAfter(str)
      /\ next' = next + 1 /\ proposal' = proposal /\ sdTurn' = sdTurn
  BY DEF PlayWord
<1>2. /\ Acting \in Seats /\ TypeOK /\ TypeOK' /\ PhaseInv /\ ClueInv
      /\ next \in Nat \ {0} /\ timer' \in Int
  BY ActingIsASeat DEF EngineInv, PhaseInv, RecordInv, RecordTypes, TypeOK
<1>3. phase \in {Guessing} \cup SDPhases
  BY <1>1, <1>2, PhasesDistinct DEF ResolveGuess, MayGuess
<1>4. /\ LiveClues' = LiveClues /\ ClueInv' /\ ResultRoleOf(str) \in Roles
      /\ \/ /\ ResultRoleOf(str) = Agent
            /\ revealed' = revealed \cup {c} /\ markers' = markers
         \/ /\ ResultRoleOf(str) = Civilian /\ phase = Guessing
            /\ revealed' = revealed
            /\ markers' = [markers EXCEPT ![c] = @ \cup {Acting}]
         \/ /\ ResultRoleOf(str) # Agent
            /\ phase = Guessing => ResultRoleOf(str) # Civilian
            /\ UNCHANGED <<revealed, markers>>
      /\ phase = Guessing =>
           timer' = timer - (IF str # Agent /\ ResultRoleOf(str) # Assassin THEN 1 ELSE 0)
  BY <1>1, <1>2, GuessTells
<1>5. /\ sdRanked' = sdRanked
      /\ \/ phase' = GameOver /\ str # Agent
         \/ phase = Guessing /\ TurnIsOver /\ str # Agent
         \/ phase = SDLlm /\ phase' = SDHuman
         \/ phase' = phase /\ str = Agent /\ timer' = timer
  BY <1>1, <1>2, GuessMoves
<1>6. /\ n \in DOMAIN turns /\ turns[n] \in TurnRecords /\ LinkedTurn(turns[n])
      /\ turns[n].phase = IF phase = Guessing THEN "normal" ELSE "sudden_death"
      /\ \A k \in DOMAIN turns[n].reveals :
           turns[n].reveals[k].seat = Acting => turns[n].reveals[k].index < next
      /\ phase = Guessing =>
           /\ n = Len(turns) /\ sdTurn = 0 /\ sdRanked = {} /\ TimedTurn(turns[n])
           /\ turns[n].play = proposal /\ Acting = Other(turns[n].giver)
           /\ \A k \in DOMAIN turns[n].reveals : /\ turns[n].reveals[k].index < next
                                                /\ ~turns[n].reveals[k].endedTurn
                                                /\ ~turns[n].reveals[k].endedGame
                                                /\ turns[n].reveals[k].timer = timer
      /\ phase \in SDPhases =>
           /\ n = sdTurn /\ sdTurn # 0 /\ sdTurn = Len(turns)
           /\ turns[n].sdPlay[Acting] = proposal /\ turns[n].sdMeasured = sdRanked
           /\ phase = SDLlm =>
                \A k \in DOMAIN turns[n].reveals : turns[n].reveals[k].seat = 0
  BY <1>1, <1>3, ResolvedTurn
<1>7. turns' = [turns EXCEPT ![n] = rec]
  BY <1>1 DEF RecordReveal, GuessTurn
<1>8. /\ r.card = c /\ r.role = ResultRoleOf(str) /\ r.seat = Acting /\ r.timer = timer'
      /\ r.index = next /\ (r.endedTurn <=> str # Agent) /\ (r.endedGame <=> phase' = GameOver)
      /\ r \in Reveals
  BY <1>1, <1>2, <1>4 DEF RevealOf, Reveals
<1>9. DOMAIN LiveClues \subseteq DOMAIN turns
  <2>1. LiveClues \in Seq(ClueEntries) /\ turns \in Seq(TurnRecords)
    BY <1>2 DEF LiveClues, TypeOK, RecordInv, RecordTypes
  <2>2. Len(LiveClues) <= Len(turns) /\ Len(LiveClues) \in Nat /\ Len(turns) \in Nat
    BY <2>1 DEF RecordInv, ShapeInv
  <2>3. QED BY <2>1, <2>2
<1> HIDE DEF c, str, n, r
<1>10. turns[n].reveals \in Seq(Reveals) /\ Append(turns[n].reveals, r) \in Seq(Reveals)
       /\ Len(turns[n].reveals) \in Nat /\ DOMAIN turns[n].reveals = 1..Len(turns[n].reveals)
       /\ \A k \in DOMAIN turns[n].reveals : turns[n].reveals[k].index \in Nat
  BY <1>6, <1>8, RevealTypes, AppendProperties
<1>11. /\ rec \in TurnRecords /\ rec.reveals = Append(turns[n].reveals, r)
       /\ rec.phase = turns[n].phase /\ rec.giver = turns[n].giver
       /\ rec.invalid = turns[n].invalid /\ rec.measured = turns[n].measured
       /\ rec.play = turns[n].play /\ rec.sdPlay = turns[n].sdPlay
       /\ rec.sdMeasured = turns[n].sdMeasured
  BY <1>6, <1>10 DEF TurnRecords
<1>12. LinkedTurn(rec)
  BY <1>1, <1>3, <1>6, <1>8, LinkedReveal, PhasesDistinct DEF c
<1>13. phase = Guessing => TimedTurn(rec)
  <2> SUFFICES ASSUME phase = Guessing PROVE TimedTurn(rec)
    OBVIOUS
  <2>1. r.timer = timer - (IF r.endedTurn /\ r.role # Assassin THEN 1 ELSE 0)
    BY <1>4, <1>8
  <2>2. timer \in Int
    BY <1>2 DEF TypeOK
  <2>3. QED BY <1>6, <1>8, <2>1, <2>2, TimedReveal
<1> HIDE DEF rec
<1>14. /\ turns' \in Seq(TurnRecords) /\ Len(turns') = Len(turns)
       /\ DOMAIN turns' = DOMAIN turns /\ turns'[n] = rec
       /\ \A i \in DOMAIN turns \ {n} : turns'[i] = turns[i]
  BY <1>6, <1>7, <1>11, UpdateTurn DEF RecordInv, RecordTypes
<1>15. RevealsLinkToProposals'
  BY <1>12, <1>14, TurnByTurn DEF RecordInv
<1>16. TimerRunsDown'
  BY <1>3, <1>6, <1>11, <1>13, <1>14, TurnByTurn, PhasesDistinct DEF RecordInv
<1>17. BoardRebuildsFromReveals'
  <2>1. Revealing(n, r)
    BY <1>6, <1>10, <1>11, <1>14 DEF Revealing
  <2>2. r.card = c /\ c \in Cards /\ r.seat \in Seats
    BY <1>1, <1>2, <1>8 DEF c
  <2>3. \/ /\ r.role = Agent
           /\ revealed' = revealed \cup {r.card} /\ markers' = markers
        \/ /\ r.role = Civilian /\ phase = Guessing
           /\ revealed' = revealed
           /\ markers' = [markers EXCEPT ![r.card] = @ \cup {r.seat}]
        \/ /\ r.role # Agent
           /\ phase = Guessing => r.role # Civilian
           /\ UNCHANGED <<revealed, markers>>
    BY <1>4, <1>8
  <2>4. QED BY <1>2, <1>6, <2>1, <2>2, <2>3, BoardKeeps
<1>18. RecordTypes'
  BY <1>1, <1>2, <1>14 DEF RecordInv, RecordTypes
<1>19. /\ phase = Guessing /\ phase' \in {Guessing} \cup SDPhases /\ at' = "resolve"
            => phase' = phase
       /\ phase \in SDPhases => phase' \in SDPhases \cup {GameOver}
  <2>1. str # Agent => at' \in {"flush", "dispatch"}
    BY <1>1 DEF LoopAfter, After, str, c
  <2>2. TurnIsOver => phase' \in {GivingClue} \cup SDPhases
    BY DEF TurnIsOver
  <2>3. QED BY <1>5, <2>1, <2>2, PhasesDistinct DEF SDPhases
<1>20. ShapeInv'
  <2>1. \A i \in DOMAIN turns' : turns'[i].phase = turns[i].phase
    BY <1>11, <1>14
  <2>2. phase' \in SDPhases /\ at' = "resolve" => sdTurn # 0
    BY <1>3, <1>6, <1>19, PhasesDistinct
  <2>3. phase' \in {GivingClue, Guessing} => sdTurn = 0
    BY <1>3, <1>6, <1>19, PhasesDistinct
  <2>4. sdTurn # 0 => turns'[sdTurn].sdMeasured = sdRanked
    BY <1>3, <1>6, <1>11, <1>14
  <2>5. QED BY <1>1, <1>4, <1>5, <1>14, <2>1, <2>2, <2>3, <2>4 DEF RecordInv, ShapeInv
<1>21. MatchInv'
  BY <1>4, <1>9, <1>11, <1>14 DEF RecordInv, MatchInv, Tells
<1>22. Len(rec.reveals) = Len(turns[n].reveals) + 1
       /\ DOMAIN rec.reveals = DOMAIN turns[n].reveals \cup {Len(rec.reveals)}
       /\ rec.reveals[Len(rec.reveals)] = r
       /\ \A k \in DOMAIN turns[n].reveals : rec.reveals[k] = turns[n].reveals[k]
  BY <1>8, <1>10, <1>11
<1>23. \A k \in DOMAIN turns[n].reveals :
         turns[n].reveals[k].index < next => turns[n].reveals[k].index < next + 1
  BY <1>2, <1>10
<1>24. GuessedInv'
  <2> SUFFICES ASSUME phase' = Guessing PROVE GuessedInv'
    BY DEF GuessedInv
  <2>1. phase = Guessing /\ str = Agent /\ timer' = timer
    BY <1>3, <1>5, <1>19, PhasesDistinct DEF TurnIsOver
  <2>2. at' = "resolve"
    BY <1>1, <2>1, PhasesDistinct DEF LoopAfter, str, c
  <2>3. turns'[Len(turns')] = rec /\ rec.play = proposal
    BY <1>6, <1>11, <1>14, <2>1
  <2>4. ~r.endedTurn /\ ~r.endedGame /\ r.timer = timer /\ r.index < next + 1
    <3>1. r.index < next + 1
      BY <1>2, <1>8
    <3>2. ~r.endedTurn /\ ~r.endedGame /\ r.timer = timer
      BY <1>8, <2>1, PhasesDistinct
    <3>3. QED BY <3>1, <3>2
  <2>5. \A k \in DOMAIN rec.reveals : /\ rec.reveals[k].index < next + 1
                                      /\ ~rec.reveals[k].endedTurn
                                      /\ ~rec.reveals[k].endedGame
                                      /\ rec.reveals[k].timer = timer
    BY <1>6, <1>22, <1>23, <2>1, <2>4
  <2>6. QED BY <1>1, <2>1, <2>2, <2>3, <2>5 DEF GuessedInv
<1>25. SuddenInv'
  <2> SUFFICES ASSUME phase' \in SDPhases, sdTurn # 0 PROVE SuddenInv'
    BY <1>1 DEF SuddenInv
  <2>1. phase \in SDPhases /\ turns'[sdTurn] = rec /\ rec.sdPlay = turns[n].sdPlay
    BY <1>3, <1>6, <1>11, <1>14
  <2>2. CASE phase = SDLlm /\ phase' = SDHuman
    <3>1. Acting = 0 /\ Acting' = 1
      BY <2>2, PhasesDistinct DEF Acting
    <3>2. at' # "resolve"
      BY <1>1, <2>1, <2>2, PhasesDistinct DEF LoopAfter, After, str, c
    <3>3. \A k \in DOMAIN rec.reveals : rec.reveals[k].seat = 0
      BY <1>6, <1>8, <1>22, <2>1, <2>2, <3>1
    <3>4. QED BY <1>1, <2>1, <2>2, <3>1, <3>2, <3>3, PhasesDistinct DEF SuddenInv
  <2>3. CASE phase' = phase /\ str = Agent
    <3>1. Acting' = Acting
      BY <2>1, <2>3, PhasesDistinct DEF Acting, SDPhases
    <3>2. at' = "resolve"
      BY <1>1, <2>3 DEF LoopAfter, str, c
    <3>3. phase = SDLlm => Acting = 0
      BY PhasesDistinct DEF Acting
    <3>4. phase = SDLlm => \A k \in DOMAIN rec.reveals : rec.reveals[k].seat = 0
      BY <1>6, <1>8, <1>22, <2>1, <3>3
    <3>5. r.index < next + 1
      BY <1>2, <1>8
    <3>6. \A k \in DOMAIN rec.reveals :
            rec.reveals[k].seat = Acting => rec.reveals[k].index < next + 1
      BY <1>6, <1>22, <1>23, <3>5
    <3>7. QED BY <1>1, <1>6, <2>1, <2>3, <3>1, <3>2, <3>4, <3>6 DEF SuddenInv
  <2>4. QED BY <1>5, <2>1, <2>2, <2>3, PhasesDistinct
<1>26. QED
  BY <1>4, <1>15, <1>16, <1>17, <1>18, <1>20, <1>21, <1>24, <1>25 DEF RecordInv

\* A voluntary stop archives the clue of the turn it ends.
LEMMA StopGuessingKeeps ==
  ASSUME RecordInv, EngineInv, StopGuessing
  PROVE  RecordInv'
<1>1. /\ phase = Guessing /\ at' = "dispatch" /\ SwitchRoles(clue)
      /\ UNCHANGED <<revealed, markers, turns, sdTurn, proposal, next>>
  BY DEF StopGuessing, PassTurn, StopTurn, cardVars, recordVars
<1>2. LiveClues' = LiveClues /\ ClueInv'
  BY <1>1, TurnArchives DEF RecordInv, EngineInv, PhaseInv
<1>3. phase' \in {GivingClue} \cup SDPhases /\ sdRanked' = sdRanked /\ sdTurn = 0
  BY <1>1, SwitchArchives, GuessedTurn DEF EngineInv, PhaseInv
<1>4. RecordTypes' /\ MatchInv'
  BY <1>1, <1>2 DEF RecordInv, RecordTypes, MatchInv
<1>5. ShapeInv'
  BY <1>1, <1>2, <1>3 DEF RecordInv, ShapeInv
<1>6. GuessedInv' /\ SuddenInv'
  BY <1>1, <1>3, PhasesDistinct DEF GuessedInv, SuddenInv
<1>7. QED BY <1>1, <1>2, <1>4, <1>5, <1>6, SameTurns DEF RecordInv

\* Nothing happens.
LEMMA IdleKeeps ==
  ASSUME RecordInv, UNCHANGED gameVars
  PROVE  RecordInv'
<1>1. /\ UNCHANGED <<phase, clueGiver, guesser, clue, history, turn, sdRanked, guesses>>
      /\ UNCHANGED <<revealed, markers, timer, turns, sdTurn, at, proposal, next>>
  BY DEF gameVars, vars, driverVars, recordVars, roleVars, measureVars, cardVars, tokenVars
<1>2. LiveClues' = LiveClues /\ Acting' = Acting
  BY <1>1 DEF LiveClues, Acting
<1>3. RecordTypes' /\ ClueInv' /\ MatchInv' /\ ShapeInv'
  BY <1>1, <1>2 DEF RecordInv, RecordTypes, ClueInv, MatchInv, ShapeInv
<1>4. GuessedInv'
  BY <1>1 DEF RecordInv, GuessedInv
<1>5. SuddenInv'
  BY <1>1, <1>2 DEF RecordInv, SuddenInv
<1>6. QED BY <1>1, <1>3, <1>4, <1>5, SameTurns DEF RecordInv

\* Every step keeps the invariant.
LEMMA RecordStep ==
  ASSUME RecordInv, EngineInv, EngineInv', DriverInv, [GameNext]_gameVars
  PROVE  RecordInv'
<1>1. ASSUME NEW word \in ClueWords, ConductClue(word) PROVE RecordInv'
  BY <1>1, ConductClueKeeps
<1>2. ASSUME NEW words \in Proposals, ProposeGuess(words) \/ ProposeGuessSD(words)
      PROVE  RecordInv'
  BY <1>2, ProposeGuessKeeps, ProposeGuessSDKeeps
<1>3. CASE MeasureNormal \/ EnterSuddenDeath \/ MeasureSuddenDeath
  BY <1>3, MeasureNormalKeeps, EnterSuddenDeathKeeps, MeasureSuddenDeathKeeps
<1>4. CASE SkipWord \/ PlayWord \/ StopGuessing
  BY <1>4, SkipWordKeeps, PlayWordKeeps, StopGuessingKeeps
<1>5. ASSUME NEW why, Raise(why) PROVE RecordInv'
  <2>1. /\ at' \notin Running /\ phase' \in {phase, GameOver}
        /\ UNCHANGED <<clueGiver, clue, history, turn, revealed, markers, sdRanked>>
        /\ UNCHANGED <<turns, sdTurn, proposal, next>>
    BY <1>5 DEF Raise, Running, vars, roleVars, measureVars, cardVars, recordVars
  <2>2. QED BY <2>1, StopKeeps
<1>6. CASE ModelCallFails \/ NothingPlayable \/ TooManyDispatches
  BY <1>5, <1>6 DEF ModelCallFails, NothingPlayable, TooManyDispatches
<1>7. CASE Concede
  <2>1. /\ at' \notin Running /\ phase' \in {phase, GameOver}
        /\ UNCHANGED <<clueGiver, clue, history, turn, revealed, markers, sdRanked>>
        /\ UNCHANGED <<turns, sdTurn, proposal, next>>
    BY <1>7 DEF Concede, ConcedeSuddenDeath, FinishGame, Running, roleVars, measureVars,
                cardVars, recordVars
  <2>2. QED BY <2>1, StopKeeps
<1>8. CASE FlushCommits \/ FlushFails \/ ErrorFlush
  <2>1. /\ at' \notin Running /\ phase' \in {phase, GameOver}
        /\ UNCHANGED <<clueGiver, clue, history, turn, revealed, markers, sdRanked>>
        /\ UNCHANGED <<turns, sdTurn, proposal, next>>
    BY <1>8 DEF FlushCommits, FlushFails, ErrorFlush, Running, vars, roleVars, measureVars,
                cardVars, recordVars
  <2>2. QED BY <2>1, StopKeeps
<1>9. CASE UNCHANGED gameVars
  BY <1>9, IdleKeeps
<1>10. QED
  BY <1>1, <1>2, <1>3, <1>4, <1>6, <1>7, <1>8, <1>9 DEF GameNext

\* A new game has an empty record.
LEMMA RecordInit == GameInit => RecordInv
<1> SUFFICES ASSUME GameInit PROVE RecordInv
  OBVIOUS
<1>1. /\ turns = <<>> /\ sdTurn = 0 /\ next = 1 /\ proposal = <<>> /\ at = "dispatch"
      /\ phase = GivingClue /\ clue = NoClue /\ turn = 1 /\ history = <<>> /\ sdRanked = {}
      /\ revealed = {} /\ markers = [c \in Cards |-> {}]
  BY DEF GameInit, Init
<1>2. RecordTypes /\ ClueInv
  BY <1>1, PhasesDistinct DEF RecordTypes, ClueInv
<1>3. LiveClues = <<>> /\ DOMAIN turns = {}
  BY <1>1 DEF LiveClues
<1>4. ShapeInv /\ MatchInv
  BY <1>1, <1>3, PhasesDistinct DEF ShapeInv, MatchInv
<1>5. GuessedInv /\ SuddenInv
  BY <1>1, PhasesDistinct DEF GuessedInv, SuddenInv
<1>6. RevealsLinkToProposals /\ TimerRunsDown
  BY <1>3 DEF RevealsLinkToProposals, TimerRunsDown, NormalTurns
<1>7. AllReveals = {} /\ NormalReveals = {}
  BY <1>3 DEF AllReveals, NormalReveals, NormalTurns
<1>8. BoardRebuildsFromReveals
  BY <1>1, <1>7 DEF BoardRebuildsFromReveals
<1>9. QED BY <1>2, <1>4, <1>5, <1>6, <1>8 DEF RecordInv

\* The record keeps its invariant in every game.
LEMMA RecordInvariant == GameSpec => []RecordInv
BY RecordInit, RecordStep, EngineInvariant, DriverInvariant, PTL DEF GameSpec

-----------------------------------------------------------------------------
(***************************************************************************)
(* What follows                                                            *)
(***************************************************************************)

\* The turns of the record are the clues of the engine, one for one, and then
\* the sudden-death turn.
LEMMA RecordMatches ==
  ASSUME RecordInv, EngineInv
  PROVE  RecordMatchesEngine
<1>1. /\ turns \in Seq(TurnRecords) /\ Len(turns) \in Nat /\ DOMAIN turns = 1..Len(turns)
      /\ sdTurn \in {0, Len(turns)}
  BY DEF RecordInv, RecordTypes, ShapeInv
<1>2. Len(LiveClues) \in Nat /\ DOMAIN LiveClues = 1..Len(LiveClues)
  BY DEF LiveClues, EngineInv, PhaseInv, TypeOK
<1>3. NormalTurns = {i \in DOMAIN turns : i # sdTurn}
  BY DEF RecordInv, ShapeInv, NormalTurns
<1>4. /\ sdTurn = 0 => Len(turns) = Len(LiveClues)
      /\ sdTurn # 0 => Len(turns) = Len(LiveClues) + 1 /\ sdTurn = Len(turns)
  <2>1. Len(turns) = Len(LiveClues) + (IF sdTurn = 0 THEN 0 ELSE 1)
    BY DEF RecordInv, ShapeInv
  <2>2. CASE sdTurn = 0
    BY <1>2, <2>1, <2>2
  <2>3. CASE sdTurn # 0
    BY <1>1, <2>1, <2>3
  <2>4. QED BY <2>2, <2>3
<1>5. NormalTurns = DOMAIN LiveClues /\ Len(turns) <= Len(LiveClues) + 1
  <2>1. CASE sdTurn = 0
    <3>1. Len(turns) = Len(LiveClues) /\ 0 \notin 1..Len(turns)
      BY <1>4, <2>1
    <3>2. QED BY <1>1, <1>2, <1>3, <2>1, <3>1
  <2>2. CASE sdTurn # 0
    <3>1. Len(turns) = Len(LiveClues) + 1 /\ sdTurn = Len(LiveClues) + 1
      BY <1>4, <2>2
    <3>2. \A i \in 1..(Len(LiveClues) + 1) :
            i # Len(LiveClues) + 1 <=> i \in 1..Len(LiveClues)
      BY <1>2
    <3>3. NormalTurns = {i \in 1..(Len(LiveClues) + 1) : i # Len(LiveClues) + 1}
      BY <1>1, <1>3, <3>1
    <3>4. 1..Len(LiveClues) \subseteq 1..(Len(LiveClues) + 1)
      BY <1>2
    <3>5. QED BY <1>2, <3>1, <3>2, <3>3, <3>4
  <2>3. QED BY <2>1, <2>2
<1>6. Len(turns) > Len(LiveClues) => turns[Len(turns)].sdMeasured = sdRanked
  <2>1. CASE sdTurn = 0
    <3>1. Len(turns) = Len(LiveClues)
      BY <1>4, <2>1
    <3>2. ~(Len(LiveClues) > Len(LiveClues))
      BY <1>2
    <3>3. QED BY <3>1, <3>2
  <2>2. CASE sdTurn # 0
    BY <1>4, <2>2 DEF RecordInv, ShapeInv
  <2>3. QED BY <2>1, <2>2
<1>7. QED BY <1>5, <1>6 DEF RecordInv, MatchInv, Tells, RecordMatchesEngine

\* What the recorder holds, and so what is stored, tells the game that was
\* played: a turn per clue, the covered words and the time tokens on them, where
\* each reveal came from and what it left of the reserve.
THEOREM RecordCorrect == GameSpec => []RecordTellsTheGame
<1>1. RecordInv /\ EngineInv => RecordTellsTheGame
  BY RecordMatches DEF RecordInv, RecordTellsTheGame
<1>2. QED BY <1>1, RecordInvariant, EngineInvariant, PTL

\* A guess never marks a clue or a seat as measured.
LEMMA GuessLeavesNoRanking ==
  ASSUME NEW p, NEW c, ResolveGuess(p, c)
  PROVE  clue' \in {clue, NoClue} /\ sdRanked' = sdRanked
<1>1. SwitchRoles(clue) => clue' = NoClue /\ sdRanked' = sdRanked
  BY DEF SwitchRoles
<1>2. UNCHANGED <<roleVars, measureVars>> => clue' = clue /\ sdRanked' = sdRanked
  BY DEF roleVars, measureVars
<1>3. CASE RevealAgent(p, c)
  <2>1. HandOffSuddenDeath => clue' = clue /\ sdRanked' = sdRanked
    BY DEF HandOffSuddenDeath, roleVars
  <2>2. QED
    BY <1>1, <1>2, <1>3, <2>1 DEF RevealAgent, WinAfterReveal, TurnEndsOnLastWord, StopTurn,
       KeepGuessing
<1>4. QED
  BY <1>1, <1>2, <1>3 DEF ResolveGuess, TouchAssassin, TouchBystander, MissInSuddenDeath

\* What a measurement comes before: no guess of its turn has been made yet.
BeforeGuessing ==
  /\ clue'.ranked /\ ~clue.ranked => guesses = 0
  /\ \A s \in sdRanked' \ sdRanked : \A r \in AllReveals \ NormalReveals : r.seat # s

\* Every step measures in time.
LEMMA MeasuredEarly ==
  ASSUME RecordInv, EngineInv, GameNext
  PROVE  BeforeGuessing
<1>1. ~NoClue.ranked
  BY DEF NoClue
<1>2. ASSUME clue' \in {clue, NoClue} \/ ~clue'.ranked, sdRanked' = sdRanked
      PROVE  BeforeGuessing
  BY <1>1, <1>2 DEF BeforeGuessing
<1>3. ASSUME UNCHANGED vars PROVE BeforeGuessing
  BY <1>2, <1>3 DEF vars, roleVars, measureVars
<1>4. ASSUME NEW word \in ClueWords, ConductClue(word) PROVE BeforeGuessing
  <2>1. ~ClueEntry(clueGiver, word).ranked
    BY DEF ClueEntry
  <2>2. (~clue'.ranked \/ clue' = NoClue) /\ sdRanked' = sdRanked
    BY <1>4, <2>1 DEF ConductClue, ReceiveClue, OpenGuessing, SwitchRoles, measureVars
  <2>3. QED BY <1>2, <2>2
<1>5. ASSUME NEW words \in Proposals, ProposeGuess(words) \/ ProposeGuessSD(words)
      PROVE  BeforeGuessing
  BY <1>3, <1>5 DEF ProposeGuess, ProposeGuessSD
<1>6. CASE MeasureNormal
  <2>1. guesses = 0 /\ sdRanked' = sdRanked
    BY <1>6 DEF MeasureNormal, AttachConfidenceRanking, RecordInv, GuessedInv, vars, measureVars
  <2>2. QED BY <2>1 DEF BeforeGuessing
<1>7. CASE MeasureSuddenDeath
  <2>1. CASE AttachSuddenDeathRanking(Acting)
    <3>1. /\ phase \in SDPhases /\ at = "measure" /\ clue' = clue
          /\ sdRanked' = sdRanked \cup {Acting}
      BY <1>7, <2>1 DEF MeasureSuddenDeath, AttachSuddenDeathRanking, roleVars
    <3>2. ASSUME NEW r \in AllReveals \ NormalReveals PROVE r.seat # Acting
      <4>1. PICK i \in DOMAIN turns : r \in RevealsOf(i)
        BY <3>2 DEF AllReveals
      <4>2. i \notin NormalTurns
        BY <3>2, <4>1 DEF NormalReveals
      <4>3. i = sdTurn /\ sdTurn # 0
        BY <4>2 DEF NormalTurns, RecordInv, RecordTypes, ShapeInv
      <4>4. \A k \in DOMAIN turns[i].reveals : turns[i].reveals[k].seat # Acting
        BY <3>1, <4>3 DEF RecordInv, SuddenInv, Running
      <4>5. QED BY <4>1, <4>4 DEF RevealsOf
    <3>3. QED BY <3>1, <3>2 DEF BeforeGuessing
  <2>2. CASE UNCHANGED vars
    BY <1>3, <2>2
  <2>3. QED BY <1>7, <2>1, <2>2 DEF MeasureSuddenDeath
<1>8. CASE PlayWord
  BY <1>2, <1>8, GuessLeavesNoRanking DEF PlayWord
<1>9. CASE StopGuessing
  BY <1>2, <1>9 DEF StopGuessing, PassTurn, StopTurn, SwitchRoles
<1>10. CASE Concede
  BY <1>2, <1>10 DEF Concede, ConcedeSuddenDeath, roleVars, measureVars
<1>11. CASE EnterSuddenDeath \/ SkipWord \/ ModelCallFails \/ NothingPlayable \/ TooManyDispatches
  BY <1>3, <1>11 DEF EnterSuddenDeath, SkipWord, ModelCallFails, NothingPlayable,
                     TooManyDispatches, Raise
<1>12. CASE FlushCommits \/ FlushFails \/ ErrorFlush
  BY <1>3, <1>12 DEF FlushCommits, FlushFails, ErrorFlush
<1>13. QED
  BY <1>4, <1>5, <1>6, <1>7, <1>8, <1>9, <1>10, <1>11, <1>12 DEF GameNext

\* No measurement is contaminated by a guess it is about: a clue is marked as
\* measured while nothing of its turn is touched, and a seat's sudden-death
\* measurement comes before that seat's first sudden-death reveal.
THEOREM MeasuredInTime == GameSpec => MeasuredBeforeGuessing
<1>1. RecordInv /\ EngineInv /\ [GameNext]_gameVars => [BeforeGuessing]_gameVars
  BY MeasuredEarly
<1>2. GameSpec => [][BeforeGuessing]_gameVars
  BY <1>1, RecordInvariant, EngineInvariant, PTL DEF GameSpec
<1>3. QED BY <1>2 DEF BeforeGuessing, MeasuredBeforeGuessing

\* The latch, the failure and the report are of their types.
StoreTypes ==
  /\ failure \in Failures
  /\ flushed \in BOOLEAN
  /\ report \in {"none", "completed", "error"}

\* Every step keeps them.
LEMMA StoreTypesStep ==
  ASSUME StoreTypes, [GameNext]_gameVars
  PROVE  StoreTypes'
<1>1. ASSUME UNCHANGED <<failure, storeVars>> PROVE StoreTypes'
  BY <1>1 DEF StoreTypes, storeVars
<1>2. ASSUME NEW why \in Failures, Raise(why) PROVE StoreTypes'
  BY <1>2 DEF StoreTypes, Raise, storeVars
<1>3. ASSUME NEW word \in ClueWords, ConductClue(word) PROVE StoreTypes'
  BY <1>1, <1>3 DEF ConductClue
<1>4. ASSUME NEW words \in Proposals, ProposeGuess(words) \/ ProposeGuessSD(words)
      PROVE  StoreTypes'
  BY <1>1, <1>4 DEF ProposeGuess, ProposeGuessSD
<1>5. CASE \/ MeasureNormal \/ EnterSuddenDeath \/ MeasureSuddenDeath
           \/ SkipWord \/ PlayWord \/ StopGuessing \/ Concede
  BY <1>1, <1>5 DEF MeasureNormal, EnterSuddenDeath, MeasureSuddenDeath, SkipWord, PlayWord,
                    StopGuessing, Concede
<1>6. CASE ModelCallFails \/ NothingPlayable \/ TooManyDispatches
  BY <1>2, <1>6 DEF ModelCallFails, NothingPlayable, TooManyDispatches, Failures
<1>7. CASE FlushCommits \/ FlushFails \/ ErrorFlush
  BY <1>7 DEF FlushCommits, FlushFails, ErrorFlush, StoreTypes, Failures
<1>8. CASE UNCHANGED gameVars
  BY <1>1, <1>8 DEF gameVars, driverVars
<1>9. QED BY <1>3, <1>4, <1>5, <1>6, <1>7, <1>8 DEF GameNext

\* Every variable of the engine, the driver, the recorder and the store keeps its
\* type; the stored row holds turns of the recorder's type.
THEOREM GameTypeCorrect == GameSpec => []GameTypeOK
<1>1. GameInit => StoreTypes
  BY DEF GameInit, StoreTypes, Failures
<1>2. GameSpec => []StoreTypes
  BY <1>1, StoreTypesStep, PTL DEF GameSpec
<1>3. StoreTypes /\ RowInv /\ RecordInv /\ DriverInv /\ EngineInv => GameTypeOK
  <2> SUFFICES ASSUME StoreTypes, RowInv, RecordInv, DriverInv, EngineInv PROVE GameTypeOK
    OBVIOUS
  <2>1. row \in Rows \cup {NoRow}
    <3>1. turns \in Seq(TurnRecords) /\ timer \in Int /\ result \in Results \cup {NoResult}
      BY DEF RecordInv, RecordTypes, EngineInv, PhaseInv, TypeOK
    <3>2. \A status \in {"completed", "error"} : RowOf(status) \in Rows
      BY <3>1 DEF RowOf, Rows
    <3>3. QED BY <3>2 DEF RowInv
  <2>2. TypeOK
    BY DEF EngineInv, PhaseInv
  <2>3. QED
    BY <2>1, <2>2 DEF GameTypeOK, StoreTypes, RowInv, RecordInv, RecordTypes, DriverInv, PaidInv
<1>4. QED
  BY <1>2, <1>3, RowInvariant, RecordInvariant, DriverInvariant, EngineInvariant, PTL

=============================================================================
