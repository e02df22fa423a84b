--------------------------- MODULE GameConductor ---------------------------
(***************************************************************************)
(* One game from its first dispatch to its report: the driver loop and the *)
(* error boundary of backend/app/core/game_runner.py, the conductors of    *)
(* backend/app/core/game_conductor.py with the phase gates of              *)
(* llm_service.py, the recorder of backend/app/db/recorder.py and the      *)
(* single transaction of backend/app/db/writer.py persist_game.            *)
(*                                                                         *)
(* The engine's own steps are DuetEngine's.  A game is one coroutine, so   *)
(* the state changes only between two awaits; `at' names the await the     *)
(* game stands at.  What a model answers is chosen freely, and so is       *)
(* whether a call or a transaction fails.                                  *)
(***************************************************************************)
EXTENDS DuetEngine

CONSTANTS
  Proposals,      \* what a guesser may propose: sequences of words
  MaxDispatches   \* the runner's safety cap (2000)

\* The JSON schema refuses an empty proposal; a proposed word need not be on
\* the board, and may be proposed twice.
ASSUME ProposalsAssumption == Proposals \subseteq Seq(ClueWords) \ {<<>>}
ASSUME MaxDispatchesAssumption == MaxDispatches \in Nat \ {0}

VARIABLES
  at,          \* where the game stands
  proposal,    \* proposal.proposals of the turn being resolved
  next,        \* the index (from 1) of the next proposed word
  turns,       \* recorder.turns
  sdTurn,      \* the index in turns of recorder._sd_turn, 0 if none
  dispatches,  \* dispatches made so far
  failure,     \* the exception that reached the error boundary
  flushed,     \* recorder.flushed
  row,         \* the game's row in the database, NoRow if none
  report       \* GameRunResult.status, "none" while the game runs

driverVars == <<at, proposal, next, dispatches, failure>>
recordVars == <<turns, sdTurn>>
storeVars  == <<flushed, row, report>>
gameVars   == <<vars, driverVars, recordVars, storeVars>>

Places == {"dispatch", "measure", "propose_sd", "resolve", "flush", "error", "done"}
Failures == {"none", "model_call", "no_playable_card", "too_many_dispatches", "persist"}
NoRow == [status |-> "none"]

\* The seat whose turn it is to guess, in each phase that has one.
Acting == CASE phase = SDLlm -> 0 [] phase = SDHuman -> 1 [] OTHER -> guesser

-----------------------------------------------------------------------------
(***************************************************************************)
(* The recorder                                                            *)
(***************************************************************************)

EmptyTurn(kind, giver) ==
  [number |-> Len(turns), phase |-> kind, giver |-> giver, invalid |-> FALSE,
   play |-> <<>>, measured |-> FALSE, reveals |-> <<>>,
   sdPlay |-> [s \in Seats |-> <<>>], sdMeasured |-> {}]

RecordClue(entry) ==
  /\ turns' = Append(turns, [EmptyTurn("normal", entry.giver) EXCEPT !.invalid = entry.invalid])
  /\ UNCHANGED sdTurn

RecordPlayProposal(words) ==
  /\ turns' = [turns EXCEPT ![Len(turns)].play = words]
  /\ UNCHANGED sdTurn

\* What ensure_sudden_death_turn leaves: the turn is opened once.
SDTurns == IF sdTurn = 0 THEN Append(turns, EmptyTurn("sudden_death", clueGiver)) ELSE turns
SDIndex == IF sdTurn = 0 THEN Len(turns) + 1 ELSE sdTurn

RecordSDMeasurement(s) ==
  /\ turns' = [SDTurns EXCEPT ![SDIndex].sdMeasured = @ \cup {s}]
  /\ sdTurn' = SDIndex

RecordSDPlayProposal(s, words) ==
  /\ turns' = [SDTurns EXCEPT ![SDIndex].sdPlay[s] = words]
  /\ sdTurn' = SDIndex

\* The string resolve_guess returns for a card of this role, read off the step.
Returned(role) ==
  CASE role = Agent /\ phase' = GameOver -> result'
    [] role = Agent /\ phase = Guessing /\ phase' \notin {Guessing, GameOver} -> "agent_turn_end"
    [] role = Agent /\ phase' # GameOver /\ (phase = Guessing => phase' = Guessing) -> Agent
    [] role # Agent /\ phase = Guessing -> role
    [] role # Agent /\ phase # Guessing -> result'

ResultRoleOf(str) ==
  CASE str \in {Agent, "agent_turn_end"} \cup Victories -> Agent
    [] str \in {Assassin, "loss_assassin_sd"} -> Assassin
    [] str \in {Civilian, "loss_civilian_sd"} -> Civilian

\* Mutant: the engine's outcome is stored as it came.
RevealRaw(c, str) ==
  [card |-> c, role |-> str, seat |-> Acting, timer |-> timer',
   index |-> next, endedTurn |-> str # Agent, endedGame |-> phase' = GameOver]

\* Mutant: the reserve is read before the guess is resolved.
RevealStale(c, str) ==
  [card |-> c, role |-> ResultRoleOf(str), seat |-> Acting, timer |-> timer,
   index |-> next, endedTurn |-> str # Agent, endedGame |-> phase' = GameOver]

RevealOf(c, str) ==
  [card |-> c, role |-> ResultRoleOf(str), seat |-> Acting, timer |-> timer',
   index |-> next, endedTurn |-> str # Agent, endedGame |-> phase' = GameOver]

RecordReveal(c, str) ==
  LET i == IF phase \in SDPhases THEN sdTurn ELSE Len(turns)
  IN  turns' = [turns EXCEPT ![i].reveals = Append(@, RevealOf(c, str))]

-----------------------------------------------------------------------------
(***************************************************************************)
(* The conductors                                                          *)
(***************************************************************************)

GameInit ==
  /\ Init
  /\ at = "dispatch"
  /\ proposal = <<>>
  /\ next = 1
  /\ turns = <<>>
  /\ sdTurn = 0
  /\ dispatches = 0
  /\ failure = "none"
  /\ flushed = FALSE
  /\ row = NoRow
  /\ report = "none"

\* Mutant: one dispatch too many.
OneTooMany ==
  /\ at = "dispatch"
  /\ dispatches <= MaxDispatches
  /\ dispatches' = dispatches + 1

\* The loop's head, while the cap allows another dispatch.
Dispatch ==
  /\ at = "dispatch"
  /\ dispatches < MaxDispatches
  /\ dispatches' = dispatches + 1

\* An exception reaches the boundary of run_single_game.
Raise(why) ==
  /\ at' = "error"
  /\ failure' = why
  /\ UNCHANGED <<vars, proposal, next, recordVars, storeVars>>

\* conduct_clue: the clue the model proposes goes to the engine and, before
\* anything else runs, to the recorder.
ConductClue(word) ==
  /\ Dispatch
  /\ phase = GivingClue
  /\ ReceiveClue(clueGiver, word)
  /\ RecordClue(ClueEntry(clueGiver, word))
  /\ UNCHANGED <<at, proposal, next, failure, storeVars>>

\* conduct_guess: the proposal is asked for and recorded before the
\* measurement; the service wants the clue of this very turn.
ProposeGuess(words) ==
  /\ Dispatch
  /\ phase = Guessing
  /\ clue.turn = turn
  /\ RecordPlayProposal(words)
  /\ proposal' = words
  /\ next' = 1
  /\ at' = "measure"
  /\ UNCHANGED <<vars, failure, storeVars>>

\* The measurement of a normal turn, taken or missed; a miss is only logged.
MeasureNormal ==
  /\ at = "measure"
  /\ phase = Guessing
  /\ \/ /\ AttachConfidenceRanking
        /\ turns' = [turns EXCEPT ![Len(turns)].measured = TRUE]
     \/ UNCHANGED <<vars, turns>>
  /\ at' = "resolve"
  /\ UNCHANGED <<proposal, next, dispatches, failure, sdTurn, storeVars>>

\* conduct_sd_guess measures first, and only while the flag is up.
EnterSuddenDeath ==
  /\ Dispatch
  /\ phase \in SDPhases
  /\ at' = IF sdPending THEN "measure" ELSE "propose_sd"
  /\ UNCHANGED <<vars, proposal, next, failure, recordVars, storeVars>>

MeasureSuddenDeath ==
  /\ at = "measure"
  /\ phase \in SDPhases
  /\ \/ AttachSuddenDeathRanking(Acting) /\ RecordSDMeasurement(Acting)
     \/ UNCHANGED <<vars, recordVars>>
  /\ at' = "propose_sd"
  /\ UNCHANGED <<proposal, next, dispatches, failure, storeVars>>

ProposeGuessSD(words) ==
  /\ at = "propose_sd"
  /\ RecordSDPlayProposal(Acting, words)
  /\ proposal' = words
  /\ next' = 1
  /\ at' = "resolve"
  /\ UNCHANGED <<vars, dispatches, failure, storeVars>>

\* A model call that failed for good ends the game, unless it was a
\* measurement.
ModelCallFails ==
  \/ Dispatch /\ phase \in {GivingClue, Guessing} /\ Raise("model_call")
  \/ at = "propose_sd" /\ Raise("model_call") /\ UNCHANGED dispatches

\* A word that is not on the board, or one the engine refuses.
Unplayable(word) ==
  word \in Cards => ~(MayGuess(Acting) /\ IsGuessableBy(Acting, word))

SkipWord ==
  /\ at = "resolve"
  /\ next <= Len(proposal)
  /\ Unplayable(proposal[next])
  /\ next' = next + 1
  /\ UNCHANGED <<vars, at, proposal, dispatches, failure, recordVars, storeVars>>

\* Where the game goes on after an engine step that may have ended it.
After(place) == IF phase' = GameOver THEN "flush" ELSE place

\* Mutant: the measurement is taken again after every hit.
MeasureEveryHit(str) ==
  IF str # Agent \/ (phase \in SDPhases /\ phase' # phase)
    THEN After("dispatch")
    ELSE "measure"

\* The loop over the proposal stops on anything but a plain hit, and in sudden
\* death also when the board has gone to the partner.
LoopAfter(str) ==
  IF str # Agent \/ (phase \in SDPhases /\ phase' # phase)
    THEN After("dispatch")
    ELSE "resolve"

PlayWord ==
  /\ at = "resolve"
  /\ next <= Len(proposal)
  /\ proposal[next] \in Cards
  /\ LET c   == proposal[next]
         str == Returned(Side[Other(Acting)][c])
     IN  /\ ResolveGuess(Acting, c)
         /\ RecordReveal(c, str)
         /\ at' = LoopAfter(str)
  /\ next' = next + 1
  /\ UNCHANGED <<proposal, dispatches, failure, sdTurn, storeVars>>

\* The proposal has run out with the turn still open.
RunOut == at = "resolve" /\ next > Len(proposal)

\* Mutant: a turn is passed whether or not a guess was made.
ForcePass ==
  /\ RunOut
  /\ phase = Guessing
  /\ UNCHANGED <<pending, cardVars>> /\ StopTurn
  /\ at' = "dispatch"
  /\ UNCHANGED <<proposal, next, dispatches, failure, recordVars, storeVars>>

StopGuessing ==
  /\ RunOut
  /\ phase = Guessing
  /\ PassTurn(Acting)
  /\ at' = "dispatch"
  /\ UNCHANGED <<proposal, next, dispatches, failure, recordVars, storeVars>>

\* Mutant: the refusal is swallowed, and the turn is dispatched again.
SwallowRefusal ==
  /\ RunOut
  /\ phase = Guessing
  /\ guesses = 0
  /\ at' = "dispatch"
  /\ UNCHANGED <<vars, proposal, next, dispatches, failure, recordVars, storeVars>>

\* A turn needs at least one guess, so pass_turn refuses.
NothingPlayable ==
  /\ RunOut
  /\ phase = Guessing
  /\ guesses = 0
  /\ Raise("no_playable_card")
  /\ UNCHANGED dispatches

Concede ==
  /\ RunOut
  /\ phase \in SDPhases
  /\ ConcedeSuddenDeath(Acting)
  /\ at' = "flush"
  /\ UNCHANGED <<proposal, next, dispatches, failure, recordVars, storeVars>>

\* The cap on a game that makes no progress.
TooManyDispatches ==
  /\ at = "dispatch"
  /\ dispatches >= MaxDispatches
  /\ Raise("too_many_dispatches")
  /\ UNCHANGED dispatches

-----------------------------------------------------------------------------
(***************************************************************************)
(* The store                                                               *)
(***************************************************************************)

\* persist_game writes the whole game in one transaction.
RowOf(status) == [status |-> status, result |-> result, timer |-> timer, turns |-> turns]

\* The game is over and its row is committed.
FlushCommits ==
  /\ at = "flush"
  /\ row' = RowOf("completed")
  /\ flushed' = TRUE
  /\ report' = "completed"
  /\ at' = "done"
  /\ UNCHANGED <<vars, proposal, next, dispatches, failure, recordVars>>

\* Mutant: a failed transaction is swallowed.
FailureSwallowed ==
  /\ at = "flush"
  /\ row' \in {NoRow, RowOf("completed")}
  /\ report' = "completed"
  /\ at' = "done"
  /\ UNCHANGED <<vars, proposal, next, dispatches, failure, recordVars, flushed>>

\* The transaction fails: rolled back, or committed with its answer lost.
FlushFails ==
  /\ at = "flush"
  /\ row' \in {NoRow, RowOf("completed")}
  /\ at' = "error"
  /\ failure' = "persist"
  /\ UNCHANGED <<vars, proposal, next, dispatches, recordVars, flushed, report>>

\* Mutant: the error row replaces whatever row the game has.
ErrorRowReplaces ==
  /\ at = "error"
  /\ row' = RowOf("error") /\ flushed' = TRUE
  /\ report' = "error"
  /\ at' = "done"
  /\ UNCHANGED <<vars, proposal, next, dispatches, failure, recordVars>>

\* Mutant: the collision with a stored row escapes the boundary.
CollisionEscapes ==
  /\ at = "error"
  /\ row = NoRow
  /\ row' = RowOf("error") /\ flushed' \in BOOLEAN
  /\ report' = "error"
  /\ at' = "done"
  /\ UNCHANGED <<vars, proposal, next, dispatches, failure, recordVars>>

\* _error_flush never raises.  It collides with a row the game already has,
\* and its own transaction may fail either way.
ErrorFlush ==
  /\ at = "error"
  /\ \/ row = NoRow /\ row' = RowOf("error") /\ flushed' \in BOOLEAN
     \/ UNCHANGED <<row, flushed>>
  /\ report' = "error"
  /\ at' = "done"
  /\ UNCHANGED <<vars, proposal, next, dispatches, failure, recordVars>>

GameNext ==
  \/ \E word \in ClueWords : ConductClue(word)
  \/ \E words \in Proposals : ProposeGuess(words) \/ ProposeGuessSD(words)
  \/ MeasureNormal
  \/ EnterSuddenDeath
  \/ MeasureSuddenDeath
  \/ ModelCallFails
  \/ SkipWord
  \/ PlayWord
  \/ StopGuessing
  \/ NothingPlayable
  \/ Concede
  \/ TooManyDispatches
  \/ FlushCommits
  \/ FlushFails
  \/ ErrorFlush

\* The event loop runs a game that is not waiting, and every model call and
\* every transaction answers or fails in the end (the clients time out).
GameSpec == GameInit /\ [][GameNext]_gameVars /\ WF_gameVars(GameNext)

-----------------------------------------------------------------------------
(***************************************************************************)
(* Properties                                                              *)
(***************************************************************************)

Reveals == [card : Cards, role : Roles, seat : Seats, timer : Int, index : Nat \ {0},
            endedTurn : BOOLEAN, endedGame : BOOLEAN]
TurnRecords == [number : Nat, phase : {"normal", "sudden_death"}, giver : Seats,
                invalid : BOOLEAN, play : Seq(ClueWords), measured : BOOLEAN,
                reveals : Seq(Reveals), sdPlay : [Seats -> Seq(ClueWords)],
                sdMeasured : SUBSET Seats]
Rows == [status : {"completed", "error"}, result : Results \cup {NoResult},
         timer : Int, turns : Seq(TurnRecords)]

\* The type of every variable of the engine, the driver, the recorder and the
\* store.
GameTypeOK ==
  /\ TypeOK
  /\ at \in Places
  /\ proposal \in Seq(ClueWords)
  /\ next \in Nat \ {0}
  /\ turns \in Seq(TurnRecords)
  /\ sdTurn \in Nat
  /\ dispatches \in Nat
  /\ failure \in Failures
  /\ flushed \in BOOLEAN
  /\ row \in Rows \cup {NoRow}
  /\ report \in {"none", "completed", "error"}

\* The driver only ever makes calls the engine accepts, so what holds of every
\* game of the engine holds of every game the runner plays.
PlaysTheEngine == Spec

NormalTurns == {i \in DOMAIN turns : turns[i].phase = "normal"}
LiveClues == IF clue = NoClue THEN history ELSE Append(history, clue)

\* The record and the engine tell the same game: one normal turn per clue the
\* engine took, with its giver, its validity and its measurement, including the
\* clue whose penalty started sudden death; then at most one sudden-death turn.
RecordMatchesEngine ==
  /\ NormalTurns = DOMAIN LiveClues
  /\ \A i \in NormalTurns :
       /\ turns[i].giver = LiveClues[i].giver
       /\ turns[i].invalid = LiveClues[i].invalid
       /\ turns[i].measured = LiveClues[i].ranked
  /\ Len(turns) <= Len(LiveClues) + 1
  /\ Len(turns) > Len(LiveClues) => turns[Len(turns)].sdMeasured = sdRanked

RevealsOf(i) == {turns[i].reveals[k] : k \in DOMAIN turns[i].reveals}
NormalReveals == UNION {RevealsOf(i) : i \in NormalTurns}
AllReveals == UNION {RevealsOf(i) : i \in DOMAIN turns}

\* The board can be rebuilt from the reveal rows alone: the agent rows are the
\* covered words, and the civilian rows of the normal turns are the time tokens
\* on the words, which are deliberately not stored (recorder docstring).
BoardRebuildsFromReveals ==
  /\ revealed = {r.card : r \in {x \in AllReveals : x.role = Agent}}
  /\ \A c \in Cards : markers[c] =
       {r.seat : r \in {x \in NormalReveals : x.card = c /\ x.role = Civilian}}

\* The reveal rows are linked to the proposal items they came from: each points
\* at an item of its own seat's proposal that names the card, no two at the
\* same item, and the seat is the one a reader infers from the turn (the
\* backfill of writer._write_turn).
RevealsLinkToProposals ==
  \A i \in DOMAIN turns : LET t == turns[i] IN
    \A k \in DOMAIN t.reveals : LET r == t.reveals[k] IN
      /\ t.phase = "normal" => /\ r.seat = Other(t.giver)
                               /\ r.index <= Len(t.play) /\ t.play[r.index] = r.card
      /\ t.phase = "sudden_death" =>
           r.index <= Len(t.sdPlay[r.seat]) /\ t.sdPlay[r.seat][r.index] = r.card
      /\ \A j \in 1..(k - 1) :
           t.reveals[j].seat = r.seat => t.reveals[j].index < r.index

\* timer_tokens_after is the reserve the reveal left behind: within a turn it
\* falls by one exactly at the reveal that ended the turn (an assassin costs no
\* token), and a turn that has ended has no further reveal.
TimerRunsDown ==
  \A i \in NormalTurns : LET t == turns[i] IN
    \A k \in DOMAIN t.reveals : LET r == t.reveals[k] IN
      /\ k < Len(t.reveals) => ~r.endedTurn /\ ~r.endedGame
      /\ k > 1 => r.timer = t.reveals[k - 1].timer
                              - (IF r.endedTurn /\ r.role # Assassin THEN 1 ELSE 0)

\* The record that is stored tells the game that was played.
RecordTellsTheGame ==
  /\ RecordMatchesEngine
  /\ BoardRebuildsFromReveals
  /\ RevealsLinkToProposals
  /\ TimerRunsDown

\* A row stored as completed is the whole finished game; whatever the store
\* answered, no row is a mixture, and a report of completion has such a row.  An
\* error is reported over a completed row only when the answer to its commit
\* was lost.
CompletedRowIsTheGame ==
  /\ row # NoRow => row.turns = turns /\ row.timer = timer /\ row.result = result
  /\ row # NoRow /\ row.status = "completed" => result # NoResult
  /\ report = "completed" <=> at = "done" /\ flushed /\ row.status = "completed"
  /\ report = "error" /\ row.status = "completed" => failure = "persist" /\ result # NoResult

\* A measurement is taken at the instant before the first guess it is about.
MeasuredBeforeGuessing ==
  [][/\ clue'.ranked /\ ~clue.ranked => guesses = 0
     /\ \A s \in sdRanked' \ sdRanked : \A r \in AllReveals \ NormalReveals : r.seat # s]_gameVars

\* The game's row is written once and never changed.
RowIsFinal == [][row # NoRow => row' = row]_gameVars

\* The cap is for games that make no progress; a game needs two dispatches for
\* each token and one for each sudden-death seat.
DispatchesAreFew == dispatches <= 2 * Tokens + 2

\* Each seat comes to its sudden-death play with the measurement armed and not
\* yet taken, though the other seat's may have been taken, missed, or never due
\* (engine 473-485).
SuddenDeathSeatsAreAsked ==
  at = "dispatch" /\ phase \in SDPhases => sdPending /\ Acting \notin sdRanked

\* The cap stops a game in time, and what it cut short has no result.
CapHolds ==
  /\ dispatches <= MaxDispatches
  /\ failure = "too_many_dispatches" => result = NoResult /\ report # "completed"

\* Every game ends and is reported, whatever the models answer.
EveryGameIsReported == <>(report # "none")

=============================================================================
