---------------------------- MODULE BatchRunner ----------------------------
(***************************************************************************)
(* Batches of games over one database: run_batch of                        *)
(* backend/app/core/batch_runner.py, with the transactions of              *)
(* backend/app/db/writer.py and the deletion of scripts/manage_runs.py.    *)
(*                                                                         *)
(* Every batch is given the same models, boards and master seed, so all of *)
(* them schedule the same games under the same ids.  A batch is one        *)
(* process: it may die anywhere, and what it held in memory dies with it.  *)
(* Two batches may be started by mistake at the same time.                 *)
(*                                                                         *)
(* A game is what GameConductor shows it to be: it ends with at most one   *)
(* row and a result; a completed row under an error result means that the  *)
(* answer to its commit was lost, and then the error has no code.          *)
(***************************************************************************)
EXTENDS Integers, FiniteSets

CONSTANTS
  Batches,     \* invocations of run_batch; a batch names the run it mints
  NGames,      \* cells of the schedule (192)
  PairingOf,   \* the pairing of each cell
  Threshold,   \* consecutive_failure_threshold (5)
  Replays,     \* provider_replays (2)
  Overlap      \* whether two batches may be started at the same time

Games == 1..NGames
Pairings == {PairingOf[g] : g \in Games}

ASSUME SizeAssumption == NGames \in Nat \ {0}
                         /\ Threshold \in Nat \ {0} /\ Replays \in Nat
ASSUME PairingAssumption ==
  /\ PairingOf \in [Games -> Nat]
  /\ \A g, h \in Games : g <= h => PairingOf[g] <= PairingOf[h]
ASSUME OverlapAssumption == Overlap \in BOOLEAN

VARIABLES
  runs,   \* the rows of table run
  rows,   \* the rows of table game, by game id
  job     \* the state of each batch's process

store == <<runs, rows>>
vars == <<runs, rows, job>>

NoRow == [status |-> "none"]
RowOf(b, status) == [status |-> status, run |-> job[b].run]

\* A batch's place in run_batch: before the run is minted or taken over, in the
\* loop over the schedule, in a game, in its error flush, waiting for the
\* provider, about to forget an error row, about to count the result.
Places == {"idle", "mint", "resume", "loop", "forget", "play", "error_flush",
           "wait", "replay", "count", "done", "refused", "dead"}
Active == Places \ {"idle", "done", "refused", "dead"}
Codes == {"transient", "terminal", "none"}

NoTally == [attempted |-> 0, completed |-> 0, errored |-> 0,
            prevCompleted |-> 0, prevErrored |-> 0]

\* recorded: what _recorded_games read when the batch started; code: the
\* error_code of the last result; stopped: aborted_reason is set.
IdleJob(b) ==
  [at |-> "idle", run |-> b, retry |-> FALSE, recorded |-> [g \in Games |-> "none"],
   cell |-> 1, consecutive |-> 0, replays |-> 0, status |-> "none", code |-> "none",
   stopped |-> FALSE, aborted |-> {}, tally |-> [p \in Pairings |-> NoTally]]

Init ==
  /\ runs = {}
  /\ rows = [g \in Games |-> NoRow]
  /\ job = [b \in Batches |-> IdleJob(b)]

At(b, place) == job[b].at = place
Goto(b, place) == job' = [job EXCEPT ![b].at = place]

-----------------------------------------------------------------------------
(***************************************************************************)
(* Transactions                                                            *)
(***************************************************************************)

\* persist_game commits: the game's id is free and the run it points at exists.
CanInsert(b) == rows[job[b].cell] = NoRow /\ job[b].run \in runs

Insert(b, status) ==
  /\ CanInsert(b)
  /\ rows' = [rows EXCEPT ![job[b].cell] = RowOf(b, status)]
  /\ UNCHANGED runs

\* Mutant: any row of the run is deleted.
DeleteAnyRow(b) ==
  LET g == job[b].cell IN
    /\ rows' = IF rows[g] # NoRow /\ rows[g].run = job[b].run
                 THEN [rows EXCEPT ![g] = NoRow] ELSE rows
    /\ UNCHANGED runs

\* Only an error row of this very run goes; deleting nothing is no error.
DeleteErrorGame(b) ==
  LET g == job[b].cell IN
    /\ rows' = IF rows[g] = RowOf(b, "error") THEN [rows EXCEPT ![g] = NoRow] ELSE rows
    /\ UNCHANGED runs

\* manage_runs delete: the run and, by cascade, all its games.
DeleteRun(r) ==
  /\ r \in runs
  /\ runs' = runs \ {r}
  /\ rows' = [g \in Games |-> IF rows[g] # NoRow /\ rows[g].run = r THEN NoRow ELSE rows[g]]
  /\ UNCHANGED job

-----------------------------------------------------------------------------
(***************************************************************************)
(* Preconditions                                                           *)
(***************************************************************************)

MayStart(b) == At(b, "idle") /\ (Overlap \/ \A o \in Batches : job[o].at \notin Active)

\* Mutant: only completed games stand in the way of a run.
CollidesWithCompleted(b) ==
  /\ MayStart(b)
  /\ \A g \in Games : rows[g] = NoRow \/ rows[g].status # "completed"
  /\ Goto(b, "mint")
  /\ UNCHANGED store

\* Level 1c: no game of the schedule is recorded.
CheckNoCollisions(b) ==
  /\ MayStart(b)
  /\ \A g \in Games : rows[g] = NoRow
  /\ Goto(b, "mint")
  /\ UNCHANGED store

Mint(b) ==
  /\ At(b, "mint")
  /\ runs' = runs \cup {b}
  /\ Goto(b, "loop")
  /\ UNCHANGED rows

\* Level 1c, resuming: the run exists and no game of the schedule is recorded
\* under another one.  What is recorded is read once, here.
CheckResume(b, r, retry) ==
  /\ MayStart(b)
  /\ r \in runs
  /\ \A g \in Games : rows[g] # NoRow => rows[g].run = r
  /\ job' = [job EXCEPT ![b].at = "resume", ![b].run = r, ![b].retry = retry,
                        ![b].recorded = [g \in Games |-> rows[g].status]]
  /\ UNCHANGED store

\* The games the run recorded and this batch does not play again.
Kept(j) == {g \in Games : j.recorded[g] = "completed" \/ (j.recorded[g] = "error" /\ ~j.retry)}

KeptAs(j, p, status) == {g \in Kept(j) : PairingOf[g] = p /\ j.recorded[g] = status}

\* The resume is noted on the run's row, which must still be there.
RecordResume(b) ==
  /\ At(b, "resume")
  /\ job[b].run \in runs
  /\ job' = [job EXCEPT ![b].at = "loop", ![b].tally =
       [p \in Pairings |-> [NoTally EXCEPT
          !.prevCompleted = Cardinality(KeptAs(job[b], p, "completed")),
          !.prevErrored = Cardinality(KeptAs(job[b], p, "error"))]]]
  /\ UNCHANGED store

\* A precondition fails: a collision, a run that is gone or is another batch's,
\* models, boards, templates or a schema that differ.
Refuse(b) ==
  /\ At(b, "idle") \/ At(b, "mint") \/ At(b, "resume")
  /\ Goto(b, "refused")
  /\ UNCHANGED store

-----------------------------------------------------------------------------
(***************************************************************************)
(* The loop over the schedule                                              *)
(***************************************************************************)

\* The counter of consecutive failures, reset where a pairing begins.
Consecutive(j) ==
  IF j.cell > 1 /\ PairingOf[j.cell] = PairingOf[j.cell - 1] THEN j.consecutive ELSE 0

ToPlay(j) == j.cell <= NGames /\ j.cell \notin Kept(j)

SkipKept(b) ==
  LET j == job[b] IN
    /\ At(b, "loop")
    /\ j.cell \in Kept(j)
    /\ job' = [job EXCEPT ![b].cell = @ + 1, ![b].consecutive =
                 IF j.recorded[j.cell] = "completed" THEN 0 ELSE Consecutive(j)]
    /\ UNCHANGED store

SkipAborted(b) ==
  LET j == job[b] IN
    /\ At(b, "loop")
    /\ ToPlay(j)
    /\ PairingOf[j.cell] \in j.aborted
    /\ job' = [job EXCEPT ![b].cell = @ + 1, ![b].consecutive = Consecutive(j)]
    /\ UNCHANGED store

\* The game is played, after its error row was forgotten if it had one.
BeginGame(b) ==
  LET j == job[b] IN
    /\ At(b, "loop")
    /\ ToPlay(j)
    /\ PairingOf[j.cell] \notin j.aborted
    /\ job' = [job EXCEPT ![b].at = IF j.recorded[j.cell] = "none" THEN "play" ELSE "forget",
                          ![b].consecutive = Consecutive(j), ![b].replays = 0]
    /\ UNCHANGED store

ForgetRecorded(b) ==
  /\ At(b, "forget")
  /\ DeleteErrorGame(b)
  /\ Goto(b, "play")

EndOfSchedule(b) ==
  /\ At(b, "loop")
  /\ job[b].cell > NGames
  /\ Goto(b, "done")
  /\ UNCHANGED store

-----------------------------------------------------------------------------
(***************************************************************************)
(* One game: run_single_game, by what it does to the database              *)
(***************************************************************************)

Ended(b, place, status, code) ==
  job' = [job EXCEPT ![b].at = place, ![b].status = status, ![b].code = code]

GameCompletes(b) ==
  /\ At(b, "play")
  /\ Insert(b, "completed")
  /\ Ended(b, "count", "completed", "none")

\* Mutant: a failed commit is taken for a completed game.
FailureIgnored(b) ==
  /\ At(b, "play")
  /\ UNCHANGED store \/ Insert(b, "completed")
  /\ Ended(b, "count", "completed", "none")

\* The commit of a completed game fails: it collides, its run is gone, the
\* database is away, or the commit's answer is lost.
CompletionFails(b) ==
  /\ At(b, "play")
  /\ UNCHANGED store \/ Insert(b, "completed")
  /\ Ended(b, "error_flush", "error", "none")

GameFails(b, code) ==
  /\ At(b, "play")
  /\ UNCHANGED store
  /\ Ended(b, "error_flush", "error", code)

\* Mutant: one replay too many.
OneReplayMore(b) ==
  LET j == job[b] IN
    /\ At(b, "error_flush")
    /\ UNCHANGED store \/ Insert(b, "error")
    /\ Goto(b, IF j.code = "transient" /\ j.replays <= Replays THEN "wait" ELSE "count")

\* The error row is written, or that fails too; a game lost to the provider is
\* played again while it has replays left.
ErrorFlush(b) ==
  LET j == job[b] IN
    /\ At(b, "error_flush")
    /\ UNCHANGED store \/ Insert(b, "error")
    /\ Goto(b, IF j.code = "transient" /\ j.replays < Replays THEN "wait" ELSE "count")

ProviderAnswers(b) ==
  /\ At(b, "wait")
  /\ Goto(b, "replay")
  /\ UNCHANGED store

ProviderIsGone(b) ==
  /\ At(b, "wait")
  /\ job' = [job EXCEPT ![b].at = "count", ![b].stopped = TRUE]
  /\ UNCHANGED store

\* Mutant: the lost game is played again over its error row.
ReplayOverRow(b) ==
  /\ At(b, "replay")
  /\ job' = [job EXCEPT ![b].at = "play", ![b].replays = @ + 1]
  /\ UNCHANGED store

\* Mutant: replays are not counted.
ReplayUncounted(b) ==
  /\ At(b, "replay")
  /\ DeleteErrorGame(b)
  /\ Goto(b, "play")

ForgetAndReplay(b) ==
  /\ At(b, "replay")
  /\ DeleteErrorGame(b)
  /\ job' = [job EXCEPT ![b].at = "play", ![b].replays = @ + 1]

-----------------------------------------------------------------------------
(***************************************************************************)
(* Counting the result                                                     *)
(***************************************************************************)

OneCompleted(t) == [t EXCEPT !.attempted = @ + 1, !.completed = @ + 1]
OneErrored(t) == [t EXCEPT !.attempted = @ + 1, !.errored = @ + 1]

\* Mutant: a completed game leaves the counter of failures as it is.
CumulativeCount(b) ==
  LET p == PairingOf[job[b].cell] IN
    /\ At(b, "count")
    /\ job[b].status = "completed"
    /\ job' = [job EXCEPT ![b].at = "loop", ![b].cell = @ + 1,
                          ![b].status = "none",
                          ![b].tally[p] = OneCompleted(@)]
    /\ UNCHANGED store

\* A completed game is counted, and with it no failure is in a row any more.
CountCompleted(b) ==
  LET p == PairingOf[job[b].cell] IN
    /\ At(b, "count")
    /\ job[b].status = "completed"
    /\ job' = [job EXCEPT ![b].at = "loop", ![b].cell = @ + 1, ![b].consecutive = 0,
                          ![b].status = "none",
                          ![b].tally[p] = OneCompleted(@)]
    /\ UNCHANGED store

\* The provider is gone: the batch stops here, and the game is counted as an
\* error but not towards the threshold.
CountOutage(b) ==
  LET p == PairingOf[job[b].cell] IN
    /\ At(b, "count")
    /\ job[b].status = "error"
    /\ job[b].stopped
    /\ job' = [job EXCEPT ![b].at = "done",
                          ![b].tally[p] = OneErrored(@)]
    /\ UNCHANGED store

\* Mutant: the game after a failure is passed over.
SkipsTheNext(b) ==
  LET p == PairingOf[job[b].cell] IN
    /\ At(b, "count")
    /\ job[b].status = "error"
    /\ ~job[b].stopped
    /\ job' = [job EXCEPT ![b].at = "loop", ![b].cell = @ + 2, ![b].consecutive = @ + 1,
                          ![b].tally[p] = OneErrored(@)]
    /\ UNCHANGED store

\* An error counts, and one too many in a row aborts the pairing.
CountError(b) ==
  LET p == PairingOf[job[b].cell]
      n == job[b].consecutive + 1
  IN
    /\ At(b, "count")
    /\ job[b].status = "error"
    /\ ~job[b].stopped
    /\ job' = [job EXCEPT ![b].at = "loop", ![b].cell = @ + 1, ![b].consecutive = n,
                          ![b].status = "none", ![b].code = "none",
                          ![b].aborted = IF n >= Threshold THEN @ \cup {p} ELSE @,
                          ![b].tally[p] = OneErrored(@)]
    /\ UNCHANGED store

\* The process dies, or a database error escapes the loop.
Die(b) ==
  /\ job[b].at \in Active
  /\ job' = [job EXCEPT ![b] = [IdleJob(b) EXCEPT !.at = "dead"]]
  /\ UNCHANGED store

\* What a batch does of itself once it has started.
Work(b) ==
  \/ Mint(b) \/ RecordResume(b)
  \/ SkipKept(b) \/ SkipAborted(b) \/ BeginGame(b) \/ ForgetRecorded(b) \/ EndOfSchedule(b)
  \/ GameCompletes(b) \/ CompletionFails(b)
  \/ \E code \in {"transient", "terminal"} : GameFails(b, code)
  \/ ErrorFlush(b)
  \/ ProviderAnswers(b) \/ ProviderIsGone(b) \/ ForgetAndReplay(b)
  \/ CountCompleted(b) \/ CountOutage(b) \/ CountError(b)

Start(b) ==
  \/ CheckNoCollisions(b)
  \/ \E r \in runs, retry \in BOOLEAN : CheckResume(b, r, retry)

Next ==
  \/ \E b \in Batches : Start(b) \/ Refuse(b) \/ Work(b) \/ Die(b)
  \/ \E r \in runs : DeleteRun(r)

\* A started batch goes on: games end (GameConductor), and so do the
\* transactions and the wait for the provider.
Fairness == \A b \in Batches : WF_vars(Work(b) \/ (At(b, "resume") /\ Refuse(b)))

Spec == Init /\ [][Next]_vars /\ Fairness

-----------------------------------------------------------------------------
(***************************************************************************)
(* Properties                                                              *)
(***************************************************************************)

Tallies == [attempted : Nat, completed : Nat, errored : Nat,
            prevCompleted : Nat, prevErrored : Nat]
Jobs == [at : Places, run : Batches, retry : BOOLEAN,
         recorded : [Games -> {"none", "completed", "error"}],
         cell : Nat, consecutive : Nat, replays : 0..Replays,
         status : {"none", "completed", "error"}, code : Codes,
         stopped : BOOLEAN, aborted : SUBSET Pairings, tally : [Pairings -> Tallies]]

\* The type of the database and of every batch's memory.
TypeOK ==
  /\ runs \subseteq Batches
  /\ rows \in [Games -> [status : {"completed", "error"}, run : Batches] \cup {NoRow}]
  /\ job \in [Batches -> Jobs]

Ledger == INSTANCE ExperimentLedger WITH Runs <- Batches, live <- runs, ledger <- rows

\* Crashes, resumes, replays, retries of old errors and batches racing each
\* other never make the database do what the ledger does not: no game is
\* recorded twice, and a completed game goes only with its whole run.
StoreIsALedger == Ledger!Spec

CompletedRows(r, p) ==
  {g \in Games : PairingOf[g] = p /\ rows[g] = [status |-> "completed", run |-> r]}

\* What a batch reports as completed, now or before it resumed, is in the
\* database, unless the run was deleted under it.
ReportedCompletedAreStored ==
  \A b \in Batches : job[b].run \in runs =>
    \A p \in Pairings :
      job[b].tally[p].completed + job[b].tally[p].prevCompleted
        <= Cardinality(CompletedRows(job[b].run, p))

CellsOf(p) == {g \in Games : PairingOf[g] = p}
Skipped(j, p) ==
  Cardinality(CellsOf(p)) - j.tally[p].attempted
    - j.tally[p].prevCompleted - j.tally[p].prevErrored

\* A finished batch accounts for every game of its schedule: games are missing
\* only from a pairing it aborted, after enough errors of this batch, or
\* because the provider was gone.
NothingLeftOut ==
  \A b \in Batches : At(b, "done") =>
    \A p \in Pairings :
      /\ Skipped(job[b], p) >= 0
      /\ Skipped(job[b], p) > 0 => p \in job[b].aborted \/ job[b].stopped
      /\ p \in job[b].aborted => job[b].tally[p].errored >= Threshold
      /\ job[b].tally[p].attempted = job[b].tally[p].completed + job[b].tally[p].errored

\* A batch that no other overlaps always finds the id of the game it plays
\* free: whatever was retried, replayed or left behind by a crash, no game is
\* played to the end only to collide.
ReplayFindsItsPlaceFree ==
  \A b \in Batches : At(b, "play") => rows[job[b].cell] = NoRow

\* Without overlap the recorded games of an experiment belong to one run.
OneRunOwnsTheSchedule ==
  \A g, h \in Games : rows[g] # NoRow /\ rows[h] # NoRow => rows[g].run = rows[h].run

\* Every batch that starts comes to an end.
EveryBatchEnds == \A b \in Batches : job[b].at \in Active ~> job[b].at \notin Active

=============================================================================
