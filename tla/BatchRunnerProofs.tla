------------------------- MODULE BatchRunnerProofs -------------------------
(***************************************************************************)
(* BatchRunner, for any number of batches, games, pairings and replays and *)
(* any threshold, with batches overlapping, dying, resuming one another's  *)
(* runs and runs deleted under them: it implements ExperimentLedger, and   *)
(* its memory is well typed; and what a batch that nothing overlaps may    *)
(* rely on.                                                                *)
(*                                                                         *)
(* The ledger needs no invariant of the batches' memory: whatever a batch  *)
(* believes, the transactions alone keep it.                               *)
(***************************************************************************)
EXTENDS BatchRunner, FiniteSetTheorems, TLAPS

Recorded == {"completed", "error"}
Entries == [status : Recorded, run : Batches]

\* The database alone: known runs, and one entry of one of them for each game.
StoreInv ==
  /\ runs \subseteq Batches
  /\ rows \in [Games -> Entries \cup {NoRow}]

\* No entry is mistaken for a free place.
LEMMA EntryIsARow ==
  ASSUME NEW e \in Entries
  PROVE  e # NoRow /\ e.status \in Recorded /\ e.run \in Batches
BY DEF Entries, Recorded, NoRow

-----------------------------------------------------------------------------
(***************************************************************************)
(* Transactions                                                            *)
(***************************************************************************)

LEMMA InsertRecords ==
  ASSUME StoreInv, NEW b \in Batches, NEW status \in Recorded, Insert(b, status)
  PROVE  StoreInv' /\ [Ledger!Next]_<<runs, rows>>
<1> DEFINE g == job[b].cell
           r == job[b].run
<1>1. /\ rows[g] = NoRow /\ r \in runs /\ r \in Batches
      /\ rows' = [rows EXCEPT ![g] = [status |-> status, run |-> r]]
      /\ UNCHANGED runs
  BY DEF Insert, CanInsert, RowOf, StoreInv
<1>2. CASE g \in Games
  <2>1. [status |-> status, run |-> r] \in Entries
    BY <1>1 DEF Entries
  <2>2. StoreInv'
    BY <1>1, <1>2, <2>1 DEF StoreInv
  <2>3. Ledger!Record(g, r, status)
    BY <1>1 DEF Ledger!Record, Ledger!Absent, NoRow
  <2>4. QED BY <1>1, <1>2, <2>2, <2>3 DEF Ledger!Next, Recorded
<1>3. CASE g \notin Games
  <2>1. rows' = rows
    BY <1>1, <1>3 DEF StoreInv
  <2>2. QED BY <1>1, <2>1 DEF StoreInv
<1>4. QED BY <1>2, <1>3

LEMMA DeletionForgets ==
  ASSUME StoreInv, NEW b \in Batches, DeleteErrorGame(b)
  PROVE  StoreInv' /\ [Ledger!Next]_<<runs, rows>>
<1> DEFINE g == job[b].cell
           r == job[b].run
<1>1. /\ rows' = IF rows[g] = RowOf(b, "error") THEN [rows EXCEPT ![g] = NoRow] ELSE rows
      /\ UNCHANGED runs
  BY DEF DeleteErrorGame
<1>2. CASE rows[g] = RowOf(b, "error") /\ g \in Games
  <2>1. rows[g] = [status |-> "error", run |-> r]
    BY <1>2 DEF RowOf
  <2>2. rows[g] # NoRow
    BY <2>1 DEF NoRow
  <2>3. r \in Batches
    BY <1>2, <2>1, <2>2, EntryIsARow DEF StoreInv
  <2>4. StoreInv'
    BY <1>1, <1>2 DEF StoreInv
  <2>5. Ledger!Forget(g, r)
    BY <1>1, <1>2, <2>1 DEF Ledger!Forget, Ledger!Absent, NoRow
  <2>6. QED BY <1>2, <2>3, <2>4, <2>5 DEF Ledger!Next
<1>3. CASE ~(rows[g] = RowOf(b, "error") /\ g \in Games)
  <2>1. rows' = rows
    BY <1>1, <1>3 DEF StoreInv
  <2>2. QED BY <1>1, <2>1 DEF StoreInv
<1>4. QED BY <1>2, <1>3

LEMMA DeleteRunDrops ==
  ASSUME StoreInv, NEW r \in runs, DeleteRun(r)
  PROVE  StoreInv' /\ [Ledger!Next]_<<runs, rows>>
<1>1. r \in Batches
  BY DEF StoreInv
<1>2. StoreInv'
  BY DEF StoreInv, DeleteRun
<1>3. Ledger!Drop(r)
  BY DEF DeleteRun, Ledger!Drop, Ledger!Absent, NoRow
<1>4. QED BY <1>1, <1>2, <1>3 DEF Ledger!Next

LEMMA MintOpens ==
  ASSUME StoreInv, NEW b \in Batches, Mint(b)
  PROVE  StoreInv' /\ [Ledger!Next]_<<runs, rows>>
<1>1. runs' = runs \cup {b} /\ UNCHANGED rows
  BY DEF Mint
<1>2. CASE b \in runs
  <2>1. runs' = runs
    BY <1>1, <1>2
  <2>2. QED BY <1>1, <2>1 DEF StoreInv
<1>3. CASE b \notin runs
  <2>1. Ledger!Open(b)
    BY <1>1, <1>3 DEF Ledger!Open
  <2>2. QED BY <1>1, <2>1 DEF StoreInv, Ledger!Next
<1>4. QED BY <1>2, <1>3

-----------------------------------------------------------------------------
(***************************************************************************)
(* Steps                                                                   *)
(***************************************************************************)

LEMMA StoreKept ==
  ASSUME StoreInv, UNCHANGED store
  PROVE  StoreInv' /\ [Ledger!Next]_<<runs, rows>>
BY DEF StoreInv, store

LEMMA WorkIsLedger ==
  ASSUME StoreInv, NEW b \in Batches, Work(b)
  PROVE  StoreInv' /\ [Ledger!Next]_<<runs, rows>>
<1>1. CASE Mint(b)
  BY <1>1, MintOpens
<1>2. CASE RecordResume(b) \/ SkipKept(b) \/ SkipAborted(b) \/ BeginGame(b) \/ EndOfSchedule(b)
  BY <1>2, StoreKept
     DEF RecordResume, SkipKept, SkipAborted, BeginGame, EndOfSchedule
<1>3. CASE ForgetRecorded(b) \/ ForgetAndReplay(b)
  BY <1>3, DeletionForgets DEF ForgetRecorded, ForgetAndReplay
<1>4. CASE GameCompletes(b) \/ CompletionFails(b) \/ ErrorFlush(b)
  BY <1>4, InsertRecords, StoreKept DEF GameCompletes, CompletionFails, ErrorFlush, Recorded
<1>5. CASE \E code \in {"transient", "terminal"} : GameFails(b, code)
  BY <1>5, StoreKept DEF GameFails
<1>6. CASE ProviderAnswers(b) \/ ProviderIsGone(b)
  BY <1>6, StoreKept DEF ProviderAnswers, ProviderIsGone
<1>7. CASE CountCompleted(b) \/ CountOutage(b) \/ CountError(b)
  BY <1>7, StoreKept DEF CountCompleted, CountOutage, CountError
<1>8. QED BY <1>1, <1>2, <1>3, <1>4, <1>5, <1>6, <1>7 DEF Work

LEMMA StepIsLedger ==
  ASSUME StoreInv, [Next]_vars
  PROVE  StoreInv' /\ [Ledger!Next]_<<runs, rows>>
<1>1. ASSUME NEW b \in Batches, Start(b) \/ Refuse(b) \/ Die(b)
      PROVE  StoreInv' /\ [Ledger!Next]_<<runs, rows>>
  BY <1>1, StoreKept DEF Start, CheckNoCollisions, CheckResume, Refuse, Die
<1>2. ASSUME NEW b \in Batches, Work(b)
      PROVE  StoreInv' /\ [Ledger!Next]_<<runs, rows>>
  BY <1>2, WorkIsLedger
<1>3. ASSUME NEW r \in runs, DeleteRun(r)
      PROVE  StoreInv' /\ [Ledger!Next]_<<runs, rows>>
  BY <1>3, DeleteRunDrops
<1>4. CASE UNCHANGED vars
  BY <1>4, StoreKept DEF vars, store
<1>5. QED BY <1>1, <1>2, <1>3, <1>4 DEF Next

\* Crashes, resumes, replays, retries and racing batches never make the
\* database do what the ledger does not: no game is recorded twice, and a
\* completed game goes only with its whole run.
THEOREM BatchesKeepTheLedger == Spec => StoreIsALedger
<1>1. Init => StoreInv
  BY DEF Init, StoreInv
<1>2. Init => Ledger!Init
  BY DEF Init, Ledger!Init, Ledger!Absent, NoRow
<1>3. StoreInv /\ [Next]_vars => StoreInv' /\ [Ledger!Next]_Ledger!vars
  BY StepIsLedger DEF Ledger!vars
<1>4. QED
  BY <1>1, <1>2, <1>3, PTL DEF Spec, StoreIsALedger, Ledger!Spec

-----------------------------------------------------------------------------
(***************************************************************************)
(* Types                                                                   *)
(***************************************************************************)

\* One batch's memory changes, into something of its type.
LEMMA JobSet ==
  ASSUME NEW f \in [Batches -> Jobs], NEW b \in Batches, NEW n \in Jobs
  PROVE  LET h == [f EXCEPT ![b] = n] IN
           /\ h \in [Batches -> Jobs] /\ h[b] = n
           /\ \A o \in Batches : o # b => h[o] = f[o]
OBVIOUS

LEMMA IdleJobIsJob ==
  ASSUME NEW b \in Batches
  PROVE  IdleJob(b) \in Jobs
<1>1. NoTally \in Tallies
  BY DEF NoTally, Tallies
<1>2. Replays \in Nat
  BY SizeAssumption
<1>3. QED BY <1>1, <1>2 DEF IdleJob, Jobs, Places, Codes

LEMMA TallyCounts ==
  ASSUME NEW t \in [Pairings -> Tallies], NEW p
  PROVE  /\ [t EXCEPT ![p] = OneCompleted(@)] \in [Pairings -> Tallies]
         /\ [t EXCEPT ![p] = OneErrored(@)] \in [Pairings -> Tallies]
<1>1. ASSUME NEW x \in Tallies
      PROVE  OneCompleted(x) \in Tallies /\ OneErrored(x) \in Tallies
  <2>1. /\ x.attempted + 1 \in Nat /\ x.completed + 1 \in Nat /\ x.errored + 1 \in Nat
    BY DEF Tallies
  <2>2. /\ OneCompleted(x) = [x EXCEPT !.attempted = x.attempted + 1, !.completed = x.completed + 1]
        /\ OneErrored(x) = [x EXCEPT !.attempted = x.attempted + 1, !.errored = x.errored + 1]
    BY DEF OneCompleted, OneErrored, Tallies
  <2>3. QED BY <2>1, <2>2 DEF Tallies
<1>2. QED BY <1>1

LEMMA KeptAreNat ==
  ASSUME NEW j \in Jobs, NEW p, NEW status
  PROVE  Cardinality(KeptAs(j, p, status)) \in Nat
<1>1. IsFiniteSet(Games)
  BY SizeAssumption, FS_Interval, 1 \in Int DEF Games
<1>2. KeptAs(j, p, status) \subseteq Games
  BY DEF KeptAs, Kept
<1>3. QED BY <1>1, <1>2, FS_Subset, FS_CardinalityType

\* What a batch's own step makes of its memory.
Becomes(b, n) == n \in Jobs /\ job' = [job EXCEPT ![b] = n]

LEMMA GoesTo ==
  ASSUME TypeOK, NEW b \in Batches, NEW place \in Places, Goto(b, place)
  PROVE  Becomes(b, [job[b] EXCEPT !.at = place])
<1>1. job[b] \in Jobs
  BY DEF TypeOK
<1>2. [job[b] EXCEPT !.at = place] \in Jobs
  BY <1>1 DEF Jobs
<1>3. QED BY <1>2 DEF Goto, Becomes

LEMMA EndsIn ==
  ASSUME TypeOK, NEW b \in Batches, NEW place \in Places,
         NEW status \in {"none", "completed", "error"}, NEW code \in Codes,
         Ended(b, place, status, code)
  PROVE  Becomes(b, [job[b] EXCEPT !.at = place, !.status = status, !.code = code])
<1>1. job[b] \in Jobs
  BY DEF TypeOK
<1>2. [job[b] EXCEPT !.at = place, !.status = status, !.code = code] \in Jobs
  BY <1>1 DEF Jobs
<1>3. job' = [job EXCEPT ![b] = [job[b] EXCEPT !.at = place, !.status = status, !.code = code]]
  BY <1>1 DEF Ended, TypeOK
<1>4. QED BY <1>2, <1>3 DEF Becomes

LEMMA NextCell ==
  ASSUME NEW j \in Jobs
  PROVE  j.cell + 1 \in Nat /\ Consecutive(j) \in Nat /\ j.consecutive + 1 \in Nat
BY DEF Jobs, Consecutive

LEMMA ResumeRecorded ==
  ASSUME TypeOK
  PROVE  [g \in Games |-> rows[g].status] \in [Games -> {"none", "completed", "error"}]
BY DEF TypeOK, NoRow

-----------------------------------------------------------------------------
(***************************************************************************)
(* Each step of a batch, as what it makes of its memory                    *)
(***************************************************************************)

LEMMA ResumeChecked ==
  ASSUME TypeOK, NEW b \in Batches, NEW r \in runs, NEW retry \in BOOLEAN,
         CheckResume(b, r, retry)
  PROVE  Becomes(b, [job[b] EXCEPT !.at = "resume", !.run = r, !.retry = retry,
                                   !.recorded = [g \in Games |-> rows[g].status]])
<1> DEFINE recorded == [g \in Games |-> rows[g].status]
           n == [job[b] EXCEPT !.at = "resume", !.run = r, !.retry = retry,
                               !.recorded = recorded]
<1>1. job[b] \in Jobs /\ r \in Batches /\ recorded \in [Games -> {"none", "completed", "error"}]
  BY ResumeRecorded DEF TypeOK
<1>2. job' = [job EXCEPT ![b] = n]
  BY <1>1 DEF CheckResume, TypeOK
<1> HIDE DEF recorded
<1>3. n \in Jobs
  BY <1>1 DEF Jobs, Places
<1>4. QED BY <1>2, <1>3 DEF Becomes, recorded

\* The tally a resumed batch begins with.
KeptTally(j) ==
  [p \in Pairings |-> [NoTally EXCEPT
     !.prevCompleted = Cardinality(KeptAs(j, p, "completed")),
     !.prevErrored = Cardinality(KeptAs(j, p, "error"))]]

LEMMA ResumeRecords ==
  ASSUME TypeOK, NEW b \in Batches, RecordResume(b)
  PROVE  Becomes(b, [job[b] EXCEPT !.at = "loop", !.tally = KeptTally(job[b])])
<1>1. job[b] \in Jobs
  BY DEF TypeOK
<1>2. KeptTally(job[b]) \in [Pairings -> Tallies]
  <2>1. ASSUME NEW p \in Pairings
        PROVE  [NoTally EXCEPT !.prevCompleted = Cardinality(KeptAs(job[b], p, "completed")),
                               !.prevErrored = Cardinality(KeptAs(job[b], p, "error"))] \in Tallies
    <3>1. /\ Cardinality(KeptAs(job[b], p, "completed")) \in Nat
          /\ Cardinality(KeptAs(job[b], p, "error")) \in Nat
      BY <1>1, KeptAreNat
    <3>2. QED BY <3>1 DEF NoTally, Tallies
  <2>2. QED BY <2>1 DEF KeptTally
<1>3. job' = [job EXCEPT ![b] = [job[b] EXCEPT !.at = "loop", !.tally = KeptTally(job[b])]]
  BY <1>1 DEF RecordResume, TypeOK, KeptTally
<1>4. [job[b] EXCEPT !.at = "loop", !.tally = KeptTally(job[b])] \in Jobs
  BY <1>1, <1>2 DEF Jobs, Places
<1>5. QED BY <1>3, <1>4 DEF Becomes

LEMMA KeptSkipped ==
  ASSUME TypeOK, NEW b \in Batches, SkipKept(b)
  PROVE  \E k \in Nat :
           Becomes(b, [job[b] EXCEPT !.cell = job[b].cell + 1, !.consecutive = k])
<1>1. job[b] \in Jobs
  BY DEF TypeOK
<1>2. PICK k \in Nat :
        job' = [job EXCEPT ![b] = [job[b] EXCEPT !.cell = job[b].cell + 1, !.consecutive = k]]
  <2>1. CASE job[b].recorded[job[b].cell] = "completed"
    BY <1>1, <2>1 DEF SkipKept, TypeOK
  <2>2. CASE job[b].recorded[job[b].cell] # "completed"
    BY <1>1, <2>2, NextCell DEF SkipKept, TypeOK
  <2>3. QED BY <2>1, <2>2
<1>3. [job[b] EXCEPT !.cell = job[b].cell + 1, !.consecutive = k] \in Jobs
  BY <1>1, NextCell DEF Jobs
<1>4. QED BY <1>2, <1>3 DEF Becomes

LEMMA AbortedSkipped ==
  ASSUME TypeOK, NEW b \in Batches, SkipAborted(b)
  PROVE  \E k \in Nat :
           Becomes(b, [job[b] EXCEPT !.cell = job[b].cell + 1, !.consecutive = k])
<1>1. job[b] \in Jobs
  BY DEF TypeOK
<1>2. PICK k \in Nat :
        job' = [job EXCEPT ![b] = [job[b] EXCEPT !.cell = job[b].cell + 1, !.consecutive = k]]
  BY <1>1, NextCell DEF SkipAborted, TypeOK
<1>3. [job[b] EXCEPT !.cell = job[b].cell + 1, !.consecutive = k] \in Jobs
  BY <1>1, NextCell DEF Jobs
<1>4. QED BY <1>2, <1>3 DEF Becomes

LEMMA GameBegun ==
  ASSUME TypeOK, NEW b \in Batches, BeginGame(b)
  PROVE  \E k \in Nat :
           Becomes(b, [job[b] EXCEPT
             !.at = IF job[b].recorded[job[b].cell] = "none" THEN "play" ELSE "forget",
             !.consecutive = k, !.replays = 0])
<1> DEFINE place == IF job[b].recorded[job[b].cell] = "none" THEN "play" ELSE "forget"
<1>1. job[b] \in Jobs /\ place \in Places /\ 0 \in 0..Replays
  BY SizeAssumption DEF TypeOK, Places
<1>2. PICK k \in Nat : job' = [job EXCEPT ![b] =
        [job[b] EXCEPT !.at = place, !.consecutive = k, !.replays = 0]]
  BY <1>1, NextCell DEF BeginGame, TypeOK
<1> HIDE DEF place
<1>3. [job[b] EXCEPT !.at = place, !.consecutive = k, !.replays = 0] \in Jobs
  BY <1>1 DEF Jobs
<1>4. QED BY <1>2, <1>3 DEF Becomes, place

LEMMA ProviderLost ==
  ASSUME TypeOK, NEW b \in Batches, ProviderIsGone(b)
  PROVE  Becomes(b, [job[b] EXCEPT !.at = "count", !.stopped = TRUE])
<1>1. job[b] \in Jobs
  BY DEF TypeOK
<1>2. job' = [job EXCEPT ![b] = [job[b] EXCEPT !.at = "count", !.stopped = TRUE]]
  BY <1>1 DEF ProviderIsGone, TypeOK
<1>3. [job[b] EXCEPT !.at = "count", !.stopped = TRUE] \in Jobs
  BY <1>1 DEF Jobs, Places
<1>4. QED BY <1>2, <1>3 DEF Becomes

\* Only a batch with a replay left waits for the provider.
ReplaysLeft == \A b \in Batches : job[b].at \in {"wait", "replay"} => job[b].replays < Replays

LEMMA Replayed ==
  ASSUME TypeOK, ReplaysLeft, NEW b \in Batches, ForgetAndReplay(b)
  PROVE  Becomes(b, [job[b] EXCEPT !.at = "play", !.replays = job[b].replays + 1])
<1>1. job[b] \in Jobs
  BY DEF TypeOK
<1>2. job[b].replays + 1 \in 0..Replays
  BY <1>1, SizeAssumption DEF ReplaysLeft, ForgetAndReplay, At, Jobs
<1>3. job' = [job EXCEPT ![b] = [job[b] EXCEPT !.at = "play", !.replays = job[b].replays + 1]]
  BY <1>1 DEF ForgetAndReplay, TypeOK
<1>4. [job[b] EXCEPT !.at = "play", !.replays = job[b].replays + 1] \in Jobs
  BY <1>1, <1>2 DEF Jobs, Places
<1>5. QED BY <1>3, <1>4 DEF Becomes

\* Whatever the result, counting it leaves the games alone.
Counted(b) ==
  \/ \E t \in [Pairings -> Tallies] :
       Becomes(b, [job[b] EXCEPT !.at = "done", !.tally = t])
  \/ \E k \in Nat, status \in {"none"}, code \in Codes, aborted \in SUBSET Pairings,
        t \in [Pairings -> Tallies] :
       Becomes(b, [job[b] EXCEPT !.at = "loop", !.cell = job[b].cell + 1, !.consecutive = k,
                                 !.status = status, !.code = code, !.aborted = aborted,
                                 !.tally = t])

LEMMA ResultCounted ==
  ASSUME TypeOK, NEW b \in Batches, job[b].cell \in Games,
         CountCompleted(b) \/ CountOutage(b) \/ CountError(b)
  PROVE  Counted(b)
<1> DEFINE j == job[b]
           p == PairingOf[j.cell]
           won == [j.tally EXCEPT ![p] = OneCompleted(@)]
           lost == [j.tally EXCEPT ![p] = OneErrored(@)]
<1>1. /\ j \in Jobs /\ p \in Pairings /\ j.tally \in [Pairings -> Tallies]
      /\ j.aborted \subseteq Pairings /\ j.code \in Codes
  BY DEF TypeOK, Pairings, Jobs
<1>2. won \in [Pairings -> Tallies] /\ lost \in [Pairings -> Tallies]
  BY <1>1, TallyCounts
<1>3. CASE CountCompleted(b)
  <2>1. job' = [job EXCEPT ![b] = [j EXCEPT !.at = "loop", !.cell = j.cell + 1, !.consecutive = 0,
                  !.status = "none", !.code = j.code, !.aborted = j.aborted, !.tally = won]]
    BY <1>1, <1>3 DEF CountCompleted, TypeOK, Jobs
  <2>2. [j EXCEPT !.at = "loop", !.cell = j.cell + 1, !.consecutive = 0,
                  !.status = "none", !.code = j.code, !.aborted = j.aborted, !.tally = won] \in Jobs
    <3> HIDE DEF j, won
    <3>1. QED BY <1>1, <1>2, NextCell DEF Jobs, Places
  <2>3. QED BY <1>1, <1>2, <2>1, <2>2 DEF Counted, Becomes
<1>4. CASE CountOutage(b)
  <2>1. job' = [job EXCEPT ![b] = [j EXCEPT !.at = "done", !.tally = lost]]
    BY <1>1, <1>4 DEF CountOutage, TypeOK, Jobs
  <2>2. [j EXCEPT !.at = "done", !.tally = lost] \in Jobs
    <3> HIDE DEF j, lost
    <3>1. QED BY <1>1, <1>2 DEF Jobs, Places
  <2>3. QED BY <1>2, <2>1, <2>2 DEF Counted, Becomes
<1>5. CASE CountError(b)
  <2> DEFINE k == j.consecutive + 1
             aborted == IF k >= Threshold THEN j.aborted \cup {p} ELSE j.aborted
             n == [j EXCEPT !.at = "loop", !.cell = j.cell + 1, !.consecutive = k,
                     !.status = "none", !.code = "none", !.aborted = aborted, !.tally = lost]
  <2>1. job' = [job EXCEPT ![b] = n]
    BY <1>1, <1>5 DEF CountError, TypeOK, Jobs
  <2>2. aborted \in SUBSET Pairings /\ k \in Nat /\ "none" \in Codes
    BY <1>1, NextCell DEF Codes
  <2>3. n \in Jobs
    <3> HIDE DEF j, lost, k, aborted
    <3>1. QED BY <1>1, <1>2, <2>2, NextCell DEF Jobs, Places
  <2>4. QED BY <1>2, <2>1, <2>2, <2>3 DEF Counted, Becomes
<1>6. QED BY <1>3, <1>4, <1>5

-----------------------------------------------------------------------------
(***************************************************************************)
(* The invariant of every batch, overlapping or not                        *)
(***************************************************************************)

InGame == {"forget", "play", "error_flush", "wait", "replay", "count"}

\* A batch in a game has a cell of the schedule in hand, waits only with a replay
\* left, and has read nothing before it resumed.
Sound(j) ==
  /\ j.cell >= 1
  /\ j.at \in InGame => j.cell \in Games
  /\ j.at \in {"wait", "replay"} => j.replays < Replays
  /\ j.at \in {"idle", "mint"} => j.recorded = [g \in Games |-> "none"]

BatchInv == TypeOK /\ \A b \in Batches : Sound(job[b])

LEMMA TypesFromStore ==
  StoreInv /\ job \in [Batches -> Jobs] <=> TypeOK
BY DEF StoreInv, TypeOK, Entries, Recorded

LEMMA SoundBecomes ==
  ASSUME BatchInv, NEW b \in Batches, NEW n, Becomes(b, n), Sound(n), StoreInv'
  PROVE  BatchInv'
<1>1. /\ job' \in [Batches -> Jobs] /\ job'[b] = n
      /\ \A o \in Batches : o # b => job'[o] = job[o]
  BY JobSet DEF BatchInv, TypeOK, Becomes
<1>2. TypeOK'
  BY <1>1 DEF StoreInv, TypeOK, Entries, Recorded
<1>3. ASSUME NEW o \in Batches PROVE Sound(job'[o])
  BY <1>1 DEF BatchInv
<1>4. QED BY <1>2, <1>3 DEF BatchInv

\* A batch that goes on to a place where nothing more is asked of it.
LEMMA SoundGoes ==
  ASSUME BatchInv, NEW b \in Batches, NEW place \in Places, Goto(b, place), StoreInv',
         place \in InGame => job[b].cell \in Games,
         place \in {"wait", "replay"} => job[b].replays < Replays,
         place \in {"idle", "mint"} => At(b, "idle")
  PROVE  BatchInv'
<1> DEFINE n == [job[b] EXCEPT !.at = place]
<1>1. Becomes(b, n)
  BY GoesTo DEF BatchInv
<1>2. n.at = place /\ n.cell = job[b].cell /\ n.replays = job[b].replays
      /\ n.recorded = job[b].recorded
  BY DEF BatchInv, TypeOK, Jobs
<1>3. Sound(job[b])
  BY DEF BatchInv
<1> HIDE DEF n
<1>4. Sound(n)
  BY <1>2, <1>3 DEF Sound, At
<1>5. QED BY <1>1, <1>4, SoundBecomes

LEMMA GameEnds ==
  ASSUME BatchInv, NEW b \in Batches, NEW place \in {"count", "error_flush"},
         NEW status \in {"completed", "error"}, NEW code \in Codes,
         Ended(b, place, status, code)
  PROVE  Becomes(b, [job[b] EXCEPT !.at = place, !.status = status, !.code = code])
<1>1. TypeOK
  BY DEF BatchInv
<1>2. place \in Places
  BY DEF Places
<1>3. status \in {"none", "completed", "error"}
  OBVIOUS
<1>4. QED BY <1>1, <1>2, <1>3, EndsIn

LEMMA SoundEnds ==
  ASSUME BatchInv, NEW b \in Batches, NEW place \in {"count", "error_flush"},
         NEW status \in {"completed", "error"}, NEW code \in Codes,
         At(b, "play"), Ended(b, place, status, code), StoreInv'
  PROVE  BatchInv'
<1> DEFINE n == [job[b] EXCEPT !.at = place, !.status = status, !.code = code]
<1>1. Becomes(b, n)
  BY GameEnds
<1>2. n.at = place /\ n.cell = job[b].cell
  BY DEF BatchInv, TypeOK, Jobs
<1>3. Sound(job[b])
  BY DEF BatchInv
<1> HIDE DEF n
<1>4. Sound(n)
  BY <1>2, <1>3 DEF Sound, InGame, At
<1>5. QED BY <1>1, <1>4, SoundBecomes

LEMMA StoreStep ==
  ASSUME BatchInv, [Next]_vars
  PROVE  StoreInv'
BY StepIsLedger, TypesFromStore DEF BatchInv

LEMMA StartSound ==
  ASSUME BatchInv, NEW b \in Batches, Start(b), StoreInv'
  PROVE  BatchInv'
<1>1. CASE CheckNoCollisions(b)
  BY <1>1, SoundGoes DEF CheckNoCollisions, MayStart, Places, InGame
<1>2. ASSUME NEW r \in runs, NEW retry \in BOOLEAN, CheckResume(b, r, retry)
      PROVE  BatchInv'
  <2> DEFINE n == [job[b] EXCEPT !.at = "resume", !.run = r, !.retry = retry,
                                 !.recorded = [g \in Games |-> rows[g].status]]
  <2>1. Becomes(b, n)
    BY <1>2, ResumeChecked DEF BatchInv
  <2>2. n.at = "resume" /\ n.cell = job[b].cell
    BY DEF BatchInv, TypeOK, Jobs
  <2>3. Sound(job[b])
    BY DEF BatchInv
  <2> HIDE DEF n
  <2>4. Sound(n)
    BY <2>2, <2>3 DEF Sound, InGame
  <2>5. QED BY <2>1, <2>4, SoundBecomes
<1>3. QED BY <1>1, <1>2 DEF Start

\* The batch goes on with its schedule.
LEMMA LoopSound ==
  ASSUME BatchInv, NEW b \in Batches, StoreInv',
         SkipKept(b) \/ SkipAborted(b) \/ BeginGame(b)
  PROVE  BatchInv'
<1>1. job[b] \in Jobs /\ Sound(job[b]) /\ At(b, "loop")
  BY DEF BatchInv, TypeOK, SkipKept, SkipAborted, BeginGame
<1>2. CASE SkipKept(b) \/ SkipAborted(b)
  <2>1. PICK k \in Nat :
          Becomes(b, [job[b] EXCEPT !.cell = job[b].cell + 1, !.consecutive = k])
    BY <1>2, KeptSkipped, AbortedSkipped DEF BatchInv
  <2> DEFINE n == [job[b] EXCEPT !.cell = job[b].cell + 1, !.consecutive = k]
  <2>2. n.at = "loop" /\ n.cell = job[b].cell + 1
    BY <1>1 DEF Jobs, At
  <2>3. n.cell >= 1
    BY <1>1, <2>2 DEF Sound, Jobs
  <2> HIDE DEF n
  <2>4. Sound(n)
    BY <2>2, <2>3 DEF Sound, InGame
  <2>5. Becomes(b, n)
    BY <2>1 DEF n
  <2>6. QED BY <2>4, <2>5, SoundBecomes
<1>3. CASE BeginGame(b)
  <2> DEFINE place == IF job[b].recorded[job[b].cell] = "none" THEN "play" ELSE "forget"
  <2>1. PICK k \in Nat :
          Becomes(b, [job[b] EXCEPT !.at = place, !.consecutive = k, !.replays = 0])
    BY <1>3, GameBegun DEF BatchInv
  <2> DEFINE n == [job[b] EXCEPT !.at = place, !.consecutive = k, !.replays = 0]
  <2>2. n.at \in {"play", "forget"} /\ n.cell = job[b].cell
    BY <1>1 DEF Jobs
  <2>3. job[b].cell \in Games
    BY <1>1, <1>3, SizeAssumption DEF BeginGame, ToPlay, Sound, Jobs, Games
  <2> HIDE DEF n
  <2>4. Sound(n)
    BY <1>1, <2>2, <2>3 DEF Sound
  <2>5. Becomes(b, n)
    BY <2>1 DEF n
  <2>6. QED BY <2>4, <2>5, SoundBecomes
<1>4. QED BY <1>2, <1>3

\* The batch counts a result.
LEMMA CountSound ==
  ASSUME BatchInv, NEW b \in Batches, StoreInv',
         CountCompleted(b) \/ CountOutage(b) \/ CountError(b)
  PROVE  BatchInv'
<1>1. job[b] \in Jobs /\ Sound(job[b]) /\ At(b, "count")
  BY DEF BatchInv, TypeOK, CountCompleted, CountOutage, CountError
<1>2. job[b].cell \in Games
  BY <1>1 DEF Sound, At, InGame
<1>3. Counted(b)
  BY <1>2, ResultCounted DEF BatchInv
<1>4. ASSUME NEW t \in [Pairings -> Tallies],
             Becomes(b, [job[b] EXCEPT !.at = "done", !.tally = t])
      PROVE  BatchInv'
  <2> DEFINE n == [job[b] EXCEPT !.at = "done", !.tally = t]
  <2>1. n.at = "done" /\ n.cell = job[b].cell
    BY <1>1 DEF Jobs
  <2>2. Becomes(b, n)
    BY <1>4
  <2> HIDE DEF n
  <2>3. Sound(n)
    BY <1>1, <2>1 DEF Sound, InGame
  <2>4. QED BY <2>2, <2>3, SoundBecomes
<1>5. ASSUME NEW k \in Nat, NEW status \in {"none"}, NEW code \in Codes,
             NEW aborted \in SUBSET Pairings, NEW t \in [Pairings -> Tallies],
             Becomes(b, [job[b] EXCEPT !.at = "loop", !.cell = job[b].cell + 1,
                           !.consecutive = k, !.status = status, !.code = code,
                           !.aborted = aborted, !.tally = t])
      PROVE  BatchInv'
  <2> DEFINE n == [job[b] EXCEPT !.at = "loop", !.cell = job[b].cell + 1,
                     !.consecutive = k, !.status = status, !.code = code,
                     !.aborted = aborted, !.tally = t]
  <2>1. n.at = "loop" /\ n.cell = job[b].cell + 1
    BY <1>1 DEF Jobs
  <2>2. n.cell >= 1
    BY <1>1, <2>1 DEF Sound, Jobs
  <2>3. Becomes(b, n)
    BY <1>5
  <2> HIDE DEF n
  <2>4. Sound(n)
    BY <2>1, <2>2 DEF Sound, InGame
  <2>5. QED BY <2>3, <2>4, SoundBecomes
<1>6. QED BY <1>3, <1>4, <1>5 DEF Counted

LEMMA WorkSound ==
  ASSUME BatchInv, NEW b \in Batches, Work(b), StoreInv'
  PROVE  BatchInv'
<1>1. job[b] \in Jobs /\ Sound(job[b])
  BY DEF BatchInv, TypeOK
<1>2. CASE Mint(b)
  BY <1>2, SoundGoes DEF Mint, Places, InGame
<1>3. CASE RecordResume(b)
  <2> DEFINE n == [job[b] EXCEPT !.at = "loop", !.tally = KeptTally(job[b])]
  <2>1. Becomes(b, n)
    BY <1>3, ResumeRecords DEF BatchInv
  <2>2. n.at = "loop" /\ n.cell = job[b].cell
    BY <1>1 DEF Jobs
  <2> HIDE DEF n
  <2>3. Sound(n)
    BY <1>1, <2>2 DEF Sound, InGame
  <2>4. QED BY <2>1, <2>3, SoundBecomes
<1>4. CASE SkipKept(b) \/ SkipAborted(b) \/ BeginGame(b)
  BY <1>4, LoopSound
<1>5. CASE ForgetRecorded(b)
  BY <1>1, <1>5, SoundGoes DEF ForgetRecorded, Places, InGame, Sound, At
<1>6. CASE EndOfSchedule(b)
  BY <1>6, SoundGoes DEF EndOfSchedule, Places, InGame
<1>7. CASE GameCompletes(b) \/ CompletionFails(b)
  BY <1>7, SoundEnds DEF GameCompletes, CompletionFails, Codes
<1>8. ASSUME NEW code \in {"transient", "terminal"}, GameFails(b, code)
      PROVE  BatchInv'
  BY <1>8, SoundEnds DEF GameFails, Codes
<1>9. CASE ErrorFlush(b)
  <2>1. job[b].cell \in Games
    BY <1>1, <1>9 DEF ErrorFlush, Sound, InGame, At
  <2>2. CASE job[b].code = "transient" /\ job[b].replays < Replays
    BY <1>9, <2>1, <2>2, SoundGoes DEF ErrorFlush, Places
  <2>3. CASE ~(job[b].code = "transient" /\ job[b].replays < Replays)
    BY <1>9, <2>1, <2>3, SoundGoes DEF ErrorFlush, Places
  <2>4. QED BY <2>2, <2>3
<1>10. CASE ProviderAnswers(b)
  BY <1>1, <1>10, SoundGoes DEF ProviderAnswers, Places, InGame, Sound, At
<1>11. CASE ProviderIsGone(b)
  <2> DEFINE n == [job[b] EXCEPT !.at = "count", !.stopped = TRUE]
  <2>1. Becomes(b, n)
    BY <1>11, ProviderLost DEF BatchInv
  <2>2. n.at = "count" /\ n.cell = job[b].cell
    BY <1>1 DEF Jobs
  <2>3. job[b].cell \in Games
    BY <1>1, <1>11 DEF ProviderIsGone, Sound, InGame, At
  <2> HIDE DEF n
  <2>4. Sound(n)
    BY <1>1, <2>2, <2>3 DEF Sound
  <2>5. QED BY <2>1, <2>4, SoundBecomes
<1>12. CASE ForgetAndReplay(b)
  <2> DEFINE n == [job[b] EXCEPT !.at = "play", !.replays = job[b].replays + 1]
  <2>1. Becomes(b, n)
    BY <1>12, Replayed DEF BatchInv, ReplaysLeft, Sound
  <2>2. n.at = "play" /\ n.cell = job[b].cell
    BY <1>1 DEF Jobs
  <2>3. job[b].cell \in Games
    BY <1>1, <1>12 DEF ForgetAndReplay, Sound, InGame, At
  <2> HIDE DEF n
  <2>4. Sound(n)
    BY <1>1, <2>2, <2>3 DEF Sound
  <2>5. QED BY <2>1, <2>4, SoundBecomes
<1>13. CASE CountCompleted(b) \/ CountOutage(b) \/ CountError(b)
  BY <1>13, CountSound
<1>14. QED BY <1>2, <1>3, <1>4, <1>5, <1>6, <1>7, <1>8, <1>9, <1>10, <1>11, <1>12, <1>13 DEF Work

\* A dead batch has forgotten everything.
LEMMA DieSound ==
  ASSUME BatchInv, NEW b \in Batches, Die(b), StoreInv'
  PROVE  BatchInv'
<1> DEFINE n == [IdleJob(b) EXCEPT !.at = "dead"]
<1>1. IdleJob(b) \in Jobs
  BY IdleJobIsJob
<1>2. n \in Jobs /\ n.at = "dead" /\ n.cell = 1
  BY <1>1 DEF Jobs, Places, IdleJob
<1>3. Becomes(b, n)
  BY <1>2 DEF Die, Becomes
<1> HIDE DEF n
<1>4. Sound(n)
  BY <1>2 DEF Sound, InGame
<1>5. QED BY <1>3, <1>4, SoundBecomes

LEMMA BatchStep == BatchInv /\ [Next]_vars => BatchInv'
<1> SUFFICES ASSUME BatchInv, [Next]_vars PROVE BatchInv'
  OBVIOUS
<1>1. StoreInv'
  BY StoreStep
<1>2. ASSUME NEW b \in Batches, Start(b) PROVE BatchInv'
  BY <1>1, <1>2, StartSound
<1>3. ASSUME NEW b \in Batches, Refuse(b) PROVE BatchInv'
  BY <1>1, <1>3, SoundGoes DEF Refuse, Places, InGame
<1>4. ASSUME NEW b \in Batches, Work(b) PROVE BatchInv'
  BY <1>1, <1>4, WorkSound
<1>5. ASSUME NEW b \in Batches, Die(b) PROVE BatchInv'
  BY <1>1, <1>5, DieSound
<1>6. ASSUME NEW r \in runs, DeleteRun(r) PROVE BatchInv'
  BY <1>1, <1>6, TypesFromStore DEF DeleteRun, BatchInv, StoreInv, TypeOK, Entries, Recorded
<1>7. CASE UNCHANGED vars
  BY <1>7 DEF vars, BatchInv, TypeOK
<1>8. QED BY <1>2, <1>3, <1>4, <1>5, <1>6, <1>7 DEF Next

LEMMA BatchStart == Init => BatchInv
<1> SUFFICES ASSUME Init PROVE BatchInv
  OBVIOUS
<1>1. job \in [Batches -> Jobs]
  BY IdleJobIsJob DEF Init
<1>2. TypeOK
  BY <1>1 DEF Init, TypeOK
<1>3. \A b \in Batches : job[b].cell = 1 /\ job[b].at = "idle"
                         /\ job[b].recorded = [g \in Games |-> "none"]
  BY DEF Init, IdleJob
<1>4. QED BY <1>2, <1>3 DEF BatchInv, Sound, InGame

LEMMA BatchInvariant == Spec => []BatchInv
BY BatchStart, BatchStep, PTL DEF Spec

\* The database and every batch's memory always have their types: no replay
\* exceeds its bound, and no result is counted that is not a game's.
THEOREM BatchTypes == Spec => []TypeOK
<1>1. BatchInv => TypeOK
  BY DEF BatchInv
<1>2. QED BY <1>1, BatchInvariant, PTL

-----------------------------------------------------------------------------
(***************************************************************************)
(* A batch that nothing overlaps                                           *)
(***************************************************************************)

\* What a batch may rely on in the database r, though it reads it only once:
\* every game recorded is its own run's; a cell it has not come to is as it read
\* it; the cell in hand is free when it is played, and what stands in its place
\* before that is an error.
Knows(j, r) ==
  /\ \A g \in Games : r[g] # NoRow => r[g].run = j.run
  /\ \A g \in Games :
       r[g] # NoRow /\ (g > j.cell \/ (g = j.cell /\ j.at \notin InGame))
         => r[g].status = j.recorded[g]
  /\ j.at = "mint" => \A g \in Games : r[g] = NoRow
  /\ j.at \in {"forget", "wait", "replay"} /\ r[j.cell] # NoRow => r[j.cell].status = "error"
  /\ j.at = "play" => r[j.cell] = NoRow
  /\ j.at = "error_flush" /\ j.code = "transient" => r[j.cell] = NoRow

AloneInv ==
  /\ \A b, o \in Batches : job[b].at \in Active /\ job[o].at \in Active => b = o
  /\ OneRunOwnsTheSchedule
  /\ \A b \in Batches : job[b].at \in Active => Knows(job[b], rows)

\* The one active batch becomes n while the database becomes rows'.
LEMMA AloneBecomes ==
  ASSUME BatchInv, AloneInv, NEW b \in Batches, NEW n, Becomes(b, n),
         n.at \in Active => job[b].at \in Active \/ \A o \in Batches : job[o].at \notin Active,
         job[b].at \in Active \/ UNCHANGED rows,
         n.at \in Active => Knows(n, rows'),
         OneRunOwnsTheSchedule'
  PROVE  AloneInv'
<1>1. /\ job' \in [Batches -> Jobs] /\ job'[b] = n
      /\ \A o \in Batches : o # b => job'[o] = job[o]
  BY JobSet DEF BatchInv, TypeOK, Becomes
<1>2. n.at \in Active => \A o \in Batches : o # b => job'[o].at \notin Active
  BY <1>1 DEF AloneInv
<1>3. \A p, o \in Batches : job'[p].at \in Active /\ job'[o].at \in Active => p = o
  BY <1>1, <1>2 DEF AloneInv
<1>4. \A o \in Batches : job'[o].at \in Active => Knows(job'[o], rows')
  BY <1>1 DEF AloneInv
<1>5. QED BY <1>3, <1>4 DEF AloneInv

\* The same, of a batch that leaves the database alone.
LEMMA AloneThinks ==
  ASSUME BatchInv, AloneInv, NEW b \in Batches, NEW n, Becomes(b, n), UNCHANGED store,
         n.at \in Active => job[b].at \in Active \/ \A o \in Batches : job[o].at \notin Active,
         n.at \in Active => Knows(n, rows)
  PROVE  AloneInv'
<1>1. rows' = rows
  BY DEF store
<1>2. OneRunOwnsTheSchedule'
  BY <1>1 DEF AloneInv, OneRunOwnsTheSchedule
<1>3. QED BY <1>1, <1>2, AloneBecomes

\* A batch that only moves on to another place of its loop.
LEMMA AloneGoes ==
  ASSUME BatchInv, AloneInv, NEW b \in Batches, NEW place \in Places, Goto(b, place),
         UNCHANGED store, job[b].at \in Active,
         job[b].at \in InGame <=> place \in InGame \/ place \notin Active,
         place # "mint",
         place \in {"forget", "wait", "replay"} /\ rows[job[b].cell] # NoRow
           => rows[job[b].cell].status = "error",
         place = "play" => rows[job[b].cell] = NoRow,
         place # "error_flush"
  PROVE  AloneInv'
<1> DEFINE n == [job[b] EXCEPT !.at = place]
<1>1. Becomes(b, n)
  BY GoesTo DEF BatchInv
<1>2. n.at = place /\ n.cell = job[b].cell /\ n.run = job[b].run
      /\ n.recorded = job[b].recorded
  BY DEF BatchInv, TypeOK, Jobs
<1>3. Knows(job[b], rows)
  BY DEF AloneInv
<1> HIDE DEF n
<1>4. n.at \in Active => Knows(n, rows)
  BY <1>2, <1>3 DEF Knows
<1>5. QED BY <1>1, <1>4, AloneThinks

\* Games that go from the database take nothing from what a batch knows.
LEMMA FewerRowsKnown ==
  ASSUME BatchInv, AloneInv, rows' \in [Games -> Entries \cup {NoRow}],
         \A g \in Games : rows'[g] \in {rows[g], NoRow}, UNCHANGED job
  PROVE  AloneInv'
<1>1. ASSUME NEW b \in Batches, job[b].at \in Active
      PROVE  Knows(job[b], rows')
  <2>1. Knows(job[b], rows) /\ Sound(job[b])
    BY <1>1 DEF AloneInv, BatchInv
  <2>2. job[b].at \in InGame => rows'[job[b].cell] \in {rows[job[b].cell], NoRow}
    BY <2>1 DEF Sound
  <2>3. QED BY <2>1, <2>2 DEF Knows, InGame
<1>2. OneRunOwnsTheSchedule'
  BY DEF AloneInv, OneRunOwnsTheSchedule
<1>3. QED BY <1>1, <1>2 DEF AloneInv

-----------------------------------------------------------------------------
(***************************************************************************)
(* Its steps                                                               *)
(***************************************************************************)

\* A batch starts, where none is active.
LEMMA StartAlone ==
  ASSUME ~Overlap, BatchInv, AloneInv, NEW b \in Batches, Start(b)
  PROVE  AloneInv'
<1>1. job[b] \in Jobs /\ Sound(job[b]) /\ rows \in [Games -> Entries \cup {NoRow}]
  BY TypesFromStore DEF BatchInv, TypeOK, StoreInv
<1>2. \A o \in Batches : job[o].at \notin Active
  BY DEF Start, CheckNoCollisions, CheckResume, MayStart
<1>3. CASE CheckNoCollisions(b)
  <2> DEFINE n == [job[b] EXCEPT !.at = "mint"]
  <2>1. Becomes(b, n)
    BY <1>3, GoesTo DEF CheckNoCollisions, BatchInv, Places
  <2>2. n.at = "mint" /\ \A g \in Games : rows[g] = NoRow
    BY <1>1, <1>3 DEF Jobs, CheckNoCollisions
  <2>3. UNCHANGED store
    BY <1>3 DEF CheckNoCollisions
  <2> HIDE DEF n
  <2>4. Knows(n, rows)
    BY <2>2 DEF Knows
  <2>5. QED BY <1>2, <2>1, <2>3, <2>4, AloneThinks
<1>4. ASSUME NEW r \in runs, NEW retry \in BOOLEAN, CheckResume(b, r, retry)
      PROVE  AloneInv'
  <2> DEFINE recorded == [g \in Games |-> rows[g].status]
             n == [job[b] EXCEPT !.at = "resume", !.run = r, !.retry = retry,
                                 !.recorded = recorded]
  <2>1. Becomes(b, n)
    BY <1>4, ResumeChecked DEF BatchInv
  <2>2. n.at = "resume" /\ n.run = r /\ n.recorded = recorded
    BY <1>1 DEF Jobs
  <2>3. UNCHANGED store /\ \A g \in Games : rows[g] # NoRow => rows[g].run = r
    BY <1>4 DEF CheckResume
  <2>4. \A g \in Games : rows[g].status = n.recorded[g]
    BY <2>2
  <2> HIDE DEF n
  <2>5. Knows(n, rows)
    BY <2>2, <2>3, <2>4 DEF Knows
  <2>6. QED BY <1>2, <2>1, <2>3, <2>5, AloneThinks
<1>5. QED BY <1>3, <1>4 DEF Start

\* A batch is over, by a refusal or by its death.
LEMMA StopAlone ==
  ASSUME BatchInv, AloneInv, NEW b \in Batches, Refuse(b) \/ Die(b)
  PROVE  AloneInv'
<1>1. job[b] \in Jobs /\ IdleJob(b) \in Jobs
  BY IdleJobIsJob DEF BatchInv, TypeOK
<1>2. CASE Refuse(b)
  <2> DEFINE n == [job[b] EXCEPT !.at = "refused"]
  <2>1. Becomes(b, n) /\ UNCHANGED store
    BY <1>2, GoesTo DEF Refuse, BatchInv, Places
  <2>2. n.at \notin Active
    BY <1>1 DEF Jobs, Active
  <2> HIDE DEF n
  <2>3. QED BY <2>1, <2>2, AloneThinks
<1>3. CASE Die(b)
  <2> DEFINE n == [IdleJob(b) EXCEPT !.at = "dead"]
  <2>1. n \in Jobs /\ n.at \notin Active
    BY <1>1 DEF Jobs, Active, Places
  <2>2. Becomes(b, n) /\ UNCHANGED store
    BY <1>3, <2>1 DEF Die, Becomes
  <2> HIDE DEF n
  <2>3. QED BY <2>1, <2>2, AloneThinks
<1>4. QED BY <1>2, <1>3

\* A batch goes on with its schedule.
LEMMA LoopAlone ==
  ASSUME BatchInv, AloneInv, NEW b \in Batches,
         RecordResume(b) \/ SkipKept(b) \/ SkipAborted(b) \/ BeginGame(b)
  PROVE  AloneInv'
<1>1. /\ job[b] \in Jobs /\ Sound(job[b])
      /\ job[b].at \in {"resume", "loop"} /\ UNCHANGED store
  BY DEF BatchInv, TypeOK, RecordResume, SkipKept, SkipAborted, BeginGame, At
<1>2. job[b].at \in Active /\ job[b].at \notin InGame
  BY <1>1 DEF Active, Places, InGame
<1>3. Knows(job[b], rows)
  BY <1>2 DEF AloneInv
<1>4. CASE RecordResume(b)
  <2> DEFINE n == [job[b] EXCEPT !.at = "loop", !.tally = KeptTally(job[b])]
  <2>1. Becomes(b, n)
    BY <1>4, ResumeRecords DEF BatchInv
  <2>2. n.at = "loop" /\ n.cell = job[b].cell /\ n.run = job[b].run
        /\ n.recorded = job[b].recorded
    BY <1>1 DEF Jobs
  <2> HIDE DEF n
  <2>3. Knows(n, rows)
    BY <1>2, <1>3, <2>2 DEF Knows
  <2>4. QED BY <1>1, <1>2, <2>1, <2>3, AloneThinks
<1>5. CASE SkipKept(b) \/ SkipAborted(b)
  <2>1. PICK k \in Nat :
          Becomes(b, [job[b] EXCEPT !.cell = job[b].cell + 1, !.consecutive = k])
    BY <1>5, KeptSkipped, AbortedSkipped DEF BatchInv
  <2> DEFINE n == [job[b] EXCEPT !.cell = job[b].cell + 1, !.consecutive = k]
  <2>2. n.at = "loop" /\ n.cell = job[b].cell + 1 /\ n.run = job[b].run
        /\ n.recorded = job[b].recorded
    BY <1>1, <1>5 DEF Jobs, SkipKept, SkipAborted, At
  <2>3. Becomes(b, n)
    BY <2>1
  <2> HIDE DEF n
  <2>4. \A g \in Games : g > n.cell \/ g = n.cell => g > job[b].cell
    BY <1>1, <2>2, SizeAssumption DEF Jobs, Games
  <2>5. Knows(n, rows)
    BY <1>3, <2>2, <2>4 DEF Knows
  <2>6. QED BY <1>1, <1>2, <2>3, <2>5, AloneThinks
<1>6. CASE BeginGame(b)
  <2> DEFINE j == job[b]
             place == IF j.recorded[j.cell] = "none" THEN "play" ELSE "forget"
  <2>1. PICK k \in Nat : Becomes(b, [j EXCEPT !.at = place, !.consecutive = k, !.replays = 0])
    BY <1>6, GameBegun DEF BatchInv
  <2> DEFINE n == [j EXCEPT !.at = place, !.consecutive = k, !.replays = 0]
  <2>2. n.at = place /\ n.cell = j.cell /\ n.run = j.run /\ n.recorded = j.recorded
    BY <1>1 DEF Jobs
  <2>3. j.cell \in Games /\ j.cell \notin Kept(j)
    BY <1>1, <1>6, SizeAssumption DEF BeginGame, ToPlay, Sound, Jobs, Games
  <2>4. j.recorded[j.cell] # "completed"
    BY <2>3 DEF Kept
  <2>5. rows[j.cell] # NoRow => rows[j.cell].status = j.recorded[j.cell]
                               /\ rows[j.cell].status \in {"completed", "error"}
    <3>1. rows[j.cell] # NoRow => rows[j.cell] \in Entries
      BY <2>3, TypesFromStore DEF BatchInv, StoreInv
    <3>2. QED BY <1>2, <1>3, <2>3, <3>1 DEF Knows, Entries, Recorded
  <2>6. Becomes(b, n)
    BY <2>1
  <2> HIDE DEF n
  <2>7. Knows(n, rows)
    <3>1. place = "play" => rows[j.cell] = NoRow
      BY <2>5
    <3>2. place = "forget" /\ rows[j.cell] # NoRow => rows[j.cell].status = "error"
      BY <2>4, <2>5
    <3>3. place \in {"play", "forget"}
      OBVIOUS
    <3> HIDE DEF place
    <3>4. QED BY <1>3, <2>2, <3>1, <3>2, <3>3 DEF Knows, InGame
  <2>8. QED BY <1>1, <1>2, <2>6, <2>7, AloneThinks
<1>7. QED BY <1>4, <1>5, <1>6

\* A game's row is written by its own batch, into a place that was free.
LEMMA RowWritten ==
  ASSUME BatchInv, AloneInv, NEW b \in Batches, NEW status \in Recorded,
         job[b].at \in {"play", "error_flush"}, Insert(b, status)
  PROVE  /\ rows' = [rows EXCEPT ![job[b].cell] = [status |-> status, run |-> job[b].run]]
         /\ rows'[job[b].cell].status = status
         /\ rows'[job[b].cell].run = job[b].run
         /\ \A g \in Games : g # job[b].cell => rows'[g] = rows[g]
         /\ \A g \in Games : rows'[g] # NoRow => rows'[g].run = job[b].run
         /\ OneRunOwnsTheSchedule'
<1>1. rows \in [Games -> Entries \cup {NoRow}] /\ job[b].cell \in Games
  BY TypesFromStore DEF BatchInv, StoreInv, Sound, InGame
<1>2. rows' = [rows EXCEPT ![job[b].cell] = [status |-> status, run |-> job[b].run]]
  BY DEF Insert, RowOf
<1>3. Knows(job[b], rows)
  BY DEF AloneInv, Active, Places
<1>4. \A g \in Games : g # job[b].cell => rows'[g] = rows[g]
  BY <1>1, <1>2
<1>5. rows'[job[b].cell] = [status |-> status, run |-> job[b].run]
  BY <1>1, <1>2
<1>6. rows'[job[b].cell].status = status /\ rows'[job[b].cell].run = job[b].run
  BY <1>5
<1>7. ASSUME NEW g \in Games, rows'[g] # NoRow
      PROVE  rows'[g].run = job[b].run
  <2>1. CASE g = job[b].cell
    BY <1>6, <2>1
  <2>2. CASE g # job[b].cell
    BY <1>3, <1>4, <1>7, <2>2 DEF Knows
  <2>3. QED BY <2>1, <2>2
<1>8. OneRunOwnsTheSchedule'
  BY <1>7 DEF OneRunOwnsTheSchedule
<1>9. QED BY <1>2, <1>4, <1>6, <1>7, <1>8

\* An error that stood in the way is forgotten.
LEMMA PlaceFreed ==
  ASSUME BatchInv, AloneInv, NEW b \in Batches,
         job[b].at \in {"forget", "replay"}, DeleteErrorGame(b)
  PROVE  /\ rows'[job[b].cell] = NoRow
         /\ \A g \in Games : g # job[b].cell => rows'[g] = rows[g]
         /\ OneRunOwnsTheSchedule'
<1> DEFINE c == job[b].cell
<1>1. rows \in [Games -> Entries \cup {NoRow}] /\ c \in Games
  BY TypesFromStore DEF BatchInv, StoreInv, Sound, InGame
<1>2. Knows(job[b], rows)
  BY DEF AloneInv, Active, Places
<1>3. rows[c] # NoRow => rows[c] = RowOf(b, "error")
  <2> SUFFICES ASSUME rows[c] # NoRow PROVE rows[c] = RowOf(b, "error")
    OBVIOUS
  <2>1. rows[c] \in Entries /\ rows[c].status = "error" /\ rows[c].run = job[b].run
    BY <1>1, <1>2 DEF Knows
  <2>2. QED BY <2>1 DEF Entries, RowOf
<1>4. rows'[c] = NoRow /\ \A g \in Games : g # c => rows'[g] = rows[g]
  BY <1>1, <1>3 DEF DeleteErrorGame
<1>5. OneRunOwnsTheSchedule'
  BY <1>1, <1>4 DEF AloneInv, OneRunOwnsTheSchedule
<1>6. QED BY <1>4, <1>5

\* The steps of one game.
LEMMA GameAlone ==
  ASSUME BatchInv, AloneInv, NEW b \in Batches,
         \/ GameCompletes(b) \/ CompletionFails(b)
         \/ \E code \in {"transient", "terminal"} : GameFails(b, code)
  PROVE  AloneInv'
<1>1. job[b] \in Jobs /\ Sound(job[b]) /\ job[b].at = "play" /\ job[b].at \in Active
  BY DEF BatchInv, TypeOK, GameCompletes, CompletionFails, GameFails, At, Active, Places
<1>2. Knows(job[b], rows) /\ job[b].cell \in Games
  BY <1>1 DEF AloneInv, Sound, InGame
<1>3. ASSUME NEW place \in {"count", "error_flush"}, NEW status \in {"completed", "error"},
             NEW code \in Codes, Ended(b, place, status, code),
             \/ Insert(b, "completed") /\ (place = "count" \/ code # "transient")
             \/ UNCHANGED store
      PROVE  AloneInv'
  <2> DEFINE n == [job[b] EXCEPT !.at = place, !.status = status, !.code = code]
  <2>1. Becomes(b, n)
    BY <1>3, GameEnds
  <2>2. n.at = place /\ n.cell = job[b].cell /\ n.run = job[b].run
        /\ n.recorded = job[b].recorded /\ n.code = code
    BY <1>1 DEF Jobs
  <2> HIDE DEF n
  <2>3. CASE Insert(b, "completed") /\ (place = "count" \/ code # "transient")
    <3>1. /\ \A g \in Games : g # job[b].cell => rows'[g] = rows[g]
          /\ \A g \in Games : rows'[g] # NoRow => rows'[g].run = job[b].run
          /\ OneRunOwnsTheSchedule'
      BY <1>1, <2>3, RowWritten DEF Recorded
    <3>2. \A g \in Games : g > n.cell => rows'[g] = rows[g]
      BY <1>2, <2>2, <3>1, SizeAssumption DEF Games
    <3>3. Knows(n, rows')
      BY <1>2, <2>2, <2>3, <3>1, <3>2 DEF Knows, InGame
    <3>4. QED BY <1>1, <2>1, <3>1, <3>3, AloneBecomes
  <2>4. CASE UNCHANGED store
    <3>1. Knows(n, rows)
      BY <1>1, <1>2, <2>2 DEF Knows, InGame
    <3>2. QED BY <1>1, <2>1, <2>4, <3>1, AloneThinks
  <2>5. QED BY <1>3, <2>3, <2>4
<1>4. CASE GameCompletes(b)
  BY <1>3, <1>4 DEF GameCompletes, Codes
<1>5. CASE CompletionFails(b)
  BY <1>3, <1>5 DEF CompletionFails, Codes
<1>6. ASSUME NEW code \in {"transient", "terminal"}, GameFails(b, code)
      PROVE  AloneInv'
  BY <1>3, <1>6 DEF GameFails, Codes
<1>7. QED BY <1>4, <1>5, <1>6

\* The error of a game is written, or is not.
LEMMA FlushAlone ==
  ASSUME BatchInv, AloneInv, NEW b \in Batches, ErrorFlush(b)
  PROVE  AloneInv'
<1> DEFINE place == IF job[b].code = "transient" /\ job[b].replays < Replays THEN "wait" ELSE "count"
           n == [job[b] EXCEPT !.at = place]
<1>1. job[b] \in Jobs /\ Sound(job[b]) /\ job[b].at = "error_flush" /\ job[b].at \in Active
  BY DEF BatchInv, TypeOK, ErrorFlush, At, Active, Places
<1>2. Knows(job[b], rows) /\ job[b].cell \in Games
  BY <1>1 DEF AloneInv, Sound, InGame
<1>3. Becomes(b, n)
  BY GoesTo DEF ErrorFlush, BatchInv, Places
<1>4. /\ n.at = place /\ n.cell = job[b].cell /\ n.run = job[b].run
      /\ n.recorded = job[b].recorded
  BY <1>1 DEF Jobs
<1> HIDE DEF n
<1>5. place \in {"wait", "count"} /\ (place = "wait" => rows[job[b].cell] = NoRow)
  BY <1>1, <1>2 DEF Knows
<1> HIDE DEF place
<1>6. CASE Insert(b, "error")
  <2>1. /\ \A g \in Games : g # job[b].cell => rows'[g] = rows[g]
        /\ \A g \in Games : rows'[g] # NoRow => rows'[g].run = job[b].run
        /\ rows'[job[b].cell].status = "error"
        /\ OneRunOwnsTheSchedule'
    BY <1>1, <1>6, RowWritten DEF Recorded
  <2>2. \A g \in Games : g > n.cell => rows'[g] = rows[g]
    BY <1>2, <1>4, <2>1, SizeAssumption DEF Games
  <2>3. Knows(n, rows')
    BY <1>2, <1>4, <1>5, <2>1, <2>2 DEF Knows, InGame
  <2>4. QED BY <1>1, <1>3, <2>1, <2>3, AloneBecomes
<1>7. CASE UNCHANGED store
  <2>1. Knows(n, rows)
    BY <1>1, <1>2, <1>4, <1>5 DEF Knows, InGame
  <2>2. QED BY <1>1, <1>3, <1>7, <2>1, AloneThinks
<1>8. QED BY <1>6, <1>7 DEF ErrorFlush

\* What stood in a game's place is forgotten, and the game is played.
LEMMA ForgetAlone ==
  ASSUME BatchInv, AloneInv, NEW b \in Batches, ForgetRecorded(b) \/ ForgetAndReplay(b)
  PROVE  AloneInv'
<1>1. /\ job[b] \in Jobs /\ Sound(job[b]) /\ job[b].at \in {"forget", "replay"}
      /\ job[b].at \in Active /\ DeleteErrorGame(b)
  BY DEF BatchInv, TypeOK, ForgetRecorded, ForgetAndReplay, At, Active, Places
<1>2. Knows(job[b], rows) /\ job[b].cell \in Games
  BY <1>1 DEF AloneInv, Sound, InGame
<1>3. /\ rows'[job[b].cell] = NoRow
      /\ \A g \in Games : g # job[b].cell => rows'[g] = rows[g]
      /\ OneRunOwnsTheSchedule'
  BY <1>1, PlaceFreed
<1>4. PICK n : /\ Becomes(b, n) /\ n.at = "play" /\ n.cell = job[b].cell
               /\ n.run = job[b].run /\ n.recorded = job[b].recorded
  <2>1. CASE ForgetRecorded(b)
    <3> DEFINE n == [job[b] EXCEPT !.at = "play"]
    <3>1. Becomes(b, n)
      BY <2>1, GoesTo DEF ForgetRecorded, BatchInv, Places
    <3>2. n.at = "play" /\ n.cell = job[b].cell /\ n.run = job[b].run
          /\ n.recorded = job[b].recorded
      BY <1>1 DEF Jobs
    <3> HIDE DEF n
    <3>3. QED BY <3>1, <3>2
  <2>2. CASE ForgetAndReplay(b)
    <3> DEFINE n == [job[b] EXCEPT !.at = "play", !.replays = job[b].replays + 1]
    <3>1. Becomes(b, n)
      BY <2>2, Replayed DEF BatchInv, ReplaysLeft, Sound
    <3>2. n.at = "play" /\ n.cell = job[b].cell /\ n.run = job[b].run
          /\ n.recorded = job[b].recorded
      BY <1>1 DEF Jobs
    <3> HIDE DEF n
    <3>3. QED BY <3>1, <3>2
  <2>3. QED BY <2>1, <2>2
<1>5. Knows(n, rows')
  BY <1>2, <1>3, <1>4 DEF Knows, InGame
<1>6. QED BY <1>1, <1>3, <1>4, <1>5, AloneBecomes

\* A result is counted, and the batch comes to the next cell or stops.
LEMMA CountAlone ==
  ASSUME BatchInv, AloneInv, NEW b \in Batches,
         CountCompleted(b) \/ CountOutage(b) \/ CountError(b)
  PROVE  AloneInv'
<1>1. /\ job[b] \in Jobs /\ Sound(job[b]) /\ job[b].at = "count"
      /\ job[b].at \in Active /\ UNCHANGED store
  BY DEF BatchInv, TypeOK, CountCompleted, CountOutage, CountError, At, Active, Places
<1>2. Knows(job[b], rows) /\ job[b].cell \in Games
  BY <1>1 DEF AloneInv, Sound, InGame
<1>3. Counted(b)
  BY <1>2, ResultCounted DEF BatchInv
<1>4. ASSUME NEW t \in [Pairings -> Tallies],
             Becomes(b, [job[b] EXCEPT !.at = "done", !.tally = t])
      PROVE  AloneInv'
  <2> DEFINE n == [job[b] EXCEPT !.at = "done", !.tally = t]
  <2>1. n.at \notin Active
    BY <1>1 DEF Jobs, Active
  <2>2. Becomes(b, n)
    BY <1>4
  <2> HIDE DEF n
  <2>3. QED BY <1>1, <2>1, <2>2, AloneThinks
<1>5. ASSUME NEW k \in Nat, NEW status \in {"none"}, NEW code \in Codes,
             NEW aborted \in SUBSET Pairings, NEW t \in [Pairings -> Tallies],
             Becomes(b, [job[b] EXCEPT !.at = "loop", !.cell = job[b].cell + 1,
                           !.consecutive = k, !.status = status, !.code = code,
                           !.aborted = aborted, !.tally = t])
      PROVE  AloneInv'
  <2> DEFINE n == [job[b] EXCEPT !.at = "loop", !.cell = job[b].cell + 1,
                     !.consecutive = k, !.status = status, !.code = code,
                     !.aborted = aborted, !.tally = t]
  <2>1. n.at = "loop" /\ n.cell = job[b].cell + 1 /\ n.run = job[b].run
        /\ n.recorded = job[b].recorded
    BY <1>1 DEF Jobs
  <2>2. Becomes(b, n)
    BY <1>5
  <2> HIDE DEF n
  <2>3. \A g \in Games : g > n.cell \/ g = n.cell => g > job[b].cell
    BY <1>2, <2>1, SizeAssumption DEF Games
  <2>4. Knows(n, rows)
    BY <1>2, <2>1, <2>3 DEF Knows
  <2>5. QED BY <1>1, <2>2, <2>4, AloneThinks
<1>6. QED BY <1>3, <1>4, <1>5 DEF Counted

LEMMA WorkAlone ==
  ASSUME BatchInv, AloneInv, NEW b \in Batches, Work(b)
  PROVE  AloneInv'
<1>1. CASE Mint(b)
  <2> DEFINE n == [job[b] EXCEPT !.at = "loop"]
  <2>1. job[b] \in Jobs /\ job[b].at = "mint" /\ job[b].at \in Active /\ rows' = rows
    BY <1>1 DEF BatchInv, TypeOK, Mint, At, Active, Places
  <2>2. \A g \in Games : rows[g] = NoRow
    BY <2>1 DEF AloneInv, Knows
  <2>3. Becomes(b, n)
    BY <1>1, GoesTo DEF Mint, BatchInv, Places
  <2>4. n.at = "loop"
    BY <2>1 DEF Jobs
  <2> HIDE DEF n
  <2>5. Knows(n, rows')
    BY <2>1, <2>2, <2>4 DEF Knows
  <2>6. OneRunOwnsTheSchedule'
    BY <2>1, <2>2 DEF OneRunOwnsTheSchedule
  <2>7. QED BY <2>1, <2>3, <2>5, <2>6, AloneBecomes
<1>2. CASE RecordResume(b) \/ SkipKept(b) \/ SkipAborted(b) \/ BeginGame(b)
  BY <1>2, LoopAlone
<1>3. CASE EndOfSchedule(b)
  <2> DEFINE n == [job[b] EXCEPT !.at = "done"]
  <2>1. Becomes(b, n) /\ UNCHANGED store
    BY <1>3, GoesTo DEF EndOfSchedule, BatchInv, Places
  <2>2. n.at \notin Active
    BY DEF BatchInv, TypeOK, Jobs, Active
  <2> HIDE DEF n
  <2>3. QED BY <2>1, <2>2, AloneThinks
<1>4. CASE \/ GameCompletes(b) \/ CompletionFails(b)
           \/ \E code \in {"transient", "terminal"} : GameFails(b, code)
  BY <1>4, GameAlone
<1>5. CASE ErrorFlush(b)
  BY <1>5, FlushAlone
<1>6. CASE ForgetRecorded(b) \/ ForgetAndReplay(b)
  BY <1>6, ForgetAlone
<1>7. CASE ProviderAnswers(b)
  <2>1. job[b].at = "wait" /\ job[b].at \in Active /\ UNCHANGED store /\ Goto(b, "replay")
    BY <1>7 DEF ProviderAnswers, At, Active, Places
  <2>2. Knows(job[b], rows)
    BY <2>1 DEF AloneInv
  <2>3. QED BY <2>1, <2>2, AloneGoes DEF Knows, InGame, Places
<1>8. CASE ProviderIsGone(b)
  <2> DEFINE n == [job[b] EXCEPT !.at = "count", !.stopped = TRUE]
  <2>1. job[b] \in Jobs /\ job[b].at = "wait" /\ job[b].at \in Active /\ UNCHANGED store
    BY <1>8 DEF BatchInv, TypeOK, ProviderIsGone, At, Active, Places
  <2>2. Knows(job[b], rows)
    BY <2>1 DEF AloneInv
  <2>3. Becomes(b, n)
    BY <1>8, ProviderLost DEF BatchInv
  <2>4. n.at = "count" /\ n.cell = job[b].cell /\ n.run = job[b].run
        /\ n.recorded = job[b].recorded
    BY <2>1 DEF Jobs
  <2> HIDE DEF n
  <2>5. Knows(n, rows)
    BY <2>1, <2>2, <2>4 DEF Knows, InGame
  <2>6. QED BY <2>1, <2>3, <2>5, AloneThinks
<1>9. CASE CountCompleted(b) \/ CountOutage(b) \/ CountError(b)
  BY <1>9, CountAlone
<1>10. QED BY <1>1, <1>2, <1>3, <1>4, <1>5, <1>6, <1>7, <1>8, <1>9 DEF Work

LEMMA DeleteAlone ==
  ASSUME BatchInv, AloneInv, NEW r \in runs, DeleteRun(r)
  PROVE  AloneInv'
<1>1. rows \in [Games -> Entries \cup {NoRow}]
  BY TypesFromStore DEF BatchInv, StoreInv
<1>2. /\ rows' = [g \in Games |-> IF rows[g] # NoRow /\ rows[g].run = r THEN NoRow ELSE rows[g]]
      /\ UNCHANGED job
  BY DEF DeleteRun
<1>3. rows' \in [Games -> Entries \cup {NoRow}] /\ \A g \in Games : rows'[g] \in {rows[g], NoRow}
  BY <1>1, <1>2
<1>4. QED BY <1>2, <1>3, FewerRowsKnown

LEMMA AloneStep ==
  ASSUME ~Overlap
  PROVE  BatchInv /\ AloneInv /\ [Next]_vars => AloneInv'
<1> SUFFICES ASSUME BatchInv, AloneInv, [Next]_vars PROVE AloneInv'
  OBVIOUS
<1>1. ASSUME NEW b \in Batches, Start(b) PROVE AloneInv'
  BY <1>1, StartAlone
<1>2. ASSUME NEW b \in Batches, Refuse(b) \/ Die(b) PROVE AloneInv'
  BY <1>2, StopAlone
<1>3. ASSUME NEW b \in Batches, Work(b) PROVE AloneInv'
  BY <1>3, WorkAlone
<1>4. ASSUME NEW r \in runs, DeleteRun(r) PROVE AloneInv'
  BY <1>4, DeleteAlone
<1>5. CASE UNCHANGED vars
  BY <1>5 DEF vars, AloneInv, OneRunOwnsTheSchedule
<1>6. QED BY <1>1, <1>2, <1>3, <1>4, <1>5 DEF Next

LEMMA AloneStart == Init => AloneInv
<1> SUFFICES ASSUME Init PROVE AloneInv
  OBVIOUS
<1>1. \A b \in Batches : job[b].at \notin Active
  BY DEF Init, IdleJob, Active
<1>2. \A g \in Games : rows[g] = NoRow
  BY DEF Init
<1>3. QED BY <1>1, <1>2 DEF AloneInv, OneRunOwnsTheSchedule

LEMMA AloneInvariant ==
  ASSUME ~Overlap
  PROVE  Spec => [](BatchInv /\ AloneInv)
<1>1. BatchInv /\ AloneInv /\ [Next]_vars => AloneInv'
  BY AloneStep
<1>2. QED BY <1>1, AloneStart, BatchStart, BatchStep, PTL DEF Spec

\* Where batches do not overlap, whatever they resumed, replayed, retried or left
\* behind when they died, the id of the game being played is free: no game is
\* played to its end only to collide with a row.
THEOREM PlacesAreFree ==
  ASSUME ~Overlap
  PROVE  Spec => []ReplayFindsItsPlaceFree
<1>1. AloneInv => ReplayFindsItsPlaceFree
  <2> SUFFICES ASSUME AloneInv, NEW b \in Batches, At(b, "play")
               PROVE  rows[job[b].cell] = NoRow
    BY DEF ReplayFindsItsPlaceFree
  <2>1. job[b].at \in Active
    BY DEF At, Active, Places
  <2>2. QED BY <2>1 DEF AloneInv, Knows, At
<1>2. QED BY <1>1, AloneInvariant, PTL

\* Where batches do not overlap, the recorded games of an experiment are always
\* one run's, though runs are deleted and minted anew.
THEOREM OneRunAtATime ==
  ASSUME ~Overlap
  PROVE  Spec => []OneRunOwnsTheSchedule
<1>1. AloneInv => OneRunOwnsTheSchedule
  BY DEF AloneInv
<1>2. QED BY <1>1, AloneInvariant, PTL

=============================================================================
