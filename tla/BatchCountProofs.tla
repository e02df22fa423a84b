-------------------------- MODULE BatchCountProofs --------------------------
(***************************************************************************)
(* What BatchRunner's batches count, for any number of batches, games,     *)
(* pairings and replays and any threshold, whether batches overlap or not: *)
(* a finished batch accounts for its schedule, its counter of consecutive  *)
(* failures is about its own failures, and what it reports as completed is *)
(* in the database.                                                        *)
(***************************************************************************)
EXTENDS BatchRunnerProofs, BatchHistory

-----------------------------------------------------------------------------
(***************************************************************************)
(* The invariant of a batch's counts                                       *)
(***************************************************************************)

\* Before its loop a batch has counted nothing.
Waiting == {"idle", "mint", "resume", "refused", "dead"}
Fresh(j) ==
  /\ j.cell = 1 /\ j.consecutive = 0 /\ ~j.stopped /\ j.aborted = {}
  /\ j.tally = [p \in Pairings |-> NoTally]

\* The cells of a pairing this batch has left behind, the kept ones apart.  The
\* cell at which the provider was lost is behind a batch that stopped there.
Passed(j, p) ==
  {g \in CellsOf(p) : g \notin Kept(j) /\ (g < j.cell \/ (j.at = "done" /\ g = j.cell))}

TallyFits(j, p) ==
  LET t == j.tally[p] IN
    /\ t.prevCompleted = Cardinality(KeptAs(j, p, "completed"))
    /\ t.prevErrored = Cardinality(KeptAs(j, p, "error"))
    /\ t.attempted = t.completed + t.errored
    /\ t.attempted <= Cardinality(Passed(j, p))
    /\ p \notin j.aborted /\ ~(j.at = "done" /\ j.stopped) => t.attempted = Cardinality(Passed(j, p))
    /\ p \in j.aborted => t.errored >= Threshold

\* The counter against the errors of pairing p.
CounterFits(j, p) ==
  j.consecutive <= j.tally[p].errored /\ (j.consecutive >= Threshold => p \in j.aborted)

Counts(j) ==
  /\ j.at \in Waiting => Fresh(j)
  /\ j.at \notin Waiting =>
       /\ j.cell \in 1..(NGames + 1)
       /\ \A p \in Pairings : TallyFits(j, p)
       /\ j.at = "loop" /\ j.cell > 1 => CounterFits(j, PairingOf[j.cell - 1])
       /\ j.at \in InGame =>
            /\ j.cell \in Games \ Kept(j) /\ PairingOf[j.cell] \notin j.aborted
            /\ CounterFits(j, PairingOf[j.cell])
       /\ j.at = "done" => j.stopped \/ j.cell > NGames

CountInv == \A b \in Batches : Counts(job[b])

-----------------------------------------------------------------------------
(***************************************************************************)
(* The sets of cells the counts are about                                  *)
(***************************************************************************)

LEMMA GamesFinite ==
  ASSUME NEW S \in SUBSET Games
  PROVE  IsFiniteSet(S) /\ Cardinality(S) \in Nat
<1>1. IsFiniteSet(Games)
  BY SizeAssumption, FS_Interval, 1 \in Int DEF Games
<1>2. QED BY <1>1, FS_Subset, FS_CardinalityType

LEMMA PassedIsCells ==
  ASSUME NEW j, NEW p
  PROVE  /\ Passed(j, p) \in SUBSET Games
         /\ IsFiniteSet(Passed(j, p)) /\ Cardinality(Passed(j, p)) \in Nat
<1>1. Passed(j, p) \in SUBSET Games
  BY DEF Passed, CellsOf
<1>2. QED BY <1>1, GamesFinite

\* What a batch keeps depends only on what it read and on its option.
LEMMA KeptSame ==
  ASSUME NEW j, NEW n, n.recorded = j.recorded, n.retry = j.retry
  PROVE  Kept(n) = Kept(j) /\ \A p, s : KeptAs(n, p, s) = KeptAs(j, p, s)
BY DEF Kept, KeptAs

\* A batch that has not moved on along its schedule.
LEMMA PassedSame ==
  ASSUME NEW j, NEW n, Kept(n) = Kept(j), n.cell = j.cell, n.at # "done", j.at # "done", NEW p
  PROVE  Passed(n, p) = Passed(j, p)
BY DEF Passed

\* A batch that has moved on over a cell it keeps.
LEMMA PassedOverKept ==
  ASSUME NEW j, NEW n, Kept(n) = Kept(j), j.cell \in Kept(j), j.cell \in Nat,
         n.cell = j.cell + 1, n.at # "done", j.at # "done", NEW p
  PROVE  Passed(n, p) = Passed(j, p)
<1>1. \A g \in Games : g < j.cell + 1 <=> g < j.cell \/ g = j.cell
  BY SizeAssumption DEF Games
<1>2. QED BY <1>1 DEF Passed, CellsOf

\* A batch that has moved on over a cell it does not keep, or stopped on it.
LEMMA PassedOver ==
  ASSUME NEW j, NEW n, Kept(n) = Kept(j), j.cell \in Games \ Kept(j), j.at # "done",
         \/ n.at # "done" /\ n.cell = j.cell + 1
         \/ n.at = "done" /\ n.cell = j.cell
  PROVE  /\ Passed(n, PairingOf[j.cell]) = Passed(j, PairingOf[j.cell]) \cup {j.cell}
         /\ Cardinality(Passed(n, PairingOf[j.cell])) =
              Cardinality(Passed(j, PairingOf[j.cell])) + 1
         /\ \A p : p # PairingOf[j.cell] => Passed(n, p) = Passed(j, p)
<1>1. \A g \in Games : g < j.cell + 1 <=> g < j.cell \/ g = j.cell
  BY SizeAssumption DEF Games
<1>2. \A g \in Games : (g < n.cell \/ (n.at = "done" /\ g = n.cell))
                          <=> g < j.cell \/ g = j.cell
  BY <1>1
<1>3. ASSUME NEW p
      PROVE  Passed(n, p) = {g \in CellsOf(p) : g \notin Kept(j) /\ (g < j.cell \/ g = j.cell)}
  BY <1>2 DEF Passed, CellsOf
<1>4. Passed(n, PairingOf[j.cell]) = Passed(j, PairingOf[j.cell]) \cup {j.cell}
  BY <1>3 DEF Passed, CellsOf
<1>5. j.cell \notin Passed(j, PairingOf[j.cell])
  BY SizeAssumption DEF Passed, Games
<1>6. Cardinality(Passed(n, PairingOf[j.cell])) = Cardinality(Passed(j, PairingOf[j.cell])) + 1
  BY <1>4, <1>5, PassedIsCells, FS_AddElement
<1>7. ASSUME NEW p, p # PairingOf[j.cell] PROVE Passed(n, p) = Passed(j, p)
  BY <1>3, <1>7 DEF Passed, CellsOf
<1>8. QED BY <1>4, <1>6, <1>7

\* A pairing's cells are the kept completed, the kept errors and the rest.
LEMMA CellsAddUp ==
  ASSUME NEW j, NEW p, j.recorded \in [Games -> {"none", "completed", "error"}]
  PROVE  /\ Cardinality(CellsOf(p) \ Kept(j)) \in Nat
         /\ Cardinality(CellsOf(p)) =
              Cardinality(KeptAs(j, p, "completed")) + Cardinality(KeptAs(j, p, "error"))
                + Cardinality(CellsOf(p) \ Kept(j))
<1> DEFINE C == KeptAs(j, p, "completed")
           E == KeptAs(j, p, "error")
           R == CellsOf(p) \ Kept(j)
<1>1. C \in SUBSET Games /\ E \in SUBSET Games /\ R \in SUBSET Games
  BY DEF KeptAs, Kept, CellsOf
<1>2. C \cup E \in SUBSET Games /\ C \cap E = {} /\ (C \cup E) \cap R = {}
      /\ CellsOf(p) = (C \cup E) \cup R
  BY <1>1 DEF KeptAs, Kept, CellsOf
<1> HIDE DEF C, E, R
<1>3. /\ IsFiniteSet(C) /\ IsFiniteSet(E) /\ IsFiniteSet(R) /\ IsFiniteSet(C \cup E)
      /\ Cardinality(C) \in Nat /\ Cardinality(E) \in Nat /\ Cardinality(R) \in Nat
  BY <1>1, <1>2, GamesFinite
<1>4. Cardinality(C \cap E) = 0 /\ Cardinality((C \cup E) \cap R) = 0
  BY <1>2, FS_EmptySet
<1>5. Cardinality(C \cup E) = Cardinality(C) + Cardinality(E)
  <2>1. Cardinality(C \cup E) = Cardinality(C) + Cardinality(E) - Cardinality(C \cap E)
    BY <1>3, FS_Union
  <2>2. QED BY <1>3, <1>4, <2>1
<1>6. Cardinality((C \cup E) \cup R) = Cardinality(C) + Cardinality(E) + Cardinality(R)
  <2>1. Cardinality((C \cup E) \cup R) =
          Cardinality(C \cup E) + Cardinality(R) - Cardinality((C \cup E) \cap R)
    BY <1>3, FS_Union
  <2>2. QED BY <1>3, <1>4, <1>5, <2>1
<1>7. QED BY <1>2, <1>3, <1>5, <1>6 DEF C, E, R

-----------------------------------------------------------------------------
(***************************************************************************)
(* The steps of one batch, as what they do to its counts                   *)
(***************************************************************************)

\* Before the loop every count is fresh, and so it is where a batch begins.
LEMMA FreshBegins ==
  ASSUME NEW j, Fresh(j), NEW n, n.at = "loop", n.cell = j.cell,
         n.consecutive = j.consecutive, n.aborted = j.aborted, n.stopped = j.stopped,
         \A p \in Pairings : /\ n.tally[p].prevCompleted = Cardinality(KeptAs(n, p, "completed"))
                             /\ n.tally[p].prevErrored = Cardinality(KeptAs(n, p, "error"))
                             /\ n.tally[p].attempted = 0
                             /\ n.tally[p].completed = 0
                             /\ n.tally[p].errored = 0
  PROVE  Counts(n)
<1>1. n.cell = 1 /\ n.aborted = {}
  BY DEF Fresh
<1>2. ASSUME NEW p \in Pairings PROVE TallyFits(n, p)
  <2>1. \A g \in Games : ~(g < n.cell)
    BY <1>1 DEF Games
  <2>2. Passed(n, p) = {}
    BY <2>1 DEF Passed, CellsOf
  <2>3. Cardinality(Passed(n, p)) = 0
    BY <2>2, FS_EmptySet
  <2>4. QED BY <1>1, <2>3 DEF TallyFits
<1>3. n.cell \in 1..(NGames + 1) /\ ~(n.cell > 1)
  BY <1>1, SizeAssumption
<1>4. QED BY <1>2, <1>3 DEF Counts, Waiting, InGame

LEMMA WaitingCounts ==
  ASSUME NEW n, n.at \in Waiting, Fresh(n)
  PROVE  Counts(n)
BY DEF Counts

\* Whatever happens within a game, the counts are as they were.
LEMMA GameCounts ==
  ASSUME NEW j, NEW n, Counts(j), j.at \in InGame, n.at \in InGame,
         n.cell = j.cell, n.recorded = j.recorded, n.retry = j.retry,
         n.consecutive = j.consecutive, n.aborted = j.aborted, n.tally = j.tally
  PROVE  Counts(n)
<1>1. j.at \notin Waiting \cup {"done", "loop"} /\ n.at \notin Waiting \cup {"done", "loop"}
  BY DEF Waiting, InGame
<1>2. Kept(n) = Kept(j) /\ \A p, s : KeptAs(n, p, s) = KeptAs(j, p, s)
  BY KeptSame
<1>3. \A p : Passed(n, p) = Passed(j, p)
  BY <1>1, <1>2, PassedSame
<1>4. \A p \in Pairings : TallyFits(n, p)
  BY <1>1, <1>2, <1>3 DEF Counts, TallyFits
<1>5. CounterFits(n, PairingOf[n.cell])
  BY <1>1 DEF Counts, CounterFits
<1>6. QED BY <1>1, <1>2, <1>4, <1>5 DEF Counts

\* The batch moves on over a cell it does not play.
LEMMA SkipCounts ==
  ASSUME NEW j \in Jobs, NEW n \in Jobs, Counts(j), j.at = "loop", n.at = "loop",
         j.cell \in Games,
         n.cell = j.cell + 1, n.recorded = j.recorded, n.retry = j.retry,
         n.aborted = j.aborted, n.tally = j.tally,
         n.consecutive = 0 \/ n.consecutive = Consecutive(j),
         j.cell \in Kept(j) \/ PairingOf[j.cell] \in j.aborted
  PROVE  Counts(n)
<1>1. "loop" \notin Waiting \cup InGame \cup {"done"}
  BY DEF Waiting, InGame
<1>2. Kept(n) = Kept(j) /\ \A p, s : KeptAs(n, p, s) = KeptAs(j, p, s)
  BY KeptSame
<1>3. ASSUME NEW p \in Pairings PROVE TallyFits(n, p)
  <2>1. TallyFits(j, p) /\ j.tally[p] \in Tallies
    BY <1>1 DEF Counts, Jobs
  <2>2. CASE Passed(n, p) = Passed(j, p)
    BY <1>1, <1>2, <2>1, <2>2 DEF TallyFits
  <2>3. CASE Passed(n, p) # Passed(j, p)
    <3>1. j.cell \notin Kept(j)
      BY <1>1, <1>2, <2>3, PassedOverKept DEF Jobs
    <3>2. p = PairingOf[j.cell] /\ Cardinality(Passed(n, p)) = Cardinality(Passed(j, p)) + 1
      BY <1>1, <1>2, <2>3, <3>1, PassedOver
    <3>3. p \in n.aborted
      BY <3>1, <3>2
    <3>4. Cardinality(Passed(j, p)) \in Nat /\ j.tally[p].attempted \in Nat
      BY <2>1, PassedIsCells DEF Tallies
    <3>5. j.tally[p].attempted <= Cardinality(Passed(n, p))
      BY <2>1, <3>2, <3>4 DEF TallyFits
    <3>6. QED BY <1>2, <2>1, <3>3, <3>5 DEF TallyFits
  <2>4. QED BY <2>2, <2>3
<1>4. CounterFits(n, PairingOf[n.cell - 1])
  <2>1. n.cell - 1 = j.cell /\ PairingOf[j.cell] \in Pairings
    BY SizeAssumption DEF Games, Pairings
  <2>2. CASE n.consecutive = 0
    <3>1. n.tally[PairingOf[j.cell]].errored \in Nat
      BY <2>1 DEF Jobs, Tallies
    <3>2. QED BY <2>1, <2>2, <3>1, SizeAssumption DEF CounterFits
  <2>3. CASE n.consecutive # 0
    <3>1. /\ j.cell > 1 /\ PairingOf[j.cell] = PairingOf[j.cell - 1]
          /\ n.consecutive = j.consecutive
      BY <2>3 DEF Consecutive
    <3>2. CounterFits(j, PairingOf[j.cell - 1])
      BY <1>1, <3>1 DEF Counts
    <3>3. QED BY <2>1, <3>1, <3>2 DEF CounterFits
  <2>4. QED BY <2>2, <2>3
<1>5. n.cell \in 1..(NGames + 1)
  BY SizeAssumption DEF Games
<1>6. QED BY <1>1, <1>3, <1>4, <1>5 DEF Counts

\* The batch begins a game.
LEMMA BeginCounts ==
  ASSUME NEW j \in Jobs, NEW n \in Jobs, Counts(j), j.at = "loop", n.at \in InGame,
         ToPlay(j), PairingOf[j.cell] \notin j.aborted,
         n.cell = j.cell, n.recorded = j.recorded, n.retry = j.retry,
         n.aborted = j.aborted, n.tally = j.tally, n.consecutive = Consecutive(j)
  PROVE  Counts(n)
<1>1. "loop" \notin Waiting \cup InGame \cup {"done"} /\ n.at \notin Waiting \cup {"loop", "done"}
  BY DEF Waiting, InGame
<1>2. Kept(n) = Kept(j) /\ \A p, s : KeptAs(n, p, s) = KeptAs(j, p, s)
  BY KeptSame
<1>3. \A p : Passed(n, p) = Passed(j, p)
  BY <1>1, <1>2, PassedSame
<1>4. \A p \in Pairings : TallyFits(n, p)
  BY <1>1, <1>2, <1>3 DEF Counts, TallyFits
<1>5. j.cell \in Games /\ PairingOf[j.cell] \in Pairings
  <2>1. j.cell \in 1..(NGames + 1) /\ j.cell <= NGames
    BY <1>1 DEF Counts, ToPlay
  <2>2. QED BY <2>1, SizeAssumption DEF Games, Pairings
<1>6. CounterFits(n, PairingOf[n.cell])
  <2>1. CASE Consecutive(j) = 0
    <3>1. n.tally[PairingOf[j.cell]].errored \in Nat
      BY <1>5 DEF Jobs, Tallies
    <3>2. QED BY <2>1, <3>1, SizeAssumption DEF CounterFits
  <2>2. CASE Consecutive(j) # 0
    <3>1. /\ j.cell > 1 /\ PairingOf[j.cell] = PairingOf[j.cell - 1]
          /\ Consecutive(j) = j.consecutive
      BY <2>2 DEF Consecutive
    <3>2. CounterFits(j, PairingOf[j.cell - 1])
      BY <1>1, <3>1 DEF Counts
    <3>3. QED BY <3>1, <3>2 DEF CounterFits
  <2>3. QED BY <2>1, <2>2
<1>7. j.cell \notin Kept(j) /\ n.cell \in 1..(NGames + 1)
  BY <1>1 DEF ToPlay, Counts
<1>8. QED BY <1>1, <1>2, <1>4, <1>5, <1>6, <1>7 DEF Counts

\* The schedule is over.
LEMMA EndCounts ==
  ASSUME NEW j, NEW n, Counts(j), j.at = "loop", n.at = "done",
         j.cell > NGames, n.cell = j.cell, n.recorded = j.recorded, n.retry = j.retry,
         n.aborted = j.aborted, n.tally = j.tally
  PROVE  Counts(n)
<1>1. "loop" \notin Waiting \cup InGame \cup {"done"} /\ "done" \notin Waiting \cup InGame \cup {"loop"}
  BY DEF Waiting, InGame
<1>2. Kept(n) = Kept(j) /\ \A p, s : KeptAs(n, p, s) = KeptAs(j, p, s)
  BY KeptSame
<1>3. j.cell \in 1..(NGames + 1)
  BY <1>1 DEF Counts
<1>4. \A g \in Games : g # j.cell
  BY <1>3, SizeAssumption DEF Games
<1>5. \A p : Passed(n, p) = Passed(j, p)
  BY <1>1, <1>2, <1>4 DEF Passed, CellsOf
<1>6. \A p \in Pairings : TallyFits(n, p)
  BY <1>1, <1>2, <1>5 DEF Counts, TallyFits
<1>7. QED BY <1>1, <1>3, <1>6 DEF Counts

\* A game that is counted: its pairing has one more attempted game, and the batch
\* has passed one more of its cells.
CountedOne(j, n, t) ==
  /\ t.attempted = j.tally[PairingOf[j.cell]].attempted + 1
  /\ t.prevCompleted = j.tally[PairingOf[j.cell]].prevCompleted
  /\ t.prevErrored = j.tally[PairingOf[j.cell]].prevErrored
  /\ n.tally[PairingOf[j.cell]] = t
  /\ \A p \in Pairings : p # PairingOf[j.cell] => n.tally[p] = j.tally[p]

LEMMA CountedFits ==
  ASSUME NEW j \in Jobs, NEW n \in Jobs, Counts(j), j.at \in InGame,
         NEW t \in Tallies, CountedOne(j, n, t),
         t.attempted = t.completed + t.errored,
         t.errored >= j.tally[PairingOf[j.cell]].errored,
         \/ n.at = "loop" /\ n.cell = j.cell + 1
         \/ n.at = "done" /\ n.cell = j.cell /\ n.stopped,
         n.recorded = j.recorded, n.retry = j.retry,
         \/ n.aborted = j.aborted
         \/ n.aborted = j.aborted \cup {PairingOf[j.cell]} /\ t.errored >= Threshold
  PROVE  \A p \in Pairings : TallyFits(n, p)
<1> DEFINE q == PairingOf[j.cell]
<1>1. /\ j.at \notin Waiting \cup {"done", "loop"} /\ j.cell \in Games \ Kept(j)
      /\ q \in Pairings /\ j.tally[q] \in Tallies
  BY DEF Waiting, InGame, Counts, Pairings, Jobs
<1>2. Kept(n) = Kept(j) /\ \A p, s : KeptAs(n, p, s) = KeptAs(j, p, s)
  BY KeptSame
<1>3. /\ Cardinality(Passed(n, q)) = Cardinality(Passed(j, q)) + 1
      /\ \A p : p # q => Passed(n, p) = Passed(j, p)
  BY <1>1, <1>2, PassedOver
<1>4. ASSUME NEW p \in Pairings, p # q PROVE TallyFits(n, p)
  <2>1. TallyFits(j, p) /\ n.tally[p] = j.tally[p] /\ Passed(n, p) = Passed(j, p)
    BY <1>1, <1>3, <1>4 DEF Counts, CountedOne
  <2>2. p \in n.aborted <=> p \in j.aborted
    BY <1>4
  <2>3. QED BY <1>1, <1>2, <2>1, <2>2 DEF TallyFits
<1>5. TallyFits(n, q)
  <2>1. TallyFits(j, q)
    BY <1>1 DEF Counts
  <2>2. n.tally[q] = t /\ t.attempted = j.tally[q].attempted + 1
        /\ t.prevCompleted = j.tally[q].prevCompleted /\ t.prevErrored = j.tally[q].prevErrored
    BY DEF CountedOne
  <2>3. Cardinality(Passed(j, q)) \in Nat /\ j.tally[q].attempted \in Nat
        /\ j.tally[q].errored \in Nat /\ t.errored \in Nat /\ Threshold \in Nat
    BY <1>1, PassedIsCells, SizeAssumption DEF Tallies
  <2>4. t.attempted <= Cardinality(Passed(n, q))
    <3>1. j.tally[q].attempted <= Cardinality(Passed(j, q))
      BY <2>1 DEF TallyFits
    <3>2. QED BY <1>3, <2>2, <2>3, <3>1
  <2>5. q \notin j.aborted => t.attempted = Cardinality(Passed(n, q))
    <3>1. q \notin j.aborted => j.tally[q].attempted = Cardinality(Passed(j, q))
      BY <1>1, <2>1 DEF TallyFits
    <3>2. QED BY <1>3, <2>2, <2>3, <3>1
  <2>6. q \in n.aborted => t.errored >= Threshold
    <3>1. q \in j.aborted => j.tally[q].errored >= Threshold
      BY <2>1 DEF TallyFits
    <3>2. CASE n.aborted = j.aborted
      BY <2>3, <3>1, <3>2
    <3>3. CASE t.errored >= Threshold
      BY <3>3
    <3>4. QED BY <3>2, <3>3
  <2>7. q \notin n.aborted => q \notin j.aborted
    OBVIOUS
  <2> HIDE DEF q
  <2>8. n.tally[q].prevCompleted = Cardinality(KeptAs(n, q, "completed"))
        /\ n.tally[q].prevErrored = Cardinality(KeptAs(n, q, "error"))
    BY <1>2, <2>1, <2>2 DEF TallyFits
  <2>9. QED BY <2>2, <2>4, <2>5, <2>6, <2>7, <2>8 DEF TallyFits
<1>6. QED BY <1>4, <1>5

LEMMA OneMoreCompleted ==
  ASSUME NEW t \in Tallies
  PROVE  /\ OneCompleted(t) \in Tallies
         /\ OneCompleted(t).attempted = t.attempted + 1
         /\ OneCompleted(t).completed = t.completed + 1
         /\ OneCompleted(t).errored = t.errored
         /\ OneCompleted(t).prevCompleted = t.prevCompleted
         /\ OneCompleted(t).prevErrored = t.prevErrored
<1>1. t.attempted + 1 \in Nat /\ t.completed + 1 \in Nat
  BY DEF Tallies
<1>2. OneCompleted(t) = [t EXCEPT !.attempted = t.attempted + 1, !.completed = t.completed + 1]
  BY DEF OneCompleted, Tallies
<1>3. QED BY <1>1, <1>2 DEF Tallies

LEMMA OneMoreErrored ==
  ASSUME NEW t \in Tallies
  PROVE  /\ OneErrored(t) \in Tallies
         /\ OneErrored(t).attempted = t.attempted + 1
         /\ OneErrored(t).completed = t.completed
         /\ OneErrored(t).errored = t.errored + 1
         /\ OneErrored(t).prevCompleted = t.prevCompleted
         /\ OneErrored(t).prevErrored = t.prevErrored
<1>1. t.attempted + 1 \in Nat /\ t.errored + 1 \in Nat
  BY DEF Tallies
<1>2. OneErrored(t) = [t EXCEPT !.attempted = t.attempted + 1, !.errored = t.errored + 1]
  BY DEF OneErrored, Tallies
<1>3. QED BY <1>1, <1>2 DEF Tallies

LEMMA CompletedCounts ==
  ASSUME NEW j \in Jobs, NEW n \in Jobs, Counts(j), j.at = "count", n.at = "loop",
         n.cell = j.cell + 1, n.recorded = j.recorded, n.retry = j.retry,
         n.aborted = j.aborted, n.consecutive = 0,
         n.tally = [j.tally EXCEPT ![PairingOf[j.cell]] = OneCompleted(@)]
  PROVE  Counts(n)
<1> DEFINE q == PairingOf[j.cell]
           t == OneCompleted(j.tally[q])
<1>1. j.at \in InGame /\ j.at \notin Waiting /\ n.at \notin Waiting \cup InGame \cup {"done"}
  BY DEF InGame, Waiting
<1>2. /\ j.cell \in Games /\ q \in Pairings /\ j.tally[q] \in Tallies /\ TallyFits(j, q)
      /\ j.tally \in [Pairings -> Tallies]
  BY <1>1 DEF Counts, Pairings, Jobs
<1>3. /\ t \in Tallies /\ t.attempted = j.tally[q].attempted + 1
      /\ t.completed = j.tally[q].completed + 1 /\ t.errored = j.tally[q].errored
      /\ t.prevCompleted = j.tally[q].prevCompleted /\ t.prevErrored = j.tally[q].prevErrored
  BY <1>2, OneMoreCompleted
<1>4. n.tally[q] = t /\ \A p \in Pairings : p # q => n.tally[p] = j.tally[p]
  BY <1>2
<1>5. /\ j.tally[q].attempted \in Nat /\ j.tally[q].completed \in Nat
      /\ j.tally[q].errored \in Nat
      /\ j.tally[q].attempted = j.tally[q].completed + j.tally[q].errored
  BY <1>2 DEF Tallies, TallyFits
<1> HIDE DEF t
<1>6. CountedOne(j, n, t)
  BY <1>3, <1>4 DEF CountedOne
<1>7. t.attempted = t.completed + t.errored /\ t.errored >= j.tally[q].errored
  BY <1>3, <1>5
<1>8. \A p \in Pairings : TallyFits(n, p)
  BY <1>1, <1>3, <1>6, <1>7, CountedFits
<1>9. n.cell - 1 = j.cell /\ n.cell \in 1..(NGames + 1)
  BY <1>2, SizeAssumption DEF Games
<1>10. CounterFits(n, PairingOf[n.cell - 1])
  <2>1. n.tally[q].errored \in Nat
    BY <1>3, <1>4, <1>5
  <2>2. QED BY <1>9, <2>1, SizeAssumption DEF CounterFits
<1>11. QED BY <1>1, <1>8, <1>9, <1>10 DEF Counts

LEMMA OutageCounts ==
  ASSUME NEW j \in Jobs, NEW n \in Jobs, Counts(j), j.at = "count", n.at = "done", n.stopped,
         n.cell = j.cell, n.recorded = j.recorded, n.retry = j.retry,
         n.aborted = j.aborted,
         n.tally = [j.tally EXCEPT ![PairingOf[j.cell]] = OneErrored(@)]
  PROVE  Counts(n)
<1> DEFINE q == PairingOf[j.cell]
           t == OneErrored(j.tally[q])
<1>1. j.at \in InGame /\ j.at \notin Waiting /\ n.at \notin Waiting \cup InGame \cup {"loop"}
  BY DEF InGame, Waiting
<1>2. /\ j.cell \in Games /\ q \in Pairings /\ j.tally[q] \in Tallies /\ TallyFits(j, q)
      /\ j.tally \in [Pairings -> Tallies] /\ j.cell \in 1..(NGames + 1)
  BY <1>1 DEF Counts, Pairings, Jobs
<1>3. /\ t \in Tallies /\ t.attempted = j.tally[q].attempted + 1
      /\ t.completed = j.tally[q].completed /\ t.errored = j.tally[q].errored + 1
      /\ t.prevCompleted = j.tally[q].prevCompleted /\ t.prevErrored = j.tally[q].prevErrored
  BY <1>2, OneMoreErrored
<1>4. n.tally[q] = t /\ \A p \in Pairings : p # q => n.tally[p] = j.tally[p]
  BY <1>2
<1>5. /\ j.tally[q].attempted \in Nat /\ j.tally[q].completed \in Nat
      /\ j.tally[q].errored \in Nat
      /\ j.tally[q].attempted = j.tally[q].completed + j.tally[q].errored
  BY <1>2 DEF Tallies, TallyFits
<1> HIDE DEF t
<1>6. CountedOne(j, n, t)
  BY <1>3, <1>4 DEF CountedOne
<1>7. t.attempted = t.completed + t.errored /\ t.errored >= j.tally[q].errored
  BY <1>3, <1>5
<1>8. \A p \in Pairings : TallyFits(n, p)
  BY <1>1, <1>3, <1>6, <1>7, CountedFits
<1>9. QED BY <1>1, <1>2, <1>8 DEF Counts

LEMMA ErrorCounts ==
  ASSUME NEW j \in Jobs, NEW n \in Jobs, Counts(j), j.at = "count", n.at = "loop",
         n.cell = j.cell + 1, n.recorded = j.recorded, n.retry = j.retry,
         n.consecutive = j.consecutive + 1,
         n.aborted = IF j.consecutive + 1 >= Threshold
                       THEN j.aborted \cup {PairingOf[j.cell]} ELSE j.aborted,
         n.tally = [j.tally EXCEPT ![PairingOf[j.cell]] = OneErrored(@)]
  PROVE  Counts(n)
<1> DEFINE q == PairingOf[j.cell]
           t == OneErrored(j.tally[q])
<1>1. j.at \in InGame /\ j.at \notin Waiting /\ n.at \notin Waiting \cup InGame \cup {"done"}
  BY DEF InGame, Waiting
<1>2. /\ j.cell \in Games /\ q \in Pairings /\ j.tally[q] \in Tallies /\ TallyFits(j, q)
      /\ j.tally \in [Pairings -> Tallies] /\ j.consecutive \in Nat
      /\ CounterFits(j, q)
  BY <1>1 DEF Counts, Pairings, Jobs
<1>3. /\ t \in Tallies /\ t.attempted = j.tally[q].attempted + 1
      /\ t.completed = j.tally[q].completed /\ t.errored = j.tally[q].errored + 1
      /\ t.prevCompleted = j.tally[q].prevCompleted /\ t.prevErrored = j.tally[q].prevErrored
  BY <1>2, OneMoreErrored
<1>4. n.tally[q] = t /\ \A p \in Pairings : p # q => n.tally[p] = j.tally[p]
  BY <1>2
<1>5. /\ j.tally[q].attempted \in Nat /\ j.tally[q].completed \in Nat
      /\ j.tally[q].errored \in Nat
      /\ j.tally[q].attempted = j.tally[q].completed + j.tally[q].errored
  BY <1>2 DEF Tallies, TallyFits
<1> HIDE DEF t
<1>6. CountedOne(j, n, t)
  BY <1>3, <1>4 DEF CountedOne
<1>7. t.attempted = t.completed + t.errored /\ t.errored >= j.tally[q].errored
      /\ n.consecutive <= t.errored
  <2>1. j.consecutive <= j.tally[q].errored
    BY <1>2 DEF CounterFits
  <2>2. QED BY <1>2, <1>3, <1>5, <2>1
<1>8. \/ n.aborted = j.aborted
      \/ n.aborted = j.aborted \cup {q} /\ t.errored >= Threshold
  <2>1. CASE j.consecutive + 1 >= Threshold
    <3>1. n.consecutive >= Threshold
      BY <2>1
    <3>2. t.errored >= Threshold
      BY <1>2, <1>3, <1>5, <1>7, <3>1, SizeAssumption
    <3>3. QED BY <2>1, <3>2
  <2>2. CASE ~(j.consecutive + 1 >= Threshold)
    <3>1. n.aborted = j.aborted
      BY <2>2
    <3>2. QED BY <3>1
  <2>3. QED BY <2>1, <2>2
<1>9. \A p \in Pairings : TallyFits(n, p)
  BY <1>1, <1>3, <1>6, <1>7, <1>8, CountedFits
<1>10. n.cell - 1 = j.cell /\ n.cell \in 1..(NGames + 1)
  BY <1>2, SizeAssumption DEF Games
<1>11. CounterFits(n, PairingOf[n.cell - 1])
  BY <1>4, <1>7, <1>10 DEF CounterFits
<1>12. QED BY <1>1, <1>9, <1>10, <1>11 DEF Counts

-----------------------------------------------------------------------------
(***************************************************************************)
(* Every step keeps the counts                                             *)
(***************************************************************************)

\* A step of batch b, whose memory becomes job'[b].
LEMMA CountsBecome ==
  ASSUME BatchInv, CountInv, NEW b \in Batches, NEW n, Becomes(b, n), Counts(n)
  PROVE  CountInv'
<1>1. job'[b] = n /\ \A o \in Batches : o # b => job'[o] = job[o]
  BY JobSet DEF BatchInv, TypeOK, Becomes
<1>2. QED BY <1>1 DEF CountInv

LEMMA StartKeepsCounts ==
  ASSUME BatchInv, CountInv, NEW b \in Batches, Start(b)
  PROVE  CountInv'
<1>1. /\ job[b] \in Jobs /\ Counts(job[b]) /\ job[b].at = "idle"
      /\ Fresh(job[b])
  BY DEF BatchInv, TypeOK, CountInv, Start, CheckNoCollisions, CheckResume, MayStart, At,
         Counts, Waiting
<1>2. CASE CheckNoCollisions(b)
  <2> DEFINE n == [job[b] EXCEPT !.at = "mint"]
  <2>1. Becomes(b, n)
    BY <1>2, GoesTo DEF CheckNoCollisions, BatchInv, Places
  <2>2. n.at = "mint" /\ Fresh(n)
    BY <1>1 DEF Jobs, Fresh
  <2> HIDE DEF n
  <2>3. QED BY <2>1, <2>2, WaitingCounts, CountsBecome DEF Waiting
<1>3. ASSUME NEW r \in runs, NEW retry \in BOOLEAN, CheckResume(b, r, retry)
      PROVE  CountInv'
  <2> DEFINE recorded == [g \in Games |-> rows[g].status]
             n == [job[b] EXCEPT !.at = "resume", !.run = r, !.retry = retry,
                                 !.recorded = recorded]
  <2>1. Becomes(b, n)
    BY <1>3, ResumeChecked DEF BatchInv
  <2>2. n.at = "resume" /\ Fresh(n)
    BY <1>1 DEF Jobs, Fresh
  <2> HIDE DEF n
  <2>3. QED BY <2>1, <2>2, WaitingCounts, CountsBecome DEF Waiting
<1>4. QED BY <1>2, <1>3 DEF Start

LEMMA StopKeepsCounts ==
  ASSUME BatchInv, CountInv, NEW b \in Batches, Refuse(b) \/ Die(b)
  PROVE  CountInv'
<1>1. job[b] \in Jobs /\ Counts(job[b]) /\ IdleJob(b) \in Jobs
  BY IdleJobIsJob DEF BatchInv, TypeOK, CountInv
<1>2. CASE Refuse(b)
  <2> DEFINE n == [job[b] EXCEPT !.at = "refused"]
  <2>1. Becomes(b, n)
    BY <1>2, GoesTo DEF Refuse, BatchInv, Places
  <2>2. job[b].at \in Waiting
    BY <1>2 DEF Refuse, At, Waiting
  <2>3. n.at = "refused" /\ Fresh(n)
    BY <1>1, <2>2 DEF Jobs, Fresh, Counts
  <2> HIDE DEF n
  <2>4. QED BY <2>1, <2>3, WaitingCounts, CountsBecome DEF Waiting
<1>3. CASE Die(b)
  <2> DEFINE n == [IdleJob(b) EXCEPT !.at = "dead"]
  <2>1. n \in Jobs /\ n.at = "dead"
    BY <1>1 DEF Jobs, Places
  <2>2. Becomes(b, n)
    BY <1>3, <2>1 DEF Die, Becomes
  <2>3. Fresh(n)
    BY DEF Fresh, IdleJob
  <2> HIDE DEF n
  <2>4. QED BY <2>1, <2>2, <2>3, WaitingCounts, CountsBecome DEF Waiting
<1>4. QED BY <1>2, <1>3

\* A batch enters its loop with nothing counted but what its run recorded.
LEMMA EnterKeepsCounts ==
  ASSUME BatchInv, CountInv, NEW b \in Batches, Mint(b) \/ RecordResume(b)
  PROVE  CountInv'
<1>1. /\ job[b] \in Jobs /\ Sound(job[b]) /\ Counts(job[b])
      /\ job[b].at \in {"mint", "resume"} /\ Fresh(job[b])
  BY DEF BatchInv, TypeOK, CountInv, Mint, RecordResume, At, Counts, Waiting
<1>2. CASE Mint(b)
  <2> DEFINE n == [job[b] EXCEPT !.at = "loop"]
  <2>1. Becomes(b, n) /\ n \in Jobs
    BY <1>2, GoesTo DEF Mint, BatchInv, Places, Becomes
  <2>2. /\ n.at = "loop" /\ n.cell = job[b].cell /\ n.consecutive = job[b].consecutive
        /\ n.aborted = job[b].aborted /\ n.stopped = job[b].stopped
        /\ n.tally = job[b].tally /\ n.recorded = job[b].recorded
    BY <1>1 DEF Jobs
  <2> HIDE DEF n
  <2>3. job[b].at = "mint"
    BY <1>2 DEF Mint, At
  <2>4. n.recorded = [g \in Games |-> "none"]
    BY <1>1, <2>2, <2>3 DEF Sound
  <2>5. ASSUME NEW p \in Pairings, NEW status \in {"completed", "error"}
        PROVE  Cardinality(KeptAs(n, p, status)) = 0
    <3>1. KeptAs(n, p, status) = {}
      BY <2>4 DEF KeptAs, Kept
    <3>2. QED BY <3>1, FS_EmptySet
  <2>6. \A p \in Pairings : n.tally[p] = NoTally
    BY <1>1, <2>2 DEF Fresh
  <2>7. Counts(n)
    BY <1>1, <2>2, <2>5, <2>6, FreshBegins DEF NoTally
  <2>8. QED BY <2>1, <2>7, CountsBecome
<1>3. CASE RecordResume(b)
  <2> DEFINE n == [job[b] EXCEPT !.at = "loop", !.tally = KeptTally(job[b])]
  <2>1. Becomes(b, n)
    BY <1>3, ResumeRecords DEF BatchInv
  <2>2. /\ n.at = "loop" /\ n.cell = job[b].cell /\ n.consecutive = job[b].consecutive
        /\ n.aborted = job[b].aborted /\ n.stopped = job[b].stopped
        /\ n.tally = KeptTally(job[b]) /\ n.recorded = job[b].recorded
        /\ n.retry = job[b].retry
    BY <1>1 DEF Jobs
  <2> HIDE DEF n
  <2>3. \A p, s : KeptAs(n, p, s) = KeptAs(job[b], p, s)
    BY <2>2, KeptSame
  <2>4. ASSUME NEW p \in Pairings
        PROVE  /\ n.tally[p].prevCompleted = Cardinality(KeptAs(n, p, "completed"))
               /\ n.tally[p].prevErrored = Cardinality(KeptAs(n, p, "error"))
               /\ n.tally[p].attempted = 0 /\ n.tally[p].completed = 0
               /\ n.tally[p].errored = 0
    <3>1. n.tally[p] = [NoTally EXCEPT
                          !.prevCompleted = Cardinality(KeptAs(job[b], p, "completed")),
                          !.prevErrored = Cardinality(KeptAs(job[b], p, "error"))]
      BY <2>2 DEF KeptTally
    <3>2. QED BY <2>3, <3>1 DEF NoTally
  <2>5. Counts(n)
    BY <1>1, <2>2, <2>4, FreshBegins
  <2>6. QED BY <2>1, <2>5, CountsBecome
<1>4. QED BY <1>2, <1>3

\* What choosing the next game makes of the memory, field by field.
LEMMA LoopBecomes ==
  ASSUME BatchInv, NEW b \in Batches,
         SkipKept(b) \/ SkipAborted(b) \/ BeginGame(b) \/ EndOfSchedule(b)
  PROVE  LET j == job[b] IN
         /\ j \in Jobs /\ j.at = "loop"
         /\ \E n :
              /\ Becomes(b, n)
              /\ n.recorded = j.recorded /\ n.retry = j.retry
              /\ n.aborted = j.aborted /\ n.tally = j.tally
              /\ \/ /\ j.cell \in Kept(j) /\ j.cell \in Games
                    /\ n.at = "loop" /\ n.cell = j.cell + 1
                    /\ n.consecutive =
                         IF j.recorded[j.cell] = "completed" THEN 0 ELSE Consecutive(j)
                 \/ /\ j.cell \in Games \ Kept(j) /\ PairingOf[j.cell] \in j.aborted
                    /\ n.at = "loop" /\ n.cell = j.cell + 1 /\ n.consecutive = Consecutive(j)
                 \/ /\ ToPlay(j) /\ j.cell \in Games /\ PairingOf[j.cell] \notin j.aborted
                    /\ n.at \in InGame /\ n.cell = j.cell /\ n.consecutive = Consecutive(j)
                 \/ /\ j.cell > NGames
                    /\ n.at = "done" /\ n.cell = j.cell
<1> DEFINE j == job[b]
<1>1. /\ j \in Jobs /\ Sound(j) /\ j.at = "loop"
      /\ j.cell + 1 \in Nat /\ Consecutive(j) \in Nat /\ 0 \in Nat
  BY NextCell DEF BatchInv, TypeOK, SkipKept, SkipAborted, BeginGame, EndOfSchedule, At
<1>2. ASSUME NEW k \in Nat
      PROVE  LET n == [j EXCEPT !.cell = j.cell + 1, !.consecutive = k] IN
             /\ n \in Jobs /\ n.at = "loop" /\ n.cell = j.cell + 1 /\ n.consecutive = k
             /\ n.recorded = j.recorded /\ n.retry = j.retry
             /\ n.aborted = j.aborted /\ n.tally = j.tally
  BY <1>1 DEF Jobs
<1>3. CASE SkipKept(b)
  <2> DEFINE k == IF j.recorded[j.cell] = "completed" THEN 0 ELSE Consecutive(j)
             n == [j EXCEPT !.cell = j.cell + 1, !.consecutive = k]
  <2>1. j.cell \in Kept(j) /\ j.cell \in Games /\ k \in Nat
    BY <1>1, <1>3 DEF SkipKept, Kept
  <2>2. job' = [job EXCEPT ![b] = n]
    BY <1>1, <1>3 DEF SkipKept, BatchInv, TypeOK
  <2> HIDE DEF k
  <2>3. Becomes(b, n) /\ n.at = "loop" /\ n.cell = j.cell + 1 /\ n.consecutive = k
        /\ n.recorded = j.recorded /\ n.retry = j.retry
        /\ n.aborted = j.aborted /\ n.tally = j.tally
    BY <1>2, <2>1, <2>2 DEF Becomes
  <2> HIDE DEF n, j
  <2>4. QED BY <1>1, <2>1, <2>3 DEF k, j
<1>4. j.cell <= NGames => j.cell \in Games
  BY <1>1, SizeAssumption DEF Sound, Jobs, Games
<1>5. CASE SkipAborted(b)
  <2> DEFINE n == [j EXCEPT !.cell = j.cell + 1, !.consecutive = Consecutive(j)]
  <2>1. job' = [job EXCEPT ![b] = n]
    BY <1>1, <1>5 DEF SkipAborted, BatchInv, TypeOK
  <2>2. j.cell \in Games \ Kept(j) /\ PairingOf[j.cell] \in j.aborted
    BY <1>4, <1>5 DEF SkipAborted, ToPlay
  <2>3. Becomes(b, n) /\ n.at = "loop" /\ n.cell = j.cell + 1 /\ n.consecutive = Consecutive(j)
        /\ n.recorded = j.recorded /\ n.retry = j.retry
        /\ n.aborted = j.aborted /\ n.tally = j.tally
    BY <1>1, <1>2, <2>1 DEF Becomes
  <2> HIDE DEF n, j
  <2>4. QED BY <1>1, <2>2, <2>3 DEF j
<1>6. CASE BeginGame(b)
  <2> DEFINE place == IF j.recorded[j.cell] = "none" THEN "play" ELSE "forget"
             n == [j EXCEPT !.at = place, !.consecutive = Consecutive(j), !.replays = 0]
  <2>1. place \in Places /\ place \in InGame /\ 0 \in 0..Replays
    BY SizeAssumption DEF Places, InGame
  <2>2. job' = [job EXCEPT ![b] = n]
    BY <1>1, <1>6 DEF BeginGame, BatchInv, TypeOK
  <2>3. ToPlay(j) /\ j.cell \in Games /\ PairingOf[j.cell] \notin j.aborted
    BY <1>4, <1>6 DEF BeginGame, ToPlay
  <2> HIDE DEF place
  <2>4. n \in Jobs
    BY <1>1, <2>1 DEF Jobs
  <2>5. /\ n.at = place /\ n.cell = j.cell /\ n.consecutive = Consecutive(j)
        /\ n.recorded = j.recorded /\ n.retry = j.retry /\ n.aborted = j.aborted
        /\ n.tally = j.tally
    BY <1>1 DEF Jobs
  <2>6. Becomes(b, n)
    BY <2>2, <2>4 DEF Becomes
  <2> HIDE DEF n, j
  <2>7. QED BY <1>1, <2>1, <2>3, <2>5, <2>6 DEF j
<1>7. CASE EndOfSchedule(b)
  <2> DEFINE n == [j EXCEPT !.at = "done"]
  <2>1. Becomes(b, n)
    BY <1>7, GoesTo DEF EndOfSchedule, BatchInv, Places
  <2>2. /\ n.at = "done" /\ n.cell = j.cell
        /\ n.recorded = j.recorded /\ n.retry = j.retry /\ n.aborted = j.aborted
        /\ n.tally = j.tally
    BY <1>1 DEF Jobs
  <2>3. j.cell > NGames
    BY <1>7 DEF EndOfSchedule
  <2> HIDE DEF n, j
  <2>4. QED BY <1>1, <2>1, <2>2, <2>3 DEF j
<1>8. QED BY <1>3, <1>5, <1>6, <1>7

LEMMA LoopKeepsCounts ==
  ASSUME BatchInv, CountInv, NEW b \in Batches,
         SkipKept(b) \/ SkipAborted(b) \/ BeginGame(b) \/ EndOfSchedule(b)
  PROVE  CountInv'
<1> DEFINE j == job[b]
<1>1. /\ j \in Jobs /\ Counts(j) /\ j.at = "loop"
  BY LoopBecomes DEF CountInv
<1>2. PICK n :
        /\ Becomes(b, n)
        /\ n.recorded = j.recorded /\ n.retry = j.retry
        /\ n.aborted = j.aborted /\ n.tally = j.tally
        /\ \/ /\ j.cell \in Kept(j) /\ j.cell \in Games
              /\ n.at = "loop" /\ n.cell = j.cell + 1
              /\ n.consecutive = IF j.recorded[j.cell] = "completed" THEN 0 ELSE Consecutive(j)
           \/ /\ j.cell \in Games \ Kept(j) /\ PairingOf[j.cell] \in j.aborted
              /\ n.at = "loop" /\ n.cell = j.cell + 1 /\ n.consecutive = Consecutive(j)
           \/ /\ ToPlay(j) /\ j.cell \in Games /\ PairingOf[j.cell] \notin j.aborted
              /\ n.at \in InGame /\ n.cell = j.cell /\ n.consecutive = Consecutive(j)
           \/ /\ j.cell > NGames
              /\ n.at = "done" /\ n.cell = j.cell
  BY LoopBecomes
<1>3. n \in Jobs
  BY <1>2 DEF Becomes
<1> HIDE DEF j
<1>4. CASE n.at = "loop"
  <2>1. /\ j.cell \in Games /\ n.cell = j.cell + 1
        /\ n.consecutive = 0 \/ n.consecutive = Consecutive(j)
        /\ j.cell \in Kept(j) \/ PairingOf[j.cell] \in j.aborted
    BY <1>2, <1>4 DEF InGame
  <2>2. Counts(n)
    BY <1>1, <1>2, <1>3, <1>4, <2>1, SkipCounts
  <2>3. QED BY <1>2, <2>2, CountsBecome
<1>5. CASE n.at \in InGame
  <2>1. /\ ToPlay(j) /\ PairingOf[j.cell] \notin j.aborted
        /\ n.cell = j.cell /\ n.consecutive = Consecutive(j)
    BY <1>2, <1>5 DEF InGame
  <2>2. Counts(n)
    BY <1>1, <1>2, <1>3, <1>5, <2>1, BeginCounts
  <2>3. QED BY <1>2, <2>2, CountsBecome
<1>6. CASE n.at = "done"
  <2>1. j.cell > NGames /\ n.cell = j.cell
    BY <1>2, <1>6 DEF InGame
  <2>2. Counts(n)
    BY <1>1, <1>2, <1>6, <2>1, EndCounts
  <2>3. QED BY <1>2, <2>2, CountsBecome
<1>7. QED BY <1>2, <1>4, <1>5, <1>6

\* Whatever happens within a game, nothing is counted yet.
InHand(b, n) ==
  LET j == job[b] IN
    /\ Becomes(b, n)
    /\ j.at \in InGame /\ n.at \in InGame
    /\ n.cell = j.cell /\ n.recorded = j.recorded /\ n.retry = j.retry
    /\ n.consecutive = j.consecutive /\ n.aborted = j.aborted /\ n.tally = j.tally

LEMMA GameBecomes ==
  ASSUME BatchInv, NEW b \in Batches,
         \/ ForgetRecorded(b) \/ GameCompletes(b) \/ CompletionFails(b)
         \/ \E code \in {"transient", "terminal"} : GameFails(b, code)
         \/ ErrorFlush(b) \/ ProviderAnswers(b) \/ ProviderIsGone(b) \/ ForgetAndReplay(b)
  PROVE  \E n : InHand(b, n)
<1> DEFINE j == job[b]
<1>1. j \in Jobs /\ Sound(j)
  BY DEF BatchInv, TypeOK
<1>2. ASSUME NEW place \in InGame, Goto(b, place), j.at \in InGame PROVE \E n : InHand(b, n)
  <2> DEFINE n == [j EXCEPT !.at = place]
  <2>1. Becomes(b, n)
    BY <1>2, GoesTo DEF BatchInv, Places, InGame
  <2>2. /\ n.at = place /\ n.cell = j.cell /\ n.recorded = j.recorded /\ n.retry = j.retry
        /\ n.consecutive = j.consecutive /\ n.aborted = j.aborted /\ n.tally = j.tally
    BY <1>1 DEF Jobs
  <2> HIDE DEF n
  <2>3. QED BY <1>2, <2>1, <2>2 DEF InHand
<1>3. ASSUME NEW place \in {"count", "error_flush"}, NEW status \in {"completed", "error"},
             NEW code \in Codes, Ended(b, place, status, code), j.at \in InGame
      PROVE  \E n : InHand(b, n)
  <2> DEFINE n == [j EXCEPT !.at = place, !.status = status, !.code = code]
  <2>1. Becomes(b, n)
    BY <1>3, GameEnds
  <2>2. /\ n.at = place /\ n.cell = j.cell /\ n.recorded = j.recorded /\ n.retry = j.retry
        /\ n.consecutive = j.consecutive /\ n.aborted = j.aborted /\ n.tally = j.tally
    BY <1>1 DEF Jobs
  <2>3. n.at \in InGame
    BY <2>2 DEF InGame
  <2> HIDE DEF n
  <2>4. QED BY <1>3, <2>1, <2>2, <2>3 DEF InHand
<1>4. CASE ForgetRecorded(b) \/ ProviderAnswers(b)
  BY <1>2, <1>4 DEF ForgetRecorded, ProviderAnswers, At, InGame
<1>5. CASE ErrorFlush(b)
  <2>1. CASE job[b].code = "transient" /\ job[b].replays < Replays
    BY <1>2, <1>5, <2>1 DEF ErrorFlush, At, InGame
  <2>2. CASE ~(job[b].code = "transient" /\ job[b].replays < Replays)
    BY <1>2, <1>5, <2>2 DEF ErrorFlush, At, InGame
  <2>3. QED BY <2>1, <2>2
<1>6. CASE GameCompletes(b) \/ CompletionFails(b)
  BY <1>3, <1>6 DEF GameCompletes, CompletionFails, At, InGame, Codes
<1>7. ASSUME NEW code \in {"transient", "terminal"}, GameFails(b, code) PROVE \E n : InHand(b, n)
  BY <1>3, <1>7 DEF GameFails, At, InGame, Codes
<1>8. CASE ProviderIsGone(b)
  <2> DEFINE n == [j EXCEPT !.at = "count", !.stopped = TRUE]
  <2>1. Becomes(b, n)
    BY <1>8, ProviderLost DEF BatchInv
  <2>2. /\ n.at = "count" /\ n.cell = j.cell /\ n.recorded = j.recorded /\ n.retry = j.retry
        /\ n.consecutive = j.consecutive /\ n.aborted = j.aborted /\ n.tally = j.tally
    BY <1>1 DEF Jobs
  <2>3. j.at \in InGame /\ n.at \in InGame
    BY <1>8, <2>2 DEF ProviderIsGone, At, InGame
  <2> HIDE DEF n
  <2>4. QED BY <2>1, <2>2, <2>3 DEF InHand
<1>9. CASE ForgetAndReplay(b)
  <2> DEFINE n == [j EXCEPT !.at = "play", !.replays = j.replays + 1]
  <2>1. Becomes(b, n)
    BY <1>9, Replayed DEF BatchInv, ReplaysLeft, Sound
  <2>2. /\ n.at = "play" /\ n.cell = j.cell /\ n.recorded = j.recorded /\ n.retry = j.retry
        /\ n.consecutive = j.consecutive /\ n.aborted = j.aborted /\ n.tally = j.tally
    BY <1>1 DEF Jobs
  <2>3. j.at \in InGame /\ n.at \in InGame
    BY <1>9, <2>2 DEF ForgetAndReplay, At, InGame
  <2> HIDE DEF n
  <2>4. QED BY <2>1, <2>2, <2>3 DEF InHand
<1>10. QED BY <1>4, <1>5, <1>6, <1>7, <1>8, <1>9

LEMMA GameKeepsCounts ==
  ASSUME BatchInv, CountInv, NEW b \in Batches,
         \/ ForgetRecorded(b) \/ GameCompletes(b) \/ CompletionFails(b)
         \/ \E code \in {"transient", "terminal"} : GameFails(b, code)
         \/ ErrorFlush(b) \/ ProviderAnswers(b) \/ ProviderIsGone(b) \/ ForgetAndReplay(b)
  PROVE  CountInv'
<1>1. PICK n : InHand(b, n)
  BY GameBecomes
<1>2. Counts(job[b])
  BY DEF CountInv
<1>3. Counts(n)
  BY <1>1, <1>2, GameCounts DEF InHand
<1>4. QED BY <1>1, <1>3, CountsBecome DEF InHand

\* What counting a result makes of the memory, field by field.
LEMMA ResultBecomes ==
  ASSUME BatchInv, NEW b \in Batches, CountCompleted(b) \/ CountOutage(b) \/ CountError(b)
  PROVE  /\ job[b] \in Jobs /\ job[b].at = "count" /\ job[b].cell \in Games
         /\ \E n : /\ Becomes(b, n)
                   /\ n.run = job[b].run
                   /\ n.recorded = job[b].recorded /\ n.retry = job[b].retry
                   /\ CountCompleted(b) =>
                        /\ n.at = "loop" /\ n.cell = job[b].cell + 1 /\ n.consecutive = 0
                        /\ n.aborted = job[b].aborted
                        /\ n.tally = [job[b].tally EXCEPT ![PairingOf[job[b].cell]] = OneCompleted(@)]
                   /\ CountOutage(b) =>
                        /\ n.at = "done" /\ n.cell = job[b].cell /\ n.stopped
                        /\ n.aborted = job[b].aborted
                        /\ n.tally = [job[b].tally EXCEPT ![PairingOf[job[b].cell]] = OneErrored(@)]
                   /\ CountError(b) =>
                        /\ n.at = "loop" /\ n.cell = job[b].cell + 1
                        /\ n.consecutive = job[b].consecutive + 1
                        /\ n.aborted = IF job[b].consecutive + 1 >= Threshold
                                         THEN job[b].aborted \cup {PairingOf[job[b].cell]}
                                         ELSE job[b].aborted
                        /\ n.tally = [job[b].tally EXCEPT ![PairingOf[job[b].cell]] = OneErrored(@)]
<1> DEFINE j == job[b]
           p == PairingOf[j.cell]
           won == [j.tally EXCEPT ![p] = OneCompleted(@)]
           lost == [j.tally EXCEPT ![p] = OneErrored(@)]
<1>1. job[b] \in Jobs /\ job[b].at = "count"
  BY DEF BatchInv, TypeOK, CountCompleted, CountOutage, CountError, At
<1>2. job[b].cell \in Games
  BY <1>1 DEF BatchInv, Sound, InGame
<1>3. /\ p \in Pairings /\ j.tally \in [Pairings -> Tallies]
      /\ j.aborted \subseteq Pairings /\ j.cell + 1 \in Nat /\ j.consecutive + 1 \in Nat
  BY <1>1, <1>2, NextCell DEF Pairings, Jobs
<1>4. won \in [Pairings -> Tallies] /\ lost \in [Pairings -> Tallies]
  BY <1>3, TallyCounts
<1>5. CASE CountCompleted(b)
  <2> DEFINE n == [j EXCEPT !.at = "loop", !.cell = j.cell + 1, !.consecutive = 0,
                            !.status = "none", !.code = j.code, !.aborted = j.aborted,
                            !.tally = won]
  <2>1. job' = [job EXCEPT ![b] = n]
    <3>1. job \in [Batches -> Jobs]
      BY DEF BatchInv, TypeOK
    <3>2. QED BY <1>1, <1>3, <1>5, <3>1 DEF CountCompleted, Jobs
  <2>2. ~CountOutage(b) /\ ~CountError(b)
    BY <1>5 DEF CountCompleted, CountOutage, CountError
  <2> HIDE DEF won
  <2>3. n \in Jobs
    BY <1>1, <1>3, <1>4 DEF Jobs, Places
  <2>4. /\ n.run = j.run /\ n.recorded = j.recorded /\ n.retry = j.retry
        /\ n.at = "loop" /\ n.cell = j.cell + 1 /\ n.consecutive = 0
        /\ n.aborted = j.aborted /\ n.tally = won
    BY <1>1 DEF Jobs
  <2>5. Becomes(b, n)
    BY <2>1, <2>3 DEF Becomes
  <2> HIDE DEF n
  <2>6. QED BY <1>1, <1>2, <2>2, <2>4, <2>5 DEF won
<1>6. CASE CountOutage(b)
  <2> DEFINE n == [j EXCEPT !.at = "done", !.tally = lost]
  <2>1. job' = [job EXCEPT ![b] = n] /\ j.stopped
    BY <1>1, <1>6 DEF CountOutage, BatchInv, TypeOK
  <2>2. ~CountCompleted(b) /\ ~CountError(b)
    BY <1>6 DEF CountCompleted, CountOutage, CountError
  <2> HIDE DEF lost
  <2>3. n \in Jobs
    BY <1>1, <1>3, <1>4 DEF Jobs, Places
  <2>4. /\ n.run = j.run /\ n.recorded = j.recorded /\ n.retry = j.retry
        /\ n.at = "done" /\ n.cell = j.cell /\ (n.stopped <=> j.stopped)
        /\ n.aborted = j.aborted /\ n.tally = lost
    BY <1>1 DEF Jobs
  <2>5. Becomes(b, n)
    BY <2>1, <2>3 DEF Becomes
  <2> HIDE DEF n
  <2>6. QED BY <1>1, <1>2, <2>1, <2>2, <2>4, <2>5 DEF lost
<1>7. CASE CountError(b)
  <2> DEFINE k == j.consecutive + 1
             aborted == IF k >= Threshold THEN j.aborted \cup {p} ELSE j.aborted
             n == [j EXCEPT !.at = "loop", !.cell = j.cell + 1, !.consecutive = k,
                            !.status = "none", !.code = "none", !.aborted = aborted,
                            !.tally = lost]
  <2>1. job' = [job EXCEPT ![b] = n]
    BY <1>1, <1>3, <1>7 DEF CountError, BatchInv, TypeOK, Jobs
  <2>2. ~CountCompleted(b) /\ ~CountOutage(b)
    BY <1>7 DEF CountCompleted, CountOutage, CountError
  <2>3. aborted \in SUBSET Pairings /\ k \in Nat /\ "none" \in Codes
    BY <1>3 DEF Codes
  <2> HIDE DEF lost, k, aborted
  <2>4. n \in Jobs
    BY <1>1, <1>3, <1>4, <2>3 DEF Jobs, Places
  <2>5. /\ n.run = j.run /\ n.recorded = j.recorded /\ n.retry = j.retry
        /\ n.at = "loop" /\ n.cell = j.cell + 1 /\ n.consecutive = k
        /\ n.aborted = aborted /\ n.tally = lost
    BY <1>1 DEF Jobs
  <2>6. Becomes(b, n)
    BY <2>1, <2>4 DEF Becomes
  <2> HIDE DEF n
  <2>7. QED BY <1>1, <1>2, <2>2, <2>5, <2>6 DEF lost, k, aborted
<1>8. QED BY <1>5, <1>6, <1>7

LEMMA ResultKeepsCounts ==
  ASSUME BatchInv, CountInv, NEW b \in Batches,
         CountCompleted(b) \/ CountOutage(b) \/ CountError(b)
  PROVE  CountInv'
<1> DEFINE j == job[b]
<1>1. j \in Jobs /\ j.at = "count" /\ Counts(j)
  BY ResultBecomes DEF CountInv
<1>2. PICK n : /\ Becomes(b, n)
               /\ n.recorded = j.recorded /\ n.retry = j.retry
               /\ CountCompleted(b) =>
                    /\ n.at = "loop" /\ n.cell = j.cell + 1 /\ n.consecutive = 0
                    /\ n.aborted = j.aborted
                    /\ n.tally = [j.tally EXCEPT ![PairingOf[j.cell]] = OneCompleted(@)]
               /\ CountOutage(b) =>
                    /\ n.at = "done" /\ n.cell = j.cell /\ n.stopped
                    /\ n.aborted = j.aborted
                    /\ n.tally = [j.tally EXCEPT ![PairingOf[j.cell]] = OneErrored(@)]
               /\ CountError(b) =>
                    /\ n.at = "loop" /\ n.cell = j.cell + 1
                    /\ n.consecutive = j.consecutive + 1
                    /\ n.aborted = IF j.consecutive + 1 >= Threshold
                                     THEN j.aborted \cup {PairingOf[j.cell]} ELSE j.aborted
                    /\ n.tally = [j.tally EXCEPT ![PairingOf[j.cell]] = OneErrored(@)]
  BY ResultBecomes
<1>3. n \in Jobs
  BY <1>2 DEF Becomes
<1> HIDE DEF j
<1>4. CASE CountCompleted(b)
  BY <1>1, <1>2, <1>3, <1>4, CompletedCounts, CountsBecome
<1>5. CASE CountOutage(b)
  BY <1>1, <1>2, <1>3, <1>5, OutageCounts, CountsBecome
<1>6. CASE CountError(b)
  BY <1>1, <1>2, <1>3, <1>6, ErrorCounts, CountsBecome
<1>7. QED BY <1>4, <1>5, <1>6

LEMMA CountStep == BatchInv /\ CountInv /\ [Next]_vars => CountInv'
<1> SUFFICES ASSUME BatchInv, CountInv, [Next]_vars PROVE CountInv'
  OBVIOUS
<1>1. ASSUME NEW b \in Batches, Start(b) PROVE CountInv'
  BY <1>1, StartKeepsCounts
<1>2. ASSUME NEW b \in Batches, Refuse(b) \/ Die(b) PROVE CountInv'
  BY <1>2, StopKeepsCounts
<1>3. ASSUME NEW b \in Batches, Work(b) PROVE CountInv'
  BY <1>3, EnterKeepsCounts, LoopKeepsCounts, GameKeepsCounts, ResultKeepsCounts DEF Work
<1>4. ASSUME NEW r \in runs, DeleteRun(r) PROVE CountInv'
  BY <1>4 DEF DeleteRun, CountInv
<1>5. CASE UNCHANGED vars
  BY <1>5 DEF vars, CountInv
<1>6. QED BY <1>1, <1>2, <1>3, <1>4, <1>5 DEF Next

LEMMA CountStart == Init => CountInv
<1> SUFFICES ASSUME Init, NEW b \in Batches PROVE Counts(job[b])
  BY DEF CountInv
<1>1. job[b] = IdleJob(b)
  BY DEF Init
<1>2. job[b].at \in Waiting /\ Fresh(job[b])
  BY <1>1 DEF IdleJob, Waiting, Fresh
<1>3. QED BY <1>2, WaitingCounts

LEMMA CountInvariant == Spec => [](BatchInv /\ CountInv)
BY CountStart, CountStep, BatchStart, BatchStep, PTL DEF Spec

\* A finished batch accounts for every game of its schedule: whatever died before
\* it and whatever it resumed, games are missing only from a pairing it aborted,
\* after enough errors of its own, or because the provider was gone.
THEOREM FinishedAccounts == Spec => []NothingLeftOut
<1>1. BatchInv /\ CountInv => NothingLeftOut
  <2> SUFFICES ASSUME BatchInv, CountInv, NEW b \in Batches, At(b, "done"), NEW p \in Pairings
               PROVE  /\ Skipped(job[b], p) >= 0
                      /\ Skipped(job[b], p) > 0 => p \in job[b].aborted \/ job[b].stopped
                      /\ p \in job[b].aborted => job[b].tally[p].errored >= Threshold
                      /\ job[b].tally[p].attempted
                           = job[b].tally[p].completed + job[b].tally[p].errored
    BY DEF NothingLeftOut
  <2> DEFINE j == job[b]
             t == j.tally[p]
             R == CellsOf(p) \ Kept(j)
  <2>1. /\ j \in Jobs /\ j.at = "done" /\ j.at \notin Waiting /\ Counts(j)
        /\ j.recorded \in [Games -> {"none", "completed", "error"}] /\ t \in Tallies
    BY DEF BatchInv, TypeOK, CountInv, At, Waiting, Jobs
  <2>2. TallyFits(j, p)
    BY <2>1 DEF Counts
  <2>3. /\ Cardinality(R) \in Nat
        /\ Cardinality(CellsOf(p)) = t.prevCompleted + t.prevErrored + Cardinality(R)
    BY <2>1, <2>2, CellsAddUp DEF TallyFits
  <2>4. Cardinality(Passed(j, p)) <= Cardinality(R)
    <3>1. Passed(j, p) \in SUBSET R /\ R \in SUBSET Games
      BY DEF Passed, CellsOf
    <3>2. QED BY <3>1, GamesFinite, FS_Subset
  <2>5. /\ t.attempted \in Nat /\ t.prevCompleted \in Nat /\ t.prevErrored \in Nat
        /\ Cardinality(Passed(j, p)) \in Nat
    BY <2>1, PassedIsCells DEF Tallies
  <2>6. Skipped(j, p) = Cardinality(R) - t.attempted
    BY <2>3, <2>5 DEF Skipped
  <2>7. Skipped(j, p) >= 0
    BY <2>2, <2>3, <2>4, <2>5, <2>6 DEF TallyFits
  <2>8. ASSUME p \notin j.aborted, ~j.stopped PROVE Skipped(j, p) = 0
    <3>1. j.cell > NGames /\ j.cell \in Nat
      BY <2>1, <2>8 DEF Counts, Jobs
    <3>2. \A g \in Games : g < j.cell
      BY <3>1, SizeAssumption DEF Games
    <3>3. Passed(j, p) = R
      BY <3>2 DEF Passed, CellsOf
    <3>4. t.attempted = Cardinality(R)
      BY <2>2, <2>8, <3>3 DEF TallyFits
    <3>5. QED BY <2>3, <2>6, <3>4
  <2>9. QED BY <2>2, <2>7, <2>8 DEF TallyFits
<1>2. QED BY <1>1, CountInvariant, PTL

-----------------------------------------------------------------------------
(***************************************************************************)
(* The history and the counter                                             *)
(***************************************************************************)

\* The failures in a row up to cell c, that cell included.
StreakTo(j, e, c) ==
  {g \in CellsOf(PairingOf[c]) :
     g <= c /\ e[g] = "error" /\ \A h \in Games : g < h /\ h <= c => ~Completes(j, e, h)}

\* A batch has a history of the games behind it alone, its counter is the length
\* of the row that reaches to where it is, and it gave up the pairings that broke.
Watched(j, e) ==
  /\ e \in [Games -> Outcomes]
  /\ j.at \in Waiting => e = NoneEnded
  /\ j.at # "done" => \A g \in Games : g >= j.cell => e[g] = "none"
  /\ j.at = "loop" /\ j.cell > 1 => j.consecutive = Cardinality(StreakTo(j, e, j.cell - 1))
  /\ j.at \in InGame => j.consecutive = Cardinality(Streak(j, e, j.cell))
  /\ j.aborted = {PairingOf[g] : g \in Breaking(j, e)}

HistoryInv == \A b \in Batches : Watched(job[b], ended[b])

\* What a batch keeps, and how the games behind a cell ended, determine the row.
LEMMA StreakSame ==
  ASSUME NEW j, NEW n, Kept(n) = Kept(j), n.recorded = j.recorded, NEW e, NEW f, NEW c,
         \A g \in Games : g < c => f[g] = e[g]
  PROVE  Streak(n, f, c) = Streak(j, e, c)
BY DEF Streak, CellsOf, Completes

LEMMA StreakToSame ==
  ASSUME NEW j, NEW n, Kept(n) = Kept(j), n.recorded = j.recorded, NEW e, NEW c
  PROVE  StreakTo(n, e, c) = StreakTo(j, e, c)
BY DEF StreakTo, CellsOf, Completes

LEMMA BreakingSame ==
  ASSUME NEW j, NEW n, Kept(n) = Kept(j), n.recorded = j.recorded, NEW e
  PROVE  Breaking(n, e) = Breaking(j, e)
<1>1. \A c : Streak(n, e, c) = Streak(j, e, c)
  BY StreakSame
<1>2. QED BY <1>1 DEF Breaking

LEMMA StreakIsCells ==
  ASSUME NEW j, NEW e, NEW c
  PROVE  IsFiniteSet(Streak(j, e, c)) /\ Cardinality(Streak(j, e, c)) \in Nat
<1>1. Streak(j, e, c) \in SUBSET Games
  BY DEF Streak, CellsOf
<1>2. QED BY <1>1, GamesFinite

\* The row before a cell is the one that reaches to the cell before it, if that is
\* of the same pairing.
LEMMA StreakBefore ==
  ASSUME NEW j, NEW e, NEW c \in Games
  PROVE  Streak(j, e, c) =
           IF c > 1 /\ PairingOf[c] = PairingOf[c - 1] THEN StreakTo(j, e, c - 1) ELSE {}
<1>1. NGames \in Nat /\ c \in 1..NGames /\ \A g \in Games : g \in Nat /\ PairingOf[g] \in Nat
  BY SizeAssumption, PairingAssumption DEF Games
<1>2. \A g \in Games : g < c <=> g <= c - 1
  BY <1>1 DEF Games
<1>3. CASE c > 1 /\ PairingOf[c] = PairingOf[c - 1]
  BY <1>2, <1>3 DEF Streak, StreakTo, CellsOf
<1>4. CASE ~(c > 1)
  <2>1. \A g \in Games : ~(g < c)
    BY <1>1, <1>4 DEF Games
  <2>2. QED BY <1>4, <2>1 DEF Streak, CellsOf
<1>5. CASE c > 1 /\ PairingOf[c] # PairingOf[c - 1]
  <2>1. c - 1 \in Games /\ c - 1 <= c
    BY <1>1, <1>5 DEF Games
  <2>2. ASSUME NEW g \in Games, g < c PROVE PairingOf[g] # PairingOf[c]
    <3>1. PairingOf[g] <= PairingOf[c - 1] /\ PairingOf[c - 1] <= PairingOf[c]
      BY <1>2, <2>1, <2>2, PairingAssumption
    <3>2. QED BY <1>1, <1>5, <2>1, <3>1
  <2>3. Streak(j, e, c) = {}
    BY <2>2 DEF Streak, CellsOf
  <2>4. QED BY <1>5, <2>3
<1>6. QED BY <1>3, <1>4, <1>5

\* What a cell makes of the row: a completion ends it, an error of this batch makes
\* it longer, a game not played leaves it.
LEMMA StreakOver ==
  ASSUME NEW j, NEW e, NEW c \in Games
  PROVE  /\ Completes(j, e, c) /\ e[c] # "error" => StreakTo(j, e, c) = {}
         /\ ~Completes(j, e, c) /\ e[c] # "error" => StreakTo(j, e, c) = Streak(j, e, c)
         /\ e[c] = "error" => Cardinality(StreakTo(j, e, c)) = Cardinality(Streak(j, e, c)) + 1
                              \/ Completes(j, e, c)
<1>1. \A g \in Games : g \in Nat
  BY SizeAssumption DEF Games
<1>2. \A g \in Games : g <= c <=> g < c \/ g = c
  BY <1>1
<1>3. ASSUME Completes(j, e, c), e[c] # "error" PROVE StreakTo(j, e, c) = {}
  BY <1>2, <1>3 DEF StreakTo, CellsOf
<1>4. ASSUME ~Completes(j, e, c), e[c] # "error" PROVE StreakTo(j, e, c) = Streak(j, e, c)
  BY <1>2, <1>4 DEF StreakTo, Streak, CellsOf
<1>5. ASSUME ~Completes(j, e, c), e[c] = "error"
      PROVE  Cardinality(StreakTo(j, e, c)) = Cardinality(Streak(j, e, c)) + 1
  <2>1. \A h \in Games : ~(c < h /\ h <= c)
    BY <1>1
  <2>2. StreakTo(j, e, c) = Streak(j, e, c) \cup {c}
    BY <1>2, <1>5, <2>1 DEF StreakTo, Streak, CellsOf
  <2>3. c \notin Streak(j, e, c)
    BY <1>1 DEF Streak
  <2>4. QED BY <2>2, <2>3, StreakIsCells, FS_AddElement
<1>6. QED BY <1>3, <1>4, <1>5

\* How the game in hand ends: its row may break, no other does.
LEMMA BreakingNext ==
  ASSUME NEW j, NEW n, Kept(n) = Kept(j), n.recorded = j.recorded,
         NEW e, NEW f, NEW c \in Games,
         \A g \in Games : g >= c => e[g] = "none",
         \A g \in Games : g # c => f[g] = e[g]
  PROVE  Breaking(n, f) =
           Breaking(j, e) \cup
             (IF f[c] = "error" /\ Cardinality(Streak(j, e, c)) + 1 >= Threshold THEN {c} ELSE {})
<1>1. \A g \in Games : g \in Nat
  BY SizeAssumption DEF Games
<1>2. e[c] = "none"
  BY <1>1
<1>3. \A g \in Games : g > c => f[g] = "none" /\ e[g] = "none"
  BY <1>1, <1>2
<1>4. ASSUME NEW g \in Games, g <= c PROVE Streak(n, f, g) = Streak(j, e, g)
  <2>1. \A h \in Games : h < g => f[h] = e[h]
    BY <1>1, <1>2, <1>4
  <2>2. QED BY <2>1, StreakSame
<1>5. ASSUME NEW g \in Games, g < c PROVE g \in Breaking(n, f) <=> g \in Breaking(j, e)
  BY <1>1, <1>4, <1>5 DEF Breaking
<1>6. ASSUME NEW g \in Games, g > c PROVE g \notin Breaking(n, f) /\ g \notin Breaking(j, e)
  BY <1>3, <1>6 DEF Breaking
<1>7. /\ c \in Breaking(n, f) <=> f[c] = "error" /\ Cardinality(Streak(j, e, c)) + 1 >= Threshold
      /\ c \notin Breaking(j, e)
  BY <1>1, <1>2, <1>4 DEF Breaking
<1>8. \A g \in Games : g < c \/ g > c \/ g = c
  BY <1>1
<1>9. Breaking(n, f) \in SUBSET Games /\ Breaking(j, e) \in SUBSET Games
  BY DEF Breaking
<1>10. QED BY <1>5, <1>6, <1>7, <1>8, <1>9

-----------------------------------------------------------------------------
(***************************************************************************)
(* Every step keeps the history and the counter together                   *)
(***************************************************************************)

\* What a step writes into the history.
LEMMA HistoryMoves ==
  ASSUME HistoryNext, NEW b \in Batches
  PROVE  /\ CountsAGame(b) => ended'[b] = [ended[b] EXCEPT ![job[b].cell] = Outcome(job[b])]
         /\ ~CountsAGame(b) /\ job'[b].at = "dead" => ended'[b] = NoneEnded
         /\ ~CountsAGame(b) /\ job'[b].at # "dead" => ended'[b] = ended[b]
BY DEF HistoryNext, At, CountsAGame

\* A step of batch b leaves the other batches' histories as they are.
LEMMA WatchedBecomes ==
  ASSUME BatchInv, HistoryInv, HistoryNext, NEW b \in Batches, NEW n, Becomes(b, n),
         Watched(n, ended'[b])
  PROVE  HistoryInv'
<1>1. job'[b] = n /\ \A o \in Batches : o # b => job'[o] = job[o]
  BY JobSet DEF BatchInv, TypeOK, Becomes
<1>2. ASSUME NEW o \in Batches, o # b PROVE Watched(job'[o], ended'[o])
  <2>1. job'[o] = job[o] /\ Watched(job[o], ended[o])
    BY <1>1, <1>2 DEF HistoryInv
  <2>2. ~CountsAGame(o)
    BY <2>1 DEF CountsAGame, At
  <2>3. job[o].at = "dead" => ended[o] = NoneEnded
    BY <2>1 DEF Watched, Waiting
  <2>4. ended'[o] = ended[o]
    BY <2>1, <2>2, <2>3, HistoryMoves
  <2>5. QED BY <2>1, <2>4
<1>3. QED BY <1>1, <1>2 DEF HistoryInv

\* With no game behind it a batch has broken no row.
LEMMA NothingWatched ==
  ASSUME NEW n, n.cell = 1, n.aborted = {}, n.at \notin InGame
  PROVE  Watched(n, NoneEnded)
<1>1. \A g \in Games : NoneEnded[g] = "none"
  BY DEF NoneEnded
<1>2. NoneEnded \in [Games -> Outcomes]
  BY DEF NoneEnded, Outcomes
<1>3. Breaking(n, NoneEnded) = {}
  BY <1>1 DEF Breaking
<1>4. QED BY <1>1, <1>2, <1>3 DEF Watched

\* Up to the loop, and when it dies, a batch has counted nothing.
LEMMA EnterIsWatched ==
  ASSUME BatchInv, CountInv, HistoryInv, HistoryNext, CountInv', NEW b \in Batches,
         Start(b) \/ Refuse(b) \/ Die(b) \/ Mint(b) \/ RecordResume(b)
  PROVE  HistoryInv'
<1>1. /\ job[b] \in Jobs /\ Counts(job[b]) /\ Watched(job[b], ended[b])
  BY DEF BatchInv, TypeOK, CountInv, HistoryInv
<1>2. CASE Die(b)
  <2> DEFINE n == [IdleJob(b) EXCEPT !.at = "dead"]
  <2>1. n \in Jobs /\ n.at = "dead" /\ n.cell = 1 /\ n.aborted = {}
    BY IdleJobIsJob DEF Jobs, Places, IdleJob
  <2>2. Becomes(b, n)
    BY <1>2, <2>1 DEF Die, Becomes
  <2> HIDE DEF n
  <2>3. job'[b] = n
    BY <2>2, JobSet DEF BatchInv, TypeOK, Becomes
  <2>4. ended'[b] = NoneEnded
    BY <2>1, <2>3, HistoryMoves DEF CountsAGame
  <2>5. Watched(n, ended'[b])
    BY <2>1, <2>4, NothingWatched DEF InGame
  <2>6. QED BY <2>2, <2>5, WatchedBecomes
<1>3. ASSUME NEW n, Becomes(b, n), job[b].at \in {"idle", "mint", "resume"},
             n.at \in {"mint", "resume", "refused", "loop"},
             n.cell = job[b].cell, n.aborted = job[b].aborted
      PROVE  HistoryInv'
  <2>1. job'[b] = n
    BY <1>3, JobSet DEF BatchInv, TypeOK, Becomes
  <2>2. Fresh(job[b]) /\ ended[b] = NoneEnded
    BY <1>1, <1>3 DEF Counts, Watched, Waiting
  <2>3. ended'[b] = NoneEnded
    BY <1>3, <2>1, <2>2, HistoryMoves DEF CountsAGame, At
  <2>4. Watched(n, ended'[b])
    BY <1>3, <2>2, <2>3, NothingWatched DEF Fresh, InGame
  <2>5. QED BY <1>3, <2>4, WatchedBecomes
<1>4. ASSUME NEW place \in {"mint", "refused", "loop"}, Goto(b, place),
             job[b].at \in {"idle", "mint", "resume"}
      PROVE  HistoryInv'
  <2> DEFINE n == [job[b] EXCEPT !.at = place]
  <2>1. Becomes(b, n)
    BY <1>4, GoesTo DEF BatchInv, Places
  <2>2. n.at = place /\ n.cell = job[b].cell /\ n.aborted = job[b].aborted
    BY <1>1 DEF Jobs
  <2> HIDE DEF n
  <2>3. QED BY <1>3, <1>4, <2>1, <2>2
<1>5. CASE CheckNoCollisions(b) \/ Refuse(b) \/ Mint(b)
  BY <1>4, <1>5 DEF CheckNoCollisions, Refuse, Mint, MayStart, At
<1>6. ASSUME NEW r \in runs, NEW retry \in BOOLEAN, CheckResume(b, r, retry)
      PROVE  HistoryInv'
  <2> DEFINE recorded == [g \in Games |-> rows[g].status]
             n == [job[b] EXCEPT !.at = "resume", !.run = r, !.retry = retry,
                                 !.recorded = recorded]
  <2>1. Becomes(b, n)
    BY <1>6, ResumeChecked DEF BatchInv
  <2>2. n.at = "resume" /\ n.cell = job[b].cell /\ n.aborted = job[b].aborted
    BY <1>1 DEF Jobs
  <2>3. job[b].at = "idle"
    BY <1>6 DEF CheckResume, MayStart, At
  <2> HIDE DEF n
  <2>4. QED BY <1>3, <2>1, <2>2, <2>3
<1>7. CASE RecordResume(b)
  <2> DEFINE n == [job[b] EXCEPT !.at = "loop", !.tally = KeptTally(job[b])]
  <2>1. Becomes(b, n)
    BY <1>7, ResumeRecords DEF BatchInv
  <2>2. n.at = "loop" /\ n.cell = job[b].cell /\ n.aborted = job[b].aborted
    BY <1>1 DEF Jobs
  <2>3. job[b].at = "resume"
    BY <1>7 DEF RecordResume, At
  <2> HIDE DEF n
  <2>4. QED BY <1>3, <2>1, <2>2, <2>3
<1>8. QED BY <1>2, <1>5, <1>6, <1>7 DEF Start

\* Choosing the next game: the counter moves with the row it counts.
LEMMA LoopIsWatched ==
  ASSUME BatchInv, CountInv, HistoryInv, HistoryNext, NEW b \in Batches,
         SkipKept(b) \/ SkipAborted(b) \/ BeginGame(b) \/ EndOfSchedule(b)
  PROVE  HistoryInv'
<1> DEFINE j == job[b]
           e == ended[b]
<1>1. /\ j \in Jobs /\ Counts(j) /\ j.at = "loop" /\ Watched(j, e)
  BY LoopBecomes DEF CountInv, HistoryInv
<1>2. PICK n :
        /\ Becomes(b, n)
        /\ n.recorded = j.recorded /\ n.retry = j.retry
        /\ n.aborted = j.aborted /\ n.tally = j.tally
        /\ \/ /\ j.cell \in Kept(j) /\ j.cell \in Games
              /\ n.at = "loop" /\ n.cell = j.cell + 1
              /\ n.consecutive = IF j.recorded[j.cell] = "completed" THEN 0 ELSE Consecutive(j)
           \/ /\ j.cell \in Games \ Kept(j) /\ PairingOf[j.cell] \in j.aborted
              /\ n.at = "loop" /\ n.cell = j.cell + 1 /\ n.consecutive = Consecutive(j)
           \/ /\ ToPlay(j) /\ j.cell \in Games /\ PairingOf[j.cell] \notin j.aborted
              /\ n.at \in InGame /\ n.cell = j.cell /\ n.consecutive = Consecutive(j)
           \/ /\ j.cell > NGames
              /\ n.at = "done" /\ n.cell = j.cell
  BY LoopBecomes
<1>3. ended'[b] = e
  <2>1. job'[b] = n
    BY <1>2, JobSet DEF BatchInv, TypeOK, Becomes
  <2>2. n.at # "dead" /\ ~CountsAGame(b)
    BY <1>1, <1>2, <2>1 DEF InGame, CountsAGame, At
  <2>3. QED BY <2>1, <2>2, HistoryMoves
<1> HIDE DEF j, e
<1>4. Kept(n) = Kept(j)
  BY <1>2, KeptSame
<1>5. Breaking(n, e) = Breaking(j, e)
  BY <1>2, <1>4, BreakingSame
<1>6. j.cell \in Games => Consecutive(j) = Cardinality(Streak(j, e, j.cell))
  BY <1>1, StreakBefore, FS_EmptySet DEF Watched, Consecutive
<1>7. /\ e \in [Games -> Outcomes] /\ j.cell \in Nat
      /\ \A g \in Games : g \in Nat /\ (g >= j.cell => e[g] = "none")
  BY <1>1, SizeAssumption DEF Watched, Jobs, Games
<1>8. n.at \notin Waiting /\ n.aborted = {PairingOf[g] : g \in Breaking(n, e)}
  BY <1>1, <1>2, <1>5 DEF Watched, Waiting, InGame
<1>9. CASE n.at = "loop"
  <2>1. /\ j.cell \in Games /\ n.cell = j.cell + 1
        /\ n.consecutive = IF Completes(j, e, j.cell) THEN 0 ELSE Consecutive(j)
    BY <1>2, <1>7, <1>9 DEF InGame, Completes
  <2>2. e[j.cell] # "error"
    BY <1>7, <2>1
  <2>3. n.consecutive = Cardinality(StreakTo(j, e, j.cell))
    BY <1>6, <2>1, <2>2, StreakOver, FS_EmptySet
  <2>4. StreakTo(n, e, n.cell - 1) = StreakTo(j, e, j.cell)
    BY <1>2, <1>4, <1>7, <2>1, StreakToSame
  <2>5. \A g \in Games : g >= n.cell => e[g] = "none"
    BY <1>7, <2>1
  <2>6. n.at \notin InGame
    BY <1>9 DEF InGame
  <2>7. Watched(n, e)
    BY <1>7, <1>8, <2>3, <2>4, <2>5, <2>6 DEF Watched
  <2>8. QED BY <1>2, <1>3, <2>7, WatchedBecomes
<1>10. CASE n.at \in InGame
  <2>1. j.cell \in Games /\ n.cell = j.cell /\ n.consecutive = Consecutive(j)
    BY <1>2, <1>10 DEF InGame
  <2>2. Streak(n, e, n.cell) = Streak(j, e, j.cell)
    BY <1>2, <1>4, <2>1, StreakSame
  <2>3. n.at # "loop"
    BY <1>10 DEF InGame
  <2>4. Watched(n, e)
    BY <1>6, <1>7, <1>8, <2>1, <2>2, <2>3 DEF Watched
  <2>5. QED BY <1>2, <1>3, <2>4, WatchedBecomes
<1>11. CASE n.at = "done"
  <2>1. Watched(n, e)
    BY <1>7, <1>8, <1>11 DEF Watched, InGame
  <2>2. QED BY <1>2, <1>3, <2>1, WatchedBecomes
<1>12. QED BY <1>2, <1>9, <1>10, <1>11

LEMMA GameIsWatched ==
  ASSUME BatchInv, HistoryInv, HistoryNext, NEW b \in Batches,
         \/ ForgetRecorded(b) \/ GameCompletes(b) \/ CompletionFails(b)
         \/ \E code \in {"transient", "terminal"} : GameFails(b, code)
         \/ ErrorFlush(b) \/ ProviderAnswers(b) \/ ProviderIsGone(b) \/ ForgetAndReplay(b)
  PROVE  HistoryInv'
<1> DEFINE j == job[b]
           e == ended[b]
<1>1. PICK n : InHand(b, n)
  BY GameBecomes
<1>2. ended'[b] = e
  <2>1. job'[b] = n
    BY <1>1, JobSet DEF BatchInv, TypeOK, Becomes, InHand
  <2>2. n.at # "dead" /\ ~CountsAGame(b)
    BY <1>1, <2>1 DEF InHand, InGame, CountsAGame, At
  <2>3. QED BY <2>1, <2>2, HistoryMoves
<1>3. Watched(j, e)
  BY DEF HistoryInv
<1> HIDE DEF e
<1>4. Kept(n) = Kept(j) /\ n.recorded = j.recorded
  BY <1>1, KeptSame DEF InHand
<1>5. Breaking(n, e) = Breaking(j, e) /\ \A c : Streak(n, e, c) = Streak(j, e, c)
  BY <1>4, BreakingSame, StreakSame
<1>6. Watched(n, e)
  BY <1>1, <1>3, <1>5 DEF Watched, InHand, InGame, Waiting
<1>7. QED BY <1>1, <1>2, <1>6, WatchedBecomes DEF InHand

\* Counting a result: the history learns how the game ended as the counter does.
LEMMA ResultIsWatched ==
  ASSUME BatchInv, CountInv, HistoryInv, HistoryNext, NEW b \in Batches,
         CountCompleted(b) \/ CountOutage(b) \/ CountError(b)
  PROVE  HistoryInv'
<1> DEFINE j == job[b]
           e == ended[b]
           o == Outcome(j)
           f == [e EXCEPT ![j.cell] = o]
           q == PairingOf[j.cell]
<1>1. /\ j \in Jobs /\ j.at = "count" /\ j.cell \in Games /\ Counts(j) /\ Watched(j, e)
  BY ResultBecomes DEF CountInv, HistoryInv
<1>2. PICK n : /\ Becomes(b, n)
               /\ n.recorded = j.recorded /\ n.retry = j.retry
               /\ CountCompleted(b) =>
                    /\ n.at = "loop" /\ n.cell = j.cell + 1 /\ n.consecutive = 0
                    /\ n.aborted = j.aborted
               /\ CountOutage(b) =>
                    /\ n.at = "done" /\ n.cell = j.cell
                    /\ n.aborted = j.aborted
               /\ CountError(b) =>
                    /\ n.at = "loop" /\ n.cell = j.cell + 1
                    /\ n.consecutive = j.consecutive + 1
                    /\ n.aborted = IF j.consecutive + 1 >= Threshold
                                     THEN j.aborted \cup {q} ELSE j.aborted
  BY ResultBecomes
<1>3. ended'[b] = f
  <2>1. job'[b] = n
    BY <1>2, JobSet DEF BatchInv, TypeOK, Becomes
  <2>2. CountsAGame(b)
    BY <1>1, <1>2, <2>1 DEF CountsAGame, At
  <2>3. QED BY <2>2, HistoryMoves
<1>4. /\ CountCompleted(b) => o = "completed"
      /\ CountOutage(b) => o = "outage"
      /\ CountError(b) => o = "error"
      /\ o \in Outcomes
  BY <1>1 DEF CountCompleted, CountOutage, CountError, Outcome, Outcomes, Jobs
<1> HIDE DEF j, e, o
<1>5. Kept(n) = Kept(j)
  BY <1>2, KeptSame
<1>6. /\ e \in [Games -> Outcomes] /\ f \in [Games -> Outcomes] /\ f[j.cell] = o
      /\ \A g \in Games : g \in Nat /\ (g >= j.cell => e[g] = "none")
      /\ j.cell \notin Kept(j)
      /\ j.consecutive = Cardinality(Streak(j, e, j.cell)) /\ j.consecutive \in Nat
  BY <1>1, <1>4, SizeAssumption DEF Watched, InGame, Games, Counts, Waiting, Jobs
<1>7. /\ \A g \in Games : g # j.cell => f[g] = e[g]
      /\ \A g \in Games : g > j.cell => f[g] = "none"
  BY <1>6
<1> HIDE DEF f
<1>8. Breaking(n, f) = Breaking(j, e) \cup
        (IF f[j.cell] = "error" /\ Cardinality(Streak(j, e, j.cell)) + 1 >= Threshold
           THEN {j.cell} ELSE {})
  BY <1>1, <1>2, <1>5, <1>6, <1>7, BreakingNext
<1>9. n.aborted = {PairingOf[g] : g \in Breaking(n, f)}
  <2>1. j.aborted = {PairingOf[g] : g \in Breaking(j, e)}
    BY <1>1 DEF Watched
  <2>2. CASE o = "error" /\ j.consecutive + 1 >= Threshold
    <3>1. n.aborted = j.aborted \cup {q}
      BY <1>2, <1>4, <2>2
    <3>2. Breaking(n, f) = Breaking(j, e) \cup {j.cell}
      BY <1>6, <1>8, <2>2
    <3>3. QED BY <2>1, <3>1, <3>2
  <2>3. CASE ~(o = "error" /\ j.consecutive + 1 >= Threshold)
    <3>1. n.aborted = j.aborted
      BY <1>2, <1>4, <2>3
    <3>2. Breaking(n, f) = Breaking(j, e)
      BY <1>6, <1>8, <2>3
    <3>3. QED BY <2>1, <3>1, <3>2
  <2>4. QED BY <2>2, <2>3
<1>10. \A g \in Games : g < j.cell => f[g] = e[g]
  BY <1>6, <1>7
<1>11. Cardinality(Streak(n, f, j.cell)) = j.consecutive
  BY <1>2, <1>5, <1>6, <1>10, StreakSame
<1>12. n.at = "loop" => n.consecutive = Cardinality(StreakTo(n, f, j.cell))
  <2>1. CASE CountCompleted(b)
    <3>1. Completes(n, f, j.cell) /\ f[j.cell] # "error"
      BY <1>4, <1>6, <2>1 DEF Completes
    <3>2. QED BY <1>1, <1>2, <2>1, <3>1, StreakOver, FS_EmptySet
  <2>2. CASE CountError(b)
    <3>1. ~Completes(n, f, j.cell) /\ f[j.cell] = "error"
      BY <1>4, <1>5, <1>6, <2>2 DEF Completes
    <3>2. QED BY <1>1, <1>2, <1>11, <2>2, <3>1, StreakOver
  <2>3. CASE CountOutage(b)
    BY <1>2, <2>3
  <2>4. QED BY <2>1, <2>2, <2>3
<1>13. /\ n.at \in {"loop", "done"} /\ (n.at = "loop" => n.cell = j.cell + 1)
       /\ n.at \notin Waiting \cup InGame
  BY <1>2 DEF Waiting, InGame
<1>14. n.at = "loop" => n.cell - 1 = j.cell /\ \A g \in Games : g >= n.cell => f[g] = "none"
  BY <1>1, <1>6, <1>7, <1>13
<1>15. Watched(n, f)
  BY <1>6, <1>9, <1>12, <1>13, <1>14 DEF Watched
<1>16. QED BY <1>2, <1>3, <1>15, WatchedBecomes

LEMMA HistoryStep ==
  BatchInv /\ CountInv /\ CountInv' /\ HistoryInv /\ [HistoryNext]_<<vars, ended>> => HistoryInv'
<1> SUFFICES ASSUME BatchInv, CountInv, CountInv', HistoryInv, [HistoryNext]_<<vars, ended>>
             PROVE  HistoryInv'
  OBVIOUS
<1>1. CASE UNCHANGED <<vars, ended>>
  BY <1>1 DEF vars, HistoryInv
<1>2. CASE HistoryNext
  <2>1. ASSUME NEW b \in Batches, Start(b) \/ Refuse(b) \/ Die(b) PROVE HistoryInv'
    BY <1>2, <2>1, EnterIsWatched
  <2>2. ASSUME NEW b \in Batches, Work(b) PROVE HistoryInv'
    BY <1>2, <2>2, EnterIsWatched, LoopIsWatched, GameIsWatched, ResultIsWatched DEF Work
  <2>3. ASSUME NEW r \in runs, DeleteRun(r), NEW b \in Batches
        PROVE  Watched(job'[b], ended'[b])
    <3>1. job' = job /\ Watched(job[b], ended[b])
      BY <2>3 DEF DeleteRun, HistoryInv
    <3>2. ~CountsAGame(b)
      BY <3>1 DEF CountsAGame, At
    <3>3. ended'[b] = ended[b]
      BY <1>2, <3>1, <3>2, HistoryMoves DEF Watched, Waiting
    <3>4. QED BY <3>1, <3>3
  <2>4. QED BY <1>2, <2>1, <2>2, <2>3 DEF HistoryNext, Next, HistoryInv
<1>3. QED BY <1>1, <1>2

LEMMA HistoryStart == HistoryInit => HistoryInv
<1> SUFFICES ASSUME HistoryInit, NEW b \in Batches PROVE Watched(job[b], ended[b])
  BY DEF HistoryInv
<1>1. job[b] = IdleJob(b) /\ ended[b] = NoneEnded
  BY DEF HistoryInit, Init
<1>2. job[b].at = "idle" /\ job[b].cell = 1 /\ job[b].aborted = {}
  BY <1>1 DEF IdleJob
<1>3. QED BY <1>1, <1>2, NothingWatched DEF InGame

\* The history only watches.
LEMMA HistoryImplements == HistorySpec => Spec
<1>1. HistoryInit => Init
  BY DEF HistoryInit
<1>2. [HistoryNext]_<<vars, ended>> => [Next]_vars
  BY DEF HistoryNext, vars
<1>3. QED BY <1>1, <1>2, PTL DEF HistorySpec, Spec

\* The counter of consecutive failures that decides whether a pairing is given up
\* is, wherever the next game is chosen, the number of this batch's own errors in
\* this pairing since its last completion, played or kept; and exactly the pairings
\* with a row of the threshold are given up, whatever was kept, resumed or lost to
\* the provider.
THEOREM CounterIsItsOwn == HistorySpec => []CountsOnlyItsOwnErrors
<1>1. BatchInv /\ CountInv /\ HistoryInv => CountsOnlyItsOwnErrors
  <2> SUFFICES ASSUME BatchInv, CountInv, HistoryInv, NEW b \in Batches
               PROVE  /\ At(b, "loop") /\ job[b].cell <= NGames =>
                           Consecutive(job[b]) =
                             Cardinality(Streak(job[b], ended[b], job[b].cell))
                      /\ job[b].aborted = {PairingOf[g] : g \in Breaking(job[b], ended[b])}
    BY DEF CountsOnlyItsOwnErrors
  <2>1. Watched(job[b], ended[b]) /\ Counts(job[b])
    BY DEF HistoryInv, CountInv
  <2>2. ASSUME At(b, "loop"), job[b].cell <= NGames
        PROVE  Consecutive(job[b]) = Cardinality(Streak(job[b], ended[b], job[b].cell))
    <3>1. job[b].at = "loop" /\ job[b].cell \in Games
      BY <2>1, <2>2, SizeAssumption DEF At, Counts, Waiting, Games
    <3>2. QED BY <2>1, <3>1, StreakBefore, FS_EmptySet DEF Watched, Consecutive
  <2>3. QED BY <2>1, <2>2 DEF Watched
<1>2. HistorySpec => [](BatchInv /\ CountInv)
  BY HistoryImplements, CountInvariant, PTL
<1>3. QED BY <1>1, <1>2, HistoryStart, HistoryStep, PTL DEF HistorySpec

-----------------------------------------------------------------------------
(***************************************************************************)
(* What a batch reports is in the database                                 *)
(***************************************************************************)

Completed(r) == [status |-> "completed", run |-> r]

\* A run's id is used once, by the batch that minted it.
Minted(r) == job[r].at \notin {"idle", "mint"}
MintInv ==
  /\ \A r \in runs : Minted(r)
  /\ \A b \in Batches : job[b].run # b => Minted(job[b].run)

\* The cells this batch completed itself, as the database d has them.
Wins(j, p, d) == {g \in CellsOf(p) \ Kept(j) : g < j.cell /\ d[g] = Completed(j.run)}

\* The database d backs what memory j says: what it found completed, the result
\* in hand, and what it counted.
Backed(j, d) ==
  /\ \A g \in Games : j.recorded[g] = "completed" => d[g] = Completed(j.run)
  /\ j.at = "count" /\ j.status = "completed" => d[j.cell] = Completed(j.run)
  /\ \A p \in Pairings : j.tally[p].completed <= Cardinality(Wins(j, p, d))

\* A game that is flushed or waits to be replayed has failed.
Failing == {"error_flush", "wait", "replay"}
Fails(j) == j.at \in Failing => j.status = "error"

StoredInv ==
  /\ MintInv
  /\ \A b \in Batches : Fails(job[b]) /\ (job[b].run \in runs => Backed(job[b], rows))

\* A completed row stays as long as its run.
LEMMA CompletedStays ==
  ASSUME BatchInv, [Next]_vars, NEW r \in runs, r \in runs', NEW g \in Games,
         rows[g] = Completed(r)
  PROVE  rows'[g] = Completed(r)
<1>1. StoreInv /\ [Ledger!Next]_<<runs, rows>>
  BY StepIsLedger, TypesFromStore DEF BatchInv
<1>2. rows[g] # NoRow /\ rows[g] # [status |-> "none"] /\ rows[g].run = r
      /\ rows[g].status = "completed"
  BY DEF Completed, NoRow
<1>3. CASE UNCHANGED <<runs, rows>>
  BY <1>3
<1>4. ASSUME NEW s \in Batches, Ledger!Open(s) PROVE rows'[g] = Completed(r)
  BY <1>4 DEF Ledger!Open
<1>5. ASSUME NEW s \in Batches, Ledger!Drop(s) PROVE rows'[g] = Completed(r)
  BY <1>2, <1>5 DEF Ledger!Drop, Ledger!Absent
<1>6. ASSUME NEW h \in Games, NEW s \in Batches, Ledger!Forget(h, s)
      PROVE  rows'[g] = Completed(r)
  BY <1>1, <1>2, <1>6 DEF Ledger!Forget, Ledger!Absent, StoreInv
<1>7. ASSUME NEW h \in Games, NEW s \in Batches, NEW status \in {"completed", "error"},
             Ledger!Record(h, s, status)
      PROVE  rows'[g] = Completed(r)
  BY <1>1, <1>2, <1>7 DEF Ledger!Record, Ledger!Absent, StoreInv
<1>8. QED BY <1>1, <1>3, <1>4, <1>5, <1>6, <1>7 DEF Ledger!Next

LEMMA WinsFinite ==
  ASSUME NEW j, NEW p, NEW d
  PROVE  IsFiniteSet(Wins(j, p, d)) /\ Cardinality(Wins(j, p, d)) \in Nat
<1>1. Wins(j, p, d) \in SUBSET Games
  BY DEF Wins, CellsOf
<1>2. QED BY <1>1, GamesFinite

\* Memory that has counted no completion since its database was d.
LEMMA BackedPersists ==
  ASSUME NEW j, NEW n, NEW d, NEW e, Backed(j, d),
         n.run = j.run, n.recorded = j.recorded, n.retry = j.retry,
         j.cell \in Nat, n.cell \in Nat, j.cell <= n.cell,
         \A p \in Pairings : n.tally[p].completed = j.tally[p].completed
                             /\ j.tally[p].completed \in Nat,
         \A g \in Games : d[g] = Completed(j.run) => e[g] = Completed(j.run),
         n.at = "count" /\ n.status = "completed" => e[n.cell] = Completed(n.run)
  PROVE  Backed(n, e)
<1>1. Kept(n) = Kept(j)
  BY KeptSame
<1>2. ASSUME NEW p \in Pairings
      PROVE  n.tally[p].completed <= Cardinality(Wins(n, p, e))
  <2>1. Wins(j, p, d) \in SUBSET Wins(n, p, e)
    <3>1. \A g \in Games : g < j.cell => g < n.cell
      BY SizeAssumption DEF Games
    <3>2. QED BY <1>1, <3>1 DEF Wins, CellsOf
  <2>2. Cardinality(Wins(j, p, d)) <= Cardinality(Wins(n, p, e))
    BY <2>1, WinsFinite, FS_Subset
  <2>3. j.tally[p].completed <= Cardinality(Wins(j, p, d))
    BY DEF Backed
  <2>4. QED BY <2>2, <2>3, WinsFinite
<1>3. \A g \in Games : n.recorded[g] = "completed" => e[g] = Completed(n.run)
  BY DEF Backed
<1>4. QED BY <1>2, <1>3 DEF Backed

\* Memory that has counted nothing.
LEMMA BackedFresh ==
  ASSUME NEW n, NEW e, Fresh(n), n.at # "count",
         \A g \in Games : n.recorded[g] = "completed" => e[g] = Completed(n.run)
  PROVE  Backed(n, e)
<1>1. ASSUME NEW p \in Pairings
      PROVE  n.tally[p].completed <= Cardinality(Wins(n, p, e))
  <2>1. n.tally[p].completed = 0
    BY DEF Fresh, NoTally
  <2>2. QED BY <2>1, WinsFinite
<1>2. QED BY <1>1 DEF Backed

\* Memory that counts a completion.
LEMMA BackedCounts ==
  ASSUME NEW j \in Jobs, NEW n, NEW e, Backed(j, e), j.at = "count", j.status = "completed",
         j.cell \in Games \ Kept(j), n.at = "loop", n.cell = j.cell + 1,
         n.run = j.run, n.recorded = j.recorded, n.retry = j.retry,
         n.tally = [j.tally EXCEPT ![PairingOf[j.cell]] = OneCompleted(@)]
  PROVE  Backed(n, e)
<1> DEFINE c == j.cell
           q == PairingOf[c]
<1>1. Kept(n) = Kept(j)
  BY KeptSame
<1>2. /\ e[c] = Completed(j.run) /\ q \in Pairings /\ c \in Games /\ c \in Nat
      /\ j.tally \in [Pairings -> Tallies]
  BY DEF Backed, Pairings, Jobs
<1>3. \A g \in Games : (g < n.cell <=> g < c \/ g = c)
  BY <1>2, SizeAssumption DEF Games
<1>4. ASSUME NEW p \in Pairings
      PROVE  n.tally[p].completed <= Cardinality(Wins(n, p, e))
  <2>1. j.tally[p].completed \in Nat /\ j.tally[p].completed <= Cardinality(Wins(j, p, e))
    BY <1>2 DEF Tallies, Backed
  <2>2. CASE p = q
    <3>1. n.tally[p].completed = j.tally[p].completed + 1
      <4>1. n.tally[p] = OneCompleted(j.tally[p])
        BY <1>2, <2>2
      <4>2. j.tally[p] \in Tallies
        BY <1>2
      <4>3. QED BY <4>1, <4>2 DEF OneCompleted, Tallies
    <3>2. Wins(n, p, e) = Wins(j, p, e) \cup {c}
      BY <1>1, <1>2, <1>3, <2>2 DEF Wins, CellsOf
    <3>3. c \notin Wins(j, p, e)
      BY <1>2, SizeAssumption DEF Wins
    <3>4. Cardinality(Wins(n, p, e)) = Cardinality(Wins(j, p, e)) + 1
      BY <3>2, <3>3, WinsFinite, FS_AddElement
    <3>5. QED BY <2>1, <3>1, <3>4, WinsFinite
  <2>3. CASE p # q
    <3>1. n.tally[p] = j.tally[p]
      BY <1>2, <2>3
    <3>2. Wins(n, p, e) = Wins(j, p, e)
      BY <1>1, <1>2, <1>3, <2>3 DEF Wins, CellsOf
    <3>3. QED BY <2>1, <3>1, <3>2
  <2>4. QED BY <2>2, <2>3
<1>5. \A g \in Games : n.recorded[g] = "completed" => e[g] = Completed(n.run)
  BY DEF Backed
<1>6. QED BY <1>4, <1>5 DEF Backed

\* A step of one batch: the other batches' memory stays backed, as its run's rows do.
LEMMA StoredBecomes ==
  ASSUME BatchInv, CountInv, StoredInv, [Next]_vars, NEW b \in Batches, NEW n, Becomes(b, n),
         runs' \subseteq runs \cup {b},
         job[b].at \notin {"idle", "mint"} => n.at \notin {"idle", "mint"},
         b \in runs' \ runs => job[b].at = "mint" /\ n.at \notin {"idle", "mint"},
         n.run = job[b].run \/ n.run = b \/ n.run \in runs,
         n.run \in runs' => Backed(n, rows'),
         Fails(n)
  PROVE  StoredInv'
<1>1. /\ job \in [Batches -> Jobs] /\ job'[b] = n
      /\ \A o \in Batches : o # b => job'[o] = job[o]
      /\ runs \subseteq Batches /\ \A o \in Batches : job[o].run \in Batches
  BY JobSet DEF BatchInv, TypeOK, Becomes, Jobs
<1>2. ASSUME NEW r \in Batches, job[r].at \notin {"idle", "mint"}
      PROVE  job'[r].at \notin {"idle", "mint"}
  BY <1>1, <1>2
<1>3. MintInv'
  <2>1. ASSUME NEW r \in runs' PROVE job'[r].at \notin {"idle", "mint"}
    <3>1. CASE r \in runs
      BY <1>1, <1>2, <3>1 DEF StoredInv, MintInv, Minted
    <3>2. CASE r \notin runs
      BY <1>1, <3>2
    <3>3. QED BY <3>1, <3>2
  <2>2. ASSUME NEW o \in Batches, job'[o].run # o
        PROVE  job'[job'[o].run].at \notin {"idle", "mint"}
    <3>1. /\ \A r \in runs : r \in Batches /\ job[r].at \notin {"idle", "mint"}
          /\ job[o].run # o => job[job[o].run].at \notin {"idle", "mint"}
      BY <1>1 DEF StoredInv, MintInv, Minted
    <3>2. CASE o = b
      BY <1>1, <1>2, <2>2, <3>1, <3>2
    <3>3. CASE o # b
      BY <1>1, <1>2, <2>2, <3>1, <3>3
    <3>4. QED BY <3>2, <3>3
  <2>3. QED BY <2>1, <2>2 DEF MintInv, Minted
<1>4. ASSUME NEW o \in Batches, o # b, job[o].run \in runs' PROVE Backed(job[o], rows')
  <2> DEFINE j == job[o]
  <2>1. /\ j \in Jobs /\ Sound(j)
    BY DEF BatchInv, TypeOK
  <2>2. j.run \in runs
    BY <1>1, <1>4 DEF StoredInv, MintInv, Minted
  <2>3. Backed(j, rows)
    BY <2>2 DEF StoredInv
  <2>4. \A g \in Games : rows[g] = Completed(j.run) => rows'[g] = Completed(j.run)
    BY <1>4, <2>2, CompletedStays
  <2>5. j.at = "count" /\ j.status = "completed" => rows'[j.cell] = Completed(j.run)
    BY <2>1, <2>3, <2>4 DEF Sound, InGame, Backed
  <2>6. /\ j.cell \in Nat /\ j.cell <= j.cell
        /\ \A p \in Pairings : j.tally[p].completed \in Nat
    BY <2>1 DEF Jobs, Tallies
  <2> HIDE DEF j
  <2>7. Backed(j, rows')
    BY <2>3, <2>4, <2>5, <2>6, BackedPersists
  <2>8. QED BY <2>7 DEF j
<1>5. ASSUME NEW o \in Batches
      PROVE  Fails(job'[o]) /\ (job'[o].run \in runs' => Backed(job'[o], rows'))
  BY <1>1, <1>4 DEF StoredInv
<1>6. QED BY <1>3, <1>5 DEF StoredInv

\* A step within its run that counts no completion.
LEMMA StoredMoves ==
  ASSUME BatchInv, CountInv, StoredInv, [Next]_vars, NEW b \in Batches, NEW n, Becomes(b, n),
         UNCHANGED runs, n.at \notin {"idle", "mint"}, n.run = job[b].run,
         n.recorded = job[b].recorded, n.retry = job[b].retry,
         n.cell = job[b].cell \/ n.cell = job[b].cell + 1,
         \A p \in Pairings : n.tally[p].completed = job[b].tally[p].completed,
         n.at = "count" /\ n.status = "completed" /\ n.run \in runs
           => rows'[n.cell] = Completed(n.run),
         Fails(n)
  PROVE  StoredInv'
<1> DEFINE j == job[b]
<1>1. j \in Jobs
  BY DEF BatchInv, TypeOK
<1>2. /\ j.cell \in Nat /\ n.cell \in Nat /\ j.cell <= n.cell
      /\ \A p \in Pairings : j.tally[p].completed \in Nat
  BY <1>1 DEF Jobs, Tallies
<1>3. ASSUME n.run \in runs' PROVE Backed(n, rows')
  <2>1. Backed(j, rows) /\ n.run \in runs
    BY <1>3 DEF StoredInv
  <2>2. \A g \in Games : rows[g] = Completed(j.run) => rows'[g] = Completed(j.run)
    BY <1>3, <2>1, CompletedStays
  <2>3. n.at = "count" /\ n.status = "completed" => rows'[n.cell] = Completed(n.run)
    BY <2>1
  <2> HIDE DEF j
  <2>4. n.run = j.run /\ n.recorded = j.recorded /\ n.retry = j.retry
        /\ \A p \in Pairings : n.tally[p].completed = j.tally[p].completed
    BY DEF j
  <2>5. QED BY <1>2, <2>1, <2>2, <2>3, <2>4, BackedPersists
<1>4. QED BY <1>3, StoredBecomes

LEMMA StartKeepsStored ==
  ASSUME BatchInv, CountInv, StoredInv, [Next]_vars, NEW b \in Batches, Start(b)
  PROVE  StoredInv'
<1>1. /\ job[b] \in Jobs /\ Fresh(job[b]) /\ job[b].at = "idle" /\ UNCHANGED store
  BY DEF BatchInv, TypeOK, CountInv, Counts, Waiting, Start, CheckNoCollisions, CheckResume,
         MayStart, At
<1>2. CASE CheckNoCollisions(b)
  <2> DEFINE n == [job[b] EXCEPT !.at = "mint"]
  <2>1. Becomes(b, n)
    BY <1>2, GoesTo DEF CheckNoCollisions, BatchInv, Places
  <2>2. /\ n.at = "mint" /\ n.run = job[b].run /\ n.recorded = job[b].recorded /\ Fresh(n)
    BY <1>1 DEF Jobs, Fresh
  <2>3. \A g \in Games : n.recorded[g] # "completed"
    <3>1. n.recorded = [g \in Games |-> "none"]
      BY <1>1, <2>2 DEF BatchInv, Sound
    <3>2. QED BY <3>1
  <2> HIDE DEF n
  <2>4. Backed(n, rows')
    BY <2>2, <2>3, BackedFresh
  <2>5. QED BY <1>1, <2>1, <2>2, <2>4, StoredBecomes DEF Fails, Failing, store
<1>3. ASSUME NEW r \in runs, NEW retry \in BOOLEAN, CheckResume(b, r, retry)
      PROVE  StoredInv'
  <2> DEFINE recorded == [g \in Games |-> rows[g].status]
             n == [job[b] EXCEPT !.at = "resume", !.run = r, !.retry = retry,
                                 !.recorded = recorded]
  <2>1. Becomes(b, n)
    BY <1>3, ResumeChecked DEF BatchInv
  <2>2. /\ n.at = "resume" /\ Fresh(n) /\ n.run = r /\ n.recorded = recorded
    BY <1>1 DEF Jobs, Fresh
  <2>3. ASSUME NEW g \in Games, recorded[g] = "completed" PROVE rows'[g] = Completed(r)
    <3>1. /\ rows'[g] = rows[g] /\ rows[g].status = "completed"
          /\ rows[g] \in [status : {"completed", "error"}, run : Batches] \cup {NoRow}
      BY <1>1, <2>3 DEF store, BatchInv, TypeOK
    <3>2. rows[g] # NoRow
      BY <3>1 DEF NoRow
    <3>3. rows[g].run = r
      BY <1>3, <3>2 DEF CheckResume
    <3>4. QED BY <3>1, <3>2, <3>3 DEF Completed
  <2> HIDE DEF n, recorded
  <2>4. Backed(n, rows')
    BY <2>2, <2>3, BackedFresh
  <2>5. QED BY <1>1, <2>1, <2>2, <2>4, StoredBecomes DEF Fails, Failing, store
<1>4. QED BY <1>2, <1>3 DEF Start

LEMMA StopKeepsStored ==
  ASSUME BatchInv, CountInv, StoredInv, [Next]_vars, NEW b \in Batches, Refuse(b) \/ Die(b)
  PROVE  StoredInv'
<1>1. job[b] \in Jobs /\ UNCHANGED runs
  BY DEF BatchInv, TypeOK, Refuse, Die, store
<1>2. CASE Refuse(b)
  <2> DEFINE n == [job[b] EXCEPT !.at = "refused"]
  <2>1. Becomes(b, n)
    BY <1>2, GoesTo DEF Refuse, BatchInv, Places
  <2>2. /\ n.at = "refused" /\ n.run = job[b].run /\ n.recorded = job[b].recorded
        /\ n.retry = job[b].retry /\ n.cell = job[b].cell /\ n.tally = job[b].tally
    BY <1>1 DEF Jobs
  <2> HIDE DEF n
  <2>3. QED BY <1>1, <2>1, <2>2, StoredMoves DEF Fails, Failing
<1>3. CASE Die(b)
  <2> DEFINE n == [IdleJob(b) EXCEPT !.at = "dead"]
  <2>1. IdleJob(b) \in Jobs
    BY IdleJobIsJob
  <2>2. n \in Jobs /\ n.at = "dead" /\ n.run = b
    BY <2>1 DEF Jobs, Places, IdleJob
  <2>3. Becomes(b, n)
    BY <1>3, <2>2 DEF Die, Becomes
  <2>4. Fresh(n) /\ \A g \in Games : n.recorded[g] # "completed"
    BY DEF Fresh, IdleJob
  <2> HIDE DEF n
  <2>5. Backed(n, rows')
    BY <2>2, <2>4, BackedFresh
  <2>6. QED BY <1>1, <2>2, <2>3, <2>5, StoredBecomes DEF Fails, Failing
<1>4. QED BY <1>2, <1>3

LEMMA EnterKeepsStored ==
  ASSUME BatchInv, CountInv, StoredInv, [Next]_vars, NEW b \in Batches,
         Mint(b) \/ RecordResume(b)
  PROVE  StoredInv'
<1>1. /\ job[b] \in Jobs /\ Sound(job[b]) /\ Fresh(job[b])
  BY DEF BatchInv, TypeOK, CountInv, Mint, RecordResume, At, Counts, Waiting
<1>2. CASE Mint(b)
  <2> DEFINE n == [job[b] EXCEPT !.at = "loop"]
  <2>1. Becomes(b, n)
    BY <1>2, GoesTo DEF Mint, BatchInv, Places
  <2>2. n.at = "loop" /\ n.run = job[b].run /\ n.recorded = job[b].recorded /\ Fresh(n)
    BY <1>1 DEF Jobs, Fresh
  <2>3. job[b].at = "mint" /\ runs' = runs \cup {b}
    BY <1>2 DEF Mint, At
  <2>4. \A g \in Games : n.recorded[g] # "completed"
    <3>1. n.recorded = [g \in Games |-> "none"]
      BY <1>1, <2>2, <2>3 DEF Sound
    <3>2. QED BY <3>1
  <2> HIDE DEF n
  <2>5. Backed(n, rows')
    BY <2>2, <2>4, BackedFresh
  <2>6. QED BY <2>1, <2>2, <2>3, <2>5, StoredBecomes DEF Fails, Failing
<1>3. CASE RecordResume(b)
  <2> DEFINE n == [job[b] EXCEPT !.at = "loop", !.tally = KeptTally(job[b])]
  <2>1. Becomes(b, n) /\ UNCHANGED runs
    BY <1>3, ResumeRecords DEF BatchInv, RecordResume, store
  <2>2. /\ n.at = "loop" /\ n.run = job[b].run /\ n.recorded = job[b].recorded
        /\ n.retry = job[b].retry /\ n.cell = job[b].cell
        /\ n.tally = KeptTally(job[b])
    BY <1>1 DEF Jobs
  <2> HIDE DEF n
  <2>3. ASSUME NEW p \in Pairings
        PROVE  n.tally[p].completed = job[b].tally[p].completed
    <3>1. n.tally[p] = [NoTally EXCEPT
                          !.prevCompleted = Cardinality(KeptAs(job[b], p, "completed")),
                          !.prevErrored = Cardinality(KeptAs(job[b], p, "error"))]
      BY <2>2 DEF KeptTally
    <3>2. job[b].tally[p] = NoTally
      BY <1>1 DEF Fresh
    <3>3. QED BY <3>1, <3>2 DEF NoTally
  <2>4. QED BY <2>1, <2>2, <2>3, StoredMoves DEF Fails, Failing
<1>4. QED BY <1>2, <1>3

LEMMA LoopKeepsStored ==
  ASSUME BatchInv, CountInv, StoredInv, [Next]_vars, NEW b \in Batches,
         SkipKept(b) \/ SkipAborted(b) \/ BeginGame(b) \/ EndOfSchedule(b)
  PROVE  StoredInv'
<1>1. job[b] \in Jobs /\ job[b].at = "loop" /\ UNCHANGED runs
  BY DEF BatchInv, TypeOK, SkipKept, SkipAborted, BeginGame, EndOfSchedule, At, store
<1>2. ASSUME NEW n, Becomes(b, n), n.at \in {"loop", "play", "forget", "done"},
             n.run = job[b].run, n.recorded = job[b].recorded, n.retry = job[b].retry,
             n.cell = job[b].cell \/ n.cell = job[b].cell + 1, n.tally = job[b].tally
      PROVE  StoredInv'
  BY <1>1, <1>2, StoredMoves DEF Fails, Failing
<1>3. CASE SkipKept(b) \/ SkipAborted(b)
  <2>1. PICK k \in Nat :
          Becomes(b, [job[b] EXCEPT !.cell = job[b].cell + 1, !.consecutive = k])
    BY <1>3, KeptSkipped, AbortedSkipped DEF BatchInv
  <2> DEFINE n == [job[b] EXCEPT !.cell = job[b].cell + 1, !.consecutive = k]
  <2>2. /\ n.at = "loop" /\ n.run = job[b].run /\ n.recorded = job[b].recorded
        /\ n.retry = job[b].retry /\ n.cell = job[b].cell + 1 /\ n.tally = job[b].tally
    BY <1>1 DEF Jobs
  <2>3. Becomes(b, n)
    BY <2>1
  <2> HIDE DEF n
  <2>4. QED BY <1>2, <2>2, <2>3
<1>4. CASE BeginGame(b)
  <2> DEFINE place == IF job[b].recorded[job[b].cell] = "none" THEN "play" ELSE "forget"
  <2>1. PICK k \in Nat :
          Becomes(b, [job[b] EXCEPT !.at = place, !.consecutive = k, !.replays = 0])
    BY <1>4, GameBegun DEF BatchInv
  <2> DEFINE n == [job[b] EXCEPT !.at = place, !.consecutive = k, !.replays = 0]
  <2>2. place \in {"play", "forget"} /\ Becomes(b, n)
    BY <2>1
  <2> HIDE DEF place
  <2>3. /\ n.at = place /\ n.run = job[b].run /\ n.recorded = job[b].recorded
        /\ n.retry = job[b].retry /\ n.cell = job[b].cell /\ n.tally = job[b].tally
    BY <1>1 DEF Jobs
  <2> HIDE DEF n
  <2>4. QED BY <1>2, <2>2, <2>3
<1>5. CASE EndOfSchedule(b)
  <2> DEFINE n == [job[b] EXCEPT !.at = "done"]
  <2>1. Becomes(b, n)
    BY <1>5, GoesTo DEF EndOfSchedule, BatchInv, Places
  <2>2. /\ n.at = "done" /\ n.run = job[b].run /\ n.recorded = job[b].recorded
        /\ n.retry = job[b].retry /\ n.cell = job[b].cell /\ n.tally = job[b].tally
    BY <1>1 DEF Jobs
  <2> HIDE DEF n
  <2>3. QED BY <1>2, <2>1, <2>2
<1>6. QED BY <1>3, <1>4, <1>5

\* A game in hand: what the row, the flush and the replay leave in memory.
LEMMA GameKeepsStored ==
  ASSUME BatchInv, CountInv, StoredInv, [Next]_vars, NEW b \in Batches,
         \/ ForgetRecorded(b) \/ GameCompletes(b) \/ CompletionFails(b)
         \/ \E code \in {"transient", "terminal"} : GameFails(b, code)
         \/ ErrorFlush(b) \/ ProviderAnswers(b) \/ ProviderIsGone(b) \/ ForgetAndReplay(b)
  PROVE  StoredInv'
<1>1. /\ job[b] \in Jobs /\ Fails(job[b]) /\ UNCHANGED runs
      /\ job[b].at \in InGame => job[b].cell \in Games
  BY DEF BatchInv, TypeOK, Sound, StoredInv, ForgetRecorded, GameCompletes, CompletionFails,
         GameFails, ErrorFlush, ProviderAnswers, ProviderIsGone, ForgetAndReplay, Insert,
         DeleteErrorGame, store
<1>2. ASSUME NEW n, Becomes(b, n), n.at \in InGame,
             n.run = job[b].run, n.recorded = job[b].recorded, n.retry = job[b].retry,
             n.cell = job[b].cell, n.tally = job[b].tally, Fails(n),
             n.at = "count" /\ n.status = "completed" => rows'[n.cell] = Completed(n.run)
      PROVE  StoredInv'
  BY <1>1, <1>2, StoredMoves DEF InGame
<1>3. ASSUME NEW place \in InGame, Goto(b, place),
             place \in Failing \cup {"count"} => job[b].status = "error"
      PROVE  StoredInv'
  <2> DEFINE n == [job[b] EXCEPT !.at = place]
  <2>1. Becomes(b, n)
    BY <1>3, GoesTo DEF BatchInv, Places, InGame
  <2>2. /\ n.at = place /\ n.run = job[b].run /\ n.recorded = job[b].recorded
        /\ n.retry = job[b].retry /\ n.cell = job[b].cell /\ n.tally = job[b].tally
        /\ n.status = job[b].status
    BY <1>1 DEF Jobs
  <2> HIDE DEF n
  <2>3. Fails(n) /\ ~(n.at = "count" /\ n.status = "completed")
    BY <1>3, <2>2 DEF Fails
  <2>4. QED BY <1>2, <1>3, <2>1, <2>2, <2>3
<1>4. ASSUME NEW place \in {"count", "error_flush"}, NEW status \in {"completed", "error"},
             NEW code \in Codes, Ended(b, place, status, code),
             place = "error_flush" => status = "error",
             status = "completed" => rows'[job[b].cell] = Completed(job[b].run)
      PROVE  StoredInv'
  <2> DEFINE n == [job[b] EXCEPT !.at = place, !.status = status, !.code = code]
  <2>1. Becomes(b, n)
    BY <1>4, GameEnds
  <2>2. /\ n.at = place /\ n.run = job[b].run /\ n.recorded = job[b].recorded
        /\ n.retry = job[b].retry /\ n.cell = job[b].cell /\ n.tally = job[b].tally
        /\ n.status = status
    BY <1>1 DEF Jobs
  <2> HIDE DEF n
  <2>3. n.at \in InGame /\ Fails(n)
    BY <1>4, <2>2 DEF InGame, Fails, Failing
  <2>4. QED BY <1>2, <1>4, <2>1, <2>2, <2>3
<1>5. CASE ForgetRecorded(b)
  BY <1>3, <1>5 DEF ForgetRecorded, InGame, Failing
<1>6. CASE ProviderAnswers(b)
  BY <1>1, <1>3, <1>6 DEF ProviderAnswers, InGame, Failing, Fails, At
<1>7. CASE ErrorFlush(b)
  <2>1. job[b].status = "error"
    BY <1>1, <1>7 DEF ErrorFlush, Fails, Failing, At
  <2>2. CASE job[b].code = "transient" /\ job[b].replays < Replays
    BY <1>3, <1>7, <2>1, <2>2 DEF ErrorFlush, InGame
  <2>3. CASE ~(job[b].code = "transient" /\ job[b].replays < Replays)
    BY <1>3, <1>7, <2>1, <2>3 DEF ErrorFlush, InGame
  <2>4. QED BY <2>2, <2>3
<1>8. CASE GameCompletes(b)
  <2>1. /\ Ended(b, "count", "completed", "none") /\ job[b].cell \in Games
        /\ rows' = [rows EXCEPT ![job[b].cell] = RowOf(b, "completed")]
    BY <1>1, <1>8 DEF GameCompletes, Insert, At, InGame
  <2>2. rows'[job[b].cell] = Completed(job[b].run)
    BY <2>1 DEF BatchInv, TypeOK, RowOf, Completed
  <2>3. QED BY <1>4, <2>1, <2>2 DEF Codes
<1>9. CASE CompletionFails(b)
  BY <1>4, <1>9 DEF CompletionFails, Codes
<1>10. ASSUME NEW code \in {"transient", "terminal"}, GameFails(b, code) PROVE StoredInv'
  BY <1>4, <1>10 DEF GameFails, Codes
<1>11. CASE ProviderIsGone(b)
  <2> DEFINE n == [job[b] EXCEPT !.at = "count", !.stopped = TRUE]
  <2>1. Becomes(b, n)
    BY <1>11, ProviderLost DEF BatchInv
  <2>2. /\ n.at = "count" /\ n.run = job[b].run /\ n.recorded = job[b].recorded
        /\ n.retry = job[b].retry /\ n.cell = job[b].cell /\ n.tally = job[b].tally
        /\ n.status = job[b].status
    BY <1>1 DEF Jobs
  <2>3. n.status = "error"
    BY <1>1, <1>11, <2>2 DEF ProviderIsGone, At, Fails, Failing
  <2> HIDE DEF n
  <2>4. QED BY <1>2, <2>1, <2>2, <2>3 DEF InGame, Fails
<1>12. CASE ForgetAndReplay(b)
  <2> DEFINE n == [job[b] EXCEPT !.at = "play", !.replays = job[b].replays + 1]
  <2>1. Becomes(b, n)
    BY <1>12, Replayed DEF BatchInv, ReplaysLeft, Sound
  <2>2. /\ n.at = "play" /\ n.run = job[b].run /\ n.recorded = job[b].recorded
        /\ n.retry = job[b].retry /\ n.cell = job[b].cell /\ n.tally = job[b].tally
    BY <1>1 DEF Jobs
  <2> HIDE DEF n
  <2>3. QED BY <1>2, <2>1, <2>2 DEF InGame, Fails, Failing
<1>13. QED BY <1>5, <1>6, <1>7, <1>8, <1>9, <1>10, <1>11, <1>12

\* A completion is counted when its row is there; an error counts nothing completed.
LEMMA ResultKeepsStored ==
  ASSUME BatchInv, CountInv, StoredInv, [Next]_vars, NEW b \in Batches,
         CountCompleted(b) \/ CountOutage(b) \/ CountError(b)
  PROVE  StoredInv'
<1> DEFINE j == job[b]
           q == PairingOf[j.cell]
<1>1. /\ j \in Jobs /\ j.at = "count" /\ j.cell \in Games /\ UNCHANGED store
      /\ j.tally \in [Pairings -> Tallies] /\ j.cell \in Games \ Kept(j)
  <2>1. /\ j \in Jobs /\ j.at = "count" /\ Counts(j) /\ UNCHANGED store
    BY ResultBecomes DEF CountInv, CountCompleted, CountOutage, CountError
  <2>2. QED BY <2>1 DEF Counts, Waiting, InGame, Jobs
<1>2. PICK n : /\ Becomes(b, n)
               /\ n.run = j.run /\ n.recorded = j.recorded /\ n.retry = j.retry
               /\ CountCompleted(b) =>
                    /\ n.at = "loop" /\ n.cell = j.cell + 1
                    /\ n.tally = [j.tally EXCEPT ![q] = OneCompleted(@)]
               /\ CountOutage(b) =>
                    /\ n.at = "done" /\ n.cell = j.cell
                    /\ n.tally = [j.tally EXCEPT ![q] = OneErrored(@)]
               /\ CountError(b) =>
                    /\ n.at = "loop" /\ n.cell = j.cell + 1
                    /\ n.tally = [j.tally EXCEPT ![q] = OneErrored(@)]
  BY ResultBecomes
<1>3. UNCHANGED runs /\ rows' = rows /\ (j.run \in runs => Backed(j, rows))
  BY <1>1 DEF StoredInv, store
<1>4. CASE CountCompleted(b)
  <2>1. j.status = "completed"
    BY <1>4 DEF CountCompleted
  <2>2. ASSUME n.run \in runs' PROVE Backed(n, rows')
    <3>1. Backed(j, rows')
      BY <1>2, <1>3, <2>2
    <3> HIDE DEF j
    <3>2. QED BY <1>1, <1>2, <1>4, <2>1, <3>1, BackedCounts DEF q
  <2>3. n.at = "loop" /\ runs' \subseteq runs \cup {b} /\ ~(b \in runs' \ runs)
        /\ n.run = job[b].run
    BY <1>2, <1>3, <1>4
  <2>4. QED BY <1>2, <2>2, <2>3, StoredBecomes DEF Fails, Failing
<1>5. CASE CountOutage(b) \/ CountError(b)
  <2>1. n.tally = [j.tally EXCEPT ![q] = OneErrored(@)]
    BY <1>2, <1>5
  <2>2. ASSUME NEW p \in Pairings PROVE n.tally[p].completed = j.tally[p].completed
    <3>1. n.tally[p] = j.tally[p] \/ n.tally[p] = OneErrored(j.tally[p])
      BY <1>1, <2>1
    <3>2. j.tally[p] \in Tallies
      BY <1>1
    <3>3. QED BY <3>1, <3>2 DEF OneErrored, Tallies
  <2>3. n.at \in {"loop", "done"} /\ (n.cell = j.cell \/ n.cell = j.cell + 1)
    BY <1>2, <1>5
  <2>4. QED BY <1>2, <1>3, <2>2, <2>3, StoredMoves DEF Fails, Failing
<1>6. QED BY <1>4, <1>5

LEMMA DeleteKeepsStored ==
  ASSUME BatchInv, CountInv, StoredInv, [Next]_vars, NEW r \in runs, DeleteRun(r)
  PROVE  StoredInv'
<1>1. runs' = runs \ {r} /\ job' = job
  BY DEF DeleteRun
<1>2. MintInv'
  BY <1>1 DEF StoredInv, MintInv, Minted
<1>3. ASSUME NEW b \in Batches, job[b].run \in runs' PROVE Backed(job[b], rows')
  <2> DEFINE j == job[b]
  <2>1. /\ j \in Jobs /\ Sound(j) /\ j.run \in runs /\ Backed(j, rows)
    BY <1>1, <1>3 DEF BatchInv, TypeOK, StoredInv
  <2>2. \A g \in Games : rows[g] = Completed(j.run) => rows'[g] = Completed(j.run)
    BY <1>3, <2>1, CompletedStays
  <2>3. j.at = "count" /\ j.status = "completed" => rows'[j.cell] = Completed(j.run)
    BY <2>1, <2>2 DEF Sound, InGame, Backed
  <2>4. j.cell \in Nat /\ j.cell <= j.cell /\ \A p \in Pairings : j.tally[p].completed \in Nat
    BY <2>1 DEF Jobs, Tallies
  <2> HIDE DEF j
  <2>5. Backed(j, rows')
    BY <2>1, <2>2, <2>3, <2>4, BackedPersists
  <2>6. QED BY <2>5 DEF j
<1>4. QED BY <1>1, <1>2, <1>3 DEF StoredInv

LEMMA StoredStep ==
  ASSUME BatchInv, CountInv, StoredInv, [Next]_vars
  PROVE  StoredInv'
<1>1. ASSUME NEW b \in Batches, Start(b) \/ Refuse(b) \/ Die(b) PROVE StoredInv'
  BY <1>1, StartKeepsStored, StopKeepsStored
<1>2. ASSUME NEW b \in Batches, Work(b) PROVE StoredInv'
  BY <1>2, EnterKeepsStored, LoopKeepsStored, GameKeepsStored, ResultKeepsStored DEF Work
<1>3. ASSUME NEW r \in runs, DeleteRun(r) PROVE StoredInv'
  BY <1>3, DeleteKeepsStored
<1>4. CASE UNCHANGED vars
  BY <1>4 DEF vars, StoredInv, MintInv, Minted
<1>5. QED BY <1>1, <1>2, <1>3, <1>4 DEF Next

LEMMA StoredStart == Init => StoredInv
<1> SUFFICES ASSUME Init PROVE StoredInv
  OBVIOUS
<1>1. runs = {} /\ \A b \in Batches : job[b] = IdleJob(b)
  BY DEF Init
<1>2. ASSUME NEW b \in Batches PROVE job[b].run = b /\ job[b].at = "idle"
  <2>1. IdleJob(b).run = b /\ IdleJob(b).at = "idle"
    BY DEF IdleJob
  <2>2. QED BY <1>1, <2>1
<1>3. QED BY <1>1, <1>2 DEF StoredInv, MintInv, Fails, Failing

\* What a batch reports as completed, itself or before it resumed, is in the
\* database under its run, unless the run was deleted under it: whatever other
\* batches do to the same games meanwhile.
THEOREM ReportsAreBacked == Spec => []ReportedCompletedAreStored
<1>1. BatchInv /\ CountInv /\ StoredInv => ReportedCompletedAreStored
  <2> SUFFICES ASSUME BatchInv, CountInv, StoredInv, NEW b \in Batches, job[b].run \in runs,
                      NEW p \in Pairings
               PROVE  job[b].tally[p].completed + job[b].tally[p].prevCompleted
                        <= Cardinality(CompletedRows(job[b].run, p))
    BY DEF ReportedCompletedAreStored
  <2> DEFINE j == job[b]
             t == j.tally[p]
             W == Wins(j, p, rows)
             K == KeptAs(j, p, "completed")
             C == CompletedRows(j.run, p)
  <2>1. j \in Jobs /\ Counts(j) /\ Backed(j, rows)
    BY DEF BatchInv, TypeOK, CountInv, StoredInv
  <2>2. /\ t.completed \in Nat /\ t.prevCompleted \in Nat /\ t.completed <= Cardinality(W)
    BY <2>1 DEF Backed, Jobs, Tallies
  <2>3. W \cap K = {} /\ W \cup K \in SUBSET C /\ C \in SUBSET Games
        /\ K \in SUBSET Games /\ W \in SUBSET Games
    <3>1. \A g \in K : g \in Games /\ PairingOf[g] = p /\ rows[g] = Completed(j.run)
      BY <2>1 DEF Backed, KeptAs, Kept
    <3>2. QED BY <3>1 DEF Wins, KeptAs, CellsOf, CompletedRows, Completed
  <2> HIDE DEF W, K, C
  <2>4. /\ IsFiniteSet(W) /\ IsFiniteSet(K) /\ IsFiniteSet(C)
        /\ Cardinality(W) \in Nat /\ Cardinality(K) \in Nat /\ Cardinality(C) \in Nat
    BY <2>3, GamesFinite
  <2>5. Cardinality(W) + Cardinality(K) <= Cardinality(C)
    <3>1. Cardinality(W \cap K) = 0
      BY <2>3, FS_EmptySet
    <3>2. Cardinality(W \cup K) = Cardinality(W) + Cardinality(K) - Cardinality(W \cap K)
      BY <2>4, FS_Union
    <3>3. Cardinality(W \cup K) <= Cardinality(C)
      BY <2>3, <2>4, FS_Subset
    <3>4. QED BY <2>4, <3>1, <3>2, <3>3
  <2>6. t.prevCompleted <= Cardinality(K)
    <3>1. CASE j.at \in Waiting
      <4>1. t = NoTally
        BY <2>1, <3>1 DEF Counts, Fresh
      <4>2. QED BY <2>4, <4>1 DEF NoTally
    <3>2. CASE j.at \notin Waiting
      <4>1. t.prevCompleted = Cardinality(K)
        BY <2>1, <3>2 DEF Counts, TallyFits, K
      <4>2. QED BY <2>4, <4>1
    <3>3. QED BY <3>1, <3>2
  <2>7. t.completed + t.prevCompleted <= Cardinality(C)
    <3> HIDE DEF t
    <3>1. QED BY <2>2, <2>4, <2>5, <2>6
  <2>8. QED BY <2>7 DEF C
<1>2. QED BY <1>1, CountInvariant, StoredStart, StoredStep, PTL DEF Spec

=============================================================================
