---------------------------- MODULE BatchHistory ----------------------------
(***************************************************************************)
(* BatchRunner with a history: how each game a batch counted ended.  The   *)
(* program keeps a number, its counter of consecutive failures; the        *)
(* history keeps the failures themselves, so that what the number claims   *)
(* to count, and what a pairing is given up for, can be said.              *)
(*                                                                         *)
(* The history only watches: each of its steps is a step of BatchRunner,   *)
(* and no guard reads it.                                                  *)
(***************************************************************************)
EXTENDS BatchRunner

VARIABLE ended   \* of each batch, how each game it played ended

Outcomes == {"none", "completed", "error", "outage"}

NoneEnded == [g \in Games |-> "none"]

HistoryInit == Init /\ ended = [b \in Batches |-> NoneEnded]

\* The game in hand is counted in this step.
CountsAGame(b) == At(b, "count") /\ job'[b].at \in {"loop", "done"}

\* An error for which the batch stops is the provider's, not the pairing's.
Outcome(j) == IF j.status = "error" /\ j.stopped THEN "outage" ELSE j.status

\* A process that dies is forgotten with all it held in memory.
HistoryNext ==
  /\ Next
  /\ ended' = [b \in Batches |->
       CASE CountsAGame(b) -> [ended[b] EXCEPT ![job[b].cell] = Outcome(job[b])]
         [] At(b, "dead")' -> NoneEnded
         [] OTHER          -> ended[b]]

HistorySpec == HistoryInit /\ [][HistoryNext]_<<vars, ended>> /\ Fairness

-----------------------------------------------------------------------------
(***************************************************************************)
(* Properties                                                              *)
(***************************************************************************)

\* Cell g of the schedule completed, in this batch (e is its history) or in what
\* it found recorded and kept.
Completes(j, e, g) == e[g] = "completed" \/ (g \in Kept(j) /\ j.recorded[g] = "completed")

\* The failures in a row before cell c: this batch's own errors in the pairing of
\* c with no completion after them.  A game this batch did not play, because its
\* error is kept or its pairing aborted, neither counts nor interrupts.
Streak(j, e, c) ==
  {g \in CellsOf(PairingOf[c]) :
     g < c /\ e[g] = "error" /\ \A h \in Games : g < h /\ h < c => ~Completes(j, e, h)}

\* The games whose error was the last one too many in a row.
Breaking(j, e) ==
  {g \in Games : e[g] = "error" /\ Cardinality(Streak(j, e, g)) + 1 >= Threshold}

\* The counter of consecutive failures, wherever the next game is chosen, is the
\* number of this batch's own errors in this pairing since its last completion,
\* played or recorded before a resume: none of the pairing before, none recorded
\* earlier, none before a completion.  And the pairings given up are exactly those
\* with an error that made a row of the threshold; the loss of the provider, which
\* ends the batch, gives up none.
CountsOnlyItsOwnErrors ==
  \A b \in Batches : LET j == job[b] e == ended[b] IN
    /\ At(b, "loop") /\ j.cell <= NGames => Consecutive(j) = Cardinality(Streak(j, e, j.cell))
    /\ j.aborted = {PairingOf[g] : g \in Breaking(j, e)}

=============================================================================
