--------------------------- MODULE MCBatchRunner ---------------------------
(***************************************************************************)
(* A schedule for TLC: a few cells of one pairing, for batches that may    *)
(* overlap.                                                                *)
(***************************************************************************)
EXTENDS BatchRunner, TLC

\* One pairing, long enough to be aborted with a game left.
MCOnePairing == <<0, 0, 0>>

\* A batch is known by its name alone.
BatchSymmetry == Permutations(Batches)

=============================================================================
