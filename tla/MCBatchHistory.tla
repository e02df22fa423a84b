--------------------------- MODULE MCBatchHistory ---------------------------
(***************************************************************************)
(* A schedule for TLC, with the history of how its games ended.            *)
(***************************************************************************)
EXTENDS BatchHistory

\* A pairing long enough to be aborted with a game left, and the next one.
MCLongPairing == <<0, 0, 0, 1>>

=============================================================================
