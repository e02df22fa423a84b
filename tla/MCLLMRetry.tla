----------------------------- MODULE MCLLMRetry -----------------------------
(***************************************************************************)
(* One client for TLC: the game's own budget of three retries, and two     *)
(* calls, so that what the first leaves in the client meets the second.    *)
(***************************************************************************)
EXTENDS LLMRetry
=============================================================================
