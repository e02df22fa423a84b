------------------------ MODULE DuetEngineRefinement ------------------------
(***************************************************************************)
(* The engine plays by DuetRules: its bookkeeping (phases, roles, counters *)
(* and archive) never produces an outcome the rules would not.             *)
(***************************************************************************)
EXTENDS DuetEngine

WordsToFind == [s \in Seats |-> Having(Agent, Other(s))]

\* The words that have stopped being pending for each seat.
WordsFound == [s \in Seats |-> {c \in Cards : s \in revealedBy[c]}]

Standing ==
  IF result = NoResult
    THEN IF phase \in SDPhases THEN "sudden_death" ELSE "playing"
    ELSE IF result \in Victories THEN "won" ELSE "lost"

Rules == INSTANCE DuetRules WITH
           ToFind  <- WordsToFind,
           found   <- WordsFound,
           reserve <- timer,
           status  <- Standing

\* Every game the engine can play is a game of DuetRules.
PlaysByTheRules == Rules!Spec

=============================================================================
