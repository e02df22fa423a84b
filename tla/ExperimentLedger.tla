-------------------------- MODULE ExperimentLedger --------------------------
(***************************************************************************)
(* What the database promises about an experiment, whoever writes to it:   *)
(* a game is recorded at most once, by a run that exists; an error may be  *)
(* forgotten so that the game can be played again; a completed game goes   *)
(* only when its whole run is deleted.                                     *)
(***************************************************************************)
CONSTANTS Games, Runs

VARIABLES
  live,     \* the runs that exist
  ledger    \* what is recorded of each game, and by which run

vars == <<live, ledger>>

Absent == [status |-> "none"]
Entries == [status : {"completed", "error"}, run : Runs] \cup {Absent}

Init == live = {} /\ ledger = [g \in Games |-> Absent]

Open(r) == r \notin live /\ live' = live \cup {r} /\ UNCHANGED ledger

Record(g, r, status) ==
  /\ r \in live
  /\ ledger[g] = Absent
  /\ ledger' = [ledger EXCEPT ![g] = [status |-> status, run |-> r]]
  /\ UNCHANGED live

Forget(g, r) ==
  /\ ledger[g] = [status |-> "error", run |-> r]
  /\ ledger' = [ledger EXCEPT ![g] = Absent]
  /\ UNCHANGED live

\* A run goes with everything it recorded.
Drop(r) ==
  /\ r \in live
  /\ live' = live \ {r}
  /\ ledger' = [g \in Games |->
                  IF ledger[g] # Absent /\ ledger[g].run = r THEN Absent ELSE ledger[g]]

Next ==
  \/ \E r \in Runs : Open(r) \/ Drop(r)
  \/ \E g \in Games, r \in Runs :
       Forget(g, r) \/ \E s \in {"completed", "error"} : Record(g, r, s)

Spec == Init /\ [][Next]_vars

=============================================================================
