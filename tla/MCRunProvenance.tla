--------------------------- MODULE MCRunProvenance ---------------------------
(***************************************************************************)
(* A bank of three boards for TLC, two of which are played: board 1 is a   *)
(* probe and board 2 a control in both their versions; board 3 is a        *)
(* control in its first version, which stands in when board 2 goes, and a  *)
(* probe in its second, which stands in when board 1 does.                 *)
(***************************************************************************)
EXTENDS RunProvenance

MCKindAt == [j \in Places |-> IF j = 0 THEN "career" ELSE "control"]
MCBoards == 1..3
MCKindOf == <<[v1 |-> "career", v2 |-> "career"],
              [v1 |-> "control", v2 |-> "control"],
              [v1 |-> "control", v2 |-> "career"]>>
MCAsk == [seed |-> 1, temperature |-> "low", models |-> {1, 2}]
MCAsks == {MCAsk, [MCAsk EXCEPT !.temperature = "high"], [MCAsk EXCEPT !.models = {1, 3}]}

\* The database is new, or holds the boards from before hashes were recorded,
\* with the content of the files or with another.
MCStart(table) ==
  [files |-> <<"v1", "v1", "v1">>, templates |-> "t1", serving |-> <<"w1", "w1", "w1">>,
   code |-> "c1", stored |-> table]
MCStarts ==
  {MCStart([b \in MCBoards |-> NotStored])} \cup
  {MCStart([b \in MCBoards |-> [content |-> v, hashed |-> FALSE]]) : v \in {"v1", "v2"}}


=============================================================================
