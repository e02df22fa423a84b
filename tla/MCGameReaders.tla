--------------------------- MODULE MCGameReaders ---------------------------
(***************************************************************************)
(* The board of MCGameConductor with the two words green on one side and   *)
(* beige on the other, so that a word can carry the token of the very seat *)
(* whose partner still has to find it, and a game of three tokens, so that *)
(* a word can carry both.                                                  *)
(***************************************************************************)
EXTENDS GameReaders

CONSTANTS aa, ak, ka, ac, ca, cc

MCCards == {aa, ak, ka, ac, ca, cc}

MCSide ==
  LET on(s, c) == CASE c = aa -> Agent
                    [] c = ak -> IF s = 0 THEN Agent ELSE Assassin
                    [] c = ka -> IF s = 0 THEN Assassin ELSE Agent
                    [] c = ac -> IF s = 0 THEN Agent ELSE Civilian
                    [] c = ca -> IF s = 0 THEN Civilian ELSE Agent
                    [] c = cc -> Civilian
  IN  [s \in Seats |-> [c \in MCCards |-> on(s, c)]]

\* Hits, misses, repeats and a word not on the board, one by one and mixed.
MCProposals ==
  {<<ca>>, <<ac>>, <<cc>>, <<ak, "unrelated">>, <<ka, ca>>, <<"unrelated", aa, ac>>}

=============================================================================
