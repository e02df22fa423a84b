-------------------------- MODULE MCGameConductor --------------------------
(***************************************************************************)
(* The smallest board the rules allow with two tokens: a word green on     *)
(* both sides, the two words green on one side and black on the other, and *)
(* one beige on both.                                                      *)
(***************************************************************************)
EXTENDS GameConductor

CONSTANTS aa, ak, ka, cc

MCCards == {aa, ak, ka, cc}

MCSide ==
  LET on(s, c) == CASE c = aa -> Agent
                    [] c = ak -> IF s = 0 THEN Agent ELSE Assassin
                    [] c = ka -> IF s = 0 THEN Assassin ELSE Agent
                    [] c = cc -> Civilian
  IN  [s \in Seats |-> [c \in MCCards |-> on(s, c)]]

\* Every single word, a word the board does not have, and the pairs and triples
\* that mix hits, misses, repeats and words not on the board.
MCProposals ==
  {<<c>> : c \in MCCards} \cup
  {<<"unrelated">>, <<"unrelated", aa>>, <<aa, ak>>, <<aa, ka>>, <<aa, aa, cc>>,
   <<ka, "unrelated", aa>>}

=============================================================================
