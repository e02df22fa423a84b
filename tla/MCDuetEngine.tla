---------------------------- MODULE MCDuetEngine ----------------------------
(***************************************************************************)
(* A seven-word board for TLC, with every kind of word that matters to the *)
(* engine: green on both sides, black on one and green on the other, green *)
(* on one and beige on the other, black on both, beige on both.            *)
(***************************************************************************)
EXTENDS DuetEngineRefinement, LLMService

CONSTANTS aa, ak, ka, ac, ca, kk, cc

MCCards == {aa, ak, ka, ac, ca, kk, cc}

MCSide ==
  LET on(s, c) == CASE c = aa -> Agent
                    [] c = ak -> IF s = 0 THEN Agent ELSE Assassin
                    [] c = ka -> IF s = 0 THEN Assassin ELSE Agent
                    [] c = ac -> IF s = 0 THEN Agent ELSE Civilian
                    [] c = ca -> IF s = 0 THEN Civilian ELSE Agent
                    [] c = kk -> Assassin
                    [] c = cc -> Civilian
  IN  [s \in Seats |-> [c \in MCCards |-> on(s, c)]]

=============================================================================
