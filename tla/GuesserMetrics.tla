---------------------------- MODULE GuesserMetrics ----------------------------
(***************************************************************************)
(* CIT: does a guesser trust the words of the clue's gender more?          *)
(* (analysis/guesser_metrics.py).  A turn is a record                      *)
(*   [game, turn, model, type, stratum, clue, targets, board, offered,     *)
(*    ranking], ranking a sequence of words with their confidences.        *)
(* An observation is a word of a turn with what CIT compares, and a row of *)
(* the metric is a fraction, by (board type, stratum, band).               *)
(***************************************************************************)
EXTENDS FrameGeometry

RankedWords(ranking) == {ranking[i][1] : i \in DOMAIN ranking}
Stated(ranking, w) == {ranking[i][2] : i \in {j \in DOMAIN ranking : ranking[j][1] = w}}

\* resolve_ranking_confidences: a word stated twice with two confidences has none.
Divergent(ranking) == {w \in RankedWords(ranking) : Cardinality(Stated(ranking, w)) > 1}
Usable(ranking) == RankedWords(ranking) \ Divergent(ranking)
Confidence(ranking, w) == CHOOSE c \in Stated(ranking, w) : TRUE

AdmissibleTurns(turns) == {t \in turns : IsAdmissible(ClueLoad(t.clue))}

\* Where each usable word of an admissible turn goes, in the order of the checks
\* of collect_card_observations.
Funnel(t) ==
  LET ranked    == Usable(t.ranking)
      unmatched == ranked \ t.board
      unoffered == (ranked \cap t.board) \ t.offered
      open      == (ranked \cap t.board \cap t.offered) \ t.targets
      unseen    == {w \in open : ~HasVector(w)}
      group(g)  == {w \in open \ unseen : ClassifyCongruence(Rho[w], ClueLoad(t.clue)) = g}
  IN  [unmatched |-> unmatched, notOffered |-> unoffered, noVector |-> unseen,
       candidate |-> open \ unseen, neutral |-> group("neutral"),
       deadZone |-> group("excluded"), plus |-> group("C+"), minus |-> group("C-")]

CardObservations(turns) ==
  UNION {{[model |-> t.model, game |-> t.game, turn |-> t.turn, type |-> t.type,
           stratum |-> t.stratum, word |-> w, rho |-> Rho[w], sim |-> Sim(w, t.clue),
           confidence |-> Confidence(t.ranking, w),
           group |-> IF w \in Funnel(t).plus THEN "C+" ELSE "C-",
           load |-> Magnitude(ClueLoad(t.clue)), band |-> 0] :
             w \in Funnel(t).plus \cup Funnel(t).minus} : t \in AdmissibleTurns(turns)}

\* The power accounting of one model.
Diagnostics(turns, model) ==
  LET own    == {t \in turns : t.model = model}
      adm    == AdmissibleTurns(own)
      tally(f(_)) == MapThenSumSet(f, adm)
  IN  [admissible |-> Cardinality(adm), nonAdmissible |-> Cardinality(own \ adm),
       unmatched  |-> tally(LAMBDA t : Cardinality(Funnel(t).unmatched)),
       notOffered |-> tally(LAMBDA t : Cardinality(Funnel(t).notOffered)),
       noVector   |-> tally(LAMBDA t : Cardinality(Funnel(t).noVector)),
       divergent  |-> tally(LAMBDA t : Cardinality(Divergent(t.ranking))),
       candidate  |-> tally(LAMBDA t : Cardinality(Funnel(t).candidate)),
       neutral    |-> tally(LAMBDA t : Cardinality(Funnel(t).neutral)),
       deadZone   |-> tally(LAMBDA t : Cardinality(Funnel(t).deadZone)),
       classified |-> Cardinality(CardObservations(own))]

\* One pair of cuts for each board type, over the words of every model.
BandedByType(cards) ==
  LET cutsOf(type) == TercileCuts(ValuesOver({c \in cards : c.type = type}, LAMBDA c : c.sim))
      cuts == [type \in {c.type : c \in cards} |-> cutsOf(type)]
  IN  {[c EXCEPT !.band = AssignTercile(c.sim, cuts[c.type])] : c \in cards}

\* The pairs CIT compares: a congruent and an incongruent word of one turn.
Pairs(cards) ==
  {pair \in cards \X cards :
     pair[1].turn = pair[2].turn /\ pair[1].group = "C+" /\ pair[2].group = "C-"}
Weight(pair) == pair[1].load * Magnitude(pair[1].rho - pair[2].rho)
Direction(pair) == Sign(pair[1].confidence - pair[2].confidence)

\* _cit_from_pairs: (1 + mean direction) / 2, weighted by the loads or not.
CitFromPairs(cards, variant) ==
  LET pairs  == Pairs(cards)
      weight(pair) == IF variant = "weighted" THEN Weight(pair) ELSE 1
      total  == MapThenSumSet(weight, pairs)
      signed == MapThenSumSet(LAMBDA pair : weight(pair) * Direction(pair), pairs)
  IN  Share(total + signed, 2 * total)

\* The words of a row: band 0 pools the bands, "pooled" the strata.
InRow(c, key) ==
  c.type = key[1] /\ (key[2] = "pooled" \/ c.stratum = key[2]) /\ (key[3] = 0 \/ c.band = key[3])

\* compute_cit for one model: the rows that have a pair.
ComputeCit(cards, variant) ==
  LET keys  == {c.type : c \in cards} \X ({c.stratum : c \in cards} \cup {"pooled"})
                 \X ({c.band : c \in cards} \cup {0})
      share(key) == CitFromPairs({c \in cards : InRow(c, key)}, variant)
  IN  [key \in {k \in keys : share(k) # {}} |-> CHOOSE v \in share(key) : TRUE]

\* cit_cells: the pooled rows, by (type, band).
CitCells(cards, variant) ==
  LET rows == ComputeCit(cards, variant)
      pooled == {key \in DOMAIN rows : key[2] = "pooled"}
  IN  [cell \in {<<key[1], key[3]>> : key \in pooled} |-> rows[<<cell[1], "pooled", cell[2]>>]]

\* Mutant: the copies of a game share its turns.
CopiesOfOneTurn(cards, times) ==
  UNION {{[c EXCEPT !.game = <<c.game, k>>] : c \in {x \in cards : x.game = g}, k \in 1..times[g]} :
           g \in DOMAIN times}

\* The words of the games drawn, each as often as its game: every copy has
\* turns of its own.
ResampleCards(cards, times) ==
  UNION {{[c EXCEPT !.game = <<c.game, k>>, !.turn = <<c.turn, k>>] :
            c \in {x \in cards : x.game = g}, k \in 1..times[g]} : g \in DOMAIN times}

=============================================================================
