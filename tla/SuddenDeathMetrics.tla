-------------------------- MODULE SuddenDeathMetrics --------------------------
(***************************************************************************)
(* conc-SD: CIT's comparison at a sudden-death seat, against the whole     *)
(* history of clues the seat received (analysis/sd_metrics.py).  A record  *)
(* of a seat is [game, seat, model, type, clues, board, nonAgents,         *)
(* ranking]; nonAgents are the words that are no agents to the guesser.    *)
(***************************************************************************)
EXTENDS GuesserMetrics

Embedded(clues) == SelectSeq(clues, HasVector)

\* The mean over a sequence of numbers, in units of 1/Scale.
MeanOf(values) == (Scale * FoldLeft(LAMBDA x, y : x + y, 0, values)) \div Len(values)

HistoryLoad(r) == MeanOf([i \in DOMAIN Embedded(r.clues) |-> Rho[Embedded(r.clues)[i]]])
SdIsAdmissible(r) == Embedded(r.clues) # <<>> /\ IsAdmissible(HistoryLoad(r))

\* Where each usable word of an admissible seat goes.
SdFunnel(r) ==
  LET ranked    == Usable(r.ranking)
      open      == ranked \cap r.board \cap r.nonAgents
      unseen    == {w \in open : ~HasVector(w)}
      group(g)  == {w \in open \ unseen : ClassifyCongruence(Rho[w], HistoryLoad(r)) = g}
  IN  [unmatched |-> ranked \ r.board, noVector |-> unseen, candidate |-> open \ unseen,
       neutral |-> group("neutral"), deadZone |-> group("excluded"),
       plus |-> group("C+"), minus |-> group("C-")]

\* The similarity of a word to the history: the largest, or the mean.
HistorySim(w, clues, variant) ==
  LET sims == [i \in DOMAIN clues |-> Sim(w, clues[i])]
  IN  IF variant = "max" THEN Scale * Max({sims[i] : i \in DOMAIN sims}) ELSE MeanOf(sims)

SdObservations(records, variant) ==
  UNION {{[model |-> r.model, game |-> r.game, turn |-> <<r.game, r.seat>>, type |-> r.type,
           word |-> w, rho |-> Rho[w], sim |-> HistorySim(w, Embedded(r.clues), variant),
           confidence |-> Confidence(r.ranking, w),
           group |-> IF w \in SdFunnel(r).plus THEN "C+" ELSE "C-",
           load |-> Magnitude(HistoryLoad(r)), band |-> 0] :
             w \in SdFunnel(r).plus \cup SdFunnel(r).minus} :
         r \in {x \in records : SdIsAdmissible(x)}}

SdDiagnostics(records, model) ==
  LET own == {r \in records : r.model = model}
      adm == {r \in own : SdIsAdmissible(r)}
      tally(f(_)) == MapThenSumSet(f, adm)
  IN  [admissible |-> Cardinality(adm), nonAdmissible |-> Cardinality(own \ adm),
       unmatched  |-> tally(LAMBDA r : Cardinality(SdFunnel(r).unmatched)),
       noVector   |-> tally(LAMBDA r : Cardinality(SdFunnel(r).noVector)),
       divergent  |-> tally(LAMBDA r : Cardinality(Divergent(r.ranking))),
       clueGaps   |-> MapThenSumSet(LAMBDA r : Len(r.clues) - Len(Embedded(r.clues)), own),
       candidate  |-> tally(LAMBDA r : Cardinality(SdFunnel(r).candidate)),
       neutral    |-> tally(LAMBDA r : Cardinality(SdFunnel(r).neutral)),
       deadZone   |-> tally(LAMBDA r : Cardinality(SdFunnel(r).deadZone)),
       classified |-> Cardinality(SdObservations(own, "max"))]

\* The cuts are conc-SD's own, over its own similarities, for each board type.
SdBanded(cards) == BandedByType(cards)

\* _concsd_from_pairs: as CIT, a seat's observation in the place of a turn.
ConcSdFromPairs(cards, weighting) == CitFromPairs(cards, weighting)

\* compute_concsd for one model, by (type, band).
ComputeConcSd(cards, weighting) ==
  LET keys == {c.type : c \in cards} \X ({c.band : c \in cards} \cup {0})
      share(key) == ConcSdFromPairs({c \in cards : c.type = key[1]
                                                     /\ (key[2] = 0 \/ c.band = key[2])},
                                    weighting)
  IN  [key \in {k \in keys : share(k) # {}} |-> CHOOSE v \in share(key) : TRUE]

\* The seats of the games drawn, each copy an observation of its own.
ResampleSeats(cards, times) == ResampleCards(cards, times)

=============================================================================
