------------------------------ MODULE BiasStudy ------------------------------
(***************************************************************************)
(* A bias metric with its interval: the observations of one model, their   *)
(* point estimate, and the cluster bootstrap over its games                *)
(* (analysis/inference.py and the adapters of the metrics).  A draw of     *)
(* games with replacement is how often it holds each game: no estimator    *)
(* looks at their order.  The percentiles of the kept values are left out. *)
(***************************************************************************)
EXTENDS SuddenDeathMetrics, ClueMetrics, SkillMetrics

CONSTANTS
  Studies,      \* what is measured: [metric, variant, sim, models, data]
  Contrasts,    \* pairs of cells whose difference is estimated
  NReplicates   \* draws of a bootstrap

ASSUME ReplicatesAssumption == NReplicates \in Nat \ {0}

VARIABLES
  study,      \* the study under way
  rows,       \* its model's observations, banded over the whole data
  point,      \* the cells over every game once
  draws,      \* the draws so far
  samples,    \* the usable values of each cell, in the order of the draws
  paired,     \* for each contrast, the usable pairs of values
  report      \* each cell's kept and dropped replicates, at the end

vars == <<study, rows, point, draws, samples, paired, report>>

None == <<>>

\* The model a study is about; a win rate may be about a pair.
Subject(s) == CHOOSE m \in s.models : TRUE

\* The banded observations of the study's model.
Observations(s) ==
  CASE s.metric = "cit"    -> {c \in BandedByType(CardObservations(s.data)) : c.model \in s.models}
    [] s.metric = "concsd" -> {c \in SdBanded(SdObservations(s.data, s.sim)) : c.model \in s.models}
    [] s.metric = "iae"    -> {o \in DilemmaObservations(s.data) : o.model \in s.models}
    [] s.metric = "tactai" -> {p \in BandedGlobally(PairObservations(s.data)) : p.model \in s.models}
    [] s.metric \in {"tv", "pa", "ep"} ->
         UNION {x[3] : x \in {y \in SkillStudies(s.data.games, s.data.cards, s.data.clues) :
                                y[1] = s.metric /\ y[2] = s.models}}

\* The games drawn from.
Clusters(s, obs) ==
  IF s.metric \in {"iae", "tactai"}
    THEN GiverGames(DilemmaObservations(s.data), PairObservations(s.data), Subject(s))
    ELSE {r.game : r \in obs}

\* The cells over the games drawn: the closure each metric hands the bootstrap.
Estimate(s, obs, times) ==
  CASE s.metric = "cit"    -> CitCells(ResampleCards(obs, times), s.variant)
    [] s.metric = "concsd" -> ComputeConcSd(ResampleSeats(obs, times), s.variant)
    [] s.metric = "iae"    -> IaeCells(ResampleRows(obs, times), Subject(s))
    [] s.metric = "tactai" -> TacTaiCells(ResampleRows(obs, times), Subject(s))
    [] s.metric \in {"tv", "pa", "ep"} ->
         Cells({s.metric}, LAMBDA n : Statistic(n, DrawnRecords(obs, times)))

-----------------------------------------------------------------------------

Init ==
  /\ study \in Studies
  /\ rows = {} /\ point = None /\ draws = None /\ samples = None /\ paired = None
  /\ report = None

\* The point estimate comes from every game once; a study without games has none.
Measure ==
  /\ point = None /\ report = None
  /\ rows' = Observations(study)
  /\ LET games == Clusters(study, rows')
     IN  IF games = {}
           THEN report' = [cell \in {} |-> 0] /\ UNCHANGED <<point, samples, paired>>
           ELSE /\ point' = [cells |-> Estimate(study, rows', [g \in games |-> 1]), games |-> games]
                /\ samples' = [cell \in DOMAIN point'.cells |-> <<>>]
                /\ paired' = [c \in Contrasts |-> <<>>]
                /\ UNCHANGED report
  /\ UNCHANGED <<study, draws>>

\* Both terms of a contrast come from the same draw.
PairedWith(cells, c) ==
  IF c[1] \in DOMAIN cells /\ c[2] \in DOMAIN cells
    THEN Append(paired[c], <<cells[c[1]], cells[c[2]]>>)
    ELSE paired[c]

\* One replicate: as many games as there are, with replacement.
Draw ==
  /\ point # None /\ Len(draws) < NReplicates
  /\ \E times \in [point.games -> 0..Cardinality(point.games)] :
       /\ MapThenSumSet(LAMBDA g : times[g], point.games) = Cardinality(point.games)
       /\ draws' = Append(draws, times)
       /\ LET cells == Estimate(study, rows, times)
          IN  /\ samples' = [cell \in DOMAIN samples |->
                               IF cell \in DOMAIN cells THEN Append(samples[cell], cells[cell])
                                                        ELSE samples[cell]]
              /\ paired' = [c \in Contrasts |-> PairedWith(cells, c)]
  /\ UNCHANGED <<study, rows, point, report>>

\* _summarise: with fewer than two kept replicates there is no interval, and it is
\* reliable when at most a fifth was dropped.
Summary(kept) ==
  [used |-> kept, dropped |-> NReplicates - kept, interval |-> kept >= 2,
   reliable |-> kept >= 2 /\ 5 * (NReplicates - kept) <= NReplicates]

Report ==
  /\ point # None /\ Len(draws) = NReplicates /\ report = None
  /\ report' = [cell \in DOMAIN samples |-> Summary(Len(samples[cell]))]
  /\ UNCHANGED <<study, rows, point, draws, samples, paired>>

Next == Measure \/ Draw \/ Report

Spec == Init /\ [][Next]_vars

-----------------------------------------------------------------------------
(***************************************************************************)
(* Properties                                                              *)
(***************************************************************************)

\* The value of a cell computed from the games one by one: each contributes its
\* own numerator and denominator as often as it was drawn.
GameShare(cell, g) ==
  LET own == {r \in rows : r.game = g}
  IN  CASE study.metric = "cit"    -> CitFromPairs({c \in own : InRow(c, <<cell[1], "pooled", cell[2]>>)},
                                                   study.variant)
        [] study.metric = "concsd" -> ConcSdFromPairs({c \in own : InRow(c, <<cell[1], "pooled", cell[2]>>)},
                                                      study.variant)
        [] study.metric = "iae"    -> ComputeIae(own, Subject(study), "pooled").iae
        [] study.metric = "tactai" -> ComputeTacTai(own, Subject(study), "pooled", cell[2])[cell[1]]
        [] study.metric \in {"tv", "pa", "ep"} -> Statistic(cell, own)

AddedUp(cell, times) ==
  LET with == {g \in point.games : times[g] > 0 /\ GameShare(cell, g) # {}}
      part(g, i) == times[g] * (CHOOSE v \in GameShare(cell, g) : TRUE)[i]
  IN  Share(MapThenSumSet(LAMBDA g : part(g, 1), with), MapThenSumSet(LAMBDA g : part(g, 2), with))

\* A gap does not add up over games: it is what lies between the two added rates.
Added(cell, times) ==
  IF study.metric = "tactai" /\ cell[1] = "gap"
    THEN Gap(AddedUp(<<"tac", cell[2]>>, times), AddedUp(<<"tai", cell[2]>>, times))
    ELSE AddedUp(cell, times)

\* Every replicate weighs every copy of a drawn game as a game of its own, no more
\* and no less, and the point estimate each game once: a cell's kept values are
\* exactly those of the draws that have one, and a contrast's terms come from one
\* draw.  Copies that share a turn would pair their words with each other.
EveryCopyCountsOnce ==
  point # None =>
    /\ \A cell \in DOMAIN point.cells :
         /\ {point.cells[cell]} = Added(cell, [g \in point.games |-> 1])
         /\ LET having == SelectSeq(draws, LAMBDA d : Added(cell, d) # {})
            IN  samples[cell] = [i \in DOMAIN having |-> CHOOSE v \in Added(cell, having[i]) : TRUE]
    /\ \A c \in Contrasts :
         c[1] \in DOMAIN point.cells /\ c[2] \in DOMAIN point.cells =>
           LET both == SelectSeq(draws, LAMBDA d : Added(c[1], d) # {} /\ Added(c[2], d) # {})
           IN  paired[c] = [i \in DOMAIN both |-> <<CHOOSE v \in Added(c[1], both[i]) : TRUE,
                                                    CHOOSE v \in Added(c[2], both[i]) : TRUE>>]

\* The funnel loses no word: every word a model ranked is excluded for one reason
\* or reaches C+ or C-, and none falls in the dead zone that admissible clues and
\* loaded words leave empty (classify_congruence).
FunnelAddsUp ==
  /\ study.metric = "cit" => \A m \in {t.model : t \in study.data} :
       LET d   == Diagnostics(study.data, m)
           adm == AdmissibleTurns({t \in study.data : t.model = m})
           told == MapThenSumSet(LAMBDA t : Cardinality(RankedWords(t.ranking)), adm)
           targets == MapThenSumSet(LAMBDA t : Cardinality(Usable(t.ranking) \cap t.offered \cap t.targets),
                                    adm)
       IN  /\ told = d.divergent + d.unmatched + d.notOffered + targets + d.noVector + d.candidate
           /\ d.candidate = d.neutral + d.classified /\ d.deadZone = 0
  /\ study.metric = "concsd" => \A m \in {r.model : r \in study.data} :
       LET d == SdDiagnostics(study.data, m)
       IN  d.candidate = d.neutral + d.classified /\ d.deadZone = 0

\* Bands are thirds of the whole population in the order of similarity: one
\* similarity is one band, and where no two are equal their sizes differ by at
\* most one.
BandsAreThirds(population) ==
  LET size(b) == Cardinality({r \in population : r.band = b})
  IN  /\ \A x \in population, y \in population : x.sim <= y.sim => x.band <= y.band
      /\ Cardinality({r.sim : r \in population}) = Cardinality(population) =>
           \A b \in 1..3, c \in 1..3 : size(b) <= size(c) + 1

Populations ==
  CASE study.metric = "cit"    -> LET all == BandedByType(CardObservations(study.data))
                                  IN  {{c \in all : c.type = t} : t \in {c.type : c \in all}}
    [] study.metric = "concsd" -> LET all == SdBanded(SdObservations(study.data, study.sim))
                                  IN  {{c \in all : c.type = t} : t \in {c.type : c \in all}}
    [] study.metric = "tactai" -> {BandedGlobally(PairObservations(study.data))}
    [] OTHER                   -> {}

\* IAE and TAC/TAI measure different choices: no dilemma word is in a pair, every
\* grouped pair was put in one clue while the giver still had both words, so a
\* clue groups at most the pairs its targets hold.
ChoicesAreCountedOnce ==
  study.metric = "tactai" =>
    \A g \in {s.game : s \in study.data}, m \in {s.model : s \in study.data} :
      LET mine == {s \in study.data : s.game = g /\ s.model = m}
          pairs == {p \in PairObservations(study.data) : p.game = g /\ p.model = m}
      IN  /\ \A s \in mine, p \in pairs : p.pair \cap DilemmaWords(BoardOf[s.board]) = {}
          /\ Cardinality({p \in pairs : p.grouped}) <=
               MapThenSumSet(LAMBDA s : Cardinality(kSubset(2, s.targets)), mine)

\* Every game is a game of one pair and of its two models, every card and clue of
\* one model.
GamesArePartitioned ==
  study.metric = "tv" =>
    LET data   == study.data
        models == UNION {PairOf(g) : g \in data.games}
        of(m)  == SkillDiagnostics(data.games, data.cards, data.clues, m)
        tv     == {x \in SkillStudies(data.games, data.cards, data.clues) : x[1] = "tv"}
        total(k) == MapThenSumSet(LAMBDA x : Cardinality(x[3]), {x \in tv : Cardinality(x[2]) = k})
    IN  /\ MapThenSumSet(LAMBDA m : of(m).games, models) = 2 * Cardinality(data.games)
        /\ MapThenSumSet(LAMBDA m : of(m).cards, models) = Cardinality(data.cards)
        /\ total(1) = 2 * Cardinality(data.games) /\ total(2) = Cardinality(data.games)

\* What is measured accounts for everything that was said, once.  The study never
\* changes, so its first state is enough.
EveryWordIsAccountedFor ==
  point = None /\ report = None =>
    FunnelAddsUp /\ ChoicesAreCountedOnce /\ GamesArePartitioned
    /\ \A population \in Populations : BandsAreThirds(population)

=============================================================================
