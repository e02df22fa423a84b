----------------------------- MODULE SkillMetrics -----------------------------
(***************************************************************************)
(* How well the models play (analysis/skill_metrics.py): games won, cards  *)
(* guessed that are agents, agents revealed per clue.  A game is [game,    *)
(* result, models], models a function on the seats; a card [game, id,      *)
(* model, role]; a clue [game, id, model, revealed].                       *)
(***************************************************************************)
EXTENDS FrameGeometry

WinResults == {"victory", "victory_sd"}

WinRate(games) ==
  Share(Cardinality({g \in games : g.result \in WinResults}), Cardinality(games))
GuessAccuracy(cards) ==
  Share(Cardinality({c \in cards : c.role = "agent"}), Cardinality(cards))
ClueEfficiency(clues) ==
  Share(MapThenSumSet(LAMBDA c : c.revealed, clues), Cardinality(clues))

Statistic(cell, records) ==
  CASE cell = "tv" -> WinRate(records)
    [] cell = "pa" -> GuessAccuracy(records)
    [] cell = "ep" -> ClueEfficiency(records)

\* _make_estimator: the statistic of the records of the games drawn.
DrawnRecords(records, times) ==
  UNION {{[r EXCEPT !.game = <<r.game, k>>] : r \in {x \in records : x.game = g},
                                              k \in 1..times[g]} : g \in DOMAIN times}

\* compute_skill_metrics: what each cell of a model, and of a pair of models, is
\* computed over; a cell without records is left out (_bootstrap_cell).
Played(games, m) == {g \in games : \E s \in DOMAIN g.models : g.models[s] = m}
PairOf(g) == {g.models[s] : s \in DOMAIN g.models}

SkillStudies(games, cards, clues) ==
  LET models == UNION {PairOf(g) : g \in games}
      pairs  == {PairOf(g) : g \in games}
      all == {<<"tv", {m}, Played(games, m)>> : m \in models}
               \cup {<<"tv", p, {g \in games : PairOf(g) = p}>> : p \in pairs}
               \cup {<<"pa", {m}, {c \in cards : c.model = m}>> : m \in models}
               \cup {<<"ep", {m}, {c \in clues : c.model = m}>> : m \in models}
  IN  {study \in all : study[3] # {}}

\* The diagnostics of a model.
SkillDiagnostics(games, cards, clues, m) ==
  LET own == {c \in cards : c.model = m}
      given == {c \in clues : c.model = m}
  IN  [games |-> Cardinality(Played(games, m)), clues |-> Cardinality(given),
       cards |-> Cardinality(own), agents |-> Cardinality({c \in own : c.role = "agent"}),
       revealed |-> MapThenSumSet(LAMBDA c : c.revealed, given)]

=============================================================================
