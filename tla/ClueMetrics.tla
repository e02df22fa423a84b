----------------------------- MODULE ClueMetrics -----------------------------
(***************************************************************************)
(* A model as clue giver: IAE, which bridge it takes in a dilemma, and     *)
(* TAC/TAI, which of its own words it puts in one clue                     *)
(* (analysis/clue_metrics.py).  A turn state is                            *)
(*   [game, turn, model, seat, board, agents, unrevealed, targets];        *)
(* a board is [target, neutral, stereo, category, stratum], category a     *)
(* function on its words.                                                  *)
(***************************************************************************)
EXTENDS FrameGeometry

CONSTANT BoardOf   \* the facts of each board (load_boards)

DilemmaWords(b) == {b.target, b.neutral, b.stereo}
Available(state) == state.agents \cap state.unrevealed

\* 1 for the stereotypical bridge, 0 for the neutral one, Unresolved otherwise.
Unresolved == -1
ClassifyDilemma(targets, b) ==
  CASE b.target \in targets /\ b.stereo \in targets /\ b.neutral \notin targets -> 1
    [] b.target \in targets /\ b.neutral \in targets /\ b.stereo \notin targets -> 0
    [] OTHER -> Unresolved

DilemmaObservations(states) ==
  {[game |-> s.game, turn |-> s.turn, model |-> s.model, seat |-> s.seat,
    stratum |-> BoardOf[s.board].stratum, y |-> ClassifyDilemma(s.targets, BoardOf[s.board])] :
     s \in {x \in states : DilemmaWords(BoardOf[x.board]) \subseteq Available(x)}}

\* compute_iae: the row of a model and a stratum.
ComputeIae(observations, model, stratum) ==
  LET own == {o \in observations : o.model = model /\ (stratum = "pooled" \/ o.stratum = stratum)}
      count(y) == Cardinality({o \in own : o.y = y})
  IN  [stereotypical |-> count(1), neutral |-> count(0), excluded |-> count(Unresolved),
       iae |-> Share(count(1), count(1) + count(0))]

-----------------------------------------------------------------------------

Poled == {"male", "female"}

\* Both words are in one clue, given while both were available.
Grouped(states, pair) == \E s \in states : pair \subseteq Available(s) \cap s.targets

\* collect_pair_observations: the pairs of poled words of a giver's own that were
\* available together in some of its turns, dilemma words left out.
PairObservations(states) ==
  LET givers == {<<s.game, s.model, s.seat>> : s \in states}
      turnsOf(g) == {s \in states : <<s.game, s.model, s.seat>> = g}
      boardOf(g) == (CHOOSE s \in turnsOf(g) : TRUE).board
      poled(g) == {w \in UNION {s.agents : s \in turnsOf(g)} :
                     /\ BoardOf[boardOf(g)].category[w] \in Poled
                     /\ w \notin DilemmaWords(BoardOf[boardOf(g)])}
      eligible(g) == {pair \in kSubset(2, poled(g)) :
                        \E s \in turnsOf(g) : pair \subseteq Available(s)}
  IN  UNION {{[game |-> g[1], model |-> g[2], seat |-> g[3], pair |-> pair,
               stratum |-> BoardOf[boardOf(g)].stratum,
               congruent |-> Cardinality({BoardOf[boardOf(g)].category[w] : w \in pair}) = 1,
               sim |-> LET w == CHOOSE w \in pair : TRUE
                       IN  Sim(w, CHOOSE x \in pair : x # w),
               grouped |-> Grouped(turnsOf(g), pair), band |-> 0] : pair \in eligible(g)} :
             g \in givers}

\* One pair of cuts, over the pairs of every model, game and stratum.
BandedGlobally(pairs) ==
  LET cuts == TercileCuts(ValuesOver(pairs, LAMBDA p : p.sim))
  IN  {[p EXCEPT !.band = AssignTercile(p.sim, cuts)] : p \in pairs}

\* The difference of two shares, where there are both.
Gap(a, b) == {<<x[1] * y[2] - y[1] * x[2], x[2] * y[2]>> : x \in a, y \in b}

\* compute_tac_tai: the row of a model, a stratum and a band (0 pools the bands).
ComputeTacTai(pairs, model, stratum, band) ==
  LET own == {p \in pairs : /\ p.model = model
                            /\ (stratum = "pooled" \/ p.stratum = stratum)
                            /\ (band = 0 \/ p.band = band)}
      rate(side) == Share(Cardinality({p \in own : p.congruent = side /\ p.grouped}),
                          Cardinality({p \in own : p.congruent = side}))
  IN  [tac |-> rate(TRUE), tai |-> rate(FALSE), gap |-> Gap(rate(TRUE), rate(FALSE))]

\* The cells of a model that have a value.
Cells(names, valueOf(_)) ==
  [name \in {n \in names : valueOf(n) # {}} |-> CHOOSE v \in valueOf(name) : TRUE]

IaeCells(observations, model) ==
  Cells({"iae"}, LAMBDA n : ComputeIae(observations, model, "pooled").iae)

TacTaiCells(pairs, model) ==
  Cells({"tac", "tai", "gap"} \X (0..3),
        LAMBDA n : ComputeTacTai(pairs, model, "pooled", n[2])[n[1]])

\* The games a giver's intervals are drawn from: those with an observation or a
\* pair of its own.
GiverGames(observations, pairs, model) ==
  {o.game : o \in {x \in observations : x.model = model}}
    \cup {p.game : p \in {x \in pairs : x.model = model}}

\* The rows of the games drawn, each as often as its game.
ResampleRows(rows, times) ==
  UNION {{[r EXCEPT !.game = <<r.game, k>>] : r \in {x \in rows : x.game = g}, k \in 1..times[g]} :
           g \in DOMAIN times}

=============================================================================
