---------------------------- MODULE PairMatching ----------------------------
(***************************************************************************)
(* Balanced pairs of a specification's words: board_generator/             *)
(* balancing.py.  The propensity model is a library's; what is modelled is *)
(* what is done with its logits: a greedy matching without replacement,    *)
(* within a caliper of a fifth of their standard deviation, decided on     *)
(* squares, so that integers suffice.                                      *)
(***************************************************************************)
EXTENDS WordPools, SequencesExt

CONSTANT Logit(_, _)   \* the fitted logit of each word, given both groups' words

TreatmentPole == "male"

Treatment(pool) == Sorted(Texts({w \in pool : w.gender = TreatmentPole}))
Control(pool) == Sorted(Texts({w \in pool : w.gender # TreatmentPole}))

SumOver(S, f(_)) == FoldSet(LAMBDA x, sum : f(x) + sum, 0, S)
Distance(f, u, v) == IF f[u] > f[v] THEN f[u] - f[v] ELSE f[v] - f[u]

\* n times the sum of squares less the square of the sum: the variance, scaled
\* by the square of the sample's size.
Spread(S, f(_)) ==
  LET sq(x) == f(x) * f(x)
  IN  Cardinality(S) * SumOver(S, sq) - SumOver(S, f) * SumOver(S, f)

\* Two words are within the caliper: their logits differ by at most a fifth of
\* the standard deviation over both groups.
WithinCaliper(f, u, v) ==
  LET n == Cardinality(DOMAIN f)
      at(x) == f[x]
  IN  25 * n * n * Distance(f, u, v) * Distance(f, u, v) <= Spread(DOMAIN f, at)

\* The nearest word still available, the first of those as near.
Nearest(f, u, open) ==
  CHOOSE v \in open : \A x \in open :
    Distance(f, u, v) < Distance(f, u, x) \/ (Distance(f, u, v) = Distance(f, u, x) /\ v <= x)

\* propensity_score_match: each word of the smaller group, in order, takes the
\* nearest word of the other that is left and near enough.  A pair is the
\* treated word and its control.
PropensityScoreMatch(treatment, control) ==
  LET f == Logit(Range(treatment), Range(control))
      treatedFirst == Len(treatment) <= Len(control)
      minority == IF treatedFirst THEN treatment ELSE control
      majority == IF treatedFirst THEN control ELSE treatment
      take(matched, u) ==
        LET open == {v \in Range(majority) \ matched.taken : WithinCaliper(f, u, v)} IN
          IF open = {} THEN matched
          ELSE LET v == Nearest(f, u, open) IN
            [taken |-> matched.taken \cup {v},
             pairs |-> Append(matched.pairs, IF treatedFirst THEN <<u, v>> ELSE <<v, u>>)]
      after[i \in 0..Len(minority)] ==
        IF i = 0 THEN [taken |-> {}, pairs |-> <<>>] ELSE take(after[i - 1], minority[i])
  IN  IF minority = <<>> THEN <<>> ELSE after[Len(minority)].pairs

\* run_balancing, for one specification, by what a bank takes from it: the
\* matched pairs.  The report it also makes decides nothing.
RunBalancing(words, spec) ==
  LET pool == OfSpec(words, spec)
  IN  PropensityScoreMatch(Treatment(pool), Control(pool))

=============================================================================
