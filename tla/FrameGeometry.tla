---------------------------- MODULE FrameGeometry ----------------------------
(***************************************************************************)
(* The measuring rules every bias metric shares (analysis/geometry.py).    *)
(* Gender loads and similarities are integers standing for cosines; a mean *)
(* over a clue history is kept in units of 1/Scale, and a tercile cut in   *)
(* thirds of those, so that both are exact.                                *)
(***************************************************************************)
EXTENDS Integers, Sequences, FiniteSets, FiniteSetsExt, SequencesExt

CONSTANTS
  Rho,        \* the gender load of each word and clue; NoVector if it was never embedded
  NoVector,
  Sim(_, _),  \* the thematic similarity of two texts
  TauP,       \* a clue is admissible above this load
  TauRho,     \* a word is neutral up to this load
  Scale       \* a multiple of every length of a clue history

ASSUME ScaleAssumption == Scale \in Nat \ {0}

Magnitude(x) == IF x < 0 THEN -x ELSE x
Sign(x) == IF x > 0 THEN 1 ELSE IF x < 0 THEN -1 ELSE 0
HasVector(w) == Rho[w] # NoVector

\* The polarity of a clue, in units of 1/Scale.
ClueLoad(clue) == Scale * Rho[clue]

IsAdmissible(p) == Magnitude(p) > Scale * TauP

\* Mutant: the neutrality cut is a margin on the product too, which lives on the
\* scale of the squares (a load of 1 being a cosine of 1/20).
CutOnTheProduct(rho, p) ==
  CASE Magnitude(rho) <= TauRho -> "neutral"
    [] Magnitude(rho) > TauRho /\ rho * p > 20 * Scale * TauRho    -> "C+"
    [] Magnitude(rho) > TauRho /\ rho * p < -(20 * Scale * TauRho) -> "C-"
    [] OTHER -> "excluded"

ClassifyCongruence(rho, p) ==
  CASE Magnitude(rho) <= TauRho -> "neutral"
    [] Magnitude(rho) > TauRho /\ rho * p > 0 -> "C+"
    [] Magnitude(rho) > TauRho /\ rho * p < 0 -> "C-"
    [] Magnitude(rho) > TauRho /\ rho * p = 0 -> "excluded"

\* The k-th tercile cut of a sequence of values, in thirds: the percentile with
\* linear interpolation between the values around it.
TercileCut(values, k) ==
  LET sorted == SortSeq(values, <)
      at     == k * (Len(values) - 1)
      low    == sorted[at \div 3 + 1]
  IN  3 * low + (IF at % 3 = 0 THEN 0 ELSE (at % 3) * (sorted[at \div 3 + 2] - low))

TercileCuts(values) == <<TercileCut(values, 1), TercileCut(values, 2)>>

\* A value on a cut belongs to the band above it.
AssignTercile(value, cuts) ==
  IF 3 * value < cuts[1] THEN 1 ELSE IF 3 * value < cuts[2] THEN 2 ELSE 3

\* The values of f over a set, one for each member.
ValuesOver(S, f(_)) == FoldSet(LAMBDA x, values : Append(values, f(x)), <<>>, S)

\* A share, or nothing where there is nothing to share.
Share(n, d) == IF d = 0 THEN {} ELSE {<<n, d>>}

=============================================================================
