--------------------------- MODULE BoardBankProofs ---------------------------
(***************************************************************************)
(* Proofs about the board bank: whatever is edited, interrupted or rebuilt,*)
(* every board file is a board the experiment can be played on, and every  *)
(* bank shares its neutral words out.                                      *)
(*                                                                         *)
(* First what the helpers on sequences yield, then the words of a board,   *)
(* its key card and its layout, and last the tools that write the files.   *)
(***************************************************************************)
EXTENDS BoardBank, FiniteSetTheorems, SequenceTheorems, WellFoundedInduction, TLAPS

-----------------------------------------------------------------------------
(***************************************************************************)
(* Counting                                                                *)
(***************************************************************************)

\* Induction, over a set of naturals.
LEMMA SetInduction ==
  ASSUME NEW S, 0 \in S, \A n \in Nat : n \in S => n + 1 \in S
  PROVE  Nat \subseteq S
<1> DEFINE R == OpToRel(<, Nat)
           T == Nat \ S
<1>1. \A x, y \in Nat : x < y => <<x, y>> \in R
  BY DEF OpToRel
<1>2. IsWellFoundedOn(R, Nat)
  BY NatLessThanWellFounded
<1> HIDE DEF R
<1>3. ASSUME T # {} PROVE FALSE
  <2>1. \E x \in T : \A y \in T : ~ (<<y, x>> \in R)
    BY <1>2, <1>3, WFMin
  <2>2. PICK x \in T : \A y \in T : ~ (<<y, x>> \in R)
    BY <2>1
  <2>3. x # 0 /\ x \in Nat
    OBVIOUS
  <2>4. x - 1 \in Nat /\ x - 1 < x /\ (x - 1) + 1 = x
    BY <2>3
  <2>5. x - 1 \in T
    BY <2>2, <2>4
  <2>6. QED BY <1>1, <2>2, <2>3, <2>4, <2>5
<1>4. QED BY <1>3

\* A set of naturals that is not empty has a least element.
LEMMA LeastExists ==
  ASSUME NEW S \in SUBSET Nat, S # {}
  PROVE  \E x \in S : \A y \in S : x <= y
<1> DEFINE R == OpToRel(<, Nat)
<1>1. \A x, y \in Nat : x < y => <<x, y>> \in R
  BY DEF OpToRel
<1>2. IsWellFoundedOn(R, Nat)
  BY NatLessThanWellFounded
<1> HIDE DEF R
<1>3. \E x \in S : \A y \in S : ~ (<<y, x>> \in R)
  BY <1>2, WFMin
<1>4. PICK x \in S : \A y \in S : ~ (<<y, x>> \in R)
  BY <1>3
<1>5. \A y \in S : ~ (y < x)
  BY <1>1, <1>4
<1>6. QED BY <1>5

Closed(step, n, V) == \A i \in 1..n, v \in V : step[i][v] \in V
Stepped(f, n, V, start, step) ==
  f \in [0..n -> V] /\ f[0] = start /\ \A i \in 1..n : f[i] = step[i][f[i - 1]]

\* A function on 0..n that each step computes from the value before.
LEMMA StepsExist ==
  ASSUME NEW n \in Nat, NEW V, NEW start \in V, NEW step, Closed(step, n, V)
  PROVE  \E f : Stepped(f, n, V, start, step)
<1> DEFINE Computes(f, m) == f[0] = start /\ \A i \in 1..m : f[i] = step[i][f[i - 1]]
           S == {m \in Nat : m <= n => \E f \in [0..m -> V] : Computes(f, m)}
<1>1. 0 \in S
  <2>1. [i \in 0..0 |-> start] \in [0..0 -> V] /\ Computes([i \in 0..0 |-> start], 0)
    OBVIOUS
  <2>2. QED BY <2>1
<1>2. ASSUME NEW m \in Nat, m \in S, m + 1 <= n PROVE \E f \in [0..m + 1 -> V] : Computes(f, m + 1)
  <2>1. PICK f \in [0..m -> V] : Computes(f, m)
    BY <1>2
  <2> DEFINE g == [i \in 0..m + 1 |-> IF i = m + 1 THEN step[m + 1][f[m]] ELSE f[i]]
  <2>2. f[m] \in V /\ m + 1 \in 1..n /\ \A i \in 0..m + 1 : i # m + 1 => i \in 0..m /\ f[i] \in V
    BY <1>2
  <2>3. step[m + 1][f[m]] \in V
    BY <2>2 DEF Closed
  <2>4. g \in [0..m + 1 -> V]
    BY <2>2, <2>3
  <2>5. g[m + 1] = step[m + 1][f[m]] /\ \A i \in 0..m : g[i] = f[i]
    OBVIOUS
  <2> HIDE DEF g
  <2>6. ASSUME NEW i \in 1..m + 1 PROVE g[i] = step[i][g[i - 1]]
    <3>1. CASE i = m + 1
      BY <2>5, <3>1
    <3>2. CASE i # m + 1
      <4>1. i \in 1..m /\ i \in 0..m /\ i - 1 \in 0..m
        BY <3>2
      <4>2. QED BY <2>1, <2>5, <4>1
    <3>3. QED BY <3>1, <3>2
  <2>7. g[0] = start
    BY <2>1, <2>5
  <2>8. QED BY <2>4, <2>6, <2>7
<1>3. \A m \in Nat : m \in S => m + 1 \in S
  BY <1>2
<1> HIDE DEF S
<1>4. n \in S
  BY <1>1, <1>3, SetInduction
<1>5. QED BY <1>4 DEF S, Stepped

\* A function into a finite set that tells its arguments apart counts them,
LEMMA InjectionsCount ==
  ASSUME NEW S, NEW T, NEW f \in [S -> T], IsFiniteSet(T),
         \A x, y \in S : f[x] = f[y] => x = y
  PROVE  /\ IsFiniteSet(S) /\ Cardinality(S) <= Cardinality(T)
         /\ Cardinality(S) = Cardinality(T) <=> \A t \in T : \E x \in S : f[x] = t
<1>1. f \in Injection(S, T)
  BY DEF Injection, IsInjective
<1>2. f \in Surjection(S, T) <=> \A t \in T : \E x \in S : f[x] = t
  BY DEF Surjection
<1>3. QED BY <1>1, <1>2, FS_Injection

\* and one from a finite set onto another makes it no larger.
LEMMA SurjectionsCount ==
  ASSUME NEW S, NEW T, NEW f \in [S -> T], IsFiniteSet(S), \A t \in T : \E x \in S : f[x] = t
  PROVE  /\ IsFiniteSet(T) /\ Cardinality(T) <= Cardinality(S)
         /\ Cardinality(T) = Cardinality(S) <=> \A x, y \in S : f[x] = f[y] => x = y
<1>1. f \in Surjection(S, T)
  BY DEF Surjection
<1>2. f \in Injection(S, T) <=> \A x, y \in S : f[x] = f[y] => x = y
  BY DEF Injection, IsInjective
<1>3. QED BY <1>1, <1>2, FS_Surjection

\* 1..n has n elements.
LEMMA UpToCounts == \A n \in Nat : IsFiniteSet(1..n) /\ Cardinality(1..n) = n
BY FS_Interval

\* A sequence without repetition holds as many elements as it is long, and a
\* sequence that long in elements repeats none.
LEMMA DistinctElements ==
  ASSUME NEW s, NEW n \in Nat, DOMAIN s = 1..n
  PROVE  /\ IsFiniteSet(Range(s)) /\ Cardinality(Range(s)) <= n
         /\ Cardinality(Range(s)) = n <=> \A i, j \in 1..n : s[i] = s[j] => i = j
<1> DEFINE f == [i \in 1..n |-> s[i]]
<1>1. f \in [1..n -> Range(s)] /\ \A t \in Range(s) : \E i \in 1..n : f[i] = t
  BY DEF Range
<1>2. \A i, j \in 1..n : f[i] = f[j] <=> s[i] = s[j]
  OBVIOUS
<1> HIDE DEF f
<1>3. IsFiniteSet(1..n) /\ Cardinality(1..n) = n
  BY UpToCounts
<1>4. /\ IsFiniteSet(Range(s)) /\ Cardinality(Range(s)) <= Cardinality(1..n)
      /\ Cardinality(Range(s)) = Cardinality(1..n) <=> \A i, j \in 1..n : f[i] = f[j] => i = j
  BY <1>1, <1>3, SurjectionsCount
<1>5. QED BY <1>2, <1>3, <1>4

\* A permutation reaches every place.
LEMMA PermutationIsOnto ==
  ASSUME NEW n \in Nat, NEW f \in [1..n -> 1..n], \A i, j \in 1..n : f[i] = f[j] => i = j
  PROVE  \A k \in 1..n : \E i \in 1..n : f[i] = k
<1>1. f \in Injection(1..n, 1..n)
  BY DEF Injection, IsInjective
<1>2. f \in Surjection(1..n, 1..n)
  <2>1. IsFiniteSet(1..n)
    BY UpToCounts
  <2>2. QED BY <1>1, <2>1, FS_Injection
<1>3. QED BY <1>2 DEF Surjection

-----------------------------------------------------------------------------
(***************************************************************************)
(* Sequences                                                               *)
(***************************************************************************)

\* A function on 1..n is a sequence that long.
LEMMA SequenceUpTo ==
  ASSUME NEW n \in Nat, NEW S, NEW t, t \in [1..n -> S]
  PROVE  t \in Seq(S) /\ Len(t) = n /\ DOMAIN t = 1..n
<1>1. t \in Seq(S)
  BY SeqDef
<1>2. DOMAIN t = 1..Len(t) /\ Len(t) \in Nat /\ DOMAIN t = 1..n
  BY <1>1, LenProperties
<1>3. Cardinality(1..n) = n /\ Cardinality(1..Len(t)) = Len(t)
  BY <1>2, UpToCounts
<1>4. QED BY <1>1, <1>2, <1>3

\* The elements of a set of naturals below w.
Below(S, w) == {v \in S : v < w}

\* Fewer elements of a finite set lie below one of them than it has.
LEMMA BelowCounts ==
  ASSUME NEW S \in SUBSET Nat, IsFiniteSet(S), NEW w \in S
  PROVE  IsFiniteSet(Below(S, w)) /\ Cardinality(Below(S, w)) \in 0..Cardinality(S) - 1
<1>1. Below(S, w) \subseteq S \ {w} /\ IsFiniteSet(S \ {w}) /\ Cardinality(S \ {w}) = Cardinality(S) - 1
  BY FS_RemoveElement DEF Below
<1>2. IsFiniteSet(Below(S, w)) /\ Cardinality(Below(S, w)) <= Cardinality(S) - 1
  BY <1>1, FS_Subset
<1>3. QED BY <1>2, FS_CardinalityType

\* A greater element has more of them below it.
LEMMA BelowGrows ==
  ASSUME NEW S \in SUBSET Nat, IsFiniteSet(S), NEW v \in S, NEW w \in S, v < w
  PROVE  Cardinality(Below(S, v)) < Cardinality(Below(S, w))
<1>1. IsFiniteSet(Below(S, w)) /\ Cardinality(Below(S, w)) \in Nat /\ Cardinality(Below(S, v)) \in Nat
  BY BelowCounts
<1>2. Below(S, v) \subseteq Below(S, w) /\ v \in Below(S, w) /\ v \notin Below(S, v)
  <2>1. \A x \in S : x < v => x < w
    OBVIOUS
  <2>2. ~ (v < v)
    OBVIOUS
  <2>3. QED BY <2>1, <2>2, Zenon DEF Below
<1>3. QED BY <1>1, <1>2, FS_Subset

\* Sorted lists the set, and each element follows those below it.
LEMMA SortedLists ==
  ASSUME NEW S \in SUBSET Nat, IsFiniteSet(S)
  PROVE  /\ Sorted(S) \in [1..Cardinality(S) -> S] /\ Cardinality(S) \in Nat
         /\ \A k \in 1..Cardinality(S) : Cardinality(Below(S, Sorted(S)[k])) = k - 1
         /\ \A w \in S : \E k \in 1..Cardinality(S) : Sorted(S)[k] = w
         /\ \A i, j \in 1..Cardinality(S) : Sorted(S)[i] = Sorted(S)[j] => i = j
<1> DEFINE c == Cardinality(S)
           below == [w \in S |-> Cardinality(Below(S, w)) + 1]
<1>0. c \in Nat
  BY FS_CardinalityType
<1>1. below \in [S -> 1..c]
  BY <1>0, BelowCounts
<1>2. \A v, w \in S : below[v] = below[w] => v = w
  <2>1. ASSUME NEW v \in S, NEW w \in S, v < w PROVE below[v] < below[w]
    BY <2>1, BelowGrows, BelowCounts
  <2>2. \A v, w \in S : v < w \/ w < v \/ v = w
    OBVIOUS
  <2> HIDE DEF below
  <2>3. \A v \in S : below[v] \in Int
    BY <1>1
  <2>4. QED BY <2>1, <2>2, <2>3
<1>3. \A k \in 1..c : \E w \in S : below[w] = k
  <2>1. IsFiniteSet(1..c) /\ Cardinality(1..c) = c
    BY <1>0, UpToCounts
  <2>2. below \in Injection(S, 1..c)
    <3> HIDE DEF below
    <3>1. QED BY <1>1, <1>2 DEF Injection, IsInjective
  <2>3. below \in Surjection(S, 1..c)
    <3> HIDE DEF below
    <3>1. QED BY <2>1, <2>2, FS_Injection
  <2>4. QED BY <2>3 DEF Surjection
<1>4. \A w \in S : below[w] - 1 = Cardinality(Below(S, w)) /\ Cardinality(Below(S, w)) \in Nat
  BY BelowCounts
<1>5. ASSUME NEW k \in 1..c PROVE Sorted(S)[k] \in S /\ Cardinality(Below(S, Sorted(S)[k])) = k - 1
  <2>1. \E w \in S : Cardinality(Below(S, w)) = k - 1
    BY <1>3, <1>4
  <2>2. QED BY <2>1 DEF Sorted, Below
<1>6. Sorted(S) \in [1..c -> S]
  <2> DEFINE nth(k) == CHOOSE w \in S : Cardinality({v \in S : v < w}) = k - 1
  <2>0. Sorted(S) = [k \in 1..c |-> nth(k)]
    BY DEF Sorted
  <2> HIDE DEF nth
  <2>1. Sorted(S) = [k \in 1..c |-> Sorted(S)[k]]
    BY <2>0
  <2>2. QED BY <1>5, <2>1
<1>7. ASSUME NEW w \in S PROVE \E k \in 1..c : Sorted(S)[k] = w
  <2>1. below[w] \in 1..c
    BY <1>1
  <2>2. Sorted(S)[below[w]] \in S /\ below[Sorted(S)[below[w]]] = below[w]
    BY <1>4, <1>5, <2>1
  <2>3. QED BY <1>2, <2>1, <2>2
<1>8. \A i, j \in 1..c : Sorted(S)[i] = Sorted(S)[j] => i = j
  <2>1. \A i, j \in 1..c : i - 1 = j - 1 => i = j
    OBVIOUS
  <2>2. QED BY <1>5, <2>1
<1>9. QED BY <1>0, <1>5, <1>6, <1>7, <1>8

\* Kept takes the elements at the places asked for and no other.
LEMMA KeptElements ==
  ASSUME NEW n \in Nat, NEW s, DOMAIN s = 1..n, NEW P \in SUBSET (1..n)
  PROVE  /\ IsFiniteSet(P) /\ Cardinality(P) \in Nat
         /\ DOMAIN Kept(s, P) = 1..Cardinality(P)
         /\ \A k \in 1..Cardinality(P) : Sorted(P)[k] \in P /\ Kept(s, P)[k] = s[Sorted(P)[k]]
         /\ \A i \in P : \E k \in 1..Cardinality(P) : Sorted(P)[k] = i
         /\ Range(Kept(s, P)) = {s[i] : i \in P}
<1>1. IsFiniteSet(P) /\ P \in SUBSET Nat
  <2>1. IsFiniteSet(1..n) /\ 1..n \subseteq Nat
    BY UpToCounts
  <2>2. QED BY <2>1, FS_Subset
<1>2. /\ Sorted(P) \in [1..Cardinality(P) -> P] /\ Cardinality(P) \in Nat
      /\ \A i \in P : \E k \in 1..Cardinality(P) : Sorted(P)[k] = i
  BY <1>1, SortedLists
<1>3. Kept(s, P) = [k \in 1..Cardinality(P) |-> s[Sorted(P)[k]]]
  BY DEF Kept
<1>4. \A k \in 1..Cardinality(P) : Sorted(P)[k] \in P /\ Kept(s, P)[k] = s[Sorted(P)[k]]
  BY <1>2, <1>3
<1>5. DOMAIN Kept(s, P) = 1..Cardinality(P)
  BY <1>3
<1>6. Range(Kept(s, P)) = {s[i] : i \in P}
  BY <1>2, <1>4, <1>5 DEF Range
<1>7. QED BY <1>1, <1>2, <1>4, <1>5, <1>6

\* FlattenSeq appends one sequence after the other.
LEMMA FlattenSteps ==
  ASSUME NEW S, NEW seqs \in Seq(Seq(S)), Len(seqs) # 0
  PROVE  \E f \in [1..Len(seqs) -> Seq(S)] :
           /\ f[1] = seqs[1] /\ \A i \in 2..Len(seqs) : f[i] = f[i - 1] \o seqs[i]
           /\ FlattenSeq(seqs) = f[Len(seqs)]
<1> DEFINE n == Len(seqs)
           V == Seq(S)
           step == [i \in 1..n |-> [v \in V |-> v \o seqs[i]]]
           Flattens(f) == f = [i \in 1..n |-> IF i = 1 THEN seqs[i] ELSE f[i - 1] \o seqs[i]]
<1>1. n \in Nat \ {0} /\ \A i \in 1..n : seqs[i] \in V
  OBVIOUS
<1>2. \A i \in 1..n, v \in V : step[i][v] = v \o seqs[i] /\ v \o seqs[i] \in V
  BY <1>1, ConcatProperties
<1>3. <<>> \in V
  OBVIOUS
<1>4. PICK g : Stepped(g, n, V, <<>>, step)
  <2>1. Closed(step, n, V)
    BY <1>2 DEF Closed
  <2> HIDE DEF n, V, step
  <2>2. n \in Nat
    BY <1>1
  <2>3. QED BY <1>3, <2>1, <2>2, StepsExist
<1>5. \A i \in 1..n : i \in 0..n /\ i - 1 \in 0..n /\ g[i] \in V /\ g[i - 1] \in V
  <2>1. \A i \in 1..n : i \in 0..n /\ i - 1 \in 0..n
    OBVIOUS
  <2> HIDE DEF n, V, step
  <2>2. QED BY <1>4, <2>1 DEF Stepped
<1>6. \A i \in 1..n : g[i] = g[i - 1] \o seqs[i]
  <2> HIDE DEF n, V, step
  <2>1. QED BY <1>2, <1>4, <1>5 DEF Stepped
<1> DEFINE h == [i \in 1..n |-> g[i]]
<1>7. h \in [1..n -> V] /\ \A i \in 1..n : h[i] = g[i]
  BY <1>5
<1>8. h[1] = seqs[1]
  <2>1. 1 \in 1..n /\ seqs[1] \in Seq(S)
    BY <1>1
  <2>2. h[1] = <<>> \o seqs[1]
    <3>1. h[1] = g[1] /\ g[1] = g[1 - 1] \o seqs[1]
      <4> HIDE DEF n, V, h
      <4>1. QED BY <1>6, <1>7, <2>1
    <3>2. 1 - 1 = 0
      OBVIOUS
    <3>3. QED BY <1>4, <3>1, <3>2 DEF Stepped
  <2>3. QED BY <2>1, <2>2, ConcatEmptySeq
<1>9. \A i \in 2..n : h[i] = h[i - 1] \o seqs[i]
  <2>1. \A i \in 2..n : i \in 1..n /\ i - 1 \in 1..n
    OBVIOUS
  <2> HIDE DEF n, V, h
  <2>2. QED BY <1>6, <1>7, <2>1
<1>10. Flattens(h)
  <2>1. \A i \in 1..n : h[i] = IF i = 1 THEN seqs[i] ELSE h[i - 1] \o seqs[i]
    <3>1. \A i \in 1..n : i = 1 \/ i \in 2..n
      OBVIOUS
    <3> HIDE DEF n, V, h
    <3>2. QED BY <1>8, <1>9, <3>1
  <2>2. h = [i \in 1..n |-> h[i]]
    OBVIOUS
  <2> HIDE DEF n, V, h
  <2>3. QED BY <2>1, <2>2
<1> DEFINE c == CHOOSE f : Flattens(f)
<1>11. Flattens(c)
  <2> HIDE DEF h, Flattens
  <2>1. QED BY <1>10
<1>12. FlattenSeq(seqs) = c[n]
  BY DEF FlattenSeq
<1> HIDE DEF c
<1>13. c[1] = seqs[1] /\ \A i \in 2..n : c[i] = c[i - 1] \o seqs[i]
  <2>1. \A i \in 1..n : c[i] = IF i = 1 THEN seqs[i] ELSE c[i - 1] \o seqs[i]
    BY <1>11
  <2>2. 1 \in 1..n /\ \A i \in 2..n : i \in 1..n /\ i # 1
    BY <1>1
  <2>3. QED BY <2>1, <2>2
<1>14. \A i \in 1..n : c[i] \in V
  <2> DEFINE A == {i \in Nat : i + 1 \in 1..n => c[i + 1] \in V}
  <2>1. 0 \in A
    BY <1>1, <1>13
  <2>2. ASSUME NEW i \in Nat, i \in A PROVE i + 1 \in A
    <3>1. CASE (i + 1) + 1 \in 1..n
      <4>1. i + 1 \in 1..n /\ (i + 1) + 1 \in 2..n /\ ((i + 1) + 1) - 1 = i + 1
        BY <3>1
      <4>2. c[i + 1] \in Seq(S) /\ seqs[(i + 1) + 1] \in Seq(S)
        BY <1>1, <2>2, <3>1, <4>1
      <4>3. c[(i + 1) + 1] = c[i + 1] \o seqs[(i + 1) + 1]
        BY <1>13, <4>1
      <4>4. c[i + 1] \o seqs[(i + 1) + 1] \in Seq(S)
        BY <4>2, ConcatProperties
      <4>5. c[(i + 1) + 1] \in V
        BY <4>3, <4>4
      <4>6. QED BY <4>5
    <3>2. CASE (i + 1) + 1 \notin 1..n
      BY <3>2
    <3>3. QED BY <3>1, <3>2
  <2>3. Nat \subseteq A
    <3> HIDE DEF A
    <3>1. QED BY <2>1, <2>2, SetInduction
  <2>4. \A i \in 1..n : i - 1 \in Nat /\ (i - 1) + 1 = i
    OBVIOUS
  <2>5. QED BY <2>3, <2>4
<1>15. c = [i \in 1..n |-> c[i]]
  BY <1>11
<1>16. c \in [1..n -> V]
  <2> HIDE DEF n, V
  <2>1. QED BY <1>14, <1>15
<1>17. QED BY <1>12, <1>13, <1>16

\* Sequences flattened make a sequence.
LEMMA FlattenedIsSeq ==
  ASSUME NEW S, NEW seqs \in Seq(Seq(S))
  PROVE  FlattenSeq(seqs) \in Seq(S)
<1>1. CASE Len(seqs) = 0
  <2>1. FlattenSeq(seqs) = seqs /\ seqs = <<>>
    BY <1>1, EmptySeq DEF FlattenSeq
  <2>2. QED BY <2>1
<1>2. CASE Len(seqs) # 0
  <2>1. PICK f \in [1..Len(seqs) -> Seq(S)] : FlattenSeq(seqs) = f[Len(seqs)]
    BY <1>2, FlattenSteps
  <2>2. Len(seqs) \in 1..Len(seqs)
    BY <1>2
  <2>3. QED BY <2>1, <2>2
<1>3. QED BY <1>1, <1>2

\* Pairs flattened: the first of each pair, then the second.
LEMMA PairsFlatten ==
  ASSUME NEW S, NEW pairs \in Seq(S \X S)
  PROVE  /\ FlattenSeq(pairs) \in Seq(S) /\ Len(FlattenSeq(pairs)) = 2 * Len(pairs)
         /\ \A j \in 1..Len(pairs) : /\ FlattenSeq(pairs)[2 * j - 1] = pairs[j][1]
                                     /\ FlattenSeq(pairs)[2 * j] = pairs[j][2]
<1> DEFINE n == Len(pairs)
<1>0. n \in Nat
  OBVIOUS
<1>1. ASSUME NEW p \in S \X S
      PROVE  p \in Seq(S) /\ Len(p) = 2 /\ p[1] \in S /\ p[2] \in S
  <2>1. PICK a \in S, b \in S : p = <<a, b>>
    OBVIOUS
  <2>2. QED BY <2>1
<1>2. pairs \in Seq(Seq(S)) /\ \A i \in 1..n : pairs[i] \in S \X S
  <2>1. pairs \in [1..n -> S \X S]
    OBVIOUS
  <2>2. pairs \in [1..n -> Seq(S)]
    BY <1>1, <2>1
  <2>3. pairs \in Seq(Seq(S))
    <3> HIDE DEF n
    <3>1. QED BY <1>0, <2>2, SeqDef
  <2>4. QED BY <2>1, <2>3
<1>3. CASE n = 0
  <2>1. FlattenSeq(pairs) = pairs /\ pairs = <<>>
    BY <1>3, EmptySeq DEF FlattenSeq
  <2>2. QED BY <1>3, <2>1
<1>4. CASE n # 0
  <2>1. PICK f \in [1..n -> Seq(S)] :
          /\ f[1] = pairs[1] /\ \A i \in 2..n : f[i] = f[i - 1] \o pairs[i]
          /\ FlattenSeq(pairs) = f[n]
    BY <1>2, <1>4, FlattenSteps
  <2> DEFINE Good(i) == /\ Len(f[i]) = 2 * i
                        /\ \A j \in 1..i : f[i][2 * j - 1] = pairs[j][1] /\ f[i][2 * j] = pairs[j][2]
             A == {i \in Nat : i + 1 \in 1..n => Good(i + 1)}
  <2>2. 0 \in A
    <3>1. 1 \in 1..n /\ Len(pairs[1]) = 2
      BY <1>0, <1>1, <1>2, <1>4
    <3>2. Good(1)
      BY <2>1, <3>1
    <3>3. QED BY <3>2
  <2>3. ASSUME NEW i \in Nat, i \in A, (i + 1) + 1 \in 1..n PROVE Good((i + 1) + 1)
    <3> DEFINE k == i + 1
    <3>1. k \in 1..n /\ k + 1 \in 2..n /\ k + 1 \in 1..n /\ (k + 1) - 1 = k
      BY <2>3
    <3> HIDE DEF Good
    <3>2. Good(k)
      BY <2>3, <3>1
    <3>3. f[k] \in Seq(S) /\ pairs[k + 1] \in Seq(S) /\ Len(pairs[k + 1]) = 2 /\ f[k + 1] = f[k] \o pairs[k + 1]
      <4>1. pairs[k + 1] \in S \X S /\ f[k] \in Seq(S) /\ f[k + 1] = f[k] \o pairs[k + 1]
        BY <1>2, <2>1, <3>1
      <4>2. QED BY <1>1, <4>1
    <3>4. k \in Nat /\ Len(f[k]) = 2 * k
      BY <3>2 DEF Good
    <3> HIDE DEF k
    <3>5. /\ Len(f[k + 1]) = 2 * k + 2
          /\ \A m \in 1..2 * k + 2 :
               f[k + 1][m] = IF m <= 2 * k THEN f[k][m] ELSE pairs[k + 1][m - 2 * k]
      <4> DEFINE s == f[k]
                 t == pairs[k + 1]
      <4>1. s \in Seq(S) /\ t \in Seq(S) /\ Len(s) = 2 * k /\ Len(t) = 2
        BY <3>3, <3>4
      <4> HIDE DEF s, t
      <4>2. /\ Len(s \o t) = Len(s) + Len(t)
            /\ \A m \in 1..Len(s) + Len(t) : (s \o t)[m] = IF m <= Len(s) THEN s[m] ELSE t[m - Len(s)]
        BY <4>1, ConcatProperties
      <4>3. f[k + 1] = s \o t
        BY <3>3 DEF s, t
      <4>4. /\ Len(f[k + 1]) = 2 * k + 2
            /\ \A m \in 1..2 * k + 2 : f[k + 1][m] = IF m <= 2 * k THEN s[m] ELSE t[m - 2 * k]
        BY <4>1, <4>2, <4>3
      <4>5. QED BY <4>4 DEF s, t
    <3>6. ASSUME NEW j \in 1..k + 1
          PROVE  f[k + 1][2 * j - 1] = pairs[j][1] /\ f[k + 1][2 * j] = pairs[j][2]
      <4>1. CASE j = k + 1
        <5>1. 2 * j - 1 \in 1..2 * k + 2 /\ 2 * j \in 1..2 * k + 2 /\ ~(2 * j - 1 <= 2 * k) /\ ~(2 * j <= 2 * k)
              /\ (2 * j - 1) - 2 * k = 1 /\ 2 * j - 2 * k = 2
          BY <3>4, <4>1
        <5>2. QED BY <3>5, <4>1, <5>1
      <4>2. CASE j # k + 1
        <5>1. j \in 1..k /\ 2 * j - 1 \in 1..2 * k + 2 /\ 2 * j \in 1..2 * k + 2
              /\ 2 * j - 1 <= 2 * k /\ 2 * j <= 2 * k
          BY <3>4, <4>2
        <5>2. f[k][2 * j - 1] = pairs[j][1] /\ f[k][2 * j] = pairs[j][2]
          BY <3>2, <5>1 DEF Good
        <5>3. QED BY <3>5, <5>1, <5>2
      <4>3. QED BY <4>1, <4>2
    <3>7. 2 * k + 2 = 2 * (k + 1)
      BY <3>4
    <3>8. Good(k + 1)
      BY <3>5, <3>6, <3>7 DEF Good
    <3>9. QED BY <3>8 DEF k
  <2> HIDE DEF Good
  <2>4. Nat \subseteq A
    <3>1. \A i \in Nat : i \in A => i + 1 \in A
      BY <2>3
    <3> HIDE DEF A
    <3>2. QED BY <2>2, <3>1, SetInduction
  <2>5. Good(n)
    <3>1. n - 1 \in Nat /\ (n - 1) + 1 = n /\ n \in 1..n
      BY <1>0, <1>4
    <3>2. n - 1 \in A
      BY <2>4, <3>1
    <3>3. QED BY <3>1, <3>2
  <2>6. f[n] \in Seq(S)
    BY <1>0, <1>4, <2>1
  <2>7. QED BY <2>1, <2>5, <2>6 DEF Good
<1>5. QED BY <1>3, <1>4

\* The sum over a single row of the scheme.
LEMMA SumOfOneRow ==
  ASSUME NEW x
  PROVE  SumOver({x}, LAMBDA i : ExpectedJoint[i][3]) = ExpectedJoint[x][3] + 0
<1> DEFINE f(i) == ExpectedJoint[i][3]
           chosen(s) == CHOOSE y \in s : TRUE
           Sums(g) == g = [s \in SUBSET {x} |-> IF s = {} THEN 0 ELSE f(chosen(s)) + g[s \ {chosen(s)}]]
           h == [s \in SUBSET {x} |-> IF s = {} THEN 0 ELSE f(x) + 0]
<1>1. \A s \in SUBSET {x} : s = {} \/ s = {x}
  OBVIOUS
<1>2. chosen({x}) = x /\ {x} \ {x} = {} /\ {x} # {}
  OBVIOUS
<1>3. {} \in SUBSET {x} /\ {x} \in SUBSET {x}
  OBVIOUS
<1> HIDE DEF f, chosen
<1>4. h[{}] = 0 /\ h[{x}] = f(x) + 0
  BY <1>2, <1>3
<1>5. Sums(h)
  <2>1. h = [s \in SUBSET {x} |-> h[s]]
    OBVIOUS
  <2>2. ASSUME NEW s \in SUBSET {x}
        PROVE  h[s] = IF s = {} THEN 0 ELSE f(chosen(s)) + h[s \ {chosen(s)}]
    <3>1. CASE s = {}
      BY <3>1
    <3>2. CASE s = {x}
      <4> HIDE DEF h
      <4>1. s \ {chosen(s)} = {} /\ chosen(s) = x
        BY <1>2, <3>2
      <4>2. QED BY <1>2, <1>4, <3>2, <4>1
    <3>3. QED BY <1>1, <3>1, <3>2
  <2> HIDE DEF h
  <2>3. QED BY <2>1, <2>2
<1> DEFINE c == CHOOSE g : Sums(g)
<1>6. Sums(c)
  <2> HIDE DEF h, Sums
  <2>1. QED BY <1>5
<1>7. SumOver({x}, LAMBDA i : ExpectedJoint[i][3]) = c[{x}]
  BY DEF SumOver, FoldSet, MapThenFoldSet, f, chosen
<1> HIDE DEF c
<1>8. c[{}] = 0
  BY <1>3, <1>6
<1>9. c[{x}] = f(chosen({x})) + c[{x} \ {chosen({x})}]
  BY <1>2, <1>3, <1>6
<1>10. c[{x}] = f(x) + 0
  BY <1>2, <1>8, <1>9
<1>11. QED BY <1>7, <1>10 DEF f

-----------------------------------------------------------------------------
(***************************************************************************)
(* Balanced pairs                                                          *)
(***************************************************************************)

\* A word that is left has a nearest one among those left.
LEMMA NearestIsOpen ==
  ASSUME NEW D, NEW f \in [D -> Int], NEW u \in D, NEW open \in SUBSET (D \cap Nat), open # {}
  PROVE  Nearest(f, u, open) \in open
<1> DEFINE d(x) == Distance(f, u, x)
           S == {d(x) : x \in open}
<1>1. \A x \in open : d(x) \in Nat
  <2>1. \A x \in open : f[x] \in Int /\ f[u] \in Int
    OBVIOUS
  <2>2. QED BY <2>1 DEF Distance
<1> HIDE DEF d
<1>2. PICK m \in S : \A n \in S : m <= n
  <2>1. S \in SUBSET Nat /\ S # {}
    BY <1>1
  <2> HIDE DEF S
  <2>2. QED BY <2>1, LeastExists
<1> DEFINE T == {x \in open : d(x) = m}
<1>3. T # {} /\ T \in SUBSET Nat
  OBVIOUS
<1>4. PICK v \in T : \A x \in T : v <= x
  BY <1>3, LeastExists
<1>5. ASSUME NEW x \in open
      PROVE  d(v) < d(x) \/ (d(v) = d(x) /\ v <= x)
  <2>1. d(v) = m /\ d(x) \in Nat /\ d(v) \in Nat /\ m <= d(x)
    BY <1>1, <1>2
  <2>2. QED BY <1>4, <2>1
<1>6. \E w \in open : \A x \in open :
         Distance(f, u, w) < Distance(f, u, x) \/ (Distance(f, u, w) = Distance(f, u, x) /\ w <= x)
  BY <1>5 DEF d
<1>7. QED BY <1>6 DEF Nearest

\* What is matched is a treated word with one of its controls, and no more
\* pairs are made than there are treated words.
LEMMA MatchedPairs ==
  ASSUME NEW M \in SUBSET Nat, NEW F \in SUBSET Nat, Logit(M, F) \in [M \cup F -> Int],
         NEW treatment \in Seq(M), NEW control \in Seq(F),
         Range(treatment) = M, Range(control) = F
  PROVE  /\ PropensityScoreMatch(treatment, control) \in Seq(M \X F)
         /\ Len(PropensityScoreMatch(treatment, control)) <= Len(treatment)
<1> DEFINE f == Logit(Range(treatment), Range(control))
           treatedFirst == Len(treatment) <= Len(control)
           minority == IF treatedFirst THEN treatment ELSE control
           majority == IF treatedFirst THEN control ELSE treatment
           open(matched, u) == {v \in Range(majority) \ matched.taken : WithinCaliper(f, u, v)}
           pair(u, v) == IF treatedFirst THEN <<u, v>> ELSE <<v, u>>
           take(matched, u) ==
             IF open(matched, u) = {} THEN matched
             ELSE [taken |-> matched.taken \cup {Nearest(f, u, open(matched, u))},
                   pairs |-> Append(matched.pairs, pair(u, Nearest(f, u, open(matched, u))))]
           start == [taken |-> {}, pairs |-> <<>>]
           n == Len(minority)
           Takes(g) == g = [i \in 0..n |-> IF i = 0 THEN start ELSE take(g[i - 1], minority[i])]
           after == CHOOSE g : Takes(g)
           V == [taken : SUBSET Nat, pairs : Seq(M \X F)]
           step == [i \in 1..n |-> [m \in V |-> take(m, minority[i])]]
<1>1. PropensityScoreMatch(treatment, control) = IF minority = <<>> THEN <<>> ELSE after[n].pairs
  BY DEF PropensityScoreMatch
<1>2. f \in [M \cup F -> Int]
  OBVIOUS
<1>3. \/ Range(majority) = F /\ n \in Nat /\ \A i \in 1..n, v \in F : pair(minority[i], v) \in M \X F
      \/ Range(majority) = M /\ n \in Nat /\ \A i \in 1..n, v \in M : pair(minority[i], v) \in M \X F
  <2>1. /\ Len(treatment) \in Nat /\ Len(control) \in Nat
        /\ \A i \in 1..Len(treatment) : treatment[i] \in M
        /\ \A i \in 1..Len(control) : control[i] \in F
    OBVIOUS
  <2>2. CASE treatedFirst
    BY <2>1, <2>2
  <2>3. CASE ~treatedFirst
    BY <2>1, <2>3
  <2>4. QED BY <2>2, <2>3
<1>4. n \in Nat /\ n <= Len(treatment) /\ Len(treatment) \in Nat /\ \A i \in 1..n : minority[i] \in M \cup F
  <2>1. /\ Len(treatment) \in Nat /\ Len(control) \in Nat
        /\ \A i \in 1..Len(treatment) : treatment[i] \in M
        /\ \A i \in 1..Len(control) : control[i] \in F
    OBVIOUS
  <2>2. CASE treatedFirst
    BY <2>1, <2>2
  <2>3. CASE ~treatedFirst
    BY <2>1, <2>3
  <2>4. QED BY <2>2, <2>3
<1> HIDE DEF f, minority, majority, n, pair
<1>5. start \in V /\ Len(start.pairs) = 0
  BY EmptySeq
<1>6. ASSUME NEW i \in 1..n, NEW m \in V
      PROVE  take(m, minority[i]) \in V /\ Len(take(m, minority[i]).pairs) <= Len(m.pairs) + 1
  <2> DEFINE u == minority[i]
             o == open(m, u)
             v == Nearest(f, u, o)
  <2>1. CASE o = {}
    <3>1. take(m, u) = m /\ Len(m.pairs) \in Nat
      BY <2>1
    <3>2. QED BY <3>1
  <2>2. CASE o # {}
    <3>1. u \in M \cup F
      BY <1>4
    <3>2. o \subseteq Range(majority) /\ Range(majority) \subseteq M \cup F
      BY <1>3
    <3>3. o \in SUBSET ((M \cup F) \cap Nat)
      BY <3>2
    <3> HIDE DEF o, u
    <3>4. v \in o
      BY <1>2, <2>2, <3>1, <3>3, NearestIsOpen
    <3>5. pair(u, v) \in M \X F /\ v \in Nat
      BY <1>3, <3>2, <3>3, <3>4 DEF u
    <3> HIDE DEF v
    <3>6. /\ Append(m.pairs, pair(u, v)) \in Seq(M \X F) /\ m.taken \cup {v} \in SUBSET Nat
          /\ Len(Append(m.pairs, pair(u, v))) = Len(m.pairs) + 1 /\ Len(m.pairs) \in Nat
      BY <3>5, AppendProperties
    <3> DEFINE t == [taken |-> m.taken \cup {v}, pairs |-> Append(m.pairs, pair(u, v))]
    <3>7. t \in V /\ Len(t.pairs) <= Len(m.pairs) + 1
      BY <3>6
    <3>8. take(m, u) = t
      BY <2>2 DEF o, u, v
    <3> HIDE DEF t
    <3>9. QED BY <3>7, <3>8 DEF u
  <2>3. QED BY <2>1, <2>2
<1> HIDE DEF take, start
<1>7. \A i \in 1..n, m \in V : step[i][m] = take(m, minority[i]) /\ step[i][m] \in V
  BY <1>6
<1>8. PICK g : Stepped(g, n, V, start, step)
  <2>1. Closed(step, n, V)
    BY <1>7 DEF Closed
  <2> HIDE DEF V, step
  <2>2. QED BY <1>4, <1>5, <2>1, StepsExist
<1>9. g \in [0..n -> V] /\ g[0] = start
  BY <1>8 DEF Stepped
<1>10. \A i \in 1..n : g[i] = take(g[i - 1], minority[i])
  <2>1. \A i \in 1..n : i - 1 \in 0..n
    BY <1>4
  <2> HIDE DEF V, step
  <2>2. \A i \in 1..n : g[i - 1] \in V
    BY <1>9, <2>1
  <2>3. QED BY <1>7, <1>8, <2>2 DEF Stepped
<1>11. Takes(g)
  <2>1. \A i \in 0..n : i = 0 \/ i \in 1..n
    BY <1>4
  <2>2. g = [i \in 0..n |-> g[i]]
    BY <1>9
  <2> HIDE DEF V, step
  <2>3. \A i \in 0..n : g[i] = IF i = 0 THEN start ELSE take(g[i - 1], minority[i])
    BY <1>9, <1>10, <2>1
  <2>4. QED BY <2>2, <2>3
<1>12. Takes(after)
  <2> HIDE DEF Takes
  <2>1. QED BY <1>11
<1> HIDE DEF after
<1>13. after[0] = start /\ \A i \in 1..n : after[i] = take(after[i - 1], minority[i])
  <2>1. \A i \in 0..n : after[i] = IF i = 0 THEN start ELSE take(after[i - 1], minority[i])
    BY <1>12
  <2>2. 0 \in 0..n /\ \A i \in 1..n : i \in 0..n /\ i # 0
    BY <1>4
  <2>3. QED BY <2>1, <2>2
<1>14. after[n] \in V /\ Len(after[n].pairs) <= n
  <2> DEFINE A == {i \in Nat : i \in 0..n => after[i] \in V /\ Len(after[i].pairs) <= i}
  <2>1. 0 \in A
    BY <1>5, <1>13
  <2>2. ASSUME NEW i \in Nat, i \in A PROVE i + 1 \in A
    <3>1. CASE i + 1 \in 0..n
      <4>1. i \in 0..n /\ i + 1 \in 1..n /\ (i + 1) - 1 = i
        BY <3>1, <1>4
      <4> HIDE DEF V
      <4>2. /\ after[i] \in V /\ Len(after[i].pairs) <= i
            /\ after[i + 1] = take(after[i], minority[i + 1])
        BY <1>13, <2>2, <4>1
      <4>3. after[i + 1] \in V /\ Len(after[i + 1].pairs) <= Len(after[i].pairs) + 1
        BY <1>6, <4>1, <4>2
      <4>4. Len(after[i].pairs) \in Nat /\ Len(after[i + 1].pairs) \in Nat
        BY <4>2, <4>3 DEF V
      <4>5. QED BY <4>2, <4>3, <4>4
    <3>2. QED BY <3>1
  <2>3. Nat \subseteq A
    <3> HIDE DEF A
    <3>1. QED BY <2>1, <2>2, SetInduction
  <2>4. n \in A /\ n \in 0..n
    BY <1>4, <2>3
  <2>5. QED BY <2>4
<1>15. after[n].pairs \in Seq(M \X F) /\ Len(after[n].pairs) <= Len(treatment)
  <2>1. after[n].pairs \in Seq(M \X F) /\ Len(after[n].pairs) \in Nat
    BY <1>14
  <2>2. QED BY <1>4, <1>14, <2>1
<1>16. <<>> \in Seq(M \X F) /\ Len(<<>>) <= Len(treatment)
  BY <1>4, EmptySeq
<1>17. QED BY <1>1, <1>15, <1>16

-----------------------------------------------------------------------------
(***************************************************************************)
(* The words that are loaded                                               *)
(***************************************************************************)

ControlPoles == Poles \ {TreatmentPole}
ListedAs(spec, genders) == {r.word : r \in {s \in ListedRows : s.spec = spec /\ s.gender \in genders}}

\* What a board relies on of the words it is made of.
WellLoaded(words) ==
  /\ Texts(words) \in SUBSET Nat /\ IsFiniteSet(Texts(words))
  /\ Cardinality(Texts(words)) <= Cardinality(Rows) /\ Cardinality(Rows) \in Nat
  /\ \A v, w \in words : v.text = w.text => v = w
  /\ \A w \in words : w.gender \in Genders /\ (w.gender = "neutral" => w.spec = NoSpec)
  /\ \A w \in words, spec \in SpecSet : w.spec = spec => w.text \in ListedAs(spec, {w.gender})

\* load_words yields a word per text, the gender of a neutral one without a
\* specification, a gendered one listed under it.
LEMMA LoadedWords ==
  ASSUME NEW rows \in SUBSET Rows, Loads(rows)
  PROVE  WellLoaded(LoadWords(rows))
<1> DEFINE words == LoadWords(rows)
           playable == {s \in rows : Playability(s.word, s.kind) = "playable"}
<1>1. words = {Merged(rows, r.word) : r \in playable}
  BY DEF LoadWords
<1>2. ASSUME NEW t \in rows
      PROVE  /\ Merged(rows, t.word).text = t.word
             /\ \E r \in rows : /\ r.word = t.word /\ Merged(rows, t.word).gender = r.gender
                                /\ Merged(rows, t.word).spec = r.spec
  <2> DEFINE r == CHOOSE s \in rows : s.word = t.word
  <2>1. r \in rows /\ r.word = t.word
    OBVIOUS
  <2>2. /\ Merged(rows, t.word).text = t.word /\ Merged(rows, t.word).gender = r.gender
        /\ Merged(rows, t.word).spec = r.spec
    BY DEF Merged
  <2> HIDE DEF r
  <2>3. QED BY <2>1, <2>2
<1>3. ASSUME NEW w \in words
      PROVE  /\ w = Merged(rows, w.text) /\ w.text \in Nat
             /\ \E r \in rows : r.word = w.text /\ w.gender = r.gender /\ w.spec = r.spec
  <2>1. PICK t \in playable : w = Merged(rows, t.word)
    BY <1>1
  <2>2. t \in rows /\ t.word \in Nat
    BY RowAssumption
  <2>3. QED BY <1>2, <2>1, <2>2
<1>4. Texts(words) = {r.word : r \in playable}
  <2>1. \A r \in playable : Merged(rows, r.word).text = r.word
    BY <1>2
  <2> HIDE DEF playable
  <2>2. QED BY <1>1, <2>1 DEF Texts
<1>5. /\ IsFiniteSet(Texts(words)) /\ Cardinality(Texts(words)) <= Cardinality(Rows)
      /\ Cardinality(Rows) \in Nat
  <2> DEFINE f == [r \in playable |-> r.word]
  <2>1. IsFiniteSet(playable) /\ Cardinality(playable) <= Cardinality(Rows) /\ Cardinality(Rows) \in Nat
    <3>1. playable \subseteq Rows
      OBVIOUS
    <3> HIDE DEF playable
    <3>2. QED BY <3>1, FS_Subset, FS_CardinalityType, RowAssumption
  <2>2. f \in [playable -> Texts(words)] /\ \A t \in Texts(words) : \E r \in playable : f[r] = t
    BY <1>4
  <2> HIDE DEF f, playable, words
  <2>3. IsFiniteSet(Texts(words)) /\ Cardinality(Texts(words)) <= Cardinality(playable)
    BY <2>1, <2>2, SurjectionsCount
  <2>4. Cardinality(playable) \in Nat /\ Cardinality(Texts(words)) \in Nat
    BY <2>1, <2>3, FS_CardinalityType
  <2>5. QED BY <2>1, <2>3, <2>4
<1> HIDE DEF words
<1>6. Texts(words) \in SUBSET Nat
  BY <1>3 DEF Texts
<1>7. \A v, w \in words : v.text = w.text => v = w
  BY <1>3
<1>8. ASSUME NEW w \in words PROVE w.gender \in Genders /\ (w.gender = "neutral" => w.spec = NoSpec)
  <2>1. PICK r \in rows : r.word = w.text /\ w.gender = r.gender /\ w.spec = r.spec
    BY <1>3
  <2>2. r.gender \in Genders /\ (r.gender = "neutral" => r.spec = NoSpec)
    BY RowAssumption DEF Loads, Readable
  <2>3. QED BY <2>1, <2>2
<1>9. ASSUME NEW w \in words, NEW spec \in SpecSet, w.spec = spec PROVE w.text \in ListedAs(spec, {w.gender})
  <2>1. PICK r \in rows : r.word = w.text /\ w.gender = r.gender /\ w.spec = r.spec
    BY <1>3
  <2>2. r \in ListedRows
    <3>1. NoSpec \notin SpecSet
      BY DEF NoSpec, SpecSet, Specifications
    <3>2. \A x \in Deck : NeutralRow(x).spec = NoSpec
      BY DEF NeutralRow
    <3>3. QED BY <1>9, <2>1, <3>1, <3>2 DEF Rows
  <2>3. QED BY <1>9, <2>1, <2>2 DEF ListedAs
<1>10. QED BY <1>5, <1>6, <1>7, <1>8, <1>9 DEF words, WellLoaded

\* A loaded word is the word of its text.
LEMMA WordOfItsText ==
  ASSUME NEW words, WellLoaded(words), NEW w \in words
  PROVE  WordOf(words, w.text) = w
BY DEF WordOf, WellLoaded

\* The words of a specification, by the gender that is treated and the other.
Males(words, spec) == Texts({w \in OfSpec(words, spec) : w.gender = TreatmentPole})
Females(words, spec) == Texts({w \in OfSpec(words, spec) : w.gender # TreatmentPole})

\* run_balancing pairs a male word of the specification with a female one.
LEMMA BalancedPairs ==
  ASSUME NEW words, WellLoaded(words), NEW spec \in SpecSet
  PROVE  /\ RunBalancing(words, spec) \in Seq(Males(words, spec) \X Females(words, spec))
         /\ Len(RunBalancing(words, spec)) <= Cardinality(Rows)
         /\ \A t \in Males(words, spec) : t \in Texts(words) /\ WordOf(words, t).gender = "male"
         /\ \A t \in Females(words, spec) : t \in Texts(words) /\ WordOf(words, t).gender = "female"
<1> DEFINE M == Males(words, spec)
           F == Females(words, spec)
<1>1. M \in SUBSET Texts(words) /\ F \in SUBSET Texts(words)
  BY DEF Males, Females, Texts, OfSpec
<1>2. ASSUME NEW t \in M PROVE WordOf(words, t).gender = "male" /\ t \in ListedAs(spec, {TreatmentPole})
  <2>1. PICK w \in words : w.spec = spec /\ w.gender = TreatmentPole /\ t = w.text
    BY DEF Males, Texts, OfSpec
  <2>2. WordOf(words, t) = w
    BY <2>1, WordOfItsText
  <2>3. t \in ListedAs(spec, {w.gender})
    BY <2>1 DEF WellLoaded
  <2>4. QED BY <2>1, <2>2, <2>3 DEF TreatmentPole
<1>3. ASSUME NEW t \in F PROVE WordOf(words, t).gender = "female" /\ t \in ListedAs(spec, ControlPoles)
  <2>1. PICK w \in words : w.spec = spec /\ w.gender # TreatmentPole /\ t = w.text
    BY DEF Females, Texts, OfSpec
  <2>2. WordOf(words, t) = w
    BY <2>1, WordOfItsText
  <2>3. t \in ListedAs(spec, {w.gender})
    BY <2>1 DEF WellLoaded
  <2>4. w.gender = "female"
    <3>1. w.gender \in Genders /\ (w.gender = "neutral" => w.spec = NoSpec)
      BY DEF WellLoaded
    <3>2. spec # NoSpec
      BY DEF NoSpec, SpecSet, Specifications
    <3>3. QED BY <2>1, <3>1, <3>2 DEF Genders, Poles, TreatmentPole
  <2>5. {w.gender} \subseteq ControlPoles
    BY <2>4 DEF ControlPoles, Poles, TreatmentPole
  <2>6. QED BY <2>2, <2>3, <2>4, <2>5 DEF ListedAs
<1>4. Logit(M, F) \in [M \cup F -> Int]
  <2>1. M \in SUBSET ListedAs(spec, {TreatmentPole}) /\ F \in SUBSET ListedAs(spec, ControlPoles)
    BY <1>2, <1>3
  <2> HIDE DEF M, F
  <2>2. QED BY <2>1, LogitAssumption DEF ListedAs, ControlPoles
<1>5. ASSUME NEW S \in SUBSET Texts(words)
      PROVE  /\ S \in SUBSET Nat /\ Sorted(S) \in Seq(S) /\ Range(Sorted(S)) = S
             /\ Len(Sorted(S)) <= Cardinality(Rows) /\ Len(Sorted(S)) \in Nat
  <2>1. S \in SUBSET Nat /\ IsFiniteSet(S) /\ Cardinality(S) <= Cardinality(Texts(words))
    BY FS_Subset DEF WellLoaded
  <2>2. /\ Sorted(S) \in [1..Cardinality(S) -> S] /\ Cardinality(S) \in Nat
        /\ \A w \in S : \E k \in 1..Cardinality(S) : Sorted(S)[k] = w
    BY <2>1, SortedLists
  <2>3. Sorted(S) \in Seq(S)
    BY <2>2, SeqDef
  <2>4. Len(Sorted(S)) = Cardinality(S)
    BY <2>2, <2>3
  <2>5. Cardinality(Texts(words)) \in Nat /\ Cardinality(Texts(words)) <= Cardinality(Rows)
        /\ Cardinality(Rows) \in Nat
    BY FS_CardinalityType DEF WellLoaded
  <2>6. Range(Sorted(S)) = S
    BY <2>2 DEF Range
  <2>7. Len(Sorted(S)) <= Cardinality(Rows) /\ Len(Sorted(S)) \in Nat
    BY <2>1, <2>2, <2>4, <2>5
  <2>8. QED BY <2>1, <2>3, <2>6, <2>7
<1>6. Treatment(OfSpec(words, spec)) = Sorted(M) /\ Control(OfSpec(words, spec)) = Sorted(F)
  BY DEF Treatment, Control, Males, Females
<1>7. RunBalancing(words, spec) \in Seq(M \X F) /\ Len(RunBalancing(words, spec)) <= Cardinality(Rows)
  <2>1. RunBalancing(words, spec) = PropensityScoreMatch(Sorted(M), Sorted(F))
    BY <1>6 DEF RunBalancing
  <2>2. /\ M \in SUBSET Nat /\ Sorted(M) \in Seq(M) /\ Range(Sorted(M)) = M
        /\ F \in SUBSET Nat /\ Sorted(F) \in Seq(F) /\ Range(Sorted(F)) = F
        /\ Len(Sorted(M)) <= Cardinality(Rows) /\ Len(Sorted(M)) \in Nat
    BY <1>1, <1>5
  <2> HIDE DEF M, F
  <2> DEFINE a == Sorted(M)
             b == Sorted(F)
  <2>3. RunBalancing(words, spec) \in Seq(M \X F) /\ Len(RunBalancing(words, spec)) <= Len(Sorted(M))
    <3>1. /\ M \in SUBSET Nat /\ F \in SUBSET Nat /\ a \in Seq(M) /\ b \in Seq(F)
          /\ Range(a) = M /\ Range(b) = F
      BY <2>2
    <3>2. RunBalancing(words, spec) = PropensityScoreMatch(a, b)
      BY <2>1
    <3> HIDE DEF a, b
    <3>3. PropensityScoreMatch(a, b) \in Seq(M \X F) /\ Len(PropensityScoreMatch(a, b)) <= Len(a)
      BY <1>4, <3>1, MatchedPairs
    <3>4. QED BY <3>2, <3>3 DEF a
  <2>4. Len(RunBalancing(words, spec)) \in Nat /\ Cardinality(Rows) \in Nat
    BY <2>3 DEF WellLoaded
  <2>5. QED BY <2>2, <2>3, <2>4
<1>8. QED BY <1>1, <1>2, <1>3, <1>7

-----------------------------------------------------------------------------
(***************************************************************************)
(* What is dealt                                                           *)
(***************************************************************************)

\* The longest sequence the seeds are asked to deal.
Largest == BoardWordCount + Cardinality(Rows)

\* It is long enough for every list and for every board.
LEMMA LargestIsNatural ==
  /\ Largest \in Nat /\ BoardWordCount \in Nat \ {0} /\ Cardinality(Rows) \in Nat
  /\ BoardWordCount <= Largest /\ Cardinality(Rows) <= Largest
BY FS_CardinalityType, RowAssumption, JointAssumption DEF Largest

\* A sequence dealt holds what it held, each element at one place.
LEMMA ShuffledElements ==
  ASSUME NEW seed \in BankSeeds, NEW use \in Uses, NEW S, NEW s \in Seq(S), Len(s) <= Largest
  PROVE  /\ Shuffled(seed, use, s) \in Seq(S) /\ Len(Shuffled(seed, use, s)) = Len(s)
         /\ Range(Shuffled(seed, use, s)) = Range(s)
         /\ (\A i, j \in 1..Len(s) : s[i] = s[j] => i = j)
              => \A i, j \in 1..Len(s) : Shuffled(seed, use, s)[i] = Shuffled(seed, use, s)[j] => i = j
<1> DEFINE n == Len(s)
           d == Deal(seed, use, n)
           t == Shuffled(seed, use, s)
<1>1. n \in Nat /\ s \in [1..n -> S] /\ DOMAIN s = 1..n
  BY LenProperties
<1>2. d \in [1..n -> 1..n] /\ \A i, j \in 1..n : d[i] = d[j] => i = j
  <2>1. n \in 0..(BoardWordCount + Cardinality(Rows))
    BY <1>1, LargestIsNatural DEF Largest
  <2> HIDE DEF n
  <2>2. QED BY <2>1, DealAssumption
<1>3. t = [i \in 1..n |-> s[d[i]]]
  BY <1>1 DEF Shuffled
<1> HIDE DEF n, d, t
<1>4. \A k \in 1..n : \E i \in 1..n : d[i] = k
  BY <1>1, <1>2, PermutationIsOnto
<1>5. \A i \in 1..n : d[i] \in 1..n
  BY <1>2
<1>6. t \in [1..n -> S]
  BY <1>1, <1>3, <1>5
<1>7. t \in Seq(S) /\ Len(t) = n
  BY <1>1, <1>6, SequenceUpTo
<1>8. Range(t) = Range(s)
  BY <1>1, <1>3, <1>4, <1>5 DEF Range
<1>9. ASSUME \A i, j \in 1..n : s[i] = s[j] => i = j, NEW i \in 1..n, NEW j \in 1..n, t[i] = t[j]
      PROVE  i = j
  BY <1>2, <1>3, <1>5, <1>9
<1>10. QED BY <1>7, <1>8, <1>9 DEF n, t

\* A sample is the beginning of what is dealt.
LEMMA SampledElements ==
  ASSUME NEW seed \in BankSeeds, NEW use \in Uses, NEW S, NEW s \in Seq(S), Len(s) <= Largest,
         NEW k \in 0..Len(s)
  PROVE  /\ Sampled(seed, use, s, k) \in Seq(S) /\ Len(Sampled(seed, use, s, k)) = k
         /\ Range(Sampled(seed, use, s, k)) \subseteq Range(s)
         /\ (\A i, j \in 1..Len(s) : s[i] = s[j] => i = j)
              => \A i, j \in 1..k : Sampled(seed, use, s, k)[i] = Sampled(seed, use, s, k)[j] => i = j
<1> DEFINE t == Shuffled(seed, use, s)
           u == Sampled(seed, use, s, k)
<1>1. /\ t \in Seq(S) /\ Len(t) = Len(s) /\ Range(t) = Range(s)
      /\ (\A i, j \in 1..Len(s) : s[i] = s[j] => i = j)
            => \A i, j \in 1..Len(s) : t[i] = t[j] => i = j
  BY ShuffledElements
<1>2. u = SubSeq(t, 1, k)
  BY DEF Sampled
<1> HIDE DEF t, u
<1>3. u \in Seq(S) /\ Len(u) = k /\ \A i \in 1..k : i \in 1..Len(s) /\ u[i] = t[i]
  BY <1>1, <1>2
<1>4. DOMAIN u = 1..k /\ DOMAIN t = 1..Len(s)
  BY <1>1, <1>3, LenProperties
<1>5. Range(u) \subseteq Range(t)
  BY <1>3, <1>4 DEF Range
<1>6. QED BY <1>1, <1>3, <1>5 DEF t, u

\* The neutral pool in its order for a bank.
LEMMA PoolElements ==
  ASSUME NEW seed \in BankSeeds, NEW N \in SUBSET Nat, IsFiniteSet(N), Cardinality(N) <= Largest
  PROVE  /\ ShuffledNeutralPool(N, seed) \in Seq(N)
         /\ Len(ShuffledNeutralPool(N, seed)) = Cardinality(N) /\ Cardinality(N) \in Nat
         /\ Range(ShuffledNeutralPool(N, seed)) = N
         /\ \A i, j \in 1..Cardinality(N) :
              ShuffledNeutralPool(N, seed)[i] = ShuffledNeutralPool(N, seed)[j] => i = j
<1> DEFINE s == Sorted(N)
<1>1. /\ s \in [1..Cardinality(N) -> N] /\ Cardinality(N) \in Nat
      /\ \A w \in N : \E k \in 1..Cardinality(N) : s[k] = w
      /\ \A i, j \in 1..Cardinality(N) : s[i] = s[j] => i = j
  BY SortedLists
<1> HIDE DEF s
<1>2. s \in Seq(N) /\ Len(s) = Cardinality(N) /\ DOMAIN s = 1..Cardinality(N)
  BY <1>1, SequenceUpTo
<1>3. Len(s) = Cardinality(N) /\ Range(s) = N
  <2>1. \A i \in DOMAIN s : s[i] \in N
    BY <1>1
  <2>2. \A w \in N : \E i \in DOMAIN s : s[i] = w
    BY <1>1, <1>2
  <2>3. Range(s) = N
    BY <2>1, <2>2, Zenon DEF Range
  <2>4. QED BY <1>2, <2>3
<1>4. "pool" \in Uses
  BY DEF Uses
<1>5. Len(s) <= Largest /\ \A i, j \in 1..Len(s) : s[i] = s[j] => i = j
  BY <1>1, <1>3
<1> DEFINE t == Shuffled(seed, "pool", s)
<1>6. /\ t \in Seq(N) /\ Len(t) = Len(s) /\ Range(t) = Range(s)
      /\ \A i, j \in 1..Len(s) : t[i] = t[j] => i = j
  BY <1>2, <1>4, <1>5, ShuffledElements
<1>7. ShuffledNeutralPool(N, seed) = t
  BY DEF ShuffledNeutralPool, s
<1> HIDE DEF t
<1>8. QED BY <1>1, <1>3, <1>6, <1>7

-----------------------------------------------------------------------------
(***************************************************************************)
(* The words of a board                                                    *)
(***************************************************************************)

\* A finite set loses one element when one is taken out.
LEMMA WithoutOne ==
  ASSUME NEW T, IsFiniteSet(T), NEW b \in T
  PROVE  IsFiniteSet(T \ {b}) /\ Cardinality(T \ {b}) = Cardinality(T) - 1
BY FS_RemoveElement

\* The numbers up to n without b, in their order.
LEMMA AllButOne ==
  ASSUME NEW n \in Nat, NEW b \in 1..n
  PROVE  /\ Cardinality((1..n) \ {b}) = n - 1 /\ IsFiniteSet((1..n) \ {b})
         /\ \A k \in 1..n - 1 : Sorted((1..n) \ {b})[k] \in {k, k + 1} /\ Sorted((1..n) \ {b})[k] \in 1..n
<1> DEFINE S == (1..n) \ {b}
<1>1. IsFiniteSet(S) /\ Cardinality(S) = n - 1 /\ S \in SUBSET Nat
  <2>1. IsFiniteSet(1..n) /\ Cardinality(1..n) = n
    BY UpToCounts
  <2>2. IsFiniteSet(S) /\ Cardinality(S) = Cardinality(1..n) - 1
    BY <2>1, WithoutOne
  <2>3. S \in SUBSET Nat
    OBVIOUS
  <2>4. QED BY <2>1, <2>2, <2>3
<1>2. ASSUME NEW x \in S PROVE Cardinality(Below(S, x)) = IF x < b THEN x - 1 ELSE x - 2
  <2>1. x \in Nat /\ x - 1 \in Nat /\ IsFiniteSet(1..x - 1) /\ Cardinality(1..x - 1) = x - 1
    BY UpToCounts
  <2>2. CASE x < b
    <3>1. Below(S, x) = 1..x - 1
      BY <2>1, <2>2 DEF Below
    <3>2. QED BY <2>1, <2>2, <3>1
  <2>3. CASE ~(x < b)
    <3>1. Below(S, x) = (1..x - 1) \ {b} /\ b \in 1..x - 1
      BY <2>1, <2>3 DEF Below
    <3>2. Cardinality((1..x - 1) \ {b}) = Cardinality(1..x - 1) - 1
      BY <2>1, <3>1, WithoutOne
    <3>3. Cardinality(Below(S, x)) = (x - 1) - 1
      BY <2>1, <3>1, <3>2
    <3>4. QED BY <2>1, <2>3, <3>3
  <2>4. QED BY <2>2, <2>3
<1>3. ASSUME NEW k \in 1..n - 1 PROVE Sorted(S)[k] \in {k, k + 1} /\ Sorted(S)[k] \in 1..n
  <2> DEFINE x == Sorted(S)[k]
  <2>1. x \in S /\ Cardinality(Below(S, x)) = k - 1
    <3> HIDE DEF S
    <3>1. QED BY <1>1, SortedLists
  <2> HIDE DEF x
  <2>2. k - 1 = IF x < b THEN x - 1 ELSE x - 2
    BY <1>2, <2>1
  <2>3. x \in Nat /\ x \in 1..n
    BY <2>1
  <2>4. x = k \/ x = k + 1
    BY <2>2, <2>3
  <2>5. QED BY <2>3, <2>4 DEF x
<1>4. QED BY <1>1, <1>3

\* Without its bridge a probe's pool is the bank's, moved by at most one place.
LEMMA FillElements ==
  ASSUME NEW seed \in BankSeeds, NEW N \in SUBSET Nat, IsFiniteSet(N), Cardinality(N) <= Largest,
         NEW bridge \in N
  PROVE  /\ NeutralFill(N, bridge, seed) \in Seq(N)
         /\ Len(NeutralFill(N, bridge, seed)) = Cardinality(N) - 1 /\ Cardinality(N) \in Nat \ {0}
         /\ \A k \in 1..Cardinality(N) - 1 :
              \E i \in {k, k + 1} : /\ i \in 1..Cardinality(N)
                                    /\ NeutralFill(N, bridge, seed)[k] = ShuffledNeutralPool(N, seed)[i]
<1> DEFINE P == ShuffledNeutralPool(N, seed)
           n == Cardinality(N)
           places == {i \in DOMAIN P : P[i] # bridge}
           Q == NeutralFill(N, bridge, seed)
<1>1. /\ P \in Seq(N) /\ Len(P) = n /\ n \in Nat /\ Range(P) = N
      /\ \A i, j \in 1..n : P[i] = P[j] => i = j
  BY PoolElements
<1>2. Q = Kept(P, places)
  BY DEF NeutralFill
<1> HIDE DEF P, n, Q
<1>3. DOMAIN P = 1..n /\ P \in [1..n -> N]
  BY <1>1, LenProperties
<1>4. PICK b \in 1..n : P[b] = bridge
  BY <1>1, <1>3 DEF Range
<1>5. places = (1..n) \ {b}
  BY <1>1, <1>3, <1>4
<1>6. /\ Cardinality(places) = n - 1 /\ n - 1 \in Nat
      /\ \A k \in 1..n - 1 : Sorted(places)[k] \in {k, k + 1} /\ Sorted(places)[k] \in 1..n
  <2>1. n - 1 \in Nat
    BY <1>1
  <2> HIDE DEF places
  <2>2. QED BY <1>1, <1>5, <2>1, AllButOne
<1>7. /\ DOMAIN Q = 1..n - 1
      /\ \A k \in 1..n - 1 : Sorted(places)[k] \in places /\ Q[k] = P[Sorted(places)[k]]
  <2>1. places \in SUBSET (1..n)
    BY <1>5
  <2> HIDE DEF places
  <2>2. QED BY <1>1, <1>2, <1>3, <1>6, <2>1, KeptElements
<1>8. \A k \in 1..n - 1 : Q[k] \in N
  BY <1>3, <1>5, <1>7
<1>9. Q \in Seq(N) /\ Len(Q) = n - 1
  <2>1. Q = [k \in 1..n - 1 |-> Q[k]]
    <3>1. Q = [k \in 1..Cardinality(places) |-> P[Sorted(places)[k]]]
      BY <1>2 DEF Kept
    <3> HIDE DEF places
    <3>2. QED BY <1>6, <3>1
  <2>2. Q \in [1..n - 1 -> N]
    BY <1>8, <2>1
  <2>3. QED BY <1>6, <2>2, SequenceUpTo
<1>10. \A k \in 1..n - 1 : \E i \in {k, k + 1} : i \in 1..n /\ Q[k] = P[i]
  <2> HIDE DEF places
  <2>1. QED BY <1>6, <1>7
<1>11. n \in Nat \ {0}
  BY <1>1, <1>4
<1>12. QED BY <1>9, <1>10, <1>11 DEF P, Q, n

\* A remainder is below the divisor.
LEMMA Remainders == \A a \in Nat, n \in Nat \ {0} : a % n \in 0..n - 1
OBVIOUS

\* A window that fits its pool takes the places it names.
LEMMA WindowElements ==
  ASSUME NEW S, NEW pool \in Seq(S), NEW index \in Nat, NEW count \in Nat, count <= Len(pool)
  PROVE  /\ CyclicWindow(pool, index, count) \in Seq(S)
         /\ Len(CyclicWindow(pool, index, count)) = count
         /\ \A m \in 1..count : CyclicWindow(pool, index, count)[m]
                                  = pool[((index * count + m - 1) % Len(pool)) + 1]
<1> DEFINE n == Len(pool)
           at(m) == ((index * count + m - 1) % n) + 1
           w == CyclicWindow(pool, index, count)
<1>1. n \in Nat /\ \A i \in 1..n : pool[i] \in S
  BY LenProperties
<1>2. \A m \in 1..count : at(m) \in 1..n
  <2> SUFFICES ASSUME NEW m \in 1..count PROVE at(m) \in 1..n
    OBVIOUS
  <2>1. index * count \in Nat
    OBVIOUS
  <2> DEFINE a == index * count + m - 1
  <2>2. a \in Nat /\ n \in Nat \ {0}
    BY <1>1, <2>1
  <2>3. a % n \in 0..n - 1
    <3> HIDE DEF a, n
    <3>1. QED BY <2>2, Remainders
  <2>4. QED BY <1>1, <2>3
<1>3. w = [m \in 1..count |-> pool[at(m)]]
  BY <1>1 DEF CyclicWindow
<1> HIDE DEF n, at, w
<1>4. w \in [1..count -> S]
  BY <1>1, <1>2, <1>3
<1>5. w \in Seq(S) /\ Len(w) = count
  BY <1>4, SequenceUpTo
<1>6. \A m \in 1..count : w[m] = pool[at(m)]
  BY <1>3
<1>7. QED BY <1>5, <1>6 DEF n, at, w

\* Every generator a bank is built with is seeded with one of its seeds.
LEMMA SeedsAreTheBanks ==
  ASSUME NEW master \in Seeds
  PROVE  /\ \A spec \in SpecSet, k \in 0..MaxProbes :
              DeriveBoardSeed(master, <<"probe", spec, k>>) \in BankSeeds
         /\ \A k \in 0..MaxProbes : DeriveBoardSeed(master, <<"control", NoSpec, k>>) \in BankSeeds
         /\ DeriveBoardSeed(master, NeutralPoolTag) \in BankSeeds
         /\ \A k \in 0..MaxProbes : IndexSeed(k) \in BankSeeds
<1> DEFINE ids == {<<"probe", spec, k>> : spec \in SpecSet, k \in 0..MaxProbes}
                    \cup {<<"control", NoSpec, k>> : k \in 0..MaxProbes} \cup {NeutralPoolTag}
<1>1. BankSeeds = {DeriveBoardSeed(m, id) : m \in Seeds, id \in ids} \cup {IndexSeed(k) : k \in 0..MaxProbes}
  BY DEF BankSeeds
<1>2. /\ \A spec \in SpecSet, k \in 0..MaxProbes : <<"probe", spec, k>> \in ids
      /\ \A k \in 0..MaxProbes : <<"control", NoSpec, k>> \in ids
      /\ NeutralPoolTag \in ids
  OBVIOUS
<1> HIDE DEF ids
<1>3. \A id \in ids : DeriveBoardSeed(master, id) \in BankSeeds
  BY <1>1
<1>4. QED BY <1>1, <1>2, <1>3

\* The pairs picked are among those matched.
LEMMA PickedPairs ==
  ASSUME NEW S, NEW pairs \in Seq(S), Len(pairs) <= Cardinality(Rows),
         NEW dilemma, NEW index \in 0..MaxProbes, Seeds # {}
  PROVE  PermutationPick(Eligible(pairs, dilemma), index) \in Seq(S)
<1> DEFINE places == {i \in DOMAIN pairs : Range(pairs[i]) \cap {dilemma.target, dilemma.stereo} = {}}
           e == Eligible(pairs, dilemma)
           c == Cardinality(places)
<1>1. DOMAIN pairs = 1..Len(pairs) /\ Len(pairs) \in Nat /\ \A i \in 1..Len(pairs) : pairs[i] \in S
  BY LenProperties
<1>2. e = Kept(pairs, places)
  BY DEF Eligible
<1>3. places \in SUBSET (1..Len(pairs))
  BY <1>1
<1> HIDE DEF places, e
<1>4. /\ c \in Nat /\ DOMAIN e = 1..c
      /\ \A k \in 1..c : Sorted(places)[k] \in places /\ e[k] = pairs[Sorted(places)[k]]
  BY <1>1, <1>2, <1>3, KeptElements
<1>5. c <= Len(pairs)
  <2>1. IsFiniteSet(1..Len(pairs)) /\ Cardinality(1..Len(pairs)) = Len(pairs)
    BY <1>1, UpToCounts
  <2>2. QED BY <1>3, <2>1, FS_Subset
<1>6. e \in [1..c -> S]
  <2>1. e = [k \in 1..c |-> pairs[Sorted(places)[k]]]
    BY <1>2 DEF Kept
  <2>2. \A k \in 1..c : pairs[Sorted(places)[k]] \in S
    BY <1>1, <1>3, <1>4
  <2> HIDE DEF c
  <2>3. QED BY <2>1, <2>2
<1>7. e \in Seq(S) /\ Len(e) = c
  <2> HIDE DEF c
  <2>1. QED BY <1>4, <1>6, SequenceUpTo
<1>8. CASE Len(e) <= NPairs
  BY <1>7, <1>8 DEF PermutationPick, e
<1>9. CASE ~(Len(e) <= NPairs)
  <2>1. NPairs \in 0..Len(e) /\ Len(e) <= Largest
    <3>1. NPairs \in Nat /\ Cardinality(Rows) \in Nat /\ Cardinality(Rows) <= Largest /\ Largest \in Nat
      BY JointAssumption, LargestIsNatural
    <3>2. QED BY <1>1, <1>4, <1>5, <1>7, <1>9, <3>1
  <2>2. IndexSeed(index) \in BankSeeds /\ "pairs" \in Uses
    BY SeedsAreTheBanks DEF Uses
  <2>3. Sampled(IndexSeed(index), "pairs", e, NPairs) \in Seq(S)
    BY <1>7, <2>1, <2>2, SampledElements
  <2>4. QED BY <1>9, <2>3 DEF PermutationPick, e
<1>10. QED BY <1>8, <1>9

\* The texts of the neutral words of a list.
NeutralTexts(words) == Texts(NeutralPool(words))

\* The neutral words of a loaded list are finitely many of its texts.
LEMMA NeutralWords ==
  ASSUME NEW words, WellLoaded(words)
  PROVE  /\ NeutralTexts(words) \in SUBSET Nat /\ IsFiniteSet(NeutralTexts(words))
         /\ Cardinality(NeutralTexts(words)) <= Largest /\ Cardinality(NeutralTexts(words)) \in Nat
         /\ \A t \in NeutralTexts(words) : t \in Texts(words) /\ WordOf(words, t).gender = "neutral"
<1>1. NeutralTexts(words) \subseteq Texts(words)
  BY DEF NeutralTexts, Texts, NeutralPool
<1>2. /\ IsFiniteSet(NeutralTexts(words)) /\ Cardinality(NeutralTexts(words)) <= Cardinality(Texts(words))
      /\ Cardinality(NeutralTexts(words)) \in Nat /\ Cardinality(Texts(words)) \in Nat
  BY <1>1, FS_Subset, FS_CardinalityType DEF WellLoaded
<1>3. Cardinality(NeutralTexts(words)) <= Largest
  BY <1>2, LargestIsNatural DEF WellLoaded
<1>4. ASSUME NEW t \in NeutralTexts(words) PROVE WordOf(words, t).gender = "neutral"
  <2>1. PICK w \in words : w.gender = "neutral" /\ t = w.text
    BY DEF NeutralTexts, Texts, NeutralPool
  <2>2. QED BY <2>1, WordOfItsText
<1>5. QED BY <1>1, <1>2, <1>3, <1>4 DEF WellLoaded

\* A probe's words: the dilemma, q pairs, and neutral words for the rest.
ProbeWords(texts, d, words, spec, q) ==
  /\ texts \in Seq(Texts(words)) /\ Len(texts) = BoardWordCount
  /\ \A i, j \in 1..BoardWordCount : texts[i] = texts[j] => i = j
  /\ q \in Nat /\ 3 + 2 * q <= BoardWordCount
  /\ texts[1] = d.target /\ texts[2] = d.stereo /\ texts[3] = d.neutral
  /\ \A j \in 1..q : texts[3 + (2 * j - 1)] \in Males(words, spec) /\ texts[3 + 2 * j] \in Females(words, spec)
  /\ \A i \in (3 + 2 * q) + 1..BoardWordCount : texts[i] \in NeutralTexts(words)
  /\ d.neutral \in NeutralTexts(words)

\* The neutral words of the rest are a window of the pool without the bridge.
ProbeFill(texts, d, words, index, seed, q) ==
  LET count == BoardWordCount - (3 + 2 * q)
      pool == NeutralFill(NeutralTexts(words), d.neutral, seed)
  IN  /\ count <= Len(pool)
      /\ \A m \in 1..count : texts[3 + 2 * q + m] = pool[((index * count + m - 1) % Len(pool)) + 1]

\* compose_probe_words, when it does not raise, lays the dilemma, the pairs and
\* the fill down one after the other.
LEMMA ProbeIsComposed ==
  ASSUME NEW words, WellLoaded(words), NEW spec \in SpecSet, NEW seed \in BankSeeds, Seeds # {},
         NEW index \in 0..MaxProbes, NEW d,
         ComposeProbeWords(d, RunBalancing(words, spec), words, index, seed) # Failed
  PROVE  LET texts == ComposeProbeWords(d, RunBalancing(words, spec), words, index, seed)
         IN  \E q : ProbeWords(texts, d, words, spec, q) /\ ProbeFill(texts, d, words, index, seed, q)
<1> DEFINE M == Males(words, spec)
           F == Females(words, spec)
           T == Texts(words)
           N == NeutralTexts(words)
           pairs == RunBalancing(words, spec)
           block == <<d.target, d.stereo, d.neutral>>
           chosen == PermutationPick(Eligible(pairs, d), index)
           loaded == FlattenSeq(chosen)
           pool == NeutralFill(N, d.neutral, seed)
           count == BoardWordCount - DilemmaWordCount - Len(loaded)
           fill == CyclicWindow(pool, index, count)
           all == (block \o loaded) \o fill
           q == Len(chosen)
<1>1. /\ ComposeProbeWords(d, pairs, words, index, seed) = all
      /\ {d.target, d.stereo} \subseteq T /\ d.neutral \in N
      /\ Len(all) = BoardWordCount /\ Distinct(all)
  <2>1. ComposeProbeWords(d, pairs, words, index, seed)
          = IF {d.target, d.stereo} \subseteq T /\ d.neutral \in N /\ Len(all) = BoardWordCount /\ Distinct(all)
              THEN all ELSE Failed
    BY DEF ComposeProbeWords, NeutralTexts
  <2> HIDE DEF all, T, N, pairs
  <2>2. QED BY <2>1 DEF pairs
<1>2. /\ N \in SUBSET Nat /\ IsFiniteSet(N) /\ Cardinality(N) <= Largest /\ Cardinality(N) \in Nat
      /\ N \subseteq T
  BY NeutralWords
<1>3. pairs \in Seq(M \X F) /\ Len(pairs) <= Cardinality(Rows) /\ M \subseteq T /\ F \subseteq T
  BY BalancedPairs
<1>4. chosen \in Seq(M \X F)
  <2> HIDE DEF M, F, pairs
  <2>1. QED BY <1>3, PickedPairs
<1>5. /\ loaded \in Seq(T) /\ Len(loaded) = 2 * q /\ q \in Nat
      /\ \A j \in 1..q : loaded[2 * j - 1] \in M /\ loaded[2 * j] \in F
  <2>1. M \X F \subseteq T \X T
    BY <1>3
  <2>2. chosen \in Seq(T \X T) /\ q \in Nat /\ \A j \in 1..q : chosen[j][1] \in M /\ chosen[j][2] \in F
    <3>1. chosen \in Seq(T \X T)
      <4> HIDE DEF chosen, M, F, T
      <4>1. QED BY <1>4, <2>1, SeqMonotonic
    <3>2. \A j \in 1..Len(chosen) : chosen[j] \in M \X F
      <4> HIDE DEF chosen, M, F
      <4>1. QED BY <1>4, ElementOfSeq
    <3>3. q \in Nat
      <4> HIDE DEF chosen, M, F
      <4>1. QED BY <1>4, LenProperties
    <3>4. QED BY <3>1, <3>2, <3>3
  <2> HIDE DEF chosen, M, F, T
  <2>3. /\ FlattenSeq(chosen) \in Seq(T) /\ Len(FlattenSeq(chosen)) = 2 * Len(chosen)
        /\ \A j \in 1..Len(chosen) : /\ FlattenSeq(chosen)[2 * j - 1] = chosen[j][1]
                                     /\ FlattenSeq(chosen)[2 * j] = chosen[j][2]
    BY <2>2, PairsFlatten
  <2>4. QED BY <2>2, <2>3
<1>6. block \in Seq(T) /\ Len(block) = 3
  BY <1>1, <1>2
<1>7. pool \in Seq(N) /\ Len(pool) = Cardinality(N) - 1 /\ Len(pool) \in Nat
  <2> DEFINE b == d.neutral
  <2>1. b \in N
    BY <1>1
  <2> HIDE DEF N, b
  <2>2. /\ NeutralFill(N, b, seed) \in Seq(N) /\ Len(NeutralFill(N, b, seed)) = Cardinality(N) - 1
        /\ Cardinality(N) \in Nat \ {0}
    BY <1>2, <2>1, FillElements
  <2>3. QED BY <2>2 DEF b
<1>8. BoardWordCount \in Nat \ {0} /\ count \in Int /\ count = BoardWordCount - (3 + 2 * q)
  <2>1. BoardWordCount \in Nat \ {0}
    BY JointAssumption
  <2> HIDE DEF loaded, q
  <2>2. QED BY <1>5, <2>1 DEF DilemmaWordCount
<1> HIDE DEF loaded, q, block, fill, pool, count, M, F, T, N, chosen, pairs
<1>9. fill \in Seq(T)
  <2>1. CASE count \in Nat /\ count <= Len(pool)
    <3>1. fill \in Seq(N)
      <4>1. index \in Nat
        OBVIOUS
      <4>2. QED BY <1>7, <2>1, <4>1, WindowElements DEF fill
    <3>2. QED BY <1>2, <3>1, SeqMonotonic
  <2>2. CASE count > Len(pool)
    <3>1. fill = <<>>
      BY <2>2 DEF fill, CyclicWindow, Failed
    <3>2. QED BY <3>1, EmptySeq
  <2>3. CASE count < 0
    <3> DEFINE at(m) == pool[((index * count + m - 1) % Len(pool)) + 1]
    <3>1. fill = [m \in 1..count |-> at(m)]
      BY <1>7, <1>8, <2>3 DEF fill, CyclicWindow
    <3>2. 1..count = 1..0
      BY <1>8, <2>3
    <3> HIDE DEF at
    <3>3. fill \in [1..0 -> T]
      BY <3>1, <3>2
    <3>4. QED BY <3>3, SequenceUpTo
  <2>4. QED BY <1>7, <1>8, <2>1, <2>2, <2>3
<1>10. /\ block \o loaded \in Seq(T) /\ Len(block \o loaded) = 3 + 2 * q
       /\ \A i \in 1..3 + 2 * q : (block \o loaded)[i] = IF i <= 3 THEN block[i] ELSE loaded[i - 3]
  <2>1. /\ block \o loaded \in Seq(T) /\ Len(block \o loaded) = Len(block) + Len(loaded)
        /\ \A i \in 1..Len(block) + Len(loaded) :
             (block \o loaded)[i] = IF i <= Len(block) THEN block[i] ELSE loaded[i - Len(block)]
    BY <1>5, <1>6, ConcatProperties
  <2>2. QED BY <1>5, <1>6, <2>1
<1> DEFINE head == block \o loaded
<1> HIDE DEF head
<1>11. /\ all \in Seq(T) /\ Len(all) = (3 + 2 * q) + Len(fill) /\ Len(fill) \in Nat
       /\ \A i \in 1..(3 + 2 * q) + Len(fill) :
            all[i] = IF i <= 3 + 2 * q THEN head[i] ELSE fill[i - (3 + 2 * q)]
  <2>1. head \in Seq(T) /\ Len(head) = 3 + 2 * q /\ Len(fill) \in Nat
    BY <1>9, <1>10, LenProperties DEF head
  <2>2. /\ head \o fill \in Seq(T) /\ Len(head \o fill) = Len(head) + Len(fill)
        /\ \A i \in 1..Len(head) + Len(fill) :
             (head \o fill)[i] = IF i <= Len(head) THEN head[i] ELSE fill[i - Len(head)]
    BY <1>9, <2>1, ConcatProperties
  <2>3. all = head \o fill
    BY DEF head
  <2> HIDE DEF all
  <2>4. QED BY <2>1, <2>2, <2>3
<1> HIDE DEF all
<1>12. Len(fill) = count /\ count \in Nat /\ count <= Len(pool)
  <2>1. Len(fill) = count
    BY <1>1, <1>5, <1>8, <1>11
  <2>2. ASSUME count > Len(pool) PROVE FALSE
    <3>1. fill = <<>>
      BY <2>2 DEF fill, CyclicWindow, Failed
    <3>2. Len(fill) = 0
      BY <3>1, EmptySeq
    <3>3. QED BY <1>7, <2>1, <2>2, <3>2
  <2>3. QED BY <1>7, <1>8, <1>11, <2>1, <2>2
<1>13. /\ fill \in Seq(N) 
       /\ \A m \in 1..count : fill[m] = pool[((index * count + m - 1) % Len(pool)) + 1]
  <2>1. index \in Nat /\ pool \in Seq(N) /\ count \in Nat /\ count <= Len(pool)
    BY <1>7, <1>12
  <2>2. /\ CyclicWindow(pool, index, count) \in Seq(N)
        /\ Len(CyclicWindow(pool, index, count)) = count
        /\ \A m \in 1..count : CyclicWindow(pool, index, count)[m]
                                 = pool[((index * count + m - 1) % Len(pool)) + 1]
    BY <2>1, WindowElements
  <2>3. QED BY <2>2 DEF fill
<1>14. ProbeWords(all, d, words, spec, q)
  <2>1. \A i, j \in 1..BoardWordCount : all[i] = all[j] => i = j
    <3>1. DOMAIN all = 1..BoardWordCount /\ BoardWordCount \in Nat
      BY <1>1, <1>8, <1>11, LenProperties
    <3>2. Cardinality(Range(all)) = BoardWordCount
      BY <1>1 DEF Distinct
    <3>3. QED BY <3>1, <3>2, DistinctElements
  <2>2. 3 + 2 * q <= BoardWordCount
    BY <1>5, <1>8, <1>12
  <2>3. \A i \in 1..3 + 2 * q : all[i] = IF i <= 3 THEN block[i] ELSE loaded[i - 3]
    <3> SUFFICES ASSUME NEW i \in 1..3 + 2 * q
                 PROVE  all[i] = IF i <= 3 THEN block[i] ELSE loaded[i - 3]
      OBVIOUS
    <3>1. i \in 1..(3 + 2 * q) + Len(fill) /\ i <= 3 + 2 * q
      BY <1>5, <1>11
    <3>2. all[i] = head[i]
      BY <1>11, <3>1
    <3>3. QED BY <1>10, <3>2 DEF head
  <2>4. all[1] = d.target /\ all[2] = d.stereo /\ all[3] = d.neutral
    <3>1. 1 \in 1..3 + 2 * q /\ 2 \in 1..3 + 2 * q /\ 3 \in 1..3 + 2 * q
      BY <1>5
    <3>2. QED BY <2>3, <3>1 DEF block
  <2>5. ASSUME NEW j \in 1..q PROVE all[3 + (2 * j - 1)] \in M /\ all[3 + 2 * j] \in F
    <3>1. /\ 3 + (2 * j - 1) \in 1..3 + 2 * q /\ ~(3 + (2 * j - 1) <= 3) /\ (3 + (2 * j - 1)) - 3 = 2 * j - 1
          /\ 3 + 2 * j \in 1..3 + 2 * q /\ ~(3 + 2 * j <= 3) /\ (3 + 2 * j) - 3 = 2 * j
      BY <1>5
    <3>2. all[3 + (2 * j - 1)] = loaded[2 * j - 1] /\ all[3 + 2 * j] = loaded[2 * j]
      BY <2>3, <3>1
    <3>3. QED BY <1>5, <3>2
  <2>6. ASSUME NEW i \in (3 + 2 * q) + 1..BoardWordCount PROVE all[i] \in N
    <3>1. /\ i \in 1..(3 + 2 * q) + Len(fill) /\ ~(i <= 3 + 2 * q) /\ i - (3 + 2 * q) \in 1..Len(fill)
      BY <1>5, <1>8, <1>12
    <3>2. all[i] = fill[i - (3 + 2 * q)]
      BY <1>11, <3>1
    <3>3. QED BY <1>13, <3>1, <3>2, ElementOfSeq
  <2>7. QED BY <1>1, <1>5, <1>11, <2>1, <2>2, <2>4, <2>5, <2>6 DEF ProbeWords, M, F, N, T
<1>15. ProbeFill(all, d, words, index, seed, q)
  <2>1. ASSUME NEW m \in 1..count
        PROVE  all[3 + 2 * q + m] = pool[((index * count + m - 1) % Len(pool)) + 1]
    <3>1. /\ 3 + 2 * q + m \in 1..(3 + 2 * q) + Len(fill) /\ ~(3 + 2 * q + m <= 3 + 2 * q)
          /\ (3 + 2 * q + m) - (3 + 2 * q) = m
      BY <1>5, <1>12
    <3>2. all[3 + 2 * q + m] = fill[m]
      BY <1>11, <3>1
    <3>3. QED BY <1>13, <3>2
  <2>2. QED BY <1>8, <1>12, <2>1 DEF ProbeFill, pool, N
<1>16. QED BY <1>1, <1>14, <1>15 DEF pairs

\* A control's words are a window of the neutral pool.
ControlWords(texts, words, index, seed) ==
  LET N == NeutralTexts(words)
  IN  /\ BoardWordCount <= Cardinality(N)
      /\ texts \in Seq(N) /\ Len(texts) = BoardWordCount
      /\ \A m \in 1..BoardWordCount :
           texts[m] = ShuffledNeutralPool(N, seed)[((index * BoardWordCount + m - 1) % Cardinality(N)) + 1]

\* compose_control_words, when it does not raise, takes a window of the
\* neutral pool.
LEMMA ControlIsComposed ==
  ASSUME NEW words, WellLoaded(words), NEW seed \in BankSeeds, NEW index \in Nat,
         ComposeControlWords(words, index, seed) # Failed
  PROVE  ControlWords(ComposeControlWords(words, index, seed), words, index, seed)
<1> DEFINE N == NeutralTexts(words)
           P == ShuffledNeutralPool(N, seed)
           texts == ComposeControlWords(words, index, seed)
<1>1. texts = CyclicWindow(P, index, BoardWordCount)
  BY DEF ComposeControlWords, NeutralTexts
<1>2. P \in Seq(N) /\ Len(P) = Cardinality(N) /\ Cardinality(N) \in Nat
  BY NeutralWords, PoolElements
<1>3. BoardWordCount \in Nat
  BY JointAssumption
<1>4. texts # Failed
  OBVIOUS
<1> HIDE DEF N, P, texts
<1>5. BoardWordCount <= Len(P)
  <2>1. ASSUME BoardWordCount > Len(P) PROVE FALSE
    BY <1>1, <1>4, <2>1 DEF CyclicWindow
  <2>2. QED BY <1>2, <1>3, <2>1
<1>6. /\ CyclicWindow(P, index, BoardWordCount) \in Seq(N)
      /\ Len(CyclicWindow(P, index, BoardWordCount)) = BoardWordCount
      /\ \A m \in 1..BoardWordCount : CyclicWindow(P, index, BoardWordCount)[m]
                                        = P[((index * BoardWordCount + m - 1) % Len(P)) + 1]
  <2>1. P \in Seq(N) /\ BoardWordCount \in Nat /\ BoardWordCount <= Len(P)
    BY <1>2, <1>3, <1>5
  <2>2. QED BY <2>1, WindowElements
<1>7. QED BY <1>1, <1>2, <1>5, <1>6 DEF ControlWords, N, P, texts

-----------------------------------------------------------------------------
(***************************************************************************)
(* The key card                                                            *)
(***************************************************************************)

\* The two roles of a row of the joint distribution, and where a card has them.
RolePair(i) == <<ExpectedJoint[i][1], ExpectedJoint[i][2]>>
PairPlaces(card, pair) == {p \in DOMAIN card : card[p] = pair}

\* A key card is a sequence, even where the generator is not asked about.
LEMMA CardIsSeq ==
  ASSUME NEW seed
  PROVE  DOMAIN AssignRoles(seed) = 1..Len(AssignRoles(seed)) /\ Len(AssignRoles(seed)) \in Nat
<1> DEFINE row(i) == [k \in 1..ExpectedJoint[i][3] |-> <<ExpectedJoint[i][1], ExpectedJoint[i][2]>>]
           rows == [i \in DOMAIN ExpectedJoint |-> row(i)]
           flat == FlattenSeq(rows)
           card == AssignRoles(seed)
<1>1. ExpectedJoint \in Seq(Roles \X Roles \X (Nat \ {0}))
  BY JointAssumption
<1>2. /\ DOMAIN ExpectedJoint = 1..Len(ExpectedJoint) /\ Len(ExpectedJoint) \in Nat
      /\ \A i \in DOMAIN ExpectedJoint : ExpectedJoint[i] \in Roles \X Roles \X (Nat \ {0})
  BY <1>1, LenProperties
<1>3. ASSUME NEW i \in DOMAIN ExpectedJoint PROVE row(i) \in Seq(Roles \X Roles)
  <2>1. ExpectedJoint[i][3] \in Nat /\ <<ExpectedJoint[i][1], ExpectedJoint[i][2]>> \in Roles \X Roles
    BY <1>2
  <2>2. row(i) \in [1..ExpectedJoint[i][3] -> Roles \X Roles]
    BY <2>1
  <2> HIDE DEF row
  <2>3. QED BY <2>1, <2>2, SequenceUpTo
<1> HIDE DEF row
<1>4. rows \in [1..Len(ExpectedJoint) -> Seq(Roles \X Roles)]
  BY <1>2, <1>3
<1> HIDE DEF rows
<1>5. rows \in Seq(Seq(Roles \X Roles))
  BY <1>2, <1>4, SequenceUpTo
<1>6. flat \in Seq(Roles \X Roles)
  BY <1>5, FlattenedIsSeq
<1>7. card = [k \in DOMAIN flat |-> flat[Deal(seed, "roles", Len(flat))[k]]]
  BY DEF AssignRoles, Shuffled, rows, row
<1> HIDE DEF flat, card
<1>8. DOMAIN flat = 1..Len(flat) /\ Len(flat) \in Nat
  BY <1>6, LenProperties
<1>9. card \in [1..Len(flat) -> Range(card)]
  BY <1>7, <1>8 DEF Range
<1>10. Len(card) = Len(flat) /\ DOMAIN card = 1..Len(flat)
  BY <1>8, <1>9, SequenceUpTo
<1>11. QED BY <1>8, <1>10 DEF card

\* A card that is let through has each row of the scheme as often as it says.
LEMMA CardFollows ==
  ASSUME NEW card, ValidateKeycard(card), NEW i \in DOMAIN ExpectedJoint
  PROVE  Cardinality(PairPlaces(card, RolePair(i))) = ExpectedJoint[i][3] /\ RolePair(i) \in Range(card)
<1> DEFINE pairs == {RolePair(j) : j \in DOMAIN ExpectedJoint}
           counts == JointCounts(card)
           rows(pair) == {j \in DOMAIN ExpectedJoint : RolePair(j) = pair}
           sum(pair) == SumOver(rows(pair), LAMBDA j : ExpectedJoint[j][3])
<1>1. counts = [pair \in pairs |-> sum(pair)]
  BY DEF ValidateKeycard, RolePair
<1>2. counts = [pair \in Range(card) |-> Cardinality(PairPlaces(card, pair))]
  BY DEF JointCounts, PairPlaces
<1>3. rows(RolePair(i)) = {i}
  <2>1. ASSUME NEW j \in DOMAIN ExpectedJoint, RolePair(j) = RolePair(i) PROVE j = i
    BY <2>1, JointAssumption DEF RolePair
  <2>2. QED BY <2>1
<1> HIDE DEF counts
<1>4. sum(RolePair(i)) = ExpectedJoint[i][3]
  <2>1. sum(RolePair(i)) = SumOver({i}, LAMBDA j : ExpectedJoint[j][3])
    BY <1>3
  <2>2. SumOver({i}, LAMBDA j : ExpectedJoint[j][3]) = ExpectedJoint[i][3] + 0
    BY SumOfOneRow
  <2>3. ExpectedJoint[i][3] \in Nat
    <3>1. ExpectedJoint[i] \in Roles \X Roles \X (Nat \ {0})
      BY JointAssumption
    <3>2. QED BY <3>1
  <2>4. QED BY <2>1, <2>2, <2>3
<1> HIDE DEF sum
<1>5. pairs = Range(card)
  <2>1. DOMAIN counts = pairs
    BY <1>1
  <2>2. DOMAIN counts = Range(card)
    BY <1>2
  <2>3. QED BY <2>1, <2>2
<1>6. RolePair(i) \in pairs
  OBVIOUS
<1> HIDE DEF pairs
<1>7. counts[RolePair(i)] = sum(RolePair(i))
  BY <1>1, <1>6
<1>8. counts[RolePair(i)] = Cardinality(PairPlaces(card, RolePair(i)))
  BY <1>2, <1>5, <1>6
<1>9. QED BY <1>4, <1>5, <1>6, <1>7, <1>8

\* On such a card the model's side has agents enough for a dilemma.
LEMMA AgentsForADilemma ==
  ASSUME NEW card, ValidateKeycard(card), DOMAIN card = 1..BoardWordCount
  PROVE  /\ AgentPositions(card) \in SUBSET (1..BoardWordCount) /\ IsFiniteSet(AgentPositions(card))
         /\ Cardinality(AgentPositions(card)) \in 3..BoardWordCount
<1> DEFINE X == {x \in (DOMAIN ExpectedJoint) \X (1..BoardWordCount) :
                   /\ ExpectedJoint[x[1]][2] = "agent"
                   /\ x[2] <= ExpectedJoint[x[1]][3]}
           A == AgentPositions(card)
           P(i) == PairPlaces(card, RolePair(i))
           f == [x \in X |-> Sorted(P(x[1]))[x[2]]]
<1>1. BoardWordCount \in Nat /\ IsFiniteSet(1..BoardWordCount) /\ Cardinality(1..BoardWordCount) = BoardWordCount
  BY JointAssumption, UpToCounts
<1>2. A \in SUBSET (1..BoardWordCount)
  BY DEF AgentPositions
<1> HIDE DEF A
<1>3. IsFiniteSet(A) /\ Cardinality(A) \in Nat /\ Cardinality(A) <= BoardWordCount
  <2> DEFINE S == 1..BoardWordCount
  <2>1. IsFiniteSet(S) /\ A \in SUBSET S /\ Cardinality(S) = BoardWordCount
    BY <1>1, <1>2
  <2> HIDE DEF S
  <2>2. IsFiniteSet(A) /\ Cardinality(A) <= Cardinality(S)
    BY <2>1, FS_Subset
  <2>3. Cardinality(A) \in Nat
    BY <2>2, FS_CardinalityType
  <2>4. QED BY <2>1, <2>2, <2>3
<1>4. ASSUME NEW i \in DOMAIN ExpectedJoint
      PROVE  /\ P(i) \in SUBSET Nat /\ IsFiniteSet(P(i)) /\ Cardinality(P(i)) = ExpectedJoint[i][3]
             /\ \A p \in P(i) : card[p] = RolePair(i) /\ p \in DOMAIN card
  <2>1. P(i) \in SUBSET (1..BoardWordCount) /\ \A p \in P(i) : card[p] = RolePair(i)
    BY DEF PairPlaces
  <2>2. Cardinality(P(i)) = ExpectedJoint[i][3]
    BY CardFollows
  <2>3. IsFiniteSet(P(i))
    BY <1>1, <2>1, FS_Subset
  <2>4. QED BY <2>1, <2>2, <2>3
<1>5. ASSUME NEW i \in DOMAIN ExpectedJoint
      PROVE  /\ \A k \in 1..ExpectedJoint[i][3] : Sorted(P(i))[k] \in P(i)
             /\ \A k, l \in 1..ExpectedJoint[i][3] : Sorted(P(i))[k] = Sorted(P(i))[l] => k = l
  <2> DEFINE S == P(i)
  <2>1. S \in SUBSET Nat /\ IsFiniteSet(S) /\ Cardinality(S) = ExpectedJoint[i][3]
    BY <1>4
  <2> HIDE DEF S
  <2>2. /\ Sorted(S) \in [1..Cardinality(S) -> S]
        /\ \A k, l \in 1..Cardinality(S) : Sorted(S)[k] = Sorted(S)[l] => k = l
    BY <2>1, SortedLists
  <2>3. QED BY <2>1, <2>2 DEF S
<1>6. \A x \in X : x[1] \in DOMAIN ExpectedJoint /\ x[2] \in 1..ExpectedJoint[x[1]][3]
                   /\ x = <<x[1], x[2]>> /\ ExpectedJoint[x[1]][2] = "agent"
  <2> SUFFICES ASSUME NEW x \in X
               PROVE  /\ x[1] \in DOMAIN ExpectedJoint /\ x[2] \in 1..ExpectedJoint[x[1]][3]
                      /\ x = <<x[1], x[2]>> /\ ExpectedJoint[x[1]][2] = "agent"
    OBVIOUS
  <2>1. x[1] \in DOMAIN ExpectedJoint /\ x[2] \in 1..BoardWordCount /\ x = <<x[1], x[2]>>
    OBVIOUS
  <2>2. ExpectedJoint[x[1]] \in Roles \X Roles \X (Nat \ {0})
    BY <2>1, JointAssumption
  <2>3. ExpectedJoint[x[1]][3] \in Nat
    BY <2>2
  <2>4. QED BY <1>1, <2>1, <2>3
<1> HIDE DEF X, P
<1>7. ASSUME NEW x \in X PROVE f[x] \in P(x[1]) /\ f[x] \in A /\ card[f[x]] = RolePair(x[1])
  <2>1. f[x] \in P(x[1])
    BY <1>5, <1>6
  <2> HIDE DEF f
  <2>2. card[f[x]] = RolePair(x[1]) /\ f[x] \in DOMAIN card /\ RolePair(x[1])[2] = "agent"
    BY <1>4, <1>6, <2>1 DEF RolePair
  <2>3. QED BY <2>1, <2>2 DEF A, AgentPositions
<1>8. ASSUME NEW x \in X, NEW y \in X, f[x] = f[y] PROVE x = y
  <2>1. RolePair(x[1]) = RolePair(y[1])
    BY <1>7, <1>8
  <2>2. x[1] = y[1]
    BY <1>6, <2>1, JointAssumption DEF RolePair
  <2>3. Sorted(P(x[1]))[x[2]] = Sorted(P(x[1]))[y[2]]
    BY <1>8, <2>2
  <2>4. x[2] = y[2]
    BY <1>5, <1>6, <2>2, <2>3
  <2>5. QED BY <1>6, <2>2, <2>4
<1>9. Cardinality(X) <= Cardinality(A) /\ IsFiniteSet(X)
  <2>1. f \in [X -> A]
    BY <1>7
  <2> HIDE DEF f
  <2>2. QED BY <1>3, <1>8, <2>1, InjectionsCount
<1>10. Cardinality(X) >= 3 /\ Cardinality(X) \in Nat
  <2>1. Cardinality(X) >= DilemmaWordCount
    BY JointAssumption DEF X
  <2>2. QED BY <1>9, <2>1, FS_CardinalityType DEF DilemmaWordCount
<1>11. QED BY <1>1, <1>2, <1>3, <1>9, <1>10 DEF A


-----------------------------------------------------------------------------
(***************************************************************************)
(* Where the words go                                                      *)
(***************************************************************************)

\* What is left of a finite set.
LEMMA Complements ==
  ASSUME NEW S, IsFiniteSet(S), NEW T \in SUBSET S
  PROVE  IsFiniteSet(S \ T) /\ Cardinality(S \ T) = Cardinality(S) - Cardinality(T)
<1>1. IsFiniteSet(T) /\ IsFiniteSet(S \ T)
  BY FS_Subset
<1>2. T \cup (S \ T) = S /\ T \cap (S \ T) = {}
  OBVIOUS
<1> DEFINE R == S \ T
<1>3. IsFiniteSet(R) /\ T \cup R = S /\ T \cap R = {}
  BY <1>1, <1>2
<1> HIDE DEF R
<1>4. Cardinality(S) = Cardinality(T) + Cardinality(R)
  <2>1. Cardinality(T \cup R) = Cardinality(T) + Cardinality(R) - Cardinality(T \cap R)
    BY <1>1, <1>3, FS_Union
  <2>2. Cardinality(T) \in Nat /\ Cardinality(R) \in Nat /\ Cardinality(T \cap R) = 0
    BY <1>1, <1>3, FS_CardinalityType, FS_EmptySet
  <2>3. Cardinality(T \cup R) = Cardinality(S)
    BY <1>3
  <2> DEFINE t == Cardinality(T)
             r == Cardinality(R)
             u == Cardinality(T \cup R)
             z == Cardinality(T \cap R)
  <2>4. u = t + r - z /\ t \in Nat /\ r \in Nat /\ z = 0
    BY <2>1, <2>2
  <2> HIDE DEF t, r, u, z
  <2>5. u = t + r
    BY <2>4
  <2>6. QED BY <2>3, <2>5 DEF t, r, u
<1>5. Cardinality(T) \in Nat /\ Cardinality(R) \in Nat
  BY <1>1, <1>3, FS_CardinalityType
<1>6. QED BY <1>1, <1>4, <1>5 DEF R

\* What is at a place of a sequence is in its range, and nothing else is.
LEMMA AtAPlace ==
  ASSUME NEW s, NEW i \in DOMAIN s
  PROVE  s[i] \in Range(s)
BY DEF Range

\* An element of a sequence is at some place of it,
LEMMA PlaceOfAnElement ==
  ASSUME NEW s, NEW t \in Range(s)
  PROVE  \E i \in DOMAIN s : s[i] = t
BY DEF Range

\* nothing else is in it,
LEMMA OnlyAtPlaces ==
  ASSUME NEW s, NEW S, \A i \in DOMAIN s : s[i] \in S
  PROVE  Range(s) \subseteq S
BY DEF Range

\* The place of an element of a sequence.
PlaceIn(s, p) == CHOOSE i \in DOMAIN s : s[i] = p

\* and its place is found.
LEMMA PlaceIsThere ==
  ASSUME NEW s, NEW p \in Range(s)
  PROVE  PlaceIn(s, p) \in DOMAIN s /\ s[PlaceIn(s, p)] = p
BY DEF PlaceIn, Range

\* The places drawn for a dilemma are places of the set, each of them once.
LEMMA ChosenPlaces ==
  ASSUME NEW A \in SUBSET (1..BoardWordCount), IsFiniteSet(A), Cardinality(A) \in 3..BoardWordCount,
         NEW b \in 0..3, NEW seed \in BankSeeds
  PROVE  LET chosen == Sampled(seed, "dilemma", Sorted(A), b)
         IN  /\ chosen \in Seq(A) /\ Len(chosen) = b /\ Range(chosen) \subseteq A
             /\ \A i, j \in 1..b : chosen[i] = chosen[j] => i = j
<1> DEFINE s == Sorted(A)
           n == Cardinality(A)
<1>1. /\ s \in [1..n -> A] /\ n \in Nat
      /\ \A i, j \in 1..n : s[i] = s[j] => i = j
  <2>1. A \in SUBSET Nat
    BY LargestIsNatural
  <2>2. QED BY <2>1, SortedLists
<1>2. n \in 3..BoardWordCount
  OBVIOUS
<1> HIDE DEF s, n
<1>3. s \in Seq(A) /\ Len(s) = n /\ DOMAIN s = 1..n
  BY <1>1, SequenceUpTo
<1>4. Range(s) \subseteq A
  <2>1. \A i \in DOMAIN s : s[i] \in A
    BY <1>1, <1>3
  <2>2. QED BY <2>1, Zenon DEF Range
<1>5. Len(s) <= Largest /\ b \in 0..Len(s) /\ "dilemma" \in Uses
  BY <1>1, <1>2, <1>3, LargestIsNatural DEF Uses
<1>6. \A i, j \in 1..Len(s) : s[i] = s[j] => i = j
  BY <1>1, <1>3
<1> DEFINE u == Sampled(seed, "dilemma", s, b)
<1>7. /\ u \in Seq(A) /\ Len(u) = b /\ Range(u) \subseteq Range(s)
      /\ (\A i, j \in 1..Len(s) : s[i] = s[j] => i = j) => \A i, j \in 1..b : u[i] = u[j] => i = j
  <2>1. s \in Seq(A) /\ Len(s) <= Largest /\ b \in 0..Len(s) /\ "dilemma" \in Uses
    BY <1>3, <1>5
  <2>2. u \in Seq(A) /\ Len(u) = b
    BY <2>1, SampledElements
  <2>3. Range(u) \subseteq Range(s)
    BY <2>1, SampledElements
  <2>4. (\A i, j \in 1..Len(s) : s[i] = s[j] => i = j) => \A i, j \in 1..b : u[i] = u[j] => i = j
    BY <2>1, SampledElements
  <2>5. QED BY <2>2, <2>3, <2>4
<1> HIDE DEF u
<1>8. QED BY <1>4, <1>6, <1>7 DEF u, s

\* Where the words of a block are among the texts.
PlacesOf(texts, block) == {i \in DOMAIN texts : texts[i] \in Range(block)}

\* Every text is placed, each at one place.
EachInAPlace(placed, texts) ==
  /\ DOMAIN placed = 1..BoardWordCount /\ Range(placed) = Range(texts)
  /\ IsFiniteSet(Range(texts)) /\ Cardinality(Range(texts)) = BoardWordCount
  /\ \A p, q \in 1..BoardWordCount : placed[p] = placed[q] => p = q

\* The words go where they are told: each place has one, and each word, when
\* no word is placed twice, has a place.
LEMMA PlacedWords ==
  ASSUME NEW T, NEW texts \in Seq(T), Len(texts) = BoardWordCount,
         NEW card, ValidateKeycard(card), DOMAIN card = 1..BoardWordCount,
         NEW block \in Seq(T), Len(block) \in 0..3, Range(block) \subseteq Range(texts),
         Cardinality(PlacesOf(texts, block)) = Len(block),
         NEW seed \in BankSeeds,
         Distinct(RandomizePositions(texts, card, block, seed))
  PROVE  EachInAPlace(RandomizePositions(texts, card, block, seed), texts)
<1> DEFINE N == BoardWordCount
           b == Len(block)
           U == Range(texts)
           A == AgentPositions(card)
           chosen == Sampled(seed, "dilemma", Sorted(A), b)
           C == Range(chosen)
           open == Sorted((1..N) \ C)
           places == {i \in DOMAIN texts : texts[i] \notin Range(block)}
           rest == Shuffled(seed, "rest", Kept(texts, places))
           placed == RandomizePositions(texts, card, block, seed)
<1>1. /\ N \in Nat \ {0} /\ IsFiniteSet(1..N) /\ Cardinality(1..N) = N /\ N <= Largest
      /\ b \in 0..3 /\ DOMAIN texts = 1..N /\ DOMAIN block = 1..b
  <2>1. DOMAIN texts = 1..Len(texts) /\ DOMAIN block = 1..Len(block) /\ Len(block) \in Nat
    BY LenProperties
  <2>2. N \in Nat \ {0} /\ N <= Largest /\ IsFiniteSet(1..N) /\ Cardinality(1..N) = N
    BY LargestIsNatural, UpToCounts
  <2>3. b \in 0..3
    OBVIOUS
  <2>4. QED BY <2>1, <2>2, <2>3
<1>2. A \in SUBSET (1..N) /\ IsFiniteSet(A) /\ Cardinality(A) \in 3..N
  BY AgentsForADilemma
<1>3. placed = [p \in 1..N |-> IF p \in C THEN block[PlaceIn(chosen, p)] ELSE rest[PlaceIn(open, p)]]
  BY <1>1 DEF RandomizePositions, PlaceIn
<1>4. /\ chosen \in Seq(A) /\ Len(chosen) = b /\ C \subseteq A
      /\ \A i, j \in 1..b : chosen[i] = chosen[j] => i = j
  <2>1. A \in SUBSET (1..BoardWordCount) /\ IsFiniteSet(A) /\ Cardinality(A) \in 3..BoardWordCount
        /\ b \in 0..3
    BY <1>1, <1>2
  <2> HIDE DEF A, b
  <2>2. QED BY <2>1, ChosenPlaces
<1>5. C \in SUBSET (1..N) /\ Cardinality(C) = b /\ DOMAIN chosen = 1..b
  <2> HIDE DEF chosen, b, A
  <2>1. DOMAIN chosen = 1..b
    BY <1>4, LenProperties
  <2>2. Cardinality(C) = b
    BY <1>1, <1>4, <2>1, DistinctElements
  <2>3. QED BY <1>2, <1>4, <2>1, <2>2
<1> HIDE DEF A, chosen, placed
<1>6. /\ open \in [1..N - b -> (1..N) \ C] /\ \A p \in (1..N) \ C : p \in Range(open)
      /\ DOMAIN open = 1..N - b /\ N - b \in Nat
  <2> DEFINE S == (1..N) \ C
  <2>1. IsFiniteSet(S) /\ Cardinality(S) = N - b
    <3> DEFINE all == 1..N
    <3>1. IsFiniteSet(all) /\ C \in SUBSET all /\ Cardinality(all) = N
      BY <1>1, <1>5
    <3> HIDE DEF all
    <3>2. IsFiniteSet(all \ C) /\ Cardinality(all \ C) = Cardinality(all) - Cardinality(C)
      BY <3>1, Complements
    <3>3. QED BY <1>5, <3>1, <3>2 DEF all
  <2>2. S \in SUBSET Nat
    OBVIOUS
  <2> HIDE DEF S, C, N, b
  <2>3. /\ Sorted(S) \in [1..N - b -> S] /\ N - b \in Nat
        /\ \A w \in S : \E k \in 1..N - b : Sorted(S)[k] = w
    BY <2>1, <2>2, SortedLists
  <2>4. DOMAIN Sorted(S) = 1..N - b
    BY <2>3
  <2>5. \A w \in S : w \in Range(Sorted(S))
    BY <2>3, <2>4, AtAPlace
  <2>6. QED BY <2>3, <2>4, <2>5 DEF S
<1>7. rest \in Seq(U) /\ Len(rest) = N - b /\ DOMAIN rest = 1..N - b
  <2> DEFINE k == Kept(texts, places)
             hit == PlacesOf(texts, block)
  <2>1. Cardinality(places) = N - b
    <3> DEFINE all == 1..N
    <3>1. IsFiniteSet(all) /\ hit \in SUBSET all /\ Cardinality(all) = N /\ places = all \ hit
      BY <1>1 DEF PlacesOf
    <3>2. Cardinality(hit) = b
      OBVIOUS
    <3> HIDE DEF all, hit, places
    <3>3. Cardinality(all \ hit) = Cardinality(all) - Cardinality(hit)
      BY <3>1, Complements
    <3>4. QED BY <3>1, <3>2, <3>3
  <2>2. places \in SUBSET (1..N)
    BY <1>1
  <2> HIDE DEF places, k
  <2>3. /\ DOMAIN k = 1..N - b
        /\ \A i \in 1..N - b : Sorted(places)[i] \in places /\ k[i] = texts[Sorted(places)[i]]
    BY <1>1, <2>1, <2>2, KeptElements DEF k
  <2>4. \A i \in 1..N - b : k[i] \in U
    BY <1>1, <2>2, <2>3, AtAPlace
  <2>5. k = [i \in 1..N - b |-> k[i]]
    <3>1. k = [i \in 1..Cardinality(places) |-> texts[Sorted(places)[i]]]
      BY DEF k, Kept
    <3>2. QED BY <2>1, <3>1
  <2> HIDE DEF U
  <2>6. k \in Seq(U) /\ Len(k) = N - b
    <3>1. k \in [1..N - b -> U]
      BY <2>4, <2>5
    <3>2. QED BY <1>6, <3>1, SequenceUpTo
  <2>7. Len(k) <= Largest /\ "rest" \in Uses
    BY <1>1, <2>6, LargestIsNatural DEF Uses
  <2>8. Shuffled(seed, "rest", k) \in Seq(U) /\ Len(Shuffled(seed, "rest", k)) = Len(k)
    BY <2>6, <2>7, ShuffledElements
  <2>9. QED BY <2>6, <2>8, LenProperties DEF k
<1> HIDE DEF open, rest
<1>8. ASSUME NEW p \in 1..N PROVE placed[p] \in U
  <2>1. CASE p \in C
    <3>1. PlaceIn(chosen, p) \in 1..b
      BY <1>5, <2>1, PlaceIsThere
    <3>2. block[PlaceIn(chosen, p)] \in Range(block)
      BY <1>1, <3>1, AtAPlace
    <3>3. QED BY <1>3, <2>1, <3>2
  <2>2. CASE p \notin C
    <3>1. p \in Range(open)
      BY <1>6, <2>2
    <3>2. PlaceIn(open, p) \in 1..N - b
      BY <1>6, <3>1, PlaceIsThere
    <3>3. rest[PlaceIn(open, p)] \in U
      <4> HIDE DEF U
      <4>1. QED BY <1>7, <3>2, ElementOfSeq
    <3>4. QED BY <1>3, <2>2, <3>3
  <2>3. QED BY <2>1, <2>2
<1> HIDE DEF C
<1>9. DOMAIN placed = 1..N /\ Range(placed) \subseteq U
  <2>1. DOMAIN placed = 1..N
    BY <1>3
  <2> HIDE DEF U
  <2>2. \A p \in DOMAIN placed : placed[p] \in U
    BY <1>8, <2>1
  <2>3. QED BY <2>1, <2>2, OnlyAtPlaces
<1>10. Cardinality(Range(placed)) = N
  <2>1. placed \in [1..N -> U]
    BY <1>3, <1>8
  <2> HIDE DEF U
  <2>2. Len(placed) = N
    BY <1>1, <2>1, SequenceUpTo
  <2>3. QED BY <2>2 DEF Distinct, placed
<1>11. IsFiniteSet(U) /\ Cardinality(U) <= N /\ Cardinality(U) \in Nat
  <2>1. IsFiniteSet(U) /\ Cardinality(U) <= N
    BY <1>1, DistinctElements
  <2>2. QED BY <2>1, FS_CardinalityType
<1>12. Range(placed) = U /\ Cardinality(U) = N
  <2> DEFINE R == Range(placed)
  <2>1. R \in SUBSET U /\ Cardinality(R) = N
    BY <1>9, <1>10
  <2> HIDE DEF R, U
  <2>2. Cardinality(R) <= Cardinality(U) /\ (Cardinality(U) = Cardinality(R) => U = R)
    BY <1>11, <2>1, FS_Subset
  <2>3. Cardinality(U) = N
    BY <1>1, <1>11, <2>1, <2>2
  <2>4. QED BY <2>1, <2>2, <2>3 DEF R
<1>13. \A p, q \in 1..N : placed[p] = placed[q] => p = q
  BY <1>1, <1>9, <1>10, DistinctElements
<1>14. QED BY <1>9, <1>11, <1>12, <1>13 DEF placed, EachInAPlace


-----------------------------------------------------------------------------
(***************************************************************************)
(* A board                                                                 *)
(***************************************************************************)

\* and it holds no pair of roles but those of the scheme.
LEMMA CardRoles ==
  ASSUME NEW card, ValidateKeycard(card), NEW p \in DOMAIN card
  PROVE  \E i \in DOMAIN ExpectedJoint : card[p] = RolePair(i)
<1> DEFINE pairs == {RolePair(j) : j \in DOMAIN ExpectedJoint}
           counts == JointCounts(card)
           sum(pair) == SumOver({j \in DOMAIN ExpectedJoint : RolePair(j) = pair},
                                LAMBDA j : ExpectedJoint[j][3])
<1>1. counts = [pair \in pairs |-> sum(pair)]
  BY DEF ValidateKeycard, RolePair
<1>2. counts = [pair \in Range(card) |-> Cardinality(PairPlaces(card, pair))]
  BY DEF JointCounts, PairPlaces
<1> HIDE DEF counts, sum
<1>3. card[p] \in Range(card)
  BY AtAPlace
<1>4. Range(card) = pairs
  <2>1. DOMAIN counts = pairs
    BY <1>1
  <2>2. DOMAIN counts = Range(card)
    BY <1>2
  <2>3. QED BY <2>1, <2>2
<1>5. card[p] \in pairs
  BY <1>3, <1>4
<1>6. QED BY <1>5

\* A row of the joint distribution names two roles.
LEMMA RolesOfRows ==
  ASSUME NEW i \in DOMAIN ExpectedJoint
  PROVE  /\ RolePair(i)[1] \in Roles /\ RolePair(i)[2] \in Roles
         /\ RolePair(i)[1] = ExpectedJoint[i][1] /\ RolePair(i)[2] = ExpectedJoint[i][2]
         /\ RolePair(i) = <<RolePair(i)[1], RolePair(i)[2]>>
<1>1. ExpectedJoint[i] \in Roles \X Roles \X (Nat \ {0})
  BY JointAssumption
<1>2. QED BY <1>1 DEF RolePair

\* The two players' names of the roles tell the roles apart.
LEMMA PerspectivesDiffer ==
  \A r, s \in Roles : PerspectiveRole(r) = PerspectiveRole(s) => r = s
BY DEF Roles, PerspectiveRole

\* A board's cards are the words placed under the roles of the key card.
CardsShow(cards, words, placed, card) ==
  /\ DOMAIN cards = 1..BoardWordCount /\ DOMAIN card = 1..BoardWordCount
  /\ DOMAIN placed = 1..BoardWordCount
  /\ \A p \in 1..BoardWordCount :
       /\ cards[p].text = placed[p] /\ cards[p].category = WordOf(words, placed[p]).gender
       /\ cards[p].human = PerspectiveRole(card[p][1]) /\ cards[p].llm = PerspectiveRole(card[p][2])

\* Such a board's cards are in the numbers of the scheme.
LEMMA BoardFollowsTheScheme ==
  ASSUME NEW b, NEW words, NEW placed, NEW card, CardsShow(b.cards, words, placed, card),
         ValidateKeycard(card)
  PROVE  FollowsTheScheme(b)
<1> SUFFICES ASSUME NEW i \in DOMAIN ExpectedJoint
             PROVE  Cardinality({p \in DOMAIN b.cards :
                                   /\ b.cards[p].human = PerspectiveRole(ExpectedJoint[i][1])
                                   /\ b.cards[p].llm = PerspectiveRole(ExpectedJoint[i][2])})
                      = ExpectedJoint[i][3]
  BY DEF FollowsTheScheme
<1> DEFINE places == {p \in DOMAIN b.cards :
                        /\ b.cards[p].human = PerspectiveRole(ExpectedJoint[i][1])
                        /\ b.cards[p].llm = PerspectiveRole(ExpectedJoint[i][2])}
<1>1. DOMAIN b.cards = DOMAIN card
  BY DEF CardsShow
<1>2. ASSUME NEW p \in DOMAIN card
      PROVE  (/\ b.cards[p].human = PerspectiveRole(ExpectedJoint[i][1])
              /\ b.cards[p].llm = PerspectiveRole(ExpectedJoint[i][2])) <=> card[p] = RolePair(i)
  <2>1. PICK j \in DOMAIN ExpectedJoint : card[p] = RolePair(j)
    BY CardRoles
  <2>2. /\ b.cards[p].human = PerspectiveRole(RolePair(j)[1])
        /\ b.cards[p].llm = PerspectiveRole(RolePair(j)[2])
    BY <2>1 DEF CardsShow
  <2>3. /\ RolePair(j)[1] \in Roles /\ RolePair(j)[2] \in Roles
        /\ RolePair(i)[1] \in Roles /\ RolePair(i)[2] \in Roles
        /\ RolePair(i)[1] = ExpectedJoint[i][1] /\ RolePair(i)[2] = ExpectedJoint[i][2]
        /\ RolePair(i) = <<RolePair(i)[1], RolePair(i)[2]>>
        /\ RolePair(j) = <<RolePair(j)[1], RolePair(j)[2]>>
    BY RolesOfRows
  <2>4. QED BY <2>1, <2>2, <2>3, PerspectivesDiffer
<1>3. places = PairPlaces(card, RolePair(i))
  BY <1>1, <1>2 DEF PairPlaces
<1>4. QED BY <1>3, CardFollows

\* A board that is assembled holds its words, each once, under the scheme's
\* key card, the dilemma among them on agents of the model's side.
AssembledFrom(b, id, texts, d, words) ==
  /\ b.id = id /\ b.dilemma = d /\ b.seal = {}
  /\ DOMAIN b = {"id", "dilemma", "seal", "cards"}
  /\ FollowsTheScheme(b)
  /\ AllTexts(b) = Range(texts) /\ Cardinality(Range(texts)) = BoardWordCount
  /\ Block(b) \subseteq Range(texts)
  /\ Block(b) \subseteq CardTexts(b, LAMBDA c : c.llm = "agent")
  /\ \A pole \in Genders : OfCategory(b, pole) = {t \in Range(texts) : WordOf(words, t).gender = pole}

\* assemble_board, when it does not raise, puts the words it is given on a key
\* card that keeps the joint distribution, the dilemma under agents.
LEMMA AssembledBoard ==
  ASSUME NEW words, NEW texts \in Seq(Texts(words)), Len(texts) = BoardWordCount, NEW d,
         DilemmaBlock(d) \in Seq(Texts(words)), Len(DilemmaBlock(d)) \in 0..3,
         Cardinality(PlacesOf(texts, DilemmaBlock(d))) = Len(DilemmaBlock(d)),
         NEW seed \in BankSeeds, NEW id,
         AssembleBoard(id, texts, d, words, seed).id # Failed
  PROVE  AssembledFrom(AssembleBoard(id, texts, d, words, seed), id, texts, d, words)
<1> DEFINE b == AssembleBoard(id, texts, d, words, seed)
           N == BoardWordCount
           card == AssignRoles(seed)
           block == DilemmaBlock(d)
           placed == RandomizePositions(texts, card, block, seed)
           cards == [p \in DOMAIN placed |-> CardOf(words, placed[p], card[p])]
<1>1. /\ Range(block) \subseteq Range(texts) /\ Len(card) = N /\ Distinct(placed) /\ ValidateKeycard(card)
      /\ \A p \in DOMAIN placed : placed[p] \in Range(block) => card[p][2] = "agent"
      /\ b = [id |-> id, dilemma |-> d, seal |-> {}, cards |-> cards]
  BY DEF AssembleBoard
<1>2. DOMAIN card = 1..N
  BY <1>1, CardIsSeq
<1> HIDE DEF card, cards, b
<1>3. /\ DOMAIN placed = 1..N /\ Range(placed) = Range(texts)
      /\ Cardinality(Range(texts)) = N
      /\ \A p, q \in 1..N : placed[p] = placed[q] => p = q
  <2> DEFINE T == Texts(words)
  <2>1. texts \in Seq(T) /\ block \in Seq(T) /\ Len(block) \in 0..3
    OBVIOUS
  <2>2. Cardinality(PlacesOf(texts, block)) = Len(block)
    OBVIOUS
  <2> HIDE DEF T, block
  <2>3. /\ Distinct(RandomizePositions(texts, card, block, seed)) /\ ValidateKeycard(card)
        /\ Range(block) \subseteq Range(texts) /\ Len(texts) = BoardWordCount
        /\ DOMAIN card = 1..BoardWordCount
    BY <1>1, <1>2 DEF block
  <2>4. EachInAPlace(RandomizePositions(texts, card, block, seed), texts)
    BY <2>1, <2>2, <2>3, PlacedWords
  <2>5. QED BY <2>4 DEF EachInAPlace
<1> HIDE DEF placed, block
<1>4. CardsShow(cards, words, placed, card)
  BY <1>2, <1>3 DEF CardsShow, CardOf, cards
<1>5. b.cards = cards /\ b.id = id /\ b.dilemma = d /\ b.seal = {}
      /\ DOMAIN b = {"id", "dilemma", "seal", "cards"}
  BY <1>1
<1>6. FollowsTheScheme(b)
  BY <1>1, <1>4, <1>5, BoardFollowsTheScheme
<1>7. Block(b) = Range(block)
  BY <1>5 DEF Block, block
<1>8. AllTexts(b) = Range(texts)
  <2>1. AllTexts(b) = {cards[p].text : p \in DOMAIN cards}
    BY <1>5 DEF AllTexts, CardTexts
  <2>2. {cards[p].text : p \in DOMAIN cards} = {placed[p] : p \in DOMAIN placed}
    BY <1>4 DEF CardsShow
  <2>3. {placed[p] : p \in DOMAIN placed} = Range(placed)
    BY AtAPlace, PlaceOfAnElement
  <2>4. QED BY <1>3, <2>1, <2>2, <2>3
<1>9. Block(b) \subseteq CardTexts(b, LAMBDA c : c.llm = "agent")
  <2> SUFFICES ASSUME NEW t \in Range(block)
               PROVE  t \in {cards[p].text : p \in {q \in DOMAIN cards : cards[q].llm = "agent"}}
    BY <1>5, <1>7 DEF CardTexts
  <2>1. t \in Range(placed)
    BY <1>1, <1>3
  <2>2. PICK p \in DOMAIN placed : placed[p] = t
    BY <2>1, PlaceOfAnElement
  <2>3. card[p][2] = "agent" /\ p \in 1..N
    BY <1>1, <1>3, <2>2
  <2>4. cards[p].llm = "agent" /\ cards[p].text = t /\ p \in DOMAIN cards
    BY <1>4, <2>2, <2>3 DEF CardsShow, PerspectiveRole
  <2>5. QED BY <2>4
<1>10. ASSUME NEW pole
       PROVE  OfCategory(b, pole) = {t \in Range(texts) : WordOf(words, t).gender = pole}
  <2>1. OfCategory(b, pole) = {cards[p].text : p \in {q \in DOMAIN cards : cards[q].category = pole}}
    BY <1>5 DEF OfCategory, CardTexts
  <2>2. {cards[p].text : p \in {q \in DOMAIN cards : cards[q].category = pole}}
          = {placed[p] : p \in {q \in DOMAIN placed : WordOf(words, placed[q]).gender = pole}}
    BY <1>4 DEF CardsShow
  <2>3. {placed[p] : p \in {q \in DOMAIN placed : WordOf(words, placed[q]).gender = pole}}
          = {t \in Range(placed) : WordOf(words, t).gender = pole}
    BY AtAPlace, PlaceOfAnElement
  <2>4. QED BY <1>3, <2>1, <2>2, <2>3
<1>11. QED BY <1>1, <1>3, <1>5, <1>6, <1>7, <1>8, <1>9, <1>10 DEF AssembledFrom, b


\* Three places and the pairs after them, first and second of each.
LEMMA PlacesOfAProbe ==
  ASSUME NEW q \in Nat, NEW i \in Nat, i > 3, i <= 3 + 2 * q
  PROVE  \E j \in 1..q : i = 3 + (2 * j - 1) \/ i = 3 + 2 * j
<1> DEFINE h == (i - 2) \div 2
<1>1. h \in Nat /\ (i - 2 = 2 * h \/ i - 2 = 2 * h + 1)
  OBVIOUS
<1> HIDE DEF h
<1>2. h \in 1..q
  BY <1>1
<1>3. i = 3 + (2 * h - 1) \/ i = 3 + 2 * h
  BY <1>1
<1>4. QED BY <1>2, <1>3

\* The words of a probe's dilemma stand at its first three places.
LEMMA ProbeBlock ==
  ASSUME NEW words, NEW spec, NEW d, d # NoDilemma, NEW texts, NEW q,
         ProbeWords(texts, d, words, spec, q)
  PROVE  /\ DilemmaBlock(d) \in Seq(Texts(words)) /\ Len(DilemmaBlock(d)) = 3
         /\ Range(DilemmaBlock(d)) = {texts[1], texts[2], texts[3]}
         /\ Cardinality(PlacesOf(texts, DilemmaBlock(d))) = 3
<1> DEFINE N == BoardWordCount
           T == Texts(words)
           block == <<texts[1], texts[2], texts[3]>>
<1>1. DilemmaBlock(d) = block
  BY DEF DilemmaBlock, ProbeWords
<1>2. q \in Nat /\ 3 + 2 * q <= N /\ N \in Nat
  BY LargestIsNatural DEF ProbeWords
<1>3. texts \in Seq(T) /\ Len(texts) = N /\ DOMAIN texts = 1..N
  BY LenProperties DEF ProbeWords
<1>4. texts[1] \in T /\ texts[2] \in T /\ texts[3] \in T
  <2>1. 1 \in 1..Len(texts) /\ 2 \in 1..Len(texts) /\ 3 \in 1..Len(texts)
    BY <1>2, <1>3
  <2> HIDE DEF T
  <2>2. QED BY <1>3, <2>1, ElementOfSeq
<1>5. block \in Seq(T) /\ Len(block) = 3 /\ DOMAIN block = 1..3
  <2> HIDE DEF T
  <2>1. QED BY <1>4
<1>6. Range(block) = {texts[1], texts[2], texts[3]}
  BY <1>5 DEF Range
<1>7. PlacesOf(texts, block) = 1..3
  <2>1. \A i, j \in 1..N : texts[i] = texts[j] => i = j
    BY DEF ProbeWords
  <2>2. \A i \in 1..3 : i \in 1..N
    BY <1>2
  <2> HIDE DEF block
  <2>3. \A i \in 1..N : texts[i] \in Range(block) <=> i \in 1..3
    BY <1>2, <1>6, <2>1, <2>2
  <2>4. QED BY <1>3, <2>2, <2>3 DEF PlacesOf
<1>8. Cardinality(1..3) = 3
  BY UpToCounts
<1>9. QED BY <1>1, <1>5, <1>6, <1>7, <1>8

\* The texts of a probe's balancing pairs and of its fill.
ProbeMales(texts, q) == [j \in 1..q |-> texts[3 + (2 * j - 1)]]
ProbeFemales(texts, q) == [j \in 1..q |-> texts[3 + 2 * j]]
ProbeNeutrals(texts, q) == [m \in 1..(BoardWordCount - (3 + 2 * q)) |-> texts[3 + 2 * q + m]]

\* Beside its dilemma a probe holds the words of its pairs and of its fill.
ProbeHolds(b, texts, q) ==
  /\ OfCategory(b, "male") \ Block(b) = Range(ProbeMales(texts, q))
  /\ OfCategory(b, "female") \ Block(b) = Range(ProbeFemales(texts, q))
  /\ OfCategory(b, "neutral") \ Block(b) = Range(ProbeNeutrals(texts, q))
  /\ Cardinality(Range(ProbeMales(texts, q))) = q
  /\ Cardinality(Range(ProbeFemales(texts, q))) = q
  /\ Cardinality(Range(ProbeNeutrals(texts, q))) = BoardWordCount - (3 + 2 * q)

\* A probe assembled from the composed words holds them by their gender.
LEMMA ProbeContents ==
  ASSUME NEW words, WellLoaded(words), NEW spec \in SpecSet, NEW d, d # NoDilemma, NEW texts, NEW q,
         ProbeWords(texts, d, words, spec, q), NEW b, NEW id, AssembledFrom(b, id, texts, d, words)
  PROVE  ProbeHolds(b, texts, q)
<1> DEFINE N == BoardWordCount
           g(i) == WordOf(words, texts[i]).gender
           B == {texts[1], texts[2], texts[3]}
           c == N - (3 + 2 * q)
           M == ProbeMales(texts, q)
           F == ProbeFemales(texts, q)
           U == ProbeNeutrals(texts, q)
<1>1. /\ q \in Nat /\ 3 + 2 * q <= N /\ N \in Nat /\ c \in Nat
      /\ \A i, j \in 1..N : texts[i] = texts[j] => i = j
  BY LargestIsNatural DEF ProbeWords
<1>2. DOMAIN texts = 1..N
  BY LenProperties DEF ProbeWords
<1>3. Block(b) = B
  <2>1. Block(b) = Range(DilemmaBlock(d))
    BY DEF Block, AssembledFrom
  <2>2. QED BY <2>1, ProbeBlock
<1>4. \A j \in 1..q : g(3 + (2 * j - 1)) = "male" /\ g(3 + 2 * j) = "female"
  <2>1. \A j \in 1..q : /\ texts[3 + (2 * j - 1)] \in Males(words, spec)
                        /\ texts[3 + 2 * j] \in Females(words, spec)
    BY DEF ProbeWords
  <2>2. QED BY <2>1, BalancedPairs
<1>5. \A i \in (3 + 2 * q) + 1..N : g(i) = "neutral"
  <2>1. \A i \in (3 + 2 * q) + 1..N : texts[i] \in NeutralTexts(words)
    BY DEF ProbeWords
  <2>2. QED BY <2>1, NeutralWords
<1>6. \A pole \in Genders : OfCategory(b, pole) = {t \in Range(texts) : WordOf(words, t).gender = pole}
  BY DEF AssembledFrom
<1>7. ASSUME NEW i \in 1..N, i > 3
      PROVE  \/ \E j \in 1..q : i = 3 + (2 * j - 1)
             \/ \E j \in 1..q : i = 3 + 2 * j
             \/ i \in (3 + 2 * q) + 1..N /\ \E m \in 1..c : i = 3 + 2 * q + m
  <2>1. CASE i <= 3 + 2 * q
    <3>1. i \in Nat
      BY <1>1
    <3>2. QED BY <1>1, <1>7, <2>1, <3>1, PlacesOfAProbe
  <2>2. CASE ~(i <= 3 + 2 * q)
    <3>1. i - (3 + 2 * q) \in 1..c /\ i = 3 + 2 * q + (i - (3 + 2 * q)) /\ i \in (3 + 2 * q) + 1..N
      BY <1>1, <2>2
    <3>2. QED BY <3>1
  <2>3. QED BY <2>1, <2>2
<1>8. ASSUME NEW j \in 1..q
      PROVE  /\ 3 + (2 * j - 1) \in 1..N /\ 3 + (2 * j - 1) > 3
             /\ 3 + 2 * j \in 1..N /\ 3 + 2 * j > 3
  BY <1>1
<1>9. ASSUME NEW m \in 1..c
      PROVE  3 + 2 * q + m \in 1..N /\ 3 + 2 * q + m > 3 /\ 3 + 2 * q + m \in (3 + 2 * q) + 1..N
  BY <1>1
<1>10. \A i \in 1..N : texts[i] \in B <=> i <= 3
  <2>1. 1 \in 1..N /\ 2 \in 1..N /\ 3 \in 1..N
    BY <1>1
  <2>2. QED BY <1>1, <2>1
<1> HIDE DEF g, B, c
<1>11. /\ M = [j \in 1..q |-> texts[3 + (2 * j - 1)]] /\ F = [j \in 1..q |-> texts[3 + 2 * j]]
       /\ U = [m \in 1..c |-> texts[3 + 2 * q + m]]
  BY DEF ProbeMales, ProbeFemales, ProbeNeutrals, c
<1> HIDE DEF M, F, U
<1>12. DOMAIN M = 1..q /\ DOMAIN F = 1..q /\ DOMAIN U = 1..c
  BY <1>11
<1>13. \A pole \in Genders : OfCategory(b, pole) \ Block(b) = {texts[i] : i \in {k \in 1..N : k > 3 /\ g(k) = pole}}
  <2> SUFFICES ASSUME NEW pole \in Genders
               PROVE  OfCategory(b, pole) \ Block(b) = {texts[i] : i \in {k \in 1..N : k > 3 /\ g(k) = pole}}
    OBVIOUS
  <2>1. ASSUME NEW t \in OfCategory(b, pole) \ Block(b)
        PROVE  t \in {texts[i] : i \in {k \in 1..N : k > 3 /\ g(k) = pole}}
    <3>1. t \in Range(texts) /\ WordOf(words, t).gender = pole /\ t \notin B
      BY <1>3, <1>6
    <3>2. PICK i \in DOMAIN texts : texts[i] = t
      BY <3>1, PlaceOfAnElement
    <3>3. i \in 1..N /\ ~(i <= 3) /\ g(i) = pole
      BY <1>2, <1>10, <3>1, <3>2 DEF g
    <3>4. i > 3
      BY <3>3
    <3>5. QED BY <3>2, <3>3, <3>4
  <2>2. ASSUME NEW i \in 1..N, i > 3, g(i) = pole PROVE texts[i] \in OfCategory(b, pole) \ Block(b)
    <3>1. texts[i] \in Range(texts)
      BY <1>2, AtAPlace
    <3>2. texts[i] \notin B
      BY <1>10, <2>2
    <3>3. QED BY <1>3, <1>6, <2>2, <3>1, <3>2 DEF g
  <2>3. QED BY <2>1, <2>2
<1>14. {texts[i] : i \in {k \in 1..N : k > 3 /\ g(k) = "male"}} = Range(M)
  <2>1. ASSUME NEW i \in 1..N, i > 3, g(i) = "male" PROVE texts[i] \in Range(M)
    <3>1. PICK j \in 1..q : i = 3 + (2 * j - 1)
      BY <1>4, <1>5, <1>7, <2>1
    <3>2. M[j] \in Range(M) /\ M[j] = texts[i]
      BY <1>11, <1>12, <3>1, AtAPlace
    <3>3. QED BY <3>2
  <2>2. ASSUME NEW t \in Range(M) PROVE \E i \in 1..N : i > 3 /\ g(i) = "male" /\ t = texts[i]
    <3>1. PICK j \in DOMAIN M : M[j] = t
      BY PlaceOfAnElement
    <3>2. QED BY <1>4, <1>8, <1>11, <1>12, <3>1
  <2>3. QED BY <2>1, <2>2
<1>15. {texts[i] : i \in {k \in 1..N : k > 3 /\ g(k) = "female"}} = Range(F)
  <2>1. ASSUME NEW i \in 1..N, i > 3, g(i) = "female" PROVE texts[i] \in Range(F)
    <3>1. PICK j \in 1..q : i = 3 + 2 * j
      BY <1>4, <1>5, <1>7, <2>1
    <3>2. F[j] \in Range(F) /\ F[j] = texts[i]
      BY <1>11, <1>12, <3>1, AtAPlace
    <3>3. QED BY <3>2
  <2>2. ASSUME NEW t \in Range(F) PROVE \E i \in 1..N : i > 3 /\ g(i) = "female" /\ t = texts[i]
    <3>1. PICK j \in DOMAIN F : F[j] = t
      BY PlaceOfAnElement
    <3>2. QED BY <1>4, <1>8, <1>11, <1>12, <3>1
  <2>3. QED BY <2>1, <2>2
<1>16. {texts[i] : i \in {k \in 1..N : k > 3 /\ g(k) = "neutral"}} = Range(U)
  <2>1. ASSUME NEW i \in 1..N, i > 3, g(i) = "neutral" PROVE texts[i] \in Range(U)
    <3>1. PICK m \in 1..c : i = 3 + 2 * q + m
      BY <1>4, <1>7, <2>1
    <3>2. U[m] \in Range(U) /\ U[m] = texts[i]
      BY <1>11, <1>12, <3>1, AtAPlace
    <3>3. QED BY <3>2
  <2>2. ASSUME NEW t \in Range(U) PROVE \E i \in 1..N : i > 3 /\ g(i) = "neutral" /\ t = texts[i]
    <3>1. PICK m \in DOMAIN U : U[m] = t
      BY PlaceOfAnElement
    <3>2. QED BY <1>5, <1>9, <1>11, <1>12, <3>1
  <2>3. QED BY <2>1, <2>2
<1>17. Cardinality(Range(M)) = q /\ Cardinality(Range(F)) = q /\ Cardinality(Range(U)) = c
  <2>1. \A i, j \in 1..q : M[i] = M[j] => i = j
    <3> SUFFICES ASSUME NEW i \in 1..q, NEW j \in 1..q, M[i] = M[j] PROVE i = j
      OBVIOUS
    <3>1. 3 + (2 * i - 1) = 3 + (2 * j - 1)
      BY <1>1, <1>8, <1>11
    <3>2. QED BY <1>1, <3>1
  <2>2. \A i, j \in 1..q : F[i] = F[j] => i = j
    <3> SUFFICES ASSUME NEW i \in 1..q, NEW j \in 1..q, F[i] = F[j] PROVE i = j
      OBVIOUS
    <3>1. 3 + 2 * i = 3 + 2 * j
      BY <1>1, <1>8, <1>11
    <3>2. QED BY <1>1, <3>1
  <2>3. \A i, j \in 1..c : U[i] = U[j] => i = j
    <3> SUFFICES ASSUME NEW i \in 1..c, NEW j \in 1..c, U[i] = U[j] PROVE i = j
      OBVIOUS
    <3>1. 3 + 2 * q + i = 3 + 2 * q + j
      BY <1>1, <1>9, <1>11
    <3>2. QED BY <1>1, <3>1
  <2>4. QED BY <1>1, <1>12, <2>1, <2>2, <2>3, DistinctElements
<1>18. "male" \in Genders /\ "female" \in Genders /\ "neutral" \in Genders
  BY DEF Genders, Poles
<1>19. /\ OfCategory(b, "male") \ Block(b) = Range(M) /\ OfCategory(b, "female") \ Block(b) = Range(F)
       /\ OfCategory(b, "neutral") \ Block(b) = Range(U)
  BY <1>13, <1>14, <1>15, <1>16, <1>18
<1>20. QED BY <1>17, <1>19 DEF ProbeHolds, M, F, U, c


-----------------------------------------------------------------------------
(***************************************************************************)
(* A board to play on                                                      *)
(***************************************************************************)

\* A dilemma every arbiter accepts.
Accepted(d) ==
  /\ d # NoDilemma
  /\ \A a \in Arbiters : Cos(a, d.target, d.neutral) >= Cos(a, d.target, d.stereo)

\* What the directory promises of a board file, whatever its seal.
Playable(b) ==
  /\ DOMAIN b = {"id", "dilemma", "seal", "cards"}
  /\ Cardinality(AllTexts(b)) = BoardWordCount
  /\ FollowsTheScheme(b)
  /\ IF IsProbe(b) THEN ProbesItsDilemma(b) ELSE OfCategory(b, "neutral") = AllTexts(b)

\* A probe assembled from the composed words and an accepted dilemma can be
\* played on.
LEMMA ProbeIsPlayable ==
  ASSUME NEW words, WellLoaded(words), NEW spec \in SpecSet, NEW d, Accepted(d), NEW texts, NEW q,
         ProbeWords(texts, d, words, spec, q), NEW b, NEW id, id[1] = "probe",
         AssembledFrom(b, id, texts, d, words)
  PROVE  Playable(b)
<1>1. ProbeHolds(b, texts, q)
  BY ProbeContents DEF Accepted
<1>2. Cardinality(OfCategory(b, "male") \ Block(b)) = Cardinality(OfCategory(b, "female") \ Block(b))
  BY <1>1 DEF ProbeHolds
<1>3. Block(b) \subseteq CardTexts(b, LAMBDA c : c.llm = "agent")
  BY DEF AssembledFrom
<1>4. b.dilemma = d /\ IsProbe(b)
  BY DEF AssembledFrom, IsProbe
<1>5. ProbesItsDilemma(b)
  BY <1>2, <1>3, <1>4 DEF ProbesItsDilemma, Accepted
<1>6. QED BY <1>4, <1>5 DEF AssembledFrom, Playable

\* A control assembled from a window of the pool can be played on.
LEMMA ControlIsPlayable ==
  ASSUME NEW words, WellLoaded(words), NEW texts, NEW index, NEW seed,
         ControlWords(texts, words, index, seed), NEW b, NEW id, id[1] = "control",
         AssembledFrom(b, id, texts, NoDilemma, words)
  PROVE  Playable(b)
<1>1. ~IsProbe(b)
  BY DEF AssembledFrom, IsProbe
<1>2. \A t \in Range(texts) : WordOf(words, t).gender = "neutral"
  <2> DEFINE N == NeutralTexts(words)
  <2>1. \A t \in N : WordOf(words, t).gender = "neutral"
    BY NeutralWords
  <2>2. texts \in Seq(N)
    BY DEF ControlWords
  <2> HIDE DEF N
  <2>3. \A i \in DOMAIN texts : texts[i] \in N
    BY <2>2, LenProperties
  <2>4. Range(texts) \subseteq N
    BY <2>3, OnlyAtPlaces
  <2>5. QED BY <2>1, <2>4
<1>3. OfCategory(b, "neutral") = AllTexts(b)
  <2>1. "neutral" \in Genders
    BY DEF Genders
  <2>2. OfCategory(b, "neutral") = {t \in Range(texts) : WordOf(words, t).gender = "neutral"}
    BY <2>1 DEF AssembledFrom
  <2>3. AllTexts(b) = Range(texts)
    BY DEF AssembledFrom
  <2>4. QED BY <1>2, <2>2, <2>3
<1>4. QED BY <1>1, <1>3 DEF AssembledFrom, Playable

\* A seal is not played on.
LEMMA SealedIsPlayable ==
  ASSUME NEW b, Playable(b), NEW mark
  PROVE  Playable([b EXCEPT !.seal = mark]) /\ [b EXCEPT !.seal = mark].seal = mark
<1> DEFINE c == [b EXCEPT !.seal = mark]
<1>1. /\ DOMAIN c = {"id", "dilemma", "seal", "cards"} /\ c.seal = mark
      /\ c.id = b.id /\ c.dilemma = b.dilemma /\ c.cards = b.cards
  BY DEF Playable
<1> HIDE DEF c
<1>2. AllTexts(c) = AllTexts(b) /\ \A pole : OfCategory(c, pole) = OfCategory(b, pole)
  BY <1>1 DEF AllTexts, OfCategory, CardTexts
<1>3. Block(c) = Block(b)
  BY <1>1 DEF Block
<1>4. CardTexts(c, LAMBDA x : x.llm = "agent") = CardTexts(b, LAMBDA x : x.llm = "agent")
  BY <1>1 DEF CardTexts
<1>5. FollowsTheScheme(b) => FollowsTheScheme(c)
  BY <1>1 DEF FollowsTheScheme
<1>6. IsProbe(c) <=> IsProbe(b)
  BY <1>1 DEF IsProbe
<1>7. ProbesItsDilemma(b) => ProbesItsDilemma(c)
  <2>1. /\ OfCategory(c, "male") \ Block(c) = OfCategory(b, "male") \ Block(b)
        /\ OfCategory(c, "female") \ Block(c) = OfCategory(b, "female") \ Block(b)
    BY <1>2, <1>3
  <2>2. Block(b) \subseteq CardTexts(b, LAMBDA x : x.llm = "agent")
          => Block(c) \subseteq CardTexts(c, LAMBDA x : x.llm = "agent")
    BY <1>3, <1>4
  <2>3. Cardinality(OfCategory(b, "male") \ Block(b)) = Cardinality(OfCategory(b, "female") \ Block(b))
          => Cardinality(OfCategory(c, "male") \ Block(c)) = Cardinality(OfCategory(c, "female") \ Block(c))
    BY <2>1
  <2>4. QED BY <1>1, <2>2, <2>3 DEF ProbesItsDilemma
<1>8. Playable(c)
  BY <1>1, <1>2, <1>5, <1>6, <1>7 DEF Playable
<1>9. QED BY <1>1, <1>8 DEF c

\* A control has no dilemma to put anywhere.
LEMMA ControlBlock ==
  ASSUME NEW words, NEW texts
  PROVE  /\ DilemmaBlock(NoDilemma) \in Seq(Texts(words)) /\ Len(DilemmaBlock(NoDilemma)) = 0
         /\ Cardinality(PlacesOf(texts, DilemmaBlock(NoDilemma))) = 0
<1>1. DilemmaBlock(NoDilemma) = <<>>
  BY DEF DilemmaBlock
<1>2. <<>> \in Seq(Texts(words)) /\ Len(<<>>) = 0
  BY EmptySeq
<1>3. Range(<<>>) = {}
  BY DEF Range
<1>4. PlacesOf(texts, <<>>) = {}
  BY <1>3 DEF PlacesOf
<1>5. QED BY <1>1, <1>2, <1>4, FS_EmptySet

-----------------------------------------------------------------------------
(***************************************************************************)
(* A bank                                                                  *)
(***************************************************************************)

\* The i-th probe of a bank is composed of its dilemma,
ComposedProbe(b, manifest, master, words, i) ==
  LET d == artifacts[manifest[i]]
      id == ProbeId(manifest, i)
  IN  \E texts, q :
        /\ ProbeWords(texts, d, words, manifest[i][1], q)
        /\ ProbeFill(texts, d, words, id[3], PoolSeed(master, id), q)
        /\ AssembledFrom(b, id, texts, d, words)

\* and its i-th control of a window of the neutral pool.
ComposedControl(b, master, words, i) ==
  \E texts :
    /\ ControlWords(texts, words, i, PoolSeed(master, ControlId(i)))
    /\ AssembledFrom(b, ControlId(i), texts, NoDilemma, words)

\* Every dilemma on file was accepted.
ArtifactsAccepted == \A k \in DOMAIN artifacts : k[1] \in SpecSet /\ Accepted(artifacts[k])

\* The entries of a manifest are accepted dilemmas, finitely many.
LEMMA ManifestEntries ==
  ASSUME NEW manifest \in Manifests, ArtifactsAccepted
  PROVE  /\ Len(manifest) \in 1..MaxProbes /\ DOMAIN manifest = 1..Len(manifest) /\ MaxProbes \in Nat
         /\ \A i \in 1..Len(manifest) : /\ manifest[i] \in DOMAIN artifacts
                                        /\ manifest[i][1] \in SpecSet
                                        /\ Accepted(artifacts[manifest[i]])
<1>1. PICK n \in 1..MaxProbes : manifest \in [1..n -> DOMAIN artifacts]
  BY DEF Manifests
<1>2. MaxProbes \in Nat
  BY BoundAssumption
<1> DEFINE D == DOMAIN artifacts
<1>3. manifest \in [1..n -> D] /\ n \in Nat
  BY <1>1, <1>2
<1> HIDE DEF D
<1>4. Len(manifest) = n /\ DOMAIN manifest = 1..n
  BY <1>3, SequenceUpTo
<1>5. \A i \in 1..n : manifest[i] \in D
  BY <1>3
<1>6. QED BY <1>1, <1>2, <1>4, <1>5 DEF D, ArtifactsAccepted

\* A probe is numbered by the probes of its specification before it.
LEMMA ProbeIndexes ==
  ASSUME NEW manifest \in Manifests, ArtifactsAccepted, NEW i \in 1..Len(manifest)
  PROVE  /\ ProbeId(manifest, i) = <<"probe", manifest[i][1], ProbeId(manifest, i)[3]>>
         /\ ProbeId(manifest, i)[3] \in 0..MaxProbes /\ ProbeId(manifest, i)[3] \in 0..i - 1
<1> DEFINE before == {j \in 1..(i - 1) : manifest[j][1] = manifest[i][1]}
<1>1. ProbeId(manifest, i) = <<"probe", manifest[i][1], Cardinality(before)>>
  BY DEF ProbeId
<1>2. Len(manifest) \in 1..MaxProbes /\ MaxProbes \in Nat
  BY ManifestEntries
<1>3. i - 1 \in Nat /\ i - 1 < MaxProbes
  BY <1>2
<1>4. Cardinality(before) \in Nat /\ Cardinality(before) <= i - 1
  <2> DEFINE all == 1..(i - 1)
  <2>1. IsFiniteSet(all) /\ Cardinality(all) = i - 1 /\ before \in SUBSET all
    BY <1>3, UpToCounts
  <2> HIDE DEF all, before
  <2>2. IsFiniteSet(before) /\ Cardinality(before) <= Cardinality(all)
    BY <2>1, FS_Subset
  <2>3. QED BY <2>1, <2>2, FS_CardinalityType
<1> DEFINE k == Cardinality(before)
<1> HIDE DEF before
<1>5. k \in 0..MaxProbes /\ k \in 0..i - 1
  BY <1>2, <1>3, <1>4
<1> HIDE DEF k
<1>6. ProbeId(manifest, i) = <<"probe", manifest[i][1], k>>
  BY <1>1 DEF k
<1>7. ProbeId(manifest, i)[3] = k
  BY <1>6
<1>8. QED BY <1>5, <1>6, <1>7

\* What a bank that passes its validation is made of.
LEMMA BankIsComposed ==
  ASSUME ArtifactsAccepted, NEW manifest \in Manifests, NEW master \in Seeds, NEW words, WellLoaded(words),
         ValidBank(BuildBoards(manifest, master, words), Len(manifest))
  PROVE  LET boards == BuildBoards(manifest, master, words)
             n == Len(manifest)
         IN  /\ n \in 1..MaxProbes /\ boards \in Seq(Range(boards)) /\ Len(boards) = 2 * n
             /\ \A i \in 1..n : ComposedProbe(boards[i], manifest, master, words, i)
             /\ \A i \in 1..n : ComposedControl(boards[n + i], master, words, i - 1)
<1> DEFINE boards == BuildBoards(manifest, master, words)
           n == Len(manifest)
           P(i) == ProbeBoard(manifest, master, words, i)
           C(i) == ControlBoard(master, words, i - 1)
           S == {P(i) : i \in 1..n} \cup {C(i) : i \in 1..n}
           first == [i \in 1..n |-> P(i)]
           second == [i \in 1..n |-> C(i)]
<1>1. n \in 1..MaxProbes /\ n \in Nat /\ MaxProbes \in Nat
  BY ManifestEntries
<1>2. first \in Seq(S) /\ Len(first) = n /\ second \in Seq(S) /\ Len(second) = n
  <2>1. first \in [1..n -> S] /\ second \in [1..n -> S]
    OBVIOUS
  <2> HIDE DEF first, second, S, n
  <2>2. QED BY <1>1, <2>1, SequenceUpTo
<1>3. boards = first \o second
  BY DEF BuildBoards
<1>4. \A i \in 1..n : first[i] = P(i) /\ second[i] = C(i)
  OBVIOUS
<1> HIDE DEF first, second, S, boards, P, C
<1>5. /\ boards \in Seq(S) /\ Len(boards) = 2 * n
      /\ \A i \in 1..n : boards[i] = P(i) /\ boards[n + i] = C(i)
  <2> HIDE DEF n
  <2>1. /\ first \o second \in Seq(S) /\ Len(first \o second) = n + n
        /\ \A i \in 1..n + n : (first \o second)[i] = IF i <= n THEN first[i] ELSE second[i - n]
    <3>1. /\ first \o second \in Seq(S) /\ Len(first \o second) = Len(first) + Len(second)
          /\ \A i \in 1..Len(first) + Len(second) :
               (first \o second)[i] = IF i <= Len(first) THEN first[i] ELSE second[i - Len(first)]
      <4>1. first \in Seq(S) /\ second \in Seq(S)
        BY <1>2
      <4>2. QED BY <4>1, ConcatProperties
    <3>2. QED BY <1>2, <3>1
  <2>2. \A i \in 1..n : i \in 1..n + n /\ n + i \in 1..n + n /\ ~(n + i <= n) /\ (n + i) - n = i /\ i <= n
    BY <1>1
  <2>3. n + n = 2 * n
    BY <1>1
  <2>4. QED BY <1>3, <1>4, <2>1, <2>2, <2>3
<1>6. DOMAIN boards = 1..2 * n
  BY <1>5, LenProperties
<1>7. boards \in Seq(Range(boards))
  <2>1. \A i \in 1..2 * n : boards[i] \in Range(boards)
    BY <1>6, AtAPlace
  <2>2. boards \in [1..2 * n -> S]
    BY <1>5, LenProperties
  <2>3. boards \in [1..2 * n -> Range(boards)]
    BY <2>1, <2>2
  <2>4. QED BY <1>1, <2>3, SequenceUpTo
<1>8. \A i \in 1..2 * n : boards[i].id # Failed
  BY <1>6 DEF ValidBank, boards
<1>9. ASSUME NEW i \in 1..n PROVE ComposedProbe(P(i), manifest, master, words, i)
  <2> DEFINE d == artifacts[manifest[i]]
             id == ProbeId(manifest, i)
             spec == manifest[i][1]
             seed == PoolSeed(master, id)
             pairs == RunBalancing(words, spec)
             texts == ComposeProbeWords(d, pairs, words, id[3], seed)
  <2>1. /\ spec \in SpecSet /\ Accepted(d) /\ id[3] \in 0..MaxProbes /\ Seeds # {}
        /\ id = <<"probe", spec, id[3]>>
    BY ManifestEntries, ProbeIndexes
  <2>2. seed \in BankSeeds /\ DeriveBoardSeed(master, id) \in BankSeeds
    BY <2>1, SeedsAreTheBanks DEF PoolSeed
  <2>3. P(i) = AssembleBoard(id, texts, d, words, DeriveBoardSeed(master, id))
    BY DEF P, ProbeBoard
  <2>4. P(i).id # Failed
    <3>1. i \in 1..2 * n
      BY <1>1
    <3>2. QED BY <1>5, <1>8, <3>1
  <2>5. texts # Failed
    BY <2>3, <2>4 DEF AssembleBoard
  <2>6. PICK q : ProbeWords(texts, d, words, spec, q) /\ ProbeFill(texts, d, words, id[3], seed, q)
    <3> HIDE DEF id, d, spec, seed
    <3>1. QED BY <2>1, <2>2, <2>5, ProbeIsComposed
  <2> HIDE DEF texts, d, id, spec
  <2>7. AssembledFrom(P(i), id, texts, d, words)
    <3>1. d # NoDilemma
      BY <2>1 DEF Accepted
    <3>2. /\ DilemmaBlock(d) \in Seq(Texts(words)) /\ Len(DilemmaBlock(d)) = 3
          /\ Cardinality(PlacesOf(texts, DilemmaBlock(d))) = 3
      BY <2>6, <3>1, ProbeBlock
    <3>3. texts \in Seq(Texts(words)) /\ Len(texts) = BoardWordCount
      BY <2>6 DEF ProbeWords
    <3>4. Len(DilemmaBlock(d)) \in 0..3
      BY <3>2
    <3>5. QED BY <2>2, <2>3, <2>4, <3>2, <3>3, <3>4, AssembledBoard
  <2>8. QED BY <2>6, <2>7 DEF ComposedProbe, texts, d, id, spec
<1>10. ASSUME NEW i \in 1..n PROVE ComposedControl(C(i), master, words, i - 1)
  <2> DEFINE id == ControlId(i - 1)
             seed == PoolSeed(master, id)
             texts == ComposeControlWords(words, i - 1, seed)
  <2>1. i - 1 \in 0..MaxProbes /\ i - 1 \in Nat /\ id = <<"control", NoSpec, i - 1>>
    BY <1>1 DEF ControlId
  <2>2. seed \in BankSeeds /\ DeriveBoardSeed(master, id) \in BankSeeds
    BY <2>1, SeedsAreTheBanks DEF PoolSeed
  <2>3. C(i) = AssembleBoard(id, texts, NoDilemma, words, DeriveBoardSeed(master, id))
    BY DEF C, ControlBoard
  <2>4. C(i).id # Failed
    <3>1. n + i \in 1..2 * n
      BY <1>1
    <3>2. QED BY <1>5, <1>8, <3>1
  <2>5. texts # Failed
    BY <2>3, <2>4 DEF AssembleBoard
  <2>6. ControlWords(texts, words, i - 1, seed)
    <3> HIDE DEF id, seed
    <3>1. QED BY <2>1, <2>2, <2>5, ControlIsComposed
  <2> HIDE DEF texts, id
  <2>7. AssembledFrom(C(i), id, texts, NoDilemma, words)
    <3>1. /\ DilemmaBlock(NoDilemma) \in Seq(Texts(words)) /\ Len(DilemmaBlock(NoDilemma)) = 0
          /\ Cardinality(PlacesOf(texts, DilemmaBlock(NoDilemma))) = 0
      BY ControlBlock
    <3>2. texts \in Seq(Texts(words)) /\ Len(texts) = BoardWordCount
      <4>1. NeutralTexts(words) \subseteq Texts(words)
        BY NeutralWords
      <4>2. texts \in Seq(NeutralTexts(words)) /\ Len(texts) = BoardWordCount
        BY <2>6 DEF ControlWords
      <4>3. QED BY <4>1, <4>2, SeqMonotonic
    <3>3. Len(DilemmaBlock(NoDilemma)) \in 0..3
      BY <3>1
    <3>4. QED BY <2>2, <2>3, <2>4, <3>1, <3>2, <3>3, AssembledBoard
  <2>8. QED BY <2>6, <2>7 DEF ComposedControl, id
<1>11. QED BY <1>1, <1>5, <1>7, <1>9, <1>10 DEF boards


-----------------------------------------------------------------------------
(***************************************************************************)
(* The tools                                                               *)
(***************************************************************************)

\* Boards still to be written.
BoardsLeft(boards) ==
  /\ boards \in Seq(Range(boards)) /\ boards # <<>>
  /\ \A i \in 1..Len(boards) : Playable(boards[i])

\* A seal pass has put its frame on every file it is through with.
SealedSoFar == \A id \in DOMAIN files \ desk.left : files[id].seal = desk.frame

\* The tool at the desk, if any, keeps to what it has accepted, has still to
\* write or has sealed.
DeskInv ==
  \/ desk = Idle
  \/ /\ Running("dilemma")
     /\ DOMAIN desk = {"tool", "spec", "words", "target", "rejected", "accepted"}
     /\ desk.spec \in SpecSet /\ (desk.accepted = NoDilemma \/ Accepted(desk.accepted))
  \/ Running("bank") /\ DOMAIN desk = {"tool", "left"} /\ BoardsLeft(desk.left)
  \/ Running("seal") /\ DOMAIN desk = {"tool", "frame", "left"} /\ SealedSoFar

\* The inductive invariant: what is listed, what is on file and what is about to
\* be written.
BankInv ==
  /\ lexicon \in SUBSET Rows
  /\ candidates.words \in SUBSET Deck
  /\ ArtifactsAccepted
  /\ \A id \in DOMAIN files : Playable(files[id])
  /\ DeskInv

\* Everything the tools make keeps to the words listed, to accepted dilemmas
\* and to boards that can be played on.
LEMMA InitBankInv == Init => BankInv
<1> SUFFICES ASSUME Init PROVE BankInv
  OBVIOUS
<1>1. lexicon \in SUBSET Rows
  <2>1. lexicon \subseteq UNION Starts
    BY DEF Init
  <2>2. QED BY <2>1 DEF Rows, ListedRows
<1>2. candidates.words \in SUBSET Deck
  BY DEF Init, NoCandidates
<1>3. DOMAIN artifacts = {} /\ DOMAIN files = {}
  BY DEF Init
<1>4. DeskInv
  BY DEF Init, DeskInv
<1>5. QED BY <1>1, <1>2, <1>3, <1>4 DEF BankInv, ArtifactsAccepted

\* What the desk is tells the tools apart.
LEMMA OneToolAtATime ==
  ASSUME BankInv
  PROVE  /\ Running("dilemma") =>
              /\ DOMAIN desk = {"tool", "spec", "words", "target", "rejected", "accepted"}
              /\ desk.spec \in SpecSet /\ (desk.accepted = NoDilemma \/ Accepted(desk.accepted))
         /\ Running("bank") => DOMAIN desk = {"tool", "left"} /\ BoardsLeft(desk.left)
         /\ Running("seal") => DOMAIN desk = {"tool", "frame", "left"} /\ SealedSoFar
<1>1. Idle.tool = "none"
  BY DEF Idle
<1>2. QED BY <1>1 DEF BankInv, DeskInv, Running

\* Word lists.
LEMMA ListStepKeeps ==
  ASSUME BankInv,
         \/ WriteCandidates
         \/ \E struck \in Struck : ReviewCandidates(struck)
         \/ \E e \in Edits : EditWords(e[1], e[2])
  PROVE  BankInv'
<1>1. UNCHANGED <<artifacts, files, desk>>
  BY DEF WriteCandidates, ReviewCandidates, EditWords
<1>2. ArtifactsAccepted' /\ (\A id \in DOMAIN files : Playable(files[id]))' /\ DeskInv'
  BY <1>1 DEF BankInv, ArtifactsAccepted, DeskInv, Running, SealedSoFar
<1>3. candidates'.words \in SUBSET Deck
  <2>1. CASE WriteCandidates
    <3>1. candidates' = BuildNeutralCandidates(lexicon)
      BY <2>1 DEF WriteCandidates
    <3>2. candidates'.words \subseteq EnumeratePlayableTokens
      BY <3>1 DEF BuildNeutralCandidates
    <3>3. QED BY <3>2 DEF EnumeratePlayableTokens
  <2>2. CASE ~WriteCandidates
    BY <2>2 DEF BankInv, ReviewCandidates, EditWords
  <2>3. QED BY <2>1, <2>2
<1>4. lexicon' \in SUBSET Rows
  <2>1. CASE WriteCandidates
    BY <2>1 DEF BankInv, WriteCandidates
  <2>2. ASSUME NEW struck \in Struck, ReviewCandidates(struck) PROVE lexicon' \in SUBSET Rows
    <3>1. lexicon' = {r \in lexicon : r.gender # "neutral"}
                       \cup {NeutralRow(w) : w \in candidates.words \ struck}
      BY <2>2 DEF ReviewCandidates
    <3>2. \A w \in Deck : NeutralRow(w) \in Rows
      BY DEF Rows
    <3>3. QED BY <3>1, <3>2 DEF BankInv
  <2>3. ASSUME NEW e \in Edits, EditWords(e[1], e[2]) PROVE lexicon' \in SUBSET Rows
    <3>1. lexicon' = (lexicon \ {e[1]}) \cup ({e[2]} \ {NoRow})
      BY <2>3 DEF EditWords
    <3>2. {e[2]} \ {NoRow} \subseteq Rows
      BY DEF Rows, ListedRows
    <3>3. QED BY <3>1, <3>2 DEF BankInv
  <2>4. QED BY <2>1, <2>2, <2>3
<1>5. QED BY <1>2, <1>3, <1>4 DEF BankInv

\* The construction of a dilemma.
LEMMA DilemmaStepKeeps ==
  ASSUME BankInv,
         \/ \E spec \in SpecSet : \E target \in TargetPool(LoadWords(lexicon), spec) :
              StartDilemma(spec, target)
         \/ Attempt
         \/ Running("dilemma") /\ \E target \in TargetPool(desk.words, desk.spec) : RepickTarget(target)
         \/ WriteRecord
  PROVE  BankInv'
<1>1. UNCHANGED <<lexicon, candidates, files>>
  BY DEF StartDilemma, Attempt, RepickTarget, WriteRecord
<1>2. ASSUME NEW spec \in SpecSet, NEW target, StartDilemma(spec, target)
      PROVE  ArtifactsAccepted' /\ DeskInv'
  <2>1. desk' = [tool |-> "dilemma", spec |-> spec, words |-> LoadWords(lexicon), target |-> target,
                 rejected |-> 0, accepted |-> NoDilemma] /\ UNCHANGED artifacts
    BY <1>2 DEF StartDilemma
  <2>2. DeskInv'
    BY <2>1 DEF DeskInv, Running
  <2>3. QED BY <2>1, <2>2 DEF BankInv, ArtifactsAccepted
<1>3. ASSUME Attempt PROVE ArtifactsAccepted' /\ DeskInv'
  <2>1. /\ Running("dilemma")
        /\ DOMAIN desk = {"tool", "spec", "words", "target", "rejected", "accepted"}
        /\ desk.spec \in SpecSet /\ desk.accepted = NoDilemma
    BY <1>3, OneToolAtATime DEF Attempt
  <2>2. UNCHANGED artifacts
    BY <1>3 DEF Attempt
  <2>3. PICK neutral, stereo :
          desk' = CASE VerifyEq41(desk.target, neutral, stereo) ->
                         [desk EXCEPT !.accepted =
                            [target |-> desk.target, neutral |-> neutral, stereo |-> stereo]]
                    [] ~VerifyEq41(desk.target, neutral, stereo) /\ desk.rejected + 1 < AttemptCap ->
                         [desk EXCEPT !.rejected = @ + 1]
                    [] OTHER -> Idle
    BY <1>3 DEF Attempt
  <2> DEFINE d == [target |-> desk.target, neutral |-> neutral, stereo |-> stereo]
  <2>4. CASE VerifyEq41(desk.target, neutral, stereo)
    <3>1. desk' = [desk EXCEPT !.accepted = d]
      BY <2>3, <2>4
    <3>2. Accepted(d)
      <4>1. d.target = desk.target /\ d.neutral = neutral /\ d.stereo = stereo
        OBVIOUS
      <4>2. "neutral" \in DOMAIN d /\ "neutral" \notin DOMAIN NoDilemma
        BY DEF NoDilemma
      <4>3. d # NoDilemma
        BY <4>2
      <4> HIDE DEF d
      <4>4. QED BY <2>4, <4>1, <4>3 DEF Accepted, VerifyEq41
    <3> HIDE DEF d
    <3>3. DeskInv'
      BY <2>1, <3>1, <3>2 DEF DeskInv, Running
    <3>4. QED BY <2>2, <3>3 DEF BankInv, ArtifactsAccepted
  <2>5. CASE ~VerifyEq41(desk.target, neutral, stereo) /\ desk.rejected + 1 < AttemptCap
    <3>1. desk' = [desk EXCEPT !.rejected = @ + 1]
      BY <2>3, <2>5
    <3>2. DeskInv'
      BY <2>1, <3>1 DEF DeskInv, Running
    <3>3. QED BY <2>2, <3>2 DEF BankInv, ArtifactsAccepted
  <2>6. CASE ~VerifyEq41(desk.target, neutral, stereo) /\ ~(desk.rejected + 1 < AttemptCap)
    <3>1. desk' = Idle
      BY <2>3, <2>6
    <3>2. QED BY <2>2, <3>1 DEF BankInv, ArtifactsAccepted, DeskInv
  <2>7. QED BY <2>4, <2>5, <2>6
<1>4. ASSUME NEW target, RepickTarget(target) PROVE ArtifactsAccepted' /\ DeskInv'
  <2>1. /\ Running("dilemma")
        /\ DOMAIN desk = {"tool", "spec", "words", "target", "rejected", "accepted"}
        /\ desk.spec \in SpecSet /\ desk.accepted = NoDilemma
    BY <1>4, OneToolAtATime DEF RepickTarget
  <2>2. desk' = [desk EXCEPT !.target = target] /\ UNCHANGED artifacts
    BY <1>4 DEF RepickTarget
  <2>3. DeskInv'
    BY <2>1, <2>2 DEF DeskInv, Running
  <2>4. QED BY <2>2, <2>3 DEF BankInv, ArtifactsAccepted
<1>5. ASSUME WriteRecord PROVE ArtifactsAccepted' /\ DeskInv'
  <2> DEFINE k == <<desk.spec, desk.target>>
  <2>1. desk.spec \in SpecSet /\ Accepted(desk.accepted)
    BY <1>5, OneToolAtATime DEF WriteRecord
  <2>2. artifacts' = Written(artifacts, k, desk.accepted) /\ desk' = Idle
    BY <1>5 DEF WriteRecord
  <2>3. k[1] = desk.spec
    OBVIOUS
  <2> HIDE DEF k
  <2>4. /\ DOMAIN artifacts' = {k} \cup DOMAIN artifacts /\ artifacts'[k] = desk.accepted
        /\ \A x \in DOMAIN artifacts : x # k => artifacts'[x] = artifacts[x]
    <3> DEFINE v == desk.accepted
               f == artifacts
    <3>1. artifacts' = Written(f, k, v)
      BY <2>2
    <3> HIDE DEF v
    <3>2. /\ DOMAIN Written(f, k, v) = {k} \cup DOMAIN f /\ Written(f, k, v)[k] = v
          /\ \A x \in DOMAIN f : x # k => Written(f, k, v)[x] = f[x]
      BY DEF Written
    <3>3. QED BY <3>1, <3>2 DEF v
  <2>5. ASSUME NEW x \in DOMAIN artifacts' PROVE x[1] \in SpecSet /\ Accepted(artifacts'[x])
    BY <2>1, <2>3, <2>4 DEF BankInv, ArtifactsAccepted
  <2>6. QED BY <2>2, <2>5 DEF ArtifactsAccepted, Accepted, DeskInv
<1>6. ArtifactsAccepted' /\ DeskInv'
  BY <1>2, <1>3, <1>4, <1>5
<1>7. QED BY <1>1, <1>6 DEF BankInv


\* The bank command.
LEMMA BankStepKeeps ==
  ASSUME BankInv, NEW manifest \in Manifests, NEW master \in Seeds, BuildBank(manifest, master)
  PROVE  BankInv'
<1> DEFINE words == LoadWords(lexicon)
           boards == BuildBoards(manifest, master, words)
           n == Len(manifest)
<1>1. /\ ValidBank(boards, n) /\ desk' \in {Idle, [tool |-> "bank", left |-> boards]}
      /\ UNCHANGED <<lexicon, candidates, artifacts, files>> /\ Loads(lexicon)
  BY DEF BuildBank
<1>2. ArtifactsAccepted /\ WellLoaded(words)
  BY <1>1, LoadedWords DEF BankInv
<1>3. /\ n \in 1..MaxProbes /\ boards \in Seq(Range(boards)) /\ Len(boards) = 2 * n
      /\ \A i \in 1..n : ComposedProbe(boards[i], manifest, master, words, i)
      /\ \A i \in 1..n : ComposedControl(boards[n + i], master, words, i - 1)
  <2> HIDE DEF words
  <2>1. QED BY <1>1, <1>2, BankIsComposed
<1> HIDE DEF words, boards
<1>4. ASSUME NEW i \in 1..n PROVE Playable(boards[i])
  <2> DEFINE d == artifacts[manifest[i]]
             id == ProbeId(manifest, i)
  <2>1. PICK texts, q : /\ ProbeWords(texts, d, words, manifest[i][1], q)
                        /\ AssembledFrom(boards[i], id, texts, d, words)
    BY <1>3 DEF ComposedProbe
  <2>2. id[1] = "probe" /\ manifest[i][1] \in SpecSet /\ Accepted(d)
    BY <1>2, ManifestEntries DEF ProbeId
  <2> HIDE DEF d, id
  <2>3. QED BY <1>2, <2>1, <2>2, ProbeIsPlayable
<1>5. ASSUME NEW i \in 1..n PROVE Playable(boards[n + i])
  <2> DEFINE id == ControlId(i - 1)
  <2>1. PICK texts : /\ ControlWords(texts, words, i - 1, PoolSeed(master, id))
                     /\ AssembledFrom(boards[n + i], id, texts, NoDilemma, words)
    BY <1>3 DEF ComposedControl
  <2>2. id[1] = "control"
    BY DEF ControlId
  <2> HIDE DEF id
  <2>3. QED BY <1>2, <2>1, <2>2, ControlIsPlayable
<1>6. n \in Nat \ {0}
  <2>1. MaxProbes \in Nat
    BY BoundAssumption
  <2>2. QED BY <1>3, <2>1
<1>7. ASSUME NEW i \in 1..2 * n PROVE Playable(boards[i])
  <2>1. CASE i <= n
    BY <1>4, <1>6, <2>1
  <2>2. CASE ~(i <= n)
    <3>1. i - n \in 1..n /\ n + (i - n) = i
      BY <1>6, <2>2
    <3>2. Playable(boards[n + (i - n)])
      BY <1>5, <3>1
    <3>3. QED BY <3>1, <3>2
  <2>3. QED BY <2>1, <2>2
<1>8. boards # <<>>
  BY <1>3, <1>6, EmptySeq
<1>9. BoardsLeft(boards)
  BY <1>3, <1>7, <1>8 DEF BoardsLeft
<1>10. DeskInv'
  <2>1. CASE desk' = Idle
    BY <2>1 DEF DeskInv
  <2>2. CASE desk' = [tool |-> "bank", left |-> boards]
    <3>1. desk'.tool = "bank" /\ DOMAIN desk' = {"tool", "left"} /\ desk'.left = boards
      BY <2>2
    <3>2. BoardsLeft(desk'.left)
      BY <1>9, <3>1
    <3>3. BoardsLeft(desk.left)'
      BY <3>2 DEF BoardsLeft, Playable
    <3>4. QED BY <3>1, <3>3 DEF DeskInv, Running
  <2>3. QED BY <1>1, <2>1, <2>2
<1>11. QED BY <1>1, <1>10 DEF BankInv, ArtifactsAccepted

\* The files of a bank, one by one.
LEMMA WriteStepKeeps ==
  ASSUME BankInv, WriteBoard
  PROVE  BankInv'
<1> DEFINE left == desk.left
           b == Head(left)
<1>1. DOMAIN desk = {"tool", "left"} /\ BoardsLeft(left) /\ desk.tool = "bank"
  BY OneToolAtATime DEF WriteBoard, Running
<1>2. /\ files' = Written(files, b.id, b)
      /\ desk' = IF Len(left) = 1 THEN Idle ELSE [desk EXCEPT !.left = Tail(@)]
      /\ UNCHANGED <<lexicon, candidates, artifacts>>
  BY DEF WriteBoard
<1>3. desk' = IF Len(left) = 1 THEN Idle ELSE [desk EXCEPT !.left = Tail(left)]
  BY <1>2
<1> HIDE DEF left
<1> DEFINE S == Range(left)
<1>4. left \in Seq(S) /\ left # <<>> /\ \A i \in 1..Len(left) : Playable(left[i])
  BY <1>1 DEF BoardsLeft
<1> HIDE DEF S
<1>5. Len(left) \in Nat \ {0}
  BY <1>4, EmptySeq
<1>6. Playable(b)
  <2>1. 1 \in 1..Len(left) /\ b = left[1]
    BY <1>4, <1>5
  <2>2. QED BY <1>4, <2>1
<1> HIDE DEF b
<1>7. ASSUME NEW id \in DOMAIN files' PROVE Playable(files'[id])
  <2> DEFINE k == b.id
             f == files
  <2>1. files' = Written(f, k, b)
    BY <1>2
  <2> HIDE DEF k
  <2>2. /\ DOMAIN Written(f, k, b) = {k} \cup DOMAIN f /\ Written(f, k, b)[k] = b
        /\ \A x \in DOMAIN f : x # k => Written(f, k, b)[x] = f[x]
    BY DEF Written
  <2>3. \A x \in DOMAIN f : Playable(f[x])
    BY DEF BankInv
  <2>4. QED BY <1>6, <2>1, <2>2, <2>3
<1>8. DeskInv'
  <2>1. CASE Len(left) = 1
    BY <1>3, <2>1 DEF DeskInv
  <2>2. CASE Len(left) # 1
    <3> DEFINE t == Tail(left)
    <3>1. t \in Seq(S) /\ Len(t) = Len(left) - 1 /\ \A i \in 1..Len(t) : t[i] = left[i + 1]
      BY <1>4, HeadTailProperties
    <3> HIDE DEF t
    <3>2. \A i \in 1..Len(t) : Playable(t[i])
      <4>1. \A i \in 1..Len(t) : i + 1 \in 1..Len(left)
        BY <1>5, <3>1
      <4>2. QED BY <1>4, <3>1, <4>1
    <3>3. t # <<>>
      BY <1>5, <2>2, <3>1, EmptySeq
    <3>4. t \in Seq(Range(t))
      <4>1. Len(t) \in Nat /\ t \in [1..Len(t) -> S] /\ DOMAIN t = 1..Len(t)
        BY <3>1, LenProperties
      <4>2. \A i \in DOMAIN t : t[i] \in Range(t)
        BY AtAPlace
      <4>3. t \in [1..Len(t) -> Range(t)]
        BY <4>1, <4>2
      <4>4. QED BY <4>1, <4>3, SequenceUpTo
    <3>5. BoardsLeft(t)
      BY <3>2, <3>3, <3>4 DEF BoardsLeft
    <3>6. desk' = [desk EXCEPT !.left = t]
      BY <1>3, <2>2 DEF t
    <3>7. DOMAIN desk' = {"tool", "left"} /\ desk'.left = t /\ desk'.tool = "bank"
      BY <1>1, <3>6
    <3>8. BoardsLeft(desk.left)'
      BY <3>5, <3>7 DEF BoardsLeft, Playable
    <3>9. QED BY <3>7, <3>8 DEF DeskInv, Running
  <2>3. QED BY <2>1, <2>2
<1>9. (\A id \in DOMAIN files : Playable(files[id]))'
  BY <1>7
<1>10. QED BY <1>2, <1>8, <1>9 DEF BankInv, ArtifactsAccepted

\* The measurement frame and the seal.
LEMMA SealStepKeeps ==
  ASSUME BankInv, EmitFrame \/ StartSeal \/ SealNext \/ Interrupt
  PROVE  BankInv'
<1>1. UNCHANGED <<lexicon, candidates, artifacts>>
  BY DEF EmitFrame, StartSeal, SealNext, Interrupt
<1>2. CASE EmitFrame
  <2>1. UNCHANGED <<desk, files>>
    BY <1>2 DEF EmitFrame
  <2>2. QED BY <1>1, <2>1 DEF BankInv, ArtifactsAccepted, DeskInv, Running, SealedSoFar
<1>3. CASE StartSeal
  <2>1. desk' = [tool |-> "seal", frame |-> frame, left |-> DOMAIN files] /\ UNCHANGED files
    BY <1>3 DEF StartSeal
  <2>2. DeskInv'
    BY <2>1 DEF DeskInv, Running, SealedSoFar
  <2>3. QED BY <1>1, <2>1, <2>2 DEF BankInv, ArtifactsAccepted
<1>4. CASE Interrupt
  <2>1. desk' = Idle /\ UNCHANGED files
    BY <1>4 DEF Interrupt
  <2>2. QED BY <1>1, <2>1 DEF BankInv, ArtifactsAccepted, DeskInv
<1>5. CASE SealNext
  <2>1. PICK id :
          /\ Running("seal")
          /\ \/ /\ files' = [files EXCEPT ![id].seal = desk.frame]
                /\ desk' = [desk EXCEPT !.left = desk.left \ {id}]
             \/ /\ SealedAs(files[id], desk.frame)
                /\ desk' = [desk EXCEPT !.left = desk.left \ {id}]
                /\ UNCHANGED files
             \/ /\ desk' = Idle
                /\ UNCHANGED files
    BY <1>5 DEF SealNext
  <2>2. desk.tool = "seal" /\ DOMAIN desk = {"tool", "frame", "left"} /\ SealedSoFar
    BY <2>1, OneToolAtATime DEF Running
  <2>3. \A x \in DOMAIN files : Playable(files[x])
    BY DEF BankInv
  <2>4. ASSUME files' = [files EXCEPT ![id].seal = desk.frame]
        PROVE  /\ DOMAIN files' = DOMAIN files
               /\ \A x \in DOMAIN files : Playable(files'[x])
               /\ \A x \in DOMAIN files : files'[x].seal = IF x = id THEN desk.frame ELSE files[x].seal
    <3> DEFINE mark == desk.frame
    <3>1. \A x \in DOMAIN files : files'[x] = IF x = id THEN [files[x] EXCEPT !.seal = mark] ELSE files[x]
      BY <2>4
    <3> HIDE DEF mark
    <3>2. \A x \in DOMAIN files : /\ Playable([files[x] EXCEPT !.seal = mark])
                                  /\ [files[x] EXCEPT !.seal = mark].seal = mark
      BY <2>3, SealedIsPlayable
    <3>3. DOMAIN files' = DOMAIN files
      BY <2>4
    <3>4. QED BY <2>3, <3>1, <3>2, <3>3 DEF mark
  <2>5. ASSUME desk' = [desk EXCEPT !.left = desk.left \ {id}]
        PROVE  /\ desk'.tool = "seal" /\ DOMAIN desk' = {"tool", "frame", "left"}
               /\ desk'.left = desk.left \ {id} /\ desk'.frame = desk.frame
    BY <2>2, <2>5
  <2>6. CASE /\ files' = [files EXCEPT ![id].seal = desk.frame]
             /\ desk' = [desk EXCEPT !.left = desk.left \ {id}]
    <3>1. SealedSoFar'
      BY <2>2, <2>4, <2>5, <2>6 DEF SealedSoFar
    <3>2. DeskInv'
      BY <2>5, <2>6, <3>1 DEF DeskInv, Running
    <3>3. (\A x \in DOMAIN files : Playable(files[x]))'
      BY <2>4, <2>6
    <3>4. QED BY <1>1, <3>2, <3>3 DEF BankInv, ArtifactsAccepted
  <2>7. CASE /\ SealedAs(files[id], desk.frame)
             /\ desk' = [desk EXCEPT !.left = desk.left \ {id}]
             /\ UNCHANGED files
    <3>1. SealedSoFar'
      BY <2>2, <2>5, <2>7 DEF SealedSoFar, SealedAs
    <3>2. DeskInv'
      BY <2>5, <2>7, <3>1 DEF DeskInv, Running
    <3>3. (\A x \in DOMAIN files : Playable(files[x]))'
      BY <2>3, <2>7
    <3>4. QED BY <1>1, <3>2, <3>3 DEF BankInv, ArtifactsAccepted
  <2>8. CASE desk' = Idle /\ UNCHANGED files
    BY <1>1, <2>3, <2>8 DEF BankInv, ArtifactsAccepted, DeskInv
  <2>9. QED BY <2>1, <2>6, <2>7, <2>8
<1>6. QED BY <1>2, <1>3, <1>4, <1>5

\* Every step of the tools keeps the invariant.
LEMMA NextBankInv == BankInv /\ [Next]_vars => BankInv'
<1> SUFFICES ASSUME BankInv, [Next]_vars PROVE BankInv'
  OBVIOUS
<1>1. CASE UNCHANGED vars
  BY <1>1 DEF vars, BankInv, ArtifactsAccepted, DeskInv, Running, SealedSoFar
<1>2. CASE Next
  BY <1>2, ListStepKeeps, DilemmaStepKeeps, BankStepKeeps, WriteStepKeeps, SealStepKeeps DEF Next
<1>3. QED BY <1>1, <1>2

\* The inductive invariant of the board bank: the words on the lists, the
\* dilemmas and the boards at every stage, between tools and within them.
THEOREM BankInvariant == Spec => []BankInv
BY InitBankInv, NextBankInv, PTL DEF Spec

\* Whatever was edited, interrupted, rebuilt or left over, every board file is
\* a board the experiment can be played on, and a seal pass that came to its
\* end leaves every board under the one frame (board.py, bank.py, seal_boards.py).
THEOREM DirectoryAlwaysABank == Spec => []DirectoryIsABank
<1>1. BankInv => DirectoryIsABank
  <2> SUFFICES ASSUME BankInv PROVE DirectoryIsABank
    OBVIOUS
  <2>1. \A id \in DOMAIN files : Playable(files[id])
    BY DEF BankInv
  <2>2. Running("seal") => SealedSoFar
    BY OneToolAtATime
  <2>3. QED BY <2>1, <2>2 DEF DirectoryIsABank, Playable, SealedSoFar
<1>2. QED BY <1>1, BankInvariant, PTL


-----------------------------------------------------------------------------
(***************************************************************************)
(* How a bank shares its neutral words out                                 *)
(***************************************************************************)

\* Division, with its remainder.
LEMMA Division ==
  ASSUME NEW a \in Nat, NEW n \in Nat \ {0}
  PROVE  a \div n \in Nat /\ a % n \in 0..n - 1 /\ a = (a \div n) * n + (a % n)
<1>1. a \div n \in Nat
  OBVIOUS
<1>2. a % n \in 0..n - 1
  BY Remainders
<1>3. a = n * (a \div n) + (a % n)
  OBVIOUS
<1>4. n * (a \div n) = (a \div n) * n
  BY <1>1
<1>5. QED BY <1>1, <1>2, <1>3, <1>4

\* A product grows by a factor at least with the other factor.
LEMMA OnceMore ==
  ASSUME NEW n \in Nat, NEW k \in Nat, NEW l \in Nat, k < l
  PROVE  k * n + n <= l * n
<1> DEFINE e == l - k - 1
<1>1. e \in Nat /\ l = k + 1 + e
  OBVIOUS
<1> HIDE DEF e
<1>2. l * n = k * n + n + e * n /\ e * n \in Nat
  BY <1>1
<1>3. k * n \in Nat /\ l * n \in Nat
  OBVIOUS
<1>4. QED BY <1>2, <1>3

\* Quotient and remainder are unique.
LEMMA DivisionIsUnique ==
  ASSUME NEW n \in Nat \ {0}, NEW k \in Nat, NEW l \in Nat, NEW r \in 0..n - 1, NEW s \in 0..n - 1,
         k * n + r = l * n + s
  PROVE  k = l /\ r = s
<1>1. k * n \in Nat /\ l * n \in Nat
  OBVIOUS
<1>2. ~(k < l)
  <2> SUFFICES ASSUME k < l PROVE FALSE
    OBVIOUS
  <2>1. k * n + n <= l * n
    BY OnceMore
  <2>2. QED BY <1>1, <2>1
<1>3. ~(l < k)
  <2> SUFFICES ASSUME l < k PROVE FALSE
    OBVIOUS
  <2>1. l * n + n <= k * n
    BY OnceMore
  <2>2. QED BY <1>1, <2>1
<1>4. k = l
  BY <1>2, <1>3
<1>5. QED BY <1>1, <1>4

\* The rounds in which a pool of size words comes to the word of offset x, when
\* total words are taken from it one after the other.
Rounds(total, size, x) == {k \in 0..total : x + k * size < total}

\* Over the same words taken no offset comes up twice more than another.
LEMMA RoundsAreEven ==
  ASSUME NEW total \in Nat, NEW size \in Nat \ {0}, NEW x \in 0..size - 1, NEW y \in 0..size - 1
  PROVE  /\ IsFiniteSet(Rounds(total, size, x)) /\ Cardinality(Rounds(total, size, x)) \in Nat
         /\ Cardinality(Rounds(total, size, x)) <= Cardinality(Rounds(total, size, y)) + 1
<1> DEFINE X == Rounds(total, size, x)
           Y == Rounds(total, size, y)
           Z == X \ {0}
           f == [k \in Z |-> k - 1]
<1>1. IsFiniteSet(X) /\ IsFiniteSet(Y)
  <2> DEFINE all == 0..total
  <2>1. IsFiniteSet(all)
    BY FS_Interval
  <2>2. X \in SUBSET all /\ Y \in SUBSET all
    BY DEF Rounds
  <2> HIDE DEF all, X, Y
  <2>3. QED BY <2>1, <2>2, FS_Subset
<1>2. ASSUME NEW k \in Z PROVE k - 1 \in Y /\ k \in Nat \ {0}
  <2>1. k \in 0..total /\ k # 0 /\ x + k * size < total
    BY DEF Rounds
  <2>2. k - 1 \in Nat /\ k - 1 < k /\ k \in Nat \ {0}
    BY <2>1
  <2>3. (k - 1) * size + size <= k * size
    BY <2>2, OnceMore
  <2>4. k * size \in Nat /\ (k - 1) * size \in Nat
    BY <2>2
  <2>5. y + (k - 1) * size < total
    BY <2>1, <2>3, <2>4
  <2>6. k - 1 \in 0..total
    BY <2>1
  <2>7. QED BY <2>2, <2>5, <2>6 DEF Rounds
<1>3. f \in [Z -> Y] /\ \A k, l \in Z : f[k] = f[l] => k = l
  <2>1. f \in [Z -> Y]
    BY <1>2
  <2>2. \A k \in Z : k \in Nat \ {0} /\ f[k] = k - 1
    BY <1>2
  <2> HIDE DEF f, Z
  <2>3. QED BY <2>1, <2>2
<1> HIDE DEF f, X, Y
<1>4. Cardinality(Z) <= Cardinality(Y)
  <2> HIDE DEF Z
  <2>1. QED BY <1>1, <1>3, InjectionsCount
<1>5. IsFiniteSet(Z) /\ Cardinality(X) <= Cardinality(Z) + 1
  <2>1. IsFiniteSet(Z) /\ Cardinality(Z) = IF 0 \in X THEN Cardinality(X) - 1 ELSE Cardinality(X)
    BY <1>1, FS_RemoveElement
  <2>2. Cardinality(X) \in Nat
    BY <1>1, FS_CardinalityType
  <2> HIDE DEF Z
  <2>3. QED BY <2>1, <2>2
<1>6. Cardinality(X) \in Nat /\ Cardinality(Y) \in Nat /\ Cardinality(Z) \in Nat
  BY <1>1, <1>5, FS_CardinalityType
<1> HIDE DEF Z
<1>7. QED BY <1>1, <1>4, <1>5, <1>6 DEF X, Y

\* The windows, of width words, that hold the word of offset x.
WindowsOf(n, width, size, x) ==
  {i \in 1..n : \E m \in 1..width : ((i - 1) * width + m - 1) % size = x}

\* A window no wider than the pool holds a word at most once.
LEMMA WindowsAreRounds ==
  ASSUME NEW n \in Nat, NEW width \in Nat \ {0}, NEW size \in Nat, width <= size, NEW x \in 0..size - 1
  PROVE  Cardinality(WindowsOf(n, width, size, x)) = Cardinality(Rounds(n * width, size, x))
<1> DEFINE total == n * width
           R == Rounds(total, size, x)
           W == WindowsOf(n, width, size, x)
           at(k) == ((x + k * size) \div width) + 1
           f == [k \in R |-> at(k)]
<1>1. total \in Nat /\ size \in Nat \ {0}
  OBVIOUS
<1>2. ASSUME NEW k \in R
      PROVE  \E j \in Nat, m \in 0..width - 1 :
               /\ at(k) = j + 1 /\ j < n /\ j * width + m = x + k * size /\ k \in Nat
  <2> DEFINE t == x + k * size
             j == t \div width
             m == t % width
  <2>1. k \in Nat /\ t < total
    BY <1>1 DEF Rounds
  <2>2. t \in Nat
    BY <1>1, <2>1
  <2>3. at(k) = j + 1
    OBVIOUS
  <2> HIDE DEF t, at
  <2>4. j \in Nat /\ m \in 0..width - 1 /\ t = j * width + m
    BY <2>2, Division
  <2> HIDE DEF j, m
  <2>5. j < n
    <3> SUFFICES ASSUME ~(j < n) PROVE FALSE
      OBVIOUS
    <3>1. n * width <= j * width
      <4>1. CASE j = n
        <5>1. j * width \in Nat
          BY <2>4
        <5>2. QED BY <4>1, <5>1
      <4>2. CASE n < j
        <5>1. n * width + width <= j * width
          BY <2>4, <4>2, OnceMore
        <5>2. n * width \in Nat /\ j * width \in Nat
          BY <2>4
        <5>3. QED BY <5>1, <5>2
      <4>3. QED BY <2>4, <4>1, <4>2
    <3>2. j * width \in Nat /\ total \in Nat
      BY <1>1, <2>4
    <3> DEFINE jw == j * width
    <3>3. jw \in Nat /\ total <= jw /\ t = jw + m
      BY <2>4, <3>1, <3>2
    <3> HIDE DEF jw, total
    <3>4. QED BY <1>1, <2>1, <2>4, <3>3
  <2>6. j * width + m = x + k * size
    BY <2>4 DEF t
  <2>7. QED BY <2>1, <2>3, <2>4, <2>5, <2>6
<1> HIDE DEF at, total
<1>3. ASSUME NEW k \in R PROVE at(k) \in W
  <2>1. PICK j \in Nat, m \in 0..width - 1 :
          at(k) = j + 1 /\ j < n /\ j * width + m = x + k * size /\ k \in Nat
    BY <1>2
  <2>2. at(k) \in 1..n /\ at(k) - 1 = j /\ m + 1 \in 1..width
    BY <2>1
  <2> DEFINE t == j * width + m
  <2>3. (at(k) - 1) * width + (m + 1) - 1 = t
    <3>1. j * width \in Nat
      BY <2>1
    <3>2. (at(k) - 1) * width = j * width
      BY <2>2
    <3>3. QED BY <3>1, <3>2
  <2>4. t \in Nat /\ t = k * size + x
    <3>1. j * width \in Nat /\ k * size \in Nat
      BY <1>1, <2>1
    <3>2. QED BY <2>1, <3>1
  <2> HIDE DEF t
  <2>5. t % size = x
    <3>1. t \div size \in Nat /\ t % size \in 0..size - 1 /\ t = (t \div size) * size + (t % size)
      BY <1>1, <2>4, Division
    <3> DEFINE u == t \div size
               r == t % size
    <3>2. u \in Nat /\ r \in 0..size - 1 /\ u * size + r = k * size + x /\ k \in Nat
      BY <2>1, <2>4, <3>1
    <3> HIDE DEF u, r
    <3>3. r = x
      BY <1>1, <3>2, DivisionIsUnique
    <3>4. QED BY <3>3 DEF r
  <2>6. ((at(k) - 1) * width + (m + 1) - 1) % size = x
    BY <2>3, <2>5
  <2>7. QED BY <2>2, <2>6 DEF WindowsOf
<1>4. ASSUME NEW k \in R, NEW l \in R, at(k) = at(l) PROVE k = l
  <2>1. PICK j \in Nat, m \in 0..width - 1 :
          at(k) = j + 1 /\ j * width + m = x + k * size /\ k \in Nat
    BY <1>2
  <2>2. PICK i \in Nat, o \in 0..width - 1 :
          at(l) = i + 1 /\ i * width + o = x + l * size /\ l \in Nat
    BY <1>2
  <2>3. i = j
    <3>1. i + 1 = j + 1
      BY <1>4, <2>1, <2>2
    <3>2. QED BY <3>1
  <2> DEFINE jw == j * width
             ks == k * size
             ls == l * size
  <2>4. jw \in Nat /\ ks \in Nat /\ ls \in Nat /\ jw + m = x + ks /\ jw + o = x + ls
    BY <2>1, <2>2, <2>3
  <2>5. k < l => ks + size <= ls
    BY <2>1, <2>2, OnceMore
  <2>6. l < k => ls + size <= ks
    BY <2>1, <2>2, OnceMore
  <2> HIDE DEF jw, ks, ls
  <2>7. ~(k < l) /\ ~(l < k)
    BY <2>4, <2>5, <2>6
  <2>8. QED BY <2>1, <2>2, <2>7
<1>5. ASSUME NEW i \in W PROVE \E k \in R : at(k) = i
  <2>1. PICK m \in 1..width : ((i - 1) * width + m - 1) % size = x
    BY DEF WindowsOf
  <2>2. i \in 1..n /\ i - 1 \in Nat /\ m - 1 \in 0..width - 1
    BY DEF WindowsOf
  <2> DEFINE iw == (i - 1) * width
             t == iw + m - 1
             k == t \div size
             ks == k * size
  <2>3. iw \in Nat
    BY <2>2
  <2>4. iw + width <= total /\ t \in Nat
    <3>1. i - 1 < n
      BY <2>2
    <3>2. (i - 1) * width + width <= n * width
      BY <2>2, <3>1, OnceMore
    <3>3. QED BY <2>2, <2>3, <3>2 DEF total
  <2>5. t % size = x
    BY <2>1
  <2> HIDE DEF t
  <2>6. k \in Nat /\ t = ks + x
    BY <1>1, <2>4, <2>5, Division
  <2> HIDE DEF k
  <2>7. ks \in Nat /\ k <= ks
    BY <1>1, <2>6
  <2> HIDE DEF iw
  <2>8. t = iw + (m - 1)
    BY <2>3 DEF t
  <2> HIDE DEF ks
  <2>9. x + ks < total /\ k <= total
    BY <1>1, <2>2, <2>3, <2>4, <2>6, <2>7, <2>8
  <2>10. k \in R
    BY <1>1, <2>6, <2>9 DEF Rounds, ks
  <2>11. PICK j \in Nat, o \in 0..width - 1 : at(k) = j + 1 /\ j * width + o = x + k * size
    BY <1>2, <2>10
  <2>12. j * width + o = (i - 1) * width + (m - 1)
    <3>1. j * width + o = x + ks
      BY <2>11 DEF ks
    <3>2. x + ks = iw + (m - 1)
      BY <2>6, <2>7, <2>8
    <3>3. QED BY <3>1, <3>2 DEF iw
  <2>13. j = i - 1
    <3> DEFINE h == i - 1
               p == m - 1
    <3>1. h \in Nat /\ p \in 0..width - 1 /\ j * width + o = h * width + p
      BY <2>2, <2>12
    <3> HIDE DEF h, p
    <3>2. j = h
      BY <2>11, <3>1, DivisionIsUnique
    <3>3. QED BY <3>2 DEF h
  <2>14. at(k) = i
    BY <2>2, <2>11, <2>13
  <2>15. QED BY <2>10, <2>14
<1>6. IsFiniteSet(W)
  <2>1. IsFiniteSet(1..n)
    BY UpToCounts
  <2>2. W \in SUBSET (1..n)
    BY DEF WindowsOf
  <2> HIDE DEF W
  <2>3. QED BY <2>1, <2>2, FS_Subset
<1> HIDE DEF R, W
<1>7. /\ f \in [R -> W] /\ \A k, l \in R : f[k] = f[l] => k = l
      /\ \A i \in W : \E k \in R : f[k] = i
  BY <1>3, <1>4, <1>5
<1> HIDE DEF f
<1>8. Cardinality(R) = Cardinality(W)
  BY <1>6, <1>7, InjectionsCount
<1>9. QED BY <1>8 DEF R, W, total


\* No word of a pool is in two windows more than another.
LEMMA WindowsAreEven ==
  ASSUME NEW n \in Nat, NEW width \in Nat \ {0}, NEW size \in Nat, width <= size,
         NEW x \in 0..size - 1, NEW y \in 0..size - 1
  PROVE  Cardinality(WindowsOf(n, width, size, x)) <= Cardinality(WindowsOf(n, width, size, y)) + 1
<1> DEFINE total == n * width
<1>1. total \in Nat /\ size \in Nat \ {0}
  OBVIOUS
<1>2. /\ Cardinality(WindowsOf(n, width, size, x)) = Cardinality(Rounds(total, size, x))
      /\ Cardinality(WindowsOf(n, width, size, y)) = Cardinality(Rounds(total, size, y))
  BY WindowsAreRounds
<1> HIDE DEF total
<1>3. Cardinality(Rounds(total, size, x)) <= Cardinality(Rounds(total, size, y)) + 1
  BY <1>1, RoundsAreEven
<1>4. QED BY <1>2, <1>3

\* The controls of a list of boards a word is on.
ControlsWith(boards, w) == {i \in DOMAIN boards : ~IsProbe(boards[i]) /\ w \in AllTexts(boards[i])}

\* What the validated bank has: its probes first, then its controls.
Composed(boards, manifest, master, words) ==
  LET n == Len(manifest)
  IN  /\ n \in 1..MaxProbes /\ boards \in Seq(Range(boards)) /\ Len(boards) = 2 * n
      /\ \A i \in 1..n : ComposedProbe(boards[i], manifest, master, words, i)
      /\ \A i \in 1..n : ComposedControl(boards[n + i], master, words, i - 1)

\* A bank is its probes and, after them, as many controls.
LEMMA ComposedKinds ==
  ASSUME NEW manifest, NEW master, NEW words, NEW boards, Composed(boards, manifest, master, words)
  PROVE  /\ Len(manifest) \in Nat \ {0} /\ DOMAIN boards = 1..2 * Len(manifest)
         /\ \A i \in 1..Len(manifest) : IsProbe(boards[i]) /\ ~IsProbe(boards[Len(manifest) + i])
         /\ \A i \in DOMAIN boards : i \in 1..Len(manifest)
                                      \/ \E j \in 1..Len(manifest) : i = Len(manifest) + j
<1> DEFINE n == Len(manifest)
<1>1. n \in Nat \ {0}
  BY BoundAssumption DEF Composed
<1>2. DOMAIN boards = 1..2 * n
  BY LenProperties DEF Composed
<1>3. ASSUME NEW i \in 1..n PROVE IsProbe(boards[i])
  <2>1. ComposedProbe(boards[i], manifest, master, words, i)
    BY DEF Composed
  <2>2. boards[i].id = ProbeId(manifest, i)
    BY <2>1 DEF ComposedProbe, AssembledFrom
  <2>3. ProbeId(manifest, i)[1] = "probe"
    BY DEF ProbeId
  <2>4. QED BY <2>2, <2>3 DEF IsProbe
<1>4. ASSUME NEW i \in 1..n PROVE ~IsProbe(boards[n + i])
  <2>1. ComposedControl(boards[n + i], master, words, i - 1)
    BY DEF Composed
  <2>2. boards[n + i].id = ControlId(i - 1)
    BY <2>1 DEF ComposedControl, AssembledFrom
  <2>3. ControlId(i - 1)[1] = "control"
    BY DEF ControlId
  <2>4. QED BY <2>2, <2>3 DEF IsProbe
<1>5. ASSUME NEW i \in 1..2 * n PROVE i \in 1..n \/ \E j \in 1..n : i = n + j
  <2>1. CASE i <= n
    BY <1>1, <2>1
  <2>2. CASE ~(i <= n)
    <3>1. i - n \in 1..n /\ i = n + (i - n)
      BY <1>1, <2>2
    <3>2. QED BY <3>1
  <2>3. QED BY <2>1, <2>2
<1>6. QED BY <1>1, <1>2, <1>3, <1>4, <1>5

\* The windows a word is in are the controls it is on.
LEMMA ControlsAreWindows ==
  ASSUME NEW manifest, NEW master \in Seeds, NEW words, WellLoaded(words), NEW boards,
         Composed(boards, manifest, master, words), NEW w \in NeutralTexts(words)
  PROVE  \E x \in 0..Cardinality(NeutralTexts(words)) - 1 :
           /\ BoardWordCount <= Cardinality(NeutralTexts(words))
           /\ Cardinality(ControlsWith(boards, w))
                = Cardinality(WindowsOf(Len(manifest), BoardWordCount, Cardinality(NeutralTexts(words)), x))
<1> DEFINE n == Len(manifest)
           N == NeutralTexts(words)
           L == Cardinality(N)
           B == BoardWordCount
           seed == DeriveBoardSeed(master, NeutralPoolTag)
           P == ShuffledNeutralPool(N, seed)
           U == ControlsWith(boards, w)
<1>1. /\ n \in Nat \ {0} /\ DOMAIN boards = 1..2 * n
      /\ \A i \in 1..n : IsProbe(boards[i]) /\ ~IsProbe(boards[n + i])
      /\ \A i \in DOMAIN boards : i \in 1..n \/ \E j \in 1..n : i = n + j
  BY ComposedKinds
<1>2. B \in Nat \ {0}
  BY JointAssumption
<1>3. /\ P \in Seq(N) /\ Len(P) = L /\ L \in Nat /\ Range(P) = N
      /\ \A i, j \in 1..L : P[i] = P[j] => i = j
  <2>1. seed \in BankSeeds
    BY SeedsAreTheBanks
  <2>2. N \in SUBSET Nat /\ IsFiniteSet(N) /\ Cardinality(N) <= Largest
    BY NeutralWords
  <2> HIDE DEF N, seed
  <2>3. QED BY <2>1, <2>2, PoolElements
<1>4. DOMAIN P = 1..L
  BY <1>3, LenProperties
<1> HIDE DEF P
<1>5. PICK p \in 1..L : P[p] = w
  <2>1. w \in Range(P)
    BY <1>3
  <2>2. QED BY <1>4, <2>1, PlaceOfAnElement
<1> DEFINE x == p - 1
<1>6. x \in 0..L - 1 /\ x + 1 = p /\ L \in Nat \ {0}
  BY <1>3, <1>5
<1> HIDE DEF x
<1>7. ASSUME NEW i \in 1..n
      PROVE  /\ B <= L
             /\ w \in AllTexts(boards[n + i]) <=> \E m \in 1..B : ((i - 1) * B + m - 1) % L = x
  <2>1. ComposedControl(boards[n + i], master, words, i - 1)
    BY DEF Composed
  <2>2. PICK texts : /\ ControlWords(texts, words, i - 1, seed)
                     /\ AssembledFrom(boards[n + i], ControlId(i - 1), texts, NoDilemma, words)
    BY <2>1 DEF ComposedControl, PoolSeed
  <2>3. /\ B <= L /\ texts \in Seq(N) /\ Len(texts) = B
        /\ \A m \in 1..B : texts[m] = P[(((i - 1) * B + m - 1) % L) + 1]
    BY <2>2 DEF ControlWords, P
  <2> HIDE DEF N, L
  <2>4. DOMAIN texts = 1..B
    BY <2>3, LenProperties
  <2>5. AllTexts(boards[n + i]) = Range(texts)
    BY <2>2 DEF AssembledFrom
  <2>6. \A m \in 1..B : (((i - 1) * B + m - 1) % L) + 1 \in 1..L
    <3> SUFFICES ASSUME NEW m \in 1..B PROVE (((i - 1) * B + m - 1) % L) + 1 \in 1..L
      OBVIOUS
    <3> DEFINE t == (i - 1) * B + m - 1
    <3>1. (i - 1) * B \in Nat
      BY <1>1, <1>2
    <3>2. t \in Nat
      BY <1>2, <3>1
    <3> HIDE DEF t
    <3>3. t % L \in 0..L - 1
      BY <1>6, <3>2, Remainders
    <3>4. (t % L) + 1 \in 1..L
      BY <1>6, <3>3
    <3>5. QED BY <3>4 DEF t
  <2>7. ASSUME NEW m \in 1..B PROVE texts[m] = w <=> ((i - 1) * B + m - 1) % L = x
    <3> DEFINE r == ((i - 1) * B + m - 1) % L
    <3>1. texts[m] = P[r + 1] /\ r + 1 \in 1..L /\ r \in Int
      <4>1. texts[m] = P[r + 1] /\ r + 1 \in 1..L
        BY <2>3, <2>6
      <4>2. ((i - 1) * B + m - 1) \in Int
        BY <1>1, <1>2
      <4>3. r \in Int
        BY <1>6, <4>2
      <4>4. QED BY <4>1, <4>3
    <3> HIDE DEF r
    <3>2. P[r + 1] = w <=> r + 1 = p
      BY <1>3, <1>5, <3>1
    <3>3. r + 1 = p <=> r = x
      BY <1>5, <1>6, <3>1
    <3>4. QED BY <3>1, <3>2, <3>3 DEF r
  <2>8. w \in Range(texts) <=> \E m \in 1..B : texts[m] = w
    <3>1. w \in Range(texts) => \E m \in 1..B : texts[m] = w
      BY <2>4, PlaceOfAnElement
    <3>2. \A m \in 1..B : texts[m] \in Range(texts)
      BY <2>4, AtAPlace
    <3>3. QED BY <3>1, <3>2
  <2>9. QED BY <2>3, <2>5, <2>7, <2>8
<1>8. B <= L
  <2>1. 1 \in 1..n
    BY <1>1
  <2>2. QED BY <1>7, <2>1
<1> DEFINE W == WindowsOf(n, B, L, x)
           f == [i \in W |-> n + i]
<1> HIDE DEF N, L, B, n
<1>9. \A i \in W : i \in 1..n /\ \E m \in 1..B : ((i - 1) * B + m - 1) % L = x
  BY DEF WindowsOf
<1>10. \A i \in 1..n : (\E m \in 1..B : ((i - 1) * B + m - 1) % L = x) => i \in W
  BY DEF WindowsOf
<1>11. \A i \in 1..n : i \in W <=> w \in AllTexts(boards[n + i])
  BY <1>7, <1>9, <1>10
<1>12. \A i \in W : i \in 1..n
  BY <1>9
<1> HIDE DEF W
<1>13. ASSUME NEW i \in W PROVE n + i \in U
  <2>1. i \in 1..n /\ w \in AllTexts(boards[n + i]) /\ ~IsProbe(boards[n + i])
    BY <1>1, <1>11, <1>12
  <2>2. n + i \in DOMAIN boards
    BY <1>1, <2>1
  <2>3. QED BY <2>1, <2>2 DEF ControlsWith
<1>14. ASSUME NEW i \in U PROVE \E j \in W : n + j = i
  <2>1. i \in DOMAIN boards /\ ~IsProbe(boards[i]) /\ w \in AllTexts(boards[i])
    BY DEF ControlsWith
  <2>2. PICK j \in 1..n : i = n + j
    BY <1>1, <2>1
  <2>3. QED BY <1>11, <2>1, <2>2
<1>15. IsFiniteSet(U)
  <2> DEFINE all == DOMAIN boards
  <2>1. IsFiniteSet(all) /\ U \in SUBSET all
    <3>1. 2 * n \in Nat
      BY <1>1
    <3>2. QED BY <1>1, <3>1, UpToCounts DEF ControlsWith
  <2> HIDE DEF all, U
  <2>2. QED BY <2>1, FS_Subset
<1> HIDE DEF U
<1>16. f \in [W -> U] /\ (\A i, j \in W : f[i] = f[j] => i = j) /\ \A u \in U : \E i \in W : f[i] = u
  <2>1. f \in [W -> U] /\ \A u \in U : \E i \in W : f[i] = u
    BY <1>13, <1>14
  <2>2. ASSUME NEW i \in W, NEW j \in W, f[i] = f[j] PROVE i = j
    <3>1. n + i = n + j /\ i \in 1..n /\ j \in 1..n
      BY <1>12, <2>2
    <3>2. QED BY <1>1, <3>1
  <2>3. QED BY <2>1, <2>2
<1> HIDE DEF f
<1>17. Cardinality(W) = Cardinality(U)
  BY <1>15, <1>16, InjectionsCount
<1>18. QED BY <1>6, <1>8, <1>17 DEF W, U, n, B, N, L


\* A probe whose fill does not reach the end of the pool takes it from its own
\* stretch of the bank's order, or from one place after.
LEMMA FillsAreStretches ==
  ASSUME NEW words, WellLoaded(words), NEW seed \in BankSeeds, NEW index \in Nat, NEW d, NEW texts, NEW spec,
         NEW q, ProbeWords(texts, d, words, spec, q), ProbeFill(texts, d, words, index, seed, q),
         (index + 1) * (BoardWordCount - (3 + 2 * q)) < Cardinality(NeutralTexts(words)),
         NEW t \in Range(ProbeNeutrals(texts, q))
  PROVE  \E x \in 1..Cardinality(NeutralTexts(words)) :
           /\ ShuffledNeutralPool(NeutralTexts(words), seed)[x] = t
           /\ index * (BoardWordCount - (3 + 2 * q)) + 1 <= x
           /\ x <= (index + 1) * (BoardWordCount - (3 + 2 * q)) + 1
<1> DEFINE N == NeutralTexts(words)
           L == Cardinality(N)
           c == BoardWordCount - (3 + 2 * q)
           P == ShuffledNeutralPool(N, seed)
           Q == NeutralFill(N, d.neutral, seed)
           U == ProbeNeutrals(texts, q)
           a == index * c
<1>1. q \in Nat /\ c \in Nat /\ d.neutral \in N
  BY LargestIsNatural DEF ProbeWords
<1>2. N \in SUBSET Nat /\ IsFiniteSet(N) /\ Cardinality(N) <= Largest
  BY NeutralWords
<1>3. /\ Len(Q) = L - 1 /\ L \in Nat \ {0}
      /\ \A k \in 1..L - 1 : \E i \in {k, k + 1} : i \in 1..L /\ Q[k] = P[i]
  <2> HIDE DEF N
  <2>1. QED BY <1>1, <1>2, FillElements
<1>4. /\ U = [m \in 1..c |-> texts[3 + 2 * q + m]]
      /\ \A m \in 1..c : texts[3 + 2 * q + m] = Q[((a + m - 1) % Len(Q)) + 1]
  BY DEF ProbeNeutrals, ProbeFill
<1>a. t \in Range(U)
  OBVIOUS
<1> HIDE DEF U, Q, P
<1>5. DOMAIN U = 1..c
  BY <1>4
<1>6. PICK m \in 1..c : U[m] = t
  BY <1>5, <1>a, PlaceOfAnElement
<1>7. t = Q[((a + m - 1) % (L - 1)) + 1]
  BY <1>3, <1>4, <1>6
<1>8. a \in Nat /\ (index + 1) * c = a + c /\ a + c < L
  BY <1>1
<1> HIDE DEF N, L, c, a
<1>9. (a + m - 1) % (L - 1) = a + m - 1
  <2> DEFINE e == a + m - 1
             s == L - 1
  <2>1. e \in Nat /\ s \in Nat \ {0} /\ e < s
    BY <1>1, <1>3, <1>6, <1>8
  <2> HIDE DEF e, s
  <2>2. e % s = e
    BY <2>1
  <2>3. QED BY <2>2 DEF e, s
<1>10. t = Q[a + m] /\ a + m \in 1..L - 1
  <2>1. m \in Nat /\ 1 <= m /\ m <= c /\ a \in Nat /\ c \in Nat /\ L \in Nat
    BY <1>1, <1>3, <1>6, <1>8
  <2>2. (a + m - 1) + 1 = a + m
    BY <2>1
  <2>3. a + m \in 1..L - 1
    BY <1>8, <2>1
  <2>4. t = Q[(a + m - 1) + 1]
    BY <1>7, <1>9
  <2>5. QED BY <2>2, <2>3, <2>4
<1>11. PICK x \in {a + m, a + m + 1} : x \in 1..L /\ Q[a + m] = P[x]
  BY <1>3, <1>10
<1>12. P[x] = t /\ a + 1 <= x /\ x <= a + c + 1
  BY <1>1, <1>6, <1>8, <1>10, <1>11
<1>13. QED BY <1>8, <1>11, <1>12 DEF N, L, c, a, P

\* What the neutral words of a bank are put to.
SharesOut(boards, neutral) ==
  /\ \A v, w \in neutral : Cardinality(ControlsWith(boards, v)) <= Cardinality(ControlsWith(boards, w)) + 1
  /\ \A i, j \in DOMAIN boards :
       LET b == boards[i]
           c == boards[j]
           fill(x) == OfCategory(x, "neutral") \ Block(x)
       IN  IsProbe(b) /\ IsProbe(c) /\ b.id[2] = c.id[2] /\ c.id[3] = b.id[3] + 1
             /\ Cardinality(fill(c)) = Cardinality(fill(b))
             /\ (c.id[3] + 1) * Cardinality(fill(b)) < Cardinality(neutral)
               => Cardinality(fill(b) \cap fill(c)) <= 1

\* A bank as it is composed shares its neutral words out.
LEMMA ComposedSharesOut ==
  ASSUME ArtifactsAccepted, NEW manifest \in Manifests, NEW master \in Seeds,
         NEW words, WellLoaded(words), NEW boards, Composed(boards, manifest, master, words)
  PROVE  SharesOut(boards, NeutralTexts(words))
<1> DEFINE n == Len(manifest)
           N == NeutralTexts(words)
           L == Cardinality(N)
           seed == DeriveBoardSeed(master, NeutralPoolTag)
           P == ShuffledNeutralPool(N, seed)
           fill(x) == OfCategory(x, "neutral") \ Block(x)
<1>1. n \in Nat \ {0} /\ BoardWordCount \in Nat \ {0}
  BY ComposedKinds, JointAssumption
<1>2. ASSUME NEW v \in N, NEW w \in N
      PROVE  Cardinality(ControlsWith(boards, v)) <= Cardinality(ControlsWith(boards, w)) + 1
  <2> DEFINE B == BoardWordCount
  <2>1. PICK x \in 0..L - 1 : B <= L /\ Cardinality(ControlsWith(boards, v)) = Cardinality(WindowsOf(n, B, L, x))
    BY ControlsAreWindows
  <2>2. PICK y \in 0..L - 1 : Cardinality(ControlsWith(boards, w)) = Cardinality(WindowsOf(n, B, L, y))
    BY ControlsAreWindows
  <2>3. L \in Nat
    BY NeutralWords
  <2> HIDE DEF L, n, B
  <2>4. Cardinality(WindowsOf(n, B, L, x)) <= Cardinality(WindowsOf(n, B, L, y)) + 1
    BY <1>1, <2>1, <2>2, <2>3, WindowsAreEven DEF B
  <2>5. QED BY <2>1, <2>2, <2>4
<1>3. seed \in BankSeeds
  BY SeedsAreTheBanks
<1>4. \A x, y \in 1..L : P[x] = P[y] => x = y
  <2>1. N \in SUBSET Nat /\ IsFiniteSet(N) /\ Cardinality(N) <= Largest
    BY NeutralWords
  <2> HIDE DEF N, seed
  <2>2. QED BY <1>3, <2>1, PoolElements
<1>5. ASSUME NEW i \in DOMAIN boards, IsProbe(boards[i])
      PROVE  \E q, k \in Nat :
               /\ boards[i].id[3] = k /\ Cardinality(fill(boards[i])) = BoardWordCount - (3 + 2 * q)
               /\ 3 + 2 * q <= BoardWordCount
               /\ (k + 1) * (BoardWordCount - (3 + 2 * q)) < L =>
                    \A t \in fill(boards[i]) : \E x \in 1..L :
                      /\ P[x] = t
                      /\ k * (BoardWordCount - (3 + 2 * q)) + 1 <= x
                      /\ x <= (k + 1) * (BoardWordCount - (3 + 2 * q)) + 1
  <2> DEFINE d == artifacts[manifest[i]]
             id == ProbeId(manifest, i)
             spec == manifest[i][1]
             k == id[3]
  <2>1. i \in 1..n
    BY <1>5, ComposedKinds
  <2>2. ComposedProbe(boards[i], manifest, master, words, i)
    BY <2>1 DEF Composed
  <2>3. PoolSeed(master, id) = seed
    BY DEF PoolSeed
  <2>4. PICK texts, q : /\ ProbeWords(texts, d, words, spec, q)
                        /\ ProbeFill(texts, d, words, k, seed, q)
                        /\ AssembledFrom(boards[i], id, texts, d, words)
    BY <2>2, <2>3 DEF ComposedProbe
  <2>5. spec \in SpecSet /\ Accepted(d)
    BY <2>1, ManifestEntries
  <2>6. k \in Nat
    <3>1. k \in 0..MaxProbes /\ MaxProbes \in Nat
      BY <2>1, ProbeIndexes, ManifestEntries
    <3>2. QED BY <3>1
  <2>7. boards[i].id = id
    BY <2>4 DEF AssembledFrom
  <2> HIDE DEF d, id, spec
  <2>8. ProbeHolds(boards[i], texts, q)
    <3>1. d # NoDilemma
      BY <2>5 DEF Accepted
    <3>2. QED BY <2>4, <2>5, <3>1, ProbeContents
  <2>9. /\ fill(boards[i]) = Range(ProbeNeutrals(texts, q))
        /\ Cardinality(fill(boards[i])) = BoardWordCount - (3 + 2 * q)
    BY <2>8 DEF ProbeHolds
  <2>10. q \in Nat /\ 3 + 2 * q <= BoardWordCount
    BY <2>4 DEF ProbeWords
  <2> DEFINE c == BoardWordCount - (3 + 2 * q)
  <2>11. ASSUME (k + 1) * c < L, NEW t \in fill(boards[i])
         PROVE  \E x \in 1..L : P[x] = t /\ k * c + 1 <= x /\ x <= (k + 1) * c + 1
    <3>1. t \in Range(ProbeNeutrals(texts, q))
      BY <2>9
    <3> HIDE DEF k, seed
    <3>2. QED BY <1>3, <2>4, <2>6, <2>11, <3>1, FillsAreStretches
  <2>12. boards[i].id[3] = k
    BY <2>7
  <2> HIDE DEF k, fill
  <2>13. QED BY <2>6, <2>9, <2>10, <2>11, <2>12
<1>6. ASSUME NEW i \in DOMAIN boards, NEW j \in DOMAIN boards,
             IsProbe(boards[i]), IsProbe(boards[j]), boards[j].id[3] = boards[i].id[3] + 1,
             Cardinality(fill(boards[j])) = Cardinality(fill(boards[i])),
             (boards[j].id[3] + 1) * Cardinality(fill(boards[i])) < L
      PROVE  Cardinality(fill(boards[i]) \cap fill(boards[j])) <= 1
  <2> DEFINE F == fill(boards[i])
             G == fill(boards[j])
             c == Cardinality(F)
             k == boards[i].id[3]
             a == (k + 1) * c + 1
  <2>1. k \in Nat /\ c \in Nat
        /\ ((k + 1) * c < L => \A t \in F : \E x \in 1..L : P[x] = t /\ x <= a)
    <3>1. PICK q, l \in Nat :
            /\ k = l /\ c = BoardWordCount - (3 + 2 * q) /\ 3 + 2 * q <= BoardWordCount
            /\ (l + 1) * (BoardWordCount - (3 + 2 * q)) < L =>
                 \A t \in F : \E x \in 1..L :
                   P[x] = t /\ x <= (l + 1) * (BoardWordCount - (3 + 2 * q)) + 1
      BY <1>5, <1>6
    <3>2. k \in Nat /\ c \in Nat
      BY <1>1, <3>1
    <3> HIDE DEF F, k, P
    <3>3. QED BY <3>1, <3>2
  <2>2. (k + 1 + 1) * c < L => \A t \in G : \E x \in 1..L : P[x] = t /\ a <= x
    <3>1. PICK q, l \in Nat :
            /\ boards[j].id[3] = l /\ Cardinality(G) = BoardWordCount - (3 + 2 * q)
            /\ (l + 1) * (BoardWordCount - (3 + 2 * q)) < L =>
                 \A t \in G : \E x \in 1..L :
                   P[x] = t /\ l * (BoardWordCount - (3 + 2 * q)) + 1 <= x
      BY <1>5, <1>6
    <3>2. l = k + 1 /\ Cardinality(G) = c
      BY <1>6, <3>1
    <3> HIDE DEF F, G, k, P, L
    <3>3. QED BY <3>1, <3>2
  <2>3. (k + 1) * c < L /\ (k + 1 + 1) * c < L
    <3>1. (k + 1 + 1) * c < L
      BY <1>6
    <3>2. L \in Nat
      BY NeutralWords
    <3> HIDE DEF k, c, L
    <3>3. (k + 1) * c + c <= (k + 1 + 1) * c /\ (k + 1) * c \in Nat /\ (k + 1 + 1) * c \in Nat
      BY <2>1, OnceMore
    <3>4. QED BY <2>1, <3>1, <3>2, <3>3
  <2>4. a \in Nat
    <3> HIDE DEF k, c
    <3>1. QED BY <2>1
  <2> HIDE DEF F, G, c, k, P, L, a
  <2>5. ASSUME NEW t \in F \cap G PROVE t = P[a]
    <3>1. PICK x \in 1..L : P[x] = t /\ x <= a
      BY <2>1, <2>3
    <3>2. PICK y \in 1..L : P[y] = t /\ a <= y
      BY <2>2, <2>3
    <3>3. x = y
      BY <1>4, <3>1, <3>2
    <3>4. x = a
      BY <2>4, <3>1, <3>2, <3>3
    <3>5. QED BY <3>1, <3>4
  <2>6. F \cap G \subseteq {P[a]}
    BY <2>5
  <2>7. Cardinality(F \cap G) <= 1
    <3> DEFINE one == {P[a]}
               both == F \cap G
    <3>1. IsFiniteSet(one) /\ Cardinality(one) = 1
      BY FS_Singleton
    <3>2. both \in SUBSET one
      BY <2>6
    <3> HIDE DEF one, both
    <3>3. Cardinality(both) <= Cardinality(one)
      BY <3>1, <3>2, FS_Subset
    <3>4. QED BY <3>1, <3>3 DEF both
  <2>8. QED BY <2>7 DEF F, G
<1> HIDE DEF N
<1>7. QED BY <1>2, <1>6 DEF SharesOut, N

\* What the property says of the bank last built.
LEMMA SharedOutMeans ==
  ASSUME SharesOut(built.boards, built.neutral)
  PROVE  PoolIsSharedOut
<1>1. \A w : ControlUses(w) = Cardinality(ControlsWith(built.boards, w))
  BY DEF ControlUses, ControlsWith
<1>2. ASSUME NEW m \in {ControlUses(w) : w \in built.neutral}, NEW n \in {ControlUses(w) : w \in built.neutral}
      PROVE  m <= n + 1
  <2>1. PICK v \in built.neutral, w \in built.neutral : m = ControlUses(v) /\ n = ControlUses(w)
    OBVIOUS
  <2>2. Cardinality(ControlsWith(built.boards, v)) <= Cardinality(ControlsWith(built.boards, w)) + 1
    BY DEF SharesOut
  <2>3. QED BY <1>1, <2>1, <2>2
<1> DEFINE fill(x) == OfCategory(x, "neutral") \ Block(x)
<1>3. ASSUME NEW b \in {built.boards[i] : i \in DOMAIN built.boards},
             NEW c \in {built.boards[i] : i \in DOMAIN built.boards},
             IsProbe(b), IsProbe(c), b.id[2] = c.id[2], c.id[3] = b.id[3] + 1,
             Cardinality(fill(c)) = Cardinality(fill(b)),
             (c.id[3] + 1) * Cardinality(fill(b)) < Cardinality(built.neutral)
      PROVE  Cardinality(fill(b) \cap fill(c)) <= 1
  <2>1. PICK i \in DOMAIN built.boards, j \in DOMAIN built.boards : b = built.boards[i] /\ c = built.boards[j]
    OBVIOUS
  <2>2. QED BY <1>3, <2>1 DEF SharesOut
<1>4. QED BY <1>2, <1>3 DEF PoolIsSharedOut

\* The step that builds a bank builds one that shares its neutral words out.
LEMMA BuildSharesOut ==
  ASSUME BankInv, NEW manifest \in Manifests, NEW master \in Seeds, BuildBank(manifest, master)
  PROVE  SharesOut(built.boards, built.neutral)'
<1> DEFINE words == LoadWords(lexicon)
           boards == BuildBoards(manifest, master, words)
<1>1. /\ ValidBank(boards, Len(manifest)) /\ Loads(lexicon)
      /\ built' = [boards |-> boards, neutral |-> NeutralTexts(words)]
  BY DEF BuildBank, NeutralTexts
<1>2. ArtifactsAccepted /\ WellLoaded(words)
  BY <1>1, LoadedWords DEF BankInv
<1>3. Composed(boards, manifest, master, words)
  <2> HIDE DEF words
  <2>1. QED BY <1>1, <1>2, BankIsComposed DEF Composed
<1> HIDE DEF words, boards
<1>4. SharesOut(boards, NeutralTexts(words))
  BY <1>2, <1>3, ComposedSharesOut
<1>5. built'.boards = boards /\ built'.neutral = NeutralTexts(words)
  BY <1>1
<1>6. QED BY <1>4, <1>5

\* Every bank that is built shares the neutral words out: none is on two
\* controls more than another, and two consecutive probes of a specification
\* with room in the pool have at most one word of their fill in common
\* (composition.py: one order of the pool, and windows of it).
THEOREM PoolAlwaysSharedOut == Spec => []PoolIsSharedOut
<1> DEFINE Shared == SharesOut(built.boards, built.neutral)
<1>1. Init => Shared
  <2> SUFFICES ASSUME Init PROVE Shared
    OBVIOUS
  <2>1. built.boards = <<>> /\ built.neutral = {}
    BY DEF Init, NoBank
  <2>2. DOMAIN built.boards = {}
    BY <2>1
  <2>3. QED BY <2>1, <2>2 DEF SharesOut
<1>2. BankInv /\ Shared /\ [Next]_vars => Shared'
  <2> SUFFICES ASSUME BankInv, Shared, [Next]_vars PROVE Shared'
    OBVIOUS
  <2>1. ASSUME NEW manifest \in Manifests, NEW master \in Seeds, BuildBank(manifest, master)
        PROVE  Shared'
    BY <2>1, BuildSharesOut
  <2>2. ASSUME UNCHANGED built PROVE Shared'
    BY <2>2
  <2>3. UNCHANGED built \/ \E manifest \in Manifests, master \in Seeds : BuildBank(manifest, master)
    BY DEF Next, vars, WriteCandidates, ReviewCandidates, EditWords, StartDilemma, Attempt, RepickTarget,
           WriteRecord, WriteBoard, EmitFrame, StartSeal, SealNext, Interrupt
  <2>4. QED BY <2>1, <2>2, <2>3
<1>3. Shared => PoolIsSharedOut
  BY SharedOutMeans
<1> HIDE DEF Shared
<1>4. QED BY <1>1, <1>2, <1>3, BankInvariant, PTL DEF Spec

=============================================================================
