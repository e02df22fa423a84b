------------------------ MODULE RunProvenanceProofs ------------------------
(***************************************************************************)
(* The schedule for any kinds, places and models, and RunProvenance for    *)
(* any bank, models, launches and changes: a run is one experiment, and    *)
(* what it played is stored, when nothing changes during a launch.         *)
(***************************************************************************)
EXTENDS RunProvenance, FiniteSetTheorems, TLAPS

-----------------------------------------------------------------------------
(***************************************************************************)
(* Sorted lists                                                            *)
(***************************************************************************)

\* Distinct ranks among as many: each is somebody's.
LEMMA RankExists ==
  ASSUME NEW S, IsFiniteSet(S), NEW rank \in [S -> 1..Cardinality(S)],
         \A x, y \in S : x # y => rank[x] # rank[y],
         NEW n \in 1..Cardinality(S)
  PROVE  \E x \in S : rank[x] = n
<1> DEFINE T == 1..Cardinality(S)
<1>1. Cardinality(S) \in Nat
  BY FS_CardinalityType
<1>2. IsFiniteSet(T) /\ Cardinality(T) = Cardinality(S)
  BY <1>1, FS_Interval, 1 \in Int
<1>3. rank \in Injection(S, T)
  BY DEF Injection, IsInjective
<1>4. rank \in Surjection(S, T)
  BY <1>2, <1>3, FS_Injection
<1>5. QED BY <1>4 DEF Surjection

\* A longer beginning of a sorted list has more elements.
LEMMA LongerHasMore ==
  ASSUME NEW S, IsFiniteSet(S), NEW A \in SUBSET S, NEW B \in SUBSET S,
         A \subseteq B, NEW b \in B, b \notin A
  PROVE  Cardinality(A) # Cardinality(B)
<1>1. IsFiniteSet(B) /\ A \in SUBSET B /\ A # B
  BY FS_Subset
<1>2. QED BY <1>1, FS_Subset

\* The beginning of a sorted list that ends with one of its elements.
LEMMA BeginningCounts ==
  ASSUME NEW S, IsFiniteSet(S), NEW A \in SUBSET S, NEW a \in A
  PROVE  Cardinality(A) \in 1..Cardinality(S)
<1>1. IsFiniteSet(A) /\ Cardinality(A) <= Cardinality(S) /\ A # {}
  BY FS_Subset
<1>2. Cardinality(A) \in Nat /\ Cardinality(S) \in Nat /\ Cardinality(A) # 0
  BY <1>1, FS_CardinalityType, FS_EmptySet
<1>3. QED BY <1>1, <1>2

\* Two numbers of a set stand at different places of its sorted list.
LEMMA NumbersDiffer ==
  ASSUME NEW S \in SUBSET Nat, IsFiniteSet(S), NEW x \in S, NEW y \in S, x # y
  PROVE  Cardinality({z \in S : z <= x}) # Cardinality({z \in S : z <= y})
<1> DEFINE UpTo(v) == {z \in S : z <= v}
<1>1. ASSUME NEW u \in S, NEW v \in S, u < v
      PROVE  Cardinality(UpTo(u)) # Cardinality(UpTo(v))
  <2>1. u \in Nat /\ v \in Nat /\ v \in UpTo(v) /\ v \notin UpTo(u)
    BY <1>1
  <2>2. ASSUME NEW z \in S, z <= u PROVE z <= v
    BY <1>1, <2>1, <2>2
  <2>3. UpTo(u) \subseteq UpTo(v) /\ UpTo(u) \in SUBSET S /\ UpTo(v) \in SUBSET S
    BY <2>2
  <2> HIDE DEF UpTo
  <2>4. QED BY <2>1, <2>3, LongerHasMore
<1>2. x < y \/ y < x
  OBVIOUS
<1>3. Cardinality(UpTo(x)) # Cardinality(UpTo(y))
  <2> HIDE DEF UpTo
  <2>1. QED BY <1>1, <1>2
<1>4. QED BY <1>3

LEMMA NumberRanks ==
  ASSUME NEW S \in SUBSET Nat, IsFiniteSet(S), NEW x \in S
  PROVE  Cardinality({z \in S : z <= x}) \in 1..Cardinality(S)
<1> DEFINE A == {z \in S : z <= x}
<1>1. A \in SUBSET S /\ x \in A
  OBVIOUS
<1> HIDE DEF A
<1>2. Cardinality(A) \in 1..Cardinality(S)
  BY <1>1, BeginningCounts
<1>3. QED BY <1>2 DEF A

\* sorted(S)[n - 1] of a set of numbers.
LEMMA NthExists ==
  ASSUME NEW S \in SUBSET Nat, IsFiniteSet(S), NEW n \in 1..Cardinality(S)
  PROVE  Nth(S, n) \in S /\ Cardinality({z \in S : z <= Nth(S, n)}) = n
<1> DEFINE rank == [x \in S |-> Cardinality({z \in S : z <= x})]
<1>1. rank \in [S -> 1..Cardinality(S)] /\ \A x, y \in S : x # y => rank[x] # rank[y]
  BY NumberRanks, NumbersDiffer
<1>2. \E x \in S : rank[x] = n
  <2> HIDE DEF rank
  <2>1. QED BY <1>1, RankExists
<1>3. QED BY <1>2 DEF Nth

-----------------------------------------------------------------------------
(***************************************************************************)
(* The schedule                                                            *)
(***************************************************************************)

\* A bank as the schedule sees it: finitely many numbered boards.
LEMMA KindsFinite ==
  ASSUME NEW kindOf, DOMAIN kindOf \subseteq Nat, IsFiniteSet(DOMAIN kindOf), NEW kind
  PROVE  OfKind(kindOf, kind) \in SUBSET Nat /\ IsFiniteSet(OfKind(kindOf, kind))
<1>1. OfKind(kindOf, kind) \in SUBSET (DOMAIN kindOf)
  BY DEF OfKind
<1>2. QED BY <1>1, FS_Subset

LEMMA PlacesFinite == IsFiniteSet(Places)
BY PlacesAssumption, FS_Interval, 0 \in Int, NBoards - 1 \in Int DEF Places

LEMMA PlacesNeeded ==
  ASSUME NEW kindOf, DOMAIN kindOf \subseteq Nat, IsFiniteSet(DOMAIN kindOf),
         NoShortfall(kindOf), NEW j \in Places
  PROVE  Cardinality(PlacesUpTo(j)) \in 1..Cardinality(OfKind(kindOf, KindAt[j]))
<1>1. PlacesUpTo(j) \in SUBSET Places /\ j \in PlacesUpTo(j)
  BY PlacesAssumption DEF PlacesUpTo, Places
<1>2. Cardinality(PlacesUpTo(j)) \in 1..Cardinality(Places)
  BY <1>1, PlacesFinite, BeginningCounts
<1>3. Cardinality(OfKind(kindOf, KindAt[j])) \in Nat
  BY KindsFinite, FS_CardinalityType
<1>4. Cardinality(OfKind(kindOf, KindAt[j])) >= Cardinality(PlacesUpTo(j))
  BY DEF NoShortfall
<1>5. QED BY <1>2, <1>3, <1>4

\* Every place of the selection has a board of the bank and of its kind.
LEMMA SelectionIsOfTheBank ==
  ASSUME NEW kindOf, DOMAIN kindOf \subseteq Nat, IsFiniteSet(DOMAIN kindOf),
         NoShortfall(kindOf), NEW j \in Places
  PROVE  /\ SelectBoards(kindOf)[j] \in OfKind(kindOf, KindAt[j])
         /\ Cardinality({b \in OfKind(kindOf, KindAt[j]) : b <= SelectBoards(kindOf)[j]})
              = Cardinality(PlacesUpTo(j))
<1>1. SelectBoards(kindOf)[j] = Nth(OfKind(kindOf, KindAt[j]), Cardinality(PlacesUpTo(j)))
  BY DEF SelectBoards
<1>2. QED BY <1>1, PlacesNeeded, KindsFinite, NthExists

\* And no board has two places.
LEMMA SelectionIsDistinct ==
  ASSUME NEW kindOf, DOMAIN kindOf \subseteq Nat, IsFiniteSet(DOMAIN kindOf),
         NoShortfall(kindOf), NEW i \in Places, NEW j \in Places, i < j
  PROVE  SelectBoards(kindOf)[i] # SelectBoards(kindOf)[j]
<1>1. CASE KindAt[i] # KindAt[j]
  <2>1. /\ SelectBoards(kindOf)[i] \in OfKind(kindOf, KindAt[i])
        /\ SelectBoards(kindOf)[j] \in OfKind(kindOf, KindAt[j])
    BY SelectionIsOfTheBank
  <2>2. QED BY <1>1, <2>1 DEF OfKind
<1>2. CASE KindAt[i] = KindAt[j]
  <2>1. /\ PlacesUpTo(i) \in SUBSET Places /\ PlacesUpTo(j) \in SUBSET Places
        /\ PlacesUpTo(i) \subseteq PlacesUpTo(j) /\ j \in PlacesUpTo(j) /\ j \notin PlacesUpTo(i)
    BY <1>2, PlacesAssumption DEF PlacesUpTo, Places
  <2>2. Cardinality(PlacesUpTo(i)) # Cardinality(PlacesUpTo(j))
    BY <2>1, PlacesFinite, LongerHasMore
  <2>3. QED BY <1>2, <2>2, SelectionIsOfTheBank
<1>3. QED BY <1>1, <1>2

LEMMA KeysFinite ==
  ASSUME NEW models \in SUBSET Nat, IsFiniteSet(models)
  PROVE  /\ IsFiniteSet(PairingKeys(models)) /\ Cardinality(PairingKeys(models)) \in Nat
         /\ \A k \in PairingKeys(models) : /\ k[1] \in models /\ k[2] \in models
                                           /\ k[1] < k[2] /\ k = <<k[1], k[2]>>
<1>1. PairingKeys(models) \in SUBSET (models \X models)
  BY DEF PairingKeys
<1>2. IsFiniteSet(models \X models)
  BY FS_Product
<1>3. QED BY <1>1, <1>2, FS_Subset, FS_CardinalityType DEF PairingKeys

LEMMA KeysDiffer ==
  ASSUME NEW models \in SUBSET Nat, IsFiniteSet(models), NEW x \in PairingKeys(models),
         NEW y \in PairingKeys(models), x # y
  PROVE  Cardinality(KeysUpTo(models, x)) # Cardinality(KeysUpTo(models, y))
<1> DEFINE K == PairingKeys(models)
<1>1. \A k \in K : k[1] \in Nat /\ k[2] \in Nat /\ k = <<k[1], k[2]>>
  BY KeysFinite
<1>2. ASSUME NEW u \in K, NEW v \in K, u[1] < v[1] \/ (u[1] = v[1] /\ u[2] < v[2])
      PROVE  Cardinality(KeysUpTo(models, u)) # Cardinality(KeysUpTo(models, v))
  <2>1. /\ u[1] \in Nat /\ u[2] \in Nat /\ v[1] \in Nat /\ v[2] \in Nat
    BY <1>1
  <2>2. v \in KeysUpTo(models, v) /\ v \notin KeysUpTo(models, u)
    BY <1>2, <2>1 DEF KeysUpTo
  <2>3. ASSUME NEW k \in K, k[1] < u[1] \/ (k[1] = u[1] /\ k[2] <= u[2])
        PROVE  k[1] < v[1] \/ (k[1] = v[1] /\ k[2] <= v[2])
    <3>1. k[1] \in Nat /\ k[2] \in Nat
      BY <1>1
    <3>2. QED BY <1>2, <2>1, <2>3, <3>1
  <2>4. /\ KeysUpTo(models, u) \subseteq KeysUpTo(models, v)
        /\ KeysUpTo(models, u) \in SUBSET K /\ KeysUpTo(models, v) \in SUBSET K
    BY <2>3 DEF KeysUpTo
  <2>5. QED BY <2>2, <2>4, KeysFinite, LongerHasMore
<1>3. \/ x[1] < y[1] \/ (x[1] = y[1] /\ x[2] < y[2])
      \/ y[1] < x[1] \/ (y[1] = x[1] /\ y[2] < x[2])
  <2>1. x[1] # y[1] \/ x[2] # y[2]
    BY <1>1
  <2>2. x[1] \in Nat /\ x[2] \in Nat /\ y[1] \in Nat /\ y[2] \in Nat
    BY <1>1
  <2>3. QED BY <2>1, <2>2
<1>4. QED BY <1>2, <1>3

LEMMA KeyRanks ==
  ASSUME NEW models \in SUBSET Nat, IsFiniteSet(models), NEW key \in PairingKeys(models)
  PROVE  Cardinality(KeysUpTo(models, key)) \in 1..Cardinality(PairingKeys(models))
<1>1. KeysUpTo(models, key) \in SUBSET PairingKeys(models) /\ key \in KeysUpTo(models, key)
  BY KeysFinite DEF KeysUpTo
<1>2. QED BY <1>1, KeysFinite, BeginningCounts

\* Every pairing ordinal has a pair, and every pair its ordinal.
LEMMA PairingKeyExists ==
  ASSUME NEW models \in SUBSET Nat, IsFiniteSet(models),
         NEW p \in 0..(Cardinality(PairingKeys(models)) - 1)
  PROVE  /\ PairingKey(models, p) \in PairingKeys(models)
         /\ Cardinality(KeysUpTo(models, PairingKey(models, p))) = p + 1
<1> DEFINE K == PairingKeys(models)
           rank == [key \in K |-> Cardinality(KeysUpTo(models, key))]
<1>1. rank \in [K -> 1..Cardinality(K)] /\ \A x, y \in K : x # y => rank[x] # rank[y]
  BY KeyRanks, KeysDiffer
<1>2. p + 1 \in 1..Cardinality(K) /\ IsFiniteSet(K)
  BY KeysFinite
<1>3. \E x \in K : rank[x] = p + 1
  <2> HIDE DEF K, rank
  <2>1. QED BY <1>1, <1>2, RankExists
<1>4. QED BY <1>3 DEF PairingKey

LEMMA PairingOfKey ==
  ASSUME NEW models \in SUBSET Nat, IsFiniteSet(models), NEW key \in PairingKeys(models)
  PROVE  \E p \in 0..(Cardinality(PairingKeys(models)) - 1) : PairingKey(models, p) = key
<1> DEFINE p == Cardinality(KeysUpTo(models, key)) - 1
<1>1. p \in 0..(Cardinality(PairingKeys(models)) - 1)
      /\ Cardinality(KeysUpTo(models, key)) = p + 1
  BY KeyRanks, KeysFinite
<1>2. /\ PairingKey(models, p) \in PairingKeys(models)
      /\ Cardinality(KeysUpTo(models, PairingKey(models, p))) = p + 1
  <2> HIDE DEF p
  <2>1. QED BY <1>1, PairingKeyExists
<1>3. PairingKey(models, p) = key
  BY <1>1, <1>2, KeysDiffer
<1>4. QED BY <1>1, <1>3

\* A game index is a pairing, a place and an orientation.
LEMMA IndexParts ==
  ASSUME NEW g \in Nat
  PROVE  Pairing(g) \in Nat /\ Place(g) \in Places /\ g % 2 \in {0, 1}
<1> DEFINE d == 2 * NBoards
           r == g % d
<1>1. d \in Nat \ {0} /\ NBoards \in Nat \ {0}
  BY PlacesAssumption
<1>2. g \div d \in Nat /\ r \in 0..(d - 1)
  <2> HIDE DEF d
  <2>1. QED BY <1>1
<1>3. r \div 2 \in 0..(NBoards - 1)
  <2>1. r \in Nat /\ r < 2 * NBoards
    BY <1>1, <1>2
  <2> HIDE DEF r
  <2>2. QED BY <1>1, <2>1
<1>4. g % 2 \in {0, 1}
  OBVIOUS
<1>5. QED BY <1>2, <1>3, <1>4 DEF Pairing, Place, Places

LEMMA Euclid ==
  ASSUME NEW g \in Int, NEW d \in Int, d > 0
  PROVE  g = d * (g \div d) + (g % d)
BY Z3

LEMMA EvenDivisor ==
  ASSUME NEW g \in Nat
  PROVE  (g % (2 * NBoards)) % 2 = g % 2
<1> DEFINE d == 2 * NBoards
           r == g % d
           q == g \div d
           m == NBoards * q
<1>1. d \in Nat \ {0} /\ NBoards \in Nat \ {0} /\ d > 0
  BY PlacesAssumption
<1>2. g = d * q + r /\ q \in Nat /\ r \in Nat
  <2> HIDE DEF d
  <2>1. QED BY <1>1, Euclid
<1>3. m \in Nat /\ g = 2 * m + r
  <2> HIDE DEF q, r
  <2>1. QED BY <1>1, <1>2
<1>4. r % 2 = g % 2
  <2> HIDE DEF r, m
  <2>1. QED BY <1>2, <1>3
<1>5. QED BY <1>4

LEMMA IndexUnique ==
  ASSUME NEW g \in Nat, NEW h \in Nat, Pairing(g) = Pairing(h), Place(g) = Place(h),
         g % 2 = h % 2
  PROVE  g = h
<1> DEFINE d == 2 * NBoards
           r == g % d
           s == h % d
<1>1. d \in Nat \ {0}
  BY PlacesAssumption
<1>2. r \in Nat /\ s \in Nat
  <2> HIDE DEF d
  <2>1. QED BY <1>1
<1>3. r \div 2 = s \div 2 /\ r % 2 = s % 2
  BY EvenDivisor DEF Place
<1>4. r = s
  <2> HIDE DEF r, s
  <2>1. QED BY <1>2, <1>3
<1>5. g \div d = h \div d /\ g % d = h % d
  BY <1>4 DEF Pairing
<1>6. QED
  <2> HIDE DEF d
  <2>1. QED BY <1>1, <1>5

LEMMA IndexOf ==
  ASSUME NEW K \in Nat, NEW p \in 0..(K - 1), NEW j \in Places, NEW o \in {0, 1}
  PROVE  \E g \in 0..(K * 2 * NBoards - 1) : Pairing(g) = p /\ Place(g) = j /\ g % 2 = o
<1> DEFINE d == 2 * NBoards
           r == 2 * j + o
           g == p * d + r
           m == p * NBoards + j
<1>1. /\ NBoards \in Nat \ {0} /\ d \in Nat \ {0} /\ j \in Nat /\ j < NBoards /\ p \in Nat
      /\ r \in Nat /\ r < d
  BY PlacesAssumption DEF Places
<1>2. g \in Nat /\ p * d \in Nat
  <2> HIDE DEF d, r
  <2>1. QED BY <1>1
<1>3. g < K * d
  <2>1. p + 1 <= K /\ (p + 1) * d = p * d + d
    <3> HIDE DEF d
    <3>1. QED BY <1>1
  <2>2. (p + 1) * d <= K * d
    <3> HIDE DEF d
    <3>1. QED BY <1>1, <2>1
  <2>3. g < (p + 1) * d
    <3> HIDE DEF d, r
    <3>1. QED BY <1>1, <2>1
  <2> HIDE DEF d, g
  <2>4. K * d \in Nat /\ (p + 1) * d \in Nat
    BY <1>1
  <2>5. QED BY <1>2, <2>2, <2>3, <2>4
<1>4. g \div d = p /\ g % d = r
  <2> HIDE DEF d, r
  <2>1. QED BY <1>1
<1>5. r \div 2 = j /\ r % 2 = o
  BY <1>1
<1>6. g % 2 = o
  <2>1. m \in Nat /\ g = 2 * m + o
    BY <1>1
  <2> HIDE DEF g, m
  <2>2. QED BY <2>1
<1>7. K * d = K * 2 * NBoards
  BY <1>1
<1>8. g \in 0..(K * 2 * NBoards - 1)
  <2> HIDE DEF d, g
  <2>1. K * d \in Nat
    BY <1>1
  <2>2. QED BY <1>2, <1>3, <1>7, <2>1
<1>9. QED BY <1>4, <1>5, <1>6, <1>8 DEF Pairing, Place

LEMMA IndexPairing ==
  ASSUME NEW models \in SUBSET Nat, IsFiniteSet(models), NEW g \in GameIndexes(models)
  PROVE  /\ g \in Nat /\ Place(g) \in Places
         /\ Pairing(g) \in 0..(Cardinality(PairingKeys(models)) - 1)
<1> DEFINE K == Cardinality(PairingKeys(models))
           d == 2 * NBoards
<1>1. K \in Nat /\ d \in Nat \ {0} /\ NBoards \in Nat
  BY KeysFinite, PlacesAssumption
<1>2. g \in Nat /\ g < K * d
  <2> HIDE DEF K
  <2>1. g \in 0..(K * 2 * NBoards - 1)
    BY DEF GameIndexes, K
  <2>2. K * 2 * NBoards = K * d
    BY <1>1
  <2>3. K * d \in Nat
    BY <1>1
  <2>4. QED BY <2>1, <2>2, <2>3
<1>3. g \div d \in Nat /\ g \div d < K
  <2> HIDE DEF d, K
  <2>1. g \div d \in Nat /\ g % d \in Nat /\ g \in Int /\ d \in Int /\ d > 0
    BY <1>1, <1>2
  <2>2. g = d * (g \div d) + (g % d)
    BY <2>1, Euclid
  <2>3. QED BY <1>1, <1>2, <2>1, <2>2
<1>4. QED BY <1>1, <1>2, <1>3, IndexParts DEF Pairing

LEMMA SeatsOfKey ==
  ASSUME NEW models \in SUBSET Nat, IsFiniteSet(models), NEW g \in GameIndexes(models)
  PROVE  \E key \in PairingKeys(models) :
           /\ key = PairingKey(models, Pairing(g))
           /\ Seats(models, g) = IF g % 2 = 0 THEN key ELSE <<key[2], key[1]>>
BY IndexPairing, PairingKeyExists, KeysFinite DEF Seats

\* Whatever the bank and the models, every two models meet on every place of the
\* selection exactly once with each of them in seat 0; a place has a board of
\* its kind, no two places the same one; and a pairing's games are contiguous
\* (batch_schedule docstring), as BatchRunner assumes of its schedule.
THEOREM ScheduleIsBalanced ==
  ASSUME NEW models \in SUBSET Nat, IsFiniteSet(models),
         NEW kindOf, DOMAIN kindOf \subseteq Nat, IsFiniteSet(DOMAIN kindOf), NoShortfall(kindOf)
  PROVE  LET s == BuildSchedule(models, kindOf)
             boards == SelectBoards(kindOf)
         IN  /\ \A m, n \in models : \A j \in Places : m # n =>
                  \E g \in DOMAIN s :
                    /\ s[g].place = j /\ s[g].board = boards[j] /\ s[g].seats = <<m, n>>
                    /\ \A h \in DOMAIN s : s[h].place = j /\ s[h].seats = <<m, n>> => h = g
             /\ \A i, j \in Places : /\ boards[j] \in OfKind(kindOf, KindAt[j])
                                     /\ i # j => boards[i] # boards[j]
             /\ \A g, h \in DOMAIN s : g <= h => s[g].pairing <= s[h].pairing
<1> DEFINE s == BuildSchedule(models, kindOf)
           boards == SelectBoards(kindOf)
           D == GameIndexes(models)
           K == Cardinality(PairingKeys(models))
<1>1. /\ DOMAIN s = D
      /\ \A g \in D : /\ s[g].pairing = Pairing(g) /\ s[g].place = Place(g)
                      /\ s[g].board = boards[Place(g)] /\ s[g].seats = Seats(models, g)
  BY DEF BuildSchedule, Cell
<1>2. ASSUME NEW m \in models, NEW n \in models, NEW j \in Places, m # n
      PROVE  \E g \in D : /\ Place(g) = j /\ Seats(models, g) = <<m, n>>
                          /\ \A h \in D : Place(h) = j /\ Seats(models, h) = <<m, n>> => h = g
  <2> DEFINE key == IF m < n THEN <<m, n>> ELSE <<n, m>>
             o == IF m < n THEN 0 ELSE 1
  <2>1. key \in PairingKeys(models) /\ m \in Nat /\ n \in Nat
    BY <1>2 DEF PairingKeys
  <2>2. PICK p \in 0..(K - 1) : PairingKey(models, p) = key
    BY <2>1, PairingOfKey
  <2>3. K \in Nat /\ o \in {0, 1}
    BY KeysFinite
  <2>4. PICK g \in D : Pairing(g) = p /\ Place(g) = j /\ g % 2 = o
    <3> HIDE DEF o, K
    <3>1. \E g \in 0..(K * 2 * NBoards - 1) : Pairing(g) = p /\ Place(g) = j /\ g % 2 = o
      BY <2>3, IndexOf
    <3>2. QED BY <3>1 DEF GameIndexes, K
  <2>5. Seats(models, g) = <<m, n>>
    BY <2>2, <2>4 DEF Seats
  <2>6. ASSUME NEW h \in D, Place(h) = j, Seats(models, h) = <<m, n>> PROVE h = g
    <3>1. PICK k \in PairingKeys(models) :
            /\ k = PairingKey(models, Pairing(h))
            /\ Seats(models, h) = IF h % 2 = 0 THEN k ELSE <<k[2], k[1]>>
      BY SeatsOfKey
    <3>2. /\ k[1] \in Nat /\ k[2] \in Nat /\ k[1] < k[2] /\ k = <<k[1], k[2]>>
          /\ h \in Nat /\ g \in Nat
      BY KeysFinite, IndexPairing
    <3>3. h % 2 \in {0, 1}
      BY <3>2, IndexParts
    <3>4. k = key /\ h % 2 = o
      <4>1. CASE h % 2 = 0
        <5>1. k[1] = m /\ k[2] = n
          BY <2>6, <3>1, <3>2, <4>1
        <5>2. QED BY <2>1, <3>2, <4>1, <5>1
      <4>2. CASE h % 2 = 1
        <5>1. k[2] = m /\ k[1] = n
          BY <2>6, <3>1, <3>2, <4>2
        <5>2. ~(m < n)
          BY <2>1, <3>2, <5>1
        <5>3. QED BY <3>2, <4>2, <5>1, <5>2
      <4>3. QED BY <3>3, <4>1, <4>2
    <3>5. Pairing(h) = Pairing(g)
      <4>1. Pairing(h) \in 0..(K - 1) /\ Pairing(g) = p
        BY <2>4, IndexPairing
      <4>2. /\ Cardinality(KeysUpTo(models, key)) = p + 1
            /\ Cardinality(KeysUpTo(models, key)) = Pairing(h) + 1
        BY <2>2, <3>1, <3>4, <4>1, PairingKeyExists
      <4>3. QED BY <4>1, <4>2
    <3>6. QED BY <2>4, <2>6, <3>2, <3>4, <3>5, IndexUnique
  <2>7. QED BY <2>4, <2>5, <2>6
<1>3. ASSUME NEW i \in Places, NEW j \in Places
      PROVE  boards[j] \in OfKind(kindOf, KindAt[j]) /\ (i # j => boards[i] # boards[j])
  <2>1. i \in Nat /\ j \in Nat
    BY DEF Places
  <2>2. i # j => i < j \/ j < i
    BY <2>1
  <2>3. QED BY <2>2, SelectionIsOfTheBank, SelectionIsDistinct
<1>4. ASSUME NEW g \in D, NEW h \in D, g <= h PROVE Pairing(g) <= Pairing(h)
  <2> DEFINE d == 2 * NBoards
  <2>1. g \in Nat /\ h \in Nat /\ d \in Nat \ {0}
    BY IndexPairing, PlacesAssumption
  <2>2. g \div d <= h \div d
    <3> HIDE DEF d
    <3>1. QED BY <1>4, <2>1
  <2>3. QED BY <2>2 DEF Pairing
<1> HIDE DEF s, boards, D
<1>5. /\ \A m, n \in models : \A j \in Places : m # n =>
           \E g \in DOMAIN s :
             /\ s[g].place = j /\ s[g].board = boards[j] /\ s[g].seats = <<m, n>>
             /\ \A h \in DOMAIN s : s[h].place = j /\ s[h].seats = <<m, n>> => h = g
      /\ \A g, h \in DOMAIN s : g <= h => s[g].pairing <= s[h].pairing
  BY <1>1, <1>2, <1>4
<1>6. QED BY <1>3, <1>5 DEF s, boards

-----------------------------------------------------------------------------
(***************************************************************************)
(* The invariant of the database and the batch                             *)
(***************************************************************************)

IsRun(r) ==
  r \in [minted : {TRUE}, seed : {r.seed}, temperature : {r.temperature},
         templates : {r.templates}, served : {r.served}, code : {r.code},
         manifest : {r.manifest}, notes : {r.notes}]

\* The shape of the tables.
TableInv ==
  /\ files \in [Boards -> Contents \cup {Absent, Broken}]
  /\ stored \in [Boards -> Entries]
  /\ runs = [r \in Runs |-> runs[r]] /\ \A r \in Runs : runs[r] = NoRun \/ IsRun(runs[r])
  /\ rows = [id \in GameIds |-> rows[id]]

\* What row r of the run table says of a game's row: all of it but the board.
Agrees(id, row, r) ==
  /\ r # NoRun
  /\ r.seed = id[1] /\ r.temperature = row.temperature /\ r.templates = row.templates
  /\ id[2] \in GameIndexes(DOMAIN r.served)
  /\ row.pairing = Pairing(id[2]) /\ row.place = Place(id[2])
  /\ row.seats = Seats(DOMAIN r.served, id[2])
  /\ \A m \in DOMAIN row.served : m \in DOMAIN r.served /\ r.served[m] = row.served[m]
  /\ r.manifest # NoManifest =>
       row.board \in DOMAIN r.manifest /\ r.manifest[row.board] = row.content
  /\ row.code \in {r.code} \cup r.notes

\* The board table has the board with that content, hashed.
Has(entry, content) == entry.hashed /\ entry.content = content

RowsInv ==
  /\ \A id \in Played : LET row == rows[id] IN
       /\ row.run \in Runs /\ row.board \in Boards
       /\ Agrees(id, row, runs[row.run])
       /\ Has(stored[row.board], row.content)
  /\ \A x, y \in Played :
       rows[x].run = rows[y].run /\ rows[x].place = rows[y].place => rows[x].board = rows[y].board

\* A batch that is being launched, when nothing changes meanwhile: what it read
\* is what there is.
Loaded(j) ==
  /\ j.ask \in Asks /\ j.resume \in Runs \cup {"none"} /\ j.code = code
  /\ j.bank = Bank(files) /\ \A b \in Boards : files[b] # Broken

Checked(j) ==
  /\ Loaded(j)
  /\ CanSchedule(j.ask.models, KindsOf(j.bank))
  /\ j.templates = templates
  /\ j.resume # "none" => NoResumeProblems(j, templates)

Opened(j) ==
  /\ Checked(j)
  /\ \A b \in Scheduled(j) : Has(stored[b], j.bank[b])
  /\ j.manifest = [b \in Scheduled(j) |-> j.bank[b]]

IsPlay(j) ==
  j \in [at : {"play"}, ask : {j.ask}, run : {j.run}, code : {j.code}, bank : {j.bank},
         templates : {j.templates}, kept : {j.kept}, served : {j.served}, next : {j.next}]

\* A schedule that can be played, from a bank that can be loaded.
Playable(j) ==
  /\ j.ask \in Asks
  /\ \E fs \in [Boards -> Contents \cup {Absent}] : j.bank = Bank(fs)
  /\ CanSchedule(j.ask.models, KindsOf(j.bank))

\* What the run's row says of the batch that plays under it.
RunSays(r, j) ==
  /\ r.seed = j.ask.seed /\ r.temperature = j.ask.temperature /\ r.templates = j.templates
  /\ DOMAIN r.served = j.ask.models /\ \A m \in j.ask.models : r.served[m] = j.served[m]
  /\ r.manifest # NoManifest => r.manifest = [b \in Scheduled(j) |-> j.bank[b]]
  /\ j.code \in {r.code} \cup r.notes

\* A batch that plays: its boards are stored or gone, its run is its own or gone,
\* and what the run recorded is on the boards this batch has at those places.
Plays(j) ==
  /\ IsPlay(j) /\ j.run \in Runs /\ Playable(j)
  /\ \A b \in Scheduled(j) : stored[b] # NotStored => Has(stored[b], j.bank[b])
  /\ runs[j.run] # NoRun => RunSays(runs[j.run], j)
  /\ \A id \in Played : rows[id].run = j.run =>
       id[2] \in DOMAIN ScheduleOf(j) /\ rows[id].board = ScheduleOf(j)[id[2]].board

JobInv ==
  \/ job = Idle
  \/ job.at = "check" /\ Loaded(job)
  \/ job.at = "ingest" /\ Checked(job)
  \/ job.at = "open" /\ Opened(job)
  \/ Plays(job)

ProvenanceInv == TableInv /\ RowsInv /\ JobInv

-----------------------------------------------------------------------------
(***************************************************************************)
(* What a batch schedules                                                  *)
(***************************************************************************)

LEMMA BankIsNumbered ==
  ASSUME NEW fs \in [Boards -> Contents \cup {Absent}]
  PROVE  /\ DOMAIN Bank(fs) \subseteq Boards
         /\ \A b \in DOMAIN Bank(fs) : Bank(fs)[b] = fs[b] /\ fs[b] \in Contents
         /\ DOMAIN KindsOf(Bank(fs)) = DOMAIN Bank(fs)
         /\ DOMAIN KindsOf(Bank(fs)) \subseteq Nat /\ IsFiniteSet(DOMAIN KindsOf(Bank(fs)))
<1>1. /\ DOMAIN Bank(fs) \subseteq Boards
      /\ \A b \in DOMAIN Bank(fs) : Bank(fs)[b] = fs[b] /\ fs[b] \in Contents
      /\ DOMAIN KindsOf(Bank(fs)) = DOMAIN Bank(fs)
  BY DEF Bank, KindsOf
<1>2. QED BY <1>1, BankAssumption, FS_Subset

\* A scheduled game has a board of the bank and two of the models.
LEMMA Schedules ==
  ASSUME NEW j, Playable(j)
  PROVE  /\ j.ask.models \in SUBSET Nat /\ IsFiniteSet(j.ask.models)
         /\ DOMAIN ScheduleOf(j) = GameIndexes(j.ask.models)
         /\ Scheduled(j) \subseteq DOMAIN j.bank /\ DOMAIN j.bank \subseteq Boards
         /\ \A g \in DOMAIN ScheduleOf(j) : LET cell == ScheduleOf(j)[g] IN
              /\ cell.pairing = Pairing(g) /\ cell.place = Place(g)
              /\ cell.board = SelectBoards(KindsOf(j.bank))[Place(g)]
              /\ cell.board \in Scheduled(j)
              /\ cell.seats = Seats(j.ask.models, g)
              /\ cell.seats[1] \in j.ask.models /\ cell.seats[2] \in j.ask.models
<1> DEFINE models == j.ask.models
           kindOf == KindsOf(j.bank)
           s == ScheduleOf(j)
<1>1. models \in SUBSET Nat /\ IsFiniteSet(models)
  BY AsksAssumption DEF Playable
<1>2. /\ DOMAIN j.bank \subseteq Boards /\ DOMAIN kindOf = DOMAIN j.bank
      /\ DOMAIN kindOf \subseteq Nat /\ IsFiniteSet(DOMAIN kindOf) /\ NoShortfall(kindOf)
  BY BankIsNumbered DEF Playable, CanSchedule
<1>3. /\ DOMAIN s = GameIndexes(models)
      /\ \A g \in DOMAIN s : /\ s[g].pairing = Pairing(g) /\ s[g].place = Place(g)
                             /\ s[g].board = SelectBoards(kindOf)[Place(g)]
                             /\ s[g].seats = Seats(models, g)
  BY DEF ScheduleOf, BuildSchedule, Cell
<1>4. ASSUME NEW g \in DOMAIN s
      PROVE  s[g].seats[1] \in models /\ s[g].seats[2] \in models /\ s[g].board \in DOMAIN j.bank
  <2>1. g \in GameIndexes(models)
    BY <1>3
  <2>2. PICK key \in PairingKeys(models) :
          Seats(models, g) = IF g % 2 = 0 THEN key ELSE <<key[2], key[1]>>
    BY <1>1, <2>1, SeatsOfKey
  <2>3. key[1] \in models /\ key[2] \in models
    BY <1>1, KeysFinite
  <2>4. s[g].seats[1] \in models /\ s[g].seats[2] \in models
    BY <1>3, <2>2, <2>3
  <2>5. Place(g) \in Places
    BY <1>1, <2>1, IndexPairing
  <2>6. s[g].board \in OfKind(kindOf, KindAt[Place(g)])
    BY <1>2, <1>3, <2>5, SelectionIsOfTheBank
  <2>7. QED BY <1>2, <2>4, <2>6 DEF OfKind
<1>5. \A g \in DOMAIN s : s[g].board \in Scheduled(j)
  BY DEF Scheduled
<1>6. Scheduled(j) \subseteq DOMAIN j.bank
  BY <1>4 DEF Scheduled
<1> HIDE DEF s
<1>7. QED BY <1>1, <1>2, <1>3, <1>4, <1>5, <1>6 DEF s

-----------------------------------------------------------------------------
(***************************************************************************)
(* The tables                                                              *)
(***************************************************************************)

LEMMA IngestedEntries ==
  ASSUME TableInv, \A b \in Boards : files[b] # Absent => Acceptable(b), NEW b \in Boards
  PROVE  /\ Ingested[b] \in Entries
         /\ files[b] # Absent => Has(Ingested[b], files[b])
         /\ \A content : Has(stored[b], content) => Has(Ingested[b], content)
<1>1. stored[b] \in Entries
  BY DEF TableInv
<1>2. CASE files[b] = Absent
  <2>1. Ingested[b] = stored[b]
    BY <1>2 DEF Ingested
  <2>2. QED BY <1>1, <1>2, <2>1
<1>3. CASE files[b] # Absent /\ stored[b] = NotStored
  <2>1. Ingested[b] = [content |-> files[b], hashed |-> TRUE] /\ files[b] \in Contents
    BY <1>3 DEF Ingested, Acceptable
  <2>2. Ingested[b] \in Entries /\ Has(Ingested[b], files[b])
    BY <2>1 DEF Entries, Has
  <2>3. ~stored[b].hashed
    BY <1>3 DEF NotStored
  <2>4. QED BY <2>2, <2>3 DEF Has
<1>4. CASE files[b] # Absent /\ stored[b] # NotStored
  <2>1. Ingested[b] = [stored[b] EXCEPT !.hashed = TRUE]
    BY <1>4 DEF Ingested
  <2>2. stored[b] \in [content : Contents, hashed : BOOLEAN] /\ stored[b].content = files[b]
    BY <1>1, <1>4 DEF Entries, Acceptable
  <2>3. /\ Ingested[b] \in [content : Contents, hashed : BOOLEAN]
        /\ Ingested[b].hashed /\ Ingested[b].content = files[b]
    BY <2>1, <2>2
  <2>4. QED BY <1>4, <2>2, <2>3 DEF Entries, Has
<1>5. QED BY <1>2, <1>3, <1>4

LEMMA TableStep == TableInv /\ [Next]_vars => TableInv'
<1> SUFFICES ASSUME TableInv, [Next]_vars PROVE TableInv'
  OBVIOUS
<1>1. CASE UNCHANGED <<files, db>>
  BY <1>1 DEF TableInv, db
<1>2. CASE IngestBank
  <2>1. /\ UNCHANGED <<files, runs, rows>>
        /\ stored' = stored \/ (stored' = Ingested
                                /\ \A b \in Boards : files[b] # Absent => Acceptable(b))
    BY <1>2 DEF IngestBank, world
  <2>2. stored' \in [Boards -> Entries]
    <3>1. CASE stored' = stored
      BY <3>1 DEF TableInv
    <3>2. CASE stored' = Ingested /\ \A b \in Boards : files[b] # Absent => Acceptable(b)
      <4>1. \A b \in Boards : stored'[b] \in Entries
        BY <3>2, IngestedEntries
      <4>2. stored' = [b \in Boards |-> stored'[b]]
        BY <3>2 DEF Ingested
      <4>3. QED BY <4>1, <4>2
    <3>3. QED BY <2>1, <3>1, <3>2
  <2>3. QED BY <2>1, <2>2 DEF TableInv
<1>3. ASSUME NEW r \in Runs, CreateRun(r) PROVE TableInv'
  <2>1. UNCHANGED <<files, stored, rows>>
    BY <1>3 DEF CreateRun, world
  <2> DEFINE n == [minted |-> TRUE, seed |-> job.ask.seed, temperature |-> job.ask.temperature,
                   templates |-> job.templates, served |-> ServedNow(job.ask.models),
                   code |-> code, manifest |-> job.manifest, notes |-> {}]
  <2>2. runs' = runs \/ runs' = [runs EXCEPT ![r] = n]
    BY <1>3 DEF CreateRun
  <2>3. IsRun(n)
    BY DEF IsRun
  <2> HIDE DEF n
  <2>4. QED BY <2>1, <2>2, <2>3 DEF TableInv
<1>4. CASE ResumeRun
  <2>1. UNCHANGED <<files, stored, rows>>
    BY <1>4 DEF ResumeRun, world
  <2>2. CASE runs' = runs
    BY <2>1, <2>2 DEF TableInv
  <2>3. CASE runs' # runs
    <3> DEFINE r == job.resume
               q == runs[r]
               n == [q EXCEPT !.notes = q.notes \cup {code}]
    <3>1. runs[r] # NoRun /\ runs' = [runs EXCEPT ![r].notes = @ \cup {code}]
      BY <1>4, <2>3 DEF ResumeRun
    <3>2. CASE r \in Runs
      <4>1. IsRun(q) /\ runs' = [runs EXCEPT ![r] = n]
        BY <3>1, <3>2 DEF TableInv
      <4>2. IsRun(n)
        <5> HIDE DEF q
        <5>1. QED BY <4>1 DEF IsRun
      <4> HIDE DEF n
      <4>3. QED BY <2>1, <4>1, <4>2 DEF TableInv
    <3>3. CASE r \notin Runs
      BY <2>3, <3>1, <3>3 DEF TableInv
    <3>4. QED BY <3>2, <3>3
  <2>4. QED BY <2>2, <2>3
<1>5. CASE PlayGame
  <2>1. UNCHANGED <<files, stored, runs>>
    BY <1>5 DEF PlayGame, world
  <2>2. rows' = [id \in GameIds |-> rows'[id]]
    BY <1>5 DEF PlayGame, TableInv
  <2>3. QED BY <2>1, <2>2 DEF TableInv
<1>6. ASSUME NEW b \in Boards, EditFile(b) PROVE TableInv'
  BY <1>6 DEF EditFile, TableInv, db
<1>7. ASSUME NEW b \in Boards, DeleteBoard(b) PROVE TableInv'
  <2>1. UNCHANGED <<files, runs, rows>> /\ stored' = [stored EXCEPT ![b] = NotStored]
    BY <1>7 DEF DeleteBoard, world
  <2>2. stored' \in [Boards -> Entries]
    BY <2>1 DEF TableInv, Entries
  <2>3. QED BY <2>1, <2>2 DEF TableInv
<1>8. ASSUME NEW r \in Runs, DeleteRun(r) PROVE TableInv'
  BY <1>8 DEF DeleteRun, TableInv, world
<1>9. CASE \/ \E ask \in Asks, resume \in Runs \cup {"none"} : LoadBank(ask, resume)
           \/ Check \/ End \/ EditTemplates \/ DeployCode \/ \E m \in Models : ServeAnother(m)
  <2>1. UNCHANGED <<files, db>>
    BY <1>9 DEF LoadBank, Check, End, EditTemplates, DeployCode, ServeAnother, world
  <2>2. QED BY <1>1, <2>1
<1>10. CASE UNCHANGED vars
  BY <1>1, <1>10 DEF vars, world
<1>11. QED BY <1>2, <1>3, <1>4, <1>5, <1>6, <1>7, <1>8, <1>9, <1>10 DEF Next

-----------------------------------------------------------------------------
(***************************************************************************)
(* The games recorded                                                      *)
(***************************************************************************)

\* A game that is played and stored, as the run's row, the board's row and the
\* schedule have it.
LEMMA GameIsPlayed ==
  ASSUME TableInv, Plays(job), PlayGame, rows' # rows
  PROVE  \E g, row :
           /\ g \in DOMAIN ScheduleOf(job)
           /\ <<job.ask.seed, g>> \in GameIds
           /\ rows' = [rows EXCEPT ![<<job.ask.seed, g>>] = row]
           /\ row.run = job.run /\ row.board \in Boards
           /\ row.board = ScheduleOf(job)[g].board /\ row.place = Place(g)
           /\ row.place = ScheduleOf(job)[g].place
           /\ Agrees(<<job.ask.seed, g>>, row, runs[job.run])
           /\ Has(stored[row.board], row.content)
<1> DEFINE g == job.next
           id == <<job.ask.seed, g>>
           cell == ScheduleOf(job)[g]
           r == runs[job.run]
           row == [run |-> job.run, pairing |-> cell.pairing, place |-> cell.place,
                   board |-> cell.board, content |-> job.bank[cell.board], seats |-> cell.seats,
                   temperature |-> job.ask.temperature, templates |-> job.templates,
                   served |-> [m \in {cell.seats[1], cell.seats[2]} |-> job.served[m]],
                   code |-> job.code]
<1>1. /\ g \in DOMAIN ScheduleOf(job) /\ rows' = [rows EXCEPT ![id] = row]
      /\ r # NoRun /\ stored[cell.board] # NotStored
  BY DEF PlayGame
<1>2. /\ DOMAIN ScheduleOf(job) = GameIndexes(job.ask.models)
      /\ cell.pairing = Pairing(g) /\ cell.place = Place(g)
      /\ cell.board \in Scheduled(job) /\ cell.board \in DOMAIN job.bank /\ cell.board \in Boards
      /\ cell.seats = Seats(job.ask.models, g)
      /\ cell.seats[1] \in job.ask.models /\ cell.seats[2] \in job.ask.models
  BY <1>1, Schedules DEF Plays
<1>3. id \in GameIds
  BY <1>1, <1>2 DEF GameIds, Plays, Playable
<1>4. RunSays(r, job)
  BY <1>1 DEF Plays
<1>5. /\ row.run = job.run /\ row.pairing = cell.pairing /\ row.place = cell.place
      /\ row.board = cell.board /\ row.content = job.bank[cell.board] /\ row.seats = cell.seats
      /\ row.temperature = job.ask.temperature /\ row.templates = job.templates
      /\ DOMAIN row.served = {cell.seats[1], cell.seats[2]}
      /\ \A m \in DOMAIN row.served : row.served[m] = job.served[m]
      /\ row.code = job.code
  <2> HIDE DEF cell
  <2>1. QED OBVIOUS
<1> HIDE DEF row, cell
<1>6. Has(stored[row.board], row.content)
  BY <1>1, <1>2, <1>5 DEF Plays
<1>7. Agrees(id, row, r)
  <2>1. r.seed = id[1] /\ id[2] = g
    BY <1>4 DEF RunSays
  <2>2. /\ r.temperature = row.temperature /\ r.templates = row.templates
        /\ DOMAIN r.served = job.ask.models
        /\ row.code \in {r.code} \cup r.notes
    BY <1>4, <1>5 DEF RunSays
  <2>3. \A m \in DOMAIN row.served : m \in DOMAIN r.served /\ r.served[m] = row.served[m]
    BY <1>2, <1>4, <1>5 DEF RunSays
  <2>4. r.manifest # NoManifest =>
          row.board \in DOMAIN r.manifest /\ r.manifest[row.board] = row.content
    BY <1>2, <1>4, <1>5 DEF RunSays
  <2> HIDE DEF r, g
  <2>5. r # NoRun /\ g \in GameIndexes(DOMAIN r.served) /\ row.pairing = Pairing(g)
        /\ row.place = Place(g) /\ row.seats = Seats(DOMAIN r.served, g)
    BY <1>1, <1>2, <1>5, <2>2 DEF r, g
  <2> HIDE DEF id
  <2>6. id[2] \in GameIndexes(DOMAIN r.served) /\ row.pairing = Pairing(id[2])
        /\ row.place = Place(id[2]) /\ row.seats = Seats(DOMAIN r.served, id[2])
    BY <2>1, <2>5
  <2>7. QED BY <2>1, <2>2, <2>3, <2>4, <2>5, <2>6 DEF Agrees
<1>8. /\ row.run = job.run /\ row.board \in Boards /\ row.board = cell.board
      /\ row.place = Place(g) /\ row.place = cell.place
  BY <1>2, <1>5
<1>9. QED BY <1>1, <1>3, <1>6, <1>7, <1>8 DEF cell

LEMMA AgreesOn ==
  ASSUME NEW id, NEW row, NEW r, Agrees(id, row, r), NEW q, q # NoRun,
         q.seed = r.seed, q.temperature = r.temperature, q.templates = r.templates,
         q.served = r.served, q.code = r.code, q.manifest = r.manifest, r.notes \subseteq q.notes
  PROVE  Agrees(id, row, q)
BY DEF Agrees

LEMMA RowsStep ==
  ASSUME ProvenanceInv, Next
  PROVE  RowsInv'
<1>1. RowsInv /\ TableInv /\ JobInv
  BY DEF ProvenanceInv
<1>2. CASE UNCHANGED db
  BY <1>1, <1>2 DEF RowsInv, Played, db
<1>3. CASE IngestBank
  <2>1. UNCHANGED <<runs, rows>>
    BY <1>3 DEF IngestBank
  <2>2. ASSUME NEW b \in Boards, NEW content, Has(stored[b], content)
        PROVE  Has(stored'[b], content)
    <3>1. stored' = stored \/ (stored' = Ingested
                               /\ \A x \in Boards : files[x] # Absent => Acceptable(x))
      BY <1>3 DEF IngestBank
    <3>2. QED BY <1>1, <2>2, <3>1, IngestedEntries
  <2>3. QED BY <1>1, <2>1, <2>2 DEF RowsInv, Played
<1>4. ASSUME NEW r \in Runs, CreateRun(r) PROVE RowsInv'
  <2>1. UNCHANGED <<stored, rows>>
    BY <1>4 DEF CreateRun
  <2>2. runs' = runs \/ (runs[r] = NoRun /\ \A q \in Runs : q # r => runs'[q] = runs[q])
    BY <1>1, <1>4 DEF CreateRun, TableInv
  <2>3. ASSUME NEW id \in Played PROVE runs'[rows[id].run] = runs[rows[id].run]
    BY <1>1, <2>2 DEF RowsInv, Agrees
  <2>4. QED BY <1>1, <2>1, <2>3 DEF RowsInv, Played
<1>5. CASE ResumeRun
  <2>1. UNCHANGED <<stored, rows>>
    BY <1>5 DEF ResumeRun
  <2>2. ASSUME NEW id \in Played, runs' # runs
        PROVE  Agrees(id, rows[id], runs'[rows[id].run])
    <3> DEFINE q == job.resume
               r == rows[id].run
    <3>1. runs[q] # NoRun /\ runs' = [runs EXCEPT ![q].notes = @ \cup {code}]
      BY <1>5, <2>2 DEF ResumeRun
    <3>2. r \in Runs /\ Agrees(id, rows[id], runs[r]) /\ DOMAIN runs = Runs
          /\ IsRun(runs[r])
      BY <1>1 DEF RowsInv, TableInv, Agrees
    <3>3. CASE r # q
      <4>1. runs'[r] = runs[r]
        BY <3>1, <3>2, <3>3
      <4>2. QED BY <3>2, <4>1
    <3>4. CASE r = q
      <4>1. runs'[r] = [runs[r] EXCEPT !.notes = runs[r].notes \cup {code}]
        BY <3>1, <3>2, <3>4
      <4> DEFINE old == runs[r]
                 new == [old EXCEPT !.notes = old.notes \cup {code}]
      <4>2. IsRun(old) /\ Agrees(id, rows[id], old)
        BY <3>2
      <4> HIDE DEF old
      <4>3. /\ new.minted = TRUE /\ new.seed = old.seed /\ new.temperature = old.temperature
            /\ new.templates = old.templates /\ new.served = old.served
            /\ new.code = old.code /\ new.manifest = old.manifest
            /\ old.notes \subseteq new.notes
        BY <4>2 DEF IsRun
      <4> HIDE DEF new
      <4>4. new # NoRun
        BY <4>3 DEF NoRun
      <4>5. Agrees(id, rows[id], new)
        BY <4>2, <4>3, <4>4, AgreesOn
      <4>6. QED BY <4>1, <4>5 DEF old, new
    <3>5. QED BY <3>3, <3>4
  <2>3. QED BY <1>1, <2>1, <2>2 DEF RowsInv, Played
<1>6. CASE PlayGame /\ rows' # rows
  <2>1. Plays(job)
    BY <1>1, <1>6 DEF PlayGame, JobInv, Idle
  <2>2. PICK g, row :
          /\ g \in DOMAIN ScheduleOf(job)
          /\ <<job.ask.seed, g>> \in GameIds
          /\ rows' = [rows EXCEPT ![<<job.ask.seed, g>>] = row]
          /\ row.run = job.run /\ row.board \in Boards
          /\ row.board = ScheduleOf(job)[g].board /\ row.place = Place(g)
          /\ row.place = ScheduleOf(job)[g].place
          /\ Agrees(<<job.ask.seed, g>>, row, runs[job.run])
          /\ Has(stored[row.board], row.content)
    BY <1>1, <1>6, <2>1, GameIsPlayed
  <2> DEFINE new == <<job.ask.seed, g>>
  <2>3. UNCHANGED <<stored, runs>> /\ job.run \in Runs
        /\ rows'[new] = row /\ \A id \in GameIds : id # new => rows'[id] = rows[id]
    BY <1>1, <1>6, <2>1, <2>2 DEF PlayGame, TableInv, Plays
  <2>4. ASSUME NEW id \in Played'
        PROVE  /\ rows'[id].run \in Runs /\ rows'[id].board \in Boards
               /\ Agrees(id, rows'[id], runs[rows'[id].run])
               /\ Has(stored[rows'[id].board], rows'[id].content)
    <3>1. CASE id = new
      BY <2>2, <2>3, <3>1
    <3>2. CASE id # new
      BY <1>1, <2>3, <3>2 DEF RowsInv, Played
    <3>3. QED BY <3>1, <3>2
  <2>5. ASSUME NEW id \in Played', id # new, rows'[id].run = job.run, rows'[id].place = Place(g)
        PROVE  rows'[id].board = row.board
    <3>1. /\ id \in Played /\ rows'[id] = rows[id] /\ rows[id].run = job.run
          /\ rows[id].place = Place(id[2])
      BY <1>1, <2>3, <2>5 DEF RowsInv, Played, Agrees
    <3>2. id[2] \in DOMAIN ScheduleOf(job) /\ rows[id].board = ScheduleOf(job)[id[2]].board
      BY <2>1, <3>1 DEF Plays
    <3>3. \A h \in DOMAIN ScheduleOf(job) :
            ScheduleOf(job)[h].board = SelectBoards(KindsOf(job.bank))[Place(h)]
      BY <2>1, Schedules DEF Plays
    <3>4. QED BY <2>2, <2>5, <3>1, <3>2, <3>3
  <2>6. ASSUME NEW x \in Played', NEW y \in Played', rows'[x].run = rows'[y].run,
               rows'[x].place = rows'[y].place
        PROVE  rows'[x].board = rows'[y].board
    <3>1. CASE x # new /\ y # new
      BY <1>1, <2>3, <2>6, <3>1 DEF RowsInv, Played
    <3>2. CASE x = new \/ y = new
      BY <2>2, <2>3, <2>5, <2>6, <3>2
    <3>3. QED BY <3>1, <3>2
  <2>7. QED BY <2>3, <2>4, <2>6 DEF RowsInv, Played
<1>7. ASSUME NEW r \in Runs, DeleteRun(r) PROVE RowsInv'
  <2>1. /\ UNCHANGED stored /\ runs' = [runs EXCEPT ![r] = NoRun]
        /\ rows' = [id \in GameIds |-> IF rows[id].run = r THEN NoRow ELSE rows[id]]
    BY <1>7 DEF DeleteRun
  <2>2. ASSUME NEW id \in Played'
        PROVE  id \in Played /\ rows'[id] = rows[id] /\ rows[id].run # r
    BY <2>1 DEF Played
  <2>3. ASSUME NEW id \in Played' PROVE runs'[rows[id].run] = runs[rows[id].run]
    BY <1>1, <2>1, <2>2 DEF RowsInv, TableInv
  <2>4. QED BY <1>1, <2>1, <2>2, <2>3 DEF RowsInv
<1>8. ASSUME NEW b \in Boards, DeleteBoard(b) PROVE RowsInv'
  <2>1. /\ UNCHANGED <<runs, rows>> /\ stored' = [stored EXCEPT ![b] = NotStored]
        /\ \A id \in Played : rows[id].board # b
    BY <1>8 DEF DeleteBoard, Played
  <2>2. ASSUME NEW id \in Played PROVE stored'[rows[id].board] = stored[rows[id].board]
    BY <1>1, <2>1 DEF RowsInv, TableInv
  <2>3. QED BY <1>1, <2>1, <2>2 DEF RowsInv, Played
<1>9. CASE \/ \E ask \in Asks, resume \in Runs \cup {"none"} : LoadBank(ask, resume)
           \/ Check \/ End \/ EditTemplates \/ DeployCode \/ \E m \in Models : ServeAnother(m)
           \/ \E b \in Boards : EditFile(b)
           \/ (PlayGame /\ rows' = rows)
  <2>1. UNCHANGED db
    BY <1>9 DEF LoadBank, Check, End, EditTemplates, DeployCode, ServeAnother, EditFile,
                PlayGame, db
  <2>2. QED BY <1>2, <2>1
<1>10. QED BY <1>3, <1>4, <1>5, <1>6, <1>7, <1>8, <1>9 DEF Next

-----------------------------------------------------------------------------
(***************************************************************************)
(* The batch, when nothing changes while it is launched                    *)
(***************************************************************************)

LEMMA CheckedPlayable ==
  ASSUME TableInv, NEW j, Checked(j)
  PROVE  Playable(j) /\ files \in [Boards -> Contents \cup {Absent}]
<1>1. files \in [Boards -> Contents \cup {Absent}]
  BY DEF TableInv, Checked, Loaded
<1>2. QED BY <1>1 DEF Checked, Loaded, Playable

\* What a launch has read stays true while the tables and the world do not change.
LEMMA CheckedKept ==
  ASSUME NEW j, NEW k, Checked(j), UNCHANGED <<files, templates, code, runs, rows>>,
         k.ask = j.ask, k.resume = j.resume, k.code = j.code, k.bank = j.bank,
         k.templates = j.templates
  PROVE  Checked(k)'
<1>1. Loaded(k)'
  BY DEF Checked, Loaded
<1>2. CanSchedule(k.ask.models, KindsOf(k.bank)) /\ k.templates = templates'
  BY DEF Checked
<1>3. k.resume # "none" => NoResumeProblems(k, templates)'
  BY DEF Checked, NoResumeProblems, Recorded, ScheduleOf
<1>4. QED BY <1>1, <1>2, <1>3 DEF Checked

LEMMA PlayFields ==
  ASSUME NEW j, NEW r
  PROVE  LET k == Play(j, r) IN
           /\ IsPlay(k) /\ k.ask = j.ask /\ k.run = r /\ k.code = j.code /\ k.bank = j.bank
           /\ k.templates = j.templates /\ k.served = ServedNow(j.ask.models)
BY DEF Play, IsPlay

\* A batch under a run it has opened: what is left to show is what the run's row
\* and the games it has say.
LEMMA OpenedPlays ==
  ASSUME TableInv, Opened(job), NEW r \in Runs, job' = Play(job, r), UNCHANGED <<stored, rows>>,
         runs'[r] # NoRun => RunSays(runs'[r], job'),
         \A id \in Played : rows[id].run = r =>
           id[2] \in DOMAIN ScheduleOf(job) /\ rows[id].board = ScheduleOf(job)[id[2]].board
  PROVE  Plays(job)'
<1>1. /\ IsPlay(job') /\ job'.ask = job.ask /\ job'.run = r /\ job'.bank = job.bank
  BY PlayFields
<1>2. Playable(job)
  BY CheckedPlayable DEF Opened
<1>3. Playable(job')
  BY <1>1, <1>2 DEF Playable
<1>4. ScheduleOf(job') = ScheduleOf(job)
  BY <1>1 DEF ScheduleOf
<1>5. Scheduled(job') = Scheduled(job)
  BY <1>4 DEF Scheduled
<1>6. \A b \in Scheduled(job') : stored'[b] # NotStored => Has(stored'[b], job'.bank[b])
  BY <1>1, <1>5 DEF Opened
<1>7. QED BY <1>1, <1>3, <1>4, <1>6 DEF Plays, Played

\* Neither the run it plays under nor what it scheduled changes under a batch.
LEMMA PlaysKept ==
  ASSUME Plays(job), NEW n, job' = job \/ job' = [job EXCEPT !.next = n],
         \A b \in Boards : stored'[b] = stored[b] \/ stored'[b] = NotStored,
         runs'[job.run] # NoRun => runs'[job.run] = runs[job.run],
         \A id \in Played' : rows'[id].run = job.run =>
           \/ id \in Played /\ rows'[id] = rows[id]
           \/ id[2] \in DOMAIN ScheduleOf(job) /\ rows'[id].board = ScheduleOf(job)[id[2]].board
  PROVE  Plays(job)'
<1>1. /\ IsPlay(job') /\ job'.ask = job.ask /\ job'.run = job.run /\ job'.bank = job.bank
      /\ job'.templates = job.templates /\ job'.served = job.served /\ job'.code = job.code
  <2>1. IsPlay(job)
    BY DEF Plays
  <2>2. CASE job' = job
    BY <2>1, <2>2
  <2>3. CASE job' = [job EXCEPT !.next = n]
    BY <2>1, <2>3 DEF IsPlay
  <2>4. QED BY <2>2, <2>3
<1>2. ScheduleOf(job') = ScheduleOf(job)
  BY <1>1 DEF ScheduleOf
<1>3. Scheduled(job') = Scheduled(job)
  BY <1>2 DEF Scheduled
<1>4. Playable(job')
  BY <1>1 DEF Plays, Playable
<1>5. \A b \in Scheduled(job') : stored'[b] # NotStored => Has(stored'[b], job'.bank[b])
  <2>1. Scheduled(job) \subseteq Boards
    BY Schedules DEF Plays
  <2>2. QED BY <1>1, <1>3, <2>1 DEF Plays
<1>6. runs'[job'.run] # NoRun => RunSays(runs'[job'.run], job')
  BY <1>1, <1>3 DEF Plays, RunSays
<1>7. \A id \in Played' : rows'[id].run = job'.run =>
        id[2] \in DOMAIN ScheduleOf(job') /\ rows'[id].board = ScheduleOf(job')[id[2]].board
  BY <1>1, <1>2 DEF Plays
<1>8. QED BY <1>1, <1>4, <1>5, <1>6, <1>7 DEF Plays

LEMMA CheckStep ==
  ASSUME TableInv, Loaded(job), Check, job' # Idle
  PROVE  job'.at = "ingest" /\ Checked(job)'
<1> DEFINE n == [at |-> "ingest", ask |-> job.ask, resume |-> job.resume, code |-> job.code,
                 bank |-> job.bank, templates |-> templates, kept |-> Recorded(job)]
<1>1. /\ job' = n /\ UNCHANGED <<world, db>>
      /\ CanSchedule(job.ask.models, KindsOf(job.bank))
      /\ job.resume # "none" => NoResumeProblems(job, templates)
  BY DEF Check, Refused
<1>2. /\ n.at = "ingest" /\ n.ask = job.ask /\ n.resume = job.resume /\ n.code = job.code
      /\ n.bank = job.bank /\ n.templates = templates
  OBVIOUS
<1> HIDE DEF n
<1>3. Loaded(job)'
  BY <1>1, <1>2 DEF Loaded, world
<1>4. job'.resume # "none" => NoResumeProblems(job, templates)'
  BY <1>1, <1>2 DEF NoResumeProblems, Recorded, ScheduleOf, world, db
<1>5. QED BY <1>1, <1>2, <1>3, <1>4 DEF Checked, world

LEMMA IngestStep ==
  ASSUME TableInv, Checked(job), IngestBank, job' # Idle
  PROVE  job'.at = "open" /\ Opened(job)'
<1> DEFINE n == [at |-> "open", ask |-> job.ask, resume |-> job.resume,
                 code |-> job.code, bank |-> job.bank, templates |-> job.templates,
                 kept |-> job.kept, manifest |-> [b \in Scheduled(job) |-> Ingested[b].content]]
<1>1. /\ job' = n /\ UNCHANGED <<world, runs, rows>> /\ stored' = Ingested
      /\ \A b \in Boards : files[b] # Absent => Acceptable(b)
  BY DEF IngestBank, Refused
<1>2. /\ n.at = "open" /\ n.ask = job.ask /\ n.resume = job.resume /\ n.code = job.code
      /\ n.bank = job.bank /\ n.templates = job.templates
      /\ n.manifest = [b \in Scheduled(job) |-> Ingested[b].content]
  OBVIOUS
<1> HIDE DEF n
<1>3. Checked(job)'
  BY <1>1, <1>2, CheckedKept DEF world
<1>4. ASSUME NEW b \in Scheduled(job) PROVE Has(Ingested[b], job.bank[b])
  <2>1. b \in DOMAIN job.bank
    BY CheckedPlayable, Schedules
  <2>2. b \in Boards /\ files[b] # Absent /\ job.bank[b] = files[b]
    BY <2>1 DEF Checked, Loaded, Bank
  <2>3. QED BY <1>1, <2>2, IngestedEntries
<1>5. n.manifest = [b \in Scheduled(job) |-> job.bank[b]]
  BY <1>2, <1>4 DEF Has
<1>6. Scheduled(job') = Scheduled(job)
  BY <1>1, <1>2 DEF Scheduled, ScheduleOf
<1>7. QED BY <1>1, <1>2, <1>3, <1>4, <1>5, <1>6 DEF Opened

LEMMA CreateStep ==
  ASSUME TableInv, RowsInv, Opened(job), NEW r \in Runs, CreateRun(r), job' # Idle
  PROVE  Plays(job)'
<1> DEFINE n == [minted |-> TRUE, seed |-> job.ask.seed, temperature |-> job.ask.temperature,
                 templates |-> job.templates, served |-> ServedNow(job.ask.models),
                 code |-> code, manifest |-> job.manifest, notes |-> {}]
<1>1. /\ runs[r] = NoRun /\ runs' = [runs EXCEPT ![r] = n] /\ job' = Play(job, r)
      /\ UNCHANGED <<stored, rows>>
  BY DEF CreateRun, Refused
<1>2. /\ n.seed = job.ask.seed /\ n.temperature = job.ask.temperature
      /\ n.templates = job.templates /\ n.served = ServedNow(job.ask.models) /\ n.code = code
      /\ n.manifest = job.manifest
  OBVIOUS
<1> HIDE DEF n
<1>3. runs'[r] = n
  BY <1>1 DEF TableInv
<1>4. /\ job'.ask = job.ask /\ job'.code = job.code /\ job'.bank = job.bank
      /\ job'.templates = job.templates /\ job'.served = ServedNow(job.ask.models)
  BY <1>1, PlayFields
<1>5. Scheduled(job') = Scheduled(job)
  BY <1>4 DEF Scheduled, ScheduleOf
<1>6. job.manifest = [b \in Scheduled(job) |-> job.bank[b]] /\ job.code = code
  BY DEF Opened, Checked, Loaded
<1>7. RunSays(n, job')
  BY <1>2, <1>4, <1>5, <1>6 DEF RunSays, ServedNow
<1>8. \A id \in Played : rows[id].run # r
  BY <1>1 DEF RowsInv, Agrees
<1>9. QED BY <1>1, <1>3, <1>7, <1>8, OpenedPlays

LEMMA ResumeStep ==
  ASSUME TableInv, RowsInv, Opened(job), ResumeRun, job' # Idle
  PROVE  Plays(job)'
<1> DEFINE r == job.resume
           old == runs[r]
           new == [old EXCEPT !.notes = old.notes \cup {code}]
<1>1. /\ old # NoRun /\ SameModelsServed(r) /\ SameBoards(r)
      /\ runs' = [runs EXCEPT ![r] = new] /\ job' = Play(job, r)
      /\ UNCHANGED <<stored, rows>> /\ r # "none"
  BY DEF ResumeRun, Refused
<1>2. r \in Runs /\ NoResumeProblems(job, templates) /\ job.templates = templates
      /\ job.code = code /\ job.manifest = [b \in Scheduled(job) |-> job.bank[b]]
  BY <1>1 DEF Opened, Checked, Loaded
<1>3. IsRun(old) /\ runs'[r] = new
  BY <1>1, <1>2 DEF TableInv
<1>4. /\ old.seed = job.ask.seed /\ old.temperature = job.ask.temperature
      /\ old.templates = templates /\ DOMAIN old.served = job.ask.models
      /\ \A g \in Recorded(job) : rows[<<job.ask.seed, g>>].board = ScheduleOf(job)[g].board
  BY <1>2 DEF NoResumeProblems
<1>5. \A m \in job.ask.models : serving[m] = old.served[m]
  BY <1>1 DEF SameModelsServed
<1>6. old.manifest # NoManifest => old.manifest = job.manifest
  BY <1>1 DEF SameBoards
<1>7. /\ job'.ask = job.ask /\ job'.code = job.code /\ job'.bank = job.bank
      /\ job'.templates = job.templates /\ job'.served = ServedNow(job.ask.models)
  BY <1>1, PlayFields
<1>8. Scheduled(job') = Scheduled(job)
  BY <1>7 DEF Scheduled, ScheduleOf
<1>9. /\ new.seed = old.seed /\ new.temperature = old.temperature
      /\ new.templates = old.templates /\ new.served = old.served /\ new.code = old.code
      /\ new.manifest = old.manifest /\ new.notes = old.notes \cup {code}
  <2> HIDE DEF old
  <2>1. QED BY <1>3 DEF IsRun
<1>10. ASSUME NEW id \in Played, rows[id].run = r
       PROVE  id[2] \in DOMAIN ScheduleOf(job) /\ rows[id].board = ScheduleOf(job)[id[2]].board
  <2>1. old.seed = id[1] /\ id[2] \in GameIndexes(job.ask.models)
    BY <1>4, <1>10 DEF RowsInv, Agrees
  <2>2. DOMAIN ScheduleOf(job) = GameIndexes(job.ask.models)
    BY DEF ScheduleOf, BuildSchedule
  <2>3. id = <<job.ask.seed, id[2]>>
    BY <1>4, <2>1 DEF Played, GameIds
  <2>4. id[2] \in Recorded(job)
    BY <2>1, <2>2, <2>3 DEF Recorded, Played
  <2>5. QED BY <1>4, <2>3, <2>4 DEF Recorded
<1> HIDE DEF old, new, r
<1>11. RunSays(new, job')
  BY <1>2, <1>4, <1>5, <1>6, <1>7, <1>8, <1>9 DEF RunSays, ServedNow
<1>12. QED BY <1>1, <1>2, <1>3, <1>10, <1>11, OpenedPlays

LEMMA JobStep ==
  ASSUME ~EditsDuringLaunch, ProvenanceInv, [Next]_vars
  PROVE  JobInv'
<1>1. TableInv /\ RowsInv /\ JobInv
  BY DEF ProvenanceInv
<1>2. CASE job' = Idle
  BY <1>2 DEF JobInv
<1>3. ASSUME NEW ask \in Asks, NEW resume \in Runs \cup {"none"}, LoadBank(ask, resume)
      PROVE  JobInv'
  <2> DEFINE n == [at |-> "check", ask |-> ask, resume |-> resume, code |-> code,
                   bank |-> Bank(files)]
  <2>1. job' = n /\ UNCHANGED world /\ \A b \in Boards : files[b] # Broken
    BY <1>3 DEF LoadBank
  <2>2. /\ n.at = "check" /\ n.ask = ask /\ n.resume = resume /\ n.code = code
        /\ n.bank = Bank(files)
    OBVIOUS
  <2> HIDE DEF n
  <2>3. job'.at = "check" /\ Loaded(job)'
    BY <2>1, <2>2 DEF Loaded, world
  <2>4. QED BY <2>3 DEF JobInv
<1>4. CASE Check /\ job' # Idle
  <2>1. Loaded(job)
    BY <1>1, <1>4 DEF Check, JobInv, Idle, Plays, IsPlay
  <2>2. QED BY <1>1, <1>4, <2>1, CheckStep DEF JobInv
<1>5. CASE IngestBank /\ job' # Idle
  <2>1. Checked(job)
    BY <1>1, <1>5 DEF IngestBank, JobInv, Idle, Plays, IsPlay
  <2>2. QED BY <1>1, <1>5, <2>1, IngestStep DEF JobInv
<1>6. ASSUME job.at = "open" PROVE Opened(job)
  BY <1>1, <1>6 DEF JobInv, Idle, Plays, IsPlay
<1>7. ASSUME NEW r \in Runs, CreateRun(r), job' # Idle PROVE JobInv'
  <2>1. Opened(job)
    BY <1>6, <1>7 DEF CreateRun
  <2>2. QED BY <1>1, <1>7, <2>1, CreateStep DEF JobInv
<1>8. CASE ResumeRun /\ job' # Idle
  <2>1. Opened(job)
    BY <1>6, <1>8 DEF ResumeRun
  <2>2. QED BY <1>1, <1>8, <2>1, ResumeStep DEF JobInv
<1>9. CASE PlayGame
  <2>1. Plays(job)
    BY <1>1, <1>9 DEF PlayGame, JobInv, Idle
  <2>2. UNCHANGED <<stored, runs>> /\ job' = [job EXCEPT !.next = job.next + 1]
    BY <1>9 DEF PlayGame
  <2>3. ASSUME NEW id \in Played', rows'[id].run = job.run
        PROVE  \/ id \in Played /\ rows'[id] = rows[id]
               \/ /\ id[2] \in DOMAIN ScheduleOf(job)
                  /\ rows'[id].board = ScheduleOf(job)[id[2]].board
    <3>1. CASE rows' = rows
      BY <3>1 DEF Played
    <3>2. CASE rows' # rows
      <4>1. PICK g, row :
              /\ g \in DOMAIN ScheduleOf(job)
              /\ <<job.ask.seed, g>> \in GameIds
              /\ rows' = [rows EXCEPT ![<<job.ask.seed, g>>] = row]
              /\ row.board = ScheduleOf(job)[g].board
        BY <1>1, <1>9, <2>1, <3>2, GameIsPlayed
      <4>2. CASE id = <<job.ask.seed, g>>
        BY <1>1, <4>1, <4>2 DEF TableInv
      <4>3. CASE id # <<job.ask.seed, g>>
        BY <1>1, <4>1, <4>3 DEF TableInv, Played
      <4>4. QED BY <4>2, <4>3
    <3>3. QED BY <3>1, <3>2
  <2>4. Plays(job)'
    BY <2>1, <2>2, <2>3, PlaysKept
  <2>5. QED BY <2>4 DEF JobInv
<1>10. ASSUME MayChange, job' = job,
              \A b \in Boards : stored'[b] = stored[b] \/ stored'[b] = NotStored,
              \A r \in Runs : runs'[r] # NoRun => runs'[r] = runs[r],
              \A id \in Played' : id \in Played /\ rows'[id] = rows[id]
       PROVE  JobInv'
  <2>1. CASE job = Idle
    BY <1>10, <2>1 DEF JobInv
  <2>2. CASE job # Idle
    <3>1. Plays(job)
      BY <1>1, <1>10, <2>2 DEF MayChange, JobInv
    <3>2. Plays(job)'
      BY <1>10, <3>1, PlaysKept DEF Plays
    <3>3. QED BY <3>2 DEF JobInv
  <2>3. QED BY <2>1, <2>2
<1>11. CASE \/ \E b \in Boards : EditFile(b)
            \/ EditTemplates \/ DeployCode \/ \E m \in Models : ServeAnother(m)
  <2>1. MayChange /\ job' = job /\ UNCHANGED <<stored, runs, rows>>
    BY <1>11 DEF EditFile, EditTemplates, DeployCode, ServeAnother, MayChange, db
  <2>2. QED BY <1>10, <2>1 DEF Played
<1>12. ASSUME NEW r \in Runs, DeleteRun(r) PROVE JobInv'
  <2>1. /\ MayChange /\ job' = job /\ UNCHANGED stored /\ runs' = [runs EXCEPT ![r] = NoRun]
        /\ rows' = [id \in GameIds |-> IF rows[id].run = r THEN NoRow ELSE rows[id]]
    BY <1>12 DEF DeleteRun, MayChange
  <2>2. \A q \in Runs : runs'[q] # NoRun => runs'[q] = runs[q]
    BY <1>1, <2>1 DEF TableInv
  <2>3. \A id \in Played' : id \in Played /\ rows'[id] = rows[id]
    BY <2>1 DEF Played
  <2>4. QED BY <1>10, <2>1, <2>2, <2>3
<1>13. ASSUME NEW b \in Boards, DeleteBoard(b) PROVE JobInv'
  <2>1. MayChange /\ job' = job /\ UNCHANGED <<runs, rows>>
        /\ stored' = [stored EXCEPT ![b] = NotStored]
    BY <1>13 DEF DeleteBoard, MayChange
  <2>2. \A x \in Boards : stored'[x] = stored[x] \/ stored'[x] = NotStored
    BY <1>1, <2>1 DEF TableInv
  <2>3. QED BY <1>10, <2>1, <2>2 DEF Played
<1>14. CASE UNCHANGED vars
  BY <1>1, <1>14 DEF vars, world, db, JobInv, Loaded, Checked, Opened, Plays, RunSays,
                     NoResumeProblems, Recorded, Played
<1>15. CASE End
  BY <1>2, <1>15 DEF End
<1>16. QED
  BY <1>2, <1>3, <1>4, <1>5, <1>7, <1>8, <1>9, <1>11, <1>12, <1>13, <1>14, <1>15 DEF Next

-----------------------------------------------------------------------------
(***************************************************************************)
(* What every state keeps                                                  *)
(***************************************************************************)

LEMMA ProvenanceInit == Init => ProvenanceInv
<1> SUFFICES ASSUME Init PROVE ProvenanceInv
  OBVIOUS
<1>1. rows = [id \in GameIds |-> NoRow] /\ job = Idle
  BY DEF Init
<1>2. \A r \in Runs : runs[r] = NoRun \/ IsRun(runs[r])
  <2>1. PICK r \in Runs, ask \in Asks :
          runs \in {[x \in Runs |-> NoRun],
                    [x \in Runs |-> IF x = r
                       THEN [minted |-> TRUE, seed |-> ask.seed, temperature |-> ask.temperature,
                             templates |-> templates, served |-> ServedNow(ask.models),
                             code |-> code, manifest |-> NoManifest, notes |-> {}]
                       ELSE NoRun]}
    BY DEF Init
  <2> DEFINE n == [minted |-> TRUE, seed |-> ask.seed, temperature |-> ask.temperature,
                   templates |-> templates, served |-> ServedNow(ask.models),
                   code |-> code, manifest |-> NoManifest, notes |-> {}]
  <2>2. IsRun(n)
    BY DEF IsRun
  <2>3. \A x \in Runs : runs[x] = NoRun \/ runs[x] = n
    BY <2>1
  <2> HIDE DEF n
  <2>4. QED BY <2>2, <2>3
<1>3. runs = [r \in Runs |-> runs[r]]
  BY DEF Init
<1>4. TableInv
  BY <1>1, <1>2, <1>3, StartsAssumption DEF Init, TableInv
<1>5. Played = {}
  BY <1>1 DEF Played
<1>6. RowsInv
  BY <1>5 DEF RowsInv
<1>7. QED BY <1>1, <1>4, <1>6 DEF ProvenanceInv, JobInv

LEMMA ProvenanceInvariant ==
  ASSUME ~EditsDuringLaunch
  PROVE  Spec => []ProvenanceInv
<1>1. ProvenanceInv /\ [Next]_vars => ProvenanceInv'
  <2> SUFFICES ASSUME ProvenanceInv, [Next]_vars PROVE ProvenanceInv'
    OBVIOUS
  <2>1. TableInv' /\ JobInv'
    BY TableStep, JobStep DEF ProvenanceInv
  <2>2. RowsInv'
    <3>1. CASE Next
      BY <3>1, RowsStep
    <3>2. CASE UNCHANGED vars
      BY <3>2 DEF vars, db, ProvenanceInv, RowsInv, Played
    <3>3. QED BY <3>1, <3>2
  <2>3. QED BY <2>1, <2>2 DEF ProvenanceInv
<1>2. QED BY ProvenanceInit, <1>1, PTL DEF Spec

\* Where nothing changes while a batch is being launched, the database holds the
\* boards its games were played on, with their content hashed, whatever happens
\* to the files, the models, the code, the runs and the boards between launches
\* and while a batch plays.
THEOREM PlayedBoardsAreStored ==
  ASSUME ~EditsDuringLaunch
  PROVE  Spec => []PlayedIsStored
<1>1. ProvenanceInv => PlayedIsStored
  BY DEF ProvenanceInv, RowsInv, Has, PlayedIsStored
<1>2. QED BY <1>1, ProvenanceInvariant, PTL

\* There a run is one experiment, for any bank, models, seeds and number of
\* launches: its games were played with what its row says, and on every place
\* the games of a pairing mirror each other on one board with one content.
THEOREM OneExperiment ==
  ASSUME ~EditsDuringLaunch
  PROVE  Spec => []RunIsOneExperiment
<1>1. ASSUME ProvenanceInv PROVE AsTheRunSays
  BY <1>1 DEF ProvenanceInv, RowsInv, Agrees, AsTheRunSays
<1>2. ASSUME ProvenanceInv, NEW x \in Played, NEW y \in Played,
             rows[x].run = rows[y].run, rows[x].place = rows[y].place
      PROVE  rows[x].board = rows[y].board /\ rows[x].content = rows[y].content
  BY <1>2 DEF ProvenanceInv, RowsInv, Has
<1>3. ASSUME ProvenanceInv, NEW x \in Played, NEW y \in Played, x # y,
             rows[x].run = rows[y].run, rows[x].place = rows[y].place,
             rows[x].pairing = rows[y].pairing
      PROVE  rows[x].seats = <<rows[y].seats[2], rows[y].seats[1]>>
  <2> DEFINE r == runs[rows[x].run]
             models == DOMAIN r.served
             g == x[2]
             h == y[2]
  <2>1. /\ r.seed = x[1] /\ r.seed = y[1] /\ g \in GameIndexes(models) /\ h \in GameIndexes(models)
        /\ rows[x].pairing = Pairing(g) /\ rows[y].pairing = Pairing(h)
        /\ rows[x].place = Place(g) /\ rows[y].place = Place(h)
        /\ rows[x].seats = Seats(models, g) /\ rows[y].seats = Seats(models, h)
    BY <1>3 DEF ProvenanceInv, RowsInv, Agrees
  <2>2. g # h
    <3>1. x = <<x[1], x[2]>> /\ y = <<y[1], y[2]>>
      BY DEF Played, GameIds
    <3>2. QED BY <1>3, <2>1, <3>1
  <2>3. g \in Nat /\ h \in Nat
    BY <2>1 DEF GameIndexes
  <2> HIDE DEF g, h, models
  <2>4. g % 2 # h % 2
    BY <1>3, <2>1, <2>2, <2>3, IndexUnique
  <2>5. g % 2 \in {0, 1} /\ h % 2 \in {0, 1}
    BY <2>3
  <2>6. Pairing(g) = Pairing(h)
    BY <1>3, <2>1
  <2>7. Seats(models, g) = <<Seats(models, h)[2], Seats(models, h)[1]>>
    BY <2>4, <2>5, <2>6 DEF Seats
  <2>8. QED BY <2>1, <2>7
<1>4. ProvenanceInv => RunIsOneExperiment
  BY <1>1, <1>2, <1>3 DEF RunIsOneExperiment, MirrorIsKept
<1>5. QED BY <1>4, ProvenanceInvariant, PTL

=============================================================================
