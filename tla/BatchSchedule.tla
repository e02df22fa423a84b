---------------------------- MODULE BatchSchedule ----------------------------
(***************************************************************************)
(* The batch's calendar, backend/app/core/batch_schedule.py: which boards  *)
(* of a bank are played, and the cell of each game index.  Board ids and   *)
(* model ids are numbers, whose order stands for the order of the strings; *)
(* an item of a sorted list is the one with as many smaller ones.          *)
(***************************************************************************)
EXTENDS Integers, Sequences, FiniteSets

CONSTANTS
  NBoards,   \* boards a pairing plays (16)
  KindAt,    \* the kind of each place: four of career, four of science, eight of control
  NModels    \* models of a batch (4)

\* The places j of the selection.
Places == 0..(NBoards - 1)
Kinds == {KindAt[j] : j \in Places}

ASSUME PlacesAssumption == NBoards \in Nat \ {0} /\ KindAt \in [Places -> STRING]
ASSUME NModelsAssumption == NModels \in Nat \ {0}

\* The boards of the bank of one kind; kindOf is the kind of each board of it.
OfKind(kindOf, kind) == {b \in DOMAIN kindOf : kindOf[b] = kind}

\* The places of j's kind up to j: that many boards of the kind are needed.
PlacesUpTo(j) == {i \in Places : i <= j /\ KindAt[i] = KindAt[j]}

NoShortfall(kindOf) ==
  \A j \in Places : Cardinality(OfKind(kindOf, KindAt[j])) >= Cardinality(PlacesUpTo(j))

\* The n-th number of S in ascending order.
Nth(S, n) == CHOOSE x \in S : Cardinality({y \in S : y <= x}) = n

\* The first boards of each kind, in the order of their ids.
SelectBoards(kindOf) ==
  [j \in Places |-> Nth(OfKind(kindOf, KindAt[j]), Cardinality(PlacesUpTo(j)))]

\* The pairs of models, each with the smaller id first, and those up to one of
\* them in lexicographic order.
PairingKeys(models) == {key \in models \X models : key[1] < key[2]}
KeysUpTo(models, key) ==
  {k \in PairingKeys(models) : k[1] < key[1] \/ (k[1] = key[1] /\ k[2] <= key[2])}
PairingKey(models, p) ==
  CHOOSE key \in PairingKeys(models) : Cardinality(KeysUpTo(models, key)) = p + 1

\* A game index is g = p * (2 * boards) + 2 * j + o: board j of the selection,
\* played twice by pairing p with the seats exchanged.
Pairing(g) == g \div (2 * NBoards)
Place(g) == (g % (2 * NBoards)) \div 2
Seats(models, g) ==
  LET key == PairingKey(models, Pairing(g))
  IN  IF g % 2 = 0 THEN <<key[1], key[2]>> ELSE <<key[2], key[1]>>

Cell(models, boards, g) ==
  [pairing |-> Pairing(g), place |-> Place(g), board |-> boards[Place(g)],
   seats |-> Seats(models, g)]

CanSchedule(models, kindOf) == Cardinality(models) = NModels /\ NoShortfall(kindOf)

GameIndexes(models) == 0..(Cardinality(PairingKeys(models)) * 2 * NBoards - 1)

BuildSchedule(models, kindOf) ==
  LET boards == SelectBoards(kindOf)
  IN  [g \in GameIndexes(models) |-> Cell(models, boards, g)]

=============================================================================
