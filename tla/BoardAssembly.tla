---------------------------- MODULE BoardAssembly ----------------------------
(***************************************************************************)
(* One board of the bank: which words it holds (board_generator/           *)
(* composition.py), its double-sided key card (roles.py), where the words  *)
(* go (board.py), and the file that leaves the generator.                  *)
(*                                                                         *)
(* A seeded generator is a function of its seed: Deal(seed, use, n) is the *)
(* permutation of 1..n drawn in the segment of its stream that the use     *)
(* names.  The grid, the key card and the number of pairs are parameters.  *)
(***************************************************************************)
EXTENDS PairMatching

CONSTANTS
  BoardWordCount,  \* cards of a board (25)
  NPairs,          \* matched pairs of a probe board (6)
  ExpectedJoint,   \* the key card: <<role for A, role for B, how many cards>> (9 rows)
  Deal(_, _, _)

Roles == {"agent", "bystander", "assassin"}
DilemmaWordCount == 3

\* What a step that raises leaves behind instead of a board or its words.
Failed == <<>>

\* EXPECTED_JOINT is a table: no pair of roles has two rows.  It gives the
\* model's side agents enough for the words of a dilemma.
ASSUME JointAssumption ==
  /\ ExpectedJoint \in Seq(Roles \X Roles \X (Nat \ {0}))
  /\ \A i, j \in DOMAIN ExpectedJoint :
       ExpectedJoint[i][1] = ExpectedJoint[j][1] /\ ExpectedJoint[i][2] = ExpectedJoint[j][2] => i = j
  /\ Cardinality({x \in (DOMAIN ExpectedJoint) \X (1..BoardWordCount) :
                    /\ ExpectedJoint[x[1]][2] = "agent"
                    /\ x[2] <= ExpectedJoint[x[1]][3]}) >= DilemmaWordCount
  /\ BoardWordCount \in Nat \ {0} /\ NPairs \in Nat

\* The elements of a sequence at some of its places, in their order.
Kept(s, places) == LET at == Sorted(places) IN [i \in 1..Cardinality(places) |-> s[at[i]]]

Shuffled(seed, use, s) == [i \in DOMAIN s |-> s[Deal(seed, use, Len(s))[i]]]
Sampled(seed, use, s, k) == SubSeq(Shuffled(seed, use, s), 1, k)

\* derive_board_seed: a board's id, or a tag no board has, under the bank's seed.
DeriveBoardSeed(master, id) == [master |-> master, id |-> id]
NeutralPoolTag == <<"neutral-pool", NoSpec, 0>>

\* The seed that is a board's index and nothing else.
IndexSeed(index) == [master |-> 0, id |-> <<"index", NoSpec, index>>]

-----------------------------------------------------------------------------
(***************************************************************************)
(* The words of a board                                                    *)
(***************************************************************************)

\* The neutral pool in the order of the bank: sorted, then dealt once.
ShuffledNeutralPool(neutral, poolSeed) == Shuffled(poolSeed, "pool", Sorted(neutral))

\* Consecutive words of the pool, wrapping, from an offset that is the index's.
CyclicWindow(pool, index, count) ==
  LET n == Len(pool)
  IN  IF count > n THEN Failed
      ELSE [m \in 1..count |-> pool[((index * count + m - 1) % n) + 1]]

\* Pairs none of whose words is the target or the stereotypical bridge.
Eligible(pairs, dilemma) ==
  Kept(pairs, {i \in DOMAIN pairs : Range(pairs[i]) \cap {dilemma.target, dilemma.stereo} = {}})

\* The first NPairs of a permutation the board's index seeds; all of them when
\* there are no more.
PermutationPick(pairs, index) ==
  IF Len(pairs) <= NPairs THEN pairs ELSE Sampled(IndexSeed(index), "pairs", pairs, NPairs)

\* The pool is dealt whole and the bridge dropped from it afterwards.
NeutralFill(neutral, bridge, poolSeed) ==
  LET pool == ShuffledNeutralPool(neutral, poolSeed)
  IN  Kept(pool, {i \in DOMAIN pool : pool[i] # bridge})

Distinct(s) == Cardinality(Range(s)) = Len(s)

\* compose_probe_words: the dilemma, whole pairs, and neutral words for the
\* rest.  A dilemma word that is loaded no more, or a word placed twice, raises.
ComposeProbeWords(dilemma, pairs, words, index, poolSeed) ==
  LET neutral == Texts(NeutralPool(words))
      block == <<dilemma.target, dilemma.stereo, dilemma.neutral>>
      loaded == FlattenSeq(PermutationPick(Eligible(pairs, dilemma), index))
      fill == CyclicWindow(NeutralFill(neutral, dilemma.neutral, poolSeed), index,
                           BoardWordCount - DilemmaWordCount - Len(loaded))
      all == block \o loaded \o fill
  IN  IF {dilemma.target, dilemma.stereo} \subseteq Texts(words) /\ dilemma.neutral \in neutral
         /\ Len(all) = BoardWordCount /\ Distinct(all)
        THEN all ELSE Failed

\* compose_control_words: a window of the neutral pool.
ComposeControlWords(words, index, poolSeed) ==
  CyclicWindow(ShuffledNeutralPool(Texts(NeutralPool(words)), poolSeed), index, BoardWordCount)

-----------------------------------------------------------------------------
(***************************************************************************)
(* The key card                                                            *)
(***************************************************************************)

\* assign_roles: the pairs of roles the scheme fixes, permuted.
AssignRoles(seed) ==
  LET row(i) == [k \in 1..ExpectedJoint[i][3] |-> <<ExpectedJoint[i][1], ExpectedJoint[i][2]>>]
  IN  Shuffled(seed, "roles", FlattenSeq([i \in DOMAIN ExpectedJoint |-> row(i)]))

JointCounts(card) ==
  [pair \in Range(card) |-> Cardinality({i \in DOMAIN card : card[i] = pair})]

ValidateKeycard(card) ==
  JointCounts(card) =
    [pair \in {<<ExpectedJoint[i][1], ExpectedJoint[i][2]>> : i \in DOMAIN ExpectedJoint} |->
       SumOver({i \in DOMAIN ExpectedJoint : <<ExpectedJoint[i][1], ExpectedJoint[i][2]>> = pair},
               LAMBDA i : ExpectedJoint[i][3])]

\* Where the model's side has an agent.
AgentPositions(card) == {i \in DOMAIN card : card[i][2] = "agent"}

\* randomize_positions: the dilemma on agents of the model's side, drawn from
\* the segment after the roles; then the other words in any order.
RandomizePositions(words, card, dilemma, seed) ==
  LET chosen == Sampled(seed, "dilemma", Sorted(AgentPositions(card)), Len(dilemma))
      open == Sorted(DOMAIN words \ Range(chosen))
      remaining == Kept(words, {i \in DOMAIN words : words[i] \notin Range(dilemma)})
      rest == Shuffled(seed, "rest", remaining)
      place(s, p) == CHOOSE i \in DOMAIN s : s[i] = p
  IN  [p \in DOMAIN words |->
         IF p \in Range(chosen) THEN dilemma[place(chosen, p)] ELSE rest[place(open, p)]]

-----------------------------------------------------------------------------
(***************************************************************************)
(* The board and its file                                                  *)
(***************************************************************************)

NoDilemma == [target |-> 0]
DilemmaBlock(dilemma) ==
  IF dilemma = NoDilemma THEN <<>> ELSE <<dilemma.target, dilemma.stereo, dilemma.neutral>>

PerspectiveRole(role) == IF role = "bystander" THEN "civilian" ELSE role

\* A card of the file: the roles under the names of the two players.
CardOf(words, text, roles) ==
  LET w == WordOf(words, text)
  IN  [text |-> text, human |-> PerspectiveRole(roles[1]), llm |-> PerspectiveRole(roles[2]),
       category |-> w.gender, freq |-> w.freq]

\* assemble_board, and to_json_dict of what it returns.  A key card that is not
\* the scheme's, a grid that is not full or a dilemma word that is not the
\* model's agent raises.
AssembleBoard(id, texts, dilemma, words, seed) ==
  LET card == AssignRoles(seed)
      block == DilemmaBlock(dilemma)
      placed == RandomizePositions(texts, card, block, seed)
  IN  IF texts # Failed /\ Range(block) \subseteq Range(texts) /\ Len(card) = BoardWordCount
         /\ Distinct(placed) /\ ValidateKeycard(card)
         /\ \A p \in DOMAIN placed : placed[p] \in Range(block) => card[p][2] = "agent"
        THEN [id |-> id, dilemma |-> dilemma, seal |-> {},
              cards |-> [p \in DOMAIN placed |-> CardOf(words, placed[p], card[p])]]
        ELSE [id |-> Failed]

=============================================================================
