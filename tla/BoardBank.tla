------------------------------ MODULE BoardBank ------------------------------
(***************************************************************************)
(* The board bank and the work that makes it: the curation of the neutral  *)
(* words, the interactive construction of a dilemma (board_generator/      *)
(* dilemma.py, dilemma_flow.py, cli.py), the bank built from a manifest    *)
(* (bank.py), its files, the measurement frame (emit_frame.py) and its     *)
(* seal (seal_boards.py).                                                  *)
(*                                                                         *)
(* One operator runs one tool at a time and may interrupt it anywhere; the *)
(* word lists are edited between tools, and while a dilemma is under       *)
(* construction, whose words were read when it began.                      *)
(***************************************************************************)
EXTENDS BoardAssembly

CONSTANTS
  Starts,       \* the word lists the work may begin with
  Edits,        \* <<row, row>>: what an edit may take out and put in (NoRow: nothing)
  Struck,       \* what a review of the candidates may strike from them
  NoRow,
  Arbiters,     \* the consensus encoders
  PhiStar,      \* the primary among them
  Cos(_, _, _), \* an encoder's cosine of two words
  K,            \* candidates presented (8)
  AttemptCap,   \* rejected attempts before the construction gives up
  Seeds,        \* master seeds of a manifest
  MaxProbes,    \* bound: dilemmas of a manifest
  MaxSessions,  \* bound: constructions begun
  MaxBuilds,    \* bound: banks built
  MaxEdits,     \* bound: edits of the word lists
  MaxWork       \* bound: the three together

ASSUME ArbiterAssumption == PhiStar \in Arbiters
ASSUME BoundAssumption == K \in Nat \ {0} /\ AttemptCap \in Nat \ {0}
                          /\ {MaxProbes, MaxSessions, MaxBuilds, MaxEdits, MaxWork} \subseteq Nat

\* The rows the lists may ever hold: those the work begins with, those an edit
\* brings, and those of the candidates a review keeps.
ListedRows == (UNION Starts) \cup ({e[2] : e \in Edits} \ {NoRow})
Rows == ListedRows \cup {NeutralRow(w) : w \in Deck}

\* neutral.csv leaves the specification empty: a neutral word belongs to none.
ASSUME RowAssumption ==
  /\ IsFiniteSet(Rows)
  /\ \A r \in Rows : r.word \in Nat /\ (r.gender = "neutral" => r.spec = NoSpec)

\* A fit gives every word of its two groups a logit.
ASSUME LogitAssumption ==
  \A spec \in SpecSet :
    LET named(genders) == {r.word : r \in {s \in ListedRows : s.spec = spec /\ s.gender \in genders}}
    IN  \A treated \in SUBSET named({TreatmentPole}), controls \in SUBSET named(Poles \ {TreatmentPole}) :
          Logit(treated, controls) \in [treated \cup controls -> Int]

\* random.Random deals a permutation, whatever it is seeded with and dealt for.
Uses == {"roles", "dilemma", "rest", "pool", "pairs"}
BankSeeds ==
  {DeriveBoardSeed(master, id) :
     master \in Seeds,
     id \in {<<"probe", spec, k>> : spec \in SpecSet, k \in 0..MaxProbes}
             \cup {<<"control", NoSpec, k>> : k \in 0..MaxProbes} \cup {NeutralPoolTag}}
  \cup {IndexSeed(k) : k \in 0..MaxProbes}
ASSUME DealAssumption ==
  \A seed \in BankSeeds, use \in Uses :
    \A n \in 0..(BoardWordCount + Cardinality(Rows)) :
      /\ Deal(seed, use, n) \in [1..n -> 1..n]
      /\ \A i, j \in 1..n : Deal(seed, use, n)[i] = Deal(seed, use, n)[j] => i = j

VARIABLES
  lexicon,     \* the rows of resources/words/*.csv
  candidates,  \* neutral_candidates.csv and its provenance, as last written
  artifacts,   \* the dilemma files, by <<specification, target>>
  built,       \* the last bank built: its boards and the neutral pool it had
  files,       \* data/boards: the board files, by board id
  frame,       \* the frame the sidecar holds
  desk,        \* the tool that is running
  spent        \* edits, constructions and builds so far

vars == <<lexicon, candidates, artifacts, built, files, frame, desk, spent>>

\* A directory once a file is written: one of that name is replaced.
Written(dir, name, content) ==
  [x \in {name} \cup DOMAIN dir |-> IF x = name THEN content ELSE dir[x]]

NoCandidates == [words |-> {}, exclusions |-> {}, loaded |-> {}]
NoBank == [boards |-> <<>>, neutral |-> {}]
NoFrame == {}
Idle == [tool |-> "none"]
Running(tool) == desk.tool = tool
CanSpend(what, bound) ==
  spent[what] < bound /\ spent.edits + spent.sessions + spent.builds < MaxWork

Init ==
  /\ lexicon \in Starts
  /\ candidates = NoCandidates
  /\ artifacts = <<>>
  /\ built = NoBank
  /\ files = <<>>
  /\ frame = NoFrame
  /\ desk = Idle
  /\ spent = [edits |-> 0, sessions |-> 0, builds |-> 0]

\* The tool ends by itself, raises, or is interrupted.
Interrupt ==
  /\ desk # Idle
  /\ desk' = Idle
  /\ UNCHANGED <<lexicon, candidates, artifacts, built, files, frame, spent>>

-----------------------------------------------------------------------------
(***************************************************************************)
(* Curation of the word lists                                              *)
(***************************************************************************)

WriteCandidates ==
  /\ desk = Idle
  /\ Loads(lexicon)
  /\ candidates' = BuildNeutralCandidates(lexicon)
  /\ UNCHANGED <<lexicon, artifacts, built, files, frame, desk, spent>>

\* neutral.csv is finalized by hand: the candidates the review did not strike.
ReviewCandidates(struck) ==
  /\ desk = Idle
  /\ CanSpend("edits", MaxEdits)
  /\ candidates.words # {}
  /\ lexicon' = {r \in lexicon : r.gender # "neutral"}
                  \cup {NeutralRow(w) : w \in candidates.words \ struck}
  /\ spent' = [spent EXCEPT !.edits = @ + 1]
  /\ UNCHANGED <<candidates, artifacts, built, files, frame, desk>>

EditWords(out, in) ==
  /\ CanSpend("edits", MaxEdits)
  /\ lexicon' = (lexicon \ {out}) \cup ({in} \ {NoRow})
  /\ spent' = [spent EXCEPT !.edits = @ + 1]
  /\ UNCHANGED <<candidates, artifacts, built, files, frame, desk>>

-----------------------------------------------------------------------------
(***************************************************************************)
(* A dilemma                                                               *)
(***************************************************************************)

\* The first K words of the pool, the nearest to the target first under the
\* primary arbiter, the first by text of those as near.
Ranked(target, pool) ==
  LET before(u, w) == \/ Cos(PhiStar, target, u) > Cos(PhiStar, target, w)
                      \/ Cos(PhiStar, target, u) = Cos(PhiStar, target, w) /\ u < w
  IN  {w \in pool : Cardinality({u \in pool : before(u, w)}) < K}

NeutralCandidates(words, target) == Ranked(target, Texts(NeutralPool(words)) \ {target})

\* Congruent words, of whatever specification.
StereoCandidates(words, target) ==
  Ranked(target, Texts({w \in words : w.gender = WordOf(words, target).gender}) \ {target})

\* Mutant: the primary arbiter alone decides.
SatisfiesThePrimary(target, neutral, stereo) ==
  Cos(PhiStar, target, neutral) >= Cos(PhiStar, target, stereo)

\* verify_eq_4_1: the neutral bridge is at least as near as the stereotypical
\* one to every arbiter.
VerifyEq41(target, neutral, stereo) ==
  \A a \in Arbiters : Cos(a, target, neutral) >= Cos(a, target, stereo)

TargetPool(words, spec) == Texts({w \in OfSpec(words, spec) : w.gender \in Poles})

StartDilemma(spec, target) ==
  /\ desk = Idle
  /\ CanSpend("sessions", MaxSessions)
  /\ Loads(lexicon)
  /\ target \in TargetPool(LoadWords(lexicon), spec)
  /\ desk' = [tool |-> "dilemma", spec |-> spec, words |-> LoadWords(lexicon), target |-> target,
              rejected |-> 0, accepted |-> NoDilemma]
  /\ spent' = [spent EXCEPT !.sessions = @ + 1]
  /\ UNCHANGED <<lexicon, candidates, artifacts, built, files, frame>>

\* DilemmaSession.attempt: a triple the author picked passes the gate or is
\* logged; at the cap the session raises, and its log is gone with it.
Attempt ==
  /\ Running("dilemma")
  /\ desk.accepted = NoDilemma
  /\ \E neutral \in NeutralCandidates(desk.words, desk.target),
        stereo \in StereoCandidates(desk.words, desk.target) :
       desk' = CASE VerifyEq41(desk.target, neutral, stereo) ->
                      [desk EXCEPT !.accepted =
                         [target |-> desk.target, neutral |-> neutral, stereo |-> stereo]]
                 [] ~VerifyEq41(desk.target, neutral, stereo) /\ desk.rejected + 1 < AttemptCap ->
                      [desk EXCEPT !.rejected = @ + 1]
                 [] OTHER -> Idle
  /\ UNCHANGED <<lexicon, candidates, artifacts, built, files, frame, spent>>

\* After a rejection the author may choose another target.
RepickTarget(target) ==
  /\ Running("dilemma")
  /\ desk.accepted = NoDilemma /\ desk.rejected > 0
  /\ target \in TargetPool(desk.words, desk.spec)
  /\ desk' = [desk EXCEPT !.target = target]
  /\ UNCHANGED <<lexicon, candidates, artifacts, built, files, frame, spent>>

\* build_record and write_record.  A file of that name is there only to be
\* overwritten on the author's word; refusing it is an interruption.  Of the
\* record, what a bank reads is kept: the log of the attempts is for readers.
WriteRecord ==
  /\ Running("dilemma")
  /\ desk.accepted # NoDilemma
  /\ artifacts' = Written(artifacts, <<desk.spec, desk.target>>, desk.accepted)
  /\ desk' = Idle
  /\ UNCHANGED <<lexicon, candidates, built, files, frame, spent>>

-----------------------------------------------------------------------------
(***************************************************************************)
(* The bank                                                                *)
(***************************************************************************)

ProbeId(manifest, i) ==
  LET spec == manifest[i][1]
  IN  <<"probe", spec, Cardinality({j \in 1..(i - 1) : manifest[j][1] = spec})>>
ControlId(i) == <<"control", NoSpec, i>>

\* Mutant: every board is handed a generator of its own for the pool.
PoolSeedPerBoard(master, id) == DeriveBoardSeed(master, id)

\* One order of the neutral pool for the whole bank.
PoolSeed(master, id) == DeriveBoardSeed(master, NeutralPoolTag)

ProbeBoard(manifest, master, words, i) ==
  LET id == ProbeId(manifest, i)
      dilemma == artifacts[manifest[i]]
      pairs == RunBalancing(words, manifest[i][1])
  IN  AssembleBoard(id, ComposeProbeWords(dilemma, pairs, words, id[3], PoolSeed(master, id)),
                    dilemma, words, DeriveBoardSeed(master, id))

ControlBoard(master, words, i) ==
  LET id == ControlId(i)
  IN  AssembleBoard(id, ComposeControlWords(words, i, PoolSeed(master, id)),
                    NoDilemma, words, DeriveBoardSeed(master, id))

\* build_bank: a probe for each dilemma of the manifest, then as many controls.
BuildBoards(manifest, master, words) ==
  [i \in 1..Len(manifest) |-> ProbeBoard(manifest, master, words, i)]
    \o [i \in 1..Len(manifest) |-> ControlBoard(master, words, i - 1)]

IsProbe(board) == board.id[1] = "probe"

\* validate_bank_invariants: as many probes as controls, no id twice, and each
\* board pure to its kind.
ValidBank(boards, pairs) ==
  /\ \A i \in DOMAIN boards : boards[i].id # Failed
  /\ Len(boards) = 2 * pairs
  /\ Cardinality({i \in DOMAIN boards : IsProbe(boards[i])}) = pairs
  /\ Cardinality({boards[i].id : i \in DOMAIN boards}) = Len(boards)
  /\ \A i \in DOMAIN boards :
       IF IsProbe(boards[i]) THEN boards[i].dilemma # NoDilemma
       ELSE /\ boards[i].dilemma = NoDilemma
            /\ \A p \in DOMAIN boards[i].cards : boards[i].cards[p].category = "neutral"

\* The bank command: nothing is written unless every board was built.  A dry
\* run stops here.
BuildBank(manifest, master) ==
  /\ desk = Idle
  /\ CanSpend("builds", MaxBuilds)
  /\ Loads(lexicon)
  /\ LET boards == BuildBoards(manifest, master, LoadWords(lexicon)) IN
       /\ ValidBank(boards, Len(manifest))
       /\ built' = [boards |-> boards, neutral |-> Texts(NeutralPool(LoadWords(lexicon)))]
       /\ desk' \in {Idle, [tool |-> "bank", left |-> boards]}
  /\ spent' = [spent EXCEPT !.builds = @ + 1]
  /\ UNCHANGED <<lexicon, candidates, artifacts, files, frame>>

\* write_board: the file of that name is replaced, its seal with it; files of
\* another bank stay.
WriteBoard ==
  /\ Running("bank")
  /\ files' = Written(files, Head(desk.left).id, Head(desk.left))
  /\ desk' = IF Len(desk.left) = 1 THEN Idle ELSE [desk EXCEPT !.left = Tail(@)]
  /\ UNCHANGED <<lexicon, candidates, artifacts, built, frame, spent>>

-----------------------------------------------------------------------------
(***************************************************************************)
(* The measurement frame and the seal                                      *)
(***************************************************************************)

\* build_frame, by its content: beside the fixed attribute words and encoder,
\* the loaded words the mean is taken over.
FrameOf(words) == {<<w.text, w.gender>> : w \in {v \in words : v.spec # NoSpec}}

EmitFrame ==
  /\ desk = Idle
  /\ Loads(lexicon)
  /\ frame' = FrameOf(LoadWords(lexicon))
  /\ UNCHANGED <<lexicon, candidates, artifacts, built, files, desk, spent>>

\* The order of the file names.
NameRank(id) ==
  IF id[1] = "control" THEN <<Len(Specifications) + 1, id[3]>>
  ELSE <<CHOOSE s \in DOMAIN Specifications : Specifications[s] = id[2], id[3]>>
NameBefore(a, b) ==
  NameRank(a)[1] < NameRank(b)[1]
    \/ (NameRank(a)[1] = NameRank(b)[1] /\ NameRank(a)[2] <= NameRank(b)[2])

StartSeal ==
  /\ desk = Idle
  /\ frame # NoFrame /\ files # <<>>
  /\ desk' = [tool |-> "seal", frame |-> frame, left |-> DOMAIN files]
  /\ UNCHANGED <<lexicon, candidates, artifacts, built, files, frame, spent>>

Sealed(board) == board.seal # NoFrame

SealedAs(board, id) == Sealed(board) /\ board.seal = id

\* seal_one, file by file in the order of their names: a board without a seal
\* takes the frame's, one that has it is passed over, and one that carries
\* another stops the pass where it is.
SealNext ==
  LET id == CHOOSE a \in desk.left : \A b \in desk.left : NameBefore(a, b)
      rest == desk.left \ {id}
  IN
    /\ Running("seal")
    /\ desk.left # {}
    /\ \/ /\ ~Sealed(files[id])
          /\ files' = [files EXCEPT ![id].seal = desk.frame]
          /\ desk' = [desk EXCEPT !.left = rest]
       \/ /\ SealedAs(files[id], desk.frame)
          /\ desk' = [desk EXCEPT !.left = rest]
          /\ UNCHANGED files
       \/ /\ Sealed(files[id]) /\ ~SealedAs(files[id], desk.frame)
          /\ desk' = Idle
          /\ UNCHANGED files
    /\ UNCHANGED <<lexicon, candidates, artifacts, built, frame, spent>>

Manifests == UNION {[1..n -> DOMAIN artifacts] : n \in 1..MaxProbes}

Next ==
  \/ WriteCandidates
  \/ \E struck \in Struck : ReviewCandidates(struck)
  \/ \E e \in Edits : EditWords(e[1], e[2])
  \/ desk = Idle /\ \E spec \in SpecSet :
                        \E target \in TargetPool(LoadWords(lexicon), spec) : StartDilemma(spec, target)
  \/ Attempt
  \/ Running("dilemma") /\ \E target \in TargetPool(desk.words, desk.spec) : RepickTarget(target)
  \/ WriteRecord
  \/ \E manifest \in Manifests, master \in Seeds : BuildBank(manifest, master)
  \/ WriteBoard
  \/ EmitFrame
  \/ StartSeal
  \/ SealNext
  \/ Interrupt

Spec == Init /\ [][Next]_vars

-----------------------------------------------------------------------------
(***************************************************************************)
(* Properties                                                              *)
(***************************************************************************)

CardTexts(b, which(_)) == {b.cards[p].text : p \in {q \in DOMAIN b.cards : which(b.cards[q])}}
AllTexts(b) == CardTexts(b, LAMBDA c : TRUE)
OfCategory(b, pole) == CardTexts(b, LAMBDA c : c.category = pole)
Block(b) == Range(DilemmaBlock(b.dilemma))

\* Each pair of roles is on as many cards as the scheme of the key card says.
FollowsTheScheme(b) ==
  \A i \in DOMAIN ExpectedJoint :
    Cardinality({p \in DOMAIN b.cards :
                   /\ b.cards[p].human = PerspectiveRole(ExpectedJoint[i][1])
                   /\ b.cards[p].llm = PerspectiveRole(ExpectedJoint[i][2])})
      = ExpectedJoint[i][3]

\* A probe puts its dilemma, one every arbiter accepts, on words the model has
\* to find, and beside it as many words of one pole as of the other.
ProbesItsDilemma(b) ==
  LET d == b.dilemma IN
    /\ \A a \in Arbiters : Cos(a, d.target, d.neutral) >= Cos(a, d.target, d.stereo)
    /\ Block(b) \subseteq CardTexts(b, LAMBDA c : c.llm = "agent")
    /\ Cardinality(OfCategory(b, "male") \ Block(b)) = Cardinality(OfCategory(b, "female") \ Block(b))

\* Whatever was edited, interrupted, rebuilt or left over from another bank,
\* every board file is a board the experiment can be played on: all its words
\* differ, its key card is the scheme's, a probe probes an accepted dilemma
\* among balanced words and a control is neutral throughout; and a seal pass
\* that came to its end leaves every board under the one frame.
DirectoryIsABank ==
  /\ \A id \in DOMAIN files : LET b == files[id] IN
       /\ Cardinality(AllTexts(b)) = BoardWordCount
       /\ FollowsTheScheme(b)
       /\ IF IsProbe(b) THEN ProbesItsDilemma(b) ELSE OfCategory(b, "neutral") = AllTexts(b)
  /\ Running("seal") /\ desk.left = {} => \A id \in DOMAIN files : files[id].seal = desk.frame

\* The controls of the bank a neutral word is on.
ControlUses(w) ==
  Cardinality({i \in DOMAIN built.boards :
                 ~IsProbe(built.boards[i]) /\ w \in AllTexts(built.boards[i])})

\* The order of the neutral pool is one for the whole bank, so no neutral word
\* is used twice more than another over the controls, and two consecutive
\* probes of a specification that have room in the pool share at most one word
\* of their fill, though each leaves out its own bridge.
PoolIsSharedOut ==
  LET uses == {ControlUses(w) : w \in built.neutral}
      fill(b) == OfCategory(b, "neutral") \ Block(b)
  IN
    /\ \A m, n \in uses : m <= n + 1
    /\ \A b, c \in {built.boards[i] : i \in DOMAIN built.boards} :
         IsProbe(b) /\ IsProbe(c) /\ b.id[2] = c.id[2] /\ c.id[3] = b.id[3] + 1 =>
           LET n == Cardinality(fill(b))
           IN  Cardinality(fill(c)) = n /\ (c.id[3] + 1) * n < Cardinality(built.neutral)
                 => Cardinality(fill(b) \cap fill(c)) <= 1

\* neutral.py 186-188: words are excluded only because they denote gender or
\* are loaded by a gender specification.
OnlyGenderExcludes ==
  \A e \in candidates.exclusions :
    e[1] \in Stoplist \/ \E spec \in SpecSet : <<e[1], spec>> \in candidates.loaded

=============================================================================
