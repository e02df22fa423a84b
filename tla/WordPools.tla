----------------------------- MODULE WordPools -----------------------------
(***************************************************************************)
(* The words the boards are made of: load_words of                         *)
(* board_generator/lexicon.py and the builder of neutral candidates of     *)
(* board_generator/neutral.py.                                             *)
(*                                                                         *)
(* A word is the number of its place in the alphabet: everything in the    *)
(* generator is sorted by text before it is chosen from.  A row of the     *)
(* word lists is a record; what WordNet and SUBTLEX-US say of a word is    *)
(* given from outside.                                                     *)
(***************************************************************************)
EXTENDS Integers, FiniteSets, Sequences

CONSTANTS
  Phrases,      \* entries of more than one token
  NounSenses,   \* words WordNet has a noun sense of
  Corpus,       \* SUBTLEX-US: [word -> [zipf, pos]], only the words it has
  Deck,         \* the words of the Duet deck, as a set
  Stoplist,     \* the curated words that denote gender
  OOV           \* the frequency of a word the corpus does not have

Poles == {"male", "female"}
Genders == Poles \cup {"neutral"}
Kinds == {"common", "proper", "phrase"}
Specifications == <<"gender-career", "gender-science">>
NoSpec == "none"
SpecSet == {Specifications[i] : i \in DOMAIN Specifications}

\* A set of words, or of grid positions, in its canonical order.
Sorted(S) == [i \in 1..Cardinality(S) |-> CHOOSE w \in S : Cardinality({v \in S : v < w}) = i - 1]

-----------------------------------------------------------------------------
(***************************************************************************)
(* Loading the lists                                                       *)
(***************************************************************************)

InCorpus(w) == w \in DOMAIN Corpus
DomPos(w) == IF InCorpus(w) THEN Corpus[w].pos ELSE "unknown"
Zipf(w) == IF InCorpus(w) THEN Corpus[w].zipf ELSE OOV

\* A phrase is left out by design.  A proper noun needs only be one token; a
\* common word must have a noun sense and not be a name to the corpus, which is
\* not asked about a word it does not have.
Playability(w, kind) ==
  CASE kind = "phrase" -> "excluded"
    [] kind = "proper" -> IF w \in Phrases THEN "invalid" ELSE "playable"
    [] kind = "common" ->
         IF DomPos(w) # "Name" /\ w \in NounSenses THEN "playable" ELSE "invalid"

\* Every value of a row is one the loader knows; an empty specification is none.
Readable(rows) ==
  \A r \in rows : r.gender \in Genders /\ r.kind \in Kinds /\ r.spec \in SpecSet \cup {NoSpec}

\* Rows of one word may differ in where they come from and in nothing else.
Agree(rows) ==
  \A r, s \in rows :
    r.word = s.word => r.gender = s.gender /\ r.kind = s.kind /\ r.spec = s.spec

\* The loader raises on an unknown value, on rows that disagree, and, once it
\* has seen them all, on the words that cannot be played.
Loads(rows) ==
  /\ Readable(rows)
  /\ Agree(rows)
  /\ \A r \in rows : Playability(r.word, r.kind) # "invalid"

Merged(rows, w) ==
  LET r == CHOOSE s \in rows : s.word = w
  IN  [text |-> w, gender |-> r.gender, spec |-> r.spec,
       sources |-> {s.source : s \in {t \in rows : t.word = w}},
       freq |-> Zipf(w)]

\* LoadResult.words: what a board may hold.
LoadWords(rows) ==
  {Merged(rows, r.word) : r \in {s \in rows : Playability(s.word, s.kind) = "playable"}}

Texts(words) == {w.text : w \in words}
WordOf(words, text) == CHOOSE w \in words : w.text = text
OfSpec(words, spec) == {w \in words : w.spec = spec}
NeutralPool(words) == {w \in words : w.gender = "neutral"}

-----------------------------------------------------------------------------
(***************************************************************************)
(* Neutral candidates                                                      *)
(***************************************************************************)

EnumeratePlayableTokens ==
  {w \in Deck : w \notin Phrases /\ Playability(w, "common") = "playable"}

\* loaded_pool_words: every word the lists load, neutral ones among them, with
\* the specification it was loaded for.
LoadedPoolWords(rows) == {<<w.text, w.spec>> : w \in LoadWords(rows)}

ExcludedBy(w, loaded) ==
  CASE w \in Stoplist -> "denotational_gender"
    [] w \notin Stoplist /\ \E spec \in SpecSet \cup {NoSpec} : <<w, spec>> \in loaded
         -> "already_loaded"
    [] OTHER -> "kept"

\* build_neutral_candidates: the words that survive, and why each other one
\* was dropped.
BuildNeutralCandidates(rows) ==
  LET loaded == LoadedPoolWords(rows)
      verdict == [w \in EnumeratePlayableTokens |-> ExcludedBy(w, loaded)]
  IN  [words |-> {w \in DOMAIN verdict : verdict[w] = "kept"},
       exclusions |-> {<<w, verdict[w]>> : w \in {v \in DOMAIN verdict : verdict[v] # "kept"}},
       loaded |-> loaded]

\* The row a reviewed candidate becomes in neutral.csv.
NeutralRow(w) ==
  [word |-> w, gender |-> "neutral", kind |-> "common", spec |-> NoSpec, source |-> "duet"]

=============================================================================
