---------------------------- MODULE MCBoardBank ----------------------------
(***************************************************************************)
(* A small bank: boards of seven cards with one matched pair, a neutral    *)
(* pool that a control nearly exhausts, and two arbiters that disagree on  *)
(* some bridges.                                                           *)
(***************************************************************************)
EXTENDS BoardBank

\* 1-5 career (1-3 male, 4-5 female), 6-7 science, 8-17 neutral; 18 denotes
\* gender, 19 is a phrase, 20 a name, 21 a word about to join the loaded ones.
MCPhrases == {19}
MCNounSenses == 1..21 \ {19}
MCCorpus == [w \in 1..20 \ {5, 9} |->
               [zipf |-> 2 + (w % 3), pos |-> IF w = 20 THEN "Name" ELSE "Noun"]]
MCDeck == {4} \cup 8..20
MCStoplist == {18}

Loaded(w, gender, spec) ==
  [word |-> w, gender |-> gender, kind |-> "common", spec |-> spec, source |-> "weat"]

MCLoaded ==
  {Loaded(w, "male", "gender-career") : w \in 1..3}
    \cup {Loaded(w, "female", "gender-career") : w \in 4..5}
    \cup {Loaded(6, "male", "gender-science"), Loaded(7, "female", "gender-science")}

\* The lists before neutral.csv exists, and with it.
MCStarts == {MCLoaded, MCLoaded \cup {NeutralRow(w) : w \in 8..17}}
MCOnlyCurated == {MCLoaded \cup {NeutralRow(w) : w \in 8..17}}

\* A target, which is also a bridge, makes room for another word; a neutral
\* word is also loaded for a specification.
MCEdits ==
  {<<Loaded(4, "female", "gender-career"), Loaded(21, "female", "gender-career")>>,
   <<NoRow, Loaded(8, "female", "gender-science")>>}

MCStruck == {{11}}

\* Men's logits and women's overlap.
MCLogit(treated, controls) ==
  [w \in treated \cup controls |-> IF w \in treated THEN 3 + (w % 3) ELSE 1 + (w % 4)]

MCCos(a, u, v) == IF a = PhiStar THEN ((u + 4) * v) % 13 ELSE (4 * (u + v)) % 19

MCJoint == <<<<"agent", "agent", 2>>, <<"agent", "bystander", 1>>, <<"agent", "assassin", 1>>,
             <<"bystander", "agent", 1>>, <<"bystander", "bystander", 1>>,
             <<"assassin", "agent", 1>>>>

\* A rotation that depends on everything the generator may be seeded with.
MCDeal(seed, use, n) ==
  LET use_ == CASE use = "roles" -> 1 [] use = "dilemma" -> 2 [] OTHER -> 3
      kind == CASE seed.id[1] = "probe" -> 1 [] seed.id[1] = "control" -> 2 [] OTHER -> 4
      shift == 2 * seed.master + use_ * kind + 3 * seed.id[3]
  IN  [i \in 1..n |-> ((i - 1 + shift) % n) + 1]

=============================================================================
