----------------------------- MODULE MCBiasStudy -----------------------------
(***************************************************************************)
(* Small studies for TLC.  Three games, two on probe boards and one on a   *)
(* control board; rankings that repeat a word, name one off the board, one *)
(* not offered, a target, one without a vector, a neutral one; clues       *)
(* admissible for either gender and not.                                   *)
(***************************************************************************)
EXTENDS BiasStudy

MCRho == [alpha |-> 4, beta |-> -3, gamma |-> 1, delta |-> -5, eps |-> NoVector, target |-> 2,
          hidden |-> 3, phi |-> 3, psi |-> -2, zeta |-> 1, lost |-> NoVector]
MCSim(a, b) == LET n(w) == IF MCRho[w] = NoVector THEN 9 ELSE MCRho[w]
                   d    == IF n(a) > n(b) THEN n(a) - n(b) ELSE n(b) - n(a)
               IN  16 - d

Board == {"alpha", "beta", "gamma", "delta", "eps", "target", "hidden"}
Offered == Board \ {"hidden"}

MCRankings ==
  {<< <<"alpha", 3>>, <<"beta", 1>>, <<"delta", 3>>, <<"target", 3>> >>,
   << <<"alpha", 1>>, <<"beta", 2>>, <<"beta", 2>>, <<"gamma", 3>>, <<"elsewhere", 1>> >>,
   << <<"alpha", 2>>, <<"alpha", 1>>, <<"beta", 2>>, <<"delta", 1>>, <<"eps", 3>> >>,
   << <<"alpha", 2>>, <<"hidden", 3>>, <<"delta", 2>>, <<"beta", 3>> >>}
MCRanking == CHOOSE r \in MCRankings : Len(r) = 4 /\ r[1][2] = 3

MCTurn(game, n, model, clue, ranking) ==
  [game |-> game, turn |-> n, model |-> model,
   type |-> IF game = 3 THEN "control" ELSE "probe",
   stratum |-> IF game = 1 THEN "career" ELSE IF game = 2 THEN "science" ELSE "neutral",
   clue |-> clue, targets |-> {"target"}, board |-> Board, offered |-> Offered,
   ranking |-> ranking]

MCGuesserData ==
  {{MCTurn(1, 1, "m", c1, r1), MCTurn(1, 2, "m", "psi", r2), MCTurn(1, 3, "n", "phi", r1),
    MCTurn(2, 4, "m", c2, r2), MCTurn(3, 5, "m", "phi", r3)} :
     c1 \in {"phi", "zeta"}, c2 \in {"phi", "psi"}, r1 \in MCRankings, r2 \in MCRankings,
     r3 \in {MCRanking, << <<"gamma", 1>> >>}}

MCSeat(game, seat, clues, ranking) ==
  [game |-> game, seat |-> seat, model |-> IF seat = 0 THEN "m" ELSE "n",
   type |-> IF game = 3 THEN "control" ELSE "probe", clues |-> clues, board |-> Board,
   nonAgents |-> Board \ {"target", "hidden"}, ranking |-> ranking]

MCHistories == {<<>>, <<"phi">>, <<"psi", "zeta">>, <<"phi", "lost", "phi">>, <<"phi", "psi">>}
MCSeatData ==
  {{MCSeat(1, 0, h1, r1), MCSeat(1, 1, <<"psi">>, r1), MCSeat(2, 0, h2, r2),
    MCSeat(3, 0, <<"psi", "phi", "phi">>, MCRanking)} :
     h1 \in MCHistories, h2 \in {<<"phi">>, <<"psi", "zeta">>}, r1 \in MCRankings,
     r2 \in {MCRanking, << <<"alpha", 1>>, <<"delta", 2>> >>}}

\* Words 1 to 7: 1 the target, 2 and 3 the bridges, 4 and 5 male, 6 and 7 female.
MCBoardOf ==
  <<[target |-> "alpha", neutral |-> "beta", stereo |-> "gamma", stratum |-> "career",
     category |-> [alpha |-> "male", beta |-> "neutral", gamma |-> "female", delta |-> "male",
                   phi |-> "male", psi |-> "female", zeta |-> "female"]]>>
MCAgents == DOMAIN MCBoardOf[1].category
MCState(game, n, gone, targets) ==
  [game |-> game, turn |-> n, model |-> "m", seat |-> 0, board |-> 1, agents |-> MCAgents,
   unrevealed |-> MCAgents \ gone, targets |-> targets]
MCTargets == {{"alpha", "gamma"}, {"alpha", "beta", "delta"}, {"delta", "phi"}, {"phi", "psi"},
              {"delta", "psi", "zeta"}}
MCClueData ==
  {{MCState(1, 1, {}, s1), MCState(1, 2, s1, s2), MCState(2, 3, g, s1), MCState(3, 4, {}, s3)} :
     s1 \in MCTargets, s2 \in MCTargets, s3 \in {{"delta", "phi"}, {"alpha", "gamma"}}, g \in {{}, {"beta", "psi"}}}

MCSkillData ==
  {[games |-> {[game |-> 1, result |-> r, models |-> (0 :> "m" @@ 1 :> "n")],
               [game |-> 2, result |-> "victory", models |-> (0 :> "n" @@ 1 :> "m")],
               [game |-> 3, result |-> "loss_tokens", models |-> (0 :> "m" @@ 1 :> "o")]},
    cards |-> {[game |-> 1, id |-> 1, model |-> "m", role |-> a],
               [game |-> 1, id |-> 2, model |-> "m", role |-> "agent"],
               [game |-> 2, id |-> 3, model |-> "m", role |-> "civilian"]},
    clues |-> {[game |-> 1, id |-> 1, model |-> "m", revealed |-> 2],
               [game |-> 3, id |-> 2, model |-> "m", revealed |-> v]}] :
     r \in {"victory_sd", "loss_assassin"}, a \in {"agent", "civilian"}, v \in {0, 3}}

MCStudy(metric, variant, sim, models, data) ==
  [metric |-> metric, variant |-> variant, sim |-> sim, models |-> models, data |-> data]
MCStudies ==
  {MCStudy("cit", v, "one", {"m"}, d) : v \in {"weighted", "classic"}, d \in MCGuesserData}
    \cup {MCStudy("concsd", v, s, {"m"}, d) :
            v \in {"weighted"}, s \in {"max", "mean"}, d \in MCSeatData}
    \cup {MCStudy(k, "one", "one", {"m"}, d) : k \in {"iae", "tactai"}, d \in MCClueData}
    \cup {MCStudy(k, "one", "one", m, d) : k \in {"tv", "pa", "ep"}, d \in MCSkillData,
                                            m \in {{"m"}, {"m", "n"}}}

MCContrasts == {<< <<"probe", 0>>, <<"control", 0>> >>, << <<"probe", 1>>, <<"probe", 3>> >>,
                << <<"gap", 1>>, <<"gap", 3>> >>}

=============================================================================
