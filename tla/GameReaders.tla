---------------------------- MODULE GameReaders ----------------------------
(***************************************************************************)
(* The games as the analysis reads them back from their rows: the loaders  *)
(* of backend/app/analysis/ (guesser_metrics, sd_metrics, skill_metrics,   *)
(* clue_metrics, perspective).  They read completed games only, and they   *)
(* never see the engine: they rebuild from reveals and proposals what the  *)
(* models knew and did.                                                    *)
(***************************************************************************)
EXTENDS GameRows

\* The rows of earlier turns, by turn number.
EarlierReveals(t) == {r \in RevealRows : r.number < t.number}

\* Mutant: a token lies on the word for both seats.
OfferedToBoth(t, s) ==
  LET covered   == {r.reveal.card : r \in {x \in EarlierReveals(t) : x.reveal.role = Agent}}
      tokens(c) == {r.reveal.seat : r \in {x \in EarlierReveals(t) :
                                             x.reveal.role = Civilian /\ x.reveal.card = c}}
  IN  {c \in Cards \ covered : tokens(c) = {}}

\* words_offered: the words a guesser could still touch when its turn began.
WordsOffered(t, s) ==
  LET covered   == {r.reveal.card : r \in {x \in EarlierReveals(t) : x.reveal.role = Agent}}
      tokens(c) == {r.reveal.seat : r \in {x \in EarlierReveals(t) :
                                             x.reveal.role = Civilian /\ x.reveal.card = c}}
  IN  {c \in Cards \ covered : Cardinality(tokens(c)) < 2 /\ s \notin tokens(c)}

\* load_guesser_turns: the normal turns that carry a measurement.
GuesserTurns ==
  LET measured(t) == {p \in ProposalRows : p.turn = t.turn /\ p.kind = "measurement"}
  IN  UNION {{[turn |-> t, seat |-> p.seat, offered |-> WordsOffered(t, p.seat)] :
                p \in measured(t)} : t \in ClueRows}

-----------------------------------------------------------------------------

\* Mutant: the column of the seat itself.
OwnColumnNonAgents(s) == {c \in Cards : Side[s][c] # Agent}

\* The words that are no agents to the guesser at seat s: read on its partner's
\* side of the key (perspective_column(1 - s)).
NonAgentWords(s) == {c \in Cards : Side[Other(s)][c] # Agent}

\* The clues a seat received, in turn order.
PartnerClueHistory(s) ==
  Ascending({t.number : t \in {x \in ClueRows : x.giver = Other(s)}})

\* load_sd_seat_records: the seats measured in sudden death.
SdSeatRecords ==
  {[seat |-> p.seat, clues |-> PartnerClueHistory(p.seat),
    nonAgents |-> NonAgentWords(p.seat)] :
     p \in {x \in ProposalRows : /\ x.kind = "measurement"
                                 /\ row.turns[x.turn].phase = "sudden_death"}}

\* load_sd_reach: a game reached sudden death when it has such a turn.
ReachedSuddenDeath == \E t \in TurnRows : t.phase = "sudden_death"

SdFailureResults == {"loss_civilian_sd", "loss_assassin_sd"}

\* directional_fg_check: the wrongly selected cards of a sudden-death failure.
WronglySelected ==
  {r \in RevealRows : /\ row.result \in SdFailureResults
                      /\ r.phase = "sudden_death"
                      /\ r.reveal.endedGame
                      /\ r.reveal.role # Agent}

-----------------------------------------------------------------------------

IsWin == row.result \in Victories

\* PA: the items of normal turns that resolved into a reveal.
PlayedCards ==
  {i \in PlayItemRows : i.linked # {} /\ row.turns[i.turn].phase = "normal"}

\* EP: the agents revealed on the turn of each clue.
AgentsRevealed(t) ==
  Cardinality({r \in RevealRows : r.turn = t.turn /\ r.reveal.role = Agent})

-----------------------------------------------------------------------------

\* Mutant: only what the giver itself touched is revealed to it, not the hits of
\* its partner.
OwnRowsReveal(t) ==
  Cards \ {r.reveal.card : r \in {x \in EarlierReveals(t) : x.reveal.seat = t.giver}}

\* load_turn_states: a card is revealed once an earlier turn has a row for it,
\* a time token of either seat included.
Unrevealed(t) == Cards \ {r.reveal.card : r \in EarlierReveals(t)}

\* The giver's agents still unrevealed when its turn began.
AvailableAgents(t) == Having(Agent, t.giver) \cap Unrevealed(t)

-----------------------------------------------------------------------------
(***************************************************************************)
(* Properties                                                              *)
(***************************************************************************)

\* The requests of a call made by a seat on the turn of a row (the engine
\* counts turns from 1, the rows from 0).
AskedOn(t, call, s) ==
  {asked[i] : i \in {j \in DOMAIN asked :
                       asked[j].call = call /\ asked[j].turn = t.number + 1 /\ asked[j].seat = s}}

\* CIT keeps a ranked word only if it was on offer, and what was on offer is
\* rebuilt from reveals: it is exactly what the measurement's prompt listed, and
\* the play's prompt of that turn showed the same words and clues.
OfferedIsWhatWasAsked ==
  IsCompleted =>
    \A g \in GuesserTurns :
      \E q \in AskedOn(g.turn, "measurement", g.seat) :
        /\ q.view.words = g.offered
        /\ \A p \in AskedOn(g.turn, "guesser", g.seat) : p.view = q.view /\ p.clue = q.clue

\* What conc-SD reads of sudden death is what happened there: a seat's received
\* clues are those its prompt listed, an invalid last one included; the hits lie
\* outside the non-agents of the seat that made them and the misses inside; a
\* completed game has a sudden-death turn exactly when its result says so; and a
\* failure has one wrongly selected card, of the role the result names.
SuddenDeathIsReadRight ==
  IsCompleted =>
    /\ \A rec \in SdSeatRecords :
         \E i \in DOMAIN asked :
           /\ asked[i].call = "measurement_sd" /\ asked[i].seat = rec.seat
           /\ asked[i].view.clues = [k \in DOMAIN rec.clues |-> rec.clues[k] + 1]
    /\ \A r \in RevealRows :
         r.reveal.role = Agent <=> r.reveal.card \notin NonAgentWords(r.reveal.seat)
    /\ ReachedSuddenDeath <=> row.result \notin {"victory", "loss_assassin"}
    /\ row.result \in SdFailureResults <=> WronglySelected # {}
    /\ \A r \in WronglySelected :
         /\ WronglySelected = {r}
         /\ row.result = IF r.reveal.role = Civilian THEN "loss_civilian_sd"
                                                     ELSE "loss_assassin_sd"

\* What the skill metrics count is what was played: every card turned over is
\* linked to exactly one item, of the seat that turned it over and of its word;
\* the agents credited to clues and to sudden death are the covered words; and
\* a win has left nothing to find.
SkillIsReadRight ==
  IsCompleted =>
    /\ \A r \in RevealRows :
         \E i \in PlayItemRows :
           /\ i.linked = {r} /\ i.seat = r.reveal.seat /\ i.word = r.reveal.card
           /\ \A j \in PlayItemRows : r \in j.linked => j = i
    /\ Cardinality(PlayedCards) = Cardinality({r \in RevealRows : r.phase = "normal"})
    /\ revealed = {r.reveal.card : r \in {x \in RevealRows : x.reveal.role = Agent}}
    /\ Cardinality(revealed) =
         Cardinality({x \in TurnRows \X (1..Cardinality(Cards)) : x[2] <= AgentsRevealed(x[1])})
    /\ IsWin <=> ~AnyPendingWords

\* A dilemma or a pair is only scored when the giver was shown it: an agent the
\* clue metrics take for available was among the green words of that clue's
\* prompt.
AvailableWasShown ==
  IsCompleted =>
    \A t \in ClueRows :
      \E q \in AskedOn(t, "clue_giver", t.giver) : AvailableAgents(t) \subseteq q.board.agents

=============================================================================
