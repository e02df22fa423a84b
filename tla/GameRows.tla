------------------------------ MODULE GameRows ------------------------------
(***************************************************************************)
(* The game of GameConductor with the prompts its models were sent, and    *)
(* the rows that backend/app/db/writer.py writes below the game's row.     *)
(*                                                                         *)
(* `asked' is the log of the requests that were answered or missed; a      *)
(* request whose failure ends the game is not in it.  The rows are a       *)
(* function of the stored recorder, since the writer runs once, on it.     *)
(***************************************************************************)
EXTENDS GameConductor, LLMService

VARIABLE asked

rowsVars == <<gameVars, asked>>

RowsInit == GameInit /\ asked = <<>>

Ask(request) == asked' = Append(asked, request)

ProposeClue(word) ==
  /\ MayProposeClue(clueGiver)
  /\ ConductClue(word)
  /\ Ask(ClueRequest(clueGiver))

ProposeWords(words) ==
  /\ MayProposeGuess(guesser)
  /\ ProposeGuess(words)
  /\ Ask(GuessRequest(guesser))

ElicitRanking ==
  /\ MayElicitRanking(guesser)
  /\ MeasureNormal
  /\ Ask(MeasurementRequest(guesser))

ElicitRankingSD ==
  /\ MayActInSuddenDeath(Acting)
  /\ MeasureSuddenDeath
  /\ Ask(MeasurementSDRequest(Acting))

ProposeWordsSD(words) ==
  /\ MayActInSuddenDeath(Acting)
  /\ ProposeGuessSD(words)
  /\ Ask(GuessSDRequest(Acting))

RowsNext ==
  \/ \E word \in ClueWords : ProposeClue(word)
  \/ \E words \in Proposals : ProposeWords(words) \/ ProposeWordsSD(words)
  \/ ElicitRanking
  \/ ElicitRankingSD
  \/ /\ \/ EnterSuddenDeath
        \/ ModelCallFails
        \/ SkipWord
        \/ PlayWord
        \/ StopGuessing
        \/ NothingPlayable
        \/ Concede
        \/ TooManyDispatches
        \/ FlushCommits
        \/ FlushFails
        \/ ErrorFlush
     /\ UNCHANGED asked

RowsSpec == RowsInit /\ [][RowsNext]_rowsVars

-----------------------------------------------------------------------------
(***************************************************************************)
(* The rows of a stored game                                               *)
(***************************************************************************)

IsStored == row # NoRow
IsCompleted == IsStored /\ row.status = "completed"

TurnRows ==
  {[turn |-> i, number |-> row.turns[i].number, giver |-> row.turns[i].giver,
    phase |-> row.turns[i].phase] : i \in DOMAIN row.turns}

\* Sudden death has no clue of its own.
ClueRows == {t \in TurnRows : t.phase = "normal"}

\* One row per turn, kind and guesser; the guesser of a normal turn is the seat
\* that did not give the clue.
ProposalRows ==
  LET of(t, kind, seats) == {[turn |-> t.turn, kind |-> kind, seat |-> s] : s \in seats}
      stored(t) == row.turns[t.turn]
      plays(t) ==
        IF t.phase = "normal"
          THEN {s \in {Other(t.giver)} : stored(t).play # <<>>}
          ELSE {s \in Seats : stored(t).sdPlay[s] # <<>>}
      measures(t) ==
        IF t.phase = "normal"
          THEN {s \in {Other(t.giver)} : stored(t).measured}
          ELSE stored(t).sdMeasured
  IN  UNION {of(t, "play", plays(t)) \cup of(t, "measurement", measures(t)) : t \in TurnRows}

RevealRows ==
  UNION {{[turn |-> t.turn, number |-> t.number, phase |-> t.phase, position |-> k,
           reveal |-> row.turns[t.turn].reveals[k]] :
             k \in DOMAIN row.turns[t.turn].reveals} : t \in TurnRows}

\* Mutant: in sudden death the reveals of both seats are linked by index alone.
LinkIgnoringSeat(p, position) ==
  {r \in RevealRows : r.turn = p.turn /\ r.reveal.index = position}

\* The reveals linked to an item: those of the proposal's turn that carry its
\* position, and in sudden death only those of the proposal's own seat.
LinkedReveals(p, position) ==
  {r \in RevealRows : /\ r.turn = p.turn
                      /\ r.reveal.index = position
                      /\ r.phase = "sudden_death" => r.reveal.seat = p.seat}

\* The items of the play proposals.  A later reveal would overwrite the link of
\* an earlier one.
PlayItemRows ==
  LET words(p) == IF row.turns[p.turn].phase = "normal"
                    THEN row.turns[p.turn].play
                    ELSE row.turns[p.turn].sdPlay[p.seat]
      link(rs) == IF rs = {} THEN {} ELSE {CHOOSE r \in rs : \A q \in rs : q.position <= r.position}
  IN  UNION {{[turn |-> p.turn, seat |-> p.seat, position |-> k, word |-> words(p)[k],
               linked |-> link(LinkedReveals(p, k))] : k \in DOMAIN words(p)} :
             p \in {q \in ProposalRows : q.kind = "play"}}

=============================================================================
