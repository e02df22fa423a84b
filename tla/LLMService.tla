----------------------------- MODULE LLMService -----------------------------
(***************************************************************************)
(* What the models are told: the prompts backend/app/core/llm_service.py   *)
(* builds from the game state for each of its five calls, and the gates    *)
(* that stand before them.  A prompt is the information its text carries:  *)
(* words as sets (the texts list them in board order), clues by their      *)
(* turn.  The texts of the templates are left out.                         *)
(***************************************************************************)
EXTENDS DuetEngine

\* A finite set of numbers as the sequence that lists them in order.
Ascending(S) ==
  [i \in 1..Cardinality(S) |-> CHOOSE n \in S : Cardinality({m \in S : m <= n}) = i]

\* What a seat sees when it guesses: the archived clues of its partner, in
\* order, and the words it may still touch.
GuesserView(s) ==
  LET received == Ascending({i \in DOMAIN history : history[i].giver # s})
  IN  [clues |-> [k \in DOMAIN received |-> history[received[k]].turn],
       words |-> {c \in Cards : IsGuessableBy(s, c)}]

\* What the prompt says of a black word of seat s.
BlackLine(s, c) ==
  CASE c \in revealed                        -> "your_agent"
    [] c \notin revealed /\ s \in markers[c] -> "your_civilian"
    [] OTHER                                 -> "untouched"

\* The guesser's own side of the key card: its black words with what its own
\* guesses showed, its green and beige words only while it can guess them.
OwnKey(s) ==
  LET stillGuessable(role) == {c \in Having(role, s) : IsGuessableBy(s, c)}
  IN  [black |-> [c \in Having(Assassin, s) |-> BlackLine(s, c)],
       green |-> stillGuessable(Agent),
       beige |-> stillGuessable(Civilian)]

\* Mutant: what counts is whether the giver itself could touch the word.
BoardOfOwnWords(s) ==
  LET open(role) == {c \in Having(role, s) : ~IsCovered(c) /\ IsGuessableBy(s, c)}
  IN  [agents       |-> open(Agent),
       assassins    |-> open(Assassin),
       civilians    |-> open(Civilian),
       otherVisible |-> {c \in Cards : ~IsCovered(c) /\ ~IsGuessableBy(s, c)},
       revealed     |-> Having(Agent, s) \cap revealed]

\* The board as the clue giver sees it on the table: by its own side, by what
\* its partner can still touch, and by what covers each word.
ClueGiverBoard(s) ==
  LET open(role) == {c \in Having(role, s) : ~IsCovered(c) /\ IsGuessableBy(Other(s), c)}
  IN  [agents       |-> open(Agent),
       assassins    |-> open(Assassin),
       civilians    |-> open(Civilian),
       otherVisible |-> {c \in Cards : ~IsCovered(c) /\ ~IsGuessableBy(Other(s), c)},
       revealed     |-> Having(Agent, s) \cap revealed]

-----------------------------------------------------------------------------
(***************************************************************************)
(* The five requests.  Only the play requests carry the own key; the       *)
(* sudden-death ones carry no clue of their own.                           *)
(***************************************************************************)

ClueRequest(s) ==
  [call |-> "clue_giver", seat |-> s, turn |-> turn, board |-> ClueGiverBoard(s)]

GuessRequest(s) ==
  [call |-> "guesser", seat |-> s, turn |-> turn, clue |-> clue.turn,
   view |-> GuesserView(s), key |-> OwnKey(s)]

GuessSDRequest(s) ==
  [call |-> "guesser_sd", seat |-> s, turn |-> turn,
   view |-> GuesserView(s), key |-> OwnKey(s)]

MeasurementRequest(s) ==
  [call |-> "measurement", seat |-> s, turn |-> turn, clue |-> clue.turn,
   view |-> GuesserView(s)]

MeasurementSDRequest(s) ==
  [call |-> "measurement_sd", seat |-> s, turn |-> turn, view |-> GuesserView(s)]

\* The gates: the service raises when a call does not fit the phase and the
\* seat, before it builds a request.
MayProposeClue(s) == phase = GivingClue /\ clueGiver = s
MayProposeGuess(s) ==
  phase = Guessing /\ guesser = s /\ clue # NoClue /\ clue.turn = turn
MayElicitRanking(s) == MayProposeGuess(s)
MayActInSuddenDeath(s) == phase = SDPhase[s]

-----------------------------------------------------------------------------
(***************************************************************************)
(* Properties                                                              *)
(***************************************************************************)

\* The two prompts of a turn describe one board, and it is the engine's: what
\* the giver is told its partner can still touch is what the partner is
\* offered, and with the words listed apart it is what a clue may not use; the
\* green words listed are exactly the partner's pending ones; the green words
\* listed as covered are those the partner found; a word listed apart is beige;
\* the guesser's own key adds up to the words it is offered; and a black word
\* said to have been its agent or its civilian was that (_clue_giver_board,
\* _format_own_key, GuesserView docstrings).
PromptsShowTheBoard ==
  \A s \in Seats :
    LET p     == Other(s)
        board == ClueGiverBoard(s)
        key   == OwnKey(p)
        words == GuesserView(p).words
    IN  /\ words = board.agents \cup board.assassins \cup board.civilians
        /\ visible = words \cup board.otherVisible
        /\ board.agents = PendingOnBoard(p)
        /\ board.revealed = {c \in Cards : p \in revealedBy[c]}
        /\ board.otherVisible \subseteq Having(Civilian, s)
        /\ words = key.green \cup key.beige
                     \cup {c \in DOMAIN key.black : key.black[c] = "untouched"}
        /\ \A c \in DOMAIN key.black :
             /\ key.black[c] = "your_agent" => Side[s][c] = Agent /\ p \in revealedBy[c]
             /\ key.black[c] = "your_civilian" => Side[s][c] = Civilian

=============================================================================
