----------------------------- MODULE DuetEngine -----------------------------
(***************************************************************************)
(* The Codenames Duet rules engine: backend/app/core/engine.py, with the   *)
(* card predicates of backend/app/models/game_schemas.py and the visible   *)
(* words of backend/app/core/clue_validator.py.                            *)
(*                                                                         *)
(* One action per public method of CodenamesDuetEngine.  A call the engine *)
(* refuses raises before it touches the state, so a refused call is no     *)
(* step here; what the callers do about a refusal is GameConductor's.      *)
(***************************************************************************)
EXTENDS Integers, Sequences, FiniteSets

CONSTANTS
  Cards,             \* the cards of the board
  Side,              \* Side[s][c]: role of card c on the side seat s reads
  Tokens,            \* timer tokens a game starts with (9)
  AgentsPerSide,     \* green words on each side (9)
  SharedAgents,      \* words green on both sides (3)
  AssassinsPerSide,  \* black words on each side (3)
  SharedAssassins    \* words black on both sides (1)

Seats == {0, 1}
Other(s) == 1 - s

Agent    == "agent"
Assassin == "assassin"
Civilian == "civilian"
Roles    == {Agent, Assassin, Civilian}

Having(role, s) == {c \in Cards : Side[s][c] = role}

(***************************************************************************)
(* What Board.rules_validation demands of a board.  Up to the names of the *)
(* cards these counts fix how many words carry each pair of roles, so one  *)
(* board of a given size stands for every board of that size.              *)
(***************************************************************************)
BoardRules ==
  /\ \A s \in Seats : /\ Cardinality(Having(Agent, s)) = AgentsPerSide
                      /\ Cardinality(Having(Assassin, s)) = AssassinsPerSide
                      /\ Cardinality(Having(Agent, s) \cap Having(Assassin, Other(s))) = 1
  /\ Cardinality(Having(Agent, 0) \cap Having(Agent, 1)) = SharedAgents
  /\ Cardinality(Having(Assassin, 0) \cap Having(Assassin, 1)) = SharedAssassins

ASSUME CardsAssumption  == IsFiniteSet(Cards)
ASSUME SideAssumption   == Side \in [Seats -> [Cards -> Roles]]
ASSUME CountAssumption  == Tokens \in Nat \ {0} /\ AgentsPerSide \in Nat \ {0}
ASSUME BoardAssumption  == BoardRules

VARIABLES
  phase,       \* state.current_phase
  clueGiver,   \* state.clue_giver
  guesser,     \* state.guesser
  turn,        \* state.turn_number
  clue,        \* state.current_clue, a record or NoClue
  guesses,     \* state.guesses_made_this_turn
  history,     \* state.clue_history
  timer,       \* state.timer_tokens, the reserve
  spent,       \* state.bystander_tokens, check_tokens and penalty_tokens
  pending,     \* state.pending_words, indexed by the guessing seat
  revealed,    \* the cards with revealed = True
  revealedBy,  \* WordCard.revealed_by of each card
  markers,     \* WordCard.time_marker_by of each card
  visible,     \* clue_validator.visible_words
  sdPending,   \* state.sd_measurement_pending
  sdRanked,    \* the seats in sudden_death.rankings_by_seat
  result       \* state.result

cardVars    == <<revealed, revealedBy, markers, visible>>
tokenVars   == <<timer, spent>>
roleVars    == <<clueGiver, guesser, turn, clue, history>>
measureVars == <<sdPending, sdRanked>>
vars == <<phase, guesses, pending, result, cardVars, tokenVars, roleVars, measureVars>>

GivingClue  == "giving_clue"
Guessing    == "guessing"
SDLlm       == "sudden_death_llm"
SDHuman     == "sudden_death_human"
GameOver    == "game_over"
Phases      == {GivingClue, Guessing, SDLlm, SDHuman, GameOver}
SDPhase     == [s \in Seats |-> IF s = 0 THEN SDLlm ELSE SDHuman]
SDPhases    == {SDLlm, SDHuman}

Piles   == {"bystander", "check", "penalty"}
Victories == {"victory", "victory_sd"}
Results == {"victory", "victory_sd", "loss_assassin", "loss_civilian_sd",
            "loss_assassin_sd", "loss_stopped_sd"}

NoClue   == [turn |-> 0, giver |-> 0, invalid |-> FALSE, ranked |-> FALSE]
NoResult == "none"

IsCovered(c) == c \in revealed \/ markers[c] = Seats

\* Mutant: what is covered is read from the seat's own finds.
GuessableByOwnFinds(p, c) == p \notin revealedBy[c] /\ p \notin markers[c]

IsGuessableBy(p, c) == ~IsCovered(c) /\ p \notin markers[c]
AnyPendingWords == \E s \in Seats : pending[s] > 0
IsGameOver == phase = GameOver

-----------------------------------------------------------------------------

Init ==
  /\ phase = GivingClue
  /\ clueGiver \in Seats
  /\ guesser = Other(clueGiver)
  /\ turn = 1
  /\ clue = NoClue
  /\ guesses = 0
  /\ history = <<>>
  /\ timer = Tokens
  /\ spent = [k \in Piles |-> 0]
  /\ pending = [s \in Seats |-> AgentsPerSide]
  /\ revealed = {}
  /\ revealedBy = [c \in Cards |-> {}]
  /\ markers = [c \in Cards |-> {}]
  /\ visible = Cards
  /\ sdPending = FALSE
  /\ sdRanked = {}
  /\ result = NoResult

\* A token leaves the reserve for the pile it is spent on.
Spend(pile) ==
  /\ timer' = timer - 1
  /\ spent' = [spent EXCEPT ![pile] = @ + 1]

FinishGame(res) ==
  /\ phase' = GameOver
  /\ result' = res

\* Mutant: the roles always alternate.
RolesAlwaysSwap(live) ==
  /\ clueGiver' = guesser /\ guesser' = clueGiver
  /\ guesses' = 0
  /\ turn' = turn + 1
  /\ history' = Append(history, live)
  /\ clue' = NoClue
  /\ IF timer' <= 0 /\ AnyPendingWords'
       THEN /\ phase' = IF pending'[0] = 0 THEN SDHuman ELSE SDLlm
            /\ sdPending' = TRUE
       ELSE /\ phase' = GivingClue
            /\ UNCHANGED sdPending
  /\ UNCHANGED <<sdRanked, result>>

\* Hands over to the next turn, archiving the clue that was live.  It runs
\* last in its callers, so it reads the reserve and the pending words they
\* leave behind.
SwitchRoles(live) ==
  /\ IF pending'[clueGiver] = 0
       THEN UNCHANGED <<clueGiver, guesser>>
       ELSE clueGiver' = guesser /\ guesser' = clueGiver
  /\ guesses' = 0
  /\ turn' = turn + 1
  /\ history' = Append(history, live)
  /\ clue' = NoClue
  /\ IF timer' <= 0 /\ AnyPendingWords'
       THEN /\ phase' = IF pending'[0] = 0 THEN SDHuman ELSE SDLlm
            /\ sdPending' = TRUE
       ELSE /\ phase' = GivingClue
            /\ UNCHANGED sdPending
  /\ UNCHANGED <<sdRanked, result>>

-----------------------------------------------------------------------------

\* What a clue can be to the validator: a form of the word of some card, not
\* a word at all, or a word unrelated to the board.
ClueWords == Cards \cup {"not_a_word", "unrelated"}

\* ClueValidator.is_valid, by its outcome: only words still visible offend.
Offends(word) == word = "not_a_word" \/ word \in visible

ClueEntry(p, word) ==
  [turn |-> turn, giver |-> p, invalid |-> Offends(word), ranked |-> FALSE]

\* The clue is live and the guesser may guess on it.
OpenGuessing(entry) ==
  /\ phase' = Guessing
  /\ clue' = entry
  /\ guesses' = 0
  /\ UNCHANGED <<clueGiver, guesser, turn, history, measureVars, result>>

\* Mutant: the clue whose penalty takes the last token is not archived.
LastClueLost(p, word) ==
  /\ phase = GivingClue
  /\ p = clueGiver
  /\ \/ ~Offends(word) /\ UNCHANGED tokenVars /\ OpenGuessing(ClueEntry(p, word))
     \/ /\ Offends(word)
        /\ Spend("penalty")
        /\ \/ timer' # 0 /\ OpenGuessing(ClueEntry(p, word))
           \/ timer' = 0 /\ UNCHANGED pending /\ SwitchRoles(clue)
  /\ UNCHANGED <<pending, cardVars>>

\* An invalid clue is played all the same, but costs a token; if it was the
\* last one no turn is left to guess on, and the clue is archived at once.
ReceiveClue(p, word) ==
  /\ phase = GivingClue
  /\ p = clueGiver
  /\ \/ ~Offends(word) /\ UNCHANGED tokenVars /\ OpenGuessing(ClueEntry(p, word))
     \/ /\ Offends(word)
        /\ Spend("penalty")
        /\ \/ timer' # 0 /\ OpenGuessing(ClueEntry(p, word))
           \/ timer' = 0 /\ UNCHANGED pending /\ SwitchRoles(ClueEntry(p, word))
  /\ UNCHANGED <<pending, cardVars>>

AttachConfidenceRanking ==
  /\ clue # NoClue
  /\ phase = Guessing
  /\ clue' = [clue EXCEPT !.ranked = TRUE]
  /\ UNCHANGED <<phase, guesses, pending, result, cardVars, tokenVars, measureVars,
                 clueGiver, guesser, turn, history>>

\* Called through the service, whose gate wants the seat's own sudden-death
\* phase, and only while the flag is up.
AttachSuddenDeathRanking(p) ==
  /\ phase = SDPhase[p]
  /\ sdPending
  /\ sdRanked' = sdRanked \cup {p}
  /\ sdPending' = FALSE
  /\ UNCHANGED <<phase, guesses, pending, result, cardVars, tokenVars, roleVars>>

-----------------------------------------------------------------------------

\* pass_turn past its guards: the guesser takes a check token and hands over.
StopTurn == Spend("check") /\ SwitchRoles(clue)

\* The win, checked first.  A win in normal play spends the turn's token.
WinAfterReveal ==
  /\ \A s \in Seats : pending'[s] = 0
  /\ IF phase \in SDPhases
       THEN UNCHANGED tokenVars /\ FinishGame("victory_sd")
       ELSE Spend("check") /\ FinishGame("victory")
  /\ guesses' = guesses + 1
  /\ UNCHANGED <<roleVars, measureVars>>

\* The guesser has nothing left to find: its turn ends as a voluntary stop.
TurnEndsOnLastWord(p) ==
  /\ AnyPendingWords'
  /\ phase = Guessing
  /\ pending'[p] = 0
  /\ StopTurn

\* Mutant: the flag is left as seat 0's measurement left it.
HandOffUnarmed ==
  /\ AnyPendingWords'
  /\ phase = SDLlm
  /\ pending'[0] = 0
  /\ phase' = SDHuman
  /\ guesses' = guesses + 1
  /\ UNCHANGED <<tokenVars, roleVars, sdPending, sdRanked, result>>

\* Seat 0 found its last word in sudden death: seat 1 plays, and its
\* measurement is armed.
HandOffSuddenDeath ==
  /\ AnyPendingWords'
  /\ phase = SDLlm
  /\ pending'[0] = 0
  /\ phase' = SDHuman
  /\ sdPending' = (sdPending \/ pending'[1] > 0)
  /\ guesses' = guesses + 1
  /\ UNCHANGED <<tokenVars, roleVars, sdRanked, result>>

\* Mutant: seat 0 stays on in sudden death after its last word.
StayInSuddenDeath(p) ==
  /\ AnyPendingWords'
  /\ phase = Guessing => pending'[p] # 0
  /\ guesses' = guesses + 1
  /\ UNCHANGED <<phase, tokenVars, roleVars, measureVars, result>>

\* The guesser goes on.
KeepGuessing(p) ==
  /\ AnyPendingWords'
  /\ phase = Guessing => pending'[p] # 0
  /\ phase = SDLlm => pending'[0] # 0
  /\ guesses' = guesses + 1
  /\ UNCHANGED <<phase, tokenVars, roleVars, measureVars, result>>

\* The seats for which word c stops being pending when p finds it.
Finders(p, c) ==
  IF Side[0][c] = Agent /\ Side[1][c] = Agent THEN Seats ELSE {p}

RevealAgent(p, c) ==
  /\ revealed' = revealed \cup {c}
  /\ revealedBy' = [revealedBy EXCEPT ![c] = @ \cup Finders(p, c)]
  /\ visible' = visible \ {c}
  /\ pending' = [s \in Seats |-> IF s \in Finders(p, c) THEN pending[s] - 1 ELSE pending[s]]
  /\ UNCHANGED markers
  /\ \/ WinAfterReveal
     \/ TurnEndsOnLastWord(p)
     \/ HandOffSuddenDeath
     \/ KeepGuessing(p)

TouchAssassin ==
  /\ FinishGame("loss_assassin")
  /\ guesses' = guesses + 1
  /\ UNCHANGED <<pending, cardVars, tokenVars, roleVars, measureVars>>

TouchBystander(c) ==
  /\ markers' = [markers EXCEPT ![c] = @ \cup {guesser}]
  /\ visible' = IF markers'[c] = Seats THEN visible \ {c} ELSE visible
  /\ Spend("bystander")
  /\ UNCHANGED <<pending, revealed, revealedBy>>
  /\ SwitchRoles(clue)

MissInSuddenDeath(role) ==
  /\ FinishGame(IF role = Civilian THEN "loss_civilian_sd" ELSE "loss_assassin_sd")
  /\ guesses' = guesses + 1
  /\ UNCHANGED <<pending, cardVars, tokenVars, roleVars, measureVars>>

\* Mutant: either seat may guess in sudden death.
AnyOrder(p) ==
  \/ phase = Guessing /\ p = guesser
  \/ phase \in SDPhases /\ pending[p] # 0

\* Who may guess in which phase.
MayGuess(p) ==
  \/ phase = Guessing /\ p = guesser
  \/ phase = SDPhase[p] /\ pending[p] # 0

\* The role that decides a guess is the one on the partner's side.
ResolveGuess(p, c) ==
  LET role == Side[Other(p)][c]
  IN  /\ MayGuess(p)
      /\ IsGuessableBy(p, c)
      /\ \/ role = Agent /\ RevealAgent(p, c)
         \/ role = Assassin /\ phase = Guessing /\ TouchAssassin
         \/ role = Civilian /\ phase = Guessing /\ TouchBystander(c)
         \/ role # Agent /\ phase \in SDPhases /\ MissInSuddenDeath(role)

PassTurn(p) ==
  /\ phase = Guessing
  /\ p = guesser
  /\ guesses >= 1
  /\ UNCHANGED <<pending, cardVars>>
  /\ StopTurn

ConcedeSuddenDeath(p) ==
  /\ phase = SDPhase[p]
  /\ FinishGame("loss_stopped_sd")
  /\ UNCHANGED <<guesses, pending, cardVars, tokenVars, roleVars, measureVars>>

Next ==
  \/ \E p \in Seats, word \in ClueWords : ReceiveClue(p, word)
  \/ AttachConfidenceRanking
  \/ \E p \in Seats : AttachSuddenDeathRanking(p)
  \/ \E p \in Seats, c \in Cards : ResolveGuess(p, c)
  \/ \E p \in Seats : PassTurn(p)
  \/ \E p \in Seats : ConcedeSuddenDeath(p)

Spec == Init /\ [][Next]_vars

-----------------------------------------------------------------------------
(***************************************************************************)
(* Properties                                                              *)
(***************************************************************************)

ClueEntries == [turn : Nat, giver : Seats, invalid : BOOLEAN, ranked : BOOLEAN]

\* The type of every variable.
TypeOK ==
  /\ phase \in Phases
  /\ clueGiver \in Seats
  /\ guesser \in Seats
  /\ turn \in Nat
  /\ clue \in ClueEntries
  /\ guesses \in Nat
  /\ history \in Seq(ClueEntries)
  /\ timer \in Int
  /\ spent \in [Piles -> Nat]
  /\ pending \in [Seats -> Int]
  /\ revealed \subseteq Cards
  /\ revealedBy \in [Cards -> SUBSET Seats]
  /\ markers \in [Cards -> SUBSET Seats]
  /\ visible \subseteq Cards
  /\ sdPending \in BOOLEAN
  /\ sdRanked \subseteq Seats
  /\ result \in Results \cup {NoResult}

\* No token is lost or made up on any path that spends one (a penalty, a
\* bystander, a stop, the stop forced by the last word, the winning turn),
\* and the reserve never goes below zero (rules 12; check_invariants).
TokensAddUp ==
  /\ timer >= 0
  /\ timer + spent["bystander"] + spent["check"] + spent["penalty"] = Tokens

\* The words a seat still has to find, read off the board.
PendingOnBoard(s) == Having(Agent, Other(s)) \ revealed

\* The counter the engine updates in _reveal_agent, once or twice for a
\* shared agent, never drifts from the board (check_invariants).
PendingMatchesBoard ==
  \A s \in Seats : pending[s] = Cardinality(PendingOnBoard(s))

\* revealed_by says exactly for whom a covered word has stopped being pending.
RevealedByIsWhoFoundIt ==
  \A c \in Cards, s \in Seats :
    s \in revealedBy[c] <=> c \in revealed /\ Side[Other(s)][c] = Agent

\* A time token of a seat lies only on a word that is beige on the partner's
\* side, and an agent card only on a word green on some side (6.4).
TokensLieOnBystanders ==
  /\ \A c \in Cards : \A s \in markers[c] : Side[Other(s)][c] = Civilian
  /\ \A c \in revealed : \E s \in Seats : Side[s][c] = Agent

\* Each bystander token taken from the reserve lies on a word, and no seat has
\* two on the same word (check_invariants).
BystanderTokensOnWords ==
  spent["bystander"] =
    Cardinality({m \in Cards \X Seats : m[2] \in markers[m[1]]})

\* No game is ever past winning before it is over: whatever was touched, every
\* word a seat still has to find is one that seat may still touch.
EveryPendingWordReachable ==
  ~IsGameOver =>
    \A s \in Seats : \A c \in PendingOnBoard(s) : IsGuessableBy(s, c)

\* What the guesser's prompt tells a seat about its black words
\* (_format_own_key): only that seat can have touched one, so an agent card on
\* it was its own hit and a time token on it is its own.
BlackWordsTouchedByOwnerOnly ==
  \A s \in Seats, c \in Cards : Side[s][c] = Assassin =>
    /\ Other(s) \notin markers[c]
    /\ c \in revealed => revealedBy[c] = {s}

\* What the giver's prompt relies on (_clue_giver_board): its green words not
\* covered are all words its partner can still find.
GiverAgentsAreFindable ==
  \A s \in Seats : \A c \in Having(Agent, s) :
    ~IsCovered(c) => IsGuessableBy(Other(s), c)

\* The clue validator removes a word exactly when the board covers it, so no
\* clue is judged against a stale board (8.2; check_invariants).
ValidatorSeesTheBoard == visible = {c \in Cards : ~IsCovered(c)}

\* The phase always names a seat that has something to do (6.8, 7.3): nobody
\* guesses with nothing pending, an empty reserve means sudden death, and in
\* sudden death seat 1 guesses only once seat 0 is done.
PhaseFitsTheBoard ==
  /\ phase \in {GivingClue, Guessing} =>
       timer > 0 /\ clueGiver # guesser /\ pending[guesser] > 0
  /\ phase \in SDPhases => timer = 0
  /\ phase = SDLlm => pending[0] > 0
  /\ phase = SDHuman => pending[0] = 0 /\ pending[1] > 0

\* A game is over exactly when it has a result, and it is won exactly when
\* nothing is left to find (check_invariants).
WonIffAllFound ==
  /\ IsGameOver <=> result # NoResult
  /\ result \in Victories <=> ~AnyPendingWords

\* What check_invariants looks for in a state.
CheckInvariants ==
  /\ TokensAddUp
  /\ PendingMatchesBoard
  /\ TokensLieOnBystanders
  /\ BystanderTokensOnWords
  /\ ValidatorSeesTheBoard
  /\ PhaseFitsTheBoard
  /\ WonIffAllFound

\* The strict guard, which ends a game it finds fault with, never finds any,
\* wherever the runner calls it (core/invariants.py).
GuardFindsNothing == CheckInvariants

\* Every ended turn is archived once and costs exactly one bystander or check
\* token (the winning turn pays without being archived).  Only one turn can be
\* short of its token: the one whose penalty took the last of the reserve.
EveryTurnIsPaidOnce ==
  LET turnTokens == spent["bystander"] + spent["check"]
      ended      == Len(history)
  IN  /\ ended = turn - 1
      /\ result = "victory" => turnTokens = ended + 1
      /\ result # "victory" =>
           \/ turnTokens = ended
           \/ turnTokens = ended - 1 /\ timer = 0 /\ history[ended].invalid

\* The history holds the clues of turns 1, 2, ... in order, and the penalty
\* pile holds one token per invalid clue given, live or archived (8.4).
HistoryIsFaithful ==
  /\ \A i \in DOMAIN history : history[i].turn = i
  /\ clue # NoClue => clue.turn = turn /\ clue.giver = clueGiver
  /\ spent["penalty"] =
       Cardinality({i \in DOMAIN history : history[i].invalid})
         + (IF clue.invalid THEN 1 ELSE 0)

\* The archive and the piles of tokens tell the same game, whichever way each
\* turn ended.
ArchiveAccountsForTheTokens == EveryTurnIsPaidOnce /\ HistoryIsFaithful

-----------------------------------------------------------------------------

\* What lies on a covered word never changes again, and nothing is ever taken
\* off a word.
CoveredIsFinal ==
  [][\A c \in Cards :
       /\ markers[c] \subseteq markers'[c]
       /\ (c \in revealed => c \in revealed')
       /\ IsCovered(c) => /\ markers'[c] = markers[c]
                          /\ revealedBy'[c] = revealedBy[c]
                          /\ c \in revealed' => c \in revealed]_vars

\* The calls by which seat s makes a move of its own: a guess, in its turn or in
\* its sudden death, a stop, a concession.
Plays(s) == (\E c \in Cards : ResolveGuess(s, c)) \/ PassTurn(s) \/ ConcedeSuddenDeath(s)

\* A seat with nothing left to find never moves again, in a turn of its own or in
\* sudden death, and nothing is recorded as its doing any more: no token of its is
\* laid, and no word is credited to it, not even by what its partner finds.
DoneSeatTouchesNothing ==
  [][\A s \in Seats : pending[s] = 0 =>
       /\ \A c \in Cards : /\ s \in markers'[c] => s \in markers[c]
                           /\ s \in revealedBy'[c] => s \in revealedBy[c]
       /\ ~Plays(s)]_vars

=============================================================================
