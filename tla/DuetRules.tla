------------------------------ MODULE DuetRules -----------------------------
(***************************************************************************)
(* What a game of Codenames Duet promises the experiment that reads its    *)
(* outcome, whoever gives clues and in whatever order: which words each    *)
(* seat has found, how many tokens are left, and how the game stands.  No  *)
(* phases, roles, counters, time tokens or clue archive.  DuetEngine       *)
(* implements it.                                                          *)
(***************************************************************************)
EXTENDS Integers

CONSTANTS
  Cards,   \* the words on the board
  ToFind,  \* ToFind[s]: the words seat s has to find
  Tokens   \* the tokens in the reserve at the start

VARIABLES
  found,    \* found[s]: the words seat s no longer has to find
  reserve,  \* the tokens left
  status    \* how the game stands

vars == <<found, reserve, status>>

Seats == {0, 1}
Live  == {"playing", "sudden_death"}

AllFound == \A s \in Seats : found[s] = ToFind[s]

Init ==
  /\ found = [s \in Seats |-> {}]
  /\ reserve = Tokens
  /\ status = "playing"

\* Clues, stops and bystanders are paid from the reserve; the last token
\* starts sudden death.
Pay ==
  /\ status = "playing"
  /\ reserve' = reserve - 1
  /\ status' = IF reserve' = 0 THEN "sudden_death" ELSE "playing"

PayOnly == Pay /\ UNCHANGED found

\* In sudden death seat 0 plays first, until it has found everything.
HasTheTurn(s) == status = "sudden_death" /\ s = 1 => found[0] = ToFind[0]

\* A seat finds a word, for itself and for its partner if it is shared.  The
\* last word of all wins, and a win in normal play costs a token; the seat's
\* own last word ends its turn, which is paid for.
Find(s, c) ==
  /\ status \in Live
  /\ HasTheTurn(s)
  /\ c \in ToFind[s] \ found[s]
  /\ found' = [t \in Seats |-> IF c \in ToFind[t] THEN found[t] \cup {c} ELSE found[t]]
  /\ \/ /\ AllFound'
        /\ status' = "won"
        /\ reserve' = IF status = "playing" THEN reserve - 1 ELSE reserve
     \/ /\ ~AllFound'
        /\ found'[s] = ToFind[s]
        /\ Pay
     \/ /\ ~AllFound'
        /\ status = "playing" => found'[s] # ToFind[s]
        /\ UNCHANGED <<reserve, status>>

Lose ==
  /\ status \in Live
  /\ status' = "lost"
  /\ UNCHANGED <<found, reserve>>

Next ==
  \/ PayOnly
  \/ \E s \in Seats, c \in Cards : Find(s, c)
  \/ Lose

Spec == Init /\ [][Next]_vars

=============================================================================
