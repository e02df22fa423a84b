------------------------------ MODULE LLMRetry ------------------------------
(***************************************************************************)
(* One client of one model, for the length of a game: the calls the LLM    *)
(* service asks of it (LLMClient.generate), each of them a bounded number  *)
(* of attempts (generate_with_retries), each attempt what _generate_once   *)
(* sends the provider and what it makes of the outcome.                    *)
(*                                                                         *)
(* A seed is the number of the draw it belongs to: 0 is the request's own, *)
(* k is redraw_seed(request.seed, k).  SHA-256 is taken to be injective on *)
(* these, and the game seeds every request it makes (an unseeded request   *)
(* stays unseeded and has nothing to keep apart).                          *)
(***************************************************************************)
EXTENDS Integers, Sequences, FiniteSets, SequencesExt

CONSTANTS
    MaxRetries,   \* _CLIENT_MAX_RETRIES, the retries a call may spend
    MaxCalls      \* a bound on the calls of one client (not in the code)

ASSUME RetriesAssumption == MaxRetries \in Nat /\ MaxCalls \in Nat

VARIABLES
    provider,   \* which client this is: "ollama" or "openrouter"
    thinks,     \* whether the model really advertises the capability
    capable,    \* _thinking_capable: "unknown", "yes" or "no"
    misread,    \* a probe failed in a way that is not the daemon's (history)
    regimes,    \* every value `think` was sent with, "omitted" too (history)
    calls,      \* how many calls were asked for so far
    pc,         \* where the call in progress is
    retries,    \* n
    badDraws,   \* bad_draws, by the kind's code
    seed,       \* current.seed
    slept,      \* the seconds this call slept (history)
    attempts,   \* the seed and the outcome of every attempt of this call
    result      \* what generate returned or raised

callVars == <<pc, retries, badDraws, seed, slept, attempts, result>>
lifeVars == <<capable, misread, regimes, calls>>
vars == <<provider, thinks, callVars, lifeVars>>

-----------------------------------------------------------------------------
(* The taxonomy. *)

BadDraws == {"empty_response", "degenerate_response", "truncated_response",
             "malformed_response"}
Transients == {"timeout", "rate_limit", "provider_unavailable"}
Retriable == BadDraws \cup Transients
Fatal == {"model_not_found", "invalid_request", "refused", "auth",
          "insufficient_credits", "model_not_provided", "parse_error",
          "unexpected"}   \* no LLMError at all: it propagates untouched

(* The HTTP statuses told apart: 0 stands for none, 400 for every other 4xx, *)
(* 503 for every 5xx.                                                        *)
Statuses == {0, 400, 401, 402, 403, 404, 408, 429, 503}

ErrorForStatus(s) ==
    CASE s = 402 -> "insufficient_credits"
      [] s = 404 -> "model_not_found"
      [] s \in {401, 403} -> "auth"
      [] s = 408 -> "timeout"
      [] s = 429 -> "rate_limit"
      [] s = 400 -> "invalid_request"
      [] OTHER -> "provider_unavailable"

StatusError(s) == IF s = 403 THEN "refused" ELSE ErrorForStatus(s)

(* What the daemon's failures are: a timeout, a lost connection, a status. *)
DaemonErrors ==
    {"timeout", "provider_unavailable"} \cup {ErrorForStatus(s) : s \in Statuses}

(* What is left of a chat that fails without an answer to read. *)
ChatErrors ==
    IF provider = "ollama"
    THEN DaemonErrors \cup {"model_not_provided", "parse_error", "unexpected"}
    ELSE {"timeout", "provider_unavailable", "refused", "unexpected"}
             \cup {StatusError(s) : s \in Statuses}

(* What can be wrong with an answer.  A cut one may be broken, or well      *)
(* formed all the same; an empty one has nothing to match a format.         *)
Answers ==
    {a \in SUBSET {"empty", "cut", "malformed", "degenerate"} :
        /\ "empty" \in a => a \cap {"malformed", "degenerate"} = {}
        /\ "degenerate" \in a => "malformed" \notin a}

ReadAnswer(a) ==
    CASE "empty" \in a -> "empty_response"
      [] "empty" \notin a /\ "cut" \in a -> "truncated_response"
      [] a \cap {"empty", "cut"} = {} /\ "malformed" \in a -> "malformed_response"
      [] a = {"degenerate"} -> "degenerate_response"
      [] OTHER -> "usable"

Total(counts) ==
    counts["empty_response"] + counts["degenerate_response"]
        + counts["truncated_response"] + counts["malformed_response"]

RedrawSeed(draw) == draw

(* 2 ** n. *)
PowerOfTwo[n \in Nat] == IF n = 0 THEN 1 ELSE 2 * PowerOfTwo[n - 1]

(* The bug of an exponent one too large. *)
BackoffDoubled(n) == 15 * PowerOfTwo[n]

Backoff(n) == 15 * PowerOfTwo[n - 1]

NoDraws == [kind \in BadDraws |-> 0]
NoResult == [is |-> "none", code |-> "none", seed |-> 0, answer |-> {}, stamp |-> NoDraws]

-----------------------------------------------------------------------------
Init ==
    /\ provider \in {"ollama", "openrouter"}
    /\ thinks \in BOOLEAN
    /\ capable = "unknown" /\ misread = FALSE /\ regimes = {} /\ calls = 0
    /\ pc = "idle" /\ retries = 0 /\ badDraws = NoDraws /\ seed = 0
    /\ slept = 0 /\ attempts = << >> /\ result = NoResult

(* An attempt of the local client opens with the capability, that of        *)
(* OpenRouter with the call itself.                                         *)
FirstStep == IF provider = "ollama" THEN "probe" ELSE "chat"

(* The service asks for the next call of the game: a fresh request.         *)
Ask ==
    /\ pc \in {"idle", "kept"}
    /\ calls < MaxCalls
    /\ calls' = calls + 1
    /\ pc' = FirstStep
    /\ retries' = 0 /\ badDraws' = NoDraws /\ seed' = 0
    /\ slept' = 0 /\ attempts' = << >> /\ result' = NoResult
    /\ UNCHANGED <<provider, thinks, capable, misread, regimes>>

(* The except branch of generate_with_retries: the attempt raised `code`.   *)
(* A bad draw is drawn again with the seed of the next draw; a transient    *)
(* sleeps and re-sends the same request; either spends one retry, and what  *)
(* is not retriable, or finds the budget spent, is raised to the game.      *)
Record(code) == attempts' = Append(attempts, [seed |-> seed, outcome |-> code])

(* Bugs that DrawAgain and SendAgain could have, each shown to break a      *)
(* property: the draw counted after its seed is derived, the seed derived   *)
(* from the retries, the budget off by one, a new seed after an outage.     *)
SeedBeforeCount(code) ==
    /\ code \in BadDraws /\ retries < MaxRetries
    /\ Record(code)
    /\ retries' = retries + 1
    /\ badDraws' = [badDraws EXCEPT ![code] = @ + 1]
    /\ seed' = RedrawSeed(Total(badDraws))
    /\ pc' = FirstStep
    /\ UNCHANGED <<slept, result>>

SeedOfTheRetry(code) ==
    /\ code \in BadDraws /\ retries < MaxRetries
    /\ Record(code)
    /\ retries' = retries + 1
    /\ badDraws' = [badDraws EXCEPT ![code] = @ + 1]
    /\ seed' = RedrawSeed(retries')
    /\ pc' = FirstStep
    /\ UNCHANGED <<slept, result>>

SendAnother(code) ==
    /\ code \in Transients /\ retries < MaxRetries
    /\ Record(code)
    /\ retries' = retries + 1
    /\ slept' = slept + Backoff(retries')
    /\ seed' = RedrawSeed(retries')
    /\ pc' = FirstStep
    /\ UNCHANGED <<badDraws, result>>

(* The bug of a last retry that is never made. *)
GivesUpEarly(code) ==
    /\ ~(code \in Retriable /\ retries + 1 < MaxRetries)
    /\ Record(code)
    /\ pc' = "raised"
    /\ result' = [NoResult EXCEPT !.is = "raised", !.code = code]
    /\ UNCHANGED <<retries, badDraws, seed, slept>>

GiveUp(code) ==
    /\ ~(code \in Retriable /\ retries < MaxRetries)
    /\ Record(code)
    /\ pc' = "raised"
    /\ result' = [NoResult EXCEPT !.is = "raised", !.code = code]
    /\ UNCHANGED <<retries, badDraws, seed, slept>>

DrawAgain(code) ==
    /\ code \in BadDraws /\ retries < MaxRetries
    /\ Record(code)
    /\ retries' = retries + 1
    /\ badDraws' = [badDraws EXCEPT ![code] = @ + 1]
    /\ seed' = RedrawSeed(Total(badDraws'))
    /\ pc' = FirstStep
    /\ UNCHANGED <<slept, result>>

SendAgain(code) ==
    /\ code \in Transients /\ retries < MaxRetries
    /\ Record(code)
    /\ retries' = retries + 1
    /\ slept' = slept + Backoff(retries')
    /\ pc' = FirstStep
    /\ UNCHANGED <<badDraws, seed, result>>

Fail(code) == GiveUp(code) \/ DrawAgain(code) \/ SendAgain(code)

-----------------------------------------------------------------------------
(* _supports_thinking.  Once resolved it is not asked again.  A failure of  *)
(* the daemon is the attempt's failure and caches nothing; any other        *)
(* failure of the probe caches "not capable".                               *)
Probed ==
    /\ pc = "probe" /\ capable # "unknown"
    /\ pc' = "reset"
    /\ UNCHANGED <<provider, thinks, lifeVars, retries, badDraws, seed, slept, attempts, result>>

ProbeAnswers ==
    /\ pc = "probe" /\ capable = "unknown"
    /\ capable' = IF thinks THEN "yes" ELSE "no"
    /\ pc' = "reset"
    /\ UNCHANGED <<provider, thinks, misread, regimes, calls,
                   retries, badDraws, seed, slept, attempts, result>>

ProbeMisread ==
    /\ pc = "probe" /\ capable = "unknown"
    /\ capable' = "no" /\ misread' = TRUE
    /\ pc' = "reset"
    /\ UNCHANGED <<provider, thinks, regimes, calls,
                   retries, badDraws, seed, slept, attempts, result>>

(* The bug of a probe that degrades for any failure, the daemon's included. *)
ProbeDegrades ==
    /\ pc = "probe" /\ capable = "unknown"
    /\ capable' = "no"
    /\ \E code \in DaemonErrors : Fail(code)
    /\ UNCHANGED <<provider, thinks, misread, regimes, calls>>

ProbeFails ==
    /\ pc = "probe" /\ capable = "unknown"
    /\ \E code \in DaemonErrors : Fail(code)
    /\ UNCHANGED <<provider, thinks, lifeVars>>

(* The fixed request that goes before every draw of the local client.       *)
ResetAnswers ==
    /\ pc = "reset"
    /\ pc' = "chat"
    /\ UNCHANGED <<provider, thinks, lifeVars, retries, badDraws, seed, slept, attempts, result>>

ResetFails ==
    /\ pc = "reset"
    /\ \E code \in ChatErrors : Fail(code)
    /\ UNCHANGED <<provider, thinks, lifeVars>>

-----------------------------------------------------------------------------
(* The draw.  What is sent is part of it whatever comes back.               *)
Think == IF capable = "yes" THEN "sent" ELSE "omitted"
Sent ==
    /\ regimes' = IF provider = "ollama" THEN regimes \cup {Think} ELSE regimes
    /\ UNCHANGED <<provider, thinks, capable, misread, calls>>

ChatFails ==
    /\ pc = "chat"
    /\ \E code \in ChatErrors : Fail(code)
    /\ Sent

BadDraw ==
    /\ pc = "chat"
    /\ \E a \in Answers : ReadAnswer(a) # "usable" /\ Fail(ReadAnswer(a))
    /\ Sent

GoodDraw ==
    /\ pc = "chat"
    /\ \E a \in Answers :
         /\ ReadAnswer(a) = "usable"
         /\ result' = [is |-> "kept", code |-> "none", seed |-> seed,
                       answer |-> a, stamp |-> badDraws]
    /\ Record("kept")
    /\ pc' = "kept"
    /\ Sent
    /\ UNCHANGED <<retries, badDraws, seed, slept>>

(* A raised error ends the game, and with it the client.                    *)
Next ==
    \/ Ask
    \/ Probed \/ ProbeAnswers \/ ProbeMisread \/ ProbeFails
    \/ ResetAnswers \/ ResetFails
    \/ ChatFails \/ BadDraw \/ GoodDraw

Spec == Init /\ [][Next]_vars

-----------------------------------------------------------------------------
Attempt == [seed : 0..MaxRetries, outcome : Retriable \cup Fatal \cup {"kept"}]

(* The state has its shape, the counters stay in the budget, and a call     *)
(* sleeps no longer than that many transient failures do (105 s for 3).     *)
TypeOK ==
    /\ provider \in {"ollama", "openrouter"} /\ thinks \in BOOLEAN
    /\ capable \in {"unknown", "yes", "no"} /\ misread \in BOOLEAN
    /\ regimes \subseteq {"sent", "omitted"}
    /\ calls \in 0..MaxCalls
    /\ pc \in {"idle", "probe", "reset", "chat", "kept", "raised"}
    /\ retries \in 0..MaxRetries
    /\ badDraws \in [BadDraws -> 0..MaxRetries]
    /\ seed \in 0..MaxRetries
    /\ slept \in 0..15 * (PowerOfTwo[MaxRetries] - 1)
    /\ attempts \in Seq(Attempt)
    /\ result \in [is : {"none", "kept", "raised"}, code : Retriable \cup Fatal \cup {"none"},
                   seed : 0..MaxRetries, answer : Answers,
                   stamp : [BadDraws -> 0..MaxRetries]]

(* "With the same seed a local model gives the same answer again": the seed *)
(* of an answer that could not be used is never sent again in the call,     *)
(* whatever failures and other bad draws come between.                      *)
BadSeedIsNotSentAgain ==
    \A i, j \in DOMAIN attempts :
        (i < j /\ attempts[i].outcome \in BadDraws) => attempts[i].seed # attempts[j].seed

(* "The network failed, not the model": what a transient failure lost is    *)
(* sent again with the seed it had, so an outage never changes the answers  *)
(* of a run.                                                                *)
OutageKeepsTheSeed ==
    \A i \in DOMAIN attempts :
        (attempts[i].outcome \in Transients /\ i + 1 \in DOMAIN attempts)
            => attempts[i + 1].seed = attempts[i].seed

(* The answer kept is one that can be played, its stamp counts exactly the  *)
(* bad draws of this call by their kind, and their sum is the k of its seed *)
(* (what an audit of llm_call.raw_payload relies on).                       *)
StampExplainsTheSeed ==
    result.is = "kept" =>
        /\ result.answer = {}
        /\ \A kind \in BadDraws :
             result.stamp[kind]
                = Cardinality({i \in DOMAIN attempts : attempts[i].outcome = kind})
        /\ result.seed = Total(result.stamp)

(* A call never makes more than MaxRetries + 1 attempts, bad draws and      *)
(* transient failures spending the one budget, and it gives up a failure    *)
(* that could be retried only with that budget spent.                       *)
BudgetIsSpentNotExceeded ==
    /\ Len(attempts) <= MaxRetries + 1
    /\ (result.is = "raised" /\ result.code \in Retriable) => Len(attempts) = MaxRetries + 1

(* A model plays the whole game in one inference regime: `think` is either  *)
(* sent with every draw of the client or with none, and a model that can    *)
(* think is always told to (or not to) unless its probe could not be read,  *)
(* a daemon that was down at the first attempt included.                    *)
OneRegimePerClient ==
    /\ Cardinality(regimes) <= 1
    /\ "sent" \in regimes => thinks
    /\ (thinks /\ ~misread) => "omitted" \notin regimes
=============================================================================
