--------------------------- MODULE LLMRetryProofs ---------------------------
(***************************************************************************)
(* Proofs about LLMRetry, for every retry budget and every number of       *)
(* calls: which seeds a call sends, what its stamp says, how often it      *)
(* tries and how long it sleeps.                                           *)
(***************************************************************************)
EXTENDS LLMRetry, FiniteSetTheorems, WellFoundedInduction, TLAPS

Running == {"probe", "reset", "chat"}
Places == Running \cup {"idle", "kept", "raised"}
Outcomes == Retriable \cup Fatal \cup {"kept"}
Entry == [seed : Nat, outcome : Outcomes]

\* The attempts of a sequence that ended one way.
EndedAs(s, kind) == {i \in DOMAIN s : s[i].outcome = kind}

\* How the seeds of a sequence of attempts follow one another.
SeedsFollow(s) ==
  /\ \A i, j \in DOMAIN s : (i < j /\ s[i].outcome \in BadDraws) => s[i].seed < s[j].seed
  /\ \A i \in DOMAIN s :
       (s[i].outcome \in Transients /\ i + 1 \in DOMAIN s) => s[i + 1].seed = s[i].seed

\* How the seed to be sent next stands to those of the attempts made.
SeedLeads(k, s) ==
  /\ \A i \in DOMAIN s : /\ s[i].seed <= k
                         /\ s[i].outcome \in BadDraws => s[i].seed < k
  /\ Len(s) > 0 /\ s[Len(s)].outcome \in Transients => s[Len(s)].seed = k

\* The inductive invariant: the seed is the number of bad draws so far, it is
\* past every seed that gave one, and the counts are those of the attempts.
RetryInv ==
  /\ pc \in Places
  /\ retries \in 0..MaxRetries
  /\ badDraws \in [BadDraws -> Nat]
  /\ seed = Total(badDraws)
  /\ attempts \in Seq(Entry)
  /\ SeedsFollow(attempts)
  /\ pc \in Running => Len(attempts) = retries /\ SeedLeads(seed, attempts)
  /\ pc \in {"kept", "raised"} => Len(attempts) = retries + 1
  /\ pc = "idle" => attempts = << >>
  /\ pc \in Running \cup {"kept"} =>
       \A kind \in BadDraws : badDraws[kind] = Cardinality(EndedAs(attempts, kind))
  /\ result.is = "kept" => /\ pc = "kept" /\ result.answer = {}
                           /\ result.stamp = badDraws /\ result.seed = seed
  /\ result.is = "raised" /\ result.code \in Retriable => retries = MaxRetries /\ pc = "raised"

-----------------------------------------------------------------------------
(***************************************************************************)
(* Attempts, one after another                                             *)
(***************************************************************************)

\* The outcomes of the taxonomy fall into disjoint kinds.
LEMMA KindsApart ==
  /\ BadDraws \cap Transients = {}
  /\ Retriable \cap Fatal = {}
  /\ "kept" \notin Retriable \cup Fatal
BY DEF BadDraws, Transients, Retriable, Fatal

LEMMA AppendEntry ==
  ASSUME NEW s \in Seq(Entry), NEW e \in Entry
  PROVE  /\ Append(s, e) \in Seq(Entry)
         /\ Len(Append(s, e)) = Len(s) + 1
         /\ Append(s, e)[Len(s) + 1] = e
         /\ \A i \in DOMAIN s : Append(s, e)[i] = s[i]
         /\ DOMAIN Append(s, e) = DOMAIN s \cup {Len(s) + 1}
         /\ DOMAIN s = 1..Len(s) /\ Len(s) \in Nat
OBVIOUS

\* One more attempt, with the seed that was to be sent next, keeps the order.
LEMMA SeedsFollowOn ==
  ASSUME NEW s \in Seq(Entry), NEW k \in Nat, NEW o \in Outcomes,
         SeedsFollow(s), SeedLeads(k, s)
  PROVE  SeedsFollow(Append(s, [seed |-> k, outcome |-> o]))
<1> DEFINE e == [seed |-> k, outcome |-> o]
           t == Append(s, e)
<1>1. e \in Entry /\ e.seed = k /\ e.outcome = o
  BY DEF Entry
<1> HIDE DEF e
<1>2. /\ t[Len(s) + 1] = e /\ \A i \in DOMAIN s : t[i] = s[i]
      /\ DOMAIN t = DOMAIN s \cup {Len(s) + 1}
      /\ DOMAIN s = 1..Len(s) /\ Len(s) \in Nat
  BY <1>1, AppendEntry
<1> HIDE DEF t
<1>3. ASSUME NEW i \in DOMAIN t, NEW j \in DOMAIN t, i < j, t[i].outcome \in BadDraws
      PROVE  t[i].seed < t[j].seed
  <2>1. i \in DOMAIN s
    BY <1>2, <1>3
  <2>2. CASE j \in DOMAIN s
    BY <1>2, <1>3, <2>1, <2>2 DEF SeedsFollow
  <2>3. CASE j = Len(s) + 1
    BY <1>1, <1>2, <1>3, <2>1, <2>3 DEF SeedLeads
  <2>4. QED BY <1>2, <2>2, <2>3
<1>4. ASSUME NEW i \in DOMAIN t, t[i].outcome \in Transients, i + 1 \in DOMAIN t
      PROVE  t[i + 1].seed = t[i].seed
  <2>1. i \in DOMAIN s
    BY <1>2, <1>4
  <2>2. CASE i + 1 \in DOMAIN s
    BY <1>2, <1>4, <2>1, <2>2 DEF SeedsFollow
  <2>3. CASE i = Len(s)
    <3>a. i + 1 = Len(s) + 1 /\ Len(s) \in DOMAIN s /\ Len(s) > 0
      <4>1. DOMAIN s = 1..Len(s) /\ Len(s) \in Nat
        BY <1>2
      <4>2. Len(s) \in DOMAIN s
        BY <2>1, <2>3
      <4>3. Len(s) > 0
        BY <4>1, <4>2
      <4>4. QED BY <2>3, <4>2, <4>3
    <3>1. t[i + 1] = e /\ t[i] = s[Len(s)] /\ Len(s) > 0
      <4>1. t[i + 1] = t[Len(s) + 1]
        BY <3>a
      <4>2. t[i] = s[Len(s)]
        BY <1>2, <2>3, <3>a
      <4>3. QED BY <1>2, <3>a, <4>1, <4>2
    <3>2. s[Len(s)].seed = k
      BY <1>4, <3>1 DEF SeedLeads
    <3>3. QED BY <1>1, <3>1, <3>2
  <2>4. QED BY <1>2, <1>4, <2>1, <2>2, <2>3
<1>5. QED BY <1>3, <1>4 DEF SeedsFollow, t, e

\* After a bad draw the next seed leads again if it is one further, after a
\* transient failure if it is the same.
LEMMA SeedLeadsOn ==
  ASSUME NEW s \in Seq(Entry), NEW k \in Nat, NEW o \in Outcomes, NEW n \in Nat,
         SeedLeads(k, s),
         \/ o \in BadDraws /\ n = k + 1
         \/ o \in Transients /\ n = k
  PROVE  SeedLeads(n, Append(s, [seed |-> k, outcome |-> o]))
<1> DEFINE e == [seed |-> k, outcome |-> o]
           t == Append(s, e)
<1>1. e \in Entry /\ e.seed = k /\ e.outcome = o
  BY DEF Entry
<1> HIDE DEF e
<1>2. /\ t[Len(s) + 1] = e /\ \A i \in DOMAIN s : t[i] = s[i]
      /\ DOMAIN t = DOMAIN s \cup {Len(s) + 1}
      /\ Len(t) = Len(s) + 1 /\ Len(s) \in Nat
  BY <1>1, AppendEntry
<1> HIDE DEF t
<1>3. \A i \in DOMAIN s : s[i].seed \in Nat
  <2>1. \A i \in DOMAIN s : s[i] \in Entry
    BY AppendEntry
  <2>2. QED BY <2>1 DEF Entry
<1>4. ASSUME NEW i \in DOMAIN t
      PROVE  t[i].seed <= n /\ (t[i].outcome \in BadDraws => t[i].seed < n)
  <2>1. CASE i \in DOMAIN s
    BY <1>2, <1>3, <2>1 DEF SeedLeads
  <2>2. CASE i = Len(s) + 1
    BY <1>1, <1>2, <2>2, KindsApart
  <2>3. QED BY <1>2, <2>1, <2>2
<1>5. t[Len(t)].outcome \in Transients => t[Len(t)].seed = n
  BY <1>1, <1>2, KindsApart
<1>6. QED BY <1>4, <1>5 DEF SeedLeads, t, e

\* The attempts that ended one way, counted with one attempt more.
LEMMA CountOn ==
  ASSUME NEW s \in Seq(Entry), NEW e \in Entry, NEW kind
  PROVE  Cardinality(EndedAs(Append(s, e), kind)) =
           IF e.outcome = kind THEN Cardinality(EndedAs(s, kind)) + 1
                               ELSE Cardinality(EndedAs(s, kind))
<1>1. IsFiniteSet(EndedAs(s, kind))
  <2>1. IsFiniteSet(1..Len(s))
    BY AppendEntry, FS_Interval, 1 \in Int
  <2>2. EndedAs(s, kind) \subseteq 1..Len(s)
    BY AppendEntry DEF EndedAs
  <2>3. QED BY <2>1, <2>2, FS_Subset
<1>2. Len(s) + 1 \notin EndedAs(s, kind)
  BY AppendEntry DEF EndedAs
<1>3. EndedAs(Append(s, e), kind) =
        IF e.outcome = kind THEN EndedAs(s, kind) \cup {Len(s) + 1} ELSE EndedAs(s, kind)
  BY AppendEntry DEF EndedAs
<1>4. QED BY <1>1, <1>2, <1>3, FS_AddElement

\* Counting one more bad draw moves the seed on by one.
LEMMA TotalOn ==
  ASSUME NEW b \in [BadDraws -> Nat], NEW code \in BadDraws
  PROVE  /\ Total(b) \in Nat
         /\ [b EXCEPT ![code] = @ + 1] \in [BadDraws -> Nat]
         /\ Total([b EXCEPT ![code] = @ + 1]) = Total(b) + 1
BY DEF Total, BadDraws

LEMMA TotalIsNat == \A b \in [BadDraws -> Nat] : Total(b) \in Nat
BY DEF Total, BadDraws

LEMMA NoDrawsAtAll == NoDraws \in [BadDraws -> Nat] /\ Total(NoDraws) = 0
BY DEF NoDraws, Total, BadDraws

-----------------------------------------------------------------------------
(***************************************************************************)
(* The invariant                                                           *)
(***************************************************************************)

\* An attempt that raised, whatever it raised.
LEMMA FailStep ==
  ASSUME RetryInv, pc \in Running, NEW code \in Retriable \cup Fatal, Fail(code)
  PROVE  RetryInv'
<1> DEFINE e == [seed |-> seed, outcome |-> code]
<1>1. seed \in Nat /\ e \in Entry /\ e.outcome = code
  BY TotalIsNat DEF RetryInv, Entry, Outcomes
<1>2. SeedsFollow(Append(attempts, e)) /\ Append(attempts, e) \in Seq(Entry)
        /\ Len(Append(attempts, e)) = retries + 1
  BY <1>1, SeedsFollowOn, AppendEntry DEF RetryInv, Outcomes
<1>3. MaxRetries \in Nat
  BY RetriesAssumption
<1>4. FirstStep \in Running
  BY DEF FirstStep, Running
<1>5. result.is # "kept" /\ ~(result.is = "raised" /\ result.code \in Retriable)
  BY DEF RetryInv, Running
<1>6. CASE GiveUp(code)
  <2>1. /\ attempts' = Append(attempts, e) /\ pc' = "raised"
        /\ UNCHANGED <<retries, badDraws, seed>>
        /\ result'.is = "raised" /\ result'.code = code
    BY <1>6 DEF GiveUp, Record, NoResult
  <2>2. code \in Retriable => retries = MaxRetries
    BY <1>3, <1>6 DEF GiveUp, RetryInv
  <2>3. QED BY <1>2, <2>1, <2>2 DEF RetryInv, Places, Running
<1>7. CASE DrawAgain(code)
  <2>1. /\ attempts' = Append(attempts, e) /\ pc' \in Running
        /\ retries' = retries + 1 /\ retries' \in 0..MaxRetries
        /\ badDraws' = [badDraws EXCEPT ![code] = @ + 1]
        /\ seed' = Total(badDraws') /\ result' = result /\ code \in BadDraws
    BY <1>3, <1>4, <1>7 DEF DrawAgain, Record, RedrawSeed, RetryInv
  <2>2. badDraws' \in [BadDraws -> Nat] /\ seed' = seed + 1 /\ seed' \in Nat
    BY <1>1, <2>1, TotalOn DEF RetryInv
  <2>3. SeedLeads(seed', attempts')
    BY <1>1, <2>1, <2>2, SeedLeadsOn DEF RetryInv, Outcomes
  <2>4. \A kind \in BadDraws : badDraws'[kind] = Cardinality(EndedAs(attempts', kind))
    BY <1>1, <2>1, CountOn DEF RetryInv
  <2>5. QED BY <1>2, <1>5, <2>1, <2>2, <2>3, <2>4 DEF RetryInv, Places, Running
<1>8. CASE SendAgain(code)
  <2>1. /\ attempts' = Append(attempts, e) /\ pc' \in Running
        /\ retries' = retries + 1 /\ retries' \in 0..MaxRetries
        /\ UNCHANGED <<badDraws, seed, result>> /\ code \in Transients
    BY <1>3, <1>4, <1>8 DEF SendAgain, Record, RetryInv
  <2>2. SeedLeads(seed', attempts')
    BY <1>1, <2>1, SeedLeadsOn DEF RetryInv, Outcomes
  <2>3. \A kind \in BadDraws : badDraws'[kind] = Cardinality(EndedAs(attempts', kind))
    BY <1>1, <2>1, CountOn, KindsApart DEF RetryInv
  <2>4. QED BY <1>2, <1>5, <2>1, <2>2, <2>3 DEF RetryInv, Places, Running
<1>9. QED BY <1>6, <1>7, <1>8 DEF Fail

LEMMA CodesKnown ==
  /\ DaemonErrors \subseteq Retriable \cup Fatal
  /\ ChatErrors \subseteq Retriable \cup Fatal
  /\ \A a \in Answers : ReadAnswer(a) # "usable" => ReadAnswer(a) \in Retriable \cup Fatal
  /\ \A a \in Answers : ReadAnswer(a) = "usable" => a = {}
<1> USE DEF Retriable, Fatal, BadDraws, Transients
<1>1. \A s \in Statuses : ErrorForStatus(s) \in Retriable \cup Fatal
  BY DEF Statuses, ErrorForStatus
<1>2. \A s \in Statuses : StatusError(s) \in Retriable \cup Fatal
  BY <1>1 DEF StatusError
<1>3. DaemonErrors \subseteq Retriable \cup Fatal
  BY <1>1 DEF DaemonErrors
<1>4. ChatErrors \subseteq Retriable \cup Fatal
  BY <1>2, <1>3 DEF ChatErrors
<1>5. ASSUME NEW a \in Answers
      PROVE  /\ ReadAnswer(a) # "usable" => ReadAnswer(a) \in Retriable \cup Fatal
             /\ ReadAnswer(a) = "usable" => a = {}
  BY DEF Answers, ReadAnswer
<1>6. QED BY <1>3, <1>4, <1>5

\* A step of the call that neither fails nor ends it.
LEMMA QuietStep ==
  ASSUME RetryInv, pc \in Running, pc' \in Running,
         UNCHANGED <<retries, badDraws, seed, attempts, result>>
  PROVE  RetryInv'
BY DEF RetryInv, Places, Running

\* The answer is kept.
LEMMA GoodStep ==
  ASSUME RetryInv, GoodDraw
  PROVE  RetryInv'
<1> DEFINE e == [seed |-> seed, outcome |-> "kept"]
<1>1. seed \in Nat /\ e \in Entry /\ e.outcome = "kept" /\ "kept" \in Outcomes
  BY TotalIsNat DEF RetryInv, Entry, Outcomes
<1>2. /\ attempts' = Append(attempts, e) /\ pc' = "kept" /\ pc \in Running
      /\ UNCHANGED <<retries, badDraws, seed>>
  BY DEF GoodDraw, Record, Running
<1>3. /\ SeedsFollow(attempts') /\ attempts' \in Seq(Entry)
      /\ Len(attempts') = retries + 1
  BY <1>1, <1>2, SeedsFollowOn, AppendEntry DEF RetryInv
<1>4. \A kind \in BadDraws : badDraws'[kind] = Cardinality(EndedAs(attempts', kind))
  BY <1>1, <1>2, CountOn, KindsApart DEF RetryInv, Retriable
<1>5. /\ result'.is = "kept" /\ result'.answer = {}
      /\ result'.stamp = badDraws /\ result'.seed = seed
  BY CodesKnown DEF GoodDraw
<1>6. QED BY <1>2, <1>3, <1>4, <1>5 DEF RetryInv, Places, Running

\* A new call starts from nothing.
LEMMA AskStep ==
  ASSUME RetryInv, Ask
  PROVE  RetryInv'
<1>1. /\ attempts' = << >> /\ pc' \in Running /\ retries' = 0
      /\ badDraws' = NoDraws /\ seed' = 0 /\ result'.is = "none"
  BY DEF Ask, FirstStep, Running, NoResult
<1>2. MaxRetries \in Nat
  BY RetriesAssumption
<1>3. \A kind \in BadDraws : EndedAs(<< >>, kind) = {}
  BY DEF EndedAs
<1>4. \A kind \in BadDraws : NoDraws[kind] = Cardinality(EndedAs(<< >>, kind))
  BY <1>3, FS_EmptySet DEF NoDraws
<1>5. SeedsFollow(<< >>) /\ SeedLeads(0, << >>)
  BY DEF SeedsFollow, SeedLeads
<1>6. QED BY <1>1, <1>2, <1>4, <1>5, NoDrawsAtAll DEF RetryInv, Places, Running

LEMMA RetryStep == RetryInv /\ [Next]_vars => RetryInv'
<1> SUFFICES ASSUME RetryInv, [Next]_vars PROVE RetryInv'
  OBVIOUS
<1>1. CASE Ask
  BY <1>1, AskStep
<1>2. CASE Probed \/ ProbeAnswers \/ ProbeMisread \/ ResetAnswers
  BY <1>2, QuietStep DEF Probed, ProbeAnswers, ProbeMisread, ResetAnswers, Running
<1>3. CASE ProbeFails \/ ResetFails \/ ChatFails
  BY <1>3, FailStep, CodesKnown DEF ProbeFails, ResetFails, ChatFails, Running
<1>4. CASE BadDraw
  BY <1>4, FailStep, CodesKnown DEF BadDraw, Running
<1>5. CASE GoodDraw
  BY <1>5, GoodStep
<1>6. CASE UNCHANGED vars
  BY <1>6 DEF vars, callVars, RetryInv
<1>7. QED BY <1>1, <1>2, <1>3, <1>4, <1>5, <1>6 DEF Next

LEMMA RetryInvariant == Spec => []RetryInv
<1>1. Init => RetryInv
  <2> SUFFICES ASSUME Init PROVE RetryInv
    OBVIOUS
  <2>1. SeedsFollow(<< >>)
    BY DEF SeedsFollow
  <2>2. QED
    BY <2>1, NoDrawsAtAll, RetriesAssumption
       DEF Init, RetryInv, Places, Running, NoResult
<1>2. QED BY <1>1, RetryStep, PTL DEF Spec

-----------------------------------------------------------------------------
(***************************************************************************)
(* What follows                                                            *)
(***************************************************************************)

\* A seed that gave an answer that could not be used is never sent again.
THEOREM BadSeedsAreSpent == Spec => []BadSeedIsNotSentAgain
<1>1. RetryInv => BadSeedIsNotSentAgain
  <2> SUFFICES ASSUME RetryInv, NEW i \in DOMAIN attempts, NEW j \in DOMAIN attempts,
                      i < j, attempts[i].outcome \in BadDraws
               PROVE  attempts[i].seed # attempts[j].seed
    BY DEF BadSeedIsNotSentAgain
  <2>1. attempts[i] \in Entry /\ attempts[j] \in Entry
    BY AppendEntry DEF RetryInv
  <2>2. attempts[i].seed < attempts[j].seed
    BY DEF RetryInv, SeedsFollow
  <2>3. QED BY <2>1, <2>2 DEF Entry
<1>2. QED BY <1>1, RetryInvariant, PTL

\* What the network lost is sent again with the seed it had.
THEOREM OutagesKeepTheSeed == Spec => []OutageKeepsTheSeed
<1>1. RetryInv => OutageKeepsTheSeed
  BY DEF RetryInv, SeedsFollow, OutageKeepsTheSeed
<1>2. QED BY <1>1, RetryInvariant, PTL

\* The counts stamped on a kept answer are those of the call, and add up to the
\* draw its seed belongs to.
THEOREM StampsExplainSeeds == Spec => []StampExplainsTheSeed
<1>1. RetryInv => StampExplainsTheSeed
  BY DEF RetryInv, StampExplainsTheSeed, EndedAs, Running
<1>2. QED BY <1>1, RetryInvariant, PTL

\* No call makes more attempts than its budget, and none gives up early.
THEOREM BudgetsAreKept == Spec => []BudgetIsSpentNotExceeded
<1>1. RetryInv => BudgetIsSpentNotExceeded
  <2> SUFFICES ASSUME RetryInv PROVE BudgetIsSpentNotExceeded
    OBVIOUS
  <2>1. MaxRetries \in Nat /\ retries \in 0..MaxRetries
    BY RetriesAssumption DEF RetryInv
  <2>2. Len(attempts) <= retries + 1
    BY <2>1 DEF RetryInv, Places
  <2>3. QED BY <2>1, <2>2 DEF RetryInv, BudgetIsSpentNotExceeded
<1>2. QED BY <1>1, RetryInvariant, PTL

-----------------------------------------------------------------------------
(***************************************************************************)
(* The thinking regime of a client, across its calls                       *)
(***************************************************************************)

\* The capability is known before the first draw of the local client and never
\* again unknown, it is what the model has unless its probe was misread, and the
\* regimes sent so far are the one it stands for.
RegimeInv ==
  /\ capable \in {"unknown", "yes", "no"}
  /\ provider = "ollama" /\ pc \in {"reset", "chat"} => capable # "unknown"
  /\ provider # "ollama" => regimes = {}
  /\ capable = "yes" => thinks
  /\ capable = "no" => ~thinks \/ misread
  /\ regimes \subseteq (IF capable = "unknown" THEN {} ELSE {Think})

\* A failed attempt goes back to its beginning or ends the call.
LEMMA FailGoes ==
  ASSUME NEW code, Fail(code)
  PROVE  pc' \in {FirstStep, "raised"}
BY DEF Fail, GiveUp, DrawAgain, SendAgain

\* A step that leaves the capability alone and reaches no draw.
LEMMA RegimeKept ==
  ASSUME RegimeInv, UNCHANGED <<provider, thinks, capable, misread, regimes>>,
         provider = "ollama" /\ pc' \in {"reset", "chat"} => capable # "unknown"
  PROVE  RegimeInv'
BY DEF RegimeInv, Think

\* A draw is sent with what the capability stands for.
LEMMA SentKeeps ==
  ASSUME RegimeInv, pc = "chat", Sent,
         pc' \in {FirstStep, "raised", "kept"}
  PROVE  RegimeInv'
<1>1. /\ UNCHANGED <<provider, thinks, capable, misread>>
      /\ regimes' = IF provider = "ollama" THEN regimes \cup {Think} ELSE regimes
  BY DEF Sent
<1>2. ~(provider = "ollama" /\ pc' \in {"reset", "chat"})
  BY DEF FirstStep
<1>3. provider = "ollama" => capable # "unknown"
  BY DEF RegimeInv
<1>4. QED BY <1>1, <1>2, <1>3 DEF RegimeInv, Think

LEMMA RegimeStep == RegimeInv /\ [Next]_vars => RegimeInv'
<1> SUFFICES ASSUME RegimeInv, [Next]_vars PROVE RegimeInv'
  OBVIOUS
<1>1. CASE Ask
  <2>1. UNCHANGED <<provider, thinks, capable, misread, regimes>> /\ pc' = FirstStep
    BY <1>1 DEF Ask
  <2>2. QED BY <2>1, RegimeKept DEF FirstStep
<1>2. CASE Probed
  BY <1>2, RegimeKept DEF Probed, lifeVars
<1>3. CASE ProbeAnswers
  <2>1. regimes = {}
    BY <1>3 DEF ProbeAnswers, RegimeInv
  <2>2. QED BY <1>3, <2>1 DEF ProbeAnswers, RegimeInv
<1>4. CASE ProbeMisread
  <2>1. regimes = {}
    BY <1>4 DEF ProbeMisread, RegimeInv
  <2>2. QED BY <1>4, <2>1 DEF ProbeMisread, RegimeInv
<1>5. CASE ProbeFails \/ ResetFails
  <2>1. UNCHANGED <<provider, thinks, capable, misread, regimes>>
        /\ pc' \in {FirstStep, "raised"}
    BY <1>5, FailGoes DEF ProbeFails, ResetFails, lifeVars
  <2>2. QED BY <2>1, RegimeKept DEF FirstStep
<1>6. CASE ResetAnswers
  BY <1>6, RegimeKept DEF ResetAnswers, lifeVars, RegimeInv
<1>7. CASE ChatFails \/ BadDraw
  BY <1>7, FailGoes, SentKeeps DEF ChatFails, BadDraw
<1>8. CASE GoodDraw
  BY <1>8, SentKeeps DEF GoodDraw
<1>9. CASE UNCHANGED vars
  BY <1>9, RegimeKept DEF vars, callVars, lifeVars, RegimeInv
<1>10. QED BY <1>1, <1>2, <1>3, <1>4, <1>5, <1>6, <1>7, <1>8, <1>9 DEF Next

\* However many calls, retries and failed probes a client has, its model plays the
\* whole game in one regime, and thinks if it can and was understood.
THEOREM RegimesAreOne == Spec => []OneRegimePerClient
<1>1. Init => RegimeInv
  BY DEF Init, RegimeInv
<1>2. RegimeInv => OneRegimePerClient
  <2> SUFFICES ASSUME RegimeInv PROVE OneRegimePerClient
    OBVIOUS
  <2>1. Cardinality(regimes) <= 1
    <3>1. regimes = {} \/ regimes = {Think}
      BY DEF RegimeInv
    <3>2. Cardinality({}) = 0 /\ Cardinality({Think}) = 1
      BY FS_EmptySet, FS_Singleton
    <3>3. QED BY <3>1, <3>2
  <2>2. "sent" \in regimes => thinks
    BY DEF RegimeInv, Think
  <2>3. thinks /\ ~misread => "omitted" \notin regimes
    BY DEF RegimeInv, Think
  <2>4. QED BY <2>1, <2>2, <2>3 DEF OneRegimePerClient
<1>3. QED BY <1>1, <1>2, RegimeStep, PTL DEF Spec

-----------------------------------------------------------------------------
(***************************************************************************)
(* Powers of two                                                           *)
(***************************************************************************)

\* Induction, for a set of numbers.
LEMMA SetInduction ==
  ASSUME NEW S, 0 \in S, \A n \in Nat : n \in S => n + 1 \in S
  PROVE  Nat \subseteq S
<1> DEFINE R == OpToRel(<, Nat)
           T == Nat \ S
<1>1. \A x, y \in Nat : x < y => <<x, y>> \in R
  BY DEF OpToRel
<1>2. IsWellFoundedOn(R, Nat)
  BY NatLessThanWellFounded
<1> HIDE DEF R
<1>3. ASSUME T # {} PROVE FALSE
  <2>1. \E x \in T : \A y \in T : ~ (<<y, x>> \in R)
    BY <1>2, <1>3, WFMin
  <2>2. PICK x \in T : \A y \in T : ~ (<<y, x>> \in R)
    BY <2>1
  <2>3. x # 0 /\ x \in Nat
    OBVIOUS
  <2>4. x - 1 \in Nat /\ x - 1 < x /\ (x - 1) + 1 = x
    BY <2>3
  <2>5. x - 1 \in T
    BY <2>2, <2>4
  <2>6. QED BY <1>1, <2>2, <2>3, <2>4, <2>5
<1>4. QED BY <1>3

\* A table of the first powers of two.
IsTable(f, n) == f[0] = 1 /\ \A i \in 0..n - 1 : f[i + 1] = 2 * f[i]

\* The first powers of two, as a table up to n.
LEMMA TableExists == \A n \in Nat : \E f \in [0..n -> Nat] : IsTable(f, n)
<1> DEFINE S == {n \in Nat : \E f \in [0..n -> Nat] : IsTable(f, n)}
<1>1. 0 \in S
  <2>1. [i \in 0..0 |-> 1] \in [0..0 -> Nat] /\ IsTable([i \in 0..0 |-> 1], 0)
    BY DEF IsTable
  <2>2. QED BY <2>1
<1>2. ASSUME NEW n \in Nat, n \in S PROVE n + 1 \in S
  <2>1. PICK f \in [0..n -> Nat] : IsTable(f, n)
    BY <1>2
  <2> DEFINE g == [i \in 0..n + 1 |-> IF i = n + 1 THEN 2 * f[n] ELSE f[i]]
  <2>2. f[n] \in Nat /\ \A i \in 0..n + 1 : i # n + 1 => i \in 0..n /\ f[i] \in Nat
    OBVIOUS
  <2>3. g \in [0..n + 1 -> Nat]
    BY <2>2
  <2>4. /\ g[n + 1] = 2 * f[n]
        /\ \A i \in 0..n : g[i] = f[i]
    OBVIOUS
  <2> HIDE DEF g
  <2>5. IsTable(g, n + 1)
    <3>1. g[0] = 1
      BY <2>1, <2>4 DEF IsTable
    <3>2. ASSUME NEW i \in 0..(n + 1) - 1 PROVE g[i + 1] = 2 * g[i]
      <4>1. CASE i = n
        BY <2>4, <4>1
      <4>2. CASE i \in 0..n - 1
        BY <2>1, <2>4, <4>2 DEF IsTable
      <4>3. QED BY <4>1, <4>2
    <3>3. QED BY <3>1, <3>2 DEF IsTable
  <2>6. QED BY <2>3, <2>5
<1>3. QED
  <2> HIDE DEF S
  <2>1. Nat \subseteq S
    BY <1>1, <1>2, SetInduction
  <2>2. QED BY <2>1 DEF S

\* A longer table starts as a shorter one.
LEMMA TablesAgree ==
  ASSUME NEW n \in Nat, NEW m \in Nat, n <= m,
         NEW f \in [0..n -> Nat], NEW g \in [0..m -> Nat], IsTable(f, n), IsTable(g, m)
  PROVE  \A i \in 0..n : f[i] = g[i]
<1> DEFINE S == {i \in Nat : i <= n => f[i] = g[i]}
<1>1. 0 \in S
  BY DEF IsTable
<1>2. ASSUME NEW i \in Nat, i \in S PROVE i + 1 \in S
  <2>1. CASE i + 1 <= n
    <3>1. i \in 0..n - 1 /\ i \in 0..m - 1 /\ f[i] = g[i]
      BY <1>2, <2>1
    <3>2. f[i + 1] = g[i + 1]
      BY <3>1 DEF IsTable
    <3>3. QED BY <3>2
  <2>2. QED BY <2>1
<1>3. Nat \subseteq S
  <2> HIDE DEF S
  <2>1. QED BY <1>1, <1>2, SetInduction
<1>4. QED BY <1>3

\* The powers of two are a function, each twice the one before.
LEMMA PowersDouble ==
  PowerOfTwo \in [Nat -> Nat] /\ PowerOfTwo[0] = 1 /\ \A n \in Nat : PowerOfTwo[n + 1] = 2 * PowerOfTwo[n]
<1> DEFINE F(n) == CHOOSE f \in [0..n -> Nat] : IsTable(f, n)
           G == [n \in Nat |-> F(n)[n]]
<1>1. \A n \in Nat : F(n) \in [0..n -> Nat] /\ IsTable(F(n), n)
  BY TableExists
<1> HIDE DEF F
<1>2. G \in [Nat -> Nat]
  <2>1. \A n \in Nat : n \in 0..n
    OBVIOUS
  <2>2. QED BY <1>1, <2>1
<1>3. G[0] = 1
  BY <1>1 DEF IsTable
<1>4. ASSUME NEW n \in Nat PROVE G[n + 1] = 2 * G[n]
  <2>1. /\ F(n) \in [0..n -> Nat] /\ IsTable(F(n), n)
        /\ F(n + 1) \in [0..n + 1 -> Nat] /\ IsTable(F(n + 1), n + 1)
    BY <1>1
  <2>2. F(n)[n] = F(n + 1)[n]
    <3> HIDE DEF G
    <3>0. n <= n + 1 /\ n + 1 \in Nat /\ n \in 0..n
      OBVIOUS
    <3>1. QED BY <2>1, <3>0, TablesAgree
  <2>3. F(n + 1)[n + 1] = 2 * F(n + 1)[n]
    BY <2>1 DEF IsTable
  <2>4. QED BY <2>2, <2>3
<1> HIDE DEF G
<1>5. G = [n \in Nat |-> IF n = 0 THEN 1 ELSE 2 * G[n - 1]]
  <2>1. ASSUME NEW n \in Nat PROVE G[n] = IF n = 0 THEN 1 ELSE 2 * G[n - 1]
    <3>1. CASE n = 0
      BY <1>3, <3>1
    <3>2. CASE n # 0
      <4>1. n - 1 \in Nat /\ (n - 1) + 1 = n
        BY <3>2
      <4>2. G[(n - 1) + 1] = 2 * G[n - 1]
        BY <1>4, <4>1
      <4>3. QED BY <3>2, <4>1, <4>2
    <3>3. QED BY <3>1, <3>2
  <2>2. QED BY <1>2, <2>1
<1>6. PowerOfTwo = [n \in Nat |-> IF n = 0 THEN 1 ELSE 2 * PowerOfTwo[n - 1]]
  BY <1>5 DEF PowerOfTwo
<1>7. ASSUME NEW n \in Nat PROVE PowerOfTwo[n] = IF n = 0 THEN 1 ELSE 2 * PowerOfTwo[n - 1]
  BY <1>6
<1>8. PowerOfTwo[0] = 1 /\ \A n \in Nat : PowerOfTwo[n + 1] = 2 * PowerOfTwo[n]
  <2>1. \A n \in Nat : n + 1 # 0 /\ n + 1 \in Nat /\ (n + 1) - 1 = n
    OBVIOUS
  <2>2. QED BY <1>7, <2>1
<1>9. \A n \in Nat : PowerOfTwo[n] \in Nat
  <2> DEFINE S == {n \in Nat : PowerOfTwo[n] \in Nat}
  <2>1. 0 \in S
    BY <1>8
  <2>2. ASSUME NEW n \in Nat, n \in S PROVE n + 1 \in S
    <3>1. PowerOfTwo[n + 1] = 2 * PowerOfTwo[n] /\ PowerOfTwo[n] \in Nat
      BY <1>8, <2>2
    <3>2. QED BY <3>1
  <2>3. Nat \subseteq S
    <3> HIDE DEF S
    <3>1. QED BY <2>1, <2>2, SetInduction
  <2>4. QED BY <2>3
<1>10. PowerOfTwo \in [Nat -> Nat]
  BY <1>6, <1>9
<1>11. QED BY <1>8, <1>10

\* They never decrease.
LEMMA PowersGrow ==
  ASSUME NEW m \in Nat
  PROVE  \A n \in 0..m : PowerOfTwo[n] \in Nat \ {0} /\ PowerOfTwo[n] <= PowerOfTwo[m]
<1> DEFINE S == {k \in Nat : \A n \in 0..k : PowerOfTwo[n] \in Nat \ {0} /\ PowerOfTwo[n] <= PowerOfTwo[k]}
<1>1. 0 \in S
  BY PowersDouble
<1>2. ASSUME NEW k \in Nat, k \in S PROVE k + 1 \in S
  <2>1. /\ PowerOfTwo[k + 1] = 2 * PowerOfTwo[k]
        /\ PowerOfTwo[k] \in Nat \ {0} /\ PowerOfTwo[k + 1] \in Nat \ {0}
    BY <1>2, PowersDouble
  <2>2. ASSUME NEW n \in 0..k + 1
        PROVE  PowerOfTwo[n] \in Nat \ {0} /\ PowerOfTwo[n] <= PowerOfTwo[k + 1]
    <3>1. CASE n = k + 1
      BY <2>1, <3>1
    <3>2. CASE n \in 0..k
      <4>1. PowerOfTwo[n] \in Nat \ {0} /\ PowerOfTwo[n] <= PowerOfTwo[k]
        BY <1>2, <3>2
      <4>2. QED BY <2>1, <4>1
    <3>3. QED BY <3>1, <3>2
  <2>3. QED BY <2>2
<1>3. Nat \subseteq S
  <2> HIDE DEF S
  <2>1. QED BY <1>1, <1>2, SetInduction
<1>4. QED BY <1>3

-----------------------------------------------------------------------------
(***************************************************************************)
(* The shape of the state                                                  *)
(***************************************************************************)

Codes == Retriable \cup Fatal
Stamps == [BadDraws -> 0..MaxRetries]
Results == [is : {"none", "kept", "raised"}, code : Codes \cup {"none"},
            seed : 0..MaxRetries, answer : Answers, stamp : Stamps]

\* What the counters are in any state: the bad draws are some of the retries,
\* and the sleeps are those of as many transient failures at most.
CallTyped ==
  /\ retries \in 0..MaxRetries
  /\ badDraws \in [BadDraws -> Nat]
  /\ seed = Total(badDraws) /\ seed <= retries
  /\ slept \in 0..15 * (PowerOfTwo[retries] - 1)
  /\ attempts \in Seq(Attempt)
  /\ result \in Results

LifeTyped ==
  /\ provider \in {"ollama", "openrouter"} /\ thinks \in BOOLEAN
  /\ capable \in {"unknown", "yes", "no"} /\ misread \in BOOLEAN
  /\ regimes \subseteq {"sent", "omitted"}
  /\ calls \in 0..MaxCalls
  /\ pc \in {"idle", "probe", "reset", "chat", "kept", "raised"}

LEMMA FewDraws ==
  ASSUME NEW b \in [BadDraws -> Nat], Total(b) <= MaxRetries
  PROVE  b \in Stamps /\ Total(b) \in 0..MaxRetries
<1>1. MaxRetries \in Nat
  BY RetriesAssumption
<1>2. \A kind \in BadDraws : b[kind] \in 0..MaxRetries
  BY <1>1 DEF Total, BadDraws
<1>3. QED BY <1>1, <1>2, TotalIsNat DEF Stamps

LEMMA SeedInBudget ==
  ASSUME CallTyped
  PROVE  MaxRetries \in Nat /\ seed \in 0..MaxRetries /\ badDraws \in Stamps
<1>1. MaxRetries \in Nat /\ badDraws \in [BadDraws -> Nat] /\ seed = Total(badDraws)
  BY RetriesAssumption DEF CallTyped
<1>2. Total(badDraws) \in Nat
  BY <1>1, TotalIsNat
<1>3. Total(badDraws) <= MaxRetries
  BY <1>1, <1>2 DEF CallTyped
<1>4. QED BY <1>1, <1>3, FewDraws

LEMMA NothingYet == NoResult \in Results
<1>1. NoDraws \in Stamps /\ MaxRetries \in Nat
  BY RetriesAssumption DEF NoDraws, Stamps
<1>2. {} \in Answers
  BY DEF Answers
<1>3. QED BY <1>1, <1>2 DEF NoResult, Results

\* The next sleep doubles the last, so all of them stay below twice the next.
LEMMA SleepsAddUp ==
  ASSUME NEW n \in Nat, NEW s \in 0..15 * (PowerOfTwo[n] - 1)
  PROVE  /\ s + Backoff(n + 1) \in 0..15 * (PowerOfTwo[n + 1] - 1)
         /\ s \in 0..15 * (PowerOfTwo[n + 1] - 1)
<1>1. PowerOfTwo[n] \in Nat /\ PowerOfTwo[n + 1] = 2 * PowerOfTwo[n]
  BY PowersDouble
<1>2. (n + 1) - 1 = n
  OBVIOUS
<1>3. Backoff(n + 1) = 15 * PowerOfTwo[n]
  BY <1>2 DEF Backoff
<1>4. QED BY <1>1, <1>3

LEMMA FailTyped ==
  ASSUME CallTyped, NEW code \in Codes, Fail(code)
  PROVE  CallTyped'
<1> DEFINE e == [seed |-> seed, outcome |-> code]
<1>1. MaxRetries \in Nat /\ seed \in 0..MaxRetries /\ badDraws \in Stamps
  BY SeedInBudget
<1>2. e \in Attempt
  BY <1>1 DEF Attempt, Codes
<1>3. Append(attempts, e) \in Seq(Attempt)
  BY <1>2 DEF CallTyped
<1>4. CASE GiveUp(code)
  <2>1. /\ attempts' = Append(attempts, e)
        /\ result' = [NoResult EXCEPT !.is = "raised", !.code = code]
        /\ UNCHANGED <<retries, badDraws, seed, slept>>
    BY <1>4 DEF GiveUp, Record
  <2>2. result' \in Results
    BY <2>1, NothingYet DEF Results
  <2>3. QED BY <1>3, <2>1, <2>2 DEF CallTyped
<1>5. CASE DrawAgain(code)
  <2>1. /\ attempts' = Append(attempts, e) /\ code \in BadDraws
        /\ retries' = retries + 1 /\ retries' \in 0..MaxRetries
        /\ badDraws' = [badDraws EXCEPT ![code] = @ + 1]
        /\ seed' = Total(badDraws') /\ UNCHANGED <<slept, result>>
    BY <1>1, <1>5 DEF DrawAgain, Record, RedrawSeed, CallTyped
  <2>2. badDraws' \in [BadDraws -> Nat] /\ seed' = seed + 1
    BY <2>1, TotalOn DEF CallTyped
  <2>3. slept' \in 0..15 * (PowerOfTwo[retries'] - 1)
    BY <2>1, SleepsAddUp DEF CallTyped
  <2>4. seed' <= retries'
    BY <1>1, <2>1, <2>2 DEF CallTyped
  <2>5. QED BY <1>3, <2>1, <2>2, <2>3, <2>4 DEF CallTyped
<1>6. CASE SendAgain(code)
  <2>1. /\ attempts' = Append(attempts, e)
        /\ retries' = retries + 1 /\ retries' \in 0..MaxRetries
        /\ slept' = slept + Backoff(retries + 1)
        /\ UNCHANGED <<badDraws, seed, result>>
    BY <1>1, <1>6 DEF SendAgain, Record, CallTyped
  <2>2. slept' \in 0..15 * (PowerOfTwo[retries'] - 1)
    BY <2>1, SleepsAddUp DEF CallTyped
  <2>3. seed' <= retries'
    BY <1>1, <2>1 DEF CallTyped
  <2>4. QED BY <1>3, <2>1, <2>2, <2>3 DEF CallTyped
<1>7. QED BY <1>4, <1>5, <1>6 DEF Fail

LEMMA GoodTyped ==
  ASSUME CallTyped, GoodDraw
  PROVE  CallTyped'
<1> DEFINE e == [seed |-> seed, outcome |-> "kept"]
<1>1. MaxRetries \in Nat /\ seed \in 0..MaxRetries /\ badDraws \in Stamps
  BY SeedInBudget
<1>2. e \in Attempt
  BY <1>1 DEF Attempt
<1>3. attempts' = Append(attempts, e) /\ attempts' \in Seq(Attempt)
  BY <1>2 DEF CallTyped, GoodDraw, Record
<1>4. result' \in Results
  <2>1. PICK a \in Answers : result' = [is |-> "kept", code |-> "none", seed |-> seed,
                                         answer |-> a, stamp |-> badDraws]
    BY DEF GoodDraw
  <2>2. QED BY <1>1, <2>1 DEF Results
<1>5. UNCHANGED <<retries, badDraws, seed, slept>>
  BY DEF GoodDraw
<1>6. QED BY <1>3, <1>4, <1>5 DEF CallTyped

LEMMA AskTyped ==
  ASSUME retries' = 0, badDraws' = NoDraws, seed' = 0, slept' = 0,
         attempts' = << >>, result' = NoResult
  PROVE  CallTyped'
<1>1. 0 \in 0..15 * (PowerOfTwo[0] - 1) /\ 0 \in 0..MaxRetries
  BY PowersDouble, RetriesAssumption
<1>2. QED BY <1>1, NoDrawsAtAll, NothingYet DEF CallTyped

LEMMA TypedStep == CallTyped /\ LifeTyped /\ [Next]_vars => CallTyped' /\ LifeTyped'
<1> SUFFICES ASSUME CallTyped, LifeTyped, [Next]_vars PROVE CallTyped' /\ LifeTyped'
  OBVIOUS
<1>f. FirstStep \in {"probe", "chat"} /\ MaxCalls \in Nat
  BY RetriesAssumption DEF FirstStep
<1>g. Think \in {"sent", "omitted"}
  BY DEF Think
<1>1. CASE Ask
  BY <1>1, <1>f, AskTyped DEF Ask, LifeTyped
<1>2. CASE Probed \/ ProbeAnswers \/ ProbeMisread \/ ResetAnswers
  <2>1. CallTyped'
    BY <1>2 DEF Probed, ProbeAnswers, ProbeMisread, ResetAnswers, CallTyped
  <2>2. LifeTyped'
    BY <1>2 DEF Probed, ProbeAnswers, ProbeMisread, ResetAnswers, LifeTyped, lifeVars
  <2>3. QED BY <2>1, <2>2
<1>3. CASE ProbeFails \/ ResetFails
  <2>1. PICK code \in Codes : Fail(code)
    BY <1>3, CodesKnown DEF ProbeFails, ResetFails, Codes
  <2>2. pc' \in {"probe", "chat", "raised"}
    BY <1>f, <2>1, FailGoes
  <2>3. UNCHANGED <<provider, thinks, lifeVars>>
    BY <1>3 DEF ProbeFails, ResetFails
  <2>4. QED BY <2>1, <2>2, <2>3, FailTyped DEF LifeTyped, lifeVars
<1>4. CASE ChatFails \/ BadDraw
  <2>1. PICK code \in Codes : Fail(code)
    BY <1>4, CodesKnown DEF ChatFails, BadDraw, Codes
  <2>2. pc' \in {"probe", "chat", "raised"}
    BY <1>f, <2>1, FailGoes
  <2>3. QED BY <1>4, <1>g, <2>1, <2>2, FailTyped DEF ChatFails, BadDraw, Sent, LifeTyped
<1>5. CASE GoodDraw
  <2>1. LifeTyped'
    BY <1>5, <1>g DEF GoodDraw, Sent, LifeTyped
  <2>2. QED BY <1>5, <2>1, GoodTyped
<1>6. CASE UNCHANGED vars
  BY <1>6 DEF vars, callVars, lifeVars, CallTyped, LifeTyped
<1>7. QED BY <1>1, <1>2, <1>3, <1>4, <1>5, <1>6 DEF Next

\* The state has its shape, and with it the bounds of the budget: no counter
\* passes the retries, and a call never sleeps longer than a budget spent on
\* transient failures does.
THEOREM CallsAreTyped == Spec => []TypeOK
<1>1. Init => CallTyped /\ LifeTyped
  <2> SUFFICES ASSUME Init PROVE CallTyped /\ LifeTyped
    OBVIOUS
  <2>1. 0 \in 0..15 * (PowerOfTwo[0] - 1) /\ 0 \in 0..MaxRetries /\ 0 \in 0..MaxCalls
    BY PowersDouble, RetriesAssumption
  <2>2. CallTyped
    BY <2>1, NoDrawsAtAll, NothingYet DEF Init, CallTyped
  <2>3. QED BY <2>1, <2>2 DEF Init, LifeTyped
<1>2. CallTyped /\ LifeTyped => TypeOK
  <2> SUFFICES ASSUME CallTyped, LifeTyped PROVE TypeOK
    OBVIOUS
  <2>1. MaxRetries \in Nat /\ seed \in 0..MaxRetries /\ badDraws \in Stamps
    BY SeedInBudget
  <2>2. slept \in 0..15 * (PowerOfTwo[MaxRetries] - 1)
    <3>1. slept \in 0..15 * (PowerOfTwo[retries] - 1) /\ retries \in 0..MaxRetries
      BY DEF CallTyped
    <3>2. /\ PowerOfTwo[MaxRetries] \in Nat /\ PowerOfTwo[retries] \in Nat
          /\ PowerOfTwo[retries] <= PowerOfTwo[MaxRetries]
      BY <2>1, <3>1, PowersGrow, PowersDouble
    <3>3. QED BY <3>1, <3>2
  <2>3. attempts \in Seq(Attempt) /\ result \in Results /\ retries \in 0..MaxRetries
    BY DEF CallTyped
  <2>4. QED BY <2>1, <2>2, <2>3 DEF TypeOK, LifeTyped, Results, Stamps, Codes
<1>3. QED BY <1>1, <1>2, TypedStep, PTL DEF Spec
=============================================================================
