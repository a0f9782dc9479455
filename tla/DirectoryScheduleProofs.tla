----------------------- MODULE DirectoryScheduleProofs -----------------------
(***************************************************************************)
(* The times of DirectorySchedule, for any schedulers and commands, any    *)
(* clock, any delays and any number of failures, restarts and edits.       *)
(*                                                                         *)
(* The backoff doubles with every failure.  That it never falls below its  *)
(* first value is proved by induction on the number of failures, which     *)
(* here takes the form of a least counterexample (Least).                  *)
(*                                                                         *)
(* What the properties need of the state: whoever sends a request holds    *)
(* the lease (LeaseInv), so that nobody else writes the record meanwhile;  *)
(* a wait that a failure asked for is in the record (WaitInv).  Where the  *)
(* record holds the profile of the file, and the operator did not return   *)
(* to it past an unrecorded registration (Agrees), a request that is being *)
(* sent carries this profile (SentInv), so that a request given up by its  *)
(* sender leaves the directory with no other (ListedInv); and the relay is *)
(* listed for as long as the record says it is (PresentInv).               *)
(***************************************************************************)
EXTENDS DirectorySchedule, WellFoundedInduction, TLAPS

-----------------------------------------------------------------------------
(* Delays                                                                  *)

\* A set of numbers that is not empty has a least one.
LEMMA Least ==
    ASSUME NEW T, T \subseteq Nat, T # {}
    PROVE  \E x \in T : \A y \in T : ~(y < x)
<1>1. IsWellFoundedOn({ss \in Nat \X Nat : ss[1] < ss[2]}, Nat)
  BY NatLessThanWellFounded DEF OpToRel
<1>2. \E x \in T : \A y \in T : ~(<<y, x>> \in {ss \in Nat \X Nat : ss[1] < ss[2]})
  BY <1>1, WFMin, ZenonT(30)
<1>3. QED
  BY <1>2, ZenonT(30)

\* The recursion of shifted has a solution.
LEMMA ShiftedExists ==
    \A m \in Nat : \E f : f = [n \in 0 .. m |-> IF n = 0 THEN InitialRetry ELSE 2 * f[n - 1]]
<1> DEFINE Solves(f, m) == f = [n \in 0 .. m |-> IF n = 0 THEN InitialRetry ELSE 2 * f[n - 1]]
           T == {m \in Nat : ~\E f : Solves(f, m)}
<1>1. SUFFICES ASSUME T # {} PROVE FALSE
  BY Zenon
<1>2. PICK m \in T : \A y \in T : ~(y < m)
  BY <1>1, Least, ZenonT(30)
<1>3. CASE m = 0
  <2> DEFINE f == [n \in 0 .. 0 |-> InitialRetry]
  <2>1. Solves(f, 0)
    OBVIOUS
  <2>2. QED
    BY <1>3, <2>1, ZenonT(30)
<1>4. CASE m # 0
  <2>a. m \in Nat
    BY Zenon
  <2>b. m - 1 \in Nat /\ m - 1 < m
    BY <1>4, <2>a
  <2>1. m \in Nat /\ m - 1 \in Nat /\ m - 1 \notin T
    BY <1>2, <2>a, <2>b, Zenon
  <2>2. PICK g : Solves(g, m - 1)
    BY <2>1
  <2> DEFINE f == [n \in 0 .. m |-> IF n = m THEN 2 * g[m - 1] ELSE g[n]]
  <2>3. ASSUME NEW n \in 0 .. m
        PROVE  f[n] = IF n = 0 THEN InitialRetry ELSE 2 * f[n - 1]
    <3>1. CASE n = m
      BY <2>1, <3>1, <1>4
    <3>2. CASE n # m
      <4>1. n \in 0 .. m - 1 /\ (n # 0 => n - 1 \in 0 .. m - 1 /\ n - 1 # m)
        BY <2>1, <3>2
      <4>2. f[n] = g[n] /\ (n # 0 => f[n - 1] = g[n - 1])
        BY <2>1, <3>2, <4>1
      <4>3. g[n] = IF n = 0 THEN InitialRetry ELSE 2 * g[n - 1]
        BY <2>2, <4>1
      <4>4. QED
        BY <4>2, <4>3
    <3>3. QED
      BY <3>1, <3>2
  <2>4. Solves(f, m)
    BY <2>3
  <2>5. QED
    BY <2>1, <2>4, ZenonT(30)
<1>5. QED
  BY <1>3, <1>4

\* So shifted satisfies its recursion (initialRetry << n).
LEMMA ShiftedRecursion ==
    \A n \in 0 .. MaximumAttempt : shifted[n] = IF n = 0 THEN InitialRetry ELSE 2 * shifted[n - 1]
<1>1. \E f : f = [n \in 0 .. MaximumAttempt |-> IF n = 0 THEN InitialRetry ELSE 2 * f[n - 1]]
  BY ShiftedExists, ScheduleAssumption, ZenonT(30)
<1>2. shifted = [n \in 0 .. MaximumAttempt |-> IF n = 0 THEN InitialRetry ELSE 2 * shifted[n - 1]]
  BY <1>1, ZenonT(30) DEF shifted
<1>3. QED
  BY <1>2, ZenonT(30)

\* The backoff never falls below its first value.
LEMMA ShiftedGrows ==
    \A n \in 0 .. MaximumAttempt : shifted[n] \in Nat /\ shifted[n] >= InitialRetry
<1> DEFINE T == {n \in 0 .. MaximumAttempt : ~(shifted[n] \in Nat /\ shifted[n] >= InitialRetry)}
<1>1. SUFFICES ASSUME T # {} PROVE FALSE
  OBVIOUS
<1>a. T \subseteq Nat
  BY ScheduleAssumption
<1>2. PICK n \in T : \A y \in T : ~(y < n)
  BY <1>1, <1>a, Least, Zenon
<1>3. InitialRetry \in Nat /\ MaximumAttempt \in Nat /\ n \in 0 .. MaximumAttempt
  BY ScheduleAssumption
<1>4. CASE n = 0
  BY <1>3, <1>4, ShiftedRecursion
<1>5. CASE n # 0
  <2>1. n - 1 \in 0 .. MaximumAttempt /\ n - 1 < n
    BY <1>3, <1>5
  <2>2. shifted[n - 1] \in Nat /\ shifted[n - 1] >= InitialRetry
    BY <1>2, <2>1
  <2>3. shifted[n] = 2 * shifted[n - 1]
    BY <1>3, <1>5, ShiftedRecursion
  <2>4. QED
    BY <1>3, <2>2, <2>3
<1>6. QED
  BY <1>4, <1>5

\* The smaller of two numbers.
LEMMA MinOfTwo ==
    ASSUME NEW a \in Nat, NEW b \in Nat
    PROVE  Min({a, b}) \in {a, b} /\ Min({a, b}) <= a /\ Min({a, b}) <= b
  BY DEF Min

\* The larger of two numbers.
LEMMA MaxOfTwo ==
    ASSUME NEW a \in Nat, NEW b \in Nat
    PROVE  Max({a, b}) \in {a, b} /\ Max({a, b}) >= a /\ Max({a, b}) >= b
  BY DEF Max

\* The largest of three numbers.
LEMMA MaxOfThree ==
    ASSUME NEW a \in Nat, NEW b \in Nat, NEW c \in Nat
    PROVE  /\ Max({a, b, c}) \in {a, b, c}
           /\ Max({a, b, c}) >= a /\ Max({a, b, c}) >= b /\ Max({a, b, c}) >= c
  BY DEF Max
-----------------------------------------------------------------------------
\* The record, with the fields the properties speak of.
Record == [registered : BOOLEAN, success : Nat, next : Nat, outcome : Outcome,
           attempt : 0 .. MaximumAttempt, observed : Nat, digest : Nat]

\* What the steps need of the types.
Typed ==
    /\ clock \in Nat \ {0} /\ profile \in Nat \ {0} /\ remote \in Nat /\ notBefore \in Nat
    /\ reverted \in BOOLEAN
    /\ store \in Record
    /\ lastNow \in [Scheduler -> Nat]
    /\ DOMAIN pc = Actor /\ DOMAIN request = Actor

\* Whoever is sending a request holds the lease.
LeaseInv == \A a \in Actor : pc[a] = "request" => lease = a

\* While a wait after a failure lasts, the record says so.
WaitInv == notBefore = 0 \/ (store.outcome \in Failed /\ store.next >= notBefore)

\* While an unregister command is sending, the record is suppressed.
SuppressedInv ==
    \A u \in Unregister : pc[u] = "request" => notBefore = 0 /\ store.outcome = "disabled"

\* The record holds the profile of the file, and not because the operator
\* returned to it past a registration that was not recorded.
Agrees == store.digest = profile /\ ~reverted

\* A request that is being sent then carries this profile.
SentInv ==
    \A a \in Scheduler \cup Command : pc[a] = "request" =>
        /\ request[a].profile \in Nat \ {0}
        /\ Agrees => request[a].profile = profile

\* And the directory has no other.
ListedInv == Agrees => remote \in {0, profile}

\* Where the record says that the last operation succeeded the relay is listed.
PresentInv == store.outcome \in {"registered", "heartbeat"} => remote # 0

\* The inductive invariant.
Inv ==
    /\ Typed /\ LeaseInv /\ DeadlineAhead /\ WaitInv /\ SuppressedInv
    /\ SentInv /\ ListedInv /\ PresentInv
-----------------------------------------------------------------------------
\* The delay after a failure is at least the first backoff and what the
\* directory asked for, and at most a day.
LEMMA Delay ==
    ASSUME NEW attempt \in 1 .. MaximumAttempt, NEW retryAfter \in Nat
    PROVE  /\ effectiveDelay(attempt, retryAfter) \in Nat
           /\ effectiveDelay(attempt, retryAfter) <= MaximumRetryAfter
           /\ effectiveDelay(attempt, retryAfter) >= InitialRetry
           /\ effectiveDelay(attempt, retryAfter) >= Max({InitialRetry, Min({retryAfter, MaximumRetryAfter})})
<1>0. /\ InitialRetry \in Nat /\ MaximumLocalRetry \in Nat /\ MaximumRetryAfter \in Nat
      /\ InitialRetry <= MaximumLocalRetry /\ MaximumLocalRetry <= MaximumRetryAfter
      /\ MaximumAttempt \in Nat /\ RetryHash[attempt] \in Nat
  BY ScheduleAssumption
<1> DEFINE first == shifted[attempt - 1]
           base  == Min({first, MaximumLocalRetry})
           extra == RetryHash[attempt] % (base \div 5 + 1)
           local == retryDelay(attempt)
           wish  == Max({local, retryAfter})
<1>1. first \in Nat /\ first >= InitialRetry
  BY <1>0, ShiftedGrows
<1>2. base \in Nat /\ base >= InitialRetry
  <2> HIDE DEF first
  <2>1. base \in {first, MaximumLocalRetry}
    BY <1>0, <1>1, MinOfTwo, Zenon
  <2>2. QED
    BY <1>0, <1>1, <2>1
<1>3. extra \in Nat
  <2> HIDE DEF base
  <2>1. base \div 5 + 1 \in Nat \ {0}
    BY <1>2
  <2>2. QED
    BY <1>0, <2>1
<1>4. local \in Nat /\ local >= InitialRetry
  <2>1. local = Min({base + extra, MaximumLocalRetry})
    BY Zenon DEF retryDelay
  <2> HIDE DEF base, extra, local
  <2>2. base + extra \in Nat /\ base + extra >= InitialRetry
    BY <1>0, <1>2, <1>3
  <2>3. local \in {base + extra, MaximumLocalRetry}
    BY <1>0, <2>1, <2>2, MinOfTwo, Zenon
  <2>4. QED
    BY <1>0, <2>2, <2>3
<1> HIDE DEF local
<1>5. wish \in Nat /\ wish >= local /\ wish >= retryAfter
  <2>1. wish \in {local, retryAfter} /\ wish >= local /\ wish >= retryAfter
    BY <1>4, MaxOfTwo, Zenon
  <2>2. QED
    BY <1>4, <2>1, Zenon
<1>6. effectiveDelay(attempt, retryAfter) = Min({wish, MaximumRetryAfter})
  BY Zenon DEF effectiveDelay, local
<1> HIDE DEF wish
<1>7. /\ Min({wish, MaximumRetryAfter}) \in {wish, MaximumRetryAfter}
      /\ Min({wish, MaximumRetryAfter}) <= MaximumRetryAfter
  BY <1>0, <1>5, MinOfTwo, Zenon
<1>8. /\ Min({retryAfter, MaximumRetryAfter}) \in Nat
      /\ Min({retryAfter, MaximumRetryAfter}) <= retryAfter
      /\ Min({retryAfter, MaximumRetryAfter}) <= MaximumRetryAfter
  <2>1. Min({retryAfter, MaximumRetryAfter}) \in {retryAfter, MaximumRetryAfter}
    BY <1>0, MinOfTwo, Zenon
  <2>2. QED
    BY <1>0, <2>1, MinOfTwo, Zenon
<1>9. Max({InitialRetry, Min({retryAfter, MaximumRetryAfter})})
         \in {InitialRetry, Min({retryAfter, MaximumRetryAfter})}
  BY <1>0, <1>8, MaxOfTwo, Zenon
<1>10. QED
  BY <1>0, <1>4, <1>5, <1>6, <1>7, <1>8, <1>9

\* The scheduler's clock is never behind the record.
LEMMA Now ==
    ASSUME Typed, NEW s \in Scheduler
    PROVE  /\ monotonicNow(s, store.observed) \in Nat \ {0}
           /\ monotonicNow(s, store.observed) >= store.observed
<1>1. clock \in Nat \ {0} /\ lastNow[s] \in Nat /\ store.observed \in Nat
  BY DEF Typed, Record
<1>2. QED
  <2> DEFINE now == Max({clock, lastNow[s], store.observed})
  <2>1. now \in {clock, lastNow[s], store.observed} /\ now >= clock /\ now >= store.observed
    BY <1>1, MaxOfThree, Zenon
  <2>2. now = monotonicNow(s, store.observed)
    BY Zenon DEF monotonicNow
  <2> HIDE DEF now
  <2>3. now \in Nat \ {0}
    BY <1>1, <2>1
  <2>4. QED
    BY <2>1, <2>2, <2>3, Zenon

\* The deadline of a record, as DeadlineAhead states it.
Ahead(state) ==
    state.next # 0 =>
        /\ state.next >= state.observed + InitialRetry
        /\ state.next <= state.observed + Interval + StableJitter

\* A heartbeat is at least an interval and at most an interval with its jitter
\* away (NextHeartbeatAttempt).
LEMMA Heartbeat ==
    ASSUME NEW now \in Nat \ {0}
    PROVE  /\ NextHeartbeatAttempt(now) \in Nat
           /\ NextHeartbeatAttempt(now) >= now + Interval
           /\ NextHeartbeatAttempt(now) >= now + InitialRetry
           /\ NextHeartbeatAttempt(now) <= now + Interval + StableJitter
<1>1. Interval \in Nat /\ StableJitter \in Nat /\ InitialRetry \in Nat /\ InitialRetry <= Interval
  BY ScheduleAssumption
<1>2. NextHeartbeatAttempt(now) = now + Interval + StableJitter
  BY Zenon DEF NextHeartbeatAttempt
<1>3. QED
  BY <1>1, <1>2

\* What a failure leaves in the record.
Fails ==
    /\ store' \in Record /\ store'.digest = store.digest /\ store'.outcome \in Failed
    /\ store'.observed >= store.observed /\ Ahead(store')
    /\ notBefore' \in Nat /\ store'.next >= notBefore'

\* What a request that succeeded leaves in it.
Succeeds(digest) ==
    /\ store' \in Record /\ store'.digest = digest
    /\ store'.observed >= store.observed /\ Ahead(store')
    /\ notBefore' = 0

\* What unregister leaves in it.
Suppresses ==
    /\ store' \in Record /\ store'.digest = store.digest /\ store'.outcome = "disabled"
    /\ Ahead(store')
    /\ notBefore' = 0

\* Fail (applyFailure and the save) does this.
LEMMA FailStep ==
    ASSUME Typed, NEW s \in Scheduler, NEW retried \in BOOLEAN, NEW retryAfter \in Nat,
           Fail(s, monotonicNow(s, store.observed), retried, retryAfter)
    PROVE  Fails
<1> DEFINE now == monotonicNow(s, store.observed)
           attempt == Min({store.attempt + 1, MaximumAttempt})
           delay == effectiveDelay(attempt, retryAfter)
           least == Max({InitialRetry, Min({retryAfter, MaximumRetryAfter})})
<1>1. now \in Nat \ {0} /\ now >= store.observed /\ store.observed \in Nat
  BY Now DEF Typed, Record
<1>2. attempt \in 1 .. MaximumAttempt
  <2>1. store.attempt + 1 \in Nat /\ store.attempt + 1 >= 1 /\ MaximumAttempt \in Nat /\ MaximumAttempt >= 1
    <3>1. store.attempt \in 0 .. MaximumAttempt
      BY DEF Typed, Record
    <3>2. MaximumAttempt \in Nat \ {0}
      BY ScheduleAssumption, Zenon
    <3>3. QED
      BY <3>1, <3>2
  <2>2. attempt \in {store.attempt + 1, MaximumAttempt} /\ attempt <= MaximumAttempt
    BY <2>1, MinOfTwo, Zenon
  <2> HIDE DEF attempt
  <2>3. QED
    BY <2>1, <2>2
<1>3. store' = IF retried
               THEN [store EXCEPT !.observed = now, !.outcome = "retrying", !.attempt = attempt,
                                  !.next = now + delay]
               ELSE [store EXCEPT !.observed = now, !.outcome = "refused", !.attempt = 0,
                                  !.next = NextHeartbeatAttempt(now)]
  BY Zenon DEF Fail, applyFailure
<1>4. notBefore' = now + (IF retried THEN least ELSE Interval)
  BY Zenon DEF Fail
<1>5. /\ delay \in Nat /\ delay <= MaximumRetryAfter /\ delay >= InitialRetry /\ delay >= least
  <2> HIDE DEF attempt
  <2>1. QED
    BY <1>2, Delay
<1>6. least \in Nat /\ {InitialRetry, Interval, StableJitter, MaximumRetryAfter} \subseteq Nat /\ MaximumRetryAfter <= Interval
  <2>1. {InitialRetry, Interval, StableJitter, MaximumRetryAfter} \subseteq Nat /\ MaximumRetryAfter <= Interval
    BY ScheduleAssumption
  <2>2. Min({retryAfter, MaximumRetryAfter}) \in {retryAfter, MaximumRetryAfter}
    BY <2>1, MinOfTwo, Zenon
  <2>3. Min({retryAfter, MaximumRetryAfter}) \in Nat
    BY <2>1, <2>2, Zenon
  <2>4. least \in {InitialRetry, Min({retryAfter, MaximumRetryAfter})}
    BY <2>1, <2>3, MaxOfTwo, Zenon
  <2>5. QED
    BY <2>1, <2>3, <2>4, Zenon
<1> HIDE DEF now, attempt, delay, least
<1>7. CASE retried
  <2>1. /\ store'.observed = now /\ store'.outcome = "retrying" /\ store'.attempt = attempt
        /\ store'.next = now + delay /\ store'.digest = store.digest
        /\ store' = [registered |-> store.registered, success |-> store.success, next |-> now + delay,
                     outcome |-> "retrying", attempt |-> attempt, observed |-> now, digest |-> store.digest]
    BY <1>3, <1>7, ZenonT(30) DEF Typed, Record
  <2>2. now + delay \in Nat /\ attempt \in 0 .. MaximumAttempt
    BY <1>1, <1>2, <1>5
  <2>3. store' \in Record
    BY <1>1, <2>1, <2>2 DEF Typed, Record, Outcome, Failed
  <2>4. Ahead(store')
    BY <1>1, <1>5, <1>6, <2>1 DEF Ahead
  <2>5. notBefore' \in Nat /\ store'.next >= notBefore'
    BY <1>1, <1>4, <1>5, <1>6, <1>7, <2>1
  <2>6. QED
    BY <1>1, <2>1, <2>3, <2>4, <2>5 DEF Fails, Failed
<1>8. CASE ~retried
  <2>1. /\ store'.observed = now /\ store'.outcome = "refused" /\ store'.attempt = 0
        /\ store'.next = NextHeartbeatAttempt(now) /\ store'.digest = store.digest
        /\ store' = [registered |-> store.registered, success |-> store.success,
                     next |-> NextHeartbeatAttempt(now), outcome |-> "refused", attempt |-> 0,
                     observed |-> now, digest |-> store.digest]
    BY <1>3, <1>8, ZenonT(30) DEF Typed, Record
  <2>2. 0 \in 0 .. MaximumAttempt
    BY ScheduleAssumption
  <2>3. store' \in Record
    BY <1>1, <2>1, <2>2, Heartbeat DEF Typed, Record, Outcome, Failed
  <2>4. Ahead(store')
    BY <1>1, <2>1, Heartbeat DEF Ahead
  <2>5. notBefore' \in Nat /\ store'.next >= notBefore'
    BY <1>1, <1>4, <1>6, <1>8, <2>1, Heartbeat
  <2>6. QED
    BY <1>1, <2>1, <2>3, <2>4, <2>5 DEF Fails, Failed
<1>9. QED
  BY <1>7, <1>8

\* A recorded success (runDirectory, lifecycleCommand) does that.
LEMMA SuccessStep ==
    ASSUME Typed, NEW now \in Nat \ {0}, now >= store.observed,
           NEW operation \in {"register", "heartbeat"}, NEW sent \in Nat,
           store' = succeeded(store, now, operation, sent), notBefore' = 0
    PROVE  Succeeds(IF operation = "register" THEN sent ELSE store.digest)
<1>1. /\ store' = [registered |-> TRUE, success |-> now, next |-> NextHeartbeatAttempt(now),
                   outcome |-> IF operation = "register" THEN "registered" ELSE "heartbeat",
                   attempt |-> 0, observed |-> now,
                   digest |-> IF operation = "register" THEN sent ELSE store.digest]
  BY ZenonT(30) DEF succeeded, Typed, Record
<1>2. 0 \in 0 .. MaximumAttempt
  BY ScheduleAssumption
<1>3. store' \in Record
  BY <1>1, <1>2, Heartbeat DEF Typed, Record, Outcome, Reconciled
<1>4. Ahead(store')
  BY <1>1, Heartbeat DEF Ahead
<1>5. QED
  BY <1>1, <1>3, <1>4 DEF Succeeds

\* What unregisterCommand saves does this.
LEMMA SuppressStep ==
    ASSUME Typed, NEW registered \in BOOLEAN, store' = Suppressed(registered), notBefore' = 0
    PROVE  Suppresses
<1>1. /\ store' = [registered |-> registered, success |-> store.success, next |-> 0,
                   outcome |-> "disabled", attempt |-> store.attempt, observed |-> clock,
                   digest |-> store.digest]
  BY ZenonT(30) DEF Suppressed, Typed, Record
<1>2. store' \in Record
  BY <1>1 DEF Typed, Record, Outcome
<1>3. QED
  BY <1>1, <1>2 DEF Suppresses, Ahead
-----------------------------------------------------------------------------
(* The steps                                                               *)

\* Nobody is sending a request.
Quiet == \A a \in Actor : pc[a] # "request"

\* An actor that gives up the lease leaves the others alone, and if it was the
\* one that sent a request, nobody sends one now.
LEMMA Released ==
    ASSUME Typed, LeaseInv, NEW a \in Actor, NEW to \in {"idle", "off"}, Release(a, to)
    PROVE  /\ DOMAIN pc' = Actor /\ DOMAIN request' = Actor
           /\ LeaseInv'
           /\ \A b \in Actor : pc'[b] = "request" =>
                 b # a /\ pc[b] = "request" /\ request'[b] = request[b]
           /\ pc[a] = "request" \/ lease = NoOne => Quiet'
<1>1. /\ DOMAIN pc' = Actor /\ DOMAIN request' = Actor
      /\ pc'[a] # "request" /\ \A b \in Actor \ {a} : pc'[b] = pc[b] /\ request'[b] = request[b]
      /\ lease # a => lease' = lease
  BY Zenon DEF Release, Typed
<1>2. NoOne \notin Actor
  BY ScheduleAssumption, Zenon
<1>3. QED
  BY <1>1, <1>2, Zenon DEF LeaseInv, Quiet

\* What the directory may have done does not contradict the record.
LEMMA Reached ==
    ASSUME Typed, SentInv, ListedInv, NEW a \in Scheduler \cup Command, MayHaveReached(a)
    PROVE  /\ remote' \in Nat
           /\ Agrees => remote' \in {0, profile}
           /\ remote # 0 => remote' # 0
<1>1. remote' = remote \/ (pc[a] = "request" /\ remote' = request[a].profile)
  BY Zenon DEF MayHaveReached
<1>2. CASE remote' = remote
  BY <1>2, Zenon DEF Typed, ListedInv
<1>3. CASE pc[a] = "request" /\ remote' = request[a].profile
  <2>1. /\ request[a].profile \in Nat /\ request[a].profile # 0
        /\ Agrees => request[a].profile = profile
    BY <1>3, Zenon DEF SentInv
  <2>2. QED
    BY <1>3, <2>1, Zenon
<1>4. QED
  BY <1>1, <1>2, <1>3, Zenon

\* What a request that succeeded leaves at the directory.
LEMMA Confirmed ==
    ASSUME Typed, SentInv, ListedInv, NEW a \in Scheduler \cup Command, pc[a] = "request",
           NEW operation \in {"register", "heartbeat"}, Confirms(a, operation),
           reverted' = (reverted /\ operation # "register"),
           NEW digest, digest = IF operation = "register" THEN request[a].profile ELSE store.digest
    PROVE  /\ remote' \in Nat /\ remote' # 0 /\ digest \in Nat
           /\ reverted' \in BOOLEAN
           /\ digest = profile /\ ~reverted' => remote' = profile
<1>1. /\ request[a].profile \in Nat /\ request[a].profile # 0
      /\ Agrees => request[a].profile = profile
  BY Zenon DEF SentInv
<1>2. store.digest \in Nat /\ remote \in Nat /\ reverted \in BOOLEAN
  BY DEF Typed, Record
<1>3. CASE operation = "register"
  <2>1. remote' = request[a].profile /\ digest = request[a].profile /\ reverted' = FALSE
    BY <1>3, Zenon DEF Confirms
  <2>2. QED
    BY <1>1, <2>1, Zenon
<1>4. CASE operation = "heartbeat"
  <2>1. operation # "register" /\ digest = store.digest
    BY <1>4, Zenon
  <2>2. reverted' = reverted
    BY <1>2, <2>1, Zenon
  <2>3. remote' = request[a].profile \/ (remote # 0 /\ remote' = remote)
    BY <2>1, Zenon DEF Confirms
  <2>4. QED
    BY <1>1, <1>2, <2>1, <2>2, <2>3, Zenon DEF ListedInv, Agrees
<1>5. QED
  BY <1>3, <1>4, Zenon

\* A recorded failure of the one who sent a request keeps the invariant, ...
LEMMA QuietFails ==
    ASSUME Inv, Fails, Quiet', profile' = profile, reverted' = reverted, remote' \in Nat,
           clock' = clock, Agrees => remote' \in {0, profile},
           lastNow' \in [Scheduler -> Nat], DOMAIN pc' = Actor, DOMAIN request' = Actor
    PROVE  Inv'
<1>1. Typed' /\ LeaseInv' /\ SuppressedInv'
  BY Zenon DEF Inv, Typed, Fails, Quiet, LeaseInv, SuppressedInv, Actor
<1>2. DeadlineAhead' /\ WaitInv'
  BY Zenon DEF Fails, Ahead, DeadlineAhead, WaitInv
<1>3. SentInv' /\ ListedInv'
  BY Zenon DEF Fails, Quiet, SentInv, ListedInv, Agrees, Actor
<1>4. PresentInv'
  BY Zenon DEF Fails, Failed, PresentInv
<1>5. QED
  BY <1>1, <1>2, <1>3, <1>4, Zenon DEF Inv

\* ... and so does a recorded success.
LEMMA QuietSucceeds ==
    ASSUME Inv, NEW digest, Succeeds(digest), Quiet', profile' = profile, reverted' \in BOOLEAN,
           remote' \in Nat, remote' # 0, clock' = clock,
           digest = profile /\ ~reverted' => remote' = profile,
           lastNow' \in [Scheduler -> Nat], DOMAIN pc' = Actor, DOMAIN request' = Actor
    PROVE  Inv'
<1>0. 0 \in Nat
  OBVIOUS
<1>1. Typed' /\ LeaseInv' /\ SuppressedInv'
  BY <1>0, Zenon DEF Inv, Typed, Succeeds, Quiet, LeaseInv, SuppressedInv, Actor
<1>2. DeadlineAhead' /\ WaitInv'
  BY Zenon DEF Succeeds, Ahead, DeadlineAhead, WaitInv
<1>3. SentInv' /\ ListedInv' /\ PresentInv'
  BY Zenon DEF Succeeds, Quiet, SentInv, ListedInv, PresentInv, Agrees, Actor
<1>5. QED
  BY <1>1, <1>2, <1>3, Zenon DEF Inv

\* A step that writes nothing into the record and moves nobody to a request.
LEMMA RecordKept ==
    ASSUME Inv, store' = store, notBefore' = notBefore, profile' = profile, reverted' = reverted,
           clock' \in Nat \ {0}, remote' \in Nat,
           Agrees => remote' \in {0, profile}, remote # 0 => remote' # 0,
           lastNow' \in [Scheduler -> Nat], DOMAIN pc' = Actor, DOMAIN request' = Actor,
           LeaseInv',
           \A b \in Actor : pc'[b] = "request" => pc[b] = "request" /\ request'[b] = request[b]
    PROVE  Inv'
<1>1. Typed' /\ DeadlineAhead' /\ WaitInv'
  BY Zenon DEF Inv, Typed, DeadlineAhead, WaitInv
<1>2. SuppressedInv' /\ SentInv'
  BY Zenon DEF Inv, SuppressedInv, SentInv, Agrees, Actor
<1>3. ListedInv' /\ PresentInv'
  BY Zenon DEF Inv, ListedInv, PresentInv, Agrees
<1>4. QED
  BY <1>1, <1>2, <1>3, Zenon DEF Inv

\* What the steps need of the clocks.
LEMMA Clocks ==
    ASSUME Typed, NEW s \in Scheduler, NEW now \in Nat, lastNow' = [lastNow EXCEPT ![s] = now]
    PROVE  lastNow' \in [Scheduler -> Nat]
  BY Zenon DEF Typed

\* runDirectory from Acquire to the request.
LEMMA ClaimStep ==
    ASSUME Inv, NEW s \in Scheduler, Claim(s)
    PROVE  Inv'
<1> DEFINE now == monotonicNow(s, store.observed)
<1>1. /\ pc[s] = "acquire" /\ clock' = clock /\ profile' = profile /\ remote' = remote
      /\ enabled' = enabled /\ reverted' = reverted
  BY Zenon DEF Claim
<1>2. s \in Actor /\ Typed /\ LeaseInv
  BY Zenon DEF Actor, Inv
<1>3. /\ clock' \in Nat \ {0} /\ remote' \in Nat
      /\ Agrees => remote' \in {0, profile}
  BY <1>1, Zenon DEF Inv, Typed, ListedInv
<1>4. CASE Release(s, "idle") /\ UNCHANGED <<lastNow, store, notBefore>>
  BY <1>1, <1>2, <1>3, <1>4, Released, RecordKept, Zenon DEF Inv, Typed
<1>5. CASE lease = NoOne /\ lastNow' = [lastNow EXCEPT ![s] = now]
  <2>1. lastNow' \in [Scheduler -> Nat]
    BY <1>2, <1>5, Now, Clocks, Zenon
  <2>2. CASE Release(s, "idle") /\ UNCHANGED <<store, notBefore>>
    BY <1>1, <1>2, <1>3, <2>1, <2>2, Released, RecordKept, Zenon
  <2>3. CASE Fail(s, now, FALSE, 0) /\ Release(s, "idle")
    <3>1. FALSE \in BOOLEAN /\ 0 \in Nat
      OBVIOUS
    <3>2. Fails
      BY <1>2, <2>3, <3>1, FailStep, Zenon
    <3>3. QED
      BY <1>1, <1>2, <1>3, <1>5, <2>1, <2>3, <3>2, Released, QuietFails, Zenon
  <2>4. CASE /\ lease' = s
             /\ pc' = [pc EXCEPT ![s] = "request"]
             /\ request' = [request EXCEPT ![s] =
                   [kind |-> IF store.registered /\ ~profileChanged THEN "heartbeat" ELSE "register",
                    profile |-> profile]]
             /\ UNCHANGED <<store, notBefore>>
    <3>1. /\ DOMAIN pc' = Actor /\ DOMAIN request' = Actor
          /\ pc'[s] = "request" /\ \A b \in Actor \ {s} : pc'[b] = pc[b]
          /\ request'[s].profile = profile
      BY <1>2, <2>4 DEF Typed
    <3>2. \A b \in Actor : pc'[b] = "request" => b = s
      <4>1. NoOne \notin Actor
        BY ScheduleAssumption, Zenon
      <4>2. QED
        BY <1>2, <1>5, <3>1, <4>1, Zenon DEF LeaseInv
    <3>3. Typed' /\ LeaseInv'
      BY <1>1, <1>2, <1>3, <2>1, <2>4, <3>1, <3>2, Zenon DEF Typed, LeaseInv
    <3>4. SuppressedInv'
      <4>1. s \notin Unregister
        BY ScheduleAssumption, Zenon
      <4>2. QED
        BY <3>2, <4>1, Zenon DEF SuppressedInv, Actor
    <3>5. SentInv'
      <4>1. profile \in Nat \ {0}
        BY Zenon DEF Inv, Typed
      <4>2. QED
        BY <1>1, <2>4, <3>1, <3>2, <4>1, Zenon DEF SentInv, Actor
    <3>6. DeadlineAhead' /\ WaitInv' /\ ListedInv' /\ PresentInv'
      BY <1>1, <2>4, Zenon DEF Inv, DeadlineAhead, WaitInv, ListedInv, PresentInv, Agrees
    <3>7. QED
      BY <3>3, <3>4, <3>5, <3>6, Zenon DEF Inv
  <2>5. QED
    BY <1>5, <2>2, <2>3, <2>4, Zenon DEF Claim
<1>6. QED
  BY <1>4, <1>5, Zenon DEF Claim

\* The end of a request of the scheduler.
LEMMA FinishStep ==
    ASSUME Inv, NEW s \in Scheduler, Finish(s)
    PROVE  Inv'
<1> DEFINE now == monotonicNow(s, store.observed)
<1>1. /\ pc[s] = "request" /\ Release(s, "idle") /\ clock' = clock /\ profile' = profile
      /\ lastNow' = [lastNow EXCEPT ![s] = now]
  BY Zenon DEF Finish
<1>2. s \in Actor /\ s \in Scheduler \cup Command /\ Typed /\ LeaseInv /\ SentInv /\ ListedInv
  BY Zenon DEF Actor, Inv
<1>3. now \in Nat \ {0} /\ now >= store.observed /\ lastNow' \in [Scheduler -> Nat]
  BY <1>1, <1>2, Now, Clocks, Zenon
<1>4. Quiet' /\ DOMAIN pc' = Actor /\ DOMAIN request' = Actor
  BY <1>1, <1>2, Released, Zenon
<1>5. ASSUME NEW operation \in {"register", "heartbeat"}, Confirms(s, operation),
             store' = succeeded(store, now, operation, request[s].profile), notBefore' = 0,
             reverted' = (reverted /\ operation # "register")
      PROVE  Inv'
  <2> DEFINE digest == IF operation = "register" THEN request[s].profile ELSE store.digest
  <2>1. /\ remote' \in Nat /\ remote' # 0 /\ reverted' \in BOOLEAN
        /\ digest = profile /\ ~reverted' => remote' = profile
    BY <1>1, <1>2, <1>5, Confirmed, Zenon
  <2>2. request[s].profile \in Nat
    BY <1>1, <1>2, Zenon DEF SentInv
  <2>3. Succeeds(digest)
    BY <1>2, <1>3, <1>5, <2>2, SuccessStep, Zenon
  <2> HIDE DEF digest
  <2>4. QED
    BY <1>1, <1>3, <1>4, <2>1, <2>3, QuietSucceeds, Zenon
<1>6. ASSUME NEW retried \in BOOLEAN, NEW retryAfter \in Delays, Fail(s, now, retried, retryAfter),
             MayHaveReached(s), reverted' = reverted
      PROVE  Inv'
  <2>1. retryAfter \in Nat
    BY ScheduleAssumption, Zenon
  <2>2. Fails
    BY <1>2, <1>6, <2>1, FailStep, Zenon
  <2>3. /\ remote' \in Nat
        /\ Agrees => remote' \in {0, profile}
    BY <1>2, <1>6, Reached, Zenon
  <2>4. QED
    BY <1>1, <1>3, <1>4, <1>6, <2>2, <2>3, QuietFails, Zenon
<1>7. QED
  BY <1>5, <1>6, Zenon DEF Finish

\* The end of a request of lifecycleCommand.
LEMMA FinishCommandStep ==
    ASSUME Inv, NEW c \in Command, FinishCommand(c)
    PROVE  Inv'
<1> DEFINE now == Max({clock, store.observed, store.success})
<1>1. /\ pc[c] = "request" /\ Release(c, "idle") /\ clock' = clock /\ profile' = profile
      /\ lastNow' = lastNow
  BY Zenon DEF FinishCommand
<1>2. c \in Actor /\ c \in Scheduler \cup Command /\ Typed /\ LeaseInv /\ SentInv /\ ListedInv
  BY Zenon DEF Actor, Inv
<1>3. now \in Nat \ {0} /\ now >= store.observed
  <2>1. clock \in Nat \ {0} /\ store.observed \in Nat /\ store.success \in Nat
    BY <1>2 DEF Typed, Record
  <2>2. now \in {clock, store.observed, store.success} /\ now >= clock /\ now >= store.observed
    BY <2>1, MaxOfThree, Zenon
  <2> HIDE DEF now
  <2>3. QED
    BY <2>1, <2>2
<1>4. Quiet' /\ DOMAIN pc' = Actor /\ DOMAIN request' = Actor /\ LeaseInv'
  BY <1>1, <1>2, Released, Zenon
<1>5. lastNow' \in [Scheduler -> Nat] /\ clock' \in Nat \ {0}
  BY <1>1, <1>2, Zenon DEF Typed
<1>6. CASE /\ Confirms(c, request[c].kind)
           /\ store' = succeeded(store, now, request[c].kind, request[c].profile)
           /\ notBefore' = 0 /\ reverted' = (reverted /\ request[c].kind # "register")
  <2> DEFINE digest == IF request[c].kind = "register" THEN request[c].profile ELSE store.digest
  <2>0. request[c].kind \in {"register", "heartbeat"}
    BY <1>6, Zenon DEF Confirms
  <2>1. /\ remote' \in Nat /\ remote' # 0 /\ reverted' \in BOOLEAN
        /\ digest = profile /\ ~reverted' => remote' = profile
    BY <1>1, <1>2, <1>6, <2>0, Confirmed, Zenon
  <2>2. request[c].profile \in Nat
    BY <1>1, <1>2, Zenon DEF SentInv
  <2>3. Succeeds(digest)
    BY <1>2, <1>3, <1>6, <2>0, <2>2, SuccessStep, Zenon
  <2> HIDE DEF digest
  <2>4. QED
    BY <1>1, <1>4, <1>5, <2>1, <2>3, QuietSucceeds, Zenon
<1>7. CASE MayHaveReached(c) /\ UNCHANGED <<store, notBefore, reverted>>
  <2>1. /\ remote' \in Nat
        /\ Agrees => remote' \in {0, profile}
        /\ remote # 0 => remote' # 0
    BY <1>2, <1>7, Reached, Zenon
  <2>2. QED
    BY <1>1, <1>4, <1>5, <1>7, <2>1, RecordKept, Zenon DEF Quiet
<1>8. QED
  BY <1>6, <1>7, Zenon DEF FinishCommand

\* Unregister, while nobody else sends a request.
LEMMA Suppression ==
    ASSUME Inv, Suppresses, profile' = profile, reverted' = reverted, remote' \in Nat, clock' = clock,
           remote' = remote \/ remote' = 0,
           lastNow' = lastNow, DOMAIN pc' = Actor, DOMAIN request' = Actor, LeaseInv',
           \A a \in Scheduler \cup Command : pc'[a] # "request"
    PROVE  Inv'
<1>0. 0 \in Nat
  OBVIOUS
<1>1. Typed'
  BY <1>0, Zenon DEF Inv, Typed, Suppresses
<1>2. DeadlineAhead' /\ WaitInv' /\ SuppressedInv'
  BY Zenon DEF Suppresses, Ahead, DeadlineAhead, WaitInv, SuppressedInv
<1>3. SentInv' /\ ListedInv'
  BY Zenon DEF Inv, Suppresses, SentInv, ListedInv, Agrees
<1>4. PresentInv'
  BY Zenon DEF Suppresses, PresentInv
<1>5. QED
  BY <1>1, <1>2, <1>3, <1>4, Zenon DEF Inv

\* unregisterCommand up to its request.
LEMMA BeginUnregisterStep ==
    ASSUME Inv, NEW u \in Unregister, BeginUnregister(u)
    PROVE  Inv'
<1>1. /\ lease = NoOne /\ clock' = clock /\ profile' = profile /\ remote' = remote
      /\ lastNow' = lastNow /\ request' = request /\ reverted' = reverted
  BY Zenon DEF BeginUnregister
<1>2. u \in Actor /\ Typed /\ LeaseInv
  BY Zenon DEF Actor, Inv
<1>3. /\ clock' \in Nat \ {0} /\ remote' \in Nat
      /\ Agrees => remote' \in {0, profile}
  BY <1>1, Zenon DEF Inv, Typed, ListedInv
<1>4. NoOne \notin Actor /\ Unregister \cap (Scheduler \cup Command) = {}
  BY ScheduleAssumption, Zenon
<1>5. \A a \in Actor : pc[a] # "request"
  BY <1>1, <1>2, <1>4, Zenon DEF LeaseInv
<1>6. CASE /\ lease' = u /\ pc' = [pc EXCEPT ![u] = "request"]
           /\ store' = Suppressed(store.registered) /\ notBefore' = 0
  <2>1. store.registered \in BOOLEAN
    BY <1>2 DEF Typed, Record
  <2>2. Suppresses
    BY <1>2, <1>6, <2>1, SuppressStep, Zenon
  <2>3. DOMAIN pc' = Actor /\ \A a \in Actor \ {u} : pc'[a] # "request"
    BY <1>2, <1>5, <1>6, Zenon DEF Typed
  <2>4. LeaseInv' /\ \A a \in Scheduler \cup Command : pc'[a] # "request"
    BY <1>4, <1>6, <2>3, Zenon DEF LeaseInv, Actor
  <2>5. QED
    BY <1>1, <1>2, <1>3, <2>2, <2>3, <2>4, Suppression, Zenon DEF Typed
<1>7. CASE UNCHANGED <<lease, pc, store, notBefore>>
  <2>1. LeaseInv' /\ DOMAIN pc' = Actor /\ DOMAIN request' = Actor /\ lastNow' \in [Scheduler -> Nat]
    BY <1>1, <1>2, <1>7, Zenon DEF LeaseInv, Typed
  <2>2. QED
    BY <1>1, <1>3, <1>7, <2>1, RecordKept, Zenon
<1>8. QED
  BY <1>6, <1>7, Zenon DEF BeginUnregister

\* The end of unregisterCommand.
LEMMA FinishUnregisterStep ==
    ASSUME Inv, NEW u \in Unregister, FinishUnregister(u)
    PROVE  Inv'
<1>1. /\ pc[u] = "request" /\ Release(u, "idle") /\ clock' = clock /\ profile' = profile
      /\ lastNow' = lastNow /\ notBefore' = notBefore /\ remote' \in {remote, 0}
      /\ reverted' = reverted
  BY Zenon DEF FinishUnregister
<1>2. u \in Actor /\ Typed /\ LeaseInv /\ store.outcome = "disabled" /\ notBefore = 0
  BY <1>1, Zenon DEF Actor, Inv, SuppressedInv
<1>3. Quiet' /\ DOMAIN pc' = Actor /\ DOMAIN request' = Actor /\ LeaseInv'
  BY <1>1, <1>2, Released, Zenon
<1>4. 0 \in Nat /\ FALSE \in BOOLEAN
  OBVIOUS
<1>5. remote' \in Nat
  BY <1>1, <1>2, <1>4, Zenon DEF Typed
<1>6. CASE store' = Suppressed(FALSE)
  BY <1>1, <1>2, <1>3, <1>4, <1>5, <1>6, SuppressStep, Suppression, Zenon DEF Quiet, Actor
<1>7. CASE store' = store
  <2>1. Suppresses
    BY <1>1, <1>2, <1>7, Zenon DEF Suppresses, Inv, Typed, DeadlineAhead, Ahead
  <2>2. QED
    BY <1>1, <1>2, <1>3, <1>5, <2>1, Suppression, Zenon DEF Quiet, Actor
<1>8. QED
  BY <1>6, <1>7, Zenon DEF FinishUnregister

\* lifecycleCommand up to its request.
LEMMA BeginCommandStep ==
    ASSUME Inv, NEW c \in Command, BeginCommand(c)
    PROVE  Inv'
<1>1. /\ lease = NoOne /\ lease' = c /\ pc' = [pc EXCEPT ![c] = "request"]
      /\ UNCHANGED <<clock, profile, store, remote, lastNow, notBefore, reverted>>
  BY Zenon DEF BeginCommand
<1>2. PICK k \in {"register", "heartbeat"} :
         request' = [request EXCEPT ![c] = [kind |-> k, profile |-> profile]]
  BY Zenon DEF BeginCommand
<1>3. c \in Actor /\ Typed /\ LeaseInv
  BY Zenon DEF Actor, Inv
<1>4. NoOne \notin Actor /\ c \notin Unregister
  BY ScheduleAssumption, Zenon
<1>5. /\ DOMAIN pc' = Actor /\ DOMAIN request' = Actor
      /\ request'[c].profile = profile
      /\ \A b \in Actor : pc'[b] = "request" => b = c
  <2>1. \A a \in Actor : pc[a] # "request"
    BY <1>1, <1>3, <1>4, Zenon DEF LeaseInv
  <2>2. DOMAIN pc' = Actor /\ \A b \in Actor : pc'[b] = "request" => b = c
    BY <1>1, <1>3, <2>1, Zenon DEF Typed
  <2>3. DOMAIN request' = Actor /\ request'[c].profile = profile
    BY <1>2, <1>3 DEF Typed
  <2>4. QED
    BY <2>2, <2>3, Zenon
<1>6. Typed' /\ LeaseInv'
  BY <1>1, <1>3, <1>5, Zenon DEF Typed, LeaseInv
<1>7. SuppressedInv'
  BY <1>4, <1>5, Zenon DEF SuppressedInv, Actor
<1>8. SentInv'
  <2>1. profile \in Nat \ {0}
    BY Zenon DEF Inv, Typed
  <2>2. QED
    BY <1>1, <1>5, <2>1, Zenon DEF SentInv, Actor
<1>9. DeadlineAhead' /\ WaitInv' /\ ListedInv' /\ PresentInv'
  BY <1>1, Zenon DEF Inv, DeadlineAhead, WaitInv, ListedInv, PresentInv, Agrees
<1>10. QED
  BY <1>6, <1>7, <1>8, <1>9, Zenon DEF Inv
\* Every step keeps the invariant.
LEMMA ScheduleStep == Inv /\ [Next]_vars => Inv'
<1> SUFFICES ASSUME Inv, [Next]_vars PROVE Inv'
  OBVIOUS
<1>0. /\ Typed /\ LeaseInv /\ SentInv /\ ListedInv
      /\ Agrees => remote \in {0, profile}
      /\ Instant \subseteq Nat \ {0} /\ 0 \in Nat
  BY ScheduleAssumption DEF Inv, ListedInv
<1>1. CASE Tick \/ SetBack
  <2>1. clock' \in Nat \ {0} /\ UNCHANGED <<profile, store, lease, remote, pc, lastNow, request, notBefore, reverted>>
    BY <1>0, <1>1, Zenon DEF Tick, SetBack
  <2>2. QED
    BY <1>0, <2>1, RecordKept, Zenon DEF Typed, LeaseInv
<1>2. CASE Enable
  <2>1. UNCHANGED <<clock, profile, store, lease, remote, pc, lastNow, request, notBefore, reverted>>
    BY <1>2, Zenon DEF Enable
  <2>2. QED
    BY <1>0, <2>1, RecordKept, Zenon DEF Typed, LeaseInv
<1>3. CASE EditProfile
  <2>1. PICK p \in Profile : profile' = p /\ reverted' = (reverted \/ Reverts(p))
    BY <1>3, Zenon DEF EditProfile
  <2>2. UNCHANGED <<clock, store, lease, remote, pc, lastNow, request, notBefore>>
    BY <1>3, Zenon DEF EditProfile
  <2>3. profile' \in Nat \ {0} /\ reverted' \in BOOLEAN
    BY <2>1, ScheduleAssumption, Zenon
  <2>4. Agrees' => ~Reverts(p) /\ store.digest = p
    BY <2>1, <2>2, Zenon DEF Agrees
  <2>5. Typed' /\ LeaseInv' /\ SuppressedInv' /\ DeadlineAhead' /\ WaitInv' /\ PresentInv'
    BY <2>2, <2>3, Zenon DEF Inv, Typed, LeaseInv, SuppressedInv, DeadlineAhead, WaitInv, PresentInv
  <2>6. SentInv' /\ ListedInv'
    BY <1>0, <2>1, <2>2, <2>4, Zenon DEF SentInv, ListedInv, Reverts
  <2>7. QED
    BY <2>5, <2>6, Zenon DEF Inv
<1>4. ASSUME NEW s \in Scheduler, Start(s) PROVE Inv'
  <2>1. /\ pc' = [pc EXCEPT ![s] = "idle"] /\ lastNow' = [lastNow EXCEPT ![s] = 0]
        /\ UNCHANGED <<clock, profile, store, lease, remote, request, notBefore, reverted>>
    BY <1>4, Zenon DEF Start
  <2>2. lastNow' \in [Scheduler -> Nat]
    BY <1>0, <2>1, Clocks, Zenon
  <2>3. DOMAIN pc' = Actor /\ \A b \in Actor : pc'[b] = "request" => pc[b] = "request"
    BY <1>0, <2>1, Zenon DEF Typed
  <2>4. QED
    BY <1>0, <2>1, <2>2, <2>3, RecordKept, Zenon DEF Typed, LeaseInv
<1>5. ASSUME NEW s \in Scheduler, Stop(s) \/ FinishUnsaved(s) PROVE Inv'
  <2>1. /\ \E to \in {"idle", "off"} : Release(s, to)
        /\ MayHaveReached(s) /\ UNCHANGED <<clock, profile, store, notBefore, reverted>>
        /\ lastNow' = lastNow \/ lastNow' = [lastNow EXCEPT ![s] = 0]
    BY <1>5, Zenon DEF Stop, FinishUnsaved
  <2>2. lastNow' \in [Scheduler -> Nat]
    BY <1>0, <2>1, Clocks, Zenon DEF Typed
  <2>3. s \in Actor /\ s \in Scheduler \cup Command
    BY Zenon DEF Actor
  <2>4. /\ remote' \in Nat
        /\ Agrees => remote' \in {0, profile}
        /\ remote # 0 => remote' # 0
    BY <1>0, <2>1, <2>3, Reached, Zenon
  <2>5. /\ DOMAIN pc' = Actor /\ DOMAIN request' = Actor /\ LeaseInv'
        /\ \A b \in Actor : pc'[b] = "request" => pc[b] = "request" /\ request'[b] = request[b]
    BY <1>0, <2>1, <2>3, Released, Zenon
  <2>6. QED
    BY <1>0, <2>1, <2>2, <2>4, <2>5, RecordKept, Zenon DEF Typed
<1>6. ASSUME NEW s \in Scheduler, Poll(s) PROVE Inv'
  <2>1. /\ lastNow' = [lastNow EXCEPT ![s] = monotonicNow(s, store.observed)]
        /\ \E x \in {"acquire", "idle"} : pc' = [pc EXCEPT ![s] = x]
        /\ UNCHANGED <<clock, profile, store, lease, remote, request, notBefore, reverted>>
    BY <1>6, Zenon DEF Poll
  <2>2. lastNow' \in [Scheduler -> Nat]
    BY <1>0, <2>1, Now, Clocks, Zenon
  <2>3. DOMAIN pc' = Actor /\ \A b \in Actor : pc'[b] = "request" => pc[b] = "request"
    BY <1>0, <2>1, Zenon DEF Typed
  <2>4. QED
    BY <1>0, <2>1, <2>2, <2>3, RecordKept, Zenon DEF Typed, LeaseInv
<1>7. CASE UNCHANGED vars
  <2>1. UNCHANGED <<clock, profile, store, lease, remote, pc, lastNow, request, notBefore, reverted>>
    BY <1>7, Zenon DEF vars
  <2>2. QED
    BY <1>0, <2>1, RecordKept, Zenon DEF Typed, LeaseInv
<1>8. QED
  BY <1>1, <1>2, <1>3, <1>4, <1>5, <1>6, <1>7, ClaimStep, FinishStep, FinishCommandStep,
     BeginUnregisterStep, FinishUnregisterStep, BeginCommandStep, Zenon DEF Next, SchedulerStep

\* The invariant holds in every reachable state.
LEMMA ScheduleInvariant == Spec => []Inv
<1>1. Init => Inv
  <2> SUFFICES ASSUME Init PROVE Inv
    OBVIOUS
  <2>1. store \in Record /\ store.next = 0 /\ store.digest = 0 /\ store.outcome = "none"
    BY ScheduleAssumption DEF Init, NoState, Record, Outcome, Reconciled
  <2>2. clock \in Nat \ {0} /\ profile \in Nat \ {0} /\ remote = 0 /\ notBefore = 0 /\ reverted = FALSE
    BY ScheduleAssumption, Zenon DEF Init
  <2>3. 0 \in Nat
    OBVIOUS
  <2>4. /\ lastNow \in [Scheduler -> Nat] /\ DOMAIN pc = Actor /\ DOMAIN request = Actor
        /\ \A a \in Actor : pc[a] # "request"
    BY <2>3, Zenon DEF Init
  <2>5. Typed /\ LeaseInv /\ SuppressedInv /\ SentInv
    BY <2>1, <2>2, <2>3, <2>4, Zenon DEF Typed, LeaseInv, SuppressedInv, SentInv, Actor
  <2>6. DeadlineAhead /\ WaitInv /\ ListedInv /\ PresentInv
    BY <2>1, <2>2, <2>3, Zenon DEF DeadlineAhead, WaitInv, ListedInv, PresentInv
  <2>7. QED
    BY <2>5, <2>6, Zenon DEF Inv
<1>2. QED
  BY <1>1, ScheduleStep, PTL DEF Spec

\* Whoever writes the record (applyFailure, runDirectory, lifecycleCommand,
\* unregisterCommand), its deadline lies at least the first backoff and at most
\* a heartbeat interval with its jitter ahead, for any delays the directory
\* asks for, any clock and any number of failures.
THEOREM DeadlinesLieAhead == Spec => []DeadlineAhead
  BY ScheduleInvariant, PTL DEF Inv

\* A record that says the profile of the file was sent tells the truth
\* (runDirectory, lifecycleCommand, unregisterCommand), whatever the operator
\* edits meanwhile and whatever answers get lost; only a return to the recorded
\* profile past a registration that was not recorded is excepted.
THEOREM SentProfilesListed == Spec => []ProfileInSync
<1>1. Inv => ProfileInSync
  BY Zenon DEF Inv, ListedInv, PresentInv, Agrees, ProfileInSync
<1>2. QED
  BY <1>1, ScheduleInvariant, PTL

\* The record's time is set back by unregister alone (monotonicNow, the
\* completion time of lifecycleCommand).
THEOREM RecordTimeGrows == Spec => ScheduleNotSetBack
<1>1. ASSUME Inv, [Next]_vars, store'.outcome # "disabled"
      PROVE  store'.observed >= store.observed
  <2>0. Typed /\ store.observed \in Nat /\ SentInv
    BY <1>1 DEF Inv, Typed, Record
  <2>1. CASE store' = store
    BY <2>0, <2>1
  <2>2. ASSUME NEW s \in Scheduler, Claim(s) \/ Finish(s), store' # store
        PROVE  store'.observed >= store.observed
    <3>1. store'.observed = monotonicNow(s, store.observed)
      BY <2>0, <2>2, ZenonT(30) DEF Claim, Finish, Fail, applyFailure, succeeded, Typed, Record
    <3>2. monotonicNow(s, store.observed) >= store.observed
      BY <2>0, Now, Zenon
    <3>3. QED
      BY <3>1, <3>2, Zenon
  <2>3. ASSUME NEW c \in Command, FinishCommand(c), store' # store
        PROVE  store'.observed >= store.observed
    <3>1. store'.observed = Max({clock, store.observed, store.success})
      BY <2>0, <2>3, ZenonT(30) DEF FinishCommand, succeeded, Typed, Record
    <3>2. clock \in Nat /\ store.observed \in Nat /\ store.success \in Nat
      BY <2>0 DEF Typed, Record
    <3>3. Max({clock, store.observed, store.success}) >= store.observed
      BY <3>2, MaxOfThree, Zenon
    <3>4. QED
      BY <3>1, <3>3, Zenon
  <2>4. ASSUME NEW u \in Unregister, BeginUnregister(u) \/ FinishUnregister(u)
        PROVE  store' = store
    <3>1. \A r : Suppressed(r).outcome = "disabled"
      BY <2>0 DEF Suppressed, Typed, Record
    <3>2. QED
      BY <1>1, <2>4, <3>1, Zenon DEF BeginUnregister, FinishUnregister
  <2>5. QED
    BY <1>1, <2>1, <2>2, <2>3, <2>4, Zenon DEF Next, SchedulerStep, Tick, SetBack, Enable, EditProfile,
       Start, Stop, Poll, FinishUnsaved, BeginCommand, vars
<1>2. Inv /\ [Next]_vars => [store'.outcome # "disabled" => store'.observed >= store.observed]_vars
  BY <1>1, Zenon
<1>3. QED
  BY <1>2, ScheduleInvariant, PTL DEF Spec, ScheduleNotSetBack

\* A scheduler that takes the lease to send anything but a changed profile has
\* waited as long as the last recorded failure asks for (runDirectory,
\* startupReconciliationDue, applyFailure), whatever was restarted meanwhile.
THEOREM WaitsAreKept == Spec => RetryAfterKept
<1>1. ASSUME Inv, [Next]_vars, NEW s \in Scheduler, lease # s, lease' = s, ~profileChanged
      PROVE  lastNow'[s] >= notBefore
  <2> DEFINE now == monotonicNow(s, store.observed)
  <2>0. Typed /\ NoOne \notin Actor /\ s \in Actor /\ s \notin Command /\ s \notin Unregister
    BY <1>1, ScheduleAssumption, Zenon DEF Inv, Actor
  <2>1. Claim(s) /\ due(s, now) /\ lastNow' = [lastNow EXCEPT ![s] = now]
    <3>1. \A a, to : Release(a, to) => lease' # s
      BY <1>1, <2>0, Zenon DEF Release
    <3>2. \E q \in Scheduler : Claim(q)
      BY <1>1, <2>0, <3>1, Zenon DEF Next, SchedulerStep, Tick, SetBack, Enable, EditProfile, Start, Stop, Poll,
         Finish, FinishUnsaved, BeginCommand, FinishCommand, BeginUnregister, FinishUnregister, vars
    <3>3. QED
      BY <1>1, <3>1, <3>2, Zenon DEF Claim
  <2>2. lastNow'[s] = now /\ now \in Nat
    BY <2>0, <2>1, Now, Zenon DEF Typed
  <2>3. notBefore \in Nat /\ store.next \in Nat
    BY <2>0 DEF Typed, Record
  <2>4. CASE notBefore = 0
    <3> HIDE DEF now
    <3>1. QED
      BY <2>2, <2>4
  <2>5. CASE store.outcome \in Failed /\ store.next >= notBefore
    <3>1. store.outcome \notin Reconciled
      BY <2>5 DEF Failed, Reconciled
    <3>2. store.next <= now
      BY <1>1, <2>1, <3>1, Zenon DEF due, startupReconciliationDue, deadlineReached
    <3> HIDE DEF now
    <3>3. QED
      BY <2>2, <2>3, <2>5, <3>2
  <2>6. QED
    BY <1>1, <2>4, <2>5, Zenon DEF Inv, WaitInv
<1>2. Inv /\ [Next]_vars =>
        [\A s \in Scheduler :
            (lease # s /\ lease' = s /\ ~profileChanged) => lastNow'[s] >= notBefore]_vars
  BY <1>1, Zenon
<1>3. QED
  BY <1>2, ScheduleInvariant, PTL DEF Spec, RetryAfterKept
=============================================================================
