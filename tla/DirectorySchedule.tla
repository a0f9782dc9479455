--------------------------- MODULE DirectorySchedule ---------------------------
(***************************************************************************)
(* When the directory scheduler of an API process sends its next request:  *)
(* the wall clock, which can be set back, the clock the scheduler keeps on *)
(* top of it, the deadlines in the state record, the backoff after a       *)
(* failure, the pulse at start-up and the comparison of profiles           *)
(* (internal/directoryscheduler), together with the operator's commands    *)
(* that write the same record (internal/directorycommand).                 *)
(*                                                                         *)
(* Times are in seconds, and 0 is Go's zero time.  Whoever writes the      *)
(* record holds the lease of the directory from its last read on, so an    *)
(* attempt works on the record itself.  What happens when the lease is     *)
(* lost is the subject of DirectoryLifecycle.                              *)
(***************************************************************************)
EXTENDS Integers, FiniteSetsExt

CONSTANTS Scheduler,          \* API processes
          Command,            \* register, heartbeat and sync commands
          Unregister,         \* unregister commands
          NoOne,              \* nobody holds the lease
          Instant,            \* the times the wall clock can show
          Delays,             \* Retry-After values of the directory, 0 for none
          Profile,            \* the profiles the operator gives the file, by their digests
          Interval,           \* NominalHeartbeatInterval
          StableJitter,       \* stableJitter of the relay and the directory
          InitialRetry,       \* initialRetry
          MaximumLocalRetry,  \* maximumLocalRetry
          MaximumRetryAfter,  \* MaximumRetryAfter
          MaximumAttempt,     \* maximumAttempt
          RetryHash,          \* the digest in retryDelay, by attempt
          MaxStarts,          \* bound on starts of API processes
          MaxSetBacks,        \* bound on the wall clock being set back
          MaxEdits,           \* bound on edits of the profile
          MaxCommands         \* bound on commands and on the entry being enabled again

Actor == Scheduler \cup Command \cup Unregister

ASSUME ScheduleAssumption ==
    /\ NoOne \notin Actor
    /\ Scheduler \cap Command = {} /\ Scheduler \cap Unregister = {} /\ Command \cap Unregister = {}
    /\ Instant \subseteq Nat \ {0} /\ Delays \subseteq Nat /\ Profile \subseteq Nat \ {0}
    /\ {Interval, StableJitter, InitialRetry, MaximumLocalRetry, MaximumRetryAfter} \subseteq Nat
    /\ InitialRetry > 0 /\ InitialRetry <= MaximumLocalRetry
    /\ MaximumLocalRetry <= MaximumRetryAfter /\ MaximumRetryAfter <= Interval
    /\ MaximumAttempt \in Nat \ {0} /\ RetryHash \in [1 .. MaximumAttempt -> Nat]
    /\ {MaxStarts, MaxSetBacks, MaxEdits, MaxCommands} \subseteq Nat

VARIABLES
    clock,      \* the wall clock
    enabled,    \* the entry in the configuration file
    profile,    \* the profile in the configuration file
    store,      \* relay:directory:...:state
    lease,      \* relay:directory:...:lease
    remote,     \* the profile the directory has, 0 when the relay is not listed
    pc,         \* where an actor is
    lastNow,    \* Scheduler.lastNow
    boundary,   \* startupBoundary of Run
    request,    \* what an actor sends: a kind and the profile it read
    starts, setBacks, edits, commands,
    notBefore,  \* history: the earliest time the last failure allows, 0 for none
    reverted    \* history: see Reverts; up to the next registration that is recorded

bounds  == <<starts, setBacks, edits, commands>>
vars == <<clock, enabled, profile, store, lease, remote, pc, lastNow, boundary, request,
          bounds, notBefore, reverted>>

Reconciled == {"none", "registered", "heartbeat"}
Failed     == {"retrying", "refused"}
Outcome    == Reconciled \cup Failed \cup {"disabled"}

\* State: success, next and observed are times, digest is a profile.
State == [registered : BOOLEAN, success : Nat, next : Nat, outcome : Outcome,
          attempt : 0 .. MaximumAttempt, observed : Nat, digest : Profile \cup {0}]

Request   == [kind : {"register", "heartbeat"}, profile : Profile \cup {0}]
NoRequest == [kind |-> "register", profile |-> 0]
NoState   == [registered |-> FALSE, success |-> 0, next |-> 0, outcome |-> "none",
              attempt |-> 0, observed |-> 0, digest |-> 0]

Init ==
    /\ clock \in Instant
    /\ enabled = TRUE
    /\ profile \in Profile
    /\ store = NoState
    /\ lease = NoOne
    /\ remote = 0
    /\ pc = [a \in Actor |-> IF a \in Scheduler THEN "off" ELSE "idle"]
    /\ lastNow = [s \in Scheduler |-> 0]
    /\ boundary = [s \in Scheduler |-> 0]
    /\ request = [a \in Actor |-> NoRequest]
    /\ starts = 0 /\ setBacks = 0 /\ edits = 0 /\ commands = 0
    /\ notBefore = 0 /\ reverted = FALSE

-----------------------------------------------------------------------------
(* Deadlines                                                               *)

NextHeartbeatAttempt(t) == IF t = 0 THEN 0 ELSE t + Interval + StableJitter

\* initialRetry << n.
shifted[n \in 0 .. MaximumAttempt] == IF n = 0 THEN InitialRetry ELSE 2 * shifted[n - 1]

\* The jitter is a number of whole seconds up to a fifth of the delay.
retryDelay(attempt) ==
    LET base == Min({shifted[attempt - 1], MaximumLocalRetry})
    IN  Min({base + (RetryHash[attempt] % (base \div 5 + 1)), MaximumLocalRetry})

\* Mutant: a Retry-After of any length is taken.
EffectiveDelayUncapped(attempt, retryAfter) == Max({retryDelay(attempt), retryAfter})

\* The longer of the backoff and the directory's Retry-After, at most a day.
effectiveDelay(attempt, retryAfter) ==
    Min({Max({retryDelay(attempt), retryAfter}), MaximumRetryAfter})

\* applyFailure: transport errors, rate limits and internal errors are
\* retried; every other failure waits for the next heartbeat.
applyFailure(state, now, retried, retryAfter) ==
    LET attempt == Min({state.attempt + 1, MaximumAttempt})
    IN  IF retried
        THEN [state EXCEPT !.observed = now, !.outcome = "retrying", !.attempt = attempt,
                           !.next = now + effectiveDelay(attempt, retryAfter)]
        ELSE [state EXCEPT !.observed = now, !.outcome = "refused", !.attempt = 0,
                           !.next = NextHeartbeatAttempt(now)]

\* Mutant: the profile in the file is recorded, not the one that was sent.
SucceededWithFile(state, now, operation, sent) ==
    [state EXCEPT !.registered = TRUE, !.success = now, !.attempt = 0, !.observed = now,
                  !.next = NextHeartbeatAttempt(now),
                  !.outcome = IF operation = "register" THEN "registered" ELSE "heartbeat",
                  !.digest = IF operation = "register" THEN profile ELSE @]

\* What a request that succeeded leaves in the record.  Only an answer to a
\* register request carries the profile over.
succeeded(state, now, operation, sent) ==
    [state EXCEPT !.registered = TRUE, !.success = now, !.attempt = 0, !.observed = now,
                  !.next = NextHeartbeatAttempt(now),
                  !.outcome = IF operation = "register" THEN "registered" ELSE "heartbeat",
                  !.digest = IF operation = "register" THEN sent ELSE @]

\* Mutant: only the readings of this process count.
MonotonicNowOfProcess(s, persisted) == Max({clock, lastNow[s]})

\* monotonicNow: not before an earlier reading of this process, and not
\* before the time in the record.
monotonicNow(s, persisted) == Max({clock, lastNow[s], persisted})

\* Mutant: the start of the process also ends a wait after a failure.
StartupAfterFailure(s) ==
    /\ store.observed < boundary[s]
    /\ store.outcome # "disabled"

startupReconciliationDue(s) ==
    /\ store.observed = 0 \/ store.observed < boundary[s]
    /\ store.outcome \in Reconciled

profileChanged == store.registered /\ store.digest # profile

\* NextAttempt is zero or has come.
deadlineReached(now) == store.next <= now

due(s, now) == startupReconciliationDue(s) \/ profileChanged \/ deadlineReached(now)

-----------------------------------------------------------------------------
(* The clock and the API processes                                         *)

Tick ==
    /\ \E t \in Instant : t > clock /\ clock' = t
    /\ UNCHANGED <<enabled, profile, store, lease, remote, pc, lastNow, boundary, request,
                   bounds, notBefore, reverted>>

\* The system's clock is set back.
SetBack ==
    /\ setBacks < MaxSetBacks
    /\ setBacks' = setBacks + 1
    /\ \E t \in Instant : t < clock /\ clock' = t
    /\ UNCHANGED <<enabled, profile, store, lease, remote, pc, lastNow, boundary, request,
                   starts, edits, commands, notBefore, reverted>>

\* Run takes the boundary from the wall clock alone.
Start(s) ==
    /\ pc[s] = "off"
    /\ starts < MaxStarts
    /\ starts' = starts + 1
    /\ pc' = [pc EXCEPT ![s] = "idle"]
    /\ lastNow' = [lastNow EXCEPT ![s] = 0]
    /\ boundary' = [boundary EXCEPT ![s] = clock]
    /\ UNCHANGED <<clock, enabled, profile, store, lease, remote, request, setBacks,
                   edits, commands, notBefore, reverted>>

\* An actor gives up the lease and what it knows.
Release(a, to) ==
    /\ pc' = [pc EXCEPT ![a] = to]
    /\ lease' = IF lease = a THEN NoOne ELSE lease
    /\ request' = [request EXCEPT ![a] = NoRequest]

\* The directory may have acted on a request whose answer is not used.
MayHaveReached(a) ==
    remote' \in {remote} \cup (IF pc[a] = "request" THEN {request[a].profile} ELSE {})

\* The context of Run ends: the process stops.
Stop(s) ==
    /\ pc[s] # "off"
    /\ Release(s, "off")
    /\ MayHaveReached(s)
    /\ lastNow' = [lastNow EXCEPT ![s] = 0]
    /\ boundary' = [boundary EXCEPT ![s] = 0]
    /\ UNCHANGED <<clock, enabled, profile, store, bounds, notBefore, reverted>>

\* runDirectory up to Acquire.  The first read only decides whether to try.
Poll(s) ==
    /\ pc[s] = "idle"
    /\ enabled
    /\ LET now == monotonicNow(s, store.observed)
       IN  /\ lastNow' = [lastNow EXCEPT ![s] = now]
           /\ pc' = [pc EXCEPT ![s] = IF due(s, now) THEN "acquire" ELSE "idle"]
    /\ UNCHANGED <<clock, enabled, profile, store, lease, remote, boundary, request, bounds,
                   notBefore, reverted>>

\* A failure of the scheduler at a time, with what it leaves in the record.
Fail(s, now, retried, retryAfter) ==
    LET state == applyFailure(store, now, retried, retryAfter)
    IN  /\ store' = state
        /\ notBefore' = now + (IF retried THEN Max({InitialRetry, Min({retryAfter, MaximumRetryAfter})})
                                          ELSE Interval)

\* runDirectory from Acquire to the request: the record, the file and the
\* profile are read again under the lease.  A client that cannot be made
\* counts as a malformed answer; a failed call of Redis ends the cycle.
Claim(s) ==
    /\ pc[s] = "acquire"
    /\ \/ /\ lease # NoOne
          /\ Release(s, "idle")
          /\ UNCHANGED <<lastNow, store, notBefore>>
       \/ /\ lease = NoOne
          /\ LET now == monotonicNow(s, store.observed)
             IN  /\ lastNow' = [lastNow EXCEPT ![s] = now]
                 /\ \/ /\ Release(s, "idle")
                       /\ UNCHANGED <<store, notBefore>>
                    \/ /\ enabled
                       /\ Fail(s, now, FALSE, 0)
                       /\ Release(s, "idle")
                    \/ /\ enabled /\ due(s, now)
                       /\ lease' = s
                       /\ pc' = [pc EXCEPT ![s] = "request"]
                       /\ request' = [request EXCEPT ![s] =
                             [kind |-> IF store.registered /\ ~profileChanged
                                       THEN "heartbeat" ELSE "register",
                              profile |-> profile]]
                       /\ UNCHANGED <<store, notBefore>>
    /\ UNCHANGED <<clock, enabled, profile, remote, boundary, bounds, reverted>>

\* The operation the directory confirmed, and what it then has.  A scheduler's
\* heartbeat of a relay that is not listed registers it first; a heartbeat
\* answered with a new protocol version is followed by a registration.
Confirms(a, operation) ==
    \/ /\ operation = "register"
       /\ remote' = request[a].profile
    \/ /\ request[a].kind = "heartbeat" /\ operation = "heartbeat"
       /\ a \in Scheduler \/ remote # 0
       /\ remote' = IF remote = 0 THEN request[a].profile ELSE remote

\* The request of the scheduler came to an end that is recorded.
Finish(s) ==
    /\ pc[s] = "request"
    /\ LET now == monotonicNow(s, store.observed)
       IN  /\ lastNow' = [lastNow EXCEPT ![s] = now]
           /\ \/ \E operation \in {"register", "heartbeat"} :
                    /\ Confirms(s, operation)
                    /\ store' = succeeded(store, now, operation, request[s].profile)
                    /\ notBefore' = 0
                    /\ reverted' = (reverted /\ operation # "register")
              \/ \E retried \in BOOLEAN, retryAfter \in Delays :
                    /\ Fail(s, now, retried, retryAfter)
                    /\ MayHaveReached(s)
                    /\ reverted' = reverted
    /\ Release(s, "idle")
    /\ UNCHANGED <<clock, enabled, profile, boundary, bounds>>

\* The request came to an end and nothing is recorded: the lease is lost, or
\* the record cannot be saved.
FinishUnsaved(s) ==
    /\ pc[s] = "request"
    /\ MayHaveReached(s)
    /\ Release(s, "idle")
    /\ UNCHANGED <<clock, enabled, profile, store, lastNow, boundary, bounds, notBefore, reverted>>

-----------------------------------------------------------------------------
(* The operator                                                            *)

\* lifecycleCommand up to its request; without the lease it sends nothing.
BeginCommand(c) ==
    /\ pc[c] = "idle"
    /\ commands < MaxCommands
    /\ commands' = commands + 1
    /\ enabled /\ lease = NoOne
    /\ lease' = c
    /\ pc' = [pc EXCEPT ![c] = "request"]
    /\ \E k \in {"register", "heartbeat"} :
          request' = [request EXCEPT ![c] = [kind |-> k, profile |-> profile]]
    /\ UNCHANGED <<clock, enabled, profile, store, remote, lastNow, boundary, starts,
                   setBacks, edits, notBefore, reverted>>

\* The rest of lifecycleCommand: the time of completion is not before the
\* times of the record, and a failure is not recorded.
FinishCommand(c) ==
    /\ pc[c] = "request"
    /\ \/ /\ Confirms(c, request[c].kind)
          /\ store' = succeeded(store, Max({clock, store.observed, store.success}),
                                request[c].kind, request[c].profile)
          /\ notBefore' = 0
          /\ reverted' = (reverted /\ request[c].kind # "register")
       \/ MayHaveReached(c) /\ UNCHANGED <<store, notBefore, reverted>>
    /\ Release(c, "idle")
    /\ UNCHANGED <<clock, enabled, profile, lastNow, boundary, bounds>>

\* What unregisterCommand saves: the time is the wall clock's.
Suppressed(registered) ==
    [store EXCEPT !.registered = registered, !.outcome = "disabled", !.next = 0,
                  !.observed = clock]

\* unregisterCommand up to its request: the file is changed first, then the
\* record; if that fails nothing is sent.
BeginUnregister(u) ==
    /\ pc[u] = "idle"
    /\ commands < MaxCommands
    /\ commands' = commands + 1
    /\ lease = NoOne
    /\ enabled' = FALSE
    /\ \/ /\ lease' = u
          /\ pc' = [pc EXCEPT ![u] = "request"]
          /\ store' = Suppressed(store.registered)
          /\ notBefore' = 0
       \/ UNCHANGED <<lease, pc, store, notBefore>>
    /\ UNCHANGED <<clock, profile, remote, lastNow, boundary, request, starts, setBacks, edits,
                   reverted>>

FinishUnregister(u) ==
    /\ pc[u] = "request"
    /\ remote' \in {remote, 0}
    /\ store' \in {store} \cup (IF remote' = 0 THEN {Suppressed(FALSE)} ELSE {})
    /\ Release(u, "idle")
    /\ UNCHANGED <<clock, enabled, profile, lastNow, boundary, bounds, notBefore, reverted>>

\* The operator enables the entry again in the file.
Enable ==
    /\ ~enabled
    /\ \A u \in Unregister : pc[u] = "idle"
    /\ commands < MaxCommands
    /\ commands' = commands + 1
    /\ enabled' = TRUE
    /\ UNCHANGED <<clock, profile, store, lease, remote, pc, lastNow, boundary, request,
                   starts, setBacks, edits, notBefore, reverted>>

\* The file goes back to the profile of the record while the directory has, or
\* is being sent, another one whose registration was not recorded.
Reverts(p) ==
    /\ p = store.digest
    /\ \/ remote \notin {0, p}
       \/ \E a \in Scheduler \cup Command : pc[a] = "request" /\ request[a].profile # p

\* The operator edits the profile, also back to an earlier one.
EditProfile ==
    /\ edits < MaxEdits
    /\ edits' = edits + 1
    /\ \E p \in Profile \ {profile} :
          /\ profile' = p
          /\ reverted' = (reverted \/ Reverts(p))
    /\ UNCHANGED <<clock, enabled, store, lease, remote, pc, lastNow, boundary, request,
                   starts, setBacks, commands, notBefore>>

SchedulerStep(s) == Start(s) \/ Stop(s) \/ Poll(s) \/ Claim(s) \/ Finish(s) \/ FinishUnsaved(s)

Next ==
    \/ Tick \/ SetBack \/ Enable \/ EditProfile
    \/ \E s \in Scheduler : SchedulerStep(s)
    \/ \E c \in Command : BeginCommand(c) \/ FinishCommand(c)
    \/ \E u \in Unregister : BeginUnregister(u) \/ FinishUnregister(u)

Spec == Init /\ [][Next]_vars

-----------------------------------------------------------------------------
(* Properties                                                              *)

\* Every variable has its type; the attempt counter stays within its ceiling
\* (applyFailure), whatever fails and is restarted.
TypeOK ==
    /\ clock \in Instant
    /\ enabled \in BOOLEAN
    /\ profile \in Profile
    /\ store \in State
    /\ lease \in Actor \cup {NoOne}
    /\ remote \in Profile \cup {0}
    /\ pc \in [Actor -> {"off", "idle", "acquire", "request"}]
    /\ lastNow \in [Scheduler -> Nat] /\ boundary \in [Scheduler -> Nat]
    /\ request \in [Actor -> Request]
    /\ starts \in 0 .. MaxStarts /\ setBacks \in 0 .. MaxSetBacks
    /\ edits \in 0 .. MaxEdits /\ commands \in 0 .. MaxCommands
    /\ notBefore \in Nat /\ reverted \in BOOLEAN

\* The deadline in the record lies ahead of the time the record was written
\* at by at least the first backoff and at most a heartbeat interval with its
\* jitter, whoever wrote it and however the clock was set.  So no failure is
\* retried at once, and no Retry-After silences the relay for longer than a
\* directory's day.
DeadlineAhead ==
    store.next # 0 =>
        /\ store.next >= store.observed + InitialRetry
        /\ store.next <= store.observed + Interval + StableJitter

\* Setting the wall clock back does not move the record's time back: every
\* attempt of a scheduler, also of one that was restarted, and every lifecycle
\* command is recorded at or after the time already in the record.  (Only
\* unregister writes the bare wall clock.)
ScheduleNotSetBack ==
    [][store'.outcome # "disabled" => store'.observed >= store.observed]_vars

\* A scheduler sends nothing before the time that the last recorded failure
\* allows: not after a restart, not as a start-up pulse and not on a clock that
\* was set.  Only a changed profile is sent at once, and an unregister ends
\* every wait.
RetryAfterKept ==
    [][\A s \in Scheduler :
         (lease # s /\ lease' = s /\ ~profileChanged) => lastNow'[s] >= notBefore]_vars

\* If the record holds the profile of the file, and the last operation
\* succeeded, the directory has that profile: an edit made while a request was
\* under way is not taken for sent, and a registration whose answer got lost is
\* made up for.  The exception: the scheduler compares digests of the content,
\* so an operator who goes back to the recorded profile hides a registration
\* of another one that the directory carried out and the record does not know.
ProfileInSync ==
    (store.outcome \in {"registered", "heartbeat"} /\ store.digest = profile /\ ~reverted)
        => remote = profile
================================================================================
