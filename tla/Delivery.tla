------------------------------ MODULE Delivery ------------------------------
(***************************************************************************)
(* Fan-out of one activity to many receivers, and its delivery.            *)
(*                                                                         *)
(* A Job is one call of enqueueActivityExcept (api/resolver.go): it stores *)
(* the activity body once in Redis, under a fresh storage id, with the     *)
(* number of targets still to be served (remain_count), and publishes one  *)
(* relay-v2 task per target.  Workers (deliver/deliver.go) claim the tasks,*)
(* load the shared body, POST it and give the target up or retry it.       *)
(*                                                                         *)
(* The task queue is the Machinery broker, which is not part of this       *)
(* repository: a ready list, a set of delayed tasks, and claims with a     *)
(* lease that are acknowledged only after the handler returned and go back *)
(* to the ready list when their lease runs out.  Queues are bags: a task   *)
(* can be in them more than once after a redelivery.                       *)
(*                                                                         *)
(* Queue capacity (QueueAdmission) and the receiver-health and metrics     *)
(* counters, which no delivery decision reads, are not part of this module.*)
(***************************************************************************)
EXTENDS Integers, FiniteSets

CONSTANTS Job,          \* calls of enqueueActivityExcept, one storage id each
          Target,       \* receiver inboxes
          Worker,       \* concurrent task processors
          RetryCount,   \* deliverypolicy.RetryCount: retries after the first attempt
          MaxCrashes,   \* bound on abrupt worker deaths
          MaxFaults,    \* bound on failed Redis or broker calls
          NoTask        \* what an idle worker holds

Task == [job : Job, target : Target, retries : 0 .. RetryCount]

ASSUME DeliveryAssumption ==
    /\ RetryCount \in Nat
    /\ MaxCrashes \in Nat
    /\ MaxFaults \in Nat
    /\ NoTask \notin Task
    /\ IsFiniteSet(Target)

VARIABLES
    jpc,        \* where the enqueue call of a job is
    planned,    \* targets a job has a signature for
    published,  \* targets whose task reached the broker
    stored,     \* the hash relay:activity:<id> exists
    remain,     \* its remain_count field
    expired,    \* its retention ran out
    ready,      \* broker: the list "relay"
    delayed,    \* broker: the sorted set "delayed_tasks"
    orphaned,   \* broker: claims that no live worker is renewing
    wpc,        \* where the task processor of a worker is
    wtask,      \* the claimed task of a worker
    attempts,   \* history: attempts made for a target
    accepted,   \* history: targets whose server took the activity
    settled,    \* history: targets the relay is finished with
    crashes,    \* workers that died so far
    faults      \* Redis or broker calls that failed so far

jobVars    == <<jpc, planned, published>>
bodyVars   == <<stored, remain, expired>>
queueVars  == <<ready, delayed, orphaned>>
workerVars == <<wpc, wtask>>
history    == <<attempts, accepted, settled>>
budget     == <<crashes, faults>>
vars == <<jobVars, bodyVars, queueVars, workerVars, history, budget>>

NoTasks == [k \in Task |-> 0]

Add(bag, k)    == [bag EXCEPT ![k] = @ + 1]
Remove(bag, k) == [bag EXCEPT ![k] = @ - 1]

Init ==
    /\ jpc = [j \in Job |-> "idle"]
    /\ planned = [j \in Job |-> {}]
    /\ published = [j \in Job |-> {}]
    /\ stored = [j \in Job |-> FALSE]
    /\ remain = [j \in Job |-> 0]
    /\ expired = [j \in Job |-> FALSE]
    /\ ready = NoTasks
    /\ delayed = NoTasks
    /\ orphaned = NoTasks
    /\ wpc = [w \in Worker |-> "idle"]
    /\ wtask = [w \in Worker |-> NoTask]
    /\ attempts = [j \in Job |-> [t \in Target |-> 0]]
    /\ accepted = [j \in Job |-> {}]
    /\ settled = [j \in Job |-> {}]
    /\ crashes = 0
    /\ faults = 0

\* One more call to Redis or to the broker fails.
Fault == faults < MaxFaults /\ faults' = faults + 1

-----------------------------------------------------------------------------
(* The API: enqueueActivityExcept                                          *)

\* Nothing is stored: no target is left after exclusion and deduplication
\* (returns true), or the fan-out limit, the signature plans, the queue
\* reservation or the store refuse the activity (returns false).
ReturnEarly(j) ==
    /\ jpc[j] = "idle"
    /\ \E result \in {"true", "false"} : jpc' = [jpc EXCEPT ![j] = result]
    /\ UNCHANGED <<planned, published, bodyVars, queueVars, workerVars, history, budget>>

\* storeRelayActivity: body, count and retention are written by one script,
\* with the number of tasks that were really planned.
StoreRelayActivity(j) ==
    /\ jpc[j] = "idle"
    /\ \E S \in (SUBSET Target) \ {{}} :
          /\ planned' = [planned EXCEPT ![j] = S]
          /\ remain' = [remain EXCEPT ![j] = Cardinality(S)]
    /\ stored' = [stored EXCEPT ![j] = TRUE]
    /\ jpc' = [jpc EXCEPT ![j] = "sending"]
    /\ UNCHANGED <<published, expired, queueVars, workerVars, history, budget>>

\* SendGroup publishes the signatures concurrently, one list push each.
PublishTask(j, t) ==
    /\ jpc[j] = "sending"
    /\ t \in planned[j] \ published[j]
    /\ published' = [published EXCEPT ![j] = @ \cup {t}]
    /\ ready' = Add(ready, [job |-> j, target |-> t, retries |-> RetryCount])
    /\ UNCHANGED <<jpc, planned, bodyVars, delayed, orphaned, workerVars, history, budget>>

\* SendGroup reports success only when every signature was published; a
\* broker error, or the death of the API process, can stop it anywhere.
SendGroupReturns(j) ==
    /\ jpc[j] = "sending"
    /\ \/ published[j] = planned[j] /\ jpc' = [jpc EXCEPT ![j] = "true"]
       \/ jpc' = [jpc EXCEPT ![j] = "false"]
    /\ UNCHANGED <<planned, published, bodyVars, queueVars, workerVars, history, budget>>

\* The retention of the stored activity runs out.
ExpireActivity(j) ==
    /\ stored[j]
    /\ stored' = [stored EXCEPT ![j] = FALSE]
    /\ expired' = [expired EXCEPT ![j] = TRUE]
    /\ UNCHANGED <<jobVars, remain, queueVars, workerVars, history, budget>>

-----------------------------------------------------------------------------
(* The worker: the broker's claim, relayActivityV2, retry and acknowledge  *)

\* Mutant: the attempt before the last one counts as the last.
TerminalOneEarly(k) == k.retries <= 1

\* deliveryAttempt.Terminal
Terminal(k) == k.retries <= 0

\* The handler gives an attempt up: the last one finishes the target, an
\* earlier one returns an error and leaves the shared body alone.
AfterFailure(k) == IF Terminal(k) THEN "finish" ELSE "retry"

Goto(w, pc) == wpc' = [wpc EXCEPT ![w] = pc]

Claim(w, k) ==
    /\ wpc[w] = "idle"
    /\ ready[k] > 0
    /\ ready' = Remove(ready, k)
    /\ wtask' = [wtask EXCEPT ![w] = k]
    /\ Goto(w, "load")
    /\ UNCHANGED <<jobVars, bodyVars, delayed, orphaned, history, budget>>

\* HGET of the body: found, gone, or Redis failed.
LoadBody(w) ==
    LET k == wtask[w] IN
    /\ wpc[w] = "load"
    /\ attempts' = [attempts EXCEPT ![k.job][k.target] = @ + 1]
    /\ \/ stored[k.job] /\ Goto(w, "send") /\ UNCHANGED faults
       \/ ~stored[k.job] /\ Goto(w, AfterFailure(k)) /\ UNCHANGED faults
       \/ Fault /\ Goto(w, AfterFailure(k))
    /\ UNCHANGED <<jobVars, bodyVars, queueVars, wtask, accepted, settled, crashes>>

\* The POST: answered 2xx; or refused, unanswered or timed out, in which
\* case the receiver may have taken the activity all the same.
SendActivity(w) ==
    LET k == wtask[w] IN
    /\ wpc[w] = "send"
    /\ \/ /\ accepted' = [accepted EXCEPT ![k.job] = @ \cup {k.target}]
          /\ Goto(w, "finish")
       \/ /\ \/ accepted' = [accepted EXCEPT ![k.job] = @ \cup {k.target}]
             \/ UNCHANGED accepted
          /\ Goto(w, AfterFailure(k))
    /\ UNCHANGED <<jobVars, bodyVars, queueVars, wtask, attempts, settled, budget>>

\* Mutant: the first finished target deletes the shared body.
FinishScriptDeletesAtOnce(j) ==
    IF stored[j]
    THEN /\ remain' = [remain EXCEPT ![j] = @ - 1]
         /\ stored' = [stored EXCEPT ![j] = FALSE]
    ELSE UNCHANGED <<remain, stored>>

\* Mutant: the comparison that deletes the body is off by one.
FinishScriptKeepsAtZero(j) ==
    IF stored[j]
    THEN /\ remain' = [remain EXCEPT ![j] = @ - 1]
         /\ stored' = [stored EXCEPT ![j] = remain[j] - 1 >= 0]
    ELSE UNCHANGED <<remain, stored>>

\* The script of finishRelayTarget.
FinishScript(j) ==
    IF stored[j]
    THEN /\ remain' = [remain EXCEPT ![j] = @ - 1]
         /\ stored' = [stored EXCEPT ![j] = remain[j] - 1 >= 1]
    ELSE UNCHANGED <<remain, stored>>

\* Success or exhaustion: the target leaves the count.  A failed script is
\* only logged.
FinishRelayTarget(w) ==
    LET k == wtask[w] IN
    /\ wpc[w] = "finish"
    /\ \/ FinishScript(k.job) /\ UNCHANGED faults
       \/ Fault /\ UNCHANGED <<remain, stored>>
    /\ settled' = [settled EXCEPT ![k.job] = @ \cup {k.target}]
    /\ Goto(w, "ack")
    /\ UNCHANGED <<jobVars, expired, queueVars, wtask, attempts, accepted, crashes>>

OneRetryLess(k) == [k EXCEPT !.retries = @ - 1]

\* Mutant: the claim is acknowledged although the retry could not be sent.
RetryTaskSwallowsError(w) ==
    LET k == wtask[w] IN
    /\ wpc[w] = "retry"
    /\ \/ delayed' = Add(delayed, OneRetryLess(k)) /\ UNCHANGED faults
       \/ Fault /\ UNCHANGED delayed
    /\ Goto(w, "ack")
    /\ UNCHANGED <<jobVars, bodyVars, ready, orphaned, wtask, history, crashes>>

\* The handler returned an error with retries left: the task is sent again
\* with one retry less, to run after its delay.  When that send fails the
\* processor returns an error and the claim is not acknowledged.
RetryTask(w) ==
    LET k == wtask[w] IN
    /\ wpc[w] = "retry"
    /\ \/ /\ delayed' = Add(delayed, OneRetryLess(k))
          /\ Goto(w, "ack")
          /\ UNCHANGED <<orphaned, wtask, faults>>
       \/ /\ Fault
          /\ orphaned' = Add(orphaned, k)
          /\ wtask' = [wtask EXCEPT ![w] = NoTask]
          /\ Goto(w, "idle")
          /\ UNCHANGED delayed
    /\ UNCHANGED <<jobVars, bodyVars, ready, history, crashes>>

Ack(w) ==
    /\ wpc[w] = "ack"
    /\ wtask' = [wtask EXCEPT ![w] = NoTask]
    /\ Goto(w, "idle")
    /\ UNCHANGED <<jobVars, bodyVars, queueVars, history, budget>>

\* A worker dies with its claim; a new one starts in its place.
Crash(w) ==
    /\ wpc[w] # "idle"
    /\ crashes < MaxCrashes
    /\ crashes' = crashes + 1
    /\ orphaned' = Add(orphaned, wtask[w])
    /\ wtask' = [wtask EXCEPT ![w] = NoTask]
    /\ Goto(w, "idle")
    /\ UNCHANGED <<jobVars, bodyVars, ready, delayed, history, faults>>

\* Mutant: claims on their last attempt are not recovered.
RecoverOnlyRetriable(k) ==
    /\ orphaned[k] > 0
    /\ k.retries > 0
    /\ orphaned' = Remove(orphaned, k)
    /\ ready' = Add(ready, k)
    /\ UNCHANGED <<jobVars, bodyVars, delayed, workerVars, history, budget>>

\* A claim whose lease ran out goes back to the ready list, as it was claimed.
Recover(k) ==
    /\ orphaned[k] > 0
    /\ orphaned' = Remove(orphaned, k)
    /\ ready' = Add(ready, k)
    /\ UNCHANGED <<jobVars, bodyVars, delayed, workerVars, history, budget>>

\* The delay of a retry is over.
Promote(k) ==
    /\ delayed[k] > 0
    /\ delayed' = Remove(delayed, k)
    /\ ready' = Add(ready, k)
    /\ UNCHANGED <<jobVars, bodyVars, orphaned, workerVars, history, budget>>

-----------------------------------------------------------------------------
Enqueue(j) == \/ ReturnEarly(j)
              \/ StoreRelayActivity(j)
              \/ \E t \in Target : PublishTask(j, t)
              \/ SendGroupReturns(j)

Process(w) == \/ \E k \in Task : Claim(w, k)
              \/ LoadBody(w)
              \/ SendActivity(w)
              \/ FinishRelayTarget(w)
              \/ RetryTask(w)
              \/ Ack(w)

Requeue == \E k \in Task : Recover(k) \/ Promote(k)

Next == \/ \E j \in Job : Enqueue(j) \/ ExpireActivity(j)
        \/ \E w \in Worker : Process(w) \/ Crash(w)
        \/ Requeue

Spec == Init /\ [][Next]_vars

\* A worker process runs its processors until it dies, every POST has a
\* timeout, and the broker polls expired leases and due delayed tasks.
Fairness == /\ \A w \in Worker : WF_vars(Process(w))
            /\ WF_vars(Requeue)

FairSpec == Spec /\ Fairness

-----------------------------------------------------------------------------
(* Properties                                                              *)

JobPc    == {"idle", "sending", "true", "false"}
WorkerPc == {"idle", "load", "send", "finish", "retry", "ack"}

\* Every variable has its type; a worker holds a task exactly while it is
\* not idle, and retries only a task that has retries left.
TypeOK ==
    /\ jpc \in [Job -> JobPc]
    /\ planned \in [Job -> SUBSET Target]
    /\ published \in [Job -> SUBSET Target]
    /\ stored \in [Job -> BOOLEAN]
    /\ remain \in [Job -> Int]
    /\ expired \in [Job -> BOOLEAN]
    /\ ready \in [Task -> Nat]
    /\ delayed \in [Task -> Nat]
    /\ orphaned \in [Task -> Nat]
    /\ wpc \in [Worker -> WorkerPc]
    /\ wtask \in [Worker -> Task \cup {NoTask}]
    /\ \A w \in Worker : /\ wtask[w] = NoTask <=> wpc[w] = "idle"
                         /\ wpc[w] = "retry" => wtask[w].retries > 0
    /\ attempts \in [Job -> [Target -> Nat]]
    /\ accepted \in [Job -> SUBSET Target]
    /\ settled \in [Job -> SUBSET Target]
    /\ crashes \in 0 .. MaxCrashes
    /\ faults \in 0 .. MaxFaults

\* The task k is in a queue, in a claim that will be recovered, or with a
\* worker that is not past its last effect.
Pending(k) == ready[k] + delayed[k] + orphaned[k] > 0
InHand(k)  == \E w \in Worker : wtask[w] = k /\ wpc[w] \in {"load", "send", "finish", "retry"}
Alive(k)   == Pending(k) \/ InHand(k)

\* Work is not lost after it was published, whatever dies or fails: a target
\* that has a task is settled or still has one.  (RetryTask sends the retry
\* before Ack drops the claim; finishRelayTarget runs before the handler
\* returns.)
NoSilentLoss ==
    \A j \in Job : \A t \in published[j] :
        \/ t \in settled[j]
        \/ \E k \in Task : k.job = j /\ k.target = t /\ Alive(k)

Unsettled(j) == planned[j] \ settled[j]

\* While no worker has died, the script of finishRelayTarget never deletes a
\* body that a target of the same fan-out still needs for its attempts: the
\* body is there until every planned target is settled or the retention ends.
BodyKeptWhileNeeded ==
    crashes = 0 => \A j \in Job : Unsettled(j) # {} /\ ~expired[j] => stored[j]

\* The same without the proviso on crashes, as ARCHITECTURE.md states it: a
\* target reduces the count only when it is finished, so the body of the
\* others stays.
BodyKeptAcrossRedelivery ==
    \A j \in Job : Unsettled(j) # {} /\ ~expired[j] => stored[j]

\* When every call to Redis succeeds, the last target to be settled deletes
\* the body, and a redelivered task never leaves it behind or brings it back.
BodyRemovedAtEnd ==
    faults = 0 => \A j \in Job : stored[j] => Unsettled(j) # {}

\* A target is given up without having been taken by the receiver only after
\* the first attempt and all the retries, whichever of the worker's paths
\* (body gone, Redis failure, failed POST) the attempts ended on.
FullRetryBudget ==
    \A j \in Job : \A t \in settled[j] :
        t \in accepted[j] \/ attempts[j][t] >= RetryCount + 1

Pairs(f) == {p \in Job \X Target : p[2] \in f[p[1]]}

Promise == INSTANCE AtLeastOnce
           WITH Item     <- Job \X Target,
                queued   <- Pairs(published),
                received <- Pairs(accepted),
                done     <- Pairs(settled)

\* The pipeline implements AtLeastOnce, fairness included: nothing is sent
\* that was not queued, a settled target stays settled, and every published
\* target is settled in the end, across crashes, redeliveries and faults.
ImplementsAtLeastOnce == Promise!Spec

\* Ready list, delayed set and claims become empty and stay so.
QueuesDrain ==
    <>[](/\ \A k \in Task : ~Pending(k)
         /\ \A w \in Worker : wpc[w] = "idle")
=============================================================================
