--------------------------- MODULE DeliveryProofs ---------------------------
(***************************************************************************)
(* Proofs about Delivery, for every set of jobs, targets and workers, every*)
(* number of retries and every number of crashes and faults.               *)
(***************************************************************************)
EXTENDS Delivery, FiniteSetTheorems, TLAPS

-----------------------------------------------------------------------------
\* Two copies of the same delivery, perhaps with different retries left.
SameDelivery(a, b) == a.job = b.job /\ a.target = b.target

-----------------------------------------------------------------------------
(* Type correctness                                                        *)

\* Adding a task to a queue keeps it a bag, and changes one count.
LEMMA AddType ==
    ASSUME NEW bag \in [Task -> Nat], NEW k \in Task
    PROVE  /\ Add(bag, k) \in [Task -> Nat]
           /\ \A a \in Task : Add(bag, k)[a] = IF a = k THEN bag[a] + 1 ELSE bag[a]
BY DEF Add

\* So does removing one that is there.
LEMMA RemoveType ==
    ASSUME NEW bag \in [Task -> Nat], NEW k \in Task, bag[k] > 0
    PROVE  /\ Remove(bag, k) \in [Task -> Nat]
           /\ \A a \in Task : Remove(bag, k)[a] = IF a = k THEN bag[a] - 1 ELSE bag[a]
BY DEF Remove

\* A worker that is not idle holds a task, with a job, a target and retries.
LEMMA HeldTask ==
    ASSUME TypeOK, NEW w \in Worker, wpc[w] # "idle"
    PROVE  /\ wtask[w] \in Task
           /\ wtask[w].job \in Job
           /\ wtask[w].target \in Target
           /\ wtask[w].retries \in 0 .. RetryCount
<1>1. wtask[w] \in Task
  BY Zenon DEF TypeOK
<1> QED
  BY <1>1, Zenon DEF Task

\* Init establishes the types.
LEMMA InitType == Init => TypeOK
<1> SUFFICES ASSUME Init PROVE TypeOK
  OBVIOUS
<1>1. NoTasks \in [Task -> Nat]
  BY Zenon DEF NoTasks
<1>2. crashes \in 0 .. MaxCrashes /\ faults \in 0 .. MaxFaults
  BY DeliveryAssumption DEF Init
<1> QED
  BY <1>1, <1>2 DEF Init, TypeOK, JobPc, WorkerPc

\* Every step of the enqueue calls, the workers and the broker keeps them.
LEMMA NextType == TypeOK /\ [Next]_vars => TypeOK'
<1> USE DEF jobVars, bodyVars, queueVars, workerVars, history, budget
<1> SUFFICES ASSUME TypeOK, [Next]_vars PROVE TypeOK'
  OBVIOUS
<1>1. ASSUME NEW j \in Job, ReturnEarly(j) PROVE TypeOK'
  BY <1>1, ZenonT(60) DEF ReturnEarly, TypeOK, JobPc
<1>2. ASSUME NEW j \in Job, StoreRelayActivity(j) PROVE TypeOK'
  <2>1. PICK S \in (SUBSET Target) \ {{}} :
           planned' = [planned EXCEPT ![j] = S] /\ remain' = [remain EXCEPT ![j] = Cardinality(S)]
    BY <1>2, Zenon DEF StoreRelayActivity
  <2>2. Cardinality(S) \in Int
    BY DeliveryAssumption, FS_Subset, FS_CardinalityType
  <2> QED
    BY <1>2, <2>1, <2>2, Zenon DEF StoreRelayActivity, TypeOK, JobPc
<1>3. ASSUME NEW j \in Job, NEW t \in Target, PublishTask(j, t) PROVE TypeOK'
  <2>1. [job |-> j, target |-> t, retries |-> RetryCount] \in Task
    BY DeliveryAssumption DEF Task
  <2>2. ready' \in [Task -> Nat]
    BY <1>3, <2>1, AddType, Zenon DEF PublishTask, TypeOK
  <2> QED
    BY <1>3, <2>2, Zenon DEF PublishTask, TypeOK
<1>4. ASSUME NEW j \in Job, SendGroupReturns(j) PROVE TypeOK'
  BY <1>4, Zenon DEF SendGroupReturns, TypeOK, JobPc
<1>5. ASSUME NEW j \in Job, ExpireActivity(j) PROVE TypeOK'
  BY <1>5, Zenon DEF ExpireActivity, TypeOK
<1>6. ASSUME NEW w \in Worker, NEW k \in Task, Claim(w, k) PROVE TypeOK'
  <2>1. ready' \in [Task -> Nat]
    BY <1>6, RemoveType, SMTT(30) DEF Claim, TypeOK
  <2> QED
    BY <1>6, <2>1, DeliveryAssumption, Zenon DEF Claim, Goto, TypeOK, WorkerPc
<1>7. ASSUME NEW w \in Worker, LoadBody(w) PROVE TypeOK'
  <2>1. wtask[w].job \in Job /\ wtask[w].target \in Target
    BY <1>7, HeldTask, Zenon DEF LoadBody
  <2>2. attempts' \in [Job -> [Target -> Nat]]
    BY <1>7, <2>1 DEF LoadBody, TypeOK
  <2>3. wpc' \in [Worker -> WorkerPc] /\ wpc'[w] # "idle" /\ \A v \in Worker \ {w} : wpc'[v] = wpc[v]
    BY <1>7, ZenonT(60) DEF LoadBody, Goto, AfterFailure, TypeOK, WorkerPc
  <2>4. faults' \in 0 .. MaxFaults
    BY <1>7, DeliveryAssumption DEF LoadBody, Fault, TypeOK
  <2>5. wpc'[w] = "retry" => wtask[w].retries > 0
    BY <1>7, HeldTask DEF LoadBody, Goto, AfterFailure, Terminal, TypeOK
  <2> QED
    BY <1>7, <2>2, <2>3, <2>4, <2>5, Zenon DEF LoadBody, TypeOK
<1>8. ASSUME NEW w \in Worker, SendActivity(w) PROVE TypeOK'
  <2>1. wtask[w].job \in Job /\ wtask[w].target \in Target
    BY <1>8, HeldTask, Zenon DEF SendActivity
  <2>2. accepted' \in [Job -> SUBSET Target]
    <3>1. \/ accepted' = accepted
          \/ accepted' = [accepted EXCEPT ![wtask[w].job] = @ \cup {wtask[w].target}]
      BY <1>8, Zenon DEF SendActivity
    <3> QED
      BY <2>1, <3>1 DEF TypeOK
  <2>3. wpc' \in [Worker -> WorkerPc] /\ wpc'[w] # "idle" /\ \A v \in Worker \ {w} : wpc'[v] = wpc[v]
    BY <1>8, Zenon DEF SendActivity, Goto, AfterFailure, TypeOK, WorkerPc
  <2>4. wpc'[w] = "retry" => wtask[w].retries > 0
    BY <1>8, HeldTask DEF SendActivity, Goto, AfterFailure, Terminal, TypeOK
  <2> QED
    BY <1>8, <2>2, <2>3, <2>4, SMTT(30) DEF SendActivity, TypeOK
<1>9. ASSUME NEW w \in Worker, FinishRelayTarget(w) PROVE TypeOK'
  <2>1. wtask[w].job \in Job /\ wtask[w].target \in Target
    BY <1>9, HeldTask, Zenon DEF FinishRelayTarget
  <2>2. settled' \in [Job -> SUBSET Target]
    BY <1>9, <2>1, Zenon DEF FinishRelayTarget, TypeOK
  <2>3. remain' \in [Job -> Int] /\ stored' \in [Job -> BOOLEAN]
    <3>1. \/ UNCHANGED <<remain, stored>>
          \/ /\ remain' = [remain EXCEPT ![wtask[w].job] = @ - 1]
             /\ stored' = [stored EXCEPT ![wtask[w].job] = remain[wtask[w].job] - 1 >= 1]
      BY <1>9, Zenon DEF FinishRelayTarget, FinishScript
    <3>2. (remain[wtask[w].job] - 1 >= 1) \in BOOLEAN
      OBVIOUS
    <3>3. remain' \in [Job -> Int]
      BY <2>1, <3>1 DEF TypeOK
    <3>4. stored' \in [Job -> BOOLEAN]
      BY <2>1, <3>1, <3>2, Zenon DEF TypeOK
    <3> QED
      BY <3>3, <3>4, Zenon
  <2>4. faults' \in 0 .. MaxFaults
    BY <1>9, DeliveryAssumption DEF FinishRelayTarget, Fault, TypeOK
  <2> QED
    BY <1>9, <2>2, <2>3, <2>4, Zenon DEF FinishRelayTarget, Goto, TypeOK, WorkerPc
<1>10. ASSUME NEW w \in Worker, RetryTask(w) PROVE TypeOK'
  <2>1. wtask[w] \in Task /\ wtask[w].retries \in 1 .. RetryCount
    BY <1>10, HeldTask, DeliveryAssumption DEF RetryTask, TypeOK
  <2>2. OneRetryLess(wtask[w]) \in Task
    BY <2>1, DeliveryAssumption DEF Task, OneRetryLess
  <2>3. delayed' \in [Task -> Nat] /\ orphaned' \in [Task -> Nat]
    <3>1. \/ /\ delayed' = Add(delayed, OneRetryLess(wtask[w]))
             /\ orphaned' = orphaned
          \/ delayed' = delayed /\ orphaned' = Add(orphaned, wtask[w])
      BY <1>10, Zenon DEF RetryTask
    <3> QED
      BY <2>1, <2>2, <3>1, AddType, SMTT(30) DEF TypeOK
  <2>4. faults' \in 0 .. MaxFaults
    BY <1>10, DeliveryAssumption DEF RetryTask, Fault, TypeOK
  <2>5. /\ wpc' \in [Worker -> WorkerPc] /\ wtask' \in [Worker -> Task \cup {NoTask}]
        /\ \A v \in Worker : wtask'[v] = NoTask <=> wpc'[v] = "idle"
        /\ wpc'[w] # "retry" /\ \A v \in Worker \ {w} : wpc'[v] = wpc[v] /\ wtask'[v] = wtask[v]
    BY <1>10, ZenonT(60) DEF RetryTask, Goto, TypeOK, WorkerPc
  <2> QED
    BY <1>10, <2>3, <2>4, <2>5, SMTT(30) DEF RetryTask, TypeOK
<1>11. ASSUME NEW w \in Worker, Ack(w) PROVE TypeOK'
  BY <1>11, Zenon DEF Ack, Goto, TypeOK, WorkerPc
<1>12. ASSUME NEW w \in Worker, Crash(w) PROVE TypeOK'
  <2>1. orphaned' \in [Task -> Nat]
    BY <1>12, HeldTask, AddType, SMTT(30) DEF Crash, TypeOK
  <2>2. crashes' \in 0 .. MaxCrashes
    BY <1>12, DeliveryAssumption DEF Crash, TypeOK
  <2> QED
    BY <1>12, <2>1, <2>2, Zenon DEF Crash, Goto, TypeOK, WorkerPc
<1>13. ASSUME NEW k \in Task, Recover(k) PROVE TypeOK'
  BY <1>13, AddType, RemoveType, SMTT(30) DEF Recover, TypeOK
<1>14. ASSUME NEW k \in Task, Promote(k) PROVE TypeOK'
  BY <1>14, AddType, RemoveType, Zenon DEF Promote, TypeOK
<1>15. CASE UNCHANGED vars
  BY <1>15, Zenon DEF vars, TypeOK
<1> QED
  BY <1>1, <1>2, <1>3, <1>4, <1>5, <1>6, <1>7, <1>8, <1>9, <1>10, <1>11, <1>12,
     <1>13, <1>14, <1>15 DEF Next, Enqueue, Process, Requeue

\* Every reachable state is well typed.
THEOREM TypeCorrect == Spec => []TypeOK
BY InitType, NextType, PTL DEF Spec

-----------------------------------------------------------------------------
(* No published target is lost                                             *)

\* What an action has to do for NoSilentLoss: leave the published targets
\* alone, never unsettle one, and keep a copy of every delivery that it does
\* not settle.
LEMMA CarriedOver ==
    ASSUME TypeOK, NoSilentLoss,
           published' = published,
           \A j \in Job : settled[j] \subseteq settled'[j],
           \A k \in Task : Alive(k) => \/ k.target \in settled'[k.job]
                                       \/ \E c \in Task : SameDelivery(c, k) /\ Alive(c)'
    PROVE  NoSilentLoss'
<1> SUFFICES ASSUME NEW j \in Job, NEW t \in published[j], t \notin settled'[j]
             PROVE  \E k \in Task : k.job = j /\ k.target = t /\ Alive(k)'
  BY DEF NoSilentLoss
<1>1. PICK k \in Task : k.job = j /\ k.target = t /\ Alive(k)
  BY Zenon DEF NoSilentLoss
<1> QED
  BY <1>1, Zenon DEF SameDelivery

\* A retry puts a copy with one retry less into the delayed tasks or, when
\* that fails, leaves the claimed copy to be recovered.
LEMMA RetryStep ==
    ASSUME TypeOK, NEW w \in Worker, RetryTask(w)
    PROVE  /\ wtask[w] \in Task
           /\ OneRetryLess(wtask[w]) \in Task
           /\ SameDelivery(OneRetryLess(wtask[w]), wtask[w])
           /\ OneRetryLess(wtask[w]).retries = wtask[w].retries - 1
           /\ ready' = ready
           /\ \/ /\ delayed' = Add(delayed, OneRetryLess(wtask[w]))
                 /\ orphaned' = orphaned
                 /\ wtask' = wtask
                 /\ wpc' = [wpc EXCEPT ![w] = "ack"]
              \/ /\ delayed' = delayed
                 /\ orphaned' = Add(orphaned, wtask[w])
                 /\ wtask' = [wtask EXCEPT ![w] = NoTask]
                 /\ wpc' = [wpc EXCEPT ![w] = "idle"]
<1>1. wtask[w] \in Task /\ wtask[w].retries \in 1 .. RetryCount
  BY HeldTask, DeliveryAssumption DEF RetryTask, TypeOK
<1>2. /\ OneRetryLess(wtask[w]) \in Task
      /\ SameDelivery(OneRetryLess(wtask[w]), wtask[w])
      /\ OneRetryLess(wtask[w]).retries = wtask[w].retries - 1
  BY <1>1, DeliveryAssumption DEF Task, OneRetryLess, SameDelivery
<1> QED
  BY <1>1, <1>2, Zenon DEF RetryTask, Goto

\* Every step keeps a copy of every unsettled delivery: the step that drops
\* one copy (Claim, RetryTask, Crash, Recover, Promote) has made another.
LEMMA NextLoss == TypeOK /\ TypeOK' /\ NoSilentLoss /\ [Next]_vars => NoSilentLoss'
<1> USE DEF jobVars, bodyVars, queueVars, workerVars, history, budget
<1> SUFFICES ASSUME TypeOK, TypeOK', NoSilentLoss, [Next]_vars PROVE NoSilentLoss'
  OBVIOUS
<1>q. /\ ready \in [Task -> Nat] /\ delayed \in [Task -> Nat] /\ orphaned \in [Task -> Nat]
      /\ ready' \in [Task -> Nat] /\ delayed' \in [Task -> Nat] /\ orphaned' \in [Task -> Nat]
  BY Zenon DEF TypeOK
<1>w. wpc \in [Worker -> WorkerPc] /\ wtask \in [Worker -> Task \cup {NoTask}]
  BY Zenon DEF TypeOK
<1>0. ASSUME UNCHANGED <<published, settled, ready, delayed, orphaned, wpc, wtask>>
      PROVE  NoSilentLoss'
  BY <1>0 DEF NoSilentLoss, Alive, Pending, InHand
<1>1. ASSUME NEW j \in Job, ReturnEarly(j) PROVE NoSilentLoss'
  BY <1>0, <1>1, Zenon DEF ReturnEarly
<1>2. ASSUME NEW j \in Job, StoreRelayActivity(j) PROVE NoSilentLoss'
  BY <1>0, <1>2, Zenon DEF StoreRelayActivity
<1>3. ASSUME NEW j \in Job, NEW t \in Target, PublishTask(j, t) PROVE NoSilentLoss'
  <2> DEFINE new == [job |-> j, target |-> t, retries |-> RetryCount]
  <2>1. new \in Task /\ new.job = j /\ new.target = t
    BY DeliveryAssumption DEF Task
  <2>2. ready' = Add(ready, new)
    BY <1>3, Zenon DEF PublishTask
  <2> HIDE DEF new
  <2>9. \A k \in Task : ready'[k] = IF k = new THEN ready[k] + 1 ELSE ready[k]
    BY <2>1, <2>2, AddType, ZenonT(60) DEF TypeOK
  <2>3. Alive(new)'
    BY <1>q, <1>3, <2>1, <2>9 DEF Alive, Pending, PublishTask
  <2>4. \A k \in Task : Alive(k) => Alive(k)'
    BY <1>q, <1>3, <2>9, SMTT(30) DEF Alive, Pending, InHand, PublishTask
  <2>5. \A i \in Job : \A u \in published'[i] : u \in published[i] \/ (i = j /\ u = t)
    BY <1>3, SMTT(30) DEF PublishTask, TypeOK
  <2>6. settled' = settled
    BY <1>3, Zenon DEF PublishTask
  <2> SUFFICES ASSUME NEW i \in Job, NEW u \in published'[i], u \notin settled[i]
               PROVE  \E k \in Task : k.job = i /\ k.target = u /\ Alive(k)'
    BY <2>6 DEF NoSilentLoss
  <2>7. CASE i = j /\ u = t
    BY <2>1, <2>3, <2>7, Zenon
  <2>8. CASE u \in published[i]
    BY <2>4, <2>8, ZenonT(60) DEF NoSilentLoss
  <2> QED
    BY <2>5, <2>7, <2>8, Zenon
<1>4. ASSUME NEW j \in Job, SendGroupReturns(j) PROVE NoSilentLoss'
  BY <1>0, <1>4, Zenon DEF SendGroupReturns
<1>5. ASSUME NEW j \in Job, ExpireActivity(j) PROVE NoSilentLoss'
  BY <1>0, <1>5, Zenon DEF ExpireActivity
<1>6. ASSUME NEW w \in Worker, NEW k \in Task, Claim(w, k) PROVE NoSilentLoss'
  <2>1. \A c \in Task : ready'[c] = IF c = k THEN ready[c] - 1 ELSE ready[c]
    BY <1>6, RemoveType DEF Claim, TypeOK
  <2>2. InHand(k)'
    BY <1>6, SMTT(30) DEF InHand, Claim, Goto, TypeOK
  <2>3. \A c \in Task : Alive(c) => Alive(c)'
    BY <1>6, <2>1, <2>2, ZenonT(60) DEF Alive, Pending, InHand, Claim, Goto, TypeOK
  <2> QED
    BY <1>6, <2>3, CarriedOver, Zenon DEF Claim, SameDelivery
<1>7. ASSUME NEW w \in Worker, LoadBody(w) PROVE NoSilentLoss'
  <2>1. \A c \in Task : Alive(c) => Alive(c)'
    BY <1>7 DEF Alive, Pending, InHand, LoadBody, Goto, AfterFailure, TypeOK
  <2> QED
    BY <1>7, <2>1, CarriedOver, SMTT(30) DEF LoadBody, SameDelivery
<1>8. ASSUME NEW w \in Worker, SendActivity(w) PROVE NoSilentLoss'
  <2>1. \A c \in Task : Alive(c) => Alive(c)'
    BY <1>8, ZenonT(60) DEF Alive, Pending, InHand, SendActivity, Goto, AfterFailure, TypeOK
  <2> QED
    BY <1>8, <2>1, CarriedOver, Zenon DEF SendActivity, SameDelivery
<1>9. ASSUME NEW w \in Worker, FinishRelayTarget(w) PROVE NoSilentLoss'
  <2>1. wtask[w] \in Task /\ wtask[w].job \in Job /\ wtask[w].target \in Target
    BY <1>9, HeldTask, SMTT(30) DEF FinishRelayTarget
  <2>2. \A c \in Task : c # wtask[w] /\ Alive(c) => Alive(c)'
    BY <1>9, Zenon DEF Alive, Pending, InHand, FinishRelayTarget, Goto, TypeOK
  <2>3. wtask[w].target \in settled'[wtask[w].job]
    BY <1>9, <2>1, SMTT(30) DEF FinishRelayTarget, TypeOK
  <2>4. \A j \in Job : settled[j] \subseteq settled'[j]
    BY <1>9, <2>1, SMTT(30) DEF FinishRelayTarget, TypeOK
  <2> QED
    BY <1>9, <2>2, <2>3, <2>4, CarriedOver, Zenon DEF FinishRelayTarget, SameDelivery
<1>10. ASSUME NEW w \in Worker, RetryTask(w) PROVE NoSilentLoss'
  <2>1. PICK k \in Task, n \in Task : k = wtask[w] /\ n = OneRetryLess(wtask[w]) /\ SameDelivery(n, k)
    BY <1>10, RetryStep, ZenonT(30)
  <2>2. /\ ready' = ready
        /\ \/ delayed' = Add(delayed, n) /\ orphaned' = orphaned
           \/ delayed' = delayed /\ orphaned' = Add(orphaned, k)
    BY <1>10, <2>1, RetryStep, ZenonT(30)
  <2>3. \A v \in Worker \ {w} : wpc'[v] = wpc[v] /\ wtask'[v] = wtask[v]
    BY <1>10, <1>w, RetryStep, SMTT(30)
  <2>4. \A c \in Task : c # k /\ InHand(c) => InHand(c)'
    BY <2>1, <2>3, Zenon DEF InHand
  <2>5. \A c \in Task : Pending(c) => Pending(c)'
    BY <1>q, <2>2 DEF Pending, Add
  <2>6. Pending(n)' \/ Pending(k)'
    BY <1>q, <2>2 DEF Pending, Add
  <2>7. settled' = settled /\ published' = published
    BY <1>10, Zenon DEF RetryTask
  <2>8. \A c \in Task : Alive(c) => \E d \in Task : SameDelivery(d, c) /\ Alive(d)'
    BY <2>1, <2>4, <2>5, <2>6, SMTT(30) DEF Alive, SameDelivery
  <2> QED
    BY <2>7, <2>8, CarriedOver, SMTT(30) DEF SameDelivery
<1>11. ASSUME NEW w \in Worker, Ack(w) PROVE NoSilentLoss'
  <2>1. \A c \in Task : Alive(c) => Alive(c)'
    BY <1>11, SMTT(30) DEF Alive, Pending, InHand, Ack, Goto, TypeOK
  <2> QED
    BY <1>11, <2>1, CarriedOver, SMTT(30) DEF Ack, SameDelivery
<1>12. ASSUME NEW w \in Worker, Crash(w) PROVE NoSilentLoss'
  <2>1. wtask[w] \in Task
    BY <1>12, HeldTask, SMTT(30) DEF Crash
  <2>2. \A c \in Task : orphaned'[c] = IF c = wtask[w] THEN orphaned[c] + 1 ELSE orphaned[c]
    BY <1>12, <2>1, AddType, SMTT(30) DEF Crash, TypeOK
  <2>3. \A c \in Task : Alive(c) => Alive(c)'
    <3>1. \A c \in Task : Pending(c) \/ c = wtask[w] => Pending(c)'
      BY <1>12, <2>1, <2>2 DEF Pending, Crash, TypeOK
    <3>2. \A c \in Task : c # wtask[w] /\ InHand(c) => InHand(c)'
      BY <1>12, SMTT(30) DEF InHand, Crash, Goto, TypeOK
    <3> QED
      BY <3>1, <3>2, Zenon DEF Alive
  <2> QED
    BY <1>12, <2>3, CarriedOver, Zenon DEF Crash, SameDelivery
<1>13. ASSUME NEW k \in Task, Recover(k) \/ Promote(k) PROVE NoSilentLoss'
  <2>1. \A c \in Task : ready'[c] + delayed'[c] + orphaned'[c] = ready[c] + delayed[c] + orphaned[c]
    <3>1. CASE Recover(k)
      BY <1>q, <3>1 DEF Recover, Add, Remove
    <3>2. CASE Promote(k)
      BY <1>q, <3>2 DEF Promote, Add, Remove
    <3> QED
      BY <1>13, <3>1, <3>2, Zenon
  <2>2. \A c \in Task : Alive(c) => Alive(c)'
    BY <1>13, <2>1, Zenon DEF Alive, Pending, InHand, Recover, Promote
  <2> QED
    BY <1>13, <2>2, CarriedOver, SMTT(30) DEF Recover, Promote, SameDelivery
<1>14. CASE UNCHANGED vars
  BY <1>0, <1>14, Zenon DEF vars
<1> QED
  BY <1>1, <1>2, <1>3, <1>4, <1>5, <1>6, <1>7, <1>8, <1>9, <1>10, <1>11, <1>12,
     <1>13, <1>14 DEF Next, Enqueue, Process, Requeue

\* At-least-once: whatever workers die and whatever calls fail, a published
\* target is settled or still has a task that will be worked on.
THEOREM NothingLost == Spec => []NoSilentLoss
<1>1. Init => NoSilentLoss
  BY Zenon DEF Init, NoSilentLoss
<1> QED
  BY <1>1, NextLoss, TypeCorrect, PTL DEF Spec

-----------------------------------------------------------------------------
(* Retries                                                                 *)

\* Attempts made so far against the retries a copy has left.
AttemptInv ==
    /\ \A k \in Task : Pending(k) => attempts[k.job][k.target] >= RetryCount - k.retries
    /\ \A w \in Worker :
          LET k == wtask[w] IN
          /\ wpc[w] = "load" => attempts[k.job][k.target] >= RetryCount - k.retries
          /\ wpc[w] \in {"send", "finish", "retry", "ack"} =>
                attempts[k.job][k.target] >= RetryCount - k.retries + 1
          /\ wpc[w] = "finish" => k.target \in accepted[k.job] \/ k.retries = 0

-----------------------------------------------------------------------------
\* A copy with r retries left has RetryCount - r attempts behind it.
LEMMA AttemptStep == TypeOK /\ TypeOK' /\ AttemptInv /\ FullRetryBudget /\ [Next]_vars
                         => AttemptInv' /\ FullRetryBudget'
<1> USE DEF jobVars, bodyVars, queueVars, workerVars, history, budget
<1> SUFFICES ASSUME TypeOK, TypeOK', AttemptInv, FullRetryBudget, [Next]_vars
             PROVE  AttemptInv' /\ FullRetryBudget'
  OBVIOUS
<1>q. /\ ready \in [Task -> Nat] /\ delayed \in [Task -> Nat] /\ orphaned \in [Task -> Nat]
      /\ wpc \in [Worker -> WorkerPc] /\ wtask \in [Worker -> Task \cup {NoTask}]
      /\ attempts \in [Job -> [Target -> Nat]] /\ RetryCount \in Nat
  BY DeliveryAssumption, Zenon DEF TypeOK
<1>k. \A k \in Task : k.job \in Job /\ k.target \in Target /\ k.retries \in 0 .. RetryCount
  BY Zenon DEF Task
<1>0. ASSUME UNCHANGED <<queueVars, workerVars, history>> PROVE AttemptInv' /\ FullRetryBudget'
  BY <1>0, Zenon DEF AttemptInv, FullRetryBudget, Pending
<1>1. ASSUME NEW j \in Job, NEW t \in Target, PublishTask(j, t) PROVE AttemptInv' /\ FullRetryBudget'
  <2>1. [job |-> j, target |-> t, retries |-> RetryCount] \in Task
    BY DeliveryAssumption DEF Task
  <2>2. PICK n \in Task : n.job = j /\ n.target = t /\ n.retries = RetryCount /\ ready' = Add(ready, n)
    BY <1>1, <2>1, Zenon DEF PublishTask
  <2>3. \A c \in Task : Pending(c)' => Pending(c) \/ c = n
    BY <1>1, <1>q, <2>2, Zenon DEF PublishTask, Pending, Add
  <2>4. attempts[n.job][n.target] >= RetryCount - n.retries
    BY <1>q, <2>2
  <2>5. UNCHANGED <<workerVars, history>>
    BY <1>1, Zenon DEF PublishTask
  <2> QED
    BY <2>3, <2>4, <2>5, Zenon DEF AttemptInv, FullRetryBudget
<1>2. ASSUME NEW w \in Worker, NEW k \in Task, Claim(w, k) PROVE AttemptInv' /\ FullRetryBudget'
  <2>1. Pending(k) /\ \A c \in Task : Pending(c)' => Pending(c)
    BY <1>2, <1>q DEF Claim, Pending, Remove
  <2> QED
    BY <1>2, <1>q, <2>1, Zenon DEF Claim, Goto, AttemptInv, FullRetryBudget
<1>3. ASSUME NEW w \in Worker, LoadBody(w) PROVE AttemptInv' /\ FullRetryBudget'
  <2>1. PICK k \in Task : k = wtask[w]
    BY <1>3, HeldTask, SMTT(30) DEF LoadBody
  <2>2. /\ attempts'[k.job][k.target] = attempts[k.job][k.target] + 1
        /\ \A i \in Job, u \in Target : attempts'[i][u] \in Nat /\ attempts'[i][u] >= attempts[i][u]
    BY <1>3, <1>q, <1>k, <2>1, SMTT(30) DEF LoadBody
  <2>3. UNCHANGED <<queueVars, wtask, accepted, settled>>
    BY <1>3, ZenonT(60) DEF LoadBody
  <2>4. /\ wpc'[w] \in {"send", "finish", "retry"} /\ (wpc'[w] = "finish" => k.retries = 0)
        /\ \A v \in Worker \ {w} : wpc'[v] = wpc[v]
    BY <1>3, <1>q, <1>k, <2>1 DEF LoadBody, AfterFailure, Terminal, Goto
  <2>5. \A c \in Task : Pending(c)' => attempts'[c.job][c.target] >= RetryCount - c.retries
    <3>1. ASSUME NEW c \in Task, Pending(c)' PROVE attempts'[c.job][c.target] >= RetryCount - c.retries
      <4>1. attempts[c.job][c.target] >= RetryCount - c.retries
        BY <2>3, <3>1, Zenon DEF AttemptInv, Pending
      <4>2. attempts'[c.job][c.target] >= attempts[c.job][c.target]
        BY <1>k, <2>2, Zenon
      <4> QED
        BY <1>q, <1>k, <2>2, <4>1, <4>2, SMTT(30)
    <3> QED
      BY <3>1, SMTT(30)
  <2>6. FullRetryBudget'
    <3>1. ASSUME NEW i \in Job, NEW u \in settled[i], u \notin accepted[i]
          PROVE  attempts'[i][u] >= RetryCount + 1
      <4>1. u \in Target /\ attempts[i][u] >= RetryCount + 1
        BY <3>1, SMTT(30) DEF FullRetryBudget, TypeOK
      <4> QED
        BY <1>q, <2>2, <4>1, SMTT(30)
    <3> QED
      BY <2>3, <3>1, Zenon DEF FullRetryBudget
  <2>7. ASSUME NEW v \in Worker, wpc'[v] # "idle", NEW c \in Task, c = wtask[v]
        PROVE  /\ wpc'[v] = "load" => attempts'[c.job][c.target] >= RetryCount - c.retries
               /\ wpc'[v] \in {"send", "finish", "retry", "ack"} =>
                     attempts'[c.job][c.target] >= RetryCount - c.retries + 1
               /\ wpc'[v] = "finish" => c.target \in accepted[c.job] \/ c.retries = 0
    <3>1. CASE v = w
      <4>1. attempts[c.job][c.target] >= RetryCount - c.retries
        BY <1>3, <2>7, <3>1, SMTT(30) DEF AttemptInv, LoadBody
      <4> QED
        BY <1>q, <1>k, <2>1, <2>2, <2>4, <2>7, <3>1, <4>1, SMTT(30)
    <3>2. CASE v # w
      <4>1. attempts'[c.job][c.target] >= attempts[c.job][c.target] /\ attempts'[c.job][c.target] \in Nat
        BY <1>k, <2>2, Zenon
      <4>2. wpc'[v] = wpc[v] /\ attempts[c.job][c.target] \in Nat /\ c.retries \in Nat
        BY <1>q, <1>k, <2>4, <3>2
      <4>3. /\ wpc[v] = "load" => attempts[c.job][c.target] >= RetryCount - c.retries
            /\ wpc[v] \in {"send", "finish", "retry", "ack"} =>
                  attempts[c.job][c.target] >= RetryCount - c.retries + 1
            /\ wpc[v] = "finish" => c.target \in accepted[c.job] \/ c.retries = 0
        BY <2>7, Zenon DEF AttemptInv
      <4> QED
        BY <1>q, <4>1, <4>2, <4>3, SMTT(30)
    <3> QED
      BY <3>1, <3>2, Zenon
  <2>8. \A v \in Worker : wpc'[v] # "idle" => wtask[v] \in Task
    BY <1>3, <2>1, <2>4, HeldTask, Zenon
  <2> QED
    BY <2>3, <2>5, <2>6, <2>7, <2>8, ZenonT(60) DEF AttemptInv
<1>4. ASSUME NEW w \in Worker, SendActivity(w) PROVE AttemptInv' /\ FullRetryBudget'
  <2>1. PICK k \in Task : k = wtask[w]
    BY <1>4, HeldTask, ZenonT(30) DEF SendActivity
  <2>2. UNCHANGED <<queueVars, wtask, attempts, settled>>
    BY <1>4, ZenonT(60) DEF SendActivity
  <2>3. \A i \in Job : accepted[i] \subseteq accepted'[i]
    BY <1>4, <1>k, <2>1, SMTT(30) DEF SendActivity, TypeOK
  <2>4. /\ wpc'[w] \in {"finish", "retry"}
        /\ wpc'[w] = "finish" => k.target \in accepted'[k.job] \/ k.retries = 0
        /\ \A v \in Worker \ {w} : wpc'[v] = wpc[v]
    BY <1>4, <1>q, <1>k, <2>1 DEF SendActivity, AfterFailure, Terminal, Goto, TypeOK
  <2>5. \A v \in Worker : wpc[v] # "idle" => wtask[v].job \in Job
    BY HeldTask, Zenon
  <2>6. FullRetryBudget'
    BY <2>2, <2>3, Zenon DEF FullRetryBudget
  <2>7. AttemptInv'
    <3>1. \A c \in Task : Pending(c)' <=> Pending(c)
      BY <2>2, Zenon DEF Pending
    <3>2. wpc[w] = "send"
      BY <1>4, ZenonT(60) DEF SendActivity
    <3>3. attempts[k.job][k.target] >= RetryCount - k.retries + 1
      BY <2>1, <3>2, SMTT(30) DEF AttemptInv
    <3>4. \A v \in Worker \ {w} : wpc[v] = "finish" =>
             wtask[v].target \in accepted'[wtask[v].job] \/ wtask[v].retries = 0
      BY <2>3, <2>5, Zenon DEF AttemptInv
    <3> QED
      BY <2>1, <2>2, <2>4, <3>1, <3>3, <3>4, Zenon DEF AttemptInv
  <2> QED
    BY <2>6, <2>7, Zenon
<1>5. ASSUME NEW w \in Worker, FinishRelayTarget(w) PROVE AttemptInv' /\ FullRetryBudget'
  <2>1. PICK k \in Task : k = wtask[w]
    BY <1>5, HeldTask, ZenonT(30) DEF FinishRelayTarget
  <2>2. UNCHANGED <<queueVars, wtask, attempts, accepted>>
    BY <1>5, Zenon DEF FinishRelayTarget
  <2>3. \A i \in Job : \A u \in settled'[i] : u \in settled[i] \/ (i = k.job /\ u = k.target)
    BY <1>5, <1>k, <2>1, Zenon DEF FinishRelayTarget, TypeOK
  <2>4. wpc'[w] = "ack" /\ \A v \in Worker \ {w} : wpc'[v] = wpc[v]
    BY <1>5, <1>q, ZenonT(30) DEF FinishRelayTarget, Goto
  <2>5. k.target \in accepted[k.job] \/ attempts[k.job][k.target] >= RetryCount + 1
    BY <1>5, <1>q, <2>1, SMTT(30) DEF FinishRelayTarget, AttemptInv
  <2>6. FullRetryBudget'
    BY <2>2, <2>3, <2>5, Zenon DEF FullRetryBudget
  <2>7. AttemptInv'
    BY <1>5, <2>2, <2>4, Zenon DEF AttemptInv, Pending, FinishRelayTarget
  <2> QED
    BY <2>6, <2>7, Zenon
<1>6. ASSUME NEW w \in Worker, RetryTask(w) PROVE AttemptInv' /\ FullRetryBudget'
  <2>1. PICK k \in Task, n \in Task :
           /\ k = wtask[w] /\ n = OneRetryLess(wtask[w])
           /\ SameDelivery(n, k) /\ n.retries = k.retries - 1
    BY <1>6, RetryStep, ZenonT(30)
  <2>2. attempts[k.job][k.target] >= RetryCount - k.retries + 1
    BY <1>6, <2>1, Zenon DEF RetryTask, AttemptInv
  <2>3. attempts[n.job][n.target] >= RetryCount - n.retries /\ attempts[k.job][k.target] >= RetryCount - k.retries
    BY <1>q, <1>k, <2>1, <2>2 DEF SameDelivery
  <2>4. \A c \in Task : Pending(c)' => Pending(c) \/ c = n \/ c = k
    BY <1>6, <1>q, <2>1, RetryStep, ZenonT(60) DEF Pending, Add
  <2>5. UNCHANGED history
    BY <1>6, Zenon DEF RetryTask
  <2>6. /\ (wpc'[w] = "ack" /\ wtask'[w] = wtask[w]) \/ wpc'[w] = "idle"
        /\ \A v \in Worker \ {w} : wpc'[v] = wpc[v] /\ wtask'[v] = wtask[v]
    BY <1>6, <1>q, RetryStep, SMTT(30)
  <2> QED
    BY <2>1, <2>2, <2>3, <2>4, <2>5, <2>6, ZenonT(60) DEF AttemptInv, FullRetryBudget
<1>7. ASSUME NEW w \in Worker, Ack(w) PROVE AttemptInv' /\ FullRetryBudget'
  <2>1. UNCHANGED <<queueVars, history>>
    BY <1>7, Zenon DEF Ack
  <2>2. wpc'[w] = "idle" /\ \A v \in Worker \ {w} : wpc'[v] = wpc[v] /\ wtask'[v] = wtask[v]
    BY <1>7, <1>q, Zenon DEF Ack, Goto
  <2>3. \A c \in Task : Pending(c)' <=> Pending(c)
    BY <2>1, Zenon DEF Pending
  <2>4. AttemptInv'
    BY <2>1, <2>2, <2>3, Zenon DEF AttemptInv
  <2>5. FullRetryBudget'
    BY <2>1, Zenon DEF FullRetryBudget
  <2> QED
    BY <2>4, <2>5, Zenon
<1>8. ASSUME NEW w \in Worker, Crash(w) PROVE AttemptInv' /\ FullRetryBudget'
  <2>1. PICK k \in Task : k = wtask[w]
    BY <1>8, HeldTask, Zenon DEF Crash
  <2>2. \A c \in Task : Pending(c)' => Pending(c) \/ c = k
    BY <1>8, <1>q, <2>1, ZenonT(60) DEF Crash, Pending, Add
  <2>3. attempts[k.job][k.target] >= RetryCount - k.retries
    BY <1>8, <1>q, <1>k, <2>1 DEF AttemptInv, Crash, WorkerPc
  <2>4. UNCHANGED history /\ wpc'[w] = "idle" /\ \A v \in Worker \ {w} : wpc'[v] = wpc[v] /\ wtask'[v] = wtask[v]
    BY <1>8, <1>q, SMTT(30) DEF Crash, Goto
  <2> QED
    BY <2>2, <2>3, <2>4, Zenon DEF AttemptInv, FullRetryBudget
<1>9. ASSUME NEW k \in Task, Recover(k) \/ Promote(k) PROVE AttemptInv' /\ FullRetryBudget'
  <2>1. \A c \in Task : Pending(c)' => Pending(c)
    <3>1. CASE Recover(k)
      BY <1>q, <3>1 DEF Recover, Pending, Add, Remove
    <3>2. CASE Promote(k)
      BY <1>q, <3>2 DEF Promote, Pending, Add, Remove
    <3> QED
      BY <1>9, <3>1, <3>2, Zenon
  <2>2. UNCHANGED <<workerVars, history>>
    BY <1>9, Zenon DEF Recover, Promote
  <2> QED
    BY <2>1, <2>2, Zenon DEF AttemptInv, FullRetryBudget
<1>10. ASSUME NEW j \in Job, ReturnEarly(j) \/ StoreRelayActivity(j) \/ SendGroupReturns(j) \/ ExpireActivity(j)
       PROVE  AttemptInv' /\ FullRetryBudget'
  BY <1>0, <1>10, Zenon DEF ReturnEarly, StoreRelayActivity, SendGroupReturns, ExpireActivity
<1>11. CASE UNCHANGED vars
  BY <1>0, <1>11, Zenon DEF vars
<1> QED
  BY <1>1, <1>2, <1>3, <1>4, <1>5, <1>6, <1>7, <1>8, <1>9, <1>10, <1>11, Zenon DEF Next, Enqueue, Process, Requeue

\* No target is given up before its receiver took the activity or the first
\* attempt and every retry were made.
THEOREM RetriesAllUsed == Spec => []FullRetryBudget
<1>1. Init => AttemptInv /\ FullRetryBudget
  <2> SUFFICES ASSUME Init PROVE AttemptInv /\ FullRetryBudget
    OBVIOUS
  <2>1. \A k \in Task : ~Pending(k)
    BY DEF Init, NoTasks, Pending
  <2> QED
    BY <2>1, Zenon DEF Init, AttemptInv, FullRetryBudget
<1> QED
  BY <1>1, AttemptStep, TypeCorrect, PTL DEF Spec

-----------------------------------------------------------------------------
(* The promise of AtLeastOnce, without its fairness                        *)

\* Nothing is worked on that was not published.
PublishedInv ==
    /\ \A k \in Task : Pending(k) => k.target \in published[k.job]
    /\ \A w \in Worker : wpc[w] # "idle" => wtask[w].target \in published[wtask[w].job]

\* What an action has to do for PublishedInv: a task in a queue, or in the hands
\* of a worker, is a copy of one that was there before.
LEMMA CopiesOnly ==
    ASSUME TypeOK, TypeOK', PublishedInv,
           \A j \in Job : published[j] \subseteq published'[j],
           \A k \in Task : Pending(k)' =>
               \/ \E c \in Task : SameDelivery(c, k) /\ Pending(c)
               \/ \E w \in Worker : wpc[w] # "idle" /\ SameDelivery(wtask[w], k),
           \A w \in Worker : wpc'[w] # "idle" =>
               \/ wpc[w] # "idle" /\ wtask'[w] = wtask[w]
               \/ Pending(wtask'[w])
    PROVE  PublishedInv'
<1>1. \A k \in Task : k.job \in Job
  BY Zenon DEF Task
<1>2. ASSUME NEW k \in Task, Pending(k)' PROVE k.target \in published'[k.job]
  <2>1. CASE \E c \in Task : SameDelivery(c, k) /\ Pending(c)
    BY <1>1, <2>1, Zenon DEF PublishedInv, SameDelivery
  <2>2. CASE \E w \in Worker : wpc[w] # "idle" /\ SameDelivery(wtask[w], k)
    BY <1>1, <2>2, Zenon DEF PublishedInv, SameDelivery
  <2> QED
    BY <1>2, <2>1, <2>2, Zenon
<1>3. ASSUME NEW w \in Worker, wpc'[w] # "idle" PROVE wtask'[w].target \in published'[wtask'[w].job]
  <2>1. wtask'[w] \in Task
    BY <1>3, Zenon DEF TypeOK
  <2>2. wtask'[w].target \in published[wtask'[w].job]
    BY <1>3, <2>1, Zenon DEF PublishedInv
  <2> QED
    BY <1>1, <2>1, <2>2, Zenon
<1> QED
  BY <1>2, <1>3, Zenon DEF PublishedInv

\* Retries, claims and recoveries copy tasks; only PublishTask makes new ones.
LEMMA PublishedStep == TypeOK /\ TypeOK' /\ PublishedInv /\ [Next]_vars => PublishedInv'
<1> USE DEF jobVars, bodyVars, queueVars, workerVars, history, budget
<1> SUFFICES ASSUME TypeOK, TypeOK', PublishedInv, [Next]_vars PROVE PublishedInv'
  OBVIOUS
<1>q. /\ ready \in [Task -> Nat] /\ delayed \in [Task -> Nat] /\ orphaned \in [Task -> Nat]
      /\ wpc \in [Worker -> WorkerPc] /\ wtask \in [Worker -> Task \cup {NoTask}]
      /\ published \in [Job -> SUBSET Target]
  BY Zenon DEF TypeOK
<1>s. \A k \in Task : SameDelivery(k, k)
  BY Zenon DEF SameDelivery
<1>0. ASSUME UNCHANGED <<published, queueVars, workerVars>> PROVE PublishedInv'
  BY <1>0, Zenon DEF PublishedInv, Pending
<1>1. ASSUME NEW j \in Job, NEW t \in Target, PublishTask(j, t) PROVE PublishedInv'
  <2>1. [job |-> j, target |-> t, retries |-> RetryCount] \in Task
    BY DeliveryAssumption DEF Task
  <2>2. PICK n \in Task : n.job = j /\ n.target = t /\ ready' = Add(ready, n)
    BY <1>1, <2>1, Zenon DEF PublishTask
  <2>3. \A c \in Task : Pending(c)' => Pending(c) \/ c = n
    BY <1>1, <1>q, <2>2, Zenon DEF PublishTask, Pending, Add
  <2>4. t \in published'[j] /\ \A i \in Job : published[i] \subseteq published'[i]
    BY <1>1, <1>q, Zenon DEF PublishTask
  <2>5. \A k \in Task : k.job \in Job
    BY Zenon DEF Task
  <2>6. \A w \in Worker : wpc[w] # "idle" => wtask[w].job \in Job
    BY HeldTask, Zenon
  <2>7. UNCHANGED workerVars
    BY <1>1, Zenon DEF PublishTask
  <2> QED
    BY <2>2, <2>3, <2>4, <2>5, <2>6, <2>7, ZenonT(60) DEF PublishedInv
<1>2. ASSUME NEW w \in Worker, NEW k \in Task, Claim(w, k) PROVE PublishedInv'
  <2>1. Pending(k) /\ \A c \in Task : Pending(c)' => Pending(c)
    BY <1>2, <1>q DEF Claim, Pending, Remove
  <2>2. published' = published
    BY <1>2, Zenon DEF Claim
  <2>3. wtask'[w] = k /\ \A v \in Worker \ {w} : wpc'[v] = wpc[v] /\ wtask'[v] = wtask[v]
    BY <1>2, <1>q, Zenon DEF Claim, Goto
  <2> QED
    BY <1>s, <2>1, <2>2, <2>3, CopiesOnly, Zenon
<1>3. ASSUME NEW w \in Worker, LoadBody(w) \/ SendActivity(w) \/ FinishRelayTarget(w) PROVE PublishedInv'
  <2>1. UNCHANGED <<published, queueVars, wtask>> /\ wpc[w] # "idle"
    BY <1>3, Zenon DEF LoadBody, SendActivity, FinishRelayTarget
  <2>2. \A v \in Worker \ {w} : wpc'[v] = wpc[v]
    BY <1>3, <1>q, ZenonT(30) DEF LoadBody, SendActivity, FinishRelayTarget, Goto
  <2> QED
    BY <2>1, <2>2, Zenon DEF PublishedInv, Pending
<1>4. ASSUME NEW w \in Worker, RetryTask(w) PROVE PublishedInv'
  <2>1. PICK k \in Task, n \in Task : k = wtask[w] /\ n = OneRetryLess(wtask[w]) /\ SameDelivery(n, k)
    BY <1>4, RetryStep, ZenonT(30)
  <2>2. \A c \in Task : Pending(c)' => Pending(c) \/ c = n \/ c = k
    BY <1>4, <1>q, <2>1, RetryStep, ZenonT(60) DEF Pending, Add
  <2>3. /\ wpc'[w] # "idle" => wtask'[w] = wtask[w]
        /\ \A v \in Worker \ {w} : wpc'[v] = wpc[v] /\ wtask'[v] = wtask[v]
    BY <1>4, <1>q, RetryStep, SMTT(30)
  <2>4. published' = published /\ wpc[w] # "idle"
    BY <1>4, Zenon DEF RetryTask
  <2>5. SameDelivery(wtask[w], n)
    BY <2>1, Zenon DEF SameDelivery
  <2> QED
    BY <1>s, <2>1, <2>2, <2>3, <2>4, <2>5, CopiesOnly, ZenonT(30)
<1>5. ASSUME NEW w \in Worker, Ack(w) PROVE PublishedInv'
  <2>1. UNCHANGED <<published, queueVars>>
    BY <1>5, Zenon DEF Ack
  <2>2. wpc'[w] = "idle" /\ \A v \in Worker \ {w} : wpc'[v] = wpc[v] /\ wtask'[v] = wtask[v]
    BY <1>5, <1>q, Zenon DEF Ack, Goto
  <2> QED
    BY <2>1, <2>2, Zenon DEF PublishedInv, Pending
<1>6. ASSUME NEW w \in Worker, Crash(w) PROVE PublishedInv'
  <2>1. PICK k \in Task : k = wtask[w]
    BY <1>6, HeldTask, Zenon DEF Crash
  <2>2. \A c \in Task : Pending(c)' => Pending(c) \/ c = k
    BY <1>6, <1>q, <2>1, Zenon DEF Crash, Pending, Add
  <2>3. /\ published' = published /\ wpc[w] # "idle" /\ wpc'[w] = "idle"
        /\ \A v \in Worker \ {w} : wpc'[v] = wpc[v] /\ wtask'[v] = wtask[v]
    BY <1>6, <1>q, Zenon DEF Crash, Goto
  <2> QED
    BY <1>s, <2>1, <2>2, <2>3, CopiesOnly, Zenon
<1>7. ASSUME NEW k \in Task, Recover(k) \/ Promote(k) PROVE PublishedInv'
  <2>1. \A c \in Task : Pending(c)' => Pending(c)
    <3>1. CASE Recover(k)
      BY <1>q, <3>1 DEF Recover, Pending, Add, Remove
    <3>2. CASE Promote(k)
      BY <1>q, <3>2 DEF Promote, Pending, Add, Remove
    <3> QED
      BY <1>7, <3>1, <3>2, Zenon
  <2>2. UNCHANGED <<published, workerVars>>
    BY <1>7, Zenon DEF Recover, Promote
  <2> QED
    BY <2>1, <2>2, Zenon DEF PublishedInv
<1>8. ASSUME NEW j \in Job, ReturnEarly(j) \/ StoreRelayActivity(j) \/ SendGroupReturns(j) \/ ExpireActivity(j)
      PROVE  PublishedInv'
  BY <1>0, <1>8, Zenon DEF ReturnEarly, StoreRelayActivity, SendGroupReturns, ExpireActivity
<1>9. CASE UNCHANGED vars
  BY <1>0, <1>9, Zenon DEF vars
<1> QED
  BY <1>1, <1>2, <1>3, <1>4, <1>5, <1>6, <1>7, <1>8, <1>9, Zenon DEF Next, Enqueue, Process, Requeue

\* One more target of one job is one more pair.
LEMMA PairsAdd ==
    ASSUME NEW f \in [Job -> SUBSET Target], NEW j \in Job, NEW t \in Target
    PROVE  Pairs([f EXCEPT ![j] = @ \cup {t}]) = Pairs(f) \cup {<<j, t>>}
BY DEF Pairs

\* A pair says that the target is among those of the job.
LEMMA InPairs ==
    ASSUME NEW f, NEW j \in Job, NEW t \in Target
    PROVE  <<j, t>> \in Pairs(f) <=> t \in f[j]
BY DEF Pairs

\* Every step of the pipeline is a step of AtLeastOnce or changes nothing that
\* it tells of.
LEMMA PromiseStep ==
    TypeOK /\ PublishedInv /\ [Next]_vars => [Promise!Next]_(Promise!vars)
<1> USE DEF jobVars, bodyVars, queueVars, workerVars, history, budget
<1> SUFFICES ASSUME TypeOK, PublishedInv, [Next]_vars PROVE [Promise!Next]_(Promise!vars)
  OBVIOUS
<1>t. /\ published \in [Job -> SUBSET Target] /\ accepted \in [Job -> SUBSET Target]
      /\ settled \in [Job -> SUBSET Target]
  BY Zenon DEF TypeOK
<1>0. ASSUME UNCHANGED <<published, accepted, settled>> PROVE UNCHANGED Promise!vars
  BY <1>0, Zenon DEF Promise!vars, Pairs
<1>1. ASSUME NEW j \in Job, NEW t \in Target, PublishTask(j, t) PROVE Promise!Next
  <2>1. t \notin published[j] /\ published' = [published EXCEPT ![j] = @ \cup {t}]
    BY <1>1, Zenon DEF PublishTask
  <2>2. Pairs(published') = Pairs(published) \cup {<<j, t>>} /\ <<j, t>> \notin Pairs(published)
    BY <1>t, <2>1, PairsAdd, InPairs, ZenonT(60)
  <2>3. UNCHANGED <<Pairs(accepted), Pairs(settled)>>
    BY <1>1, Zenon DEF PublishTask, Pairs
  <2>4. Promise!Queue(<<j, t>>)
    BY <2>2, <2>3, Zenon DEF Promise!Queue, Pairs
  <2>5. <<j, t>> \in Job \X Target
    BY Zenon
  <2> QED
    BY <2>4, <2>5, Zenon DEF Promise!Next
<1>h. ASSUME NEW w \in Worker, wpc[w] # "idle"
      PROVE  \E j \in Job, t \in Target : wtask[w].job = j /\ wtask[w].target = t /\ <<j, t>> \in Pairs(published)
  BY <1>h, HeldTask, InPairs, Zenon DEF PublishedInv
<1>2. ASSUME NEW w \in Worker, SendActivity(w) PROVE [Promise!Next]_(Promise!vars)
  <2>1. wpc[w] # "idle"
    BY <1>2, Zenon DEF SendActivity
  <2>2. PICK j \in Job, t \in Target :
           wtask[w].job = j /\ wtask[w].target = t /\ <<j, t>> \in Pairs(published)
    BY <1>h, <2>1, Zenon
  <2>3. UNCHANGED <<published, settled>>
    BY <1>2, Zenon DEF SendActivity
  <2>4. CASE UNCHANGED accepted
    BY <1>0, <2>3, <2>4, Zenon
  <2>5. CASE accepted' = [accepted EXCEPT ![j] = @ \cup {t}]
    <3>0. Pairs([accepted EXCEPT ![j] = @ \cup {t}]) = Pairs(accepted) \cup {<<j, t>>}
      BY <1>t, PairsAdd, ZenonT(60)
    <3>1. Pairs(accepted') = Pairs(accepted) \cup {<<j, t>>}
      BY <2>5, <3>0, Zenon
    <3>2. UNCHANGED <<Pairs(published), Pairs(settled)>>
      BY <2>3, Zenon DEF Pairs
    <3>3. Promise!Receive(<<j, t>>)
      BY <2>2, <3>1, <3>2, Zenon DEF Promise!Receive, Pairs
    <3>4. <<j, t>> \in Job \X Target
      BY Zenon
    <3> QED
      BY <3>3, <3>4, Zenon DEF Promise!Next
  <2> QED
    BY <1>2, <2>2, <2>4, <2>5, Zenon DEF SendActivity
<1>3. ASSUME NEW w \in Worker, FinishRelayTarget(w) PROVE [Promise!Next]_(Promise!vars)
  <2>1. wpc[w] # "idle"
    BY <1>3, Zenon DEF FinishRelayTarget
  <2>2. PICK j \in Job, t \in Target :
           wtask[w].job = j /\ wtask[w].target = t /\ <<j, t>> \in Pairs(published)
    BY <1>h, <2>1, Zenon
  <2>3. UNCHANGED <<published, accepted>> /\ settled' = [settled EXCEPT ![j] = @ \cup {t}]
    BY <1>3, <2>2, Zenon DEF FinishRelayTarget
  <2>4. Pairs(settled') = Pairs(settled) \cup {<<j, t>>}
    BY <1>t, <2>3, PairsAdd, ZenonT(60)
  <2>5. UNCHANGED <<Pairs(published), Pairs(accepted)>>
    BY <2>3, Zenon DEF Pairs
  <2>6. CASE <<j, t>> \in Pairs(settled)
    <3>1. Pairs(settled') = Pairs(settled)
      BY <2>4, <2>6, Zenon
    <3> QED
      BY <2>5, <3>1, Zenon DEF Promise!vars, Pairs
  <2>7. CASE <<j, t>> \notin Pairs(settled)
    <3>1. Promise!Finish(<<j, t>>)
      BY <2>2, <2>4, <2>5, <2>7, Zenon DEF Promise!Finish, Pairs
    <3>2. <<j, t>> \in Job \X Target
      BY Zenon
    <3> QED
      BY <3>1, <3>2, Zenon DEF Promise!Next
  <2> QED
    BY <2>6, <2>7, Zenon
<1>4. ASSUME NEW w \in Worker, NEW k \in Task, Claim(w, k) PROVE UNCHANGED Promise!vars
  BY <1>0, <1>4, Zenon DEF Claim
<1>5. ASSUME NEW w \in Worker, LoadBody(w) \/ RetryTask(w) \/ Ack(w) \/ Crash(w)
      PROVE  UNCHANGED Promise!vars
  BY <1>0, <1>5, Zenon DEF LoadBody, RetryTask, Ack, Crash
<1>6. ASSUME NEW k \in Task, Recover(k) \/ Promote(k) PROVE UNCHANGED Promise!vars
  BY <1>0, <1>6, Zenon DEF Recover, Promote
<1>7. ASSUME NEW j \in Job, ReturnEarly(j) \/ StoreRelayActivity(j) \/ SendGroupReturns(j) \/ ExpireActivity(j)
      PROVE  UNCHANGED Promise!vars
  BY <1>0, <1>7, Zenon DEF ReturnEarly, StoreRelayActivity, SendGroupReturns, ExpireActivity
<1>8. CASE UNCHANGED vars
  BY <1>0, <1>8, Zenon DEF vars
<1> QED
  BY <1>1, <1>2, <1>3, <1>4, <1>5, <1>6, <1>7, <1>8, Zenon DEF Next, Enqueue, Process, Requeue

\* The pipeline refines AtLeastOnce but for its fairness: whatever dies, is sent
\* again or fails, a receiver gets only what was published for it, and only
\* published targets are settled, once and for all.
THEOREM PromiseKept == Spec => Promise!Safety
<1>1. Init => PublishedInv
  <2> SUFFICES ASSUME Init PROVE PublishedInv
    OBVIOUS
  <2>1. \A k \in Task : ~Pending(k)
    BY DEF Init, NoTasks, Pending
  <2> QED
    BY <2>1, Zenon DEF Init, PublishedInv
<1>2. Init => Promise!Init
  BY DEF Init, Promise!Init, Pairs
<1> QED
  BY <1>1, <1>2, PublishedStep, PromiseStep, TypeCorrect, PTL DEF Spec, Promise!Safety
=============================================================================
