------------------------- MODULE DeliveryBodyProofs -------------------------
(***************************************************************************)
(* Proofs about the body that the tasks of a fan-out share (Delivery).     *)
(***************************************************************************)
EXTENDS DeliveryProofs

-----------------------------------------------------------------------------
(* The inductive invariant                                                 *)

\* The claimed task of w still has an effect to come.
Active(w) == wpc[w] \in {"load", "send", "finish", "retry"}

\* An enqueue call has no state before it stores the body, and only planned
\* targets are published and only published ones settled.
JobInv ==
    \A j \in Job :
        /\ jpc[j] = "idle" =>
              planned[j] = {} /\ published[j] = {} /\ ~stored[j] /\ ~expired[j]
        /\ published[j] \subseteq planned[j]
        /\ settled[j] \subseteq published[j]

\* Tasks exist only for published targets.
OriginInv ==
    /\ \A k \in Task : Pending(k) => k.target \in published[k.job]
    /\ \A w \in Worker : wpc[w] # "idle" => wtask[w].target \in published[wtask[w].job]

\* Until a worker dies there is at most one copy of a delivery, and none
\* once its target is settled.
SingleInv ==
    crashes = 0 =>
        /\ \A k \in Task : ready[k] + delayed[k] + orphaned[k] <= 1
        /\ \A a, b \in Task : Pending(a) /\ Pending(b) /\ SameDelivery(a, b) => a = b
        /\ \A w \in Worker, k \in Task :
              Active(w) /\ Pending(k) => ~SameDelivery(wtask[w], k)
        /\ \A v, w \in Worker :
              Active(v) /\ Active(w) /\ SameDelivery(wtask[v], wtask[w]) => v = w
        /\ \A k \in Task : Pending(k) => k.target \notin settled[k.job]
        /\ \A w \in Worker : Active(w) => wtask[w].target \notin settled[wtask[w].job]

\* remain_count against the targets that are not settled: a lost decrement
\* makes it too high, a repeated one too low.
CountInv ==
    \A j \in Job :
        /\ stored[j] => remain[j] >= 1
        /\ crashes = 0 /\ stored[j] => remain[j] >= Cardinality(Unsettled(j))
        /\ faults = 0 /\ stored[j] => remain[j] <= Cardinality(Unsettled(j))

\* The inductive invariant of both theorems on the body.
BodyInv == JobInv /\ OriginInv /\ SingleInv /\ CountInv /\ BodyKeptWhileNeeded

-----------------------------------------------------------------------------
(* The shared body                                                         *)

\* Nothing is published or settled that was not planned or published.
LEMMA JobStep == TypeOK /\ JobInv /\ OriginInv /\ [Next]_vars => JobInv'
<1> USE DEF jobVars, bodyVars, queueVars, workerVars, history, budget
<1> SUFFICES ASSUME TypeOK, JobInv, OriginInv, [Next]_vars PROVE JobInv'
  OBVIOUS
<1>0. ASSUME UNCHANGED <<jpc, planned, published, stored, expired, settled>> PROVE JobInv'
  BY <1>0, Zenon DEF JobInv
<1>1. ASSUME NEW j \in Job, ReturnEarly(j) PROVE JobInv'
  BY <1>1, Zenon DEF ReturnEarly, JobInv, TypeOK
<1>2. ASSUME NEW j \in Job, StoreRelayActivity(j) PROVE JobInv'
  <2>1. PICK S \in SUBSET Target : planned' = [planned EXCEPT ![j] = S]
    BY <1>2, Zenon DEF StoreRelayActivity
  <2> QED
    BY <1>2, <2>1, Zenon DEF StoreRelayActivity, JobInv, TypeOK
<1>3. ASSUME NEW j \in Job, NEW t \in Target, PublishTask(j, t) PROVE JobInv'
  BY <1>3, Zenon DEF PublishTask, JobInv, TypeOK
<1>4. ASSUME NEW j \in Job, SendGroupReturns(j) PROVE JobInv'
  BY <1>4, ZenonT(60) DEF SendGroupReturns, JobInv, TypeOK
<1>5. ASSUME NEW j \in Job, ExpireActivity(j) PROVE JobInv'
  BY <1>5, Zenon DEF ExpireActivity, JobInv, TypeOK
<1>6. ASSUME NEW w \in Worker, FinishRelayTarget(w) PROVE JobInv'
  <2>1. wtask[w].job \in Job /\ wtask[w].target \in published[wtask[w].job]
    BY <1>6, HeldTask, Zenon DEF FinishRelayTarget, OriginInv
  <2>2. \A j \in Job : stored'[j] => stored[j]
    BY <1>6, <2>1, SMTT(30) DEF FinishRelayTarget, FinishScript, TypeOK
  <2> QED
    BY <1>6, <2>1, <2>2, ZenonT(60) DEF FinishRelayTarget, JobInv, TypeOK
<1>7. ASSUME NEW w \in Worker, \/ \E k \in Task : Claim(w, k)
                               \/ LoadBody(w) \/ SendActivity(w) \/ RetryTask(w)
                               \/ Ack(w) \/ Crash(w)
      PROVE  JobInv'
  BY <1>0, <1>7, Zenon DEF Claim, LoadBody, SendActivity, RetryTask, Ack, Crash
<1>8. ASSUME NEW k \in Task, Recover(k) \/ Promote(k) PROVE JobInv'
  BY <1>0, <1>8, Zenon DEF Recover, Promote
<1>9. CASE UNCHANGED vars
  BY <1>0, <1>9, Zenon DEF vars
<1> QED
  BY <1>1, <1>2, <1>3, <1>4, <1>5, <1>6, <1>7, <1>8, <1>9, Zenon DEF Next, Enqueue, Process, Requeue

\* Tasks are made only by PublishTask and from other tasks.
LEMMA OriginStep == TypeOK /\ TypeOK' /\ OriginInv /\ [Next]_vars => OriginInv'
<1> USE DEF jobVars, bodyVars, queueVars, workerVars, history, budget
<1> SUFFICES ASSUME TypeOK, TypeOK', OriginInv, [Next]_vars PROVE OriginInv'
  OBVIOUS
<1>q. /\ ready \in [Task -> Nat] /\ delayed \in [Task -> Nat] /\ orphaned \in [Task -> Nat]
      /\ wpc \in [Worker -> WorkerPc] /\ wtask \in [Worker -> Task \cup {NoTask}]
  BY Zenon DEF TypeOK
<1>0. ASSUME UNCHANGED <<published, queueVars, workerVars>> PROVE OriginInv'
  BY <1>0, Zenon DEF OriginInv, Pending
<1>1. ASSUME NEW j \in Job, NEW t \in Target, PublishTask(j, t) PROVE OriginInv'
  <2>1. [job |-> j, target |-> t, retries |-> RetryCount] \in Task
    BY DeliveryAssumption DEF Task
  <2>2. PICK n \in Task : n.job = j /\ n.target = t /\ ready' = Add(ready, n)
    BY <1>1, <2>1, Zenon DEF PublishTask
  <2>3. \A i \in Job : published[i] \subseteq published'[i]
    BY <1>1, Zenon DEF PublishTask, TypeOK
  <2>4. t \in published'[j]
    BY <1>1, Zenon DEF PublishTask, TypeOK
  <2>5. \A k \in Task : k.job \in Job
    BY Zenon DEF Task
  <2>6. \A k \in Task : Pending(k)' => Pending(k) \/ k = n
    BY <1>1, <1>q, <2>2, Zenon DEF PublishTask, Pending, Add
  <2>7. ASSUME NEW v \in Worker, wpc'[v] # "idle" PROVE wtask'[v].target \in published'[wtask'[v].job]
    <3>1. wpc' = wpc /\ wtask' = wtask
      BY <1>1, Zenon DEF PublishTask
    <3> QED
      BY <2>3, <2>7, <3>1, HeldTask, Zenon DEF OriginInv
  <2> QED
    BY <2>2, <2>3, <2>4, <2>5, <2>6, <2>7, Zenon DEF OriginInv
<1>2. ASSUME NEW w \in Worker, NEW k \in Task, Claim(w, k) PROVE OriginInv'
  <2>1. \A c \in Task : Pending(c)' => Pending(c)
    BY <1>2, <1>q DEF Claim, Pending, Remove
  <2>2. Pending(k)
    BY <1>2, <1>q, SMTT(30) DEF Claim, Pending
  <2> QED
    BY <1>2, <1>q, <2>1, <2>2, Zenon DEF Claim, Goto, OriginInv
<1>3. ASSUME NEW w \in Worker, LoadBody(w) \/ SendActivity(w) \/ FinishRelayTarget(w) PROVE OriginInv'
  BY <1>3, <1>q, Zenon DEF LoadBody, SendActivity, FinishRelayTarget, Goto, OriginInv, Pending
<1>4. ASSUME NEW w \in Worker, RetryTask(w) PROVE OriginInv'
  <2>1. PICK k \in Task, n \in Task : k = wtask[w] /\ n = OneRetryLess(wtask[w]) /\ SameDelivery(n, k)
    BY <1>4, RetryStep, Zenon
  <2>2. \A c \in Task : Pending(c)' => Pending(c) \/ c = n \/ c = k
    BY <1>4, <1>q, <2>1, RetryStep, ZenonT(60) DEF Pending, Add
  <2>3. k.target \in published[k.job] /\ n.target \in published[n.job]
    BY <1>4, <2>1, Zenon DEF RetryTask, OriginInv, SameDelivery
  <2>4. published' = published
    BY <1>4, Zenon DEF RetryTask
  <2>5. ASSUME NEW v \in Worker, wpc'[v] # "idle" PROVE wtask'[v].target \in published'[wtask'[v].job]
    BY <1>4, <1>q, <2>3, <2>4, <2>1, <2>5, RetryStep, SMTT(30) DEF OriginInv
  <2> QED
    BY <2>2, <2>3, <2>4, <2>5, Zenon DEF OriginInv
<1>5. ASSUME NEW w \in Worker, Ack(w) PROVE OriginInv'
  BY <1>5, <1>q, Zenon DEF Ack, Goto, OriginInv, Pending
<1>6. ASSUME NEW w \in Worker, Crash(w) PROVE OriginInv'
  <2>1. PICK k \in Task : k = wtask[w] /\ k.target \in published[k.job]
    BY <1>6, HeldTask, Zenon DEF Crash, OriginInv
  <2>2. \A c \in Task : Pending(c)' => Pending(c) \/ c = k
    BY <1>6, <1>q, <2>1, SMTT(30) DEF Crash, Pending, Add
  <2> QED
    BY <1>6, <1>q, <2>1, <2>2, SMTT(30) DEF Crash, Goto, OriginInv
<1>7. ASSUME NEW k \in Task, Recover(k) \/ Promote(k) PROVE OriginInv'
  <2>1. \A c \in Task : Pending(c)' => Pending(c)
    <3>1. CASE Recover(k)
      BY <1>q, <3>1 DEF Recover, Pending, Add, Remove
    <3>2. CASE Promote(k)
      BY <1>q, <3>2 DEF Promote, Pending, Add, Remove
    <3> QED
      BY <1>7, <3>1, <3>2, Zenon
  <2> QED
    BY <1>7, <2>1, Zenon DEF Recover, Promote, OriginInv
<1>8. ASSUME NEW j \in Job, ReturnEarly(j) \/ StoreRelayActivity(j) \/ SendGroupReturns(j) \/ ExpireActivity(j)
      PROVE  OriginInv'
  BY <1>0, <1>8, Zenon DEF ReturnEarly, StoreRelayActivity, SendGroupReturns, ExpireActivity
<1>9. CASE UNCHANGED vars
  BY <1>0, <1>9, Zenon DEF vars
<1> QED
  BY <1>1, <1>2, <1>3, <1>4, <1>5, <1>6, <1>7, <1>8, <1>9, Zenon DEF Next, Enqueue, Process, Requeue

\* While no worker has died there is one copy of a delivery at a time.
LEMMA SingleStep ==
    TypeOK /\ TypeOK' /\ JobInv /\ OriginInv /\ SingleInv /\ [Next]_vars => SingleInv'
<1> USE DEF jobVars, bodyVars, queueVars, workerVars, history, budget
<1> SUFFICES ASSUME TypeOK, TypeOK', JobInv, OriginInv, SingleInv, [Next]_vars, crashes' = 0
             PROVE  SingleInv'
  BY Zenon DEF SingleInv
<1>q. /\ ready \in [Task -> Nat] /\ delayed \in [Task -> Nat] /\ orphaned \in [Task -> Nat]
      /\ wpc \in [Worker -> WorkerPc] /\ wtask \in [Worker -> Task \cup {NoTask}]
  BY Zenon DEF TypeOK
<1>0. ASSUME UNCHANGED <<queueVars, workerVars, settled, crashes>> PROVE SingleInv'
  BY <1>0, SMTT(30) DEF SingleInv, Active, Pending
<1>1. ASSUME NEW j \in Job, NEW t \in Target, PublishTask(j, t) PROVE SingleInv'
  <2>1. [job |-> j, target |-> t, retries |-> RetryCount] \in Task
    BY DeliveryAssumption DEF Task
  <2>2. PICK n \in Task : n.job = j /\ n.target = t /\ ready' = Add(ready, n)
    BY <1>1, <2>1, Zenon DEF PublishTask
  <2>3. t \notin published[j] /\ t \notin settled[j]
    BY <1>1, Zenon DEF PublishTask, JobInv
  <2>4. \A k \in Task : SameDelivery(k, n) => ~Pending(k)
    BY <2>2, <2>3, Zenon DEF OriginInv, SameDelivery
  <2>5. \A w \in Worker : Active(w) => ~SameDelivery(wtask[w], n)
    BY <2>2, <2>3, Zenon DEF OriginInv, SameDelivery, Active
  <2>6. ~Pending(n)
    BY <2>4, SMTT(30) DEF SameDelivery
  <2>7. /\ \A k \in Task : k # n => ready'[k] + delayed'[k] + orphaned'[k] = ready[k] + delayed[k] + orphaned[k]
        /\ ready'[n] + delayed'[n] + orphaned'[n] = 1
    BY <1>1, <1>q, <2>2, <2>6, SMTT(30) DEF PublishTask, Pending, Add
  <2>8. \A k \in Task : Pending(k)' <=> Pending(k) \/ k = n
    BY <1>q, <2>7 DEF Pending
  <2>9. UNCHANGED <<wpc, wtask, settled, crashes>>
    BY <1>1, Zenon DEF PublishTask
  <2>10. \A w \in Worker : Active(w)' <=> Active(w)
    BY <2>9, SMTT(30) DEF Active
  <2> QED
    BY <2>2, <2>3, <2>4, <2>5, <2>7, <2>8, <2>9, <2>10 DEF SingleInv, SameDelivery
<1>2. ASSUME NEW w \in Worker, NEW k \in Task, Claim(w, k) PROVE SingleInv'
  <2>0. /\ ready[k] \in Nat /\ delayed[k] \in Nat /\ orphaned[k] \in Nat
        /\ ready[k] > 0 /\ crashes = 0
    BY <1>2, <1>q, Zenon DEF Claim
  <2>1. Pending(k) /\ ready[k] + delayed[k] + orphaned[k] = 1
    <3>1. Pending(k)
      BY <2>0 DEF Pending
    <3>2. ready[k] + delayed[k] + orphaned[k] <= 1
      BY <2>0, Zenon DEF SingleInv
    <3> QED
      BY <2>0, <3>1, <3>2
  <2>2. /\ \A c \in Task : c # k => ready'[c] + delayed'[c] + orphaned'[c] = ready[c] + delayed[c] + orphaned[c]
        /\ ready'[k] + delayed'[k] + orphaned'[k] = 0
    BY <1>2, <1>q, <2>1 DEF Claim, Remove
  <2>3. \A c \in Task : Pending(c)' <=> Pending(c) /\ c # k
    BY <1>q, <2>2 DEF Pending
  <2>4. /\ Active(w)' /\ ~Active(w) /\ wtask'[w] = k
        /\ \A v \in Worker : v # w => (Active(v)' <=> Active(v)) /\ wtask'[v] = wtask[v]
    BY <1>2, <1>q, Zenon DEF Claim, Goto, Active
  <2>5. settled' = settled /\ crashes' = crashes
    BY <1>2, ZenonT(30) DEF Claim
  <2> QED
    BY <2>1, <2>2, <2>3, <2>4, <2>5 DEF SingleInv, SameDelivery
<1>3. ASSUME NEW w \in Worker, LoadBody(w) \/ SendActivity(w) PROVE SingleInv'
  <2>1. \A v \in Worker : Active(v)' <=> Active(v)
    BY <1>3, <1>q, SMTT(30) DEF LoadBody, SendActivity, AfterFailure, Goto, Active
  <2>2. UNCHANGED <<ready, delayed, orphaned, wtask, settled, crashes>>
    BY <1>3, Zenon DEF LoadBody, SendActivity
  <2> QED
    BY <2>1, <2>2, Zenon DEF SingleInv, Pending
<1>4. ASSUME NEW w \in Worker, FinishRelayTarget(w) PROVE SingleInv'
  <2>1. PICK k \in Task : k = wtask[w] /\ k.job \in Job /\ Active(w)
    BY <1>4, HeldTask, Zenon DEF FinishRelayTarget, Active
  <2>2. \A i \in Job : \A t \in settled'[i] : t \in settled[i] \/ (i = k.job /\ t = k.target)
    BY <1>4, <2>1, Zenon DEF FinishRelayTarget, TypeOK
  <2>3. \A v \in Worker : Active(v)' <=> Active(v) /\ v # w
    BY <1>4, <1>q, ZenonT(30) DEF FinishRelayTarget, Goto, Active
  <2>4. UNCHANGED <<ready, delayed, orphaned, wtask, crashes>>
    BY <1>4, Zenon DEF FinishRelayTarget
  <2>5. \A c \in Task : Pending(c)' <=> Pending(c)
    BY <2>4, Zenon DEF Pending
  <2>6. \A c \in Task : c.job \in Job
    BY Zenon DEF Task
  <2>7. \A v \in Worker : Active(v) => wtask[v].job \in Job
    BY HeldTask, Zenon DEF Active
  <2> QED
    BY <2>1, <2>2, <2>3, <2>4, <2>5, <2>6, <2>7, ZenonT(60) DEF SingleInv, SameDelivery
<1>5. ASSUME NEW w \in Worker, RetryTask(w) PROVE SingleInv'
  <2>1. PICK m \in Task : /\ SameDelivery(m, wtask[w])
                          /\ \/ delayed' = Add(delayed, m) /\ orphaned' = orphaned
                             \/ delayed' = delayed /\ orphaned' = Add(orphaned, m)
    BY <1>5, RetryStep, Zenon DEF SameDelivery
  <2>2. Active(w)
    BY <1>5, SMTT(30) DEF RetryTask, Active
  <2>3. \A c \in Task : SameDelivery(c, m) => ~Pending(c)
    BY <2>1, <2>2, <1>5, Zenon DEF SingleInv, SameDelivery, RetryTask
  <2>4. ~Pending(m)
    BY <2>3, Zenon DEF SameDelivery
  <2>5. /\ \A c \in Task : c # m => ready'[c] + delayed'[c] + orphaned'[c] = ready[c] + delayed[c] + orphaned[c]
        /\ ready'[m] + delayed'[m] + orphaned'[m] = 1
    BY <1>5, <1>q, <2>1, <2>4, RetryStep DEF Pending, Add
  <2>6. \A c \in Task : Pending(c)' <=> Pending(c) \/ c = m
    BY <1>q, <2>5 DEF Pending
  <2>7. \A v \in Worker : /\ Active(v)' <=> Active(v) /\ v # w
                          /\ v # w => wtask'[v] = wtask[v]
    BY <1>5, <1>q, RetryStep, SMTT(30) DEF Active
  <2>8. settled' = settled /\ crashes' = crashes /\ crashes = 0
    BY <1>5, Zenon DEF RetryTask
  <2>9. m.target \notin settled[m.job]
    BY <2>1, <2>2, <2>8, Zenon DEF SingleInv, SameDelivery
  <2>10. \A v \in Worker : Active(v) /\ v # w => ~SameDelivery(wtask[v], m)
    BY <2>1, <2>2, <2>8, Zenon DEF SingleInv, SameDelivery
  <2>11. \A c \in Task : ready'[c] + delayed'[c] + orphaned'[c] <= 1
    BY <2>5, <2>8 DEF SingleInv
  <2>12. \A a, b \in Task : Pending(a)' /\ Pending(b)' /\ SameDelivery(a, b) => a = b
    BY <2>3, <2>6, <2>8, Zenon DEF SingleInv, SameDelivery
  <2>13. \A v \in Worker, c \in Task : Active(v)' /\ Pending(c)' => ~SameDelivery(wtask'[v], c)
    BY <2>6, <2>7, <2>8, <2>10, SMTT(30) DEF SingleInv
  <2>14. \A u, v \in Worker :
           Active(u)' /\ Active(v)' /\ SameDelivery(wtask'[u], wtask'[v]) => u = v
    BY <2>7, <2>8, Zenon DEF SingleInv
  <2>15. \A c \in Task : Pending(c)' => c.target \notin settled'[c.job]
    BY <2>6, <2>8, <2>9, Zenon DEF SingleInv
  <2>16. \A v \in Worker : Active(v)' => wtask'[v].target \notin settled'[wtask'[v].job]
    BY <2>7, <2>8, SMTT(30) DEF SingleInv
  <2> QED
    BY <2>11, <2>12, <2>13, <2>14, <2>15, <2>16, ZenonT(30) DEF SingleInv, SameDelivery
<1>6. ASSUME NEW w \in Worker, Ack(w) PROVE SingleInv'
  <2>1. \A v \in Worker : /\ Active(v)' <=> Active(v)
                          /\ Active(v) => wtask'[v] = wtask[v]
    BY <1>6, <1>q, Zenon DEF Ack, Goto, Active
  <2>2. UNCHANGED <<ready, delayed, orphaned, settled, crashes>>
    BY <1>6, Zenon DEF Ack
  <2> QED
    BY <2>1, <2>2, Zenon DEF SingleInv, Pending
<1>7. ASSUME NEW w \in Worker, Crash(w) PROVE SingleInv'
  BY <1>7, DeliveryAssumption DEF Crash, TypeOK
<1>8. ASSUME NEW k \in Task, Recover(k) \/ Promote(k) PROVE SingleInv'
  <2>1. \A c \in Task : ready'[c] + delayed'[c] + orphaned'[c] = ready[c] + delayed[c] + orphaned[c]
    <3>1. CASE Recover(k)
      BY <1>q, <3>1 DEF Recover, Add, Remove
    <3>2. CASE Promote(k)
      BY <1>q, <3>2 DEF Promote, Add, Remove
    <3> QED
      BY <1>8, <3>1, <3>2, Zenon
  <2>2. UNCHANGED <<wpc, wtask, settled, crashes>>
    BY <1>8, Zenon DEF Recover, Promote
  <2> QED
    BY <2>1, <2>2, Zenon DEF SingleInv, Pending, Active
<1>9. ASSUME NEW j \in Job, ReturnEarly(j) \/ StoreRelayActivity(j) \/ SendGroupReturns(j) \/ ExpireActivity(j)
      PROVE  SingleInv'
  BY <1>0, <1>9, Zenon DEF ReturnEarly, StoreRelayActivity, SendGroupReturns, ExpireActivity
<1>10. CASE UNCHANGED vars
  BY <1>0, <1>10, Zenon DEF vars
<1> QED
  BY <1>1, <1>2, <1>3, <1>4, <1>5, <1>6, <1>7, <1>8, <1>9, <1>10, SMTT(30) DEF Next, Enqueue, Process, Requeue

\* The unsettled targets are a finite set, so their number is a natural
\* number, zero only when there is none.
LEMMA UnsettledFinite ==
    ASSUME TypeOK, NEW j \in Job
    PROVE  /\ IsFiniteSet(Unsettled(j))
           /\ Cardinality(Unsettled(j)) \in Nat
           /\ Cardinality(Unsettled(j)) = 0 <=> Unsettled(j) = {}
<1>1. Unsettled(j) \subseteq Target
  BY Zenon DEF Unsettled, TypeOK
<1>2. IsFiniteSet(Unsettled(j))
  BY <1>1, DeliveryAssumption, FS_Subset, Zenon
<1> QED
  BY <1>2, FS_CardinalityType, FS_EmptySet, Zenon

\* finishRelayTarget on the task of w takes at most one target from those of
\* its job, and exactly one while deliveries have one copy.
LEMMA FinishCount ==
    ASSUME TypeOK, JobInv, OriginInv, SingleInv,
           NEW w \in Worker, FinishRelayTarget(w), NEW j \in Job, j = wtask[w].job
    PROVE  /\ Unsettled(j)' \subseteq Unsettled(j)
           /\ Cardinality(Unsettled(j)') \in {Cardinality(Unsettled(j)) - 1, Cardinality(Unsettled(j))}
           /\ crashes = 0 => Cardinality(Unsettled(j)') = Cardinality(Unsettled(j)) - 1
<1>1. Unsettled(j)' = Unsettled(j) \ {wtask[w].target}
  BY SMTT(30) DEF FinishRelayTarget, Unsettled, TypeOK, jobVars
<1>2. crashes = 0 => wtask[w].target \in Unsettled(j)
  BY Zenon DEF FinishRelayTarget, SingleInv, Active, OriginInv, JobInv, Unsettled
<1>3. Cardinality(Unsettled(j)') = IF wtask[w].target \in Unsettled(j)
                                  THEN Cardinality(Unsettled(j)) - 1 ELSE Cardinality(Unsettled(j))
  <2>1. PICK S, x : S = Unsettled(j) /\ x = wtask[w].target
    OBVIOUS
  <2>2. IsFiniteSet(S)
    BY <2>1, UnsettledFinite, Zenon
  <2>3. Cardinality(S \ {x}) = IF x \in S THEN Cardinality(S) - 1 ELSE Cardinality(S)
    BY <2>2, FS_RemoveElement, Zenon
  <2> QED
    BY <1>1, <2>1, <2>3, Zenon
<1> QED
  BY <1>1, <1>2, <1>3, Zenon

\* The stored count never falls below the unsettled targets while no worker
\* has died, never exceeds them while no call has failed, and the body goes
\* only with the last of them.
LEMMA CountStep ==
    TypeOK /\ TypeOK' /\ JobInv /\ OriginInv /\ SingleInv /\ CountInv /\ BodyKeptWhileNeeded /\ [Next]_vars
        => CountInv' /\ BodyKeptWhileNeeded'
<1> USE DEF jobVars, bodyVars, queueVars, workerVars, history, budget
<1> SUFFICES ASSUME TypeOK, TypeOK', JobInv, OriginInv, SingleInv, CountInv, BodyKeptWhileNeeded, [Next]_vars
             PROVE  CountInv' /\ BodyKeptWhileNeeded'
  OBVIOUS
<1>u. \A i \in Job : Cardinality(Unsettled(i)) \in Nat /\ (Cardinality(Unsettled(i)) = 0 <=> Unsettled(i) = {})
  BY UnsettledFinite, Zenon
<1>0. ASSUME UNCHANGED <<planned, stored, remain, expired, settled>>,
             crashes' = 0 => crashes = 0, faults' = 0 => faults = 0
      PROVE  CountInv' /\ BodyKeptWhileNeeded'
  BY <1>0, Zenon DEF CountInv, BodyKeptWhileNeeded, Unsettled
<1>1. ASSUME NEW j \in Job, StoreRelayActivity(j) PROVE CountInv' /\ BodyKeptWhileNeeded'
  <2>1. PICK S \in (SUBSET Target) \ {{}} :
           planned' = [planned EXCEPT ![j] = S] /\ remain' = [remain EXCEPT ![j] = Cardinality(S)]
    BY <1>1, Zenon DEF StoreRelayActivity
  <2>2. IsFiniteSet(S) /\ Cardinality(S) \in Nat /\ Cardinality(S) # 0
    BY DeliveryAssumption, FS_Subset, FS_CardinalityType, FS_EmptySet, SMTT(30)
  <2>3. settled[j] = {}
    BY <1>1, SMTT(30) DEF StoreRelayActivity, JobInv
  <2>4. Unsettled(j)' = S /\ \A i \in Job \ {j} : Unsettled(i)' = Unsettled(i)
    BY <1>1, <2>1, <2>3, ZenonT(60) DEF StoreRelayActivity, Unsettled, TypeOK
  <2>5. /\ stored'[j] /\ remain'[j] = Cardinality(S)
        /\ \A i \in Job \ {j} : stored'[i] = stored[i] /\ remain'[i] = remain[i]
        /\ UNCHANGED <<expired, crashes, faults>>
    <3>1. /\ stored' = [stored EXCEPT ![j] = TRUE]
          /\ UNCHANGED <<expired, crashes, faults>>
      BY <1>1, Zenon DEF StoreRelayActivity
    <3>2. stored \in [Job -> BOOLEAN] /\ remain \in [Job -> Int]
      BY Zenon DEF TypeOK
    <3> QED
      BY <2>1, <3>1, <3>2, Zenon
  <2> QED
    <3>1. CountInv'
      BY <2>2, <2>4, <2>5 DEF CountInv
    <3>2. BodyKeptWhileNeeded'
      BY <2>4, <2>5, Zenon DEF BodyKeptWhileNeeded
    <3> QED
      BY <3>1, <3>2, Zenon
<1>2. ASSUME NEW j \in Job, ExpireActivity(j) PROVE CountInv' /\ BodyKeptWhileNeeded'
  BY <1>2, ZenonT(30) DEF ExpireActivity, CountInv, BodyKeptWhileNeeded, Unsettled, TypeOK
<1>3. ASSUME NEW w \in Worker, FinishRelayTarget(w) PROVE CountInv' /\ BodyKeptWhileNeeded'
  <2>1. PICK j \in Job : j = wtask[w].job
    BY <1>3, HeldTask, Zenon DEF FinishRelayTarget
  <2>2. /\ Unsettled(j)' \subseteq Unsettled(j)
        /\ Cardinality(Unsettled(j)') \in {Cardinality(Unsettled(j)) - 1, Cardinality(Unsettled(j))}
        /\ crashes = 0 => Cardinality(Unsettled(j)') = Cardinality(Unsettled(j)) - 1
    BY <1>3, <2>1, FinishCount, SMTT(30)
  <2>3. \A i \in Job \ {j} : Unsettled(i)' = Unsettled(i)
    BY <1>3, <2>1, Zenon DEF FinishRelayTarget, Unsettled, TypeOK
  <2>4. Cardinality(Unsettled(j)') \in Nat /\ (Cardinality(Unsettled(j)') = 0 => Unsettled(j)' = {})
    <3>1. IsFiniteSet(Unsettled(j)')
      BY <2>2, UnsettledFinite, FS_Subset, SMTT(30)
    <3> QED
      BY <3>1, FS_EmptySet, FS_CardinalityType, Zenon
  <2>5. crashes' = crashes /\ expired' = expired
    BY <1>3, Zenon DEF FinishRelayTarget
  <2>6. remain[j] \in Int
    BY SMTT(30) DEF TypeOK
  <2>7. CASE UNCHANGED <<stored, remain>> /\ (stored[j] => faults' # 0) /\ (faults' = 0 => faults = 0)
    BY <1>u, <2>2, <2>3, <2>5, <2>6, <2>7 DEF CountInv, BodyKeptWhileNeeded
  <2>8. CASE /\ stored[j] /\ faults' = faults
             /\ remain' = [remain EXCEPT ![j] = @ - 1]
             /\ stored' = [stored EXCEPT ![j] = remain[j] - 1 >= 1]
    <3>1. /\ remain'[j] = remain[j] - 1
          /\ stored'[j] <=> remain[j] - 1 >= 1
          /\ \A i \in Job \ {j} : stored'[i] = stored[i] /\ remain'[i] = remain[i]
      BY <2>8, ZenonT(30) DEF TypeOK
    <3>2. PICK c, d, r \in Int : /\ c = Cardinality(Unsettled(j)) /\ d = Cardinality(Unsettled(j)')
                                 /\ r = remain[j]
      BY <1>u, <2>2, <2>6
    <3>3. d \in {c - 1, c} /\ (crashes = 0 => d = c - 1)
      BY <2>2, <3>2, Zenon
    <3>4. (crashes = 0 => r >= c) /\ (faults = 0 => r <= c)
      BY <2>8, <3>2, Zenon DEF CountInv
    <3>5. (crashes = 0 => r - 1 >= d) /\ (faults = 0 => r - 1 <= d)
      BY <3>3, <3>4, SMTT(30)
    <3>6. CountInv'
      BY <2>3, <2>5, <2>8, <3>1, <3>2, <3>5, SMTT(30) DEF CountInv
    <3>7. crashes = 0 /\ ~stored'[j] => Unsettled(j)' = {}
      <4>1. ASSUME crashes = 0, ~stored'[j] PROVE d = 0
        <5>1. d \in Nat /\ ~(r - 1 >= 1)
          BY <2>4, <3>1, <3>2, <4>1, Zenon
        <5>2. r - 1 >= d
          BY <3>5, <4>1, SMTT(30)
        <5> QED
          BY <5>1, <5>2
      <4> QED
        BY <2>4, <3>2, <4>1, Zenon
    <3>8. BodyKeptWhileNeeded'
      BY <2>3, <2>5, <3>1, <3>7, SMTT(30) DEF BodyKeptWhileNeeded
    <3> QED
      BY <3>6, <3>8, Zenon
  <2>9. \/ UNCHANGED <<stored, remain>> /\ (stored[j] => faults' # 0) /\ (faults' = 0 => faults = 0)
        \/ /\ stored[j] /\ faults' = faults
           /\ remain' = [remain EXCEPT ![j] = @ - 1]
           /\ stored' = [stored EXCEPT ![j] = remain[j] - 1 >= 1]
    <3>1. CASE FinishScript(j) /\ faults' = faults
      BY <3>1, Zenon DEF FinishScript
    <3>2. CASE Fault /\ UNCHANGED <<remain, stored>>
      <4>1. faults' # 0
        BY <3>2 DEF Fault, TypeOK
      <4> QED
        BY <3>2, <4>1, SMTT(30)
    <3> QED
      BY <1>3, <2>1, <3>1, <3>2, Zenon DEF FinishRelayTarget
  <2> QED
    BY <2>7, <2>8, <2>9, Zenon
<1>4. ASSUME NEW w \in Worker, \/ \E k \in Task : Claim(w, k)
                               \/ LoadBody(w) \/ SendActivity(w) \/ RetryTask(w)
                               \/ Ack(w) \/ Crash(w)
      PROVE  CountInv' /\ BodyKeptWhileNeeded'
  <2>1. UNCHANGED <<planned, stored, remain, expired, settled>>
    BY <1>4, Zenon DEF Claim, LoadBody, SendActivity, RetryTask, Ack, Crash
  <2>2. (crashes' = 0 => crashes = 0) /\ (faults' = 0 => faults = 0)
    <3>1. crashes' \in {crashes, crashes + 1} /\ faults' \in {faults, faults + 1}
      BY <1>4, SMTT(30) DEF Claim, LoadBody, SendActivity, RetryTask, Ack, Crash, Fault
    <3>2. crashes \in Nat /\ faults \in Nat
      BY DEF TypeOK
    <3> QED
      BY <3>1, <3>2, SMTT(30)
  <2> QED
    BY <1>0, <2>1, <2>2, SMTT(30)
<1>5. ASSUME NEW k \in Task, Recover(k) \/ Promote(k) PROVE CountInv' /\ BodyKeptWhileNeeded'
  BY <1>0, <1>5, Zenon DEF Recover, Promote
<1>6. ASSUME NEW j \in Job, ReturnEarly(j) \/ SendGroupReturns(j) \/ \E t \in Target : PublishTask(j, t)
      PROVE  CountInv' /\ BodyKeptWhileNeeded'
  BY <1>0, <1>6, Zenon DEF ReturnEarly, SendGroupReturns, PublishTask
<1>7. CASE UNCHANGED vars
  BY <1>0, <1>7, Zenon DEF vars
<1> QED
  BY <1>1, <1>2, <1>3, <1>4, <1>5, <1>6, <1>7, Zenon DEF Next, Enqueue, Process, Requeue

\* The invariant behind both theorems on the body.
LEMMA BodyInvariant == Spec => []BodyInv
<1>1. Init => BodyInv
  <2> SUFFICES ASSUME Init PROVE BodyInv
    OBVIOUS
  <2>1. \A k \in Task : ~Pending(k)
    BY DEF Init, NoTasks, Pending
  <2>2. \A k \in Task : ready[k] + delayed[k] + orphaned[k] = 0
    BY SMTT(30) DEF Init, NoTasks
  <2>3. JobInv /\ OriginInv /\ CountInv /\ BodyKeptWhileNeeded
    BY <2>1, Zenon DEF Init, JobInv, OriginInv, CountInv, BodyKeptWhileNeeded, Unsettled
  <2>4. SingleInv
    BY <2>1, <2>2 DEF Init, SingleInv, Active
  <2> QED
    BY <2>3, <2>4, Zenon DEF BodyInv
<1>2. TypeOK /\ TypeOK' /\ BodyInv /\ [Next]_vars => BodyInv'
  BY JobStep, OriginStep, SingleStep, CountStep, Zenon DEF BodyInv
<1> QED
  BY <1>1, <1>2, TypeCorrect, PTL DEF Spec

\* While no worker has died, finishRelayTarget never deletes a body that a
\* target of the same fan-out still needs.
THEOREM BodyKept == Spec => []BodyKeptWhileNeeded
<1>1. BodyInv => BodyKeptWhileNeeded
  BY Zenon DEF BodyInv
<1> QED
  BY <1>1, BodyInvariant, PTL

\* While no Redis call has failed, the last settled target deletes the body.
THEOREM BodyRemoved == Spec => []BodyRemovedAtEnd
<1>1. TypeOK /\ BodyInv => BodyRemovedAtEnd
  <2> SUFFICES ASSUME TypeOK, BodyInv, faults = 0, NEW j \in Job, stored[j]
               PROVE  Unsettled(j) # {}
    BY Zenon DEF BodyRemovedAtEnd
  <2>1. 1 <= remain[j] /\ remain[j] <= Cardinality(Unsettled(j)) /\ remain[j] \in Int
    BY Zenon DEF BodyInv, CountInv, TypeOK
  <2> QED
    BY <2>1, UnsettledFinite
<1> QED
  BY <1>1, BodyInvariant, TypeCorrect, PTL

=============================================================================
