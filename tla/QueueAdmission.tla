--------------------------- MODULE QueueAdmission ---------------------------
(***************************************************************************)
(* Admission to the task queue (api/resolver.go, control/follow.go).       *)
(*                                                                         *)
(* Before it publishes n tasks, the API adds n to one shared Redis counter *)
(* with a script that compares LLEN relay + counter + n with               *)
(* MAX_QUEUE_JOBS; after the publication it subtracts n again.  The counter*)
(* expires 60 seconds after the last reservation, whoever still counts on  *)
(* it.  The command line tool only compares LLEN with the limit before it  *)
(* publishes, and reserves nothing.                                        *)
(*                                                                         *)
(* Tasks on the ready list are counted by where they come from: published  *)
(* by the API, published by the command line tool, or put back by the      *)
(* broker (a due retry or a recovered claim), which no admission limits.   *)
(***************************************************************************)
EXTENDS Integers, FiniteSets

CONSTANTS Producer,      \* goroutines of the API that enqueue work
          Operator,      \* running command line tools
          MaxQueueJobs,  \* MAX_QUEUE_JOBS
          MaxBatch,      \* most tasks of one fan-out (1 for a registration reply)
          MaxOut,        \* bound on tasks claimed or delayed, and on those put back
          MaxLeaks       \* bound on reservations that are never released

ASSUME AdmissionAssumption ==
    /\ MaxQueueJobs \in Nat
    /\ MaxBatch \in Nat
    /\ MaxOut \in Nat
    /\ MaxLeaks \in Nat
    /\ IsFiniteSet(Producer)
    /\ IsFiniteSet(Operator)

VARIABLES
    reserved,   \* relay:queue:reservations, 0 when the key does not exist
    batch,      \* the tasks a producer has reserved capacity for
    left,       \* those of them it has not published yet
    checked,    \* operators that have seen room in the queue
    apiReady,   \* ready tasks from the API that no worker has claimed
    cliReady,   \* ready tasks from the command line tool, likewise
    requeued,   \* ready tasks the broker put back
    out,        \* claimed or delayed tasks
    leaked,     \* history: reservations whose holder is gone
    leaks,      \* reservations leaked so far
    lapsed      \* history: the counter expired under a holder

queue == <<apiReady, cliReady, requeued, out>>
vars == <<reserved, batch, left, checked, queue, leaked, leaks, lapsed>>

Slot == 1 .. MaxBatch

Init ==
    /\ reserved = 0
    /\ batch = [p \in Producer |-> {}]
    /\ left = [p \in Producer |-> {}]
    /\ checked = {}
    /\ apiReady = 0 /\ cliReady = 0 /\ requeued = 0 /\ out = 0
    /\ leaked = 0 /\ leaks = 0
    /\ lapsed = FALSE

LLen == apiReady + cliReady + requeued

Holds(p) == batch[p] # {}

-----------------------------------------------------------------------------
(* The API                                                                 *)

\* Mutant: the reservations of others are left out of the comparison.
ReserveQueueCapacityAlone(p, n) ==
    /\ ~Holds(p)
    /\ LLen + n <= MaxQueueJobs
    /\ reserved' = reserved + n
    /\ batch' = [batch EXCEPT ![p] = 1 .. n]
    /\ left' = [left EXCEPT ![p] = 1 .. n]
    /\ UNCHANGED <<checked, queue, leaked, leaks, lapsed>>

\* reserveQueueCapacityWithReason; a refusal changes nothing.
ReserveQueueCapacity(p, n) ==
    /\ ~Holds(p)
    /\ LLen + reserved + n <= MaxQueueJobs
    /\ reserved' = reserved + n
    /\ batch' = [batch EXCEPT ![p] = 1 .. n]
    /\ left' = [left EXCEPT ![p] = 1 .. n]
    /\ UNCHANGED <<checked, queue, leaked, leaks, lapsed>>

\* SendTask or one of the sends of SendGroup.
Publish(p) ==
    /\ \E s \in left[p] : left' = [left EXCEPT ![p] = @ \ {s}]
    /\ apiReady' = apiReady + 1
    /\ UNCHANGED <<reserved, batch, checked, cliReady, requeued, out, leaked, leaks, lapsed>>

\* The producer is done, after success or an error with tasks left.
Done(p) == /\ batch' = [batch EXCEPT ![p] = {}]
           /\ left' = [left EXCEPT ![p] = {}]

\* Mutant: the counter is deleted by every release.
ReleaseDeletesCounter(p) ==
    /\ Holds(p)
    /\ reserved' = 0
    /\ Done(p)
    /\ UNCHANGED <<checked, queue, leaked, leaks, lapsed>>

\* releaseQueueCapacity: DECRBY, and DEL at zero or below.
ReleaseQueueCapacity(p) ==
    LET remaining == reserved - Cardinality(batch[p]) IN
    /\ Holds(p)
    /\ reserved' = IF remaining <= 0 THEN 0 ELSE remaining
    /\ Done(p)
    /\ UNCHANGED <<checked, queue, leaked, leaks, lapsed>>

\* The release script fails, or the process dies before it: the counter
\* keeps what nobody will give back.
LoseReservation(p) ==
    /\ Holds(p)
    /\ leaks < MaxLeaks
    /\ leaks' = leaks + 1
    /\ leaked' = leaked + Cardinality(batch[p])
    /\ Done(p)
    /\ UNCHANGED <<reserved, checked, queue, lapsed>>

\* Sixty seconds without a new reservation.
ExpireCounter ==
    /\ reserved > 0
    /\ reserved' = 0
    /\ leaked' = 0
    /\ lapsed' = (lapsed \/ \E p \in Producer : Holds(p))
    /\ UNCHANGED <<batch, left, checked, queue, leaks>>

-----------------------------------------------------------------------------
(* The command line tool: control/follow.go enqueueRegisterActivity        *)

CheckQueue(o) ==
    /\ o \notin checked
    /\ LLen < MaxQueueJobs
    /\ checked' = checked \cup {o}
    /\ UNCHANGED <<reserved, batch, left, queue, leaked, leaks, lapsed>>

SendChecked(o) ==
    /\ o \in checked
    /\ checked' = checked \ {o}
    /\ \/ cliReady' = cliReady + 1
       \/ UNCHANGED cliReady            \* SendTask failed
    /\ UNCHANGED <<reserved, batch, left, apiReady, requeued, out, leaked, leaks, lapsed>>

-----------------------------------------------------------------------------
(* The broker and the workers                                              *)

ClaimReady ==
    /\ out < MaxOut
    /\ out' = out + 1
    /\ \/ apiReady > 0 /\ apiReady' = apiReady - 1 /\ UNCHANGED <<cliReady, requeued>>
       \/ cliReady > 0 /\ cliReady' = cliReady - 1 /\ UNCHANGED <<apiReady, requeued>>
       \/ requeued > 0 /\ requeued' = requeued - 1 /\ UNCHANGED <<apiReady, cliReady>>
    /\ UNCHANGED <<reserved, batch, left, checked, leaked, leaks, lapsed>>

\* A claimed or delayed task is acknowledged for good, or comes back.
SettleOut ==
    /\ out > 0
    /\ out' = out - 1
    /\ \/ requeued < MaxOut /\ requeued' = requeued + 1
       \/ UNCHANGED requeued
    /\ UNCHANGED <<reserved, batch, left, checked, apiReady, cliReady, leaked, leaks, lapsed>>

-----------------------------------------------------------------------------
Api(p) == \/ \E n \in Slot : ReserveQueueCapacity(p, n)
          \/ Publish(p)
          \/ ReleaseQueueCapacity(p)
          \/ LoseReservation(p)

Next == \/ \E p \in Producer : Api(p)
        \/ \E o \in Operator : CheckQueue(o) \/ SendChecked(o)
        \/ ExpireCounter
        \/ ClaimReady
        \/ SettleOut

Spec == Init /\ [][Next]_vars

-----------------------------------------------------------------------------
(* Properties                                                              *)

\* Every variable has its type; a producer publishes only what it reserved.
TypeOK ==
    /\ reserved \in Nat
    /\ batch \in [Producer -> SUBSET Slot]
    /\ left \in [Producer -> SUBSET Slot]
    /\ \A p \in Producer : left[p] \subseteq batch[p]
    /\ checked \subseteq Operator
    /\ apiReady \in Nat /\ cliReady \in Nat /\ requeued \in Nat
    /\ out \in 0 .. MaxOut
    /\ leaked \in Nat
    /\ leaks \in 0 .. MaxLeaks
    /\ lapsed \in BOOLEAN

Cells(f) == {h \in Producer \X Slot : h[2] \in f[h[1]]}

Held   == Cells(batch)
Unsent == Cells(left)

\* The shared counter never counts work that nobody holds or leaked (so it
\* is zero, and the queue fully usable, when all are done); and unless it
\* has expired under a holder it counts all of it: no release takes away
\* what another producer reserved.
ReservationAccounted ==
    LET due == Cardinality(Held) + leaked IN
    /\ reserved <= due
    /\ ~lapsed => reserved = due

\* Unless the counter has expired under a holder, what the API has published
\* and no worker claimed yet, with what it may still publish, is within
\* MAX_QUEUE_JOBS, however producers, operators, workers and requeued tasks
\* interleave.
ApiWithinLimit ==
    ~lapsed => apiReady + Cardinality(Unsent) <= MaxQueueJobs

\* Operators see the queue but no reservation: their tasks stay below the
\* limit on their own, up to one task for each other operator that looked at
\* the same time.
OperatorsWithinLimit ==
    Operator # {} => cliReady + Cardinality(checked) <= MaxQueueJobs + Cardinality(Operator) - 1
=============================================================================
