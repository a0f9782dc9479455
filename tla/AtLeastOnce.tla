---------------------------- MODULE AtLeastOnce ----------------------------
(***************************************************************************)
(* What the relay promises a sender about the deliveries it has queued     *)
(* (ARCHITECTURE.md, Queues): an item reaches its receiver only after it   *)
(* was queued, perhaps more than once; every queued item is eventually     *)
(* done with, and is then never taken up as unfinished again.              *)
(***************************************************************************)
CONSTANT Item           \* an activity for a receiver

VARIABLES queued,       \* items given to the queue
          received,     \* items their receiver took
          done          \* items the relay is finished with

vars == <<queued, received, done>>

Init == queued = {} /\ received = {} /\ done = {}

Queue(i) == /\ i \notin queued
            /\ queued' = queued \cup {i}
            /\ UNCHANGED <<received, done>>

Receive(i) == /\ i \in queued
              /\ received' = received \cup {i}
              /\ UNCHANGED <<queued, done>>

Finish(i) == /\ i \in queued \ done
             /\ done' = done \cup {i}
             /\ UNCHANGED <<queued, received>>

Next == \E i \in Item : Queue(i) \/ Receive(i) \/ Finish(i)

\* The part that says what may happen, without what has to.
Safety == Init /\ [][Next]_vars

Spec == Safety /\ \A i \in Item : WF_vars(Finish(i))
=============================================================================
