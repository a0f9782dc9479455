------------------------------ MODULE MCFanOut -------------------------------
(* An instance of FanOut for TLC. *)
EXTENDS FanOut

\* "a" and "a:8443" are two keys for the domain a, "b" is another server, "c"
\* one that is no receiver.
Sorted == [k \in {"a", "a:8443", "b"} |-> CASE k = "a" -> 1 [] k = "a:8443" -> 2 [] k = "b" -> 3]
Registered == DOMAIN Sorted
Normalized == [k \in Registered |-> IF k = "b" THEN "b" ELSE "a"]
Senders == {"a", "b", "c"}
Limits == {1, 2}

\* To keep the states few there are at most MaxRecords records at first.  One
\* sender may be moderated from the start where the queue has room and the policy
\* is the wider one; elsewhere a reload does it.
MaxRecords == 2
Moderated == {s \in Server : cache.status[s] # "free"}
MCInit ==
    /\ FanOutInit
    /\ Cardinality(SubscribersAndFollowers(cache)) <= MaxRecords
    /\ \/ Moderated = {}
       \/ Cardinality(Moderated) = 1 /\ limit = 2 /\ policy = "public_and_unlisted"
MCSpec == MCInit /\ [][FanOutNext]_fanOutVars
==============================================================================
