----------------------------- MODULE MCRelayLoop -----------------------------
(* Three relays that send to each other.  Each has one of the others as its
   follower and the third as a subscriber, whose Announces it does not take. *)
EXTENDS RelayLoop, FiniteSets, TLC

CONSTANTS r1, r2, r3, h1, h2

Triangle == [r \in {r1, r2, r3} |-> {r1, r2, r3} \ {r}]
Cycle == [r \in {r1, r2, r3} |-> CASE r = r1 -> {r2}
                                   [] r = r2 -> {r3}
                                   [] r = r3 -> {r1}]
=============================================================================
