--------------------------- MODULE MCSubscription ----------------------------
(* Instances of Subscription for TLC. *)
EXTENDS Subscription, TLC

Requests == Permutations(Request)

\* Hosts written in lower case and without a port.
OneName == {"a"}
Same == [n \in Name |-> n]

==============================================================================
