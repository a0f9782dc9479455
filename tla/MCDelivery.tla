----------------------------- MODULE MCDelivery -----------------------------
(* Small instances of Delivery for TLC. *)
EXTENDS Delivery, TLC

CONSTANTS j1, t1, t2, w1, w2

Symmetry == Permutations({t1, t2}) \cup Permutations({w1, w2})
=============================================================================
