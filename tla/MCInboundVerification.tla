------------------------- MODULE MCInboundVerification -------------------------
(* API processes with one handler each. *)
EXTENDS InboundVerification, TLC

HomeOf   == [h \in Handler |-> h]
Symmetry == Permutations(Handler)
================================================================================
