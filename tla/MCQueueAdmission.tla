-------------------------- MODULE MCQueueAdmission --------------------------
(* Small instances of QueueAdmission for TLC. *)
EXTENDS QueueAdmission, TLC

CONSTANTS p1, p2, p3, o1, o2

Symmetry == Permutations({p1, p2, p3}) \cup Permutations({o1, o2})
=============================================================================
