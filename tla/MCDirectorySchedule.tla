-------------------------- MODULE MCDirectorySchedule --------------------------
(* Instances of DirectorySchedule, with the delays of the program. *)
EXTENDS DirectorySchedule, TLC

Hash == [a \in 1 .. MaximumAttempt |-> 100 + a]
================================================================================
