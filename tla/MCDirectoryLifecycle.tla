------------------------ MODULE MCDirectoryLifecycle ------------------------
(* One owner of the lease of each kind. *)
EXTENDS DirectoryLifecycle, TLC

CONSTANTS s1, c1, u1
=============================================================================
