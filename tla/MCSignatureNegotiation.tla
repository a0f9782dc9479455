------------------------- MODULE MCSignatureNegotiation -------------------------
(* An instance of SignatureNegotiation: Redis knows no server at first, or     *)
(* those that requests are made to; another one is reached by redirects.       *)
EXTENDS SignatureNegotiation, TLC

MCInit == Init /\ shown \in {{}, (Entry \X {"fetch"}) \cup (Receiver \X {"delivery"})}
MCSpec == MCInit /\ [][Next]_vars

Symmetry == Permutations(Fetcher)
================================================================================
