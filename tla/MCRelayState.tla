----------------------------- MODULE MCRelayState ----------------------------
(* A small instance of RelayState for TLC. *)
EXTENDS RelayState

CONSTANTS api, request, other, command

\* Two requests of the API server, and a command of the control tool.
HostOfWriters == [w \in Writer |-> IF w = command THEN Elsewhere ELSE api]
=============================================================================
