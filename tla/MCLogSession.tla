--------------------------- MODULE MCLogSession ---------------------------
(* Instance of LogSession for TLC. *)
EXTENDS LogSession

CONSTANTS r, a

(* The root and one child pid. *)
MCPids == {r, a}
=============================================================================
