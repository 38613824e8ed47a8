-------------------------- MODULE MCTracerEngine --------------------------
(* Instance of TracerEngine for TLC. *)
EXTENDS TracerEngine

CONSTANTS r, a, b

(* The root and two more pids: enough for a child and a grandchild, two  *)
(* siblings, and a pid reused after its first owner exited.              *)
MCPids == {r, a, b}
=============================================================================
