------------------------------- MODULE MCPipe -------------------------------
(* Instances of Pipe for TLC. *)
EXTENDS Pipe
CONSTANTS P1, P2
Procs2 == {P1, P2}
=============================================================================
