----------------------------- MODULE MCProcLife -----------------------------
(* Instances of ProcLife for TLC. *)
EXTENDS ProcLife
KillChildren == {2, 3}
KillInitToo == {1, 3}
KillZero == {0}
=============================================================================
