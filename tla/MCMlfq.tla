------------------------------- MODULE MCMlfq -------------------------------
(* Model values for the scheduler. *)
EXTENDS Mlfq
=============================================================================
