------------------------------- MODULE MCSwap -------------------------------
(* Model values for the virtual memory. *)
EXTENDS Swap, TLC

CONSTANTS p1, p2, f1, f2

Procs1 == {p1}
Procs2 == {p1, p2}
Frames2 == {f1, f2}

FrameSymmetry == Permutations(Frame)
=============================================================================
