------------------------------ MODULE TxnStore ------------------------------
(***************************************************************************)
(* What the file-system log promises its callers (the comment at the head  *)
(* of kernel/log.c): the disk always holds the effect of a whole number of *)
(* file-system operations.  Writes are visible at once in `view', they all *)
(* become durable in one indivisible Commit that is only taken while no    *)
(* operation is active, and a crash loses exactly what was not committed.  *)
(***************************************************************************)
CONSTANTS Proc, Block, Value

VARIABLES
  durable,   \* what a reader would see after a crash and recovery
  view,      \* what a reader sees now
  active     \* processes between begin_op() and end_op()

storeVars == <<durable, view, active>>

Init ==
  /\ durable \in [Block -> Value]
  /\ view = durable
  /\ active = {}

Begin(p) ==
  /\ p \notin active
  /\ active' = active \cup {p}
  /\ UNCHANGED <<durable, view>>

Write(p, b, v) ==
  /\ p \in active
  /\ view' = [view EXCEPT ![b] = v]
  /\ UNCHANGED <<durable, active>>

End(p) ==
  /\ p \in active
  /\ active' = active \ {p}
  /\ UNCHANGED <<durable, view>>

Commit ==
  /\ active = {}
  /\ durable' = view
  /\ UNCHANGED <<view, active>>

Crash ==
  /\ view' = durable
  /\ active' = {}
  /\ UNCHANGED durable

Next ==
  \/ \E p \in Proc : Begin(p) \/ End(p)
  \/ \E p \in Proc, b \in Block, v \in Value : Write(p, b, v)
  \/ Commit
  \/ Crash

Spec == Init /\ [][Next]_storeVars
=============================================================================
