------------------------------ MODULE ProcTree ------------------------------
(***************************************************************************)
(* What fork(), exit() and wait() promise: a tree of processes, rooted at  *)
(* init, in which exit() hands the children to init and turns the process  *)
(* into a zombie in one step, and only the parent removes a zombie.        *)
(***************************************************************************)
CONSTANTS Proc, Initproc, None

VARIABLES
  status,      \* "free", "live" or "zombie"
  parent       \* None for a free slot and for init

Init ==
  /\ status = [p \in Proc |-> IF p = Initproc THEN "live" ELSE "free"]
  /\ parent = [p \in Proc |-> None]

\* p creates the process c.
Fork(p, c) ==
  /\ status[p] = "live" /\ status[c] = "free"
  /\ status' = [status EXCEPT ![c] = "live"]
  /\ parent' = [parent EXCEPT ![c] = p]

\* p ends, and its children become children of init.
Exit(p) ==
  /\ p # Initproc /\ status[p] = "live"
  /\ status' = [status EXCEPT ![p] = "zombie"]
  /\ parent' = [c \in Proc |-> IF parent[c] = p THEN Initproc ELSE parent[c]]

\* p removes its zombie child c.
Reap(p, c) ==
  /\ status[p] = "live" /\ status[c] = "zombie" /\ parent[c] = p
  /\ status' = [status EXCEPT ![c] = "free"]
  /\ parent' = [parent EXCEPT ![c] = None]

Next == \E p \in Proc : Exit(p) \/ \E c \in Proc : Fork(p, c) \/ Reap(p, c)

vars == <<status, parent>>
Spec == Init /\ [][Next]_vars
=============================================================================
