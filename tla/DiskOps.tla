------------------------------ MODULE DiskOps -------------------------------
(***************************************************************************)
(* What the disk driver promises to its callers: every read or write of a  *)
(* buffer is carried out once, on the buffer's own block, between the call *)
(* and the return.                                                         *)
(***************************************************************************)
CONSTANTS Proc, Val, None

VARIABLES
  phase,       \* "idle", "read" or "write" while it is to be done, or "done"
  store,       \* the block of each process's buffer, on the disk
  data         \* the data of the buffer, None between calls and before a read

Init ==
  /\ phase = [p \in Proc |-> "idle"]
  /\ store \in [Proc -> Val]
  /\ data = [p \in Proc |-> None]

\* virtio_disk_rw() is called, with new data if it is for a write.
Call(p) ==
  /\ phase[p] = "idle"
  /\ \/ phase' = [phase EXCEPT ![p] = "read"] /\ UNCHANGED data
     \/ /\ phase' = [phase EXCEPT ![p] = "write"]
        /\ \E v \in Val : data' = [data EXCEPT ![p] = v]
  /\ UNCHANGED store

\* The transfer.
Transfer(p) ==
  /\ \/ phase[p] = "read" /\ data' = [data EXCEPT ![p] = store[p]] /\ UNCHANGED store
     \/ phase[p] = "write" /\ store' = [store EXCEPT ![p] = data[p]] /\ UNCHANGED data
  /\ phase' = [phase EXCEPT ![p] = "done"]

\* The call returns, and the caller uses the data.
Return(p) ==
  /\ phase[p] = "done"
  /\ phase' = [phase EXCEPT ![p] = "idle"]
  /\ data' = [data EXCEPT ![p] = None]
  /\ UNCHANGED store

vars == <<phase, store, data>>
Spec == Init /\ [][\E p \in Proc : Call(p) \/ Transfer(p) \/ Return(p)]_vars
=============================================================================
