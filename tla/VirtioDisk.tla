----------------------------- MODULE VirtioDisk -----------------------------
(***************************************************************************)
(* The disk driver of kernel/virtio_disk.c: virtio_disk_rw() in several    *)
(* processes, the interrupt handler, and the device with which they share  *)
(* the descriptors and the two rings.  Each process works on a buffer of   *)
(* its own, which bread() and bwrite() have locked, and so on a block of   *)
(* its own; the block, the buffer and the process have the same name.      *)
(*                                                                         *)
(* A stretch of code under disk.vdisk_lock that shares nothing with the    *)
(* device is one action.  What nobody reads again is forgotten, to keep    *)
(* the state space small: an entry of a ring (set to 0) when the other     *)
(* side has read it, a request in ops when its chain is freed, and the     *)
(* contents of a buffer (None) between the calls and before a read.        *)
(***************************************************************************)
EXTENDS Naturals, FiniteSets, FiniteSetsExt

CONSTANTS
  Proc,
  NUM,         \* descriptors, and entries of a ring
  WRAP,        \* avail->idx and used->idx count modulo WRAP, 2^16 in the code
  Val,         \* contents of a block
  None

Desc == 0 .. NUM - 1
Ring == 0 .. NUM - 1
Handler == "virtio_disk_intr"

ASSUME VirtioAssumption ==
  /\ NUM \in Nat /\ NUM >= 3
  /\ WRAP \in Nat /\ WRAP >= NUM /\ WRAP % NUM = 0
  /\ IsFiniteSet(Proc)
  /\ None \notin Proc /\ None \notin Nat /\ None \notin Val
  /\ Handler \notin Proc \cup {None}

VARIABLES
  \* of the driver
  free,        \* the free descriptors
  lock,        \* who holds vdisk_lock
  pc,          \* where each process is: place and first descriptor
  asleep,      \* the processes in sleep()
  used_idx,    \* disk.used_idx
  info,        \* info[i].b and info[i].status
  busy,        \* the buffers b with b->disk = 1
  data,        \* b->data, None where it does not matter
  \* shared with the device
  desc,        \* addr and next of each descriptor
  ops,         \* ops[i]: type and sector of the request that starts at i
  avail, aidx, \* avail->ring, avail->idx
  used, uidx,  \* used->ring, used->idx
  irq,         \* an interrupt is pending
  \* of the device
  taken,       \* its index in the avail ring
  inflight,    \* the chains it works on, by their first descriptor
  store        \* the blocks

driverVars == <<free, lock, pc, asleep, used_idx, busy>>
ringVars == <<desc, ops, avail, aidx>>
deviceVars == <<used, uidx, irq, taken, inflight, store>>
vars == <<driverVars, info, data, ringVars, deviceVars>>

At(place, op, i) == [at |-> place, op |-> op, i |-> i]
Idle == At("idle", None, None)
Places ==
  { Idle } \cup { At(s, op, None) : s \in {"enter", "nodesc"}, op \in {"read", "write"} }
  \cup { At(s, op, i) : s \in {"ring", "wait"}, op \in {"read", "write"}, i \in Desc }
Goto(p, place) == pc' = [pc EXCEPT ![p] = place]

NoRequest == [type |-> None, sector |-> None]
NoDesc == [addr |-> None, next |-> None]

Init ==
  /\ free = Desc
  /\ lock = None
  /\ pc = [p \in Proc |-> Idle]
  /\ asleep = {}
  /\ used_idx = 0
  /\ info = [i \in Desc |-> [b |-> None, status |-> 0]]
  /\ busy = {}
  /\ data = [p \in Proc |-> None]
  /\ desc = [i \in Desc |-> NoDesc]
  /\ ops = [i \in Desc |-> NoRequest]
  /\ avail = [k \in Ring |-> 0] /\ aidx = 0
  /\ used = [k \in Ring |-> 0] /\ uidx = 0
  /\ irq = FALSE
  /\ taken = 0
  /\ inflight = {}
  /\ store \in [Proc -> Val]

\* The chain of descriptors that starts at i.
Chain(i) == {i, desc[i].next, desc[desc[i].next].next}

\* alloc_desc() three times: the lowest free descriptors, in order.
alloc3_desc ==
  LET i0 == Min(free)
      i1 == Min(free \ {i0})
  IN  <<i0, i1, Min(free \ {i0, i1})>>

\* The processes that wakeup(&disk.free[0]) finds asleep.
WaitingForDesc == { q \in asleep : pc[q].at = "nodesc" }

-----------------------------------------------------------------------------
(* virtio_disk_rw() *)

\* It is called, for a write with new data in the buffer.
Call(p) ==
  /\ pc[p] = Idle
  /\ \/ Goto(p, At("enter", "read", None)) /\ UNCHANGED data
     \/ /\ Goto(p, At("enter", "write", None))
        /\ \E v \in Val : data' = [data EXCEPT ![p] = v]
  /\ UNCHANGED <<free, lock, asleep, used_idx, busy, info, ringVars, deviceVars>>

\* p tries to get descriptors, at the start and after each sleep on disk.free[0].
Tries(p) == lock = None /\ p \notin asleep /\ pc[p].at \in {"enter", "nodesc"}

\* There are not three: alloc3_desc() gives back what it took, which wakes the other
\* processes that wait for descriptors, and p sleeps.
RwNoDesc(p) ==
  /\ Tries(p)
  /\ Cardinality(free) < 3
  /\ asleep' = (IF free # {} THEN asleep \ WaitingForDesc ELSE asleep) \cup {p}
  /\ Goto(p, [pc[p] EXCEPT !.at = "nodesc"])
  /\ UNCHANGED <<free, lock, used_idx, busy, info, data, ringVars, deviceVars>>

\* A request that keeps the status of the last one with this descriptor.
RwFormatStale(p) ==
  LET idx == alloc3_desc IN
  /\ Tries(p)
  /\ Cardinality(free) >= 3
  /\ lock' = p
  /\ free' = free \ {idx[1], idx[2], idx[3]}
  /\ ops' = [ops EXCEPT ![idx[1]] = [type |-> pc[p].op, sector |-> p]]
  /\ desc' = [desc EXCEPT ![idx[1]] = [addr |-> idx[1], next |-> idx[2]],
                          ![idx[2]] = [addr |-> p, next |-> idx[3]],
                          ![idx[3]] = [addr |-> idx[1], next |-> None]]
  /\ info' = [info EXCEPT ![idx[1]].b = p]
  /\ busy' = busy \cup {p}
  /\ avail' = [avail EXCEPT ![aidx % NUM] = idx[1]]
  /\ Goto(p, At("ring", pc[p].op, idx[1]))
  /\ UNCHANGED <<asleep, used_idx, data, aidx, deviceVars>>

\* The request is formatted and put into the avail ring, behind its index.
RwFormat(p) ==
  LET idx == alloc3_desc IN
  /\ Tries(p)
  /\ Cardinality(free) >= 3
  /\ lock' = p
  /\ free' = free \ {idx[1], idx[2], idx[3]}
  /\ ops' = [ops EXCEPT ![idx[1]] = [type |-> pc[p].op, sector |-> p]]
  /\ desc' = [desc EXCEPT ![idx[1]] = [addr |-> idx[1], next |-> idx[2]],
                          ![idx[2]] = [addr |-> p, next |-> idx[3]],
                          ![idx[3]] = [addr |-> idx[1], next |-> None]]
  /\ info' = [info EXCEPT ![idx[1]] = [b |-> p, status |-> 255]]
  /\ busy' = busy \cup {p}
  /\ avail' = [avail EXCEPT ![aidx % NUM] = idx[1]]
  /\ Goto(p, At("ring", pc[p].op, idx[1]))
  /\ UNCHANGED <<asleep, used_idx, data, aidx, deviceVars>>

\* The index makes the entry visible to the device; p sleeps on the buffer.
RwNotify(p) ==
  /\ lock = p /\ pc[p].at = "ring"
  /\ aidx' = (aidx + 1) % WRAP
  /\ asleep' = asleep \cup {p}
  /\ lock' = None
  /\ Goto(p, [pc[p] EXCEPT !.at = "wait"])
  /\ UNCHANGED <<free, used_idx, busy, info, data, desc, ops, avail, deviceVars>>

Wakes(p) == lock = None /\ p \notin asleep /\ pc[p].at = "wait"

\* The wakeup was not that of the interrupt handler: p sleeps again.
RwAgain(p) ==
  /\ Wakes(p) /\ p \in busy
  /\ asleep' = asleep \cup {p}
  /\ UNCHANGED <<free, lock, pc, used_idx, busy, info, data, ringVars, deviceVars>>

\* The loop on b->disk replaced by one look: any wakeup ends the call.
RwDoneEarly(p) ==
  /\ Wakes(p)
  /\ info' = [info EXCEPT ![pc[p].i].b = None]
  /\ free' = free \cup Chain(pc[p].i)
  /\ desc' = [i \in Desc |-> IF i \in Chain(pc[p].i) THEN NoDesc ELSE desc[i]]
  /\ asleep' = asleep \ WaitingForDesc
  /\ ops' = [ops EXCEPT ![pc[p].i] = NoRequest]
  /\ data' = [data EXCEPT ![p] = None]
  /\ Goto(p, Idle)
  /\ UNCHANGED <<lock, used_idx, busy, avail, aidx, deviceVars>>

\* The request is done: free_chain() gives back the descriptors and wakes those who
\* wait for them.
RwDone(p) ==
  /\ Wakes(p) /\ p \notin busy
  /\ info' = [info EXCEPT ![pc[p].i].b = None]
  /\ free' = free \cup Chain(pc[p].i)
  /\ desc' = [i \in Desc |-> IF i \in Chain(pc[p].i) THEN NoDesc ELSE desc[i]]
  /\ asleep' = asleep \ WaitingForDesc
  /\ ops' = [ops EXCEPT ![pc[p].i] = NoRequest]
  /\ data' = [data EXCEPT ![p] = None]
  /\ Goto(p, Idle)
  /\ UNCHANGED <<lock, used_idx, busy, avail, aidx, deviceVars>>

\* kkill() wakes a process whatever it waits for.
Spurious(p) ==
  /\ p \in asleep
  /\ asleep' = asleep \ {p}
  /\ UNCHANGED <<free, lock, pc, used_idx, busy, info, data, ringVars, deviceVars>>

-----------------------------------------------------------------------------
(* virtio_disk_intr() *)

\* The handler takes the lock and acknowledges the interrupt.
IntrBegin ==
  /\ irq /\ lock = None
  /\ lock' = Handler
  /\ irq' = FALSE
  /\ UNCHANGED <<free, pc, asleep, used_idx, busy, info, data, ringVars,
                 used, uidx, taken, inflight, store>>

\* One entry of the used ring: its buffer is not busy any more, and its process woken.
IntrEntry ==
  LET b == info[used[used_idx % NUM]].b IN
  /\ lock = Handler /\ used_idx # uidx
  /\ busy' = busy \ {b}
  /\ asleep' = asleep \ {b}
  /\ used' = [used EXCEPT ![used_idx % NUM] = 0]
  /\ used_idx' = (used_idx + 1) % WRAP
  /\ UNCHANGED <<free, lock, pc, info, data, ringVars, uidx, irq, taken, inflight, store>>

\* There are no more entries.
IntrEnd ==
  /\ lock = Handler /\ used_idx = uidx
  /\ lock' = None
  /\ UNCHANGED <<free, pc, asleep, used_idx, busy, info, data, ringVars, deviceVars>>

-----------------------------------------------------------------------------
(* The device, as the driver and its comments assume it. *)

\* It takes the next entry of the avail ring.
DevTake ==
  /\ taken # aidx
  /\ inflight' = inflight \cup { avail[taken % NUM] }
  /\ avail' = [avail EXCEPT ![taken % NUM] = 0]
  /\ taken' = (taken + 1) % WRAP
  /\ UNCHANGED <<driverVars, info, data, desc, ops, aidx, used, uidx, irq, store>>

\* It carries out a request, in any order, writes the status, adds the chain to the
\* used ring and raises an interrupt.
DevDone(i) ==
  LET op == ops[desc[i].addr]
      b == desc[desc[i].next].addr
      s == desc[desc[desc[i].next].next].addr
  IN
  /\ i \in inflight
  /\ IF op.type = "read"
     THEN data' = [data EXCEPT ![b] = store[op.sector]] /\ UNCHANGED store
     ELSE store' = [store EXCEPT ![op.sector] = data[b]] /\ UNCHANGED data
  /\ info' = [info EXCEPT ![s].status = 0]
  /\ used' = [used EXCEPT ![uidx % NUM] = i]
  /\ uidx' = (uidx + 1) % WRAP
  /\ irq' = TRUE
  /\ inflight' = inflight \ {i}
  /\ UNCHANGED <<driverVars, ringVars, taken>>

-----------------------------------------------------------------------------
Rw(p) == RwNoDesc(p) \/ RwFormat(p) \/ RwNotify(p) \/ RwAgain(p) \/ RwDone(p)
Intr == IntrBegin \/ IntrEntry \/ IntrEnd

Next ==
  \/ \E p \in Proc : Call(p) \/ Rw(p) \/ Spurious(p)
  \/ Intr
  \/ DevTake \/ \E i \in Desc : DevDone(i)

Spec == Init /\ [][Next]_vars

-----------------------------------------------------------------------------
(* Properties. *)

\* The fields of struct disk and of the rings have their types.
TypeOK ==
  /\ free \subseteq Desc
  /\ lock \in Proc \cup {Handler, None}
  /\ pc \in [Proc -> Places]
  /\ asleep \subseteq Proc /\ busy \subseteq Proc
  /\ used_idx \in 0 .. WRAP - 1 /\ aidx \in 0 .. WRAP - 1 /\ uidx \in 0 .. WRAP - 1
  /\ taken \in 0 .. WRAP - 1
  /\ info \in [Desc -> [b : Proc \cup {None}, status : {0, 255}]]
  /\ data \in [Proc -> Val \cup {None}] /\ store \in [Proc -> Val]
  /\ desc \in [Desc -> [addr : Desc \cup Proc \cup {None}, next : Desc \cup {None}]]
  /\ ops \in [Desc -> [type : {"read", "write", None}, sector : Proc \cup {None}]]
  /\ avail \in [Ring -> Desc] /\ used \in [Ring -> Desc]
  /\ irq \in BOOLEAN
  /\ inflight \subseteq Desc

InRing(p) == pc[p].at \in {"ring", "wait"}
Active == { p \in Proc : InRing(p) }

\* Every descriptor is free or in the chain of one request, and no chain is shared: the
\* device never works on a descriptor that the driver may format again.
DescOwned ==
  /\ \A p \in Active : Cardinality(Chain(pc[p].i)) = 3 /\ Chain(pc[p].i) \cap free = {}
  /\ \A p, q \in Active : p # q => Chain(pc[p].i) \cap Chain(pc[q].i) = {}
  /\ Cardinality(free) + 3 * Cardinality(Active) = NUM
  /\ \A i \in inflight : \E p \in Active : pc[p].i = i

\* The entries of the used ring that the handler has not seen are requests that are
\* done and whose processes still wait for them: the handler finds a buffer, and a
\* status other than 0 never makes it panic.
UsedEntries ==
  \A k \in 0 .. ((WRAP + uidx - used_idx) % WRAP) - 1 :
    LET i == used[(used_idx + k) % NUM] IN
    /\ info[i].status = 0
    /\ info[i].b \in busy /\ pc[info[i].b].at = "wait" /\ pc[info[i].b].i = i

\* No process waits for descriptors while three are free and nobody has the lock.
SleepJustified == lock = None /\ WaitingForDesc # {} => Cardinality(free) < 3

\* Driver, device and waiting processes agree on the rings: whose descriptors are whose,
\* what the entries of the used ring stand for, and how many descriptors are left.
RingsTrue == TypeOK /\ DescOwned /\ UsedEntries /\ SleepJustified

\* A call is done once the device has written its status.
Phase(p) ==
  IF pc[p] = Idle THEN "idle"
  ELSE IF InRing(p) /\ info[pc[p].i].status = 0 THEN "done" ELSE pc[p].op
phase == [p \in Proc |-> Phase(p)]
Ops == INSTANCE DiskOps

\* The driver with its rings and interrupts carries out each call once, on the right
\* block, before the call returns.
ImplementsOps == Ops!Spec
=============================================================================
