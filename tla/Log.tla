--------------------------------- MODULE Log ---------------------------------
(***************************************************************************)
(* The write-ahead log of the file system (kernel/log.c) on top of the     *)
(* buffer cache (kernel/bio.c, as far as the log uses it) and a disk that  *)
(* writes whole blocks.  A machine crash may happen between any two disk   *)
(* writes; forkret() -> fsinit() -> initlog() then recovers.               *)
(*                                                                         *)
(* Each critical section of log.lock is one action.  sleep(&log) and       *)
(* wakeup(&log) move a process between "sleeping" and "begin": it will     *)
(* test the condition of begin_op() again.  The loops of write_log() and   *)
(* install_trans() take one action per block.                              *)
(***************************************************************************)
EXTENDS Naturals, Sequences, FiniteSets, Functions

CONSTANTS
  Proc,          \* processes that run file-system calls
  Block,         \* home blocks
  Value,         \* block contents
  NotCached,     \* no buffer holds the block
  LOGBLOCKS, MAXOPBLOCKS, NBUF,   \* param.h
  Held,          \* most buffers that system calls hold at one time, not pinned
  OpBlocks,      \* distinct blocks one operation really writes
  MaxCrashes     \* bound on the number of crashes

ASSUME LogAssumption ==
  /\ IsFiniteSet(Proc)
  /\ NotCached \notin Value
  /\ MAXOPBLOCKS \in Nat \ {0}
  /\ LOGBLOCKS \in Nat /\ LOGBLOCKS >= MAXOPBLOCKS
  /\ NBUF \in Nat /\ NBUF >= LOGBLOCKS
  /\ Held \in Nat
  /\ OpBlocks \in 1 .. MAXOPBLOCKS
  /\ MaxCrashes \in Nat

VARIABLES
  disk,          \* disk: home blocks
  dlog,          \* disk: log blocks
  dhead,         \* disk: header block, the block numbers of the transaction
  cache,         \* contents of the buffer of each block, if there is one
  pin,           \* references bpin() took on each block's buffer
  lh,            \* log.lh: block numbers of the transaction being built
  outstanding,   \* log.outstanding
  committing,    \* log.committing
  phase, tail,   \* where commit() or recover_from_log() is
  pc,            \* where each process is with respect to begin_op/end_op
  wrote,         \* blocks written so far by each process's operation
  panicked,      \* the function that called panic(), or "no"
  crashes        \* crashes so far

memory == <<cache, pin, lh, outstanding, committing, phase, tail, pc, wrote>>
vars == <<disk, dlog, dhead, memory, panicked, crashes>>

BootPhases == {"read_head", "recover", "recover_clear"}
CommitPhases == {"write_log", "write_head", "install", "clear", "end"}

\* What bread(b)->data is: the cached copy, or the disk block it is read from.
Contents(b) == IF cache[b] = NotCached THEN disk[b] ELSE cache[b]

\* panic() stops the machine
Running == panicked = "no"

Pinned == {b \in Block : pin[b] > 0}

\* variant: end_op() forgets wakeup(&log)
WakeLogMissing(pcs) == pcs

\* sleepers on &log become RUNNABLE and will retry begin_op()'s loop
WakeLog(pcs) == [p \in Proc |-> IF pcs[p] = "sleeping" THEN "begin" ELSE pcs[p]]

\* mkfs leaves an empty log on the disk image; the kernel boots on it.
Init ==
  /\ disk \in [Block -> Value]
  /\ dlog \in [1 .. LOGBLOCKS -> Value]
  /\ dhead = << >>
  /\ cache = [b \in Block |-> NotCached]
  /\ pin = [b \in Block |-> 0]
  /\ lh = << >>
  /\ outstanding = 0 /\ committing = FALSE
  /\ phase = "read_head" /\ tail = 0
  /\ pc = [p \in Proc |-> "user"]
  /\ wrote = [p \in Proc |-> {}]
  /\ panicked = "no"
  /\ crashes = 0

-----------------------------------------------------------------------------
(* The buffer cache, as the log sees it. *)

\* bget() has a buffer to recycle, if nobody else holds one
BufferFree == Cardinality(Pinned) < NBUF

\* bread() of a block that has no buffer, by any caller
Bread(b) ==
  /\ phase \notin BootPhases
  /\ BufferFree
  /\ cache[b] = NotCached
  /\ cache' = [cache EXCEPT ![b] = disk[b]]
  /\ UNCHANGED <<disk, dlog, dhead, pin, lh, outstanding, committing, phase,
                 tail, pc, wrote, panicked, crashes>>

\* variant: bget() does not test refcnt
RecyclePinned(b) ==
  /\ cache[b] # NotCached
  /\ cache' = [cache EXCEPT ![b] = NotCached]
  /\ UNCHANGED <<disk, dlog, dhead, pin, lh, outstanding, committing, phase,
                 tail, pc, wrote, panicked, crashes>>

\* bget() recycles a buffer nobody references for some other block
Recycle(b) ==
  /\ cache[b] # NotCached
  /\ pin[b] = 0
  /\ cache' = [cache EXCEPT ![b] = NotCached]
  /\ UNCHANGED <<disk, dlog, dhead, pin, lh, outstanding, committing, phase,
                 tail, pc, wrote, panicked, crashes>>

\* The pinned buffers and n that system calls hold are all there are.
NoBuffer(n) == phase \notin BootPhases /\ Cardinality(Pinned) + n >= NBUF

\* bget() of a block that is not cached, by commit() or by a system call
BgetPanic ==
  /\ NoBuffer(Held)
  /\ panicked' = "bget"
  /\ UNCHANGED <<disk, dlog, dhead, memory, crashes>>

\* The buffer cache below the log, while system calls hold n buffers
Buffers ==
  \E n \in 0 .. Held :
    IF NoBuffer(n) THEN BgetPanic ELSE \E b \in Block : Bread(b) \/ Recycle(b)

-----------------------------------------------------------------------------
(* The interface used by system calls. *)

LogSpaceFor(n) == Len(lh) + n * MAXOPBLOCKS <= LOGBLOCKS

\* variant: begin_op() does not wait for a commit
BeginOpDuring(p) ==
  /\ phase \notin BootPhases
  /\ pc[p] \in {"user", "begin"}
  /\ IF ~LogSpaceFor(outstanding + 1)
       THEN /\ pc' = [pc EXCEPT ![p] = "sleeping"]
            /\ UNCHANGED outstanding
       ELSE /\ pc' = [pc EXCEPT ![p] = "op"]
            /\ outstanding' = outstanding + 1
  /\ UNCHANGED <<disk, dlog, dhead, cache, pin, lh, committing, phase, tail,
                 wrote, panicked, crashes>>

BeginOp(p) ==
  /\ phase \notin BootPhases
  /\ pc[p] \in {"user", "begin"}
  /\ IF committing \/ ~LogSpaceFor(outstanding + 1)
       THEN /\ pc' = [pc EXCEPT ![p] = "sleeping"]
            /\ UNCHANGED outstanding
       ELSE /\ pc' = [pc EXCEPT ![p] = "op"]
            /\ outstanding' = outstanding + 1
  /\ UNCHANGED <<disk, dlog, dhead, cache, pin, lh, committing, phase, tail,
                 wrote, panicked, crashes>>

\* The caller changes the buffer bread() gave it and calls log_write().
LogWrite(p, b, v) ==
  /\ pc[p] = "op"
  /\ cache[b] # NotCached
  /\ Cardinality(wrote[p] \cup {b}) <= OpBlocks
  /\ IF Len(lh) >= LOGBLOCKS \/ outstanding < 1
       THEN /\ panicked' = "log_write"
            /\ UNCHANGED <<cache, pin, lh, wrote>>
       ELSE /\ cache' = [cache EXCEPT ![b] = v]
            /\ wrote' = [wrote EXCEPT ![p] = @ \cup {b}]
            /\ IF b \in Range(lh)      \* log absorption
                 THEN UNCHANGED <<pin, lh>>
                 ELSE /\ pin' = [pin EXCEPT ![b] = @ + 1]
                      /\ lh' = Append(lh, b)
            /\ UNCHANGED panicked
  /\ UNCHANGED <<disk, dlog, dhead, outstanding, committing, phase, tail, pc,
                 crashes>>

\* end_op() up to its first release(); the last one out goes on to commit().
EndOp(p) ==
  /\ pc[p] = "op"
  /\ outstanding' = outstanding - 1
  /\ wrote' = [wrote EXCEPT ![p] = {}]
  /\ IF committing
       THEN /\ panicked' = "end_op"
            /\ UNCHANGED <<committing, phase, tail, pc>>
       ELSE /\ IF outstanding = 1
                 THEN /\ committing' = TRUE
                      /\ phase' = IF Len(lh) > 0 THEN "write_log" ELSE "end"
                      /\ tail' = 0
                      /\ pc' = [pc EXCEPT ![p] = "commit"]
                 ELSE /\ pc' = WakeLog([pc EXCEPT ![p] = "user"])
                      /\ UNCHANGED <<committing, phase, tail>>
            /\ UNCHANGED panicked
  /\ UNCHANGED <<disk, dlog, dhead, cache, pin, lh, crashes>>

-----------------------------------------------------------------------------
(* commit(), by the process whose end_op() was the last. *)

\* variant: a loop that leaves out the last block
AfterAllButLast(i, n, loop, next) == IF i + 1 >= n THEN next ELSE loop

\* the next phase of a loop over the n blocks of the header
After(i, n, loop, next) == IF i = n THEN next ELSE loop

\* one turn of write_log()
WriteLog ==
  LET i == tail + 1 IN
  /\ phase = "write_log"
  /\ BufferFree
  /\ dlog' = [dlog EXCEPT ![i] = Contents(lh[i])]
  /\ cache' = [cache EXCEPT ![lh[i]] = Contents(lh[i])]
  /\ phase' = After(i, Len(lh), "write_log", "write_head")
  /\ tail' = i
  /\ UNCHANGED <<disk, dhead, pin, lh, outstanding, committing, pc, wrote, panicked,
                 crashes>>

\* write_head(): the true commit point
WriteHead ==
  /\ phase = "write_head"
  /\ BufferFree
  /\ dhead' = lh
  /\ phase' = "install" /\ tail' = 0
  /\ UNCHANGED <<disk, dlog, cache, pin, lh, outstanding, committing, pc, wrote,
                 panicked, crashes>>

\* variant: no bunpin()
UnpinNever(recovering, b) == pin

\* install_trans() releases the pin that log_write() took
Unpin(recovering, b) == IF recovering THEN pin ELSE [pin EXCEPT ![b] = @ - 1]

\* one turn of install_trans(recovering); after the last, log.lh.n = 0
InstallBlock(recovering, loop, next) ==
  LET i == tail + 1
      b == lh[i]
  IN /\ disk' = [disk EXCEPT ![b] = dlog[i]]
     /\ cache' = [cache EXCEPT ![b] = dlog[i]]
     /\ pin' = Unpin(recovering, b)
     /\ phase' = After(i, Len(lh), loop, next)
     /\ tail' = i
     /\ lh' = IF i = Len(lh) THEN << >> ELSE lh

InstallTrans ==
  /\ phase = "install"
  /\ BufferFree
  /\ InstallBlock(FALSE, "install", "clear")
  /\ UNCHANGED <<dlog, dhead, outstanding, committing, pc, wrote, panicked, crashes>>

\* the second write_head() of commit(): erase the transaction
ClearHead ==
  /\ phase = "clear"
  /\ dhead' = lh
  /\ phase' = "end"
  /\ UNCHANGED <<disk, dlog, cache, pin, lh, outstanding, committing, tail, pc,
                 wrote, panicked, crashes>>

\* the rest of end_op() after commit()
EndCommit ==
  /\ phase = "end"
  /\ phase' = "idle"
  /\ committing' = FALSE
  /\ pc' = WakeLog([p \in Proc |-> IF pc[p] = "commit" THEN "user" ELSE pc[p]])
  /\ UNCHANGED <<disk, dlog, dhead, cache, pin, lh, outstanding, tail, wrote,
                 panicked, crashes>>

-----------------------------------------------------------------------------
(* Crash and recovery. *)

Crash ==
  /\ crashes < MaxCrashes
  /\ crashes' = crashes + 1
  /\ cache' = [b \in Block |-> NotCached]
  /\ pin' = [b \in Block |-> 0]
  /\ lh' = << >>
  /\ outstanding' = 0 /\ committing' = FALSE
  /\ phase' = "read_head" /\ tail' = 0
  /\ pc' = [p \in Proc |-> "user"]
  /\ wrote' = [p \in Proc |-> {}]
  /\ UNCHANGED <<disk, dlog, dhead, panicked>>

\* read_head() of recover_from_log()
ReadHead ==
  /\ phase = "read_head"
  /\ lh' = dhead
  /\ phase' = IF Len(dhead) > 0 THEN "recover" ELSE "recover_clear"
  /\ tail' = 0
  /\ UNCHANGED <<disk, dlog, dhead, cache, pin, outstanding, committing, pc,
                 wrote, panicked, crashes>>

RecoverTrans ==
  /\ phase = "recover"
  /\ InstallBlock(TRUE, "recover", "recover_clear")
  /\ UNCHANGED <<dlog, dhead, outstanding, committing, pc, wrote, panicked, crashes>>

RecoverClear ==
  /\ phase = "recover_clear"
  /\ dhead' = lh
  /\ phase' = "idle"
  /\ UNCHANGED <<disk, dlog, cache, pin, lh, outstanding, committing, tail, pc,
                 wrote, panicked, crashes>>

-----------------------------------------------------------------------------
Commit == WriteLog \/ WriteHead \/ InstallTrans \/ ClearHead \/ EndCommit
Recover == ReadHead \/ RecoverTrans \/ RecoverClear

Next ==
  /\ Running
  /\ \/ Buffers
     \/ \E p \in Proc : BeginOp(p) \/ EndOp(p)
     \/ \E p \in Proc, b \in Block, v \in Value : LogWrite(p, b, v)
     \/ Commit
     \/ Recover
     \/ Crash

Spec == Init /\ [][Next]_vars

\* An operation that began reaches its end_op(), a woken process runs again,
\* and the disk answers; nothing is assumed of new operations or crashes.
Fairness ==
  /\ WF_vars(Running /\ Commit)
  /\ WF_vars(Running /\ Recover)
  /\ \A p \in Proc : WF_vars(Running /\ EndOp(p))
  /\ \A p \in Proc : WF_vars(Running /\ pc[p] = "begin" /\ BeginOp(p))

FairSpec == Spec /\ Fairness

-----------------------------------------------------------------------------
(* Properties. *)

\* Every variable of the log has its type (struct log, struct logheader).
TypeOK ==
  /\ disk \in [Block -> Value]
  /\ dlog \in [1 .. LOGBLOCKS -> Value]
  /\ dhead \in Seq(Block) /\ Len(dhead) <= LOGBLOCKS
  /\ cache \in [Block -> Value \cup {NotCached}]
  /\ pin \in [Block -> Nat]
  /\ lh \in Seq(Block) /\ Len(lh) <= LOGBLOCKS
  /\ outstanding \in Nat
  /\ committing \in BOOLEAN
  /\ phase \in {"idle"} \cup CommitPhases \cup BootPhases
  /\ tail \in 0 .. LOGBLOCKS
  /\ pc \in [Proc -> {"user", "begin", "sleeping", "op", "commit"}]
  /\ wrote \in [Proc -> SUBSET Block]
  /\ panicked \in {"no", "log_write", "end_op", "bget"}
  /\ crashes \in 0 .. MaxCrashes

\* What recovery would leave on the disk if the machine crashed now.
Durable ==
  [b \in Block |->
     IF \E i \in 1 .. Len(dhead) : dhead[i] = b
       THEN dlog[CHOOSE i \in 1 .. Len(dhead) : dhead[i] = b]
       ELSE disk[b]]

\* What a reader sees; during recovery nobody reads yet.
View == IF phase \in BootPhases THEN Durable ELSE [b \in Block |-> Contents(b)]

Store == INSTANCE TxnStore WITH
           durable <- Durable, view <- View, active <- {p \in Proc : pc[p] = "op"}

\* log.c implements the transactional store: whatever the interleaving of
\* operations, block writes, recycled buffers, crashes and crashes during
\* recovery, the durable contents change in one step only (write_head), when
\* no operation is between begin_op() and end_op().
Atomicity == Store!Spec

\* No panic() of log_write(), end_op() or bget() is reached: the space that
\* begin_op() reserves suffices for every operation it lets in, and leaves
\* commit() a buffer.
NoPanic == Running

\* log_write() accepts every write of an operation that stays within
\* MAXOPBLOCKS distinct blocks (param.h), absorbed writes included.
LogWriteAccepted == panicked # "log_write"

\* commit() finds a buffer for each log block, however many of the LOGBLOCKS
\* entries of the log are in use (param.h: NBUF = LOGBLOCKS), even when no
\* system call holds a buffer (Held = 0).
CommitHasBuffer == panicked # "bget"

\* When no operation is in progress and end_op()'s commit is over, everything
\* written so far is durable, and no buffer stays pinned.
QuiescentDurable ==
  phase = "idle" /\ outstanding = 0 => Durable = View /\ Pinned = {}

\* A process that sleeps in begin_op() is woken again: either by an end_op()
\* that gave space back or by the end of a commit.
SleeperWoken == \A p \in Proc : pc[p] = "sleeping" ~> pc[p] # "sleeping"

-----------------------------------------------------------------------------
(* The inductive invariant behind NoPanic and Atomicity. *)

InOp == {p \in Proc : pc[p] = "op"}

\* Space reserved and not used yet: an operation that wrote k blocks holds
\* MAXOPBLOCKS - k tokens.
Tokens == {t \in InOp \X (1 .. MAXOPBLOCKS) : t[2] > Cardinality(wrote[t[1]])}

\* The entries of the header that install_trans() has yet to copy home.
Uninstalled ==
  IF phase = "install" THEN tail + 1 .. Len(lh)
  ELSE IF phase \in {"idle", "write_log", "write_head"} THEN 1 .. Len(lh)
  ELSE {}

\* log.outstanding counts the operations in progress; none is during a commit
\* or recovery; what an operation wrote is in the header.
OpInv ==
  /\ outstanding = Cardinality(InOp)
  /\ committing <=> phase \in CommitPhases
  /\ phase # "idle" => InOp = {}
  /\ InOp = {} /\ phase = "idle" => lh = << >>
  /\ \A p \in Proc : /\ IsFiniteSet(wrote[p])
                     /\ Cardinality(wrote[p]) <= OpBlocks
                     /\ \A b \in wrote[p] : \E i \in 1 .. Len(lh) : lh[i] = b
                     /\ p \notin InOp => wrote[p] = {}

\* The header has room for every reservation.
SpaceInv ==
  phase \notin BootPhases =>
    /\ Len(lh) + Cardinality(Tokens) <= LOGBLOCKS
    /\ OpBlocks < MAXOPBLOCKS => Len(lh) < LOGBLOCKS

\* Exactly the buffers whose contents exist nowhere else are pinned.
PinInv == \A b \in Block : pin[b] = IF \E i \in Uninstalled : lh[i] = b THEN 1 ELSE 0

CacheInv ==
  \A b \in Block : IF pin[b] = 0 THEN cache[b] \in {NotCached, disk[b]}
                                 ELSE cache[b] # NotCached

\* The two headers: no block twice, and the one on disk is empty except
\* between the two write_head() calls.
HeadInv ==
  /\ IsInjective(lh) /\ IsInjective(dhead)
  /\ phase \in {"idle", "write_log", "write_head", "end"} => dhead = << >>
  /\ phase \in {"install", "recover"} => dhead = lh
  /\ phase \in {"clear", "end", "recover_clear"} => lh = << >>
  /\ phase \in {"write_log", "install", "recover"} => tail < Len(lh)
  /\ phase = "write_head" => lh # << >>

\* How far the block copies got.
DataInv ==
  /\ phase = "write_log" => \A i \in 1 .. tail : dlog[i] = Contents(lh[i])
  /\ phase = "write_head" => \A i \in 1 .. Len(lh) : dlog[i] = Contents(lh[i])
  /\ phase = "install" => \A i \in tail + 1 .. Len(lh) : cache[lh[i]] = dlog[i]
  /\ phase \in {"install", "recover"} => \A i \in 1 .. tail : disk[lh[i]] = dlog[i]
  /\ phase \in {"clear", "recover_clear"} =>
       \A i \in 1 .. Len(dhead) : disk[dhead[i]] = dlog[i]

\* The bookkeeping of log.c, as one inductive invariant: reservations, pins,
\* the two headers and the progress of the block copies agree with each other.
LogInv == OpInv /\ SpaceInv /\ PinInv /\ CacheInv /\ HeadInv /\ DataInv
=============================================================================
