-------------------------------- MODULE Pipe --------------------------------
(***************************************************************************)
(* A pipe of kernel/pipe.c with the open files of kernel/file.c that refer *)
(* to its two ends: processes that share the ends read, write, duplicate   *)
(* and close them.  Everything between acquire(&pi->lock) and the release, *)
(* or the sleep, happens with the lock held; a step moves one byte.        *)
(***************************************************************************)
EXTENDS Naturals, FiniteSets

CONSTANTS
  Proc,
  PIPESIZE,    \* bytes of pi->data
  WRAP,        \* nread and nwrite count modulo WRAP, 2^32 in the code
  Val,         \* bytes
  MaxLen,      \* bound on the length of one read or write
  Kills,       \* whether processes are killed
  None

ASSUME PipeAssumption ==
  /\ {PIPESIZE, WRAP, MaxLen} \subseteq Nat \ {0}
  /\ WRAP > PIPESIZE /\ WRAP % PIPESIZE = 0
  /\ Kills \in BOOLEAN /\ IsFiniteSet(Proc) /\ None \notin Proc

End == {"read", "write"}

VARIABLES
  fd,          \* the ends that each process has open
  ref,         \* f->ref of the file of each end
  open,        \* the ends e with pi->readopen or pi->writeopen set
  freed,       \* the page of the pipe was given back
  lock,        \* the process that holds pi->lock
  data, nread, nwrite,
  pc,          \* where each process is: place, bytes done, bytes wanted, end
  asleep,      \* the processes in sleep()
  killed,      \* p->killed
  event        \* history: the byte that the last step moved

vars == <<fd, ref, open, freed, lock, data, nread, nwrite, pc, asleep, killed, event>>
fileVars == <<fd, ref>>
pipeVars == <<open, freed>>
ringVars == <<data, nread, nwrite>>

At(place, i, n, e) == [at |-> place, i |-> i, n |-> n, e |-> e]
User == At("user", 0, 0, None)
Places ==
  { User } \cup { At("close", 0, 0, e) : e \in End }
  \cup { At(s, i, n, None) : s \in {"write", "wsleep", "empty?", "rsleep", "read"},
                             i \in 0 .. MaxLen, n \in 1 .. MaxLen }

Goto(p, place) == pc' = [pc EXCEPT ![p] = place]

\* pipealloc() has succeeded: one process has both ends.
Init ==
  /\ \E p \in Proc : fd = [q \in Proc |-> IF q = p THEN End ELSE {}]
  /\ ref = [e \in End |-> 1]
  /\ open = End
  /\ freed = FALSE
  /\ lock = None
  /\ data = [k \in 0 .. PIPESIZE - 1 |-> None]
  /\ nread = 0 /\ nwrite = 0
  /\ pc = [p \in Proc |-> User]
  /\ asleep = {}
  /\ killed = {}
  /\ event = None

Empty == nread = nwrite
Full == nwrite = (nread + PIPESIZE) % WRAP

\* The processes that wakeup(&pi->nread) and wakeup(&pi->nwrite) find asleep.
Sleepers(place) == { q \in asleep : pc[q].at = place }
WakeReaders == asleep' = asleep \ Sleepers("rsleep")
WakeWriters == asleep' = asleep \ Sleepers("wsleep")

\* p is at a place of the kernel with the lock, or comes to take it.
Holding(p, place) == pc[p].at = place /\ lock = p
Taking(p) == lock = None /\ lock' = p

\* The call returns: the lock is free again.
Return(p) == lock' = None /\ Goto(p, User)

-----------------------------------------------------------------------------
(* file.c *)

\* filedup(), as in fork(): q shares the file of end e with p.
Dup(p) == \E q \in Proc, e \in fd[p] :
  /\ pc[p] = User /\ pc[q] = User /\ e \notin fd[q]
  /\ fd' = [fd EXCEPT ![q] = @ \cup {e}]
  /\ ref' = [ref EXCEPT ![e] = @ + 1]
  /\ event' = None
  /\ UNCHANGED <<pipeVars, lock, ringVars, pc, asleep, killed>>

\* A fileclose() that closes the pipe with the first reference.
CloseFirst(p) == \E e \in fd[p] :
  /\ pc[p] = User
  /\ fd' = [fd EXCEPT ![p] = @ \ {e}]
  /\ ref' = [ref EXCEPT ![e] = @ - 1]
  /\ Goto(p, At("close", 0, 0, e))
  /\ event' = None
  /\ UNCHANGED <<pipeVars, lock, ringVars, asleep, killed>>

\* fileclose(): the last reference closes the end, after ftable.lock is released.
Close(p) == \E e \in fd[p] :
  /\ pc[p] = User
  /\ fd' = [fd EXCEPT ![p] = @ \ {e}]
  /\ ref' = [ref EXCEPT ![e] = @ - 1]
  /\ IF ref[e] > 1 THEN UNCHANGED pc ELSE Goto(p, At("close", 0, 0, e))
  /\ event' = None
  /\ UNCHANGED <<pipeVars, lock, ringVars, asleep, killed>>

-----------------------------------------------------------------------------
(* pipeclose() *)

\* A pipeclose() that does not wake the other side.
PipeCloseSilent(p) ==
  /\ pc[p].at = "close" /\ lock = None
  /\ open' = open \ {pc[p].e}
  /\ freed' = (open' = {})
  /\ Goto(p, User)
  /\ event' = None
  /\ UNCHANGED <<fileVars, lock, ringVars, asleep, killed>>

\* The end is closed, the other side woken, and the second close frees the page.
PipeClose(p) ==
  /\ pc[p].at = "close" /\ lock = None
  /\ open' = open \ {pc[p].e}
  /\ IF pc[p].e = "write" THEN WakeReaders ELSE WakeWriters
  /\ freed' = (open' = {})
  /\ Goto(p, User)
  /\ event' = None
  /\ UNCHANGED <<fileVars, lock, ringVars, killed>>

-----------------------------------------------------------------------------
(* pipewrite() *)

\* write() of n bytes, or the end of the sleep in one.
WriteBegin(p) ==
  /\ Taking(p) /\ p \notin asleep
  /\ \/ /\ pc[p] = User /\ "write" \in fd[p] /\ p \notin killed
        /\ \E n \in 1 .. MaxLen : Goto(p, At("write", 0, n, None))
     \/ pc[p].at = "wsleep" /\ Goto(p, [pc[p] EXCEPT !.at = "write"])
  /\ event' = None
  /\ UNCHANGED <<fileVars, pipeVars, ringVars, asleep, killed>>

Writing(p) == Holding(p, "write") /\ pc[p].i < pc[p].n

\* Nobody can read any more, or p is killed: -1, whatever was written before.
WriteFail(p) ==
  /\ Writing(p)
  /\ "read" \notin open \/ p \in killed
  /\ Return(p)
  /\ event' = None
  /\ UNCHANGED <<fileVars, pipeVars, ringVars, asleep, killed>>

\* The pipe is full.  A kill after the look at p->killed does not keep p awake.
WriteSleep(p) ==
  /\ Writing(p) /\ "read" \in open /\ Full
  /\ asleep' = (asleep \ Sleepers("rsleep")) \cup {p}
  /\ lock' = None
  /\ Goto(p, [pc[p] EXCEPT !.at = "wsleep"])
  /\ event' = None
  /\ UNCHANGED <<fileVars, pipeVars, ringVars, killed>>

\* A write() that finds the pipe full one byte too late.
WriteByteOver(p) == \E v \in Val :
  /\ Writing(p) /\ "read" \in open
  /\ nwrite # (nread + PIPESIZE + 1) % WRAP
  /\ data' = [data EXCEPT ![nwrite % PIPESIZE] = v]
  /\ nwrite' = (nwrite + 1) % WRAP
  /\ Goto(p, [pc[p] EXCEPT !.i = @ + 1])
  /\ event' = <<"put", v>>
  /\ UNCHANGED <<fileVars, pipeVars, lock, nread, asleep, killed>>

\* One byte goes into the ring.
WriteByte(p) == \E v \in Val :
  /\ Writing(p) /\ "read" \in open /\ ~Full
  /\ data' = [data EXCEPT ![nwrite % PIPESIZE] = v]
  /\ nwrite' = (nwrite + 1) % WRAP
  /\ Goto(p, [pc[p] EXCEPT !.i = @ + 1])
  /\ event' = <<"put", v>>
  /\ UNCHANGED <<fileVars, pipeVars, lock, nread, asleep, killed>>

\* All bytes are written, or copyin() fails: the readers are woken.
WriteDone(p) ==
  /\ Holding(p, "write")
  /\ Writing(p) => "read" \in open /\ ~Full
  /\ WakeReaders
  /\ Return(p)
  /\ event' = None
  /\ UNCHANGED <<fileVars, pipeVars, ringVars, killed>>

-----------------------------------------------------------------------------
(* piperead() *)

\* read() of n bytes, or the end of the sleep in one.
ReadBegin(p) ==
  /\ Taking(p) /\ p \notin asleep
  /\ \/ /\ pc[p] = User /\ "read" \in fd[p] /\ p \notin killed
        /\ \E n \in 1 .. MaxLen : Goto(p, At("empty?", 0, n, None))
     \/ pc[p].at = "rsleep" /\ Goto(p, [pc[p] EXCEPT !.at = "empty?"])
  /\ event' = None
  /\ UNCHANGED <<fileVars, pipeVars, ringVars, asleep, killed>>

NothingYet == Empty /\ "write" \in open

\* p is killed while it waits for a byte.
ReadKilled(p) ==
  /\ Holding(p, "empty?") /\ NothingYet /\ p \in killed
  /\ Return(p)
  /\ event' = None
  /\ UNCHANGED <<fileVars, pipeVars, ringVars, asleep, killed>>

\* The pipe is empty and can still be written.
ReadSleep(p) ==
  /\ Holding(p, "empty?") /\ NothingYet
  /\ asleep' = asleep \cup {p}
  /\ lock' = None
  /\ Goto(p, [pc[p] EXCEPT !.at = "rsleep"])
  /\ event' = None
  /\ UNCHANGED <<fileVars, pipeVars, ringVars, killed>>

\* There are bytes, or there will be none.
ReadStart(p) ==
  /\ Holding(p, "empty?") /\ ~NothingYet
  /\ Goto(p, [pc[p] EXCEPT !.at = "read"])
  /\ event' = None
  /\ UNCHANGED <<fileVars, pipeVars, lock, ringVars, asleep, killed>>

\* One byte comes out of the ring.
ReadByte(p) ==
  /\ Holding(p, "read") /\ pc[p].i < pc[p].n /\ ~Empty
  /\ event' = <<"take", data[nread % PIPESIZE]>>
  /\ nread' = (nread + 1) % WRAP
  /\ Goto(p, [pc[p] EXCEPT !.i = @ + 1])
  /\ UNCHANGED <<fileVars, pipeVars, lock, data, nwrite, asleep, killed>>

\* read() returns, and the writers are woken: it has its bytes, the pipe is empty, or
\* copyout() fails, which leaves the byte in the ring.
ReadDone(p) ==
  /\ Holding(p, "read")
  /\ WakeWriters
  /\ Return(p)
  /\ event' = None
  /\ UNCHANGED <<fileVars, pipeVars, ringVars, killed>>

-----------------------------------------------------------------------------
\* kkill(), from outside: the mark is set, and a sleeping process wakes.
Kill(p) ==
  /\ Kills
  /\ killed' = killed \cup {p}
  /\ asleep' = asleep \ {p}
  /\ event' = None
  /\ UNCHANGED <<fileVars, pipeVars, lock, ringVars, pc>>

Kernel(p) ==
  \/ PipeClose(p)
  \/ (pc[p] # User /\ WriteBegin(p)) \/ WriteFail(p) \/ WriteSleep(p) \/ WriteByte(p)
  \/ WriteDone(p)
  \/ (pc[p] # User /\ ReadBegin(p)) \/ ReadKilled(p) \/ ReadSleep(p) \/ ReadStart(p)
  \/ ReadByte(p) \/ ReadDone(p)

Next == \E p \in Proc :
  Kernel(p) \/ WriteBegin(p) \/ ReadBegin(p) \/ Dup(p) \/ Close(p) \/ Kill(p)

Spec == Init /\ [][Next]_vars

\* A process in the kernel goes on, and gets the lock that it spins for.
FairSpec == Spec /\ \A p \in Proc : SF_vars(Kernel(p))

-----------------------------------------------------------------------------
(* Properties. *)

\* The fields of struct pipe and struct file have their types.
TypeOK ==
  /\ fd \in [Proc -> SUBSET End]
  /\ ref \in [End -> 0 .. Cardinality(Proc)]
  /\ open \subseteq End
  /\ freed \in BOOLEAN
  /\ lock \in Proc \cup {None}
  /\ data \in [0 .. PIPESIZE - 1 -> Val \cup {None}]
  /\ nread \in 0 .. WRAP - 1 /\ nwrite \in 0 .. WRAP - 1
  /\ pc \in [Proc -> Places]
  /\ asleep \subseteq Proc
  /\ killed \subseteq Proc

\* The page of the pipe is given back only when no process is in, or can get into, a
\* read, a write or a close of the pipe.
NoUseAfterFree ==
  freed => \A p \in Proc : pc[p] = User /\ fd[p] = {}

\* Nobody sleeps without a reason: while no call is under way, a sleeping reader finds
\* the pipe empty and a sleeping writer finds it full, and the other end is open. This
\* holds until a process is killed: a killed writer returns -1 without the wakeup at the
\* end of pipewrite() and leaves the readers asleep with its bytes in the pipe.
SleepJustified ==
  lock = None /\ killed = {} =>
    /\ Sleepers("rsleep") # {} => NothingYet
    /\ Sleepers("wsleep") # {} => Full /\ "read" \in open

\* struct pipe is well typed, is not used after it is freed, and nobody sleeps on it in vain.
PipeSound == TypeOK /\ NoUseAfterFree /\ SleepJustified

\* A reader sees the end of the file, and a writer the broken pipe, once the last file
\* of the other end is closed.
EofSeen == \A p \in Proc :
  /\ ("write" \notin open /\ pc[p].at \in {"empty?", "rsleep", "read"}) ~> pc[p] = User
  /\ ("read" \notin open /\ pc[p].at \in {"write", "wsleep"}) ~> pc[p] = User

\* The ring as a queue: nwrite - nread bytes from nread on.
Fill == (WRAP + nwrite - nread) % WRAP
queue == [k \in 1 .. Fill |-> data[(nread + k - 1) % PIPESIZE]]
Queue == INSTANCE Fifo WITH Size <- PIPESIZE

\* The ring with its wrapping counters is a bounded first-in first-out queue.
ImplementsFifo == Queue!Spec

=============================================================================
