------------------------------ MODULE ProcLife ------------------------------
(***************************************************************************)
(* The life of a process in kernel/proc.c: fork, exit, wait, reparent and  *)
(* kill, with the locks that order them.  wait_lock protects the parent    *)
(* links; p->lock protects the other fields of p, and is held from the     *)
(* moment p gives up the CPU until the scheduler has left p's stack.       *)
(*                                                                         *)
(* Which RUNNABLE process runs is left open here (see Mlfq): RUNNABLE      *)
(* stands for RUNNABLE and RUNNING.                                        *)
(***************************************************************************)
EXTENDS Naturals

CONSTANTS
  N,           \* slots of proc[]; slot 1 is initproc
  MaxPid,      \* bound on nextpid
  Targets,     \* the pids that kill() is called with
  None

ASSUME ProcLifeAssumption ==
  N \in Nat \ {0} /\ MaxPid \in Nat /\ Targets \subseteq Nat /\ None \notin 1 .. N

Proc == 1 .. N
Initproc == 1
procstate == {"UNUSED", "USED", "SLEEPING", "RUNNABLE", "ZOMBIE"}

VARIABLES
  state, parent, killed, pid,   \* fields of struct proc
  nextpid,
  wait_lock,   \* the process that holds it
  held,        \* p->lock is held by p, which is on its way into the scheduler
  pc,          \* where each process is
  panicked

vars == <<state, parent, killed, pid, nextpid, wait_lock, held, pc, panicked>>
pidVars == <<pid, nextpid>>

\* A process is in user space; in kfork() with the child c; at step "reparent",
\* "wakeup", "zombie" or the end of kexit(); in kwait(), at slot c of the scan,
\* asleep, or awake and waiting for wait_lock; or in kgetppid().
At(place, c, kids) == [at |-> place, c |-> c, kids |-> kids]
User == At("user", None, FALSE)
Places ==
  [at : {"user", "reparent", "wakeup", "zombie", "gone", "sleep", "asleep",
         "getppid"},
   c : {None}, kids : {FALSE}]
  \cup [at : {"fork", "start"}, c : Proc, kids : {FALSE}]
  \cup [at : {"scan"}, c : 1 .. N + 1, kids : BOOLEAN]

Goto(p, place) == pc' = [pc EXCEPT ![p] = place]

\* The process table after userinit().
Init ==
  /\ state = [p \in Proc |-> IF p = Initproc THEN "RUNNABLE" ELSE "UNUSED"]
  /\ parent = [p \in Proc |-> None]
  /\ killed = [p \in Proc |-> FALSE]
  /\ pid = [p \in Proc |-> IF p = Initproc THEN 1 ELSE 0]
  /\ nextpid = 2
  /\ wait_lock = None
  /\ held = [p \in Proc |-> FALSE]
  /\ pc = [p \in Proc |-> User]
  /\ panicked = FALSE

Runs(p, place) ==
  ~panicked /\ state[p] = "RUNNABLE" /\ ~held[p] /\ pc[p].at = place

\* p makes a system call; usertrap() lets a killed process make none.
Calls(p) == Runs(p, "user") /\ ~killed[p]

\* acquire(&wait_lock) and release(&wait_lock) by p.
AcquireWait(p) == wait_lock = None /\ wait_lock' = p
ReleaseWait(p) == wait_lock' = None

\* wakeup(chan) for the channel of process q, on which only q sleeps, in kwait().
Asleep(q) == q # None /\ state[q] = "SLEEPING"
WakeupBlocked(q) == Asleep(q) /\ held[q]
\* The states after that wakeup().
Woken(q) == IF Asleep(q) THEN [state EXCEPT ![q] = "RUNNABLE"] ELSE state

-----------------------------------------------------------------------------
(* kfork() *)

\* allocproc() and the copy of the parent, under np->lock.  The scan of the slots
\* takes their locks one by one, so any unused slot may be the one it finds.
ForkAlloc(p) == \E np \in Proc :
  /\ Calls(p)
  /\ nextpid <= MaxPid
  /\ state[np] = "UNUSED"
  /\ state' = [state EXCEPT ![np] = "USED"]
  /\ pid' = [pid EXCEPT ![np] = nextpid]
  /\ nextpid' = nextpid + 1
  /\ pc' = [pc EXCEPT ![p] = At("fork", np, FALSE), ![np] = User]
  /\ UNCHANGED <<parent, killed, wait_lock, held, panicked>>

\* The same when memory runs out: freeproc(np), and fork() returns -1.
ForkFail(p) == \E np \in Proc :
  /\ Calls(p)
  /\ nextpid <= MaxPid
  /\ state[np] = "UNUSED"
  /\ killed' = [killed EXCEPT ![np] = FALSE]
  /\ nextpid' = nextpid + 1
  /\ UNCHANGED <<state, parent, pid, wait_lock, held, pc, panicked>>

\* lines 430-432: the child gets its parent, under wait_lock.
ForkParent(p) ==
  /\ Runs(p, "fork")
  /\ wait_lock = None
  /\ parent' = [parent EXCEPT ![pc[p].c] = p]
  /\ Goto(p, At("start", pc[p].c, FALSE))
  /\ UNCHANGED <<state, killed, pidVars, wait_lock, held, panicked>>

\* lines 434-439: the child becomes RUNNABLE.
ForkStart(p) ==
  /\ Runs(p, "start")
  /\ state' = [state EXCEPT ![pc[p].c] = "RUNNABLE"]
  /\ Goto(p, User)
  /\ UNCHANGED <<parent, killed, pidVars, wait_lock, held, panicked>>

-----------------------------------------------------------------------------
(* kexit() *)

\* p calls exit(), or was killed.  init runs /init, which exits when it was killed.
Exit(p) ==
  /\ Runs(p, "user")
  /\ p = Initproc => killed[p]
  /\ IF p = Initproc
     THEN panicked' = TRUE /\ UNCHANGED <<wait_lock, pc>>
     ELSE AcquireWait(p) /\ Goto(p, At("reparent", None, FALSE)) /\ UNCHANGED panicked
  /\ UNCHANGED <<state, parent, killed, pidVars, held>>

\* An exit() that keeps its children.
ReparentSkip(p) ==
  /\ Runs(p, "reparent")
  /\ Goto(p, At("wakeup", None, FALSE))
  /\ UNCHANGED <<state, parent, killed, pidVars, wait_lock, held, panicked>>

\* reparent(): the children go to init, which is woken if there are any.  wait_lock
\* is held, so that init cannot fall asleep again between two of the wakeups.
Reparent(p) ==
  /\ Runs(p, "reparent")
  /\ parent' = [c \in Proc |-> IF parent[c] = p THEN Initproc ELSE parent[c]]
  /\ IF \E c \in Proc : parent[c] = p
     THEN ~WakeupBlocked(Initproc) /\ state' = Woken(Initproc)
     ELSE UNCHANGED state
  /\ Goto(p, At("wakeup", None, FALSE))
  /\ UNCHANGED <<killed, pidVars, wait_lock, held, panicked>>

\* wakeup(p->parent)
ExitWakeup(p) ==
  /\ Runs(p, "wakeup")
  /\ ~WakeupBlocked(parent[p])
  /\ state' = Woken(parent[p])
  /\ Goto(p, At("zombie", None, FALSE))
  /\ UNCHANGED <<parent, killed, pidVars, wait_lock, held, panicked>>

\* lines 492-500: p takes its own lock, is a ZOMBIE, releases wait_lock and calls
\* sched() with its lock held.
ExitZombie(p) ==
  /\ Runs(p, "zombie")
  /\ state' = [state EXCEPT ![p] = "ZOMBIE"]
  /\ held' = [held EXCEPT ![p] = TRUE]
  /\ ReleaseWait(p)
  /\ Goto(p, At("gone", None, FALSE))
  /\ UNCHANGED <<parent, killed, pidVars, panicked>>

\* swtch(): the scheduler runs on its own stack and releases the lock of p.
Swtch(p) ==
  /\ ~panicked /\ held[p]
  /\ held' = [held EXCEPT ![p] = FALSE]
  /\ UNCHANGED <<state, parent, killed, pidVars, wait_lock, pc, panicked>>

-----------------------------------------------------------------------------
(* kwait() *)

\* wait() is called, or its sleep() is over: p takes wait_lock and starts the scan.
WaitBegin(p) ==
  /\ Calls(p) \/ Runs(p, "asleep")
  /\ AcquireWait(p)
  /\ Goto(p, At("scan", 1, FALSE))
  /\ UNCHANGED <<state, parent, killed, pidVars, held, panicked>>

Scans(p, pp) == Runs(p, "scan") /\ pc[p].c = pp /\ pp \in Proc

\* wait() of a zombie whose lock it does not take.
WaitReapUnlocked(p) == \E pp \in Proc :
  /\ Scans(p, pp) /\ parent[pp] = p /\ state[pp] = "ZOMBIE"
  /\ state' = [state EXCEPT ![pp] = "UNUSED"]
  /\ parent' = [parent EXCEPT ![pp] = None]
  /\ pid' = [pid EXCEPT ![pp] = 0]
  /\ killed' = [killed EXCEPT ![pp] = FALSE]
  /\ ReleaseWait(p) /\ Goto(p, User)
  /\ UNCHANGED <<nextpid, held, panicked>>

\* wait() whose freeproc() leaves the mark of kill() in the slot.
WaitReapMarked(p) == \E pp \in Proc :
  /\ Scans(p, pp) /\ parent[pp] = p /\ state[pp] = "ZOMBIE" /\ ~held[pp]
  /\ state' = [state EXCEPT ![pp] = "UNUSED"]
  /\ parent' = [parent EXCEPT ![pp] = None]
  /\ pid' = [pid EXCEPT ![pp] = 0]
  /\ ReleaseWait(p) /\ Goto(p, User)
  /\ UNCHANGED <<killed, nextpid, held, panicked>>

\* lines 518-537: the scan finds a zombie child, whose lock is free once it has left
\* its stack, and freeproc() clears the slot.
WaitReap(p) == \E pp \in Proc :
  /\ Scans(p, pp) /\ parent[pp] = p /\ state[pp] = "ZOMBIE" /\ ~held[pp]
  /\ state' = [state EXCEPT ![pp] = "UNUSED"]
  /\ parent' = [parent EXCEPT ![pp] = None]
  /\ pid' = [pid EXCEPT ![pp] = 0]
  /\ killed' = [killed EXCEPT ![pp] = FALSE]
  /\ ReleaseWait(p) /\ Goto(p, User)
  /\ UNCHANGED <<nextpid, held, panicked>>

\* lines 527-531: copyout() of the exit status fails, and the zombie stays.  /init
\* passes no address.
WaitFault(p) == \E pp \in Proc :
  /\ p # Initproc
  /\ Scans(p, pp) /\ parent[pp] = p /\ state[pp] = "ZOMBIE" /\ ~held[pp]
  /\ ReleaseWait(p) /\ Goto(p, User)
  /\ UNCHANGED <<state, parent, killed, pidVars, held, panicked>>

\* A scan that leaves out the last slot.
WaitPassShort(p) == \E pp \in Proc :
  /\ Scans(p, pp)
  /\ parent[pp] = p => ~held[pp] /\ state[pp] # "ZOMBIE"
  /\ Goto(p, At("scan", IF pp + 1 < N THEN pp + 1 ELSE N + 1, pc[p].kids \/ parent[pp] = p))
  /\ UNCHANGED <<state, parent, killed, pidVars, wait_lock, held, panicked>>

\* The scan passes over a slot, which is a child or not.
WaitPass(p) == \E pp \in Proc :
  /\ Scans(p, pp)
  /\ parent[pp] = p => ~held[pp] /\ state[pp] # "ZOMBIE"
  /\ Goto(p, At("scan", pp + 1, pc[p].kids \/ parent[pp] = p))
  /\ UNCHANGED <<state, parent, killed, pidVars, wait_lock, held, panicked>>

\* lines 542-546: no children, or killed: wait() returns -1.
WaitNone(p) ==
  /\ Runs(p, "scan") /\ pc[p].c = N + 1
  /\ ~pc[p].kids \/ killed[p]
  /\ ReleaseWait(p) /\ Goto(p, User)
  /\ UNCHANGED <<state, parent, killed, pidVars, held, panicked>>

\* The look at p->killed is over when sleep() takes p->lock.
WaitDecide(p) ==
  /\ Runs(p, "scan") /\ pc[p].c = N + 1
  /\ pc[p].kids /\ ~killed[p]
  /\ Goto(p, At("sleep", None, FALSE))
  /\ UNCHANGED <<state, parent, killed, pidVars, wait_lock, held, panicked>>

\* sleep(p, &wait_lock): p->lock is taken before wait_lock is released.
WaitSleep(p) ==
  /\ Runs(p, "sleep")
  /\ state' = [state EXCEPT ![p] = "SLEEPING"]
  /\ held' = [held EXCEPT ![p] = TRUE]
  /\ ReleaseWait(p)
  /\ Goto(p, At("asleep", None, FALSE))
  /\ UNCHANGED <<parent, killed, pidVars, panicked>>

-----------------------------------------------------------------------------
(* kkill() and kgetppid() *)

\* kkill(n): the first slot with that pid is marked, and woken if it sleeps.
Kill(p) == \E n \in Targets, q \in Proc :
  /\ Calls(p)
  /\ pid[q] = n /\ (\A r \in Proc : r < q => pid[r] # n)
  /\ ~held[q]
  /\ killed' = [killed EXCEPT ![q] = TRUE]
  /\ state' = Woken(q)
  /\ UNCHANGED <<parent, pidVars, wait_lock, held, pc, panicked>>

\* kgetppid() has found, under wait_lock, that the parent is not init and not killed.
GetppidCheck(p) ==
  /\ Calls(p) /\ p # Initproc
  /\ parent[p] # Initproc /\ ~held[parent[p]] /\ ~killed[parent[p]]
  /\ AcquireWait(p)
  /\ Goto(p, At("getppid", None, FALSE))
  /\ UNCHANGED <<state, parent, killed, pidVars, held, panicked>>

\* It reads the parent's pid and returns it.
GetppidRead(p) ==
  /\ Runs(p, "getppid")
  /\ ReleaseWait(p) /\ Goto(p, User)
  /\ UNCHANGED <<state, parent, killed, pidVars, held, panicked>>

-----------------------------------------------------------------------------
\* What a process does once it is in the kernel.
Kernel(p) ==
  \/ ForkParent(p) \/ ForkStart(p)
  \/ Reparent(p) \/ ExitWakeup(p) \/ ExitZombie(p) \/ Swtch(p)
  \/ (pc[p].at = "asleep" /\ WaitBegin(p)) \/ WaitReap(p) \/ WaitFault(p) \/ WaitPass(p)
  \/ WaitNone(p) \/ WaitDecide(p) \/ WaitSleep(p)
  \/ GetppidRead(p)

Next == \E p \in Proc :
  \/ Kernel(p)
  \/ ForkAlloc(p) \/ ForkFail(p) \/ Exit(p) \/ WaitBegin(p) \/ Kill(p) \/ GetppidCheck(p)

Spec == Init /\ [][Next]_vars

\* What must happen: a process in the kernel goes on, and gets a lock that it spins
\* for; a killed process traps at last; and /init calls wait() for ever.
Must(p) ==
  Kernel(p) \/ (killed[p] /\ Exit(p)) \/ (p = Initproc /\ WaitBegin(p))

Fairness == \A p \in Proc : SF_vars(Must(p))

FairSpec == Spec /\ Fairness

-----------------------------------------------------------------------------
(* Properties. *)

\* The fields of struct proc have their types.
TypeOK ==
  /\ state \in [Proc -> procstate]
  /\ parent \in [Proc -> Proc \cup {None}]
  /\ killed \in [Proc -> BOOLEAN]
  /\ pid \in [Proc -> Nat] /\ nextpid \in Nat
  /\ wait_lock \in Proc \cup {None}
  /\ held \in [Proc -> BOOLEAN]
  /\ pc \in [Proc -> Places]
  /\ panicked \in BOOLEAN

Started(p) == state[p] \in {"RUNNABLE", "SLEEPING", "ZOMBIE"}

\* No wakeup is lost: a process asleep in wait() has no zombie child.
SleepJustified ==
  \A p, c \in Proc : parent[c] = p /\ state[c] = "ZOMBIE" => state[p] # "SLEEPING"

\* wait() frees a slot, for fork() to use again, only after the process is off the
\* kernel stack of that slot.
FreedOffStack == \A p \in Proc : held[p] => state[p] \in {"SLEEPING", "ZOMBIE"}

\* The process table: well typed, no parent sleeping on a zombie, no slot freed early.
TableSound == TypeOK /\ SleepJustified /\ FreedOffStack

\* A process that fork() creates has not been killed before.
FreshNotKilled ==
  [][\A p \in Proc : state[p] = "UNUSED" /\ state'[p] = "USED" => ~killed'[p]]_vars

\* kgetppid() does not return the pid of a parent that was killed.
PpidAlive ==
  [][\A p \in Proc : pc[p].at = "getppid" /\ pc'[p].at = "user" => ~killed[parent[p]]]_vars

InWait(p) == pc[p].at \in {"scan", "sleep", "asleep"}

\* wait() returns if there is a zombie child, also one that only became a child, or a
\* zombie, while the parent was going to sleep.
WaitReturns ==
  \A p \in Proc :
    (InWait(p) /\ \E c \in Proc : parent[c] = p /\ state[c] = "ZOMBIE")
      ~> (~InWait(p) \/ panicked)

\* Every zombie is removed at last if its parent is init, which adopts those whose
\* parent exits.
OrphanReaped ==
  \A c \in Proc : (parent[c] = Initproc /\ state[c] = "ZOMBIE") ~> (state[c] = "UNUSED" \/ panicked)

\* kwait() collects every zombie that it is called for, and init those that are left.
ZombiesReaped == WaitReturns /\ OrphanReaped

\* A killed process ends.
KilledDies ==
  \A p \in Proc \ {Initproc} :
    (killed[p] /\ Started(p)) ~> (state[p] \in {"ZOMBIE", "UNUSED"} \/ panicked)

-----------------------------------------------------------------------------
\* The abstract tree: a process is a zombie as soon as its children have gone.
TreeStatus(p) ==
  IF state[p] = "ZOMBIE" \/ pc[p].at \in {"wakeup", "zombie"} THEN "zombie"
  ELSE IF state[p] = "UNUSED" \/ (state[p] = "USED" /\ parent[p] = None) THEN "free"
  ELSE "live"
status == [p \in Proc |-> TreeStatus(p)]
Tree == INSTANCE ProcTree

\* fork(), exit() and wait() with their locks are the atomic operations of the tree.
ImplementsTree == Tree!Spec

=============================================================================
