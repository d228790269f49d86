-------------------------------- MODULE Mlfq --------------------------------
(***************************************************************************)
(* The multi-level feedback queue scheduler of kernel/proc.c: the run      *)
(* queues, the per-CPU loop SC_MLFQ() with its priority boost, and every   *)
(* operation that makes a process RUNNABLE or takes that away.             *)
(*                                                                         *)
(* A critical section of a queue's lock or of p->lock is one action.  The  *)
(* p->lock that a process and the scheduler hand over in swtch() protects  *)
(* only p's fields and the CPU's own, so the section that begins in        *)
(* event_tick(), sleep() or kexit() and ends in SC_MLFQ(), and the one     *)
(* that goes the other way, is one action too.                             *)
(***************************************************************************)
EXTENDS Naturals, Sequences, Functions

CONSTANTS
  CPU,         \* the harts; hart 0 counts the ticks and does the boost
  N,           \* slots of proc[] in use; slot 1 is initproc
  NPROC,       \* entries of a queue (param.h)
  LEVELS,      \* param.h
  SLICE,       \* ticks_max[0], 2 in qinit()
  BOOST,       \* ticks between two boosts, 128 in SC_MLFQ()
  Kills        \* the processes that kkill() is called for

ASSUME MlfqAssumption ==
  /\ 0 \in CPU
  /\ {N, NPROC, LEVELS, SLICE, BOOST} \subseteq Nat \ {0}
  /\ Kills \subseteq 1 .. N

Proc == 1 .. N
NoProc == 0
Level == 0 .. LEVELS - 1
procstate == {"UNUSED", "USED", "SLEEPING", "RUNNABLE", "RUNNING", "ZOMBIE"}

\* ticks_max[l], as qinit() fills it.
ticks_max(l) == SLICE * 2 ^ l

\* The number of system calls is compared with a slice: count up to the longest.
SysMax == ticks_max(LEVELS - 1)

VARIABLES
  state,       \* p->state
  qlevel,      \* p->qlevel
  pticks,      \* p->pticks
  dsys,        \* p->sysCount - p->dSysCount, up to SysMax
  killed,      \* processes with p->killed set
  child,       \* the process that kfork() has allocated but not yet started
  pqueue,      \* pqueue[l].qproc[0 .. tail - 1]
  cpu,         \* where each CPU is: place, loop index, process
  tmod,        \* ticks % BOOST
  boosted      \* ticks = 0 or last_mod128 = ticks

vars == <<state, qlevel, pticks, dsys, killed, child, pqueue, cpu, tmod, boosted>>
sliceVars == <<qlevel, pticks, dsys>>
tickVars == <<tmod, boosted>>

\* A CPU is at the top of the loop of SC_MLFQ(), clears queue i or visits slot i
\* in the boost, looks at queue i, waits for the lock of the process p that it
\* took from queue i, or runs p.
At(place, i, p) == [at |-> place, i |-> i, p |-> p]
Sched == At("sched", 0, NoProc)
Run(p) == At("run", 0, p)
Places == { Sched } \cup { Run(p) : p \in Proc }
          \cup { At("clear", i, NoProc) : i \in Level }
          \cup { At("visit", i, NoProc) : i \in Proc }
          \cup { At("scan", i, NoProc) : i \in Level }
          \cup { At("popped", i, p) : i \in Level, p \in Proc }

Running(c, p) == cpu[c] = Run(p)
Goto(c, place) == cpu' = [cpu EXCEPT ![c] = place]

\* The process table after userinit(): initproc is RUNNABLE and queued.
Init ==
  /\ state = [p \in Proc |-> IF p = 1 THEN "RUNNABLE" ELSE "UNUSED"]
  /\ qlevel = [p \in Proc |-> 0]
  /\ pticks = [p \in Proc |-> 0]
  /\ dsys = [p \in Proc |-> 0]
  /\ killed = {}
  /\ child = [p \in Proc |-> NoProc]
  /\ pqueue = [l \in Level |-> IF l = 0 THEN <<1>> ELSE << >>]
  /\ cpu = [c \in CPU |-> Sched]
  /\ tmod = 0
  /\ boosted = TRUE

-----------------------------------------------------------------------------
(* The queues. *)

\* An entry for p at the tail; nothing happens when the queue is full.
push_proc(q, p) == IF Len(q) < NPROC THEN Append(q, p) ELSE q

\* p becomes RUNNABLE and is queued at level l.
MakeRunnable(p, l) ==
  /\ state' = [state EXCEPT ![p] = "RUNNABLE"]
  /\ pqueue' = [pqueue EXCEPT ![l] = push_proc(@, p)]

-----------------------------------------------------------------------------
(* SC_MLFQ(), one action for each step of the loop. *)

NextLevel(i) == IF i + 1 \in Level THEN At("scan", i + 1, NoProc) ELSE Sched

\* lines 610-623: the boost is due on hart 0 when ticks is a new multiple of
\* BOOST.  Only hart 0 changes ticks, with interrupts off, so the value is fresh.
LoopTop(c) ==
  /\ cpu[c] = Sched
  /\ IF c = 0 /\ tmod = 0 /\ ~boosted
     THEN boosted' = TRUE /\ Goto(c, At("clear", 0, NoProc))
     ELSE UNCHANGED boosted /\ Goto(c, At("scan", 0, NoProc))
  /\ UNCHANGED <<state, sliceVars, killed, child, pqueue, tmod>>

\* lines 635-640: the boost empties queue i.
BoostClear(c) == \E i \in Level :
  /\ cpu[c] = At("clear", i, NoProc)
  /\ pqueue' = [pqueue EXCEPT ![i] = << >>]
  /\ Goto(c, IF i + 1 \in Level THEN At("clear", i + 1, NoProc)
                                ELSE At("visit", 1, NoProc))
  /\ UNCHANGED <<state, sliceVars, killed, child, tickVars>>

\* A boost that forgets that a RUNNABLE process lost its entry.
BoostRunningOnly == procstate \ {"UNUSED", "ZOMBIE", "SLEEPING", "RUNNABLE"}

\* States of the processes that the boost moves to level 0.
BoostStates == procstate \ {"UNUSED", "ZOMBIE", "SLEEPING"}

\* lines 643-661: the boost visits slot p.
BoostVisit(c) == \E p \in Proc :
  /\ cpu[c] = At("visit", p, NoProc)
  /\ IF state[p] \in BoostStates
     THEN /\ qlevel' = [qlevel EXCEPT ![p] = 0]
          /\ pticks' = [pticks EXCEPT ![p] = 0]
          /\ dsys' = [dsys EXCEPT ![p] = 0]
          /\ pqueue' = [pqueue EXCEPT ![0] = push_proc(@, p)]
     ELSE UNCHANGED <<sliceVars, pqueue>>
  /\ Goto(c, IF p + 1 \in Proc THEN At("visit", p + 1, NoProc)
                               ELSE At("scan", 0, NoProc))
  /\ UNCHANGED <<state, killed, child, tickVars>>

\* lines 666-696, 725: take the head of queue i, or go on to queue i + 1.  After
\* the last level the CPU waits in wfi for the next interrupt (the timer, at the
\* latest) and starts again.
Scan(c) == \E i \in Level :
  /\ cpu[c] = At("scan", i, NoProc)
  /\ IF pqueue[i] # << >>
     THEN /\ pqueue' = [pqueue EXCEPT ![i] = Tail(@)]
          /\ Goto(c, At("popped", i, Head(pqueue[i])))
     ELSE UNCHANGED pqueue /\ Goto(c, NextLevel(i))
  /\ UNCHANGED <<state, sliceVars, killed, child, tickVars>>

\* The scheduler without its look at p->state.
DispatchUnchecked(c) == \E i \in Level, p \in Proc :
  /\ cpu[c] = At("popped", i, p)
  /\ state' = [state EXCEPT ![p] = "RUNNING"]
  /\ Goto(c, Run(p))
  /\ UNCHANGED <<sliceVars, killed, child, pqueue, tickVars>>

\* The scheduler that takes a process still USED for a runnable one.
DispatchUsed(c) == \E i \in Level, p \in Proc :
  /\ cpu[c] = At("popped", i, p)
  /\ IF state[p] \in {"RUNNABLE", "USED"}
     THEN state' = [state EXCEPT ![p] = "RUNNING"] /\ Goto(c, Run(p))
     ELSE UNCHANGED state /\ Goto(c, NextLevel(i))
  /\ UNCHANGED <<sliceVars, killed, child, pqueue, tickVars>>

\* lines 698-723: under p->lock, run p if it is RUNNABLE, or drop the entry and
\* go on with the next level.
Dispatch(c) == \E i \in Level, p \in Proc :
  /\ cpu[c] = At("popped", i, p)
  /\ IF state[p] = "RUNNABLE"
     THEN state' = [state EXCEPT ![p] = "RUNNING"] /\ Goto(c, Run(p))
     ELSE UNCHANGED state /\ Goto(c, NextLevel(i))
  /\ UNCHANGED <<sliceVars, killed, child, pqueue, tickVars>>

-----------------------------------------------------------------------------
(* Interrupts, system calls and the operations of the running process. *)

\* clockintr(): hart 0 counts the tick.  Its wakeup(&ticks) is Wakeup below.
ClockIntr(c) ==
  IF c = 0 THEN tmod' = (tmod + 1) % BOOST /\ boosted' = FALSE
           ELSE UNCHANGED tickVars

\* p has used up the slice of its level: a CPU hog moves one level down.
SliceOver(p) == pticks[p] + 1 >= ticks_max(qlevel[p])
EndLevel(p) ==
  IF dsys[p] < pticks[p] + 1 /\ qlevel[p] < LEVELS - 1
  THEN qlevel[p] + 1 ELSE qlevel[p]

\* A process of a higher level is queued.
HigherQueued(p) == \E i \in Level : i < qlevel[p] /\ pqueue[i] # << >>

\* event_tick(p): end of the slice, preemption by a higher level, or neither.
event_tick(c, p) ==
  \/ /\ SliceOver(p)
     /\ pticks' = [pticks EXCEPT ![p] = 0]
     /\ dsys' = [dsys EXCEPT ![p] = 0]
     /\ qlevel' = [qlevel EXCEPT ![p] = EndLevel(p)]
     /\ MakeRunnable(p, EndLevel(p))
     /\ Goto(c, Sched)
  \/ /\ ~SliceOver(p)
     /\ pticks' = [pticks EXCEPT ![p] = @ + 1]
     /\ IF HigherQueued(p)
        THEN MakeRunnable(p, qlevel[p]) /\ Goto(c, Sched)
        ELSE UNCHANGED <<state, pqueue, cpu>>
     /\ UNCHANGED <<qlevel, dsys>>

\* The timer interrupts a process, in user space or in the kernel.
TimerRun(c) == \E p \in Proc :
  /\ Running(c, p)
  /\ ClockIntr(c)
  /\ event_tick(c, p)
  /\ UNCHANGED <<killed, child>>

\* The timer interrupts hart 0 in the scheduler, which lets interrupts in only
\* at the top of its loop.
TimerIdle ==
  /\ cpu[0] = Sched
  /\ ClockIntr(0)
  /\ UNCHANGED <<state, sliceVars, killed, child, pqueue, cpu>>

\* syscall() counts the call.
Syscall(c) == \E p \in Proc :
  /\ Running(c, p)
  /\ child[p] = NoProc
  /\ dsys[p] < SysMax
  /\ dsys' = [dsys EXCEPT ![p] = @ + 1]
  /\ UNCHANGED <<state, qlevel, pticks, killed, child, pqueue, cpu, tickVars>>

\* kfork() up to the release of np->lock: a slot becomes USED, at level 0.
ForkAlloc(c) == \E p, np \in Proc :
  /\ Running(c, p)
  /\ child[p] = NoProc
  /\ state[np] = "UNUSED"
  /\ state' = [state EXCEPT ![np] = "USED"]
  /\ qlevel' = [qlevel EXCEPT ![np] = 0]
  /\ pticks' = [pticks EXCEPT ![np] = 0]
  /\ dsys' = [dsys EXCEPT ![np] = 0]
  /\ child' = [child EXCEPT ![p] = np]
  /\ UNCHANGED <<killed, pqueue, cpu, tickVars>>

\* The end of kfork(): the child is RUNNABLE and queued.
ForkStart(c) == \E p \in Proc :
  /\ Running(c, p)
  /\ child[p] # NoProc
  /\ MakeRunnable(child[p], qlevel[child[p]])
  /\ child' = [child EXCEPT ![p] = NoProc]
  /\ UNCHANGED <<sliceVars, killed, cpu, tickVars>>

\* sleep(): the process gives up the CPU.
Sleep(c) == \E p \in Proc :
  /\ Running(c, p)
  /\ child[p] = NoProc
  /\ state' = [state EXCEPT ![p] = "SLEEPING"]
  /\ Goto(c, Sched)
  /\ UNCHANGED <<sliceVars, killed, child, pqueue, tickVars>>

\* wakeup(), from a process or an interrupt handler, finds p asleep on the channel.
Wakeup(p) ==
  /\ state[p] = "SLEEPING"
  /\ MakeRunnable(p, qlevel[p])
  /\ UNCHANGED <<sliceVars, killed, child, cpu, tickVars>>

\* kkill(): a sleeping process becomes RUNNABLE, and there is no push_proc().  A mark
\* on a zombie has no effect.
Kill(p) ==
  /\ p \in Kills
  /\ state[p] \notin {"UNUSED", "ZOMBIE"}
  /\ p \in killed => state[p] = "SLEEPING"
  /\ \E c \in CPU, q \in Proc : Running(c, q) /\ child[q] = NoProc
  /\ killed' = killed \cup {p}
  /\ state' = IF state[p] = "SLEEPING" THEN [state EXCEPT ![p] = "RUNNABLE"] ELSE state
  /\ UNCHANGED <<sliceVars, child, pqueue, cpu, tickVars>>

\* kexit() of a process other than init.
Exit(c) == \E p \in Proc \ {1} :
  /\ Running(c, p)
  /\ child[p] = NoProc
  /\ state' = [state EXCEPT ![p] = "ZOMBIE"]
  /\ Goto(c, Sched)
  /\ UNCHANGED <<sliceVars, killed, child, pqueue, tickVars>>

\* kwait() frees the slot of a zombie child; its stale entries stay queued.
Reap(c) == \E p, pp \in Proc :
  /\ Running(c, p)
  /\ child[p] = NoProc
  /\ state[pp] = "ZOMBIE"
  /\ state' = [state EXCEPT ![pp] = "UNUSED"]
  /\ killed' = killed \ {pp}
  /\ UNCHANGED <<sliceVars, child, pqueue, cpu, tickVars>>

-----------------------------------------------------------------------------
SchedStep(c) ==
  LoopTop(c) \/ BoostClear(c) \/ BoostVisit(c) \/ Scan(c) \/ Dispatch(c)

ProcStep(c) ==
  Syscall(c) \/ ForkAlloc(c) \/ ForkStart(c) \/ Sleep(c) \/ Exit(c) \/ Reap(c)

Next ==
  \/ \E c \in CPU : SchedStep(c) \/ TimerRun(c) \/ ProcStep(c)
  \/ TimerIdle
  \/ \E p \in Proc : Wakeup(p) \/ Kill(p)

Spec == Init /\ [][Next]_vars

\* The scheduler's loop never stops, and the timer of each CPU keeps firing.
Fairness == \A c \in CPU : WF_vars(SchedStep(c)) /\ WF_vars(TimerRun(c))

FairSpec == Spec /\ Fairness

-----------------------------------------------------------------------------
(* Properties. *)

\* Every variable has the type of the fields of struct proc, struct queue and
\* struct cpu that it stands for; no queue outgrows qproc[NPROC].
TypeOK ==
  /\ state \in [Proc -> procstate]
  /\ qlevel \in [Proc -> Level]
  /\ pticks \in [Proc -> Nat]
  /\ dsys \in [Proc -> Nat]
  /\ killed \subseteq Proc
  /\ child \in [Proc -> Proc \cup {NoProc}]
  /\ pqueue \in [Level -> Seq(Proc)]
  /\ \A l \in Level : Len(pqueue[l]) <= NPROC
  /\ cpu \in [CPU -> Places]
  /\ tmod \in 0 .. BOOST - 1
  /\ boosted \in BOOLEAN

\* However many entries the boost and push_proc() leave in the queues for a
\* process, no two CPUs run it, and its state is RUNNING exactly while one does.
OneCpu == \A p \in Proc :
  /\ state[p] = "RUNNING" <=> \E c \in CPU : Running(c, p)
  /\ \A c, d \in CPU : Running(c, p) /\ Running(d, p) => c = d

Queued(p) == \E l \in Level : p \in Range(pqueue[l])
InFlight(p) == \E c \in CPU : cpu[c].at = "popped" /\ cpu[c].p = p
BoostWillVisit(p) ==
  \E c \in CPU : cpu[c].at = "clear" \/ (cpu[c].at = "visit" /\ cpu[c].i <= p)

\* The scheduler can find p: p has an entry in some queue, or a CPU has just taken
\* it, or the boost in progress will queue it.
Findable(p) == Queued(p) \/ InFlight(p) \/ BoostWillVisit(p)

\* No process is forgotten: however boost, wakeup, fork and dispatch interleave, the
\* scheduler can find every RUNNABLE process that kkill() has not touched.
NoStranded == \A p \in Proc : state[p] = "RUNNABLE" /\ p \notin killed => Findable(p)

\* kkill() wakes the process it kills: the scheduler can find it too.
KilledFindable == \A p \in Proc : state[p] = "RUNNABLE" => Findable(p)

\* A process that kfork() has allocated and not yet started belongs to one
\* forking process, and no stale queue entry of its slot makes it run early.
ChildNotStarted ==
  \A p \in Proc : child[p] # NoProc =>
    /\ state[child[p]] = "USED"
    /\ \A q \in Proc : child[q] = child[p] => q = p

\* The boost of SC_MLFQ() happens at every multiple of BOOST ticks, also when hart 0
\* is running a process as the tick after it arrives.
BoostNotMissed == [][tmod = 0 /\ tmod' # 0 /\ cpu[0].at = "run" => boosted]_vars
=============================================================================
