----------------------------- MODULE MlfqProofs -----------------------------
(***************************************************************************)
(* Proofs about Mlfq for every number of CPUs, processes, levels and queue *)
(* entries.                                                                *)
(***************************************************************************)
EXTENDS Mlfq, TLAPS

\* The inductive invariant: the types, one CPU for each running process, and
\* children that stay USED until their parent starts them.
IInv == TypeOK /\ OneCpu /\ ChildNotStarted

\* The places of a CPU are told apart by their first field.
LEMMA PlaceFacts ==
  /\ Sched \in Places
  /\ \A p \in Proc : Run(p) \in Places
  /\ \A i \in Level : At("clear", i, NoProc) \in Places /\ At("scan", i, NoProc) \in Places
  /\ \A i \in Proc : At("visit", i, NoProc) \in Places
  /\ \A i \in Level, p \in Proc : At("popped", i, p) \in Places
  BY DEF Places

\* Only Run(p) is a place where a CPU runs a process, and it names the process.
LEMMA RunFacts ==
  /\ \A p, q : Run(p) = Run(q) => p = q
  /\ \A p : Run(p) # Sched
  /\ \A p, q, i : Run(p) # At("clear", i, q) /\ Run(p) # At("scan", i, q)
                  /\ Run(p) # At("visit", i, q) /\ Run(p) # At("popped", i, q)
  BY DEF Run, Sched, At

\* The levels and slots that SC_MLFQ() starts its loops with exist.
LEMMA Zeros == 0 \in Level /\ 1 \in Proc /\ NoProc \notin Proc
  BY MlfqAssumption DEF Level, Proc, NoProc

\* The next place of the scan is a place.
LEMMA NextLevelPlace == \A i \in Level : NextLevel(i) \in Places /\ \A p : NextLevel(i) # Run(p)
  BY PlaceFacts, RunFacts DEF NextLevel

\* The next place of the boost is a place.
LEMMA NextBoostPlace ==
  /\ \A i \in Level : LET x == IF i + 1 \in Level THEN At("clear", i + 1, NoProc)
                                                  ELSE At("visit", 1, NoProc)
                      IN  x \in Places /\ \A p : x # Run(p)
  /\ \A i \in Proc : LET x == IF i + 1 \in Proc THEN At("visit", i + 1, NoProc)
                                                ELSE At("scan", 0, NoProc)
                     IN  x \in Places /\ \A p : x # Run(p)
  BY PlaceFacts, RunFacts, Zeros

\* push_proc() keeps a queue a sequence of processes of at most NPROC entries.
LEMMA PushType ==
  ASSUME NEW q \in Seq(Proc), Len(q) <= NPROC, NEW p \in Proc
  PROVE  push_proc(q, p) \in Seq(Proc) /\ Len(push_proc(q, p)) <= NPROC
  BY MlfqAssumption DEF push_proc

\* One queue changes, and its new contents fit.
LEMMA QueueType ==
  ASSUME TypeOK, NEW l \in Level, NEW q \in Seq(Proc), Len(q) <= NPROC,
         pqueue' = [pqueue EXCEPT ![l] = q]
  PROVE  pqueue' \in [Level -> Seq(Proc)] /\ \A k \in Level : Len(pqueue'[k]) <= NPROC
  BY DEF TypeOK

-----------------------------------------------------------------------------
(* How the steps of a CPU keep OneCpu. *)

NotRunning(c) == \A p \in Proc : ~Running(c, p)

\* No process starts or stops running.
LEMMA SameRunners ==
  ASSUME OneCpu, \A p \in Proc : state'[p] = "RUNNING" <=> state[p] = "RUNNING",
         \A p \in Proc, c \in CPU : Running(c, p)' <=> Running(c, p)
  PROVE  OneCpu'
  BY DEF OneCpu

\* A CPU moves inside the scheduler, and no state changes to or from RUNNING.
LEMMA MoveInScheduler ==
  ASSUME TypeOK, OneCpu, NEW c \in CPU, NotRunning(c), NEW x, \A p \in Proc : x # Run(p),
         cpu' = [cpu EXCEPT ![c] = x],
         \A p \in Proc : state'[p] = "RUNNING" <=> state[p] = "RUNNING"
  PROVE  OneCpu'
<1>1. \A p \in Proc, d \in CPU : Running(d, p)' <=> Running(d, p)
  BY DEF Running, NotRunning, TypeOK
<1> QED
  BY <1>1, SameRunners

\* A process gives up its CPU.
LEMMA StopRunning ==
  ASSUME TypeOK, OneCpu, NEW c \in CPU, NEW p \in Proc, Running(c, p),
         cpu' = [cpu EXCEPT ![c] = Sched],
         NEW s, s # "RUNNING", state' = [state EXCEPT ![p] = s]
  PROVE  OneCpu'
<1>1. \A q \in Proc, d \in CPU : Running(d, q)' <=> d # c /\ Running(d, q)
  BY RunFacts DEF Running, TypeOK
<1>2. \A q \in Proc : state'[q] = "RUNNING" <=> q # p /\ state[q] = "RUNNING"
  BY DEF TypeOK
<1>3. \A q \in Proc : Running(c, q) => q = p
  BY RunFacts, Zenon DEF Running
<1>4. \A d \in CPU : Running(d, p) => d = c
  BY DEF OneCpu
<1>5. \A q \in Proc : q # p /\ state[q] = "RUNNING" <=> \E d \in CPU : d # c /\ Running(d, q)
  BY <1>3, <1>4 DEF OneCpu
<1>6. \A q \in Proc : state'[q] = "RUNNING" <=> \E d \in CPU : Running(d, q)'
  BY <1>1, <1>2, <1>5
<1>7. \A q \in Proc : \A d, e \in CPU : Running(d, q)' /\ Running(e, q)' => d = e
  BY <1>1 DEF OneCpu
<1> QED
  BY <1>6, <1>7 DEF OneCpu

\* A CPU dispatches a RUNNABLE process.
LEMMA StartRunning ==
  ASSUME TypeOK, OneCpu, NEW c \in CPU, NotRunning(c), NEW p \in Proc, state[p] = "RUNNABLE",
         cpu' = [cpu EXCEPT ![c] = Run(p)], state' = [state EXCEPT ![p] = "RUNNING"]
  PROVE  OneCpu'
<1>1. \A q \in Proc, d \in CPU : Running(d, q)' <=> Running(d, q) \/ (d = c /\ q = p)
  BY RunFacts DEF Running, NotRunning, TypeOK
<1>2. \A q \in Proc : state'[q] = "RUNNING" <=> q = p \/ state[q] = "RUNNING"
  BY DEF TypeOK
<1>3. \A d \in CPU : ~Running(d, p)
  BY DEF OneCpu
<1>4. \A q \in Proc : state'[q] = "RUNNING" <=> \E d \in CPU : Running(d, q)'
  BY <1>1, <1>2 DEF OneCpu
<1>5. \A q \in Proc : \A d, e \in CPU : Running(d, q)' /\ Running(e, q)' => d = e
  BY <1>1, <1>3 DEF OneCpu
<1> QED
  BY <1>4, <1>5 DEF OneCpu

\* A running process has the state RUNNING.
LEMMA RunningState ==
  ASSUME OneCpu, NEW c \in CPU, NEW p \in Proc, Running(c, p)
  PROVE  state[p] = "RUNNING"
  BY DEF OneCpu

\* No step touches a USED process but that of its parent.
LEMMA KeepChildren ==
  ASSUME TypeOK, ChildNotStarted, child' = child,
         \A p \in Proc : state[p] = "USED" => state'[p] = "USED"
  PROVE  ChildNotStarted'
  BY DEF ChildNotStarted, TypeOK

\* MakeRunnable(p, l) keeps the types of the state and the queues.
LEMMA MakeRunnableType ==
  ASSUME TypeOK, NEW p \in Proc, NEW l \in Level, MakeRunnable(p, l)
  PROVE  /\ state' \in [Proc -> procstate] /\ state' = [state EXCEPT ![p] = "RUNNABLE"]
         /\ pqueue' \in [Level -> Seq(Proc)] /\ \A k \in Level : Len(pqueue'[k]) <= NPROC
<1>1. state' = [state EXCEPT ![p] = "RUNNABLE"] /\ pqueue' = [pqueue EXCEPT ![l] = push_proc(@, p)]
  BY DEF MakeRunnable
<1>2. push_proc(pqueue[l], p) \in Seq(Proc) /\ Len(push_proc(pqueue[l], p)) <= NPROC
  BY PushType DEF TypeOK
<1> QED
  BY <1>1, <1>2 DEF TypeOK, procstate

-----------------------------------------------------------------------------
(* One lemma for each kind of step. *)

\* The steps of SC_MLFQ() before it takes a process.
LEMMA SchedulerLoop ==
  ASSUME IInv, NEW c \in CPU, LoopTop(c) \/ BoostClear(c) \/ BoostVisit(c) \/ Scan(c)
  PROVE  IInv'
<1> USE DEF IInv
<1>1. CASE LoopTop(c)
  <2>1. PICK x \in Places : cpu' = [cpu EXCEPT ![c] = x] /\ \A p : x # Run(p)
    BY <1>1, PlaceFacts, RunFacts, Zeros DEF LoopTop, Goto
  <2>2. NotRunning(c)
    BY <1>1, RunFacts DEF LoopTop, NotRunning, Running
  <2>3. boosted' \in BOOLEAN
    BY <1>1, Zenon DEF LoopTop, TypeOK
  <2>4. UNCHANGED <<state, qlevel, pticks, dsys, killed, child, pqueue, tmod>>
    BY <1>1 DEF LoopTop, sliceVars
  <2>5. TypeOK'
    BY <2>1, <2>3, <2>4 DEF TypeOK
  <2> QED
    BY <2>1, <2>2, <2>4, <2>5, MoveInScheduler, KeepChildren, Zenon
<1>2. CASE BoostClear(c)
  <2>1. PICK i \in Level :
          /\ cpu[c] = At("clear", i, NoProc)
          /\ pqueue' = [pqueue EXCEPT ![i] = << >>]
          /\ Goto(c, IF i + 1 \in Level THEN At("clear", i + 1, NoProc)
                                        ELSE At("visit", 1, NoProc))
    BY <1>2, Zenon DEF BoostClear
  <2>2. PICK x \in Places : cpu' = [cpu EXCEPT ![c] = x] /\ \A p : x # Run(p)
    BY <2>1, NextBoostPlace, Zenon DEF Goto
  <2>3. NotRunning(c)
    BY <2>1, RunFacts DEF NotRunning, Running
  <2>4. UNCHANGED <<state, qlevel, pticks, dsys, killed, child, tmod, boosted>>
    BY <1>2 DEF BoostClear, sliceVars, tickVars
  <2>5. pqueue' \in [Level -> Seq(Proc)] /\ \A l \in Level : Len(pqueue'[l]) <= NPROC
    BY <2>1, MlfqAssumption DEF TypeOK
  <2>6. TypeOK'
    BY <2>2, <2>4, <2>5, Zenon DEF TypeOK
  <2> QED
    BY <2>2, <2>3, <2>4, <2>6, MoveInScheduler, KeepChildren, Zenon
<1>3. CASE BoostVisit(c)
  <2>1. PICK p \in Proc :
          /\ cpu[c] = At("visit", p, NoProc)
          /\ IF state[p] \in BoostStates
             THEN /\ qlevel' = [qlevel EXCEPT ![p] = 0]
                  /\ pticks' = [pticks EXCEPT ![p] = 0]
                  /\ dsys' = [dsys EXCEPT ![p] = 0]
                  /\ pqueue' = [pqueue EXCEPT ![0] = push_proc(@, p)]
             ELSE UNCHANGED <<sliceVars, pqueue>>
          /\ Goto(c, IF p + 1 \in Proc THEN At("visit", p + 1, NoProc)
                                       ELSE At("scan", 0, NoProc))
    BY <1>3 DEF BoostVisit
  <2>2. PICK x \in Places : cpu' = [cpu EXCEPT ![c] = x] /\ \A q : x # Run(q)
    BY <2>1, NextBoostPlace, Zenon DEF Goto
  <2>3. NotRunning(c)
    BY <2>1, RunFacts DEF NotRunning, Running
  <2>4. UNCHANGED <<state, killed, child, tmod, boosted>>
    BY <1>3 DEF BoostVisit, tickVars
  <2>5. push_proc(pqueue[0], p) \in Seq(Proc) /\ Len(push_proc(pqueue[0], p)) <= NPROC
    BY PushType, Zeros DEF TypeOK
  <2>6. /\ state' \in [Proc -> procstate] /\ child' \in [Proc -> Proc \cup {NoProc}]
        /\ killed' \subseteq Proc
        /\ cpu' \in [CPU -> Places] /\ tmod' \in 0 .. BOOST - 1 /\ boosted' \in BOOLEAN
    <3>1. cpu' \in [CPU -> Places]
      BY <2>2 DEF TypeOK
    <3> QED
      BY <2>4, <3>1, Zenon DEF TypeOK
  <2>8. TypeOK'
    <3>1. CASE state[p] \in BoostStates
      <4>1. /\ qlevel' = [qlevel EXCEPT ![p] = 0] /\ pticks' = [pticks EXCEPT ![p] = 0]
            /\ dsys' = [dsys EXCEPT ![p] = 0]
            /\ pqueue' = [pqueue EXCEPT ![0] = push_proc(pqueue[0], p)]
        BY <2>1, <3>1, Zenon
      <4>2. qlevel' \in [Proc -> Level] /\ pticks' \in [Proc -> Nat] /\ dsys' \in [Proc -> Nat]
        BY <4>1, Zeros DEF TypeOK
      <4>3. pqueue' \in [Level -> Seq(Proc)] /\ \A l \in Level : Len(pqueue'[l]) <= NPROC
        BY <4>1, <2>5, Zeros, QueueType, Zenon
      <4> QED
        BY <2>6, <4>2, <4>3, Zenon DEF TypeOK
    <3>2. CASE state[p] \notin BoostStates
      <4>1. UNCHANGED <<qlevel, pticks, dsys, pqueue>>
        BY <2>1, <3>2 DEF sliceVars
      <4> QED
        BY <2>6, <4>1 DEF TypeOK
    <3> QED
      BY <3>1, <3>2
  <2> QED
    BY <2>2, <2>3, <2>4, <2>8, MoveInScheduler, KeepChildren, Zenon
<1>4. CASE Scan(c)
  <2>1. PICK i \in Level :
          /\ cpu[c] = At("scan", i, NoProc)
          /\ IF pqueue[i] # << >>
             THEN /\ pqueue' = [pqueue EXCEPT ![i] = Tail(@)]
                  /\ Goto(c, At("popped", i, Head(pqueue[i])))
             ELSE UNCHANGED pqueue /\ Goto(c, NextLevel(i))
    BY <1>4 DEF Scan
  <2>2. pqueue[i] \in Seq(Proc) /\ Len(pqueue[i]) <= NPROC
    BY DEF TypeOK
  <2>3. pqueue[i] # << >> => /\ Head(pqueue[i]) \in Proc /\ Tail(pqueue[i]) \in Seq(Proc)
                             /\ Len(Tail(pqueue[i])) <= NPROC
    BY <2>2, MlfqAssumption
  <2>4. PICK x \in Places : cpu' = [cpu EXCEPT ![c] = x] /\ \A q : x # Run(q)
    <3>1. CASE pqueue[i] # << >>
      <4>1. At("popped", i, Head(pqueue[i])) \in Places
        BY <3>1, <2>3, PlaceFacts
      <4>2. \A q : At("popped", i, Head(pqueue[i])) # Run(q)
        BY RunFacts
      <4> QED
        BY <3>1, <2>1, <4>1, <4>2, Zenon DEF Goto
    <3>2. CASE pqueue[i] = << >>
      BY <3>2, <2>1, NextLevelPlace, Zenon DEF Goto
    <3> QED
      BY <3>1, <3>2
  <2>5. NotRunning(c)
    BY <2>1, RunFacts, Zenon DEF NotRunning, Running
  <2>6. UNCHANGED <<state, qlevel, pticks, dsys, killed, child, tmod, boosted>>
    BY <1>4 DEF Scan, sliceVars, tickVars
  <2>7. pqueue' \in [Level -> Seq(Proc)] /\ \A l \in Level : Len(pqueue'[l]) <= NPROC
    BY <2>1, <2>3, Zenon DEF TypeOK
  <2>8. TypeOK'
    BY <2>4, <2>6, <2>7, Zenon DEF TypeOK
  <2> QED
    BY <2>4, <2>5, <2>6, <2>8, MoveInScheduler, KeepChildren, Zenon
<1> QED
  BY <1>1, <1>2, <1>3, <1>4

\* The scheduler takes a process or drops its entry.
LEMMA SchedulerDispatch ==
  ASSUME IInv, NEW c \in CPU, Dispatch(c)
  PROVE  IInv'
<1> USE DEF IInv
<1>1. PICK i \in Level, p \in Proc :
        /\ cpu[c] = At("popped", i, p)
        /\ IF state[p] = "RUNNABLE"
           THEN state' = [state EXCEPT ![p] = "RUNNING"] /\ Goto(c, Run(p))
           ELSE UNCHANGED state /\ Goto(c, NextLevel(i))
  BY DEF Dispatch
<1>2. NotRunning(c)
  BY <1>1, RunFacts DEF NotRunning, Running
<1>3. UNCHANGED <<qlevel, pticks, dsys, killed, child, pqueue, tmod, boosted>>
  BY DEF Dispatch, sliceVars, tickVars
<1>4. CASE state[p] = "RUNNABLE"
  <2>1. state' = [state EXCEPT ![p] = "RUNNING"] /\ cpu' = [cpu EXCEPT ![c] = Run(p)]
    BY <1>1, <1>4 DEF Goto
  <2>2. TypeOK'
    BY <2>1, <1>3, PlaceFacts, Zenon DEF TypeOK, procstate
  <2>3. OneCpu'
    BY <2>1, <1>2, <1>4, StartRunning, Zenon
  <2>4. \A q \in Proc : state[q] = "USED" => state'[q] = "USED"
    BY <2>1, <1>4 DEF TypeOK
  <2> QED
    BY <2>2, <2>3, <2>4, <1>3, KeepChildren
<1>5. CASE state[p] # "RUNNABLE"
  <2>1. state' = state /\ cpu' = [cpu EXCEPT ![c] = NextLevel(i)]
    BY <1>1, <1>5 DEF Goto
  <2>2. TypeOK'
    BY <2>1, <1>3, NextLevelPlace DEF TypeOK
  <2>3. OneCpu'
    BY <2>1, <1>2, NextLevelPlace, MoveInScheduler, Zenon
  <2> QED
    BY <2>1, <2>2, <2>3, <1>3, KeepChildren
<1> QED
  BY <1>4, <1>5

\* A process that stops running leaves its CPU in the scheduler.
LEMMA LeaveCpu ==
  ASSUME IInv, NEW c \in CPU, NEW p \in Proc, Running(c, p), Goto(c, Sched), child' = child, killed' = killed,
         NEW s, s # "RUNNING", state' = [state EXCEPT ![p] = s]
  PROVE  cpu' \in [CPU -> Places] /\ OneCpu' /\ ChildNotStarted'
<1>1. cpu' = [cpu EXCEPT ![c] = Sched]
  BY DEF Goto
<1>2. cpu' \in [CPU -> Places]
  BY <1>1, PlaceFacts DEF IInv, TypeOK
<1>3. OneCpu'
  BY <1>1, StopRunning, Zenon DEF IInv
<1>4. state[p] = "RUNNING"
  BY RunningState DEF IInv
<1>5. \A q \in Proc : state[q] = "USED" => state'[q] = "USED"
  BY <1>4 DEF IInv, TypeOK
<1> QED
  BY <1>2, <1>3, <1>5, KeepChildren DEF IInv

\* The tick counters keep their types.
LEMMA ClockType ==
  ASSUME TypeOK, NEW c \in CPU, ClockIntr(c)
  PROVE  tmod' \in 0 .. BOOST - 1 /\ boosted' \in BOOLEAN
<1>1. CASE c = 0
  <2>1. tmod' = (tmod + 1) % BOOST
    BY <1>1 DEF ClockIntr
  <2>2. boosted' \in BOOLEAN
    BY <1>1, Zenon DEF ClockIntr
  <2>3. tmod \in Nat /\ BOOST \in Nat \ {0}
    BY MlfqAssumption DEF TypeOK
  <2> QED
    BY <2>1, <2>2, <2>3
<1>2. CASE c # 0
  <2>1. tmod' = tmod /\ boosted' = boosted
    BY <1>2 DEF ClockIntr, tickVars
  <2> QED
    BY <2>1, Zenon DEF TypeOK
<1> QED
  BY <1>1, <1>2

\* The timer interrupts a running process.
LEMMA TimerStep ==
  ASSUME IInv, NEW c \in CPU, TimerRun(c)
  PROVE  IInv'
<1> USE DEF IInv
<1>1. PICK p \in Proc : Running(c, p) /\ ClockIntr(c) /\ event_tick(c, p) /\ child' = child /\ killed' = killed
  BY DEF TimerRun
<1>2. tmod' \in 0 .. BOOST - 1 /\ boosted' \in BOOLEAN
  BY <1>1, ClockType
<1>3. EndLevel(p) \in Level /\ qlevel[p] \in Level
  <2>1. qlevel[p] \in Level
    BY Zenon DEF TypeOK
  <2> QED BY <2>1, MlfqAssumption, SMTT(30) DEF EndLevel, Level
<1>4. CASE SliceOver(p)
  <2>1. /\ pticks' = [pticks EXCEPT ![p] = 0] /\ dsys' = [dsys EXCEPT ![p] = 0]
        /\ qlevel' = [qlevel EXCEPT ![p] = EndLevel(p)]
        /\ MakeRunnable(p, EndLevel(p)) /\ Goto(c, Sched)
    BY <1>1, <1>4, Zenon DEF event_tick
  <2>2. /\ state' \in [Proc -> procstate] /\ state' = [state EXCEPT ![p] = "RUNNABLE"]
        /\ pqueue' \in [Level -> Seq(Proc)] /\ \A k \in Level : Len(pqueue'[k]) <= NPROC
    BY <2>1, <1>3, MakeRunnableType
  <2>3. cpu' \in [CPU -> Places] /\ OneCpu' /\ ChildNotStarted'
    BY <2>1, <2>2, <1>1, LeaveCpu, Zenon
  <2>4. pticks' \in [Proc -> Nat] /\ dsys' \in [Proc -> Nat] /\ qlevel' \in [Proc -> Level]
    BY <2>1, <1>3 DEF TypeOK
  <2>5. child' \in [Proc -> Proc \cup {NoProc}] /\ killed' \subseteq Proc
    BY <1>1 DEF TypeOK
  <2>6. TypeOK'
    BY <2>2, <2>3, <2>4, <2>5, <1>2, Zenon DEF TypeOK
  <2> QED
    BY <2>3, <2>6
<1>5. CASE ~SliceOver(p)
  <2>1. /\ pticks' = [pticks EXCEPT ![p] = @ + 1] /\ UNCHANGED <<qlevel, dsys>>
        /\ IF HigherQueued(p)
           THEN MakeRunnable(p, qlevel[p]) /\ Goto(c, Sched)
           ELSE UNCHANGED <<state, pqueue, cpu>>
    BY <1>1, <1>5, Zenon DEF event_tick
  <2>2. pticks' \in [Proc -> Nat] /\ dsys' \in [Proc -> Nat] /\ qlevel' \in [Proc -> Level]
    BY <2>1 DEF TypeOK
  <2>3. child' \in [Proc -> Proc \cup {NoProc}] /\ killed' \subseteq Proc
    BY <1>1 DEF TypeOK
  <2>4. CASE HigherQueued(p)
    <3>1. MakeRunnable(p, qlevel[p]) /\ Goto(c, Sched)
      BY <2>1, <2>4, Zenon
    <3>2. /\ state' \in [Proc -> procstate] /\ state' = [state EXCEPT ![p] = "RUNNABLE"]
          /\ pqueue' \in [Level -> Seq(Proc)] /\ \A k \in Level : Len(pqueue'[k]) <= NPROC
      BY <3>1, <1>3, MakeRunnableType
    <3>3. cpu' \in [CPU -> Places] /\ OneCpu' /\ ChildNotStarted'
      BY <3>1, <3>2, <1>1, LeaveCpu, Zenon
    <3>4. TypeOK'
      BY <3>2, <3>3, <2>2, <2>3, <1>2, Zenon DEF TypeOK
    <3> QED
      BY <3>3, <3>4
  <2>5. CASE ~HigherQueued(p)
    <3>1. state' = state /\ pqueue' = pqueue /\ cpu' = cpu
      BY <2>1, <2>5
    <3>2. TypeOK'
      BY <3>1, <2>2, <2>3, <1>2, Zenon DEF TypeOK
    <3>3. OneCpu'
      BY <3>1, SameRunners DEF Running
    <3> QED
      BY <3>1, <3>2, <3>3, <1>1, KeepChildren
  <2> QED
    BY <2>4, <2>5
<1> QED
  BY <1>4, <1>5

\* A process that is not running changes its state, and no CPU moves.
LEMMA OtherState ==
  ASSUME IInv, NEW p \in Proc, NEW s \in procstate, state[p] # "RUNNING", s # "RUNNING",
         state' = [state EXCEPT ![p] = s], cpu' = cpu
  PROVE  OneCpu' /\ state' \in [Proc -> procstate]
<1>1. \A q \in Proc : state'[q] = "RUNNING" <=> state[q] = "RUNNING"
  BY DEF IInv, TypeOK
<1>2. OneCpu'
  BY <1>1, SameRunners DEF IInv, Running
<1> QED
  BY <1>2 DEF IInv, TypeOK

\* sleep() and kexit(): the running process gives up its CPU.
LEMMA LeaveStep ==
  ASSUME IInv, NEW c \in CPU, Sleep(c) \/ Exit(c)
  PROVE  IInv'
<1> USE DEF IInv
<1>1. PICK p \in Proc, s \in {"SLEEPING", "ZOMBIE"} :
        Running(c, p) /\ state' = [state EXCEPT ![p] = s] /\ Goto(c, Sched)
  BY DEF Sleep, Exit
<1>2. UNCHANGED <<qlevel, pticks, dsys, killed, child, pqueue, tmod, boosted>>
  BY DEF Sleep, Exit, sliceVars, tickVars
<1>3. cpu' \in [CPU -> Places] /\ OneCpu' /\ ChildNotStarted'
  BY <1>1, <1>2, LeaveCpu, Zenon
<1>4. state' \in [Proc -> procstate]
  BY <1>1 DEF TypeOK, procstate
<1>5. TypeOK'
  BY <1>2, <1>3, <1>4 DEF TypeOK
<1> QED
  BY <1>3, <1>5

\* The steps that change neither a state nor the place of a CPU.
LEMMA CountStep ==
  ASSUME IInv, TimerIdle \/ \E c \in CPU : Syscall(c)
  PROVE  IInv'
<1> USE DEF IInv
<1>1. UNCHANGED <<state, qlevel, pticks, killed, child, pqueue, cpu>>
  BY DEF TimerIdle, Syscall, sliceVars
<1>2. OneCpu' /\ ChildNotStarted'
  BY <1>1, SameRunners, KeepChildren DEF Running
<1>3. CASE TimerIdle
  <2>1. tmod' \in 0 .. BOOST - 1 /\ boosted' \in BOOLEAN
    BY <1>3, ClockType, MlfqAssumption DEF TimerIdle
  <2>2. dsys' = dsys
    BY <1>3 DEF TimerIdle, sliceVars
  <2>3. TypeOK'
    BY <2>1, <2>2, <1>1, Zenon DEF TypeOK
  <2> QED
    BY <2>3, <1>2
<1>4. CASE \E c \in CPU : Syscall(c)
  <2>1. PICK p \in Proc : dsys' = [dsys EXCEPT ![p] = @ + 1]
    BY <1>4, Zenon DEF Syscall
  <2>2. dsys' \in [Proc -> Nat]
    BY <2>1 DEF TypeOK
  <2>3. tmod' = tmod /\ boosted' = boosted
    BY <1>4 DEF Syscall, tickVars
  <2>4. TypeOK'
    BY <2>2, <2>3, <1>1, Zenon DEF TypeOK
  <2> QED
    BY <2>4, <1>2
<1> QED
  BY <1>3, <1>4

\* wakeup() and kwait() change a process that is not running.
LEMMA OtherStep ==
  ASSUME IInv, (\E p \in Proc : Wakeup(p)) \/ (\E c \in CPU : Reap(c))
  PROVE  IInv'
<1> USE DEF IInv
<1>1. UNCHANGED <<qlevel, pticks, dsys, child, cpu, tmod, boosted>>
  BY DEF Wakeup, Reap, sliceVars, tickVars
<1>2. PICK p \in Proc, s \in {"RUNNABLE", "UNUSED"} :
        /\ state[p] \in {"SLEEPING", "ZOMBIE"}
        /\ state' = [state EXCEPT ![p] = s]
  BY DEF Wakeup, Reap, MakeRunnable
<1>3. OneCpu' /\ state' \in [Proc -> procstate]
  BY <1>1, <1>2, OtherState, Zenon DEF procstate
<1>4. \A q \in Proc : state[q] = "USED" => state'[q] = "USED"
  BY <1>2 DEF TypeOK
<1>5. ChildNotStarted'
  BY <1>1, <1>4, KeepChildren
<1>6. pqueue' \in [Level -> Seq(Proc)] /\ \A k \in Level : Len(pqueue'[k]) <= NPROC
  <2>1. CASE \E q \in Proc : Wakeup(q)
    <3>1. PICK q \in Proc : MakeRunnable(q, qlevel[q])
      BY <2>1 DEF Wakeup
    <3>2. qlevel[q] \in Level
      BY DEF TypeOK
    <3> QED
      BY <3>1, <3>2, MakeRunnableType
  <2>2. CASE ~\E q \in Proc : Wakeup(q)
    <3>1. pqueue' = pqueue
      BY <2>2 DEF Reap
    <3> QED
      BY <3>1 DEF TypeOK
  <2> QED
    BY <2>1, <2>2
<1>7. killed' \subseteq Proc
  BY DEF Wakeup, Reap, TypeOK
<1>8. TypeOK'
  BY <1>1, <1>3, <1>6, <1>7, Zenon DEF TypeOK
<1> QED
  BY <1>3, <1>5, <1>8

\* kkill() marks a process, and changes its state only if it sleeps.
LEMMA KillStep ==
  ASSUME IInv, NEW p \in Proc, Kill(p)
  PROVE  IInv'
<1> USE DEF IInv
<1>1. UNCHANGED <<qlevel, pticks, dsys, child, pqueue, cpu, tmod, boosted>>
  BY DEF Kill, sliceVars, tickVars
<1>2. killed' \subseteq Proc
  BY DEF Kill, TypeOK
<1>3. OneCpu' /\ state' \in [Proc -> procstate]
  <2>1. CASE state[p] = "SLEEPING"
    <3>1. state' = [state EXCEPT ![p] = "RUNNABLE"]
      BY <2>1 DEF Kill
    <3> QED
      BY <1>1, <2>1, <3>1, OtherState, Zenon DEF procstate
  <2>2. CASE state[p] # "SLEEPING"
    <3>1. state' = state
      BY <2>2 DEF Kill
    <3>2. OneCpu'
      BY <1>1, <3>1, SameRunners DEF Running
    <3> QED
      BY <3>1, <3>2 DEF TypeOK
  <2> QED
    BY <2>1, <2>2
<1>4. \A q \in Proc : state[q] = "USED" => state'[q] = "USED"
  BY DEF Kill, TypeOK
<1>5. ChildNotStarted'
  BY <1>1, <1>4, KeepChildren
<1>6. TypeOK'
  BY <1>1, <1>2, <1>3 DEF TypeOK
<1> QED
  BY <1>3, <1>5, <1>6

\* kfork() takes an unused slot, which no parent can have taken before.
LEMMA ForkAllocStep ==
  ASSUME IInv, NEW c \in CPU, ForkAlloc(c)
  PROVE  IInv'
<1> USE DEF IInv
<1>1. PICK p \in Proc, np \in Proc :
        /\ child[p] = NoProc /\ state[np] = "UNUSED"
        /\ state' = [state EXCEPT ![np] = "USED"]
        /\ qlevel' = [qlevel EXCEPT ![np] = 0]
        /\ pticks' = [pticks EXCEPT ![np] = 0]
        /\ dsys' = [dsys EXCEPT ![np] = 0]
        /\ child' = [child EXCEPT ![p] = np]
  BY Zenon DEF ForkAlloc
<1>2. UNCHANGED <<killed, pqueue, cpu, tmod, boosted>>
  BY DEF ForkAlloc, tickVars
<1>3. OneCpu' /\ state' \in [Proc -> procstate]
  BY <1>1, <1>2, OtherState, Zenon DEF procstate
<1>4. /\ qlevel' \in [Proc -> Level] /\ pticks' \in [Proc -> Nat] /\ dsys' \in [Proc -> Nat]
      /\ child' \in [Proc -> Proc \cup {NoProc}]
  BY <1>1, Zeros, Zenon DEF TypeOK
<1>5. TypeOK'
  BY <1>2, <1>3, <1>4, Zenon DEF TypeOK
<1>6. \A q \in Proc : child[q] # np
  BY <1>1, Zeros, Zenon DEF ChildNotStarted, TypeOK
<1>7. ChildNotStarted'
  BY <1>1, <1>6, Zenon DEF ChildNotStarted, TypeOK
<1> QED
  BY <1>3, <1>5, <1>7

\* The end of kfork(): the child was USED, so no CPU runs it.
LEMMA ForkStartStep ==
  ASSUME IInv, NEW c \in CPU, ForkStart(c)
  PROVE  IInv'
<1> USE DEF IInv
<1>1. PICK p \in Proc :
        /\ child[p] # NoProc /\ MakeRunnable(child[p], qlevel[child[p]])
        /\ child' = [child EXCEPT ![p] = NoProc]
  BY Zenon DEF ForkStart
<1>2. child[p] \in Proc /\ state[child[p]] = "USED" /\ qlevel[child[p]] \in Level
  BY <1>1 DEF ChildNotStarted, TypeOK
<1>3. UNCHANGED <<qlevel, pticks, dsys, killed, cpu, tmod, boosted>>
  BY DEF ForkStart, sliceVars, tickVars
<1>4. /\ state' \in [Proc -> procstate] /\ state' = [state EXCEPT ![child[p]] = "RUNNABLE"]
      /\ pqueue' \in [Level -> Seq(Proc)] /\ \A k \in Level : Len(pqueue'[k]) <= NPROC
  BY <1>1, <1>2, MakeRunnableType
<1>5. OneCpu'
  BY <1>2, <1>3, <1>4, OtherState, Zenon DEF procstate
<1>6. child' \in [Proc -> Proc \cup {NoProc}]
  BY <1>1 DEF TypeOK
<1>7. TypeOK'
  BY <1>3, <1>4, <1>6, Zenon DEF TypeOK
<1>8. ChildNotStarted'
  BY <1>1, <1>2, <1>4 DEF ChildNotStarted, TypeOK
<1> QED
  BY <1>5, <1>7, <1>8

-----------------------------------------------------------------------------
\* The initial state has the invariant: no process runs.
LEMMA InitIInv == Init => IInv
<1> SUFFICES ASSUME Init PROVE IInv
  OBVIOUS
<1>1. TypeOK
  BY MlfqAssumption, Zeros, PlaceFacts DEF Init, TypeOK, procstate
<1>2. OneCpu
  BY RunFacts DEF Init, OneCpu, Running
<1>3. ChildNotStarted
  BY DEF Init, ChildNotStarted
<1> QED
  BY <1>1, <1>2, <1>3 DEF IInv

\* Every step keeps the invariant.
LEMMA NextIInv == IInv /\ [Next]_vars => IInv'
<1> SUFFICES ASSUME IInv, [Next]_vars PROVE IInv'
  OBVIOUS
<1>1. ASSUME NEW c \in CPU, SchedStep(c) PROVE IInv'
  BY <1>1, SchedulerLoop, SchedulerDispatch DEF SchedStep
<1>2. ASSUME NEW c \in CPU, TimerRun(c) PROVE IInv'
  BY <1>2, TimerStep
<1>3. ASSUME NEW c \in CPU, ProcStep(c) PROVE IInv'
  BY <1>3, CountStep, ForkAllocStep, ForkStartStep, LeaveStep, OtherStep DEF ProcStep
<1>4. ASSUME TimerIdle PROVE IInv'
  BY <1>4, CountStep
<1>5. ASSUME NEW p \in Proc, Wakeup(p) \/ Kill(p) PROVE IInv'
  BY <1>5, OtherStep, KillStep
<1>6. CASE UNCHANGED vars
  BY <1>6 DEF vars, IInv, TypeOK, OneCpu, Running, ChildNotStarted
<1> QED
  BY <1>1, <1>2, <1>3, <1>4, <1>5, <1>6 DEF Next

-----------------------------------------------------------------------------
(* Theorems. *)

\* The invariant holds in every reachable state of the scheduler.
THEOREM Invariant == Spec => []IInv
  BY InitIInv, NextIInv, PTL DEF Spec

\* The fields of struct proc, struct queue and struct cpu keep their types, and
\* push_proc() never writes past qproc[NPROC].
THEOREM TypeCorrect == Spec => []TypeOK
<1>1. IInv => TypeOK
  BY DEF IInv
<1> QED
  BY <1>1, Invariant, PTL

\* Whatever entries the queues hold, SC_MLFQ() never runs a process on two CPUs.
THEOREM MutualExclusion == Spec => []OneCpu
<1>1. IInv => OneCpu
  BY DEF IInv
<1> QED
  BY <1>1, Invariant, PTL

\* A process that kfork() is still setting up is not run, although an entry for
\* the slot may be left in a queue from the process that had it before.
THEOREM ChildWaits == Spec => []ChildNotStarted
<1>1. IInv => ChildNotStarted
  BY DEF IInv
<1> QED
  BY <1>1, Invariant, PTL

=============================================================================
