--------------------------- MODULE ProcLifeProofs ---------------------------
(***************************************************************************)
(* What is proved of ProcLife, for every size of the process table and     *)
(* every set of pids that kill() is called with.                           *)
(***************************************************************************)
EXTENDS ProcLife, TLAPS

\* The places at which a process holds wait_lock.
WaitPlaces == {"reparent", "wakeup", "zombie", "scan", "sleep", "getppid"}
\* The places at which the children are gone.
EndPlaces == {"wakeup", "zombie", "gone"}
ForkPlaces == {"fork", "start"}

\* wait_lock is held by the process that is between its acquire and its release.
LockInv == \A p \in Proc : wait_lock = p <=> pc[p].at \in WaitPlaces

\* The state of a slot says where its process is, and whose p->lock may be held.
PlaceInv ==
  \A p \in Proc :
    /\ state[p] = "UNUSED" => pc[p].at \in {"user", "gone"}
    /\ state[p] = "USED" => pc[p].at = "user"
    /\ state[p] = "SLEEPING" => pc[p].at = "asleep"
    /\ state[p] = "ZOMBIE" => pc[p].at = "gone"
    /\ state[p] = "RUNNABLE" => pc[p].at # "gone"
    /\ held[p] => state[p] \in {"SLEEPING", "ZOMBIE"}

\* A process in kfork() has a child of its own, which is USED and has no parent
\* before ForkParent and this one after it.
ForkInv ==
  \A p \in Proc : pc[p].at \in ForkPlaces =>
    /\ state[pc[p].c] = "USED"
    /\ parent[pc[p].c] = (IF pc[p].at = "fork" THEN None ELSE p)
    /\ \A q \in Proc : pc[q].at \in ForkPlaces /\ pc[q].c = pc[p].c => p = q

\* A parent is alive and has not yet given up its children; init never ends.
ParentInv ==
  /\ state[Initproc] \in {"RUNNABLE", "SLEEPING"}
  /\ pc[Initproc].at \notin EndPlaces \cup {"reparent"}
  /\ \A c \in Proc :
       /\ state[c] = "UNUSED" => parent[c] = None
       /\ parent[c] \in Proc =>
            /\ state[parent[c]] \in {"RUNNABLE", "SLEEPING"}
            /\ pc[parent[c]].at \notin EndPlaces

\* No parent sleeps, or has decided to, over a child that is or is about to be a
\* ZOMBIE, and a scan has left none behind.
WakeInv ==
  \A p, c \in Proc : parent[c] = p =>
    /\ state[c] = "ZOMBIE" \/ pc[c].at = "zombie" => state[p] # "SLEEPING"
    /\ pc[p].at = "sleep" => state[c] # "ZOMBIE"
    /\ pc[p].at = "scan" /\ c < pc[p].c => state[c] # "ZOMBIE"

IInv == TypeOK /\ LockInv /\ PlaceInv /\ ForkInv /\ ParentInv /\ WakeInv

\* A free slot has no pid, and no mark of kill().
FreeInv == \A p \in Proc : state[p] = "UNUSED" => pid[p] = 0 /\ ~killed[p]

-----------------------------------------------------------------------------
SimplePlaces == {"user", "reparent", "wakeup", "zombie", "gone", "sleep", "asleep",
                 "getppid"}

\* What At() builds.
LEMMA SimplePlace ==
  ASSUME NEW a \in SimplePlaces
  PROVE  At(a, None, FALSE) \in Places /\ At(a, None, FALSE).at = a
BY DEF At, Places, SimplePlaces

\* A place in kfork(), with the child.
LEMMA ForkPlace ==
  ASSUME NEW a \in ForkPlaces, NEW c \in Proc
  PROVE  /\ At(a, c, FALSE) \in Places
         /\ At(a, c, FALSE).at = a /\ At(a, c, FALSE).c = c
BY DEF At, Places, ForkPlaces

\* A place of the scan of kwait(), with the slot.
LEMMA ScanPlace ==
  ASSUME NEW c \in 1 .. N + 1, NEW k \in BOOLEAN
  PROVE  /\ At("scan", c, k) \in Places
         /\ At("scan", c, k).at = "scan" /\ At("scan", c, k).c = c
BY DEF At, Places

\* What a place is made of.
LEMMA PlaceSlot ==
  ASSUME NEW x \in Places
  PROVE  /\ x.at \in ForkPlaces => x.c \in Proc
         /\ x.at = "scan" => x.c \in 1 .. N + 1 /\ x.kids \in BOOLEAN
BY Zenon DEF Places, ForkPlaces

\* init is a process, None is not.
LEMMA InitprocType == Initproc \in Proc /\ None \notin Proc
BY ProcLifeAssumption DEF Initproc, Proc

\* A process goes to another place.
LEMMA GotoFacts ==
  ASSUME TypeOK, NEW p \in Proc, NEW x \in Places, Goto(p, x)
  PROVE  /\ pc' \in [Proc -> Places] /\ pc'[p] = x
         /\ \A q \in Proc : q # p => pc'[q] = pc[q]
BY DEF TypeOK, Goto

\* A process goes to a place that needs no slot.
LEMMA GotoSimple ==
  ASSUME TypeOK, NEW p \in Proc, NEW a \in SimplePlaces, Goto(p, At(a, None, FALSE))
  PROVE  /\ pc' \in [Proc -> Places] /\ pc'[p].at = a
         /\ \A q \in Proc : q # p => pc'[q] = pc[q]
<1>1. At(a, None, FALSE) \in Places /\ At(a, None, FALSE).at = a
  BY SimplePlace, Zenon
<1> QED BY <1>1, GotoFacts, Zenon

\* wait_lock stays where it is, is acquired or is released, as p's place says.
LockStep(p) ==
  \/ wait_lock' = wait_lock /\ (pc[p].at \in WaitPlaces <=> pc'[p].at \in WaitPlaces)
  \/ wait_lock = None /\ wait_lock' = p /\ pc'[p].at \in WaitPlaces
  \/ pc[p].at \in WaitPlaces /\ wait_lock' = None /\ pc'[p].at \notin WaitPlaces

\* Such a step keeps the holder and the places in agreement.
LEMMA KeepLock ==
  ASSUME TypeOK, LockInv, NEW p \in Proc, LockStep(p),
         \A q \in Proc : q # p => (pc'[q].at \in WaitPlaces <=> pc[q].at \in WaitPlaces)
  PROVE  LockInv' /\ wait_lock' \in Proc \cup {None}
BY InitprocType DEF TypeOK, LockInv, LockStep

\* Two processes cannot both be where wait_lock is held.
LEMMA LockExclusive ==
  ASSUME LockInv, NEW p \in Proc, NEW q \in Proc,
         pc[p].at \in WaitPlaces, pc[q].at \in WaitPlaces
  PROVE  p = q
BY DEF LockInv

\* No process enters kfork(), and the children that are there stay as they are.
LEMMA KeepFork ==
  ASSUME TypeOK, ForkInv,
         \A q \in Proc : pc'[q].at \in ForkPlaces =>
           /\ pc'[q] = pc[q]
           /\ state'[pc[q].c] = state[pc[q].c]
           /\ parent'[pc[q].c] = parent[pc[q].c]
  PROVE  ForkInv'
<1> SUFFICES ASSUME NEW q \in Proc, pc'[q].at \in ForkPlaces
             PROVE  /\ state'[pc'[q].c] = "USED"
                    /\ parent'[pc'[q].c] = (IF pc'[q].at = "fork" THEN None ELSE q)
                    /\ \A r \in Proc : pc'[r].at \in ForkPlaces /\ pc'[r].c = pc'[q].c => q = r
  BY DEF ForkInv
<1>1. pc'[q] = pc[q]
  OBVIOUS
<1>2. \A r \in Proc : pc'[r].at \in ForkPlaces => pc'[r] = pc[r]
  OBVIOUS
<1> QED BY <1>1, <1>2 DEF ForkInv

Alive(p) == state[p] \in {"RUNNABLE", "SLEEPING"} /\ pc[p].at \notin EndPlaces

\* Those who may have children stay alive, and no child gets another parent.
LEMMA KeepParent ==
  ASSUME TypeOK, ParentInv,
         \A q \in Proc : Alive(q) => Alive(q)',
         \A q \in Proc : parent'[q] \in {parent[q], None},
         \A q \in Proc : state'[q] = "UNUSED" => parent'[q] = None,
         pc'[Initproc].at # "reparent"
  PROVE  ParentInv'
<1>1. Alive(Initproc) /\ Alive(Initproc)'
  BY InitprocType DEF ParentInv, Alive
<1>2. \A c \in Proc : parent'[c] \in Proc => parent'[c] = parent[c] /\ Alive(parent[c])'
  BY InitprocType DEF ParentInv, Alive
<1> QED BY <1>1, <1>2 DEF ParentInv, Alive

\* No child is or becomes a ZOMBIE behind its parent's back.
LEMMA KeepWake ==
  ASSUME TypeOK, WakeInv,
         \A q \in Proc :
           /\ parent'[q] \in {parent[q], None}
           /\ state'[q] \in {"ZOMBIE", "SLEEPING"} => state'[q] = state[q]
           /\ pc'[q].at = "zombie" => pc[q].at = "zombie"
           /\ pc'[q].at = "sleep" => pc[q].at = "sleep"
           /\ pc'[q].at = "scan" => pc'[q] = pc[q] \/ pc'[q].c = 1
  PROVE  WakeInv'
<1> SUFFICES ASSUME NEW p \in Proc, NEW c \in Proc, parent'[c] = p
             PROVE  /\ state'[c] = "ZOMBIE" \/ pc'[c].at = "zombie" => state'[p] # "SLEEPING"
                    /\ pc'[p].at = "sleep" => state'[c] # "ZOMBIE"
                    /\ pc'[p].at = "scan" /\ c < pc'[p].c => state'[c] # "ZOMBIE"
  BY DEF WakeInv
<1>1. parent[c] = p
  BY InitprocType
<1>2. pc'[p].at = "scan" /\ c < pc'[p].c => pc'[p] = pc[p]
  BY ProcLifeAssumption DEF Proc
<1> QED BY <1>1, <1>2 DEF WakeInv

-----------------------------------------------------------------------------
(* Steps that change nothing but wait_lock and the place of a process. *)

QuietPlaces == {"user", "reparent", "scan", "sleep", "asleep", "getppid"}

\* They keep the invariant if they leave no zombie child behind.
LEMMA QuietStep ==
  ASSUME IInv, NEW p \in Proc, NEW x \in Places, Goto(p, x), LockStep(p),
         state[p] = "RUNNABLE", pc[p].at \in QuietPlaces, x.at \in QuietPlaces,
         p = Initproc => x.at # "reparent",
         \A c \in Proc : parent[c] = p =>
           /\ x.at = "sleep" => state[c] # "ZOMBIE"
           /\ x.at = "scan" /\ c < x.c => state[c] # "ZOMBIE",
         UNCHANGED <<state, parent, killed, pid, nextpid, held, panicked>>
  PROVE  IInv'
<1> USE DEF IInv
<1>1. /\ pc' \in [Proc -> Places] /\ pc'[p] = x
      /\ \A q \in Proc : q # p => pc'[q] = pc[q]
  BY GotoFacts
<1>2. LockInv' /\ wait_lock' \in Proc \cup {None}
  BY <1>1, KeepLock, Zenon
<1>3. TypeOK'
  BY <1>1, <1>2 DEF TypeOK
<1>4. PlaceInv'
  BY <1>1 DEF PlaceInv, QuietPlaces
<1>5. ForkInv'
  <2>1. x.at \notin ForkPlaces
    BY DEF QuietPlaces, ForkPlaces
  <2> QED BY <1>1, <2>1, KeepFork
<1>6. ParentInv'
  <2>1. x.at \notin EndPlaces
    BY DEF QuietPlaces, EndPlaces
  <2>2. \A q \in Proc : Alive(q) => Alive(q)'
    BY <1>1, <2>1 DEF Alive
  <2>3. pc'[Initproc].at # "reparent"
    BY <1>1, InitprocType DEF ParentInv
  <2> QED BY <2>2, <2>3, KeepParent DEF ParentInv
<1>7. WakeInv'
  <2> SUFFICES ASSUME NEW q \in Proc, NEW c \in Proc, parent[c] = q
               PROVE  /\ state[c] = "ZOMBIE" \/ pc'[c].at = "zombie" => state[q] # "SLEEPING"
                      /\ pc'[q].at = "sleep" => state[c] # "ZOMBIE"
                      /\ pc'[q].at = "scan" /\ c < pc'[q].c => state[c] # "ZOMBIE"
    BY DEF WakeInv
  <2>1. pc'[c].at = "zombie" => pc[c].at = "zombie"
    BY <1>1 DEF QuietPlaces
  <2>2. CASE q = p
    BY <1>1, <2>1, <2>2 DEF WakeInv
  <2>3. CASE q # p
    BY <1>1, <2>1, <2>3 DEF WakeInv
  <2> QED BY <2>2, <2>3
<1> QED BY <1>2, <1>3, <1>4, <1>5, <1>6, <1>7

\* Such a step to a place that needs no slot, other than going to sleep.
LEMMA QuietSimple ==
  ASSUME IInv, NEW p \in Proc, NEW a \in {"user", "reparent", "getppid"},
         Goto(p, At(a, None, FALSE)),
         state[p] = "RUNNABLE", pc[p].at \in QuietPlaces,
         \/ pc[p].at \in WaitPlaces /\ wait_lock' = None /\ a = "user"
         \/ wait_lock = None /\ wait_lock' = p /\ a # "user",
         p = Initproc => a # "reparent",
         UNCHANGED <<state, parent, killed, pid, nextpid, held, panicked>>
  PROVE  IInv'
<1>1. At(a, None, FALSE) \in Places /\ At(a, None, FALSE).at = a
  BY SimplePlace, Zenon DEF SimplePlaces
<1>2. pc'[p].at = a
  BY <1>1, GotoFacts, Zenon DEF IInv
<1>3. LockStep(p)
  BY <1>2 DEF LockStep, WaitPlaces
<1>4. a \in QuietPlaces /\ a # "sleep" /\ a # "scan"
  BY DEF QuietPlaces
<1> QED BY <1>1, <1>3, <1>4, QuietStep, Zenon

\* kexit() takes wait_lock, or init's panics.
LEMMA ExitStep ==
  ASSUME IInv, NEW p \in Proc, Exit(p)
  PROVE  IInv'
<1>1. CASE p = Initproc
  BY <1>1 DEF Exit, IInv, TypeOK, LockInv, PlaceInv, ForkInv, ParentInv, WakeInv, pidVars
<1>2. CASE p # Initproc
  BY <1>2, QuietSimple, Zenon DEF Exit, Runs, AcquireWait, QuietPlaces, pidVars
<1> QED BY <1>1, <1>2

\* The scan of kwait() starts.
LEMMA WaitBeginStep ==
  ASSUME IInv, NEW p \in Proc, WaitBegin(p)
  PROVE  IInv'
<1>1. 1 \in 1 .. N + 1
  BY ProcLifeAssumption
<1>2. At("scan", 1, FALSE) \in Places /\ At("scan", 1, FALSE).at = "scan" /\ At("scan", 1, FALSE).c = 1
  BY <1>1, ScanPlace, Zenon
<1>3. LockStep(p)
  BY <1>1, <1>2, GotoFacts, Zenon DEF LockStep, WaitBegin, AcquireWait, WaitPlaces, IInv
<1>4. state[p] = "RUNNABLE" /\ pc[p].at \in {"user", "asleep"}
  BY DEF WaitBegin, Calls, Runs
<1>5. ~ \E c \in Proc : c < 1
  BY DEF Proc
<1> QED BY <1>1, <1>2, <1>3, <1>4, <1>5, QuietStep, Zenon DEF WaitBegin, QuietPlaces, pidVars

\* copyout() fails in kwait().
LEMMA WaitFaultStep ==
  ASSUME IInv, NEW p \in Proc, WaitFault(p)
  PROVE  IInv'
BY QuietSimple, Zenon
   DEF WaitFault, Scans, Runs, ReleaseWait, User, QuietPlaces, WaitPlaces, pidVars

\* The scan of kwait() passes over a slot.
LEMMA WaitPassStep ==
  ASSUME IInv, NEW p \in Proc, WaitPass(p)
  PROVE  IInv'
<1>1. PICK pp \in Proc : 
        /\ Scans(p, pp)
        /\ parent[pp] = p => ~held[pp] /\ state[pp] # "ZOMBIE"
        /\ Goto(p, At("scan", pp + 1, pc[p].kids \/ parent[pp] = p))
  BY DEF WaitPass
<1> DEFINE x == At("scan", pp + 1, pc[p].kids \/ parent[pp] = p)
<1>2. pp + 1 \in 1 .. N + 1
  BY ProcLifeAssumption DEF Proc
<1>3. (pc[p].kids \/ parent[pp] = p) \in BOOLEAN
  OBVIOUS
<1>4. x \in Places /\ x.at = "scan" /\ x.c = pp + 1
  BY <1>2, <1>3, ScanPlace, Zenon
<1>5. state[p] = "RUNNABLE" /\ pc[p].at = "scan" /\ pc[p].c = pp
  BY <1>1 DEF Scans, Runs
<1>6. \A c \in Proc : parent[c] = p /\ c < pp + 1 => state[c] # "ZOMBIE"
  BY <1>1, <1>5 DEF IInv, WakeInv, Proc
<1> HIDE DEF x
<1>7. pc'[p] = x
  BY <1>1, <1>4, GotoFacts, Zenon DEF IInv, x
<1>8. LockStep(p)
  BY <1>4, <1>5, <1>7 DEF LockStep, WaitPass, WaitPlaces
<1>9. UNCHANGED <<state, parent, killed, pid, nextpid, held, panicked>>
  BY DEF WaitPass, pidVars
<1>10. Goto(p, x)
  BY <1>1 DEF x
<1> QED BY <1>4, <1>5, <1>6, <1>8, <1>9, <1>10, QuietStep DEF QuietPlaces

\* kwait() returns -1.
LEMMA WaitNoneStep ==
  ASSUME IInv, NEW p \in Proc, WaitNone(p)
  PROVE  IInv'
BY QuietSimple, Zenon DEF WaitNone, Runs, ReleaseWait, User, QuietPlaces, WaitPlaces, pidVars

\* kwait() decides to sleep: the scan has passed over every child.
LEMMA WaitDecideStep ==
  ASSUME IInv, NEW p \in Proc, WaitDecide(p)
  PROVE  IInv'
<1>1. At("sleep", None, FALSE) \in Places /\ At("sleep", None, FALSE).at = "sleep"
  BY SimplePlace, Zenon DEF SimplePlaces
<1>2. state[p] = "RUNNABLE" /\ pc[p].at = "scan" /\ pc[p].c = N + 1
  BY DEF WaitDecide, Runs
<1>3. LockStep(p)
  BY <1>1, <1>2, GotoFacts, Zenon DEF LockStep, WaitDecide, WaitPlaces, IInv
<1>4. \A c \in Proc : c < N + 1
  BY ProcLifeAssumption DEF Proc
<1>5. \A c \in Proc : parent[c] = p => state[c] # "ZOMBIE"
  BY <1>2, <1>4 DEF IInv, WakeInv
<1> QED BY <1>1, <1>2, <1>3, <1>5, QuietStep, Zenon DEF WaitDecide, QuietPlaces, pidVars

\* kgetppid() takes wait_lock.
LEMMA GetppidCheckStep ==
  ASSUME IInv, NEW p \in Proc, GetppidCheck(p)
  PROVE  IInv'
BY QuietSimple, Zenon DEF GetppidCheck, Calls, Runs, AcquireWait, QuietPlaces, pidVars

\* kgetppid() releases it.
LEMMA GetppidReadStep ==
  ASSUME IInv, NEW p \in Proc, GetppidRead(p)
  PROVE  IInv'
BY QuietSimple, Zenon DEF GetppidRead, Runs, ReleaseWait, User, QuietPlaces, WaitPlaces, pidVars

-----------------------------------------------------------------------------
(* kfork() *)

\* allocproc() finds a slot that no other process is filling.
LEMMA ForkAllocStep ==
  ASSUME IInv, NEW p \in Proc, ForkAlloc(p)
  PROVE  IInv'
<1> USE DEF IInv
<1>1. PICK np \in Proc :
        /\ state[np] = "UNUSED" /\ state' = [state EXCEPT ![np] = "USED"]
        /\ pid' = [pid EXCEPT ![np] = nextpid] /\ nextpid' = nextpid + 1
        /\ pc' = [pc EXCEPT ![p] = At("fork", np, FALSE), ![np] = User]
        /\ Runs(p, "user")
        /\ UNCHANGED <<parent, killed, wait_lock, held, panicked>>
  BY Zenon DEF ForkAlloc, Calls
<1>2. state[p] = "RUNNABLE" /\ pc[p].at = "user" /\ p # np
  BY <1>1 DEF Runs
<1> DEFINE x == At("fork", np, FALSE)
<1>3. x \in Places /\ x.at = "fork" /\ x.c = np
  BY ForkPlace, Zenon DEF ForkPlaces
<1>4. User \in Places /\ User.at = "user"
  BY SimplePlace, Zenon DEF User, SimplePlaces
<1>x. pc' = [pc EXCEPT ![p] = x, ![np] = User]
  BY <1>1
<1> HIDE DEF x
<1>5. /\ pc' \in [Proc -> Places] /\ pc'[p] = x /\ pc'[np] = User
      /\ \A q \in Proc : q # p /\ q # np => pc'[q] = pc[q]
  BY <1>2, <1>3, <1>4, <1>x DEF TypeOK
<1>6. state' \in [Proc -> procstate] /\ state'[np] = "USED"
      /\ \A q \in Proc : q # np => state'[q] = state[q]
  BY <1>1 DEF TypeOK, procstate
<1>7. TypeOK'
  <2>1. pid' \in [Proc -> Nat] /\ nextpid' \in Nat
    BY <1>1 DEF TypeOK
  <2> QED BY <1>1, <1>5, <1>6, <2>1, Zenon DEF TypeOK
<1>8. pc[np].at \in {"user", "gone"}
  BY <1>1 DEF PlaceInv
<1>9. LockInv'
  BY <1>1, <1>2, <1>3, <1>4, <1>5, <1>8, Zenon DEF LockInv, WaitPlaces
<1>10. PlaceInv'
  <2>1. held' = held /\ state[np] = "UNUSED"
    BY <1>1, Zenon
  <2> QED BY <1>2, <1>3, <1>4, <1>5, <1>6, <2>1 DEF PlaceInv
<1>11. ForkInv'
  <2>1. \A q \in Proc : pc[q].at \in ForkPlaces => pc[q].c # np /\ q # np /\ q # p
    BY <1>1, <1>2, <1>8 DEF ForkInv, ForkPlaces
  <2>2. parent[np] = None
    BY <1>1 DEF ParentInv
  <2>3. \A q \in Proc : pc'[q].at \in ForkPlaces /\ q # p => pc'[q] = pc[q]
    BY <1>4, <1>5 DEF ForkPlaces
  <2> SUFFICES ASSUME NEW q \in Proc, pc'[q].at \in ForkPlaces
               PROVE  /\ state'[pc'[q].c] = "USED"
                      /\ parent'[pc'[q].c] = (IF pc'[q].at = "fork" THEN None ELSE q)
                      /\ \A r \in Proc : pc'[r].at \in ForkPlaces /\ pc'[r].c = pc'[q].c => q = r
    BY DEF ForkInv
  <2>4. CASE q = p
    <3>1. pc'[q].at = "fork" /\ pc'[q].c = np
      BY <1>3, <1>5, <2>4
    <3>2. \A r \in Proc : pc'[r].at \in ForkPlaces /\ pc'[r].c = np => r = p
      BY <2>1, <2>3
    <3>3. parent'[np] = None /\ state'[np] = "USED"
      BY <1>1, <1>6, <2>2, Zenon
    <3> QED BY <2>4, <3>1, <3>2, <3>3
  <2>5. CASE q # p
    <3>1. pc'[q] = pc[q] /\ pc[q].c \in Proc /\ pc[q].c # np
      BY <2>1, <2>3, <2>5, PlaceSlot DEF TypeOK
    <3>2. \A r \in Proc : pc'[r].at \in ForkPlaces /\ pc'[r].c = pc'[q].c => pc'[r] = pc[r]
      BY <1>3, <1>5, <2>3, <3>1
    <3>3. state'[pc[q].c] = state[pc[q].c] /\ parent' = parent
      BY <1>1, <1>6, <3>1
    <3> QED BY <3>1, <3>2, <3>3 DEF ForkInv
  <2> QED BY <2>4, <2>5
<1>12. ParentInv'
  <2>1. \A q \in Proc : Alive(q) => Alive(q)'
    BY <1>1, <1>3, <1>5, <1>6, Zenon DEF Alive, EndPlaces
  <2>2. \A q \in Proc : state'[q] = "UNUSED" => parent'[q] = None
    BY <1>1, <1>6 DEF ParentInv
  <2>3. pc'[Initproc].at # "reparent"
    BY <1>3, <1>4, <1>5, InitprocType DEF ParentInv
  <2> QED BY <1>1, <2>1, <2>2, <2>3, KeepParent
<1>13. WakeInv'
  BY <1>1, <1>3, <1>4, <1>5, <1>6, KeepWake, Zenon
<1> QED BY <1>7, <1>9, <1>10, <1>11, <1>12, <1>13

\* A fork() that fails leaves the table as it was.
LEMMA ForkFailStep ==
  ASSUME IInv, NEW p \in Proc, ForkFail(p)
  PROVE  IInv'
<1>1. UNCHANGED <<state, parent, pid, wait_lock, held, pc, panicked>>
  BY DEF ForkFail
<1>2. killed' \in [Proc -> BOOLEAN] /\ nextpid' \in Nat
  BY DEF ForkFail, IInv, TypeOK
<1>3. TypeOK'
  BY <1>1, <1>2 DEF IInv, TypeOK
<1>4. LockInv' /\ PlaceInv' /\ ForkInv'
  BY <1>1 DEF IInv, LockInv, PlaceInv, ForkInv
<1>5. ParentInv' /\ WakeInv'
  BY <1>1 DEF IInv, ParentInv, WakeInv
<1> QED BY <1>3, <1>4, <1>5 DEF IInv

\* kfork() sets the parent, which is alive.
LEMMA ForkParentStep ==
  ASSUME IInv, NEW p \in Proc, ForkParent(p)
  PROVE  IInv'
<1> USE DEF IInv
<1> DEFINE np == pc[p].c
           x == At("start", np, FALSE)
<1>1. /\ state[p] = "RUNNABLE" /\ pc[p].at = "fork" /\ wait_lock = None
      /\ parent' = [parent EXCEPT ![np] = p] /\ Goto(p, x)
      /\ UNCHANGED <<state, killed, pid, nextpid, wait_lock, held, panicked>>
  BY Zenon DEF ForkParent, Runs, pidVars
<1>2. np \in Proc /\ state[np] = "USED" /\ parent[np] = None
  BY <1>1, PlaceSlot DEF ForkInv, ForkPlaces, TypeOK
<1>3. x \in Places /\ x.at = "start" /\ x.c = np
  BY <1>2, ForkPlace, Zenon DEF ForkPlaces
<1> HIDE DEF x
<1>4. /\ pc' \in [Proc -> Places] /\ pc'[p] = x
      /\ \A q \in Proc : q # p => pc'[q] = pc[q]
  BY <1>1, <1>3, GotoFacts
<1>5. parent' \in [Proc -> Proc \cup {None}] /\ parent'[np] = p
      /\ \A q \in Proc : q # np => parent'[q] = parent[q]
  BY <1>1, <1>2 DEF TypeOK
<1>6. TypeOK'
  BY <1>1, <1>4, <1>5 DEF TypeOK
<1>7. LockInv'
  BY <1>1, <1>3, <1>4 DEF LockInv, WaitPlaces
<1>8. PlaceInv'
  BY <1>1, <1>3, <1>4 DEF PlaceInv
<1>9. ForkInv'
  <2>1. \A q \in Proc : q # p /\ pc[q].at \in ForkPlaces => pc[q].c # np /\ pc[q].c \in Proc
    BY <1>1, <1>2, PlaceSlot DEF ForkInv, ForkPlaces, TypeOK
  <2> SUFFICES ASSUME NEW q \in Proc, pc'[q].at \in ForkPlaces
               PROVE  /\ state'[pc'[q].c] = "USED"
                      /\ parent'[pc'[q].c] = (IF pc'[q].at = "fork" THEN None ELSE q)
                      /\ \A r \in Proc : pc'[r].at \in ForkPlaces /\ pc'[r].c = pc'[q].c => q = r
    BY DEF ForkInv
  <2>2. CASE q = p
    BY <1>1, <1>2, <1>3, <1>4, <1>5, <2>1, <2>2
  <2>3. CASE q # p
    <3>1. pc'[q] = pc[q] /\ pc[q].c # np /\ pc[q].c \in Proc
      BY <1>4, <2>1, <2>3
    <3>2. \A r \in Proc : pc'[r].at \in ForkPlaces /\ pc'[r].c = pc'[q].c => pc'[r] = pc[r]
      BY <1>3, <1>4, <3>1
    <3> QED BY <1>1, <1>5, <3>1, <3>2 DEF ForkInv
  <2> QED BY <2>2, <2>3
<1>10. ParentInv'
  <2>1. \A q \in Proc : Alive(q) => Alive(q)'
    BY <1>1, <1>3, <1>4 DEF Alive, EndPlaces
  <2>2. Alive(p)'
    BY <1>1, <1>3, <1>4 DEF Alive, EndPlaces
  <2>3. ASSUME NEW c \in Proc, NEW q \in Proc, parent'[c] = q
        PROVE  Alive(q)'
    <3>1. CASE c = np
      BY <1>5, <2>2, <2>3, <3>1
    <3>2. CASE c # np
      <4>1. Alive(q)
        BY <1>5, <2>3, <3>2 DEF ParentInv, Alive
      <4> QED BY <2>1, <4>1
    <3> QED BY <3>1, <3>2
  <2>4. pc'[Initproc].at # "reparent" /\ Alive(Initproc)'
    BY <1>3, <1>4, <2>1, InitprocType DEF ParentInv, Alive
  <2>5. \A c \in Proc : state'[c] = "UNUSED" => parent'[c] = None
    BY <1>1, <1>2, <1>5 DEF ParentInv
  <2> QED BY <2>3, <2>4, <2>5 DEF ParentInv, Alive
<1>11. WakeInv'
  <2>1. pc[np].at = "user" /\ np # p
    BY <1>1, <1>2 DEF PlaceInv
  <2>2. state'[np] # "ZOMBIE" /\ pc'[np].at # "zombie"
    BY <1>1, <1>2, <1>4, <2>1
  <2> SUFFICES ASSUME NEW q \in Proc, NEW c \in Proc, c # np, parent[c] = q
               PROVE  /\ state[c] = "ZOMBIE" \/ pc'[c].at = "zombie" => state[q] # "SLEEPING"
                      /\ pc'[q].at = "sleep" => state[c] # "ZOMBIE"
                      /\ pc'[q].at = "scan" /\ c < pc'[q].c => state[c] # "ZOMBIE"
    BY <1>1, <1>5, <2>2 DEF WakeInv
  <2>3. pc'[c].at = "zombie" => pc[c].at = "zombie"
    BY <1>3, <1>4
  <2> QED BY <1>3, <1>4, <2>3 DEF WakeInv
<1> QED BY <1>6, <1>7, <1>8, <1>9, <1>10, <1>11

\* kfork() makes its child RUNNABLE.
LEMMA ForkStartStep ==
  ASSUME IInv, NEW p \in Proc, ForkStart(p)
  PROVE  IInv'
<1> USE DEF IInv
<1> DEFINE np == pc[p].c
<1>1. /\ state[p] = "RUNNABLE" /\ pc[p].at = "start"
      /\ state' = [state EXCEPT ![np] = "RUNNABLE"] /\ Goto(p, User)
      /\ UNCHANGED <<parent, killed, pid, nextpid, wait_lock, held, panicked>>
  BY DEF ForkStart, Runs, pidVars
<1>2. np \in Proc /\ state[np] = "USED" /\ np # p
  BY <1>1, PlaceSlot DEF ForkInv, ForkPlaces, TypeOK
<1>3. /\ pc' \in [Proc -> Places] /\ pc'[p].at = "user"
      /\ \A q \in Proc : q # p => pc'[q] = pc[q]
  BY <1>1, GotoSimple, Zenon DEF User, SimplePlaces
<1>4. state' \in [Proc -> procstate] /\ state'[np] = "RUNNABLE"
      /\ \A q \in Proc : q # np => state'[q] = state[q]
  BY <1>1, <1>2 DEF TypeOK, procstate
<1>5. TypeOK'
  BY <1>1, <1>3, <1>4 DEF TypeOK
<1>6. LockInv'
  BY <1>1, <1>3 DEF LockInv, WaitPlaces
<1>7. PlaceInv'
  BY <1>1, <1>2, <1>3, <1>4 DEF PlaceInv
<1>8. ForkInv'
  <2>1. \A q \in Proc : q # p /\ pc[q].at \in ForkPlaces => pc[q].c # np /\ pc[q].c \in Proc
    BY <1>1, <1>2, PlaceSlot DEF ForkInv, ForkPlaces, TypeOK
  <2>2. \A q \in Proc : pc'[q].at \in ForkPlaces => q # p /\ pc'[q] = pc[q]
    BY <1>3 DEF ForkPlaces
  <2> QED BY <1>1, <1>4, <2>1, <2>2, KeepFork
<1>9. ParentInv'
  <2>1. \A q \in Proc : Alive(q) => Alive(q)'
    BY <1>2, <1>3, <1>4 DEF Alive, EndPlaces
  <2>2. pc'[Initproc].at # "reparent"
    BY <1>3, InitprocType DEF ParentInv
  <2>3. \A q \in Proc : state'[q] = "UNUSED" => parent'[q] = None
    BY <1>1, <1>4 DEF ParentInv
  <2> QED BY <1>1, <2>1, <2>2, <2>3, KeepParent
<1>10. WakeInv'
  <2>1. \A q \in Proc : state'[q] \in {"ZOMBIE", "SLEEPING"} => state'[q] = state[q]
    BY <1>2, <1>4
  <2> QED BY <1>1, <1>3, <2>1, KeepWake
<1> QED BY <1>5, <1>6, <1>7, <1>8, <1>9, <1>10

-----------------------------------------------------------------------------
(* kexit(), reparent(), wakeup() and kkill() *)

\* wakeup(), or kkill(), makes at most a sleeping process, off its stack, RUNNABLE.
LEMMA WokenFacts ==
  ASSUME TypeOK, NEW q \in Proc \cup {None}, ~WakeupBlocked(q), state' = Woken(q)
  PROVE  /\ state' \in [Proc -> procstate]
         /\ \A r \in Proc :
              \/ state'[r] = state[r]
              \/ state[r] = "SLEEPING" /\ state'[r] = "RUNNABLE" /\ ~held[r]
         /\ q \in Proc => state'[q] # "SLEEPING"
<1>1. CASE Asleep(q)
  BY <1>1 DEF Woken, WakeupBlocked, Asleep, TypeOK, procstate
<1>2. CASE ~Asleep(q)
  BY <1>2, InitprocType DEF Woken, Asleep, TypeOK
<1> QED BY <1>1, <1>2

\* kkill() wakes no one who is still on the way to sleep.
LEMMA KillStep ==
  ASSUME IInv, NEW p \in Proc, Kill(p)
  PROVE  IInv'
<1> USE DEF IInv
<1>1. PICK q \in Proc :
        /\ ~held[q] /\ killed' = [killed EXCEPT ![q] = TRUE] /\ state' = Woken(q)
        /\ UNCHANGED <<parent, pid, nextpid, wait_lock, held, pc, panicked>>
  BY Zenon DEF Kill, pidVars
<1>2. ~WakeupBlocked(q)
  BY <1>1 DEF WakeupBlocked
<1>3. /\ state' \in [Proc -> procstate]
      /\ \A r \in Proc :
           \/ state'[r] = state[r]
           \/ state[r] = "SLEEPING" /\ state'[r] = "RUNNABLE" /\ ~held[r]
  BY <1>1, <1>2, WokenFacts
<1>4. TypeOK'
  <2>1. killed' \in [Proc -> BOOLEAN]
    BY <1>1 DEF TypeOK
  <2> QED BY <1>1, <1>3, <2>1 DEF TypeOK
<1>5. LockInv'
  BY <1>1 DEF LockInv
<1>6. PlaceInv'
  BY <1>1, <1>3 DEF PlaceInv
<1>7. ForkInv'
  <2>1. \A r \in Proc : pc[r].at \in ForkPlaces => pc[r].c \in Proc /\ state[pc[r].c] = "USED"
    BY PlaceSlot DEF TypeOK, ForkInv
  <2> QED BY <1>1, <1>3, <2>1, KeepFork
<1>8. ParentInv'
  <2>1. \A r \in Proc : Alive(r) => Alive(r)'
    BY <1>1, <1>3 DEF Alive
  <2>2. \A r \in Proc : state'[r] = "UNUSED" => parent'[r] = None
    BY <1>1, <1>3 DEF ParentInv
  <2> QED BY <1>1, <2>1, <2>2, KeepParent DEF ParentInv
<1>9. WakeInv'
  BY <1>1, <1>3, KeepWake
<1> QED BY <1>4, <1>5, <1>6, <1>7, <1>8, <1>9

\* reparent() leaves the process without children, and init awake if it got any.
LEMMA ReparentStep ==
  ASSUME IInv, NEW p \in Proc, Reparent(p)
  PROVE  IInv'
<1> USE DEF IInv
<1>1. /\ state[p] = "RUNNABLE" /\ pc[p].at = "reparent"
      /\ parent' = [c \in Proc |-> IF parent[c] = p THEN Initproc ELSE parent[c]]
      /\ Goto(p, At("wakeup", None, FALSE))
      /\ UNCHANGED <<killed, pid, nextpid, wait_lock, held, panicked>>
  BY Zenon DEF Reparent, Runs, pidVars
<1>2. /\ pc' \in [Proc -> Places] /\ pc'[p].at = "wakeup"
      /\ \A q \in Proc : q # p => pc'[q] = pc[q]
  BY <1>1, GotoSimple, Zenon DEF SimplePlaces
<1>3. /\ state' \in [Proc -> procstate]
      /\ \A r \in Proc :
           \/ state'[r] = state[r]
           \/ state[r] = "SLEEPING" /\ state'[r] = "RUNNABLE" /\ ~held[r]
      /\ (\E c \in Proc : parent[c] = p) => state'[Initproc] # "SLEEPING"
  <2>1. CASE \E c \in Proc : parent[c] = p
    BY <2>1, WokenFacts, InitprocType DEF Reparent
  <2>2. CASE ~ \E c \in Proc : parent[c] = p
    BY <2>2 DEF Reparent, TypeOK
  <2> QED BY <2>1, <2>2
<1>4. /\ parent' \in [Proc -> Proc \cup {None}]
      /\ \A c \in Proc : parent'[c] = IF parent[c] = p THEN Initproc ELSE parent[c]
  BY <1>1, InitprocType DEF TypeOK
<1>5. p # Initproc
  BY <1>1 DEF ParentInv
<1>6. TypeOK'
  BY <1>1, <1>2, <1>3, <1>4 DEF TypeOK
<1>7. LockInv'
  BY <1>1, <1>2 DEF LockInv, WaitPlaces
<1>8. PlaceInv'
  BY <1>1, <1>2, <1>3 DEF PlaceInv
<1>9. ForkInv'
  <2>1. ASSUME NEW q \in Proc, pc'[q].at \in ForkPlaces
        PROVE  /\ pc'[q] = pc[q]
               /\ state'[pc[q].c] = state[pc[q].c]
               /\ parent'[pc[q].c] = parent[pc[q].c]
    <3>1. q # p /\ pc'[q] = pc[q]
      BY <1>2, <2>1 DEF ForkPlaces
    <3>2. pc[q].c \in Proc /\ state[pc[q].c] = "USED" /\ parent[pc[q].c] # p
      BY <2>1, <3>1, PlaceSlot, InitprocType DEF TypeOK, ForkInv
    <3> QED BY <1>3, <1>4, <3>1, <3>2
  <2> QED BY <2>1, KeepFork
<1>10. ParentInv'
  <2>1. \A q \in Proc : Alive(q) /\ q # p => Alive(q)'
    BY <1>2, <1>3 DEF Alive
  <2>2. Alive(Initproc)' /\ pc'[Initproc].at # "reparent"
    BY <1>2, <1>5, <2>1, InitprocType DEF ParentInv, Alive
  <2>3. ASSUME NEW c \in Proc, NEW q \in Proc, parent'[c] = q
        PROVE  Alive(q)'
    <3>1. CASE parent[c] = p
      BY <1>4, <2>2, <2>3, <3>1
    <3>2. CASE parent[c] # p
      <4>1. q # p /\ Alive(q)
        BY <1>4, <2>3, <3>2 DEF ParentInv, Alive
      <4> QED BY <2>1, <4>1
    <3> QED BY <3>1, <3>2
  <2>4. \A c \in Proc : state'[c] = "UNUSED" => parent'[c] = None
    BY <1>3, <1>4, InitprocType DEF ParentInv
  <2> QED BY <2>2, <2>3, <2>4 DEF ParentInv, Alive
<1>11. WakeInv'
  <2>1. \A q \in Proc : pc[q].at \in {"scan", "sleep", "zombie"} => FALSE
    BY <1>1, LockExclusive DEF WaitPlaces
  <2>2. \A q \in Proc : pc'[q].at \notin {"scan", "sleep", "zombie"}
    BY <1>2, <2>1
  <2>3. ASSUME NEW q \in Proc, NEW c \in Proc, parent'[c] = q, state'[c] = "ZOMBIE"
        PROVE  state'[q] # "SLEEPING"
    <3>1. state[c] = "ZOMBIE"
      BY <1>3, <2>3
    <3>2. CASE parent[c] = p
      BY <1>3, <1>4, <2>3, <3>2
    <3>3. CASE parent[c] # p
      <4>1. state[q] # "SLEEPING"
        BY <1>4, <2>3, <3>1, <3>3 DEF WakeInv
      <4> QED BY <1>3, <4>1
    <3> QED BY <3>2, <3>3
  <2> QED BY <2>2, <2>3 DEF WakeInv
<1> QED BY <1>6, <1>7, <1>8, <1>9, <1>10, <1>11

\* kexit() wakes its parent before it is a ZOMBIE, with wait_lock held.
LEMMA ExitWakeupStep ==
  ASSUME IInv, NEW p \in Proc, ExitWakeup(p)
  PROVE  IInv'
<1> USE DEF IInv
<1>1. /\ state[p] = "RUNNABLE" /\ pc[p].at = "wakeup"
      /\ ~WakeupBlocked(parent[p]) /\ state' = Woken(parent[p])
      /\ Goto(p, At("zombie", None, FALSE))
      /\ UNCHANGED <<parent, killed, pid, nextpid, wait_lock, held, panicked>>
  BY Zenon DEF ExitWakeup, Runs, pidVars
<1>2. /\ pc' \in [Proc -> Places] /\ pc'[p].at = "zombie"
      /\ \A q \in Proc : q # p => pc'[q] = pc[q]
  BY <1>1, GotoSimple, Zenon DEF SimplePlaces
<1>3. /\ state' \in [Proc -> procstate]
      /\ \A r \in Proc :
           \/ state'[r] = state[r]
           \/ state[r] = "SLEEPING" /\ state'[r] = "RUNNABLE" /\ ~held[r]
      /\ parent[p] \in Proc => state'[parent[p]] # "SLEEPING"
  <2>1. parent[p] \in Proc \cup {None}
    BY DEF TypeOK
  <2> QED BY <1>1, <2>1, WokenFacts
<1>4. TypeOK'
  BY <1>1, <1>2, <1>3 DEF TypeOK
<1>5. LockInv'
  BY <1>1, <1>2 DEF LockInv, WaitPlaces
<1>6. PlaceInv'
  <2>1. held' = held /\ state[p] = "RUNNABLE" /\ state'[p] = "RUNNABLE"
    BY <1>1, <1>3, Zenon
  <2> QED BY <1>2, <1>3, <2>1 DEF PlaceInv
<1>7. ForkInv'
  <2>1. \A q \in Proc : pc'[q].at \in ForkPlaces => pc'[q] = pc[q]
    BY <1>2 DEF ForkPlaces
  <2>2. \A r \in Proc : pc[r].at \in ForkPlaces => pc[r].c \in Proc /\ state[pc[r].c] = "USED"
    BY PlaceSlot DEF TypeOK, ForkInv
  <2>3. \A r \in Proc : pc[r].at \in ForkPlaces => state'[pc[r].c] = state[pc[r].c]
    BY <1>3, <2>2
  <2> QED BY <1>1, <2>1, <2>3, KeepFork
<1>8. ParentInv'
  <2>1. \A q \in Proc : Alive(q) => Alive(q)'
    BY <1>1, <1>2, <1>3 DEF Alive, EndPlaces
  <2>2. \A q \in Proc : state'[q] = "UNUSED" => parent'[q] = None
    BY <1>1, <1>3 DEF ParentInv
  <2>3. pc'[Initproc].at # "reparent"
    BY <1>2, InitprocType DEF ParentInv
  <2> QED BY <1>1, <2>1, <2>2, <2>3, KeepParent
<1>9. WakeInv'
  <2> SUFFICES ASSUME NEW q \in Proc, NEW c \in Proc, parent[c] = q
               PROVE  /\ state'[c] = "ZOMBIE" \/ pc'[c].at = "zombie" => state'[q] # "SLEEPING"
                      /\ pc'[q].at = "sleep" => state'[c] # "ZOMBIE"
                      /\ pc'[q].at = "scan" /\ c < pc'[q].c => state'[c] # "ZOMBIE"
    BY <1>1, Zenon DEF WakeInv
  <2>1. state'[c] = "ZOMBIE" => state[c] = "ZOMBIE"
    BY <1>3
  <2>2. state'[q] = "SLEEPING" => state[q] = "SLEEPING"
    BY <1>3
  <2>3. pc'[q].at \in {"sleep", "scan"} => pc'[q] = pc[q]
    BY <1>2
  <2>4. pc'[c].at = "zombie" => c = p \/ pc[c].at = "zombie"
    BY <1>2
  <2>5. c = p => state'[q] # "SLEEPING"
    BY <1>3
  <2> QED BY <2>1, <2>2, <2>3, <2>4, <2>5 DEF WakeInv
<1> QED BY <1>4, <1>5, <1>6, <1>7, <1>8, <1>9

\* kexit() becomes a ZOMBIE: wait_lock has kept its parent awake.
LEMMA ExitZombieStep ==
  ASSUME IInv, NEW p \in Proc, ExitZombie(p)
  PROVE  IInv'
<1> USE DEF IInv
<1>1. /\ state[p] = "RUNNABLE" /\ pc[p].at = "zombie"
      /\ state' = [state EXCEPT ![p] = "ZOMBIE"] /\ held' = [held EXCEPT ![p] = TRUE]
      /\ wait_lock' = None /\ Goto(p, At("gone", None, FALSE))
      /\ UNCHANGED <<parent, killed, pid, nextpid, panicked>>
  BY Zenon DEF ExitZombie, Runs, ReleaseWait, pidVars
<1>2. /\ pc' \in [Proc -> Places] /\ pc'[p].at = "gone"
      /\ \A q \in Proc : q # p => pc'[q] = pc[q]
  BY <1>1, GotoSimple, Zenon DEF SimplePlaces
<1>3. /\ state' \in [Proc -> procstate] /\ state'[p] = "ZOMBIE"
      /\ \A q \in Proc : q # p => state'[q] = state[q]
      /\ held' \in [Proc -> BOOLEAN]
      /\ \A q \in Proc : q # p => held'[q] = held[q]
  BY <1>1 DEF TypeOK, procstate
<1>4. TypeOK'
  BY <1>1, <1>2, <1>3 DEF TypeOK
<1>5. LockInv'
  <2>1. LockStep(p)
    BY <1>1, <1>2 DEF LockStep, WaitPlaces
  <2> QED BY <1>2, <2>1, KeepLock
<1>6. PlaceInv'
  BY <1>1, <1>2, <1>3 DEF PlaceInv
<1>7. ForkInv'
  <2>1. \A q \in Proc : pc'[q].at \in ForkPlaces => pc'[q] = pc[q]
    BY <1>2 DEF ForkPlaces
  <2>2. \A q \in Proc : pc[q].at \in ForkPlaces => pc[q].c \in Proc /\ pc[q].c # p
    BY <1>1, PlaceSlot DEF TypeOK, ForkInv
  <2> QED BY <1>1, <1>3, <2>1, <2>2, KeepFork
<1>8. ParentInv'
  <2>1. \A q \in Proc : Alive(q) => Alive(q)'
    BY <1>1, <1>2, <1>3 DEF Alive, EndPlaces
  <2>2. \A q \in Proc : state'[q] = "UNUSED" => parent'[q] = None
    BY <1>1, <1>3 DEF ParentInv
  <2>3. pc'[Initproc].at # "reparent"
    BY <1>2, InitprocType DEF ParentInv
  <2> QED BY <1>1, <2>1, <2>2, <2>3, KeepParent
<1>9. WakeInv'
  <2> SUFFICES ASSUME NEW q \in Proc, NEW c \in Proc, parent[c] = q
               PROVE  /\ state'[c] = "ZOMBIE" \/ pc'[c].at = "zombie" => state'[q] # "SLEEPING"
                      /\ pc'[q].at = "sleep" => state'[c] # "ZOMBIE"
                      /\ pc'[q].at = "scan" /\ c < pc'[q].c => state'[c] # "ZOMBIE"
    BY <1>1 DEF WakeInv
  <2>1. \A r \in Proc : pc'[r].at \notin {"scan", "sleep", "zombie"}
    BY <1>1, <1>2, LockExclusive DEF WaitPlaces
  <2>2. state'[c] = "ZOMBIE" => state[q] # "SLEEPING"
    BY <1>1, <1>3 DEF WakeInv
  <2>3. state'[q] = "SLEEPING" => state[q] = "SLEEPING"
    BY <1>3
  <2> QED BY <2>1, <2>2, <2>3
<1> QED BY <1>4, <1>5, <1>6, <1>7, <1>8, <1>9

\* The scheduler has left the stack of p.
LEMMA SwtchStep ==
  ASSUME IInv, NEW p \in Proc, Swtch(p)
  PROVE  IInv'
<1>1. /\ held' = [held EXCEPT ![p] = FALSE]
      /\ UNCHANGED <<state, parent, killed, pid, nextpid, wait_lock, pc, panicked>>
  BY DEF Swtch, pidVars
<1>2. held' \in [Proc -> BOOLEAN] /\ \A q \in Proc : held'[q] => held[q]
  BY <1>1 DEF IInv, TypeOK
<1>3. TypeOK'
  BY <1>1, <1>2 DEF IInv, TypeOK
<1>4. LockInv' /\ PlaceInv' /\ ForkInv'
  BY <1>1, <1>2 DEF IInv, LockInv, PlaceInv, ForkInv
<1>5. ParentInv' /\ WakeInv'
  BY <1>1 DEF IInv, ParentInv, WakeInv
<1> QED BY <1>3, <1>4, <1>5 DEF IInv

-----------------------------------------------------------------------------
(* The steps of kwait() that change the table *)

\* kwait() falls asleep: wait_lock has kept its children alive since the scan.
LEMMA WaitSleepStep ==
  ASSUME IInv, NEW p \in Proc, WaitSleep(p)
  PROVE  IInv'
<1> USE DEF IInv
<1>1. /\ state[p] = "RUNNABLE" /\ pc[p].at = "sleep"
      /\ state' = [state EXCEPT ![p] = "SLEEPING"] /\ held' = [held EXCEPT ![p] = TRUE]
      /\ wait_lock' = None /\ Goto(p, At("asleep", None, FALSE))
      /\ UNCHANGED <<parent, killed, pid, nextpid, panicked>>
  BY Zenon DEF WaitSleep, Runs, ReleaseWait, pidVars
<1>2. /\ pc' \in [Proc -> Places] /\ pc'[p].at = "asleep"
      /\ \A q \in Proc : q # p => pc'[q] = pc[q]
  BY <1>1, GotoSimple, Zenon DEF SimplePlaces
<1>3. /\ state' \in [Proc -> procstate] /\ state'[p] = "SLEEPING"
      /\ \A q \in Proc : q # p => state'[q] = state[q]
      /\ held' \in [Proc -> BOOLEAN]
      /\ \A q \in Proc : q # p => held'[q] = held[q]
  BY <1>1 DEF TypeOK, procstate
<1>4. TypeOK'
  BY <1>1, <1>2, <1>3 DEF TypeOK
<1>5. LockInv'
  <2>1. LockStep(p)
    BY <1>1, <1>2 DEF LockStep, WaitPlaces
  <2> QED BY <1>2, <2>1, KeepLock
<1>6. PlaceInv'
  BY <1>1, <1>2, <1>3 DEF PlaceInv
<1>7. ForkInv'
  <2>1. \A q \in Proc : pc'[q].at \in ForkPlaces => pc'[q] = pc[q]
    BY <1>2 DEF ForkPlaces
  <2>2. \A q \in Proc : pc[q].at \in ForkPlaces => pc[q].c \in Proc /\ pc[q].c # p
    BY <1>1, PlaceSlot DEF TypeOK, ForkInv
  <2> QED BY <1>1, <1>3, <2>1, <2>2, KeepFork
<1>8. ParentInv'
  <2>1. \A q \in Proc : Alive(q) => Alive(q)'
    BY <1>1, <1>2, <1>3 DEF Alive, EndPlaces
  <2>2. \A q \in Proc : state'[q] = "UNUSED" => parent'[q] = None
    BY <1>1, <1>3 DEF ParentInv
  <2>3. pc'[Initproc].at # "reparent"
    BY <1>2, InitprocType DEF ParentInv
  <2> QED BY <1>1, <2>1, <2>2, <2>3, KeepParent
<1>9. WakeInv'
  <2> SUFFICES ASSUME NEW q \in Proc, NEW c \in Proc, parent[c] = q
               PROVE  /\ state'[c] = "ZOMBIE" \/ pc'[c].at = "zombie" => state'[q] # "SLEEPING"
                      /\ pc'[q].at = "sleep" => state'[c] # "ZOMBIE"
                      /\ pc'[q].at = "scan" /\ c < pc'[q].c => state'[c] # "ZOMBIE"
    BY <1>1 DEF WakeInv
  <2>1. \A r \in Proc : pc'[r].at \notin {"scan", "sleep", "zombie"}
    BY <1>1, <1>2, LockExclusive DEF WaitPlaces
  <2>2. state'[c] = "ZOMBIE" => state[c] = "ZOMBIE"
    BY <1>3
  <2>3. state[c] = "ZOMBIE" => q # p /\ state[q] # "SLEEPING"
    BY <1>1 DEF WakeInv
  <2> QED BY <1>3, <2>1, <2>2, <2>3
<1> QED BY <1>4, <1>5, <1>6, <1>7, <1>8, <1>9

\* freeproc() of a zombie, which has no children and is off its stack.
LEMMA WaitReapStep ==
  ASSUME IInv, NEW p \in Proc, WaitReap(p)
  PROVE  IInv'
<1> USE DEF IInv
<1>1. PICK pp \in Proc :
        /\ state[p] = "RUNNABLE" /\ pc[p].at = "scan"
        /\ state[pp] = "ZOMBIE" /\ ~held[pp]
        /\ state' = [state EXCEPT ![pp] = "UNUSED"] /\ parent' = [parent EXCEPT ![pp] = None]
        /\ pid' = [pid EXCEPT ![pp] = 0] /\ killed' = [killed EXCEPT ![pp] = FALSE]
        /\ wait_lock' = None /\ Goto(p, User)
        /\ UNCHANGED <<nextpid, held, panicked>>
  BY Zenon DEF WaitReap, Scans, Runs, ReleaseWait
<1>2. /\ pc' \in [Proc -> Places] /\ pc'[p].at = "user"
      /\ \A q \in Proc : q # p => pc'[q] = pc[q]
  BY <1>1, GotoSimple, Zenon DEF User, SimplePlaces
<1>3. /\ state' \in [Proc -> procstate] /\ state'[pp] = "UNUSED"
      /\ \A q \in Proc : q # pp => state'[q] = state[q]
  BY <1>1 DEF TypeOK, procstate
<1>4. /\ parent' \in [Proc -> Proc \cup {None}] /\ parent'[pp] = None
      /\ \A q \in Proc : q # pp => parent'[q] = parent[q]
  BY <1>1 DEF TypeOK
<1>5. TypeOK'
  <2>1. pid' \in [Proc -> Nat] /\ killed' \in [Proc -> BOOLEAN]
    BY <1>1 DEF TypeOK
  <2> QED BY <1>1, <1>2, <1>3, <1>4, <2>1 DEF TypeOK
<1>6. LockInv'
  <2>1. LockStep(p)
    BY <1>1, <1>2 DEF LockStep, WaitPlaces
  <2> QED BY <1>2, <2>1, KeepLock
<1>7. PlaceInv'
  BY <1>1, <1>2, <1>3 DEF PlaceInv
<1>8. ForkInv'
  <2>1. \A q \in Proc : pc'[q].at \in ForkPlaces => pc'[q] = pc[q]
    BY <1>2 DEF ForkPlaces
  <2>2. \A q \in Proc : pc[q].at \in ForkPlaces => pc[q].c \in Proc /\ pc[q].c # pp
    BY <1>1, PlaceSlot DEF TypeOK, ForkInv
  <2> QED BY <1>3, <1>4, <2>1, <2>2, KeepFork
<1>9. ParentInv'
  <2>1. \A q \in Proc : Alive(q) => Alive(q)'
    BY <1>1, <1>2, <1>3 DEF Alive, EndPlaces
  <2>2. \A q \in Proc : state'[q] = "UNUSED" => parent'[q] = None
    BY <1>3, <1>4 DEF ParentInv
  <2>3. pc'[Initproc].at # "reparent"
    BY <1>2, InitprocType DEF ParentInv
  <2> QED BY <1>4, <2>1, <2>2, <2>3, KeepParent
<1>10. WakeInv'
  <2>1. \A q \in Proc : state'[q] \in {"ZOMBIE", "SLEEPING"} => state'[q] = state[q]
    BY <1>3
  <2> QED BY <1>2, <1>4, <2>1, KeepWake
<1> QED BY <1>5, <1>6, <1>7, <1>8, <1>9, <1>10

-----------------------------------------------------------------------------
(* The invariant *)

\* The table after userinit() satisfies it.
LEMMA InitIInv == Init => IInv
<1> SUFFICES ASSUME Init PROVE IInv
  OBVIOUS
<1>1. User \in Places /\ User.at = "user"
  BY SimplePlace, Zenon DEF User, SimplePlaces
<1>2. TypeOK
  BY <1>1, InitprocType, Zenon DEF Init, TypeOK, procstate
<1>3. LockInv /\ PlaceInv /\ ForkInv
  BY <1>1, InitprocType DEF Init, LockInv, PlaceInv, ForkInv, WaitPlaces, ForkPlaces
<1>4. ParentInv /\ WakeInv
  BY <1>1, InitprocType DEF Init, ParentInv, WakeInv, EndPlaces
<1> QED BY <1>2, <1>3, <1>4 DEF IInv

\* Every step keeps it.
LEMMA IInvStep == IInv /\ [Next]_vars => IInv'
<1> SUFFICES ASSUME IInv, [Next]_vars PROVE IInv'
  OBVIOUS
<1>1. CASE UNCHANGED vars
  BY <1>1 DEF vars, IInv, TypeOK, LockInv, PlaceInv, ForkInv, ParentInv, WakeInv
<1>2. ASSUME NEW p \in Proc, Kernel(p)
      PROVE  IInv'
  BY <1>2, ForkParentStep, ForkStartStep, ReparentStep, ExitWakeupStep, ExitZombieStep,
     SwtchStep, WaitBeginStep, WaitReapStep, WaitFaultStep, WaitPassStep, WaitNoneStep,
     WaitDecideStep, WaitSleepStep, GetppidReadStep, Zenon DEF Kernel
<1>3. CASE Next
  BY <1>2, <1>3, ForkAllocStep, ForkFailStep, ExitStep, WaitBeginStep, KillStep,
     GetppidCheckStep DEF Next
<1> QED BY <1>1, <1>3

\* It implies what TableSound says.
LEMMA IInvTable == IInv => TableSound
BY DEF IInv, TableSound, SleepJustified, FreedOffStack, PlaceInv, WakeInv

\* So it holds in every reachable state.
LEMMA Invariant == Spec => []IInv
BY InitIInv, IInvStep, PTL DEF Spec

\* kwait(), kexit() and reparent() with their locks: no parent sleeps on a zombie child,
\* and no slot is freed while its process is still on its stack, for every table.
THEOREM TableInvariant == Spec => []TableSound
BY Invariant, IInvTable, PTL

-----------------------------------------------------------------------------
(* The mark of kill() *)

\* A step that frees no slot, and kills no free one.
LEMMA KeepFree ==
  ASSUME FreeInv,
         \A q \in Proc : state'[q] = "UNUSED" =>
           state[q] = "UNUSED" /\ pid'[q] = pid[q] /\ (killed'[q] => killed[q])
  PROVE  FreeInv'
BY DEF FreeInv

\* A state that changes to something other than UNUSED.
LEMMA KeepUsed ==
  ASSUME TypeOK, NEW q, NEW v, v # "UNUSED", state' = [state EXCEPT ![q] = v]
  PROVE  \A r \in Proc : state'[r] = "UNUSED" => state[r] = "UNUSED"
BY DEF TypeOK

\* No step leaves a pid or a mark in a free slot, if no kill() names pid 0.
LEMMA FreeStep ==
  ASSUME 0 \notin Targets, IInv, FreeInv, [Next]_vars
  PROVE  FreeInv'
<1> USE DEF IInv
<1>1. ASSUME NEW p \in Proc, WaitReap(p)
      PROVE  FreeInv'
  BY <1>1 DEF WaitReap, FreeInv, TypeOK
<1>2. ASSUME NEW p \in Proc, Kill(p)
      PROVE  FreeInv'
  <2>1. PICK n \in Targets, q \in Proc :
          /\ pid[q] = n /\ ~held[q] /\ killed' = [killed EXCEPT ![q] = TRUE]
          /\ state' = Woken(q) /\ pid' = pid
    BY <1>2, Zenon DEF Kill, pidVars
  <2>2. state[q] # "UNUSED"
    BY <2>1 DEF FreeInv
  <2>3. \A r \in Proc : state'[r] = "UNUSED" => state[r] = "UNUSED"
    BY <2>1 DEF Woken, TypeOK
  <2> QED BY <2>1, <2>2, <2>3, KeepFree DEF TypeOK
<1>3. ASSUME NEW p \in Proc, ForkAlloc(p)
      PROVE  FreeInv'
  BY <1>3 DEF ForkAlloc, FreeInv, TypeOK
<1>4. ASSUME NEW p \in Proc, ForkFail(p)
      PROVE  FreeInv'
  BY <1>4 DEF ForkFail, FreeInv, TypeOK
<1>5. ASSUME NEW p \in Proc, Reparent(p) \/ ExitWakeup(p)
      PROVE  FreeInv'
  <2>1. \A r \in Proc : state'[r] = "UNUSED" => state[r] = "UNUSED"
    BY <1>5, Zenon DEF Reparent, ExitWakeup, Woken, TypeOK
  <2>2. UNCHANGED <<killed, pid>>
    BY <1>5, Zenon DEF Reparent, ExitWakeup, pidVars
  <2> QED BY <2>1, <2>2, KeepFree
<1>6. ASSUME NEW p \in Proc, ForkStart(p) \/ ExitZombie(p) \/ WaitSleep(p)
      PROVE  FreeInv'
  <2>1. \A r \in Proc : state'[r] = "UNUSED" => state[r] = "UNUSED"
    BY <1>6, KeepUsed, Zenon DEF ForkStart, ExitZombie, WaitSleep
  <2>2. UNCHANGED <<killed, pid>>
    BY <1>6, Zenon DEF ForkStart, ExitZombie, WaitSleep, pidVars
  <2> QED BY <2>1, <2>2, KeepFree
<1>7. ASSUME UNCHANGED <<state, killed, pid>>
      PROVE  FreeInv'
  BY <1>7 DEF FreeInv
<1>8. ASSUME NEW p \in Proc, ForkParent(p) \/ Swtch(p) \/ WaitFault(p) \/ WaitPass(p)
               \/ WaitNone(p) \/ WaitDecide(p) \/ GetppidRead(p)
      PROVE  UNCHANGED <<state, killed, pid>>
  BY <1>8, Zenon DEF ForkParent, Swtch, WaitFault, WaitPass, WaitNone, WaitDecide, GetppidRead,
     pidVars
<1>9. ASSUME NEW p \in Proc, Exit(p) \/ WaitBegin(p) \/ GetppidCheck(p)
      PROVE  UNCHANGED <<state, killed, pid>>
  BY <1>9, Zenon DEF Exit, WaitBegin, GetppidCheck, pidVars
<1>10. CASE UNCHANGED vars
  BY <1>7, <1>10 DEF vars
<1>11. CASE Next
  <2>1. PICK p \in Proc : Kernel(p) \/ ForkAlloc(p) \/ ForkFail(p) \/ Exit(p)
                            \/ WaitBegin(p) \/ Kill(p) \/ GetppidCheck(p)
    BY <1>11 DEF Next
  <2>2. CASE Kernel(p)
    BY <2>2, <1>1, <1>5, <1>6, <1>7, <1>8, <1>9, Zenon DEF Kernel
  <2> QED BY <2>1, <2>2, <1>2, <1>3, <1>4, <1>7, <1>9
<1> QED BY <1>10, <1>11

\* A slot that fork() takes was free, and keeps the mark it had.
LEMMA FreshStep ==
  ASSUME IInv, FreeInv, [Next]_vars, NEW q \in Proc,
         state[q] = "UNUSED", state'[q] = "USED"
  PROVE  ~killed'[q]
<1> USE DEF IInv
<1>1. ASSUME NEW p \in Proc, ForkAlloc(p)
      PROVE  ~killed'[q]
  BY <1>1 DEF ForkAlloc, FreeInv
<1>2. ASSUME NEW p \in Proc, Reparent(p) \/ ExitWakeup(p) \/ Kill(p)
      PROVE  FALSE
  <2>1. PICK r : state' = Woken(r) \/ state' = state
    BY <1>2, Zenon DEF Reparent, ExitWakeup, Kill
  <2> QED BY <2>1 DEF Woken, TypeOK
<1>3. ASSUME NEW r, NEW v, v # "USED", state' = [state EXCEPT ![r] = v]
      PROVE  FALSE
  BY <1>3 DEF TypeOK
<1>4. ASSUME NEW p \in Proc, ForkStart(p) \/ ExitZombie(p) \/ WaitSleep(p) \/ WaitReap(p)
      PROVE  FALSE
  <2>1. CASE ForkStart(p) \/ ExitZombie(p)
    BY <1>3, <2>1, Zenon DEF ForkStart, ExitZombie
  <2>2. CASE WaitSleep(p) \/ WaitReap(p)
    BY <1>3, <2>2, Zenon DEF WaitSleep, WaitReap
  <2> QED BY <1>4, <2>1, <2>2
<1>5. ASSUME NEW p \in Proc, ForkParent(p) \/ Swtch(p) \/ WaitFault(p) \/ WaitPass(p)
               \/ WaitNone(p) \/ WaitDecide(p) \/ GetppidRead(p)
      PROVE  state' = state
  BY <1>5, Zenon DEF ForkParent, Swtch, WaitFault, WaitPass, WaitNone, WaitDecide, GetppidRead
<1>6. ASSUME NEW p \in Proc, Exit(p) \/ WaitBegin(p) \/ GetppidCheck(p) \/ ForkFail(p)
      PROVE  state' = state
  BY <1>6, Zenon DEF Exit, WaitBegin, GetppidCheck, ForkFail
<1>7. CASE UNCHANGED vars
  BY <1>7 DEF vars
<1>8. CASE Next
  <2>1. PICK p \in Proc : Kernel(p) \/ ForkAlloc(p) \/ ForkFail(p) \/ Exit(p)
                            \/ WaitBegin(p) \/ Kill(p) \/ GetppidCheck(p)
    BY <1>8 DEF Next
  <2>2. CASE Kernel(p)
    BY <2>2, <1>2, <1>4, <1>5, <1>6, Zenon DEF Kernel
  <2> QED BY <2>1, <2>2, <1>1, <1>2, <1>6
<1> QED BY <1>7, <1>8

\* If kill() is never called with pid 0, the pid of a free slot, then a process that
\* fork() creates has not been killed: freeproc() has cleared the mark in its slot.
THEOREM FreshProcess == ASSUME 0 \notin Targets PROVE Spec => FreshNotKilled
<1>1. Init => FreeInv
  BY DEF Init, FreeInv
<1>2. IInv /\ FreeInv /\ [Next]_vars => FreeInv'
  BY FreeStep
<1>3. Spec => []FreeInv
  BY <1>1, <1>2, Invariant, PTL DEF Spec
<1>4. IInv /\ FreeInv /\ [Next]_vars =>
        [\A p \in Proc : state[p] = "UNUSED" /\ state'[p] = "USED" => ~killed'[p]]_vars
  BY FreshStep
<1> QED BY <1>3, <1>4, Invariant, PTL DEF Spec, FreshNotKilled

-----------------------------------------------------------------------------
(* The tree of processes *)

\* The table after userinit() is the tree of init alone.
LEMMA TreeInit == Init => Tree!Init
<1> SUFFICES ASSUME Init PROVE Tree!Init
  OBVIOUS
<1>1. User.at = "user"
  BY SimplePlace, Zenon DEF User, SimplePlaces
<1>2. \A p \in Proc : TreeStatus(p) = IF p = Initproc THEN "live" ELSE "free"
  BY <1>1 DEF Init, TreeStatus
<1> QED BY <1>2 DEF Init, Tree!Init, status

\* A step that changes no status and no parent is none of the tree.
LEMMA TreeStutter ==
  ASSUME parent' = parent, \A q \in Proc : TreeStatus(q)' = TreeStatus(q)
  PROVE  UNCHANGED Tree!vars
BY DEF status, Tree!vars

\* The places that the tree does not tell from each other.
LEMMA TreeSame ==
  ASSUME NEW q \in Proc, parent' = parent, 
         state'[q] = state[q] \/ {state[q], state'[q]} \subseteq {"RUNNABLE", "SLEEPING"},
         pc'[q].at \in {"wakeup", "zombie"} <=> pc[q].at \in {"wakeup", "zombie"}
  PROVE  TreeStatus(q)' = TreeStatus(q)
BY DEF TreeStatus

\* Where Goto() leads.
LEMMA GotoAt ==
  ASSUME TypeOK, NEW p \in Proc, NEW a, NEW c, NEW k, Goto(p, At(a, c, k))
  PROVE  pc'[p].at = a /\ \A q \in Proc : q # p => pc'[q] = pc[q]
BY DEF TypeOK, Goto, At

\* kfork() creates the process when it sets the parent.
LEMMA TreeFork ==
  ASSUME IInv, NEW p \in Proc, ForkParent(p)
  PROVE  Tree!Next
<1> USE DEF IInv
<1>1. state[p] = "RUNNABLE" /\ pc[p].at = "fork" /\ state' = state
  BY DEF ForkParent, Runs
<1>2. PICK np \in Proc : np = pc[p].c /\ state[np] = "USED" /\ parent[np] = None
  BY <1>1, PlaceSlot DEF ForkInv, ForkPlaces, TypeOK
<1>3. pc'[p].at = "start" /\ \A q \in Proc : q # p => pc'[q] = pc[q]
  BY GotoAt, Zenon DEF ForkParent
<1>4. pc[np].at = "user" /\ np # p
  BY <1>1, <1>2 DEF PlaceInv
<1>5. /\ parent' = [parent EXCEPT ![np] = p] /\ parent'[np] = p
      /\ \A q \in Proc : q # np => parent'[q] = parent[q]
  BY <1>2 DEF ForkParent, TypeOK
<1>6. TreeStatus(p) = "live" /\ TreeStatus(np) = "free" /\ TreeStatus(np)' = "live"
  BY <1>1, <1>2, <1>3, <1>4, <1>5, InitprocType DEF TreeStatus
<1>7. \A q \in Proc : q # np => TreeStatus(q)' = TreeStatus(q)
  BY <1>1, <1>3, <1>5 DEF TreeStatus
<1>8. status' = [status EXCEPT ![np] = "live"]
  BY <1>2, <1>6, <1>7, Zenon DEF status
<1>9. Tree!Fork(p, np)
  BY <1>2, <1>5, <1>6, <1>8 DEF Tree!Fork, status
<1> QED BY <1>2, <1>9 DEF Tree!Next

\* kexit() ends the process when reparent() has given its children away.
LEMMA TreeExit ==
  ASSUME IInv, NEW p \in Proc, Reparent(p)
  PROVE  Tree!Next
<1> USE DEF IInv
<1>1. /\ state[p] = "RUNNABLE" /\ pc[p].at = "reparent"
      /\ parent' = [c \in Proc |-> IF parent[c] = p THEN Initproc ELSE parent[c]]
      /\ Goto(p, At("wakeup", None, FALSE))
  BY Zenon DEF Reparent, Runs
<1>2. pc'[p].at = "wakeup" /\ \A q \in Proc : q # p => pc'[q] = pc[q]
  BY <1>1, GotoAt, Zenon
<1>3. \A r \in Proc :
           \/ state'[r] = state[r]
           \/ state[r] = "SLEEPING" /\ state'[r] = "RUNNABLE"
  BY WokenFacts, InitprocType DEF Reparent
<1>4. p # Initproc
  BY <1>1 DEF ParentInv
<1>5. TreeStatus(p) = "live" /\ TreeStatus(p)' = "zombie"
  BY <1>1, <1>2 DEF TreeStatus
<1>6. ASSUME NEW q \in Proc, q # p
      PROVE  TreeStatus(q)' = TreeStatus(q)
  <2>1. pc'[q] = pc[q]
    BY <1>2, <1>6
  <2>2. parent'[q] = None <=> parent[q] = None
    BY <1>1, InitprocType
  <2> QED BY <1>3, <2>1, <2>2 DEF TreeStatus
<1>7. status' = [status EXCEPT ![p] = "zombie"]
  BY <1>5, <1>6, Zenon DEF status
<1>8. Tree!Exit(p)
  BY <1>1, <1>4, <1>5, <1>7 DEF Tree!Exit, status
<1> QED BY <1>8 DEF Tree!Next

\* kwait() removes the zombie that it finds.
LEMMA TreeReap ==
  ASSUME IInv, NEW p \in Proc, WaitReap(p)
  PROVE  Tree!Next
<1> USE DEF IInv
<1>1. PICK pp \in Proc :
        /\ state[p] = "RUNNABLE" /\ pc[p].at = "scan" /\ parent[pp] = p
        /\ state[pp] = "ZOMBIE"
        /\ state' = [state EXCEPT ![pp] = "UNUSED"] /\ parent' = [parent EXCEPT ![pp] = None]
        /\ Goto(p, At("user", None, FALSE))
  BY Zenon DEF WaitReap, Scans, Runs, User
<1>2. pc'[p].at = "user" /\ \A q \in Proc : q # p => pc'[q] = pc[q]
  BY <1>1, GotoAt, Zenon
<1>3. p # pp /\ pc[pp].at = "gone"
  BY <1>1 DEF PlaceInv
<1>4. /\ state'[pp] = "UNUSED" /\ \A q \in Proc : q # pp => state'[q] = state[q]
      /\ \A q \in Proc : q # pp => parent'[q] = parent[q]
  BY <1>1 DEF TypeOK
<1>5. TreeStatus(p) = "live" /\ TreeStatus(pp) = "zombie" /\ TreeStatus(pp)' = "free"
  BY <1>1, <1>2, <1>3, <1>4 DEF TreeStatus
<1>6. ASSUME NEW q \in Proc, q # pp
      PROVE  TreeStatus(q)' = TreeStatus(q)
  <2>1. pc'[q].at \in {"wakeup", "zombie"} <=> pc[q].at \in {"wakeup", "zombie"}
    BY <1>1, <1>2, Zenon
  <2> QED BY <1>4, <1>6, <2>1, Zenon DEF TreeStatus
<1>7. status' = [status EXCEPT ![pp] = "free"]
  BY <1>5, <1>6, Zenon DEF status
<1>8. Tree!Reap(p, pp)
  BY <1>1, <1>5, <1>7 DEF Tree!Reap, status
<1> QED BY <1>8 DEF Tree!Next

\* The steps of kfork() before and after that.
LEMMA TreeForkRest ==
  ASSUME IInv, NEW p \in Proc, ForkAlloc(p) \/ ForkStart(p)
  PROVE  UNCHANGED Tree!vars
<1> USE DEF IInv
<1>1. CASE ForkAlloc(p)
  <2>1. PICK np \in Proc :
          /\ state[p] = "RUNNABLE" /\ pc[p].at = "user" /\ parent' = parent
          /\ state[np] = "UNUSED" /\ state' = [state EXCEPT ![np] = "USED"]
          /\ pc' = [pc EXCEPT ![p] = At("fork", np, FALSE), ![np] = User]
    BY <1>1, Zenon DEF ForkAlloc, Calls, Runs
  <2>2. At("fork", np, FALSE).at = "fork" /\ User.at = "user"
    BY DEF At, User
  <2>3. p # np /\ pc'[p].at = "fork" /\ pc'[np].at = "user"
        /\ \A q \in Proc : q # p /\ q # np => pc'[q] = pc[q]
    BY <2>1, <2>2, Zenon DEF TypeOK
  <2>4. parent[np] = None /\ pc[np].at \in {"user", "gone"}
    BY <2>1 DEF ParentInv, PlaceInv
  <2>5. state'[np] = "USED" /\ \A q \in Proc : q # np => state'[q] = state[q]
    BY <2>1 DEF TypeOK
  <2>6. TreeStatus(np)' = TreeStatus(np)
    BY <2>1, <2>3, <2>4, <2>5, Zenon DEF TreeStatus
  <2>7. \A q \in Proc : q # np => TreeStatus(q)' = TreeStatus(q)
    BY <2>1, <2>3, <2>5, TreeSame, Zenon
  <2> QED BY <2>1, <2>6, <2>7, TreeStutter
<1>2. CASE ForkStart(p)
  <2>1. /\ state[p] = "RUNNABLE" /\ pc[p].at = "start" /\ parent' = parent
        /\ Goto(p, At("user", None, FALSE))
    BY <1>2, Zenon DEF ForkStart, Runs, User
  <2>2. PICK np \in Proc : np = pc[p].c /\ state[np] = "USED" /\ np # p /\ parent[np] = p
    BY <2>1, PlaceSlot DEF ForkInv, ForkPlaces, TypeOK
  <2>3. pc'[p].at = "user" /\ \A q \in Proc : q # p => pc'[q] = pc[q]
    BY <2>1, GotoAt, Zenon
  <2>4. state'[np] = "RUNNABLE" /\ \A q \in Proc : q # np => state'[q] = state[q]
    BY <1>2, <2>2 DEF ForkStart, TypeOK
  <2>5. TreeStatus(np)' = TreeStatus(np)
    BY <2>1, <2>2, <2>3, <2>4, InitprocType DEF TreeStatus
  <2>6. \A q \in Proc : q # np => TreeStatus(q)' = TreeStatus(q)
    BY <2>1, <2>3, <2>4, TreeSame
  <2> QED BY <2>1, <2>5, <2>6, TreeStutter
<1> QED BY <1>1, <1>2

\* The steps of kexit() after reparent(), wakeup() and kkill().
LEMMA TreeExitRest ==
  ASSUME IInv, NEW p \in Proc, ExitWakeup(p) \/ ExitZombie(p) \/ WaitSleep(p) \/ Kill(p)
  PROVE  UNCHANGED Tree!vars
<1> USE DEF IInv
<1>1. ASSUME NEW q \in Proc \cup {None}, ~WakeupBlocked(q), state' = Woken(q)
      PROVE  \A r \in Proc :
               state'[r] = state[r] \/ {state[r], state'[r]} \subseteq {"RUNNABLE", "SLEEPING"}
  BY <1>1, WokenFacts
<1>2. CASE ExitWakeup(p)
  <2>1. /\ pc[p].at = "wakeup" /\ parent' = parent /\ Goto(p, At("zombie", None, FALSE))
        /\ ~WakeupBlocked(parent[p]) /\ state' = Woken(parent[p])
    BY <1>2, Zenon DEF ExitWakeup, Runs
  <2>2. pc'[p].at = "zombie" /\ \A q \in Proc : q # p => pc'[q] = pc[q]
    BY <2>1, GotoAt, Zenon
  <2>3. parent[p] \in Proc \cup {None}
    BY DEF TypeOK
  <2>4. \A r \in Proc :
          state'[r] = state[r] \/ {state[r], state'[r]} \subseteq {"RUNNABLE", "SLEEPING"}
    BY <1>1, <2>1, <2>3, Zenon
  <2> QED BY <2>1, <2>2, <2>4, TreeSame, TreeStutter
<1>3. CASE Kill(p)
  <2>1. PICK q \in Proc : ~held[q] /\ state' = Woken(q) /\ UNCHANGED <<pc, parent>>
    BY <1>3 DEF Kill
  <2>2. \A r \in Proc :
          state'[r] = state[r] \/ {state[r], state'[r]} \subseteq {"RUNNABLE", "SLEEPING"}
    BY <1>1, <2>1 DEF WakeupBlocked
  <2> QED BY <2>1, <2>2, TreeSame, TreeStutter
<1>4. CASE WaitSleep(p)
  <2>1. /\ pc[p].at = "sleep" /\ parent' = parent /\ Goto(p, At("asleep", None, FALSE))
        /\ state[p] = "RUNNABLE" /\ state' = [state EXCEPT ![p] = "SLEEPING"]
    BY <1>4, Zenon DEF WaitSleep, Runs
  <2>2. pc'[p].at = "asleep" /\ \A q \in Proc : q # p => pc'[q] = pc[q]
    BY <2>1, GotoAt, Zenon
  <2>3. state'[p] = "SLEEPING" /\ \A q \in Proc : q # p => state'[q] = state[q]
    BY <2>1 DEF TypeOK
  <2> QED BY <2>1, <2>2, <2>3, TreeSame, TreeStutter
<1>5. CASE ExitZombie(p)
  <2>1. /\ pc[p].at = "zombie" /\ parent' = parent /\ Goto(p, At("gone", None, FALSE))
        /\ state' = [state EXCEPT ![p] = "ZOMBIE"]
    BY <1>5, Zenon DEF ExitZombie, Runs
  <2>2. pc'[p].at = "gone" /\ \A q \in Proc : q # p => pc'[q] = pc[q]
    BY <2>1, GotoAt, Zenon
  <2>3. state'[p] = "ZOMBIE" /\ \A q \in Proc : q # p => state'[q] = state[q]
    BY <2>1 DEF TypeOK
  <2>4. TreeStatus(p)' = TreeStatus(p)
    BY <2>1, <2>3 DEF TreeStatus
  <2>5. \A q \in Proc : q # p => TreeStatus(q)' = TreeStatus(q)
    BY <2>1, <2>2, <2>3, TreeSame
  <2> QED BY <2>1, <2>4, <2>5, TreeStutter
<1> QED BY <1>2, <1>3, <1>4, <1>5

\* The steps that change nothing but locks, marks and places.
LEMMA TreeQuiet ==
  ASSUME IInv, NEW p \in Proc,
         \/ Exit(p) \/ WaitBegin(p) \/ WaitFault(p) \/ WaitPass(p) \/ WaitNone(p)
         \/ WaitDecide(p) \/ GetppidCheck(p) \/ GetppidRead(p) \/ Swtch(p) \/ ForkFail(p)
  PROVE  UNCHANGED Tree!vars
<1> USE DEF IInv
<1>1. ASSUME UNCHANGED <<state, parent, pc>>
      PROVE  UNCHANGED Tree!vars
  BY <1>1, TreeSame, TreeStutter, Zenon
<1>2. ASSUME NEW a \in QuietPlaces, NEW c, NEW k, Goto(p, At(a, c, k)),
             pc[p].at \in QuietPlaces, UNCHANGED <<state, parent>>
      PROVE  UNCHANGED Tree!vars
  <2>1. pc'[p].at = a /\ \A q \in Proc : q # p => pc'[q] = pc[q]
    BY <1>2, GotoAt, Zenon
  <2>2. \A q \in Proc : pc'[q].at \in {"wakeup", "zombie"} <=> pc[q].at \in {"wakeup", "zombie"}
    BY <1>2, <2>1, Zenon DEF QuietPlaces
  <2> QED BY <1>2, <2>2, TreeSame, TreeStutter, Zenon
<1>3. CASE Exit(p)
  <2>1. CASE p = Initproc
    BY <1>1, <1>3, <2>1 DEF Exit
  <2>2. CASE p # Initproc
    BY <1>2, <1>3, <2>2, Zenon DEF Exit, Runs, QuietPlaces
  <2> QED BY <2>1, <2>2
<1>4. CASE WaitBegin(p)
  <2>1. pc[p].at \in QuietPlaces
    BY <1>4 DEF WaitBegin, Calls, Runs, QuietPlaces
  <2> QED BY <1>2, <1>4, <2>1, Zenon DEF WaitBegin, QuietPlaces
<1>5. CASE WaitFault(p)
  BY <1>2, <1>5, Zenon DEF WaitFault, Scans, Runs, User, QuietPlaces
<1>6. CASE WaitPass(p)
  BY <1>2, <1>6, Zenon DEF WaitPass, Scans, Runs, QuietPlaces
<1>7. CASE WaitNone(p)
  BY <1>2, <1>7, Zenon DEF WaitNone, Runs, User, QuietPlaces
<1>8. CASE WaitDecide(p)
  BY <1>2, <1>8, Zenon DEF WaitDecide, Runs, QuietPlaces
<1>9. CASE GetppidCheck(p)
  BY <1>2, <1>9, Zenon DEF GetppidCheck, Calls, Runs, QuietPlaces
<1>10. CASE GetppidRead(p)
  BY <1>2, <1>10, Zenon DEF GetppidRead, Runs, User, QuietPlaces
<1>11. CASE Swtch(p)
  BY <1>1, <1>11 DEF Swtch
<1>12. CASE ForkFail(p)
  BY <1>1, <1>12 DEF ForkFail
<1> QED BY <1>3, <1>4, <1>5, <1>6, <1>7, <1>8, <1>9, <1>10, <1>11, <1>12

\* Every step is one of the tree, or one that it does not see.
LEMMA TreeStep == IInv /\ [Next]_vars => [Tree!Next]_(Tree!vars)
<1> SUFFICES ASSUME IInv, [Next]_vars PROVE Tree!Next \/ UNCHANGED Tree!vars
  OBVIOUS
<1>1. CASE UNCHANGED vars
  BY <1>1 DEF vars, status, TreeStatus, Tree!vars
<1>2. ASSUME NEW p \in Proc, Kernel(p)
      PROVE  Tree!Next \/ UNCHANGED Tree!vars
  BY <1>2, TreeFork, TreeExit, TreeReap, TreeForkRest, TreeExitRest, TreeQuiet, Zenon DEF Kernel
<1>3. CASE Next
  BY <1>2, <1>3, TreeForkRest, TreeExitRest, TreeQuiet DEF Next
<1> QED BY <1>1, <1>3

\* fork(), exit() and wait(), with the locks and the steps in between, are the atomic
\* operations of a tree of processes rooted at init, for every size of the table.
THEOREM TreeRefinement == Spec => ImplementsTree
BY Invariant, TreeInit, TreeStep, PTL DEF Spec, ImplementsTree, Tree!Spec
=============================================================================
