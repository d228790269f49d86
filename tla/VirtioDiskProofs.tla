-------------------------- MODULE VirtioDiskProofs ---------------------------
(***************************************************************************)
(* What is proved of VirtioDisk, for any number of processes and           *)
(* descriptors, and any range of the ring indices that NUM divides.        *)
(***************************************************************************)
EXTENDS VirtioRingProofs

-----------------------------------------------------------------------------
(* Descriptors change hands *)

\* The chains of requests that a step does not touch.
LEMMA ChainKept ==
  ASSUME IInv, NEW q \in Active, pc'[q] = pc[q],
         \A n \in Chain(pc[q].i) : desc'[n] = desc[n],
         ops'[pc[q].i] = ops[pc[q].i], info'[pc[q].i] = info[pc[q].i]
  PROVE  /\ Second(q)' = Second(q) /\ Third(q)' = Third(q)
         /\ Chain(pc[q].i) = {pc[q].i, Second(q), Third(q)}
         /\ Chain(pc[q].i)' = Chain(pc[q].i)
         /\ Chain(pc[q].i) \subseteq Desc \ free
         /\ Chain(pc[q].i) \cap free' = {} =>
              /\ {pc[q].i, Second(q), Third(q)}' \subseteq Desc \ free'
              /\ (pc[q].i # Second(q) /\ pc[q].i # Third(q) /\ Second(q) # Third(q))'
              /\ (desc[pc[q].i].addr = pc[q].i /\ desc[Second(q)].addr = q)'
              /\ (desc[Third(q)].addr = pc[q].i /\ info[pc[q].i].b = q)'
              /\ (ops[pc[q].i].type = pc[q].op /\ ops[pc[q].i].sector = q)'
<1>1. Chain(pc[q].i) = {pc[q].i, Second(q), Third(q)}
  BY Zenon DEF Chain, Second, Third
<1>2. /\ desc'[pc[q].i] = desc[pc[q].i] /\ desc'[Second(q)] = desc[Second(q)]
      /\ desc'[Third(q)] = desc[Third(q)]
  BY <1>1, Zenon
<1>3. Second(q)' = Second(q)
  BY <1>2, Zenon DEF Second
<1>4. Third(q)' = Third(q)
  BY <1>2, <1>3, Zenon DEF Third
<1>5. Chain(pc[q].i)' = Chain(pc[q].i)
  <2>1. Chain(pc[q].i)' = {pc[q].i, Second(q), Third(q)}'
    BY DEF Chain, Second, Third
  <2> QED BY <1>1, <1>3, <1>4, <2>1, Zenon
<1>6. /\ {pc[q].i, Second(q), Third(q)} \subseteq Desc \ free
      /\ pc[q].i # Second(q) /\ pc[q].i # Third(q) /\ Second(q) # Third(q)
      /\ desc[pc[q].i].addr = pc[q].i /\ desc[Second(q)].addr = q /\ desc[Third(q)].addr = pc[q].i
      /\ ops[pc[q].i].type = pc[q].op /\ ops[pc[q].i].sector = q
      /\ info[pc[q].i].b = q
  BY Zenon DEF IInv, DriverInv, ChainInv
<1> QED BY <1>1, <1>2, <1>3, <1>4, <1>5, <1>6

\* The requests that the device knows of, if the step is about none of them.
LEMMA HeadsKept ==
  ASSUME Served' = Served,
         \A q \in Served : pc'[q].i = pc[q].i /\ info'[pc[q].i].status = info[pc[q].i].status
  PROVE  Heads' = Heads /\ Pending' = Pending /\ Finished' = Finished
<1>1. Heads' = Heads
  BY Zenon DEF Heads
<1>2. \A n \in Heads : info'[n].status = info[n].status
  BY Zenon DEF Heads
<1> QED BY <1>1, <1>2 DEF Pending, Finished

\* Three entries of a table are written.
LEMMA ThreeWrites ==
  ASSUME NEW S, NEW T, NEW f \in [S -> T], NEW i \in S, NEW j \in S, NEW k \in S,
         i # j, i # k, j # k, NEW x \in T, NEW y \in T, NEW z \in T,
         NEW g, g = [f EXCEPT ![i] = x, ![j] = y, ![k] = z]
  PROVE  /\ g \in [S -> T] /\ g[i] = x /\ g[j] = y /\ g[k] = z
         /\ \A n \in S : n \notin {i, j, k} => g[n] = f[n]
BY Zenon

\* A request is formatted.
LEMMA RwFormatStep == ASSUME IInv, NEW p \in Proc, RwFormat(p) PROVE IInv'
<1>1. free \subseteq Desc /\ Cardinality(free) >= 3
  BY Zenon DEF IInv, TypeOK, RwFormat
<1>2. PICK i, j, k \in free : alloc3_desc = <<i, j, k>> /\ i # j /\ i # k /\ j # k
  BY <1>1, AllocFacts, Zenon
<1>3. /\ lock = None /\ pc[p].at \in {"enter", "nodesc"}
      /\ lock' = p /\ free' = free \ {i, j, k}
      /\ ops' = [ops EXCEPT ![i] = [type |-> pc[p].op, sector |-> p]]
      /\ desc' = [desc EXCEPT ![i] = [addr |-> i, next |-> j],
                              ![j] = [addr |-> p, next |-> k],
                              ![k] = [addr |-> i, next |-> None]]
      /\ info' = [info EXCEPT ![i] = [b |-> p, status |-> 255]]
      /\ busy' = busy \cup {p}
      /\ avail' = [avail EXCEPT ![aidx % NUM] = i]
      /\ Goto(p, At("ring", pc[p].op, i))
      /\ UNCHANGED <<asleep, used_idx, data, aidx, deviceVars>>
  BY <1>2, Zenon DEF RwFormat, Tries
<1>4. i \in Desc /\ j \in Desc /\ k \in Desc
  BY <1>1, Zenon
<1>5. /\ pc' \in [Proc -> Places] /\ pc'[p].at = "ring" /\ pc'[p].op = pc[p].op /\ pc'[p].i = i
      /\ \A q \in Proc : q # p => pc'[q] = pc[q]
  <2>1. pc[p].op \in {"read", "write"}
    BY <1>3, PlaceFacts DEF IInv, TypeOK
  <2>2. PICK x \in Places : x = At("ring", pc[p].op, i)
    BY <1>4, <2>1, PlaceTypes, Zenon
  <2>3. x.at = "ring" /\ x.op = pc[p].op /\ x.i = i
    BY <2>2, AtFacts
  <2>4. Goto(p, x)
    BY <1>3, <2>2, Zenon
  <2> QED BY <2>3, <2>4, GotoFacts, Zenon DEF IInv
<1>6. /\ desc' \in [Desc -> [addr : Desc \cup Proc \cup {None}, next : Desc \cup {None}]]
      /\ desc'[i] = [addr |-> i, next |-> j] /\ desc'[j] = [addr |-> p, next |-> k]
      /\ desc'[k] = [addr |-> i, next |-> None]
      /\ \A n \in Desc : n \notin {i, j, k} => desc'[n] = desc[n]
  <2>1. PICK D : D = [addr : Desc \cup Proc \cup {None}, next : Desc \cup {None}]
    BY Zenon
  <2>2. desc \in [Desc -> D]
    BY <2>1, Zenon DEF IInv, TypeOK
  <2>3. PICK x \in D : x = [addr |-> i, next |-> j]
    BY <1>4, <2>1, Zenon
  <2>4. PICK y \in D : y = [addr |-> p, next |-> k]
    BY <1>4, <2>1, Zenon
  <2>5. PICK z \in D : z = [addr |-> i, next |-> None]
    BY <1>4, <2>1, Zenon
  <2>6. desc' = [desc EXCEPT ![i] = x, ![j] = y, ![k] = z]
    BY <1>3, <2>3, <2>4, <2>5, Zenon
  <2>7. /\ desc' \in [Desc -> D] /\ desc'[i] = x /\ desc'[j] = y /\ desc'[k] = z
        /\ \A n \in Desc : n \notin {i, j, k} => desc'[n] = desc[n]
    BY <1>2, <1>4, <2>2, <2>6, ThreeWrites, Zenon
  <2> QED BY <2>1, <2>3, <2>4, <2>5, <2>7, Zenon
<1>7. /\ ops' \in [Desc -> [type : {"read", "write", None}, sector : Proc \cup {None}]]
      /\ ops'[i].type = pc[p].op /\ ops'[i].sector = p /\ \A n \in Desc : n # i => ops'[n] = ops[n]
  <2>1. pc[p].op \in {"read", "write"}
    BY <1>3, PlaceFacts, Zenon DEF IInv, TypeOK
  <2> QED BY <1>3, <1>4, <2>1 DEF IInv, TypeOK
<1>8. /\ info' \in [Desc -> [b : Proc \cup {None}, status : {0, 255}]]
      /\ info'[i].b = p /\ info'[i].status = 255 /\ \A n \in Desc : n # i => info'[n] = info[n]
  BY <1>3, <1>4 DEF IInv, TypeOK
<1>9. /\ avail \in [Ring -> Desc] /\ avail' \in [Ring -> Desc] /\ avail'[aidx % NUM] = i
      /\ \A s \in Ring : s # aidx % NUM => avail'[s] = avail[s]
  <2>1. avail \in [Ring -> Desc]
    BY DEF IInv, TypeOK
  <2>2. aidx % NUM \in Ring
    BY CountFacts, RoomFacts, SlotFacts, Zenon
  <2> QED BY <1>3, <1>4, <2>1, <2>2, RingWrite, Zenon
<1>10. /\ asleep' = asleep /\ used_idx' = used_idx /\ data' = data /\ aidx' = aidx
       /\ used' = used /\ uidx' = uidx /\ irq' = irq /\ taken' = taken
       /\ inflight' = inflight /\ store' = store
  BY <1>3, Zenon DEF deviceVars
<1>11. TypeOK'
  <2>1. /\ free' \subseteq Desc /\ lock' \in Proc \cup {Handler, None}
        /\ asleep' \subseteq Proc /\ busy' \subseteq Proc
    BY <1>3, <1>10 DEF IInv, TypeOK
  <2>2. /\ used_idx' \in 0 .. WRAP - 1 /\ aidx' \in 0 .. WRAP - 1 /\ uidx' \in 0 .. WRAP - 1
        /\ taken' \in 0 .. WRAP - 1 /\ data' \in [Proc -> Val \cup {None}]
        /\ store' \in [Proc -> Val] /\ used' \in [Ring -> Desc] /\ irq' \in BOOLEAN
        /\ inflight' \subseteq Desc
    BY <1>10, Zenon DEF IInv, TypeOK
  <2> QED BY <1>5, <1>6, <1>7, <1>8, <1>9, <2>1, <2>2, Zenon DEF TypeOK
<1>12. /\ Active' = Active \cup {p} /\ p \notin Active
       /\ \A q \in Active : q \in Proc /\ q # p /\ pc'[q] = pc[q]
  BY <1>3, <1>5, Zenon DEF Active, InRing
<1>13. ASSUME NEW q \in Active
       PROVE  /\ Chain(pc[q].i) \subseteq Desc \ free /\ pc[q].i \in Chain(pc[q].i)
              /\ pc'[q] = pc[q] /\ \A n \in Chain(pc[q].i) : desc'[n] = desc[n]
              /\ ops'[pc[q].i] = ops[pc[q].i] /\ info'[pc[q].i] = info[pc[q].i]
              /\ Chain(pc[q].i) \cap free' = {}
  <2>1. Chain(pc[q].i) \subseteq Desc \ free /\ pc[q].i \in Chain(pc[q].i)
    BY Zenon DEF IInv, DriverInv, ChainInv, Chain, Second, Third
  <2> QED BY <1>2, <1>3, <1>6, <1>7, <1>8, <1>12, <2>1
<1>14. /\ pc'[p].i = i /\ Second(p)' = j /\ Third(p)' = k /\ Chain(pc[p].i)' = {i, j, k}
  <2>1. Second(p)' = j
    BY <1>5, <1>6 DEF Second
  <2>2. Third(p)' = k
    BY <1>6, <2>1 DEF Third
  <2>3. Chain(pc[p].i)' = {pc[p].i, Second(p), Third(p)}'
    BY Zenon DEF Chain, Second, Third
  <2> QED BY <1>5, <2>1, <2>2, <2>3, Zenon
<1>15. LockInv'
  <2>1. \A q \in Proc : pc[q].at # "ring"
    BY <1>3, VirtioAssumption, Zenon DEF IInv, DriverInv, LockInv
  <2>2. \A q \in Proc : q # p => pc'[q].at # "ring" /\ lock' # q
    BY <1>3, <1>5, <2>1
  <2> QED BY <1>3, <1>5, <2>2 DEF LockInv
<1>16. ChainInv'
  <2>1. ASSUME NEW q \in Active
        PROVE  /\ {pc[q].i, Second(q), Third(q)}' \subseteq Desc \ free'
               /\ (pc[q].i # Second(q) /\ pc[q].i # Third(q) /\ Second(q) # Third(q))'
               /\ (desc[pc[q].i].addr = pc[q].i /\ desc[Second(q)].addr = q)'
               /\ (desc[Third(q)].addr = pc[q].i /\ info[pc[q].i].b = q)'
               /\ (ops[pc[q].i].type = pc[q].op /\ ops[pc[q].i].sector = q)'
    BY <1>13, ChainKept, Zenon
  <2>2. /\ {pc[p].i, Second(p), Third(p)}' \subseteq Desc \ free'
        /\ (pc[p].i # Second(p) /\ pc[p].i # Third(p) /\ Second(p) # Third(p))'
    BY <1>2, <1>3, <1>4, <1>14, Zenon
  <2>3. /\ (desc[pc[p].i].addr = pc[p].i /\ desc[Second(p)].addr = p)'
        /\ (desc[Third(p)].addr = pc[p].i /\ info[pc[p].i].b = p)'
        /\ (ops[pc[p].i].type = pc[p].op /\ ops[pc[p].i].sector = p)'
    BY <1>5, <1>6, <1>7, <1>8, <1>14
  <2>4. ASSUME NEW q \in Active'
        PROVE  /\ {pc[q].i, Second(q), Third(q)}' \subseteq Desc \ free'
               /\ (pc[q].i # Second(q) /\ pc[q].i # Third(q) /\ Second(q) # Third(q))'
               /\ (desc[pc[q].i].addr = pc[q].i /\ desc[Second(q)].addr = q)'
               /\ (desc[Third(q)].addr = pc[q].i /\ info[pc[q].i].b = q)'
               /\ (ops[pc[q].i].type = pc[q].op /\ ops[pc[q].i].sector = q)'
    <3>1. CASE q = p
      BY <2>2, <2>3, <3>1, Zenon
    <3>2. CASE q \in Active
      BY <2>1, <3>2, Zenon
    <3> QED BY <1>12, <3>1, <3>2
  <2> QED BY <2>4, Zenon DEF ChainInv
<1>17. ApartInv'
  <2>1. \A q \in Active : Chain(pc[q].i)' = Chain(pc[q].i) /\ Chain(pc[q].i) \subseteq Desc \ free
    BY <1>13, ChainKept, Zenon
  <2>2. \A q \in Active : Chain(pc[q].i)' \cap Chain(pc[p].i)' = {}
    BY <1>14, <2>1
  <2>3. \A q, r \in Active : q # r => Chain(pc[q].i)' \cap Chain(pc[r].i)' = {}
    BY <2>1, Zenon DEF IInv, DriverInv, ApartInv
  <2>4. ASSUME NEW q \in Active', NEW r \in Active', q # r
        PROVE  Chain(pc[q].i)' \cap Chain(pc[r].i)' = {}
    <3>1. CASE q = p
      BY <1>12, <2>2, <2>4, <3>1
    <3>2. CASE r = p
      BY <1>12, <2>2, <2>4, <3>2, Zenon
    <3>3. CASE q # p /\ r # p
      BY <1>12, <2>3, <2>4, <3>3
    <3> QED BY <3>1, <3>2, <3>3, Zenon
  <2> QED BY <2>4, Zenon DEF ApartInv
<1>18. Cardinality(free') = Cardinality(free) - 3 /\ Cardinality(free) \in Nat
  <2>1. IsFiniteSet(free) /\ Cardinality(free) \in Nat
    BY CountFacts, Zenon
  <2>2. Cardinality(free \ {i, j, k}) = Cardinality(free) - 3
    BY <1>2, <2>1, ThreeLess, Zenon
  <2> QED BY <1>3, <2>1, <2>2, Zenon
<1>19. FreeInv'
  <2>1. Cardinality(Active') = Cardinality(Active) + 1
    BY <1>12, CountFacts, FS_AddElement, Zenon
  <2> QED BY <1>18, <2>1, CountFacts DEF IInv, DriverInv, FreeInv
<1>20. SleepInv' /\ WriteInv'
  <2>1. WaitingForDesc' \subseteq WaitingForDesc
    BY <1>5, <1>10, Zenon DEF WaitingForDesc, IInv, TypeOK
  <2>2. SleepInv'
    BY <1>18, <2>1 DEF SleepInv, IInv, DriverInv
  <2>3. \A q \in Proc : pc'[q].at # "idle" => pc[q].at # "idle" /\ pc'[q].op = pc[q].op
    BY <1>3, <1>5, Zenon
  <2>4. WriteInv'
    BY <1>10, <2>3, Zenon DEF WriteInv, IInv, DriverInv
  <2> QED BY <2>2, <2>4, Zenon
<1>21. Served' = Served /\ \A q \in Served : q \in Active
  BY <1>3, <1>5 DEF Served, IInv, RingInv, BusyInv, TypeOK
<1>22. \A q \in Served : pc'[q].i = pc[q].i /\ info'[pc[q].i].status = info[pc[q].i].status
  BY <1>13, <1>21, Zenon
<1>23. Pending' = Pending /\ Finished' = Finished
  BY <1>21, <1>22, HeadsKept, Zenon
<1>24. BusyInv'
  <2>1. busy' \subseteq Active'
    BY <1>3, <1>12 DEF IInv, RingInv, BusyInv
  <2>2. ASSUME NEW q \in Active', q \notin busy'
        PROVE  pc'[q].at = "wait" /\ info'[pc'[q].i].status = 0
    <3>1. q \in Active /\ q \notin busy
      BY <1>3, <1>12, <2>2, Zenon
    <3>2. pc[q].at = "wait" /\ info[pc[q].i].status = 0
      BY <3>1, Zenon DEF IInv, RingInv, BusyInv
    <3>3. pc'[q] = pc[q] /\ info'[pc[q].i] = info[pc[q].i]
      BY <1>13, <3>1, Zenon
    <3> QED BY <3>2, <3>3, Zenon
  <2>3. ASSUME NEW q \in Proc, pc'[q].at = "ring"
        PROVE  avail'[aidx' % NUM] = pc'[q].i /\ info'[pc'[q].i].status = 255
    <3>1. q = p
      BY <1>3, <1>5, <1>15, <2>3, Zenon DEF LockInv
    <3> QED BY <1>5, <1>8, <1>9, <1>10, <3>1, Zenon
  <2> QED BY <2>1, <2>2, <2>3, Zenon DEF BusyInv
<1>25. AvailInv' /\ InflightInv' /\ UsedInv' /\ RoomInv'
  <2>1. /\ Window(avail', taken, aidx) = Window(avail, taken, aidx)
        /\ Distinct(avail, taken, aidx) => Distinct(avail', taken, aidx)
    BY <1>9, CountFacts, RoomFacts, WindowSame, Zenon
  <2>2. AvailInv'
    BY <1>10, <1>23, <2>1 DEF IInv, RingInv, AvailInv
  <2>3. InflightInv'
    BY <1>10, <1>23, Zenon DEF IInv, RingInv, InflightInv
  <2>4. UsedInv'
    BY <1>10, <1>23, Zenon DEF IInv, RingInv, UsedInv
  <2>5. RoomInv'
    BY <1>10, <1>21, Zenon DEF IInv, RingInv, RoomInv
  <2> QED BY <2>2, <2>3, <2>4, <2>5
<1> QED
  BY <1>11, <1>15, <1>16, <1>17, <1>19, <1>20, <1>24, <1>25, Zenon DEF IInv, DriverInv, RingInv

\* A buffer is forgotten.
LEMMA InfoWrite ==
  ASSUME NEW B, NEW R, NEW f \in [Desc -> [b : B, status : R]], NEW i \in Desc, NEW x \in B,
         NEW g, g = [f EXCEPT ![i].b = x]
  PROVE  /\ g \in [Desc -> [b : B, status : R]]
         /\ \A n \in Desc : n # i => g[n] = f[n]
<1>1. PICK y : y = [f[i] EXCEPT !.b = x]
  BY Zenon
<1>2. y \in [b : B, status : R]
  BY <1>1, Zenon
<1>3. g = [f EXCEPT ![i] = y]
  BY <1>1, Zenon
<1> QED BY <1>2, <1>3, Zenon

\* A call returns.
LEMMA RwDoneStep == ASSUME IInv, NEW p \in Proc, RwDone(p) PROVE IInv'
<1>1. /\ lock = None /\ pc[p].at = "wait" /\ p \notin busy /\ p \in Active
      /\ info' = [info EXCEPT ![pc[p].i].b = None]
      /\ free' = free \cup Chain(pc[p].i)
      /\ desc' = [n \in Desc |-> IF n \in Chain(pc[p].i) THEN NoDesc ELSE desc[n]]
      /\ asleep' = asleep \ WaitingForDesc
      /\ ops' = [ops EXCEPT ![pc[p].i] = NoRequest]
      /\ data' = [data EXCEPT ![p] = None]
      /\ Goto(p, Idle)
      /\ UNCHANGED <<lock, used_idx, busy, avail, aidx, deviceVars>>
  BY Zenon DEF RwDone, Wakes, Active, InRing
<1>2. PICK i, j, k \in Desc \ free :
        /\ i = pc[p].i /\ i # j /\ i # k /\ j # k /\ Chain(pc[p].i) = {i, j, k}
  <2>1. Chain(pc[p].i) = {pc[p].i, Second(p), Third(p)}
    BY Zenon DEF Chain, Second, Third
  <2>2. /\ {pc[p].i, Second(p), Third(p)} \subseteq Desc \ free
        /\ pc[p].i # Second(p) /\ pc[p].i # Third(p) /\ Second(p) # Third(p)
    BY <1>1, Zenon DEF IInv, DriverInv, ChainInv
  <2> QED BY <2>1, <2>2, Zenon
<1>3. /\ pc' \in [Proc -> Places] /\ pc'[p].at = "idle"
      /\ \A q \in Proc : q # p => pc'[q] = pc[q]
  <2>1. Idle \in Places
    BY PlaceTypes, Zenon
  <2>2. Idle.at = "idle"
    BY AtFacts DEF Idle
  <2> QED BY <1>1, <2>1, <2>2, GotoFacts, Zenon DEF IInv
<1>4. /\ desc' \in [Desc -> [addr : Desc \cup Proc \cup {None}, next : Desc \cup {None}]]
      /\ \A n \in Desc : n \notin {i, j, k} => desc'[n] = desc[n]
  <2>1. PICK D : D = [addr : Desc \cup Proc \cup {None}, next : Desc \cup {None}]
    BY Zenon
  <2>2. desc \in [Desc -> D]
    BY <2>1, Zenon DEF IInv, TypeOK
  <2>3. NoDesc \in D
    BY <2>1, Zenon DEF NoDesc
  <2>4. desc' \in [Desc -> D] /\ \A n \in Desc : n \notin {i, j, k} => desc'[n] = desc[n]
    BY <1>1, <1>2, <2>2, <2>3, Zenon
  <2> QED BY <2>1, <2>4, Zenon
<1>5. /\ ops' \in [Desc -> [type : {"read", "write", None}, sector : Proc \cup {None}]]
      /\ \A n \in Desc : n # i => ops'[n] = ops[n]
  BY <1>1, <1>2 DEF IInv, TypeOK, NoRequest
<1>6. /\ info' \in [Desc -> [b : Proc \cup {None}, status : {0, 255}]]
      /\ \A n \in Desc : n # i => info'[n] = info[n]
  <2>1. i \in Desc /\ info' = [info EXCEPT ![i].b = None]
    BY <1>1, <1>2, Zenon
  <2>2. PICK B, R : B = Proc \cup {None} /\ R = {0, 255}
    BY Zenon
  <2>3. info \in [Desc -> [b : B, status : R]] /\ None \in B
    BY <2>2, Zenon DEF IInv, TypeOK
  <2>4. info' \in [Desc -> [b : B, status : R]] /\ \A n \in Desc : n # i => info'[n] = info[n]
    BY <2>1, <2>3, InfoWrite, Zenon
  <2> QED BY <2>2, <2>4, Zenon
<1>7. /\ data' \in [Proc -> Val \cup {None}] /\ \A q \in Proc : q # p => data'[q] = data[q]
  BY <1>1 DEF IInv, TypeOK
<1>8. /\ lock' = lock /\ used_idx' = used_idx /\ busy' = busy /\ avail' = avail /\ aidx' = aidx
      /\ used' = used /\ uidx' = uidx /\ irq' = irq /\ taken' = taken
      /\ inflight' = inflight /\ store' = store
  BY <1>1, Zenon DEF deviceVars
<1>9. TypeOK'
  <2>1. free' \subseteq Desc /\ asleep' \subseteq Proc
    BY <1>1, <1>2 DEF IInv, TypeOK
  <2>2. /\ lock' \in Proc \cup {Handler, None} /\ busy' \subseteq Proc
        /\ used_idx' \in 0 .. WRAP - 1 /\ aidx' \in 0 .. WRAP - 1 /\ uidx' \in 0 .. WRAP - 1
        /\ taken' \in 0 .. WRAP - 1 /\ store' \in [Proc -> Val]
        /\ avail' \in [Ring -> Desc] /\ used' \in [Ring -> Desc] /\ irq' \in BOOLEAN
        /\ inflight' \subseteq Desc
    BY <1>8, Zenon DEF IInv, TypeOK
  <2> QED BY <1>3, <1>4, <1>5, <1>6, <1>7, <2>1, <2>2, Zenon DEF TypeOK
<1>10. Active' = Active \ {p} /\ \A q \in Active' : q \in Active /\ q # p /\ q \in Proc
  BY <1>3, Zenon DEF Active, InRing
<1>11. ASSUME NEW q \in Active'
       PROVE  /\ q \in Active /\ pc[q].i \in Chain(pc[q].i) /\ pc'[q] = pc[q]
              /\ \A n \in Chain(pc[q].i) : desc'[n] = desc[n]
              /\ ops'[pc[q].i] = ops[pc[q].i] /\ info'[pc[q].i] = info[pc[q].i]
              /\ Chain(pc[q].i) \cap free' = {}
  <2>1. q \in Active /\ q # p /\ q \in Proc
    BY <1>10, Zenon
  <2>2. Chain(pc[q].i) \subseteq Desc \ free /\ pc[q].i \in Chain(pc[q].i)
    BY <2>1, Zenon DEF IInv, DriverInv, ChainInv, Chain, Second, Third
  <2>3. Chain(pc[q].i) \cap Chain(pc[p].i) = {}
    BY <1>1, <2>1, Zenon DEF IInv, DriverInv, ApartInv
  <2>4. \A n \in Chain(pc[q].i) : n \in Desc /\ n \notin {i, j, k} /\ n # i /\ n \notin free'
    BY <1>1, <1>2, <2>2, <2>3, Zenon
  <2> QED BY <1>3, <1>4, <1>5, <1>6, <2>1, <2>2, <2>4
<1>12. LockInv'
  BY <1>1, <1>3, <1>8, Zenon DEF IInv, DriverInv, LockInv
<1>13. ChainInv'
  <2>1. ASSUME NEW q \in Active'
        PROVE  /\ {pc[q].i, Second(q), Third(q)}' \subseteq Desc \ free'
               /\ (pc[q].i # Second(q) /\ pc[q].i # Third(q) /\ Second(q) # Third(q))'
               /\ (desc[pc[q].i].addr = pc[q].i /\ desc[Second(q)].addr = q)'
               /\ (desc[Third(q)].addr = pc[q].i /\ info[pc[q].i].b = q)'
               /\ (ops[pc[q].i].type = pc[q].op /\ ops[pc[q].i].sector = q)'
    BY <1>11, ChainKept, Zenon
  <2> QED BY <2>1, Zenon DEF ChainInv
<1>14. ApartInv'
  <2>1. \A q \in Active' : q \in Active /\ Chain(pc[q].i)' = Chain(pc[q].i)
    BY <1>11, ChainKept, Zenon
  <2>2. ASSUME NEW q \in Active', NEW r \in Active', q # r
        PROVE  Chain(pc[q].i)' \cap Chain(pc[r].i)' = {}
    BY <2>1, <2>2, Zenon DEF IInv, DriverInv, ApartInv
  <2> QED BY <2>2, Zenon DEF ApartInv
<1>15. FreeInv'
  <2>1. Cardinality(free') = Cardinality(free) + 3
    BY <1>1, <1>2, CountFacts, ThreeMore
  <2>2. Cardinality(Active') = Cardinality(Active) - 1
    BY <1>1, <1>10, CountFacts, FS_RemoveElement, Zenon
  <2> QED BY <2>1, <2>2, CountFacts DEF IInv, DriverInv, FreeInv
<1>16. SleepInv' /\ WriteInv'
  <2>1. WaitingForDesc' = {}
    <3>1. \A q \in asleep' : q \in Proc /\ q \in asleep /\ pc[q].at # "nodesc"
      BY <1>1, Zenon DEF WaitingForDesc, IInv, TypeOK
    <3>2. \A q \in asleep' : pc'[q].at # "nodesc"
      BY <1>3, <3>1
    <3> QED BY <3>2, Zenon DEF WaitingForDesc
  <2>2. WriteInv'
    BY <1>3, <1>7, Zenon DEF WriteInv, IInv, DriverInv
  <2> QED BY <2>1, <2>2, Zenon DEF SleepInv
<1>17. Served' = Served /\ \A q \in Served : q \in Active'
  <2>1. \A q \in busy : q \in Proc /\ q \in Active /\ q # p /\ pc'[q] = pc[q]
    BY <1>1, <1>3 DEF IInv, RingInv, BusyInv, TypeOK
  <2> QED BY <1>8, <1>10, <2>1, Zenon DEF Served
<1>18. \A q \in Served : pc'[q].i = pc[q].i /\ info'[pc[q].i].status = info[pc[q].i].status
  BY <1>11, <1>17, Zenon
<1>19. Pending' = Pending /\ Finished' = Finished
  BY <1>17, <1>18, HeadsKept, Zenon
<1>20. BusyInv'
  <2>1. busy' \subseteq Active'
    BY <1>1, <1>8, <1>10 DEF IInv, RingInv, BusyInv
  <2>2. ASSUME NEW q \in Active', q \notin busy'
        PROVE  pc'[q].at = "wait" /\ info'[pc'[q].i].status = 0
    <3>1. q \in Active /\ q \notin busy /\ pc'[q] = pc[q] /\ info'[pc[q].i] = info[pc[q].i]
      BY <1>8, <1>11, <2>2, Zenon
    <3>2. pc[q].at = "wait" /\ info[pc[q].i].status = 0
      BY <3>1 DEF IInv, RingInv, BusyInv
    <3> QED BY <3>1, <3>2, Zenon
  <2>3. \A q \in Proc : pc'[q].at # "ring"
    BY <1>1, <1>8, <1>12, VirtioAssumption, Zenon DEF LockInv
  <2> QED BY <2>1, <2>2, <2>3, Zenon DEF BusyInv
<1>21. AvailInv' /\ InflightInv' /\ UsedInv'
  BY <1>8, <1>19, Zenon DEF IInv, RingInv, AvailInv, InflightInv, UsedInv
<1>22. RoomInv'
  BY <1>8, <1>17, Zenon DEF IInv, RingInv, RoomInv
<1> QED
  BY <1>9, <1>12, <1>13, <1>14, <1>15, <1>16, <1>20, <1>21, <1>22, Zenon
     DEF IInv, DriverInv, RingInv

-----------------------------------------------------------------------------
(* The invariant *)

\* The driver starts with all descriptors free and the rings empty.
LEMMA InitIInv == Init => IInv
<1> SUFFICES ASSUME Init PROVE IInv
  BY Zenon
<1>1. \A p \in Proc : pc[p].at = "idle" /\ pc[p] \in Places
  <2>1. Idle \in Places /\ Idle.at = "idle"
    BY PlaceTypes, AtFacts DEF Idle
  <2> QED BY <2>1, Zenon DEF Init
<1>2. Active = {} /\ Served = {} /\ Heads = {}
  <2>1. Active = {} /\ Served = {}
    BY <1>1, Zenon DEF Active, InRing, Served, Init
  <2> QED BY <2>1, Zenon DEF Heads
<1>3. 0 \in Index /\ 0 \in Desc
  BY Sizes DEF Index
<1>4. Gap(taken, aidx) = 0 /\ Gap(used_idx, uidx) = 0
  <2>1. Gap(0, 0) = 0
    BY <1>3, GapFacts, Zenon
  <2> QED BY <2>1, Zenon DEF Init
<1>5. TypeOK
  <2>1. /\ free \subseteq Desc /\ lock \in Proc \cup {Handler, None} /\ asleep \subseteq Proc
        /\ busy \subseteq Proc /\ irq \in BOOLEAN /\ inflight \subseteq Desc
        /\ data \in [Proc -> Val \cup {None}] /\ store \in [Proc -> Val]
    BY Zenon DEF Init
  <2>2. /\ used_idx \in 0 .. WRAP - 1 /\ aidx \in 0 .. WRAP - 1 /\ uidx \in 0 .. WRAP - 1
        /\ taken \in 0 .. WRAP - 1 /\ avail \in [Ring -> Desc] /\ used \in [Ring -> Desc]
    BY <1>3, Zenon DEF Init, Index
  <2>3. info \in [Desc -> [b : Proc \cup {None}, status : {0, 255}]]
    BY Zenon DEF Init
  <2>4. desc \in [Desc -> [addr : Desc \cup Proc \cup {None}, next : Desc \cup {None}]]
    BY Zenon DEF Init, NoDesc
  <2>5. ops \in [Desc -> [type : {"read", "write", None}, sector : Proc \cup {None}]]
    BY Zenon DEF Init, NoRequest
  <2>6. pc \in [Proc -> Places]
    BY <1>1, Zenon DEF Init
  <2> QED BY <2>1, <2>2, <2>3, <2>4, <2>5, <2>6, Zenon DEF TypeOK
<1>6. LockInv /\ WriteInv
  BY <1>1, VirtioAssumption, Zenon DEF LockInv, WriteInv, Init
<1>7. ChainInv /\ ApartInv
  BY <1>2, Zenon DEF ChainInv, ApartInv
<1>8. FreeInv
  <2>1. Cardinality(Active) = 0
    BY <1>2, FS_EmptySet, Zenon
  <2>2. Cardinality(0 .. NUM - 1) = NUM
    BY Sizes, FS_Interval
  <2> QED BY <2>1, <2>2, Sizes DEF FreeInv, Init
<1>9. SleepInv
  BY Zenon DEF SleepInv, WaitingForDesc, Init
<1>10. BusyInv
  BY <1>1, <1>2, Zenon DEF BusyInv, Init
<1>11. 0 .. Gap(taken, aidx) - 1 = {} /\ 0 .. Gap(used_idx, uidx) - 1 = {}
  BY <1>4
<1>12. AvailInv /\ UsedInv /\ InflightInv
  BY <1>11, Zenon DEF AvailInv, UsedInv, InflightInv, Window, Distinct, Init
<1>13. RoomInv
  <2>1. Cardinality(inflight) = 0 /\ Cardinality(Served) = 0
    BY <1>2, FS_EmptySet, Zenon DEF Init
  <2> QED BY <1>4, <2>1 DEF RoomInv
<1> QED
  BY <1>5, <1>6, <1>7, <1>8, <1>9, <1>10, <1>12, <1>13, Zenon DEF IInv, DriverInv, RingInv

\* It depends on nothing but the variables.
LEMMA Stutter == ASSUME IInv, UNCHANGED vars PROVE IInv'
<1>1. /\ UNCHANGED <<free, pc, used_idx, busy, info, data, ringVars,
                     used, uidx, taken, inflight, store>>
      /\ asleep' = asleep /\ irq' = irq /\ lock' = lock
  BY Zenon DEF vars, driverVars, ringVars, deviceVars
<1>2. asleep \subseteq Proc /\ irq \in BOOLEAN
  BY Zenon DEF IInv, TypeOK
<1> QED BY <1>1, <1>2, SignalStep, Zenon

\* Every step of a process, of the handler and of the device keeps it.
LEMMA IInvStep == IInv /\ [Next]_vars => IInv'
<1> SUFFICES ASSUME IInv, [Next]_vars PROVE IInv'
  OBVIOUS
<1>1. ASSUME NEW p \in Proc, Call(p) \/ Rw(p) \/ Spurious(p) PROVE IInv'
  <2>1. CASE Call(p)
    BY <2>1, CallStep, Zenon
  <2>2. CASE RwNoDesc(p)
    BY <2>2, RwNoDescStep, Zenon
  <2>3. CASE RwFormat(p)
    BY <2>3, RwFormatStep, Zenon
  <2>4. CASE RwNotify(p)
    BY <2>4, RwNotifyStep, Zenon
  <2>5. CASE RwAgain(p) \/ Spurious(p)
    BY <2>5, SignalSteps, Zenon
  <2>6. CASE RwDone(p)
    BY <2>6, RwDoneStep, Zenon
  <2> QED BY <1>1, <2>1, <2>2, <2>3, <2>4, <2>5, <2>6, Zenon DEF Rw
<1>2. CASE Intr
  <2>1. CASE IntrEntry
    BY <2>1, IntrEntryStep, Zenon
  <2>2. CASE IntrBegin \/ IntrEnd
    BY <2>2, SignalSteps, Zenon
  <2> QED BY <1>2, <2>1, <2>2, Zenon DEF Intr
<1>3. CASE DevTake
  BY <1>3, DevTakeStep, Zenon
<1>4. ASSUME NEW i \in Desc, DevDone(i) PROVE IInv'
  BY <1>4, DevDoneStep, Zenon
<1>5. CASE UNCHANGED vars
  BY <1>5, Stutter, Zenon
<1> QED BY <1>1, <1>2, <1>3, <1>4, <1>5, Zenon DEF Next

\* So it holds in every state.
LEMMA Invariant == Spec => []IInv
BY InitIInv, IInvStep, PTL DEF Spec

\* What the invariant says of the entries of the used ring.
LEMMA UsedFacts == ASSUME IInv PROVE UsedEntries
<1> SUFFICES ASSUME NEW k \in 0 .. ((WRAP + uidx - used_idx) % WRAP) - 1, NEW i,
                    i = used[(used_idx + k) % NUM]
             PROVE  /\ info[i].status = 0 /\ info[i].b \in busy
                    /\ pc[info[i].b].at = "wait" /\ pc[info[i].b].i = i
  BY Zenon DEF UsedEntries
<1>1. i \in Window(used, used_idx, uidx)
  BY Zenon DEF Window, Gap
<1>2. i \in Heads /\ info[i].status = 0
  BY <1>1, Zenon DEF IInv, RingInv, UsedInv, Finished
<1>3. info[i].b \in Served /\ pc[info[i].b].i = i /\ pc[info[i].b].at = "wait"
  BY <1>2, OwnerFacts, Zenon
<1> QED BY <1>2, <1>3, Zenon DEF Served

\* RingsTrue holds in every state: no descriptor is free and in a request, or in two, and
\* none is lost; every entry of the used ring is a request that is done and waited for, so
\* virtio_disk_intr() finds its buffer and never panics on its status; and nobody sleeps
\* for descriptors while three are free.
THEOREM RingsInvariant == Spec => []RingsTrue
<1>1. IInv => RingsTrue
  <2> SUFFICES ASSUME IInv PROVE RingsTrue
    BY Zenon
  <2>1. ASSUME NEW p \in Active
        PROVE  Cardinality(Chain(pc[p].i)) = 3 /\ Chain(pc[p].i) \cap free = {}
    <3>1. Chain(pc[p].i) = {pc[p].i, Second(p), Third(p)}
      BY Zenon DEF Chain, Second, Third
    <3>2. /\ {pc[p].i, Second(p), Third(p)} \subseteq Desc \ free
          /\ pc[p].i # Second(p) /\ pc[p].i # Third(p) /\ Second(p) # Third(p)
      BY Zenon DEF IInv, DriverInv, ChainInv
    <3>3. Cardinality({pc[p].i, Second(p), Third(p)}) = 3
      BY <3>2, ThreeCount, Zenon
    <3> QED BY <3>1, <3>2, <3>3, Zenon
  <2>2. \A i \in inflight : \E p \in Active : pc[p].i = i
    BY RequestFacts, Zenon
  <2>3. DescOwned
    BY <2>1, <2>2, Zenon DEF DescOwned, IInv, DriverInv, ApartInv, FreeInv
  <2>4. SleepJustified
    BY Zenon DEF SleepJustified, IInv, DriverInv, SleepInv
  <2> QED BY <2>3, <2>4, UsedFacts, Zenon DEF RingsTrue, IInv
<1> QED BY <1>1, Invariant, PTL

-----------------------------------------------------------------------------
(* The operations of the disk *)

\* How far a call is, by its place and the status of its request.
LEMMA PhaseFacts ==
  ASSUME IInv, NEW p \in Proc
  PROVE  /\ phase[p] = Phase(p)
         /\ pc[p].at = "idle" => Phase(p) = "idle"
         /\ pc[p].at \in {"enter", "nodesc"} => Phase(p) = pc[p].op
         /\ pc[p].at \in {"ring", "wait"} =>
              Phase(p) = IF info[pc[p].i].status = 0 THEN "done" ELSE pc[p].op
<1>1. phase[p] = Phase(p)
  BY Zenon DEF phase
<1>2. pc[p] = Idle <=> pc[p].at = "idle"
  BY PlaceFacts, Zenon DEF IInv, TypeOK
<1> QED BY <1>1, <1>2, Zenon DEF Phase, InRing

\* A step that changes the place or the request of p changes the phase of p only.
LEMMA PhaseStep ==
  ASSUME NEW p \in Proc,
         \A q \in Proc : q # p => /\ pc'[q] = pc[q]
                                  /\ q \in Active => info'[pc[q].i].status = info[pc[q].i].status
  PROVE  phase' = [phase EXCEPT ![p] = Phase(p)']
<1>1. ASSUME NEW q \in Proc, q # p PROVE Phase(q)' = Phase(q)
  <2>1. /\ pc'[q] = pc[q]
        /\ pc[q].at \in {"ring", "wait"} => info'[pc[q].i].status = info[pc[q].i].status
    BY <1>1, Zenon DEF Active, InRing
  <2> QED BY <2>1, Zenon DEF Phase, InRing
<1>2. phase' = [q \in Proc |-> Phase(q)']
  BY Zenon DEF phase
<1>3. phase = [q \in Proc |-> Phase(q)]
  BY Zenon DEF phase
<1> QED BY <1>1, <1>2, <1>3, Zenon

\* A step that changes no place and no status changes no phase.
LEMMA PhaseSame ==
  ASSUME pc' = pc, info' = info PROVE phase' = phase
BY Zenon DEF phase, Phase, InRing

\* The initial states.
LEMMA InitOps == Init => Ops!Init
<1> SUFFICES ASSUME Init PROVE Ops!Init
  BY Zenon
<1>1. \A p \in Proc : Phase(p) = "idle"
  BY Zenon DEF Init, Phase
<1>2. phase = [p \in Proc |-> "idle"]
  BY <1>1, Zenon DEF phase
<1> QED BY <1>2, Zenon DEF Init, Ops!Init

\* A call begins.
LEMMA CallOps == ASSUME IInv, IInv', NEW p \in Proc, Call(p) PROVE Ops!Call(p)
<1>1. pc[p] = Idle /\ pc[p].at = "idle" /\ info' = info /\ store' = store
  <2>1. Idle.at = "idle"
    BY AtFacts DEF Idle
  <2> QED BY <2>1, Zenon DEF Call, deviceVars
<1>2. ASSUME NEW op \in {"read", "write"}, Goto(p, At("enter", op, None))
      PROVE  phase' = [phase EXCEPT ![p] = op]
  <2>1. At("enter", op, None) \in Places
    BY PlaceTypes, Zenon
  <2>2. pc'[p] = At("enter", op, None) /\ \A q \in Proc : q # p => pc'[q] = pc[q]
    BY <1>2, <2>1, GotoFacts, Zenon DEF IInv
  <2>3. pc'[p].at = "enter" /\ pc'[p].op = op
    BY <2>2, AtFacts
  <2>4. Phase(p)' = op
    <3>1. Phase(p)' = pc'[p].op
      BY <2>3, <2>1, <2>2, PlaceFacts, Zenon DEF Phase, InRing
    <3> QED BY <2>3, <3>1, Zenon
  <2>5. phase' = [phase EXCEPT ![p] = Phase(p)']
    BY <1>1, <2>2, PhaseStep, Zenon
  <2> QED BY <2>4, <2>5, Zenon
<1>3. phase[p] = "idle"
  BY <1>1, PhaseFacts
<1>4. CASE Goto(p, At("enter", "read", None)) /\ UNCHANGED data
  BY <1>1, <1>2, <1>3, <1>4, Zenon DEF Ops!Call
<1>5. CASE /\ Goto(p, At("enter", "write", None))
           /\ \E v \in Val : data' = [data EXCEPT ![p] = v]
  BY <1>1, <1>2, <1>3, <1>5, Zenon DEF Ops!Call
<1> QED BY <1>4, <1>5, Zenon DEF Call

\* A call that looks for descriptors, gets them or tells the device is to be done before
\* and after.
LEMMA WaitOps ==
  ASSUME IInv, IInv', NEW p \in Proc, RwNoDesc(p) \/ RwFormat(p) \/ RwNotify(p)
  PROVE  UNCHANGED Ops!vars
<1>1. data' = data /\ store' = store
  BY Zenon DEF RwNoDesc, RwFormat, RwNotify, deviceVars
<1>2. pc[p] \in Places /\ pc'[p] \in Places
  BY DEF IInv, TypeOK
<1>3. CASE RwNoDesc(p)
  <2>1. pc[p].at \in {"enter", "nodesc"} /\ Goto(p, [pc[p] EXCEPT !.at = "nodesc"]) /\ info' = info
    BY <1>3, Zenon DEF RwNoDesc, Tries
  <2>2. PICK x \in Places : /\ x = [pc[p] EXCEPT !.at = "nodesc"]
                            /\ x.at = "nodesc" /\ x.op = pc[p].op
    BY <1>2, <2>1, MoveFacts, Zenon
  <2>3. pc'[p] = x /\ \A q \in Proc : q # p => pc'[q] = pc[q]
    BY <2>1, <2>2, GotoFacts, Zenon DEF IInv
  <2>4. Phase(p)' = x.op
    BY <1>2, <2>2, <2>3, PlaceFacts, Zenon DEF Phase, InRing
  <2>5. phase[p] = x.op
    BY <2>1, <2>2, PhaseFacts, Zenon
  <2>6. phase' = [phase EXCEPT ![p] = Phase(p)']
    BY <2>1, <2>3, PhaseStep, Zenon
  <2> QED BY <1>1, <2>4, <2>5, <2>6, Zenon DEF Ops!vars, phase
<1>4. CASE RwFormat(p)
  <2>1. /\ pc[p].at \in {"enter", "nodesc"} /\ lock' = p
        /\ free \subseteq Desc /\ Cardinality(free) >= 3
    BY <1>4 DEF RwFormat, Tries, IInv, TypeOK
  <2>2. PICK i, j, k \in free : alloc3_desc = <<i, j, k>>
    BY <2>1, AllocFacts, Zenon
  <2>3. info' = [info EXCEPT ![i] = [b |-> p, status |-> 255]] /\ Goto(p, At("ring", pc[p].op, i))
    BY <1>4, <2>2, Zenon DEF RwFormat
  <2>4. pc[p].op \in {"read", "write"} /\ i \in Desc
    BY <1>2, <2>1, PlaceFacts, Zenon
  <2>5. pc'[p] = At("ring", pc[p].op, i) /\ \A q \in Proc : q # p => pc'[q] = pc[q]
    BY <2>3, <2>4, PlaceTypes, GotoFacts, Zenon DEF IInv
  <2>6. pc'[p].at = "ring" /\ pc'[p].op = pc[p].op /\ pc'[p].i = i
    BY <2>5, AtFacts
  <2>7. info'[i].status = 255
    BY <2>3, <2>4 DEF IInv, TypeOK
  <2>8. Phase(p)' = pc[p].op
    BY <1>2, <2>6, <2>7, PlaceFacts DEF Phase, InRing
  <2>9. phase[p] = pc[p].op
    BY <2>1, PhaseFacts, Zenon
  <2>10. \A q \in Active : info'[pc[q].i].status = info[pc[q].i].status
    <3>1. \A q \in Active : pc[q].i \in Desc /\ pc[q].i # i
      BY <2>2 DEF IInv, DriverInv, ChainInv
    <3> QED BY <2>3, <3>1 DEF IInv, TypeOK
  <2>11. phase' = [phase EXCEPT ![p] = Phase(p)']
    BY <2>5, <2>10, PhaseStep, Zenon
  <2>12. phase' = phase
    BY <2>8, <2>9, <2>11, Zenon DEF phase
  <2> QED BY <1>1, <2>12, Zenon DEF Ops!vars
<1>5. CASE RwNotify(p)
  <2>1. pc[p].at = "ring" /\ Goto(p, [pc[p] EXCEPT !.at = "wait"]) /\ info' = info
    BY <1>5 DEF RwNotify
  <2>2. PICK x \in Places : /\ x = [pc[p] EXCEPT !.at = "wait"]
                            /\ x.at = "wait" /\ x.op = pc[p].op /\ x.i = pc[p].i
    BY <1>2, <2>1, MoveFacts, Zenon
  <2>3. pc'[p] = x /\ \A q \in Proc : q # p => pc'[q] = pc[q]
    BY <2>1, <2>2, GotoFacts, Zenon DEF IInv
  <2>4. Phase(p)' = Phase(p)
    BY <1>2, <2>1, <2>2, <2>3, PlaceFacts DEF Phase, InRing
  <2>5. phase' = [phase EXCEPT ![p] = Phase(p)'] /\ phase[p] = Phase(p)
    BY <2>1, <2>3, PhaseStep, PhaseFacts, Zenon
  <2> QED BY <1>1, <2>4, <2>5, Zenon DEF Ops!vars, phase
<1> QED BY <1>3, <1>4, <1>5, Zenon

\* The device carries out a request: the only one of its process, with its data.
LEMMA DevDoneOps ==
  ASSUME IInv, NEW i \in Desc, DevDone(i) PROVE \E p \in Proc : Ops!Transfer(p)
<1>1. i \in inflight
  BY Zenon DEF DevDone
<1>2. PICK p \in Served :
        /\ p \in Proc /\ p \in Active /\ pc[p].i = i /\ pc[p].at = "wait"
        /\ pc[p].op \in {"read", "write"} /\ i \in Desc /\ i \in Pending
        /\ ops[desc[i].addr].type = pc[p].op /\ ops[desc[i].addr].sector = p
        /\ desc[desc[i].next].addr = p /\ desc[desc[desc[i].next].next].addr = i
  BY <1>1, RequestFacts, Zenon
<1>3. /\ IF pc[p].op = "read"
         THEN data' = [data EXCEPT ![p] = store[p]] /\ store' = store
         ELSE store' = [store EXCEPT ![p] = data[p]] /\ data' = data
      /\ info' = [info EXCEPT ![i].status = 0] /\ pc' = pc
  BY <1>2, Zenon DEF DevDone, driverVars
<1>4. info'[i].status = 0 /\ \A n \in Desc : n # i => info'[n].status = info[n].status
  BY <1>3 DEF IInv, TypeOK
<1>5. info[i].status = 255
  BY <1>2, Zenon DEF Pending
<1>6. phase[p] = pc[p].op
  BY <1>2, <1>5, PhaseFacts
<1>7. pc[p] # Idle
  BY <1>2, PlaceFacts DEF IInv, TypeOK
<1>8. Phase(p)' = "done"
  BY <1>2, <1>3, <1>4, <1>7, Zenon DEF Phase, InRing
<1>9. phase' = [phase EXCEPT ![p] = Phase(p)']
  <2>1. \A q \in Proc : q # p /\ q \in Active => pc[q].i \in Desc /\ pc[q].i # i
    <3>1. \A q \in Active : pc[q].i \in Desc
      BY Zenon DEF IInv, DriverInv, ChainInv
    <3> QED BY <1>2, <3>1, HeadUnique, Zenon
  <2>2. \A q \in Proc : q # p => /\ pc'[q] = pc[q]
                                 /\ q \in Active => info'[pc[q].i].status = info[pc[q].i].status
    BY <1>3, <1>4, <2>1, Zenon
  <2> QED BY <1>2, <2>2, PhaseStep, Zenon
<1>10. Ops!Transfer(p)
  <2>1. CASE pc[p].op = "read"
    BY <1>3, <1>6, <1>8, <1>9, <2>1, Zenon DEF Ops!Transfer
  <2>2. CASE pc[p].op = "write"
    BY <1>3, <1>6, <1>8, <1>9, <2>2 DEF Ops!Transfer
  <2> QED BY <1>2, <2>1, <2>2
<1> QED BY <1>2, <1>10, Zenon

\* A call returns after its transfer.
LEMMA RwDoneOps == ASSUME IInv, NEW p \in Proc, RwDone(p) PROVE Ops!Return(p)
<1>1. /\ pc[p].at = "wait" /\ p \notin busy /\ p \in Active
      /\ info' = [info EXCEPT ![pc[p].i].b = None]
      /\ data' = [data EXCEPT ![p] = None] /\ Goto(p, Idle) /\ store' = store
  BY Zenon DEF RwDone, Wakes, Active, InRing, deviceVars
<1>2. info[pc[p].i].status = 0
  BY <1>1 DEF IInv, RingInv, BusyInv
<1>3. phase[p] = "done"
  BY <1>1, <1>2, PhaseFacts
<1>4. pc'[p] = Idle /\ \A q \in Proc : q # p => pc'[q] = pc[q]
  BY <1>1, PlaceTypes, GotoFacts, Zenon DEF IInv
<1>5. Phase(p)' = "idle"
  BY <1>4, Zenon DEF Phase
<1>6. \A q \in Active : info'[pc[q].i].status = info[pc[q].i].status
  <2>1. \A q \in Active : pc[q].i \in Desc
    BY Zenon DEF IInv, DriverInv, ChainInv
  <2> QED BY <1>1, <2>1 DEF IInv, TypeOK
<1>7. phase' = [phase EXCEPT ![p] = Phase(p)']
  BY <1>4, <1>6, PhaseStep, Zenon
<1> QED BY <1>1, <1>3, <1>5, <1>7, Zenon DEF Ops!Return

\* What the other steps do is not seen by the callers.
LEMMA QuietOps ==
  ASSUME (\E p \in Proc : RwAgain(p) \/ Spurious(p)) \/ Intr \/ DevTake \/ UNCHANGED vars
  PROVE  UNCHANGED Ops!vars
<1>1. pc' = pc /\ info' = info /\ data' = data /\ store' = store
  <2>1. CASE \E p \in Proc : RwAgain(p) \/ Spurious(p)
    BY <2>1, Zenon DEF RwAgain, Spurious, deviceVars
  <2>2. CASE Intr
    BY <2>2, Zenon DEF Intr, IntrBegin, IntrEntry, IntrEnd, deviceVars
  <2>3. CASE DevTake
    BY <2>3, Zenon DEF DevTake, driverVars
  <2>4. CASE UNCHANGED vars
    BY <2>4, Zenon DEF vars, driverVars, deviceVars
  <2> QED BY <2>1, <2>2, <2>3, <2>4, Zenon
<1>2. phase' = phase
  BY <1>1, PhaseSame, Zenon
<1> QED BY <1>1, <1>2, Zenon DEF Ops!vars

\* The driver implements DiskOps: each call of virtio_disk_rw() has its transfer carried
\* out once, on its own block and its own buffer, before it returns, whatever the order in
\* which the device takes and finishes requests and whoever else is woken.
THEOREM OpsRefinement == Spec => ImplementsOps
<1>1. ASSUME IInv, IInv', [Next]_vars
      PROVE  [\E p \in Proc : Ops!Call(p) \/ Ops!Transfer(p) \/ Ops!Return(p)]_Ops!vars
  <2>1. ASSUME NEW p \in Proc, Call(p) \/ Rw(p) \/ Spurious(p)
        PROVE  Ops!Call(p) \/ Ops!Return(p) \/ UNCHANGED Ops!vars
    <3>1. CASE Call(p)
      BY <1>1, <3>1, CallOps, Zenon
    <3>2. CASE RwNoDesc(p) \/ RwFormat(p) \/ RwNotify(p)
      BY <1>1, <3>2, WaitOps, Zenon
    <3>3. CASE RwDone(p)
      BY <1>1, <3>3, RwDoneOps, Zenon
    <3>4. CASE RwAgain(p) \/ Spurious(p)
      BY <3>4, QuietOps, Zenon
    <3> QED BY <2>1, <3>1, <3>2, <3>3, <3>4, Zenon DEF Rw
  <2>2. ASSUME NEW i \in Desc, DevDone(i) PROVE \E p \in Proc : Ops!Transfer(p)
    BY <1>1, <2>2, DevDoneOps, Zenon
  <2>3. CASE Intr \/ DevTake \/ UNCHANGED vars
    BY <2>3, QuietOps, Zenon
  <2> QED BY <1>1, <2>1, <2>2, <2>3, Zenon DEF Next
<1> QED BY <1>1, InitOps, Invariant, PTL DEF Spec, ImplementsOps, Ops!Spec
=============================================================================
