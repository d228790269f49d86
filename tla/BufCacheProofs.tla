--------------------------- MODULE BufCacheProofs ----------------------------
(***************************************************************************)
(* What is proved of BufCache, for any number of processes, buffers and    *)
(* blocks, and any limit on what the log pins.                             *)
(***************************************************************************)
EXTENDS BufCache, FiniteSetTheorems, TLAPS

\* The processes that b->refcnt counts.
Refs(b) == { p \in Proc : pc[p].buf = b }
Pin(b) == IF b \in pinned THEN 1 ELSE 0

\* A process between two calls has no buffer; only the holder of a valid buffer changes
\* it; who sleeps waits for a lock.
PcInv ==
  \A p \in Proc :
    /\ pc[p].at = "idle" => pc[p] = Idle
    /\ pc[p].at # "idle" => pc[p].buf \in Buf /\ pc[p].block \in Block
    /\ pc[p].dirty => pc[p].at = "use"
    /\ p \in asleep => pc[p].at = "acquire"
    /\ pc[p].at = "use" => valid[pc[p].buf]

\* The owner of a sleep-lock is the process that has got it and not released it.
OwnerInv ==
  \A b \in Buf, p \in Proc :
    owner[b] = p <=> pc[p].buf = b /\ pc[p].at \in {"locked", "use"}

\* A pinned buffer is valid, a valid buffer has a block, and unless it is pinned or about
\* to be, it has what the disk has.
DataInv ==
  \A b \in Buf :
    /\ b \in pinned => valid[b]
    /\ valid[b] => block[b] \in Block
    /\ valid[b] /\ b \notin Reserved => data[b] = disk[block[b]]

\* begin_op() keeps the number of pins within the limit.
PinInv == Cardinality(Reserved) <= MaxPins

IInv == BuffersHeld /\ PcInv /\ OwnerInv /\ DataInv /\ PinInv

-----------------------------------------------------------------------------
(* Places *)

Place == [at : {"idle", "acquire", "locked", "use", "brelse"},
          block : Block \cup {None}, buf : Buf \cup {None}, dirty : BOOLEAN]

\* What At() builds.
LEMMA AtFacts ==
  ASSUME NEW s \in {"idle", "acquire"}, NEW n \in Block \cup {None}, NEW b \in Buf \cup {None}
  PROVE  /\ At(s, n, b) \in Place /\ ~At(s, n, b).dirty
         /\ At(s, n, b).at = s /\ At(s, n, b).block = n /\ At(s, n, b).buf = b
BY Zenon DEF At, Place

\* A process between two calls.
LEMMA IdleFacts ==
  Idle \in Place /\ Idle.at = "idle" /\ Idle.buf = None /\ Idle.block = None /\ ~Idle.dirty
BY AtFacts DEF Idle

\* A process goes to another place with the buffer that it has.
LEMMA GotoFacts ==
  ASSUME TypeOK, NEW p \in Proc, NEW s \in {"locked", "use", "brelse"}, Goto(p, s)
  PROVE  /\ pc' \in [Proc -> Place] /\ \A q \in Proc : q # p => pc'[q] = pc[q]
         /\ pc'[p].at = s /\ pc'[p].block = pc[p].block /\ pc'[p].buf = pc[p].buf
         /\ pc'[p].dirty <=> pc[p].dirty
<1>1. pc \in [Proc -> Place] /\ pc' = [pc EXCEPT ![p].at = s]
  BY Zenon DEF TypeOK, Place, Goto
<1>2. pc'[p] = [pc[p] EXCEPT !.at = s] /\ \A q \in Proc : q # p => pc'[q] = pc[q]
  BY <1>1, Zenon
<1>3. pc[p] \in Place
  BY <1>1, Zenon
<1>4. pc'[p] \in Place /\ pc'[p].at = s /\ pc'[p].block = pc[p].block /\ pc'[p].buf = pc[p].buf
  BY <1>2, <1>3, Zenon DEF Place
<1>5. pc'[p].dirty = pc[p].dirty
  BY <1>2, <1>3, Zenon DEF Place
<1> QED BY <1>1, <1>2, <1>4, <1>5, Zenon

\* The mark of a change is set or taken back.
LEMMA MarkFacts ==
  ASSUME TypeOK, NEW p \in Proc, NEW d \in BOOLEAN, pc' = [pc EXCEPT ![p].dirty = d]
  PROVE  /\ pc' \in [Proc -> Place] /\ \A q \in Proc : q # p => pc'[q] = pc[q]
         /\ pc'[p].at = pc[p].at /\ pc'[p].block = pc[p].block /\ pc'[p].buf = pc[p].buf
         /\ pc'[p].dirty <=> d
<1>1. pc \in [Proc -> Place]
  BY Zenon DEF TypeOK, Place
<1>2. pc'[p] = [pc[p] EXCEPT !.dirty = d] /\ \A q \in Proc : q # p => pc'[q] = pc[q]
  BY <1>1, Zenon
<1>3. pc[p] \in Place
  BY <1>1, Zenon
<1>4. pc'[p] \in Place /\ pc'[p].at = pc[p].at /\ pc'[p].block = pc[p].block
      /\ pc'[p].buf = pc[p].buf
  BY <1>2, <1>3 DEF Place
<1>5. pc'[p].dirty = d
  BY <1>2, <1>3 DEF Place
<1> QED BY <1>1, <1>2, <1>4, <1>5, Zenon

-----------------------------------------------------------------------------
(* References *)

\* b->refcnt in terms of the sets that it counts.
LEMMA RefFacts ==
  ASSUME IInv, NEW b \in Buf
  PROVE  /\ IsFiniteSet(Refs(b)) /\ Cardinality(Refs(b)) \in Nat
         /\ refcnt[b] = Cardinality(Refs(b)) + Pin(b)
         /\ refcnt[b] = 0 <=> Refs(b) = {} /\ b \notin pinned
<1>1. Refs(b) \in SUBSET Proc
  BY Zenon DEF Refs
<1>2. IsFiniteSet(Refs(b))
  BY <1>1, FS_Subset, BufCacheAssumption, Zenon
<1>3. Cardinality(Refs(b)) \in Nat
  BY <1>2, FS_CardinalityType, Zenon
<1>4. Cardinality(Refs(b)) = 0 <=> Refs(b) = {}
  BY <1>2, FS_EmptySet, Zenon
<1>5. refcnt[b] = Cardinality(Refs(b)) + Pin(b)
  BY Zenon DEF IInv, BuffersHeld, RefcntExact, Refs, Pin
<1> QED BY <1>2, <1>3, <1>4, <1>5 DEF Pin

\* What RefcntExact says, in these terms.
LEMMA RefExact ==
  ASSUME \A b \in Buf : refcnt'[b] = Cardinality(Refs(b)') + Pin(b)'
  PROVE  RefcntExact'
BY Zenon DEF RefcntExact, Refs, Pin

\* Nobody gets or drops a buffer.
LEMMA RefSame ==
  ASSUME IInv, refcnt' = refcnt, pinned' = pinned, \A q \in Proc : pc'[q].buf = pc[q].buf
  PROVE  RefcntExact'
<1>1. \A b \in Buf : Refs(b)' = Refs(b) /\ Pin(b)' = Pin(b)
  BY Zenon DEF Refs, Pin
<1> QED BY <1>1, RefExact, RefFacts, Zenon

\* p gets buffer b in bget().
LEMMA RefUp ==
  ASSUME IInv, NEW p \in Proc, NEW b \in Buf, pc[p].buf = None, pc'[p].buf = b,
         \A q \in Proc : q # p => pc'[q].buf = pc[q].buf,
         refcnt' = [refcnt EXCEPT ![b] = @ + 1], pinned' = pinned
  PROVE  RefcntExact'
<1>1. Refs(b)' = Refs(b) \cup {p} /\ p \notin Refs(b)
  BY BufCacheAssumption, Zenon DEF Refs
<1>2. \A c \in Buf : c # b => Refs(c)' = Refs(c)
  BY BufCacheAssumption, Zenon DEF Refs
<1>3. \A c \in Buf : Pin(c)' = Pin(c)
  BY Zenon DEF Pin
<1>4. Cardinality(Refs(b) \cup {p}) =
        IF p \in Refs(b) THEN Cardinality(Refs(b)) ELSE Cardinality(Refs(b)) + 1
  BY RefFacts, FS_AddElement, Zenon
<1>5. Cardinality(Refs(b)') = Cardinality(Refs(b)) + 1
  BY <1>1, <1>4, Zenon
<1>6. refcnt'[b] = refcnt[b] + 1 /\ \A c \in Buf : c # b => refcnt'[c] = refcnt[c]
  BY Zenon DEF IInv, BuffersHeld, TypeOK
<1>7. Pin(b) \in Nat
  BY Zenon DEF Pin
<1>8. refcnt'[b] = Cardinality(Refs(b)') + Pin(b)'
  BY <1>3, <1>5, <1>6, <1>7, RefFacts
<1>9. \A c \in Buf : c # b => refcnt'[c] = Cardinality(Refs(c)') + Pin(c)'
  BY <1>2, <1>3, <1>6, RefFacts
<1> QED BY <1>8, <1>9, RefExact, Zenon

\* p drops buffer b in brelse().
LEMMA RefDown ==
  ASSUME IInv, NEW p \in Proc, NEW b \in Buf, pc[p].buf = b, pc'[p].buf = None,
         \A q \in Proc : q # p => pc'[q].buf = pc[q].buf,
         refcnt' = [refcnt EXCEPT ![b] = @ - 1], pinned' = pinned
  PROVE  RefcntExact' /\ refcnt[b] \in Nat \ {0}
<1>1. Refs(b)' = Refs(b) \ {p} /\ p \in Refs(b)
  BY BufCacheAssumption, Zenon DEF Refs
<1>2. \A c \in Buf : c # b => Refs(c)' = Refs(c)
  BY BufCacheAssumption, Zenon DEF Refs
<1>3. \A c \in Buf : Pin(c)' = Pin(c)
  BY Zenon DEF Pin
<1>4. Cardinality(Refs(b) \ {p}) =
        IF p \in Refs(b) THEN Cardinality(Refs(b)) - 1 ELSE Cardinality(Refs(b))
  BY RefFacts, FS_RemoveElement, Zenon
<1>5. Cardinality(Refs(b)') = Cardinality(Refs(b)) - 1
  BY <1>1, <1>4, Zenon
<1>6. refcnt'[b] = refcnt[b] - 1 /\ \A c \in Buf : c # b => refcnt'[c] = refcnt[c]
  BY Zenon DEF IInv, BuffersHeld, TypeOK
<1>7. Pin(b) \in Nat
  BY Zenon DEF Pin
<1>8. refcnt'[b] = Cardinality(Refs(b)') + Pin(b)'
  BY <1>3, <1>5, <1>6, <1>7, RefFacts
<1>9. \A c \in Buf : c # b => refcnt'[c] = Cardinality(Refs(c)') + Pin(c)'
  BY <1>2, <1>3, <1>6, RefFacts
<1>10. refcnt[b] \in Nat /\ refcnt[b] # 0
  BY <1>1, RefFacts, Zenon DEF IInv, BuffersHeld, TypeOK
<1> QED BY <1>8, <1>9, <1>10, RefExact, Zenon

-----------------------------------------------------------------------------
(* Pins *)

\* The processes that have changed a buffer and not yet called log_write().
Marked == { q \in Proc : pc[q].dirty }

\* The buffers that are pinned or will be.
LEMMA ReservedMarked ==
  /\ \A b : b \in Reserved <=> (b \in pinned \/ \E q \in Marked : pc[q].buf = b)
  /\ \A b : b \in Reserved' <=> (b \in pinned' \/ \E q \in Marked' : pc'[q].buf = b)
BY Zenon DEF Reserved, Marked

\* The same, process by process.
LEMMA ReservedFacts ==
  \A b : b \in Reserved <=> (b \in pinned \/ \E q \in Proc : pc[q].dirty /\ pc[q].buf = b)
BY Zenon DEF Reserved

\* They are finitely many.
LEMMA ReservedFinite ==
  ASSUME IInv
  PROVE  Reserved \subseteq Buf /\ IsFiniteSet(Reserved) /\ Cardinality(Reserved) \in Nat
<1>1. \A q \in Proc : pc[q].dirty => pc[q].buf \in Buf
  BY Zenon DEF IInv, PcInv
<1>2. pinned \subseteq Buf
  BY Zenon DEF IInv, BuffersHeld, TypeOK
<1>3. Reserved \in SUBSET Buf
  BY <1>1, <1>2, ReservedFacts, Zenon
<1>4. IsFiniteSet(Reserved)
  BY <1>3, FS_Subset, BufCacheAssumption, Zenon
<1> QED BY <1>3, <1>4, FS_CardinalityType, Zenon

\* A step that neither pins nor marks a buffer.
LEMMA ReservedSame ==
  ASSUME pinned' = pinned,
         \A q \in Proc : (pc'[q].dirty <=> pc[q].dirty) /\ (pc[q].dirty => pc'[q].buf = pc[q].buf)
  PROVE  Reserved' = Reserved
<1>1. { q \in Proc : pc'[q].dirty } = { q \in Proc : pc[q].dirty }
  BY Zenon
<1>2. { pc'[q].buf : q \in { q \in Proc : pc'[q].dirty } }
        = { pc[q].buf : q \in { q \in Proc : pc[q].dirty } }
  BY <1>1, Zenon
<1> QED BY <1>2, Zenon DEF Reserved

-----------------------------------------------------------------------------
(* The list *)

\* Every buffer is in the list.
LEMMA ListFacts ==
  ASSUME TypeOK
  PROVE  /\ list \in [1 .. Cardinality(Buf) -> Buf] /\ Cardinality(Buf) \in Nat
         /\ \A j, k \in 1 .. Cardinality(Buf) : list[j] = list[k] => j = k
         /\ \A b \in Buf : \E k \in 1 .. Cardinality(Buf) : list[k] = b
<1>1. Cardinality(Buf) \in Nat
  BY FS_CardinalityType, BufCacheAssumption, Zenon
<1> QED BY <1>1, Zenon DEF TypeOK, Orders, Bijection, Injection, Surjection, IsInjective

\* A set of numbers has a smallest one.
LEMMA MinExists ==
  ASSUME NEW S \in SUBSET Nat, S # {}
  PROVE  \E k \in S : \A j \in S : ~(j < k)
<1>1. PICK R : R = OpToRel(<, Nat)
  BY Zenon
<1>2. IsWellFoundedOn(R, Nat)
  BY <1>1, NatLessThanWellFounded, Zenon
<1>3. PICK k \in S : \A j \in S : ~(<<j, k>> \in R)
  BY <1>2, WFMin, Zenon
<1>4. \A j \in S : <<j, k>> \in R <=> j < k
  BY <1>1, Zenon DEF OpToRel
<1> QED BY <1>3, <1>4, Zenon

\* A bounded one has a largest one.
LEMMA MaxExists ==
  ASSUME NEW n \in Nat, NEW S \in SUBSET (1 .. n), S # {}
  PROVE  \E k \in S : \A j \in S : j <= k
<1> DEFINE T == { n - k : k \in S }
<1>1. \A k \in S : k \in Int /\ n - k \in Nat
  OBVIOUS
<1>2. T \in SUBSET Nat /\ T # {}
  BY <1>1, Zenon
<1>3. PICK t \in T : \A u \in T : ~(u < t)
  BY <1>2, MinExists, Zenon
<1>4. PICK k \in S : t = n - k
  BY <1>3, Zenon
<1>5. \A j \in S : ~(n - j < n - k)
  BY <1>3, <1>4, Zenon
<1>6. \A j \in S : j <= k
  BY <1>1, <1>4, <1>5
<1> QED BY <1>4, <1>6, Zenon

\* The buffer that bget() recycles.
LEMMA LruFacts ==
  ASSUME TypeOK, Unused # {}
  PROVE  Lru \in Buf /\ refcnt[Lru] = 0
<1> DEFINE N == Cardinality(Buf)
<1>1. N \in Nat /\ list \in [1 .. N -> Buf] /\ Unused \subseteq 1 .. N
  BY ListFacts, Zenon DEF Unused
<1>2. \E k \in Unused : \A j \in Unused : j <= k
  <2>1. PICK S \in SUBSET (1 .. N) : S = Unused
    BY <1>1, Zenon
  <2> QED BY <1>1, <2>1, MaxExists, Zenon
<1>3. PICK k \in Unused : Lru = list[k]
  BY <1>2, Zenon DEF Lru
<1> QED BY <1>1, <1>3, Zenon DEF Unused

\* There is a buffer for bget(), as one is left when each other process has one and the log
\* has pinned as many as it may.
LEMMA BufferLeft ==
  ASSUME IInv, NEW p \in Proc, pc[p] = Idle
  PROVE  Unused # {}
<1> SUFFICES ASSUME Unused = {} PROVE FALSE
  BY Zenon
<1> DEFINE S == Buf \ pinned
           T == Proc \ {p}
           f == [b \in S |-> CHOOSE q \in T : pc[q].buf = b]
<1>1. pinned \subseteq Buf /\ pc[p].buf = None
  BY IdleFacts, Zenon DEF IInv, BuffersHeld, TypeOK
<1>2. \A b \in Buf : refcnt[b] # 0
  BY ListFacts, Zenon DEF Unused, IInv, BuffersHeld
<1>3. \A b \in S : \E q \in T : pc[q].buf = b
  <2> SUFFICES ASSUME NEW b \in S PROVE \E q \in T : pc[q].buf = b
    BY Zenon
  <2>1. Refs(b) # {}
    BY <1>2, RefFacts, Zenon
  <2>2. b # None
    BY BufCacheAssumption, Zenon
  <2> QED BY <1>1, <2>1, <2>2, Zenon DEF Refs
<1>4. \A b \in S : f[b] \in T /\ pc[f[b]].buf = b
  BY <1>3, Zenon
<1>5. f \in Injection(S, T)
  <2>1. f \in [S -> T]
    BY <1>4, Zenon
  <2>2. \A b, c \in S : f[b] = f[c] => b = c
    BY <1>4, Zenon
  <2> QED BY <2>1, <2>2, Zenon DEF Injection, IsInjective
<1> HIDE DEF f
<1>6. IsFiniteSet(T) /\ Cardinality(T) = Cardinality(Proc) - 1
  BY FS_RemoveElement, BufCacheAssumption, Zenon
<1>7. Cardinality(S) <= Cardinality(T)
  BY <1>5, <1>6, FS_Injection, Zenon
<1>8. Cardinality(S) = Cardinality(Buf) - Cardinality(Buf \cap pinned)
  BY FS_Difference, BufCacheAssumption, Zenon
<1>9. Cardinality(S) = Cardinality(Buf) - Cardinality(pinned)
  <2>1. Buf \cap pinned = pinned
    BY <1>1, Zenon
  <2> QED BY <1>8, <2>1, Zenon
<1>10. Cardinality(pinned) <= Cardinality(Reserved) /\ Cardinality(pinned) \in Nat
  <2>1. pinned \in SUBSET Reserved
    BY ReservedFacts, Zenon
  <2>2. IsFiniteSet(pinned) /\ Cardinality(pinned) <= Cardinality(Reserved)
    BY <2>1, FS_Subset, ReservedFinite, Zenon
  <2> QED BY <2>2, FS_CardinalityType, Zenon
<1>11. Cardinality(Proc) \in Nat /\ Cardinality(Buf) \in Nat
  BY FS_CardinalityType, BufCacheAssumption, Zenon
<1>12. Cardinality(Reserved) \in Nat /\ Cardinality(Reserved) <= MaxPins
  BY ReservedFinite, Zenon DEF IInv, PinInv
<1>13. MaxPins \in Nat /\ Cardinality(Buf) >= Cardinality(Proc) + MaxPins
  BY BufCacheAssumption, Zenon
<1> HIDE DEF S, T
<1> QED BY <1>6, <1>7, <1>9, <1>10, <1>11, <1>12, <1>13

\* brelse() changes the order only.
LEMMA MoveOrder ==
  ASSUME TypeOK, NEW b \in Buf
  PROVE  MoveToFront(b) \in Orders
<1> DEFINE N == Cardinality(Buf)
           i == CHOOSE k \in DOMAIN list : list[k] = b
           l == MoveToFront(b)
<1>1. /\ list \in [1 .. N -> Buf] /\ N \in Nat
      /\ \A j, k \in 1 .. N : list[j] = list[k] => j = k
      /\ \A c \in Buf : \E k \in 1 .. N : list[k] = c
  BY ListFacts, Zenon
<1>2. i \in 1 .. N /\ list[i] = b
  BY <1>1, Zenon
<1>3. l = [k \in 1 .. N |-> IF k = 1 THEN b ELSE IF k <= i THEN list[k - 1] ELSE list[k]]
  BY <1>1, Zenon DEF MoveToFront
<1> HIDE DEF i, l
<1>4. l \in [1 .. N -> Buf]
  BY <1>1, <1>2, <1>3
<1>5. /\ l[1] = b
      /\ \A k \in 2 .. i : l[k] = list[k - 1]
      /\ \A k \in i + 1 .. N : l[k] = list[k]
  BY <1>1, <1>2, <1>3
<1>6. \A j, k \in 1 .. N : l[j] = l[k] => j = k
  <2> DEFINE src(k) == IF k = 1 THEN i ELSE IF k <= i THEN k - 1 ELSE k
  <2>1. \A k \in 1 .. N : src(k) \in 1 .. N /\ l[k] = list[src(k)]
    BY <1>1, <1>2, <1>3
  <2>2. \A j, k \in 1 .. N : src(j) = src(k) => j = k
    BY <1>1, <1>2
  <2> HIDE DEF src
  <2> QED BY <1>1, <2>1, <2>2
<1>7. \A c \in Buf : \E k \in 1 .. N : l[k] = c
  <2> SUFFICES ASSUME NEW c \in Buf PROVE \E k \in 1 .. N : l[k] = c
    BY Zenon
  <2>1. PICK j \in 1 .. N : list[j] = c
    BY <1>1, Zenon
  <2>2. CASE j = i
    BY <1>1, <1>2, <1>5, <2>1, <2>2
  <2>3. CASE j < i
    <3>1. j + 1 \in 2 .. i /\ j + 1 \in 1 .. N /\ (j + 1) - 1 = j
      BY <1>1, <1>2, <2>3
    <3> QED BY <1>5, <2>1, <3>1, Zenon
  <2>4. CASE j > i
    BY <1>1, <1>2, <1>5, <2>1, <2>4
  <2> QED BY <1>1, <1>2, <2>2, <2>3, <2>4
<1> QED BY <1>4, <1>6, <1>7 DEF Orders, Bijection, Injection, Surjection, IsInjective, l

-----------------------------------------------------------------------------
(* bget() *)

\* A process enters: its place, and what the places say of the others.
LEMMA EnterFacts ==
  ASSUME TypeOK, NEW p \in Proc, pc[p] = Idle, NEW n \in Block, NEW b \in Buf,
         pc' = [pc EXCEPT ![p] = At("acquire", n, b)]
  PROVE  /\ pc' \in [Proc -> Place] /\ \A q \in Proc : q # p => pc'[q] = pc[q]
         /\ pc'[p].at = "acquire" /\ pc'[p].block = n /\ pc'[p].buf = b
         /\ pc[p].at = "idle" /\ pc[p].buf = None
<1>1. pc \in [Proc -> Place]
  BY Zenon DEF TypeOK, Place
<1>2. /\ At("acquire", n, b) \in Place
      /\ At("acquire", n, b).at = "acquire" /\ At("acquire", n, b).block = n
      /\ At("acquire", n, b).buf = b
  BY AtFacts
<1>3. pc'[p] = At("acquire", n, b) /\ \A q \in Proc : q # p => pc'[q] = pc[q]
  BY <1>1, Zenon
<1>4. pc' \in [Proc -> Place]
  BY <1>1, <1>2, Zenon
<1> QED BY <1>2, <1>3, <1>4, IdleFacts, Zenon

\* It has changed nothing.
LEMMA EnterClean ==
  ASSUME TypeOK, NEW p \in Proc, pc[p] = Idle, NEW n \in Block, NEW b \in Buf,
         pc' = [pc EXCEPT ![p] = At("acquire", n, b)]
  PROVE  ~pc'[p].dirty /\ ~pc[p].dirty
<1>1. pc'[p] = At("acquire", n, b)
  BY Zenon DEF TypeOK
<1>2. ~At("acquire", n, b).dirty
  BY AtFacts, Zenon
<1> QED BY <1>1, <1>2, IdleFacts, Zenon

\* The contents are where they were.
LEMMA DataSame ==
  ASSUME IInv, UNCHANGED <<block, valid, data, disk, pinned>>,
         \A q \in Proc : (pc'[q].dirty <=> pc[q].dirty) /\ (pc[q].dirty => pc'[q].buf = pc[q].buf)
  PROVE  DataInv' /\ PinInv'
<1>1. Reserved' = Reserved
  BY ReservedSame, Zenon
<1> QED BY <1>1, Zenon DEF IInv, DataInv, PinInv

\* The block is cached.
LEMMA BgetHitStep ==
  ASSUME IInv, NEW p \in Proc, NEW n \in Block, BgetHit(p, n)
  PROVE  IInv'
<1> USE DEF IInv, BuffersHeld
<1>1. PICK b \in Buf : /\ block[b] = n /\ refcnt' = [refcnt EXCEPT ![b] = @ + 1]
                       /\ pc' = [pc EXCEPT ![p] = At("acquire", n, b)]
  BY Zenon DEF BgetHit, Cached
<1>2. pc[p] = Idle /\ UNCHANGED <<list, block, valid, data, owner, disk, pinned, asleep, panicked>>
  BY Zenon DEF BgetHit
<1>3. /\ pc' \in [Proc -> Place] /\ \A q \in Proc : q # p => pc'[q] = pc[q]
      /\ pc'[p].at = "acquire" /\ pc'[p].block = n /\ pc'[p].buf = b
      /\ pc[p].at = "idle" /\ pc[p].buf = None
  BY <1>1, <1>2, EnterFacts, Zenon
<1>4. ~pc'[p].dirty /\ ~pc[p].dirty
  BY <1>1, <1>2, EnterClean, Zenon
<1>5. TypeOK'
  BY <1>1, <1>2, <1>3 DEF TypeOK, Place
<1>6. RefcntExact'
  <2>1. \A q \in Proc : q # p => pc'[q].buf = pc[q].buf
    BY <1>3, Zenon
  <2> QED BY <1>1, <1>2, <1>3, <2>1, RefUp, Zenon
<1>7. OneBufPerBlock' /\ BufKept' /\ NoPanic'
  BY <1>1, <1>2, <1>3 DEF OneBufPerBlock, BufKept, NoPanic
<1>8. SleepJustified' /\ OwnerInv'
  <2>1. \A q \in asleep : q \in Proc /\ q # p
    BY <1>3, Zenon DEF PcInv, TypeOK
  <2> QED BY <1>2, <1>3, <2>1, BufCacheAssumption DEF SleepJustified, OwnerInv
<1>9. PcInv'
  BY <1>2, <1>3, <1>4 DEF PcInv
<1>10. DataInv' /\ PinInv'
  BY <1>2, <1>3, <1>4, DataSame
<1> QED BY <1>5, <1>6, <1>7, <1>8, <1>9, <1>10, Zenon

\* It is not, and a buffer that nobody uses is recycled.
LEMMA BgetMissStep ==
  ASSUME IInv, NEW p \in Proc, NEW n \in Block, BgetMiss(p, n)
  PROVE  IInv'
<1> USE DEF IInv, BuffersHeld
<1>1. pc[p] = Idle /\ Cached(n) = {} /\ UNCHANGED <<list, data, owner, disk, pinned, asleep>>
  BY Zenon DEF BgetMiss
<1>2. Unused # {}
  BY <1>1, BufferLeft, Zenon
<1>3. PICK b \in Buf : b = Lru /\ refcnt[b] = 0
  BY <1>2, LruFacts, Zenon
<1>4. /\ block' = [block EXCEPT ![b] = n] /\ valid' = [valid EXCEPT ![b] = FALSE]
      /\ refcnt' = [refcnt EXCEPT ![b] = 1] /\ pc' = [pc EXCEPT ![p] = At("acquire", n, b)]
      /\ panicked' = panicked
  BY <1>2, <1>3 DEF BgetMiss
<1>5. b \notin pinned /\ \A q \in Proc : pc[q].buf # b
  BY <1>3, RefFacts, Zenon DEF Refs
<1>6. /\ pc' \in [Proc -> Place] /\ \A q \in Proc : q # p => pc'[q] = pc[q]
      /\ pc'[p].at = "acquire" /\ pc'[p].block = n /\ pc'[p].buf = b
      /\ pc[p].at = "idle" /\ pc[p].buf = None
  BY <1>1, <1>4, EnterFacts, Zenon
<1>7. ~pc'[p].dirty /\ ~pc[p].dirty
  BY <1>1, <1>4, EnterClean, Zenon
<1>8. /\ block'[b] = n /\ ~valid'[b]
      /\ \A c \in Buf : c # b => block'[c] = block[c] /\ (valid'[c] <=> valid[c])
  BY <1>4, Zenon DEF TypeOK
<1>9. TypeOK'
  BY <1>1, <1>4, <1>6, Zenon DEF TypeOK, Place
<1>10. RefcntExact'
  <2>1. \A q \in Proc : q # p => pc'[q].buf = pc[q].buf
    BY <1>6, Zenon
  <2>2. refcnt' = [refcnt EXCEPT ![b] = @ + 1]
    BY <1>3, <1>4
  <2> QED BY <1>1, <1>6, <2>1, <2>2, RefUp, Zenon
<1>11. OneBufPerBlock'
  <2>1. \A c \in Buf : block[c] # n
    BY <1>1, Zenon DEF Cached
  <2> QED BY <1>8, <2>1, Zenon DEF OneBufPerBlock
<1>12. BufKept' /\ NoPanic'
  BY <1>4, <1>5, <1>6, <1>8 DEF BufKept, NoPanic, PcInv
<1>13. SleepJustified' /\ OwnerInv'
  <2>1. \A q \in asleep : q \in Proc /\ q # p
    BY <1>6, Zenon DEF PcInv, TypeOK
  <2> QED BY <1>1, <1>6, <2>1, BufCacheAssumption DEF SleepJustified, OwnerInv
<1>14. PcInv'
  <2>1. \A q \in Proc : q # p => pc'[q] = pc[q] /\ (q \in asleep' <=> q \in asleep)
    BY <1>1, <1>6, Zenon
  <2>2. ASSUME NEW q \in Proc, q # p, pc[q].at = "use"
        PROVE  valid'[pc[q].buf]
    <3>1. PICK c \in Buf : c = pc[q].buf /\ c # b
      BY <1>5, <2>2, Zenon DEF PcInv
    <3>2. valid[c]
      BY <2>2, <3>1, Zenon DEF PcInv
    <3> QED BY <1>8, <3>1, <3>2, Zenon
  <2>3. p \notin asleep'
    BY <1>1, <1>6, Zenon DEF PcInv
  <2> QED BY <1>6, <1>7, <2>1, <2>2, <2>3 DEF PcInv
<1>15. DataInv' /\ PinInv'
  <2>1. Reserved' = Reserved
    BY <1>1, <1>6, <1>7, ReservedSame, Zenon
  <2>2. DataInv'
    <3>1. ASSUME NEW c \in Buf, c # b
          PROVE  /\ c \in pinned' => valid'[c]
                 /\ valid'[c] => block'[c] \in Block
                 /\ valid'[c] /\ c \notin Reserved' => data'[c] = disk'[block'[c]]
      BY <1>1, <1>8, <2>1, <3>1 DEF DataInv
    <3>2. b \notin pinned' /\ ~valid'[b]
      BY <1>1, <1>5, <1>8
    <3> QED BY <3>1, <3>2, Zenon DEF DataInv
  <2> QED BY <2>1, <2>2, Zenon DEF PinInv
<1> QED BY <1>9, <1>10, <1>11, <1>12, <1>13, <1>14, <1>15, Zenon

-----------------------------------------------------------------------------
(* Sleep-locks *)

\* The place of a process that has a buffer.
LEMMA HasBuf ==
  ASSUME IInv, NEW p \in Proc, pc[p].at \in {"acquire", "locked", "use", "brelse"}
  PROVE  pc[p].buf \in Buf /\ pc[p].block \in Block /\ block[pc[p].buf] = pc[p].block
BY Zenon DEF IInv, BuffersHeld, PcInv, BufKept

\* The lock is free and taken, or the process sleeps until it is released.
LEMMA AcquireStep ==
  ASSUME IInv, NEW p \in Proc, acquiresleep(p)
  PROVE  IInv'
<1> USE DEF IInv, BuffersHeld
<1>1. /\ pc[p].at = "acquire" /\ p \notin asleep
      /\ UNCHANGED <<list, block, refcnt, valid, data, disk, pinned, panicked>>
  BY Zenon DEF acquiresleep, cacheVars
<1>2. PICK b \in Buf : b = pc[p].buf
  BY <1>1, HasBuf
<1>3. CASE owner[b] = None
  <2>1. owner' = [owner EXCEPT ![b] = p] /\ Goto(p, "locked") /\ asleep' = asleep
    BY <1>2, <1>3, Zenon DEF acquiresleep
  <2>2. /\ pc' \in [Proc -> Place] /\ \A q \in Proc : q # p => pc'[q] = pc[q]
        /\ pc'[p].at = "locked" /\ pc'[p].block = pc[p].block /\ pc'[p].buf = pc[p].buf
    BY <2>1, GotoFacts, Zenon
  <2>3. pc'[p].dirty <=> pc[p].dirty
    BY <2>1, GotoFacts, Zenon
  <2>4. \A q \in Proc : pc'[q].buf = pc[q].buf /\ pc'[q].block = pc[q].block
    BY <2>2, Zenon
  <2>5. \A q \in Proc : pc'[q].dirty <=> pc[q].dirty
    BY <2>2, <2>3, Zenon
  <2>6. owner'[b] = p /\ \A c \in Buf : c # b => owner'[c] = owner[c]
    BY <2>1, Zenon DEF TypeOK
  <2>7. TypeOK'
    BY <1>1, <2>1, <2>2 DEF TypeOK, Place
  <2>8. RefcntExact'
    BY <1>1, <2>4, RefSame, Zenon
  <2>9. OneBufPerBlock' /\ BufKept' /\ NoPanic'
    BY <1>1, <2>2, <2>4 DEF OneBufPerBlock, BufKept, NoPanic
  <2>10. SleepJustified'
    BY <2>1, <2>4, <2>6, BufCacheAssumption DEF SleepJustified, TypeOK, PcInv
  <2>11. OwnerInv'
    <3>1. \A q \in Proc : owner[b] # q
      BY <1>3, BufCacheAssumption, Zenon
    <3> QED BY <1>1, <1>2, <2>2, <2>6, <3>1 DEF OwnerInv
  <2>12. PcInv'
    <3>1. ~pc'[p].dirty
      BY <1>1, <2>3, Zenon DEF PcInv
    <3>2. pc[p].buf \in Buf /\ pc[p].block \in Block
      BY <1>1, HasBuf, Zenon
    <3> QED BY <1>1, <2>1, <2>2, <3>1, <3>2 DEF PcInv
  <2>13. DataInv' /\ PinInv'
    BY <1>1, <2>4, <2>5, DataSame
  <2> QED BY <2>7, <2>8, <2>9, <2>10, <2>11, <2>12, <2>13, Zenon
<1>4. CASE owner[b] # None
  <2>1. owner' = owner /\ pc' = pc /\ asleep' = asleep \cup {p}
    BY <1>2, <1>4, Zenon DEF acquiresleep
  <2>2. TypeOK'
    BY <1>1, <2>1, Zenon DEF TypeOK
  <2>3. RefcntExact' /\ OneBufPerBlock' /\ BufKept' /\ NoPanic'
    BY <1>1, <2>1 DEF RefcntExact, OneBufPerBlock, BufKept, NoPanic
  <2>4. SleepJustified' /\ OwnerInv' /\ PcInv'
    BY <1>1, <1>2, <1>4, <2>1 DEF SleepJustified, OwnerInv, PcInv
  <2>5. DataInv' /\ PinInv'
    BY <1>1, <2>1, DataSame, Zenon
  <2> QED BY <2>2, <2>3, <2>4, <2>5, Zenon
<1> QED BY <1>3, <1>4, Zenon

\* kkill() wakes a process.
LEMMA SpuriousStep ==
  ASSUME IInv, NEW p \in Proc, Spurious(p)
  PROVE  IInv'
<1> USE DEF IInv, BuffersHeld
<1>1. /\ asleep' = asleep \ {p}
      /\ UNCHANGED <<list, block, refcnt, valid, data, owner, disk, pinned, pc, panicked>>
  BY Zenon DEF Spurious, cacheVars
<1>2. TypeOK'
  BY <1>1, Zenon DEF TypeOK
<1>3. RefcntExact' /\ OneBufPerBlock' /\ BufKept' /\ NoPanic'
  BY <1>1, Zenon DEF RefcntExact, OneBufPerBlock, BufKept, NoPanic
<1>4. SleepJustified' /\ OwnerInv'
  BY <1>1 DEF SleepJustified, OwnerInv
<1>5. PcInv'
  BY <1>1, Zenon DEF PcInv
<1>6. DataInv' /\ PinInv'
  BY <1>1, DataSame, Zenon
<1> QED BY <1>2, <1>3, <1>4, <1>5, <1>6, Zenon

\* The lock is released, and all that wait for it are woken.
LEMMA ReleaseStep ==
  ASSUME IInv, NEW p \in Proc, Releasesleep(p)
  PROVE  IInv'
<1> USE DEF IInv, BuffersHeld
<1>1. PICK b \in Buf : b = pc[p].buf
  BY HasBuf, Zenon DEF Releasesleep
<1>2. /\ pc[p].at = "use" /\ ~pc[p].dirty /\ owner' = [owner EXCEPT ![b] = None]
      /\ asleep' = asleep \ Waiting(b) /\ Goto(p, "brelse")
      /\ UNCHANGED <<list, block, refcnt, valid, data, disk, pinned, panicked>>
  BY <1>1, Zenon DEF Releasesleep, cacheVars
<1>3. /\ pc' \in [Proc -> Place] /\ \A q \in Proc : q # p => pc'[q] = pc[q]
      /\ pc'[p].at = "brelse" /\ pc'[p].block = pc[p].block /\ pc'[p].buf = pc[p].buf
  BY <1>2, GotoFacts
<1>4. \A q \in Proc : pc'[q].buf = pc[q].buf /\ pc'[q].block = pc[q].block
  BY <1>3, Zenon
<1>5. \A q \in Proc : pc'[q].dirty <=> pc[q].dirty
  BY <1>2, <1>3, GotoFacts, Zenon
<1>6. owner'[b] = None /\ \A c \in Buf : c # b => owner'[c] = owner[c]
  BY <1>2, Zenon DEF TypeOK
<1>7. TypeOK'
  BY <1>2, <1>3, Zenon DEF TypeOK, Place
<1>8. RefcntExact'
  BY <1>2, <1>4, RefSame, Zenon
<1>9. OneBufPerBlock' /\ BufKept' /\ NoPanic'
  BY <1>2, <1>3, <1>4 DEF OneBufPerBlock, BufKept, NoPanic
<1>10. SleepJustified'
  <2>1. \A q \in asleep' : q \in asleep /\ q \in Proc /\ pc[q].buf # b /\ pc[q].buf \in Buf
    BY <1>2, Zenon DEF Waiting, TypeOK, PcInv
  <2> QED BY <1>4, <1>6, <2>1 DEF SleepJustified
<1>11. OwnerInv'
  BY <1>1, <1>2, <1>3, <1>6, BufCacheAssumption DEF OwnerInv
<1>12. PcInv'
  <2>1. pc[p].buf \in Buf /\ pc[p].block \in Block /\ p \notin asleep'
    BY <1>2, HasBuf, Zenon DEF PcInv
  <2>2. \A q \in asleep' : q \in asleep
    BY <1>2, Zenon
  <2> QED BY <1>2, <1>3, <1>5, <2>1, <2>2 DEF PcInv
<1>13. DataInv' /\ PinInv'
  BY <1>2, <1>4, <1>5, DataSame
<1> QED BY <1>7, <1>8, <1>9, <1>10, <1>11, <1>12, <1>13, Zenon

\* The reference is dropped.
LEMMA BrelseStep ==
  ASSUME IInv, NEW p \in Proc, Brelse(p)
  PROVE  IInv'
<1> USE DEF IInv, BuffersHeld
<1>1. PICK b \in Buf : b = pc[p].buf
  BY HasBuf, Zenon DEF Brelse
<1>2. /\ pc[p].at = "brelse" /\ refcnt' = [refcnt EXCEPT ![b] = @ - 1]
      /\ list' = (IF refcnt[b] = 1 THEN MoveToFront(b) ELSE list)
      /\ pc' = [pc EXCEPT ![p] = Idle]
      /\ UNCHANGED <<block, valid, data, owner, disk, pinned, asleep, panicked>>
  BY <1>1, Zenon DEF Brelse
<1>3. pc'[p] = Idle /\ pc' \in [Proc -> Place] /\ \A q \in Proc : q # p => pc'[q] = pc[q]
  BY <1>2, IdleFacts, Zenon DEF TypeOK, Place
<1>4. pc'[p].at = "idle" /\ pc'[p].buf = None
  BY <1>3, IdleFacts, Zenon
<1>5. ~pc'[p].dirty /\ ~pc[p].dirty
  BY <1>2, <1>3, IdleFacts, Zenon DEF PcInv
<1>6. RefcntExact' /\ refcnt[b] \in Nat \ {0}
  <2>1. \A q \in Proc : q # p => pc'[q].buf = pc[q].buf
    BY <1>3, Zenon
  <2> QED BY <1>1, <1>2, <1>4, <2>1, RefDown, Zenon
<1>7. TypeOK'
  <2>1. list' \in Orders
    BY <1>2, MoveOrder, Zenon DEF TypeOK
  <2>2. refcnt[b] - 1 \in Nat
    BY <1>6
  <2>3. refcnt' \in [Buf -> Nat]
    BY <1>2, <2>2 DEF TypeOK
  <2> QED BY <1>2, <1>3, <2>1, <2>3 DEF TypeOK, Place
<1>8. OneBufPerBlock' /\ BufKept' /\ NoPanic'
  BY <1>2, <1>3, <1>4 DEF OneBufPerBlock, BufKept, NoPanic
<1>9. SleepJustified' /\ OwnerInv'
  <2>1. \A q \in asleep : q \in Proc /\ q # p
    BY <1>2, Zenon DEF PcInv, TypeOK
  <2> QED BY <1>2, <1>3, <1>4, <2>1, BufCacheAssumption DEF SleepJustified, OwnerInv
<1>10. PcInv'
  BY <1>2, <1>3, <1>4, <1>5 DEF PcInv
<1>11. DataInv' /\ PinInv'
  BY <1>2, <1>3, <1>5, DataSame, Zenon
<1> QED BY <1>6, <1>7, <1>8, <1>9, <1>10, <1>11, Zenon

-----------------------------------------------------------------------------
(* The holder of a buffer *)

\* bread() fills a buffer that is not valid.
LEMMA BreadStep ==
  ASSUME IInv, NEW p \in Proc, Bread(p)
  PROVE  IInv'
<1> USE DEF IInv, BuffersHeld
<1>1. PICK b \in Buf : b = pc[p].buf /\ block[b] \in Block
  BY HasBuf, Zenon DEF Bread
<1>2. /\ pc[p].at = "locked" /\ Goto(p, "use") /\ valid' = [valid EXCEPT ![b] = TRUE]
      /\ data' = (IF valid[b] THEN data ELSE [data EXCEPT ![b] = disk[block[b]]])
      /\ UNCHANGED <<list, block, refcnt, owner, disk, pinned, asleep, panicked>>
  BY <1>1, Zenon DEF Bread, cacheVars
<1>3. /\ pc' \in [Proc -> Place] /\ \A q \in Proc : q # p => pc'[q] = pc[q]
      /\ pc'[p].at = "use" /\ pc'[p].block = pc[p].block /\ pc'[p].buf = pc[p].buf
  BY <1>2, GotoFacts
<1>4. \A q \in Proc : pc'[q].buf = pc[q].buf /\ pc'[q].block = pc[q].block
  BY <1>3, Zenon
<1>5. \A q \in Proc : pc'[q].dirty <=> pc[q].dirty
  BY <1>2, <1>3, GotoFacts
<1>6. /\ valid'[b] /\ \A c \in Buf : c # b => (valid'[c] <=> valid[c]) /\ data'[c] = data[c]
      /\ valid[b] => data'[b] = data[b]
      /\ ~valid[b] => data'[b] = disk[block[b]]
  BY <1>2, Zenon DEF TypeOK
<1>7. TypeOK'
  <2>1. data' \in [Buf -> Val] /\ valid' \in [Buf -> BOOLEAN]
    BY <1>1, <1>2, Zenon DEF TypeOK
  <2> QED BY <1>2, <1>3, <2>1, Zenon DEF TypeOK, Place
<1>8. RefcntExact'
  BY <1>2, <1>4, RefSame
<1>9. OneBufPerBlock' /\ BufKept' /\ NoPanic'
  BY <1>2, <1>3, <1>4 DEF OneBufPerBlock, BufKept, NoPanic
<1>10. SleepJustified' /\ OwnerInv'
  BY <1>2, <1>3, <1>4 DEF SleepJustified, OwnerInv, TypeOK
<1>11. PcInv'
  <2>1. \A q \in Proc : pc[q].at = "use" => valid'[pc[q].buf]
    BY <1>6 DEF PcInv
  <2>2. pc[p].buf \in Buf /\ pc[p].block \in Block /\ p \notin asleep
    BY <1>2, HasBuf, Zenon DEF PcInv
  <2> QED BY <1>1, <1>2, <1>3, <1>5, <1>6, <2>1, <2>2 DEF PcInv
<1>12. Reserved' = Reserved
  BY <1>2, <1>4, <1>5, ReservedSame, Zenon
<1>13. DataInv'
  <2>1. ASSUME NEW c \in Buf, c # b
        PROVE  /\ c \in pinned' => valid'[c]
               /\ valid'[c] => block'[c] \in Block
               /\ valid'[c] /\ c \notin Reserved' => data'[c] = disk'[block'[c]]
    BY <1>2, <1>6, <1>12, <2>1 DEF DataInv
  <2>2. valid'[b] /\ block'[b] \in Block /\ (b \notin Reserved' => data'[b] = disk'[block'[b]])
    BY <1>1, <1>2, <1>6, <1>12, Zenon DEF DataInv
  <2> QED BY <2>1, <2>2, Zenon DEF DataInv
<1> QED BY <1>7, <1>8, <1>9, <1>10, <1>11, <1>12, <1>13, Zenon DEF PinInv

\* Only the owner of the lock has a buffer in use.
LEMMA OneUser ==
  ASSUME IInv, NEW p \in Proc, pc[p].at = "use", NEW q \in Proc, pc[q].at = "use",
         pc[p].buf = pc[q].buf
  PROVE  p = q
<1>1. PICK b \in Buf : b = pc[p].buf
  BY HasBuf, Zenon
<1> QED BY <1>1 DEF IInv, OwnerInv

\* The contents are changed, and the buffer will be pinned.
LEMMA ChangeStep ==
  ASSUME IInv, NEW p \in Proc, Change(p)
  PROVE  IInv'
<1> USE DEF IInv, BuffersHeld
<1>1. PICK b \in Buf : b = pc[p].buf
  BY HasBuf, Zenon DEF Change
<1>2. PICK v \in Val : data' = [data EXCEPT ![b] = v]
  BY <1>1, Zenon DEF Change
<1>3. /\ pc[p].at = "use" /\ (b \in Reserved \/ Cardinality(Reserved) < MaxPins)
      /\ pc' = [pc EXCEPT ![p].dirty = TRUE]
      /\ UNCHANGED <<list, block, refcnt, valid, owner, disk, pinned, asleep, panicked>>
  BY <1>1, Zenon DEF Change, cacheVars
<1>4. /\ pc' \in [Proc -> Place] /\ \A q \in Proc : q # p => pc'[q] = pc[q]
      /\ pc'[p].at = pc[p].at /\ pc'[p].block = pc[p].block /\ pc'[p].buf = pc[p].buf
  BY <1>3, MarkFacts, Zenon
<1>5. pc'[p].dirty
  BY <1>3, MarkFacts, Zenon
<1>6. \A q \in Proc : pc'[q].at = pc[q].at /\ pc'[q].buf = pc[q].buf /\ pc'[q].block = pc[q].block
  BY <1>4, Zenon
<1>7. TypeOK'
  BY <1>2, <1>3, <1>4, Zenon DEF TypeOK, Place
<1>8. RefcntExact'
  BY <1>3, <1>6, RefSame, Zenon
<1>9. OneBufPerBlock' /\ BufKept' /\ NoPanic'
  BY <1>3, <1>6 DEF OneBufPerBlock, BufKept, NoPanic
<1>10. SleepJustified' /\ OwnerInv'
  BY <1>3, <1>6 DEF SleepJustified, OwnerInv, TypeOK
<1>11. PcInv'
  BY <1>3, <1>4, <1>5 DEF PcInv
<1>12. Reserved' = Reserved \cup {b}
  <2>1. Marked' = Marked \cup {p}
    BY <1>4, <1>5, Zenon DEF Marked
  <2>2. \A q \in Marked : q \in Proc
    BY Zenon DEF Marked
  <2>3. \A c : c \in Reserved' <=> c \in Reserved \/ c = b
    BY <1>1, <1>3, <1>6, <2>1, <2>2, ReservedMarked
  <2> QED BY <2>3, Zenon
<1>13. PinInv'
  <2>1. Cardinality(Reserved \cup {b}) =
          IF b \in Reserved THEN Cardinality(Reserved) ELSE Cardinality(Reserved) + 1
    BY ReservedFinite, FS_AddElement, Zenon
  <2>2. Cardinality(Reserved) \in Nat
    BY ReservedFinite, Zenon
  <2> QED BY <1>3, <1>12, <2>1, <2>2, BufCacheAssumption DEF PinInv
<1>14. DataInv'
  <2>1. \A c \in Buf : c # b => data'[c] = data[c]
    BY <1>2, Zenon DEF TypeOK
  <2> QED BY <1>3, <1>12, <2>1, Zenon DEF DataInv
<1> QED BY <1>7, <1>8, <1>9, <1>10, <1>11, <1>13, <1>14, Zenon

\* log_write() pins the buffer.
LEMMA BpinStep ==
  ASSUME IInv, NEW p \in Proc, bpin(p)
  PROVE  IInv'
<1> USE DEF IInv, BuffersHeld
<1>1. PICK b \in Buf : b = pc[p].buf
  BY HasBuf, Zenon DEF bpin
<1>2. /\ pc[p].at = "use" /\ pc[p].dirty /\ pinned' = pinned \cup {b}
      /\ refcnt' = (IF b \in pinned THEN refcnt ELSE [refcnt EXCEPT ![b] = @ + 1])
      /\ pc' = [pc EXCEPT ![p].dirty = FALSE]
      /\ UNCHANGED <<list, block, valid, data, owner, disk, asleep, panicked>>
  BY <1>1, Zenon DEF bpin
<1>3. /\ pc' \in [Proc -> Place] /\ \A q \in Proc : q # p => pc'[q] = pc[q]
      /\ pc'[p].at = pc[p].at /\ pc'[p].block = pc[p].block /\ pc'[p].buf = pc[p].buf
  BY <1>2, MarkFacts, Zenon
<1>4. ~pc'[p].dirty
  BY <1>2, MarkFacts, Zenon
<1>5. \A q \in Proc : pc'[q].at = pc[q].at /\ pc'[q].buf = pc[q].buf /\ pc'[q].block = pc[q].block
  BY <1>3, Zenon
<1>6. TypeOK'
  <2>1. refcnt' \in [Buf -> Nat]
    BY <1>2 DEF TypeOK
  <2> QED BY <1>2, <1>3, <2>1, Zenon DEF TypeOK, Place
<1>7. RefcntExact'
  <2>1. \A c \in Buf : Refs(c)' = Refs(c)
    BY <1>5, Zenon DEF Refs
  <2>2. Pin(b)' = 1 /\ \A c \in Buf : c # b => Pin(c)' = Pin(c) /\ refcnt'[c] = refcnt[c]
    BY <1>2, Zenon DEF Pin, TypeOK
  <2>3. refcnt'[b] = Cardinality(Refs(b)) + 1
    BY <1>2, RefFacts DEF Pin, TypeOK
  <2> QED BY <2>1, <2>2, <2>3, RefFacts, RefExact, Zenon
<1>8. OneBufPerBlock' /\ BufKept' /\ NoPanic'
  BY <1>2, <1>5 DEF OneBufPerBlock, BufKept, NoPanic
<1>9. SleepJustified' /\ OwnerInv'
  BY <1>2, <1>5 DEF SleepJustified, OwnerInv, TypeOK
<1>10. PcInv'
  BY <1>2, <1>3, <1>4 DEF PcInv
<1>11. Reserved' = Reserved
  <2>1. Marked' = Marked \ {p} /\ p \in Marked
    BY <1>2, <1>3, <1>4, Zenon DEF Marked
  <2>2. \A q \in Marked : q \in Proc
    BY Zenon DEF Marked
  <2>3. \A c : c \in Reserved' <=> c \in Reserved
    BY <1>1, <1>2, <1>5, <2>1, <2>2, ReservedMarked
  <2> QED BY <2>3, Zenon
<1>12. DataInv' /\ PinInv'
  <2>1. valid[b]
    BY <1>1, <1>2 DEF PcInv
  <2> QED BY <1>2, <1>11, <2>1, Zenon DEF DataInv, PinInv
<1> QED BY <1>6, <1>7, <1>8, <1>9, <1>10, <1>12

\* install_trans() writes the buffer to the disk and drops the pin.
LEMMA InstallStep ==
  ASSUME IInv, NEW p \in Proc, Install(p)
  PROVE  IInv'
<1> USE DEF IInv, BuffersHeld
<1>1. PICK b \in Buf : b = pc[p].buf /\ block[b] \in Block
  BY HasBuf, Zenon DEF Install
<1>2. /\ pc[p].at = "use" /\ ~pc[p].dirty /\ b \in pinned /\ pinned' = pinned \ {b}
      /\ disk' = [disk EXCEPT ![block[b]] = data[b]] /\ refcnt' = [refcnt EXCEPT ![b] = @ - 1]
      /\ UNCHANGED <<list, block, valid, data, owner, pc, asleep, panicked>>
  BY <1>1 DEF Install
<1>3. refcnt[b] = Cardinality(Refs(b)) + 1 /\ Cardinality(Refs(b)) \in Nat
  BY <1>2, RefFacts, Zenon DEF Pin
<1>4. TypeOK'
  <2>1. refcnt' \in [Buf -> Nat]
    BY <1>2, <1>3 DEF TypeOK
  <2>2. disk' \in [Block -> Val]
    BY <1>1, <1>2 DEF TypeOK
  <2> QED BY <1>2, <2>1, <2>2 DEF TypeOK
<1>5. RefcntExact'
  <2>1. \A c \in Buf : Refs(c)' = Refs(c)
    BY <1>2, Zenon DEF Refs
  <2>2. Pin(b)' = 0 /\ \A c \in Buf : c # b => Pin(c)' = Pin(c) /\ refcnt'[c] = refcnt[c]
    BY <1>2, Zenon DEF Pin, TypeOK
  <2>3. refcnt'[b] = Cardinality(Refs(b))
    BY <1>2, <1>3 DEF TypeOK
  <2>4. refcnt'[b] = Cardinality(Refs(b)') + Pin(b)'
    BY <1>3, <2>1, <2>2, <2>3
  <2> QED BY <2>1, <2>2, <2>4, RefFacts, RefExact, Zenon
<1>6. OneBufPerBlock' /\ BufKept' /\ NoPanic'
  BY <1>2, Zenon DEF OneBufPerBlock, BufKept, NoPanic
<1>7. SleepJustified' /\ OwnerInv' /\ PcInv'
  <2>1. SleepJustified' /\ OwnerInv'
    BY <1>2 DEF SleepJustified, OwnerInv
  <2>2. PcInv'
    BY <1>2, Zenon DEF PcInv
  <2> QED BY <2>1, <2>2, Zenon
<1>8. \A q \in Proc : pc[q].dirty => pc[q].buf # b
  BY <1>1, <1>2, OneUser, Zenon DEF PcInv
<1>9. Reserved' = Reserved \ {b}
  <2>1. Marked' = Marked /\ \A q \in Marked : pc'[q] = pc[q] /\ pc[q].buf # b
    BY <1>2, <1>8, Zenon DEF Marked
  <2>2. \A c : c \in Reserved' <=> c \in Reserved /\ c # b
    BY <1>2, <2>1, ReservedMarked
  <2> QED BY <2>2, Zenon
<1>10. PinInv'
  <2>1. Cardinality(Reserved \ {b}) =
          IF b \in Reserved THEN Cardinality(Reserved) - 1 ELSE Cardinality(Reserved)
    BY ReservedFinite, FS_RemoveElement, Zenon
  <2>2. Cardinality(Reserved) \in Nat
    BY ReservedFinite, Zenon
  <2> QED BY <1>9, <2>1, <2>2, BufCacheAssumption DEF PinInv
<1>11. DataInv'
  <2>1. ASSUME NEW c \in Buf, c # b
        PROVE  /\ c \in pinned' => valid'[c]
               /\ valid'[c] => block'[c] \in Block
               /\ valid'[c] /\ c \notin Reserved' => data'[c] = disk'[block'[c]]
    <3>1. block[c] # block[b]
      BY <1>1, <2>1, BufCacheAssumption, Zenon DEF OneBufPerBlock
    <3>2. block[c] \in Block => disk'[block[c]] = disk[block[c]]
      BY <1>2, <3>1, Zenon DEF TypeOK
    <3> QED BY <1>2, <1>9, <2>1, <3>2, Zenon DEF DataInv
  <2>2. valid'[b] /\ block'[b] \in Block /\ data'[b] = disk'[block'[b]]
    BY <1>1, <1>2, Zenon DEF PcInv, TypeOK
  <2> QED BY <2>1, <2>2, Zenon DEF DataInv
<1> QED BY <1>4, <1>5, <1>6, <1>7, <1>10, <1>11, Zenon

-----------------------------------------------------------------------------
(* The invariant *)

\* binit() establishes it.
LEMMA InitIInv == Init => IInv
<1> SUFFICES ASSUME Init PROVE IInv
  BY Zenon
<1>1. list \in Orders
  <2>1. Orders # {}
    BY FS_CardinalityType, BufCacheAssumption, Zenon DEF Orders, ExistsBijection
  <2> QED BY <2>1, Zenon DEF Init
<1>2. \A p \in Proc : pc[p] = Idle
  BY Zenon DEF Init
<1>3. \A p \in Proc : pc[p].at = "idle" /\ pc[p].buf = None
  BY <1>2, IdleFacts, Zenon
<1>4. \A p \in Proc : ~pc[p].dirty
  BY <1>2, IdleFacts, Zenon
<1>5. pc \in [Proc -> Place]
  BY IdleFacts, Zenon DEF Init
<1>6. PICK v \in Val : data = [b \in Buf |-> v]
  BY Zenon DEF Init
<1>7. TypeOK
  BY <1>1, <1>5, <1>6, Zenon DEF Init, TypeOK, Place
<1>8. RefcntExact
  <2>1. \A b \in Buf : { p \in Proc : pc[p].buf = b } = {}
    BY <1>3, BufCacheAssumption, Zenon
  <2>2. Cardinality({}) = 0
    BY FS_EmptySet, Zenon
  <2>3. \A b \in Buf : refcnt[b] = 0 /\ b \notin pinned
    BY Zenon DEF Init
  <2> QED BY <2>1, <2>2, <2>3 DEF RefcntExact
<1>9. OneBufPerBlock /\ BufKept /\ SleepJustified /\ NoPanic
  BY <1>3, Zenon DEF Init, OneBufPerBlock, BufKept, SleepJustified, NoPanic
<1>10. PcInv
  BY <1>2, <1>3, <1>4, Zenon DEF Init, PcInv
<1>11. OwnerInv
  BY <1>3, BufCacheAssumption, Zenon DEF Init, OwnerInv
<1>12. DataInv
  BY Zenon DEF Init, DataInv
<1>13. PinInv
  <2>1. Reserved = {}
    BY <1>4, ReservedFacts, Zenon DEF Init
  <2> QED BY <2>1, FS_EmptySet, BufCacheAssumption DEF PinInv
<1> QED BY <1>7, <1>8, <1>9, <1>10, <1>11, <1>12, <1>13, Zenon DEF IInv, BuffersHeld

\* A step that changes nothing keeps it.
LEMMA IInvStutter ==
  ASSUME IInv, UNCHANGED vars
  PROVE  IInv'
<1> USE DEF IInv, BuffersHeld
<1>1. UNCHANGED <<list, block, refcnt, valid, data, owner, disk, pinned, pc, asleep, panicked>>
  BY Zenon DEF vars, cacheVars
<1>2. TypeOK'
  BY <1>1, Zenon DEF TypeOK
<1>3. RefcntExact' /\ OneBufPerBlock' /\ BufKept' /\ NoPanic'
  BY <1>1, Zenon DEF RefcntExact, OneBufPerBlock, BufKept, NoPanic
<1>4. SleepJustified' /\ OwnerInv'
  BY <1>1, Zenon DEF SleepJustified, OwnerInv
<1>5. PcInv'
  BY <1>1, Zenon DEF PcInv
<1>6. DataInv' /\ PinInv'
  BY <1>1, DataSame, Zenon
<1> QED BY <1>2, <1>3, <1>4, <1>5, <1>6, Zenon

\* Every step keeps it.
LEMMA IInvStep == IInv /\ [Next]_vars => IInv'
<1> SUFFICES ASSUME IInv, [Next]_vars PROVE IInv'
  BY Zenon
<1>1. ASSUME NEW p \in Proc, Step(p)
      PROVE  IInv'
  BY <1>1, BgetHitStep, BgetMissStep, AcquireStep, SpuriousStep, BreadStep, ChangeStep,
     BpinStep, InstallStep, ReleaseStep, BrelseStep DEF Step
<1> QED BY <1>1, IInvStutter, Zenon DEF Next

\* So it holds in every reachable state.
LEMMA Invariant == Spec => []IInv
BY InitIInv, IInvStep, PTL DEF Spec

\* A block is in one buffer, the buffer is counted and kept for those who wait for its
\* lock, they are woken, and bget() never panics: for every number of processes, buffers
\* and blocks, as long as there is a buffer for each process and for each pin.
THEOREM BufferInvariant == Spec => []BuffersHeld
<1>1. IInv => BuffersHeld
  BY Zenon DEF IInv
<1> QED BY <1>1, Invariant, PTL

-----------------------------------------------------------------------------
(* The blocks that the cache holds *)


\* A block has at most one user, who is its holder.
LEMMA UserFacts ==
  ASSUME IInv, NEW p \in Proc, pc[p].at = "use"
  PROVE  /\ pc[p].block \in Block /\ Users(pc[p].block) = {p} /\ holder[pc[p].block] = p
         /\ \A n \in Block : n # pc[p].block => p \notin Users(n)
<1>1. pc[p].block \in Block /\ p \in Users(pc[p].block)
  BY HasBuf DEF Users
<1>2. \A q \in Users(pc[p].block) : q = p
  <2> SUFFICES ASSUME NEW q \in Users(pc[p].block) PROVE q = p
    BY Zenon
  <2>1. q \in Proc /\ pc[q].at = "use" /\ pc[q].block = pc[p].block
    BY Zenon DEF Users
  <2>2. /\ pc[p].buf \in Buf /\ block[pc[p].buf] = pc[p].block
        /\ pc[q].buf \in Buf /\ block[pc[q].buf] = pc[p].block
    BY <2>1, HasBuf, Zenon
  <2>3. pc[p].buf = pc[q].buf
    BY <1>1, <2>2, BufCacheAssumption DEF IInv, BuffersHeld, OneBufPerBlock
  <2> QED BY <2>1, <2>3, OneUser, Zenon
<1>3. Users(pc[p].block) = {p}
  BY <1>1, <1>2, Zenon
<1>4. holder[pc[p].block] = p
  BY <1>1, <1>3, Zenon DEF holder
<1> QED BY <1>1, <1>3, <1>4, Zenon DEF Users

\* Nobody else uses a block whose lock p has.
LEMMA NoUser ==
  ASSUME IInv, NEW p \in Proc, pc[p].at = "locked"
  PROVE  Users(pc[p].block) = {}
<1> SUFFICES ASSUME NEW q \in Users(pc[p].block) PROVE FALSE
  BY Zenon
<1>1. q \in Proc /\ pc[q].at = "use" /\ pc[q].block = pc[p].block
  BY Zenon DEF Users
<1>2. /\ pc[p].block \in Block
      /\ pc[p].buf \in Buf /\ block[pc[p].buf] = pc[p].block
      /\ pc[q].buf \in Buf /\ block[pc[q].buf] = pc[p].block
  BY <1>1, HasBuf, Zenon
<1>3. pc[p].buf = pc[q].buf
  BY <1>2, BufCacheAssumption, Zenon DEF IInv, BuffersHeld, OneBufPerBlock
<1> QED BY <1>1, <1>2, <1>3 DEF IInv, OwnerInv

\* The current contents of a block are in its one valid buffer, or on the disk.
LEMMA CurrentOne ==
  ASSUME IInv, NEW n \in Block, NEW b \in Buf, block[b] = n
  PROVE  /\ valid[b] => Current(n) = {b} /\ content[n] = data[b]
         /\ ~valid[b] => Current(n) = {} /\ content[n] = disk[n]
<1>1. \A c \in Buf : block[c] = n => c = b
  BY BufCacheAssumption, Zenon DEF IInv, BuffersHeld, OneBufPerBlock
<1>2. valid[b] => Current(n) = {b}
  BY <1>1, Zenon DEF Current
<1>3. ~valid[b] => Current(n) = {}
  BY <1>1, Zenon DEF Current
<1> QED BY <1>2, <1>3, Zenon DEF content

\* The users of the blocks do not change.
LEMMA HolderSame ==
  ASSUME \A q \in Proc : /\ pc'[q].at = "use" <=> pc[q].at = "use"
                         /\ pc[q].at = "use" => pc'[q].block = pc[q].block
  PROVE  holder' = holder
<1>1. \A n \in Block : Users(n)' = Users(n)
  BY Zenon DEF Users
<1>2. ASSUME NEW n \in Block PROVE holder'[n] = holder[n]
  <2>1. holder[n] = IF Users(n) = {} THEN None ELSE CHOOSE p \in Users(n) : TRUE
    BY Zenon DEF holder
  <2>2. holder'[n] = IF Users(n)' = {} THEN None ELSE CHOOSE p \in Users(n)' : TRUE
    BY Zenon DEF holder
  <2>3. Users(n)' = Users(n)
    BY <1>1, Zenon
  <2> QED BY <2>1, <2>2, <2>3, Zenon
<1> QED BY <1>2, Zenon DEF holder

\* Neither does what they see.
LEMMA ContentSame ==
  ASSUME UNCHANGED <<block, valid, data, disk>>
  PROVE  content' = content
<1>1. \A n \in Block : Current(n)' = Current(n)
  BY Zenon DEF Current
<1>2. ASSUME NEW n \in Block PROVE content'[n] = content[n]
  <2>1. content[n] = IF Current(n) = {} THEN disk[n] ELSE data[CHOOSE b \in Current(n) : TRUE]
    BY DEF content
  <2>2. content'[n] = IF Current(n)' = {} THEN disk'[n]
                      ELSE data'[CHOOSE b \in Current(n)' : TRUE]
    BY Zenon DEF content
  <2>3. Current(n)' = Current(n)
    BY <1>1, Zenon
  <2> QED BY <2>1, <2>2, <2>3
<1> QED BY <1>2, Zenon DEF content


\* The holder and the contents of a block after a step.
LEMMA NextFacts ==
  ASSUME NEW n \in Block
  PROVE  /\ Users(n)' = {} => holder'[n] = None
         /\ \A p : Users(n)' = {p} => holder'[n] = p
         /\ Current(n)' = {} => content'[n] = disk'[n]
         /\ \A b : Current(n)' = {b} => content'[n] = data'[b]
<1>1. holder'[n] = IF Users(n)' = {} THEN None ELSE CHOOSE p \in Users(n)' : TRUE
  BY Zenon DEF holder
<1>2. content'[n] = IF Current(n)' = {} THEN disk'[n]
                    ELSE data'[CHOOSE b \in Current(n)' : TRUE]
  BY Zenon DEF content
<1> QED BY <1>1, <1>2, Zenon

\* The same, for a block whose buffers are left alone.
LEMMA ContentKept ==
  ASSUME NEW n \in Block, Current(n)' = Current(n), disk'[n] = disk[n],
         \A b \in Current(n) : data'[b] = data[b]
  PROVE  content'[n] = content[n]
<1>1. content[n] = IF Current(n) = {} THEN disk[n] ELSE data[CHOOSE b \in Current(n) : TRUE]
  BY Zenon DEF content
<1>2. content'[n] = IF Current(n)' = {} THEN disk'[n]
                    ELSE data'[CHOOSE b \in Current(n)' : TRUE]
  BY Zenon DEF content
<1>3. CASE Current(n) = {}
  BY <1>1, <1>2, <1>3, Zenon
<1>4. CASE Current(n) # {}
  <2>1. PICK c \in Current(n) : c = CHOOSE b \in Current(n) : TRUE
    BY <1>4, Zenon
  <2>2. content[n] = data[c] /\ content'[n] = data'[c]
    BY <1>1, <1>2, <1>4, <2>1
  <2> QED BY <2>1, <2>2, Zenon
<1> QED BY <1>3, <1>4, Zenon

\* A block that keeps its user keeps its holder.
LEMMA HolderKept ==
  ASSUME NEW n \in Block, Users(n)' = Users(n)
  PROVE  holder'[n] = holder[n]
<1>1. holder[n] = IF Users(n) = {} THEN None ELSE CHOOSE p \in Users(n) : TRUE
  BY Zenon DEF holder
<1>2. holder'[n] = IF Users(n)' = {} THEN None ELSE CHOOSE p \in Users(n)' : TRUE
  BY Zenon DEF holder
<1> QED BY <1>1, <1>2

\* A function that differs from another in one place.
LEMMA OnePlace ==
  ASSUME NEW S, NEW f, NEW g, NEW n \in S, NEW v,
         f = [m \in S |-> f[m]], g = [m \in S |-> g[m]],
         g[n] = v, \A m \in S : m # n => g[m] = f[m]
  PROVE  g = [f EXCEPT ![n] = v]
BY Zenon

\* The two functions of the store.
LEMMA HolderFcn ==
  /\ holder = [n \in Block |-> holder[n]] /\ holder' = [n \in Block |-> holder'[n]]
  /\ content = [n \in Block |-> content[n]] /\ content' = [n \in Block |-> content'[n]]
BY DEF holder, content

\* Recycling a buffer loses nothing: it has what the disk has.
LEMMA RecycleContent ==
  ASSUME IInv, NEW p \in Proc, NEW n \in Block, BgetMiss(p, n)
  PROVE  holder' = holder /\ content' = content
<1> USE DEF IInv, BuffersHeld
<1>1. pc[p] = Idle /\ Cached(n) = {} /\ UNCHANGED <<data, disk>>
  BY Zenon DEF BgetMiss
<1>2. Unused # {}
  BY <1>1, BufferLeft, Zenon
<1>3. PICK b \in Buf : b = Lru /\ refcnt[b] = 0
  BY <1>2, LruFacts, Zenon
<1>4. /\ block' = [block EXCEPT ![b] = n] /\ valid' = [valid EXCEPT ![b] = FALSE]
      /\ pc' = [pc EXCEPT ![p] = At("acquire", n, b)]
  BY <1>2, <1>3, Zenon DEF BgetMiss
<1>5. holder' = holder
  <2>1. /\ \A q \in Proc : q # p => pc'[q] = pc[q]
        /\ pc'[p].at = "acquire" /\ pc[p].at = "idle"
    BY <1>1, <1>4, EnterFacts, Zenon
  <2> QED BY <2>1, HolderSame, Zenon
<1>6. /\ ~valid'[b]
      /\ \A c \in Buf : c # b => block'[c] = block[c] /\ (valid'[c] <=> valid[c])
  BY <1>4, Zenon DEF TypeOK
<1>7. b \notin Reserved
  <2>1. b \notin pinned /\ \A q \in Proc : pc[q].buf # b
    BY <1>3, RefFacts, Zenon DEF Refs
  <2> QED BY <2>1, ReservedMarked, Zenon DEF Marked
<1>8. ASSUME NEW m \in Block PROVE content'[m] = content[m]
  <2>1. CASE b \in Current(m)
    <3>1. block[b] = m /\ valid[b]
      BY <2>1, Zenon DEF Current
    <3>2. Current(m) = {b} /\ content[m] = data[b]
      BY <3>1, CurrentOne, Zenon
    <3>3. data[b] = disk[m]
      BY <1>7, <3>1, Zenon DEF DataInv
    <3>4. m # n
      BY <1>1, <3>1, Zenon DEF Cached
    <3>5. Current(m)' = {}
      <4> SUFFICES ASSUME NEW c \in Buf, block'[c] = m, valid'[c] PROVE FALSE
        BY Zenon DEF Current
      <4>1. c # b
        BY <1>6, Zenon
      <4>2. c \in Current(m)
        BY <1>6, <4>1 DEF Current
      <4> QED BY <3>2, <4>1, <4>2
    <3> QED BY <1>1, <3>2, <3>3, <3>5, NextFacts
  <2>2. CASE b \notin Current(m)
    <3>1. \A c \in Buf : c \in Current(m)' <=> c \in Current(m)
      BY <1>6, <2>2, Zenon DEF Current
    <3>2. Current(m)' = Current(m)
      BY <3>1, Zenon DEF Current
    <3> QED BY <1>1, <3>2, ContentKept, Zenon
  <2> QED BY <2>1, <2>2, Zenon
<1>9. content' = content
  BY <1>8, Zenon DEF content
<1> QED BY <1>5, <1>9, Zenon

\* bread() locks the block, and shows what is in it.
LEMMA BreadLocks ==
  ASSUME IInv, IInv', NEW p \in Proc, Bread(p)
  PROVE  \E n \in Block : Blocks!Lock(p, n)
<1> USE DEF IInv, BuffersHeld
<1>1. PICK b \in Buf, n \in Block : b = pc[p].buf /\ block[b] = n /\ pc[p].block = n
  BY HasBuf, Zenon DEF Bread
<1>2. /\ pc[p].at = "locked" /\ Goto(p, "use") /\ valid' = [valid EXCEPT ![b] = TRUE]
      /\ data' = (IF valid[b] THEN data ELSE [data EXCEPT ![b] = disk[block[b]]])
      /\ UNCHANGED <<block, disk>>
  BY <1>1 DEF Bread, cacheVars
<1>3. /\ \A q \in Proc : q # p => pc'[q] = pc[q]
      /\ pc'[p].at = "use" /\ pc'[p].block = n
  BY <1>1, <1>2, GotoFacts, Zenon
<1>4. /\ valid'[b] /\ \A c \in Buf : c # b => (valid'[c] <=> valid[c]) /\ data'[c] = data[c]
      /\ valid[b] => data'[b] = data[b]
      /\ ~valid[b] => data'[b] = disk[n]
  BY <1>1, <1>2 DEF TypeOK
<1>5. Users(n) = {} /\ Users(n)' = {p} /\ \A m \in Block : m # n => Users(m)' = Users(m)
  <2>1. Users(n) = {}
    BY <1>1, <1>2, NoUser, Zenon
  <2>2. Users(n)' = {p}
    BY <1>3, <2>1 DEF Users
  <2>3. ASSUME NEW m \in Block, m # n PROVE Users(m)' = Users(m)
    BY <1>2, <1>3, <2>3, Zenon DEF Users
  <2> QED BY <2>1, <2>2, <2>3, Zenon
<1>6. holder[n] = None
  BY <1>5, Zenon DEF holder
<1>7. holder' = [holder EXCEPT ![n] = p]
  <2>1. holder'[n] = p /\ \A m \in Block : m # n => holder'[m] = holder[m]
    BY <1>5, NextFacts, HolderKept, Zenon
  <2> QED BY <2>1, HolderFcn, OnePlace, Zenon
<1>8. ASSUME NEW m \in Block PROVE content'[m] = content[m]
  <2>1. CASE m = n
    <3>1. content[n] = data'[b]
      BY <1>1, <1>4, CurrentOne
    <3>2. \A c \in Buf : block[c] = n => c = b
      BY <1>1, BufCacheAssumption, Zenon DEF OneBufPerBlock
    <3>3. Current(n)' = {b}
      BY <1>1, <1>2, <1>4, <3>2 DEF Current
    <3> QED BY <2>1, <3>1, <3>3, NextFacts, Zenon
  <2>2. CASE m # n
    <3>1. \A c \in Buf : block[c] = m => c # b
      BY <1>1, <2>2
    <3>2. Current(m)' = Current(m) /\ \A c \in Current(m) : data'[c] = data[c]
      BY <1>2, <1>4, <3>1, Zenon DEF Current
    <3> QED BY <1>2, <3>2, ContentKept, Zenon
  <2> QED BY <2>1, <2>2
<1>9. content' = content
  BY <1>8, Zenon DEF content
<1> QED BY <1>6, <1>7, <1>9, Zenon DEF Blocks!Lock

\* A change of the buffer is a change of the block, by its holder.
LEMMA ChangePuts ==
  ASSUME IInv, NEW p \in Proc, Change(p)
  PROVE  \E n \in Block, v \in Val : Blocks!Put(p, n, v)
<1> USE DEF IInv, BuffersHeld
<1>1. PICK b \in Buf, n \in Block : b = pc[p].buf /\ block[b] = n /\ pc[p].block = n
  BY HasBuf, Zenon DEF Change
<1>2. PICK v \in Val : data' = [data EXCEPT ![b] = v]
  BY <1>1, Zenon DEF Change
<1>3. pc[p].at = "use" /\ pc' = [pc EXCEPT ![p].dirty = TRUE] /\ UNCHANGED <<block, valid, disk>>
  BY Zenon DEF Change, cacheVars
<1>4. holder[n] = p
  BY <1>1, <1>3, UserFacts, Zenon
<1>5. holder' = holder
  <2>1. /\ \A q \in Proc : q # p => pc'[q] = pc[q]
        /\ pc'[p].at = pc[p].at /\ pc'[p].block = pc[p].block
    BY <1>3, MarkFacts, Zenon
  <2> QED BY <2>1, HolderSame, Zenon
<1>6. \A m \in Block : Current(m)' = Current(m)
  BY <1>3, Zenon DEF Current
<1>7. Current(n) = {b}
  BY <1>1, <1>3, CurrentOne, Zenon DEF PcInv
<1>8. data'[b] = v /\ \A c \in Buf : c # b => data'[c] = data[c]
  BY <1>2, Zenon DEF TypeOK
<1>9. content'[n] = v
  BY <1>6, <1>7, <1>8, NextFacts
<1>10. ASSUME NEW m \in Block, m # n PROVE content'[m] = content[m]
  <2>1. \A c \in Current(m) : data'[c] = data[c]
    BY <1>1, <1>8, <1>10 DEF Current
  <2> QED BY <1>3, <1>6, <2>1, ContentKept, Zenon
<1>11. content' = [content EXCEPT ![n] = v]
  BY <1>9, <1>10, HolderFcn, OnePlace, Zenon
<1> QED BY <1>4, <1>5, <1>11, Zenon DEF Blocks!Put

\* releasesleep() gives up the block.
LEMMA ReleaseUnlocks ==
  ASSUME IInv, NEW p \in Proc, Releasesleep(p)
  PROVE  \E n \in Block : Blocks!Unlock(p, n)
<1> USE DEF IInv, BuffersHeld
<1>1. PICK n \in Block : pc[p].block = n
  BY HasBuf, Zenon DEF Releasesleep
<1>2. pc[p].at = "use" /\ Goto(p, "brelse") /\ UNCHANGED <<block, valid, data, disk>>
  BY Zenon DEF Releasesleep, cacheVars
<1>3. pc'[p].at = "brelse" /\ \A q \in Proc : q # p => pc'[q] = pc[q]
  BY <1>2, GotoFacts, Zenon
<1>4. Users(n) = {p} /\ holder[n] = p /\ \A m \in Block : m # n => p \notin Users(m)
  BY <1>1, <1>2, UserFacts, Zenon
<1>5. Users(n)' = {}
  BY <1>3, <1>4 DEF Users
<1>6. \A m \in Block : m # n => Users(m)' = Users(m)
  BY <1>3, <1>4 DEF Users
<1>7. holder'[n] = None /\ \A m \in Block : m # n => holder'[m] = holder[m]
  BY <1>5, <1>6, NextFacts, HolderKept
<1>8. holder' = [holder EXCEPT ![n] = None]
  BY <1>7, HolderFcn, OnePlace, Zenon
<1>9. content' = content
  BY <1>2, ContentSame, Zenon
<1> QED BY <1>4, <1>8, <1>9, Zenon DEF Blocks!Unlock

\* install_trans() brings the disk up to date with what the users already see.
LEMMA InstallSame ==
  ASSUME IInv, NEW p \in Proc, Install(p)
  PROVE  holder' = holder /\ content' = content
<1> USE DEF IInv, BuffersHeld
<1>1. PICK b \in Buf, n \in Block : b = pc[p].buf /\ block[b] = n
  BY HasBuf DEF Install
<1>2. /\ pc[p].at = "use" /\ disk' = [disk EXCEPT ![n] = data[b]]
      /\ UNCHANGED <<block, valid, data, pc>>
  BY <1>1, Zenon DEF Install
<1>3. holder' = holder
  BY <1>2, HolderSame, Zenon
<1>4. \A m \in Block : Current(m)' = Current(m)
  BY <1>2, Zenon DEF Current
<1>5. Current(n) = {b} /\ content[n] = data[b]
  BY <1>1, <1>2, CurrentOne DEF PcInv
<1>6. content'[n] = content[n]
  BY <1>2, <1>4, <1>5, NextFacts
<1>7. \A m \in Block : m # n => disk'[m] = disk[m]
  BY <1>2, Zenon DEF TypeOK
<1>8. \A m \in Block : m # n => content'[m] = content[m]
  BY <1>2, <1>4, <1>7, ContentKept, Zenon
<1>9. content' = content
  BY <1>6, <1>8, Zenon DEF content
<1> QED BY <1>3, <1>9

\* A step at another place shows nothing to the users.
LEMMA QuietStep ==
  ASSUME IInv, NEW p \in Proc,
         \/ \E n \in Block : BgetHit(p, n)
         \/ acquiresleep(p) \/ Spurious(p) \/ bpin(p) \/ Brelse(p)
  PROVE  holder' = holder /\ content' = content
<1> USE DEF IInv, BuffersHeld
<1>1. UNCHANGED <<block, valid, data, disk>>
  BY Zenon DEF BgetHit, acquiresleep, Spurious, bpin, Brelse, cacheVars
<1>2. content' = content
  BY <1>1, ContentSame, Zenon
<1> DEFINE Same(q) == /\ pc'[q].at = "use" <=> pc[q].at = "use"
                      /\ pc[q].at = "use" => pc'[q].block = pc[q].block
<1>3. ASSUME NEW n \in Block, BgetHit(p, n) PROVE \A q \in Proc : Same(q)
  <2>1. PICK b \in Buf : pc[p] = Idle /\ pc' = [pc EXCEPT ![p] = At("acquire", n, b)]
    BY <1>3, Zenon DEF BgetHit, Cached
  <2>2. /\ \A q \in Proc : q # p => pc'[q] = pc[q]
        /\ pc'[p].at = "acquire" /\ pc[p].at = "idle"
    BY <2>1, EnterFacts, Zenon
  <2> QED BY <2>2, Zenon
<1>4. ASSUME acquiresleep(p) PROVE \A q \in Proc : Same(q)
  <2>1. pc[p].at = "acquire" /\ (pc' = pc \/ Goto(p, "locked"))
    BY <1>4, Zenon DEF acquiresleep
  <2>2. CASE Goto(p, "locked")
    <3>1. pc'[p].at = "locked" /\ \A q \in Proc : q # p => pc'[q] = pc[q]
      BY <2>2, GotoFacts, Zenon
    <3> QED BY <2>1, <3>1, Zenon
  <2> QED BY <2>1, <2>2, Zenon
<1>5. ASSUME Spurious(p) PROVE \A q \in Proc : Same(q)
  BY <1>5, Zenon DEF Spurious
<1>6. ASSUME bpin(p) PROVE \A q \in Proc : Same(q)
  <2>1. pc' = [pc EXCEPT ![p].dirty = FALSE]
    BY <1>6, Zenon DEF bpin
  <2>2. /\ \A q \in Proc : q # p => pc'[q] = pc[q]
        /\ pc'[p].at = pc[p].at /\ pc'[p].block = pc[p].block
    BY <2>1, MarkFacts, Zenon
  <2> QED BY <2>2, Zenon
<1>7. ASSUME Brelse(p) PROVE \A q \in Proc : Same(q)
  <2>1. pc[p].at = "brelse" /\ pc' = [pc EXCEPT ![p] = Idle]
    BY <1>7, Zenon DEF Brelse
  <2>2. pc'[p] = Idle /\ \A q \in Proc : q # p => pc'[q] = pc[q]
    BY <2>1, Zenon DEF TypeOK
  <2>3. pc'[p].at = "idle"
    BY <2>2, IdleFacts
  <2> QED BY <2>1, <2>2, <2>3
<1>8. \A q \in Proc : Same(q)
  <2> HIDE DEF Same
  <2> QED BY <1>3, <1>4, <1>5, <1>6, <1>7, Zenon
<1>9. holder' = holder
  BY <1>8, HolderSame, Zenon
<1> QED BY <1>2, <1>9, Zenon

\* A new cache shows the disk.
LEMMA BlocksInit == Init => Blocks!Init
<1> SUFFICES ASSUME Init PROVE Blocks!Init
  BY Zenon
<1>1. \A n \in Block : Users(n) = {} /\ Current(n) = {}
  BY IdleFacts DEF Init, Users, Current
<1>2. holder = [n \in Block |-> None] /\ content = [n \in Block |-> disk[n]]
  BY <1>1, Zenon DEF holder, content
<1> QED BY <1>2, Zenon DEF Init, Blocks!Init

\* Every step of the cache is a step of the store, or none.
LEMMA BlocksStep ==
  ASSUME IInv, IInv', [Next]_vars
  PROVE  [Blocks!Next]_<<holder, content>>
<1>1. ASSUME NEW p \in Proc, Step(p)
      PROVE  Blocks!Next \/ UNCHANGED <<holder, content>>
  <2>1. CASE Bread(p)
    BY <2>1, BreadLocks, Zenon DEF Blocks!Next
  <2>2. CASE Change(p)
    BY <2>2, ChangePuts, Zenon DEF Blocks!Next
  <2>3. CASE Releasesleep(p)
    BY <2>3, ReleaseUnlocks, Zenon DEF Blocks!Next
  <2>4. CASE Install(p)
    BY <2>4, InstallSame, Zenon
  <2>5. CASE \E n \in Block : BgetMiss(p, n)
    BY <2>5, RecycleContent, Zenon
  <2>6. CASE \/ \E n \in Block : BgetHit(p, n)
             \/ acquiresleep(p) \/ Spurious(p) \/ bpin(p) \/ Brelse(p)
    BY <2>6, QuietStep, Zenon
  <2> QED BY <1>1, <2>1, <2>2, <2>3, <2>4, <2>5, <2>6, Zenon DEF Step
<1>2. CASE UNCHANGED vars
  <2>1. UNCHANGED <<block, valid, data, disk, pc>>
    BY <1>2, Zenon DEF vars, cacheVars
  <2> QED BY <2>1, ContentSame, HolderSame, Zenon
<1> QED BY <1>1, <1>2, Zenon DEF Next

\* The cache with its recycling, sleep-locks and pins is a store of blocks with one holder
\* each, who sees what the last holder wrote: for every number of processes, buffers and
\* blocks.
THEOREM BlocksRefinement == Spec => ImplementsBlocks
<1>1. Init => Blocks!Init
  BY BlocksInit, Zenon
<1>2. IInv /\ IInv' /\ [Next]_vars => [Blocks!Next]_<<holder, content>>
  BY BlocksStep, Zenon
<1> QED BY <1>1, <1>2, Invariant, PTL DEF Spec, ImplementsBlocks, Blocks!Spec
=============================================================================
