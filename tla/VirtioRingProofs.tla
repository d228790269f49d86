-------------------------- MODULE VirtioRingProofs ---------------------------
(***************************************************************************)
(* The inductive invariant of VirtioDisk, the facts about ring indices,    *)
(* entries, places and descriptors that its proof needs, and the steps     *)
(* that keep the descriptors where they are.                               *)
(***************************************************************************)
EXTENDS VirtioDisk, Integers, FiniteSetTheorems, TLAPS

\* vdisk_lock is held by a process between formatting a request and notifying the device.
LockInv == \A p \in Proc : lock = p <=> pc[p].at = "ring"

\* The three descriptors of a request are linked to each other and to its buffer.
Second(p) == desc[pc[p].i].next
Third(p) == desc[Second(p)].next
ChainInv ==
  \A p \in Active :
    /\ {pc[p].i, Second(p), Third(p)} \subseteq Desc \ free
    /\ pc[p].i # Second(p) /\ pc[p].i # Third(p) /\ Second(p) # Third(p)
    /\ desc[pc[p].i].addr = pc[p].i /\ desc[Second(p)].addr = p /\ desc[Third(p)].addr = pc[p].i
    /\ ops[pc[p].i].type = pc[p].op /\ ops[pc[p].i].sector = p
    /\ info[pc[p].i].b = p

\* No descriptor is in two chains, and none is in no chain and not free.
ApartInv == \A p, q \in Active : p # q => Chain(pc[p].i) \cap Chain(pc[q].i) = {}
FreeInv == Cardinality(free) + 3 * Cardinality(Active) = NUM

\* The processes whose requests the device has been told of and the handler has not yet
\* seen done, and the first descriptors of requests that the device has or has not done.
Served == { p \in busy : pc[p].at = "wait" }
Heads == { pc[p].i : p \in Served }
Pending == { i \in Heads : info[i].status = 255 }
Finished == { i \in Heads : info[i].status = 0 }

\* A buffer is busy until the handler has seen its request done. A request that the
\* device has not been told of has its place in the avail ring.
BusyInv ==
  /\ busy \subseteq Active
  /\ \A p \in Active : p \notin busy => pc[p].at = "wait" /\ info[pc[p].i].status = 0
  /\ \A p \in Proc : pc[p].at = "ring" =>
       avail[aidx % NUM] = pc[p].i /\ info[pc[p].i].status = 255

\* The entries of a ring between two indices: how many they are, their set, and that no
\* two are the same.
Gap(lo, hi) == (WRAP + hi - lo) % WRAP
Window(r, lo, hi) == { r[(lo + k) % NUM] : k \in 0 .. Gap(lo, hi) - 1 }
Distinct(r, lo, hi) ==
  \A k, m \in 0 .. Gap(lo, hi) - 1 : k # m => r[(lo + k) % NUM] # r[(lo + m) % NUM]

\* A request that is not done is once in the avail ring or with the device; one that is
\* done is once in the used ring.
AvailInv ==
  /\ Window(avail, taken, aidx) \subseteq Pending \ inflight
  /\ Distinct(avail, taken, aidx)
InflightInv == inflight \subseteq Pending
UsedInv ==
  /\ Window(used, used_idx, uidx) \subseteq Finished
  /\ Distinct(used, used_idx, uidx)

\* There are no more of them than requests, so that the rings never overflow.
RoomInv ==
  Gap(taken, aidx) + Cardinality(inflight) + Gap(used_idx, uidx) <= Cardinality(Served)

\* Who waits for descriptors has to.
SleepInv == WaitingForDesc # {} => Cardinality(free) < 3

\* A write has data.
WriteInv == \A p \in Proc : pc[p].at # "idle" /\ pc[p].op = "write" => data[p] \in Val

DriverInv == LockInv /\ ChainInv /\ ApartInv /\ FreeInv /\ SleepInv /\ WriteInv
RingInv == BusyInv /\ AvailInv /\ InflightInv /\ UsedInv /\ RoomInv
IInv == TypeOK /\ DriverInv /\ RingInv

-----------------------------------------------------------------------------
(* The indices of a ring *)

\* A remainder is below the divisor, and differs from the number by a multiple of it.
LEMMA ModRange ==
  ASSUME NEW a \in Int, NEW n \in Nat \ {0}
  PROVE  a % n \in 0 .. n - 1 /\ \E q \in Int : a % n = a - n * q
<1>1. a \div n \in Int /\ a % n = a - n * (a \div n)
  OBVIOUS
<1>2. a % n \in 0 .. n - 1
  OBVIOUS
<1> QED BY <1>1, <1>2, Zenon

\* No other number below the divisor does.
LEMMA ModUnique ==
  ASSUME NEW a \in Int, NEW n \in Nat \ {0}, NEW q \in Int, NEW r \in 0 .. n - 1,
         a = n * q + r
  PROVE  a % n = r
OBVIOUS

\* The remainders of numbers are the same if they differ by a multiple of the divisor ...
LEMMA ModPeriod ==
  ASSUME NEW n \in Nat \ {0}, NEW x \in Int, NEW w \in Int, w % n = 0
  PROVE  (x + w) % n = x % n
<1>1. PICK m \in Int : w % n = w - n * m
  BY ModRange, Zenon
<1>2. PICK q \in Int : x % n = x - n * q
  BY ModRange, Zenon
<1>3. PICK r \in 0 .. n - 1 : r = x % n
  BY ModRange, Zenon
<1>4. n * (q + m) = n * q + n * m
  OBVIOUS
<1>5. PICK y \in Int, s \in Int : y = x + w /\ s = q + m
  OBVIOUS
<1>6. y = n * s + r
  BY <1>1, <1>2, <1>3, <1>4, <1>5
<1>7. y % n = r
  BY <1>6, ModUnique, Zenon
<1> QED BY <1>3, <1>5, <1>7, Zenon

\* ... and differ if they are closer than that.
LEMMA ModWindow ==
  ASSUME NEW n \in Nat \ {0}, NEW x \in Int, NEW y \in Int, x < y, y < x + n
  PROVE  y % n # x % n
<1> SUFFICES ASSUME y % n = x % n PROVE FALSE
  BY Zenon
<1>1. PICK q \in Int : x % n = x - n * q
  BY ModRange, Zenon
<1>2. PICK r \in Int : y % n = y - n * r
  BY ModRange, Zenon
<1>3. y - x = n * (r - q)
  BY <1>1, <1>2
<1> QED BY <1>3

\* The constants.
LEMMA Sizes ==
  /\ NUM \in Nat \ {0} /\ WRAP \in Nat \ {0} /\ 3 <= NUM /\ NUM <= WRAP
  /\ Ring = 0 .. NUM - 1 /\ Desc = 0 .. NUM - 1
BY VirtioAssumption DEF Ring, Desc

\* NUM divides WRAP.
LEMMA Divides == ASSUME NEW x \in Int PROVE (x + WRAP) % NUM = x % NUM
<1>1. NUM \in Nat \ {0} /\ WRAP \in Int
  BY Sizes
<1>2. WRAP % NUM = 0
  BY VirtioAssumption, Zenon
<1> QED BY <1>1, <1>2, ModPeriod, Zenon

Index == 0 .. WRAP - 1

\* How far the index hi is ahead of the index lo.
LEMMA GapFacts ==
  ASSUME NEW lo \in Index, NEW hi \in Index
  PROVE  /\ Gap(lo, hi) = IF lo <= hi THEN hi - lo ELSE WRAP + hi - lo
         /\ Gap(lo, hi) \in Index
         /\ Gap(lo, hi) = 0 <=> lo = hi
<1>1. CASE lo <= hi
  <2>1. hi - lo \in 0 .. WRAP - 1 /\ WRAP + hi - lo = WRAP * 1 + (hi - lo)
    BY <1>1, Sizes DEF Index
  <2>2. Gap(lo, hi) = hi - lo
    BY <2>1, Sizes, ModUnique DEF Gap, Index
  <2> QED BY <1>1, <2>1, <2>2 DEF Index
<1>2. CASE ~(lo <= hi)
  <2>1. WRAP + hi - lo \in 0 .. WRAP - 1 /\ WRAP + hi - lo = WRAP * 0 + (WRAP + hi - lo)
    BY <1>2, Sizes DEF Index
  <2>2. Gap(lo, hi) = WRAP + hi - lo
    BY <2>1, Sizes, ModUnique DEF Gap, Index
  <2> QED BY <1>2, <2>1, <2>2, Sizes DEF Index
<1> QED BY <1>1, <1>2, Zenon

\* An index goes on by one.
LEMMA NextIndex ==
  ASSUME NEW k \in Index
  PROVE  /\ (k + 1) % WRAP = IF k = WRAP - 1 THEN 0 ELSE k + 1
         /\ (k + 1) % WRAP \in Index
BY Sizes DEF Index

\* The gap grows with its upper index ...
LEMMA GapUp ==
  ASSUME NEW lo \in Index, NEW hi \in Index, Gap(lo, hi) + 1 < WRAP
  PROVE  Gap(lo, (hi + 1) % WRAP) = Gap(lo, hi) + 1
<1>1. PICK h \in Index : h = (hi + 1) % WRAP /\ h = IF hi = WRAP - 1 THEN 0 ELSE hi + 1
  BY NextIndex, Zenon
<1>2. Gap(lo, h) = IF lo <= h THEN h - lo ELSE WRAP + h - lo
  BY GapFacts, Zenon
<1>3. Gap(lo, hi) = IF lo <= hi THEN hi - lo ELSE WRAP + hi - lo
  BY GapFacts, Zenon
<1>4. Gap(lo, h) = Gap(lo, hi) + 1
  BY <1>1, <1>2, <1>3, Sizes DEF Index
<1> QED BY <1>1, <1>4, Zenon

\* ... and shrinks with the lower one.
LEMMA GapDown ==
  ASSUME NEW lo \in Index, NEW hi \in Index, lo # hi
  PROVE  Gap(lo, hi) > 0 /\ Gap((lo + 1) % WRAP, hi) = Gap(lo, hi) - 1
<1>1. PICK l \in Index : l = (lo + 1) % WRAP /\ l = IF lo = WRAP - 1 THEN 0 ELSE lo + 1
  BY NextIndex, Zenon
<1>2. Gap(l, hi) = IF l <= hi THEN hi - l ELSE WRAP + hi - l
  BY GapFacts, Zenon
<1>3. Gap(lo, hi) = IF lo <= hi THEN hi - lo ELSE WRAP + hi - lo
  BY GapFacts, Zenon
<1>4. Gap(l, hi) = Gap(lo, hi) - 1 /\ Gap(lo, hi) > 0
  BY <1>1, <1>2, <1>3, Sizes DEF Index
<1> QED BY <1>1, <1>4, Zenon

\* The slot of the upper index is behind the last entry.
LEMMA SlotFacts ==
  ASSUME NEW lo \in Index, NEW hi \in Index, Gap(lo, hi) < NUM
  PROVE  /\ hi % NUM \in Ring
         /\ (lo + Gap(lo, hi)) % NUM = hi % NUM
         /\ \A k \in 0 .. Gap(lo, hi) - 1 :
              (lo + k) % NUM \in Ring /\ (lo + k) % NUM # hi % NUM
<1>1. lo \in Int /\ hi \in Int /\ WRAP \in Int
  BY Sizes DEF Index
<1>2. Gap(lo, hi) \in Nat /\ (lo + Gap(lo, hi) = hi \/ lo + Gap(lo, hi) = hi + WRAP)
  <2>1. Gap(lo, hi) = (IF lo <= hi THEN hi - lo ELSE WRAP + hi - lo) /\ Gap(lo, hi) \in Index
    BY GapFacts, Zenon
  <2> QED BY <1>1, <2>1 DEF Index
<1>3. (hi + WRAP) % NUM = hi % NUM
  BY <1>1, Divides, Zenon
<1>4. (lo + Gap(lo, hi)) % NUM = hi % NUM
  BY <1>2, <1>3, Zenon
<1>5. hi % NUM \in Ring
  BY <1>1, Sizes, ModRange, Zenon
<1>6. ASSUME NEW k \in 0 .. Gap(lo, hi) - 1
      PROVE  (lo + k) % NUM \in Ring /\ (lo + k) % NUM # hi % NUM
  <2>1. lo + k \in Int /\ lo + Gap(lo, hi) \in Int /\ lo + k < lo + Gap(lo, hi)
        /\ lo + Gap(lo, hi) < (lo + k) + NUM
    <3>1. PICK n \in Nat : n = Gap(lo, hi)
      BY <1>2, Zenon
    <3>2. lo + k \in Int /\ lo + n \in Int /\ lo + k < lo + n /\ lo + n < (lo + k) + NUM
      BY <1>1, <3>1, Sizes
    <3> QED BY <3>1, <3>2, Zenon
  <2>2. (lo + Gap(lo, hi)) % NUM # (lo + k) % NUM
    BY <2>1, Sizes, ModWindow, Zenon
  <2>3. (lo + k) % NUM \in Ring
    BY <2>1, Sizes, ModRange, Zenon
  <2> QED BY <1>4, <2>2, <2>3, Zenon
<1> QED BY <1>4, <1>5, <1>6, Zenon

\* After a step of the lower index the entries have moved by one, and the slot that it
\* leaves is none of theirs.
LEMMA ShiftFacts ==
  ASSUME NEW lo \in Index, NEW k \in Nat
  PROVE  /\ (((lo + 1) % WRAP) + k) % NUM = (lo + (k + 1)) % NUM
         /\ lo % NUM \in Ring /\ (lo + (k + 1)) % NUM \in Ring
         /\ k + 1 < NUM => (lo + (k + 1)) % NUM # lo % NUM
<1>1. lo \in Int /\ k \in Int /\ WRAP \in Int /\ lo + (k + 1) \in Int
  BY Sizes DEF Index
<1>2. (((lo + 1) % WRAP) + k) % NUM = (lo + (k + 1)) % NUM
  <2>1. CASE lo = WRAP - 1
    <3>1. ((lo + 1) % WRAP) + k = k /\ lo + (k + 1) = k + WRAP
      BY <1>1, <2>1, NextIndex
    <3>2. (k + WRAP) % NUM = k % NUM
      BY <1>1, Divides, Zenon
    <3> QED BY <3>1, <3>2, Zenon
  <2>2. CASE lo # WRAP - 1
    <3>1. (lo + 1) % WRAP = lo + 1
      BY <2>2, NextIndex, Zenon
    <3>2. (lo + 1) + k = lo + (k + 1)
      BY <1>1
    <3> QED BY <3>1, <3>2, Zenon
  <2> QED BY <2>1, <2>2, Zenon
<1>3. lo % NUM \in Ring /\ (lo + (k + 1)) % NUM \in Ring
  BY <1>1, Sizes, ModRange, Zenon
<1>4. ASSUME k + 1 < NUM PROVE (lo + (k + 1)) % NUM # lo % NUM
  <2>1. lo < lo + (k + 1) /\ lo + (k + 1) < lo + NUM
    BY <1>1, <1>4, Sizes
  <2> QED BY <1>1, <2>1, Sizes, ModWindow, Zenon
<1> QED BY <1>2, <1>3, <1>4, Zenon

\* A slot of a ring is written.
LEMMA RingWrite ==
  ASSUME NEW r \in [Ring -> Desc], NEW k, NEW x \in Desc, NEW t, t = [r EXCEPT ![k] = x]
  PROVE  /\ t \in [Ring -> Desc] /\ (k \in Ring => t[k] = x)
         /\ \A s \in Ring : s # k => t[s] = r[s]
BY Zenon

\* Writing to the slot of the upper index changes no entry ...
LEMMA WindowSame ==
  ASSUME NEW r \in [Ring -> Desc], NEW t \in [Ring -> Desc],
         NEW lo \in Index, NEW hi \in Index, Gap(lo, hi) < NUM,
         \A s \in Ring : s # hi % NUM => t[s] = r[s]
  PROVE  /\ Window(t, lo, hi) = Window(r, lo, hi)
         /\ Distinct(r, lo, hi) => Distinct(t, lo, hi)
<1>1. \A k \in 0 .. Gap(lo, hi) - 1 : t[(lo + k) % NUM] = r[(lo + k) % NUM]
  BY SlotFacts, Zenon
<1> QED BY <1>1, Zenon DEF Window, Distinct

\* ... and makes one, if the index moves on.
LEMMA WindowPut ==
  ASSUME NEW r \in [Ring -> Desc], NEW t \in [Ring -> Desc],
         NEW lo \in Index, NEW hi \in Index, Gap(lo, hi) + 1 < NUM,
         \A s \in Ring : s # hi % NUM => t[s] = r[s],
         NEW h, h = (hi + 1) % WRAP
  PROVE  /\ h \in Index /\ Gap(lo, h) = Gap(lo, hi) + 1
         /\ Window(t, lo, h) = Window(r, lo, hi) \cup {t[hi % NUM]}
         /\ Distinct(r, lo, hi) /\ t[hi % NUM] \notin Window(r, lo, hi) => Distinct(t, lo, h)
<1>0. PICK n \in Nat : n = Gap(lo, hi)
  <2>1. Index \subseteq Nat
    BY Sizes DEF Index
  <2> QED BY <2>1, GapFacts, Zenon
<1>1. n < NUM /\ h \in Index /\ Gap(lo, h) = n + 1
  <2>1. n + 1 < NUM /\ n + 1 < WRAP
    BY <1>0, Sizes
  <2>2. h \in Index
    BY NextIndex, Zenon
  <2>3. Gap(lo, hi) + 1 < WRAP
    BY <1>0, <2>1, Zenon
  <2>4. Gap(lo, h) = Gap(lo, hi) + 1
    BY <2>3, GapUp, Zenon
  <2>5. n < NUM
    BY <2>1, Sizes
  <2> QED BY <1>0, <2>2, <2>4, <2>5, Zenon
<1>2. /\ t[(lo + n) % NUM] = t[hi % NUM]
      /\ \A k \in 0 .. n - 1 : t[(lo + k) % NUM] = r[(lo + k) % NUM]
  BY <1>0, <1>1, SlotFacts
<1>3. /\ Window(r, lo, hi) = { r[(lo + k) % NUM] : k \in 0 .. n - 1 }
      /\ Window(t, lo, h) = { t[(lo + k) % NUM] : k \in 0 .. (n + 1) - 1 }
  BY <1>0, <1>1, Zenon DEF Window
<1>4. 0 .. (n + 1) - 1 = (0 .. n - 1) \cup {n}
  BY <1>1
<1>5. Window(t, lo, h) = Window(r, lo, hi) \cup {t[hi % NUM]}
  <2>1. \A k \in 0 .. (n + 1) - 1 : t[(lo + k) % NUM] \in Window(r, lo, hi) \cup {t[hi % NUM]}
    BY <1>2, <1>3, <1>4, Zenon
  <2>2. \A k \in 0 .. n - 1 : r[(lo + k) % NUM] \in Window(t, lo, h)
    BY <1>2, <1>3, <1>4, Zenon
  <2>3. t[hi % NUM] \in Window(t, lo, h)
    BY <1>2, <1>3, <1>4, Zenon
  <2>4. Window(t, lo, h) \subseteq Window(r, lo, hi) \cup {t[hi % NUM]}
    BY <1>3, <2>1, Zenon
  <2>5. Window(r, lo, hi) \subseteq Window(t, lo, h)
    BY <1>3, <2>2, Zenon
  <2> QED BY <2>3, <2>4, <2>5, Zenon
<1>6. ASSUME Distinct(r, lo, hi), t[hi % NUM] \notin Window(r, lo, hi)
      PROVE  Distinct(t, lo, h)
  <2>1. \A k, m \in 0 .. n - 1 : k # m => r[(lo + k) % NUM] # r[(lo + m) % NUM]
    BY <1>0, <1>6, Zenon DEF Distinct
  <2>2. \A k \in 0 .. n - 1 : r[(lo + k) % NUM] # t[(lo + n) % NUM]
    BY <1>2, <1>3, <1>6, Zenon
  <2>3. \A k, m \in 0 .. (n + 1) - 1 : k # m => t[(lo + k) % NUM] # t[(lo + m) % NUM]
    BY <1>2, <1>4, <2>1, <2>2, Zenon
  <2> QED BY <1>1, <2>3, Zenon DEF Distinct
<1> QED BY <1>0, <1>1, <1>5, <1>6, Zenon

\* A step of the lower index removes the first entry, even if its slot is overwritten.
LEMMA WindowTake ==
  ASSUME NEW r \in [Ring -> Desc], NEW t \in [Ring -> Desc],
         NEW lo \in Index, NEW hi \in Index, lo # hi, Gap(lo, hi) < NUM,
         \A s \in Ring : s # lo % NUM => t[s] = r[s], Distinct(r, lo, hi),
         NEW l, l = (lo + 1) % WRAP
  PROVE  /\ l \in Index /\ Gap(lo, hi) = Gap(l, hi) + 1 /\ Gap(l, hi) \in Nat
         /\ r[lo % NUM] \in Window(r, lo, hi)
         /\ Window(t, l, hi) = Window(r, lo, hi) \ {r[lo % NUM]}
         /\ Distinct(t, l, hi)
<1>0. l \in Index /\ Gap(lo, hi) > 0 /\ Gap(l, hi) = Gap(lo, hi) - 1
  BY GapDown, NextIndex, Zenon
<1>1. PICK n \in Nat : n = Gap(l, hi) /\ Gap(lo, hi) = n + 1
  BY <1>0, GapFacts DEF Index
<1>2. /\ Window(r, lo, hi) = { r[(lo + k) % NUM] : k \in 0 .. (n + 1) - 1 }
      /\ Window(t, l, hi) = { t[(l + k) % NUM] : k \in 0 .. n - 1 }
      /\ \A k, m \in 0 .. (n + 1) - 1 : k # m => r[(lo + k) % NUM] # r[(lo + m) % NUM]
  BY <1>1, Zenon DEF Window, Distinct
<1>4. (lo + 0) % NUM = lo % NUM /\ 0 \in 0 .. (n + 1) - 1
  BY <1>1, Sizes DEF Index
<1>5. ASSUME NEW k \in 0 .. n - 1
      PROVE  t[(l + k) % NUM] = r[(lo + (k + 1)) % NUM] /\ k + 1 \in 0 .. (n + 1) - 1
  <2>1. k \in Nat /\ k + 1 < NUM
    BY <1>1, Sizes
  <2>2. k + 1 \in 0 .. (n + 1) - 1
    BY <1>1
  <2>3. (l + k) % NUM = (lo + (k + 1)) % NUM /\ (l + k) % NUM \in Ring /\ (l + k) % NUM # lo % NUM
    BY <2>1, ShiftFacts
  <2> QED BY <2>2, <2>3, Zenon
<1>6. \A k \in 0 .. (n + 1) - 1 : k # 0 => \E m \in 0 .. n - 1 : k = m + 1
  <2> SUFFICES ASSUME NEW k \in 0 .. (n + 1) - 1, k # 0
               PROVE  \E m \in 0 .. n - 1 : k = m + 1
    BY Zenon
  <2>1. k - 1 \in 0 .. n - 1 /\ k = (k - 1) + 1
    BY <1>1
  <2> QED BY <2>1, Zenon
<1>7. \A i \in Window(r, lo, hi) : i # r[lo % NUM] => i \in Window(t, l, hi)
  <2> SUFFICES ASSUME NEW k \in 0 .. (n + 1) - 1, r[(lo + k) % NUM] # r[lo % NUM]
               PROVE  r[(lo + k) % NUM] \in Window(t, l, hi)
    BY <1>2, Zenon
  <2>1. PICK m \in 0 .. n - 1 : k = m + 1
    BY <1>4, <1>6, Zenon
  <2>2. t[(l + m) % NUM] = r[(lo + k) % NUM]
    BY <1>5, <2>1, Zenon
  <2> QED BY <1>2, <2>2, Zenon
<1>8. \A i \in Window(t, l, hi) : i \in Window(r, lo, hi) /\ i # r[lo % NUM]
  <2> SUFFICES ASSUME NEW k \in 0 .. n - 1
               PROVE  /\ t[(l + k) % NUM] \in Window(r, lo, hi)
                      /\ t[(l + k) % NUM] # r[lo % NUM]
    BY <1>2, Zenon
  <2>1. k + 1 # 0 /\ k + 1 \in 0 .. (n + 1) - 1
    BY <1>1
  <2>2. t[(l + k) % NUM] = r[(lo + (k + 1)) % NUM]
    BY <1>5, Zenon
  <2>3. r[(lo + (k + 1)) % NUM] \in Window(r, lo, hi)
    BY <1>2, <2>1, Zenon
  <2>4. r[(lo + (k + 1)) % NUM] # r[lo % NUM]
    BY <1>2, <1>4, <2>1, Zenon
  <2> QED BY <2>2, <2>3, <2>4, Zenon
<1>9. \A k, m \in 0 .. n - 1 : k # m => t[(l + k) % NUM] # t[(l + m) % NUM]
  <2> SUFFICES ASSUME NEW k \in 0 .. n - 1, NEW m \in 0 .. n - 1, k # m
               PROVE  t[(l + k) % NUM] # t[(l + m) % NUM]
    BY Zenon
  <2>1. k + 1 # m + 1
    OBVIOUS
  <2>2. k + 1 \in 0 .. (n + 1) - 1 /\ m + 1 \in 0 .. (n + 1) - 1
    BY <1>5, Zenon
  <2>3. r[(lo + (k + 1)) % NUM] # r[(lo + (m + 1)) % NUM]
    BY <1>2, <2>1, <2>2, Zenon
  <2> QED BY <1>5, <2>3, Zenon
<1>10. r[lo % NUM] \in Window(r, lo, hi)
  BY <1>2, <1>4, Zenon
<1>11. Window(t, l, hi) = Window(r, lo, hi) \ {r[lo % NUM]}
  BY <1>7, <1>8, Zenon
<1>12. Distinct(t, l, hi)
  BY <1>1, <1>9, Zenon DEF Distinct
<1> QED BY <1>0, <1>1, <1>10, <1>11, <1>12, Zenon

-----------------------------------------------------------------------------
(* Places *)

\* What the place of a process says of its call and its descriptor.
LEMMA PlaceFacts ==
  ASSUME NEW x \in Places
  PROVE  /\ x.at \in {"idle", "enter", "nodesc", "ring", "wait"}
         /\ x = Idle <=> x.at = "idle"
         /\ x.at # "idle" => x.op \in {"read", "write"}
         /\ x.at \in {"ring", "wait"} => x.i \in Desc
         /\ x = [at |-> x.at, op |-> x.op, i |-> x.i]
BY DEF Places, At, Idle

\* The places of a call.
LEMMA PlaceTypes ==
  /\ Idle \in Places
  /\ \A s \in {"enter", "nodesc"}, op \in {"read", "write"} : At(s, op, None) \in Places
  /\ \A s \in {"ring", "wait"}, op \in {"read", "write"}, i \in Desc : At(s, op, i) \in Places
BY DEF Places

\* The fields of a place.
LEMMA AtFacts ==
  ASSUME NEW s, NEW op, NEW i
  PROVE  At(s, op, i).at = s /\ At(s, op, i).op = op /\ At(s, op, i).i = i
BY Zenon DEF At

\* The effect of a move of one process.
LEMMA GotoFacts ==
  ASSUME TypeOK, NEW p \in Proc, NEW x \in Places, Goto(p, x)
  PROVE  /\ pc' \in [Proc -> Places]
         /\ pc'[p] = x /\ \A q \in Proc : q # p => pc'[q] = pc[q]
BY DEF TypeOK, Goto

\* A process goes from one place of a call to another.
LEMMA MoveFacts ==
  ASSUME NEW x \in Places
  PROVE  /\ x.at \in {"enter", "nodesc"} =>
              \E y \in Places : /\ y = [x EXCEPT !.at = "nodesc"]
                                /\ y.at = "nodesc" /\ y.op = x.op
         /\ x.at = "ring" =>
              \E y \in Places : /\ y = [x EXCEPT !.at = "wait"]
                                /\ y.at = "wait" /\ y.op = x.op /\ y.i = x.i
<1>1. x = [at |-> x.at, op |-> x.op, i |-> x.i]
  BY PlaceFacts, Zenon
<1>2. \A s : [x EXCEPT !.at = s] = [at |-> s, op |-> x.op, i |-> x.i]
  BY <1>1
<1>3. x.at \in {"enter", "nodesc"} => [at |-> "nodesc", op |-> x.op, i |-> x.i] \in Places
  BY DEF Places, At, Idle
<1>4. x.at = "ring" => [at |-> "wait", op |-> x.op, i |-> x.i] \in Places
  BY DEF Places, At, Idle
<1> QED BY <1>2, <1>3, <1>4, Zenon

-----------------------------------------------------------------------------
(* Descriptors *)

\* A set of numbers has a least element, which Min() is.
LEMMA MinFacts ==
  ASSUME NEW S \in SUBSET Nat, S # {}
  PROVE  Min(S) \in S
<1>1. PICK R : R = OpToRel(<, Nat)
  BY Zenon
<1>2. IsWellFoundedOn(R, Nat)
  BY <1>1, NatLessThanWellFounded, Zenon
<1>3. PICK x \in S : \A y \in S : ~(<<y, x>> \in R)
  BY <1>2, WFMin, Zenon
<1>4. \A y \in S : <<y, x>> \in R <=> y < x
  BY <1>1, Zenon DEF OpToRel
<1>5. \A y \in S : ~(y < x)
  BY <1>3, <1>4, Zenon
<1>6. \A y \in S : x <= y
  BY <1>5
<1> QED BY <1>6, Zenon DEF Min

\* Three descriptors less, and three more.
LEMMA ThreeLess ==
  ASSUME NEW S, IsFiniteSet(S), NEW i \in S, NEW j \in S, NEW k \in S,
         i # j, i # k, j # k
  PROVE  IsFiniteSet(S \ {i, j, k}) /\ Cardinality(S \ {i, j, k}) = Cardinality(S) - 3
<1>1. IsFiniteSet(S \ {i}) /\ Cardinality(S \ {i}) = Cardinality(S) - 1
  BY FS_RemoveElement, Zenon
<1>2. IsFiniteSet((S \ {i}) \ {j}) /\ Cardinality((S \ {i}) \ {j}) = Cardinality(S \ {i}) - 1
  BY <1>1, FS_RemoveElement, Zenon
<1>3. /\ IsFiniteSet(((S \ {i}) \ {j}) \ {k})
      /\ Cardinality(((S \ {i}) \ {j}) \ {k}) = Cardinality((S \ {i}) \ {j}) - 1
  BY <1>2, FS_RemoveElement
<1>4. ((S \ {i}) \ {j}) \ {k} = S \ {i, j, k}
  BY Zenon
<1>5. /\ IsFiniteSet(S \ {i, j, k})
      /\ Cardinality(S \ {i, j, k}) = Cardinality((S \ {i}) \ {j}) - 1
  BY <1>3, <1>4, Zenon
<1>6. Cardinality(S) \in Nat
  BY FS_CardinalityType, Zenon
<1>7. Cardinality(S \ {i, j, k}) = Cardinality(S) - 3
  BY <1>1, <1>2, <1>5, <1>6
<1> QED BY <1>5, <1>7, Zenon

\* Adding three descriptors.
LEMMA ThreeMore ==
  ASSUME NEW S, IsFiniteSet(S), NEW i, NEW j, NEW k,
         i \notin S, j \notin S, k \notin S, i # j, i # k, j # k
  PROVE  Cardinality(S \cup {i, j, k}) = Cardinality(S) + 3
<1>1. PICK T : T = S \cup {i, j, k}
  BY Zenon
<1>2. IsFiniteSet({i, j, k})
  <2>1. IsFiniteSet({i} \cup {j}) /\ IsFiniteSet({k})
    BY FS_Singleton, FS_Union, Zenon
  <2>2. IsFiniteSet(({i} \cup {j}) \cup {k}) /\ ({i} \cup {j}) \cup {k} = {i, j, k}
    BY <2>1, FS_Union, Zenon
  <2> QED BY <2>2, Zenon
<1>3. IsFiniteSet(T)
  BY <1>1, <1>2, FS_Union, Zenon
<1>4. T \ {i, j, k} = S /\ i \in T /\ j \in T /\ k \in T
  BY <1>1, Zenon
<1>5. Cardinality(S) = Cardinality(T) - 3
  BY <1>3, <1>4, ThreeLess, Zenon
<1> QED BY <1>1, <1>3, <1>5, FS_CardinalityType

\* A chain has three descriptors.
LEMMA ThreeCount ==
  ASSUME NEW i, NEW j, NEW k, i # j, i # k, j # k
  PROVE  Cardinality({i, j, k}) = 3
<1>1. {} \cup {i, j, k} = {i, j, k}
  BY Zenon
<1>2. IsFiniteSet({}) /\ Cardinality({}) = 0
  BY FS_EmptySet, Zenon
<1>3. PICK S : S = {}
  BY Zenon
<1>4. i \notin S /\ j \notin S /\ k \notin S /\ IsFiniteSet(S)
  BY <1>2, <1>3, Zenon
<1>5. Cardinality(S \cup {i, j, k}) = Cardinality(S) + 3
  BY <1>4, ThreeMore, Zenon
<1> QED BY <1>1, <1>2, <1>3, <1>5

\* alloc3_desc() takes three different free descriptors.
LEMMA AllocFacts ==
  ASSUME free \subseteq Desc, Cardinality(free) >= 3
  PROVE  \E i, j, k \in free : alloc3_desc = <<i, j, k>> /\ i # j /\ i # k /\ j # k
<1>1. IsFiniteSet(free) /\ free \in SUBSET Nat
  <2>1. IsFiniteSet(Desc) /\ Desc \in SUBSET Nat
    BY Sizes, FS_Interval
  <2> QED BY <2>1, FS_Subset, Zenon
<1>2. Cardinality({}) = 0
  BY FS_EmptySet, Zenon
<1>3. PICK i : i = Min(free)
  BY Zenon
<1>4. i \in free /\ Cardinality(free \ {i}) = Cardinality(free) - 1 /\ IsFiniteSet(free \ {i})
  <2>1. free # {}
    BY <1>2
  <2> QED BY <1>1, <1>3, <2>1, MinFacts, FS_RemoveElement
<1>5. PICK j : j = Min(free \ {i})
  BY Zenon
<1>6. /\ j \in free \ {i}
      /\ Cardinality((free \ {i}) \ {j}) = Cardinality(free \ {i}) - 1
  <2>1. free \ {i} # {} /\ free \ {i} \in SUBSET Nat
    <3>1. Cardinality(free) \in Nat /\ Cardinality(free \ {i}) # 0
      BY <1>1, <1>4, FS_CardinalityType
    <3> QED BY <1>1, <1>2, <3>1, Zenon
  <2> QED BY <1>4, <1>5, <2>1, MinFacts, FS_RemoveElement, Zenon
<1>7. PICK k : k = Min(free \ {i, j})
  BY Zenon
<1>8. k \in free \ {i, j}
  <2>1. free \ {i, j} # {} /\ free \ {i, j} \in SUBSET Nat
    <3>1. (free \ {i}) \ {j} = free \ {i, j}
      BY Zenon
    <3>2. Cardinality(free) \in Nat
      BY <1>1, FS_CardinalityType, Zenon
    <3>3. Cardinality((free \ {i}) \ {j}) # 0
      BY <1>4, <1>6, <3>2
    <3> QED BY <1>1, <1>2, <3>1, <3>3, Zenon
  <2> QED BY <1>7, <2>1, MinFacts, Zenon
<1>9. alloc3_desc = <<i, j, k>>
  BY <1>3, <1>5, <1>7, Zenon DEF alloc3_desc
<1> QED BY <1>4, <1>6, <1>8, <1>9, Zenon

-----------------------------------------------------------------------------
(* Requests *)

\* There are at most NUM / 3 requests, and no more entries in the rings.
LEMMA CountFacts ==
  ASSUME IInv
  PROVE  /\ IsFiniteSet(free) /\ IsFiniteSet(Active) /\ IsFiniteSet(Served) /\ IsFiniteSet(inflight)
         /\ Cardinality(free) \in Nat /\ Cardinality(Active) \in Nat
         /\ Cardinality(Served) \in Nat /\ Cardinality(inflight) \in Nat
         /\ 3 * Cardinality(Active) <= NUM /\ Cardinality(Served) <= Cardinality(Active)
         /\ Gap(taken, aidx) \in Nat /\ Gap(used_idx, uidx) \in Nat
         /\ taken \in Index /\ aidx \in Index /\ used_idx \in Index /\ uidx \in Index
<1>1. IsFiniteSet(Desc)
  BY Sizes, FS_Interval
<1>2. IsFiniteSet(free) /\ IsFiniteSet(inflight)
  BY <1>1, FS_Subset, Zenon DEF IInv, TypeOK
<1>3. IsFiniteSet(Active)
  <2>1. IsFiniteSet(Proc) /\ Active \subseteq Proc
    BY VirtioAssumption, Zenon DEF Active
  <2> QED BY <2>1, FS_Subset, Zenon
<1>4. Served \subseteq Active
  BY Zenon DEF IInv, RingInv, BusyInv, Served
<1>5. IsFiniteSet(Served) /\ Cardinality(Served) <= Cardinality(Active)
  BY <1>3, <1>4, FS_Subset, Zenon
<1>6. /\ Cardinality(free) \in Nat /\ Cardinality(Active) \in Nat
      /\ Cardinality(Served) \in Nat /\ Cardinality(inflight) \in Nat
  BY <1>2, <1>3, <1>5, FS_CardinalityType, Zenon
<1>7. 3 * Cardinality(Active) <= NUM
  BY <1>6, Sizes DEF IInv, DriverInv, FreeInv
<1>8. taken \in Index /\ aidx \in Index /\ used_idx \in Index /\ uidx \in Index
  BY Zenon DEF IInv, TypeOK, Index
<1>9. Gap(taken, aidx) \in Nat /\ Gap(used_idx, uidx) \in Nat
  <2>1. Gap(taken, aidx) \in Index /\ Gap(used_idx, uidx) \in Index
    BY <1>8, GapFacts, Zenon
  <2> QED BY <2>1, Sizes DEF Index
<1> QED BY <1>2, <1>3, <1>5, <1>6, <1>7, <1>8, <1>9, Zenon

\* The rings are not full.
LEMMA RoomFacts ==
  ASSUME IInv
  PROVE  Gap(taken, aidx) < NUM /\ Gap(used_idx, uidx) < NUM
<1>1. Gap(taken, aidx) + Cardinality(inflight) + Gap(used_idx, uidx) <= Cardinality(Served)
  BY Zenon DEF IInv, RingInv, RoomInv
<1> QED BY <1>1, CountFacts, Sizes

\* A process with a request leaves room for one more entry.
LEMMA RoomLeft ==
  ASSUME IInv, NEW p \in Active
  PROVE  Gap(taken, aidx) + 1 < NUM /\ Gap(used_idx, uidx) + 1 < NUM
<1>1. Cardinality(Active) # 0
  BY CountFacts, FS_EmptySet, Zenon
<1>2. Gap(taken, aidx) + Cardinality(inflight) + Gap(used_idx, uidx) <= Cardinality(Served)
  BY Zenon DEF IInv, RingInv, RoomInv
<1>3. /\ Cardinality(Active) \in Nat /\ Cardinality(Served) \in Nat
      /\ Cardinality(inflight) \in Nat /\ 3 * Cardinality(Active) <= NUM
      /\ Cardinality(Served) <= Cardinality(Active)
      /\ Gap(taken, aidx) \in Nat /\ Gap(used_idx, uidx) \in Nat
  BY CountFacts, Zenon
<1> QED BY <1>1, <1>2, <1>3, Sizes

\* The process of a request.
LEMMA OwnerFacts ==
  ASSUME IInv, NEW i \in Heads
  PROVE  /\ i \in Desc /\ info[i].b \in Served /\ info[i].b \in Active /\ info[i].b \in Proc
         /\ pc[info[i].b].i = i /\ pc[info[i].b].at = "wait"
<1>1. PICK p \in Served : pc[p].i = i
  BY Zenon DEF Heads
<1>2. p \in Active /\ p \in Proc /\ pc[p].at = "wait"
  BY Zenon DEF IInv, RingInv, BusyInv, Served, Active
<1>3. info[i].b = p /\ i \in Desc
  BY <1>1, <1>2, Zenon DEF IInv, DriverInv, ChainInv
<1> QED BY <1>1, <1>2, <1>3, Zenon

\* Different requests start at different descriptors.
LEMMA HeadUnique ==
  ASSUME IInv, NEW p \in Active, NEW q \in Active, pc[p].i = pc[q].i
  PROVE  p = q
<1>1. info[pc[p].i].b = p /\ info[pc[q].i].b = q
  BY DEF IInv, DriverInv, ChainInv
<1> QED BY <1>1, Zenon

-----------------------------------------------------------------------------
(* Steps that change no request *)

\* They keep the invariants of the chains and the rings.
LEMMA OutsideStep ==
  ASSUME IInv,
         UNCHANGED <<free, busy, used_idx, info, ringVars, used, uidx, taken, inflight>>,
         \A q \in Proc : pc[q].at \in {"ring", "wait"} \/ pc'[q].at \in {"ring", "wait"} =>
                           pc'[q] = pc[q]
  PROVE  ChainInv' /\ ApartInv' /\ FreeInv' /\ RingInv'
<1>1. /\ free' = free /\ busy' = busy /\ used_idx' = used_idx /\ info' = info
      /\ desc' = desc /\ ops' = ops /\ avail' = avail /\ aidx' = aidx
      /\ used' = used /\ uidx' = uidx /\ taken' = taken /\ inflight' = inflight
  BY Zenon DEF ringVars
<1>2. Active' = Active /\ \A q \in Active : pc'[q] = pc[q] /\ q \in Proc
  BY Zenon DEF Active, InRing
<1>3. busy \subseteq Active
  BY Zenon DEF IInv, RingInv, BusyInv
<1>4. Served' = Served
  BY <1>1, <1>2, <1>3, Zenon DEF Served
<1>5. Heads' = Heads
  <2>1. \A q \in Served : pc'[q].i = pc[q].i
    BY <1>2, <1>3, Zenon DEF Served
  <2> QED BY <1>4, <2>1, Zenon DEF Heads
<1>6. ChainInv'
  <2>1. \A p \in Active : Second(p)' = Second(p) /\ Third(p)' = Third(p)
    BY <1>1, <1>2, Zenon DEF Second, Third
  <2> QED BY <1>1, <1>2, <2>1 DEF IInv, DriverInv, ChainInv
<1>7. ApartInv'
  BY <1>1, <1>2 DEF IInv, DriverInv, ApartInv, Chain
<1>8. FreeInv'
  BY <1>1, <1>2, Zenon DEF IInv, DriverInv, FreeInv
<1>9. BusyInv'
  BY <1>1, <1>2 DEF IInv, RingInv, BusyInv, Active, InRing
<1>10. Pending' = Pending /\ Finished' = Finished
  BY <1>1, <1>5, Zenon DEF Pending, Finished
<1>11. AvailInv' /\ InflightInv' /\ UsedInv'
  BY <1>1, <1>10, Zenon DEF IInv, RingInv, AvailInv, InflightInv, UsedInv
<1>12. RoomInv'
  BY <1>1, <1>4, Zenon DEF IInv, RingInv, RoomInv
<1> QED BY <1>6, <1>7, <1>8, <1>9, <1>10, <1>11, <1>12, Zenon DEF RingInv

\* A call begins.
LEMMA CallStep == ASSUME IInv, NEW p \in Proc, Call(p) PROVE IInv'
<1>1. /\ pc[p] = Idle /\ pc[p].at = "idle"
      /\ UNCHANGED <<free, lock, asleep, used_idx, busy, info, ringVars, deviceVars>>
  <2>1. Idle.at = "idle"
    BY AtFacts DEF Idle
  <2> QED BY <2>1, Zenon DEF Call
<1>2. PICK op \in {"read", "write"} : Goto(p, At("enter", op, None))
  BY Zenon DEF Call
<1>3. /\ pc' \in [Proc -> Places]
      /\ pc'[p].at = "enter" /\ pc'[p].op = op /\ \A q \in Proc : q # p => pc'[q] = pc[q]
  <2>1. At("enter", op, None) \in Places
    BY PlaceTypes, Zenon
  <2> QED BY <1>2, <2>1, GotoFacts, AtFacts DEF IInv
<1>4. /\ data' \in [Proc -> Val \cup {None}] /\ \A q \in Proc : q # p => data'[q] = data[q]
      /\ op = "write" => data'[p] \in Val
  <2>1. CASE Goto(p, At("enter", "read", None)) /\ UNCHANGED data
    <3>1. pc'[p].op = "read"
      BY <2>1, PlaceTypes, GotoFacts, AtFacts DEF IInv
    <3> QED BY <1>3, <2>1, <3>1, Zenon DEF IInv, TypeOK
  <2>2. CASE \E v \in Val : data' = [data EXCEPT ![p] = v]
    BY <2>2 DEF IInv, TypeOK
  <2> QED BY <2>1, <2>2, Zenon DEF Call
<1>5. ChainInv' /\ ApartInv' /\ FreeInv' /\ RingInv'
  BY <1>1, <1>3, OutsideStep, Zenon DEF deviceVars
<1>6. TypeOK'
  BY <1>1, <1>3, <1>4, Zenon DEF IInv, TypeOK, ringVars, deviceVars
<1>7. LockInv'
  BY <1>1, <1>3, Zenon DEF IInv, DriverInv, LockInv
<1>8. SleepInv'
  <2>1. WaitingForDesc' \subseteq WaitingForDesc
    BY <1>1, <1>3, Zenon DEF WaitingForDesc, IInv, TypeOK
  <2> QED BY <1>1, <2>1, Zenon DEF IInv, DriverInv, SleepInv
<1>9. WriteInv'
  BY <1>3, <1>4, Zenon DEF IInv, DriverInv, WriteInv
<1> QED BY <1>5, <1>6, <1>7, <1>8, <1>9, Zenon DEF IInv, DriverInv

\* A call finds fewer than three descriptors.
LEMMA RwNoDescStep == ASSUME IInv, NEW p \in Proc, RwNoDesc(p) PROVE IInv'
<1>1. /\ pc[p].at \in {"enter", "nodesc"} /\ Cardinality(free) < 3 /\ asleep' \subseteq Proc
      /\ Goto(p, [pc[p] EXCEPT !.at = "nodesc"])
      /\ UNCHANGED <<free, lock, used_idx, busy, info, data, ringVars, deviceVars>>
  BY DEF RwNoDesc, Tries, IInv, TypeOK
<1>2. /\ pc' \in [Proc -> Places] /\ pc'[p].at = "nodesc" /\ pc'[p].op = pc[p].op
      /\ \A q \in Proc : q # p => pc'[q] = pc[q]
  <2>1. pc[p] \in Places
    BY DEF IInv, TypeOK
  <2>2. PICK x \in Places : /\ x = [pc[p] EXCEPT !.at = "nodesc"]
                            /\ x.at = "nodesc" /\ x.op = pc[p].op
    BY <1>1, <2>1, MoveFacts, Zenon
  <2>3. Goto(p, x)
    BY <1>1, <2>2, Zenon
  <2> QED BY <2>2, <2>3, GotoFacts, Zenon DEF IInv
<1>3. ChainInv' /\ ApartInv' /\ FreeInv' /\ RingInv'
  BY <1>1, <1>2, OutsideStep, Zenon DEF deviceVars
<1>4. TypeOK'
  BY <1>1, <1>2, Zenon DEF IInv, TypeOK, ringVars, deviceVars
<1>5. LockInv' /\ WriteInv'
  BY <1>1, <1>2 DEF IInv, DriverInv, LockInv, WriteInv
<1>6. SleepInv'
  BY <1>1, Zenon DEF SleepInv
<1> QED BY <1>3, <1>4, <1>5, <1>6, Zenon DEF IInv, DriverInv

\* Steps that change only who sleeps, the interrupt and the lock.
LEMMA SignalStep ==
  ASSUME IInv, UNCHANGED <<free, pc, used_idx, busy, info, data, ringVars,
                           used, uidx, taken, inflight, store>>,
         asleep' \subseteq Proc, \A q \in asleep' \ asleep : pc[q].at # "nodesc",
         irq' \in BOOLEAN,
         lock' = lock \/ {lock, lock'} \subseteq {Handler, None}
  PROVE  IInv'
<1>1. ChainInv' /\ ApartInv' /\ FreeInv' /\ RingInv'
  BY OutsideStep, Zenon
<1>2. TypeOK'
  BY Zenon DEF IInv, TypeOK, ringVars
<1>3. LockInv' /\ WriteInv'
  BY VirtioAssumption, Zenon DEF IInv, DriverInv, LockInv, WriteInv
<1>4. SleepInv'
  <2>1. WaitingForDesc' \subseteq WaitingForDesc
    BY Zenon DEF WaitingForDesc
  <2> QED BY <2>1, Zenon DEF IInv, DriverInv, SleepInv
<1> QED BY <1>1, <1>2, <1>3, <1>4, Zenon DEF IInv, DriverInv

\* A wakeup that was not the handler's, another one, and the handler's beginning and end.
LEMMA SignalSteps ==
  ASSUME IInv, (\E p \in Proc : RwAgain(p) \/ Spurious(p)) \/ IntrBegin \/ IntrEnd
  PROVE  IInv'
<1>1. asleep \subseteq Proc /\ irq \in BOOLEAN
  BY DEF IInv, TypeOK
<1>2. ASSUME NEW p \in Proc, RwAgain(p) PROVE IInv'
  <2>1. \A q \in asleep' \ asleep : pc[q].at # "nodesc"
    BY <1>2, Zenon DEF RwAgain, Wakes
  <2> QED BY <1>1, <1>2, <2>1, SignalStep, Zenon DEF RwAgain, deviceVars
<1>3. ASSUME NEW p \in Proc, Spurious(p) PROVE IInv'
  BY <1>1, <1>3, SignalStep, Zenon DEF Spurious, deviceVars
<1>4. CASE IntrBegin
  BY <1>1, <1>4, SignalStep, Zenon DEF IntrBegin
<1>5. CASE IntrEnd
  BY <1>1, <1>5, SignalStep, Zenon DEF IntrEnd, deviceVars
<1> QED BY <1>2, <1>3, <1>4, <1>5, Zenon

-----------------------------------------------------------------------------
(* Steps of a request through the rings *)

\* The chains stay as they are.
LEMMA ChainSame ==
  ASSUME IInv, free' = free, desc' = desc, ops' = ops,
         \A i \in Desc : info'[i].b = info[i].b,
         Active' = Active, \A q \in Active : pc'[q].i = pc[q].i /\ pc'[q].op = pc[q].op
  PROVE  ChainInv' /\ ApartInv' /\ FreeInv'
<1>1. \A q \in Active : Second(q)' = Second(q) /\ Third(q)' = Third(q) /\ pc[q].i \in Desc
  BY Zenon DEF Second, Third, IInv, DriverInv, ChainInv
<1>2. ChainInv'
  BY <1>1 DEF IInv, DriverInv, ChainInv
<1>3. ApartInv'
  BY DEF IInv, DriverInv, ApartInv, Chain
<1>4. FreeInv'
  BY Zenon DEF IInv, DriverInv, FreeInv
<1> QED BY <1>2, <1>3, <1>4, Zenon

\* The device is told of a request.
LEMMA RwNotifyStep == ASSUME IInv, NEW p \in Proc, RwNotify(p) PROVE IInv'
<1>1. /\ lock = p /\ pc[p].at = "ring" /\ aidx' = (aidx + 1) % WRAP
      /\ asleep' = asleep \cup {p} /\ lock' = None
      /\ Goto(p, [pc[p] EXCEPT !.at = "wait"])
      /\ UNCHANGED <<free, used_idx, busy, info, data, desc, ops, avail, deviceVars>>
  BY Zenon DEF RwNotify
<1>2. /\ pc' \in [Proc -> Places] /\ pc'[p].at = "wait" /\ pc'[p].op = pc[p].op
      /\ pc'[p].i = pc[p].i /\ \A q \in Proc : q # p => pc'[q] = pc[q]
  <2>1. pc[p] \in Places
    BY DEF IInv, TypeOK
  <2>2. PICK x \in Places : /\ x = [pc[p] EXCEPT !.at = "wait"]
                            /\ x.at = "wait" /\ x.op = pc[p].op /\ x.i = pc[p].i
    BY <1>1, <2>1, MoveFacts, Zenon
  <2>3. Goto(p, x)
    BY <1>1, <2>2, Zenon
  <2> QED BY <2>2, <2>3, GotoFacts, Zenon DEF IInv
<1>3. Active' = Active /\ p \in Active /\ \A q \in Active : pc'[q].i = pc[q].i /\ pc'[q].op = pc[q].op
  BY <1>1, <1>2 DEF Active, InRing
<1>4. ChainInv' /\ ApartInv' /\ FreeInv'
  BY <1>1, <1>3, ChainSame, Zenon
<1>5. TypeOK'
  BY <1>1, <1>2, CountFacts, NextIndex DEF IInv, TypeOK, deviceVars, Index
<1>6. \A q \in Proc : pc'[q].at # "ring"
  BY <1>1, <1>2, Zenon DEF IInv, DriverInv, LockInv
<1>7. LockInv' /\ WriteInv'
  BY <1>1, <1>2, <1>6, VirtioAssumption, Zenon DEF IInv, DriverInv, LockInv, WriteInv
<1>8. SleepInv'
  <2>1. WaitingForDesc' \subseteq WaitingForDesc
    BY <1>1, <1>2 DEF WaitingForDesc, IInv, TypeOK
  <2> QED BY <1>1, <2>1, Zenon DEF IInv, DriverInv, SleepInv
<1>9. p \in busy /\ p \notin Served /\ busy \subseteq Active /\ busy' = busy
  BY <1>1, <1>3, Zenon DEF IInv, RingInv, BusyInv, Served
<1>10. Served' = Served \cup {p}
  BY <1>2, <1>9, Zenon DEF Served, Active
<1>11. Heads' = Heads \cup {pc[p].i}
  <2>1. \A q \in Served : pc'[q].i = pc[q].i
    BY <1>3, <1>9, Zenon DEF Served
  <2> QED BY <1>2, <1>10, <2>1 DEF Heads
<1>12. pc[p].i \notin Heads
  BY <1>3, <1>9, HeadUnique DEF Heads, Served
<1>13. Cardinality(Served') = Cardinality(Served) + 1
  BY <1>9, <1>10, CountFacts, FS_AddElement, Zenon
<1>14. Gap(taken, aidx) + 1 < NUM
  BY <1>3, RoomLeft, Zenon
<1>15. pc[p].i = avail[aidx % NUM] /\ info[pc[p].i].status = 255
  BY <1>1 DEF IInv, RingInv, BusyInv
<1>16. /\ Gap(taken, aidx') = Gap(taken, aidx) + 1
       /\ Window(avail, taken, aidx') = Window(avail, taken, aidx) \cup {pc[p].i}
       /\ Distinct(avail, taken, aidx')
  <2>1. avail \in [Ring -> Desc] /\ taken \in Index /\ aidx \in Index
    BY CountFacts, Zenon DEF IInv, TypeOK
  <2>2. Distinct(avail, taken, aidx) /\ avail[aidx % NUM] \notin Window(avail, taken, aidx)
    BY <1>12, <1>15 DEF IInv, RingInv, AvailInv, Pending
  <2>3. \A s \in Ring : s # aidx % NUM => avail[s] = avail[s]
    BY Zenon
  <2>4. aidx' = (aidx + 1) % WRAP
    BY <1>1, Zenon
  <2> QED BY <1>14, <1>15, <2>1, <2>2, <2>3, <2>4, WindowPut
<1>17. /\ avail' = avail /\ taken' = taken /\ used' = used /\ used_idx' = used_idx
       /\ uidx' = uidx /\ inflight' = inflight /\ info' = info
  BY <1>1, Zenon DEF deviceVars
<1>18. Pending' = Pending \cup {pc[p].i} /\ Finished' = Finished
  <2>1. info'[pc[p].i].status = 255
    BY <1>15, <1>17, Zenon
  <2> QED BY <1>11, <1>17, <2>1 DEF Pending, Finished
<1>19. AvailInv' /\ InflightInv'
  <2>1. pc[p].i \notin inflight
    BY <1>12 DEF IInv, RingInv, InflightInv, Pending
  <2>2. /\ Window(avail, taken, aidx)' = Window(avail, taken, aidx) \cup {pc[p].i}
        /\ Distinct(avail, taken, aidx)'
    BY <1>16, <1>17, Zenon
  <2> QED BY <1>17, <1>18, <2>1, <2>2 DEF IInv, RingInv, AvailInv, InflightInv
<1>20. UsedInv'
  BY <1>17, <1>18, Zenon DEF IInv, RingInv, UsedInv
<1>21. RoomInv'
  <2>1. Gap(taken, aidx) + Cardinality(inflight) + Gap(used_idx, uidx) <= Cardinality(Served)
    BY Zenon DEF IInv, RingInv, RoomInv
  <2> QED BY <1>13, <1>16, <1>17, <2>1, CountFacts DEF RoomInv
<1>22. BusyInv'
  BY <1>2, <1>3, <1>6, <1>9, <1>17 DEF IInv, RingInv, BusyInv, Active
<1> QED BY <1>4, <1>5, <1>7, <1>8, <1>19, <1>20, <1>21, <1>22, Zenon
       DEF IInv, DriverInv, RingInv

\* The handler sees an entry of the used ring.
LEMMA IntrEntryStep == ASSUME IInv, IntrEntry PROVE IInv'
<1> DEFINE i == used[used_idx % NUM]
           b == info[i].b
<1>1. /\ lock = Handler /\ used_idx # uidx /\ busy' = busy \ {b} /\ asleep' = asleep \ {b}
      /\ used' = [used EXCEPT ![used_idx % NUM] = 0] /\ used_idx' = (used_idx + 1) % WRAP
      /\ UNCHANGED <<free, lock, pc, info, data, ringVars, uidx, irq, taken, inflight, store>>
  BY Zenon DEF IntrEntry
<1>2. /\ used \in [Ring -> Desc] /\ used' \in [Ring -> Desc]
      /\ \A s \in Ring : s # used_idx % NUM => used'[s] = used[s]
  <2>1. used \in [Ring -> Desc] /\ 0 \in Desc
    BY Sizes DEF IInv, TypeOK
  <2> QED BY <1>1, <2>1, RingWrite, Zenon
<1>3. /\ used_idx' \in Index /\ Gap(used_idx, uidx) = Gap(used_idx', uidx) + 1
      /\ Gap(used_idx', uidx) \in Nat
      /\ i \in Window(used, used_idx, uidx)
      /\ Window(used', used_idx', uidx) = Window(used, used_idx, uidx) \ {i}
      /\ Distinct(used', used_idx', uidx)
  <2>1. /\ used_idx \in Index /\ uidx \in Index /\ used_idx # uidx
        /\ Gap(used_idx, uidx) < NUM /\ Distinct(used, used_idx, uidx)
        /\ used_idx' = (used_idx + 1) % WRAP
    BY <1>1, CountFacts, RoomFacts, Zenon DEF IInv, RingInv, UsedInv
  <2> QED BY <1>2, <2>1, WindowTake
<1>4. i \in Finished /\ i \in Heads /\ info[i].status = 0
  BY <1>3, Zenon DEF IInv, RingInv, UsedInv, Finished
<1>5. /\ i \in Desc /\ b \in Served /\ b \in Active /\ b \in Proc
      /\ pc[b].i = i /\ pc[b].at = "wait"
  BY <1>4, OwnerFacts, Zenon
<1> HIDE DEF i, b
<1>6. /\ free' = free /\ lock' = lock /\ pc' = pc /\ info' = info /\ data' = data
      /\ desc' = desc /\ ops' = ops /\ avail' = avail /\ aidx' = aidx
      /\ uidx' = uidx /\ irq' = irq /\ taken' = taken /\ inflight' = inflight /\ store' = store
  BY <1>1, Zenon DEF ringVars
<1>7. TypeOK'
  BY <1>1, <1>2, <1>3, <1>6 DEF IInv, TypeOK, Index
<1>8. Active' = Active
  BY <1>6, Zenon DEF Active, InRing
<1>9. ChainInv' /\ ApartInv' /\ FreeInv'
  BY <1>6, <1>8, ChainSame, Zenon
<1>10. LockInv' /\ WriteInv'
  BY <1>6, Zenon DEF IInv, DriverInv, LockInv, WriteInv
<1>11. SleepInv'
  <2>1. WaitingForDesc' \subseteq WaitingForDesc
    BY <1>1, <1>6, Zenon DEF WaitingForDesc
  <2> QED BY <1>6, <2>1, Zenon DEF IInv, DriverInv, SleepInv
<1>12. Served' = Served \ {b}
  BY <1>1, <1>6, Zenon DEF Served
<1>13. Cardinality(Served') = Cardinality(Served) - 1
  BY <1>5, <1>12, CountFacts, FS_RemoveElement, Zenon
<1>14. Heads' = Heads \ {i}
  <2>1. \A q \in Served : q # b => pc[q].i # i
    BY <1>5, HeadUnique DEF IInv, RingInv, BusyInv, Served
  <2> QED BY <1>5, <1>6, <1>12, <2>1, Zenon DEF Heads
<1>15. Pending' = Pending /\ Finished' = Finished \ {i}
  BY <1>4, <1>6, <1>14 DEF Pending, Finished
<1>16. AvailInv' /\ InflightInv'
  BY <1>6, <1>15, Zenon DEF IInv, RingInv, AvailInv, InflightInv
<1>17. UsedInv'
  BY <1>3, <1>6, <1>15, Zenon DEF IInv, RingInv, UsedInv
<1>18. RoomInv'
  <2>1. Gap(taken, aidx) + Cardinality(inflight) + Gap(used_idx, uidx) <= Cardinality(Served)
    BY Zenon DEF IInv, RingInv, RoomInv
  <2> QED BY <1>3, <1>6, <1>13, <2>1, CountFacts DEF RoomInv
<1>19. BusyInv'
  BY <1>1, <1>4, <1>5, <1>6, <1>8 DEF IInv, RingInv, BusyInv
<1> QED BY <1>7, <1>9, <1>10, <1>11, <1>16, <1>17, <1>18, <1>19, Zenon
       DEF IInv, DriverInv, RingInv

\* The device takes an entry of the avail ring.
LEMMA DevTakeStep == ASSUME IInv, DevTake PROVE IInv'
<1> DEFINE i == avail[taken % NUM]
<1>1. /\ taken # aidx /\ inflight' = inflight \cup {i}
      /\ avail' = [avail EXCEPT ![taken % NUM] = 0] /\ taken' = (taken + 1) % WRAP
      /\ UNCHANGED <<driverVars, info, data, desc, ops, aidx, used, uidx, irq, store>>
  BY Zenon DEF DevTake
<1>2. /\ avail \in [Ring -> Desc] /\ avail' \in [Ring -> Desc]
      /\ \A s \in Ring : s # taken % NUM => avail'[s] = avail[s]
  <2>0. 0 \in Desc
    BY Sizes
  <2>1. avail \in [Ring -> Desc] /\ 0 \in Desc
    BY <2>0, Zenon DEF IInv, TypeOK
  <2> QED BY <1>1, <2>1, RingWrite, Zenon
<1>3. /\ taken' \in Index /\ Gap(taken, aidx) = Gap(taken', aidx) + 1
      /\ Gap(taken', aidx) \in Nat
      /\ i \in Window(avail, taken, aidx)
      /\ Window(avail', taken', aidx) = Window(avail, taken, aidx) \ {i}
      /\ Distinct(avail', taken', aidx)
  <2>1. /\ taken \in Index /\ aidx \in Index /\ taken # aidx
        /\ Gap(taken, aidx) < NUM /\ Distinct(avail, taken, aidx)
        /\ taken' = (taken + 1) % WRAP
    BY <1>1, CountFacts, RoomFacts, Zenon DEF IInv, RingInv, AvailInv
  <2> QED BY <1>2, <2>1, WindowTake
<1>4. i \in Pending /\ i \notin inflight /\ i \in Heads
  BY <1>3 DEF IInv, RingInv, AvailInv, Pending
<1>5. i \in Desc
  BY <1>4, OwnerFacts, Zenon
<1>6. avail'[aidx % NUM] = avail[aidx % NUM]
  <2>1. aidx % NUM \in Ring /\ aidx % NUM # taken % NUM
    <3>1. taken \in Index /\ aidx \in Index /\ Gap(taken, aidx) < NUM
      BY CountFacts, RoomFacts, Zenon
    <3>2. 0 \in 0 .. Gap(taken, aidx) - 1 /\ taken + 0 = taken
      BY <1>3, <3>1 DEF Index
    <3> QED BY <3>1, <3>2, SlotFacts
  <2> QED BY <1>2, <2>1, Zenon
<1> HIDE DEF i
<1>7. /\ free' = free /\ lock' = lock /\ pc' = pc /\ info' = info /\ data' = data
      /\ desc' = desc /\ ops' = ops /\ used' = used /\ aidx' = aidx /\ used_idx' = used_idx
      /\ uidx' = uidx /\ irq' = irq /\ busy' = busy /\ asleep' = asleep /\ store' = store
  BY <1>1, Zenon DEF driverVars
<1>8. TypeOK'
  BY <1>1, <1>2, <1>3, <1>5, <1>7 DEF IInv, TypeOK, Index
<1>9. Active' = Active /\ Served' = Served /\ Heads' = Heads
  BY <1>7, Zenon DEF Active, InRing, Served, Heads
<1>10. ChainInv' /\ ApartInv' /\ FreeInv'
  BY <1>7, <1>9, ChainSame, Zenon
<1>11. LockInv' /\ WriteInv' /\ SleepInv'
  BY <1>7, Zenon DEF IInv, DriverInv, LockInv, WriteInv, SleepInv, WaitingForDesc
<1>12. Pending' = Pending /\ Finished' = Finished
  BY <1>7, <1>9, Zenon DEF Pending, Finished
<1>13. AvailInv' /\ InflightInv' /\ UsedInv'
  BY <1>1, <1>3, <1>4, <1>7, <1>12, Zenon DEF IInv, RingInv, AvailInv, InflightInv, UsedInv
<1>14. RoomInv'
  <2>1. Cardinality(inflight') = Cardinality(inflight) + 1
    BY <1>1, <1>4, CountFacts, FS_AddElement, Zenon
  <2>2. Gap(taken, aidx) + Cardinality(inflight) + Gap(used_idx, uidx) <= Cardinality(Served)
    BY Zenon DEF IInv, RingInv, RoomInv
  <2> QED BY <1>3, <1>7, <1>9, <2>1, <2>2, CountFacts DEF RoomInv
<1>15. BusyInv'
  BY <1>6, <1>7, <1>9 DEF IInv, RingInv, BusyInv
<1> QED BY <1>8, <1>10, <1>11, <1>13, <1>14, <1>15, Zenon
       DEF IInv, DriverInv, RingInv

\* What the device finds in the chain of a request.
LEMMA RequestFacts ==
  ASSUME IInv, NEW i \in inflight
  PROVE  \E p \in Served :
           /\ p \in Proc /\ p \in Active /\ pc[p].i = i /\ pc[p].at = "wait"
           /\ pc[p].op \in {"read", "write"} /\ i \in Desc /\ i \in Pending
           /\ ops[desc[i].addr].type = pc[p].op /\ ops[desc[i].addr].sector = p
           /\ desc[desc[i].next].addr = p /\ desc[desc[desc[i].next].next].addr = i
<1>1. i \in Pending /\ i \in Heads
  BY DEF IInv, RingInv, InflightInv, Pending
<1>2. PICK p \in Served : /\ p \in Proc /\ p \in Active /\ pc[p].i = i
                          /\ pc[p].at = "wait" /\ i \in Desc
  BY <1>1, OwnerFacts, Zenon
<1>3. pc[p].op \in {"read", "write"}
  BY <1>2, PlaceFacts DEF IInv, TypeOK
<1>4. /\ desc[i].addr = i /\ desc[Second(p)].addr = p /\ desc[Third(p)].addr = i
      /\ ops[i].type = pc[p].op /\ ops[i].sector = p
  BY <1>2, Zenon DEF IInv, DriverInv, ChainInv
<1>5. Second(p) = desc[i].next /\ Third(p) = desc[desc[i].next].next
  BY <1>2, Zenon DEF Second, Third
<1> QED BY <1>1, <1>2, <1>3, <1>4, <1>5, Zenon

\* The device writes a status.
LEMMA StatusWrite ==
  ASSUME NEW B, NEW R, NEW f \in [Desc -> [b : B, status : R]], NEW i \in Desc, NEW x \in R,
         NEW g, g = [f EXCEPT ![i].status = x]
  PROVE  /\ g \in [Desc -> [b : B, status : R]]
         /\ g[i].status = x /\ \A n \in Desc : g[n].b = f[n].b
         /\ \A n \in Desc : n # i => g[n].status = f[n].status
<1>1. PICK y : y = [f[i] EXCEPT !.status = x]
  BY Zenon
<1>2. y \in [b : B, status : R] /\ y.b = f[i].b /\ y.status = x
  BY <1>1
<1>3. g = [f EXCEPT ![i] = y]
  BY <1>1
<1> QED BY <1>2, <1>3, Zenon

\* The device carries out a request.
LEMMA DevDoneStep == ASSUME IInv, NEW i \in Desc, DevDone(i) PROVE IInv'
<1>1. i \in inflight
  BY Zenon DEF DevDone
<1>2. PICK p \in Served :
        /\ p \in Proc /\ p \in Active /\ pc[p].i = i /\ pc[p].at = "wait"
        /\ pc[p].op \in {"read", "write"} /\ i \in Desc /\ i \in Pending
        /\ ops[desc[i].addr].type = pc[p].op /\ ops[desc[i].addr].sector = p
        /\ desc[desc[i].next].addr = p /\ desc[desc[desc[i].next].next].addr = i
  BY <1>1, RequestFacts, Zenon
<1>3. /\ IF pc[p].op = "read"
         THEN data' = [data EXCEPT ![p] = store[p]] /\ store' = store
         ELSE store' = [store EXCEPT ![p] = data[p]] /\ data' = data
      /\ info' = [info EXCEPT ![i].status = 0]
      /\ used' = [used EXCEPT ![uidx % NUM] = i] /\ uidx' = (uidx + 1) % WRAP
      /\ irq' = TRUE /\ inflight' = inflight \ {i}
      /\ UNCHANGED <<driverVars, ringVars, taken>>
  BY <1>2, Zenon DEF DevDone
<1>4. /\ data' \in [Proc -> Val \cup {None}] /\ store' \in [Proc -> Val]
      /\ \A q \in Proc : data[q] \in Val => data'[q] \in Val
  <2>0. data \in [Proc -> Val \cup {None}] /\ store \in [Proc -> Val]
    BY Zenon DEF IInv, TypeOK
  <2>1. CASE pc[p].op = "read"
    <3>1. data' = [data EXCEPT ![p] = store[p]] /\ store' = store
      BY <1>3, <2>1
    <3> QED BY <2>0, <3>1, Zenon
  <2>2. CASE pc[p].op # "read"
    <3>1. data[p] \in Val
      BY <1>2, <2>2, Zenon DEF IInv, DriverInv, WriteInv
    <3>2. store' = [store EXCEPT ![p] = data[p]] /\ data' = data
      BY <1>3, <2>2, Zenon
    <3> QED BY <2>0, <3>1, <3>2, Zenon
  <2> QED BY <2>1, <2>2, Zenon
<1>5. /\ info' \in [Desc -> [b : Proc \cup {None}, status : {0, 255}]]
      /\ info'[i].status = 0 /\ \A n \in Desc : info'[n].b = info[n].b
      /\ \A n \in Desc : n # i => info'[n].status = info[n].status
  <2>1. PICK B, R : B = Proc \cup {None} /\ R = {0, 255}
    BY Zenon
  <2>2. info \in [Desc -> [b : B, status : R]] /\ 0 \in R
    BY <2>1, Zenon DEF IInv, TypeOK
  <2>3. /\ info' \in [Desc -> [b : B, status : R]]
        /\ info'[i].status = 0 /\ \A n \in Desc : info'[n].b = info[n].b
        /\ \A n \in Desc : n # i => info'[n].status = info[n].status
    BY <1>3, <2>2, StatusWrite
  <2> QED BY <2>1, <2>3, Zenon
<1>6. /\ free' = free /\ lock' = lock /\ pc' = pc /\ asleep' = asleep /\ used_idx' = used_idx
      /\ busy' = busy /\ desc' = desc /\ ops' = ops /\ avail' = avail /\ aidx' = aidx
      /\ taken' = taken
  BY <1>3, Zenon DEF driverVars, ringVars
<1>7. /\ used \in [Ring -> Desc] /\ used' \in [Ring -> Desc]
      /\ \A s \in Ring : s # uidx % NUM => used'[s] = used[s]
      /\ used'[uidx % NUM] = i
  <2>1. used \in [Ring -> Desc]
    BY DEF IInv, TypeOK
  <2>2. uidx % NUM \in Ring
    BY CountFacts, RoomFacts, SlotFacts, Zenon
  <2> QED BY <1>3, <2>1, <2>2, RingWrite, Zenon
<1>8. info[i].status = 255
  BY <1>2, Zenon DEF Pending
<1>9. Gap(used_idx, uidx) + 1 < NUM
  BY <1>2, RoomLeft, Zenon
<1>10. /\ uidx' \in Index /\ Gap(used_idx, uidx') = Gap(used_idx, uidx) + 1
       /\ Window(used', used_idx, uidx') = Window(used, used_idx, uidx) \cup {i}
       /\ Distinct(used', used_idx, uidx')
  <2>1. used_idx \in Index /\ uidx \in Index /\ uidx' = (uidx + 1) % WRAP
    BY <1>3, CountFacts, Zenon
  <2>2. Distinct(used, used_idx, uidx) /\ used'[uidx % NUM] \notin Window(used, used_idx, uidx)
    BY <1>7, <1>8 DEF IInv, RingInv, UsedInv, Finished
  <2>3. /\ uidx' \in Index /\ Gap(used_idx, uidx') = Gap(used_idx, uidx) + 1
        /\ Window(used', used_idx, uidx') =
             Window(used, used_idx, uidx) \cup {used'[uidx % NUM]}
        /\ Distinct(used', used_idx, uidx')
    BY <1>7, <1>9, <2>1, <2>2, WindowPut
  <2> QED BY <1>7, <2>3, Zenon
<1>11. TypeOK'
  BY <1>3, <1>4, <1>5, <1>6, <1>7, <1>10 DEF IInv, TypeOK, Index
<1>12. Active' = Active /\ Served' = Served /\ Heads' = Heads
  BY <1>6, Zenon DEF Active, InRing, Served, Heads
<1>13. ChainInv' /\ ApartInv' /\ FreeInv'
  BY <1>5, <1>6, <1>12, ChainSame, Zenon
<1>14. LockInv' /\ SleepInv'
  BY <1>6, Zenon DEF IInv, DriverInv, LockInv, SleepInv, WaitingForDesc
<1>15. WriteInv'
  BY <1>4, <1>6 DEF IInv, DriverInv, WriteInv
<1>16. Pending' = Pending \ {i} /\ Finished' = Finished \cup {i}
  <2>1. \A n \in Heads : n \in Desc
    BY OwnerFacts, Zenon
  <2> QED BY <1>2, <1>5, <1>12, <2>1 DEF Pending, Finished
<1>17. AvailInv' /\ InflightInv'
  BY <1>1, <1>3, <1>6, <1>16, Zenon DEF IInv, RingInv, AvailInv, InflightInv
<1>18. UsedInv'
  BY <1>6, <1>10, <1>16, Zenon DEF IInv, RingInv, UsedInv
<1>19. RoomInv'
  <2>1. Cardinality(inflight') = Cardinality(inflight) - 1
    BY <1>1, <1>3, CountFacts, FS_RemoveElement, Zenon
  <2>2. Gap(taken, aidx) + Cardinality(inflight) + Gap(used_idx, uidx) <= Cardinality(Served)
    BY Zenon DEF IInv, RingInv, RoomInv
  <2> QED BY <1>6, <1>10, <1>12, <2>1, <2>2, CountFacts DEF RoomInv
<1>20. BusyInv'
  <2>1. \A q \in Active : pc[q].i \in Desc
    BY Zenon DEF IInv, DriverInv, ChainInv
  <2>2. ASSUME NEW q \in Proc, pc[q].at = "ring" PROVE q \in Active /\ pc[q].i # i
    BY <1>2, <2>2, HeadUnique, Zenon DEF Active, InRing
  <2> QED BY <1>5, <1>6, <1>12, <2>1, <2>2 DEF IInv, RingInv, BusyInv
<1> QED BY <1>11, <1>13, <1>14, <1>15, <1>17, <1>18, <1>19, <1>20, Zenon
       DEF IInv, DriverInv, RingInv
=============================================================================
