------------------------------ MODULE BufCache ------------------------------
(***************************************************************************)
(* The buffer cache of kernel/bio.c with the sleep-locks of                *)
(* kernel/sleeplock.c.  Processes read blocks, change them and release     *)
(* them.  They keep to the rule of the log: a changed buffer is pinned by  *)
(* log_write() before it is released, and unpinned after install_trans()   *)
(* has written it to its place.  A process uses one buffer at a time here; *)
(* bmap(), write_log() and install_trans() use two, in a fixed order.      *)
(*                                                                         *)
(* A stretch of code under bcache.lock, or under the spin-lock of a        *)
(* sleep-lock, is one action.                                              *)
(***************************************************************************)
EXTENDS Naturals, FiniteSets, Functions

CONSTANTS
  Proc,
  Buf,         \* the NBUF buffers
  Block,
  Val,         \* contents of a block
  MaxPins,     \* buffers that the log may pin
  None

ASSUME BufCacheAssumption ==
  /\ IsFiniteSet(Proc) /\ IsFiniteSet(Buf)
  /\ MaxPins \in Nat
  /\ Cardinality(Buf) >= Cardinality(Proc) + MaxPins
  /\ None \notin Proc /\ None \notin Block /\ None \notin Buf

VARIABLES
  list,        \* the linked list, most recently used first
  block,       \* b->blockno
  refcnt, valid, data,
  owner,       \* who has locked b->lock
  disk,
  pinned,      \* the buffers that the log has pinned
  pc,          \* where a process is, its block and buffer
  asleep,      \* processes in sleep(), on the lock of their buffer
  panicked

cacheVars == <<list, block, refcnt>>
vars == <<cacheVars, valid, data, owner, disk, pinned, pc, asleep, panicked>>

At(place, b, buf) == [at |-> place, block |-> b, buf |-> buf, dirty |-> FALSE]
Idle == At("idle", None, None)
Goto(p, place) == pc' = [pc EXCEPT ![p].at = place]

\* The orders in which the list can hold every buffer once.
Orders == Bijection(1 .. Cardinality(Buf), Buf)

Init ==
  /\ list = CHOOSE l \in Orders : TRUE
  /\ block = [b \in Buf |-> None]
  /\ refcnt = [b \in Buf |-> 0]
  /\ valid = [b \in Buf |-> FALSE]
  /\ disk \in [Block -> Val]
  /\ data \in { [b \in Buf |-> v] : v \in Val }
  /\ owner = [b \in Buf |-> None]
  /\ pinned = {}
  /\ pc = [p \in Proc |-> Idle]
  /\ asleep = {}
  /\ panicked = FALSE

-----------------------------------------------------------------------------
(* bget() *)

\* The buffers that the search for block n finds.
Cached(n) == { b \in Buf : block[b] = n }

\* Buffers that nobody has locked, taken for unused.
UnusedUnlocked == { k \in DOMAIN list : owner[list[k]] = None }

\* The least recently used buffer of those that nobody uses.
Unused == { k \in DOMAIN list : refcnt[list[k]] = 0 }
Lru == list[CHOOSE k \in Unused : \A j \in Unused : j <= k]

\* The block is cached, and has one more reference.
BgetHit(p, n) ==
  /\ pc[p] = Idle
  /\ \E b \in Cached(n) :
       /\ refcnt' = [refcnt EXCEPT ![b] = @ + 1]
       /\ pc' = [pc EXCEPT ![p] = At("acquire", n, b)]
  /\ UNCHANGED <<list, block, valid, data, owner, disk, pinned, asleep, panicked>>

\* A recycled buffer that stays valid.
BgetMissValid(p, n) ==
  /\ pc[p] = Idle /\ Cached(n) = {} /\ Unused # {}
  /\ block' = [block EXCEPT ![Lru] = n]
  /\ refcnt' = [refcnt EXCEPT ![Lru] = 1]
  /\ pc' = [pc EXCEPT ![p] = At("acquire", n, Lru)]
  /\ UNCHANGED <<list, valid, data, owner, disk, pinned, asleep, panicked>>

\* It is not: a buffer is recycled for it, if there is one.
BgetMiss(p, n) ==
  /\ pc[p] = Idle /\ Cached(n) = {}
  /\ IF Unused = {}
     THEN panicked' = TRUE /\ UNCHANGED <<block, valid, refcnt, pc>>
     ELSE /\ block' = [block EXCEPT ![Lru] = n]
          /\ valid' = [valid EXCEPT ![Lru] = FALSE]
          /\ refcnt' = [refcnt EXCEPT ![Lru] = 1]
          /\ pc' = [pc EXCEPT ![p] = At("acquire", n, Lru)]
          /\ UNCHANGED panicked
  /\ UNCHANGED <<list, data, owner, disk, pinned, asleep>>

-----------------------------------------------------------------------------
(* Sleep-locks *)

\* acquiresleep() of the buffer, at the call and after each wakeup.
acquiresleep(p) ==
  LET b == pc[p].buf IN
  /\ pc[p].at = "acquire" /\ p \notin asleep
  /\ IF owner[b] = None
     THEN /\ owner' = [owner EXCEPT ![b] = p]
          /\ Goto(p, "locked")
          /\ UNCHANGED asleep
     ELSE /\ asleep' = asleep \cup {p}
          /\ UNCHANGED <<owner, pc>>
  /\ UNCHANGED <<cacheVars, valid, data, disk, pinned, panicked>>

\* The processes that wait for the lock of b.
Waiting(b) == { q \in asleep : pc[q].buf = b }

\* kkill() wakes a process that sleeps.
Spurious(p) ==
  /\ p \in asleep
  /\ asleep' = asleep \ {p}
  /\ UNCHANGED <<cacheVars, valid, data, owner, disk, pinned, pc, panicked>>

-----------------------------------------------------------------------------
(* The holder of a buffer *)

\* bread() reads the block unless the buffer has it.
Bread(p) ==
  LET b == pc[p].buf IN
  /\ pc[p].at = "locked"
  /\ data' = IF valid[b] THEN data ELSE [data EXCEPT ![b] = disk[block[b]]]
  /\ valid' = [valid EXCEPT ![b] = TRUE]
  /\ Goto(p, "use")
  /\ UNCHANGED <<cacheVars, owner, disk, pinned, asleep, panicked>>

\* The buffers that are pinned or will be.
Reserved == pinned \cup { pc[q].buf : q \in { q \in Proc : pc[q].dirty } }

\* A user changes the contents; begin_op() has seen to it that there is room in the log.
Change(p) ==
  /\ pc[p].at = "use"
  /\ pc[p].buf \in Reserved \/ Cardinality(Reserved) < MaxPins
  /\ \E v \in Val : data' = [data EXCEPT ![pc[p].buf] = v]
  /\ pc' = [pc EXCEPT ![p].dirty = TRUE]
  /\ UNCHANGED <<cacheVars, valid, owner, disk, pinned, asleep, panicked>>

\* log_write() pins the buffer, the first time in a transaction.
bpin(p) ==
  LET b == pc[p].buf IN
  /\ pc[p].at = "use" /\ pc[p].dirty
  /\ refcnt' = IF b \in pinned THEN refcnt ELSE [refcnt EXCEPT ![b] = @ + 1]
  /\ pinned' = pinned \cup {b}
  /\ pc' = [pc EXCEPT ![p].dirty = FALSE]
  /\ UNCHANGED <<list, block, valid, data, owner, disk, asleep, panicked>>

\* install_trans(): bwrite() of a pinned buffer, and bunpin().
Install(p) ==
  LET b == pc[p].buf IN
  /\ pc[p].at = "use" /\ ~pc[p].dirty /\ b \in pinned
  /\ disk' = [disk EXCEPT ![block[b]] = data[b]]
  /\ refcnt' = [refcnt EXCEPT ![b] = @ - 1]
  /\ pinned' = pinned \ {b}
  /\ UNCHANGED <<list, block, valid, data, owner, pc, asleep, panicked>>

\* brelse(): first the lock ...
Releasesleep(p) ==
  LET b == pc[p].buf IN
  /\ pc[p].at = "use" /\ ~pc[p].dirty
  /\ owner' = [owner EXCEPT ![b] = None]
  /\ asleep' = asleep \ Waiting(b)
  /\ Goto(p, "brelse")
  /\ UNCHANGED <<cacheVars, valid, data, disk, pinned, panicked>>

\* The list with b unlinked and linked again behind bcache.head.
MoveToFront(b) ==
  LET i == CHOOSE k \in DOMAIN list : list[k] = b
  IN  [k \in DOMAIN list |-> IF k = 1 THEN b ELSE IF k <= i THEN list[k - 1] ELSE list[k]]

\* ... then the reference; a buffer that nobody uses any more moves to the front.
Brelse(p) ==
  LET b == pc[p].buf IN
  /\ pc[p].at = "brelse"
  /\ refcnt' = [refcnt EXCEPT ![b] = @ - 1]
  /\ list' = IF refcnt[b] = 1 THEN MoveToFront(b) ELSE list
  /\ pc' = [pc EXCEPT ![p] = Idle]
  /\ UNCHANGED <<block, valid, data, owner, disk, pinned, asleep, panicked>>

Step(p) ==
  \/ (\E n \in Block : BgetHit(p, n) \/ BgetMiss(p, n))
  \/ acquiresleep(p) \/ Spurious(p) \/ Bread(p)
  \/ Change(p) \/ bpin(p) \/ Install(p) \/ Releasesleep(p) \/ Brelse(p)

Next == ~panicked /\ \E p \in Proc : Step(p)

Spec == Init /\ [][Next]_vars

-----------------------------------------------------------------------------
(* Properties *)

\* Every variable has its type, and the list holds every buffer once.
TypeOK ==
  /\ list \in Orders
  /\ block \in [Buf -> Block \cup {None}]
  /\ refcnt \in [Buf -> Nat] /\ valid \in [Buf -> BOOLEAN] /\ data \in [Buf -> Val]
  /\ owner \in [Buf -> Proc \cup {None}]
  /\ disk \in [Block -> Val]
  /\ pinned \subseteq Buf /\ asleep \subseteq Proc /\ panicked \in BOOLEAN
  /\ pc \in [Proc -> [at : {"idle", "acquire", "locked", "use", "brelse"},
                      block : Block \cup {None}, buf : Buf \cup {None}, dirty : BOOLEAN]]

\* No block is cached in two buffers: bget() searches and recycles under bcache.lock.
OneBufPerBlock == \A b, c \in Buf : b # c /\ block[b] # None => block[b] # block[c]

\* The buffer that bget() found is still the buffer of that block when the process has
\* waited for its lock, however long: nobody recycles it.
BufKept == \A p \in Proc : pc[p].at # "idle" => block[pc[p].buf] = pc[p].block

\* b->refcnt counts the processes between bget() and brelse(), and the log's pin.
RefcntExact ==
  \A b \in Buf : refcnt[b] = Cardinality({ p \in Proc : pc[p].buf = b })
                              + (IF b \in pinned THEN 1 ELSE 0)

\* Nobody sleeps on a lock that is free: releasesleep() wakes every process that waits.
SleepJustified == \A p \in asleep : owner[pc[p].buf] # None

\* bget() finds a buffer, as there is one for each process and for each pin.
NoPanic == ~panicked

\* bcache: one buffer for each block, counted and kept for those who wait for it, who
\* are woken; and always a buffer for bget().
BuffersHeld == TypeOK /\ OneBufPerBlock /\ BufKept /\ RefcntExact /\ SleepJustified /\ NoPanic

\* A process holds a block from bread() to releasesleep(), and the contents are in the
\* cache or on the disk.
Users(n) == { p \in Proc : pc[p].at = "use" /\ pc[p].block = n }
Current(n) == { b \in Buf : block[b] = n /\ valid[b] }
holder == [n \in Block |-> IF Users(n) = {} THEN None ELSE CHOOSE p \in Users(n) : TRUE]
content == [n \in Block |-> IF Current(n) = {} THEN disk[n]
                            ELSE data[CHOOSE b \in Current(n) : TRUE]]
Blocks == INSTANCE BlockStore

\* The cache with its recycling, locks and pins is a store of blocks with one holder
\* each, who sees what the last holder wrote.
ImplementsBlocks == Blocks!Spec

=============================================================================
