-------------------------------- MODULE Swap --------------------------------
(***************************************************************************)
(* User memory in kernel/vm.c and kernel/kalloc.c: the free list, the      *)
(* frame table, the swap area, evict_page(), vmfault(), and the system     *)
(* calls that allocate, copy and free pages, run by processes that the     *)
(* scheduler may preempt wherever interrupts are on.                       *)
(*                                                                         *)
(* A page is one value.  Page-table pages, the kernel's other pages and    *)
(* the PTE permission bits are left out.                                   *)
(***************************************************************************)
EXTENDS Naturals, FiniteSets, FiniteSetsExt

CONSTANTS
  Proc,        \* slots of proc[]
  Initproc,    \* the first process
  NCPU,        \* number of harts
  Frame,       \* physical pages
  MAX_SP,      \* swap slots
  MaxPages,    \* largest process, in pages
  Val, Zero,   \* contents of a page; Zero is a page of zero bytes
  Junk,        \* what kalloc() and kfree() fill a page with
  Calls,       \* the system calls that programs make
  AloneCalls,  \* those they make only while there is no other process
  None         \* no process, frame or page table entry

ASSUME SwapAssumption ==
  /\ Initproc \in Proc /\ NCPU \in Nat \ {0} /\ MAX_SP \in Nat /\ MaxPages \in Nat \ {0}
  /\ IsFiniteSet(Frame) /\ Frame # {}
  /\ Zero \in Val /\ Junk \notin Val
  /\ None \notin Proc \cup Frame
  /\ Calls \cup AloneCalls \subseteq {"sbrk", "sbrklazy", "shrink", "fork", "exit", "copyout"}

Slot == 0 .. MAX_SP - 1
Page == 0 .. MaxPages - 1

VARIABLES
  state,       \* p->state
  sz,          \* p->sz, in pages
  pte,         \* the leaf page table entries of p->pagetable
  f,           \* frametable.f
  ftlock,      \* holder of frametable.lock
  freelist,    \* the pages of kmem.freelist
  swap_mask,   \* the slots in use
  mem,         \* contents of the physical pages
  swap,        \* contents of the swap slots
  image,       \* what the program has stored in its pages; not part of the code
  loc,         \* what each process is doing in the kernel
  panicked     \* the kernel has called panic()

vars == <<state, sz, pte, f, ftlock, freelist, swap_mask, mem, swap, image, loc, panicked>>

\* A page table entry: PTE_V with a page, PTE_S with a swap slot, or zero.
V(pa) == [bit |-> "V", at |-> pa]
S(i) == [bit |-> "S", at |-> i]
Pte == { V(pa) : pa \in Frame } \cup { S(i) : i \in Slot } \cup {None}
IsV(e) == e # None /\ e.bit = "V"
IsS(e) == e # None /\ e.bit = "S"

\* A frame table entry with is_used set: owner, address, reference bit.
Used(p, a) == [p |-> p, va |-> a, rb |-> TRUE]

\* What a page read from entry e contains; nothing was ever stored in a new page.
Contents(e) == CASE IsV(e) -> mem[e.at] [] IsS(e) -> swap[e.at] [] OTHER -> Zero

\* A process in the kernel: the operation, its next step, the page it has reached,
\* the page table entry it copies from, the frame and the swap slot it works on, the
\* process it creates or frees, and the size it is going to have.
InUser == [op |-> "user", at |-> "user", va |-> 0, src |-> None, pa |-> None,
           slot |-> 0, q |-> None, goal |-> 0]

Running(p) == panicked = "" /\ state[p] = "RUNNING"
At(p, at) == Running(p) /\ loc[p].at = at

MayCall(p, c) == c \in Calls \/ (c \in AloneCalls /\ \A q \in Proc \ {p} : state[q] = "UNUSED")

\* The process whose page table operation p fills or empties.
Target(p) == IF loc[p].q # None THEN loc[p].q ELSE p

\* The process that loaded its only page with kexec().
Init == \E pa \in Frame :
  /\ state = [p \in Proc |-> IF p = Initproc THEN "RUNNABLE" ELSE "UNUSED"]
  /\ sz = [p \in Proc |-> IF p = Initproc THEN 1 ELSE 0]
  /\ pte = [p \in Proc |-> [a \in Page |-> IF p = Initproc /\ a = 0 THEN V(pa) ELSE None]]
  /\ f = [g \in Frame |-> IF g = pa THEN Used(Initproc, 0) ELSE None]
  /\ ftlock = None
  /\ freelist = Frame \ {pa}
  /\ swap_mask = {}
  /\ mem = [g \in Frame |-> IF g = pa THEN Zero ELSE Junk]
  /\ swap = [i \in Slot |-> Zero]
  /\ image = [p \in Proc |-> [a \in Page |-> Zero]]
  /\ loc = [p \in Proc |-> InUser]
  /\ panicked = ""

-----------------------------------------------------------------------------
(* Scheduling: page faults of user code, kfork() up to the release of        *)
(* np->lock, kwait() and every holder of a spinlock run with interrupts off. *)

Interruptible(p) ==
  ftlock # p /\ loc[p].op \in {"user", "sbrk", "shrink", "copyout"}

Dispatch(p) ==
  /\ panicked = ""
  /\ state[p] = "RUNNABLE"
  /\ Cardinality({q \in Proc : state[q] = "RUNNING"}) < NCPU
  /\ state' = [state EXCEPT ![p] = "RUNNING"]
  /\ UNCHANGED <<sz, pte, f, ftlock, freelist, swap_mask, mem, swap, image, loc, panicked>>

Preempt(p) ==
  /\ Running(p)
  /\ Interruptible(p)
  /\ state' = [state EXCEPT ![p] = "RUNNABLE"]
  /\ UNCHANGED <<sz, pte, f, ftlock, freelist, swap_mask, mem, swap, image, loc, panicked>>

Panic(why) ==
  /\ panicked' = why
  /\ UNCHANGED <<state, sz, pte, f, ftlock, freelist, swap_mask, mem, swap, image, loc>>

-----------------------------------------------------------------------------
(* kalloc() and evict_page(). *)

\* kalloc() takes a page of the free list.
KallocFree(p) == \E pa \in freelist :
  /\ At(p, "kalloc")
  /\ freelist' = freelist \ {pa}
  /\ mem' = [mem EXCEPT ![pa] = Junk]
  /\ loc' = [loc EXCEPT ![p].at = "fill", ![p].pa = pa]
  /\ UNCHANGED <<state, sz, pte, f, ftlock, swap_mask, swap, image, panicked>>

\* kalloc() finds the free list empty and calls evict_page().
KallocEmpty(p) ==
  /\ At(p, "kalloc")
  /\ freelist = {}
  /\ loc' = [loc EXCEPT ![p].at = "evict"]
  /\ UNCHANGED <<state, sz, pte, f, ftlock, freelist, swap_mask, mem, swap, image, panicked>>

\* Frames that the clock looks at: not those of a process running on another CPU.
Evictable(p) == { pa \in Frame : f[pa] # None /\ (f[pa].p = p \/ state[f[pa].p] # "RUNNING") }

\* The candidates: frames whose reference bit is clear, or, in the second pass, all.
\* Which of them is taken depends on p->qlevel, which changes at any time.
Candidates(p) ==
  LET old == { pa \in Evictable(p) : ~f[pa].rb }
  IN  IF old # {} THEN old ELSE Evictable(p)

\* evict_page() under frametable.lock: the clock clears the reference bits and
\* settles on a victim.
EvictChoose(p) ==
  /\ At(p, "evict")
  /\ ftlock = None
  /\ IF Evictable(p) = {} THEN Panic("cannot evict") ELSE
     \E pa \in Candidates(p) :
       /\ ftlock' = p
       /\ f' = [g \in Frame |-> IF g \in Evictable(p) THEN [f[g] EXCEPT !.rb = FALSE] ELSE f[g]]
       /\ loc' = [loc EXCEPT ![p].at = "copy", ![p].pa = pa]
       /\ UNCHANGED <<state, sz, pte, freelist, swap_mask, mem, swap, image, panicked>>

\* The owner's entry for the victim.
VictimPte(p) == pte[f[loc[p].pa].p][f[loc[p].pa].va]

\* alloc_swap_index() and the copy to the swap area.
EvictCopy(p) ==
  /\ At(p, "copy")
  /\ CASE ~IsV(VictimPte(p)) -> Panic("pte not valid 3")
       [] IsV(VictimPte(p)) /\ swap_mask = Slot -> Panic("OOM")
       [] OTHER -> LET i == Min(Slot \ swap_mask) IN
            /\ swap_mask' = swap_mask \cup {i}
            /\ swap' = [swap EXCEPT ![i] = mem[VictimPte(p).at]]
            /\ loc' = [loc EXCEPT ![p].at = "unmap", ![p].slot = i]
            /\ UNCHANGED <<state, sz, pte, f, ftlock, freelist, mem, panicked, image>>

\* The victim's entry names the slot, its frame is the caller's.
EvictUnmap(p) ==
  /\ At(p, "unmap")
  /\ pte' = [pte EXCEPT ![f[loc[p].pa].p][f[loc[p].pa].va] = S(loc[p].slot)]
  /\ f' = [f EXCEPT ![loc[p].pa] = None]
  /\ ftlock' = None
  /\ loc' = [loc EXCEPT ![p].at = "fill", ![p].pa = VictimPte(p).at]
  /\ UNCHANGED <<state, sz, freelist, swap_mask, mem, swap, image, panicked>>

-----------------------------------------------------------------------------
(* The callers of kalloc(). *)

\* The loops of uvmalloc() and uvmcopy() at page a.
NextPage(p, a) ==
  CASE loc[p].op = "sbrk" /\ a < loc[p].goal -> [loc[p] EXCEPT !.at = "kalloc", !.va = a]
    [] loc[p].op = "fork" -> [loc[p] EXCEPT !.at = "next", !.va = a]
    [] loc[p].op = "copyout" -> [loc[p] EXCEPT !.at = "write"]
    [] OTHER -> InUser

\* A page that is mapped without its memset() when there is nothing to copy.
FillDirty(p) ==
  /\ At(p, "fill")
  /\ mem' = IF loc[p].src = None THEN mem
            ELSE [mem EXCEPT ![loc[p].pa] = Contents(loc[p].src)]
  /\ IF IsS(loc[p].src) /\ loc[p].op # "fork"
     THEN loc' = [loc EXCEPT ![p].at = "swapin"] /\ UNCHANGED pte
     ELSE /\ loc' = [loc EXCEPT ![p].at = "register"]
          /\ pte' = [pte EXCEPT ![Target(p)][loc[p].va] = V(loc[p].pa)]
  /\ UNCHANGED <<state, sz, f, ftlock, freelist, swap_mask, swap, image, panicked>>

\* The new page gets its contents: zeros, the swapped page or the parent's page.
\* Except after a swap-in, it is then mapped.
Fill(p) ==
  /\ At(p, "fill")
  /\ mem' = [mem EXCEPT ![loc[p].pa] = Contents(loc[p].src)]
  /\ IF IsS(loc[p].src) /\ loc[p].op # "fork"
     THEN loc' = [loc EXCEPT ![p].at = "swapin"] /\ UNCHANGED pte
     ELSE /\ loc' = [loc EXCEPT ![p].at = "register"]
          /\ pte' = [pte EXCEPT ![Target(p)][loc[p].va] = V(loc[p].pa)]
  /\ UNCHANGED <<state, sz, f, ftlock, freelist, swap_mask, swap, image, panicked>>

\* A vmfault() without free_swap_index().
SwapInLeak(p) ==
  /\ At(p, "swapin")
  /\ pte' = [pte EXCEPT ![p][loc[p].va] = V(loc[p].pa)]
  /\ loc' = [loc EXCEPT ![p].at = "register"]
  /\ UNCHANGED <<state, sz, f, ftlock, freelist, swap_mask, mem, swap, image, panicked>>

\* vmfault() gives the slot back and maps the page.
SwapIn(p) ==
  /\ At(p, "swapin")
  /\ swap_mask' = swap_mask \ {loc[p].src.at}
  /\ pte' = [pte EXCEPT ![p][loc[p].va] = V(loc[p].pa)]
  /\ loc' = [loc EXCEPT ![p].at = "register"]
  /\ UNCHANGED <<state, sz, f, ftlock, freelist, mem, swap, image, panicked>>

\* New pages read as zeros.
Grown(p) == [image EXCEPT ![p] = [a \in Page |-> IF a < sz[p] THEN @[a] ELSE Zero]]

\* The page enters the frame table; growproc() sets the size after the last one.
Register(p) ==
  /\ At(p, "register")
  /\ ftlock = None
  /\ f' = [f EXCEPT ![loc[p].pa] = Used(Target(p), loc[p].va)]
  /\ loc' = [loc EXCEPT ![p] = NextPage(p, loc[p].va + 1)]
  /\ IF loc[p].op = "sbrk" /\ loc[p].va + 1 = loc[p].goal
     THEN sz' = [sz EXCEPT ![p] = loc[p].goal] /\ image' = Grown(p)
     ELSE UNCHANGED <<sz, image>>
  /\ UNCHANGED <<state, pte, ftlock, freelist, swap_mask, mem, swap, panicked>>

-----------------------------------------------------------------------------
(* User code and system calls. *)

Enter(p, how) == loc' = [loc EXCEPT ![p] = how]
InUserCode(p) == Running(p) /\ loc[p] = InUser

\* A store to a mapped page.
Store(p) == \E a \in Page, v \in Val :
  /\ InUserCode(p)
  /\ a < sz[p] /\ IsV(pte[p][a])
  /\ mem' = [mem EXCEPT ![pte[p][a].at] = v]
  /\ image' = [image EXCEPT ![p][a] = v]
  /\ UNCHANGED <<state, sz, pte, f, ftlock, freelist, swap_mask, swap, loc, panicked>>

\* A page fault: vmfault() brings the page in, or allocates it.
Fault(p) == \E a \in Page :
  /\ InUserCode(p)
  /\ a < sz[p] /\ ~IsV(pte[p][a])
  /\ Enter(p, [InUser EXCEPT !.op = "fault", !.at = "kalloc", !.va = a, !.src = pte[p][a]])
  /\ UNCHANGED <<state, sz, pte, f, ftlock, freelist, swap_mask, mem, swap, image, panicked>>

\* sys_sbrk() with SBRK_EAGER: uvmalloc() allocates every page.
SbrkEager(p) == \E n \in 1 .. MaxPages :
  /\ "sbrk" \in Calls /\ InUserCode(p)
  /\ sz[p] < n
  /\ Enter(p, [InUser EXCEPT !.op = "sbrk", !.at = "kalloc", !.va = sz[p], !.goal = n])
  /\ UNCHANGED <<state, sz, pte, f, ftlock, freelist, swap_mask, mem, swap, image, panicked>>

\* sys_sbrk() without it: only the size changes.
SbrkLazy(p) == \E n \in 1 .. MaxPages :
  /\ "sbrklazy" \in Calls /\ InUserCode(p)
  /\ sz[p] < n
  /\ sz' = [sz EXCEPT ![p] = n]
  /\ image' = Grown(p)
  /\ UNCHANGED <<state, pte, f, ftlock, freelist, swap_mask, mem, swap, loc, panicked>>

\* sys_sbrk() with a negative argument: uvmdealloc().
SbrkShrink(p) == \E n \in Page :
  /\ MayCall(p, "shrink") /\ InUserCode(p)
  /\ n < sz[p]
  /\ Enter(p, [InUser EXCEPT !.op = "shrink", !.at = "free", !.va = n, !.goal = n])
  /\ UNCHANGED <<state, sz, pte, f, ftlock, freelist, swap_mask, mem, swap, image, panicked>>

\* kfork(): allocproc().
Fork(p) == \E np \in Proc :
  /\ "fork" \in Calls /\ InUserCode(p)
  /\ state[np] = "UNUSED"
  /\ state' = [state EXCEPT ![np] = "USED"]
  /\ Enter(p, [InUser EXCEPT !.op = "fork", !.at = "next", !.q = np])
  /\ UNCHANGED <<sz, pte, f, ftlock, freelist, swap_mask, mem, swap, image, panicked>>

\* uvmcopy() looks at the parent's next page.
ForkPage(p) ==
  /\ At(p, "next")
  /\ loc[p].va < sz[p]
  /\ Enter(p, IF pte[p][loc[p].va] = None
              THEN [loc[p] EXCEPT !.va = @ + 1]
              ELSE [loc[p] EXCEPT !.at = "kalloc", !.src = pte[p][loc[p].va]])
  /\ UNCHANGED <<state, sz, pte, f, ftlock, freelist, swap_mask, mem, swap, image, panicked>>

\* The end of kfork().
ForkDone(p) ==
  /\ At(p, "next")
  /\ loc[p].va = sz[p]
  /\ sz' = [sz EXCEPT ![loc[p].q] = sz[p]]
  /\ state' = [state EXCEPT ![loc[p].q] = "RUNNABLE"]
  /\ image' = [image EXCEPT ![loc[p].q] = image[p]]
  /\ Enter(p, InUser)
  /\ UNCHANGED <<pte, f, ftlock, freelist, swap_mask, mem, swap, panicked>>

\* copyout() looks up the page, through vmfault() when it is not mapped.
Copyout(p) == \E a \in Page :
  /\ MayCall(p, "copyout") /\ InUserCode(p)
  /\ a < sz[p]
  /\ Enter(p, IF IsV(pte[p][a])
              THEN [InUser EXCEPT !.op = "copyout", !.at = "write", !.va = a, !.pa = pte[p][a].at]
              ELSE [InUser EXCEPT !.op = "copyout", !.at = "kalloc", !.va = a, !.src = pte[p][a]])
  /\ UNCHANGED <<state, sz, pte, f, ftlock, freelist, swap_mask, mem, swap, image, panicked>>

\* It stores through the physical address.
CopyoutWrite(p) == \E v \in Val :
  /\ At(p, "write")
  /\ mem' = [mem EXCEPT ![loc[p].pa] = v]
  /\ image' = [image EXCEPT ![p][loc[p].va] = v]
  /\ Enter(p, InUser)
  /\ UNCHANGED <<state, sz, pte, f, ftlock, freelist, swap_mask, swap, panicked>>

Exit(p) ==
  /\ "exit" \in Calls /\ InUserCode(p)
  /\ p # Initproc
  /\ state' = [state EXCEPT ![p] = "ZOMBIE"]
  /\ UNCHANGED <<sz, pte, f, ftlock, freelist, swap_mask, mem, swap, image, loc, panicked>>

\* kwait() finds a zombie: freeproc().
Wait(p) == \E q \in Proc :
  /\ InUserCode(p)
  /\ state[q] = "ZOMBIE"
  /\ \A r \in Proc : loc[r].q # q
  /\ Enter(p, [InUser EXCEPT !.op = "wait", !.at = "free", !.q = q])
  /\ UNCHANGED <<state, sz, pte, f, ftlock, freelist, swap_mask, mem, swap, image, panicked>>

\* uvmunmap() at its next page: an empty entry, a swap slot, or a frame to kfree().
UnmapPage(p) == LET e == pte[Target(p)][loc[p].va] IN
  /\ At(p, "free")
  /\ loc[p].va < sz[Target(p)]
  /\ swap_mask' = IF IsS(e) THEN swap_mask \ {e.at} ELSE swap_mask
  /\ pte' = IF IsS(e) THEN [pte EXCEPT ![Target(p)][loc[p].va] = None] ELSE pte
  /\ Enter(p, IF IsV(e) THEN [loc[p] EXCEPT !.at = "kfree", !.pa = e.at]
                        ELSE [loc[p] EXCEPT !.va = @ + 1])
  /\ UNCHANGED <<state, sz, f, ftlock, freelist, mem, swap, image, panicked>>

\* kfree() and the entry that pointed to the page.
Kfree(p) ==
  /\ At(p, "kfree")
  /\ ftlock = None
  /\ f' = [f EXCEPT ![loc[p].pa] = None]
  /\ mem' = [mem EXCEPT ![loc[p].pa] = Junk]
  /\ freelist' = freelist \cup {loc[p].pa}
  /\ pte' = [pte EXCEPT ![Target(p)][loc[p].va] = None]
  /\ Enter(p, [loc[p] EXCEPT !.at = "free", !.va = @ + 1])
  /\ UNCHANGED <<state, sz, ftlock, swap_mask, swap, image, panicked>>

\* The last page is gone: the new size of growproc(), or the slot that kwait() frees.
UnmapDone(p) ==
  /\ At(p, "free")
  /\ loc[p].va = sz[Target(p)]
  /\ sz' = [sz EXCEPT ![Target(p)] = loc[p].goal]
  /\ state' = IF loc[p].op = "wait" THEN [state EXCEPT ![Target(p)] = "UNUSED"] ELSE state
  /\ Enter(p, InUser)
  /\ UNCHANGED <<pte, f, ftlock, freelist, swap_mask, mem, swap, image, panicked>>

-----------------------------------------------------------------------------
Evict(p) == EvictChoose(p) \/ EvictCopy(p) \/ EvictUnmap(p)
Alloc(p) == KallocFree(p) \/ KallocEmpty(p) \/ Evict(p) \/ Fill(p) \/ SwapIn(p) \/ Register(p)
Sbrk(p) == SbrkEager(p) \/ SbrkLazy(p) \/ SbrkShrink(p)
Free(p) == UnmapPage(p) \/ Kfree(p) \/ UnmapDone(p)

Kernel(p) == Alloc(p) \/ ForkPage(p) \/ ForkDone(p) \/ CopyoutWrite(p) \/ Free(p)

Next == \E p \in Proc :
  \/ Dispatch(p) \/ Preempt(p) \/ Kernel(p) \/ Store(p) \/ Fault(p)
  \/ Sbrk(p) \/ Fork(p) \/ Copyout(p) \/ Exit(p) \/ Wait(p)

Spec == Init /\ [][Next]_vars

-----------------------------------------------------------------------------
(* Properties. *)

\* Each variable has the type of the table or field of vm.c, kalloc.c or proc.h
\* that it stands for.
TypeOK ==
  /\ state \in [Proc -> {"UNUSED", "USED", "RUNNABLE", "RUNNING", "ZOMBIE"}]
  /\ sz \in [Proc -> 0 .. MaxPages]
  /\ pte \in [Proc -> [Page -> Pte]]
  /\ f \in [Frame -> {None} \cup [p : Proc, va : Page, rb : BOOLEAN]]
  /\ ftlock \in Proc \cup {None}
  /\ freelist \subseteq Frame
  /\ swap_mask \subseteq Slot
  /\ mem \in [Frame -> Val \cup {Junk}]
  /\ swap \in [Slot -> Val \cup {Junk}]
  /\ panicked \in {"", "cannot evict", "pte not valid 3", "OOM"}

\* The places that name a physical page: an entry of a process, or the hands of a
\* process that has allocated it and not mapped it yet.
Users(pa) == { <<p, a>> \in Proc \X Page : pte[p][a] = V(pa) }
             \cup { <<p, None>> : p \in { q \in Proc : loc[q].pa = pa /\ loc[q].at \in {"fill", "swapin"} } }

\* No physical page is used twice, or both free and in use, and none is lost.
OneUser == \A pa \in Frame :
  Cardinality(Users(pa)) = IF pa \in freelist THEN 0 ELSE 1

\* A swap slot is marked in swap_mask exactly while one entry, or the eviction in
\* progress, refers to it: no slot is shared and none leaks.
OneSlotUser == \A i \in Slot :
  Cardinality({ <<p, a>> \in Proc \X Page : pte[p][a] = S(i) }
              \cup { <<p, None>> : p \in { q \in Proc : loc[q].slot = i /\ loc[q].at = "unmap" } })
  = IF i \in swap_mask THEN 1 ELSE 0

\* The frame table tells the truth, so evict_page() never finds the victim's page
\* unmapped (its panic "pte not valid 3").
FrameTableTrue == \A pa \in Frame : f[pa] # None => pte[f[pa].p][f[pa].va] = V(pa)

\* Page tables, free list, swap_mask and frame table are well formed and agree on who
\* uses each frame and each slot, at every step of kalloc(), evict_page(), vmfault() and
\* uvmunmap().
MemoryAccounted == TypeOK /\ OneUser /\ OneSlotUser /\ FrameTableTrue

\* The size a process is going to have once the pages it gives up are gone.
Size(p) == IF loc[p].op = "shrink" THEN loc[p].goal ELSE sz[p]
Live == { p \in Proc : state[p] \in {"RUNNABLE", "RUNNING"} }

\* Evictions, faults, forks and exits do not show: every page of every live process
\* holds what its program last stored there, wherever vm.c keeps the page.
PrivateMemory ==
  \A p \in Live, a \in Page : a < Size(p) => Contents(pte[p][a]) = image[p][a]

\* When memory and swap space are exhausted sbrk() fails early instead of crashing
\* the kernel in evict_page().
SbrkFailsEarly == \A p \in Proc : loc[p].op = "sbrk" => panicked # "OOM"
=============================================================================
