-------------------------------- MODULE Exec --------------------------------
(***************************************************************************)
(* kernel/exec.c and sys_exec() over the page tables of kernel/vm.c: one    *)
(* process calls exec() again and again and exits.  Page tables have two    *)
(* levels of W entries instead of three of 512.  Frames are plentiful: when *)
(* they are not, kalloc() evicts (module Swap).                             *)
(***************************************************************************)
EXTENDS Integers, Sequences, FiniteSets, FiniteSetsExt

CONSTANTS
  W, PGSIZE, NFRAME,
  AddrSpace,     \* uint64 arithmetic is modulo this
  MAXARG, USERSTACK,
  ALIGN,         \* alignment of the stack pointer
  Programs,      \* executables: [elf, segs]
  Argvs,         \* arguments: sequences of lengths of strings, with their '\0'
  MaxCalls,      \* bound on the calls of exec()
  None

Frame == 1 .. NFRAME
Text == 0                          \* the kernel's trampoline page
TRAMPOLINE == W * W - 1            \* page numbers
TRAPFRAME == W * W - 2
PGROUNDUP(n) == ((n + PGSIZE - 1) \div PGSIZE) * PGSIZE
Pages(from, to) == { a \in 0 .. W * W - 1 : PGROUNDUP(from) <= a * PGSIZE /\ a * PGSIZE < to }

VARIABLES
  mem,        \* memory: free frames, page-table pages, frame table, panic message
  tf,         \* p->trapframe
  image,      \* p->pagetable and p->sz
  call,       \* the call of sys_exec() and kexec() under way
  before,     \* a snapshot of the image when the call began
  calls       \* calls so far

exvars == <<mem, tf, image, call, before, calls>>

-----------------------------------------------------------------------------
(* vm.c and kalloc.c, as functions of the memory. *)

Empty == [i \in 0 .. W - 1 |-> None]
Pte(to, u, w) == [to |-> to, u |-> u, w |-> w]

Panic(mm, why) == [mm EXCEPT !.panic = IF @ = "" THEN why ELSE @]

\* kfree() of a set of frames: they leave the frame table, and what they held is lost.
kfree(mm, fs) ==
  [mm EXCEPT !.free = @ \cup fs,
             !.va = [f \in Frame |-> IF f \in fs THEN None ELSE @[f]],
             !.table = [f \in Frame |-> IF f \in fs THEN Empty ELSE @[f]]]

\* kalloc(): which frame is free does not matter.
NewFrame(mm) == Min(mm.free)

\* A zeroed page-table page: uvmcreate(), and walk() where one is missing.
NewTable(mm) == [mm EXCEPT !.free = @ \ {NewFrame(mm)}, !.table[NewFrame(mm)] = Empty]

\* walk() without alloc: the entry of page a, None if there is none.
walk(mm, root, a) ==
  IF mm.table[root][a \div W] = None THEN None
  ELSE mm.table[mm.table[root][a \div W].to][a % W]

\* mappages() of one page.
mappages(mm, root, a, e) ==
  LET i == a \div W
      t == IF mm.table[root][i] # None THEN mm
           ELSE [NewTable(mm) EXCEPT !.table[root][i] = Pte(NewFrame(mm), FALSE, FALSE)]
  IN  IF a >= W * W THEN Panic(mm, "walk")
      ELSE IF walk(t, root, a) # None THEN Panic(t, "mappages: remap")
      ELSE [t EXCEPT !.table[t.table[root][i].to][a % W] = e]

\* uvmunmap() of a set of pages.
uvmunmap(mm, root, as, do_free) ==
  LET gone == { a \in as : walk(mm, root, a) # None }
      At(t, i) == \E a \in gone : t = mm.table[root][a \div W].to /\ i = a % W
      t == [mm EXCEPT !.table = [f \in Frame |->
              [i \in 0 .. W - 1 |-> IF At(f, i) THEN None ELSE @[f][i]]]]
  IN  IF do_free THEN kfree(t, { walk(mm, root, a).to : a \in gone }) ELSE t

\* freewalk(): the tables are freed, and must be empty.
freewalk(mm, root) ==
  LET child == { mm.table[root][i].to : i \in { j \in 0 .. W - 1 : mm.table[root][j] # None } }
      t == kfree(mm, child \cup {root})
  IN  IF \A c \in child : mm.table[c] = Empty THEN t ELSE Panic(t, "freewalk: leaf")

uvmfree(mm, root, sz) == freewalk(uvmunmap(mm, root, Pages(0, sz), TRUE), root)

RECURSIVE AddPages(_, _, _, _)

\* The loop of uvmalloc(): a frame for each page, entered into the frame table.
AddPages(mm, root, as, w) ==
  IF as = {} THEN mm
  ELSE LET a == Min(as)
           f == NewFrame(mm)
           t == mappages([mm EXCEPT !.free = @ \ {f}], root, a, Pte(f, TRUE, w))
       IN  AddPages([t EXCEPT !.va[f] = a], root, as \ {a}, w)

\* uvmalloc() and the size that it returns.
uvmalloc(mm, root, oldsz, newsz, w) == AddPages(mm, root, Pages(oldsz, newsz), w)
NewSize(oldsz, newsz) == IF newsz < oldsz THEN oldsz ELSE newsz

\* proc_pagetable(): the table is the frame that NewFrame() gives.
proc_pagetable(mm, trapframe) ==
  LET root == NewFrame(mm)
      t == mappages(NewTable(mm), root, TRAMPOLINE, Pte(Text, FALSE, FALSE))
  IN  mappages(t, root, TRAPFRAME, Pte(trapframe, FALSE, TRUE))

proc_freepagetable(mm, root, sz) ==
  uvmfree(uvmunmap(mm, root, {TRAMPOLINE, TRAPFRAME}, FALSE), root, sz)

\* walkaddr() finds all pages of [va, va + n), and copyout() may write them.
Mapped(mm, root, va, n, w) ==
  \A a \in (va \div PGSIZE) .. ((va + n - 1) \div PGSIZE) :
    walk(mm, root, a) # None /\ walk(mm, root, a).u /\ (w => walk(mm, root, a).w)

-----------------------------------------------------------------------------
(* sys_exec() and kexec(). *)

Idle == [at |-> "user", args |-> <<>>, argv |-> <<>>, path |-> None, held |-> FALSE, ops |-> 0,
         root |-> None, sz |-> 0, seg |-> 0, sp |-> 0, ustack |-> <<>>, ret |-> 0]

\* allocproc() has made a process without memory.
ExInit ==
  LET m0 == [free |-> Frame \ {1}, table |-> [f \in Frame |-> Empty],
             va |-> [f \in Frame |-> None], panic |-> ""]
  IN  /\ tf = 1
      /\ mem = proc_pagetable(m0, 1)
      /\ image = [root |-> NewFrame(m0), sz |-> 0]
      /\ call = Idle
      /\ before = None
      /\ calls = 0

\* What the process has of memory.
Snapshot == [image |-> image, pages |-> [a \in 0 .. W * W - 1 |-> walk(mem, image.root, a)]]

At(at) == call.at = at /\ mem.panic = ""

\* exec(path, argv): argv is what the caller has in its memory.
Call == \E prog \in Programs \cup {None}, argv \in Argvs :
  /\ At("user") /\ calls < MaxCalls
  /\ call' = [Idle EXCEPT !.at = "fetch", !.path = prog, !.args = argv]
  /\ before' = Snapshot /\ calls' = calls + 1
  /\ UNCHANGED <<mem, tf, image>>

\* i >= NELEM(argv)
FetchEnd == Len(call.argv) >= MAXARG

\* The loop of sys_exec(): a page for each string.  It fails when argv is full or a
\* pointer cannot be read, or with the page allocated when the string cannot be.
FetchArg ==
  /\ At("fetch")
  /\ \/ /\ call' = [call EXCEPT !.at = "return", !.ret = -1]
        /\ UNCHANGED mem
     \/ /\ ~FetchEnd /\ Len(call.argv) = Len(call.args)
        /\ call' = [call EXCEPT !.at = "open"]
        /\ UNCHANGED mem
     \/ /\ ~FetchEnd /\ Len(call.argv) < Len(call.args)
        /\ mem' = [mem EXCEPT !.free = @ \ {NewFrame(mem)}]
        /\ \E at \in {"fetch", "return"} :
             call' = [call EXCEPT !.argv = Append(@, NewFrame(mem)), !.at = at,
                            !.ret = IF at = "return" THEN -1 ELSE 0]
  /\ UNCHANGED <<tf, image, before, calls>>

\* begin_op(), namei(), ilock(), the ELF header and proc_pagetable().
OpenProgram ==
  /\ At("open")
  /\ \/ /\ call.path = None
        /\ call' = [call EXCEPT !.at = "return", !.ret = -1]
        /\ UNCHANGED mem
     \/ /\ call.path # None /\ ~call.path.elf
        /\ call' = [call EXCEPT !.at = "bad", !.held = TRUE, !.ops = 1]
        /\ UNCHANGED mem
     \/ /\ call.path # None /\ call.path.elf
        /\ mem' = proc_pagetable(mem, tf)
        /\ call' = [call EXCEPT !.at = "load", !.held = TRUE, !.ops = 1, !.root = NewFrame(mem)]
  /\ UNCHANGED <<tf, image, before, calls>>

\* What kexec() requires of a segment of type ELF_PROG_LOAD.
GoodSegment(s) ==
  /\ s.memsz >= s.filesz
  /\ (s.vaddr + s.memsz) % AddrSpace >= s.vaddr
  /\ s.vaddr % PGSIZE = 0

\* loadseg(): panics if a page is missing; readi() may fail.
loadseg(mm, root, s) ==
  IF s.filesz > 0 /\ ~Mapped(mm, root, s.vaddr, s.filesz, FALSE)
  THEN Panic(mm, "loadseg: address should exist") ELSE mm

\* One turn of the loop over the program headers.
LoadSegment ==
  /\ At("load") /\ call.seg < Len(call.path.segs)
  /\ LET s == call.path.segs[call.seg + 1]
         end == s.vaddr + s.memsz
     IN \/ /\ call' = [call EXCEPT !.at = "bad"]      \* the header cannot be read
           /\ UNCHANGED mem
        \/ /\ ~s.load
           /\ call' = [call EXCEPT !.seg = @ + 1]
           /\ UNCHANGED mem
        \/ /\ s.load /\ (~GoodSegment(s) \/ NewSize(call.sz, end) = 0)
           /\ call' = [call EXCEPT !.at = "bad"]
           /\ UNCHANGED mem
        \/ /\ s.load /\ GoodSegment(s) /\ NewSize(call.sz, end) # 0
           /\ mem' = loadseg(uvmalloc(mem, call.root, call.sz, end, s.w), call.root, s)
           /\ \E ok \in BOOLEAN :
                /\ ok \/ s.filesz > 0
                /\ call' = [call EXCEPT !.sz = NewSize(@, end), !.at = IF ok THEN "load" ELSE "bad",
                                  !.seg = @ + 1]
  /\ UNCHANGED <<tf, image, before, calls>>

\* uvmclear() takes PTE_U from the guard page.
uvmclear(mm, root, a) ==
  IF walk(mm, root, a) = None THEN Panic(mm, "uvmclear")
  ELSE [mm EXCEPT !.table[mm.table[root][a \div W].to][a % W].u = FALSE]

\* The file is let go, and the stack and its guard page are added.
MakeStack ==
  /\ At("load") /\ call.seg = Len(call.path.segs)
  /\ LET base == PGROUNDUP(call.sz)
         top == base + (USERSTACK + 1) * PGSIZE
     IN  /\ mem' = uvmclear(uvmalloc(mem, call.root, base, top, TRUE), call.root, base \div PGSIZE)
         /\ call' = [call EXCEPT !.at = "args", !.held = FALSE, !.ops = @ - 1, !.sz = top, !.sp = top]
  /\ UNCHANGED <<tf, image, before, calls>>

stackbase == call.sz - USERSTACK * PGSIZE

\* The stack pointer rounded the wrong way.
DownUp(sp, n) == ((sp - n + ALIGN - 1) \div ALIGN) * ALIGN

\* sp -= n; sp -= sp % 16.  The guard page below the stack keeps this from wrapping.
Down(sp, n) == ((sp - n) \div ALIGN) * ALIGN

\* One argument string.
PushArg ==
  LET i == Len(call.ustack) + 1
      sp == Down(call.sp, call.args[i])
  IN
  /\ At("args") /\ Len(call.ustack) < Len(call.argv)
  /\ call' = IF i > MAXARG \/ sp < stackbase \/ ~Mapped(mem, call.root, sp, call.args[i], TRUE)
          THEN [call EXCEPT !.at = "bad"]
          ELSE [call EXCEPT !.sp = sp, !.ustack = Append(@, sp)]
  /\ UNCHANGED <<mem, tf, image, before, calls>>

\* oldsz, of the image that is freed.
OldSize == image.sz

\* ustack[argc] = 0, in an array of MAXARG.
ustackEnd(n) == IF n > MAXARG THEN Panic(mem, "ustack overrun") ELSE mem

\* The array of addresses is ended and copied, and the new image takes the place of the
\* old one.
Commit ==
  LET n == Len(call.argv) + 1
      sp == Down(call.sp, n)
  IN
  /\ At("args") /\ Len(call.ustack) = Len(call.argv)
  /\ IF sp >= stackbase /\ Mapped(mem, call.root, sp, n, TRUE)
     THEN /\ image' = [root |-> call.root, sz |-> call.sz]
          /\ mem' = proc_freepagetable(ustackEnd(n), image.root, OldSize)
          /\ call' = [call EXCEPT !.at = "return", !.sp = sp, !.root = None, !.ret = n - 1]
     ELSE /\ call' = [call EXCEPT !.at = "bad"]
          /\ mem' = ustackEnd(n)
          /\ UNCHANGED image
  /\ UNCHANGED <<tf, before, calls>>

\* The error path that ends a transaction whether or not it has one.
BadOps == call.ops - 1

\* if(ip) iunlockput(ip), end_op()
EndOps == IF call.held THEN call.ops - 1 ELSE call.ops

\* bad:
Bad ==
  /\ At("bad")
  /\ mem' = IF call.root = None THEN mem ELSE proc_freepagetable(mem, call.root, call.sz)
  /\ call' = [call EXCEPT !.at = "return", !.ret = -1, !.root = None, !.held = FALSE, !.ops = EndOps]
  /\ UNCHANGED <<tf, image, before, calls>>

\* A sys_exec() that keeps the page of the last string.
ArgPagesLess == { call.argv[i] : i \in 1 .. Len(call.argv) - 1 }

\* The pages of the strings that sys_exec() frees on its way out.
ArgPages == { call.argv[i] : i \in 1 .. Len(call.argv) }

\* sys_exec() frees the pages of the strings and returns.
Return ==
  /\ At("return")
  /\ mem' = kfree(mem, ArgPages)
  /\ call' = Idle /\ before' = None
  /\ UNCHANGED <<tf, image, calls>>

\* sbrk(): the size grows and the pages come later, if they are touched.
GrowLazily ==
  /\ At("user") /\ image.sz > 0 /\ image.sz + PGSIZE <= TRAPFRAME * PGSIZE
  /\ image' = [image EXCEPT !.sz = @ + PGSIZE]
  /\ UNCHANGED <<mem, tf, call, before, calls>>

\* exit() and freeproc().
ExitProc ==
  /\ At("user")
  /\ mem' = proc_freepagetable(kfree(mem, {tf}), image.root, image.sz)
  /\ tf' = None /\ image' = [root |-> None, sz |-> 0]
  /\ call' = [call EXCEPT !.at = "gone"]
  /\ UNCHANGED <<before, calls>>

ExNext ==
  \/ Call \/ FetchArg \/ OpenProgram \/ LoadSegment \/ MakeStack \/ PushArg \/ Commit
  \/ Bad \/ Return \/ GrowLazily \/ ExitProc

ExSpec == ExInit /\ [][ExNext]_exvars
-----------------------------------------------------------------------------
(* Properties. *)

\* The frames of a page table: its tables and what they map, the trampoline and the
\* trapframe excepted, which it does not own.
Tables(root) ==
  IF root = None THEN {}
  ELSE {root} \cup { mem.table[root][i].to : i \in { j \in 0 .. W - 1 : mem.table[root][j] # None } }
Leaves(root) ==
  IF root = None THEN {}
  ELSE { a \in 0 .. TRAPFRAME - 1 : walk(mem, root, a) # None }
Owned(root) == Tables(root) \cup { walk(mem, root, a).to : a \in Leaves(root) }

Count(root) == Cardinality(Tables(root)) + Cardinality(Leaves(root))

\* At every step of sys_exec() and kexec(), on every error path, a frame that is not
\* free belongs to exactly one of the two images, the trapframe or the copied strings.
FramesOwned == mem.panic = "" =>
  LET strings == { call.argv[i] : i \in 1 .. Len(call.argv) }
      all == Owned(image.root) \cup Owned(call.root) \cup strings \cup ({tf} \ {None})
  IN  /\ all = Frame \ mem.free
      /\ Cardinality(all) = Count(image.root) + Count(call.root) + Len(call.argv)
                             + Cardinality({tf} \ {None})

\* Until it succeeds, exec() leaves the caller's image as it was: a failure at any step
\* returns to the old program with its memory.
OldImageKept == call.at \notin {"user", "gone"} /\ mem.panic = "" =>
  (call.at = "return" /\ call.ret >= 0) \/ Snapshot = before

\* None of the panics of walk(), mappages(), freewalk(), loadseg() and uvmclear() is
\* reached, and ustack[MAXARG] is not overrun.
NoPanic == mem.panic = ""

\* kexec() ends the transaction it began and puts the inode it holds exactly once, on
\* success and on every error path.
OpEnded ==
  /\ call.ops = IF call.held THEN 1 ELSE 0
  /\ call.at \in {"user", "args", "return", "gone"} => ~call.held

\* The strings on the new stack lie one below the other within it, above the array of
\* their addresses, and the page below the stack is not the user's.
StackSound == call.at = "args" \/ (call.at = "return" /\ call.ret >= 0) =>
  LET u == call.ustack
      root == IF call.at = "args" THEN call.root ELSE image.root
      Top(i) == IF i = 1 THEN call.sz ELSE u[i - 1]
  IN  /\ \A i \in 1 .. Len(u) : u[i] + call.args[i] <= Top(i)
      /\ call.sp >= stackbase
      /\ ~walk(mem, root, stackbase \div PGSIZE - 1).u

\* Outside exec() the frame table names only pages of the process, at the addresses
\* where its page table has them.
FrameTableAgrees == call.at = "user" /\ mem.panic = "" =>
  \A f \in Frame : mem.va[f] # None =>
    walk(mem, image.root, mem.va[f]) # None /\ walk(mem, image.root, mem.va[f]).to = f

\* kalloc(), kfree() and the frame table account for every frame.
FramesAccounted == FramesOwned /\ FrameTableAgrees

\* kexec() takes effect as a whole or not at all, closes its transaction either way, and
\* does not panic.
AllOrNothing == OldImageKept /\ OpEnded /\ NoPanic
=============================================================================
