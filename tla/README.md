# Specifications of xv6-riscv with MLFQ scheduling and swap

TLA+ modules beside the sources in `src/kernel`, `src/user` and `src/mkfs`. One
module models one part of the system. `MC*.tla` and `*.cfg` are the instances
that TLC checks, and `*Proofs.tla` hold theorems that TLAPS checks for every
value of the constants. `PROJECT.json` lists the runs, the
source lines of each definition, the hazards behind the properties, and for each
property a mutation of the code's model that it catches.

    tlc -config MCLog.cfg MCLog        # one run
    tlapm LogProofs.tla                # the proofs about the log

## The system

A user program runs in a process. The shell parses a line and forks processes
that `exec()` programs, connected by pipes (`Shell`, `Exec`, `Pipe`); init
starts the shell and reaps orphans. In the kernel a process is created, waits,
is killed and reaped under `wait_lock` and `p->lock` (`ProcLife`), and the
scheduler picks it from the queues of the MLFQ (`Mlfq`). Its memory is allocated
lazily or eagerly, and pages are evicted to a swap area when frames run out
(`Swap`). File system calls work on inodes (`FileSys`) within transactions of
the log (`Log`), which sits on the buffer cache (`BufCache`) and the disk driver
(`VirtioDisk`). Console input and output go through `Console` and `Uart`.
`mkfs` (`Mkfs`) makes the first disk image.

The modules meet at interfaces that one of them implements and another assumes:
`FileSys` assumes of the log what `Log` is shown to implement (`TxnStore`),
`Log` assumes of buffers what `BufCache` implements (`BlockStore`), `BufCache`
assumes of disk requests what `VirtioDisk` implements (`DiskOps`), and `Shell`
assumes of processes and pipes what `ProcLife` and `Pipe` implement
(`ProcTree`, `Fifo`). Modules that only wait "until woken" rest on `ProcLife`,
where the lock hand-over of `sleep()` and `wakeup()` is explicit.

## Modules

The size of a step is the same everywhere: what the code does under one lock,
between two points where it can be observed, is one action. Loops that give up
the lock, copy blocks to the disk or can crash in between take one action per
turn.

| Module | Source | State | Actions |
|---|---|---|---|
| `Log` | log.c, the parts of bio.c it uses | disk, log blocks, on-disk and in-memory header, buffers with pins, `outstanding`, `committing`, place of each process | `BeginOp`, `LogWrite`, `EndOp`; `Buffers` (the cache); commit in `WriteLog`, `WriteHead`, `InstallTrans`, `ClearHead`, `EndCommit`; `Crash`; recovery in `ReadHead`, `RecoverTrans`, `RecoverClear` |
| `Mlfq` | proc.c, trap.c, syscall.c | queues with duplicates, level and slice of each process, place of each hart in `SC_MLFQ()` | pop, dispatch, yield, sleep, exit, fork in two halves, wakeup, kill, clock ticks, the boost slot by slot |
| `Swap` | vm.c, kalloc.c, proc.c | page tables, frame table, free list, swap slots, contents of frames and slots | dispatch and preemption; `kalloc`, `evict_page`, `vmfault`, `uvmalloc`, `uvmcopy`, `uvmunmap`, `copyout` in steps |
| `ProcLife` | proc.c, spinlock.c | `struct proc` of each slot, holders of `wait_lock` and `p->lock` | fork, exit with reparenting, the scan, reap and sleep of `wait()`, kill, getppid, the final `swtch` |
| `Pipe` | pipe.c, file.c, sysfile.c | bytes, counters modulo `WRAP`, `readopen`, `writeopen`, file references | read and write byte by byte, dup, fileclose in two halves, kill |
| `VirtioDisk` | virtio_disk.c | descriptors, both rings, `disk.info`, buffers; the device | `virtio_disk_rw` in steps, the interrupt handler in steps, the device |
| `FileSys` | fs.c, sysfile.c, file.c | disk as written and as committed, inode table with locks, current directories, open files | path walk, open, create, mkdir, link, unlink, chdir, write, close, `iput` in steps, crash, `ireclaim` |
| `BufCache` | bio.c, sleeplock.c | the LRU list, buffers, owners of sleep-locks, sleepers | bget, bread, bwrite, brelse, pin, unpin, `acquiresleep`, `releasesleep`, kill |
| `Console` | console.c | the circular buffer with `r`, `w`, `e` | typed, erased and killed characters, readers |
| `Uart` | uart.c | transmit FIFO, interrupt flags, `tx_busy`, writers | `uartwrite`, `uartputc_sync`, `uartintr`; the device |
| `Exec` | exec.c, sys_exec, vm.c, proc.c, kalloc.c | free frames, page-table pages of two levels, frame table, the image, the call under way | argument fetching, opening, one segment at a time, the stack, one argument at a time, the commit, the error path, lazy growth, exit |
| `Shell` | sh.c, init.c | processes with descriptors, pipes, the typed lines | the cases of `runcmd()` between system calls, `getcmd()`, fork and wait of the shell and of init; the parser as functions |
| `Umalloc` | umalloc.c | headers of blocks, `freep`, the break | `malloc`, `free`, an `sbrk` by the program |
| `Filters` | cat.c, wc.c, grep.c | what is left of a file, the partial line, the counts, the output | open, a read of any length with the loop body, end of file, errors |
| `Mkfs` | mkfs.c | data blocks, inodes, `freeinode`, `freeblock`, bitmap | root directory, next file, one read, end of file, the end |

`TxnStore`, `ProcTree`, `Fifo`, `DiskOps`, `BlockStore` and `LineInput` are what
`Log`, `ProcLife`, `Pipe`, `VirtioDisk`, `BufCache` and `Console` promise; the
refinement mappings are in the detailed modules.

Data is abstract: a page or a block is one value, a byte a member of a small
set, a word of a command line its position. Variables in which the width
matters (`nread`, `nwrite`, the ring indices, `r`, `w`, `e`, addresses in an ELF
header) count modulo a constant. Definitions with a comment that calls them a
variant, or that starts with "A ... that ...", are the mutations of
`PROJECT.json` and are used by no specification.

## Runs

- `log` (two processes, two blocks, a log of four blocks, two crashes): `log.c`
  implements `TxnStore` (`Atomicity`), never panics while operations write fewer
  blocks than they reserve, keeps its bookkeeping (`LogInv`), has everything on
  the disk when idle, and wakes every sleeper of `begin_op()`.
  Two crashes suffice for a crash in the middle of the recovery from a crash.
- `mlfq` (two harts, two processes, four entries per queue, two levels): no
  process runs on two harts, no child starts before `fork()` is done with it,
  and the scheduler can find every RUNNABLE process that `kkill()` has not
  touched. Stale and duplicate entries, and boosts that overlap with pushes and
  pops, all occur. A boost is due at every tick, and happens or is missed. One of the
  processes can be killed.
- `swap` (one hart, two processes of up to two pages, two frames, four swap slots): each frame and
  each slot has one user, the frame table agrees with the page tables, and every
  process reads what it last stored, through any sequence of evictions, faults,
  forks and exits. `sbrk()` with a negative argument and `copyout()` are called
  only while there is one process; see below for the other case.
- `swap_race`: with two harts `PrivateMemory` is violated, as described below.
- `proc` (three slots, five pids, kills of init and of a child): the process
  table implements `ProcTree`, a zombie is freed after the scheduler has left
  its stack, a new process is not killed by what was meant for an old one, no
  wakeup is lost, each `wait()` with a zombie returns, each orphan is reaped.
- `pipe` (two processes, two bytes, counters modulo four): a pipe implements
  `Fifo` across the wrap of its counters, is not used after it is freed, nobody
  sleeps without reason, and a reader sees the end of file.
- `virtio` (three processes, seven descriptors, so two requests fit): each
  request transfers its own block once (`ImplementsOps`), descriptors have one
  owner, the used ring names pending requests, waiters for descriptors are woken.
- `fs` and `fs_dir` (two processes; two inodes with crashes, or three inodes with
  directories): link counts, blocks, in-memory copies and reference counts agree
  with the disk and with the open files, and no panic is reached. The runs also
  check that there is no deadlock between inode locks.
- `buf` (two processes, three buffers, four blocks): one buffer per block, exact
  reference counts, a buffer a process waits for keeps its block, and the cache
  implements `BlockStore`.
- `tty`: the console's readers get the edited lines in order and are woken; the
  UART is never sent more than its FIFO holds, and each writer returns. The
  two parts share no state; a behaviour runs one of them (variable `part`).
- `programs`, composed in the same way:
  - the parser of the shell agrees with a grammar on all lines of up to four
    tokens, and the processes of five scripts (pipelines of up to four commands,
    lists, blocks, redirections, background commands, syntax errors; seven
    process slots, so that forks fail) start with three descriptors, wait for
    the children they have, return to the prompt, and are reaped;
  - `malloc()` keeps an ordered free list without adjacent blocks, and loses and
    shares nothing, in a heap of eight units, with foreign calls of `sbrk()`;
  - the matcher of grep agrees with a set-theoretic definition for all patterns
    and texts of up to three characters, and the output of cat, wc and grep does
    not depend on the sizes of reads;
  - `mkfs` gives each block to one place, marks it, and the files read back,
    through direct and indirect blocks, up to the largest file and a full image;
  - `exec()`, called twice with good and malformed programs and up to one
    argument too many, leaks and shares no frame on any path, leaves the old
    image until it commits, ends its transaction once, keeps the arguments
    within the stack, and panics nowhere.

The bookkeeping of a module, with its types, is one invariant made of named
parts: `LogInv`, `MemoryAccounted`, `TableSound`, `PipeSound`, `RingsTrue`,
`InodeTableTrue` and `DiskSound`, `BuffersHeld`, `TtySound`, `ProcessesRight`,
`HeapSound`, `ImageSound`, `FramesAccounted`, `AllOrNothing`. The part
`SleepJustified` says in each module that nobody sleeps while what they wait for
is there, and `ZombiesReaped` says of the kernel and of init that exited
processes are collected. The types of `Log` and `Mlfq` are proved, not run.

The symmetry in `swap`, `virtio`, `fs`, `fs_dir` and `buf` is over processes,
frames or blocks, and no temporal property is checked there except refinements
without fairness. `CHECK_DEADLOCK FALSE` stands where the system may stop: a bound (`MaxPid`,
the output of `tty`, the input of `programs`) is used up or all processes of
`pipe` have closed their ends.

## Fairness

- A process in the kernel goes on, and gets a spinlock that is free again and
  again (strong fairness of its steps: `acquire()` is an atomic swap in a loop,
  and a holder does not sleep). This needs that RUNNABLE processes run. For
  processes that `wakeup()`, `yield` or `fork()` made RUNNABLE that is
  `NoStranded`; a process that `kkill()` woke has to wait for the next boost.
- Operations of the file system end, and the disk and the UART answer (`log`,
  `tty`).
- init calls `wait()` for ever (`ProcLife`, `Shell`); a killed process traps.
- Nobody has to type, write, call `fork()` or crash.

## Proofs

Each theorem holds for every value of the constants that its component's
assumption admits; TLC evaluates the assumptions in the runs. `Invariant` in a
module says that its inductive invariant holds, and the listed theorems follow.

`LogProofs`, with the preservation of the contents in `LogDataProofs`, for all
sets of processes, blocks and values, all sizes of the log and any number of
crashes:

- `TypeCorrect`, `LogInvariant`: `TypeOK` and `LogInv` are invariants. `LogInv`
  is inductive together with `TypeOK`. It has six parts, and the step of each
  needs the ones before: `HeadInv` (in-memory and on-disk headers, by phase of
  commit and recovery), `OpInv` (`outstanding` counts the processes between
  `begin_op()` and `end_op()`, and nobody is there during a commit), `SpaceInv`
  (header entries and what is still reserved fit into the log; counted by
  tokens, one for each block that an operation may still add), `PinInv` (pins
  are the entries not installed yet), `CacheInv` (pinned buffers are cached) and
  `DataInv` (how far the copies of blocks have come).
- `Refinement`: `Spec => Atomicity`, that is, `Log` implements `TxnStore`. Each
  step maps to a step or a stutter; only `WriteHead` maps to a commit, because
  from then on recovery would install the blocks.
- `Quiescence`: without operations and commits everything is durable.
- `Capacity`: no panic, assuming `OpBlocks < MAXOPBLOCKS` and
  `NBUF >= LOGBLOCKS + Held`. Neither assumption can be dropped, see below.

`MlfqProofs` proves for any number of harts, processes, levels and entries that
`TypeOK`, `OneCpu` and `ChildNotStarted` are invariants (`TypeCorrect`,
`MutualExclusion`, `ChildWaits`). Their conjunction `IInv` is inductive: that a
popped process is dispatched only if it is RUNNABLE under its lock gives mutual
exclusion, whatever the queues hold, and a child is USED until its parent
makes it RUNNABLE.

`ProcLifeProofs`, for a process table of any size:

- `TableInvariant`: `TableSound`, that is, no lost wakeup in `wait()` and no slot
  freed under a running process. The invariant adds who holds which lock where
  (`LockInv`, `PlaceInv`), that the child of an unfinished `fork()` is of that
  parent alone (`ForkInv`), that parents are alive and init never ends
  (`ParentInv`), and `WakeInv`: while a parent scans, and until it sleeps, it
  holds `wait_lock`, so that no child becomes a zombie behind the scan; between
  `ExitWakeup` and `ExitZombie` the child holds it, so that the parent cannot
  fall asleep again.
- `FreshProcess`: `FreshNotKilled`, assuming `0 \notin Targets`; false without
  it, see below. It needs that a free slot has pid 0 and no mark (`FreeInv`).
- `TreeRefinement`: `ProcLife` implements `ProcTree`. `ForkParent`, `Reparent` and
  `WaitReap` take effect in the tree, the other steps of the calls stutter.

`PipeProofs`, for any number of processes, any size of the ring and any range of
the counters that it divides:

- `PipeInvariant`: `PipeSound`. `RefInv` counts the holders of an end, `OpenInv`
  ties `readopen` and `writeopen` to references and to the one process that closes
  the end, and `SleepInv` weakens the promise to sleepers while somebody holds
  the lock and is still to wake them.
- `FifoRefinement`: the ring is a queue (`Fifo`). It needs `Fill <= PIPESIZE`
  (`RingInv`), and facts about `%` that say where an entry of the queue lies
  after either counter has wrapped.

`BufCacheProofs`, for any number of processes, buffers and blocks with
`Cardinality(Buf) >= Cardinality(Proc) + MaxPins`:

- `BufferInvariant`: `BuffersHeld`. `PcInv` and `OwnerInv` place processes and
  owners of locks, `PinInv` bounds the pins, `DataInv` says that a valid buffer
  that is not pinned, nor changed and about to be, has what the disk has. That
  `bget()` finds a buffer is a counting argument: users and pins are fewer than
  buffers (`BufferLeft`).
- `BlocksRefinement`: the cache is a store of blocks (`BlockStore`). Recycling does
  not change the contents, because of `DataInv` and the exact reference counts.

`VirtioDiskProofs`, with the facts about rings and the simpler steps in
`VirtioRingProofs`, for any finite set of processes, at least three descriptors and
any range of the ring indices that `NUM` divides:

- `RingsInvariant`: `RingsTrue`. `ChainInv`, `ApartInv` and `FreeInv` say whose each
  descriptor is and how the three of a request are linked. `AvailInv`, `InflightInv`
  and `UsedInv` follow a request: until it is done it is once in the avail ring or
  once with the device, then once in the used ring (`Window` is the set of entries
  between two indices, `Distinct` says that there are no duplicates). `RoomInv`
  counts: there are no more entries than requests, and a request has three
  descriptors, so no ring overflows and an entry is never overwritten. `BusyInv`
  says that a buffer is busy until the handler has seen its entry.
- `OpsRefinement`: the driver implements `DiskOps`. `Call` begins an operation,
  `DevDone` carries it out, `RwDone` returns; the other steps stutter. That `RwDone`
  returns a finished operation is `BusyInv`; that `DevDone` works on the block and
  the buffer of one call is `ChainInv` with `InflightInv`.

The inductive invariants were checked with TLC on the constants of the runs
before they were proved. What is only model-checked, and why:

- liveness (`SleeperWoken`, `ZombiesReaped`, `EofSeen`, `LineTaken`,
  `WritersReturn`, `PromptReturns`), which needs ENABLED and fairness;
- `NoStranded`, which is false if a queue can overflow, and `PrivateMemory`, which
  holds for the calls of its run and is violated in `swap_race`;
- recursive definitions (the parser, the matcher, `iappend()`, the search of
  `malloc()`), which are compared with their references for bounded inputs;
- the invariants and refinements of `Swap`, `FileSys`, `Console`, `Uart` and `Exec`.

## Disagreements between the code and what it says

`swap_race` is a run of its own. The others are found by changing a
configuration as indicated; each then ends with a counterexample.

- **evict_page() loses a store** (`swap_race`, vm.c:80). src/README:92 speaks of
  "a robust, concurrent-safe virtual memory manager". The owner of the victim can be
  dispatched on another hart after the look at its state and store to the page
  between the copy to swap and the change of its entry.
- **copyout() and uvmunmap() use stale physical addresses** (vm.c:547, 328).
  `MCSwap.cfg` with `Calls = {"sbrk", "fork", "copyout"}` or `{"sbrk", "fork", "shrink"}`
  and `AloneCalls = {}`: preempted after the lookup, the process writes to, or
  frees, a frame that has been given to another one.
- **sbrk() does not fail early** (vm.c:114). src/README:22: "If the swap space and
  RAM are both exhausted, `sbrk` fails early". `kalloc()` calls `evict_page()`, which
  panics. `SbrkFailsEarly` with `Proc <- Procs1`, `MAX_SP = 1`, `MaxPages = 4`,
  `Calls = {"sbrk"}`.
- **A full log panics on an absorbed write** (log.c:221). The test for space comes
  before the search for the block. `LogWriteAccepted` with four blocks, one
  value, `NBUF = 4`, `Held = 0`, `OpBlocks = 2`, `MaxCrashes = 0`, and `Spec`.
- **A full log leaves commit() no buffer** (bio.c:88): `NBUF` equals `LOGBLOCKS` in
  param.h. `CommitHasBuffer` with the same constants.
- **kkill() does not queue the process it wakes** (proc.c:933: "Wake process from
  sleep()."): `KilledFindable` in `MCMlfq.cfg`.
- **A push to a full queue is dropped** (proc.c:79): `NoStranded` with `N = 3`,
  `NPROC = 3`, `LEVELS = 1`, `BOOST = 2`, `Kills = {}`; the boost queues RUNNING and USED processes, so that
  queue 0 overflows with duplicates.
- **A boost can be missed** (proc.c:618; proc.c:613: "push all the processes to level
  0 after 128 ticks"): `BoostNotMissed` with `FairSpec`, `CPU = {0}`,
  `NPROC = 2`, `BOOST = 3`, `Kills = {}`.
- **kill() can miss a process that is about to sleep in wait()** (proc.c:549; proc.c:921
  promises that the victim exits when it "tries to return to user space"): it
  sleeps as long as its children live. `KilledDies` with `MaxPid = 3` and
  `Targets <- KillChildren`.
- **getppid() can return the pid of a killed parent** (proc.c:1050; the comment at
  proc.c:1036 says this "is incorrect"): `kkill()` does not take `wait_lock`, and the
  parent can be killed after the test. `PpidAlive` with `Spec`, `MaxPid = 4`,
  `Targets <- KillChildren`.
- **kill(0) marks a free slot** (proc.c:929), and the next process in it dies:
  `FreshNotKilled` with `N = 2`, `MaxPid = 3`, `Targets <- KillZero`.
- **create() in a removed directory** (sysfile.c:254) makes a file with a link
  count and no name: `LinksCounted` in `MCFileSysDir.cfg` with `Calls <- DeadCalls`.
- **iput() can leave an inode without links allocated** (fs.c:361; fs.c:333:
  "free the inode (and its content) on disk"): between freeing it and dropping
  the reference, another process may allocate and give up the same inode.
  `OrphanHeld` in `MCFileSys.cfg` without the symmetry. The next boot's `ireclaim()`
  frees it.

Some behaviour that is not promised anywhere, but that the modules show: grep
stops at a line that does not fit into its buffer and ignores failing reads and
writes (`Filters`, variable `lost`); mkfs truncates a file whose `read()` fails;
init exits, and the kernel panics, if background processes take the slot that
the shell left before init forks again (`InitFork`).

## Not modelled

- `copyin()`, `copyinstr()`, the kernel's own page table, permission bits other
  than PTE_U and PTE_W; the contents of pages in `Exec`. `Exec` assumes that
  nothing is evicted while `exec()` runs, although the frames of the new image
  are entered under the process (vm.c:365) whose page table is still the old one.
- Kills and copy errors other than those of `Pipe`, `Console` and `Uart`.
- File offsets, device files, `fstat()`, `mknod()`; the split of a write into
  several transactions; the layout of blocks in the kernel's inodes (that of
  mkfs is modelled).
- `push_off()` nesting and the memory model: locks are atomic.
- `sys_pause()` and the calls that only read statistics; `printf()`, `string.c`,
  boot, register and trap assembly, the PLIC. They are sequential, or hardware
  set-up in a fixed order, without state that a model would tell apart.
- The user programs of one system call, the library of user programs, and the
  test programs: the models let a process make any modelled call at any time.
