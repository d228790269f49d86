------------------------------ MODULE FileSys -------------------------------
(***************************************************************************)
(* Inodes, directories and the system calls on them: kernel/fs.c and       *)
(* kernel/sysfile.c, in several processes, with crashes and ireclaim().    *)
(*                                                                         *)
(* What a process does under the lock of an inode is one action, up to the *)
(* next lock, iput() or system call boundary.  iput() is several actions:  *)
(* it frees an inode on the disk while other processes search the disk for *)
(* a free inode.  The log is abstract (module Log implements it): what     *)
(* is written between begin_op() and end_op() reaches the disk when the    *)
(* last operation ends, all of it or none.                                 *)
(*                                                                         *)
(* An inode's place in itable is named by its number: iget() keeps at most *)
(* one entry for each.                                                     *)
(***************************************************************************)
EXTENDS Naturals, FiniteSets, Sequences, FiniteSetsExt

CONSTANTS
  Proc,
  Inode,       \* the inodes on the disk are 1 .. Inode; ninodes is one more
  NINODE,      \* entries of itable
  Name,        \* names in a directory, "." and ".." apart
  Block,       \* numbers of data blocks
  MAXFILE,     \* blocks of a file
  Calls,       \* the system calls that processes make, a set of Call records
  Crashes,     \* may the machine crash?
  None

Inum == 1 .. Inode
Root == 1
NoInum == 0

\* A path starts at the root or at the current directory.
Path(from, names) == [from |-> from, names |-> names]
NoPath == Path("root", <<>>)
Call(op, path, new) == [op |-> op, path |-> path, new |-> new]

ASSUME FileSysAssumption ==
  /\ Inode \in Nat \ {0} /\ NINODE \in Nat \ {0} /\ MAXFILE \in Nat
  /\ None \notin Proc /\ Block \subseteq Nat
  /\ \A c \in Calls : c.op \in {"open", "trunc", "create", "mkdir", "link", "unlink", "chdir"}

VARIABLES
  disk,        \* inodes, directories and bitmap, as the operations have written them
  saved,       \* the same, as of the last commit
  mem,         \* itable: the entry of each inode, and its sleep-lock
  pc,          \* where each process is
  cwd, file,   \* p->cwd, and the inode of an open file
  ops,         \* the processes between begin_op() and end_op()
  boot,        \* where ireclaim() is, past the last inode when it is done
  panicked

vars == <<disk, saved, mem, pc, cwd, file, ops, boot, panicked>>

FreeInode == [type |-> "free", nlink |-> 0, addrs |-> {},
              dir |-> [n \in Name |-> NoInum], up |-> NoInum]
NoEntry == [ref |-> 0, valid |-> FALSE, lock |-> None,
            type |-> "free", nlink |-> 0, addrs |-> {}]
RootEntry == [NoEntry EXCEPT !.ref = Cardinality(Proc)]
Idle == [at |-> "idle", call |-> Call("none", NoPath, NoPath), ip |-> NoInum,
         dp |-> NoInum, rest |-> <<>>, put |-> <<>>, iput |-> "no"]

\* The disk as mkfs makes it: an empty root.
EmptyDisk ==
  [ino |-> [i \in Inum |-> IF i = Root
              THEN [FreeInode EXCEPT !.type = "dir", !.nlink = 1, !.up = Root] ELSE FreeInode],
   used |-> {}]

Running == boot > Inode /\ ~panicked

Init ==
  /\ disk = EmptyDisk /\ saved = EmptyDisk
  /\ mem = [i \in Inum |-> IF i = Root THEN RootEntry ELSE NoEntry]
  /\ pc = [p \in Proc |-> Idle]
  /\ cwd = [p \in Proc |-> Root]
  /\ file = [p \in Proc |-> NoInum]
  /\ ops = {}
  /\ boot = Inode + 1
  /\ panicked = FALSE

-----------------------------------------------------------------------------
(* The operations on inodes, as functions of the table m and the disk d. *)

\* iget() and idup(): one more reference.
iget(m, i) == [m EXCEPT ![i].ref = @ + 1]
TableFull(i) == mem[i].ref = 0 /\ Cardinality({ j \in Inum : mem[j].ref > 0 }) >= NINODE

\* ilock(): the lock, and the inode from the disk if the entry has not got it.
ilock(m, i, p) ==
  [m EXCEPT ![i] = [ref |-> @.ref, valid |-> TRUE, lock |-> p,
                    type |-> IF @.valid THEN @.type ELSE disk.ino[i].type,
                    nlink |-> IF @.valid THEN @.nlink ELSE disk.ino[i].nlink,
                    addrs |-> IF @.valid THEN @.addrs ELSE disk.ino[i].addrs]]
CanLock(i) == mem[i].lock = None
NoType(i) == ~mem[i].valid /\ disk.ino[i].type = "free"   \* panic("ilock: no type")
iunlock(m, i) == [m EXCEPT ![i].lock = None]

\* iupdate(): the entry to the disk.
iupdate(d, m, i) ==
  [d EXCEPT !.ino[i].type = m[i].type, !.ino[i].nlink = m[i].nlink, !.ino[i].addrs = m[i].addrs]

Links(m, i, n) == [m EXCEPT ![i].nlink = n]

\* ialloc() and balloc(): the first that is free on the disk.
FreeInodes == { j \in Inum : disk.ino[j].type = "free" }
ialloc == Min(FreeInodes)
FreeBlocks == Block \ disk.used
balloc == Min(FreeBlocks)

\* bfree(), for all the blocks of a file.
bfree(d, blocks) == [d EXCEPT !.used = @ \ blocks]

\* bmap(): one more block for the file, if it may have one and there is one.
bmap(m, i) ==
  IF FreeBlocks = {} \/ Cardinality(m[i].addrs) = MAXFILE THEN m
  ELSE [m EXCEPT ![i].addrs = @ \cup {balloc}]

\* itrunc() and the size: no blocks, and no content.
itruncMem(m, i) == [m EXCEPT ![i].addrs = {}]
itruncDisk(d, m, i) ==
  [bfree(d, m[i].addrs) EXCEPT !.ino[i].addrs = {}, !.ino[i].dir = FreeInode.dir,
                               !.ino[i].up = NoInum]

dirlookup(i, n) == disk.ino[i].dir[n]
isdirempty(i) == disk.ino[i].dir = FreeInode.dir
dirlink(d, i, n, target) == [d EXCEPT !.ino[i].dir[n] = target]

-----------------------------------------------------------------------------
(* Steps of a process *)

At(p, place) == Running /\ pc[p].at = place /\ pc[p].put = <<>>
Go(p, place) == pc' = [pc EXCEPT ![p].at = place]
GoPut(p, place, put) == pc' = [pc EXCEPT ![p].at = place, ![p].put = put]
Finish(p, put) == pc' = [pc EXCEPT ![p] = [Idle EXCEPT !.at = "end", !.put = put]]
Panic == panicked' = TRUE /\ UNCHANGED <<disk, saved, mem, pc, cwd, file, ops, boot>>
Op(p) == pc[p].call.op
Last1(p) == Len(pc[p].rest) = 1

\* namex() starts a path.
WalkFrom(p, path) == IF path.from = "root" THEN Root ELSE cwd[p]

\* Does the call look for the parent of the path's last name?
NameiParent(p) ==
  \/ Op(p) \in {"create", "mkdir", "unlink"}
  \/ Op(p) = "link" /\ pc[p].ip # NoInum

\* A system call starts its operation and its first path.
Begin(p, c) ==
  /\ At(p, "idle")
  /\ ops' = ops \cup {p}
  /\ mem' = iget(mem, WalkFrom(p, c.path))
  /\ pc' = [pc EXCEPT ![p] = [Idle EXCEPT !.at = "walk", !.call = c,
                              !.dp = WalkFrom(p, c.path), !.rest = c.path.names]]
  /\ UNCHANGED <<disk, saved, cwd, file, boot, panicked>>

\* namex() locks the directory it is at.
WalkLock(p) ==
  LET i == pc[p].dp IN
  /\ At(p, "walk") /\ CanLock(i)
  /\ IF NoType(i) THEN Panic
     ELSE /\ mem' = ilock(mem, i, p)
          /\ Go(p, "look")
          /\ UNCHANGED <<disk, saved, cwd, file, ops, boot, panicked>>

\* namex() fails: no directory, or no such name.
WalkFail(p) ==
  LET i == pc[p].dp IN
  /\ At(p, "look")
  /\ \/ mem[i].type # "dir"
     \/ ~(NameiParent(p) /\ Last1(p)) /\ dirlookup(i, Head(pc[p].rest)) = NoInum
  /\ mem' = iunlock(mem, i)
  /\ IF pc[p].ip # NoInum THEN GoPut(p, "linkbad", <<i>>) ELSE Finish(p, <<i>>)
  /\ UNCHANGED <<disk, saved, cwd, file, ops, boot, panicked>>

\* nameiparent() returns the directory, unlocked.
WalkParent(p) ==
  LET i == pc[p].dp IN
  /\ At(p, "look") /\ mem[i].type = "dir" /\ NameiParent(p) /\ Last1(p)
  /\ mem' = iunlock(mem, i)
  /\ Go(p, "parent")
  /\ UNCHANGED <<disk, saved, cwd, file, ops, boot, panicked>>

\* dirlookup() finds the next inode, and the directory is unlocked and put.
WalkNext(p) ==
  LET i == pc[p].dp
      next == dirlookup(i, Head(pc[p].rest))
  IN
  /\ At(p, "look") /\ mem[i].type = "dir" /\ ~(NameiParent(p) /\ Last1(p)) /\ next # NoInum
  /\ IF TableFull(next) THEN Panic
     ELSE /\ mem' = iunlock(iget(mem, next), i)
          /\ pc' = [pc EXCEPT ![p].put = <<i>>, ![p].rest = Tail(@),
                              ![p].at = IF Last1(p) THEN "got" ELSE "walk",
                              ![p].ip = IF Last1(p) THEN next ELSE @,
                              ![p].dp = IF Last1(p) THEN NoInum ELSE next]
          /\ UNCHANGED <<disk, saved, cwd, file, ops, boot, panicked>>

\* The inode of the path, or the new one, is locked by open(), chdir() and link().
GotLock(p) ==
  LET i == pc[p].ip IN
  /\ At(p, "got") /\ CanLock(i)
  /\ IF NoType(i) THEN Panic
     ELSE /\ mem' = ilock(mem, i, p)
          /\ Go(p, "locked")
          /\ UNCHANGED <<disk, saved, cwd, file, ops, boot, panicked>>

\* The parent directory is locked by create(), unlink() and link().
ParentLock(p) ==
  LET i == pc[p].dp IN
  /\ At(p, "parent") /\ CanLock(i)
  /\ IF NoType(i) \/ (mem[i].valid /\ mem[i].type # "dir") THEN Panic
     ELSE /\ mem' = ilock(mem, i, p)
          /\ Go(p, "dplocked")
          /\ UNCHANGED <<disk, saved, cwd, file, ops, boot, panicked>>

\* sys_open() with the inode locked: a directory cannot be opened for writing, and a
\* process has one file descriptor here.  O_TRUNC empties a file.
OpenLocked(p) ==
  LET i == pc[p].ip
      trunc == Op(p) = "trunc" /\ mem[i].type = "file"
  IN
  /\ At(p, "locked") /\ Op(p) \in {"open", "trunc", "create"}
  /\ IF (Op(p) = "trunc" /\ mem[i].type = "dir") \/ file[p] # NoInum
     THEN /\ mem' = iunlock(mem, i)
          /\ Finish(p, <<i>>)
          /\ UNCHANGED <<disk, file>>
     ELSE /\ file' = [file EXCEPT ![p] = i]
          /\ disk' = IF trunc THEN itruncDisk(disk, mem, i) ELSE disk
          /\ mem' = iunlock(IF trunc THEN itruncMem(mem, i) ELSE mem, i)
          /\ Finish(p, <<>>)
  /\ UNCHANGED <<saved, cwd, ops, boot, panicked>>

\* A sys_mkdir() that keeps its reference.
MkdirLockedLeak(p) ==
  /\ At(p, "locked") /\ Op(p) = "mkdir"
  /\ mem' = iunlock(mem, pc[p].ip)
  /\ Finish(p, <<>>)
  /\ UNCHANGED <<disk, saved, cwd, file, ops, boot, panicked>>

\* sys_mkdir() has its directory.
MkdirLocked(p) ==
  /\ At(p, "locked") /\ Op(p) = "mkdir"
  /\ mem' = iunlock(mem, pc[p].ip)
  /\ Finish(p, <<pc[p].ip>>)
  /\ UNCHANGED <<disk, saved, cwd, file, ops, boot, panicked>>

\* sys_chdir(): the old directory is put, and the new one keeps its reference.
ChdirLocked(p) ==
  LET i == pc[p].ip
      dir == mem[i].type = "dir"
  IN
  /\ At(p, "locked") /\ Op(p) = "chdir"
  /\ mem' = iunlock(mem, i)
  /\ Finish(p, IF dir THEN <<cwd[p]>> ELSE <<i>>)
  /\ cwd' = IF dir THEN [cwd EXCEPT ![p] = i] ELSE cwd
  /\ UNCHANGED <<disk, saved, file, ops, boot, panicked>>

\* sys_link() that does not count the link before it looks for the directory.
LinkLockedLate(p) ==
  LET i == pc[p].ip
      from == WalkFrom(p, pc[p].call.new)
  IN
  /\ At(p, "locked") /\ Op(p) = "link"
  /\ mem' = iget(iunlock(mem, i), from)
  /\ pc' = [pc EXCEPT ![p].at = "walk", ![p].dp = from, ![p].rest = pc[p].call.new.names]
  /\ UNCHANGED <<disk, saved, cwd, file, ops, boot, panicked>>

\* sys_link() counts the link before it makes it, and looks for the new directory.
LinkLocked(p) ==
  LET i == pc[p].ip
      m == Links(mem, i, mem[i].nlink + 1)
      from == WalkFrom(p, pc[p].call.new)
  IN
  /\ At(p, "locked") /\ Op(p) = "link"
  /\ IF mem[i].type = "dir"
     THEN /\ mem' = iunlock(mem, i)
          /\ Finish(p, <<i>>)
          /\ UNCHANGED disk
     ELSE /\ mem' = iget(iunlock(m, i), from)
          /\ disk' = iupdate(disk, m, i)
          /\ pc' = [pc EXCEPT ![p].at = "walk", ![p].dp = from, ![p].rest = pc[p].call.new.names]
  /\ UNCHANGED <<saved, cwd, file, ops, boot, panicked>>

\* dirlink() for sys_link(): it fails if the name is there, or if the directory needs
\* a block and there is none.
LinkDp(p) ==
  LET i == pc[p].ip
      dp == pc[p].dp
      n == Head(pc[p].rest)
      there == dirlookup(dp, n)
  IN
  /\ At(p, "dplocked") /\ Op(p) = "link"
  /\ IF there # NoInum
     THEN IF TableFull(there) THEN Panic
          ELSE /\ mem' = iget(mem, there)
               /\ GoPut(p, "linkdrop", <<there>>)
               /\ UNCHANGED <<disk, saved, cwd, file, ops, boot, panicked>>
     ELSE /\ mem' = iunlock(mem, dp)
          /\ \/ /\ disk' = dirlink(disk, dp, n, i)
                /\ Finish(p, <<dp, i>>)
             \/ /\ GoPut(p, "linkbad", <<dp>>)
                /\ UNCHANGED disk
          /\ UNCHANGED <<saved, cwd, file, ops, boot, panicked>>

\* The link was not made: its count is taken back.
LinkBad(p) ==
  LET i == pc[p].ip
      m == Links(ilock(mem, i, p), i, ilock(mem, i, p)[i].nlink - 1)
  IN
  /\ At(p, "linkbad") /\ CanLock(i)
  /\ IF NoType(i) THEN Panic
     ELSE /\ disk' = iupdate(disk, m, i)
          /\ mem' = iunlock(m, i)
          /\ Finish(p, <<i>>)
          /\ UNCHANGED <<saved, cwd, file, ops, boot, panicked>>

\* sys_unlink() looks for the name, with the directory locked.
UnlinkDp(p) ==
  LET dp == pc[p].dp
      i == dirlookup(dp, Head(pc[p].rest))
  IN
  /\ At(p, "dplocked") /\ Op(p) = "unlink"
  /\ IF i = NoInum
     THEN /\ mem' = iunlock(mem, dp)
          /\ Finish(p, <<dp>>)
          /\ UNCHANGED <<disk, saved, cwd, file, ops, boot, panicked>>
     ELSE IF TableFull(i) THEN Panic
     ELSE /\ mem' = iget(mem, i)
          /\ pc' = [pc EXCEPT ![p].at = "unlinkip", ![p].ip = i]
          /\ UNCHANGED <<disk, saved, cwd, file, ops, boot, panicked>>

\* It locks the inode as well, and removes the entry unless it is of a directory
\* that is not empty.
UnlinkIp(p) ==
  LET dp == pc[p].dp
      i == pc[p].ip
      m == ilock(mem, i, p)
      m2 == IF m[i].type = "dir" THEN Links(m, dp, m[dp].nlink - 1) ELSE m
  IN
  /\ At(p, "unlinkip") /\ CanLock(i)
  /\ IF NoType(i) \/ m[i].nlink < 1 THEN Panic
     ELSE IF m[i].type = "dir" /\ ~isdirempty(i)
     THEN /\ mem' = iunlock(m, i)
          /\ GoPut(p, "drop", <<i>>)
          /\ UNCHANGED <<disk, saved, cwd, file, ops, boot, panicked>>
     ELSE /\ disk' = iupdate(dirlink(disk, dp, Head(pc[p].rest), NoInum), m2, dp)
          /\ mem' = iunlock(m2, dp)
          /\ GoPut(p, "unlinkdec", <<dp>>)
          /\ UNCHANGED <<saved, cwd, file, ops, boot, panicked>>

\* The inode, still locked, has one link less.
UnlinkDec(p) ==
  LET i == pc[p].ip
      m == Links(mem, i, mem[i].nlink - 1)
  IN
  /\ At(p, "unlinkdec")
  /\ disk' = iupdate(disk, m, i)
  /\ mem' = iunlock(m, i)
  /\ Finish(p, <<i>>)
  /\ UNCHANGED <<saved, cwd, file, ops, boot, panicked>>

\* create(), with the directory locked: the name is there, or ialloc() takes the first
\* inode that is free on the disk.
CreateDp(p) ==
  LET dp == pc[p].dp
      there == dirlookup(dp, Head(pc[p].rest))
      i == IF there # NoInum THEN there ELSE ialloc
      type == IF Op(p) = "mkdir" THEN "dir" ELSE "file"
  IN
  /\ At(p, "dplocked") /\ Op(p) \in {"create", "mkdir"}
  /\ IF there = NoInum /\ FreeInodes = {}
     THEN /\ mem' = iunlock(mem, dp)
          /\ Finish(p, <<dp>>)
          /\ UNCHANGED <<disk, saved, cwd, file, ops, boot, panicked>>
     ELSE IF TableFull(i) THEN Panic
     ELSE /\ IF there # NoInum
             THEN /\ mem' = iunlock(iget(mem, i), dp)
                  /\ pc' = [pc EXCEPT ![p].at = "createold", ![p].ip = i, ![p].put = <<dp>>]
                  /\ UNCHANGED disk
             ELSE /\ mem' = iget(mem, i)
                  /\ disk' = [disk EXCEPT !.ino[i] = [FreeInode EXCEPT !.type = type]]
                  /\ pc' = [pc EXCEPT ![p].at = "createnew", ![p].ip = i]
          /\ UNCHANGED <<saved, cwd, file, ops, boot, panicked>>

\* What is there is good for open(O_CREATE), if it is a file.
CreateOld(p) ==
  LET i == pc[p].ip
      m == ilock(mem, i, p)
  IN
  /\ At(p, "createold") /\ CanLock(i)
  /\ IF NoType(i) THEN Panic
     ELSE /\ IF Op(p) = "create" /\ m[i].type = "file"
             THEN mem' = m /\ Go(p, "locked")
             ELSE mem' = iunlock(m, i) /\ Finish(p, <<i>>)
          /\ UNCHANGED <<disk, saved, cwd, file, ops, boot, panicked>>

\* A ".." that is not counted.
LinkDotdotNot(m, dp) == m

\* The ".." of a new directory is a link to its parent.
LinkDotdot(m, dp) == Links(m, dp, m[dp].nlink + 1)

\* The new inode is locked, linked once and, if it is a directory, given "..".  Then it
\* is entered into the directory, or taken back if a block for an entry is missing.
CreateNew(p) ==
  LET dp == pc[p].dp
      i == pc[p].ip
      dir == Op(p) = "mkdir"
      m == Links(ilock(mem, i, p), i, 1)
      m2 == IF dir THEN LinkDotdot(m, dp) ELSE m
      d == iupdate(iupdate(dirlink(disk, dp, Head(pc[p].rest), i), m2, i), m2, dp)
  IN
  /\ At(p, "createnew") /\ CanLock(i)
  /\ IF NoType(i) THEN Panic
     ELSE /\ \/ /\ disk' = IF dir THEN [d EXCEPT !.ino[i].up = dp] ELSE d
                /\ mem' = iunlock(m2, dp)
                /\ GoPut(p, "locked", <<dp>>)
             \/ /\ disk' = iupdate(disk, Links(m, i, 0), i)
                /\ mem' = iunlock(Links(m, i, 0), i)
                /\ GoPut(p, "drop", <<i>>)
          /\ UNCHANGED <<saved, cwd, file, ops, boot, panicked>>

\* A call that failed lets go of the directory, after the inode.
DropDp(p) ==
  /\ At(p, "drop") \/ At(p, "linkdrop")
  /\ mem' = iunlock(mem, pc[p].dp)
  /\ IF pc[p].at = "drop" THEN Finish(p, <<pc[p].dp>>) ELSE GoPut(p, "linkbad", <<pc[p].dp>>)
  /\ UNCHANGED <<disk, saved, cwd, file, ops, boot, panicked>>

-----------------------------------------------------------------------------
(* Open files *)

\* filewrite() starts its operation.
WriteBegin(p) ==
  /\ At(p, "idle") /\ file[p] # NoInum
  /\ ops' = ops \cup {p}
  /\ Go(p, "write")
  /\ UNCHANGED <<disk, saved, mem, cwd, file, boot, panicked>>

\* writei() of the next block of the file; balloc() may find none.
Write(p) ==
  LET i == file[p]
      m == ilock(mem, i, p)
      m2 == bmap(m, i)
  IN
  /\ At(p, "write") /\ CanLock(i)
  /\ IF NoType(i) THEN Panic
     ELSE /\ IF m[i].type = "file"
             THEN /\ disk' = [iupdate(disk, m2, i) EXCEPT !.used = @ \cup m2[i].addrs]
                  /\ mem' = iunlock(m2, i)
             ELSE mem' = iunlock(m, i) /\ UNCHANGED disk
          /\ Finish(p, <<>>)
          /\ UNCHANGED <<saved, cwd, file, ops, boot, panicked>>

\* fileclose() of the last reference.
Close(p) ==
  /\ At(p, "idle") /\ file[p] # NoInum
  /\ ops' = ops \cup {p}
  /\ file' = [file EXCEPT ![p] = NoInum]
  /\ Finish(p, <<file[p]>>)
  /\ UNCHANGED <<disk, saved, mem, cwd, boot, panicked>>

-----------------------------------------------------------------------------
(* iput() of the first inode that the process has to put *)

Putting(p, step) == Running /\ pc[p].put # <<>> /\ pc[p].iput = step
Put(p) == Head(pc[p].put)

\* An iput() that frees an inode without links, whoever else refers to it.
LastRefAny(i) == mem[i].valid /\ mem[i].nlink = 0

\* The condition under which iput() frees the inode.
LastRef(i) == mem[i].ref = 1 /\ mem[i].valid /\ mem[i].nlink = 0

NextPut(p) == pc' = [pc EXCEPT ![p].put = Tail(@), ![p].iput = "no"]
Drop(m, i) == [m EXCEPT ![i] = IF @.ref = 1 THEN NoEntry ELSE [@ EXCEPT !.ref = @ - 1]]

\* Other references or links remain.
IputKeep(p) ==
  /\ Putting(p, "no") /\ ~LastRef(Put(p))
  /\ mem' = Drop(mem, Put(p))
  /\ NextPut(p)
  /\ UNCHANGED <<disk, saved, cwd, file, ops, boot, panicked>>

\* It is the last reference and there are no links: the lock must be free, because
\* sleep() panics with itable.lock held.
IputLock(p) ==
  /\ Putting(p, "no") /\ LastRef(Put(p))
  /\ IF ~CanLock(Put(p)) THEN Panic
     ELSE /\ mem' = [mem EXCEPT ![Put(p)].lock = p]
          /\ pc' = [pc EXCEPT ![p].iput = "free"]
          /\ UNCHANGED <<disk, saved, cwd, file, ops, boot, panicked>>

\* itrunc(), and the inode is free on the disk.
IputFree(p) ==
  LET m == [itruncMem(mem, Put(p)) EXCEPT ![Put(p)].type = "free"] IN
  /\ Putting(p, "free")
  /\ IF ~(mem[Put(p)].addrs \subseteq disk.used) THEN Panic
     ELSE /\ mem' = m
          /\ disk' = iupdate(itruncDisk(disk, mem, Put(p)), m, Put(p))
          /\ pc' = [pc EXCEPT ![p].iput = "freed"]
          /\ UNCHANGED <<saved, cwd, file, ops, boot, panicked>>

\* The entry is not valid any more, and unlocked.
IputInvalid(p) ==
  /\ Putting(p, "freed")
  /\ mem' = [mem EXCEPT ![Put(p)] = [NoEntry EXCEPT !.ref = mem[Put(p)].ref]]
  /\ pc' = [pc EXCEPT ![p].iput = "drop"]
  /\ UNCHANGED <<disk, saved, cwd, file, ops, boot, panicked>>

\* The reference is dropped.
IputDrop(p) ==
  /\ Putting(p, "drop")
  /\ mem' = Drop(mem, Put(p))
  /\ NextPut(p)
  /\ UNCHANGED <<disk, saved, cwd, file, ops, boot, panicked>>

-----------------------------------------------------------------------------
(* Transactions, crash and recovery *)

\* end_op(): the last operation commits.
End(p) ==
  /\ At(p, "end")
  /\ ops' = ops \ {p}
  /\ saved' = IF ops' = {} THEN disk ELSE saved
  /\ pc' = [pc EXCEPT ![p] = Idle]
  /\ UNCHANGED <<disk, mem, cwd, file, boot, panicked>>

\* The machine crashes and starts again from the last commit.
Crash ==
  /\ Crashes /\ ~panicked
  /\ disk' = saved
  /\ mem' = [i \in Inum |-> IF i = Root THEN RootEntry ELSE NoEntry]
  /\ pc' = [p \in Proc |-> Idle]
  /\ cwd' = [p \in Proc |-> Root]
  /\ file' = [p \in Proc |-> NoInum]
  /\ ops' = {}
  /\ boot' = 1
  /\ UNCHANGED <<saved, panicked>>

\* ireclaim() looks at the next inode and, if it is allocated without a link, frees it
\* in a transaction, by iget(), ilock(), iunlock() and iput().
Reclaim ==
  LET i == disk.ino[boot] IN
  /\ boot <= Inode
  /\ disk' = IF i.type # "free" /\ i.nlink = 0
             THEN [disk EXCEPT !.ino[boot] = FreeInode, !.used = @ \ i.addrs] ELSE disk
  /\ saved' = disk'
  /\ boot' = boot + 1
  /\ UNCHANGED <<mem, pc, cwd, file, ops, panicked>>

Step(p) ==
  \/ \E c \in Calls : Begin(p, c)
  \/ WalkLock(p) \/ WalkFail(p) \/ WalkParent(p) \/ WalkNext(p)
  \/ GotLock(p) \/ ParentLock(p)
  \/ OpenLocked(p) \/ MkdirLocked(p) \/ ChdirLocked(p)
  \/ LinkLocked(p) \/ LinkDp(p) \/ LinkBad(p)
  \/ UnlinkDp(p) \/ UnlinkIp(p) \/ UnlinkDec(p)
  \/ CreateDp(p) \/ CreateOld(p) \/ CreateNew(p) \/ DropDp(p)
  \/ WriteBegin(p) \/ Write(p) \/ Close(p)
  \/ IputKeep(p) \/ IputLock(p) \/ IputFree(p) \/ IputInvalid(p) \/ IputDrop(p)
  \/ End(p)

Next == (\E p \in Proc : Step(p)) \/ Crash \/ Reclaim

Spec == Init /\ [][Next]_vars

-----------------------------------------------------------------------------
(* Properties *)

Inodes == [Inum -> [type : {"free", "dir", "file"}, nlink : Nat, addrs : SUBSET Block,
                    dir : [Name -> Inum \cup {NoInum}], up : Inum \cup {NoInum}]]
Disks == [ino : Inodes, used : SUBSET Block]

\* Every variable has its type: counts stay natural, references name inodes.
TypeOK ==
  /\ disk \in Disks /\ saved \in Disks
  /\ mem \in [Inum -> [ref : Nat, valid : BOOLEAN, lock : Proc \cup {None},
                       type : {"free", "dir", "file"}, nlink : Nat, addrs : SUBSET Block]]
  /\ cwd \in [Proc -> Inum] /\ file \in [Proc -> Inum \cup {NoInum}]
  /\ ops \subseteq Proc /\ boot \in 1 .. Inode + 1 /\ panicked \in BOOLEAN

\* No interleaving of calls leads to one of the panics of fs.c and sysfile.c: a locked
\* inode that is free, a link count below 1 in unlink(), a free block that is freed, a
\* lock that iput() would have to wait for, a table without room.
NoPanic == ~panicked

\* The names of an inode, and the ".." of the directories that have a name.
Named(d, i) == { e \in Inum \X Name : d.ino[e[1]].dir[e[2]] = i }
Entries(d, i) ==
  Cardinality(Named(d, i))
  + Cardinality({ j \in Inum : d.ino[j].up = i /\ (j = Root \/ Named(d, j) # {}) })

\* What a commit leaves on the disk is a file system: the link count of an inode is the
\* number of entries for it, as fs.c says ("the number of links referring to it").
LinksCounted == \A i \in Inum : saved.ino[i].nlink = Entries(saved, i)

\* Each data block that is marked used on the committed disk belongs to exactly one
\* inode, and the others to none, so no block is lost or shared.
BlocksOwned ==
  /\ saved.used = UNION { saved.ino[i].addrs : i \in Inum }
  /\ \A i, j \in Inum : i # j => saved.ino[i].addrs \cap saved.ino[j].addrs = {}

\* What is on the disk after any commit, and so after a crash, is a file system.
DiskSound == LinksCounted /\ BlocksOwned

\* An inode without links stays allocated only while a process refers to it or until
\* ireclaim() gets to it after a crash.
OrphanHeld ==
  ops = {} => \A i \in Inum : disk.ino[i].type # "free" /\ disk.ino[i].nlink = 0
                                => mem[i].ref > 0 \/ boot <= i

\* The inode of an open file, and the current directory, are not freed.
OpenKept ==
  Running => \A p \in Proc : /\ disk.ino[cwd[p]].type = "dir"
                             /\ file[p] # NoInum => disk.ino[file[p]].type # "free"

\* A valid entry that nobody has locked agrees with the disk: every change was followed
\* by iupdate().
CopyFresh ==
  Running => \A i \in Inum : mem[i].valid /\ mem[i].lock = None
    => /\ mem[i].type = disk.ino[i].type
       /\ mem[i].nlink = disk.ino[i].nlink
       /\ mem[i].addrs = disk.ino[i].addrs

\* The references of a process to i: what it has still to put, its current directory
\* and open file, and the inodes of the call it is in.
Refs(p, i) ==
  LET in(places) == pc[p].at \in places
      ipHeld == \/ in({"got", "locked", "createold", "createnew", "unlinkip", "unlinkdec", "linkbad"})
                \/ Op(p) = "link" /\ pc[p].ip # NoInum
      dpHeld == in({"walk", "look", "parent", "dplocked", "unlinkip", "createnew", "drop", "linkdrop"})
  IN  Cardinality({ k \in DOMAIN pc[p].put : pc[p].put[k] = i })
      + (IF cwd[p] = i THEN 1 ELSE 0) + (IF file[p] = i THEN 1 ELSE 0)
      + (IF ipHeld /\ pc[p].ip = i THEN 1 ELSE 0) + (IF dpHeld /\ pc[p].dp = i THEN 1 ELSE 0)

\* ip->ref is the number of references that the processes hold: on every path through
\* the calls, the failing ones included, each iget() is matched by one iput().
RefsExact == Running => \A i \in Inum : mem[i].ref = MapThenSumSet(LAMBDA p : Refs(p, i), Proc)

\* The inode table (struct inode) agrees with the processes that use it and with the disk,
\* and no panic is reached.
InodeTableTrue == TypeOK /\ NoPanic /\ OpenKept /\ CopyFresh /\ RefsExact

=============================================================================
