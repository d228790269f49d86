-------------------------------- MODULE Mkfs --------------------------------
(***************************************************************************)
(* mkfs/mkfs.c: builds the image of a file system, with a root directory    *)
(* and one file for each argument.  Byte orders, the zeroing of the image   *)
(* and the inode blocks are left out: an inode is read and written whole.   *)
(* A directory entry has the size of one unit of data.                      *)
(***************************************************************************)
EXTENDS Naturals, Sequences, SequencesExt

CONSTANTS
  BSIZE, NDIRECT, NINDIRECT,
  FSSIZE,       \* blocks of the image
  NMETA,        \* boot block, superblock, log, inodes and bitmap
  Inputs        \* the arguments: sequences of [name, data]

ROOTINO == 1
MAXFILE == NDIRECT + NINDIRECT

VARIABLES
  files,       \* argv
  arg,         \* the argument being copied
  left,        \* what read() has still to return of it
  disk,        \* data blocks: sequences of BSIZE units; 0 is an empty one
  inode,       \* inodes that were written
  freeinode, freeblock,
  bitmap,      \* the blocks marked as used
  mkpc         \* "start", "open", "copy", "exit" or "abort"

mkvars == <<files, arg, left, disk, inode, freeinode, freeblock, bitmap, mkpc>>

Zero == [i \in 1 .. BSIZE |-> 0]

MkInit ==
  /\ files \in Inputs
  /\ arg = 0 /\ left = <<>>
  /\ disk = [b \in 0 .. FSSIZE - 1 |-> Zero]
  /\ inode = <<>> /\ freeinode = 1 /\ freeblock = NMETA /\ bitmap = {}
  /\ mkpc = "start"

-----------------------------------------------------------------------------
(* Allocation, as functions of the image and of whether the program has died. *)

Image == [disk |-> disk, inode |-> inode, free |-> freeblock, died |-> FALSE]

NewInode(type) == [type |-> type, nlink |-> 1, size |-> 0, addrs |-> [i \in 0 .. NDIRECT |-> 0]]

\* The blocks that an append needs and a file does not have, with the numbers that
\* freeblock++ gives them.
DirectBlock(img, inum, i) ==
  IF img.inode[inum].addrs[i] # 0 THEN img
  ELSE [img EXCEPT !.inode[inum].addrs[i] = img.free, !.free = @ + 1]

\* An entry of the indirect block that is not looked at first.
IndirectNew(img, ind, k) == [img EXCEPT !.disk[ind][k] = img.free, !.free = @ + 1]

\* A block of numbers holds NINDIRECT of them.
Indirect(img, ind, k) ==
  IF ind >= FSSIZE \/ img.disk[ind][k] # 0 THEN img
  ELSE [img EXCEPT !.disk[ind][k] = img.free, !.free = @ + 1]

WithBlock(img, inum, fbn) ==
  IF fbn < NDIRECT THEN DirectBlock(img, inum, fbn)
  ELSE LET i == DirectBlock(img, inum, NDIRECT)
       IN  Indirect(i, i.inode[inum].addrs[NDIRECT], fbn - NDIRECT + 1)

BlockOf(img, inum, fbn) ==
  IF fbn < NDIRECT THEN img.inode[inum].addrs[fbn]
  ELSE img.disk[img.inode[inum].addrs[NDIRECT]][fbn - NDIRECT + 1]

RECURSIVE iappend(_, _, _)

\* Appends data to a file, block by block.  It dies when the file is too large, and in
\* rsect() when a block is beyond the end of the image.
iappend(img, inum, data) ==
  IF data = <<>> THEN img
  ELSE IF img.inode[inum].size \div BSIZE >= MAXFILE THEN [img EXCEPT !.died = TRUE]
  ELSE IF WithBlock(img, inum, img.inode[inum].size \div BSIZE).free > FSSIZE
  THEN [img EXCEPT !.died = TRUE]
  ELSE LET off == img.inode[inum].size
           fbn == off \div BSIZE
           got == WithBlock(img, inum, fbn)
           x   == BlockOf(got, inum, fbn)
           at  == off % BSIZE
           n1  == IF Len(data) < BSIZE - at THEN Len(data) ELSE BSIZE - at
           put == [got EXCEPT !.disk[x] = [i \in 1 .. BSIZE |->
                     IF i - at \in 1 .. n1 THEN data[i - at] ELSE @[i]],
                              !.inode[inum].size = off + n1]
       IN  iappend(put, inum, SubSeq(data, n1 + 1, Len(data)))

Entry(name, inum) == [name |-> name, inum |-> inum]

\* The program goes on to a place with the image, or dies.
Becomes(img, next) ==
  IF img.died
  THEN mkpc' = "abort" /\ UNCHANGED <<disk, inode, freeblock>>
  ELSE /\ mkpc' = next
       /\ disk' = img.disk /\ inode' = img.inode /\ freeblock' = img.free

-----------------------------------------------------------------------------
(* main(). *)

\* The root directory and its entries "." and "..".
MakeRoot ==
  /\ mkpc = "start"
  /\ LET new == [Image EXCEPT !.inode = Append(@, NewInode("dir"))]
         dot == iappend(new, ROOTINO, <<Entry(".", ROOTINO)>>)
     IN  Becomes(iappend(dot, ROOTINO, <<Entry("..", ROOTINO)>>), "open")
  /\ freeinode' = freeinode + 1 /\ arg' = 1
  /\ UNCHANGED <<files, left, bitmap>>

\* Opens the next file, takes an inode and enters its name into the root; stops if it
\* cannot be opened.
OpenFile ==
  LET inum == freeinode
      new == [Image EXCEPT !.inode = Append(@, NewInode("file"))]
  IN
  /\ mkpc = "open" /\ arg <= Len(files)
  /\ \/ /\ mkpc' = "abort"
        /\ UNCHANGED <<disk, inode, freeinode, freeblock, left>>
     \/ /\ Becomes(iappend(new, ROOTINO, <<Entry(files[arg].name, inum)>>), "copy")
        /\ freeinode' = inum + 1
        /\ left' = files[arg].data
  /\ UNCHANGED <<files, arg, bitmap>>

\* read() returns up to a block, and iappend() adds it to the file just made.
CopySome == \E cc \in 1 .. BSIZE :
  LET inum == freeinode - 1 IN
  /\ mkpc = "copy" /\ cc <= Len(left)
  /\ Becomes(iappend(Image, inum, SubSeq(left, 1, cc)), "copy")
  /\ left' = SubSeq(left, cc + 1, Len(left))
  /\ UNCHANGED <<files, arg, freeinode, bitmap>>

\* read() returns 0, or fails: the rest of the file is not copied.
CopyEnd ==
  /\ mkpc = "copy"
  /\ left' = <<>> /\ arg' = arg + 1 /\ mkpc' = "open"
  /\ UNCHANGED <<files, disk, inode, freeinode, freeblock, bitmap>>

\* balloc(): the bits of the blocks used so far.
balloc(used) == 0 .. used - 1

\* The size of the root is rounded up to whole blocks, and the bitmap is written.
Finish ==
  /\ mkpc = "open" /\ arg > Len(files)
  /\ inode' = [inode EXCEPT ![ROOTINO].size = (@ \div BSIZE + 1) * BSIZE]
  /\ bitmap' = balloc(freeblock)
  /\ mkpc' = "exit"
  /\ UNCHANGED <<files, arg, left, disk, freeinode, freeblock>>

MkNext == MakeRoot \/ OpenFile \/ CopySome \/ CopyEnd \/ Finish

MkSpec == MkInit /\ [][MkNext]_mkvars

-----------------------------------------------------------------------------
(* Properties. *)

\* The places that hold block numbers: inode, and index in addrs or in the indirect block.
Slots == { <<n, i>> : n \in DOMAIN inode, i \in 0 .. MAXFILE }

BlockAt(s) ==
  LET n == s[1]  i == s[2] IN
  IF i <= NDIRECT THEN inode[n].addrs[i]
  ELSE IF inode[n].addrs[NDIRECT] = 0 THEN 0
  ELSE disk[inode[n].addrs[NDIRECT]][i - NDIRECT]

Content(n) ==
  [k \in 1 .. inode[n].size |-> disk[BlockOf(Image, n, (k - 1) \div BSIZE)][((k - 1) % BSIZE) + 1]]

\* freeblock++ in iappend(), at three places, gives every block of the image to one
\* slot only, and the bitmap that balloc() writes marks them and the metadata.
BlocksAccounted ==
  /\ \A s, t \in Slots : BlockAt(s) # 0 /\ BlockAt(s) = BlockAt(t) => s = t
  /\ { BlockAt(s) : s \in Slots } \ {0} = NMETA .. freeblock - 1
  /\ mkpc = "exit" => bitmap = 0 .. NMETA - 1 \cup ({ BlockAt(s) : s \in Slots } \ {0})

\* Read back through the block numbers, a file holds what read() returned for it,
\* however short the reads were, and the root holds ".", ".." and each file once.
ContentsKept ==
  /\ mkpc = "copy" => Content(freeinode - 1) \o left = files[arg].data
  /\ \A i \in 1 .. Len(files) : i < arg => IsPrefix(Content(i + 1), files[i].data)
  /\ mkpc = "open" =>
       Content(ROOTINO) = <<Entry(".", ROOTINO), Entry("..", ROOTINO)>>
                          \o [i \in 1 .. arg - 1 |-> Entry(files[i].name, i + 1)]

\* The image that iappend() and balloc() build is a file system with the given files.
ImageSound == BlocksAccounted /\ ContentsKept
=============================================================================
