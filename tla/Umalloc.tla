------------------------------ MODULE Umalloc ------------------------------
(***************************************************************************)
(* The storage allocator of user programs (user/umalloc.c).  Memory is      *)
(* counted in units of a Header; base lies below the heap and is not next   *)
(* to it.  Only headers of blocks are kept: the rest belongs to the program *)
(* or is stale.                                                             *)
(***************************************************************************)
EXTENDS Naturals, FiniteSets

CONSTANTS
  HDR,       \* sizeof(Header), in bytes
  NALLOC,    \* the least number of units that morecore() asks for
  HeapTop,   \* the address that sbrk() does not pass
  MaxBytes   \* the largest request

NULL == 0
Base == 1
HeapStart == 3
Addr == Base .. HeapTop - 1

VARIABLES
  arena,      \* the headers, freep and the break
  allocated   \* blocks handed out: address of the header and bytes asked for

umvars == <<arena, allocated>>

Heads == { b.at : b \in allocated }

UmInit ==
  /\ arena = [ptr |-> [a \in Addr |-> NULL], size |-> [a \in Addr |-> 0],
              freep |-> NULL, brk |-> HeapStart, own |-> {}]
  /\ allocated = {}

RECURSIVE FindPlace(_, _, _), Search(_, _, _, _), Reach(_, _, _)

\* The blocks of the free list.
Reach(m, p, seen) == IF p \in seen THEN seen ELSE Reach(m, m.ptr[p], seen \cup {p})
Listed(m) == IF m.freep = NULL THEN {} ELSE Reach(m, m.freep, {})
FreeList == Listed(arena)

\* The memory with the headers of its blocks only.
Headers(m, heads) ==
  [m EXCEPT !.ptr = [a \in Addr |-> IF a \in Listed(m) THEN @[a] ELSE NULL],
            !.size = [a \in Addr |-> IF a \in Listed(m) \cup heads THEN @[a] ELSE 0]]

\* The loop of free(): the block of the list after which bp belongs.
FindPlace(m, p, bp) ==
  IF \/ bp > p /\ bp < m.ptr[p]
     \/ p >= m.ptr[p] /\ (bp > p \/ bp < m.ptr[p])
  THEN p ELSE FindPlace(m, m.ptr[p], bp)

\* A free() that does not join the block with the one above it.
freeLower(m, bp) ==
  LET p == FindPlace(m, m.freep, bp)
      lower == p + m.size[p] = bp
  IN  [m EXCEPT !.freep = p,
         !.ptr = [@ EXCEPT ![bp] = m.ptr[p], ![p] = IF lower THEN m.ptr[p] ELSE bp],
         !.size = [@ EXCEPT ![p] = IF lower THEN @ + m.size[bp] ELSE @]]

\* free(): join to the upper neighbour, then to the lower one.
free(m, bp) ==
  LET p == FindPlace(m, m.freep, bp)
      up == m.ptr[p]
      upper == bp + m.size[bp] = up
      size == IF upper THEN m.size[bp] + m.size[up] ELSE m.size[bp]
      next == IF upper THEN m.ptr[up] ELSE up
      lower == p + m.size[p] = bp
  IN  [m EXCEPT !.freep = p,
         !.ptr = [@ EXCEPT ![bp] = next, ![p] = IF lower THEN next ELSE bp],
         !.size = [[@ EXCEPT ![bp] = size] EXCEPT ![p] = IF lower THEN @ + size ELSE @]]

\* morecore(): sbrk() extends the heap by a block that is freed, or fails.
morecore(m, nunits) ==
  LET nu == IF nunits < NALLOC THEN NALLOC ELSE nunits
  IN  IF m.brk + nu > HeapTop THEN [m EXCEPT !.freep = NULL]
      ELSE free([m EXCEPT !.size[m.brk] = nu, !.brk = @ + nu], m.brk)

\* Taking a block: the whole of it, or its tail.
Take(m, prevp, p, nunits) ==
  IF m.size[p] = nunits
  THEN [mem |-> [m EXCEPT !.ptr[prevp] = m.ptr[p], !.freep = prevp], at |-> p]
  ELSE LET q == p + m.size[p] - nunits
       IN  [mem |-> [m EXCEPT !.size = [@ EXCEPT ![p] = @ - nunits, ![q] = nunits],
                              !.freep = prevp], at |-> q]

\* The loop of malloc(), from p on, with prevp before it.
Search(m, prevp, p, nunits) ==
  IF m.size[p] >= nunits THEN Take(m, prevp, p, nunits)
  ELSE IF p # m.freep THEN Search(m, p, m.ptr[p], nunits)
  ELSE LET n == morecore(m, nunits)
       IN  IF n.freep = NULL THEN [mem |-> m, at |-> NULL]
           ELSE Search(n, n.freep, n.ptr[n.freep], nunits)

Units(nbytes) == (nbytes + HDR - 1) \div HDR + 1

Malloc(nbytes) ==
  LET m == IF arena.freep # NULL THEN arena
           ELSE [arena EXCEPT !.ptr[Base] = Base, !.size[Base] = 0, !.freep = Base]
      r == Search(m, m.freep, m.ptr[m.freep], Units(nbytes))
  IN  /\ arena' = Headers(r.mem, Heads \cup {r.at})
      /\ allocated' = IF r.at = NULL THEN allocated
                      ELSE allocated \cup {[at |-> r.at, bytes |-> nbytes]}

Free(b) ==
  /\ arena' = Headers(free(arena, b.at), Heads \ {b.at})
  /\ allocated' = allocated \ {b}

\* The program moves the break itself.
OtherSbrk ==
  /\ arena.brk < HeapTop
  /\ arena' = [arena EXCEPT !.brk = @ + 1, !.own = @ \cup {arena.brk}]
  /\ UNCHANGED allocated

UmNext ==
  \/ \E n \in 0 .. MaxBytes : Malloc(n)
  \/ \E b \in allocated : Free(b)
  \/ OtherSbrk

UmSpec == UmInit /\ [][UmNext]_umvars

-----------------------------------------------------------------------------
(* Properties. *)


\* The units of a block.
Extent(a) == a .. a + arena.size[a] - 1

\* The free list is a ring through base in the order of addresses, with one step
\* down, and no two of its blocks are next to each other: free() joins them all.
FreeListSound == FreeList # {} =>
  /\ Base \in FreeList
  /\ \A a \in FreeList : /\ arena.ptr[a] \in FreeList
                         /\ a + arena.size[a] \notin FreeList \ {a}
  /\ Cardinality({ a \in FreeList : arena.ptr[a] <= a }) = 1

\* Free blocks, allocated blocks and what the program took itself cover the heap
\* without overlap, and every allocated block has room for what was asked for.
HeapTiled ==
  /\ \A a, b \in (FreeList \ {Base}) \cup Heads : a # b => Extent(a) \cap Extent(b) = {}
  /\ UNION { Extent(a) : a \in (FreeList \ {Base}) \cup Heads } = (HeapStart .. arena.brk - 1) \ arena.own
  /\ \A b \in allocated : (arena.size[b.at] - 1) * HDR >= b.bytes

\* malloc() and free() keep the heap in one piece.
HeapSound == FreeListSound /\ HeapTiled
=============================================================================
