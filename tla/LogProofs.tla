------------------------------ MODULE LogProofs ------------------------------
(***************************************************************************)
(* Proofs about Log for every number of processes and blocks and every     *)
(* LOGBLOCKS, MAXOPBLOCKS and NBUF allowed by LogAssumption.               *)
(***************************************************************************)
EXTENDS LogDataProofs, FiniteSetTheorems

-----------------------------------------------------------------------------
(* Operations in progress. *)

\* The processes between begin_op() and end_op() can be counted.
LEMMA InOpFinite == IsFiniteSet(InOp) /\ Cardinality(InOp) \in Nat
<1>1. InOp \in SUBSET Proc
  BY DEF InOp
<1> QED BY <1>1, LogAssumption, FS_Subset, FS_CardinalityType

\* An operation in progress is counted.
LEMMA OpOutstanding ==
  ASSUME OpInv, NEW p \in Proc, pc[p] = "op"
  PROVE  outstanding # 0
<1>1. p \in InOp /\ outstanding = Cardinality(InOp)
  BY DEF OpInv, InOp
<1> QED BY <1>1, InOpFinite, FS_EmptySet

\* The per-process part of OpInv.
WroteInv(p) ==
  /\ IsFiniteSet(wrote[p])
  /\ Cardinality(wrote[p]) <= OpBlocks
  /\ \A b \in wrote[p] : \E i \in 1 .. Len(lh) : lh[i] = b
  /\ p \notin InOp => wrote[p] = {}

\* A process outside begin_op()/end_op() has written nothing.
LEMMA NothingWritten ==
  ASSUME NEW p, wrote[p] = {}
  PROVE  WroteInv(p)
<1>1. IsFiniteSet({}) /\ Cardinality({}) = 0
  BY FS_EmptySet
<1> QED BY <1>1, LogAssumption DEF WroteInv

\* begin_op() returns in the process that now counts as outstanding.
LEMMA BeginOpInv ==
  ASSUME TypeOK, OpInv, NEW p \in Proc, BeginOp(p)
  PROVE  OpInv'
<1>pc. pc \in [Proc -> PcSet] /\ outstanding \in Nat
  BY DEF TypeOK, PcSet
<1>u. UNCHANGED <<lh, wrote, phase, committing>>
  BY DEF BeginOp
<1>w. ASSUME NEW q \in Proc PROVE WroteInv(q)
  BY DEF OpInv, WroteInv
<1>n. p \notin InOp
  BY DEF BeginOp, InOp
<1>1. CASE committing \/ ~LogSpaceFor(outstanding + 1)
  <2>1. pc' = [pc EXCEPT ![p] = "sleeping"] /\ outstanding' = outstanding
    BY <1>1, Zenon DEF BeginOp
  <2>2. InOp' = InOp
    BY <2>1, <1>pc, <1>n DEF InOp
  <2> QED BY <2>1, <2>2, <1>u, Zenon DEF OpInv
<1>2. CASE ~(committing \/ ~LogSpaceFor(outstanding + 1))
  <2>1. pc' = [pc EXCEPT ![p] = "op"] /\ outstanding' = outstanding + 1
    BY <1>2, Zenon DEF BeginOp
  <2>2. InOp' = InOp \cup {p}
    BY <2>1, <1>pc DEF InOp
  <2>3. Cardinality(InOp') = Cardinality(InOp) + 1
    BY <2>2, <1>n, InOpFinite, FS_AddElement
  <2>4. phase = "idle"
    <3>1. phase \notin BootPhases /\ phase \notin CommitPhases
      BY <1>2, Zenon DEF BeginOp, OpInv
    <3>2. phase \in {"idle"} \cup CommitPhases \cup BootPhases
      BY DEF TypeOK
    <3> QED BY <3>1, <3>2
  <2>5. outstanding' = Cardinality(InOp')
    BY <2>1, <2>3 DEF OpInv
  <2>6. (committing <=> phase \in CommitPhases)'
    BY <1>u, Zenon DEF OpInv
  <2>7. InOp' # {} /\ phase' = "idle"
    BY <2>2, <2>4, <1>u
  <2>8. ASSUME NEW q \in Proc PROVE WroteInv(q)'
    BY <1>w, <1>u, <2>2 DEF WroteInv
  <2> QED BY <2>5, <2>6, <2>7, <2>8, Zenon DEF OpInv, WroteInv
<1> QED BY <1>1, <1>2

\* The last end_op() finds no other operation in progress.
LEMMA EndOpInv ==
  ASSUME TypeOK, OpInv, NEW p \in Proc, EndOp(p)
  PROVE  OpInv'
<1>pc. pc \in [Proc -> PcSet] /\ wrote \in [Proc -> SUBSET Block]
  BY DEF TypeOK, PcSet
<1>in. p \in InOp
  BY DEF EndOp, InOp
<1>idle. phase = "idle"
  BY OpMeansIdle DEF EndOp
<1>nc. ~committing
  <2>1. phase \notin CommitPhases
    BY <1>idle DEF CommitPhases
  <2> QED BY <2>1, Zenon DEF OpInv
<1>u. lh' = lh /\ outstanding' = outstanding - 1 /\ wrote' = [wrote EXCEPT ![p] = {}]
  BY DEF EndOp
<1>1. InOp' = InOp \ {p}
  <2>1. CASE outstanding = 1
    <3>1. pc' = [pc EXCEPT ![p] = "commit"]
      BY <2>1, <1>nc, Zenon DEF EndOp
    <3> QED BY <3>1, <1>pc DEF InOp
  <2>2. CASE outstanding # 1
    <3>1. pc' = WakeLog([pc EXCEPT ![p] = "user"])
      BY <2>2, <1>nc, Zenon DEF EndOp
    <3> QED BY <3>1, <1>pc DEF InOp, WakeLog
  <2> QED BY <2>1, <2>2
<1>2. Cardinality(InOp') = Cardinality(InOp) - 1
  BY <1>1, <1>in, InOpFinite, FS_RemoveElement
<1>3. outstanding' = Cardinality(InOp')
  BY <1>u, <1>2 DEF OpInv
<1>4. ASSUME NEW q \in Proc PROVE WroteInv(q)'
  <2>1. CASE q = p
    <3>1. wrote'[q] = {}
      BY <2>1, <1>u, <1>pc
    <3>2. IsFiniteSet({}) /\ Cardinality({}) = 0
      BY FS_EmptySet
    <3> QED BY <3>1, <3>2, LogAssumption DEF WroteInv
  <2>2. CASE q # p
    <3>1. WroteInv(q) /\ wrote'[q] = wrote[q]
      BY <2>2, <1>u, <1>pc DEF OpInv, WroteInv
    <3> QED BY <3>1, <2>2, <1>1, <1>u DEF WroteInv
  <2> QED BY <2>1, <2>2
<1>5. CASE outstanding = 1
  <2>1. InOp' = {}
    <3>1. Cardinality(InOp') = 0 /\ IsFiniteSet(InOp')
      BY <1>2, <1>1, <1>5, InOpFinite, FS_RemoveElement DEF OpInv
    <3> QED BY <3>1, FS_EmptySet
  <2>2. committing' = TRUE /\ phase' \in {"write_log", "end"}
    BY <1>5, <1>nc, Zenon DEF EndOp
  <2>3. phase' # "idle" /\ phase' \in CommitPhases
    BY <2>2 DEF CommitPhases
  <2> QED BY <2>1, <2>2, <2>3, <1>3, <1>4, Zenon DEF OpInv, WroteInv
<1>6. CASE outstanding # 1
  <2>1. UNCHANGED <<committing, phase>>
    BY <1>6, <1>nc, Zenon DEF EndOp
  <2>2. InOp' # {}
    <3>1. Cardinality(InOp) # 1
      BY <1>6 DEF OpInv
    <3>2. Cardinality(InOp') # 0
      BY <3>1, <1>2, InOpFinite
    <3> QED BY <3>2, FS_EmptySet
  <2>3. phase' = "idle" /\ (committing' <=> phase' \in CommitPhases)
    BY <2>1, <1>idle, Zenon DEF OpInv
  <2> QED BY <2>2, <2>3, <1>3, <1>4, Zenon DEF OpInv, WroteInv
<1> QED BY <1>5, <1>6

\* log_write() puts the block in the header before its operation can end.
LEMMA LogWriteOpInv ==
  ASSUME TypeOK, OpInv, NEW p \in Proc, NEW b \in Block, NEW v \in Value, LogWrite(p, b, v)
  PROVE  OpInv'
<1>t. lh \in Seq(Block) /\ Len(lh) \in Nat /\ wrote \in [Proc -> SUBSET Block]
  BY DEF TypeOK
<1>u. UNCHANGED <<outstanding, committing, phase, pc>>
  BY DEF LogWrite
<1>1. InOp' = InOp /\ p \in InOp
  BY <1>u DEF InOp, LogWrite
<1>2. phase = "idle"
  BY OpMeansIdle DEF LogWrite
<1>3. lh' = lh \/ lh' = Append(lh, b)
  BY Zenon DEF LogWrite
<1>4. \A i \in 1 .. Len(lh) : i \in 1 .. Len(lh') /\ lh'[i] = lh[i]
  BY <1>3, <1>t
<1>5. wrote' = wrote \/ (wrote' = [wrote EXCEPT ![p] = @ \cup {b}] /\ b \in Range(lh'))
  <2>1. wrote' = wrote \/ b \in Range(lh) \/ lh' = Append(lh, b)
    BY Zenon DEF LogWrite
  <2>2. CASE b \in Range(lh)
    <3>1. lh' = lh
      BY <2>2, Zenon DEF LogWrite
    <3>2. wrote' = wrote \/ wrote' = [wrote EXCEPT ![p] = @ \cup {b}]
      BY Zenon DEF LogWrite
    <3> QED BY <2>2, <3>1, <3>2
  <2>3. CASE lh' = Append(lh, b)
    <3>1. wrote' = wrote \/ wrote' = [wrote EXCEPT ![p] = @ \cup {b}]
      BY Zenon DEF LogWrite
    <3>2. Append(lh, b) \in Seq(Block) /\ Len(lh) + 1 \in 1 .. Len(Append(lh, b))
          /\ Append(lh, b)[Len(lh) + 1] = b
      BY <1>t
    <3>3. b \in Range(Append(lh, b))
      BY <3>2 DEF Range
    <3> QED BY <2>3, <3>1, <3>3
  <2> QED BY <2>1, <2>2, <2>3, Zenon
<1>6. ASSUME NEW q \in Proc PROVE WroteInv(q)'
  <2>1. WroteInv(q)
    BY DEF OpInv, WroteInv
  <2>2. CASE wrote'[q] = wrote[q]
    BY <2>1, <2>2, <1>1, <1>4 DEF WroteInv
  <2>3. CASE wrote'[q] # wrote[q]
    <3>1. q = p /\ wrote'[p] = wrote[p] \cup {b} /\ b \in Range(lh')
      BY <2>3, <1>5, <1>t
    <3>2. Cardinality(wrote[p] \cup {b}) <= OpBlocks
      BY DEF LogWrite
    <3>3. IsFiniteSet(wrote[p] \cup {b})
      BY <2>1, <3>1, FS_AddElement DEF WroteInv
    <3>4. \E i \in 1 .. Len(lh') : lh'[i] = b
      <4>1. lh' \in Seq(Block)
        BY <1>3, <1>t
      <4> QED BY <4>1, <3>1, InRange
    <3>5. \A x \in wrote[p] : \E i \in 1 .. Len(lh') : lh'[i] = x
      BY <2>1, <3>1, <1>4 DEF WroteInv
    <3> QED BY <3>1, <3>2, <3>3, <3>4, <3>5, <1>1 DEF WroteInv
  <2> QED BY <2>2, <2>3
<1> QED BY <1>1, <1>2, <1>6, <1>u, Zenon DEF OpInv, WroteInv

\* Taking or finishing an operation keeps log.outstanding, log.committing and
\* the header in step with the processes between begin_op() and end_op().
LEMMA OpStep ==
  ASSUME TypeOK, OpInv, HeadInv, Next
  PROVE  OpInv'
<1>t. pc \in [Proc -> PcSet] /\ phase \in PhaseSet
  BY DEF TypeOK, PcSet, PhaseSet
<1>w. ASSUME NEW q \in Proc PROVE WroteInv(q)
  BY DEF OpInv, WroteInv
<1>1. ASSUME NEW b \in Block, Bread(b) \/ Recycle(b) PROVE OpInv'
  <2>1. UNCHANGED <<lh, outstanding, committing, phase, pc, wrote>>
    BY <1>1 DEF Bread, Recycle
  <2> QED BY <2>1, Zenon DEF OpInv, InOp
<1>2. ASSUME NEW p \in Proc, BeginOp(p) \/ EndOp(p) PROVE OpInv'
  BY <1>2, BeginOpInv, EndOpInv
<1>3. ASSUME NEW p \in Proc, NEW b \in Block, NEW v \in Value, LogWrite(p, b, v)
      PROVE OpInv'
  BY <1>3, LogWriteOpInv
<1>4. ASSUME Commit \/ ReadHead \/ RecoverTrans \/ RecoverClear PROVE OpInv'
  <2>1. phase # "idle"
    BY <1>4, Zenon DEF Commit, WriteLog, WriteHead, InstallTrans, ClearHead, EndCommit,
                ReadHead, RecoverTrans, RecoverClear
  <2>2. InOp = {} /\ \A q \in Proc : wrote[q] = {}
    BY <2>1, Zenon DEF OpInv
  <2>3. UNCHANGED <<outstanding, wrote>>
    BY <1>4, Zenon DEF Commit, WriteLog, WriteHead, InstallTrans, ClearHead, EndCommit,
                ReadHead, RecoverTrans, RecoverClear
  <2>4. InOp' = {}
    <3>1. CASE EndCommit
      BY <3>1, <2>2, <1>t DEF EndCommit, WakeLog, InOp
    <3>2. CASE ~EndCommit
      <4>1. pc' = pc
        BY <1>4, <3>2, Zenon DEF Commit, WriteLog, WriteHead, InstallTrans, ClearHead,
                ReadHead, RecoverTrans, RecoverClear
      <4> QED BY <4>1, <2>2 DEF InOp
    <3> QED BY <3>1, <3>2
  <2>5. ASSUME NEW q \in Proc PROVE WroteInv(q)'
    <3>1. wrote'[q] = {}
      BY <2>2, <2>3
    <3>2. IsFiniteSet({}) /\ Cardinality({}) = 0
      BY FS_EmptySet
    <3> QED BY <3>1, <3>2, LogAssumption DEF WroteInv
  <2>6. phase' = "idle" => lh' = << >>
    BY <1>4, <2>1 DEF Commit, WriteLog, WriteHead, InstallTrans, ClearHead, EndCommit,
                ReadHead, RecoverTrans, RecoverClear, InstallBlock, Unpin, After, HeadInv
  <2>7. committing' <=> phase' \in CommitPhases
    <3>1. CASE EndCommit
      <4>1. phase' = "idle" /\ committing' = FALSE
        BY <3>1, Zenon DEF EndCommit
      <4>2. phase' \notin CommitPhases
        BY <4>1 DEF CommitPhases
      <4> QED BY <4>1, <4>2, Zenon
    <3>2. CASE ~EndCommit
      <4>1. committing' = committing
        BY <1>4, <3>2, Zenon DEF Commit, WriteLog, WriteHead, InstallTrans, ClearHead,
                ReadHead, RecoverTrans, RecoverClear
      <4>2. phase \in CommitPhases <=> phase' \in CommitPhases
        BY <1>4, <3>2 DEF Commit, WriteLog, WriteHead, InstallTrans, ClearHead, CommitPhases,
                ReadHead, RecoverTrans, RecoverClear, InstallBlock, Unpin, After
      <4> QED BY <4>1, <4>2, Zenon DEF OpInv
    <3> QED BY <3>1, <3>2
  <2>8. outstanding' = Cardinality(InOp')
    BY <2>2, <2>3, <2>4, Zenon DEF OpInv
  <2> QED BY <2>4, <2>5, <2>6, <2>7, <2>8, Zenon DEF OpInv, WroteInv
<1>5. CASE Crash
  <2>1. lh' = << >> /\ outstanding' = 0 /\ phase' = "read_head"
        /\ pc' = [p \in Proc |-> "user"] /\ wrote' = [p \in Proc |-> {}]
    BY <1>5 DEF Crash
  <2>2. committing' = FALSE
    BY <1>5, Zenon DEF Crash
  <2>3. InOp' = {}
    BY <2>1 DEF InOp
  <2>4. IsFiniteSet({}) /\ Cardinality({}) = 0
    BY FS_EmptySet
  <2>5. ASSUME NEW q \in Proc PROVE WroteInv(q)'
    <3>1. wrote'[q] = {}
      BY <2>1
    <3> QED BY <3>1, <2>4, LogAssumption DEF WroteInv
  <2>6. phase' \notin CommitPhases /\ phase' # "idle"
    BY <2>1 DEF CommitPhases
  <2>7. outstanding' = Cardinality(InOp')
    BY <2>1, <2>3, <2>4
  <2> QED BY <2>2, <2>3, <2>5, <2>6, <2>7, Zenon DEF OpInv, WroteInv
<1>6. CASE BgetPanic
  <2>1. UNCHANGED <<lh, outstanding, committing, phase, pc, wrote>>
    BY <1>6 DEF BgetPanic, memory
  <2> QED BY <2>1, Zenon DEF OpInv, InOp
<1> QED
  BY BufferSteps, <1>1, <1>2, <1>3, <1>4, <1>5, <1>6 DEF Next, Recover

-----------------------------------------------------------------------------
(* Reservations: the space begin_op() sets aside. *)

\* An operation in progress and a token of MAXOPBLOCKS make a finite set.
LEMMA TokensFinite ==
  /\ IsFiniteSet(InOp \X (1 .. MAXOPBLOCKS))
  /\ Cardinality(InOp \X (1 .. MAXOPBLOCKS)) = Cardinality(InOp) * MAXOPBLOCKS
  /\ Tokens \in SUBSET (InOp \X (1 .. MAXOPBLOCKS))
  /\ IsFiniteSet(Tokens) /\ Cardinality(Tokens) \in Nat
<1>1. IsFiniteSet(1 .. MAXOPBLOCKS) /\ Cardinality(1 .. MAXOPBLOCKS) = MAXOPBLOCKS
  BY FS_Interval, LogAssumption
<1>2. /\ IsFiniteSet(InOp \X (1 .. MAXOPBLOCKS))
      /\ Cardinality(InOp \X (1 .. MAXOPBLOCKS)) = Cardinality(InOp) * MAXOPBLOCKS
  BY <1>1, InOpFinite, FS_Product, Zenon
<1>3. Tokens \in SUBSET (InOp \X (1 .. MAXOPBLOCKS))
  BY DEF Tokens
<1>4. IsFiniteSet(Tokens)
  BY <1>2, <1>3, FS_Subset
<1> QED BY <1>2, <1>3, <1>4, FS_CardinalityType

\* An operation admitted by begin_op() finds MAXOPBLOCKS free entries for
\* itself beyond the reservations of the others.
LEMMA BeginOpSpace ==
  ASSUME TypeOK, OpInv, OpInv', SpaceInv, NEW p \in Proc, BeginOp(p)
  PROVE  SpaceInv'
<1>t. lh \in Seq(Block) /\ Len(lh) \in Nat /\ outstanding \in Nat
  BY DEF TypeOK
<1>u. UNCHANGED <<lh, phase, wrote>> /\ phase \notin BootPhases
  BY DEF BeginOp
<1>1. OpBlocks < MAXOPBLOCKS => Len(lh') < LOGBLOCKS
  BY <1>u DEF SpaceInv
<1>2. CASE committing \/ ~LogSpaceFor(outstanding + 1)
  <2>1. pc' = [pc EXCEPT ![p] = "sleeping"] /\ pc[p] # "op"
    BY <1>2 DEF BeginOp
  <2>2. InOp' = InOp
    BY <2>1 DEF InOp, TypeOK
  <2>3. Tokens' = Tokens
    BY <2>2, <1>u DEF Tokens
  <2> QED BY <2>3, <1>1, <1>u DEF SpaceInv
<1>3. CASE ~(committing \/ ~LogSpaceFor(outstanding + 1))
  <2>1. LogSpaceFor(outstanding + 1) /\ outstanding' = outstanding + 1
    BY <1>3, Zenon DEF BeginOp
  <2>2. Cardinality(InOp)' = outstanding + 1
    BY <2>1 DEF OpInv
  <2>f. IsFiniteSet(InOp')
    <3>1. InOp' \in SUBSET Proc
      BY DEF InOp
    <3> QED BY <3>1, LogAssumption, FS_Subset
  <2>p. /\ IsFiniteSet(InOp' \X (1 .. MAXOPBLOCKS))
        /\ Cardinality(InOp' \X (1 .. MAXOPBLOCKS)) = Cardinality(InOp') * MAXOPBLOCKS
        /\ Tokens' \in SUBSET (InOp' \X (1 .. MAXOPBLOCKS))
    <3>1. IsFiniteSet(1 .. MAXOPBLOCKS) /\ Cardinality(1 .. MAXOPBLOCKS) = MAXOPBLOCKS
      BY FS_Interval, LogAssumption
    <3> QED BY <3>1, <2>f, FS_Product, Zenon DEF Tokens
  <2>3. IsFiniteSet(Tokens') /\ Cardinality(Tokens') <= (outstanding + 1) * MAXOPBLOCKS
    BY <2>p, <2>2, FS_Subset
  <2>4. Cardinality(Tokens') \in Nat /\ (outstanding + 1) * MAXOPBLOCKS \in Nat
    BY <2>3, FS_CardinalityType, <1>t, LogAssumption
  <2>5. Len(lh) + Cardinality(Tokens') <= LOGBLOCKS
    BY <2>1, <2>3, <2>4, <1>t, LogAssumption DEF LogSpaceFor
  <2> QED BY <2>5, <1>1, <1>u DEF SpaceInv
<1> QED BY <1>2, <1>3

\* Steps that leave the header alone and reserve nothing new keep the space.
LEMMA NoNewTokens ==
  ASSUME TypeOK, SpaceInv, phase \notin BootPhases, Len(lh') <= Len(lh), lh' \in Seq(Block),
         Tokens' \subseteq Tokens
  PROVE  SpaceInv'
<1>1. Len(lh) \in Nat /\ Len(lh') \in Nat
  BY DEF TypeOK
<1>2. Cardinality(Tokens') <= Cardinality(Tokens)
  BY TokensFinite, FS_Subset
<1>3. Cardinality(Tokens') \in Nat /\ Cardinality(Tokens) \in Nat
  BY TokensFinite, FS_Subset, FS_CardinalityType
<1> QED BY <1>1, <1>2, <1>3, LogAssumption DEF SpaceInv

\* A block appended to the header uses up exactly one token of its operation,
\* and an operation that stays below MAXOPBLOCKS keeps one.
LEMMA LogWriteSpace ==
  ASSUME TypeOK, OpInv, OpInv', SpaceInv,
         NEW p \in Proc, NEW b \in Block, NEW v \in Value, LogWrite(p, b, v)
  PROVE  SpaceInv'
<1>t. lh \in Seq(Block) /\ Len(lh) \in Nat /\ wrote \in [Proc -> SUBSET Block]
  BY DEF TypeOK
<1>u. pc' = pc /\ phase' = phase /\ pc[p] = "op"
  BY DEF LogWrite
<1>i. InOp' = InOp /\ p \in InOp
  BY <1>u DEF InOp
<1>b. phase = "idle" /\ phase \notin BootPhases
  BY <1>u, OpMeansIdle DEF BootPhases
<1>w. wrote' = wrote \/ wrote' = [wrote EXCEPT ![p] = wrote[p] \cup {b}]
  BY Zenon DEF LogWrite
<1>f. \A q \in Proc : IsFiniteSet(wrote[q]) /\ IsFiniteSet(wrote'[q])
  BY DEF OpInv
<1>c. \A q \in Proc : Cardinality(wrote[q]) \in Nat /\ Cardinality(wrote'[q]) \in Nat
  BY <1>f, FS_CardinalityType
<1>m. ASSUME NEW q \in Proc PROVE Cardinality(wrote[q]) <= Cardinality(wrote'[q])
  <2>1. wrote[q] \in SUBSET wrote'[q]
    BY <1>w, <1>t
  <2> QED BY <2>1, <1>f, FS_Subset
<1>s. Tokens' \subseteq Tokens
  <2>1. ASSUME NEW t \in Tokens' PROVE t \in Tokens
    <3>1. /\ t \in InOp \X (1 .. MAXOPBLOCKS) /\ t[1] \in Proc /\ t[2] \in Nat
          /\ t[2] > Cardinality(wrote'[t[1]])
      BY <2>1, <1>i, LogAssumption DEF Tokens, InOp
    <3>2. t[2] > Cardinality(wrote[t[1]])
      BY <3>1, <1>m, <1>c
    <3> QED BY <3>1, <3>2 DEF Tokens
  <2> QED BY <2>1
<1>1. CASE lh' = lh
  BY <1>1, <1>s, <1>t, <1>b, NoNewTokens
<1>2. CASE lh' # lh
  <2>1. b \notin Range(lh) /\ lh' = Append(lh, b)
    BY <1>2, Zenon DEF LogWrite
  <2>2. wrote' = [wrote EXCEPT ![p] = wrote[p] \cup {b}]
    BY <1>2, Zenon DEF LogWrite
  <2>3. b \notin wrote[p]
    <3>1. ~\E i \in 1 .. Len(lh) : lh[i] = b
      BY <2>1, <1>t, InRange
    <3> QED BY <3>1 DEF OpInv
  <2>4. Cardinality(wrote'[p]) = Cardinality(wrote[p]) + 1
    BY <2>2, <2>3, <1>t, <1>f, FS_AddElement, Zenon
  <2>5. Cardinality(wrote'[p]) <= OpBlocks
    BY DEF OpInv
  <2> DEFINE k == Cardinality(wrote[p])
  <2>6. <<p, k + 1>> \in Tokens /\ <<p, k + 1>> \notin Tokens'
    <3>1. k + 1 \in 1 .. MAXOPBLOCKS
      BY <2>4, <2>5, <1>c, LogAssumption
    <3>2. <<p, k + 1>> \in Tokens
      BY <3>1, <1>i, <1>c DEF Tokens
    <3>3. ~(k + 1 > Cardinality(wrote'[p]))
      BY <2>4, <1>c
    <3> QED BY <3>2, <3>3 DEF Tokens
  <2>7. PICK tok \in Tokens : Tokens' \subseteq Tokens \ {tok}
    BY <2>6, <1>s
  <2>8. IsFiniteSet(Tokens') /\ Cardinality(Tokens') <= Cardinality(Tokens) - 1
    <3>1. /\ IsFiniteSet(Tokens \ {tok})
          /\ Cardinality(Tokens \ {tok}) = Cardinality(Tokens) - 1
      BY TokensFinite, FS_RemoveElement
    <3> QED BY <3>1, <2>7, FS_Subset
  <2>9. Cardinality(Tokens') \in Nat /\ Cardinality(Tokens) \in Nat
    BY <2>8, TokensFinite, FS_CardinalityType
  <2>10. Len(lh') = Len(lh) + 1
    BY <2>1, <1>t
  <2>11. Len(lh) + Cardinality(Tokens) <= LOGBLOCKS
    BY <1>b DEF SpaceInv
  <2>12. OpBlocks < MAXOPBLOCKS => Cardinality(Tokens') # 0
    <3>1. SUFFICES ASSUME OpBlocks < MAXOPBLOCKS PROVE Tokens' # {}
      BY <2>8, FS_EmptySet
    <3>2. MAXOPBLOCKS > Cardinality(wrote'[p]) /\ MAXOPBLOCKS \in 1 .. MAXOPBLOCKS
      BY <3>1, <2>5, <1>c, LogAssumption
    <3>3. <<p, MAXOPBLOCKS>> \in Tokens'
      BY <3>2, <1>i DEF Tokens
    <3> QED BY <3>3
  <2>13. Len(lh') + Cardinality(Tokens') <= LOGBLOCKS
    BY <2>8, <2>9, <2>10, <2>11, <1>t, LogAssumption
  <2>14. OpBlocks < MAXOPBLOCKS => Len(lh') < LOGBLOCKS
    BY <2>9, <2>10, <2>12, <2>13, <1>t, LogAssumption
  <2> QED BY <2>13, <2>14 DEF SpaceInv
<1> QED BY <1>1, <1>2

\* Every step keeps room in the header for every reservation of begin_op().
LEMMA SpaceStep ==
  ASSUME TypeOK, TypeOK', OpInv, OpInv', HeadInv, HeadInv', SpaceInv, Next
  PROVE  SpaceInv'
<1>t. lh \in Seq(Block) /\ lh' \in Seq(Block) /\ Len(lh) \in Nat /\ Len(lh') \in Nat
  BY DEF TypeOK
<1>1. ASSUME NEW b \in Block, Bread(b) \/ Recycle(b) PROVE SpaceInv'
  <2>1. UNCHANGED <<lh, phase, pc, wrote>>
    BY <1>1 DEF Bread, Recycle
  <2> QED BY <2>1 DEF SpaceInv, Tokens, InOp
<1>2. ASSUME NEW p \in Proc, BeginOp(p) PROVE SpaceInv'
  BY <1>2, BeginOpSpace
<1>3. ASSUME NEW p \in Proc, EndOp(p) PROVE SpaceInv'
  <2>1. pc[p] = "op" /\ lh' = lh /\ wrote' = [wrote EXCEPT ![p] = {}]
    BY <1>3 DEF EndOp
  <2>2. phase = "idle" /\ phase \notin BootPhases
    BY <2>1, OpMeansIdle DEF BootPhases
  <2>c. ~committing
    <3>1. phase \notin CommitPhases
      BY <2>2 DEF CommitPhases
    <3> QED BY <3>1, Zenon DEF OpInv
  <2>4. \/ pc' = [pc EXCEPT ![p] = "commit"]
        \/ pc' = WakeLog([pc EXCEPT ![p] = "user"])
    BY <1>3, <2>c, Zenon DEF EndOp
  <2>5. InOp' \subseteq InOp \ {p}
    BY <2>4 DEF InOp, WakeLog, TypeOK
  <2>6. \A q \in InOp' : wrote'[q] = wrote[q]
    BY <2>5, <2>1 DEF InOp, TypeOK
  <2>7. Tokens' \subseteq Tokens
    BY <2>5, <2>6 DEF Tokens
  <2> QED BY <2>1, <2>2, <2>7, <1>t, NoNewTokens
<1>4. ASSUME NEW p \in Proc, NEW b \in Block, NEW v \in Value, LogWrite(p, b, v)
      PROVE SpaceInv'
  BY <1>4, LogWriteSpace
<1>e. ASSUME InOp' = {}, Len(lh') = 0 PROVE SpaceInv'
  <2>1. Tokens' = {}
    BY <1>e DEF Tokens
  <2>2. Cardinality(Tokens') = 0
    BY <2>1, FS_EmptySet
  <2> QED BY <2>2, <1>e, LogAssumption DEF SpaceInv
<1>5. CASE Commit
  <2>1. phase \in CommitPhases /\ phase \notin BootPhases /\ phase # "idle"
    BY <1>5, Zenon DEF Commit, WriteLog, WriteHead, InstallTrans, ClearHead, EndCommit,
                CommitPhases, BootPhases
  <2>2. InOp = {} /\ Tokens = {}
    BY <2>1 DEF OpInv, Tokens
  <2>3. lh' = lh \/ lh' = << >>
    BY <1>5 DEF Commit, WriteLog, WriteHead, InstallTrans, ClearHead, EndCommit, InstallBlock, Unpin
  <2>4. InOp' = {}
    <3>1. CASE EndCommit
      BY <3>1, <2>2 DEF EndCommit, WakeLog, InOp
    <3>2. CASE ~EndCommit
      BY <3>2, <1>5, <2>2, Zenon DEF Commit, WriteLog, WriteHead, InstallTrans, ClearHead, InOp
    <3> QED BY <3>1, <3>2
  <2>5. Tokens' \subseteq Tokens
    BY <2>4 DEF Tokens
  <2>6. Len(lh') <= Len(lh)
    BY <2>3, <1>t
  <2> QED BY <2>1, <2>5, <2>6, <1>t, NoNewTokens
<1>6. CASE ReadHead \/ RecoverTrans \/ Crash
  <2>1. phase' \in BootPhases
    BY <1>6 DEF ReadHead, RecoverTrans, Crash, InstallBlock, Unpin, After, BootPhases
  <2> QED BY <2>1 DEF SpaceInv
<1>7. CASE RecoverClear
  <2>1. phase = "recover_clear" /\ lh' = lh /\ pc' = pc
    BY <1>7 DEF RecoverClear
  <2>2. lh' = << >> /\ InOp' = {}
    BY <2>1 DEF HeadInv, OpInv, InOp
  <2> QED BY <2>2, <1>e
<1>8. CASE BgetPanic
  <2>1. UNCHANGED <<lh, phase, pc, wrote>>
    BY <1>8 DEF BgetPanic, memory
  <2> QED BY <2>1 DEF SpaceInv, Tokens, InOp
<1> QED
  BY BufferSteps, <1>8, <1>1, <1>2, <1>3, <1>4, <1>5, <1>6, <1>7 DEF Next, Recover

-----------------------------------------------------------------------------
(* Pinned buffers. *)

\* There are at most as many pinned buffers as header entries.
LEMMA PinnedBound ==
  ASSUME TypeOK, PinInv
  PROVE  IsFiniteSet(Pinned) /\ Cardinality(Pinned) <= Len(lh)
<1>h. lh \in Seq(Block) /\ Len(lh) \in Nat /\ DOMAIN lh = 1 .. Len(lh) /\ tail \in Nat
  BY HeaderFacts
<1>1. Pinned \in SUBSET Range(lh)
  <2>1. ASSUME NEW b \in Pinned PROVE \E i \in 1 .. Len(lh) : lh[i] = b
    <3>1. b \in Block /\ pin[b] > 0
      BY DEF Pinned
    <3>2. PICK i \in Uninstalled : lh[i] = b
      BY <3>1 DEF PinInv
    <3>3. i \in 1 .. Len(lh)
      BY <1>h, <3>2 DEF Uninstalled
    <3> QED BY <3>2, <3>3
  <2> QED BY <2>1, <1>h DEF Range
<1>2. lh \in Surjection(1 .. Len(lh), Range(lh))
  BY <1>h DEF Surjection, Range
<1>3. IsFiniteSet(1 .. Len(lh)) /\ Cardinality(1 .. Len(lh)) = Len(lh)
  BY <1>h, FS_Interval, SMTT(30)
<1>4. IsFiniteSet(Range(lh)) /\ Cardinality(Range(lh)) <= Len(lh)
  BY <1>2, <1>3, FS_Surjection
<1>5. IsFiniteSet(Pinned) /\ Cardinality(Pinned) <= Cardinality(Range(lh))
  BY <1>1, <1>4, FS_Subset
<1>6. Cardinality(Pinned) \in Nat /\ Cardinality(Range(lh)) \in Nat
  BY <1>4, <1>5, FS_CardinalityType
<1> QED BY <1>4, <1>5, <1>6, <1>h

-----------------------------------------------------------------------------
(* The inductive invariant. *)

\* The kernel boots on a disk with an empty log.
LEMMA InitIndInv == Init => IndInv
<1> SUFFICES ASSUME Init PROVE IndInv
  OBVIOUS
<1> USE LogAssumption
<1>0. IsFiniteSet({}) /\ Cardinality({}) = 0
  BY FS_EmptySet
<1>1. /\ lh = << >> /\ dhead = << >> /\ phase = "read_head" /\ tail = 0 /\ outstanding = 0
      /\ pc = [p \in Proc |-> "user"] /\ wrote = [p \in Proc |-> {}]
      /\ cache = [b \in Block |-> NotCached] /\ pin = [b \in Block |-> 0]
  BY DEF Init
<1>2. committing = FALSE /\ committing \in BOOLEAN
  BY Zenon DEF Init
<1>3. TypeOK
  <2>1. disk \in [Block -> Value] /\ dlog \in [1 .. LOGBLOCKS -> Value]
    BY DEF Init
  <2>2. lh \in Seq(Block) /\ dhead \in Seq(Block) /\ Len(lh) <= LOGBLOCKS /\ Len(dhead) <= LOGBLOCKS
    BY <1>1
  <2>3. cache \in [Block -> Value \cup {NotCached}]
    BY <1>1
  <2>4. pin \in [Block -> Nat]
    BY <1>1
  <2>5. outstanding \in Nat /\ tail \in 0 .. LOGBLOCKS /\ phase \in {"idle"} \cup CommitPhases \cup BootPhases
    BY <1>1 DEF BootPhases
  <2>6. pc \in [Proc -> {"user", "begin", "sleeping", "op", "commit"}]
    BY <1>1
  <2>7. wrote \in [Proc -> SUBSET Block]
    BY <1>1
  <2>8. panicked \in {"no", "log_write", "end_op", "bget"} /\ crashes \in 0 .. MaxCrashes
    BY DEF Init
  <2> QED BY <1>2, <2>1, <2>2, <2>3, <2>4, <2>5, <2>6, <2>7, <2>8 DEF TypeOK
<1>4. InOp = {}
  BY <1>1 DEF InOp
<1>5. OpInv
  <2>1. ASSUME NEW q \in Proc PROVE WroteInv(q)
    BY <1>1, NothingWritten
  <2>2. phase \notin CommitPhases /\ phase # "idle"
    BY <1>1 DEF CommitPhases
  <2>3. outstanding = Cardinality(InOp)
    BY <1>0, <1>1, <1>4
  <2> QED BY <1>2, <1>4, <2>1, <2>2, <2>3, Zenon DEF OpInv, WroteInv
<1>6. SpaceInv
  BY <1>1 DEF SpaceInv, BootPhases
<1>7. PinInv
  BY <1>1 DEF PinInv, Uninstalled
<1>8. CacheInv
  BY <1>1 DEF CacheInv
<1>9. HeadInv
  BY <1>1, EmptyDistinct DEF HeadInv
<1>10. DataInv
  BY <1>1 DEF DataInv
<1> QED BY <1>3, <1>5, <1>6, <1>7, <1>8, <1>9, <1>10 DEF IndInv, LogInv

\* Every step of the log, of the buffer cache, of a crash and of recovery
\* preserves the invariant.
LEMMA IndInvStep == IndInv /\ [Next]_vars => IndInv'
<1> SUFFICES ASSUME IndInv, [Next]_vars PROVE IndInv'
  OBVIOUS
<1>i. TypeOK /\ OpInv /\ SpaceInv /\ PinInv /\ CacheInv /\ HeadInv /\ DataInv
  BY DEF IndInv, LogInv
<1>1. CASE Next
  <2>1. HeadInv' /\ OpInv'
    BY <1>1, <1>i, HeadStep, OpStep
  <2>2. TypeOK'
    BY <1>1, <1>i, OpOutstanding, TypeStep
  <2>3. SpaceInv' /\ PinInv' /\ CacheInv' /\ DataInv'
    BY <1>1, <1>i, <2>1, <2>2, SpaceStep, PinStep, CacheStep, DataStep
  <2> QED BY <2>1, <2>2, <2>3 DEF IndInv, LogInv
<1>2. CASE UNCHANGED vars
  <2>1. UNCHANGED <<disk, dlog, dhead, cache, pin, lh, outstanding, committing, phase,
                    tail, pc, wrote, panicked, crashes>>
    BY <1>2 DEF vars, memory
  <2>2. TypeOK'
    BY <1>i, <2>1, Zenon DEF TypeOK
  <2>3. OpInv'
    BY <1>i, <2>1, Zenon DEF OpInv, InOp
  <2>4. SpaceInv'
    BY <1>i, <2>1, Zenon DEF SpaceInv, Tokens, InOp
  <2>5. PinInv' /\ CacheInv' /\ HeadInv'
    BY <1>i, <2>1, Zenon DEF PinInv, Uninstalled, CacheInv, HeadInv
  <2>6. DataInv'
    BY <1>i, <2>1, Zenon DEF DataInv, Contents
  <2> QED BY <2>2, <2>3, <2>4, <2>5, <2>6 DEF IndInv, LogInv
<1> QED BY <1>1, <1>2

\* struct log and the disk stay well typed in every behaviour of log.c.
THEOREM TypeCorrect == Spec => []TypeOK
<1>1. IndInv => TypeOK
  BY DEF IndInv
<1> QED BY <1>1, InitIndInv, IndInvStep, PTL DEF Spec

\* Reservations, pins, the two headers and the block copies of log.c agree with
\* each other in every state, through commits, crashes and recoveries, for any
\* number of processes and blocks and any size of the log.
THEOREM LogInvariant == Spec => []LogInv
<1>1. IndInv => LogInv
  BY DEF IndInv
<1> QED BY <1>1, InitIndInv, IndInvStep, PTL DEF Spec

-----------------------------------------------------------------------------
(* What the invariant implies. *)

\* With operations that write fewer than MAXOPBLOCKS distinct blocks and a
\* buffer cache that is larger than the log by what system calls hold, no
\* panic() of log_write(), end_op() or bget() is ever reached: the reservation
\* of begin_op() is enough, and it keeps a buffer free for commit().
THEOREM Capacity ==
  ASSUME OpBlocks < MAXOPBLOCKS, NBUF >= LOGBLOCKS + Held
  PROVE  Spec => []NoPanic
<1>1. Init => NoPanic
  BY DEF Init, NoPanic, Running
<1>2. IndInv /\ NoPanic /\ [Next]_vars => NoPanic'
  <2> SUFFICES ASSUME IndInv, NoPanic, [Next]_vars PROVE panicked' = panicked
    BY DEF NoPanic, Running
  <2>i. TypeOK /\ OpInv /\ SpaceInv /\ PinInv
    BY DEF IndInv, LogInv
  <2>h. Len(lh) \in Nat /\ outstanding \in Nat
    BY <2>i DEF TypeOK
  <2>1. ASSUME NEW b \in Block, Bread(b) \/ Recycle(b) PROVE panicked' = panicked
    BY <2>1 DEF Bread, Recycle
  <2>2. ASSUME NEW p \in Proc, BeginOp(p) PROVE panicked' = panicked
    BY <2>2 DEF BeginOp
  <2>3. ASSUME NEW p \in Proc, EndOp(p) PROVE panicked' = panicked
    <3>1. phase = "idle"
      BY <2>3, <2>i, OpMeansIdle DEF EndOp
    <3>2. phase \notin CommitPhases
      BY <3>1 DEF CommitPhases
    <3>3. ~committing
      BY <2>i, <3>2, Zenon DEF OpInv
    <3> QED BY <2>3, <3>3, Zenon DEF EndOp
  <2>4. ASSUME NEW p \in Proc, NEW b \in Block, NEW v \in Value, LogWrite(p, b, v)
        PROVE panicked' = panicked
    <3>1. phase = "idle" /\ p \in InOp
      BY <2>4, <2>i, OpMeansIdle DEF LogWrite, InOp
    <3>2. Len(lh) < LOGBLOCKS
      BY <2>i, <3>1 DEF SpaceInv, BootPhases
    <3>3. outstanding # 0
      BY <2>4, <2>i, OpOutstanding DEF LogWrite
    <3>4. ~(Len(lh) >= LOGBLOCKS \/ outstanding < 1)
      BY <3>2, <3>3, <2>h, LogAssumption
    <3> QED BY <2>4, <3>4, Zenon DEF LogWrite
  <2>5. ~BgetPanic
    <3>1. SUFFICES ASSUME phase \notin BootPhases PROVE ~(Cardinality(Pinned) + Held >= NBUF)
      BY DEF BgetPanic, NoBuffer
    <3>2. Len(lh) < LOGBLOCKS
      BY <3>1, <2>i DEF SpaceInv
    <3>3. Cardinality(Pinned) \in Nat /\ Cardinality(Pinned) <= Len(lh)
      BY <2>i, PinnedBound, FS_CardinalityType
    <3> QED BY <3>2, <3>3, <2>h, LogAssumption
  <2>6. CASE WriteLog \/ WriteHead \/ InstallTrans \/ ClearHead \/ EndCommit \/ Recover \/ Crash
    BY <2>6, Zenon DEF WriteLog, WriteHead, InstallTrans, ClearHead, EndCommit, Recover, Crash,
                ReadHead, RecoverTrans, RecoverClear
  <2>7. CASE UNCHANGED vars
    BY <2>7 DEF vars
  <2> QED
    BY BufferSteps, <2>1, <2>2, <2>3, <2>4, <2>5, <2>6, <2>7 DEF Next, Commit
<1> QED BY <1>1, <1>2, InitIndInv, IndInvStep, PTL DEF Spec

\* Once no operation and no commit is in progress, what readers see is what a
\* crash would leave, and every buffer can be recycled.
THEOREM Quiescence == Spec => []QuiescentDurable
<1>1. IndInv => QuiescentDurable
  <2> SUFFICES ASSUME IndInv, phase = "idle", outstanding = 0
               PROVE  Durable = View /\ Pinned = {}
    BY DEF QuiescentDurable
  <2>i. TypeOK /\ OpInv /\ PinInv /\ CacheInv /\ HeadInv
    BY DEF IndInv, LogInv
  <2>1. InOp = {}
    BY <2>i, InOpFinite, FS_EmptySet DEF OpInv
  <2>2. lh = << >> /\ dhead = << >>
    BY <2>1, <2>i DEF OpInv, HeadInv
  <2>3. \A b \in Block : pin[b] = 0
    BY <2>2, <2>i DEF PinInv, Uninstalled
  <2>4. Pinned = {}
    BY <2>3 DEF Pinned
  <2>5. \A b \in Block : Contents(b) = disk[b]
    BY <2>3, <2>i DEF Contents, CacheInv
  <2>6. View = [b \in Block |-> Contents(b)]
    BY DEF View, BootPhases
  <2>7. View = [b \in Block |-> disk[b]]
    BY <2>5, <2>6
  <2>8. Durable = [b \in Block |-> disk[b]]
    BY <2>i, <2>2, EmptyHeadDurable DEF TypeOK
  <2> QED BY <2>4, <2>7, <2>8
<1> QED BY <1>1, InitIndInv, IndInvStep, PTL DEF Spec

-----------------------------------------------------------------------------
(* log.c implements the transactional store. *)

\* The log implements the transactional store: the durable contents change in
\* the single step write_head(), when no operation is in progress, and every
\* crash, also one during recovery, loses exactly the uncommitted writes.
THEOREM Refinement == Spec => Atomicity
<1>1. Init => Store!Init
  <2> SUFFICES ASSUME Init PROVE Store!Init
    OBVIOUS
  <2>1. dhead = << >> /\ phase = "read_head" /\ disk \in [Block -> Value]
        /\ pc = [p \in Proc |-> "user"]
    BY DEF Init
  <2>2. Durable = disk
    BY InitIndInv, EmptyHeadDurable, <2>1 DEF IndInv
  <2>3. View = Durable
    BY <2>1 DEF View, BootPhases
  <2>4. {p \in Proc : pc[p] = "op"} = {}
    BY <2>1
  <2> QED BY <2>1, <2>2, <2>3, <2>4 DEF Store!Init
<1> QED
  BY <1>1, StoreStep, InitIndInv, IndInvStep, PTL DEF Spec, Atomicity, Store!Spec
=============================================================================
