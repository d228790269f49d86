---------------------------- MODULE LogDataProofs ----------------------------
(***************************************************************************)
(* Lemmas about Log that need no counting: every step keeps the types, the *)
(* two headers, the pins and the copies of each block as LogInv states,    *)
(* and is a step of TxnStore or one that it does not see.                  *)
(***************************************************************************)
EXTENDS Log, TLAPS

PcSet == {"user", "begin", "sleeping", "op", "commit"}
PhaseSet == {"idle"} \cup CommitPhases \cup BootPhases

\* A step of the buffer cache reads a block, recycles a buffer or panics in bget().
LEMMA BufferSteps ==
  Buffers => BgetPanic \/ \E b \in Block : Bread(b) \/ Recycle(b)
BY Zenon DEF Buffers

\* The blocks of a header are its entries (the search loop of log_write()).
LEMMA InRange ==
  ASSUME NEW s \in Seq(Block), NEW b
  PROVE  b \in Range(s) <=> \E i \in 1 .. Len(s) : s[i] = b
BY DEF Range

\* An empty header has the type of a header.
LEMMA EmptyHeader == << >> \in Seq(Block)
OBVIOUS

\* The block install_trans() is about to release is pinned.
LEMMA PinPositive ==
  ASSUME TypeOK, HeadInv, PinInv, phase = "install"
  PROVE  pin[lh[tail + 1]] = 1 /\ lh[tail + 1] \in Block /\ tail + 1 \in 1 .. Len(lh)
<1>1. lh \in Seq(Block) /\ tail \in Nat /\ Len(lh) \in Nat /\ tail < Len(lh)
  BY LogAssumption DEF TypeOK, HeadInv
<1> QED BY <1>1 DEF PinInv, Uninstalled

\* Every step keeps struct log, the buffers and the disk well typed.
LEMMA TypeStep ==
  ASSUME TypeOK, HeadInv, PinInv, Next,
         \A p \in Proc : pc[p] = "op" => outstanding # 0
  PROVE  TypeOK'
<1> USE LogAssumption
<1>disk. disk \in [Block -> Value]
  BY DEF TypeOK
<1>dlog. dlog \in [1 .. LOGBLOCKS -> Value]
  BY DEF TypeOK
<1>cache. cache \in [Block -> Value \cup {NotCached}]
  BY DEF TypeOK
<1>lh. lh \in Seq(Block) /\ Len(lh) \in Nat /\ Len(lh) <= LOGBLOCKS
  BY DEF TypeOK
<1>pc. pc \in [Proc -> PcSet]
  BY DEF TypeOK, PcSet
<1>phase. phase \in PhaseSet
  BY DEF TypeOK, PhaseSet
<1>tail. tail \in 0 .. LOGBLOCKS
  BY DEF TypeOK
<1>out. outstanding \in Nat
  BY DEF TypeOK
<1>pin. pin \in [Block -> Nat]
  BY DEF TypeOK
<1>wrote. wrote \in [Proc -> SUBSET Block]
  BY DEF TypeOK
<1>d. {"user", "begin", "sleeping", "op", "commit"} = PcSet
  BY DEF PcSet
<1>e. /\ \A s \in {"idle", "write_log", "write_head", "install", "clear", "end",
                   "read_head", "recover", "recover_clear"} : s \in PhaseSet
      /\ {"idle"} \cup CommitPhases \cup BootPhases = PhaseSet
  BY DEF PhaseSet, CommitPhases, BootPhases
<1>2. ASSUME NEW b \in Block, Bread(b) PROVE TypeOK'
  BY <1>2 DEF TypeOK, Bread
<1>3. ASSUME NEW b \in Block, Recycle(b) PROVE TypeOK'
  BY <1>3 DEF TypeOK, Recycle
<1>4. ASSUME NEW p \in Proc, BeginOp(p) PROVE TypeOK'
  <2>1. outstanding' \in Nat /\ pc' \in [Proc -> PcSet]
    BY <1>4, <1>out, <1>pc, <1>d DEF BeginOp
  <2>2. UNCHANGED <<disk, dlog, dhead, cache, pin, lh, committing, phase, tail,
                    wrote, panicked, crashes>>
    BY <1>4 DEF BeginOp
  <2> QED BY <2>1, <2>2, <1>d DEF TypeOK
<1>5. ASSUME NEW p \in Proc, EndOp(p) PROVE TypeOK'
  <2>1. outstanding' \in Nat
    BY <1>5, <1>out DEF EndOp
  <2>2. pc' \in [Proc -> PcSet]
    BY <1>5, <1>pc, <1>d DEF EndOp, WakeLog
  <2>3. phase' \in PhaseSet /\ tail' \in 0 .. LOGBLOCKS
    BY <1>5, <1>phase, <1>tail, <1>e DEF EndOp
  <2>4. committing' \in BOOLEAN /\ panicked' \in {"no", "log_write", "end_op", "bget"}
    BY <1>5, Zenon DEF EndOp, TypeOK
  <2>5. wrote' \in [Proc -> SUBSET Block]
    BY <1>5, <1>wrote DEF EndOp
  <2>6. UNCHANGED <<disk, dlog, dhead, cache, pin, lh, crashes>>
    BY <1>5 DEF EndOp
  <2> QED BY <2>1, <2>2, <2>3, <2>4, <2>5, <2>6, <1>d, <1>e DEF TypeOK
<1>6. ASSUME NEW p \in Proc, NEW b \in Block, NEW v \in Value, LogWrite(p, b, v)
      PROVE TypeOK'
  <2>1. lh' \in Seq(Block)
    <3>1. lh' = lh \/ lh' = Append(lh, b)
      BY <1>6, Zenon DEF LogWrite
    <3> QED BY <3>1, <1>lh
  <2>7. Len(lh') <= LOGBLOCKS
    BY <1>6, <1>lh, <1>out DEF LogWrite
  <2>2. cache' \in [Block -> Value \cup {NotCached}]
    BY <1>6, <1>cache DEF LogWrite
  <2>5. pin' \in [Block -> Nat]
    BY <1>6, <1>pin DEF LogWrite
  <2>6. wrote' \in [Proc -> SUBSET Block]
    BY <1>6, <1>wrote DEF LogWrite
  <2>3. panicked' \in {"no", "log_write", "end_op", "bget"}
    BY <1>6, Zenon DEF LogWrite, TypeOK
  <2>4. UNCHANGED <<disk, dlog, dhead, outstanding, committing, phase, tail, pc, crashes>>
    BY <1>6 DEF LogWrite
  <2> QED BY <2>1, <2>2, <2>3, <2>4, <2>5, <2>6, <2>7 DEF TypeOK
<1>7. CASE WriteLog
  <2>1. tail < Len(lh) /\ phase = "write_log"
    BY <1>7 DEF WriteLog, HeadInv
  <2>i. tail + 1 \in 1 .. LOGBLOCKS /\ tail + 1 \in 1 .. Len(lh) /\ lh[tail + 1] \in Block
    BY <2>1, <1>lh, <1>tail
  <2>c. Contents(lh[tail + 1]) \in Value
    BY <2>i, <1>disk, <1>cache DEF Contents
  <2>2. dlog' \in [1 .. LOGBLOCKS -> Value]
    BY <1>7, <2>i, <2>c, <1>dlog DEF WriteLog
  <2>5. cache' \in [Block -> Value \cup {NotCached}]
    BY <1>7, <2>i, <2>c, <1>cache DEF WriteLog
  <2>6. tail' \in 0 .. LOGBLOCKS
    BY <1>7, <2>i, <1>tail DEF WriteLog
  <2>7. phase' \in PhaseSet
    BY <1>7, <1>phase, <1>e DEF WriteLog, After
  <2>3. panicked' \in {"no", "log_write", "end_op", "bget"}
    BY <1>7, Zenon DEF WriteLog, TypeOK
  <2>4. UNCHANGED <<disk, dhead, pin, lh, outstanding, committing, pc, wrote, crashes>>
    BY <1>7 DEF WriteLog
  <2> QED BY <2>2, <2>3, <2>4, <2>5, <2>6, <2>7, <1>e DEF TypeOK
<1>8. CASE WriteHead
  BY <1>8 DEF TypeOK, WriteHead, CommitPhases, BootPhases
<1>9. ASSUME InstallTrans \/ RecoverTrans PROVE TypeOK'
  <2>1. tail < Len(lh)
    BY <1>9, Zenon DEF InstallTrans, RecoverTrans, HeadInv
  <2>i. /\ tail + 1 \in 1 .. LOGBLOCKS /\ tail + 1 \in 1 .. Len(lh)
        /\ lh[tail + 1] \in Block /\ dlog[tail + 1] \in Value
    BY <2>1, <1>lh, <1>tail, <1>dlog
  <2>2. disk' \in [Block -> Value]
    BY <1>9, <2>i, <1>disk DEF InstallTrans, RecoverTrans, InstallBlock, Unpin
  <2>8. cache' \in [Block -> Value \cup {NotCached}]
    BY <1>9, <2>i, <1>cache DEF InstallTrans, RecoverTrans, InstallBlock, Unpin
  <2>7. tail' \in 0 .. LOGBLOCKS
    BY <1>9, <2>i DEF InstallTrans, RecoverTrans, InstallBlock, Unpin
  <2>3. lh' \in Seq(Block) /\ Len(lh') <= LOGBLOCKS
    <3>1. lh' = lh \/ lh' = << >>
      BY <1>9, Zenon DEF InstallTrans, RecoverTrans, InstallBlock, Unpin
    <3>2. lh' \in Seq(Block)
      BY <3>1, <1>lh, EmptyHeader, Zenon
    <3>3. Len(lh') <= LOGBLOCKS
      BY <3>1, <1>lh
    <3> QED BY <3>2, <3>3
  <2>4. phase' \in PhaseSet
    BY <1>9, <1>e DEF InstallTrans, RecoverTrans, InstallBlock, Unpin, After
  <2>5. pin' \in [Block -> Nat]
    <3>1. CASE RecoverTrans BY <3>1, <1>pin DEF RecoverTrans, InstallBlock, Unpin
    <3>2. CASE InstallTrans BY <3>2, <1>pin, PinPositive DEF InstallTrans, InstallBlock, Unpin
    <3> QED BY <1>9, <3>1, <3>2
  <2>6. UNCHANGED <<dlog, dhead, outstanding, committing, pc, wrote, panicked, crashes>>
    BY <1>9, Zenon DEF InstallTrans, RecoverTrans
  <2> QED BY <2>2, <2>3, <2>4, <2>5, <2>6, <2>7, <2>8, <1>e DEF TypeOK
<1>10. CASE ClearHead
  BY <1>10 DEF TypeOK, ClearHead, CommitPhases, BootPhases
<1>11. CASE EndCommit
  <2>1. pc' \in [Proc -> PcSet]
    BY <1>11, <1>pc, <1>d DEF EndCommit, WakeLog
  <2> QED BY <1>11, <2>1, <1>d, <1>e, Zenon DEF EndCommit, TypeOK
<1>12. CASE Crash
  <2>1. phase' \in {"idle"} \cup CommitPhases \cup BootPhases /\ crashes' \in 0 .. MaxCrashes
    BY <1>12, <1>e DEF TypeOK, Crash
  <2>2. lh' \in Seq(Block) /\ Len(lh') <= LOGBLOCKS
    BY <1>12 DEF Crash
  <2>3. cache' \in [Block -> Value \cup {NotCached}]
    BY <1>12 DEF Crash
  <2>7. pin' \in [Block -> Nat]
    BY <1>12 DEF Crash
  <2>8. wrote' \in [Proc -> SUBSET Block]
    BY <1>12 DEF Crash
  <2>6. outstanding' \in Nat /\ tail' \in 0 .. LOGBLOCKS
    BY <1>12 DEF Crash
  <2>9. committing' \in BOOLEAN
    BY <1>12, Zenon DEF Crash
  <2>4. pc' \in [Proc -> PcSet]
    BY <1>12, <1>d DEF Crash
  <2>5. UNCHANGED <<disk, dlog, dhead, panicked>>
    BY <1>12 DEF Crash
  <2> QED BY <2>1, <2>2, <2>3, <2>4, <2>5, <2>6, <2>7, <2>8, <2>9, <1>d DEF TypeOK
<1>13. CASE ReadHead
  BY <1>13, <1>e DEF TypeOK, ReadHead
<1>14. CASE RecoverClear
  BY <1>14, <1>e DEF TypeOK, RecoverClear
<1>15. CASE BgetPanic
  <2>1. UNCHANGED <<disk, dlog, dhead, cache, pin, lh, outstanding, committing, phase,
                    tail, pc, wrote, crashes>> /\ panicked' = "bget"
    BY <1>15 DEF BgetPanic, memory
  <2> QED BY <2>1, Zenon DEF TypeOK
<1> QED
  BY BufferSteps, <1>15, <1>2, <1>3, <1>4, <1>5, <1>6, <1>7, <1>8, <1>9, <1>10, <1>11, <1>12, <1>13, <1>14
     DEF Next, Commit, Recover

\* Facts about the header and the counters that the other lemmas use.
LEMMA HeaderFacts ==
  ASSUME TypeOK
  PROVE  /\ lh \in Seq(Block) /\ Len(lh) \in Nat /\ DOMAIN lh = 1 .. Len(lh)
         /\ dhead \in Seq(Block) /\ Len(dhead) \in Nat /\ DOMAIN dhead = 1 .. Len(dhead)
         /\ tail \in Nat
         /\ Len(lh) = 0 => lh = << >>
BY LogAssumption DEF TypeOK

\* An operation in progress means that neither commit() nor recovery runs.
LEMMA OpMeansIdle ==
  ASSUME OpInv, NEW p \in Proc, pc[p] = "op"
  PROVE  phase = "idle"
BY DEF OpInv, InOp

\* An empty header, as commit() and the boot leave it, repeats no block.
LEMMA EmptyDistinct == IsInjective(<< >>)
BY DEF IsInjective

\* log_write() appends a block only after its search did not find it.
LEMMA AppendKeepsDistinct ==
  ASSUME NEW s \in Seq(Block), NEW x \in Block, IsInjective(s), x \notin Range(s)
  PROVE  IsInjective(Append(s, x))
<1> DEFINE t == Append(s, x)
<1>1. \A i \in 1 .. Len(s) : s[i] # x
  BY InRange
<1>2. /\ Len(s) \in Nat /\ DOMAIN s = 1 .. Len(s) /\ DOMAIN t = 1 .. Len(s) + 1
      /\ \A i \in 1 .. Len(s) : t[i] = s[i]
      /\ t[Len(s) + 1] = x
  OBVIOUS
<1> HIDE DEF t
<1>3. ASSUME NEW i \in 1 .. Len(s) + 1, NEW j \in 1 .. Len(s) + 1, t[i] = t[j]
      PROVE  i = j
  <2>1. CASE i \in 1 .. Len(s) /\ j \in 1 .. Len(s)
    BY <2>1, <1>2, <1>3 DEF IsInjective
  <2>2. CASE i = Len(s) + 1 \/ j = Len(s) + 1
    BY <2>2, <1>1, <1>2, <1>3
  <2> QED BY <2>1, <2>2, <1>2
<1>4. IsInjective(t)
  BY <1>2, <1>3 DEF IsInjective
<1> QED BY <1>4 DEF t

\* Every step keeps the header in memory and the header on disk in agreement.
LEMMA HeadStep ==
  ASSUME TypeOK, OpInv, HeadInv, Next
  PROVE  HeadInv'
<1>h. /\ lh \in Seq(Block) /\ Len(lh) \in Nat /\ tail \in Nat /\ Len(dhead) \in Nat
      /\ Len(lh) = 0 => lh = << >>
      /\ Len(<< >>) = 0
  BY HeaderFacts
<1>1. ASSUME UNCHANGED <<lh, dhead, phase, tail>> PROVE HeadInv'
  BY <1>1 DEF HeadInv
<1>2. ASSUME NEW b \in Block, Bread(b) \/ Recycle(b) PROVE HeadInv'
  BY <1>1, <1>2 DEF Bread, Recycle
<1>3. ASSUME NEW p \in Proc, BeginOp(p) PROVE HeadInv'
  BY <1>1, <1>3 DEF BeginOp
<1>4. ASSUME NEW p \in Proc, EndOp(p) PROVE HeadInv'
  <2>1. phase = "idle" /\ UNCHANGED <<lh, dhead>>
    BY <1>4, OpMeansIdle DEF EndOp
  <2>2. \/ UNCHANGED <<phase, tail>>
        \/ tail' = 0 /\ phase' = IF Len(lh) > 0 THEN "write_log" ELSE "end"
    BY <1>4, Zenon DEF EndOp
  <2> QED BY <1>h, <2>1, <2>2 DEF HeadInv
<1>5. ASSUME NEW p \in Proc, NEW b \in Block, NEW v \in Value, LogWrite(p, b, v)
      PROVE HeadInv'
  <2>1. phase = "idle" /\ UNCHANGED <<phase, tail, dhead>>
    BY <1>5, OpMeansIdle DEF LogWrite
  <2>2. IsInjective(lh)
    BY DEF HeadInv
  <2>3. IsInjective(lh')
    <3>1. CASE lh' = lh BY <3>1, <2>2
    <3>2. CASE lh' = Append(lh, b) /\ b \notin Range(lh)
      BY <3>2, <2>2, <1>h, AppendKeepsDistinct
    <3>3. b \in Range(lh) => lh' = lh
      BY <1>5, Zenon DEF LogWrite
    <3>4. lh' = lh \/ lh' = Append(lh, b)
      BY <1>5, Zenon DEF LogWrite
    <3> QED BY <3>1, <3>2, <3>3, <3>4
  <2> QED BY <2>1, <2>3 DEF HeadInv
<1>6. CASE WriteLog
  <2>1. phase = "write_log" /\ UNCHANGED <<lh, dhead>>
    BY <1>6 DEF WriteLog
  <2>2. \/ UNCHANGED <<phase, tail>>
        \/ tail' = tail + 1 /\ phase' = IF tail + 1 = Len(lh) THEN "write_head" ELSE "write_log"
    BY <1>6, Zenon DEF WriteLog, After
  <2> QED BY <1>h, <2>1, <2>2 DEF HeadInv
<1>7. CASE WriteHead
  <2>1. Len(lh) > 0 /\ IsInjective(lh)
    BY <1>7, <1>h DEF WriteHead, HeadInv
  <2> QED BY <1>7, <2>1, <1>h DEF WriteHead, HeadInv
<1>8. ASSUME InstallTrans \/ RecoverTrans PROVE HeadInv'
  <2>1. /\ phase \in {"install", "recover"} /\ dhead' = dhead /\ tail' = tail + 1
        /\ lh' = IF tail + 1 = Len(lh) THEN << >> ELSE lh
    BY <1>8 DEF InstallTrans, RecoverTrans, InstallBlock, Unpin
  <2>2. phase' = IF tail + 1 = Len(lh)
                   THEN IF phase = "install" THEN "clear" ELSE "recover_clear"
                   ELSE phase
    BY <1>8 DEF InstallTrans, RecoverTrans, InstallBlock, Unpin, After
  <2>3. IsInjective(lh) /\ IsInjective(dhead) /\ tail < Len(lh) /\ dhead = lh
    BY <2>1 DEF HeadInv
  <2>4. IsInjective(lh') /\ IsInjective(dhead')
    BY <2>1, <2>3, EmptyDistinct
  <2>5. CASE tail + 1 = Len(lh)
    BY <2>1, <2>2, <2>4, <2>5, <1>h DEF HeadInv
  <2>6. CASE tail + 1 # Len(lh)
    BY <2>1, <2>2, <2>3, <2>4, <2>6, <1>h DEF HeadInv
  <2> QED BY <2>5, <2>6
<1>9. CASE ClearHead
  BY <1>9, <1>h, EmptyDistinct DEF ClearHead, HeadInv
<1>10. CASE EndCommit
  BY <1>10 DEF EndCommit, HeadInv
<1>11. CASE Crash
  <2>1. IsInjective(lh)' /\ IsInjective(dhead)'
    BY <1>11, EmptyDistinct DEF Crash, HeadInv
  <2>2. phase' = "read_head"
    BY <1>11 DEF Crash
  <2> QED BY <2>1, <2>2 DEF HeadInv
<1>12. CASE ReadHead
  <2> QED BY <1>12, <1>h DEF ReadHead, HeadInv
<1>13. CASE RecoverClear
  BY <1>13, <1>h DEF RecoverClear, HeadInv
<1>14. CASE BgetPanic
  BY <1>1, <1>14 DEF BgetPanic, memory
<1> QED
  BY BufferSteps, <1>14, <1>2, <1>3, <1>4, <1>5, <1>6, <1>7, <1>8, <1>9, <1>10, <1>11, <1>12, <1>13
     DEF Next, Commit, Recover

-----------------------------------------------------------------------------
(* Pinned buffers. *)

\* b is one of the blocks whose home copy is still out of date.
Pending(b) == \E i \in Uninstalled : lh[i] = b

\* A step that neither pins nor changes which blocks are pending.
LEMMA PinSame ==
  ASSUME PinInv, pin' = pin, \A b \in Block : Pending(b)' <=> Pending(b)
  PROVE  PinInv'
BY DEF PinInv, Pending

\* The header entries that count as pending, by phase.
LEMMA UninstalledIs ==
  /\ phase = "install" => Uninstalled = tail + 1 .. Len(lh)
  /\ phase \in {"idle", "write_log", "write_head"} => Uninstalled = 1 .. Len(lh)
  /\ phase \in {"clear", "end"} \cup BootPhases => Uninstalled = {}
BY DEF Uninstalled, BootPhases

\* bpin() and bunpin() are called exactly when a block enters the header and
\* when its home copy has been written.
LEMMA PinStep ==
  ASSUME TypeOK, TypeOK', OpInv, HeadInv, HeadInv', PinInv, Next
  PROVE  PinInv'
<1>h. /\ lh \in Seq(Block) /\ Len(lh) \in Nat /\ tail \in Nat /\ DOMAIN lh = 1 .. Len(lh)
      /\ Len(lh) = 0 => lh = << >>
      /\ Len(<< >>) = 0
  BY HeaderFacts
<1>pin. pin \in [Block -> Nat]
  BY DEF TypeOK
<1>1. ASSUME UNCHANGED <<lh, pin, phase, tail>> PROVE PinInv'
  BY <1>1 DEF PinInv, Uninstalled
<1>2. ASSUME NEW b \in Block, Bread(b) \/ Recycle(b) PROVE PinInv'
  BY <1>1, <1>2 DEF Bread, Recycle
<1>3. ASSUME NEW p \in Proc, BeginOp(p) PROVE PinInv'
  BY <1>1, <1>3 DEF BeginOp
<1>4. ASSUME NEW p \in Proc, EndOp(p) PROVE PinInv'
  <2>1. phase = "idle" /\ UNCHANGED <<lh, pin>>
    BY <1>4, OpMeansIdle DEF EndOp
  <2>2. phase' = phase \/ phase' = IF Len(lh) > 0 THEN "write_log" ELSE "end"
    BY <1>4, Zenon DEF EndOp
  <2>3. Uninstalled' = Uninstalled
    BY <2>1, <2>2, <1>h DEF Uninstalled
  <2> QED BY <2>1, <2>3, PinSame DEF Pending
<1>5. ASSUME NEW p \in Proc, NEW b \in Block, NEW v \in Value, LogWrite(p, b, v)
      PROVE PinInv'
  <2>1. phase = "idle" /\ UNCHANGED <<phase, tail>>
    BY <1>5, OpMeansIdle DEF LogWrite
  <2>2. \/ lh' = lh /\ pin' = pin
        \/ b \notin Range(lh) /\ lh' = Append(lh, b) /\ pin' = [pin EXCEPT ![b] = pin[b] + 1]
    BY <1>5, Zenon DEF LogWrite
  <2>3. CASE lh' = lh /\ pin' = pin
    BY <1>1, <2>1, <2>3
  <2>4. CASE b \notin Range(lh) /\ lh' = Append(lh, b) /\ pin' = [pin EXCEPT ![b] = pin[b] + 1]
    <3>1. Uninstalled = 1 .. Len(lh) /\ Uninstalled' = 1 .. Len(lh) + 1
      BY <2>1, <2>4, <1>h DEF Uninstalled
    <3>2. \A i \in 1 .. Len(lh) : lh'[i] = lh[i] /\ lh[i] # b
      BY <2>4, <1>h, InRange
    <3>3. lh'[Len(lh) + 1] = b
      BY <2>4, <1>h
    <3>4. pin[b] = 0
      BY <3>1, <3>2 DEF PinInv
    <3>5. ASSUME NEW c \in Block, c # b
          PROVE  (\E i \in Uninstalled' : lh'[i] = c) <=> (\E i \in Uninstalled : lh[i] = c)
      BY <3>1, <3>2, <3>3, <3>5, <1>h
    <3>6. \E i \in Uninstalled' : lh'[i] = b
      BY <3>1, <3>3, <1>h
    <3>7. pin'[b] = 1 /\ \A c \in Block : c # b => pin'[c] = pin[c]
      BY <2>4, <3>4, <1>pin
    <3> QED BY <3>5, <3>6, <3>7 DEF PinInv
  <2> QED BY <2>2, <2>3, <2>4
<1>6. CASE WriteLog
  <2>1. phase = "write_log" /\ UNCHANGED <<lh, pin>>
    BY <1>6 DEF WriteLog
  <2>2. phase' \in {"write_log", "write_head"}
    BY <1>6 DEF WriteLog, After
  <2>3. Uninstalled' = Uninstalled
    BY <2>1, <2>2 DEF Uninstalled
  <2> QED BY <2>1, <2>3, PinSame DEF Pending
<1>7. CASE WriteHead
  <2>1. Uninstalled' = Uninstalled /\ UNCHANGED <<lh, pin>>
    BY <1>7 DEF WriteHead, Uninstalled
  <2> QED BY <2>1, PinSame DEF Pending
<1>8. CASE InstallTrans
  <2>1. /\ phase = "install" /\ tail' = tail + 1
        /\ pin' = [pin EXCEPT ![lh[tail + 1]] = pin[lh[tail + 1]] - 1]
        /\ phase' = IF tail + 1 = Len(lh) THEN "clear" ELSE "install"
        /\ lh' = IF tail + 1 = Len(lh) THEN << >> ELSE lh
    BY <1>8, Zenon DEF InstallTrans, InstallBlock, Unpin, After
  <2> DEFINE b == lh[tail + 1]
  <2>2. pin[b] = 1 /\ b \in Block /\ tail + 1 \in 1 .. Len(lh)
    BY <2>1, PinPositive
  <2>3. Uninstalled = tail + 1 .. Len(lh)
    BY <2>1 DEF Uninstalled
  <2>4. Uninstalled' = tail + 2 .. Len(lh)
    <3>1. CASE tail + 1 = Len(lh)
      <4>1. phase' = "clear"
        BY <3>1, <2>1
      <4>2. Uninstalled' = {}
        BY <4>1 DEF Uninstalled
      <4> QED BY <3>1, <4>2, <1>h
    <3>2. CASE tail + 1 # Len(lh)
      <4>1. phase' = "install" /\ lh' = lh
        BY <3>2, <2>1, Zenon
      <4>2. tail' = tail + 1 /\ tail \in Nat
        BY <2>1, <1>h, Zenon
      <4>3. tail' + 1 = tail + 2
        BY <4>2
      <4> QED BY <4>1, <4>3 DEF Uninstalled
    <3> QED BY <3>1, <3>2
  <2>5. \A i \in Uninstalled' : lh'[i] = lh[i]
    <3>1. CASE tail + 1 = Len(lh)
      BY <3>1, <2>4, <1>h
    <3>2. CASE tail + 1 # Len(lh)
      BY <3>2, <2>1
    <3> QED BY <3>1, <3>2
  <2>6. \A i \in Uninstalled' : lh[i] # b
    <3>1. IsInjective(lh)
      BY DEF HeadInv
    <3> QED BY <3>1, <2>2, <2>4, <1>h DEF IsInjective
  <2>7. pin'[b] = 0 /\ \A c \in Block : c # b => pin'[c] = pin[c]
    BY <2>1, <2>2, <1>pin
  <2>8. ASSUME NEW c \in Block, c # b
        PROVE  (\E i \in Uninstalled' : lh'[i] = c) <=> (\E i \in Uninstalled : lh[i] = c)
    <3>1. ASSUME NEW i \in Uninstalled, lh[i] = c PROVE i \in Uninstalled'
      <4>1. i # tail + 1
        BY <2>8, <3>1
      <4> QED BY <4>1, <2>3, <2>4, <2>2, <1>h
    <3>2. Uninstalled' \subseteq Uninstalled
      BY <2>3, <2>4, <1>h
    <3> QED BY <3>1, <3>2, <2>5
  <2>9. ~\E i \in Uninstalled' : lh'[i] = b
    BY <2>5, <2>6
  <2> HIDE DEF b
  <2> QED BY <2>7, <2>8, <2>9 DEF PinInv
<1>9. CASE ClearHead \/ EndCommit \/ ReadHead \/ RecoverTrans \/ RecoverClear
  <2>1. pin' = pin /\ phase \in {"clear", "end"} \cup BootPhases
    BY <1>9 DEF ClearHead, EndCommit, ReadHead, RecoverTrans, RecoverClear, InstallBlock, Unpin, BootPhases
  <2>2. phase' \in {"clear", "end"} \cup BootPhases \/ (phase' = "idle" /\ Len(lh') = 0)
    BY <1>9, <1>h, Zenon DEF ClearHead, EndCommit, ReadHead, RecoverTrans, RecoverClear, InstallBlock, Unpin,
                After, BootPhases, HeadInv
  <2>3. Uninstalled = {}
    BY <2>1, UninstalledIs
  <2>4. Uninstalled' = {}
    BY <2>2 DEF Uninstalled, BootPhases
  <2> QED BY <2>1, <2>3, <2>4, PinSame DEF Pending
<1>10. CASE Crash
  <2>1. phase' = "read_head" /\ pin' = [b \in Block |-> 0]
    BY <1>10 DEF Crash
  <2>2. Uninstalled' = {}
    BY <2>1 DEF Uninstalled
  <2> QED BY <2>1, <2>2 DEF PinInv
<1>11. CASE BgetPanic
  BY <1>1, <1>11 DEF BgetPanic, memory
<1> QED
  BY BufferSteps, <1>11, <1>2, <1>3, <1>4, <1>5, <1>6, <1>7, <1>8, <1>9, <1>10 DEF Next, Commit, Recover

-----------------------------------------------------------------------------
(* Buffers and the copies on disk. *)

\* A block of the header that is not installed yet has a buffer.
LEMMA PendingCached ==
  ASSUME PinInv, CacheInv, NEW b \in Block, Pending(b)
  PROVE  pin[b] = 1 /\ cache[b] # NotCached /\ Contents(b) = cache[b]
<1>1. pin[b] = 1
  BY DEF PinInv, Pending
<1>2. cache[b] # NotCached
  BY <1>1 DEF CacheInv
<1> QED BY <1>1, <1>2 DEF Contents

\* What write_log() copies comes from a buffer that is already there.
LEMMA WriteLogCopies ==
  ASSUME TypeOK, HeadInv, PinInv, CacheInv, WriteLog
  PROVE  cache' = cache
<1>1. lh \in Seq(Block) /\ tail \in Nat /\ Len(lh) \in Nat /\ tail < Len(lh) /\ phase = "write_log"
  BY HeaderFacts DEF HeadInv, WriteLog
<1>2. tail + 1 \in 1 .. Len(lh) /\ lh[tail + 1] \in Block
  BY <1>1
<1>3. Pending(lh[tail + 1])
  BY <1>1, <1>2 DEF Pending, Uninstalled
<1>4. Contents(lh[tail + 1]) = cache[lh[tail + 1]]
  BY <1>2, <1>3, PendingCached
<1>5. cache' = cache \/ cache' = [cache EXCEPT ![lh[tail + 1]] = Contents(lh[tail + 1])]
  BY Zenon DEF WriteLog
<1> QED BY <1>4, <1>5 DEF TypeOK

\* A buffer without references agrees with the disk; bget() may recycle it.
LEMMA CacheStep ==
  ASSUME TypeOK, OpInv, HeadInv, PinInv, CacheInv, Next
  PROVE  CacheInv'
<1>h. lh \in Seq(Block) /\ Len(lh) \in Nat /\ tail \in Nat
  BY HeaderFacts
<1>t. disk \in [Block -> Value] /\ cache \in [Block -> Value \cup {NotCached}]
  BY DEF TypeOK
<1>pin. pin \in [Block -> Nat]
  BY DEF TypeOK
<1>dlog. dlog \in [1 .. LOGBLOCKS -> Value] /\ Len(lh) <= LOGBLOCKS
  BY DEF TypeOK
<1>1. ASSUME UNCHANGED <<disk, cache, pin>> PROVE CacheInv'
  BY <1>1 DEF CacheInv
<1>2. ASSUME NEW b \in Block, Bread(b) PROVE CacheInv'
  <2>1. UNCHANGED <<disk, pin>> /\ cache' = [cache EXCEPT ![b] = disk[b]]
    BY <1>2 DEF Bread
  <2>2. cache'[b] = disk[b] /\ disk[b] # NotCached /\ \A c \in Block : c # b => cache'[c] = cache[c]
    BY <2>1, <1>t, LogAssumption
  <2> QED BY <2>1, <2>2 DEF CacheInv
<1>3. ASSUME NEW b \in Block, Recycle(b) PROVE CacheInv'
  <2>1. UNCHANGED <<disk, pin>> /\ cache' = [cache EXCEPT ![b] = NotCached] /\ pin[b] = 0
    BY <1>3 DEF Recycle
  <2>2. cache'[b] = NotCached /\ \A c \in Block : c # b => cache'[c] = cache[c]
    BY <2>1, <1>t
  <2> QED BY <2>1, <2>2 DEF CacheInv
<1>4. ASSUME NEW p \in Proc, BeginOp(p) \/ EndOp(p) PROVE CacheInv'
  BY <1>1, <1>4 DEF BeginOp, EndOp
<1>5. ASSUME NEW p \in Proc, NEW b \in Block, NEW v \in Value, LogWrite(p, b, v)
      PROVE CacheInv'
  <2>1. phase = "idle" /\ UNCHANGED disk
    BY <1>5, OpMeansIdle DEF LogWrite
  <2>2. \/ UNCHANGED <<cache, pin>>
        \/ cache' = [cache EXCEPT ![b] = v] /\ b \in Range(lh) /\ pin' = pin
        \/ cache' = [cache EXCEPT ![b] = v] /\ pin' = [pin EXCEPT ![b] = pin[b] + 1]
    BY <1>5, Zenon DEF LogWrite
  <2>3. CASE cache' = [cache EXCEPT ![b] = v] /\ b \in Range(lh) /\ pin' = pin
    <3>1. \E i \in 1 .. Len(lh) : lh[i] = b
      BY <2>3, <1>h, InRange
    <3>2. pin'[b] = 1
      BY <3>1, <2>1, <2>3 DEF PinInv, Uninstalled
    <3>3. cache'[b] # NotCached /\ \A c \in Block : c # b => cache'[c] = cache[c]
      BY <2>3, <1>t, LogAssumption
    <3> QED BY <3>2, <3>3, <2>1, <2>3 DEF CacheInv
  <2>4. CASE cache' = [cache EXCEPT ![b] = v] /\ pin' = [pin EXCEPT ![b] = pin[b] + 1]
    <3>1. pin'[b] # 0 /\ \A c \in Block : c # b => pin'[c] = pin[c]
      BY <2>4, <1>pin
    <3>2. cache'[b] # NotCached /\ \A c \in Block : c # b => cache'[c] = cache[c]
      BY <2>4, <1>t, LogAssumption
    <3> QED BY <3>1, <3>2, <2>1 DEF CacheInv
  <2> QED BY <2>1, <2>2, <2>3, <2>4, <1>1
<1>6. CASE WriteLog
  <2>1. cache' = cache /\ UNCHANGED <<disk, pin>>
    BY <1>6, WriteLogCopies DEF WriteLog
  <2> QED BY <2>1, <1>1
<1>7. CASE WriteHead \/ ClearHead \/ EndCommit \/ ReadHead \/ RecoverClear
  BY <1>1, <1>7 DEF WriteHead, ClearHead, EndCommit, ReadHead, RecoverClear
<1>8. CASE InstallTrans \/ RecoverTrans
  <2> DEFINE b == lh[tail + 1]
  <2>1. tail < Len(lh)
    BY <1>8, Zenon DEF InstallTrans, RecoverTrans, HeadInv
  <2>i. tail + 1 \in 1 .. Len(lh) /\ tail + 1 \in 1 .. LOGBLOCKS
    BY <2>1, <1>h, <1>dlog, LogAssumption
  <2>2. b \in Block /\ dlog[tail + 1] \in Value
    BY <2>i, <1>h, <1>dlog
  <2>3. disk' = [disk EXCEPT ![b] = dlog[tail + 1]] /\ cache' = [cache EXCEPT ![b] = dlog[tail + 1]]
    BY <1>8, Zenon DEF InstallTrans, RecoverTrans, InstallBlock, Unpin
  <2>4. pin' = pin \/ pin' = [pin EXCEPT ![b] = pin[b] - 1]
    BY <1>8, Zenon DEF InstallTrans, RecoverTrans, InstallBlock, Unpin
  <2>5. \A c \in Block : c # b => pin'[c] = pin[c]
    BY <2>4, <1>pin
  <2>6. \A c \in Block : c # b => cache'[c] = cache[c] /\ disk'[c] = disk[c]
    BY <2>3, <1>t
  <2>7. cache'[b] = disk'[b] /\ cache'[b] # NotCached
    BY <2>2, <2>3, <1>t, LogAssumption
  <2> HIDE DEF b
  <2> QED BY <2>5, <2>6, <2>7 DEF CacheInv
<1>9. CASE Crash
  <2>1. cache' = [c \in Block |-> NotCached] /\ pin' = [c \in Block |-> 0]
    BY <1>9 DEF Crash
  <2> QED BY <2>1 DEF CacheInv
<1>11. CASE BgetPanic
  BY <1>1, <1>11 DEF BgetPanic, memory
<1> QED
  BY BufferSteps, <1>11, <1>2, <1>3, <1>4, <1>5, <1>6, <1>7, <1>8, <1>9 DEF Next, Commit, Recover

\* The three conjuncts of DataInv that speak of a running copy loop, each with
\* the range of header entries it covers.
LEMMA DataStep ==
  ASSUME TypeOK, TypeOK', OpInv, HeadInv, HeadInv', PinInv, CacheInv, DataInv, Next
  PROVE  DataInv'
<1>h. /\ lh \in Seq(Block) /\ Len(lh) \in Nat /\ DOMAIN lh = 1 .. Len(lh) /\ Len(lh) <= LOGBLOCKS
      /\ tail \in Nat /\ Len(<< >>) = 0
  BY HeaderFacts DEF TypeOK
<1>el. \A i \in 1 .. Len(lh) : lh[i] \in Block
  BY <1>h
<1>disk. disk \in [Block -> Value]
  BY DEF TypeOK
<1>cache. cache \in [Block -> Value \cup {NotCached}]
  BY DEF TypeOK
<1>dlog. dlog \in [1 .. LOGBLOCKS -> Value]
  BY DEF TypeOK
<1>0. ASSUME phase' \in {"idle", "end", "read_head"} PROVE DataInv'
  BY <1>0 DEF DataInv
<1>tl. phase = "write_log" => tail < Len(lh)
  BY DEF HeadInv
<1>1. ASSUME UNCHANGED <<disk, dlog, dhead, lh, phase, tail>>,
             \A b \in Block : Contents(b)' = Contents(b),
             phase = "install" => \A i \in tail + 1 .. Len(lh) : cache'[lh[i]] = cache[lh[i]]
      PROVE  DataInv'
  <2>1. phase = "write_log" => \A i \in 1 .. tail : lh[i] \in Block
    BY <1>el, <1>tl, <1>h
  <2>2. phase = "write_log" => \A i \in 1 .. tail : dlog'[i] = Contents(lh[i])'
    BY <1>1, <2>1 DEF DataInv
  <2>3. phase = "write_head" => \A i \in 1 .. Len(lh) : dlog'[i] = Contents(lh[i])'
    BY <1>1, <1>el DEF DataInv
  <2>4. phase = "install" => \A i \in tail + 1 .. Len(lh) : cache'[lh[i]] = dlog'[i]
    BY <1>1 DEF DataInv
  <2> QED BY <1>1, <2>2, <2>3, <2>4 DEF DataInv
<1>2. ASSUME NEW b \in Block, Bread(b) \/ Recycle(b) PROVE DataInv'
  <2>1. UNCHANGED <<disk, dlog, dhead, lh, phase, tail>>
    BY <1>2 DEF Bread, Recycle
  <2>2. \/ cache[b] = NotCached /\ cache' = [cache EXCEPT ![b] = disk[b]]
        \/ pin[b] = 0 /\ cache[b] # NotCached /\ cache' = [cache EXCEPT ![b] = NotCached]
    BY <1>2 DEF Bread, Recycle
  <2>3. pin[b] = 0 => cache[b] \in {NotCached, disk[b]}
    BY DEF CacheInv
  <2>4. ASSUME NEW c \in Block PROVE Contents(c)' = Contents(c)
    BY <2>1, <2>2, <2>3, <1>cache, <1>disk, LogAssumption DEF Contents
  <2>5. phase = "install" => \A i \in tail + 1 .. Len(lh) : cache'[lh[i]] = cache[lh[i]]
    <3>1. SUFFICES ASSUME phase = "install", NEW i \in tail + 1 .. Len(lh)
                   PROVE  cache'[lh[i]] = cache[lh[i]]
      OBVIOUS
    <3>2. i \in 1 .. Len(lh) /\ lh[i] \in Block
      BY <1>h, <1>el
    <3>3. Pending(lh[i])
      BY <3>1 DEF Pending, Uninstalled
    <3>4. lh[i] # b
      BY <3>2, <3>3, <2>2, PendingCached
    <3> QED BY <3>2, <3>4, <2>2, <1>cache
  <2> QED BY <1>1, <2>1, <2>4, <2>5
<1>3. ASSUME NEW p \in Proc, BeginOp(p) PROVE DataInv'
  <2>1. UNCHANGED <<disk, dlog, dhead, lh, phase, tail, cache>>
    BY <1>3 DEF BeginOp
  <2> QED BY <2>1 DEF DataInv, Contents
<1>4. ASSUME NEW p \in Proc, EndOp(p) PROVE DataInv'
  <2>1. phase = "idle"
    BY <1>4, OpMeansIdle DEF EndOp
  <2>2. phase' = phase \/ (tail' = 0 /\ phase' = IF Len(lh) > 0 THEN "write_log" ELSE "end")
    BY <1>4, Zenon DEF EndOp
  <2>3. CASE phase' = "write_log"
    <3>1. tail' = 0
      BY <2>1, <2>2, <2>3
    <3> QED BY <2>3, <3>1 DEF DataInv
  <2> QED BY <2>1, <2>2, <2>3, <1>0
<1>5. ASSUME NEW p \in Proc, NEW b \in Block, NEW v \in Value, LogWrite(p, b, v)
      PROVE DataInv'
  <2>1. phase' = "idle"
    BY <1>5, OpMeansIdle DEF LogWrite
  <2> QED BY <2>1, <1>0
<1>6. CASE WriteLog
  <2>1. cache' = cache /\ UNCHANGED <<disk, dhead, lh>> /\ phase = "write_log"
    BY <1>6, WriteLogCopies DEF WriteLog
  <2>2. \A b : Contents(b)' = Contents(b)
    BY <2>1 DEF Contents
  <2>3. \/ UNCHANGED <<dlog, phase, tail>>
        \/ /\ dlog' = [dlog EXCEPT ![tail + 1] = Contents(lh[tail + 1])]
           /\ tail' = tail + 1
           /\ phase' = IF tail + 1 = Len(lh) THEN "write_head" ELSE "write_log"
    BY <1>6, Zenon DEF WriteLog, After
  <2>4. CASE UNCHANGED <<dlog, phase, tail>>
    BY <2>1, <2>2, <2>4, <1>1
  <2>5. CASE /\ dlog' = [dlog EXCEPT ![tail + 1] = Contents(lh[tail + 1])]
             /\ tail' = tail + 1
             /\ phase' = IF tail + 1 = Len(lh) THEN "write_head" ELSE "write_log"
    <3>t. tail < Len(lh) /\ \A i \in 1 .. tail : dlog[i] = Contents(lh[i])
      BY <2>1, <1>tl DEF DataInv
    <3>1. tail + 1 \in 1 .. LOGBLOCKS
      BY <3>t, <1>h, LogAssumption
    <3>i. \A i \in 1 .. tail : i \in 1 .. LOGBLOCKS /\ i # tail + 1
      BY <3>1, <1>h, LogAssumption
    <3>2. \A i \in 1 .. tail : i \in 1 .. LOGBLOCKS /\ i # tail + 1 /\ dlog[i] = Contents(lh[i])
      BY <3>t, <3>i
    <3>3. dlog'[tail + 1] = Contents(lh[tail + 1]) /\ \A i \in 1 .. tail : dlog'[i] = dlog[i]
      BY <2>5, <3>1, <3>2, <1>dlog
    <3>4. \A i \in 1 .. tail + 1 : dlog'[i] = Contents(lh[i])
      <4>1. \A i \in 1 .. tail + 1 : i = tail + 1 \/ i \in 1 .. tail
        BY <1>h
      <4> QED BY <3>2, <3>3, <4>1
    <3>e. tail' = tail + 1 /\ phase' = IF tail + 1 = Len(lh) THEN "write_head" ELSE "write_log"
      BY <2>5, Zenon
    <3>5. \A i \in 1 .. tail' : dlog'[i] = Contents(lh[i])'
      <4>1. \A i \in 1 .. tail' : dlog'[i] = Contents(lh[i])
        BY <3>4, <3>e
      <4>2. \A i : Contents(lh[i])' = Contents(lh[i])
        BY <2>1 DEF Contents
      <4> QED BY <4>1, <4>2, Zenon
    <3>6. phase' = "write_head" => Len(lh') = tail'
      BY <2>1, <3>e
    <3>7. phase' \in {"write_log", "write_head"}
      BY <3>e
    <3> QED BY <3>5, <3>6, <3>7 DEF DataInv
  <2> QED BY <2>3, <2>4, <2>5
<1>7. CASE WriteHead
  <2>1. /\ phase = "write_head" /\ phase' = "install" /\ tail' = 0
        /\ UNCHANGED <<lh, cache, dlog, disk>>
    BY <1>7 DEF WriteHead
  <2>2. ASSUME NEW i \in 1 .. Len(lh) PROVE cache[lh[i]] = dlog[i]
    <3>1. Pending(lh[i]) /\ lh[i] \in Block
      BY <2>1, <1>el DEF Pending, Uninstalled
    <3>2. dlog[i] = Contents(lh[i])
      BY <2>1 DEF DataInv
    <3> QED BY <3>1, <3>2, PendingCached
  <2>3. \A i \in tail' + 1 .. Len(lh') : cache'[lh'[i]] = dlog'[i]
    BY <2>1, <2>2
  <2>4. \A i \in 1 .. tail' : disk'[lh'[i]] = dlog'[i]
    BY <2>1
  <2> QED BY <2>1, <2>3, <2>4 DEF DataInv
<1>8. CASE InstallTrans \/ RecoverTrans
  <2> DEFINE b == lh[tail + 1]
  <2>1. phase \in {"install", "recover"} /\ tail < Len(lh) /\ dhead = lh /\ IsInjective(lh)
    BY <1>8, Zenon DEF InstallTrans, RecoverTrans, HeadInv
  <2>i. tail + 1 \in 1 .. Len(lh) /\ b \in Block
    BY <2>1, <1>h
  <2>2. disk' = [disk EXCEPT ![b] = dlog[tail + 1]] /\ cache' = [cache EXCEPT ![b] = dlog[tail + 1]]
    BY <1>8, Zenon DEF InstallTrans, RecoverTrans, InstallBlock, Unpin
  <2>3. tail' = tail + 1 /\ UNCHANGED <<dlog, dhead>>
    BY <1>8 DEF InstallTrans, RecoverTrans, InstallBlock, Unpin
  <2>4. \A i \in 1 .. Len(lh) : i # tail + 1 => lh[i] # b
    BY <2>1, <2>i, <1>h DEF IsInjective
  <2>5. disk'[b] = dlog[tail + 1]
    BY <2>2, <2>i, <1>disk
  <2>6. \A i \in 1 .. Len(lh) : i # tail + 1 => disk'[lh[i]] = disk[lh[i]] /\ cache'[lh[i]] = cache[lh[i]]
    BY <2>2, <2>4, <1>el, <1>disk, <1>cache
  <2>7. \A i \in 1 .. tail : disk[lh[i]] = dlog[i]
    BY <2>1 DEF DataInv
  <2>8. \A i \in 1 .. tail + 1 : disk'[lh[i]] = dlog[i]
    <3>1. \A i \in 1 .. tail + 1 : i = tail + 1 \/ (i \in 1 .. tail /\ i \in 1 .. Len(lh) /\ i # tail + 1)
      BY <2>1, <1>h
    <3> QED BY <3>1, <2>5, <2>6, <2>7
  <2>9. CASE tail + 1 = Len(lh)
    <3>1. phase' \in {"clear", "recover_clear"}
      BY <2>9, <1>8 DEF InstallTrans, RecoverTrans, InstallBlock, Unpin, After
    <3>2. \A i \in 1 .. Len(dhead') : disk'[dhead'[i]] = dlog'[i]
      BY <2>1, <2>3, <2>8, <2>9
    <3> QED BY <3>1, <3>2 DEF DataInv
  <2>10. CASE tail + 1 # Len(lh)
    <3>1. lh' = lh /\ phase' = phase
      BY <2>10, <1>8 DEF InstallTrans, RecoverTrans, InstallBlock, Unpin, After
    <3>2. \A i \in 1 .. tail' : disk'[lh'[i]] = dlog'[i]
      BY <2>3, <2>8, <3>1
    <3>3. phase' = "install" => \A i \in tail' + 1 .. Len(lh') : cache'[lh'[i]] = dlog'[i]
      <4>1. SUFFICES ASSUME phase = "install", NEW i \in tail' + 1 .. Len(lh)
                     PROVE  cache'[lh[i]] = dlog[i]
        BY <2>3, <3>1
      <4>2. i \in tail + 1 .. Len(lh) /\ i # tail + 1 /\ i \in 1 .. Len(lh)
        BY <2>3, <1>h
      <4>3. cache[lh[i]] = dlog[i]
        BY <4>1, <4>2 DEF DataInv
      <4> QED BY <4>2, <4>3, <2>6
    <3>4. phase' \in {"install", "recover"}
      BY <3>1, <2>1
    <3> QED BY <3>2, <3>3, <3>4 DEF DataInv
  <2> QED BY <2>9, <2>10
<1>9. CASE ClearHead \/ EndCommit \/ RecoverClear \/ Crash
  BY <1>0, <1>9 DEF ClearHead, EndCommit, RecoverClear, Crash
<1>10. CASE ReadHead
  <2>1. tail' = 0 /\ dhead' = dhead /\ phase' = IF Len(dhead) > 0 THEN "recover" ELSE "recover_clear"
    BY <1>10 DEF ReadHead
  <2>2. Len(dhead) \in Nat
    BY HeaderFacts
  <2>3. CASE Len(dhead) > 0
    BY <2>1, <2>3 DEF DataInv
  <2>4. CASE Len(dhead) = 0
    <3>1. phase' = "recover_clear" /\ Len(dhead') = 0
      BY <2>1, <2>4
    <3> QED BY <3>1 DEF DataInv
  <2> QED BY <2>2, <2>3, <2>4
<1>11. CASE BgetPanic
  <2>1. UNCHANGED <<disk, dlog, dhead, lh, phase, tail, cache>>
    BY <1>11 DEF BgetPanic, memory
  <2> QED BY <2>1 DEF DataInv, Contents
<1> QED
  BY BufferSteps, <1>11, <1>2, <1>3, <1>4, <1>5, <1>6, <1>7, <1>8, <1>9, <1>10 DEF Next, Commit, Recover

-----------------------------------------------------------------------------
(* The inductive invariant. *)

IndInv == TypeOK /\ LogInv

-----------------------------------------------------------------------------
(* What each step does to the store of TxnStore. *)

\* With an empty header on disk recovery changes nothing.
LEMMA EmptyHeadDurable ==
  ASSUME TypeOK, dhead = << >>
  PROVE  Durable = disk
<1>1. ~\E i \in 1 .. Len(dhead) : TRUE
  OBVIOUS
<1>2. Durable = [b \in Block |-> disk[b]]
  BY <1>1 DEF Durable
<1> QED BY <1>2 DEF TypeOK

\* A header names each block once, so recovery finds one log block for it.
LEMMA EntryUnique ==
  ASSUME NEW h \in Seq(Block), IsInjective(h), NEW i \in 1 .. Len(h)
  PROVE  /\ h[i] \in Block
         /\ \E k \in 1 .. Len(h) : h[k] = h[i]
         /\ (CHOOSE k \in 1 .. Len(h) : h[k] = h[i]) = i
<1> DEFINE j == CHOOSE k \in 1 .. Len(h) : h[k] = h[i]
<1>1. h[i] \in Block /\ \E k \in 1 .. Len(h) : h[k] = h[i]
  OBVIOUS
<1>2. j \in 1 .. Len(h) /\ h[j] = h[i]
  BY <1>1
<1>3. DOMAIN h = 1 .. Len(h)
  OBVIOUS
<1>4. j = i
  BY <1>2, <1>3 DEF IsInjective
<1> QED BY <1>1, <1>4

\* Steps that neither change what is durable, nor what readers see, nor which
\* operations are in progress.
Stutter == UNCHANGED <<Durable, View, InOp>>

\* What readers see, during recovery and after it.
LEMMA ViewIs ==
  /\ phase \in BootPhases => View = Durable
  /\ phase \notin BootPhases => View = [b \in Block |-> Contents(b)]
BY DEF View

\* bread() and bget() change no contents.
LEMMA BufferStutter ==
  ASSUME TypeOK, CacheInv, NEW b \in Block, Bread(b) \/ Recycle(b)
  PROVE  Stutter
<1>t. cache \in [Block -> Value \cup {NotCached}] /\ disk \in [Block -> Value]
  BY DEF TypeOK
<1>1. UNCHANGED <<disk, dlog, dhead, phase, pc>>
  BY DEF Bread, Recycle
<1>2. \/ cache[b] = NotCached /\ cache' = [cache EXCEPT ![b] = disk[b]]
      \/ pin[b] = 0 /\ cache[b] # NotCached /\ cache' = [cache EXCEPT ![b] = NotCached]
  BY DEF Bread, Recycle
<1>3. ASSUME NEW c \in Block PROVE Contents(c)' = Contents(c)
  <2>1. pin[b] = 0 => cache[b] \in {NotCached, disk[b]}
    BY DEF CacheInv
  <2> QED BY <1>1, <1>2, <2>1, <1>t, LogAssumption DEF Contents
<1>4. Durable' = Durable /\ InOp' = InOp
  BY <1>1 DEF Durable, InOp
<1>5. View' = View
  BY <1>1, <1>3, <1>4 DEF View
<1> QED BY <1>4, <1>5 DEF Stutter

\* write_head() commits: exactly what readers see becomes durable.
LEMMA WriteHeadCommits ==
  ASSUME TypeOK, PinInv, CacheInv, HeadInv, DataInv, WriteHead
  PROVE  Durable' = View /\ View' = View
<1>1. /\ phase = "write_head" /\ phase' = "install" /\ dhead' = lh
      /\ UNCHANGED <<disk, dlog, cache>>
  BY DEF WriteHead
<1>2. View = [b \in Block |-> Contents(b)] /\ View' = [b \in Block |-> Contents(b)']
  BY <1>1 DEF View, BootPhases
<1>3. View' = View
  BY <1>1, <1>2 DEF Contents
<1>4. ASSUME NEW b \in Block PROVE Durable'[b] = Contents(b)
  <2>1. CASE \E i \in 1 .. Len(lh) : lh[i] = b
    <3>1. PICK i \in 1 .. Len(lh) : lh[i] = b
      BY <2>1
    <3>2. Durable'[b] = dlog'[i]
      <4>1. lh \in Seq(Block) /\ IsInjective(lh)
        BY HeaderFacts DEF HeadInv
      <4>2. (CHOOSE k \in 1 .. Len(lh) : lh[k] = b) = i
        BY <3>1, <4>1, EntryUnique
      <4> QED BY <2>1, <4>2, <1>1, Zenon DEF Durable
    <3>3. dlog[i] = Contents(lh[i])
      BY <1>1 DEF DataInv
    <3> QED BY <3>1, <3>2, <3>3, <1>1
  <2>2. CASE ~\E i \in 1 .. Len(lh) : lh[i] = b
    <3>1. Durable'[b] = disk[b]
      BY <2>2, <1>1 DEF Durable
    <3>2. pin[b] = 0
      BY <2>2, <1>1 DEF PinInv, Uninstalled
    <3> QED BY <3>1, <3>2 DEF CacheInv, Contents
  <2> QED BY <2>1, <2>2
<1>5. Durable' = [b \in Block |-> Durable'[b]]
  BY DEF Durable
<1> QED BY <1>2, <1>3, <1>4, <1>5

\* Copying a committed block home changes neither what is durable nor, because
\* its buffer already has the same contents, what readers see.
LEMMA InstallStutter ==
  ASSUME TypeOK, CacheInv, HeadInv, DataInv, InstallTrans \/ RecoverTrans
  PROVE  Durable' = Durable /\ View' = View
<1>h. lh \in Seq(Block) /\ Len(lh) \in Nat /\ tail \in Nat
  BY HeaderFacts
<1>t. disk \in [Block -> Value] /\ cache \in [Block -> Value \cup {NotCached}]
  BY DEF TypeOK
<1>d. dlog \in [1 .. LOGBLOCKS -> Value] /\ Len(lh) <= LOGBLOCKS
  BY DEF TypeOK
<1>1. phase \in {"install", "recover"} /\ UNCHANGED <<dlog, dhead>>
  BY Zenon DEF InstallTrans, RecoverTrans
<1>2. dhead = lh /\ tail < Len(lh)
  BY <1>1 DEF HeadInv
<1> DEFINE b == lh[tail + 1]
<1>i. tail + 1 \in 1 .. Len(lh) /\ b \in Block /\ tail + 1 \in 1 .. LOGBLOCKS
  BY <1>2, <1>h, <1>d, LogAssumption
<1>v. dlog[tail + 1] # NotCached
  BY <1>i, <1>d, LogAssumption
<1>3. disk' = [disk EXCEPT ![b] = dlog[tail + 1]] /\ cache' = [cache EXCEPT ![b] = dlog[tail + 1]]
  BY Zenon DEF InstallTrans, RecoverTrans, InstallBlock, Unpin
<1>4. \A c \in Block : c # b => disk'[c] = disk[c] /\ cache'[c] = cache[c]
  BY <1>3, <1>t
<1>5. cache'[b] = dlog[tail + 1]
  BY <1>3, <1>i, <1>t
<1>6. \E i \in 1 .. Len(dhead) : dhead[i] = b
  BY <1>2, <1>i
<1>7. Durable' = Durable
  BY <1>1, <1>4, <1>6 DEF Durable
<1>8. CASE phase = "install"
  <2>1. phase' \notin BootPhases /\ phase \notin BootPhases
    BY <1>8 DEF InstallTrans, RecoverTrans, InstallBlock, Unpin, After, BootPhases
  <2>2. cache[b] = dlog[tail + 1]
    <3>1. tail + 1 \in tail + 1 .. Len(lh)
      BY <1>i, <1>h
    <3> QED BY <3>1, <1>8 DEF DataInv
  <2>3. ASSUME NEW c \in Block PROVE Contents(c)' = Contents(c)
    <3>1. CASE c = b
      BY <3>1, <2>2, <1>5, <1>v DEF Contents
    <3>2. CASE c # b
      BY <3>2, <1>4 DEF Contents
    <3> QED BY <3>1, <3>2
  <2> QED BY <1>7, <2>1, <2>3 DEF View
<1>9. CASE phase = "recover"
  <2>1. phase' \in BootPhases /\ phase \in BootPhases
    BY <1>9 DEF InstallTrans, RecoverTrans, InstallBlock, Unpin, After, BootPhases
  <2> QED BY <1>7, <2>1 DEF View
<1> QED BY <1>1, <1>8, <1>9

\* Erasing the header after the copies: the home blocks already hold them.
LEMMA ClearStutter ==
  ASSUME TypeOK, OpInv, PinInv, CacheInv, HeadInv, DataInv, ClearHead \/ RecoverClear
  PROVE  Durable' = Durable /\ View' = View
<1>1. /\ phase \in {"clear", "recover_clear"} /\ dhead' = lh
      /\ UNCHANGED <<disk, dlog, cache>>
  BY DEF ClearHead, RecoverClear
<1>2. lh = << >>
  BY <1>1 DEF HeadInv
<1>3. ASSUME NEW b \in Block PROVE Durable[b] = disk[b]
  <2>1. CASE \E i \in 1 .. Len(dhead) : dhead[i] = b
    <3>1. PICK i \in 1 .. Len(dhead) : dhead[i] = b
      BY <2>1
    <3>2. dhead \in Seq(Block) /\ IsInjective(dhead)
      BY HeaderFacts DEF HeadInv
    <3>3. (CHOOSE k \in 1 .. Len(dhead) : dhead[k] = b) = i
      BY <3>1, <3>2, EntryUnique
    <3>4. Durable[b] = dlog[i]
      BY <2>1, <3>3, Zenon DEF Durable
    <3> QED BY <3>1, <3>4, <1>1 DEF DataInv
  <2>2. CASE ~\E i \in 1 .. Len(dhead) : dhead[i] = b
    BY <2>2 DEF Durable
  <2> QED BY <2>1, <2>2
<1>4. ASSUME NEW b \in Block PROVE Durable'[b] = disk[b]
  BY <1>1, <1>2 DEF Durable
<1>5. Durable' = [b \in Block |-> Durable'[b]] /\ Durable = [b \in Block |-> Durable[b]]
  BY DEF Durable
<1>6. Durable' = Durable
  BY <1>3, <1>4, <1>5
<1>7. CASE ClearHead
  <2>1. phase' \notin BootPhases /\ phase \notin BootPhases
    BY <1>7 DEF ClearHead, BootPhases
  <2> QED BY <2>1, <1>1, <1>6 DEF View, Contents
<1>8. CASE RecoverClear
  <2>1. phase' \notin BootPhases /\ phase \in BootPhases
    BY <1>8 DEF RecoverClear, BootPhases
  <2>2. \A b \in Block : pin[b] = 0
    BY <1>2, <1>1 DEF PinInv, Uninstalled
  <2>3. ASSUME NEW b \in Block PROVE Contents(b)' = disk[b]
    BY <2>2, <1>1 DEF CacheInv, Contents
  <2>4. View' = [b \in Block |-> disk[b]]
    BY <2>1, <2>3 DEF View
  <2>5. View = Durable
    BY <2>1 DEF View
  <2> QED BY <2>4, <2>5, <1>3, <1>5, <1>6
<1> QED BY <1>7, <1>8

\* log_write() is a write that readers see at once and that is not durable.
LEMMA LogWriteView ==
  ASSUME TypeOK, OpInv, NEW p \in Proc, NEW b \in Block, NEW v \in Value, LogWrite(p, b, v)
  PROVE  /\ Durable' = Durable /\ InOp' = InOp /\ p \in InOp
         /\ View' = View \/ View' = [View EXCEPT ![b] = v]
<1>1. pc[p] = "op" /\ UNCHANGED <<disk, dlog, dhead, phase, pc>>
  BY DEF LogWrite
<1>2. phase \notin BootPhases
  BY <1>1, OpMeansIdle DEF BootPhases
<1>3. cache' = cache \/ cache' = [cache EXCEPT ![b] = v]
  BY Zenon DEF LogWrite
<1>4. cache \in [Block -> Value \cup {NotCached}] /\ v # NotCached
  BY LogAssumption DEF TypeOK
<1>5. View = [c \in Block |-> Contents(c)] /\ View' = [c \in Block |-> Contents(c)']
  BY <1>1, <1>2 DEF View
<1>6. CASE cache' = cache
  BY <1>1, <1>5, <1>6 DEF Contents, Durable, InOp
<1>7. CASE cache' = [cache EXCEPT ![b] = v]
  <2>1. Contents(b)' = v
    BY <1>7, <1>4 DEF Contents
  <2>2. ASSUME NEW c \in Block, c # b PROVE Contents(c)' = Contents(c)
    BY <1>1, <1>7, <2>2, <1>4 DEF Contents
  <2>3. View' = [View EXCEPT ![b] = v]
    BY <2>1, <2>2, <1>5
  <2> QED BY <1>1, <2>3 DEF Durable, InOp
<1> QED BY <1>3, <1>6, <1>7

\* Every step of log.c is a step of the store, or one that the store does not see.
LEMMA StoreStep == IndInv /\ [Next]_vars => [Store!Next]_(Store!storeVars)
<1> SUFFICES ASSUME IndInv, [Next]_vars
             PROVE  [Store!Next]_(Store!storeVars)
  OBVIOUS
<1>i. TypeOK /\ OpInv /\ PinInv /\ CacheInv /\ HeadInv /\ DataInv
  BY DEF IndInv, LogInv
<1>a. InOp = {p \in Proc : pc[p] = "op"} /\ InOp' = {p \in Proc : pc'[p] = "op"}
  BY DEF InOp
<1>s. ASSUME Stutter PROVE [Store!Next]_(Store!storeVars)
  BY <1>s, <1>a DEF Store!storeVars, Stutter
<1>pc. pc \in [Proc -> PcSet]
  BY <1>i DEF TypeOK, PcSet
<1>1. ASSUME NEW b \in Block, Bread(b) \/ Recycle(b) PROVE [Store!Next]_(Store!storeVars)
  BY <1>1, <1>i, <1>s, BufferStutter
<1>2. ASSUME NEW p \in Proc, BeginOp(p) PROVE [Store!Next]_(Store!storeVars)
  <2>1. UNCHANGED <<disk, dlog, dhead, cache, phase>> /\ pc[p] # "op"
    BY <1>2 DEF BeginOp
  <2>2. Durable' = Durable /\ View' = View
    BY <2>1 DEF Durable, View, Contents
  <2>3. pc' = [pc EXCEPT ![p] = "sleeping"] \/ pc' = [pc EXCEPT ![p] = "op"]
    BY <1>2, Zenon DEF BeginOp
  <2>4. InOp' = InOp \/ (p \notin InOp /\ InOp' = InOp \cup {p})
    BY <2>1, <2>3, <1>pc DEF InOp
  <2>5. CASE InOp' = InOp
    BY <2>2, <2>5, <1>s DEF Stutter
  <2>6. CASE p \notin InOp /\ InOp' = InOp \cup {p}
    <3>1. Store!Begin(p)
      BY <2>2, <2>6, <1>a DEF Store!Begin
    <3> QED BY <3>1 DEF Store!Next
  <2> QED BY <2>4, <2>5, <2>6
<1>3. ASSUME NEW p \in Proc, EndOp(p) PROVE [Store!Next]_(Store!storeVars)
  <2>1. pc[p] = "op" /\ UNCHANGED <<disk, dlog, dhead, cache>>
    BY <1>3 DEF EndOp
  <2>2. phase = "idle"
    BY <2>1, <1>i, OpMeansIdle
  <2>3. phase' \in {"idle", "write_log", "end"}
    BY <1>3, <2>2 DEF EndOp
  <2>4. Durable' = Durable /\ View' = View
    BY <2>1, <2>2, <2>3 DEF Durable, View, Contents, BootPhases
  <2>c. ~committing
    <3>1. phase \notin CommitPhases
      BY <2>2 DEF CommitPhases
    <3> QED BY <3>1, <1>i, Zenon DEF OpInv
  <2>5. pc' = [pc EXCEPT ![p] = "commit"] \/ pc' = WakeLog([pc EXCEPT ![p] = "user"])
    BY <1>3, <2>c, Zenon DEF EndOp
  <2>6. p \in InOp /\ InOp' = InOp \ {p}
    BY <2>1, <2>5, <1>pc DEF InOp, WakeLog
  <2>7. Store!End(p)
    BY <2>4, <2>6, <1>a DEF Store!End
  <2> QED BY <2>7 DEF Store!Next
<1>4. ASSUME NEW p \in Proc, NEW b \in Block, NEW v \in Value, LogWrite(p, b, v)
      PROVE  [Store!Next]_(Store!storeVars)
  <2>1. /\ Durable' = Durable /\ InOp' = InOp /\ p \in InOp
        /\ View' = View \/ View' = [View EXCEPT ![b] = v]
    BY <1>4, <1>i, LogWriteView
  <2>2. CASE View' = View
    BY <2>1, <2>2, <1>s DEF Stutter
  <2>3. CASE View' = [View EXCEPT ![b] = v]
    <3>1. Store!Write(p, b, v)
      BY <2>1, <2>3, <1>a DEF Store!Write
    <3> QED BY <3>1 DEF Store!Next
  <2> QED BY <2>1, <2>2, <2>3
<1>5. CASE WriteLog
  <2>1. cache' = cache /\ UNCHANGED <<disk, dhead, pc>> /\ phase = "write_log"
    BY <1>5, <1>i, WriteLogCopies DEF WriteLog
  <2>2. phase' \in {"write_log", "write_head"}
    BY <1>5 DEF WriteLog, After
  <2>3. dhead = << >>
    BY <2>1, <1>i DEF HeadInv
  <2>4. Durable' = Durable
    BY <2>1, <2>3 DEF Durable
  <2>5. View' = View /\ InOp' = InOp
    BY <2>1, <2>2 DEF View, Contents, BootPhases, InOp
  <2> QED BY <2>4, <2>5, <1>s DEF Stutter
<1>6. CASE WriteHead
  <2>1. Durable' = View /\ View' = View
    BY <1>6, <1>i, WriteHeadCommits
  <2>2. phase # "idle" /\ pc' = pc
    BY <1>6 DEF WriteHead
  <2>3. InOp = {} /\ InOp' = {}
    BY <2>2, <1>i DEF OpInv, InOp
  <2>4. Store!Commit
    BY <2>1, <2>3, <1>a DEF Store!Commit
  <2> QED BY <2>4 DEF Store!Next
<1>7. CASE InstallTrans \/ RecoverTrans
  <2>1. Durable' = Durable /\ View' = View
    BY <1>7, <1>i, InstallStutter
  <2>2. InOp' = InOp
    BY <1>7, Zenon DEF InstallTrans, RecoverTrans, InOp
  <2> QED BY <2>1, <2>2, <1>s DEF Stutter
<1>8. CASE ClearHead \/ RecoverClear
  <2>1. Durable' = Durable /\ View' = View
    BY <1>8, <1>i, ClearStutter
  <2>2. InOp' = InOp
    BY <1>8 DEF ClearHead, RecoverClear, InOp
  <2> QED BY <2>1, <2>2, <1>s DEF Stutter
<1>9. CASE EndCommit
  <2>1. UNCHANGED <<disk, dlog, dhead, cache>> /\ phase = "end" /\ phase' = "idle"
    BY <1>9 DEF EndCommit
  <2>2. Durable' = Durable /\ View' = View
    BY <2>1 DEF Durable, View, Contents, BootPhases
  <2>3. InOp' = InOp
    BY <1>9, <1>pc DEF EndCommit, WakeLog, InOp
  <2> QED BY <2>2, <2>3, <1>s DEF Stutter
<1>10. CASE Crash
  <2>1. UNCHANGED <<disk, dlog, dhead>> /\ phase' = "read_head" /\ pc' = [p \in Proc |-> "user"]
    BY <1>10 DEF Crash
  <2>2. Durable' = Durable
    BY <2>1 DEF Durable
  <2>3. View' = Durable
    BY <2>1, <2>2 DEF View, BootPhases
  <2>4. InOp' = {}
    BY <2>1 DEF InOp
  <2>5. Store!Crash
    BY <2>2, <2>3, <2>4, <1>a DEF Store!Crash
  <2> QED BY <2>5 DEF Store!Next
<1>11. CASE ReadHead
  <2>1. UNCHANGED <<disk, dlog, dhead, pc>> /\ phase \in BootPhases /\ phase' \in BootPhases
    BY <1>11 DEF ReadHead, BootPhases
  <2>2. Durable' = Durable /\ InOp' = InOp
    BY <2>1 DEF Durable, InOp
  <2>3. View' = View
    BY <2>1, <2>2 DEF View
  <2> QED BY <2>2, <2>3, <1>s DEF Stutter
<1>12. CASE UNCHANGED vars
  <2>1. UNCHANGED <<disk, dlog, dhead, cache, phase, pc>>
    BY <1>12 DEF vars, memory
  <2>2. Stutter
    BY <2>1 DEF Stutter, Durable, View, Contents, InOp
  <2> QED BY <2>2, <1>s
<1>13. CASE BgetPanic
  <2>1. UNCHANGED <<disk, dlog, dhead, cache, phase, pc>>
    BY <1>13 DEF BgetPanic, memory
  <2>2. Stutter
    BY <2>1 DEF Stutter, Durable, View, Contents, InOp
  <2> QED BY <2>2, <1>s
<1> QED
  BY BufferSteps, <1>13, <1>1, <1>2, <1>3, <1>4, <1>5, <1>6, <1>7, <1>8, <1>9, <1>10, <1>11, <1>12
     DEF Next, Commit, Recover
=============================================================================
