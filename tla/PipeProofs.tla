----------------------------- MODULE PipeProofs -----------------------------
(***************************************************************************)
(* What is proved of Pipe, for any number of processes, any size of the    *)
(* ring and any width of its counters.                                     *)
(***************************************************************************)
EXTENDS Pipe, Integers, Sequences, FiniteSetTheorems, TLAPS

ReadPlaces == {"empty?", "rsleep", "read"}
WritePlaces == {"write", "wsleep"}
LockPlaces == {"write", "empty?", "read"}
Closing(p, e) == pc[p].at = "close" /\ pc[p].e = e

\* f->ref counts the processes that have the end open.
Holders(e) == { p \in Proc : e \in fd[p] }
RefInv == \A e \in End : ref[e] = Cardinality(Holders(e))

\* pi->lock is held where the code holds it, who sleeps is in sleep(), and who reads or
\* writes has the end open.
PlaceInv ==
  \A p \in Proc :
    /\ lock = p <=> pc[p].at \in LockPlaces
    /\ p \in asleep => pc[p].at \in {"rsleep", "wsleep"}
    /\ pc[p].at \in ReadPlaces => "read" \in fd[p]
    /\ pc[p].at \in WritePlaces => "write" \in fd[p]

\* An end is open while there are references, and until the one process that dropped the
\* last of them has closed it; the page is freed with the second end.
OpenInv ==
  /\ \A e \in End : e \in open <=> ref[e] > 0 \/ \E p \in Proc : Closing(p, e)
  /\ \A e \in End, p \in Proc : Closing(p, e) =>
       ref[e] = 0 /\ \A q \in Proc : Closing(q, e) => p = q
  /\ freed <=> open = {}

\* A sleeper that could go on is about to be woken by the holder of the lock.
SleepInv ==
  killed = {} => \A q \in asleep :
    /\ pc[q].at = "rsleep" =>
         "write" \in open /\ (Empty \/ \E p \in Proc : Holding(p, "write"))
    /\ pc[q].at = "wsleep" =>
         "read" \in open /\ (Full \/ \E p \in Proc : Holding(p, "read"))

IInv == TypeOK /\ RefInv /\ PlaceInv /\ OpenInv /\ SleepInv

\* The counters are never more than the size of the ring apart.
RingInv == Fill <= PIPESIZE

-----------------------------------------------------------------------------
(* Places *)

CallPlaces == {"write", "wsleep", "empty?", "rsleep", "read"}

\* What At() builds.
LEMMA PlaceUser == User \in Places /\ User.at = "user"
BY DEF Places, User, At

\* The place in a close.
LEMMA PlaceClose ==
  ASSUME NEW e \in End
  PROVE  At("close", 0, 0, e) \in Places
         /\ At("close", 0, 0, e).at = "close" /\ At("close", 0, 0, e).e = e
BY DEF Places, At

\* The places in a read or a write.
LEMMA PlaceCall ==
  ASSUME NEW s \in CallPlaces, NEW i \in 0 .. MaxLen, NEW n \in 1 .. MaxLen
  PROVE  At(s, i, n, None) \in Places /\ At(s, i, n, None).at = s
BY DEF Places, At, CallPlaces

\* What a place is made of.
LEMMA PlaceParts ==
  ASSUME NEW x \in Places
  PROVE  /\ x.at \in {"user", "close"} \cup CallPlaces
         /\ x.at = "user" => x = User
         /\ x.at = "close" => x.e \in End
         /\ x.at \in CallPlaces =>
              x.i \in 0 .. MaxLen /\ x.n \in 1 .. MaxLen /\ x = At(x.at, x.i, x.n, None)
BY DEF Places, At, User, CallPlaces

\* A call goes on to another place, or to its next byte.
LEMMA PlaceMove ==
  ASSUME NEW x \in Places, x.at \in CallPlaces, NEW s \in CallPlaces
  PROVE  [x EXCEPT !.at = s] \in Places /\ [x EXCEPT !.at = s].at = s
<1>1. PICK i \in 0 .. MaxLen, n \in 1 .. MaxLen : x = At(x.at, i, n, None)
  BY PlaceParts
<1>2. [x EXCEPT !.at = s] = At(s, i, n, None)
  BY <1>1 DEF At
<1> QED BY <1>2, PlaceCall

\* The place one byte on.
LEMMA PlaceByte ==
  ASSUME NEW x \in Places, x.at \in CallPlaces, x.i < x.n
  PROVE  [x EXCEPT !.i = @ + 1] \in Places /\ [x EXCEPT !.i = @ + 1].at = x.at
<1>1. PICK i \in 0 .. MaxLen, n \in 1 .. MaxLen : x = At(x.at, i, n, None) /\ i < n
  BY PlaceParts
<1>2. i + 1 \in 0 .. MaxLen
  BY <1>1, PipeAssumption
<1>3. [x EXCEPT !.i = @ + 1] = At(x.at, i + 1, n, None)
  BY <1>1 DEF At
<1> QED BY <1>2, <1>3, PlaceCall

\* A process goes to another place.
LEMMA GotoFacts ==
  ASSUME TypeOK, NEW p \in Proc, NEW x \in Places, Goto(p, x)
  PROVE  /\ pc' \in [Proc -> Places] /\ pc'[p] = x
         /\ \A q \in Proc : q # p => pc'[q] = pc[q]
BY DEF TypeOK, Goto

-----------------------------------------------------------------------------
(* References *)

\* f->ref is 0 exactly if no process has the end open.
LEMMA RefZero ==
  ASSUME TypeOK, RefInv, NEW e \in End
  PROVE  /\ IsFiniteSet(Holders(e)) /\ ref[e] = Cardinality(Holders(e))
         /\ ref[e] = 0 <=> \A p \in Proc : e \notin fd[p]
<1>1. IsFiniteSet(Holders(e))
  BY FS_Subset, PipeAssumption DEF Holders
<1>2. Cardinality(Holders(e)) = 0 <=> Holders(e) = {}
  BY <1>1, FS_EmptySet
<1> QED BY <1>1, <1>2 DEF RefInv, Holders

\* Counting the holders of both ends, after a step, as f->ref does.
LEMMA RefBound ==
  ASSUME NEW S \in SUBSET Proc
  PROVE  IsFiniteSet(S) /\ Cardinality(S) \in 0 .. Cardinality(Proc)
<1>1. IsFiniteSet(S) /\ Cardinality(S) <= Cardinality(Proc)
  BY FS_Subset, PipeAssumption
<1>2. Cardinality(S) \in Nat /\ Cardinality(Proc) \in Nat
  BY <1>1, FS_CardinalityType, PipeAssumption
<1> QED BY <1>1, <1>2

-----------------------------------------------------------------------------
(* The steps of a read or a write *)

\* pi->lock stays where it is, is acquired or is released, as p's place says.
LockStep(p) ==
  \/ lock' = lock /\ (pc[p].at \in LockPlaces <=> pc'[p].at \in LockPlaces)
  \/ lock = None /\ lock' = p /\ pc'[p].at \in LockPlaces
  \/ pc[p].at \in LockPlaces /\ lock' = None /\ pc'[p].at \notin LockPlaces

\* The counters and the ring have their types after a step too.
RingType ==
  /\ data' \in [0 .. PIPESIZE - 1 -> Val \cup {None}]
  /\ nread' \in 0 .. WRAP - 1 /\ nwrite' \in 0 .. WRAP - 1

\* A step of a call changes neither the references nor the ends.
LEMMA CallStep ==
  ASSUME IInv, NEW p \in Proc, NEW x \in Places, Goto(p, x),
         pc[p].at # "close", x.at # "close", LockStep(p), RingType,
         x.at \in ReadPlaces => "read" \in fd[p],
         x.at \in WritePlaces => "write" \in fd[p],
         \A q \in asleep' : (q \in asleep /\ q # p) \/ (q = p /\ x.at \in {"rsleep", "wsleep"}),
         UNCHANGED <<fd, ref, open, freed, killed>>
  PROVE  TypeOK' /\ RefInv' /\ PlaceInv' /\ OpenInv'
<1> USE DEF IInv
<1>1. /\ pc' \in [Proc -> Places] /\ pc'[p] = x
      /\ \A q \in Proc : q # p => pc'[q] = pc[q]
  BY GotoFacts
<1>2. lock' \in Proc \cup {None} /\ \A q \in Proc : lock' = q <=> pc'[q].at \in LockPlaces
  BY <1>1, PipeAssumption DEF LockStep, PlaceInv, TypeOK
<1>3. TypeOK'
  BY <1>1, <1>2 DEF TypeOK, RingType
<1>4. RefInv'
  BY DEF RefInv, Holders
<1>5. PlaceInv'
  BY <1>1, <1>2 DEF PlaceInv
<1>6. OpenInv'
  <2>1. \A q \in Proc, e \in End : Closing(q, e)' <=> Closing(q, e)
    BY <1>1 DEF Closing
  <2> QED BY <2>1 DEF OpenInv
<1> QED BY <1>3, <1>4, <1>5, <1>6

\* The ring does not change.
LEMMA RingSame ==
  ASSUME TypeOK, UNCHANGED <<data, nread, nwrite>>
  PROVE  RingType /\ (Empty' <=> Empty) /\ (Full' <=> Full)
BY DEF TypeOK, RingType, Empty, Full

\* Who sleeps has its end open, and so the pipe.
LEMMA SleeperOpen ==
  ASSUME IInv, NEW q \in asleep
  PROVE  /\ q \in Proc /\ pc[q].at \in {"rsleep", "wsleep"}
         /\ pc[q].at = "rsleep" => "read" \in open
         /\ pc[q].at = "wsleep" => "write" \in open
<1> USE DEF IInv
<1>1. q \in Proc /\ pc[q].at \in {"rsleep", "wsleep"}
  BY DEF TypeOK, PlaceInv
<1>2. ASSUME NEW e \in End, e \in fd[q]
      PROVE  e \in open
  <2>1. ref[e] # 0 /\ ref[e] \in 0 .. Cardinality(Proc)
    BY <1>1, <1>2, RefZero DEF TypeOK
  <2>2. ref[e] > 0
    BY <2>1
  <2> QED BY <2>2 DEF OpenInv
<1> QED BY <1>1, <1>2 DEF PlaceInv, ReadPlaces, WritePlaces, End

\* With the lock held by p, a sleeping reader finds the pipe empty unless p is writing,
\* and a sleeping writer finds it full unless p is reading.
LEMMA HolderFacts ==
  ASSUME IInv, NEW p \in Proc, lock = p, killed = {}, NEW q \in asleep
  PROVE  /\ p \notin asleep
         /\ pc[q].at = "rsleep" => "write" \in open /\ (Empty \/ pc[p].at = "write")
         /\ pc[q].at = "wsleep" => "read" \in open /\ (Full \/ pc[p].at = "read")
BY DEF IInv, SleepInv, Holding, PlaceInv, LockPlaces

\* The same with the lock free.
LEMMA FreeFacts ==
  ASSUME IInv, lock = None, killed = {}, NEW q \in asleep
  PROVE  /\ pc[q].at = "rsleep" => "write" \in open /\ Empty
         /\ pc[q].at = "wsleep" => "read" \in open /\ Full
BY PipeAssumption DEF IInv, SleepInv, Holding

\* The condition of SleepInv, for one sleeper after the step.
LEMMA SleepNext ==
  ASSUME killed' = {} => \A q \in asleep' :
           /\ pc'[q].at = "rsleep" =>
                "write" \in open' /\ (Empty' \/ \E p \in Proc : pc'[p].at = "write" /\ lock' = p)
           /\ pc'[q].at = "wsleep" =>
                "read" \in open' /\ (Full' \/ \E p \in Proc : pc'[p].at = "read" /\ lock' = p)
  PROVE  SleepInv'
BY DEF SleepInv, Holding

\* pipewrite() takes the lock.
LEMMA WriteBeginStep ==
  ASSUME IInv, NEW p \in Proc, WriteBegin(p)
  PROVE  IInv'
<1> USE DEF IInv
<1>1. /\ lock = None /\ lock' = p /\ p \notin asleep
      /\ UNCHANGED <<fd, ref, open, freed, data, nread, nwrite, asleep, killed>>
  BY DEF WriteBegin, Taking, fileVars, pipeVars, ringVars
<1>2. PICK x \in Places : Goto(p, x) /\ x.at = "write"
  <2>1. CASE pc[p] = User
    <3>1. PICK n \in 1 .. MaxLen : Goto(p, At("write", 0, n, None))
      BY <2>1, PlaceUser DEF WriteBegin
    <3>2. 0 \in 0 .. MaxLen
      BY PipeAssumption
    <3> QED BY <3>1, <3>2, PlaceCall DEF CallPlaces
  <2>2. CASE pc[p] # User
    <3>1. pc[p].at = "wsleep" /\ pc[p] \in Places /\ Goto(p, [pc[p] EXCEPT !.at = "write"])
      BY <2>2 DEF WriteBegin, TypeOK
    <3> QED BY <3>1, PlaceMove, Zenon DEF CallPlaces
  <2> QED BY <2>1, <2>2
<1>3. pc[p].at \in {"user", "wsleep"} /\ "write" \in fd[p]
  BY PlaceUser DEF WriteBegin, PlaceInv, WritePlaces
<1>4. /\ pc'[p].at = "write" /\ \A q \in Proc : q # p => pc'[q] = pc[q]
  BY <1>2, GotoFacts
<1>5. LockStep(p)
  BY <1>1, <1>4 DEF LockStep, LockPlaces
<1>6. RingType /\ (Empty' <=> Empty) /\ (Full' <=> Full)
  BY <1>1, RingSame
<1>7. TypeOK' /\ RefInv' /\ PlaceInv' /\ OpenInv'
  <2>1. /\ x.at # "close" /\ pc[p].at # "close"
        /\ x.at \in ReadPlaces => "read" \in fd[p]
        /\ x.at \in WritePlaces => "write" \in fd[p]
    BY <1>2, <1>3 DEF ReadPlaces
  <2>2. \A q \in asleep' : (q \in asleep /\ q # p) \/ (q = p /\ x.at \in {"rsleep", "wsleep"})
    BY <1>1
  <2>3. UNCHANGED <<fd, ref, open, freed, killed>>
    BY <1>1
  <2> QED BY <1>2, <1>5, <1>6, <2>1, <2>2, <2>3, CallStep
<1>8. SleepInv'
  <2>1. \A q \in asleep' : q \in asleep /\ pc'[q] = pc[q]
    BY <1>1, <1>4 DEF TypeOK
  <2> QED BY <1>1, <1>6, <2>1, FreeFacts, SleepNext
<1> QED BY <1>7, <1>8

\* piperead() takes the lock.
LEMMA ReadBeginStep ==
  ASSUME IInv, NEW p \in Proc, ReadBegin(p)
  PROVE  IInv'
<1> USE DEF IInv
<1>1. /\ lock = None /\ lock' = p /\ p \notin asleep
      /\ UNCHANGED <<fd, ref, open, freed, data, nread, nwrite, asleep, killed>>
  BY DEF ReadBegin, Taking, fileVars, pipeVars, ringVars
<1>2. PICK x \in Places : Goto(p, x) /\ x.at = "empty?"
  <2>1. CASE pc[p] = User
    <3>1. PICK n \in 1 .. MaxLen : Goto(p, At("empty?", 0, n, None))
      BY <2>1, PlaceUser DEF ReadBegin
    <3>2. 0 \in 0 .. MaxLen
      BY PipeAssumption
    <3> QED BY <3>1, <3>2, PlaceCall DEF CallPlaces
  <2>2. CASE pc[p] # User
    <3>1. pc[p].at = "rsleep" /\ pc[p] \in Places /\ Goto(p, [pc[p] EXCEPT !.at = "empty?"])
      BY <2>2 DEF ReadBegin, TypeOK
    <3> QED BY <3>1, PlaceMove, Zenon DEF CallPlaces
  <2> QED BY <2>1, <2>2
<1>3. pc[p].at \in {"user", "rsleep"} /\ "read" \in fd[p]
  BY PlaceUser DEF ReadBegin, PlaceInv, ReadPlaces
<1>4. /\ pc'[p].at = "empty?" /\ \A q \in Proc : q # p => pc'[q] = pc[q]
  BY <1>2, GotoFacts
<1>5. LockStep(p)
  BY <1>1, <1>4 DEF LockStep, LockPlaces
<1>6. RingType /\ (Empty' <=> Empty) /\ (Full' <=> Full)
  BY <1>1, RingSame
<1>7. TypeOK' /\ RefInv' /\ PlaceInv' /\ OpenInv'
  <2>1. /\ x.at # "close" /\ pc[p].at # "close"
        /\ x.at \in ReadPlaces => "read" \in fd[p]
        /\ x.at \in WritePlaces => "write" \in fd[p]
    BY <1>2, <1>3 DEF WritePlaces
  <2>2. \A q \in asleep' : (q \in asleep /\ q # p) \/ (q = p /\ x.at \in {"rsleep", "wsleep"})
    BY <1>1
  <2>3. UNCHANGED <<fd, ref, open, freed, killed>>
    BY <1>1
  <2> QED BY <1>2, <1>5, <1>6, <2>1, <2>2, <2>3, CallStep
<1>8. SleepInv'
  <2>1. \A q \in asleep' : q \in asleep /\ pc'[q] = pc[q]
    BY <1>1, <1>4 DEF TypeOK
  <2> QED BY <1>1, <1>6, <2>1, FreeFacts, SleepNext
<1> QED BY <1>7, <1>8

\* The call returns, and all that sleep on one of the channels may have been woken.
LEMMA ReturnStep ==
  ASSUME IInv, NEW p \in Proc, lock = p, Return(p), asleep' \subseteq asleep,
         UNCHANGED <<fd, ref, open, freed, data, nread, nwrite, killed>>,
         killed = {} => \A q \in asleep' :
           /\ pc[q].at = "rsleep" => Empty
           /\ pc[q].at = "wsleep" => Full
  PROVE  IInv'
<1> USE DEF IInv
<1>1. pc[p].at \in LockPlaces /\ p \notin asleep
  BY DEF PlaceInv, LockPlaces
<1>2. lock' = None /\ Goto(p, User) /\ User \in Places /\ User.at = "user"
  BY PlaceUser DEF Return
<1>3. pc'[p].at = "user" /\ \A q \in Proc : q # p => pc'[q] = pc[q]
  BY <1>2, GotoFacts
<1>4. LockStep(p)
  BY <1>1, <1>2, <1>3 DEF LockStep, LockPlaces
<1>5. RingType /\ (Empty' <=> Empty) /\ (Full' <=> Full)
  BY RingSame
<1>6. TypeOK' /\ RefInv' /\ PlaceInv' /\ OpenInv'
  <2>1. /\ User.at # "close" /\ pc[p].at # "close"
        /\ User.at \in ReadPlaces => "read" \in fd[p]
        /\ User.at \in WritePlaces => "write" \in fd[p]
    BY <1>1, <1>2 DEF ReadPlaces, WritePlaces, LockPlaces
  <2>2. \A q \in asleep' : (q \in asleep /\ q # p) \/ (q = p /\ User.at \in {"rsleep", "wsleep"})
    BY <1>1
  <2> QED BY <1>2, <1>4, <1>5, <2>1, <2>2, CallStep
<1>7. SleepInv'
  <2>1. \A q \in asleep' : q \in asleep /\ pc'[q] = pc[q]
    BY <1>1, <1>3 DEF TypeOK
  <2> QED BY <1>5, <2>1, HolderFacts, SleepNext
<1> QED BY <1>6, <1>7

\* pipewrite() returns -1: with the readers gone nobody sleeps on the pipe.
LEMMA WriteFailStep ==
  ASSUME IInv, NEW p \in Proc, WriteFail(p)
  PROVE  IInv'
<1>1. /\ lock = p /\ Return(p) /\ ("read" \notin open \/ p \in killed)
      /\ UNCHANGED <<fd, ref, open, freed, data, nread, nwrite, asleep, killed>>
  BY DEF WriteFail, Writing, Holding, fileVars, pipeVars, ringVars
<1>2. ASSUME killed = {}, NEW q \in asleep
      PROVE  FALSE
  BY <1>1, <1>2, SleeperOpen, HolderFacts
<1> QED BY <1>1, <1>2, ReturnStep

\* The end of pipewrite(): the readers are woken.
LEMMA WriteDoneStep ==
  ASSUME IInv, NEW p \in Proc, WriteDone(p)
  PROVE  IInv'
<1>1. /\ lock = p /\ pc[p].at = "write" /\ Return(p) /\ asleep' = asleep \ Sleepers("rsleep")
      /\ UNCHANGED <<fd, ref, open, freed, data, nread, nwrite, killed>>
  BY DEF WriteDone, WakeReaders, Holding, fileVars, pipeVars, ringVars
<1>2. \A q \in asleep' : q \in asleep /\ pc[q].at # "rsleep"
  BY <1>1 DEF Sleepers
<1>3. killed = {} => \A q \in asleep' : pc[q].at = "wsleep" => Full
  BY <1>1, <1>2, HolderFacts
<1> QED BY <1>1, <1>2, <1>3, ReturnStep

\* A killed reader returns.
LEMMA ReadKilledStep ==
  ASSUME IInv, NEW p \in Proc, ReadKilled(p)
  PROVE  IInv'
<1>1. /\ lock = p /\ Return(p) /\ killed # {}
      /\ UNCHANGED <<fd, ref, open, freed, data, nread, nwrite, asleep, killed>>
  BY DEF ReadKilled, Holding, fileVars, pipeVars, ringVars
<1> QED BY <1>1, ReturnStep

\* The end of piperead(): the writers are woken.
LEMMA ReadDoneStep ==
  ASSUME IInv, NEW p \in Proc, ReadDone(p)
  PROVE  IInv'
<1>1. /\ lock = p /\ pc[p].at = "read" /\ Return(p) /\ asleep' = asleep \ Sleepers("wsleep")
      /\ UNCHANGED <<fd, ref, open, freed, data, nread, nwrite, killed>>
  BY DEF ReadDone, WakeWriters, Holding, fileVars, pipeVars, ringVars
<1>2. \A q \in asleep' : q \in asleep /\ pc[q].at # "wsleep"
  BY <1>1 DEF Sleepers
<1>3. killed = {} => \A q \in asleep' : pc[q].at = "rsleep" => Empty
  BY <1>1, <1>2, HolderFacts
<1> QED BY <1>1, <1>2, <1>3, ReturnStep

\* A step of the holder of the lock within a call: to another place, or on by a byte.
LEMMA HolderStep ==
  ASSUME IInv, NEW p \in Proc, lock = p, NEW x \in Places, Goto(p, x), RingType,
         \/ pc[p].at \in {"empty?", "read"} /\ x.at \in {"rsleep", "read"}
         \/ pc[p].at = "write" /\ x.at \in {"write", "wsleep"},
         lock' = (IF x.at \in {"rsleep", "wsleep"} THEN None ELSE p),
         \A q \in asleep' : q \in asleep \/ (q = p /\ x.at \in {"rsleep", "wsleep"}),
         UNCHANGED <<fd, ref, open, freed, killed>>
  PROVE  /\ TypeOK' /\ RefInv' /\ PlaceInv' /\ OpenInv'
         /\ pc'[p].at = x.at
         /\ \A q \in asleep' : q # p => q \in asleep /\ pc'[q] = pc[q]
<1> USE DEF IInv
<1>1. pc[p].at \in LockPlaces /\ p \notin asleep
  BY DEF PlaceInv, LockPlaces
<1>2. pc'[p] = x /\ \A q \in Proc : q # p => pc'[q] = pc[q]
  BY GotoFacts
<1>3. LockStep(p)
  BY <1>1, <1>2 DEF LockStep, LockPlaces
<1>4. /\ x.at # "close" /\ pc[p].at # "close"
      /\ x.at \in ReadPlaces => "read" \in fd[p]
      /\ x.at \in WritePlaces => "write" \in fd[p]
  BY DEF PlaceInv, ReadPlaces, WritePlaces
<1>5. \A q \in asleep' : (q \in asleep /\ q # p) \/ (q = p /\ x.at \in {"rsleep", "wsleep"})
  BY <1>1
<1>6. TypeOK' /\ RefInv' /\ PlaceInv' /\ OpenInv'
  BY <1>3, <1>4, <1>5, CallStep
<1>7. \A q \in asleep' : q # p => q \in asleep /\ pc'[q] = pc[q]
  BY <1>2, <1>5 DEF TypeOK
<1> QED BY <1>2, <1>6, <1>7

\* pipewrite() sleeps on a full pipe, after waking the readers.
LEMMA WriteSleepStep ==
  ASSUME IInv, NEW p \in Proc, WriteSleep(p)
  PROVE  IInv'
<1> USE DEF IInv
<1> DEFINE x == [pc[p] EXCEPT !.at = "wsleep"]
<1>1. /\ lock = p /\ pc[p].at = "write" /\ "read" \in open /\ Full
      /\ asleep' = (asleep \ Sleepers("rsleep")) \cup {p} /\ lock' = None /\ Goto(p, x)
      /\ UNCHANGED <<fd, ref, open, freed, data, nread, nwrite, killed>>
  BY DEF WriteSleep, Writing, Holding, fileVars, pipeVars, ringVars
<1>2. x \in Places /\ x.at = "wsleep"
  BY <1>1, PlaceMove, Zenon DEF TypeOK, CallPlaces
<1>3. RingType /\ (Empty' <=> Empty) /\ (Full' <=> Full)
  BY <1>1, RingSame
<1>4. \A q \in asleep' : q = p \/ (q \in asleep /\ pc[q].at # "rsleep")
  BY <1>1 DEF Sleepers
<1> HIDE DEF x
<1>5. /\ TypeOK' /\ RefInv' /\ PlaceInv' /\ OpenInv'
      /\ pc'[p].at = "wsleep"
      /\ \A q \in asleep' : q # p => q \in asleep /\ pc'[q] = pc[q]
  BY <1>1, <1>2, <1>3, <1>4, HolderStep
<1>6. SleepInv'
  <2>1. \A q \in asleep' : pc'[q].at # "rsleep"
    BY <1>4, <1>5
  <2> QED BY <1>1, <1>3, <2>1, SleepNext
<1> QED BY <1>5, <1>6

\* piperead() sleeps on an empty pipe.
LEMMA ReadSleepStep ==
  ASSUME IInv, NEW p \in Proc, ReadSleep(p)
  PROVE  IInv'
<1> USE DEF IInv
<1> DEFINE x == [pc[p] EXCEPT !.at = "rsleep"]
<1>1. /\ lock = p /\ pc[p].at = "empty?" /\ "write" \in open /\ Empty
      /\ asleep' = asleep \cup {p} /\ lock' = None /\ Goto(p, x)
      /\ UNCHANGED <<fd, ref, open, freed, data, nread, nwrite, killed>>
  BY DEF ReadSleep, NothingYet, Holding, fileVars, pipeVars, ringVars
<1>2. x \in Places /\ x.at = "rsleep"
  BY <1>1, PlaceMove, Zenon DEF TypeOK, CallPlaces
<1>3. RingType /\ (Empty' <=> Empty) /\ (Full' <=> Full)
  BY <1>1, RingSame
<1> HIDE DEF x
<1>4. /\ TypeOK' /\ RefInv' /\ PlaceInv' /\ OpenInv'
      /\ pc'[p].at = "rsleep"
      /\ \A q \in asleep' : q # p => q \in asleep /\ pc'[q] = pc[q]
  BY <1>1, <1>2, <1>3, HolderStep
<1>5. SleepInv'
  <2>1. ASSUME killed = {}, NEW q \in asleep', pc'[q].at = "wsleep"
        PROVE  "read" \in open' /\ Full'
    <3>1. q \in asleep /\ pc[q].at = "wsleep"
      BY <1>4, <2>1
    <3> QED BY <1>1, <1>3, <2>1, <3>1, HolderFacts
  <2> QED BY <1>1, <1>3, <2>1, SleepNext
<1> QED BY <1>4, <1>5

\* piperead() has found bytes, or the end of the file.
LEMMA ReadStartStep ==
  ASSUME IInv, NEW p \in Proc, ReadStart(p)
  PROVE  IInv'
<1> USE DEF IInv
<1> DEFINE x == [pc[p] EXCEPT !.at = "read"]
<1>1. /\ lock = p /\ pc[p].at = "empty?" /\ lock' = p /\ Goto(p, x)
      /\ UNCHANGED <<fd, ref, open, freed, data, nread, nwrite, asleep, killed>>
  BY DEF ReadStart, Holding, fileVars, pipeVars, ringVars
<1>2. x \in Places /\ x.at = "read"
  BY <1>1, PlaceMove, Zenon DEF TypeOK, CallPlaces
<1>3. RingType /\ (Empty' <=> Empty) /\ (Full' <=> Full)
  BY <1>1, RingSame
<1> HIDE DEF x
<1>4. /\ TypeOK' /\ RefInv' /\ PlaceInv' /\ OpenInv'
      /\ pc'[p].at = "read"
      /\ \A q \in asleep' : q # p => q \in asleep /\ pc'[q] = pc[q]
  BY <1>1, <1>2, <1>3, HolderStep
<1>5. SleepInv'
  <2>1. p \notin asleep
    BY <1>1 DEF PlaceInv
  <2> QED BY <1>1, <1>3, <1>4, <2>1, HolderFacts, SleepNext
<1> QED BY <1>4, <1>5

\* The counters stay within their width.
LEMMA CounterType ==
  ASSUME NEW k \in Nat
  PROVE  k % WRAP \in 0 .. WRAP - 1 /\ k % PIPESIZE \in 0 .. PIPESIZE - 1
BY PipeAssumption

\* A byte is written: whoever waits for it is woken when pipewrite() ends or sleeps.
LEMMA WriteByteStep ==
  ASSUME IInv, NEW p \in Proc, WriteByte(p)
  PROVE  IInv'
<1> USE DEF IInv
<1> DEFINE x == [pc[p] EXCEPT !.i = @ + 1]
<1>1. PICK v \in Val :
        /\ lock = p /\ pc[p].at = "write" /\ pc[p].i < pc[p].n /\ ~Full
        /\ data' = [data EXCEPT ![nwrite % PIPESIZE] = v]
        /\ nwrite' = (nwrite + 1) % WRAP /\ nread' = nread /\ lock' = p /\ Goto(p, x)
        /\ UNCHANGED <<fd, ref, open, freed, asleep, killed>>
  BY Zenon DEF WriteByte, Writing, Holding, fileVars, pipeVars
<1>2. x \in Places /\ x.at = "write"
  BY <1>1, PlaceByte DEF TypeOK, CallPlaces
<1>3. RingType
  <2>1. data' \in [0 .. PIPESIZE - 1 -> Val \cup {None}]
    BY <1>1, Zenon DEF TypeOK
  <2>2. nwrite + 1 \in Nat
    BY PipeAssumption DEF TypeOK
  <2>3. nwrite' \in 0 .. WRAP - 1
    BY <1>1, <2>2, CounterType
  <2> QED BY <1>1, <2>1, <2>3 DEF RingType, TypeOK
<1> HIDE DEF x
<1>4. /\ TypeOK' /\ RefInv' /\ PlaceInv' /\ OpenInv'
      /\ pc'[p].at = "write"
      /\ \A q \in asleep' : q # p => q \in asleep /\ pc'[q] = pc[q]
  BY <1>1, <1>2, <1>3, HolderStep
<1>5. SleepInv'
  <2>1. ASSUME killed = {}, NEW q \in asleep'
        PROVE  pc'[q].at # "wsleep" /\ (pc'[q].at = "rsleep" => "write" \in open')
    <3>1. p \notin asleep /\ q \in asleep /\ pc'[q] = pc[q]
      BY <1>1, <1>4 DEF PlaceInv
    <3> QED BY <1>1, <2>1, <3>1, HolderFacts
  <2> QED BY <1>1, <1>4, <2>1, SleepNext
<1> QED BY <1>4, <1>5

\* A byte is read: whoever waits for the room is woken when piperead() ends.
LEMMA ReadByteStep ==
  ASSUME IInv, NEW p \in Proc, ReadByte(p)
  PROVE  IInv'
<1> USE DEF IInv
<1> DEFINE x == [pc[p] EXCEPT !.i = @ + 1]
<1>1. /\ lock = p /\ pc[p].at = "read" /\ pc[p].i < pc[p].n /\ ~Empty
      /\ data' = data /\ nwrite' = nwrite
      /\ nread' = (nread + 1) % WRAP /\ lock' = p /\ Goto(p, x)
      /\ UNCHANGED <<fd, ref, open, freed, asleep, killed>>
  BY DEF ReadByte, Holding, fileVars, pipeVars
<1>2. x \in Places /\ x.at = "read"
  BY <1>1, PlaceByte DEF TypeOK, CallPlaces
<1>3. RingType
  <2>1. nread + 1 \in Nat
    BY PipeAssumption DEF TypeOK
  <2>2. nread' \in 0 .. WRAP - 1
    BY <1>1, <2>1, CounterType
  <2> QED BY <1>1, <2>2 DEF RingType, TypeOK
<1> HIDE DEF x
<1>4. /\ TypeOK' /\ RefInv' /\ PlaceInv' /\ OpenInv'
      /\ pc'[p].at = "read"
      /\ \A q \in asleep' : q # p => q \in asleep /\ pc'[q] = pc[q]
  BY <1>1, <1>2, <1>3, HolderStep
<1>5. SleepInv'
  <2>1. ASSUME killed = {}, NEW q \in asleep'
        PROVE  pc'[q].at # "rsleep" /\ (pc'[q].at = "wsleep" => "read" \in open')
    <3>1. p \notin asleep /\ q \in asleep /\ pc'[q] = pc[q]
      BY <1>1, <1>4 DEF PlaceInv
    <3> QED BY <1>1, <2>1, <3>1, HolderFacts
  <2> QED BY <1>1, <1>4, <2>1, SleepNext
<1> QED BY <1>4, <1>5

-----------------------------------------------------------------------------
(* The other operations *)

\* kkill() marks the process: the wakeup of a killed writer is not promised.
LEMMA KillStep ==
  ASSUME IInv, NEW p \in Proc, Kill(p)
  PROVE  IInv'
<1> USE DEF IInv
<1>1. /\ killed' = killed \cup {p} /\ asleep' = asleep \ {p}
      /\ UNCHANGED <<fd, ref, open, freed, lock, data, nread, nwrite, pc>>
  BY DEF Kill, fileVars, pipeVars, ringVars
<1>2. TypeOK'
  BY <1>1 DEF TypeOK
<1>3. RefInv' /\ PlaceInv'
  BY <1>1 DEF RefInv, Holders, PlaceInv
<1>4. OpenInv' /\ SleepInv'
  BY <1>1 DEF OpenInv, Closing, SleepInv
<1> QED BY <1>2, <1>3, <1>4

\* The last step of a close: nobody else has or is closing that end.
LEMMA PipeCloseStep ==
  ASSUME IInv, NEW p \in Proc, PipeClose(p)
  PROVE  IInv'
<1> USE DEF IInv
<1>1. PICK f \in End : f = pc[p].e
  BY PlaceParts DEF PipeClose, TypeOK
<1>2. /\ pc[p].at = "close" /\ lock = None /\ open' = open \ {f} /\ freed' = (open' = {})
      /\ Goto(p, User) /\ UNCHANGED <<fd, ref, lock, data, nread, nwrite, killed>>
  BY <1>1 DEF PipeClose, fileVars, ringVars
<1>3. /\ \A q \in asleep' : q \in asleep
      /\ f = "write" => \A q \in asleep' : pc[q].at # "rsleep"
      /\ f = "read" => \A q \in asleep' : pc[q].at # "wsleep"
  BY <1>1 DEF PipeClose, WakeReaders, WakeWriters, Sleepers
<1>4. pc' \in [Proc -> Places] /\ pc'[p].at = "user" /\ \A q \in Proc : q # p => pc'[q] = pc[q]
  BY <1>2, PlaceUser, GotoFacts
<1>5. \A q \in asleep' : q \in Proc /\ q \in asleep /\ q # p /\ pc'[q] = pc[q]
  BY <1>2, <1>3, <1>4 DEF TypeOK, PlaceInv
<1>6. TypeOK'
  BY <1>2, <1>4, <1>5 DEF TypeOK
<1>7. RefInv'
  BY <1>2 DEF RefInv, Holders
<1>8. PlaceInv'
  BY <1>2, <1>4, <1>5 DEF PlaceInv, LockPlaces, ReadPlaces, WritePlaces
<1>9. OpenInv'
  <2>1. Closing(p, f) /\ \A e \in End : Closing(p, e) => e = f
    BY <1>1, <1>2 DEF Closing
  <2>2. \A q \in Proc, e \in End : Closing(q, e)' <=> Closing(q, e) /\ q # p
    BY <1>4 DEF Closing
  <2>3. ref[f] = 0 /\ \A q \in Proc : Closing(q, f) => q = p
    BY <2>1 DEF OpenInv
  <2>4. \A e \in End : e \in open' <=> ref'[e] > 0 \/ \E q \in Proc : Closing(q, e)'
    <3>1. ~ (ref'[f] > 0 \/ \E q \in Proc : Closing(q, f)')
      BY <1>2, <2>2, <2>3
    <3>2. ASSUME NEW e \in End, e # f
          PROVE  e \in open' <=> ref'[e] > 0 \/ \E q \in Proc : Closing(q, e)'
      <4>1. e \in open' <=> e \in open
        BY <1>2, <3>2
      <4>2. \A q \in Proc : Closing(q, e)' <=> Closing(q, e)
        BY <2>1, <2>2, <3>2
      <4> QED BY <1>2, <4>1, <4>2 DEF OpenInv
    <3> QED BY <1>2, <3>1, <3>2
  <2>5. \A e \in End, q \in Proc : Closing(q, e)' =>
          ref'[e] = 0 /\ \A r \in Proc : Closing(r, e)' => q = r
    BY <1>2, <2>2 DEF OpenInv
  <2> QED BY <1>2, <2>4, <2>5, Zenon DEF OpenInv
<1>10. SleepInv'
  <2>1. (Empty' <=> Empty) /\ (Full' <=> Full)
    BY <1>2, RingSame
  <2>2. ASSUME killed = {}, NEW q \in asleep'
        PROVE  /\ pc'[q].at = "rsleep" => "write" \in open' /\ Empty
               /\ pc'[q].at = "wsleep" => "read" \in open' /\ Full
    <3>1. /\ pc[q].at = "rsleep" => "write" \in open /\ Empty
          /\ pc[q].at = "wsleep" => "read" \in open /\ Full
      BY <1>2, <1>5, <2>2, FreeFacts
    <3>2. pc'[q] = pc[q]
      BY <1>5
    <3> QED BY <1>2, <1>3, <3>1, <3>2 DEF End
  <2> QED BY <1>2, <2>1, <2>2, SleepNext
<1> QED BY <1>6, <1>7, <1>8, <1>9, <1>10

\* A step that only moves references keeps SleepInv.
LEMMA FileSleep ==
  ASSUME IInv, UNCHANGED <<open, lock, nread, nwrite, asleep, killed>>,
         \A q \in Proc : pc[q].at \in {"rsleep", "wsleep", "write", "read"} => pc'[q] = pc[q]
  PROVE  SleepInv'
<1> USE DEF IInv
<1>1. (Empty' <=> Empty) /\ (Full' <=> Full)
  BY DEF Empty, Full
<1>2. \A q \in asleep : q \in Proc /\ pc'[q] = pc[q]
  BY DEF TypeOK, PlaceInv
<1>3. \A q \in Proc : pc[q].at \in {"write", "read"} => pc'[q].at = pc[q].at
  OBVIOUS
<1> QED BY <1>1, <1>2, <1>3, SleepNext DEF SleepInv, Holding

\* filedup(): one more process has the end, one more reference.
LEMMA DupStep ==
  ASSUME IInv, NEW p \in Proc, Dup(p)
  PROVE  IInv'
<1> USE DEF IInv
<1>1. PICK q \in Proc, f \in fd[p] :
        /\ f \notin fd[q] /\ fd' = [fd EXCEPT ![q] = @ \cup {f}]
        /\ ref' = [ref EXCEPT ![f] = @ + 1]
        /\ UNCHANGED <<open, freed, lock, data, nread, nwrite, pc, asleep, killed>>
  BY Zenon DEF Dup, pipeVars, ringVars
<1>2. f \in End
  BY DEF TypeOK
<1>3. /\ fd' \in [Proc -> SUBSET End] /\ f \in fd'[q]
      /\ \A r \in Proc, e \in End : r # q \/ e # f => (e \in fd'[r] <=> e \in fd[r])
  BY <1>1, <1>2 DEF TypeOK
<1>4. Holders(f)' = Holders(f) \cup {q} /\ q \notin Holders(f)
  BY <1>1, <1>2, <1>3 DEF Holders
<1>5. \A e \in End : e # f => Holders(e)' = Holders(e)
  BY <1>3 DEF Holders
<1>6. IsFiniteSet(Holders(f)) /\ ref[f] = Cardinality(Holders(f)) /\ ref[f] # 0
  BY <1>2, RefZero
<1>7. Cardinality(Holders(f)') = ref[f] + 1
  <2>1. Cardinality(Holders(f) \cup {q}) =
          IF q \in Holders(f) THEN Cardinality(Holders(f))
                            ELSE Cardinality(Holders(f)) + 1
    BY <1>6, FS_AddElement, Zenon
  <2>2. Cardinality(Holders(f)') = Cardinality(Holders(f)) + 1
    BY <1>4, <2>1
  <2> QED BY <1>6, <2>2
<1>8. RefInv'
  <2>1. ref'[f] = ref[f] + 1 /\ \A e \in End : e # f => ref'[e] = ref[e]
    BY <1>1, <1>2 DEF TypeOK
  <2>2. ref'[f] = Cardinality(Holders(f)')
    BY <1>7, <2>1
  <2>3. \A e \in End : e # f => ref'[e] = Cardinality(Holders(e)')
    BY <1>5, <2>1, Zenon DEF RefInv
  <2> QED BY <2>2, <2>3, Zenon DEF RefInv
<1>9. TypeOK'
  <2>1. \A e \in End : Holders(e)' \in SUBSET Proc
    BY DEF Holders
  <2>2. \A e \in End : ref'[e] \in 0 .. Cardinality(Proc)
    BY <1>8, <2>1, RefBound DEF RefInv
  <2>3. ref' \in [End -> 0 .. Cardinality(Proc)]
    BY <1>1, <2>2 DEF TypeOK
  <2> QED BY <1>1, <1>3, <2>3 DEF TypeOK
<1>10. PlaceInv'
  BY <1>1, <1>3 DEF PlaceInv, End
<1>11. OpenInv'
  <2>1. \A e \in End, r \in Proc : Closing(r, e)' <=> Closing(r, e)
    BY <1>1 DEF Closing
  <2>2. ref'[f] = ref[f] + 1 /\ \A e \in End : e # f => ref'[e] = ref[e]
    BY <1>1, <1>2 DEF TypeOK
  <2>3. ref[f] > 0 /\ ref'[f] > 0
    BY <1>2, <1>6, <2>2 DEF TypeOK
  <2>4. \A r \in Proc : ~Closing(r, f)
    BY <1>2, <2>3 DEF OpenInv
  <2> QED BY <1>1, <1>2, <2>1, <2>2, <2>3, <2>4 DEF OpenInv
<1>12. SleepInv'
  BY <1>1, FileSleep
<1> QED BY <1>8, <1>9, <1>10, <1>11, <1>12

\* fileclose(): one reference less, and the last one closes the end.
LEMMA CloseStep ==
  ASSUME IInv, NEW p \in Proc, Close(p)
  PROVE  IInv'
<1> USE DEF IInv
<1>1. PICK f \in fd[p] :
        /\ pc[p] = User /\ fd' = [fd EXCEPT ![p] = @ \ {f}] /\ ref' = [ref EXCEPT ![f] = @ - 1]
        /\ IF ref[f] > 1 THEN pc' = pc ELSE Goto(p, At("close", 0, 0, f))
        /\ UNCHANGED <<open, freed, lock, data, nread, nwrite, asleep, killed>>
  BY Zenon DEF Close, pipeVars, ringVars
<1>2. f \in End /\ pc[p].at = "user"
  BY <1>1, PlaceUser DEF TypeOK
<1>3. /\ fd' \in [Proc -> SUBSET End] /\ f \notin fd'[p]
      /\ \A r \in Proc, e \in End : r # p \/ e # f => (e \in fd'[r] <=> e \in fd[r])
  BY <1>1, <1>2 DEF TypeOK
<1>4. Holders(f)' = Holders(f) \ {p} /\ p \in Holders(f)
  BY <1>1, <1>2, <1>3 DEF Holders
<1>5. \A e \in End : e # f => Holders(e)' = Holders(e)
  BY <1>3 DEF Holders
<1>6. IsFiniteSet(Holders(f)) /\ ref[f] = Cardinality(Holders(f)) /\ ref[f] # 0
  BY <1>2, RefZero
<1>7. Cardinality(Holders(f)') = ref[f] - 1
  <2>1. Cardinality(Holders(f) \ {p}) =
          IF p \in Holders(f) THEN Cardinality(Holders(f)) - 1
                            ELSE Cardinality(Holders(f))
    BY <1>6, FS_RemoveElement, Zenon
  <2>2. Cardinality(Holders(f)') = Cardinality(Holders(f)) - 1
    BY <1>4, <2>1
  <2> QED BY <1>6, <2>2
<1>8. RefInv'
  <2>1. ref'[f] = ref[f] - 1 /\ \A e \in End : e # f => ref'[e] = ref[e]
    BY <1>1, <1>2 DEF TypeOK
  <2>2. ref'[f] = Cardinality(Holders(f)')
    BY <1>7, <2>1
  <2>3. \A e \in End : e # f => ref'[e] = Cardinality(Holders(e)')
    BY <1>5, <2>1, Zenon DEF RefInv
  <2> QED BY <2>2, <2>3, Zenon DEF RefInv
<1>9. /\ pc' \in [Proc -> Places] /\ \A r \in Proc : r # p => pc'[r] = pc[r]
      /\ ref[f] > 1 => pc'[p] = pc[p]
      /\ ~(ref[f] > 1) => pc'[p].at = "close" /\ pc'[p].e = f
  <2>1. CASE ref[f] > 1
    BY <1>1, <2>1 DEF TypeOK
  <2>2. CASE ~(ref[f] > 1)
    BY <1>1, <1>2, <2>2, PlaceClose, GotoFacts
  <2> QED BY <2>1, <2>2
<1>10. TypeOK'
  <2>1. \A e \in End : Holders(e)' \in SUBSET Proc
    BY DEF Holders
  <2>2. \A e \in End : ref'[e] \in 0 .. Cardinality(Proc)
    BY <1>8, <2>1, RefBound DEF RefInv
  <2>3. ref' \in [End -> 0 .. Cardinality(Proc)]
    BY <1>1, <2>2 DEF TypeOK
  <2> QED BY <1>1, <1>3, <1>9, <2>3 DEF TypeOK
<1>11. PlaceInv'
  <2>1. pc'[p].at \in {"user", "close"} /\ p \notin asleep /\ lock # p
    BY <1>2, <1>9 DEF PlaceInv, LockPlaces
  <2>2. ASSUME NEW r \in Proc, r # p
        PROVE  /\ lock' = r <=> pc'[r].at \in LockPlaces
               /\ r \in asleep' => pc'[r].at \in {"rsleep", "wsleep"}
               /\ pc'[r].at \in ReadPlaces => "read" \in fd'[r]
               /\ pc'[r].at \in WritePlaces => "write" \in fd'[r]
    <3>1. pc'[r] = pc[r] /\ \A e \in End : e \in fd'[r] <=> e \in fd[r]
      BY <1>3, <1>9, <2>2
    <3> QED BY <1>1, <3>1 DEF PlaceInv, End
  <2> QED BY <1>1, <2>1, <2>2 DEF PlaceInv, LockPlaces, ReadPlaces, WritePlaces
<1>12. OpenInv'
  <2>1. \A e \in End, r \in Proc :
          Closing(r, e)' <=> Closing(r, e) \/ (r = p /\ e = f /\ ~(ref[f] > 1))
    BY <1>2, <1>9 DEF Closing
  <2>2. ref'[f] = ref[f] - 1 /\ \A e \in End : e # f => ref'[e] = ref[e]
    BY <1>1, <1>2 DEF TypeOK
  <2>3. ref[f] \in Nat /\ ref[f] > 0
    BY <1>2, <1>6 DEF TypeOK
  <2>4. f \in open /\ \A r \in Proc : ~Closing(r, f)
    BY <1>2, <2>3 DEF OpenInv
  <2>5. ref'[f] > 0 <=> ref[f] > 1
    BY <2>2, <2>3
  <2>6. \A e \in End : e \in open' <=> ref'[e] > 0 \/ \E r \in Proc : Closing(r, e)'
    BY <1>1, <1>2, <2>1, <2>2, <2>4, <2>5 DEF OpenInv
  <2>7. \A e \in End, r \in Proc : Closing(r, e)' =>
          ref'[e] = 0 /\ \A s \in Proc : Closing(s, e)' => r = s
    <3>1. ~(ref[f] > 1) => ref'[f] = 0
      BY <2>2, <2>3
    <3> QED BY <1>2, <2>1, <2>2, <2>4, <3>1 DEF OpenInv
  <2> QED BY <1>1, <2>6, <2>7 DEF OpenInv
<1>13. SleepInv'
  BY <1>1, <1>2, <1>9, FileSleep
<1> QED BY <1>8, <1>10, <1>11, <1>12, <1>13

-----------------------------------------------------------------------------
(* The invariant *)

\* pipealloc() establishes it.
LEMMA InitIInv == Init => IInv
<1> SUFFICES ASSUME Init PROVE IInv
  OBVIOUS
<1>1. PICK p \in Proc : fd = [q \in Proc |-> IF q = p THEN End ELSE {}]
  BY DEF Init
<1>2. \A e \in End : Holders(e) = {p}
  BY <1>1 DEF Holders
<1>3. Cardinality({p}) = 1
  BY FS_Singleton
<1>4. RefInv
  BY <1>2, <1>3, Zenon DEF RefInv, Init
<1>5. TypeOK
  <2>1. 1 \in 0 .. Cardinality(Proc)
    BY <1>3, RefBound
  <2>2. fd \in [Proc -> SUBSET End] /\ ref \in [End -> 0 .. Cardinality(Proc)]
    BY <1>1, <2>1 DEF Init
  <2>3. 0 \in 0 .. WRAP - 1
    BY PipeAssumption
  <2>4. data \in [0 .. PIPESIZE - 1 -> Val \cup {None}] /\ pc \in [Proc -> Places]
    BY PlaceUser DEF Init
  <2> QED BY <2>2, <2>3, <2>4, Zenon DEF Init, TypeOK
<1>6. PlaceInv
  BY PlaceUser, PipeAssumption DEF Init, PlaceInv, LockPlaces, ReadPlaces, WritePlaces
<1>7. OpenInv
  <2>1. \A q \in Proc, e \in End : ~Closing(q, e)
    BY PlaceUser DEF Init, Closing
  <2> QED BY <2>1 DEF Init, OpenInv, End
<1>8. SleepInv
  BY DEF Init, SleepInv
<1> QED BY <1>4, <1>5, <1>6, <1>7, <1>8 DEF IInv

\* Every step keeps it.
LEMMA IInvStep == IInv /\ [Next]_vars => IInv'
<1> SUFFICES ASSUME IInv, [Next]_vars PROVE IInv'
  OBVIOUS
<1>1. CASE UNCHANGED vars
  <2>1. TypeOK' /\ RefInv' /\ PlaceInv'
    BY <1>1 DEF vars, IInv, TypeOK, RefInv, Holders, PlaceInv
  <2>2. OpenInv' /\ SleepInv'
    BY <1>1 DEF vars, IInv, OpenInv, Closing, SleepInv, Empty, Full, Holding
  <2> QED BY <2>1, <2>2 DEF IInv
<1>2. ASSUME NEW p \in Proc, Kernel(p)
      PROVE  IInv'
  BY <1>2, PipeCloseStep, WriteBeginStep, WriteFailStep, WriteSleepStep, WriteByteStep,
     WriteDoneStep, ReadBeginStep, ReadKilledStep, ReadSleepStep, ReadStartStep,
     ReadByteStep, ReadDoneStep DEF Kernel
<1>3. CASE Next
  BY <1>2, <1>3, WriteBeginStep, ReadBeginStep, DupStep, CloseStep, KillStep DEF Next
<1> QED BY <1>1, <1>3

\* So it holds in every reachable state.
LEMMA Invariant == Spec => []IInv
BY InitIInv, IInvStep, PTL DEF Spec

\* It implies what PipeSound says.
LEMMA IInvSound == IInv => PipeSound
<1> SUFFICES ASSUME IInv PROVE PipeSound
  OBVIOUS
<1> USE DEF IInv
<1>1. NoUseAfterFree
  <2> SUFFICES ASSUME freed, NEW p \in Proc PROVE pc[p] = User /\ fd[p] = {}
    BY DEF NoUseAfterFree
  <2>1. \A e \in End : ~(ref[e] > 0) /\ ref[e] \in Nat /\ ~Closing(p, e)
    BY DEF OpenInv, TypeOK
  <2>2. \A e \in End : e \notin fd[p]
    BY <2>1, RefZero
  <2>3. fd[p] = {} /\ pc[p] \in Places
    BY <2>2 DEF TypeOK
  <2>4. pc[p].at # "close"
    BY <2>1, <2>3, PlaceParts DEF Closing
  <2>5. pc[p].at \notin CallPlaces
    BY <2>3 DEF PlaceInv, CallPlaces, ReadPlaces, WritePlaces
  <2> QED BY <2>3, <2>4, <2>5, PlaceParts
<1>2. SleepJustified
  BY FreeFacts DEF SleepJustified, Sleepers, NothingYet
<1> QED BY <1>1, <1>2 DEF PipeSound

\* The page of a pipe is not used after it is freed, and until a process is killed nobody
\* sleeps on the pipe in vain, for any number of processes that share, duplicate and
\* close its ends.
THEOREM PipeInvariant == Spec => []PipeSound
BY Invariant, IInvSound, PTL

-----------------------------------------------------------------------------
(* The remainder of a division *)

\* A remainder differs from the number by a multiple of the divisor.
LEMMA DivMod ==
  ASSUME NEW a \in Int, NEW n \in Int, n > 0
  PROVE  a \div n \in Int /\ a % n = a - n * (a \div n)
OBVIOUS

\* It is below the divisor.
LEMMA ModRange ==
  ASSUME NEW a \in Int, NEW n \in Nat \ {0}
  PROVE  a % n \in 0 .. n - 1 /\ \E q \in Int : a % n = a - n * q
<1>1. n \in Int /\ n > 0
  OBVIOUS
<1>2. \E q \in Int : a % n = a - n * q
  BY <1>1, DivMod, Zenon
<1> QED BY <1>2

\* No other number below the divisor does.
LEMMA ModUnique ==
  ASSUME NEW a \in Int, NEW n \in Nat \ {0}, NEW q \in Int, NEW r \in 0 .. n - 1,
         a = n * q + r
  PROVE  a % n = r
OBVIOUS

\* Adding a multiple of the divisor changes nothing.
LEMMA ModPeriod ==
  ASSUME NEW n \in Nat \ {0}, NEW x \in Int, NEW w \in Int, w % n = 0
  PROVE  (x + w) % n = x % n
<1>1. PICK m \in Int : w % n = w - n * m
  BY ModRange, Zenon
<1>2. PICK q \in Int : x % n = x - n * q
  BY ModRange, Zenon
<1>3. PICK r \in 0 .. n - 1 : r = x % n
  BY ModRange
<1>4. w = n * m
  BY <1>1
<1>5. x = n * q + r
  BY <1>2, <1>3
<1>6. n * (q + m) = n * q + n * m
  OBVIOUS
<1>7. x + w \in Int /\ q + m \in Int /\ x + w = n * (q + m) + r
  BY <1>4, <1>5, <1>6
<1>8. (x + w) % n = r
  BY <1>7, ModUnique, Zenon
<1> QED BY <1>3, <1>8

\* Numbers closer than the divisor have different remainders.
LEMMA ModWindow ==
  ASSUME NEW n \in Nat \ {0}, NEW x \in Int, NEW y \in Int, x < y, y < x + n
  PROVE  y % n # x % n
<1> SUFFICES ASSUME y % n = x % n PROVE FALSE
  OBVIOUS
<1>1. PICK q \in Int : x % n = x - n * q
  BY ModRange, Zenon
<1>2. PICK r \in Int : y % n = y - n * r
  BY ModRange, Zenon
<1>3. y - x = n * (r - q)
  BY <1>1, <1>2
<1> QED BY <1>3

-----------------------------------------------------------------------------
(* The ring *)

\* The difference of two counters.
LEMMA Distance ==
  ASSUME NEW r \in 0 .. WRAP - 1, NEW w \in 0 .. WRAP - 1
  PROVE  (WRAP + w - r) % WRAP = IF r <= w THEN w - r ELSE WRAP + w - r
<1>1. WRAP \in Nat \ {0}
  BY PipeAssumption
<1>2. CASE r <= w
  <2>1. w - r \in 0 .. WRAP - 1 /\ WRAP + w - r = WRAP * 1 + (w - r)
    BY <1>1, <1>2
  <2> QED BY <1>1, <1>2, <2>1, ModUnique
<1>3. CASE ~(r <= w)
  <2>1. WRAP + w - r \in 0 .. WRAP - 1
    BY <1>1, <1>3
  <2> QED BY <1>1, <1>3, <2>1, ModUnique
<1> QED BY <1>2, <1>3

\* What the comparisons of the counters say of the number of bytes in the ring.
LEMMA FillFacts ==
  ASSUME TypeOK
  PROVE  /\ Fill = IF nread <= nwrite THEN nwrite - nread ELSE WRAP + nwrite - nread
         /\ Fill \in 0 .. WRAP - 1
         /\ Empty <=> Fill = 0
         /\ Full <=> Fill = PIPESIZE
<1>1. WRAP \in Nat \ {0} /\ PIPESIZE \in Nat \ {0} /\ PIPESIZE < WRAP
      /\ nread \in 0 .. WRAP - 1 /\ nwrite \in 0 .. WRAP - 1
  BY PipeAssumption DEF TypeOK
<1>2. Fill = IF nread <= nwrite THEN nwrite - nread ELSE WRAP + nwrite - nread
  BY <1>1, Distance DEF Fill
<1>3. (nread + PIPESIZE) % WRAP =
        IF nread + PIPESIZE < WRAP THEN nread + PIPESIZE ELSE nread + PIPESIZE - WRAP
  <2>1. CASE nread + PIPESIZE < WRAP
    <3>1. nread + PIPESIZE \in 0 .. WRAP - 1
      BY <1>1, <2>1
    <3> QED BY <1>1, <2>1, <3>1, ModUnique
  <2>2. CASE ~(nread + PIPESIZE < WRAP)
    <3>1. nread + PIPESIZE - WRAP \in 0 .. WRAP - 1
          /\ nread + PIPESIZE = WRAP * 1 + (nread + PIPESIZE - WRAP)
      BY <1>1, <2>2
    <3> QED BY <1>1, <2>2, <3>1, ModUnique
  <2> QED BY <2>1, <2>2
<1> QED BY <1>1, <1>2, <1>3 DEF Empty, Full

\* A counter goes on by one.
LEMMA NextCounter ==
  ASSUME NEW k \in 0 .. WRAP - 1
  PROVE  (k + 1) % WRAP = IF k = WRAP - 1 THEN 0 ELSE k + 1
BY PipeAssumption


-----------------------------------------------------------------------------
(* Sequences *)

\* A function on 1 .. n is a sequence; what Append, Tail and Head make of it.
LEMMA SeqAppend ==
  ASSUME NEW T, NEW n \in Nat, NEW s \in [1 .. n -> T], NEW v \in T,
         NEW t \in [1 .. n + 1 -> T], t[n + 1] = v, \A k \in 1 .. n : t[k] = s[k]
  PROVE  Len(s) = n /\ t = Append(s, v)
<1>1. s \in Seq(T) /\ Len(s) = n /\ t \in Seq(T) /\ Len(t) = n + 1
  OBVIOUS
<1>2. Append(s, v) \in Seq(T) /\ Len(Append(s, v)) = n + 1
  BY <1>1
<1>3. \A k \in 1 .. n + 1 : Append(s, v)[k] = t[k]
  BY <1>1
<1> QED BY <1>1, <1>2, <1>3

\* The rest of a sequence.
LEMMA SeqTail ==
  ASSUME NEW T, NEW n \in Nat \ {0}, NEW s \in [1 .. n -> T],
         NEW t \in [1 .. n - 1 -> T], \A k \in 1 .. n - 1 : t[k] = s[k + 1]
  PROVE  s # << >> /\ t = Tail(s) /\ Head(s) = s[1]
<1>1. s \in Seq(T) /\ Len(s) = n /\ t \in Seq(T) /\ Len(t) = n - 1
  OBVIOUS
<1>2. Tail(s) \in Seq(T) /\ Len(Tail(s)) = n - 1 /\ s # << >>
  BY <1>1
<1>3. \A k \in 1 .. n - 1 : Tail(s)[k] = t[k]
  BY <1>1
<1> QED BY <1>1, <1>2, <1>3

-----------------------------------------------------------------------------
(* The ring is a queue *)

\* The bytes of the ring from a counter on.
LEMMA RingSeq ==
  ASSUME NEW r \in 0 .. WRAP - 1, NEW n \in Nat,
         NEW d \in [0 .. PIPESIZE - 1 -> Val \cup {None}]
  PROVE  [k \in 1 .. n |-> d[(r + k - 1) % PIPESIZE]] \in [1 .. n -> Val \cup {None}]
<1>1. \A k \in 1 .. n : (r + k - 1) % PIPESIZE \in 0 .. PIPESIZE - 1
  <2> SUFFICES ASSUME NEW k \in 1 .. n
               PROVE  (r + k - 1) % PIPESIZE \in 0 .. PIPESIZE - 1
    OBVIOUS
  <2>1. r + k - 1 \in Int /\ PIPESIZE \in Nat \ {0}
    BY PipeAssumption
  <2> QED BY <2>1, ModRange, Zenon
<1> QED BY <1>1, Zenon

\* A byte goes in behind the last one.
LEMMA PutStep ==
  ASSUME TypeOK, TypeOK', RingInv, NEW p \in Proc, WriteByte(p)
  PROVE  RingInv' /\ Queue!Put
<1>1. PICK v \in Val :
        /\ ~Full /\ data' = [data EXCEPT ![nwrite % PIPESIZE] = v]
        /\ nwrite' = (nwrite + 1) % WRAP /\ nread' = nread /\ event' = <<"put", v>>
  BY Zenon DEF WriteByte
<1>2. /\ WRAP \in Nat \ {0} /\ PIPESIZE \in Nat \ {0} /\ WRAP % PIPESIZE = 0
      /\ nread \in 0 .. WRAP - 1 /\ nwrite \in 0 .. WRAP - 1
  BY PipeAssumption DEF TypeOK
<1>3. Fill \in Nat /\ Fill < PIPESIZE
  BY <1>1, <1>2, FillFacts DEF RingInv
<1>4. Fill' = Fill + 1
  <2>1. Fill' = IF nread' <= nwrite' THEN nwrite' - nread' ELSE WRAP + nwrite' - nread'
    BY Distance, Zenon DEF Fill, TypeOK
  <2>2. nwrite' = IF nwrite = WRAP - 1 THEN 0 ELSE nwrite + 1
    BY <1>1, <1>2, NextCounter
  <2>3. Fill < WRAP - 1
    BY <1>3, PipeAssumption
  <2> QED BY <1>1, <1>2, <2>1, <2>2, <2>3, FillFacts
<1>5. (nread + Fill) % PIPESIZE = nwrite % PIPESIZE
  <2>1. nread + Fill = nwrite \/ nread + Fill = nwrite + WRAP
    BY <1>2, FillFacts
  <2>2. nwrite \in Int /\ WRAP \in Int
    BY <1>2
  <2>3. (nwrite + WRAP) % PIPESIZE = nwrite % PIPESIZE
    BY <1>2, <2>2, ModPeriod, Zenon
  <2> QED BY <2>1, <2>3
<1>6. ASSUME NEW k \in 1 .. Fill
      PROVE  (nread + k - 1) % PIPESIZE # nwrite % PIPESIZE
  <2>1. /\ nread + k - 1 \in Int /\ nread + Fill \in Int
        /\ nread + k - 1 < nread + Fill /\ nread + Fill < nread + k - 1 + PIPESIZE
    BY <1>2, <1>3
  <2>2. (nread + Fill) % PIPESIZE # (nread + k - 1) % PIPESIZE
    BY <1>2, <2>1, ModWindow, Zenon
  <2> QED BY <1>5, <2>2
<1>7. queue \in [1 .. Fill -> Val \cup {None}] /\ queue' \in [1 .. Fill + 1 -> Val \cup {None}]
  <2>1. /\ nread \in 0 .. WRAP - 1 /\ data \in [0 .. PIPESIZE - 1 -> Val \cup {None}]
        /\ nread' \in 0 .. WRAP - 1 /\ data' \in [0 .. PIPESIZE - 1 -> Val \cup {None}]
    BY DEF TypeOK
  <2>2. Fill \in Nat /\ Fill + 1 \in Nat
    BY <1>3
  <2>3. [k \in 1 .. Fill |-> data[(nread + k - 1) % PIPESIZE]] \in [1 .. Fill -> Val \cup {None}]
    BY <2>1, <2>2, RingSeq, Zenon
  <2>4. [k \in 1 .. Fill + 1 |-> data'[(nread' + k - 1) % PIPESIZE]]
          \in [1 .. Fill + 1 -> Val \cup {None}]
    BY <2>1, <2>2, RingSeq, Zenon
  <2>5. queue' = [k \in 1 .. Fill + 1 |-> data'[(nread' + k - 1) % PIPESIZE]]
    BY <1>4, Zenon DEF queue
  <2> QED BY <2>3, <2>4, <2>5, Zenon DEF queue
<1>8. \A i \in 0 .. PIPESIZE - 1 :
        data'[i] = IF i = nwrite % PIPESIZE THEN v ELSE data[i]
  BY <1>1 DEF TypeOK
<1>9. \A k \in 1 .. Fill + 1 : (nread + k - 1) % PIPESIZE \in 0 .. PIPESIZE - 1
  <2> SUFFICES ASSUME NEW k \in 1 .. Fill + 1
               PROVE  (nread + k - 1) % PIPESIZE \in 0 .. PIPESIZE - 1
    OBVIOUS
  <2>1. nread + k - 1 \in Int
    BY <1>2, <1>3
  <2> QED BY <1>2, <2>1, ModRange, Zenon
<1>10. \A k \in 1 .. Fill + 1 : queue'[k] = data'[(nread + k - 1) % PIPESIZE]
  BY <1>1, <1>4 DEF queue
<1>11. queue'[Fill + 1] = v
  <2>1. Fill + 1 \in 1 .. Fill + 1 /\ nread + (Fill + 1) - 1 = nread + Fill
    BY <1>2, <1>3
  <2> QED BY <1>5, <1>8, <1>9, <1>10, <2>1
<1>12. \A k \in 1 .. Fill : queue'[k] = queue[k]
  <2> SUFFICES ASSUME NEW k \in 1 .. Fill PROVE queue'[k] = queue[k]
    OBVIOUS
  <2>1. k \in 1 .. Fill + 1
    BY <1>3
  <2>2. queue[k] = data[(nread + k - 1) % PIPESIZE]
    BY DEF queue
  <2> QED BY <1>6, <1>8, <1>9, <1>10, <2>1, <2>2
<1>13. Len(queue) = Fill /\ queue' = Append(queue, v)
  BY <1>3, <1>7, <1>11, <1>12, SeqAppend
<1>14. RingInv'
  BY <1>2, <1>3, <1>4 DEF RingInv
<1> QED BY <1>1, <1>3, <1>13, <1>14 DEF Queue!Put

\* The oldest byte comes out.
LEMMA TakeStep ==
  ASSUME TypeOK, TypeOK', RingInv, NEW p \in Proc, ReadByte(p)
  PROVE  RingInv' /\ Queue!Take
<1>1. /\ ~Empty /\ data' = data /\ nwrite' = nwrite
      /\ nread' = (nread + 1) % WRAP /\ event' = <<"take", data[nread % PIPESIZE]>>
  BY DEF ReadByte
<1>2. /\ WRAP \in Nat \ {0} /\ PIPESIZE \in Nat \ {0} /\ WRAP % PIPESIZE = 0
      /\ nread \in 0 .. WRAP - 1 /\ nwrite \in 0 .. WRAP - 1
  BY PipeAssumption DEF TypeOK
<1>3. Fill \in Nat \ {0}
  BY <1>1, <1>2, FillFacts
<1>4. nread' = IF nread = WRAP - 1 THEN 0 ELSE nread + 1
  BY <1>1, <1>2, NextCounter
<1>5. Fill' = Fill - 1
  <2>1. Fill' = IF nread' <= nwrite' THEN nwrite' - nread' ELSE WRAP + nwrite' - nread'
    BY Distance, Zenon DEF Fill, TypeOK
  <2> QED BY <1>1, <1>2, <1>3, <1>4, <2>1, FillFacts
<1>6. queue \in [1 .. Fill -> Val \cup {None}] /\ queue' \in [1 .. Fill - 1 -> Val \cup {None}]
  <2>1. /\ nread \in 0 .. WRAP - 1 /\ data \in [0 .. PIPESIZE - 1 -> Val \cup {None}]
        /\ nread' \in 0 .. WRAP - 1 /\ data' \in [0 .. PIPESIZE - 1 -> Val \cup {None}]
    BY DEF TypeOK
  <2>2. Fill \in Nat /\ Fill - 1 \in Nat
    BY <1>3
  <2>3. [k \in 1 .. Fill |-> data[(nread + k - 1) % PIPESIZE]] \in [1 .. Fill -> Val \cup {None}]
    BY <2>1, <2>2, RingSeq, Zenon
  <2>4. [k \in 1 .. Fill - 1 |-> data'[(nread' + k - 1) % PIPESIZE]]
          \in [1 .. Fill - 1 -> Val \cup {None}]
    BY <2>1, <2>2, RingSeq, Zenon
  <2>5. queue' = [k \in 1 .. Fill - 1 |-> data'[(nread' + k - 1) % PIPESIZE]]
    BY <1>5, Zenon DEF queue
  <2> QED BY <2>3, <2>4, <2>5, Zenon DEF queue
<1>7. \A k \in 1 .. Fill - 1 : queue'[k] = queue[k + 1]
  <2> SUFFICES ASSUME NEW k \in 1 .. Fill - 1 PROVE queue'[k] = queue[k + 1]
    OBVIOUS
  <2>1. queue'[k] = data[(nread' + k - 1) % PIPESIZE]
    BY <1>1, <1>5 DEF queue
  <2>2. k + 1 \in 1 .. Fill /\ k \in Int
    BY <1>3
  <2>3. queue[k + 1] = data[(nread + (k + 1) - 1) % PIPESIZE]
    BY <2>2 DEF queue
  <2>4. (nread' + k - 1) % PIPESIZE = (nread + (k + 1) - 1) % PIPESIZE
    <3>1. CASE nread = WRAP - 1
      <4>1. k - 1 \in Int /\ WRAP \in Int
        BY <1>2, <2>2
      <4>2. ((k - 1) + WRAP) % PIPESIZE = (k - 1) % PIPESIZE
        BY <1>2, <4>1, ModPeriod, Zenon
      <4>3. nread' + k - 1 = k - 1 /\ nread + (k + 1) - 1 = (k - 1) + WRAP
        BY <1>2, <1>4, <2>2, <3>1
      <4> QED BY <4>2, <4>3
    <3>2. CASE nread # WRAP - 1
      <4>1. nread' + k - 1 = nread + (k + 1) - 1
        BY <1>2, <1>4, <2>2, <3>2
      <4> QED BY <4>1
    <3> QED BY <3>1, <3>2
  <2> QED BY <2>1, <2>3, <2>4
<1>8. queue # << >> /\ queue' = Tail(queue) /\ Head(queue) = queue[1]
  BY <1>3, <1>6, <1>7, SeqTail
<1>9. queue[1] = data[nread % PIPESIZE]
  <2>1. 1 \in 1 .. Fill /\ nread + 1 - 1 = nread
    BY <1>2, <1>3
  <2>2. queue[1] = data[(nread + 1 - 1) % PIPESIZE]
    BY <2>1 DEF queue
  <2> QED BY <2>1, <2>2
<1>10. RingInv'
  BY <1>2, <1>3, <1>5 DEF RingInv
<1> QED BY <1>1, <1>8, <1>9, <1>10 DEF Queue!Take

\* The other steps leave the ring alone.
LEMMA QuietStep ==
  ASSUME RingInv, UNCHANGED <<data, nread, nwrite>>
  PROVE  RingInv' /\ queue' = queue
BY DEF RingInv, Fill, queue

\* Every step of the pipe is a step of the queue.
LEMMA FifoStep ==
  ASSUME TypeOK, TypeOK', RingInv, [Next]_vars
  PROVE  RingInv' /\ [Queue!Put \/ Queue!Take \/ Queue!Quiet]_(Queue!vars)
<1>1. CASE UNCHANGED vars
  BY <1>1, QuietStep DEF vars, Queue!vars
<1>2. CASE \E p \in Proc : WriteByte(p)
  BY <1>2, PutStep
<1>3. CASE \E p \in Proc : ReadByte(p)
  BY <1>3, TakeStep
<1>4. ASSUME Next, ~ \E p \in Proc : WriteByte(p), ~ \E p \in Proc : ReadByte(p)
      PROVE  UNCHANGED <<data, nread, nwrite>> /\ event' = None
  <2>1. PICK p \in Proc :
          Kernel(p) \/ WriteBegin(p) \/ ReadBegin(p) \/ Dup(p) \/ Close(p) \/ Kill(p)
    BY <1>4 DEF Next
  <2>2. \/ PipeClose(p) \/ WriteBegin(p) \/ WriteFail(p) \/ WriteSleep(p) \/ WriteDone(p)
        \/ ReadBegin(p) \/ ReadKilled(p) \/ ReadSleep(p) \/ ReadStart(p) \/ ReadDone(p)
        \/ Dup(p) \/ Close(p) \/ Kill(p)
    BY <1>4, <2>1 DEF Kernel
  <2>3. UNCHANGED ringVars /\ event' = None
    BY <2>2 DEF PipeClose, WriteBegin, WriteFail, WriteSleep, WriteDone, ReadBegin, ReadKilled,
       ReadSleep, ReadStart, ReadDone, Dup, Close, Kill
  <2> QED BY <2>3 DEF ringVars
<1>5. CASE Next /\ (~ \E p \in Proc : WriteByte(p)) /\ (~ \E p \in Proc : ReadByte(p))
  BY <1>4, <1>5, QuietStep DEF Queue!Quiet
<1> QED BY <1>1, <1>2, <1>3, <1>5

\* A new pipe is an empty queue.
LEMMA FifoInit == Init => RingInv /\ Queue!Init
<1> SUFFICES ASSUME Init PROVE RingInv /\ Queue!Init
  OBVIOUS
<1>1. TypeOK /\ Empty
  BY InitIInv DEF IInv, Init, Empty
<1>2. Fill = 0
  BY <1>1, FillFacts
<1>3. queue = << >>
  BY <1>2 DEF queue
<1> QED BY <1>2, <1>3, PipeAssumption DEF RingInv, Init, Queue!Init

\* The ring with its counters that wrap around is a bounded first-in first-out queue: no
\* byte is lost, repeated, invented or overtaken, for every ring whose size divides the
\* range of the counters.
THEOREM FifoRefinement == Spec => ImplementsFifo
<1>1. Spec => []TypeOK
  BY Invariant, PTL DEF IInv
<1>2. Init => RingInv /\ Queue!Init
  BY FifoInit
<1>3. TypeOK /\ TypeOK' /\ RingInv /\ [Next]_vars =>
        RingInv' /\ [Queue!Put \/ Queue!Take \/ Queue!Quiet]_(Queue!vars)
  BY FifoStep
<1> QED BY <1>1, <1>2, <1>3, PTL DEF Spec, ImplementsFifo, Queue!Spec
=============================================================================
