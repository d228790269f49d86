----------------------------- MODULE BlockStore -----------------------------
(***************************************************************************)
(* What the buffer cache promises its users: a block with one holder at a  *)
(* time, who sees what the last holder left in it.                         *)
(***************************************************************************)
CONSTANTS Proc, Block, Val, None

VARIABLES holder, content

Init ==
  /\ holder = [b \in Block |-> None]
  /\ content \in [Block -> Val]

\* bread() returns.
Lock(p, b) ==
  /\ holder[b] = None
  /\ holder' = [holder EXCEPT ![b] = p]
  /\ UNCHANGED content

\* The holder changes the block.
Put(p, b, v) ==
  /\ holder[b] = p
  /\ content' = [content EXCEPT ![b] = v]
  /\ UNCHANGED holder

\* brelse()
Unlock(p, b) ==
  /\ holder[b] = p
  /\ holder' = [holder EXCEPT ![b] = None]
  /\ UNCHANGED content

Next ==
  \E p \in Proc, b \in Block :
    Lock(p, b) \/ Unlock(p, b) \/ \E v \in Val : Put(p, b, v)

Spec == Init /\ [][Next]_<<holder, content>>
=============================================================================
