-------------------------------- MODULE Fifo --------------------------------
(***************************************************************************)
(* What a pipe promises: a bounded queue of bytes.  A byte that is read is *)
(* the oldest one written, and no byte is lost, repeated or invented.      *)
(***************************************************************************)
EXTENDS Naturals, Sequences

CONSTANTS Size, Val, None

VARIABLES
  queue,       \* the bytes written and not yet read
  event        \* the byte that the last step wrote or read

Init == queue = << >> /\ event = None

\* A byte goes in if there is room.
Put == \E v \in Val :
  /\ Len(queue) < Size
  /\ queue' = Append(queue, v)
  /\ event' = <<"put", v>>

\* The oldest byte comes out.
Take ==
  /\ queue # << >>
  /\ queue' = Tail(queue)
  /\ event' = <<"take", Head(queue)>>

\* A step that moves no byte.
Quiet == UNCHANGED queue /\ event' = None

vars == <<queue, event>>
Spec == Init /\ [][Put \/ Take \/ Quiet]_vars
=============================================================================
