----------------------------- MODULE LineInput ------------------------------
(***************************************************************************)
(* What the console promises a reader: the characters of finished lines,   *)
(* in the order they were typed and as they were edited.                   *)
(***************************************************************************)
EXTENDS Naturals, Sequences, SequencesExt

CONSTANTS Char, Enders, Size

VARIABLES
  ready,       \* characters that may be read
  edit         \* the line that is being typed

Init == ready = <<>> /\ edit = <<>>

\* A character is typed; it may finish the line, as does a full buffer.
Key(c) ==
  /\ Len(ready) + Len(edit) < Size
  /\ IF c \in Enders \/ Len(ready) + Len(edit) + 1 = Size
     THEN ready' = ready \o Append(edit, c) /\ edit' = <<>>
     ELSE edit' = Append(edit, c) /\ UNCHANGED ready

\* Backspace, and kill line.
Erase == edit # <<>> /\ edit' \in {Front(edit), <<>>} /\ UNCHANGED ready

\* A reader takes the next character.
Take == ready # <<>> /\ ready' = Tail(ready) /\ UNCHANGED edit

Next == (\E c \in Char : Key(c)) \/ Erase \/ Take

Spec == Init /\ [][Next]_<<ready, edit>>
=============================================================================
