------------------------------ MODULE Console -------------------------------
(***************************************************************************)
(* Console input, kernel/console.c: consoleintr() edits lines in a         *)
(* circular buffer and consoleread() hands them to several readers.        *)
(*                                                                         *)
(* consoleintr() runs under cons.lock and is one action.  consoleread()    *)
(* gives the lock up in sleep() only: each character it takes is an action *)
(* in which the process keeps the lock.                                    *)
(***************************************************************************)
EXTENDS Naturals, Sequences, FiniteSetsExt

CONSTANTS
  Proc,
  INPUT_BUF_SIZE,
  WRAP,        \* r, w and e count modulo WRAP, 2^32 in the code
  MaxRead,     \* the longest read()
  None

Char == {"x", "newline", "eof"}
Enders == {"newline", "eof"}

\* What the constants have to satisfy.
ConsoleAssumption ==
  /\ INPUT_BUF_SIZE \in Nat \ {0}
  /\ WRAP \in Nat /\ WRAP > INPUT_BUF_SIZE /\ WRAP % INPUT_BUF_SIZE = 0
  /\ MaxRead \in Nat
  /\ None \notin Proc

VARIABLES
  buf,         \* cons.buf, without the characters already read
  r, w, e,     \* read, write and edit index
  lock,        \* the reader that holds cons.lock
  rd,          \* for each process: is it in consoleread(), n and target
  asleep,      \* readers in sleep()
  killed

vars == <<buf, r, w, e, lock, rd, asleep, killed>>

Place == 0 .. INPUT_BUF_SIZE - 1
Count == 0 .. WRAP - 1
Idle == [at |-> "idle", n |-> 0, target |-> 0]

Init ==
  /\ buf = [i \in Place |-> None]
  /\ r = 0 /\ w = 0 /\ e = 0
  /\ lock = None
  /\ rd = [p \in Proc |-> Idle]
  /\ asleep = {}
  /\ killed = {}

\* Unsigned arithmetic on the indices, and the character at an index.
Plus(i) == (i + 1) % WRAP
Minus(i) == (i + WRAP - 1) % WRAP
Distance(i, j) == (j + WRAP - i) % WRAP
CharAt(i) == buf[i % INPUT_BUF_SIZE]

-----------------------------------------------------------------------------
(* consoleintr() *)

\* Room for one character too many.
RoomOver == Distance(r, e) <= INPUT_BUF_SIZE

\* Is there room for one more character?
Room == Distance(r, e) < INPUT_BUF_SIZE

\* The end of a line that wakes nobody.
StoreQuiet(c) ==
  LET ends == c \in Enders \/ Distance(r, Plus(e)) = INPUT_BUF_SIZE IN
  /\ lock = None /\ Room
  /\ buf' = [buf EXCEPT ![e % INPUT_BUF_SIZE] = c]
  /\ e' = Plus(e)
  /\ w' = IF ends THEN Plus(e) ELSE w
  /\ UNCHANGED <<r, lock, rd, asleep, killed>>

\* A character is stored; the end of a line, or a full buffer, wakes the readers.
Store(c) ==
  LET ends == c \in Enders \/ Distance(r, Plus(e)) = INPUT_BUF_SIZE IN
  /\ lock = None /\ Room
  /\ buf' = [buf EXCEPT ![e % INPUT_BUF_SIZE] = c]
  /\ e' = Plus(e)
  /\ w' = IF ends THEN Plus(e) ELSE w
  /\ asleep' = IF ends THEN {} ELSE asleep
  /\ UNCHANGED <<r, lock, rd, killed>>

\* Backspace takes back one character of the line.
Backspace ==
  /\ lock = None /\ e # w
  /\ e' = Minus(e)
  /\ UNCHANGED <<buf, r, w, lock, rd, asleep, killed>>

\* Kill line goes back to the last newline or to the end of what is ready.
Killed == Max({ k \in 0 .. Distance(w, e) :
                  \A i \in 1 .. k : CharAt((e + WRAP - i) % WRAP) # "newline" })

KillLine ==
  /\ lock = None /\ Killed > 0
  /\ e' = (e + WRAP - Killed) % WRAP
  /\ UNCHANGED <<buf, r, w, lock, rd, asleep, killed>>

\* A character that finds no room, or nothing to erase, changes nothing.
Ignore == lock = None /\ (~Room \/ e = w) /\ UNCHANGED vars

-----------------------------------------------------------------------------
(* consoleread() *)

\* A process reads up to n characters.
ReadBegin(p, n) ==
  /\ rd[p] = Idle /\ lock = None /\ p \notin killed
  /\ lock' = p
  /\ rd' = [rd EXCEPT ![p] = [at |-> "read", n |-> n, target |-> n]]
  /\ UNCHANGED <<buf, r, w, e, asleep, killed>>

\* sleep() returns, with the lock.
ReadWake(p) ==
  /\ rd[p].at = "sleep" /\ p \notin asleep /\ lock = None
  /\ lock' = p
  /\ rd' = [rd EXCEPT ![p].at = "read"]
  /\ UNCHANGED <<buf, r, w, e, asleep, killed>>

Reading(p) == rd[p].at = "read" /\ lock = p
Return(p) == rd' = [rd EXCEPT ![p] = Idle] /\ lock' = None

\* There is nothing to read: a killed process returns, and others decide to sleep.
ReadWait(p) ==
  /\ Reading(p) /\ rd[p].n > 0 /\ r = w
  /\ IF p \in killed THEN Return(p) ELSE UNCHANGED lock /\ rd' = [rd EXCEPT ![p].at = "wait"]
  /\ UNCHANGED <<buf, r, w, e, asleep, killed>>

\* sleep().  A kill after the look at p->killed does not keep p awake.
ReadSleep(p) ==
  /\ rd[p].at = "wait"
  /\ rd' = [rd EXCEPT ![p].at = "sleep"]
  /\ lock' = None
  /\ asleep' = asleep \cup {p}
  /\ UNCHANGED <<buf, r, w, e, killed>>

\* One character; end of file and newline end the read, and an end of file that
\* follows other characters stays for the next read.  A failing copy ends it as well.
ReadChar(p) ==
  LET c == CharAt(r)
      stays == c = "eof" /\ rd[p].n < rd[p].target
  IN
  /\ Reading(p) /\ rd[p].n > 0 /\ r # w
  /\ r' = IF stays THEN r ELSE Plus(r)
  /\ buf' = IF stays THEN buf ELSE [buf EXCEPT ![r % INPUT_BUF_SIZE] = None]
  /\ \/ Return(p)
     \/ c \notin Enders /\ rd' = [rd EXCEPT ![p].n = @ - 1] /\ UNCHANGED lock
  /\ UNCHANGED <<w, e, asleep, killed>>

\* All that was asked for is read.
ReadDone(p) ==
  /\ Reading(p) /\ rd[p].n = 0
  /\ Return(p)
  /\ UNCHANGED <<buf, r, w, e, asleep, killed>>

\* kkill() sets the flag and wakes the process.
Kill(p) ==
  /\ p \notin killed
  /\ killed' = killed \cup {p}
  /\ asleep' = asleep \ {p}
  /\ UNCHANGED <<buf, r, w, e, lock, rd>>

\* The killed process is gone, and another takes its place.
Exit(p) ==
  /\ rd[p] = Idle /\ p \in killed
  /\ killed' = killed \ {p}
  /\ UNCHANGED <<buf, r, w, e, lock, rd, asleep>>

Read(p) == ReadWait(p) \/ ReadSleep(p) \/ ReadChar(p) \/ ReadDone(p)

Next ==
  \/ (\E c \in Char : Store(c)) \/ Backspace \/ KillLine \/ Ignore
  \/ \E p \in Proc :
       \/ \E n \in 0 .. MaxRead : ReadBegin(p, n)
       \/ ReadWake(p) \/ Read(p) \/ Kill(p) \/ Exit(p)

Spec == Init /\ [][Next]_vars

\* A process gets a lock that is free again and again, and goes on while it has it.
Fairness == \A p \in Proc : SF_vars(ReadWake(p)) /\ WF_vars(Read(p))

-----------------------------------------------------------------------------
(* Properties *)

\* Every variable has its type, and the indices their width.
TypeOK ==
  /\ buf \in [Place -> Char \cup {None}]
  /\ r \in Count /\ w \in Count /\ e \in Count
  /\ lock \in Proc \cup {None}
  /\ rd \in [Proc -> [at : {"idle", "read", "wait", "sleep"}, n : 0 .. MaxRead, target : 0 .. MaxRead]]
  /\ asleep \subseteq Proc /\ killed \subseteq Proc

\* No reader sleeps while there is something to read: whatever consoleintr() makes
\* ready wakes the readers, and what a reader leaves (the rest of the input, or an end
\* of file that it puts back) is seen by the others before they sleep.
SleepJustified == asleep # {} => r = w

\* Input that is ready does not stay while a process waits for it: the process runs again
\* with the lock, however the others read, unless they leave nothing.
LineTaken ==
  \A p \in Proc : (r # w /\ rd[p].at = "sleep") ~> (r = w \/ rd[p].at # "sleep")

\* The characters from index i to index j.
Chars(i, j) == [k \in 1 .. Distance(i, j) |-> CharAt((i + k - 1) % WRAP)]
Lines == INSTANCE LineInput WITH
  Size <- INPUT_BUF_SIZE, ready <- Chars(r, w), edit <- Chars(w, e)

\* The circular buffer with three wrapping indices is a queue of finished lines and the
\* line being typed: no character is lost, repeated or read before its line is finished,
\* at a full buffer and at the wrap too.
ImplementsLines == Lines!Spec

=============================================================================
