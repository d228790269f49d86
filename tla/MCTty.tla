----------------------------- MODULE MCTty --------------------------------
(***************************************************************************)
(* Console input and console output in one run.  They share no state here  *)
(* (uartintr() hands the characters over one by one): each behaviour is    *)
(* one of one part, while the other stays in its initial state, where      *)
(* nothing that it promises to do is enabled.  The state spaces add up.    *)
(***************************************************************************)
EXTENDS Uart

CONSTANTS p1, p2, c1, c2, INPUT_BUF_SIZE, WRAP, MaxRead, None

VARIABLES
  part,                                                \* which one runs
  buf, r, w, e, cons_lock, rd, readers, killed         \* of Console

C == INSTANCE Console WITH lock <- cons_lock, asleep <- readers

ASSUME TtyAssumption == C!ConsoleAssumption

consVars == <<buf, r, w, e, cons_lock, rd, readers, killed>>

MCInit == part \in {"console", "uart"} /\ Init /\ C!Init

MCNext ==
  /\ UNCHANGED part
  /\ \/ part = "uart" /\ Next /\ UNCHANGED consVars
     \/ part = "console" /\ C!Next /\ UNCHANGED vars

MCSpec == MCInit /\ [][MCNext]_<<part, vars, consVars>> /\ Fairness /\ C!Fairness

\* No byte is sent to a full FIFO, no writer sleeps while the UART is free, and no reader
\* of the console while there is something to read; all variables have their types.
TtySound ==
  /\ TypeOK /\ FifoFits /\ SleepJustified
  /\ C!TypeOK /\ C!SleepJustified

\* Console input that is ready does not stay while a process waits for it.
LineTaken == C!LineTaken

\* The edit buffer of the console is a queue of finished lines and the line being typed.
ImplementsLines == C!ImplementsLines
=============================================================================
