------------------------------- MODULE Uart ---------------------------------
(***************************************************************************)
(* Console output, kernel/uart.c: write() system calls send through        *)
(* uartwrite(), which waits for interrupts, while printf() and the echo of *)
(* typed characters use uartputc_sync(), which takes no lock.              *)
(*                                                                         *)
(* The device and the interrupt controller are not kernel code.  The 16550 *)
(* has a FIFO; it raises an interrupt when the FIFO becomes empty, and     *)
(* reading ISR takes that interrupt back unless input has priority.  One   *)
(* CPU at a time serves the interrupt.                                     *)
(*                                                                         *)
(* What is done under tx_lock is one action.  uartputc_sync() is two, and  *)
(* interrupts of its CPU are off between them.                             *)
(***************************************************************************)
EXTENDS Naturals, FiniteSets

CONSTANTS
  Cpu, Proc,
  FifoSize,    \* 16 in a 16550
  MaxWrite,    \* bytes of one write()
  MaxWrites,   \* bound on the write()s of a process
  MaxSync,     \* bound on the characters of printf() and echo
  MaxInput     \* bound on the characters typed

ASSUME UartAssumption ==
  /\ IsFiniteSet(Cpu) /\ IsFiniteSet(Proc)
  /\ FifoSize \in Nat /\ FifoSize > Cardinality(Cpu)
  /\ {MaxWrite, MaxWrites, MaxSync, MaxInput} \subseteq Nat

VARIABLES
  fifo,        \* bytes in the transmit FIFO
  txirq,       \* the FIFO became empty and nobody was told
  rx,          \* characters waiting in RHR
  typed,       \* characters typed so far
  cpu,         \* what each CPU does for the UART
  serving,     \* CPUs that are in uartintr(); at most one
  tx_busy,
  wr,          \* for each process, the bytes that uartwrite() has left
  asleep,      \* processes in sleep(&tx_chan)
  writes,      \* write() calls that each process has left
  sync         \* characters left for uartputc_sync()

vars == <<fifo, txirq, rx, typed, cpu, serving, tx_busy, wr, asleep, writes, sync>>

Init ==
  /\ fifo = 0 /\ txirq = FALSE /\ rx = 0 /\ typed = 0
  /\ cpu = [c \in Cpu |-> "free"] /\ serving = {}
  /\ tx_busy = FALSE
  /\ wr = [p \in Proc |-> 0] /\ asleep = {}
  /\ writes = [p \in Proc |-> MaxWrites] /\ sync = MaxSync

-----------------------------------------------------------------------------
(* The device *)

\* A byte goes out on the wire.
Transmit ==
  /\ fifo > 0
  /\ fifo' = fifo - 1
  /\ txirq' = (fifo = 1)
  /\ UNCHANGED <<rx, typed, cpu, serving, tx_busy, wr, asleep, writes, sync>>

\* A character is typed.
Receive ==
  /\ typed < MaxInput
  /\ typed' = typed + 1 /\ rx' = rx + 1
  /\ UNCHANGED <<fifo, txirq, cpu, serving, tx_busy, wr, asleep, writes, sync>>

TxIdle == fifo = 0

\* WriteReg(THR, c): the FIFO has one more byte and is not empty.
WriteThr == fifo' = fifo + 1 /\ txirq' = FALSE

-----------------------------------------------------------------------------
(* uartwrite() *)

\* consolewrite() passes a batch of n bytes to uartwrite().
WriteBegin(p, n) ==
  /\ wr[p] = 0 /\ writes[p] > 0
  /\ wr' = [wr EXCEPT ![p] = n]
  /\ writes' = [writes EXCEPT ![p] = @ - 1]
  /\ UNCHANGED <<fifo, txirq, rx, typed, cpu, serving, tx_busy, asleep, sync>>

\* A uartwrite() that goes on without waiting for the byte before.
UartwriteEager(p) ==
  /\ wr[p] > 0 /\ p \notin asleep
  /\ \E c \in Cpu : cpu[c] = "free"
  /\ WriteThr
  /\ wr' = [wr EXCEPT ![p] = @ - 1]
  /\ tx_busy' = TRUE
  /\ UNCHANGED <<rx, typed, cpu, serving, asleep, writes, sync>>

\* With tx_lock: wait while the UART is busy; else send a byte, and wait with the rest.
Uartwrite(p) ==
  /\ wr[p] > 0 /\ p \notin asleep
  /\ \E c \in Cpu : cpu[c] = "free"
  /\ IF tx_busy
     THEN asleep' = asleep \cup {p} /\ UNCHANGED <<fifo, txirq, tx_busy, wr>>
     ELSE /\ WriteThr
          /\ wr' = [wr EXCEPT ![p] = @ - 1]
          /\ tx_busy' = TRUE
          /\ asleep' = IF wr[p] > 1 THEN asleep \cup {p} ELSE asleep
  /\ UNCHANGED <<rx, typed, cpu, serving, writes, sync>>

\* kkill() wakes a process, which looks at tx_busy again.
Kill(p) ==
  /\ p \in asleep
  /\ asleep' = asleep \ {p}
  /\ UNCHANGED <<fifo, txirq, rx, typed, cpu, serving, tx_busy, wr, writes, sync>>

-----------------------------------------------------------------------------
(* uartputc_sync(), from printf() on a CPU or from consoleintr() *)

\* The CPU sees that the UART is idle ...
SyncIdle(c) ==
  /\ cpu[c] = "free" \/ cpu[c] = "input"
  /\ sync > 0 /\ TxIdle
  /\ sync' = sync - 1
  /\ cpu' = [cpu EXCEPT ![c] = "putc"]
  /\ UNCHANGED <<fifo, txirq, rx, typed, serving, tx_busy, wr, asleep, writes>>

\* ... and writes, whatever happened to the UART meanwhile.
SyncPut(c) ==
  /\ cpu[c] = "putc"
  /\ WriteThr
  /\ cpu' = [cpu EXCEPT ![c] = IF c \in serving THEN "input" ELSE "free"]
  /\ UNCHANGED <<rx, typed, serving, tx_busy, wr, asleep, writes, sync>>

-----------------------------------------------------------------------------
(* uartintr() *)

IntrAck(c) ==
  /\ cpu[c] = "free" /\ serving = {}
  /\ txirq \/ rx > 0
  /\ txirq' = (txirq /\ rx > 0)
  /\ serving' = {c}
  /\ cpu' = [cpu EXCEPT ![c] = "acked"]
  /\ UNCHANGED <<fifo, rx, typed, tx_busy, wr, asleep, writes, sync>>

\* An interrupt handler that does not wake.
IntrTxSilent(c) ==
  /\ cpu[c] = "acked"
  /\ tx_busy' = (tx_busy /\ ~TxIdle)
  /\ cpu' = [cpu EXCEPT ![c] = "input"]
  /\ UNCHANGED <<fifo, txirq, rx, typed, serving, wr, asleep, writes, sync>>

\* With tx_lock: an idle UART is not busy any more, and those who wait are woken.
IntrTx(c) ==
  /\ cpu[c] = "acked"
  /\ IF TxIdle THEN tx_busy' = FALSE /\ asleep' = {} ELSE UNCHANGED <<tx_busy, asleep>>
  /\ cpu' = [cpu EXCEPT ![c] = "input"]
  /\ UNCHANGED <<fifo, txirq, rx, typed, serving, wr, writes, sync>>

\* The characters that were typed go to consoleintr(), which may echo; then it returns.
IntrRx(c) ==
  /\ cpu[c] = "input"
  /\ IF rx > 0
     THEN rx' = rx - 1 /\ UNCHANGED <<cpu, serving>>
     ELSE cpu' = [cpu EXCEPT ![c] = "free"] /\ serving' = {} /\ UNCHANGED rx
  /\ UNCHANGED <<fifo, txirq, typed, tx_busy, wr, asleep, writes, sync>>

Handler(c) == SyncPut(c) \/ IntrAck(c) \/ IntrTx(c) \/ IntrRx(c)

Next ==
  \/ Transmit \/ Receive
  \/ \E p \in Proc : (\E n \in 1 .. MaxWrite : WriteBegin(p, n)) \/ Uartwrite(p) \/ Kill(p)
  \/ \E c \in Cpu : SyncIdle(c) \/ Handler(c)

Spec == Init /\ [][Next]_vars

\* The device sends, CPUs take interrupts and go on, and a process that can run does.
Fairness ==
  /\ WF_vars(Transmit)
  /\ \A p \in Proc : SF_vars(Uartwrite(p))
  /\ \A c \in Cpu : WF_vars(Handler(c))

-----------------------------------------------------------------------------
(* Properties *)

\* Every variable has its type.
TypeOK ==
  /\ fifo \in Nat /\ txirq \in BOOLEAN /\ rx \in 0 .. MaxInput /\ typed \in 0 .. MaxInput
  /\ cpu \in [Cpu -> {"free", "putc", "acked", "input"}] /\ serving \subseteq Cpu
  /\ tx_busy \in BOOLEAN
  /\ wr \in [Proc -> 0 .. MaxWrite] /\ asleep \subseteq Proc
  /\ writes \in [Proc -> 0 .. MaxWrites] /\ sync \in 0 .. MaxSync

\* No byte is dropped.  uartwrite() does not look at the UART, and CPUs that all saw it
\* idle write one after the other: the FIFO has room for the byte of each of them.
FifoFits == fifo <= FifoSize

\* While tx_busy is set somebody will clear it: there is a byte to send, or an interrupt
\* to come, or uartintr() has not looked yet.  A character that uartputc_sync() sends
\* between the acknowledgement and that look only delays it.
BusyEnds == tx_busy => fifo > 0 \/ txirq \/ \E c \in Cpu : cpu[c] = "acked"

\* Whoever sleeps in uartwrite() waits for a UART that is busy and will be free again.
SleepJustified == (asleep # {} => tx_busy) /\ BusyEnds

\* Every write() to the console returns.
WritersReturn == \A p \in Proc : wr[p] > 0 ~> wr[p] = 0
=============================================================================
