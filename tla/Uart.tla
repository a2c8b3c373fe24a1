------------------------------- MODULE Uart -------------------------------
(***************************************************************************)
(* Console output (uart.c): write()s put characters in the ring            *)
(* uart_tx_buf under uart_tx_lock, and uartstart, called by them and by    *)
(* the interrupt handler, feeds them to the device.  Echo and printf go    *)
(* round the ring and the lock: uartputc_sync spins on the device.  The    *)
(* device is external: it is idle when its FIFO, which uartinit enables,   *)
(* is empty, and interrupts when it becomes so.  A buffered character is   *)
(* its number in the order of buffering, modulo UartLabels.                *)
(*                                                                         *)
(* An operator that no action uses and that stands just before one of the  *)
(* same parameters is a deliberate fault, used to test the properties.     *)
(***************************************************************************)
EXTENDS Integers, Sequences

CONSTANTS UartWriters,       \* processes in write() to the console
          SyncUsers,         \* CPUs in uartputc_sync
          UART_TX_BUF_SIZE,
          TxCount,           \* uart_tx_w and uart_tx_r wrap here (2^64)
          UartLabels

VARIABLES
    txbuf, txr, txw,   \* uart_tx_buf, uart_tx_r, uart_tx_w
    txlock,            \* who holds uart_tx_lock: a writer, "intr" or "free"
    upc,               \* where each writer, the handler and each sync user is
    inhand,            \* the character uartstart has taken, <<>> or <<c>>
    fifo,              \* in the device; Echo for a character of uartputc_sync
    txirq,             \* the device's interrupt is pending
    unext              \* number of the next character to be buffered

uartVars == <<txbuf, txr, txw, txlock, upc, inhand, fifo, txirq, unext>>
ring == <<txbuf, txr, txw, unext>>

Echo == UartLabels  \* not the number of a buffered character
UartActors == UartWriters \cup {"intr"}

\* uartinit
UartInit ==
    /\ txbuf = [i \in 0 .. UART_TX_BUF_SIZE - 1 |-> 0] /\ txr = 0 /\ txw = 0
    /\ txlock = "free"
    /\ upc = [a \in UartActors \cup SyncUsers |-> "idle"]
    /\ inhand = <<>> /\ fifo = <<>> /\ txirq = FALSE /\ unext = 0

GoTo(a, place) == upc' = [upc EXCEPT ![a] = place]
TxIdle == fifo = <<>>   \* LSR_TX_IDLE

\* uartputc up to its loop, and again after sleep.
PutcLock(a) ==
    /\ upc[a] \in {"idle", "woken"} /\ a \in UartWriters /\ txlock = "free"
    /\ txlock' = a /\ GoTo(a, "put")
    /\ UNCHANGED <<ring, inhand, fifo, txirq>>

RingFullLate == txw = (txr + UART_TX_BUF_SIZE + 1) % TxCount
RingFull == txw = (txr + UART_TX_BUF_SIZE) % TxCount

PutcSleep(a) ==
    /\ upc[a] = "put" /\ RingFull
    /\ txlock' = "free" /\ GoTo(a, "sleep")
    /\ UNCHANGED <<ring, inhand, fifo, txirq>>

PutcStore(a) ==
    /\ upc[a] = "put" /\ ~RingFull
    /\ txbuf' = [txbuf EXCEPT ![txw % UART_TX_BUF_SIZE] = unext]
    /\ txw' = (txw + 1) % TxCount /\ unext' = (unext + 1) % UartLabels
    /\ GoTo(a, "start")
    /\ UNCHANGED <<txr, txlock, inhand, fifo, txirq>>

StartDone(a) == txr = txw \/ ~TxIdle

\* One turn of uartstart: return when there is nothing to send or the device
\* is busy, else take a character and wake whoever waits for space.
StartReturn(a) ==
    /\ upc[a] = "start" /\ StartDone(a)
    /\ txlock' = "free" /\ GoTo(a, "idle")
    /\ UNCHANGED <<ring, inhand, fifo, txirq>>

TakeWakesNone(a) == GoTo(a, "send")
TakeWakes(a) ==
    upc' = [b \in DOMAIN upc |-> IF b = a THEN "send"
                                 ELSE IF upc[b] = "sleep" THEN "woken" ELSE upc[b]]

StartTake(a) ==
    /\ upc[a] = "start" /\ txr # txw /\ TxIdle
    /\ inhand' = <<txbuf[txr % UART_TX_BUF_SIZE]>>
    /\ txr' = (txr + 1) % TxCount
    /\ TakeWakes(a)
    /\ UNCHANGED <<txbuf, txw, txlock, fifo, txirq, unext>>

StartSend(a) ==
    /\ upc[a] = "send"
    /\ fifo' = fifo \o inhand /\ inhand' = <<>>
    /\ GoTo(a, "start")
    /\ UNCHANGED <<ring, txlock, txirq>>

\* uartintr; PLIC claims the interrupt for one hart at a time.
IntrTake ==
    /\ upc["intr"] = "idle" /\ txirq
    /\ txirq' = FALSE /\ GoTo("intr", "lock")
    /\ UNCHANGED <<ring, txlock, inhand, fifo>>

IntrLock ==
    /\ upc["intr"] = "lock" /\ txlock = "free"
    /\ txlock' = "intr" /\ GoTo("intr", "start")
    /\ UNCHANGED <<ring, inhand, fifo, txirq>>

\* uartputc_sync: what the spin saw may no longer hold at the write.
SyncSpin(s) ==
    /\ s \in SyncUsers /\ upc[s] = "idle" /\ TxIdle /\ GoTo(s, "write")
    /\ UNCHANGED <<ring, txlock, inhand, fifo, txirq>>

SyncWrite(s) ==
    /\ upc[s] = "write" /\ fifo' = Append(fifo, Echo) /\ GoTo(s, "idle")
    /\ UNCHANGED <<ring, txlock, inhand, txirq>>

\* The device sends a character; it interrupts once it can take another.
DeviceSends ==
    /\ fifo # <<>> /\ fifo' = Tail(fifo)
    /\ txirq' = (txirq \/ Len(fifo) = 1)
    /\ UNCHANGED <<ring, txlock, upc, inhand>>

UartNext ==
    \/ IntrTake \/ IntrLock \/ DeviceSends
    \/ \E a \in UartActors : \/ PutcLock(a) \/ PutcSleep(a) \/ PutcStore(a)
                             \/ StartReturn(a) \/ StartTake(a) \/ StartSend(a)
    \/ \E s \in SyncUsers : SyncSpin(s) \/ SyncWrite(s)

---------------------------------------------------------------------------

InRing == (txw - txr + TxCount) % TxCount
Waiting ==
    SelectSeq(fifo, LAMBDA c : c # Echo) \o inhand
        \o [i \in 1 .. InRing |-> txbuf[((txr + i - 1) % TxCount) % UART_TX_BUF_SIZE]]

\* What is on its way out is the latest characters buffered, in order, none
\* lost or sent twice, however uartstart's callers, echo and the device race.
OutputInOrder ==
    Waiting = [i \in 1 .. Len(Waiting) |-> (unext + UartLabels - Len(Waiting) + i - 1) % UartLabels]

\* No output is left behind: whoever finds characters in the ring and the
\* device idle can count on an interrupt, and a writer asleep on a full ring
\* on a character leaving it.
OutputGoesOn ==
    /\ txlock = "free" /\ txr # txw => ~TxIdle \/ txirq \/ upc["intr"] = "lock"
    /\ txlock = "free" => \A a \in UartWriters : upc[a] = "sleep" => RingFull
=============================================================================
