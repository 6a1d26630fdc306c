--------------------------- MODULE BufferedSerial ---------------------------
(***************************************************************************)
(* cores/arduino/BufferedSerial.cpp under UARTClass: one thread that       *)
(* writes, reads, counts and flushes, the two UART interrupt handlers, and *)
(* the UART.  A handler runs to completion over the thread, so it is one   *)
(* step; the thread is cut wherever a handler can come between two of its  *)
(* accesses to what they share.  The n-th byte written has the value n,    *)
(* and so has the n-th byte that arrives: order, loss and repetition show. *)
(***************************************************************************)
EXTENDS Integers, Sequences

CONSTANTS
  TxSize,     (* cells of _txbuf                                            *)
  RxSize,     (* cells of _rxbuf                                            *)
  MaxWrite,   (* bound: bytes in one write                                  *)
  MaxTx,      (* bound: bytes offered to write, in all                      *)
  MaxRx,      (* bound: bytes that arrive at the UART, in all               *)
  MaxFlush    (* bound: calls of flush                                      *)

ASSUME SizesAssumption == \A n \in {TxSize, RxSize} : n \in Nat /\ n > 1
ASSUME BoundsAssumption == \A n \in {MaxWrite, MaxTx, MaxRx, MaxFlush} : n \in Nat

VARIABLES
  tx, rx,     (* the rings, as [buf, w, r]                                  *)
  txIrqOn,    (* a TX interrupt handler is attached                         *)
  tdr, rdr,   (* the UART's data registers, 0 when empty                    *)
  pc,         (* where the thread is in its call                            *)
  todo,       (* bytes of the current write not yet put in the ring         *)
  count,      (* what readable() returned last                              *)
  flushes,    (* calls of flush so far                                      *)
  offered,    (* bytes passed to write so far                               *)
  arrived,    (* bytes the UART received so far                             *)
  stored,     (* history: bytes put in _txbuf                               *)
  wire,       (* history: bytes the UART transmitted                        *)
  captured,   (* history: bytes put in _rxbuf                               *)
  delivered   (* history: bytes getc returned                               *)

txVars == <<tx, txIrqOn, tdr, todo, offered, stored, wire>>
rxVars == <<rx, rdr, count, arrived, captured, delivered>>
vars == <<txVars, rxVars, pc, flushes>>

Tx == INSTANCE RingIndex WITH Size <- TxSize
Rx == INSTANCE RingIndex WITH Size <- RxSize

TxUsed == Tx!Used(tx.w, tx.r)
RxUsed == Rx!Used(rx.w, rx.r)
TxContents == [i \in 1 .. TxUsed |-> tx.buf[(tx.r + i - 1) % TxSize]]
RxContents == [i \in 1 .. RxUsed |-> rx.buf[(rx.r + i - 1) % RxSize]]

EmptyRing(n) == [buf |-> [i \in 0 .. n - 1 |-> 0], w |-> 0, r |-> 0]

Init ==
  /\ tx = EmptyRing(TxSize) /\ rx = EmptyRing(RxSize)
  /\ txIrqOn = FALSE /\ tdr = 0 /\ rdr = 0
  /\ pc = "idle" /\ todo = <<>> /\ count = 0 /\ flushes = 0
  /\ offered = 0 /\ arrived = 0
  /\ stored = <<>> /\ wire = <<>> /\ captured = <<>> /\ delivered = <<>>

-----------------------------------------------------------------------------
(* The thread: write (putc, puts and printf come down to it).              *)

WriteBegin(n) ==
  /\ pc = "idle"
  /\ offered + n <= MaxTx
  /\ todo' = [i \in 1 .. n |-> offered + i]
  /\ offered' = offered + n
  /\ pc' = "put"
  /\ UNCHANGED <<tx, txIrqOn, tdr, stored, wire, rxVars, flushes>>

(* _txbuf.putc finds the ring full: the byte is dropped, its -1 ignored.   *)
WriteDrop ==
  /\ pc = "put" /\ todo # <<>>
  /\ Tx!After(tx.w) = tx.r
  /\ todo' = Tail(todo)
  /\ UNCHANGED <<tx, txIrqOn, tdr, offered, stored, wire, rxVars, pc, flushes>>

WriteUnchecked ==                                         \* wrong: no test for full
  /\ pc = "put" /\ todo # <<>> /\ pc' = "publish"
  /\ UNCHANGED <<txVars, rxVars, flushes>>

WriteCheck ==
  /\ pc = "put" /\ todo # <<>>
  /\ Tx!After(tx.w) # tx.r
  /\ pc' = "publish"
  /\ UNCHANGED <<txVars, rxVars, flushes>>

WritePublish ==
  /\ pc = "publish"
  /\ tx' = [tx EXCEPT !.buf[tx.w] = Head(todo), !.w = Tx!After(tx.w)]
  /\ stored' = Append(stored, Head(todo))
  /\ todo' = Tail(todo)
  /\ pc' = "put"
  /\ UNCHANGED <<txIrqOn, tdr, offered, wire, rxVars, flushes>>

(* prime: nothing to do while the UART is busy, its interrupt will come.   *)
PrimeTest ==
  /\ pc = "put" /\ todo = <<>>
  /\ pc' = IF tdr = 0 THEN "detach" ELSE "idle"
  /\ UNCHANGED <<txVars, rxVars, flushes>>

PrimeDetach ==
  /\ pc = "detach"
  /\ txIrqOn' = FALSE
  /\ pc' = "send"
  /\ UNCHANGED <<tx, tdr, todo, offered, stored, wire, rxVars, flushes>>

TxTurnWithoutDetach ==                                    \* wrong: stays attached
  /\ tdr = 0
  /\ IF TxUsed > 0
       THEN tdr' = tx.buf[tx.r] /\ tx' = [tx EXCEPT !.r = Tx!After(tx.r)]
       ELSE UNCHANGED <<tx, tdr>>
  /\ UNCHANGED <<txIrqOn, todo, offered, stored, wire>>

(* One turn of the loop of txIrq, wherever it runs.                        *)
TxTurn ==
  /\ tdr = 0
  /\ IF TxUsed > 0
       THEN /\ tdr' = tx.buf[tx.r]
            /\ tx' = [tx EXCEPT !.r = Tx!After(tx.r)]
            /\ UNCHANGED txIrqOn
       ELSE /\ txIrqOn' = FALSE
            /\ UNCHANGED <<tx, tdr>>
  /\ UNCHANGED <<todo, offered, stored, wire>>

(* txIrq called from prime: it ends when the UART is busy or the ring empty. *)
PrimeSend ==
  /\ pc = "send"
  /\ \/ TxTurn /\ pc' = IF TxUsed > 0 THEN "send" ELSE "attach"
     \/ tdr # 0 /\ pc' = "attach" /\ UNCHANGED txVars
  /\ UNCHANGED <<rxVars, flushes>>

PrimeForgetsToAttach ==                                   \* wrong: no attach
  /\ pc = "attach" /\ pc' = "idle"
  /\ UNCHANGED <<txVars, rxVars, flushes>>

PrimeAttach ==
  /\ pc = "attach"
  /\ txIrqOn' = TRUE
  /\ pc' = "idle"
  /\ UNCHANGED <<tx, tdr, todo, offered, stored, wire, rxVars, flushes>>

-----------------------------------------------------------------------------
(* The thread: readable, getc, flush.                                      *)

(* readable returns _rxbuf.use(), which reads addr_w twice.                *)
ReadableCompare ==
  /\ pc = "idle"
  /\ pc' = IF rx.w < rx.r THEN "wrapped" ELSE "straight"
  /\ UNCHANGED <<txVars, rxVars, flushes>>

ReadableSubtract ==
  /\ pc \in {"wrapped", "straight"}
  /\ count' = IF pc = "wrapped" THEN RxSize - (rx.r - rx.w) ELSE rx.w - rx.r
  /\ pc' = "idle"
  /\ UNCHANGED <<txVars, rx, rdr, arrived, captured, delivered, flushes>>

GetcCheck ==
  /\ pc = "idle"
  /\ rx.r # rx.w
  /\ pc' = "take"
  /\ UNCHANGED <<txVars, rxVars, flushes>>

GetcTake ==
  /\ pc = "take"
  /\ delivered' = Append(delivered, rx.buf[rx.r])
  /\ rx' = [rx EXCEPT !.r = Rx!After(rx.r)]
  /\ pc' = "idle"
  /\ UNCHANGED <<txVars, rdr, count, arrived, captured, flushes>>

(* flush clears both rings, one index after the other.                     *)
FlushTxWrite ==
  /\ pc = "idle"
  /\ flushes < MaxFlush
  /\ flushes' = flushes + 1
  /\ tx' = [tx EXCEPT !.w = 0]
  /\ pc' = "flush_tx"
  /\ UNCHANGED <<txIrqOn, tdr, todo, offered, stored, wire, rxVars>>

FlushTxRead ==
  /\ pc = "flush_tx"
  /\ tx' = [tx EXCEPT !.r = 0]
  /\ pc' = "flush_rx_w"
  /\ UNCHANGED <<txIrqOn, tdr, todo, offered, stored, wire, rxVars, flushes>>

FlushRxWrite ==
  /\ pc = "flush_rx_w"
  /\ rx' = [rx EXCEPT !.w = 0]
  /\ pc' = "flush_rx_r"
  /\ UNCHANGED <<txVars, rdr, count, arrived, captured, delivered, flushes>>

FlushRxForgetsRead ==                                     \* wrong: clears one index only
  /\ pc = "flush_rx_r" /\ pc' = "idle"
  /\ UNCHANGED <<txVars, rxVars, flushes>>

FlushRxRead ==
  /\ pc = "flush_rx_r"
  /\ rx' = [rx EXCEPT !.r = 0]
  /\ pc' = "idle"
  /\ UNCHANGED <<txVars, rdr, count, arrived, captured, delivered, flushes>>

-----------------------------------------------------------------------------
(* The handlers.                                                           *)

TxIrq ==
  /\ txIrqOn
  /\ TxTurn
  /\ UNCHANGED <<rxVars, pc, flushes>>

RxIrqUnchecked ==                                         \* wrong: no test for full
  /\ rdr # 0 /\ rdr' = 0
  /\ rx' = [rx EXCEPT !.buf[rx.w] = rdr, !.w = Rx!After(rx.w)]
  /\ captured' = Append(captured, rdr)
  /\ UNCHANGED <<txVars, count, arrived, delivered, pc, flushes>>

(* A byte that finds the ring full is dropped.                             *)
RxIrq ==
  /\ rdr # 0
  /\ rdr' = 0
  /\ IF Rx!After(rx.w) = rx.r
       THEN UNCHANGED <<rx, captured>>
       ELSE /\ rx' = [rx EXCEPT !.buf[rx.w] = rdr, !.w = Rx!After(rx.w)]
            /\ captured' = Append(captured, rdr)
  /\ UNCHANGED <<txVars, count, arrived, delivered, pc, flushes>>

-----------------------------------------------------------------------------
(* The UART: the transmit register empties onto the line; a byte that      *)
(* arrives before the last one was read overruns and is lost.              *)

Transmit ==
  /\ tdr # 0
  /\ wire' = Append(wire, tdr)
  /\ tdr' = 0
  /\ UNCHANGED <<tx, txIrqOn, todo, offered, stored, rxVars, pc, flushes>>

Receive ==
  /\ arrived < MaxRx
  /\ arrived' = arrived + 1
  /\ rdr' = IF rdr = 0 THEN arrived' ELSE rdr
  /\ UNCHANGED <<txVars, rx, count, captured, delivered, pc, flushes>>

-----------------------------------------------------------------------------
(* A call once begun is carried on; which call begins next is free.        *)
InCall ==
  \/ WriteDrop
  \/ WriteCheck
  \/ WritePublish
  \/ PrimeTest
  \/ PrimeDetach
  \/ PrimeSend
  \/ PrimeAttach
  \/ ReadableSubtract
  \/ GetcTake
  \/ FlushTxRead
  \/ FlushRxWrite
  \/ FlushRxRead

NewCall ==
  \/ \E n \in 1 .. MaxWrite : WriteBegin(n)
  \/ ReadableCompare
  \/ GetcCheck
  \/ FlushTxWrite

Next ==
  \/ NewCall
  \/ InCall
  \/ TxIrq
  \/ RxIrq
  \/ Transmit
  \/ Receive

(* A thread in the middle of a call goes on, an interrupt that is pending  *)
(* is taken, and the UART shifts its register out.                         *)
Fairness ==
  /\ WF_vars(InCall)
  /\ WF_vars(TxIrq)
  /\ WF_vars(RxIrq)
  /\ WF_vars(Transmit)

Spec == Init /\ [][Next]_vars /\ Fairness

-----------------------------------------------------------------------------
(* Properties.                                                             *)

Ring(n, m) == [buf : [0 .. n - 1 -> 0 .. m], w : 0 .. n - 1, r : 0 .. n - 1]

TypeOK ==
  /\ tx \in Ring(TxSize, MaxTx) /\ rx \in Ring(RxSize, MaxRx)
  /\ txIrqOn \in BOOLEAN
  /\ tdr \in 0 .. MaxTx /\ rdr \in 0 .. MaxRx
  /\ pc \in {"idle", "put", "publish", "detach", "send", "attach", "wrapped",
             "straight", "take", "flush_tx", "flush_rx_w", "flush_rx_r"}
  /\ todo \in Seq(1 .. MaxTx)
  /\ count \in -RxSize .. RxSize
  /\ flushes \in 0 .. MaxFlush /\ offered \in 0 .. MaxTx /\ arrived \in 0 .. MaxRx
  /\ \A s \in {stored, wire} : s \in Seq(0 .. MaxTx)
  /\ \A s \in {captured, delivered} : s \in Seq(1 .. MaxRx)

InRegister == IF tdr = 0 THEN <<>> ELSE <<tdr>>

(* BufferedSerial::write to the line: without a flush, what was sent, what *)
(* is in the UART and what waits are together exactly the bytes stored, in *)
(* order, whether the interrupt or prime moved them.                       *)
TxInOrder == flushes = 0 => wire \o InRegister \o TxContents = stored

(* The line to getc: without a flush, the bytes delivered and those that   *)
(* wait are exactly those rxIrq captured.                                  *)
RxInOrder == flushes = 0 => delivered \o RxContents = captured

(* RingBuffer::clear of the receive ring with rxIrq between its two stores *)
(* may lose bytes, but getc never returns one twice or out of order.       *)
RxNeverRepeats ==
  \A i, j \in DOMAIN delivered : i < j => delivered[i] < delivered[j]

(* prime and txIrq: when the thread is outside write and flush, bytes wait *)
(* only if the handler that will send them is attached.                    *)
NoLostWakeup ==
  pc \in {"idle", "wrapped", "straight", "take"} /\ TxUsed > 0 => txIrqOn

(* Everything written leaves the ring, once the thread stops writing.      *)
TxDrains == TxUsed > 0 ~> TxUsed = 0

(* txIrq detaches itself: an empty ring and an idle UART do not keep the   *)
(* transmit interrupt firing.                                              *)
NoInterruptStorm == []<>(~txIrqOn \/ tdr # 0 \/ TxUsed > 0)
=============================================================================
