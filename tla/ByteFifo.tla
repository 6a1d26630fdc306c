------------------------------ MODULE ByteFifo ------------------------------
(***************************************************************************)
(* What a bounded byte queue promises its two users: bytes come out in the *)
(* order they went in, each of them once, a byte is refused only when      *)
(* Capacity bytes are waiting, and the reader is told "nothing there" only *)
(* when nothing is.  RingBuffer implements this specification while the    *)
(* two users run concurrently.                                             *)
(***************************************************************************)
EXTENDS Integers, Sequences

CONSTANTS
  Capacity,   (* The number of bytes that may wait.                        *)
  Byte        (* The bytes that may be queued.                             *)

VARIABLES
  queue,      (* The bytes that wait, oldest first.                        *)
  put,        (* What became of the last byte offered.                     *)
  got         (* What the last read returned; -1 when the queue was empty. *)

vars == <<queue, put, got>>

Init ==
  /\ queue = <<>>
  /\ put = "none"
  /\ got = -1

Put(b) ==
  /\ Len(queue) < Capacity
  /\ queue' = Append(queue, b)
  /\ put' = "stored"
  /\ UNCHANGED got

Refuse ==
  /\ Len(queue) = Capacity
  /\ put' = "refused"
  /\ UNCHANGED <<queue, got>>

Take ==
  /\ queue # <<>>
  /\ got' = Head(queue)
  /\ queue' = Tail(queue)
  /\ UNCHANGED put

TakeNothing ==
  /\ queue = <<>>
  /\ got' = -1
  /\ UNCHANGED <<queue, put>>

Next ==
  \/ \E b \in Byte : Put(b)
  \/ Refuse
  \/ Take
  \/ TakeNothing

Spec == Init /\ [][Next]_vars
=============================================================================
