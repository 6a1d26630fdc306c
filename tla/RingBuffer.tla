----------------------------- MODULE RingBuffer -----------------------------
(***************************************************************************)
(* cores/arduino/RingBuffer.cpp: the byte ring between a thread and the    *)
(* UART interrupt handlers.  One context calls putc and available (the     *)
(* producer), another calls getc, peek and use (the consumer).  There is   *)
(* no lock: the two indices are volatile, each is written by one side      *)
(* only, and the order of the accesses is all that keeps the ring sound.   *)
(* A step here is therefore one access to shared memory, not one call.     *)
(***************************************************************************)
EXTENDS RingIndex, Sequences

CONSTANT Byte   (* The values a stored byte can take.                       *)

ASSUME ByteAssumption == Byte \subseteq Nat

VARIABLES
  buf,        (* buf[0 .. Size-1]                                            *)
  addr_w,     (* next cell to write, moved by the producer only              *)
  addr_r,     (* next cell to read, moved by the consumer only               *)
  ppc,        (* where the producer is in its call                           *)
  data,       (* putc's argument                                             *)
  next,       (* putc's local `next`                                         *)
  room,       (* what available() returned last                              *)
  put,        (* history: was the last byte offered stored or refused        *)
  cpc,        (* where the consumer is in its call                           *)
  loaded,     (* getc's local `data`                                         *)
  got,        (* what getc returned last                                     *)
  peeked,     (* what peek returned since the last getc, "none" if nothing   *)
  count       (* what use() returned last                                    *)

producerVars == <<ppc, data, next, room, put>>
consumerVars == <<cpc, loaded, got, peeked, count>>
vars == <<buf, addr_w, addr_r, producerVars, consumerVars>>

Init ==
  /\ buf \in [Index -> Byte]          \* new uint8_t[size] is not cleared
  /\ addr_w = 0 /\ addr_r = 0
  /\ ppc = "idle" /\ data \in Byte /\ next = 0 /\ room = Size - 1 /\ put = "none"
  /\ cpc = "idle" /\ loaded \in Byte /\ got = -1 /\ peeked = -1 /\ count = 0

-----------------------------------------------------------------------------
(* The producer.                                                           *)

(* putc: compute next, compare it with addr_r.  putc returns -1 whether or *)
(* not the byte is stored; `put` records what really happened.             *)
PutcFull ==
  /\ ppc = "idle"
  /\ After(addr_w) = addr_r
  /\ put' = "refused"
  /\ UNCHANGED <<buf, addr_w, addr_r, ppc, data, next, room, consumerVars>>

PutcUnchecked(b) ==                                       \* wrong: no test for full
  /\ ppc = "idle"
  /\ data' = b /\ next' = After(addr_w) /\ ppc' = "store"
  /\ UNCHANGED <<buf, addr_w, addr_r, room, put, consumerVars>>

PutcCheck(b) ==
  /\ ppc = "idle"
  /\ After(addr_w) # addr_r
  /\ data' = b
  /\ next' = After(addr_w)
  /\ ppc' = "store"
  /\ UNCHANGED <<buf, addr_w, addr_r, room, put, consumerVars>>

PutcStore ==
  /\ ppc = "store"
  /\ buf' = [buf EXCEPT ![addr_w] = data]
  /\ ppc' = "publish"
  /\ UNCHANGED <<addr_w, addr_r, data, next, room, put, consumerVars>>

PutcPublish ==
  /\ ppc = "publish"
  /\ addr_w' = next
  /\ put' = "stored"
  /\ ppc' = "idle"
  /\ UNCHANGED <<buf, addr_r, data, next, room, consumerVars>>

(* available: the comparison and the subtraction read addr_r separately.   *)
AvailableCompare ==
  /\ ppc = "idle"
  /\ ppc' = IF addr_w < addr_r THEN "gap" ELSE "rest"
  /\ UNCHANGED <<buf, addr_w, addr_r, data, next, room, put, consumerVars>>

AvailableOneMore ==                                       \* wrong: counts the spare cell
  /\ ppc \in {"gap", "rest"} /\ ppc' = "idle"
  /\ room' = IF ppc = "gap" THEN addr_r - addr_w ELSE (Size - addr_w) + addr_r
  /\ UNCHANGED <<buf, addr_w, addr_r, data, next, put, consumerVars>>

AvailableSubtract ==
  /\ ppc \in {"gap", "rest"}
  /\ room' = IF ppc = "gap" THEN addr_r - addr_w - 1 ELSE (Size - addr_w) + addr_r - 1
  /\ ppc' = "idle"
  /\ UNCHANGED <<buf, addr_w, addr_r, data, next, put, consumerVars>>

-----------------------------------------------------------------------------
(* The consumer.                                                           *)

GetcEmpty ==
  /\ cpc = "idle"
  /\ addr_r = addr_w
  /\ got' = -1
  /\ peeked' = -1
  /\ UNCHANGED <<buf, addr_w, addr_r, cpc, loaded, count, producerVars>>

GetcCheck ==
  /\ cpc = "idle"
  /\ addr_r # addr_w
  /\ cpc' = "load"
  /\ UNCHANGED <<buf, addr_w, addr_r, loaded, got, peeked, count, producerVars>>

GetcLoad ==
  /\ cpc = "load"
  /\ loaded' = buf[addr_r]
  /\ cpc' = "advance"
  /\ UNCHANGED <<buf, addr_w, addr_r, got, peeked, count, producerVars>>

GetcAdvance ==
  /\ cpc = "advance"
  /\ addr_r' = After(addr_r)
  /\ got' = loaded
  /\ peeked' = -1
  /\ cpc' = "idle"
  /\ UNCHANGED <<buf, addr_w, loaded, count, producerVars>>

PeekCheck ==
  /\ cpc = "idle"
  /\ IF addr_r = addr_w THEN peeked' = -1 /\ cpc' = "idle"
                        ELSE cpc' = "peek" /\ UNCHANGED peeked
  /\ UNCHANGED <<buf, addr_w, addr_r, loaded, got, count, producerVars>>

PeekBeyond ==                                             \* wrong: one byte too far
  /\ cpc = "peek" /\ cpc' = "idle"
  /\ peeked' = buf[After(addr_r)]
  /\ UNCHANGED <<buf, addr_w, addr_r, loaded, got, count, producerVars>>

PeekLoad ==
  /\ cpc = "peek"
  /\ peeked' = buf[addr_r]
  /\ cpc' = "idle"
  /\ UNCHANGED <<buf, addr_w, addr_r, loaded, got, count, producerVars>>

UseCompareWeakly ==                                       \* wrong: <= for <
  /\ cpc = "idle" /\ cpc' = IF addr_w <= addr_r THEN "wrapped" ELSE "straight"
  /\ UNCHANGED <<buf, addr_w, addr_r, loaded, got, peeked, count, producerVars>>

(* use: the comparison and the subtraction read addr_w separately.         *)
UseCompare ==
  /\ cpc = "idle"
  /\ cpc' = IF addr_w < addr_r THEN "wrapped" ELSE "straight"
  /\ UNCHANGED <<buf, addr_w, addr_r, loaded, got, peeked, count, producerVars>>

UseSubtract ==
  /\ cpc \in {"wrapped", "straight"}
  /\ count' = IF cpc = "wrapped" THEN Size - (addr_r - addr_w) ELSE addr_w - addr_r
  /\ cpc' = "idle"
  /\ UNCHANGED <<buf, addr_w, addr_r, loaded, got, peeked, producerVars>>

-----------------------------------------------------------------------------
Producer ==
  \/ PutcFull
  \/ \E b \in Byte : PutcCheck(b)
  \/ PutcStore
  \/ PutcPublish
  \/ AvailableCompare
  \/ AvailableSubtract

Consumer ==
  \/ GetcEmpty
  \/ GetcCheck
  \/ GetcLoad
  \/ GetcAdvance
  \/ PeekCheck
  \/ PeekLoad
  \/ UseCompare
  \/ UseSubtract

Next == Producer \/ Consumer

Spec == Init /\ [][Next]_vars
-----------------------------------------------------------------------------
(* Properties.                                                             *)

TypeOK ==
  /\ buf \in [Index -> Byte]
  /\ addr_w \in Index /\ addr_r \in Index
  /\ ppc \in {"idle", "store", "publish", "gap", "rest"}
  /\ data \in Byte
  /\ next \in Index
  /\ room \in Int
  /\ put \in {"none", "stored", "refused"}
  /\ cpc \in {"idle", "load", "advance", "peek", "wrapped", "straight"}
  /\ loaded \in Byte
  /\ got \in Byte \cup {-1}
  /\ peeked \in Byte \cup {-1}
  /\ count \in Int

(* The bytes between the two indices, oldest first.                        *)
Contents == [i \in 1 .. Used(addr_w, addr_r) |-> buf[(addr_r + i - 1) % Size]]

Fifo == INSTANCE ByteFifo WITH Capacity <- Size - 1, queue <- Contents

(* RingBuffer::putc and getc, running concurrently, behave as one queue:   *)
(* no byte is lost, repeated, reordered or read before it is written, and  *)
(* a full or empty answer was true when it was given.                      *)
IsFifo == Fifo!Spec

(* RingBuffer::available: whatever the consumer does between its two reads *)
(* of addr_r, the answer is never more than the free cells, so a writer    *)
(* that trusts it loses no byte.                                           *)
AvailableNeverOverstates ==
  [][AvailableSubtract => room' <= Free(addr_w, addr_r)]_vars

(* RingBuffer::use: whatever the producer does between its two reads of    *)
(* addr_w, the answer is never more than the stored bytes, so a reader     *)
(* that trusts it never gets -1 for a byte.                                *)
UseNeverOverstates ==
  [][UseSubtract => count' <= Used(addr_w, addr_r)]_vars

(* RingBuffer::peek: a byte once peeked is the byte the next getc returns, *)
(* however many bytes the producer adds in between.                        *)
PeekedIsNext ==
  [][GetcAdvance => peeked \in {-1, got'}]_vars
=============================================================================
