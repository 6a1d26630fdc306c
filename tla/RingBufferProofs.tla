-------------------------- MODULE RingBufferProofs --------------------------
(***************************************************************************)
(* Proofs about RingBuffer, for every size and every set of bytes: the     *)
(* types, that the concurrent ring implements ByteFifo, and that the       *)
(* counts and the peeks may be trusted.                                    *)
(***************************************************************************)
EXTENDS RingBuffer, SequenceTheorems, TLAPS

(* Which side relies on what while it is in the middle of a call.          *)
ProducerInv ==
  /\ ppc \in {"store", "publish"} => next = After(addr_w) /\ next # addr_r
  /\ ppc = "publish" => buf[addr_w] = data
  /\ ppc = "rest" => addr_r <= addr_w

ConsumerInv ==
  /\ cpc \in {"load", "advance", "peek"} => addr_r # addr_w
  /\ cpc = "advance" => loaded = buf[addr_r]
  /\ cpc = "wrapped" => addr_w < addr_r
  /\ peeked # -1 => addr_r # addr_w /\ peeked = buf[addr_r]

IInv == TypeOK /\ ProducerInv /\ ConsumerInv

-----------------------------------------------------------------------------
(* Arithmetic of the indices.                                              *)

(* The successor of a cell, without the remainder.                         *)
LEMMA AfterIsSuccessor ==
  ASSUME NEW i \in Index
  PROVE  /\ After(i) \in Index
         /\ After(i) = IF i + 1 = Size THEN 0 ELSE i + 1
BY SizeAssumption DEF Index, After

(* The remainder of a number below twice the size.                         *)
LEMMA Remainder ==
  ASSUME NEW i \in Nat, i < 2 * Size
  PROVE  i % Size = IF i < Size THEN i ELSE i - Size
BY SizeAssumption

(* Contents is a sequence of Used(addr_w, addr_r) bytes.                   *)
LEMMA ContentsIsSequence ==
  ASSUME TypeOK
  PROVE  /\ Used(addr_w, addr_r) \in 0 .. Size - 1
         /\ Contents \in Seq(Byte)
         /\ Len(Contents) = Used(addr_w, addr_r)
         /\ \A i \in 1 .. Used(addr_w, addr_r) :
              /\ (addr_r + i - 1) % Size \in Index
              /\ Contents[i] = buf[(addr_r + i - 1) % Size]
              /\ (addr_r + i - 1) % Size # addr_w
<1>1. Used(addr_w, addr_r) \in 0 .. Size - 1
  BY SizeAssumption DEF TypeOK, Index, Used
<1>2. ASSUME NEW i \in 1 .. Used(addr_w, addr_r)
      PROVE  /\ (addr_r + i - 1) % Size \in Index
             /\ (addr_r + i - 1) % Size # addr_w
  <2>. DEFINE j == addr_r + i - 1
  <2>1. j \in Nat /\ j < 2 * Size
    BY <1>1, SizeAssumption DEF TypeOK, Index
  <2>2. j % Size = IF j < Size THEN j ELSE j - Size
    <3>. HIDE DEF j
    <3>. QED  BY <2>1, Remainder
  <2>. QED
    BY <1>1, <2>2, SizeAssumption DEF TypeOK, Index, Used
<1>. QED
  BY <1>1, <1>2 DEF TypeOK, Contents

-----------------------------------------------------------------------------
(* The inductive invariant.                                                *)

LEMMA InitIInv == Init => IInv
BY SizeAssumption DEF Init, IInv, TypeOK, ProducerInv, ConsumerInv, Index

(* Two different cells have different successors: what keeps the producer's
   reserved cell out of the consumer's reach.                              *)
LEMMA AfterInjective ==
  ASSUME NEW i \in Index, NEW j \in Index, After(i) = After(j)
  PROVE  i = j
BY AfterIsSuccessor DEF Index

LEMMA ProducerPreserves ==
  ASSUME IInv, Producer
  PROVE  IInv'
<1>. USE DEF IInv, TypeOK, ProducerInv, ConsumerInv, producerVars, consumerVars
<1>1. CASE PutcFull
  BY <1>1 DEF PutcFull
<1>2. ASSUME NEW b \in Byte, PutcCheck(b)
      PROVE  IInv'
  BY <1>2, AfterIsSuccessor DEF PutcCheck
<1>3. CASE PutcStore
  BY <1>3 DEF PutcStore
<1>4. CASE PutcPublish
  <2>1. addr_w \in Index /\ addr_r \in Index /\ addr_w' = next /\ next \in Index
    BY <1>4 DEF PutcPublish
  <2>2. next # addr_r /\ next = IF addr_w + 1 = Size THEN 0 ELSE addr_w + 1
    BY <1>4, <2>1, AfterIsSuccessor DEF PutcPublish
  <2>3. addr_w < addr_r => addr_w' < addr_r
    BY <2>1, <2>2, SizeAssumption DEF Index
  <2>. QED
    BY <1>4, <2>1, <2>2, <2>3 DEF PutcPublish
<1>5. CASE AvailableCompare
  BY <1>5 DEF AvailableCompare, Index
<1>6. CASE AvailableSubtract
  BY <1>6, SizeAssumption DEF AvailableSubtract, Index
<1>. QED
  BY <1>1, <1>2, <1>3, <1>4, <1>5, <1>6 DEF Producer

LEMMA ConsumerPreserves ==
  ASSUME IInv, Consumer
  PROVE  IInv'
<1>. USE DEF IInv, TypeOK, ProducerInv, ConsumerInv, producerVars, consumerVars
<1>1. CASE GetcEmpty
  BY <1>1 DEF GetcEmpty
<1>2. CASE GetcCheck
  BY <1>2 DEF GetcCheck
<1>3. CASE GetcLoad
  BY <1>3 DEF GetcLoad
<1>4. CASE GetcAdvance
  <2>1. addr_w \in Index /\ addr_r \in Index /\ addr_r' = After(addr_r) /\ addr_r # addr_w
    BY <1>4 DEF GetcAdvance
  <2>2. addr_r' \in Index /\ addr_r' = IF addr_r + 1 = Size THEN 0 ELSE addr_r + 1
    BY <2>1, AfterIsSuccessor
  <2>3. addr_r <= addr_w => addr_r' <= addr_w
    BY <2>1, <2>2, SizeAssumption DEF Index
  <2>4. After(addr_w) # addr_r'
    BY <2>1, AfterInjective
  <2>. QED
    BY <1>4, <2>2, <2>3, <2>4 DEF GetcAdvance
<1>5. CASE PeekCheck
  BY <1>5 DEF PeekCheck
<1>6. CASE PeekLoad
  BY <1>6 DEF PeekLoad
<1>7. CASE UseCompare
  BY <1>7 DEF UseCompare, Index
<1>8. CASE UseSubtract
  BY <1>8, SizeAssumption DEF UseSubtract, Index
<1>. QED
  BY <1>1, <1>2, <1>3, <1>4, <1>5, <1>6, <1>7, <1>8 DEF Consumer

-----------------------------------------------------------------------------
(* The refinement: each step is a step of ByteFifo or leaves its variables.*)

(* Contents depends on nothing but the cells and the indices.              *)
LEMMA SameContents ==
  ASSUME UNCHANGED <<buf, addr_w, addr_r>>
  PROVE  Contents' = Contents
BY DEF Contents, Used

(* The cell the producer fills is not one of the stored bytes.             *)
LEMMA StoreInvisible ==
  ASSUME IInv, PutcStore
  PROVE  Contents' = Contents
<1>1. Used(addr_w, addr_r)' = Used(addr_w, addr_r)
  BY DEF PutcStore, Used
<1>2. ASSUME NEW i \in 1 .. Used(addr_w, addr_r)
      PROVE  buf'[(addr_r + i - 1) % Size] = buf[(addr_r + i - 1) % Size]
  BY ContentsIsSequence DEF IInv, TypeOK, PutcStore
<1>3. addr_r' = addr_r
  BY DEF PutcStore
<1>. QED
  BY <1>1, <1>2, <1>3 DEF Contents, Used

(* Publishing the index appends the byte just stored.                      *)
LEMMA PublishAppends ==
  ASSUME IInv, IInv', PutcPublish
  PROVE  /\ Len(Contents) < Size - 1
         /\ Contents' = Append(Contents, data)
<1>. DEFINE u == Used(addr_w, addr_r)
<1>1. /\ addr_w \in Index /\ addr_r \in Index
      /\ addr_w' = next /\ addr_r' = addr_r /\ buf' = buf
      /\ buf[addr_w] = data
      /\ next = (IF addr_w + 1 = Size THEN 0 ELSE addr_w + 1) /\ next # addr_r
  BY AfterIsSuccessor DEF IInv, TypeOK, ProducerInv, PutcPublish
<1>2. u \in Nat /\ u + 1 <= Size - 1 /\ Used(addr_w, addr_r)' = u + 1
  BY <1>1, SizeAssumption DEF Index, Used
<1>3. (addr_r + u) % Size = addr_w
  <2>1. addr_r + u = IF addr_w < addr_r THEN addr_w + Size ELSE addr_w
    BY <1>1, SizeAssumption DEF Index, Used
  <2>. DEFINE j == addr_r + u
  <2>2. j \in Nat /\ j < 2 * Size
    BY <1>1, <2>1, SizeAssumption DEF Index
  <2>3. j % Size = IF j < Size THEN j ELSE j - Size
    <3>. HIDE DEF j
    <3>. QED  BY <2>2, Remainder
  <2>. QED
    BY <1>1, <2>1, <2>3, SizeAssumption DEF Index
<1>4. Len(Contents) = u /\ Contents \in Seq(Byte)
  BY ContentsIsSequence DEF IInv
<1>5. Contents' = [i \in 1 .. u + 1 |-> buf[(addr_r + i - 1) % Size]]
  BY <1>1, <1>2 DEF Contents
<1>6. \A i \in 1 .. u : Contents[i] = buf[(addr_r + i - 1) % Size]
  BY DEF Contents
<1>7. \A i \in 1 .. u + 1 : buf[(addr_r + i - 1) % Size] \in Byte
  <2>. SUFFICES ASSUME NEW i \in 1 .. u + 1
                PROVE  (addr_r + i - 1) % Size \in Index
    BY DEF IInv, TypeOK
  <2>1. CASE i = u + 1
    <3>1. addr_r + i - 1 = addr_r + u
      BY <1>1, <1>2, <2>1 DEF Index
    <3>. QED
      BY <1>1, <1>3, <3>1
  <2>2. CASE i \in 1 .. u
    BY <2>2, ContentsIsSequence DEF IInv
  <2>. QED
    BY <1>2, <2>1, <2>2
<1>8. Contents' \in Seq(Byte) /\ Len(Contents') = u + 1
  BY <1>2, <1>5, <1>7
<1>9. /\ Append(Contents, data) \in Seq(Byte)
      /\ Len(Append(Contents, data)) = u + 1
      /\ \A i \in 1 .. u + 1 : Append(Contents, data)[i] =
            IF i = u + 1 THEN data ELSE Contents[i]
  BY <1>2, <1>4, AppendProperties DEF IInv, TypeOK
<1>10. ASSUME NEW i \in 1 .. u + 1
       PROVE  Contents'[i] = Append(Contents, data)[i]
  <2>1. CASE i = u + 1
    <3>1. addr_r + i - 1 = addr_r + u
      BY <1>1, <1>2, <2>1 DEF Index
    <3>. QED
      BY <1>1, <1>3, <1>5, <1>9, <2>1, <3>1
  <2>2. CASE i \in 1 .. u
    <3>. HIDE DEF u
    <3>. QED
      BY <1>2, <1>5, <1>6, <1>9, <2>2
  <2>3. i = u + 1 \/ i \in 1 .. u
    <3>1. u \in Nat
      BY <1>2
    <3>. HIDE DEF u
    <3>. QED
      BY <3>1
  <2>. QED
    BY <2>1, <2>2, <2>3
<1>11. Contents' = Append(Contents, data)
  <2>. HIDE DEF u
  <2>. QED
    BY <1>8, <1>9, <1>10, SeqEqual
<1>. HIDE DEF u
<1>. QED
  BY <1>2, <1>4, <1>11, SizeAssumption

(* Moving the read index removes the oldest byte, the one loaded before.   *)
LEMMA AdvanceTakesHead ==
  ASSUME IInv, GetcAdvance
  PROVE  /\ Contents # <<>>
         /\ loaded = Head(Contents)
         /\ Contents' = Tail(Contents)
<1>. DEFINE u == Used(addr_w, addr_r)
<1>1. /\ addr_w \in Index /\ addr_r \in Index /\ addr_r # addr_w
      /\ addr_r' = (IF addr_r + 1 = Size THEN 0 ELSE addr_r + 1)
      /\ addr_w' = addr_w /\ buf' = buf /\ loaded = buf[addr_r]
  BY AfterIsSuccessor DEF IInv, TypeOK, ConsumerInv, GetcAdvance
<1>2. u \in Nat /\ u > 0 /\ u <= Size - 1 /\ Used(addr_w, addr_r)' = u - 1
  BY <1>1, SizeAssumption DEF Index, Used
<1>3. Contents \in Seq(Byte) /\ Len(Contents) = u
  BY ContentsIsSequence DEF IInv
<1>4. Contents # <<>> /\ Head(Contents) = Contents[1]
  BY <1>2, <1>3
<1>5. Contents[1] = buf[addr_r]
  <2>1. (addr_r + 1 - 1) % Size = addr_r
    BY <1>1, SizeAssumption DEF Index
  <2>. QED
    BY <1>2, <2>1, ContentsIsSequence DEF IInv
<1>6. Contents' = [i \in 1 .. u - 1 |-> buf[(addr_r' + i - 1) % Size]]
  BY <1>1, <1>2 DEF Contents
<1>7. ASSUME NEW i \in 1 .. u - 1
      PROVE  (addr_r' + i - 1) % Size = (addr_r + (i + 1) - 1) % Size
  <2>. DEFINE a == addr_r' + i - 1
             b == addr_r + (i + 1) - 1
  <2>1. /\ a \in Nat /\ b \in Nat /\ a < 2 * Size /\ b < 2 * Size
        /\ b = a \/ (b = a + Size /\ a < Size)
    BY <1>1, <1>2, SizeAssumption DEF Index
  <2>2. /\ a % Size = (IF a < Size THEN a ELSE a - Size)
        /\ b % Size = (IF b < Size THEN b ELSE b - Size)
    <3>. HIDE DEF a, b
    <3>. QED  BY <2>1, Remainder
  <2>. QED
    BY <2>1, <2>2, SizeAssumption
<1>8. /\ Tail(Contents) \in Seq(Byte) /\ Len(Tail(Contents)) = u - 1
      /\ \A i \in 1 .. u - 1 : Tail(Contents)[i] = Contents[i + 1]
  <2>. HIDE DEF u
  <2>. QED
    BY <1>2, <1>3, <1>4, HeadTailProperties
<1>9. ASSUME NEW i \in 1 .. u - 1
      PROVE  Contents'[i] = Tail(Contents)[i] /\ Tail(Contents)[i] \in Byte
  <2>1. i + 1 \in 1 .. u
    <3>. HIDE DEF u
    <3>. QED  BY <1>2
  <2>2. Contents[i + 1] = buf[(addr_r + (i + 1) - 1) % Size]
    BY <2>1 DEF Contents
  <2>3. Contents[i + 1] \in Byte
    BY <1>3, <2>1
  <2>. HIDE DEF u
  <2>. QED
    BY <1>1, <1>6, <1>7, <1>8, <2>2, <2>3
<1>10. Contents' \in Seq(Byte) /\ Len(Contents') = u - 1
  <2>1. \A i \in 1 .. u - 1 : buf[(addr_r' + i - 1) % Size] \in Byte
    <3>. HIDE DEF u
    <3>. QED  BY <1>6, <1>9
  <2>. HIDE DEF u
  <2>. QED
    BY <1>2, <1>6, <2>1
<1>11. Contents' = Tail(Contents)
  <2>. HIDE DEF u
  <2>. QED
    BY <1>2, <1>8, <1>9, <1>10, SeqEqual
<1>. QED
  BY <1>1, <1>4, <1>5, <1>11

-----------------------------------------------------------------------------
(* For every size the shared cells, the indices and the locals of a call   *)
(* keep their types, and each side's assumptions about the other hold in   *)
(* the middle of every call.                                               *)
THEOREM InvariantHolds == Spec => []IInv
<1>1. IInv /\ UNCHANGED vars => IInv'
  BY DEF IInv, TypeOK, ProducerInv, ConsumerInv, vars, producerVars, consumerVars
<1>2. IInv /\ [Next]_vars => IInv'
  BY <1>1, ProducerPreserves, ConsumerPreserves DEF Next
<1>. QED
  BY <1>2, InitIInv, PTL DEF Spec

(* RingBuffer keeps its indices inside the array and its counters integers.*)
THEOREM TypeCorrect == Spec => []TypeOK
BY InvariantHolds, PTL DEF IInv

(* The ring, with its two users interleaved access by access, implements   *)
(* ByteFifo whatever its size: no byte is lost, repeated, reordered or     *)
(* read before it is there, and "full" and "empty" are true when said.     *)
THEOREM RingIsFifo == Spec => IsFifo
<1>1. Init => Fifo!Init
  BY SizeAssumption DEF Init, Fifo!Init, Contents, Used
<1>2. ASSUME IInv, IInv', [Next]_vars
      PROVE  [Fifo!Next]_(Fifo!vars)
  <2>1. CASE UNCHANGED <<buf, addr_w, addr_r, put, got>>
    BY <2>1, SameContents DEF Fifo!vars
  <2>2. CASE PutcFull
    <3>1. addr_w \in Index /\ addr_r \in Index
      BY <1>2 DEF IInv, TypeOK
    <3>2. Used(addr_w, addr_r) = Size - 1
      BY <2>2, <3>1, AfterIsSuccessor, SizeAssumption DEF PutcFull, Used, Index
    <3>3. Len(Contents) = Size - 1
      BY <1>2, <3>2, ContentsIsSequence DEF IInv
    <3>4. Fifo!Refuse
      BY <2>2, <3>3, SameContents DEF PutcFull, Fifo!Refuse, consumerVars
    <3>. QED
      BY <3>4 DEF Fifo!Next
  <2>3. CASE PutcStore
    BY <1>2, <2>3, StoreInvisible DEF PutcStore, Fifo!vars, consumerVars
  <2>4. CASE PutcPublish
    <3>1. Fifo!Put(data)
      BY <1>2, <2>4, PublishAppends DEF PutcPublish, Fifo!Put, consumerVars
    <3>. QED
      BY <1>2, <3>1 DEF IInv, TypeOK, Fifo!Next
  <2>5. CASE GetcEmpty
    <3>1. Used(addr_w, addr_r) = 0
      BY <1>2, <2>5 DEF IInv, TypeOK, Index, GetcEmpty, Used
    <3>2. Contents = <<>>
      BY <1>2, <3>1, ContentsIsSequence, EmptySeq DEF IInv
    <3>3. Fifo!TakeNothing
      BY <2>5, <3>2, SameContents DEF GetcEmpty, Fifo!TakeNothing, producerVars
    <3>. QED
      BY <3>3 DEF Fifo!Next
  <2>6. CASE GetcAdvance
    <3>1. Fifo!Take
      BY <1>2, <2>6, AdvanceTakesHead DEF GetcAdvance, Fifo!Take, producerVars
    <3>. QED
      BY <3>1 DEF Fifo!Next
  <2>7. CASE \E b \in Byte : PutcCheck(b)
    BY <2>1, <2>7 DEF PutcCheck, consumerVars
  <2>8. CASE AvailableCompare \/ AvailableSubtract
    BY <2>1, <2>8 DEF AvailableCompare, AvailableSubtract, consumerVars
  <2>9. CASE GetcCheck \/ GetcLoad
    BY <2>1, <2>9 DEF GetcCheck, GetcLoad, producerVars
  <2>10. CASE PeekCheck \/ PeekLoad \/ UseCompare \/ UseSubtract
    BY <2>1, <2>10 DEF PeekCheck, PeekLoad, UseCompare, UseSubtract, producerVars
  <2>11. CASE UNCHANGED vars
    BY <2>1, <2>11 DEF vars, producerVars, consumerVars
  <2>. QED
    BY <1>2, <2>2, <2>3, <2>4, <2>5, <2>6, <2>7, <2>8, <2>9, <2>10, <2>11
       DEF Next, Producer, Consumer
<1>. QED
  BY <1>1, <1>2, InvariantHolds, PTL DEF Spec, IsFifo, Fifo!Spec

-----------------------------------------------------------------------------
(* available() never promises a cell that is not free, although it reads   *)
(* addr_r twice while getc moves it.                                       *)
THEOREM AvailableTrusted == Spec => AvailableNeverOverstates
<1>1. ASSUME IInv, [Next]_vars
      PROVE  [AvailableSubtract => room' <= Free(addr_w, addr_r)]_vars
  <2>. SUFFICES ASSUME AvailableSubtract
                PROVE  room' <= Free(addr_w, addr_r)
    OBVIOUS
  <2>. QED
    BY <1>1, SizeAssumption
       DEF IInv, TypeOK, ProducerInv, AvailableSubtract, Free, Index
<1>. QED
  BY <1>1, InvariantHolds, PTL DEF Spec, AvailableNeverOverstates

(* use() never counts a byte that is not stored, although it reads addr_w  *)
(* twice while putc moves it.                                              *)
THEOREM UseTrusted == Spec => UseNeverOverstates
<1>1. ASSUME IInv, [Next]_vars
      PROVE  [UseSubtract => count' <= Used(addr_w, addr_r)]_vars
  <2>. SUFFICES ASSUME UseSubtract
                PROVE  count' <= Used(addr_w, addr_r)
    OBVIOUS
  <2>. QED
    BY <1>1, SizeAssumption
       DEF IInv, TypeOK, ConsumerInv, UseSubtract, Used, Index
<1>. QED
  BY <1>1, InvariantHolds, PTL DEF Spec, UseNeverOverstates

(* What peek shows is what the next getc returns, whatever putc does.      *)
THEOREM PeekTrusted == Spec => PeekedIsNext
<1>1. ASSUME IInv, [Next]_vars
      PROVE  [GetcAdvance => peeked \in {-1, got'}]_vars
  BY <1>1 DEF IInv, ConsumerInv, GetcAdvance
<1>. QED
  BY <1>1, InvariantHolds, PTL DEF Spec, PeekedIsNext
=============================================================================
