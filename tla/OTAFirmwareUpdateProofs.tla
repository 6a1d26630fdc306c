---------------------- MODULE OTAFirmwareUpdateProofs ----------------------
(***************************************************************************)
(* Proofs about OTAFirmwareUpdate, for every set of images of every size,  *)
(* every partition and every length of a TCP read: the types, the order of *)
(* the bytes between TCP and mbed TLS, and the size and the checksum that  *)
(* a download returns.                                                     *)
(***************************************************************************)
EXTENDS OTAFirmwareUpdate, SequenceTheorems, TLAPS

(* What waits for mbed TLS follows on what it has taken.                   *)
Follows(t, kept, waiting) ==
  /\ \A i \in 1 .. Len(kept) : kept[i] = t + i
  /\ \A i \in 1 .. Len(waiting) : waiting[i] = t + Len(kept) + i
StreamInv ==
  secure /\ ~dropped /\ peer # "reset" /\ pc # "idle" =>
    /\ taken + Len(_recv_buffer) + Len(arrived) = sent
    /\ Follows(taken, _recv_buffer, arrived)

(* How much has been taken where the call is: nothing before the           *)
(* handshake, one record after it.                                         *)
Before == {"connect", "hello", "handshake", "header", "ending"}
TakenInv ==
  /\ pc \in {"connect", "hello"} => taken = 0
  /\ pc = "handshake" => secure /\ taken \in {0, 1}
  /\ pc \in {"header", "ending"} /\ secure => taken = 2
  /\ pc = "hello" => secure
  /\ pc \in Before => status = "none"
  /\ pc \in Before \/ status = "none" => body_length = 0 \/ pc = "idle"

(* The parts of the answer that recv has returned, as long as the flash    *)
(* took them.                                                              *)
Returned == IF status = "none" THEN HeadItem - 1 ELSE HeadItem + body_length
OrderInv ==
  body_length >= 0 =>
    /\ pc = "recv" /\ secure => taken \div 2 = Returned
    /\ pc \in Before \cup {"recv"} /\ ~secure =>
         /\ \A i \in 1 .. Len(arrived) : arrived[i] = Returned + i
         /\ peer = "up" => sent = Returned + Len(arrived)

(* What has been received, and what the flash has of it.                   *)
Agreement ==
  \A i \in 1 .. body_length :
    /\ contexCRC16[i] = <<reply.image, i>>
    /\ flash[i] \in {contexCRC16[i], Garbled}
    /\ i \in fresh => flash[i] = contexCRC16[i]

(* The statics and the flash during a call: places not yet reached are as  *)
(* the download found them.                                                *)
FlashInv ==
  /\ body_length >= -1
  /\ pc # "idle" /\ body_length >= 0 =>
       /\ flashIdx = body_length /\ Len(contexCRC16) = body_length
       /\ Agreement
       /\ \A i \in fresh : i > body_length => flash[i] = Blank

(* What the sketch holds, between calls only.                              *)
HeldInv ==
  /\ SizeTruthful
  /\ pc # "idle" => result = 0 /\ (staged # Nothing => overtaken)

IInv == TypeOK /\ StreamInv /\ TakenInv /\ OrderInv /\ FlashInv /\ HeldInv

-----------------------------------------------------------------------------
(* The buffer of ssl_recv.                                                 *)

(* A part of a sequence of numbers is one.                                 *)
LEMMA Part ==
  ASSUME NEW s \in Seq(Nat), NEW m \in 1 .. Len(s) + 1, NEW n \in 0 .. Len(s)
  PROVE  /\ SubSeq(s, m, n) \in Seq(Nat)
         /\ Len(SubSeq(s, m, n)) = IF m <= n THEN n - m + 1 ELSE 0
         /\ \A i \in 1 .. Len(SubSeq(s, m, n)) : SubSeq(s, m, n)[i] = s[m + i - 1]
<1>1. \A i \in m .. n : s[i] \in Nat
  OBVIOUS
<1>. QED
  BY <1>1, SubSeqProperties

(* What is cut off the front of arrived, and what is left.                 *)
LEMMA Fetch ==
  ASSUME arrived \in Seq(Nat), NEW n \in Nat \ {0}, n <= Len(arrived)
  PROVE  /\ Head(arrived) = arrived[1] /\ Head(arrived) \in Nat
         /\ SubSeq(arrived, 2, n) \in Seq(Nat) /\ Len(SubSeq(arrived, 2, n)) = n - 1
         /\ \A i \in 1 .. n - 1 : SubSeq(arrived, 2, n)[i] = arrived[i + 1]
         /\ From(arrived, n + 1) \in Seq(Nat) /\ Len(From(arrived, n + 1)) = Len(arrived) - n
         /\ \A i \in 1 .. Len(arrived) - n : From(arrived, n + 1)[i] = arrived[n + i]
<1>1. Head(arrived) = arrived[1] /\ Head(arrived) \in Nat
  OBVIOUS
<1>2. /\ SubSeq(arrived, 2, n) \in Seq(Nat) /\ Len(SubSeq(arrived, 2, n)) = n - 1
      /\ \A i \in 1 .. n - 1 : SubSeq(arrived, 2, n)[i] = arrived[i + 1]
  BY 2 \in 1 .. Len(arrived) + 1, n \in 0 .. Len(arrived), Part
<1>3. /\ From(arrived, n + 1) \in Seq(Nat) /\ Len(From(arrived, n + 1)) = Len(arrived) - n
      /\ \A i \in 1 .. Len(arrived) - n : From(arrived, n + 1)[i] = arrived[n + i]
  BY n + 1 \in 1 .. Len(arrived) + 1, Len(arrived) \in 0 .. Len(arrived), Part DEF From
<1>. QED
  BY <1>1, <1>2, <1>3

(* ssl_recv hands out a unit and keeps the others in their order.          *)
LEMMA HandsOut ==
  ASSUME arrived \in Seq(Nat), _recv_buffer \in Seq(Nat), taken \in Nat, sent \in Nat,
         NEW u, SslRecv(u)
  PROVE  /\ arrived' \in Seq(Nat) /\ _recv_buffer' \in Seq(Nat) /\ u \in Nat
         /\ /\ taken + Len(_recv_buffer) + Len(arrived) = sent
            /\ Follows(taken, _recv_buffer, arrived)
            => /\ u = taken + 1
               /\ taken + 1 + Len(_recv_buffer') + Len(arrived') = sent
               /\ Follows(taken + 1, _recv_buffer', arrived')
<1>1. CASE _recv_buffer # <<>>
  <2>1. u = _recv_buffer[1] /\ _recv_buffer' = Tail(_recv_buffer) /\ arrived' = arrived
    BY <1>1 DEF SslRecv
  <2>2. /\ _recv_buffer' \in Seq(Nat) /\ Len(_recv_buffer') = Len(_recv_buffer) - 1
        /\ \A i \in 1 .. Len(_recv_buffer') : _recv_buffer'[i] = _recv_buffer[i + 1]
        /\ Len(_recv_buffer) \in Nat \ {0} /\ _recv_buffer[1] \in Nat
    BY <1>1, <2>1
  <2>3. ASSUME taken + Len(_recv_buffer) + Len(arrived) = sent, Follows(taken, _recv_buffer, arrived)
        PROVE  /\ u = taken + 1
               /\ taken + 1 + Len(_recv_buffer') + Len(arrived') = sent
               /\ Follows(taken + 1, _recv_buffer', arrived')
    <3>0. 1 \in 1 .. Len(_recv_buffer) /\ Len(arrived) \in Nat
      BY <2>2
    <3>1. u = taken + 1 /\ taken + 1 + Len(_recv_buffer') + Len(arrived') = sent
      <4>1. u = taken + 1
        BY <2>1, <2>3, <3>0 DEF Follows
      <4>2. Len(arrived') = Len(arrived)
        BY <2>1
      <4>3. taken + Len(_recv_buffer) + Len(arrived) = sent
        BY <2>3
      <4>4. Len(_recv_buffer') = Len(_recv_buffer) - 1 /\ Len(_recv_buffer) \in Nat
        BY <2>2
      <4>5. taken + 1 + Len(_recv_buffer') + Len(arrived') = sent
        BY <3>0, <4>2, <4>3, <4>4, SMTT(30)
      <4>. QED
        BY <4>1, <4>5
    <3>2. \A i \in 1 .. Len(_recv_buffer') : _recv_buffer'[i] = taken + 1 + i
      BY <2>2, <2>3 DEF Follows
    <3>3. \A i \in 1 .. Len(arrived') : arrived'[i] = taken + 1 + Len(_recv_buffer') + i
      BY <2>1, <2>2, <2>3 DEF Follows
    <3>. QED
      BY <3>1, <3>2, <3>3 DEF Follows
  <2>. QED
    BY <2>1, <2>2, <2>3
<1>2. CASE _recv_buffer = <<>>
  <2>1. PICK n \in 1 .. Portion :
          /\ n <= Len(arrived) /\ u = Head(arrived)
          /\ _recv_buffer' = SubSeq(arrived, 2, n) /\ arrived' = From(arrived, n + 1)
    BY <1>2 DEF SslRecv
  <2>2. n \in Nat \ {0} /\ Len(arrived) \in Nat
    BY PortionAssumption
  <2>3. /\ u = arrived[1] /\ u \in Nat
        /\ _recv_buffer' \in Seq(Nat) /\ Len(_recv_buffer') = n - 1
        /\ \A i \in 1 .. n - 1 : _recv_buffer'[i] = arrived[i + 1]
        /\ arrived' \in Seq(Nat) /\ Len(arrived') = Len(arrived) - n
        /\ \A i \in 1 .. Len(arrived) - n : arrived'[i] = arrived[n + i]
    BY <2>1, <2>2, Fetch
  <2>4. ASSUME taken + Len(_recv_buffer) + Len(arrived) = sent, Follows(taken, _recv_buffer, arrived)
        PROVE  /\ u = taken + 1
               /\ taken + 1 + Len(_recv_buffer') + Len(arrived') = sent
               /\ Follows(taken + 1, _recv_buffer', arrived')
    <3>1. \A i \in 1 .. Len(arrived) : arrived[i] = taken + i
      BY <1>2, <2>2, <2>4 DEF Follows
    <3>2. \A i \in 1 .. n - 1 : arrived[i + 1] = taken + 1 + i
      BY <2>1, <2>2, <3>1
    <3>3. \A i \in 1 .. Len(arrived) - n : arrived[n + i] = taken + n + i
      BY <2>1, <2>2, <3>1
    <3>4. u = taken + 1 /\ taken + 1 + Len(_recv_buffer') + Len(arrived') = sent
      <4>1. u = taken + 1
        BY <2>1, <2>2, <2>3, <3>1, 1 \in 1 .. Len(arrived)
      <4>2. taken + Len(arrived) = sent
        BY <1>2, <2>2, <2>4
      <4>3. Len(_recv_buffer') = n - 1 /\ Len(arrived') = Len(arrived) - n
        BY <2>3
      <4>4. taken + 1 + Len(_recv_buffer') + Len(arrived') = sent
        <5>1. n \in Int /\ Len(arrived) \in Int
          BY <2>2
        <5>2. taken + 1 + (n - 1) + (Len(arrived) - n) = taken + Len(arrived)
          BY <5>1
        <5>. QED
          BY <4>2, <4>3, <5>2
      <4>. QED
        BY <4>1, <4>4
    <3>5. \A i \in 1 .. Len(_recv_buffer') : _recv_buffer'[i] = taken + 1 + i
      <4>1. 1 .. Len(_recv_buffer') = 1 .. n - 1
        BY <2>3
      <4>. QED
        BY <2>3, <3>2, <4>1
    <3>6. \A i \in 1 .. Len(arrived') : arrived'[i] = taken + 1 + Len(_recv_buffer') + i
      BY <2>2, <2>3, <3>3
    <3>. QED
      BY <3>4, <3>5, <3>6 DEF Follows
  <2>. QED
    BY <2>3, <2>4
<1>. QED
  BY <1>1, <1>2

(* Dropping leaves numbers.                                                *)
LEMMA Drops ==
  ASSUME arrived \in Seq(Nat), SslRecvDrops
  PROVE  arrived' \in Seq(Nat)
<1>1. PICK n \in 1 .. Portion : n <= Len(arrived) /\ arrived' = From(arrived, n + 1)
  BY DEF SslRecvDrops
<1>2. n \in Nat \ {0}
  BY PortionAssumption
<1>. QED
  BY <1>1, <1>2, Fetch

-----------------------------------------------------------------------------
(* The inductive invariant.                                                *)

LEMMA InitIInv == Init => IInv
<1>. SUFFICES ASSUME Init PROVE IInv
  OBVIOUS
<1>. USE RoomAssumption DEF Init, SocketInit, RequestInit
<1>1. TypeOK
  <2>1. <<>> \in Seq(Nat) /\ <<>> \in Seq(Piece)
    OBVIOUS
  <2>2. flash \in [1 .. Room -> Piece \cup {Blank, Garbled}] /\ flashIdx \in 0 .. Room
    OBVIOUS
  <2>3. staged \in [size : Nat, crc : Seq(Piece)]
    BY <2>1 DEF Nothing
  <2>4. SocketTypeOK
    BY <2>1 DEF SocketTypeOK
  <2>5. RequestTypeOK
    BY DEF RequestTypeOK, States
  <2>6. fresh \subseteq 1 .. Room /\ overtaken \in BOOLEAN
    OBVIOUS
  <2>7. body_length \in Int /\ result \in Int /\ contexCRC16 \in Seq(Piece) /\ crc16Checksum \in Seq(Piece)
    BY <2>1
  <2>. QED
    BY <2>2, <2>3, <2>4, <2>5, <2>6, <2>7, Zenon DEF TypeOK
<1>2. StreamInv /\ TakenInv /\ OrderInv /\ FlashInv
  BY DEF StreamInv, TakenInv, OrderInv, FlashInv, Before
<1>3. HeldInv
  BY DEF HeldInv, SizeTruthful
<1>. QED
  BY <1>1, <1>2, <1>3 DEF IInv

(* A new connection has nothing in it.                                     *)
LEMMA DownloadPreserves ==
  ASSUME IInv, NEW ca \in BOOLEAN, NEW r \in Replies, Download(ca, r)
  PROVE  IInv'
<1>. USE DEF Download, NewRequest, NewSocket, Overwrites
<1>1. TypeOK'
  <2>1. <<>> \in Seq(Nat) /\ <<>> \in Seq(Piece)
    OBVIOUS
  <2>2. flashIdx' \in 0 .. Room
    BY RoomAssumption
  <2>3. SocketTypeOK'
    BY <2>1 DEF SocketTypeOK
  <2>4. RequestTypeOK'
    BY DEF RequestTypeOK, States
  <2>. QED
    BY <2>1, <2>2, <2>3, <2>4 DEF IInv, TypeOK
<1>2. StreamInv'
  BY DEF StreamInv, Follows
<1>3. TakenInv'
  BY DEF TakenInv, Before
<1>4. OrderInv'
  BY DEF OrderInv, Returned, HeadItem, Before
<1>5. FlashInv'
  BY DEF FlashInv, Agreement
<1>6. HeldInv'
  BY DEF HeldInv, SizeTruthful
<1>. QED
  BY <1>1, <1>2, <1>3, <1>4, <1>5, <1>6 DEF IInv

(* The steps of the call that read nothing.                                *)
LEMMA SendingPreserves ==
  ASSUME IInv, Connect \/ SendHello \/ HandshakeTimesOut \/ SendHeader \/ SendEnding,
         UNCHANGED <<flash, statics, held>>
  PROVE  IInv'
<1>. USE DEF Connect, Connects, ConnectRefused, SendHello, SendError, HandshakeTimesOut, SendHeader,
             SendEnding, Closes, socketVars, statics, held
<1>1. TypeOK'
  BY SMTT(30) DEF IInv, TypeOK, SocketTypeOK, RequestTypeOK, States, Lost
<1>2. StreamInv'
  BY DEF IInv, StreamInv
<1>3. TakenInv'
  BY DEF IInv, TakenInv, Before
<1>4. OrderInv'
  BY DEF IInv, TakenInv, OrderInv, Returned, HeadItem, Before
<1>5. FlashInv'
  BY DEF IInv, FlashInv, Agreement
<1>6. HeldInv'
  BY DEF IInv, HeldInv, SizeTruthful, Describes
<1>. QED
  BY <1>1, <1>2, <1>3, <1>4, <1>5, <1>6 DEF IInv

(* What the steps that take a unit have in common.                         *)
LEMMA Taking ==
  ASSUME IInv, pc # "idle", SslRecv(taken + 1), taken' = taken + 1,
         UNCHANGED <<secure, tcp, peer, dropped, sent>>
  PROVE  /\ arrived' \in Seq(Nat) /\ _recv_buffer' \in Seq(Nat) /\ taken' \in Nat
         /\ StreamInv'
<1>1. /\ arrived \in Seq(Nat) /\ _recv_buffer \in Seq(Nat) /\ taken \in Nat /\ sent \in Nat
  BY DEF IInv, TypeOK, SocketTypeOK, RequestTypeOK
<1>2. /\ arrived' \in Seq(Nat) /\ _recv_buffer' \in Seq(Nat)
      /\ /\ taken + Len(_recv_buffer) + Len(arrived) = sent
         /\ Follows(taken, _recv_buffer, arrived)
         => /\ taken + 1 + Len(_recv_buffer') + Len(arrived') = sent
            /\ Follows(taken + 1, _recv_buffer', arrived')
  BY <1>1, HandsOut
<1>3. StreamInv'
  BY <1>2 DEF IInv, StreamInv
<1>. QED
  BY <1>1, <1>2, <1>3

(* A wrong unit, or one that was dropped: not of an undisturbed stream.    *)
LEMMA Failing ==
  ASSUME IInv, pc # "idle", TakesWrong \/ SslRecvDrops, UNCHANGED sent
  PROVE  /\ arrived' \in Seq(Nat) /\ _recv_buffer' \in Seq(Nat)
         /\ UNCHANGED <<secure, tcp, peer, taken>> /\ dropped' \in BOOLEAN
         /\ StreamInv'
<1>1. /\ arrived \in Seq(Nat) /\ _recv_buffer \in Seq(Nat) /\ taken \in Nat /\ sent \in Nat
      /\ dropped \in BOOLEAN
  BY DEF IInv, TypeOK, SocketTypeOK, RequestTypeOK
<1>2. CASE SslRecvDrops
  BY <1>1, <1>2, Drops DEF SslRecvDrops, StreamInv
<1>3. ASSUME NEW u, u # taken + 1, SslRecv(u), UNCHANGED <<secure, tcp, peer, taken, dropped>>
      PROVE  /\ arrived' \in Seq(Nat) /\ _recv_buffer' \in Seq(Nat)
             /\ StreamInv'
  <2>1. /\ arrived' \in Seq(Nat) /\ _recv_buffer' \in Seq(Nat)
        /\ /\ taken + Len(_recv_buffer) + Len(arrived) = sent
           /\ Follows(taken, _recv_buffer, arrived)
           => u = taken + 1
    BY <1>1, <1>3, HandsOut
  <2>. QED
    BY <1>3, <2>1 DEF IInv, StreamInv
<1>4. CASE SslRecvError /\ UNCHANGED socketVars
  BY <1>1, <1>4 DEF SslRecvError, socketVars, StreamInv
<1>. QED
  BY <1>1, <1>2, <1>3, <1>4 DEF TakesWrong

LEMMA HandshakePreserves ==
  ASSUME IInv, HandshakeReads, UNCHANGED <<flash, statics, held>>
  PROVE  IInv'
<1>. USE DEF HandshakeReads, statics, held
<1>1. secure /\ taken \in {0, 1} /\ pc = "handshake" /\ pc' \in {"handshake", "header", "failed"}
  BY DEF IInv, TakenInv
<1>2. /\ SocketTypeOK' /\ StreamInv' /\ UNCHANGED <<secure, peer>>
      /\ pc' = "handshake" => taken' \in {0, 1}
      /\ pc' = "header" => taken' = 2
  <2>0. UNCHANGED sent /\ pc # "idle" /\ SocketTypeOK
    BY DEF IInv, TypeOK
  <2>1. CASE TakesHalf /\ UNCHANGED pc
    <3>1. UNCHANGED <<secure, tcp, peer, dropped>> /\ SslRecv(taken + 1) /\ taken' = taken + 1
      BY <2>1 DEF TakesHalf
    <3>2. arrived' \in Seq(Nat) /\ _recv_buffer' \in Seq(Nat) /\ taken' \in Nat /\ StreamInv'
      BY <2>0, <3>1, Taking
    <3>3. taken' = 1
      BY <1>1, <2>1 DEF TakesHalf, Whole
    <3>. QED
      BY <1>1, <2>0, <2>1, <3>1, <3>2, <3>3 DEF SocketTypeOK
  <2>2. CASE TakesRecord(1) /\ pc' \in {"header", "failed"}
    <3>1. UNCHANGED <<secure, tcp, peer, dropped>> /\ SslRecv(taken + 1) /\ taken' = taken + 1
      BY <2>2 DEF TakesRecord
    <3>2. arrived' \in Seq(Nat) /\ _recv_buffer' \in Seq(Nat) /\ taken' \in Nat /\ StreamInv'
      BY <2>0, <3>1, Taking
    <3>3. taken' = 2
      BY <1>1, <2>2 DEF TakesRecord, Whole
    <3>. QED
      BY <2>0, <2>2, <3>1, <3>2, <3>3 DEF SocketTypeOK
  <2>3. CASE SslRecvDrops /\ UNCHANGED pc
    BY <1>1, <2>0, <2>3, Failing DEF SocketTypeOK
  <2>4. CASE TakesWrong /\ pc' = "failed"
    BY <1>1, <2>4, Failing DEF IInv, TypeOK, SocketTypeOK
  <2>. QED
    BY <2>1, <2>2, <2>3, <2>4
<1>3. TypeOK'
  BY <1>1, <1>2 DEF IInv, TypeOK, RequestTypeOK, States
<1>4. TakenInv'
  BY <1>1, <1>2 DEF IInv, TakenInv, Before
<1>5. OrderInv'
  BY <1>1, <1>2 DEF OrderInv, Before
<1>6. FlashInv'
  BY <1>1 DEF IInv, FlashInv, Agreement
<1>7. HeldInv'
  BY <1>1 DEF IInv, HeldInv, SizeTruthful, Describes
<1>. QED
  BY <1>2, <1>3, <1>4, <1>5, <1>6, <1>7 DEF IInv

LEMMA HalfPreserves ==
  ASSUME IInv, RecvHalf, UNCHANGED <<flash, statics, held>>
  PROVE  IInv'
<1>. USE DEF RecvHalf, TakesHalf, requestVars, statics, held
<1>1. SocketTypeOK' /\ StreamInv'
  BY Taking DEF IInv, TypeOK, SocketTypeOK
<1>2. TypeOK'
  BY <1>1 DEF IInv, TypeOK, RequestTypeOK
<1>3. TakenInv'
  BY DEF IInv, TakenInv, Before
<1>4. OrderInv'
  <2>1. taken' \div 2 = taken \div 2
    BY DEF Whole, IInv, TypeOK, SocketTypeOK
  <2>. QED
    BY <2>1 DEF IInv, OrderInv, Returned, HeadItem, Before
<1>5. FlashInv' /\ HeldInv'
  BY DEF IInv, FlashInv, Agreement, HeldInv, SizeTruthful, Describes
<1>. QED
  BY <1>1, <1>2, <1>3, <1>4, <1>5 DEF IInv

(* recv returns the part of the answer that comes next.                    *)
LEMMA Gets ==
  ASSUME IInv, pc = "recv", NEW i, RecvGets(i), UNCHANGED sent
  PROVE  /\ SocketTypeOK' /\ StreamInv' /\ UNCHANGED <<secure, peer>>
         /\ secure => i = (taken \div 2) + 1 /\ taken' \div 2 = i
         /\ ~secure => arrived # <<>> /\ i = arrived[1] /\ arrived' = Tail(arrived)
<1>1. CASE TakesRecord(i)
  <2>1. SocketTypeOK' /\ StreamInv' /\ UNCHANGED <<secure, peer>>
    BY <1>1, Taking DEF TakesRecord, IInv, TypeOK, SocketTypeOK
  <2>2. i = (taken \div 2) + 1 /\ taken' \div 2 = i
    BY <1>1 DEF TakesRecord, Record, Whole, IInv, TypeOK, SocketTypeOK
  <2>. QED
    BY <1>1, <2>1, <2>2 DEF TakesRecord
<1>2. CASE ~secure /\ RecvGets(i)
  <2>1. /\ arrived # <<>> /\ i = Head(arrived) /\ arrived' = Tail(arrived)
        /\ UNCHANGED <<secure, tcp, peer, _recv_buffer, taken, dropped>>
    BY <1>2 DEF RecvGets, TakesRecord
  <2>2. arrived' \in Seq(Nat) /\ i = arrived[1]
    BY <2>1 DEF IInv, TypeOK, SocketTypeOK
  <2>. QED
    BY <1>2, <2>1, <2>2 DEF IInv, TypeOK, SocketTypeOK, StreamInv
<1>. QED
  BY <1>1, <1>2 DEF RecvGets, TakesRecord

LEMMA HeadPreserves ==
  ASSUME IInv, ReadsHead, UNCHANGED <<flash, statics, held>>
  PROVE  IInv'
<1>. USE DEF ReadsHead, statics, held
<1>1. /\ SocketTypeOK' /\ StreamInv' /\ UNCHANGED <<secure, peer>>
      /\ secure => HeadItem = (taken \div 2) + 1 /\ taken' \div 2 = HeadItem
      /\ ~secure => arrived # <<>> /\ HeadItem = arrived[1] /\ arrived' = Tail(arrived)
  BY Gets
<1>2. TypeOK'
  BY <1>1 DEF IInv, TypeOK, RequestTypeOK, States, Replies
(* If the flash took all so far, the head is the first part.               *)
<1>3. body_length >= 0 => status = "none" /\ body_length = 0
  <2>1. CASE secure /\ body_length >= 0
    BY <1>1, <2>1 DEF IInv, OrderInv, TakenInv, Returned, HeadItem, TypeOK
  <2>2. CASE ~secure /\ body_length >= 0
    <3>1. arrived \in Seq(Nat) /\ 1 \in 1 .. Len(arrived)
      BY <1>1, <2>2 DEF IInv, TypeOK, SocketTypeOK
    <3>2. arrived[1] = Returned + 1
      BY <2>2, <3>1 DEF IInv, OrderInv
    <3>. QED
      BY <1>1, <2>2, <3>2 DEF IInv, TakenInv, Returned, HeadItem, TypeOK
  <2>. QED
    BY <2>1, <2>2
<1>4. TakenInv'
  BY <1>3 DEF IInv, TakenInv, Before, TypeOK, RequestTypeOK, Replies
<1>5. OrderInv'
  <2>1. CASE body_length >= 0 /\ pc' = "recv" /\ secure
    BY <1>1, <1>3, <2>1 DEF OrderInv, Returned, HeadItem, Before, IInv, TypeOK, RequestTypeOK, Replies
  <2>2. CASE body_length >= 0 /\ pc' = "recv" /\ ~secure
    <3>1. arrived \in Seq(Nat) /\ arrived # <<>> /\ arrived' = Tail(arrived) /\ sent \in Nat
      BY <1>1, <2>2 DEF IInv, TypeOK, SocketTypeOK, RequestTypeOK
    <3>2. Len(arrived') = Len(arrived) - 1 /\ \A i \in 1 .. Len(arrived') : arrived'[i] = arrived[i + 1]
      BY <3>1
    <3>3. /\ \A i \in 1 .. Len(arrived) : arrived[i] = Returned + i
          /\ peer = "up" => sent = Returned + Len(arrived)
      BY <2>2 DEF IInv, OrderInv
    <3>4. Returned = 0 /\ Returned' = 1
      BY <1>1, <1>3, <2>2 DEF Returned, HeadItem, IInv, TypeOK, RequestTypeOK, Replies
    <3>5. \A i \in 1 .. Len(arrived') : arrived'[i] = Returned' + i
      <4>1. \A i \in 1 .. Len(arrived) : arrived[i] = i
        BY <3>3, <3>4
      <4>2. \A i \in 1 .. Len(arrived') : i + 1 \in 1 .. Len(arrived)
        BY <3>1, <3>2
      <4>. QED
        BY <3>2, <3>4, <4>1, <4>2
    <3>6. peer' = "up" => sent' = Returned' + Len(arrived')
      <4>1. peer = "up" => sent = Len(arrived)
        BY <3>1, <3>3, <3>4
      <4>2. peer' = peer /\ sent' = sent
        BY <1>1
      <4>3. Len(arrived) \in Nat /\ Len(arrived') = Len(arrived) - 1
        BY <3>1, <3>2
      <4>. QED
        BY <3>4, <4>1, <4>2, <4>3
    <3>. QED
      BY <1>1, <2>2, <3>5, <3>6 DEF OrderInv
  <2>. QED
    BY <1>1, <2>1, <2>2 DEF OrderInv, Before
<1>6. FlashInv' /\ HeldInv'
  BY DEF IInv, FlashInv, Agreement, HeldInv, SizeTruthful, Describes
<1>. QED
  BY <1>1, <1>2, <1>4, <1>5, <1>6 DEF IInv

LEMMA PiecePreserves ==
  ASSUME IInv, NEW k \in 1 .. Pieces, Receive(k)
  PROVE  IInv'
<1>. USE DEF Receive, ReadsPiece, held
<1>0. Pieces \in Nat /\ k \in Nat \ {0} /\ HeadItem \in {1, 2} /\ reply.image \in Image
  BY ImageAssumption DEF Pieces, HeadItem, IInv, TypeOK, RequestTypeOK, Replies
<1>1. /\ SocketTypeOK' /\ StreamInv' /\ UNCHANGED <<secure, peer>>
      /\ secure => HeadItem + k = (taken \div 2) + 1 /\ taken' \div 2 = HeadItem + k
      /\ ~secure => arrived # <<>> /\ HeadItem + k = arrived[1] /\ arrived' = Tail(arrived)
  BY Gets
(* If the flash took all so far, this is the piece that follows.           *)
<1>2. body_length >= 0 => status # "none" /\ k = body_length + 1
  <2>1. CASE secure /\ body_length >= 0
    BY <1>0, <1>1, <2>1 DEF IInv, OrderInv, TakenInv, Returned, HeadItem, TypeOK
  <2>2. CASE ~secure /\ body_length >= 0
    <3>1. arrived \in Seq(Nat) /\ 1 \in 1 .. Len(arrived)
      BY <1>1, <2>2 DEF IInv, TypeOK, SocketTypeOK
    <3>2. arrived[1] = Returned + 1
      BY <2>2, <3>1 DEF IInv, OrderInv
    <3>. QED
      BY <1>0, <1>1, <2>2, <3>2 DEF IInv, TakenInv, Returned, HeadItem, TypeOK
  <2>. QED
    BY <2>1, <2>2
<1>3. /\ body_length \in Int /\ flashIdx \in Nat /\ body_length >= -1
      /\ contexCRC16 \in Seq(Piece) /\ flash \in [1 .. Room -> Piece \cup {Blank, Garbled}]
      /\ body_length >= 0 =>
           /\ flashIdx = body_length /\ Len(contexCRC16) = body_length /\ Agreement
           /\ \A i \in fresh : i > body_length => flash[i] = Blank
  BY RoomAssumption DEF IInv, TypeOK, FlashInv
(* What the callback does.                                                 *)
<1>4. \/ body_length < 0 /\ UNCHANGED <<flash, statics>>
      \/ body_length >= 0 /\ FlashFails /\ body_length' = -1 /\ UNCHANGED contexCRC16
      \/ /\ body_length >= 0 /\ FlashWrites(<<reply.image, k>>)
         /\ contexCRC16' = Append(contexCRC16, <<reply.image, k>>)
         /\ body_length' = body_length + 1
  BY <1>3 DEF getFwCallback
<1>5. /\ flash' \in [1 .. Room -> Piece \cup {Blank, Garbled}] /\ flashIdx' \in 0 .. Room
      /\ contexCRC16' \in Seq(Piece) /\ body_length' \in Int /\ body_length' >= -1
  <2>1. <<reply.image, k>> \in Piece
    BY <1>0 DEF Piece
  <2>2. flashIdx \in 0 .. Room
    BY DEF IInv, TypeOK
  <2>3. CASE body_length < 0 /\ UNCHANGED <<flash, statics>>
    BY <1>3, <2>2, <2>3 DEF statics
  <2>4. CASE body_length >= 0 /\ FlashFails /\ body_length' = -1 /\ UNCHANGED contexCRC16
    <3>1. flash' \in [1 .. Room -> Piece \cup {Blank, Garbled}] /\ flashIdx' = flashIdx
      BY <1>3, <2>4 DEF FlashFails
    <3>. QED
      BY <1>3, <2>2, <2>4, <3>1
  <2>5. CASE /\ body_length >= 0 /\ FlashWrites(<<reply.image, k>>)
             /\ contexCRC16' = Append(contexCRC16, <<reply.image, k>>)
             /\ body_length' = body_length + 1
    <3>1. flash' \in [1 .. Room -> Piece \cup {Blank, Garbled}]
      BY <1>3, <2>1, <2>5 DEF FlashWrites, Written
    <3>2. flashIdx' \in 0 .. Room
      BY <2>2, <2>5, RoomAssumption DEF FlashWrites
    <3>. QED
      BY <1>3, <2>1, <2>5, <3>1, <3>2
  <2>. QED
    BY <1>4, <2>3, <2>4, <2>5
<1>6. TypeOK'
  BY <1>1, <1>5 DEF IInv, TypeOK, RequestTypeOK, States
<1>7. TakenInv'
  BY <1>0, <1>1, <1>2, <1>3, <1>4 DEF IInv, TakenInv, Before, FlashFails, statics
<1>8. FlashInv'
  <2>1. CASE body_length' = -1
    BY <2>1 DEF FlashInv
  <2>2. CASE body_length' # -1
    <3>1. /\ body_length >= 0 /\ FlashWrites(<<reply.image, k>>)
          /\ contexCRC16' = Append(contexCRC16, <<reply.image, k>>)
          /\ body_length' = body_length + 1 /\ reply' = reply
      BY <1>3, <1>4, <2>2 DEF statics
    <3>2. /\ flashIdx + 1 \in 1 .. Room /\ flashIdx = body_length /\ k = body_length + 1
          /\ flashIdx' = flashIdx + 1
      BY <1>2, <1>3, <3>1, RoomAssumption DEF FlashWrites
    <3>3. Len(contexCRC16') = body_length'
      BY <1>3, <3>1
    <3>4. PICK c \in Written(flash[k], <<reply.image, k>>) : flash' = [flash EXCEPT ![k] = c]
      BY <3>1, <3>2 DEF FlashWrites
    <3>5. /\ flash'[k] \in {<<reply.image, k>>, Garbled}
          /\ k \in fresh => flash'[k] = <<reply.image, k>>
          /\ \A i \in 1 .. Room : i # k => flash'[i] = flash[i]
      <4>1. flash'[k] = c /\ \A i \in 1 .. Room : i # k => flash'[i] = flash[i]
        BY <1>3, <3>2, <3>4
      <4>2. k \in fresh => flash[k] = Blank
        BY <1>3, <3>1, <3>2
      <4>. QED
        BY <3>4, <4>1, <4>2 DEF Written
    <3>6. /\ contexCRC16'[k] = <<reply.image, k>>
          /\ \A i \in 1 .. body_length : contexCRC16'[i] = contexCRC16[i]
      BY <1>3, <3>1, <3>2
    <3>7. fresh' = fresh /\ fresh \subseteq 1 .. Room
      BY DEF IInv, TypeOK
    <3>8. Agreement'
      <4>. SUFFICES ASSUME NEW i \in 1 .. body_length'
                    PROVE  /\ contexCRC16'[i] = <<reply.image, i>>
                           /\ flash'[i] \in {contexCRC16'[i], Garbled}
                           /\ i \in fresh => flash'[i] = contexCRC16'[i]
        BY <3>1, <3>7 DEF Agreement
      <4>1. CASE i = k
        BY <3>5, <3>6, <4>1
      <4>2. CASE i # k
        <5>1. i \in 1 .. body_length /\ i \in 1 .. Room
          BY <1>3, <3>1, <3>2, <4>2, RoomAssumption
        <5>. QED
          BY <1>3, <3>1, <3>5, <3>6, <4>2, <5>1 DEF Agreement
      <4>. QED
        BY <4>1, <4>2
    <3>9. \A i \in fresh' : i > body_length' => flash'[i] = Blank
      BY <1>3, <3>1, <3>2, <3>5, <3>7
    <3>. QED
      BY <1>3, <3>1, <3>2, <3>3, <3>8, <3>9 DEF FlashInv
  <2>. QED
    BY <2>1, <2>2
<1>9. OrderInv'
  <2>1. CASE body_length' < 0 \/ pc' # "recv"
    BY <1>5, <2>1 DEF OrderInv, Before
  <2>2. CASE body_length' >= 0 /\ pc' = "recv"
    <3>1. /\ body_length >= 0 /\ body_length' = body_length + 1 /\ k = body_length + 1
          /\ status # "none" /\ status' = status
      BY <1>2, <1>3, <1>4, <2>2 DEF statics
    <3>2. Returned = HeadItem + body_length /\ Returned' = HeadItem + k
      BY <1>1, <3>1 DEF Returned, HeadItem
    <3>3. secure => taken' \div 2 = Returned'
      BY <1>1, <3>2
    <3>4. ASSUME ~secure
          PROVE  /\ \A i \in 1 .. Len(arrived') : arrived'[i] = Returned' + i
                 /\ peer' = "up" => sent' = Returned' + Len(arrived')
      <4>1. arrived \in Seq(Nat) /\ arrived # <<>> /\ arrived' = Tail(arrived) /\ sent \in Nat
        BY <1>1, <3>4 DEF IInv, TypeOK, SocketTypeOK, RequestTypeOK
      <4>2. /\ Len(arrived) \in Nat /\ Len(arrived') = Len(arrived) - 1
            /\ \A i \in 1 .. Len(arrived') : i + 1 \in 1 .. Len(arrived) /\ arrived'[i] = arrived[i + 1]
        BY <4>1
      <4>3. /\ \A i \in 1 .. Len(arrived) : arrived[i] = Returned + i
            /\ peer = "up" => sent = Returned + Len(arrived)
        BY <3>1, <3>4 DEF IInv, OrderInv
      <4>4. Returned \in Nat /\ Returned' = Returned + 1
        BY <1>0, <1>3, <3>1, <3>2
      <4>5. \A i \in 1 .. Len(arrived') : arrived[i + 1] = Returned + (i + 1)
        BY <4>2, <4>3
      <4>6. peer' = peer /\ sent' = sent
        BY <1>1
      <4>. QED
        BY <4>2, <4>3, <4>4, <4>5, <4>6
    <3>. QED
      BY <1>1, <2>2, <3>3, <3>4 DEF OrderInv
  <2>. QED
    BY <1>5, <2>1, <2>2
<1>10. HeldInv'
  BY <1>0 DEF IInv, HeldInv, SizeTruthful, Nothing
<1>. QED
  BY <1>1, <1>6, <1>7, <1>8, <1>9, <1>10 DEF IInv

LEMMA RecvEndsPreserves ==
  ASSUME IInv, RecvEnds, UNCHANGED <<flash, statics, held>>
  PROVE  IInv'
<1>. USE DEF RecvEnds, statics, held
<1>1. SocketTypeOK' /\ StreamInv' /\ pc = "recv" /\ pc' \in {"returned", "failed"}
  <2>1. SocketTypeOK /\ pc # "idle" /\ UNCHANGED sent
    BY DEF IInv, TypeOK
  <2>2. pc = "recv" /\ pc' \in {"returned", "failed"}
    OBVIOUS
  <2>3. CASE UNCHANGED socketVars
    BY <2>1, <2>2, <2>3 DEF IInv, StreamInv, SocketTypeOK, socketVars
  <2>4. CASE TakesWrong \/ SslRecvDrops
    BY <2>1, <2>2, <2>4, Failing DEF SocketTypeOK
  <2>. QED
    BY <2>2, <2>3, <2>4 DEF RecvZero, RecvError
<1>2. TypeOK'
  BY <1>1 DEF IInv, TypeOK, RequestTypeOK, States
<1>3. TakenInv'
  BY <1>1 DEF IInv, TakenInv, Before
<1>4. OrderInv'
  BY <1>1 DEF OrderInv, Before
<1>5. FlashInv' /\ HeldInv'
  BY <1>1 DEF IInv, FlashInv, Agreement, HeldInv, SizeTruthful, Describes
<1>. QED
  BY <1>1, <1>2, <1>3, <1>4, <1>5 DEF IInv

(* The size is that of what the callback has stored.                       *)
LEMMA ReturnsPreserves ==
  ASSUME IInv, Returns
  PROVE  IInv'
<1>. USE DEF Returns, NewSocket
<1>1. /\ body_length \in Int /\ contexCRC16 \in Seq(Piece) /\ crc16Checksum \in Seq(Piece)
      /\ flashIdx \in 0 .. Room
  BY DEF IInv, TypeOK
<1>2. result' \in Int /\ crc16Checksum' \in Seq(Piece)
  BY <1>1
<1>3. SocketTypeOK'
  BY <<>> \in Seq(Nat) DEF IInv, TypeOK, SocketTypeOK
<1>4. TypeOK'
  BY <1>2, <1>3 DEF IInv, TypeOK, RequestTypeOK, States, statics
<1>5. StreamInv' /\ TakenInv' /\ OrderInv' /\ FlashInv'
  BY DEF IInv, StreamInv, TakenInv, OrderInv, FlashInv, Before, statics
<1>6. HeldInv'
  <2>1. staged' # Nothing => overtaken'
    BY DEF IInv, HeldInv
  <2>2. ASSUME result' > 0
        PROVE  status' = "200" /\ Describes(result, crc16Checksum)'
    <3>1. status = "200" /\ body_length > 0 /\ result' = body_length /\ crc16Checksum' = contexCRC16
      BY <1>1, <2>2
    <3>2. flashIdx = body_length /\ Len(contexCRC16) = body_length /\ Agreement
      BY <1>1, <3>1 DEF IInv, FlashInv
    <3>3. body_length \in 1 .. Room
      BY <1>1, <3>1, <3>2, RoomAssumption
    <3>. QED
      BY <3>1, <3>2, <3>3 DEF Describes, Agreement
  <2>. QED
    BY <2>1, <2>2 DEF HeldInv, SizeTruthful
<1>. QED
  BY <1>4, <1>5, <1>6 DEF IInv

LEMMA ApplyPreserves ==
  ASSUME IInv, OTAApplyNewFirmware
  PROVE  IInv'
<1>. USE DEF OTAApplyNewFirmware, socketVars, requestVars, statics
<1>1. Describes(result, crc16Checksum) /\ result \in Nat
  BY DEF IInv, HeldInv, SizeTruthful, TypeOK
<1>2. staged' \in [size : Nat, crc : Seq(Piece)]
  BY <1>1 DEF IInv, TypeOK
<1>3. TypeOK'
  BY <1>2 DEF IInv, TypeOK, SocketTypeOK, RequestTypeOK
<1>4. StreamInv' /\ TakenInv' /\ FlashInv'
  BY DEF IInv, StreamInv, TakenInv, FlashInv, Before
<1>5. OrderInv'
  BY DEF IInv, OrderInv, Before
<1>6. HeldInv'
  BY <1>1 DEF IInv, HeldInv, SizeTruthful, Describes
<1>. QED
  BY <1>3, <1>4, <1>5, <1>6 DEF IInv

LEMMA RestartPreserves ==
  ASSUME IInv, Restart
  PROVE  IInv'
<1>. USE DEF Restart, NewSocket
<1>1. SocketTypeOK' /\ RequestTypeOK'
  BY <<>> \in Seq(Nat) DEF IInv, TypeOK, SocketTypeOK, RequestTypeOK, States
<1>2. <<>> \in Seq(Piece) /\ flashIdx' \in 0 .. Room
  BY RoomAssumption
<1>3. staged' \in [size : Nat, crc : Seq(Piece)]
  BY <1>2 DEF Nothing
<1>4. TypeOK'
  <2>1. flash' \in [1 .. Room -> Piece \cup {Blank, Garbled}]
    BY DEF IInv, TypeOK
  <2>2. fresh' \subseteq 1 .. Room /\ overtaken' \in BOOLEAN
    OBVIOUS
  <2>3. body_length' \in Int /\ result' \in Int /\ contexCRC16' \in Seq(Piece) /\ crc16Checksum' \in Seq(Piece)
    BY <1>2
  <2>. QED
    BY <1>1, <1>2, <1>3, <2>1, <2>2, <2>3, Zenon DEF TypeOK
<1>5. StreamInv' /\ TakenInv' /\ OrderInv' /\ FlashInv' /\ HeldInv'
  BY DEF StreamInv, TakenInv, OrderInv, FlashInv, HeldInv, SizeTruthful, Before
<1>. QED
  BY <1>4, <1>5 DEF IInv

(* The server adds a unit at the end, or ends the connection.              *)
LEMMA ServerPreserves ==
  ASSUME IInv, Network
  PROVE  IInv'
<1>. USE DEF Network, statics, held
<1>0. /\ arrived \in Seq(Nat) /\ _recv_buffer \in Seq(Nat) /\ taken \in Nat /\ sent \in Nat
      /\ body_length \in Int /\ UNCHANGED <<pc, status, secure, taken, _recv_buffer, dropped, reply>>
  BY DEF IInv, TypeOK, SocketTypeOK, RequestTypeOK, Server, ServerSends, ServerEnds, requestVars
<1>1. CASE ServerSends
  <2>1. /\ arrived' \in Seq(Nat) /\ Len(arrived') = Len(arrived) + 1 /\ sent' = sent + 1
        /\ arrived'[Len(arrived) + 1] = sent + 1
        /\ \A i \in 1 .. Len(arrived) : arrived'[i] = arrived[i]
        /\ peer = "up" /\ peer' = "up"
    BY <1>0, <1>1 DEF ServerSends
  <2>2. TypeOK'
    BY <1>0, <1>1, <2>1 DEF ServerSends, IInv, TypeOK, SocketTypeOK, RequestTypeOK
  <2>3. StreamInv'
    <3>. SUFFICES ASSUME secure, ~dropped, pc # "idle"
                  PROVE  /\ taken + Len(_recv_buffer) + Len(arrived') = sent'
                         /\ Follows(taken, _recv_buffer, arrived')
      BY <1>0 DEF StreamInv
    <3>1. /\ taken + Len(_recv_buffer) + Len(arrived) = sent
          /\ Follows(taken, _recv_buffer, arrived)
      BY <2>1 DEF IInv, StreamInv
    <3>2. Len(_recv_buffer) \in Nat /\ Len(arrived) \in Nat
      BY <1>0
    <3>3. ASSUME NEW i \in 1 .. Len(arrived')
          PROVE  arrived'[i] = taken + Len(_recv_buffer) + i
      <4>1. i \in 1 .. Len(arrived) \/ i = Len(arrived) + 1
        BY <2>1, <3>2
      <4>2. CASE i \in 1 .. Len(arrived)
        BY <2>1, <3>1, <4>2 DEF Follows
      <4>3. CASE i = Len(arrived) + 1
        <5>1. arrived'[i] = sent + 1
          BY <2>1, <4>3
        <5>2. taken + Len(_recv_buffer) + i = sent + 1
          BY <1>0, <3>1, <3>2, <4>3
        <5>. QED
          BY <5>1, <5>2
      <4>. QED
        BY <4>1, <4>2, <4>3
    <3>4. taken + Len(_recv_buffer) + Len(arrived') = sent'
      <4>1. Len(arrived') = Len(arrived) + 1 /\ sent' = sent + 1
        BY <2>1
      <4>2. taken + Len(_recv_buffer) + Len(arrived) = sent
        BY <3>1
      <4>. QED
        BY <1>0, <3>2, <4>1, <4>2, SMTT(30)
    <3>. QED
      BY <3>1, <3>3, <3>4 DEF Follows
  <2>4. OrderInv'
    <3>. SUFFICES ASSUME body_length >= 0, pc \in Before \cup {"recv"}, ~secure
                  PROVE  /\ \A i \in 1 .. Len(arrived') : arrived'[i] = Returned + i
                         /\ sent' = Returned + Len(arrived')
      BY <1>0 DEF IInv, OrderInv, Returned, HeadItem
    <3>1. /\ \A i \in 1 .. Len(arrived) : arrived[i] = Returned + i
          /\ sent = Returned + Len(arrived)
      BY <2>1 DEF IInv, OrderInv
    <3>2. Returned \in Int /\ Len(arrived) \in Nat
      BY <1>0 DEF Returned, HeadItem
    <3>3. Len(arrived') = Len(arrived) + 1 /\ sent' = sent + 1
      BY <2>1
    <3>4. sent' = Returned + Len(arrived')
      BY <3>1, <3>2, <3>3
    <3>5. arrived'[Len(arrived) + 1] = Returned + (Len(arrived) + 1)
      BY <1>0, <2>1, <3>1, <3>2
    <3>6. ASSUME NEW i \in 1 .. Len(arrived')
          PROVE  arrived'[i] = Returned + i
      <4>1. i \in 1 .. Len(arrived) \/ i = Len(arrived) + 1
        BY <3>2, <3>3
      <4>. QED
        BY <2>1, <3>1, <3>5, <4>1
    <3>. QED
      BY <3>4, <3>6
  <2>5. TakenInv' /\ FlashInv' /\ HeldInv'
    BY <1>0 DEF IInv, TakenInv, FlashInv, Agreement, HeldInv, SizeTruthful, Describes, Before
  <2>. QED
    BY <2>2, <2>3, <2>4, <2>5 DEF IInv
<1>2. CASE ServerEnds
  <2>1. /\ peer' \in {"closed", "reset", "gone"} /\ sent' = sent
        /\ arrived' = arrived \/ (peer' = "reset" /\ arrived' = <<>>)
    BY <1>2 DEF ServerEnds, requestVars
  <2>2. TypeOK'
    BY <1>0, <1>2, <2>1, <<>> \in Seq(Nat)
       DEF ServerEnds, requestVars, IInv, TypeOK, SocketTypeOK, RequestTypeOK
  <2>3. StreamInv'
    BY <1>0, <1>2, <2>1 DEF ServerEnds, IInv, StreamInv
  <2>4. OrderInv'
    BY <1>0, <2>1 DEF IInv, OrderInv, Returned, HeadItem
  <2>5. TakenInv' /\ FlashInv' /\ HeldInv'
    BY <1>0 DEF IInv, TakenInv, FlashInv, Agreement, HeldInv, SizeTruthful, Describes, Before
  <2>. QED
    BY <2>2, <2>3, <2>4, <2>5 DEF IInv
<1>. QED
  BY <1>1, <1>2 DEF Server

-----------------------------------------------------------------------------
(* The theorems.                                                           *)

LEMMA NextPreserves == IInv /\ [Next]_vars => IInv'
<1>. SUFFICES ASSUME IInv, [Next]_vars PROVE IInv'
  OBVIOUS
<1>1. ASSUME NEW ca \in BOOLEAN, NEW r \in Replies, Download(ca, r)
      PROVE  IInv'
  BY <1>1, DownloadPreserves
<1>2. CASE Request
  BY <1>2, SendingPreserves, HandshakePreserves, HalfPreserves, HeadPreserves, RecvEndsPreserves
     DEF Request
<1>3. ASSUME NEW k \in 1 .. Pieces, Receive(k)
      PROVE  IInv'
  BY <1>3, PiecePreserves
<1>4. CASE Returns
  BY <1>4, ReturnsPreserves
<1>5. CASE OTAApplyNewFirmware
  BY <1>5, ApplyPreserves
<1>6. CASE Restart
  BY <1>6, RestartPreserves
<1>7. CASE Network
  BY <1>7, ServerPreserves
<1>8. CASE UNCHANGED vars
  <2>1. TypeOK'
    BY <1>8 DEF vars, socketVars, requestVars, statics, held, IInv, TypeOK, SocketTypeOK, RequestTypeOK
  <2>2. StreamInv' /\ TakenInv' /\ OrderInv'
    BY <1>8 DEF vars, socketVars, requestVars, statics, IInv, StreamInv, TakenInv, OrderInv,
                Returned, HeadItem, Follows
  <2>3. FlashInv' /\ HeldInv'
    BY <1>8 DEF vars, socketVars, requestVars, statics, held, IInv, FlashInv, Agreement, HeldInv,
                SizeTruthful, Describes
  <2>. QED
    BY <2>1, <2>2, <2>3 DEF IInv
<1>. QED
  BY <1>1, <1>2, <1>3, <1>4, <1>5, <1>6, <1>7, <1>8 DEF Next, Device

(* The inductive invariant holds of every behaviour.                       *)
THEOREM InvariantHolds == Spec => []IInv
BY InitIInv, NextPreserves, PTL DEF Spec

(* The variables of the socket, the request and the download keep their    *)
(* types: no write of the callback leaves the partition.                   *)
THEOREM TypeCorrect == Spec => []TypeOK
<1>1. IInv => TypeOK
  BY DEF IInv
<1>. QED
  BY <1>1, InvariantHolds, PTL

(* ssl_recv, for every length of a TCP read: the bytes between TCP and     *)
(* mbed TLS stay whole and in order as long as memory lasts.               *)
THEOREM StreamStaysWhole == Spec => []StreamWhole
<1>1. IInv => StreamWhole
  <2>. SUFFICES ASSUME IInv, secure, ~dropped, peer # "reset", pc # "idle",
                       NEW waiting, waiting = _recv_buffer \o arrived
                PROVE  /\ taken + Len(waiting) = sent
                       /\ \A i \in DOMAIN waiting : waiting[i] = taken + i
    BY DEF StreamWhole
  <2>1. /\ arrived \in Seq(Nat) /\ _recv_buffer \in Seq(Nat) /\ taken \in Nat
    BY DEF IInv, TypeOK, SocketTypeOK
  <2>2. /\ taken + Len(_recv_buffer) + Len(arrived) = sent
        /\ Follows(taken, _recv_buffer, arrived)
    BY DEF IInv, StreamInv
  <2>3. /\ Len(waiting) = Len(_recv_buffer) + Len(arrived)
        /\ \A i \in 1 .. Len(waiting) :
             waiting[i] = IF i <= Len(_recv_buffer) THEN _recv_buffer[i] ELSE arrived[i - Len(_recv_buffer)]
        /\ DOMAIN waiting = 1 .. Len(waiting)
    BY <2>1, ConcatProperties
  <2>4. Len(_recv_buffer) \in Nat /\ Len(arrived) \in Nat
    BY <2>1
  <2>5. ASSUME NEW i \in 1 .. Len(waiting)
        PROVE  waiting[i] = taken + i
    <3>1. CASE i <= Len(_recv_buffer)
      BY <2>2, <2>3, <2>4, <3>1 DEF Follows
    <3>2. CASE ~(i <= Len(_recv_buffer))
      <4>1. i - Len(_recv_buffer) \in 1 .. Len(arrived)
        BY <2>3, <2>4, <3>2
      <4>2. arrived[i - Len(_recv_buffer)] = taken + Len(_recv_buffer) + (i - Len(_recv_buffer))
        BY <2>2, <4>1 DEF Follows
      <4>. QED
        BY <2>1, <2>3, <2>4, <3>2, <4>2
    <3>. QED
      BY <3>1, <3>2
  <2>6. taken + Len(waiting) = sent
    BY <2>1, <2>2, <2>3, <2>4
  <2>. QED
    BY <2>3, <2>5, <2>6
<1>. QED
  BY <1>1, InvariantHolds, PTL

(* OTADownloadFirmware: the size and the checksum returned, and what the   *)
(* system is told to install, are those of the flash.                      *)
THEOREM SizeIsTruthful == Spec => []SizeTruthful
<1>1. IInv => SizeTruthful
  BY DEF IInv, HeldInv
<1>. QED
  BY <1>1, InvariantHolds, PTL
=============================================================================
