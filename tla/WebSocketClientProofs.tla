----------------------- MODULE WebSocketClientProofs -----------------------
(***************************************************************************)
(* Theorems about WebSocketClient, for every buffer size, every set of     *)
(* payload lengths and any number of items under way.                      *)
(***************************************************************************)
EXTENDS WebSocketClient, TLAPS

(* FramesWellFormed is not inductive: what makes the next frame belong     *)
(* where it goes is that _firstFrame and the server agree on whether a     *)
(* message is open.                                                        *)
Agreed == heard = "well" => hearing = ~_firstFrame
IInv ==
  /\ heard \in {"well", "unknown"}
  /\ _firstFrame \in BOOLEAN /\ hearing \in BOOLEAN
  /\ Agreed

(* A control frame belongs everywhere and changes neither side's idea of   *)
(* the open message, nor does one that could not be written.               *)
LEMMA ControlKeeps ==
  ASSUME IInv, NEW op \in Control, NEW size, SendControl(op, size)
  PROVE  IInv'
<1>1. CASE UNCHANGED toServer
  BY <1>1 DEF IInv, Agreed, SendControl, toServer
<1>2. CASE Heard(op, TRUE)
  BY <1>2 DEF IInv, Agreed, SendControl, Heard, Control, Data
<1>3. CASE WriteFails
  BY <1>3 DEF IInv, Agreed, SendControl, WriteFails
<1> QED BY <1>1, <1>2, <1>3 DEF SendControl, Written

(* A piece of a message begins one or goes on with one as the server       *)
(* expects, and leaves it open or ends it on both sides.                   *)
LEMMA DataKeeps ==
  ASSUME IInv, NEW type \in Data, NEW final \in BOOLEAN, SendData(type, final)
  PROVE  IInv'
<1> DEFINE op == IF _firstFrame THEN type ELSE "CONT"
<1>1. _firstFrame' = final /\ Written(op, final)
  BY DEF SendData
<1>2. CASE Heard(op, final)
  BY <1>1, <1>2 DEF IInv, Agreed, Heard, Control, Data
<1>3. CASE WriteFails
  BY <1>1, <1>3 DEF IInv, Agreed, WriteFails
<1> QED BY <1>1, <1>2, <1>3 DEF Written

(* What receive does when it has read a frame: it answers, or it does not. *)
LEMMA FrameKeeps ==
  ASSUME IInv, NEW n, Frame(n)
  PROVE  IInv'
<1> DEFINE type == IF n > BufferSize THEN "BufferOverrun" ELSE _messageType
<1>1. CASE type = "Ping"
  <2>1. SendControl("Pong", n) BY <1>1 DEF Frame
  <2> QED BY <2>1, ControlKeeps DEF Control
<1>2. CASE type = "Close"
  <2>1. SendControl("Close", 1) BY <1>2 DEF Frame, Close
  <2> QED BY <2>1, ControlKeeps DEF Control
<1>3. CASE type \notin {"Ping", "Close"}
  <2>1. UNCHANGED <<toServer, _firstFrame>> BY <1>3 DEF Frame
  <2> QED BY <2>1 DEF IInv, Agreed, toServer
<1> QED BY <1>1, <1>2, <1>3

LEMMA InitHolds == Init => IInv
BY DEF Init, IInv, Agreed

LEMMA StepKeeps == IInv /\ [Next]_vars => IInv'
<1> SUFFICES ASSUME IInv, [Next]_vars PROVE IInv'
  OBVIOUS
<1> USE DEF toServer
<1>1. CASE UNCHANGED vars
  BY <1>1 DEF IInv, Agreed, vars, client
<1>2. CASE Connects \/ HandshakeReads \/ ReceiveBegins \/ OpcodeTimesOut
  BY <1>2 DEF IInv, Agreed, Connects, HandshakeReads, ReceiveBegins, OpcodeTimesOut
<1>3. CASE RequestFails
  BY <1>3 DEF IInv, Agreed, RequestFails, WriteFails
<1>4. CASE Delete
  BY <1>4 DEF IInv, Agreed, Delete
<1>5. CASE SendsControl
  BY <1>5, ControlKeeps DEF SendsControl, Close, Control
<1>6. ASSUME NEW type \in Data, NEW final \in BOOLEAN, SendData(type, final) PROVE IInv'
  BY <1>6, DataKeeps
<1>7. CASE OpcodeReads
  BY <1>7 DEF IInv, Agreed, OpcodeReads
<1>8. CASE OpcodeFails
  <2>1. CASE Close
    BY <2>1, ControlKeeps DEF Close, Control
  <2>2. CASE UNCHANGED <<toServer, _firstFrame>>
    BY <2>2 DEF IInv, Agreed
  <2> QED BY <1>8, <2>1, <2>2 DEF OpcodeFails
<1>9. CASE LengthReads
  <2>1. CASE Frame(0)
    BY <2>1, FrameKeeps
  <2>2. CASE UNCHANGED <<_firstFrame, toServer>>
    BY <2>2 DEF IInv, Agreed
  <2> QED BY <1>9, <2>1, <2>2 DEF LengthReads
<1>10. CASE PayloadLate
  BY <1>10 DEF IInv, Agreed, PayloadLate
<1>11. CASE PayloadReads
  BY <1>11, FrameKeeps DEF PayloadReads
<1>12. CASE Spin
  BY <1>12 DEF IInv, Agreed, Spin, vars, client
<1>13. CASE ServerReplies \/ ServerSends \/ Network
  BY <1>13 DEF IInv, Agreed, ServerReplies, ServerSends, Network, client
<1> QED
  BY <1>1, <1>2, <1>3, <1>4, <1>5, <1>6, <1>7, <1>8, <1>9, <1>10, <1>11, <1>12, <1>13
  DEF Next, Sends, Receives

-----------------------------------------------------------------------------
(* _firstFrame and the server's idea of the open message stay in agreement *)
(* as long as every write succeeds (send and receive).                     *)
THEOREM InvariantHolds == Spec => []IInv
BY InitHolds, StepKeeps, PTL DEF Spec

(* The server never gets a continuation of nothing, nor a new message      *)
(* inside another, whatever receive answers between the pieces.            *)
THEOREM FramesAreWellFormed == Spec => []FramesWellFormed
<1>1. IInv => FramesWellFormed
  BY DEF IInv, FramesWellFormed
<1> QED BY <1>1, InvariantHolds, PTL

-----------------------------------------------------------------------------
(***************************************************************************)
(* What receive returns.  The stream of the server is a row of frames, and *)
(* receive stands between two of them or at a known place in one, until a  *)
(* byte comes late.                                                        *)
(***************************************************************************)
Item ==
  [is : {"text", "byte"}]
    \cup [is : {"length"}, n : Lengths]
    \cup [is : {"op"}, op : Data \cup Control \cup {"CONT"}, type : Data \cup Control,
          fin : BOOLEAN, n : Lengths]

IsOp(s, i) == i \in 1 .. Len(s) /\ s[i].is = "op"
IsData(s, i) == IsOp(s, i) /\ s[i].type \in Data

(* From place k on there are n bytes, as far as they have come, and then a *)
(* frame begins.                                                           *)
Content(s, k, n) ==
  /\ \A j \in k .. k + n - 1 : j <= Len(s) => s[j].is = "byte"
  /\ k + n <= Len(s) => s[k + n].is = "op"

(* At place k is the length field of a frame of n bytes.                   *)
Sized(s, k, n) ==
  /\ k <= Len(s) => s[k].is = "length" /\ s[k].n = n
  /\ Content(s, k + 1, n)

(* What an opcode says is what follows it.                                 *)
FrameAt(s, i) ==
  /\ s[i].n \in Nat /\ s[i].type \in Data \cup Control /\ s[i].fin \in BOOLEAN
  /\ s[i].op \in {s[i].type, "CONT"}
  /\ s[i].op = "CONT" => s[i].type \in Data
  /\ Sized(s, i + 1, s[i].n)
Framed(s) == \A i \in 1 .. Len(s) : IsOp(s, i) => FrameAt(s, i)

(* No frame has been cut short.                                            *)
Whole(s) == \A i \in 1 .. Len(s) : IsOp(s, i) => i + 1 + s[i].n <= Len(s)

(* The first frame of data behind place i, if it is a continuation, goes   *)
(* on with a message of this type.                                         *)
Continues(s, i, type) ==
  \A j \in 1 .. Len(s) :
    /\ i < j /\ IsData(s, j) /\ s[j].op = "CONT"
    /\ \A m \in 1 .. Len(s) : i < m /\ m < j => ~IsData(s, m)
    => s[j].type = type
Linked(s) == \A i \in 1 .. Len(s) : IsData(s, i) => Continues(s, i, s[i].type)

(* With no data behind place i, the message open, if one is, has this type.*)
Ends(s, i, type, open) ==
  (\A m \in 1 .. Len(s) : i < m => ~IsData(s, m)) => open \in {"none", type}
AllEnd(s, open) == \A i \in 1 .. Len(s) : IsData(s, i) => Ends(s, i, s[i].type, open)

StreamInv ==
  /\ Framed(inbox) /\ Linked(inbox)
  /\ peer = "up" => Whole(inbox) /\ AllEnd(inbox, sending)
PlaceInv ==
  /\ pc \in {"sketch", "opcode"} => Content(inbox, 1, 0)
  /\ pc = "length" =>
       Sized(inbox, 1, reading.n) /\ (peer = "up" => 1 + reading.n <= Len(inbox))
  /\ pc = "payload" =>
       Content(inbox, 1, payloadLength) /\ (peer = "up" => payloadLength <= Len(inbox))
ReadingInv ==
  /\ pc \in {"length", "payload"} =>
       /\ reading.n \in Nat
       /\ reading.sure => /\ _messageType = reading.type
                          /\ reading.type \in Data => fin = reading.fin
  /\ pc = "payload" => payloadLength = reading.n
MessageInv ==
  ~disturbed => /\ Continues(inbox, 0, _messageType)
                /\ peer = "up" => Ends(inbox, 0, _messageType, sending)
NewInv ==
  /\ _tcpSocket = "NULL" => pc = "sketch" /\ inbox = <<>> /\ server = "http"
  /\ _tcpSocket = "NULL" \/ pc = "handshake" => result.type = "none" /\ ~cut /\ disturbed
  /\ server = "http" => inbox = <<>>
ItemsInv ==
  /\ inbox \in Seq(Item) /\ _messageType \in MessageType
  /\ cut \in BOOLEAN /\ disturbed \in BOOLEAN /\ payloadLength \in Nat
ReceiveInv ==
  /\ ItemsInv /\ NewInv
  /\ ~cut => StreamInv /\ PlaceInv /\ ReadingInv /\ MessageInv
  /\ ResultsTruthful

(* Part of a sequence, and what can be said of it.                         *)
IsPart(t, s, k) ==
  /\ Len(s) \in Nat /\ Len(t) \in Nat /\ k \in Nat /\ Len(t) + k <= Len(s)
  /\ \A j \in 1 .. Len(t) : t[j] = s[j + k]

(* What is left when k items have been read.                               *)
LEMMA RestIsPart ==
  ASSUME NEW s \in Seq(Item), NEW k \in 0 .. Len(s), NEW t, t = SubSeq(s, k + 1, Len(s))
  PROVE  t \in Seq(Item) /\ IsPart(t, s, k) /\ Len(t) + k = Len(s)
BY SMTT(30) DEF IsPart

(* What is left when the network loses the end.                            *)
LEMMA FrontIsPart ==
  ASSUME NEW s \in Seq(Item), NEW k \in 0 .. Len(s), NEW t, t = SubSeq(s, 1, k)
  PROVE  t \in Seq(Item) /\ IsPart(t, s, 0)
BY SMTT(30) DEF IsPart

(* What is left when one item has been read.                               *)
LEMMA TailIsPart ==
  ASSUME NEW s \in Seq(Item), s # <<>>, NEW t, t = Tail(s)
  PROVE  t \in Seq(Item) /\ IsPart(t, s, 1) /\ Len(t) + 1 = Len(s) /\ Head(s) = s[1]
BY SMTT(30) DEF IsPart

(* The payload that goes on at place i + k goes on at place i of the rest. *)
LEMMA PartContent ==
  ASSUME NEW s, NEW t, NEW k, IsPart(t, s, k), NEW i \in Nat \ {0}, NEW n \in Nat,
         Content(s, i + k, n)
  PROVE  Content(t, i, n)
<1>1. ASSUME NEW j \in i .. i + n - 1, j <= Len(t) PROVE t[j].is = "byte"
  <2>1. j + k \in i + k .. i + k + n - 1 /\ j + k <= Len(s) /\ t[j] = s[j + k]
    BY <1>1 DEF IsPart
  <2> QED BY <2>1 DEF Content
<1>2. ASSUME i + n <= Len(t) PROVE t[i + n].is = "op"
  <2>1. (i + k) + n <= Len(s) /\ t[i + n] = s[(i + n) + k] /\ (i + n) + k = (i + k) + n
    BY <1>2 DEF IsPart
  <2> QED BY <2>1 DEF Content
<1> QED BY <1>1, <1>2 DEF Content

(* So does a length field with its payload.                                *)
LEMMA PartSized ==
  ASSUME NEW s, NEW t, NEW k, IsPart(t, s, k), NEW i \in Nat \ {0}, NEW n \in Nat,
         Sized(s, i + k, n)
  PROVE  Sized(t, i, n)
<1>1. k \in Nat /\ (i + 1) + k = (i + k) + 1
  BY DEF IsPart
<1>2. Content(t, i + 1, n)
  BY <1>1, PartContent DEF Sized
<1>3. ASSUME i <= Len(t) PROVE t[i].is = "length" /\ t[i].n = n
  BY <1>3 DEF IsPart, Sized
<1> QED BY <1>2, <1>3 DEF Sized

(* An opcode stays one, k places further to the front.                     *)
LEMMA PartOps ==
  ASSUME NEW s, NEW t, NEW k, IsPart(t, s, k)
  PROVE  /\ \A i \in 1 .. Len(t) : (IsOp(t, i) <=> IsOp(s, i + k)) /\ (IsData(t, i) <=> IsData(s, i + k))
         /\ \A i \in 1 .. Len(t) : i + k \in 1 .. Len(s) /\ t[i] = s[i + k]
BY DEF IsPart, IsOp, IsData

(* A part of a row of frames is one, but for the frame it begins in.       *)
LEMMA PartFramed ==
  ASSUME NEW s, NEW t, NEW k, IsPart(t, s, k), Framed(s)
  PROVE  Framed(t)
<1> SUFFICES ASSUME NEW i \in 1 .. Len(t), IsOp(t, i) PROVE FrameAt(t, i)
  BY DEF Framed
<1>1. k \in Nat /\ i \in Nat /\ (i + 1) + k = (i + k) + 1 /\ i + 1 \in Nat \ {0}
  BY DEF IsPart
<1>2. FrameAt(s, i + k) /\ t[i] = s[i + k]
  BY PartOps DEF Framed
<1>3. Sized(t, i + 1, s[i + k].n)
  BY <1>1, <1>2, PartSized DEF FrameAt
<1> QED BY <1>2, <1>3 DEF FrameAt

(* Reading cuts no frame short that lies behind.                           *)
LEMMA PartWhole ==
  ASSUME NEW s, NEW t, NEW k, IsPart(t, s, k), Len(t) + k = Len(s), Framed(s), Whole(s)
  PROVE  Whole(t)
<1> SUFFICES ASSUME NEW i \in 1 .. Len(t), IsOp(t, i) PROVE i + 1 + t[i].n <= Len(t)
  BY DEF Whole
<1>1. i + k \in 1 .. Len(s) /\ IsOp(s, i + k) /\ t[i] = s[i + k]
  BY PartOps
<1>2. s[i + k].n \in Nat /\ (i + k) + 1 + s[i + k].n <= Len(s)
  BY <1>1 DEF Framed, FrameAt, Whole
<1>3. k \in Nat /\ Len(t) \in Nat /\ Len(t) + k = Len(s) /\ i \in Nat
  BY DEF IsPart
<1>4. i + 1 + s[i + k].n <= Len(t)
  BY <1>2, <1>3
<1> QED BY <1>1, <1>4

(* The next frame of data behind a place stays the next one.               *)
LEMMA PartContinues ==
  ASSUME NEW s, NEW t, NEW k, IsPart(t, s, k), NEW i \in Nat, NEW type, Continues(s, i + k, type)
  PROVE  Continues(t, i, type)
<1> SUFFICES ASSUME NEW j \in 1 .. Len(t), i < j, IsData(t, j), t[j].op = "CONT",
                    \A m \in 1 .. Len(t) : i < m /\ m < j => ~IsData(t, m)
             PROVE  t[j].type = type
  BY DEF Continues
<1>1. j + k \in 1 .. Len(s) /\ IsData(s, j + k) /\ t[j] = s[j + k]
  BY PartOps
<1>0. i + k < j + k
  BY DEF IsPart
<1>2. ASSUME NEW m \in 1 .. Len(s), i + k < m, m < j + k PROVE ~IsData(s, m)
  <2>1. m - k \in 1 .. Len(t) /\ i < m - k /\ m - k < j /\ (m - k) + k = m
    BY <1>2 DEF IsPart
  <2> QED BY <2>1, PartOps
<1> QED BY <1>0, <1>1, <1>2 DEF Continues

(* The last frame of data stays the last one.                              *)
LEMMA PartEnds ==
  ASSUME NEW s, NEW t, NEW k, IsPart(t, s, k), Len(t) + k = Len(s), NEW i \in Nat, NEW type,
         NEW open, Ends(s, i + k, type, open)
  PROVE  Ends(t, i, type, open)
<1> SUFFICES ASSUME \A m \in 1 .. Len(t) : i < m => ~IsData(t, m) PROVE open \in {"none", type}
  BY DEF Ends
<1>1. ASSUME NEW m \in 1 .. Len(s), i + k < m PROVE ~IsData(s, m)
  <2>1. m - k \in 1 .. Len(t) /\ i < m - k /\ (m - k) + k = m
    BY <1>1 DEF IsPart
  <2> QED BY <2>1, PartOps
<1> QED BY <1>1 DEF Ends

(* Continuations that are left go on with the message before them.         *)
LEMMA PartLinked ==
  ASSUME NEW s, NEW t, NEW k, IsPart(t, s, k), Linked(s)
  PROVE  Linked(t)
<1> SUFFICES ASSUME NEW i \in 1 .. Len(t), IsData(t, i) PROVE Continues(t, i, t[i].type)
  BY DEF Linked
<1>1. i \in Nat /\ t[i] = s[i + k] /\ Continues(s, i + k, s[i + k].type)
  BY PartOps DEF Linked
<1> QED BY <1>1, PartContinues

(* The server is still in the message of the last frame of data that is    *)
(* left.                                                                   *)
LEMMA PartAllEnd ==
  ASSUME NEW s, NEW t, NEW k, IsPart(t, s, k), Len(t) + k = Len(s), NEW open, AllEnd(s, open)
  PROVE  AllEnd(t, open)
<1> SUFFICES ASSUME NEW i \in 1 .. Len(t), IsData(t, i) PROVE Ends(t, i, t[i].type, open)
  BY DEF AllEnd
<1>1. i \in Nat /\ t[i] = s[i + k] /\ Ends(s, i + k, s[i + k].type, open)
  BY PartOps DEF AllEnd
<1> QED BY <1>1, PartEnds

(* What has been read of a frame is no opcode of data.                     *)
LEMMA PartPasses ==
  ASSUME NEW s, NEW t, NEW k, IsPart(t, s, k), Len(t) + k = Len(s), NEW type, NEW open,
         \A m \in 1 .. k : ~IsData(s, m)
  PROVE  /\ Continues(s, 0, type) => Continues(t, 0, type)
         /\ Ends(s, 0, type, open) => Ends(t, 0, type, open)
<1>1. k \in Nat /\ 0 + k = k /\ Len(s) \in Nat
  BY DEF IsPart
<1>2. ASSUME Continues(s, 0, type) PROVE Continues(t, 0, type)
  <2>1. Continues(s, k, type)
    BY <1>1, <1>2, SMTT(30) DEF Continues
  <2> QED BY <1>1, <2>1, PartContinues
<1>3. ASSUME Ends(s, 0, type, open) PROVE Ends(t, 0, type, open)
  <2>1. Ends(s, k, type, open)
    BY <1>1, <1>3, SMTT(30) DEF Ends
  <2> QED BY <1>1, <2>1, PartEnds
<1> QED BY <1>2, <1>3

(* The stream and one more frame.                                          *)
IsGrown(t, s, op, type, final, n) ==
  /\ Len(s) \in Nat /\ Len(t) = Len(s) + 2 + n /\ n \in Nat
  /\ \A j \in 1 .. Len(s) : t[j] = s[j]
  /\ t[Len(s) + 1] = [is |-> "op", op |-> op, type |-> type, fin |-> final, n |-> n]
  /\ t[Len(s) + 2] = [is |-> "length", n |-> n]
  /\ \A j \in Len(s) + 3 .. Len(t) : t[j].is = "byte"

(* A concatenation, place by place.                                        *)
LEMMA Joined ==
  ASSUME NEW a \in Seq(Item), NEW b \in Seq(Item)
  PROVE  /\ a \o b \in Seq(Item) /\ Len(a \o b) = Len(a) + Len(b) /\ Len(a) \in Nat /\ Len(b) \in Nat
         /\ \A i \in 1 .. Len(a) : (a \o b)[i] = a[i]
         /\ \A i \in 1 .. Len(b) : (a \o b)[Len(a) + i] = b[i]
OBVIOUS

(* What the server writes for a frame is one more frame of the stream.     *)
LEMMA FrameGrows ==
  ASSUME NEW s \in Seq(Item), NEW op \in Data \cup Control \cup {"CONT"},
         NEW type \in Data \cup Control, NEW final \in BOOLEAN, NEW n \in Lengths,
         NEW t, t = s \o Items(op, type, final, n)
  PROVE  t \in Seq(Item) /\ IsGrown(t, s, op, type, final, n)
<1> DEFINE first == [is |-> "op", op |-> op, type |-> type, fin |-> final, n |-> n]
           second == [is |-> "length", n |-> n]
           byte == [is |-> "byte"]
           bytes == [i \in 1 .. n |-> byte]
           head == <<first, second>>
<1>1. n \in Nat
  BY WebSocketAssumption
<1>2. first \in Item /\ second \in Item /\ byte \in Item /\ byte.is = "byte"
  BY DEF Item
<1>3. Items(op, type, final, n) = head \o bytes
  BY DEF Items
<1> HIDE DEF first, second, byte
<1>4. head \in Seq(Item) /\ Len(head) = 2 /\ head[1] = first /\ head[2] = second
  BY <1>2
<1>5. bytes \in Seq(Item) /\ Len(bytes) = n /\ \A i \in 1 .. n : bytes[i] = byte
  BY <1>1, <1>2
<1> HIDE DEF head, bytes
<1> DEFINE new == head \o bytes
<1>6. /\ new \in Seq(Item) /\ Len(new) = 2 + n
      /\ \A i \in 1 .. 2 : new[i] = head[i]
      /\ \A i \in 1 .. n : new[2 + i] = bytes[i]
  <2>1. new \in Seq(Item) /\ Len(new) = Len(head) + Len(bytes)
    BY <1>4, <1>5, Joined
  <2>2. \A i \in 1 .. Len(head) : new[i] = head[i]
    BY <1>4, <1>5, Joined
  <2>3. \A i \in 1 .. Len(bytes) : new[Len(head) + i] = bytes[i]
    BY <1>4, <1>5, Joined
  <2> QED BY <2>1, <2>2, <2>3, <1>4, <1>5
<1> HIDE DEF new
<1>7. t = s \o new
  BY <1>3 DEF new
<1>8. /\ t \in Seq(Item) /\ Len(t) = Len(s) + (2 + n) /\ Len(s) \in Nat
      /\ \A i \in 1 .. Len(s) : t[i] = s[i]
      /\ \A i \in 1 .. 2 + n : t[Len(s) + i] = new[i]
  <2>1. t \in Seq(Item) /\ Len(t) = Len(s) + Len(new) /\ Len(s) \in Nat
    BY <1>6, <1>7, Joined
  <2>2. \A i \in 1 .. Len(s) : t[i] = s[i]
    BY <1>6, <1>7, Joined
  <2>3. \A i \in 1 .. Len(new) : t[Len(s) + i] = new[i]
    BY <1>6, <1>7, Joined
  <2> QED BY <2>1, <2>2, <2>3, <1>6
<1>9. t[Len(s) + 1] = first /\ t[Len(s) + 2] = second
  <2>1. 1 \in 1 .. 2 + n /\ 2 \in 1 .. 2 + n
    BY <1>1
  <2> QED BY <2>1, <1>4, <1>6, <1>8
<1>10. ASSUME NEW j \in Len(s) + 3 .. Len(t) PROVE t[j].is = "byte"
  <2> DEFINE i == j - Len(s) - 2
  <2>1. i \in 1 .. n /\ 2 + i \in 1 .. 2 + n /\ Len(s) + (2 + i) = j
    BY <1>1, <1>8
  <2> HIDE DEF i
  <2>2. t[j] = new[2 + i]
    BY <2>1, <1>8
  <2>3. new[2 + i] = bytes[i] /\ bytes[i] = byte
    BY <2>1, <1>5, <1>6
  <2> QED BY <2>2, <2>3, <1>2
<1> QED BY <1>1, <1>8, <1>9, <1>10 DEF IsGrown, first, second

(* The lengths before and after.                                           *)
LEMMA GrownLen ==
  ASSUME NEW s, NEW t, NEW op, NEW type, NEW final, NEW n, IsGrown(t, s, op, type, final, n)
  PROVE  Len(s) \in Nat /\ Len(t) \in Nat /\ n \in Nat /\ Len(t) = Len(s) + 2 + n
BY DEF IsGrown

(* The items that were there.                                              *)
LEMMA GrownOld ==
  ASSUME NEW s, NEW t, NEW op, NEW type, NEW final, NEW n, IsGrown(t, s, op, type, final, n),
         NEW i \in 1 .. Len(s)
  PROVE  /\ i \in 1 .. Len(t) /\ t[i] = s[i]
         /\ (IsOp(t, i) <=> IsOp(s, i)) /\ (IsData(t, i) <=> IsData(s, i))
BY DEF IsGrown, IsOp, IsData

(* The opcode of the new frame.                                            *)
LEMMA GrownNew ==
  ASSUME NEW s, NEW t, NEW op, NEW type, NEW final, NEW n, IsGrown(t, s, op, type, final, n),
         NEW i, i = Len(s) + 1
  PROVE  /\ i \in 1 .. Len(t) /\ IsOp(t, i) /\ (IsData(t, i) <=> type \in Data)
         /\ t[i].type = type /\ t[i].op = op /\ t[i].n = n /\ t[i].fin = final
<1>1. i \in 1 .. Len(t)
  BY DEF IsGrown
<1>2. t[i] = [is |-> "op", op |-> op, type |-> type, fin |-> final, n |-> n]
  BY DEF IsGrown
<1> QED BY <1>1, <1>2 DEF IsOp, IsData

(* No opcode is behind it.                                                 *)
LEMMA GrownRest ==
  ASSUME NEW s, NEW t, NEW op, NEW type, NEW final, NEW n, IsGrown(t, s, op, type, final, n),
         NEW i \in Len(s) + 2 .. Len(t)
  PROVE  ~IsOp(t, i) /\ ~IsData(t, i)
<1>1. CASE i = Len(s) + 2
  BY <1>1 DEF IsGrown, IsOp, IsData
<1>2. CASE i \in Len(s) + 3 .. Len(t)
  BY <1>2 DEF IsGrown, IsOp, IsData
<1> QED BY <1>1, <1>2, GrownLen

(* A payload that was whole ends at the new frame or before.               *)
LEMMA GrownContent ==
  ASSUME NEW s, NEW t, NEW op, NEW type, NEW final, NEW n, IsGrown(t, s, op, type, final, n),
         NEW k \in Nat \ {0}, NEW b \in Nat, Content(s, k, b), k + b <= Len(s) + 1
  PROVE  Content(t, k, b)
<1>1. ASSUME NEW j \in k .. k + b - 1, j <= Len(t) PROVE t[j].is = "byte"
  <2>1. j \in 1 .. Len(s)
    BY <1>1 DEF IsGrown
  <2> QED BY <2>1 DEF IsGrown, Content
<1>2. t[k + b].is = "op"
  <2>1. CASE k + b <= Len(s)
    <3>1. k + b \in 1 .. Len(s)
      BY <2>1 DEF IsGrown
    <3> QED BY <2>1, <3>1 DEF IsGrown, Content
  <2>2. CASE k + b = Len(s) + 1
    BY <2>2 DEF IsGrown
  <2> QED BY <2>1, <2>2, GrownLen
<1> QED BY <1>1, <1>2 DEF Content

(* So does a length field with its payload.                                *)
LEMMA GrownSized ==
  ASSUME NEW s, NEW t, NEW op, NEW type, NEW final, NEW n, IsGrown(t, s, op, type, final, n),
         NEW k \in Nat \ {0}, NEW b \in Nat, Sized(s, k, b), k + b <= Len(s)
  PROVE  Sized(t, k, b)
<1>1. Content(t, k + 1, b)
  <2>1. k + 1 \in Nat \ {0} /\ (k + 1) + b <= Len(s) + 1
    BY GrownLen
  <2> QED BY <2>1, GrownContent DEF Sized
<1>2. k \in 1 .. Len(s)
  BY DEF IsGrown
<1>3. t[k].is = "length" /\ t[k].n = b
  BY <1>2 DEF IsGrown, Sized
<1> QED BY <1>1, <1>3 DEF Sized

(* Whole frames and one more are whole frames.                             *)
LEMMA GrownFramed ==
  ASSUME NEW s, NEW t, NEW op, NEW type \in Data \cup Control, NEW final \in BOOLEAN, NEW n \in Nat,
         IsGrown(t, s, op, type, final, n), op = type \/ (op = "CONT" /\ type \in Data),
         Framed(s), Whole(s)
  PROVE  Framed(t) /\ Whole(t)
<1> SUFFICES ASSUME NEW i \in 1 .. Len(t), IsOp(t, i)
             PROVE  FrameAt(t, i) /\ i + 1 + t[i].n <= Len(t)
  BY DEF Framed, Whole
<1>1. CASE i \in 1 .. Len(s)
  <2>1. IsOp(s, i) /\ t[i] = s[i]
    BY <1>1, GrownOld
  <2>2. FrameAt(s, i) /\ i + 1 + s[i].n <= Len(s)
    BY <1>1, <2>1 DEF Framed, Whole
  <2>3. i + 1 \in Nat \ {0} /\ s[i].n \in Nat /\ (i + 1) + s[i].n <= Len(s)
    BY <2>2 DEF FrameAt
  <2>4. Sized(t, i + 1, s[i].n)
    BY <2>2, <2>3, GrownSized DEF FrameAt
  <2>5. Len(s) \in Nat /\ Len(t) \in Nat /\ Len(s) <= Len(t)
    BY DEF IsGrown
  <2>6. i + 1 + t[i].n <= Len(t)
    BY <2>1, <2>2, <2>3, <2>5
  <2> QED BY <2>1, <2>2, <2>4, <2>6 DEF FrameAt
<1>2. CASE i = Len(s) + 1
  <2>1. t[i].type = type /\ t[i].op = op /\ t[i].n = n /\ t[i].fin = final
    BY <1>2, GrownNew
  <2>2. Len(s) \in Nat /\ Len(t) = Len(s) + 2 + n
    BY DEF IsGrown
  <2>3. t[i + 1].is = "length" /\ t[i + 1].n = n
    BY <1>2, <2>2 DEF IsGrown
  <2>4. Content(t, i + 2, n)
    BY <1>2, <2>2 DEF IsGrown, Content
  <2>5. Sized(t, i + 1, n)
    BY <1>2, <2>2, <2>3, <2>4 DEF Sized
  <2>6. t[i].op \in {t[i].type, "CONT"} /\ (t[i].op = "CONT" => t[i].type \in Data)
    BY <2>1 DEF Data, Control
  <2>7. i + 1 + t[i].n <= Len(t)
    BY <1>2, <2>1, <2>2
  <2> QED BY <2>1, <2>5, <2>6, <2>7 DEF FrameAt
<1>3. CASE i \in Len(s) + 2 .. Len(t)
  BY <1>3, GrownRest
<1> QED BY <1>1, <1>2, <1>3 DEF IsGrown

(* The new frame is a continuation only of the message that is open.       *)
LEMMA GrownContinues ==
  ASSUME NEW s, NEW t, NEW op, NEW type \in Data \cup Control, NEW final, NEW n,
         IsGrown(t, s, op, type, final, n), NEW open, op = "CONT" => open = type /\ open # "none",
         NEW i \in 0 .. Len(s), NEW m, Continues(s, i, m), Ends(s, i, m, open)
  PROVE  Continues(t, i, m)
<1> SUFFICES ASSUME NEW j \in 1 .. Len(t), i < j, IsData(t, j), t[j].op = "CONT",
                    \A l \in 1 .. Len(t) : i < l /\ l < j => ~IsData(t, l)
             PROVE  t[j].type = m
  BY DEF Continues
<1>0. Len(s) \in Nat /\ Len(t) \in Nat /\ Len(s) <= Len(t)
  BY DEF IsGrown
<1>1. CASE j \in 1 .. Len(s)
  <2>1. IsData(s, j) /\ t[j] = s[j]
    BY <1>1, GrownOld
  <2>2. ASSUME NEW l \in 1 .. Len(s), i < l, l < j PROVE ~IsData(s, l)
    <3>1. l \in 1 .. Len(t)
      BY <1>0
    <3>2. ~IsData(t, l)
      BY <2>2, <3>1
    <3> QED BY <3>2, GrownOld
  <2> QED BY <1>1, <2>1, <2>2 DEF Continues
<1>2. CASE j = Len(s) + 1
  <2>1. t[j].type = type /\ op = "CONT"
    BY <1>2, GrownNew
  <2>2. ASSUME NEW l \in 1 .. Len(s), i < l PROVE ~IsData(s, l)
    <3>1. l \in 1 .. Len(t) /\ l < j
      BY <1>0, <1>2
    <3>2. ~IsData(t, l)
      BY <2>2, <3>1
    <3> QED BY <3>2, GrownOld
  <2> QED BY <2>1, <2>2 DEF Ends
<1>3. CASE j \in Len(s) + 2 .. Len(t)
  BY <1>3, GrownRest
<1> QED BY <1>0, <1>1, <1>2, <1>3

(* A control frame leaves the open message as it is.                       *)
LEMMA GrownEnds ==
  ASSUME NEW s, NEW t, NEW op, NEW type \in Data \cup Control, NEW final, NEW n,
         IsGrown(t, s, op, type, final, n), NEW open, NEW after,
         type \in Control => after = open,
         NEW i \in 0 .. Len(s), NEW m, Ends(s, i, m, open)
  PROVE  Ends(t, i, m, after)
<1> SUFFICES ASSUME \A l \in 1 .. Len(t) : i < l => ~IsData(t, l) PROVE after \in {"none", m}
  BY DEF Ends
<1>0. Len(s) \in Nat /\ Len(t) \in Nat /\ Len(s) <= Len(t) /\ i < Len(s) + 1
  BY DEF IsGrown
<1> DEFINE p == Len(s) + 1
<1>1. p \in 1 .. Len(t) /\ (IsData(t, p) <=> type \in Data)
  BY GrownNew
<1>2. after = open
  BY <1>0, <1>1
<1>3. ASSUME NEW l \in 1 .. Len(s), i < l PROVE ~IsData(s, l)
  <2>1. l \in 1 .. Len(t)
    BY <1>0
  <2> QED BY <1>3, <2>1, GrownOld
<1> QED BY <1>2, <1>3 DEF Ends

(* Continuations go on with the message before them, and the server is in  *)
(* the message of its last frame of data.                                  *)
LEMMA GrownLinked ==
  ASSUME NEW s, NEW t, NEW op, NEW type \in Data \cup Control, NEW final, NEW n,
         IsGrown(t, s, op, type, final, n), NEW open, op = "CONT" => open = type /\ open # "none",
         NEW after, type \in Control => after = open, type \in Data => after \in {"none", type},
         Linked(s), AllEnd(s, open)
  PROVE  Linked(t) /\ AllEnd(t, after)
<1> SUFFICES ASSUME NEW i \in 1 .. Len(t), IsData(t, i)
             PROVE  Continues(t, i, t[i].type) /\ Ends(t, i, t[i].type, after)
  BY DEF Linked, AllEnd
<1>0. Len(s) \in Nat /\ Len(t) \in Nat /\ Len(s) <= Len(t)
  BY DEF IsGrown
<1>1. CASE i \in 1 .. Len(s)
  <2>1. IsData(s, i) /\ t[i] = s[i] /\ i \in 0 .. Len(s)
    BY <1>1, GrownOld
  <2>2. Continues(s, i, s[i].type) /\ Ends(s, i, s[i].type, open)
    BY <1>1, <2>1 DEF Linked, AllEnd
  <2>3. Continues(t, i, s[i].type)
    BY <2>1, <2>2, GrownContinues
  <2>4. Ends(t, i, s[i].type, after)
    BY <2>1, <2>2, GrownEnds
  <2> QED BY <2>1, <2>3, <2>4
<1>2. CASE i = Len(s) + 1
  <2>1. t[i].type = type /\ type \in Data
    BY <1>2, GrownNew
  <2>2. ASSUME NEW j \in 1 .. Len(t), i < j PROVE ~IsData(t, j)
    <3>1. j \in Len(s) + 2 .. Len(t)
      BY <1>0, <1>2, <2>2
    <3> QED BY <3>1, GrownRest
  <2> QED BY <2>1, <2>2 DEF Continues, Ends
<1>3. CASE i \in Len(s) + 2 .. Len(t)
  BY <1>3, GrownRest
<1> QED BY <1>0, <1>1, <1>2, <1>3

-----------------------------------------------------------------------------
(* The steps of receive.                                                   *)

(* The stream without its first k items.                                   *)
LEMMA StreamReadOn ==
  ASSUME StreamInv, NEW k, IsPart(inbox', inbox, k), Len(inbox') + k = Len(inbox),
         UNCHANGED <<peer, sending>>
  PROVE  StreamInv'
<1>1. Framed(inbox') /\ Linked(inbox')
  BY PartFramed, PartLinked DEF StreamInv
<1>2. ASSUME peer = "up" PROVE Whole(inbox') /\ AllEnd(inbox', sending)
  BY <1>2, PartWhole, PartAllEnd DEF StreamInv
<1> QED BY <1>1, <1>2 DEF StreamInv

(* Reading what is no opcode of data leaves the present message as it is.  *)
LEMMA MessageReadOn ==
  ASSUME MessageInv, NEW k, IsPart(inbox', inbox, k), Len(inbox') + k = Len(inbox),
         \A m \in 1 .. k : ~IsData(inbox, m), UNCHANGED <<peer, sending>>,
         ~disturbed' => ~disturbed /\ _messageType' = _messageType
  PROVE  MessageInv'
<1> SUFFICES ASSUME ~disturbed, _messageType' = _messageType
             PROVE  /\ Continues(inbox', 0, _messageType)
                    /\ peer = "up" => Ends(inbox', 0, _messageType, sending)
  BY DEF MessageInv
<1>1. /\ Continues(inbox, 0, _messageType)
      /\ peer = "up" => Ends(inbox, 0, _messageType, sending)
  BY DEF MessageInv
<1> QED BY <1>1, PartPasses

(* Behind a payload a frame begins.                                        *)
LEMMA ContentEnds ==
  ASSUME NEW s, NEW k \in Nat, NEW n \in Nat, Content(s, k, n)
  PROVE  Content(s, k + n, 0)
BY DEF Content

(* The result of a frame that has been read.                               *)
LEMMA FrameGives ==
  ASSUME ReceiveInv, pc \in {"length", "payload"}, NEW n \in Nat, Frame(n),
         UNCHANGED <<peer, reading>>, cut' \in BOOLEAN, ~cut' => ~cut /\ n = reading.n
  PROVE  /\ ResultsTruthful' /\ _messageType' \in MessageType /\ disturbed' \in BOOLEAN
         /\ ~disturbed' => ~disturbed /\ _messageType' = _messageType
         /\ pc' = "sketch" /\ payloadLength' \in Nat
<1> DEFINE type == IF n > BufferSize THEN "BufferOverrun" ELSE _messageType
           length == IF type \in {"Ping", "Close", "Timeout"} THEN 0 ELSE n
<1>1. /\ _messageType' = type /\ disturbed' = (disturbed \/ n > BufferSize \/ cut')
      /\ pc' = "sketch" /\ payloadLength' = 0 /\ result' = [type |-> type, fin |-> fin, length |-> length]
  BY DEF Frame, Returns
<1>2. _messageType \in MessageType /\ disturbed \in BOOLEAN /\ BufferSize \in Nat
  BY WebSocketAssumption DEF ReceiveInv, ItemsInv
<1>3. type \in MessageType
  BY <1>2 DEF MessageType
<1>4. disturbed' \in BOOLEAN /\ (~disturbed' => ~disturbed /\ _messageType' = _messageType)
  BY <1>1, <1>2
<1>5. result'.type = type /\ result'.fin = fin /\ result'.length = length
  BY <1>1
<1>6. ASSUME ~cut', result'.type = "NULL" PROVE FALSE
  BY <1>3, <1>5, <1>6 DEF MessageType, Data, Control
<1>7. ASSUME ~cut', reading.sure, result'.type # "Timeout"
      PROVE  IF reading.n > BufferSize
               THEN result'.type = "BufferOverrun" /\ result'.length = reading.n
               ELSE /\ result'.type = reading.type
                    /\ result'.type \in Data => result'.fin = reading.fin /\ result'.length = reading.n
  <2>1. n = reading.n /\ _messageType = reading.type /\ (reading.type \in Data => fin = reading.fin)
    BY <1>7 DEF ReceiveInv, ReadingInv
  <2> QED BY <2>1, <1>5, <1>7 DEF Data
<1>8. ResultsTruthful'
  BY <1>6, <1>7 DEF ResultsTruthful
<1> QED BY <1>1, <1>3, <1>4, <1>8

(* receive reads an opcode.                                                *)
LEMMA OpcodeStep ==
  ASSUME ReceiveInv, OpcodeReads
  PROVE  ReceiveInv'
<1>1. /\ pc = "opcode" /\ inbox # <<>> /\ inbox \in Seq(Item) /\ inbox' = Tail(inbox)
      /\ UNCHANGED <<_tcpSocket, result, peer, server, sending, cut, payloadLength>>
      /\ cut \in BOOLEAN /\ disturbed \in BOOLEAN /\ _messageType \in MessageType
  BY DEF OpcodeReads, ReceiveInv, ItemsInv
<1>2. /\ inbox' \in Seq(Item) /\ IsPart(inbox', inbox, 1) /\ Len(inbox') + 1 = Len(inbox)
      /\ Head(inbox) = inbox[1]
  BY <1>1, TailIsPart
<1> DEFINE item == Head(inbox)
<1>3. item \in Item
  BY <1>1
<1>4. \/ \E op \in Data \cup Control \cup {"CONT"}, final \in BOOLEAN : Opcode(op, final)
      \/ UNCHANGED <<pc, _messageType, disturbed>>
  <2>1. CASE item.is = "op" /\ Opcode(item.op, item.fin)
    <3>1. item.op \in Data \cup Control \cup {"CONT"} /\ item.fin \in BOOLEAN
      BY <1>3, <2>1 DEF Item
    <3> QED BY <2>1, <3>1
  <2> QED BY <2>1 DEF OpcodeReads
<1>5. _messageType' \in MessageType /\ disturbed' \in BOOLEAN /\ pc' \in {"opcode", "length"}
  BY <1>1, <1>4 DEF Opcode, MessageType
<1>6. NewInv' /\ ItemsInv' /\ ResultsTruthful'
  BY <1>1, <1>2, <1>5 DEF ReceiveInv, NewInv, ItemsInv, ResultsTruthful
<1> SUFFICES ASSUME ~cut PROVE StreamInv' /\ PlaceInv' /\ ReadingInv' /\ MessageInv'
  BY <1>1, <1>6 DEF ReceiveInv
<1>7. StreamInv /\ Content(inbox, 1, 0) /\ MessageInv
  BY <1>1 DEF ReceiveInv, PlaceInv
<1>8. Len(inbox) \in Nat /\ 1 \in 1 .. Len(inbox)
  BY <1>2 DEF IsPart
<1>9. item.is = "op" /\ IsOp(inbox, 1) /\ item = inbox[1]
  BY <1>2, <1>7, <1>8 DEF Content, IsOp
<1>10. FrameAt(inbox, 1) /\ (peer = "up" => 1 + 1 + item.n <= Len(inbox))
  BY <1>7, <1>8, <1>9 DEF StreamInv, Framed, Whole
<1>11. /\ item.n \in Nat /\ item.type \in Data \cup Control /\ item.fin \in BOOLEAN
       /\ item.op \in {item.type, "CONT"} /\ (item.op = "CONT" => item.type \in Data)
       /\ Sized(inbox, 1 + 1, item.n)
  BY <1>9, <1>10 DEF FrameAt
<1>12. /\ Opcode(item.op, item.fin)
       /\ reading' = [type |-> item.type, fin |-> item.fin, n |-> item.n,
                      sure |-> (item.op # "CONT" \/ ~disturbed)]
  BY <1>9 DEF OpcodeReads
<1>13. StreamInv'
  BY <1>1, <1>2, <1>7, StreamReadOn
<1>14. PlaceInv'
  <2>1. Sized(inbox', 1, item.n)
    BY <1>2, <1>11, PartSized
  <2>2. peer = "up" => 1 + item.n <= Len(inbox')
    BY <1>2, <1>10, <1>11 DEF IsPart
  <2>3. pc' = "length" /\ reading'.n = item.n
    BY <1>12 DEF Opcode
  <2> QED BY <1>1, <2>1, <2>2, <2>3 DEF PlaceInv
<1> HIDE DEF item
<1>15. ASSUME item.op = "CONT", ~disturbed PROVE _messageType = item.type
  <2>1. IsData(inbox, 1)
    BY <1>9, <1>11, <1>15 DEF IsData
  <2>2. \A m \in 1 .. Len(inbox) : 0 < m /\ m < 1 => ~IsData(inbox, m)
    BY <1>8
  <2>3. Continues(inbox, 0, _messageType)
    BY <1>7, <1>15 DEF MessageInv
  <2> QED BY <1>8, <1>9, <1>15, <2>1, <2>2, <2>3 DEF Continues
<1>16. ReadingInv'
  <2>1. /\ reading'.n = item.n /\ reading'.type = item.type /\ reading'.fin = item.fin
        /\ reading'.sure = (item.op # "CONT" \/ ~disturbed)
    BY <1>12
  <2>2. /\ pc' = "length" /\ _messageType' = IF item.op = "CONT" THEN _messageType ELSE item.op
        /\ fin' = (item.op \notin Control /\ item.fin)
    BY <1>12 DEF Opcode
  <2>3. ASSUME reading'.sure PROVE _messageType' = item.type
    BY <1>11, <1>15, <2>1, <2>2, <2>3
  <2>4. ASSUME item.type \in Data PROVE fin' = item.fin
    BY <1>11, <2>2, <2>4 DEF Data, Control
  <2> QED BY <1>11, <2>1, <2>2, <2>3, <2>4 DEF ReadingInv
<1>17. MessageInv'
  <2> SUFFICES ASSUME ~disturbed'
               PROVE  /\ Continues(inbox', 0, _messageType')
                      /\ peer = "up" => Ends(inbox', 0, _messageType', sending)
    BY <1>1 DEF MessageInv
  <2>1. disturbed' = IF item.op \in Data THEN FALSE ELSE (disturbed \/ item.op \in Control)
    BY <1>12 DEF Opcode
  <2>2. item.op \notin Control /\ (item.op = "CONT" => ~disturbed)
    BY <1>1, <1>11, <2>1 DEF Data, Control
  <2>3. item.type \in Data
    BY <1>11, <2>2
  <2>4. _messageType' = item.type
    BY <1>11, <1>12, <1>15, <2>2 DEF Opcode
  <2>5. IsData(inbox, 1) /\ inbox[1].type = item.type
    BY <1>9, <2>3 DEF IsData
  <2>6. /\ Continues(inbox, 1, item.type)
        /\ peer = "up" => Ends(inbox, 1, item.type, sending)
    BY <1>7, <1>8, <2>5 DEF StreamInv, Linked, AllEnd
  <2>7. 0 + 1 = 1 /\ 0 \in Nat
    OBVIOUS
  <2>8. Continues(inbox', 0, item.type)
    BY <1>2, <2>6, <2>7, PartContinues
  <2>9. peer = "up" => Ends(inbox', 0, item.type, sending)
    BY <1>2, <2>6, <2>7, PartEnds
  <2> QED BY <2>4, <2>8, <2>9
<1> QED BY <1>13, <1>14, <1>16, <1>17

(* receive reads a length field, or finds it late.                         *)
LEMMA LengthStep ==
  ASSUME ReceiveInv, LengthReads
  PROVE  ReceiveInv'
<1>1. /\ pc = "length" /\ inbox \in Seq(Item) /\ cut \in BOOLEAN /\ disturbed \in BOOLEAN
      /\ _messageType \in MessageType
      /\ UNCHANGED <<_tcpSocket, peer, server, sending, reading>>
  BY DEF LengthReads, ReceiveInv, ItemsInv
<1>2. PICK n \in Lengths :
        /\ \/ /\ inbox # <<>> /\ inbox' = Tail(inbox) /\ UNCHANGED cut
              /\ Head(inbox).is = "length" => n = Head(inbox).n
           \/ Late /\ UNCHANGED inbox /\ cut' = TRUE
        /\ IF n = 0
             THEN Frame(0)
             ELSE /\ pc' = "payload" /\ payloadLength' = n
                  /\ UNCHANGED <<_messageType, _firstFrame, fin, disturbed, result, toServer>>
  BY DEF LengthReads
<1>3. n \in Nat
  BY WebSocketAssumption
<1>4. inbox' \in Seq(Item) /\ cut' \in BOOLEAN
  BY <1>1, <1>2, TailIsPart
<1>5. ASSUME ~cut'
      PROVE  /\ ~cut /\ n = reading.n /\ IsPart(inbox', inbox, 1) /\ Len(inbox') + 1 = Len(inbox)
             /\ \A m \in 1 .. 1 : ~IsData(inbox, m)
             /\ Content(inbox', 1, n) /\ (peer = "up" => n <= Len(inbox'))
  <2>1. ~cut /\ inbox # <<>> /\ inbox' = Tail(inbox) /\ (Head(inbox).is = "length" => n = Head(inbox).n)
    BY <1>2, <1>5
  <2>2. IsPart(inbox', inbox, 1) /\ Len(inbox') + 1 = Len(inbox) /\ Head(inbox) = inbox[1]
    BY <1>1, <2>1, TailIsPart
  <2>3. 1 <= Len(inbox) /\ Len(inbox) \in Nat /\ Len(inbox') \in Nat
    BY <2>2 DEF IsPart
  <2>4. Sized(inbox, 1, reading.n) /\ (peer = "up" => 1 + reading.n <= Len(inbox)) /\ reading.n \in Nat
    BY <1>1, <2>1 DEF ReceiveInv, PlaceInv, ReadingInv
  <2>5. inbox[1].is = "length" /\ inbox[1].n = reading.n /\ Content(inbox, 1 + 1, reading.n)
    BY <2>3, <2>4 DEF Sized
  <2>6. n = reading.n
    BY <2>1, <2>2, <2>5
  <2>7. \A m \in 1 .. 1 : ~IsData(inbox, m)
    BY <2>5 DEF IsData, IsOp
  <2>8. Content(inbox', 1, n)
    <3>1. 1 \in Nat \ {0}
      OBVIOUS
    <3> QED BY <2>2, <2>4, <2>5, <2>6, <3>1, PartContent
  <2>9. peer = "up" => n <= Len(inbox')
    BY <2>2, <2>3, <2>4, <2>6
  <2> QED BY <2>1, <2>2, <2>6, <2>7, <2>8, <2>9
<1>6. ASSUME ~cut' PROVE StreamInv'
  BY <1>1, <1>5, <1>6, StreamReadOn DEF ReceiveInv
<1>7. NewInv'
  BY <1>1, <1>2 DEF ReceiveInv, NewInv, Frame, Returns
<1>8. CASE n = 0
  <2>1. Frame(0)
    BY <1>2, <1>8
  <2>2. /\ ResultsTruthful' /\ _messageType' \in MessageType /\ disturbed' \in BOOLEAN
        /\ ~disturbed' => ~disturbed /\ _messageType' = _messageType
        /\ pc' = "sketch" /\ payloadLength' \in Nat
    BY <1>1, <1>4, <1>5, <1>8, <2>1, FrameGives
  <2>3. ASSUME ~cut' PROVE MessageInv'
    BY <1>1, <1>5, <2>2, <2>3, MessageReadOn DEF ReceiveInv
  <2>4. ASSUME ~cut' PROVE PlaceInv' /\ ReadingInv'
    BY <1>5, <1>8, <2>2, <2>4 DEF PlaceInv, ReadingInv
  <2> QED BY <1>4, <1>6, <1>7, <2>2, <2>3, <2>4 DEF ReceiveInv, ItemsInv
<1>9. CASE n # 0
  <2>1. pc' = "payload" /\ payloadLength' = n /\ UNCHANGED <<_messageType, fin, disturbed>>
    BY <1>2, <1>9
  <2>2. ASSUME ~cut' PROVE MessageInv'
    BY <1>1, <1>5, <2>1, <2>2, MessageReadOn DEF ReceiveInv
  <2>3. ASSUME ~cut' PROVE PlaceInv'
    BY <1>1, <1>5, <2>1, <2>3 DEF PlaceInv
  <2>4. ASSUME ~cut' PROVE ReadingInv'
    BY <1>1, <1>5, <2>1, <2>4 DEF ReceiveInv, ReadingInv
  <2>5. ResultsTruthful'
    BY <2>1 DEF ResultsTruthful
  <2> QED BY <1>1, <1>3, <1>4, <1>6, <1>7, <2>1, <2>2, <2>3, <2>4, <2>5 DEF ReceiveInv, ItemsInv
<1> QED BY <1>8, <1>9

(* receive reads a payload and passes over what does not fit.              *)
LEMMA PayloadStep ==
  ASSUME ReceiveInv, PayloadReads
  PROVE  ReceiveInv'
<1>1. /\ pc = "payload" /\ inbox \in Seq(Item) /\ cut \in BOOLEAN /\ Frame(payloadLength)
      /\ UNCHANGED <<_tcpSocket, peer, server, sending, reading>>
  BY DEF PayloadReads, ReceiveInv, ItemsInv
<1>2. PICK k \in Kept .. payloadLength :
        /\ k <= Len(inbox) /\ inbox' = SubSeq(inbox, k + 1, Len(inbox))
        /\ cut' = (cut \/ k < payloadLength)
  BY DEF PayloadReads
<1>0. payloadLength \in Nat
  BY DEF ReceiveInv, ItemsInv
<1>3. Kept \in Nat /\ Len(inbox) \in Nat
  BY <1>0, <1>1, WebSocketAssumption DEF Kept
<1>4. k \in 0 .. Len(inbox)
  BY <1>2, <1>3
<1>5. inbox' \in Seq(Item) /\ IsPart(inbox', inbox, k) /\ Len(inbox') + k = Len(inbox)
  BY <1>1, <1>2, <1>4, RestIsPart
<1>6. cut' \in BOOLEAN /\ (~cut' => ~cut /\ k = payloadLength)
  <2>1. k \in Nat /\ payloadLength \in Nat /\ k <= payloadLength
    BY <1>3, <1>4 DEF ReceiveInv, ItemsInv
  <2>2. (k < payloadLength) \in BOOLEAN /\ (~(k < payloadLength) => k = payloadLength)
    BY <2>1
  <2> QED BY <1>1, <1>2, <2>2
<1>7. ASSUME ~cut'
      PROVE  /\ payloadLength = reading.n /\ Content(inbox', 1, 0)
             /\ \A m \in 1 .. k : ~IsData(inbox, m)
  <2>1. Content(inbox, 1, k) /\ payloadLength = reading.n
    BY <1>1, <1>6, <1>7 DEF ReceiveInv, PlaceInv, ReadingInv
  <2>2. k \in Nat /\ 1 \in Nat /\ 1 \in Nat \ {0} /\ 0 \in Nat
    BY <1>4
  <2>3. Content(inbox, 1 + k, 0)
    BY <2>1, <2>2, ContentEnds
  <2>4. Content(inbox', 1, 0)
    BY <1>5, <2>2, <2>3, PartContent
  <2>5. ASSUME NEW m \in 1 .. k PROVE ~IsData(inbox, m)
    <3>1. m \in 1 .. 1 + k - 1 /\ m <= Len(inbox)
      BY <1>3, <1>4
    <3>2. inbox[m].is = "byte"
      BY <2>1, <3>1 DEF Content
    <3> QED BY <3>2 DEF IsData, IsOp
  <2> QED BY <2>1, <2>4, <2>5
<1>8. /\ ResultsTruthful' /\ _messageType' \in MessageType /\ disturbed' \in BOOLEAN
      /\ ~disturbed' => ~disturbed /\ _messageType' = _messageType
      /\ pc' = "sketch" /\ payloadLength' \in Nat
  BY <1>0, <1>1, <1>6, <1>7, FrameGives
<1>9. ASSUME ~cut' PROVE StreamInv'
  BY <1>1, <1>5, <1>6, <1>9, StreamReadOn DEF ReceiveInv
<1>10. ASSUME ~cut' PROVE MessageInv'
  BY <1>1, <1>5, <1>6, <1>7, <1>8, <1>10, MessageReadOn DEF ReceiveInv
<1>11. ASSUME ~cut' PROVE PlaceInv' /\ ReadingInv'
  BY <1>7, <1>8, <1>11 DEF PlaceInv, ReadingInv
<1>12. NewInv'
  <2>1. server = "http" => inbox' = <<>>
    <3>1. ASSUME server = "http" PROVE inbox' = <<>>
      <4>1. Len(inbox) = 0
        BY <3>1 DEF ReceiveInv, NewInv
      <4> QED BY <1>3, <1>4, <1>5, <4>1
    <3> QED BY <3>1
  <2> QED BY <1>1, <1>8, <2>1 DEF ReceiveInv, NewInv
<1> QED BY <1>5, <1>6, <1>8, <1>9, <1>10, <1>11, <1>12 DEF ReceiveInv, ItemsInv

(* A payload is late: nothing is claimed any more but what the socket has. *)
LEMMA LateStep ==
  ASSUME ReceiveInv, PayloadLate
  PROVE  ReceiveInv'
<1>1. /\ cut' = TRUE /\ pc' = "sketch" /\ payloadLength' = 0 /\ Kept \in Nat
      /\ UNCHANGED <<_tcpSocket, _messageType, server, disturbed>>
  BY WebSocketAssumption DEF PayloadLate, Returns, Kept, ReceiveInv, ItemsInv
<1>2. PICK k \in 0 .. Kept - 1 : k <= Len(inbox) /\ inbox' = SubSeq(inbox, k + 1, Len(inbox))
  BY DEF PayloadLate
<1>3. inbox \in Seq(Item) /\ k \in 0 .. Len(inbox)
  BY <1>1, <1>2 DEF ReceiveInv, ItemsInv
<1>4. inbox' \in Seq(Item) /\ Len(inbox') + k = Len(inbox)
  BY <1>2, <1>3, RestIsPart
<1>5. server = "http" => inbox' = <<>>
  <2>1. ASSUME server = "http" PROVE inbox' = <<>>
    <3>1. Len(inbox) = 0
      BY <2>1 DEF ReceiveInv, NewInv
    <3> QED BY <1>3, <1>4, <3>1
  <2> QED BY <2>1
<1>6. NewInv'
  BY <1>1, <1>5 DEF ReceiveInv, NewInv, PayloadLate
<1> QED BY <1>1, <1>4, <1>6 DEF ReceiveInv, ItemsInv, ResultsTruthful

(* The stream and where receive stands in it do not change.                *)
LEMMA NothingRead ==
  ASSUME ReceiveInv, UNCHANGED <<inbox, peer, sending, server, cut>>,
         pc' \in {"sketch", "opcode"}, pc \in {"sketch", "opcode"}, payloadLength' \in Nat,
         _messageType' \in MessageType, disturbed' \in BOOLEAN,
         ~disturbed' => ~disturbed /\ _messageType' = _messageType,
         _tcpSocket # "NULL" /\ UNCHANGED _tcpSocket, ResultsTruthful'
  PROVE  ReceiveInv'
<1>1. ItemsInv' /\ NewInv'
  BY DEF ReceiveInv, ItemsInv, NewInv
<1> SUFFICES ASSUME ~cut PROVE StreamInv' /\ PlaceInv' /\ ReadingInv' /\ MessageInv'
  BY <1>1 DEF ReceiveInv
<1>2. StreamInv /\ PlaceInv /\ MessageInv
  BY DEF ReceiveInv
<1>3. StreamInv'
  BY <1>2 DEF StreamInv
<1>4. PlaceInv' /\ ReadingInv'
  BY <1>2 DEF PlaceInv, ReadingInv
<1>5. MessageInv'
  BY <1>2 DEF MessageInv
<1> QED BY <1>3, <1>4, <1>5

(* The sketch sends, or begins to receive.                                 *)
LEMMA SketchStep ==
  ASSUME ReceiveInv, Sends \/ ReceiveBegins
  PROVE  ReceiveInv'
<1>1. /\ pc = "sketch" /\ pc' \in {"sketch", "opcode"}
      /\ UNCHANGED <<_tcpSocket, inbox, peer, sending, server, cut>> /\ _tcpSocket = "open"
      /\ result' = Nothing /\ payloadLength' = 0
  BY DEF Sends, SendsControl, SendData, ReceiveBegins, Forgotten
<1>2. _messageType \in MessageType /\ disturbed \in BOOLEAN
  BY DEF ReceiveInv, ItemsInv
<1>3. /\ _messageType' \in MessageType /\ disturbed' \in BOOLEAN
      /\ ~disturbed' => ~disturbed /\ _messageType' = _messageType
  <2>1. ASSUME NEW type \in Data, NEW final \in BOOLEAN, SendData(type, final)
        PROVE  /\ _messageType' \in MessageType /\ disturbed' \in BOOLEAN
               /\ ~disturbed' => ~disturbed /\ _messageType' = _messageType
    <3>1. CASE _firstFrame
      BY <1>2, <2>1, <3>1 DEF SendData, MessageType
    <3>2. CASE ~_firstFrame
      BY <1>2, <2>1, <3>2 DEF SendData, MessageType
    <3> QED BY <3>1, <3>2
  <2>2. CASE SendsControl \/ ReceiveBegins
    BY <1>2, <2>2 DEF SendsControl, ReceiveBegins
  <2> QED BY <2>1, <2>2 DEF Sends
<1>4. ResultsTruthful'
  BY <1>1 DEF ResultsTruthful, Nothing
<1> QED BY <1>1, <1>3, <1>4, NothingRead

(* receive gives up, by its timeout or by an error.                        *)
LEMMA NoFrameStep ==
  ASSUME ReceiveInv, OpcodeTimesOut \/ OpcodeFails
  PROVE  ReceiveInv'
<1>1. /\ pc = "opcode" /\ pc' = "sketch" /\ payloadLength' = 0
      /\ UNCHANGED <<_tcpSocket, _messageType, disturbed, inbox, peer, sending, server, cut>>
  BY DEF OpcodeTimesOut, OpcodeFails, Returns
<1>2. _tcpSocket # "NULL"
  BY <1>1 DEF ReceiveInv, NewInv
<1>3. ResultsTruthful'
  <2>1. CASE OpcodeTimesOut
    BY <2>1 DEF ResultsTruthful, OpcodeTimesOut, Returns
  <2>2. CASE OpcodeFails
    BY <2>2 DEF ResultsTruthful, OpcodeFails, Returns, NULL
  <2> QED BY <2>1, <2>2
<1> QED BY <1>1, <1>2, <1>3, NothingRead DEF ReceiveInv, ItemsInv

(* doHandshake takes what there is, and stops between two frames or sets   *)
(* cut.                                                                    *)
LEMMA HandshakeStep ==
  ASSUME ReceiveInv, HandshakeReads
  PROVE  ReceiveInv'
<1>1. /\ pc = "handshake" /\ pc' = "sketch" /\ inbox \in Seq(Item)
      /\ cut' = (inbox' # <<>> /\ Head(inbox').is # "op")
      /\ UNCHANGED <<_tcpSocket, _messageType, payloadLength, result, peer, server, sending, reading,
                     disturbed>>
  BY DEF HandshakeReads, ReceiveInv, ItemsInv
<1>2. PICK k \in 0 .. Len(inbox) : inbox' = SubSeq(inbox, k + 1, Len(inbox))
  BY DEF HandshakeReads
<1>3. inbox' \in Seq(Item) /\ IsPart(inbox', inbox, k) /\ Len(inbox') + k = Len(inbox)
  BY <1>1, <1>2, RestIsPart
<1>4. ~cut /\ disturbed /\ result.type = "none" /\ StreamInv /\ _tcpSocket # "NULL"
  BY <1>1 DEF ReceiveInv, NewInv
<1>5. ItemsInv'
  BY <1>1, <1>3 DEF ReceiveInv, ItemsInv
<1>6. NewInv'
  <2>1. server = "http" => inbox' = <<>>
    <3>1. ASSUME server = "http" PROVE inbox' = <<>>
      <4>1. Len(inbox) = 0
        BY <3>1 DEF ReceiveInv, NewInv
      <4> QED BY <1>2, <1>3, <4>1
    <3> QED BY <3>1
  <2> QED BY <1>1, <1>4, <2>1 DEF NewInv
<1>7. ResultsTruthful'
  BY <1>1, <1>4 DEF ResultsTruthful
<1>8. StreamInv'
  BY <1>1, <1>3, <1>4, StreamReadOn
<1>9. ASSUME ~cut' PROVE PlaceInv'
  <2>1. Len(inbox') \in Nat /\ (Len(inbox') >= 1 => inbox' # <<>> /\ Head(inbox') = inbox'[1])
    BY <1>3
  <2>2. Len(inbox') >= 1 => inbox'[1].is = "op"
    BY <1>1, <1>9, <2>1
  <2>3. Content(inbox', 1, 0)
    BY <2>1, <2>2 DEF Content
  <2> QED BY <1>1, <2>3 DEF PlaceInv
<1>10. ReadingInv' /\ MessageInv'
  BY <1>1, <1>4 DEF ReadingInv, MessageInv
<1> QED BY <1>5, <1>6, <1>7, <1>8, <1>9, <1>10 DEF ReceiveInv

(* A new connection, or none.                                              *)
LEMMA EmptyStream ==
  ASSUME inbox' = <<>>, pc' \notin {"length", "payload"}, disturbed' = TRUE
  PROVE  StreamInv' /\ PlaceInv' /\ ReadingInv' /\ MessageInv'
<1>1. Len(inbox') = 0
  OBVIOUS
<1>2. StreamInv'
  BY <1>1 DEF StreamInv, Framed, Linked, Whole, AllEnd
<1>3. PlaceInv'
  BY <1>1 DEF PlaceInv, Content
<1> QED BY <1>2, <1>3 DEF ReadingInv, MessageInv

(* A socket is made, or deleted, or gets no request through.               *)
LEMMA NewStep ==
  ASSUME ReceiveInv, Connects \/ Delete \/ RequestFails
  PROVE  ReceiveInv'
<1>1. CASE Connects
  <2>1. /\ pc' = "handshake" /\ _tcpSocket' = "open" /\ inbox' = <<>> /\ disturbed' = TRUE /\ ~cut'
        /\ UNCHANGED <<_messageType, payloadLength, result, server>> /\ result.type = "none"
    BY <1>1 DEF Connects, ReceiveInv, NewInv, ItemsInv
  <2>2. NewInv' /\ ResultsTruthful'
    BY <2>1 DEF NewInv, ResultsTruthful
  <2>3. ItemsInv'
    BY <1>1 DEF Connects, ReceiveInv, ItemsInv
  <2> QED BY <2>1, <2>2, <2>3, EmptyStream DEF ReceiveInv
<1>2. CASE Delete
  <2>1. /\ pc' = "sketch" /\ _tcpSocket' = "NULL" /\ inbox' = <<>> /\ disturbed' = TRUE /\ cut' = FALSE
        /\ _messageType' \in MessageType /\ payloadLength' = 0 /\ result' = Nothing /\ server' = "http"
    BY <1>2 DEF Delete
  <2>2. NewInv' /\ ResultsTruthful'
    BY <2>1 DEF NewInv, ResultsTruthful, Nothing
  <2>3. ItemsInv'
    <3>1. inbox' \in Seq(Item)
      BY <2>1
    <3> QED BY <2>1, <3>1 DEF ItemsInv
  <2> QED BY <2>1, <2>2, <2>3, EmptyStream DEF ReceiveInv
<1>3. CASE RequestFails
  <2>1. /\ pc = "handshake" /\ pc' = "sketch" /\ server = "http"
        /\ UNCHANGED <<_tcpSocket, _messageType, payloadLength, result, inbox, peer, server, disturbed, cut>>
    BY <1>3 DEF RequestFails
  <2>2. /\ inbox' = <<>> /\ disturbed' = TRUE /\ ~cut /\ result.type = "none"
    BY <2>1 DEF ReceiveInv, NewInv, ItemsInv
  <2>3. NewInv' /\ ItemsInv' /\ ResultsTruthful'
    BY <2>1, <2>2 DEF ReceiveInv, NewInv, ItemsInv, ResultsTruthful
  <2> QED BY <2>1, <2>2, <2>3, EmptyStream DEF ReceiveInv
<1> QED BY <1>1, <1>2, <1>3

(* The server replies, in time or after connect has given up.              *)
LEMMA ReplyStep ==
  ASSUME ReceiveInv, ServerReplies
  PROVE  ReceiveInv'
<1> DEFINE text == [is |-> "text"]
<1>1. /\ server = "http" /\ server' # "http" /\ inbox = <<>> /\ inbox' = inbox \o <<text, text>>
      /\ cut' = (cut \/ pc # "handshake") /\ cut \in BOOLEAN /\ _tcpSocket = "open"
      /\ UNCHANGED <<_tcpSocket, _messageType, pc, fin, payloadLength, result, peer, sending,
                     reading, disturbed>>
  BY DEF ServerReplies, ReceiveInv, NewInv, ItemsInv, client
<1>2. inbox' = <<text, text>> /\ Len(inbox') = 2 /\ \A i \in 1 .. 2 : inbox'[i] = text
  BY <1>1
<1>3. text \in Item /\ text.is = "text"
  BY DEF Item
<1> HIDE DEF text
<1>4. inbox' \in Seq(Item) /\ \A i \in 1 .. Len(inbox') : inbox'[i].is = "text"
  BY <1>2, <1>3
<1>5. cut' \in BOOLEAN /\ (~cut' => ~cut /\ pc = "handshake")
  BY <1>1
<1>6. ItemsInv' /\ NewInv' /\ ResultsTruthful'
  BY <1>1, <1>4, <1>5 DEF ReceiveInv, ItemsInv, NewInv, ResultsTruthful
<1>7. StreamInv'
  BY <1>4 DEF StreamInv, Framed, Linked, Whole, AllEnd, IsOp, IsData
<1>8. ASSUME ~cut' PROVE PlaceInv' /\ ReadingInv' /\ MessageInv'
  BY <1>1, <1>5, <1>8 DEF PlaceInv, ReadingInv, MessageInv, ReceiveInv, NewInv
<1> QED BY <1>6, <1>7, <1>8 DEF ReceiveInv

(* The server sends a frame.                                               *)
LEMMA ServerStep ==
  ASSUME ReceiveInv, ServerSends
  PROVE  ReceiveInv'
<1>1. /\ server = "websocket" /\ peer = "up" /\ inbox \in Seq(Item)
      /\ UNCHANGED <<_tcpSocket, _messageType, pc, fin, payloadLength, result, peer, server,
                     reading, disturbed, cut>>
  BY DEF ServerSends, ReceiveInv, ItemsInv, client
<1>2. PICK n \in Lengths :
        \/ \E type \in Data, final \in BOOLEAN :
             /\ sending \in {"none", type}
             /\ inbox' = inbox \o Items(IF sending = "none" THEN type ELSE "CONT", type, final, n)
             /\ sending' = IF final THEN "none" ELSE type
        \/ \E type \in Control :
             inbox' = inbox \o Items(type, type, TRUE, n) /\ UNCHANGED sending
  BY DEF ServerSends
<1>3. PICK type \in Data \cup Control, op \in Data \cup Control \cup {"CONT"}, final \in BOOLEAN :
        /\ op \in {type, "CONT"}
        /\ op = "CONT" => type \in Data /\ sending = type /\ sending # "none"
        /\ inbox' = inbox \o Items(op, type, final, n)
        /\ type \in Control => UNCHANGED sending
        /\ type \in Data => sending' \in {"none", type}
  <2>1. ASSUME NEW type \in Data, NEW final \in BOOLEAN, sending \in {"none", type},
               inbox' = inbox \o Items(IF sending = "none" THEN type ELSE "CONT", type, final, n),
               sending' = IF final THEN "none" ELSE type
        PROVE  \E op \in Data \cup Control \cup {"CONT"} :
                 /\ op \in {type, "CONT"}
                 /\ op = "CONT" => type \in Data /\ sending = type /\ sending # "none"
                 /\ inbox' = inbox \o Items(op, type, final, n)
                 /\ type \in Control => UNCHANGED sending
                 /\ type \in Data => sending' \in {"none", type}
    <3>0. type \notin Control /\ type # "CONT" /\ type # "none"
      BY DEF Data, Control
    <3>1. CASE sending = "none"
      BY <2>1, <3>0, <3>1
    <3>2. CASE sending # "none"
      BY <2>1, <3>0, <3>2
    <3> QED BY <3>1, <3>2
  <2>2. ASSUME NEW type \in Control, inbox' = inbox \o Items(type, type, TRUE, n), UNCHANGED sending
        PROVE  /\ type = "CONT" => type \in Data /\ sending = type /\ sending # "none"
               /\ inbox' = inbox \o Items(type, type, TRUE, n)
               /\ type \in Control => UNCHANGED sending
               /\ type \in Data => sending' \in {"none", type}
    BY <2>2 DEF Data, Control
  <2> QED BY <1>2, <2>1, <2>2
<1>4. op \in Data \cup Control \cup {"CONT"} /\ n \in Nat
  BY WebSocketAssumption
<1>5. inbox' \in Seq(Item) /\ IsGrown(inbox', inbox, op, type, final, n)
  BY <1>1, <1>3, <1>4, FrameGrows
<1>6. ItemsInv' /\ NewInv' /\ ResultsTruthful'
  BY <1>1, <1>5 DEF ReceiveInv, ItemsInv, NewInv, ResultsTruthful
<1> SUFFICES ASSUME ~cut PROVE StreamInv' /\ PlaceInv' /\ ReadingInv' /\ MessageInv'
  BY <1>1, <1>6 DEF ReceiveInv
<1>7. /\ Framed(inbox) /\ Linked(inbox) /\ Whole(inbox) /\ AllEnd(inbox, sending)
      /\ PlaceInv /\ ReadingInv /\ MessageInv
  BY <1>1 DEF ReceiveInv, StreamInv
<1>8. Framed(inbox') /\ Whole(inbox')
  <2>1. op = type \/ (op = "CONT" /\ type \in Data)
    BY <1>3
  <2> QED BY <1>4, <1>5, <1>7, <2>1, GrownFramed
<1>9. Linked(inbox') /\ AllEnd(inbox', sending')
  BY <1>3, <1>5, <1>7, GrownLinked
<1>10. Len(inbox) \in Nat /\ Len(inbox') \in Nat /\ Len(inbox) <= Len(inbox')
  BY <1>5, GrownLen
<1>11. PlaceInv'
  <2>0. 1 \in Nat \ {0} /\ 0 \in Nat
    OBVIOUS
  <2>1. ASSUME pc \in {"sketch", "opcode"} PROVE Content(inbox', 1, 0)
    BY <1>5, <1>7, <1>10, <2>0, <2>1, GrownContent DEF PlaceInv
  <2>2. ASSUME pc = "length" PROVE Sized(inbox', 1, reading.n) /\ 1 + reading.n <= Len(inbox')
    <3>1. Sized(inbox, 1, reading.n) /\ 1 + reading.n <= Len(inbox) /\ reading.n \in Nat
      BY <1>1, <1>7, <2>2 DEF PlaceInv, ReadingInv
    <3>2. Sized(inbox', 1, reading.n)
      BY <1>5, <2>0, <3>1, GrownSized
    <3> QED BY <1>10, <3>1, <3>2
  <2>3. ASSUME pc = "payload"
        PROVE  Content(inbox', 1, payloadLength) /\ payloadLength <= Len(inbox')
    <3>1. /\ Content(inbox, 1, payloadLength) /\ payloadLength <= Len(inbox) /\ payloadLength \in Nat
      BY <1>1, <1>7, <2>3 DEF PlaceInv, ReceiveInv, ItemsInv
    <3>2. 1 + payloadLength <= Len(inbox) + 1
      BY <1>10, <3>1
    <3>3. Content(inbox', 1, payloadLength)
      BY <1>5, <2>0, <3>1, <3>2, GrownContent
    <3> QED BY <1>10, <3>1, <3>3
  <2> QED BY <1>1, <2>1, <2>2, <2>3 DEF PlaceInv
<1>12. MessageInv'
  <2> SUFFICES ASSUME ~disturbed
               PROVE  Continues(inbox', 0, _messageType) /\ Ends(inbox', 0, _messageType, sending')
    BY <1>1 DEF MessageInv
  <2>1. Continues(inbox, 0, _messageType) /\ Ends(inbox, 0, _messageType, sending)
    BY <1>1, <1>7 DEF MessageInv
  <2>2. 0 \in 0 .. Len(inbox)
    BY <1>10
  <2>3. Continues(inbox', 0, _messageType)
    BY <1>3, <1>5, <2>1, <2>2, GrownContinues
  <2>4. Ends(inbox', 0, _messageType, sending')
    BY <1>3, <1>5, <2>1, <2>2, GrownEnds
  <2> QED BY <2>3, <2>4
<1>13. ReadingInv'
  BY <1>1, <1>7 DEF ReadingInv
<1> QED BY <1>1, <1>8, <1>9, <1>11, <1>12, <1>13 DEF StreamInv

(* The connection ends, and the end of the stream is lost.                 *)
LEMMA NetworkStep ==
  ASSUME ReceiveInv, Network
  PROVE  ReceiveInv'
<1>1. /\ peer = "up" /\ peer' # "up" /\ inbox \in Seq(Item)
      /\ UNCHANGED <<_tcpSocket, _messageType, pc, fin, payloadLength, result, server, sending,
                     reading, disturbed, cut>>
  BY DEF Network, ReceiveInv, ItemsInv, client
<1>2. PICK k \in 0 .. Len(inbox) : inbox' = SubSeq(inbox, 1, k)
  BY DEF Network
<1>3. inbox' \in Seq(Item) /\ IsPart(inbox', inbox, 0)
  BY <1>1, <1>2, FrontIsPart
<1>4. ItemsInv'
  BY <1>1, <1>3 DEF ReceiveInv, ItemsInv
<1>5. NewInv'
  <2>1. ASSUME inbox = <<>> PROVE inbox' = <<>>
    BY <1>3, <2>1 DEF IsPart
  <2> QED BY <1>1, <2>1 DEF ReceiveInv, NewInv
<1>6. ResultsTruthful'
  BY <1>1 DEF ReceiveInv, ResultsTruthful
<1> SUFFICES ASSUME ~cut PROVE StreamInv' /\ PlaceInv' /\ ReadingInv' /\ MessageInv'
  BY <1>1, <1>4, <1>5, <1>6 DEF ReceiveInv
<1>7. StreamInv /\ PlaceInv /\ ReadingInv /\ MessageInv
  BY DEF ReceiveInv
<1>8. StreamInv'
  BY <1>1, <1>3, <1>7, PartFramed, PartLinked DEF StreamInv
<1>9. 1 \in Nat \ {0} /\ 0 \in Nat /\ 1 + 0 = 1 /\ 0 + 0 = 0
  OBVIOUS
<1>10. PlaceInv'
  <2>1. ASSUME pc \in {"sketch", "opcode"} PROVE Content(inbox', 1, 0)
    BY <1>3, <1>7, <1>9, <2>1, PartContent DEF PlaceInv
  <2>2. ASSUME pc = "length" PROVE Sized(inbox', 1, reading.n)
    BY <1>3, <1>7, <1>9, <2>2, PartSized DEF PlaceInv, ReadingInv
  <2>3. ASSUME pc = "payload" PROVE Content(inbox', 1, payloadLength)
    <3>1. payloadLength \in Nat
      BY DEF ReceiveInv, ItemsInv
    <3> QED BY <1>3, <1>7, <1>9, <2>3, <3>1, PartContent DEF PlaceInv
  <2> QED BY <1>1, <2>1, <2>2, <2>3 DEF PlaceInv
<1>11. MessageInv'
  <2> SUFFICES ASSUME ~disturbed PROVE Continues(inbox', 0, _messageType)
    BY <1>1 DEF MessageInv
  <2> QED BY <1>3, <1>7, <1>9, PartContinues DEF MessageInv
<1>12. ReadingInv'
  BY <1>1, <1>7 DEF ReadingInv
<1> QED BY <1>8, <1>10, <1>11, <1>12

(* The invariant of receiving holds where the program starts.              *)
LEMMA ReceiveInit == Init => ReceiveInv
<1> SUFFICES ASSUME Init PROVE ReceiveInv
  OBVIOUS
<1>1. /\ _tcpSocket = "NULL" /\ _messageType \in MessageType /\ pc = "sketch" /\ payloadLength = 0
      /\ result = Nothing /\ inbox = <<>> /\ server = "http" /\ disturbed = TRUE /\ cut = FALSE
      /\ Len(inbox) = 0
  BY DEF Init
<1>2. NewInv /\ ResultsTruthful
  BY <1>1 DEF NewInv, ResultsTruthful, Nothing
<1>5. ItemsInv
  <2>1. inbox \in Seq(Item)
    BY <1>1
  <2> QED BY <1>1, <2>1 DEF ItemsInv
<1>3. StreamInv
  BY <1>1 DEF StreamInv, Framed, Linked, Whole, AllEnd
<1>4. PlaceInv /\ ReadingInv /\ MessageInv
  BY <1>1 DEF PlaceInv, Content, ReadingInv, MessageInv
<1> QED BY <1>2, <1>3, <1>4, <1>5 DEF ReceiveInv

(* Nothing changes.                                                        *)
LEMMA ReceiveStutters ==
  ASSUME ReceiveInv, UNCHANGED vars
  PROVE  ReceiveInv'
<1>1. UNCHANGED <<_tcpSocket, _messageType, pc, fin, payloadLength, result, inbox, peer, server,
                  sending, reading, disturbed, cut>>
  BY DEF vars, client
<1>2. ItemsInv' /\ NewInv' /\ ResultsTruthful'
  BY <1>1 DEF ReceiveInv, ItemsInv, NewInv, ResultsTruthful
<1>3. ASSUME ~cut PROVE StreamInv' /\ PlaceInv' /\ ReadingInv' /\ MessageInv'
  <2>1. StreamInv' /\ PlaceInv'
    BY <1>1, <1>3 DEF ReceiveInv, StreamInv, PlaceInv
  <2>2. ReadingInv' /\ MessageInv'
    BY <1>1, <1>3 DEF ReceiveInv, ReadingInv, MessageInv
  <2> QED BY <2>1, <2>2
<1> QED BY <1>1, <1>2, <1>3 DEF ReceiveInv

(* Every step keeps it.                                                    *)
LEMMA ReceiveKeeps == ReceiveInv /\ [Next]_vars => ReceiveInv'
<1> SUFFICES ASSUME ReceiveInv, [Next]_vars PROVE ReceiveInv'
  OBVIOUS
<1>1. CASE UNCHANGED vars
  BY <1>1, ReceiveStutters
<1>2. CASE Spin
  BY <1>2, ReceiveStutters DEF Spin
<1>3. CASE Connects \/ Delete \/ RequestFails
  BY <1>3, NewStep
<1>4. CASE HandshakeReads
  BY <1>4, HandshakeStep
<1>5. CASE Sends \/ ReceiveBegins
  BY <1>5, SketchStep
<1>6. CASE OpcodeTimesOut \/ OpcodeFails
  BY <1>6, NoFrameStep
<1>7. CASE OpcodeReads
  BY <1>7, OpcodeStep
<1>8. CASE LengthReads
  BY <1>8, LengthStep
<1>9. CASE PayloadLate
  BY <1>9, LateStep
<1>10. CASE PayloadReads
  BY <1>10, PayloadStep
<1>11. CASE ServerReplies
  BY <1>11, ReplyStep
<1>12. CASE ServerSends
  BY <1>12, ServerStep
<1>13. CASE Network
  BY <1>13, NetworkStep
<1> QED
  BY <1>1, <1>2, <1>3, <1>4, <1>5, <1>6, <1>7, <1>8, <1>9, <1>10, <1>11, <1>12, <1>13
  DEF Next, Receives

-----------------------------------------------------------------------------
(* Until a byte comes late, the stream is a row of frames, receive stands  *)
(* at a known place in it, and _messageType, unless something else has     *)
(* gone through it, is the type of the message the server is in (receive). *)
THEOREM ReceiveHolds == Spec => []ReceiveInv
BY ReceiveInit, ReceiveKeeps, PTL DEF Spec

(* While no byte came too late, receive returns the server's frames as     *)
(* they were sent, with the rest of a frame that is too long passed over,  *)
(* and NULL only after a reset: for every buffer size, every set of        *)
(* lengths and any number of frames under way.                             *)
THEOREM ResultsAreTruthful == Spec => []ResultsTruthful
<1>1. ReceiveInv => ResultsTruthful
  BY DEF ReceiveInv
<1> QED BY <1>1, ReceiveHolds, PTL
=============================================================================
