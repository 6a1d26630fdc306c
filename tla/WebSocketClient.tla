-------------------------- MODULE WebSocketClient --------------------------
(***************************************************************************)
(* libraries/WebSocket/src/WebSocketClient.cpp: a sketch connects, sends   *)
(* and receives frames, and closes; receive answers pings and Close frames *)
(* by itself.  The server sends any legal sequence of frames, the bytes of *)
(* a frame may come late, and the connection may be closed or reset in the *)
(* middle of one.  A byte of the stream is an item: the opcode, the length *)
(* field, or a byte of the payload.                                        *)
(***************************************************************************)
EXTENDS Naturals, Sequences

CONSTANTS
  BufferSize,    (* the size given to receive                              *)
  Lengths,       (* the lengths of the server's payloads                   *)
  MaxQueue       (* bound: items the server has under way                  *)

ASSUME WebSocketAssumption == BufferSize \in Nat \ {0} /\ Lengths \subseteq Nat /\ MaxQueue \in Nat

VARIABLES
  _tcpSocket,    (* "NULL", "open"                                         *)
  _messageType, _firstFrame,
  pc,            (* "sketch", "handshake", or where receive is             *)
  fin, payloadLength,         (* receive's isFinal and payloadLength       *)
  result,        (* what receive returned                                  *)
  inbox,         (* external: items on their way to the socket             *)
  peer,          (* external: "up", "closed", "reset"                      *)
  server,        (* external: "http", and then "websocket" or "refused"    *)
  sending,       (* external: the message the server is in, or "none"      *)
  hearing,       (* external: the server is in a message from the device   *)
  (* History: the frame receive is reading, whether _messageType has been  *)
  (* something else since the message began, whether bytes came too late,  *)
  (* and what the server has got: frames that belong where they are, one   *)
  (* that does not, or, after a write that failed, nobody knows.           *)
  reading, disturbed, cut, heard

client == <<_tcpSocket, _messageType, _firstFrame, pc, fin, payloadLength, result>>
toServer == <<hearing, heard>>
vars == <<client, inbox, peer, server, sending, reading, disturbed, cut, toServer>>

Data == {"Text", "Binary"}
Control == {"Ping", "Pong", "Close"}
MessageType == Data \cup Control \cup {"Timeout", "BufferOverrun"}
NoFrame == [type |-> "none", fin |-> FALSE, n |-> 0, sure |-> FALSE]
Nothing == [type |-> "none", fin |-> FALSE, length |-> 0]
NULL == [type |-> "NULL", fin |-> FALSE, length |-> 0]

(* _messageType is not initialised.                                        *)
Init ==
  /\ _tcpSocket = "NULL" /\ _messageType \in MessageType /\ _firstFrame = TRUE
  /\ pc = "sketch" /\ fin = FALSE /\ payloadLength = 0 /\ result = Nothing
  /\ inbox = <<>> /\ peer = "closed" /\ server = "http" /\ sending = "none" /\ hearing = FALSE
  /\ reading = NoFrame /\ disturbed = TRUE /\ cut = FALSE /\ heard = "well"

-----------------------------------------------------------------------------
(* write and send.                                                         *)

(* The server gets a frame, and knows whether it may stand there.          *)
Heard(op, final) ==
  LET belongs == (op = "CONT" => hearing) /\ (op \in Data => ~hearing) IN
  /\ heard' = IF heard = "well" /\ ~belongs THEN "stray" ELSE heard
  /\ hearing' = IF op \in Control \/ heard = "unknown" THEN hearing ELSE ~final
WriteFails == heard' = "unknown" /\ hearing' = FALSE
Written(op, final) == (peer # "reset" /\ Heard(op, final)) \/ WriteFails

(* send of a control frame; a size of 0 sends nothing.                     *)
SendControlAsData(type, size) ==                          \* wrong: as a message of its own
  IF size = 0
    THEN UNCHANGED <<toServer, _firstFrame>>
    ELSE Written(type, TRUE) /\ _firstFrame' = TRUE
SendControl(type, size) ==
  /\ IF size = 0 THEN UNCHANGED toServer ELSE Written(type, TRUE)
  /\ UNCHANGED _firstFrame

(* close, which sends a Close frame and nothing else: the socket stays.    *)
Close == SendControl("Close", 1)

(* The result of a receive is looked at before the next call.              *)
Forgotten ==
  result' = Nothing /\ reading' = NoFrame /\ fin' = FALSE /\ payloadLength' = 0

(* send of a piece of a message.                                           *)
SendData(type, final) ==
  /\ pc = "sketch" /\ _tcpSocket = "open"
  /\ _messageType' = IF _firstFrame THEN type ELSE _messageType
  /\ _firstFrame' = final
  /\ Written(IF _firstFrame THEN type ELSE "CONT", final)
  /\ disturbed' = (disturbed \/ _firstFrame)
  /\ Forgotten
  /\ UNCHANGED <<_tcpSocket, pc, inbox, peer, server, sending, cut>>

SendsControl ==
  /\ pc = "sketch" /\ _tcpSocket = "open"
  /\ Close \/ SendControl("Ping", 1)
  /\ Forgotten
  /\ UNCHANGED <<_tcpSocket, _messageType, pc, inbox, peer, server, sending, disturbed, cut>>

Sends == SendsControl \/ \E type \in Data, final \in BOOLEAN : SendData(type, final)

-----------------------------------------------------------------------------
(* connect, while there is no socket, and doHandshake.  With a socket it   *)
(* returns true at once, and a TCP connection that fails leaves none.      *)
Connects ==
  /\ pc = "sketch" /\ _tcpSocket = "NULL"
  /\ _tcpSocket' = "open" /\ peer' = "up" /\ pc' = "handshake"
  /\ UNCHANGED <<_messageType, _firstFrame, fin, payloadLength, result,
                 inbox, server, sending, reading, disturbed, cut, toServer>>

(* The last line of the request cannot be written; the Close frame that    *)
(* then goes out follows half a request.                                   *)
RequestFails ==
  /\ pc = "handshake" /\ server = "http" /\ WriteFails /\ pc' = "sketch"
  /\ UNCHANGED <<_tcpSocket, _messageType, _firstFrame, fin, payloadLength, result,
                 inbox, peer, server, sending, reading, disturbed, cut>>

(* One recv has to get the reply whole, and what it gets of the frames     *)
(* behind the reply is lost.  What it does not get of the reply is read as *)
(* frames by a later receive: the socket stays, whatever came.             *)
HandshakeReads ==
  /\ pc = "handshake" /\ pc' = "sketch"
  /\ \E k \in 0 .. Len(inbox) : inbox' = SubSeq(inbox, k + 1, Len(inbox))
  /\ cut' = (inbox' # <<>> /\ Head(inbox').is # "op")
  /\ UNCHANGED <<_tcpSocket, _messageType, _firstFrame, fin, payloadLength, result,
                 peer, server, sending, reading, disturbed, toServer>>

(* The destructor, and an object made anew.                                *)
Delete ==
  /\ pc = "sketch" /\ _tcpSocket = "open"
  /\ _tcpSocket' = "NULL" /\ _messageType' \in MessageType /\ _firstFrame' = TRUE
  /\ fin' = FALSE /\ payloadLength' = 0 /\ result' = Nothing
  /\ inbox' = <<>> /\ peer' = "closed" /\ server' = "http" /\ sending' = "none" /\ hearing' = FALSE
  /\ reading' = NoFrame /\ disturbed' = TRUE /\ cut' = FALSE /\ heard' = "well"
  /\ UNCHANGED pc

-----------------------------------------------------------------------------
(* receive.                                                                *)
ReceiveBegins ==
  /\ pc = "sketch" /\ _tcpSocket = "open"
  /\ pc' = "opcode" /\ Forgotten
  /\ UNCHANGED <<_tcpSocket, _messageType, _firstFrame, inbox, peer, server, sending,
                 disturbed, cut, toServer>>

Returns(r) == pc' = "sketch" /\ result' = r /\ fin' = FALSE /\ payloadLength' = 0

OpcodeWaits == pc = "opcode" /\ UNCHANGED vars            \* wrong: no timeout
OpcodeTimesOut ==
  /\ pc = "opcode" /\ Returns([type |-> "Timeout", fin |-> TRUE, length |-> 0])
  /\ UNCHANGED <<_tcpSocket, _messageType, _firstFrame,
                 inbox, peer, server, sending, reading, disturbed, cut, toServer>>

(* The error may be NSAPI_ERROR_NO_CONNECTION; then there is a close.      *)
OpcodeFails ==
  /\ pc = "opcode" /\ peer = "reset" /\ Returns(NULL)
  /\ Close \/ UNCHANGED <<toServer, _firstFrame>>
  /\ UNCHANGED <<_tcpSocket, _messageType, inbox, peer, server, sending, reading, disturbed, cut>>

(* Only isFinal of a data frame is kept.                                   *)
Opcode(op, final) ==
  /\ pc' = "length"
  /\ _messageType' = IF op = "CONT" THEN _messageType ELSE op
  /\ fin' = (op \notin Control /\ final)
  /\ disturbed' = IF op \in Data THEN FALSE ELSE (disturbed \/ op \in Control)

OpcodeReads ==
  /\ pc = "opcode" /\ inbox # <<>> /\ inbox' = Tail(inbox)
  /\ LET item == Head(inbox) IN
     \/ /\ item.is = "op" /\ Opcode(item.op, item.fin)
        /\ reading' = IF cut THEN NoFrame ELSE
                      [type |-> item.type, fin |-> item.fin, n |-> item.n,
                       sure |-> (item.op # "CONT" \/ ~disturbed)]
     \/ /\ item.is # "op"
        /\ \E op \in Data \cup Control \cup {"CONT"}, final \in BOOLEAN : Opcode(op, final)
        /\ UNCHANGED reading
     \/ item.is # "op" /\ UNCHANGED <<pc, _messageType, fin, disturbed, reading>>
  /\ UNCHANGED <<_tcpSocket, _firstFrame, payloadLength, result, peer, server, sending, cut, toServer>>

(* What every frame that has been read comes to.                           *)
Frame(n) ==
  LET type == IF n > BufferSize THEN "BufferOverrun" ELSE _messageType IN
  /\ _messageType' = type
  /\ disturbed' = (disturbed \/ n > BufferSize \/ cut')
  /\ type = "Ping" => SendControl("Pong", n)
  /\ type = "Close" => Close
  /\ type \notin {"Ping", "Close"} => UNCHANGED <<toServer, _firstFrame>>
  /\ Returns([type |-> type, fin |-> fin,
              length |-> IF type \in {"Ping", "Close", "Timeout"} THEN 0 ELSE n])

(* Thirty reads of nothing, or of errors; after a close by the peer there  *)
(* is no error, and the reads go on for ever.                              *)
Late == peer # "closed"

(* readChar is not checked: without a byte, c is what it happens to be.    *)
LengthReads ==
  /\ pc = "length"
  /\ \E n \in Lengths :
       /\ \/ /\ inbox # <<>> /\ inbox' = Tail(inbox) /\ UNCHANGED cut
             /\ Head(inbox).is = "length" => n = Head(inbox).n
          \/ Late /\ UNCHANGED inbox /\ cut' = TRUE
       /\ IF n = 0
            THEN Frame(0)
            ELSE /\ pc' = "payload" /\ payloadLength' = n
                 /\ UNCHANGED <<_messageType, _firstFrame, fin, disturbed, result, toServer>>
  /\ UNCHANGED <<_tcpSocket, peer, server, sending, reading>>

Kept == IF payloadLength > BufferSize THEN BufferSize ELSE payloadLength

PayloadLate ==
  /\ pc = "payload" /\ Late
  /\ \E k \in 0 .. Kept - 1 : k <= Len(inbox) /\ inbox' = SubSeq(inbox, k + 1, Len(inbox))
  /\ cut' = TRUE /\ Returns(NULL)
  /\ UNCHANGED <<_tcpSocket, _messageType, _firstFrame,
                 peer, server, sending, reading, disturbed, toServer>>

PayloadKept ==                                            \* wrong: the rest is not skipped
  /\ pc = "payload" /\ Len(inbox) >= Kept
  /\ inbox' = SubSeq(inbox, Kept + 1, Len(inbox)) /\ UNCHANGED cut
  /\ Frame(payloadLength)
  /\ UNCHANGED <<_tcpSocket, peer, server, sending, reading>>

(* The payload as far as there is room for it, and the rest, again         *)
(* unchecked, skipped.                                                     *)
PayloadReads ==
  /\ pc = "payload" /\ Len(inbox) >= Kept
  /\ \E k \in Kept .. payloadLength :
       /\ k <= Len(inbox) /\ inbox' = SubSeq(inbox, k + 1, Len(inbox))
       /\ k < payloadLength => Late
       /\ cut' = (cut \/ k < payloadLength)
  /\ Frame(payloadLength)
  /\ UNCHANGED <<_tcpSocket, peer, server, sending, reading>>

(* In the middle of a frame that will never be whole.                      *)
Spinning ==
  /\ peer = "closed"
  /\ \/ pc = "length" /\ inbox = <<>>
     \/ pc = "payload" /\ Len(inbox) < payloadLength
Spin == Spinning /\ UNCHANGED vars

Receives == OpcodeReads \/ OpcodeFails \/ LengthReads \/ PayloadLate \/ PayloadReads

-----------------------------------------------------------------------------
(* External: the server, and the network.  The reply is two items, so that *)
(* it may come in two parts; it may also come when connect has given up.   *)
ServerReplies ==
  /\ _tcpSocket = "open" /\ server = "http" /\ peer = "up" /\ heard = "well"
  /\ inbox' = inbox \o <<[is |-> "text"], [is |-> "text"]>>
  /\ server' \in {"websocket", "refused"}
  /\ cut' = (cut \/ pc # "handshake")
  /\ UNCHANGED <<client, peer, sending, reading, disturbed, toServer>>

Items(op, type, final, n) ==
  <<[is |-> "op", op |-> op, type |-> type, fin |-> final, n |-> n], [is |-> "length", n |-> n]>>
  \o [i \in 1 .. n |-> [is |-> "byte"]]

ServerSends ==
  /\ server = "websocket" /\ peer = "up"
  /\ \E n \in Lengths :
       \/ \E type \in Data, final \in BOOLEAN :
            /\ sending \in {"none", type}
            /\ inbox' = inbox \o Items(IF sending = "none" THEN type ELSE "CONT", type, final, n)
            /\ sending' = IF final THEN "none" ELSE type
       \/ \E type \in Control :
            inbox' = inbox \o Items(type, type, TRUE, n) /\ UNCHANGED sending
  /\ Len(inbox') <= MaxQueue
  /\ UNCHANGED <<client, peer, server, reading, disturbed, cut, toServer>>

Network ==
  /\ peer = "up" /\ peer' \in {"closed", "reset"}
  /\ _tcpSocket = "open"
  /\ \E k \in 0 .. Len(inbox) : inbox' = SubSeq(inbox, 1, k)
  /\ UNCHANGED <<client, server, sending, reading, disturbed, cut, toServer>>

-----------------------------------------------------------------------------
Next ==
  \/ Connects \/ RequestFails \/ HandshakeReads \/ Sends \/ Delete
  \/ ReceiveBegins \/ OpcodeTimesOut \/ Receives \/ Spin
  \/ ServerReplies \/ ServerSends \/ Network

(* Each recv ends, and so does a receive's time.  Nothing is asked of the  *)
(* sketch, the server or the network.                                      *)
Spec ==
  /\ Init /\ [][Next]_vars
  /\ WF_vars(HandshakeReads) /\ WF_vars(OpcodeTimesOut) /\ WF_vars(Receives)

-----------------------------------------------------------------------------
(* Properties.                                                             *)

(* While no byte came too late, receive gives the server's frames as they  *)
(* are: length, end of message, and type, with the rest of a frame that is *)
(* too long passed over.  A continuation has the type of its message only  *)
(* if nothing else has passed through _messageType.  NULL means a reset.   *)
ResultsTruthful ==
  ~cut /\ pc = "sketch" =>
    /\ result.type = "NULL" => peer = "reset"
    /\ result.type \notin {"none", "NULL", "Timeout"} /\ reading.sure =>
         IF reading.n > BufferSize
           THEN result.type = "BufferOverrun" /\ result.length = reading.n
           ELSE /\ result.type = reading.type
                /\ result.type \in Data => result.fin = reading.fin /\ result.length = reading.n

(* The server never gets a continuation of nothing, nor a new message      *)
(* inside another: also when receive answers pings between two pieces of   *)
(* a message of the sketch, and as long as no write has failed.            *)
FramesWellFormed == heard # "stray"

(* connect and receive return, but for a receive in the middle of a frame  *)
(* when the server closes the connection.                                  *)
ReceiveReturns == pc # "sketch" ~> pc = "sketch" \/ Spinning
=============================================================================
