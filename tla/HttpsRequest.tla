---------------------------- MODULE HttpsRequest ----------------------------
(***************************************************************************)
(* cores/arduino/httpclient/https_request.cpp: HttpsRequest::send for a    *)
(* GET, over one TLSSocket, against a server that answers with a head and  *)
(* a body in pieces.  The response is given to the caller, or NULL; the    *)
(* parser (external) calls back for the status and for each piece.         *)
(***************************************************************************)
EXTENDS TLSSocket

CONSTANTS
  Image,       (* what a server may have to send                           *)
  Size         (* ... and how many pieces each has                         *)

ASSUME ImageAssumption == Size \in [Image -> Nat]

VARIABLES
  pc,          (* where send is; "failed" returns NULL, "returned" _response *)
  status,      (* _response->status_code                                   *)
  reply,       (* external: the server's answer in this connection,        *)
  heard,       (* ... how far it understood us,                            *)
  sent         (* ... and how many units it has sent                       *)

requestVars == <<pc, status, reply, heard, sent>>

(* head: the status line as it will be parsed; sized: the parser can tell  *)
(* the last piece (a length, or chunks).                                   *)
Replies == [head : {"200", "404", "malformed"}, sized : BOOLEAN, image : Image]

RequestInit == pc = "idle" /\ status = "none" /\ reply \in Replies /\ heard = "nothing" /\ sent = 0

NewRequest(ca, r) ==
  /\ NewSocket(ca)
  /\ pc' = "connect" /\ status' = "none" /\ reply' = r /\ heard' = "nothing" /\ sent' = 0

-----------------------------------------------------------------------------
(* TLSSocket::connect: TCP, and the handshake in which the server says one *)
(* record.                                                                 *)
Connect ==
  /\ pc = "connect"
  /\ \/ Connects /\ pc' = IF secure THEN "hello" ELSE "header"
     \/ ConnectRefused /\ pc' = "failed"
  /\ UNCHANGED <<status, reply, heard, sent>>

(* A send over TLS that TCP would not take for ten tries counts as done:   *)
(* the server makes nothing of this record, nor of any later one.          *)
Lost == secure /\ UNCHANGED heard
SendHello ==
  /\ pc = "hello"
  /\ \/ (heard' = "hello" \/ Lost) /\ pc' = "handshake" /\ UNCHANGED socketVars
     \/ SendError /\ pc' = "failed" /\ UNCHANGED heard
  /\ UNCHANGED <<status, reply, sent>>

HandshakeReads ==
  /\ pc = "handshake"
  /\ \/ TakesHalf /\ UNCHANGED pc
     \/ SslRecvDrops /\ UNCHANGED pc
     \/ TakesRecord(1) /\ pc' \in {"header", "failed"}
     \/ TakesWrong /\ pc' = "failed"
  /\ UNCHANGED <<status, reply, heard, sent>>

(* HANDSHAKE_TIMEOUT_MS without a byte.                                    *)
HandshakeWaitsOn ==                                       \* wrong: no limit
  pc = "handshake" /\ SslRecvNothing /\ UNCHANGED <<socketVars, requestVars>>
HandshakeTimesOut ==
  /\ pc = "handshake" /\ SslRecvNothing
  /\ pc' = "failed"
  /\ UNCHANGED <<socketVars, status, reply, heard, sent>>

-----------------------------------------------------------------------------
(* The header, then the line that ends the request: a server may have      *)
(* answered before it comes.                                               *)
SendHeader ==
  /\ pc = "header"
  /\ \/ /\ \/ heard' = IF secure /\ heard # "hello" THEN heard ELSE "request"
           \/ Lost
        /\ pc' = "ending" /\ UNCHANGED socketVars
     \/ peer = "reset" /\ Closes /\ pc' = "failed" /\ UNCHANGED heard
  /\ UNCHANGED <<status, reply, sent>>

SendEnding ==
  /\ pc = "ending"
  /\ \/ pc' = "recv" /\ UNCHANGED socketVars
     \/ peer = "reset" /\ Closes /\ pc' = "failed"
  /\ UNCHANGED <<status, reply, heard, sent>>

-----------------------------------------------------------------------------
(* Which part of the answer an item is: a head, or a piece of the body.    *)
HeadItem == IF secure THEN 2 ELSE 1
Pieces == Size[reply.image]

(* recv, parser.execute, is_message_complete.                              *)
RecvHalf == pc = "recv" /\ TakesHalf /\ UNCHANGED requestVars

(* The parser stops at what it cannot read: -2101, and NULL.               *)
ReadsHead ==
  /\ pc = "recv" /\ RecvGets(HeadItem)
  /\ IF reply.head = "malformed"
       THEN pc' = "failed" /\ UNCHANGED status
       ELSE /\ status' = reply.head
            /\ pc' = IF reply.sized /\ Pieces = 0 THEN "returned" ELSE "recv"
  /\ UNCHANGED <<reply, heard, sent>>

(* What the callback does with the piece is the caller's.                  *)
ReadsPiece(k) ==
  /\ pc = "recv" /\ RecvGets(HeadItem + k)
  /\ pc' = IF reply.sized /\ k = Pieces THEN "returned" ELSE "recv"
  /\ UNCHANGED <<status, reply, heard, sent>>

(* Nothing more: whatever there is, is the response.                       *)
RecvEnds ==
  /\ pc = "recv"
  /\ \/ RecvZero /\ pc' = "returned"
     \/ RecvError /\ pc' = "failed"
  /\ UNCHANGED <<status, reply, heard, sent>>

-----------------------------------------------------------------------------
(* The server and the network.                                             *)
Items == HeadItem + Pieces
Sendable ==
  CASE heard = "request" -> IF secure THEN 2 * Items ELSE Items
    [] heard = "hello" -> 2
    [] OTHER -> 0

ServerSends ==
  /\ tcp = "open" /\ peer = "up" /\ sent < Sendable
  /\ sent' = sent + 1 /\ arrived' = Append(arrived, sent + 1)
  /\ UNCHANGED <<secure, tcp, peer, _recv_buffer, taken, dropped, pc, status, reply, heard>>

(* It closes, also without having sent all; it resets the connection, and  *)
(* TCP may forget what it had; or it is no longer there.                   *)
ServerEnds ==
  /\ tcp = "open" /\ peer = "up"
  /\ peer' \in {"closed", "reset", "gone"}
  /\ arrived' = arrived \/ (peer' = "reset" /\ arrived' = <<>>)
  /\ UNCHANGED <<secure, tcp, _recv_buffer, taken, dropped, requestVars>>

Server == ServerSends \/ ServerEnds

States == {"idle", "connect", "hello", "handshake", "header", "ending", "recv", "returned", "failed"}

RequestTypeOK ==
  /\ pc \in States /\ status \in {"none", "200", "404"} /\ reply \in Replies
  /\ heard \in {"nothing", "hello", "request"} /\ sent \in Nat
=============================================================================
