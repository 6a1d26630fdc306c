--------------------------- MODULE AzureIoTProofs ---------------------------
(***************************************************************************)
(* Proofs about AzureIoT: whatever the network, the service and the hub    *)
(* do, the two MQTT clients never find each other's connection, true means *)
(* assigned, and requests and answers never get mixed up, for every number *)
(* of retries and every set of hubs.                                       *)
(***************************************************************************)
EXTENDS AzureIoT, TLAPS

-----------------------------------------------------------------------------
(* What may be on the wire, between the device and the service in each     *)
(* direction, and between the device and the hub in either.                *)
DpsOut == [type : {"CONNECT", "SUBSCRIBE", "PINGREQ", "REGISTER", "GET"}]
DpsIn ==
  [type : {"SUBACK", "PINGRESP", "GARBAGE"}] \cup
  [type : {"CONNACK"}, code : {0, 5}] \cup
  [type : {"RESPONSE"}, status : {200, 202, 429}, readable : BOOLEAN, hub : Hub \cup {NoHub}]
HubMessage ==
  [type : {"CONNECT", "SUBACK", "PINGREQ", "PINGRESP", "TELEMETRY", "PUBLISH", "GARBAGE"}] \cup
  [type : {"CONNACK"}, code : {0, 5}] \cup
  [type : {"SUBSCRIBE"}, topic : TopicSet] \cup
  [type : {"GET", "PATCH"}, rid : Nat] \cup
  [type : {"TWIN"}, status : {200, 204, 429}, rid : Nat]

(* The messages the invariant speaks of.                                   *)
Requests == {m \in DpsOut : m.type \in {"REGISTER", "GET"}}
Responses == {m \in DpsIn : m.type = "RESPONSE"}
Answering(h) == {m \in DpsIn :
                   m.type = "RESPONSE" /\ m.status = 200 => h # NoHub /\ m.hub = h}
TwinRequests == {m \in HubMessage : m.type = "GET"}
FullTwins == {m \in HubMessage : m.type = "TWIN" /\ m.status = 200}
TwinAnswer(c, r) == [type |-> "TWIN", status |-> c, rid |-> r]
Connect == {Packet("CONNECT")}
SubscribeTo(n) == {[type |-> "SUBSCRIBE", topic |-> Topics[n]]}

None(s, M) == \A i \in DOMAIN s : s[i] \notin M
AtMostOne(s, M) == \A i, j \in DOMAIN s : s[i] \in M /\ s[j] \in M => i = j

(* The wire between the device and the service: one request or its answer  *)
(* at most, and a 200 names the hub chosen.                                *)
DpsWire(in, out, chosen) ==
  /\ in \in Seq(DpsIn) /\ in \in Seq(Answering(chosen)) /\ out \in Seq(DpsOut)
  /\ AtMostOne(out, Requests) /\ AtMostOne(in, Responses)
  /\ None(out, Requests) \/ None(in, Responses)
NoRequest(in, out) == None(out, Requests) /\ None(in, Responses)

(* The wire between the device and the hub; and at most one twin on it.    *)
HubWire(in, out) == in \in Seq(HubMessage) /\ out \in Seq(HubMessage)
OneTwin(in, out) ==
  /\ AtMostOne(out, TwinRequests) /\ AtMostOne(in, FullTwins)
  /\ None(out, TwinRequests) \/ None(in, FullTwins)
NoTwin(in, out) == None(out, TwinRequests) /\ None(in, FullTwins)

-----------------------------------------------------------------------------
(* The inductive invariant, in six parts.                                  *)

(* What is on the wire is what the two parts write, each in its turn.      *)
WireInv ==
  /\ registering => DpsWire(inbox, outbox, assignment)
  /\ ~registering => HubWire(inbox, outbox)
  /\ tcp = "down" => inbox = <<>> /\ outbox = <<>>
  /\ twinRequestId \in Nat /\ topic \in 0 .. 3 /\ back \in {"sketch", "loop"}
  /\ twinGetPending \in BOOLEAN

(* azureIoTInit comes before the hub: while one part is at work the other  *)
(* is as it was, or has yet to begin.                                      *)
StageInv ==
  /\ registering => ~isInitialized
  /\ ~registering => DpsFresh
  /\ ~isInitialized => pc = "sketch" /\ _state = "DISCONNECTED"

(* Who has a connection, at each place of the two programs.                *)
ConnectionInv ==
  /\ registering /\ dpsPc \in {"dial", "done"} => tcp = "down"
  /\ registering /\ tcp # "down" => server = "dps"
  /\ ~registering /\ tcp # "down" => server = "hub"
  /\ ~registering /\ pc \in {"sketch", "loop"} => (tcp # "down" <=> _state = "CONNECTED")
  /\ pc = "dial" /\ tcp # "down" => _state = "CONNECTED"
  /\ pc = "connack" => tcp # "down" /\ _state # "CONNECTED"
  /\ pc = "subscribe" => tcp # "down" /\ _state = "CONNECTED"

(* What the callback took from the service's answer is what it chose; a    *)
(* request goes out when the last one's answer has been used.              *)
RequestInv ==
  registering =>
    /\ s_assigned => assignment # NoHub /\ s_assignedHub = assignment
    /\ dpsResult = "true" => s_assigned
    /\ dpsPc # "wait" \/ s_responseStatus # 0 => NoRequest(inbox, outbox)
    /\ dpsPc \notin {"wait", "done"} => s_responseStatus = 0
    /\ assignment \in Hub \cup {NoHub}

(* CONNECT is the first packet of a connection and is answered before      *)
(* anything else is sent; then each subscription made is at the hub or on  *)
(* its way there.                                                          *)
Made == IF pc = "subscribe" THEN topic ELSE 3
SubscribedInv ==
  ~registering =>
    /\ pc = "connack" => /\ subscribed = {}
                         /\ outbox = <<>> \/ (outbox = <<Packet("CONNECT")>> /\ inbox = <<>>)
    /\ pc # "connack" => None(outbox, Connect)
    /\ tcp = "up" /\ _state = "CONNECTED" /\ ~deaf =>
         \A n \in 1 .. Made : Topics[n] \in subscribed \/ ~None(outbox, SubscribeTo(n))

(* As long as no request overlapped another, at most one twin is on its    *)
(* way, and then the flag is set.                                          *)
TwinInv ==
  ~overlapped =>
    /\ twin = granted
    /\ ~registering => /\ OneTwin(inbox, outbox)
                       /\ twinGetPending = FALSE => NoTwin(inbox, outbox)

IInv == WireInv /\ StageInv /\ ConnectionInv /\ RequestInv /\ SubscribedInv /\ TwinInv

-----------------------------------------------------------------------------
(* What becomes of a queue's messages when one is appended, taken or torn, *)
(* or when the end of the queue is lost.                                   *)

(* Nothing of M is in an empty queue.                                      *)
LEMMA EmptyFacts ==
  ASSUME NEW S, NEW M
  PROVE  <<>> \in Seq(S) /\ None(<<>>, M) /\ AtMostOne(<<>>, M)
BY DEF None, AtMostOne

(* A queue with none of M has at most one.                                 *)
LEMMA NoneIsAtMostOne ==
  ASSUME NEW s, NEW M, None(s, M)
  PROVE  AtMostOne(s, M)
BY DEF None, AtMostOne

(* Append.                                                                 *)
LEMMA AppendFacts ==
  ASSUME NEW S, NEW s \in Seq(S), NEW e \in S, NEW M
  PROVE  /\ Append(s, e) \in Seq(S)
         /\ e \notin M /\ None(s, M) => None(Append(s, e), M)
         /\ e \notin M /\ AtMostOne(s, M) => AtMostOne(Append(s, e), M)
         /\ None(s, M) => AtMostOne(Append(s, e), M)
         /\ e \in M \/ ~None(s, M) => ~None(Append(s, e), M)
<1> DEFINE t == Append(s, e)
<1>1. t \in Seq(S) /\ Len(t) = Len(s) + 1 /\ Len(s) \in Nat /\ DOMAIN s = 1 .. Len(s)
      /\ DOMAIN t = 1 .. Len(t)
  OBVIOUS
<1>2. t[Len(s) + 1] = e /\ \A i \in 1 .. Len(s) : t[i] = s[i]
  OBVIOUS
<1>3. \A i \in DOMAIN t : i \in DOMAIN s \/ i = Len(s) + 1
  BY <1>1
<1>4. DOMAIN s \subseteq DOMAIN t /\ Len(s) + 1 \in DOMAIN t
  BY <1>1
<1> HIDE DEF t
<1>5. e \notin M /\ None(s, M) => None(t, M)
  BY <1>1, <1>2, <1>3 DEF None
<1>6. e \notin M /\ AtMostOne(s, M) => AtMostOne(t, M)
  BY <1>1, <1>2, <1>3 DEF AtMostOne
<1>7. None(s, M) => AtMostOne(t, M)
  BY <1>1, <1>2, <1>3 DEF AtMostOne, None
<1>8. e \in M \/ ~None(s, M) => ~None(t, M)
  BY <1>1, <1>2, <1>4 DEF None
<1> QED  BY <1>1, <1>5, <1>6, <1>7, <1>8 DEF t

(* Tail.                                                                   *)
LEMMA TailFacts ==
  ASSUME NEW S, NEW s \in Seq(S), s # <<>>, NEW M
  PROVE  /\ Tail(s) \in Seq(S) /\ Head(s) \in S
         /\ None(s, M) => Head(s) \notin M /\ None(Tail(s), M)
         /\ AtMostOne(s, M) => AtMostOne(Tail(s), M)
         /\ AtMostOne(s, M) /\ Head(s) \in M => None(Tail(s), M)
         /\ ~None(s, M) /\ Head(s) \notin M => ~None(Tail(s), M)
<1> DEFINE t == Tail(s)
<1>1. t \in Seq(S) /\ Len(t) = Len(s) - 1 /\ Len(s) \in Nat \ {0} /\ DOMAIN s = 1 .. Len(s)
      /\ DOMAIN t = 1 .. Len(t)
  OBVIOUS
<1>2. Head(s) = s[1] /\ s[1] \in S /\ \A i \in 1 .. Len(s) - 1 : t[i] = s[i + 1]
  OBVIOUS
<1>3. \A i \in DOMAIN t : i + 1 \in DOMAIN s /\ t[i] = s[i + 1] /\ i + 1 # 1 /\ i \in Nat
  BY <1>1, <1>2
<1>4. 1 \in DOMAIN s
  BY <1>1
<1>5. \A i \in DOMAIN s : i = 1 \/ (i - 1 \in DOMAIN t /\ t[i - 1] = s[i])
  BY <1>1, <1>2
<1> HIDE DEF t
<1>6. None(s, M) => Head(s) \notin M /\ None(t, M)
  BY <1>2, <1>3, <1>4 DEF None
<1>7. AtMostOne(s, M) => AtMostOne(t, M)
  <2> SUFFICES ASSUME AtMostOne(s, M), NEW i \in DOMAIN t, NEW j \in DOMAIN t, t[i] \in M, t[j] \in M
               PROVE  i = j
    BY DEF AtMostOne
  <2>1. i + 1 = j + 1
    BY <1>3 DEF AtMostOne
  <2> QED  BY <2>1, <1>3
<1>8. AtMostOne(s, M) /\ Head(s) \in M => None(t, M)
  BY <1>2, <1>3, <1>4 DEF AtMostOne, None
<1>9. ~None(s, M) /\ Head(s) \notin M => ~None(t, M)
  BY <1>2, <1>5 DEF None
<1> QED  BY <1>1, <1>2, <1>6, <1>7, <1>8, <1>9 DEF t

(* The end of the queue is lost.                                           *)
LEMMA SubSeqFacts ==
  ASSUME NEW S, NEW s \in Seq(S), NEW n \in 0 .. Len(s), NEW M
  PROVE  /\ SubSeq(s, 1, n) \in Seq(S)
         /\ None(s, M) => None(SubSeq(s, 1, n), M)
         /\ AtMostOne(s, M) => AtMostOne(SubSeq(s, 1, n), M)
<1> DEFINE t == SubSeq(s, 1, n)
<1>1. t \in Seq(S) /\ DOMAIN s = 1 .. Len(s) /\ Len(t) = n /\ DOMAIN t = 1 .. n
      /\ Len(s) \in Nat
  OBVIOUS
<1>2. \A i \in DOMAIN t : t[i] = s[i]
  OBVIOUS
<1>3. \A i \in DOMAIN t : i \in DOMAIN s /\ t[i] = s[i]
  BY <1>1, <1>2
<1> HIDE DEF t
<1>4. None(s, M) => None(t, M)
  BY <1>3 DEF None
<1>5. AtMostOne(s, M) => AtMostOne(t, M)
  BY <1>3 DEF AtMostOne
<1> QED  BY <1>1, <1>4, <1>5 DEF t

(* The first message is torn.                                              *)
LEMMA TornFacts ==
  ASSUME NEW S, NEW s \in Seq(S), s # <<>>, NEW g \in S, NEW M, g \notin M
  PROVE  /\ <<g>> \o Tail(s) \in Seq(S)
         /\ None(s, M) => None(<<g>> \o Tail(s), M)
         /\ AtMostOne(s, M) => AtMostOne(<<g>> \o Tail(s), M)
<1> DEFINE t == <<g>> \o Tail(s)
<1>1. t \in Seq(S) /\ DOMAIN s = 1 .. Len(s) /\ Len(t) = Len(s) /\ DOMAIN t = 1 .. Len(t)
      /\ Len(s) \in Nat \ {0}
  OBVIOUS
<1>2. t[1] = g /\ \A i \in 2 .. Len(s) : t[i] = s[i]
  OBVIOUS
<1>3. \A i \in DOMAIN t : i \in DOMAIN s /\ (t[i] = g \/ t[i] = s[i])
  BY <1>1, <1>2
<1> HIDE DEF t
<1>4. None(s, M) => None(t, M)
  BY <1>3 DEF None
<1>5. AtMostOne(s, M) => AtMostOne(t, M)
  BY <1>3 DEF AtMostOne
<1> QED  BY <1>1, <1>4, <1>5 DEF t

-----------------------------------------------------------------------------
(* The wire between the device and the service.                            *)

(* Which messages are requests, answers, or neither.                       *)
LEMMA DpsPackets ==
  /\ \A t \in {"CONNECT", "SUBSCRIBE", "PINGREQ"} :
       Packet(t) \in DpsOut /\ Packet(t) \notin Requests
  /\ \A t \in {"REGISTER", "GET"} : Packet(t) \in DpsOut
  /\ \A p \in DpsOut : p.type \notin {"CONNECT", "SUBSCRIBE", "PINGREQ"} => p \in Requests
  /\ \A t \in {"SUBACK", "PINGRESP", "GARBAGE"}, h \in Hub \cup {NoHub} :
       Packet(t) \in DpsIn /\ Packet(t) \in Answering(h) /\ Packet(t) \notin Responses
<1>1. \A t \in {"CONNECT", "SUBSCRIBE", "PINGREQ", "REGISTER", "GET"} :
        Packet(t) \in DpsOut /\ Packet(t).type = t
  BY DEF Packet, DpsOut
<1>2. \A t \in {"SUBACK", "PINGRESP", "GARBAGE"} : Packet(t) \in DpsIn /\ Packet(t).type = t
  BY DEF Packet, DpsIn
<1>3. \A p \in DpsOut : p.type \in {"CONNECT", "SUBSCRIBE", "PINGREQ", "REGISTER", "GET"}
  BY DEF DpsOut
<1> QED  BY <1>1, <1>2, <1>3 DEF Requests, Responses, Answering

(* Empty queues.                                                           *)
LEMMA DpsEmpty ==
  ASSUME NEW h
  PROVE  DpsWire(<<>>, <<>>, h) /\ NoRequest(<<>>, <<>>)
BY EmptyFacts DEF DpsWire, NoRequest

(* The client sends a packet.                                              *)
LEMMA DpsSends ==
  ASSUME NEW in, NEW out, NEW h, DpsWire(in, out, h), NEW p \in DpsOut
  PROVE  /\ p \notin Requests => DpsWire(in, Append(out, p), h)
         /\ p \notin Requests /\ NoRequest(in, out) => NoRequest(in, Append(out, p))
         /\ NoRequest(in, out) => DpsWire(in, Append(out, p), h)
<1>1. out \in Seq(DpsOut)
  BY DEF DpsWire
<1>2. /\ Append(out, p) \in Seq(DpsOut)
      /\ p \notin Requests /\ None(out, Requests) => None(Append(out, p), Requests)
      /\ p \notin Requests /\ AtMostOne(out, Requests) => AtMostOne(Append(out, p), Requests)
      /\ None(out, Requests) => AtMostOne(Append(out, p), Requests)
  BY <1>1, AppendFacts
<1> QED  BY <1>2 DEF DpsWire, NoRequest

(* The client takes a packet.                                              *)
LEMMA DpsReads ==
  ASSUME NEW in, NEW out, NEW h, DpsWire(in, out, h), in # <<>>
  PROVE  /\ Head(in) \in DpsIn /\ Head(in) \in Answering(h)
         /\ DpsWire(Tail(in), out, h)
         /\ NoRequest(in, out) => NoRequest(Tail(in), out)
         /\ Head(in) \in Responses => NoRequest(Tail(in), out)
<1>1. in \in Seq(DpsIn) /\ in \in Seq(Answering(h))
  BY DEF DpsWire
<1>2. /\ Tail(in) \in Seq(DpsIn) /\ Head(in) \in DpsIn
      /\ None(in, Responses) => Head(in) \notin Responses /\ None(Tail(in), Responses)
      /\ AtMostOne(in, Responses) => AtMostOne(Tail(in), Responses)
      /\ AtMostOne(in, Responses) /\ Head(in) \in Responses => None(Tail(in), Responses)
  BY <1>1, TailFacts
<1>3. Tail(in) \in Seq(Answering(h)) /\ Head(in) \in Answering(h)
  BY <1>1, TailFacts
<1> QED  BY <1>2, <1>3 DEF DpsWire, NoRequest

(* The first packet is torn.                                               *)
LEMMA DpsTears ==
  ASSUME NEW in, NEW out, NEW h \in Hub \cup {NoHub}, DpsWire(in, out, h), in # <<>>
  PROVE  /\ DpsWire(<<Packet("GARBAGE")>> \o Tail(in), out, h)
         /\ NoRequest(in, out) => NoRequest(<<Packet("GARBAGE")>> \o Tail(in), out)
<1> DEFINE g == Packet("GARBAGE")
<1>1. in \in Seq(DpsIn) /\ in \in Seq(Answering(h))
  BY DEF DpsWire
<1>2. g \in DpsIn /\ g \in Answering(h) /\ g \notin Responses
  BY DpsPackets
<1> HIDE DEF g
<1>3. /\ <<g>> \o Tail(in) \in Seq(DpsIn)
      /\ None(in, Responses) => None(<<g>> \o Tail(in), Responses)
      /\ AtMostOne(in, Responses) => AtMostOne(<<g>> \o Tail(in), Responses)
  BY <1>1, <1>2, TornFacts
<1>4. <<g>> \o Tail(in) \in Seq(Answering(h))
  <2>1. g \notin {}
    OBVIOUS
  <2> QED  BY <1>1, <1>2, <2>1, TornFacts
<1> QED  BY <1>3, <1>4 DEF DpsWire, NoRequest, g

(* The connection is lost, and with it what was on its way out and the end *)
(* of what was on its way in.                                              *)
LEMMA DpsLoses ==
  ASSUME NEW in, NEW out, NEW h, DpsWire(in, out, h), NEW n \in 0 .. Len(in)
  PROVE  /\ DpsWire(in, <<>>, h) /\ DpsWire(SubSeq(in, 1, n), <<>>, h)
         /\ NoRequest(in, out) => NoRequest(in, <<>>) /\ NoRequest(SubSeq(in, 1, n), <<>>)
<1>1. in \in Seq(DpsIn) /\ in \in Seq(Answering(h))
  BY DEF DpsWire
<1>2. /\ SubSeq(in, 1, n) \in Seq(DpsIn)
      /\ None(in, Responses) => None(SubSeq(in, 1, n), Responses)
      /\ AtMostOne(in, Responses) => AtMostOne(SubSeq(in, 1, n), Responses)
  BY <1>1, SubSeqFacts
<1>3. SubSeq(in, 1, n) \in Seq(Answering(h))
  BY <1>1, SubSeqFacts
<1>4. <<>> \in Seq(DpsOut) /\ None(<<>>, Requests) /\ AtMostOne(<<>>, Requests)
  BY EmptyFacts
<1> QED  BY <1>2, <1>3, <1>4 DEF DpsWire, NoRequest

(* The service takes a packet and answers; a 200 is the only answer that   *)
(* changes what it has chosen, and only from nothing.                      *)
LEMMA DpsServes ==
  ASSUME NEW in, NEW out, NEW h, NEW k, DpsWire(in, out, h), out # <<>>,
         NEW a, a \in DpsIn, a \in Answering(k), h = k \/ h = NoHub,
         a \in Responses => Head(out) \in Requests
  PROVE  /\ DpsWire(Append(in, a), Tail(out), k)
         /\ NoRequest(in, out) => NoRequest(Append(in, a), Tail(out))
<1>1. in \in Seq(DpsIn) /\ in \in Seq(Answering(h)) /\ out \in Seq(DpsOut)
  BY DEF DpsWire
<1>2. in \in Seq(Answering(k))
  <2>1. CASE h = k
    BY <2>1, <1>1
  <2>2. CASE h = NoHub
    <3>1. Answering(h) \subseteq Answering(k)
      BY <2>2 DEF Answering
    <3> QED  BY <3>1, <1>1
  <2> QED  BY <2>1, <2>2
<1>3. Append(in, a) \in Seq(Answering(k))
  BY <1>2, AppendFacts
<1>4. /\ Append(in, a) \in Seq(DpsIn)
      /\ a \notin Responses /\ None(in, Responses) => None(Append(in, a), Responses)
      /\ a \notin Responses /\ AtMostOne(in, Responses) => AtMostOne(Append(in, a), Responses)
      /\ None(in, Responses) => AtMostOne(Append(in, a), Responses)
  BY <1>1, AppendFacts
<1>5. /\ Tail(out) \in Seq(DpsOut)
      /\ None(out, Requests) => Head(out) \notin Requests /\ None(Tail(out), Requests)
      /\ AtMostOne(out, Requests) => AtMostOne(Tail(out), Requests)
      /\ AtMostOne(out, Requests) /\ Head(out) \in Requests => None(Tail(out), Requests)
  BY <1>1, TailFacts
<1>6. NoRequest(in, out) => NoRequest(Append(in, a), Tail(out))
  BY <1>4, <1>5 DEF NoRequest
<1> QED  BY <1>3, <1>4, <1>5, <1>6 DEF DpsWire

-----------------------------------------------------------------------------
(* The wire between the device and the hub.                                *)

(* An answer to a twin request, full or not.                               *)
LEMMA TwinPacket ==
  ASSUME NEW r \in Nat, NEW c \in {200, 204, 429}
  PROVE  TwinAnswer(c, r) \in HubMessage /\ (TwinAnswer(c, r) \in FullTwins => c = 200)
<1> DEFINE m == TwinAnswer(c, r)
<1>1. m \in HubMessage
  BY DEF HubMessage, TwinAnswer
<1>2. m.status = c
  BY DEF TwinAnswer
<1> HIDE DEF m
<1>3. m \in FullTwins => c = 200
  BY <1>2 DEF FullTwins
<1> QED  BY <1>1, <1>3 DEF m

(* Which messages are twin requests, full twins, CONNECT, or SUBSCRIBE.    *)
LEMMA HubPackets ==
  /\ \A t \in {"CONNECT", "SUBACK", "PINGREQ", "PINGRESP", "TELEMETRY", "PUBLISH", "GARBAGE"} :
       /\ Packet(t) \in HubMessage /\ Packet(t).type = t
       /\ Packet(t) \notin TwinRequests /\ Packet(t) \notin FullTwins
       /\ t # "CONNECT" => Packet(t) \notin Connect
  /\ \A c \in {0, 5} : /\ [type |-> "CONNACK", code |-> c] \in HubMessage
                       /\ [type |-> "CONNACK", code |-> c] \notin FullTwins
  /\ \A n \in 1 .. 3 : /\ [type |-> "SUBSCRIBE", topic |-> Topics[n]] \in HubMessage
                       /\ [type |-> "SUBSCRIBE", topic |-> Topics[n]] \in SubscribeTo(n)
                       /\ [type |-> "SUBSCRIBE", topic |-> Topics[n]] \notin TwinRequests
                       /\ [type |-> "SUBSCRIBE", topic |-> Topics[n]] \notin Connect
  /\ \A r \in Nat : /\ [type |-> "GET", rid |-> r] \in HubMessage
                    /\ [type |-> "GET", rid |-> r] \in TwinRequests
                    /\ [type |-> "GET", rid |-> r] \notin Connect
                    /\ [type |-> "PATCH", rid |-> r] \in HubMessage
                    /\ [type |-> "PATCH", rid |-> r] \notin TwinRequests
                    /\ [type |-> "PATCH", rid |-> r] \notin Connect
<1>1. \A t \in {"CONNECT", "SUBACK", "PINGREQ", "PINGRESP", "TELEMETRY", "PUBLISH", "GARBAGE"} :
        Packet(t) \in HubMessage /\ Packet(t).type = t
  BY DEF Packet, HubMessage
<1>2. \A t \in {"CONNECT", "SUBACK", "PINGREQ", "PINGRESP", "TELEMETRY", "PUBLISH", "GARBAGE"} :
        /\ Packet(t) \notin TwinRequests /\ Packet(t) \notin FullTwins
        /\ t # "CONNECT" => Packet(t) \notin Connect
  <2>1. Packet("CONNECT").type = "CONNECT"
    BY <1>1
  <2> QED  BY <1>1, <2>1 DEF TwinRequests, FullTwins, Connect
<1>3. \A c \in {0, 5} : /\ [type |-> "CONNACK", code |-> c] \in HubMessage
                        /\ [type |-> "CONNACK", code |-> c] \notin FullTwins
  BY DEF HubMessage, FullTwins
<1>4. \A n \in 1 .. 3 : /\ [type |-> "SUBSCRIBE", topic |-> Topics[n]] \in HubMessage
                        /\ [type |-> "SUBSCRIBE", topic |-> Topics[n]] \in SubscribeTo(n)
                        /\ [type |-> "SUBSCRIBE", topic |-> Topics[n]] \notin TwinRequests
                        /\ [type |-> "SUBSCRIBE", topic |-> Topics[n]] \notin Connect
  <2> TAKE n \in 1 .. 3
  <2> DEFINE m == [type |-> "SUBSCRIBE", topic |-> Topics[n]]
  <2>1. Topics[n] \in TopicSet
    BY DEF Topics, TopicSet
  <2>2. m \in HubMessage
    BY <2>1 DEF HubMessage
  <2>3. m.type = "SUBSCRIBE"
    OBVIOUS
  <2>4. m \in SubscribeTo(n)
    BY DEF SubscribeTo
  <2> HIDE DEF m
  <2>5. m \notin TwinRequests /\ m \notin Connect
    BY <2>3, <1>1 DEF TwinRequests, Connect
  <2> QED  BY <2>2, <2>4, <2>5 DEF m
<1>5. \A r \in Nat : /\ [type |-> "GET", rid |-> r] \in HubMessage
                     /\ [type |-> "GET", rid |-> r] \in TwinRequests
                     /\ [type |-> "GET", rid |-> r] \notin Connect
                     /\ [type |-> "PATCH", rid |-> r] \in HubMessage
                     /\ [type |-> "PATCH", rid |-> r] \notin TwinRequests
                     /\ [type |-> "PATCH", rid |-> r] \notin Connect
  <2> TAKE r \in Nat
  <2> DEFINE g == [type |-> "GET", rid |-> r]
             u == [type |-> "PATCH", rid |-> r]
  <2>1. g \in HubMessage /\ u \in HubMessage
    BY DEF HubMessage
  <2>2. g.type = "GET" /\ u.type = "PATCH"
    OBVIOUS
  <2> HIDE DEF g, u
  <2>3. g \in TwinRequests /\ g \notin Connect /\ u \notin TwinRequests /\ u \notin Connect
    BY <2>1, <2>2, <1>1 DEF TwinRequests, Connect
  <2> QED  BY <2>1, <2>3 DEF g, u
<1> QED  BY <1>1, <1>2, <1>3, <1>4, <1>5

(* Empty queues.                                                           *)
LEMMA HubEmpty ==
  HubWire(<<>>, <<>>) /\ OneTwin(<<>>, <<>>) /\ NoTwin(<<>>, <<>>) /\ None(<<>>, Connect)
BY EmptyFacts DEF HubWire, OneTwin, NoTwin

(* The client sends a packet.                                              *)
LEMMA HubQueues ==
  ASSUME NEW in, NEW out, HubWire(in, out), NEW p \in HubMessage
  PROVE  /\ HubWire(in, Append(out, p))
         /\ p \notin TwinRequests /\ OneTwin(in, out) => OneTwin(in, Append(out, p))
         /\ p \notin TwinRequests /\ NoTwin(in, out) => NoTwin(in, Append(out, p))
         /\ NoTwin(in, out) => OneTwin(in, Append(out, p))
         /\ p \notin Connect /\ None(out, Connect) => None(Append(out, p), Connect)
         /\ \A n : p \in SubscribeTo(n) \/ ~None(out, SubscribeTo(n)) =>
                     ~None(Append(out, p), SubscribeTo(n))
<1>1. out \in Seq(HubMessage)
  BY DEF HubWire
<1>2. /\ Append(out, p) \in Seq(HubMessage)
      /\ p \notin TwinRequests /\ None(out, TwinRequests) => None(Append(out, p), TwinRequests)
      /\ p \notin TwinRequests /\ AtMostOne(out, TwinRequests) =>
           AtMostOne(Append(out, p), TwinRequests)
      /\ None(out, TwinRequests) => AtMostOne(Append(out, p), TwinRequests)
  BY <1>1, AppendFacts
<1>3. p \notin Connect /\ None(out, Connect) => None(Append(out, p), Connect)
  BY <1>1, AppendFacts
<1>4. ASSUME NEW n, p \in SubscribeTo(n) \/ ~None(out, SubscribeTo(n))
      PROVE  ~None(Append(out, p), SubscribeTo(n))
  BY <1>1, <1>4, AppendFacts
<1>5. None(in, FullTwins) => AtMostOne(in, FullTwins)
  BY NoneIsAtMostOne
<1> QED  BY <1>2, <1>3, <1>4, <1>5 DEF HubWire, OneTwin, NoTwin

(* The client takes a packet.                                              *)
LEMMA HubGives ==
  ASSUME NEW in, NEW out, HubWire(in, out), in # <<>>
  PROVE  /\ HubWire(Tail(in), out) /\ Head(in) \in HubMessage
         /\ OneTwin(in, out) => OneTwin(Tail(in), out)
         /\ NoTwin(in, out) => NoTwin(Tail(in), out) /\ Head(in) \notin FullTwins
         /\ OneTwin(in, out) /\ Head(in) \in FullTwins => NoTwin(Tail(in), out)
<1>1. in \in Seq(HubMessage)
  BY DEF HubWire
<1>2. /\ Tail(in) \in Seq(HubMessage) /\ Head(in) \in HubMessage
      /\ None(in, FullTwins) => Head(in) \notin FullTwins /\ None(Tail(in), FullTwins)
      /\ AtMostOne(in, FullTwins) => AtMostOne(Tail(in), FullTwins)
      /\ AtMostOne(in, FullTwins) /\ Head(in) \in FullTwins => None(Tail(in), FullTwins)
  BY <1>1, TailFacts
<1> QED  BY <1>2 DEF HubWire, OneTwin, NoTwin

(* The first packet is torn.                                               *)
LEMMA HubTears ==
  ASSUME NEW in, NEW out, HubWire(in, out), in # <<>>
  PROVE  /\ HubWire(<<Packet("GARBAGE")>> \o Tail(in), out)
         /\ OneTwin(in, out) => OneTwin(<<Packet("GARBAGE")>> \o Tail(in), out)
         /\ NoTwin(in, out) => NoTwin(<<Packet("GARBAGE")>> \o Tail(in), out)
<1> DEFINE g == Packet("GARBAGE")
<1>1. in \in Seq(HubMessage)
  BY DEF HubWire
<1>2. g \in HubMessage /\ g \notin FullTwins
  BY HubPackets
<1> HIDE DEF g
<1>3. /\ <<g>> \o Tail(in) \in Seq(HubMessage)
      /\ None(in, FullTwins) => None(<<g>> \o Tail(in), FullTwins)
      /\ AtMostOne(in, FullTwins) => AtMostOne(<<g>> \o Tail(in), FullTwins)
  BY <1>1, <1>2, TornFacts
<1> QED  BY <1>3 DEF HubWire, OneTwin, NoTwin, g

(* The connection is lost.                                                 *)
LEMMA HubLoses ==
  ASSUME NEW in, NEW out, HubWire(in, out), NEW n \in 0 .. Len(in)
  PROVE  /\ HubWire(in, <<>>) /\ HubWire(SubSeq(in, 1, n), <<>>)
         /\ OneTwin(in, out) => OneTwin(in, <<>>) /\ OneTwin(SubSeq(in, 1, n), <<>>)
         /\ NoTwin(in, out) => NoTwin(in, <<>>) /\ NoTwin(SubSeq(in, 1, n), <<>>)
<1>1. in \in Seq(HubMessage)
  BY DEF HubWire
<1>2. /\ SubSeq(in, 1, n) \in Seq(HubMessage)
      /\ None(in, FullTwins) => None(SubSeq(in, 1, n), FullTwins)
      /\ AtMostOne(in, FullTwins) => AtMostOne(SubSeq(in, 1, n), FullTwins)
  BY <1>1, SubSeqFacts
<1>3. <<>> \in Seq(HubMessage) /\ None(<<>>, TwinRequests) /\ AtMostOne(<<>>, TwinRequests)
  BY EmptyFacts
<1> QED  BY <1>2, <1>3 DEF HubWire, OneTwin, NoTwin

(* A packet comes from the hub.                                            *)
LEMMA HubDelivers ==
  ASSUME NEW in, NEW out, HubWire(in, out), NEW a \in HubMessage, a \notin FullTwins
  PROVE  /\ HubWire(Append(in, a), out)
         /\ OneTwin(in, out) => OneTwin(Append(in, a), out)
         /\ NoTwin(in, out) => NoTwin(Append(in, a), out)
<1>1. in \in Seq(HubMessage)
  BY DEF HubWire
<1>2. /\ Append(in, a) \in Seq(HubMessage)
      /\ None(in, FullTwins) => None(Append(in, a), FullTwins)
      /\ AtMostOne(in, FullTwins) => AtMostOne(Append(in, a), FullTwins)
  BY <1>1, AppendFacts
<1> QED  BY <1>2 DEF HubWire, OneTwin, NoTwin

(* The hub takes a packet and says nothing.                                *)
LEMMA HubDrops ==
  ASSUME NEW in, NEW out, HubWire(in, out), out # <<>>
  PROVE  /\ HubWire(in, Tail(out)) /\ Head(out) \in HubMessage
         /\ OneTwin(in, out) => OneTwin(in, Tail(out))
         /\ NoTwin(in, out) => NoTwin(in, Tail(out)) /\ Head(out) \notin TwinRequests
         /\ None(out, Connect) => None(Tail(out), Connect) /\ Head(out) \notin Connect
         /\ \A n : ~None(out, SubscribeTo(n)) =>
                     Head(out) \in SubscribeTo(n) \/ ~None(Tail(out), SubscribeTo(n))
<1>1. out \in Seq(HubMessage)
  BY DEF HubWire
<1>2. /\ Tail(out) \in Seq(HubMessage) /\ Head(out) \in HubMessage
      /\ None(out, TwinRequests) => Head(out) \notin TwinRequests /\ None(Tail(out), TwinRequests)
      /\ AtMostOne(out, TwinRequests) => AtMostOne(Tail(out), TwinRequests)
  BY <1>1, TailFacts
<1>3. None(out, Connect) => None(Tail(out), Connect) /\ Head(out) \notin Connect
  BY <1>1, TailFacts
<1>4. ASSUME NEW n, ~None(out, SubscribeTo(n)), Head(out) \notin SubscribeTo(n)
      PROVE  ~None(Tail(out), SubscribeTo(n))
  BY <1>1, <1>4, TailFacts
<1> QED  BY <1>2, <1>3, <1>4 DEF HubWire, OneTwin, NoTwin

(* The hub takes a packet and answers; only a request is answered by a     *)
(* twin.                                                                   *)
LEMMA HubReplies ==
  ASSUME NEW in, NEW out, HubWire(in, out), out # <<>>, NEW a \in HubMessage,
         a \in FullTwins => Head(out) \in TwinRequests
  PROVE  /\ HubWire(Append(in, a), Tail(out))
         /\ OneTwin(in, out) => OneTwin(Append(in, a), Tail(out))
         /\ NoTwin(in, out) => NoTwin(Append(in, a), Tail(out))
<1>1. in \in Seq(HubMessage) /\ out \in Seq(HubMessage)
  BY DEF HubWire
<1>2. /\ Append(in, a) \in Seq(HubMessage)
      /\ a \notin FullTwins /\ None(in, FullTwins) => None(Append(in, a), FullTwins)
      /\ a \notin FullTwins /\ AtMostOne(in, FullTwins) => AtMostOne(Append(in, a), FullTwins)
      /\ None(in, FullTwins) => AtMostOne(Append(in, a), FullTwins)
  BY <1>1, AppendFacts
<1>3. /\ Tail(out) \in Seq(HubMessage)
      /\ None(out, TwinRequests) => Head(out) \notin TwinRequests /\ None(Tail(out), TwinRequests)
      /\ AtMostOne(out, TwinRequests) => AtMostOne(Tail(out), TwinRequests)
      /\ AtMostOne(out, TwinRequests) /\ Head(out) \in TwinRequests => None(Tail(out), TwinRequests)
  BY <1>1, TailFacts
<1> QED  BY <1>2, <1>3 DEF HubWire, OneTwin, NoTwin

-----------------------------------------------------------------------------
(* The steps of the registration.                                          *)

(* What a step of the registration has to keep.                            *)
DpsKept ==
  /\ DpsWire(inbox, outbox, assignment)
  /\ tcp = "down" => inbox = <<>> /\ outbox = <<>>
  /\ dpsPc \in {"dial", "done"} => tcp = "down"
  /\ s_assigned => assignment # NoHub /\ s_assignedHub = assignment
  /\ dpsResult = "true" => s_assigned
  /\ dpsPc # "wait" \/ s_responseStatus # 0 => NoRequest(inbox, outbox)
  /\ dpsPc \notin {"wait", "done"} => s_responseStatus = 0
  /\ assignment \in Hub \cup {NoHub}

(* The rest of the invariant is then kept as well, as the hub's part       *)
(* stands still.                                                           *)
LEMMA RegistrationKeeps ==
  ASSUME IInv, registering, UNCHANGED <<stage, hubOwn>>, DpsKept', tcp' # "down" => server' = "dps"
  PROVE  IInv'
<1>1. registering' = registering /\ isInitialized' = isInitialized /\ _state' = _state
      /\ pc' = pc /\ back' = back /\ topic' = topic /\ twinRequestId' = twinRequestId
      /\ twinGetPending' = twinGetPending /\ overlapped' = overlapped /\ twin' = twin
      /\ granted' = granted
  BY DEF stage, hubOwn, hubVars, others
<1>2. WireInv'
  BY <1>1 DEF DpsKept, WireInv, IInv
<1>3. StageInv'
  BY <1>1 DEF StageInv, IInv
<1>4. pc' = "sketch"
  BY <1>1 DEF StageInv, IInv
<1>5. ConnectionInv'
  BY <1>1, <1>4 DEF DpsKept, ConnectionInv
<1>6. RequestInv'
  BY <1>1 DEF DpsKept, RequestInv
<1>7. SubscribedInv' /\ TwinInv'
  BY <1>1 DEF SubscribedInv, TwinInv, IInv
<1> QED  BY <1>2, <1>3, <1>5, <1>6, <1>7 DEF IInv

(* A call that closes the connection.                                      *)
LEMMA StopKeeps ==
  ASSUME DpsKept, Stop, UNCHANGED <<s_assigned, s_responseStatus, s_operationId, s_assignedHub,
                                    assignment>>,
         dpsPc' \in {"wait", "done"}, dpsResult' = "true" => s_assigned
  PROVE  DpsKept'
BY DpsEmpty DEF DpsKept, Stop

(* Dial and the answer to CONNECT.                                         *)
LEMMA DpsDialKeeps ==
  ASSUME DpsKept, Dps!Dial
  PROVE  DpsKept'
<1> USE DEF Dps!Dial, Dps!statics
<1>1. tcp = "down" /\ inbox = <<>> /\ outbox = <<>> /\ s_responseStatus = 0
  BY DEF DpsKept
<1>2. CASE Dps!ConnectSends /\ dpsPc' = "connack" /\ UNCHANGED dpsResult
  <2> USE <1>2 DEF Dps!ConnectSends
  <2>1. outbox' = Append(outbox, Packet("CONNECT")) /\ inbox' = inbox /\ assignment' = assignment
    BY DEF Dps!Packet, Packet
  <2>2. Packet("CONNECT") \in DpsOut /\ Packet("CONNECT") \notin Requests
    BY DpsPackets
  <2>3. DpsWire(inbox', outbox', assignment') /\ NoRequest(inbox', outbox')
    BY <2>1, <2>2, <1>1, DpsSends DEF DpsKept
  <2> QED  BY <2>3, <1>1 DEF DpsKept
<1>3. CASE Dps!ConnectFails /\ Dps!Returns("false")
  BY <1>3 DEF DpsKept, Dps!ConnectFails, Dps!Returns
<1> QED  BY <1>2, <1>3

(* When connect returns, an accepted connection has carried nothing but    *)
(* CONNECT and its answer: the registration has not asked yet.             *)
LEMMA DpsConnectReturnsKeeps ==
  ASSUME DpsKept, Dps!ConnectReturns
  PROVE  DpsKept'
<1> USE DEF Dps!ConnectReturns, Dps!statics
<1>1. CASE Dps!ConnectAccepted /\ dpsPc' = "subscribe" /\ UNCHANGED dpsResult
  <2> USE <1>1 DEF Dps!ConnectAccepted
  <2>1. DpsWire(inbox', outbox', assignment')
        /\ (NoRequest(inbox, outbox) => NoRequest(inbox', outbox'))
    BY DpsReads DEF DpsKept
  <2> QED  BY <2>1 DEF DpsKept
<1>2. CASE (Dps!ConnectRefused \/ Dps!ConnectTorn \/ Dps!ConnectTimesOut) /\ Dps!Returns("false")
  BY <1>2, StopKeeps DEF Dps!ConnectRefused, Dps!ConnectTorn, Dps!ConnectTimesOut, Dps!Stop, Stop,
     Dps!Returns
<1> QED  BY <1>1, <1>2

(* subscribe, then the registration request.                               *)
LEMMA DpsAsksKeeps ==
  ASSUME DpsKept, Dps!Subscribe \/ Dps!Register
  PROVE  DpsKept'
<1> USE DEF Dps!Subscribe, Dps!Register, Dps!Asks, Dps!statics
<1>1. CASE Dps!Disconnect /\ Dps!Returns("false")
  BY <1>1, StopKeeps DEF Dps!Disconnect, Dps!Stop, Stop, Dps!Returns
<1>2. ASSUME NEW p \in DpsOut, Dps!WriteDone(p),
             \/ dpsPc = "subscribe" /\ dpsPc' = "register" /\ p \notin Requests
             \/ dpsPc = "register" /\ dpsPc' = "wait",
             UNCHANGED <<tcp, inbox, dpsResult>>
      PROVE  DpsKept'
  <2> USE <1>2 DEF Dps!WriteDone, Dps!Connected, Dps!Sent
  <2>1. NoRequest(inbox, outbox)
    BY DEF DpsKept
  <2>2. DpsWire(inbox', outbox', assignment')
        /\ (p \notin Requests => NoRequest(inbox', outbox'))
    BY <2>1, DpsSends DEF DpsKept
  <2>3. s_responseStatus = 0 /\ tcp # "down"
    BY DEF DpsKept
  <2> QED  BY <2>2, <2>3 DEF DpsKept
<1>3. /\ Dps!Packet("SUBSCRIBE") \in DpsOut /\ Dps!Packet("SUBSCRIBE") \notin Requests
      /\ Dps!Packet("REGISTER") \in DpsOut
  BY DpsPackets DEF Dps!Packet, Packet
<1> QED  BY <1>1, <1>2, <1>3

-----------------------------------------------------------------------------
(* dpsMqtt.loop.                                                           *)

(* The ping it may send.                                                   *)
LEMMA DpsPings ==
  ASSUME NEW in, DpsWire(in, outbox, assignment), Dps!LoopPings
  PROVE  /\ DpsWire(in, outbox', assignment)
         /\ NoRequest(in, outbox) => NoRequest(in, outbox')
<1>1. Dps!Packet("PINGREQ") \in DpsOut /\ Dps!Packet("PINGREQ") \notin Requests
  BY DpsPackets DEF Dps!Packet, Packet
<1> QED  BY <1>1, DpsSends DEF Dps!LoopPings, Dps!Sent

(* The callback takes a response.                                          *)
LEMMA DpsCallbackKeeps ==
  ASSUME DpsKept, Dps!LoopReads(Head(inbox)), Head(inbox).type = "RESPONSE",
         Dps!Callback(Head(inbox)), dpsPc = "wait", UNCHANGED <<dpsPc, dpsResult, assignment>>
  PROVE  DpsKept'
<1> USE DEF Dps!LoopReads, Dps!Callback
<1>1. /\ Head(inbox) \in DpsIn /\ Head(inbox) \in Answering(assignment)
      /\ DpsWire(Tail(inbox), outbox, assignment)
      /\ Head(inbox) \in Responses => NoRequest(Tail(inbox), outbox)
  BY DpsReads DEF DpsKept
<1>2. NoRequest(Tail(inbox), outbox)
  BY <1>1 DEF Responses
<1>3. DpsWire(inbox', outbox', assignment') /\ NoRequest(inbox', outbox')
  BY <1>1, <1>2, DpsPings
<1>4. s_assigned' => assignment # NoHub /\ s_assignedHub' = assignment
  BY <1>1 DEF Answering, DpsKept
<1>5. (s_assigned => s_assigned') /\ tcp # "down" /\ tcp' = tcp
  BY DEF Dps!Connected
<1> QED  BY <1>3, <1>4, <1>5 DEF DpsKept

(* One turn of the inner loop.                                             *)
LEMMA DpsWaitKeeps ==
  ASSUME DpsKept, Dps!Wait
  PROVE  DpsKept'
<1> USE DEF Dps!Wait, Dps!Waiting, Dps!statics
<1>1. CASE Dps!LoopIdle /\ UNCHANGED Dps!statics
  BY <1>1 DEF DpsKept, Dps!LoopIdle
<1>2. CASE (Dps!LoopTimesOut \/ Dps!LoopKilled) /\ UNCHANGED Dps!statics
  BY <1>2, StopKeeps DEF Dps!LoopTimesOut, Dps!LoopKilled, Dps!Stop, Stop, DpsKept
<1>3. CASE Dps!LoopNothing /\ UNCHANGED Dps!statics
  <2> USE <1>3 DEF Dps!LoopNothing
  <2>1. DpsWire(inbox, outbox', assignment) /\ (NoRequest(inbox, outbox) => NoRequest(inbox, outbox'))
    BY DpsPings DEF DpsKept
  <2>2. tcp # "down"
    BY DEF Dps!Connected
  <2> QED  BY <2>1, <2>2 DEF DpsKept
<1>4. CASE Dps!LoopTorn /\ UNCHANGED Dps!statics
  <2> USE <1>4 DEF Dps!LoopTorn
  <2> DEFINE in == <<Packet("GARBAGE")>> \o Tail(inbox)
  <2>1. DpsWire(in, outbox, assignment) /\ (NoRequest(inbox, outbox) => NoRequest(in, outbox))
    BY DpsTears DEF DpsKept
  <2>2. inbox' = in
    BY DEF Dps!Packet, Packet
  <2> HIDE DEF in
  <2>3. DpsWire(in, outbox', assignment) /\ (NoRequest(in, outbox) => NoRequest(in, outbox'))
    BY <2>1, DpsPings
  <2>4. tcp # "down" /\ tcp' = tcp
    BY DEF Dps!Connected
  <2> QED  BY <2>1, <2>2, <2>3, <2>4 DEF DpsKept
<1>5. ASSUME NEW p \in {inbox[i] : i \in DOMAIN inbox}, Dps!LoopReads(p),
             IF p.type = "RESPONSE" THEN Dps!Callback(p) ELSE UNCHANGED Dps!statics
      PROVE  DpsKept'
  <2>1. p = Head(inbox) /\ inbox # <<>> /\ tcp # "down" /\ tcp' = tcp /\ inbox' = Tail(inbox)
    BY <1>5 DEF Dps!LoopReads, Dps!Connected
  <2>2. CASE p.type = "RESPONSE"
    BY <2>1, <2>2, <1>5, DpsCallbackKeeps
  <2>3. CASE p.type # "RESPONSE"
    <3>1. /\ DpsWire(Tail(inbox), outbox, assignment)
          /\ NoRequest(inbox, outbox) => NoRequest(Tail(inbox), outbox)
      BY <2>1, DpsReads DEF DpsKept
    <3>2. Dps!LoopPings
      BY <1>5 DEF Dps!LoopReads
    <3>3. /\ DpsWire(Tail(inbox), outbox', assignment)
          /\ NoRequest(Tail(inbox), outbox) => NoRequest(Tail(inbox), outbox')
      BY <3>1, <3>2, DpsPings
    <3> QED  BY <1>5, <2>1, <2>3, <3>1, <3>3 DEF DpsKept
  <2> QED  BY <2>2, <2>3
<1> QED  BY <1>1, <1>2, <1>3, <1>4, <1>5

-----------------------------------------------------------------------------
(* The outer loop.                                                         *)
LEMMA DpsPollKeeps ==
  ASSUME DpsKept, Dps!Poll
  PROVE  DpsKept'
<1> USE DEF Dps!Poll
<1>1. NoRequest(inbox, outbox)
  BY DEF DpsKept
<1>2. DpsWire(inbox', outbox', assignment') /\ tcp' = tcp /\ (tcp = "down" => outbox' = outbox)
  <2>1. CASE Dps!WriteDone(Dps!Packet("GET"))
    <3>1. Dps!Packet("GET") \in DpsOut
      BY DpsPackets DEF Dps!Packet, Packet
    <3> QED  BY <2>1, <3>1, <1>1, DpsSends DEF Dps!WriteDone, Dps!Sent, Dps!Connected, DpsKept
  <2>2. CASE outbox' = outbox
    <3>1. inbox' = inbox /\ tcp' = tcp /\ assignment' = assignment
      OBVIOUS
    <3> QED  BY <2>2, <3>1 DEF DpsKept
  <2> QED  BY <2>1, <2>2 DEF Dps!WriteFails
<1>3. inbox' = inbox /\ dpsPc' = "wait" /\ s_responseStatus' = 0
  OBVIOUS
<1> QED  BY <1>2, <1>3 DEF DpsKept

(* Every step of the device.                                               *)
LEMMA DeviceKeeps ==
  ASSUME DpsKept, Dps!Device
  PROVE  DpsKept'
<1>1. CASE Dps!TimeOut
  BY <1>1 DEF Dps!TimeOut, Dps!Waiting, DpsKept, Dps!vars, Dps!mqttVars, Dps!statics
<1>2. CASE Dps!Refused \/ Dps!LoopEnds
  BY <1>2, StopKeeps DEF Dps!Refused, Dps!LoopEnds, Dps!Disconnect, Dps!Stop, Stop, Dps!Returns,
     Dps!statics
<1> QED  BY <1>1, <1>2, DpsDialKeeps, DpsConnectReturnsKeeps, DpsAsksKeeps, DpsWaitKeeps,
     DpsPollKeeps DEF Dps!Device

(* The service takes a packet.                                             *)
LEMMA ServiceKeeps ==
  ASSUME DpsKept, Dps!ServiceAnswers
  PROVE  DpsKept'
<1> USE DEF Dps!ServiceAnswers, Dps!dpsVars
<1> DEFINE p == Head(outbox)
<1>1. PICK a \in Dps!Answers(p) :
        /\ inbox' = Append(inbox, a)
        /\ assignment' = IF a.type = "RESPONSE" /\ a.status = 200 THEN a.hub ELSE assignment
  OBVIOUS
<1>2. outbox # <<>> /\ outbox' = Tail(outbox) /\ tcp = "up" /\ tcp' = tcp /\ outbox \in Seq(DpsOut)
  BY DEF DpsKept, DpsWire
<1>3. p \in DpsOut
  BY <1>2, TailFacts
<1>4. assignment \in Hub \cup {NoHub}
  BY DEF DpsKept
<1>5. /\ a \in DpsIn /\ a \in Answering(assignment') /\ assignment' \in Hub \cup {NoHub}
      /\ assignment' = assignment \/ assignment = NoHub
      /\ a \in Responses => p \in Requests
  <2> HIDE DEF p
  <2>1. CASE p.type = "CONNECT"
    <3>1. a \in [type : {"CONNACK"}, code : {0, 5}]
      BY <2>1 DEF Dps!Answers
    <3>2. a \in DpsIn /\ a.type = "CONNACK"
      BY <3>1 DEF DpsIn
    <3> QED  BY <3>2, <1>1, <1>4 DEF Answering, Responses
  <2>2. CASE p.type \in {"SUBSCRIBE", "PINGREQ"}
    <3>1. a \in {Packet("SUBACK"), Packet("PINGRESP")}
      BY <2>2 DEF Dps!Answers, Dps!Packet, Packet
    <3>2. a \in DpsIn /\ a.type \in {"SUBACK", "PINGRESP"}
      BY <3>1 DEF DpsIn, Packet
    <3> QED  BY <3>2, <1>1, <1>4 DEF Answering, Responses
  <2>3. CASE p.type \notin {"CONNECT", "SUBSCRIBE", "PINGREQ"}
    <3> USE <2>3
    <3> p \in Requests
      BY <1>3, DpsPackets
    <3>1. CASE a \in {Dps!Response(s, r, NoHub) : s \in {202, 429}, r \in BOOLEAN}
      <4>1. PICK s \in {202, 429}, r \in BOOLEAN : a = Dps!Response(s, r, NoHub)
        BY <3>1
      <4>2. a.type = "RESPONSE" /\ a.status = s /\ a \in DpsIn
        BY <4>1 DEF Dps!Response, DpsIn
      <4> QED  BY <4>2, <1>1, <1>4 DEF Answering
    <3>2. CASE a \in {Dps!Response(200, r, h) :
                        r \in BOOLEAN, h \in IF assignment = NoHub THEN Hub ELSE {assignment}}
      <4>1. PICK r \in BOOLEAN, h \in IF assignment = NoHub THEN Hub ELSE {assignment} :
              a = Dps!Response(200, r, h)
        BY <3>2
      <4>2. h # NoHub /\ h \in Hub \cup {NoHub} /\ (assignment = NoHub \/ h = assignment)
        BY <1>4, HubAssumption
      <4>3. a.type = "RESPONSE" /\ a.status = 200 /\ a.hub = h /\ a \in DpsIn
        BY <4>1, <4>2 DEF Dps!Response, DpsIn
      <4> QED  BY <4>2, <4>3, <1>1 DEF Answering
    <3> QED  BY <3>1, <3>2 DEF Dps!Answers
  <2> QED  BY <2>1, <2>2, <2>3
<1>6. /\ DpsWire(inbox', outbox', assignment')
      /\ NoRequest(inbox, outbox) => NoRequest(inbox', outbox')
  <2> HIDE DEF p
  <2>1. a \in Responses => Head(outbox) \in Requests
    BY <1>5 DEF p
  <2> QED  BY <1>1, <1>2, <1>5, <2>1, DpsServes DEF DpsKept
<1> QED  BY <1>2, <1>5, <1>6 DEF DpsKept

(* The network loses the connection.                                       *)
LEMMA DpsNetworkKeeps ==
  ASSUME DpsKept, Dps!Network
  PROVE  DpsKept' /\ tcp # "down"
<1> USE DEF Dps!Network, Dps!dpsVars
<1>1. CASE Dps!PeerVanishes
  <2>1. 0 \in 0 .. Len(inbox)
    BY DEF DpsKept, DpsWire
  <2>2. DpsWire(inbox, <<>>, assignment) /\ (NoRequest(inbox, outbox) => NoRequest(inbox, <<>>))
    BY <2>1, DpsLoses DEF DpsKept
  <2> QED  BY <1>1, <2>2 DEF Dps!PeerVanishes, DpsKept
<1>2. CASE Dps!ConnectionResets
  <2>1. PICK n \in 0 .. Len(inbox) : inbox' = SubSeq(inbox, 1, n)
    BY <1>2 DEF Dps!ConnectionResets
  <2>2. DpsWire(inbox', <<>>, assignment) /\ (NoRequest(inbox, outbox) => NoRequest(inbox', <<>>))
    BY <2>1, DpsLoses DEF DpsKept
  <2> QED  BY <1>2, <2>2 DEF Dps!ConnectionResets, DpsKept
<1> QED  BY <1>1, <1>2

-----------------------------------------------------------------------------
(* The steps of AzureIoT that belong to the registration.                  *)

(* While the device registers, the invariant is the one of the            *)
(* provisioning connection, and an open connection leads there.            *)
LEMMA InvGivesKept ==
  ASSUME IInv, registering
  PROVE  DpsKept /\ (tcp # "down" => server = "dps")
BY DEF IInv, WireInv, ConnectionInv, RequestInv, DpsKept

(* A step of the registration, of the provisioning service or of their     *)
(* connection leaves the hub's part of the invariant alone and keeps its.  *)
LEMMA RegistrationSteps ==
  ASSUME IInv, \/ Registers \/ Spins \/ ServiceServes \/ DpsClock
               \/ registering /\ Dps!Network /\ UNCHANGED <<stage, server, hubOwn>>
  PROVE  IInv'
<1>1. registering /\ DpsKept /\ (tcp # "down" => server = "dps")
  BY InvGivesKept DEF Registers, Spins, ServiceServes, DpsClock
<1>2. UNCHANGED <<stage, hubOwn>>
  BY DEF Registers, Spins, ServiceServes, DpsClock, allVars, vars, hubOwn, mqttVars
<1>3. CASE Registers
  <2>1. DpsKept'
    BY <1>1, <1>3, DeviceKeeps DEF Registers
  <2>2. tcp' # "down" => server' = "dps"
    BY <1>1, <1>3 DEF Registers, Dialling
  <2> QED  BY <1>1, <1>2, <2>1, <2>2, RegistrationKeeps
<1>4. CASE Spins \/ DpsClock
  <2>1. UNCHANGED <<tcp, inbox, outbox, server, dpsPc, s_assigned, s_responseStatus, s_assignedHub,
                    dpsResult, assignment>>
    BY <1>4 DEF Spins, DpsClock, allVars, vars, mqttVars, dpsOwn, Dps!InClock, Dps!OutClock,
       Dps!InTimePasses, Dps!OutTimePasses, Dps!dpsVars
  <2>2. DpsKept'
    BY <1>1, <2>1 DEF DpsKept
  <2> QED  BY <1>1, <1>2, <2>1, <2>2, RegistrationKeeps
<1>5. CASE ServiceServes
  <2>1. DpsKept' /\ tcp' = tcp /\ server' = server
    BY <1>1, <1>5, ServiceKeeps DEF ServiceServes, Dps!ServiceAnswers
  <2> QED  BY <1>1, <1>2, <2>1, RegistrationKeeps
<1>6. CASE registering /\ Dps!Network /\ UNCHANGED <<stage, server, hubOwn>>
  <2>1. DpsKept' /\ tcp # "down" /\ server' = server
    BY <1>1, <1>6, DpsNetworkKeeps
  <2> QED  BY <1>1, <1>2, <2>1, RegistrationKeeps
<1> QED  BY <1>3, <1>4, <1>5, <1>6

(* azureIoTInit begins.                                                    *)
LEMMA InitRegistersKeeps ==
  ASSUME IInv, InitRegisters
  PROVE  IInv'
<1>1. /\ ~registering /\ registering' = TRUE /\ ~isInitialized /\ isInitialized' = isInitialized
      /\ DpsFresh /\ pc = "sketch" /\ _state = "DISCONNECTED" /\ tcp = "down"
      /\ UNCHANGED <<vars, server, dpsOwn>>
  BY DEF IInv, StageInv, ConnectionInv, InitRegisters
<1>2. inbox' = <<>> /\ outbox' = <<>>
  BY <1>1 DEF IInv, WireInv, vars, mqttVars
<1>3. WireInv'
  BY <1>1, <1>2, DpsEmpty DEF IInv, WireInv, vars, mqttVars, hubVars
<1>4. StageInv' /\ ConnectionInv'
  BY <1>1 DEF StageInv, ConnectionInv, vars, mqttVars, hubVars
<1>5. RequestInv'
  BY <1>1, <1>2, DpsEmpty DEF RequestInv, DpsFresh, dpsOwn
<1>6. SubscribedInv' /\ TwinInv'
  BY <1>1 DEF IInv, SubscribedInv, TwinInv, vars, others
<1> QED  BY <1>3, <1>4, <1>5, <1>6 DEF IInv

(* azureIoTInit returns.                                                   *)
LEMMA InitReturnsKeeps ==
  ASSUME IInv, InitReturns
  PROVE  IInv'
<1>1. /\ registering /\ registering' = FALSE /\ ~isInitialized
      /\ pc = "sketch" /\ _state = "DISCONNECTED" /\ tcp = "down"
      /\ UNCHANGED <<vars, server>> /\ DpsFresh'
  BY DEF IInv, StageInv, ConnectionInv, InitReturns, DpsFresh
<1>2. inbox' = <<>> /\ outbox' = <<>>
  BY <1>1 DEF IInv, WireInv, vars, mqttVars
<1>3. WireInv'
  BY <1>1, <1>2, HubEmpty DEF IInv, WireInv, vars, mqttVars, hubVars
<1>4. StageInv' /\ ConnectionInv' /\ RequestInv'
  BY <1>1 DEF StageInv, ConnectionInv, RequestInv, vars, mqttVars, hubVars
<1>5. SubscribedInv' /\ TwinInv'
  BY <1>1, <1>2, HubEmpty DEF IInv, SubscribedInv, TwinInv, vars, mqttVars, hubVars, others
<1> QED  BY <1>3, <1>4, <1>5 DEF IInv

-----------------------------------------------------------------------------
(* The steps of the hub's part.                                            *)

(* What such a step has to keep.                                           *)
PlaceKept ==
  /\ tcp = "down" => inbox = <<>> /\ outbox = <<>>
  /\ twinRequestId \in Nat /\ topic \in 0 .. 3 /\ back \in {"sketch", "loop"}
  /\ twinGetPending \in BOOLEAN
  /\ pc \in {"sketch", "loop"} => (tcp # "down" <=> _state = "CONNECTED")
  /\ pc = "dial" /\ tcp # "down" => _state = "CONNECTED"
  /\ pc = "connack" => tcp # "down" /\ _state # "CONNECTED"
  /\ pc = "subscribe" => tcp # "down" /\ _state = "CONNECTED"
Greeted ==
  /\ pc = "connack" => /\ subscribed = {}
                       /\ outbox = <<>> \/ (outbox = <<Packet("CONNECT")>> /\ inbox = <<>>)
  /\ pc # "connack" => None(outbox, Connect)
Reaches(n) == Topics[n] \in subscribed \/ ~None(outbox, SubscribeTo(n))
SubscribedKept == tcp = "up" /\ _state = "CONNECTED" /\ ~deaf => \A n \in 1 .. Made : Reaches(n)
TwinKept ==
  ~overlapped => /\ twin = granted /\ OneTwin(inbox, outbox)
                 /\ twinGetPending = FALSE => NoTwin(inbox, outbox)
HubKept == HubWire(inbox, outbox) /\ PlaceKept /\ Greeted /\ SubscribedKept /\ TwinKept

(* Once the registration is over, the invariant is the one of the hub's    *)
(* connection, and an open connection leads to the hub.                    *)
LEMMA InvGivesHubKept ==
  ASSUME IInv, ~registering
  PROVE  HubKept /\ (tcp # "down" => server = "hub")
BY DEF IInv, WireInv, ConnectionInv, SubscribedInv, TwinInv, HubKept, PlaceKept, Greeted, Reaches,
       SubscribedKept, TwinKept

(* Conversely, what is kept on the hub's connection gives the invariant.   *)
LEMMA HubKeeps ==
  ASSUME IInv, isInitialized, UNCHANGED <<isInitialized, registering, dpsOwn>>,
         HubKept', tcp' # "down" => server' = "hub"
  PROVE  IInv'
<1>1. ~registering /\ registering' = registering /\ isInitialized'
  BY DEF IInv, StageInv
<1>2. WireInv' /\ ConnectionInv'
  BY <1>1 DEF WireInv, ConnectionInv, HubKept, PlaceKept
<1>3. StageInv'
  BY <1>1 DEF IInv, StageInv, DpsFresh, dpsOwn
<1>4. RequestInv'
  BY <1>1 DEF RequestInv
<1>5. SubscribedInv'
  BY <1>1 DEF SubscribedInv, HubKept, Greeted, SubscribedKept, Reaches
<1>6. TwinInv'
  BY <1>1 DEF TwinInv, HubKept, TwinKept
<1> QED  BY <1>2, <1>3, <1>4, <1>5, <1>6 DEF IInv

(* A call that closes the connection.                                      *)
LEMMA HubStopKeeps ==
  ASSUME HubKept, Stop, _state' # "CONNECTED", pc' \in {"sketch", "dial", "loop"},
         UNCHANGED <<topic, back, twinRequestId, twinGetPending, overlapped, twin, granted>>
  PROVE  HubKept'
<1> USE DEF HubKept, Stop
<1>1. HubWire(inbox', outbox') /\ PlaceKept'
  BY HubEmpty DEF PlaceKept
<1>2. Greeted' /\ SubscribedKept'
  BY HubEmpty DEF Greeted, SubscribedKept
<1>3. TwinKept'
  BY HubEmpty DEF TwinKept
<1> QED  BY <1>1, <1>2, <1>3

(* A step that only moves on, or changes times and attempts.               *)
LEMMA HubMovesKeeps ==
  ASSUME HubKept,
         UNCHANGED <<tcp, inbox, outbox, twinRequestId, twinGetPending, subscribed, deaf, granted,
                     twin, overlapped>>,
         pc \in {"sketch", "dial", "subscribe", "loop"}, pc' \in {"sketch", "dial", "loop"},
         pc = "subscribe" => topic = 3,
         topic' \in 0 .. 3, back' \in {"sketch", "loop"}, _state' = StateSeen \/ _state' = _state,
         \/ pc' = "dial"
         \/ pc = "dial" /\ _state' = StateSeen
         \/ pc \in {"sketch", "loop", "subscribe"}
  PROVE  HubKept'
<1> USE DEF HubKept
<1>1. _state' = "CONNECTED" => _state = "CONNECTED"
  BY DEF StateSeen
<1>2. PlaceKept'
  <2>1. tcp # "down" => (_state' = "CONNECTED" <=> _state = "CONNECTED")
    BY DEF StateSeen
  <2>2. tcp = "down" /\ _state' = "CONNECTED" => pc' = "dial"
    BY DEF PlaceKept, StateSeen
  <2>3. tcp # "down" => _state = "CONNECTED"
    BY DEF PlaceKept
  <2>4. pc' \notin {"connack", "subscribe"}
    OBVIOUS
  <2> QED  BY <2>1, <2>2, <2>3, <2>4 DEF PlaceKept
<1>3. Greeted'
  BY DEF Greeted
<1>4. SubscribedKept'
  BY <1>1 DEF SubscribedKept, Made, Reaches
<1>5. TwinKept'
  BY DEF TwinKept
<1> QED  BY <1>2, <1>3, <1>4, <1>5

(* The steps that only move on.                                            *)
LEMMA HubMoves ==
  ASSUME HubKept, SketchConnects \/ GiveUp \/ Subscribed \/ LoopCheck
  PROVE  HubKept'
<1> USE DEF mqttVars, others
<1>1. back \in {"sketch", "loop"} /\ topic \in 0 .. 3
  BY DEF HubKept, PlaceKept
<1>2. CASE SketchConnects
  BY <1>1, <1>2, HubMovesKeeps DEF SketchConnects
<1>3. CASE GiveUp
  BY <1>1, <1>3, HubMovesKeeps DEF GiveUp, Returns
<1>4. CASE Subscribed
  <2>1. Len(Topics) = 3
    BY DEF Topics
  <2> QED  BY <1>1, <1>4, <2>1, HubMovesKeeps DEF Subscribed, Returns
<1>5. CASE LoopCheck
  BY <1>1, <1>5, HubMovesKeeps DEF LoopCheck
<1> QED  BY <1>2, <1>3, <1>4, <1>5

(* A new connection begins with CONNECT.                                   *)
LEMMA HubDials ==
  ASSUME HubKept, Dial
  PROVE  HubKept'
<1> USE DEF Dial
<1>1. tcp = "down" /\ inbox = <<>> /\ outbox = <<>>
  BY DEF HubKept, PlaceKept, ConnectSends, ConnectFails, Connected
<1>2. CASE ConnectFails /\ UNCHANGED pc
  <2> USE <1>2 DEF ConnectFails, HubKept
  <2>1. PlaceKept'
    BY DEF PlaceKept
  <2>2. Greeted' /\ SubscribedKept' /\ TwinKept'
    BY DEF Greeted, SubscribedKept, TwinKept
  <2> QED  BY <2>1, <2>2
<1>3. CASE ConnectSends /\ pc' = "connack" /\ subscribed' = {}
  <2> DEFINE p == Packet("CONNECT")
  <2>1. outbox' = Append(outbox, p) /\ inbox' = inbox /\ tcp' = "up"
    BY <1>1, <1>3 DEF ConnectSends
  <2>2. outbox' = <<p>>
    BY <1>1, <2>1
  <2>3. p \in HubMessage /\ p \notin TwinRequests
    BY HubPackets
  <2> HIDE DEF p
  <2>4. /\ HubWire(inbox', outbox')
        /\ OneTwin(inbox, outbox) => OneTwin(inbox', outbox')
        /\ NoTwin(inbox, outbox) => NoTwin(inbox', outbox')
    BY <2>1, <2>3, HubQueues DEF HubKept
  <2>5. PlaceKept'
    BY <1>1, <1>3, <2>1 DEF HubKept, PlaceKept, ConnectSends, StateSeen
  <2>6. Greeted'
    BY <1>1, <1>3, <2>1, <2>2 DEF Greeted, p
  <2>7. _state' # "CONNECTED"
    BY <1>1, <1>3 DEF ConnectSends, StateSeen
  <2>8. SubscribedKept'
    BY <2>7 DEF SubscribedKept
  <2>9. TwinKept'
    BY <2>4 DEF HubKept, TwinKept
  <2> QED  BY <2>4, <2>5, <2>6, <2>8, <2>9 DEF HubKept
<1> QED  BY <1>1, <1>2, <1>3

(* The answer to CONNECT.                                                  *)
LEMMA HubConnects ==
  ASSUME HubKept, ConnectReturns
  PROVE  HubKept'
<1> USE DEF ConnectReturns
<1>1. _state # "CONNECTED" /\ tcp # "down" /\ (inbox # <<>> => outbox = <<>>)
  BY DEF HubKept, PlaceKept, Greeted
<1>2. CASE (ConnectRefused \/ ConnectTorn \/ ConnectTimesOut) /\ pc' = "dial" /\ UNCHANGED topic
  <2>1. pc' = "dial" /\ UNCHANGED <<topic, back, twinRequestId, twinGetPending, overlapped, twin, granted>>
    BY <1>2
  <2>2. Stop /\ _state' # "CONNECTED"
    BY <1>1, <1>2 DEF ConnectRefused, ConnectTorn, ConnectTimesOut
  <2> QED  BY <2>1, <2>2, HubStopKeeps
<1>3. CASE ConnectAccepted /\ pc' = "subscribe" /\ topic' = 0
  <2> USE <1>3 DEF ConnectAccepted
  <2>1. outbox' = <<>> /\ inbox' = Tail(inbox) /\ outbox = <<>>
    BY <1>1
  <2>2. /\ HubWire(inbox', outbox')
        /\ OneTwin(inbox, outbox) => OneTwin(inbox', outbox')
        /\ NoTwin(inbox, outbox) => NoTwin(inbox', outbox')
    BY <2>1, HubGives DEF HubKept
  <2>3. PlaceKept'
    BY <1>1, <2>1 DEF HubKept, PlaceKept
  <2>4. Greeted' /\ SubscribedKept'
    BY <2>1, HubEmpty DEF Greeted, SubscribedKept, Made
  <2>5. TwinKept'
    BY <2>2 DEF HubKept, TwinKept
  <2> QED  BY <2>2, <2>3, <2>4, <2>5 DEF HubKept
<1> QED  BY <1>2, <1>3

(* One more topic.                                                         *)
LEMMA HubSubscribes ==
  ASSUME HubKept, Subscribe
  PROVE  HubKept'
<1> USE DEF Subscribe
<1> DEFINE p == [type |-> "SUBSCRIBE", topic |-> Topics[topic + 1]]
<1>1. topic + 1 \in 1 .. 3 /\ topic \in 0 .. 2 /\ topic' = topic + 1
  BY DEF HubKept, PlaceKept, Topics
<1>2. PlaceKept'
  BY <1>1 DEF HubKept, PlaceKept, WriteDone, WriteFails, Connected
<1>3. inbox' = inbox /\ pc' = "subscribe" /\ tcp' = tcp /\ _state' = _state /\ subscribed' = subscribed
  OBVIOUS
<1>4. CASE WriteFails /\ deaf' = TRUE
  <2>1. outbox' = outbox
    BY <1>4 DEF WriteFails
  <2> QED  BY <1>2, <1>3, <1>4, <2>1 DEF HubKept, Greeted, SubscribedKept, TwinKept
<1>5. CASE WriteDone(p) /\ deaf' = deaf
  <2>1. outbox' = IF tcp = "up" THEN Append(outbox, p) ELSE outbox
    BY <1>5 DEF WriteDone, Sent
  <2>2. p \in HubMessage /\ p \in SubscribeTo(topic + 1) /\ p \notin TwinRequests /\ p \notin Connect
    BY <1>1, HubPackets
  <2> HIDE DEF p
  <2>3. /\ HubWire(inbox', outbox')
        /\ OneTwin(inbox, outbox) => OneTwin(inbox', outbox')
        /\ NoTwin(inbox, outbox) => NoTwin(inbox', outbox')
        /\ None(outbox, Connect) => None(outbox', Connect)
    BY <1>3, <2>1, <2>2, HubQueues DEF HubKept
  <2>4. Greeted'
    BY <1>3, <2>3 DEF HubKept, Greeted
  <2>5. TwinKept'
    BY <2>3 DEF HubKept, TwinKept
  <2>6. SubscribedKept'
    <3>1. SUFFICES ASSUME tcp = "up", _state = "CONNECTED", ~deaf, NEW n \in 1 .. topic + 1
                   PROVE  Topics[n] \in subscribed \/ ~None(outbox', SubscribeTo(n))
      BY <1>1, <1>3, <1>5 DEF SubscribedKept, Reaches, Made
    <3>2. /\ p \in SubscribeTo(n) \/ ~None(outbox, SubscribeTo(n)) => ~None(outbox', SubscribeTo(n))
      BY <3>1, <2>1, <2>2, HubQueues DEF HubKept
    <3>3. n = topic + 1 \/ n \in 1 .. topic
      BY <1>1
    <3> QED  BY <3>1, <3>2, <3>3, <2>2 DEF HubKept, SubscribedKept, Made, Reaches
  <2> QED  BY <1>2, <2>3, <2>4, <2>5, <2>6 DEF HubKept
<1> QED  BY <1>4, <1>5

-----------------------------------------------------------------------------
(* loop.                                                                   *)

(* The ping it may send.                                                   *)
LEMMA HubPings ==
  ASSUME NEW in, HubWire(in, outbox), LoopPings
  PROVE  /\ HubWire(in, outbox')
         /\ OneTwin(in, outbox) => OneTwin(in, outbox')
         /\ NoTwin(in, outbox) => NoTwin(in, outbox')
         /\ None(outbox, Connect) => None(outbox', Connect)
         /\ \A n : ~None(outbox, SubscribeTo(n)) => ~None(outbox', SubscribeTo(n))
<1>1. Packet("PINGREQ") \in HubMessage /\ Packet("PINGREQ") \notin TwinRequests
      /\ Packet("PINGREQ") \notin Connect
  BY HubPackets
<1> QED  BY <1>1, HubQueues DEF LoopPings, Sent

(* What is left to show of a turn of the loop that keeps the connection.   *)
LEMMA HubLoopKeeps ==
  ASSUME HubKept, pc = "loop", pc' = "sketch", LoopPings, HubWire(inbox', outbox), Connected,
         twinGetPending' \in BOOLEAN, TwinKept',
         UNCHANGED <<tcp, _state, topic, back, twinRequestId, subscribed, deaf>>
  PROVE  HubKept'
<1>1. /\ HubWire(inbox', outbox')
      /\ None(outbox, Connect) => None(outbox', Connect)
      /\ \A n : ~None(outbox, SubscribeTo(n)) => ~None(outbox', SubscribeTo(n))
  BY HubPings
<1>2. PlaceKept'
  BY DEF HubKept, PlaceKept, Connected
<1>3. Greeted'
  BY <1>1 DEF HubKept, Greeted
<1>4. SubscribedKept'
  <2> SUFFICES ASSUME tcp = "up", _state = "CONNECTED", ~deaf, NEW n \in 1 .. 3
               PROVE  Reaches(n)'
    BY DEF SubscribedKept, Made
  <2>1. Reaches(n)
    BY DEF HubKept, SubscribedKept, Made
  <2>2. Topics[n]' = Topics[n] /\ SubscribeTo(n)' = SubscribeTo(n)
    BY DEF Topics, SubscribeTo
  <2> QED  BY <2>1, <2>2, <1>1 DEF Reaches
<1> QED  BY <1>1, <1>2, <1>3, <1>4 DEF HubKept

(* A packet goes to the callback: a full twin finds the flag set.          *)
LEMMA HubCallbackKeeps ==
  ASSUME HubKept, LoopReads(Head(inbox)), Callback(Head(inbox)), UNCHANGED overlapped
  PROVE  TwinKept' /\ twinGetPending' \in BOOLEAN
<1> DEFINE p == Head(inbox)
<1>1. inbox # <<>> /\ inbox' = Tail(inbox) /\ LoopPings
  BY DEF LoopReads
<1>2. /\ HubWire(inbox', outbox) /\ p \in HubMessage
      /\ OneTwin(inbox, outbox) => OneTwin(inbox', outbox)
      /\ NoTwin(inbox, outbox) => NoTwin(inbox', outbox) /\ p \notin FullTwins
      /\ OneTwin(inbox, outbox) /\ p \in FullTwins => NoTwin(inbox', outbox)
  BY <1>1, HubGives DEF HubKept
<1>3. /\ OneTwin(inbox', outbox) => OneTwin(inbox', outbox')
      /\ NoTwin(inbox', outbox) => NoTwin(inbox', outbox')
  BY <1>1, <1>2, HubPings
<1>4. twinGetPending \in BOOLEAN
  BY DEF HubKept, PlaceKept
<1>5. CASE p \in FullTwins
  <2>1. p.type = "TWIN" /\ p.status = 200
    BY <1>5 DEF FullTwins
  <2>2. /\ granted' = p.rid /\ twinGetPending' = FALSE
        /\ twin' = IF twinGetPending THEN p.rid ELSE twin
    BY <2>1 DEF Callback
  <2>3. SUFFICES ASSUME ~overlapped
                 PROVE  twin' = granted' /\ OneTwin(inbox', outbox') /\ NoTwin(inbox', outbox')
    BY <2>2 DEF TwinKept
  <2>4. OneTwin(inbox, outbox) /\ twinGetPending
    BY <1>2, <1>4, <1>5, <2>3 DEF HubKept, TwinKept
  <2> QED  BY <1>2, <1>3, <1>5, <2>2, <2>4
<1>6. CASE p \notin FullTwins
  <2>1. ~(p.type = "TWIN" /\ p.status = 200)
    BY <1>2, <1>6 DEF FullTwins
  <2>2. granted' = granted /\ twinGetPending' = twinGetPending /\ twin' = twin
    BY <2>1, <1>4 DEF Callback
  <2> QED  BY <1>2, <1>3, <1>4, <2>2 DEF HubKept, TwinKept
<1> QED  BY <1>5, <1>6

(* A turn of mqtt_client.loop, the callback it makes included, keeps what  *)
(* the hub's connection keeps: a twin that arrives ends the request.       *)
LEMMA HubLoops ==
  ASSUME HubKept, LoopRun
  PROVE  HubKept'
<1> USE DEF LoopRun
<1>1. pc = "loop" /\ pc' = "sketch" /\ UNCHANGED <<back, topic, twinRequestId, subscribed, deaf, overlapped>>
  OBVIOUS
<1>2. twinGetPending \in BOOLEAN /\ topic \in 0 .. 3 /\ back \in {"sketch", "loop"}
  BY DEF HubKept, PlaceKept
<1>3. CASE LoopIdle /\ UNCHANGED <<twinGetPending, granted, twin>>
  BY <1>1, <1>2, <1>3, HubMovesKeeps DEF LoopIdle, NotConnected
<1>4. CASE (LoopTimesOut \/ LoopKilled) /\ UNCHANGED <<twinGetPending, granted, twin>>
  <2>1. Stop /\ _state' # "CONNECTED"
    BY <1>4 DEF LoopTimesOut, LoopKilled
  <2> QED  BY <1>1, <1>4, <2>1, HubStopKeeps
<1>5. CASE LoopNothing /\ UNCHANGED <<twinGetPending, granted, twin>>
  <2>1. Connected /\ LoopPings /\ inbox' = inbox /\ UNCHANGED <<tcp, _state>>
    BY <1>5 DEF LoopNothing
  <2>2. /\ OneTwin(inbox, outbox) => OneTwin(inbox', outbox')
        /\ NoTwin(inbox, outbox) => NoTwin(inbox', outbox')
    BY <2>1, HubPings DEF HubKept
  <2>3. TwinKept'
    BY <1>1, <1>5, <2>2 DEF HubKept, TwinKept
  <2>4. HubWire(inbox', outbox)
    BY <2>1 DEF HubKept
  <2> QED  BY <1>1, <1>2, <1>5, <2>1, <2>3, <2>4, HubLoopKeeps
<1>6. CASE LoopTorn /\ UNCHANGED <<twinGetPending, granted, twin>>
  <2>1. Connected /\ LoopPings /\ inbox # <<>> /\ inbox' = <<Packet("GARBAGE")>> \o Tail(inbox)
        /\ UNCHANGED <<tcp, _state>>
    BY <1>6 DEF LoopTorn
  <2>2. /\ HubWire(inbox', outbox)
        /\ OneTwin(inbox, outbox) => OneTwin(inbox', outbox)
        /\ NoTwin(inbox, outbox) => NoTwin(inbox', outbox)
    BY <2>1, HubTears DEF HubKept
  <2>3. /\ OneTwin(inbox', outbox) => OneTwin(inbox', outbox')
        /\ NoTwin(inbox', outbox) => NoTwin(inbox', outbox')
    BY <2>1, <2>2, HubPings
  <2>4. TwinKept'
    BY <1>1, <1>6, <2>2, <2>3 DEF HubKept, TwinKept
  <2> QED  BY <1>1, <1>2, <1>6, <2>1, <2>2, <2>4, HubLoopKeeps
<1>7. ASSUME NEW p \in {inbox[i] : i \in DOMAIN inbox}, LoopReads(p), Callback(p)
      PROVE  HubKept'
  <2>1. p = Head(inbox) /\ inbox # <<>> /\ inbox' = Tail(inbox) /\ Connected /\ LoopPings
        /\ UNCHANGED <<tcp, _state>>
    BY <1>7 DEF LoopReads
  <2>2. LoopReads(Head(inbox)) /\ Callback(Head(inbox))
    BY <1>7, <2>1
  <2>3. TwinKept' /\ twinGetPending' \in BOOLEAN
    BY <1>1, <2>2, HubCallbackKeeps
  <2>4. HubWire(inbox', outbox)
    BY <2>1, HubGives DEF HubKept
  <2> QED  BY <1>1, <2>1, <2>3, <2>4, HubLoopKeeps
<1> QED  BY <1>3, <1>4, <1>5, <1>6, <1>7

-----------------------------------------------------------------------------
(* The calls that send: all of it goes out, or nothing.                    *)

(* A packet that is no CONNECT goes out.                                   *)
LEMMA HubWriteKeeps ==
  ASSUME HubKept, NEW p \in HubMessage, p \notin Connect, WriteDone(p), pc = "sketch",
         TwinKept', twinRequestId' \in Nat, twinGetPending' \in BOOLEAN,
         UNCHANGED <<tcp, _state, inbox, pc, topic, back, subscribed, deaf>>
  PROVE  HubKept'
<1>1. /\ HubWire(inbox', outbox')
      /\ None(outbox, Connect) => None(outbox', Connect)
      /\ \A n : ~None(outbox, SubscribeTo(n)) => ~None(outbox', SubscribeTo(n))
  BY HubQueues DEF HubKept, WriteDone, Sent
<1>2. tcp # "down"
  BY DEF WriteDone, Connected
<1>3. PlaceKept' /\ Greeted'
  BY <1>1, <1>2 DEF HubKept, PlaceKept, Greeted
<1>4. SubscribedKept'
  <2> SUFFICES ASSUME tcp = "up", _state = "CONNECTED", ~deaf, NEW n \in 1 .. 3
               PROVE  Reaches(n)'
    BY DEF SubscribedKept, Made
  <2>1. Reaches(n)
    BY DEF HubKept, SubscribedKept, Made
  <2>2. Topics[n]' = Topics[n] /\ SubscribeTo(n)' = SubscribeTo(n)
    BY DEF Topics, SubscribeTo
  <2> QED  BY <2>1, <2>2, <1>1 DEF Reaches
<1> QED  BY <1>1, <1>3, <1>4 DEF HubKept

(* Nothing goes out.                                                       *)
LEMMA HubNoWriteKeeps ==
  ASSUME HubKept, pc = "sketch", TwinKept', twinRequestId' \in Nat, twinGetPending' \in BOOLEAN,
         UNCHANGED <<tcp, _state, inbox, outbox, pc, topic, back, subscribed, deaf>>
  PROVE  HubKept'
BY DEF HubKept, PlaceKept, Greeted, SubscribedKept, Reaches, Made

(* azureIoTRequestTwin.                                                    *)
LEMMA HubRequestsTwin ==
  ASSUME HubKept, RequestTwin
  PROVE  HubKept'
<1> USE DEF RequestTwin
<1> DEFINE p == [type |-> "GET", rid |-> twinRequestId + 1]
<1>1. twinRequestId' \in Nat /\ twinRequestId + 1 \in Nat
  BY DEF HubKept, PlaceKept
<1>2. ~overlapped' => ~overlapped /\ NoTwin(inbox, outbox)
  BY DEF TwinOnItsWay, NoTwin, None, TwinRequests, FullTwins
<1>3. inbox' = inbox /\ pc = "sketch" /\ twin' = twin /\ granted' = granted
      /\ UNCHANGED <<tcp, _state, inbox, pc, topic, back, subscribed, deaf>>
  OBVIOUS
<1>4. CASE WriteDone(p) /\ twinGetPending' = TRUE
  <2>1. p \in HubMessage /\ p \notin Connect
    BY <1>1, HubPackets
  <2> HIDE DEF p
  <2>2. NoTwin(inbox, outbox) => OneTwin(inbox', outbox')
    <3>1. NoTwin(inbox, outbox) => OneTwin(inbox, Append(outbox, p)) /\ OneTwin(inbox, outbox)
      BY <2>1, HubQueues, NoneIsAtMostOne DEF HubKept, NoTwin, OneTwin
    <3> QED  BY <1>3, <1>4, <3>1 DEF WriteDone, Sent
  <2>3. TwinKept'
    BY <1>2, <1>3, <1>4, <2>2 DEF HubKept, TwinKept
  <2> QED  BY <1>1, <1>3, <1>4, <2>1, <2>3, HubWriteKeeps
<1>5. CASE WriteFails /\ twinGetPending' = FALSE
  <2>1. outbox' = outbox
    BY <1>5 DEF WriteFails
  <2>2. TwinKept'
    BY <1>2, <1>3, <1>5, <2>1 DEF HubKept, TwinKept
  <2> QED  BY <1>1, <1>3, <1>5, <2>1, <2>2, HubNoWriteKeeps
<1> QED  BY <1>4, <1>5

(* azureIoTUpdateReportedProperties and azureIoTSendTelemetry.             *)
LEMMA HubReports ==
  ASSUME HubKept, UpdateReported \/ SendTelemetry
  PROVE  HubKept'
<1>1. /\ pc = "sketch" /\ twin' = twin /\ granted' = granted /\ overlapped' = overlapped
      /\ twinGetPending' = twinGetPending
      /\ UNCHANGED <<tcp, _state, inbox, pc, topic, back, subscribed, deaf>>
  BY DEF UpdateReported, SendTelemetry, hubVars
<1>2. twinRequestId' \in Nat /\ twinRequestId + 1 \in Nat /\ twinGetPending \in BOOLEAN
  BY DEF HubKept, PlaceKept, UpdateReported, SendTelemetry, hubVars
<1>3. ASSUME NEW p \in HubMessage, p \notin Connect, p \notin TwinRequests, WriteDone(p)
      PROVE  HubKept'
  <2>1. /\ OneTwin(inbox, outbox) => OneTwin(inbox', outbox')
        /\ NoTwin(inbox, outbox) => NoTwin(inbox', outbox')
    BY <1>1, <1>3, HubQueues DEF HubKept, WriteDone, Sent
  <2>2. TwinKept'
    BY <1>1, <2>1 DEF HubKept, TwinKept
  <2> QED  BY <1>1, <1>2, <1>3, <2>2, HubWriteKeeps
<1>4. CASE WriteFails
  <2>1. outbox' = outbox
    BY <1>4 DEF WriteFails
  <2>2. TwinKept'
    BY <1>1, <2>1 DEF HubKept, TwinKept
  <2> QED  BY <1>1, <1>2, <2>1, <2>2, HubNoWriteKeeps
<1>5. CASE WriteDone([type |-> "PATCH", rid |-> twinRequestId + 1])
  BY <1>2, <1>3, <1>5, HubPackets
<1>6. CASE WriteDone(Packet("TELEMETRY"))
  BY <1>3, <1>6, HubPackets
<1> QED  BY <1>4, <1>5, <1>6 DEF UpdateReported, SendTelemetry

-----------------------------------------------------------------------------
(* The hub, and the network.                                               *)

(* What a packet from or to the hub changes, but for the wire.             *)
LEMMA HubSideKeeps ==
  ASSUME HubKept, tcp = "up", HubWire(inbox', outbox'), Greeted', SubscribedKept',
         OneTwin(inbox, outbox) => OneTwin(inbox', outbox'),
         NoTwin(inbox, outbox) => NoTwin(inbox', outbox'),
         UNCHANGED <<tcp, _state, hubVars, granted, twin, overlapped>>
  PROVE  HubKept'
<1>1. PlaceKept'
  BY DEF HubKept, PlaceKept, hubVars
<1>2. TwinKept'
  BY DEF HubKept, TwinKept, hubVars
<1> QED  BY <1>1, <1>2 DEF HubKept

(* The hub takes the next packet.                                          *)
LEMMA HubAnswersKeeps ==
  ASSUME HubKept, HubAnswers
  PROVE  HubKept'
<1> USE DEF HubAnswers
<1> DEFINE p == Head(outbox)
<1>1. PICK a \in Answers(p) :
        inbox' = IF p.type \in {"GET", "PATCH"} /\ "twin/res" \notin subscribed
                   THEN inbox ELSE inbox \o a
  OBVIOUS
<1>2. /\ outbox # <<>> /\ outbox' = Tail(outbox) /\ tcp = "up"
      /\ UNCHANGED <<tcp, _state, hubVars, granted, twin, overlapped, deaf>>
  OBVIOUS
<1>3. /\ HubWire(inbox, Tail(outbox)) /\ p \in HubMessage
      /\ OneTwin(inbox, outbox) => OneTwin(inbox, Tail(outbox))
      /\ NoTwin(inbox, outbox) => NoTwin(inbox, Tail(outbox))
      /\ None(outbox, Connect) => None(Tail(outbox), Connect) /\ p \notin Connect
      /\ \A n : ~None(outbox, SubscribeTo(n)) =>
                  p \in SubscribeTo(n) \/ ~None(Tail(outbox), SubscribeTo(n))
  BY <1>2, HubDrops DEF HubKept
<1>4. subscribed' = CASE p.type = "CONNECT" -> {}
                      [] p.type = "SUBSCRIBE" -> subscribed \cup {p.topic}
                      [] OTHER -> subscribed
  OBVIOUS
<1> HIDE DEF p
<1>5. a = <<>> \/ \E m \in HubMessage : a = <<m>> /\ (m \in FullTwins => p \in TwinRequests)
  <2>1. CASE p.type = "CONNECT"
    <3>1. PICK c \in {0, 5} : a = <<[type |-> "CONNACK", code |-> c]>>
      BY <2>1, <1>1 DEF Answers
    <3> QED  BY <3>1, HubPackets
  <2>2. CASE p.type = "SUBSCRIBE"
    <3>1. a = <<Packet("SUBACK")>>
      BY <2>2, <1>1 DEF Answers
    <3> QED  BY <3>1, HubPackets
  <2>3. CASE p.type = "PINGREQ"
    <3>1. a = <<Packet("PINGRESP")>>
      BY <2>3, <1>1 DEF Answers
    <3> QED  BY <3>1, HubPackets
  <2>4. CASE p.type = "GET"
    <3>1. PICK c \in {200, 429} : a = <<TwinAnswer(c, p.rid)>>
      BY <2>4, <1>1 DEF Answers, TwinAnswer
    <3>2. p.rid \in Nat /\ p \in TwinRequests
      BY <1>3, <2>4 DEF HubMessage, TwinRequests
    <3>3. c \in {200, 204, 429}
      OBVIOUS
    <3> QED  BY <3>1, <3>2, <3>3, TwinPacket
  <2>5. CASE p.type = "PATCH"
    <3>1. a = <<TwinAnswer(204, p.rid)>>
      BY <2>5, <1>1 DEF Answers, TwinAnswer
    <3>2. p.rid \in Nat
      BY <1>3, <2>5 DEF HubMessage
    <3>3. 204 \in {200, 204, 429} /\ 204 # 200
      OBVIOUS
    <3> QED  BY <3>1, <3>2, <3>3, TwinPacket
  <2>6. CASE p.type \notin {"CONNECT", "SUBSCRIBE", "PINGREQ", "GET", "PATCH"}
    BY <2>6, <1>1 DEF Answers
  <2> QED  BY <2>1, <2>2, <2>3, <2>4, <2>5, <2>6
<1>6. /\ HubWire(inbox', outbox')
      /\ OneTwin(inbox, outbox) => OneTwin(inbox', outbox')
      /\ NoTwin(inbox, outbox) => NoTwin(inbox', outbox')
  <2>1. CASE inbox' = inbox
    BY <2>1, <1>2, <1>3
  <2>2. CASE inbox' = inbox \o a
    <3>1. inbox \in Seq(HubMessage)
      BY DEF HubKept, HubWire
    <3>2. CASE a = <<>>
      <4>1. inbox' = inbox
        BY <2>2, <3>1, <3>2
      <4> QED  BY <2>1, <4>1
    <3>3. CASE \E m \in HubMessage : a = <<m>> /\ (m \in FullTwins => p \in TwinRequests)
      <4>1. PICK m \in HubMessage : a = <<m>> /\ (m \in FullTwins => p \in TwinRequests)
        BY <3>3
      <4>2. inbox' = Append(inbox, m)
        BY <2>2, <3>1, <4>1
      <4> QED  BY <1>2, <4>1, <4>2, HubReplies DEF HubKept, p
    <3> QED  BY <1>5, <3>2, <3>3
  <2> QED  BY <1>1, <2>1, <2>2
<1>7. Greeted'
  <2>1. pc' = pc
    BY <1>2 DEF hubVars
  <2>2. CASE pc = "connack"
    <3>1. outbox = <<Packet("CONNECT")>> /\ inbox = <<>> /\ subscribed = {}
      BY <1>2, <2>2 DEF HubKept, Greeted
    <3>2. outbox' = <<>> /\ p.type = "CONNECT"
      BY <1>2, <3>1 DEF p, Packet
    <3> QED  BY <1>4, <2>1, <2>2, <3>2 DEF Greeted
  <2>3. CASE pc # "connack"
    BY <1>2, <1>3, <2>1, <2>3 DEF HubKept, Greeted
  <2> QED  BY <2>2, <2>3
<1>8. SubscribedKept'
  <2> SUFFICES ASSUME _state = "CONNECTED", ~deaf, NEW n \in 1 .. Made
               PROVE  Reaches(n)'
    BY <1>2 DEF SubscribedKept, Made, hubVars
  <2>1. Reaches(n)
    BY <1>2 DEF HubKept, SubscribedKept
  <2>2. pc # "connack"
    BY DEF HubKept, PlaceKept
  <2>3. None(outbox, Connect)
    BY <2>2 DEF HubKept, Greeted
  <2>4. p.type # "CONNECT"
    <3>1. p \notin Connect
      BY <1>3, <2>3
    <3>2. p.type = "CONNECT" => p = Packet("CONNECT")
      BY <1>3 DEF HubMessage, Packet
    <3> QED  BY <3>1, <3>2 DEF Connect
  <2>5. subscribed \subseteq subscribed'
    BY <1>4, <2>4
  <2>6. p \in SubscribeTo(n) => Topics[n] \in subscribed'
    <3>1. p \in SubscribeTo(n) => p.type = "SUBSCRIBE" /\ p.topic = Topics[n]
      BY DEF SubscribeTo
    <3>2. p.type = "SUBSCRIBE" => subscribed' = subscribed \cup {p.topic}
      BY <1>4
    <3> QED  BY <3>1, <3>2
  <2>7. Topics[n] \in subscribed' \/ ~None(outbox', SubscribeTo(n))
    BY <1>2, <1>3, <2>1, <2>5, <2>6 DEF Reaches
  <2>8. Topics[n]' = Topics[n] /\ SubscribeTo(n)' = SubscribeTo(n)
    BY DEF Topics, SubscribeTo
  <2> QED  BY <2>7, <2>8 DEF Reaches
<1> QED  BY <1>2, <1>6, <1>7, <1>8, HubSideKeeps

(* The hub sends of itself.                                                *)
LEMMA HubSendsKeeps ==
  ASSUME HubKept, HubSends
  PROVE  HubKept'
<1> USE DEF HubSends
<1>1. /\ outbox' = outbox /\ inbox' = Append(inbox, Packet("PUBLISH")) /\ tcp = "up"
      /\ subscribed # {}
      /\ UNCHANGED <<tcp, _state, hubVars, granted, twin, overlapped, deaf, subscribed>>
  BY DEF others
<1>2. Packet("PUBLISH") \in HubMessage /\ Packet("PUBLISH") \notin FullTwins
  BY HubPackets
<1>3. /\ HubWire(inbox', outbox')
      /\ OneTwin(inbox, outbox) => OneTwin(inbox', outbox')
      /\ NoTwin(inbox, outbox) => NoTwin(inbox', outbox')
  BY <1>1, <1>2, HubDelivers DEF HubKept
<1>4. Greeted' /\ SubscribedKept'
  BY <1>1 DEF HubKept, Greeted, SubscribedKept, Reaches, Made, hubVars
<1> QED  BY <1>1, <1>3, <1>4, HubSideKeeps

(* The hub refuses a connection made with an old token.                    *)
LEMMA HubRefusesKeeps ==
  ASSUME HubKept, HubRefuses
  PROVE  HubKept'
<1> USE DEF HubRefuses, AtHub
<1> DEFINE a == [type |-> "CONNACK", code |-> 5]
<1>1. /\ outbox # <<>> /\ Head(outbox).type = "CONNECT" /\ outbox' = Tail(outbox) /\ tcp = "up"
      /\ UNCHANGED <<tcp, _state, hubVars, granted, twin, overlapped, deaf, subscribed>>
  BY DEF others
<1>2. inbox' = Append(inbox, a) /\ a \in HubMessage /\ a \notin FullTwins
  BY HubPackets
<1> HIDE DEF a
<1>3. /\ HubWire(inbox', outbox')
      /\ OneTwin(inbox, outbox) => OneTwin(inbox', outbox')
      /\ NoTwin(inbox, outbox) => NoTwin(inbox', outbox')
  BY <1>1, <1>2, HubReplies DEF HubKept
<1>4. Head(outbox) \in HubMessage /\ (None(outbox, Connect) => Head(outbox) \notin Connect)
  BY <1>1, HubDrops DEF HubKept
<1>5. Head(outbox) = Packet("CONNECT")
  BY <1>1, <1>4 DEF HubMessage, Packet
<1>6. pc = "connack"
  BY <1>4, <1>5 DEF HubKept, Greeted, Connect
<1>7. outbox = <<Packet("CONNECT")>> /\ subscribed = {}
  BY <1>1, <1>6 DEF HubKept, Greeted
<1>8. outbox' = <<>>
  BY <1>1, <1>7
<1>9. Greeted'
  BY <1>1, <1>6, <1>7, <1>8 DEF Greeted, hubVars
<1>10. SubscribedKept'
  BY <1>1, <1>6 DEF HubKept, PlaceKept, SubscribedKept
<1> QED  BY <1>1, <1>3, <1>9, <1>10, HubSideKeeps

(* The connection is lost.                                                 *)
LEMMA HubLossKeeps ==
  ASSUME HubKept, tcp # "down", tcp' \in {"gone", "reset"}, outbox' = <<>>,
         inbox' = inbox \/ \E n \in 0 .. Len(inbox) : inbox' = SubSeq(inbox, 1, n),
         pc = "connack" => subscribed' = {},
         UNCHANGED <<_state, hubVars, granted, twin, overlapped>>
  PROVE  HubKept'
<1>1. /\ HubWire(inbox', outbox')
      /\ OneTwin(inbox, outbox) => OneTwin(inbox', outbox')
      /\ NoTwin(inbox, outbox) => NoTwin(inbox', outbox')
  <2>1. CASE inbox' = inbox
    <3>1. 0 \in 0 .. Len(inbox)
      BY DEF HubKept, HubWire
    <3> QED  BY <2>1, <3>1, HubLoses DEF HubKept
  <2>2. CASE \E n \in 0 .. Len(inbox) : inbox' = SubSeq(inbox, 1, n)
    BY <2>2, HubLoses DEF HubKept
  <2> QED  BY <2>1, <2>2
<1>2. PlaceKept'
  BY DEF HubKept, PlaceKept, hubVars
<1>3. Greeted' /\ SubscribedKept'
  BY HubEmpty DEF HubKept, Greeted, SubscribedKept, hubVars
<1>4. TwinKept'
  BY <1>1 DEF HubKept, TwinKept, hubVars
<1> QED  BY <1>1, <1>2, <1>3, <1>4 DEF HubKept

-----------------------------------------------------------------------------
(* The steps of AzureIoT that belong to the hub.                           *)

(* A step the sketch or the MQTT library takes on the hub's connection.    *)
LEMMA DeviceSteps ==
  ASSUME IInv, SketchCalls \/ Loops \/ Works
  PROVE  IInv'
<1> USE DEF SketchCalls, Loops, Works, OnHub
<1>1. /\ isInitialized /\ Dialling("hub") /\ UNCHANGED <<stage, dpsOwn>>
      /\ SketchConnects \/ RequestTwin \/ UpdateReported \/ SendTelemetry \/ LoopCheck \/ Library
  OBVIOUS
<1>2. ~registering
  BY <1>1 DEF IInv, StageInv
<1>3. HubKept /\ (tcp # "down" => server = "hub")
  BY <1>2, InvGivesHubKept
<1>4. HubKept'
  BY <1>1, <1>3, HubMoves, HubDials, HubConnects, HubSubscribes, HubLoops, HubRequestsTwin, HubReports
     DEF Library
<1>5. tcp' # "down" => server' = "hub"
  BY <1>1, <1>3 DEF Dialling
<1> QED  BY <1>1, <1>4, <1>5, HubKeeps DEF stage

(* A step of the hub, of its connection or of the clocks.                  *)
LEMMA WorldSteps ==
  ASSUME IInv, \/ HubServes \/ HubPublishes \/ TokenExpires \/ HubRefuses
               \/ isInitialized /\ Network /\ UNCHANGED <<stage, server, dpsOwn>>
               \/ HubInClock \/ HubOutClock
  PROVE  IInv'
<1>1. isInitialized /\ ~registering
  <2>1. CASE HubServes \/ HubPublishes \/ HubRefuses
    <3>1. server = "hub" /\ tcp = "up"
      BY <2>1 DEF HubServes, HubPublishes, HubRefuses, AtHub, HubAnswers, HubSends
    <3>2. ~registering
      BY <3>1 DEF IInv, ConnectionInv
    <3> QED  BY <3>1, <3>2 DEF IInv, ConnectionInv, StageInv
  <2>2. CASE isInitialized
    BY <2>2 DEF IInv, StageInv
  <2> QED  BY <2>1, <2>2 DEF TokenExpires, HubInClock, HubOutClock
<1>2. HubKept /\ (tcp # "down" => server = "hub")
  BY <1>1, InvGivesHubKept
<1>3. UNCHANGED <<isInitialized, registering, server, dpsOwn>>
  BY DEF HubServes, HubPublishes, TokenExpires, HubRefuses, HubInClock, HubOutClock, AtHub, stage
<1>4. HubKept' /\ (tcp' # "down" => tcp # "down")
  <2>1. CASE HubServes
    BY <1>2, <2>1, HubAnswersKeeps DEF HubServes, AtHub, HubAnswers
  <2>2. CASE HubPublishes
    BY <1>2, <2>2, HubSendsKeeps DEF HubPublishes, AtHub, HubSends
  <2>3. CASE HubRefuses
    BY <1>2, <2>3, HubRefusesKeeps DEF HubRefuses, AtHub
  <2>4. CASE TokenExpires
    <3>1. CASE tcp = "up"
      BY <1>2, <2>4, <3>1, HubLossKeeps DEF TokenExpires
    <3>2. CASE tcp # "up"
      <4>1. UNCHANGED <<tcp, outbox, subscribed, inbox, _state, hubVars, deaf, granted, twin, overlapped>>
        BY <2>4, <3>2 DEF TokenExpires
      <4> QED  BY <1>2, <4>1 DEF HubKept, PlaceKept, Greeted, SubscribedKept, Reaches, Made, TwinKept,
               hubVars
    <3> QED  BY <3>1, <3>2
  <2>5. CASE Network
    BY <1>2, <2>5, HubLossKeeps DEF Network, ConnectionResets, PeerVanishes
  <2>6. CASE HubInClock \/ HubOutClock
    <3>1. UNCHANGED <<tcp, outbox, subscribed, inbox, _state, hubVars, deaf, granted, twin, overlapped>>
      BY <2>6 DEF HubInClock, HubOutClock, InClock, OutClock, InTimePasses, OutTimePasses, others
    <3> QED  BY <1>2, <3>1 DEF HubKept, PlaceKept, Greeted, SubscribedKept, Reaches, Made, TwinKept,
             hubVars
  <2> QED  BY <2>1, <2>2, <2>3, <2>4, <2>5, <2>6
<1> QED  BY <1>1, <1>2, <1>3, <1>4, HubKeeps

-----------------------------------------------------------------------------
(* The theorems.                                                           *)

(* The device starts with nothing open, sent, received or asked for.       *)
LEMMA InitEstablishes == AllInit => IInv
<1> SUFFICES ASSUME AllInit PROVE IInv
  OBVIOUS
<1> USE DEF AllInit, Init, MqttInit
<1>1. WireInv
  <2>1. HubWire(inbox, outbox)
    BY HubEmpty
  <2>2. registering = FALSE /\ topic = 0 /\ twinRequestId = 0 /\ back = "sketch"
        /\ twinGetPending = FALSE /\ inbox = <<>> /\ outbox = <<>>
    OBVIOUS
  <2>3. topic \in 0 .. 3 /\ twinRequestId \in Nat
    BY <2>2
  <2>4. back \in {"sketch", "loop"} /\ twinGetPending \in BOOLEAN
    BY <2>2
  <2> HIDE DEF AllInit, Init, MqttInit
  <2> QED  BY <2>1, <2>2, <2>3, <2>4 DEF WireInv
<1>2. StageInv /\ ConnectionInv /\ RequestInv
  BY DEF StageInv, ConnectionInv, RequestInv
<1>3. SubscribedInv /\ TwinInv
  BY HubEmpty DEF SubscribedInv, TwinInv
<1> QED  BY <1>1, <1>2, <1>3 DEF IInv

(* A step that changes nothing keeps the invariant.                        *)
LEMMA StutterKeeps ==
  ASSUME IInv, UNCHANGED allVars
  PROVE  IInv'
BY DEF IInv, WireInv, StageInv, ConnectionInv, RequestInv, SubscribedInv, TwinInv, Made, DpsFresh,
       allVars, vars, mqttVars, hubVars, others, stage, dpsOwn

(* The invariant holds in every state, whatever server, network and sketch *)
(* do.                                                                     *)
THEOREM InvariantHolds == AllSpec => []IInv
<1>1. IInv /\ [AllNext]_allVars => IInv'
  <2> SUFFICES ASSUME IInv, [AllNext]_allVars PROVE IInv'
    OBVIOUS
  <2>1. CASE UNCHANGED allVars
    BY <2>1, StutterKeeps
  <2>2. CASE AllNext
    BY <2>2, RegistrationSteps, InitRegistersKeeps, InitReturnsKeeps, DeviceSteps, WorldSteps
       DEF AllNext, Fails
  <2> QED  BY <2>1, <2>2
<1> QED  BY <1>1, InitEstablishes, PTL DEF AllSpec

(* Neither client ever finds the other one's connection: wifiClient is     *)
(* closed whenever azureIoTInit or azureIoTConnect changes hands.          *)
THEOREM EachToItsOwnServer == AllSpec => []RightServer
<1>1. IInv => RightServer
  BY DEF IInv, ConnectionInv, RightServer
<1> QED  BY <1>1, InvariantHolds, PTL

(* Outside of a call a connection is open exactly when the hub's client    *)
(* regards it as its own.                                                  *)
THEOREM NoConnectionIsLeft == AllSpec => []NothingLeftOpen
<1>1. IInv => NothingLeftOpen
  BY DEF IInv, ConnectionInv, NothingLeftOpen, NoStrayConnection
<1> QED  BY <1>1, InvariantHolds, PTL

(* When AzureIoT_DPSRegister returns true, the service has assigned a hub, *)
(* and it is the one in assignedHub.                                       *)
THEOREM TrueIsAssigned == AllSpec => []TrueMeansAssigned
<1>1. IInv => TrueMeansAssigned
  BY DEF IInv, RequestInv, StageInv, DpsFresh, TrueMeansAssigned, Dps!TrueMeansAssigned
<1> QED  BY <1>1, InvariantHolds, PTL

(* At most one request of the registration, or its answer, is on its way;  *)
(* and none once there is a status.                                        *)
THEOREM OneRequestOnItsWay == AllSpec => []OneRequestAtATime
<1>1. ASSUME IInv PROVE OneRequestAtATime
  <2> SUFFICES ASSUME registering PROVE Dps!OneRequestAtATime
    BY DEF OneRequestAtATime
  <2>1. DpsWire(inbox, outbox, assignment)
    BY <1>1 DEF IInv, WireInv
  <2>2. s_responseStatus # 0 => NoRequest(inbox, outbox)
    BY <1>1 DEF IInv, RequestInv
  <2>3. \A i \in DOMAIN outbox : outbox[i].type \in {"REGISTER", "GET"} <=> outbox[i] \in Requests
    BY <2>1 DEF DpsWire, Requests
  <2>4. \A i \in DOMAIN inbox : inbox[i].type = "RESPONSE" <=> inbox[i] \in Responses
    BY <2>1 DEF DpsWire, Responses
  <2>5. \A i \in Dps!Asked : i \in DOMAIN outbox /\ outbox[i] \in Requests
    BY <2>3 DEF Dps!Asked
  <2>6. \A i \in Dps!Answered : i \in DOMAIN inbox /\ inbox[i] \in Responses
    BY <2>4 DEF Dps!Answered
  <2>7. (None(outbox, Requests) => Dps!Asked = {}) /\ (None(inbox, Responses) => Dps!Answered = {})
    BY <2>5, <2>6 DEF None
  <2>8. \A i, j \in Dps!Asked : i = j
    BY <2>1, <2>5 DEF DpsWire, AtMostOne
  <2>9. \A i, j \in Dps!Answered : i = j
    BY <2>1, <2>6 DEF DpsWire, AtMostOne
  <2> QED  BY <2>1, <2>2, <2>7, <2>8, <2>9 DEF DpsWire, NoRequest, Dps!OneRequestAtATime
<1>2. IInv => OneRequestAtATime
  BY <1>1
<1> QED  BY <1>2, InvariantHolds, PTL

(* When azureIoTIsConnected says so, each topic whose subscribe was sent   *)
(* is in the hub's session or on its way there, also after a reconnect.    *)
THEOREM ConnectedIsSubscribed == AllSpec => []SubscribedWhenConnected
<1>1. ASSUME IInv PROVE SubscribedWhenConnected
  <2> SUFFICES ASSUME pc = "sketch", IsConnected, tcp = "up", ~deaf, NEW t \in TopicSet
               PROVE  \/ t \in subscribed
                      \/ \E i \in DOMAIN outbox : outbox[i] = [type |-> "SUBSCRIBE", topic |-> t]
    BY DEF SubscribedWhenConnected
  <2>1. _state = "CONNECTED" /\ ~registering
    BY <1>1 DEF IsConnected, Connected, IInv, StageInv
  <2>2. PICK n \in 1 .. 3 : t = Topics[n]
    BY DEF TopicSet, Topics
  <2>3. Topics[n] \in subscribed \/ ~None(outbox, SubscribeTo(n))
    BY <1>1, <2>1 DEF IInv, SubscribedInv, Made
  <2> QED  BY <2>2, <2>3 DEF None, SubscribeTo
<1>2. IInv => SubscribedWhenConnected
  BY <1>1
<1> QED  BY <1>2, InvariantHolds, PTL

(* As long as no twin is requested while one is on its way, every full     *)
(* twin that mqttCallback is given reaches TwinReceivedCallback.           *)
THEOREM LoneTwinIsAnswered == AllSpec => []LoneTwinAnswered
<1>1. IInv => LoneTwinAnswered
  BY DEF IInv, TwinInv, LoneTwinAnswered
<1> QED  BY <1>1, InvariantHolds, PTL
=============================================================================
