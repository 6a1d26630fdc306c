---------------------------- MODULE AzureIoTHub ----------------------------
(***************************************************************************)
(* libraries/AzureIoT/src/AzureIoTHub.cpp: the connection to IoT Hub, kept *)
(* up by azureIoTLoop, and the device twin requests made over it.  The hub *)
(* keeps a session per connection (connect asks for a clean one) and       *)
(* answers in order; the network may lose the connection, with or without  *)
(* telling, and packets may come torn.                                     *)
(***************************************************************************)
EXTENDS PubSubClient

CONSTANTS
  Retries,     (* attempts azureIoTConnect makes; 5 in the code            *)
  MaxFaults,   (* bound: things that go wrong                              *)
  MaxRequests, (* bound: twin requests                                     *)
  MaxQueue     (* bound: packets on their way in either direction          *)

ASSUME RetriesAssumption == Retries \in Nat \ {0}

VARIABLES
  pc,             (* "sketch", or the place in the library                 *)
  back,           (* the caller of azureIoTConnect                         *)
  retries, topic, (* its locals: attempts made, subscriptions made         *)
  isConnected,
  twinGetPending,
  twinRequestId,
  subscribed,     (* external: the topics of the hub's session             *)
  deaf,           (* history: a subscription could not be sent             *)
  granted,        (* history: the request the last full twin to arrive     *)
                  (* answered                                              *)
  twin,           (* history: ... and the last one given to the callback   *)
  overlapped,     (* history: a twin was requested while one was on its way *)
  faults

hubVars == <<pc, back, retries, topic, isConnected, twinGetPending, twinRequestId>>
others == <<subscribed, deaf, granted, twin, overlapped, faults>>
vars == <<mqttVars, hubVars, others>>

Topics == <<"devicebound", "twin/res", "desired">>
TopicSet == {Topics[i] : i \in DOMAIN Topics}

Init ==
  /\ MqttInit
  /\ pc = "sketch" /\ back = "sketch" /\ retries = 0 /\ topic = 0
  /\ isConnected = FALSE /\ twinGetPending = FALSE /\ twinRequestId = 0
  /\ subscribed = {} /\ deaf = FALSE /\ granted = 0 /\ twin = 0
  /\ overlapped = FALSE /\ faults = 0

Fault == faults < MaxFaults /\ faults' = faults + 1
FaultUnlessReset == IF tcp = "reset" THEN UNCHANGED faults ELSE Fault

-----------------------------------------------------------------------------
(* azureIoTIsConnected                                                     *)
IsConnected == isConnected /\ Connected

(* The examples connect in setup and whenever azureIoTIsConnected is false. *)
SketchConnects ==
  /\ pc = "sketch" /\ ~IsConnected
  /\ pc' = "dial" /\ back' = "sketch" /\ retries' = 0
  /\ UNCHANGED <<mqttVars, topic, isConnected, twinGetPending, twinRequestId, others>>

Returns == pc' = back /\ back' = "sketch" /\ retries' = 0 /\ topic' = 0

(* The head of the loop in azureIoTConnect.                                *)
GiveUp ==
  /\ pc = "dial"
  /\ Connected \/ retries >= Retries
  /\ _state' = StateSeen
  /\ isConnected' = FALSE
  /\ Returns
  /\ UNCHANGED <<tcp, pingOutstanding, quietIn, quietOut, inbox, outbox, twinGetPending,
                 twinRequestId, others>>

Dial ==
  /\ pc = "dial" /\ retries < Retries
  /\ \/ /\ ConnectSends /\ pc' = "connack"
        /\ subscribed' = IF tcp = "down" THEN {} ELSE subscribed
        /\ UNCHANGED <<retries, faults>>
     \/ /\ ConnectFails /\ Fault
        /\ retries' = retries + 1 /\ UNCHANGED <<pc, subscribed>>
  /\ UNCHANGED <<back, topic, isConnected, twinGetPending, twinRequestId, deaf, granted, twin,
                 overlapped>>

ConnectReturns ==
  /\ pc = "connack"
  /\ \/ /\ ConnectAccepted
        /\ pc' = "subscribe" /\ topic' = 0
        /\ isConnected' = TRUE /\ deaf' = FALSE
        /\ UNCHANGED <<retries, faults>>
     \/ /\ \/ ConnectRefused /\ UNCHANGED faults
           \/ ConnectTorn /\ Fault
           \/ ConnectTimesOut /\ IF tcp = "up" THEN Fault ELSE UNCHANGED faults
        /\ pc' = "dial" /\ retries' = retries + 1
        /\ UNCHANGED <<topic, isConnected, deaf>>
  /\ UNCHANGED <<back, twinGetPending, twinRequestId, subscribed, granted, twin, overlapped>>

(* A subscription that fails is only warned about.                         *)
Subscribe ==
  /\ pc = "subscribe" /\ topic < Len(Topics) /\ Len(outbox) < MaxQueue
  /\ topic' = topic + 1
  /\ \/ /\ WriteDone([type |-> "SUBSCRIBE", topic |-> Topics[topic + 1]])
        /\ UNCHANGED <<tcp, _state, pingOutstanding, quietIn, inbox, deaf, faults>>
     \/ /\ WriteFails /\ FaultUnlessReset /\ deaf' = TRUE
        /\ UNCHANGED <<tcp, _state, pingOutstanding, quietIn, inbox>>
  /\ UNCHANGED <<pc, back, retries, isConnected, twinGetPending, twinRequestId, subscribed,
                 granted, twin, overlapped>>

SubscribedEarly ==                                        \* wrong: one topic is missed
  /\ pc = "subscribe" /\ topic + 1 >= Len(Topics)
  /\ Returns
  /\ UNCHANGED <<mqttVars, isConnected, twinGetPending, twinRequestId, others>>

Subscribed ==
  /\ pc = "subscribe" /\ topic = Len(Topics)
  /\ Returns
  /\ UNCHANGED <<mqttVars, isConnected, twinGetPending, twinRequestId, others>>

-----------------------------------------------------------------------------
(* azureIoTLoop                                                            *)
LoopNeverDials ==                                         \* wrong: does not reconnect
  /\ pc = "sketch" /\ pc' = "loop"
  /\ _state' = StateSeen /\ isConnected' = (isConnected /\ Connected)
  /\ UNCHANGED <<tcp, pingOutstanding, quietIn, quietOut, inbox, outbox, back, retries, topic,
                 twinGetPending, twinRequestId, others>>

LoopCheck ==
  /\ pc = "sketch"
  /\ _state' = StateSeen
  /\ IF Connected
       THEN pc' = "loop" /\ UNCHANGED <<back, retries, isConnected>>
       ELSE pc' = "dial" /\ back' = "loop" /\ retries' = 0 /\ isConnected' = FALSE
  /\ UNCHANGED <<tcp, pingOutstanding, quietIn, quietOut, inbox, outbox, topic, twinGetPending,
                 twinRequestId, others>>

CallbackOnAnyStatus(p) ==                                 \* wrong: 204 and 429 end the wait
  LET full == p.type = "TWIN" /\ p.status = 200 IN
  /\ granted' = IF full THEN p.rid ELSE granted
  /\ twin' = IF full /\ twinGetPending THEN p.rid ELSE twin
  /\ twinGetPending' = (twinGetPending /\ p.type # "TWIN")

(* mqttCallback, for the answers to twin requests.                         *)
Callback(p) ==
  LET full == p.type = "TWIN" /\ p.status = 200 IN
  /\ granted' = IF full THEN p.rid ELSE granted
  /\ twin' = IF full /\ twinGetPending THEN p.rid ELSE twin
  /\ twinGetPending' = (twinGetPending /\ ~full)

LoopRun ==
  /\ pc = "loop" /\ pc' = "sketch"
  /\ \/ /\ LoopIdle \/ LoopTimesOut \/ LoopNothing \/ LoopKilled
        /\ UNCHANGED <<twinGetPending, granted, twin, faults>>
     \/ \E p \in {inbox[i] : i \in DOMAIN inbox} : LoopReads(p) /\ Callback(p) /\ UNCHANGED faults
     \/ LoopTorn /\ Fault /\ UNCHANGED <<twinGetPending, granted, twin>>
  /\ UNCHANGED <<back, retries, topic, isConnected, twinRequestId, subscribed, deaf,
                 overlapped>>

-----------------------------------------------------------------------------
TwinOnItsWay ==
  \/ \E i \in DOMAIN outbox : outbox[i].type = "GET"
  \/ \E i \in DOMAIN inbox : inbox[i].type = "TWIN" /\ inbox[i].status = 200

(* azureIoTRequestTwin                                                     *)
RequestTwin ==
  /\ pc = "sketch" /\ IsConnected
  /\ twinRequestId < MaxRequests /\ Len(outbox) < MaxQueue
  /\ twinRequestId' = twinRequestId + 1
  /\ \/ /\ WriteDone([type |-> "GET", rid |-> twinRequestId + 1])
        /\ twinGetPending' = TRUE
        /\ UNCHANGED faults
     \/ /\ WriteFails /\ FaultUnlessReset
        /\ twinGetPending' = FALSE
  /\ overlapped' = (overlapped \/ TwinOnItsWay)
  /\ UNCHANGED <<tcp, _state, pingOutstanding, quietIn, inbox, pc, back, retries, topic,
                 isConnected, subscribed, deaf, granted, twin>>

(* azureIoTUpdateReportedProperties                                        *)
UpdateReported ==
  /\ pc = "sketch" /\ IsConnected
  /\ twinRequestId < MaxRequests /\ Len(outbox) < MaxQueue
  /\ twinRequestId' = twinRequestId + 1
  /\ \/ WriteDone([type |-> "PATCH", rid |-> twinRequestId + 1]) /\ UNCHANGED faults
     \/ WriteFails /\ FaultUnlessReset
  /\ UNCHANGED <<tcp, _state, pingOutstanding, quietIn, inbox, pc, back, retries, topic,
                 isConnected, twinGetPending, subscribed, deaf, granted, twin, overlapped>>

(* azureIoTSendTelemetry                                                   *)
SendTelemetry ==
  /\ pc = "sketch" /\ IsConnected /\ Len(outbox) < MaxQueue
  /\ \/ WriteDone(Packet("TELEMETRY")) /\ UNCHANGED faults
     \/ WriteFails /\ FaultUnlessReset
  /\ UNCHANGED <<tcp, _state, pingOutstanding, quietIn, inbox, hubVars, subscribed, deaf,
                 granted, twin, overlapped>>

-----------------------------------------------------------------------------
(* The hub takes the next packet.  A GET may be answered with an error.    *)
Answers(p) ==
  CASE p.type = "CONNECT" -> {<<[type |-> "CONNACK", code |-> 0]>>, <<[type |-> "CONNACK", code |-> 5]>>}
    [] p.type = "SUBSCRIBE" -> {<<Packet("SUBACK")>>}
    [] p.type = "PINGREQ" -> {<<Packet("PINGRESP")>>}
    [] p.type = "GET" -> {<<[type |-> "TWIN", status |-> s, rid |-> p.rid]>> : s \in {200, 429}}
    [] p.type = "PATCH" -> {<<[type |-> "TWIN", status |-> 204, rid |-> p.rid]>>}
    [] OTHER -> {<<>>}
Failing(a) == a # <<>> /\ Head(a) \in [type : {"CONNACK"}, code : {5}] \cup
                                      [type : {"TWIN"}, status : {429}, rid : Nat]

HubAnswers ==
  /\ tcp = "up" /\ outbox # <<>> /\ Len(inbox) < MaxQueue
  /\ outbox' = Tail(outbox)
  /\ LET p == Head(outbox) IN
       /\ subscribed' = CASE p.type = "CONNECT" -> {}
                          [] p.type = "SUBSCRIBE" -> subscribed \cup {p.topic}
                          [] OTHER -> subscribed
       /\ \E a \in Answers(p) :
            /\ IF Failing(a) THEN Fault ELSE UNCHANGED faults
            /\ inbox' = IF p.type \in {"GET", "PATCH"} /\ "twin/res" \notin subscribed
                          THEN inbox ELSE inbox \o a
  /\ UNCHANGED <<tcp, _state, pingOutstanding, quietIn, quietOut, hubVars, deaf, granted, twin,
                 overlapped>>

HubSends ==
  /\ tcp = "up" /\ Len(inbox) < MaxQueue
  /\ {"devicebound", "desired"} \cap subscribed # {}
  /\ inbox' = Append(inbox, Packet("PUBLISH"))
  /\ UNCHANGED <<tcp, _state, pingOutstanding, quietIn, quietOut, outbox, hubVars, others>>

Network ==
  /\ (ConnectionResets \/ PeerVanishes) /\ Fault
  /\ subscribed' = {}
  /\ UNCHANGED <<hubVars, deaf, granted, twin, overlapped>>

InClock == InTimePasses /\ UNCHANGED <<hubVars, others>>
OutClock == OutTimePasses /\ UNCHANGED <<hubVars, others>>

-----------------------------------------------------------------------------
Library == GiveUp \/ Dial \/ ConnectReturns \/ Subscribe \/ Subscribed \/ LoopRun

Next ==
  \/ SketchConnects \/ LoopCheck \/ RequestTwin \/ UpdateReported \/ SendTelemetry
  \/ Library
  \/ HubAnswers \/ HubSends
  \/ Network \/ InClock \/ OutClock

(* The library runs on; a sketch comes back to azureIoTLoop whatever else  *)
(* it does; the hub serves what has reached it and time passes.            *)
Fairness ==
  /\ WF_vars(Library) /\ SF_vars(LoopCheck)
  /\ WF_vars(HubAnswers) /\ WF_vars(InClock) /\ WF_vars(OutClock)

Spec == Init /\ [][Next]_vars /\ Fairness

-----------------------------------------------------------------------------
(* Properties.                                                             *)

TypeOK ==
  /\ MqttTypeOK
  /\ Len(inbox) <= MaxQueue /\ Len(outbox) <= MaxQueue + 1      \* and one PINGREQ
  /\ pc \in {"sketch", "dial", "connack", "subscribe", "loop"} /\ back \in {"sketch", "loop"}
  /\ retries \in 0 .. Retries /\ topic \in 0 .. Len(Topics)
  /\ isConnected \in BOOLEAN /\ twinGetPending \in BOOLEAN /\ deaf \in BOOLEAN
  /\ twinRequestId \in 0 .. MaxRequests /\ twin \in 0 .. MaxRequests
  /\ subscribed \subseteq TopicSet
  /\ granted \in 0 .. MaxRequests /\ overlapped \in BOOLEAN
  /\ faults \in 0 .. MaxFaults

(* No call leaves a connection open that the client does not regard as its *)
(* own, or regards as its own one that it has closed: there is nothing     *)
(* else to tell it, since WiFiClientSecure never reports a lost one.       *)
NoStrayConnection == pc \in {"sketch", "loop"} => (tcp # "down" <=> _state = "CONNECTED")

(* When azureIoTIsConnected says so and every subscribe was sent, each     *)
(* topic is in the hub's session or on its way, also after a reconnect.    *)
SubscribedWhenConnected ==
  pc = "sketch" /\ IsConnected /\ tcp = "up" /\ ~deaf =>
    \A t \in TopicSet :
      t \in subscribed \/ \E i \in DOMAIN outbox : outbox[i] = [type |-> "SUBSCRIBE", topic |-> t]

(* mqttCallback tells answers apart by a flag, not by request id.  That is *)
(* enough as long as no twin is requested while one is on its way: every   *)
(* full twin it is given reaches the sketch's callback, whatever reported  *)
(* updates, refused requests and reconnections come in between.  Answers   *)
(* torn, or longer than the packet buffer, are dropped before.             *)
LoneTwinAnswered == ~overlapped => twin = granted

(* AzureIoTHub.h, azureIoTRequestTwin: "response via TwinReceivedCallback". *)
(* The callback has had the last full twin that mqttCallback was given in  *)
(* answer to a request.                                                    *)
TwinAnswered == twin = granted
=============================================================================
