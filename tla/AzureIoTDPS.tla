---------------------------- MODULE AzureIoTDPS ----------------------------
(***************************************************************************)
(* libraries/AzureIoT/src/AzureIoTDPS.cpp: AzureIoT_DPSRegister asks the   *)
(* Device Provisioning Service for an IoT Hub, and polls until it has one. *)
(* The service may take its time, refuse, or send an answer the device     *)
(* cannot use; the network may lose the connection.                        *)
(***************************************************************************)
EXTENDS PubSubClient

CONSTANTS
  Hub,          (* the hubs the service may assign                         *)
  NoHub,        (* the empty string                                        *)
  MaxRetries    (* DPS_MAX_RETRIES, 10 in the code                         *)

VARIABLES
  pc,
  retries,
  s_assigned,
  s_responseStatus,
  s_operationId,      (* an operation id has been extracted                *)
  s_assignedHub,
  result,             (* what the call returned: "none" yet, "true", "false" *)
  assignment          (* external: the hub the service chose               *)

dpsVars == <<pc, retries, s_assigned, s_responseStatus, s_operationId, s_assignedHub, result>>
vars == <<mqttVars, dpsVars, assignment>>

Init ==
  /\ MqttInit
  /\ pc = "dial" /\ retries = 0
  /\ s_assigned = FALSE /\ s_responseStatus = 0 /\ s_operationId = FALSE
  /\ s_assignedHub = NoHub
  /\ result = "none" /\ assignment = NoHub

Returns(r) == pc' = "done" /\ result' = r

statics == <<s_assigned, s_responseStatus, s_operationId, s_assignedHub>>

-----------------------------------------------------------------------------
Dial ==
  /\ pc = "dial"
  /\ \/ ConnectSends /\ pc' = "connack" /\ UNCHANGED result
     \/ ConnectFails /\ Returns("false")
  /\ UNCHANGED <<retries, statics, assignment>>

ConnectReturns ==
  /\ pc = "connack"
  /\ \/ ConnectAccepted /\ pc' = "subscribe" /\ UNCHANGED result
     \/ (ConnectRefused \/ ConnectTorn \/ ConnectTimesOut) /\ Returns("false")
  /\ UNCHANGED <<retries, statics, assignment>>

(* subscribe, then publish of the registration request; after either fails *)
(* the call gives up.                                                      *)
Asks(here, p, next) ==
  /\ pc = here
  /\ \/ /\ WriteDone(p) /\ pc' = next
        /\ UNCHANGED <<tcp, _state, pingOutstanding, quietIn, inbox, result>>
     \/ Disconnect /\ Returns("false")
  /\ UNCHANGED <<retries, statics, assignment>>

Subscribe == Asks("subscribe", Packet("SUBSCRIBE"), "register")
Register == Asks("register", Packet("REGISTER"), "wait")

-----------------------------------------------------------------------------
CallbackUnread(p) ==                                      \* wrong: 200 is enough
  /\ s_responseStatus' = p.status
  /\ s_operationId' = (s_operationId \/ (p.status = 202 /\ p.readable))
  /\ s_assigned' = (s_assigned \/ p.status = 200)
  /\ s_assignedHub' = IF p.status = 200 /\ p.readable THEN p.hub ELSE s_assignedHub

(* dpsCallback                                                             *)
Callback(p) ==
  /\ s_responseStatus' = p.status
  /\ s_operationId' = (s_operationId \/ (p.status = 202 /\ p.readable))
  /\ IF p.status = 200 /\ p.readable
       THEN s_assigned' = TRUE /\ s_assignedHub' = p.hub
       ELSE UNCHANGED <<s_assigned, s_assignedHub>>

(* The inner loop: dpsMqtt.loop() until there is a status.                 *)
Waiting == pc = "wait" /\ ~s_assigned /\ retries < MaxRetries /\ s_responseStatus = 0

Wait ==
  /\ Waiting
  /\ \/ (LoopIdle \/ LoopTimesOut \/ LoopNothing \/ LoopKilled \/ LoopTorn) /\ UNCHANGED statics
     \/ \E p \in {inbox[i] : i \in DOMAIN inbox} :
          LoopReads(p) /\ IF p.type = "RESPONSE" THEN Callback(p) ELSE UNCHANGED statics
  /\ UNCHANGED <<pc, retries, result, assignment>>

TimeOutUncounted == Waiting /\ UNCHANGED vars             \* wrong: waits for ever
TimeOutAsksAgain ==                                       \* wrong: another request
  /\ Waiting /\ retries' = retries + 1 /\ Sent(Packet("GET"))
  /\ UNCHANGED <<tcp, _state, pingOutstanding, quietIn, quietOut, inbox, pc, statics, result,
                 assignment>>

(* Ten seconds without a status: the wait starts again, nothing is resent. *)
TimeOut ==
  /\ Waiting
  /\ retries' = retries + 1
  /\ UNCHANGED <<mqttVars, pc, statics, result, assignment>>

(* DPS_POLL_INTERVAL later, ask for the operation's status; whether that   *)
(* could be sent is not looked at.                                         *)
Poll ==
  /\ pc = "wait" /\ ~s_assigned /\ retries < MaxRetries
  /\ s_responseStatus = 202 /\ s_operationId
  /\ s_responseStatus' = 0 /\ retries' = retries + 1
  /\ \/ (WriteDone(Packet("GET")) \/ WriteFails) /\ UNCHANGED <<tcp, _state, pingOutstanding, quietIn, inbox>>
     \/ NotConnected /\ UNCHANGED <<tcp, pingOutstanding, quietIn, quietOut, inbox, outbox>>
  /\ UNCHANGED <<pc, s_assigned, s_operationId, s_assignedHub, result, assignment>>

(* Any other status but 200 is the end of it.                              *)
Refused ==
  /\ pc = "wait" /\ ~s_assigned /\ retries < MaxRetries
  /\ s_responseStatus \notin {0, 200}
  /\ ~(s_responseStatus = 202 /\ s_operationId)
  /\ Disconnect /\ Returns("false")
  /\ UNCHANGED <<retries, statics, assignment>>

(* A 200 that names no hub leaves the loop running without waiting,        *)
(* without reading and without counting.                                   *)
Spinning ==
  pc = "wait" /\ ~s_assigned /\ retries < MaxRetries /\ s_responseStatus = 200
Spin == Spinning /\ UNCHANGED vars

LoopEnds ==
  /\ pc = "wait" /\ (s_assigned \/ retries >= MaxRetries)
  /\ Disconnect /\ Returns(IF s_assigned THEN "true" ELSE "false")
  /\ UNCHANGED <<retries, statics, assignment>>

-----------------------------------------------------------------------------
(* The service.  It assigns a hub once; an answer may be unreadable: a     *)
(* field missing, or too long for the device's buffer.                     *)
Response(s, readable, h) == [type |-> "RESPONSE", status |-> s, readable |-> readable, hub |-> h]

Answers(p) ==
  CASE p.type = "CONNECT" -> [type : {"CONNACK"}, code : {0, 5}]
    [] p.type = "SUBSCRIBE" -> {Packet("SUBACK")}
    [] p.type = "PINGREQ" -> {Packet("PINGRESP")}
    [] OTHER ->
         {Response(s, r, NoHub) : s \in {202, 429}, r \in BOOLEAN} \cup
         {Response(200, r, h) : r \in BOOLEAN, h \in IF assignment = NoHub THEN Hub ELSE {assignment}}

ServiceAnswers ==
  /\ tcp = "up" /\ outbox # <<>>
  /\ outbox' = Tail(outbox)
  /\ \E a \in Answers(Head(outbox)) :
       /\ inbox' = Append(inbox, a)
       /\ assignment' = IF a.type = "RESPONSE" /\ a.status = 200 THEN a.hub ELSE assignment
  /\ UNCHANGED <<tcp, _state, pingOutstanding, quietIn, quietOut, dpsVars>>

Network == (ConnectionResets \/ PeerVanishes) /\ UNCHANGED <<dpsVars, assignment>>

InClock == pc = "wait" /\ InTimePasses /\ UNCHANGED <<dpsVars, assignment>>
OutClock == pc = "wait" /\ OutTimePasses /\ UNCHANGED <<dpsVars, assignment>>

-----------------------------------------------------------------------------
Device ==
  Dial \/ ConnectReturns \/ Subscribe \/ Register \/ Wait \/ TimeOut \/ Poll \/ Refused \/ LoopEnds

-----------------------------------------------------------------------------
(* Properties.                                                             *)

TypeOK ==
  /\ MqttTypeOK
  /\ pc \in {"dial", "connack", "subscribe", "register", "wait", "done"}
  /\ retries \in 0 .. MaxRetries
  /\ s_assigned \in BOOLEAN /\ s_operationId \in BOOLEAN
  /\ s_responseStatus \in {0, 200, 202, 429}
  /\ s_assignedHub \in Hub \cup {NoHub} /\ assignment \in Hub \cup {NoHub}
  /\ result \in {"none", "true", "false"}

(* AzureIoTDPS.h: true means registered, and assignedHub is what the       *)
(* service assigned.                                                       *)
TrueMeansAssigned == result = "true" => assignment # NoHub /\ s_assignedHub = assignment

(* The $rid of a response is not compared with the request's.  It need not *)
(* be: no request is sent before the last one's answer has been used.      *)
Asked == {i \in DOMAIN outbox : outbox[i].type \in {"REGISTER", "GET"}}
Answered == {i \in DOMAIN inbox : inbox[i].type = "RESPONSE"}
OneRequestAtATime ==
  /\ \A i, j \in Asked : i = j
  /\ \A i, j \in Answered : i = j
  /\ Asked = {} \/ Answered = {}
  /\ s_responseStatus # 0 /\ pc = "wait" => Asked = {} /\ Answered = {}
=============================================================================
