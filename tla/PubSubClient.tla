---------------------------- MODULE PubSubClient ----------------------------
(***************************************************************************)
(* libraries/PubSubClient/src/PubSubClient.cpp, the MQTT client, over one  *)
(* WiFiClientSecure.  The operators describe what a call does to the       *)
(* client; the modules that own a client say who calls it.  A packet is a  *)
(* record with a type; its bytes are left out, except that a packet may    *)
(* arrive torn and leave the client out of step with the stream.           *)
(* WiFiClientSecure::connected() is true as long as stop() has not been    *)
(* called: neither a peer that closed nor one that vanished shows in it.   *)
(***************************************************************************)
EXTENDS Naturals, Sequences

VARIABLES
  tcp,         (* "up", "gone" (the peer vanished, nobody was told),       *)
               (* "reset" (sending fails, nothing more arrives), "down"    *)
  _state,      (* the MQTT_... code                                        *)
  pingOutstanding,
  quietIn,     (* more than keepAlive has passed since lastInActivity      *)
  quietOut,    (* ... and since lastOutActivity                            *)
  inbox,       (* packets the client's socket has received                 *)
  outbox       (* packets the server has still to take                     *)

mqttVars == <<tcp, _state, pingOutstanding, quietIn, quietOut, inbox, outbox>>

States == {"DISCONNECTED", "CONNECTED", "CONNECTION_LOST", "CONNECTION_TIMEOUT",
           "CONNECT_FAILED", "CONNECT_REFUSED"}

Packet(t) == [type |-> t]

MqttInit ==
  /\ tcp = "down" /\ _state = "DISCONNECTED" /\ pingOutstanding = FALSE
  /\ quietIn = FALSE /\ quietOut = FALSE
  /\ inbox = <<>> /\ outbox = <<>>

(* _client->stop()                                                         *)
Stop == tcp' = "down" /\ inbox' = <<>> /\ outbox' = <<>>

-----------------------------------------------------------------------------
(* connected(), and the state it leaves behind when it finds a connection  *)
(* closed.                                                                 *)
Connected == tcp # "down" /\ _state = "CONNECTED"
StateSeen == IF tcp = "down" /\ _state = "CONNECTED" THEN "CONNECTION_LOST" ELSE _state
NotConnected == ~Connected /\ _state' = StateSeen

Sent(p) == outbox' = IF tcp = "up" THEN Append(outbox, p) ELSE outbox

(* write: all of it goes out, or not all of it and the caller is told.     *)
WriteDone(p) == Connected /\ tcp # "reset" /\ Sent(p) /\ quietOut' = FALSE
WriteFails == Connected /\ quietOut' = FALSE /\ UNCHANGED outbox

(* connect, up to sending CONNECT.  A TCP connection that is still there   *)
(* is used again.                                                          *)
ConnectFails ==
  /\ ~Connected /\ tcp = "down"
  /\ _state' = "CONNECT_FAILED"
  /\ UNCHANGED <<tcp, pingOutstanding, quietIn, quietOut, inbox, outbox>>
ConnectSends ==
  /\ ~Connected
  /\ tcp' = IF tcp = "down" THEN "up" ELSE tcp
  /\ outbox' = Append(outbox, Packet("CONNECT"))
  /\ _state' = StateSeen
  /\ quietIn' = FALSE /\ quietOut' = FALSE
  /\ UNCHANGED <<pingOutstanding, inbox>>

(* connect, once it waits for CONNACK.                                     *)
ConnectAccepted ==
  /\ inbox # <<>> /\ Head(inbox) = [type |-> "CONNACK", code |-> 0]
  /\ _state' = "CONNECTED" /\ pingOutstanding' = FALSE
  /\ quietIn' = FALSE
  /\ inbox' = Tail(inbox)
  /\ UNCHANGED <<tcp, quietOut, outbox>>
ConnectRefusedOpen ==                                     \* wrong: no stop
  /\ inbox # <<>> /\ Head(inbox) # [type |-> "CONNACK", code |-> 0]
  /\ _state' = "CONNECT_REFUSED" /\ inbox' = Tail(inbox)
  /\ UNCHANGED <<tcp, pingOutstanding, quietIn, quietOut, outbox>>
ConnectRefused ==
  /\ inbox # <<>> /\ Head(inbox) # [type |-> "CONNACK", code |-> 0]
  /\ _state' = IF Head(inbox).type = "CONNACK" THEN "CONNECT_REFUSED" ELSE _state
  /\ Stop
  /\ UNCHANGED <<pingOutstanding, quietIn, quietOut>>
ConnectTorn ==
  /\ inbox # <<>> /\ Stop
  /\ UNCHANGED <<_state, pingOutstanding, quietIn, quietOut>>
ConnectTimesOut ==
  /\ inbox = <<>>
  /\ _state' = "CONNECTION_TIMEOUT"
  /\ Stop
  /\ UNCHANGED <<pingOutstanding, quietIn, quietOut>>

DisconnectOpen ==                                         \* wrong: no stop
  /\ _state' = "DISCONNECTED"
  /\ UNCHANGED <<tcp, pingOutstanding, quietIn, quietOut, inbox, outbox>>

(* disconnect()                                                            *)
Disconnect ==
  /\ _state' = "DISCONNECTED" /\ Stop
  /\ quietIn' = FALSE /\ quietOut' = FALSE
  /\ UNCHANGED pingOutstanding

-----------------------------------------------------------------------------
(* loop().  A keep-alive that is due sends PINGREQ, or closes the          *)
(* connection when the last one was not answered; then one packet is read. *)
KeepAliveDue == quietIn \/ quietOut

LoopIdle == NotConnected /\ UNCHANGED <<tcp, pingOutstanding, quietIn, quietOut, inbox, outbox>>

LoopWaitsOn ==                                            \* wrong: no stop
  Connected /\ KeepAliveDue /\ pingOutstanding /\ UNCHANGED mqttVars
LoopTimesOut ==
  /\ Connected /\ KeepAliveDue /\ pingOutstanding
  /\ _state' = "CONNECTION_TIMEOUT" /\ Stop
  /\ UNCHANGED <<pingOutstanding, quietIn, quietOut>>

LoopPings ==
  /\ Connected /\ KeepAliveDue => ~pingOutstanding
  /\ IF KeepAliveDue
       THEN Sent(Packet("PINGREQ")) /\ quietOut' = FALSE
       ELSE UNCHANGED <<outbox, quietOut>>

LoopNothing ==
  /\ Connected /\ inbox = <<>> /\ LoopPings
  /\ pingOutstanding' = (pingOutstanding \/ KeepAliveDue)
  /\ quietIn' = FALSE
  /\ UNCHANGED <<tcp, _state, inbox>>

(* A whole packet; a PUBLISH goes to the callback.                         *)
LoopReads(p) ==
  /\ Connected /\ inbox # <<>> /\ p = Head(inbox) /\ LoopPings
  /\ pingOutstanding' = (p.type # "PINGRESP" /\ (pingOutstanding \/ KeepAliveDue))
  /\ quietIn' = FALSE
  /\ inbox' = Tail(inbox)
  /\ UNCHANGED <<tcp, _state>>

(* readPacket returns 0: the rest of the packet did not come in time and   *)
(* is taken for the start of the next one, or it makes no sense as a       *)
(* length and the connection is closed.                                    *)
LoopTorn ==
  /\ Connected /\ inbox # <<>> /\ LoopPings
  /\ pingOutstanding' = (pingOutstanding \/ KeepAliveDue)
  /\ inbox' = <<Packet("GARBAGE")>> \o Tail(inbox)
  /\ quietIn' = FALSE
  /\ UNCHANGED <<tcp, _state>>
LoopKilled ==
  /\ Connected /\ inbox # <<>> /\ Head(inbox).type = "GARBAGE"
  /\ KeepAliveDue => ~pingOutstanding
  /\ _state' = "DISCONNECTED" /\ Stop
  /\ pingOutstanding' = (pingOutstanding \/ KeepAliveDue)
  /\ quietIn' = FALSE /\ quietOut' = FALSE

-----------------------------------------------------------------------------
(* The network and the clock, which nobody calls.                          *)
(* What TLSSocket has not read when the reset arrives may be lost.         *)
ConnectionResets ==
  /\ tcp \in {"up", "gone"} /\ tcp' = "reset" /\ outbox' = <<>>
  /\ \E n \in 0 .. Len(inbox) : inbox' = SubSeq(inbox, 1, n)
  /\ UNCHANGED <<_state, pingOutstanding, quietIn, quietOut>>

PeerVanishes ==
  /\ tcp = "up" /\ tcp' = "gone" /\ outbox' = <<>>
  /\ UNCHANGED <<_state, pingOutstanding, quietIn, quietOut, inbox>>

(* More than keepAlive has passed since the last activity in, or out.      *)
InTimePasses ==
  /\ ~quietIn /\ quietIn' = TRUE
  /\ UNCHANGED <<tcp, _state, pingOutstanding, quietOut, inbox, outbox>>
OutTimePasses ==
  /\ ~quietOut /\ quietOut' = TRUE
  /\ UNCHANGED <<tcp, _state, pingOutstanding, quietIn, inbox, outbox>>

MqttTypeOK ==
  /\ tcp \in {"up", "gone", "reset", "down"}
  /\ _state \in States
  /\ pingOutstanding \in BOOLEAN /\ quietIn \in BOOLEAN /\ quietOut \in BOOLEAN
  /\ tcp = "down" => inbox = <<>> /\ outbox = <<>>
=============================================================================
