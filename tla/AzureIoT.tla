------------------------------ MODULE AzureIoT ------------------------------
(***************************************************************************)
(* libraries/AzureIoT for a DPS profile: azureIoTInit registers the device *)
(* and makes a SAS token, then AzureIoTHub keeps a connection to the hub.  *)
(* Both have an MQTT client of their own over the one static wifiClient:   *)
(* tcp, inbox and outbox are shared, and whoever finds a connection there  *)
(* uses it, whatever server it goes to.                                    *)
(***************************************************************************)
EXTENDS AzureIoTHub

CONSTANTS
  Hub, NoHub, MaxRetries    (* as in AzureIoTDPS                           *)

ASSUME HubAssumption == NoHub \notin Hub /\ MaxRetries \in Nat \ {0}

VARIABLES
  isInitialized,
  registering,   (* azureIoTInit is in AzureIoT_DPSRegister                *)
  tokenExpired,  (* SAS_TOKEN_DURATION has passed since the token was made *)
  server,        (* external: who is at the other end of tcp               *)
  dpsState, dpsPing, dpsQuietIn, dpsQuietOut,               (* dpsMqtt     *)
  dpsPc, dpsRetries, s_assigned, s_responseStatus, s_operationId, s_assignedHub,
  dpsResult, assignment

Dps == INSTANCE AzureIoTDPS WITH
  _state <- dpsState, pingOutstanding <- dpsPing, quietIn <- dpsQuietIn, quietOut <- dpsQuietOut,
  pc <- dpsPc, retries <- dpsRetries, result <- dpsResult

dpsOwn == <<dpsState, dpsPing, dpsQuietIn, dpsQuietOut, dpsPc, dpsRetries, s_assigned,
            s_responseStatus, s_operationId, s_assignedHub, dpsResult, assignment>>
stage == <<isInitialized, registering, tokenExpired>>
hubOwn == <<_state, pingOutstanding, quietIn, quietOut, hubVars, others>>
allVars == <<vars, stage, server, dpsOwn>>

(* A new dpsMqtt, and the statics as AzureIoT_DPSRegister sets them.       *)
DpsFresh ==
  /\ dpsState = "DISCONNECTED" /\ dpsPing = FALSE /\ dpsQuietIn = FALSE /\ dpsQuietOut = FALSE
  /\ dpsPc = "dial" /\ dpsRetries = 0
  /\ s_assigned = FALSE /\ s_responseStatus = 0 /\ s_operationId = FALSE
  /\ s_assignedHub = NoHub /\ dpsResult = "none" /\ assignment = NoHub

AllInit ==
  /\ Init
  /\ isInitialized = FALSE /\ registering = FALSE /\ tokenExpired = FALSE /\ server = "none"
  /\ DpsFresh

(* A connection goes to the server that was dialled when it was made.      *)
Dialling(who) ==
  server' = IF tcp' = "down" THEN "none" ELSE IF tcp = "down" THEN who ELSE server

-----------------------------------------------------------------------------
(* azureIoTInit, up to the registration and after it.                      *)
InitRegisters ==
  /\ ~isInitialized /\ ~registering
  /\ registering' = TRUE
  /\ UNCHANGED <<vars, isInitialized, tokenExpired, server, dpsOwn>>

Registers ==
  /\ registering /\ Dps!Device /\ Dialling("dps")
  /\ UNCHANGED <<stage, hubOwn>>
TimesOut ==
  /\ registering /\ Dps!TimeOut
  /\ UNCHANGED <<stage, server, hubOwn>>
Spins == registering /\ Dps!Spin /\ UNCHANGED allVars

(* The token for the hub may turn out too long for its buffer; without the *)
(* time from the network it ends on a fixed date, which may be past.       *)
(* dpsMqtt is gone, and the statics are set anew before they are read      *)
(* again.                                                                  *)
InitReturns ==
  /\ registering /\ dpsPc = "done"
  /\ registering' = FALSE
  /\ isInitialized' \in {FALSE, dpsResult = "true"}
  /\ tokenExpired' \in {FALSE, isInitialized'}
  /\ dpsState' = "DISCONNECTED" /\ dpsPing' = FALSE /\ dpsQuietIn' = FALSE /\ dpsQuietOut' = FALSE
  /\ dpsPc' = "dial" /\ dpsRetries' = 0
  /\ s_assigned' = FALSE /\ s_responseStatus' = 0 /\ s_operationId' = FALSE
  /\ s_assignedHub' = NoHub /\ dpsResult' = "none" /\ assignment' = NoHub
  /\ UNCHANGED <<vars, server>>

-----------------------------------------------------------------------------
(* What the sketch may call; azureIoTConnect and azureIoTLoop return at    *)
(* once when azureIoTInit has not succeeded.                               *)
OnHub(A) == isInitialized /\ A /\ Dialling("hub") /\ UNCHANGED <<stage, dpsOwn>>

SketchCalls == OnHub(SketchConnects \/ RequestTwin \/ UpdateReported \/ SendTelemetry)
Loops == OnHub(LoopCheck)
Works == OnHub(Library)

-----------------------------------------------------------------------------
(* External: the service and the hub, each at the end of its own           *)
(* connections.                                                            *)
ServiceServes == registering /\ server = "dps" /\ Dps!ServiceAnswers /\ UNCHANGED <<stage, server, hubOwn>>
AtHub(A) == server = "hub" /\ A /\ UNCHANGED <<stage, server, dpsOwn>>
HubServes == AtHub(~tokenExpired /\ HubAnswers)
HubPublishes == AtHub(HubSends)

(* The hub ends the connection when its token runs out, and takes no other *)
(* one made with it.                                                       *)
TokenExpires ==
  /\ isInitialized /\ ~tokenExpired /\ tokenExpired' = TRUE
  /\ IF tcp = "up"
       THEN tcp' = "reset" /\ outbox' = <<>> /\ subscribed' = {}
       ELSE UNCHANGED <<tcp, outbox, subscribed>>
  /\ UNCHANGED <<_state, pingOutstanding, quietIn, quietOut, inbox, hubVars, deaf, granted, twin,
                 overlapped, faults, isInitialized, registering, server, dpsOwn>>
HubRefuses ==
  AtHub(/\ tokenExpired /\ tcp = "up" /\ outbox # <<>> /\ Head(outbox).type = "CONNECT"
        /\ outbox' = Tail(outbox) /\ inbox' = Append(inbox, [type |-> "CONNACK", code |-> 5])
        /\ UNCHANGED <<tcp, _state, pingOutstanding, quietIn, quietOut, hubVars, others>>)

Fails ==
  \/ registering /\ Dps!Network /\ UNCHANGED <<stage, server, hubOwn>>
  \/ isInitialized /\ Network /\ UNCHANGED <<stage, server, dpsOwn>>
DpsClock == registering /\ (Dps!InClock \/ Dps!OutClock) /\ UNCHANGED <<stage, server, hubOwn>>
HubInClock == isInitialized /\ InClock /\ UNCHANGED <<stage, server, dpsOwn>>
HubOutClock == isInitialized /\ OutClock /\ UNCHANGED <<stage, server, dpsOwn>>

-----------------------------------------------------------------------------
AllNext ==
  \/ InitRegisters \/ Registers \/ Spins \/ InitReturns
  \/ SketchCalls \/ Loops \/ Works
  \/ ServiceServes \/ HubServes \/ HubPublishes \/ TokenExpires \/ HubRefuses
  \/ Fails \/ DpsClock \/ HubInClock \/ HubOutClock

(* As in the two modules: the device runs on, ten seconds of waiting end,  *)
(* the sketch comes back to azureIoTLoop, the hub serves what reached it.  *)
(* Nothing is asked of the service, nor that azureIoTInit is called.       *)
AllFairness ==
  /\ WF_allVars(Registers) /\ WF_allVars(TimesOut) /\ WF_allVars(InitReturns)
  /\ WF_allVars(Works) /\ SF_allVars(Loops)
  /\ WF_allVars(HubServes) /\ WF_allVars(HubInClock) /\ WF_allVars(HubOutClock)

AllSpec == AllInit /\ [][AllNext]_allVars /\ AllFairness

-----------------------------------------------------------------------------
(* Properties.  SubscribedWhenConnected and LoneTwinAnswered are those of  *)
(* AzureIoTHub.                                                            *)

(* No call of either part leaves a connection open that the hub's client   *)
(* does not regard as its own, or regards as its own one that is closed.   *)
NothingLeftOpen == ~registering => NoStrayConnection

(* Each client talks to its own server: neither finds the connection of    *)
(* the other, also after a registration or a connect that failed.          *)
RightServer ==
  /\ registering /\ tcp # "down" => server = "dps"
  /\ ~registering /\ tcp # "down" => server = "hub"

(* AzureIoTDPS.h: true means registered, and assignedHub is what the       *)
(* service assigned.                                                       *)
TrueMeansAssigned == Dps!TrueMeansAssigned

(* The $rid of a response is not compared with the request's.  It need not *)
(* be: no request is sent before the last one's answer has been used.      *)
OneRequestAtATime == registering => Dps!OneRequestAtATime

(* The registration comes to an end, if only by giving up, unless a 200    *)
(* names no hub.                                                           *)
Terminates == registering ~> ~registering \/ Dps!Spinning

(* The device always comes back to a hub that is there, until the one      *)
(* token it has made runs out: also when a connection was refused, lost,   *)
(* or ended without a word, which only the keep-alive finds out.           *)
StaysConnected == isInitialized ~> (IsConnected /\ tcp = "up") \/ tokenExpired
=============================================================================
