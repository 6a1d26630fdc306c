------------------------- MODULE OTAFirmwareUpdate -------------------------
(***************************************************************************)
(* cores/arduino/system/OTAFirmwareUpdate.cpp: a sketch downloads firmware *)
(* into the flash partition OTA_TEMP, once or again, and has it installed. *)
(* The callback works on three static variables, and erases nothing before *)
(* it writes.  A CRC-16 is represented by the sequence of pieces it was    *)
(* computed from.                                                          *)
(***************************************************************************)
EXTENDS HttpsRequest, Integers

CONSTANTS
  Room,        (* pieces the partition holds                               *)
  Blank,       (* what is in it where nothing was written                  *)
  Garbled      (* ... and where two writes, or half of one, have met       *)

ASSUME RoomAssumption == Room \in Nat

VARIABLES
  flash,       (* external: the partition                                  *)
  flashIdx, body_length, contexCRC16,
  result,      (* what OTADownloadFirmware returned last, 0 before         *)
  crc16Checksum, (* ... and what it left in the variable given to it       *)
  staged,      (* external: the size and the checksum given to the system  *)
  fresh,       (* history: the places blank when this download began       *)
  overtaken    (* history: a download began after staged was given         *)

statics == <<flashIdx, body_length, contexCRC16>>
held == <<result, crc16Checksum, staged, fresh, overtaken>>
vars == <<socketVars, requestVars, flash, statics, held>>

Nothing == [size |-> 0, crc |-> <<>>]

Init ==
  /\ SocketInit /\ RequestInit
  /\ flash \in [1 .. Room -> {Blank, Garbled}]
  /\ flashIdx = 0 /\ body_length = 0 /\ contexCRC16 = <<>>
  /\ result = 0 /\ crc16Checksum = <<>> /\ staged = Nothing
  /\ fresh = {} /\ overtaken = FALSE

-----------------------------------------------------------------------------
(* What the download finds, and whose place it takes.                      *)
Overwrites ==
  /\ fresh' = {i \in 1 .. Room : flash[i] = Blank}
  /\ overtaken' = (staged # Nothing)

DownloadOn(ca, r) ==                                      \* wrong: flashIdx = 0 left out
  /\ pc = "idle"
  /\ body_length' = 0 /\ contexCRC16' = <<>>
  /\ NewRequest(ca, r)
  /\ result' = 0 /\ crc16Checksum' = <<>>
  /\ Overwrites
  /\ UNCHANGED <<flash, flashIdx, staged>>

(* OTADownloadFirmware, up to client.send; the sketch gives each call a    *)
(* variable of its own for the checksum.                                   *)
Download(ca, r) ==
  /\ pc = "idle"
  /\ flashIdx' = 0 /\ body_length' = 0 /\ contexCRC16' = <<>>
  /\ NewRequest(ca, r)
  /\ result' = 0 /\ crc16Checksum' = <<>>
  /\ Overwrites
  /\ UNCHANGED <<flash, staged>>

Request ==
  /\ \/ Connect \/ SendHello \/ HandshakeReads \/ HandshakeTimesOut
     \/ SendHeader \/ SendEnding
     \/ RecvHalf \/ ReadsHead \/ RecvEnds
  /\ UNCHANGED <<flash, statics, held>>

(* MicoFlashWrite, external, moves flashIdx.  Whether it erases is not     *)
(* known here: what it makes of a place that is not blank is open.         *)
Written(old, p) == IF old = Blank THEN {p} ELSE {p, Garbled}
FlashWrites(p) ==
  /\ flashIdx < Room
  /\ \E c \in Written(flash[flashIdx + 1], p) : flash' = [flash EXCEPT ![flashIdx + 1] = c]
  /\ flashIdx' = flashIdx + 1

(* It fails when the partition is full, or for reasons of its own with the *)
(* place half written.                                                     *)
FlashFails ==
  /\ \/ UNCHANGED flash
     \/ flashIdx < Room /\ flash' = [flash EXCEPT ![flashIdx + 1] = Garbled]
  /\ UNCHANGED flashIdx

CallbackGoesOn(p) ==                                      \* wrong: a failure is skipped
  \/ /\ FlashWrites(p)
     /\ contexCRC16' = Append(contexCRC16, p) /\ body_length' = body_length + 1
  \/ FlashFails /\ body_length' = body_length /\ UNCHANGED contexCRC16

(* After a failure every later piece is ignored.                           *)
getFwCallback(p) ==
  IF body_length < 0
    THEN UNCHANGED <<flash, statics>>
    ELSE \/ /\ FlashWrites(p)
            /\ contexCRC16' = Append(contexCRC16, p) /\ body_length' = body_length + 1
         \/ FlashFails /\ body_length' = -1 /\ UNCHANGED contexCRC16

Receive(k) ==
  /\ ReadsPiece(k)
  /\ getFwCallback(<<reply.image, k>>)
  /\ UNCHANGED held

(* After client.send.  A NULL response is read from all the same: what the *)
(* microcontroller has there, its first stack pointer, is no 200.  The     *)
(* client, and its socket with it, are destroyed.                          *)
Returns ==
  /\ pc \in {"returned", "failed"}
  /\ pc' = "idle" /\ NewSocket(secure) /\ heard' = "nothing" /\ sent' = 0
  /\ IF pc = "failed" \/ status # "200" THEN result' = -1
     ELSE IF body_length < 0 THEN result' = -2 ELSE result' = body_length
  /\ crc16Checksum' = IF result' > 0 THEN contexCRC16 ELSE crc16Checksum
  /\ UNCHANGED <<status, reply, flash, statics, staged, fresh, overtaken>>

(* OTAApplyNewFirmware with what the download returned.                    *)
OTAApplyNewFirmware ==
  /\ pc = "idle" /\ result > 0
  /\ \/ staged' = [size |-> result, crc |-> crc16Checksum] /\ overtaken' = FALSE
     \/ UNCHANGED <<staged, overtaken>>
  /\ UNCHANGED <<socketVars, requestVars, flash, statics, result, crc16Checksum, fresh>>

(* The board restarts, as it does to install what is staged, or because    *)
(* the power failed at any time.  What installs may erase the partition.   *)
Restart ==
  /\ NewSocket(secure)
  /\ pc' = "idle" /\ status' = "none" /\ heard' = "nothing" /\ sent' = 0 /\ UNCHANGED reply
  /\ flashIdx' = 0 /\ body_length' = 0 /\ contexCRC16' = <<>>
  /\ result' = 0 /\ crc16Checksum' = <<>> /\ staged' = Nothing
  /\ fresh' = {} /\ overtaken' = FALSE
  /\ flash' \in {flash, [i \in 1 .. Room |-> Blank]}

-----------------------------------------------------------------------------
Device == Request \/ (\E k \in 1 .. Pieces : Receive(k)) \/ Returns

Network == Server /\ UNCHANGED <<flash, statics, held>>

Next ==
  \/ \E ca \in BOOLEAN, r \in Replies : Download(ca, r)
  \/ Device
  \/ OTAApplyNewFirmware
  \/ Restart
  \/ Network

(* The device runs on.  Nothing is asked of the server.                    *)
Spec == Init /\ [][Next]_vars /\ WF_vars(Device)

-----------------------------------------------------------------------------
(* Properties.                                                             *)

Piece == Image \X (Nat \ {0})

TypeOK ==
  /\ SocketTypeOK /\ RequestTypeOK
  /\ flash \in [1 .. Room -> Piece \cup {Blank, Garbled}]
  /\ flashIdx \in 0 .. Room /\ body_length \in Int /\ contexCRC16 \in Seq(Piece)
  /\ result \in Int /\ crc16Checksum \in Seq(Piece)
  /\ staged \in [size : Nat, crc : Seq(Piece)]
  /\ fresh \subseteq 1 .. Room /\ overtaken \in BOOLEAN

(* ssl_recv and its buffer between TCP and mbed TLS: as long as memory     *)
(* lasts and the connection is not reset, what mbed TLS has taken, what is *)
(* kept for it and what TCP has are the server's bytes, each once and in   *)
(* order.                                                                  *)
StreamWhole ==
  secure /\ ~dropped /\ peer # "reset" /\ pc # "idle" =>
    LET waiting == _recv_buffer \o arrived IN
    /\ taken + Len(waiting) = sent
    /\ \A i \in DOMAIN waiting : waiting[i] = taken + i

(* OTADownloadFirmware, whatever the server, the connection, the flash and *)
(* earlier downloads did: a size returned is the size of what was received *)
(* from one image, from its start and without a gap, in one answer with    *)
(* status 200, and the checksum is that of these bytes.  They are what the *)
(* flash has from its start, wherever the download found it blank; nowhere *)
(* else is there anything from an earlier download that was not written    *)
(* over.  And so is what the system is told to install, until the sketch   *)
(* downloads again.                                                        *)
Describes(n, crc) ==
  /\ n \in 1 .. Room /\ Len(crc) = n
  /\ \A i \in 1 .. n :
       /\ crc[i] = <<reply.image, i>>
       /\ flash[i] \in {crc[i], Garbled}
       /\ i \in fresh => flash[i] = crc[i]
SizeTruthful ==
  /\ pc = "idle" /\ result > 0 => status = "200" /\ Describes(result, crc16Checksum)
  /\ staged # Nothing /\ ~overtaken => Describes(staged.size, staged.crc)

(* A download over TLS ends, whatever becomes of the server; one without   *)
(* TLS waits for bytes without a limit, and ends once the server closes or *)
(* resets the connection.                                                  *)
InCall == pc # "idle"
DownloadEnds == InCall /\ (secure \/ peer \in {"closed", "reset"}) ~> ~InCall

(* OTAFirmwareUpdate.h: "Return the size of the new firmware on success,   *)
(* otherwise return -1 if encounter network issue", of an answer that says *)
(* how long it is.                                                         *)
SizeOfTheFirmware == pc = "idle" /\ result > 0 /\ reply.sized => result = Pieces
=============================================================================
