------------------------------- MODULE Eeprom -------------------------------
(***************************************************************************)
(* cores/arduino/EEPROMInterface.cpp: the data zones of the STSAFE-A100    *)
(* secure element behind write, read and enableHostSecureChannel.  A step  *)
(* is one command sent to the chip, since the power may fail between two   *)
(* of them.  A zone is a row of chunks of 480 bytes, the most an envelope  *)
(* carries; what a chunk holds is left to the caller.  A plain command     *)
(* moves a whole buffer; once the key is set every chunk has to be in an   *)
(* envelope, and a plain chunk is unreadable.                              *)
(***************************************************************************)
EXTENDS Integers, Sequences, FiniteSets

CONSTANTS
  Erased,      (* content of a chunk of zeros: it reads as an empty string *)
  MaxFaults    (* bound: commands the chip fails                           *)

(* STSAFE_ZONE_i_SIZE; the zones 1, 4 and 9 have size 0 and are refused.   *)
ZoneSize ==
  [z \in {0, 2, 3, 5, 6, 7, 8, 10} |->
     CASE z = 0 -> 976 [] z = 2 -> 192 [] z = 3 -> 120 [] z = 5 -> 584
       [] z = 6 -> 680 [] z = 7 -> 784 [] z = 8 -> 880 [] z = 10 -> 88]
Zone == DOMAIN ZoneSize
MaxEncryptDataSize == 480
Chunks(z) == (ZoneSize[z] + MaxEncryptDataSize - 1) \div MaxEncryptDataSize
Chunk == {c \in Zone \X (1 .. 3) : c[2] <= Chunks(c[1])}

ASSUME FaultsAssumption == MaxFaults \in Nat

VARIABLES
  cell,        (* what each chunk holds                                    *)
  sealed,      (* the chunks stored in an envelope                         *)
  keyed,       (* the key is set: isHostSecureChannelEnabled               *)
  op,          (* "none", or the operation under way                       *)
  zone,        (* its zone                                                 *)
  data,        (* the chunks to write                                      *)
  want,        (* how many chunks to read                                  *)
  got,         (* the chunks read so far; enable's buffer                  *)
  at,          (* chunks done in this phase                                *)
  result,      (* "ok", "already" or "error"; "none" before the end        *)
  faults       (* commands failed so far                                   *)

opVars == <<op, zone, data, want, got, at, result>>
eepromVars == <<cell, sealed, keyed, opVars, faults>>

EepromInit ==
  /\ cell = [c \in Chunk |-> Erased]
  /\ sealed = {} /\ keyed = FALSE
  /\ op = "none" /\ zone = 0 /\ data = <<>> /\ want = 0 /\ got = <<>> /\ at = 0
  /\ result = "none" /\ faults = 0

(* The chip fails a command.                                               *)
Fault == faults < MaxFaults /\ faults' = faults + 1
NoFault == UNCHANGED faults

Finish(r) == op' = "none" /\ result' = r

(* The operation is over, or its stack frame is gone: nothing is left.     *)
Forget ==
  /\ op' = "none" /\ zone' = 0 /\ data' = <<>> /\ want' = 0 /\ got' = <<>> /\ at' = 0
  /\ result' = "none"

-----------------------------------------------------------------------------
(* read                                                                    *)

StartRead(z, n) ==
  /\ op = "none"
  /\ op' = "read" /\ zone' = z /\ want' = n /\ got' = <<>> /\ at' = 0
  /\ UNCHANGED <<cell, sealed, keyed, data, result, faults>>

PlainRead ==
  /\ op = "read" /\ ~keyed
  /\ \/ /\ NoFault
        /\ got' = [i \in 1 .. want |-> cell[<<zone, i>>]]
        /\ Finish("ok")
     \/ Fault /\ Finish("error") /\ UNCHANGED got
  /\ UNCHANGED <<cell, sealed, keyed, zone, data, want, at>>

(* readWithEnvelope, also the first half of writeWithEnvelope.  A chunk    *)
(* that cannot be read is overwritten with zeros before -1 is returned,    *)
(* unless that store fails as well, which nobody looks at.                 *)
EnvelopeGet ==
  /\ op \in {"read", "write"} /\ keyed /\ at < want
  /\ LET c == <<zone, at + 1>> IN
       \/ /\ c \in sealed /\ NoFault
          /\ got' = Append(got, cell[c])
          /\ at' = at + 1
          /\ IF op = "read" /\ at' = want THEN Finish("ok") ELSE UNCHANGED <<op, result>>
          /\ UNCHANGED <<cell, sealed>>
       \/ /\ Finish("error")
          /\ \/ /\ IF c \in sealed THEN Fault ELSE NoFault
                /\ cell' = [cell EXCEPT ![c] = Erased]
                /\ sealed' = sealed \cup {c}
             \/ Fault /\ UNCHANGED <<cell, sealed>>
          /\ UNCHANGED <<got, at>>
  /\ UNCHANGED <<keyed, zone, data, want>>

-----------------------------------------------------------------------------
(* write                                                                   *)

(* checkZoneSize refuses what does not fit before any command is sent; the *)
(* callers have cut their data to the zone.                                *)
StartWrite(z, d) ==
  /\ op = "none"
  /\ Len(d) <= Chunks(z)
  /\ op' = "write" /\ zone' = z /\ data' = d /\ want' = Len(d) /\ got' = <<>> /\ at' = 0
  /\ UNCHANGED <<cell, sealed, keyed, result, faults>>

HoldingLess(d, z) ==                                      \* wrong: the last chunk is missed
  [c \in Chunk |-> IF c[1] = z /\ c[2] < Len(d) THEN d[c[2]] ELSE cell[c]]

Holding(d, z) == [c \in Chunk |-> IF c[1] = z /\ c[2] <= Len(d) THEN d[c[2]] ELSE cell[c]]

PlainWrite ==
  /\ op = "write" /\ ~keyed
  /\ \/ NoFault /\ cell' = Holding(data, zone) /\ Finish("ok")
     \/ Fault /\ Finish("error") /\ UNCHANGED cell
  /\ UNCHANGED <<sealed, keyed, zone, data, want, got, at>>

(* writeWithEnvelope, second half: one store per chunk.                    *)
EnvelopeStore ==
  /\ op = "write" /\ keyed /\ at >= want
  /\ LET i == at - want + 1
         c == <<zone, i>> IN
       \/ /\ NoFault
          /\ cell' = [cell EXCEPT ![c] = data[i]]
          /\ sealed' = sealed \cup {c}
          /\ at' = at + 1
          /\ IF i = Len(data) THEN Finish("ok") ELSE UNCHANGED <<op, result>>
       \/ Fault /\ Finish("error") /\ UNCHANGED <<cell, sealed, at>>
  /\ UNCHANGED <<keyed, zone, data, want, got>>

-----------------------------------------------------------------------------
(* enableHostSecureChannel(1): set the key, then read each zone plainly    *)
(* and store it back in envelopes.                                         *)

EnableAgain ==
  /\ op = "none" /\ keyed
  /\ Finish("already")
  /\ UNCHANGED <<cell, sealed, keyed, zone, data, want, got, at, faults>>

StartEnable ==
  /\ op = "none" /\ ~keyed
  /\ \/ NoFault /\ keyed' = TRUE                     \* Init_Perso, its result
     \/ Fault /\ UNCHANGED keyed                     \* not looked at
  /\ op' = "fetch" /\ zone' = 0 /\ got' = <<>> /\ at' = 0
  /\ UNCHANGED <<cell, sealed, data, want, result>>

(* readWithoutEnvelope(buf, ...): its result is not looked at, so after a  *)
(* failure buf still holds the zone before.  The rest of buf is whatever   *)
(* malloc gave, here zeros.                                                *)
EnableFetch ==
  /\ op = "fetch"
  /\ op' = "seal" /\ at' = 0
  /\ \/ NoFault /\ got' = [i \in 1 .. Chunks(zone) |-> cell[<<zone, i>>]]
     \/ Fault /\ got' = [i \in 1 .. Chunks(zone) |-> IF i <= Len(got) THEN got[i] ELSE Erased]
  /\ UNCHANGED <<cell, sealed, keyed, zone, data, want, result>>

ZonesAfter(z) == {y \in Zone : y > z}

EnableStore ==
  /\ op = "seal"
  /\ LET c == <<zone, at + 1>> IN
       \/ /\ keyed /\ NoFault
          /\ cell' = [cell EXCEPT ![c] = got[at + 1]]
          /\ sealed' = sealed \cup {c}
          /\ IF at + 1 < Chunks(zone)
               THEN at' = at + 1 /\ UNCHANGED <<op, zone, result>>
               ELSE /\ at' = 0
                    /\ IF ZonesAfter(zone) = {}
                         THEN Finish("ok") /\ UNCHANGED zone
                         ELSE /\ zone' = CHOOSE y \in ZonesAfter(zone) :
                                           \A x \in ZonesAfter(zone) : y <= x
                              /\ op' = "fetch"
                              /\ UNCHANGED result
       \/ /\ IF keyed THEN Fault ELSE NoFault         \* no envelope without the key
          /\ Finish("error")
          /\ UNCHANGED <<cell, sealed, at, zone>>
  /\ UNCHANGED <<keyed, data, want, got>>

-----------------------------------------------------------------------------
EepromStep ==
  \/ PlainRead
  \/ EnvelopeGet
  \/ PlainWrite
  \/ EnvelopeStore
  \/ EnableFetch
  \/ EnableStore

(* The caller has the result, or the power fails: the chip keeps its zones *)
(* and the flash keeps the key.                                            *)
EepromReturn == Forget /\ UNCHANGED <<cell, sealed, keyed, faults>>

EepromTypeOK(Content) ==
  /\ cell \in [Chunk -> Content]
  /\ sealed \subseteq Chunk
  /\ keyed \in BOOLEAN
  /\ op \in {"none", "read", "write", "fetch", "seal"}
  /\ zone \in Zone
  /\ data \in Seq(Content) /\ got \in Seq(Content)
  /\ want \in 0 .. 3 /\ at \in 0 .. 6
  /\ result \in {"none", "ok", "already", "error"}
  /\ faults \in 0 .. MaxFaults
=============================================================================
