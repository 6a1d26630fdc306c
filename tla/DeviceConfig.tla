---------------------------- MODULE DeviceConfig ----------------------------
(***************************************************************************)
(* cores/arduino/config/DeviceConfig.cpp and DeviceConfigRuntime.cpp over  *)
(* the secure element: the board starts, DeviceConfig_LoadAll copies the   *)
(* settings of the active profile into RAM, then the console saves         *)
(* settings or enables the secure channel.  The chip may fail a command    *)
(* and the power may go at any moment.                                     *)
(***************************************************************************)
EXTENDS Eeprom, Profiles

CONSTANTS
  Active,       (* the active profile                                      *)
  Editable,     (* bound: the settings the console saves                   *)
  Id,           (* what tells one value of a setting from another          *)
  Lengths,      (* bound: the lengths of the values saved, in chunks       *)
  MaxSaves,     (* bound: calls of DeviceConfig_Save                       *)
  MaxPowerFails (* bound: power failures                                   *)

ASSUME ActiveAssumption == Active \in Profile /\ Editable \subseteq Available(Active)
ASSUME ErasedAssumption == Erased \notin [id : Id, k : 1 .. 7, last : BOOLEAN]
ASSUME CountsAssumption == Lengths \subseteq Nat /\ MaxSaves \in Nat /\ MaxPowerFails \in Nat

VARIABLES
  call,         (* "off", "idle", "save", "load" or "enable"               *)
  waiting,      (* the call waits for the chip                             *)
  setting,      (* the setting being saved or loaded                       *)
  value,        (* the value being saved                                   *)
  part,         (* which of the setting's zones is next                    *)
  turn,         (* the place in LoadAll's list it has come to              *)
  buffer,       (* what it has read of the current one                     *)
  success,      (* LoadAll's `success`                                     *)
  ram,          (* the loaded text of each setting                         *)
  acked,        (* history: the value of the last save that returned 0     *)
  doubt,        (* history: values of saves since then that did not        *)
  hurt,         (* history: settings some command of which failed          *)
  harm,         (* history: enableHostSecureChannel has done no harm, has  *)
                (* left chunks unsealed ("lost"), or has sealed the wrong  *)
                (* data ("mixed")                                          *)
  saves, powerFails

callVars == <<call, waiting, setting, value, part, turn, buffer, success, ram>>
history == <<acked, doubt, hurt, harm, saves, powerFails>>
vars == <<eepromVars, callVars, history>>

-----------------------------------------------------------------------------
(* A value is a string of len chunks; its last piece holds the final NUL.  *)
Piece(v, k) == [id |-> v.id, k |-> k, last |-> k = v.len]
Pieces(v) == [k \in 1 .. v.len |-> Piece(v, k)]

(* What the chip holds under the active profile, and where.                *)
Held == Available(Active)
ZonesOf == [s \in Held |-> Zones(Active, s)]

(* A setting has at most three zones: how many chunks its j-th one has, 0  *)
(* when there is none, and how many come before it.                        *)
Size(s, j) == IF j \in DOMAIN ZonesOf[s] THEN Chunks(ZonesOf[s][j]) ELSE 0
Before(s, j) == (IF j > 1 THEN Size(s, 1) ELSE 0) + (IF j > 2 THEN Size(s, 2) ELSE 0)
                                                  + (IF j > 3 THEN Size(s, 3) ELSE 0)

(* DeviceConfig_GetMaxLen, in chunks.                                      *)
MaxLen(s) == Size(s, 1) + Size(s, 2) + Size(s, 3)

(* The chunks of a setting's zones, in order: its k-th chunk is in the     *)
(* zone PartOf(s, k).                                                      *)
PartOf(s, k) == IF k <= Before(s, 2) THEN 1 ELSE IF k <= Before(s, 3) THEN 2 ELSE 3
CellOf(s, k) == <<ZonesOf[s][PartOf(s, k)], k - Before(s, PartOf(s, k))>>
Cells == [s \in Held |-> [k \in 1 .. MaxLen(s) |-> CellOf(s, k)]]

Value(s) == [id : Id, len : Lengths \cap 1 .. MaxLen(s)]
Content == {Erased} \cup [id : Id, k : 1 .. 7, last : BOOLEAN]
NoValue == [id |-> Erased, len |-> 0]

(* The string in a row of chunks: up to the first NUL.                     *)
Text(row) ==
  LET ends == {j \in DOMAIN row : row[j] = Erased \/ row[j].last} IN
  IF ends = {} THEN row
  ELSE LET j == CHOOSE i \in ends : \A h \in ends : i <= h IN
       SubSeq(row, 1, IF row[j] = Erased THEN j - 1 ELSE j)

Row(s) == [k \in DOMAIN Cells[s] |-> cell[Cells[s][k]]]
Stored(s) == Text(Row(s))

(* DeviceConfig_LoadAll goes through these, in this order, and reads those *)
(* the profile has; it never reads DEVICE_CERT.                            *)
LoadOrder ==
  <<"WIFI_SSID", "WIFI_PASSWORD", "DEVICE_PASSWORD", "BROKER_URL", "CA_CERT", "CLIENT_CERT",
    "CLIENT_KEY", "CONNECTION_STRING", "DEVICE_ID", "DPS_ENDPOINT", "SCOPE_ID",
    "REGISTRATION_ID", "SYMMETRIC_KEY">>
Due(i) == IF i <= Len(LoadOrder) THEN LoadOrder[i] ELSE "none"

(* A failed read of these does not make LoadAll return false.              *)
Tolerated == {"DEVICE_ID", "DPS_ENDPOINT", "SCOPE_ID", "REGISTRATION_ID", "SYMMETRIC_KEY"}

-----------------------------------------------------------------------------
Init ==
  /\ EepromInit
  /\ call = "off" /\ waiting = FALSE
  /\ setting = "none" /\ value = NoValue
  /\ part = 1 /\ turn = 1 /\ buffer = <<>> /\ success = TRUE
  /\ ram = [s \in Held |-> <<>>]
  /\ acked = [s \in Held |-> {}]
  /\ doubt = [s \in Held |-> {}]
  /\ hurt = {} /\ harm = "none" /\ saves = 0 /\ powerFails = 0

(* main: DeviceConfig_Init, then DeviceConfig_LoadAll, which returns false *)
(* at once without a profile.                                              *)
Boot ==
  /\ call = "off"
  /\ call' = "load"
  /\ turn' = (IF Active = "NONE" THEN Len(LoadOrder) + 1 ELSE 1)
  /\ setting' = Due(turn') /\ part' = 1 /\ buffer' = <<>> /\ success' = (Active # "NONE")
  /\ UNCHANGED <<eepromVars, waiting, value, ram, history>>

CurrentZone == ZonesOf[setting][part]

(* The chunks the buffer in RAM reaches into: s_deviceId one, the others   *)
(* all of the setting.                                                     *)
BufferChunks == IF setting = "DEVICE_ID" THEN 1 ELSE Chunks(CurrentZone)

(* The settings whose zone is larger than their buffer in RAM.             *)
Cramped == IF Active = "MQTT_USERPASS" THEN {"DEVICE_ID", "DEVICE_PASSWORD"} ELSE {}

CutShort(t) == [t EXCEPT ![Len(t)].last = FALSE]

(* The string in RAM: DeviceConfig_Read puts a NUL in the buffer's last    *)
(* byte, so a string that ends in the last chunk of a cramped setting may  *)
(* lose its end; which strings are too long, lengths in chunks do not say. *)
Loaded(s, row) ==
  LET t == Text(row) IN
  {t} \cup (IF s \in Cramped /\ Len(t) = Len(row) THEN {CutShort(t)} ELSE {})

LoadZone ==
  /\ call = "load" /\ ~waiting /\ setting \in Held
  /\ StartRead(CurrentZone, BufferChunks)
  /\ waiting' = TRUE
  /\ UNCHANGED <<call, setting, value, part, turn, buffer, success, ram, history>>

LoadNext ==
  turn' = turn + 1 /\ setting' = Due(turn + 1) /\ part' = 1 /\ buffer' = <<>>

(* DeviceConfig_IsSettingAvailable: a setting without a zone is passed by. *)
LoadSkip ==
  /\ call = "load" /\ turn <= Len(LoadOrder) /\ setting \notin Held
  /\ LoadNext
  /\ UNCHANGED <<eepromVars, call, waiting, value, success, ram, history>>

AfterErrorIgnored == success                              \* wrong: any read may fail
AfterError == success /\ setting \in Tolerated

LoadGot ==
  /\ call = "load" /\ waiting /\ op = "none"
  /\ waiting' = FALSE /\ EepromReturn
  /\ \/ /\ result = "ok" /\ part < Len(ZonesOf[setting])
        /\ part' = part + 1 /\ buffer' = buffer \o got
        /\ UNCHANGED <<setting, turn, success, ram>>
     \/ /\ result = "ok" /\ part = Len(ZonesOf[setting])
        /\ LoadNext
        /\ \E text \in Loaded(setting, buffer \o got) : ram' = [ram EXCEPT ![setting] = text]
        /\ UNCHANGED success
     \/ /\ result = "error"
        /\ LoadNext
        /\ ram' = [ram EXCEPT ![setting] = <<>>]
        /\ success' = AfterError
  /\ UNCHANGED <<call, value, history>>

LoadDone ==
  /\ call = "load" /\ turn > Len(LoadOrder)
  /\ call' = "idle" /\ success' = TRUE
  /\ UNCHANGED <<eepromVars, waiting, setting, value, part, turn, buffer, ram, history>>

-----------------------------------------------------------------------------
(* DeviceConfig_Save: a value that fits is cut over the zones in order.    *)
SaveBegin(s, v) ==
  /\ call = "idle" /\ saves < MaxSaves
  /\ v.len <= MaxLen(s)
  /\ call' = "save" /\ setting' = s /\ value' = v /\ part' = 1
  /\ doubt' = [doubt EXCEPT ![s] = @ \cup {v}]
  /\ saves' = saves + 1
  /\ UNCHANGED <<eepromVars, waiting, turn, buffer, success, ram, acked, hurt, harm,
                 powerFails>>

(* What is written once the current zone is: all of the value, or as much  *)
(* as the zones up to this one take.                                       *)
Reach ==
  LET room == Before(setting, part) + Chunks(CurrentZone) IN
  IF value.len <= room THEN value.len ELSE room

PortionFromStart ==                                       \* wrong: value, not value + written
  SubSeq(Pieces(value), 1, Reach - Before(setting, part))

(* The pieces of the value that go to the current zone.                    *)
Portion == SubSeq(Pieces(value), Before(setting, part) + 1, Reach)

SaveZone ==
  /\ call = "save" /\ ~waiting
  /\ StartWrite(CurrentZone, Portion)
  /\ waiting' = TRUE
  /\ UNCHANGED <<call, setting, value, part, turn, buffer, success, ram, history>>

SaveReturnsAdvanced ==                                    \* wrong: keeps its place
  call' = "idle" /\ setting' = "none" /\ value' = NoValue /\ part' = part + 1
SaveReturns == call' = "idle" /\ setting' = "none" /\ value' = NoValue /\ part' = 1

SaveGot ==
  /\ call = "save" /\ waiting /\ op = "none"
  /\ waiting' = FALSE /\ EepromReturn
  /\ \/ /\ result = "ok" /\ Reach < value.len
        /\ part' = part + 1
        /\ UNCHANGED <<call, setting, value, acked, doubt>>
     \/ /\ result = "ok" /\ Reach = value.len                         \* returns 0
        /\ SaveReturns
        /\ acked' = [acked EXCEPT ![setting] = {value}]
        /\ doubt' = [doubt EXCEPT ![setting] = {}]
     \/ result = "error" /\ SaveReturns /\ UNCHANGED <<acked, doubt>>    \* returns -1
  /\ UNCHANGED <<turn, buffer, success, ram, hurt, harm, saves, powerFails>>

-----------------------------------------------------------------------------
(* The console's enable_secure.                                            *)
EnableBegin ==
  /\ call = "idle"
  /\ StartEnable \/ EnableAgain
  /\ call' = "enable"
  /\ UNCHANGED <<waiting, setting, value, part, turn, buffer, success, ram, history>>

EnableGot ==
  /\ call = "enable" /\ op = "none"
  /\ call' = "idle" /\ EepromReturn
  /\ UNCHANGED <<waiting, setting, value, part, turn, buffer, success, ram, history>>

(* The chip carries out the next command.                                  *)
ChipStep ==
  /\ EepromStep
  /\ hurt' = IF faults' # faults /\ call # "enable" THEN hurt \cup {setting} ELSE hurt
  /\ harm' = IF call = "enable" /\ faults' # faults
               THEN IF op = "fetch" \/ harm = "mixed" THEN "mixed" ELSE "lost"
               ELSE harm
  /\ UNCHANGED <<callVars, acked, doubt, saves, powerFails>>

PowerFail ==
  /\ call # "off" /\ powerFails < MaxPowerFails
  /\ powerFails' = powerFails + 1
  /\ EepromReturn
  /\ call' = "off" /\ waiting' = FALSE /\ setting' = "none" /\ value' = NoValue
  /\ turn' = 1 /\ buffer' = <<>> /\ part' = 1 /\ success' = TRUE
  /\ ram' = [s \in Held |-> <<>>]
  /\ harm' = IF op \in {"fetch", "seal"} /\ keyed /\ harm = "none" THEN "lost" ELSE harm
  /\ UNCHANGED <<acked, doubt, hurt, saves>>

Next ==
  \/ Boot
  \/ LoadSkip
  \/ LoadZone
  \/ LoadGot
  \/ LoadDone
  \/ \E s \in Editable : \E v \in Value(s) : SaveBegin(s, v)
  \/ SaveZone
  \/ SaveGot
  \/ EnableBegin
  \/ EnableGot
  \/ ChipStep
  \/ PowerFail

Spec == Init /\ [][Next]_vars

-----------------------------------------------------------------------------
(* Properties.                                                             *)

CallTypeOK ==
  /\ call \in {"off", "idle", "save", "load", "enable"}
  /\ waiting \in BOOLEAN /\ success \in BOOLEAN
  /\ setting \in Setting \cup {"none"}
  /\ value # NoValue => setting \in Held /\ value \in Value(setting)
  /\ part \in 1 .. 3
  /\ turn \in 1 .. Len(LoadOrder) + 1
  /\ buffer \in Seq(Content)
  /\ ram \in [Held -> Seq(Content)]

HistoryTypeOK ==
  /\ DOMAIN acked = Held /\ DOMAIN doubt = Held
  /\ \A s \in Held : acked[s] \subseteq Value(s) /\ doubt[s] \subseteq Value(s)
  /\ hurt \subseteq Held
  /\ harm \in {"none", "lost", "mixed"}
  /\ saves \in 0 .. MaxSaves /\ powerFails \in 0 .. MaxPowerFails

TypeOK == EepromTypeOK(Content) /\ CallTypeOK /\ HistoryTypeOK

(* The strings a setting was last known to have; nothing saved reads "".   *)
Acked(s) == IF acked[s] = {} THEN {<<>>} ELSE {Pieces(v) : v \in acked[s]}

(* DeviceConfig_Save: once it returned 0 the value stays readable, through *)
(* power failures, saves and failures of the other settings, and the move  *)
(* to the secure channel, until the setting itself is saved or fails.      *)
Durable ==
  \A s \in Held :
    doubt[s] = {} /\ s \notin hurt /\ harm = "none" => Stored(s) \in Acked(s)

(* A setting of one chunk is replaced at once: after a save or an enabling *)
(* of the secure channel that failed or was cut off it is the old value,   *)
(* the new one, or, when the chip refused a chunk, empty; never a mixture. *)
(* While the secure channel is off this is true of every setting of one    *)
(* zone.                                                                   *)
SmallSettingsWhole ==
  \A s \in Held :
    harm # "mixed" /\ (MaxLen(s) = 1 \/ (Len(ZonesOf[s]) = 1 /\ ~keyed)) =>
      \/ Stored(s) \in Acked(s) \cup {Pieces(v) : v \in doubt[s]}
      \/ (s \in hurt \/ harm = "lost") /\ Stored(s) = <<>>

(* Zones are not shared: saving or loading one setting, even when the chip *)
(* fails, never changes what another one holds.                            *)
OthersKept ==
  call \in {"save", "load"} =>
    \A s \in Held \ {setting} : Stored(s)' = Stored(s)
OthersUntouched == [][OthersKept]_vars

RamHas(s) == ram[s] \in Loaded(s, Row(s))

(* DeviceConfig_LoadAll returns true only when RAM has what the chip has,  *)
(* as far as the buffer in RAM takes it.                                   *)
LoadAllSound ==
  call = "load" /\ turn > Len(LoadOrder) /\ success =>
    \A s \in Held \ (Tolerated \cup {"DEVICE_CERT"}) : RamHas(s)

(* EEPROMInterface.h: enabling the secure channel encrypts all data in the *)
(* chip, and 1 is returned when it has already been enabled.               *)
EnabledMeansEncrypted == result = "already" => sealed = Chunk
=============================================================================
