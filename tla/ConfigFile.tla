----------------------------- MODULE ConfigFile -----------------------------
(***************************************************************************)
(* cores/arduino/config/DeviceConfigFile.cpp: settings kept as key=value   *)
(* lines in /fs/device.cfg.  ConfigFile_Save reads the file into memory,   *)
(* truncates it and writes the new content; the power may fail, and the    *)
(* file system or malloc may refuse, at each of these steps.  Two failures *)
(* it does not see: a read that gives less than the file, or nothing, or   *)
(* something else, and a flash that does not take what close() writes.     *)
(***************************************************************************)
EXTENDS Naturals, Sequences, FiniteSets

CONSTANTS
  Key,        (* the keys of the file-backed settings                      *)
  Val,        (* whole values                                              *)
  Comment,    (* the "key" of a line that begins with '#'                  *)
  Junk,       (* the "key" of a line that is no setting's                  *)
  Spoiled,    (* a value cut short, or with another line run into it       *)
  Absent,     (* no value: ConfigFile_Read returns 0                       *)
  Remains,    (* what memory or flash that nobody has written may hold,    *)
              (* read as a file                                            *)
  MaxLines    (* bound: lines in the file                                  *)

ASSUME KeyAssumption == Comment \notin Key /\ Junk \notin Key /\ Absent \notin Val \cup {Spoiled}
ASSUME LinesAssumption == MaxLines \in Nat

VARIABLES
  file,       (* the lines of /fs/device.cfg                               *)
  phase,      (* what ConfigFile_Save does next; "idle" outside of it      *)
  key, value, (* its arguments                                             *)
  new,        (* newContent                                                *)
  outcome,    (* how the last save ended: "ok", "error", or "cut"          *)
  before,     (* history: the file when that save began                    *)
  taken,      (* history: what that save has taken for the file            *)
  flushed     (* history: the flash has what that save wrote               *)

vars == <<file, phase, key, value, new, outcome, before, taken, flushed>>

(* The last line of a file may lack its newline: it is not ended.          *)
Line == [key : Key \cup {Comment, Junk}, val : Val \cup {Spoiled}, ended : BOOLEAN]
File == {f \in UNION {[1 .. n -> Line] : n \in 0 .. MaxLines} :
           \A i \in 1 .. Len(f) - 1 : f[i].ended}
Terminated(f) == f = <<>> \/ f[Len(f)].ended

ASSUME RemainsAssumption == Remains \subseteq File

-----------------------------------------------------------------------------
(* The first line of a key, 0 if there is none.                            *)
LineOf(f, k) ==
  IF \E i \in DOMAIN f : f[i].key = k
  THEN CHOOSE i \in DOMAIN f : f[i].key = k /\ \A j \in 1 .. i - 1 : f[j].key # k
  ELSE 0

(* read_key_from_file                                                      *)
Reads(f, k) == IF LineOf(f, k) = 0 THEN Absent ELSE f[LineOf(f, k)].val

EntryUnended(k, v) == [key |-> k, val |-> v, ended |-> FALSE]   \* wrong: no newline
Entry(k, v) == [key |-> k, val |-> v, ended |-> TRUE]

UpdatedByAppending(f, k, v) == Append(f, Entry(k, v))     \* wrong: the old line stays
UpdatedByFilter(f, k, v) ==                               \* wrong: comments are dropped
  Append(SelectSeq(f, LAMBDA l : l.key \notin {k, Comment}), Entry(k, v))

(* write_key_to_file, step 2: replace the first line of the key, or append *)
(* key=value\n, which runs into a last line that has no newline.           *)
Updated(f, k, v) ==
  CASE LineOf(f, k) # 0 -> [f EXCEPT ![LineOf(f, k)] = Entry(k, v)]
    [] LineOf(f, k) = 0 /\ Terminated(f) -> Append(f, Entry(k, v))
    [] OTHER -> [f EXCEPT ![Len(f)] = Entry(@.key, Spoiled)]

(* What a write or a read of f that stops early leaves: some lines, and    *)
(* perhaps part of the next, cut before its newline, in its value or in    *)
(* its key.                                                                *)
Pieces(l) ==
  {[l EXCEPT !.ended = FALSE], [l EXCEPT !.ended = FALSE, !.val = Spoiled],
   [key |-> IF l.key = Comment THEN Comment ELSE Junk, val |-> Spoiled, ended |-> FALSE]}
Stumps(f) ==
  {SubSeq(f, 1, n) : n \in 0 .. Len(f)} \cup
  UNION {{Append(SubSeq(f, 1, n - 1), p) : p \in Pieces(f[n])} : n \in DOMAIN f}

-----------------------------------------------------------------------------
(* The file may have been written by hand on the drive.                    *)
Init ==
  /\ file \in {f \in File : \A i \in DOMAIN f : f[i].val \in Val /\ f[i].key # Junk}
  /\ phase = "idle"
  /\ key \in Key /\ value \in Val
  /\ new = <<>> /\ outcome = "error" /\ before = file /\ taken = <<>> /\ flushed = TRUE

SaveBegin(k, v) ==
  /\ phase = "idle"
  /\ Len(Updated(file, k, v)) <= MaxLines
  /\ phase' = "read" /\ key' = k /\ value' = v
  /\ before' = file /\ taken' = <<>> /\ flushed' = TRUE
  /\ UNCHANGED <<file, new, outcome>>

SaveEnds(how) == phase' = "idle" /\ outcome' = how /\ new' = <<>>

(* Step 1.  Nothing is taken if the open fails, the file is over 64 KiB or *)
(* malloc has no room.  What read returns is not compared with the size: a *)
(* part counts as the file; and so does what the memory held before, when  *)
(* read fails, or the device under it, which reports nothing.              *)
Readings == Stumps(file) \cup Remains

(* Steps 1 and 2.                                                          *)
SaveRead ==
  /\ phase = "read"
  /\ \/ \E f \in Readings :
          /\ Len(Updated(f, key, value)) <= MaxLines
          /\ taken' = f /\ new' = Updated(f, key, value)
          /\ phase' = "truncate" /\ UNCHANGED outcome
     \/ SaveEnds("error") /\ UNCHANGED taken              \* no room for newContent
  /\ UNCHANGED <<file, key, value, before, flushed>>

(* Step 3: open with O_TRUNC.                                              *)
SaveTruncate ==
  /\ phase = "truncate"
  /\ \/ file' = <<>> /\ phase' = "write" /\ UNCHANGED <<outcome, new>>
     \/ file' \in {file, <<>>} /\ SaveEnds("error")
  /\ UNCHANGED <<key, value, before, taken, flushed>>

(* What is in the flash after the first part of new, or all of it, has     *)
(* been written: that, or, where the flash did not take it, some of the    *)
(* old file, of the new one or neither.                                    *)
Stores(w) ==
  \/ file' = w /\ flushed' = TRUE
  \/ file' \in Stumps(new) \cup Stumps(before) \cup Remains /\ flushed' = FALSE

SaveWriteUnchecked ==                                     \* wrong: written is not compared
  /\ phase = "write"
  /\ \E w \in Stumps(new) : Stores(w)
  /\ SaveEnds("ok")
  /\ UNCHANGED <<key, value, before, taken>>

(* write, whose result is compared, and close, in which the file system    *)
(* writes data and directory: its result is not looked at, and the device  *)
(* under it always returns 0.                                              *)
SaveWrite ==
  /\ phase = "write"
  /\ \E w \in Stumps(new) : Stores(w) /\ SaveEnds(IF w = new THEN "ok" ELSE "error")
  /\ UNCHANGED <<key, value, before, taken>>

PowerFail ==
  /\ IF phase = "write" THEN \E w \in Stumps(new) : Stores(w) ELSE UNCHANGED <<file, flushed>>
  /\ SaveEnds(IF phase = "idle" THEN outcome ELSE "cut")
  /\ UNCHANGED <<key, value, before, taken>>

Next ==
  \/ \E k \in Key, v \in Val : SaveBegin(k, v)
  \/ SaveRead
  \/ SaveTruncate
  \/ SaveWrite
  \/ PowerFail

Spec == Init /\ [][Next]_vars

-----------------------------------------------------------------------------
(* Properties.                                                             *)

TypeOK ==
  /\ file \in File /\ new \in File /\ before \in File /\ taken \in File
  /\ phase \in {"idle", "read", "truncate", "write"}
  /\ key \in Key /\ value \in Val
  /\ outcome \in {"ok", "error", "cut"}
  /\ flushed \in BOOLEAN

(* A save that returned 0, and whose bytes the flash has.                  *)
Saved == phase = "idle" /\ outcome = "ok" /\ flushed

(* It took the file, or a part of it, for the file.                        *)
ReadSome == taken \in Stumps(before)

(* DeviceConfigFile.h, ConfigFile_Save: creates or updates the entry for   *)
(* the setting, and 0 means success; of a save that has read all of the    *)
(* file and which the flash has not failed.                                *)
SavedIsRead == Saved /\ taken = before => Reads(file, key) = value

(* That is so when the new line does not run into an unended one, whatever *)
(* the save has taken for the file.                                        *)
SavedIsReadUnlessJoined ==
  Saved /\ (Terminated(taken) \/ LineOf(taken, key) # 0) => Reads(file, key) = value

LinesOf(f, k) == {i \in DOMAIN f : f[i].key = k}

(* A save that returned 0, of which the flash has all, has kept every      *)
(* other setting and comment whose line it has read, each on its line: all *)
(* of them if it has read the whole file.                                  *)
OthersKept ==
  Saved /\ ReadSome /\ Terminated(taken) =>
    /\ \A k \in Key \ {key} : LineOf(taken, k) # 0 \/ taken = before => Reads(file, k) = Reads(before, k)
    /\ \A i \in LinesOf(taken, Comment) : file[i] = before[i]

(* However reads are cut short, saves fail and the power goes, no save     *)
(* adds a second line for a setting (the reader would see only the first), *)
(* unless a failing flash has given it or left it something else.          *)
NoSecondLine ==
  ReadSome /\ flushed =>
    \A k \in Key : Cardinality(LinesOf(file, k)) <= 1 \/ LinesOf(file, k) \subseteq LinesOf(before, k)
=============================================================================
