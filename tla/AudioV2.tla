------------------------------ MODULE AudioV2 ------------------------------
(***************************************************************************)
(* libraries/AudioV2/src/AudioClassV2.cpp: a sketch that records into its  *)
(* buffers, plays them and stops, against the two interrupts that come     *)
(* when the DMA has moved a chunk of 512 bytes.  An interrupt runs to its  *)
(* end over the sketch and is one step; a call of the sketch is cut where  *)
(* an interrupt can come between two of its accesses.  The sketch starts   *)
(* nothing while something runs, as the examples do, so a start is cut     *)
(* only after it has started the DMA.  Positions in a buffer are counted   *)
(* in chunks after the WAV header, those of what is played in half chunks. *)
(***************************************************************************)
EXTENDS Naturals, Sequences

CONSTANTS
  Buffer,      (* the buffers of the sketch                                *)
  NoBuffer,    (* the null pointer                                         *)
  Room,        (* how many whole chunks fit behind the header of a buffer  *)
  MaxRoom,     (* ... and at most in any of them                           *)
  MaxHeard     (* bound: chunks heard in a recording with a callback       *)

ASSUME BufferAssumption ==
  /\ NoBuffer \notin Buffer
  /\ MaxRoom \in Nat /\ MaxHeard \in Nat
  /\ Room \in [Buffer -> 0 .. MaxRoom]

VARIABLES
  _audioState,
  _audioBuffer,
  _audioBufferSize,       (* in whole chunks                               *)
  _recordCursor, _playCursor,
  dma,                    (* the transfer under way: "record", "play", "off" *)
  moved,                  (* halves of its chunk moved                     *)
  heard,                  (* the number, in this recording, of its chunk   *)
  _record_buffer,         (* which chunk each half belongs to              *)
  playing,                (* the position of the chunk in transmission...  *)
  halves,                 (* ... and how many of its halves are sent       *)
  content,                (* the sketch's buffers: chunks...               *)
  header,                 (* ... and the two sizes in the WAV header       *)
  pc,                     (* where the sketch is in its call               *)
  local,                  (* the call's copy of a cursor                   *)
  dataReady,              (* set by the sketch's recordCallback            *)
  taken,                  (* what readFromRecordBuffer copied, by halves   *)
  played,                 (* history: half chunks transmitted since startPlay *)
  early                   (* history: ... the first before it moved its cursor *)

cursors == <<_audioState, _audioBuffer, _audioBufferSize, _recordCursor, _playCursor>>
hardware == <<dma, moved, heard, _record_buffer, playing, halves>>
sketch == <<pc, local, dataReady, taken>>
history == <<played, early>>
vars == <<cursors, hardware, content, header, sketch, history>>

States == {"INIT", "RECORDING", "PLAYING", "RECORDING_FINISH", "PLAYING_FINISH"}
Running == _audioState \in {"RECORDING", "PLAYING"}

Init ==
  /\ _audioState = "INIT" /\ _audioBuffer = NoBuffer /\ _audioBufferSize = 0
  /\ _recordCursor = 0 /\ _playCursor = 0
  /\ dma = "off" /\ moved = 0 /\ heard = 0 /\ _record_buffer = <<0, 0>>
  /\ playing = 0 /\ halves = 0
  /\ content = [b \in Buffer |-> [i \in 1 .. Room[b] |-> 0]]
  /\ header = [b \in Buffer |-> [file |-> 0, data |-> 0]]
  /\ pc = "idle" /\ local = 0 /\ dataReady = FALSE /\ taken = <<>>
  /\ played = <<>> /\ early = FALSE

-----------------------------------------------------------------------------
(* The sketch starts.                                                      *)

(* format, which the examples call before they start.                      *)
Format ==
  /\ pc = "idle" /\ ~Running
  /\ _audioState' = "INIT"
  /\ UNCHANGED <<_audioBuffer, _audioBufferSize, _recordCursor, _playCursor, hardware,
                 content, header, sketch, history>>

(* BSP_AUDIO_In_Out_Transfer.                                              *)
Transfer(n) == dma' = "record" /\ moved' = 0 /\ heard' = n

StartRecord(b) ==
  /\ pc = "idle" /\ ~Running
  /\ _audioBuffer' = b
  /\ IF b = NoBuffer THEN UNCHANGED <<_audioBufferSize, _recordCursor>>
                     ELSE _audioBufferSize' = Room[b] /\ _recordCursor' = 0
  /\ _audioState' = "RECORDING"
  /\ Transfer(1)
  /\ dataReady' = FALSE /\ taken' = <<>> /\ played' = <<>> /\ early' = FALSE
  /\ UNCHANGED <<_playCursor, _record_buffer, playing, halves, content, header, pc, local>>

(* BSP_AUDIO_OUT_Play takes a number of bytes and halves it, since the DMA *)
(* counts half-words; startPlay, its caller, has halved the chunk before.  *)
PlayFirst == dma' = "play" /\ playing' = 1 /\ halves' = 1

(* BSP_AUDIO_OUT_ChangeBuffer takes half-words: a whole chunk.             *)
PlayNext(n) == playing' = n /\ halves' = 2

(* startPlay of the first n chunks: the first goes out of the buffer, then *)
(* the cursor is moved, by a whole chunk.                                  *)
StartPlay(b, n) ==
  /\ pc = "idle" /\ ~Running
  /\ _audioBuffer' = b /\ _audioBufferSize' = n /\ _playCursor' = 0
  /\ _audioState' = "PLAYING"
  /\ PlayFirst
  /\ pc' = "advance" /\ played' = <<>> /\ early' = FALSE
  /\ UNCHANGED <<_recordCursor, moved, heard, _record_buffer, content, header, local,
                 dataReady, taken>>

AdvanceLoad ==
  /\ pc = "advance" /\ pc' = "advanced"
  /\ local' = _playCursor
  /\ UNCHANGED <<cursors, hardware, content, header, dataReady, taken, history>>
AdvanceStore ==
  /\ pc = "advanced" /\ pc' = "idle"
  /\ _playCursor' = local + 1 /\ local' = 0
  /\ UNCHANGED <<_audioState, _audioBuffer, _audioBufferSize, _recordCursor, hardware,
                 content, header, dataReady, taken, history>>

-----------------------------------------------------------------------------
(* The sketch stops.                                                       *)

StopBegin ==
  /\ pc = "idle"
  /\ IF _audioState = "RECORDING" /\ _audioBuffer # NoBuffer
       THEN local' = _recordCursor /\ pc' = "file_size"
       ELSE pc' = "state" /\ UNCHANGED local
  /\ UNCHANGED <<cursors, hardware, content, header, dataReady, taken, history>>

(* memcpy of the header, the two fields that depend on the size.           *)
StopFileSize ==
  /\ pc = "file_size" /\ pc' = "data_chunk_size"
  /\ header' = [header EXCEPT ![_audioBuffer].file = local]
  /\ UNCHANGED <<cursors, hardware, content, local, dataReady, taken, history>>
StopDataSize ==
  /\ pc = "data_chunk_size" /\ pc' = "state"
  /\ header' = [header EXCEPT ![_audioBuffer].data = local]
  /\ local' = 0
  /\ UNCHANGED <<cursors, hardware, content, dataReady, taken, history>>

Finished == IF _audioState = "RECORDING" THEN "RECORDING_FINISH" ELSE "PLAYING_FINISH"

StopStateOnly ==                                          \* wrong: no BSP_AUDIO_STOP
  /\ pc = "state" /\ pc' = "idle"
  /\ _audioState' = IF Running THEN Finished ELSE _audioState
  /\ UNCHANGED <<_audioBuffer, _audioBufferSize, _recordCursor, _playCursor, hardware, content,
                 header, local, dataReady, taken, history>>

StopState ==
  /\ pc = "state"
  /\ IF Running THEN _audioState' = Finished /\ pc' = "dma"
                ELSE pc' = "idle" /\ UNCHANGED _audioState
  /\ UNCHANGED <<_audioBuffer, _audioBufferSize, _recordCursor, _playCursor, hardware, content,
                 header, local, dataReady, taken, history>>

StopDma ==
  /\ pc = "dma" /\ pc' = "idle"
  /\ dma' = "off"
  /\ UNCHANGED <<cursors, moved, heard, _record_buffer, playing, halves, content, header, local,
                 dataReady, taken, history>>

-----------------------------------------------------------------------------
(* readFromRecordBuffer, called from loop() once recordCallback has set a  *)
(* flag.                                                                   *)
ReadFirstHalf ==
  /\ pc = "idle" /\ dataReady
  /\ pc' = "copying" /\ taken' = <<_record_buffer[1]>>
  /\ UNCHANGED <<cursors, hardware, content, header, local, dataReady, history>>
ReadSecondHalf ==
  /\ pc = "copying" /\ pc' = "idle"
  /\ taken' = Append(taken, _record_buffer[2]) /\ dataReady' = FALSE
  /\ UNCHANGED <<cursors, hardware, content, header, local, history>>

-----------------------------------------------------------------------------
(* The DMA and its interrupts.                                             *)
Listen ==
  /\ dma = "record" /\ moved < 2
  /\ moved' = moved + 1
  /\ _record_buffer' = [_record_buffer EXCEPT ![moved + 1] = heard]
  /\ UNCHANGED <<cursors, dma, heard, playing, halves, content, header, sketch, history>>

FullTooLate(cursor) == cursor > _audioBufferSize          \* wrong: without the chunk
Full(cursor) == cursor + 1 > _audioBufferSize

Header(n) == header' = [header EXCEPT ![_audioBuffer] = [file |-> n, data |-> n]]

(* stop, called from an interrupt.                                         *)
RecordStops == Header(_recordCursor) /\ _audioState' = "RECORDING_FINISH" /\ dma' = "off"

RecordKeepsOn ==                                          \* wrong: a full buffer is ignored
  /\ dma = "record" /\ moved = 2 /\ _audioState = "RECORDING" /\ _audioBuffer # NoBuffer
  /\ Full(_recordCursor)
  /\ moved' = 0
  /\ UNCHANGED <<cursors, dma, heard, _record_buffer, playing, halves, content, header, sketch, history>>

RecordFull ==
  /\ dma = "record" /\ moved = 2 /\ _audioState = "RECORDING" /\ _audioBuffer # NoBuffer
  /\ Full(_recordCursor)
  /\ RecordStops
  /\ UNCHANGED <<_audioBuffer, _audioBufferSize, _recordCursor, _playCursor, moved, heard,
                 _record_buffer, playing, halves, content, sketch, history>>

RecordIrqTorn ==                                          \* wrong: the cursor moves first
  /\ dma = "record" /\ moved = 2 /\ _audioState = "RECORDING" /\ _audioBuffer # NoBuffer
  /\ ~Full(_recordCursor)
  /\ content' = [content EXCEPT ![_audioBuffer] =
       [i \in DOMAIN @ |-> IF i = _recordCursor + 2 THEN heard ELSE @[i]]]
  /\ _recordCursor' = _recordCursor + 1
  /\ Transfer(heard + 1)
  /\ UNCHANGED <<_audioState, _audioBuffer, _audioBufferSize, _playCursor, _record_buffer,
                 playing, halves, header, sketch, history>>

RecordIrq ==
  /\ dma = "record" /\ moved = 2 /\ _audioState = "RECORDING" /\ _audioBuffer # NoBuffer
  /\ ~Full(_recordCursor)
  /\ content' = [content EXCEPT ![_audioBuffer][_recordCursor + 1] = _record_buffer[2]]
  /\ _recordCursor' = _recordCursor + 1
  /\ Transfer(heard + 1)
  /\ UNCHANGED <<_audioState, _audioBuffer, _audioBufferSize, _playCursor, _record_buffer,
                 playing, halves, header, sketch, history>>

RecordCallback ==
  /\ dma = "record" /\ moved = 2 /\ _audioState = "RECORDING" /\ _audioBuffer = NoBuffer
  /\ heard < MaxHeard
  /\ dataReady' = TRUE
  /\ Transfer(heard + 1)
  /\ UNCHANGED <<cursors, _record_buffer, playing, halves, content, header, pc, local, taken, history>>

(* What a transfer has sent of its chunk.                                  *)
Sent == IF halves = 1 THEN <<2 * playing - 1>> ELSE <<2 * playing - 1, 2 * playing>>

PlayIrq ==
  /\ dma = "play" /\ _audioState = "PLAYING"
  /\ played' = played \o Sent
  /\ early' = (early \/ pc \in {"advance", "advanced"})
  /\ IF Full(_playCursor)
       THEN /\ _audioState' = "PLAYING_FINISH" /\ dma' = "off"
            /\ UNCHANGED <<playing, halves, _playCursor>>
       ELSE /\ PlayNext(_playCursor + 1) /\ _playCursor' = _playCursor + 1
            /\ UNCHANGED <<_audioState, dma>>
  /\ UNCHANGED <<_audioBuffer, _audioBufferSize, _recordCursor, moved, heard, _record_buffer,
                 content, header, sketch>>

(* A transfer that ends in another state is not followed by a next one.    *)
LastIrq ==
  /\ \/ dma = "record" /\ moved = 2 /\ _audioState # "RECORDING"
     \/ dma = "play" /\ _audioState # "PLAYING"
  /\ dma' = "off"
  /\ UNCHANGED <<cursors, moved, heard, _record_buffer, playing, halves, content, header, sketch, history>>

-----------------------------------------------------------------------------
InCall ==
  \/ AdvanceLoad \/ AdvanceStore
  \/ StopFileSize \/ StopDataSize \/ StopState \/ StopDma
  \/ ReadSecondHalf

Hardware == Listen \/ RecordFull \/ RecordIrq \/ RecordCallback \/ PlayIrq \/ LastIrq

Next ==
  \/ Format
  \/ \E b \in Buffer \cup {NoBuffer} : StartRecord(b)
  \/ \E b \in Buffer : \E n \in 1 .. Room[b] : StartPlay(b, n)
  \/ StopBegin
  \/ ReadFirstHalf
  \/ InCall
  \/ Hardware

(* The DMA moves what it has to move and its interrupts are taken.         *)
Spec == Init /\ [][Next]_vars /\ WF_vars(Hardware)

-----------------------------------------------------------------------------
(* Properties.                                                             *)

ChunkNumber == 0 .. (IF MaxHeard > MaxRoom THEN MaxHeard ELSE MaxRoom + 1)

(* The cursor of a playback can end one chunk past the data, when the last *)
(* interrupt comes before startPlay has moved it.                          *)
TypeOK ==
  /\ _audioState \in States /\ _audioBuffer \in Buffer \cup {NoBuffer}
  /\ _audioBufferSize \in 0 .. MaxRoom
  /\ _recordCursor \in 0 .. MaxRoom /\ _playCursor \in 0 .. MaxRoom + 1
  /\ dma \in {"off", "record", "play"} /\ moved \in 0 .. 2 /\ heard \in ChunkNumber
  /\ _record_buffer \in ChunkNumber \X ChunkNumber
  /\ playing \in 0 .. MaxRoom /\ halves \in 0 .. 2
  /\ \A b \in Buffer : content[b] \in [1 .. Room[b] -> ChunkNumber]
  /\ header \in [Buffer -> [file : 0 .. MaxRoom, data : 0 .. MaxRoom]]
  /\ pc \in {"idle", "advance", "advanced", "file_size", "data_chunk_size", "state", "dma", "copying"}
  /\ local \in 0 .. MaxRoom /\ dataReady \in BOOLEAN
  /\ taken \in Seq(ChunkNumber) /\ played \in Seq(0 .. 2 * MaxRoom) /\ early \in BOOLEAN

(* AudioClass::stop, against the recording interrupt that goes on adding   *)
(* chunks and may call stop itself: when the recording is finished, the    *)
(* sizes in its header claim no more than the chunks that are there, and   *)
(* these are the first ones heard, in order.                               *)
HeaderTruthful ==
  _audioState = "RECORDING_FINISH" /\ pc = "idle" /\ _audioBuffer # NoBuffer =>
    /\ header[_audioBuffer].file <= _recordCursor
    /\ header[_audioBuffer].data <= _recordCursor
    /\ _recordCursor <= Room[_audioBuffer]
    /\ \A i \in 1 .. _recordCursor : content[_audioBuffer][i] = i

(* startPlay starts the DMA and then moves the cursor the interrupt moves *)
(* too.  If the sketch comes to that before the first transfer ends, what  *)
(* is transmitted are the half chunks of the buffer, each once and in      *)
(* order, without the second one, which the first transfer does not reach; *)
(* and none is ever past the data, however late the sketch comes.          *)
PlaysInOrder ==
  \A i \in DOMAIN played :
    /\ played[i] <= 2 * _audioBufferSize
    /\ ~early => played[i] = IF i = 1 THEN 1 ELSE i + 1

(* Once stop has returned, or the end was reached, no transfer is under    *)
(* way: the buffers are the sketch's again.                                *)
QuietWhenOver == pc = "idle" /\ ~Running => dma = "off"

(* Recording into a buffer and playing from one come to an end, whether    *)
(* the sketch stops them or not.                                           *)
ComesToAnEnd == Running /\ _audioBuffer # NoBuffer ~> ~Running

(* docs/libraries/AudioV2.md, Quick Start: loop() reads the chunk that the *)
(* callback announced.                                                     *)
ChunkIsWhole == Len(taken) = 2 => taken[1] = taken[2]
=============================================================================
