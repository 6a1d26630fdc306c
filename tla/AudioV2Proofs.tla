---------------------------- MODULE AudioV2Proofs ----------------------------
(***************************************************************************)
(* Proofs about AudioV2, for any buffers of any size and a recording of    *)
(* any length.                                                             *)
(***************************************************************************)
EXTENDS AudioV2, TLAPS

-----------------------------------------------------------------------------
(* The inductive invariant, in four parts.                                 *)

Recorded == _audioState \in {"RECORDING", "RECORDING_FINISH"} /\ _audioBuffer # NoBuffer
Recording == _audioState = "RECORDING" /\ _audioBuffer # NoBuffer

(* A transfer is under way only in the state that started it, or until     *)
(* stop comes to its last line.                                            *)
DmaInv ==
  dma # "off" => \/ dma = "record" /\ _audioState = "RECORDING"
                 \/ dma = "play" /\ _audioState = "PLAYING"
                 \/ pc = "dma"

(* The chunks behind the cursor are the first ones heard, and the halves   *)
(* that have been moved are those of the next.                             *)
RecordInv ==
  /\ content = [b \in Buffer |-> content[b]]
  /\ Recorded => /\ _recordCursor <= Room[_audioBuffer]
                 /\ \A i \in 1 .. _recordCursor : content[_audioBuffer][i] = i
  /\ Recording => /\ _audioBufferSize = Room[_audioBuffer]
                  /\ heard = _recordCursor + 1
                  /\ moved = 2 => _record_buffer[2] = heard

(* The sizes that stop has written or is about to are not above the        *)
(* cursor, which the interrupt only moves up.                              *)
HeaderInv ==
  /\ pc \in {"file_size", "data_chunk_size"} => Recorded /\ local <= _recordCursor
  /\ Recording /\ pc \in {"data_chunk_size", "state"} =>
       header[_audioBuffer].file <= _recordCursor
  /\ Recording /\ pc = "state" => header[_audioBuffer].data <= _recordCursor
  /\ Recorded /\ ~Recording => /\ header[_audioBuffer].file <= _recordCursor
                               /\ header[_audioBuffer].data <= _recordCursor

(* Until the first transfer has ended the cursor is the sketch's; then it  *)
(* is at the chunk in transmission, and the half chunks before that have   *)
(* been sent, but for the second.                                          *)
PlayInv ==
  /\ pc \in {"advance", "advanced"} => _audioState \in {"PLAYING", "PLAYING_FINISH"}
  /\ pc = "advance" => _playCursor <= _audioBufferSize
  /\ _audioState = "PLAYING" => playing \in 1 .. _audioBufferSize /\ halves \in {1, 2}
  /\ ~early /\ pc \in {"advance", "advanced"} =>
       /\ _audioState = "PLAYING" /\ _playCursor = 0 /\ playing = 1 /\ halves = 1 /\ played = <<>>
       /\ pc = "advanced" => local = 0
  /\ ~early /\ pc \notin {"advance", "advanced"} /\ _audioState = "PLAYING" =>
       /\ _playCursor = playing
       /\ halves = 1 => playing = 1 /\ played = <<>>
       /\ halves = 2 => playing > 1 /\ Len(played) = 2 * playing - 3
  /\ PlaysInOrder

IInv == TypeOK /\ DmaInv /\ RecordInv /\ HeaderInv /\ PlayInv

(* The invariant holds where the program starts.                           *)
LEMMA InitHolds == Init => IInv
<1> SUFFICES ASSUME Init PROVE IInv
  OBVIOUS
<1> USE BufferAssumption DEF Init
<1>1. TypeOK
  <2>1. 0 \in ChunkNumber
    BY DEF ChunkNumber
  <2>2. <<0, 0>> \in ChunkNumber \X ChunkNumber
    BY <2>1
  <2>3. \A b \in Buffer : content[b] \in [1 .. Room[b] -> ChunkNumber]
    BY <2>1
  <2>4. header \in [Buffer -> [file : 0 .. MaxRoom, data : 0 .. MaxRoom]]
    OBVIOUS
  <2>5. <<>> \in Seq(ChunkNumber) /\ <<>> \in Seq(0 .. 2 * MaxRoom)
    OBVIOUS
  <2>6. 0 \in 0 .. MaxRoom /\ 0 \in 0 .. MaxRoom + 1 /\ 0 \in 0 .. 2
    OBVIOUS
  <2>7. _record_buffer \in ChunkNumber \X ChunkNumber /\ heard \in ChunkNumber
    BY <2>1, <2>2
  <2>8. taken \in Seq(ChunkNumber) /\ played \in Seq(0 .. 2 * MaxRoom)
    BY <2>5
  <2> HIDE BufferAssumption
  <2> QED BY <2>3, <2>4, <2>6, <2>7, <2>8 DEF TypeOK, States
<1>2. DmaInv /\ RecordInv /\ HeaderInv
  BY DEF DmaInv, RecordInv, HeaderInv, Recorded, Recording
<1>3. PlayInv
  BY DEF PlayInv, PlaysInOrder
<1> QED BY <1>1, <1>2, <1>3 DEF IInv

-----------------------------------------------------------------------------
(* The transfer and the state.                                             *)
LEMMA DmaStep ==
  ASSUME DmaInv, [Next]_vars
  PROVE  DmaInv'
<1> USE DEF DmaInv
<1>1. CASE UNCHANGED <<dma, _audioState>> /\ pc # "dma"
  BY <1>1
<1>2. CASE Format
  BY <1>2 DEF Format, Running, hardware
<1>3. ASSUME NEW b \in Buffer \cup {NoBuffer}, StartRecord(b) PROVE DmaInv'
  BY <1>3 DEF StartRecord, Transfer
<1>4. ASSUME NEW b \in Buffer, NEW n \in 1 .. Room[b], StartPlay(b, n) PROVE DmaInv'
  BY <1>4 DEF StartPlay, PlayFirst
<1>5. CASE AdvanceLoad \/ AdvanceStore \/ StopBegin \/ StopFileSize \/ StopDataSize
           \/ ReadFirstHalf \/ ReadSecondHalf
  BY <1>1, <1>5 DEF AdvanceLoad, AdvanceStore, StopBegin, StopFileSize, StopDataSize,
                    ReadFirstHalf, ReadSecondHalf, cursors, hardware
<1>6. CASE StopState
  BY <1>6 DEF StopState, hardware, Running
<1>7. CASE StopDma
  BY <1>7 DEF StopDma
<1>8. CASE Listen
  BY <1>8 DEF Listen, cursors, sketch
<1>9. CASE RecordFull
  BY <1>9 DEF RecordFull, RecordStops
<1>10. CASE RecordIrq
  BY <1>10 DEF RecordIrq, Transfer, sketch
<1>11. CASE RecordCallback
  BY <1>11 DEF RecordCallback, Transfer, cursors
<1>12. CASE PlayIrq
  BY <1>12 DEF PlayIrq, sketch
<1>13. CASE LastIrq
  BY <1>13 DEF LastIrq
<1>14. CASE UNCHANGED vars
  BY <1>14 DEF vars, cursors, hardware, sketch
<1> QED BY <1>2, <1>3, <1>4, <1>5, <1>6, <1>7, <1>8, <1>9, <1>10, <1>11, <1>12, <1>13, <1>14
           DEF Next, InCall, Hardware

-----------------------------------------------------------------------------
(* Recording.                                                              *)
LEMMA RecordStep ==
  ASSUME TypeOK, DmaInv, RecordInv, [Next]_vars
  PROVE  RecordInv'
<1>0. /\ NoBuffer \notin Buffer /\ _recordCursor \in Nat /\ moved \in 0 .. 2
      /\ \A b \in Buffer : Room[b] \in Nat
      /\ _audioBuffer \in Buffer \cup {NoBuffer}
  BY BufferAssumption DEF TypeOK
<1> USE DEF RecordInv, Recorded, Recording
<1>1. CASE /\ UNCHANGED <<content, _audioBuffer, _audioBufferSize, _recordCursor, heard,
                          moved, _record_buffer>>
           /\ \/ UNCHANGED _audioState
              \/ _audioState' \in {"INIT", "PLAYING_FINISH"}
              \/ _audioState = "RECORDING" /\ _audioState' = "RECORDING_FINISH"
  BY <1>1
<1>2. CASE Format \/ AdvanceLoad \/ AdvanceStore \/ StopBegin \/ StopFileSize \/ StopDataSize
           \/ StopDma \/ ReadFirstHalf \/ ReadSecondHalf \/ RecordFull \/ PlayIrq \/ LastIrq
           \/ UNCHANGED vars
  BY <1>1, <1>2 DEF Format, AdvanceLoad, AdvanceStore, StopBegin, StopFileSize, StopDataSize,
     StopDma, ReadFirstHalf, ReadSecondHalf, RecordFull, RecordStops, PlayIrq, LastIrq,
     vars, cursors, hardware
<1>3. CASE StopState
  BY <1>1, <1>3 DEF StopState, Running, Finished, hardware
<1>4. ASSUME NEW b \in Buffer \cup {NoBuffer}, StartRecord(b) PROVE RecordInv'
  <2>1. CASE b = NoBuffer
    BY <1>0, <1>4, <2>1 DEF StartRecord, Transfer
  <2>2. CASE b # NoBuffer
    BY <1>0, <1>4, <2>2 DEF StartRecord, Transfer
  <2> QED BY <2>1, <2>2
<1>5. ASSUME NEW b \in Buffer, NEW n \in 1 .. Room[b], StartPlay(b, n) PROVE RecordInv'
  BY <1>5 DEF StartPlay
<1>6. CASE Listen
  <2>1. /\ moved' = moved + 1 /\ moved < 2
        /\ _record_buffer' = [_record_buffer EXCEPT ![moved + 1] = heard]
        /\ UNCHANGED <<content, cursors, heard>>
    BY <1>6 DEF Listen
  <2>2. moved' = 2 => _record_buffer'[2] = heard
    BY <1>0, <2>1 DEF TypeOK
  <2> QED BY <2>1, <2>2 DEF cursors
<1>7. CASE RecordIrq
  <2> DEFINE c == _recordCursor + 1
             B == _audioBuffer
  <2>1. /\ Recording /\ moved = 2 /\ ~(c > _audioBufferSize)
        /\ content' = [content EXCEPT ![B][c] = _record_buffer[2]]
        /\ _recordCursor' = c /\ heard' = heard + 1 /\ moved' = 0
        /\ UNCHANGED <<_audioState, _audioBuffer, _audioBufferSize, _record_buffer>>
    BY <1>7 DEF RecordIrq, Transfer, Full
  <2>2. /\ _audioBufferSize = Room[B] /\ _record_buffer[2] = c
        /\ c \in 1 .. Room[B] /\ B \in Buffer
    BY <1>0, <2>1
  <2>3. content[B] \in [1 .. Room[B] -> ChunkNumber]
    BY <2>2 DEF TypeOK
  <2>4. /\ content' = [b \in Buffer |-> content'[b]]
        /\ content'[B] = [content[B] EXCEPT ![c] = c]
    BY <2>1, <2>2
  <2>5. \A i \in 1 .. c : content'[B][i] = i
    <3> TAKE i \in 1 .. c
    <3>1. CASE i = c
      BY <2>2, <2>3, <2>4, <3>1
    <3>2. CASE i \in 1 .. _recordCursor
      BY <1>0, <2>1, <2>2, <2>3, <2>4, <3>2
    <3> QED BY <1>0, <3>1, <3>2
  <2> QED BY <1>0, <2>1, <2>2, <2>4, <2>5
<1>8. CASE RecordCallback
  BY <1>8 DEF RecordCallback, Transfer, cursors
<1> QED BY <1>2, <1>3, <1>4, <1>5, <1>6, <1>7, <1>8 DEF Next, InCall, Hardware

-----------------------------------------------------------------------------
(* The header.                                                             *)
LEMMA HeaderStep ==
  ASSUME TypeOK, HeaderInv, [Next]_vars
  PROVE  HeaderInv'
<1>0. /\ NoBuffer \notin Buffer /\ _recordCursor \in Nat /\ local \in Nat
      /\ header \in [Buffer -> [file : 0 .. MaxRoom, data : 0 .. MaxRoom]]
      /\ _audioBuffer \in Buffer \cup {NoBuffer}
  BY BufferAssumption DEF TypeOK
<1> USE DEF HeaderInv, Recorded, Recording
<1>1. CASE UNCHANGED <<_audioState, _audioBuffer, _recordCursor, header, pc, local>>
  BY <1>1
<1>2. CASE \/ Format \/ (\E b \in Buffer \cup {NoBuffer} : StartRecord(b))
           \/ (\E b \in Buffer : \E n \in 1 .. Room[b] : StartPlay(b, n))
  BY <1>2 DEF Format, StartRecord, StartPlay, sketch
<1>3. CASE AdvanceLoad \/ AdvanceStore
  BY <1>3 DEF AdvanceLoad, AdvanceStore, cursors
<1>4. CASE StopBegin
  BY <1>0, <1>4 DEF StopBegin, cursors
<1>5. CASE StopFileSize
  <2>1. /\ Recorded /\ local <= _recordCursor /\ pc' = "data_chunk_size"
        /\ header' = [header EXCEPT ![_audioBuffer].file = local]
        /\ UNCHANGED <<cursors, local>>
    BY <1>5 DEF StopFileSize
  <2>2. header'[_audioBuffer].file = local /\ header'[_audioBuffer].data = header[_audioBuffer].data
    BY <1>0, <2>1
  <2> QED BY <2>1, <2>2 DEF cursors
<1>6. CASE StopDataSize
  <2>1. /\ Recorded /\ local <= _recordCursor /\ pc' = "state" /\ pc = "data_chunk_size"
        /\ header' = [header EXCEPT ![_audioBuffer].data = local]
        /\ UNCHANGED cursors
    BY <1>6 DEF StopDataSize
  <2>2. header'[_audioBuffer].data = local /\ header'[_audioBuffer].file = header[_audioBuffer].file
    BY <1>0, <2>1
  <2> QED BY <2>1, <2>2 DEF cursors
<1>7. CASE StopState
  BY <1>7 DEF StopState, Running, Finished
<1>8. CASE StopDma \/ ReadFirstHalf \/ ReadSecondHalf
  BY <1>8 DEF StopDma, ReadFirstHalf, ReadSecondHalf, cursors
<1>9. CASE Listen \/ RecordCallback \/ LastIrq \/ UNCHANGED vars
  BY <1>1, <1>9 DEF Listen, RecordCallback, LastIrq, vars, cursors, sketch
<1>10. CASE RecordFull
  <2>1. /\ Recording /\ _audioState' = "RECORDING_FINISH"
        /\ header' = [header EXCEPT ![_audioBuffer] =
                        [file |-> _recordCursor, data |-> _recordCursor]]
        /\ UNCHANGED <<_audioBuffer, _recordCursor, pc, local>>
    BY <1>10 DEF RecordFull, RecordStops, Header, sketch
  <2>2. header'[_audioBuffer] = [file |-> _recordCursor, data |-> _recordCursor]
    BY <1>0, <2>1
  <2> QED BY <1>0, <2>1, <2>2
<1>11. CASE RecordIrq
  <2>1. /\ Recording /\ _recordCursor' = _recordCursor + 1
        /\ UNCHANGED <<_audioState, _audioBuffer, header, pc, local>>
    BY <1>11 DEF RecordIrq, sketch
  <2>2. header[_audioBuffer].file \in Nat /\ header[_audioBuffer].data \in Nat
    BY <1>0, <2>1
  <2> QED BY <1>0, <2>1, <2>2
<1>12. CASE PlayIrq
  BY <1>12 DEF PlayIrq, sketch
<1> QED BY <1>2, <1>3, <1>4, <1>5, <1>6, <1>7, <1>8, <1>9, <1>10, <1>11, <1>12
           DEF Next, InCall, Hardware

(* A transfer adds to what was played the halves of its chunk it has sent. *)
LEMMA SentProperties ==
  ASSUME NEW S, played \in Seq(S), halves \in {1, 2}, playing \in Nat
  PROVE  LET p == played \o Sent IN
           /\ Len(p) = Len(played) + halves /\ Len(played) \in Nat
           /\ DOMAIN p = 1 .. Len(p)
           /\ \A i \in 1 .. Len(played) : i \in DOMAIN played /\ p[i] = played[i]
           /\ p[Len(played) + 1] = 2 * playing - 1
           /\ halves = 2 => p[Len(played) + 2] = 2 * playing
<1>1. CASE halves = 1
  BY <1>1 DEF Sent
<1>2. CASE halves = 2
  BY <1>2 DEF Sent
<1> QED BY <1>1, <1>2

-----------------------------------------------------------------------------
(* Playing.                                                                *)
LEMMA PlayStep ==
  ASSUME TypeOK, HeaderInv, PlayInv, [Next]_vars
  PROVE  PlayInv'
<1>0. /\ _playCursor \in Nat /\ _audioBufferSize \in Nat /\ playing \in Nat
      /\ local \in Nat /\ early \in BOOLEAN /\ played \in Seq(0 .. 2 * MaxRoom)
  BY BufferAssumption DEF TypeOK
<1> USE DEF PlayInv
<1>1. ASSUME UNCHANGED <<_audioBufferSize, _playCursor, playing, halves, played, early>>,
             UNCHANGED _audioState \/ _audioState' # "PLAYING",
             \/ UNCHANGED <<pc, local, _audioState>>
             \/ pc' \notin {"advance", "advanced"} /\ pc \notin {"advance", "advanced"}
      PROVE  PlayInv'
  <2>1. PlaysInOrder'
    BY <1>1 DEF PlaysInOrder
  <2> QED BY <1>1, <2>1
<1>2. CASE \/ Format \/ StopBegin \/ StopFileSize \/ StopDataSize \/ StopDma
           \/ ReadFirstHalf \/ ReadSecondHalf \/ UNCHANGED vars
  BY <1>1, <1>2 DEF Format, StopBegin, StopFileSize, StopDataSize, StopDma,
     ReadFirstHalf, ReadSecondHalf, vars, cursors, hardware, sketch, history
<1>3. CASE StopState
  BY <1>1, <1>3 DEF StopState, Running, Finished, hardware, history
<1>4. CASE Listen \/ RecordIrq \/ RecordCallback \/ LastIrq
  BY <1>1, <1>4 DEF Listen, RecordIrq, RecordCallback, LastIrq, Transfer, cursors, sketch,
     history
<1>5. CASE RecordFull
  <2>1. _audioState = "RECORDING" /\ _audioState' = "RECORDING_FINISH"
    BY <1>5 DEF RecordFull, RecordStops
  <2> QED BY <1>1, <1>5, <2>1 DEF RecordFull, sketch, history
<1>6. ASSUME NEW b \in Buffer \cup {NoBuffer}, StartRecord(b) PROVE PlayInv'
  BY <1>6 DEF StartRecord, PlaysInOrder
<1>7. ASSUME NEW b \in Buffer, NEW n \in 1 .. Room[b], StartPlay(b, n) PROVE PlayInv'
  <2>1. Room[b] \in Nat
    BY BufferAssumption
  <2> QED BY <1>7, <2>1 DEF StartPlay, PlayFirst, PlaysInOrder
<1>8. CASE AdvanceLoad
  BY <1>8 DEF AdvanceLoad, cursors, hardware, history, PlaysInOrder
<1>9. CASE AdvanceStore
  BY <1>0, <1>9 DEF AdvanceStore, hardware, history, PlaysInOrder
<1>10. CASE PlayIrq
  <2>1. /\ _audioState = "PLAYING" /\ played' = played \o Sent
        /\ early' = (early \/ pc \in {"advance", "advanced"})
        /\ UNCHANGED <<_audioBufferSize, pc, local>>
    BY <1>10 DEF PlayIrq, sketch
  <2>2. \/ /\ _audioState' = "PLAYING_FINISH"
           /\ UNCHANGED <<playing, halves, _playCursor>>
        \/ /\ ~(_playCursor + 1 > _audioBufferSize)
           /\ playing' = _playCursor + 1 /\ halves' = 2 /\ _playCursor' = _playCursor + 1
           /\ UNCHANGED _audioState
    BY <1>10 DEF PlayIrq, PlayNext, Full
  <2>3. playing \in 1 .. _audioBufferSize /\ halves \in {1, 2}
    BY <2>1
  <2>4. /\ Len(played') = Len(played) + halves /\ Len(played) \in Nat
        /\ DOMAIN played' = 1 .. Len(played')
        /\ \A i \in 1 .. Len(played) : i \in DOMAIN played /\ played'[i] = played[i]
        /\ played'[Len(played) + 1] = 2 * playing - 1
        /\ halves = 2 => played'[Len(played) + 2] = 2 * playing
    BY <1>0, <2>1, <2>3, SentProperties
  <2>5. ~early' => ~early /\ pc \notin {"advance", "advanced"}
    BY <1>0, <2>1
  <2>6. PlaysInOrder'
    <3> SUFFICES ASSUME NEW i \in DOMAIN played'
                 PROVE  /\ played'[i] <= 2 * _audioBufferSize'
                        /\ ~early' => played'[i] = IF i = 1 THEN 1 ELSE i + 1
      BY DEF PlaysInOrder
    <3>1. CASE i \in 1 .. Len(played)
      BY <2>1, <2>4, <2>5, <3>1 DEF PlaysInOrder
    <3>2. CASE i = Len(played) + 1
      <4>1. played'[i] = 2 * playing - 1 /\ played'[i] <= 2 * _audioBufferSize'
        BY <1>0, <2>1, <2>3, <2>4, <3>2
      <4>2. ~early' => played'[i] = IF i = 1 THEN 1 ELSE i + 1
        BY <1>0, <2>1, <2>3, <2>4, <2>5, <3>2, <4>1, SMTT(30)
      <4> QED BY <4>1, <4>2
    <3>3. CASE halves = 2 /\ i = Len(played) + 2
      <4>1. played'[i] = 2 * playing /\ played'[i] <= 2 * _audioBufferSize'
        BY <1>0, <2>1, <2>3, <2>4, <3>3
      <4>2. ~early' => played'[i] = IF i = 1 THEN 1 ELSE i + 1
        BY <1>0, <2>1, <2>3, <2>4, <2>5, <3>3, <4>1, SMTT(30)
      <4> QED BY <4>1, <4>2
    <3> QED BY <2>3, <2>4, <3>1, <3>2, <3>3
  <2>7. _audioState' = "PLAYING" => playing' \in 1 .. _audioBufferSize' /\ halves' \in {1, 2}
    BY <1>0, <2>1, <2>2
  <2>8. pc' = "advance" => _playCursor' <= _audioBufferSize'
    BY <1>0, <2>1, <2>2
  <2>9. ~early' /\ _audioState' = "PLAYING" =>
          /\ _playCursor' = playing' /\ halves' = 2
          /\ playing' > 1 /\ Len(played') = 2 * playing' - 3
    <3> SUFFICES ASSUME ~early', _audioState' = "PLAYING"
                 PROVE  /\ _playCursor' = playing' /\ halves' = 2
                        /\ playing' > 1 /\ Len(played') = 2 * playing' - 3
      OBVIOUS
    <3>1. _playCursor = playing /\ (halves = 1 => playing = 1 /\ Len(played) = 0)
      BY <2>1, <2>5
    <3>2. halves = 2 => Len(played) = 2 * playing - 3
      BY <2>1, <2>5
    <3>3. playing' = playing + 1 /\ _playCursor' = playing' /\ halves' = 2
      BY <2>1, <2>2, <3>1
    <3> QED BY <1>0, <2>3, <2>4, <3>1, <3>2, <3>3
  <2>10. _audioState' \in {"PLAYING", "PLAYING_FINISH"}
    BY <2>1, <2>2
  <2> QED BY <2>1, <2>5, <2>6, <2>7, <2>8, <2>9, <2>10
<1> QED BY <1>2, <1>3, <1>4, <1>5, <1>6, <1>7, <1>8, <1>9, <1>10 DEF Next, InCall, Hardware

-----------------------------------------------------------------------------
(* The types.                                                              *)
LEMMA TypeStep ==
  ASSUME IInv, [Next]_vars
  PROVE  TypeOK'
<1>0. /\ NoBuffer \notin Buffer /\ MaxRoom \in Nat /\ MaxHeard \in Nat
      /\ Room \in [Buffer -> 0 .. MaxRoom]
      /\ 0 \in 0 .. MaxRoom /\ 0 \in 0 .. MaxRoom + 1
      /\ 1 \in ChunkNumber
  BY BufferAssumption DEF ChunkNumber
<1>1. TypeOK
  BY DEF IInv
<1> USE <1>1 DEF TypeOK, States
<1>2. CASE UNCHANGED vars
  BY <1>2 DEF vars, cursors, hardware, sketch, history
<1>3. CASE Format
  BY <1>3 DEF Format, hardware, sketch, history
<1>4. ASSUME NEW b \in Buffer \cup {NoBuffer}, StartRecord(b) PROVE TypeOK'
  <2>1. b # NoBuffer => Room[b] \in 0 .. MaxRoom
    BY <1>0
  <2>2. <<>> \in Seq(ChunkNumber) /\ <<>> \in Seq(0 .. 2 * MaxRoom)
    OBVIOUS
  <2>3. _audioBufferSize' \in 0 .. MaxRoom /\ _recordCursor' \in 0 .. MaxRoom
    BY <1>0, <1>4, <2>1 DEF StartRecord
  <2>4. /\ dma' = "record" /\ moved' = 0 /\ heard' = 1 /\ _audioState' = "RECORDING"
        /\ _audioBuffer' = b /\ dataReady' = FALSE /\ early' = FALSE
        /\ taken' = <<>> /\ played' = <<>>
        /\ UNCHANGED <<_playCursor, _record_buffer, playing, halves, content, header, pc, local>>
    BY <1>4 DEF StartRecord, Transfer
  <2>5. taken' \in Seq(ChunkNumber) /\ played' \in Seq(0 .. 2 * MaxRoom)
    BY <2>2, <2>4
  <2>6. heard' \in ChunkNumber /\ moved' \in 0 .. 2 /\ _audioBuffer' \in Buffer \cup {NoBuffer}
    BY <1>0, <2>4
  <2>7. \A a \in Buffer : content'[a] \in [1 .. Room[a] -> ChunkNumber]
    BY <2>4
  <2> QED BY <2>3, <2>4, <2>5, <2>6, <2>7
<1>5. ASSUME NEW b \in Buffer, NEW n \in 1 .. Room[b], StartPlay(b, n) PROVE TypeOK'
  <2>1. n \in 0 .. MaxRoom /\ 1 \in 0 .. MaxRoom
    <3>1. Room[b] \in 0 .. MaxRoom
      BY <1>0
    <3> QED BY <1>0, <3>1
  <2>2. <<>> \in Seq(0 .. 2 * MaxRoom)
    OBVIOUS
  <2>3. /\ playing' = 1 /\ halves' = 1 /\ dma' = "play" /\ played' = <<>>
        /\ _audioBufferSize' = n /\ _playCursor' = 0
    BY <1>5 DEF StartPlay, PlayFirst
  <2>4. halves' \in 0 .. 2 /\ playing' \in 0 .. MaxRoom
    BY <2>1, <2>3
  <2> QED BY <1>0, <1>5, <2>1, <2>2, <2>3, <2>4 DEF StartPlay
<1>6. CASE AdvanceLoad
  <2>1. _playCursor \in 0 .. MaxRoom
    BY <1>0, <1>6 DEF AdvanceLoad, IInv, PlayInv
  <2> QED BY <1>6, <2>1 DEF AdvanceLoad, cursors, hardware, history
<1>7. CASE AdvanceStore
  <2>1. local + 1 \in 0 .. MaxRoom + 1
    BY <1>0, SMTT(30)
  <2> QED BY <1>0, <1>7, <2>1 DEF AdvanceStore, hardware, history
<1>8. CASE StopBegin
  BY <1>8 DEF StopBegin, cursors, hardware, history
<1>9. CASE StopFileSize
  <2>1. header' \in [Buffer -> [file : 0 .. MaxRoom, data : 0 .. MaxRoom]]
    BY <1>9 DEF StopFileSize
  <2> QED BY <1>9, <2>1 DEF StopFileSize, cursors, hardware, history
<1>10. CASE StopDataSize
  <2>1. header' \in [Buffer -> [file : 0 .. MaxRoom, data : 0 .. MaxRoom]]
    BY <1>10 DEF StopDataSize
  <2> QED BY <1>0, <1>10, <2>1 DEF StopDataSize, cursors, hardware, history
<1>11. CASE StopState
  BY <1>11 DEF StopState, Finished, hardware, history
<1>12. CASE StopDma
  BY <1>12 DEF StopDma, cursors, history
<1>13. CASE ReadFirstHalf \/ ReadSecondHalf
  <2>1. _record_buffer[1] \in ChunkNumber /\ _record_buffer[2] \in ChunkNumber
    OBVIOUS
  <2>2. taken' \in Seq(ChunkNumber)
    <3>1. <<_record_buffer[1]>> \in Seq(ChunkNumber)
      BY <2>1
    <3>2. Append(taken, _record_buffer[2]) \in Seq(ChunkNumber)
      BY <2>1
    <3> QED BY <1>13, <3>1, <3>2 DEF ReadFirstHalf, ReadSecondHalf
  <2> QED BY <1>13, <2>2 DEF ReadFirstHalf, ReadSecondHalf, cursors, hardware, history
<1>14. CASE Listen
  <2>1. moved \in {0, 1} /\ moved' = moved + 1
    BY <1>14 DEF Listen
  <2>2. _record_buffer' \in ChunkNumber \X ChunkNumber
    <3> DEFINE a == _record_buffer[1]
               c == _record_buffer[2]
    <3>1. _record_buffer = <<a, c>> /\ a \in ChunkNumber /\ c \in ChunkNumber
      OBVIOUS
    <3>2. _record_buffer' = [<<a, c>> EXCEPT ![moved + 1] = heard]
      BY <1>14, <3>1 DEF Listen
    <3>3. _record_buffer' = <<heard, c>> \/ _record_buffer' = <<a, heard>>
      BY <2>1, <3>2
    <3> QED BY <3>1, <3>3
  <2> QED BY <1>14, <2>1, <2>2 DEF Listen, cursors, sketch, history
<1>15. CASE RecordFull
  <2>1. header' \in [Buffer -> [file : 0 .. MaxRoom, data : 0 .. MaxRoom]]
    BY <1>15 DEF RecordFull, RecordStops, Header
  <2> QED BY <1>15, <2>1 DEF RecordFull, RecordStops, sketch, history
<1>16. CASE RecordIrq
  <2> DEFINE c == _recordCursor + 1
  <2>1. /\ _audioBuffer \in Buffer /\ c \in 1 .. Room[_audioBuffer] /\ Room[_audioBuffer] \in 0 .. MaxRoom
        /\ heard = c
    BY <1>0, <1>16, SMTT(30) DEF RecordIrq, Full, IInv, RecordInv, Recording
  <2>2. c \in 0 .. MaxRoom /\ heard + 1 \in ChunkNumber
    BY <1>0, <2>1, SMTT(30) DEF ChunkNumber
  <2>3. _record_buffer[2] \in ChunkNumber
    OBVIOUS
  <2>4. \A b \in Buffer : content'[b] \in [1 .. Room[b] -> ChunkNumber]
    <3> TAKE b \in Buffer
    <3>1. content' = [content EXCEPT ![_audioBuffer][c] = _record_buffer[2]]
      BY <1>16 DEF RecordIrq
    <3>2. content = [a \in Buffer |-> content[a]]
      BY DEF IInv, RecordInv
    <3>3. CASE b = _audioBuffer
      <4>1. content'[b] = [content[b] EXCEPT ![c] = _record_buffer[2]]
        BY <2>1, <3>1, <3>2, <3>3
      <4> QED BY <2>3, <4>1
    <3>4. CASE b # _audioBuffer
      <4>1. content'[b] = content[b]
        BY <2>1, <3>1, <3>2, <3>4
      <4> QED BY <4>1
    <3> QED BY <3>3, <3>4
  <2> QED BY <1>16, <2>2, <2>4 DEF RecordIrq, Transfer, sketch, history
<1>17. CASE RecordCallback
  <2>1. heard + 1 \in ChunkNumber
    BY <1>0, <1>17, SMTT(30) DEF RecordCallback, ChunkNumber
  <2> QED BY <1>17, <2>1 DEF RecordCallback, Transfer, cursors, history
<1>18. CASE PlayIrq
  <2>1. /\ played' = played \o Sent /\ early' = (early \/ pc \in {"advance", "advanced"})
        /\ playing \in 1 .. MaxRoom
    BY <1>0, <1>18, SMTT(30) DEF PlayIrq, IInv, PlayInv
  <2>2. Sent \in Seq(0 .. 2 * MaxRoom)
    <3>1. 2 * playing - 1 \in 0 .. 2 * MaxRoom /\ 2 * playing \in 0 .. 2 * MaxRoom
      BY <1>0, <2>1, SMTT(30)
    <3>2. <<2 * playing - 1>> \in Seq(0 .. 2 * MaxRoom) /\ <<2 * playing - 1, 2 * playing>> \in Seq(0 .. 2 * MaxRoom)
      BY <3>1
    <3> QED BY <3>2, Zenon DEF Sent
  <2>3. played' \in Seq(0 .. 2 * MaxRoom) /\ early' \in BOOLEAN
    BY <2>1, <2>2
  <2>4. /\ playing' \in 0 .. MaxRoom /\ halves' \in 0 .. 2
        /\ _playCursor' \in 0 .. MaxRoom + 1
    BY <1>0, <1>18 DEF PlayIrq, PlayNext, Full
  <2> QED BY <1>18, <2>3, <2>4 DEF PlayIrq, sketch
<1>19. CASE LastIrq
  BY <1>19 DEF LastIrq, cursors, sketch, history
<1> QED BY <1>2, <1>3, <1>4, <1>5, <1>6, <1>7, <1>8, <1>9, <1>10, <1>11, <1>12, <1>13, <1>14,
           <1>15, <1>16, <1>17, <1>18, <1>19
           DEF Next, InCall, Hardware

-----------------------------------------------------------------------------
(* The theorems.                                                           *)

(* Every state of every execution satisfies the inductive invariant.       *)
THEOREM InvariantHolds == Spec => []IInv
<1>1. IInv /\ [Next]_vars => IInv'
  BY TypeStep, DmaStep, RecordStep, HeaderStep, PlayStep DEF IInv
<1> QED BY InitHolds, <1>1, PTL DEF Spec

(* The variables keep their types; the cursor of a playback stays within   *)
(* one chunk of the data.                                                  *)
THEOREM TypeCorrect == Spec => []TypeOK
<1>1. IInv => TypeOK
  BY DEF IInv
<1> QED BY InvariantHolds, <1>1, PTL

(* A finished recording has a header that claims no more chunks than are   *)
(* there, and these are the first ones heard, in order.                    *)
THEOREM HeaderIsTruthful == Spec => []HeaderTruthful
<1>1. IInv => HeaderTruthful
  BY DEF IInv, RecordInv, HeaderInv, Recorded, Recording, HeaderTruthful
<1> QED BY InvariantHolds, <1>1, PTL

(* What is transmitted is never past the data, and is the chunks in their  *)
(* order if startPlay moved its cursor before the first transfer ended.    *)
THEOREM PlayedInOrder == Spec => []PlaysInOrder
<1>1. IInv => PlaysInOrder
  BY DEF IInv, PlayInv
<1> QED BY InvariantHolds, <1>1, PTL

(* When nothing runs and no call is under way, no transfer is either.      *)
THEOREM QuietAtTheEnd == Spec => []QuietWhenOver
<1>1. IInv => QuietWhenOver
  BY DEF IInv, DmaInv, QuietWhenOver, Running
<1> QED BY InvariantHolds, <1>1, PTL
=============================================================================
