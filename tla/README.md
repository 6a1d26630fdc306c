# TLA+ models of the AZ3166 Arduino core

The repository is the Arduino core and libraries of the MXChip AZ3166 board: an
STM32F412 running mbed, with WiFi, a secure element (STSAFE-A100) for
settings, a FAT drive in external flash, an audio codec and sensors. This
directory holds models of the parts where order, failure and interruption
matter, the TLC runs that check them, and proofs.

## 1. The system

Paths are below `src/`. "Core" is `cores/arduino`, "libs" is `libraries`.

| Part | State | Operations | Talks to |
|---|---|---|---|
| `core/RingBuffer.cpp` | `buf`, volatile `addr_w`, `addr_r` | `putc put getc get peek available use clear` | used by BufferedSerial from a thread and from an interrupt |
| `core/BufferedSerial.cpp` | two rings, attached handlers | `write puts printf prime readable getc flush`, `txIrq`, `rxIrq` | the UART, through mbed's serial API |
| `core/UARTClass.cpp` | lazily created port | `begin available peek read write flush` | BufferedSerial |
| `core/EEPROMInterface.cpp` | zones of the chip, key in flash | `read write enableHostSecureChannel` | STSAFE-A100 commands |
| `core/config/DeviceConfig*.cpp` | profile table, settings in RAM | `_Init _Save _Read _LoadAll` and getters | EEPROMInterface, DeviceConfigFile |
| `core/config/DeviceConfigFile.cpp` | `/fs/device.cfg` | `ConfigFile_Save _Read` | the FAT drive |
| `core/cli`, `config/*CLI.cpp` | a line being typed | console commands | DeviceConfig, EEPROMInterface |
| `libs/PubSubClient` | MQTT state, packet buffer, keep-alive times | `connect publish subscribe loop disconnect` | a TCP or TLS client |
| `libs/AzureIoT/AzureIoTHub.cpp` | `isConnected`, `twinGetPending`, request ids | `azureIoTConnect Loop RequestTwin UpdateReported SendTelemetry` | PubSubClient and its callback |
| `libs/AzureIoT/AzureIoTDPS.cpp` | the `s_` statics | `AzureIoT_DPSRegister` | PubSubClient and its callback |
| `libs/AudioV2`, `libs/Audio` | cursors, state, DMA buffers | `startRecord startPlay stop getCurrentSize` | two DMA interrupts |
| `core/TLSSocket.cpp` | TLS session, `_recv_buffer` between TCP and mbed TLS | `connect send recv close` | mbed TLS, mbed sockets |
| `core/httpclient` | one request, the vendored parser | `HttpsRequest::send`, body callback | TLSSocket or a TCP socket |
| `core/system/OTAFirmwareUpdate.cpp` | `flashIdx`, `body_length`, `contexCRC16` | `OTADownloadFirmware OTAApplyNewFirmware` | HTTPClient, the flash partition |
| `libs/WebSocket` | `_tcpSocket`, `_messageType`, `_firstFrame` | `connect send sendPing receive close` | a TCP socket |
| `core/httpserver` | sockets, parsers | configuration pages | mbed sockets |
| `core/system`, the rest | WiFi, clock | start-up sequences | vendor libraries |
| sensors, display, SPI, Wire, Print, WString | registers, strings | blocking transactions, formatting | vendor drivers |
| `system/`, `bootloader/`, `firmware/` | | binaries and headers of mbed and of the WiFi stack | |

How they interact. A sketch runs `setup` once and `loop` for ever in one
thread. Interrupts (UART, DMA) run over it. Everything on the network is
polled from that thread: `azureIoTLoop` reconnects when necessary and calls
`PubSubClient::loop`, which reads at most one packet and calls `mqttCallback`
from inside. At boot `main` calls `DeviceConfig_Init` and
`DeviceConfig_LoadAll`; the console, when the user holds a button, saves
settings and enables the secure channel.

What is hard, and what makes each part correct:

- RingBuffer has no lock. It is correct when it is a bounded FIFO for one
  producer and one consumer, one memory access at a time.
- BufferedSerial adds attaching and detaching of the interrupt handler. No
  byte may wait without a handler, no handler may fire for ever, and a `flush`
  with both handlers running may lose bytes but must not make a received one
  come twice.
- The secure element takes one command at a time; a setting can span three
  zones and seven commands. A save that returned 0 has to survive what
  happens to other settings, power failures and the move to the secure
  channel; a failure has to stay with the setting it hit.
- The configuration file is truncated and rewritten. A save that returned 0
  has to be readable, and must keep the other lines, as far as it has read them
  and the flash has taken what it wrote.
- The MQTT connection is refused, torn, reset, or silently dead. The device
  has to come back, with its subscriptions, without a connection left over.
- A twin answer has to reach the callback of the sketch.
- A registration ends, says true only when a hub was assigned, and closes its
  connection. Registration and hub share one TLS client: neither may find the
  other's connection.
- TLS asks for the bytes of a record in other portions than TCP has them; a
  byte lost between the two ends the session. A download is a chain of
  request, parser, callback and flash, each of which may fail: what is
  installed has to be what the returned size and checksum say.
- A WebSocket interleaves control frames with the pieces of messages, in both
  directions, and a frame may be longer than the buffer, late, or cut.
- Interrupts move the cursors of a recording or playback that the sketch moves,
  reads and stops. The WAV header must not claim what is not there, and
  nothing may run on after `stop`.

Every place where these can go wrong is listed, with its line, under
`hazards` in `PROJECT.json`.

## 2. Modules

| Module | Stands for |
|---|---|
| `RingIndex` | index arithmetic of the ring, shared by two modules |
| `RingBuffer` | the ring, one access to shared memory per step |
| `ByteFifo` | the abstract queue the ring implements |
| `RingBufferProofs` | theorems about `RingBuffer` |
| `BufferedSerial` | a thread, two interrupt handlers and the UART over two rings |
| `BufferedSerialProofs` | theorems about `BufferedSerial` |
| `Eeprom` | the chip behind EEPROMInterface, one command per step |
| `Profiles` | the table of zones per profile and setting |
| `DeviceConfig` | boot, load, save and enabling, over `Eeprom` and `Profiles` |
| `DeviceConfigProofs` | theorems about `DeviceConfig`, with `Eeprom` and `Profiles` |
| `ConfigFile` | `/fs/device.cfg` and its rewriting |
| `ConfigFileProofs` | theorems about `ConfigFile` |
| `PubSubClient` | what each MQTT call does, as operators without a caller |
| `AzureIoTHub` | the hub library, the hub and the network, over `PubSubClient` |
| `AzureIoTDPS` | the registration and the service, over `PubSubClient` |
| `AzureIoT` | both composed over the one TLS client they share, with `azureIoTInit` and the token's end |
| `AzureIoTProofs` | theorems about `AzureIoT` and the parts it composes |
| `TLSSocket` | the socket under a request, operators without a caller |
| `HttpsRequest` | one HTTP request and the server, over `TLSSocket` |
| `OTAFirmwareUpdate` | firmware downloads into the flash, over `HttpsRequest` |
| `OTAFirmwareUpdateProofs` | theorems about `OTAFirmwareUpdate` |
| `WebSocketClient` | a sketch, receive and its answers, the server, the network |
| `WebSocketClientProofs` | theorems about `WebSocketClient` |
| `AudioV2` | a sketch, the DMA and its two interrupts over the sketch's buffers |
| `AudioV2Proofs` | theorems about `AudioV2` |
| `MC*` | values of the constants for TLC |

Definitions keep the names of the code where they can (`addr_w`,
`twinGetPending`, `s_assigned`). A definition whose comment begins with
"wrong:" is a plausible mistake in the definition that follows it; the
mutation checks put it in that definition's place, and no specification uses
it.

### Serial port

`RingBuffer`: `PutcCheck`, `PutcStore`, `PutcPublish` are the three accesses of
`putc`; `GetcCheck`, `GetcLoad`, `GetcAdvance` those of `getc`; `available` and
`use` are two reads each, because both evaluate the other side's index twice.
`put` and `got` record what really happened (`putc` returns -1 in both cases).

`BufferedSerial`: a handler runs to completion over the thread and is one step.
The thread is cut between any two accesses to shared state; cuts between
which a handler cannot make a difference are merged (the store and the
publish of `putc`, since only `txIrq` reads the ring and it looks at the
indices). `write` is `WriteBegin`, then per byte `WriteDrop` or
`WriteCheck`/`WritePublish`, then `prime` (`PrimeTest` to `PrimeAttach`), which
runs `txIrq` in the thread. The n-th byte has the value n.

### Settings

`Eeprom`: a zone is a row of chunks of 480 bytes, the most an envelope holds.
Without the key one command moves a whole buffer, with the key every chunk is a
command of its own. `EnableFetch`/`EnableStore` alternate over the eight
zones as `enableHostSecureChannel` does, the ignored results included.
`DeviceConfig` calls it: `SaveZone`/`SaveGot` once per zone of the setting,
and along `LoadOrder`, the order of `DeviceConfig_LoadAll`, `LoadZone`/`LoadGot`
once per zone, `LoadSkip` for a setting that has no zone in this profile, and
`LoadNext`. `Before` and `Reach` are the bounds of the piece of a value that a
zone gets. Without a profile `Boot` leaves the chip alone. `PowerFail` may
happen between any two commands and loses RAM only. A value is an id and a
length in chunks; a piece of it knows its place and whether the final NUL is
in it, so that `Text` can tell a whole string from a mixture. `BufferChunks` and
`Cramped` are the buffers in RAM: under profile MQTT_USERPASS those of the
password and of the device id are smaller than their zones, and `Loaded` lets a
string that reaches the last chunk lose its end.

`ConfigFile`: a line is a key, a value and whether it has its newline. A write
that stops leaves any prefix of the lines and perhaps part of the next one
(`Stumps`). `SaveRead` takes for the file what `Readings` allows: nothing, a part
or all of it, since the result of the read is not compared with the size, or
what the memory held before (`Remains`). `SaveWrite` returns 0 when write
reported every byte; whether these bytes are in the flash is another matter
(`Stores`), because the result of `close`, in which FAT writes, is not looked at,
and SFlashBlockDevice returns 0 whatever the flash did. The history variables
`before`, `taken` and `flushed` are the file at the start of a save, what it
took for it, and whether the flash has what it wrote.

### Cloud connection

`PubSubClient` describes the effect of each call on `tcp`, `_state`,
`pingOutstanding`, the two keep-alive clocks (only "longer than keepAlive" is
kept: `quietIn`, `quietOut`) and the packets under way. A packet is a record;
that bytes may be late shows as a torn packet that leaves `GARBAGE`, after which
`readPacket` gives up or closes the connection. The client under it is a
WiFiClientSecure, whose `connected()` is true until `stop()` has been called
(`AZ3166WiFiClientSecure.cpp:228`): a lost connection shows in no state, and
only the keep-alive finds out.

`AzureIoTHub` has `azureIoTConnect` as `Dial`, `ConnectReturns`, `Subscribe`,
`Subscribed`, `GiveUp`, called from the sketch or from `azureIoTLoop`
(`LoopCheck`, then `LoopRun`). `Callback` is the part of `mqttCallback` that
concerns twins. The hub keeps the subscriptions of the present connection
only, answers in order, and may refuse. `AzureIoTDPS` has the whole of
`AzureIoT_DPSRegister`, including the loop that spins when a 200 names no hub
(`Spin`).

`AzureIoT` composes the two as a DPS profile does: `tcp`, `inbox` and `outbox`
are the one static `wifiClient`, each part has an MQTT client of its own, and
`server` records whom the present connection was dialled to. `InitRegisters`,
`Registers` and `InitReturns` are `azureIoTInit`; the sketch may call it again
when it returned false, and nothing else does anything before it returned
true. The SAS token is made once, there. `TokenExpires` is the end of its 24
hours, at which the hub closes the connection and refuses the next ones
(`HubRefuses`); a token made while the clock was not set ends on a fixed date
that may be past, so `InitReturns` may leave it expired at once.

### Firmware download

`TLSSocket` keeps `ssl_recv` as it is: `_recv_buffer` holds what TCP handed
over and mbed TLS did not ask for, reallocated with every call, and a failed
allocation drops what was just received (`SslRecvDrops`). The unit of the
stream is half a TLS record, so that a record can be asked for in two portions
and arrive in other ones. `ssl_send` takes any error for success; the loss
shows only as an answer that never comes. `HttpsRequest` is `send` without a
request body: connect, handshake, header, and the loop of `recv` into the
vendored parser, which calls back per piece of the body. `recv` gives 0 for
the end, for a pause and for an error alike, and the response counts as whole
(`RecvEnds`). `OTAFirmwareUpdate` has the callback and its three statics,
repeated downloads of different images, failing flash writes, and a restart at
any time. Nothing in the code erases the partition, so that what is there
before is `Blank` or `Garbled`, and a write to a place that is not blank may leave
either what was written or neither (`Written`); only what installs, or nothing,
erases (`Restart`). `fresh` records the places that were blank when a download
began. A download after OTAApplyNewFirmware is not refused (`overtaken`). The
CRC-16 stands for the sequence of pieces it was computed from.

### WebSocket

`WebSocketClient` cuts the server's stream into items: an opcode, a length
field, a byte of payload, and two items for the reply to the handshake.
`receive` is `ReceiveBegins`, `OpcodeReads` (or the timeout, or the reset),
`LengthReads`, `PayloadReads` with the skipping of what does not fit, and
`Frame`, which answers pings and Close frames through `send`. An item that is
read as something else than it is takes any value. Every read in the middle of
a frame may find its byte late (`Late`): `readChar` is unchecked and goes on
with what `c` happens to be. The one `recv` of the handshake takes any prefix
of what is there, so it may stop inside the reply or swallow frames. `cut`
records that bytes came late or that the handshake stopped inside something.

### Audio

`AudioV2` counts positions in chunks of 512 bytes behind the 44 bytes of the
header, which is all the code's comparisons depend on (`Full`). What is sent is
counted in half chunks (`Sent`): `startPlay` gives BSP_AUDIO_OUT_Play half a
chunk's bytes, and that function halves the number again to count half-words, so
the first transfer is half a chunk (`PlayFirst`); the interrupt gives
BSP_AUDIO_OUT_ChangeBuffer half-words, a whole chunk (`PlayNext`). `StartRecord`
and `StartPlay` are one step up to the start of the DMA, since nothing runs
before it: the sketch starts only when nothing runs, as in the examples.
After it `startPlay` still moves the cursor, a load and a store
(`AdvanceLoad`, `AdvanceStore`) between which the interrupt can come. `stop` is
cut between the reading of the cursor, the two size fields, the state and the
DMA. The interrupts are `RecordIrq`, `RecordFull`, `RecordCallback`, `PlayIrq`
and, when the state has changed meanwhile, `LastIrq`. The DMA fills the single
`_record_buffer` in two halves so that a copy made at the wrong time shows.

### External parts

For MQTT the DNS look-up and TLS handshake are inside `Dial`. The hub, the
service, the HTTP server and the WebSocket server are external: they are
modelled by the answers the code tells apart, and within limits: the HTTP server
sends a head, which may be unreadable or refuse, and a body of whole pieces, not
more than the length it has announced, and may close, reset or fall silent
at any point; the MQTT peers
answer in the packets of their protocol, CONNACK first; the WebSocket server
sends frames that are well formed. The flash driver, mbed TLS, the
HTTP parser and FAT are external too; the first two appear as far as the code
in `src/` calls them.

## 3. Runs

The runs take from seconds to two and a half minutes with two workers. Deadlock is
checked in every one of them.

| Run | Checks | Bounds |
|---|---|---|
| `ring_buffer` | types; the refinement of `ByteFifo`; `available` and `use` never overstate; a peeked byte is the next one read | 4 cells (3 usable), 2 byte values |
| `buffered_serial` | order of bytes in both directions, no repetition under `flush`, no byte waiting without a handler, everything is sent, no endless interrupt | rings of 3 cells, 4 bytes out, 3 in, writes of up to 3 bytes, 1 flush |
| `device_config` | a saved value stays (`Durable`), small settings are never mixtures, a true from LoadAll means RAM has what the chip has, no operation touches another setting | profile MQTT_USERPASS_TLS, settings of 1, 2 and 7 chunks, 2 values, 2 saves, 1 failed command, 1 power failure |
| `config_file` | what was saved is read back, other lines and comments that were read stay, no second line for a key, all once the flash has it | 2 keys, 2 values, 3 lines, any starting file, unbounded failures, seen and unseen; what was never written reads as a spoiled line or as two lines of one key |
| `azure_iot` | each part talks to its own server and leaves nothing open; true means assigned, one request at a time, the registration ends; subscriptions after every reconnect, a lone twin request is answered, the device stays connected while its token lasts | 2 attempts per connect, 3 registration retries, 2 hubs, 2 things that go wrong at the hub, 2 requests, 2 packets each way; what goes wrong at the service is not bounded |
| `websocket` | frames received as they were sent, frames sent in order, receive returns | buffer of 1, payloads of 0, 1 and 2, 4 items under way |
| `audio` | header against data, order of chunks, silence after the end, an end | buffers with room for 1 and 2 chunks, recordings with a callback of 3 chunks |
| `ota_update` | nothing is lost between TCP and TLS; size and checksum describe what was received, and the flash where it was blank; a download over TLS ends | images of no piece, of as many as the partition has room for (2) and of one more; with and without a length, over TLS and without; any number of downloads, before and after applying; a partition blank or garbled in any place |
| `secure_channel` | violated: see below | as `device_config` |
| `config_saved` | violated: see below | as `config_file` |
| `twin_answered` | violated: see below | the hub part alone (`AzureIoTHub!Spec`), 2 requests, nothing going wrong |
| `quick_start` | violated: see below | as `audio` |

Why the bounds are enough. Three usable cells let each index wrap while the
other stands anywhere; two byte values tell two cells apart, and the proofs of
section 5 remove the bound. With rings of two usable bytes and four to write,
every write can meet a full ring, an empty one and a wrap. The three settings
saved are one of each shape that occurs in the table: one chunk, two chunks in
a zone, seven chunks in three zones (in this profile no buffer is smaller than
its zone, so that `Loaded` is exact; the proof covers the others); one failed
command and one power failure already combine with every command of two saves
and an enabling. A file of
three lines has a line before and a line after the one that is replaced. Two
attempts are the least that show a retry; two things going wrong let a
failure hit the recovery from a failure. Buffers for one and two chunks
contain the ends of the range and a chunk in the middle of a stop. Payloads of
0, 1 and 2 for a buffer of 1 are the empty frame (whose ping gets no pong), the
one that fits and the one that overruns; four items hold the longest frame or
two short ones, so that a misread item is the next frame's.

Four runs end in a counterexample, because the code does something else than
its documentation says:

- `secure_channel`. `EEPROMInterface.h` says that enabling the secure channel
  encrypts all data and that 1 is returned when it was enabled already. The key
  is set first. When a later command fails, or the power does, the rest of the
  zones stays in the clear, cannot be read any more, and every later call
  returns 1.
- `config_saved`. `ConfigFile_Save` returns 0 though the entry cannot be read:
  a new entry is appended to a last line without newline. Such a file comes from
  an editor or from an earlier save that was cut off.
  `SavedIsReadUnlessJoined` shows that this is the only case in which the bytes
  are in the flash: the code also returns 0 when it does not see that the flash
  has not taken them (below).
- `twin_answered`. Two overlapping twin requests are both answered by the hub,
  but a flag stands for all of them and the first answer clears it.
  `LoneTwinAnswered` shows that requests that do not overlap are answered.
- `quick_start`. The streaming example in `docs/libraries/AudioV2.md` copies the
  record buffer from `loop` after the callback set a flag. By then the next
  transfer into the same buffer is under way.

What the code does not promise, found while modelling and not checked by a run
of its own:

- A save of a file-backed setting loses what it does not read. An open or a malloc
  that fails and a file over 64 KiB count as an empty file, and a read that stops
  early counts as the whole: the other lines are dropped and 0 is returned. A read that returns a
  negative number stores a NUL before the buffer and goes on with memory that was
  not written (`Remains`); the damage beyond the file is not followed. Power lost
  between the truncation and the write loses every setting.
- A save of a file-backed setting returns 0 when `write` took every byte. That
  `close` failed, or that the flash below did not take the sectors
  (SFlashBlockDevice returns 0 in every case), is not noticed: the file may be
  empty, old, new or neither (`flushed`).
- Under profile MQTT_USERPASS the password has a zone of 784 bytes and a buffer of
  680, the device id 680 and 256: a longer value is saved, loaded without its
  end, and LoadAll returns true. `LoadAllSound` allows for it (`Cramped`).
- A connection lost in the middle of a download over TLS counts as its end:
  OTADownloadFirmware returns the size of what came, not -1. `SizeTruthful` says
  that this is what was received and written; `SizeOfTheFirmware`, which says that
  it is the whole firmware, does not hold.
- OTADownloadFirmware does not erase the partition before it writes. Where
  something was written before, what the flash holds afterwards is up to the
  driver, and the size and checksum returned describe what was received.
- A download that begins after OTAApplyNewFirmware and before the restart writes
  over what the system was told to install. `SizeTruthful` ends there.
- When there is no response, OTADownloadFirmware still reads its status
  (`OTAFirmwareUpdate.cpp:39`), through a null pointer. On this microcontroller
  the address can be read and holds no 200, so -1 is returned (`Returns`).
- An MQTT packet longer than the buffer of 1024 bytes, or torn, is dropped before
  `mqttCallback` sees it: a twin in such a packet never arrives.
  `LoneTwinAnswered` counts the twins that reach `mqttCallback`.
- The second half of the first chunk is never played: the first transfer sends
  256 bytes and the cursor moves by 512. `PlaysInOrder` says which halves are sent.
- A `flush` may make the transmit interrupt send bytes again that were sent before:
  between its two stores the ring's indices enclose old cells. `RxNeverRepeats` is
  about the receive ring, where this cannot happen.
- An enabling of the secure channel does not look at the result of its plain reads,
  and seals what the buffer held before; a chunk that cannot be read is
  overwritten with zeros. `Durable` and `SmallSettingsWhole` leave the first out.
- After 24 hours the token has run out and nothing makes another: the device
  does not come back until it is restarted. `StaysConnected` ends there.
- `WebSocketClient::connect` returns true whenever there is a socket, and `close`
  leaves the socket: after a refused handshake, a Close or a reset, only a new
  object makes a new connection. The example WebSocketEcho reconnects by
  `connect`. `receive` returns a result of type Timeout, not NULL as its
  comment says, when nothing came; a ping without payload gets no pong;
  the type of a continuation is wrong after a ping in between; and a
  connection closed in the middle of a frame is read for ever (`Spinning`).
  A write that fails leaves `_firstFrame` as if it had succeeded.
- `receive` ends the payload with a NUL behind it, so the buffer needs one byte
  more than the size it is given.

What the passing properties assume is part of them: `Durable` and
`SmallSettingsWhole` name the cases they leave out with history variables
(`doubt`, `hurt`, `harm`), each of which is a failure the caller was told of or
one the code ignores (`harm`, an enabling that failed half way).
`LoadAllSound` leaves out the settings whose failed read the code tolerates,
and `DEVICE_CERT`, which LoadAll never reads. The properties of `ConfigFile` speak
of saves whose bytes the flash has (`flushed`); `OthersKept` of the lines that
the save has read (`taken`), the last of which was ended, since the entry would
otherwise run into it; `NoSecondLine` of saves that took the file or a part of it
(`ReadSome`). `TxInOrder` and `RxInOrder` end with the first flush.
`ResultsTruthful` speaks of frames whose bytes were not late, and of
continuations that nothing came between. `FramesWellFormed` ends with the first
write that fails.
`PlaysInOrder` promises the exact order only if `startPlay` moves its cursor
before the first transfer, of half a chunk, ends, 8 ms at 8 kHz (`early`); a
thread that is held up for longer repeats or skips chunks, but never passes the
end. `Terminates` and `ReceiveReturns` name the endless loops of the code
(`Spinning`) and show that there is no other.

## 4. Fairness

- `BufferedSerial`: a call once begun goes on, pending interrupts are taken, the
  UART shifts out its register. Nothing makes the sketch begin a call.
- `AzureIoT`: the library code runs on, ten seconds pass while a registration
  waits, the hub handles what has reached it and keep-alive times pass (all
  weak). `Loops` is strongly fair: the sketch returns to `azureIoTLoop` again
  and again whatever else it does, as every example does in `loop`. Refusals
  and losses at the hub are bounded by `MaxFaults`, so `StaysConnected` says:
  when things stop going wrong, the device is connected again, until its token
  ends. The service owes nothing and may fail without bound: `Terminates`
  excludes the spinning loop by name.
- `OTAFirmwareUpdate`: the device runs on. Nothing is asked of the server or the
  network; `DownloadEnds` leaves out plain TCP to a server that has vanished,
  where `recv` blocks without a limit.
- `WebSocketClient`: every recv ends and `receive`'s time passes. The sketch, the
  server and the network owe nothing.
- `AudioV2`: the DMA moves its data and its interrupts are taken. The sketch owes
  nothing, it need not even come back from a call.
- The other modules have safety properties only.

## 5. Proofs

Every safety property of a passing run, the action property
`OthersUntouched` and the refinement of `ByteFifo` are theorems: for every
value of the constants that the named assumptions allow, they follow from an
inductive invariant. The assumptions say what kind of thing a constant is; none
puts a limit on a size, a count or a set.

`RingBufferProofs` proves, for every ring size above 1 and every set of byte
values (`SizeAssumption`, `ByteAssumption`):

- `InvariantHolds`: `IInv` is an invariant. `IInv` is `TypeOK` and what each
  side relies on in the middle of a call. `TypeOK` alone is not inductive: the
  producer stores into `addr_w` and publishes `next` long after it compared,
  so it is needed that the cell is still free then (`next # addr_r`, which a
  consumer that only moves towards `addr_w` keeps), and that the cell published
  holds the byte. For the consumer: the ring is still not empty when it reads
  the cell, and the byte loaded or peeked is still in the cell.
- `TypeCorrect`: `TypeOK`.
- `RingIsFifo`: `Spec` implements `ByteFifo!Spec` with the queue read off the
  cells between the indices. `StoreInvisible` says that a store outside of the
  queue changes nothing, `PublishAppends` and `AdvanceTakesHead` that moving an
  index is the append and the take of the abstract queue.
- `AvailableTrusted`, `UseTrusted`: the two reads of the other side's index
  may differ, but the answer is at most what there is at the second read.
- `PeekTrusted`: a byte peeked is the byte the next `getc` returns.

One producer and one consumer is an assumption of the specification; two
threads that write to one port break it.

`OTAFirmwareUpdateProofs` proves, for every set of images of every size, every
size of the partition and every portion of TCP:

- `InvariantHolds`: `IInv` is an invariant. It ties together what five counters
  say: what the server has sent, what TCP and `_recv_buffer` hold, what mbed TLS
  has taken, what the parser has called back, and `body_length`, `flashIdx` and
  the flash. None of `StreamWhole`, `SizeTruthful` and `TypeOK` is inductive
  without it: that the size returned describes what was received, and the flash
  where it was blank, follows only because the callback, once it failed, never
  writes again, and because a new download sets all three statics before the
  flash changes. `Agreement` is what the two have in common while a download runs
  and after it; nothing is assumed of places that were not blank.
- `TypeCorrect`, `StreamStaysWhole`, `SizeIsTruthful`: the three invariants.

`BufferedSerialProofs` proves, for rings of every size above 1 and any bounds on
what is sent (`SizesAssumption`, `BoundsAssumption`):

- `InvariantHolds`: `IInv` is `TypeOK`, `TxInv` and `RxInv`. The order of bytes is
  not inductive: a handler may take from a ring between the two accesses of
  the thread. `TxInv` adds to `TxInOrder` and `NoLostWakeup` that the cell to be
  published is still free when the thread comes to it, that the UART is never
  left with a byte and no handler, and what `flush` has cleared. `RxInv` says that what was delivered, what waits and what the UART holds
  are together an ascending sequence of bytes that have arrived.
- `TypeCorrect`, `TxStaysInOrder`, `RxStaysInOrder`, `NoWakeupLost`, and
  `NeverRepeats`, where `flush` stores the two indices in two steps.

The lemmas compute the ring's contents as a sequence: a publish appends, a take
drops the head, and both are independent of where the indices stand.

`DeviceConfigProofs` proves, for every profile, every set of settings that may be
saved and any number of failures (`ActiveAssumption`, `ErasedAssumption`,
`CountsAssumption`, `FaultsAssumption`):

- `InvariantHolds`: `IInv` has eight parts. `Durable` speaks of whole strings, and
  is not inductive since a string is written one command at a time. `CallInv`
  and `OpInv` tie what the chip is doing to the zone that the call has
  reached; `SaveInv` says which chunks of the value are written already;
  `DurableInv` and `WholeInv` say chunk by chunk what a setting holds; `SealInv`
  which chunks an enabling has yet to seal, and that it stores what it read;
  `LoadInv` that the buffer holds the chunks read so far and that RAM agrees
  with the chip for the settings already passed, as far as its buffers reach
  (`RamHas`).
- `TypeCorrect`, `SavedIsDurable`, `SmallStaysWhole`, `LoadedIsStored`, and
  `OthersAreUntouched`: no step of a save or a load, failed or not, changes what
  another setting reads as (the action property `OthersUntouched`).

That no two settings of a profile share a zone (`MappingDisjoint`) is proved from
the table in `Profiles`; `Layout` says that the zones of a setting have room
for its pieces, each once. `TextHolds` and `TextBlank` lead from chunks to the
string read.

`ConfigFileProofs` proves, for every set of settings and values, files of any
length and any content of memory and flash that nobody has written
(`KeyAssumption`, `LinesAssumption`, `RemainsAssumption`), `NoSecondLineEver`,
`SavedIsReadBack`, `TypeCorrect` and `OthersAreKept`. None of these is
inductive: what the file holds after `SaveWrite` follows from what
`newContent` was made of two steps before, so the invariant `IInv` says that from
`SaveRead` on `newContent` is the update of what was taken for the file, that
after a save that returned 0 the file is that update if the flash has it, and
that neither has lines of a key that the file did not have, but for one, if what
was taken is part of the file (`NoneAdded`). The rest is about the operators:
`UpdatedReplaces`, `UpdatedAppends`, `UpdatedJoins` for the three cases of an
update, `UpdatedKeepsOthers` for the lines it leaves alone, `StumpLines` for a
write cut short anywhere.

`AzureIoTProofs` proves, for any set of hubs, at least one attempt and one retry
and any number of faults and requests (`HubAssumption`, `RetriesAssumption`), six
invariants of the composition. A packet under way is acted upon many steps
later, so none is inductive alone. The parts of `IInv` are:

- `WireInv`: which packets can be under way to and from whom, while registering
  and after.
- `StageInv`, `ConnectionInv`: which part is in a call, that registration starts
  and ends with a closed connection, and whose server a connection leads to.
  From these `EachToItsOwnServer` and `NoConnectionIsLeft`.
- `RequestInv`: between device and service there is at most one request
  or one answer, and what `s_assigned` says the service has assigned. From it
  `OneRequestOnItsWay` and `TrueIsAssigned`.
- `SubscribedInv`: a new connection begins with a CONNECT and no subscription, and
  for every topic the hub has it, or it is on its way, or yet to be sent.
  From it `ConnectedIsSubscribed`.
- `TwinInv`: as long as requests do not overlap, at most one request or full
  answer is under way, and then `twinGetPending` is set. From it
  `LoneTwinIsAnswered`.

`WebSocketClientProofs` proves two properties, for every buffer size, every set
of lengths and any number of items under way (`WebSocketAssumption`).

- `FramesAreWellFormed`. The inductive part is `Agreed`: as long as writes succeed,
  `_firstFrame` is false exactly when the server is inside a message of the
  device. `ControlKeeps`, `DataKeeps` and `FrameKeeps` show it for the three ways
  in which a frame is sent, the answers from inside `receive` among them.
- `ResultsAreTruthful`. The property speaks of one frame, and that it was read
  from its first byte on follows only from the whole stream: `StreamInv` says that
  what is under way is a row of frames, cut short only by the end of the
  connection, and that a continuation goes on with the message before it;
  `PlaceInv` where in it `receive` stands; `ReadingInv` and `MessageInv`
  that `_messageType` is the type of the message, unless something else has
  gone through it (`disturbed`). All of it holds until a byte comes late (`cut`).
  The lemmas `Part...` are about a stream of which items were read or lost, the
  lemmas `Grown...` about one with a frame more.

`AudioV2Proofs` proves, for every set of buffers of any size (`BufferAssumption`):

- `InvariantHolds`: `IInv` is `TypeOK`, `DmaInv` (the DMA runs only for the state
  that started it, or between the two last stores of `stop`), `RecordInv` (the
  chunks up to `_recordCursor` are in the buffer, in order), `HeaderInv` (the
  cursor that `stop` has read and what it has written of the header are at most
  the cursor now) and `PlayInv` (which chunk is playing and how much of it is sent,
  and that the thread's pending store of the cursor stays within the data). The header is written in
  two steps from a cursor that the interrupt moves meanwhile, so it
  needs all of these.
- `TypeCorrect`, `HeaderIsTruthful`, `PlayedInOrder`, `QuietAtTheEnd`.

Only model-checked, and why:

- Liveness: `TxDrains`, `NoInterruptStorm`, `Terminates`, `StaysConnected`,
  `ReceiveReturns`, `ComesToAnEnd`, `DownloadEnds`. Temporal logic with fairness
  is out of the prover's reach.
- What the four violated runs refute. For two of them the weaker statement
  that does hold is proved: `SavedIsReadUnlessJoined` and `LoneTwinAnswered`.

## 6. Not modelled

- Formatting, parsing, console editing, setting validation: sequential text.
- The bytes of MQTT packets, QoS 1 acknowledgements, payloads: properties here
  concern packets. That the callback's topic points into the buffer that a publish
  inside the callback overwrites does not show in them.
- The cryptography of the SAS token, and wall-clock time but for its end.
- The HTTP server: pages and request parsing around a vendored server. Of the
  HTTP client: request bodies, response headers, URLs. Client certificates.
- Masks, extended length fields and the text of WebSocket frames and requests.
- The bulk `put` and `get` of the ring, which nothing calls.
- Audio is the older form of AudioV2. Of AudioV2: playing with a callback, `convertToMono`, the
  codec's registers, and starting while something runs.
- Sensors, display, SPI, Wire: blocking calls of vendor drivers.
- `system/`, the bootloader and the vendored parsers.

## 7. Plan

1. (done) `RingIndex`, `RingBuffer`, `ByteFifo` and the proofs.
2. (done) `BufferedSerial`; `Eeprom`, `Profiles`, `DeviceConfig`; `ConfigFile`;
   `PubSubClient`, `AzureIoTHub`, `AzureIoTDPS`.
3. (done) `AudioV2`.
4. (done) `TLSSocket`, `HttpsRequest`, `OTAFirmwareUpdate` and their proofs;
   `AzureIoT`, the composition of registration and hub; `WebSocketClient` and its
   proofs.
5. `RingBuffer` with the bulk `put` and `get`, which evaluate a count twice; the
   threads and sockets of the HTTP server.
6. (done) Proofs of every safety property that a passing run checks.
7. Proofs that are left: that `Eeprom` alone is an abstract store of chunks of
   which a failure disturbs at most the zone being written, as a refinement; that
   `BufferedSerial` drives each of its rings as `RingBuffer` does.
