# UtilitaryRS in TLA+

UtilitaryRS is a header-only C++ library for a master/slave serial bus: a
`DeviceHub` discovers devices, sends them commands, requests and files, and
watches whether they are alive; an `RsHandler` on every node turns bytes into
messages and messages into virtual calls. This directory models the hub with its
bus, the way of a file into a device's store, and the parser with the nodes
behind it; it checks the models with TLC and proves their main invariants with
TLAPS.

Paths below are relative to the repository's root; `DeviceHub.hpp` and the other
headers are in `include/UtilitaryRS/`.

## 1. Inventory

| Component | State | Operations | Modelled by |
|---|---|---|---|
| `DeviceHub` (`DeviceHub.hpp`) | `hub` (UID -> `DeviceWrapper`), `nameToUid`, `temporaryUid`, the inherited `messageNumber` | `probeAll`, `sendCmdToDevice`, `sendBlobRequestToDevice`, `createSchedRequest`, `sendFile`, `process`; handlers `handleAck`, `handleBlobAnswer`, `handleDeviceInfoAnswer`, `handleDeviceHealth` | `DeviceHub`, `HubDevice` |
| `DeviceWrapper`, `FileTransferContext`, `PendingTrans`, `TelemetryUnit` (same file) | one device as the hub sees it: phase, pending request, queues, schedule, timeout counter, file transfer | the parts of the handlers that touch one record | `HubDevice` |
| `RsHandler`, dispatch (`RsHandler.hpp`) | `messageNumber`, `lastAck` | `process` (what a node answers to each message), the `send...` functions | `RsHandler`, and `Transmit` and `NodeReceive` of `DeviceHub` |
| `RsHandler`, bytes | the parser, the output buffer | `update` over a slice of bytes, `create` and `write` in every send function, `sendAnswer`'s size test | `MultiNode`, `SerialLine` |
| `RsParser` (`RsParser.hpp`) | state, buffer and position, type and length of the message | `update`, `reset`, `create`, `getReceiverFromPayload` | `RsParser` |
| `MultiNode` (`MultiNode.hpp`) | the nodes, one parser | `update`, `routeMessage` | `MultiNode` |
| `Crc8`, `Crc64` | none | `calculate` by table, `update` by bits | `Crc8`, `Crc64` |
| `RsTypes`, `RsHelpers` | none | enumerations, packed structures, size tables, texts | `RsTypes`, `RsHelpers` |
| A device's file store (`test/HubTest.cpp:76-130`) | the bytes received, the expected size, whether the file was right | application code behind the `handleFileWrite...` handlers | `FileDelivery` |

**How they interact.** Everything is single threaded. The application calls the
hub's functions, `update()` with bytes it has read and `process(aTime)` with the
time, one after another. `update` ends in `RsHandler::process`, which calls a
virtual handler of the hub; the hub calls its `DeviceHubObserver`, and the
observer may call the hub back. Devices are other programs: they share only the
bus. On a device the bytes go through `update` of one `RsHandler`, or of one
`MultiNode`, which owns the parser of several handlers and gives each message to
those it is for. The file handlers of a device are its application's. `process`
visits every device in the order of its UID, does at most one
thing for it, depending on its state and on `nextCall`, and then checks whether
its pending request has timed out.

**A device's life** (`DeviceState`): an unexpected Ack makes a record in
`InfoRequest`; a `DeviceInfoAnswer` to the pending request gives it its name and
makes it `Running`; `sendFile` makes it `FileTransfer` until the transfer ends;
`LostLimit` timeouts make it `Lost`, the next visit `Probing`, an answered probe
`InfoRequest` again. `Suspended` is never entered.

**A transfer's life** (`FileTransferContext`): `Request` -> `Sending` (one chunk
at a time, each acknowledged through `packetAck`) -> `Finalize`, or `Cancel`.

**What is hard here.** One pending request per device, overwritten by whatever
is sent next; one `temporaryUid` for all devices; answers matched by an 8-bit
number that all send functions share; frames lost or late; timeouts that race
answers; time that passes during a pass; callbacks that start a transfer in the
midst of a handler; context fields that survive from one transfer to the next;
a device that restarts while a file is sent to it. On the line: bytes changed or
lost, slices that begin and end anywhere, lengths that lie, preambles inside
messages, a parser that gives up in the middle of a slice.
`PROJECT.json` lists the hazards line by line with the properties that guard
against each.

**What makes the components correct.**
Hub: a name leads to its device and only there; a device is in service only
after it was asked and has answered; what is taken for an answer answers the
pending request; silent devices leave service and returning ones come back;
discovery finishes; queues are emptied and schedules kept.
File transfer: bytes go out once, in order, one chunk at a time, finalized
exactly at the end of the file; every transfer ends; Ok is reported only for a
file that the device found right, and Error, on a good bus, only if it refused.
Handler: every request gets one answer, an Ack none.
Parser: what is processed was sent, once and in order; what is not damaged is
processed, however it is sliced; after damage the parser is soon in step again;
no byte goes behind the buffer; a message that is processed is as long as the
structure it is cast to. MultiNode: a message reaches the node it is addressed
to, or all. CRC: the two ways to compute a checksum agree.

## 2. Modules

| Module | What it is |
|---|---|
| `RsTypes` | message types, result codes, the reserved UID |
| `RsHandler` | `Reply`: what a node puts on the bus in answer to a message |
| `HubDevice` | the record of one device and the operators on it: `StartFile`, `Acked`, `CheckTimeout`, `Advanced`, `Aged`, ... It has no variables |
| `DeviceHub` | the hub, its application, the bus, the devices and the clock: the specification `Spec`, with fairness `FairSpec`, and the properties |
| `DeviceLifecycle` | the abstract specification: the life of each device without numbers, queues or clocks |
| `DeviceHub_proofs` | theorems about `DeviceHub` |
| `FileAcks_proofs` | whose answer `packetAck` is, on top of them |
| `FrameOrder_proofs` | the order of the frames under way and their numbers, on top of these: one chunk at a time, answers that fit |
| `FrameNumbers_proofs` | how many numbers may be given out while a request is pending, on top of these: with few devices none is used again too soon |
| `Timely_proofs` | what the hub promises on a good bus, on top of these: no device that stays on is taken for lost, and nothing disturbs a transfer |
| `FileDelivery` | `DeviceHub` composed with the stores of the devices: what each file frame carries, what the device makes of it, restarts, and what the observer is told |
| `FilePromise` | the abstract specification of a file transfer: at most one report, Ok only for a file that the device found right |
| `FileDelivery_proofs` | the composition is a `DeviceHub`, so that its theorems hold there, and implements `FilePromise`; on a good bus a transfer fails only when it is refused |
| `RsHelpers` | message types as numbers, the sizes of messages |
| `RsParser` | the parser, one action for one turn of the loop of `update` |
| `MultiNode` | the loop of `update` over a slice (of `MultiNode` and of `RsHandler`) and the routing, over any bytes whatever |
| `MultiNode_proofs` | theorems about the parser and the routing |
| `SerialLine` | a sender, a line that damages bytes, and the device of `MultiNode` |
| `SerialLine_proofs` | such a line is one of the inputs of `MultiNode`, so that its theorems hold there; of an undamaged stream nothing is missed, and after damage the parser recovers |
| `Crc8` | the checksum of a message; an assumption that TLC evaluates says that `calculate` and `update` agree |
| `Crc64` | the checksum of a file; an assumption that TLC evaluates says that `calculate` and `update` do not agree (section 5) |
| `MCDeviceHub`, `MCFileDelivery`, `MCSerialLine` | values of constants for TLC |

`FileDelivery` extends `DeviceHub`, which uses `HubDevice`, `RsHandler` and
`RsTypes`. `SerialLine` extends `MultiNode`, `RsParser`, `RsHelpers` and
`RsTypes`. The two halves meet at the bus: `DeviceHub` assumes frames that are
lost or late but neither invented, nor repeated, nor reordered, and
`SerialLine` shows (`InOrder`) that this is what parser, checksum and routing
make of a line that damages bytes.

**Correspondence.** `hub`, `nameToUid`, `temporaryUid` and `messageNumber` are
the fields of the same name (`"Absent"` and `kReservedUID` stand for keys that
are not in the maps). Each public function is an action (`ProbeAll`,
`SendCmdToDevice`, `SendBlobRequestToDevice`, `CreateSchedRequest`, `SendFile`)
with its checks as guards. Each handler is one action that consumes the reply
that triggers it (`HandleAck`, `HandleBlobAnswer`, `HandleDeviceInfoAnswer`,
`HandleDeviceHealth`). `process` is `BeginPass` and then one `Visit` per device,
lowest UID first; `scan` holds the devices left, and no other hub action is
possible until it is empty. `Visit` has one disjunct per branch of
`processDevice`, and every one ends in `Leave`, which sets `nextCall` and runs
the timeout check. `MayAwaitAt` and the rest of section "Properties" model no
code.

**Time.** Stamps are kept relative to the present (`age` grows, `wait` is 0
when `nextCall` is reached) and saturate where the code can no longer tell
them apart. `process` gets `aTime` once and frames take time to write: `lag` is
what has passed since, at most `MaxLag`; comparisons use `age - lag`. The new
record's stamps are 0 ms, hence `uptime` ago.

**The bus.** It delivers frames in order and, when `Lossy`, loses any of them.
A frame is delivered or lost before its number is used again, that is before 255
more frames have been sent (`NumMod - 1` in the model). A `FileWriteChunk`
without data is never parsed (`RsParser.hpp:112`: the receiving parser waits for
a payload byte), which `Parsable` says. Every device answers as `Reply` says
with any result of `Codes`.

**Files.** `cargo` is what the file frame of a number carries: the total of
the file and the offset of the chunk, recorded when the hub sends it. `store` is
the device of `test/HubTest.cpp`: `buf` and `expected` are `recvBuf` and
`expectedSize`, which are in RAM and lost with a restart. A file's contents are told by its length, so that any byte out of its
place, or of another file, is seen, and equal checksums mean equal files.
A device may also answer a request or a chunk with any other result; its
verdict on the whole is not a choice. `result` is what `fileWriteResultEv` was
called with in the last step. Two variables are histories for the properties and
guard nothing: `found` is the file a device has answered `FileWriteFinalize` with Ok
for since it last began one, `refused` the devices that gave a reason to fail since the
present transfer began, by a call of the application or from within a callback
(`Anew`).

**Bytes.** `parserState`, `buffer` (its first `position` bytes) and `message`
are the parser's fields. The turns of the loop in `update` that consume their byte
are `Scan`, `HeaderByte`, `HeaderEnd`, `ConstByte`, `BaseByte`, `PayloadByte`,
`Swallow` and `CrcByte`, by the branch they take; those that reset and return are
`Refuse`. `slice` is what is left of the argument of the outer `update`,
`entered` says that the running call of the parser has not consumed anything, so
that a refusal makes `parsed` 0 (`DropSlice`) or not (`ParseAgain`).
`RouteMessage` is `process` of every node the message is for; `got` records the
messages they process. An `RsHandler` that stands alone is the case of one node.
On the line, `Send` puts a whole message behind what is under way, since
`interface.write` gets it in one call, and `Receive` takes any number of bytes.

**Abstractions.**
- Payloads, names and requests are abstract: `commandQueue` and `requestQueue`
  are their lengths. In `DeviceHub` a chunk is its length; contents are compared
  in `FileDelivery`.
- The Acks the hub sends to devices are not kept: `handleAck` of a device does
  nothing. `lastAck` is written and never read.
- Observer events are not recorded; they are called where a comment says so. An
  observer may call `sendFile` for the device the callback is about from within
  it (`again`); from any other callback that equals `SendFile` as the next step.
  `sendCmdToDevice` and the like from a callback in the midst of a pass are
  modelled after the pass.
- A pass that has nothing to do is left out, and so are calls the code rejects:
  they change nothing.
- `sendFile` on a device in service sets `state`, `totalSize`, `chunkSize`,
  `sentOffset` and `firstPacket`, and leaves `chunkSent` and `packetAck` alone,
  as the code does.
- `probeAll` with a delay between its frames (`aBlocking`, `DeviceHub.hpp:129-134`) sends the
  same frames; that nothing else runs on the hub for 100 ms after each is not modelled.
- Names and UIDs are unique, as "Constraints" in the repository's README.md asks
  (`BusAssumption`).

## 3. Runs

Delays of 50, 100, 200, 200, 500, 1000 and 1000 ms are 1, 2, 4, 4, 5, 5 and 5
ticks: their order, and which are equal or a multiple, is what decides races, and
`TimingAssumption` (section 4) asks for no more (in `Requests` the last five are 3, 3, 4, 4
and 4). `LostLimit` is 2 (20 in the code), so that a timeout may be
counted and then forgotten or completed; `NumMod` is 4 (3 in `Transfer`; 9 in `Service`, to meet `Few` of section 4), so that numbers wrap all
the time and, with `probeAll` and a chain of requests, an old frame does get close
to the end of its life; `ByteMod` is 4 (256 in the code); a file has 3 bytes in chunks of 2, hence
one full and one short chunk, in `Workload` also 1 byte, and in `Transfer`
also 5 bytes in one chunk: its length does not fit a byte, so that it is cut and an
empty chunk follows in the end. "Timely" means that a tick passes only when the bus
is empty and `process` has nothing due; without it any frame may be late by any
time.

| Run | Instance | States | What it shows |
|---|---|---|---|
| `Service` | 2 devices, no loss, numbers that begin with 0 or wrap, both kinds of `probeAll`, device 2 switched off and on at any time, fair | 96 k | `RegistryOK`: a name leads to the device that reported it, and a device in service has one, although `temporaryUid` is shared and requests go to the wrong device. `NoFalseLoss`, `DiscoveryCompletes`: what stays on comes into service and is never taken for lost. `SilentLeavesService`, `ReturnsToService`: what goes off leaves service for good, what returns for good is in service for good |
| `Requests` | 1 device, lossy and late, commands, blob requests, health requests, two `probeAll` of 2 frames each | 2.2 M | `TypeOK` (with the bound on the timeout counter) and `AnswersFit`: no late answer is taken for that of a later request. `NumbersStayFree`: no frame gets the number of a request that is pending with its device, which is what `AnswersFit` rests on |
| `Transfer` | 1 device, lossy and late, two files, one of them also sent from callbacks, answers Ok, Busy, Error, restarts at any time | 1.7 M | `OffsetFits`, `StopAndWait`: chunks go out one by one and the offset never passes the end, although the length of a chunk is cut. `KeepsPromise`: the hub with its devices implements `FilePromise` |
| `SlowPass` | 1 device, lossy and late, `MaxLag` 1, observer that sends files | 1.9 M | `PendingFitsState`: the request that ends is always one the present state can have issued, which `handleAck` and the timeout check rely on. `AckIsOfLastChunk`, `StopAndWait`: an answer that was left over from an earlier transfer can confuse the first chunk of the next (section 5) and nothing after it. `KeepsLifecycle`: the hub implements `DeviceLifecycle` |
| `Workload` | 1 device, no loss, files of one and of two chunks, the latter also sent from callbacks, a command, a request, a schedule of 3 or 5 ticks, answers Ok, Error, Wait, Busy, fair | 233 k | `TransfersEnd`, `QueuesDrain`, `UnitsArePolled`: nothing that is queued is forgotten, under the priorities of the code, and each transfer ends, although another may begin at once from within the callback that reports it. `FailsOnlyRefused`: Error is reported only when the device refused the request or a chunk of this transfer |
| `Line` | 3 messages out of 6 kinds, 2 nodes, at most one message with a byte lost or changed, all slicings | 1.2 M | `InOrder`, `NoneMissed`, `Recovers`: section 1, "Parser". `ParserTypeOK`, `ProcessesWhole`: the buffer and the lengths |
| `UnansweredFileRequest`, `ChunkCount`, `WaitAnswer`, `OldRequest`, `TwoUnits`, `SharedBus` | small | | disagreements, section 5 |

**Why the bounds are enough.** Devices interact through `temporaryUid`,
`nameToUid` and broadcasts only, and two are the number at which answers can get
mixed up. Everything else is per device, and one device is enough for it. One
entry per queue gives both sides of every priority test. A second `probeAll` in the midst of
pending requests takes half of all numbers at once, so that they wrap while old answers
are still on their way. In the other direction: `AnswersFit` holds as long as
fewer than 256 frames are sent while a request is pending; with `MaxDeviceCount`
above 128, two more calls of `probeAll` within 200 ms would break it.

`Line` has the real sizes of the fixed parts of messages, the real numbers of the
types and the real checksum; only the longest payload (3 for 255) and `BufferSize`
(11) are scaled, so that the largest answer `sendAnswer` lets through fills the
buffer, one byte more is refused, a length byte can be too large, and a payload
of length 0 can be waited for to the end (`Swallow`). The messages are one with a
preamble inside, a broadcast, one for a node that is elsewhere, a chunk, and blob
answers of the largest size and of one more; a changed byte becomes 0 or a
preamble, the two values after which the parser goes furthest astray. Up to two
bytes may be left on the wire when the next message comes. Three messages are
what `Recovers` needs: one that is damaged and two to recover (`Recovery`; one is
not enough, since it may be taken for the payload of the damaged one; the theorem, for any damage, needs
three with a buffer of 11 bytes, section 4). Its
premises are what the code needs: messages without a preamble inside (others can
be taken for a beginning), each sent after the line has gone quiet (so that
`DropSlice` ends where a message does), and a parser that does not wait for a
payload of length 0 in a buffer too large to end it (`Stuck`): with more than 261
bytes of buffer such a parser swallows what comes for ever. Crashes are in
`Transfer` only where the code meets them: the hub keeps nothing on disk, and a
device that restarts loses what it has received of a file.

What does not fit (more devices, longer files, other delays) is what the theorems
are for.

**Fairness** (`Fairness`): the clock advances, the application keeps calling
`process` and reading the bus, what was sent is delivered or dropped, and a
device does not answer Busy for ever. The first three are what any main loop
around the hub does (the calls in `test/HubTest.cpp`); the last is needed because
the hub resends a Busy chunk without a limit (`DeviceHub.hpp:580`), and it is
assumed of the devices only, as strong fairness of an answer other than Busy.
Liveness runs are without loss and timely: with loss nothing can be promised, and
a bus that is always late makes every request time out.

Premises of the liveness properties reflect the code's priorities: transfers
before commands, commands before requests, all before health and schedules. A
unit whose period is at most 100 ms renews the pending request before it can time
out, so `Service` has no schedule.

## 4. Theorems

The proofs are in `DeviceHub_proofs`, `FileAcks_proofs`, `FrameOrder_proofs`,
`FrameNumbers_proofs`, `Timely_proofs`, `FileDelivery_proofs`, `MultiNode_proofs` and `SerialLine_proofs`. Those about the hub hold for every set of devices, any files and queues, every
timing with `TimingAssumption`, every `MaxLag` below it, lossy or not, timely or
not. Assumptions: `TimingAssumption` (the order of the delays; a pass takes less
than 250 ms of them), `LimitAssumption` (limits are positive), `InputAssumption`
and `BusAssumption` (distinct names, UIDs below 255, counters large enough); for the
delivery of files, that Ok and Error are among the answers and that there are two
numbers or more.
`MultiNode_proofs` holds for every sequence of slices of any bytes, every set of
nodes with UIDs from 1 to 254, every `BufferSize`, `MaxPayload` and checksum.

| Theorem | Says |
|---|---|
| `Invariant` | `Spec => []IInv` |
| `TypeCorrect`, `RegistryCorrect`, `PendingCorrect`, `OffsetCorrect` | `TypeOK`, `RegistryOK`, `PendingFitsState`, `OffsetFits` hold always |
| `LifecycleKept` | `Spec => KeepsLifecycle`: every step is a step of `DeviceLifecycle` or a stutter |
| `DeliveryIsHub`, `DeliveryOffset` | `DeliverySpec => Spec`: the composition with the stores only restricts the hub, so that every theorem above holds of it, `OffsetFits` for one |
| `AckCorrect` | `Spec => []AckIsOfLastChunk`, for every `MaxLag`: from the second chunk of a transfer on `packetAck` is empty while a chunk is unanswered |
| `StopAndWaitCorrect` | `Spec => StopAndWait`, for every `MaxLag`: when a chunk is sent no chunk, and no answer to one, is on the bus, but for the chunk that a left-over answer calls for |
| `AnswersFitCorrect` | `Spec /\ NumbersStayFree => []AnswersFit`: what is taken for the answer to a request answers it |
| `PromiseKept` | `DeliverySpec /\ NumbersStayFree => KeepsPromise`: the hub, the bus and the stores implement `FilePromise` |
| `NumbersFreeFew`, `AnswersFitFew`, `PromiseKeptFew` | `Few` (within a timeout the other devices and `probeAll` cannot use up the numbers) implies `NumbersStayFree`, and so the two above without their hypothesis |
| `NoFalseLossCorrect` | `Smooth => (Spec => []NoFalseLoss)`, where `Smooth` says that the bus is timely and loses nothing, passes take no time, `Few` holds and there are at most `LostLimit` devices: what stays switched on is never taken for lost |
| `FailsOnlyRefusedCorrect` | `Smooth /\ Mortal = {} => (DeliverySpec => FailsOnlyRefused)`: on such a bus a transfer fails only when its device refused the request or a chunk |
| `ParserTypeCorrect` | `InputSpec => []ParserTypeOK`: no byte is stored behind the buffer |
| `WholeMessages` | `InputSpec => []ProcessesWhole`: what `process` casts is as long as its structure and its length byte say, and for this node |
| `LineIsInput`, `LineCorrect` | `Spec => InputSpec` for the `Spec` of `SerialLine`, and with it both properties at the end of any line, for any messages and any number of faults |
| `NoneMissedCorrect` | `Spec => []NoneMissed`: of an undamaged stream every node processes all that is for it, in order and once, however it is sliced |
| `InOrderUndamaged` | `Spec => [](faults = 0 => InOrder)`: and nothing else, at any time |
| `RecoversCorrect` | `Patient => (Spec => []Recovers)`, where `Patient` says that `Recovery - 1` of the shortest messages fill the buffer: after any damage to any number of messages the parser is back in step |

**The argument.** `RegistryOK` is inductive only together with
`PendingFitsState`: a name enters the registry when a device in `InfoRequest`
answers, and a device that already has one must not be in service under another.
`OffsetFits` needs that a chunk's length is cut twice in the same way, and that
`Finalize` is left with the transfer. `IInv` is therefore `HubOK`, per record
`DeviceOK` (type, `timeouts < LostLimit`, a device in service has a name, the
offset) and `PendingOK` (pending fits the state) with the registry, and
`RestOK`, the other variables. The lemmas climb: operators of
`HubDevice` keep `DeviceOK` and `PendingOK` (`StartFileOK`, `CheckTimeoutOK`,
`AckedOK`, `AgedOK`, `ChunkOK`, ...); an iteration of `process` changes one
record, since the device a name leads to is the visited one (`OwnName`, from the
registry), and every one is put into the form `Iteration` of a `Switch`
(`VisitSwitches`), which later modules use too; a public call is a `Called` (`CallOK`), a
handler a `Handled` (`HandleOK`). Beside `IInv` every step lemma shows
`LifeMoves`: at most one device makes a move of its life and the others keep
theirs; with `LifeInit` and `LifeNext` that gives the refinement.

`AckIsOfLastChunk` says more than its name when it is made inductive (`AckFits`): while a
chunk is pending, `packetAck` holds an answer only if nothing of the file was acknowledged
yet. `sendFile` does not reset `packetAck`, and a chunk of the last transfer may still be
pending when it is called, since the stamp of a request is the time of the clock and
is compared with the time of the pass. But `sentOffset` is 0 then, and as long as it is:
each later chunk is sent in an iteration that resets `packetAck`, and its answer ends what is
pending. So the theorem needs no assumption on how long a pass takes, and the only
chunk that can be confused is the first (`LeftOver`). That it does happen is said in
section 5.

`StopAndWait`, `AnswersFit` and `KeepsPromise` are matters of order. `BusOK` says that
all that is under way to and from a device stands in one line, by the age of its
number: its answers, then the frames it has yet to get. `PendingLast` says that no
frame of a transfer is younger than the request that is pending: whatever `process`
sends to a device takes the place of its pending request, and what comes after a
transfer began is sent after all of the one before. Then the answer to a chunk that is
pending is the last of the transfer on the bus, and when it comes it leaves the bus free of
chunks (`ChunksAlone`). A chunk is sent only first, when the request for the file
was the last on the bus, or for an answer in `packetAck`, which by `AckFits` is of the last
chunk or left over. Every step is put
into one of few shapes first (`Shape`: at each device something is sent, asked,
answered, lost or nothing happens), so that the invariants are shown once per shape and
not once per action.

That a number is not used again while a request with it is pending is not a property of
the hub, and cannot be proved of it: `probeAll` and the requests to other devices use
the same 256 numbers and may be repeated at will within the 200 ms of a timeout. So it
is a hypothesis of two theorems, stated as a property (`NumbersStayFree`) that
`Requests` checks on an instance where the numbers do wrap in the meantime, and it is
proved from `Few`, a bound on the constants: with `q` the number of shortest waits
(`FileReqTime`, 50 ms) that make a timeout, `N - 1` other devices with `q + 1` frames each
and the frames of all calls of `probeAll` are fewer than `NumMod`. With the delays of the code
`q` is 4, so that 256 numbers are enough for 20 devices and 5 calls of `probeAll` for 30 each.
The invariant (`Room`) is an account: the age of a pending number, plus the frames each
other device can still be sent before the request expires (`Chances`, from when it is due
next and how old the request is), plus what `probeAll` may still send, stays below `NumMod`.
A visit that sends a frame takes one chance from its device, since it is not due again for
a `FileReqTime`; a device that was visited in this pass has no chance until the next (`Late`).
`Few` counts all calls of `probeAll` there ever are, which the model bounds
(`MaxProbeAll`). It holds of the constants of `Service`, `Transfer`, `SlowPass` and `Workload`, and not of those
of `Requests`, whose numbers are too few on purpose.

`NoFalseLoss` is an account as well. On a good bus everything is answered in the tick in which
it was sent, but for an information request that went to another device: `temporaryUid` is
one for all, and `process` sends to it the request of whichever device it asks first. `Served` says of a device that
stays on that only such a request can be awaited in vain (`Missing`), and that the timeouts counted,
the one that is due and the ones that may come (`Owed`) are fewer than the devices.
A request can go astray only while `temporaryUid` is another device's, and it is set when a
device is heard of for the first time: so at most once for each other device, of those
not heard of yet and the one remembered (`Strays`). A stray request takes one from
`Strays` and makes the device `Missing`, and its timeout takes that and adds to the count. An answer takes nothing from
the count: it begins anew only when the device is given up. `Few` is needed since an answer with a number used again could be taken
for another's; and chunks must have data (`Loadable`), since an empty one is never answered. With more
than `LostLimit` devices (20) the account does not close.

`FailsOnlyRefused` joins the two. `Undisturbed` says that while a frame of a transfer is awaited
its device is not visited again before the answer is there and no other such frame is
on the bus. Hence the transfer is in one of few situations (`OnCourse`): the store
holds the bytes before the offset, or also the chunk whose answer Ok is on its way or already in
`packetAck` (`ContextHeld`, `FrameHeld`, `AnswerHeld`); a Busy chunk was not stored. At
the end the store holds the whole file, so that the device's verdict is Ok. It is claimed only of
transfers that the device did not refuse; Wait counts as a refusal, as it does in the
property.

`KeepsPromise` follows the file from the offer to the verdict. `CarriedOK` and `StoreOK`
say what frames carry and stores hold, `VerdictsOK` that the answer to
`FileWriteFinalize` is Ok or Error. `FinalOK` is the heart: while a `FileWriteFinalize` is
pending, the frame with its number carries the file that is offered, and if an answer Ok
has that number the device has found that file right. The first holds since a transfer cannot be
replaced by another before its pending request ends; the second since, by `PendingLast`
and the order of the bus, no other frame of a transfer can reach the device after it
answered. `PendingTold`, hence `NumbersStayFree`, turns "the answer with the pending number"
into "the answer to the pending `FileWriteFinalize`". That the bytes are right is no
part of the invariant: the device's own verdict sees to that, and the hub may well
finalize after chunks were lost with a restart.

For the parser, that a message is whole when its checksum is awaited is
inductive only with what the buffer is in the middle of a message: in each state
`Begins` relates the length of the buffer to the type and length byte stored in
it, and to `message`, which repeats them. One lemma per turn of the loop keeps
it; `Reset` restores it; what `got` holds was whole when it was appended.

`NoneMissed` rests on `Tracked`: there are places `p[i]` of the messages in the stream, a
number `k` of bytes that were parsed and a number `n` of messages that were routed, such
that what is left of the slice and on the wire are the bytes of the stream behind `k`
(`Laid`), the parser is at the beginning of message `n + 1` or has stored as much of it as
lies before `k` (`Stands`), and each node has processed its share of the first `n`
(`Handed`). Within a message the type and the length read are those of the message
(`ReadingType`, from `Begins`), so that no turn refuses its byte (`NoneRefused`) and the
buffer is the message exactly when the checksum is awaited (`BodyTurn`). It takes that
a message fits the buffer and that its length byte is neither 0 nor more than
`MaxPayload` (`MessageAssumption`), and nothing of the checksum but that sender and
receiver compute the same.

`Recovers` asks where a parser can be after good messages whose predecessor was damaged
(`Mending`, `Course`). Between two of them it is at the beginning of the next (and goes through
it as in `NoneMissed`), or idle in the rest of one, which has no preamble
(`PlainBytes`), or `Astray` in a message that never was: then it has stored every byte it was given since, at
least `HeaderSize + 3` per message, since a turn that does not store its byte leaves that
message or is stuck (`ConsumeGrows`). The buffer is full after as many as `Patient` says. A refusal
may drop the rest of the slice; since each of these messages was sent on a quiet line, that is at most the rest of one
message (`RefuseCourse`). For a buffer of 256 bytes the bound is 38 messages. It is that of the
worst false message, and the run `Line` shows that after one changed or lost byte two are
enough there, where the theorem asks for three.

**Only model-checked.** `InOrder` on a line that damages messages: it
holds of the real checksum and of few faults, not of every checksum and every fault. What the checksums compute: they are folds over
bytes, which TLC evaluates. All liveness properties: fairness and `ENABLED` are
beyond the prover.

## 5. Where code and comments disagree

Each has a run that TLC ends with a trace.

- `UnansweredFileRequest`: in `Request` the hub repeats `FileWriteRequest` every
  50 ms and each sending renews the stamp of the pending request, so its 200 ms are
  never over. A device that is silent from then on keeps its transfer open for
  ever and is never found lost, against the comment of `DeviceHub.hpp:557`.
- `ChunkCount`: `sendFile` does not reset `chunkSent`, so that the second file is
  finalized with the chunks of both (`RsHandler.hpp:199`).
- `WaitAnswer`: a chunk answered with Wait is waited for once and then cancelled,
  since `packetAck` was reset and nothing is sent in between (`DeviceHub.hpp:586`).
- `TwoUnits`: of several units that are due all are marked and the last is sent
  (`DeviceHub.hpp:217`).
- `SharedBus`: requests for a device without a name go to UID 255, a
  broadcast, although the application asked for none (`DeviceHub.hpp:124`).
- `OldRequest`: `sendFile` leaves the pending request alone, and the timeout check asks for
  the state of the device and not for what has timed out. A health request sent 150 ms
  before `sendFile` cancels the transfer 50 ms after it (`DeviceHub.hpp:160`). The property
  is broken by an answer as well: `sendFile` does not reset `packetAck` either
  (`DeviceHub.hpp:253`), a request is stamped with `Time::milliseconds()` and compared with
  the `aTime` of the pass, so that in a slow pass (`MaxLag` 1) a chunk is still pending when
  its transfer is cancelled and the next one begins. Its late answer becomes the new transfer's
  `packetAck`, and the first chunk counts as acknowledged before it was. This is the
  `LeftOver` that `StopAndWait` and `AckIsOfLastChunk` leave out.

Seen on the way and left without a run:

- README.md:37 promises "status for each command/file/request", but a command is
  overwritten by the next request 100 ms later, unanswered or not, and a transfer whose
  device is taken for lost ends without `fileWriteResultEv` (`GiveUp` of `FilePromise`).
- `Crc64::update` works from the lowest bit on with a polynomial whose bits are in the other
  order, so that it computes another checksum than `Crc64::calculate`, although both
  are said to be the CRC64 (`Crc64.hpp:89`, `:105`). `DisagreementAssumption` of `Crc64`
  says so. Nothing in the repository calls it; a device that used it would refuse every file.
- A transfer that is begun from within `onAckNotReceivedEv` is cancelled at once: line 161
  of `DeviceHub.hpp` finds the state that the callback has just set.
- `timeoutCounter` is not reset by an answer (`DeviceHub.hpp:149`), so that timeouts however
  far apart add up to a loss.

## 6. Not modelled

`sendRebootCmd`, which nothing calls (a device's answer to Reboot is in `Reply`); the
sleep of the blocking `probeAll`; an answer under way when its number is given out again;
`retToString`; `getReceiverFromMsg` and `getTranceiverFromMsg`, which nothing in
the library calls; values that are reported but decide nothing (firmware version,
health flags, contents of commands and answers); collisions of checksums, beyond
those of the damaged messages in `Line`, where the real `Crc8` is used; the
lifetime of the name given to the constructor and of the data given to
`sendFile`; an observer or a handler that calls `update` or `process` back; build
files and tests.

## 7. Where it could go on

- One specification of the bytes and the hub together, with `SerialLine` as the bus
  of `DeviceHub`. Today they meet in an argument (section 2), since the product is
  too large for TLC.
- `sendRebootCmd`, when something calls it.
