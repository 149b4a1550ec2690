# FFADO in TLA+

FFADO (`src/libffado`) drives FireWire audio interfaces from user space. This
project models the library: the streaming core, where three threads share the
state of a stream and time is known only through counters that wrap; the bus
and device layers below it, where commands get lost and devices come and go;
and the settings, mixers and firmware of the device families. TLC checks each
component on small instances; TLAPS proves the invariants that carry most of
the argument for every value of the constants.

1. The system
2. Modules, and how they correspond to the code
3. Runs
4. Where code and comments disagree
5. Proofs
6. What is only model-checked
7. Further observations
8. Not modelled
9. Plan

Paths are relative to `src/libffado/src/`.

## 1. The system

| part | source | state | operations |
|---|---|---|---|
| ring buffer | `libutil/ringbuffer.c` | `buf`, `write_ptr`, `read_ptr` | write, read, peek, the vectors and advances, reset |
| timestamped buffer | `libutil/TimestampedBuffer.cpp` | ring buffer, frame counter, tail time stamps, rate, transparency | write/read frames, clear, resize, set time stamps |
| stream processor (SP) | `libstreaming/generic/StreamProcessor.cpp` | `m_state`, `m_next_state`, `m_cycle_to_switch_state`, `m_in_xrun`, data buffer | putPacket, getPacket, schedule*, updateState and do*, callbacks of the handler |
| packet formats | `libstreaming/{amdtp,motu,rme,digidesign}/` | last time stamps, data block counter, MIDI queues | header and data of a packet, in both directions |
| iso handlers and tasks | `libieee1394/IsoHandlerManager.cpp` | list of handlers, their state and next state, shadow maps, update requests, bus reset flag | register, enable, disable, iterate, death, bus reset, Execute |
| stream processor manager (SPM) | `libstreaming/StreamProcessorManager.cpp` | list of SPs, sync source, wait lock, shutdown flag | prepare, start, stop, waitForPeriod, transfer, handleXrun |
| cycle timer | `libieee1394/cycletimer.h`, `CycleTimerHelper.cpp` | a delay-locked loop, a table of shadow values | conversions, wraps, SYT completion; update thread, queries, reset |
| IPC | `libutil/IpcRingBuffer.cpp`, `PosixMessageQueue.cpp` | shared blocks, two message queues | requestBlockForWrite/Read, release, notification |
| IEEE 1394 service | `libieee1394/ieee1394service.cpp` | FCP block, reset handlers, iso channels | FCP transactions, channel allocation, resets |
| AV/C | `libavc/`, `bebob/`, `fireworks/efc/` | command objects, descriptors, plugs, cache | fire, load, discover, set clock and rate |
| device manager | `devicemanager.cpp`, `ffado.cpp` | device list, locks, update notifications | discover, bus reset handler, init/start/stop streaming |
| device families | `bebob`, `dice`, `fireworks`, `motu`, `rme`, `digidesign`, ... | registers, mixers, flash, channels | lock, prepare, startStreamByIndex, settings |
| control tree | `libcontrol/`, `../support/dbus` | elements, mirror, dispatcher | add/delete element, update signals, dispatch |
| firmware | `bebob/bebob_dl_*`, `fireworks/fireworks_firmware*`, `dice/dice_firmware_loader*` | flash of the device | download, flash, session save |

**How they interact.** The *iso threads* (`IsoTask::Execute`) poll the kernel,
update their handlers when asked to, and let each handler deliver packets to
`StreamProcessor::putPacket` or fetch them from `getPacket`; these execute the
state transitions. The *client thread* (JACK, through the SPM) schedules a
transition by writing a cycle and a state, then polls `m_state`; in steady
state it waits for a period under the SPM's wait lock and transfers frames. The
*bus reset thread* goes down the same handlers, takes the wait lock, puts every
SP in the error state and then rediscovers the devices, while the client and
the control server hold pointers to them. `m_state`, `m_next_state` and the
flags, the list of handlers and the list of devices (for the client) are read
without a lock. An xrun is a flag that the iso thread raises and the client
sees in its wait loop; recovery is a complete stop and start. Below, every
setting is a command or a register access that may fail between two others.

**What is hard.** Transitions begun by one thread and completed by another;
state that is read, worked upon and written in separate steps; bus resets and
dead handlers in the middle; requests that overwrite each other; waits without
a timeout; cycle numbers that wrap each second, time stamps that wrap every
128 s, SYTs that wrap every 16 cycles; answers that do not say what they
answer; objects deleted while another thread uses them; operations on a device
of which one step fails; several controls in one register. `PROJECT.json` lists
the hazards with their lines, and the properties that guard them.

## 2. Modules, and how they correspond to the code

| module | models | composed by | proofs |
|---|---|---|---|
| `BoundedFifo`, `RingBuffer` | a bounded queue; `ringbuffer.c` step by step | `MCTransport` | `RingBufferProofs` |
| `StreamDiagram`, `StreamProcessor` | the promise of an SP; one SP, its handler and the three threads | `MCStreamProcessor` | `StreamProcessorProofs` |
| `CycleTimer`, `IsoClock` | `cycletimer.h`; the receive side's view of time | `MCIsoClock` | `IsoProofs` |
| `IsoHandlers` | the handlers as client, tasks and bus reset share them | `MCIsoClock` | `IsoProofs` |
| `TimestampedBuffer` | counter, ring buffer and time stamps of a stream's buffer | `MCTransport` | `TransportProofs` |
| `TransmitPackets` | when frames are sent, and packet headers of four formats | `MCTransport` | `TransportProofs` |
| `StreamEvents` | samples and MIDI bytes from port to event and back | `MCTransport` | |
| `CycleTimerHelper` | the estimate of the bus time and its readers | `MCTransport` | |
| `IpcRingBuffer` | blocks handed to another process | `MCTransport` | `TransportProofs` |
| `AvcCodec`, `EfcCodec` | serialize and deserialize of the commands | `FcpTransaction` | |
| `FcpTransaction` | `AVCCommand::fire`, the FCP block, retries, late answers | `MCAvc` | `TransactionProofs` |
| `AvcDescriptor` | reading and parsing descriptors | `MCAvc` | |
| `AvcPlugs` | plugs, connections, clock and rate of a unit, the cache | `MCAvc` | |
| `DeviceDiscovery` | the device list, its locks, bus resets | `MCDeviceManager` | `DiscoveryProofs` |
| `DeviceStreams` | a session over devices of every family, channels and bandwidth | `MCDeviceManager` | `SessionProofs` |
| `ControlTree` | the tree, its mirror, the server's threads | `MCControls` | `ControlTreeProofs` |
| `DiceEapTables`, `DiceEap` | routing tables; router, staging and cache | `MCControls` | `ControlTreeProofs` |
| `MotuDevice`, `RmeDevice` | registers, mixers and flash behind the controls | `MCSettings` | |
| `Firmware` | four update tools step by step | `MCSettings` | `TransactionProofs` |

The MC modules that compose several components have a variable `subject`: a
behaviour is about one subject, and the others rest. Components that run
together in the code and influence each other are one module (`StreamProcessor`
has three threads and the handler); the composition is a way to ask several
questions in one run.

A variable carries the name of the member it stands for where it has one, an
action that of the function, or of the part of it that it executes. `map` in
`PROJECT.json` names the lines; a helper definition whose lines lie inside
those of the operation that uses it shares that operation's entry.

**RingBuffer.** A call is a record (`wr`, `rd`) with the pointer it works at and
the lengths `n1`, `n2` of its two segments, computed once from pointers as they
were sampled. `copy_in`/`copy_out` move one byte of a `memcpy`;
`publish_write`/`publish_read` are the stores to the pointers, one per segment
as in the code. `reset`, documented as not thread safe, is taken with both
threads idle. The size is a power of two (`create_size`).

**StreamProcessor.** `iso`, `client` and `busreset` say where each thread is. A
step is one access to state that another thread may write: the assignment of
`m_next_state`, the look at it (`updateState`), the work of a `do*` function and
the assignment of `m_state` (`commit_state`) are separate steps, and so are the
two writes of `scheduleStateTransition` and the four of `IsoHandler::disable`.
The results of the header and data functions are alternatives of the packet
actions. The buffer is reduced to `m_transparent` and `period`. Time is the
number of cycles left until `m_cycle_to_switch_state`; `client.lead` counts down
beside it what the client asked for, to state `RunsOnTime`. The client is a
session of one stream. Polling loops may time out if `Timeouts`.

**CycleTimer, IsoClock.** The sizes (8000 cycles of 3072 ticks, 128 s, 16 SYT
cycles) are constants, so that TLC can go round every wrap. `IsoClock` keeps true
time beside what the code sees of it: packets wait in the kernel (`wire`),
`Execute` reads the timer once, `putPacket` handles a run of packets that came
before or after that.

**IsoHandlers.** The list of handlers has no lock: the client creates and deletes
handlers, the tasks rebuild their shadow maps from the list when a counter says
so, the bus reset thread walks the list. A use of a deleted handler, or of an
index beyond the list, is recorded in `undefined` and ends the behaviour.
`LateInit` lets the client call before `IsoTask::Init` has run; the run and the
proof are about clients that do not: `Init` sets the counter of requests to zero,
and a request that came before it would be forgotten.

**TimestampedBuffer, TransmitPackets, StreamEvents.** Counter and ring buffer are
changed one after the other by two threads; the time of the tail comes from a
loop over the times of the blocks, on integers. A block that does not fit is
written as far as it fits and not counted (`spilled`), one of a transfer that
fails midway likewise; the ring that is created for `m_buffer_size` frames holds
a number of frames of its own (`capacity`), because `ringbuffer.c` rounds up to a
power of two and keeps a byte free. `TransmitPackets` decides for
each cycle between frames, an empty packet, another try and an xrun, from
`generatePacketHeader` of the four formats; true time and true presentation time
stand beside what the wrapped timer shows. `StreamEvents` sends samples and MIDI
bytes of several ports through `processWriteBlock`, the wrapping ring buffer and
`processReadBlock`, with the one receive queue that the ports of an AMDTP stream
share.

**CycleTimerHelper.** The update thread reads the timer, corrects the loop and
publishes a record of an array, whose index it then advances; clients read field
by field. A bus reset restarts the loop from another thread.

**IpcRingBuffer.** Writer and reader, in blocking and non-blocking mode, the two
message queues, and the thread that is notified of acknowledgements.

**FcpTransaction, AvcCodec, EfcCodec.** Threads fire commands at one device under
`m_handle_lock`; responses are lost, repeated, delayed, interim or for an earlier
try. A frame is the sequence of bytes that the classes write.

**AvcDescriptor, AvcPlugs.** A descriptor is opened, read in pieces and parsed
into blocks while commands fail; a name runs to the next zero byte whatever its
length says, as `m_text.append` takes it. Plugs are found by asking the device plug by
plug; the user may turn the knobs of the device between two operations.

**DeviceDiscovery, DeviceStreams.** `discover` and the bus reset handler step by
step with `m_DeviceListLock` and `m_BusResetLock`, the probes and ROM reads that
fail, and devices that come, go and change their node ids meanwhile. A session
is `ffado_streaming_init/start/stop/finish` with the loops of `DeviceManager`
over devices of each family down to channel registers and the isochronous
resource manager, which other nodes use as well.

**ControlTree.** `buildMixer` and `destroyMixer` of each family are programs of
steps (create, attach, detach, delete) that a discovery or a rediscovery executes
while the server's threads walk the tree. The M-Audio special devices rebuild their
mixer without taking the old one out.

**DiceEap, MotuDevice, RmeDevice.** A register is the set of its bits; a control
reads and writes it as the code does. A DICE routing is edited in the cache,
staged, loaded and read back, each step of which may fail. Of a MOTU device two
programs, a mixer and one that streams, read and write the registers access by
access; accesses fail, which nobody notices, and `motuSpoiled` collects the
registers that were mixed up so. `prepare` reads and writes what the code does,
the registers that the 828mk1 needs included. RME devices cannot be read back, so
the model keeps the shared memory, the device and its flash apart; a save computes
the image, erases and writes block by block, any of which may fail or be the
last thing before the program dies or the power goes. A program that opens the device
loads what is there, erased cells included. The volume curve and the pan of the
flash are computed as in the code, on integers.

**Firmware.** Each tool (BeBoB bootloader, Fireworks flash and session, DICE
loader) with the writes that fail, the retries and the verification it does. A
failure whose result the code drops, a lost register write of the DICE loader
(`dice_firmware_loader.cpp:425-428`, `514-516`) or a stalled read of a Fireworks
device (`fireworks_device.cpp:850-852`), happens in the model as any other and sets
`deaf` for the rest of the run: `UpdateIsWhole` claims nothing of the success of such a
run, and all of the runs after it.

*Simplifications.* Memory is sequentially consistent. Allocation succeeds. A
polling loop that only counts down is one waiting state. The loops
(`TimestampedBuffer`, `CycleTimerHelper`) compute with scaled integers where the
code has doubles. `IsoHandler::putPacket` is modelled with `m_MissedCyclesOK`
false, its default. Two unlocked reads that follow each other are one step where
noted (`IpcRingBuffer.cpp:284-285`, the optical modes of a first generation MOTU); the
cycle timer's bogus readings occur in the loop and not in `initDLL`
(`CycleTimerHelper.cpp:286`).

## 3. Runs

| run | instance | distinct states | properties |
|---|---|---|---|
| `stream_safety` | both types, leads of 1, 1 reset, 1 death, timeouts | 2 584 898 | `RunningKeepsFrames`, `XrunKept`, `IInv` |
| `stream_live` | leads up to 2, 1 death, no timeouts, fairness | 54 714 | refinement `IsDiagram`, `LeavesPeriodLoop`, `RunningStops` |
| `on_time` | leads up to 3, 1 reset | 268 979 | `RunsOnTime` |
| `iso_clock` | 8 cycles of 2 ticks, 5 s, 4 SYT cycles, packets up to 2 cycles late; up to 2 streams, 2-4 calls, 1-2 faults | 1 318 339 | `PacketPlaced`, `PresentationRebuilt`, `SwitchOnTime`, `DeathIsSilence`, `MapIsCurrent`, `UpdateServed` |
| `avc` | 2 threads, commands of every class, 2 tries, 1 fault; descriptors with 2 faults; topologies with 3 operations | 210 746 | `OneTransaction`, `AnswersMyRequest`, `ObjectIsAnswer`, `LoadedIsDescriptor`, `UnitIsDevice` |
| `device_manager` | 2 resets, 1 miss, device strings; sessions over each family, 5 channels, 1 fault, 2 starts | 3 686 929 | `SettledListIsBus`, `LiveDevicesOnly`, `NothingHeldOutside`, `ChannelsAreOwn`, `SessionLeavesNothing` |
| `controls` | 12 families, 3 updates; 11 DICE models, 2 operations | 530 057 | `TreeIsLive`, `MirrorIsTree`, `ServerWakes`, `RoutingIsCache`, `ControlsApart` |
| `settings` | 12 MOTU models, 2 programs, 1 mix, 3 rates, 2 settings, 1 fault; both RME devices, 4 operations of which 2 set controls after a load; 4 tools, 3 runs, 3 faults | 1 078 666 | `ShownIsSet`, `RmeLoadedIsSaved`, `UpdateIsWhole` |
| `transport` | ring of 4 cells, calls of up to 3 bytes; buffer of 4 frames in rings of 3 and 5, 5 blocks of 2; second of 32 cycles, 2 s; ring of 64 bytes, 1 and 2 MIDI ports; loop of 3 and 4 updates; 2-4 blocks | 1 433 873 | `NoSharedCell`, refinement `IsFifo`, `CountedIsThere`, `StampIsTrue`, `FedInTime`, `BlocksCounted`, `EventsSurvive`, `EstimateIsClose`, `BlocksHandedOver` |
| `timestamp_wrap` | the buffer of `transport` | violation | `WrapCorrected` |
| `nodata_counter` | the packets of `transport` | violation | `NoDataUncounted` |
| `bus_reset_waits` | a receive stream, 1 reset, fairness | violation | `BusResetHandled` |

Each property's comment in its module says what it is about in the code.

*Bounds.* A ring buffer of 4 cells has every position of a wrap and a split in
either segment. In `StreamProcessor` only leads, resets and deaths are bounded:
one of each already meets every other step, and the threads go round their loops
without bound; leads of 2 and 3 tell a switch on time from one that is early. In
`IsoClock` and `TransmitPackets` the horizon spans a wrap of the seconds and
several of the cycles, and lateness is kept below half a second by an assumption,
as the code's note on "synchronized switching" asks. In the device models a
bound counts operations and faults: a fault at every step of an operation, and
one more operation after it, is where something left behind would show.
`device_manager` needs two resets for one that comes while another is handled.
The proofs of section 5 remove the bounds for the properties they state.

*Deadlock* is checked in the streams, `avc` and `device_manager`.
The other runs end at a horizon, at the bound on operations, or in `undefined`.

*Fairness.* `stream_live` and `bus_reset_waits`: each thread goes on with what it
has begun (weak fairness of its steps): they are ordinary threads. The bus
delivers packets while the handler runs: a cycle is 125 us. Among the packets
valid ones come again and again, and the iso thread gets round to a requested
update (strong fairness: `Execute` tests for it in each round). No fairness is
assumed of the client's calls, of deaths or of bus resets; a time-out is fair
because each polling loop counts down, and is off in `stream_live` to show that
the loops end by themselves. `iso_clock`: weak fairness of the task threads
(`IhmFair`).

`RunsOnTime` is checked, and proved, without deaths and time-outs: after a death
a receive stream may dry-run with an opaque buffer (`DryDiscards` below),
overflow it, and then overwrite the scheduled cycle with that of the xrun; a
start that timed out leaves its request behind.

## 4. Where code and comments disagree

Three runs check a statement of the code that does not hold (`PROJECT.json`,
`findings`):

| run | the comment | what the code does |
|---|---|---|
| `timestamp_wrap` | `TimestampedBuffer.cpp:1039` "correct for when new_timestamp doesn't wrap at the same time ..." | a difference above half the wrap is corrected to `m_wrap_at - diff`, which loses the sign |
| `nodata_counter` | `AmdtpTransmitStreamProcessor.cpp:392-394` "DBC is not increased" | with a dummy payload `fillNoDataPacketHeader` returns the number of its events (:402), which its callers add to the counter (:324, :361); `BlocksCounted` holds because these events are counted |
| `bus_reset_waits` | `StreamProcessor.cpp:146` "this will result in the SPM dying" | the bus reset waits for a lock that the client holds while it waits for the packets the bus reset has stopped |

The modules state more of these. Each is reproduced with a configuration that
is here, or with the base configuration, its properties replaced by the one
named and `CHECK_DEADLOCK FALSE`:

| property | configuration | the comment | what the code does |
|---|---|---|---|
| `StopStops` | `MCStreamStop.cfg` | `StreamProcessorManager.cpp:1026` "ensure stream processors and their handlers are in the stopped state" | a request to stop in WaitingForStream is overwritten; the stream goes on to dry-run |
| `StoppedHandler` | `MCStreamStoppedHandler.cfg` | the same | without packets stop returns true with the handler enabled |
| `ErrorSticks` | `MCStreamSafety.cfg` | `StreamProcessor.cpp:157` "we are sure that we're not iterated" | the bus reset thread sets Error while the iso thread is inside a transition, which overwrites it |
| `DryDiscards` | `MCStreamSafety.cfg` | `StreamProcessor.cpp:961` no data goes into the buffer in dry-running | after a death in Running the restart does not make the buffer transparent |
| `HoldsRequest` | `MCTransport.cfg`, `Request = 4` | `ringbuffer.c:61` "hold at least `sz' bytes" | a request of a power of two gives a buffer that holds one byte less |
| `UsesLiveHandlers` | `MCIsoClock.cfg` | `IsoHandlerManager.cpp:129` "nobody will modify the parent data structures" | the client's thread changes the list while a task walks it |
| `ClientUsesLive` | `MCDeviceManagerUse.cfg` | `devicemanager.cpp:256` | the client walks `m_avDevices` (:777) without the lock under which a bus reset deletes devices |
| `StartFailureCleansUp` | `MCDeviceManager.cfg` | `devicemanager.cpp:906-908` | when `enableStreaming` fails (:880) the streams that were started stay started |
| `LockProtects` | `MCAvc.cfg` | `ieee1394service.cpp:830` "access to this is protected by the m_handle lock" | for an invalid node `transactionBlock` returns before it locks, and `fire` unlocks all the same |
| `SelectedIsActive` | `MCAvc.cfg` | `avc_unit.cpp:865` "we now have to rediscover the connections" | rediscovery adds to the old connections, so the former clock still counts as active |
| `WalkIsLocked` | `MCControls.cfg` | `controlserver.cpp:217` "call with tree locked" | the handler of an exception unlocks the tree and the walk goes on |
| `OldMixerIsRemoved` | `MCControls.cfg` | `bebob_avdevice.cpp:260` "this removes the mixer if it already exists" | on a rediscovery (`devicemanager.cpp:490`) an M-Audio special device deletes its mixer (`special_avdevice.cpp:76-96`), which stays a child of the device: neither destructor de-registers |
| `MidiArrives` | `MCTransport.cfg` | | with two MIDI ports the one `midibuffer` (`AmdtpReceiveStreamProcessor.cpp:441-488`) gives the bytes of one port to the other, and a port reads every frame of its channel whatever its `location` |
| `RmeConfigPersists` | `MCSettings.cfg`, `RmeProcs = {"a", "b"}` | `rme_shm.cpp:38-42` | a second process initialises the settings that the first one has made (`fireface_hw.cpp:168-189`) |
| `TrailerIsWritten` | `MCSettings.cfg` | | a Fireworks update reports success without the trailer |
| `DatasetIsConsistent` | `MCTransport.cfg` | `CycleTimerHelper.cpp:624-630` | a reset writes the first shadow record in place (:370) while clients read it |
| `NotOverwriting` | `MCTransport.cfg` | `IpcRingBuffer.cpp:303-306` | a non-blocking writer overwrites unread blocks unless there are two more blocks than messages |

## 5. Proofs

`tlapm` checks every theorem; they hold for every value of the constants that
satisfies the named assumptions. Each rests on an invariant that TLC checked on
the instance of the run before it was proved. A proof module may add to it what TLC
cannot enumerate, such as that a list is a sequence.

**RingBufferProofs** (`RequestAssumption`: the size is at least 2;
`MaxCountAssumption`, `DataAssumption`). `NoSharedCell` is not inductive: that a
copy keeps clear of the other thread depends on how many cells were free when the
call began. `IInv` states, modulo the size, that what the writer has still to copy
lies within the free cells as the *current* pointers bound them, and the reader's
within the filled ones: the other thread's stores only enlarge what a call has
sampled. It gives `AlwaysInBounds` and `AlwaysNoSharedCell`. `ImplementsFifo` is
the refinement of `BoundedFifo`: `FifoInv` adds that what a read has copied so
far is the front of what is published; then a store to a pointer is one append or
one removal, and every other step stutters.

**StreamProcessorProofs** (`BoundsAssumption`). `IInv`: `Serving` (packets are
handled only while the handler runs), `Entering` (a transition under way was
allowed when it began, and only a bus reset has changed `m_state` since: this is
why no lock is needed without bus resets), `KeepsFrames`, `NoRestart` (in the
period loop nothing clears the xrun flag) and `Fresh`. From it `AlwaysKeepsFrames`,
`AlwaysHasHandler`, `AlwaysXrunKept` and, for `MaxResets = 0`, the refinement
`FollowsDiagram`. `AlwaysRunsOnTime`, for `~Timeouts` and `MaxDeaths = 0`, rests on
`OnTimeInv`: from the moment the client has found the stream dry-running until its
cycle comes, nothing leads to Running (`NotRunningYet`), the cycle counted by the
stream is the client's (`CountsTogether`), and no xrun can move that cycle, because
a stream that has not been running discards its frames (`DryIsTransparent`), which
needs that handlers are disabled only for streams that were stopped (`StopsClean`)
and started only when they are (`StartAsked`).

**IsoProofs** (`CycleTimerAssumption`, `IsoClockAssumption`: lateness and lead below
half a second). Lemmas about `div` and `%` give the fields of a timer value and
that a difference of wrapped values is the true one below half a turn. `IsoIInv`
says of which true times the stored values are the wrapped images and how far
these lie apart. From it `AlwaysPacketPlaced`, `AlwaysPresentationRebuilt`,
`AlwaysSwitchOnTime`, `AlwaysDeathIsSilence`.

For the handlers: `MapIsCurrent` speaks of the moment when a task has no request
left, so `IhmIInv` has to say what each request is good for. A change of the list,
or of what a handler is to do, counts a request at once or as the next step of
its thread (`Awaited`). Hence, while a task updates its map with a single request
counted and none awaited, nothing has changed since the scan began: what it has
passed is seen (`Scanned`), and when it acknowledges that request the new map is
current. With more requests nothing is claimed, and the acknowledgement, which
takes off one only, leaves at least one more scan. `AlwaysIhmIInv` and
`AlwaysMapIsCurrent` hold for `~LateInit`, any number of streams, handlers, calls,
faults and resets, and as long as nothing undefined has happened.

**TransportProofs** (`TimestampedBufferAssumption`, `TransmitPacketsAssumption`,
`IpcRingBufferAssumption`: at least two blocks and one message).
`CountsIInv`: counter and ring buffer differ by exactly what each thread is
between and what was written of blocks that did not fit; `AlwaysCountedIsThere`: what
is counted can be read whatever was spilled, and the counted space is free until a
block did not fit, but for one frame where the ring is a power of two. `TxIInv`: the first frame of a running stream lies
within half a second of now, ahead of it until the stream is starved, and the block
counter continues the last packet; `AlwaysFedInTime`, `AlwaysBlocksCounted` for the
four formats. `IpcIInv`: the number of a write tells its block, the queues hold the
numbers in order, a writer that waits is never a round ahead of what was
acknowledged, a block on its way keeps its contents, and a message at the
acknowledgement queue has a thread that will read it; `AlwaysBlocksHandedOver`.

**TransactionProofs**, of `FcpTransaction` (`TriesAssumption`, `NobodyAssumption`,
`ScriptsAssumption`: scripts are sequences of commands; `AnswersAssumption`: the
device answers a command it can be sent with a frame that is not empty). For any
number of threads, scripts, tries and faults. `AlwaysOneTransaction`: who is between
lock and unlock owns the lock. `AnswerInv` follows the responses under way. While
nothing has gone wrong only the thread that waits has one, and when it has taken
it nothing is left for the next transaction. With the duplicate filter, tries may
fail and the device may repeat itself; then what is under way are repetitions of
the response taken last, which the filter ignores, followed by answers to the
present transaction. `AlwaysOwnAnswer`: so a command that succeeds was answered
with the response to its own request. Both say so while the device is on the bus
(`gone`): for one that vanished, `transactionBlock` returns before it locks while
`fire` unlocks all the same, and two threads may be inside.

Of `Firmware` (`FirmwareAssumption`), without a condition on what may fail. `FwIInv`: what each tool relies on at each step (the first object
stays in place while the second is sent, the loops have erased and written what
their counters say, the buffer holds the file once its checksum was compared), unless
a failure of this run was dropped (`deaf`). What an earlier run left behind is not
restricted: the first steps of each tool establish the invariant from any flash,
lock or status. `AlwaysUpdateIsWhole`.

**ControlTreeProofs.** `AlwaysServerWakes` needs `WakeInv`, which also covers the
thread that is about to wait. `TreeIsLive` is a statement about what remains of a
program of `buildMixer` and `destroyMixer`, of any family but the M-Audio special
devices, where it does not hold (`OldMixerIsRemoved`, section 4): `TreeInv` says that the
part that takes out comes before the part that puts in, that only its first step
may be half done and has taken the container out of the tree, that a container is
created, or alive, when it is attached, that a device is detached before it is
deleted, and that one with deleted elements is not in the tree and a new one is
made before the next attachment. The lemmas: every program begins so
(`DestroyBuild`, `CreateBegins`); what follows its first steps is so again, also
where `destroyMixer` returns early (`Shift...`, `AfterDestroyRemains`,
`Replaced`); and `deleteElement` takes out what it is asked to
(`DeletedElement`). From these, action by action, `AlwaysTreeInv` and
`AlwaysTreeIsLive`.

`AlwaysMirrorIsTree` adds `MadeInv` (a container is created before it is attached, a
device only where there is none) and `MirrorInv`, which says how far the signal of
a change has got: the names up to its position have an object (`Covered`), after
the walk all have, after the pruning no object is left without an element. The
signal of the list of devices either finds the device's objects complete or
none at all. `ControlNamesDiffer` is a fact about the tables of controls.

`AlwaysRoutingIsCache` and `AlwaysControlsApart` are about `DiceEap`. `RouteInv`: a
routing that the driver has, the device uses or the flash holds was sent whole
at some time, each of those has one route per destination (an edit replaces the
route of its destination or appends one), and copy and device agree but for the
rate modes of a failed step. `RegisterInv`: writing the bits of one control leaves
those of every other as they were, because controls of one register have
disjoint bits. That tables are like this (`DefaultsAssumption`,
`SectionsAssumption`) TLC evaluates for every model in the code.

**DiscoveryProofs** (`DiscoveryAssumption`: finitely many devices).
`DiscoveryIInv` says at each step of `discover` and of the bus reset handler who
holds which lock, which devices live and are in the tree, of which bus generation
each node id and ROM is, what the scan has covered, and that a reset which came
meanwhile is still to be handled. From it `AlwaysSettledListIsBus`,
`AlwaysLiveDevicesOnly`, `AlwaysNothingHeldOutside`. The scan removes and adds
entries of sequences; what `Without` does to a sequence is proved by induction on
its length, from the well-foundedness of the naturals in its set form (`Least`).

**SessionProofs**. `AlwaysChannelsAreOwn` (`ListsAssumption`: a list of devices is a sequence that is
not empty and names a device once) is about sessions, for any number of devices of the
eight families and of channels, starts, sessions and failing calls. `OwnInv`: a
device that has kept no stale number (`odd`) holds the channels whose numbers its
object keeps (`KeepsOwn`), and a Fireface 800 the one it has taken itself
(`ForeignOK`). Every outcome of a driver's `prepare`, `lock`, `startStreamByIndex`,
`stopStreamByIndex`, `resetForStreaming`, `enableStreaming` and destructor is shown to
be *sound*: it spares the channels of other devices but for victims that it
names, and leaves the device in order or odd. The victims of a release of a stale
number become odd too, so that nothing is claimed of them; `OnlyOwnFreed` says that
only they lose a channel. Then the loops of `DeviceManager`: `StartedInv` says that
the streams before the position of the loop are ready, `NewInv` that objects are
new and empty when `init` clears the books of the service.

`AlwaysSessionLeavesNothing` is about what is left when a session is over, and about a
start that failed. `OwnInv` cannot give it: it says that a device holds what it
has the numbers of, and not that it holds nothing else. `LeavesInv` adds the other
direction. `HeldIsKept` and `LastIsFree`: a channel held for a device is one its object
has the number of, so an object without numbers holds nothing. `StoppedInv` says at
each position of the loops of `startStreaming`, its undoing and `stopStreaming` which
streams have no channel. It needs that the stop of a stream does not fail for a
register that differs from the number the object kept (`AgreeInv`), and that an undo
begins below the stream that failed (`BackInv`). `OwnerInv` follows owner and notifier of a
DICE device from `lock` to `unlock` and the destructor. `Balanced`: units and held
channels add up, which every outcome of a driver's call preserves because the calls
that take and release a channel do (`Takes`, `Gives`). What each call gives back, on
success and on failure, is stated once per family (`PrepareLeaves`, `StartLeaves`,
`StopLeaves` and their kin), and the loops compose it. The hypotheses are those of the
property: no failed call and no stale number for the end of a session, every stop
of an undo successful for a failed start. TLC has checked `LeavesInv` on the
instance of `device_manager`.

## 6. What is only model-checked

- Liveness (`LeavesPeriodLoop`, `RunningStops`, `UpdateServed`) and `ENABLED` are
  out of the prover's reach.
- Induction over data with an operator parameter: what a fold over a frame, a
  descriptor or a table computes for every input. `ObjectIsAnswer`,
  `LoadedIsDescriptor`, `UnitIsDevice`, `EventsSurvive`, `ShownIsSet` and
  `RmeLoadedIsSaved` compare such results with a reference definition over the
  instances' inputs. Where one recursion is simple the set form of induction works
  (`DiscoveryProofs`).
- `AnswersMyRequest` also says that an EFC command took an answer of its own
  category and command; this half, a property of decoded frames, is of the same
  kind. The other half is `AlwaysOwnAnswer`.
- `StampIsTrue` and `EstimateIsClose` bound the error of a loop with rounded
  gains: non-linear, and true of the gains and jitters of the instance.
- What a hypothesis of a theorem leaves out: `LateInit`, time-outs and deaths for
  `RunsOnTime`, bus resets for the refinement of `StreamDiagram`.

## 7. Further observations

What the models follow from the code that a reader of it would want to know:

- *Streams.* `setBufferHeadTimestamp` uses a counter that may be stale
  (`StreamProcessorManager.cpp:866`); a block that does not fit, or a
  `blockProcessWriteFrames` that fails midway, leaves frames in the ring that are
  never counted (`TimestampedBuffer.cpp:508-513`), so the stream is late by them until
  it is cleared; where `m_buffer_size` events are just a power of two of bytes the
  ring is one frame short of what `getBufferSpace` offers; after an xrun the silent
  packet of MOTU and Digidesign streams is too late; the MIDI quadlets of frames
  that are no port's slot keep what an earlier period left there.
- *Iso handlers.* A failing `enable` leaves its handle, and the next one asserts;
  after a death `m_running` stays false, so later bus resets are ignored; a wake-up
  by `requestShadowMapUpdate` returns to the poll set-up, and the update waits for
  the time-out.
- *AV/C.* Failures in `AVCDescriptor::load` leave the descriptor open; the routing
  vectors are not cleared on reload; the EFC sequence number is never compared; the
  cache loses the formats of a plug; `enumerateSubUnits` reads page 0 only. The text of
  a descriptor runs on to the next zero byte, possibly behind the buffer
  (`avc_descriptor.cpp:516-519`, `580-583`); the loop over the root object lists of an
  audio identifier tests a counter that it does not advance. An extended plug info
  drops the result of some reads (`avc_extended_plug_info.cpp:117-129`, `276-296`).
- *Devices.* The DICE stop writes the TX register for RX (`dice_avdevice.cpp:1432`);
  MOTU and Digidesign free a channel on a failed prepare and keep its number; a
  CMP channel of 63 is not registered and leaks; a discovery that fails in slave
  mode returns with the list lock held.
- *Controls.* `setConnectionState` reports success regardless; a failed EAP write
  keeps the edited cache; a Focusrite volume is written unmasked
  (`focusrite_eap.cpp:181`); the special devices' mixer is read before it was ever
  assigned (`m_special_mixer` has no initial value); `leave()` before `enter()` of the dispatcher is lost.
- *Settings.* MOTU: negative gains and trims spill into neighbouring fields
  (`motu_controls.cpp:805`), a failed read is taken as 0 and written back, and a
  setting made by another program between the read and the write is lost. RME: flash
  settings of the FF400 are stored from the wrong fields, 30 faders go into an array
  of 28 (`fireface_flash.cpp:612`); an erased flash is taken for settings (its mark,
  `FF_DEV_FLASH_INVALID`, is only logged); a failed read of the flash uses what was on
  the stack; a process that died stays in the reference count of the shared
  memory.
- *Firmware.* `eraseFlashBlocks` never resets `success`, so a retry after a failure
  cannot succeed; `readFlash` misses its time-out; BeBoB's `waitForBusReset` has no
  predicate.
- *Cycle timer.* A failed reading ends the update thread; the early wake-up
  correction has the wrong sign.

## 8. Not modelled

The parser of the configuration ROM (`csr1212.c`, from the Linux kernel), the packet
buffer without users, settings files, options, logging, the Qt mixer and the ALSA
plugin; RME's TCO module and level tables, and the FF800's
shadow mixer, which is written and never read; in the RME flash a
sum of faders beyond 200000, which is out of the mixer's range, counts as the largest; the name on the display of a MOTU device;
the stream configurations, mixer coefficients and the standalone configuration of
the DICE EAP; vendor commands that are single reads
and writes; the SSE variants of the AMDTP loops; several streams in one session of
the SPM (their alignment at the start); `addCycles`, `sytRecvToFullTicks` and
`sytXmitToFullTicks`, which have no caller. Weak memory. `PROJECT.json` lists every
component with its status.

## 9. What could be added

1. Several streams in the SPM: alignment, retries of a start, `setPeriodSize`.
