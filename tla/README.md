# Opentec verification project

TLA+ models of the Opentec firmware, the TLC runs that check them on small instances and the
TLAPS proofs that hold for every value of their constants. The firmware is for the Fanatec Podium
DD1 and DD2: the *base* (`source/podium-dd1-dd2-base`, a dsPIC33E), the *wheel-quick-release
board* or WQR (`source/podium-dd1-dd2-wqr`) and the *motor board* (`source/podium-dd1-motor`,
`source/podium-dd2-motor`). Paths below are relative to `src/source/` and, where no board is
named, to `podium-dd1-dd2-base/source/`.

The firmware has no operating system. Each board runs one main loop that calls every service in
a fixed order, and a few interrupt handlers that share buffers with it. What is hard is therefore
seldom two threads: it is protocols between boards over lines that lose and damage bytes, services
that share one bus or one transport and each look at it once per pass, and flash that loses power
between two operations.

Contents: [inventory](#1-inventory), [modules](#2-modules-and-how-they-correspond-to-the-code),
[runs](#3-runs-what-each-checks-and-shows), [bounds](#4-bounds),
[fairness](#5-fairness-and-other-assumptions), [proofs](#6-proofs),
[what is not modelled](#7-what-is-not-modelled), [plan](#8-plan), [use](#9-using-the-project).

## 1. Inventory

One row per component: the state it keeps and what it does, what is hard, what makes it correct.
"done" is modelled, "part" is partly modelled (section 7 says what is left), "-" not modelled.

| Component | State and operations | Hard, and correct when | |
|---|---|---|---|
| Settings journal (`settings/journal.c`) | Three flash pages (slots) per logical page, each a header and a log of (index, value) records. `initialize` recovers, `write` appends or compacts into the next slot and retires the old one. | Power lost or an operation failing between any two flash operations; the header's epoch bit, spent after a dozen rotations. A boot always finds a slot, the session reads the slot a reboot keeps, only erased flash is programmed, a stored value stays. | done |
| Settings persistence (`settings/persistence.c`, `state.c`) | The format marker and some two hundred indexes, written one by one by `save`. | Power lost between two records; two-word values torn. What a clean base reboots with is what it ran with, or recognizably invalid. | done |
| Serial link to the WQR (`serial/`, `platform/dspic33e/wqr_link.c`) | `SerialService` (a call, its packet, attempts), `SerialSession` (sequence, offset, assembly). `submit`, `run`, `cancel`, `release`. | Loss, damage, resynchronization by sequence numbers that wrap, a timeout racing a late answer. A success carries the answer to that call; calls end. | part |
| WQR firmware (`podium-dd1-dd2-wqr/source`) | Sequence, stored request, assembled message, answer, I2C and SPI state. | Restart and wheel removal in a call. A request is done at most once. | part |
| Shared command transport (`transfer/command.c`, `motor/command_serial.c`) | One buffer with an owner, a phase (idle, queued, pending), a latched completion. Clients claim, poll, queue and release it; the serial service carries it. | Clients give up, are restarted by the host, and are answered late. Nobody takes another's end for its own; every wait ends. | part |
| Other clients of it (`wheel/accessory_service.c`, `wheel/adapter_commands.c`, `motor/command_startup*.c`, updater, bridge) | A phase each; a count of waits, or a deadline. | As above; a startup runs in place of the other clients; the bridge takes its owner from the host's report. | part |
| Motor command channel (`motor/command_channel*.c`, `command_sequence.c`, `command_receiver.c`) | Two-bit sequence numbers, the pending command, its sent and acknowledged flags, transmit and receive queue, a scheduler of probes and retries. | Requeue, recovery and control packets share one buffer; repeats differ by one of four numbers. What was written is what the flags say; commands are written in the end. | part |
| Base/motor live link (`platform/dspic33e/motor_link.c`, `motor/live_frame.c`, `output_transport.c`) | A two-deep receive queue filled by the DMA interrupt, a queue of commands, a replay ring of two frames. | Interrupt against foreground; the replay request is a flag of the last frame only, and is answered two exchanges later. Commands keep their order, an inhibited base stops the force. | done |
| Motor firmware (`podium-dd*-motor`) | Link protocol, calibration, current loop. | The link end of the above. The drive is fixed-point arithmetic. | part |
| Transfer session and memory (`transfer/session.c`, `memory.c`) | An outbound frame, a retained acknowledgement, two error counters, two deadlines. | Answers that do not name their request, errors, lost acknowledgements. Requests end, and the session with its pedals. | part |
| System events, notices, power (`system/event_*.c`, `torque_transition.c`) | A single-slot queue of events, the torque key's transitions. | Refused pushes that a caller ignores. Force is enabled once per press on a prompt; a torque change is accepted only with its event. | part |
| Base mode and bridge (`system/base_mode_controller.c`, `runtime_bridge.c`) | Phase machines between normal, bridge and updater mode. | Mode changes in the middle of a call of the serial link. | - |
| USB device and control pipe (`usb/control_pipe.c`, `device.c`) | Endpoint zero stages, endpoint buffers. | A new setup packet before the old transfer ended; buffer ownership. | - |
| USB vendor reports (`usb/*_service.c`) | Uploads, downloads and report handlers that feed the services. | They run at the start of a pass, whatever phase a client is in. | part |
| Xbox GIP session (`usb/xbox_gip_*.c`) | Discovery, metadata download, acknowledgement state. | Fragments and acknowledgements, reset of the host. | - |
| Secure element and auxiliary bus (`secure_element/`, `platform/dspic33e/aux_bus.c`, `motor/*_service.c`) | A bus with one transaction and one status; the element's session, and the motor's telemetry, status and tuning services. | Five users start transactions without a lock and each clears the status it takes. Results are one's own, every user gets the bus, a clean setting is in the motor. | part |
| Wheel service and protocol (`wheel/service.c`, `protocol.c`, `authentication.c`) | Negotiation, authentication and mode of the attached wheel, with its deadlines. | Removal and change of a wheel between polls. Force belongs to the session that runs and ends with the wheel. | part |
| Wheel formats, displays (`wheel/packet_*.c`) | Byte layouts, glyphs. | Data only. | - |
| Pedals (`pedal/service.c`, `platform/dspic33e/pedal_link.c`) | A phase for discovery, legacy polling, the V3 stream, V4 requests, reconnection and analog pedals; a link with a receive mode and one transmitter. | Pedals pulled or exchanged in any phase, late answers, deadlines re-armed by each other. Nothing is published for pedals that are gone; a changed setting arrives; pedals that stay are found. | part |
| Force feedback scripts (`force_feedback/`) | Store of scripts, scheduler, executor. | Scripts replaced while they run. The operations are arithmetic. | - |
| Cooling (`cooling/`) | Fan and effect limit with hysteresis. | Thresholds crossed both ways. | - |
| Shifter (`shifter/`) | Calibration phases, gear thresholds. | Sequential; its save is listed under persistence. | - |
| Profiles, tuning, menus (`profile/`) | Banks of values with ranges. | Sequential. | - |
| Remote tuning and telemetry | Record packing. | Data only. | - |
| Main loop (`firmware.c`) | Order of the services in a pass. | Taken into the modules that depend on it. | part |
| Display pages (`display/`) | Layout. | Data only. | - |
| Platform drivers (`platform/`) | Registers. | Handlers that share state are taken with their component. | - |

How they interact. The main loop (`firmware.c`) first handles USB reports, which call straight
into the services; then runs the command bridge: take the answer of the serial service
(`motor_command_serial_receive`), run the wheel transfer, the accessory service, the adapter commands,
the forwarder and the mailbox (or, while a wheel with status memory starts, only that startup), and
hand a queued command to the serial service (`motor_command_serial_submit`); then the wheel and status
polls, which use the same serial service for messages of their own. The serial service exchanges
frames with the WQR, which performs the requests on its I2C and SPI peripherals. The motor board
is reached both by the live link (DMA frames) and, for commands, through the mailbox of the
command channel, which is a client of the command transport. Later in the pass the services of the
motor run (telemetry, status, tuning): they share the auxiliary bus with the secure element and
with the write requests of the wheel transfer. The wheel service negotiates a mode with the wheel
over the serial service, and force output, which the live link carries to the motor, is enabled by
a press on the prompt that the display shows for a wheel that is ready. The pedals have a UART of
their own; their service runs once a millisecond and publishes the axes the reports carry. The
services read and write settings through the journal.

The properties follow from this layering. The journal and the serial link each promise something
simple to the services above (`SettingsStore`, `RemoteCall`), and are shown to implement it; the
command transport uses from the serial link only that calls end and how they may end, the settings
save uses from the journal only the store, and the motor channel uses from the command transport
only that an owner's requests end.

The hazards this code is exposed to are listed, each at its line, in `PROJECT.json`; a hazard
without properties says why it has none.

## 2. Modules, and how they correspond to the code

| Module | What it is |
|---|---|
| `SettingsStore` | What the journal promises: a map from indexes to values that survives power loss. |
| `SettingsJournal` | The journal, one flash operation per step. |
| `MCSettingsJournal` | Its instance for TLC. |
| `RemoteCall` | What the serial service promises: one call at a time, done at most once in each life of the board, answered with its own answer. |
| `SerialLink` | Base, WQR and the line between them, one frame per step. |
| `MCSerialLink` | The requests and environments for TLC. |
| `SerialLinkProofs` | Theorems about it. |
| `CommandTransport` | The transport, its five clients, the startup of a wheel and the host, one call of a service per step. |
| `MCCommandTransport` | Its instance for TLC. |
| `CommandTransportProofs` | Theorems about it. |
| `MotorChannel` | The motor command channel on its mailbox, with the vendor service that feeds it and the startups that reset it, one call per step. |
| `MotorLink` | The live link: main loop, interrupt and motor, one exchange or one answer per step. |
| `MotorChannelProofs`, `MotorLinkProofs` | Theorems about them. |
| `SettingsSave` | Load and save of the settings over the store, one record per step. |
| `SettingsProofs` | Theorems about `SettingsJournal` and `SettingsSave`. |
| `WheelSession` | The session with a wheel and the force prompt, one service of a pass per step. |
| `WheelSessionProofs` | Theorems about it. |
| `AuxBus` | The five users of the auxiliary bus, one run of a service per step, and the bus's interrupt between them. |
| `AuxBusProofs` | Theorems about it. |
| `PedalService` | The pedal service, its link and its session with V4 pedals, one pass or one frame per step. |
| `PedalServiceProofs` | Theorems about it. |
| `MCMotorChannel`, `MCMotorLink`, `MCSettingsSave`, `MCWheelSession`, `MCAuxBus`, `MCPedalService` | Their instances for TLC. |

`PROJECT.json` maps each definition to the lines it stands for. Some definitions have a broken
variant next to them, marked as such in a comment and used by no other definition: the defect each
property was shown to catch.

**SettingsJournal.** `flash` is the three physical pages: a header (active bit, epoch bit,
rotation counter, saturated just past the limit the code compares it with) and the records
appended behind it. `active` is the slot the session uses; `target`, `next`, `row` and `pc` are the
locals and the program position of a write, a compaction or a recovery, so that `PowerLoss` can
fall between any two flash operations. Boot is `BootCreate` and `Create` (nothing committed),
`BootSingle` and `BootRecover` (two slots committed by an interrupted rotation: the one without a
committed successor is retired). A write is `Write`, `CheckEqual` or `CheckFree`, `AppendRecord` and, when that
took the last instruction, a compaction: `EraseTarget`, `CopyIndex` for each index with a row
programmed when full, `CopyRest`, `ProgramHeader`, `Commit`, `Retire`. Every flash operation may
fail and leave what the hardware can leave. A record is programmed as one instruction, which the
flash does atomically. `WornFaults` allows the failure of a retirement on worn headers (see the
runs). A read answers `Latest` of the active page.

**SettingsStore** has an action for each thing a caller can see: `Write`, `Store`, `Confirm`,
`Fail`, `PowerLoss`, `PowerUp`. `SettingsJournal` implements it with `stored` mapped to the latest
record of each index in the slot a boot would retain, and `online` to the session being usable.
So rotation, recovery and every failure are invisible steps of a map, and a call that answered
"ok" is durable.

**SerialLink.** `service` and `session` are the structures of `serial/service.h` and
`serial/session.h` (status, packet in flight, deferred packet, attempts; sequence, offset, next
packet, assembly); `hold` is the recovery hold of the link driver. `wqr` is the board's protocol
state with its stored frame, assembled message, answer and control answer, `due` says it owes a
frame and does not listen, `driver` is its I2C state machine. `toWqr` and `toBase` hold the one
frame on its way in each direction. Frames keep their kind, sequence and part; bytes and
checksums are abstracted to "damaged" or not. The base's actions are one per kind of frame that
`serial_service_run` can take (`TakeNak`, `TakeAck`, `TakeAnswer`, `TakeDamaged`), the timeout, the
recovery and the client's calls (`Start`, `Release`, `Cancel`). The board's are `WqrReceive` (the
whole of its receive handler), `WqrRespond`, `PollI2c`, `PollStatus`, `DriverEnds`. The line loses
(`Lose`) and damages (`Damage`) frames; `Restart`, `Detach`, `WqrDeaf` and `BaseDeaf` are what
else befalls it. A request is a name with a type, whether its retries are bounded, and its numbers
of parts, since no property depends on its bytes.

**RemoteCall** is `SerialLink` seen by a client: `Submit`, `Perform`, `Reply`, `Fail`, `Forget`,
`Restart`. `Reply(c)` allows the answer of call `c` only if that call asked the same and no later
call has succeeded since.

**CommandTransport.** `transport` is `CommandTransport` (owner, phase, kind, latched
completion), with what has become of the request added for the properties; `serial` says who uses the
serial service. `startup` is the phase of the startup service that reads the status memory of a newly
selected wheel; `transfer`, `accessory`, `adapter`, `forwarder` and `mailbox` are the client
structures, without the registers they read and write: which request comes next is a choice, and that there is one is the code's;
`mailbox.deferred` says that a segmented upload waits in the vendor service,
which then does not run the mailbox, and a report of the host does no more than claim the transport
(`HostSwallowed`). `pc` walks through the calls of one pass in the order of
`service_usb_command_bridge` and of the main loop behind it. Between passes the host may start a
wheel transfer, send a motor command, complete an upload, or restart or release the mailbox. A
startup may begin in any pass; as long as it is not over, the pass goes from there to the submission, as
the early return of `service_usb_command_bridge` does. It may fail in any pass, having taken its
turn or not (`FailingTurn`), for its deadline, for a mailbox that failed or because the wheel is gone. The host can
release the transport while the startup holds it; a length record is then read for nobody, which is why the
properties say "but for the length record".

**MotorChannel.** `channel` is `MotorCommandChannel` with the retry count of its scheduler,
`control` the buffer of its control packets, `exchange` the phase of the mailbox and the packet it
has queued, `carried` the bytes the transport copied when the write began. `Run` is one whole call of
`usb_motor_vendor_service_run_mailbox`: queue a deferred upload or give up (`Stalls`), let the
scheduler expire or not (`Scheduled`), queue what is pending (`WithPending`), then one of the
outcomes of the mailbox, from `Asks` to `ReadsPacket`. The host sends commands, restarts, releases
and takes responses. `startup` is the startup that runs in the place of the vendor service: of a wheel
with status memory, of Xbox, of the base-mode recovery. It resets the channel and the exchange and
releases the transport when it begins (`StartupBegins`) and when it fails (`StartupFails`); in between it
claims, resets the sequence, sends three requests through the same channel and runs the same mailbox
(`MailboxRuns`), and it ends by a release that resets nothing (`StartupFinishes`). A recovery resets the channel once
more when it falls back to native mode (`RecoveryResets`). The host's reports go on meanwhile. The peer behind the mailbox is outside the tree and sends any packet with any
number; a command is a number, and no two encode to the same length.

**MotorLink.** `queue`, `previous` and `ring` are `MotorOutputTransport`; `next`, `sending` and
`received` the buffers of the DMA driver; `taken` the frame the main loop works on; `motor` the
replay flag, status and force of the motor's end. `service_motor_link` is `Take`, then
`AnswerReplay` or `AnswerBuild`; an `Exchange` is a whole full-duplex frame with the interrupts at
its end on both sides, and falls between any two of these. The frame that was loaded when an
exchange ends goes out in the next one, so an answer is two exchanges late, as in the code. The
base is in the mode in which force frames drive the motor directly.

**SettingsSave.** `stored` is the map of `SettingsStore`; `settings` and `dirty` are RAM; `saving`
is the writes a call still has to do, so `LosePower` and `WriteFails` can fall between any two.
`Boot` loads and saves what the load left dirty; the events that change settings (`CaptureCenter`,
`Calibrate`, `ChangeAuxiliary`, `SetSteeringLimit`) start their own save as the code does. One
setting of each kind the load distinguishes stands for the rest: a checked word, an unchecked word,
two words read together, words behind a validity index, a value with a marker.

**WheelSession.** `base` is the protocol, its deadline and the status-memory startup, `line` the
request under way on the serial service, `queue` and `prompt` the display event and the
confirmation, `force` whether force output is enabled. A pass is `Events`, the startup, the wheel
service (`WheelRuns` or, while the line is busy, `WheelWaits`) and `service_force_output_enable`
(`ForceStays`, `ForceAsks`). `MoveWheel` puts a wheel on, swaps or pulls it between any two passes.
A pulled wheel answers packets that are not ready: that is how the service treats a quick-release
board without a wheel, and an assumption about the board. The ghosts `press` and `carried` remember
whether somebody pressed and whether force is older than the session.

**AuxBus.** `bus` is the driver's status with, for the properties, who started the transaction.
The services are one variable each and run in the order of the pass: element, transfer, then the
console's change of mode, telemetry, status, tuning. Each of their actions is one whole run; the end
of a transaction (`BusEnds`: the interrupt, its retries, or the watchdog) falls between any two.
Reports of the host and the timers come between passes. `written` is what the motor has of each
parameter, and `intact` turns false when a reset of the bus cuts off a transaction that a service
goes on waiting for.

**PedalService.** `base` is `PedalService` with its `TransferSession` and the link: `mode` is what
the receiver is set to, `tx` what the transmitter holds, `byte`, `frame` and `rx` what has arrived
and was not taken. `late` says that the deadline the phase waits for has passed; of the four that run
during an adjustment the next one is meant, which the comments at `Probing`, `Fed` and
`SessionOver` derive from their lengths. `pedal` is the unit outside the tree: what kind it is,
whether it streams or adjusts, and what it has sent. A pass is the action of its phase; a
transmission ends (`TransmissionEnds`), a frame arrives (`Arrive`) and a pedal is plugged in or
pulled (`Plug`) between any two. `told` is the value of each setting that a pedal took last. `env`
is what may still happen: plugs, losses, changed settings, pressed adjustments, the console's
restarts, V3 controls.

## 3. Runs: what each checks and shows

| Run | Result |
|---|---|
| `journal` | holds: `NeverLockedOut`, `RebootKeepsSession`, `ProgramsErasedOnly`, `StoreSpec` |
| `journal_worn` | violated, as the code does: `NeverLockedOut` |
| `serial` | holds: `TypeOK`, `SequenceInStep`, `CallSpec`, `UnboundedNeverFails`, `CallsEnd` |
| `serial_stale` | violated: `ResponseMatches` |
| `command` | holds: `Ownership`, `CompleteIsOwn`, `WaitsEnd`, `MalformedIsFinal`, `TransferEnds`, `StartupLockedOut` |
| `motor_channel` | holds: `WritesAreOwn`, `WatchdogNeverResets`, `DeferredStalls`, `PendingIsSent` |
| `motor_link` | holds: `CommandOrder`, `NoLiveForceOnceInhibited`, `ForceStops`, `SlipHeals` |
| `settings_save` | holds: `SaveTypeOK`, `CleanMeansKept`, `FormattedIsComplete`, `FirstCalibrationWhole` |
| `wheel_session` | holds: `ForceIsOfThisSession`, `OnePressOneEnable`, `RemovedWheelStops`, `SelectionEnds` |
| `aux_bus` | holds: `ResultsAreOwn`, `CleanMeansWritten`, `BusIsShared` |
| `pedal_service` | holds: `TypeOK`, `NeutralWhileSearching`, `TuningTaken`, `GoneIsReleased`, `PluggedIsConnected`, `PressEnds` |
| `pedal_axes` | violated: `AxesFromStatus` |

The type invariants of the journal, the command transport, the motor's channel and link, the wheel
session and the auxiliary bus are proved for every value of the constants (section 6) and not
checked again here. Five more configurations are counterexamples to keep at hand rather than runs
of the project, each the shortest way to something the passing runs' environments leave out or
tolerate:

| Configuration | TLC reports |
|---|---|
| `MCSerialLinkTwice.cfg` | violated: `DuplicatesSuppressed` |
| `MCSerialLinkLivelock.cfg` | violated: `BoundedCallsEnd` |
| `MCPedalServiceHandshake.cfg` | violated: `RecoveryHandshakeSent` |
| `MCPedalServiceTime.cfg` | violated: `OperationHasItsTime` |
| `MCPedalServiceOverlap.cfg` | violated: `OverlapRemains` |

**journal.** Power may be lost, and a flash operation may fail, between any two operations and any
number of times. No boot refuses the flash (`NeverLockedOut`), the slot in RAM is the one a reboot
retains (`RebootKeepsSession`), every step erases a page or programs erased instructions
(`ProgramsErasedOnly`), and callers see a durable map (`StoreSpec`). The header counter passes its limit,
so both ways of choosing the next slot are explored.

**journal_worn.** Once the epoch bit of new headers is spent, the retirement of the old slot is
the one operation whose failure the journal does not survive: two committed slots remain, the
next compaction skips the ineligible successor and commits the third, and every later boot finds
three committed slots and refuses. `WornFaults = FALSE` in the run `journal`, and the assumption of
the theorems, exclude this failure and its twin, a header whose readback fails after it was
programmed (`MayKeepBoth`), on such headers.

**serial.** Five environments the protocol survives:

| Calls | Line | Also |
|---|---|---|
| one frame each way: two writes and a bounded poll | loses and damages any frame | a peripheral slower than the timeout |
| a write of two frames, a read of two answered by three | loses all but a later part of an answer; damages answers and resynchronizations | a slow peripheral |
| one frame each way | loses any frame | a restart of the board |
| one write, over and over | loses any frame | a restart, a wheel taken off |
| one write, over and over | loses any frame | a slow peripheral, a cancelled call |

In them every call ends (`CallsEnd`), unbounded ones not by giving up (`UnboundedNeverFails`),
both ends agree on the sequence number after each success, across the wrap (`SequenceInStep`), and
the pair implements `RemoteCall` (`CallSpec`). *Not* survived, and so excluded, are: a damaged frame or a collision together with
a restart at the wrap (the two ends exchange resynchronizations forever), a cancelled call with
wheel removal, the loss of a later part of an answer (the repeated acknowledgement skips a part),
and wheel removal during a read. The run `serial_stale` and two further configurations are the
shortest of these and of the damage cases:

- **serial_stale**: the board keeps the answer to the last call until the *last* frame of the
  next request; one damaged acknowledgement before that makes it repeat the old answer, which the
  base takes as a success of the new call.
- **MCSerialLinkTwice.cfg**: one damaged acknowledgement of a part of an answer makes the base repeat its
  request under a new sequence number, and the board performs it again.
- **MCSerialLinkLivelock.cfg**: resynchronizations are not counted as attempts; a poll dropped by the board
  for a removed wheel, and damaged when repeated, leaves both ends resynchronizing forever.

**command.** The five clients, the startup and the host, with answers that may be malformed. What
the transport carries is what its owner waits for, and who waits owns it (`Ownership`); who is told
"complete" has had that very request accepted (`CompleteIsOwn`): in particular the late answer to a
request that was given up can reject the next one but never completes it. Every wait ends
(`WaitsEnd`), with two exceptions, and the host's wheel transfer ends (`TransferEnds`) unless its
answer never comes, the mailbox keeps the transport for good, or the forwarder or the adapter gives up over and
over. The accessory and the adapter, which ask again as soon as they may, do not starve it: that
is what their releases between requests are for. All of these exceptions are real; without any of
them TLC finds the endless wait:

- a malformed answer ends the serial exchange but not the request, and no step of the loop ends
  that wait of a client without a limit (`MalformedIsFinal`), although `transfer/command.h:222`
  lets it wait "for a valid response"; a startup that fails cancels the exchange of whoever has it,
  with the same effect;
- a deferred upload keeps the mailbox from looking at its answer, until a startup resets it (see
  `motor_channel`).

A startup whose turn comes while another client has the transport "waits until it owns" it
(`motor/command_startup.h:92`), but that client does not run meanwhile and so never lets it go:
the startup can only fail (`StartupLockedOut`).

**motor_channel.** A command counts as sent only when the mailbox took this very packet, and a
packet does not change under the write (`WritesAreOwn`), whatever the peer sends, in whatever order
transfers fail and startups come between. Otherwise every command is written in the end (`PendingIsSent`),
with one more exception: a startup that ends releases the transport, and a command that the host sent in its last
passes waits for the host's next report to claim it again. Two properties say
what the code does against its documentation. `DeferredStalls`: a segmented upload that finds the
channel busy is not taken until a startup, a recovery or a reboot resets the channel. The mailbox does not run
until the channel has room, the vendor service gives it room only by running the mailbox, and the host's restart is not
looked at either. The resets come from elsewhere: a wheel with status memory that is put on, an Xbox startup, a
recovery. They drop the command before the upload, keep the upload, and let it be queued later.
`WatchdogNeverResets`:
the count of the scheduler never reaches its limit, because a repeat clears the flag it depends on.
Met while modelling, and no property: a resend or retry of the peer while a reset is pending rebuilds
the command over the reset packet, which then counts as sent and is not; and the acknowledgement of a
command that was requeued meanwhile is ignored, so the command is sent again.

**motor_link.** With a main loop that keeps up and a clean line every command is applied once and
in order. A slow main loop loses commands (an answer overwritten before its exchange) and repeats them,
but never swaps two; a damaged line makes the motor go back by one command at most
(`CommandOrder`). The two exchanges of delay mean that the replay is seldom of the frame that was
rejected: a rejected command is not sent again, which no caller knows of, as nobody learns that a
full queue dropped one. Two exchanges after the base became inhibited no live force leaves it,
replays included (`NoLiveForceOnceInhibited`), and in every environment the motor's force stops
(`ForceStops`). A slipped line is aligned again by the malformed limit (`SlipHeals`); the restart
sends the frame that was just built twice.

**settings_save.** A base whose settings are clean reboots with the settings it ran with, through
failed and cut-off saves (`CleanMeansKept`), with one exception, a steering limit whose own write failed. The format
marker vouches for every record (`FormattedIsComplete`), and a first calibration is taken whole or
not at all (`FirstCalibrationWhole`). A *second* calibration, or a wheel center, that a crash tore is
accepted by the next boot and stays: the comment at `settings/persistence.c:300` speaks of first-time writes
only. Failed writes are not tried again until something else saves; and a steering center of
exactly zero loads as uncalibrated.

**wheel_session.** Force that is enabled at the end of a pass was enabled in this session
(`ForceIsOfThisSession`). Between two enablings somebody pressed on a prompt
(`OnePressOneEnable`), though not necessarily on the prompt that is shown: the answer to a prompt
whose wheel was pulled in the same pass is kept, and enables force for the next wheel. Force ends
when the wheel is pulled (`RemovedWheelStops`), unless nobody times the session, as in scanning
mode; and every selection of a mode ends (`SelectionEnds`), possibly in the updater bridge: a wheel
pulled during the selection counts as an unrecognized one, and the bridge keeps the loop until a reset.

**aux_bus.** Nobody takes another's result, although a result stays on the bus until its service
runs again (`ResultsAreOwn`), and a parameter that is not dirty is in the motor, through failures and values superseded
during their write (`CleanMeansWritten`). Both only while no reset of the bus by the PlayStation
mode has cut a transaction off: after that, telemetry publishes an old buffer, a cut-off write can count
as written, and status and tuning can take each other's results forever. Every user gets the bus
as long as neither tuning nor status keeps it (`BusIsShared`): tuning does while its writes fail,
that is, while the motor does not answer, and status does while its command is answered with an
unknown word. Both conditions are needed; without either TLC finds the starvation.

**pedal_service.** Whatever is plugged in, pulled or exchanged, and whenever: nothing is published
while pedals are searched for (`NeutralWhileSearching`). A V4 setting that does not wait to be sent is
in the pedals, although answers do not name their request and the setting may change while it is sent
(`TuningTaken`), on a line that loses nothing and with two exceptions: the console's restart drops
what waits, and the late answer to an adjustment can settle a setting that is still being sent, which
never arrives if the pedals are pulled just then. Pedals that are gone are released in the end
(`GoneIsReleased`), pedals that stay are connected (`PluggedIsConnected`), and an adjustment ends
while its pedals stay (`PressEnds`).

Four comments say more than the code does:

- **pedal_axes**: an answer that comes late is taken for the answer to the status request sent
  since, and its contents are published as axes.
- **MCPedalServiceHandshake.cfg**: the recovery handshake of V3 pedals that never reported is cut off by the
  reconnection in the same pass.
- **MCPedalServiceTime.cfg**: an adjustment whose first answer is lost has no heartbeat before the session's
  deadline, and ends while the pedals still adjust.
- **MCPedalServiceOverlap.cfg**: the ring is cleared when a transmission starts and when it ends, and answers
  that overlap it are lost.

Each property of the passing runs has a mutant in `PROJECT.json`: a plausible defect in one mapped
definition that makes the run report that property. `PROJECT.json` also lists the findings: where the
code does something else than its comments, headers or tests say, with the property that shows it.

## 4. Bounds

- **Journal**: two indexes, two values, pages of three records, rows of two instructions
  (`IndexCount`, `MCValues`, `PageRecords`, `RowLength`): a compaction copies over a row boundary, a page fills after one
  further write, a boot can find a full page. The number of rotations is *not* bounded: the counter saturates at
  `EpochLimit + 1`, past the only value the code compares it with, so the state space is
  finite and twelve rotations and more are in it. The theorems hold for every value of the first three.
- **Serial**: `SeqMod` 3 for 256, so that the wrap falls on every kind of frame; `MaxAttempts` 2
  for 5, within the fault budget; `MaxParts` 3, `MaxCalls` 3 and `MaxFaults` 3 in the passing run (two
  calls and one or two faults suffice for the violations). Three calls are a call, the one whose
  answer it may take, and the one that finds the sequence numbers afterwards. With three sequence
  numbers "ahead", "behind" and "equal" are all there is, as in the code, which tests order and
  the two wrap cases. The clients stop after `MaxCalls`, which is why that run does not check
  deadlock.
- **Command**: `WaitLimit` 1 for 500 passes, `ControlLimit` 1 for 9 erased records: both are
  counters with one comparison, and the pass that reaches each is in the model. There is no bound on the number
  of requests, restarts or passes. The theorems hold for every value.
- **Motor channel**: `RetryLimit` 2 and four sequence numbers, as in the code; `SentinelLimit` 1 for 9;
  `MaxCommands` 3 commands of the host and requests of startups (one written, one deferred, one behind them); `MaxEvents`
  3 packets of the peer, failed transfers, odd control records, startups or resets of a recovery, so that two resets of
  the peer make the base send its own and a transfer fails in between, or two startups come around a
  deferred upload. Repeats by the scheduler are not bounded. When the commands are used up and the host has
  released the transport nothing is left to do: the run does not check deadlock.
- **Motor link**: `ReceiveCapacity` 2 as in the code; `QueueCapacity` 2 and `MalformedLimit` 1 (100 in the
  code; one comparison). Three commands overfill the queue and let a replay go back over one of them; one or two
  changes of status or inhibition, up to two faults. Exchanges are not bounded. Four
  environments: prompt, slow, damaging and slipping (`MCMotorLink`).
- **Settings save**: three words, with zero among them and a fourth that damage leaves, two thresholds for nine, two limits;
  `MaxChanges` 3 and `MaxFaults` 2: a save cut off, done again, and cut off again, with a
  calibration after a calibration. The run ends when the changes are used up.
- **Wheel session**: one wheel of every kind the code distinguishes but "secure", which is "memory" without its startup;
  an activity window of one tick and a selection window of two, so that the one can end within the
  other. Wheels, presses, events and restarts are not bounded.
- **Auxiliary bus**: `Parameters` 2 for the motor's parameters (a cursor that wraps, a neighbour to starve), two
  values; every protocol of the motor, and in each environment at most two of the things the host does. Changes,
  requests, failures and mode changes are not bounded.

- **Pedals**: two legacy channels, `RetryLimit` 1 and `MaxErrors` 1 for 4 (each one comparison), two of
  the four V4 settings (one at each end of the order), two values. Ten environments, in each of which
  two or three kinds of events happen up to three times together (`MCPedalService`); reports, frames and passes
  are not bounded.

## 5. Fairness, and other assumptions

- `SerialLink` assumes weak fairness of the base's steps and of the board's steps as a whole
  (`BaseStep`, `BoardStep`): both main loops run forever and the timers they read go on. No fairness is given to
  loss, damage, or to clients starting calls.
- `CommandTransport` assumes weak fairness of the pass (`Pass`), strong fairness of `ReceiveAnswer` and
  of the end of a poll (exchanges end, which is what `CallsEnd` of `SerialLink` shows in the environments it
  survives; the steps are enabled once in every pass, hence strong) and of the end of a startup, which has a
  deadline of two seconds. Neither the host nor a wheel is obliged to do anything.
- `MotorChannel` assumes weak fairness of `RunMailbox`, the run of the mailbox in every pass (its
  requests to the transport end; while it stalls, the action is not enabled and nothing is assumed), and of the passes of a startup
  that has the transport, which run the mailbox instead or end by the startup's deadline. Nobody
  obliges the peer, the host, the scheduler's timer, or a startup to begin.
- `MotorLink` assumes that undamaged exchanges go on and that the main loop takes and answers
  frames: the motor's timer starts exchanges for as long as it runs, and both loops never stop. A
  fault may come at any of them.
- `WheelSession` assumes that the services of a pass run, that time passes (`Tick`), that the startup of
  the status memory has an end, which its own deadline gives it, and that requests on the line
  end (`CallsEnd`). The last three are strong fairness, since other steps come in between.
- `AuxBus` assumes that the pass goes on and that transactions end: `aux_bus.c` counts two
  milliseconds in the timer tick and resets a bus that has not ended by then.
- `PedalService` assumes that the service runs, that deadlines pass, and that transmissions and
  answers arrive; all weak. With `prompt`, a deadline for an answer passes only when none is on its
  way: pedals answer within milliseconds, the deadlines are tens of them. That V4 pedals
  acknowledge, answer and complain about damaged frames is inferred from what the session expects.
- The settings save has no liveness property; nor has the journal, which needs no fairness: it has safety properties and a refinement without liveness.
- Timing in `SerialLink` is reduced to order. A frame takes 0.14 ms, the board answers within 0.2 ms unless it
  waits for its I2C peripheral, the base's timeout is 10 ms; hence `Timeout` is possible only when
  nothing is under way, or, in environments with "slow", while the peripheral is busy.
- Flash programs an instruction and erases a page indivisibly with respect to power loss; a failed
  operation reports failure.

## 6. Proofs

Checked by TLAPS with Z3, Zenon and LS4.

**SettingsProofs**, on `SettingsJournal`, for every `IndexCount`, `PageRecords` and `RowLength` the module's assumption
allows, and under the named assumption that `WornFaults` is false (it cannot be dropped: see
`journal_worn`):

| Theorem | States |
|---|---|
| `TypeCorrect` | `Spec => []TypeOK` |
| `LockOutImpossible` | `Spec => []NeverLockedOut` |
| `SessionIsRetained` | `Spec => []RebootKeepsSession` |
| `ImplementsStore` | `Spec => StoreSpec` |
| `FlashDiscipline` | `Spec => ProgramsErasedOnly` |

None of these is inductive alone. The inductive invariant `JournalInv` is `TypeOK` with five parts:
`HeadersErasedOrCommitted` (a header is erased or committed), `OfflineShape` (with the power off, at
most two slots are committed, neighbours: all a power loss leaves), `SessionShape` (the slot in
RAM is committed, its predecessor is not, and a successor left by a failed retirement is still
eligible, which is what worn headers break) and `CopyShape` (the target of a compaction is the
successor, holds the newest value of every index copied so far, and is committed last, so that a
commit changes no stored value) and `CallShape` (which call is running, and that it has stored its
value before a compaction it causes). `ImplementsStore` maps
each step to a step of the store or a stutter: the append is `Store`, the answers are `Confirm` and
`Fail`, and rotation is a stutter because a commit keeps `Stored`.

**SerialLinkProofs**, for every `SeqMod`, `MaxAttempts`, `MaxParts`, `MaxCalls` and `MaxFaults` the module's
assumption allows and every set of `Environments`:

| Theorem | States |
|---|---|
| `TypeCorrect` | `Spec => []TypeOK` |
| `SequenceCorrect` | `RoomForAnswers` implies `Spec /\ [][Undisturbed]_vars => []SequenceInStep` |

Both ends send when they like, one after a timeout and the other when its peripheral is done, so even the
types need to know that the line stays half duplex. `Turns` says that a frame for the base excludes one
for the board and finds the board listening, and that both are silent once a call has succeeded; `Kinds`
which frames travel which way, each with the number of its sender; `Modes` that the board does not
listen while it works. This `LineInv` is invariant whatever is lost, damaged, cancelled or restarted,
and gives `TypeCorrect`: what the board answers is of calls that were made, and its offset is within its
answer.

`SequenceCorrect` follows the two counters. As long as the board is engaged it is level with the base or one
ahead, and one ahead when it answers (`Counts`). The base moves when it takes a frame, so that levels them; the
board moves when it hears something new. What it must not do is take a repetition for something new, or
the reverse: `Memory` says how far the board has come since the frame it remembers, so that a frame that
equals it comes from a base one behind; `Acks` that an acknowledgement is repeated only if the first has
not been heard, since the board moves its answer on for any. The hypotheses:

- `RoomForAnswers` (`MaxParts + 1 < SeqMod`): an answer's parts do not wrap around to the number of the
  request. The code has 256 numbers, and a message of 512 bytes travels in nine frames of 57.
- `Undisturbed`: the line loses no later part of an answer (`PartLost`: the base then repeats its
  acknowledgement, and the board skips a part), and the board refuses no fragment while the answer to the
  request before is still ready (`Refuses`: it then falls back on that request, whose number comes round
  again). The code does not prevent either, and `SequenceInStep` is false without them: TLC
  finds it violated in small instances where one part of an answer is lost, and where calls are cancelled in the
  middle of messages of two parts and acknowledgements are damaged. All other losses, all damage,
  restarts, wheels taken off and cancelled calls are within the theorem. The environments of `MCSerialLink.cfg` do
  neither; its `SeqMod` of 3 lies outside `RoomForAnswers`, so there the invariant is TLC's.

**CommandTransportProofs**, for every natural `WaitLimit` and `ControlLimit`:

| Theorem | States |
|---|---|
| `TypeCorrect` | `Spec => []TypeOK` |
| `OwnershipCorrect` | `Spec => []Ownership` |
| `CompleteCorrect` | `Spec => []CompleteIsOwn` |
| `LockedOutCorrect` | `Spec => StartupLockedOut` |
| `MalformedCorrect` | `Spec => MalformedIsFinal` |

The invariant is `TypeOK` with `SafeInv` and `StartupInv`. `SafeInv` is the conjunction of the
properties and two parts that make them inductive: `HasKind` (a request under way is of some kind)
and `PendingIsSent` (what waits for an answer has been sent). `StartupInv` says that no client runs
while a startup does, and that the mailbox waits for nothing until the startup runs it: else the poll with
which a startup takes its length record could tell the mailbox the end of a request that was
rejected. `MalformedCorrect` goes through every service of the pass: a request whose exchange is over cannot be
polled, claimed, released or failed by any of them (lemma `Kept`), and a startup waits for it. The step of one client is done once for all five (`ClientStep`; `ClaimStep` for a claim of a
transport that carries a record read for nobody), and the proof has a lemma per client.

**AuxBusProofs**, for every number `Parameters` of tuning parameters and every set of `Environments`:

| Theorem | States |
|---|---|
| `TypeCorrect` | `Spec => []TypeOK` |
| `ResultsCorrect` | `Spec => []ResultsAreOwn` |
| `CleanCorrect` | `Spec => []CleanMeansWritten` |

The types need `ActiveIsWorking`: a service with a transaction under way is in a phase that has
transactions, or the end of the transaction would meet a phase without a case for it. `SafeInv` is
`CleanMeansWritten` with `Own` (the first property, service by service), `IdleIsNobodys` (an idle
bus has no user; with `Own`, nobody who waits sees it idle, so nobody who waits can lose it),
`FlightIsDirty` (what is being written is dirty until the write ends) and `WriteArrived` (a
write that has succeeded is in the motor by the time tuning hears of it). The proof has a lemma per
service, and one for what each does to the bus.

**MotorChannelProofs**, for every `RetryLimit` above zero and every `SentinelLimit`, `MaxCommands` and
`MaxEvents`:

| Theorem | States |
|---|---|
| `TypeCorrect` | `Spec => []TypeOK` |
| `WritesCorrect` | `Spec => []WritesAreOwn` |
| `WatchdogSilent` | `Spec => []WatchdogNeverResets` |
| `DeferredIsStuck` | `Spec => DeferredStalls` |

The invariant is `TypeOK` with `Linked` (a sent command was taken by the mailbox as it stands and has not been
repeated; unless a reset is due, what is ready to be written is the pending command; a queued packet is one
the channel still wants, and does not change while it is written), no command among the control
packets, and `DeferredWaits` (no upload is deferred while a response waits: a host that takes a response
leaves a stalled upload as it is). `DeferredIsStuck` says that, while the upload finds no room and no startup has the
mailbox, only a startup that begins or a recovery changes the channel or the exchange, and that neither loses
the upload. `WatchdogSilent` follows from the first part: the requeue that a timeout makes clears
`sent`, and only a sent command is counted. The proof follows the calls of one run of the mailbox, with
a lemma for what each does to `Linked`.

**MotorLinkProofs**, for every `QueueCapacity` above zero, every `MalformedLimit` and every set of `Environments`:

| Theorem | States |
|---|---|
| `TypeCorrect` | `Spec => []TypeOK` |
| `ReplayCorrect` | `Spec => []ReplayOrder` |
| `OrderCorrect` | `Spec => []CommandOrder` |
| `ForceCorrect` | `Spec => []NoLiveForceOnceInhibited` |

The order of commands needs what is on its way: the commands that wait follow the newest one a frame was
built for (`QueueOrder`), the ring holds the newest two at worst (`RingOrder`), and the frames that are
loaded or ready to load may be applied in turn without going back more than one (`FlightOrder`). The
end of force needs `PromptLoop`: with a main loop that keeps up, the frame to load next is without live force
once an exchange has passed and has been answered. 
`ReplayOrder` is the part of `CommandOrder` that survives damage. The parts that hold on a clean line
rest on `OrderInv`: the only replays the motor asks for are those of start-up, before more than one frame
was built, so what is replayed is a slot of the ring that was never written and carries no command
(`StartUp`, `Blanks`); then the commands in flight rise (`Ascending`), and with a main loop that keeps
up, what has been taken from the queue is applied or in one of the two frames on their way (`Once`).

**SettingsProofs**, on `SettingsSave`, for every set of `Words` and `Limits`, every number of `Thresholds`, and
every `MaxChanges` and `MaxFaults`:

| Theorem | States |
|---|---|
| `SaveTypeCorrect` | `SaveSpec => []SaveTypeOK` |
| `FormatCorrect` | `SaveSpec => []FormattedIsComplete` |
| `KeptCorrect` | `SaveSpec => []CleanMeansKept` |
| `SessionCorrect` | `SaveSpec => []FirstCalibrationWhole` |

All of them rest on `Underway`: a running save is the rest of `Records(settings)`, and what comes before the rest
is stored. The lemmas on the order of the records (`RecordPlaces`, `PlaceCases`) then say what is stored when
the format marker, or the validity of the pattern, is written: the marker comes last, and the thresholds
before their validity. `KeptInv` adds that clean settings are `Alike` to what a load would find: the same but for
end points that a load makes anew either way, and for a steering limit being written. `SessionInv` follows the
one session of calibration through RAM and store: as long as there was none, nothing counts as calibrated;
afterwards every threshold that counts is its word, or was damaged by a write that failed (`OfSession`).

**WheelSessionProofs**, for every set of `Kinds` of wheels, every `ActivityTicks` and every `SelectionTicks`:

| Theorem | States |
|---|---|
| `TypeCorrect` | `Spec => []TypeOK` |
| `ForceCorrect` | `Spec => []ForceIsOfThisSession` |
| `PressCorrect` | `Spec => OnePressOneEnable` |

The invariant is `TypeOK` with `CarriedIsReset` (force that outlives its session is looked at in the same pass, and
the session is waiting by then) and `AnswerIsPress` (what the prompt has seen or taken as an answer
was a press that has enabled nothing yet).

**PedalServiceProofs**, for every set of `Pedals` and `Tuned` settings, every `Channels` above one, every
`RetryLimit` above zero, every `MaxErrors` and every set of `Environments`:

| Theorem | States |
|---|---|
| `TypeCorrect` | `Spec => []TypeOK` |
| `NeutralSearch` | `Spec => []NeutralWhileSearching` |
| `SettingsTaken` | `Spec => []TuningTaken` |

Types need to know which request an answer can meet: by `V4Linked` an answer is only ever taken for a
request or for the wait of an adjustment, so that completing it always finds a phase with a case of its
own. `NeutralSearch` adds what the two phases of the hold keep (`Hidden`): input may be kept there, and
whoever leaves them has released it.

`SettingsTaken` is about answers without names. Its invariant says, of a line that has lost nothing: a
setting that is being sent still waits, and in a session is the one asked for last (`Out`); one that was
sent and not answered has either been taken by the pedals, or nothing that could pass for its answer is
in the receiver, in the pedals or on the way (`Sure`); only V4 pedals answer, and no complaint is under
way (`LineInv`). So an answer that is taken for that of a setting finds the pedals with the value that
was sent, and if the value has changed since, the setting goes on waiting.

Out of the prover's reach, and so only model-checked: liveness under fairness and everything that
needs ENABLED (`CallsEnd`, `WaitsEnd`, `TransferEnds`, `PendingIsSent`, `ForceStops`, `SlipHeals`,
`RemovedWheelStops`, `SelectionEnds`, `BusIsShared`, `GoneIsReleased`, `PluggedIsConnected`, `PressEnds`), and what a recursive definition computes for every input, since that is an
induction over data. No module uses RECURSIVE operators. Two safety properties of `SerialLink` are
model-checked only: `CallSpec` and `UnboundedNeverFails` hold in the environments of `MCSerialLink.cfg` and not
in every one (section 3), so a theorem would have to follow which part of which call each frame carries.

## 7. What is not modelled

Inside the modelled components:

- *Journal*: the layout of records in instruction words, and the two logical pages, which are
  independent journals of the same code; reads of the flash that fail (a write then
  answers `false` with the flash as it is).
- *Serial link*: the direct mode of the updater; the "long" message formats; wraparound of the
  millisecond clock.
- *WQR*: the two SPI payload types, sensor sampling and the display; its receive interrupt is taken
  with the handler it feeds.
- *Command transport*: PlayStation mode (the mailbox is not run), the base-mode recovery and the Xbox startup (which
  run the same startup service, the former in short passes too), requests that are too long, the registers of the clients, the updater's
  client (0x43) and the bridge, which takes its owner from the host's report.
- *Motor channel*: the other owners of the transport for which a startup waits, the requests of the length record,
  how many answers a startup needs, the passes of a recovery between its startup and its fallback, an Xbox startup that
  a wheel's interrupts, PlayStation mode (the mailbox is not run); empty payloads, payloads that are too long, the command with opcode 0xfe, the
  wrap of the retry count at 256, and the numbers of received packets, which the peer chooses freely. The peer is not in the tree.
- *Motor link*: the modes in which the motor computes effects effects of its own; its refusal of an effect configuration, which the base filters before it; the
  contents of reports.
- *Settings save*: the values no rule relates to another, the `retained_boundary` a calibration keeps among them; profiles, which are saved by the same calls
  to other indexes. `wheel_auxiliary_option` is saved and always loads as zero, as a test demands.
- *Wheel session*: contents of packets, the modes without an input decoder, the intervals of the
  transport, what the runtime bridge does while it has the loop, the debounce of USB, notices other than the
  force prompt. Wheels swapped within the activity window go unnoticed by the code in the modes without authentication,
  and so in the model.
- *Auxiliary bus*: the contents of exchanges; the users at startup (motor probe, centering, the
  override of the output); passes of the runtime bridge or cut short by a base-mode recovery; events
  and the interlock that the motor's status raises; parameters that the encoder refuses;
  a return to native mode that does not reset the bus (`firmware.c:2481`), which PlayStation mode seems not to reach.
- *Pedals*: segmented messages, host transfers and host adjustments, which have no sender or no
  caller in the tree; V3 calibration, configuration and input commands; the display of an
  adjustment; the fifth retry that tells the first legacy axis from the others, one `RetryLimit` here; delimiter recovery of
  the V3 receiver; the session's deadlines while nothing is asked, which is for 15 milliseconds at most; the wrap of the clock, which the session's deadlines are compared without regard to.
  `transfer_session_receive` clears the error count for every frame that decodes, before its sequence is looked
  at, so that errors of sequence never add up to five.

Left out whole:

- *USB device, Xbox GIP, base modes*: phase machines against a host and a controller that are outside
  the tree; what they do to the services (claims, restarts, resets) is in the modules of those services.
- *Shifter, cooling, scripts, profiles*: one actor in one loop, without interleaving; unit tests reach them.

Not to be modelled: byte layouts, glyphs, display pages, value ranges and arithmetic of the drive
and of the force-feedback operations (data without protocol state, which unit tests reach, or
fixed-point arithmetic that TLC does not), and register access in the platform drivers.

## 8. Plan

Stages 1 to 9 are built. What is left, the most valuable first.

| Stage | Modules | What they show | Proofs to do |
|---|---|---|---|
| 1-3 | `SettingsStore`, `SettingsJournal`, `RemoteCall`, `SerialLink`, `CommandTransport` | built | built, but for `SerialLink`: `CallSpec` for calls of one frame each way |
| 4 | `MotorChannel` | built | built |
| 5 | `MotorLink` | built | built |
| 6 | `SettingsSave` | built | built |
| 7 | `WheelSession` | built | built |
| 8 | `AuxBus` | built | built |
| 9 | `PedalService` | built | built |
| 10 | the updater's client and the bridge in `CommandTransport`, the base-mode recovery | an owner chosen by the host | extend `SafeInv` |

## 9. Using the project

In this directory: `tlc -config MCSettingsJournal.cfg MCSettingsJournal` (the runs of
`PROJECT.json` name module and configuration), `tlapm SettingsProofs.tla`,
and likewise for the seven other modules named `...Proofs`. The longest runs take about two minutes, the proofs about
the pedals five.
