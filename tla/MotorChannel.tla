---------------------------- MODULE MotorChannel ----------------------------
(***************************************************************************)
(* The motor command channel (motor/command_channel.c with its sequence,     *)
(* receiver and scheduler) on the remote mailbox it polls                    *)
(* (command_channel_mailbox.c, command_mailbox.c), the USB service that      *)
(* feeds it (usb/motor_vendor_service.c), and the startups of a wheel, of    *)
(* Xbox and of the recovery, which reset the channel and use it in place of   *)
(* that service (motor/command_startup_service.c, firmware.c).  A step is    *)
(* one call: a run of the mailbox in a pass of the main loop, or a report of *)
(* the host; the request that a startup sends at the end of its run, and its *)
(* end, are steps of their own.                                             *)
(*                                                                         *)
(* The peer behind the mailbox is not in the repository: it may send any     *)
(* packet at any time.  The shared transport is free whenever the mailbox    *)
(* owns it (CommandTransport is about the sharing).                          *)
(***************************************************************************)
EXTENDS Naturals

CONSTANTS
    RetryLimit,      \* MOTOR_COMMAND_SCHEDULER_RETRY_LIMIT: 2
    SentinelLimit,   \* erased control records tolerated in a row: 9
    MaxCommands,     \* bound on the commands of the host and the requests of the startups
    MaxEvents        \* bound on packets of the peer, failed transfers, odd control records,
                     \* startups and resets of a recovery

ASSUME ChannelAssumption ==
    /\ RetryLimit \in Nat \ {0} /\ SentinelLimit \in Nat
    /\ MaxCommands \in Nat /\ MaxEvents \in Nat

VARIABLES
    channel,   \* MotorCommandChannel with the retry count of its scheduler
    control,   \* its control_packet
    exchange,  \* MotorCommandMailboxExchange
    carried,   \* the packet the transport copied for the write under way
    owned,     \* does the mailbox own the transport?
    deferred,  \* pending_payload of UsbMotorVendorService: a command, or 0
    response,  \* its response_active
    startup,   \* MotorCommandStartupService of the startup that runs in its place
    handed,    \* the last command packet the mailbox took, for the properties
    commands, events

client == <<owned, deferred, response, startup>>
bounds == <<commands, events>>
vars == <<channel, control, exchange, carried, client, handed, bounds>>

----------------------------------------------------------------------------
(* Packets.  A command is its number in the order they are sent. *)

Command == 1 .. MaxCommands
Number == 0 .. 3                        \* MOTOR_COMMAND_SEQUENCE_MASK
Packet(kind, id, number) == [kind |-> kind, id |-> id, number |-> number]
NoPacket == Packet("none", 0, 0)
ResetPacket == Packet("reset", 0, 0)

\* The encoded length tells commands from each other and from a control packet: no two are as long.
Length(p) == p.id

Previous(n) == (n + 3) % 4

CommandPacket(c) == Packet("command", c.pending, c.number)

InitChannel == [transmit |-> NoPacket, pending |-> 0, sent |-> FALSE, reset |-> FALSE,
                retries |-> 0, repeats |-> 0, number |-> 0]
InitExchange == [phase |-> "control", slot |-> "none", length |-> 0,
                 erased |-> 0, retried |-> FALSE]

Init == /\ channel = InitChannel /\ control = NoPacket /\ exchange = InitExchange
        /\ carried = NoPacket /\ owned = FALSE /\ deferred = 0 /\ response = FALSE
        /\ startup = "off"
        /\ handed = NoPacket /\ commands = 0 /\ events = 0

----------------------------------------------------------------------------
(* motor/command_channel.c *)

Busy(c) == c.pending # 0 \/ c.reset

\* motor_command_channel_queue_payload, when the channel is not busy
Queued(c, id) ==
    LET next == [c EXCEPT !.pending = id, !.sent = FALSE, !.number = (@ + 1) % 4,
                          !.retries = 0, !.repeats = 0]
    IN  [next EXCEPT !.transmit = CommandPacket(next)]

\* motor_command_channel_queue_sequence_reset, when the channel is not busy
Resetting(c) == [c EXCEPT !.transmit = ResetPacket, !.reset = TRUE]

\* motor_command_channel_requeue_pending
Requeued(c) == [c EXCEPT !.sent = FALSE, !.transmit = CommandPacket(c)]

\* motor_command_channel_queue_recovery_command
Recovering(c) == c.pending # 0 /\ ~c.reset
Recovered(c) == [c EXCEPT !.transmit = ResetPacket, !.reset = TRUE, !.retries = 0, !.sent = FALSE]

\* Broken variant: any packet of the channel counts as the command.
MarkedAny(c, slot) ==
    CASE c.reset -> [c EXCEPT !.reset = FALSE, !.sent = c.pending # 0,
                              !.transmit = IF c.pending # 0 THEN CommandPacket(c) ELSE NoPacket]
      [] ~c.reset /\ c.pending # 0 -> [c EXCEPT !.sent = TRUE]
      [] OTHER -> c

\* motor_command_channel_mark_written
Marked(c, slot) ==
    CASE slot = "transmit" /\ c.reset ->
             [c EXCEPT !.reset = FALSE,
                       !.transmit = IF c.pending # 0 THEN CommandPacket(c) ELSE NoPacket]
      [] slot = "transmit" /\ ~c.reset /\ c.pending # 0 -> [c EXCEPT !.sent = TRUE]
      [] OTHER -> c

Answered(c) == IF c.sent THEN [c EXCEPT !.pending = 0, !.sent = FALSE] ELSE c

\* motor_command_channel_accept: the new channel, the packet to write and a response for the host.
Outcome(c, write) == [channel |-> c, write |-> write, control |-> control, response |-> FALSE]
Controlled(c, kind, forward) ==
    [channel |-> c, write |-> "control", control |-> Packet(kind, 0, 0), response |-> forward]

AcceptAck(c, n) ==
    IF n = Previous(c.number) THEN Outcome(Answered([c EXCEPT !.retries = 0]), "none")
    ELSE LET back == [c EXCEPT !.retries = 0, !.number = Previous(@)]
         IN  IF c.pending # 0 THEN Outcome(Requeued(back), "transmit") ELSE Outcome(back, "none")

AcceptRetry(c, n) ==
    LET set == [c EXCEPT !.number = n]
    IN  CASE c.pending = 0 /\ c.reset -> Outcome(set, "none")
          [] c.pending = 0 /\ ~c.reset -> Outcome(Resetting(set), "transmit")
          [] c.pending # 0 /\ c.retries <= 1 -> Outcome(Requeued(set), "transmit")
          [] c.pending # 0 /\ c.retries > 1 ->
                 IF Recovering(set) THEN Outcome(Recovered(set), "transmit") ELSE Outcome(set, "none")

\* The second reset in a row is answered with one of our own.  (Retries count on past two.)
AcceptReset(c) ==
    LET start == [c EXCEPT !.number = 0, !.repeats = 0,
                           !.retries = IF c.pending = 0 THEN 0 ELSE IF @ < 2 THEN @ + 1 ELSE @]
    IN  CASE c.pending = 0 -> Outcome(start, "none")
          [] c.pending # 0 /\ start.retries <= 1 -> Outcome(Requeued(start), "transmit")
          [] c.pending # 0 /\ start.retries > 1 ->
                 IF Recovering(start) THEN Outcome(Recovered(start), "transmit")
                 ELSE Outcome(start, "none")

\* A packet that fails a check, or a message that cannot be decoded (the count of retries is
\* cleared before the decoding), leaves the sequence alone.
AcceptInvalid(c, decoding) ==
    Controlled(IF decoding THEN [c EXCEPT !.retries = 0] ELSE c, "retry", FALSE)

\* A message or a part of one is acknowledged, and answers the command on its own.
AcceptPayload(c, forward) == Controlled(Answered([c EXCEPT !.retries = 0]), "ack", forward)

\* Whatever the peer sends: its number is free.
Accepted(c) == {AcceptAck(c, n) : n \in Number} \cup {AcceptRetry(c, n) : n \in Number}
               \cup {AcceptInvalid(c, decoding) : decoding \in BOOLEAN}
               \cup {AcceptPayload(c, forward) : forward \in BOOLEAN} \cup {AcceptReset(c)}

----------------------------------------------------------------------------
(* motor/command_mailbox.c and command_channel_mailbox.c *)

PacketIn(slot, c) == IF slot = "transmit" THEN c.transmit ELSE NoPacket

CanEnqueue(e, slot) == e.slot = "none" \/ (e.slot = slot /\ e.phase # "writeWait")

\* motor_command_mailbox_exchange_queue, given the channel whose packet it is
Enqueued(e, slot, c) == [e EXCEPT !.slot = slot, !.length = Length(PacketIn(slot, c))]

Enqueue(e, slot, c) == IF CanEnqueue(e, slot) THEN Enqueued(e, slot, c) ELSE e

\* queue_channel_packet: a control packet goes before one of the channel that waits.
QueuedFirst(e, slot, c) ==
    IF e.slot \in {"none", slot} THEN Enqueue(e, slot, c)
    ELSE IF e.slot = "transmit" /\ Busy(c) THEN Enqueued([e EXCEPT !.slot = "none"], slot, c)
    ELSE e

\* Broken variant: only a reset is queued on its own.
WithPendingReset(e, c) ==
    IF e.phase = "control" /\ e.slot = "none" /\ c.reset THEN Enqueue(e, "transmit", c) ELSE e

\* queue_pending_packet
WithPending(e, c) ==
    IF e.phase = "control" /\ e.slot = "none" /\ (c.reset \/ (c.pending # 0 /\ ~c.sent))
    THEN Enqueue(e, "transmit", c) ELSE e

Awaiting(c) == c.pending # 0 /\ c.sent

\* Broken variant: the count of the scheduler survives a requeue.
ScheduledCounting(c, fires) ==
    IF Awaiting(c) /\ fires
    THEN IF c.repeats < RetryLimit THEN Requeued([c EXCEPT !.repeats = @ + 1])
         ELSE Recovered([c EXCEPT !.repeats = 1])
    ELSE c

\* service_scheduler: it counts only while the command is marked sent.
Scheduled(c, fires) ==
    CASE ~Awaiting(c) -> [c EXCEPT !.repeats = 0]
      [] Awaiting(c) /\ ~fires -> c
      [] Awaiting(c) /\ fires ->
             IF c.repeats < RetryLimit THEN Requeued([c EXCEPT !.repeats = @ + 1])
             ELSE Recovered([c EXCEPT !.repeats = 1])

\* The exchange goes back to asking for a control record.
Asking(e) == [e EXCEPT !.phase = "control"]

Event == events < MaxEvents /\ events' = events + 1

\* motor_command_mailbox_exchange_run and what its caller makes of it, from channel c and exchange e
Asks(c, e) ==
    /\ e.phase = "control"
    /\ exchange' = [e EXCEPT !.phase = "controlWait"] /\ channel' = c
    /\ UNCHANGED <<control, carried, owned, response, handed, events>>

StillBusy(c, e) == /\ e.phase # "control" /\ channel' = c /\ exchange' = e
                   /\ UNCHANGED <<control, carried, owned, response, handed, events>>

\* transfer_failure: a write is tried again, a read asks the peer for the packet again.
Fails(c, e) ==
    /\ e.phase # "control" /\ Event
    /\ LET again == e.slot = "transmit" /\ ~c.reset /\ c.pending # 0
           kept == IF e.phase = "writeWait" /\ again THEN Requeued(c) ELSE c
       IN  /\ channel' = kept
           /\ exchange' = CASE e.phase = "readWait" -> QueuedFirst(Asking(e), "control", c)
                            [] OTHER -> Asking(e)
           /\ control' = IF e.phase = "readWait" THEN Packet("retry", 0, 0) ELSE control
    /\ UNCHANGED <<carried, owned, response, handed>>

\* A control record read as all ones: too many of them in a row give everything up.
Erased(c, e) ==
    /\ e.phase = "controlWait" /\ Event
    /\ IF e.erased < SentinelLimit
       THEN /\ exchange' = [Asking(e) EXCEPT !.erased = @ + 1] /\ channel' = c /\ UNCHANGED owned
       ELSE /\ exchange' = InitExchange /\ channel' = InitChannel /\ owned' = FALSE
    /\ UNCHANGED <<control, carried, response, handed>>

\* The second record in a row that asks for patience makes the base read the status.
Patience(c, e) ==
    /\ e.phase = "controlWait" /\ Event
    /\ exchange' = [e EXCEPT !.erased = 0, !.retried = ~@,
                             !.phase = IF e.retried THEN "statusWait" ELSE "control"]
    /\ channel' = c
    /\ UNCHANGED <<control, carried, owned, response, handed>>

Calm(e) == [e EXCEPT !.erased = 0, !.retried = FALSE]

\* A packet of the peer is read first, unless it is too long.
Announces(c, e) ==
    /\ e.phase = "controlWait" /\ Event
    /\ \E phase \in {"readWait", "control"} : exchange' = [Calm(e) EXCEPT !.phase = phase]
    /\ channel' = c
    /\ UNCHANGED <<control, carried, owned, response, handed>>

Turn(c, e) ==
    /\ e.phase = "controlWait" /\ channel' = c
    /\ IF e.slot = "none" THEN exchange' = Asking(Calm(e)) /\ UNCHANGED carried
       ELSE /\ exchange' = [Calm(e) EXCEPT !.phase = "writeWait"]
            /\ carried' = IF e.slot = "control" THEN control ELSE c.transmit
    /\ UNCHANGED <<control, owned, response, handed, events>>

ReadsStatus(c, e) == /\ e.phase = "statusWait" /\ exchange' = Asking(e) /\ channel' = c
                     /\ UNCHANGED <<control, carried, owned, response, handed, events>>

\* PACKET_WRITTEN: behind a control packet a waiting packet of the channel is next.
Written(c, e) ==
    /\ e.phase = "writeWait"
    /\ LET m == Marked(c, e.slot)
           free == [Asking(e) EXCEPT !.slot = "none", !.length = 0]
           waiting == m.reset \/ (m.pending # 0 /\ ~m.sent)
       IN  /\ channel' = m
           /\ exchange' = IF waiting /\ e.slot = "control" THEN Enqueue(free, "transmit", m)
                          ELSE free
    /\ handed' = IF carried.kind = "command" THEN carried ELSE handed
    /\ UNCHANGED <<control, carried, owned, response, events>>

\* PACKET_READ; apply_channel_event keeps one response at a time, a startup keeps none.
ReadsPacket(c, e) ==
    /\ e.phase = "readWait"
    /\ \E o \in Accepted(c) :
           /\ channel' = o.channel /\ control' = o.control
           /\ exchange' = IF o.write = "none" THEN Asking(e)
                          ELSE QueuedFirst(Asking(e), o.write, o.channel)
           /\ response' = (response \/ (startup = "off" /\ o.response))
    /\ UNCHANGED <<carried, owned, handed, events>>

Outcomes(c, e) == \/ Asks(c, e) \/ StillBusy(c, e) \/ Fails(c, e)
                  \/ Erased(c, e) \/ Patience(c, e) \/ Announces(c, e) \/ Turn(c, e)
                  \/ ReadsStatus(c, e) \/ Written(c, e) \/ ReadsPacket(c, e)

----------------------------------------------------------------------------
(* usb/motor_vendor_service.c *)

\* Broken variant: the mailbox runs whether or not the deferred upload could be queued.
StallsNever == FALSE

\* A run of the mailbox on channel c, if it owns the transport.
MailboxRuns(c, fires) ==
    /\ owned
    /\ LET scheduled == Scheduled(c, fires)
       IN  Outcomes(scheduled, WithPending(exchange, scheduled))
    /\ UNCHANGED <<commands, startup>>

\* usb_motor_vendor_service_run_mailbox gives up while the deferred upload cannot be queued.
Stalls == deferred # 0 /\ ~response /\ Busy(channel)

\* The channel the mailbox runs on, after a deferred upload has been queued.
Fed == IF deferred # 0 /\ ~response /\ ~Busy(channel) THEN Queued(channel, deferred) ELSE channel

Run(fires) ==
    /\ startup = "off" /\ ~Stalls
    /\ MailboxRuns(Fed, fires)
    /\ deferred' = IF response \/ Busy(channel) THEN deferred ELSE 0

RunMailbox == Run(FALSE)

\* accept_usb_motor_report with a report of the host: it claims the transport.
Report == owned' = TRUE /\ UNCHANGED <<control, carried, response, startup, handed, events>>

Swallowed == response \/ deferred # 0

\* A response or a deferred upload keeps the report from being looked at, whatever it says; the
\* deferred upload is queued at this chance.
SwallowReport ==
    /\ Report /\ Swallowed
    /\ IF ~response /\ ~Busy(channel)
       THEN /\ channel' = Queued(channel, deferred) /\ deferred' = 0
            /\ exchange' = Enqueue(exchange, "transmit", channel')
       ELSE UNCHANGED <<channel, deferred, exchange>>
    /\ UNCHANGED commands

\* A complete command: one that the channel has no room for is dropped, or deferred if it came in
\* segments.
SendCommand ==
    /\ Report /\ ~Swallowed /\ commands < MaxCommands
    /\ commands' = commands + 1
    /\ IF ~Busy(channel)
       THEN /\ channel' = Queued(channel, commands')
            /\ exchange' = Enqueue(exchange, "transmit", channel')
            /\ UNCHANGED deferred
       ELSE /\ deferred' \in {0, commands'}
            /\ UNCHANGED <<channel, exchange>>

Restart == /\ Report /\ ~Swallowed
           /\ channel' = InitChannel /\ exchange' = InitExchange
           /\ UNCHANGED <<deferred, commands>>

Release == /\ ~Swallowed /\ owned' = FALSE
           /\ channel' = InitChannel /\ exchange' = InitExchange
           /\ UNCHANGED <<control, carried, response, startup, handed, events, deferred, commands>>

\* usb_motor_vendor_service_next_response, with the last packet
TakeResponse == /\ response /\ response' = FALSE
                /\ UNCHANGED <<channel, control, exchange, carried, owned, deferred, startup,
                                handed, bounds>>

Host == SwallowReport \/ SendCommand \/ Restart \/ Release \/ TakeResponse

----------------------------------------------------------------------------
(* The startups (motor/command_startup_service.c and firmware.c): of a wheel  *)
(* with status memory, of Xbox, and of the recovery.  Their owner is that of  *)
(* the mailbox.  While one is active the vendor service does not run the     *)
(* mailbox, and a wheel's lets the host's reports through.                   *)

Beside == UNCHANGED <<control, carried, deferred, response, handed>>

\* The channel and the exchange are reset and the transport released, whatever they were doing.
\* A deferred upload stays, and finds room.
Dropped == /\ channel' = InitChannel /\ exchange' = InitExchange /\ owned' = FALSE
           /\ Beside /\ UNCHANGED commands

\* The release is the startup's first step, in the same call.
StartupBegins == startup = "off" /\ Event /\ Dropped /\ startup' = "claims"

StartupClaims == /\ startup = "claims" /\ startup' = "reads" /\ owned' = TRUE
                 /\ Beside /\ UNCHANGED <<channel, exchange, bounds>>

\* A request is queued in a channel and an exchange that have room for it; otherwise the startup fails.
StartupSends(c) ==
    /\ ~Busy(channel) /\ CanEnqueue(exchange, "transmit")
    /\ channel' = c /\ exchange' = Enqueued(exchange, "transmit", c)
    /\ Beside /\ UNCHANGED <<owned, events>>

\* The length record has been read.
StartupResets == /\ startup = "reads" /\ startup' = "runs"
                 /\ StartupSends(Resetting(channel)) /\ UNCHANGED commands

\* The digest, then twice an information.
StartupAsks == /\ startup = "runs" /\ commands < MaxCommands /\ commands' = commands + 1
               /\ StartupSends(Queued(channel, commands')) /\ UNCHANGED startup

\* It runs the mailbox whether or not an upload is deferred, and queues no upload.
StartupRun(fires) == startup = "runs" /\ MailboxRuns(channel, fires) /\ UNCHANGED deferred

StartupRuns == StartupRun(FALSE)

\* The last answer came some passes ago: nothing is reset, and the host may have sent a command since.
\* How many answers it still lacked is not followed.
StartupFinishes == /\ startup = "runs" /\ exchange.phase = "control" /\ startup' = "off"
                   /\ owned' = FALSE
                   /\ Beside /\ UNCHANGED <<channel, exchange, bounds>>

\* It failed, its deadline passed, or its wheel is gone.
StartupFails == startup # "off" /\ Dropped /\ startup' = "off" /\ UNCHANGED events

\* The wheel was changed during the startup of Xbox: it is forgotten, with what it has queued.
StartupForgotten == /\ startup # "off" /\ startup' = "off"
                    /\ Beside /\ UNCHANGED <<channel, exchange, owned, bounds>>

\* The recovery falls back to native mode, some time after its own startup.
RecoveryResets == Event /\ Dropped /\ UNCHANGED startup

StartupPass == StartupClaims \/ StartupResets \/ StartupRuns \/ StartupFails

Startup == \/ StartupBegins \/ StartupPass \/ StartupAsks \/ StartupFinishes
           \/ StartupForgotten \/ RecoveryResets

Timeout == Awaiting(channel) /\ (Run(TRUE) \/ StartupRun(TRUE))

Next == RunMailbox \/ Timeout \/ Host \/ Startup

\* The main loop runs the mailbox for ever, and every request to the transport ends; a startup that
\* has the transport goes on.
Spec == Init /\ [][Next]_vars /\ WF_vars(RunMailbox) /\ WF_vars(owned /\ StartupPass)

----------------------------------------------------------------------------
(* Properties *)

CommandOrNone == 0 .. MaxCommands
Retries == 0 .. 2
Repeats == 0 .. RetryLimit
ErasedCount == 0 .. SentinelLimit

AnyPacket == [kind : {"none", "reset", "retry", "ack", "command"}, id : CommandOrNone,
              number : Number]

ChannelType == [transmit : AnyPacket, pending : CommandOrNone, sent : BOOLEAN, reset : BOOLEAN,
                retries : Retries, repeats : Repeats, number : Number]

ExchangeType == [phase : {"control", "controlWait", "readWait", "writeWait", "statusWait"},
                 slot : {"none", "transmit", "control"}, length : CommandOrNone,
                 erased : ErasedCount, retried : BOOLEAN]

\* The channel, the exchange, their service and the startup are well typed, and only a queued packet
\* is written.
TypeOK ==
    /\ channel \in ChannelType /\ exchange \in ExchangeType
    /\ control \in AnyPacket /\ carried \in AnyPacket /\ handed \in AnyPacket
    /\ owned \in BOOLEAN /\ response \in BOOLEAN /\ deferred \in CommandOrNone
    /\ startup \in {"off", "claims", "reads", "runs"}
    /\ commands \in CommandOrNone /\ events \in 0 .. MaxEvents
    /\ exchange.phase = "writeWait" => exchange.slot # "none"

\* A command waits for its answer only when the mailbox has taken this very packet, number
\* included: neither a control packet, nor a reset, nor an earlier command counts as its write.  And
\* the packet the mailbox holds is one the channel still wants written, with the length it has now
\* although the channel rebuilds it in the same buffer, which does not change during the write.
WritesAreOwn ==
    /\ channel.sent => handed = CommandPacket(channel)
    /\ exchange.slot = "transmit" =>
          /\ Busy(channel)
          /\ exchange.length = Length(channel.transmit)
          /\ exchange.phase = "writeWait" => carried = channel.transmit

\* The count of the scheduler never reaches its limit: a command without an answer is repeated for
\* ever, and the sequence reset meant for it is never sent on this account.
WatchdogNeverResets == channel.repeats <= 1

\* A segmented upload was deferred, the channel has no room for it, and no startup has the mailbox.
Stalled == startup = "off" /\ deferred # 0 /\ Busy(channel)

\* A segmented upload that was deferred is not taken until a startup begins or a recovery resets the
\* channel: the vendor service does not run the mailbox until the channel has room, otherwise the
\* channel gets room only by running the mailbox, and no report of the host, restart and release
\* included, is looked at.  Not even those resets lose the upload.
DeferredStalls ==
    [][Stalled => /\ UNCHANGED deferred
                  /\ UNCHANGED <<channel, exchange>> \/ StartupBegins \/ RecoveryResets]_vars

\* Otherwise every command is written, through failed transfers, control packets that go first,
\* resets of the peer, repeats and startups.  A startup that ends releases the transport: a command
\* that the host sent in its last passes waits for the host's next report.
PendingIsSent ==
    \A k \in Command :
        channel.pending = k ~> channel.sent \/ channel.pending # k \/ deferred # 0 \/ ~owned
=============================================================================
