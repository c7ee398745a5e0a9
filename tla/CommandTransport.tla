-------------------------- MODULE CommandTransport --------------------------
(***************************************************************************)
(* The command transport of transfer/command.c, carried as message type     *)
(* four by the serial service (motor/command_serial.c), and the clients     *)
(* that share it: the wheel transfer handshake (owner 0x30) and the         *)
(* accessory service (0x44), which wait for their answers without limit,    *)
(* the adapter commands (0x42) and the command forwarder (0x41), which give *)
(* up, and the motor mailbox (0x20), which the USB host may restart or      *)
(* release at any time, and which the startup of a wheel with status memory *)
(* takes for itself.  The clients run one after the other in every pass of  *)
(* the main loop, unless such a startup runs in their place.                *)
(***************************************************************************)
EXTENDS Naturals

CONSTANTS
    WaitLimit,      \* WHEEL_COMMAND_FORWARDER_WAIT_LIMIT and WHEEL_ADAPTER_COMMAND_WAIT_LIMIT: 500
    ControlLimit    \* erased control records the mailbox retries: 9

Clients == {"transfer", "accessory", "adapter", "forwarder", "mailbox"}

ASSUME CommandAssumption == WaitLimit \in Nat /\ ControlLimit \in Nat

VARIABLES
    transport,  \* CommandTransport
    serial,     \* who uses the serial service
    startup,    \* MotorCommandStartupService of the wheel-mode startup
    transfer,   \* WheelTransferService
    accessory,  \* WheelAccessoryService: the transfer it waits for
    adapter,    \* WheelAdapterCommandService
    forwarder,  \* WheelCommandForwarder
    mailbox,    \* MotorCommandMailboxExchange
    pc          \* where the main loop is

wheel == <<transfer, accessory, adapter, forwarder>>
clients == <<wheel, mailbox>>
vars == <<transport, serial, startup, clients, pc>>

----------------------------------------------------------------------------
(* The transport.  Whether a write or a read was rejected only words a      *)
(* status, so the latched completion is complete or not.  What has become   *)
(* of the request is followed for the properties.                           *)

InitTransport == [owner |-> "none", phase |-> "idle", kind |-> "none", complete |-> TRUE,
                  request |-> "new"]

Claimed(t, o) == [t EXCEPT !.owner = IF @ = "none" THEN o ELSE @]

\* A release by the owner aborts its request and clears the latched completion.
Released(t, o) == IF t.owner = o THEN InitTransport ELSE t

\* command_transport_poll answers anything but busy.
CanPoll(t, o) == t.owner \in {"none", o} /\ t.phase = "idle"

Polled(t) == [t EXCEPT !.complete = TRUE]

Queued(t, kind) == [t EXCEPT !.phase = "queued", !.kind = kind, !.request = "new"]

Ended(t, ok) == [t EXCEPT !.phase = "idle", !.kind = "none", !.complete = ok]

Failed(t) == IF t.phase = "pending" THEN Ended(t, FALSE) ELSE t

Accepted(t) == [Ended(t, t.complete) EXCEPT !.request = IF @ = "sent" THEN "accepted" ELSE @]

\* Broken variant: an answer nobody waits for is dropped without a trace.
ReceivedQuietly(t, outcome) ==
    CASE t.phase # "pending" -> Ended(t, t.complete)
      [] t.phase = "pending" /\ outcome = "accepted" -> Accepted(t)
      [] t.phase = "pending" /\ outcome = "rejected" -> Ended(t, FALSE)
      [] OTHER -> t

\* command_transport_receive: the answer to a request that was given up rejects what is there now.
Received(t, outcome) ==
    CASE t.phase # "pending" -> Ended(t, FALSE)
      [] t.phase = "pending" /\ outcome = "accepted" -> Accepted(t)
      [] t.phase = "pending" /\ outcome = "rejected" -> Ended(t, FALSE)
      [] OTHER -> t

----------------------------------------------------------------------------
(* The serial service *)

Receive == pc = "receive" /\ pc' = "startup" /\ UNCHANGED <<startup, clients>>

\* Nothing was sent, or the exchange is still under way.
ReceiveNothing == Receive /\ UNCHANGED <<transport, serial>>

\* motor_command_serial_receive, once the exchange ended with an answer or without one.
ReceiveAnswer ==
    /\ Receive /\ serial = "command" /\ serial' = "idle"
    /\ \/ transport' = Failed(transport)
       \/ \E outcome \in {"accepted", "rejected", "malformed"} :
            transport' = Received(transport, outcome)

Submitted == [transport EXCEPT !.phase = "pending", !.request = "sent"]

\* Broken variant: a request that is already pending is submitted again.
SubmitAgain ==
    /\ \/ pc = "submit" /\ pc' = "poll"
       \/ pc = "resubmit" /\ pc' = "usb"
    /\ IF serial = "idle" /\ transport.phase # "idle"
       THEN transport' = Submitted /\ serial' = "command"
       ELSE UNCHANGED <<transport, serial>>
    /\ UNCHANGED <<startup, clients>>

\* motor_command_serial_submit, behind the clients and again at the end of the pass.
Submit ==
    /\ \/ pc = "submit" /\ pc' = "poll"
       \/ pc = "resubmit" /\ pc' = "usb"
    /\ IF serial = "idle" /\ transport.phase = "queued"
       THEN transport' = Submitted /\ serial' = "command"
       ELSE UNCHANGED <<transport, serial>>
    /\ UNCHANGED <<startup, clients>>

\* Broken variant: polls do not wait for the command.
WaitingIgnored == FALSE

\* serial_command_waiting
Waiting == transport.phase = "queued"

Poll == pc = "poll" /\ pc' = "resubmit" /\ UNCHANGED <<transport, startup, clients>>

\* The wheel and status services let the serial service be, or wait for the end of their poll.
PollWaits == Poll /\ UNCHANGED serial

\* They take the end of their poll, and may start another one.
PollTurns == /\ Poll
             /\ \/ serial = "poll" /\ serial' = "idle"
                \/ serial \in {"idle", "poll"} /\ ~Waiting /\ serial' = "poll"

----------------------------------------------------------------------------
(* The startup of a wheel with status memory: the mailbox's owner is claimed, *)
(* a length record read, and requests exchanged through the mailbox, all in   *)
(* two seconds; no client runs meanwhile.                                     *)

InitMailbox == [phase |-> "controlQueue", write |-> FALSE, erased |-> 0, retried |-> FALSE,
                deferred |-> FALSE]

Startup == pc = "startup" /\ UNCHANGED wheel

StartupOff == /\ Startup /\ startup = "off" /\ pc' = "transfer"
              /\ UNCHANGED <<transport, serial, startup, mailbox>>

StartupStep == Startup /\ pc' = "submit" /\ UNCHANGED serial

\* The channel is reset too, which makes room for an upload that was deferred.
StartupBegins == /\ StartupStep /\ startup = "off" /\ startup' = "claim"
                 /\ mailbox' = InitMailbox
                 /\ transport' = Released(transport, "mailbox")

\* Broken variant: the other clients go on while the startup waits for the transport.
StartupAsksInTurn == /\ Startup /\ startup = "claim" /\ pc' = "transfer"
                     /\ transport' = Claimed(transport, "mailbox")
                     /\ startup' = IF transport'.owner = "mailbox" THEN "read" ELSE "claim"
                     /\ UNCHANGED <<serial, mailbox>>

StartupClaims == /\ StartupStep /\ startup = "claim"
                 /\ transport' = Claimed(transport, "mailbox")
                 /\ startup' = IF transport'.owner = "mailbox" THEN "read" ELSE "claim"
                 /\ UNCHANGED mailbox

\* The record is read for nobody if the host has just released the transport.
StartupReads == /\ StartupStep /\ startup = "read"
                /\ CanPoll(transport, "mailbox")
                /\ transport' = Queued(Polled(transport), "length")
                /\ startup' = "status"
                /\ UNCHANGED mailbox

\* Whatever the answer, the first request is handed to the mailbox.
StartupReady == /\ StartupStep /\ startup = "status"
                /\ IF CanPoll(transport, "mailbox")
                   THEN /\ transport' = Polled(transport)
                        /\ startup' = "runs"
                        /\ mailbox' = [mailbox EXCEPT !.write = TRUE]
                   ELSE UNCHANGED <<transport, startup, mailbox>>

\* The last answer came, two passes ago: an upload that was deferred meanwhile finds room in the
\* channel, unless it was deferred behind a command that the host sent since.
StartupFinishes == /\ Startup /\ startup = "runs" /\ mailbox.phase = "controlQueue"
                   /\ startup' = "off" /\ pc' = "transfer"
                   /\ transport' = Released(transport, "mailbox")
                   /\ \E deferred \in {FALSE, mailbox.deferred} :
                          mailbox' = [mailbox EXCEPT !.deferred = deferred]
                   /\ UNCHANGED serial

\* What the pass that fails has done to the transport before: nothing if the wheel is gone, or the
\* turn of the startup.
FailingTurn ==
    CASE startup = "claim" -> Claimed(transport, "mailbox")
      [] startup = "read" /\ CanPoll(transport, "mailbox") /\ transport.complete ->
           Queued(Polled(transport), "length")
      [] startup = "read" /\ CanPoll(transport, "mailbox") /\ ~transport.complete -> Polled(transport)
      [] startup = "status" /\ CanPoll(transport, "mailbox") -> Polled(transport)
      [] OTHER -> transport

\* A failure, or the deadline: the exchange is cancelled, whosever it is.
StartupFails == /\ Startup /\ startup # "off"
                /\ startup' = "off" /\ pc' = "transfer"
                /\ serial' = "idle"
                /\ mailbox' = InitMailbox
                /\ \E t \in {transport, FailingTurn} : transport' = Released(t, "mailbox")

----------------------------------------------------------------------------
(* The wheel transfer handshake: a write, then a read *)

Finish(t) == transfer' = "idle" /\ transport' = Released(t, "transfer")

Transfer == /\ pc = "transfer" /\ pc' = "accessory"
            /\ UNCHANGED <<serial, startup, accessory, adapter, forwarder, mailbox>>

TransferBusy == /\ Transfer
                /\ transfer = "idle" \/ ~CanPoll(transport, "transfer")
                /\ UNCHANGED <<transport, transfer>>

\* A rejection: the owner's own, or one an unowned transport has latched.
TransferRejected ==
    /\ Transfer /\ transfer # "idle" /\ CanPoll(transport, "transfer") /\ ~transport.complete
    /\ IF transport.owner = "transfer" THEN Finish(Polled(transport))
       ELSE transport' = Polled(transport) /\ UNCHANGED transfer

TransferAdvances ==
    LET t == Claimed(Polled(transport), "transfer")
    IN  /\ Transfer /\ CanPoll(transport, "transfer") /\ transport.complete
        /\ \/ transfer = "writeReady" /\ transfer' = "writePending" /\ transport' = Queued(t, "write")
           \/ transfer = "writePending" /\ transfer' = "readReady" /\ transport' = t
           \/ transfer = "readReady" /\ transfer' = "readPending" /\ transport' = Queued(t, "read")
           \/ transfer = "readPending" /\ Finish(t)

----------------------------------------------------------------------------
(* The accessory service: one read or write after the other, whatever their *)
(* results; between two of them the transport is free.                      *)

Accessory == /\ pc = "accessory" /\ pc' = "adapter"
             /\ UNCHANGED <<serial, startup, transfer, adapter, forwarder, mailbox>>

\* finish_request
AccessoryEnds ==
    /\ Accessory /\ accessory # "none"
    /\ IF CanPoll(transport, "accessory")
       THEN accessory' = "none" /\ transport' = Released(Polled(transport), "accessory")
       ELSE UNCHANGED <<accessory, transport>>

\* queue_next_request, or nothing to ask for, once the transport is its own.
AccessoryAsks ==
    LET t == Claimed(transport, "accessory")
    IN  /\ Accessory /\ accessory = "none"
        /\ \/ /\ ~CanPoll(t, "accessory")
              /\ transport' = t /\ UNCHANGED accessory
           \/ /\ CanPoll(t, "accessory")
              /\ transport' = Released(t, "accessory") /\ UNCHANGED accessory
           \/ /\ CanPoll(t, "accessory") /\ t.complete
              /\ \E kind \in {"write", "read"} :
                   accessory' = kind /\ transport' = Queued(t, kind)

----------------------------------------------------------------------------
(* The adapter commands: a probe of the endpoint, then reads and writes in a *)
(* row: whenever the transport is its own and idle it has a request.         *)

InitAdapter == [phase |-> "discovering", waits |-> 0]

Adapter == /\ pc = "adapter" /\ pc' = "forwarder"
           /\ UNCHANGED <<serial, startup, transfer, accessory, forwarder, mailbox>>

\* advance_endpoint
Rediscovers(t) == adapter' = InitAdapter /\ transport' = Released(t, "adapter")

\* queue_request
AdapterAsks ==
    LET t == Claimed(transport, "adapter")
    IN  /\ Adapter /\ adapter.phase \in {"discovering", "ready"}
        /\ \/ /\ ~CanPoll(t, "adapter")
              /\ transport' = t /\ UNCHANGED adapter
           \/ /\ CanPoll(t, "adapter") /\ ~t.complete
              /\ Rediscovers(t)
           \/ /\ CanPoll(t, "adapter") /\ t.complete
              /\ \E phase \in {"reading"} \cup (IF adapter.phase = "ready" THEN {"writing"} ELSE {}) :
                   /\ adapter' = [phase |-> phase, waits |-> 0]
                   /\ transport' = Queued(t, IF phase = "reading" THEN "read" ELSE "write")

AdapterWaits == Adapter /\ adapter.phase \in {"reading", "writing"}

\* Broken variant: the transport is kept for the next request.
AdapterKeepsOn ==
    /\ AdapterWaits /\ CanPoll(transport, "adapter")
    /\ IF transport.complete
       THEN adapter' = [phase |-> "ready", waits |-> 0] /\ transport' = Polled(transport)
       ELSE Rediscovers(Polled(transport))

\* finish_request: an idle boundary for the other clients.
AdapterEnds ==
    /\ AdapterWaits /\ CanPoll(transport, "adapter")
    /\ IF transport.complete
       THEN /\ adapter' = [phase |-> "ready", waits |-> 0]
            /\ transport' = Released(Polled(transport), "adapter")
       ELSE Rediscovers(Polled(transport))

AdapterCounts ==
    /\ AdapterWaits /\ ~CanPoll(transport, "adapter")
    /\ IF adapter.waits < WaitLimit
       THEN adapter' = [adapter EXCEPT !.waits = @ + 1] /\ UNCHANGED transport
       ELSE Rediscovers(Failed(transport))

----------------------------------------------------------------------------
(* The forwarder: a probe of one of its endpoints, then writes to it *)

InitForwarder == [phase |-> "probeReady", batch |-> FALSE, waits |-> 0]

Forward == /\ pc = "forwarder" /\ pc' = "mailbox"
           /\ UNCHANGED <<serial, startup, transfer, accessory, adapter, mailbox>>

\* advance_endpoint: the next probe is of the other endpoint.
Advance(f, t) == /\ transport' = Released(t, "forwarder")
                 /\ forwarder' = [f EXCEPT !.phase = "probeReady", !.waits = 0]

\* start_probe and start_write, after a batch may have been queued: the transport copies the batch.
ForwardStarts ==
    /\ Forward /\ forwarder.phase \in {"probeReady", "ready"}
    /\ \E batch \in {forwarder.batch, TRUE} :
         LET f == [forwarder EXCEPT !.batch = batch]
             t == Claimed(transport, "forwarder")
         IN  CASE ~batch \/ ~CanPoll(t, "forwarder") ->
                    /\ forwarder' = f
                    /\ transport' = IF batch THEN t ELSE transport
               [] batch /\ CanPoll(t, "forwarder") /\ ~t.complete -> Advance(f, Polled(t))
               [] batch /\ CanPoll(t, "forwarder") /\ t.complete ->
                    IF f.phase = "probeReady"
                    THEN /\ forwarder' = [f EXCEPT !.phase = "probePending"]
                         /\ transport' = Queued(t, "read")
                    ELSE /\ forwarder' = [f EXCEPT !.phase = "writePending", !.batch = FALSE]
                         /\ transport' = Queued(t, "write")

ForwardWaits == Forward /\ forwarder.phase \in {"probePending", "writePending"}

\* finish_probe and finish_write
ForwardEnds ==
    /\ ForwardWaits /\ CanPoll(transport, "forwarder")
    /\ \E batch \in {forwarder.batch, TRUE} :
         IF transport.complete
         THEN /\ forwarder' = [forwarder EXCEPT !.phase = "ready", !.waits = 0, !.batch = batch]
              /\ transport' = Released(Polled(transport), "forwarder")
         ELSE Advance([forwarder EXCEPT !.batch = batch], Polled(transport))

\* recover_after_timeout
ForwardRecovers ==
    /\ ForwardWaits /\ ~CanPoll(transport, "forwarder")
    /\ \E batch \in {forwarder.batch, TRUE} :
         LET waits == IF forwarder.waits <= WaitLimit THEN forwarder.waits + 1 ELSE forwarder.waits
             f == [forwarder EXCEPT !.waits = waits, !.batch = batch]
             t == IF waits > WaitLimit THEN Failed(transport) ELSE transport
         IN  IF waits > WaitLimit /\ CanPoll(t, "forwarder") THEN Advance(f, Polled(t))
             ELSE forwarder' = f /\ transport' = t

----------------------------------------------------------------------------
(* The mailbox: control records are read until one announces a packet, a     *)
(* status, or room for the packet the channel wants to send                  *)

\* The mailbox is run behind the other clients, or by the startup.
Mail == /\ pc = "mailbox" \/ (pc = "startup" /\ startup = "runs")
        /\ pc' = "submit" /\ UNCHANGED <<serial, startup, wheel>>

\* Outside the startup, the mailbox is not run while a deferred upload waits for room in the
\* channel, which only its run could make (MotorChannel is about that).
Held == transport.owner # "mailbox" \/ (mailbox.deferred /\ pc = "mailbox")

MailboxAway == Mail /\ Held /\ UNCHANGED <<transport, mailbox>>

MailboxRuns == Mail /\ ~Held

\* The channel may hand over a packet before a control record is asked for.
MailboxAsks ==
    /\ MailboxRuns /\ mailbox.phase = "controlQueue"
    /\ \E write \in {mailbox.write, TRUE} :
         LET m == [mailbox EXCEPT !.write = write]
         IN  IF CanPoll(transport, "mailbox")
             THEN /\ mailbox' = [m EXCEPT !.phase = "controlWait"]
                  /\ transport' = Queued(Polled(transport), "read")
             ELSE mailbox' = m /\ UNCHANGED transport

MailboxWaits == MailboxRuns /\ mailbox.phase # "controlQueue"

MailboxBusy == /\ MailboxWaits /\ ~CanPoll(transport, "mailbox")
               /\ UNCHANGED <<transport, mailbox>>

\* transfer_failure: the channel retries a packet that could not be written or read.
MailboxFails ==
    /\ MailboxWaits /\ CanPoll(transport, "mailbox") /\ ~transport.complete
    /\ transport' = Polled(transport)
    /\ \E write \in {mailbox.write, mailbox.phase = "payloadReadWait"} :
         mailbox' = [mailbox EXCEPT !.phase = "controlQueue", !.write = mailbox.write \/ write]

MailboxReady == MailboxWaits /\ CanPoll(transport, "mailbox") /\ transport.complete

MailboxDone ==
    /\ MailboxReady /\ mailbox.phase # "controlWait"
    /\ \E write \in BOOLEAN :
         mailbox' = [mailbox EXCEPT !.phase = "controlQueue",
                                    !.write = write \/ (@ /\ mailbox.phase # "payloadWriteWait")]
    /\ UNCHANGED transport

\* What a control record says, first of all that it is erased.
Control == MailboxReady /\ mailbox.phase = "controlWait"

MailboxErased ==
    /\ Control
    /\ IF mailbox.erased < ControlLimit
       THEN /\ mailbox' = [mailbox EXCEPT !.erased = @ + 1, !.phase = "controlQueue"]
            /\ UNCHANGED transport
       ELSE mailbox' = InitMailbox /\ transport' = Released(transport, "mailbox")

\* The second retry in a row reads the status.
MailboxRetries ==
    /\ Control
    /\ IF mailbox.retried
       THEN /\ mailbox' = [mailbox EXCEPT !.erased = 0, !.retried = FALSE, !.phase = "statusWait"]
            /\ transport' = Queued(transport, "read")
       ELSE /\ mailbox' = [mailbox EXCEPT !.erased = 0, !.retried = TRUE, !.phase = "controlQueue"]
            /\ UNCHANGED transport

\* A packet of the motor is read before one is written; one that is too long is left.
MailboxTurns ==
    /\ Control
    /\ \E packet \in {"none", "fits", "tooLong"} :
         LET phase == CASE packet = "fits" -> "payloadReadWait"
                        [] packet = "none" /\ mailbox.write -> "payloadWriteWait"
                        [] OTHER -> "controlQueue"
         IN  /\ mailbox' = [mailbox EXCEPT !.erased = 0, !.retried = FALSE, !.phase = phase]
             /\ transport' = CASE phase = "payloadReadWait" -> Queued(transport, "read")
                               [] phase = "payloadWriteWait" -> Queued(transport, "write")
                               [] OTHER -> transport

----------------------------------------------------------------------------
(* What USB reports of the host bring, at the start of a pass *)

Usb == pc = "usb" /\ UNCHANGED <<pc, serial, startup, accessory, adapter, forwarder>>

\* wheel_transfer_service_start
HostStartsTransfer == /\ Usb /\ transfer = "idle" /\ transfer' = "writeReady"
                      /\ UNCHANGED <<transport, mailbox>>

\* A report of a motor command claims the transport for the mailbox, unless another client has it.
HostReport == Usb /\ transport.owner \in {"none", "mailbox"} /\ UNCHANGED transfer

\* A command that the report completes is queued.
HostCommand == /\ HostReport /\ ~mailbox.deferred
               /\ transport' = Claimed(transport, "mailbox")
               /\ \E write \in {mailbox.write, TRUE} : mailbox' = [mailbox EXCEPT !.write = write]

\* A segmented command is deferred behind the one the channel has; until it finds room there, no
\* report is looked at.
HostDefers == /\ HostReport /\ transport.owner = "mailbox"
              /\ mailbox' = [mailbox EXCEPT !.deferred = TRUE]
              /\ UNCHANGED transport

\* Such a report claims the transport all the same.
HostSwallowed == /\ HostReport /\ mailbox.deferred
                 /\ transport' = Claimed(transport, "mailbox")
                 /\ UNCHANGED mailbox

\* While the startup runs the mailbox, the channel gets room.
HostQueuesDeferred == /\ HostReport /\ mailbox.deferred /\ startup = "runs"
                      /\ transport' = Claimed(transport, "mailbox")
                      /\ mailbox' = [mailbox EXCEPT !.deferred = FALSE, !.write = TRUE]

\* What an unowned transport holds is cleared with the mailbox's own request.
Cleared == Released(Claimed(transport, "mailbox"), "mailbox")

HostRestart == /\ HostReport /\ ~mailbox.deferred
               /\ transport' = Claimed(Cleared, "mailbox")
               /\ mailbox' = InitMailbox

\* Broken variant: the mailbox is not reset when the host releases the transport.
HostReleaseOnly == /\ HostReport /\ ~mailbox.deferred
                   /\ transport' = Cleared
                   /\ UNCHANGED mailbox

HostRelease == /\ HostReport /\ ~mailbox.deferred
               /\ transport' = Cleared
               /\ mailbox' = InitMailbox

NoReport == /\ pc = "usb" /\ pc' = "receive"
            /\ UNCHANGED <<transport, serial, startup, clients>>

----------------------------------------------------------------------------
Init == /\ transport = InitTransport /\ serial = "idle" /\ startup = "off"
        /\ transfer = "idle" /\ accessory = "none" /\ adapter = InitAdapter
        /\ forwarder = InitForwarder /\ mailbox = InitMailbox /\ pc = "usb"

Host == \/ HostStartsTransfer \/ HostCommand \/ HostDefers \/ HostSwallowed
        \/ HostQueuesDeferred \/ HostRestart \/ HostRelease

Mailbox == \/ MailboxAway \/ MailboxAsks \/ MailboxBusy \/ MailboxFails \/ MailboxDone
           \/ MailboxErased \/ MailboxRetries \/ MailboxTurns

Begins == \/ StartupOff \/ StartupBegins \/ StartupClaims \/ StartupReads \/ StartupReady
          \/ StartupFinishes \/ StartupFails

\* The steps of a pass, in the order of service_usb_command_bridge and of the main loop behind it.
Pass == \/ NoReport \/ ReceiveNothing \/ ReceiveAnswer
        \/ Begins
        \/ TransferBusy \/ TransferRejected \/ TransferAdvances
        \/ AccessoryEnds \/ AccessoryAsks
        \/ AdapterAsks \/ AdapterEnds \/ AdapterCounts
        \/ ForwardStarts \/ ForwardEnds \/ ForwardRecovers
        \/ Mailbox
        \/ Submit \/ PollWaits \/ PollTurns

Next == Host \/ Pass

Spec == Init /\ [][Next]_vars

\* The main loop runs forever, every exchange of the serial link ends, and so does a startup.
FairSpec == /\ Spec /\ WF_vars(Pass)
            /\ SF_vars(ReceiveAnswer) /\ SF_vars(PollTurns /\ serial = "poll")
            /\ SF_vars(StartupFinishes \/ StartupFails)

----------------------------------------------------------------------------
(* Properties *)

TransportType == [owner : Clients \cup {"none"}, phase : {"idle", "queued", "pending"},
                  kind : {"none", "write", "read", "length"}, complete : BOOLEAN,
                  request : {"new", "sent", "accepted"}]
AdapterType == [phase : {"discovering", "ready", "reading", "writing"}, waits : 0 .. WaitLimit]
ForwarderType == [phase : {"probeReady", "probePending", "ready", "writePending"},
                  batch : BOOLEAN, waits : 0 .. WaitLimit + 1]
MailboxType == [phase : {"controlQueue", "controlWait", "payloadReadWait", "payloadWriteWait",
                         "statusWait"},
                write : BOOLEAN, erased : 0 .. ControlLimit, retried : BOOLEAN,
                deferred : BOOLEAN]

\* Every variable keeps its type; no counter passes the limit at which its client gives up.
TypeOK ==
    /\ transport \in TransportType /\ serial \in {"idle", "command", "poll"}
    /\ startup \in {"off", "claim", "read", "status", "runs"}
    /\ transfer \in {"idle", "writeReady", "writePending", "readReady", "readPending"}
    /\ accessory \in {"none", "write", "read"}
    /\ adapter \in AdapterType /\ forwarder \in ForwarderType /\ mailbox \in MailboxType
    /\ pc \in {"usb", "receive", "startup", "transfer", "accessory", "adapter", "forwarder",
               "mailbox", "submit", "poll", "resubmit"}

\* The kind of request whose answer each client waits for.
TransferAwaits == CASE transfer = "writePending" -> "write"
                    [] transfer = "readPending" -> "read"
                    [] OTHER -> "none"
AdapterAwaits == CASE adapter.phase = "writing" -> "write"
                   [] adapter.phase = "reading" -> "read"
                   [] OTHER -> "none"
ForwarderAwaits == CASE forwarder.phase = "writePending" -> "write"
                     [] forwarder.phase = "probePending" -> "read"
                     [] OTHER -> "none"
MailboxAwaits == CASE mailbox.phase = "payloadWriteWait" -> "write"
                   [] mailbox.phase = "controlQueue" -> "none"
                   [] OTHER -> "read"

Awaits(c) == CASE c = "transfer" -> TransferAwaits
               [] c = "accessory" -> accessory
               [] c = "adapter" -> AdapterAwaits
               [] c = "forwarder" -> ForwarderAwaits
               [] c = "mailbox" -> MailboxAwaits
               [] OTHER -> "none"

\* What the transport carries, but for the length record of a startup, is the request its owner
\* waits for: one that outlived the wait of its client would be sent for nobody, and its answer
\* taken by the next owner.
CarriesOwnersRequest ==
    transport.phase # "idle" /\ transport.kind # "length"
        => transport.kind = Awaits(transport.owner)

\* A client that waits owns the transport: else it would be told the end of another's request.
WaitsAsOwner == \A c \in Clients : Awaits(c) # "none" => transport.owner = c

\* A client's wait and its hold of the transport go together, whatever the host restarts or
\* releases, whoever gives up, and whenever a startup takes the mailbox or drops it.
Ownership == CarriesOwnersRequest /\ WaitsAsOwner

\* A client that is told its request is complete has had that very request accepted by the board,
\* whatever request was given up, restarted or dropped before.
CompleteIsOwn ==
    \A c \in Clients : Awaits(c) # "none" /\ CanPoll(transport, c) /\ transport.complete
                         => transport.request = "accepted"

\* The exchange of a pending request has ended, with a malformed answer or by the cancellation of a
\* startup, and its owner does not give up.
Unanswerable == /\ transport.phase = "pending" /\ serial # "command"
                /\ Awaits("adapter") = "none" /\ Awaits("forwarder") = "none"

\* Whoever waits for an answer gets one, or gives up, as the adapter and the forwarder do.  A wait is
\* endless only when its exchange is over without an answer, or when the mailbox does not look any
\* more, for a deferred upload.
WaitsEnd ==
    \A c \in Clients :
        Awaits(c) # "none" ~>
            Awaits(c) = "none" \/ Unanswerable \/ (c = "mailbox" /\ mailbox.deferred)

\* transfer/command.h lets a request wait, after a malformed answer, for a valid one.  None can come:
\* no step of any pass ends that wait, and the transport stays with its owner.  Only the mailbox is
\* freed, by the next startup.
MalformedIsFinal ==
    [][Unanswerable /\ transport.owner \in {"transfer", "accessory"} /\ Pass
         => Unanswerable' /\ UNCHANGED transport]_vars

\* The adapter or the forwarder gives up a request that is still under way.
GivesUp == \/ ForwardRecovers /\ forwarder'.phase = "probeReady"
           \/ AdapterCounts /\ adapter'.phase = "discovering"

\* A wheel transfer ends, unless its answer never comes, the host or a startup keeps the transport,
\* or requests are given up again and again (each late answer costs the transfer its turn): the
\* accessory and the adapter, which always have a next request, never starve it.
TransferEnds ==
    <>[](transport.owner # "mailbox") /\ <>[][~GivesUp]_vars
        => (transfer # "idle" ~> transfer = "idle" \/ Unanswerable)

\* A startup that finds the transport with another client waits for it in vain: that client does
\* not run before the startup has failed.
StartupLockedOut ==
    [][startup = "claim" /\ transport.owner \notin {"none", "mailbox"}
         => startup' \in {"claim", "off"} /\ transport'.owner = transport.owner]_vars
=============================================================================
