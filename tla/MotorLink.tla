----------------------------- MODULE MotorLink -----------------------------
(***************************************************************************)
(* The live link between the base (firmware.c service_motor_link on          *)
(* motor/output_transport.c and platform motor_link.c) and the motor board   *)
(* (link/protocol.c, system/runtime.c on platform spi.c): full-duplex        *)
(* exchanges the motor starts at its own pace, each carrying one frame in    *)
(* either direction.  The base's interrupt queues the frame it received and  *)
(* loads the frame of the next exchange before its main loop has looked at   *)
(* what arrived, so an answer goes out two exchanges after its cause.        *)
(*                                                                         *)
(* The base is in its Xbox mode: the motor drives what force frames say.     *)
(***************************************************************************)
EXTENDS Naturals, Sequences

CONSTANTS
    QueueCapacity,   \* MOTOR_OUTPUT_QUEUE_CAPACITY: commands waiting in the base
    MalformedLimit,  \* MOTOR_LINK_MALFORMED_FRAME_LIMIT: 100
    MaxEvents,       \* bound on the bounds of an environment
    Environments     \* what may happen around the link: see Environment

ReceiveCapacity == 2    \* MOTOR_LINK_RECEIVE_QUEUE_SIZE

\* Does the main loop answer every frame before the next exchange ends, what can damage a frame
\* (its checksum or its boundary bytes), can the byte count of the exchange slip, and how many
\* commands, changes of status or inhibition, and faults are there?
Environment == [prompt : BOOLEAN, damage : SUBSET {"checksum", "boundary"}, slips : BOOLEAN,
                commands : 0 .. MaxEvents, changes : 0 .. MaxEvents, faults : 0 .. MaxEvents]

ASSUME MotorLinkAssumption ==
    /\ QueueCapacity \in Nat \ {0} /\ MalformedLimit \in Nat
    /\ MaxEvents \in Nat
    /\ Environments \subseteq Environment

VARIABLES
    host,       \* what the rest of the base wants: status, inhibition, commands accepted so far
    queue,      \* commands of MotorOutputTransport
    previous,   \* its previous_status
    ring,       \* its replay_frames, older first
    next,       \* next_transmit
    sending,    \* transmitted_dma: the frame of the next exchange
    received,   \* received_frames
    taken,      \* motor_received_frame: the frame the main loop works on
    malformed,  \* motor_malformed_frame_count
    motor,      \* of MotorProtocolState: replay, status and live drive
    aligned,    \* do both ends agree where a frame starts?
    applied,    \* the commands the motor applied, repetitions in a row left out, for the properties
    repeated,   \* did it apply one command twice in a row?  For the properties.
    waited,     \* exchanges since the last change of inhibition, up to 2, for the properties
    env, faults, changes

transport == <<queue, previous, ring>>
spi == <<next, sending, received>>
history == <<applied, repeated>>
bounds == <<env, faults, changes>>
vars == <<host, transport, spi, taken, malformed, motor, aligned, history, waited, bounds>>

----------------------------------------------------------------------------
(* Frames of the base.  A command is its number in order of acceptance; 0 is no command. *)

\* A status is the byte's flags that change in this mode: one of two values.  The base starts with
\* previous_status at a byte that no status it computes here equals.
Status == 0 .. 1
NoneSent == 2

Frame == [kind : {"blank", "fallback", "force", "status"}, status : Status,
          command : 0 .. MaxEvents, primary : BOOLEAN]

Plain(kind) == [kind |-> kind, status |-> 0, command |-> 0, primary |-> FALSE]
Blank == Plain("blank")          \* thirteen zero bytes: no frame to the motor
Fallback == Plain("fallback")    \* a replay slot never written, encoded: valid, but of no type
ForceFrame(on) == [Plain("force") EXCEPT !.primary = on]
StatusFrame(s, c) == [Plain("status") EXCEPT !.status = s, !.command = c]

\* motor_live_frame_inhibit_primary: only position frames carry a primary force.
Inhibited(f) == [f EXCEPT !.primary = FALSE]

\* Frames of the motor, as the base decodes them.
Report == [quality : {"valid", "checksum", "boundary"}, replay : BOOLEAN]
NoReport == [quality |-> "none", replay |-> FALSE]

----------------------------------------------------------------------------
Init == /\ host = [status |-> 0, inhibited |-> FALSE, accepted |-> 0]
        /\ queue = << >> /\ previous = NoneSent /\ ring = <<Fallback, Fallback>>
        /\ next = Blank /\ sending = Blank /\ received = << >>
        /\ taken = NoReport /\ malformed = 0 /\ aligned = TRUE
        /\ motor = [replay |-> FALSE, status |-> 0, drive |-> FALSE]
        /\ applied = << >> /\ repeated = FALSE /\ waited = 0
        /\ env \in Environments /\ faults = 0 /\ changes = 0

(* The rest of the base's main loop: it runs between two calls of service_motor_link. *)

\* forward_force_feedback_command: a full queue drops the command, and nobody learns of it.
AcceptCommand ==
    /\ taken = NoReport /\ host.accepted < env.commands
    /\ Len(queue) < QueueCapacity
    /\ host' = [host EXCEPT !.accepted = @ + 1]
    /\ queue' = Append(queue, host.accepted + 1)
    /\ UNCHANGED <<previous, ring, spi, taken, malformed, motor, aligned, history, waited, bounds>>

Changes == taken = NoReport /\ changes < env.changes /\ changes' = changes + 1

ChangeStatus ==
    /\ Changes
    /\ host' = [host EXCEPT !.status = 1 - @]
    /\ UNCHANGED <<transport, spi, taken, malformed, motor, aligned, history, waited, env, faults>>

ChangeInhibition ==
    /\ Changes
    /\ host' = [host EXCEPT !.inhibited = ~@]
    /\ waited' = 0
    /\ UNCHANGED <<transport, spi, taken, malformed, motor, aligned, history, env, faults>>

----------------------------------------------------------------------------
(* service_motor_link *)

\* platform_motor_link_take_received
Take == /\ taken = NoReport /\ received # << >>
        /\ taken' = Head(received)
        /\ received' = Tail(received)
        /\ UNCHANGED <<host, transport, next, sending, malformed, motor, aligned, history, waited,
                       bounds>>

RequestsReplay == taken.quality = "valid" /\ taken.replay

\* Broken variant: only checksums are counted as malformed.
MalformedByChecksum == IF taken.quality = "valid" \/ malformed = MalformedLimit THEN 0
                       ELSE IF taken.quality = "checksum" THEN malformed + 1 ELSE malformed

MalformedNow == CASE taken.quality = "valid" -> 0
                  [] taken.quality = "boundary" -> malformed + 1
                  [] OTHER -> malformed

\* Broken variant: a replayed frame keeps its primary force.
ReplayLive == ring[1]

\* motor_output_transport_replay_frame, inhibited as the present demands.
ReplayFrame == IF host.inhibited THEN Inhibited(ring[1]) ELSE ring[1]

\* The replay branch returns before the malformed limit is looked at.
AnswerReplay ==
    /\ taken # NoReport /\ RequestsReplay
    /\ next' = ReplayFrame
    /\ malformed' = MalformedNow
    /\ taken' = NoReport
    /\ UNCHANGED <<host, transport, sending, received, motor, aligned, history, waited, bounds>>

Popped == [command |-> Head(queue), rest |-> Tail(queue)]

\* Broken variant: the report is not inhibited.
BuiltLive == CASE queue # << >> -> StatusFrame(host.status, Popped.command)
               [] queue = << >> /\ host.status # previous -> StatusFrame(host.status, 0)
               [] OTHER -> ForceFrame(TRUE)

\* motor_output_transport_build_frame: a command, else a changed status, else the force report.
Built == CASE queue # << >> -> StatusFrame(host.status, Popped.command)
           [] queue = << >> /\ host.status # previous -> StatusFrame(host.status, 0)
           [] OTHER -> ForceFrame(~host.inhibited)

\* Broken variant: the history takes no frame once it is full.
RememberedUntilFull(f) == IF ring[1] = Fallback THEN <<ring[2], f>> ELSE ring

\* motor_output_transport_remember_frame
Remembered(f) == <<ring[2], f>>

Restarts(count) == count > MalformedLimit

\* platform_motor_link_init, given the frame just built: nothing received is kept, and the frame
\* is both in the transmit buffer and the one to load next.
LinkInit == sending' = Built /\ received' = << >> /\ aligned' = TRUE

AnswerBuild ==
    /\ taken # NoReport /\ ~RequestsReplay
    /\ queue' = IF queue = << >> THEN queue ELSE Popped.rest
    /\ previous' = host.status
    /\ ring' = Remembered(Built)
    /\ next' = Built
    /\ IF Restarts(MalformedNow)
       THEN malformed' = 0 /\ LinkInit
       ELSE /\ malformed' = MalformedNow /\ UNCHANGED <<sending, received, aligned>>
    /\ taken' = NoReport
    /\ UNCHANGED <<host, motor, history, waited, bounds>>

----------------------------------------------------------------------------
(* One exchange, and the interrupts at its end on both sides *)

\* A full queue loses its oldest frame.
Queued(report) == Append(IF Len(received) = ReceiveCapacity THEN Tail(received) ELSE received,
                         report)

\* motor_protocol_frame_apply
Applied(m, f) == CASE f.kind = "force" -> [m EXCEPT !.drive = f.primary]
                   [] f.kind = "status" -> [m EXCEPT !.status = f.status]
                   [] OTHER -> m

Arrives(f) == aligned /\ f.kind # "blank"

Note(c) == IF c = 0 THEN UNCHANGED history
           ELSE IF applied # << >> /\ applied[Len(applied)] = c
                THEN repeated' = TRUE /\ UNCHANGED applied
                ELSE applied' = Append(applied, c) /\ UNCHANGED repeated

\* motor_runtime_spi_receive: a frame that fails its checks sets the replay flag of the next report.
MotorReceives(intact) ==
    IF intact /\ Arrives(sending)
    THEN motor' = [Applied(motor, sending) EXCEPT !.replay = FALSE] /\ Note(sending.command)
    ELSE motor' = [motor EXCEPT !.replay = TRUE] /\ UNCHANGED history

\* motor_runtime_spi_prepare and the base's decoding, which makes "quality" of the report.
MotorReport(quality) == [quality |-> IF aligned THEN quality ELSE "boundary",
                         replay |-> motor.replay]

\* _DMA9Interrupt loads the transmit buffer whatever the main loop has done since the last time.
\* The motor prepared its report before the exchange.
Exchange(intact, quality) ==
    /\ env.prompt => received = << >> /\ taken = NoReport
    /\ MotorReceives(intact)
    /\ received' = Queued(MotorReport(quality))
    /\ sending' = next
    /\ waited' = IF waited < 2 THEN waited + 1 ELSE 2
    /\ UNCHANGED <<host, transport, next, taken, malformed, aligned, env, changes>>

CleanExchange == Exchange(TRUE, "valid") /\ UNCHANGED faults

Faulty == faults < env.faults /\ faults' = faults + 1

DamagedToMotor == env.damage # {} /\ Faulty /\ Exchange(FALSE, "valid")
DamagedToBase == Faulty /\ \E q \in env.damage : Exchange(TRUE, q)

\* A byte is lost: from now on neither side finds the boundaries of a frame.
Slip == /\ env.slips /\ aligned /\ Faulty
        /\ aligned' = FALSE
        /\ UNCHANGED <<host, transport, spi, taken, malformed, motor, history, waited, env, changes>>

Next == \/ AcceptCommand \/ ChangeStatus \/ ChangeInhibition
        \/ Take \/ AnswerReplay \/ AnswerBuild
        \/ CleanExchange \/ DamagedToMotor \/ DamagedToBase \/ Slip

\* The motor's timer starts exchanges for ever, and the base's main loop keeps running.
Spec == /\ Init /\ [][Next]_vars
        /\ WF_vars(CleanExchange) /\ WF_vars(Take) /\ WF_vars(AnswerReplay \/ AnswerBuild)

----------------------------------------------------------------------------
(* Properties *)

HostType == [status : Status, inhibited : BOOLEAN, accepted : Nat]
MotorType == [replay : BOOLEAN, status : Status, drive : BOOLEAN]

\* Everything is well typed, and neither the queue nor the motor has a command that was not accepted.
TypeOK ==
    /\ host \in HostType /\ host.accepted <= env.commands
    /\ queue \in Seq(1 .. host.accepted) /\ Len(queue) <= QueueCapacity
    /\ previous \in Status \cup {NoneSent} /\ ring \in [1 .. 2 -> Frame]
    /\ next \in Frame /\ sending \in Frame
    /\ received \in Seq(Report) /\ Len(received) <= ReceiveCapacity
    /\ taken \in Report \cup {NoReport}
    /\ malformed \in 0 .. MalformedLimit
    /\ motor \in MotorType
    /\ aligned \in BOOLEAN /\ repeated \in BOOLEAN /\ waited \in 0 .. 2
    /\ applied \in Seq(1 .. host.accepted)
    /\ env \in Environments /\ faults \in 0 .. env.faults /\ changes \in 0 .. env.changes

\* With a main loop that keeps up and a clean line every command is applied once, in order: the two
\* exchanges of delay and the replays the motor asks for at start-up neither drop, repeat nor swap one.
PromptOrder == env.prompt /\ faults = 0 => /\ ~repeated
                                          /\ \A i \in DOMAIN applied : applied[i] = i
                                          /\ queue # << >> => Len(applied) < Head(queue)

\* However slow the main loop is, a clean line never swaps two commands: they are lost (an answer
\* overwritten before its exchange) and repeated (no answer in time).
CleanOrder == faults = 0 => \A i, j \in DOMAIN applied : i < j => applied[i] < applied[j]

\* Whatever happens, a replay never goes back further than the command before the newest one.
ReplayOrder == \A i, j \in DOMAIN applied : i < j => applied[i] <= applied[j] + 1

\* The order in which the motor applies the commands of the host.
CommandOrder == PromptOrder /\ CleanOrder /\ ReplayOrder

\* Two exchanges after the base became inhibited, no frame with a live primary force leaves it,
\* replayed frames built before included.
NoLiveForceOnceInhibited ==
    env.prompt /\ host.inhibited /\ waited = 2 => ~sending.primary

\* An inhibited base stops the motor's primary force, even if it is slow, frames are damaged or
\* the line slips: the force report is repeated until it arrives.
ForceStops == host.inhibited ~> (~motor.drive \/ ~host.inhibited)

\* A slipped link is restarted by the malformed limit and aligned again.
SlipHeals == ~aligned ~> aligned
=============================================================================
