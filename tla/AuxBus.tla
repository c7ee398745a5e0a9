-------------------------------- MODULE AuxBus --------------------------------
(***************************************************************************)
(* The auxiliary bus (platform/dspic33e/aux_bus.c) and the five services    *)
(* that share it without a lock: the secure element, the wheel transfer,    *)
(* and the motor's telemetry, status and tuning.  Each runs once in a pass  *)
(* of the main loop; it starts a transaction when it sees the bus idle, and *)
(* takes the next terminal status it sees while it waits as its own.  The   *)
(* interrupt that ends a transaction falls between any two runs, and        *)
(* entering or leaving PlayStation mode resets the bus under all of them.   *)
(***************************************************************************)
EXTENDS Integers

CONSTANTS
    Parameters,     \* MOTOR_TUNING_PARAMETER_COUNT
    Environments    \* the motor's protocol, and what the host does

Environment == [protocol : {"legacy", "standard", "extended"},
                host : SUBSET {"console", "transfer", "setting", "command"}]

ASSUME AuxBusAssumption == Parameters \in Nat \ {0} /\ Environments \subseteq Environment

Clients == {"element", "transfer", "telemetry", "status", "tuning"}
Parameter == 0 .. Parameters - 1
Value == 0 .. 1

VARIABLES
    env,        \* identity->protocol and the host
    bus,        \* PlatformAuxBusStatus, and for the properties who started the transaction
    element,    \* A71chSessionService and A71chExchangeService
    transfer,   \* WheelTransferPhase of the request that uses the bus
    telemetry,  \* MotorTelemetryService
    status,     \* MotorStatusService
    tuning,     \* MotorTuningService
    written,    \* the value the motor has of each parameter
    intact,     \* no reset has cut off a transaction some service still waits for
    pc          \* the service the main loop runs next

services == <<element, transfer, telemetry, status, tuning>>
vars == <<env, bus, services, written, intact, pc>>

----------------------------------------------------------------------------
(* The bus *)

Idle == [status |-> "idle", user |-> "none"]

Started(c) == [status |-> "busy", user |-> c]

\* platform_aux_bus_clear
Cleared(b) == IF b.status = "busy" THEN b ELSE Idle

\* platform_aux_bus_init, seen by the services that go on waiting.
Reset(going) == /\ bus' = Idle
                /\ intact' = (intact /\ bus.user \notin going)

\* The interrupt ends the transaction, after its retries, or the watchdog does.  A write that fails
\* may have reached the motor.
BusEnds ==
    /\ bus.status = "busy"
    /\ \E end \in {"succeeded", "failed"} :
         /\ bus' = [bus EXCEPT !.status = end]
         /\ \/ end = "failed" /\ UNCHANGED written
            \/ IF bus.user = "tuning" /\ tuning.active
               THEN written' = [written EXCEPT ![tuning.flight.parameter] = tuning.flight.value]
               ELSE end = "succeeded" /\ UNCHANGED written
    /\ UNCHANGED <<env, services, intact, pc>>

----------------------------------------------------------------------------
(* The secure element: the commands of its session, then authentication     *)
(* exchanges, each behind a poll for readiness                              *)

NoElement == [stage |-> "off", active |-> FALSE]

Element == /\ pc = "element" /\ pc' = "transfer"
           /\ UNCHANGED <<env, transfer, telemetry, status, tuning, written, intact>>

\* What a successful transaction of a stage may lead to; "pause" holds five milliseconds, and in
\* "rest" no exchange is under way.
After(stage) == CASE stage = "session" -> {"session", "pause", "rest"}
                  [] stage = "waitReady" -> {"waitReady", "queue", "rest"}
                  [] stage = "queue" -> {"waitAcceptance"}
                  [] stage = "waitAcceptance" -> {"waitAcceptance", "waitResponse", "rest"}
                  [] stage = "waitResponse" -> {"rest"}

\* An authentication write that failed may have arrived: its acceptance is polled.
AfterFailure(stage) == IF stage = "queue" THEN "waitAcceptance" ELSE stage

ElementEnds ==
    /\ Element /\ element.active /\ bus.status # "busy"
    /\ bus' = Cleared(bus)
    /\ \E stage \in IF bus.status = "succeeded" THEN After(element.stage)
                    ELSE {AfterFailure(element.stage)} :
         element' = [stage |-> stage, active |-> FALSE]

ElementStarts ==
    /\ Element /\ ~element.active /\ element.stage \notin {"off", "rest"} /\ bus.status = "idle"
    /\ element' = [stage |-> IF element.stage = "pause" THEN "session" ELSE element.stage,
                   active |-> TRUE]
    /\ bus' = Started("element")

\* A request of the console, or the next chunk of one, begins an exchange; one that failed is sent
\* again without the poll.
ElementBegins ==
    /\ Element /\ element.stage = "rest"
    /\ \E stage \in {"waitReady", "queue"} : element' = [element EXCEPT !.stage = stage]
    /\ UNCHANGED bus

ElementWaits ==
    /\ Element
    /\ IF element.active THEN bus.status = "busy"
       ELSE element.stage \in {"off", "rest", "pause"} \/ bus.status # "idle"
    /\ UNCHANGED <<element, bus>>

----------------------------------------------------------------------------
(* The wheel transfer, whose write request goes over this bus *)

Transfer == /\ pc = "transfer" /\ pc' = "console"
            /\ UNCHANGED <<env, element, telemetry, status, tuning, written, intact>>

\* Broken variant: a terminal status that is somebody else's is good enough.
AvailableToAll == bus.status # "busy"

\* auxiliary_bus_available
Available == bus.status = "idle"

Ready == transfer \in {"writeReady", "readReady"}
Pending == transfer \in {"writePending", "readPending"}

TransferStarts ==
    /\ Transfer /\ Ready /\ Available
    /\ transfer' = IF transfer = "writeReady" THEN "writePending" ELSE "readPending"
    /\ bus' = Started("transfer")

TransferEnds ==
    /\ Transfer /\ Pending /\ bus.status # "busy"
    /\ transfer' = IF transfer = "writePending" /\ bus.status = "succeeded" THEN "readReady"
                   ELSE "idle"
    /\ bus' = Cleared(bus)

TransferWaits ==
    /\ Transfer
    /\ ~(Ready /\ Available) /\ ~(Pending /\ bus.status # "busy")
    /\ UNCHANGED <<transfer, bus>>

----------------------------------------------------------------------------
(* Entering PlayStation mode starts a session, which resets the bus first *)

Console == /\ pc = "console" /\ pc' = "telemetry"
           /\ UNCHANGED <<env, transfer, telemetry, status, tuning, written>>

EnterPlayStation ==
    /\ "console" \in env.host /\ Console /\ element.stage = "off"
    /\ element' = [NoElement EXCEPT !.stage = "session"]
    /\ Reset({"transfer", "telemetry", "status", "tuning"})

StayInMode == Console /\ UNCHANGED <<bus, element, intact>>

----------------------------------------------------------------------------
(* Telemetry: a cycle of reads every 200 ms *)

Telemetry == /\ pc = "telemetry" /\ pc' = "status"
             /\ UNCHANGED <<env, element, transfer, status, tuning, written, intact>>

Reads == IF env.protocol = "extended" THEN 4 ELSE 2

\* Broken variant: the end of a cycle does not schedule the next one.
AdvancedAtOnce(t) == [t EXCEPT !.phase = "queue", !.read = (@ + 1) % Reads]

\* advance_read: the next cycle becomes due later.
Advanced(t) == [t EXCEPT !.phase = "queue", !.read = (@ + 1) % Reads,
                         !.due = @ /\ t.read # Reads - 1]

\* A run that starts the next read when one is due.
Rearmed(t, b) ==
    IF t.due /\ b.status = "idle"
    THEN telemetry' = [t EXCEPT !.phase = "wait"] /\ bus' = Started("telemetry")
    ELSE telemetry' = t /\ bus' = b

TelemetryQueues == Telemetry /\ telemetry.phase = "queue" /\ Rearmed(telemetry, bus)

TelemetryEnds == /\ Telemetry /\ telemetry.phase = "wait" /\ bus.status = "succeeded"
                 /\ Rearmed(Advanced(telemetry), Idle)

\* A failure is left on the bus until the next run.
TelemetryFails == /\ Telemetry /\ telemetry.phase = "wait" /\ bus.status = "failed"
                  /\ telemetry' = [telemetry EXCEPT !.phase = "error"]
                  /\ UNCHANGED bus

TelemetryRecovers == /\ Telemetry /\ telemetry.phase = "error"
                     /\ telemetry' = [telemetry EXCEPT !.phase = "queue"]
                     /\ bus' = Cleared(bus)

\* An idle bus is waited for as well as a busy one.
TelemetryWaits == /\ Telemetry /\ telemetry.phase = "wait" /\ bus.status \in {"busy", "idle"}
                  /\ UNCHANGED <<telemetry, bus>>

----------------------------------------------------------------------------
(* Status: the command handshake of an extended motor and the status byte,   *)
(* every 200 ms                                                              *)

Status == /\ pc = "status" /\ pc' = "tuning"
          /\ UNCHANGED <<env, element, transfer, telemetry, tuning, written, intact>>

InitStatus(p) == [phase |-> IF p = "legacy" THEN "disabled" ELSE "readInitial",
                  active |-> FALSE, due |-> TRUE, pending |-> FALSE, sent |-> FALSE,
                  initialized |-> FALSE]

\* continue_to_status
Continued(s) == [s EXCEPT !.phase = IF s.initialized THEN "read" ELSE "initialize"]

CyclePhase(other) == IF env.protocol = "extended" THEN "readCommand" ELSE other

\* finish_command_read
CommandRead(s, response) ==
    LET done == Continued([s EXCEPT !.pending = FALSE, !.sent = FALSE])
    IN  CASE response = "idle" /\ s.sent -> done
          [] response = "idle" /\ ~s.sent /\ s.pending -> [s EXCEPT !.phase = "writeCommand"]
          [] response = "idle" /\ ~s.sent /\ ~s.pending -> Continued(s)
          [] response = "fault" -> done
          [] response \in {"accepted", "unavailable"} -> Continued(s)
          [] response = "other" -> s

\* finish_transfer of a successful transaction.
Finished(s, response) ==
    CASE s.phase = "readInitial" -> [s EXCEPT !.phase = CyclePhase("initialize")]
      [] s.phase = "readCommand" -> CommandRead(s, response)
      [] s.phase = "writeCommand" -> Continued(s)
      [] s.phase = "initialize" -> [s EXCEPT !.phase = "read", !.initialized = TRUE]
      [] s.phase = "read" -> [s EXCEPT !.phase = CyclePhase("read"), !.due = FALSE]

StatusReady(s, b) == /\ b.status = "idle"
                     /\ s.phase \in {"writeCommand", "initialize"} \/ s.due

\* start_transfer, when the phase has one to do.
StatusRearmed(s, b) ==
    IF StatusReady(s, b)
    THEN /\ status' = [s EXCEPT !.active = TRUE, !.sent = @ \/ s.phase = "writeCommand"]
         /\ bus' = Started("status")
    ELSE status' = s /\ bus' = b

StatusQueues == /\ Status /\ status.phase # "disabled" /\ ~status.active
                /\ StatusRearmed(status, bus)

StatusEnds ==
    /\ Status /\ status.active /\ bus.status = "succeeded"
    /\ \E response \in {"idle", "accepted", "fault", "unavailable", "other"} :
         StatusRearmed(Finished([status EXCEPT !.active = FALSE], response), Idle)

\* A failed transaction is done again in a later run.
StatusFails == /\ Status /\ status.active /\ bus.status \in {"failed", "idle"}
               /\ status' = [status EXCEPT !.active = FALSE]
               /\ bus' = Cleared(bus)

StatusWaits == /\ Status
               /\ status.phase = "disabled" \/ (status.active /\ bus.status = "busy")
               /\ UNCHANGED <<status, bus>>

----------------------------------------------------------------------------
(* Tuning: every parameter the host changed is written to the motor *)

Tuning == /\ pc = "tuning" /\ pc' = "host"
          /\ UNCHANGED <<env, element, transfer, telemetry, status, written, intact>>

NoFlight == [parameter |-> 0, value |-> 0]

InitTuning == [active |-> FALSE, dirty |-> Parameter, next |-> 0, flight |-> NoFlight,
               desired |-> [p \in Parameter |-> 0]]

ParameterAfter(p) == (p + 1) % Parameters

\* Broken variant: a write that was superseded counts.
CompletedAnyway(t, ok) ==
    IF ok THEN [t EXCEPT !.active = FALSE, !.flight = NoFlight, !.dirty = @ \ {t.flight.parameter},
                         !.next = ParameterAfter(t.flight.parameter)]
    ELSE [t EXCEPT !.active = FALSE, !.flight = NoFlight, !.next = t.flight.parameter]

\* motor_tuning_sync_complete: a failed or superseded write stays dirty, and is next.
Completed(t, ok) ==
    IF ok /\ t.desired[t.flight.parameter] = t.flight.value
    THEN [t EXCEPT !.active = FALSE, !.flight = NoFlight, !.dirty = @ \ {t.flight.parameter},
                   !.next = ParameterAfter(t.flight.parameter)]
    ELSE [t EXCEPT !.active = FALSE, !.flight = NoFlight, !.next = t.flight.parameter]

\* motor_tuning_sync_next scans from the cursor.
Distance(t, p) == (p + Parameters - t.next) % Parameters
NextDirty(t, p) == p \in t.dirty /\ \A q \in t.dirty : Distance(t, p) <= Distance(t, q)

TuningRearmed(t, b) ==
    IF b.status = "idle" /\ t.dirty # {}
    THEN /\ \E p \in Parameter :
              /\ NextDirty(t, p)
              /\ tuning' = [t EXCEPT !.active = TRUE,
                                     !.flight = [parameter |-> p, value |-> t.desired[p]]]
         /\ bus' = Started("tuning")
    ELSE tuning' = t /\ bus' = b

TuningQueues == Tuning /\ ~tuning.active /\ TuningRearmed(tuning, bus)

\* The result is cleared and the bus used again in the same run.
TuningEnds == /\ Tuning /\ tuning.active /\ bus.status # "busy"
              /\ TuningRearmed(Completed(tuning, bus.status = "succeeded"), Idle)

TuningWaits == /\ Tuning /\ tuning.active /\ bus.status = "busy"
               /\ UNCHANGED <<tuning, bus>>

----------------------------------------------------------------------------
(* What comes in between two passes: reports of the host, and time *)

Host == pc = "host" /\ UNCHANGED <<env, written, pc>>

\* wheel_transfer_service_start
StartTransfer == /\ "transfer" \in env.host /\ Host /\ transfer = "idle" /\ transfer' = "writeReady"
                 /\ UNCHANGED <<bus, element, telemetry, status, tuning, intact>>

\* motor_tuning_sync_refresh after a setting changed.
ChangeSetting ==
    /\ "setting" \in env.host /\ Host
    /\ \E p \in Parameter : \E v \in Value \ {tuning.desired[p]} :
         tuning' = [tuning EXCEPT !.desired[p] = v, !.dirty = @ \cup {p}]
    /\ UNCHANGED <<bus, element, transfer, telemetry, status, intact>>

\* motor_status_service_request_command
RequestCommand == /\ "command" \in env.host /\ Host /\ env.protocol = "extended"
                  /\ status' = [status EXCEPT !.pending = TRUE]
                  /\ UNCHANGED <<bus, element, transfer, telemetry, tuning, intact>>

\* The native reset initializes the bus and the command bridge, with the wheel transfer in it.
LeavePlayStation ==
    /\ Host /\ element.stage # "off"
    /\ element' = NoElement /\ transfer' = "idle"
    /\ Reset({"telemetry", "status", "tuning"})
    /\ UNCHANGED <<telemetry, status, tuning>>

\* The 200 ms of a cycle are over.
TelemetryDue == /\ Host /\ telemetry' = [telemetry EXCEPT !.due = TRUE]
                /\ UNCHANGED <<bus, element, transfer, status, tuning, intact>>

StatusDue == /\ Host /\ status' = [status EXCEPT !.due = TRUE]
             /\ UNCHANGED <<bus, element, transfer, telemetry, tuning, intact>>

NextPass == /\ pc = "host" /\ pc' = "element"
            /\ UNCHANGED <<env, bus, services, written, intact>>

----------------------------------------------------------------------------
Init == /\ env \in Environments
        /\ bus = Idle /\ element = NoElement /\ transfer = "idle"
        /\ telemetry = [phase |-> "queue", read |-> 0, due |-> TRUE]
        /\ status = InitStatus(env.protocol) /\ tuning = InitTuning
        /\ written = [p \in Parameter |-> 1]
        /\ intact = TRUE /\ pc = "host"

Pass == \/ NextPass
        \/ ElementEnds \/ ElementStarts \/ ElementBegins \/ ElementWaits
        \/ TransferStarts \/ TransferEnds \/ TransferWaits
        \/ EnterPlayStation \/ StayInMode
        \/ TelemetryQueues \/ TelemetryEnds \/ TelemetryFails \/ TelemetryRecovers
        \/ TelemetryWaits
        \/ StatusQueues \/ StatusEnds \/ StatusFails \/ StatusWaits
        \/ TuningQueues \/ TuningEnds \/ TuningWaits

Next == \/ Pass \/ BusEnds
        \/ StartTransfer \/ ChangeSetting \/ RequestCommand \/ LeavePlayStation
        \/ TelemetryDue \/ StatusDue

\* The main loop runs for ever, and the watchdog ends what the interrupt does not.
Spec == Init /\ [][Next]_vars /\ WF_vars(Pass) /\ WF_vars(BusEnds)

----------------------------------------------------------------------------
(* Properties *)

BusType == [status : {"idle", "busy", "succeeded", "failed"}, user : Clients \cup {"none"}]
ElementType == [stage : {"off", "session", "pause", "rest", "waitReady", "queue",
                         "waitAcceptance", "waitResponse"}, active : BOOLEAN]
TransferType == {"idle", "writeReady", "writePending", "readReady", "readPending"}
TelemetryType == [phase : {"queue", "wait", "error"}, read : 0 .. 3, due : BOOLEAN]
StatusType == [phase : {"disabled", "readInitial", "readCommand", "writeCommand", "initialize",
                        "read"},
               active : BOOLEAN, due : BOOLEAN, pending : BOOLEAN, sent : BOOLEAN,
               initialized : BOOLEAN]
TuningType == [active : BOOLEAN, dirty : SUBSET Parameter, next : Parameter,
               flight : [parameter : Parameter, value : Value], desired : [Parameter -> Value]]

\* Every variable keeps its type; the cursor of tuning stays a parameter.
TypeOK ==
    /\ env \in Environments /\ bus \in BusType
    /\ element \in ElementType /\ transfer \in TransferType /\ telemetry \in TelemetryType
    /\ status \in StatusType /\ tuning \in TuningType
    /\ written \in [Parameter -> Value] /\ intact \in BOOLEAN
    /\ pc \in {"host", "element", "transfer", "console", "telemetry", "status", "tuning"}

\* Who will take the next terminal status of the bus for the end of its own transaction.
Waits(c) == CASE c = "element" -> element.active
              [] c = "transfer" -> Pending
              [] c = "telemetry" -> telemetry.phase # "queue"
              [] c = "status" -> status.active
              [] c = "tuning" -> tuning.active

\* Without a lock, and although a result stays on the bus until its service runs again, nobody
\* takes another's: whoever waits has started the bus's transaction.  Only a reset of the bus by
\* the PlayStation mode breaks this, and nothing repairs it on purpose.
ResultsAreOwn == intact => \A c \in Clients : Waits(c) => bus.user = c

\* A parameter that is not dirty has its desired value in the motor, through failures, values
\* superseded during their write, and the return to a value that was written before.
CleanMeansWritten ==
    intact => \A p \in Parameter \ tuning.dirty : written[p] = tuning.desired[p]

\* Who needs the bus.
Wants(c) == CASE c = "element" -> element.stage \notin {"off", "rest", "pause"}
              [] c = "transfer" -> transfer # "idle"
              [] c = "telemetry" -> telemetry.phase = "queue" /\ telemetry.due
              [] c = "status" -> status.phase # "disabled" /\ status.due
              [] c = "tuning" -> tuning.dirty # {}

\* Whoever needs the bus gets it, whatever fails and whenever the host asks for more, as long as
\* neither tuning nor status keeps it.  These two start again in the run that ends: tuning as long
\* as a write fails or the host changes settings, status as long as the motor answers its command
\* with an unknown word.  (Once a reset has made them take each other's results, they can also keep
\* it between them.)
BusIsShared ==
    []intact /\ (\A keeper \in {"tuning", "status"} : []<>(bus.user # keeper))
        => \A c \in Clients : Wants(c) ~> (bus.user = c \/ ~Wants(c))
=============================================================================
