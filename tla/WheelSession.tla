---------------------------- MODULE WheelSession ----------------------------
(***************************************************************************)
(* The session with the wheel on the quick release, and the confirmation   *)
(* that lets force through to the motor.  One pass of the main loop        *)
(* dispatches a display event and samples USB (Events), finishes the       *)
(* status-memory startup of a wheel (Startup), runs the wheel service      *)
(* (wheel/service.c over wheel/protocol.c and wheel/authentication.c) and  *)
(* then service_force_output_enable (firmware.c) over                      *)
(* force_feedback/output_enable.c and display/prompt.c.                    *)
(*                                                                         *)
(* The wheel is free: it is put on, swapped and pulled between any two     *)
(* passes, sends any of the commands of its kind and presses its buttons   *)
(* as it likes.  A pulled wheel answers packets whose ready flag is clear. *)
(* Everything a pass reads of the outside it reads once, so the outside    *)
(* moves only between passes.                                              *)
(***************************************************************************)
EXTENDS Integers

CONSTANTS
    Kinds,           \* the kinds of wheel that may be put on
    ActivityTicks,   \* the activity window of a session, in ticks
    SelectionTicks   \* the window of the mode selection, in ticks

AllKinds == {"plain", "secure", "memory", "scan", "future", "odd"}

ASSUME KindsAssumption == Kinds \subseteq AllKinds
ASSUME TicksAssumption ==
    ActivityTicks \in Nat \ {0} /\ SelectionTicks \in Nat \ {0}

VARIABLES
    wheel,    \* the wheel on the quick release, "none" when there is none
    base,     \* what the base holds of the session
    line,     \* the wheel request on the serial line: "idle", "protocol" or "buttons"
    usbLost,  \* usb_connection_monitor.disconnected
    queue,    \* the one event of the display event queue
    prompt,   \* the confirmation: phase, response, visible, seen
    force,    \* force_output_enabled
    bridged,  \* the updater bridge has taken the main loop
    pc,       \* the step of the pass that comes next
    press,    \* ghost: a button was pressed on a prompt and has enabled nothing yet
    carried   \* ghost: force was enabled in a session that has been reset

vars == <<wheel, base, line, usbLost, queue, prompt, force, bridged, pc,
          press, carried>>
display == <<queue, prompt, force, press>>

-----------------------------------------------------------------------------
(* The protocol. *)

Off == -1
Modes == {"unknown", "plain", "secure", "memory", "scan"}
Phases == {"waiting", "synchronizing", "acknowledging", "selecting",
           "authenticating", "active", "unsupported", "scanning"}

Authenticated(mode) == mode \in {"secure", "memory"}
SelectMode(command) == command \in {"plain", "secure", "memory", "future"}
Exchanging(phase) == phase \in {"selecting", "authenticating", "active"}
(* Broken: force is let through for every wheel that is not unsupported. *)
ForceReadySupported(phase) == phase # "unsupported"
ForceReady(phase) == phase \in {"authenticating", "active", "scanning"}

Fresh == [phase |-> "waiting", mode |-> "unknown", stage |-> "challenge",
          invalid |-> FALSE, ack |-> FALSE, unknown |-> FALSE,
          deadline |-> Off, startup |-> FALSE]

(* What a wheel of a kind may say: its selection, then its own packets. *)
Commands(kind) ==
    CASE kind \in {"plain", "scan", "future"} -> {kind}
      [] kind \in {"secure", "memory"} -> {kind, "challenge", "proof"}
      [] OTHER -> {"other"}

NotReady == [ready |-> FALSE, command |-> "other", valid |-> FALSE, pressed |-> FALSE]

(* A noisy packet is ready and fails its checksum. *)
Replies ==
    {NotReady} \cup
    IF wheel = "none" THEN {}
    ELSE [ready : {TRUE}, command : Commands(wheel), valid : {TRUE}, pressed : BOOLEAN]
         \cup {[NotReady EXCEPT !.ready = TRUE]}

ActiveCommand(mode, command) ==
    IF Authenticated(mode) THEN command \in {"challenge", "proof"}
    ELSE SelectMode(command)

Selected(b, command) ==
    CASE command = "scan" ->
            [b EXCEPT !.phase = "scanning", !.mode = "scan", !.invalid = FALSE,
                      !.unknown = FALSE]
      [] command = "future" ->
            [b EXCEPT !.phase = "unsupported", !.invalid = TRUE, !.unknown = FALSE]
      [] command \in {"plain", "secure", "memory"} ->
            [b EXCEPT !.phase = IF Authenticated(command) THEN "authenticating"
                                ELSE "active",
                      !.mode = command, !.stage = "challenge", !.invalid = FALSE,
                      !.unknown = FALSE]
      [] OTHER -> [b EXCEPT !.unknown = TRUE]

Authenticates(b, reply) ==
    CASE ~reply.ready \/ ~reply.valid -> b
      [] b.stage = "challenge" /\ reply.command = "challenge" ->
            [b EXCEPT !.stage = "proof"]
      [] b.stage = "proof" /\ reply.command = "proof" -> [b EXCEPT !.phase = "active"]
      [] OTHER -> b

(* The button filters may hold a change of the input back: held.  An       *)
(* authenticated wheel that says something else must authenticate again.   *)
Active(b, reply, held) ==
    CASE ~reply.ready -> b
      [] reply.ready /\ ~reply.valid -> [b EXCEPT !.invalid = TRUE]
      [] reply.ready /\ reply.valid /\ ActiveCommand(b.mode, reply.command) ->
            [b EXCEPT !.invalid = FALSE, !.ack = IF held THEN @ ELSE reply.pressed]
      [] OTHER ->
            IF Authenticated(b.mode)
            THEN [b EXCEPT !.invalid = TRUE, !.stage = "challenge",
                           !.phase = "authenticating"]
            ELSE [b EXCEPT !.invalid = TRUE]

Accepted(b, reply, held) ==
    CASE b.phase = "waiting" ->
            [b EXCEPT !.phase = IF reply.ready THEN "synchronizing" ELSE @]
      [] b.phase = "synchronizing" ->
            [b EXCEPT !.phase = IF reply.ready THEN "acknowledging" ELSE "waiting"]
      [] b.phase = "acknowledging" ->
            [b EXCEPT !.phase = IF reply.ready THEN "selecting" ELSE "waiting"]
      [] b.phase = "selecting" -> Selected(b, reply.command)
      [] b.phase = "authenticating" -> Authenticates(b, reply)
      [] b.phase = "active" -> Active(b, reply, held)
      [] OTHER -> b

-----------------------------------------------------------------------------
(* The wheel service. *)

Window(phase) == IF phase = "selecting" THEN SelectionTicks ELSE ActivityTicks

(* Broken: a packet whose ready flag is clear counts as activity. *)
RefreshedByAll(before, after, reply) ==
    CASE after.phase = "waiting" -> Off
      [] Exchanging(after.phase) /\ ~(before.phase = "selecting" /\ after.phase = "selecting") ->
            Window(after.phase)
      [] OTHER -> after.deadline

(* Broken: an unrecognized selection is given another window. *)
RefreshedSelecting(before, after, reply) ==
    CASE after.phase = "waiting" -> Off
      [] reply.ready /\ Exchanging(after.phase) -> Window(after.phase)
      [] OTHER -> after.deadline

Refreshed(before, after, reply) ==
    CASE after.phase = "waiting" -> Off
      [] reply.ready /\ Exchanging(after.phase)
           /\ ~(before.phase = "selecting" /\ after.phase = "selecting") ->
            Window(after.phase)
      [] OTHER -> after.deadline

(* A complete protocol packet. *)
Exchanged(b, reply, held) ==
    LET after == Accepted(b, reply, held)
    IN  [after EXCEPT
            !.deadline = Refreshed(b, after, reply),
            !.startup = IF b.phase = "selecting" /\ SelectMode(reply.command)
                        THEN after.mode = "memory" ELSE @]

(* A complete scan packet.  The scan keeps no deadline. *)
Scanned(b, reply, held) ==
    CASE ~reply.ready -> [b EXCEPT !.ack = FALSE]
      [] reply.ready /\ reply.command = "scan" /\ ~held -> [b EXCEPT !.ack = reply.pressed]
      [] OTHER -> b

Expired(b) == b.deadline = 0 /\ Exchanging(b.phase) /\ ~b.startup
Unrecognized(b) == Expired(b) /\ b.phase = "selecting" /\ b.unknown

(* The states the service may be in when it has taken what the line holds: *)
(* nothing, a packet, or the failure (or malformed packet) that resets it. *)
AfterLine ==
    CASE line = "idle" -> {base}
      [] line = "protocol" ->
            {Exchanged(base, reply, held) : reply \in Replies, held \in BOOLEAN} \cup {Fresh}
      [] line = "buttons" ->
            {Scanned(base, reply, held) : reply \in Replies, held \in BOOLEAN} \cup {Fresh}

(* A request starts when the line is given and, for the protocol, when no  *)
(* status-memory startup holds it back.                                    *)
Started(b, allowed) ==
    CASE allowed /\ b.phase = "scanning" -> "buttons"
      [] allowed /\ b.phase # "scanning" /\ ~b.startup -> "protocol"
      [] OTHER -> "idle"

(* A selection nobody recognized hands the loop to the updater bridge; any *)
(* other expired session starts again.                                     *)
WheelRuns ==
    /\ pc = "wheel"
    /\ \E b \in AfterLine, allowed \in BOOLEAN :
        \/ /\ Unrecognized(b)
           /\ base' = [b EXCEPT !.unknown = FALSE, !.deadline = Off]
           /\ line' = "idle"
           /\ bridged' = TRUE
           /\ force' = FALSE
           /\ pc' = "bridge"
           /\ UNCHANGED carried
        \/ /\ ~Unrecognized(b)
           /\ base' = IF Expired(b) THEN Fresh ELSE b
           /\ line' = Started(base', allowed)
           /\ carried' = (carried \/ (force /\ base' = Fresh /\ base # Fresh))
           /\ pc' = "force"
           /\ UNCHANGED <<bridged, force>>
    /\ UNCHANGED <<wheel, usbLost, queue, prompt, press>>

(* The request is still on the line, or the line is another client's. *)
WheelWaits ==
    /\ pc = "wheel"
    /\ pc' = "force"
    /\ UNCHANGED <<wheel, base, line, usbLost, display, bridged, carried>>

(* The startup of the status memory ends, well or not, or goes on. *)
FinishStartup ==
    /\ pc = "startup"
    /\ base.startup
    /\ base' = [base EXCEPT !.startup = FALSE, !.deadline = Off]
    /\ pc' = "wheel"
    /\ UNCHANGED <<wheel, line, usbLost, display, bridged, carried>>

StartupGoesOn ==
    /\ pc = "startup"
    /\ pc' = "wheel"
    /\ UNCHANGED <<wheel, base, line, usbLost, display, bridged, carried>>

-----------------------------------------------------------------------------
(* The display and the confirmation. *)

(* The queued event is dispatched when it is due, and USB is lost and      *)
(* found again as its cable goes.                                          *)
Events ==
    /\ pc = "events"
    /\ \E due \in BOOLEAN :
        /\ queue' = IF due THEN "none" ELSE queue
        /\ prompt' = [prompt EXCEPT !.visible =
                        CASE due /\ queue = "show" -> TRUE
                          [] due /\ queue = "dismiss" -> FALSE
                          [] OTHER -> @]
    /\ usbLost' \in BOOLEAN
    /\ pc' = "startup"
    /\ UNCHANGED <<wheel, base, line, force, bridged, press, carried>>

(* Some other part of the firmware posts an event. *)
OtherEvent ==
    /\ pc \in {"events", "force"}
    /\ queue = "none"
    /\ queue' = "other"
    /\ UNCHANGED <<wheel, base, line, usbLost, prompt, force, press, bridged,
                   pc, carried>>

(* display_prompt_update: a press is seen while the prompt shows, and      *)
(* answers it when it is seen to end.  A notice may cover the prompt.      *)
Watched(covered) ==
    LET shown == prompt.visible /\ ~covered
    IN  [prompt EXCEPT !.seen = shown /\ base.ack,
                       !.response = @ \/ (shown /\ prompt.seen /\ ~base.ack)]

PromptPhase == {"required", "awaiting"}

(* force_output_enable_service on a watched prompt, its prompt action      *)
(* applied: it asks, takes the question back, or takes the answer.         *)
Confirms(watched, ready) == watched.phase = "awaiting" /\ ready /\ watched.response

(* Broken: the answer is kept when it has enabled the force. *)
ConfirmationKept(watched, ready) ==
    CASE watched.phase = "required" /\ ready /\ queue = "none" ->
            [prompt |-> [watched EXCEPT !.phase = "awaiting"], queue |-> "show"]
      [] watched.phase = "awaiting" /\ ~ready /\ queue = "none" ->
            [prompt |-> [watched EXCEPT !.phase = "required"], queue |-> "dismiss"]
      [] Confirms(watched, ready) ->
            [prompt |-> [watched EXCEPT !.phase = "required", !.visible = FALSE],
             queue |-> queue]
      [] OTHER -> [prompt |-> watched, queue |-> queue]

Confirmation(watched, ready) ==
    CASE watched.phase = "required" /\ ready /\ queue = "none" ->
            [prompt |-> [watched EXCEPT !.phase = "awaiting"], queue |-> "show"]
      [] watched.phase = "awaiting" /\ ~ready /\ queue = "none" ->
            [prompt |-> [watched EXCEPT !.phase = "required"], queue |-> "dismiss"]
      [] Confirms(watched, ready) ->
            [prompt |-> [watched EXCEPT !.phase = "required", !.response = FALSE,
                                        !.visible = FALSE], queue |-> queue]
      [] OTHER -> [prompt |-> watched, queue |-> queue]

Ready == ForceReady(base.phase) /\ ~usbLost

(* Force that is enabled stays so while the wheel and USB are there. *)
ForceStays ==
    /\ pc = "force"
    /\ force /\ Ready
    /\ pc' = "events"
    /\ UNCHANGED <<wheel, base, line, usbLost, display, bridged, carried>>

ForceAsks ==
    /\ pc = "force"
    /\ ~(force /\ Ready)
    /\ \E covered \in BOOLEAN :
        LET watched == Watched(covered)
        IN  /\ prompt' = Confirmation(watched, Ready).prompt
            /\ queue' = Confirmation(watched, Ready).queue
            /\ force' = Confirms(watched, Ready)
            /\ press' = (watched.seen \/ (press /\ ~force'))
    /\ carried' = FALSE
    /\ pc' = "events"
    /\ UNCHANGED <<wheel, base, line, usbLost, bridged>>

-----------------------------------------------------------------------------
(* The outside, between two passes. *)

Outside ==
    /\ pc = "events"
    /\ UNCHANGED <<line, usbLost, queue, prompt, bridged, pc, press>>

MoveWheel ==
    /\ Outside
    /\ wheel' \in (Kinds \cup {"none"}) \ {wheel}
    /\ UNCHANGED <<base, force, carried>>

Tick ==
    /\ Outside
    /\ base.deadline > 0
    /\ base' = [base EXCEPT !.deadline = @ - 1]
    /\ UNCHANGED <<wheel, force, carried>>

(* Disabled torque, the updater or the end of an Xbox session takes the    *)
(* force away.                                                             *)
Withdraw ==
    /\ Outside
    /\ force
    /\ force' = FALSE
    /\ carried' = FALSE
    /\ UNCHANGED <<wheel, base>>

(* The updater bridge ends with a reset of the processor. *)
Boot ==
    /\ base' = Fresh
    /\ line' = "idle"
    /\ usbLost' = FALSE
    /\ queue' = "none"
    /\ prompt' = [phase |-> "required", response |-> FALSE, visible |-> FALSE,
                  seen |-> FALSE]
    /\ force' = FALSE
    /\ bridged' = FALSE
    /\ pc' = "events"
    /\ press' = FALSE
    /\ carried' = FALSE

Restart ==
    /\ pc = "bridge"
    /\ Boot
    /\ UNCHANGED wheel

-----------------------------------------------------------------------------
Init ==
    /\ wheel \in Kinds \cup {"none"}
    /\ base = Fresh
    /\ line = "idle"
    /\ usbLost = FALSE
    /\ queue = "none"
    /\ prompt = [phase |-> "required", response |-> FALSE, visible |-> FALSE,
                 seen |-> FALSE]
    /\ force = FALSE
    /\ bridged = FALSE
    /\ pc = "events"
    /\ press = FALSE
    /\ carried = FALSE

Next ==
    \/ Events \/ FinishStartup \/ StartupGoesOn \/ WheelRuns \/ WheelWaits
    \/ ForceStays \/ ForceAsks \/ OtherEvent
    \/ MoveWheel \/ Tick \/ Withdraw \/ Restart

(* The loop keeps passing, time passes, the startup of the status memory   *)
(* has a deadline, and a request on the line ends: the wheel service is    *)
(* not put off for ever.                                                   *)
Fairness ==
    /\ WF_vars(Events) /\ WF_vars(ForceStays \/ ForceAsks)
    /\ WF_vars(FinishStartup \/ StartupGoesOn) /\ SF_vars(FinishStartup)
    /\ WF_vars(WheelRuns \/ WheelWaits) /\ SF_vars(WheelRuns)
    /\ SF_vars(Tick)

Spec == Init /\ [][Next]_vars /\ Fairness

-----------------------------------------------------------------------------
Deadlines == {Off} \cup 0..ActivityTicks \cup 0..SelectionTicks

BaseType == [phase : Phases, mode : Modes, stage : {"challenge", "proof"},
             invalid : BOOLEAN, ack : BOOLEAN, unknown : BOOLEAN,
             deadline : Deadlines, startup : BOOLEAN]

QueueType == {"none", "show", "dismiss", "other"}

PromptType == [phase : PromptPhase, response : BOOLEAN, visible : BOOLEAN, seen : BOOLEAN]

(* Every variable keeps its type. *)
TypeOK ==
    /\ wheel \in Kinds \cup {"none"}
    /\ base \in BaseType
    /\ line \in {"idle", "protocol", "buttons"}
    /\ queue \in QueueType
    /\ prompt \in PromptType
    /\ {usbLost, force, bridged, press, carried} \subseteq BOOLEAN
    /\ pc \in {"events", "startup", "wheel", "force", "bridge"}

(* Force is enabled only for a button that was pressed on a prompt, and    *)
(* one press enables it once: between two enablings somebody pressed again.*)
OnePressOneEnable == [][~force /\ force' => press]_vars

(* When a pass ends, enabled force belongs to the session that runs: a     *)
(* session that was reset has taken its force with it.                     *)
ForceIsOfThisSession == pc = "events" /\ force => ~carried

(* A session whose silence nobody times: scan traffic keeps no deadline,   *)
(* and the end of a status-memory startup disarms it until the next packet *)
(* that is ready.                                                          *)
Untimed == base.phase = "scanning" \/ base.deadline = Off

(* Force does not outlive the wheel it was enabled for: once the wheel is  *)
(* pulled, force ends, or a wheel comes back, or the session is untimed.   *)
RemovedWheelStops ==
    (force /\ wheel = "none") ~> (~force \/ wheel # "none" \/ Untimed)

(* The selection of a mode ends whatever the wheel sends: with a selected  *)
(* mode, a new handshake, or the updater bridge.                           *)
SelectionEnds == base.phase = "selecting" ~> (base.phase # "selecting" \/ bridged)
=============================================================================
