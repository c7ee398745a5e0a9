---------------------------- MODULE PedalService ----------------------------
(***************************************************************************)
(* The pedal service of the base (pedal/service.c) with its link            *)
(* (platform/dspic33e/pedal_link.c) and the session it keeps with V4 pedals *)
(* (transfer/session.c): discovery at the byte level, the V3 stream, V4     *)
(* requests, legacy polling, analog pedals and reconnection.  The pedals    *)
(* are outside the tree: they answer what they are asked, may be unplugged  *)
(* or exchanged at any time, and the line may lose or garble what it        *)
(* carries.  A step is one pass of the service, one interrupt, or one thing *)
(* the pedals, the line, the host or the user does.                         *)
(***************************************************************************)
EXTENDS Integers, Sequences, Functions

CONSTANTS
    Pedals,         \* the digital pedals that may be plugged in
    Tuned,          \* the V4 settings that are changed
    Channels,       \* PEDAL_LEGACY_CHANNEL_COUNT
    RetryLimit,     \* PEDAL_LEGACY_RETRY_LIMIT
    MaxErrors,      \* TRANSFER_MAX_ERRORS
    Environments    \* what may happen, and how often: see Environment

Settings == {"BRAKE_FORCE", "CLUTCH_CURVE", "BRAKE_CURVE", "THROTTLE_CURVE"}
Value == 0 .. 1
Channel == 0 .. Channels - 1

\* prompt: a deadline for an answer passes only when no answer is on its way.
\* clean: the line has lost nothing so far.
Environment == [prompt : BOOLEAN, clean : {TRUE}, analog : SUBSET {"present", "detected"},
                plugs : Nat, losses : Nat, changes : Nat, presses : Nat, restarts : Nat, controls : Nat]

ASSUME PedalAssumption ==
    /\ Pedals \subseteq {"V3", "V4", "legacy"} /\ Tuned \subseteq Settings
    /\ Channels \in Nat \ {0, 1} /\ RetryLimit \in Nat \ {0}
    /\ MaxErrors \in Nat /\ Environments \subseteq Environment

VARIABLES
    env,    \* what may still happen
    base,   \* PedalService, TransferSession, PedalInput and the link below them
    pedal,  \* the pedals, and what they have sent that has not arrived
    told    \* for each V4 setting the value that a pedal took last

vars == <<env, base, pedal, told>>

Phases == {"DETECT_REQUEST", "DETECT_RESPONSE", "PROTOCOL_REQUEST", "PROTOCOL_RESPONSE", "SELECT_PROTOCOL",
           "LEGACY_REQUEST", "LEGACY_RESPONSE", "V3_SWITCH_WAIT", "V3_START", "V3_STREAM",
           "V3_RECOVERY_SETUP", "V4_START", "V4_STREAM", "RECONNECT_HOLD_START", "RECONNECT_WAIT", "ANALOG"}
V3Phases == {"SAMPLE", "STATUS", "CONTROL", "INPUT"}
V4Phases == Settings \cup {"STATUS", "SELECT", "ADJUSTMENT_START", "ADJUSTMENT_WAIT", "HOST_TRANSFER"}
Bytes == {"v3", "v4", "protocol3", "protocol4", "other", "channel", "noise"}
Answers == {"status", "tuned", "started", "final"}
Items == Bytes \cup Answers \cup {"ack", "error", "bad", "badData"}

Plain == {"detect", "ask", "channel", "handshake", "recover", "frame", "control", "ack", "progress", "empty", "status",
          "probe"}
Message == [kind : Plain] \cup [kind : {"tune"}, setting : Settings, value : Value]
Nothing == [kind |-> "none"]

----------------------------------------------------------------------------
(* The link *)

\* What is being sent when the UART is turned off or changes its speed does not reach the pedals,
\* and the transmitter stays taken until the UART is on again.
Cut(tx) == IF tx.kind \in Plain \cup {"tune"} THEN [kind |-> "cut", of |-> tx.kind] ELSE tx

\* platform_pedal_link_begin_discovery, _begin_analog, _stop_receive, _begin_framed_receive and
\* _begin_transfer_receive
Listening(b, mode) ==
    [b EXCEPT !.mode = mode, !.byte = "none", !.frame = FALSE, !.rx = <<>>, !.tx = Cut(@)]

Free(b) == b.tx.kind = "none"

\* In transfer mode everything received that no pass has taken is thrown away.
Sending(b, message) ==
    [b EXCEPT !.tx = message, !.rx = IF b.mode = "transfer" THEN <<>> ELSE @]

----------------------------------------------------------------------------
(* Reconnection *)

Released(b) == [b EXCEPT !.input = "neutral"]

Idle4 == [active |-> FALSE, outbound |-> FALSE, retained |-> Nothing, errors |-> 0, remote |-> 0,
          ackPending |-> FALSE, phase |-> "STATUS", request |-> FALSE, response |-> FALSE, fed |-> FALSE]

\* What is left in an inactive session is never looked at.
ResetState(b) ==
    [b EXCEPT !.v4 = Idle4, !.control = FALSE, !.connected = FALSE, !.activity = FALSE,
              !.device = "none", !.channel = 0, !.retries = [c \in Channel |-> 0]]

\* pedal_analog_update, for samples above the release limits
AnalogInput(b) == [b EXCEPT !.learning = TRUE, !.input = IF b.learning THEN "live" ELSE "neutral"]

\* Input from a pedal that has answered is kept through the hold.
Reconnect(b) ==
    LET stopped == Listening(b, "off")
        reset   == ResetState(IF b.activity THEN stopped ELSE Released(stopped))
    IN  IF ~b.activity /\ b.analog = "detected"
        THEN [AnalogInput(reset) EXCEPT !.phase = "ANALOG", !.connected = TRUE]
        ELSE [reset EXCEPT !.phase = "RECONNECT_WAIT", !.late = FALSE]

\* pedal_service_request_startup: the retries of legacy channels are kept
Restarted(b) ==
    [ResetState(Released(Listening(b, "byte"))) EXCEPT
        !.channel = b.channel, !.retries = b.retries,
        !.phase = "DETECT_REQUEST", !.late = FALSE, !.press = FALSE, !.pending = {}, !.sent = 0,
        !.recovering = FALSE, !.forgot = @ \/ b.pending /= {} \/ b.tx.kind = "tune"]

----------------------------------------------------------------------------
(* The session with V4 pedals *)

\* A second attempt at an acknowledgement, or at the request that is not acknowledged.
Retried(b) ==
    LET v == b.v4 IN
    IF ~Free(b) THEN b
    ELSE IF v.ackPending THEN [Sending(b, [kind |-> "ack"]) EXCEPT !.v4.ackPending = FALSE]
    ELSE IF v.outbound THEN Sending(b, v.retained)
    ELSE b

Acknowledged(b) ==
    IF Free(b) THEN [Sending(b, [kind |-> "ack"]) EXCEPT !.v4.ackPending = FALSE]
    ELSE [b EXCEPT !.v4.ackPending = TRUE]

\* apply_v4_status: what the answer is, is known only from what was asked.  One that is taken while
\* a setting is still being sent is the answer to something else.
Applied(b, item) ==
    IF ~b.v4.request /\ b.v4.phase /= "ADJUSTMENT_WAIT" THEN b
    ELSE [b EXCEPT !.connected = TRUE, !.v4.response = TRUE, !.forgot = @ \/ b.tx.kind = "tune",
                   !.input = IF b.v4.phase /= "STATUS" THEN @
                             ELSE IF item = "status" THEN "live" ELSE "wrong"]

\* An adjustment waits for its answer, so that the session's deadline is not the next one.
Probing(b) == b.v4.phase = "ADJUSTMENT_WAIT" \/ (b.v4.phase = "ADJUSTMENT_START" /\ b.v4.request)

\* Only frames with a payload put off the session's deadline for data, the earlier of its two.
Fed(b) == [b EXCEPT !.v4.fed = TRUE, !.late = @ /\ Probing(b) /\ b.v4.fed]

RecordError(b) ==
    IF b.v4.errors = MaxErrors
    THEN [IF Free(b) THEN Sending(b, [kind |-> "progress"]) ELSE b EXCEPT !.v4.active = FALSE]
    ELSE [b EXCEPT !.v4.errors = @ + 1]

Received4(b, item) ==
    LET fresh == [b EXCEPT !.v4.errors = 0] IN
    CASE item = "bad" -> RecordError(b)
      [] item = "badData" -> Fed(RecordError(b))
      [] item = "ack" -> [fresh EXCEPT !.v4.outbound = FALSE, !.v4.remote = 0]
      [] item = "error" ->
            LET counted == [fresh EXCEPT !.v4.remote = (@ + 1) % 4]
            IN  IF counted.v4.remote <= 2 THEN counted ELSE Retried(counted)
      [] item \in Answers -> Fed(Applied(Acknowledged(fresh), item))

\* transfer_session_send
CanRequest(b) == b.v4.active /\ ~b.v4.outbound /\ Free(b)
Requested(b, message) ==
    [Sending(b, message) EXCEPT !.v4.outbound = TRUE, !.v4.retained = message, !.v4.request = TRUE,
                                !.v4.fed = FALSE, !.late = FALSE]

\* select_post_tuning_phase.  No caller queues a host transfer or a host adjustment.
AfterTuning(b) == IF b.press THEN "ADJUSTMENT_START" ELSE "HOST_TRANSFER"

NextV4Phase(b) ==
    CASE b.v4.phase = "BRAKE_FORCE" -> "CLUTCH_CURVE"
      [] b.v4.phase = "CLUTCH_CURVE" -> "BRAKE_CURVE"
      [] b.v4.phase = "BRAKE_CURVE" -> "THROTTLE_CURVE"
      [] b.v4.phase = "THROTTLE_CURVE" -> AfterTuning(b)
      [] b.v4.phase = "STATUS" -> "SELECT"

\* select_v4_phase
SelectedPhase(b) ==
    IF "BRAKE_FORCE" \in b.pending THEN "BRAKE_FORCE"
    ELSE IF "CLUTCH_CURVE" \in b.pending THEN "CLUTCH_CURVE"
    ELSE IF "THROTTLE_CURVE" \in b.pending THEN "THROTTLE_CURVE"
    ELSE IF "BRAKE_CURVE" \in b.pending THEN "BRAKE_CURVE"
    ELSE IF b.press THEN "ADJUSTMENT_START" ELSE "STATUS"

BeginAdjustmentWait(b) ==
    [b EXCEPT !.v4.phase = "ADJUSTMENT_WAIT", !.v4.request = FALSE, !.v4.response = FALSE, !.late = FALSE]

\* Broken variant: the request that started it stays.
FinishAdjustmentKept(b) ==
    [b EXCEPT !.v4.phase = "HOST_TRANSFER", !.v4.request = FALSE, !.v4.response = FALSE, !.late = FALSE]

FinishAdjustment(b) ==
    [b EXCEPT !.v4.phase = "HOST_TRANSFER", !.v4.request = FALSE, !.v4.response = FALSE, !.press = FALSE,
              !.late = FALSE]

\* Broken variant: without a look at the value that was sent.
SettledUnseen(b) == b.pending \ {b.v4.phase}

\* A setting is done with when the value that was sent is still the one to send.
Settled(b) ==
    IF b.v4.phase \in Settings /\ b.tuning[b.v4.phase] = b.sent THEN b.pending \ {b.v4.phase} ELSE b.pending

Completed4(b) ==
    IF b.v4.phase = "ADJUSTMENT_START" THEN BeginAdjustmentWait(b)
    ELSE IF b.v4.phase = "ADJUSTMENT_WAIT" THEN FinishAdjustment(b)
    ELSE [b EXCEPT !.pending = Settled(b), !.v4.phase = NextV4Phase(b), !.v4.request = FALSE,
                   !.v4.response = FALSE, !.late = FALSE]

\* send_v4_request
Next4(b) ==
    LET p == b.v4.phase IN
    CASE p = "SELECT" -> [b EXCEPT !.v4.phase = SelectedPhase(b)]
      [] p = "HOST_TRANSFER" -> [b EXCEPT !.v4.phase = "STATUS"]
      [] p \in Settings /\ p \notin b.pending -> [b EXCEPT !.v4.phase = NextV4Phase(b)]
      [] p \in Settings /\ p \in b.pending ->
            IF CanRequest(b)
            THEN [Requested(b, [kind |-> "tune", setting |-> p, value |-> b.tuning[p]]) EXCEPT
                    !.sent = b.tuning[p]]
            ELSE b
      [] p = "STATUS" -> IF CanRequest(b) THEN Requested(b, [kind |-> "status"]) ELSE b
      [] p = "ADJUSTMENT_START" -> IF CanRequest(b) THEN Requested(b, [kind |-> "probe"]) ELSE b

\* transfer_session_keepalive.  The first is due when 100 ms have passed since the wait began.
Beaten(b, beat) == IF beat /\ b.v4.fed /\ Free(b) THEN Sending(b, [kind |-> "empty"]) ELSE b

\* The rest of a pass, once a frame was taken and the session has been polled.
Continued4(b, beat) ==
    IF b.v4.phase = "ADJUSTMENT_WAIT"
    THEN LET kept == Beaten(b, beat) IN
         IF b.v4.response THEN Completed4(kept) ELSE IF b.late THEN FinishAdjustment(kept) ELSE kept
    ELSE IF b.v4.response THEN Completed4(b)
    ELSE IF b.v4.phase = "ADJUSTMENT_START" /\ b.v4.request /\ b.late THEN BeginAdjustmentWait(b)
    ELSE IF b.v4.request THEN b
    ELSE Next4(b)

\* transfer_session_poll.  A wait that began without an answer has 100 ms to its first heartbeat,
\* and the request took 100 ms: the session's 200 ms for data are over before it.
SessionOver(b) ==
    \/ ~b.v4.active
    \/ b.late /\ (Probing(b) => b.v4.phase = "ADJUSTMENT_WAIT" /\ ~b.v4.fed)

----------------------------------------------------------------------------
(* One pass of the service: pedal_service_run *)

In(p) == base.phase = p

Pass(b) == /\ base' = b
           /\ UNCHANGED <<env, pedal, told>>

DetectRequest ==
    /\ In("DETECT_REQUEST") /\ Free(base)
    /\ Pass([Sending(base, [kind |-> "detect"]) EXCEPT !.phase = "DETECT_RESPONSE", !.late = FALSE])

Identities == {"v3", "v4"}

DetectResponse ==
    /\ In("DETECT_RESPONSE")
    /\ LET taken == [base EXCEPT !.byte = "none"] IN
       IF base.byte \in Identities
       THEN Pass([taken EXCEPT !.device = base.byte, !.phase = "PROTOCOL_REQUEST"])
       ELSE Pass(IF base.late THEN Reconnect(taken) ELSE taken)

ProtocolRequest ==
    /\ In("PROTOCOL_REQUEST") /\ Free(base)
    /\ Pass([Sending(base, [kind |-> "ask"]) EXCEPT !.phase = "PROTOCOL_RESPONSE", !.late = FALSE])

ProtocolResponse ==
    /\ In("PROTOCOL_RESPONSE")
    /\ IF base.byte /= "none"
       THEN Pass([base EXCEPT !.byte = "none", !.response = base.byte, !.phase = "SELECT_PROTOCOL"])
       ELSE base.late /\ Pass(Reconnect(base))

\* pedal_protocol_select: noise may be one of the values that mean nobody is there.
Selected(device, response) ==
    IF device = "v3" /\ response = "protocol3" THEN {"V3_SWITCH_WAIT"}
    ELSE IF device = "v4" /\ response = "protocol4" THEN {"V4_START"}
    ELSE IF response = "noise" THEN {"LEGACY_REQUEST", "DETECT_REQUEST"} ELSE {"LEGACY_REQUEST"}

SelectProtocol ==
    /\ In("SELECT_PROTOCOL")
    /\ \E next \in Selected(base.device, base.response) :
         Pass([base EXCEPT !.phase = next, !.channel = 0, !.late = FALSE])

LegacyRequest ==
    /\ In("LEGACY_REQUEST") /\ Free(base)
    /\ Pass([Sending(base, [kind |-> "channel"]) EXCEPT !.phase = "LEGACY_RESPONSE", !.late = FALSE])

\* Broken variants: every request starts to count again; no wrap.
NextChannelAfresh(b) ==
    [b EXCEPT !.channel = (@ + 1) % Channels, !.phase = "LEGACY_REQUEST", !.retries = [c \in Channel |-> 0]]
NextChannelOn(b) == [b EXCEPT !.channel = @ + 1, !.phase = "LEGACY_REQUEST"]

NextChannel(b) == [b EXCEPT !.channel = (@ + 1) % Channels, !.phase = "LEGACY_REQUEST"]

LegacyResponse ==
    /\ In("LEGACY_RESPONSE")
    /\ LET c == base.channel IN
       \/ /\ base.byte /= "none"
          /\ Pass(NextChannel([base EXCEPT !.byte = "none", !.input = "live", !.retries[c] = 0,
                                           !.activity = @ \/ c = 0,
                                           !.connected = @ \/ c = Channels - 1]))
       \/ /\ base.byte = "none" /\ base.late
          /\ Pass(IF base.retries[c] < RetryLimit THEN NextChannel([base EXCEPT !.retries[c] = @ + 1])
                  ELSE Reconnect(base))

V3SwitchWait ==
    /\ In("V3_SWITCH_WAIT") /\ base.late
    /\ Pass([Listening(base, "frame") EXCEPT !.phase = "V3_START"])

V3Start ==
    /\ In("V3_START") /\ Free(base)
    /\ Pass([Sending(base, [kind |-> IF base.recovering THEN "recover" ELSE "handshake"]) EXCEPT
                !.phase = "V3_STREAM", !.v3 = "SAMPLE", !.late = FALSE, !.recovering = FALSE])

V3Sample ==
    /\ In("V3_STREAM") /\ base.v3 = "SAMPLE"
    /\ IF base.frame
       THEN Pass([base EXCEPT !.frame = FALSE, !.late = FALSE, !.input = "live", !.connected = TRUE,
                              !.activity = TRUE, !.v3 = "STATUS"])
       ELSE Pass(IF base.late THEN [base EXCEPT !.recovering = TRUE, !.phase = "V3_RECOVERY_SETUP"]
                 ELSE [base EXCEPT !.v3 = "STATUS"])

\* Status, input and calibration reports are due or not; each has one attempt.
V3Output ==
    /\ In("V3_STREAM") /\ base.v3 \in {"STATUS", "INPUT"}
    /\ \E due \in BOOLEAN :
         Pass([IF due /\ Free(base) THEN Sending(base, [kind |-> "frame"]) ELSE base EXCEPT
                 !.v3 = IF base.v3 = "STATUS" THEN "CONTROL" ELSE "SAMPLE"])

\* A control that is sent starts the long wait for reports again.
V3Control ==
    /\ In("V3_STREAM") /\ base.v3 = "CONTROL"
    /\ Pass([IF base.control /\ Free(base)
             THEN [Sending(base, [kind |-> "control"]) EXCEPT !.control = FALSE, !.late = FALSE]
             ELSE base EXCEPT !.v3 = "INPUT"])

V3RecoverySetup ==
    /\ In("V3_RECOVERY_SETUP")
    /\ IF ~base.activity /\ base.recovering
       THEN /\ Free(base)
            /\ Pass(Reconnect([Sending(base, [kind |-> "recover"]) EXCEPT !.recovering = FALSE]))
       ELSE Pass(Reconnect(base))

V4Start ==
    /\ In("V4_START")
    /\ Pass([Listening(base, "transfer") EXCEPT !.phase = "V4_STREAM", !.v4 = [Idle4 EXCEPT !.active = TRUE],
                                                !.late = FALSE])

\* service_v4_stream
V4Stream ==
    /\ In("V4_STREAM")
    /\ \E beat \in BOOLEAN :
         LET got == IF base.rx = <<>> THEN base
                    ELSE Received4([base EXCEPT !.rx = Tail(@)], Head(base.rx))
         IN  Pass(IF SessionOver(got)
                  THEN [got EXCEPT !.v4.active = FALSE, !.activity = TRUE,
                                   !.phase = "RECONNECT_HOLD_START"]
                  ELSE Continued4(got, beat))

ReconnectHoldStart ==
    /\ In("RECONNECT_HOLD_START")
    /\ Pass([base EXCEPT !.phase = "RECONNECT_WAIT", !.late = FALSE])

\* Broken variants: input is kept after the hold; every pass begins the hold again.
ReconnectWaitHeld ==
    /\ In("RECONNECT_WAIT")
    /\ LET waiting == ResetState(Listening(base, "off"))
       IN  Pass(IF base.late THEN [Listening(waiting, "byte") EXCEPT !.phase = "DETECT_REQUEST", !.late = FALSE]
                ELSE waiting)
ReconnectWaitAgain ==
    In("RECONNECT_WAIT") /\ Pass([ResetState(Listening(base, "off")) EXCEPT !.late = FALSE])

ReconnectWait ==
    /\ In("RECONNECT_WAIT")
    /\ LET stopped == Listening(base, "off")
           waiting == IF base.activity THEN ResetState(stopped) ELSE stopped
       IN  Pass(IF base.late
                THEN [Released(Listening(waiting, "byte")) EXCEPT !.phase = "DETECT_REQUEST", !.late = FALSE]
                ELSE waiting)

Run == \/ DetectRequest \/ DetectResponse \/ ProtocolRequest \/ ProtocolResponse \/ SelectProtocol
       \/ LegacyRequest \/ LegacyResponse \/ V3SwitchWait \/ V3Start \/ V3Sample \/ V3Output \/ V3Control
       \/ V3RecoverySetup \/ V4Start \/ V4Stream \/ ReconnectHoldStart \/ ReconnectWait

----------------------------------------------------------------------------
(* Time *)

Waits == {"V3_SWITCH_WAIT", "RECONNECT_WAIT"}
Answered == {"DETECT_RESPONSE", "PROTOCOL_RESPONSE", "LEGACY_RESPONSE", "V3_STREAM"}
WaitsForPedal == base.v4.request \/ base.v4.outbound

Armed == \/ base.phase \in Waits \cup Answered
         \/ In("V4_STREAM") /\ (base.v4.phase = "ADJUSTMENT_WAIT" \/ WaitsForPedal)

\* Waits of seconds, which no transmission or answer outlasts.
LongWait == \/ base.phase = "RECONNECT_WAIT"
            \/ In("V3_STREAM") /\ base.tx.kind \notin {"handshake", "recover"}
            \/ In("V4_STREAM") /\ base.v4.phase = "ADJUSTMENT_WAIT"

\* No answer is on its way between the pedals and the service.
Quiet == Free(base) /\ base.byte = "none" /\ ~base.frame /\ Range(base.rx) \cup Range(pedal.air) \subseteq {"error"}

\* A transmission takes a few milliseconds, less than any wait for an answer.
DeadlinePasses ==
    /\ Armed /\ ~base.late
    /\ \/ In("V3_SWITCH_WAIT")
       \/ LongWait /\ (env.prompt /\ In("V3_STREAM") => ~pedal.streaming)
       \/ ~LongWait /\ Free(base) /\ (env.prompt => Quiet)
    /\ Pass([base EXCEPT !.late = TRUE])

----------------------------------------------------------------------------
(* The line and the pedals *)

AirLimit == 3

\* What the pedals answer to a message, if they are of the kind that understands it.
Answer(message) ==
    LET k == message.kind IN
    CASE k = "detect" /\ pedal.kind \in {"V3", "legacy"} -> <<"v3">>
      [] k = "detect" /\ pedal.kind = "V4" -> <<"v4">>
      [] k = "ask" /\ pedal.kind = "V3" -> <<"protocol3">>
      [] k = "ask" /\ pedal.kind = "V4" -> <<"protocol4">>
      [] k = "ask" /\ pedal.kind = "legacy" -> <<"other">>
      [] k = "channel" /\ pedal.kind = "legacy" -> <<"channel">>
      [] k = "status" /\ pedal.kind = "V4" -> <<"ack", "status">>
      [] k = "tune" /\ pedal.kind = "V4" -> <<"ack", "tuned">>
      [] k = "probe" /\ pedal.kind = "V4" -> <<"ack", "started">>
      [] OTHER -> <<>>

Streams(message) == \/ message.kind = "handshake" /\ pedal.kind = "V3"
                    \/ pedal.streaming /\ message.kind /= "detect"
Probes(message) == \/ message.kind = "probe" /\ pedal.kind = "V4"
                   \/ pedal.probing /\ message.kind /= "detect"

\* _DMA2Interrupt: the transmission has ended.
Sent(b) == [b EXCEPT !.tx = Nothing, !.rx = IF b.mode = "transfer" THEN <<>> ELSE @]

TransmissionEnds ==
    /\ base.tx.kind /= "none" /\ base.mode /= "off"
    /\ base' = Sent(base)
    /\ UNCHANGED env
    /\ IF base.tx.kind = "cut" THEN UNCHANGED <<pedal, told>>
       ELSE /\ Len(pedal.air) + 2 <= AirLimit
            /\ pedal' = [pedal EXCEPT !.air = @ \o Answer(base.tx), !.streaming = Streams(base.tx),
                                      !.probing = Probes(base.tx), !.garbled = FALSE]
            /\ told' = IF base.tx.kind = "tune" /\ pedal.kind = "V4"
                       THEN [told EXCEPT ![base.tx.setting] = base.tx.value] ELSE told

Spend(field) == env[field] > 0 /\ env' = [env EXCEPT ![field] = @ - 1, !.clean = @ /\ field /= "losses"]

\* A message is garbled; in a session a V4 pedal notices, and says so as long as nothing better comes.
TransmissionGarbled ==
    /\ base.tx.kind \in Plain \cup {"tune"} /\ base.mode /= "off" /\ Spend("losses")
    /\ base' = Sent(base)
    /\ pedal' = [pedal EXCEPT !.garbled = pedal.kind = "V4" /\ base.mode = "transfer"]
    /\ UNCHANGED told

Complain ==
    /\ pedal.garbled /\ pedal.air = <<>>
    /\ pedal' = [pedal EXCEPT !.air = <<"error">>]
    /\ UNCHANGED <<env, base, told>>

\* The user has moved the pedal, or the pedal has given up: the end of an adjustment.
AdjustmentEnds ==
    /\ pedal.probing /\ Len(pedal.air) < AirLimit
    /\ pedal' = [pedal EXCEPT !.probing = FALSE, !.air = Append(@, "final")]
    /\ UNCHANGED <<env, base, told>>

\* process_received_byte, retain_transfer_receive_byte
Arrived(b, item) ==
    IF b.mode = "byte" /\ item \in Bytes THEN [b EXCEPT !.byte = item]
    ELSE IF b.mode = "transfer" /\ item \notin Bytes THEN [b EXCEPT !.rx = Append(@, item)]
    ELSE b

Arrive ==
    /\ pedal.air /= <<>> /\ Len(base.rx) < AirLimit
    /\ base' = Arrived(base, Head(pedal.air))
    /\ pedal' = [pedal EXCEPT !.air = Tail(@)]
    /\ UNCHANGED <<env, told>>

\* With its bounds lost, nothing of it is noticed.
ArriveGarbled ==
    /\ pedal.air /= <<>> /\ Len(base.rx) < AirLimit /\ Spend("losses")
    /\ \/ base' = Arrived(base, IF base.mode = "byte" THEN "noise"
                                ELSE IF Head(pedal.air) \in Answers THEN "badData" ELSE "bad")
       \/ UNCHANGED base
    /\ pedal' = [pedal EXCEPT !.air = Tail(@)]
    /\ UNCHANGED told

\* V3 pedals report without being asked.  While the base listens for bytes this is noise.
Report ==
    /\ pedal.streaming
    /\ base' = CASE base.mode = "frame" -> [base EXCEPT !.frame = TRUE]
                 [] base.mode = "byte" -> [base EXCEPT !.byte = "noise"]
                 [] OTHER -> base
    /\ UNCHANGED <<env, pedal, told>>

Unplugged == [kind |-> "none", streaming |-> FALSE, probing |-> FALSE, garbled |-> FALSE, air |-> <<>>]

Plug ==
    /\ Spend("plugs")
    /\ \E k \in Pedals \cup {"none"} : k /= pedal.kind /\ pedal' = [Unplugged EXCEPT !.kind = k]
    /\ UNCHANGED <<base, told>>

----------------------------------------------------------------------------
(* The rest of the firmware *)

\* pedal_service_set_analog_samples
AnalogSamples ==
    /\ \E level \in env.analog \cup {"absent"} :
         LET b == [base EXCEPT !.analog = level] IN
         /\ level /= base.analog \/ (In("ANALOG") /\ base.input /= "live")
         /\ base' = IF ~In("ANALOG") THEN b
                    ELSE IF level = "absent" THEN Reconnect(Released([b EXCEPT !.learning = FALSE]))
                    ELSE AnalogInput(b)
    /\ UNCHANGED <<env, pedal, told>>

\* pedal_service_set_v4_tuning
ChangeTuning ==
    /\ Spend("changes")
    /\ \E s \in Tuned, v \in Value :
         /\ base.tuning[s] /= v
         /\ base' = [base EXCEPT !.tuning[s] = v, !.pending = @ \cup {s}]
    /\ UNCHANGED <<pedal, told>>

\* pedal_service_request_button_adjustment, behind pedal_service_adjustment_available
PressAdjustment ==
    /\ base.v4.active /\ Spend("presses")
    /\ base' = [base EXCEPT !.press = TRUE]
    /\ UNCHANGED <<pedal, told>>

\* pedal_service_request_control, behind pedal_service_legacy_mode
RequestControl ==
    /\ base.phase \in {"V3_START", "V3_STREAM"} /\ Spend("controls")
    /\ base' = [base EXCEPT !.control = TRUE]
    /\ UNCHANGED <<pedal, told>>

\* The console asks for pedal_service_request_startup.
RequestStartup ==
    /\ Spend("restarts")
    /\ base' = Restarted(base)
    /\ UNCHANGED <<pedal, told>>

----------------------------------------------------------------------------
Init ==
    /\ env \in Environments
    /\ base = [phase |-> "DETECT_REQUEST", device |-> "none", response |-> "none", activity |-> FALSE,
               connected |-> FALSE, late |-> FALSE, input |-> "neutral", analog |-> "absent",
               learning |-> FALSE, channel |-> 0, retries |-> [c \in Channel |-> 0],
               v3 |-> "SAMPLE", control |-> FALSE, recovering |-> FALSE, v4 |-> Idle4, press |-> FALSE,
               tuning |-> [s \in Settings |-> 0], pending |-> {}, sent |-> 0, forgot |-> FALSE,
               mode |-> "byte", tx |-> Nothing, byte |-> "none", frame |-> FALSE, rx |-> <<>>]
    /\ pedal = Unplugged
    /\ told = [s \in Settings |-> 0]

Line == TransmissionEnds \/ TransmissionGarbled \/ Complain \/ AdjustmentEnds \/ Arrive \/ ArriveGarbled
        \/ Report \/ Plug

Firmware == AnalogSamples \/ ChangeTuning \/ PressAdjustment \/ RequestControl \/ RequestStartup

Next == Run \/ DeadlinePasses \/ Line \/ Firmware

\* The main loop runs the service, time passes, transmissions end, and pedals report and answer.
Fairness ==
    /\ WF_vars(Run) /\ WF_vars(DeadlinePasses)
    /\ WF_vars(TransmissionEnds) /\ WF_vars(Arrive) /\ WF_vars(Report)

Spec == Init /\ [][Next]_vars /\ Fairness

----------------------------------------------------------------------------
(* Properties *)

EnvType == [prompt : BOOLEAN, clean : BOOLEAN, analog : SUBSET {"present", "detected"}, plugs : Nat,
            losses : Nat, changes : Nat, presses : Nat, restarts : Nat, controls : Nat]

TxType == Message \cup {Nothing} \cup [kind : {"cut"}, of : Plain \cup {"tune"}]

Retained == Message \cup {Nothing}
ErrorCount == 0 .. MaxErrors
RemoteCount == 0 .. 3

V4Type == [active : BOOLEAN, outbound : BOOLEAN, retained : Retained, errors : ErrorCount,
           remote : RemoteCount, ackPending : BOOLEAN, phase : V4Phases, request : BOOLEAN,
           response : BOOLEAN, fed : BOOLEAN]

Inputs == {"neutral", "live", "wrong"}
Levels == {"absent", "present", "detected"}
Modes == {"off", "byte", "frame", "transfer"}
Devices == {"none"} \cup Identities
Received == {"none"} \cup Bytes
Retries == [Channel -> 0 .. RetryLimit]
Tuning == [Settings -> Value]
Ring == Seq(Items \ Bytes)

BaseType == [phase : Phases, device : Devices, response : Received, activity : BOOLEAN, connected : BOOLEAN,
             late : BOOLEAN, input : Inputs, analog : Levels, learning : BOOLEAN, channel : Channel,
             retries : Retries, v3 : V3Phases, control : BOOLEAN, recovering : BOOLEAN, v4 : V4Type,
             press : BOOLEAN, tuning : Tuning, pending : SUBSET Settings, sent : Value, forgot : BOOLEAN,
             mode : Modes, tx : TxType, byte : Received, frame : BOOLEAN, rx : Ring]

PedalType == [kind : {"none"} \cup Pedals, streaming : BOOLEAN, probing : BOOLEAN, garbled : BOOLEAN,
              air : Seq(Items)]

\* Every variable keeps its type; a channel, an error count and a retry count stay within their bounds.
TypeOK == env \in EnvType /\ base \in BaseType /\ pedal \in PedalType /\ told \in Tuning

Searching == {"DETECT_REQUEST", "DETECT_RESPONSE", "PROTOCOL_REQUEST", "PROTOCOL_RESPONSE",
              "SELECT_PROTOCOL", "V3_SWITCH_WAIT", "V3_START", "V4_START"}

\* While pedals are searched for, none are reported as connected and no pedal is published as pressed:
\* the hold after a failure ends before discovery begins (release_published_input).
NeutralWhileSearching ==
    base.phase \in Searching => base.input = "neutral" /\ ~base.connected /\ ~base.activity

\* On a line that loses nothing, a V4 setting that does not wait to be sent is one that pedals have
\* taken with its present value, however often it was changed on the way and whatever answers were
\* late (complete_v4_response), unless the console's restart threw it away, or the answer to
\* something else was taken for its own before it had been sent.
TuningTaken ==
    env.clean /\ ~base.forgot => \A s \in Settings \ base.pending : base.tuning[s] = told[s]

\* Pedals that are gone for good do not stay pressed.
GoneIsReleased == <>[](pedal.kind = "none" /\ base.analog = "absent") => <>[](base.input = "neutral")

\* Pedals that are plugged in for good are connected in the end.
PluggedIsConnected ==
    \A k \in Pedals : <>[](pedal.kind = k /\ env.prompt) => []<>base.connected

\* An adjustment that was asked for comes to an end while its pedals stay.
PressEnds == <>[](pedal.kind = "V4" /\ env.prompt) => [](base.press => <>~base.press)

\* "A completed status response publishes its axes" (pedal/service.c:397): nothing else does.
AxesFromStatus == base.input /= "wrong"

\* "Before any valid digital input, the service submits the recovery handshake and waits 20
\* milliseconds before discovery" (pedal/service.c:210): the handshake goes out.
RecoveryHandshakeSent == ~(base.tx.kind = "cut" /\ base.tx.of = "recover")

\* An adjustment whose first answer does not come goes on to the "asynchronous operation phase"
\* (pedal/service.c:1180) with its "20-second operation deadline" (pedal/service.c:1030): while its
\* pedals adjust, the session's own deadline does not end it.
OperationHasItsTime ==
    [][base.v4.phase = "ADJUSTMENT_WAIT" /\ pedal.probing => ~(base.v4.active /\ base.late /\ ~base'.v4.active)]_vars

\* "Transfer-mode UART reception stays enabled so overlapping V4 response bytes remain in the receive
\* ring" (pedal_link.c:441): they remain until a pass takes them.
OverlapRemains ==
    [][In("V4_STREAM") /\ base.rx /= <<>> /\ ~Free(base) /\ base'.phase = "V4_STREAM"
       => base'.rx \in {base.rx, Tail(base.rx)} \/ Len(base'.rx) > Len(base.rx)]_vars
=============================================================================
