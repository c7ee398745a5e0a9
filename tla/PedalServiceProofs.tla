------------------------- MODULE PedalServiceProofs -------------------------
(***************************************************************************)
(* The pedal service, for every set of pedals and settings, every number of *)
(* legacy channels, every retry and error limit and every environment.      *)
(***************************************************************************)
EXTENDS PedalService, SequenceTheorems, TLAPS

----------------------------------------------------------------------------
(* The link and the reset of the service keep the type of what the base holds. *)

LEMMA MessageTypes ==
  /\ Message \subseteq TxType /\ Retained \subseteq TxType /\ Message \subseteq Retained /\ Nothing \in TxType
  /\ Nothing \in Retained /\ \A k \in Plain : [kind |-> k] \in Message
  /\ \A s \in Settings, v \in Value : [kind |-> "tune", setting |-> s, value |-> v] \in Message
  BY DEF Message, TxType, Retained

LEMMA CutType == ASSUME NEW tx \in TxType PROVE Cut(tx) \in TxType
  BY DEF Cut, TxType, Message

LEMMA EmptyTypes == <<>> \in Ring /\ "none" \in Received /\ "neutral" \in Inputs /\ "live" \in Inputs /\ 0 \in Value
  BY DEF Ring, Received, Inputs, Value

LEMMA ListeningType ==
  ASSUME NEW b \in BaseType, NEW mode \in Modes
  PROVE  Listening(b, mode) \in BaseType
<1>1. Cut(b.tx) \in TxType
  BY CutType DEF BaseType
<1> QED
  BY <1>1, EmptyTypes DEF Listening, BaseType

LEMMA SendingType ==
  ASSUME NEW b \in BaseType, NEW message \in TxType
  PROVE  Sending(b, message) \in BaseType
<1> DEFINE rx == IF b.mode = "transfer" THEN <<>> ELSE b.rx
<1>1. rx \in Ring
  BY EmptyTypes DEF BaseType
<1>2. Sending(b, message) = [b EXCEPT !.tx = message, !.rx = rx]
  BY DEF Sending
<1> HIDE DEF rx
<1> QED
  BY <1>1, <1>2 DEF BaseType

LEMMA ReleasedType == ASSUME NEW b \in BaseType PROVE Released(b) \in BaseType
  BY EmptyTypes DEF Released, BaseType

LEMMA IdleType == Idle4 \in V4Type /\ [Idle4 EXCEPT !.active = TRUE] \in V4Type
<1>1. 0 \in ErrorCount /\ 0 \in RemoteCount /\ "STATUS" \in V4Phases /\ Nothing \in Retained
  BY PedalAssumption, MessageTypes DEF ErrorCount, RemoteCount, V4Phases
<1> QED
  BY <1>1 DEF Idle4, V4Type

LEMMA ResetType == ASSUME NEW b \in BaseType PROVE ResetState(b) \in BaseType
<1>1. 0 \in Channel /\ [c \in Channel |-> 0] \in Retries /\ "none" \in Devices
  BY PedalAssumption DEF Channel, Retries, Devices
<1> QED
  BY <1>1, IdleType DEF ResetState, BaseType

LEMMA AnalogType == ASSUME NEW b \in BaseType PROVE AnalogInput(b) \in BaseType
<1> DEFINE input == IF b.learning THEN "live" ELSE "neutral"
<1>1. input \in Inputs
  BY EmptyTypes
<1>2. AnalogInput(b) = [b EXCEPT !.learning = TRUE, !.input = input]
  BY DEF AnalogInput
<1> HIDE DEF input
<1> QED
  BY <1>1, <1>2 DEF BaseType

LEMMA ReconnectType == ASSUME NEW b \in BaseType PROVE Reconnect(b) \in BaseType
<1> DEFINE stopped == Listening(b, "off")
           reset   == ResetState(IF b.activity THEN stopped ELSE Released(stopped))
<1>1. stopped \in BaseType
  BY ListeningType DEF Modes
<1>2. reset \in BaseType
  BY <1>1, ReleasedType, ResetType
<1>3. AnalogInput(reset) \in BaseType
  BY <1>2, AnalogType
<1> HIDE DEF reset
<1>4. "ANALOG" \in Phases /\ "RECONNECT_WAIT" \in Phases
  BY DEF Phases
<1>5. [AnalogInput(reset) EXCEPT !.phase = "ANALOG", !.connected = TRUE] \in BaseType
  BY <1>3, <1>4 DEF BaseType
<1>6. [reset EXCEPT !.phase = "RECONNECT_WAIT", !.late = FALSE] \in BaseType
  BY <1>2, <1>4 DEF BaseType
<1> QED
  BY <1>5, <1>6 DEF Reconnect, reset

LEMMA RestartedType == ASSUME NEW b \in BaseType PROVE Restarted(b) \in BaseType
<1> DEFINE reset == ResetState(Released(Listening(b, "byte")))
<1>1. reset \in BaseType
  BY ListeningType, ReleasedType, ResetType DEF Modes
<1> HIDE DEF reset
<1> DEFINE forgot == reset.forgot \/ b.pending /= {} \/ b.tx.kind = "tune"
<1>2. forgot \in BOOLEAN /\ {} \in SUBSET Settings /\ "DETECT_REQUEST" \in Phases
  BY <1>1 DEF BaseType, Phases
<1> HIDE DEF forgot
<1> DEFINE begun == [reset EXCEPT !.channel = b.channel, !.retries = b.retries,
                                  !.phase = "DETECT_REQUEST", !.late = FALSE, !.press = FALSE]
<1>3. begun \in BaseType
  <2>1. b.channel \in Channel /\ b.retries \in Retries
    BY DEF BaseType
  <2> QED
    BY <1>1, <1>2, <2>1 DEF BaseType
<1>4. Restarted(b) = [begun EXCEPT !.pending = {}, !.sent = 0, !.recovering = FALSE, !.forgot = forgot]
  BY DEF Restarted, reset, forgot
<1> HIDE DEF begun
<1> QED
  BY <1>2, <1>3, <1>4, EmptyTypes DEF BaseType

----------------------------------------------------------------------------
(* The session with V4 pedals does so too. *)

LEMMA FieldTypes == ASSUME NEW b \in BaseType
                    PROVE  /\ b.v4 \in V4Type /\ b.tx \in TxType /\ b.rx \in Ring /\ b.pending \subseteq Settings
                           /\ b.tuning \in Tuning /\ b.sent \in Value /\ b.phase \in Phases /\ b.mode \in Modes
                           /\ b.input \in Inputs /\ b.press \in BOOLEAN /\ b.late \in BOOLEAN
                           /\ b.forgot \in BOOLEAN /\ b.connected \in BOOLEAN /\ b.activity \in BOOLEAN
  BY DEF BaseType

LEMMA SessionType ==
  ASSUME NEW b \in BaseType, NEW v \in V4Type
  PROVE  [b EXCEPT !.v4 = v] \in BaseType
  BY DEF BaseType

LEMMA FlagTypes ==
  ASSUME NEW b \in BaseType, NEW set \in BOOLEAN
  PROVE  /\ [b EXCEPT !.v4.active = set] \in BaseType /\ [b EXCEPT !.v4.outbound = set] \in BaseType
         /\ [b EXCEPT !.v4.ackPending = set] \in BaseType /\ [b EXCEPT !.v4.fed = set] \in BaseType
<1>1. b.v4 \in V4Type
  BY FieldTypes
<1>2. /\ [b.v4 EXCEPT !.active = set] \in V4Type /\ [b.v4 EXCEPT !.outbound = set] \in V4Type
      /\ [b.v4 EXCEPT !.ackPending = set] \in V4Type /\ [b.v4 EXCEPT !.fed = set] \in V4Type
  BY <1>1 DEF V4Type
<1>3. [b EXCEPT !.v4.active = set] = [b EXCEPT !.v4 = [b.v4 EXCEPT !.active = set]]
  OBVIOUS
<1>4. [b EXCEPT !.v4.outbound = set] = [b EXCEPT !.v4 = [b.v4 EXCEPT !.outbound = set]]
  OBVIOUS
<1>5. [b EXCEPT !.v4.ackPending = set] = [b EXCEPT !.v4 = [b.v4 EXCEPT !.ackPending = set]]
  OBVIOUS
<1>6. [b EXCEPT !.v4.fed = set] = [b EXCEPT !.v4 = [b.v4 EXCEPT !.fed = set]]
  OBVIOUS
<1> QED
  BY <1>2, <1>3, <1>4, <1>5, <1>6, SessionType

LEMMA CountTypes ==
  ASSUME NEW b \in BaseType
  PROVE  /\ \A n \in ErrorCount : [b EXCEPT !.v4.errors = n] \in BaseType
         /\ \A n \in RemoteCount : [b EXCEPT !.v4.remote = n] \in BaseType
         /\ \A p \in V4Phases : [b EXCEPT !.v4.phase = p] \in BaseType
<1>1. b.v4 \in V4Type
  BY FieldTypes
<1>2. ASSUME NEW n \in ErrorCount PROVE [b EXCEPT !.v4.errors = n] \in BaseType
  <2>1. [b.v4 EXCEPT !.errors = n] \in V4Type
    BY <1>1 DEF V4Type
  <2>2. [b EXCEPT !.v4.errors = n] = [b EXCEPT !.v4 = [b.v4 EXCEPT !.errors = n]]
    OBVIOUS
  <2> QED
    BY <2>1, <2>2, SessionType
<1>3. ASSUME NEW n \in RemoteCount PROVE [b EXCEPT !.v4.remote = n] \in BaseType
  <2>1. [b.v4 EXCEPT !.remote = n] \in V4Type
    BY <1>1 DEF V4Type
  <2>2. [b EXCEPT !.v4.remote = n] = [b EXCEPT !.v4 = [b.v4 EXCEPT !.remote = n]]
    OBVIOUS
  <2> QED
    BY <2>1, <2>2, SessionType
<1>4. ASSUME NEW p \in V4Phases PROVE [b EXCEPT !.v4.phase = p] \in BaseType
  <2>1. [b.v4 EXCEPT !.phase = p] \in V4Type
    BY <1>1 DEF V4Type
  <2>2. [b EXCEPT !.v4.phase = p] = [b EXCEPT !.v4 = [b.v4 EXCEPT !.phase = p]]
    OBVIOUS
  <2> QED
    BY <2>1, <2>2, SessionType
<1> QED
  BY <1>2, <1>3, <1>4

LEMMA PlainTypes == \A k \in {"ack", "progress", "empty", "status", "probe", "detect", "ask", "channel", "handshake",
                              "recover", "frame", "control"} : [kind |-> k] \in Message /\ [kind |-> k] \in TxType
  BY MessageTypes DEF Plain

LEMMA RetriedType == ASSUME NEW b \in BaseType PROVE Retried(b) \in BaseType
<1>1. b.v4.retained \in TxType
  BY FieldTypes, MessageTypes DEF V4Type
<1>2. Sending(b, b.v4.retained) \in BaseType /\ Sending(b, [kind |-> "ack"]) \in BaseType
  BY <1>1, PlainTypes, SendingType
<1>3. [Sending(b, [kind |-> "ack"]) EXCEPT !.v4.ackPending = FALSE] \in BaseType
  BY <1>2, FlagTypes
<1> QED
  BY <1>2, <1>3 DEF Retried

LEMMA AcknowledgedType == ASSUME NEW b \in BaseType PROVE Acknowledged(b) \in BaseType
<1>1. Sending(b, [kind |-> "ack"]) \in BaseType
  BY PlainTypes, SendingType
<1>2. [Sending(b, [kind |-> "ack"]) EXCEPT !.v4.ackPending = FALSE] \in BaseType
  BY <1>1, FlagTypes
<1>3. [b EXCEPT !.v4.ackPending = TRUE] \in BaseType
  BY FlagTypes
<1> QED
  BY <1>2, <1>3 DEF Acknowledged

LEMMA AppliedType == ASSUME NEW b \in BaseType, NEW item PROVE Applied(b, item) \in BaseType
<1> DEFINE input  == IF b.v4.phase /= "STATUS" THEN b.input ELSE IF item = "status" THEN "live" ELSE "wrong"
           forgot == b.forgot \/ b.tx.kind = "tune"
           v      == [b.v4 EXCEPT !.response = TRUE]
<1>1. input \in Inputs
  BY FieldTypes DEF Inputs
<1>2. forgot \in BOOLEAN
  BY FieldTypes
<1>3. v \in V4Type
  BY FieldTypes DEF V4Type
<1>4. ~(~b.v4.request /\ b.v4.phase /= "ADJUSTMENT_WAIT") =>
        Applied(b, item) = [b EXCEPT !.connected = TRUE, !.v4 = v, !.forgot = forgot, !.input = input]
  BY DEF Applied
<1> HIDE DEF input, forgot, v
<1>5. [b EXCEPT !.connected = TRUE, !.v4 = v, !.forgot = forgot, !.input = input] \in BaseType
  BY <1>1, <1>2, <1>3 DEF BaseType
<1> QED
  BY <1>4, <1>5 DEF Applied

LEMMA FedType == ASSUME NEW b \in BaseType PROVE Fed(b) \in BaseType
<1> DEFINE late == b.late /\ Probing(b) /\ b.v4.fed
           v    == [b.v4 EXCEPT !.fed = TRUE]
<1>1. late \in BOOLEAN
  BY FieldTypes
<1>2. v \in V4Type
  BY FieldTypes DEF V4Type
<1>3. Fed(b) = [b EXCEPT !.v4 = v, !.late = late]
  BY DEF Fed
<1> HIDE DEF late, v
<1> QED
  BY <1>1, <1>2, <1>3 DEF BaseType

LEMMA ErrorType == ASSUME NEW b \in BaseType PROVE RecordError(b) \in BaseType
<1> DEFINE ended == IF Free(b) THEN Sending(b, [kind |-> "progress"]) ELSE b
<1>1. ended \in BaseType
  BY PlainTypes, SendingType
<1> HIDE DEF ended
<1>2. [ended EXCEPT !.v4.active = FALSE] \in BaseType
  BY <1>1, FlagTypes
<1>3. b.v4.errors \in ErrorCount
  BY FieldTypes DEF V4Type
<1>4. b.v4.errors # MaxErrors => b.v4.errors + 1 \in ErrorCount
  BY <1>3, PedalAssumption DEF ErrorCount
<1>5. b.v4.errors # MaxErrors => [b EXCEPT !.v4.errors = b.v4.errors + 1] \in BaseType
  BY <1>4, CountTypes
<1>6. RecordError(b) = IF b.v4.errors = MaxErrors THEN [ended EXCEPT !.v4.active = FALSE]
                       ELSE [b EXCEPT !.v4.errors = b.v4.errors + 1]
  BY DEF RecordError, ended
<1> QED
  BY <1>2, <1>5, <1>6

LEMMA ReceivedType == ASSUME NEW b \in BaseType, NEW item \in Items \ Bytes PROVE Received4(b, item) \in BaseType
<1> DEFINE fresh   == [b EXCEPT !.v4.errors = 0]
           acked   == [fresh EXCEPT !.v4.outbound = FALSE, !.v4.remote = 0]
           counted == [fresh EXCEPT !.v4.remote = (fresh.v4.remote + 1) % 4]
<1>1. fresh \in BaseType
  BY CountTypes, PedalAssumption DEF ErrorCount
<1> HIDE DEF fresh
<1> DEFINE freed == [fresh EXCEPT !.v4.outbound = FALSE]
<1>2. freed \in BaseType
  BY <1>1, FlagTypes
<1> HIDE DEF freed
<1>3. [freed EXCEPT !.v4.remote = 0] \in BaseType
  <2>1. 0 \in RemoteCount
    BY DEF RemoteCount
  <2> QED
    BY <1>2, <2>1, CountTypes
<1>4. acked = [freed EXCEPT !.v4.remote = 0]
  BY DEF freed
<1>5. fresh.v4.remote \in RemoteCount
  BY <1>1, FieldTypes DEF V4Type
<1>6. (fresh.v4.remote + 1) % 4 \in RemoteCount
  BY <1>5 DEF RemoteCount
<1>7. counted \in BaseType
  BY <1>1, <1>6, CountTypes
<1>8. RecordError(b) \in BaseType /\ Fed(RecordError(b)) \in BaseType
  BY ErrorType, FedType
<1>9. Fed(Applied(Acknowledged(fresh), item)) \in BaseType
  BY <1>1, AcknowledgedType, AppliedType, FedType
<1>10. Retried(counted) \in BaseType
  BY <1>7, RetriedType
<1>11. item \in {"bad", "badData", "ack", "error"} \cup Answers
  BY DEF Items
<1> HIDE DEF acked, counted
<1>12. /\ item = "bad" => Received4(b, item) = RecordError(b)
       /\ item = "badData" => Received4(b, item) = Fed(RecordError(b))
       /\ item = "ack" => Received4(b, item) = acked
       /\ item = "error" => Received4(b, item) \in {counted, Retried(counted)}
       /\ item \in Answers => Received4(b, item) = Fed(Applied(Acknowledged(fresh), item))
  BY DEF Received4, fresh, acked, counted, Answers
<1> QED
  BY <1>3, <1>4, <1>7, <1>8, <1>9, <1>10, <1>11, <1>12

LEMMA RequestedType == ASSUME NEW b \in BaseType, NEW message \in Message PROVE Requested(b, message) \in BaseType
<1> DEFINE sent == Sending(b, message)
           v    == [sent.v4 EXCEPT !.outbound = TRUE, !.retained = message, !.request = TRUE, !.fed = FALSE]
<1>1. sent \in BaseType
  BY SendingType, MessageTypes
<1> HIDE DEF sent
<1>2. v \in V4Type
  BY <1>1, FieldTypes, MessageTypes DEF V4Type
<1>3. Requested(b, message) = [sent EXCEPT !.v4 = v, !.late = FALSE]
  BY DEF Requested, sent
<1> HIDE DEF v
<1> QED
  BY <1>1, <1>2, <1>3 DEF BaseType

\* The end of a request: the session goes on to another phase.
LEMMA PhasedType ==
  ASSUME NEW b \in BaseType, NEW p \in V4Phases, NEW pending \in SUBSET Settings, NEW press \in BOOLEAN
  PROVE  [b EXCEPT !.pending = pending, !.v4.phase = p, !.v4.request = FALSE, !.v4.response = FALSE,
                   !.press = press, !.late = FALSE] \in BaseType
<1> DEFINE v == [b.v4 EXCEPT !.phase = p, !.request = FALSE, !.response = FALSE]
<1>1. v \in V4Type
  BY FieldTypes DEF V4Type
<1>2. [b EXCEPT !.pending = pending, !.v4.phase = p, !.v4.request = FALSE, !.v4.response = FALSE,
                   !.press = press, !.late = FALSE]
        = [b EXCEPT !.v4 = v, !.pending = pending, !.press = press, !.late = FALSE]
  BY DEF BaseType
<1> HIDE DEF v
<1> QED
  BY <1>1, <1>2 DEF BaseType

LEMMA AdjustmentTypes == ASSUME NEW b \in BaseType
                         PROVE  BeginAdjustmentWait(b) \in BaseType /\ FinishAdjustment(b) \in BaseType
<1> DEFINE Then(p, press) == [b EXCEPT !.pending = b.pending, !.v4.phase = p, !.v4.request = FALSE,
                                       !.v4.response = FALSE, !.press = press, !.late = FALSE]
<1>1. /\ "ADJUSTMENT_WAIT" \in V4Phases /\ "HOST_TRANSFER" \in V4Phases
      /\ b.pending \in SUBSET Settings /\ b.press \in BOOLEAN
  BY FieldTypes DEF V4Phases
<1>2. Then("ADJUSTMENT_WAIT", b.press) \in BaseType /\ Then("HOST_TRANSFER", FALSE) \in BaseType
  BY <1>1, PhasedType
<1>3. BeginAdjustmentWait(b) = Then("ADJUSTMENT_WAIT", b.press)
  BY DEF BeginAdjustmentWait, BaseType
<1>4. FinishAdjustment(b) = Then("HOST_TRANSFER", FALSE)
  BY DEF FinishAdjustment, BaseType
<1> QED
  BY <1>2, <1>3, <1>4

\* Phases without a request are none that an answer can complete.
Completable == Settings \cup {"STATUS", "ADJUSTMENT_START", "ADJUSTMENT_WAIT"}

LEMMA NextPhaseType == ASSUME NEW b, b.v4.phase \in Settings \cup {"STATUS"} PROVE NextV4Phase(b) \in V4Phases
  BY DEF NextV4Phase, AfterTuning, V4Phases, Settings

LEMMA CompletedType ==
  ASSUME NEW b \in BaseType, b.v4.phase \in Completable
  PROVE  Completed4(b) \in BaseType
<1>1. CASE b.v4.phase \in Settings \cup {"STATUS"}
  <2>1. NextV4Phase(b) \in V4Phases /\ Settled(b) \in SUBSET Settings /\ b.press \in BOOLEAN
    BY <1>1, NextPhaseType, FieldTypes DEF Settled
  <2>2. [b EXCEPT !.pending = Settled(b), !.v4.phase = NextV4Phase(b), !.v4.request = FALSE,
                  !.v4.response = FALSE, !.press = b.press, !.late = FALSE] \in BaseType
    BY <2>1, PhasedType
  <2>3. Completed4(b) = [b EXCEPT !.pending = Settled(b), !.v4.phase = NextV4Phase(b), !.v4.request = FALSE,
                                  !.v4.response = FALSE, !.press = b.press, !.late = FALSE]
    BY <1>1 DEF Completed4, BaseType, Settings
  <2> QED
    BY <2>2, <2>3
<1>2. CASE b.v4.phase \in {"ADJUSTMENT_START", "ADJUSTMENT_WAIT"}
  BY <1>2, AdjustmentTypes DEF Completed4
<1> QED
  BY <1>1, <1>2 DEF Completable


----------------------------------------------------------------------------
(* Every step keeps the types, and that a request or an answer is one the phase can complete. *)

RequestPhases == Settings \cup {"STATUS", "ADJUSTMENT_START"}

V4Linked == /\ base.v4.request => base.v4.phase \in RequestPhases
            /\ base.v4.response => base.v4.request \/ base.v4.phase = "ADJUSTMENT_WAIT"

TypeInv == TypeOK /\ V4Linked

\* The same, of a record that is not yet the base's.
LinkedIn(b) == /\ b.v4.request => b.v4.phase \in RequestPhases
               /\ b.v4.response => b.v4.request \/ b.v4.phase = "ADJUSTMENT_WAIT"

Sound(b) == b \in BaseType /\ LinkedIn(b)

LEMMA PassType == ASSUME TypeInv, NEW b, Sound(b), Pass(b) PROVE TypeInv'
  BY DEF TypeInv, TypeOK, V4Linked, Pass, Sound, LinkedIn

\* What does not touch the session keeps the rest.
LEMMA KeepsSound ==
  ASSUME NEW b, Sound(b), NEW mode \in Modes, NEW message \in TxType
  PROVE  Sound(Listening(b, mode)) /\ Sound(Sending(b, message)) /\ Sound(Released(b)) /\ Sound(AnalogInput(b))
<1>1. b \in BaseType /\ LinkedIn(b)
  BY DEF Sound
<1>2. /\ Listening(b, mode) \in BaseType /\ Sending(b, message) \in BaseType
      /\ Released(b) \in BaseType /\ AnalogInput(b) \in BaseType
  BY <1>1, ListeningType, SendingType, ReleasedType, AnalogType
<1>3. /\ Listening(b, mode).v4 = b.v4 /\ Sending(b, message).v4 = b.v4
      /\ Released(b).v4 = b.v4 /\ AnalogInput(b).v4 = b.v4
  BY <1>1 DEF Listening, Sending, Released, AnalogInput, BaseType
<1> QED
  BY <1>1, <1>2, <1>3 DEF Sound, LinkedIn

LEMMA ResetSound == ASSUME NEW b \in BaseType
                    PROVE  Sound(ResetState(b)) /\ Sound(Reconnect(b)) /\ Sound(Restarted(b))
<1>1. ResetState(b) \in BaseType /\ Reconnect(b) \in BaseType /\ Restarted(b) \in BaseType
  BY ResetType, ReconnectType, RestartedType
<1>2. ASSUME NEW c \in BaseType PROVE ResetState(c).v4 = Idle4
  BY DEF ResetState, BaseType
<1>3. Listening(b, "off") \in BaseType /\ Listening(b, "byte") \in BaseType
  BY ListeningType DEF Modes
<1>4. Reconnect(b).v4 = Idle4
  <2> DEFINE reset == ResetState(IF b.activity THEN Listening(b, "off") ELSE Released(Listening(b, "off")))
  <2>1. reset \in BaseType /\ reset.v4 = Idle4
    BY <1>2, <1>3, ReleasedType, ResetType
  <2> HIDE DEF reset
  <2>2. AnalogInput(reset) \in BaseType /\ AnalogInput(reset).v4 = Idle4
    BY <2>1, AnalogType DEF AnalogInput, BaseType
  <2>3. /\ [AnalogInput(reset) EXCEPT !.phase = "ANALOG", !.connected = TRUE].v4 = Idle4
        /\ [reset EXCEPT !.phase = "RECONNECT_WAIT", !.late = FALSE].v4 = Idle4
    BY <2>1, <2>2 DEF BaseType
  <2> QED
    BY <2>3 DEF Reconnect, reset
<1>5. Restarted(b).v4 = Idle4
  <2> DEFINE reset == ResetState(Released(Listening(b, "byte")))
  <2>1. reset \in BaseType /\ reset.v4 = Idle4
    BY <1>2, <1>3, ReleasedType, ResetType
  <2> HIDE DEF reset
  <2> QED
    BY <2>1 DEF Restarted, BaseType, reset
<1>6. ResetState(b).v4 = Idle4
  BY <1>2
<1> QED
  BY <1>1, <1>4, <1>5, <1>6 DEF Sound, LinkedIn, Idle4

LEMMA DiscoveryType ==
  TypeInv /\ (DetectRequest \/ DetectResponse \/ ProtocolRequest \/ ProtocolResponse \/ SelectProtocol) => TypeInv'
<1> SUFFICES ASSUME TypeInv,
                    DetectRequest \/ DetectResponse \/ ProtocolRequest \/ ProtocolResponse \/ SelectProtocol
             PROVE  TypeInv'
  OBVIOUS
<1>1. base \in BaseType /\ LinkedIn(base) /\ Sound(base)
  BY DEF TypeInv, TypeOK, V4Linked, LinkedIn, Sound
<1>2. {"DETECT_REQUEST", "DETECT_RESPONSE", "PROTOCOL_REQUEST", "PROTOCOL_RESPONSE", "SELECT_PROTOCOL",
       "LEGACY_REQUEST", "V3_SWITCH_WAIT", "V4_START"} \subseteq Phases
  BY DEF Phases
<1>3. \A k \in {"detect", "ask"} : Sound(Sending(base, [kind |-> k]))
  BY <1>1, KeepsSound, PlainTypes DEF Modes
<1>4. CASE DetectRequest
  <2>1. Sound([Sending(base, [kind |-> "detect"]) EXCEPT !.phase = "DETECT_RESPONSE", !.late = FALSE])
    BY <1>2, <1>3 DEF Sound, LinkedIn, BaseType
  <2> QED
    BY <1>4, <2>1, PassType DEF DetectRequest
<1>5. CASE DetectResponse
  <2> DEFINE taken == [base EXCEPT !.byte = "none"]
  <2>1. Sound(taken)
    BY <1>1, EmptyTypes DEF Sound, LinkedIn, BaseType
  <2> HIDE DEF taken
  <2>2. CASE base.byte \in Identities
    <3>1. base.byte \in Devices
      BY <2>2 DEF Devices
    <3>2. Sound([taken EXCEPT !.device = base.byte, !.phase = "PROTOCOL_REQUEST"])
      BY <1>2, <2>1, <3>1 DEF Sound, LinkedIn, BaseType
    <3> QED
      BY <1>5, <2>2, <3>2, PassType DEF DetectResponse, taken
  <2>3. CASE base.byte \notin Identities
    <3>1. Sound(IF base.late THEN Reconnect(taken) ELSE taken)
      BY <2>1, ResetSound DEF Sound
    <3> QED
      BY <1>5, <2>3, <3>1, PassType DEF DetectResponse, taken
  <2> QED
    BY <2>2, <2>3
<1>6. CASE ProtocolRequest
  <2>1. Sound([Sending(base, [kind |-> "ask"]) EXCEPT !.phase = "PROTOCOL_RESPONSE", !.late = FALSE])
    BY <1>2, <1>3 DEF Sound, LinkedIn, BaseType
  <2> QED
    BY <1>6, <2>1, PassType DEF ProtocolRequest
<1>7. CASE ProtocolResponse
  <2>1. base.byte \in Received
    BY <1>1 DEF BaseType
  <2>2. Sound([base EXCEPT !.byte = "none", !.response = base.byte, !.phase = "SELECT_PROTOCOL"])
    BY <1>1, <1>2, <2>1, EmptyTypes DEF Sound, LinkedIn, BaseType
  <2> QED
    BY <1>1, <1>7, <2>2, PassType, ResetSound DEF ProtocolResponse
<1>8. CASE SelectProtocol
  <2>1. PICK next \in Selected(base.device, base.response) :
              Pass([base EXCEPT !.phase = next, !.channel = 0, !.late = FALSE])
    BY <1>8 DEF SelectProtocol
  <2>2. next \in Phases /\ 0 \in Channel
    BY <1>2, PedalAssumption DEF Selected, Channel
  <2>3. Sound([base EXCEPT !.phase = next, !.channel = 0, !.late = FALSE])
    BY <1>1, <2>2 DEF Sound, LinkedIn, BaseType
  <2> QED
    BY <2>1, <2>3, PassType
<1> QED
  BY <1>4, <1>5, <1>6, <1>7, <1>8


LEMMA ChannelType == ASSUME NEW b, Sound(b) PROVE Sound(NextChannel(b))
<1>1. b \in BaseType /\ LinkedIn(b) /\ b.channel \in Channel
  BY DEF Sound, BaseType
<1>2. (b.channel + 1) % Channels \in Channel
  BY <1>1, PedalAssumption DEF Channel
<1>3. "LEGACY_REQUEST" \in Phases
  BY DEF Phases
<1> QED
  BY <1>1, <1>2, <1>3 DEF NextChannel, Sound, LinkedIn, BaseType

LEMMA LegacyType == TypeInv /\ (LegacyRequest \/ LegacyResponse) => TypeInv'
<1> SUFFICES ASSUME TypeInv, LegacyRequest \/ LegacyResponse PROVE TypeInv'
  OBVIOUS
<1>1. base \in BaseType /\ LinkedIn(base) /\ Sound(base)
  BY DEF TypeInv, TypeOK, V4Linked, LinkedIn, Sound
<1>2. CASE LegacyRequest
  <2>1. Sound(Sending(base, [kind |-> "channel"])) /\ "LEGACY_RESPONSE" \in Phases
    BY <1>1, KeepsSound, PlainTypes DEF Modes, Phases
  <2>2. Sound([Sending(base, [kind |-> "channel"]) EXCEPT !.phase = "LEGACY_RESPONSE", !.late = FALSE])
    BY <2>1 DEF Sound, LinkedIn, BaseType
  <2> QED
    BY <1>2, <2>2, PassType DEF LegacyRequest
<1>3. CASE LegacyResponse
  <2> DEFINE c == base.channel
             retried == [base.retries EXCEPT ![c] = base.retries[c] + 1]
             cleared == [base.retries EXCEPT ![c] = 0]
             activity  == base.activity \/ c = 0
             connected == base.connected \/ c = Channels - 1
             answered == [base EXCEPT !.byte = "none", !.input = "live", !.retries = cleared, !.activity = activity,
                                      !.connected = connected]
  <2>1. c \in Channel /\ base.retries \in Retries /\ activity \in BOOLEAN /\ connected \in BOOLEAN
    BY <1>1 DEF BaseType
  <2>2. cleared \in Retries /\ (base.retries[c] < RetryLimit => retried \in Retries)
    BY <2>1, PedalAssumption DEF Retries
  <2>3. \/ Pass(NextChannel(answered))
        \/ Pass(IF base.retries[c] < RetryLimit THEN NextChannel([base EXCEPT !.retries = retried])
                ELSE Reconnect(base))
    BY <1>3 DEF LegacyResponse
  <2> HIDE DEF retried, cleared, activity, connected
  <2>4. Sound(answered)
    BY <1>1, <2>1, <2>2, EmptyTypes DEF Sound, LinkedIn, BaseType
  <2>5. base.retries[c] < RetryLimit => Sound([base EXCEPT !.retries = retried])
    BY <1>1, <2>2 DEF Sound, LinkedIn, BaseType
  <2> HIDE DEF answered
  <2>6. Sound(Reconnect(base)) /\ Sound(NextChannel(answered))
    BY <1>1, <2>4, ChannelType, ResetSound
  <2>7. Sound(IF base.retries[c] < RetryLimit THEN NextChannel([base EXCEPT !.retries = retried])
              ELSE Reconnect(base))
    BY <2>5, <2>6, ChannelType
  <2> QED
    BY <2>3, <2>6, <2>7, PassType
<1> QED
  BY <1>2, <1>3

LEMMA V3Type ==
  TypeInv /\ (V3SwitchWait \/ V3Start \/ V3Sample \/ V3Output \/ V3Control \/ V3RecoverySetup) => TypeInv'
<1> SUFFICES ASSUME TypeInv, V3SwitchWait \/ V3Start \/ V3Sample \/ V3Output \/ V3Control \/ V3RecoverySetup
             PROVE  TypeInv'
  OBVIOUS
<1>1. base \in BaseType /\ LinkedIn(base) /\ Sound(base)
  BY DEF TypeInv, TypeOK, V4Linked, LinkedIn, Sound
<1>2. /\ {"V3_START", "V3_STREAM", "V3_RECOVERY_SETUP"} \subseteq Phases
      /\ {"SAMPLE", "STATUS", "CONTROL", "INPUT"} \subseteq V3Phases /\ {"off", "byte", "frame"} \subseteq Modes
  BY DEF Phases, V3Phases, Modes
<1>3. \A k \in {"recover", "handshake", "frame", "control"} : Sound(Sending(base, [kind |-> k]))
  BY <1>1, <1>2, KeepsSound, PlainTypes
<1>4. CASE V3SwitchWait
  <2>1. Sound(Listening(base, "frame"))
    BY <1>1, <1>2, KeepsSound, PlainTypes
  <2>2. Sound([Listening(base, "frame") EXCEPT !.phase = "V3_START"])
    BY <1>2, <2>1 DEF Sound, LinkedIn, BaseType
  <2> QED
    BY <1>4, <2>2, PassType DEF V3SwitchWait
<1>5. CASE V3Start
  <2> DEFINE sent == Sending(base, [kind |-> IF base.recovering THEN "recover" ELSE "handshake"])
  <2>1. Sound(sent)
    BY <1>3
  <2> HIDE DEF sent
  <2>2. Sound([sent EXCEPT !.phase = "V3_STREAM", !.v3 = "SAMPLE", !.late = FALSE, !.recovering = FALSE])
    BY <1>2, <2>1 DEF Sound, LinkedIn, BaseType
  <2> QED
    BY <1>5, <2>2, PassType DEF V3Start, sent
<1>6. CASE V3Sample
  <2>1. Sound([base EXCEPT !.frame = FALSE, !.late = FALSE, !.input = "live", !.connected = TRUE,
                           !.activity = TRUE, !.v3 = "STATUS"])
    <3> DEFINE taken == [base EXCEPT !.frame = FALSE, !.late = FALSE, !.input = "live"]
    <3>1. Sound(taken)
      BY <1>1, EmptyTypes DEF Sound, LinkedIn, BaseType
    <3>2. [taken EXCEPT !.connected = TRUE, !.activity = TRUE, !.v3 = "STATUS"]
            = [base EXCEPT !.frame = FALSE, !.late = FALSE, !.input = "live", !.connected = TRUE,
                           !.activity = TRUE, !.v3 = "STATUS"]
      OBVIOUS
    <3> HIDE DEF taken
    <3>3. Sound([taken EXCEPT !.connected = TRUE, !.activity = TRUE, !.v3 = "STATUS"])
      BY <1>2, <3>1 DEF Sound, LinkedIn, BaseType
    <3> QED
      BY <3>2, <3>3
  <2>2. Sound([base EXCEPT !.recovering = TRUE, !.phase = "V3_RECOVERY_SETUP"])
    BY <1>1, <1>2 DEF Sound, LinkedIn, BaseType
  <2>3. Sound([base EXCEPT !.v3 = "STATUS"])
    BY <1>1, <1>2 DEF Sound, LinkedIn, BaseType
  <2> QED
    BY <1>6, <2>1, <2>2, <2>3, PassType DEF V3Sample
<1>7. CASE V3Output
  <2>1. PICK due \in BOOLEAN :
          Pass([IF due /\ Free(base) THEN Sending(base, [kind |-> "frame"]) ELSE base EXCEPT
                 !.v3 = IF base.v3 = "STATUS" THEN "CONTROL" ELSE "SAMPLE"])
    BY <1>7 DEF V3Output
  <2> DEFINE sent == IF due /\ Free(base) THEN Sending(base, [kind |-> "frame"]) ELSE base
             next == IF base.v3 = "STATUS" THEN "CONTROL" ELSE "SAMPLE"
  <2>2. Sound(sent) /\ next \in V3Phases
    BY <1>1, <1>2, <1>3
  <2>3. Pass([sent EXCEPT !.v3 = next])
    BY <2>1
  <2> HIDE DEF sent, next
  <2>4. Sound([sent EXCEPT !.v3 = next])
    BY <2>2 DEF Sound, LinkedIn, BaseType
  <2> QED
    BY <2>3, <2>4, PassType
<1>8. CASE V3Control
  <2> DEFINE control == [Sending(base, [kind |-> "control"]) EXCEPT !.control = FALSE, !.late = FALSE]
             sent == IF base.control /\ Free(base) THEN control ELSE base
  <2>1. Sound(Sending(base, [kind |-> "control"]))
    BY <1>3
  <2>2. Sound(control)
    BY <2>1 DEF Sound, LinkedIn, BaseType
  <2> HIDE DEF control
  <2>3. Sound(sent)
    BY <1>1, <2>2
  <2>4. Pass([sent EXCEPT !.v3 = "INPUT"])
    BY <1>8 DEF V3Control, control
  <2> HIDE DEF sent
  <2>5. Sound([sent EXCEPT !.v3 = "INPUT"])
    BY <1>2, <2>3 DEF Sound, LinkedIn, BaseType
  <2> QED
    BY <2>4, <2>5, PassType
<1>9. CASE V3RecoverySetup
  <2>1. Sound([Sending(base, [kind |-> "recover"]) EXCEPT !.recovering = FALSE])
    BY <1>3 DEF Sound, LinkedIn, BaseType
  <2>2. /\ Sound(Reconnect([Sending(base, [kind |-> "recover"]) EXCEPT !.recovering = FALSE]))
        /\ Sound(Reconnect(base))
    BY <1>1, <2>1, ResetSound DEF Sound
  <2> QED
    BY <1>9, <2>2, PassType DEF V3RecoverySetup
<1> QED
  BY <1>4, <1>5, <1>6, <1>7, <1>8, <1>9


\* What a received frame leaves alone: the settings, the phase of the session and its request.
Kept(b, c) == /\ c.phase = b.phase /\ c.mode = b.mode /\ c.pending = b.pending /\ c.tuning = b.tuning
              /\ c.sent = b.sent /\ c.activity = b.activity /\ c.v4.phase = b.v4.phase
              /\ c.v4.request = b.v4.request

\* What a frame that is not an answer leaves alone as well.
Unanswered(b, c) == Kept(b, c) /\ c.v4.response = b.v4.response /\ c.forgot = b.forgot

LEMMA SendingKeeps ==
  ASSUME NEW b \in BaseType, NEW message \in TxType
  PROVE  Unanswered(b, Sending(b, message)) /\ Sending(b, message).v4 = b.v4
  BY DEF Sending, BaseType, Unanswered, Kept

LEMMA AcknowledgedKeeps ==
  ASSUME NEW b \in BaseType
  PROVE  Unanswered(b, Acknowledged(b))
<1> DEFINE sent == Sending(b, [kind |-> "ack"])
<1>1. sent \in BaseType /\ Unanswered(b, sent) /\ sent.v4 \in V4Type
  BY PlainTypes, SendingType, SendingKeeps, FieldTypes
<1> HIDE DEF sent
<1>2. Unanswered(sent, [sent EXCEPT !.v4.ackPending = FALSE])
  BY <1>1 DEF BaseType, V4Type, Unanswered, Kept
<1>3. Unanswered(b, [b EXCEPT !.v4.ackPending = TRUE])
  BY FieldTypes DEF BaseType, V4Type, Unanswered, Kept
<1>4. Acknowledged(b) \in {[sent EXCEPT !.v4.ackPending = FALSE], [b EXCEPT !.v4.ackPending = TRUE]}
  BY DEF Acknowledged, sent
<1> QED
  BY <1>1, <1>2, <1>3, <1>4 DEF Unanswered, Kept

LEMMA RetriedKeeps ==
  ASSUME NEW b \in BaseType
  PROVE  Unanswered(b, Retried(b))
<1> DEFINE sent == Sending(b, [kind |-> "ack"])
<1>1. sent \in BaseType /\ Unanswered(b, sent) /\ sent.v4 \in V4Type
  BY PlainTypes, SendingType, SendingKeeps, FieldTypes
<1>2. b.v4.retained \in TxType
  BY FieldTypes, MessageTypes DEF V4Type
<1>3. Unanswered(b, Sending(b, b.v4.retained))
  BY <1>2, SendingKeeps
<1> HIDE DEF sent
<1>4. Unanswered(sent, [sent EXCEPT !.v4.ackPending = FALSE])
  BY <1>1 DEF BaseType, V4Type, Unanswered, Kept
<1>5. Retried(b) \in {b, [sent EXCEPT !.v4.ackPending = FALSE], Sending(b, b.v4.retained)}
  BY DEF Retried, sent
<1> QED
  BY <1>1, <1>3, <1>4, <1>5 DEF Unanswered, Kept

LEMMA FedKeeps == ASSUME NEW b \in BaseType PROVE Unanswered(b, Fed(b)) /\ Fed(b).tx = b.tx /\ Fed(b).rx = b.rx
  BY FieldTypes DEF Fed, BaseType, V4Type, Unanswered, Kept

LEMMA ErrorKeeps == ASSUME NEW b \in BaseType PROVE Unanswered(b, RecordError(b))
<1> DEFINE sent == IF Free(b) THEN Sending(b, [kind |-> "progress"]) ELSE b
<1>1. sent \in BaseType /\ Unanswered(b, sent) /\ sent.v4 \in V4Type
  BY PlainTypes, SendingType, SendingKeeps, FieldTypes DEF Unanswered, Kept
<1> HIDE DEF sent
<1>2. Unanswered(sent, [sent EXCEPT !.v4.active = FALSE])
  BY <1>1 DEF BaseType, V4Type, Unanswered, Kept
<1>3. Unanswered(b, [b EXCEPT !.v4.errors = b.v4.errors + 1])
  BY FieldTypes DEF BaseType, V4Type, Unanswered, Kept
<1>4. RecordError(b) \in {[sent EXCEPT !.v4.active = FALSE], [b EXCEPT !.v4.errors = b.v4.errors + 1]}
  BY DEF RecordError, sent
<1> QED
  BY <1>1, <1>2, <1>3, <1>4 DEF Unanswered, Kept

\* An answer counts only for a request or an adjustment, and for one that is not out yet it is stray.
LEMMA AppliedKeeps ==
  ASSUME NEW b \in BaseType, NEW item
  PROVE  /\ Kept(b, Applied(b, item)) /\ Applied(b, item).tx = b.tx /\ Applied(b, item).rx = b.rx
         /\ b.forgot => Applied(b, item).forgot
         /\ \/ Applied(b, item) = b
            \/ /\ b.v4.request \/ b.v4.phase = "ADJUSTMENT_WAIT"
               /\ b.tx.kind = "tune" => Applied(b, item).forgot
<1> DEFINE input == IF b.v4.phase /= "STATUS" THEN b.input ELSE IF item = "status" THEN "live" ELSE "wrong"
           c == [b EXCEPT !.connected = TRUE, !.v4.response = TRUE, !.forgot = b.forgot \/ b.tx.kind = "tune",
                          !.input = input]
<1>1. Applied(b, item) = IF ~b.v4.request /\ b.v4.phase /= "ADJUSTMENT_WAIT" THEN b ELSE c
  BY DEF Applied
<1> HIDE DEF input
<1>2. /\ Kept(b, c) /\ c.tx = b.tx /\ c.rx = b.rx /\ c.forgot = (b.forgot \/ b.tx.kind = "tune")
  BY FieldTypes DEF BaseType, V4Type, Kept
<1> HIDE DEF c
<1> QED
  BY <1>1, <1>2 DEF Kept

LEMMA ReceivedKeeps ==
  ASSUME NEW b \in BaseType, NEW item \in Items \ Bytes
  PROVE  /\ Kept(b, Received4(b, item))
         /\ b.forgot => Received4(b, item).forgot
         /\ \/ Received4(b, item).v4.response = b.v4.response
            \/ /\ b.v4.request \/ b.v4.phase = "ADJUSTMENT_WAIT"
               /\ item \in Answers
               /\ b.tx.kind = "tune" => Received4(b, item).forgot
<1> DEFINE fresh   == [b EXCEPT !.v4.errors = 0]
           acked   == [fresh EXCEPT !.v4.outbound = FALSE, !.v4.remote = 0]
           counted == [fresh EXCEPT !.v4.remote = (fresh.v4.remote + 1) % 4]
           told4   == Acknowledged(fresh)
<1>1. fresh \in BaseType
  <2>1. 0 \in ErrorCount
    BY PedalAssumption DEF ErrorCount
  <2> QED
    BY <2>1, CountTypes
<1>2. Unanswered(b, fresh) /\ fresh.tx = b.tx
  BY FieldTypes DEF BaseType, V4Type, Unanswered, Kept
<1> HIDE DEF fresh
<1>14. fresh.v4 \in V4Type
  BY <1>1, FieldTypes
<1>3. Unanswered(fresh, acked) /\ Unanswered(fresh, counted)
  BY <1>1, <1>14 DEF BaseType, V4Type, Unanswered, Kept
<1>4. counted \in BaseType
  <2>1. (fresh.v4.remote + 1) % 4 \in RemoteCount
    BY <1>14 DEF V4Type, RemoteCount
  <2> QED
    BY <1>1, <2>1, CountTypes
<1> HIDE DEF acked, counted
<1>5. Unanswered(counted, Retried(counted))
  BY <1>4, RetriedKeeps
<1>6. Unanswered(b, RecordError(b)) /\ Unanswered(RecordError(b), Fed(RecordError(b)))
  BY ErrorType, ErrorKeeps, FedKeeps
<1>7. told4 \in BaseType /\ Unanswered(fresh, told4) /\ (b.tx.kind = "tune" => told4.tx = b.tx)
  BY <1>1, <1>2, AcknowledgedType, AcknowledgedKeeps DEF Acknowledged, Free, BaseType
<1> HIDE DEF told4
<1>8. Applied(told4, item) \in BaseType
  BY <1>7, AppliedType
<1>9. Unanswered(Applied(told4, item), Fed(Applied(told4, item)))
  BY <1>8, FedKeeps
<1>10. item \in {"bad", "badData", "ack", "error"} \cup Answers
  BY DEF Items
<1>11. /\ item = "bad" => Received4(b, item) = RecordError(b)
       /\ item = "badData" => Received4(b, item) = Fed(RecordError(b))
       /\ item = "ack" => Received4(b, item) = acked
       /\ item = "error" => Received4(b, item) \in {counted, Retried(counted)}
       /\ item \in Answers => Received4(b, item) = Fed(Applied(told4, item))
  BY DEF Received4, fresh, acked, counted, told4, Answers
<1>12. CASE item \in Answers
  <2> DEFINE c == Applied(told4, item)
  <2>1. /\ Kept(told4, c) /\ (told4.forgot => c.forgot)
        /\ \/ c = told4
           \/ /\ told4.v4.request \/ told4.v4.phase = "ADJUSTMENT_WAIT"
              /\ told4.tx.kind = "tune" => c.forgot
    BY <1>7, AppliedKeeps
  <2>2. Unanswered(b, told4)
    BY <1>2, <1>7 DEF Unanswered, Kept
  <2>3. Unanswered(c, Received4(b, item))
    BY <1>9, <1>11, <1>12
  <2> HIDE DEF c
  <2>4. Kept(b, Received4(b, item)) /\ (b.forgot => Received4(b, item).forgot)
    BY <2>1, <2>2, <2>3 DEF Unanswered, Kept
  <2> QED
    BY <1>7, <1>12, <2>1, <2>2, <2>3, <2>4 DEF Unanswered, Kept
<1>13. CASE item \notin Answers
  BY <1>2, <1>3, <1>5, <1>6, <1>10, <1>11, <1>13 DEF Unanswered, Kept
<1> QED
  BY <1>12, <1>13


LEMMA CompletedEnds ==
  ASSUME NEW b \in BaseType, b.v4.phase \in Completable
  PROVE  ~Completed4(b).v4.request /\ ~Completed4(b).v4.response
<1>1. b.v4 \in V4Type
  BY FieldTypes
<1> QED
  BY <1>1 DEF Completed4, BeginAdjustmentWait, FinishAdjustment, BaseType, V4Type

LEMMA AdjustmentEndsRequest ==
  ASSUME NEW b \in BaseType
  PROVE  /\ ~BeginAdjustmentWait(b).v4.request /\ ~BeginAdjustmentWait(b).v4.response
         /\ ~FinishAdjustment(b).v4.request /\ ~FinishAdjustment(b).v4.response
<1>1. b.v4 \in V4Type
  BY FieldTypes
<1> QED
  BY <1>1 DEF BeginAdjustmentWait, FinishAdjustment, BaseType, V4Type

LEMMA SelectedType == ASSUME NEW b PROVE SelectedPhase(b) \in V4Phases
  BY DEF SelectedPhase, V4Phases, Settings

LEMMA RequestedKeeps ==
  ASSUME NEW b \in BaseType, NEW message \in Message
  PROVE  LET r == Requested(b, message)
         IN  /\ r.phase = b.phase /\ r.mode = b.mode /\ r.pending = b.pending /\ r.tuning = b.tuning
             /\ r.forgot = b.forgot /\ r.activity = b.activity /\ r.v4.phase = b.v4.phase /\ r.v4.request
             /\ r.v4.response = b.v4.response /\ r.tx = message /\ (b.mode = "transfer" => r.rx = <<>>)
<1> DEFINE sent == Sending(b, message)
<1>1. sent \in BaseType /\ Unanswered(b, sent) /\ sent.v4 = b.v4 /\ sent.tx = message
  BY SendingType, SendingKeeps, MessageTypes DEF Sending, BaseType
<1>2. b.mode = "transfer" => sent.rx = <<>>
  BY DEF Sending, BaseType
<1> DEFINE v == [b.v4 EXCEPT !.outbound = TRUE, !.retained = message, !.request = TRUE, !.fed = FALSE]
<1>3. v.phase = b.v4.phase /\ v.request /\ v.response = b.v4.response
  BY FieldTypes DEF V4Type
<1>4. Requested(b, message) = [sent EXCEPT !.v4 = v, !.late = FALSE]
  BY <1>1 DEF Requested, BaseType
<1> HIDE DEF sent, v
<1>5. LET r == Requested(b, message)
      IN  /\ r.phase = sent.phase /\ r.mode = sent.mode /\ r.pending = sent.pending /\ r.tuning = sent.tuning
          /\ r.forgot = sent.forgot /\ r.activity = sent.activity /\ r.v4 = v /\ r.tx = sent.tx /\ r.rx = sent.rx
  BY <1>1, <1>4 DEF BaseType
<1> QED
  BY <1>1, <1>2, <1>3, <1>5 DEF Unanswered, Kept

LEMMA NextSound ==
  ASSUME NEW b, Sound(b), ~b.v4.request, ~b.v4.response, b.v4.phase # "ADJUSTMENT_WAIT"
  PROVE  Sound(Next4(b))
<1>1. b \in BaseType /\ b.v4 \in V4Type /\ b.v4.phase \in V4Phases
  BY FieldTypes DEF Sound, V4Type
<1>2. ASSUME NEW p \in V4Phases PROVE Sound([b EXCEPT !.v4.phase = p])
  <2>1. [b EXCEPT !.v4.phase = p] \in BaseType
    BY <1>1, CountTypes
  <2>2. ~[b EXCEPT !.v4.phase = p].v4.request /\ ~[b EXCEPT !.v4.phase = p].v4.response
    BY <1>1 DEF BaseType, V4Type
  <2> QED
    BY <2>1, <2>2 DEF Sound, LinkedIn
<1>3. ASSUME NEW message \in Message, b.v4.phase \in RequestPhases PROVE Sound(Requested(b, message))
  BY <1>1, <1>3, RequestedType, RequestedKeeps DEF Sound, LinkedIn
<1>4. CASE b.v4.phase \in {"SELECT", "HOST_TRANSFER"}
  <2>1. SelectedPhase(b) \in V4Phases /\ "STATUS" \in V4Phases
    BY SelectedType DEF V4Phases
  <2>2. Next4(b) \in {[b EXCEPT !.v4.phase = SelectedPhase(b)], [b EXCEPT !.v4.phase = "STATUS"]}
    BY <1>4 DEF Next4, Settings
  <2> QED
    BY <1>2, <2>1, <2>2
<1>5. CASE b.v4.phase \in Settings
  <2>1. NextV4Phase(b) \in V4Phases
    BY <1>5, NextPhaseType
  <2>2. b.tuning[b.v4.phase] \in Value
    BY <1>1, <1>5, FieldTypes DEF Tuning
  <2> DEFINE message == [kind |-> "tune", setting |-> b.v4.phase, value |-> b.tuning[b.v4.phase]]
  <2>3. Sound(Requested(b, message))
    BY <1>3, <1>5, <2>2, MessageTypes DEF RequestPhases
  <2> HIDE DEF message
  <2>4. Sound([Requested(b, message) EXCEPT !.sent = b.tuning[b.v4.phase]])
    BY <2>2, <2>3 DEF Sound, LinkedIn, BaseType
  <2> QED
    BY <1>2, <1>5, <2>1, <2>4 DEF Next4, Settings, message, Sound
<1>6. CASE b.v4.phase \in {"STATUS", "ADJUSTMENT_START"}
  <2>1. Sound(Requested(b, [kind |-> "status"])) /\ Sound(Requested(b, [kind |-> "probe"]))
    BY <1>3, <1>6, PlainTypes DEF RequestPhases
  <2> QED
    BY <1>6, <2>1 DEF Next4, Settings
<1> QED
  BY <1>1, <1>4, <1>5, <1>6 DEF V4Phases

LEMMA BeatenSound == ASSUME NEW b, Sound(b), NEW beat \in BOOLEAN PROVE Sound(Beaten(b, beat)) /\ Beaten(b, beat).v4 = b.v4
<1>1. Sound(Sending(b, [kind |-> "empty"])) /\ Sending(b, [kind |-> "empty"]).v4 = b.v4
  BY KeepsSound, SendingKeeps, PlainTypes DEF Sound, Modes
<1> QED
  BY <1>1 DEF Beaten

LEMMA ContinuedSound == ASSUME NEW b, Sound(b), NEW beat \in BOOLEAN PROVE Sound(Continued4(b, beat))
<1>1. b \in BaseType /\ LinkedIn(b)
  BY DEF Sound
<1>2. ASSUME NEW c, Sound(c), c.v4.response PROVE Sound(Completed4(c))
  <2>1. c \in BaseType /\ c.v4.phase \in Completable
    BY <1>2 DEF Sound, LinkedIn, RequestPhases, Completable
  <2> QED
    BY <2>1, CompletedType, CompletedEnds DEF Sound, LinkedIn
<1>3. ASSUME NEW c, Sound(c) PROVE Sound(BeginAdjustmentWait(c)) /\ Sound(FinishAdjustment(c))
  BY <1>3, AdjustmentTypes, AdjustmentEndsRequest DEF Sound, LinkedIn
<1>4. CASE b.v4.phase = "ADJUSTMENT_WAIT"
  <2>1. Sound(Beaten(b, beat)) /\ Beaten(b, beat).v4 = b.v4
    BY BeatenSound
  <2> QED
    BY <1>2, <1>3, <1>4, <2>1 DEF Continued4
<1>5. CASE b.v4.phase # "ADJUSTMENT_WAIT"
  BY <1>2, <1>3, <1>5, NextSound DEF Continued4
<1> QED
  BY <1>4, <1>5


LEMMA TakenType ==
  ASSUME NEW b, Sound(b), b.rx # <<>>
  PROVE  Sound([b EXCEPT !.rx = Tail(b.rx)]) /\ Head(b.rx) \in Items \ Bytes
<1>1. b \in BaseType /\ LinkedIn(b) /\ b.rx \in Seq(Items \ Bytes)
  BY DEF Sound, BaseType, Ring
<1>2. Tail(b.rx) \in Ring /\ Head(b.rx) \in Items \ Bytes
  BY <1>1 DEF Ring
<1> QED
  BY <1>1, <1>2 DEF Sound, LinkedIn, BaseType

LEMMA ReceivedSound ==
  ASSUME NEW b, Sound(b), NEW item \in Items \ Bytes
  PROVE  Sound(Received4(b, item))
<1>1. b \in BaseType /\ LinkedIn(b)
  BY DEF Sound
<1>2. Received4(b, item) \in BaseType
  BY <1>1, ReceivedType
<1>3. LinkedIn(Received4(b, item))
  BY <1>1, ReceivedKeeps DEF Kept, LinkedIn
<1> QED
  BY <1>2, <1>3 DEF Sound

\* What a pass of the V4 stream looks at, and what it leaves behind.
Got(b) == IF b.rx = <<>> THEN b ELSE Received4([b EXCEPT !.rx = Tail(b.rx)], Head(b.rx))
Over(b) == [b EXCEPT !.v4.active = FALSE, !.activity = TRUE, !.phase = "RECONNECT_HOLD_START"]

LEMMA GotSound == ASSUME NEW b, Sound(b) PROVE Sound(Got(b))
  BY TakenType, ReceivedSound DEF Got

LEMMA OverSound == ASSUME NEW b, Sound(b)
                   PROVE  /\ Sound(Over(b)) /\ Over(b).phase = "RECONNECT_HOLD_START" /\ Over(b).activity
                          /\ Over(b).tx = b.tx /\ Over(b).pending = b.pending /\ Over(b).tuning = b.tuning
                          /\ Over(b).rx = b.rx /\ Over(b).forgot = b.forgot /\ Over(b).mode = b.mode
<1> DEFINE v == [b.v4 EXCEPT !.active = FALSE]
<1>1. b \in BaseType /\ LinkedIn(b) /\ b.v4 \in V4Type
  BY FieldTypes DEF Sound
<1>2. v \in V4Type /\ v.request = b.v4.request /\ v.response = b.v4.response /\ v.phase = b.v4.phase
  BY <1>1 DEF V4Type
<1>3. Over(b) = [b EXCEPT !.v4 = v, !.activity = TRUE, !.phase = "RECONNECT_HOLD_START"]
  BY <1>1 DEF Over, BaseType
<1>4. "RECONNECT_HOLD_START" \in Phases
  BY DEF Phases
<1> HIDE DEF v
<1>5. Over(b) \in BaseType
  BY <1>1, <1>2, <1>3, <1>4 DEF BaseType
<1>6. /\ Over(b).v4 = v /\ Over(b).phase = "RECONNECT_HOLD_START" /\ Over(b).activity
      /\ Over(b).tx = b.tx /\ Over(b).pending = b.pending /\ Over(b).tuning = b.tuning
      /\ Over(b).rx = b.rx /\ Over(b).forgot = b.forgot /\ Over(b).mode = b.mode
  BY <1>1, <1>3 DEF BaseType
<1> QED
  BY <1>1, <1>2, <1>5, <1>6 DEF Sound, LinkedIn

LEMMA StreamStep ==
  ASSUME V4Stream
  PROVE  /\ base.phase = "V4_STREAM"
         /\ \E beat \in BOOLEAN : Pass(IF SessionOver(Got(base)) THEN Over(Got(base)) ELSE Continued4(Got(base), beat))
  BY DEF V4Stream, In, Got, Over

LEMMA V4Type4 == TypeInv /\ (V4Start \/ V4Stream) => TypeInv'
<1> SUFFICES ASSUME TypeInv, V4Start \/ V4Stream PROVE TypeInv'
  OBVIOUS
<1>1. base \in BaseType /\ LinkedIn(base) /\ Sound(base)
  BY DEF TypeInv, TypeOK, V4Linked, LinkedIn, Sound
<1>2. CASE V4Start
  <2> DEFINE opened == Listening(base, "transfer")
             v == [Idle4 EXCEPT !.active = TRUE]
  <2>1. Sound(opened)
    BY <1>1, KeepsSound, PlainTypes DEF Modes
  <2>2. v \in V4Type /\ ~v.request /\ ~v.response /\ "V4_STREAM" \in Phases
    BY IdleType DEF Idle4, Phases
  <2>3. Pass([opened EXCEPT !.phase = "V4_STREAM", !.v4 = v, !.late = FALSE])
    BY <1>2 DEF V4Start
  <2> HIDE DEF opened, v
  <2>4. Sound([opened EXCEPT !.phase = "V4_STREAM", !.v4 = v, !.late = FALSE])
    BY <2>1, <2>2 DEF Sound, LinkedIn, BaseType
  <2> QED
    BY <2>3, <2>4, PassType
<1>3. CASE V4Stream
  <2>1. PICK beat \in BOOLEAN :
          Pass(IF SessionOver(Got(base)) THEN Over(Got(base)) ELSE Continued4(Got(base), beat))
    BY <1>3, StreamStep
  <2>2. Sound(Over(Got(base))) /\ Sound(Continued4(Got(base), beat))
    BY <1>1, GotSound, OverSound, ContinuedSound
  <2> QED
    BY <2>1, <2>2, PassType
<1> QED
  BY <1>2, <1>3

LEMMA HoldType == TypeInv /\ (ReconnectHoldStart \/ ReconnectWait) => TypeInv'
<1> SUFFICES ASSUME TypeInv, ReconnectHoldStart \/ ReconnectWait PROVE TypeInv'
  OBVIOUS
<1>1. base \in BaseType /\ LinkedIn(base) /\ Sound(base)
  BY DEF TypeInv, TypeOK, V4Linked, LinkedIn, Sound
<1>2. "RECONNECT_WAIT" \in Phases /\ "DETECT_REQUEST" \in Phases /\ "off" \in Modes /\ "byte" \in Modes
  BY DEF Phases, Modes
<1>3. CASE ReconnectHoldStart
  <2>1. Sound([base EXCEPT !.phase = "RECONNECT_WAIT", !.late = FALSE])
    BY <1>1, <1>2 DEF Sound, LinkedIn, BaseType
  <2> QED
    BY <1>3, <2>1, PassType DEF ReconnectHoldStart
<1>4. CASE ReconnectWait
  <2> DEFINE stopped == Listening(base, "off")
             waiting == IF base.activity THEN ResetState(stopped) ELSE stopped
             released == Released(Listening(waiting, "byte"))
  <2>1. Sound(stopped)
    BY <1>1, <1>2, KeepsSound, PlainTypes
  <2>2. Sound(waiting)
    BY <2>1, ResetSound DEF Sound
  <2>3. Pass(IF base.late THEN [released EXCEPT !.phase = "DETECT_REQUEST", !.late = FALSE] ELSE waiting)
    BY <1>4 DEF ReconnectWait
  <2> HIDE DEF waiting
  <2>4. Sound(Listening(waiting, "byte"))
    BY <1>2, <2>2, KeepsSound, PlainTypes
  <2>5. Sound(released)
    BY <2>4, KeepsSound, PlainTypes DEF Modes
  <2> HIDE DEF released
  <2>6. Sound([released EXCEPT !.phase = "DETECT_REQUEST", !.late = FALSE])
    BY <1>2, <2>5 DEF Sound, LinkedIn, BaseType
  <2> QED
    BY <2>2, <2>3, <2>6, PassType
<1> QED
  BY <1>3, <1>4

LEMMA RunType == TypeInv /\ Run => TypeInv'
  BY DiscoveryType, LegacyType, V3Type, V4Type4, HoldType DEF Run

LEMMA DeadlineType == TypeInv /\ DeadlinePasses => TypeInv'
<1> SUFFICES ASSUME TypeInv, DeadlinePasses PROVE TypeInv'
  OBVIOUS
<1>1. base \in BaseType /\ LinkedIn(base)
  BY DEF TypeInv, TypeOK, V4Linked, LinkedIn
<1>2. Sound([base EXCEPT !.late = TRUE])
  BY <1>1 DEF Sound, LinkedIn, BaseType
<1> QED
  BY <1>2, PassType DEF DeadlinePasses


\* A step of the line or the firmware, by what it does to each variable.
LEMMA StepType ==
  ASSUME TypeInv, env' \in EnvType, Sound(base'), pedal' \in PedalType, told' \in Tuning
  PROVE  TypeInv'
  BY DEF TypeInv, TypeOK, V4Linked, Sound, LinkedIn

LEMMA SpendType == ASSUME TypeInv, NEW field \in {"plugs", "losses", "changes", "presses", "restarts", "controls"},
                          Spend(field)
                   PROVE  env' \in EnvType /\ (env'.clean => env.clean) /\ (env'.clean => field # "losses")
<1>1. env \in EnvType
  BY DEF TypeInv, TypeOK
<1>2. env[field] \in Nat /\ env[field] > 0
  BY <1>1 DEF Spend, EnvType
<1> DEFINE left == env[field] - 1
           clean == env.clean /\ field # "losses"
<1>3. left \in Nat /\ clean \in BOOLEAN
  BY <1>1, <1>2 DEF EnvType
<1>4. env' = [[env EXCEPT ![field] = left] EXCEPT !.clean = clean]
  BY DEF Spend
<1> HIDE DEF left
<1>5. [env EXCEPT ![field] = left] \in EnvType
  <2>1. CASE field = "plugs"
    BY <1>1, <1>3, <2>1 DEF EnvType
  <2>2. CASE field = "losses"
    BY <1>1, <1>3, <2>2 DEF EnvType
  <2>3. CASE field = "changes"
    BY <1>1, <1>3, <2>3 DEF EnvType
  <2>4. CASE field = "presses"
    BY <1>1, <1>3, <2>4 DEF EnvType
  <2>5. CASE field = "restarts"
    BY <1>1, <1>3, <2>5 DEF EnvType
  <2>6. CASE field = "controls"
    BY <1>1, <1>3, <2>6 DEF EnvType
  <2> QED
    BY <2>1, <2>2, <2>3, <2>4, <2>5, <2>6
<1> DEFINE e == [env EXCEPT ![field] = left]
<1> HIDE DEF e
<1>6. e \in EnvType /\ env' = [e EXCEPT !.clean = clean]
  BY <1>4, <1>5 DEF e
<1>7. env' \in EnvType /\ env'.clean = clean
  BY <1>3, <1>6 DEF EnvType
<1> QED
  BY <1>7

LEMMA AnswerType == ASSUME NEW message PROVE Answer(message) \in Seq(Items)
<1>1. {"v3", "v4", "protocol3", "protocol4", "other", "channel", "ack", "status", "tuned", "started"} \subseteq Items
  BY DEF Items, Bytes, Answers
<1>2. Answer(message) \in {<<>>, <<"v3">>, <<"v4">>, <<"protocol3">>, <<"protocol4">>, <<"other">>, <<"channel">>,
                           <<"ack", "status">>, <<"ack", "tuned">>, <<"ack", "started">>}
  BY DEF Answer
<1>3. ASSUME NEW item \in Items PROVE <<item>> \in Seq(Items)
  OBVIOUS
<1>4. ASSUME NEW item \in Items PROVE <<"ack", item>> \in Seq(Items)
  BY <1>1
<1>5. <<"v3">> \in Seq(Items) /\ <<"v4">> \in Seq(Items) /\ <<"other">> \in Seq(Items)
  BY <1>1, <1>3
<1>6. <<"protocol3">> \in Seq(Items) /\ <<"protocol4">> \in Seq(Items) /\ <<"channel">> \in Seq(Items)
  BY <1>1, <1>3
<1>7. <<"ack", "status">> \in Seq(Items) /\ <<"ack", "tuned">> \in Seq(Items) /\ <<"ack", "started">> \in Seq(Items)
  BY <1>1, <1>4
<1>8. <<>> \in Seq(Items)
  OBVIOUS
<1> QED
  BY <1>2, <1>5, <1>6, <1>7, <1>8, Zenon

LEMMA SentSound == ASSUME NEW b, Sound(b) PROVE Sound(Sent(b))
<1>1. Sent(b) = Sending(b, Nothing)
  BY DEF Sent, Sending
<1> QED
  BY <1>1, KeepsSound, MessageTypes DEF Modes

LEMMA ArrivedSound == ASSUME NEW b, Sound(b), NEW item \in Items PROVE Sound(Arrived(b, item))
<1>1. b \in BaseType /\ LinkedIn(b) /\ b.rx \in Seq(Items \ Bytes)
  BY DEF Sound, BaseType, Ring
<1>2. item \notin Bytes => Append(b.rx, item) \in Ring
  BY <1>1 DEF Ring
<1>3. item \in Bytes => item \in Received
  BY DEF Received
<1>4. item \in Bytes => Sound([b EXCEPT !.byte = item])
  BY <1>1, <1>3 DEF Sound, LinkedIn, BaseType
<1>5. item \notin Bytes => Sound([b EXCEPT !.rx = Append(b.rx, item)])
  BY <1>1, <1>2 DEF Sound, LinkedIn, BaseType
<1> QED
  BY <1>4, <1>5 DEF Arrived

LEMMA PedalTypes == ASSUME TypeInv
                    PROVE  /\ pedal \in PedalType /\ pedal.air \in Seq(Items) /\ pedal.kind \in {"none"} \cup Pedals
                           /\ env \in EnvType /\ told \in Tuning /\ Sound(base) /\ base \in BaseType
  BY DEF TypeInv, TypeOK, PedalType, V4Linked, Sound, LinkedIn

LEMMA TransmissionType == TypeInv /\ (TransmissionEnds \/ TransmissionGarbled) => TypeInv'
<1> SUFFICES ASSUME TypeInv, TransmissionEnds \/ TransmissionGarbled PROVE TypeInv'
  OBVIOUS
<1>1. Sound(Sent(base))
  BY SentSound, PedalTypes
<1>2. CASE TransmissionEnds
  <2>1. base' = Sent(base) /\ env' = env
    BY <1>2 DEF TransmissionEnds
  <2>2. pedal' \in PedalType
    <3>1. pedal.air \o Answer(base.tx) \in Seq(Items)
      BY AnswerType, PedalTypes
    <3>2. Streams(base.tx) \in BOOLEAN /\ Probes(base.tx) \in BOOLEAN
      BY PedalTypes DEF Streams, Probes, PedalType
    <3> QED
      BY <1>2, <3>1, <3>2, PedalTypes DEF TransmissionEnds, PedalType
  <2>3. told' \in Tuning
    <3>1. base.tx.kind = "tune" => base.tx.setting \in Settings /\ base.tx.value \in Value
      BY PedalTypes, FieldTypes DEF TxType, Message, Nothing, Plain
    <3> QED
      BY <1>2, <3>1, PedalTypes DEF TransmissionEnds, Tuning
  <2> QED
    BY <1>1, <2>1, <2>2, <2>3, PedalTypes, StepType
<1>3. CASE TransmissionGarbled
  <2>1. base' = Sent(base) /\ told' = told /\ Spend("losses")
    BY <1>3 DEF TransmissionGarbled
  <2>2. pedal' \in PedalType
    BY <1>3, PedalTypes DEF TransmissionGarbled, PedalType
  <2> QED
    BY <1>1, <2>1, <2>2, PedalTypes, SpendType, StepType
<1> QED
  BY <1>2, <1>3

LEMMA AirType == TypeInv /\ (Complain \/ AdjustmentEnds \/ Arrive \/ ArriveGarbled) => TypeInv'
<1> SUFFICES ASSUME TypeInv, Complain \/ AdjustmentEnds \/ Arrive \/ ArriveGarbled PROVE TypeInv'
  OBVIOUS
<1>1. {"error", "final", "noise", "badData", "bad"} \subseteq Items
  BY DEF Items, Bytes, Answers
<1>2. CASE Complain
  <2>1. pedal' \in PedalType
    <3>1. ASSUME NEW item \in Items PROVE <<item>> \in Seq(Items)
      OBVIOUS
    <3>2. <<"error">> \in Seq(Items)
      BY <1>1, <3>1
    <3> QED
      BY <1>2, <3>2, PedalTypes DEF Complain, PedalType
  <2> QED
    BY <1>2, <2>1, PedalTypes, StepType DEF Complain
<1>3. CASE AdjustmentEnds
  <2>1. Append(pedal.air, "final") \in Seq(Items)
    BY <1>1, PedalTypes
  <2>2. pedal' \in PedalType
    BY <1>3, <2>1, PedalTypes DEF AdjustmentEnds, PedalType
  <2> QED
    BY <1>3, <2>2, PedalTypes, StepType DEF AdjustmentEnds
<1>4. CASE pedal.air # <<>> /\ pedal' = [pedal EXCEPT !.air = Tail(@)]
  <2>1. Head(pedal.air) \in Items /\ Tail(pedal.air) \in Seq(Items)
    BY <1>4, PedalTypes
  <2>2. pedal' \in PedalType
    BY <1>4, <2>1, PedalTypes DEF PedalType
  <2>3. CASE Arrive
    <3>1. Sound(base')
      BY <2>1, <2>3, PedalTypes, ArrivedSound DEF Arrive
    <3> QED
      BY <2>2, <2>3, <3>1, PedalTypes, StepType DEF Arrive
  <2>4. CASE ArriveGarbled
    <3>1. \/ \E item \in {"noise", "badData", "bad"} : base' = Arrived(base, item)
          \/ base' = base
      BY <2>4 DEF ArriveGarbled
    <3>2. Sound(base')
      BY <1>1, <3>1, PedalTypes, ArrivedSound
    <3>3. Spend("losses") /\ told' = told
      BY <2>4 DEF ArriveGarbled
    <3> QED
      BY <2>2, <3>2, <3>3, PedalTypes, SpendType, StepType
  <2> QED
    BY <1>2, <1>3, <2>3, <2>4
<1> QED
  BY <1>2, <1>3, <1>4 DEF Arrive, ArriveGarbled

LEMMA PlugType == TypeInv /\ (Report \/ Plug) => TypeInv'
<1> SUFFICES ASSUME TypeInv, Report \/ Plug PROVE TypeInv'
  OBVIOUS
<1>1. CASE Report
  <2>1. "noise" \in Received
    BY DEF Received, Bytes
  <2>2. Sound([base EXCEPT !.frame = TRUE]) /\ Sound([base EXCEPT !.byte = "noise"])
    BY <2>1, PedalTypes DEF Sound, LinkedIn, BaseType
  <2> QED
    BY <1>1, <2>2, PedalTypes, StepType DEF Report
<1>2. CASE Plug
  <2>1. pedal' \in PedalType
    <3>1. PICK k \in Pedals \cup {"none"} : pedal' = [Unplugged EXCEPT !.kind = k]
      BY <1>2 DEF Plug
    <3>2. <<>> \in Seq(Items)
      OBVIOUS
    <3>3. Unplugged \in PedalType
      BY <3>2 DEF Unplugged, PedalType
    <3> QED
      BY <3>1, <3>3 DEF PedalType
  <2> QED
    BY <1>2, <2>1, PedalTypes, SpendType, StepType DEF Plug
<1> QED
  BY <1>1, <1>2

LEMMA FirmwareType == TypeInv /\ Firmware => TypeInv'
<1> SUFFICES ASSUME TypeInv, Firmware PROVE TypeInv'
  OBVIOUS
<1>1. CASE AnalogSamples
  <2>1. PICK level \in env.analog \cup {"absent"} :
          LET b == [base EXCEPT !.analog = level]
          IN  base' = IF ~In("ANALOG") THEN b
                      ELSE IF level = "absent" THEN Reconnect(Released([b EXCEPT !.learning = FALSE]))
                      ELSE AnalogInput(b)
    BY <1>1 DEF AnalogSamples
  <2> DEFINE b == [base EXCEPT !.analog = level]
  <2>2. level \in Levels
    BY PedalTypes DEF EnvType, Levels
  <2>3. Sound(b)
    BY <2>2, PedalTypes DEF Sound, LinkedIn, BaseType
  <2> HIDE DEF b
  <2>4. Sound([b EXCEPT !.learning = FALSE])
    BY <2>3 DEF Sound, LinkedIn, BaseType
  <2>5. Sound(Released([b EXCEPT !.learning = FALSE])) /\ Sound(AnalogInput(b))
    BY <2>3, <2>4, KeepsSound, PlainTypes DEF Modes
  <2>6. Sound(Reconnect(Released([b EXCEPT !.learning = FALSE])))
    BY <2>5, ResetSound DEF Sound
  <2>7. Sound(base')
    BY <2>1, <2>3, <2>5, <2>6 DEF b
  <2> QED
    BY <1>1, <2>7, PedalTypes, StepType DEF AnalogSamples
<1>2. CASE ChangeTuning
  <2>1. PICK s \in Tuned, v \in Value : base' = [base EXCEPT !.tuning[s] = v, !.pending = @ \cup {s}]
    BY <1>2 DEF ChangeTuning
  <2> DEFINE tuning == [base.tuning EXCEPT ![s] = v]
             pending == base.pending \cup {s}
  <2>2. tuning \in Tuning /\ pending \in SUBSET Settings
    BY PedalTypes, PedalAssumption, FieldTypes DEF Tuning
  <2>3. base' = [base EXCEPT !.tuning = tuning, !.pending = pending]
    BY <2>1, PedalTypes DEF BaseType
  <2> HIDE DEF tuning, pending
  <2>4. Sound(base')
    BY <2>2, <2>3, PedalTypes DEF Sound, LinkedIn, BaseType
  <2> QED
    BY <1>2, <2>4, PedalTypes, SpendType, StepType DEF ChangeTuning
<1>3. CASE PressAdjustment
  <2>1. Sound([base EXCEPT !.press = TRUE])
    BY PedalTypes DEF Sound, LinkedIn, BaseType
  <2> QED
    BY <1>3, <2>1, PedalTypes, SpendType, StepType DEF PressAdjustment
<1>4. CASE RequestControl
  <2>1. Sound([base EXCEPT !.control = TRUE])
    BY PedalTypes DEF Sound, LinkedIn, BaseType
  <2> QED
    BY <1>4, <2>1, PedalTypes, SpendType, StepType DEF RequestControl
<1>5. CASE RequestStartup
  BY <1>5, PedalTypes, ResetSound, SpendType, StepType DEF RequestStartup
<1> QED
  BY <1>1, <1>2, <1>3, <1>4, <1>5 DEF Firmware

LEMMA NextType == TypeInv /\ [Next]_vars => TypeInv'
<1>1. TypeInv /\ UNCHANGED vars => TypeInv'
  BY DEF TypeInv, TypeOK, V4Linked, vars
<1> QED
  BY <1>1, RunType, DeadlineType, TransmissionType, AirType, PlugType, FirmwareType DEF Next, Line

LEMMA InitType == Init => TypeInv
<1> SUFFICES ASSUME Init PROVE TypeInv
  OBVIOUS
<1>1. env \in EnvType
  BY PedalAssumption DEF Init, Environment, EnvType
<1>2. pedal \in PedalType /\ told \in Tuning
  BY DEF Init, Unplugged, PedalType, Tuning, Value
<1>3. /\ "DETECT_REQUEST" \in Phases /\ "none" \in Devices /\ "none" \in Received /\ "neutral" \in Inputs
      /\ "absent" \in Levels /\ "SAMPLE" \in V3Phases /\ "byte" \in Modes /\ <<>> \in Ring /\ 0 \in Value
      /\ Nothing \in TxType /\ {} \in SUBSET Settings
  BY EmptyTypes, MessageTypes DEF Phases, Devices, Levels, V3Phases, Modes
<1>4. 0 \in Channel /\ [c \in Channel |-> 0] \in Retries /\ [s \in Settings |-> 0] \in Tuning
  BY PedalAssumption DEF Channel, Retries, Tuning, Value
<1>5. base \in BaseType
  BY <1>3, <1>4, IdleType DEF Init, BaseType
<1>6. base.v4 = Idle4
  BY DEF Init
<1> QED
  BY <1>1, <1>2, <1>5, <1>6 DEF TypeInv, TypeOK, V4Linked, Idle4

LEMMA TypeInvariant == Spec => []TypeInv
<1>1. Init => TypeInv
  BY InitType
<1>2. TypeInv /\ [Next]_vars => TypeInv'
  BY NextType
<1> QED
  BY <1>1, <1>2, PTL DEF Spec

\* The base, the line and the pedals keep their types, and the counters their bounds, for every
\* number of channels, every retry and error limit and every environment (PedalService,
\* TransferSession and the pedal link).
THEOREM TypeCorrect == Spec => []TypeOK
<1>1. TypeInv => TypeOK
  BY DEF TypeInv
<1> QED
  BY <1>1, TypeInvariant, PTL

----------------------------------------------------------------------------
(* What is published: input is kept through the hold after a failure, and no longer. *)

Hidden(b) == /\ b.phase \in Searching => b.input = "neutral" /\ ~b.connected /\ ~b.activity
             /\ b.phase = "RECONNECT_WAIT" => b.activity \/ ~b.connected
             /\ b.phase = "RECONNECT_HOLD_START" => b.activity

NeutralInv == TypeInv /\ Hidden(base)

\* Discovery that goes on, with what is published as it was.
Goes(b, c) == /\ c.input = b.input /\ c.connected = b.connected /\ c.activity = b.activity
              /\ \/ c.phase = b.phase
                 \/ b.phase \in Searching /\ c.phase \in Searching

LEMMA GoesHidden == ASSUME NEW b, NEW c, Hidden(b), Goes(b, c) PROVE Hidden(c)
  BY DEF Hidden, Goes, Searching

LEMMA LinkGoes ==
  ASSUME NEW b \in BaseType, NEW mode \in Modes, NEW message \in TxType
  PROVE  Goes(b, Listening(b, mode)) /\ Goes(b, Sending(b, message))
<1>1. Goes(b, Listening(b, mode))
  BY DEF Goes, Listening, BaseType
<1>2. Goes(b, Sending(b, message))
  BY DEF Goes, Sending, BaseType
<1> QED
  BY <1>1, <1>2

LEMMA ReconnectHidden == ASSUME NEW b \in BaseType PROVE Hidden(Reconnect(b))
<1> DEFINE reset == ResetState(IF b.activity THEN Listening(b, "off") ELSE Released(Listening(b, "off")))
<1>1. Listening(b, "off") \in BaseType
  BY ListeningType DEF Modes
<1>2. reset \in BaseType
  BY <1>1, ReleasedType, ResetType
<1>3. \A c \in BaseType : ~ResetState(c).connected
  BY DEF ResetState, BaseType
<1>4. ~reset.connected
  BY <1>1, <1>3, ReleasedType
<1> HIDE DEF reset
<1>5. Hidden([AnalogInput(reset) EXCEPT !.phase = "ANALOG", !.connected = TRUE])
  BY <1>2, AnalogType DEF Hidden, Searching, BaseType
<1>6. Hidden([reset EXCEPT !.phase = "RECONNECT_WAIT", !.late = FALSE])
  BY <1>2, <1>4 DEF Hidden, Searching, BaseType
<1> QED
  BY <1>5, <1>6 DEF Reconnect, reset

LEMMA ResetPublishes ==
  ASSUME NEW b \in BaseType
  PROVE  /\ ~ResetState(b).connected /\ ~ResetState(b).activity /\ ResetState(b).phase = b.phase
         /\ ResetState(b).input = b.input
  BY DEF ResetState, BaseType

LEMMA RestartedHidden == ASSUME NEW b \in BaseType PROVE Hidden(Restarted(b))
<1> DEFINE reset == ResetState(Released(Listening(b, "byte")))
<1>1. Released(Listening(b, "byte")) \in BaseType
  BY ListeningType, ReleasedType DEF Modes
<1>2. Released(Listening(b, "byte")).input = "neutral"
  BY ListeningType DEF Released, BaseType, Modes
<1>3. reset \in BaseType /\ ~reset.connected /\ ~reset.activity /\ reset.input = "neutral"
  BY <1>1, <1>2, ResetType, ResetPublishes
<1> HIDE DEF reset
<1>4. /\ Restarted(b).phase = "DETECT_REQUEST" /\ Restarted(b).input = reset.input
      /\ Restarted(b).connected = reset.connected /\ Restarted(b).activity = reset.activity
  BY <1>3 DEF Restarted, reset, BaseType
<1> QED
  BY <1>3, <1>4 DEF Hidden, Searching

\* The rest of a pass of the session keeps the phase of the service, the mode of the link, and what was forgotten.
Stays(b, c) == c.phase = b.phase /\ c.mode = b.mode /\ c.forgot = b.forgot

LEMMA ContinuedStays == ASSUME NEW b, Sound(b), NEW beat \in BOOLEAN PROVE Stays(b, Continued4(b, beat))
<1>1. b \in BaseType /\ b.v4.phase \in V4Phases
  BY FieldTypes DEF Sound, V4Type
<1>2. \A c \in BaseType : /\ Stays(c, Completed4(c))
                          /\ Stays(c, BeginAdjustmentWait(c)) /\ Stays(c, FinishAdjustment(c))
  BY DEF Stays, Completed4, BeginAdjustmentWait, FinishAdjustment, BaseType
<1>3. Beaten(b, beat) \in BaseType /\ Stays(b, Beaten(b, beat))
  BY <1>1, SendingKeeps, SendingType, PlainTypes DEF Stays, Beaten, Unanswered, Kept
<1>4. b.v4.phase # "ADJUSTMENT_WAIT" => Stays(b, Next4(b))
  <2>1. ASSUME NEW message \in Message PROVE Requested(b, message) \in BaseType /\ Stays(b, Requested(b, message))
    BY <1>1, RequestedType, RequestedKeeps DEF Stays
  <2>2. \A p : Stays(b, [b EXCEPT !.v4.phase = p])
    BY <1>1 DEF Stays, BaseType
  <2>3. b.v4.phase \in Settings => b.tuning[b.v4.phase] \in Value
    BY <1>1, FieldTypes DEF Tuning
  <2> DEFINE message == [kind |-> "tune", setting |-> b.v4.phase, value |-> b.tuning[b.v4.phase]]
  <2>4. b.v4.phase \in Settings => message \in Message
    BY <2>3, MessageTypes
  <2> HIDE DEF message
  <2>5. b.v4.phase \in Settings => Stays(b, [Requested(b, message) EXCEPT !.sent = b.tuning[b.v4.phase]])
    BY <2>1, <2>4 DEF Stays, BaseType
  <2>6. Stays(b, Requested(b, [kind |-> "status"])) /\ Stays(b, Requested(b, [kind |-> "probe"]))
    BY <2>1, PlainTypes
  <2>7. CASE b.v4.phase \in Settings
    <3>1. Next4(b) \in {[b EXCEPT !.v4.phase = NextV4Phase(b)], b,
                        [Requested(b, message) EXCEPT !.sent = b.tuning[b.v4.phase]]}
      BY <2>7 DEF Next4, Settings, message
    <3> QED
      BY <2>2, <2>5, <2>7, <3>1 DEF Stays
  <2>8. CASE b.v4.phase \in {"STATUS", "ADJUSTMENT_START"}
    <3>1. Next4(b) \in {b, Requested(b, [kind |-> "status"]), Requested(b, [kind |-> "probe"])}
      BY <2>8 DEF Next4, Settings
    <3> QED
      BY <2>6, <3>1 DEF Stays
  <2>9. CASE b.v4.phase \in {"SELECT", "HOST_TRANSFER"}
    <3>1. Next4(b) \in {[b EXCEPT !.v4.phase = SelectedPhase(b)], [b EXCEPT !.v4.phase = "STATUS"]}
      BY <2>9 DEF Next4, Settings
    <3> QED
      BY <2>2, <3>1
  <2>10. b.v4.phase # "ADJUSTMENT_WAIT" => Stays(b, Next4(b))
    BY <1>1, <2>7, <2>8, <2>9 DEF V4Phases
  <2> QED
    BY <2>10
<1> QED
  BY <1>1, <1>2, <1>3, <1>4 DEF Stays, Continued4

\* Phases in which nothing is hidden.
Open == Phases \ (Searching \cup {"RECONNECT_WAIT", "RECONNECT_HOLD_START"})

LEMMA OpenHidden == ASSUME NEW b, b.phase \in Open PROVE Hidden(b)
  BY DEF Open, Hidden

LEMMA DiscoveryHidden ==
  NeutralInv /\ (DetectRequest \/ DetectResponse \/ ProtocolRequest \/ ProtocolResponse \/ SelectProtocol)
    => Hidden(base')
<1> SUFFICES ASSUME NeutralInv,
                    DetectRequest \/ DetectResponse \/ ProtocolRequest \/ ProtocolResponse \/ SelectProtocol
             PROVE  Hidden(base')
  OBVIOUS
<1>1. base \in BaseType /\ Hidden(base)
  BY DEF NeutralInv, TypeInv, TypeOK
<1>2. \A k \in {"detect", "ask"} :
        Sending(base, [kind |-> k]) \in BaseType /\ Goes(base, Sending(base, [kind |-> k]))
  BY <1>1, SendingType, PlainTypes, LinkGoes DEF Modes
<1>3. CASE DetectRequest
  <2>1. base.phase = "DETECT_REQUEST" /\ base' = [Sending(base, [kind |-> "detect"]) EXCEPT !.phase = "DETECT_RESPONSE", !.late = FALSE]
    BY <1>3 DEF DetectRequest, Pass, In
  <2>2. Goes(base, base')
    BY <1>2, <2>1 DEF Goes, Searching, BaseType
  <2> QED
    BY <1>1, <2>2, GoesHidden
<1>4. CASE DetectResponse
  <2> DEFINE taken == [base EXCEPT !.byte = "none"]
  <2>1. taken \in BaseType /\ Goes(base, taken) /\ base.phase = "DETECT_RESPONSE"
    BY <1>1, <1>4, EmptyTypes DEF DetectResponse, In, Goes, BaseType
  <2> HIDE DEF taken
  <2>2. Goes(base, [taken EXCEPT !.device = base.byte, !.phase = "PROTOCOL_REQUEST"])
    BY <2>1 DEF Goes, Searching, BaseType
  <2>3. base' \in {[taken EXCEPT !.device = base.byte, !.phase = "PROTOCOL_REQUEST"], Reconnect(taken), taken}
    BY <1>4 DEF DetectResponse, Pass, taken
  <2> QED
    BY <1>1, <2>1, <2>2, <2>3, GoesHidden, ReconnectHidden
<1>5. CASE ProtocolRequest
  <2>1. base.phase = "PROTOCOL_REQUEST" /\ base' = [Sending(base, [kind |-> "ask"]) EXCEPT !.phase = "PROTOCOL_RESPONSE", !.late = FALSE]
    BY <1>5 DEF ProtocolRequest, Pass, In
  <2>2. Goes(base, base')
    BY <1>2, <2>1 DEF Goes, Searching, BaseType
  <2> QED
    BY <1>1, <2>2, GoesHidden
<1>6. CASE ProtocolResponse
  <2>1. base.phase = "PROTOCOL_RESPONSE"
    BY <1>6 DEF ProtocolResponse, In
  <2>2. Goes(base, [base EXCEPT !.byte = "none", !.response = base.byte, !.phase = "SELECT_PROTOCOL"])
    BY <1>1, <2>1 DEF Goes, Searching, BaseType
  <2>3. base' \in {[base EXCEPT !.byte = "none", !.response = base.byte, !.phase = "SELECT_PROTOCOL"], Reconnect(base)}
    BY <1>6 DEF ProtocolResponse, Pass
  <2> QED
    BY <1>1, <2>2, <2>3, GoesHidden, ReconnectHidden
<1>7. CASE SelectProtocol
  <2>1. PICK next \in Selected(base.device, base.response) :
              base' = [base EXCEPT !.phase = next, !.channel = 0, !.late = FALSE]
    BY <1>7 DEF SelectProtocol, Pass
  <2>2. base.phase = "SELECT_PROTOCOL"
    BY <1>7 DEF SelectProtocol, In
  <2>3. next \in Searching \/ next = "LEGACY_REQUEST"
    BY DEF Selected, Searching
  <2>4. CASE next \in Searching
    <3>1. Goes(base, base')
      BY <1>1, <2>1, <2>2, <2>4 DEF Goes, Searching, BaseType
    <3> QED
      BY <1>1, <3>1, GoesHidden
  <2>5. CASE next = "LEGACY_REQUEST"
    <3>1. base'.phase = "LEGACY_REQUEST"
      BY <1>1, <2>1, <2>5 DEF BaseType
    <3> QED
      BY <3>1, OpenHidden DEF Open, Phases, Searching
  <2> QED
    BY <2>3, <2>4, <2>5
<1> QED
  BY <1>3, <1>4, <1>5, <1>6, <1>7

LEMMA LegacyHidden == NeutralInv /\ (LegacyRequest \/ LegacyResponse) => Hidden(base')
<1> SUFFICES ASSUME NeutralInv, LegacyRequest \/ LegacyResponse PROVE Hidden(base')
  OBVIOUS
<1>1. base \in BaseType /\ Sound(base)
  BY DEF NeutralInv, TypeInv, TypeOK, V4Linked, Sound, LinkedIn
<1>2. CASE LegacyRequest
  <2>1. Sending(base, [kind |-> "channel"]) \in BaseType
    BY <1>1, SendingType, PlainTypes
  <2>2. base'.phase = "LEGACY_RESPONSE"
    BY <1>2, <2>1 DEF LegacyRequest, Pass, BaseType
  <2> QED
    BY <2>2, OpenHidden DEF Open, Phases, Searching
<1>3. CASE LegacyResponse
  <2> DEFINE c == base.channel
             retried == [base.retries EXCEPT ![c] = base.retries[c] + 1]
             cleared == [base.retries EXCEPT ![c] = 0]
             activity  == base.activity \/ c = 0
             connected == base.connected \/ c = Channels - 1
             answered == [base EXCEPT !.byte = "none", !.input = "live", !.retries = cleared, !.activity = activity,
                                      !.connected = connected]
  <2>1. base' \in {NextChannel(answered), NextChannel([base EXCEPT !.retries = retried]), Reconnect(base)}
    BY <1>3 DEF LegacyResponse, Pass
  <2> HIDE DEF retried, cleared, activity, connected
  <2>2. NextChannel(answered).phase = "LEGACY_REQUEST"
    BY <1>1 DEF NextChannel, BaseType
  <2>3. NextChannel([base EXCEPT !.retries = retried]).phase = "LEGACY_REQUEST"
    BY <1>1 DEF NextChannel, BaseType
  <2> HIDE DEF answered
  <2>4. Hidden(Reconnect(base)) /\ "LEGACY_REQUEST" \in Open
    BY <1>1, ReconnectHidden DEF Open, Phases, Searching
  <2> QED
    BY <2>1, <2>2, <2>3, <2>4, OpenHidden
<1> QED
  BY <1>2, <1>3

LEMMA V3Hidden ==
  NeutralInv /\ (V3SwitchWait \/ V3Start \/ V3Sample \/ V3Output \/ V3Control \/ V3RecoverySetup) => Hidden(base')
<1> SUFFICES ASSUME NeutralInv, V3SwitchWait \/ V3Start \/ V3Sample \/ V3Output \/ V3Control \/ V3RecoverySetup
             PROVE  Hidden(base')
  OBVIOUS
<1>1. base \in BaseType /\ Hidden(base)
  BY DEF NeutralInv, TypeInv, TypeOK
<1>2. \A k \in {"recover", "handshake", "frame", "control"} :
        Sending(base, [kind |-> k]) \in BaseType /\ Sending(base, [kind |-> k]).phase = base.phase
  BY <1>1, SendingType, SendingKeeps, PlainTypes DEF Unanswered, Kept
<1>3. {"V3_STREAM", "V3_RECOVERY_SETUP"} \subseteq Open
  BY DEF Open, Phases, Searching
<1>4. CASE V3SwitchWait
  <2>1. Listening(base, "frame") \in BaseType /\ Goes(base, Listening(base, "frame"))
    BY <1>1, ListeningType, LinkGoes, PlainTypes DEF Modes
  <2>2. base.phase = "V3_SWITCH_WAIT" /\ base' = [Listening(base, "frame") EXCEPT !.phase = "V3_START"]
    BY <1>4 DEF V3SwitchWait, In, Pass
  <2>3. Goes(base, base')
    BY <2>1, <2>2 DEF Goes, Searching, BaseType
  <2> QED
    BY <1>1, <2>3, GoesHidden
<1>5. CASE V3Start
  <2> DEFINE sent == Sending(base, [kind |-> IF base.recovering THEN "recover" ELSE "handshake"])
  <2>1. sent \in BaseType
    BY <1>2
  <2>2. base' = [sent EXCEPT !.phase = "V3_STREAM", !.v3 = "SAMPLE", !.late = FALSE, !.recovering = FALSE]
    BY <1>5 DEF V3Start, Pass
  <2> HIDE DEF sent
  <2>3. base'.phase = "V3_STREAM"
    BY <2>1, <2>2 DEF BaseType
  <2> QED
    BY <1>3, <2>3, OpenHidden
<1>6. CASE V3Sample
  <2>1. base'.phase \in {"V3_STREAM", "V3_RECOVERY_SETUP"}
    BY <1>1, <1>6 DEF V3Sample, In, Pass, BaseType
  <2> QED
    BY <1>3, <2>1, OpenHidden
<1>7. CASE V3Output \/ V3Control
  <2>1. PICK sent \in {base, Sending(base, [kind |-> "frame"]),
                       [Sending(base, [kind |-> "control"]) EXCEPT !.control = FALSE, !.late = FALSE]} :
          \E next : base' = [sent EXCEPT !.v3 = next]
    <3>1. CASE V3Output
      <4>1. PICK due \in BOOLEAN :
              base' = [IF due /\ Free(base) THEN Sending(base, [kind |-> "frame"]) ELSE base EXCEPT
                         !.v3 = IF base.v3 = "STATUS" THEN "CONTROL" ELSE "SAMPLE"]
        BY <3>1 DEF V3Output, Pass
      <4>2. CASE due /\ Free(base)
        BY <4>1, <4>2
      <4>3. CASE ~(due /\ Free(base))
        BY <4>1, <4>3
      <4> QED
        BY <4>2, <4>3
    <3>2. CASE V3Control
      <4>1. base' = [IF base.control /\ Free(base)
                     THEN [Sending(base, [kind |-> "control"]) EXCEPT !.control = FALSE, !.late = FALSE]
                     ELSE base EXCEPT !.v3 = "INPUT"]
        BY <3>2 DEF V3Control, Pass
      <4>2. CASE base.control /\ Free(base)
        BY <4>1, <4>2
      <4>3. CASE ~(base.control /\ Free(base))
        BY <4>1, <4>3
      <4> QED
        BY <4>2, <4>3
    <3> QED
      BY <1>7, <3>1, <3>2
  <2>2. base.phase = "V3_STREAM"
    BY <1>7 DEF V3Output, V3Control, In
  <2> DEFINE control == Sending(base, [kind |-> "control"])
             frame == Sending(base, [kind |-> "frame"])
  <2>3. control \in BaseType /\ control.phase = "V3_STREAM" /\ frame \in BaseType /\ frame.phase = "V3_STREAM"
    BY <1>2, <2>2
  <2>4. sent \in {base, frame, [control EXCEPT !.control = FALSE, !.late = FALSE]}
    BY <2>1
  <2> HIDE DEF control, frame
  <2>6. /\ [control EXCEPT !.control = FALSE, !.late = FALSE] \in BaseType
        /\ [control EXCEPT !.control = FALSE, !.late = FALSE].phase = "V3_STREAM"
    BY <2>3 DEF BaseType
  <2>7. sent \in BaseType /\ sent.phase = "V3_STREAM"
    BY <1>1, <2>2, <2>3, <2>4, <2>6
  <2>5. base'.phase = "V3_STREAM"
    BY <2>1, <2>7 DEF BaseType
  <2> QED
    BY <1>3, <2>5, OpenHidden
<1>8. CASE V3RecoverySetup
  <2>1. [Sending(base, [kind |-> "recover"]) EXCEPT !.recovering = FALSE] \in BaseType
    BY <1>2 DEF BaseType
  <2>2. base' \in {Reconnect([Sending(base, [kind |-> "recover"]) EXCEPT !.recovering = FALSE]), Reconnect(base)}
    BY <1>8 DEF V3RecoverySetup, Pass
  <2> QED
    BY <1>1, <2>1, <2>2, ReconnectHidden
<1> QED
  BY <1>4, <1>5, <1>6, <1>7, <1>8

LEMMA V4Hidden == NeutralInv /\ (V4Start \/ V4Stream) => Hidden(base')
<1> SUFFICES ASSUME NeutralInv, V4Start \/ V4Stream PROVE Hidden(base')
  OBVIOUS
<1>1. base \in BaseType /\ Sound(base)
  BY DEF NeutralInv, TypeInv, TypeOK, V4Linked, Sound, LinkedIn
<1>2. CASE V4Start
  <2>1. Listening(base, "transfer") \in BaseType
    BY <1>1, ListeningType DEF Modes
  <2>2. base'.phase = "V4_STREAM"
    BY <1>2, <2>1 DEF V4Start, Pass, BaseType
  <2> QED
    BY <2>2, OpenHidden DEF Open, Phases, Searching
<1>3. CASE V4Stream
  <2>1. PICK beat \in BOOLEAN :
          base' = IF SessionOver(Got(base)) THEN Over(Got(base)) ELSE Continued4(Got(base), beat)
    BY <1>3, StreamStep DEF Pass
  <2>2. Sound(Got(base))
    BY <1>1, GotSound
  <2>3. Got(base).phase = "V4_STREAM"
    <3>1. base.phase = "V4_STREAM"
      BY <1>3, StreamStep
    <3>2. CASE base.rx # <<>>
      <4>1. [base EXCEPT !.rx = Tail(base.rx)] \in BaseType /\ [base EXCEPT !.rx = Tail(base.rx)].phase = base.phase
        BY <1>1, <3>2, TakenType DEF Sound, BaseType
      <4> QED
        BY <1>1, <3>1, <3>2, <4>1, ReceivedKeeps, TakenType DEF Got, Kept
    <3> QED
      BY <3>1, <3>2 DEF Got
  <2>4. Over(Got(base)).phase = "RECONNECT_HOLD_START" /\ Over(Got(base)).activity
    BY <2>2, OverSound
  <2>5. Continued4(Got(base), beat).phase = "V4_STREAM"
    BY <2>2, <2>3, ContinuedStays DEF Stays
  <2> QED
    BY <2>1, <2>4, <2>5 DEF Hidden, Searching
<1> QED
  BY <1>2, <1>3

LEMMA HoldHidden == NeutralInv /\ (ReconnectHoldStart \/ ReconnectWait) => Hidden(base')
<1> SUFFICES ASSUME NeutralInv, ReconnectHoldStart \/ ReconnectWait PROVE Hidden(base')
  OBVIOUS
<1>1. base \in BaseType /\ Hidden(base)
  BY DEF NeutralInv, TypeInv, TypeOK
<1>2. CASE ReconnectHoldStart
  <2>1. base.phase = "RECONNECT_HOLD_START" /\ base' = [base EXCEPT !.phase = "RECONNECT_WAIT", !.late = FALSE]
    BY <1>2 DEF ReconnectHoldStart, In, Pass
  <2>2. base'.phase = "RECONNECT_WAIT" /\ base'.activity
    BY <1>1, <2>1 DEF BaseType, Hidden
  <2> QED
    BY <2>2 DEF Hidden, Searching
<1>3. CASE ReconnectWait
  <2> DEFINE stopped == Listening(base, "off")
             waiting == IF base.activity THEN ResetState(stopped) ELSE stopped
  <2>1. base.phase = "RECONNECT_WAIT"
    BY <1>3 DEF ReconnectWait, In
  <2>2. stopped \in BaseType /\ Goes(base, stopped)
    BY <1>1, ListeningType, LinkGoes, PlainTypes DEF Modes
  <2>3. stopped.phase = "RECONNECT_WAIT" /\ stopped.activity = base.activity /\ stopped.connected = base.connected
    BY <2>1, <2>2 DEF Goes, Searching
  <2>4. base' = IF base.late
                THEN [Released(Listening(waiting, "byte")) EXCEPT !.phase = "DETECT_REQUEST", !.late = FALSE]
                ELSE waiting
    BY <1>3 DEF ReconnectWait, Pass
  <2> HIDE DEF stopped
  <2>5. waiting \in BaseType /\ ~waiting.activity /\ ~waiting.connected /\ waiting.phase = "RECONNECT_WAIT"
    BY <1>1, <2>1, <2>2, <2>3, ResetType, ResetPublishes DEF Hidden, BaseType
  <2> HIDE DEF waiting
  <2>6. Listening(waiting, "byte") \in BaseType /\ Goes(waiting, Listening(waiting, "byte"))
    BY <2>5, ListeningType, LinkGoes, PlainTypes DEF Modes
  <2> DEFINE listening == Listening(waiting, "byte")
  <2>7. listening \in BaseType /\ ~listening.activity /\ ~listening.connected
    BY <2>5, <2>6 DEF Goes
  <2> HIDE DEF listening
  <2>8. Hidden([Released(listening) EXCEPT !.phase = "DETECT_REQUEST", !.late = FALSE])
    BY <2>7 DEF Released, Hidden, Searching, BaseType
  <2>9. Hidden(waiting)
    BY <2>5 DEF Hidden, Searching
  <2> QED
    BY <2>4, <2>8, <2>9 DEF listening
<1> QED
  BY <1>2, <1>3

LEMMA DeadlineHidden == NeutralInv /\ DeadlinePasses => Hidden(base')
<1> SUFFICES ASSUME NeutralInv, DeadlinePasses PROVE Hidden(base')
  OBVIOUS
<1>1. base \in BaseType /\ Hidden(base)
  BY DEF NeutralInv, TypeInv, TypeOK
<1>2. Goes(base, [base EXCEPT !.late = TRUE])
  BY <1>1 DEF Goes, BaseType
<1> QED
  BY <1>1, <1>2, GoesHidden DEF DeadlinePasses, Pass

LEMMA LineHidden == NeutralInv /\ Line => Hidden(base')
<1> SUFFICES ASSUME NeutralInv, Line PROVE Hidden(base')
  OBVIOUS
<1>1. base \in BaseType /\ Hidden(base)
  BY DEF NeutralInv, TypeInv, TypeOK
<1>2. Goes(base, base) /\ Goes(base, Sent(base))
  BY <1>1 DEF Goes, Sent, BaseType
<1>3. ASSUME NEW item PROVE Goes(base, Arrived(base, item))
  BY <1>1 DEF Goes, Arrived, BaseType
<1>4. Goes(base, [base EXCEPT !.frame = TRUE]) /\ Goes(base, [base EXCEPT !.byte = "noise"])
  BY <1>1 DEF Goes, BaseType
<1>5. CASE TransmissionEnds \/ TransmissionGarbled
  BY <1>1, <1>2, <1>5, GoesHidden DEF TransmissionEnds, TransmissionGarbled
<1>6. CASE Complain \/ AdjustmentEnds \/ Plug
  BY <1>1, <1>6 DEF Complain, AdjustmentEnds, Plug
<1>7. CASE Arrive \/ ArriveGarbled
  <2>1. base' = base \/ \E item : base' = Arrived(base, item)
    BY <1>7 DEF Arrive, ArriveGarbled
  <2> QED
    BY <1>1, <1>3, <2>1, GoesHidden
<1>8. CASE Report
  <2>1. base' \in {base, [base EXCEPT !.frame = TRUE], [base EXCEPT !.byte = "noise"]}
    BY <1>8 DEF Report
  <2> QED
    BY <1>1, <1>4, <2>1, GoesHidden
<1> QED
  BY <1>5, <1>6, <1>7, <1>8 DEF Line

LEMMA FirmwareHidden == NeutralInv /\ Firmware => Hidden(base')
<1> SUFFICES ASSUME NeutralInv, Firmware PROVE Hidden(base')
  OBVIOUS
<1>1. base \in BaseType /\ Hidden(base)
  BY DEF NeutralInv, TypeInv, TypeOK
<1>2. CASE AnalogSamples
  <2>1. PICK level \in env.analog \cup {"absent"} :
          LET b == [base EXCEPT !.analog = level]
          IN  base' = IF ~In("ANALOG") THEN b
                      ELSE IF level = "absent" THEN Reconnect(Released([b EXCEPT !.learning = FALSE]))
                      ELSE AnalogInput(b)
    BY <1>2 DEF AnalogSamples
  <2> DEFINE b == [base EXCEPT !.analog = level]
  <2>2. level \in Levels
    BY DEF NeutralInv, TypeInv, TypeOK, EnvType, Levels
  <2>3. b \in BaseType /\ Goes(base, b)
    BY <1>1, <2>2 DEF Goes, BaseType
  <2> HIDE DEF b
  <2>4. [b EXCEPT !.learning = FALSE] \in BaseType
    BY <2>3 DEF BaseType
  <2>5. Hidden(Reconnect(Released([b EXCEPT !.learning = FALSE])))
    BY <2>4, ReleasedType, ReconnectHidden
  <2>6. In("ANALOG") => Hidden(AnalogInput(b))
    <3>1. AnalogInput(b).phase = b.phase
      BY <2>3 DEF AnalogInput, BaseType
    <3> QED
      BY <2>3, <3>1, OpenHidden DEF In, Goes, Open, Phases, Searching
  <2> QED
    BY <1>1, <2>1, <2>3, <2>5, <2>6, GoesHidden DEF b
<1>3. CASE ChangeTuning
  <2>1. PICK s \in Tuned, v \in Value : base' = [base EXCEPT !.tuning[s] = v, !.pending = @ \cup {s}]
    BY <1>3 DEF ChangeTuning
  <2>2. Goes(base, base')
    BY <1>1, <2>1 DEF Goes, BaseType
  <2> QED
    BY <1>1, <2>2, GoesHidden
<1>4. CASE PressAdjustment \/ RequestControl
  <2>1. Goes(base, base')
    BY <1>1, <1>4 DEF PressAdjustment, RequestControl, Goes, BaseType
  <2> QED
    BY <1>1, <2>1, GoesHidden
<1>5. CASE RequestStartup
  BY <1>1, <1>5, RestartedHidden DEF RequestStartup
<1> QED
  BY <1>2, <1>3, <1>4, <1>5 DEF Firmware

\* While pedals are searched for, none are reported as connected and no pedal is published as pressed,
\* for every line and every change of pedals: the hold after a failure ends before discovery begins
\* (pedal_service_run and release_published_input).
THEOREM NeutralSearch == Spec => []NeutralWhileSearching
<1>1. Init => NeutralInv
  BY InitType DEF NeutralInv, Init, Hidden, Searching
<1>2. NeutralInv /\ [Next]_vars => NeutralInv'
  <2> SUFFICES ASSUME NeutralInv, [Next]_vars PROVE NeutralInv'
    OBVIOUS
  <2>1. TypeInv'
    BY NextType DEF NeutralInv
  <2>2. CASE UNCHANGED vars
    BY <2>1, <2>2 DEF NeutralInv, vars
  <2>3. CASE Run
    <3>1. Hidden(base')
      BY <2>3, DiscoveryHidden, LegacyHidden, V3Hidden, V4Hidden, HoldHidden DEF Run
    <3> QED
      BY <2>1, <3>1 DEF NeutralInv, Hidden
  <2>4. CASE DeadlinePasses \/ Line \/ Firmware
    <3>1. Hidden(base')
      BY <2>4, DeadlineHidden, LineHidden, FirmwareHidden
    <3> QED
      BY <2>1, <3>1 DEF NeutralInv, Hidden
  <2> QED
    BY <2>2, <2>3, <2>4 DEF Next
<1>3. NeutralInv => NeutralWhileSearching
  BY DEF NeutralInv, Hidden, NeutralWhileSearching
<1> QED
  BY <1>1, <1>2, <1>3, PTL DEF Spec

----------------------------------------------------------------------------
(* What a V4 setting that is done with tells of the pedals. *)

Spoiled == {"error", "bad", "badData"}
Whole == Items \ Spoiled
Unasked == Items \ Answers
Holds == {"RECONNECT_HOLD_START", "RECONNECT_WAIT"}

\* Only V4 pedals answer; a line that loses nothing carries no complaints.
LineInv == /\ pedal.kind # "V4" => ~pedal.probing /\ pedal.air \in Seq(Unasked)
           /\ env.clean => ~pedal.garbled /\ pedal.air \in Seq(Whole)
           /\ base.phase = "V4_STREAM" => base.mode = "transfer"

\* A setting that is being sent waits, and in a session it is the one that was asked for last.
Out(b) == b.tx.kind = "tune" =>
            /\ b.tx.setting \in b.pending /\ b.phase \in Holds \cup {"V4_STREAM"}
            /\ b.phase = "V4_STREAM" => /\ b.v4.request /\ ~b.v4.response
                                        /\ b.v4.phase = b.tx.setting /\ b.tx.value = b.sent

\* One that was sent and is not answered has been taken, or no answer will come that could be its own.
Asked(b) == b.phase = "V4_STREAM" /\ b.v4.request /\ b.v4.phase \in Settings /\ b.tx.kind # "tune"
Unheard(b) == ~b.v4.response /\ b.rx \in Seq(Unasked) /\ ~pedal.probing /\ pedal.air \in Seq(Unasked)
Sure(b) == Asked(b) => /\ b.tx.kind \notin {"status", "probe"}
                       /\ told[b.v4.phase] = b.sent \/ Unheard(b)

Taken(b) == \A s \in Settings \ b.pending : b.tuning[s] = told[s]

Fit(b) == Out(b) /\ Sure(b) /\ Taken(b)

TuningInv == TypeInv /\ LineInv /\ (env.clean /\ ~base.forgot => Fit(base) /\ base.rx \in Seq(Whole))

\* Outside a session nothing is settled, and a setting that is still being sent is not sent again.
Leaves(b, c) == /\ c.pending = b.pending /\ c.tuning = b.tuning /\ c.forgot = b.forgot
                /\ c.rx = b.rx \/ c.rx = <<>>
                /\ c.tx = b.tx \/ c.tx.kind # "tune"

LEMMA LeavesOn == ASSUME NEW b, NEW c, NEW d, Leaves(b, c), Leaves(c, d) PROVE Leaves(b, d)
  BY DEF Leaves

LEMMA QuietStep ==
  ASSUME TuningInv, TypeInv', UNCHANGED <<env, pedal, told>>, Leaves(base, base'), base.phase # "V4_STREAM",
         base'.phase = "V4_STREAM" => base'.mode = "transfer" /\ ~base'.v4.request,
         base.phase \in Holds /\ base'.tx.kind = "tune" => base'.phase \in Holds
  PROVE  TuningInv'
<1>1. LineInv'
  BY DEF TuningInv, LineInv
<1>2. ASSUME env'.clean, ~base'.forgot PROVE Fit(base)' /\ base'.rx \in Seq(Whole)
  <2>1. Out(base) /\ Taken(base) /\ base.rx \in Seq(Whole) /\ <<>> \in Seq(Whole)
    BY <1>2 DEF TuningInv, Fit, Leaves
  <2>2. Out(base)'
    BY <2>1 DEF Out, Leaves, Holds
  <2>3. Sure(base)'
    BY DEF Sure, Asked
  <2>4. Taken(base)'
    BY <2>1 DEF Taken, Leaves
  <2>5. base'.rx \in Seq(Whole)
    BY <2>1 DEF Leaves
  <2> QED
    BY <2>2, <2>3, <2>4, <2>5 DEF Fit
<1> QED
  BY <1>1, <1>2 DEF TuningInv

\* A step that touches nothing of this.
Alike(b, c) == /\ c.pending = b.pending /\ c.tuning = b.tuning /\ c.forgot = b.forgot /\ c.rx = b.rx /\ c.tx = b.tx
               /\ c.phase = b.phase /\ c.mode = b.mode /\ c.sent = b.sent /\ c.v4 = b.v4

LEMMA AlikeStep ==
  ASSUME TuningInv, TypeInv', UNCHANGED <<pedal, told>>, env'.clean => env.clean, Alike(base, base')
  PROVE  TuningInv'
<1>1. LineInv'
  BY DEF TuningInv, LineInv, Alike
<1>2. ASSUME env'.clean, ~base'.forgot PROVE Fit(base)' /\ base'.rx \in Seq(Whole)
  <2>1. Out(base) /\ Sure(base) /\ Taken(base) /\ base'.rx \in Seq(Whole)
    BY <1>2 DEF TuningInv, Fit, Alike
  <2>2. Out(base)' /\ Taken(base)'
    BY <2>1 DEF Out, Taken, Alike
  <2>3. Sure(base)'
    BY <2>1 DEF Sure, Asked, Unheard, Alike
  <2> QED
    BY <2>1, <2>2, <2>3 DEF Fit
<1> QED
  BY <1>1, <1>2 DEF TuningInv

LEMMA LinkLeaves ==
  ASSUME NEW b \in BaseType, NEW mode \in Modes
  PROVE  /\ Leaves(b, Listening(b, mode)) /\ Listening(b, mode).tx.kind # "tune"
         /\ Leaves(b, Released(b)) /\ Leaves(b, AnalogInput(b)) /\ Leaves(b, ResetState(b))
         /\ Released(b).tx = b.tx /\ AnalogInput(b).tx = b.tx /\ ResetState(b).tx = b.tx
         /\ \A k \in Plain : Leaves(b, Sending(b, [kind |-> k]))
<1>1. Cut(b.tx).kind # "tune"
  BY FieldTypes DEF Cut, TxType, Message, Nothing
<1>2. Leaves(b, Listening(b, mode)) /\ Listening(b, mode).tx.kind # "tune"
  BY <1>1 DEF Listening, Leaves, BaseType
<1>3. Leaves(b, Released(b)) /\ Released(b).tx = b.tx
  BY DEF Released, Leaves, BaseType
<1>4. Leaves(b, AnalogInput(b)) /\ AnalogInput(b).tx = b.tx
  BY DEF AnalogInput, Leaves, BaseType
<1>5. Leaves(b, ResetState(b)) /\ ResetState(b).tx = b.tx
  BY DEF ResetState, Leaves, BaseType
<1>6. ASSUME NEW k \in Plain PROVE Leaves(b, Sending(b, [kind |-> k]))
  BY DEF Sending, Leaves, BaseType, Plain
<1> QED
  BY <1>2, <1>3, <1>4, <1>5, <1>6

LEMMA ReconnectLeaves ==
  ASSUME NEW b \in BaseType
  PROVE  /\ Leaves(b, Reconnect(b)) /\ Reconnect(b).tx.kind # "tune"
         /\ Reconnect(b).phase \in {"ANALOG", "RECONNECT_WAIT"}
<1> DEFINE stopped == Listening(b, "off")
           reset   == ResetState(IF b.activity THEN stopped ELSE Released(stopped))
<1>1. stopped \in BaseType /\ Leaves(b, stopped) /\ stopped.tx.kind # "tune"
  BY ListeningType, LinkLeaves DEF Modes
<1> HIDE DEF stopped
<1>2. reset \in BaseType /\ Leaves(b, reset) /\ reset.tx.kind # "tune"
  <2>1. /\ Released(stopped) \in BaseType /\ Leaves(stopped, Released(stopped))
        /\ Released(stopped).tx.kind # "tune"
    BY <1>1, ReleasedType, LinkLeaves DEF Modes
  <2>2. PICK c \in {stopped, Released(stopped)} : reset = ResetState(c)
    OBVIOUS
  <2>3. c \in BaseType /\ Leaves(b, c) /\ c.tx.kind # "tune"
    BY <1>1, <2>1, <2>2, LeavesOn
  <2>4. reset \in BaseType /\ Leaves(c, reset) /\ reset.tx = c.tx
    BY <2>2, <2>3, ResetType, LinkLeaves DEF Modes
  <2> HIDE DEF reset
  <2> QED
    BY <2>3, <2>4, LeavesOn
<1> HIDE DEF reset
<1>3. AnalogInput(reset) \in BaseType /\ Leaves(b, AnalogInput(reset)) /\ AnalogInput(reset).tx.kind # "tune"
  BY <1>2, AnalogType, LinkLeaves, LeavesOn DEF Modes
<1> DEFINE analog == [AnalogInput(reset) EXCEPT !.phase = "ANALOG", !.connected = TRUE]
           wait   == [reset EXCEPT !.phase = "RECONNECT_WAIT", !.late = FALSE]
<1>4. Leaves(b, analog) /\ analog.tx.kind # "tune" /\ analog.phase = "ANALOG"
  BY <1>3 DEF Leaves, BaseType
<1>5. Leaves(b, wait) /\ wait.tx.kind # "tune" /\ wait.phase = "RECONNECT_WAIT"
  BY <1>2 DEF Leaves, BaseType
<1>6. Reconnect(b) \in {analog, wait}
  BY DEF Reconnect, reset, stopped
<1> HIDE DEF analog, wait
<1> QED
  BY <1>4, <1>5, <1>6

\* Outside a session and the hold after it, a pass that leaves the settings alone and does not begin a session.
LEMMA OutsideStep ==
  ASSUME TuningInv, TypeInv', UNCHANGED <<env, pedal, told>>, Leaves(base, base'),
         base.phase \notin Holds \cup {"V4_STREAM"}, base'.phase # "V4_STREAM"
  PROVE  TuningInv'
  BY QuietStep

LEMMA DiscoveryTuned ==
  TuningInv /\ (DetectRequest \/ DetectResponse \/ ProtocolRequest \/ ProtocolResponse \/ SelectProtocol)
    => TuningInv'
<1> SUFFICES ASSUME TuningInv,
                    DetectRequest \/ DetectResponse \/ ProtocolRequest \/ ProtocolResponse \/ SelectProtocol
             PROVE  TuningInv'
  OBVIOUS
<1>1. base \in BaseType /\ TypeInv'
  BY DiscoveryType DEF TuningInv, TypeInv, TypeOK
<1>2. UNCHANGED <<env, pedal, told>>
  BY DEF DetectRequest, DetectResponse, ProtocolRequest, ProtocolResponse, SelectProtocol, Pass
<1>3. base.phase \notin Holds \cup {"V4_STREAM"}
  BY DEF DetectRequest, DetectResponse, ProtocolRequest, ProtocolResponse, SelectProtocol, In, Holds
<1>4. \A k \in {"detect", "ask"} :
        Sending(base, [kind |-> k]) \in BaseType /\ Leaves(base, Sending(base, [kind |-> k]))
  BY <1>1, SendingType, PlainTypes, LinkLeaves DEF Modes, Plain
<1>5. CASE DetectRequest
  <2>1. base' = [Sending(base, [kind |-> "detect"]) EXCEPT !.phase = "DETECT_RESPONSE", !.late = FALSE]
    BY <1>5 DEF DetectRequest, Pass
  <2>2. Leaves(base, base') /\ base'.phase # "V4_STREAM"
    BY <1>4, <2>1 DEF Leaves, BaseType
  <2> QED
    BY <1>1, <1>2, <1>3, <2>2, OutsideStep
<1>6. CASE DetectResponse
  <2> DEFINE taken == [base EXCEPT !.byte = "none"]
             next  == [taken EXCEPT !.device = base.byte, !.phase = "PROTOCOL_REQUEST"]
  <2>1. taken \in BaseType /\ Leaves(base, taken) /\ taken.phase = base.phase
    BY <1>1, EmptyTypes DEF Leaves, BaseType
  <2>2. base' \in {next, Reconnect(taken), taken}
    BY <1>6 DEF DetectResponse, Pass
  <2> HIDE DEF taken
  <2>3. Leaves(base, next) /\ next.phase = "PROTOCOL_REQUEST"
    BY <2>1 DEF Leaves, BaseType
  <2>4. Leaves(base, Reconnect(taken)) /\ Reconnect(taken).phase # "V4_STREAM"
    BY <2>1, ReconnectLeaves, LeavesOn
  <2>5. Leaves(base, base') /\ base'.phase # "V4_STREAM"
    BY <1>3, <2>1, <2>2, <2>3, <2>4
  <2> QED
    BY <1>1, <1>2, <1>3, <2>5, OutsideStep
<1>7. CASE ProtocolRequest
  <2>1. base' = [Sending(base, [kind |-> "ask"]) EXCEPT !.phase = "PROTOCOL_RESPONSE", !.late = FALSE]
    BY <1>7 DEF ProtocolRequest, Pass
  <2>2. Leaves(base, base') /\ base'.phase # "V4_STREAM"
    BY <1>4, <2>1 DEF Leaves, BaseType
  <2> QED
    BY <1>1, <1>2, <1>3, <2>2, OutsideStep
<1>8. CASE ProtocolResponse
  <2> DEFINE next == [base EXCEPT !.byte = "none", !.response = base.byte, !.phase = "SELECT_PROTOCOL"]
  <2>1. base' \in {next, Reconnect(base)}
    BY <1>8 DEF ProtocolResponse, Pass
  <2>2. Leaves(base, next) /\ next.phase = "SELECT_PROTOCOL"
    BY <1>1 DEF Leaves, BaseType
  <2>3. Leaves(base, base') /\ base'.phase # "V4_STREAM"
    BY <1>1, <2>1, <2>2, ReconnectLeaves
  <2> QED
    BY <1>1, <1>2, <1>3, <2>3, OutsideStep
<1>9. CASE SelectProtocol
  <2>1. PICK next \in Selected(base.device, base.response) :
              base' = [base EXCEPT !.phase = next, !.channel = 0, !.late = FALSE]
    BY <1>9 DEF SelectProtocol, Pass
  <2>2. next # "V4_STREAM"
    BY DEF Selected
  <2>3. Leaves(base, base') /\ base'.phase # "V4_STREAM"
    BY <1>1, <2>1, <2>2 DEF Leaves, BaseType
  <2> QED
    BY <1>1, <1>2, <1>3, <2>3, OutsideStep
<1> QED
  BY <1>5, <1>6, <1>7, <1>8, <1>9

LEMMA LegacyTuned == TuningInv /\ (LegacyRequest \/ LegacyResponse) => TuningInv'
<1> SUFFICES ASSUME TuningInv, LegacyRequest \/ LegacyResponse PROVE TuningInv'
  OBVIOUS
<1>1. base \in BaseType /\ TypeInv'
  BY LegacyType DEF TuningInv, TypeInv, TypeOK
<1>2. UNCHANGED <<env, pedal, told>>
  BY DEF LegacyRequest, LegacyResponse, Pass
<1>3. base.phase \notin Holds \cup {"V4_STREAM"}
  BY DEF LegacyRequest, LegacyResponse, In, Holds
<1>4. CASE LegacyRequest
  <2>1. Sending(base, [kind |-> "channel"]) \in BaseType /\ Leaves(base, Sending(base, [kind |-> "channel"]))
    BY <1>1, SendingType, PlainTypes, LinkLeaves DEF Modes, Plain
  <2>2. base' = [Sending(base, [kind |-> "channel"]) EXCEPT !.phase = "LEGACY_RESPONSE", !.late = FALSE]
    BY <1>4 DEF LegacyRequest, Pass
  <2>3. Leaves(base, base') /\ base'.phase # "V4_STREAM"
    BY <2>1, <2>2 DEF Leaves, BaseType
  <2> QED
    BY <1>1, <1>2, <1>3, <2>3, OutsideStep
<1>5. CASE LegacyResponse
  <2> DEFINE c == base.channel
             retried == [base.retries EXCEPT ![c] = base.retries[c] + 1]
             cleared == [base.retries EXCEPT ![c] = 0]
             activity  == base.activity \/ c = 0
             connected == base.connected \/ c = Channels - 1
             answered == [base EXCEPT !.byte = "none", !.input = "live", !.retries = cleared, !.activity = activity,
                                      !.connected = connected]
             again == [base EXCEPT !.retries = retried]
  <2>1. base' \in {NextChannel(answered), NextChannel(again), Reconnect(base)}
    BY <1>5 DEF LegacyResponse, Pass
  <2> HIDE DEF retried, cleared, activity, connected
  <2>2. Leaves(base, NextChannel(answered)) /\ NextChannel(answered).phase = "LEGACY_REQUEST"
    BY <1>1 DEF NextChannel, Leaves, BaseType
  <2>3. Leaves(base, NextChannel(again)) /\ NextChannel(again).phase = "LEGACY_REQUEST"
    BY <1>1 DEF NextChannel, Leaves, BaseType
  <2> HIDE DEF answered, again
  <2>4. Leaves(base, base') /\ base'.phase # "V4_STREAM"
    BY <1>1, <2>1, <2>2, <2>3, ReconnectLeaves
  <2> QED
    BY <1>1, <1>2, <1>3, <2>4, OutsideStep
<1> QED
  BY <1>4, <1>5

LEMMA V3Tuned ==
  TuningInv /\ (V3SwitchWait \/ V3Start \/ V3Sample \/ V3Output \/ V3Control \/ V3RecoverySetup) => TuningInv'
<1> SUFFICES ASSUME TuningInv, V3SwitchWait \/ V3Start \/ V3Sample \/ V3Output \/ V3Control \/ V3RecoverySetup
             PROVE  TuningInv'
  OBVIOUS
<1>1. base \in BaseType /\ TypeInv'
  BY V3Type DEF TuningInv, TypeInv, TypeOK
<1>2. UNCHANGED <<env, pedal, told>>
  BY DEF V3SwitchWait, V3Start, V3Sample, V3Output, V3Control, V3RecoverySetup, Pass
<1>3. base.phase \notin Holds \cup {"V4_STREAM"}
  BY DEF V3SwitchWait, V3Start, V3Sample, V3Output, V3Control, V3RecoverySetup, In, Holds
<1>4. \A k \in {"recover", "handshake", "frame", "control"} :
        /\ Sending(base, [kind |-> k]) \in BaseType /\ Leaves(base, Sending(base, [kind |-> k]))
        /\ Sending(base, [kind |-> k]).phase = base.phase
  <2> SUFFICES ASSUME NEW k \in {"recover", "handshake", "frame", "control"}
               PROVE  /\ Sending(base, [kind |-> k]) \in BaseType /\ Leaves(base, Sending(base, [kind |-> k]))
                      /\ Sending(base, [kind |-> k]).phase = base.phase
    OBVIOUS
  <2>1. k \in Plain /\ [kind |-> k] \in TxType
    BY PlainTypes DEF Plain
  <2>2. Sending(base, [kind |-> k]) \in BaseType /\ Unanswered(base, Sending(base, [kind |-> k]))
    BY <1>1, <2>1, SendingType, SendingKeeps
  <2>3. Leaves(base, Sending(base, [kind |-> k]))
    BY <1>1, <2>1, LinkLeaves DEF Modes
  <2> QED
    BY <2>2, <2>3 DEF Unanswered, Kept
<1>5. Leaves(base, base') /\ base'.phase # "V4_STREAM"
  <2>1. CASE V3SwitchWait
    <3>1. Listening(base, "frame") \in BaseType /\ Leaves(base, Listening(base, "frame"))
      BY <1>1, ListeningType, LinkLeaves DEF Modes
    <3>2. base' = [Listening(base, "frame") EXCEPT !.phase = "V3_START"]
      BY <2>1 DEF V3SwitchWait, Pass
    <3> QED
      BY <3>1, <3>2 DEF Leaves, BaseType
  <2>2. CASE V3Start
    <3> DEFINE sent == Sending(base, [kind |-> IF base.recovering THEN "recover" ELSE "handshake"])
    <3>1. sent \in BaseType /\ Leaves(base, sent)
      BY <1>4
    <3>2. base' = [sent EXCEPT !.phase = "V3_STREAM", !.v3 = "SAMPLE", !.late = FALSE, !.recovering = FALSE]
      BY <2>2 DEF V3Start, Pass
    <3> HIDE DEF sent
    <3> QED
      BY <3>1, <3>2 DEF Leaves, BaseType
  <2>3. CASE V3Sample
    BY <1>1, <2>3 DEF V3Sample, In, Pass, Leaves, BaseType
  <2>4. CASE V3Output
    <3>1. PICK sent \in {base, Sending(base, [kind |-> "frame"])} : \E next : base' = [sent EXCEPT !.v3 = next]
      <4>1. PICK due \in BOOLEAN :
              base' = [IF due /\ Free(base) THEN Sending(base, [kind |-> "frame"]) ELSE base EXCEPT
                         !.v3 = IF base.v3 = "STATUS" THEN "CONTROL" ELSE "SAMPLE"]
        BY <2>4 DEF V3Output, Pass
      <4>2. CASE due /\ Free(base)
        BY <4>1, <4>2
      <4>3. CASE ~(due /\ Free(base))
        BY <4>1, <4>3
      <4> QED
        BY <4>2, <4>3
    <3>2. sent \in BaseType /\ Leaves(base, sent) /\ sent.phase = base.phase
      BY <1>1, <1>4 DEF Leaves
    <3> QED
      BY <1>3, <3>1, <3>2 DEF Leaves, BaseType
  <2>5. CASE V3Control
    <3> DEFINE frame   == Sending(base, [kind |-> "control"])
               control == [frame EXCEPT !.control = FALSE, !.late = FALSE]
    <3>1. base' = [IF base.control /\ Free(base) THEN control ELSE base EXCEPT !.v3 = "INPUT"]
      BY <2>5 DEF V3Control, Pass
    <3>2. frame \in BaseType /\ Leaves(base, frame) /\ frame.phase = base.phase
      BY <1>4
    <3> HIDE DEF frame
    <3>3. control \in BaseType /\ Leaves(base, control) /\ control.phase = base.phase
      BY <3>2 DEF Leaves, BaseType
    <3> HIDE DEF control
    <3>4. PICK sent \in {base, control} : base' = [sent EXCEPT !.v3 = "INPUT"]
      BY <3>1
    <3>5. sent \in BaseType /\ Leaves(base, sent) /\ sent.phase = base.phase
      BY <1>1, <3>3, <3>4 DEF Leaves
    <3> QED
      BY <1>3, <3>4, <3>5 DEF Leaves, BaseType
  <2>6. CASE V3RecoverySetup
    <3> DEFINE sent   == Sending(base, [kind |-> "recover"])
               begun  == [sent EXCEPT !.recovering = FALSE]
    <3>1. sent \in BaseType /\ Leaves(base, sent)
      BY <1>4
    <3>2. base' \in {Reconnect(begun), Reconnect(base)}
      BY <2>6 DEF V3RecoverySetup, Pass
    <3> HIDE DEF sent
    <3>3. begun \in BaseType /\ Leaves(base, begun)
      BY <3>1 DEF Leaves, BaseType
    <3> HIDE DEF begun
    <3> QED
      BY <1>1, <3>2, <3>3, ReconnectLeaves, LeavesOn
  <2> QED
    BY <2>1, <2>2, <2>3, <2>4, <2>5, <2>6
<1> QED
  BY <1>1, <1>2, <1>3, <1>5, OutsideStep

LEMMA HoldTuned == TuningInv /\ (V4Start \/ ReconnectHoldStart \/ ReconnectWait) => TuningInv'
<1> SUFFICES ASSUME TuningInv, V4Start \/ ReconnectHoldStart \/ ReconnectWait PROVE TuningInv'
  OBVIOUS
<1>1. base \in BaseType /\ TypeInv'
  BY HoldType, V4Type4 DEF TuningInv, TypeInv, TypeOK
<1>2. UNCHANGED <<env, pedal, told>>
  BY DEF V4Start, ReconnectHoldStart, ReconnectWait, Pass
<1>3. CASE V4Start
  <2> DEFINE opened == Listening(base, "transfer")
             v == [Idle4 EXCEPT !.active = TRUE]
  <2>1. opened \in BaseType /\ Leaves(base, opened) /\ opened.tx.kind # "tune" /\ opened.mode = "transfer"
    <3>1. opened \in BaseType /\ Leaves(base, opened) /\ opened.tx.kind # "tune"
      BY <1>1, ListeningType, LinkLeaves DEF Modes
    <3>2. opened.mode = "transfer"
      BY <1>1 DEF Listening, BaseType
    <3> QED
      BY <3>1, <3>2
  <2>2. ~v.request
    BY DEF Idle4
  <2>3. base' = [opened EXCEPT !.phase = "V4_STREAM", !.v4 = v, !.late = FALSE] /\ base.phase = "V4_START"
    BY <1>3 DEF V4Start, Pass, In
  <2> HIDE DEF opened, v
  <2>4. Leaves(base, base') /\ base'.mode = "transfer" /\ ~base'.v4.request /\ base'.tx.kind # "tune"
    BY <2>1, <2>2, <2>3 DEF Leaves, BaseType
  <2> QED
    BY <1>1, <1>2, <2>3, <2>4, QuietStep
<1>4. CASE ReconnectHoldStart
  <2>1. base.phase = "RECONNECT_HOLD_START" /\ base' = [base EXCEPT !.phase = "RECONNECT_WAIT", !.late = FALSE]
    BY <1>4 DEF ReconnectHoldStart, In, Pass
  <2>2. Leaves(base, base') /\ base'.phase = "RECONNECT_WAIT"
    BY <1>1, <2>1 DEF Leaves, BaseType
  <2> QED
    BY <1>1, <1>2, <2>1, <2>2, QuietStep DEF Holds
<1>5. CASE ReconnectWait
  <2> DEFINE stopped == Listening(base, "off")
             waiting == IF base.activity THEN ResetState(stopped) ELSE stopped
             listening == Listening(waiting, "byte")
  <2>1. stopped \in BaseType /\ Leaves(base, stopped) /\ stopped.tx.kind # "tune" /\ stopped.phase = "RECONNECT_WAIT"
    <3>1. stopped \in BaseType /\ Leaves(base, stopped) /\ stopped.tx.kind # "tune"
      BY <1>1, ListeningType, LinkLeaves DEF Modes
    <3>2. stopped.phase = base.phase
      BY <1>1 DEF Listening, BaseType
    <3> QED
      BY <1>5, <3>1, <3>2 DEF ReconnectWait, In
  <2>2. base' = IF base.late THEN [Released(listening) EXCEPT !.phase = "DETECT_REQUEST", !.late = FALSE]
                ELSE waiting
    BY <1>5 DEF ReconnectWait, Pass
  <2> HIDE DEF stopped
  <2>3. waiting \in BaseType /\ Leaves(base, waiting) /\ waiting.tx.kind # "tune" /\ waiting.phase = "RECONNECT_WAIT"
    <3>1. /\ ResetState(stopped) \in BaseType /\ Leaves(stopped, ResetState(stopped))
          /\ ResetState(stopped).tx.kind # "tune" /\ ResetState(stopped).phase = "RECONNECT_WAIT"
      BY <2>1, ResetType, ResetPublishes, LinkLeaves DEF Modes
    <3> QED
      BY <2>1, <3>1, LeavesOn
  <2> HIDE DEF waiting
  <2>4. listening \in BaseType /\ Leaves(base, listening) /\ listening.tx.kind # "tune"
    BY <2>3, ListeningType, LinkLeaves, LeavesOn DEF Modes
  <2> HIDE DEF listening
  <2>5. /\ Released(listening) \in BaseType /\ Leaves(base, Released(listening))
        /\ Released(listening).tx.kind # "tune"
    BY <2>4, ReleasedType, LinkLeaves, LeavesOn DEF Modes
  <2> DEFINE released == Released(listening)
  <2> HIDE DEF released
  <2>6. LET c == [released EXCEPT !.phase = "DETECT_REQUEST", !.late = FALSE]
        IN  Leaves(base, c) /\ c.tx.kind # "tune" /\ c.phase = "DETECT_REQUEST"
    <3>1. released \in BaseType /\ Leaves(base, released) /\ released.tx.kind # "tune"
      BY <2>5 DEF released
    <3> QED
      BY <3>1 DEF Leaves, BaseType
  <2>7. Leaves(base, base') /\ base'.tx.kind # "tune" /\ base'.phase # "V4_STREAM"
    BY <2>2, <2>3, <2>6 DEF released
  <2>8. base.phase = "RECONNECT_WAIT"
    BY <1>5 DEF ReconnectWait, In
  <2> QED
    BY <1>1, <1>2, <2>7, <2>8, QuietStep
<1> QED
  BY <1>3, <1>4, <1>5

\* At most an acknowledgement or a heartbeat begins to be sent, and what has arrived is thrown away.
Sends(b, c) == /\ Unanswered(b, c)
               /\ \/ c.tx = b.tx /\ c.rx = b.rx
                  \/ b.tx.kind = "none" /\ c.tx.kind \in {"ack", "empty"} /\ c.rx = <<>>

LEMMA SendsFits == ASSUME NEW b, NEW c, Sends(b, c), Fit(b) PROVE Fit(c)
<1>1. Out(c)
  BY DEF Fit, Out, Sends, Unanswered, Kept
<1>2. Sure(c)
  <2>1. Asked(c) => Asked(b)
    BY DEF Asked, Sends, Unanswered, Kept
  <2>2. Asked(c) => c.tx.kind \notin {"status", "probe"}
    BY <2>1 DEF Fit, Sure, Sends
  <2>3. Unheard(b) => Unheard(c)
    <3>1. <<>> \in Seq(Unasked)
      OBVIOUS
    <3> QED
      BY <3>1 DEF Unheard, Sends, Unanswered
  <2>4. c.v4.phase = b.v4.phase /\ c.sent = b.sent
    BY DEF Sends, Unanswered, Kept
  <2> QED
    BY <2>1, <2>2, <2>3, <2>4 DEF Fit, Sure
<1>3. Taken(c)
  BY DEF Fit, Taken, Sends, Unanswered, Kept
<1> QED
  BY <1>1, <1>2, <1>3 DEF Fit

LEMMA AcknowledgedSends == ASSUME NEW b \in BaseType, b.mode = "transfer" PROVE Sends(b, Acknowledged(b))
<1> DEFINE sent == Sending(b, [kind |-> "ack"])
<1>1. sent \in BaseType /\ sent.tx.kind = "ack" /\ sent.rx = <<>>
  BY PlainTypes, SendingType DEF Sending, BaseType
<1> HIDE DEF sent
<1>2. LET c == [sent EXCEPT !.v4.ackPending = FALSE] IN c.tx.kind = "ack" /\ c.rx = <<>>
  BY <1>1 DEF BaseType
<1>3. LET c == [b EXCEPT !.v4.ackPending = TRUE] IN c.tx = b.tx /\ c.rx = b.rx
  BY DEF BaseType
<1>4. Acknowledged(b) = IF b.tx.kind = "none" THEN [sent EXCEPT !.v4.ackPending = FALSE]
                        ELSE [b EXCEPT !.v4.ackPending = TRUE]
  BY DEF Acknowledged, Free, sent
<1> QED
  BY <1>2, <1>3, <1>4, AcknowledgedKeeps DEF Sends

LEMMA AppliedFits ==
  ASSUME NEW b \in BaseType, NEW item, Fit(b), Asked(b) => told[b.v4.phase] = b.sent, ~Applied(b, item).forgot
  PROVE  Fit(Applied(b, item))
<1> DEFINE c == Applied(b, item)
<1>1. /\ Kept(b, c) /\ c.tx = b.tx /\ c.rx = b.rx /\ ~c.forgot
      /\ c = b \/ (b.tx.kind = "tune" => c.forgot)
  BY AppliedKeeps
<1> HIDE DEF c
<1>2. CASE b.tx.kind = "tune"
  <2>1. c = b
    BY <1>1, <1>2
  <2> QED
    BY <2>1 DEF c
<1>3. CASE b.tx.kind # "tune"
  <2>1. Out(c) /\ Taken(c)
    BY <1>1, <1>3 DEF Fit, Out, Taken, Kept
  <2>2. Asked(c) => Asked(b)
    BY <1>1 DEF Asked, Kept
  <2>3. Sure(c)
    BY <1>1, <2>2 DEF Fit, Sure, Kept
  <2> QED
    BY <2>1, <2>3 DEF Fit, c
<1> QED
  BY <1>2, <1>3

LEMMA ReceivedFits ==
  ASSUME NEW b \in BaseType, b.mode = "transfer", NEW item \in {"ack"} \cup Answers, Fit(b),
         item \in Answers /\ Asked(b) => told[b.v4.phase] = b.sent, ~Received4(b, item).forgot
  PROVE  Fit(Received4(b, item)) /\ (Received4(b, item).rx = b.rx \/ Received4(b, item).rx = <<>>)
<1> DEFINE fresh == [b EXCEPT !.v4.errors = 0]
           acked == [fresh EXCEPT !.v4.outbound = FALSE, !.v4.remote = 0]
           told4 == Acknowledged(fresh)
<1>1. fresh \in BaseType
  <2>1. 0 \in ErrorCount
    BY PedalAssumption DEF ErrorCount
  <2> QED
    BY <2>1, CountTypes
<1>2. Sends(b, fresh)
  BY FieldTypes DEF BaseType, V4Type, Sends, Unanswered, Kept
<1> HIDE DEF fresh
<1>3. fresh.v4 \in V4Type /\ Fit(fresh) /\ fresh.mode = "transfer"
  BY <1>1, <1>2, FieldTypes, SendsFits DEF Sends, Unanswered, Kept
<1>4. Sends(fresh, acked)
  BY <1>1, <1>3 DEF BaseType, V4Type, Sends, Unanswered, Kept
<1>5. CASE item = "ack"
  <2>1. Received4(b, item) = acked
    BY <1>5 DEF Received4, fresh, Answers
  <2>2. Fit(acked)
    BY <1>3, <1>4, SendsFits
  <2> QED
    BY <1>2, <1>4, <2>1, <2>2 DEF Sends
<1>6. CASE item \in Answers
  <2>1. told4 \in BaseType /\ Sends(fresh, told4) /\ Fit(told4)
    BY <1>1, <1>3, AcknowledgedType, AcknowledgedSends, SendsFits
  <2>2. Asked(told4) => told[told4.v4.phase] = told4.sent
    BY <1>2, <1>6, <2>1 DEF Asked, Sends, Unanswered, Kept
  <2>3. Received4(b, item) = Fed(Applied(told4, item))
    BY <1>6 DEF Received4, fresh, Answers
  <2> HIDE DEF told4
  <2> DEFINE c == Applied(told4, item)
  <2>4. c \in BaseType /\ c.rx = told4.rx
    BY <2>1, AppliedType, AppliedKeeps
  <2>5. Sends(c, Fed(c))
    BY <2>4, FedKeeps DEF Sends
  <2>6. Fit(c)
    <3>1. ~c.forgot
      BY <2>3, <2>5 DEF Sends, Unanswered
    <3> QED
      BY <2>1, <2>2, <3>1, AppliedFits
  <2>7. Fit(Fed(c)) /\ Fed(c).rx = c.rx
    BY <2>4, <2>5, <2>6, FedKeeps, SendsFits
  <2> HIDE DEF c
  <2>8. c.rx = b.rx \/ c.rx = <<>>
    BY <1>2, <2>1, <2>4 DEF Sends
  <2> QED
    BY <2>3, <2>7, <2>8 DEF c
<1> QED
  BY <1>5, <1>6

\* Taking the first thing that has arrived.
LEMMA GotFits ==
  ASSUME NEW b, Sound(b), b.mode = "transfer", ~b.forgot => Fit(b) /\ b.rx \in Seq(Whole), ~Got(b).forgot
  PROVE  Fit(Got(b)) /\ Got(b).rx \in Seq(Whole)
<1>1. CASE b.rx = <<>>
  BY <1>1 DEF Got
<1>2. CASE b.rx # <<>>
  <2> DEFINE t == [b EXCEPT !.rx = Tail(b.rx)]
             item == Head(b.rx)
  <2>1. b \in BaseType /\ t \in BaseType /\ item \in Items \ Bytes
    BY <1>2, TakenType DEF Sound
  <2>2. /\ t.tx = b.tx /\ t.rx = Tail(b.rx) /\ t.mode = b.mode /\ t.phase = b.phase /\ t.v4 = b.v4
        /\ t.pending = b.pending /\ t.tuning = b.tuning /\ t.sent = b.sent /\ t.forgot = b.forgot
    BY <2>1 DEF BaseType
  <2>3. b.rx \in Seq(Unasked) => item \notin Answers /\ Tail(b.rx) \in Seq(Unasked)
    BY <1>2 DEF Unasked
  <2>4. Got(b) = Received4(t, item)
    BY <1>2 DEF Got
  <2>5. Tail(b.rx) \in Seq(Whole) /\ item \in Whole
    <3>1. b.rx \in Seq(Whole)
      BY <2>1, <2>2, <2>4, ReceivedKeeps
    <3> QED
      BY <1>2, <3>1
  <2> HIDE DEF t, item
  <2>6. ~t.forgot /\ Fit(b)
    BY <2>1, <2>2, <2>4, ReceivedKeeps
  <2>7. Out(t) /\ Taken(t) /\ (Asked(t) => Asked(b))
    BY <2>2, <2>6 DEF Fit, Out, Taken, Asked
  <2>8. Unheard(b) => Unheard(t) /\ item \notin Answers
    BY <2>2, <2>3 DEF Unheard
  <2>9. Sure(t) /\ (item \in Answers /\ Asked(t) => told[t.v4.phase] = t.sent)
    BY <2>2, <2>6, <2>7, <2>8 DEF Fit, Sure
  <2>10. item \in {"ack"} \cup Answers
    BY <2>1, <2>5 DEF Items, Whole, Spoiled
  <2>11. Fit(Received4(t, item)) /\ (Received4(t, item).rx = t.rx \/ Received4(t, item).rx = <<>>)
    <3>1. Fit(t) /\ t.mode = "transfer" /\ ~Received4(t, item).forgot
      BY <2>2, <2>4, <2>7, <2>9 DEF Fit
    <3> QED
      BY <2>1, <2>9, <2>10, <3>1, ReceivedFits
  <2>12. <<>> \in Seq(Whole)
    OBVIOUS
  <2> QED
    BY <2>2, <2>5, <2>4, <2>11, <2>12
<1> QED
  BY <1>1, <1>2

LEMMA GotKeeps == ASSUME NEW b, Sound(b) PROVE Kept(b, Got(b)) /\ (b.forgot => Got(b).forgot)
<1>1. CASE b.rx = <<>>
  BY <1>1 DEF Got, Kept
<1>2. CASE b.rx # <<>>
  <2> DEFINE t == [b EXCEPT !.rx = Tail(b.rx)]
  <2>1. b \in BaseType /\ t \in BaseType /\ Head(b.rx) \in Items \ Bytes
    BY <1>2, TakenType DEF Sound
  <2>2. Kept(b, t) /\ t.forgot = b.forgot
    BY <2>1 DEF Kept, BaseType
  <2>3. Got(b) = Received4(t, Head(b.rx))
    BY <1>2 DEF Got
  <2> HIDE DEF t
  <2> QED
    BY <2>1, <2>2, <2>3, ReceivedKeeps DEF Kept
<1> QED
  BY <1>1, <1>2

\* A session without a request, and without a setting that is being sent.
LEMMA IdleFits == ASSUME NEW b, b.tx.kind # "tune", ~b.v4.request, Taken(b) PROVE Fit(b)
  BY DEF Fit, Out, Sure, Asked

LEMMA AdjustmentFits ==
  ASSUME NEW b \in BaseType, Fit(b), b.tx.kind # "tune"
  PROVE  LET c == BeginAdjustmentWait(b)
             d == FinishAdjustment(b)
         IN  Fit(c) /\ Fit(d) /\ c.rx = b.rx /\ d.rx = b.rx
<1> DEFINE c == BeginAdjustmentWait(b)
           d == FinishAdjustment(b)
<1>1. /\ c.pending = b.pending /\ c.tuning = b.tuning /\ c.tx = b.tx /\ c.rx = b.rx
      /\ d.pending = b.pending /\ d.tuning = b.tuning /\ d.tx = b.tx /\ d.rx = b.rx
  BY DEF BeginAdjustmentWait, FinishAdjustment, BaseType
<1>2. ~c.v4.request /\ ~d.v4.request
  BY AdjustmentEndsRequest
<1> HIDE DEF c, d
<1>3. Taken(c) /\ Taken(d)
  BY <1>1 DEF Fit, Taken
<1>4. Fit(c) /\ Fit(d)
  BY <1>1, <1>2, <1>3, IdleFits
<1> QED
  BY <1>1, <1>4 DEF c, d

\* An answer settles its setting when the pedals have taken the value that is still the one to send.
LEMMA CompletedFits ==
  ASSUME NEW b, Sound(b), b.phase = "V4_STREAM", Fit(b), b.v4.response
  PROVE  Fit(Completed4(b)) /\ Completed4(b).rx = b.rx
<1>1. b \in BaseType /\ LinkedIn(b) /\ b.v4.phase \in Completable /\ b.tx.kind # "tune"
  BY DEF Sound, LinkedIn, Completable, RequestPhases, Fit, Out
<1>2. CASE b.v4.phase \in {"ADJUSTMENT_START", "ADJUSTMENT_WAIT"}
  BY <1>1, <1>2, AdjustmentFits DEF Completed4
<1>3. CASE b.v4.phase \in Settings \cup {"STATUS"}
  <2> DEFINE c == Completed4(b)
  <2>1. c.pending = Settled(b) /\ c.tuning = b.tuning /\ c.tx = b.tx /\ c.rx = b.rx
    BY <1>1, <1>3 DEF Completed4, BaseType, Settings
  <2>2. ~c.v4.request
    BY <1>1, CompletedEnds
  <2> HIDE DEF c
  <2>3. Taken(c)
    <3>1. b.v4.phase \in Settings => told[b.v4.phase] = b.sent
      BY <1>1, <1>3 DEF Fit, Sure, Asked, Unheard, LinkedIn, Settings
    <3> QED
      BY <2>1, <3>1 DEF Fit, Taken, Settled
  <2>4. Fit(c)
    BY <1>1, <2>1, <2>2, <2>3, IdleFits
  <2> QED
    BY <2>1, <2>4 DEF c
<1> QED
  BY <1>1, <1>2, <1>3 DEF Completable

LEMMA NextFits ==
  ASSUME NEW b, Sound(b), b.phase = "V4_STREAM", b.mode = "transfer", Fit(b), ~b.v4.request, ~b.v4.response,
         b.v4.phase # "ADJUSTMENT_WAIT"
  PROVE  Fit(Next4(b)) /\ (Next4(b).rx = b.rx \/ Next4(b).rx = <<>>)
<1>1. b \in BaseType /\ b.v4 \in V4Type /\ b.v4.phase \in V4Phases /\ b.tx.kind # "tune" /\ Taken(b)
  BY FieldTypes DEF Sound, V4Type, Fit, Out
<1>2. ASSUME NEW p \in V4Phases
      PROVE  Fit([b EXCEPT !.v4.phase = p]) /\ [b EXCEPT !.v4.phase = p].rx = b.rx
  <2> DEFINE c == [b EXCEPT !.v4.phase = p]
  <2>1. /\ c.tx = b.tx /\ c.pending = b.pending /\ c.tuning = b.tuning /\ c.rx = b.rx /\ ~c.v4.request
    BY <1>1 DEF BaseType, V4Type
  <2> HIDE DEF c
  <2>2. Taken(c)
    BY <1>1, <2>1 DEF Taken
  <2>3. Fit(c)
    BY <1>1, <2>1, <2>2, IdleFits
  <2> QED
    BY <2>1, <2>3 DEF c
<1>3. CASE b.v4.phase \in {"SELECT", "HOST_TRANSFER"}
  <2>1. SelectedPhase(b) \in V4Phases /\ "STATUS" \in V4Phases
    BY SelectedType DEF V4Phases
  <2>2. Next4(b) \in {[b EXCEPT !.v4.phase = SelectedPhase(b)], [b EXCEPT !.v4.phase = "STATUS"]}
    BY <1>3 DEF Next4, Settings
  <2> QED
    BY <1>2, <2>1, <2>2
<1>4. CASE b.v4.phase \in Settings
  <2> DEFINE p == b.v4.phase
             value == b.tuning[p]
             message == [kind |-> "tune", setting |-> p, value |-> value]
             r == Requested(b, message)
             c == [r EXCEPT !.sent = value]
  <2>1. NextV4Phase(b) \in V4Phases
    BY <1>4, NextPhaseType
  <2>2. value \in Value /\ message \in Message
    <3>1. value \in Value
      BY <1>1, <1>4, FieldTypes DEF Tuning
    <3> QED
      BY <1>4, <3>1, MessageTypes
  <2>3. /\ Next4(b) \in {b, [b EXCEPT !.v4.phase = NextV4Phase(b)]} \/ (Next4(b) = c /\ p \in b.pending)
    BY <1>4 DEF Next4, Settings
  <2>4. message.kind = "tune" /\ message.setting = p /\ message.value = value
    OBVIOUS
  <2> HIDE DEF message, value
  <2>5. /\ r \in BaseType /\ r.phase = b.phase /\ r.pending = b.pending /\ r.tuning = b.tuning
        /\ r.v4.phase = p /\ r.v4.request /\ ~r.v4.response /\ r.tx = message /\ r.rx = <<>>
    BY <1>1, <2>2, RequestedType, RequestedKeeps
  <2> HIDE DEF r
  <2>6. /\ c.phase = b.phase /\ c.pending = b.pending /\ c.tuning = b.tuning /\ c.sent = value
        /\ c.v4.phase = p /\ c.v4.request /\ ~c.v4.response /\ c.tx = message /\ c.rx = <<>>
    BY <2>5 DEF BaseType
  <2> HIDE DEF c
  <2>7. Taken(c)
    BY <1>1, <2>6 DEF Taken
  <2>8. p \in b.pending => Fit(c)
    BY <2>4, <2>6, <2>7 DEF Fit, Out, Sure, Asked
  <2> QED
    BY <1>2, <2>1, <2>3, <2>6, <2>8
<1>5. CASE b.v4.phase \in {"STATUS", "ADJUSTMENT_START"}
  <2> DEFINE r(k) == Requested(b, [kind |-> k])
  <2>1. Next4(b) \in {b, r("status"), r("probe")}
    BY <1>5 DEF Next4, Settings
  <2>2. ASSUME NEW k \in {"status", "probe"} PROVE Fit(r(k)) /\ r(k).rx = <<>>
    <3> DEFINE c == r(k)
    <3>1. /\ c.pending = b.pending /\ c.tuning = b.tuning /\ c.v4.phase = b.v4.phase
          /\ c.tx = [kind |-> k] /\ c.rx = <<>>
      BY <1>1, PlainTypes, RequestedKeeps
    <3>2. c.tx.kind # "tune" /\ c.v4.phase \notin Settings
      BY <1>5, <3>1 DEF Settings
    <3> HIDE DEF c
    <3>3. Taken(c)
      BY <1>1, <3>1 DEF Taken
    <3>4. Fit(c)
      BY <3>2, <3>3 DEF Fit, Out, Sure, Asked
    <3> QED
      BY <3>1, <3>4 DEF c
  <2> QED
    BY <2>1, <2>2
<1> QED
  BY <1>1, <1>3, <1>4, <1>5 DEF V4Phases

LEMMA ContinuedFits ==
  ASSUME NEW b, Sound(b), b.phase = "V4_STREAM", b.mode = "transfer", Fit(b), NEW beat \in BOOLEAN
  PROVE  LET c == Continued4(b, beat) IN Fit(c) /\ (c.rx = b.rx \/ c.rx = <<>>)
<1>1. b \in BaseType /\ LinkedIn(b)
  BY DEF Sound
<1>2. CASE b.v4.phase = "ADJUSTMENT_WAIT"
  <2> DEFINE kept == Beaten(b, beat)
             sent == Sending(b, [kind |-> "empty"])
  <2>1. /\ Unanswered(b, sent) /\ sent.tx.kind = "empty" /\ sent.rx = <<>>
    BY <1>1, SendingKeeps, PlainTypes DEF Sending, BaseType
  <2>2. Sends(b, b)
    BY DEF Sends, Unanswered, Kept
  <2> HIDE DEF sent
  <2>3. Sends(b, kept)
    BY <2>1, <2>2 DEF Beaten, sent, Free, Sends
  <2>4. Sound(kept) /\ kept.v4 = b.v4 /\ Fit(kept)
    BY <2>3, BeatenSound, SendsFits
  <2>5. kept \in BaseType /\ kept.phase = "V4_STREAM" /\ (kept.rx = b.rx \/ kept.rx = <<>>)
    BY <2>3, <2>4 DEF Sound, Sends, Unanswered, Kept
  <2>6. kept.tx.kind # "tune"
    <3>1. kept.v4.phase \notin Settings
      BY <1>2, <2>4 DEF Settings
    <3>2. kept.pending \subseteq Settings
      BY <2>5, FieldTypes
    <3>3. kept.tx.kind = "tune" => kept.tx.setting \in kept.pending /\ kept.v4.phase = kept.tx.setting
      BY <2>4, <2>5 DEF Fit, Out
    <3> QED
      BY <3>1, <3>2, <3>3
  <2> HIDE DEF kept
  <2>7. Fit(FinishAdjustment(kept)) /\ FinishAdjustment(kept).rx = kept.rx
    BY <2>4, <2>5, <2>6, AdjustmentFits
  <2>8. kept.v4.response => Fit(Completed4(kept)) /\ Completed4(kept).rx = kept.rx
    BY <2>4, <2>5, CompletedFits
  <2>9. Continued4(b, beat) = IF b.v4.response THEN Completed4(kept)
                              ELSE IF b.late THEN FinishAdjustment(kept) ELSE kept
    BY <1>2 DEF Continued4, kept
  <2> QED
    BY <2>4, <2>5, <2>7, <2>8, <2>9
<1>3. CASE b.v4.phase # "ADJUSTMENT_WAIT"
  <2>1. b.v4.response => Fit(Completed4(b)) /\ Completed4(b).rx = b.rx
    BY CompletedFits
  <2>2. b.v4.phase = "ADJUSTMENT_START" => Fit(BeginAdjustmentWait(b)) /\ BeginAdjustmentWait(b).rx = b.rx
    <3>1. b.tx.kind = "tune" => b.tx.setting \in Settings
      BY <1>1, FieldTypes DEF Fit, Out
    <3>2. b.v4.phase = "ADJUSTMENT_START" => b.tx.kind # "tune"
      BY <3>1 DEF Fit, Out, Settings
    <3> QED
      BY <1>1, <3>2, AdjustmentFits
  <2>3. ~b.v4.request /\ ~b.v4.response => Fit(Next4(b)) /\ (Next4(b).rx = b.rx \/ Next4(b).rx = <<>>)
    BY <1>3, NextFits
  <2>4. Continued4(b, beat) = IF b.v4.response THEN Completed4(b)
                              ELSE IF b.v4.phase = "ADJUSTMENT_START" /\ b.v4.request /\ b.late
                                   THEN BeginAdjustmentWait(b)
                              ELSE IF b.v4.request THEN b ELSE Next4(b)
    BY <1>3 DEF Continued4
  <2> QED
    BY <2>1, <2>2, <2>3, <2>4
<1> QED
  BY <1>2, <1>3

LEMMA StreamTuned == TuningInv /\ V4Stream => TuningInv'
<1> SUFFICES ASSUME TuningInv, V4Stream PROVE TuningInv'
  OBVIOUS
<1>1. Sound(base) /\ TypeInv'
  BY V4Type4 DEF TuningInv, TypeInv, TypeOK, V4Linked, Sound, LinkedIn
<1>2. base.phase = "V4_STREAM" /\ base.mode = "transfer"
  BY StreamStep DEF TuningInv, LineInv
<1>3. PICK beat \in BOOLEAN :
        Pass(IF SessionOver(Got(base)) THEN Over(Got(base)) ELSE Continued4(Got(base), beat))
  BY StreamStep
<1> DEFINE got == Got(base)
<1>4. Sound(got) /\ got.phase = "V4_STREAM" /\ got.mode = "transfer"
  BY <1>1, <1>2, GotSound, GotKeeps DEF Kept
<1>5. UNCHANGED <<env, pedal, told>>
  BY <1>3 DEF Pass
<1>6. env.clean /\ ~got.forgot => Fit(got) /\ got.rx \in Seq(Whole)
  BY <1>1, <1>2, GotFits, GotKeeps DEF TuningInv
<1>8. CASE SessionOver(got)
  <2> DEFINE c == Over(got)
  <2>1. /\ c.phase = "RECONNECT_HOLD_START" /\ c.tx = got.tx /\ c.pending = got.pending
        /\ c.tuning = got.tuning /\ c.rx = got.rx /\ c.forgot = got.forgot
    BY <1>4, OverSound
  <2>2. base' = c
    BY <1>3, <1>8 DEF Pass
  <2> HIDE DEF c, got
  <2>3. LineInv'
    BY <1>5, <2>1, <2>2 DEF TuningInv, LineInv
  <2>4. ASSUME env.clean, ~got.forgot PROVE Fit(c) /\ c.rx \in Seq(Whole)
    BY <1>4, <1>6, <2>1, <2>4 DEF Fit, Out, Sure, Asked, Taken, Holds
  <2>5. Fit(c) => Fit(base)'
    BY <1>5, <2>2 DEF Fit, Out, Sure, Asked, Unheard, Taken
  <2> QED
    BY <1>1, <1>5, <2>1, <2>2, <2>3, <2>4, <2>5 DEF TuningInv
<1>9. CASE ~SessionOver(got)
  <2> DEFINE c == Continued4(got, beat)
  <2>1. base' = c
    BY <1>3, <1>9 DEF Pass
  <2>2. c.phase = "V4_STREAM" /\ c.mode = "transfer" /\ c.forgot = got.forgot
    BY <1>4, ContinuedStays DEF Stays
  <2> HIDE DEF got
  <2>3. env.clean /\ ~got.forgot => Fit(c) /\ c.rx \in Seq(Whole)
    <3>1. <<>> \in Seq(Whole)
      OBVIOUS
    <3> QED
      BY <1>4, <1>6, <3>1, ContinuedFits
  <2> HIDE DEF c
  <2>6. LineInv'
    BY <1>5, <2>1, <2>2 DEF TuningInv, LineInv
  <2>7. Fit(c) => Fit(base)'
    BY <1>5, <2>1 DEF Fit, Out, Sure, Asked, Unheard, Taken
  <2> QED
    BY <1>1, <1>5, <2>1, <2>2, <2>3, <2>6, <2>7 DEF TuningInv
<1> QED
  BY <1>8, <1>9

LEMMA AnswerKinds ==
  ASSUME NEW message
  PROVE  /\ Answer(message) \in Seq(Whole)
         /\ pedal.kind # "V4" => Answer(message) \in Seq(Unasked) /\ (~pedal.probing => ~Probes(message))
         /\ message.kind \notin {"status", "probe", "tune"} =>
              Answer(message) \in Seq(Unasked) /\ (~pedal.probing => ~Probes(message))
<1>1. {"v3", "v4", "protocol3", "protocol4", "other", "channel"} \subseteq Whole \cap Unasked
  BY DEF Items, Bytes, Answers, Whole, Unasked, Spoiled
<1>2. {"ack", "status", "tuned", "started"} \subseteq Whole
  BY DEF Items, Bytes, Answers, Whole, Spoiled
<1> DEFINE Single == {<<"v3">>, <<"v4">>, <<"protocol3">>, <<"protocol4">>, <<"other">>, <<"channel">>}
           Paired == {<<"ack", "status">>, <<"ack", "tuned">>, <<"ack", "started">>}
<1>3. ASSUME NEW set, NEW item \in set PROVE <<item>> \in Seq(set)
  OBVIOUS
<1>4. ASSUME NEW set, NEW a \in set, NEW b \in set PROVE <<a, b>> \in Seq(set)
  OBVIOUS
<1>5. <<>> \in Seq(Whole) /\ <<>> \in Seq(Unasked)
  OBVIOUS
<1>6. \A s \in Single : s \in Seq(Whole) /\ s \in Seq(Unasked)
  <2>1. /\ <<"v3">> \in Seq(Whole) /\ <<"v4">> \in Seq(Whole) /\ <<"other">> \in Seq(Whole)
        /\ <<"protocol3">> \in Seq(Whole) /\ <<"protocol4">> \in Seq(Whole) /\ <<"channel">> \in Seq(Whole)
    BY <1>1, <1>3
  <2>2. /\ <<"v3">> \in Seq(Unasked) /\ <<"v4">> \in Seq(Unasked) /\ <<"other">> \in Seq(Unasked)
        /\ <<"protocol3">> \in Seq(Unasked) /\ <<"protocol4">> \in Seq(Unasked) /\ <<"channel">> \in Seq(Unasked)
    BY <1>1, <1>3
  <2> QED
    BY <2>1, <2>2, Zenon
<1>7. \A s \in Paired : s \in Seq(Whole)
  <2>1. <<"ack", "status">> \in Seq(Whole) /\ <<"ack", "tuned">> \in Seq(Whole) /\ <<"ack", "started">> \in Seq(Whole)
    BY <1>2, <1>4
  <2> QED
    BY <2>1, Zenon
<1>8. Answer(message) \in {<<>>} \cup Single \cup Paired
  BY DEF Answer
<1>9. pedal.kind # "V4" \/ message.kind \notin {"status", "probe", "tune"} => Answer(message) \in {<<>>} \cup Single
  BY DEF Answer
<1>10. pedal.kind # "V4" \/ message.kind \notin {"status", "probe", "tune"} => (~pedal.probing => ~Probes(message))
  BY DEF Probes
<1> HIDE DEF Single, Paired
<1>11. Answer(message) \in Seq(Whole)
  BY <1>5, <1>6, <1>7, <1>8
<1>12. pedal.kind # "V4" \/ message.kind \notin {"status", "probe", "tune"} => Answer(message) \in Seq(Unasked)
  BY <1>5, <1>6, <1>9
<1> QED
  BY <1>10, <1>11, <1>12

LEMMA SentLeaves ==
  ASSUME NEW b \in BaseType
  PROVE  LET c == Sent(b)
         IN  /\ c.pending = b.pending /\ c.tuning = b.tuning /\ c.forgot = b.forgot /\ c.phase = b.phase
             /\ c.mode = b.mode /\ c.sent = b.sent /\ c.v4 = b.v4 /\ c.tx.kind = "none"
             /\ c.rx = IF b.mode = "transfer" THEN <<>> ELSE b.rx
  BY DEF Sent, Nothing, BaseType

LEMMA EndsTuned == TuningInv /\ TransmissionEnds => TuningInv'
<1> SUFFICES ASSUME TuningInv, TransmissionEnds PROVE TuningInv'
  OBVIOUS
<1>1. TypeInv' /\ base \in BaseType /\ pedal.air \in Seq(Items) /\ pedal \in PedalType /\ told \in Tuning
  BY TransmissionType, PedalTypes DEF TuningInv
<1> DEFINE c == Sent(base)
<1>2. /\ c.pending = base.pending /\ c.tuning = base.tuning /\ c.forgot = base.forgot /\ c.phase = base.phase
      /\ c.mode = base.mode /\ c.sent = base.sent /\ c.v4 = base.v4 /\ c.tx.kind = "none"
      /\ c.rx = IF base.mode = "transfer" THEN <<>> ELSE base.rx
  BY <1>1, SentLeaves
<1>3. base' = c /\ env' = env
  BY DEF TransmissionEnds
<1> HIDE DEF c
<1>4. <<>> \in Seq(Whole) /\ <<>> \in Seq(Unasked)
  OBVIOUS
<1>5. CASE base.tx.kind = "cut"
  <2>1. UNCHANGED <<pedal, told>>
    BY <1>5 DEF TransmissionEnds
  <2>2. LineInv'
    BY <1>2, <1>3, <2>1 DEF TuningInv, LineInv
  <2>3. ASSUME env'.clean, ~base'.forgot PROVE Fit(base)' /\ base'.rx \in Seq(Whole)
    <3>1. Out(base) /\ Sure(base) /\ Taken(base) /\ base.rx \in Seq(Whole)
      BY <1>2, <1>3, <2>3 DEF TuningInv, Fit
    <3>2. Out(base)' /\ Taken(base)' /\ base'.rx \in Seq(Whole)
      BY <1>2, <1>3, <1>4, <2>1, <3>1 DEF Out, Taken
    <3>3. Unheard(base) => Unheard(base)'
      BY <1>2, <1>3, <1>4, <2>1 DEF Unheard
    <3>4. Sure(base)'
      BY <1>2, <1>3, <1>5, <2>1, <3>1, <3>3 DEF Sure, Asked
    <3> QED
      BY <3>2, <3>4 DEF Fit
  <2> QED
    BY <1>1, <2>2, <2>3 DEF TuningInv
<1>6. CASE base.tx.kind # "cut"
  <2> DEFINE answer == Answer(base.tx)
  <2>1. /\ pedal' = [pedal EXCEPT !.air = pedal.air \o answer, !.streaming = Streams(base.tx),
                                  !.probing = Probes(base.tx), !.garbled = FALSE]
        /\ told' = IF base.tx.kind = "tune" /\ pedal.kind = "V4"
                   THEN [told EXCEPT ![base.tx.setting] = base.tx.value] ELSE told
    BY <1>6 DEF TransmissionEnds
  <2>2. /\ answer \in Seq(Whole)
        /\ pedal.kind # "V4" => answer \in Seq(Unasked) /\ (~pedal.probing => ~Probes(base.tx))
        /\ base.tx.kind \notin {"status", "probe", "tune"} =>
             answer \in Seq(Unasked) /\ (~pedal.probing => ~Probes(base.tx))
    BY AnswerKinds
  <2> HIDE DEF answer
  <2>3. /\ pedal'.kind = pedal.kind /\ pedal'.air = pedal.air \o answer /\ pedal'.probing = Probes(base.tx)
        /\ pedal'.garbled = FALSE
    BY <1>1, <2>1 DEF PedalType
  <2>4. /\ pedal.air \in Seq(Whole) => pedal'.air \in Seq(Whole)
        /\ pedal.air \in Seq(Unasked) /\ answer \in Seq(Unasked) => pedal'.air \in Seq(Unasked)
    BY <2>2, <2>3
  <2>5. LineInv'
    BY <1>2, <1>3, <2>2, <2>3, <2>4 DEF TuningInv, LineInv
  <2>6. ASSUME env'.clean, ~base'.forgot PROVE Fit(base)' /\ base'.rx \in Seq(Whole)
    <3>1. Out(base) /\ Sure(base) /\ Taken(base) /\ base.rx \in Seq(Whole)
      BY <1>2, <1>3, <2>6 DEF TuningInv, Fit
    <3>2. Out(base)' /\ base'.rx \in Seq(Whole)
      BY <1>2, <1>3, <1>4, <3>1 DEF Out
    <3>3. Taken(base)'
      <4>1. \A s \in Settings \ base.pending : told'[s] = told[s]
        BY <1>1, <2>1, <3>1 DEF Out, Tuning
      <4> QED
        BY <1>2, <1>3, <3>1, <4>1 DEF Taken
    <3>4. Sure(base)'
      <4> SUFFICES ASSUME Asked(base)' PROVE told'[base.v4.phase] = base.sent \/ Unheard(base)'
        BY <1>2, <1>3 DEF Sure
      <4>1. /\ base.phase = "V4_STREAM" /\ base.v4.request /\ base.v4.phase \in Settings
            /\ base.mode = "transfer" /\ base'.rx \in Seq(Unasked)
        BY <1>2, <1>3, <1>4 DEF Asked, TuningInv, LineInv
      <4>2. CASE base.tx.kind = "tune"
        <5>1. base.v4.phase = base.tx.setting /\ base.tx.value = base.sent /\ ~base.v4.response
          BY <3>1, <4>1, <4>2 DEF Out
        <5>2. CASE pedal.kind = "V4"
          <6>1. told'[base.v4.phase] = base.sent
            BY <1>1, <2>1, <4>1, <4>2, <5>1, <5>2 DEF Tuning
          <6> QED
            BY <6>1
        <5>3. CASE pedal.kind # "V4"
          <6>1. pedal'.air \in Seq(Unasked) /\ ~pedal'.probing
            BY <2>2, <2>3, <2>4, <5>3 DEF TuningInv, LineInv
          <6> QED
            BY <1>2, <1>3, <4>1, <5>1, <6>1 DEF Unheard
        <5> QED
          BY <5>2, <5>3
      <4>3. CASE base.tx.kind # "tune"
        <5>1. base.tx.kind \notin {"status", "probe"} /\ (told[base.v4.phase] = base.sent \/ Unheard(base))
          BY <3>1, <4>1, <4>3 DEF Sure, Asked
        <5>2. told' = told
          BY <2>1, <4>3
        <5>3. Unheard(base) => Unheard(base)'
          BY <1>2, <1>3, <2>2, <2>3, <2>4, <4>1, <4>3, <5>1 DEF Unheard
        <5> QED
          BY <5>1, <5>2, <5>3
      <4> QED
        BY <4>2, <4>3
    <3> QED
      BY <3>2, <3>3, <3>4 DEF Fit
  <2> QED
    BY <1>1, <2>5, <2>6 DEF TuningInv
<1> QED
  BY <1>5, <1>6

\* A step of the pedals alone.
LEMMA PedalStep ==
  ASSUME TuningInv, TypeInv', LineInv', UNCHANGED <<base, told>>, env'.clean => env.clean,
         Unheard(base) => ~pedal'.probing /\ pedal'.air \in Seq(Unasked)
  PROVE  TuningInv'
<1>1. ASSUME env'.clean, ~base'.forgot PROVE Fit(base)' /\ base'.rx \in Seq(Whole)
  <2>1. Out(base) /\ Sure(base) /\ Taken(base) /\ base.rx \in Seq(Whole)
    BY <1>1 DEF TuningInv, Fit
  <2>2. Out(base)' /\ Taken(base)'
    BY <2>1 DEF Out, Taken
  <2>3. Unheard(base) => Unheard(base)'
    BY DEF Unheard
  <2>4. Sure(base)'
    BY <2>1, <2>3 DEF Sure, Asked
  <2> QED
    BY <2>1, <2>2, <2>4 DEF Fit
<1> QED
  BY <1>1 DEF TuningInv

LEMMA GarbledTuned == TuningInv /\ (TransmissionGarbled \/ ArriveGarbled) => TuningInv'
<1> SUFFICES ASSUME TuningInv, TransmissionGarbled \/ ArriveGarbled PROVE TuningInv'
  OBVIOUS
<1>1. TypeInv' /\ base \in BaseType /\ pedal \in PedalType /\ pedal.air \in Seq(Items)
  BY TransmissionType, AirType, PedalTypes DEF TuningInv
<1>2. ~env'.clean
  BY SpendType DEF TransmissionGarbled, ArriveGarbled, TuningInv
<1>3. base'.phase = "V4_STREAM" => base'.mode = "transfer"
  <2>1. \A item : Arrived(base, item).phase = base.phase /\ Arrived(base, item).mode = base.mode
    BY <1>1 DEF Arrived, BaseType
  <2>2. base'.phase = base.phase /\ base'.mode = base.mode
    BY <1>1, <2>1, SentLeaves DEF TransmissionGarbled, ArriveGarbled
  <2> QED
    BY <2>2 DEF TuningInv, LineInv
<1>4. pedal'.kind # "V4" => ~pedal'.probing /\ pedal'.air \in Seq(Unasked)
  <2>1. CASE TransmissionGarbled
    BY <1>1, <2>1 DEF TransmissionGarbled, TuningInv, LineInv, PedalType
  <2>2. CASE ArriveGarbled
    <3>1. pedal.air # <<>> /\ pedal' = [pedal EXCEPT !.air = Tail(pedal.air)]
      BY <2>2 DEF ArriveGarbled
    <3>2. pedal'.kind = pedal.kind /\ pedal'.probing = pedal.probing /\ pedal'.air = Tail(pedal.air)
      BY <1>1, <3>1 DEF PedalType
    <3> QED
      BY <3>1, <3>2 DEF TuningInv, LineInv
  <2> QED
    BY <2>1, <2>2
<1> QED
  BY <1>1, <1>2, <1>3, <1>4 DEF TuningInv, LineInv

LEMMA ArriveTuned == TuningInv /\ Arrive => TuningInv'
<1> SUFFICES ASSUME TuningInv, Arrive PROVE TuningInv'
  OBVIOUS
<1>1. TypeInv' /\ base \in BaseType /\ pedal \in PedalType /\ pedal.air \in Seq(Items)
  BY AirType, PedalTypes DEF TuningInv
<1> DEFINE item == Head(pedal.air)
           c    == Arrived(base, item)
<1>2. /\ base' = c /\ pedal' = [pedal EXCEPT !.air = Tail(pedal.air)] /\ pedal.air # <<>>
      /\ UNCHANGED <<env, told>>
  BY DEF Arrive
<1>3. pedal'.kind = pedal.kind /\ pedal'.probing = pedal.probing /\ pedal'.air = Tail(pedal.air)
      /\ pedal'.garbled = pedal.garbled
  BY <1>1, <1>2 DEF PedalType
<1>4. /\ pedal.air \in Seq(Whole) => item \in Whole /\ pedal'.air \in Seq(Whole)
      /\ pedal.air \in Seq(Unasked) => item \in Unasked /\ pedal'.air \in Seq(Unasked)
  BY <1>2, <1>3
<1> HIDE DEF item
<1>5. /\ c.pending = base.pending /\ c.tuning = base.tuning /\ c.forgot = base.forgot /\ c.phase = base.phase
      /\ c.mode = base.mode /\ c.sent = base.sent /\ c.v4 = base.v4 /\ c.tx = base.tx
      /\ c.rx = base.rx \/ c.rx = Append(base.rx, item)
  BY <1>1 DEF Arrived, BaseType
<1> HIDE DEF c
<1>6. LineInv'
  BY <1>2, <1>3, <1>4, <1>5 DEF TuningInv, LineInv
<1>7. ASSUME NEW set, base.rx \in Seq(set), item \in set PROVE base'.rx \in Seq(set)
  <2>1. Append(base.rx, item) \in Seq(set)
    BY <1>7
  <2> QED
    BY <1>2, <1>5, <1>7, <2>1
<1>8. ASSUME env'.clean, ~base'.forgot PROVE Fit(base)' /\ base'.rx \in Seq(Whole)
  <2>1. Out(base) /\ Sure(base) /\ Taken(base) /\ base.rx \in Seq(Whole) /\ item \in Whole
    BY <1>2, <1>4, <1>5, <1>8 DEF TuningInv, LineInv, Fit
  <2>2. Out(base)' /\ Taken(base)'
    BY <1>2, <1>5, <2>1 DEF Out, Taken
  <2>3. Unheard(base) => Unheard(base)'
    <3>1. Unheard(base) => base'.rx \in Seq(Unasked)
      BY <1>4, <1>7 DEF Unheard
    <3> QED
      BY <1>2, <1>3, <1>4, <1>5, <3>1 DEF Unheard
  <2>4. Sure(base)'
    BY <1>2, <1>5, <2>1, <2>3 DEF Sure, Asked
  <2>5. base'.rx \in Seq(Whole)
    BY <1>7, <2>1
  <2> QED
    BY <2>2, <2>4, <2>5 DEF Fit
<1> QED
  BY <1>1, <1>6, <1>8 DEF TuningInv

LEMMA LineTuned == TuningInv /\ Line => TuningInv'
<1> SUFFICES ASSUME TuningInv, Line PROVE TuningInv'
  OBVIOUS
<1>1. base \in BaseType /\ pedal \in PedalType /\ pedal.air \in Seq(Items)
  BY PedalTypes DEF TuningInv
<1>2. CASE TransmissionEnds \/ TransmissionGarbled \/ Arrive \/ ArriveGarbled
  BY <1>2, EndsTuned, GarbledTuned, ArriveTuned
<1>3. CASE Complain
  <2>1. "error" \in Unasked
    BY DEF Unasked, Items, Answers
  <2>2. pedal.garbled /\ pedal' = [pedal EXCEPT !.air = <<"error">>] /\ UNCHANGED <<env, base, told>>
    BY <1>3 DEF Complain
  <2>3. pedal'.kind = pedal.kind /\ pedal'.probing = pedal.probing /\ pedal'.air = <<"error">>
    BY <1>1, <2>2 DEF PedalType
  <2>4. LineInv'
    BY <2>1, <2>2, <2>3 DEF TuningInv, LineInv
  <2>5. TypeInv'
    BY <1>3, AirType DEF TuningInv
  <2>6. Unheard(base) => ~pedal'.probing /\ pedal'.air \in Seq(Unasked)
    BY <2>1, <2>3 DEF Unheard
  <2> QED
    BY <2>2, <2>4, <2>5, <2>6, PedalStep
<1>4. CASE AdjustmentEnds
  <2>1. "final" \in Whole
    BY DEF Whole, Spoiled, Items, Answers
  <2>2. /\ pedal.probing /\ pedal' = [pedal EXCEPT !.probing = FALSE, !.air = Append(pedal.air, "final")]
        /\ UNCHANGED <<env, base, told>>
    BY <1>4 DEF AdjustmentEnds
  <2>3. /\ pedal'.kind = pedal.kind /\ ~pedal'.probing /\ pedal'.air = Append(pedal.air, "final")
        /\ pedal'.garbled = pedal.garbled
    BY <1>1, <2>2 DEF PedalType
  <2>4. LineInv'
    BY <2>1, <2>2, <2>3 DEF TuningInv, LineInv
  <2>5. TypeInv'
    BY <1>4, AirType DEF TuningInv
  <2>6. ~Unheard(base)
    BY <2>2 DEF Unheard
  <2> QED
    BY <2>2, <2>4, <2>5, <2>6, PedalStep
<1>5. CASE Report
  <2>1. /\ base' \in {base, [base EXCEPT !.frame = TRUE], [base EXCEPT !.byte = "noise"]}
        /\ UNCHANGED <<env, pedal, told>>
    BY <1>5 DEF Report
  <2>2. Alike(base, base')
    BY <1>1, <2>1 DEF Alike, BaseType
  <2>3. TypeInv'
    BY <1>5, PlugType DEF TuningInv
  <2> QED
    BY <2>1, <2>2, <2>3, AlikeStep
<1>6. CASE Plug
  <2>1. PICK k \in Pedals \cup {"none"} : pedal' = [Unplugged EXCEPT !.kind = k]
    BY <1>6 DEF Plug
  <2>2. ~pedal'.probing /\ ~pedal'.garbled /\ pedal'.air = <<>>
    BY <2>1 DEF Unplugged
  <2>3. <<>> \in Seq(Whole) /\ <<>> \in Seq(Unasked)
    OBVIOUS
  <2>4. UNCHANGED <<base, told>> /\ (env'.clean => env.clean)
    BY <1>6, SpendType DEF Plug, TuningInv
  <2>5. LineInv'
    BY <2>2, <2>3, <2>4 DEF TuningInv, LineInv
  <2>6. TypeInv'
    BY <1>6, PlugType DEF TuningInv
  <2> QED
    BY <2>2, <2>3, <2>4, <2>5, <2>6, PedalStep
<1> QED
  BY <1>2, <1>3, <1>4, <1>5, <1>6 DEF Line

LEMMA RestartedForgets ==
  ASSUME NEW b \in BaseType
  PROVE  LET c == Restarted(b)
         IN  /\ c.phase = "DETECT_REQUEST" /\ c.tx.kind # "tune" /\ c.tuning = b.tuning /\ c.pending = {}
             /\ c.rx = b.rx \/ c.rx = <<>>
             /\ c.forgot = (b.forgot \/ b.pending # {} \/ b.tx.kind = "tune")
<1> DEFINE reset == ResetState(Released(Listening(b, "byte")))
<1>1. Listening(b, "byte") \in BaseType /\ Leaves(b, Listening(b, "byte")) /\ Listening(b, "byte").tx.kind # "tune"
  BY ListeningType, LinkLeaves DEF Modes
<1> DEFINE listening == Listening(b, "byte")
<1> HIDE DEF listening
<1>2. Released(listening) \in BaseType /\ Leaves(b, Released(listening)) /\ Released(listening).tx.kind # "tune"
  BY <1>1, ReleasedType, LinkLeaves, LeavesOn DEF Modes, listening
<1>3. reset \in BaseType /\ Leaves(b, reset) /\ reset.tx.kind # "tune"
  BY <1>2, ResetType, LinkLeaves, LeavesOn DEF Modes, listening
<1> HIDE DEF reset
<1> DEFINE forgot == reset.forgot \/ b.pending /= {} \/ b.tx.kind = "tune"
           begun == [reset EXCEPT !.channel = b.channel, !.retries = b.retries, !.phase = "DETECT_REQUEST", !.late = FALSE, !.press = FALSE]
           c == [begun EXCEPT !.pending = {}, !.sent = 0, !.recovering = FALSE, !.forgot = forgot]
<1>4. Restarted(b) = c
  BY DEF Restarted, reset
<1>5. /\ begun.phase = "DETECT_REQUEST" /\ begun.tx = reset.tx /\ begun.tuning = reset.tuning /\ begun.rx = reset.rx
      /\ begun \in BaseType
  <2>1. b.channel \in Channel /\ b.retries \in Retries
    BY DEF BaseType
  <2> QED
    BY <1>3, <2>1 DEF BaseType, Phases
<1> HIDE DEF begun, forgot
<1>6. c.phase = begun.phase /\ c.tx = begun.tx /\ c.tuning = begun.tuning /\ c.pending = {} /\ c.rx = begun.rx
      /\ c.forgot = forgot
  BY <1>5 DEF BaseType
<1> HIDE DEF c
<1> QED
  BY <1>3, <1>4, <1>5, <1>6 DEF Leaves, forgot

LEMMA FirmwareTuned == TuningInv /\ Firmware => TuningInv'
<1> SUFFICES ASSUME TuningInv, Firmware PROVE TuningInv'
  OBVIOUS
<1>1. TypeInv' /\ base \in BaseType /\ env \in EnvType
  BY FirmwareType, PedalTypes DEF TuningInv
<1>2. CASE AnalogSamples
  <2>1. PICK level \in env.analog \cup {"absent"} :
          LET b == [base EXCEPT !.analog = level]
          IN  base' = IF ~In("ANALOG") THEN b
                      ELSE IF level = "absent" THEN Reconnect(Released([b EXCEPT !.learning = FALSE]))
                      ELSE AnalogInput(b)
    BY <1>2 DEF AnalogSamples
  <2> DEFINE b == [base EXCEPT !.analog = level]
             d == [b EXCEPT !.learning = FALSE]
  <2>2. level \in Levels
    BY <1>1 DEF EnvType, Levels
  <2>3. b \in BaseType /\ Alike(base, b) /\ Leaves(base, b)
    BY <1>1, <2>2 DEF Alike, Leaves, BaseType
  <2>4. UNCHANGED <<env, pedal, told>>
    BY <1>2 DEF AnalogSamples
  <2> HIDE DEF b
  <2>5. CASE ~In("ANALOG")
    BY <1>1, <2>1, <2>3, <2>4, <2>5, AlikeStep DEF b
  <2>6. CASE In("ANALOG")
    <3>1. d \in BaseType /\ Leaves(base, d)
      BY <2>3 DEF Leaves, BaseType
    <3> HIDE DEF d
    <3>2. Released(d) \in BaseType /\ Leaves(base, Released(d))
      BY <3>1, ReleasedType, LinkLeaves, LeavesOn DEF Modes
    <3>3. Leaves(base, Reconnect(Released(d))) /\ Reconnect(Released(d)).phase # "V4_STREAM"
      BY <3>2, ReconnectLeaves, LeavesOn
    <3>4. Leaves(base, AnalogInput(b)) /\ AnalogInput(b).phase # "V4_STREAM"
      <4>1. AnalogInput(b).phase = b.phase
        BY <2>3 DEF AnalogInput, BaseType
      <4> QED
        BY <2>3, <2>6, <4>1, LinkLeaves, LeavesOn DEF Modes, Alike, In
    <3>5. base' \in {Reconnect(Released(d)), AnalogInput(b)}
      BY <2>1, <2>6 DEF b, d
    <3>6. base.phase = "ANALOG"
      BY <2>6 DEF In
    <3> QED
      BY <1>1, <2>4, <3>3, <3>4, <3>5, <3>6, OutsideStep DEF Holds
  <2> QED
    BY <2>5, <2>6
<1>3. CASE ChangeTuning
  <2>1. PICK s \in Tuned, v \in Value : base' = [base EXCEPT !.tuning[s] = v, !.pending = @ \cup {s}]
    BY <1>3 DEF ChangeTuning
  <2>2. UNCHANGED <<pedal, told>> /\ (env'.clean => env.clean)
    BY <1>3, SpendType DEF ChangeTuning, TuningInv
  <2>3. /\ base'.pending = base.pending \cup {s} /\ base'.tuning = [base.tuning EXCEPT ![s] = v]
        /\ base'.forgot = base.forgot /\ base'.rx = base.rx /\ base'.tx = base.tx /\ base'.phase = base.phase
        /\ base'.mode = base.mode /\ base'.sent = base.sent /\ base'.v4 = base.v4
    BY <1>1, <2>1 DEF BaseType
  <2>4. LineInv'
    BY <2>2, <2>3 DEF TuningInv, LineInv
  <2>5. ASSUME env'.clean, ~base'.forgot PROVE Fit(base)' /\ base'.rx \in Seq(Whole)
    <3>1. Out(base) /\ Sure(base) /\ Taken(base) /\ base.rx \in Seq(Whole)
      BY <2>2, <2>3, <2>5 DEF TuningInv, Fit
    <3>2. Out(base)'
      BY <2>3, <3>1 DEF Out
    <3>3. Sure(base)'
      BY <2>2, <2>3, <3>1 DEF Sure, Asked, Unheard
    <3>4. Taken(base)'
      BY <1>1, <2>2, <2>3, <3>1, FieldTypes DEF Taken, Tuning
    <3> QED
      BY <2>3, <3>1, <3>2, <3>3, <3>4 DEF Fit
  <2> QED
    BY <1>1, <2>4, <2>5 DEF TuningInv
<1>4. CASE PressAdjustment \/ RequestControl
  <2>1. UNCHANGED <<pedal, told>> /\ (env'.clean => env.clean)
    BY <1>4, SpendType DEF PressAdjustment, RequestControl, TuningInv
  <2>2. Alike(base, base')
    BY <1>1, <1>4 DEF PressAdjustment, RequestControl, Alike, BaseType
  <2> QED
    BY <1>1, <2>1, <2>2, AlikeStep
<1>5. CASE RequestStartup
  <2>1. UNCHANGED <<pedal, told>> /\ (env'.clean => env.clean) /\ base' = Restarted(base)
    BY <1>5, SpendType DEF RequestStartup, TuningInv
  <2>2. /\ base'.phase = "DETECT_REQUEST" /\ base'.tx.kind # "tune" /\ base'.tuning = base.tuning
        /\ base'.pending = {} /\ (base'.rx = base.rx \/ base'.rx = <<>>)
        /\ ~base'.forgot => ~base.forgot /\ base.pending = {}
    BY <1>1, <2>1, RestartedForgets
  <2>3. LineInv'
    BY <2>1, <2>2 DEF TuningInv, LineInv
  <2>4. ASSUME env'.clean, ~base'.forgot PROVE Fit(base)' /\ base'.rx \in Seq(Whole)
    <3>1. Taken(base) /\ base.rx \in Seq(Whole) /\ <<>> \in Seq(Whole)
      BY <2>1, <2>2, <2>4 DEF TuningInv, Fit
    <3>2. Out(base)' /\ Sure(base)' /\ Taken(base)'
      BY <2>1, <2>2, <2>4, <3>1 DEF Out, Sure, Asked, Taken
    <3> QED
      BY <2>2, <3>1, <3>2 DEF Fit
  <2> QED
    BY <1>1, <2>3, <2>4 DEF TuningInv
<1> QED
  BY <1>2, <1>3, <1>4, <1>5 DEF Firmware

LEMMA DeadlineTuned == TuningInv /\ DeadlinePasses => TuningInv'
<1> SUFFICES ASSUME TuningInv, DeadlinePasses PROVE TuningInv'
  OBVIOUS
<1>1. TypeInv' /\ base \in BaseType
  BY DeadlineType, PedalTypes DEF TuningInv
<1>2. base' = [base EXCEPT !.late = TRUE] /\ UNCHANGED <<env, pedal, told>>
  BY DEF DeadlinePasses, Pass
<1>3. Alike(base, base')
  BY <1>1, <1>2 DEF Alike, BaseType
<1> QED
  BY <1>1, <1>2, <1>3, AlikeStep

\* On a line that loses nothing, every setting that does not wait to be sent is one that pedals have taken
\* with its present value, unless the console's restart threw it away or a stray answer settled it
\* (complete_v4_response, pedal_service_set_v4_tuning): for every change of pedals and of settings.
THEOREM SettingsTaken == Spec => []TuningTaken
<1>1. Init => TuningInv
  <2> SUFFICES ASSUME Init PROVE TuningInv
    OBVIOUS
  <2>1. /\ base.phase = "DETECT_REQUEST" /\ base.tx.kind = "none" /\ base.rx = <<>>
        /\ base.tuning = [s \in Settings |-> 0] /\ ~pedal.probing /\ ~pedal.garbled /\ pedal.air = <<>>
        /\ told = [s \in Settings |-> 0]
    BY DEF Init, Nothing, Unplugged
  <2>2. <<>> \in Seq(Whole) /\ <<>> \in Seq(Unasked)
    OBVIOUS
  <2>3. LineInv
    BY <2>1, <2>2 DEF LineInv
  <2>4. Fit(base)
    BY <2>1 DEF Fit, Out, Sure, Asked, Taken
  <2> QED
    BY <2>1, <2>2, <2>3, <2>4, InitType DEF TuningInv
<1>2. TuningInv /\ [Next]_vars => TuningInv'
  <2>1. TuningInv /\ UNCHANGED vars => TuningInv'
    <3> SUFFICES ASSUME TuningInv, UNCHANGED vars PROVE TuningInv'
      OBVIOUS
    <3>1. UNCHANGED <<env, base, pedal, told>>
      BY DEF vars
    <3>2. TypeInv' /\ Alike(base, base')
      BY <3>1, NextType DEF TuningInv, Alike, vars
    <3> QED
      BY <3>1, <3>2, AlikeStep
  <2> QED
    BY <2>1, DiscoveryTuned, LegacyTuned, V3Tuned, HoldTuned, StreamTuned, DeadlineTuned, LineTuned, FirmwareTuned
    DEF Next, Run
<1>3. TuningInv => TuningTaken
  BY DEF TuningInv, Fit, Taken, TuningTaken
<1> QED
  BY <1>1, <1>2, <1>3, PTL DEF Spec
=============================================================================
