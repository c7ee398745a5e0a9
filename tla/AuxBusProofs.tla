---------------------------- MODULE AuxBusProofs ----------------------------
(***************************************************************************)
(* The safety of the auxiliary bus, for every number of tuning parameters    *)
(* and every set of environments.                                          *)
(***************************************************************************)
EXTENDS AuxBus, TLAPS

----------------------------------------------------------------------------
(* The operations of the bus and of the services keep their types *)

LEMMA BusTypes == /\ Idle \in BusType
                  /\ \A c \in Clients : Started(c) \in BusType
                  /\ \A b \in BusType : Cleared(b) \in BusType
  BY DEF Idle, Started, Cleared, BusType, Clients

LEMMA AdvancedType == ASSUME env.protocol \in {"legacy", "standard", "extended"},
                             NEW t \in TelemetryType
                      PROVE  Advanced(t) \in TelemetryType
<1>1. Reads \in {2, 4}
  BY DEF Reads
<1>2. (t.read + 1) % Reads \in 0 .. 3
  BY <1>1 DEF TelemetryType
<1> QED
  BY <1>2 DEF Advanced, TelemetryType

LEMMA RearmedType == ASSUME NEW t \in TelemetryType, NEW b \in BusType, Rearmed(t, b)
                     PROVE  telemetry' \in TelemetryType /\ bus' \in BusType
  BY BusTypes DEF Rearmed, TelemetryType, Clients

LEMMA ContinuedType == ASSUME NEW s \in StatusType PROVE Continued(s) \in StatusType
  BY DEF Continued, StatusType

Responses == {"idle", "accepted", "fault", "unavailable", "other"}

LEMMA CommandReadType == ASSUME NEW s \in StatusType, NEW response \in Responses
                         PROVE  CommandRead(s, response) \in StatusType
<1>1. [s EXCEPT !.pending = FALSE, !.sent = FALSE] \in StatusType
  BY DEF StatusType
<1>2. Continued([s EXCEPT !.pending = FALSE, !.sent = FALSE]) \in StatusType
  BY <1>1, ContinuedType
<1>3. Continued(s) \in StatusType
  BY ContinuedType
<1>4. [s EXCEPT !.phase = "writeCommand"] \in StatusType
  BY DEF StatusType
<1> QED
  BY <1>2, <1>3, <1>4 DEF CommandRead, Responses, StatusType

\* A status that is not disabled: nothing runs in that phase.
LEMMA FinishedType == ASSUME NEW s \in StatusType, s.phase # "disabled", NEW response \in Responses
                      PROVE  Finished(s, response) \in StatusType
<1>1. CommandRead(s, response) \in StatusType
  BY CommandReadType
<1>2. Continued(s) \in StatusType
  BY ContinuedType
<1>3. CyclePhase("initialize") \in {"readCommand", "initialize"}
      /\ CyclePhase("read") \in {"readCommand", "read"}
  BY DEF CyclePhase
<1> QED
  BY <1>1, <1>2, <1>3 DEF Finished, StatusType

\* It does not become disabled, either.
LEMMA FinishedWorks == ASSUME NEW s \in StatusType, s.phase # "disabled", NEW response \in Responses
                       PROVE  Finished(s, response).phase # "disabled"
<1>1. ASSUME NEW r \in StatusType PROVE Continued(r).phase # "disabled"
  BY DEF Continued, StatusType
<1>2. [s EXCEPT !.pending = FALSE, !.sent = FALSE] \in StatusType
  BY DEF StatusType
<1>3. CommandRead(s, response).phase # "disabled"
  BY <1>1, <1>2 DEF CommandRead, Responses, StatusType
<1>4. CyclePhase("initialize") # "disabled" /\ CyclePhase("read") # "disabled"
  BY DEF CyclePhase
<1> QED
  BY <1>1, <1>3, <1>4 DEF Finished, StatusType

\* Nor active.
LEMMA FinishedRests == ASSUME NEW s \in StatusType, s.phase # "disabled", ~s.active,
                              NEW response \in Responses
                       PROVE  ~Finished(s, response).active
<1>1. ASSUME NEW r \in StatusType, ~r.active PROVE ~Continued(r).active
  BY <1>1 DEF Continued, StatusType
<1>2. [s EXCEPT !.pending = FALSE, !.sent = FALSE] \in StatusType
      /\ ~[s EXCEPT !.pending = FALSE, !.sent = FALSE].active
  BY DEF StatusType
<1>3. ~CommandRead(s, response).active
  BY <1>1, <1>2 DEF CommandRead, Responses, StatusType
<1> QED
  BY <1>1, <1>3 DEF Finished, StatusType

LEMMA StatusRearmedType == ASSUME NEW s \in StatusType, NEW b \in BusType, StatusRearmed(s, b)
                           PROVE  status' \in StatusType /\ bus' \in BusType
<1>1. [s EXCEPT !.active = TRUE, !.sent = @ \/ s.phase = "writeCommand"] \in StatusType
  BY DEF StatusType
<1> QED
  BY <1>1, BusTypes DEF StatusRearmed, Clients

LEMMA ParameterAfterType == ASSUME NEW p \in Parameter PROVE ParameterAfter(p) \in Parameter
  BY AuxBusAssumption DEF ParameterAfter, Parameter

LEMMA CompletedType == ASSUME NEW t \in TuningType, NEW ok \in BOOLEAN
                       PROVE  Completed(t, ok) \in TuningType
<1>1. NoFlight \in [parameter : Parameter, value : Value]
  BY AuxBusAssumption DEF NoFlight, Parameter, Value
<1>2. ParameterAfter(t.flight.parameter) \in Parameter /\ t.flight.parameter \in Parameter
  BY ParameterAfterType DEF TuningType
<1> QED
  BY <1>1, <1>2 DEF Completed, TuningType

LEMMA TuningRearmedType == ASSUME NEW t \in TuningType, NEW b \in BusType, TuningRearmed(t, b)
                           PROVE  tuning' \in TuningType /\ bus' \in BusType
<1>1. ASSUME NEW p \in Parameter
      PROVE  [t EXCEPT !.active = TRUE, !.flight = [parameter |-> p, value |-> t.desired[p]]]
               \in TuningType
  BY DEF TuningType
<1> QED
  BY <1>1, BusTypes DEF TuningRearmed, Clients

----------------------------------------------------------------------------
(* Type correctness *)

Working == {"session", "waitReady", "queue", "waitAcceptance", "waitResponse"}

\* Who has a transaction under way is in a phase that has transactions.
ActiveIsWorking == /\ element.active => element.stage \in Working
                   /\ status.active => status.phase # "disabled"

Typed == TypeOK /\ ActiveIsWorking

LEMMA InitType == Init => Typed
<1> SUFFICES ASSUME Init PROVE Typed
  OBVIOUS
<1>1. env.protocol \in {"legacy", "standard", "extended"}
  BY AuxBusAssumption DEF Init, Environment
<1>2. InitStatus(env.protocol) \in StatusType
  BY DEF InitStatus, StatusType
<1>3. 0 \in Parameter
  BY AuxBusAssumption DEF Parameter
<1>4. InitTuning \in TuningType
  BY <1>3 DEF InitTuning, NoFlight, TuningType, Value
<1>5. [phase |-> "queue", read |-> 0, due |-> TRUE] \in TelemetryType
  BY DEF TelemetryType
<1>6. NoElement \in ElementType
  BY DEF NoElement, ElementType
<1>7. [p \in Parameter |-> 1] \in [Parameter -> Value]
  BY DEF Value
<1> QED
  BY <1>2, <1>4, <1>5, <1>6, <1>7, BusTypes
     DEF Init, TypeOK, TransferType, Typed, ActiveIsWorking, NoElement, InitStatus

LEMMA BusEndsType == Typed /\ BusEnds => Typed'
<1> SUFFICES ASSUME Typed, BusEnds PROVE Typed'
  OBVIOUS
<1>1. TypeOK
  BY DEF Typed
<1>2. bus' \in BusType
  BY <1>1 DEF BusEnds, TypeOK, BusType
<1>3. written' \in [Parameter -> Value]
  <2>1. tuning.flight.parameter \in Parameter /\ tuning.flight.value \in Value
    BY <1>1 DEF TypeOK, TuningType
  <2> QED
    BY <1>1, <2>1 DEF BusEnds, TypeOK
<1>4. TypeOK'
  BY <1>1, <1>2, <1>3 DEF BusEnds, services, TypeOK
<1> QED
  BY <1>4 DEF BusEnds, services, Typed, ActiveIsWorking

Elements == ElementEnds \/ ElementStarts \/ ElementBegins \/ ElementWaits

LEMMA ElementTypes == Typed /\ Elements => Typed'
<1> SUFFICES ASSUME Typed, Elements PROVE Typed'
  OBVIOUS
<1>1. TypeOK /\ element \in ElementType /\ bus \in BusType
  BY DEF Typed, TypeOK
<1>2. bus' \in BusType
  BY <1>1, BusTypes DEF Elements, ElementEnds, ElementStarts, ElementBegins, ElementWaits, Clients
<1>3. element' \in ElementType /\ (element'.active => element'.stage \in Working)
  <2>1. CASE ElementEnds
    <3>1. element.stage \in Working
      BY <2>1 DEF ElementEnds, Typed, ActiveIsWorking
    <3>2. After(element.stage) \subseteq {"session", "pause", "rest", "waitReady", "queue",
                                         "waitAcceptance", "waitResponse"}
          /\ AfterFailure(element.stage) \in Working
      BY <3>1 DEF After, AfterFailure, Working
    <3>3. PICK stage \in {"session", "pause", "rest", "waitReady", "queue", "waitAcceptance",
                         "waitResponse"} : element' = [stage |-> stage, active |-> FALSE]
      BY <2>1, <3>2 DEF ElementEnds, Working
    <3> QED
      BY <3>3 DEF ElementType
  <2>2. CASE ElementStarts
    BY <1>1, <2>2 DEF ElementStarts, ElementType, Working
  <2>3. CASE ElementBegins
    BY <1>1, <2>3 DEF ElementBegins, ElementType, Working, Typed, ActiveIsWorking
  <2>4. CASE ElementWaits
    BY <1>1, <2>4 DEF ElementWaits, ElementType, Typed, ActiveIsWorking
  <2> QED
    BY <2>1, <2>2, <2>3, <2>4 DEF Elements
<1>4. /\ UNCHANGED <<env, transfer, telemetry, status, tuning, written, intact>>
      /\ pc' = "transfer"
  BY DEF Elements, ElementEnds, ElementStarts, ElementBegins, ElementWaits, Element
<1>5. TypeOK'
  BY <1>1, <1>2, <1>3, <1>4 DEF TypeOK
<1> QED
  BY <1>3, <1>4, <1>5 DEF Typed, ActiveIsWorking

Transfers == TransferStarts \/ TransferEnds \/ TransferWaits

LEMMA TransferTypes == Typed /\ Transfers => Typed'
<1> SUFFICES ASSUME Typed, Transfers PROVE Typed'
  OBVIOUS
<1>1. TypeOK /\ transfer \in TransferType /\ bus \in BusType
  BY DEF Typed, TypeOK
<1>2. bus' \in BusType /\ transfer' \in TransferType
  BY <1>1, BusTypes DEF Transfers, TransferStarts, TransferEnds, TransferWaits, Clients, TransferType
<1>3. /\ UNCHANGED <<env, element, telemetry, status, tuning, written, intact>>
      /\ pc' = "console"
  BY DEF Transfers, TransferStarts, TransferEnds, TransferWaits, Transfer
<1>4. TypeOK'
  BY <1>1, <1>2, <1>3 DEF TypeOK
<1> QED
  BY <1>3, <1>4 DEF Typed, ActiveIsWorking

Consoles == EnterPlayStation \/ StayInMode

LEMMA ConsoleTypes == Typed /\ Consoles => Typed'
<1> SUFFICES ASSUME Typed, Consoles PROVE Typed'
  OBVIOUS
<1>1. TypeOK /\ element \in ElementType /\ bus \in BusType /\ intact \in BOOLEAN
  BY DEF Typed, TypeOK
<1>2. bus' \in BusType /\ intact' \in BOOLEAN
  BY <1>1, BusTypes DEF Consoles, EnterPlayStation, StayInMode, Reset
<1>3. element' \in ElementType /\ (element'.active => element'.stage \in Working)
  BY <1>1 DEF Consoles, EnterPlayStation, StayInMode, ElementType, NoElement, Typed,
     ActiveIsWorking, Console
<1>4. /\ UNCHANGED <<env, transfer, telemetry, status, tuning, written>>
      /\ pc' = "telemetry"
  BY DEF Consoles, EnterPlayStation, StayInMode, Console
<1>5. TypeOK'
  BY <1>1, <1>2, <1>3, <1>4 DEF TypeOK
<1> QED
  BY <1>3, <1>4, <1>5 DEF Typed, ActiveIsWorking

Telemetries == TelemetryQueues \/ TelemetryEnds \/ TelemetryFails \/ TelemetryRecovers
               \/ TelemetryWaits

LEMMA TelemetryTypes == Typed /\ Telemetries => Typed'
<1> SUFFICES ASSUME Typed, Telemetries PROVE Typed'
  OBVIOUS
<1>1. TypeOK /\ telemetry \in TelemetryType /\ bus \in BusType /\ env \in Environments
  BY DEF Typed, TypeOK
<1>2. env.protocol \in {"legacy", "standard", "extended"}
  BY <1>1, AuxBusAssumption DEF Environment
<1>3. bus' \in BusType /\ telemetry' \in TelemetryType
  <2>1. CASE TelemetryQueues
    BY <1>1, <2>1, RearmedType DEF TelemetryQueues
  <2>2. CASE TelemetryEnds
    BY <1>1, <1>2, <2>2, AdvancedType, RearmedType, BusTypes DEF TelemetryEnds
  <2>3. CASE TelemetryFails \/ TelemetryRecovers \/ TelemetryWaits
    BY <1>1, <2>3, BusTypes DEF TelemetryFails, TelemetryRecovers, TelemetryWaits, TelemetryType
  <2> QED
    BY <2>1, <2>2, <2>3 DEF Telemetries
<1>4. /\ UNCHANGED <<env, element, transfer, status, tuning, written, intact>>
      /\ pc' = "status"
  BY DEF Telemetries, TelemetryQueues, TelemetryEnds, TelemetryFails, TelemetryRecovers,
     TelemetryWaits, Telemetry
<1>5. TypeOK'
  BY <1>1, <1>3, <1>4 DEF TypeOK
<1> QED
  BY <1>4, <1>5 DEF Typed, ActiveIsWorking

Statuses == StatusQueues \/ StatusEnds \/ StatusFails \/ StatusWaits

LEMMA StatusTypes == Typed /\ Statuses => Typed'
<1> SUFFICES ASSUME Typed, Statuses PROVE Typed'
  OBVIOUS
<1>1. TypeOK /\ status \in StatusType /\ bus \in BusType
  BY DEF Typed, TypeOK
<1>2. bus' \in BusType /\ status' \in StatusType
      /\ (status'.active => status'.phase # "disabled")
  <2>1. CASE StatusQueues
    BY <1>1, <2>1, StatusRearmedType DEF StatusQueues, StatusRearmed, StatusType
  <2>2. CASE StatusEnds
    <3>1. [status EXCEPT !.active = FALSE] \in StatusType /\ status.phase # "disabled"
      BY <1>1, <2>2 DEF StatusEnds, Typed, ActiveIsWorking, StatusType
    <3>2. PICK response \in Responses :
              StatusRearmed(Finished([status EXCEPT !.active = FALSE], response), Idle)
      BY <2>2 DEF StatusEnds, Responses
    <3> DEFINE s == Finished([status EXCEPT !.active = FALSE], response)
    <3>3. [status EXCEPT !.active = FALSE].phase # "disabled"
      BY <1>1, <3>1 DEF StatusType
    <3>4. s \in StatusType /\ s.phase # "disabled"
      BY <3>1, <3>3, FinishedType, FinishedWorks
    <3>5. StatusRearmed(s, Idle)
      BY <3>2
    <3>6. status' \in StatusType /\ bus' \in BusType
      BY <3>4, <3>5, StatusRearmedType, BusTypes
    <3>7. status'.phase = s.phase
      BY <3>4, <3>5 DEF StatusRearmed, StatusType
    <3> QED
      BY <3>4, <3>6, <3>7
  <2>3. CASE StatusFails
    BY <1>1, <2>3, BusTypes DEF StatusFails, StatusType
  <2>4. CASE StatusWaits
    BY <1>1, <2>4 DEF StatusWaits, Typed, ActiveIsWorking
  <2> QED
    BY <2>1, <2>2, <2>3, <2>4 DEF Statuses
<1>3. /\ UNCHANGED <<env, element, transfer, telemetry, tuning, written, intact>>
      /\ pc' = "tuning"
  BY DEF Statuses, StatusQueues, StatusEnds, StatusFails, StatusWaits, Status
<1>4. TypeOK'
  BY <1>1, <1>2, <1>3 DEF TypeOK
<1> QED
  BY <1>2, <1>3, <1>4 DEF Typed, ActiveIsWorking

Tunings == TuningQueues \/ TuningEnds \/ TuningWaits

LEMMA TuningTypes == Typed /\ Tunings => Typed'
<1> SUFFICES ASSUME Typed, Tunings PROVE Typed'
  OBVIOUS
<1>1. TypeOK /\ tuning \in TuningType /\ bus \in BusType
  BY DEF Typed, TypeOK
<1>2. bus' \in BusType /\ tuning' \in TuningType
  <2>1. CASE TuningQueues
    BY <1>1, <2>1, TuningRearmedType DEF TuningQueues
  <2>2. CASE TuningEnds
    <3>1. Completed(tuning, bus.status = "succeeded") \in TuningType
      BY <1>1, CompletedType
    <3> QED
      BY <2>2, <3>1, TuningRearmedType, BusTypes DEF TuningEnds
  <2>3. CASE TuningWaits
    BY <1>1, <2>3 DEF TuningWaits
  <2> QED
    BY <2>1, <2>2, <2>3 DEF Tunings
<1>3. /\ UNCHANGED <<env, element, transfer, telemetry, status, written, intact>>
      /\ pc' = "host"
  BY DEF Tunings, TuningQueues, TuningEnds, TuningWaits, Tuning
<1>4. TypeOK'
  BY <1>1, <1>2, <1>3 DEF TypeOK
<1> QED
  BY <1>3, <1>4 DEF Typed, ActiveIsWorking

Hosts == \/ StartTransfer \/ ChangeSetting \/ RequestCommand \/ LeavePlayStation
         \/ TelemetryDue \/ StatusDue \/ NextPass

LEMMA HostTypes == Typed /\ Hosts => Typed'
<1> SUFFICES ASSUME Typed, Hosts PROVE Typed'
  OBVIOUS
<1>1. TypeOK /\ tuning \in TuningType /\ status \in StatusType /\ telemetry \in TelemetryType
      /\ bus \in BusType /\ intact \in BOOLEAN
  BY DEF Typed, TypeOK
<1>2. CASE StartTransfer
  BY <1>1, <1>2 DEF StartTransfer, Host, TypeOK, TransferType, Typed, ActiveIsWorking
<1>3. CASE ChangeSetting
  <2>1. tuning' \in TuningType
    <3>1. PICK p \in Parameter, v \in Value :
              tuning' = [tuning EXCEPT !.desired[p] = v, !.dirty = @ \cup {p}]
      BY <1>3 DEF ChangeSetting
    <3> QED
      BY <1>1, <3>1 DEF TuningType
  <2> QED
    BY <1>1, <1>3, <2>1 DEF ChangeSetting, Host, TypeOK, Typed, ActiveIsWorking
<1>4. CASE RequestCommand
  <2>1. status' \in StatusType /\ status'.phase = status.phase /\ status'.active = status.active
    BY <1>1, <1>4 DEF RequestCommand, StatusType
  <2> QED
    BY <1>1, <1>4, <2>1 DEF RequestCommand, Host, TypeOK, Typed, ActiveIsWorking
<1>5. CASE LeavePlayStation
  <2>1. element' \in ElementType /\ ~element'.active /\ transfer' \in TransferType
    BY <1>5 DEF LeavePlayStation, NoElement, ElementType, TransferType
  <2>2. bus' \in BusType /\ intact' \in BOOLEAN
    BY <1>1, <1>5, BusTypes DEF LeavePlayStation, Reset
  <2> QED
    BY <1>1, <1>5, <2>1, <2>2 DEF LeavePlayStation, Host, TypeOK, Typed, ActiveIsWorking
<1>6. CASE TelemetryDue
  <2>1. telemetry' \in TelemetryType
    BY <1>1, <1>6 DEF TelemetryDue, TelemetryType
  <2> QED
    BY <1>1, <1>6, <2>1 DEF TelemetryDue, Host, TypeOK, Typed, ActiveIsWorking
<1>7. CASE StatusDue
  <2>1. status' \in StatusType /\ status'.phase = status.phase /\ status'.active = status.active
    BY <1>1, <1>7 DEF StatusDue, StatusType
  <2> QED
    BY <1>1, <1>7, <2>1 DEF StatusDue, Host, TypeOK, Typed, ActiveIsWorking
<1>8. CASE NextPass
  BY <1>1, <1>8 DEF NextPass, services, TypeOK, Typed, ActiveIsWorking
<1> QED
  BY <1>2, <1>3, <1>4, <1>5, <1>6, <1>7, <1>8 DEF Hosts

\* The steps of the specification, by the service that takes them.
LEMMA NextByService ==
    Next => \/ BusEnds \/ Elements \/ Transfers \/ Consoles \/ Telemetries \/ Statuses
            \/ Tunings \/ Hosts
  BY DEF Next, Pass, Elements, Transfers, Consoles, Telemetries, Statuses, Tunings, Hosts

LEMMA TypeStep == Typed /\ [Next]_vars => Typed'
<1> SUFFICES ASSUME Typed, [Next]_vars PROVE Typed'
  OBVIOUS
<1>1. CASE Next
  BY <1>1, NextByService, BusEndsType, ElementTypes, TransferTypes, ConsoleTypes, TelemetryTypes,
     StatusTypes, TuningTypes, HostTypes
<1>2. CASE UNCHANGED vars
  BY <1>2 DEF vars, services, Typed, TypeOK, ActiveIsWorking
<1> QED
  BY <1>1, <1>2

\* Every reachable state of the bus and its users is well typed, whatever fails and whenever the
\* PlayStation mode resets the bus.
THEOREM TypeCorrect == Spec => []TypeOK
<1>1. Typed => TypeOK
  BY DEF Typed
<1> QED
  BY <1>1, InitType, TypeStep, PTL DEF Spec

----------------------------------------------------------------------------
(* Results are one's own, and clean parameters are written *)

\* ResultsAreOwn, service by service.
Own == intact => /\ element.active => bus.user = "element"
                 /\ Pending => bus.user = "transfer"
                 /\ telemetry.phase # "queue" => bus.user = "telemetry"
                 /\ status.active => bus.user = "status"
                 /\ tuning.active => bus.user = "tuning"

\* An idle bus has no user, so that on an idle bus nobody waits.
IdleIsNobodys == bus.status = "idle" => bus.user = "none"

\* What is being written is dirty until the write has ended, and has arrived when it succeeds.
FlightIsDirty == tuning.active => tuning.flight.parameter \in tuning.dirty
WriteArrived == intact /\ tuning.active /\ bus.status = "succeeded"
                    => written[tuning.flight.parameter] = tuning.flight.value

SafeInv == Own /\ IdleIsNobodys /\ FlightIsDirty /\ WriteArrived /\ CleanMeansWritten

LEMMA OwnIsResultsAreOwn == Own => ResultsAreOwn
<1> SUFFICES ASSUME Own, intact, NEW c \in Clients, Waits(c) PROVE bus.user = c
  BY DEF ResultsAreOwn
<1>1. CASE c = "element"
  BY <1>1 DEF Own, Waits
<1>2. CASE c = "transfer"
  BY <1>2 DEF Own, Waits
<1>3. CASE c = "telemetry"
  BY <1>3 DEF Own, Waits
<1>4. CASE c = "status"
  BY <1>4 DEF Own, Waits
<1>5. CASE c = "tuning"
  BY <1>5 DEF Own, Waits
<1> QED
  BY <1>1, <1>2, <1>3, <1>4, <1>5 DEF Clients

LEMMA InitSafe == Init => SafeInv
<1> SUFFICES ASSUME Init PROVE SafeInv
  OBVIOUS
<1>1. Own /\ IdleIsNobodys
  BY DEF Init, Own, IdleIsNobodys, Idle, NoElement, Pending, InitStatus, InitTuning
<1>2. FlightIsDirty /\ WriteArrived /\ CleanMeansWritten
  BY DEF Init, FlightIsDirty, WriteArrived, CleanMeansWritten, InitTuning
<1> QED
  BY <1>1, <1>2 DEF SafeInv

\* Tuning's part of the invariant is kept by whoever leaves tuning and the motor alone, does not
\* mend what is not intact, and makes no write of tuning succeed.
LEMMA TuningUntouched ==
    ASSUME SafeInv, UNCHANGED <<tuning, written>>, intact' => intact,
           intact' /\ tuning.active /\ bus'.status = "succeeded" => bus.status = "succeeded"
    PROVE  FlightIsDirty' /\ WriteArrived' /\ CleanMeansWritten'
  BY DEF SafeInv, FlightIsDirty, WriteArrived, CleanMeansWritten

\* The interrupt changes no user.
LEMMA BusEndsSafe == Typed /\ SafeInv /\ BusEnds => SafeInv'
<1> SUFFICES ASSUME Typed, SafeInv, BusEnds PROVE SafeInv'
  OBVIOUS
<1>1. /\ bus \in BusType /\ tuning \in TuningType /\ written \in [Parameter -> Value]
  BY DEF Typed, TypeOK
<1>2. UNCHANGED <<services, intact>>
  BY DEF BusEnds
<1>3. PICK end \in {"succeeded", "failed"} :
         /\ bus' = [bus EXCEPT !.status = end]
         /\ \/ end = "failed" /\ UNCHANGED written
            \/ IF bus.user = "tuning" /\ tuning.active
               THEN written' = [written EXCEPT ![tuning.flight.parameter] = tuning.flight.value]
               ELSE end = "succeeded" /\ UNCHANGED written
  BY DEF BusEnds
<1>4. bus'.user = bus.user /\ bus'.status = end
  BY <1>1, <1>3 DEF BusType
<1>5. Own' /\ IdleIsNobodys'
  BY <1>2, <1>4 DEF SafeInv, Own, IdleIsNobodys, services, Pending
<1>6. FlightIsDirty'
  BY <1>2 DEF SafeInv, FlightIsDirty, services
<1>7. WriteArrived'
  BY <1>1, <1>2, <1>3, <1>4 DEF SafeInv, Own, WriteArrived, services, TuningType
<1>8. CleanMeansWritten'
  <2>1. \A p \in Parameter \ tuning.dirty : written'[p] = written[p]
    BY <1>1, <1>3 DEF SafeInv, FlightIsDirty
  <2> QED
    BY <1>2, <2>1 DEF SafeInv, CleanMeansWritten, services
<1> QED
  BY <1>5, <1>6, <1>7, <1>8 DEF SafeInv

LEMMA ElementSafe == Typed /\ SafeInv /\ Elements => SafeInv'
<1> SUFFICES ASSUME Typed, SafeInv, Elements PROVE SafeInv'
  OBVIOUS
<1>1. bus \in BusType /\ element \in ElementType
  BY DEF Typed, TypeOK
<1>2. UNCHANGED <<transfer, telemetry, status, tuning, written, intact>>
  BY DEF Elements, ElementEnds, ElementStarts, ElementBegins, ElementWaits, Element
<1>3. /\ Own' /\ IdleIsNobodys'
      /\ intact' /\ tuning.active /\ bus'.status = "succeeded" => bus.status = "succeeded"
  <2>1. CASE ElementEnds
    <3>1. bus' = Idle /\ ~element'.active
      BY <2>1 DEF ElementEnds, Cleared
    <3> QED
      BY <1>2, <2>1, <3>1 DEF ElementEnds, SafeInv, Own, IdleIsNobodys, Idle, Pending
  <2>2. CASE ElementStarts
    BY <1>2, <2>2 DEF ElementStarts, SafeInv, Own, IdleIsNobodys, Started, Pending
  <2>3. CASE ElementBegins
    BY <1>1, <1>2, <2>3 DEF ElementBegins, SafeInv, Own, IdleIsNobodys, Pending, ElementType
  <2>4. CASE ElementWaits
    BY <1>2, <2>4 DEF ElementWaits, SafeInv, Own, IdleIsNobodys, Pending
  <2> QED
    BY <2>1, <2>2, <2>3, <2>4 DEF Elements
<1> QED
  BY <1>2, <1>3, TuningUntouched DEF SafeInv

LEMMA TransferSafe == Typed /\ SafeInv /\ Transfers => SafeInv'
<1> SUFFICES ASSUME Typed, SafeInv, Transfers PROVE SafeInv'
  OBVIOUS
<1>1. UNCHANGED <<element, telemetry, status, tuning, written, intact>>
  BY DEF Transfers, TransferStarts, TransferEnds, TransferWaits, Transfer
<1>2. /\ Own' /\ IdleIsNobodys'
      /\ intact' /\ tuning.active /\ bus'.status = "succeeded" => bus.status = "succeeded"
  <2>1. CASE TransferStarts
    BY <1>1, <2>1 DEF TransferStarts, Available, SafeInv, Own, IdleIsNobodys, Started, Pending
  <2>2. CASE TransferEnds
    <3>1. bus' = Idle /\ ~Pending'
      BY <2>2 DEF TransferEnds, Cleared, Pending
    <3> QED
      BY <1>1, <2>2, <3>1 DEF TransferEnds, SafeInv, Own, IdleIsNobodys, Idle
  <2>3. CASE TransferWaits
    BY <1>1, <2>3 DEF TransferWaits, SafeInv, Own, IdleIsNobodys, Pending
  <2> QED
    BY <2>1, <2>2, <2>3 DEF Transfers
<1> QED
  BY <1>1, <1>2, TuningUntouched DEF SafeInv

\* Entering the mode cuts off whoever is left waiting, and then nothing is intact.
LEMMA ConsoleSafe == Typed /\ SafeInv /\ Consoles => SafeInv'
<1> SUFFICES ASSUME Typed, SafeInv, Consoles PROVE SafeInv'
  OBVIOUS
<1>1. UNCHANGED <<transfer, telemetry, status, tuning, written>>
  BY DEF Consoles, EnterPlayStation, StayInMode, Console
<1>2. /\ Own' /\ IdleIsNobodys' /\ (intact' => intact)
      /\ intact' /\ tuning.active /\ bus'.status = "succeeded" => bus.status = "succeeded"
  <2>1. CASE EnterPlayStation
    <3>1. bus' = Idle /\ ~element'.active
          /\ intact' = (intact /\ bus.user \notin {"transfer", "telemetry", "status", "tuning"})
      BY <2>1 DEF EnterPlayStation, Reset, NoElement
    <3> QED
      BY <1>1, <3>1 DEF SafeInv, Own, IdleIsNobodys, Idle, Pending
  <2>2. CASE StayInMode
    BY <1>1, <2>2 DEF StayInMode, SafeInv, Own, IdleIsNobodys, Pending
  <2> QED
    BY <2>1, <2>2 DEF Consoles
<1> QED
  BY <1>1, <1>2, TuningUntouched DEF SafeInv

\* A read that starts does so on an idle bus.
LEMMA RearmedOwn == ASSUME NEW t \in TelemetryType, NEW b, Rearmed(t, b), t.phase = "queue"
                    PROVE  \/ telemetry' = t /\ bus' = b
                           \/ b.status = "idle" /\ bus' = Started("telemetry")
  BY DEF Rearmed

LEMMA TelemetrySafe == Typed /\ SafeInv /\ Telemetries => SafeInv'
<1> SUFFICES ASSUME Typed, SafeInv, Telemetries PROVE SafeInv'
  OBVIOUS
<1>1. bus \in BusType /\ telemetry \in TelemetryType
      /\ env.protocol \in {"legacy", "standard", "extended"}
  BY AuxBusAssumption DEF Typed, TypeOK, Environment
<1>2. UNCHANGED <<element, transfer, status, tuning, written, intact>>
  BY DEF Telemetries, TelemetryQueues, TelemetryEnds, TelemetryFails, TelemetryRecovers,
     TelemetryWaits, Telemetry
<1>3. /\ Own' /\ IdleIsNobodys'
      /\ intact' /\ tuning.active /\ bus'.status = "succeeded" => bus.status = "succeeded"
  <2>1. CASE TelemetryQueues
    <3>1. \/ telemetry' = telemetry /\ bus' = bus
          \/ bus.status = "idle" /\ bus' = Started("telemetry")
      BY <1>1, <2>1, RearmedOwn DEF TelemetryQueues
    <3> QED
      BY <1>2, <3>1 DEF SafeInv, Own, IdleIsNobodys, Started, Pending
  <2>2. CASE TelemetryEnds
    <3>1. Advanced(telemetry) \in TelemetryType /\ Advanced(telemetry).phase = "queue"
      BY <1>1, AdvancedType DEF Advanced, TelemetryType
    <3>2. \/ telemetry'.phase = "queue" /\ bus' = Idle
          \/ bus' = Started("telemetry")
      BY <2>2, <3>1, RearmedOwn DEF TelemetryEnds
    <3>3. intact => /\ ~element.active /\ ~Pending /\ ~status.active /\ ~tuning.active
      BY <2>2 DEF TelemetryEnds, SafeInv, Own
    <3> QED
      BY <1>2, <3>2, <3>3 DEF SafeInv, Own, IdleIsNobodys, Started, Idle, Pending
  <2>3. CASE TelemetryFails
    BY <1>2, <2>3 DEF TelemetryFails, SafeInv, Own, IdleIsNobodys, Pending
  <2>4. CASE TelemetryRecovers
    <3>1. telemetry'.phase = "queue"
      BY <1>1, <2>4 DEF TelemetryRecovers, TelemetryType
    <3>2. bus' = bus \/ bus' = Idle
      BY <2>4 DEF TelemetryRecovers, Cleared
    <3>3. intact => /\ ~element.active /\ ~Pending /\ ~status.active /\ ~tuning.active
      BY <2>4 DEF TelemetryRecovers, SafeInv, Own
    <3> QED
      BY <1>2, <3>1, <3>2, <3>3 DEF SafeInv, Own, IdleIsNobodys, Idle, Pending
  <2>5. CASE TelemetryWaits
    BY <1>2, <2>5 DEF TelemetryWaits, SafeInv, Own, IdleIsNobodys, Pending
  <2> QED
    BY <2>1, <2>2, <2>3, <2>4, <2>5 DEF Telemetries
<1> QED
  BY <1>2, <1>3, TuningUntouched DEF SafeInv

\* A status transaction that starts does so on an idle bus.
LEMMA StatusRearmedOwn ==
    ASSUME NEW s \in StatusType, NEW b, StatusRearmed(s, b), ~s.active
    PROVE  \/ ~status'.active /\ bus' = b
           \/ b.status = "idle" /\ bus' = Started("status")
  BY DEF StatusRearmed, StatusReady

LEMMA StatusSafe == Typed /\ SafeInv /\ Statuses => SafeInv'
<1> SUFFICES ASSUME Typed, SafeInv, Statuses PROVE SafeInv'
  OBVIOUS
<1>1. bus \in BusType /\ status \in StatusType
  BY DEF Typed, TypeOK
<1>2. UNCHANGED <<element, transfer, telemetry, tuning, written, intact>>
  BY DEF Statuses, StatusQueues, StatusEnds, StatusFails, StatusWaits, Status
<1>3. /\ Own' /\ IdleIsNobodys'
      /\ intact' /\ tuning.active /\ bus'.status = "succeeded" => bus.status = "succeeded"
  <2>1. CASE StatusQueues
    <3>1. \/ ~status'.active /\ bus' = bus
          \/ bus.status = "idle" /\ bus' = Started("status")
      BY <1>1, <2>1, StatusRearmedOwn DEF StatusQueues
    <3> QED
      BY <1>2, <3>1 DEF SafeInv, Own, IdleIsNobodys, Started, Pending
  <2>2. CASE StatusEnds
    <3>1. [status EXCEPT !.active = FALSE] \in StatusType
          /\ [status EXCEPT !.active = FALSE].phase # "disabled"
          /\ ~[status EXCEPT !.active = FALSE].active
      BY <1>1, <2>2 DEF StatusEnds, Typed, ActiveIsWorking, StatusType
    <3>2. PICK response \in Responses :
              StatusRearmed(Finished([status EXCEPT !.active = FALSE], response), Idle)
      BY <2>2 DEF StatusEnds, Responses
    <3>3. /\ Finished([status EXCEPT !.active = FALSE], response) \in StatusType
          /\ ~Finished([status EXCEPT !.active = FALSE], response).active
      BY <3>1, FinishedType, FinishedRests
    <3>4. \/ ~status'.active /\ bus' = Idle
          \/ bus' = Started("status")
      BY <3>2, <3>3, StatusRearmedOwn
    <3>5. intact => ~element.active /\ ~Pending /\ telemetry.phase = "queue" /\ ~tuning.active
      BY <2>2 DEF StatusEnds, SafeInv, Own
    <3> QED
      BY <1>2, <3>4, <3>5 DEF SafeInv, Own, IdleIsNobodys, Started, Idle, Pending
  <2>3. CASE StatusFails
    <3>1. bus' = Idle /\ ~status'.active
      BY <1>1, <2>3 DEF StatusFails, Cleared, StatusType
    <3>2. intact => ~element.active /\ ~Pending /\ telemetry.phase = "queue" /\ ~tuning.active
      BY <2>3 DEF StatusFails, SafeInv, Own
    <3> QED
      BY <1>2, <3>1, <3>2 DEF SafeInv, Own, IdleIsNobodys, Idle, Pending
  <2>4. CASE StatusWaits
    BY <1>2, <2>4 DEF StatusWaits, SafeInv, Own, IdleIsNobodys, Pending
  <2> QED
    BY <2>1, <2>2, <2>3, <2>4 DEF Statuses
<1> QED
  BY <1>2, <1>3, TuningUntouched DEF SafeInv

\* A write that has ended: a parameter that is clean now was clean before, or it is the one that
\* was written with the value that is desired still.
LEMMA CompletedClean ==
    ASSUME NEW t \in TuningType, NEW ok \in BOOLEAN
    PROVE  LET c == Completed(t, ok)
           IN  /\ ~c.active /\ c.desired = t.desired
               /\ \/ c.dirty = t.dirty
                  \/ /\ ok /\ t.desired[t.flight.parameter] = t.flight.value
                     /\ c.dirty = t.dirty \ {t.flight.parameter}
  BY DEF Completed, TuningType

LEMMA TuningRearmedOwn ==
    ASSUME NEW t \in TuningType, NEW b, TuningRearmed(t, b), ~t.active
    PROVE  /\ tuning'.dirty = t.dirty /\ tuning'.desired = t.desired
           /\ tuning'.active => tuning'.flight.parameter \in tuning'.dirty
           /\ \/ ~tuning'.active /\ bus' = b
              \/ b.status = "idle" /\ bus' = Started("tuning")
<1>1. CASE b.status = "idle" /\ t.dirty # {}
  <2>1. PICK p \in Parameter :
            /\ p \in t.dirty
            /\ tuning' = [t EXCEPT !.active = TRUE,
                                   !.flight = [parameter |-> p, value |-> t.desired[p]]]
    BY <1>1 DEF TuningRearmed, NextDirty
  <2> QED
    BY <1>1, <2>1 DEF TuningRearmed, TuningType
<1>2. CASE ~(b.status = "idle" /\ t.dirty # {})
  BY <1>2 DEF TuningRearmed
<1> QED
  BY <1>1, <1>2

LEMMA TuningSafe == Typed /\ SafeInv /\ Tunings => SafeInv'
<1> SUFFICES ASSUME Typed, SafeInv, Tunings PROVE SafeInv'
  OBVIOUS
<1>1. bus \in BusType /\ tuning \in TuningType
  BY DEF Typed, TypeOK
<1>2. UNCHANGED <<element, transfer, telemetry, status, written, intact>>
  BY DEF Tunings, TuningQueues, TuningEnds, TuningWaits, Tuning
<1>3. CASE TuningQueues
  <2>1. /\ tuning'.dirty = tuning.dirty /\ tuning'.desired = tuning.desired
        /\ tuning'.active => tuning'.flight.parameter \in tuning'.dirty
        /\ \/ ~tuning'.active /\ bus' = bus
           \/ bus.status = "idle" /\ bus' = Started("tuning")
    BY <1>1, <1>3, TuningRearmedOwn DEF TuningQueues
  <2>2. Own' /\ IdleIsNobodys'
    BY <1>2, <2>1 DEF SafeInv, Own, IdleIsNobodys, Started, Pending
  <2>3. FlightIsDirty' /\ WriteArrived' /\ CleanMeansWritten'
    BY <1>2, <2>1 DEF SafeInv, FlightIsDirty, WriteArrived, CleanMeansWritten, Started
  <2> QED
    BY <2>2, <2>3 DEF SafeInv
<1>4. CASE TuningEnds
  <2> DEFINE ok == bus.status = "succeeded"
             c == Completed(tuning, ok)
  <2>1. /\ ~c.active /\ c.desired = tuning.desired
        /\ \/ c.dirty = tuning.dirty
           \/ /\ ok /\ tuning.desired[tuning.flight.parameter] = tuning.flight.value
              /\ c.dirty = tuning.dirty \ {tuning.flight.parameter}
    BY <1>1, CompletedClean
  <2>2. c \in TuningType
    BY <1>1, CompletedType
  <2>3. TuningRearmed(c, Idle)
    BY <1>4 DEF TuningEnds
  <2> HIDE DEF c
  <2>4. /\ tuning'.dirty = c.dirty /\ tuning'.desired = c.desired
        /\ tuning'.active => tuning'.flight.parameter \in tuning'.dirty
        /\ \/ ~tuning'.active /\ bus' = Idle
           \/ bus' = Started("tuning")
    BY <2>1, <2>2, <2>3, TuningRearmedOwn
  <2>5. intact => ~element.active /\ ~Pending /\ telemetry.phase = "queue" /\ ~status.active
    BY <1>4 DEF TuningEnds, SafeInv, Own
  <2>6. Own' /\ IdleIsNobodys'
    BY <1>2, <2>4, <2>5 DEF SafeInv, Own, IdleIsNobodys, Started, Idle, Pending
  <2>7. FlightIsDirty' /\ WriteArrived'
    BY <2>4 DEF FlightIsDirty, WriteArrived, Started, Idle
  <2>8. CleanMeansWritten'
    <3>1. intact /\ ok => written[tuning.flight.parameter] = tuning.flight.value
      BY <1>4 DEF TuningEnds, SafeInv, WriteArrived
    <3> QED
      BY <1>1, <1>2, <2>1, <2>4, <3>1 DEF SafeInv, CleanMeansWritten
  <2> QED
    BY <2>6, <2>7, <2>8 DEF SafeInv
<1>5. CASE TuningWaits
  BY <1>2, <1>5 DEF TuningWaits, SafeInv, Own, IdleIsNobodys, Pending, FlightIsDirty, WriteArrived,
     CleanMeansWritten
<1> QED
  BY <1>3, <1>4, <1>5 DEF Tunings

LEMMA HostSafe == Typed /\ SafeInv /\ Hosts => SafeInv'
<1> SUFFICES ASSUME Typed, SafeInv, Hosts PROVE SafeInv'
  OBVIOUS
<1>1. tuning \in TuningType /\ status \in StatusType /\ telemetry \in TelemetryType
  BY DEF Typed, TypeOK
<1>2. CASE StartTransfer
  <2>1. UNCHANGED <<bus, element, telemetry, status, tuning, written, intact>> /\ ~Pending'
    BY <1>2 DEF StartTransfer, Host, Pending
  <2> QED
    BY <2>1 DEF SafeInv, Own, IdleIsNobodys, FlightIsDirty, WriteArrived, CleanMeansWritten
<1>3. CASE ChangeSetting
  <2>1. UNCHANGED <<bus, element, transfer, telemetry, status, written, intact>>
    BY <1>3 DEF ChangeSetting, Host
  <2>2. PICK p \in Parameter, v \in Value :
            tuning' = [tuning EXCEPT !.desired[p] = v, !.dirty = @ \cup {p}]
    BY <1>3 DEF ChangeSetting
  <2>3. /\ tuning'.active = tuning.active /\ tuning'.flight = tuning.flight
        /\ tuning'.dirty = tuning.dirty \cup {p}
        /\ \A q \in Parameter \ {p} : tuning'.desired[q] = tuning.desired[q]
    BY <1>1, <2>2 DEF TuningType
  <2>4. Own' /\ IdleIsNobodys'
    BY <2>1, <2>3 DEF SafeInv, Own, IdleIsNobodys, Pending
  <2>5. FlightIsDirty' /\ WriteArrived' /\ CleanMeansWritten'
    BY <2>1, <2>3 DEF SafeInv, FlightIsDirty, WriteArrived, CleanMeansWritten
  <2> QED
    BY <2>4, <2>5 DEF SafeInv
<1>4. CASE RequestCommand
  <2>1. UNCHANGED <<bus, element, transfer, telemetry, tuning, written, intact>>
        /\ status'.active = status.active
    BY <1>1, <1>4 DEF RequestCommand, Host, StatusType
  <2> QED
    BY <2>1 DEF SafeInv, Own, IdleIsNobodys, Pending, FlightIsDirty, WriteArrived,
       CleanMeansWritten
<1>5. CASE LeavePlayStation
  <2>1. /\ UNCHANGED <<telemetry, status, tuning, written>>
        /\ bus' = Idle /\ ~element'.active /\ ~Pending'
        /\ intact' = (intact /\ bus.user \notin {"telemetry", "status", "tuning"})
    BY <1>5 DEF LeavePlayStation, Host, Reset, NoElement, Pending
  <2>2. Own' /\ IdleIsNobodys'
    BY <2>1 DEF SafeInv, Own, IdleIsNobodys, Idle
  <2>3. FlightIsDirty' /\ WriteArrived' /\ CleanMeansWritten'
    BY <2>1, TuningUntouched DEF Idle
  <2> QED
    BY <2>2, <2>3 DEF SafeInv
<1>6. CASE TelemetryDue
  <2>1. UNCHANGED <<bus, element, transfer, status, tuning, written, intact>>
        /\ telemetry'.phase = telemetry.phase
    BY <1>1, <1>6 DEF TelemetryDue, Host, TelemetryType
  <2> QED
    BY <2>1 DEF SafeInv, Own, IdleIsNobodys, Pending, FlightIsDirty, WriteArrived,
       CleanMeansWritten
<1>7. CASE StatusDue
  <2>1. UNCHANGED <<bus, element, transfer, telemetry, tuning, written, intact>>
        /\ status'.active = status.active
    BY <1>1, <1>7 DEF StatusDue, Host, StatusType
  <2> QED
    BY <2>1 DEF SafeInv, Own, IdleIsNobodys, Pending, FlightIsDirty, WriteArrived,
       CleanMeansWritten
<1>8. CASE NextPass
  BY <1>8 DEF NextPass, services, SafeInv, Own, IdleIsNobodys, Pending, FlightIsDirty,
     WriteArrived, CleanMeansWritten
<1> QED
  BY <1>2, <1>3, <1>4, <1>5, <1>6, <1>7, <1>8 DEF Hosts

LEMMA SafeStep == Typed /\ SafeInv /\ [Next]_vars => SafeInv'
<1> SUFFICES ASSUME Typed, SafeInv, [Next]_vars PROVE SafeInv'
  OBVIOUS
<1>1. CASE Next
  BY <1>1, NextByService, BusEndsSafe, ElementSafe, TransferSafe, ConsoleSafe, TelemetrySafe,
     StatusSafe, TuningSafe, HostSafe
<1>2. CASE UNCHANGED vars
  BY <1>2 DEF vars, services, SafeInv, Own, IdleIsNobodys, Pending, FlightIsDirty, WriteArrived,
     CleanMeansWritten
<1> QED
  BY <1>1, <1>2

LEMMA AlwaysSafe == Spec => []SafeInv
  BY InitType, InitSafe, TypeStep, SafeStep, PTL DEF Spec

\* As long as no reset has cut a transaction off, whoever waits for the bus has started its
\* transaction, for every number of parameters and every mixture of protocols and hosts.
THEOREM ResultsCorrect == Spec => []ResultsAreOwn
<1>1. SafeInv => ResultsAreOwn
  BY OwnIsResultsAreOwn DEF SafeInv
<1> QED
  BY <1>1, AlwaysSafe, PTL

\* As long as no reset has cut a transaction off, the motor has the desired value of every
\* parameter that is not dirty.
THEOREM CleanCorrect == Spec => []CleanMeansWritten
<1>1. SafeInv => CleanMeansWritten
  BY DEF SafeInv
<1> QED
  BY <1>1, AlwaysSafe, PTL
=============================================================================
