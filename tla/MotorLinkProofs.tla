--------------------------- MODULE MotorLinkProofs ---------------------------
(***************************************************************************)
(* The safety of the live link to the motor, for every capacity of the       *)
(* command queue, every limit of malformed frames and every set of           *)
(* environments.                                                           *)
(***************************************************************************)
EXTENDS MotorLink, SequenceTheorems, TLAPS

----------------------------------------------------------------------------
(* Frames *)

LEMMA EnvironmentType == TypeOK => /\ env \in Environment
                                   /\ env.commands \in 0 .. MaxEvents
                                   /\ env.commands \in Nat /\ env.changes \in Nat
                                   /\ env.faults \in Nat
  BY MotorLinkAssumption DEF TypeOK, Environment

LEMMA AcceptedBound == TypeOK => host.accepted \in Nat /\ host.accepted <= MaxEvents
<1> SUFFICES ASSUME TypeOK PROVE host.accepted \in Nat /\ host.accepted <= MaxEvents
  OBVIOUS
<1>1. host.accepted \in Nat /\ host.accepted <= env.commands
  BY DEF TypeOK, HostType
<1>2. env.commands \in 0 .. MaxEvents
  BY EnvironmentType
<1> QED
  BY <1>1, <1>2, MotorLinkAssumption

LEMMA FrameTypes == /\ \A kind \in {"blank", "fallback", "force", "status"} : Plain(kind) \in Frame
                    /\ \A on \in BOOLEAN : ForceFrame(on) \in Frame
                    /\ \A s \in Status, c \in 0 .. MaxEvents : StatusFrame(s, c) \in Frame
<1>1. 0 \in Status /\ 0 \in 0 .. MaxEvents
  BY MotorLinkAssumption DEF Status
<1>2. ASSUME NEW kind \in {"blank", "fallback", "force", "status"} PROVE Plain(kind) \in Frame
  BY <1>1 DEF Plain, Frame
<1>3. ASSUME NEW on \in BOOLEAN PROVE ForceFrame(on) \in Frame
  BY <1>2 DEF ForceFrame, Frame
<1>4. ASSUME NEW s \in Status, NEW c \in 0 .. MaxEvents PROVE StatusFrame(s, c) \in Frame
  BY <1>2 DEF StatusFrame, Frame
<1> QED
  BY <1>2, <1>3, <1>4

LEMMA InhibitedFrame == ASSUME NEW f \in Frame
                        PROVE  /\ Inhibited(f) \in Frame /\ ~Inhibited(f).primary
                               /\ Inhibited(f).command = f.command
  BY DEF Inhibited, Frame

LEMMA CommandNatural == ASSUME NEW f \in Frame PROVE f.command \in Nat
  BY MotorLinkAssumption DEF Frame

LEMMA BuiltFrame == TypeOK => /\ Built \in Frame
                              /\ Built.command = IF queue = << >> THEN 0 ELSE Head(queue)
                              /\ host.inhibited => ~Built.primary
<1> SUFFICES ASSUME TypeOK
             PROVE  /\ Built \in Frame
                    /\ Built.command = IF queue = << >> THEN 0 ELSE Head(queue)
                    /\ host.inhibited => ~Built.primary
  OBVIOUS
<1>1. host.status \in Status /\ host.inhibited \in BOOLEAN
  BY DEF TypeOK, HostType
<1>2. CASE queue # << >>
  <2>1. Head(queue) \in 1 .. host.accepted
    BY <1>2, HeadTailProperties DEF TypeOK
  <2>2. Head(queue) \in 0 .. MaxEvents
    BY <2>1, AcceptedBound, MotorLinkAssumption
  <2>3. Built = StatusFrame(host.status, Head(queue))
    BY <1>2 DEF Built, Popped
  <2> QED
    BY <1>1, <1>2, <2>2, <2>3, FrameTypes DEF StatusFrame, Plain
<1>3. CASE queue = << >> /\ host.status # previous
  <2>1. 0 \in 0 .. MaxEvents
    BY MotorLinkAssumption
  <2>2. Built = StatusFrame(host.status, 0)
    BY <1>3 DEF Built
  <2> QED
    BY <1>1, <1>3, <2>1, <2>2, FrameTypes DEF StatusFrame, Plain
<1>4. CASE queue = << >> /\ host.status = previous
  <2>1. Built = ForceFrame(~host.inhibited)
    BY <1>4 DEF Built
  <2> QED
    BY <1>1, <1>4, <2>1, FrameTypes DEF ForceFrame, Plain
<1> QED
  BY <1>2, <1>3, <1>4

LEMMA ReplayFrameType == TypeOK => /\ ReplayFrame \in Frame
                                   /\ ReplayFrame.command = ring[1].command
                                   /\ host.inhibited => ~ReplayFrame.primary
<1> SUFFICES ASSUME TypeOK
             PROVE  /\ ReplayFrame \in Frame
                    /\ ReplayFrame.command = ring[1].command
                    /\ host.inhibited => ~ReplayFrame.primary
  OBVIOUS
<1>1. ring[1] \in Frame
  BY DEF TypeOK
<1> QED
  BY <1>1, InhibitedFrame DEF ReplayFrame

----------------------------------------------------------------------------
(* Sequences *)

LEMMA Appended == ASSUME NEW S, NEW s \in Seq(S), NEW x \in S
                  PROVE  /\ Append(s, x) \in Seq(S) /\ Len(Append(s, x)) = Len(s) + 1
                         /\ Append(s, x) # << >>
                         /\ DOMAIN s = 1 .. Len(s)
                         /\ DOMAIN Append(s, x) = 1 .. Len(s) + 1
                         /\ \A i \in 1 .. Len(s) : Append(s, x)[i] = s[i]
                         /\ Append(s, x)[Len(s) + 1] = x
  BY AppendProperties

LEMMA AppliedElements == TypeOK => \A i \in DOMAIN applied : applied[i] \in Nat \ {0}
<1> SUFFICES ASSUME TypeOK, NEW i \in DOMAIN applied PROVE applied[i] \in Nat \ {0}
  OBVIOUS
<1>1. applied \in Seq(1 .. host.accepted) /\ host.accepted \in Nat
  BY DEF TypeOK, HostType
<1>2. i \in 1 .. Len(applied)
  BY <1>1
<1>3. applied[i] \in 1 .. host.accepted
  BY <1>1, <1>2, ElementOfSeq
<1> QED
  BY <1>1, <1>3

LEMMA QueuedType == ASSUME TypeOK, NEW report \in Report
                    PROVE  Queued(report) \in Seq(Report) /\ Len(Queued(report)) <= ReceiveCapacity
<1> DEFINE kept == IF Len(received) = ReceiveCapacity THEN Tail(received) ELSE received
<1>1. received \in Seq(Report) /\ Len(received) <= 2 /\ Len(received) \in Nat
  BY DEF TypeOK, ReceiveCapacity
<1>2. kept \in Seq(Report) /\ Len(kept) <= 1
  <2>1. CASE Len(received) = 2
    <3>1. received # << >>
      BY <2>1, EmptySeq
    <3>2. Tail(received) \in Seq(Report) /\ Len(Tail(received)) = 1
      BY <1>1, <2>1, <3>1, HeadTailProperties
    <3>3. kept = Tail(received)
      BY <2>1 DEF ReceiveCapacity
    <3> HIDE DEF kept
    <3> QED
      BY <3>2, <3>3
  <2>2. CASE Len(received) # 2
    <3>1. kept = received
      BY <2>2 DEF ReceiveCapacity
    <3>2. Len(received) <= 1
      <4> HIDE DEF kept
      <4>1. \A n \in Nat : n <= 2 /\ n # 2 => n <= 1
        OBVIOUS
      <4> QED
        BY <1>1, <2>2, <4>1
    <3> HIDE DEF kept
    <3> QED
      BY <1>1, <3>1, <3>2
  <2> QED
    BY <2>1, <2>2
<1>3. Queued(report) = Append(kept, report)
  BY DEF Queued
<1> HIDE DEF kept
<1>4. Append(kept, report) \in Seq(Report) /\ Len(Append(kept, report)) = Len(kept) + 1
  BY <1>2, Appended
<1> QED
  BY <1>2, <1>3, <1>4 DEF ReceiveCapacity

----------------------------------------------------------------------------
(* The invariant *)

\* The newest command that a frame was built for.
Newest == host.accepted - Len(queue)

\* The commands that wait are the ones behind the newest.
QueueOrder == Newest \in Nat /\ \A i \in 1 .. Len(queue) : queue[i] = Newest + i

\* The frame built last carries the newest command or none, the one before it at worst the one
\* before.
RingOrder == /\ ring[2].command \in {0, Newest}
             /\ ring[1].command <= Newest
             /\ ring[1].command = 0 \/ Newest <= ring[1].command + 1

\* c, a command or none, may come after all that has been applied.
MayFollow(c) == c = 0 \/ \A i \in DOMAIN applied : applied[i] <= c + 1

\* Nothing is newer than the newest, and the frames on their way may be applied in turn.
FlightOrder == /\ \A i \in DOMAIN applied : applied[i] <= Newest
               /\ sending.command <= Newest /\ next.command <= Newest
               /\ MayFollow(sending.command) /\ MayFollow(next.command)
               /\ next.command = 0 \/ sending.command <= next.command + 1

Orders == QueueOrder /\ RingOrder /\ FlightOrder /\ ReplayOrder

\* With a prompt main loop at most one report waits, and once an exchange has passed since the base
\* became inhibited and has been answered, the frame to load next has no live force.
PromptLoop == env.prompt => /\ received = << >> \/ (taken = NoReport /\ Len(received) = 1)
                            /\ host.inhibited /\ waited >= 1 /\ received = << >> /\ taken = NoReport
                                  => ~next.primary

IInv == TypeOK /\ Orders /\ PromptLoop /\ NoLiveForceOnceInhibited

LEMMA InitInv == Init => IInv
<1> SUFFICES ASSUME Init PROVE IInv
  OBVIOUS
<1>1. Blank \in Frame /\ Fallback \in Frame
  BY FrameTypes DEF Blank, Fallback
<1>2. /\ Blank.command = 0 /\ Fallback.command = 0 /\ ~Blank.primary
      /\ ring[1] = Fallback /\ ring[2] = Fallback
  BY DEF Init, Blank, Fallback, Plain
<1>3. /\ << >> \in Seq(1 .. 0) /\ << >> \in Seq(Report) /\ Len(<< >>) = 0
      /\ DOMAIN << >> = {}
  BY EmptySeq
<1>4. env \in Environment
  BY MotorLinkAssumption DEF Init
<1>5. 0 <= env.commands /\ 0 \in 0 .. env.faults /\ 0 \in 0 .. env.changes
  BY <1>4, MotorLinkAssumption DEF Environment
<1>6. ring \in [1 .. 2 -> Frame]
  BY <1>1 DEF Init
<1>7. TypeOK
  <2>1. host \in HostType /\ host.accepted = 0 /\ motor \in MotorType
    BY DEF Init, HostType, MotorType, Status
  <2>2. queue \in Seq(1 .. host.accepted) /\ applied \in Seq(1 .. host.accepted)
        /\ Len(queue) <= QueueCapacity
    BY <1>3, <2>1, MotorLinkAssumption DEF Init
  <2>3. received \in Seq(Report) /\ Len(received) <= ReceiveCapacity
    BY <1>3 DEF Init, ReceiveCapacity
  <2>4. malformed \in 0 .. MalformedLimit /\ waited \in 0 .. 2
    BY MotorLinkAssumption DEF Init
  <2> QED
    BY <1>1, <1>5, <1>6, <2>1, <2>2, <2>3, <2>4 DEF Init, TypeOK
<1>8. Newest = 0
  BY <1>3 DEF Init, Newest
<1>9. Orders
  BY <1>2, <1>3, <1>8
     DEF Init, Orders, QueueOrder, RingOrder, FlightOrder, ReplayOrder, MayFollow
<1> QED
  BY <1>2, <1>7, <1>9 DEF Init, IInv, PromptLoop, NoLiveForceOnceInhibited

----------------------------------------------------------------------------
(* The rest of the main loop *)

\* What the link has when the rest of the main loop runs.
LEMMA AcceptInv == IInv /\ AcceptCommand => IInv'
<1> SUFFICES ASSUME IInv, AcceptCommand PROVE IInv'
  OBVIOUS
<1> DEFINE c == host.accepted + 1
<1>1. /\ host.accepted \in Nat /\ host \in HostType /\ TypeOK
      /\ queue \in Seq(1 .. host.accepted) /\ applied \in Seq(1 .. host.accepted)
      /\ Len(queue) \in Nat /\ Len(applied) \in Nat
  BY DEF IInv, TypeOK, HostType
<1>2. /\ host' = [host EXCEPT !.accepted = c] /\ queue' = Append(queue, c)
      /\ host.accepted < env.commands /\ Len(queue) < QueueCapacity
      /\ UNCHANGED <<previous, ring, next, sending, received, taken, malformed, motor, aligned,
                     applied, repeated, waited, env, faults, changes>>
  BY <1>1 DEF AcceptCommand, spi, history, bounds, HostType
<1>3. /\ host' \in HostType /\ host'.accepted = c /\ host'.inhibited = host.inhibited
      /\ c <= env.commands
  <2>1. c <= env.commands
    BY <1>1, <1>2, EnvironmentType
  <2>2. c \in Nat
    BY <1>1
  <2> HIDE DEF c
  <2> QED
    BY <1>1, <1>2, <2>1, <2>2 DEF HostType
<1>4. 1 .. host.accepted \subseteq 1 .. c /\ c \in 1 .. c
  BY <1>1
<1>5. queue \in Seq(1 .. c) /\ applied \in Seq(1 .. c)
  BY <1>1, <1>4, SeqMonotonic
<1> HIDE DEF c
<1>6. /\ queue' \in Seq(1 .. c) /\ Len(queue') = Len(queue) + 1
      /\ \A i \in 1 .. Len(queue) : queue'[i] = queue[i]
      /\ queue'[Len(queue) + 1] = c
  BY <1>2, <1>4, <1>5, Appended
<1>7. TypeOK'
  <2>1. Len(queue') <= QueueCapacity
    BY <1>1, <1>2, <1>6, MotorLinkAssumption
  <2> QED
    BY <1>1, <1>2, <1>3, <1>5, <1>6, <2>1 DEF TypeOK
<1>8. Newest' = Newest
  BY <1>1, <1>3, <1>6 DEF Newest, c
<1>9. QueueOrder'
  <2>1. c = Newest + (Len(queue) + 1)
    BY <1>1 DEF Newest, c
  <2>2. ASSUME NEW i \in 1 .. Len(queue) + 1 PROVE queue'[i] = Newest + i
    <3>1. CASE i = Len(queue) + 1
      BY <1>6, <2>1, <3>1
    <3>2. CASE i # Len(queue) + 1
      <4>1. i \in 1 .. Len(queue)
        BY <1>1, <3>2
      <4> QED
        BY <1>6, <4>1 DEF IInv, Orders, QueueOrder
    <3> QED
      BY <3>1, <3>2
  <2>3. Newest \in Nat
    BY DEF IInv, Orders, QueueOrder
  <2> QED
    BY <1>6, <1>8, <2>2, <2>3 DEF QueueOrder
<1>10. RingOrder' /\ FlightOrder' /\ ReplayOrder'
  BY <1>2, <1>8 DEF IInv, Orders, RingOrder, FlightOrder, MayFollow, ReplayOrder
<1>11. PromptLoop' /\ NoLiveForceOnceInhibited'
  BY <1>2, <1>3 DEF IInv, PromptLoop, NoLiveForceOnceInhibited
<1> QED
  BY <1>7, <1>9, <1>10, <1>11 DEF IInv, Orders

LEMMA SameOrders == ASSUME Orders, UNCHANGED <<queue, ring, next, sending, applied>>,
                           host'.accepted = host.accepted
                    PROVE  Orders'
  BY DEF Orders, QueueOrder, RingOrder, FlightOrder, MayFollow, ReplayOrder, Newest

LEMMA ChangeInv == IInv /\ (ChangeStatus \/ ChangeInhibition) => IInv'
<1> SUFFICES ASSUME IInv, ChangeStatus \/ ChangeInhibition PROVE IInv'
  OBVIOUS
<1>1. /\ UNCHANGED <<queue, previous, ring, next, sending, received, taken, malformed, motor,
                     aligned, applied, repeated, env, faults>>
      /\ changes < env.changes /\ changes' = changes + 1
  BY DEF ChangeStatus, ChangeInhibition, Changes, transport, spi, history
<1>2. TypeOK /\ host \in HostType /\ changes \in 0 .. env.changes
  BY DEF IInv, TypeOK
<1>3. changes' \in 0 .. env.changes
  BY <1>1, <1>2, EnvironmentType
<1>4. /\ host' \in HostType /\ host'.accepted = host.accepted
      /\ waited' = 0 \/ (waited' = waited /\ host'.inhibited = host.inhibited)
  <2>1. CASE ChangeStatus
    <3>1. 1 - host.status \in Status
      BY <1>2 DEF HostType, Status
    <3> QED
      BY <1>2, <2>1, <3>1 DEF ChangeStatus, HostType
  <2>2. CASE ChangeInhibition
    BY <1>2, <2>2 DEF ChangeInhibition, HostType
  <2> QED
    BY <2>1, <2>2
<1>5. TypeOK'
  BY <1>1, <1>2, <1>3, <1>4 DEF TypeOK
<1>6. Orders'
  BY <1>1, <1>4, SameOrders DEF IInv
<1>7. PromptLoop' /\ NoLiveForceOnceInhibited'
  BY <1>1, <1>4 DEF IInv, PromptLoop, NoLiveForceOnceInhibited
<1> QED
  BY <1>5, <1>6, <1>7 DEF IInv

----------------------------------------------------------------------------
(* service_motor_link *)

LEMMA TakeInv == IInv /\ Take => IInv'
<1> SUFFICES ASSUME IInv, Take PROVE IInv'
  OBVIOUS
<1>1. /\ taken = NoReport /\ received # << >> /\ taken' = Head(received)
      /\ received' = Tail(received)
      /\ UNCHANGED <<host, queue, previous, ring, next, sending, malformed, motor, aligned,
                     applied, repeated, waited, env, faults, changes>>
  BY DEF Take, transport, history, bounds
<1>2. TypeOK /\ received \in Seq(Report) /\ Len(received) <= ReceiveCapacity
  BY DEF IInv, TypeOK
<1>3. /\ taken' \in Report /\ received' \in Seq(Report) /\ Len(received') = Len(received) - 1
      /\ Len(received) \in Nat
  BY <1>1, <1>2, HeadTailProperties
<1>4. TypeOK'
  BY <1>1, <1>2, <1>3 DEF TypeOK, ReceiveCapacity
<1>5. Orders'
  BY <1>1, SameOrders DEF IInv
<1>6. taken' # NoReport
  BY <1>3 DEF Report, NoReport
<1>7. Len(received) = 1 => received' = << >>
  BY <1>3, EmptySeq
<1>8. PromptLoop' /\ NoLiveForceOnceInhibited'
  BY <1>1, <1>6, <1>7 DEF IInv, PromptLoop, NoLiveForceOnceInhibited
<1> QED
  BY <1>4, <1>5, <1>8 DEF IInv

LEMMA ReplayInv == IInv /\ AnswerReplay => IInv'
<1> SUFFICES ASSUME IInv, AnswerReplay PROVE IInv'
  OBVIOUS
<1>1. /\ taken # NoReport /\ next' = ReplayFrame /\ taken' = NoReport
      /\ malformed' = MalformedNow /\ taken.quality = "valid"
      /\ UNCHANGED <<host, queue, previous, ring, sending, received, motor, aligned,
                     applied, repeated, waited, env, faults, changes>>
  BY DEF AnswerReplay, RequestsReplay, transport, history, bounds
<1>2. /\ next' \in Frame /\ next'.command = ring[1].command
      /\ host.inhibited => ~next'.primary
  BY <1>1, ReplayFrameType DEF IInv
<1>3. malformed' = 0
  BY <1>1 DEF MalformedNow
<1>4. TypeOK'
  BY <1>1, <1>2, <1>3, MotorLinkAssumption DEF IInv, TypeOK
<1>5. /\ Newest' = Newest /\ Newest \in Nat /\ next'.command \in Nat /\ sending.command \in Nat
      /\ next'.command <= Newest /\ (next'.command = 0 \/ Newest <= next'.command + 1)
      /\ sending.command <= Newest
  BY <1>1, <1>2, CommandNatural
     DEF IInv, TypeOK, Orders, QueueOrder, RingOrder, FlightOrder, Newest
<1>6. \A i \in DOMAIN applied : applied[i] \in Nat /\ applied[i] <= Newest
  <2>1. ASSUME NEW i \in DOMAIN applied PROVE applied[i] \in Nat /\ applied[i] <= Newest
    BY AppliedElements DEF IInv, Orders, FlightOrder
  <2> QED
    BY <2>1
<1>7. FlightOrder'
  <2>1. next'.command = 0 \/ sending.command <= next'.command + 1
    BY <1>5
  <2>2. next'.command = 0 \/ \A i \in DOMAIN applied : applied[i] <= next'.command + 1
    BY <1>5, <1>6
  <2> QED
    BY <1>1, <1>5, <2>1, <2>2 DEF IInv, Orders, FlightOrder, MayFollow
<1>8. Orders'
  BY <1>1, <1>5, <1>7 DEF IInv, Orders, QueueOrder, RingOrder, ReplayOrder
<1>9. PromptLoop' /\ NoLiveForceOnceInhibited'
  BY <1>1, <1>2 DEF IInv, PromptLoop, NoLiveForceOnceInhibited
<1> QED
  BY <1>4, <1>8, <1>9 DEF IInv

\* A frame that is built carries the command behind the newest, if one waits.
LEMMA BuiltOrder ==
    ASSUME IInv, queue' = IF queue = << >> THEN queue ELSE Tail(queue),
           host'.accepted = host.accepted
    PROVE  /\ queue' \in Seq(1 .. host.accepted) /\ Len(queue') <= QueueCapacity
           /\ QueueOrder' /\ Newest \in Nat
           /\ Newest' = IF queue = << >> THEN Newest ELSE Newest + 1
           /\ Built.command \in {0, Newest'}
           /\ queue # << >> => Built.command = Newest'
<1>1. /\ queue \in Seq(1 .. host.accepted) /\ host.accepted \in Nat /\ Len(queue) \in Nat
      /\ Len(queue) <= QueueCapacity /\ QueueOrder
  BY DEF IInv, TypeOK, HostType, Orders
<1>2. Built.command = IF queue = << >> THEN 0 ELSE Head(queue)
  BY BuiltFrame DEF IInv
<1>3. CASE queue = << >>
  BY <1>1, <1>2, <1>3 DEF QueueOrder, Newest
<1>4. CASE queue # << >>
  <2>1. /\ queue' \in Seq(1 .. host.accepted) /\ Len(queue') = Len(queue) - 1
        /\ \A i \in 1 .. Len(queue') : queue'[i] = queue[i + 1]
    BY <1>1, <1>4, HeadTailProperties
  <2>2. Len(queue) \in Nat \ {0}
    BY <1>1, <1>4, EmptySeq
  <2>3. Newest \in Nat /\ Newest' = Newest + 1
    BY <1>1, <2>1, <2>2 DEF Newest, QueueOrder
  <2>4. Head(queue) = Newest + 1
    <3>1. Head(queue) = queue[1] /\ 1 \in 1 .. Len(queue)
      BY <1>1, <1>4, <2>2
    <3> QED
      BY <1>1, <3>1 DEF QueueOrder
  <2>5. ASSUME NEW i \in 1 .. Len(queue') PROVE queue'[i] = Newest' + i
    <3>1. i + 1 \in 1 .. Len(queue)
      BY <2>1, <2>2
    <3> QED
      BY <1>1, <2>1, <2>3, <3>1 DEF QueueOrder
  <2>6. QueueOrder'
    <3>1. Newest' \in Nat
      BY <2>3
    <3> QED
      BY <2>5, <3>1 DEF QueueOrder
  <2> QED
    BY <1>1, <1>2, <1>4, <2>1, <2>2, <2>3, <2>4, <2>6, MotorLinkAssumption
<1> QED
  BY <1>3, <1>4

LEMMA BuildInv == IInv /\ AnswerBuild => IInv'
<1> SUFFICES ASSUME IInv, AnswerBuild PROVE IInv'
  OBVIOUS
<1>1. /\ taken # NoReport /\ taken' = NoReport /\ next' = Built
      /\ queue' = IF queue = << >> THEN queue ELSE Tail(queue)
      /\ previous' = host.status /\ ring' = <<ring[2], Built>>
      /\ UNCHANGED <<host, motor, applied, repeated, waited, env, faults, changes>>
  BY DEF AnswerBuild, Popped, Remembered, history, bounds
<1>2. \/ malformed' = 0 /\ sending' = Built /\ received' = << >> /\ aligned' = TRUE
      \/ /\ ~Restarts(MalformedNow) /\ malformed' = MalformedNow
         /\ UNCHANGED <<sending, received, aligned>>
  BY DEF AnswerBuild, LinkInit
<1>3. /\ TypeOK /\ Built \in Frame /\ (host.inhibited => ~Built.primary)
      /\ Built.command \in Nat /\ sending.command \in Nat /\ ring[2] \in Frame
  BY BuiltFrame, CommandNatural DEF IInv, TypeOK
<1>4. /\ queue' \in Seq(1 .. host.accepted) /\ Len(queue') <= QueueCapacity
      /\ QueueOrder' /\ Newest \in Nat
      /\ Newest' = IF queue = << >> THEN Newest ELSE Newest + 1
      /\ Built.command \in {0, Newest'}
      /\ queue # << >> => Built.command = Newest'
  BY <1>1, BuiltOrder
<1>5. TypeOK'
  <2>1. malformed' \in 0 .. MalformedLimit
    <3>1. malformed \in 0 .. MalformedLimit
      BY <1>3 DEF TypeOK
    <3>2. MalformedNow \in Nat
      BY <3>1, MotorLinkAssumption DEF MalformedNow
    <3> QED
      BY <1>2, <3>2, MotorLinkAssumption DEF Restarts
  <2>2. ring' \in [1 .. 2 -> Frame]
    BY <1>1, <1>3
  <2>3. received' \in Seq(Report) /\ Len(received') <= ReceiveCapacity
    <3>1. << >> \in Seq(Report) /\ Len(<< >>) = 0
      BY EmptySeq
    <3>2. received \in Seq(Report) /\ Len(received) <= ReceiveCapacity
      BY <1>3 DEF TypeOK
    <3>3. received' = << >> \/ received' = received
      BY <1>2
    <3>4. CASE received' = << >>
      <4>1. Len(received') = 0
        BY <3>1, <3>4
      <4> QED
        BY <3>1, <3>4, <4>1 DEF ReceiveCapacity
    <3>5. CASE received' = received
      BY <3>2, <3>5
    <3> QED
      BY <3>3, <3>4, <3>5
  <2>4. sending' \in Frame /\ aligned' \in BOOLEAN
    BY <1>2, <1>3 DEF TypeOK
  <2>5. previous' \in Status \cup {NoneSent}
    BY <1>1, <1>3 DEF TypeOK, HostType
  <2> QED
    BY <1>1, <1>3, <1>4, <2>1, <2>2, <2>3, <2>4, <2>5 DEF TypeOK
<1>6. Newest' \in Nat /\ Newest <= Newest' /\ Newest' <= Newest + 1
  BY <1>4
<1>7. RingOrder'
  <2>1. ring'[1] = ring[2] /\ ring'[2] = Built
    BY <1>1
  <2>2. ring[2].command \in {0, Newest}
    BY DEF IInv, Orders, RingOrder
  <2> QED
    BY <1>4, <1>6, <2>1, <2>2 DEF RingOrder
<1>8. \A i \in DOMAIN applied : applied[i] \in Nat /\ applied[i] <= Newest
  <2>1. ASSUME NEW i \in DOMAIN applied PROVE applied[i] \in Nat /\ applied[i] <= Newest
    BY AppliedElements DEF IInv, Orders, FlightOrder
  <2> QED
    BY <2>1
<1>9. Built.command = 0 \/ \A i \in DOMAIN applied : applied[i] <= Built.command + 1
  BY <1>4, <1>6, <1>8
<1>10. sending' = Built \/ sending' = sending
  BY <1>2
<1>11. /\ sending.command <= Newest /\ MayFollow(sending.command)
  BY DEF IInv, Orders, FlightOrder
<1>12. FlightOrder'
  <2>1. ASSUME NEW i \in DOMAIN applied PROVE applied[i] <= Newest'
    <3>1. applied[i] \in Nat /\ applied[i] <= Newest
      BY <1>8
    <3> QED
      BY <1>4, <1>6, <3>1
  <2>2. Built.command <= Newest' /\ sending.command <= Newest'
    BY <1>3, <1>4, <1>6, <1>11
  <2>3. Built.command = 0 \/ (sending.command <= Built.command + 1)
    BY <1>3, <1>4, <1>6, <1>11
  <2>4. sending'.command <= Newest' /\ (Built.command = 0 \/ sending'.command <= Built.command + 1)
    BY <1>3, <1>10, <2>2, <2>3
  <2>5. sending'.command = 0 \/ \A i \in DOMAIN applied : applied[i] <= sending'.command + 1
    BY <1>9, <1>10, <1>11 DEF MayFollow
  <2> QED
    BY <1>1, <1>9, <2>1, <2>2, <2>4, <2>5 DEF FlightOrder, MayFollow
<1>13. Orders'
  BY <1>1, <1>4, <1>7, <1>12 DEF IInv, Orders, ReplayOrder
<1>14. PromptLoop' /\ NoLiveForceOnceInhibited'
  BY <1>1, <1>2, <1>3 DEF IInv, PromptLoop, NoLiveForceOnceInhibited
<1> QED
  BY <1>5, <1>13, <1>14 DEF IInv

----------------------------------------------------------------------------
(* Exchanges *)

LEMMA NoteOrder ==
    ASSUME TypeOK, ReplayOrder, NEW c \in 1 .. host.accepted, MayFollow(c), Note(c)
    PROVE  /\ applied' \in Seq(1 .. host.accepted) /\ repeated' \in BOOLEAN
           /\ ReplayOrder'
           /\ \A i \in DOMAIN applied' : applied'[i] = c \/ \E j \in DOMAIN applied : applied'[i] = applied[j]
<1>1. /\ applied \in Seq(1 .. host.accepted) /\ repeated \in BOOLEAN /\ Len(applied) \in Nat
      /\ host.accepted \in Nat
  BY DEF TypeOK, HostType
<1>2. CASE applied' = applied
  BY <1>1, <1>2 DEF ReplayOrder, Note, history
<1>3. CASE applied' = Append(applied, c) /\ repeated' = repeated
  <2>1. /\ applied' \in Seq(1 .. host.accepted)
        /\ DOMAIN applied = 1 .. Len(applied)
        /\ DOMAIN applied' = 1 .. Len(applied) + 1
        /\ \A i \in 1 .. Len(applied) : applied'[i] = applied[i]
        /\ applied'[Len(applied) + 1] = c
    BY <1>1, <1>3, Appended
  <2>2. \A i \in DOMAIN applied : applied[i] <= c + 1
    BY DEF MayFollow
  <2>3. ASSUME NEW i \in DOMAIN applied', NEW j \in DOMAIN applied', i < j
        PROVE  applied'[i] <= applied'[j] + 1
    <3>1. i \in 1 .. Len(applied) /\ (j \in 1 .. Len(applied) \/ j = Len(applied) + 1)
      BY <1>1, <2>1, <2>3
    <3> QED
      BY <2>1, <2>2, <2>3, <3>1 DEF ReplayOrder
  <2>4. ASSUME NEW i \in DOMAIN applied'
        PROVE  applied'[i] = c \/ \E j \in DOMAIN applied : applied'[i] = applied[j]
    <3>1. i \in 1 .. Len(applied) \/ i = Len(applied) + 1
      BY <1>1, <2>1
    <3> QED
      BY <2>1, <3>1
  <2> QED
    BY <1>1, <1>3, <2>1, <2>3, <2>4 DEF ReplayOrder
<1> QED
  BY <1>1, <1>2, <1>3 DEF Note, history

LEMMA AppliedMotor == ASSUME NEW m \in MotorType, NEW f \in Frame
                      PROVE  Applied(m, f) \in MotorType
<1>1. f.status \in Status /\ f.primary \in BOOLEAN
  BY DEF Frame
<1>2. [m EXCEPT !.drive = f.primary] \in MotorType /\ [m EXCEPT !.status = f.status] \in MotorType
  BY <1>1 DEF MotorType
<1> QED
  BY <1>2 DEF Applied
\* An exchange adds one report, of a frame the motor had prepared.
LEMMA ExchangeType ==
    ASSUME TypeOK, NEW intact \in BOOLEAN, NEW quality \in {"valid", "checksum", "boundary"},
           Exchange(intact, quality)
    PROVE  /\ received' \in Seq(Report) /\ Len(received') <= ReceiveCapacity
           /\ received = << >> => Len(received') = 1
           /\ sending' \in Frame /\ motor' \in MotorType /\ waited' \in 0 .. 2
<1>1. /\ received' = Queued(MotorReport(quality)) /\ sending' = next
      /\ waited' = IF waited < 2 THEN waited + 1 ELSE 2
      /\ MotorReceives(intact)
  BY DEF Exchange
<1>2. motor \in MotorType /\ sending \in Frame /\ next \in Frame /\ waited \in 0 .. 2
      /\ aligned \in BOOLEAN
  BY DEF TypeOK
<1>3. MotorReport(quality) \in Report
  <2>1. motor.replay \in BOOLEAN
    BY <1>2 DEF MotorType
  <2> QED
    BY <2>1 DEF MotorReport, Report
<1>4. Queued(MotorReport(quality)) \in Seq(Report)
      /\ Len(Queued(MotorReport(quality))) <= ReceiveCapacity
  BY <1>3, QueuedType
<1>5. received = << >> => Len(received') = 1
  <2> SUFFICES ASSUME received = << >> PROVE Len(received') = 1
    OBVIOUS
  <2>1. << >> \in Seq(Report) /\ Len(<< >>) = 0
    BY EmptySeq
  <2>2. Queued(MotorReport(quality)) = Append(<< >>, MotorReport(quality))
    BY <2>1 DEF Queued, ReceiveCapacity
  <2>3. Len(Append(<< >>, MotorReport(quality))) = 1
    BY <1>3, <2>1, Appended
  <2> QED
    BY <1>1, <2>2, <2>3
<1>6. motor' \in MotorType
  <2>1. [motor EXCEPT !.replay = TRUE] \in MotorType
    BY <1>2 DEF MotorType
  <2>2. \A m \in MotorType : [m EXCEPT !.replay = FALSE] \in MotorType
    BY DEF MotorType
  <2>3. [Applied(motor, sending) EXCEPT !.replay = FALSE] \in MotorType
    BY <1>2, <2>2, AppliedMotor
  <2> QED
    BY <1>1, <2>1, <2>3 DEF MotorReceives
<1>7. waited' \in 0 .. 2
  BY <1>1, <1>2
<1> QED
  BY <1>1, <1>2, <1>4, <1>5, <1>6, <1>7

\* The motor applies nothing, or the command of the frame that was sent.
LEMMA MotorReceivesOrder ==
    ASSUME TypeOK, Orders, NEW intact \in BOOLEAN, MotorReceives(intact)
    PROVE  /\ applied' \in Seq(1 .. host.accepted) /\ repeated' \in BOOLEAN
           /\ ReplayOrder'
           /\ \A i \in DOMAIN applied' :
                 \/ sending.command # 0 /\ applied'[i] = sending.command
                 \/ \E j \in DOMAIN applied : applied'[i] = applied[j]
<1> DEFINE c == sending.command
<1>1. /\ applied \in Seq(1 .. host.accepted) /\ repeated \in BOOLEAN
      /\ sending \in Frame /\ host.accepted \in Nat /\ Len(queue) \in Nat
  BY DEF TypeOK, HostType
<1>2. c \in Nat /\ c <= host.accepted
  <2>1. c \in Nat /\ c <= Newest /\ Newest \in Nat
    BY <1>1, CommandNatural DEF Orders, FlightOrder, QueueOrder
  <2>2. Newest <= host.accepted
    BY <1>1 DEF Newest
  <2> QED
    BY <1>1, <2>1, <2>2
<1>3. CASE applied' = applied /\ repeated' = repeated
  BY <1>1, <1>3 DEF Orders, ReplayOrder
<1>4. CASE c # 0 /\ Note(c)
  <2>1. c \in 1 .. host.accepted /\ MayFollow(c) /\ ReplayOrder
    BY <1>1, <1>2, <1>4 DEF Orders, FlightOrder
  <2> HIDE DEF c
  <2>2. /\ applied' \in Seq(1 .. host.accepted) /\ repeated' \in BOOLEAN /\ ReplayOrder'
        /\ \A i \in DOMAIN applied' :
              applied'[i] = c \/ \E j \in DOMAIN applied : applied'[i] = applied[j]
    BY <1>4, <2>1, NoteOrder
  <2> QED
    BY <1>4, <2>2 DEF c
<1> QED
  BY <1>3, <1>4 DEF MotorReceives, Note, history

\* What an exchange keeps, whatever it damages.
LEMMA ExchangeInv ==
    ASSUME IInv, NEW intact \in BOOLEAN, NEW quality \in {"valid", "checksum", "boundary"},
           Exchange(intact, quality), faults' \in 0 .. env.faults
    PROVE  IInv'
<1>1. /\ UNCHANGED <<host, queue, previous, ring, next, taken, malformed, aligned, env, changes>>
      /\ env.prompt => received = << >> /\ taken = NoReport
      /\ sending' = next /\ MotorReceives(intact)
      /\ waited' = IF waited < 2 THEN waited + 1 ELSE 2
  BY DEF Exchange, transport
<1>2. TypeOK /\ Orders /\ waited \in 0 .. 2
  BY DEF IInv, TypeOK
<1>3. /\ received' \in Seq(Report) /\ Len(received') <= ReceiveCapacity
      /\ received = << >> => Len(received') = 1
      /\ sending' \in Frame /\ motor' \in MotorType /\ waited' \in 0 .. 2
  BY <1>2, ExchangeType
<1>4. /\ applied' \in Seq(1 .. host.accepted) /\ repeated' \in BOOLEAN
      /\ ReplayOrder'
      /\ \A i \in DOMAIN applied' :
            \/ sending.command # 0 /\ applied'[i] = sending.command
            \/ \E j \in DOMAIN applied : applied'[i] = applied[j]
  BY <1>1, <1>2, MotorReceivesOrder
<1>5. TypeOK'
  BY <1>1, <1>2, <1>3, <1>4 DEF TypeOK
<1>6. Newest' = Newest
  BY <1>1 DEF Newest
<1>7. /\ sending.command <= Newest /\ next.command <= Newest
      /\ MayFollow(next.command)
      /\ next.command = 0 \/ sending.command <= next.command + 1
      /\ \A i \in DOMAIN applied : applied[i] <= Newest
      /\ next.command \in Nat
  BY <1>2, CommandNatural DEF TypeOK, Orders, FlightOrder
<1>8. \A i \in DOMAIN applied' : applied'[i] <= Newest
  BY <1>4, <1>7
<1>9. next.command = 0 \/ \A i \in DOMAIN applied' : applied'[i] <= next.command + 1
  BY <1>4, <1>7 DEF MayFollow
<1>10. next.command <= next.command + 1
  BY <1>7
<1>11. Orders'
  <2>1. QueueOrder' /\ RingOrder'
    BY <1>1, <1>2, <1>6 DEF Orders, QueueOrder, RingOrder
  <2>2. FlightOrder'
    BY <1>1, <1>6, <1>7, <1>8, <1>9, <1>10 DEF FlightOrder, MayFollow
  <2> QED
    BY <1>4, <2>1, <2>2 DEF Orders
<1>12. PromptLoop'
  <2>1. Len(received') = 1 => received' # << >>
    <3>1. Len(<< >>) = 0
      BY EmptySeq
    <3> QED
      BY <3>1
  <2> QED
    BY <1>1, <1>3, <2>1 DEF PromptLoop
<1>13. NoLiveForceOnceInhibited'
  <2> SUFFICES ASSUME env.prompt, host.inhibited, waited' = 2 PROVE ~next.primary
    BY <1>1 DEF NoLiveForceOnceInhibited
  <2>1. waited >= 1
    BY <1>1, <1>2
  <2> QED
    BY <1>1, <2>1 DEF IInv, PromptLoop
<1> QED
  BY <1>5, <1>11, <1>12, <1>13 DEF IInv

LEMMA FaultyType == TypeOK /\ Faulty => faults' \in 0 .. env.faults
<1> SUFFICES ASSUME TypeOK, Faulty PROVE faults' \in 0 .. env.faults
  OBVIOUS
<1>1. faults \in 0 .. env.faults /\ faults < env.faults /\ faults' = faults + 1
  BY DEF TypeOK, Faulty
<1> QED
  BY <1>1, EnvironmentType

LEMMA CleanInv == IInv /\ CleanExchange => IInv'
<1> SUFFICES ASSUME IInv, CleanExchange PROVE IInv'
  OBVIOUS
<1>1. faults' \in 0 .. env.faults /\ Exchange(TRUE, "valid")
  BY DEF IInv, TypeOK, CleanExchange
<1> QED
  BY <1>1, ExchangeInv

LEMMA DamageInv == IInv /\ (DamagedToMotor \/ DamagedToBase) => IInv'
<1>1. ASSUME IInv, DamagedToMotor PROVE IInv'
  <2>1. Faulty /\ Exchange(FALSE, "valid")
    BY <1>1 DEF DamagedToMotor
  <2>2. faults' \in 0 .. env.faults
    BY <1>1, <2>1, FaultyType DEF IInv
  <2> QED
    BY <1>1, <2>1, <2>2, ExchangeInv
<1>2. ASSUME IInv, DamagedToBase PROVE IInv'
  <2>1. PICK q \in env.damage : Exchange(TRUE, q)
    BY <1>2 DEF DamagedToBase
  <2>2. q \in {"valid", "checksum", "boundary"}
    BY <1>2, <2>1, EnvironmentType DEF IInv, Environment
  <2>3. faults' \in 0 .. env.faults
    BY <1>2, FaultyType DEF IInv, DamagedToBase
  <2> QED
    BY <1>2, <2>1, <2>2, <2>3, ExchangeInv
<1> QED
  BY <1>1, <1>2

LEMMA SlipInv == IInv /\ Slip => IInv'
<1> SUFFICES ASSUME IInv, Slip PROVE IInv'
  OBVIOUS
<1>1. /\ aligned' = FALSE
      /\ UNCHANGED <<host, queue, previous, ring, next, sending, received, taken, malformed,
                     motor, applied, repeated, waited, env, changes>>
  BY DEF Slip, transport, spi, history
<1>2. faults' \in 0 .. env.faults
  BY FaultyType DEF IInv, Slip
<1>3. TypeOK'
  BY <1>1, <1>2 DEF IInv, TypeOK
<1>4. Orders'
  BY <1>1, SameOrders DEF IInv
<1> QED
  BY <1>1, <1>3, <1>4 DEF IInv, PromptLoop, NoLiveForceOnceInhibited

----------------------------------------------------------------------------
(* Every step *)

LEMMA InvStep == IInv /\ [Next]_vars => IInv'
<1>1. ASSUME IInv, UNCHANGED vars PROVE IInv'
  <2>1. UNCHANGED <<host, queue, previous, ring, next, sending, received, taken, malformed, motor,
                    aligned, applied, repeated, waited, env, faults, changes>>
    BY <1>1 DEF vars, transport, spi, history, bounds
  <2>2. TypeOK'
    BY <1>1, <2>1 DEF IInv, TypeOK
  <2>3. Orders'
    BY <1>1, <2>1, SameOrders DEF IInv
  <2> QED
    BY <1>1, <2>1, <2>2, <2>3 DEF IInv, PromptLoop, NoLiveForceOnceInhibited
<1> QED
  BY <1>1, AcceptInv, ChangeInv, TakeInv, ReplayInv, BuildInv, CleanInv, DamageInv, SlipInv DEF Next

LEMMA Invariance == Spec => []IInv
  BY InitInv, InvStep, PTL DEF Spec

----------------------------------------------------------------------------
(* The order of commands on a clean line *)

\* Nothing has been damaged: the line is aligned and every report is valid.
Sound == /\ aligned /\ malformed = 0
         /\ taken # NoReport => taken.quality = "valid"
         /\ \A i \in 1 .. Len(received) : received[i].quality = "valid"

\* The frame of the next exchange is the zeroes of start-up, which the motor answers with a request
\* to replay.
Silent == sending.kind = "blank"

\* A report behind the i-th that waits asks for a replay, or will.
AskedBehind(i) == \/ motor.replay \/ Silent
                  \/ \E j \in i + 1 .. Len(received) : received[j].replay

\* The motor asks for replays only until the first frame of the base arrives.  Its very first report
\* does not ask: as long as a request is on its way no more than one frame has been built, and it is
\* for that report, so what is replayed is a slot never written.
StartUp ==
    /\ taken.replay \/ AskedBehind(0) => ring[1] = Fallback
    /\ taken # NoReport /\ ~taken.replay /\ AskedBehind(0) => ring[2] = Fallback
    /\ \A i \in 1 .. Len(received) :
          ~received[i].replay /\ AskedBehind(i) => i = 1 /\ taken = NoReport /\ ring[2] = Fallback
    /\ ~motor.replay /\ Silent => received = << >> /\ taken = NoReport /\ ring[2] = Fallback

\* Once a frame has been loaded no zeroes follow, and zeroes carry no command.
Blanks == /\ next.kind = "blank" => Silent
          /\ \A f \in {sending, next} : f.kind = "blank" => f.command = 0

Ascends(c) == c = 0 \/ \A i \in DOMAIN applied : applied[i] <= c

Rising == \A i, j \in DOMAIN applied : i < j => applied[i] < applied[j]

\* The frames on their way carry no command that is older than what was applied or sent.
Ascending == /\ Rising
             /\ Ascends(sending.command) /\ Ascends(next.command)
             /\ next.command = 0 \/ sending.command <= next.command

Carries(f) == IF f.command = 0 THEN 0 ELSE 1

\* A main loop that keeps up has each frame sent once: what has been taken from the queue is
\* applied, or in the frame of the next exchange, or in the one behind it.
Once == /\ ~repeated /\ \A i \in DOMAIN applied : applied[i] = i
        /\ sending.command \in {0, Len(applied) + 1}
        /\ next.command \in {0, Newest}
        /\ IF received = << >> /\ taken = NoReport
           THEN Newest = Len(applied) + Carries(sending) + Carries(next)
           ELSE next = sending /\ Newest = Len(applied) + Carries(sending)

Clean == Sound /\ StartUp /\ Blanks /\ Ascending /\ (env.prompt => Once)

OrderInv == faults = 0 => Clean

LEMMA CleanInit == Init => OrderInv
<1> SUFFICES ASSUME Init PROVE Clean
  BY DEF OrderInv
<1>1. /\ received = << >> /\ applied = << >> /\ taken = NoReport /\ queue = << >>
      /\ sending = Blank /\ next = Blank /\ ring[1] = Fallback /\ ring[2] = Fallback
      /\ ~motor.replay /\ ~repeated /\ host.accepted = 0 /\ aligned /\ malformed = 0
  BY DEF Init
<1>2. Len(<< >>) = 0 /\ DOMAIN << >> = {}
  BY EmptySeq
<1>3. Blank.kind = "blank" /\ Blank.command = 0
  BY DEF Blank, Plain
<1>4. Newest = 0
  BY <1>2 DEF Init, Newest
<1> QED
  BY <1>1, <1>2, <1>3, <1>4
     DEF Clean, Sound, StartUp, Silent, Blanks, Ascends, Rising, Ascending, Carries, Once

LEMMA SameClean ==
    ASSUME Clean, Newest' = Newest,
           UNCHANGED <<ring, next, sending, received, taken, malformed, motor, aligned, applied,
                       repeated, env>>
    PROVE  Clean'
<1>1. Sound' /\ StartUp' /\ Blanks' /\ Ascending'
  BY DEF Clean, Sound, StartUp, Silent, AskedBehind, Blanks, Ascends, Rising, Ascending
<1>2. env'.prompt => Once'
  BY DEF Clean, Once, Carries
<1> QED
  BY <1>1, <1>2 DEF Clean

LEMMA QuietClean ==
    IInv /\ Clean /\ (AcceptCommand \/ ChangeStatus \/ ChangeInhibition) => Clean'
<1> SUFFICES ASSUME IInv, Clean, AcceptCommand \/ ChangeStatus \/ ChangeInhibition PROVE Clean'
  OBVIOUS
<1>1. UNCHANGED <<ring, next, sending, received, taken, malformed, motor, aligned, applied,
                  repeated, env>>
  BY DEF AcceptCommand, ChangeStatus, ChangeInhibition, Changes, transport, spi, history, bounds
<1>2. host \in HostType /\ host.accepted \in Nat /\ queue \in Seq(1 .. host.accepted)
      /\ Len(queue) \in Nat
  BY DEF IInv, TypeOK, HostType
<1>3. CASE AcceptCommand
  <2>1. host'.accepted = host.accepted + 1 /\ queue' = Append(queue, host.accepted + 1)
    BY <1>2, <1>3 DEF AcceptCommand, HostType
  <2>2. Len(queue') = Len(queue) + 1
    <3>1. host.accepted + 1 \in 1 .. host.accepted + 1
          /\ 1 .. host.accepted \subseteq 1 .. host.accepted + 1
      BY <1>2
    <3>2. queue \in Seq(1 .. host.accepted + 1)
      BY <1>2, <3>1, SeqMonotonic
    <3> QED
      BY <2>1, <3>1, <3>2, Appended
  <2>3. Newest' = Newest
    BY <1>2, <2>1, <2>2 DEF Newest
  <2> QED
    BY <1>1, <2>3, SameClean
<1>4. CASE ChangeStatus \/ ChangeInhibition
  <2>1. host'.accepted = host.accepted /\ queue' = queue
    BY <1>2, <1>4 DEF ChangeStatus, ChangeInhibition, HostType, transport
  <2>2. Newest' = Newest
    BY <2>1 DEF Newest
  <2> QED
    BY <1>1, <2>2, SameClean
<1> QED
  BY <1>3, <1>4

LEMMA TakeClean == IInv /\ Clean /\ Take => Clean'
<1> SUFFICES ASSUME IInv, Clean, Take PROVE Clean'
  OBVIOUS
<1>1. /\ taken = NoReport /\ received # << >> /\ taken' = Head(received)
      /\ received' = Tail(received)
      /\ UNCHANGED <<host, queue, ring, next, sending, malformed, motor, aligned, applied,
                     repeated, env>>
  BY DEF Take, transport, history, bounds
<1>2. received \in Seq(Report) /\ Len(received) \in Nat
  BY DEF IInv, TypeOK
<1>3. /\ taken' \in Report /\ Len(received') = Len(received) - 1
      /\ \A i \in 1 .. Len(received') : received'[i] = received[i + 1]
  BY <1>1, <1>2, HeadTailProperties
<1>4. Len(received) >= 1 /\ taken' = received[1]
  BY <1>1, <1>2, EmptySeq
<1>5. taken' # NoReport
  BY <1>3 DEF Report, NoReport
<1>6. \A i \in 0 .. Len(received') : AskedBehind(i)' => AskedBehind(i + 1)
  <2> SUFFICES ASSUME NEW i \in 0 .. Len(received'), AskedBehind(i)' PROVE AskedBehind(i + 1)
    OBVIOUS
  <2>1. CASE motor.replay \/ Silent
    BY <2>1 DEF AskedBehind
  <2>2. CASE \E j \in i + 1 .. Len(received') : received'[j].replay
    <3>1. PICK j \in i + 1 .. Len(received') : received'[j].replay
      BY <2>2
    <3>2. j \in 1 .. Len(received')
      BY <1>2, <1>3
    <3>3. j + 1 \in (i + 1) + 1 .. Len(received) /\ received[j + 1].replay
      BY <1>2, <1>3, <3>1, <3>2
    <3> QED
      BY <3>3 DEF AskedBehind
  <2> QED
    BY <1>1, <2>1, <2>2 DEF AskedBehind, Silent
<1>7. AskedBehind(1) => AskedBehind(0)
  BY <1>2 DEF AskedBehind
<1>8. received[1].replay => AskedBehind(0)
  BY <1>2, <1>4 DEF AskedBehind
<1>9. AskedBehind(0)' => AskedBehind(1)
  <2>1. 0 \in 0 .. Len(received') /\ 0 + 1 = 1
    BY <1>2, <1>3, <1>4
  <2> QED
    BY <1>6, <2>1
<1>10. StartUp'
  <2>1. taken'.replay \/ AskedBehind(0)' => ring'[1] = Fallback
    BY <1>1, <1>4, <1>7, <1>8, <1>9 DEF Clean, StartUp
  <2>2. ~taken'.replay /\ AskedBehind(0)' => ring'[2] = Fallback
    <3>1. 1 \in 1 .. Len(received)
      BY <1>2, <1>4
    <3> QED
      BY <1>1, <1>4, <1>9, <3>1 DEF Clean, StartUp
  <2>3. ASSUME NEW i \in 1 .. Len(received'), ~received'[i].replay, AskedBehind(i)' PROVE FALSE
    <3>1. i \in 0 .. Len(received') /\ i + 1 \in 1 .. Len(received) /\ i + 1 # 1
      BY <1>2, <1>3
    <3>2. ~received[i + 1].replay /\ AskedBehind(i + 1)
      BY <1>3, <1>6, <2>3, <3>1
    <3> QED
      BY <3>1, <3>2 DEF Clean, StartUp
  <2>4. ~(~motor'.replay /\ Silent')
    BY <1>1 DEF Clean, StartUp, Silent
  <2> QED
    BY <2>1, <2>2, <2>3, <2>4 DEF StartUp
<1>11. Sound'
  <2>1. 1 \in 1 .. Len(received)
    BY <1>2, <1>4
  <2>2. taken'.quality = "valid"
    BY <1>4, <2>1 DEF Clean, Sound
  <2>3. ASSUME NEW i \in 1 .. Len(received') PROVE received'[i].quality = "valid"
    <3>1. i + 1 \in 1 .. Len(received)
      BY <1>2, <1>3
    <3> QED
      BY <1>3, <3>1 DEF Clean, Sound
  <2> QED
    BY <1>1, <2>2, <2>3 DEF Clean, Sound
<1>12. Blanks' /\ Ascending'
  BY <1>1 DEF Clean, Blanks, Silent, Ascending, Ascends, Rising
<1>13. env'.prompt => Once'
  <2>1. Newest' = Newest
    BY <1>1 DEF Newest
  <2> QED
    BY <1>1, <1>5, <2>1 DEF Clean, Once, Carries
<1> QED
  BY <1>10, <1>11, <1>12, <1>13 DEF Clean

LEMMA ReplayClean == IInv /\ Clean /\ AnswerReplay => Clean'
<1> SUFFICES ASSUME IInv, Clean, AnswerReplay PROVE Clean'
  OBVIOUS
<1>1. /\ taken # NoReport /\ taken.quality = "valid" /\ taken.replay
      /\ next' = ReplayFrame /\ taken' = NoReport /\ malformed' = 0
      /\ UNCHANGED <<host, queue, ring, sending, received, motor, aligned, applied, repeated, env>>
  BY DEF AnswerReplay, RequestsReplay, MalformedNow, transport, history, bounds
<1>2. ring[1] = Fallback
  BY <1>1 DEF Clean, StartUp
<1>3. next'.kind # "blank" /\ next'.command = 0
  <2>1. Fallback.kind = "fallback" /\ Fallback.command = 0
    BY DEF Fallback, Plain
  <2>2. Inhibited(Fallback).kind = "fallback" /\ Inhibited(Fallback).command = 0
    BY DEF Inhibited, Fallback, Plain
  <2> QED
    BY <1>1, <1>2, <2>1, <2>2 DEF ReplayFrame
<1>4. ~taken'.replay
  BY <1>1 DEF NoReport
<1>5. Sound'
  BY <1>1 DEF Clean, Sound
<1>6. StartUp'
  <2>1. \A i \in Nat : AskedBehind(i)' => AskedBehind(i)
    BY <1>1 DEF AskedBehind, Silent
  <2>2. AskedBehind(0)' => AskedBehind(0)
    BY <1>1 DEF AskedBehind, Silent
  <2>3. ASSUME NEW i \in 1 .. Len(received'), ~received'[i].replay, AskedBehind(i)' PROVE FALSE
    <3>1. i \in 1 .. Len(received) /\ ~received[i].replay /\ AskedBehind(i)
      BY <1>1, <2>3 DEF AskedBehind, Silent
    <3> QED
      BY <1>1, <3>1 DEF Clean, StartUp
  <2>4. ~(~motor'.replay /\ Silent')
    BY <1>1 DEF Clean, StartUp, Silent
  <2> QED
    BY <1>1, <1>4, <2>2, <2>3, <2>4 DEF Clean, StartUp
<1>7. Blanks' /\ Ascending'
  BY <1>1, <1>3 DEF Clean, Blanks, Silent, Ascending, Ascends, Rising
<1>8. env'.prompt => Once'
  <2> SUFFICES ASSUME env.prompt PROVE Once'
    BY <1>1
  <2>1. received = << >>
    BY <1>1 DEF IInv, PromptLoop
  <2>2. Newest' = Newest /\ Carries(next') = 0 /\ Carries(sending)' = Carries(sending)
    BY <1>1, <1>3 DEF Newest, Carries
  <2>3. Once
    BY DEF Clean
  <2>4. Newest = Len(applied) + Carries(sending) + 0
    <3>1. Len(applied) \in Nat /\ Carries(sending) \in Nat
      BY DEF IInv, TypeOK, Carries
    <3> QED
      BY <1>1, <2>3, <3>1 DEF Once
  <2> QED
    BY <1>1, <1>3, <2>1, <2>2, <2>3, <2>4 DEF Once
<1> QED
  BY <1>5, <1>6, <1>7, <1>8 DEF Clean

LEMMA BuiltNotBlank == Built.kind # "blank"
  BY DEF Built, StatusFrame, ForceFrame, Plain

LEMMA BuildClean == IInv /\ Clean /\ AnswerBuild => Clean'
<1> SUFFICES ASSUME IInv, Clean, AnswerBuild PROVE Clean'
  OBVIOUS
<1>1. /\ taken # NoReport /\ taken' = NoReport /\ next' = Built
      /\ queue' = IF queue = << >> THEN queue ELSE Tail(queue)
      /\ ring' = <<ring[2], Built>> /\ ~RequestsReplay
      /\ UNCHANGED <<host, motor, applied, repeated, env>>
  BY DEF AnswerBuild, Popped, Remembered, history, bounds
<1>2. taken.quality = "valid" /\ ~taken.replay
  BY <1>1 DEF Clean, Sound, RequestsReplay
<1>3. malformed' = 0 /\ UNCHANGED <<sending, received, aligned>>
  <2>1. MalformedNow = 0
    BY <1>2 DEF MalformedNow
  <2>2. ~Restarts(MalformedNow)
    BY <2>1, MotorLinkAssumption DEF Restarts
  <2> QED
    BY <2>1, <2>2 DEF AnswerBuild
<1>4. ring'[1] = ring[2] /\ ~taken'.replay
  BY <1>1 DEF NoReport
<1>5. Sound'
  BY <1>1, <1>3 DEF Clean, Sound
<1>6. StartUp'
  <2>1. AskedBehind(0)' => AskedBehind(0)
    BY <1>1, <1>3 DEF AskedBehind, Silent
  <2>2. AskedBehind(0)' => ring'[1] = Fallback
    BY <1>1, <1>2, <1>4, <2>1 DEF Clean, StartUp
  <2>3. ASSUME NEW i \in 1 .. Len(received'), ~received'[i].replay, AskedBehind(i)' PROVE FALSE
    <3>1. i \in 1 .. Len(received) /\ ~received[i].replay /\ AskedBehind(i)
      BY <1>1, <1>3, <2>3 DEF AskedBehind, Silent
    <3> QED
      BY <1>1, <3>1 DEF Clean, StartUp
  <2>4. ~(~motor'.replay /\ Silent')
    BY <1>1, <1>3 DEF Clean, StartUp, Silent
  <2> QED
    BY <1>1, <1>4, <2>2, <2>3, <2>4 DEF StartUp
<1>7. Blanks'
  BY <1>1, <1>3, BuiltNotBlank DEF Clean, Blanks, Silent
<1>8. /\ Newest \in Nat /\ Newest' = IF queue = << >> THEN Newest ELSE Newest + 1
      /\ Built.command = IF queue = << >> THEN 0 ELSE Newest'
  BY <1>1, BuiltOrder, BuiltFrame DEF IInv
<1>9. Ascending'
  <2>1. Built.command = 0 \/ \A i \in DOMAIN applied : applied[i] <= Built.command
    <3>1. ASSUME NEW i \in DOMAIN applied PROVE applied[i] \in Nat /\ applied[i] <= Newest
      BY AppliedElements DEF IInv, Orders, FlightOrder
    <3> QED
      BY <1>8, <3>1
  <2>2. Built.command = 0 \/ sending.command <= Built.command
    <3>1. sending.command <= Newest /\ sending.command \in Nat
      BY CommandNatural DEF IInv, TypeOK, Orders, FlightOrder
    <3> QED
      BY <1>8, <3>1
  <2> QED
    BY <1>1, <1>3, <2>1, <2>2 DEF Clean, Ascending, Ascends, Rising
<1>10. env'.prompt => Once'
  <2> SUFFICES ASSUME env.prompt PROVE Once'
    BY <1>1
  <2>1. received = << >>
    BY <1>1 DEF IInv, PromptLoop
  <2>2. /\ Once /\ Len(applied) \in Nat /\ Carries(sending) \in Nat
        /\ Carries(sending)' = Carries(sending) /\ Carries(next') = Carries(Built)
    BY <1>1, <1>3 DEF Clean, IInv, TypeOK, Carries
  <2>3. Newest = Len(applied) + Carries(sending)
    BY <1>1, <2>2 DEF Once
  <2>4. Newest' = Newest + Carries(Built) /\ Carries(Built) \in Nat
    BY <1>8 DEF Carries
  <2>5. Newest' = Len(applied) + Carries(sending) + Carries(Built)
    BY <2>2, <2>3, <2>4
  <2>6. Built.command \in {0, Newest'}
    BY <1>8
  <2> QED
    BY <1>1, <1>3, <2>1, <2>2, <2>5, <2>6 DEF Once
<1> QED
  BY <1>5, <1>6, <1>7, <1>9, <1>10 DEF Clean

\* A report that arrives is the last of those that wait, and at most the first of them is lost.
LEMMA QueuedElements ==
    ASSUME TypeOK, NEW report \in Report
    PROVE  \E d \in {0, 1} :
              /\ d <= Len(received)
              /\ Len(Queued(report)) = Len(received) - d + 1
              /\ \A i \in 1 .. Len(received) - d : Queued(report)[i] = received[i + d]
              /\ Queued(report)[Len(received) - d + 1] = report
<1>1. received \in Seq(Report) /\ Len(received) \in Nat
  BY DEF TypeOK
<1>2. CASE Len(received) = ReceiveCapacity
  <2>1. Len(received) = 2 /\ received # << >>
    BY <1>2, EmptySeq DEF ReceiveCapacity
  <2>2. /\ Tail(received) \in Seq(Report) /\ Len(Tail(received)) = Len(received) - 1
        /\ \A i \in 1 .. Len(Tail(received)) : Tail(received)[i] = received[i + 1]
    BY <1>1, <2>1, HeadTailProperties
  <2>3. Queued(report) = Append(Tail(received), report)
    BY <1>2 DEF Queued
  <2>4. Len(Tail(received)) = 1
    BY <2>1, <2>2
  <2>5. /\ Len(Append(Tail(received), report)) = 2
        /\ \A i \in 1 .. 1 : Append(Tail(received), report)[i] = received[i + 1]
        /\ Append(Tail(received), report)[2] = report
    <3> DEFINE rest == Tail(received)
    <3>1. rest \in Seq(Report)
      BY <2>2
    <3>2. Len(rest) = 1 /\ \A i \in 1 .. 1 : rest[i] = received[i + 1]
      BY <2>2, <2>4
    <3> HIDE DEF rest
    <3>3. /\ Len(Append(rest, report)) = Len(rest) + 1
          /\ \A i \in 1 .. Len(rest) : Append(rest, report)[i] = rest[i]
          /\ Append(rest, report)[Len(rest) + 1] = report
      BY <3>1, Appended
    <3>4. /\ Len(Append(rest, report)) = 2
          /\ \A i \in 1 .. 1 : Append(rest, report)[i] = received[i + 1]
          /\ Append(rest, report)[2] = report
      BY <3>2, <3>3
    <3> QED
      BY <3>4 DEF rest
  <2>6. Len(received) - 1 = 1 /\ Len(received) - 1 + 1 = 2
    BY <2>1
  <2> QED
    <3> DEFINE after == Queued(report)
    <3>1. /\ Len(after) = 2 /\ after[2] = report
          /\ \A i \in 1 .. 1 : after[i] = received[i + 1]
      BY <2>3, <2>5
    <3> HIDE DEF after
    <3>2. /\ 1 <= Len(received) /\ Len(after) = Len(received) - 1 + 1
          /\ \A i \in 1 .. Len(received) - 1 : after[i] = received[i + 1]
          /\ after[Len(received) - 1 + 1] = report
      BY <2>1, <2>6, <3>1
    <3> QED
      BY <3>2 DEF after
<1>3. CASE Len(received) # ReceiveCapacity
  <2>1. Queued(report) = Append(received, report)
    BY <1>3 DEF Queued
  <2>2. /\ Len(Append(received, report)) = Len(received) - 0 + 1
        /\ \A i \in 1 .. Len(received) - 0 : Append(received, report)[i] = received[i + 0]
        /\ Append(received, report)[Len(received) - 0 + 1] = report
    BY <1>1, Appended
  <2> QED
    BY <1>1, <2>1, <2>2
<1> QED
  BY <1>2, <1>3

\* A command that is not older than what was applied keeps the motor's commands rising.
LEMMA NoteRising ==
    ASSUME TypeOK, Rising, NEW c \in 1 .. host.accepted, Ascends(c), Note(c)
    PROVE  Rising' /\ \A i \in DOMAIN applied' : applied'[i] <= c
<1>1. /\ applied \in Seq(1 .. host.accepted) /\ Len(applied) \in Nat
      /\ DOMAIN applied = 1 .. Len(applied)
      /\ \A i \in DOMAIN applied : applied[i] \in Nat /\ applied[i] <= c
  <2>1. applied \in Seq(1 .. host.accepted)
    BY DEF TypeOK
  <2>2. \A i \in DOMAIN applied : applied[i] <= c
    BY DEF Ascends
  <2> QED
    BY <2>1, <2>2, AppliedElements
<1>2. CASE applied' = applied
  BY <1>1, <1>2 DEF Rising
<1>3. CASE applied' # applied
  <2>1. applied' = Append(applied, c) /\ (applied = << >> \/ applied[Len(applied)] # c)
    BY <1>3 DEF Note, history
  <2>2. /\ DOMAIN applied' = 1 .. Len(applied) + 1
        /\ \A i \in 1 .. Len(applied) : applied'[i] = applied[i]
        /\ applied'[Len(applied) + 1] = c
    BY <1>1, <2>1, Appended
  <2>3. ASSUME NEW i \in DOMAIN applied PROVE applied[i] < c
    <3>1. Len(applied) \in DOMAIN applied /\ i \in 1 .. Len(applied)
      BY <1>1
    <3>2. applied[Len(applied)] < c
      <4>1. applied[Len(applied)] # c
        BY <1>1, <2>1, <3>1, EmptySeq
      <4>2. applied[Len(applied)] \in Nat /\ applied[Len(applied)] <= c
        BY <1>1, <3>1
      <4> QED
        BY <4>1, <4>2
    <3>3. i = Len(applied) \/ applied[i] < applied[Len(applied)]
      BY <3>1 DEF Rising
    <3>4. applied[i] \in Nat /\ applied[Len(applied)] \in Nat
      BY <1>1, <3>1
    <3> QED
      BY <3>2, <3>3, <3>4
  <2>4. ASSUME NEW i \in DOMAIN applied', NEW j \in DOMAIN applied', i < j
        PROVE  applied'[i] < applied'[j]
    <3>1. i \in 1 .. Len(applied) /\ (j \in 1 .. Len(applied) \/ j = Len(applied) + 1)
      BY <1>1, <2>2, <2>4
    <3> QED
      BY <1>1, <2>2, <2>3, <2>4, <3>1 DEF Rising
  <2>5. \A i \in DOMAIN applied' : applied'[i] <= c
    <3> SUFFICES ASSUME NEW i \in DOMAIN applied' PROVE applied'[i] <= c
      OBVIOUS
    <3>1. i \in 1 .. Len(applied) \/ i = Len(applied) + 1
      BY <1>1, <2>2
    <3> QED
      BY <1>1, <2>2, <3>1
  <2> QED
    BY <2>4, <2>5 DEF Rising
<1> QED
  BY <1>2, <1>3

\* What one exchange makes of a clean line: the motor applies the command of the frame that was
\* sent, or asks for a replay if that was the zeroes of start-up.
LEMMA CleanReceives ==
    ASSUME IInv, Clean, MotorReceives(TRUE)
    PROVE  /\ Silent => motor'.replay = TRUE
           /\ ~Silent => motor'.replay = FALSE
           /\ Rising' /\ (sending.command = 0 => UNCHANGED history)
           /\ sending.command # 0 => /\ sending.command \in 1 .. host.accepted
                                     /\ Note(sending.command)
                                     /\ \A i \in DOMAIN applied' : applied'[i] <= sending.command
<1>1. /\ TypeOK /\ motor \in MotorType /\ sending \in Frame /\ host.accepted \in Nat
      /\ sending.command \in Nat /\ Len(queue) \in Nat
  BY CommandNatural DEF IInv, TypeOK, HostType
<1>2. Arrives(sending) <=> ~Silent
  BY DEF Clean, Sound, Arrives, Silent
<1>3. CASE Silent
  <2>1. motor' = [motor EXCEPT !.replay = TRUE] /\ UNCHANGED history
    BY <1>2, <1>3 DEF MotorReceives
  <2>2. sending.command = 0
    BY <1>3 DEF Clean, Blanks, Silent
  <2>3. motor'.replay = TRUE
    BY <1>1, <2>1 DEF MotorType
  <2> QED
    BY <1>3, <2>1, <2>2, <2>3 DEF Clean, Ascending, Rising, history
<1>4. CASE ~Silent
  <2>1. /\ motor' = [Applied(motor, sending) EXCEPT !.replay = FALSE]
        /\ Note(sending.command)
    BY <1>2, <1>4 DEF MotorReceives
  <2>2. motor'.replay = FALSE
    <3>1. Applied(motor, sending) \in MotorType
      BY <1>1, AppliedMotor
    <3> QED
      BY <2>1, <3>1 DEF MotorType
  <2>3. CASE sending.command = 0
    <3>1. UNCHANGED history
      BY <2>1, <2>3 DEF Note
    <3> QED
      BY <1>4, <2>2, <2>3, <3>1 DEF Clean, Ascending, Rising, history
  <2>4. CASE sending.command # 0
    <3>1. sending.command <= Newest /\ Newest \in Nat
      BY DEF IInv, Orders, FlightOrder, QueueOrder
    <3>2. sending.command \in 1 .. host.accepted
      BY <1>1, <2>4, <3>1 DEF Newest
    <3>3. Rising /\ Ascends(sending.command)
      BY DEF Clean, Ascending
    <3>4. Rising' /\ \A i \in DOMAIN applied' : applied'[i] <= sending.command
      BY <1>1, <2>1, <3>2, <3>3, NoteRising
    <3> QED
      BY <1>4, <2>1, <2>2, <2>4, <3>2, <3>4
  <2> QED
    BY <2>3, <2>4
<1> QED
  BY <1>3, <1>4

LEMMA ExchangeStartUp ==
    ASSUME IInv, Clean, Exchange(TRUE, "valid") PROVE Sound' /\ StartUp'
<1> DEFINE report == MotorReport("valid")
<1>1. /\ UNCHANGED <<ring, taken, malformed, aligned>>
      /\ received' = Queued(report) /\ sending' = next /\ MotorReceives(TRUE)
  BY DEF Exchange, transport
<1>2. motor'.replay <=> Silent
  BY <1>1, CleanReceives
<1>3. report.quality = "valid" /\ report.replay = motor.replay /\ report \in Report
  <2>1. motor.replay \in BOOLEAN /\ aligned
    BY DEF IInv, TypeOK, MotorType, Clean, Sound
  <2> QED
    BY <2>1 DEF MotorReport, Report
<1> HIDE DEF report
<1>4. PICK d \in {0, 1} :
         /\ d <= Len(received)
         /\ Len(received') = Len(received) - d + 1
         /\ \A i \in 1 .. Len(received) - d : received'[i] = received[i + d]
         /\ received'[Len(received) - d + 1] = report
  BY <1>1, <1>3, QueuedElements DEF IInv
<1> DEFINE n == Len(received) - d
<1>5. Len(received) \in Nat /\ n \in Nat /\ Len(received') = n + 1
  BY <1>4 DEF IInv, TypeOK
<1>6. Silent' => Silent
  BY <1>1 DEF Clean, Blanks, Silent
<1>7. ASSUME NEW i \in 0 .. n, AskedBehind(i)' PROVE AskedBehind(i + d)
  <2>1. CASE motor'.replay \/ Silent'
    BY <1>2, <1>6, <2>1 DEF AskedBehind
  <2>2. CASE \E j \in i + 1 .. Len(received') : received'[j].replay
    <3>1. PICK j \in i + 1 .. Len(received') : received'[j].replay
      BY <2>2
    <3>2. CASE j = n + 1
      <4>1. motor.replay
        BY <1>3, <1>4, <3>1, <3>2
      <4> QED
        BY <4>1 DEF AskedBehind
    <3>3. CASE j # n + 1
      <4>1. j \in 1 .. n
        BY <1>5, <3>1, <3>3
      <4>2. received[j + d].replay
        BY <1>4, <3>1, <4>1
      <4>3. j + d \in (i + d) + 1 .. Len(received)
        BY <1>5, <3>1, <4>1
      <4> QED
        BY <4>2, <4>3 DEF AskedBehind
    <3> QED
      BY <3>2, <3>3
  <2> QED
    BY <1>7, <2>1, <2>2 DEF AskedBehind
<1>8. AskedBehind(d) => AskedBehind(0)
  BY <1>5 DEF AskedBehind
<1>9. AskedBehind(0)' => AskedBehind(0)
  <2>1. 0 \in 0 .. n /\ 0 + d = d
    BY <1>5
  <2> QED
    BY <1>7, <1>8, <2>1
<1>10. ASSUME NEW i \in 1 .. Len(received'), ~received'[i].replay, AskedBehind(i)'
       PROVE  i = 1 /\ taken = NoReport /\ ring[2] = Fallback
  <2>1. CASE i = n + 1
    <3>1. ~motor.replay
      BY <1>3, <1>4, <1>10, <2>1
    <3>2. Silent
      <4>1. \A j \in i + 1 .. Len(received') : FALSE
        BY <1>5, <2>1
      <4> QED
        BY <1>2, <1>6, <1>10, <4>1 DEF AskedBehind
    <3>3. received = << >> /\ taken = NoReport /\ ring[2] = Fallback
      BY <3>1, <3>2 DEF Clean, StartUp
    <3>4. Len(received) = 0
      BY <3>3, EmptySeq
    <3> QED
      BY <1>4, <2>1, <3>3, <3>4
  <2>2. CASE i # n + 1
    <3>1. i \in 1 .. n /\ i \in 0 .. n /\ i + d \in 1 .. Len(received)
      BY <1>5, <2>2
    <3>2. ~received[i + d].replay /\ AskedBehind(i + d)
      BY <1>4, <1>7, <1>10, <3>1
    <3>3. i + d = 1 /\ taken = NoReport /\ ring[2] = Fallback
      BY <3>1, <3>2 DEF Clean, StartUp
    <3> QED
      BY <1>4, <3>1, <3>3
  <2> QED
    BY <2>1, <2>2
<1>11. StartUp'
  <2>1. taken'.replay \/ AskedBehind(0)' => ring'[1] = Fallback
    BY <1>1, <1>9 DEF Clean, StartUp
  <2>2. taken' # NoReport /\ ~taken'.replay /\ AskedBehind(0)' => ring'[2] = Fallback
    BY <1>1, <1>9 DEF Clean, StartUp
  <2>3. ~(~motor'.replay /\ Silent')
    BY <1>2, <1>6
  <2> QED
    BY <1>1, <1>10, <2>1, <2>2, <2>3 DEF StartUp
<1>12. Sound'
  <2>1. ASSUME NEW i \in 1 .. Len(received') PROVE received'[i].quality = "valid"
    <3>1. CASE i = n + 1
      BY <1>3, <1>4, <3>1
    <3>2. CASE i # n + 1
      <4>1. i \in 1 .. n /\ i + d \in 1 .. Len(received)
        BY <1>5, <3>2
      <4> QED
        BY <1>4, <4>1 DEF Clean, Sound
    <3> QED
      BY <3>1, <3>2
  <2> QED
    BY <1>1, <2>1 DEF Clean, Sound
<1> QED
  BY <1>11, <1>12

LEMMA ExchangeAscending ==
    ASSUME IInv, Clean, Exchange(TRUE, "valid") PROVE Blanks' /\ Ascending'
<1>1. next' = next /\ sending' = next /\ MotorReceives(TRUE)
  BY DEF Exchange
<1>2. Blanks'
  BY <1>1 DEF Clean, Blanks, Silent
<1>3. Rising'
  BY <1>1, CleanReceives
<1>4. next.command = 0 \/ \A i \in DOMAIN applied' : applied'[i] <= next.command
  <2>1. CASE sending.command = 0
    BY <1>1, <2>1, CleanReceives DEF Clean, Ascending, Ascends, history
  <2>2. CASE sending.command # 0
    <3>1. sending.command \in 1 .. host.accepted
          /\ \A i \in DOMAIN applied' : applied'[i] <= sending.command
      BY <1>1, <2>2, CleanReceives
    <3>2. Note(sending.command) /\ Ascends(sending.command) /\ Rising /\ TypeOK
      BY <1>1, <2>2, CleanReceives DEF Clean, Ascending, IInv
    <3>3. ASSUME NEW i \in DOMAIN applied' PROVE applied'[i] \in Nat
      <4>1. applied' \in Seq(1 .. host.accepted)
        BY <1>1, MotorReceivesOrder DEF IInv
      <4>2. i \in 1 .. Len(applied')
        BY <4>1
      <4>3. applied'[i] \in 1 .. host.accepted
        BY <4>1, <4>2, ElementOfSeq
      <4> QED
        BY <4>3
    <3>4. next.command = 0 \/ sending.command <= next.command
      BY DEF Clean, Ascending
    <3>5. next.command \in Nat /\ sending.command \in Nat
      BY CommandNatural DEF IInv, TypeOK
    <3> QED
      BY <3>1, <3>3, <3>4, <3>5
  <2> QED
    BY <2>1, <2>2
<1>5. next.command \in Nat
  BY CommandNatural DEF IInv, TypeOK
<1> QED
  BY <1>1, <1>2, <1>3, <1>4, <1>5 DEF Ascending, Ascends

LEMMA ExchangeOnce ==
    ASSUME IInv, Clean, Exchange(TRUE, "valid"), env.prompt PROVE Once'
<1>1. /\ UNCHANGED <<host, queue, next, taken>> /\ sending' = next /\ MotorReceives(TRUE)
      /\ received = << >> /\ taken = NoReport
  BY DEF Exchange, transport
<1>2. received' # << >>
  <2>1. Len(received') = 1
    BY <1>1, ExchangeType DEF IInv
  <2> QED
    BY <2>1, EmptySeq
<1>3. /\ Once /\ Newest' = Newest /\ Len(applied) \in Nat
      /\ Newest = Len(applied) + Carries(sending) + Carries(next)
      /\ Carries(next)' = Carries(next) /\ Carries(sending') = Carries(next)
      /\ Carries(next) \in Nat
  <2>1. Once
    BY DEF Clean
  <2>2. Newest' = Newest
    BY <1>1 DEF Newest
  <2>3. Newest = Len(applied) + Carries(sending) + Carries(next)
    BY <1>1, <2>1 DEF Once
  <2> QED
    BY <1>1, <2>1, <2>2, <2>3 DEF IInv, TypeOK, Carries
<1>4. ~repeated' /\ (\A i \in DOMAIN applied' : applied'[i] = i)
      /\ Len(applied') = Len(applied) + Carries(sending)
  <2>1. CASE sending.command = 0
    <3>1. UNCHANGED history
      BY <1>1, <2>1, CleanReceives
    <3> QED
      BY <1>3, <2>1, <3>1 DEF Once, Carries, history
  <2>2. CASE sending.command # 0
    <3> DEFINE c == sending.command
    <3>1. c \in 1 .. host.accepted /\ Note(c) /\ c = Len(applied) + 1
      BY <1>1, <1>3, <2>2, CleanReceives DEF Once
    <3>2. /\ applied \in Seq(1 .. host.accepted) /\ DOMAIN applied = 1 .. Len(applied)
      BY DEF IInv, TypeOK
    <3>3. applied = << >> \/ applied[Len(applied)] # c
      <4>1. ASSUME applied # << >> PROVE applied[Len(applied)] # c
        <5>1. Len(applied) \in DOMAIN applied
          BY <1>3, <3>2, <4>1, EmptySeq
        <5>2. applied[Len(applied)] = Len(applied)
          BY <1>3, <5>1 DEF Once
        <5> QED
          BY <1>3, <3>1, <5>2
      <4> QED
        BY <4>1
    <3>4. c # 0
      BY <2>2
    <3> HIDE DEF c
    <3>5. applied' = Append(applied, c) /\ repeated' = repeated
      BY <3>1, <3>3, <3>4 DEF Note
    <3>6. /\ Len(applied') = Len(applied) + 1 /\ DOMAIN applied' = 1 .. Len(applied) + 1
          /\ \A i \in 1 .. Len(applied) : applied'[i] = applied[i]
          /\ applied'[Len(applied) + 1] = c
      BY <3>1, <3>2, <3>5, Appended
    <3>7. ASSUME NEW i \in DOMAIN applied' PROVE applied'[i] = i
      <4>1. i \in 1 .. Len(applied) \/ i = Len(applied) + 1
        BY <1>3, <3>6
      <4> QED
        BY <1>3, <3>1, <3>2, <3>6, <4>1 DEF Once
    <3>8. Carries(sending) = 1
      BY <2>2 DEF Carries
    <3> QED
      BY <1>3, <3>5, <3>6, <3>7, <3>8 DEF Once
  <2> QED
    BY <2>1, <2>2
<1>5. Newest = Len(applied') + Carries(next)
  BY <1>3, <1>4
<1>6. next.command \in {0, Newest}
  BY <1>3 DEF Once
<1>7. next.command \in {0, Len(applied') + 1}
  <2>1. CASE next.command = 0
    BY <2>1
  <2>2. CASE next.command # 0
    <3>1. Carries(next) = 1
      BY <2>2 DEF Carries
    <3> QED
      BY <1>5, <1>6, <2>2, <3>1
  <2> QED
    BY <2>1, <2>2
<1> QED
  BY <1>1, <1>2, <1>3, <1>4, <1>5, <1>6, <1>7 DEF Once

LEMMA CleanStep == IInv /\ OrderInv /\ [Next]_vars => OrderInv'
<1> SUFFICES ASSUME IInv, OrderInv, [Next]_vars, faults' = 0 PROVE Clean'
  BY DEF OrderInv
<1>1. faults \in Nat
  BY EnvironmentType DEF IInv, TypeOK
<1>2. ASSUME Faulty PROVE FALSE
  BY <1>1, <1>2 DEF Faulty
<1>3. faults = 0 => Clean
  BY DEF OrderInv
<1>4. CASE AcceptCommand \/ ChangeStatus \/ ChangeInhibition
  <2>1. faults = 0
    BY <1>4 DEF AcceptCommand, ChangeStatus, ChangeInhibition, bounds
  <2> QED
    BY <1>3, <1>4, <2>1, QuietClean
<1>5. CASE Take
  <2>1. faults = 0
    BY <1>5 DEF Take, bounds
  <2> QED
    BY <1>3, <1>5, <2>1, TakeClean
<1>6. CASE AnswerReplay
  <2>1. faults = 0
    BY <1>6 DEF AnswerReplay, bounds
  <2> QED
    BY <1>3, <1>6, <2>1, ReplayClean
<1>7. CASE AnswerBuild
  <2>1. faults = 0
    BY <1>7 DEF AnswerBuild, bounds
  <2> QED
    BY <1>3, <1>7, <2>1, BuildClean
<1>8. CASE CleanExchange
  <2>1. faults = 0 /\ Exchange(TRUE, "valid") /\ env' = env
    BY <1>8 DEF CleanExchange, Exchange
  <2>2. Clean
    BY <1>3, <2>1
  <2>3. Sound' /\ StartUp' /\ Blanks' /\ Ascending' /\ (env.prompt => Once')
    BY <2>1, <2>2, ExchangeStartUp, ExchangeAscending, ExchangeOnce
  <2> QED
    BY <2>1, <2>3 DEF Clean
<1>9. CASE DamagedToMotor \/ DamagedToBase \/ Slip
  BY <1>2, <1>9 DEF DamagedToMotor, DamagedToBase, Slip
<1>10. CASE UNCHANGED vars
  <2>1. UNCHANGED <<host, queue, ring, next, sending, received, taken, malformed, motor, aligned,
                    applied, repeated, env, faults>>
    BY <1>10 DEF vars, transport, spi, history, bounds
  <2>2. Newest' = Newest
    BY <2>1 DEF Newest
  <2> QED
    BY <1>3, <2>1, <2>2, SameClean
<1> QED
  BY <1>4, <1>5, <1>6, <1>7, <1>8, <1>9, <1>10 DEF Next

----------------------------------------------------------------------------
(* The theorems *)

\* Every variable keeps its type, and neither the queue of the base nor the motor ever has a
\* command that was not accepted.
THEOREM TypeCorrect == Spec => []TypeOK
<1>1. IInv => TypeOK
  BY DEF IInv
<1> QED
  BY <1>1, Invariance, PTL

\* Whatever is damaged, and however slow the main loop is, the motor never goes back further than
\* one command: motor_output_transport_replay_frame is fed from a ring of two frames.
THEOREM ReplayCorrect == Spec => []ReplayOrder
<1>1. IInv => ReplayOrder
  BY DEF IInv, Orders
<1> QED
  BY <1>1, Invariance, PTL

\* Two exchanges after the base became inhibited a main loop that keeps up sends no live primary
\* force, in a report, a repetition or a replayed frame.
THEOREM ForceCorrect == Spec => []NoLiveForceOnceInhibited
<1>1. IInv => NoLiveForceOnceInhibited
  BY DEF IInv
<1> QED
  BY <1>1, Invariance, PTL

\* On a line without faults no two commands are ever swapped, however slow the main loop is; and
\* with a main loop that keeps up every command taken from the queue reaches the motor once, in
\* order.  With faults a command is repeated or overtaken by its successor at the worst.
THEOREM OrderCorrect == Spec => []CommandOrder
<1>1. Spec => []OrderInv
  BY CleanInit, CleanStep, Invariance, PTL DEF Spec
<1>2. IInv /\ OrderInv => CommandOrder
  <2> SUFFICES ASSUME IInv, OrderInv PROVE CommandOrder
    OBVIOUS
  <2>1. ReplayOrder
    BY DEF IInv, Orders
  <2>2. CleanOrder
    BY DEF OrderInv, Clean, Ascending, Rising, CleanOrder
  <2>3. PromptOrder
    <3> SUFFICES ASSUME Once, queue # << >> PROVE Len(applied) < Head(queue)
      BY DEF OrderInv, Clean, Once, PromptOrder
    <3>1. Newest >= Len(applied) /\ Newest \in Nat /\ Len(applied) \in Nat
      <4>1. Len(applied) \in Nat /\ Carries(sending) \in Nat /\ Carries(next) \in Nat
        BY DEF IInv, TypeOK, Carries
      <4> QED
        BY <4>1 DEF Once
    <3>2. Head(queue) = Newest + 1
      <4>1. queue \in Seq(1 .. host.accepted) /\ Len(queue) \in Nat
        BY DEF IInv, TypeOK
      <4>2. 1 \in 1 .. Len(queue) /\ Head(queue) = queue[1]
        BY <4>1, EmptySeq
      <4> QED
        BY <4>2 DEF IInv, Orders, QueueOrder
    <3> QED
      BY <3>1, <3>2
  <2> QED
    BY <2>1, <2>2, <2>3 DEF CommandOrder
<1> QED
  BY <1>1, <1>2, Invariance, PTL
=============================================================================
