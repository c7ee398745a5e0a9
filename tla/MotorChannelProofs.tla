------------------------- MODULE MotorChannelProofs -------------------------
(***************************************************************************)
(* The safety of the motor command channel, for every limit of the scheduler *)
(* and of erased records and every number of commands and events.            *)
(***************************************************************************)
EXTENDS MotorChannel, TLAPS

----------------------------------------------------------------------------
(* The invariant *)

\* What a channel c is to its exchange e, with k the packet of the write under way and h the last
\* command the mailbox took.  A sent command was taken as it stands, and the scheduler has not
\* repeated it; what is ready to be written is the pending command; a queued packet of the channel
\* is one it still wants written, and does not change while it is.
Linked(c, e, k, h) ==
    /\ c.sent => c.pending # 0 /\ ~c.reset /\ c.repeats = 0 /\ h = CommandPacket(c)
    /\ c.repeats <= 1
    /\ c.pending # 0 /\ ~c.reset => c.transmit = CommandPacket(c)
    /\ e.slot = "transmit" => Busy(c) /\ ~c.sent /\ e.length = Length(c.transmit)
    /\ e.phase = "writeWait" => e.slot # "none"
    /\ e.phase = "writeWait" /\ e.slot = "transmit" => k = c.transmit
    /\ e.phase = "writeWait" /\ e.slot = "control" => k.kind # "command"

Typed(c, e) == c \in ChannelType /\ e \in ExchangeType

\* A deferred upload has no response before it: nothing but room in the channel is missing.
DeferredWaits == deferred # 0 => ~response

IInv == /\ TypeOK
        /\ Linked(channel, exchange, carried, handed)
        /\ control.kind # "command"
        /\ DeferredWaits

LEMMA Implied == IInv => WritesAreOwn /\ WatchdogNeverResets
  BY DEF IInv, Linked, WritesAreOwn, WatchdogNeverResets

LEMMA Zeros == /\ 0 \in CommandOrNone /\ 0 \in Retries /\ 0 \in Repeats /\ 0 \in ErasedCount
               /\ 0 \in Number /\ 1 .. MaxCommands \subseteq CommandOrNone
  BY ChannelAssumption DEF CommandOrNone, Retries, Repeats, ErasedCount, Number

LEMMA InitLinked == ASSUME NEW k, NEW h
                    PROVE  /\ Typed(InitChannel, InitExchange) /\ ~Busy(InitChannel)
                           /\ Linked(InitChannel, InitExchange, k, h)
<1>1. NoPacket \in AnyPacket
  BY Zeros DEF NoPacket, Packet, AnyPacket
<1> QED
  BY <1>1, Zeros DEF Typed, ChannelType, ExchangeType, InitChannel, InitExchange, Linked, Busy

LEMMA InitInv == Init => IInv
<1> SUFFICES ASSUME Init PROVE IInv
  OBVIOUS
<1>1. NoPacket \in AnyPacket
  BY Zeros DEF NoPacket, Packet, AnyPacket
<1>2. Typed(InitChannel, InitExchange) /\ Linked(InitChannel, InitExchange, NoPacket, NoPacket)
  BY InitLinked
<1>3. 0 \in CommandOrNone /\ 0 \in 0 .. MaxEvents
  BY Zeros, ChannelAssumption
<1>4. TypeOK
  BY <1>1, <1>2, <1>3 DEF Init, TypeOK, Typed, InitChannel, InitExchange
<1>5. NoPacket.kind # "command"
  BY DEF NoPacket, Packet
<1> QED
  BY <1>2, <1>4, <1>5 DEF Init, IInv, DeferredWaits

----------------------------------------------------------------------------
(* The operations of the channel *)

LEMMA PacketTypes == /\ NoPacket \in AnyPacket /\ ResetPacket \in AnyPacket
                     /\ Packet("retry", 0, 0) \in AnyPacket /\ Packet("ack", 0, 0) \in AnyPacket
  BY Zeros DEF NoPacket, ResetPacket, Packet, AnyPacket

LEMMA CommandPacketType == ASSUME NEW c \in ChannelType PROVE CommandPacket(c) \in AnyPacket
  BY DEF Packet, CommandPacket, AnyPacket, ChannelType

LEMMA PreviousType == ASSUME NEW n \in Number PROVE Previous(n) \in Number
  BY DEF Previous, Number

LEMMA QueuedType == ASSUME NEW c \in ChannelType, NEW id \in 1 .. MaxCommands
                    PROVE  LET q == Queued(c, id)
                           IN  /\ q \in ChannelType /\ q.pending = id /\ q.reset = c.reset
                               /\ ~q.sent /\ q.repeats = 0 /\ q.transmit = CommandPacket(q)
<1> DEFINE next == [c EXCEPT !.pending = id, !.sent = FALSE, !.number = (@ + 1) % 4,
                             !.retries = 0, !.repeats = 0]
<1>0. id \in CommandOrNone /\ (c.number + 1) % 4 \in Number
  BY Zeros DEF ChannelType, Number
<1>1. next \in ChannelType /\ next.pending = id /\ next.reset = c.reset /\ ~next.sent
      /\ next.repeats = 0
  BY <1>0, Zeros DEF ChannelType
<1>2. CommandPacket(next) \in AnyPacket
  BY <1>1, CommandPacketType
<1>3. Queued(c, id) = [next EXCEPT !.transmit = CommandPacket(next)]
  BY DEF Queued
<1> HIDE DEF next
<1>4. CommandPacket([next EXCEPT !.transmit = CommandPacket(next)]) = CommandPacket(next)
  BY <1>1 DEF CommandPacket, ChannelType
<1> QED
  BY <1>1, <1>2, <1>3, <1>4 DEF ChannelType

LEMMA RequeuedType == ASSUME NEW c \in ChannelType
                      PROVE  LET r == Requeued(c)
                             IN  /\ r \in ChannelType /\ ~r.sent /\ r.transmit = CommandPacket(r)
                                 /\ r.pending = c.pending /\ r.reset = c.reset
                                 /\ r.repeats = c.repeats
<1>1. CommandPacket(Requeued(c)) = CommandPacket(c)
  BY DEF Requeued, CommandPacket, ChannelType
<1> QED
  BY <1>1, CommandPacketType DEF Requeued, ChannelType

LEMMA RecoveredType == ASSUME NEW c \in ChannelType
                       PROVE  LET r == Recovered(c)
                              IN  /\ r \in ChannelType /\ ~r.sent /\ r.transmit = ResetPacket
                                  /\ r.pending = c.pending /\ r.reset /\ r.repeats = c.repeats
  BY PacketTypes, Zeros DEF Recovered, ChannelType

----------------------------------------------------------------------------
(* Packets of the peer *)

\* A channel whose sent command is pending without a reset, and which has the pending command
\* ready: what Linked says of the channel alone.
Shaped(c) == /\ c \in ChannelType
             /\ c.sent => c.pending # 0 /\ ~c.reset
             /\ c.pending # 0 /\ ~c.reset => c.transmit = CommandPacket(c)

\* What accepting a packet may make of a channel c.  Only a command that was sent can stay so, with
\* its number; a packet that was wanted still is; and nothing is rebuilt without being queued.
AcceptedWell(c, o) ==
    /\ Shaped(o.channel) /\ o.channel.repeats \in {0, c.repeats}
    /\ o.control \in AnyPacket /\ o.control.kind # "command"
    /\ o.write \in {"none", "transmit", "control"} /\ o.response \in BOOLEAN
    /\ o.channel.sent => c.sent /\ CommandPacket(o.channel) = CommandPacket(c)
    /\ Busy(o.channel) => Busy(c) \/ o.write = "transmit"
    /\ o.write = "transmit" => Busy(o.channel) /\ ~o.channel.sent
    /\ o.write # "transmit" /\ Busy(c) /\ ~c.sent =>
           Busy(o.channel) /\ ~o.channel.sent /\ o.channel.transmit = c.transmit

\* The commonest ways to leave a channel.
LEMMA LeftAlone == ASSUME NEW c, Shaped(c), NEW d, d \in ChannelType, d.repeats \in {0, c.repeats},
                          d.transmit = c.transmit, d.pending = c.pending, d.reset = c.reset,
                          d.sent = c.sent, c.pending = 0 \/ c.reset \/ d.number = c.number,
                          control \in AnyPacket, control.kind # "command"
                   PROVE  AcceptedWell(c, Outcome(d, "none"))
  BY DEF Shaped, AcceptedWell, Outcome, Busy, CommandPacket

LEMMA RequeuedWell == ASSUME NEW c, Shaped(c), NEW d \in ChannelType, d.repeats \in {0, c.repeats},
                             d.pending = c.pending, d.reset = c.reset, c.pending # 0,
                             control \in AnyPacket, control.kind # "command"
                      PROVE  AcceptedWell(c, Outcome(Requeued(d), "transmit"))
<1> DEFINE r == Requeued(d)
<1>1. /\ r \in ChannelType /\ ~r.sent /\ r.transmit = CommandPacket(r)
      /\ r.pending = d.pending /\ r.reset = d.reset /\ r.repeats = d.repeats
  BY RequeuedType
<1> HIDE DEF r
<1>2. AcceptedWell(c, Outcome(r, "transmit"))
  BY <1>1 DEF Shaped, AcceptedWell, Outcome, Busy
<1> QED
  BY <1>2 DEF r

LEMMA RecoveredWell == ASSUME NEW c, Shaped(c), NEW d \in ChannelType, d.repeats \in {0, c.repeats},
                              d.pending = c.pending, c.pending # 0,
                              control \in AnyPacket, control.kind # "command"
                       PROVE  AcceptedWell(c, Outcome(Recovered(d), "transmit"))
<1> DEFINE r == Recovered(d)
<1>1. /\ r \in ChannelType /\ ~r.sent /\ r.transmit = ResetPacket
      /\ r.pending = d.pending /\ r.reset /\ r.repeats = d.repeats
  BY RecoveredType
<1> HIDE DEF r
<1>2. AcceptedWell(c, Outcome(r, "transmit"))
  BY <1>1 DEF Shaped, AcceptedWell, Outcome, Busy
<1> QED
  BY <1>2 DEF r

\* An answer ends a command that was sent, and nothing else.
LEMMA AnsweredShaped ==
    ASSUME NEW c, Shaped(c)
    PROVE  LET a == Answered([c EXCEPT !.retries = 0])
           IN  /\ Shaped(a) /\ a.repeats = c.repeats /\ ~a.sent
               /\ Busy(a) => Busy(c)
               /\ Busy(c) /\ ~c.sent => Busy(a) /\ a.transmit = c.transmit
<1> DEFINE b == [c EXCEPT !.retries = 0]
<1>1. /\ b \in ChannelType /\ b.repeats = c.repeats /\ b.transmit = c.transmit
      /\ b.pending = c.pending /\ b.reset = c.reset /\ b.sent = c.sent /\ b.number = c.number
  BY Zeros DEF Shaped, ChannelType
<1> HIDE DEF b
<1>2. CASE b.sent
  <2>1. Answered(b) = [b EXCEPT !.pending = 0, !.sent = FALSE]
    BY <1>2 DEF Answered
  <2>2. [b EXCEPT !.pending = 0, !.sent = FALSE] \in ChannelType
    BY <1>1, Zeros DEF ChannelType
  <2> QED
    BY <1>1, <1>2, <2>1, <2>2 DEF Shaped, ChannelType, Busy, b
<1>3. CASE ~b.sent
  BY <1>1, <1>3 DEF Answered, Shaped, Busy, CommandPacket, b
<1> QED
  BY <1>2, <1>3

LEMMA AckWell == ASSUME NEW c, Shaped(c), NEW n \in Number,
                        control \in AnyPacket, control.kind # "command"
                 PROVE  AcceptedWell(c, AcceptAck(c, n))
<1>1. CASE n = Previous(c.number)
  <2> DEFINE a == Answered([c EXCEPT !.retries = 0])
  <2>1. /\ Shaped(a) /\ a.repeats = c.repeats /\ ~a.sent
        /\ Busy(a) => Busy(c)
        /\ Busy(c) /\ ~c.sent => Busy(a) /\ a.transmit = c.transmit
    BY AnsweredShaped
  <2>2. AcceptAck(c, n) = Outcome(a, "none")
    BY <1>1 DEF AcceptAck
  <2> HIDE DEF a
  <2> QED
    BY <2>1, <2>2 DEF AcceptedWell, Outcome
<1>2. CASE n # Previous(c.number)
  <2> DEFINE back == [c EXCEPT !.retries = 0, !.number = Previous(@)]
  <2>1. back \in ChannelType
    <3>1. c \in ChannelType /\ Previous(c.number) \in Number
      BY PreviousType DEF Shaped, ChannelType
    <3> QED
      BY <3>1, Zeros DEF ChannelType
  <2>2. /\ back.repeats = c.repeats /\ back.transmit = c.transmit /\ back.pending = c.pending
        /\ back.reset = c.reset /\ back.sent = c.sent
    BY DEF Shaped, ChannelType
  <2>3. AcceptAck(c, n) = IF c.pending # 0 THEN Outcome(Requeued(back), "transmit")
                          ELSE Outcome(back, "none")
    BY <1>2 DEF AcceptAck
  <2> HIDE DEF back
  <2> QED
    BY <2>1, <2>2, <2>3, RequeuedWell, LeftAlone
<1> QED
  BY <1>1, <1>2

LEMMA RetryWell == ASSUME NEW c, Shaped(c), NEW n \in Number,
                          control \in AnyPacket, control.kind # "command"
                   PROVE  AcceptedWell(c, AcceptRetry(c, n))
<1> DEFINE set == [c EXCEPT !.number = n]
<1>1. /\ set \in ChannelType /\ set.repeats = c.repeats /\ set.transmit = c.transmit
      /\ set.pending = c.pending /\ set.reset = c.reset /\ set.sent = c.sent
  BY DEF Shaped, ChannelType
<1>2. CASE c.pending = 0 /\ c.reset
  <2>1. AcceptRetry(c, n) = Outcome(set, "none")
    BY <1>2 DEF AcceptRetry
  <2> QED
    BY <1>1, <1>2, <2>1, LeftAlone
<1>3. CASE c.pending = 0 /\ ~c.reset
  <2> DEFINE d == Resetting(set)
  <2>1. AcceptRetry(c, n) = Outcome(d, "transmit")
    BY <1>3 DEF AcceptRetry
  <2>2. d \in ChannelType /\ d.repeats = c.repeats /\ d.pending = 0 /\ d.reset /\ ~d.sent
    BY <1>1, <1>3, PacketTypes DEF Resetting, Shaped, ChannelType
  <2> HIDE DEF d
  <2> QED
    BY <2>1, <2>2 DEF AcceptedWell, Shaped, Outcome, Busy
<1>4. CASE c.pending # 0 /\ c.retries <= 1
  <2>1. AcceptRetry(c, n) = Outcome(Requeued(set), "transmit")
    BY <1>4 DEF AcceptRetry, Shaped, ChannelType, Retries
  <2> QED
    BY <1>1, <1>4, <2>1, RequeuedWell
<1>5. CASE c.pending # 0 /\ c.retries > 1
  <2>1. AcceptRetry(c, n) = IF Recovering(set) THEN Outcome(Recovered(set), "transmit")
                            ELSE Outcome(set, "none")
    BY <1>5 DEF AcceptRetry, Shaped, ChannelType, Retries
  <2>2. Recovering(set) \/ c.reset
    BY <1>1, <1>5 DEF Recovering
  <2> HIDE DEF set
  <2> QED
    BY <1>1, <1>5, <2>1, <2>2, RecoveredWell, LeftAlone
<1> QED
  BY <1>2, <1>3, <1>4, <1>5 DEF Shaped, ChannelType, Retries

LEMMA ResetWell == ASSUME NEW c, Shaped(c), control \in AnyPacket, control.kind # "command"
                   PROVE  AcceptedWell(c, AcceptReset(c))
<1> DEFINE start == [c EXCEPT !.number = 0, !.repeats = 0,
                              !.retries = IF c.pending = 0 THEN 0 ELSE IF @ < 2 THEN @ + 1 ELSE @]
<1> DEFINE count == IF c.pending = 0 THEN 0 ELSE IF c.retries < 2 THEN c.retries + 1 ELSE c.retries
<1>1. count \in Retries
  BY DEF Shaped, ChannelType, Retries
<1>2. /\ start \in ChannelType /\ start.transmit = c.transmit /\ start.repeats = 0
      /\ start.pending = c.pending /\ start.reset = c.reset /\ start.sent = c.sent
  BY <1>1, Zeros DEF Shaped, ChannelType
<1> HIDE DEF count
<1>3. CASE c.pending = 0
  <2>1. AcceptReset(c) = Outcome(start, "none")
    BY <1>2, <1>3 DEF AcceptReset
  <2> HIDE DEF start
  <2> QED
    BY <1>2, <1>3, <2>1, LeftAlone
<1>4. CASE c.pending # 0
  <2>1. start.retries \in 0 .. 2
    BY <1>2 DEF ChannelType, Retries
  <2>2. CASE start.retries <= 1
    <3>1. AcceptReset(c) = Outcome(Requeued(start), "transmit")
      BY <1>4, <2>1, <2>2 DEF AcceptReset
    <3> HIDE DEF start
    <3> QED
      BY <1>2, <1>4, <3>1, RequeuedWell
  <2>3. CASE start.retries > 1
    <3>1. AcceptReset(c) = IF Recovering(start) THEN Outcome(Recovered(start), "transmit")
                           ELSE Outcome(start, "none")
      BY <1>4, <2>1, <2>3 DEF AcceptReset
    <3> HIDE DEF start
    <3>2. Recovering(start) \/ c.reset
      BY <1>2, <1>4 DEF Recovering
    <3> QED
      BY <1>2, <1>4, <3>1, <3>2, RecoveredWell, LeftAlone
  <2> HIDE DEF start
  <2> QED
    BY <2>1, <2>2, <2>3
<1> QED
  BY <1>3, <1>4

LEMMA ControlledWell ==
    ASSUME NEW c, Shaped(c), NEW d, Shaped(d), d.repeats = c.repeats,
           NEW kind \in {"retry", "ack"}, NEW forward \in BOOLEAN,
           d.sent => c.sent /\ CommandPacket(d) = CommandPacket(c),
           Busy(d) => Busy(c),
           Busy(c) /\ ~c.sent => Busy(d) /\ ~d.sent /\ d.transmit = c.transmit
    PROVE  AcceptedWell(c, Controlled(d, kind, forward))
  BY PacketTypes DEF AcceptedWell, Controlled, Packet

LEMMA InvalidWell == ASSUME NEW c, Shaped(c), NEW decoding \in BOOLEAN
                     PROVE  AcceptedWell(c, AcceptInvalid(c, decoding))
<1> DEFINE d == IF decoding THEN [c EXCEPT !.retries = 0] ELSE c
<1>1. /\ d \in ChannelType /\ d.repeats = c.repeats /\ d.transmit = c.transmit
      /\ d.pending = c.pending /\ d.reset = c.reset /\ d.sent = c.sent /\ d.number = c.number
  BY Zeros DEF Shaped, ChannelType
<1>2. AcceptInvalid(c, decoding) = Controlled(d, "retry", FALSE)
  BY DEF AcceptInvalid
<1> HIDE DEF d
<1>3. Shaped(d) /\ CommandPacket(d) = CommandPacket(c) /\ (Busy(d) <=> Busy(c))
  BY <1>1 DEF Shaped, CommandPacket, Busy
<1> QED
  BY <1>1, <1>2, <1>3, ControlledWell

LEMMA PayloadWell == ASSUME NEW c, Shaped(c), NEW forward \in BOOLEAN
                     PROVE  AcceptedWell(c, AcceptPayload(c, forward))
<1> DEFINE a == Answered([c EXCEPT !.retries = 0])
<1>1. /\ Shaped(a) /\ a.repeats = c.repeats /\ ~a.sent
      /\ Busy(a) => Busy(c)
      /\ Busy(c) /\ ~c.sent => Busy(a) /\ a.transmit = c.transmit
  BY AnsweredShaped
<1>2. AcceptPayload(c, forward) = Controlled(a, "ack", forward)
  BY DEF AcceptPayload
<1> HIDE DEF a
<1> QED
  BY <1>1, <1>2, ControlledWell

LEMMA AllAcceptedWell == ASSUME NEW c, Shaped(c), control \in AnyPacket, control.kind # "command",
                                NEW o \in Accepted(c)
                         PROVE  AcceptedWell(c, o)
<1>1. CASE o \in {AcceptAck(c, n) : n \in Number}
  BY <1>1, AckWell
<1>2. CASE o \in {AcceptRetry(c, n) : n \in Number}
  BY <1>2, RetryWell
<1>3. CASE o \in {AcceptInvalid(c, decoding) : decoding \in BOOLEAN}
  BY <1>3, InvalidWell
<1>4. CASE o \in {AcceptPayload(c, forward) : forward \in BOOLEAN}
  BY <1>4, PayloadWell
<1>5. CASE o = AcceptReset(c)
  BY <1>5, ResetWell
<1> QED
  BY <1>1, <1>2, <1>3, <1>4, <1>5 DEF Accepted

----------------------------------------------------------------------------
(* The operations of the exchange *)

LEMMA EnqueuedResult ==
    ASSUME NEW c \in ChannelType, NEW e \in ExchangeType, NEW slot \in {"transmit", "control"}
    PROVE  LET f == Enqueued(e, slot, c)
           IN  /\ f \in ExchangeType /\ f.phase = e.phase /\ f.slot = slot
               /\ slot = "transmit" => f.length = Length(c.transmit)
<1>1. Length(PacketIn(slot, c)) \in CommandOrNone
  BY PacketTypes DEF Length, PacketIn, ChannelType, AnyPacket
<1> QED
  BY <1>1 DEF Enqueued, ExchangeType, PacketIn

\* From an exchange that writes nothing, the packet is queued, or one of the channel stays.
LEMMA QueuedFirstResult ==
    ASSUME NEW c \in ChannelType, NEW e \in ExchangeType, e.phase = "control",
           NEW slot \in {"transmit", "control"}
    PROVE  LET f == QueuedFirst(e, slot, c)
           IN  /\ f \in ExchangeType /\ f.phase = "control"
               /\ f.slot = "transmit" => \/ slot = "transmit" /\ f.length = Length(c.transmit)
                                         \/ slot = "control" /\ e.slot = "transmit"
                                            /\ f.length = e.length
<1>1. CASE e.slot \in {"none", slot}
  <2>1. QueuedFirst(e, slot, c) = Enqueued(e, slot, c)
    BY <1>1 DEF QueuedFirst, Enqueue, CanEnqueue
  <2> QED
    BY <2>1, EnqueuedResult
<1>2. CASE e.slot \notin {"none", slot} /\ e.slot = "transmit" /\ Busy(c)
  <2> DEFINE free == [e EXCEPT !.slot = "none"]
  <2>1. free \in ExchangeType /\ free.phase = "control"
    BY DEF ExchangeType
  <2>2. QueuedFirst(e, slot, c) = Enqueued(free, slot, c)
    BY <1>2 DEF QueuedFirst
  <2>3. slot = "control"
    BY <1>2
  <2> HIDE DEF free
  <2> QED
    BY <2>1, <2>2, <2>3, EnqueuedResult
<1>3. CASE e.slot \notin {"none", slot} /\ ~(e.slot = "transmit" /\ Busy(c))
  BY <1>3 DEF QueuedFirst
<1> QED
  BY <1>1, <1>2, <1>3

LEMMA AskingResult == ASSUME NEW e \in ExchangeType
                      PROVE  /\ Asking(e) \in ExchangeType /\ Asking(e).phase = "control"
                             /\ Asking(e).slot = e.slot /\ Asking(e).length = e.length
  BY DEF Asking, ExchangeType

LEMMA CalmResult == ASSUME NEW e \in ExchangeType
                    PROVE  /\ Calm(e) \in ExchangeType /\ Calm(e).phase = e.phase
                           /\ Calm(e).slot = e.slot /\ Calm(e).length = e.length
  BY Zeros DEF Calm, ExchangeType

\* A channel without room takes nothing from the host, and one with room has nothing queued.
LEMMA QueuedLinked ==
    ASSUME NEW c, NEW e, NEW k, NEW h, Typed(c, e), Linked(c, e, k, h), ~Busy(c),
           NEW id \in 1 .. MaxCommands
    PROVE  /\ Typed(Queued(c, id), e) /\ Linked(Queued(c, id), e, k, h)
           /\ Queued(c, id).repeats = 0
<1> DEFINE q == Queued(c, id)
<1>1. /\ q \in ChannelType /\ q.pending = id /\ q.reset = c.reset
      /\ ~q.sent /\ q.repeats = 0 /\ q.transmit = CommandPacket(q)
  BY QueuedType DEF Typed
<1>2. e.slot # "transmit"
  BY DEF Linked
<1> HIDE DEF q
<1>3. Typed(q, e) /\ Linked(q, e, k, h)
  BY <1>1, <1>2 DEF Typed, Linked
<1> QED
  BY <1>1, <1>3 DEF q

LEMMA EnqueueLinked ==
    ASSUME NEW c, NEW e, NEW k, NEW h, Typed(c, e), Linked(c, e, k, h), Busy(c), ~c.sent
    PROVE  /\ Typed(c, Enqueue(e, "transmit", c)) /\ Linked(c, Enqueue(e, "transmit", c), k, h)
           /\ Enqueue(e, "transmit", c).phase = e.phase
<1> DEFINE f == Enqueued(e, "transmit", c)
<1>1. /\ f \in ExchangeType /\ f.phase = e.phase /\ f.slot = "transmit"
      /\ f.length = Length(c.transmit)
  BY EnqueuedResult DEF Typed
<1>2. CASE CanEnqueue(e, "transmit")
  <2>1. Enqueue(e, "transmit", c) = f
    BY <1>2 DEF Enqueue
  <2>2. e.phase # "writeWait"
    BY <1>2 DEF CanEnqueue, Linked
  <2> HIDE DEF f
  <2> QED
    BY <1>1, <2>1, <2>2 DEF Typed, Linked
<1>3. CASE ~CanEnqueue(e, "transmit")
  BY <1>3 DEF Enqueue
<1> QED
  BY <1>2, <1>3

----------------------------------------------------------------------------
(* A run of the mailbox, up to its exchange *)

LEMMA FedLinked == IInv => Typed(Fed, exchange) /\ Linked(Fed, exchange, carried, handed)
<1> SUFFICES ASSUME IInv PROVE Typed(Fed, exchange) /\ Linked(Fed, exchange, carried, handed)
  OBVIOUS
<1>1. Typed(channel, exchange) /\ Linked(channel, exchange, carried, handed)
  BY DEF IInv, TypeOK, Typed
<1>2. deferred # 0 => deferred \in 1 .. MaxCommands
  BY DEF IInv, TypeOK, CommandOrNone
<1> QED
  BY <1>1, <1>2, QueuedLinked DEF Fed

\* The scheduler repeats a command once, and what it repeats is not being written.
LEMMA ScheduledLinked ==
    ASSUME NEW c, NEW e, NEW k, NEW h, Typed(c, e), Linked(c, e, k, h), NEW fires \in BOOLEAN
    PROVE  /\ Typed(Scheduled(c, fires), e) /\ Linked(Scheduled(c, fires), e, k, h)
           /\ Scheduled(c, fires).repeats = 1 => e.slot # "transmit"
<1>1. CASE ~Awaiting(c)
  <2> DEFINE d == [c EXCEPT !.repeats = 0]
  <2>1. Scheduled(c, fires) = d
    BY <1>1 DEF Scheduled
  <2>2. /\ d \in ChannelType /\ d.repeats = 0 /\ d.transmit = c.transmit /\ d.pending = c.pending
        /\ d.reset = c.reset /\ d.sent = c.sent /\ d.number = c.number
    BY Zeros DEF Typed, ChannelType
  <2> HIDE DEF d
  <2> QED
    BY <2>1, <2>2 DEF Typed, Linked, Busy, CommandPacket
<1>2. CASE Awaiting(c) /\ ~fires
  <2>1. Scheduled(c, fires) = c
    BY <1>2 DEF Scheduled
  <2> QED
    BY <1>2, <2>1 DEF Linked, Awaiting
<1>3. CASE Awaiting(c) /\ fires
  <2> DEFINE d == [c EXCEPT !.repeats = 1]
             r == Requeued(d)
  <2>1. c.repeats = 0 /\ c.pending # 0 /\ ~c.reset /\ e.slot # "transmit"
    BY <1>3 DEF Awaiting, Linked
  <2>2. 1 \in Repeats /\ 0 < RetryLimit
    BY ChannelAssumption DEF Repeats
  <2>3. Scheduled(c, fires) = r
    BY <1>3, <2>1, <2>2 DEF Scheduled
  <2>4. d \in ChannelType /\ d.repeats = 1 /\ d.pending = c.pending /\ d.reset = c.reset
    BY <2>2 DEF Typed, ChannelType
  <2> HIDE DEF d
  <2>5. /\ r \in ChannelType /\ ~r.sent /\ r.transmit = CommandPacket(r)
        /\ r.pending = c.pending /\ r.reset = c.reset /\ r.repeats = 1
    BY <2>4, RequeuedType
  <2> HIDE DEF r
  <2> QED
    BY <2>1, <2>3, <2>5 DEF Typed, Linked
<1> QED
  BY <1>1, <1>2, <1>3

\* What a run hands to its exchange.
Ready(c, e) == /\ Typed(c, e) /\ Linked(c, e, carried, handed)
               /\ c.repeats = 1 => ~(e.phase = "writeWait" /\ e.slot = "transmit")

LEMMA RunReady ==
    ASSUME NEW d, Typed(d, exchange), Linked(d, exchange, carried, handed), NEW fires \in BOOLEAN
    PROVE  LET c == Scheduled(d, fires) IN Ready(c, WithPending(exchange, c))
<1> DEFINE c == Scheduled(d, fires)
<1>1. /\ Typed(c, exchange) /\ Linked(c, exchange, carried, handed)
      /\ c.repeats = 1 => exchange.slot # "transmit"
  BY ScheduledLinked
<1> HIDE DEF c
<1>2. CASE exchange.phase = "control" /\ exchange.slot = "none"
           /\ (c.reset \/ (c.pending # 0 /\ ~c.sent))
  <2>1. WithPending(exchange, c) = Enqueue(exchange, "transmit", c)
    BY <1>2 DEF WithPending
  <2>2. Busy(c) /\ ~c.sent
    BY <1>1, <1>2 DEF Busy, Linked
  <2>3. Ready(c, WithPending(exchange, c))
    BY <1>1, <1>2, <2>1, <2>2, EnqueueLinked DEF Ready
  <2> QED
    BY <2>3 DEF c
<1>3. CASE ~(exchange.phase = "control" /\ exchange.slot = "none"
             /\ (c.reset \/ (c.pending # 0 /\ ~c.sent)))
  <2>1. Ready(c, WithPending(exchange, c))
    BY <1>1, <1>3 DEF WithPending, Ready
  <2> QED
    BY <2>1 DEF c
<1> QED
  BY <1>2, <1>3

----------------------------------------------------------------------------
(* The outcomes of a run *)

\* What a run of the mailbox leaves.
After == /\ Typed(channel', exchange') /\ Linked(channel', exchange', carried', handed')
         /\ control' \in AnyPacket /\ control'.kind # "command"
         /\ carried' \in AnyPacket /\ handed' \in AnyPacket
         /\ response' \in BOOLEAN /\ owned' \in BOOLEAN /\ events' \in 0 .. MaxEvents
         /\ startup # "off" => response' = response

Before == IInv /\ owned

LEMMA Untouched == Before => /\ control \in AnyPacket /\ control.kind # "command"
                             /\ carried \in AnyPacket /\ handed \in AnyPacket
                             /\ response \in BOOLEAN /\ owned \in BOOLEAN
                             /\ events \in 0 .. MaxEvents
  BY DEF Before, IInv, TypeOK

LEMMA EventType == Before /\ Event => events' \in 0 .. MaxEvents
  BY ChannelAssumption DEF Before, IInv, TypeOK, Event

\* An exchange that goes on without writing keeps the channel linked.
LEMMA GoesOn ==
    ASSUME NEW c, NEW e, NEW f, Ready(c, e), f \in ExchangeType, f.phase # "writeWait",
           f.slot = e.slot, f.length = e.length
    PROVE  Typed(c, f) /\ Linked(c, f, carried, handed)
  BY DEF Ready, Typed, Linked

LEMMA AsksAfter == ASSUME NEW c, NEW e, Before, Ready(c, e), Asks(c, e) PROVE After
<1> DEFINE f == [e EXCEPT !.phase = "controlWait"]
<1>1. f \in ExchangeType /\ f.phase = "controlWait" /\ f.slot = e.slot /\ f.length = e.length
  BY DEF Ready, Typed, ExchangeType
<1> HIDE DEF f
<1>2. Typed(c, f) /\ Linked(c, f, carried, handed)
  BY <1>1, GoesOn
<1> QED
  BY <1>2, Untouched DEF Asks, After, Before, f

LEMMA BusyAfter == ASSUME NEW c, NEW e, Before, Ready(c, e), StillBusy(c, e) PROVE After
  BY Untouched DEF StillBusy, After, Before, Ready

LEMMA FailsAfter == ASSUME NEW c, NEW e, Before, Ready(c, e), Fails(c, e) PROVE After
<1> DEFINE again == e.slot = "transmit" /\ ~c.reset /\ c.pending # 0
           kept == IF e.phase = "writeWait" /\ again THEN Requeued(c) ELSE c
<1>1. /\ Typed(c, e) /\ Linked(c, e, carried, handed)
      /\ Asking(e) \in ExchangeType /\ Asking(e).phase = "control"
      /\ Asking(e).slot = e.slot /\ Asking(e).length = e.length
  BY AskingResult DEF Ready, Typed
<1>2. /\ kept \in ChannelType /\ kept.transmit = c.transmit 
      /\ Linked(kept, Asking(e), carried, handed)
  <2>1. CASE e.phase = "writeWait" /\ again
    <3> DEFINE r == Requeued(c)
    <3>1. /\ r \in ChannelType /\ ~r.sent /\ r.transmit = CommandPacket(r)
          /\ r.pending = c.pending /\ r.reset = c.reset /\ r.repeats = c.repeats
      BY <1>1, RequeuedType DEF Typed
    <3>2. r.transmit = CommandPacket(c)
      BY DEF Requeued, Ready, Typed, ChannelType
    <3> HIDE DEF r
    <3> QED
      BY <1>1, <2>1, <3>1, <3>2 DEF Linked, Busy, r
  <2>2. CASE ~(e.phase = "writeWait" /\ again)
    BY <1>1, <2>2 DEF Typed, Linked
  <2> QED
    BY <2>1, <2>2
<1>3. channel' = kept /\ events' \in 0 .. MaxEvents /\ UNCHANGED <<carried, owned, response, handed>>
  BY EventType DEF Fails
<1> HIDE DEF kept
<1>4. control' \in AnyPacket /\ control'.kind # "command"
  BY Untouched, PacketTypes DEF Fails, Packet
<1>5. Typed(kept, exchange') /\ Linked(kept, exchange', carried, handed)
  <2>1. CASE e.phase = "readWait"
    <3> DEFINE f == QueuedFirst(Asking(e), "control", c)
    <3>1. /\ f \in ExchangeType /\ f.phase = "control"
          /\ f.slot = "transmit" => Asking(e).slot = "transmit" /\ f.length = Asking(e).length
      BY <1>1, QueuedFirstResult DEF Typed
    <3>2. exchange' = f
      BY <2>1 DEF Fails
    <3> HIDE DEF f
    <3> QED
      BY <1>2, <3>1, <3>2 DEF Typed, Linked
  <2>2. CASE e.phase # "readWait"
    <3>1. exchange' = Asking(e)
      BY <2>2 DEF Fails
    <3> QED
      BY <1>1, <1>2, <3>1 DEF Typed
  <2> QED
    BY <2>1, <2>2
<1> QED
  BY <1>3, <1>4, <1>5, Untouched DEF After, Before

LEMMA ErasedAfter == ASSUME NEW c, NEW e, Before, Ready(c, e), Erased(c, e) PROVE After
<1>1. events' \in 0 .. MaxEvents /\ UNCHANGED <<control, carried, response, handed>>
  BY EventType DEF Erased
<1>2. CASE e.erased < SentinelLimit
  <2> DEFINE f == [Asking(e) EXCEPT !.erased = @ + 1]
  <2>1. e.erased + 1 \in ErasedCount
    BY <1>2, ChannelAssumption DEF Ready, Typed, ExchangeType, ErasedCount
  <2>2. Asking(e).erased = e.erased
    BY DEF Asking, Ready, Typed, ExchangeType
  <2>3. f \in ExchangeType /\ f.phase = "control" /\ f.slot = e.slot /\ f.length = e.length
    BY <2>1, <2>2, AskingResult DEF Ready, Typed, ExchangeType
  <2>4. exchange' = f /\ channel' = c /\ owned' = owned
    BY <1>2 DEF Erased
  <2> HIDE DEF f
  <2>5. Typed(c, f) /\ Linked(c, f, carried, handed)
    BY <2>3, GoesOn
  <2> QED
    BY <1>1, <2>4, <2>5, Untouched DEF After, Before
<1>3. CASE ~(e.erased < SentinelLimit)
  <2>1. exchange' = InitExchange /\ channel' = InitChannel /\ owned' = FALSE
    BY <1>3 DEF Erased
  <2>2. /\ Typed(InitChannel, InitExchange) /\ Linked(InitChannel, InitExchange, carried, handed)
        /\ ~Busy(InitChannel)
    BY InitLinked
  <2> QED
    BY <1>1, <2>1, <2>2, Untouched DEF After
<1> QED
  BY <1>2, <1>3

LEMMA PatienceAfter == ASSUME NEW c, NEW e, Before, Ready(c, e), Patience(c, e) PROVE After
<1> DEFINE f == [e EXCEPT !.erased = 0, !.retried = ~@,
                          !.phase = IF e.retried THEN "statusWait" ELSE "control"]
<1>1. /\ f \in ExchangeType /\ f.phase \in {"statusWait", "control"}
      /\ f.slot = e.slot /\ f.length = e.length
  BY Zeros DEF Ready, Typed, ExchangeType
<1>2. exchange' = f /\ channel' = c /\ events' \in 0 .. MaxEvents
      /\ UNCHANGED <<control, carried, owned, response, handed>>
  BY EventType DEF Patience
<1> HIDE DEF f
<1>3. Typed(c, f) /\ Linked(c, f, carried, handed)
  BY <1>1, GoesOn
<1> QED
  BY <1>2, <1>3, Untouched DEF After, Before

LEMMA AnnouncesAfter == ASSUME NEW c, NEW e, Before, Ready(c, e), Announces(c, e) PROVE After
<1>1. PICK phase \in {"readWait", "control"} : exchange' = [Calm(e) EXCEPT !.phase = phase]
  BY DEF Announces
<1> DEFINE f == [Calm(e) EXCEPT !.phase = phase]
<1>2. f \in ExchangeType /\ f.phase = phase /\ f.slot = e.slot /\ f.length = e.length
  BY CalmResult DEF Ready, Typed, ExchangeType
<1>3. exchange' = f /\ channel' = c /\ events' \in 0 .. MaxEvents
      /\ UNCHANGED <<control, carried, owned, response, handed>>
  BY <1>1, EventType DEF Announces
<1> HIDE DEF f
<1>4. Typed(c, f) /\ Linked(c, f, carried, handed)
  BY <1>2, GoesOn
<1> QED
  BY <1>3, <1>4, Untouched DEF After, Before

LEMMA TurnAfter == ASSUME NEW c, NEW e, Before, Ready(c, e), Turn(c, e) PROVE After
<1>1. channel' = c /\ UNCHANGED <<control, owned, response, handed, events>>
  BY DEF Turn
<1>2. /\ Typed(c, e) /\ Linked(c, e, carried, handed)
      /\ Calm(e) \in ExchangeType /\ Calm(e).slot = e.slot /\ Calm(e).length = e.length
  BY CalmResult DEF Ready, Typed
<1>3. CASE e.slot = "none"
  <2>1. exchange' = Asking(Calm(e)) /\ carried' = carried
    BY <1>3 DEF Turn
  <2>2. Typed(c, exchange') /\ Linked(c, exchange', carried, handed)
    BY <1>2, <2>1, AskingResult, GoesOn
  <2> QED
    BY <1>1, <2>1, <2>2, Untouched DEF After, Before
<1>4. CASE e.slot # "none"
  <2> DEFINE f == [Calm(e) EXCEPT !.phase = "writeWait"]
  <2>1. f \in ExchangeType /\ f.phase = "writeWait" /\ f.slot = e.slot /\ f.length = e.length
    BY <1>2 DEF ExchangeType
  <2>2. exchange' = f /\ carried' = IF e.slot = "control" THEN control ELSE c.transmit
    BY <1>4 DEF Turn
  <2> HIDE DEF f
  <2>3. carried' \in AnyPacket
    BY <1>2, <2>2, Untouched DEF Typed, ChannelType
  <2>4. e.slot \in {"control", "transmit"}
    BY <1>2, <1>4 DEF Typed, ExchangeType
  <2>5. Linked(c, f, carried', handed)
    BY <1>2, <2>1, <2>2, <2>4, Untouched DEF Linked
  <2> QED
    BY <1>1, <1>2, <2>1, <2>2, <2>3, <2>5, Untouched DEF After, Before, Typed
<1> QED
  BY <1>3, <1>4

LEMMA StatusAfter == ASSUME NEW c, NEW e, Before, Ready(c, e), ReadsStatus(c, e) PROVE After
<1>1. /\ Asking(e) \in ExchangeType /\ Asking(e).phase = "control"
      /\ Asking(e).slot = e.slot /\ Asking(e).length = e.length
  BY AskingResult DEF Ready, Typed
<1>2. Typed(c, Asking(e)) /\ Linked(c, Asking(e), carried, handed)
  BY <1>1, GoesOn
<1> QED
  BY <1>2, Untouched DEF ReadsStatus, After, Before

LEMMA WrittenAfter == ASSUME NEW c, NEW e, Before, Ready(c, e), Written(c, e) PROVE After
<1> DEFINE m == Marked(c, e.slot)
           free == [Asking(e) EXCEPT !.slot = "none", !.length = 0]
           waiting == m.reset \/ (m.pending # 0 /\ ~m.sent)
           taken == IF carried.kind = "command" THEN carried ELSE handed
<1>1. /\ Typed(c, e) /\ Linked(c, e, carried, handed)
      /\ e.phase = "writeWait" /\ e.slot \in {"control", "transmit"}
  BY DEF Written, Ready, Typed, Linked, ExchangeType
<1>2. free \in ExchangeType /\ free.phase = "control" /\ free.slot = "none"
  BY <1>1, AskingResult, Zeros DEF Typed, ExchangeType
<1>3. channel' = m /\ handed' = taken /\ UNCHANGED <<control, carried, owned, response, events>>
  BY DEF Written
<1>4. Typed(m, free) /\ Linked(m, free, carried, taken)
  <2>1. CASE e.slot = "control"
    <3>1. m = c /\ taken = handed
      BY <1>1, <2>1 DEF Marked, Linked
    <3> QED
      BY <1>1, <1>2, <3>1 DEF Typed, Linked
  <2>2. CASE e.slot = "transmit" /\ c.reset
    <3> DEFINE t == IF c.pending # 0 THEN CommandPacket(c) ELSE NoPacket
               d == [c EXCEPT !.reset = FALSE, !.transmit = t]
    <3>1. m = d
      BY <2>2 DEF Marked
    <3>2. t \in AnyPacket
      BY <1>1, CommandPacketType, PacketTypes DEF Typed
    <3> HIDE DEF t
    <3>3. /\ d \in ChannelType /\ ~d.reset /\ d.transmit = t /\ d.pending = c.pending
          /\ d.number = c.number /\ d.sent = c.sent /\ d.repeats = c.repeats
      BY <1>1, <3>2 DEF Typed, ChannelType
    <3> HIDE DEF d, m
    <3>4. ~d.sent
      BY <1>1, <2>2, <3>3 DEF Linked
    <3>5. d.pending # 0 => d.transmit = CommandPacket(d)
      BY <3>3 DEF t, CommandPacket
    <3> HIDE DEF free, taken
    <3> QED
      BY <1>1, <1>2, <3>1, <3>3, <3>4, <3>5 DEF Typed, Linked
  <2>3. CASE e.slot = "transmit" /\ ~c.reset
    <3> DEFINE d == [c EXCEPT !.sent = TRUE]
    <3>1. c.pending # 0 /\ carried = CommandPacket(c) /\ c.repeats = 0
      BY <1>1, <2>3, ChannelAssumption DEF Linked, Busy, Ready, Typed, ChannelType, Repeats
    <3>2. m = d
      BY <2>3, <3>1 DEF Marked
    <3>3. /\ d \in ChannelType /\ ~d.reset /\ d.transmit = c.transmit /\ d.pending = c.pending
          /\ d.number = c.number /\ d.sent /\ d.repeats = 0
      BY <1>1, <2>3, <3>1 DEF Typed, ChannelType
    <3>4. taken = CommandPacket(c) /\ c.transmit = CommandPacket(c)
      BY <1>1, <2>3, <3>1 DEF CommandPacket, Packet, Linked
    <3>5. CommandPacket(d) = CommandPacket(c)
      BY <3>3 DEF CommandPacket
    <3> HIDE DEF d, m, taken, free
    <3> QED
      BY <1>2, <3>1, <3>2, <3>3, <3>4, <3>5 DEF Typed, Linked
  <2> QED
    BY <1>1, <2>1, <2>2, <2>3
<1>5. taken \in AnyPacket
  BY Untouched
<1>6. exchange' = IF waiting /\ e.slot = "control" THEN Enqueue(free, "transmit", m) ELSE free
  BY DEF Written
<1>7. waiting => Busy(m) /\ ~m.sent
  <2> HIDE DEF m
  <2> QED
    BY <1>4 DEF Linked, Busy
<1> HIDE DEF m, free, waiting, taken
<1>8. Typed(m, exchange') /\ Linked(m, exchange', carried, taken)
  BY <1>4, <1>6, <1>7, EnqueueLinked
<1> QED
  BY <1>3, <1>5, <1>8, Untouched DEF After, Before

LEMMA ReadsAfter == ASSUME NEW c, NEW e, Before, Ready(c, e), ReadsPacket(c, e) PROVE After
<1>1. PICK o \in Accepted(c) :
          /\ channel' = o.channel /\ control' = o.control
          /\ exchange' = IF o.write = "none" THEN Asking(e)
                         ELSE QueuedFirst(Asking(e), o.write, o.channel)
          /\ response' = (response \/ (startup = "off" /\ o.response))
  BY DEF ReadsPacket
<1>2. UNCHANGED <<carried, owned, handed, events>>
  BY DEF ReadsPacket
<1>3. Typed(c, e) /\ Linked(c, e, carried, handed) /\ Shaped(c)
  BY DEF Ready, Typed, Linked, Shaped
<1>4. AcceptedWell(c, o)
  BY <1>3, AllAcceptedWell, Untouched
<1> DEFINE d == o.channel
           a == Asking(e)
<1>5. a \in ExchangeType /\ a.phase = "control" /\ a.slot = e.slot /\ a.length = e.length
  BY <1>3, AskingResult DEF Typed
<1>6. /\ Shaped(d) /\ d.repeats \in {0, c.repeats}
      /\ d.sent => c.sent /\ CommandPacket(d) = CommandPacket(c)
      /\ o.write = "transmit" => Busy(d) /\ ~d.sent
      /\ o.write # "transmit" /\ Busy(c) /\ ~c.sent => Busy(d) /\ ~d.sent /\ d.transmit = c.transmit
      /\ o.write \in {"none", "transmit", "control"}
  BY <1>4 DEF AcceptedWell
<1> HIDE DEF d, a
<1>7. /\ d.sent => d.pending # 0 /\ ~d.reset /\ d.repeats = 0 /\ handed = CommandPacket(d)
      /\ d.repeats <= 1
      /\ d.pending # 0 /\ ~d.reset => d.transmit = CommandPacket(d)
  BY <1>3, <1>6 DEF Shaped, Linked
<1>8. /\ exchange' \in ExchangeType /\ exchange'.phase = "control"
      /\ exchange'.slot = "transmit" =>
             \/ o.write = "transmit" /\ exchange'.length = Length(d.transmit)
             \/ o.write # "transmit" /\ e.slot = "transmit" /\ exchange'.length = e.length
  <2>1. CASE o.write = "none"
    BY <1>1, <1>5, <2>1 DEF a
  <2>2. CASE o.write \in {"transmit", "control"}
    <3>1. exchange' = QueuedFirst(a, o.write, d)
      BY <1>1, <2>2 DEF a, d
    <3>2. d \in ChannelType
      BY <1>6 DEF Shaped
    <3> QED
      BY <1>5, <2>2, <3>1, <3>2, QueuedFirstResult
  <2> QED
    BY <1>6, <2>1, <2>2
<1>9. exchange'.slot = "transmit" =>
          Busy(d) /\ ~d.sent /\ exchange'.length = Length(d.transmit)
  BY <1>3, <1>6, <1>8 DEF Linked
<1>10. Typed(d, exchange') /\ Linked(d, exchange', carried, handed)
  BY <1>6, <1>7, <1>8, <1>9 DEF Typed, Linked, Shaped
<1>11. /\ control' \in AnyPacket /\ control'.kind # "command"
       /\ response' \in BOOLEAN /\ (startup # "off" => response' = response)
  BY <1>1, <1>4, Untouched DEF AcceptedWell
<1> QED
  BY <1>1, <1>2, <1>10, <1>11, Untouched DEF After, Before, d

LEMMA OutcomesAfter == ASSUME NEW c, NEW e, Before, Ready(c, e), Outcomes(c, e) PROVE After
  BY AsksAfter, BusyAfter, FailsAfter, ErasedAfter, PatienceAfter, AnnouncesAfter, TurnAfter,
     StatusAfter, WrittenAfter, ReadsAfter DEF Outcomes

LEMMA RunsAfter ==
    ASSUME IInv, NEW c, Typed(c, exchange), Linked(c, exchange, carried, handed),
           NEW fires \in BOOLEAN, MailboxRuns(c, fires)
    PROVE  After /\ UNCHANGED <<commands, startup>>
<1> DEFINE d == Scheduled(c, fires)
<1>1. Ready(d, WithPending(exchange, d))
  BY RunReady
<1>2. Before /\ Outcomes(d, WithPending(exchange, d)) /\ UNCHANGED <<commands, startup>>
  BY DEF MailboxRuns, Before
<1> HIDE DEF d
<1> QED
  BY <1>1, <1>2, OutcomesAfter

\* A run of the vendor service: an upload that is deferred then finds room.
LEMMA RunInv == ASSUME IInv, NEW fires \in BOOLEAN, Run(fires) PROVE IInv'
<1>1. After /\ UNCHANGED <<commands, startup>>
  BY FedLinked, RunsAfter DEF Run
<1>2. deferred' = 0
  BY DEF IInv, DeferredWaits, Run, Stalls
<1>3. TypeOK'
  BY <1>1, <1>2, Zeros DEF IInv, After, TypeOK, Typed, Linked
<1> QED
  BY <1>1, <1>2, <1>3 DEF After, IInv, DeferredWaits

\* A run of a startup: it has no response for the host.
LEMMA StartupRunInv == ASSUME IInv, NEW fires \in BOOLEAN, StartupRun(fires) PROVE IInv'
<1>1. Typed(channel, exchange) /\ Linked(channel, exchange, carried, handed)
  BY DEF IInv, TypeOK, Typed
<1>2. After /\ UNCHANGED <<commands, startup, deferred>> /\ startup # "off"
  BY <1>1, RunsAfter DEF StartupRun
<1>3. TypeOK'
  BY <1>2 DEF IInv, After, TypeOK, Typed, Linked
<1> QED
  BY <1>2, <1>3 DEF After, IInv, DeferredWaits

----------------------------------------------------------------------------
(* Reports of the host *)

\* What a command, a deferred one too, leaves of a channel with room.
LEMMA QueuedEnqueued ==
    ASSUME NEW id \in 1 .. MaxCommands, ~Busy(channel),
           Typed(channel, exchange), Linked(channel, exchange, carried, handed)
    PROVE  LET q == Queued(channel, id)
               e == Enqueue(exchange, "transmit", q)
           IN  Typed(q, e) /\ Linked(q, e, carried, handed)
<1> DEFINE q == Queued(channel, id)
<1>1. Typed(q, exchange) /\ Linked(q, exchange, carried, handed)
  BY QueuedLinked
<1>2. Busy(q) /\ ~q.sent
  BY QueuedType DEF Busy, Typed
<1> HIDE DEF q
<1>3. Typed(q, Enqueue(exchange, "transmit", q))
      /\ Linked(q, Enqueue(exchange, "transmit", q), carried, handed)
  BY <1>1, <1>2, EnqueueLinked
<1> QED
  BY <1>3 DEF q

LEMMA SwallowInv == IInv /\ SwallowReport => IInv'
<1> SUFFICES ASSUME IInv, SwallowReport PROVE IInv'
  OBVIOUS
<1>1. /\ Typed(channel, exchange) /\ Linked(channel, exchange, carried, handed)
      /\ owned' = TRUE
      /\ UNCHANGED <<control, carried, response, startup, handed, events, commands>>
  BY DEF IInv, TypeOK, Typed, SwallowReport, Report
<1>2. CASE ~response /\ ~Busy(channel)
  <2>1. deferred \in 1 .. MaxCommands
    BY <1>2 DEF SwallowReport, Swallowed, IInv, TypeOK, CommandOrNone
  <2>2. /\ channel' = Queued(channel, deferred) /\ deferred' = 0
        /\ exchange' = Enqueue(exchange, "transmit", channel')
    BY <1>2 DEF SwallowReport
  <2>3. Typed(channel', exchange') /\ Linked(channel', exchange', carried, handed)
    BY <1>1, <1>2, <2>1, <2>2, QueuedEnqueued
  <2> QED
    BY <1>1, <2>2, <2>3, Zeros DEF IInv, TypeOK, Typed, DeferredWaits, Linked
<1>3. CASE ~(~response /\ ~Busy(channel))
  <2>1. UNCHANGED <<channel, deferred, exchange>>
    BY <1>3 DEF SwallowReport
  <2> QED
    BY <1>1, <2>1 DEF IInv, TypeOK, DeferredWaits, Linked, Busy, CommandPacket
<1> QED
  BY <1>2, <1>3

LEMMA SendInv == IInv /\ SendCommand => IInv'
<1> SUFFICES ASSUME IInv, SendCommand PROVE IInv'
  OBVIOUS
<1>1. /\ Typed(channel, exchange) /\ Linked(channel, exchange, carried, handed)
      /\ owned' = TRUE /\ UNCHANGED <<control, carried, response, startup, handed, events>>
      /\ ~response /\ deferred = 0
  BY DEF IInv, TypeOK, Typed, SendCommand, Report, Swallowed
<1>2. commands' \in 1 .. MaxCommands /\ commands' \in CommandOrNone
  BY ChannelAssumption DEF IInv, TypeOK, SendCommand, CommandOrNone
<1>3. CASE ~Busy(channel)
  <2>1. /\ channel' = Queued(channel, commands') /\ deferred' = deferred
        /\ exchange' = Enqueue(exchange, "transmit", channel')
    BY <1>3 DEF SendCommand
  <2>2. Typed(channel', exchange') /\ Linked(channel', exchange', carried, handed)
    BY <1>1, <1>2, <1>3, <2>1, QueuedEnqueued
  <2> QED
    BY <1>1, <1>2, <2>1, <2>2 DEF IInv, TypeOK, Typed, DeferredWaits, Linked
<1>4. CASE Busy(channel)
  <2>1. deferred' \in {0, commands'} /\ UNCHANGED <<channel, exchange>>
    BY <1>4 DEF SendCommand
  <2> QED
    BY <1>1, <1>2, <2>1, Zeros DEF IInv, TypeOK, DeferredWaits, Linked, Busy, CommandPacket
<1> QED
  BY <1>3, <1>4

\* Everything that resets the channel and the exchange.
LEMMA FreshInv ==
    ASSUME IInv, channel' = InitChannel, exchange' = InitExchange, owned' \in BOOLEAN,
           startup' \in {"off", "claims", "reads", "runs"}, events' \in 0 .. MaxEvents,
           UNCHANGED <<control, carried, response, handed, deferred, commands>>
    PROVE  IInv'
<1>1. Typed(InitChannel, InitExchange) /\ Linked(InitChannel, InitExchange, carried, handed)
  BY InitLinked
<1> QED
  BY <1>1 DEF IInv, TypeOK, Typed, DeferredWaits, Linked

LEMMA ResetInv == IInv /\ (Restart \/ Release) => IInv'
<1> SUFFICES ASSUME IInv, Restart \/ Release PROVE IInv'
  OBVIOUS
<1>1. startup \in {"off", "claims", "reads", "runs"} /\ events \in 0 .. MaxEvents
  BY DEF IInv, TypeOK
<1>2. /\ channel' = InitChannel /\ exchange' = InitExchange /\ owned' \in BOOLEAN
      /\ UNCHANGED <<control, carried, response, startup, handed, events, deferred, commands>>
  BY DEF Restart, Release, Report
<1> QED
  BY <1>1, <1>2, FreshInv

LEMMA TakeInv == IInv /\ TakeResponse => IInv'
<1> SUFFICES ASSUME IInv, TakeResponse PROVE IInv'
  OBVIOUS
<1>1. /\ response' = FALSE /\ deferred' = deferred /\ commands' = commands /\ events' = events
      /\ UNCHANGED <<channel, control, exchange, carried, owned, startup, handed>>
  BY DEF TakeResponse, bounds
<1>2. TypeOK'
  BY <1>1 DEF IInv, TypeOK
<1>3. Linked(channel, exchange, carried, handed)'
  BY <1>1 DEF IInv
<1> QED
  BY <1>1, <1>2, <1>3 DEF IInv, DeferredWaits

----------------------------------------------------------------------------
(* The startups and the recovery *)

\* What a startup leaves when it begins or ends, resetting the channel.
LEMMA DroppedInv == IInv /\ (StartupBegins \/ StartupFails \/ RecoveryResets) => IInv'
<1> SUFFICES ASSUME IInv, StartupBegins \/ StartupFails \/ RecoveryResets PROVE IInv'
  OBVIOUS
<1>1. startup \in {"off", "claims", "reads", "runs"} /\ events \in 0 .. MaxEvents
  BY DEF IInv, TypeOK
<1>2. events' \in 0 .. MaxEvents
  BY <1>1, ChannelAssumption DEF StartupBegins, StartupFails, RecoveryResets, Event
<1>3. startup' \in {"off", "claims", "reads", "runs"}
  BY <1>1 DEF StartupBegins, StartupFails, RecoveryResets
<1>4. /\ channel' = InitChannel /\ exchange' = InitExchange /\ owned' = FALSE
      /\ UNCHANGED <<control, carried, response, handed, deferred, commands>>
  BY DEF StartupBegins, StartupFails, RecoveryResets, Dropped, Beside
<1> QED
  BY <1>2, <1>3, <1>4, FreshInv

\* A startup that takes or gives up the transport leaves the channel alone.
LEMMA MovesInv == IInv /\ (StartupClaims \/ StartupFinishes \/ StartupForgotten) => IInv'
<1> SUFFICES ASSUME IInv, StartupClaims \/ StartupFinishes \/ StartupForgotten PROVE IInv'
  OBVIOUS
<1>1. /\ startup' \in {"off", "claims", "reads", "runs"} /\ owned' \in BOOLEAN
      /\ UNCHANGED <<channel, exchange, control, carried, response, handed, deferred,
                     commands, events>>
  BY DEF StartupClaims, StartupFinishes, StartupForgotten, Beside, bounds, IInv, TypeOK
<1>2. TypeOK'
  BY <1>1 DEF IInv, TypeOK
<1>3. Linked(channel, exchange, carried, handed)'
  BY <1>1 DEF IInv
<1> QED
  BY <1>1, <1>2, <1>3 DEF IInv, DeferredWaits

LEMMA ResettingLinked ==
    ASSUME NEW c, NEW e, NEW k, NEW h, Typed(c, e), Linked(c, e, k, h), ~Busy(c)
    PROVE  LET r == Resetting(c)
           IN  Typed(r, e) /\ Linked(r, e, k, h) /\ Busy(r) /\ ~r.sent
<1> DEFINE r == Resetting(c)
<1>1. /\ r \in ChannelType /\ r.reset /\ r.pending = c.pending /\ r.sent = c.sent
      /\ r.repeats = c.repeats
  BY PacketTypes DEF Resetting, Typed, ChannelType
<1> HIDE DEF r
<1>2. Typed(r, e) /\ Linked(r, e, k, h) /\ Busy(r) /\ ~r.sent
  BY <1>1 DEF Typed, Linked, Busy
<1> QED
  BY <1>2 DEF r

\* A request of a startup is queued like one of the host.
LEMMA SendsInv == IInv /\ (StartupResets \/ StartupAsks) => IInv'
<1> SUFFICES ASSUME IInv, StartupResets \/ StartupAsks PROVE IInv'
  OBVIOUS
<1>1. Typed(channel, exchange) /\ Linked(channel, exchange, carried, handed)
  BY DEF IInv, TypeOK, Typed
<1>2. /\ ~Busy(channel) /\ exchange' = Enqueue(exchange, "transmit", channel')
      /\ UNCHANGED <<control, carried, response, handed, deferred, owned, events>>
  BY DEF StartupResets, StartupAsks, StartupSends, Beside, Enqueue
<1>3. startup' \in {"off", "claims", "reads", "runs"} /\ commands' \in CommandOrNone
  BY ChannelAssumption DEF StartupResets, StartupAsks, IInv, TypeOK, CommandOrNone
<1>4. Typed(channel', exchange') /\ Linked(channel', exchange', carried, handed)
  <2>1. CASE StartupResets
    <3>1. channel' = Resetting(channel)
      BY <2>1 DEF StartupResets, StartupSends
    <3> QED
      BY <1>1, <1>2, <3>1, ResettingLinked, EnqueueLinked
  <2>2. CASE StartupAsks
    <3>1. channel' = Queued(channel, commands') /\ commands' \in 1 .. MaxCommands
      BY <2>2, ChannelAssumption DEF StartupAsks, StartupSends, IInv, TypeOK, CommandOrNone
    <3> QED
      BY <1>1, <1>2, <3>1, QueuedEnqueued
  <2> QED
    BY <2>1, <2>2
<1> QED
  BY <1>2, <1>3, <1>4 DEF IInv, TypeOK, Typed, DeferredWaits, Linked

LEMMA InvStep == IInv /\ [Next]_vars => IInv'
<1> SUFFICES ASSUME IInv, [Next]_vars PROVE IInv'
  OBVIOUS
<1>1. CASE RunMailbox \/ Timeout
  BY <1>1, RunInv, StartupRunInv DEF RunMailbox, Timeout
<1>2. CASE Host
  BY <1>2, SwallowInv, SendInv, ResetInv, TakeInv DEF Host
<1>3. CASE Startup
  BY <1>3, DroppedInv, MovesInv, SendsInv, StartupRunInv DEF Startup, StartupPass, StartupRuns
<1>4. CASE UNCHANGED vars
  BY <1>4 DEF vars, client, bounds, IInv, TypeOK, DeferredWaits, Linked, Busy, CommandPacket
<1> QED
  BY <1>1, <1>2, <1>3, <1>4 DEF Next

LEMMA Invariance == Spec => []IInv
  BY InitInv, InvStep, PTL DEF Spec

----------------------------------------------------------------------------
(* The theorems *)

\* Every reachable state of the channel, its mailbox, the service and the startups is well typed,
\* whatever the peer sends.
THEOREM TypeCorrect == Spec => []TypeOK
<1>1. IInv => TypeOK
  BY DEF IInv
<1> QED
  BY <1>1, Invariance, PTL

\* A command that waits for its answer is the one the mailbox took, and a packet the mailbox holds
\* does not change while it is written.
THEOREM WritesCorrect == Spec => []WritesAreOwn
  BY Implied, Invariance, PTL

\* The scheduler never reaches its limit: a command without an answer is repeated for ever.
THEOREM WatchdogSilent == Spec => []WatchdogNeverResets
  BY Implied, Invariance, PTL

\* While a segmented upload is deferred and the channel has no room, neither the mailbox nor a report
\* of the host, restart and release included, changes the channel: only the beginning of a startup
\* or a recovery does, and the upload survives that.
THEOREM DeferredIsStuck == Spec => DeferredStalls
<1> DEFINE Kept == /\ UNCHANGED deferred
                   /\ UNCHANGED <<channel, exchange>> \/ StartupBegins \/ RecoveryResets
<1>1. IInv /\ [Next]_vars => [Stalled => Kept]_vars
  <2> SUFFICES ASSUME IInv, Next, startup = "off", deferred # 0, Busy(channel) PROVE Kept
    BY DEF Stalled
  <2>1. ~response
    BY DEF IInv, DeferredWaits
  <2>2. ~RunMailbox /\ ~Timeout
    BY <2>1 DEF RunMailbox, Timeout, Run, Stalls, StartupRun
  <2>3. CASE Host
    BY <2>1, <2>3
       DEF Host, SwallowReport, SendCommand, Restart, Release, TakeResponse, Swallowed
  <2>4. CASE StartupBegins \/ RecoveryResets
    BY <2>4 DEF StartupBegins, RecoveryResets, Dropped, Beside
  <2>5. ~StartupPass /\ ~StartupAsks /\ ~StartupFinishes /\ ~StartupForgotten
    BY DEF StartupPass, StartupClaims, StartupResets, StartupRuns, StartupRun, StartupFails,
           StartupAsks, StartupFinishes, StartupForgotten
  <2> QED
    BY <2>2, <2>3, <2>4, <2>5 DEF Next, Startup
<1> QED
  BY <1>1, Invariance, PTL DEF Spec, DeferredStalls
=============================================================================
