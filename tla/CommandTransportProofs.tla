----------------------- MODULE CommandTransportProofs -----------------------
(***************************************************************************)
(* The safety of the shared command transport, for every wait limit: the    *)
(* five clients and the startup of a wheel never take, send or be told of   *)
(* one another's requests.                                                  *)
(***************************************************************************)
EXTENDS CommandTransport, TLAPS

\* The operations of the transport keep its type.
LEMMA ClaimedType == ASSUME NEW t \in TransportType, NEW o \in Clients
                     PROVE  Claimed(t, o) \in TransportType
  BY DEF Claimed, TransportType, Clients

LEMMA ReleasedType == ASSUME NEW t \in TransportType, NEW o \in Clients
                      PROVE  Released(t, o) \in TransportType
  BY DEF Released, TransportType, InitTransport

LEMMA PolledType == ASSUME NEW t \in TransportType PROVE Polled(t) \in TransportType
  BY DEF Polled, TransportType

LEMMA QueuedType == ASSUME NEW t \in TransportType, NEW kind \in {"write", "read", "length"}
                    PROVE  Queued(t, kind) \in TransportType
  BY DEF Queued, TransportType

LEMMA EndedType == ASSUME NEW t \in TransportType, NEW ok \in BOOLEAN
                   PROVE  Ended(t, ok) \in TransportType
  BY DEF Ended, TransportType

LEMMA FailedType == ASSUME NEW t \in TransportType PROVE Failed(t) \in TransportType
  BY EndedType DEF Failed

LEMMA AcceptedType == ASSUME NEW t \in TransportType PROVE Accepted(t) \in TransportType
<1>1. Ended(t, t.complete) \in TransportType
  BY EndedType DEF TransportType
<1> QED
  BY <1>1 DEF Accepted, TransportType

LEMMA ReceivedType == ASSUME NEW t \in TransportType, NEW outcome
                      PROVE  Received(t, outcome) \in TransportType
<1>1. CASE t.phase = "pending" /\ outcome = "malformed"
  BY <1>1 DEF Received
<1>2. CASE t.phase = "pending" /\ outcome # "malformed"
  BY <1>2, EndedType, AcceptedType DEF Received
<1>3. CASE t.phase # "pending"
  BY <1>3, EndedType DEF Received
<1> QED
  BY <1>1, <1>2, <1>3

LEMMA SubmittedType == transport \in TransportType => Submitted \in TransportType
  BY DEF Submitted, TransportType

\* What a failing startup has done before.
LEMMA FailingTurnType == transport \in TransportType => FailingTurn \in TransportType
  BY ClaimedType, PolledType, QueuedType DEF FailingTurn, Clients

\* A forwarder whose batch is filled, and a mailbox that is handed a packet, keep their types.
LEMMA BatchType == ASSUME NEW f \in ForwarderType, NEW batch \in {f.batch, TRUE}
                  PROVE  /\ batch \in BOOLEAN
                         /\ [f EXCEPT !.batch = batch] \in ForwarderType
  BY DEF ForwarderType

LEMMA WriteType == ASSUME NEW m \in MailboxType, NEW write \in BOOLEAN
                  PROVE  [m EXCEPT !.write = write] \in MailboxType
  BY DEF MailboxType

MailboxPhases == {"controlQueue", "controlWait", "payloadReadWait", "payloadWriteWait", "statusWait"}

\* The mailbox counts erased records up to its limit, and forgets them otherwise.
LEMMA ErasedType == ASSUME NEW m \in MailboxType, NEW erased \in 0 .. ControlLimit,
                           NEW phase \in MailboxPhases
                    PROVE  [m EXCEPT !.erased = erased, !.phase = phase] \in MailboxType
  BY DEF MailboxType, MailboxPhases

LEMMA RetriedType == ASSUME NEW m \in MailboxType, NEW retried \in BOOLEAN,
                            NEW phase \in MailboxPhases
                     PROVE  [m EXCEPT !.erased = 0, !.retried = retried, !.phase = phase]
                              \in MailboxType
<1>1. 0 \in 0 .. ControlLimit
  BY CommandAssumption
<1> QED
  BY <1>1 DEF MailboxType, MailboxPhases

LEMMA InitMailboxType == InitMailbox \in MailboxType
<1>1. 0 \in 0 .. ControlLimit
  BY CommandAssumption
<1> QED
  BY <1>1 DEF MailboxType, InitMailbox

\* A forwarder that moves on, and adapter commands that start over.
LEMMA AdvanceType == ASSUME NEW f \in ForwarderType, NEW t \in TransportType, Advance(f, t)
                     PROVE  forwarder' \in ForwarderType /\ transport' \in TransportType
<1>1. 0 \in 0 .. WaitLimit + 1
  BY CommandAssumption
<1>2. forwarder' \in ForwarderType
  BY <1>1 DEF Advance, ForwarderType
<1>3. transport' \in TransportType
  BY ReleasedType DEF Advance, Clients
<1> QED
  BY <1>2, <1>3

LEMMA RediscoversType == ASSUME NEW t \in TransportType, Rediscovers(t)
                         PROVE  adapter' \in AdapterType /\ transport' \in TransportType
<1>1. 0 \in 0 .. WaitLimit
  BY CommandAssumption
<1>2. adapter' \in AdapterType
  BY <1>1 DEF Rediscovers, AdapterType, InitAdapter
<1>3. transport' \in TransportType
  BY ReleasedType DEF Rediscovers, Clients
<1> QED
  BY <1>2, <1>3

\* What the larger steps do, in a few cases.
LEMMA RecoversTo ==
  ASSUME TypeOK, ForwardRecovers
  PROVE  \E batch \in {forwarder.batch, TRUE}, waits \in 0 .. WaitLimit + 1,
            t \in {transport, Failed(transport)} :
           LET f == [forwarder EXCEPT !.waits = waits, !.batch = batch]
           IN  \/ forwarder' = f /\ transport' = t
               \/ Advance(f, Polled(t))
<1>1. forwarder.waits \in 0 .. WaitLimit + 1
  BY DEF TypeOK, ForwarderType
<1>2. (IF forwarder.waits <= WaitLimit THEN forwarder.waits + 1 ELSE forwarder.waits)
        \in 0 .. WaitLimit + 1
  BY <1>1, CommandAssumption
<1> QED
  BY <1>2 DEF ForwardRecovers, TypeOK

LEMMA FailsTo ==
  ASSUME TypeOK, MailboxFails
  PROVE  \E write \in BOOLEAN : mailbox' = [mailbox EXCEPT !.phase = "controlQueue", !.write = write]
  BY DEF MailboxFails, TypeOK

LEMMA DoneTo ==
  ASSUME TypeOK, MailboxDone
  PROVE  \E write \in BOOLEAN : mailbox' = [mailbox EXCEPT !.phase = "controlQueue", !.write = write]
  BY DEF MailboxDone, TypeOK

LEMMA ErasedTo ==
  ASSUME TypeOK, MailboxErased
  PROVE  /\ Control /\ transport' \in {transport, Released(transport, "mailbox")}
         /\ \/ \E erased \in 0 .. ControlLimit :
                 mailbox' = [mailbox EXCEPT !.erased = erased, !.phase = "controlQueue"]
            \/ mailbox' = InitMailbox
<1>1. mailbox.erased < ControlLimit => mailbox.erased + 1 \in 0 .. ControlLimit
  BY CommandAssumption DEF TypeOK, MailboxType
<1> QED
  BY <1>1 DEF MailboxErased, TypeOK

LEMMA CountsTo ==
  ASSUME TypeOK, AdapterCounts
  PROVE  \/ /\ \E waits \in 0 .. WaitLimit : adapter' = [adapter EXCEPT !.waits = waits]
            /\ transport' = transport
         \/ Rediscovers(Failed(transport))
<1>1. adapter.waits < WaitLimit => adapter.waits + 1 \in 0 .. WaitLimit
  BY CommandAssumption DEF TypeOK, AdapterType
<1> QED
  BY <1>1 DEF AdapterCounts

LEMMA AsksTo ==
  ASSUME TypeOK, AdapterAsks
  PROVE  LET t == Claimed(transport, "adapter")
         IN  \/ /\ ~CanPoll(t, "adapter")
                /\ transport' = t /\ UNCHANGED adapter
             \/ CanPoll(t, "adapter") /\ Rediscovers(t)
             \/ /\ CanPoll(t, "adapter")
                /\ adapter' = [phase |-> "reading", waits |-> 0] /\ transport' = Queued(t, "read")
             \/ /\ CanPoll(t, "adapter")
                /\ adapter' = [phase |-> "writing", waits |-> 0] /\ transport' = Queued(t, "write")
  BY DEF AdapterAsks

\* The program starts in a well-typed state.
LEMMA InitType == Init => TypeOK
  BY CommandAssumption DEF Init, TypeOK, TransportType, AdapterType, ForwarderType, MailboxType,
         InitTransport, InitAdapter, InitForwarder, InitMailbox, Clients

\* Every step keeps every type.
LEMMA StepType == TypeOK /\ [Next]_vars => TypeOK'
<1> SUFFICES ASSUME TypeOK, [Next]_vars PROVE TypeOK' OBVIOUS
<1> USE CommandAssumption, ClaimedType, ReleasedType, PolledType, QueuedType,
        EndedType, FailedType, ReceivedType
    DEF TypeOK, clients, wheel
<1>1. CASE HostStartsTransfer
  BY <1>1 DEF HostStartsTransfer, Usb
<1>2. CASE HostCommand
  <2>1. PICK write \in {mailbox.write, TRUE} : mailbox' = [mailbox EXCEPT !.write = write]
    BY <1>2 DEF HostCommand
  <2>2. write \in BOOLEAN
    BY <2>1 DEF MailboxType
  <2>3. mailbox' \in MailboxType
    BY <2>1, <2>2, WriteType
  <2> QED
    BY <1>2, <2>3 DEF HostCommand, HostReport, Usb, Clients
<1>25. CASE HostDefers
  BY <1>25 DEF HostDefers, HostReport, Usb, MailboxType
<1>26. CASE HostQueuesDeferred
  BY <1>26 DEF HostQueuesDeferred, HostReport, Usb, MailboxType, Clients
<1>35. CASE HostSwallowed
  BY <1>35 DEF HostSwallowed, HostReport, Usb, Clients
<1>27. Cleared \in TransportType
  BY DEF Cleared, Clients
<1>3. CASE HostRestart
  BY <1>3, <1>27, InitMailboxType DEF HostRestart, HostReport, Usb, Clients
<1>4. CASE HostRelease
  BY <1>4, <1>27, InitMailboxType DEF HostRelease, HostReport, Usb
<1>5. CASE NoReport
  BY <1>5 DEF NoReport
<1>6. CASE ReceiveNothing
  BY <1>6 DEF ReceiveNothing, Receive
<1>28. CASE ReceiveAnswer
  BY <1>28 DEF ReceiveAnswer, Receive
<1>29. CASE Begins
  <2> USE DEF Startup, StartupStep, Clients
  <2>1. CASE StartupOff
    BY <2>1 DEF StartupOff
  <2>2. CASE StartupBegins
    BY <2>2, InitMailboxType DEF StartupBegins
  <2>3. CASE StartupClaims
    BY <2>3 DEF StartupClaims
  <2>4. CASE StartupReads
    BY <2>4 DEF StartupReads
  <2>5. CASE StartupReady
    BY <2>5, WriteType DEF StartupReady
  <2>6. CASE StartupFinishes
    BY <2>6 DEF StartupFinishes, MailboxType
  <2>7. CASE StartupFails
    <3>1. FailingTurn \in TransportType
      BY FailingTurnType
    <3> QED
      BY <2>7, <3>1, InitMailboxType DEF StartupFails
  <2> QED
    BY <1>29, <2>1, <2>2, <2>3, <2>4, <2>5, <2>6, <2>7 DEF Begins
<1>7. CASE TransferBusy
  BY <1>7 DEF TransferBusy, Transfer
<1>8. CASE TransferRejected
  BY <1>8 DEF TransferRejected, Transfer, Finish, Clients
<1>9. CASE TransferAdvances
  BY <1>9 DEF TransferAdvances, Transfer, Finish, Clients
<1>30. CASE AccessoryEnds
  BY <1>30 DEF AccessoryEnds, Accessory, Clients
<1>31. CASE AccessoryAsks
  BY <1>31 DEF AccessoryAsks, Accessory, Clients
<1>32. CASE AdapterAsks
  <2> DEFINE t == Claimed(transport, "adapter")
  <2>1. t \in TransportType
    BY DEF Clients
  <2>2. adapter' \in AdapterType /\ transport' \in TransportType
    <3> HIDE DEF t
    <3>1. \/ transport' = t /\ UNCHANGED adapter
          \/ Rediscovers(t)
          \/ adapter' = [phase |-> "reading", waits |-> 0] /\ transport' = Queued(t, "read")
          \/ adapter' = [phase |-> "writing", waits |-> 0] /\ transport' = Queued(t, "write")
      BY <1>32, AsksTo DEF t
    <3>2. 0 \in 0 .. WaitLimit
      OBVIOUS
    <3>3. CASE Rediscovers(t)
      BY <2>1, <3>3, RediscoversType
    <3>4. CASE ~Rediscovers(t)
      BY <2>1, <3>1, <3>2, <3>4 DEF AdapterType
    <3> QED
      BY <3>3, <3>4
  <2> QED
    BY <1>32, <2>2 DEF AdapterAsks, Adapter
<1>33. CASE AdapterEnds
  <2>1. CASE transport.complete
    BY <1>33, <2>1 DEF AdapterEnds, AdapterWaits, Adapter, AdapterType, Clients
  <2>2. CASE ~transport.complete
    BY <1>33, <2>2, RediscoversType DEF AdapterEnds, AdapterWaits, Adapter
  <2> QED
    BY <2>1, <2>2
<1>34. CASE AdapterCounts
  <2>1. adapter' \in AdapterType /\ transport' \in TransportType
    <3>1. CASE Rediscovers(Failed(transport))
      BY <3>1, RediscoversType
    <3>2. CASE /\ \E waits \in 0 .. WaitLimit : adapter' = [adapter EXCEPT !.waits = waits]
               /\ transport' = transport
      BY <3>2 DEF AdapterType
    <3> QED
      BY <1>34, <3>1, <3>2, CountsTo
  <2> QED
    BY <1>34, <2>1 DEF AdapterCounts, AdapterWaits, Adapter
<1>10. CASE ForwardStarts
  <2>1. PICK batch \in {forwarder.batch, TRUE} :
          LET f == [forwarder EXCEPT !.batch = batch]
              t == Claimed(transport, "forwarder")
          IN  \/ forwarder' = f /\ transport' \in {t, transport}
              \/ Advance(f, Polled(t))
              \/ /\ forwarder' = [f EXCEPT !.phase = "probePending"]
                 /\ transport' = Queued(t, "read")
              \/ /\ forwarder' = [f EXCEPT !.phase = "writePending", !.batch = FALSE]
                 /\ transport' = Queued(t, "write")
    BY <1>10 DEF ForwardStarts
  <2> DEFINE f == [forwarder EXCEPT !.batch = batch]
             t == Claimed(transport, "forwarder")
  <2>2. f \in ForwarderType
    BY BatchType
  <2>3. t \in TransportType
    BY DEF Clients
  <2>4. forwarder' \in ForwarderType /\ transport' \in TransportType
    <3> HIDE DEF f, t
    <3>1. CASE forwarder' = f /\ transport' \in {t, transport}
      BY <3>1, <2>2, <2>3
    <3>2. CASE Advance(f, Polled(t))
      BY <3>2, <2>2, <2>3, AdvanceType
    <3>3. CASE /\ forwarder' = [f EXCEPT !.phase = "probePending"]
               /\ transport' = Queued(t, "read")
      BY <3>3, <2>2, <2>3 DEF ForwarderType
    <3>4. CASE /\ forwarder' = [f EXCEPT !.phase = "writePending", !.batch = FALSE]
               /\ transport' = Queued(t, "write")
      BY <3>4, <2>2, <2>3 DEF ForwarderType
    <3> QED
      BY <2>1, <3>1, <3>2, <3>3, <3>4 DEF f, t
  <2> QED
    BY <1>10, <2>4 DEF ForwardStarts, Forward
<1>11. CASE ForwardEnds
  <2>1. PICK batch \in {forwarder.batch, TRUE} :
          \/ /\ forwarder' = [forwarder EXCEPT !.phase = "ready", !.waits = 0, !.batch = batch]
             /\ transport' = Released(Polled(transport), "forwarder")
          \/ Advance([forwarder EXCEPT !.batch = batch], Polled(transport))
    BY <1>11 DEF ForwardEnds
  <2>2. forwarder' \in ForwarderType /\ transport' \in TransportType
    <3>1. CASE /\ forwarder' = [forwarder EXCEPT !.phase = "ready", !.waits = 0, !.batch = batch]
               /\ transport' = Released(Polled(transport), "forwarder")
      <4>1. batch \in BOOLEAN
        BY BatchType
      <4>2. 0 \in 0 .. WaitLimit + 1
        OBVIOUS
      <4>3. forwarder' \in ForwarderType
        BY <3>1, <4>1, <4>2 DEF ForwarderType
      <4> QED
        BY <3>1, <4>3 DEF Clients
    <3>2. CASE Advance([forwarder EXCEPT !.batch = batch], Polled(transport))
      BY <3>2, BatchType, AdvanceType
    <3> QED
      BY <2>1, <3>1, <3>2
  <2> QED
    BY <1>11, <2>2 DEF ForwardEnds, ForwardWaits, Forward
<1>12. CASE ForwardRecovers
  <2>1. PICK batch \in {forwarder.batch, TRUE}, waits \in 0 .. WaitLimit + 1,
             t \in {transport, Failed(transport)} :
          LET f == [forwarder EXCEPT !.waits = waits, !.batch = batch]
          IN  \/ forwarder' = f /\ transport' = t
              \/ Advance(f, Polled(t))
    BY <1>12, RecoversTo
  <2> DEFINE f == [forwarder EXCEPT !.waits = waits, !.batch = batch]
  <2>2. f \in ForwarderType
    <3>1. batch \in BOOLEAN
      BY BatchType
    <3> QED
      BY <3>1 DEF ForwarderType
  <2>3. t \in TransportType
    OBVIOUS
  <2>4. forwarder' \in ForwarderType /\ transport' \in TransportType
    <3> HIDE DEF f
    <3>1. (forwarder' = f /\ transport' = t) \/ Advance(f, Polled(t))
      BY <2>1 DEF f
    <3> QED
      BY <3>1, <2>2, <2>3, AdvanceType
  <2> QED
    BY <1>12, <2>4 DEF ForwardRecovers, ForwardWaits, Forward
<1>13. CASE MailboxAway
  BY <1>13 DEF MailboxAway, Mail
<1>14. CASE MailboxAsks
  <2>1. PICK write \in {mailbox.write, TRUE} :
          LET m == [mailbox EXCEPT !.write = write]
          IN  \/ mailbox' = m /\ transport' = transport
              \/ /\ mailbox' = [m EXCEPT !.phase = "controlWait"]
                 /\ transport' = Queued(Polled(transport), "read")
    BY <1>14 DEF MailboxAsks, MailboxRuns
  <2>2. write \in BOOLEAN
    BY <2>1 DEF MailboxType
  <2> DEFINE m == [mailbox EXCEPT !.write = write]
  <2>3. m \in MailboxType
    BY <2>2, WriteType
  <2>4. mailbox' \in MailboxType /\ transport' \in TransportType
    <3> HIDE DEF m
    <3>1. CASE mailbox' = m /\ transport' = transport
      BY <3>1, <2>3
    <3>2. CASE /\ mailbox' = [m EXCEPT !.phase = "controlWait"]
               /\ transport' = Queued(Polled(transport), "read")
      BY <3>2, <2>3 DEF MailboxType
    <3> QED
      BY <2>1, <3>1, <3>2 DEF m
  <2> QED
    BY <1>14, <2>4 DEF MailboxAsks, MailboxRuns, Mail
<1>15. CASE MailboxBusy
  BY <1>15 DEF MailboxBusy, MailboxWaits, MailboxRuns, Mail
<1>16. CASE MailboxFails
  <2>1. PICK write \in BOOLEAN :
          mailbox' = [mailbox EXCEPT !.phase = "controlQueue", !.write = write]
    BY <1>16, FailsTo
  <2>2. mailbox' \in MailboxType
    BY <2>1 DEF MailboxType
  <2> QED
    BY <1>16, <2>2 DEF MailboxFails, MailboxWaits, MailboxRuns, Mail
<1>17. CASE MailboxDone
  <2>1. PICK write \in BOOLEAN :
          mailbox' = [mailbox EXCEPT !.phase = "controlQueue", !.write = write]
    BY <1>17, DoneTo
  <2>2. mailbox' \in MailboxType
    BY <2>1 DEF MailboxType
  <2> QED
    BY <1>17, <2>2 DEF MailboxDone, MailboxReady, MailboxWaits, MailboxRuns, Mail
<1>18. CASE MailboxErased
  <2>1. \/ \E erased \in 0 .. ControlLimit :
             mailbox' = [mailbox EXCEPT !.erased = erased, !.phase = "controlQueue"]
        \/ mailbox' = InitMailbox
    BY <1>18, ErasedTo
  <2>2. mailbox' \in MailboxType
    <3>1. \A erased \in 0 .. ControlLimit :
            [mailbox EXCEPT !.erased = erased, !.phase = "controlQueue"] \in MailboxType
      BY ErasedType DEF MailboxPhases
    <3> QED
      BY <2>1, <3>1, InitMailboxType
  <2>3. Control /\ transport' \in TransportType
    BY <1>18, ErasedTo DEF Clients
  <2> QED
    BY <2>2, <2>3 DEF Control, MailboxReady, MailboxWaits, MailboxRuns, Mail, Clients
<1>19. CASE MailboxRetries
  <2>1. mailbox' \in MailboxType
    BY <1>19, RetriedType DEF MailboxRetries, MailboxPhases
  <2> QED
    BY <1>19, <2>1 DEF MailboxRetries, Control, MailboxReady, MailboxWaits, MailboxRuns, Mail
<1>20. CASE MailboxTurns
  <2>1. mailbox' \in MailboxType
    BY <1>20, RetriedType DEF MailboxTurns, MailboxPhases
  <2>2. transport' \in TransportType
    BY <1>20 DEF MailboxTurns
  <2> QED
    BY <1>20, <2>1, <2>2 DEF MailboxTurns, Control, MailboxReady, MailboxWaits, MailboxRuns, Mail
<1>21. CASE Submit
  BY <1>21, SubmittedType DEF Submit
<1>22. CASE PollWaits \/ PollTurns
  BY <1>22 DEF PollWaits, PollTurns, Poll
<1>24. CASE UNCHANGED vars
  BY <1>24 DEF vars
<1> QED
  BY <1>1, <1>2, <1>3, <1>4, <1>5, <1>6, <1>7, <1>8, <1>9, <1>10, <1>11, <1>12, <1>13, <1>14,
     <1>15, <1>16, <1>17, <1>18, <1>19, <1>20, <1>21, <1>22, <1>24, <1>25, <1>26, <1>28, <1>29,
     <1>30, <1>31, <1>32, <1>33, <1>34, <1>35 DEF Next, Host, Mailbox, Pass

----------------------------------------------------------------------------
(* Safety *)

\* A request in the transport is of some kind.
HasKind == transport.phase # "idle" => transport.kind # "none"

\* A request that waits for an answer has been sent.
PendingIsSent == transport.phase = "pending" => transport.request = "sent"

SafeInv == HasKind /\ PendingIsSent /\ CarriesOwnersRequest /\ WaitsAsOwner /\ CompleteIsOwn

\* No client runs while a startup does, and until the startup runs the mailbox it waits for nothing.
StartupInv ==
    /\ pc \in {"transfer", "accessory", "adapter", "forwarder", "mailbox"} => startup = "off"
    /\ startup \in {"claim", "read", "status"} => mailbox.phase = "controlQueue"

\* Nobody waits and nothing is carried at the start.
LEMMA InitSafe == Init => SafeInv /\ StartupInv
  BY DEF Init, SafeInv, StartupInv, HasKind, CarriesOwnersRequest, WaitsAsOwner, PendingIsSent,
         CompleteIsOwn, InitTransport, InitAdapter, InitForwarder, InitMailbox, Clients, Awaits,
         TransferAwaits, AdapterAwaits, ForwarderAwaits, MailboxAwaits

\* A startup and the clients take turns, in every pass.
LEMMA StepStartup == TypeOK /\ StartupInv /\ [Next]_vars => StartupInv'
<1> SUFFICES ASSUME TypeOK, StartupInv, [Next]_vars PROVE StartupInv'
  OBVIOUS
<1> USE DEF StartupInv
<1>1. CASE Host
  BY <1>1 DEF Host, HostStartsTransfer, HostCommand, HostDefers, HostSwallowed, HostQueuesDeferred,
     HostRestart, HostRelease, HostReport, Usb, InitMailbox, TypeOK, MailboxType
<1>2. CASE NoReport \/ ReceiveNothing \/ ReceiveAnswer \/ Submit \/ PollWaits \/ PollTurns
  BY <1>2 DEF NoReport, ReceiveNothing, ReceiveAnswer, Receive, Submit, PollWaits, PollTurns, Poll,
     clients
<1>3. CASE Begins
  BY <1>3 DEF Begins, StartupOff, StartupBegins, StartupClaims, StartupReads, StartupReady,
     StartupFinishes, StartupFails, Startup, StartupStep, InitMailbox, TypeOK, MailboxType
<1>4. CASE Mailbox
  BY <1>4 DEF Mailbox, MailboxAway, MailboxAsks, MailboxBusy, MailboxFails, MailboxDone,
     MailboxErased, MailboxRetries, MailboxTurns, Control, MailboxReady, MailboxWaits, MailboxRuns,
     Mail
<1>5. CASE \/ TransferBusy \/ TransferRejected \/ TransferAdvances
           \/ AccessoryEnds \/ AccessoryAsks
  BY <1>5 DEF TransferBusy, TransferRejected, TransferAdvances, Transfer, AccessoryEnds,
     AccessoryAsks, Accessory
<1>6. CASE \/ AdapterAsks \/ AdapterEnds \/ AdapterCounts
           \/ ForwardStarts \/ ForwardEnds \/ ForwardRecovers
  BY <1>6 DEF AdapterAsks, AdapterEnds, AdapterCounts, AdapterWaits, Adapter, ForwardStarts,
     ForwardEnds, ForwardRecovers, ForwardWaits, Forward
<1>7. CASE UNCHANGED vars
  BY <1>7 DEF vars, clients
<1> QED
  BY <1>1, <1>2, <1>3, <1>4, <1>5, <1>6, <1>7 DEF Next, Pass

\* One client moves: it comes to wait for nothing and leaves no request behind, or for the request
\* it queues, or it goes on waiting while its request is rejected.
LEMMA ClientStep ==
  ASSUME TypeOK, SafeInv, NEW c \in Clients, transport.owner \in {"none", c},
         \A d \in Clients \ {c} : Awaits(d)' = Awaits(d),
         Awaits("none")' = "none", Awaits("none") = "none",
         \/ /\ Awaits(c)' = "none"
            /\ transport'.phase = "idle" /\ transport'.owner \in {"none", c}
         \/ /\ Awaits(c)' # "none" /\ transport'.kind = Awaits(c)'
            /\ transport'.phase = "queued" /\ transport'.owner = c
         \/ /\ Awaits(c)' = Awaits(c) /\ transport.owner = c
            /\ transport' = Ended(transport, FALSE)
  PROVE  SafeInv'
<1> USE DEF SafeInv
<1>1. \A d \in Clients \ {c} : Awaits(d)' = "none"
  BY DEF WaitsAsOwner, Clients
<1>2. CASE /\ Awaits(c)' = "none"
           /\ transport'.phase = "idle" /\ transport'.owner \in {"none", c}
  BY <1>1, <1>2 DEF HasKind, CarriesOwnersRequest, WaitsAsOwner, PendingIsSent, CompleteIsOwn
<1>3. CASE /\ Awaits(c)' # "none" /\ transport'.kind = Awaits(c)'
           /\ transport'.phase = "queued" /\ transport'.owner = c
  BY <1>1, <1>3
     DEF HasKind, CarriesOwnersRequest, WaitsAsOwner, PendingIsSent, CompleteIsOwn, CanPoll
<1>4. CASE /\ Awaits(c)' = Awaits(c) /\ transport.owner = c
           /\ transport' = Ended(transport, FALSE)
  <2>1. transport'.phase = "idle" /\ transport'.owner = c /\ ~transport'.complete
    BY <1>4 DEF Ended, TypeOK, TransportType
  <2> QED
    BY <1>1, <1>4, <2>1 DEF HasKind, CarriesOwnersRequest, WaitsAsOwner, PendingIsSent, CompleteIsOwn
<1> QED
  BY <1>2, <1>3, <1>4

\* A client claims a transport that nobody owns: all it can carry is the length record of a startup.
LEMMA ClaimStep ==
  ASSUME TypeOK, SafeInv, NEW c \in Clients, transport.owner = "none",
         transport' = Claimed(transport, c),
         \A d \in Clients : Awaits(d)' = Awaits(d), Awaits("none") = "none"
  PROVE  SafeInv'
<1> USE DEF SafeInv
<1>1. \A d \in Clients : Awaits(d)' = "none"
  BY DEF WaitsAsOwner, Clients
<1>2. /\ transport'.phase = transport.phase /\ transport'.kind = transport.kind
      /\ transport'.request = transport.request /\ transport'.owner = c
  BY DEF Claimed, TypeOK, TransportType
<1> QED
  BY <1>1, <1>2 DEF HasKind, CarriesOwnersRequest, WaitsAsOwner, PendingIsSent, CompleteIsOwn

\* No client comes to wait or stops waiting, and the transport is left alone.
LEMMA StaysSafe ==
  ASSUME SafeInv, UNCHANGED transport,
         \A d \in Clients \cup {"none"} : Awaits(d)' = Awaits(d), transport \in TransportType
  PROVE  SafeInv'
  BY DEF SafeInv, HasKind, CarriesOwnersRequest, WaitsAsOwner, PendingIsSent, CompleteIsOwn,
         CanPoll, TransportType

\* Who waits for what, now and after a step.
LEMMA AwaitsOf ==
  /\ Awaits("transfer") = TransferAwaits /\ Awaits("accessory") = accessory
  /\ Awaits("adapter") = AdapterAwaits /\ Awaits("forwarder") = ForwarderAwaits
  /\ Awaits("mailbox") = MailboxAwaits /\ Awaits("none") = "none"
  BY DEF Awaits

LEMMA AwaitsNext ==
  /\ Awaits("transfer")' = TransferAwaits' /\ Awaits("accessory")' = accessory'
  /\ Awaits("adapter")' = AdapterAwaits' /\ Awaits("forwarder")' = ForwarderAwaits'
  /\ Awaits("mailbox")' = MailboxAwaits' /\ Awaits("none")' = "none"
  BY DEF Awaits

\* A client that a step leaves alone waits for what it waited for.
LEMMA Alone ==
  /\ UNCHANGED transfer => TransferAwaits' = TransferAwaits
  /\ UNCHANGED adapter => AdapterAwaits' = AdapterAwaits
  /\ UNCHANGED forwarder => ForwarderAwaits' = ForwarderAwaits
  /\ UNCHANGED mailbox => MailboxAwaits' = MailboxAwaits
  BY DEF TransferAwaits, AdapterAwaits, ForwarderAwaits, MailboxAwaits

\* A client that waits owns the transport, and has sent or queued what it carries.
LEMMA OwnerOf ==
  ASSUME SafeInv
  PROVE  \A c \in Clients : Awaits(c) # "none" => transport.owner = c
  BY DEF SafeInv, WaitsAsOwner

\* The host claims a transport nobody owns, and restarts or drops only what the mailbox asked for.
LEMMA HostSafe == TypeOK /\ SafeInv /\ Host => SafeInv'
<1> SUFFICES ASSUME TypeOK, SafeInv, Host PROVE SafeInv'
  OBVIOUS
<1> USE AwaitsOf, AwaitsNext, Alone DEF HostReport, Usb, Clients
<1>1. CASE HostStartsTransfer
  <2>1. TransferAwaits' = TransferAwaits
    BY <1>1 DEF HostStartsTransfer, TransferAwaits
  <2> QED
    BY <1>1, <2>1, StaysSafe DEF HostStartsTransfer, TypeOK
<1>2. CASE HostCommand
  <2>1. MailboxAwaits' = MailboxAwaits
    <3>1. mailbox'.phase = mailbox.phase
      BY <1>2 DEF HostCommand, TypeOK, MailboxType
    <3> QED
      BY <3>1 DEF MailboxAwaits
  <2>2. CASE transport.owner = "mailbox"
    <3>1. transport' = transport
      BY <1>2, <2>2 DEF HostCommand, Claimed, TypeOK, TransportType
    <3> QED
      BY <1>2, <2>1, <3>1, StaysSafe DEF HostCommand, TypeOK
  <2>3. CASE transport.owner = "none"
    BY <1>2, <2>1, <2>3, ClaimStep DEF HostCommand
  <2> QED
    BY <1>2, <2>2, <2>3 DEF HostCommand
<1>4. CASE HostDefers
  <2>1. MailboxAwaits' = MailboxAwaits
    <3>1. mailbox'.phase = mailbox.phase
      BY <1>4 DEF HostDefers, TypeOK, MailboxType
    <3> QED
      BY <3>1 DEF MailboxAwaits
  <2> QED
    BY <1>4, <2>1, StaysSafe DEF HostDefers, TypeOK
<1>5. CASE HostQueuesDeferred
  <2>1. MailboxAwaits' = MailboxAwaits
    <3>1. mailbox'.phase = mailbox.phase
      BY <1>5 DEF HostQueuesDeferred, TypeOK, MailboxType
    <3> QED
      BY <3>1 DEF MailboxAwaits
  <2>2. CASE transport.owner = "mailbox"
    <3>1. transport' = transport
      BY <1>5, <2>2 DEF HostQueuesDeferred, Claimed, TypeOK, TransportType
    <3> QED
      BY <1>5, <2>1, <3>1, StaysSafe DEF HostQueuesDeferred, TypeOK
  <2>3. CASE transport.owner = "none"
    BY <1>5, <2>1, <2>3, ClaimStep DEF HostQueuesDeferred
  <2> QED
    BY <1>5, <2>2, <2>3 DEF HostQueuesDeferred
<1>6. CASE HostSwallowed
  <2>1. MailboxAwaits' = MailboxAwaits
    BY <1>6 DEF HostSwallowed, MailboxAwaits
  <2>2. CASE transport.owner = "mailbox"
    <3>1. transport' = transport
      BY <1>6, <2>2 DEF HostSwallowed, Claimed, TypeOK, TransportType
    <3> QED
      BY <1>6, <2>1, <3>1, StaysSafe DEF HostSwallowed, TypeOK
  <2>3. CASE transport.owner = "none"
    BY <1>6, <2>1, <2>3, ClaimStep DEF HostSwallowed
  <2> QED
    BY <1>6, <2>2, <2>3 DEF HostSwallowed
<1>3. CASE HostRestart \/ HostRelease
  <2>1. MailboxAwaits' = "none"
    BY <1>3 DEF HostRestart, HostRelease, MailboxAwaits, InitMailbox
  <2>2. transport'.phase = "idle" /\ transport'.owner \in {"none", "mailbox"}
    <3>1. Cleared = InitTransport
      BY <1>3 DEF HostRestart, HostRelease, Cleared, Released, Claimed, TypeOK, TransportType
    <3> QED
      BY <1>3, <3>1 DEF HostRestart, HostRelease, Claimed, InitTransport
  <2> QED
    BY <1>3, <2>1, <2>2, ClientStep DEF HostRestart, HostRelease
<1> QED
  BY <1>1, <1>2, <1>3, <1>4, <1>5, <1>6 DEF Host

\* The wheel transfer polls, queues and releases as the owner only.
LEMMA TransferSafe ==
  TypeOK /\ SafeInv /\ (TransferBusy \/ TransferRejected \/ TransferAdvances) => SafeInv'
<1> SUFFICES ASSUME TypeOK, SafeInv, TransferBusy \/ TransferRejected \/ TransferAdvances
             PROVE  SafeInv'
  OBVIOUS
<1> USE AwaitsOf, AwaitsNext, Alone DEF Transfer, Clients
<1>1. CASE TransferBusy
  BY <1>1, StaysSafe DEF TransferBusy, TypeOK
<1>2. CASE TransferRejected /\ transport.owner = "transfer"
  <2>1. transport'.phase = "idle" /\ transport'.owner = "none"
    BY <1>2 DEF TransferRejected, Finish, Released, Polled, InitTransport, TypeOK, TransportType
  <2>2. TransferAwaits' = "none"
    BY <1>2 DEF TransferRejected, Finish, TransferAwaits
  <2> QED
    BY <1>2, <2>1, <2>2, ClientStep DEF TransferRejected
<1>3. CASE TransferRejected /\ transport.owner # "transfer"
  <2>1. transport.owner = "none" /\ transport.phase = "idle"
    BY <1>3 DEF TransferRejected, CanPoll
  <2>2. transport'.owner = "none" /\ transport'.phase = "idle"
    BY <1>3, <2>1 DEF TransferRejected, Polled, TypeOK, TransportType
  <2>3. TransferAwaits' = "none"
    BY <1>3, <2>1, OwnerOf DEF TransferRejected
  <2> QED
    BY <1>3, <2>1, <2>2, <2>3, ClientStep DEF TransferRejected
<1>4. CASE TransferAdvances
  <2> DEFINE t == Claimed(Polled(transport), "transfer")
  <2>1. transport.owner \in {"none", "transfer"} /\ t.owner = "transfer" /\ t.phase = "idle"
    BY <1>4 DEF TransferAdvances, CanPoll, Claimed, Polled, TypeOK, TransportType
  <2>2. t \in TransportType
    BY PolledType, ClaimedType DEF TypeOK
  <2> HIDE DEF t
  <2>3. \/ transfer' = "writePending" /\ transport' = Queued(t, "write")
        \/ transfer' = "readReady" /\ transport' = t
        \/ transfer' = "readPending" /\ transport' = Queued(t, "read")
        \/ Finish(t)
    BY <1>4 DEF TransferAdvances, t
  <2>4. CASE transfer' = "writePending" /\ transport' = Queued(t, "write")
    <3>1. TransferAwaits' = "write"
      BY <2>4 DEF TransferAwaits
    <3>2. transport'.kind = "write" /\ transport'.phase = "queued" /\ transport'.owner = "transfer"
      BY <2>4, <2>1, <2>2 DEF Queued, TransportType
    <3> QED
      BY <1>4, <2>1, <3>1, <3>2, ClientStep DEF TransferAdvances
  <2>5. CASE transfer' = "readReady" /\ transport' = t
    <3>1. TransferAwaits' = "none"
      BY <2>5 DEF TransferAwaits
    <3> QED
      BY <1>4, <2>1, <2>5, <3>1, ClientStep DEF TransferAdvances
  <2>6. CASE transfer' = "readPending" /\ transport' = Queued(t, "read")
    <3>1. TransferAwaits' = "read"
      BY <2>6 DEF TransferAwaits
    <3>2. transport'.kind = "read" /\ transport'.phase = "queued" /\ transport'.owner = "transfer"
      BY <2>6, <2>1, <2>2 DEF Queued, TransportType
    <3> QED
      BY <1>4, <2>1, <3>1, <3>2, ClientStep DEF TransferAdvances
  <2>7. CASE Finish(t)
    <3>1. TransferAwaits' = "none"
      BY <2>7 DEF Finish, TransferAwaits
    <3>2. transport'.phase = "idle" /\ transport'.owner = "none"
      BY <2>7, <2>1, <2>2 DEF Finish, Released, InitTransport, TransportType
    <3> QED
      BY <1>4, <2>1, <3>1, <3>2, ClientStep DEF TransferAdvances
  <2> QED
    BY <2>3, <2>4, <2>5, <2>6, <2>7
<1> QED
  BY <1>1, <1>2, <1>3, <1>4

\* The accessory service asks and is answered as the owner only.
LEMMA AccessorySafe == TypeOK /\ SafeInv /\ (AccessoryEnds \/ AccessoryAsks) => SafeInv'
<1> SUFFICES ASSUME TypeOK, SafeInv PROVE AccessoryEnds \/ AccessoryAsks => SafeInv'
  OBVIOUS
<1> USE AwaitsOf, AwaitsNext, Alone DEF Accessory, Clients
<1>1. ASSUME AccessoryEnds PROVE SafeInv'
  <2>1. transport.owner = "accessory"
    BY <1>1, OwnerOf DEF AccessoryEnds
  <2>2. CASE UNCHANGED <<accessory, transport>>
    BY <1>1, <2>2, StaysSafe DEF AccessoryEnds, TypeOK
  <2>3. CASE accessory' = "none" /\ transport' = Released(Polled(transport), "accessory")
    <3>1. transport'.phase = "idle" /\ transport'.owner = "none"
      BY <2>1, <2>3 DEF Released, Polled, InitTransport, TypeOK, TransportType
    <3> QED
      BY <1>1, <2>1, <2>3, <3>1, ClientStep DEF AccessoryEnds
  <2> QED
    BY <1>1, <2>2, <2>3 DEF AccessoryEnds
<1>2. ASSUME AccessoryAsks PROVE SafeInv'
  <2> DEFINE t == Claimed(transport, "accessory")
  <2>1. t \in TransportType
    BY ClaimedType DEF TypeOK
  <2>2. CanPoll(t, "accessory") => /\ transport.owner \in {"none", "accessory"}
                                   /\ t.owner = "accessory" /\ t.phase = "idle"
    BY DEF CanPoll, Claimed, TypeOK, TransportType
  <2>3. transport.owner # "none" => t = transport
    BY DEF Claimed, TypeOK, TransportType
  <2> HIDE DEF t
  <2>4. \/ transport' = t /\ UNCHANGED accessory
        \/ /\ CanPoll(t, "accessory") /\ accessory' = "none"
           /\ transport' = Released(t, "accessory")
        \/ /\ CanPoll(t, "accessory") /\ accessory' \in {"write", "read"}
           /\ transport' = Queued(t, accessory')
    BY <1>2 DEF AccessoryAsks, t
  <2>5. CASE transport' = t /\ UNCHANGED accessory
    <3>1. CASE transport.owner = "none"
      BY <1>2, <2>5, <3>1, ClaimStep DEF AccessoryAsks, t
    <3>2. CASE transport.owner # "none"
      BY <1>2, <2>3, <2>5, <3>2, StaysSafe DEF AccessoryAsks, TypeOK
    <3> QED
      BY <3>1, <3>2
  <2>6. CASE /\ CanPoll(t, "accessory") /\ accessory' = "none"
             /\ transport' = Released(t, "accessory")
    <3>1. transport'.phase = "idle" /\ transport'.owner = "none"
      BY <2>2, <2>6 DEF Released, InitTransport
    <3> QED
      BY <1>2, <2>2, <2>6, <3>1, ClientStep DEF AccessoryAsks
  <2>7. CASE /\ CanPoll(t, "accessory") /\ accessory' \in {"write", "read"}
             /\ transport' = Queued(t, accessory')
    <3>1. /\ transport'.kind = accessory' /\ transport'.phase = "queued"
          /\ transport'.owner = "accessory"
      BY <2>1, <2>2, <2>7 DEF Queued, TransportType
    <3> QED
      BY <1>2, <2>2, <2>7, <3>1, ClientStep DEF AccessoryAsks
  <2> QED
    BY <2>4, <2>5, <2>6, <2>7
<1> QED
  BY <1>1, <1>2

\* Adapter commands that start over let the transport go.
LEMMA RediscoversSafe ==
  ASSUME TypeOK, SafeInv, NEW t \in TransportType, t.owner = "adapter",
         transport.owner \in {"none", "adapter"}, Rediscovers(t),
         UNCHANGED <<transfer, accessory, forwarder, mailbox>>
  PROVE  SafeInv'
<1>1. AdapterAwaits' = "none"
  BY DEF Rediscovers, InitAdapter, AdapterAwaits
<1>2. transport'.phase = "idle" /\ transport'.owner = "none"
  BY DEF Rediscovers, Released, InitTransport, TransportType
<1> QED
  BY <1>1, <1>2, AwaitsOf, AwaitsNext, Alone, ClientStep DEF Clients

\* The adapter commands ask as the owner, and give up only a request of their own.
LEMMA AdapterSafe == TypeOK /\ SafeInv /\ (AdapterAsks \/ AdapterEnds \/ AdapterCounts) => SafeInv'
<1> SUFFICES ASSUME TypeOK, SafeInv
             PROVE  AdapterAsks \/ AdapterEnds \/ AdapterCounts => SafeInv'
  OBVIOUS
<1> USE AwaitsOf, AwaitsNext, Alone DEF Adapter, Clients
<1>1. ASSUME AdapterAsks PROVE SafeInv'
  <2> DEFINE t == Claimed(transport, "adapter")
  <2>1. t \in TransportType
    BY ClaimedType DEF TypeOK
  <2>2. CanPoll(t, "adapter") => /\ transport.owner \in {"none", "adapter"}
                                 /\ t.owner = "adapter" /\ t.phase = "idle"
    BY DEF CanPoll, Claimed, TypeOK, TransportType
  <2>3. transport.owner # "none" => t = transport
    BY DEF Claimed, TypeOK, TransportType
  <2>4. \/ transport' = t /\ UNCHANGED adapter
        \/ CanPoll(t, "adapter") /\ Rediscovers(t)
        \/ /\ CanPoll(t, "adapter")
           /\ adapter' = [phase |-> "reading", waits |-> 0] /\ transport' = Queued(t, "read")
        \/ /\ CanPoll(t, "adapter")
           /\ adapter' = [phase |-> "writing", waits |-> 0] /\ transport' = Queued(t, "write")
    BY <1>1, AsksTo
  <2> HIDE DEF t
  <2>5. CASE transport' = t /\ UNCHANGED adapter
    <3>1. CASE transport.owner = "none"
      BY <1>1, <2>5, <3>1, ClaimStep DEF AdapterAsks, t
    <3>2. CASE transport.owner # "none"
      BY <1>1, <2>3, <2>5, <3>2, StaysSafe DEF AdapterAsks, TypeOK
    <3> QED
      BY <3>1, <3>2
  <2>6. CASE CanPoll(t, "adapter") /\ Rediscovers(t)
    BY <1>1, <2>1, <2>2, <2>6, RediscoversSafe DEF AdapterAsks
  <2>7. CASE /\ CanPoll(t, "adapter")
             /\ adapter' = [phase |-> "reading", waits |-> 0] /\ transport' = Queued(t, "read")
    <3>1. AdapterAwaits' = "read"
      BY <2>7 DEF AdapterAwaits
    <3>2. transport'.kind = "read" /\ transport'.phase = "queued" /\ transport'.owner = "adapter"
      BY <2>1, <2>2, <2>7 DEF Queued, TransportType
    <3> QED
      BY <1>1, <2>2, <2>7, <3>1, <3>2, ClientStep DEF AdapterAsks
  <2>8. CASE /\ CanPoll(t, "adapter")
             /\ adapter' = [phase |-> "writing", waits |-> 0] /\ transport' = Queued(t, "write")
    <3>1. AdapterAwaits' = "write"
      BY <2>8 DEF AdapterAwaits
    <3>2. transport'.kind = "write" /\ transport'.phase = "queued" /\ transport'.owner = "adapter"
      BY <2>1, <2>2, <2>8 DEF Queued, TransportType
    <3> QED
      BY <1>1, <2>2, <2>8, <3>1, <3>2, ClientStep DEF AdapterAsks
  <2> QED
    BY <2>4, <2>5, <2>6, <2>7, <2>8 DEF t
<1>2. AdapterWaits => transport.owner = "adapter"
  <2>1. AdapterWaits => AdapterAwaits # "none"
    BY DEF AdapterWaits, AdapterAwaits
  <2> QED
    BY <2>1, OwnerOf
<1>3. ASSUME AdapterEnds PROVE SafeInv'
  <2>1. /\ Polled(transport) \in TransportType /\ Polled(transport).owner = "adapter"
        /\ transport.owner = "adapter"
    BY <1>2, <1>3, PolledType DEF AdapterEnds, Polled, TypeOK, TransportType
  <2>2. CASE /\ adapter' = [phase |-> "ready", waits |-> 0]
             /\ transport' = Released(Polled(transport), "adapter")
    <3>1. AdapterAwaits' = "none"
      BY <2>2 DEF AdapterAwaits
    <3>2. transport'.phase = "idle" /\ transport'.owner = "none"
      BY <2>1, <2>2 DEF Released, InitTransport, TransportType
    <3> QED
      BY <1>3, <2>1, <3>1, <3>2, ClientStep DEF AdapterEnds, AdapterWaits
  <2>3. CASE Rediscovers(Polled(transport))
    BY <1>3, <2>1, <2>3, RediscoversSafe DEF AdapterEnds, AdapterWaits
  <2> QED
    BY <1>3, <2>2, <2>3 DEF AdapterEnds
<1>4. ASSUME AdapterCounts PROVE SafeInv'
  <2>1. transport.owner = "adapter" /\ Failed(transport) \in TransportType
    BY <1>2, <1>4, FailedType DEF AdapterCounts, TypeOK
  <2>2. CASE /\ \E waits \in 0 .. WaitLimit : adapter' = [adapter EXCEPT !.waits = waits]
             /\ transport' = transport
    <3>1. AdapterAwaits' = AdapterAwaits
      BY <2>2 DEF AdapterAwaits, TypeOK, AdapterType
    <3> QED
      BY <1>4, <2>2, <3>1, StaysSafe DEF AdapterCounts, AdapterWaits, TypeOK
  <2>3. CASE Rediscovers(Failed(transport))
    <3>1. Failed(transport).owner = "adapter"
      BY <2>1 DEF Failed, Ended, TypeOK, TransportType
    <3> QED
      BY <1>4, <2>1, <2>3, <3>1, RediscoversSafe DEF AdapterCounts, AdapterWaits
  <2> QED
    BY <1>4, <2>2, <2>3, CountsTo
<1> QED
  BY <1>1, <1>3, <1>4

\* A forwarder that owns the transport moves on to its other endpoint and lets the transport go.
LEMMA AdvanceSafe ==
  ASSUME TypeOK, SafeInv, NEW f \in ForwarderType, NEW t \in TransportType, t.owner = "forwarder",
         transport.owner \in {"none", "forwarder"}, Advance(f, t),
         UNCHANGED <<transfer, accessory, adapter, mailbox>>
  PROVE  SafeInv'
<1>1. ForwarderAwaits' = "none"
  BY DEF Advance, ForwarderAwaits, ForwarderType
<1>2. transport'.phase = "idle" /\ transport'.owner = "none"
  BY DEF Advance, Released, InitTransport, TransportType
<1> QED
  BY <1>1, <1>2, AwaitsOf, AwaitsNext, Alone, ClientStep DEF Clients

\* The forwarder claims a transport nobody owns, and gives up only a request of its own.
LEMMA ForwardSafe ==
  TypeOK /\ SafeInv /\ (ForwardStarts \/ ForwardEnds \/ ForwardRecovers) => SafeInv'
<1> SUFFICES ASSUME TypeOK, SafeInv
             PROVE  ForwardStarts \/ ForwardEnds \/ ForwardRecovers => SafeInv'
  OBVIOUS
<1> USE AwaitsOf, AwaitsNext, Alone DEF Forward, Clients
<1>1. ASSUME ForwardStarts PROVE SafeInv'
  <2> DEFINE t == Claimed(transport, "forwarder")
  <2>1. PICK batch \in {forwarder.batch, TRUE} :
          LET f == [forwarder EXCEPT !.batch = batch]
          IN  \/ forwarder' = f /\ transport' = transport
              \/ forwarder' = f /\ transport' = t /\ ~CanPoll(t, "forwarder")
              \/ CanPoll(t, "forwarder") /\ Advance(f, Polled(t))
              \/ /\ CanPoll(t, "forwarder") /\ transport' = Queued(t, "read")
                 /\ forwarder' = [f EXCEPT !.phase = "probePending"]
              \/ /\ CanPoll(t, "forwarder") /\ transport' = Queued(t, "write")
                 /\ forwarder' = [f EXCEPT !.phase = "writePending", !.batch = FALSE]
    BY <1>1 DEF ForwardStarts
  <2> DEFINE f == [forwarder EXCEPT !.batch = batch]
  <2>2. f \in ForwarderType /\ f.phase = forwarder.phase
    BY BatchType DEF TypeOK, ForwarderType
  <2>3. ForwarderAwaits = "none"
    BY <1>1 DEF ForwardStarts, ForwarderAwaits
  <2>4. t \in TransportType
    BY ClaimedType DEF TypeOK
  <2>5. CanPoll(t, "forwarder") => /\ transport.owner \in {"none", "forwarder"}
                                   /\ t.owner = "forwarder" /\ t.phase = "idle"
    BY DEF CanPoll, Claimed, TypeOK, TransportType
  <2>6. transport.owner # "none" => t = transport
    BY DEF Claimed, TypeOK, TransportType
  <2> HIDE DEF f, t
  <2>7. CASE forwarder' = f /\ transport' = transport
    <3>1. ForwarderAwaits' = "none"
      BY <1>1, <2>2, <2>7 DEF ForwardStarts, ForwarderAwaits
    <3> QED
      BY <1>1, <2>3, <2>7, <3>1, StaysSafe DEF ForwardStarts, TypeOK
  <2>11. CASE forwarder' = f /\ transport' = t /\ transport.owner = "none"
    <3>1. ForwarderAwaits' = "none"
      BY <1>1, <2>2, <2>11 DEF ForwardStarts, ForwarderAwaits
    <3> QED
      BY <1>1, <2>3, <2>11, <3>1, ClaimStep DEF ForwardStarts, t
  <2>8. CASE CanPoll(t, "forwarder") /\ Advance(f, Polled(t))
    <3>1. Polled(t) \in TransportType /\ Polled(t).owner = "forwarder"
      BY <2>4, <2>5, <2>8, PolledType DEF Polled, TransportType
    <3> QED
      BY <1>1, <2>2, <2>5, <2>8, <3>1, AdvanceSafe DEF ForwardStarts
  <2>9. CASE /\ CanPoll(t, "forwarder") /\ transport' = Queued(t, "read")
             /\ forwarder' = [f EXCEPT !.phase = "probePending"]
    <3>1. ForwarderAwaits' = "read"
      BY <2>2, <2>9 DEF ForwarderAwaits, ForwarderType
    <3>2. transport'.kind = "read" /\ transport'.phase = "queued" /\ transport'.owner = "forwarder"
      BY <2>4, <2>5, <2>9 DEF Queued, TransportType
    <3>3. \A d \in Clients \ {"forwarder"} : Awaits(d)' = Awaits(d)
      BY <1>1 DEF ForwardStarts
    <3>4. Awaits("forwarder")' = "read" /\ Awaits("none")' = "none" /\ Awaits("none") = "none"
      BY <3>1
    <3> QED
      BY <2>5, <2>9, <3>2, <3>3, <3>4, ClientStep
  <2>10. CASE /\ CanPoll(t, "forwarder") /\ transport' = Queued(t, "write")
              /\ forwarder' = [f EXCEPT !.phase = "writePending", !.batch = FALSE]
    <3>1. ForwarderAwaits' = "write"
      BY <2>2, <2>10 DEF ForwarderAwaits, ForwarderType
    <3>2. transport'.kind = "write" /\ transport'.phase = "queued" /\ transport'.owner = "forwarder"
      BY <2>4, <2>5, <2>10 DEF Queued, TransportType
    <3>3. \A d \in Clients \ {"forwarder"} : Awaits(d)' = Awaits(d)
      BY <1>1 DEF ForwardStarts
    <3>4. Awaits("forwarder")' = "write" /\ Awaits("none")' = "none" /\ Awaits("none") = "none"
      BY <3>1
    <3> QED
      BY <2>5, <2>10, <3>2, <3>3, <3>4, ClientStep
  <2> QED
    BY <2>1, <2>6, <2>7, <2>8, <2>9, <2>10, <2>11 DEF f, t
<1>2. ForwardWaits => transport.owner = "forwarder"
  <2>1. ForwardWaits => ForwarderAwaits # "none"
    BY DEF ForwardWaits, ForwarderAwaits
  <2> QED
    BY <2>1, OwnerOf
<1>3. ASSUME ForwardEnds PROVE SafeInv'
  <2>1. PICK batch \in {forwarder.batch, TRUE} :
          \/ /\ forwarder' = [forwarder EXCEPT !.phase = "ready", !.waits = 0, !.batch = batch]
             /\ transport' = Released(Polled(transport), "forwarder")
          \/ Advance([forwarder EXCEPT !.batch = batch], Polled(transport))
    BY <1>3 DEF ForwardEnds
  <2>2. /\ Polled(transport) \in TransportType /\ Polled(transport).owner = "forwarder"
        /\ transport.owner = "forwarder"
    BY <1>2, <1>3, PolledType DEF ForwardEnds, Polled, TypeOK, TransportType
  <2>3. CASE /\ forwarder' = [forwarder EXCEPT !.phase = "ready", !.waits = 0, !.batch = batch]
             /\ transport' = Released(Polled(transport), "forwarder")
    <3>1. ForwarderAwaits' = "none"
      BY <2>3 DEF ForwarderAwaits, TypeOK, ForwarderType
    <3>2. transport'.phase = "idle" /\ transport'.owner = "none"
      BY <2>2, <2>3 DEF Released, InitTransport, TransportType
    <3> QED
      BY <1>3, <2>2, <3>1, <3>2, ClientStep DEF ForwardEnds, ForwardWaits
  <2>4. CASE Advance([forwarder EXCEPT !.batch = batch], Polled(transport))
    <3>1. [forwarder EXCEPT !.batch = batch] \in ForwarderType
      BY BatchType DEF TypeOK
    <3> QED
      BY <1>3, <2>2, <2>4, <3>1, AdvanceSafe DEF ForwardEnds, ForwardWaits
  <2> QED
    BY <2>1, <2>3, <2>4
<1>4. ASSUME ForwardRecovers PROVE SafeInv'
  <2>3. PICK batch \in {forwarder.batch, TRUE}, waits \in 0 .. WaitLimit + 1,
             t \in {transport, Failed(transport)} :
          LET f == [forwarder EXCEPT !.waits = waits, !.batch = batch]
          IN  \/ forwarder' = f /\ transport' = t
              \/ Advance(f, Polled(t))
    BY <1>4, RecoversTo
  <2> DEFINE f == [forwarder EXCEPT !.waits = waits, !.batch = batch]
  <2>4. f \in ForwarderType /\ f.phase = forwarder.phase
    <3>1. batch \in BOOLEAN
      BY BatchType DEF TypeOK
    <3> QED
      BY <3>1 DEF TypeOK, ForwarderType
  <2> HIDE DEF f
  <2>5. /\ transport.owner = "forwarder" /\ t \in {transport, Ended(transport, FALSE)}
        /\ t \in TransportType
    BY <1>2, <1>4, FailedType DEF ForwardRecovers, Failed, TypeOK
  <2>6. CASE forwarder' = f /\ transport' = t
    <3>1. ForwarderAwaits' = ForwarderAwaits
      BY <2>4, <2>6 DEF ForwarderAwaits
    <3>2. CASE t = transport
      BY <1>4, <2>6, <3>1, <3>2, StaysSafe DEF ForwardRecovers, ForwardWaits, TypeOK
    <3>3. CASE t = Ended(transport, FALSE)
      BY <1>4, <2>5, <2>6, <3>1, <3>3, ClientStep DEF ForwardRecovers, ForwardWaits
    <3> QED
      BY <2>5, <3>2, <3>3
  <2>7. CASE Advance(f, Polled(t))
    <3>1. Polled(t) \in TransportType /\ Polled(t).owner = "forwarder"
      <4>1. t.owner = "forwarder"
        BY <2>5 DEF Ended, TypeOK, TransportType
      <4> QED
        BY <2>5, <4>1, PolledType DEF Polled, TransportType
    <3> QED
      BY <1>4, <2>4, <2>5, <2>7, <3>1, AdvanceSafe DEF ForwardRecovers, ForwardWaits
  <2> QED
    BY <2>3, <2>6, <2>7 DEF f
<1> QED
  BY <1>1, <1>3, <1>4

\* The mailbox moves only while it owns the transport.
LEMMA MailSafe == TypeOK /\ SafeInv /\ Mailbox => SafeInv'
<1> SUFFICES ASSUME TypeOK, SafeInv
             PROVE  Mailbox => SafeInv'
  OBVIOUS
<1> USE AwaitsOf, AwaitsNext, Alone DEF Mail, Held, wheel, Clients
<1>1. ASSUME MailboxAway \/ MailboxBusy PROVE SafeInv'
  BY <1>1, StaysSafe DEF MailboxAway, MailboxBusy, MailboxWaits, MailboxRuns, TypeOK
<1>2. ASSUME MailboxAsks /\ transport' = transport PROVE SafeInv'
  <2>1. MailboxAwaits' = "none" /\ MailboxAwaits = "none"
    <3>1. CanPoll(transport, "mailbox") => transport'.phase = "queued"
      BY <1>2 DEF MailboxAsks, MailboxRuns, Queued, Polled, TypeOK, TransportType
    <3>2. mailbox'.phase = mailbox.phase
      BY <1>2, <3>1 DEF MailboxAsks, MailboxRuns, CanPoll, TypeOK, MailboxType
    <3> QED
      BY <1>2, <3>2 DEF MailboxAsks, MailboxRuns, MailboxAwaits
  <2> QED
    BY <1>2, <2>1, StaysSafe DEF MailboxAsks, MailboxRuns, TypeOK
<1>3. ASSUME MailboxAsks /\ transport' # transport PROVE SafeInv'
  <2>1. MailboxAwaits' = "read"
    BY <1>3 DEF MailboxAsks, MailboxRuns, MailboxAwaits, TypeOK, MailboxType
  <2>2. /\ transport'.kind = "read" /\ transport'.phase = "queued"
        /\ transport'.owner = "mailbox" /\ transport.owner = "mailbox"
    BY <1>3 DEF MailboxAsks, MailboxRuns, Queued, Polled, TypeOK, TransportType
  <2> QED
    BY <1>3, <2>1, <2>2, ClientStep DEF MailboxAsks, MailboxRuns
<1>4. ASSUME MailboxFails PROVE SafeInv'
  <2>1. PICK write \in BOOLEAN :
          mailbox' = [mailbox EXCEPT !.phase = "controlQueue", !.write = write]
    BY <1>4, FailsTo
  <2>2. MailboxAwaits' = "none"
    BY <2>1 DEF MailboxAwaits, TypeOK, MailboxType
  <2>3. /\ transport'.phase = "idle" /\ transport'.owner = "mailbox"
        /\ transport.owner = "mailbox"
    BY <1>4 DEF MailboxFails, MailboxWaits, MailboxRuns, CanPoll, Polled, TypeOK, TransportType
  <2> QED
    BY <1>4, <2>2, <2>3, ClientStep DEF MailboxFails, MailboxWaits, MailboxRuns
<1>5. ASSUME MailboxDone PROVE SafeInv'
  <2>1. PICK write \in BOOLEAN :
          mailbox' = [mailbox EXCEPT !.phase = "controlQueue", !.write = write]
    BY <1>5, DoneTo
  <2>2. MailboxAwaits' = "none"
    BY <2>1 DEF MailboxAwaits, TypeOK, MailboxType
  <2>3. /\ transport'.phase = "idle" /\ transport'.owner = "mailbox"
        /\ transport.owner = "mailbox"
    BY <1>5 DEF MailboxDone, MailboxReady, MailboxWaits, MailboxRuns, CanPoll
  <2> QED
    BY <1>5, <2>2, <2>3, ClientStep DEF MailboxDone, MailboxReady, MailboxWaits, MailboxRuns
<1>6. Control => transport.owner = "mailbox" /\ transport.phase = "idle"
  BY DEF Control, MailboxReady, MailboxWaits, MailboxRuns, CanPoll
<1>7. ASSUME MailboxErased PROVE SafeInv'
  <2>1. MailboxAwaits' = "none"
    <3>1. \/ \E erased \in 0 .. ControlLimit :
               mailbox' = [mailbox EXCEPT !.erased = erased, !.phase = "controlQueue"]
          \/ mailbox' = InitMailbox
      BY <1>7, ErasedTo
    <3>2. CASE \E erased \in 0 .. ControlLimit :
                 mailbox' = [mailbox EXCEPT !.erased = erased, !.phase = "controlQueue"]
      BY <3>2 DEF MailboxAwaits, TypeOK, MailboxType
    <3>3. CASE mailbox' = InitMailbox
      BY <3>3 DEF MailboxAwaits, InitMailbox
    <3> QED
      BY <3>1, <3>2, <3>3
  <2>2. transport'.phase = "idle" /\ transport'.owner \in {"none", "mailbox"}
    BY <1>6, <1>7 DEF MailboxErased, Released, InitTransport, TypeOK, TransportType
  <2> QED
    BY <1>6, <1>7, <2>1, <2>2, ClientStep
       DEF MailboxErased, Control, MailboxReady, MailboxWaits, MailboxRuns
<1>8. ASSUME MailboxRetries /\ mailbox.retried PROVE SafeInv'
  <2>1. MailboxAwaits' = "read"
    BY <1>8 DEF MailboxRetries, MailboxAwaits, TypeOK, MailboxType
  <2>2. transport'.kind = "read" /\ transport'.phase = "queued" /\ transport'.owner = "mailbox"
    BY <1>6, <1>8 DEF MailboxRetries, Queued, TypeOK, TransportType
  <2> QED
    BY <1>6, <1>8, <2>1, <2>2, ClientStep
       DEF MailboxRetries, Control, MailboxReady, MailboxWaits, MailboxRuns
<1>9. ASSUME MailboxRetries /\ ~mailbox.retried PROVE SafeInv'
  <2>1. MailboxAwaits' = "none"
    BY <1>9 DEF MailboxRetries, MailboxAwaits, TypeOK, MailboxType
  <2> QED
    BY <1>6, <1>9, <2>1, ClientStep DEF MailboxRetries, Control, MailboxReady, MailboxWaits, MailboxRuns
<1>11. Control => UNCHANGED wheel
  BY DEF Control, MailboxReady, MailboxWaits, MailboxRuns
<1>10. ASSUME MailboxTurns PROVE SafeInv'
  <2>5. Control
    BY <1>10 DEF MailboxTurns
  <2>1. \/ /\ mailbox'.phase = "payloadReadWait" /\ transport' = Queued(transport, "read")
        \/ /\ mailbox'.phase = "payloadWriteWait" /\ transport' = Queued(transport, "write")
        \/ mailbox'.phase = "controlQueue" /\ transport' = transport
    BY <1>10 DEF MailboxTurns, TypeOK, MailboxType
  <2>2. CASE mailbox'.phase = "payloadReadWait" /\ transport' = Queued(transport, "read")
    <3>1. MailboxAwaits' = "read"
      BY <2>2 DEF MailboxAwaits
    <3>2. transport'.kind = "read" /\ transport'.phase = "queued" /\ transport'.owner = "mailbox"
      BY <1>6, <1>10, <2>2 DEF MailboxTurns, Queued, TypeOK, TransportType
    <3> QED
      BY <1>6, <1>11, <2>5, <3>1, <3>2, ClientStep
  <2>3. CASE mailbox'.phase = "payloadWriteWait" /\ transport' = Queued(transport, "write")
    <3>1. MailboxAwaits' = "write"
      BY <2>3 DEF MailboxAwaits
    <3>2. transport'.kind = "write" /\ transport'.phase = "queued" /\ transport'.owner = "mailbox"
      BY <1>6, <1>10, <2>3 DEF MailboxTurns, Queued, TypeOK, TransportType
    <3> QED
      BY <1>6, <1>11, <2>5, <3>1, <3>2, ClientStep
  <2>4. CASE mailbox'.phase = "controlQueue" /\ transport' = transport
    <3>1. MailboxAwaits' = "none"
      BY <2>4 DEF MailboxAwaits
    <3> QED
      BY <1>6, <1>11, <2>4, <2>5, <3>1, ClientStep
  <2> QED
    BY <2>1, <2>2, <2>3, <2>4
<1> QED
  BY <1>1, <1>2, <1>3, <1>4, <1>5, <1>7, <1>8, <1>9, <1>10 DEF Mailbox

\* The answer taken is that of the request that waits, so an acceptance is its own.
LEMMA ReceiveSafe == TypeOK /\ SafeInv /\ (ReceiveNothing \/ ReceiveAnswer) => SafeInv'
<1> SUFFICES ASSUME TypeOK, SafeInv PROVE ReceiveNothing \/ ReceiveAnswer => SafeInv'
  OBVIOUS
<1> USE AwaitsOf, AwaitsNext, Alone DEF clients, wheel
<1>1. ASSUME ReceiveNothing PROVE SafeInv'
  BY <1>1, StaysSafe DEF ReceiveNothing, Receive, TypeOK, Clients
<1>2. ASSUME ReceiveAnswer PROVE SafeInv'
  <2>1. \A d \in Clients \cup {"none"} : Awaits(d)' = Awaits(d)
    BY <1>2 DEF ReceiveAnswer, Receive, Clients
  <2>2. CASE transport' = transport
    BY <2>1, <2>2, StaysSafe DEF TypeOK
  <2>3. CASE transport' = Ended(transport, FALSE)
    <3>1. transport'.phase = "idle" /\ transport'.owner = transport.owner /\ ~transport'.complete
      BY <2>3 DEF Ended, TypeOK, TransportType
    <3> QED
      BY <2>1, <3>1 DEF SafeInv, HasKind, CarriesOwnersRequest, WaitsAsOwner, PendingIsSent,
         CompleteIsOwn
  <2>4. CASE transport' = Accepted(transport) /\ transport.phase = "pending"
    <3>1. transport.request = "sent"
      BY <2>4 DEF SafeInv, PendingIsSent
    <3>2. /\ transport'.phase = "idle" /\ transport'.owner = transport.owner
          /\ transport'.request = "accepted"
      BY <2>4, <3>1 DEF Accepted, Ended, TypeOK, TransportType
    <3> QED
      BY <2>1, <3>2 DEF SafeInv, HasKind, CarriesOwnersRequest, WaitsAsOwner, PendingIsSent,
         CompleteIsOwn
  <2>5. CASE transport' = Failed(transport)
    BY <2>2, <2>3, <2>5 DEF Failed
  <2>6. ASSUME NEW outcome \in {"accepted", "rejected", "malformed"},
               transport' = Received(transport, outcome)
        PROVE  SafeInv'
    <3>1. CASE transport.phase # "pending" \/ outcome = "rejected"
      BY <2>3, <2>6, <3>1 DEF Received
    <3>2. CASE transport.phase = "pending" /\ outcome = "accepted"
      BY <2>4, <2>6, <3>2 DEF Received
    <3>3. CASE transport.phase = "pending" /\ outcome = "malformed"
      BY <2>2, <2>6, <3>3 DEF Received
    <3> QED
      BY <3>1, <3>2, <3>3
  <2> QED
    BY <1>2, <2>5, <2>6 DEF ReceiveAnswer
<1> QED
  BY <1>1, <1>2

\* A request that is submitted is the queued one, and no client notices.
LEMMA SerialSafe ==
  TypeOK /\ SafeInv /\ (NoReport \/ Submit \/ PollWaits \/ PollTurns) => SafeInv'
<1> SUFFICES ASSUME TypeOK, SafeInv
             PROVE  NoReport \/ Submit \/ PollWaits \/ PollTurns => SafeInv'
  OBVIOUS
<1> USE AwaitsOf, AwaitsNext, Alone DEF clients, wheel
<1>1. ASSUME NoReport \/ PollWaits \/ PollTurns PROVE SafeInv'
  BY <1>1, StaysSafe DEF NoReport, PollWaits, PollTurns, Poll, TypeOK, Clients
<1>2. ASSUME Submit PROVE SafeInv'
  <2>1. \A d \in Clients \cup {"none"} : Awaits(d)' = Awaits(d)
    BY <1>2 DEF Submit, Clients
  <2>2. CASE UNCHANGED transport
    BY <2>1, <2>2, StaysSafe DEF TypeOK
  <2>3. CASE transport.phase = "queued" /\ transport' = Submitted
    <3>1. /\ transport'.phase = "pending" /\ transport'.owner = transport.owner
          /\ transport'.kind = transport.kind /\ transport'.request = "sent"
      BY <2>3 DEF Submitted, TypeOK, TransportType
    <3> QED
      BY <2>1, <2>3, <3>1 DEF SafeInv, HasKind, CarriesOwnersRequest, WaitsAsOwner, PendingIsSent,
         CompleteIsOwn, CanPoll, TypeOK, TransportType
  <2> QED
    BY <1>2, <2>2, <2>3 DEF Submit
<1> QED
  BY <1>1, <1>2

\* A startup takes, asks and drops as the mailbox, which waits for nothing until it runs.
LEMMA StartupSafe == TypeOK /\ SafeInv /\ StartupInv /\ Begins => SafeInv'
<1> SUFFICES ASSUME TypeOK, SafeInv, StartupInv PROVE Begins => SafeInv'
  OBVIOUS
<1> USE AwaitsOf, AwaitsNext, Alone DEF Startup, StartupStep, wheel, Clients
<1>1. ASSUME StartupOff PROVE SafeInv'
  BY <1>1, StaysSafe DEF StartupOff, TypeOK
<1>2. Released(transport, "mailbox") \in {transport, InitTransport}
  BY DEF Released
<1>3. ASSUME transport' = Released(transport, "mailbox"), MailboxAwaits' = "none", UNCHANGED wheel
      PROVE  SafeInv'
  <2>1. CASE transport.owner = "mailbox"
    <3>1. transport'.phase = "idle" /\ transport'.owner = "none"
      BY <1>3, <2>1 DEF Released, InitTransport
    <3> QED
      BY <1>3, <2>1, <3>1, ClientStep
  <2>2. CASE transport.owner # "mailbox"
    <3>1. MailboxAwaits = "none" /\ transport' = transport
      BY <1>3, <2>2, OwnerOf DEF Released
    <3> QED
      BY <1>3, <3>1, StaysSafe DEF TypeOK
  <2> QED
    BY <2>1, <2>2
<1>4. ASSUME StartupBegins PROVE SafeInv'
  <2>1. MailboxAwaits' = "none"
    BY <1>4 DEF StartupBegins, InitMailbox, MailboxAwaits
  <2> QED
    BY <1>3, <1>4, <2>1 DEF StartupBegins
<1>11. ASSUME \A d \in Clients : Awaits(d)' = "none",
              \/ transport'.phase = "idle"
              \/ transport'.phase = "queued" /\ transport'.kind = "length"
       PROVE  SafeInv'
  BY <1>11 DEF SafeInv, HasKind, CarriesOwnersRequest, WaitsAsOwner, PendingIsSent, CompleteIsOwn
<1>12. ASSUME StartupFails PROVE SafeInv'
  <2>1. MailboxAwaits' = "none"
    BY <1>12 DEF StartupFails, InitMailbox, MailboxAwaits
  <2>2. CASE transport' = Released(transport, "mailbox")
    BY <1>3, <1>12, <2>1, <2>2 DEF StartupFails
  <2>3. CASE transport.owner \notin {"none", "mailbox"}
    <3>1. FailingTurn = transport
      BY <2>3 DEF FailingTurn, Claimed, CanPoll, TypeOK, TransportType
    <3> QED
      BY <1>12, <2>2, <3>1 DEF StartupFails
  <2>4. CASE transport.owner = "mailbox"
    <3>1. FailingTurn.owner = "mailbox"
      BY <2>4 DEF FailingTurn, Claimed, Polled, Queued, TypeOK, TransportType
    <3>2. transport'.phase = "idle" /\ transport'.owner = "none"
      BY <1>12, <2>4, <3>1 DEF StartupFails, Released, InitTransport
    <3> QED
      BY <1>12, <2>1, <2>4, <3>2, ClientStep DEF StartupFails
  <2>5. CASE transport.owner = "none" /\ transport' = Released(FailingTurn, "mailbox")
    <3>1. \A d \in Clients : Awaits(d)' = "none"
      BY <1>12, <2>1, <2>5, OwnerOf DEF StartupFails
    <3>2. CASE startup = "claim"
      <4>1. FailingTurn.owner = "mailbox"
        BY <2>5, <3>2 DEF FailingTurn, Claimed, TypeOK, TransportType
      <4>2. transport'.phase = "idle"
        BY <2>5, <4>1 DEF Released, InitTransport
      <4> QED
        BY <1>11, <3>1, <4>2
    <3>3. CASE startup # "claim" /\ ~CanPoll(transport, "mailbox")
      <4>1. FailingTurn = transport
        BY <3>3 DEF FailingTurn
      <4> QED
        BY <2>2, <2>5, <4>1
    <3>4. CASE startup = "runs" \/ startup = "off"
      <4>1. FailingTurn = transport
        BY <3>4 DEF FailingTurn
      <4> QED
        BY <2>2, <2>5, <4>1
    <3>5. CASE startup \in {"read", "status"} /\ CanPoll(transport, "mailbox")
      <4>1. FailingTurn \in {Queued(Polled(transport), "length"), Polled(transport)}
        BY <3>5 DEF FailingTurn
      <4>2. transport'.phase = "idle" \/ (transport'.phase = "queued" /\ transport'.kind = "length")
        BY <2>5, <3>5, <4>1
           DEF Released, InitTransport, Queued, Polled, CanPoll, TypeOK, TransportType
      <4> QED
        BY <1>11, <3>1, <4>2
    <3> QED
      BY <3>2, <3>3, <3>4, <3>5 DEF TypeOK
  <2> QED
    BY <1>12, <2>2, <2>3, <2>4, <2>5 DEF StartupFails, TypeOK, TransportType
<1>5. ASSUME StartupFinishes PROVE SafeInv'
  <2>1. MailboxAwaits' = "none"
    BY <1>5 DEF StartupFinishes, MailboxAwaits, TypeOK, MailboxType
  <2> QED
    BY <1>3, <1>5, <2>1 DEF StartupFinishes
<1>6. ASSUME StartupClaims PROVE SafeInv'
  <2>1. CASE transport.owner = "none"
    BY <1>6, <2>1, ClaimStep DEF StartupClaims
  <2>2. CASE transport.owner # "none"
    <3>1. transport' = transport
      BY <1>6, <2>2 DEF StartupClaims, Claimed, TypeOK, TransportType
    <3> QED
      BY <1>6, <3>1, StaysSafe DEF StartupClaims, TypeOK
  <2> QED
    BY <2>1, <2>2
<1>7. startup \in {"read", "status"} => MailboxAwaits = "none"
  BY DEF StartupInv, MailboxAwaits
<1>8. CanPoll(transport, "mailbox") /\ MailboxAwaits = "none"
        => \A d \in Clients : Awaits(d) = "none"
  BY OwnerOf DEF CanPoll
<1>9. ASSUME StartupReads PROVE SafeInv'
  <2>1. \A d \in Clients : Awaits(d)' = "none"
    BY <1>7, <1>8, <1>9 DEF StartupReads
  <2>2. transport'.phase = "queued" /\ transport'.kind = "length"
    BY <1>9 DEF StartupReads, Queued, Polled, TypeOK, TransportType
  <2> QED
    BY <1>11, <2>1, <2>2
<1>10. ASSUME StartupReady PROVE SafeInv'
  <2>1. CASE ~CanPoll(transport, "mailbox")
    BY <1>10, <2>1, StaysSafe DEF StartupReady, TypeOK
  <2>2. CASE CanPoll(transport, "mailbox")
    <3>1. MailboxAwaits' = MailboxAwaits
      BY <1>10, <2>2 DEF StartupReady, MailboxAwaits, TypeOK, MailboxType
    <3>2. \A d \in Clients : Awaits(d)' = "none"
      BY <1>7, <1>8, <1>10, <2>2, <3>1 DEF StartupReady
    <3>3. transport'.phase = "idle"
      BY <1>10, <2>2 DEF StartupReady, CanPoll, Polled, TypeOK, TransportType
    <3> QED
      BY <1>11, <3>2, <3>3
  <2> QED
    BY <2>1, <2>2
<1> QED
  BY <1>1, <1>4, <1>5, <1>6, <1>9, <1>10, <1>12 DEF Begins

\* Every step keeps the safety invariant.
LEMMA StepSafe == TypeOK /\ SafeInv /\ StartupInv /\ [Next]_vars => SafeInv'
<1> SUFFICES ASSUME TypeOK, SafeInv, StartupInv, [Next]_vars PROVE SafeInv'
  OBVIOUS
<1>1. CASE Host
  BY <1>1, HostSafe
<1>2. CASE ReceiveNothing \/ ReceiveAnswer
  BY <1>2, ReceiveSafe
<1>3. CASE NoReport \/ Submit \/ PollWaits \/ PollTurns
  BY <1>3, SerialSafe
<1>4. CASE Begins
  BY <1>4, StartupSafe
<1>5. CASE TransferBusy \/ TransferRejected \/ TransferAdvances
  BY <1>5, TransferSafe
<1>6. CASE AccessoryEnds \/ AccessoryAsks
  BY <1>6, AccessorySafe
<1>7. CASE AdapterAsks \/ AdapterEnds \/ AdapterCounts
  BY <1>7, AdapterSafe
<1>8. CASE ForwardStarts \/ ForwardEnds \/ ForwardRecovers
  BY <1>8, ForwardSafe
<1>9. CASE Mailbox
  BY <1>9, MailSafe
<1>10. CASE UNCHANGED vars
  BY <1>10, AwaitsOf, AwaitsNext, Alone, StaysSafe DEF vars, clients, wheel, Clients, TypeOK
<1> QED
  BY <1>1, <1>2, <1>3, <1>4, <1>5, <1>6, <1>7, <1>8, <1>9, <1>10 DEF Next, Pass

\* The inductive invariant of the theorems below holds of every reachable state.
LEMMA Inductive == Spec => [](TypeOK /\ SafeInv /\ StartupInv)
<1>1. Init => TypeOK /\ SafeInv /\ StartupInv
  BY InitType, InitSafe
<1>2. TypeOK /\ SafeInv /\ StartupInv /\ [Next]_vars => (TypeOK /\ SafeInv /\ StartupInv)'
  BY StepType, StepSafe, StepStartup
<1> QED
  BY <1>1, <1>2, PTL DEF Spec

----------------------------------------------------------------------------

\* Every variable keeps its type, the wait counters among them, for every wait limit and whichever
\* answers arrive malformed.
THEOREM TypeCorrect == Spec => []TypeOK
  BY Inductive, PTL

\* Whatever is given up, restarted, released or taken over by a startup, what the transport carries
\* is its owner's request, and no client waits on a transport that is another client's.
THEOREM OwnershipCorrect == Spec => []Ownership
<1>1. TypeOK /\ SafeInv /\ StartupInv => Ownership
  BY DEF SafeInv, Ownership
<1> QED
  BY <1>1, Inductive, PTL

\* No client takes the acceptance of a request it did not make for that of its own.
THEOREM CompleteCorrect == Spec => []CompleteIsOwn
<1>1. TypeOK /\ SafeInv /\ StartupInv => CompleteIsOwn
  BY DEF SafeInv
<1> QED
  BY <1>1, Inductive, PTL

\* A startup that finds the transport with another client cannot get it before it fails, for every
\* wait limit: the client that would let it go does not run.
THEOREM LockedOutCorrect == Spec => StartupLockedOut
<1> DEFINE Locked == startup = "claim" /\ transport.owner \notin {"none", "mailbox"}
           Stays == startup' \in {"claim", "off"} /\ transport'.owner = transport.owner
<1>1. ASSUME TypeOK, StartupInv, [Next]_vars, Locked PROVE Stays
  <2>1. CASE Host
    BY <1>1, <2>1 DEF Host, HostStartsTransfer, HostCommand, HostDefers, HostSwallowed,
       HostQueuesDeferred, HostRestart, HostRelease, HostReport, Usb
  <2>2. CASE NoReport \/ ReceiveNothing \/ Submit \/ PollWaits \/ PollTurns
    BY <1>1, <2>2 DEF NoReport, ReceiveNothing, Receive, Submit, Submitted, PollWaits, PollTurns,
       Poll, TypeOK, TransportType
  <2>3. CASE ReceiveAnswer
    BY <1>1, <2>3 DEF ReceiveAnswer, Receive, Failed, Received, Accepted, Ended, TypeOK,
       TransportType
  <2>4. CASE Begins
    BY <1>1, <2>4 DEF Begins, StartupOff, StartupBegins, StartupClaims, StartupReads, StartupReady,
       StartupFinishes, StartupFails, FailingTurn, Startup, StartupStep, Released, Claimed, Queued,
       Polled, CanPoll, TypeOK, TransportType
  <2>5. pc \notin {"transfer", "accessory", "adapter", "forwarder", "mailbox"}
    BY <1>1 DEF StartupInv
  <2>6. ~Mailbox
    BY <1>1, <2>5 DEF Mailbox, MailboxAway, MailboxAsks, MailboxBusy, MailboxFails, MailboxDone,
       MailboxErased, MailboxRetries, MailboxTurns, Control, MailboxReady, MailboxWaits,
       MailboxRuns, Mail
  <2>7. ~(\/ TransferBusy \/ TransferRejected \/ TransferAdvances \/ AccessoryEnds
          \/ AccessoryAsks \/ AdapterAsks \/ AdapterEnds \/ AdapterCounts \/ ForwardStarts
          \/ ForwardEnds \/ ForwardRecovers)
    BY <2>5 DEF TransferBusy, TransferRejected, TransferAdvances, Transfer, AccessoryEnds,
       AccessoryAsks, Accessory, AdapterAsks, AdapterEnds, AdapterCounts, AdapterWaits, Adapter,
       ForwardStarts, ForwardEnds, ForwardRecovers, ForwardWaits, Forward
  <2>8. CASE UNCHANGED vars
    BY <1>1, <2>8 DEF vars
  <2> QED
    BY <1>1, <2>1, <2>2, <2>3, <2>4, <2>6, <2>7, <2>8 DEF Next, Pass
<1>2. TypeOK /\ SafeInv /\ StartupInv /\ [Next]_vars => [Locked => Stays]_vars
  BY <1>1
<1> HIDE DEF Locked, Stays
<1>3. Spec => [][Locked => Stays]_vars
  BY <1>2, Inductive, PTL DEF Spec
<1> QED
  BY <1>3 DEF StartupLockedOut, Locked, Stays

\* What a request whose exchange has ended keeps from being polled, claimed, released or failed: the
\* transport is busy and belongs to a client that waits for it.
LEMMA Kept ==
    ASSUME TypeOK, Unanswerable, transport.owner \in {"transfer", "accessory"}
    PROVE  /\ \A o \in Clients : Claimed(transport, o) = transport
           /\ \A o \in Clients : ~CanPoll(transport, o)
           /\ Released(transport, "mailbox") = transport /\ FailingTurn = transport
           /\ adapter.phase \notin {"reading", "writing"}
           /\ forwarder.phase \notin {"probePending", "writePending"}
<1>1. transport \in TransportType /\ transport.phase = "pending" /\ transport.owner # "none"
      /\ transport.owner # "mailbox"
  BY DEF TypeOK, Unanswerable
<1>2. \A o \in Clients : Claimed(transport, o) = transport
  BY <1>1 DEF Claimed, TransportType
<1>3. \A o \in Clients : ~CanPoll(transport, o)
  BY <1>1 DEF CanPoll
<1>4. Released(transport, "mailbox") = transport
  BY <1>1 DEF Released
<1>5. FailingTurn = transport
  BY <1>2, <1>3 DEF FailingTurn, Clients
<1>6. adapter.phase \notin {"reading", "writing"}
  BY DEF Unanswerable, Awaits, AdapterAwaits
<1>7. forwarder.phase \notin {"probePending", "writePending"}
  BY DEF Unanswerable, Awaits, ForwarderAwaits
<1> QED
  BY <1>2, <1>3, <1>4, <1>5, <1>6, <1>7

\* After a malformed answer, or an exchange that a startup cancelled, no pass of the main loop ever
\* frees the transport from a wheel transfer or the accessory, for every wait limit.
THEOREM MalformedCorrect == Spec => MalformedIsFinal
<1> DEFINE Stuck == Unanswerable /\ transport.owner \in {"transfer", "accessory"} /\ Pass
           Stays == Unanswerable' /\ UNCHANGED transport
<1>1. ASSUME TypeOK, Stuck PROVE Stays
  <2> DEFINE Same == transport' = transport /\ serial' # "command"
             Quiet == adapter'.phase = adapter.phase /\ forwarder'.phase = forwarder.phase
  <2>1. Same /\ Quiet => Stays
    <3> SUFFICES ASSUME Same, Quiet PROVE Stays
      OBVIOUS
    <3>1. Awaits("adapter")' = Awaits("adapter")
      BY DEF Awaits, AdapterAwaits
    <3>2. Awaits("forwarder")' = Awaits("forwarder")
      BY DEF Awaits, ForwarderAwaits
    <3> QED
      BY <1>1, <3>1, <3>2 DEF Unanswerable
  <2>2. transport.phase = "pending" /\ serial # "command" /\ transport.owner # "mailbox"
    BY <1>1 DEF Unanswerable
  <2>3. /\ \A o \in Clients : Claimed(transport, o) = transport
        /\ \A o \in Clients : ~CanPoll(transport, o)
        /\ Released(transport, "mailbox") = transport /\ FailingTurn = transport
        /\ adapter.phase \notin {"reading", "writing"}
        /\ forwarder.phase \notin {"probePending", "writePending"}
    BY <1>1, Kept
  <2>4. CASE NoReport \/ Submit \/ PollWaits \/ PollTurns
    BY <2>1, <2>2, <2>4 DEF NoReport, Submit, PollWaits, PollTurns, Poll, clients, wheel
  <2>5. CASE ReceiveNothing \/ ReceiveAnswer
    BY <2>1, <2>2, <2>5 DEF ReceiveNothing, ReceiveAnswer, Receive, clients, wheel
  <2>6. CASE Begins
    BY <2>1, <2>2, <2>3, <2>6 DEF Begins, StartupOff, StartupBegins, StartupClaims, StartupReads,
       StartupReady, StartupFinishes, StartupFails, Startup, StartupStep, Clients, wheel
  <2>7. CASE TransferBusy \/ TransferRejected \/ TransferAdvances
    BY <2>1, <2>2, <2>3, <2>7 DEF TransferBusy, TransferRejected, TransferAdvances, Transfer,
       Clients
  <2>8. CASE AccessoryEnds \/ AccessoryAsks
    BY <2>1, <2>2, <2>3, <2>8 DEF AccessoryEnds, AccessoryAsks, Accessory, Clients
  <2>9. CASE AdapterAsks \/ AdapterEnds \/ AdapterCounts
    BY <2>1, <2>2, <2>3, <2>9 DEF AdapterAsks, AdapterEnds, AdapterCounts, AdapterWaits, Adapter,
       Clients
  <2>10. CASE ForwardStarts
    <3>1. PICK batch \in {forwarder.batch, TRUE} :
             /\ forwarder' = [forwarder EXCEPT !.batch = batch]
             /\ transport' = transport
      BY <2>3, <2>10 DEF ForwardStarts, Clients
    <3>2. forwarder'.phase = forwarder.phase
      BY <1>1, <3>1 DEF TypeOK, ForwarderType
    <3> QED
      BY <2>1, <2>2, <2>10, <3>1, <3>2 DEF ForwardStarts, Forward
  <2>11. CASE ForwardEnds \/ ForwardRecovers
    BY <2>3, <2>11 DEF ForwardEnds, ForwardRecovers, ForwardWaits
  <2>12. CASE Mailbox
    <3>1. Held
      BY <2>2 DEF Held
    <3>2. MailboxAway
      BY <2>12, <3>1 DEF Mailbox, MailboxAsks, MailboxBusy, MailboxFails, MailboxDone,
         MailboxErased, MailboxRetries, MailboxTurns, Control, MailboxReady, MailboxWaits,
         MailboxRuns
    <3> QED
      BY <2>1, <2>2, <3>2 DEF MailboxAway, Mail, wheel
  <2> QED
    BY <1>1, <2>4, <2>5, <2>6, <2>7, <2>8, <2>9, <2>10, <2>11, <2>12 DEF Pass
<1>2. TypeOK /\ [Next]_vars => [Stuck => Stays]_vars
  BY <1>1
<1> HIDE DEF Stuck, Stays
<1>3. Spec => [][Stuck => Stays]_vars
  BY <1>2, Inductive, PTL DEF Spec
<1> QED
  BY <1>3 DEF MalformedIsFinal, Stuck, Stays
=============================================================================
