------------------------- MODULE WheelSessionProofs -------------------------
(***************************************************************************)
(* The session with the wheel and the confirmation of force, for every set  *)
(* of wheel kinds and every length of the two windows.                      *)
(***************************************************************************)
EXTENDS WheelSession, TLAPS

-----------------------------------------------------------------------------
(* The protocol keeps the type of what the base holds. *)

Said == {"plain", "secure", "memory", "scan", "future", "odd", "challenge", "proof", "other"}

ReplyType == [ready : BOOLEAN, command : Said, valid : BOOLEAN, pressed : BOOLEAN]

LEMMA RepliesType == TypeOK => Replies \subseteq ReplyType
<1> SUFFICES ASSUME TypeOK, NEW reply \in Replies PROVE reply \in ReplyType
  OBVIOUS
<1>1. NotReady \in ReplyType /\ [NotReady EXCEPT !.ready = TRUE] \in ReplyType
  BY DEF NotReady, ReplyType, Said
<1>2. wheel # "none" => Commands(wheel) \subseteq Said
  BY KindsAssumption DEF TypeOK, AllKinds, Commands, Said
<1>3. CASE wheel # "none" /\ reply \in [ready : {TRUE}, command : Commands(wheel),
                                       valid : {TRUE}, pressed : BOOLEAN]
  BY <1>2, <1>3 DEF ReplyType
<1> QED
  BY <1>1, <1>3 DEF Replies

LEMMA DeadlinesType == /\ Off \in Deadlines /\ ActivityTicks \in Deadlines
                       /\ SelectionTicks \in Deadlines
  BY TicksAssumption DEF Deadlines

LEMMA FreshType == Fresh \in BaseType
  BY DeadlinesType DEF Fresh, BaseType, Phases, Modes

LEMMA SelectedType == ASSUME NEW b \in BaseType, NEW command \in Said
                      PROVE  Selected(b, command) \in BaseType
<1>1. CASE command = "scan"
  BY <1>1 DEF Selected, BaseType, Phases, Modes
<1>2. CASE command = "future"
  BY <1>2 DEF Selected, BaseType, Phases
<1>3. CASE command \in {"plain", "secure", "memory"}
  <2> DEFINE to == IF Authenticated(command) THEN "authenticating" ELSE "active"
  <2>1. to \in Phases /\ command \in Modes
    BY <1>3 DEF Phases, Modes
  <2>2. Selected(b, command) = [b EXCEPT !.phase = to, !.mode = command, !.stage = "challenge",
                                         !.invalid = FALSE, !.unknown = FALSE]
    BY <1>3 DEF Selected
  <2> HIDE DEF to
  <2> QED
    BY <2>1, <2>2 DEF BaseType
<1>4. CASE command \notin {"scan", "future", "plain", "secure", "memory"}
  BY <1>4 DEF Selected, BaseType
<1> QED
  BY <1>1, <1>2, <1>3, <1>4

LEMMA AuthenticatesType == ASSUME NEW b \in BaseType, NEW reply \in ReplyType
                           PROVE  Authenticates(b, reply) \in BaseType
<1>1. /\ [b EXCEPT !.stage = "proof"] \in BaseType
      /\ [b EXCEPT !.phase = "active"] \in BaseType
  BY DEF BaseType, Phases
<1> QED
  BY <1>1 DEF Authenticates

LEMMA ActiveType == ASSUME NEW b \in BaseType, NEW reply \in ReplyType, NEW held \in BOOLEAN
                    PROVE  Active(b, reply, held) \in BaseType
<1> DEFINE ack == IF held THEN b.ack ELSE reply.pressed
<1>1. /\ [b EXCEPT !.invalid = TRUE] \in BaseType
      /\ [b EXCEPT !.invalid = TRUE, !.stage = "challenge", !.phase = "authenticating"]
            \in BaseType
  BY DEF BaseType, Phases
<1>2. ack \in BOOLEAN
  BY DEF BaseType, ReplyType
<1>3. [b EXCEPT !.invalid = FALSE, !.ack = ack] \in BaseType
  BY <1>2 DEF BaseType
<1>4. Active(b, reply, held) \in
          {b, [b EXCEPT !.invalid = TRUE], [b EXCEPT !.invalid = FALSE, !.ack = ack],
           [b EXCEPT !.invalid = TRUE, !.stage = "challenge", !.phase = "authenticating"]}
  BY DEF Active
<1> QED
  BY <1>1, <1>3, <1>4

LEMMA AcceptedType == ASSUME NEW b \in BaseType, NEW reply \in ReplyType, NEW held \in BOOLEAN
                      PROVE  Accepted(b, reply, held) \in BaseType
<1>1. \A phase \in Phases : [b EXCEPT !.phase = phase] \in BaseType
  BY DEF BaseType
<1>2. CASE b.phase \in {"waiting", "synchronizing", "acknowledging"}
  <2>1. PICK phase \in Phases : Accepted(b, reply, held) = [b EXCEPT !.phase = phase]
    <3>1. b.phase \in Phases
      BY DEF BaseType
    <3> QED
      BY <1>2, <3>1 DEF Accepted, Phases
  <2> QED
    BY <1>1, <2>1
<1>3. CASE b.phase = "selecting"
  BY <1>3, SelectedType DEF Accepted, ReplyType
<1>4. CASE b.phase = "authenticating"
  BY <1>4, AuthenticatesType DEF Accepted
<1>5. CASE b.phase = "active"
  BY <1>5, ActiveType DEF Accepted
<1>6. CASE b.phase \notin {"waiting", "synchronizing", "acknowledging", "selecting",
                           "authenticating", "active"}
  BY <1>6 DEF Accepted
<1> QED
  BY <1>2, <1>3, <1>4, <1>5, <1>6

LEMMA ExchangedType == ASSUME NEW b \in BaseType, NEW reply \in ReplyType, NEW held \in BOOLEAN
                       PROVE  Exchanged(b, reply, held) \in BaseType
<1> DEFINE after == Accepted(b, reply, held)
           starts == IF b.phase = "selecting" /\ SelectMode(reply.command)
                     THEN after.mode = "memory" ELSE after.startup
<1>1. after \in BaseType
  BY AcceptedType
<1> HIDE DEF after
<1>2. Refreshed(b, after, reply) \in Deadlines /\ starts \in BOOLEAN
  BY <1>1, DeadlinesType DEF Refreshed, Window, BaseType
<1>3. Exchanged(b, reply, held) = [after EXCEPT !.deadline = Refreshed(b, after, reply),
                                                !.startup = starts]
  BY DEF Exchanged, after
<1> HIDE DEF starts
<1> QED
  BY <1>1, <1>2, <1>3 DEF BaseType

LEMMA ScannedType == ASSUME NEW b \in BaseType, NEW reply \in ReplyType, NEW held \in BOOLEAN
                     PROVE  Scanned(b, reply, held) \in BaseType
<1>1. [b EXCEPT !.ack = FALSE] \in BaseType /\ [b EXCEPT !.ack = reply.pressed] \in BaseType
  BY DEF BaseType, ReplyType
<1> QED
  BY <1>1 DEF Scanned

LEMMA AfterLineType == TypeOK => AfterLine \subseteq BaseType
<1> SUFFICES ASSUME TypeOK, NEW b \in AfterLine PROVE b \in BaseType
  OBVIOUS
<1>1. base \in BaseType /\ line \in {"idle", "protocol", "buttons"}
  BY DEF TypeOK
<1>2. CASE line = "idle"
  BY <1>1, <1>2 DEF AfterLine
<1>3. CASE line = "protocol"
  BY <1>1, <1>3, RepliesType, ExchangedType, FreshType DEF AfterLine
<1>4. CASE line = "buttons"
  BY <1>1, <1>4, RepliesType, ScannedType, FreshType DEF AfterLine
<1> QED
  BY <1>1, <1>2, <1>3, <1>4

LEMMA WheelRunsType == TypeOK /\ WheelRuns => TypeOK'
<1> SUFFICES ASSUME TypeOK, WheelRuns PROVE TypeOK'
  OBVIOUS
<1>1. UNCHANGED <<wheel, usbLost, queue, prompt, press>>
  BY DEF WheelRuns
<1>2. PICK b \in AfterLine, allowed \in BOOLEAN :
        \/ /\ Unrecognized(b)
           /\ base' = [b EXCEPT !.unknown = FALSE, !.deadline = Off]
           /\ line' = "idle"
           /\ bridged' = TRUE
           /\ force' = FALSE
           /\ pc' = "bridge"
           /\ UNCHANGED carried
        \/ /\ ~Unrecognized(b)
           /\ base' = IF Expired(b) THEN Fresh ELSE b
           /\ line' = Started(base', allowed)
           /\ carried' = (carried \/ (force /\ base' = Fresh /\ base # Fresh))
           /\ pc' = "force"
           /\ UNCHANGED <<bridged, force>>
  BY DEF WheelRuns
<1>3. b \in BaseType
  BY AfterLineType
<1>4. base' \in BaseType
  <2>1. [b EXCEPT !.unknown = FALSE, !.deadline = Off] \in BaseType
    BY <1>3, DeadlinesType DEF BaseType
  <2> QED
    BY <1>2, <1>3, <2>1, FreshType
<1>5. line' \in {"idle", "protocol", "buttons"} /\ pc' \in {"bridge", "force"}
  BY <1>2 DEF Started
<1>6. bridged' \in BOOLEAN /\ force' \in BOOLEAN /\ carried' \in BOOLEAN
  BY <1>2 DEF TypeOK
<1> QED
  BY <1>1, <1>4, <1>5, <1>6 DEF TypeOK

-----------------------------------------------------------------------------
(* The confirmation. *)

LEMMA WatchedType == ASSUME prompt \in PromptType, NEW covered \in BOOLEAN, TypeOK
                     PROVE  /\ Watched(covered) \in PromptType
                            /\ Watched(covered).phase = prompt.phase
                            /\ Watched(covered).response => prompt.response \/ prompt.seen
<1> DEFINE shown == prompt.visible /\ ~covered
           answered == prompt.response \/ (shown /\ prompt.seen /\ ~base.ack)
           sees == shown /\ base.ack
<1>1. answered \in BOOLEAN /\ sees \in BOOLEAN
  BY DEF TypeOK, PromptType
<1>2. Watched(covered) = [prompt EXCEPT !.seen = sees, !.response = answered]
  BY DEF Watched
<1>3. answered => prompt.response \/ prompt.seen
  OBVIOUS
<1> HIDE DEF answered, sees
<1> QED
  BY <1>1, <1>2, <1>3 DEF PromptType

\* What a watched prompt and the queue become: a prompt that is not confirmed keeps its answer,
\* and one that is has none left.
LEMMA ConfirmationType ==
    ASSUME NEW watched \in PromptType, NEW ready \in BOOLEAN, queue \in QueueType
    PROVE  LET after == Confirmation(watched, ready)
           IN  /\ after.prompt \in PromptType /\ after.queue \in QueueType
               /\ after.prompt.seen = watched.seen
               /\ after.prompt.response => watched.response /\ ~Confirms(watched, ready)
<1>1. CASE watched.phase = "required" /\ ready /\ queue = "none"
  <2> DEFINE p == [watched EXCEPT !.phase = "awaiting"]
  <2>1. Confirmation(watched, ready) = [prompt |-> p, queue |-> "show"]
    BY <1>1 DEF Confirmation, Confirms
  <2>2. p \in PromptType /\ p.seen = watched.seen /\ p.response = watched.response
    BY DEF PromptType, PromptPhase
  <2>3. ~Confirms(watched, ready)
    BY <1>1 DEF Confirms
  <2> HIDE DEF p
  <2> QED
    BY <2>1, <2>2, <2>3 DEF QueueType
<1>2. CASE watched.phase = "awaiting" /\ ~ready /\ queue = "none"
  <2> DEFINE p == [watched EXCEPT !.phase = "required"]
  <2>1. Confirmation(watched, ready) = [prompt |-> p, queue |-> "dismiss"]
    BY <1>2 DEF Confirmation, Confirms
  <2>2. p \in PromptType /\ p.seen = watched.seen /\ p.response = watched.response
    BY DEF PromptType, PromptPhase
  <2>3. ~Confirms(watched, ready)
    BY <1>2 DEF Confirms
  <2> HIDE DEF p
  <2> QED
    BY <2>1, <2>2, <2>3 DEF QueueType
<1>3. CASE Confirms(watched, ready)
  <2> DEFINE p == [watched EXCEPT !.phase = "required", !.response = FALSE, !.visible = FALSE]
  <2>1. watched.phase = "awaiting" /\ ready
    BY <1>3 DEF Confirms
  <2>2. Confirmation(watched, ready) = [prompt |-> p, queue |-> queue]
    BY <1>3, <2>1 DEF Confirmation
  <2>3. p \in PromptType /\ p.seen = watched.seen /\ ~p.response
    BY DEF PromptType, PromptPhase
  <2> HIDE DEF p
  <2> QED
    BY <2>2, <2>3 DEF QueueType
<1>4. CASE /\ ~(watched.phase = "required" /\ ready /\ queue = "none")
           /\ ~(watched.phase = "awaiting" /\ ~ready /\ queue = "none")
           /\ ~Confirms(watched, ready)
  <2>1. Confirmation(watched, ready) = [prompt |-> watched, queue |-> queue]
    BY <1>4 DEF Confirmation
  <2> QED
    BY <1>4, <2>1
<1> QED
  BY <1>1, <1>2, <1>3, <1>4

-----------------------------------------------------------------------------
(* The invariant. *)

\* A session that was reset with its force is over when the force is looked at, in the same pass.
CarriedIsReset == carried => pc = "force" /\ base.phase = "waiting"

\* What the prompt has seen, or taken as an answer, was a press that has enabled nothing yet.
AnswerIsPress == prompt.seen \/ prompt.response => press

IInv == TypeOK /\ CarriedIsReset /\ AnswerIsPress

LEMMA InitInv == Init => IInv
<1> SUFFICES ASSUME Init PROVE IInv
  OBVIOUS
<1>1. prompt \in PromptType /\ ~prompt.seen /\ ~prompt.response
  BY DEF Init, PromptType, PromptPhase
<1> QED
  BY <1>1, FreshType DEF Init, IInv, TypeOK, CarriedIsReset, AnswerIsPress, QueueType

\* Force asks of the prompt, and enabling it takes a press.
LEMMA ForceAsksInv == IInv /\ ForceAsks => IInv' /\ (~force /\ force' => press)
<1> SUFFICES ASSUME IInv, ForceAsks PROVE IInv' /\ (~force /\ force' => press)
  OBVIOUS
<1>1. PICK covered \in BOOLEAN :
          /\ prompt' = Confirmation(Watched(covered), Ready).prompt
          /\ queue' = Confirmation(Watched(covered), Ready).queue
          /\ force' = Confirms(Watched(covered), Ready)
          /\ press' = (Watched(covered).seen \/ (press /\ ~force'))
  BY DEF ForceAsks
<1> DEFINE watched == Watched(covered)
<1>2. /\ watched \in PromptType
      /\ watched.response => prompt.response \/ prompt.seen
  BY WatchedType DEF IInv, TypeOK
<1>3. Ready \in BOOLEAN /\ queue \in QueueType
  BY DEF Ready, IInv, TypeOK
<1> HIDE DEF watched
<1>4. /\ prompt' \in PromptType /\ queue' \in QueueType /\ prompt'.seen = watched.seen
      /\ prompt'.response => watched.response /\ ~force'
  BY <1>1, <1>2, <1>3, ConfirmationType DEF watched
<1>5. force' \in BOOLEAN /\ (force' => watched.response)
  BY <1>1, <1>2 DEF Confirms, watched, PromptType
<1>6. watched.response => press
  BY <1>2 DEF IInv, AnswerIsPress
<1>7. press' \in BOOLEAN
  BY <1>1, <1>2 DEF IInv, TypeOK, PromptType, watched
<1>8. /\ carried' = FALSE /\ pc' = "events"
      /\ UNCHANGED <<wheel, base, line, usbLost, bridged>>
  BY DEF ForceAsks
<1>9. TypeOK'
  BY <1>4, <1>5, <1>7, <1>8 DEF IInv, TypeOK
<1>10. AnswerIsPress'
  BY <1>1, <1>4, <1>6 DEF AnswerIsPress, watched
<1> QED
  BY <1>5, <1>6, <1>8, <1>9, <1>10 DEF IInv, CarriedIsReset

LEMMA WheelRunsInv == IInv /\ WheelRuns => IInv' /\ (force' => force)
<1> SUFFICES ASSUME IInv, WheelRuns PROVE IInv' /\ (force' => force)
  OBVIOUS
<1>1. TypeOK'
  BY WheelRunsType DEF IInv
<1>2. AnswerIsPress'
  BY DEF IInv, AnswerIsPress, WheelRuns
<1>3. carried = FALSE
  BY DEF IInv, TypeOK, CarriedIsReset, WheelRuns
<1>4. (carried' => pc' = "force" /\ base' = Fresh) /\ (force' => force)
  <2>1. PICK b \in AfterLine :
          \/ force' = FALSE /\ UNCHANGED carried
          \/ /\ carried' = (carried \/ (force /\ base' = Fresh /\ base # Fresh))
             /\ pc' = "force" /\ UNCHANGED force
    BY DEF WheelRuns
  <2>2. CASE force' = FALSE /\ carried' = carried
    BY <1>3, <2>2
  <2>3. CASE /\ carried' = (carried \/ (force /\ base' = Fresh /\ base # Fresh))
             /\ pc' = "force" /\ force' = force
    BY <1>3, <2>3
  <2> QED
    BY <2>1, <2>2, <2>3
<1> QED
  BY <1>1, <1>2, <1>4 DEF IInv, CarriedIsReset, Fresh

\* A step that leaves the base's session, the confirmation and the force alone.
Aside == WheelWaits \/ StartupGoesOn \/ OtherEvent \/ MoveWheel

LEMMA AsideInv == IInv /\ Aside => IInv' /\ force' = force
<1> SUFFICES ASSUME IInv, Aside PROVE IInv' /\ force' = force
  OBVIOUS
<1>1. UNCHANGED <<base, line, usbLost, prompt, force, press, bridged, carried>>
  BY DEF Aside, WheelWaits, StartupGoesOn, OtherEvent, MoveWheel, Outside, display
<1>2. wheel' \in Kinds \cup {"none"} /\ queue' \in QueueType
  BY DEF Aside, WheelWaits, StartupGoesOn, OtherEvent, MoveWheel, Outside, display, IInv, TypeOK,
         QueueType
<1>3. pc' \in {"events", "startup", "wheel", "force", "bridge"} /\ (carried => pc' = "force")
  BY DEF Aside, WheelWaits, StartupGoesOn, OtherEvent, MoveWheel, Outside, display, IInv, TypeOK,
         CarriedIsReset
<1> QED
  BY <1>1, <1>2, <1>3 DEF IInv, TypeOK, CarriedIsReset, AnswerIsPress

LEMMA EventsInv == IInv /\ Events => IInv' /\ force' = force
<1> SUFFICES ASSUME IInv, Events PROVE IInv' /\ force' = force
  OBVIOUS
<1>1. PICK due \in BOOLEAN :
        /\ queue' = IF due THEN "none" ELSE queue
        /\ prompt' = [prompt EXCEPT !.visible =
                        CASE due /\ queue = "show" -> TRUE
                          [] due /\ queue = "dismiss" -> FALSE
                          [] OTHER -> prompt.visible]
  BY DEF Events
<1> DEFINE shows == CASE due /\ queue = "show" -> TRUE
                      [] due /\ queue = "dismiss" -> FALSE
                      [] OTHER -> prompt.visible
<1>2. shows \in BOOLEAN
  BY DEF IInv, TypeOK, PromptType
<1>3. prompt' = [prompt EXCEPT !.visible = shows]
  BY <1>1
<1> HIDE DEF shows
<1>4. prompt' \in PromptType /\ prompt'.seen = prompt.seen /\ prompt'.response = prompt.response
  BY <1>2, <1>3 DEF IInv, TypeOK, PromptType
<1>5. queue' \in QueueType /\ usbLost' \in BOOLEAN /\ pc' = "startup" /\ ~carried
      /\ UNCHANGED <<wheel, base, line, force, bridged, press, carried>>
  BY <1>1 DEF Events, IInv, TypeOK, QueueType, CarriedIsReset
<1> QED
  BY <1>4, <1>5 DEF IInv, TypeOK, CarriedIsReset, AnswerIsPress

LEMMA FinishStartupInv == IInv /\ FinishStartup => IInv' /\ force' = force
<1> SUFFICES ASSUME IInv, FinishStartup PROVE IInv' /\ force' = force
  OBVIOUS
<1>1. base' \in BaseType
  BY DeadlinesType DEF FinishStartup, IInv, TypeOK, BaseType
<1>2. ~carried /\ pc' = "wheel"
      /\ UNCHANGED <<wheel, line, usbLost, queue, prompt, force, press, bridged, carried>>
  BY DEF FinishStartup, display, IInv, CarriedIsReset
<1> QED
  BY <1>1, <1>2 DEF IInv, TypeOK, CarriedIsReset, AnswerIsPress

\* The end of a session is not ready for force, so force that was carried over does not stay.
LEMMA ForceStaysInv == IInv /\ ForceStays => IInv' /\ force' = force
<1> SUFFICES ASSUME IInv, ForceStays PROVE IInv' /\ force' = force
  OBVIOUS
<1>1. ~carried
  BY DEF IInv, CarriedIsReset, ForceStays, Ready, ForceReady
<1>2. pc' = "events"
      /\ UNCHANGED <<wheel, base, line, usbLost, queue, prompt, force, press, bridged, carried>>
  BY DEF ForceStays, display
<1> QED
  BY <1>1, <1>2 DEF IInv, TypeOK, CarriedIsReset, AnswerIsPress

LEMMA TickInv == IInv /\ Tick => IInv' /\ force' = force
<1> SUFFICES ASSUME IInv, Tick PROVE IInv' /\ force' = force
  OBVIOUS
<1>1. base.deadline - 1 \in Deadlines
  BY TicksAssumption DEF IInv, TypeOK, BaseType, Deadlines, Tick, Off
<1>2. base' \in BaseType /\ base'.phase = base.phase
  BY <1>1 DEF IInv, TypeOK, BaseType, Tick
<1>3. UNCHANGED <<wheel, line, usbLost, queue, prompt, force, press, bridged, pc, carried>>
  BY DEF Tick, Outside
<1> QED
  BY <1>2, <1>3 DEF IInv, TypeOK, CarriedIsReset, AnswerIsPress

LEMMA WithdrawInv == IInv /\ Withdraw => IInv' /\ ~force'
<1> SUFFICES ASSUME IInv, Withdraw PROVE IInv' /\ ~force'
  OBVIOUS
<1>1. /\ force' = FALSE /\ carried' = FALSE
      /\ UNCHANGED <<wheel, base, line, usbLost, queue, prompt, bridged, pc, press>>
  BY DEF Withdraw, Outside
<1> QED
  BY <1>1 DEF IInv, TypeOK, CarriedIsReset, AnswerIsPress

LEMMA RestartInv == IInv /\ Restart => IInv' /\ ~force'
<1> SUFFICES ASSUME IInv, Restart PROVE IInv' /\ ~force'
  OBVIOUS
<1>1. prompt' \in PromptType /\ ~prompt'.seen /\ ~prompt'.response
  BY DEF Restart, Boot, PromptType, PromptPhase
<1> QED
  BY <1>1, FreshType DEF Restart, Boot, IInv, TypeOK, CarriedIsReset, AnswerIsPress, QueueType

LEMMA InvStep == IInv /\ [Next]_vars => IInv' /\ [~force /\ force' => press]_vars
<1> SUFFICES ASSUME IInv, [Next]_vars PROVE IInv' /\ [~force /\ force' => press]_vars
  OBVIOUS
<1>1. CASE ForceAsks
  BY <1>1, ForceAsksInv
<1>2. CASE WheelRuns
  BY <1>2, WheelRunsInv
<1>3. CASE Events \/ FinishStartup \/ ForceStays \/ Tick \/ Withdraw \/ Restart
  BY <1>3, EventsInv, FinishStartupInv, ForceStaysInv, TickInv, WithdrawInv, RestartInv
<1>4. CASE StartupGoesOn \/ WheelWaits \/ OtherEvent \/ MoveWheel
  BY <1>4, AsideInv DEF Aside
<1>5. CASE UNCHANGED vars
  BY <1>5 DEF vars, IInv, TypeOK, CarriedIsReset, AnswerIsPress
<1> QED
  BY <1>1, <1>2, <1>3, <1>4, <1>5 DEF Next

LEMMA Invariance == Spec => []IInv
<1>1. IInv /\ [Next]_vars => IInv'
  BY InvStep
<1> QED
  BY <1>1, InitInv, PTL DEF Spec

-----------------------------------------------------------------------------
(* The theorems. *)

\* Every reachable state of the session and the confirmation is well typed, whatever wheels come,
\* go and say.
THEOREM TypeCorrect == Spec => []TypeOK
<1>1. IInv => TypeOK
  BY DEF IInv
<1> QED
  BY <1>1, Invariance, PTL

\* When a pass ends, enabled force belongs to the session that runs.
THEOREM ForceCorrect == Spec => []ForceIsOfThisSession
<1>1. IInv => ForceIsOfThisSession
  BY DEF IInv, CarriedIsReset, ForceIsOfThisSession
<1> QED
  BY <1>1, Invariance, PTL

\* Force is enabled only for a press on a prompt that has enabled nothing before.
THEOREM PressCorrect == Spec => OnePressOneEnable
<1>1. IInv /\ [Next]_vars => [~force /\ force' => press]_vars
  BY InvStep
<1> QED
  BY <1>1, Invariance, PTL DEF Spec, OnePressOneEnable
=============================================================================
