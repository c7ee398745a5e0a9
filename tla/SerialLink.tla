----------------------------- MODULE SerialLink -----------------------------
(***************************************************************************)
(* The call protocol between the base (serial/service.c on serial/session.c *)
(* and platform serial_link.c) and the wheel-quick-release board            *)
(* (protocol.c, firmware.c) over one half-duplex line that can lose and      *)
(* damage frames.  A message travels in parts of one frame each; a call is   *)
(* one message to the board and one message back.                           *)
(*                                                                         *)
(* Time: a frame takes 0.14 ms and the board answers within 0.2 ms unless   *)
(* it waits for its I2C peripheral, so the 10 ms timeout of the base only   *)
(* expires when nothing is under way or the peripheral is slow.             *)
(***************************************************************************)
EXTENDS Naturals, Sequences

CONSTANTS
    SeqMod,       \* size of the sequence space: 256
    MaxAttempts,  \* SERIAL_SERVICE_MAX_ATTEMPTS: 5
    MaxParts,     \* parts an assembly buffer has room for
    MaxCalls,     \* bound on the number of calls
    MaxFaults,    \* bound on the number of faults
    Environments  \* what may happen around the protocol: see below

\* An environment: the requests its clients make, the classes of frames its line may lose and
\* damage, and which upsets (slow, restart, detach, cancel) can befall it.

\* A request: its name stands for its bytes; its type (I2C commands are deferred to the
\* peripheral, status is answered at once); are its retries bounded, is the peripheral read;
\* and the parts of the message and of its answer.
Requests == UNION {e.requests : e \in Environments}

\* The classes of frames a line may tell apart (see Class).
Frames == {"request", "baseAck", "baseNak", "answer", "laterAnswer", "wqrAck", "wqrNak"}

ASSUME SerialAssumption ==
    /\ SeqMod \in Nat /\ SeqMod > 1
    /\ MaxAttempts \in Nat \ {0} /\ MaxParts \in Nat \ {0}
    /\ MaxCalls \in Nat /\ MaxFaults \in Nat
    /\ \A r \in Requests : /\ r.type \in {"i2c", "status"} /\ r.bounded \in BOOLEAN
                           /\ r.read \in BOOLEAN
                           /\ r.parts \in 1 .. MaxParts /\ r.answers \in 1 .. MaxParts
    /\ \A e \in Environments : e.losable \cup e.damageable \subseteq Frames

VARIABLES
    requests,   \* the request of each call made so far
    service,    \* SerialService of the base
    session,    \* its SerialSession
    hold,       \* periodic_recovery_pending of the base's link driver
    toWqr,      \* the frame on its way to the board
    toBase,     \* the frame on its way to the base, or received and not yet taken
    wqr,        \* wqr_protocol of the board
    due,        \* uart_response_due: the board owes a frame and does not listen
    driver,     \* the I2C driver of the board: i2c_state and the call it works for
    performed,  \* what the board did with each call, for the properties
    settled,    \* the last call that succeeded, for the properties
    env,        \* the environment of this behaviour
    faults      \* faults so far

calls == <<requests, settled>>
base == <<service, session, hold>>
board == <<wqr, due, driver, performed>>
line == <<toWqr, toBase>>
happened == <<env, faults>>
vars == <<calls, base, board, line, happened>>

----------------------------------------------------------------------------
(* Frames *)

Call == Len(requests)
Request == requests[Call]

\* One frame's share of a message: which call's message, which part of how many.
Piece == [call : 0 .. MaxCalls, part : 0 .. MaxParts, of : 0 .. MaxParts]
NoPiece == [call |-> 0, part |-> 0, of |-> 0]
Pieces(c, n) == [p \in 1 .. n |-> [call |-> c, part |-> p, of |-> n]]

\* Broken variant: a sequence counter that does not wrap.
IncUnwrapped(s) == s + 1
Inc(s) == (s + 1) % SeqMod

Control(kind, seq) == [kind |-> kind, type |-> "control", seq |-> seq, piece |-> NoPiece]
NoFrame == Control("none", 0)
Damaged == Control("damaged", 0)

\* frame_matches compares bytes: the same request of another call looks the same.
SameFrame(f, g) ==
    /\ f.kind = g.kind /\ f.seq = g.seq
    /\ f.piece.part = g.piece.part /\ f.piece.of = g.piece.of
    /\ f.kind = "request" => requests[f.piece.call].name = requests[g.piece.call].name

\* What the line can tell apart: the first and the later parts of an answer.
Class(f) == IF f.kind = "answer" /\ f.piece.part > 1 THEN "laterAnswer" ELSE f.kind

\* One more fault, within the bound.
Happens == faults < MaxFaults /\ faults' = faults + 1 /\ UNCHANGED env

----------------------------------------------------------------------------
(* The base *)

IdleService == [status |-> "idle", packet |-> NoFrame, waiting |-> FALSE, recovering |-> FALSE,
                attempts |-> 0, response |-> << >>]

InitSession == [seq |-> 0, offset |-> 0, next |-> "none", assembled |-> << >>, type |-> "none"]

\* Broken variant: the end of a message also resets the sequence.
FinishedAtZero(s) == [InitSession EXCEPT !.next = s.next]

\* serial_session_finish_transmit and serial_session_consume_message.
Finished(s) == [s EXCEPT !.offset = 0, !.assembled = << >>, !.type = "none",
                         !.next = IF @ = "data" THEN "none" ELSE @]

RequestFrame(c, r, seq, offset) ==
    [kind |-> "request", type |-> r.type, seq |-> seq,
     piece |-> [call |-> c, part |-> offset + 1, of |-> r.parts]]

\* serial_session_next_packet: a fragment past the end of the message is not encoded.
Encodes(s) == \/ s.next \in {"ack", "nak"}
              \/ s.next = "data" /\ s.offset < Request.parts

NextPacket(s) == CASE s.next = "data" -> RequestFrame(Call, Request, s.seq, s.offset)
                   [] s.next = "ack" -> Control("baseAck", s.seq)
                   [] s.next = "nak" -> Control("baseNak", s.seq)

\* start_next_packet: succeeds without a packet in flight when there is nothing to encode.
StartNextPacket(s, v) ==
    IF Encodes(s)
    THEN /\ session' = [s EXCEPT !.next = "none"]
         /\ service' = [v EXCEPT !.packet = NextPacket(s), !.waiting = TRUE]
         /\ toWqr' = NextPacket(s)
    ELSE /\ session' = s
         /\ service' = [v EXCEPT !.waiting = FALSE]
         /\ UNCHANGED toWqr

\* start_request: the link driver refuses a frame during its recovery hold.
Start(r) ==
    /\ service.status = "idle" /\ Call < MaxCalls /\ toWqr = NoFrame /\ toBase = NoFrame
    /\ requests' = Append(requests, r)
    /\ LET frame == RequestFrame(Call + 1, r, session.seq, 0)
       IN  IF hold
           THEN /\ service' = [IdleService EXCEPT !.status = "failed", !.packet = frame]
                /\ UNCHANGED toWqr
           ELSE /\ service' = [IdleService EXCEPT !.status = "pending", !.packet = frame,
                                                  !.waiting = TRUE]
                /\ toWqr' = frame
    /\ session' = [session EXCEPT !.offset = 0, !.next = "none"]
    /\ UNCHANGED <<hold, toBase, board, settled, happened>>

Takes(kind) == /\ service.status = "pending" /\ service.waiting /\ toBase.kind = kind
               /\ toBase' = NoFrame
               /\ UNCHANGED <<requests, board, happened>>

\* Broken variant: the reply to a board that is ahead is left out.
AheadIgnored(seq) == FALSE

\* Is the board's sequence ahead of the base's?  The last number compares the other way round.
Ahead(seq) == IF session.seq = SeqMod - 1 THEN seq < SeqMod - 1 ELSE seq > session.seq

TakeNak ==
    /\ Takes("wqrNak")
    /\ StartNextPacket([session EXCEPT !.next = IF Ahead(toBase.seq) THEN "nak" ELSE "data"],
                       service)
    /\ UNCHANGED <<hold, settled>>

TakeAck ==
    /\ Takes("wqrAck")
    /\ LET offset == IF session.offset < Request.parts THEN session.offset + 1 ELSE session.offset
       IN  StartNextPacket(
             [session EXCEPT !.seq = Inc(@), !.offset = offset,
                             !.next = IF offset < Request.parts THEN "data" ELSE "nak"],
             service)
    /\ UNCHANGED <<hold, settled>>

\* Broken variant: every request gives up after MaxAttempts.
SpentAlways(attempts) == attempts >= MaxAttempts
Spent(attempts) == Request.bounded /\ attempts >= MaxAttempts

CountAttempt(v) == [v EXCEPT !.attempts = IF @ < MaxAttempts THEN @ + 1 ELSE @]

Resumes(v) == ~Spent(v.attempts)

\* A malformed packet: a framing failure holds the line and defers the resynchronization.
Reject(s, framing) ==
    LET v == [CountAttempt(service) EXCEPT !.waiting = FALSE]
        resync == [s EXCEPT !.next = "nak"]
    IN  CASE framing -> /\ hold' = TRUE
                        /\ session' = [s EXCEPT !.next = "none"]
                        /\ service' = [v EXCEPT !.packet = NextPacket(resync),
                                                !.recovering = Resumes(v),
                                                !.status = IF Spent(v.attempts) THEN "failed" ELSE @]
                        /\ UNCHANGED toWqr
          [] ~framing /\ Spent(v.attempts) -> /\ session' = resync
                                              /\ service' = [v EXCEPT !.status = "failed"]
                                              /\ UNCHANGED <<hold, toWqr>>
          [] OTHER -> StartNextPacket(resync, v) /\ UNCHANGED hold

TakeDamaged == /\ Takes("damaged")
               /\ \E framing \in BOOLEAN : Reject(session, framing)
               /\ UNCHANGED settled

\* A complete message: the call succeeds if its type is the one the request asked for.
Complete(s, type) ==
    /\ session' = Finished(s)
    /\ service' = [service EXCEPT !.waiting = FALSE,
                     !.response = IF type = Request.type THEN s.assembled ELSE @,
                     !.status = IF type = Request.type THEN "succeeded" ELSE "failed"]
    /\ UNCHANGED <<hold, toWqr>>

TakeAnswer ==
    /\ Takes("answer")
    /\ LET s == [session EXCEPT !.seq = Inc(@)]
           got == session.assembled
           mismatch == got # << >> /\ session.type # toBase.type
           joined == [s EXCEPT !.assembled = Append(got, toBase.piece), !.type = toBase.type]
       IN  CASE mismatch -> Reject(s, FALSE)
             [] ~mismatch /\ Len(got) = MaxParts ->
                  Reject([s EXCEPT !.assembled = << >>, !.type = "none"], FALSE)
             [] ~mismatch /\ Len(got) < MaxParts /\ toBase.piece.part < toBase.piece.of ->
                  StartNextPacket([joined EXCEPT !.next = "ack"], service) /\ UNCHANGED hold
             [] OTHER -> Complete(joined, toBase.type)
    /\ settled' = IF service'.status = "succeeded" THEN Call ELSE settled

\* The resynchronization packet leaves once the recovery hold is over.
RunRecovering == /\ service.status = "pending" /\ service.recovering /\ ~hold
                 /\ toWqr' = service.packet
                 /\ service' = [service EXCEPT !.recovering = FALSE, !.waiting = TRUE]
                 /\ UNCHANGED <<calls, session, hold, toBase, board, happened>>

HoldEnds == /\ hold /\ hold' = FALSE
            /\ UNCHANGED <<calls, service, session, line, board, happened>>

\* The board owes an answer that waits for its peripheral.
PeripheralSlow == due /\ wqr.active /\ driver.state = "busy" /\ wqr.control = NoFrame

\* Ten milliseconds without an answer: the same packet again, or the end of a bounded request.
Timeout ==
    /\ service.status = "pending" /\ service.waiting /\ toWqr = NoFrame /\ toBase = NoFrame
    /\ \/ ~due /\ UNCHANGED happened
       \/ PeripheralSlow /\ "slow" \in env.upsets /\ Happens
    /\ LET v == CountAttempt(service)
       IN  IF Spent(v.attempts)
           THEN /\ service' = [v EXCEPT !.waiting = FALSE, !.status = "failed"]
                /\ UNCHANGED toWqr
           ELSE service' = v /\ toWqr' = service.packet
    /\ hold' = FALSE
    /\ UNCHANGED <<calls, session, toBase, board>>

\* serial_service_release by the client, once it has read the response.
Release == /\ service.status \in {"succeeded", "failed"}
           /\ service' = IdleService
           /\ session' = Finished(session)
           /\ UNCHANGED <<calls, hold, line, board, happened>>

\* serial_service_cancel: the link driver is reset, perhaps in the middle of a frame.
Cancel == /\ service.status = "pending" /\ "cancel" \in env.upsets /\ Happens
          /\ service' = IdleService
          /\ session' = Finished(session)
          /\ hold' = FALSE
          /\ toWqr' \in {toWqr, IF toWqr = NoFrame THEN NoFrame ELSE Damaged}
          /\ UNCHANGED <<calls, toBase, board>>

----------------------------------------------------------------------------
(* The board *)

InitWqr == [seq |-> 0, sent |-> FALSE, control |-> NoFrame, open |-> FALSE, received |-> << >>,
            type |-> "none", fragment |-> NoFrame, request |-> NoFrame, work |-> FALSE,
            active |-> FALSE, ready |-> FALSE, offset |-> 0, answer |-> << >>,
            answerType |-> "none"]

Nak(w) == [w EXCEPT !.control = Control("wqrNak", w.seq)]
Ack(w) == [w EXCEPT !.control = Control("wqrAck", w.seq)]

RepeatedFragment(w, f) == w.open /\ w.fragment # NoFrame /\ SameFrame(f, w.fragment)

\* Broken variant: a request is not recognized while its answer is ready.
RepeatedRequestNever(w, f) == FALSE
RepeatedRequest(w, f) == /\ ~w.open /\ w.request # NoFrame /\ (w.work \/ w.active \/ w.ready)
                         /\ SameFrame(f, w.request)

\* wqr_protocol_response_expected
Expected(w) == w.control # NoFrame \/ w.work \/ w.active \/ w.ready

\* Is the base's sequence earlier than the board's?  Zero compares the other way round, except
\* before the first frame was sent.
Earlier(w, seq) == IF w.seq # 0 \/ ~w.sent THEN seq < w.seq ELSE seq > w.seq

\* A resynchronization of a base that is behind repeats the frame it missed.
HearNak(w, f) == IF Earlier(w, f.seq) /\ Expected(w) THEN w ELSE Nak(w)

\* An acknowledgement moves to the next part of the answer, whatever its sequence.
HearAck(w) == CASE ~w.ready -> Nak(w)
                [] w.ready /\ w.offset + 1 < Len(w.answer) ->
                     [w EXCEPT !.offset = @ + 1, !.seq = Inc(@)]
                [] OTHER -> [w EXCEPT !.ready = FALSE, !.offset = 0, !.request = NoFrame,
                                      !.seq = Inc(@)]

\* Fragments must continue the open message in sequence; the last one makes a request of it.
HearRequest(w, f) ==
    LET later == f.piece.part > 1
        broken == later /\ (\/ ~w.open \/ w.type # f.type \/ f.seq # w.seq
                            \/ Len(w.received) = MaxParts)
        taken == [w EXCEPT !.received = IF later THEN Append(@, f.piece) ELSE <<f.piece>>,
                           !.type = f.type, !.seq = Inc(f.seq)]
    IN  CASE broken -> Nak([w EXCEPT !.received = << >>, !.open = FALSE])
          [] ~broken /\ f.piece.part < f.piece.of -> Ack([taken EXCEPT !.open = TRUE, !.fragment = f])
          [] OTHER -> [taken EXCEPT !.open = FALSE, !.fragment = NoFrame, !.offset = 0,
                                    !.ready = FALSE, !.work = TRUE, !.request = f]

Hear(w, f) == CASE f.kind = "damaged" -> Nak(w)
                [] f.kind = "baseNak" -> HearNak(w, f)
                [] f.kind = "baseAck" -> HearAck(w)
                [] f.kind = "request" /\ RepeatedFragment(w, f) -> Ack(w)
                [] f.kind = "request" /\ ~RepeatedFragment(w, f) /\ RepeatedRequest(w, f) -> w
                [] OTHER -> HearRequest(w, f)

\* process_uart_frame
WqrReceive == /\ toWqr # NoFrame /\ ~due
              /\ wqr' = Hear(wqr, toWqr)
              /\ toWqr' = NoFrame /\ due' = TRUE
              /\ UNCHANGED <<calls, base, toBase, driver, performed, happened>>

\* A frame that arrives while the board does not listen.
WqrDeaf == /\ toWqr # NoFrame /\ due
           /\ toWqr' = NoFrame
           /\ UNCHANGED <<calls, base, toBase, board, happened>>

\* The call whose whole message was received, 0 when the parts do not make one.
Understood(parts) == LET c == parts[1].call
                     IN  IF c # 0 /\ parts = Pieces(c, requests[c].parts) THEN c ELSE 0

Performed(c) == performed' = [performed EXCEPT ![c] = IF @ = "now" THEN "again" ELSE "now"]

\* queue_payload
Answered(w, answer) == [w EXCEPT !.work = FALSE, !.active = FALSE, !.ready = TRUE, !.offset = 0,
                                 !.received = << >>, !.answer = answer, !.answerType = w.type]

PollStatus == /\ wqr.work /\ wqr.type = "status"
              /\ LET c == Understood(wqr.received)
                 IN  /\ Performed(c)
                     /\ wqr' = Answered(wqr, Pieces(c, IF c = 0 THEN 1 ELSE requests[c].answers))
              /\ UNCHANGED <<calls, base, line, due, driver, happened>>

IdleDriver == [state |-> "idle", call |-> 0, clean |-> TRUE]

\* Writing the answer's header over a read that is under way destroys its first byte.
HeaderWritten(d) == [d EXCEPT !.clean = @ /\ (wqr.active \/ d.call = 0 \/ ~requests[d.call].read)]

PollI2c ==
    /\ wqr.work /\ wqr.type = "i2c"
    /\ CASE driver.state = "idle" ->
              LET c == Understood(wqr.received)
              IN  /\ driver' = [state |-> "busy", call |-> c, clean |-> TRUE]
                  /\ wqr' = [wqr EXCEPT !.active = TRUE]
                  /\ Performed(c)
         [] driver.state = "busy" ->
              /\ ~wqr.active
              /\ driver' = HeaderWritten(driver)
              /\ wqr' = [wqr EXCEPT !.active = TRUE]
              /\ UNCHANGED performed
         [] driver.state \in {"done", "failed"} ->
              LET d == HeaderWritten(driver)
                  parts == IF d.state = "failed" \/ d.call = 0 THEN 1 ELSE requests[d.call].answers
              IN  /\ wqr' = Answered(wqr, Pieces(IF d.clean THEN d.call ELSE 0, parts))
                  /\ driver' = IdleDriver
                  /\ UNCHANGED performed
    /\ UNCHANGED <<calls, base, line, due, happened>>

\* The transfer ends, or its own 10 ms timeout ends it.
DriverEnds == /\ driver.state = "busy"
              /\ \E end \in {"done", "failed"} : driver' = [driver EXCEPT !.state = end]
              /\ UNCHANGED <<calls, base, line, wqr, due, performed, happened>>

\* wqr_protocol_response: a control frame goes before the answer.
WqrFrame(w) == IF w.control # NoFrame THEN w.control
               ELSE [kind |-> "answer", type |-> w.answerType, seq |-> w.seq,
                     piece |-> w.answer[w.offset + 1]]

\* start_uart_response to response_sent.  If the base is sending at the same time, the board does
\* not hear it and the base hears at most the end of the frame.
WqrRespond == /\ due /\ (wqr.control # NoFrame \/ wqr.ready)
              /\ IF toWqr = NoFrame THEN toBase' = WqrFrame(wqr) ELSE toBase' \in {NoFrame, Damaged}
              /\ toWqr' = NoFrame
              /\ wqr' = [wqr EXCEPT !.control = NoFrame, !.sent = TRUE]
              /\ due' = FALSE
              /\ UNCHANGED <<calls, base, driver, performed, happened>>

\* Nothing to answer: listen again.
WqrSilent == /\ due /\ ~Expected(wqr)
             /\ due' = FALSE
             /\ UNCHANGED <<calls, base, line, wqr, driver, performed, happened>>

\* The board no longer knows what it performed.
Forgotten == performed' = [c \in DOMAIN performed |->
                             IF performed[c] = "now" THEN "before" ELSE performed[c]]

Restart == /\ "restart" \in env.upsets /\ Happens
           /\ wqr' = InitWqr /\ due' = FALSE /\ driver' = IdleDriver
           /\ Forgotten
           /\ UNCHANGED <<calls, base, line>>

\* reset_transfer when the wheel is taken off: the request is dropped and the last one forgotten,
\* the I2C driver goes on.
Detach == /\ "detach" \in env.upsets /\ Happens
          /\ wqr' = [wqr EXCEPT !.received = << >>, !.open = FALSE, !.work = FALSE,
                                !.active = FALSE, !.fragment = NoFrame, !.request = NoFrame]
          /\ Forgotten
          /\ UNCHANGED <<calls, base, line, due, driver>>

----------------------------------------------------------------------------
(* The line *)

\* A frame for a base that does not wait for one.
BaseDeaf == /\ toBase # NoFrame /\ ~(service.status = "pending" /\ service.waiting)
            /\ toBase' = NoFrame
            /\ UNCHANGED <<calls, base, toWqr, board, happened>>

Lose == /\ Happens
        /\ \/ Class(toWqr) \in env.losable /\ toWqr' = NoFrame /\ UNCHANGED toBase
           \/ Class(toBase) \in env.losable /\ toBase' = NoFrame /\ UNCHANGED toWqr
        /\ UNCHANGED <<calls, base, board>>

Damage == /\ Happens
          /\ \/ Class(toWqr) \in env.damageable /\ toWqr' = Damaged /\ UNCHANGED toBase
             \/ Class(toBase) \in env.damageable /\ toBase' = Damaged /\ UNCHANGED toWqr
          /\ UNCHANGED <<calls, base, board>>

Init == /\ requests = << >> /\ service = IdleService /\ session = InitSession /\ hold = FALSE
        /\ toWqr = NoFrame /\ toBase = NoFrame
        /\ wqr = InitWqr /\ due = FALSE /\ driver = IdleDriver
        /\ performed = [c \in 0 .. MaxCalls |-> "never"] /\ settled = 0 /\ faults = 0
        /\ env \in Environments

BaseStep == \/ TakeNak \/ TakeAck \/ TakeAnswer \/ TakeDamaged
            \/ RunRecovering \/ HoldEnds \/ Timeout \/ BaseDeaf

BoardStep == \/ WqrReceive \/ WqrDeaf \/ PollStatus \/ PollI2c \/ DriverEnds
             \/ WqrRespond \/ WqrSilent

Next == \/ \E r \in env.requests : Start(r)
        \/ BaseStep \/ BoardStep \/ Release \/ Cancel
        \/ Restart \/ Detach \/ Lose \/ Damage

Spec == Init /\ [][Next]_vars

\* Both main loops run forever and both timers tick; clients and faults owe nothing.
FairSpec == Spec /\ WF_vars(BaseStep) /\ WF_vars(BoardStep)

----------------------------------------------------------------------------
(* Properties *)

FrameType == [kind : {"none", "damaged", "request", "answer", "baseAck", "baseNak", "wqrAck",
                      "wqrNak"},
              type : {"control", "i2c", "status"}, seq : 0 .. SeqMod - 1, piece : Piece]

\* Every variable keeps its type; offsets and assemblies stay within the messages they index.
TypeOK ==
    /\ env \in Environments /\ requests \in Seq(Requests) /\ Call <= MaxCalls
    /\ toWqr \in FrameType /\ toBase \in FrameType /\ hold \in BOOLEAN /\ due \in BOOLEAN
    /\ service.status \in {"idle", "pending", "succeeded", "failed"}
    /\ service.packet \in FrameType /\ service.attempts \in 0 .. MaxAttempts
    /\ service.waiting \in BOOLEAN /\ service.recovering \in BOOLEAN
    /\ session.seq \in 0 .. SeqMod - 1 /\ session.next \in {"none", "data", "ack", "nak"}
    /\ session.offset \in 0 .. MaxParts /\ Len(session.assembled) <= MaxParts
    /\ wqr.seq \in 0 .. SeqMod - 1 /\ wqr.control \in FrameType
    /\ Len(wqr.received) <= MaxParts /\ Len(wqr.answer) <= MaxParts
    /\ wqr.ready => wqr.offset < Len(wqr.answer)
    /\ driver.state \in {"idle", "busy", "done", "failed"} /\ driver.call \in 0 .. MaxCalls
    /\ \A c \in 0 .. MaxCalls : performed[c] \in {"never", "now", "before", "again"}
    /\ faults \in 0 .. MaxFaults

\* After a successful call both ends agree on the next sequence number, unless the board has
\* restarted since; the ordering of resynchronizations depends on it.
SequenceInStep == service.status = "succeeded" /\ wqr.sent => wqr.seq = session.seq

\* Retries of a call without a bound go on: after a call that succeeded it never fails.  (After one
\* that failed it may be given the late answer to that one and fail for its type.)
UnboundedNeverFails ==
    [][service.status = "pending" /\ service'.status = "failed"
         => Request.bounded \/ settled < Call - 1]_vars

\* Every call comes to an end once the line and the board behave.
CallsEnd == service.status = "pending" ~> service.status # "pending"

\* The call whose whole answer the client holds: 0 when it holds none, and one past every call
\* when the parts are not those of one answer.
Delivered ==
    LET parts == service.response
    IN  IF parts = << >> THEN 0
        ELSE IF parts[1].call # 0 /\ parts = Pieces(parts[1].call, parts[1].of)
             THEN parts[1].call ELSE MaxCalls + 1

\* The line implements the remote call: no request is performed twice by a board that remembers
\* it, or put together from parts of several, and a successful call holds its own whole answer.
Remote == INSTANCE RemoteCall WITH status <- service.status, answer <- Delivered,
                                   performed <- [c \in 1 .. MaxCalls |-> performed[c]]
CallSpec == Remote!Spec /\ [][performed'[0] = "never"]_vars

----------------------------------------------------------------------------
(* What the comments of the code say, and single faults refute *)

\* serial/service.h: a response is provided only after a matching request completes successfully.
ResponseMatches ==
    service.status = "succeeded" => Delivered \in 1 .. Call /\ requests[Delivered] = Request

\* protocol.h of the board: duplicates are suppressed.
DuplicatesSuppressed == \A c \in 1 .. MaxCalls : performed[c] # "again"

\* serial/service.h: the retries of a request with bounded attempts are limited.
BoundedCallsEnd ==
    service.status = "pending" /\ Request.bounded ~> service.status # "pending"
=============================================================================
