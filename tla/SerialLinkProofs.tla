-------------------------- MODULE SerialLinkProofs --------------------------
(***************************************************************************)
(* Theorems about SerialLink, for every sequence space, number of attempts,  *)
(* parts, calls and faults, and for every environment.  The line turns out   *)
(* to be half duplex (Turns) although both ends send when they like; what    *)
(* travels in each direction carries the number of its sender (Kinds); and   *)
(* the board is level with the base or one ahead whenever it is engaged       *)
(* (Counts), which the frames it remembers must not upset (Memory, Acks).    *)
(***************************************************************************)
EXTENDS SerialLink, Integers, TLAPS

Types == {"none", "control", "i2c", "status"}
FrameTypes == Types \ {"none"}
Seqs == 0 .. SeqMod - 1

ServiceType == [status : {"idle", "pending", "succeeded", "failed"}, packet : FrameType,
                waiting : BOOLEAN, recovering : BOOLEAN, attempts : 0 .. MaxAttempts,
                response : Seq(Piece)]

SessionType == [seq : Seqs, offset : 0 .. MaxParts, next : {"none", "data", "ack", "nak"},
                assembled : Seq(Piece), type : Types]

WqrType == [seq : Seqs, sent : BOOLEAN, control : FrameType, open : BOOLEAN, received : Seq(Piece),
            type : Types, fragment : FrameType, request : FrameType, work : BOOLEAN,
            active : BOOLEAN, ready : BOOLEAN, offset : 0 .. MaxParts, answer : Seq(Piece),
            answerType : Types]

DriverType == [state : {"idle", "busy", "done", "failed"}, call : 0 .. MaxCalls, clean : BOOLEAN]

PerformedType == [0 .. MaxCalls -> {"never", "now", "before", "again"}]

\* Of a call that has been made.
Made(piece) == piece.call <= Call

\* The board's part of the types: what it assembles is of calls that were made, and what it
\* answers has the type of a message.
WqrOK(w) ==
    /\ w \in WqrType
    /\ Len(w.received) <= MaxParts /\ Len(w.answer) <= MaxParts
    /\ \A i \in 1 .. Len(w.received) : Made(w.received[i])
    /\ w.ready => w.offset < Len(w.answer) /\ w.answerType # "none"
    /\ w.work => w.type # "none" /\ w.received # << >>

TypeInv ==
    /\ env \in Environments /\ requests \in Seq(Requests) /\ Call <= MaxCalls
    /\ toWqr \in FrameType /\ toBase \in FrameType /\ hold \in BOOLEAN /\ due \in BOOLEAN
    /\ service \in ServiceType /\ session \in SessionType
    /\ Len(session.assembled) <= MaxParts
    /\ WqrOK(wqr) /\ driver \in DriverType /\ driver.call <= Call
    /\ performed \in PerformedType
    /\ faults \in 0 .. MaxFaults
    /\ service.status = "pending" => Call > 0
    /\ Made(toWqr.piece) /\ Made(service.packet.piece)

\* The line is half duplex, and the board listens only when it owes nothing.
Turns ==
    /\ toBase # NoFrame => toWqr = NoFrame /\ ~due
    /\ ~due => wqr.control = NoFrame
    /\ service.recovering => /\ service.status = "pending" /\ ~service.waiting
                             /\ toBase = NoFrame /\ toWqr = NoFrame /\ ~due
    /\ service.status = "succeeded" => toBase = NoFrame /\ toWqr = NoFrame /\ ~due

Awaiting == service.status = "pending" /\ service.waiting

BaseKinds == {"request", "baseAck", "baseNak"}

\* Which frames travel in which direction, and with which numbers.
Kinds ==
    /\ toWqr \in {NoFrame, Damaged} \/ (toWqr.kind \in BaseKinds /\ toWqr.seq = session.seq)
    /\ toBase.kind \in {"none", "damaged", "answer", "wqrAck", "wqrNak"}
    /\ wqr.control.kind \in {"none", "wqrAck", "wqrNak"}
    /\ Awaiting \/ service.recovering =>
          service.packet.kind \in BaseKinds /\ service.packet.seq = session.seq
    /\ service.recovering => service.packet.kind = "baseNak"
    /\ Awaiting => toWqr \in {NoFrame, Damaged, service.packet}

\* The base waits for an answer to an acknowledgement.
AckPending == Awaiting /\ service.packet.kind = "baseAck"

\* A message the board is working for or has begun, or its answer.
Engaged == wqr.work \/ wqr.ready \/ wqr.open

\* The board does not listen while it works, and is not engaged before its first frame.
Modes ==
    /\ wqr.work => /\ due /\ wqr.control = NoFrame /\ ~wqr.ready /\ ~wqr.open /\ wqr.offset = 0
    /\ wqr.active => wqr.work
    /\ wqr.ready => \A p \in 1 .. Len(wqr.answer) : wqr.answer[p].part = p
    /\ ~wqr.sent => IF due THEN wqr.open => wqr.control # NoFrame ELSE ~Engaged

LineInv == Turns /\ Kinds /\ Modes
-----------------------------------------------------------------------------
LEMMA IncValue ==
    ASSUME NEW s \in Seqs
    PROVE  Inc(s) = (IF s + 1 < SeqMod THEN s + 1 ELSE 0) /\ Inc(s) \in Seqs
<1>1. SeqMod \in Nat /\ SeqMod > 1
  BY SerialAssumption
<1> QED
  BY <1>1 DEF Inc, Seqs

LEMMA SmallTypes ==
    /\ MaxParts \in Nat /\ MaxParts > 0 /\ MaxCalls \in Nat /\ MaxAttempts \in Nat /\ MaxFaults \in Nat
    /\ 0 \in Seqs /\ Seqs \subseteq Nat /\ NoPiece \in Piece /\ NoPiece.call = 0
    /\ NoFrame \in FrameType /\ Damaged \in FrameType /\ NoFrame # Damaged
    /\ NoFrame.piece = NoPiece /\ Damaged.piece = NoPiece
    /\ NoFrame.kind = "none" /\ Damaged.kind = "damaged"
<1>1. SeqMod \in Nat /\ SeqMod > 1
  BY SerialAssumption
<1> QED
  BY <1>1, SerialAssumption DEF Seqs, NoPiece, Piece, NoFrame, Damaged, Control, FrameType

LEMMA ControlType ==
    ASSUME NEW seq \in Seqs, NEW kind \in {"baseAck", "baseNak", "wqrAck", "wqrNak"}
    PROVE  /\ Control(kind, seq) \in FrameType /\ Control(kind, seq).piece = NoPiece
           /\ Control(kind, seq).kind = kind /\ Control(kind, seq).seq = seq
BY SmallTypes DEF Control, FrameType, Seqs

LEMMA RequestTypes ==
    ASSUME NEW r \in Requests
    PROVE  /\ r.parts \in Nat /\ r.parts >= 1 /\ r.parts <= MaxParts
           /\ r.answers \in Nat /\ r.answers >= 1 /\ r.answers <= MaxParts
           /\ r.type \in {"i2c", "status"} /\ r.bounded \in BOOLEAN
BY SerialAssumption

LEMMA RequestFrameType ==
    ASSUME NEW c \in 0 .. MaxCalls, NEW r \in Requests, NEW s \in Seqs, NEW o \in Nat, o < r.parts
    PROVE  LET f == RequestFrame(c, r, s, o)
           IN  f \in FrameType /\ f.piece.call = c /\ f.kind = "request" /\ f.seq = s
<1>1. o + 1 \in 0 .. MaxParts /\ r.parts \in 0 .. MaxParts /\ r.type \in {"i2c", "status"}
  BY SmallTypes, RequestTypes
<1> QED
  BY <1>1 DEF RequestFrame, FrameType, Piece, Seqs

\* The request of the current call is one of those the environments make.
LEMMA CurrentRequest ==
    ASSUME requests \in Seq(Requests)
    PROVE  /\ Call \in Nat
           /\ \A c \in 1 .. Call : requests[c] \in Requests
           /\ Call > 0 => Request \in Requests
BY DEF Call, Request

-----------------------------------------------------------------------------
(* Types *)

\* What the next packet of a session is.
LEMMA PacketType ==
    ASSUME requests \in Seq(Requests), Call <= MaxCalls, Call > 0, NEW s \in SessionType, Encodes(s)
    PROVE  /\ NextPacket(s) \in FrameType /\ Made(NextPacket(s).piece)
           /\ NextPacket(s).seq = s.seq
           /\ NextPacket(s).kind = CASE s.next = "data" -> "request"
                                     [] s.next = "ack" -> "baseAck"
                                     [] s.next = "nak" -> "baseNak"
<1>1. Call \in Nat /\ Request \in Requests /\ Call \in 0 .. MaxCalls
  BY CurrentRequest, SmallTypes
<1>2. s.seq \in Seqs /\ s.offset \in Nat /\ s.next \in {"none", "data", "ack", "nak"}
  BY DEF SessionType
<1>3. CASE s.next = "data"
  <2>1. s.offset < Request.parts /\ NextPacket(s) = RequestFrame(Call, Request, s.seq, s.offset)
    BY <1>3 DEF Encodes, NextPacket
  <2> QED
    BY <1>1, <1>2, <1>3, <2>1, RequestFrameType DEF Made
<1>4. CASE s.next = "ack"
  BY <1>1, <1>2, <1>4, ControlType, SmallTypes DEF NextPacket, Made
<1>5. CASE s.next = "nak"
  BY <1>1, <1>2, <1>5, ControlType, SmallTypes DEF NextPacket, Made
<1> QED
  BY <1>2, <1>3, <1>4, <1>5 DEF Encodes

\* What the base has after it takes a frame: a step that starts the next packet, or none.
LEMMA StartNextType ==
    ASSUME TypeInv, Call > 0, NEW s \in SessionType, NEW v \in ServiceType, Made(v.packet.piece),
           StartNextPacket(s, v)
    PROVE  /\ session' \in SessionType /\ session'.seq = s.seq /\ session'.assembled = s.assembled
           /\ service' \in ServiceType /\ Made(service'.packet.piece) /\ service'.status = v.status
           /\ toWqr' \in FrameType /\ Made(toWqr'.piece)
<1>1. CASE Encodes(s)
  <2>1. /\ NextPacket(s) \in FrameType /\ Made(NextPacket(s).piece)
    BY <1>1, PacketType DEF TypeInv
  <2>2. /\ session' = [s EXCEPT !.next = "none"] /\ toWqr' = NextPacket(s)
        /\ service' = [v EXCEPT !.packet = NextPacket(s), !.waiting = TRUE]
    BY <1>1 DEF StartNextPacket
  <2> QED
    BY <2>1, <2>2 DEF SessionType, ServiceType
<1>2. CASE ~Encodes(s)
  <2>1. /\ session' = s /\ service' = [v EXCEPT !.waiting = FALSE] /\ toWqr' = toWqr
    BY <1>2 DEF StartNextPacket
  <2> QED
    BY <2>1 DEF SessionType, ServiceType, TypeInv
<1> QED
  BY <1>1, <1>2

LEMMA CountType ==
    ASSUME NEW v \in ServiceType
    PROVE  /\ CountAttempt(v) \in ServiceType /\ CountAttempt(v).status = v.status
           /\ CountAttempt(v).packet = v.packet /\ CountAttempt(v).waiting = v.waiting
           /\ CountAttempt(v).recovering = v.recovering
<1>1. v.attempts \in 0 .. MaxAttempts /\ MaxAttempts \in Nat
  BY SmallTypes DEF ServiceType
<1>2. (IF v.attempts < MaxAttempts THEN v.attempts + 1 ELSE v.attempts) \in 0 .. MaxAttempts
  BY <1>1
<1> QED
  BY <1>2 DEF CountAttempt, ServiceType

\* What a rejected frame leaves: the service goes on, or has failed.
LEMMA RejectType ==
    ASSUME TypeInv, Call > 0, NEW s \in SessionType, NEW framing \in BOOLEAN, Reject(s, framing)
    PROVE  /\ session' \in SessionType /\ session'.seq = s.seq /\ session'.assembled = s.assembled
           /\ service' \in ServiceType /\ Made(service'.packet.piece)
           /\ service'.status \in {service.status, "failed"}
           /\ toWqr' \in FrameType /\ Made(toWqr'.piece) /\ hold' \in BOOLEAN
<1> DEFINE v == [CountAttempt(service) EXCEPT !.waiting = FALSE]
           resync == [s EXCEPT !.next = "nak"]
<1>1. /\ service \in ServiceType /\ Made(service.packet.piece) /\ toWqr \in FrameType
      /\ Made(toWqr.piece) /\ hold \in BOOLEAN
  BY DEF TypeInv
<1>2. v \in ServiceType /\ Made(v.packet.piece) /\ v.status = service.status
  BY <1>1, CountType DEF ServiceType
<1>3. resync \in SessionType /\ resync.seq = s.seq /\ resync.assembled = s.assembled /\ Encodes(resync)
  BY DEF SessionType, Encodes
<1>4. CASE framing
  <2>1. NextPacket(resync) \in FrameType /\ Made(NextPacket(resync).piece)
    BY <1>3, PacketType DEF TypeInv
  <2>2. /\ hold' = TRUE /\ session' = [s EXCEPT !.next = "none"] /\ toWqr' = toWqr
        /\ service' = [v EXCEPT !.packet = NextPacket(resync), !.recovering = Resumes(v),
                                !.status = IF Spent(v.attempts) THEN "failed" ELSE @]
    BY <1>4 DEF Reject
  <2>3. Resumes(v) \in BOOLEAN
    BY DEF Resumes
  <2> QED
    BY <1>1, <1>2, <2>1, <2>2, <2>3 DEF SessionType, ServiceType
<1>5. CASE ~framing /\ Spent(v.attempts)
  <2>1. /\ session' = resync /\ service' = [v EXCEPT !.status = "failed"] /\ hold' = hold /\ toWqr' = toWqr
    BY <1>5 DEF Reject
  <2> QED
    BY <1>1, <1>2, <1>3, <2>1 DEF ServiceType
<1>6. CASE ~framing /\ ~Spent(v.attempts)
  <2>1. StartNextPacket(resync, v) /\ hold' = hold
    BY <1>6 DEF Reject
  <2> QED
    BY <1>1, <1>2, <1>3, <2>1, StartNextType
<1> QED
  BY <1>4, <1>5, <1>6

\* A step that leaves the board and the calls alone keeps the types if it keeps the base's.
LEMMA BaseKeepsType ==
    ASSUME TypeInv, UNCHANGED <<requests, wqr, due, driver, performed, env>>,
           service' \in ServiceType, session' \in SessionType, Len(session'.assembled) <= MaxParts,
           hold' \in BOOLEAN, toWqr' \in FrameType, toBase' \in FrameType,
           Made(toWqr'.piece), Made(service'.packet.piece), faults' \in 0 .. MaxFaults,
           service'.status = "pending" => Call > 0
    PROVE  TypeInv'
<1>1. Call' = Call /\ \A p : Made(p)' = (p'.call <= Call)
  BY DEF Call, Made
<1>2. WqrOK(wqr)'
  BY <1>1 DEF TypeInv, WqrOK, Made
<1> QED
  BY <1>1, <1>2 DEF TypeInv, Made

LEMMA StartType == ASSUME TypeInv, NEW r \in env.requests, Start(r) PROVE TypeInv'
<1> USE DEF TypeInv
<1>1. r \in Requests
  BY DEF Requests
<1>2. Call \in Nat /\ Call < MaxCalls /\ MaxCalls \in Nat
  BY CurrentRequest, SmallTypes DEF Start
<1>3. requests' = Append(requests, r) /\ requests' \in Seq(Requests)
  BY <1>1 DEF Start
<1>4. Call' = Call + 1
  BY <1>3 DEF Call
<1> DEFINE frame == RequestFrame(Call + 1, r, session.seq, 0)
<1>5. frame \in FrameType /\ frame.piece.call = Call + 1
  <2>1. Call + 1 \in 0 .. MaxCalls /\ session.seq \in Seqs /\ 0 \in Nat /\ 0 < r.parts
    BY <1>1, <1>2, RequestTypes DEF SessionType
  <2> QED
    BY <1>1, <2>1, RequestFrameType
<1>6. \A p \in Piece : Made(p) => p.call <= Call'
  BY <1>2, <1>4 DEF Made, Piece
<1>7. IdleService \in ServiceType
  BY SmallTypes DEF IdleService, ServiceType
<1>8. service' \in ServiceType /\ service'.packet = frame
  <2> DEFINE failed == [IdleService EXCEPT !.status = "failed", !.packet = frame]
             sent == [IdleService EXCEPT !.status = "pending", !.packet = frame, !.waiting = TRUE]
  <2>1. service' \in {failed, sent}
    BY DEF Start
  <2> HIDE DEF frame
  <2>2. failed \in ServiceType /\ failed.packet = frame /\ sent \in ServiceType /\ sent.packet = frame
    BY <1>5, <1>7 DEF ServiceType
  <2> QED
    BY <2>1, <2>2
<1>9. toWqr' \in {toWqr, frame} /\ toWqr' \in FrameType
  BY <1>5 DEF Start
<1>10. session' = [session EXCEPT !.offset = 0, !.next = "none"]
  BY DEF Start
<1>11. session' \in SessionType /\ session'.assembled = session.assembled
  <2>1. session \in SessionType /\ 0 \in 0 .. MaxParts
    BY SmallTypes
  <2> QED
    BY <1>10, <2>1 DEF SessionType
<1>12. UNCHANGED <<hold, toBase, wqr, due, driver, performed, env, faults>>
  BY DEF Start, board, happened
<1>13. WqrOK(wqr)'
  <2>1. \A i \in 1 .. Len(wqr.received) : wqr.received[i] \in Piece
    BY DEF WqrOK, WqrType
  <2> QED
    BY <1>6, <1>12, <2>1 DEF WqrOK, Made
<1>14. Made(toWqr.piece) /\ toWqr.piece \in Piece
  BY DEF FrameType
<1>15. Made(toWqr.piece)' /\ Made(service.packet.piece)'
  <2>1. toWqr'.piece.call <= Call' /\ service'.packet.piece.call <= Call'
    BY <1>2, <1>4, <1>5, <1>6, <1>8, <1>9, <1>14
  <2> QED
    BY <2>1 DEF Made
<1>16. driver.call <= Call' /\ Call' <= MaxCalls /\ Call' > 0
  BY <1>2, <1>4 DEF DriverType
<1> QED
  BY <1>3, <1>8, <1>9, <1>11, <1>12, <1>13, <1>15, <1>16

LEMMA Taken ==
    ASSUME TypeInv, NEW kind, Takes(kind)
    PROVE  /\ Call > 0 /\ Request \in Requests /\ toBase' = NoFrame /\ toBase' \in FrameType
           /\ UNCHANGED <<requests, wqr, due, driver, performed, env, faults>>
BY CurrentRequest, SmallTypes DEF Takes, TypeInv, board, happened

LEMMA TakeNakType == ASSUME TypeInv, TakeNak PROVE TypeInv'
<1> DEFINE s == [session EXCEPT !.next = IF Ahead(toBase.seq) THEN "nak" ELSE "data"]
<1>1. Takes("wqrNak") /\ StartNextPacket(s, service) /\ hold' = hold
  BY DEF TakeNak
<1>2. s \in SessionType /\ s.assembled = session.assembled
  BY DEF TypeInv, SessionType
<1> QED
  BY <1>1, <1>2, Taken, StartNextType, BaseKeepsType DEF TypeInv

LEMMA TakeAckType == ASSUME TypeInv, TakeAck PROVE TypeInv'
<1> DEFINE offset == IF session.offset < Request.parts THEN session.offset + 1 ELSE session.offset
           s == [session EXCEPT !.seq = Inc(@), !.offset = offset,
                                !.next = IF offset < Request.parts THEN "data" ELSE "nak"]
<1>1. Takes("wqrAck") /\ StartNextPacket(s, service) /\ hold' = hold
  BY DEF TakeAck
<1>2. session.offset \in 0 .. MaxParts /\ session.seq \in Seqs
  BY DEF TypeInv, SessionType
<1>3. offset \in 0 .. MaxParts
  BY <1>1, <1>2, Taken, RequestTypes, SmallTypes
<1>4. s \in SessionType /\ s.assembled = session.assembled
  BY <1>2, <1>3, IncValue DEF TypeInv, SessionType
<1> QED
  BY <1>1, <1>4, Taken, StartNextType, BaseKeepsType DEF TypeInv

LEMMA TakeDamagedType == ASSUME TypeInv, TakeDamaged PROVE TypeInv'
<1>1. PICK framing \in BOOLEAN : Reject(session, framing)
  BY DEF TakeDamaged
<1>2. Takes("damaged")
  BY DEF TakeDamaged
<1> QED
  BY <1>1, <1>2, Taken, RejectType, BaseKeepsType DEF TypeInv

\* How the base takes an answer: its sequence moves on in every case.
LEMMA AnswerOutcomes ==
    ASSUME TypeInv, TakeAnswer
    PROVE  \E x \in SessionType :
             /\ x.seq = Inc(session.seq) /\ Len(x.assembled) <= MaxParts + 1
             /\ \/ Len(x.assembled) <= MaxParts /\ Reject(x, FALSE)
                \/ /\ Len(x.assembled) <= MaxParts /\ x.next = "ack"
                   /\ StartNextPacket(x, service) /\ hold' = hold
                \/ Complete(x, toBase.type)
<1> DEFINE s == [session EXCEPT !.seq = Inc(@)]
           got == session.assembled
           mismatch == got # << >> /\ session.type # toBase.type
           joined == [s EXCEPT !.assembled = Append(got, toBase.piece), !.type = toBase.type]
           empty == [s EXCEPT !.assembled = << >>, !.type = "none"]
           next == [joined EXCEPT !.next = "ack"]
           full == Len(got) = MaxParts
           more == Len(got) < MaxParts /\ toBase.piece.part < toBase.piece.of
<1>0. /\ CASE mismatch -> Reject(s, FALSE)
             [] ~mismatch /\ full -> Reject(empty, FALSE)
             [] ~mismatch /\ more -> StartNextPacket(next, service) /\ hold' = hold
             [] OTHER -> Complete(joined, toBase.type)
  BY Zenon DEF TakeAnswer
<1>2. /\ session.seq \in Seqs /\ got \in Seq(Piece) /\ Len(got) <= MaxParts /\ Len(got) \in Nat
      /\ toBase.piece \in Piece /\ toBase.type \in Types /\ session \in SessionType
  BY DEF TypeInv, SessionType, FrameType, Types
<1>3. s \in SessionType /\ s.assembled = got /\ s.seq = Inc(session.seq)
  BY <1>2, IncValue DEF SessionType
<1>4. empty \in SessionType /\ Len(empty.assembled) = 0 /\ empty.seq = Inc(session.seq)
  <2>1. << >> \in Seq(Piece) /\ Len(<< >>) = 0 /\ "none" \in Types
    BY DEF Types
  <2> QED
    BY <1>3, <2>1 DEF SessionType
<1>5. /\ joined \in SessionType /\ joined.assembled = Append(got, toBase.piece)
      /\ joined.seq = Inc(session.seq)
  <2>1. Append(got, toBase.piece) \in Seq(Piece)
    BY <1>2
  <2> QED
    BY <1>2, <1>3, <2>1 DEF SessionType
<1>6. /\ next \in SessionType /\ next.assembled = Append(got, toBase.piece)
      /\ next.seq = Inc(session.seq) /\ next.next = "ack"
  BY <1>5 DEF SessionType
<1>11. ~(full /\ more) /\ (full \/ more \/ Len(got) < MaxParts)
  BY <1>2, SmallTypes
<1> HIDE DEF s, mismatch, joined, empty, next, full, more
<1>12. /\ MaxParts \in Nat /\ Len(Append(got, toBase.piece)) = Len(got) + 1
       /\ more => Len(got) + 1 <= MaxParts
  BY <1>2, SmallTypes DEF more
<1>7. CASE mismatch
  <2>1. Reject(s, FALSE)
    BY <1>0, <1>7
  <2>2. Len(s.assembled) <= MaxParts /\ Len(s.assembled) <= MaxParts + 1
    BY <1>2, <1>3, <1>12
  <2> QED
    BY <2>1, <2>2, <1>3
<1>8. CASE ~mismatch /\ full
  <2>1. Reject(empty, FALSE)
    BY <1>0, <1>8, <1>11
  <2>2. Len(empty.assembled) <= MaxParts /\ Len(empty.assembled) <= MaxParts + 1
    BY <1>4, <1>12
  <2> QED
    BY <2>1, <2>2, <1>4
<1>9. CASE ~mismatch /\ more
  <2>1. StartNextPacket(next, service) /\ hold' = hold
    BY <1>0, <1>9, <1>11
  <2>2. Len(next.assembled) <= MaxParts /\ Len(next.assembled) <= MaxParts + 1
    BY <1>2, <1>6, <1>9, <1>12
  <2> QED
    BY <2>1, <2>2, <1>6
<1>10. CASE ~mismatch /\ ~full /\ ~more
  <2>1. Complete(joined, toBase.type)
    BY <1>0, <1>10
  <2>2. Len(joined.assembled) <= MaxParts + 1
    BY <1>2, <1>5, <1>12
  <2> QED
    BY <2>1, <2>2, <1>5
<1> QED
  BY <1>7, <1>8, <1>9, <1>10

LEMMA FinishedType ==
    ASSUME NEW s \in SessionType
    PROVE  Finished(s) \in SessionType /\ Finished(s).assembled = << >> /\ Finished(s).seq = s.seq
<1>1. /\ 0 \in 0 .. MaxParts /\ << >> \in Seq(Piece) /\ "none" \in Types
      /\ s.next \in {"none", "data", "ack", "nak"}
  BY SmallTypes DEF Types, SessionType
<1> QED
  BY <1>1 DEF Finished, SessionType

LEMMA TakeAnswerType == ASSUME TypeInv, TakeAnswer PROVE TypeInv'
<1>1. Takes("answer")
  BY DEF TakeAnswer
<1>2. PICK x \in SessionType :
        /\ x.seq = Inc(session.seq)
        /\ \/ Len(x.assembled) <= MaxParts /\ Reject(x, FALSE)
           \/ /\ Len(x.assembled) <= MaxParts /\ x.next = "ack"
              /\ StartNextPacket(x, service) /\ hold' = hold
           \/ Complete(x, toBase.type)
  BY AnswerOutcomes
<1>3. CASE Len(x.assembled) <= MaxParts /\ Reject(x, FALSE)
  BY <1>1, <1>3, Taken, RejectType, BaseKeepsType DEF TypeInv
<1>4. CASE Len(x.assembled) <= MaxParts /\ StartNextPacket(x, service) /\ hold' = hold
  BY <1>1, <1>4, Taken, StartNextType, BaseKeepsType DEF TypeInv
<1>5. CASE Complete(x, toBase.type)
  <2>1. session' = Finished(x) /\ hold' = hold /\ toWqr' = toWqr
    BY <1>5 DEF Complete
  <2>2. session' \in SessionType /\ session'.assembled = << >>
    BY <2>1, FinishedType
  <2>3. service' \in ServiceType /\ service'.packet = service.packet
    BY <1>5 DEF Complete, ServiceType, SessionType, TypeInv
  <2>4. Len(session'.assembled) <= MaxParts
    BY <2>2, SmallTypes
  <2> QED
    BY <1>1, <2>1, <2>2, <2>3, <2>4, Taken, BaseKeepsType DEF TypeInv
<1> QED
  BY <1>2, <1>3, <1>4, <1>5

LEMMA RunRecoveringType == ASSUME TypeInv, RunRecovering PROVE TypeInv'
<1>1. /\ toWqr' = service.packet /\ service' = [service EXCEPT !.recovering = FALSE, !.waiting = TRUE]
      /\ UNCHANGED <<requests, session, hold, toBase, wqr, due, driver, performed, env, faults>>
  BY DEF RunRecovering, calls, board, happened
<1>2. service' \in ServiceType /\ service'.packet = service.packet /\ service'.status = service.status
  BY <1>1 DEF TypeInv, ServiceType
<1>3. service.packet \in FrameType
  BY DEF TypeInv, ServiceType
<1> QED
  BY <1>1, <1>2, <1>3, BaseKeepsType DEF TypeInv

LEMMA FaultBound == ASSUME TypeInv, Happens PROVE faults' \in 0 .. MaxFaults /\ env' = env
BY SmallTypes DEF TypeInv, Happens

LEMMA TimeoutType == ASSUME TypeInv, Timeout PROVE TypeInv'
<1> DEFINE v == CountAttempt(service)
<1>1. /\ hold' = FALSE /\ UNCHANGED <<requests, session, toBase, wqr, due, driver, performed>>
      /\ service.status = "pending"
  BY DEF Timeout, calls, board
<1>2. faults' \in 0 .. MaxFaults /\ env' = env
  BY FaultBound DEF Timeout, TypeInv, happened
<1>3. v \in ServiceType /\ v.packet = service.packet /\ service.packet \in FrameType
  BY CountType DEF TypeInv, ServiceType
<1>4. \/ service' = [v EXCEPT !.waiting = FALSE, !.status = "failed"] /\ toWqr' = toWqr
      \/ service' = v /\ toWqr' = service.packet
  BY DEF Timeout
<1> HIDE DEF v
<1>5. service' \in ServiceType /\ service'.packet = service.packet /\ toWqr' \in {toWqr, service.packet}
  BY <1>3, <1>4 DEF ServiceType
<1> QED
  BY <1>1, <1>2, <1>3, <1>5, BaseKeepsType DEF TypeInv

LEMMA EndingType == ASSUME TypeInv, Release \/ Cancel PROVE TypeInv'
<1>1. /\ service' = IdleService /\ session' = Finished(session) /\ hold' \in BOOLEAN
      /\ toWqr' \in {toWqr, NoFrame, Damaged}
      /\ UNCHANGED <<requests, toBase, wqr, due, driver, performed>>
  BY DEF Release, Cancel, calls, line, board, TypeInv
<1>2. faults' \in 0 .. MaxFaults /\ env' = env
  BY FaultBound DEF Release, Cancel, TypeInv, happened
<1>3. IdleService \in ServiceType /\ IdleService.packet = NoFrame /\ IdleService.status = "idle"
  BY SmallTypes DEF IdleService, ServiceType
<1>4. session' \in SessionType /\ Len(session'.assembled) <= MaxParts
  BY <1>1, FinishedType, SmallTypes DEF TypeInv
<1>5. Made(NoFrame.piece) /\ Made(Damaged.piece)
  BY CurrentRequest, SmallTypes DEF TypeInv, Made
<1> QED
  BY <1>1, <1>2, <1>3, <1>4, <1>5, SmallTypes, BaseKeepsType DEF TypeInv

LEMMA LineStepType == ASSUME TypeInv, WqrDeaf \/ BaseDeaf \/ HoldEnds \/ Lose \/ Damage PROVE TypeInv'
<1>1. /\ toWqr' \in {toWqr, NoFrame, Damaged} /\ toBase' \in {toBase, NoFrame, Damaged}
      /\ UNCHANGED <<requests, service, session, wqr, due, driver, performed>> /\ hold' \in {hold, FALSE}
  BY DEF WqrDeaf, BaseDeaf, HoldEnds, Lose, Damage, calls, base, board, line
<1>2. faults' \in 0 .. MaxFaults /\ env' = env
  BY FaultBound DEF WqrDeaf, BaseDeaf, HoldEnds, Lose, Damage, TypeInv, happened
<1>3. Made(NoFrame.piece) /\ Made(Damaged.piece)
  BY CurrentRequest, SmallTypes DEF TypeInv, Made
<1> QED
  BY <1>1, <1>2, <1>3, SmallTypes, BaseKeepsType DEF TypeInv

LEMMA BoardKeepsType ==
    ASSUME TypeInv, UNCHANGED <<requests, service, session, hold, env>>, WqrOK(wqr'),
           driver' \in DriverType, driver'.call <= Call, performed' \in PerformedType, due' \in BOOLEAN,
           toWqr' \in {toWqr, NoFrame}, toBase' \in FrameType, faults' \in 0 .. MaxFaults
    PROVE  TypeInv'
<1>1. Call' = Call /\ Request' = Request
  BY DEF Call, Request
<1>2. WqrOK(wqr)'
  BY <1>1 DEF WqrOK, Made
<1>3. toWqr' \in FrameType /\ Made(toWqr'.piece)
  BY CurrentRequest, SmallTypes DEF TypeInv, Made
<1> QED
  BY <1>1, <1>2, <1>3 DEF TypeInv, Made

LEMMA ReplyType ==
    ASSUME NEW w, WqrOK(w)
    PROVE  WqrOK(Nak(w)) /\ WqrOK(Ack(w))
<1>1. w \in WqrType /\ w.seq \in Seqs
  BY DEF WqrOK, WqrType
<1>2. Control("wqrNak", w.seq) \in FrameType /\ Control("wqrAck", w.seq) \in FrameType
  BY <1>1, ControlType
<1> QED
  BY <1>1, <1>2 DEF WqrOK, WqrType, Nak, Ack

LEMMA HearAckType == ASSUME WqrOK(wqr) PROVE WqrOK(HearAck(wqr))
<1>1. wqr \in WqrType /\ wqr.seq \in Seqs /\ wqr.offset \in 0 .. MaxParts /\ Len(wqr.answer) <= MaxParts
      /\ Len(wqr.answer) \in Nat
  BY DEF WqrOK, WqrType
<1>2. Inc(wqr.seq) \in Seqs
  BY <1>1, IncValue
<1>3. CASE ~wqr.ready
  BY <1>3, ReplyType DEF HearAck
<1>4. CASE wqr.ready /\ wqr.offset + 1 < Len(wqr.answer)
  <2>1. HearAck(wqr) = [wqr EXCEPT !.offset = @ + 1, !.seq = Inc(@)]
    BY <1>4 DEF HearAck
  <2>2. wqr.offset + 1 \in 0 .. MaxParts
    BY <1>1, <1>4, SmallTypes
  <2> QED
    BY <1>1, <1>2, <1>4, <2>1, <2>2 DEF WqrOK, WqrType
<1>5. CASE wqr.ready /\ ~(wqr.offset + 1 < Len(wqr.answer))
  <2>1. HearAck(wqr) = [wqr EXCEPT !.ready = FALSE, !.offset = 0, !.request = NoFrame, !.seq = Inc(@)]
    BY <1>5 DEF HearAck
  <2>2. 0 \in 0 .. MaxParts
    BY SmallTypes
  <2> QED
    BY <1>1, <1>2, <2>1, <2>2, SmallTypes DEF WqrOK, WqrType
<1> QED
  BY <1>3, <1>4, <1>5

\* What a request does: it is refused, opens or continues a message, or ends one.
LEMMA RequestOutcomes ==
    ASSUME NEW f, WqrOK(wqr), f \in FrameType
    PROVE  \/ HearRequest(wqr, f) = Nak([wqr EXCEPT !.received = << >>, !.open = FALSE])
           \/ \E x \in Seq(Piece) :
                /\ x = << f.piece >> \/ (x = Append(wqr.received, f.piece) /\ Len(wqr.received) < MaxParts)
                /\ \/ HearRequest(wqr, f) = Ack([wqr EXCEPT !.received = x, !.type = f.type,
                                                           !.seq = Inc(f.seq), !.open = TRUE, !.fragment = f])
                   \/ HearRequest(wqr, f) =
                         [wqr EXCEPT !.received = x, !.type = f.type, !.seq = Inc(f.seq), !.open = FALSE,
                                     !.fragment = NoFrame, !.offset = 0, !.ready = FALSE, !.work = TRUE,
                                     !.request = f]
<1> DEFINE later == f.piece.part > 1
           broken == later /\ (\/ ~wqr.open \/ wqr.type # f.type \/ f.seq # wqr.seq
                               \/ Len(wqr.received) = MaxParts)
           x == IF later THEN Append(wqr.received, f.piece) ELSE << f.piece >>
           taken == [wqr EXCEPT !.received = IF later THEN Append(@, f.piece) ELSE << f.piece >>,
                                !.type = f.type, !.seq = Inc(f.seq)]
           opened == [taken EXCEPT !.open = TRUE, !.fragment = f]
           ended == [taken EXCEPT !.open = FALSE, !.fragment = NoFrame, !.offset = 0,
                                  !.ready = FALSE, !.work = TRUE, !.request = f]
           unfinished == f.piece.part < f.piece.of
<1>0. /\ CASE broken -> HearRequest(wqr, f) = Nak([wqr EXCEPT !.received = << >>, !.open = FALSE])
            [] ~broken /\ unfinished -> HearRequest(wqr, f) = Ack(opened)
            [] OTHER -> HearRequest(wqr, f) = ended
  BY DEF HearRequest
<1>1. /\ wqr \in WqrType /\ wqr.received \in Seq(Piece) /\ f.piece \in Piece /\ Len(wqr.received) <= MaxParts
      /\ Len(wqr.received) \in Nat /\ MaxParts \in Nat
  BY SmallTypes DEF WqrOK, WqrType, FrameType
<1>2. x \in Seq(Piece)
  BY <1>1
<1>3. ~broken => x = << f.piece >> \/ (x = Append(wqr.received, f.piece) /\ Len(wqr.received) < MaxParts)
  <2>1. later => x = Append(wqr.received, f.piece)
    OBVIOUS
  <2>2. ~later => x = << f.piece >>
    OBVIOUS
  <2>3. later /\ ~broken => Len(wqr.received) # MaxParts
    OBVIOUS
  <2>4. Len(wqr.received) # MaxParts => Len(wqr.received) < MaxParts
    BY <1>1
  <2> HIDE DEF later, broken, x
  <2> QED
    BY <2>1, <2>2, <2>3, <2>4
<1>4. opened = [wqr EXCEPT !.received = x, !.type = f.type, !.seq = Inc(f.seq), !.open = TRUE, !.fragment = f]
  BY <1>1 DEF WqrType
<1>5. ended = [wqr EXCEPT !.received = x, !.type = f.type, !.seq = Inc(f.seq), !.open = FALSE,
                          !.fragment = NoFrame, !.offset = 0, !.ready = FALSE, !.work = TRUE, !.request = f]
  BY <1>1 DEF WqrType
<1> HIDE DEF later, broken, x, taken, opened, ended, unfinished
<1>6. CASE broken
  BY <1>0, <1>6
<1>7. CASE ~broken /\ unfinished
  <2>1. HearRequest(wqr, f) = Ack(opened)
    BY <1>0, <1>7
  <2> QED
    BY <1>2, <1>3, <1>4, <1>7, <2>1
<1>8. CASE ~broken /\ ~unfinished
  <2>1. HearRequest(wqr, f) = ended
    BY <1>0, <1>8
  <2> QED
    BY <1>2, <1>3, <1>5, <1>8, <2>1
<1> QED
  BY <1>6, <1>7, <1>8

LEMMA HearRequestType ==
    ASSUME NEW f, WqrOK(wqr), ~wqr.work, f \in FrameType, Made(f.piece)
    PROVE  WqrOK(HearRequest(wqr, f))
<1>1. /\ wqr \in WqrType /\ wqr.received \in Seq(Piece) /\ Len(wqr.received) \in Nat
      /\ f.piece \in Piece /\ f.seq \in Seqs /\ f.type \in Types /\ f.type # "none"
      /\ \A i \in 1 .. Len(wqr.received) : Made(wqr.received[i])
  BY DEF WqrOK, WqrType, FrameType, Types, Seqs
<1>2. Inc(f.seq) \in Seqs
  BY <1>1, IncValue
<1>3. CASE HearRequest(wqr, f) = Nak([wqr EXCEPT !.received = << >>, !.open = FALSE])
  <2>1. << >> \in Seq(Piece) /\ Len(<< >>) = 0 /\ 0 <= MaxParts
    BY SmallTypes
  <2> DEFINE w == [wqr EXCEPT !.received = << >>, !.open = FALSE]
  <2>2. w \in WqrType /\ w.received = << >> /\ ~w.work
    BY <1>1, <2>1 DEF WqrType
  <2>3. w.ready = wqr.ready /\ w.offset = wqr.offset /\ w.answer = wqr.answer /\ w.answerType = wqr.answerType
    BY <1>1 DEF WqrType
  <2>4. WqrOK(w)
    BY <2>1, <2>2, <2>3 DEF WqrOK
  <2> QED
    BY <1>3, <2>4, ReplyType
<1>4. ASSUME NEW x \in Seq(Piece),
             x = << f.piece >> \/ (x = Append(wqr.received, f.piece) /\ Len(wqr.received) < MaxParts)
      PROVE  /\ x # << >> /\ Len(x) <= MaxParts
             /\ \A i \in 1 .. Len(x) : Made(x[i])
  <2>1. CASE x = << f.piece >>
    BY <2>1, SmallTypes
  <2>2. CASE x = Append(wqr.received, f.piece) /\ Len(wqr.received) < MaxParts
    <3>1. Len(x) = Len(wqr.received) + 1 /\ x[Len(x)] = f.piece
      BY <1>1, <2>2
    <3>2. \A i \in 1 .. Len(wqr.received) : x[i] = wqr.received[i]
      BY <1>1, <2>2
    <3>3. \A i \in 1 .. Len(x) : i = Len(x) \/ i \in 1 .. Len(wqr.received)
      BY <1>1, <3>1
    <3>4. Len(x) <= MaxParts /\ Len(x) > 0
      BY <1>1, <2>2, <3>1, SmallTypes
    <3> QED
      BY <1>1, <3>1, <3>2, <3>3, <3>4
  <2> QED
    BY <1>4, <2>1, <2>2
<1>5. CASE \E x \in Seq(Piece) :
                /\ x = << f.piece >> \/ (x = Append(wqr.received, f.piece) /\ Len(wqr.received) < MaxParts)
                /\ HearRequest(wqr, f) = Ack([wqr EXCEPT !.received = x, !.type = f.type,
                                                        !.seq = Inc(f.seq), !.open = TRUE, !.fragment = f])
  <2>1. PICK x \in Seq(Piece) :
                /\ x = << f.piece >> \/ (x = Append(wqr.received, f.piece) /\ Len(wqr.received) < MaxParts)
                /\ HearRequest(wqr, f) = Ack([wqr EXCEPT !.received = x, !.type = f.type,
                                                        !.seq = Inc(f.seq), !.open = TRUE, !.fragment = f])
    BY <1>5
  <2> DEFINE w == [wqr EXCEPT !.received = x, !.type = f.type, !.seq = Inc(f.seq),
                              !.open = TRUE, !.fragment = f]
  <2>2. w \in WqrType /\ w.received = x /\ ~w.work
    BY <1>1, <1>2 DEF WqrType
  <2>3. w.ready = wqr.ready /\ w.offset = wqr.offset /\ w.answer = wqr.answer /\ w.answerType = wqr.answerType
    BY <1>1 DEF WqrType
  <2>4. WqrOK(w)
    BY <1>4, <2>1, <2>2, <2>3 DEF WqrOK
  <2> QED
    BY <2>1, <2>4, ReplyType
<1>6. CASE \E x \in Seq(Piece) :
                /\ x = << f.piece >> \/ (x = Append(wqr.received, f.piece) /\ Len(wqr.received) < MaxParts)
                /\ HearRequest(wqr, f) =
                         [wqr EXCEPT !.received = x, !.type = f.type, !.seq = Inc(f.seq), !.open = FALSE,
                                     !.fragment = NoFrame, !.offset = 0, !.ready = FALSE, !.work = TRUE,
                                     !.request = f]
  <2>1. PICK x \in Seq(Piece) :
                /\ x = << f.piece >> \/ (x = Append(wqr.received, f.piece) /\ Len(wqr.received) < MaxParts)
                /\ HearRequest(wqr, f) =
                         [wqr EXCEPT !.received = x, !.type = f.type, !.seq = Inc(f.seq), !.open = FALSE,
                                     !.fragment = NoFrame, !.offset = 0, !.ready = FALSE, !.work = TRUE,
                                     !.request = f]
    BY <1>6
  <2> DEFINE w == [wqr EXCEPT !.received = x, !.type = f.type, !.seq = Inc(f.seq), !.open = FALSE,
                              !.fragment = NoFrame, !.offset = 0, !.ready = FALSE, !.work = TRUE,
                              !.request = f]
  <2>2. 0 \in 0 .. MaxParts /\ NoFrame \in FrameType
    BY SmallTypes
  <2>3. w \in WqrType /\ w.received = x /\ ~w.ready /\ w.type = f.type /\ w.answer = wqr.answer
    BY <1>1, <1>2, <2>2 DEF WqrType
  <2>5. HearRequest(wqr, f) = w
    BY <2>1
  <2> HIDE DEF w
  <2>4. WqrOK(w)
    BY <1>1, <1>4, <2>1, <2>3 DEF WqrOK
  <2> QED
    BY <2>4, <2>5
<1> QED
  BY <1>3, <1>5, <1>6, RequestOutcomes

LEMMA HearType ==
    ASSUME NEW f, WqrOK(wqr), ~wqr.work, f \in FrameType, Made(f.piece)
    PROVE  WqrOK(Hear(wqr, f))
<1>1. Hear(wqr, f) \in {Nak(wqr), Ack(wqr), wqr, HearAck(wqr), HearNak(wqr, f), HearRequest(wqr, f)}
  BY DEF Hear
<1>2. HearNak(wqr, f) \in {wqr, Nak(wqr)}
  BY DEF HearNak
<1> QED
  BY <1>1, <1>2, ReplyType, HearAckType, HearRequestType

LEMMA WqrReceiveType == ASSUME TypeInv, LineInv, WqrReceive PROVE TypeInv'
<1>1. /\ wqr' = Hear(wqr, toWqr) /\ toWqr' = NoFrame /\ due' = TRUE /\ ~due
      /\ UNCHANGED <<requests, service, session, hold, toBase, driver, performed, env, faults>>
  BY DEF WqrReceive, calls, base, happened
<1>2. ~wqr.work
  BY <1>1 DEF LineInv, Modes
<1>3. WqrOK(wqr')
  BY <1>1, <1>2, HearType DEF TypeInv
<1> QED
  BY <1>1, <1>3, BoardKeepsType DEF TypeInv

\* The parts of an answer.
LEMMA PiecesType ==
    ASSUME NEW c \in 0 .. MaxCalls, NEW n \in 1 .. MaxParts
    PROVE  /\ Pieces(c, n) \in Seq(Piece) /\ Len(Pieces(c, n)) = n
           /\ \A p \in 1 .. n : Pieces(c, n)[p].part = p
<1>1. n \in Nat /\ MaxParts \in Nat /\ n <= MaxParts
  BY SmallTypes
<1>2. \A p \in 1 .. n : [call |-> c, part |-> p, of |-> n] \in Piece
  BY <1>1 DEF Piece
<1>3. Pieces(c, n) \in [1 .. n -> Piece]
  BY <1>2 DEF Pieces
<1> QED
  BY <1>1, <1>3 DEF Pieces

\* What was understood is a call that was made.
LEMMA UnderstoodType ==
    ASSUME TypeInv, wqr.work
    PROVE  Understood(wqr.received) \in 0 .. MaxCalls /\ Understood(wqr.received) <= Call
<1>1. /\ wqr.received \in Seq(Piece) /\ wqr.received # << >>
      /\ \A i \in 1 .. Len(wqr.received) : Made(wqr.received[i])
  BY DEF TypeInv, WqrOK, WqrType
<1>2. 1 \in 1 .. Len(wqr.received) /\ wqr.received[1] \in Piece
  BY <1>1
<1>3. wqr.received[1].call \in 0 .. MaxCalls /\ wqr.received[1].call <= Call
  BY <1>1, <1>2 DEF Made, Piece
<1>4. Call \in Nat /\ MaxCalls \in Nat
  BY CurrentRequest, SmallTypes DEF TypeInv
<1> QED
  BY <1>3, <1>4 DEF Understood

LEMMA PerformedKeeps ==
    ASSUME TypeInv, NEW c, Performed(c)
    PROVE  performed' \in PerformedType
BY DEF TypeInv, PerformedType, Performed

LEMMA AnsweredType ==
    ASSUME WqrOK(wqr), wqr.work, NEW c \in 0 .. MaxCalls, NEW n \in 1 .. MaxParts
    PROVE  WqrOK(Answered(wqr, Pieces(c, n)))
<1> DEFINE w == Answered(wqr, Pieces(c, n))
<1>1. /\ Pieces(c, n) \in Seq(Piece) /\ Len(Pieces(c, n)) = n /\ n >= 1 /\ n <= MaxParts /\ n \in Nat
      /\ 0 \in 0 .. MaxParts /\ << >> \in Seq(Piece) /\ Len(<< >>) = 0 /\ 0 <= MaxParts
  BY PiecesType, SmallTypes
<1>2. wqr \in WqrType /\ wqr.type # "none"
  BY DEF WqrOK
<1>3. /\ w \in WqrType /\ w.received = << >> /\ w.answer = Pieces(c, n) /\ w.offset = 0 /\ ~w.work
      /\ w.answerType = wqr.type
  BY <1>1, <1>2 DEF Answered, WqrType
<1> HIDE DEF w
<1>4. WqrOK(w)
  BY <1>1, <1>2, <1>3 DEF WqrOK
<1> QED
  BY <1>4 DEF w

LEMMA PollStatusType == ASSUME TypeInv, PollStatus PROVE TypeInv'
<1> DEFINE c == Understood(wqr.received)
           n == IF c = 0 THEN 1 ELSE requests[c].answers
<1>1. /\ wqr.work /\ Performed(c) /\ wqr' = Answered(wqr, Pieces(c, n))
      /\ UNCHANGED <<requests, service, session, hold, toWqr, toBase, due, driver, env, faults>>
  BY DEF PollStatus, calls, base, line, happened
<1>2. c \in 0 .. MaxCalls /\ c <= Call /\ Call \in Nat
  BY <1>1, UnderstoodType, CurrentRequest DEF TypeInv
<1>3. n \in 1 .. MaxParts
  <2>1. c # 0 => requests[c] \in Requests
    BY <1>2, CurrentRequest DEF TypeInv
  <2> QED
    BY <1>2, <2>1, RequestTypes, SmallTypes
<1>4. WqrOK(wqr')
  BY <1>1, <1>2, <1>3, AnsweredType DEF TypeInv
<1> HIDE DEF c, n
<1> QED
  BY <1>1, <1>4, PerformedKeeps, BoardKeepsType DEF TypeInv

LEMMA PollI2cType == ASSUME TypeInv, PollI2c PROVE TypeInv'
<1>1. /\ wqr.work /\ UNCHANGED <<requests, service, session, hold, toWqr, toBase, due, env, faults>>
  BY DEF PollI2c, calls, base, line, happened
<1>2. /\ driver \in DriverType /\ driver.call <= Call /\ WqrOK(wqr) /\ performed \in PerformedType
      /\ Call \in Nat /\ driver.state \in {"idle", "busy", "done", "failed"} /\ wqr \in WqrType
  BY CurrentRequest DEF TypeInv, DriverType, WqrOK
<1>3. WqrOK([wqr EXCEPT !.active = TRUE])
  BY <1>2 DEF WqrOK, WqrType
<1>4. CASE driver.state = "idle"
  <2> DEFINE c == Understood(wqr.received)
  <2>1. driver' = [state |-> "busy", call |-> c, clean |-> TRUE] /\ wqr' = [wqr EXCEPT !.active = TRUE]
    BY <1>4 DEF PollI2c
  <2>2. Performed(c)
    BY <1>4 DEF PollI2c
  <2>3. c \in 0 .. MaxCalls /\ c <= Call
    BY <1>1, UnderstoodType
  <2>4. driver' \in DriverType /\ driver'.call <= Call
    BY <2>1, <2>3 DEF DriverType
  <2> HIDE DEF c
  <2> QED
    BY <1>1, <1>3, <2>1, <2>2, <2>4, PerformedKeeps, BoardKeepsType DEF TypeInv
<1>5. HeaderWritten(driver) \in DriverType /\ HeaderWritten(driver).call = driver.call
      /\ HeaderWritten(driver).state = driver.state
  <2>1. (driver.clean /\ (wqr.active \/ driver.call = 0 \/ ~requests[driver.call].read)) \in BOOLEAN
    OBVIOUS
  <2> QED
    BY <1>2, <2>1 DEF HeaderWritten, DriverType
<1>6. CASE driver.state = "busy"
  <2>1. driver' = HeaderWritten(driver) /\ wqr' = [wqr EXCEPT !.active = TRUE] /\ performed' = performed
    BY <1>6 DEF PollI2c
  <2> QED
    BY <1>1, <1>2, <1>3, <1>5, <2>1, BoardKeepsType DEF TypeInv
<1>7. CASE driver.state \in {"done", "failed"}
  <2> DEFINE d == HeaderWritten(driver)
             n == IF d.state = "failed" \/ d.call = 0 THEN 1 ELSE requests[d.call].answers
             c == IF d.clean THEN d.call ELSE 0
  <2>1. wqr' = Answered(wqr, Pieces(c, n)) /\ driver' = IdleDriver /\ performed' = performed
    BY <1>7 DEF PollI2c
  <2>2. c \in 0 .. MaxCalls
    BY <1>2, <1>5, SmallTypes DEF DriverType
  <2>3. n \in 1 .. MaxParts
    <3>1. driver.call # 0 => driver.call \in 1 .. Call
      BY <1>2, SmallTypes DEF DriverType
    <3>2. driver.call # 0 => requests[driver.call] \in Requests
      BY <3>1, CurrentRequest DEF TypeInv
    <3> QED
      BY <1>5, <3>2, RequestTypes, SmallTypes
  <2> HIDE DEF c, n, d
  <2>4. WqrOK(wqr')
    BY <1>1, <1>2, <2>1, <2>2, <2>3, AnsweredType
  <2>5. driver' \in DriverType /\ driver'.call <= Call
    BY <1>2, <2>1, SmallTypes DEF IdleDriver, DriverType
  <2> QED
    BY <1>1, <1>2, <2>1, <2>4, <2>5, BoardKeepsType DEF TypeInv
<1> QED
  BY <1>2, <1>4, <1>6, <1>7

LEMMA DriverEndsType == ASSUME TypeInv, DriverEnds PROVE TypeInv'
<1>1. /\ UNCHANGED <<requests, service, session, hold, toWqr, toBase, wqr, due, performed, env, faults>>
      /\ driver \in DriverType /\ driver.call <= Call
  BY DEF DriverEnds, calls, base, line, happened, TypeInv
<1>2. PICK end \in {"done", "failed"} : driver' = [driver EXCEPT !.state = end]
  BY DEF DriverEnds
<1>3. driver' \in DriverType /\ driver'.call <= Call
  BY <1>1, <1>2 DEF DriverType
<1> QED
  BY <1>1, <1>3, BoardKeepsType DEF TypeInv

\* The frame the board answers with.
LEMMA WqrFrameType ==
    ASSUME WqrOK(wqr), wqr.control # NoFrame \/ wqr.ready
    PROVE  WqrFrame(wqr) \in FrameType
<1>1. wqr \in WqrType /\ wqr.control \in FrameType /\ wqr.seq \in Seqs
  BY DEF WqrOK, WqrType
<1>2. CASE wqr.control # NoFrame
  BY <1>1, <1>2 DEF WqrFrame
<1>3. CASE wqr.control = NoFrame
  <2>1. wqr.ready /\ wqr.offset + 1 \in 1 .. Len(wqr.answer) /\ wqr.answer \in Seq(Piece)
    BY <1>3, SmallTypes DEF WqrOK, WqrType
  <2>2. wqr.answer[wqr.offset + 1] \in Piece /\ wqr.answerType \in Types \ {"none"}
    BY <1>1, <2>1 DEF WqrOK, WqrType
  <2>3. WqrFrame(wqr) = [kind |-> "answer", type |-> wqr.answerType, seq |-> wqr.seq,
                         piece |-> wqr.answer[wqr.offset + 1]]
    BY <1>3 DEF WqrFrame
  <2> QED
    BY <1>1, <2>2, <2>3 DEF FrameType, Types, Seqs
<1> QED
  BY <1>2, <1>3

LEMMA WqrRespondType == ASSUME TypeInv, WqrRespond PROVE TypeInv'
<1>1. /\ toWqr' = NoFrame /\ wqr' = [wqr EXCEPT !.control = NoFrame, !.sent = TRUE] /\ due' = FALSE
      /\ toBase' \in {WqrFrame(wqr), NoFrame, Damaged}
      /\ wqr.control # NoFrame \/ wqr.ready
      /\ UNCHANGED <<requests, service, session, hold, driver, performed, env, faults>>
  BY DEF WqrRespond, calls, base, happened
<1>2. toBase' \in FrameType
  BY <1>1, WqrFrameType, SmallTypes DEF TypeInv
<1>3. WqrOK(wqr')
  BY <1>1, SmallTypes DEF TypeInv, WqrOK, WqrType
<1> QED
  BY <1>1, <1>2, <1>3, BoardKeepsType DEF TypeInv

LEMMA WqrSilentType == ASSUME TypeInv, WqrSilent PROVE TypeInv'
<1>1. /\ due' = FALSE
      /\ UNCHANGED <<requests, service, session, hold, toWqr, toBase, wqr, driver, performed, env, faults>>
  BY DEF WqrSilent, calls, base, line, happened
<1> QED
  BY <1>1, BoardKeepsType DEF TypeInv

LEMMA ForgottenType == ASSUME TypeInv, Forgotten PROVE performed' \in PerformedType
BY DEF TypeInv, PerformedType, Forgotten

LEMMA InitWqrType == WqrOK(InitWqr)
<1>1. /\ 0 \in 0 .. MaxParts /\ << >> \in Seq(Piece) /\ "none" \in Types /\ Len(<< >>) = 0 /\ 0 <= MaxParts
      /\ 0 \in Seqs /\ NoFrame \in FrameType
  BY SmallTypes DEF Types
<1>2. InitWqr \in WqrType
  BY <1>1 DEF InitWqr, WqrType
<1> QED
  BY <1>1, <1>2 DEF WqrOK, InitWqr

LEMMA UpsetType == ASSUME TypeInv, Restart \/ Detach PROVE TypeInv'
<1>1. /\ UNCHANGED <<requests, service, session, hold, toWqr, toBase>> /\ Happens /\ Forgotten
  BY DEF Restart, Detach, calls, base, line
<1>2. faults' \in 0 .. MaxFaults /\ env' = env /\ performed' \in PerformedType
  BY <1>1, FaultBound, ForgottenType
<1>3. CASE Restart
  <2>1. wqr' = InitWqr /\ due' = FALSE /\ driver' = IdleDriver
    BY <1>3 DEF Restart
  <2>2. driver' \in DriverType /\ driver'.call <= Call
    BY <2>1, CurrentRequest, SmallTypes DEF IdleDriver, DriverType, TypeInv
  <2> QED
    BY <1>1, <1>2, <2>1, <2>2, InitWqrType, BoardKeepsType DEF TypeInv
<1>4. CASE Detach
  <2>1. /\ wqr' = [wqr EXCEPT !.received = << >>, !.open = FALSE, !.work = FALSE,
                               !.active = FALSE, !.fragment = NoFrame, !.request = NoFrame]
        /\ due' = due /\ driver' = driver
    BY <1>4 DEF Detach
  <2>2. << >> \in Seq(Piece) /\ Len(<< >>) = 0 /\ 0 <= MaxParts /\ NoFrame \in FrameType
    BY SmallTypes
  <2>3. wqr \in WqrType
    BY DEF TypeInv, WqrOK
  <2>4. /\ wqr' \in WqrType /\ wqr'.received = << >> /\ ~wqr'.work /\ wqr'.ready = wqr.ready
        /\ wqr'.offset = wqr.offset /\ wqr'.answer = wqr.answer /\ wqr'.answerType = wqr.answerType
    BY <2>1, <2>2, <2>3 DEF WqrType
  <2>5. WqrOK(wqr')
    BY <2>2, <2>4 DEF TypeInv, WqrOK
  <2> QED
    BY <1>1, <1>2, <2>1, <2>5, BoardKeepsType DEF TypeInv
<1> QED
  BY <1>3, <1>4

LEMMA TypeStart == Init => TypeInv
<1> SUFFICES ASSUME Init PROVE TypeInv
  OBVIOUS
<1>1. /\ requests = << >> /\ << >> \in Seq(Requests) /\ << >> \in Seq(Piece) /\ Len(<< >>) = 0
      /\ 0 \in 0 .. MaxParts /\ "none" \in Types /\ 0 <= MaxParts /\ 0 <= MaxCalls
  BY SmallTypes DEF Init, Types
<1>2. Call = 0
  BY <1>1 DEF Call
<1>3. service \in ServiceType /\ service.status = "idle" /\ service.packet = NoFrame
  BY <1>1, SmallTypes DEF Init, IdleService, ServiceType
<1>4. session \in SessionType /\ session.assembled = << >>
  BY <1>1, SmallTypes DEF Init, InitSession, SessionType
<1>5. driver \in DriverType /\ driver.call = 0 /\ performed \in PerformedType
  BY SmallTypes DEF Init, IdleDriver, DriverType, PerformedType
<1>6. WqrOK(wqr)
  BY InitWqrType DEF Init
<1>7. /\ env \in Environments /\ toWqr = NoFrame /\ toBase = NoFrame /\ hold = FALSE /\ due = FALSE
      /\ faults = 0
  BY DEF Init
<1>8. Made(toWqr.piece) /\ Made(service.packet.piece)
  BY <1>2, <1>3, <1>7, SmallTypes DEF Made
<1>9. /\ requests \in Seq(Requests) /\ Call <= MaxCalls /\ driver.call <= Call
      /\ Len(session.assembled) <= MaxParts
  BY <1>1, <1>2, <1>4, <1>5
<1>10. toWqr \in FrameType /\ toBase \in FrameType /\ faults \in 0 .. MaxFaults
  BY <1>7, SmallTypes
<1> QED
  BY <1>3, <1>4, <1>5, <1>6, <1>7, <1>8, <1>9, <1>10 DEF TypeInv

LEMMA StutterType == ASSUME TypeInv, UNCHANGED vars PROVE TypeInv'
<1>1. UNCHANGED <<requests, service, session, hold, toWqr, toBase, wqr, due, driver, performed, env, faults>>
  BY DEF vars, calls, base, board, line, happened
<1> QED
  BY <1>1, BoardKeepsType DEF TypeInv

LEMMA TypeStep == ASSUME TypeInv, LineInv, [Next]_vars PROVE TypeInv'
<1>1. CASE UNCHANGED vars
  BY <1>1, StutterType
<1>2. CASE \E r \in env.requests : Start(r)
  BY <1>2, StartType
<1>3. CASE BaseStep
  BY <1>3, TakeNakType, TakeAckType, TakeAnswerType, TakeDamagedType, RunRecoveringType, TimeoutType,
     LineStepType DEF BaseStep
<1>4. CASE BoardStep
  BY <1>4, WqrReceiveType, LineStepType, PollStatusType, PollI2cType, DriverEndsType, WqrRespondType,
     WqrSilentType DEF BoardStep
<1>5. CASE Release \/ Cancel \/ Restart \/ Detach \/ Lose \/ Damage
  BY <1>5, EndingType, UpsetType, LineStepType
<1> QED
  BY <1>1, <1>2, <1>3, <1>4, <1>5 DEF Next

-----------------------------------------------------------------------------
(* The line *)

\* What a base that has taken a frame leaves: one packet on its way, or none.
BaseOut ==
    /\ service'.recovering => /\ service'.status = "pending" /\ ~service'.waiting /\ toWqr' = NoFrame
                              /\ service'.packet.kind = "baseNak"
    /\ service'.status = "succeeded" => toWqr' = NoFrame
    /\ toWqr' = NoFrame \/ (toWqr'.kind \in BaseKinds /\ toWqr'.seq = session'.seq)
    /\ (service'.status = "pending" /\ service'.waiting) \/ service'.recovering =>
          service'.packet.seq = session'.seq /\ service'.packet.kind \in BaseKinds
    /\ service'.status = "pending" /\ service'.waiting => toWqr' \in {NoFrame, service'.packet}

\* It sends no acknowledgement.
NoAckOut == toWqr'.kind # "baseAck" /\ ~AckPending'

LEMMA Quiet ==
    ASSUME LineInv, NEW kind, Takes(kind), kind # "none"
    PROVE  /\ toWqr = NoFrame /\ ~due /\ toBase' = NoFrame /\ UNCHANGED <<wqr, due>>
           /\ service.status = "pending" /\ service.waiting /\ ~service.recovering
           /\ ~wqr.work /\ wqr.control = NoFrame
BY SmallTypes DEF LineInv, Turns, Modes, Takes, board

LEMMA StartNextEffect ==
    ASSUME TypeInv, Call > 0, toWqr = NoFrame, NEW s \in SessionType, NEW v \in ServiceType,
           v.status = "pending", ~v.recovering, StartNextPacket(s, v)
    PROVE  /\ BaseOut /\ session'.seq = s.seq
           /\ s.next # "ack" => NoAckOut
<1>1. CASE Encodes(s)
  <2> DEFINE p == NextPacket(s)
  <2>1. /\ session' = [s EXCEPT !.next = "none"] /\ toWqr' = p
        /\ service' = [v EXCEPT !.packet = p, !.waiting = TRUE]
    BY <1>1 DEF StartNextPacket
  <2>2. p \in FrameType /\ p.seq = s.seq /\ p.kind \in BaseKinds /\ (s.next # "ack" => p.kind # "baseAck")
    BY <1>1, PacketType DEF TypeInv, Encodes, BaseKinds
  <2> HIDE DEF p
  <2>3. /\ service'.packet = p /\ service'.waiting = TRUE /\ service'.status = "pending"
        /\ service'.recovering = FALSE /\ session'.seq = s.seq
    BY <2>1 DEF ServiceType, SessionType
  <2> QED
    BY <2>1, <2>2, <2>3 DEF BaseOut, NoAckOut, AckPending, Awaiting
<1>2. CASE ~Encodes(s)
  <2>1. session' = s /\ service' = [v EXCEPT !.waiting = FALSE] /\ toWqr' = NoFrame
    BY <1>2 DEF StartNextPacket
  <2>2. service'.waiting = FALSE /\ service'.recovering = FALSE /\ service'.status = "pending"
    BY <2>1 DEF ServiceType
  <2> QED
    BY <2>1, <2>2, SmallTypes DEF BaseOut, NoAckOut, AckPending, Awaiting
<1> QED
  BY <1>1, <1>2

LEMMA RejectEffect ==
    ASSUME TypeInv, Call > 0, toWqr = NoFrame, NEW s \in SessionType, NEW framing \in BOOLEAN,
           service.status = "pending", ~service.recovering, Reject(s, framing)
    PROVE  BaseOut /\ NoAckOut /\ session'.seq = s.seq
<1> DEFINE v == [CountAttempt(service) EXCEPT !.waiting = FALSE]
           resync == [s EXCEPT !.next = "nak"]
<1>1. /\ v \in ServiceType /\ v.status = "pending" /\ ~v.recovering /\ v.waiting = FALSE
  BY CountType DEF TypeInv, ServiceType
<1>2. /\ resync \in SessionType /\ resync.seq = s.seq /\ resync.next = "nak" /\ Encodes(resync)
  BY DEF SessionType, Encodes
<1>3. CASE framing
  <2> DEFINE p == NextPacket(resync)
  <2>1. p \in FrameType /\ p.seq = s.seq /\ p.kind = "baseNak"
    BY <1>2, PacketType DEF TypeInv
  <2>2. /\ session' = [s EXCEPT !.next = "none"] /\ toWqr' = NoFrame
        /\ service' = [v EXCEPT !.packet = p, !.recovering = Resumes(v),
                                !.status = IF Spent(v.attempts) THEN "failed" ELSE @]
    BY <1>3 DEF Reject
  <2> HIDE DEF p, v
  <2>3. /\ service'.packet = p /\ service'.waiting = FALSE /\ service'.status \in {"pending", "failed"}
        /\ session'.seq = s.seq /\ (service'.recovering => service'.status = "pending")
    BY <1>1, <2>2 DEF ServiceType, SessionType, Resumes
  <2> QED
    BY <2>1, <2>2, <2>3, SmallTypes DEF BaseOut, NoAckOut, AckPending, Awaiting, BaseKinds
<1>4. CASE ~framing /\ Spent(v.attempts)
  <2>1. /\ session' = resync /\ service' = [v EXCEPT !.status = "failed"] /\ toWqr' = NoFrame
    BY <1>4 DEF Reject
  <2> HIDE DEF v
  <2>2. service'.status = "failed" /\ ~service'.recovering
    BY <1>1, <2>1 DEF ServiceType
  <2> QED
    BY <1>2, <2>1, <2>2, SmallTypes DEF BaseOut, NoAckOut, AckPending, Awaiting
<1>5. CASE ~framing /\ ~Spent(v.attempts)
  <2>1. StartNextPacket(resync, v)
    BY <1>5 DEF Reject
  <2> HIDE DEF v
  <2> QED
    BY <1>1, <1>2, <2>1, StartNextEffect
<1> QED
  BY <1>3, <1>4, <1>5

LEMMA CompleteEffect ==
    ASSUME TypeInv, toWqr = NoFrame, NEW s \in SessionType, NEW type, Complete(s, type), ~service.recovering
    PROVE  BaseOut /\ NoAckOut /\ session'.seq = s.seq
<1>1. session' = Finished(s) /\ toWqr' = NoFrame
  BY DEF Complete
<1>2. service'.waiting = FALSE /\ service'.recovering = service.recovering
  BY DEF Complete, TypeInv, ServiceType
<1> QED
  BY <1>1, <1>2, FinishedType, SmallTypes DEF BaseOut, NoAckOut, AckPending, Awaiting

\* What taking a frame does to the base.
LEMMA TakeEffects ==
    ASSUME TypeInv, LineInv, TakeNak \/ TakeAck \/ TakeDamaged \/ TakeAnswer
    PROVE  /\ BaseOut /\ toBase' = NoFrame /\ UNCHANGED <<wqr, due>> /\ toWqr = NoFrame /\ ~due
           /\ service.status = "pending" /\ service.waiting
           /\ TakeNak \/ TakeDamaged => session'.seq = session.seq /\ NoAckOut
           /\ TakeAck => session'.seq = Inc(session.seq) /\ NoAckOut /\ toBase.kind = "wqrAck"
           /\ TakeAnswer => session'.seq = Inc(session.seq) /\ toBase.kind = "answer"
<1>1. session \in SessionType /\ service \in ServiceType /\ session.seq \in Seqs
  BY DEF TypeInv, SessionType
<1>2. CASE TakeNak
  <2> DEFINE s == [session EXCEPT !.next = IF Ahead(toBase.seq) THEN "nak" ELSE "data"]
  <2>1. Takes("wqrNak") /\ StartNextPacket(s, service)
    BY <1>2 DEF TakeNak
  <2>2. s \in SessionType /\ s.seq = session.seq /\ s.next # "ack"
    BY <1>1 DEF SessionType
  <2> HIDE DEF s
  <2>3. toBase.kind = "wqrNak"
    BY <2>1 DEF Takes
  <2> QED
    BY <1>1, <1>2, <2>1, <2>2, <2>3, Quiet, Taken, StartNextEffect DEF TakeAck, TakeDamaged, TakeAnswer, Takes
<1>3. CASE TakeAck
  <2> DEFINE offset == IF session.offset < Request.parts THEN session.offset + 1 ELSE session.offset
             s == [session EXCEPT !.seq = Inc(@), !.offset = offset,
                                  !.next = IF offset < Request.parts THEN "data" ELSE "nak"]
  <2>1. Takes("wqrAck") /\ StartNextPacket(s, service)
    BY <1>3 DEF TakeAck
  <2>2. session.offset \in 0 .. MaxParts
    BY <1>1 DEF SessionType
  <2>3. offset \in 0 .. MaxParts
    BY <2>1, <2>2, Taken, RequestTypes, SmallTypes
  <2>4. s \in SessionType /\ s.seq = Inc(session.seq) /\ s.next # "ack"
    BY <1>1, <2>3, IncValue DEF SessionType
  <2> HIDE DEF s
  <2>5. toBase.kind = "wqrAck"
    BY <2>1 DEF Takes
  <2> QED
    BY <1>1, <1>3, <2>1, <2>4, <2>5, Quiet, Taken, StartNextEffect DEF TakeNak, TakeDamaged, TakeAnswer, Takes
<1>4. CASE TakeDamaged
  <2>1. PICK framing \in BOOLEAN : Reject(session, framing)
    BY <1>4 DEF TakeDamaged
  <2>2. Takes("damaged") /\ toBase.kind = "damaged"
    BY <1>4 DEF TakeDamaged, Takes
  <2> QED
    BY <1>1, <1>4, <2>1, <2>2, Quiet, Taken, RejectEffect DEF TakeNak, TakeAck, TakeAnswer, Takes
<1>5. CASE TakeAnswer
  <2>1. Takes("answer") /\ toBase.kind = "answer"
    BY <1>5 DEF TakeAnswer, Takes
  <2>2. PICK x \in SessionType :
          /\ x.seq = Inc(session.seq)
          /\ \/ Reject(x, FALSE)
             \/ StartNextPacket(x, service)
             \/ Complete(x, toBase.type)
    BY <1>5, AnswerOutcomes
  <2>3. BaseOut /\ session'.seq = x.seq
    BY <1>1, <2>1, <2>2, Quiet, Taken, StartNextEffect, RejectEffect, CompleteEffect
  <2> QED
    BY <1>5, <2>1, <2>2, <2>3, Quiet DEF TakeNak, TakeAck, TakeDamaged, Takes
<1> QED
  BY <1>2, <1>3, <1>4, <1>5

LEMMA TakeLine ==
    ASSUME TypeInv, LineInv, TakeNak \/ TakeAck \/ TakeDamaged \/ TakeAnswer
    PROVE  LineInv'
<1>1. /\ BaseOut /\ toBase' = NoFrame /\ wqr' = wqr /\ due' = due /\ ~due
  BY TakeEffects
<1>2. Turns'
  BY <1>1 DEF LineInv, Turns, BaseOut
<1>3. Kinds'
  BY <1>1, SmallTypes DEF LineInv, Kinds, BaseOut, BaseKinds, Awaiting
<1>4. Modes'
  BY <1>1 DEF LineInv, Modes, Engaged
<1> QED
  BY <1>2, <1>3, <1>4 DEF LineInv

LEMMA StartEffect ==
    ASSUME TypeInv, NEW r \in env.requests, Start(r)
    PROVE  /\ toWqr = NoFrame /\ toBase' = NoFrame /\ UNCHANGED <<wqr, due, toBase>>
           /\ session'.seq = session.seq /\ service.status = "idle"
           /\ service'.recovering = FALSE /\ service'.status \in {"pending", "failed"}
           /\ service'.packet.kind = "request" /\ service'.packet.seq = session.seq
           /\ \/ toWqr' = NoFrame /\ service'.status = "failed"
              \/ toWqr' = service'.packet
<1> DEFINE f == RequestFrame(Call + 1, r, session.seq, 0)
<1>1. f.kind = "request" /\ f.seq = session.seq
  BY DEF RequestFrame
<1>2. session' = [session EXCEPT !.offset = 0, !.next = "none"] /\ session \in SessionType
  BY DEF Start, TypeInv
<1>3. /\ toWqr = NoFrame /\ toBase = NoFrame /\ UNCHANGED <<wqr, due, toBase>> /\ service.status = "idle"
      /\ \/ /\ service' = [IdleService EXCEPT !.status = "failed", !.packet = f]
            /\ toWqr' = toWqr
         \/ /\ service' = [IdleService EXCEPT !.status = "pending", !.packet = f, !.waiting = TRUE]
            /\ toWqr' = f
  BY DEF Start, board
<1> HIDE DEF f
<1>4. /\ service'.recovering = FALSE /\ service'.packet = f
      /\ \/ service'.status = "failed" /\ toWqr' = NoFrame
         \/ service'.status = "pending" /\ toWqr' = f
  BY <1>3 DEF IdleService
<1> QED
  BY <1>1, <1>2, <1>3, <1>4 DEF SessionType

LEMMA StartLine == ASSUME TypeInv, LineInv, NEW r \in env.requests, Start(r) PROVE LineInv'
<1> USE StartEffect
<1>1. Turns'
  BY DEF LineInv, Turns
<1>2. Kinds'
  BY SmallTypes DEF LineInv, Kinds, Awaiting, BaseKinds
<1>3. Modes'
  BY DEF LineInv, Modes, Engaged
<1> QED
  BY <1>1, <1>2, <1>3 DEF LineInv

LEMMA RunRecoveringLine == ASSUME TypeInv, LineInv, RunRecovering PROVE LineInv'
<1>1. /\ toWqr' = service.packet /\ service' = [service EXCEPT !.recovering = FALSE, !.waiting = TRUE]
      /\ UNCHANGED <<session, toBase, wqr, due>> /\ service.recovering
  BY DEF RunRecovering, board
<1>2. /\ service'.recovering = FALSE /\ service'.packet = service.packet /\ service'.status = service.status
  BY <1>1 DEF TypeInv, ServiceType
<1>3. Turns'
  BY <1>1, <1>2 DEF LineInv, Turns
<1>4. Kinds'
  BY <1>1, <1>2 DEF LineInv, Kinds, Awaiting
<1>5. Modes'
  BY <1>1 DEF LineInv, Modes, Engaged
<1> QED
  BY <1>3, <1>4, <1>5 DEF LineInv

LEMMA TimeoutEffect ==
    ASSUME TypeInv, LineInv, Timeout
    PROVE  /\ Awaiting /\ toWqr = NoFrame /\ toBase = NoFrame /\ UNCHANGED <<session, toBase, wqr, due>>
           /\ service'.recovering = FALSE /\ service'.packet = service.packet
           /\ \/ service'.status = "failed" /\ toWqr' = NoFrame
              \/ /\ service'.status = "pending" /\ service'.waiting /\ toWqr' = service.packet
                 /\ ~due \/ wqr.work
<1> DEFINE v == CountAttempt(service)
<1>1. /\ Awaiting /\ toWqr = NoFrame /\ toBase = NoFrame /\ UNCHANGED <<session, toBase, wqr, due>>
      /\ \/ service' = [v EXCEPT !.waiting = FALSE, !.status = "failed"] /\ toWqr' = toWqr
         \/ service' = v /\ toWqr' = service.packet
  BY DEF Timeout, Awaiting, board
<1>2. ~due \/ wqr.work
  BY DEF Timeout, PeripheralSlow, LineInv, Modes
<1>3. /\ v \in ServiceType /\ v.packet = service.packet /\ v.status = "pending" /\ v.waiting
      /\ v.recovering = FALSE
  BY <1>1, CountType DEF TypeInv, ServiceType, LineInv, Turns, Awaiting
<1> HIDE DEF v
<1> QED
  BY <1>1, <1>2, <1>3 DEF ServiceType

LEMMA TimeoutLine == ASSUME TypeInv, LineInv, Timeout PROVE LineInv'
<1> USE TimeoutEffect
<1>1. Turns'
  BY DEF LineInv, Turns
<1>2. Kinds'
  BY SmallTypes DEF LineInv, Kinds, Awaiting
<1>3. Modes'
  BY DEF LineInv, Modes, Engaged
<1> QED
  BY <1>1, <1>2, <1>3 DEF LineInv

LEMMA EndingEffect ==
    ASSUME TypeInv, Release \/ Cancel
    PROVE  /\ service'.status = "idle" /\ service'.recovering = FALSE /\ session'.seq = session.seq
           /\ UNCHANGED <<toBase, wqr, due>>
           /\ toWqr' = toWqr \/ (toWqr # NoFrame /\ toWqr' = Damaged)
<1>1. service' = IdleService /\ session' = Finished(session) /\ UNCHANGED <<toBase, wqr, due>>
  BY DEF Release, Cancel, line, board
<1>2. toWqr' = toWqr \/ (toWqr # NoFrame /\ toWqr' = Damaged)
  BY DEF Release, Cancel, line
<1> QED
  BY <1>1, <1>2, FinishedType DEF IdleService, TypeInv

LEMMA EndingLine == ASSUME TypeInv, LineInv, Release \/ Cancel PROVE LineInv'
<1> USE EndingEffect
<1>1. Turns'
  <2>1. toBase' # NoFrame => toWqr' = NoFrame /\ ~due'
    BY DEF LineInv, Turns
  <2>2. ~due' => wqr'.control = NoFrame
    BY DEF LineInv, Turns
  <2> QED
    BY <2>1, <2>2 DEF Turns
<1>2. Kinds'
  BY SmallTypes DEF LineInv, Kinds, Awaiting
<1>3. Modes'
  BY DEF LineInv, Modes, Engaged
<1> QED
  BY <1>1, <1>2, <1>3 DEF LineInv

\* What is lost or damaged was under way.
LEMMA LossEffect ==
    ASSUME TypeInv, LineInv, Lose \/ Damage
    PROVE  /\ UNCHANGED <<service, session, wqr, due>> /\ env' = env
           /\ \/ toWqr # NoFrame /\ toWqr' \in {NoFrame, Damaged} /\ toBase' = toBase
              \/ /\ toBase # NoFrame /\ toBase' \in {NoFrame, Damaged} /\ toWqr' = toWqr
                 /\ toBase' = NoFrame => Class(toBase) \in env.losable
<1>1. env.losable \subseteq Frames /\ env.damageable \subseteq Frames
  BY SerialAssumption DEF TypeInv
<1>2. Class(NoFrame) \notin Frames
  BY SmallTypes DEF Class, Frames
<1>3. UNCHANGED <<service, session, wqr, due>> /\ env' = env
  BY DEF Lose, Damage, Happens, base, board
<1>4. CASE Lose
  BY <1>1, <1>2, <1>3, <1>4 DEF Lose
<1>5. CASE Damage
  BY <1>1, <1>2, <1>3, <1>5, SmallTypes DEF Damage
<1> QED
  BY <1>4, <1>5

LEMMA LossLine == ASSUME TypeInv, LineInv, Lose \/ Damage PROVE LineInv'
<1> USE LossEffect
<1>1. Turns'
  BY DEF LineInv, Turns
<1>2. Kinds'
  BY SmallTypes DEF LineInv, Kinds, Awaiting
<1>3. Modes'
  BY DEF LineInv, Modes, Engaged
<1> QED
  BY <1>1, <1>2, <1>3 DEF LineInv

LEMMA DeafLine == ASSUME TypeInv, LineInv, WqrDeaf \/ BaseDeaf \/ HoldEnds PROVE LineInv'
<1>1. /\ UNCHANGED <<service, session, wqr, due>>
      /\ \/ toWqr' = NoFrame /\ toBase' = toBase
         \/ toBase' = NoFrame /\ toWqr' = toWqr
         \/ toBase' = toBase /\ toWqr' = toWqr
  BY DEF WqrDeaf, BaseDeaf, HoldEnds, base, board, line
<1>2. Turns'
  BY <1>1 DEF LineInv, Turns
<1>3. Kinds'
  BY <1>1, SmallTypes DEF LineInv, Kinds, Awaiting
<1>4. Modes'
  BY <1>1 DEF LineInv, Modes, Engaged
<1> QED
  BY <1>2, <1>3, <1>4 DEF LineInv

\* What the board makes of a frame it hears.
LEMMA HearOutcomes ==
    ASSUME TypeInv, LineInv, WqrReceive
    PROVE  \/ wqr' = Nak(wqr)
           \/ wqr' = wqr /\ toWqr.kind = "baseNak" /\ Earlier(wqr, toWqr.seq)
           \/ wqr' = wqr /\ toWqr.kind = "request" /\ RepeatedRequest(wqr, toWqr)
           \/ wqr' = Ack(wqr) /\ toWqr.kind = "request" /\ RepeatedFragment(wqr, toWqr)
           \/ /\ wqr.ready /\ wqr.offset + 1 < Len(wqr.answer) /\ toWqr.kind = "baseAck"
              /\ wqr' = [wqr EXCEPT !.offset = @ + 1, !.seq = Inc(@)]
           \/ /\ wqr.ready /\ toWqr.kind = "baseAck"
              /\ wqr' = [wqr EXCEPT !.ready = FALSE, !.offset = 0, !.request = NoFrame, !.seq = Inc(@)]
           \/ /\ toWqr.kind = "request"
              /\ wqr' = Nak([wqr EXCEPT !.received = << >>, !.open = FALSE])
           \/ /\ toWqr.kind = "request"
              /\ \E x \in Seq(Piece) :
                    wqr' = Ack([wqr EXCEPT !.received = x, !.type = toWqr.type, !.seq = Inc(toWqr.seq),
                                           !.open = TRUE, !.fragment = toWqr])
           \/ /\ toWqr.kind = "request"
              /\ \E x \in Seq(Piece) :
                    wqr' = [wqr EXCEPT !.received = x, !.type = toWqr.type, !.seq = Inc(toWqr.seq),
                                       !.open = FALSE, !.fragment = NoFrame, !.offset = 0, !.ready = FALSE,
                                       !.work = TRUE, !.request = toWqr]
<1>1. wqr' = Hear(wqr, toWqr) /\ toWqr # NoFrame /\ toWqr \in FrameType /\ WqrOK(wqr)
  BY DEF WqrReceive, TypeInv
<1>2. toWqr.kind = "damaged" \/ toWqr.kind \in BaseKinds
  BY <1>1, SmallTypes DEF LineInv, Kinds
<1>3. CASE toWqr.kind = "damaged"
  BY <1>1, <1>3 DEF Hear
<1>4. CASE toWqr.kind = "baseNak"
  <2>1. wqr' = HearNak(wqr, toWqr)
    BY <1>1, <1>4 DEF Hear
  <2> QED
    BY <1>4, <2>1 DEF HearNak
<1>5. CASE toWqr.kind = "baseAck"
  <2>1. wqr' = HearAck(wqr)
    BY <1>1, <1>5 DEF Hear
  <2> QED
    BY <1>5, <2>1 DEF HearAck
<1>6. CASE toWqr.kind = "request"
  <2>1. CASE RepeatedFragment(wqr, toWqr)
    <3>1. wqr' = Ack(wqr)
      BY <1>1, <1>6, <2>1 DEF Hear
    <3> QED
      BY <1>6, <2>1, <3>1
  <2>2. CASE ~RepeatedFragment(wqr, toWqr) /\ RepeatedRequest(wqr, toWqr)
    <3>1. wqr' = wqr
      BY <1>1, <1>6, <2>2 DEF Hear
    <3> QED
      BY <1>6, <2>2, <3>1
  <2>3. CASE ~RepeatedFragment(wqr, toWqr) /\ ~RepeatedRequest(wqr, toWqr)
    <3>1. wqr' = HearRequest(wqr, toWqr)
      BY <1>1, <1>6, <2>3 DEF Hear
    <3>2. \/ wqr' = Nak([wqr EXCEPT !.received = << >>, !.open = FALSE])
          \/ \E x \in Seq(Piece) :
                \/ wqr' = Ack([wqr EXCEPT !.received = x, !.type = toWqr.type, !.seq = Inc(toWqr.seq),
                                          !.open = TRUE, !.fragment = toWqr])
                \/ wqr' = [wqr EXCEPT !.received = x, !.type = toWqr.type, !.seq = Inc(toWqr.seq),
                                      !.open = FALSE, !.fragment = NoFrame, !.offset = 0, !.ready = FALSE,
                                      !.work = TRUE, !.request = toWqr]
      BY <1>1, <3>1, RequestOutcomes
    <3> QED
      BY <1>6, <3>2
  <2> QED
    BY <2>1, <2>2, <2>3
<1> QED
  BY <1>2, <1>3, <1>4, <1>5, <1>6 DEF BaseKinds

\* The same, field by field, of what the line depends on.
LEMMA HearFields ==
    ASSUME TypeInv, LineInv, WqrReceive
    PROVE  /\ wqr'.sent = wqr.sent /\ wqr'.active = wqr.active /\ wqr'.answer = wqr.answer
           /\ wqr'.control = NoFrame \/ wqr'.control.kind \in {"wqrAck", "wqrNak"}
           /\ wqr'.work => /\ wqr'.control = NoFrame /\ ~wqr'.ready /\ ~wqr'.open /\ wqr'.offset = 0
           /\ wqr'.ready => wqr.ready
           /\ wqr'.open => wqr.open \/ wqr'.control # NoFrame
<1>1. ~due /\ wqr.control = NoFrame /\ ~wqr.work /\ wqr \in WqrType /\ wqr.seq \in Seqs
  BY DEF WqrReceive, LineInv, Turns, Modes, TypeInv, WqrOK, WqrType
<1>2. /\ Control("wqrNak", wqr.seq).kind = "wqrNak" /\ Control("wqrAck", wqr.seq).kind = "wqrAck"
  BY DEF Control
<1>3. \A s : Control("wqrAck", s).kind = "wqrAck" /\ Control("wqrAck", s) # NoFrame
  BY DEF Control, NoFrame
<1>4. CASE wqr' \in {wqr, Nak(wqr), Ack(wqr)}
  BY <1>1, <1>2, <1>4 DEF Nak, Ack, WqrType
<1>5. CASE wqr' = [wqr EXCEPT !.offset = @ + 1, !.seq = Inc(@)] /\ wqr.ready
  BY <1>1, <1>5 DEF WqrType
<1>6. CASE wqr' = [wqr EXCEPT !.ready = FALSE, !.offset = 0, !.request = NoFrame, !.seq = Inc(@)]
  BY <1>1, <1>6 DEF WqrType
<1>7. CASE wqr' = Nak([wqr EXCEPT !.received = << >>, !.open = FALSE])
  BY <1>1, <1>2, <1>7 DEF Nak, WqrType
<1>8. ASSUME NEW x \in Seq(Piece),
             wqr' = Ack([wqr EXCEPT !.received = x, !.type = toWqr.type, !.seq = Inc(toWqr.seq),
                                    !.open = TRUE, !.fragment = toWqr])
      PROVE  /\ wqr'.sent = wqr.sent /\ wqr'.active = wqr.active /\ wqr'.answer = wqr.answer
             /\ wqr'.control.kind = "wqrAck" /\ wqr'.control # NoFrame /\ wqr'.work = wqr.work
             /\ wqr'.ready = wqr.ready
  BY <1>1, <1>3, <1>8 DEF Ack, WqrType
<1>9. ASSUME NEW x \in Seq(Piece),
             wqr' = [wqr EXCEPT !.received = x, !.type = toWqr.type, !.seq = Inc(toWqr.seq),
                                !.open = FALSE, !.fragment = NoFrame, !.offset = 0, !.ready = FALSE,
                                !.work = TRUE, !.request = toWqr]
      PROVE  /\ wqr'.sent = wqr.sent /\ wqr'.active = wqr.active /\ wqr'.answer = wqr.answer
             /\ wqr'.control = wqr.control /\ ~wqr'.ready /\ ~wqr'.open /\ wqr'.offset = 0
  BY <1>1, <1>9 DEF WqrType
<1> QED
  BY <1>1, <1>4, <1>5, <1>6, <1>7, <1>8, <1>9, HearOutcomes

LEMMA BoardLine ==
    ASSUME TypeInv, LineInv, UNCHANGED <<service, session>>, toWqr' \in {toWqr, NoFrame}, Turns', Modes',
           toBase'.kind \in {"none", "damaged", "answer", "wqrAck", "wqrNak"},
           wqr'.control.kind \in {"none", "wqrAck", "wqrNak"}
    PROVE  LineInv'
<1>1. Kinds'
  BY DEF LineInv, Kinds, Awaiting
<1> QED
  BY <1>1 DEF LineInv

LEMMA WqrReceiveLine == ASSUME TypeInv, LineInv, WqrReceive PROVE LineInv'
<1>1. /\ toWqr # NoFrame /\ ~due /\ toWqr' = NoFrame /\ due' = TRUE
      /\ UNCHANGED <<service, session, toBase>>
  BY DEF WqrReceive, base
<1>2. toBase = NoFrame /\ ~wqr.work /\ ~wqr.active /\ ~service.recovering /\ service.status # "succeeded"
  BY <1>1 DEF LineInv, Turns, Modes
<1>3. Turns'
  BY <1>1, <1>2 DEF LineInv, Turns
<1>4. Modes'
  BY <1>1, <1>2, HearFields DEF LineInv, Modes, Engaged
<1> QED
  BY <1>1, <1>2, <1>3, <1>4, HearFields, BoardLine, SmallTypes

LEMMA PollLine == ASSUME TypeInv, LineInv, PollStatus \/ PollI2c PROVE LineInv'
<1>1. /\ UNCHANGED <<service, session, toWqr, toBase, due>> /\ wqr.work /\ wqr \in WqrType
  BY DEF PollStatus, PollI2c, base, line, TypeInv, WqrOK
<1>2. \/ wqr' = wqr
      \/ wqr' = [wqr EXCEPT !.active = TRUE]
      \/ \E c \in 0 .. MaxCalls, n \in 1 .. MaxParts : wqr' = Answered(wqr, Pieces(c, n))
  <2>1. CASE PollStatus
    <3>1. Understood(wqr.received) \in 0 .. MaxCalls /\ Understood(wqr.received) <= Call
      BY <1>1, UnderstoodType
    <3>2. Understood(wqr.received) # 0 => requests[Understood(wqr.received)] \in Requests
      BY <3>1, CurrentRequest, SmallTypes DEF TypeInv
    <3> DEFINE c == Understood(wqr.received)
               n == IF c = 0 THEN 1 ELSE requests[c].answers
    <3>3. wqr' = Answered(wqr, Pieces(c, n))
      BY <2>1 DEF PollStatus
    <3>4. n \in 1 .. MaxParts
      BY <3>2, RequestTypes, SmallTypes
    <3> QED
      BY <3>1, <3>3, <3>4
  <2>2. CASE PollI2c /\ driver.state \in {"idle", "busy"}
    BY <2>2 DEF PollI2c
  <2>3. CASE PollI2c /\ driver.state \in {"done", "failed"}
    <3> DEFINE d == HeaderWritten(driver)
               n == IF d.state = "failed" \/ d.call = 0 THEN 1 ELSE requests[d.call].answers
               c == IF d.clean THEN d.call ELSE 0
    <3>1. wqr' = Answered(wqr, Pieces(c, n))
      BY <2>3 DEF PollI2c
    <3>2. driver \in DriverType /\ d.call = driver.call
      BY DEF HeaderWritten, TypeInv, DriverType
    <3>3. driver.call \in 0 .. MaxCalls /\ driver.call <= Call /\ Call \in Nat
      BY <3>2, CurrentRequest DEF DriverType, TypeInv
    <3>4. driver.call # 0 => requests[driver.call] \in Requests
      BY <3>3, CurrentRequest DEF TypeInv
    <3>5. n \in 1 .. MaxParts /\ c \in 0 .. MaxCalls
      BY <3>2, <3>3, <3>4, RequestTypes, SmallTypes
    <3> QED
      BY <3>1, <3>5
  <2> QED
    BY <2>1, <2>2, <2>3 DEF PollStatus, PollI2c, TypeInv, DriverType
<1>3. due /\ wqr.control = NoFrame /\ ~wqr.ready /\ ~wqr.open /\ wqr.offset = 0
  BY <1>1 DEF LineInv, Modes
<1>4. /\ wqr'.control = NoFrame /\ ~wqr'.open /\ wqr'.offset = 0 /\ wqr'.sent = wqr.sent
      /\ ~wqr'.ready => wqr'.work
      /\ wqr'.ready => /\ ~wqr'.work /\ ~wqr'.active
                       /\ \A p \in 1 .. Len(wqr'.answer) : wqr'.answer[p].part = p
  <2>1. CASE wqr' \in {wqr, [wqr EXCEPT !.active = TRUE]}
    BY <1>1, <1>3, <2>1 DEF WqrType
  <2>2. CASE \E c \in 0 .. MaxCalls, n \in 1 .. MaxParts : wqr' = Answered(wqr, Pieces(c, n))
    <3>1. PICK c \in 0 .. MaxCalls, n \in 1 .. MaxParts : wqr' = Answered(wqr, Pieces(c, n))
      BY <2>2
    <3>2. /\ wqr'.control = NoFrame /\ wqr'.open = wqr.open /\ wqr'.offset = 0 /\ wqr'.sent = wqr.sent
          /\ wqr'.ready = TRUE /\ wqr'.work = FALSE /\ wqr'.active = FALSE /\ wqr'.answer = Pieces(c, n)
      BY <1>1, <1>3, <3>1 DEF Answered, WqrType
    <3> QED
      BY <1>3, <3>2, PiecesType
  <2> QED
    BY <1>2, <2>1, <2>2
<1>5. Turns'
  BY <1>1, <1>3, <1>4 DEF LineInv, Turns
<1>6. Modes'
  BY <1>1, <1>3, <1>4 DEF LineInv, Modes, Engaged
<1> QED
  BY <1>1, <1>4, <1>5, <1>6, BoardLine, SmallTypes DEF LineInv, Kinds

LEMMA WqrRespondLine == ASSUME TypeInv, LineInv, WqrRespond PROVE LineInv'
<1>1. /\ toWqr' = NoFrame /\ wqr' = [wqr EXCEPT !.control = NoFrame, !.sent = TRUE] /\ due' = FALSE /\ due
      /\ toBase' \in {WqrFrame(wqr), NoFrame, Damaged} /\ UNCHANGED <<service, session>>
  BY DEF WqrRespond, base
<1>2. wqr.control # NoFrame \/ wqr.ready
  BY DEF WqrRespond
<1>3. wqr \in WqrType
  BY DEF TypeInv, WqrOK
<1>4. WqrFrame(wqr).kind \in {"none", "answer", "wqrAck", "wqrNak"}
  BY DEF WqrFrame, LineInv, Kinds
<1>5. ~wqr.work
  BY <1>2 DEF LineInv, Modes
<1>6. /\ wqr'.control = NoFrame /\ wqr'.sent = TRUE /\ wqr'.work = wqr.work /\ wqr'.active = wqr.active
      /\ wqr'.ready = wqr.ready /\ wqr'.answer = wqr.answer
  BY <1>1, <1>3 DEF WqrType
<1>7. Turns'
  BY <1>1, <1>6 DEF LineInv, Turns
<1>8. Modes'
  BY <1>5, <1>6 DEF LineInv, Modes
<1> QED
  BY <1>1, <1>4, <1>6, <1>7, <1>8, BoardLine, SmallTypes

LEMMA WqrSilentLine == ASSUME TypeInv, LineInv, WqrSilent PROVE LineInv'
<1>1. due' = FALSE /\ UNCHANGED <<service, session, toWqr, toBase, wqr>> /\ due /\ ~Expected(wqr)
  BY DEF WqrSilent, base, line
<1>2. wqr.control = NoFrame /\ ~wqr.work /\ ~wqr.active /\ ~wqr.ready
  BY <1>1 DEF Expected
<1>3. Turns'
  BY <1>1, <1>2 DEF LineInv, Turns
<1>4. Modes'
  BY <1>1, <1>2 DEF LineInv, Modes, Engaged
<1> QED
  BY <1>1, <1>3, <1>4, BoardLine DEF LineInv, Kinds

LEMMA UpsetLine == ASSUME TypeInv, LineInv, Restart \/ Detach PROVE LineInv'
<1>1. UNCHANGED <<service, session, toWqr, toBase>>
  BY DEF Restart, Detach, base, line
<1>2. CASE Restart
  <2>1. wqr' = InitWqr /\ due' = FALSE
    BY <1>2 DEF Restart
  <2>2. Turns'
    BY <1>1, <2>1 DEF LineInv, Turns, InitWqr
  <2>3. Modes'
    BY <2>1 DEF Modes, Engaged, InitWqr
  <2>4. wqr'.control = NoFrame
    BY <2>1 DEF InitWqr
  <2> QED
    BY <1>1, <2>2, <2>3, <2>4, BoardLine, SmallTypes DEF LineInv, Kinds
<1>3. CASE Detach
  <2>1. /\ wqr' = [wqr EXCEPT !.received = << >>, !.open = FALSE, !.work = FALSE,
                               !.active = FALSE, !.fragment = NoFrame, !.request = NoFrame]
        /\ due' = due
    BY <1>3 DEF Detach
  <2>2. wqr \in WqrType
    BY DEF TypeInv, WqrOK
  <2>3. /\ ~wqr'.open /\ ~wqr'.work /\ ~wqr'.active /\ wqr'.control = wqr.control /\ wqr'.ready = wqr.ready
        /\ wqr'.answer = wqr.answer /\ wqr'.sent = wqr.sent
    BY <2>1, <2>2 DEF WqrType
  <2>4. Turns'
    BY <1>1, <2>1, <2>3 DEF LineInv, Turns
  <2>5. Modes'
    BY <2>1, <2>3 DEF LineInv, Modes, Engaged
  <2> QED
    BY <1>1, <2>3, <2>4, <2>5, BoardLine DEF LineInv, Kinds
<1> QED
  BY <1>2, <1>3

LEMMA SameLine ==
    ASSUME TypeInv, LineInv, UNCHANGED <<service, session, toWqr, toBase, wqr, due>>
    PROVE  LineInv'
BY DEF LineInv, Turns, Kinds, Modes, Awaiting, Engaged

LEMMA LineStart == Init => LineInv
<1> SUFFICES ASSUME Init PROVE LineInv
  OBVIOUS
<1>1. /\ toWqr = NoFrame /\ toBase = NoFrame /\ due = FALSE /\ wqr = InitWqr /\ service = IdleService
  BY DEF Init
<1> QED
  BY <1>1, SmallTypes DEF LineInv, Turns, Kinds, Modes, Awaiting, Engaged, InitWqr, IdleService

LEMMA LineStep == ASSUME TypeInv, LineInv, [Next]_vars PROVE LineInv'
<1>1. CASE UNCHANGED vars \/ DriverEnds
  BY <1>1, SameLine DEF vars, calls, base, board, line, DriverEnds
<1>2. CASE \E r \in env.requests : Start(r)
  BY <1>2, StartLine
<1>3. CASE BaseStep
  BY <1>3, TakeLine, RunRecoveringLine, TimeoutLine, DeafLine DEF BaseStep
<1>4. CASE BoardStep /\ ~DriverEnds
  BY <1>4, WqrReceiveLine, DeafLine, PollLine, WqrRespondLine, WqrSilentLine DEF BoardStep
<1>5. CASE Release \/ Cancel \/ Restart \/ Detach \/ Lose \/ Damage
  BY <1>5, EndingLine, UpsetLine, LossLine
<1> QED
  BY <1>1, <1>2, <1>3, <1>4, <1>5 DEF Next

LEMMA LineInvariant == Spec => [](TypeInv /\ LineInv)
<1>1. Init => TypeInv /\ LineInv
  BY TypeStart, LineStart
<1>2. TypeInv /\ LineInv /\ [Next]_vars => (TypeInv /\ LineInv)'
  BY TypeStep, LineStep
<1> QED
  BY <1>1, <1>2, PTL DEF Spec

\* Every reachable state is well typed, whatever the line loses and damages.
THEOREM TypeCorrect == Spec => []TypeOK
<1>1. TypeInv => TypeOK
  BY DEF TypeInv, TypeOK, ServiceType, SessionType, WqrOK, WqrType, DriverType, PerformedType, Seqs
<1> QED
  BY <1>1, LineInvariant, PTL

-----------------------------------------------------------------------------
(* The sequences *)

Plus(s, k) == IF s + k < SeqMod THEN s + k ELSE s + k - SeqMod

\* The board is one ahead of the base, or level with it.
InTurn == wqr.seq = Inc(session.seq)
Level == wqr.seq = session.seq

\* How far the board has come since the frame it remembers.
Memory ==
    /\ ~wqr.open /\ wqr.request # NoFrame /\ (wqr.work \/ wqr.ready) =>
          wqr.seq = Plus(wqr.request.seq, 1 + wqr.offset)
    /\ wqr.open /\ wqr.fragment # NoFrame =>
          \E k \in 0 .. MaxParts : /\ wqr.seq = Plus(wqr.fragment.seq, 1 + k)
                                   /\ wqr.ready => k <= wqr.offset

\* A board that is engaged is level or one ahead, and one ahead when it answers.
Counts ==
    /\ Engaged => InTurn \/ Level
    /\ due /\ wqr.control.kind = "wqrAck" => InTurn
    /\ due /\ wqr.control = NoFrame /\ (wqr.work \/ wqr.ready) => InTurn
    /\ toBase.kind \in {"answer", "wqrAck"} /\ wqr.sent => InTurn

\* The board moves its answer on for any acknowledgement, so none may arrive twice: the base sends
\* one again only as long as the first has not been heard.
Acks ==
    /\ toWqr.kind = "baseAck" => ~due /\ (wqr.ready => Level)
    /\ AckPending /\ toWqr # NoFrame => ~due
    /\ AckPending => ~wqr.work
    /\ AckPending /\ wqr.ready => \/ Level
                                  \/ InTurn /\ due /\ wqr.control = NoFrame /\ wqr.offset > 0
                                  \/ InTurn /\ toBase.kind = "damaged"
                                  \/ InTurn /\ toBase.kind = "answer" /\ toBase.piece.part > 1

CountInv == Memory /\ Counts /\ Acks

\* What upsets the count.  The line loses a later part of an answer: the base repeats its
\* acknowledgement, and the board takes it for the next one.  The board refuses a fragment of a
\* message it has begun while the answer to the one before is still ready: it falls back on the
\* request it remembers, whose number the base may reach again.
PartLost == Lose /\ toBase.kind = "answer" /\ toBase.piece.part > 1 /\ toBase' = NoFrame
Refuses == /\ WqrReceive /\ wqr.ready /\ wqr.request # NoFrame
           /\ wqr.open /\ ~wqr'.open /\ ~wqr'.work
Undisturbed == ~PartLost /\ ~Refuses

LEMMA PlusValue ==
    ASSUME NEW s \in Seqs, NEW k \in Nat, k < SeqMod
    PROVE  /\ Plus(s, k) \in Seqs /\ Plus(s, 1) = Inc(s)
           /\ k > 0 => Plus(s, k) # s
           /\ k + 1 < SeqMod => Plus(s, k + 1) = Inc(Plus(s, k))
<1>1. SeqMod \in Nat /\ SeqMod > 1 /\ s \in Nat /\ s < SeqMod /\ 0 <= s
  BY SerialAssumption DEF Seqs
<1>2. Plus(s, k) \in Seqs
  BY <1>1 DEF Plus, Seqs
<1>3. Plus(s, 1) = Inc(s)
  BY <1>1, IncValue DEF Plus
<1>4. k > 0 => Plus(s, k) # s
  BY <1>1 DEF Plus
<1>5. k + 1 < SeqMod => Plus(s, k + 1) = Inc(Plus(s, k))
  BY <1>1, <1>2, IncValue DEF Plus
<1> QED
  BY <1>2, <1>3, <1>4, <1>5

LEMMA IncMoves == ASSUME NEW s \in Seqs PROVE Inc(s) # s
BY IncValue, SerialAssumption DEF Seqs

\* A step that leaves the board and the base's sequence alone, and sends no acknowledgement.
LEMMA SameCount ==
    ASSUME CountInv, UNCHANGED <<wqr, due>>, session'.seq = session.seq, NoAckOut,
           toBase'.kind \in {"none", "damaged", toBase.kind}
    PROVE  CountInv'
<1>1. (InTurn' <=> InTurn) /\ (Level' <=> Level) /\ (Engaged' <=> Engaged)
  BY DEF InTurn, Level, Engaged
<1>2. Memory'
  BY DEF CountInv, Memory
<1>3. Counts'
  BY <1>1 DEF CountInv, Counts
<1>4. Acks'
  BY DEF Acks, NoAckOut
<1> QED
  BY <1>2, <1>3, <1>4 DEF CountInv

LEMMA TakeCount ==
    ASSUME TypeInv, LineInv, CountInv, TakeNak \/ TakeAck \/ TakeDamaged \/ TakeAnswer
    PROVE  CountInv'
<1>1. /\ BaseOut /\ toBase' = NoFrame /\ wqr' = wqr /\ due' = due /\ ~due /\ toWqr = NoFrame
  BY TakeEffects
<1>2. CASE TakeNak \/ TakeDamaged
  BY <1>1, <1>2, TakeEffects, SameCount, SmallTypes
<1>3. CASE TakeAck \/ TakeAnswer
  <2>1. session'.seq = Inc(session.seq) /\ toBase.kind \in {"answer", "wqrAck"}
    BY <1>3, TakeEffects
  <2>2. Engaged => wqr.sent
    BY <1>1 DEF LineInv, Modes
  <2>3. Engaged' => Level'
    BY <1>1, <2>1, <2>2 DEF CountInv, Counts, Engaged, InTurn, Level
  <2>4. Memory'
    BY <1>1 DEF CountInv, Memory
  <2>5. Counts'
    BY <1>1, <2>3, SmallTypes DEF Counts
  <2>6. Acks'
    BY <1>1, <2>3, TakeEffects, Quiet DEF Acks, Engaged, LineInv, Modes
  <2> QED
    BY <2>4, <2>5, <2>6 DEF CountInv
<1> QED
  BY <1>2, <1>3

LEMMA StartCount == ASSUME TypeInv, LineInv, CountInv, NEW r \in env.requests, Start(r) PROVE CountInv'
<1>1. NoAckOut
  BY StartEffect, SmallTypes DEF NoAckOut, AckPending, Awaiting
<1> QED
  BY <1>1, StartEffect, SameCount, SmallTypes

LEMMA RunRecoveringCount == ASSUME TypeInv, LineInv, CountInv, RunRecovering PROVE CountInv'
<1>1. /\ toWqr' = service.packet /\ service' = [service EXCEPT !.recovering = FALSE, !.waiting = TRUE]
      /\ UNCHANGED <<session, toBase, wqr, due>> /\ service.recovering
  BY DEF RunRecovering, board
<1>2. service'.packet = service.packet /\ service.packet.kind = "baseNak"
  BY <1>1 DEF TypeInv, ServiceType, LineInv, Kinds
<1>3. NoAckOut
  BY <1>1, <1>2 DEF NoAckOut, AckPending
<1> QED
  BY <1>1, <1>3, SameCount

\* The base repeats an acknowledgement only if the board has not heard it.
LEMMA TimeoutCount == ASSUME TypeInv, LineInv, CountInv, Timeout PROVE CountInv'
<1>1. /\ Awaiting /\ toWqr = NoFrame /\ toBase = NoFrame /\ UNCHANGED <<session, toBase, wqr, due>>
      /\ service'.packet = service.packet
      /\ \/ service'.status = "failed" /\ toWqr' = NoFrame
         \/ /\ service'.status = "pending" /\ toWqr' = service.packet
            /\ ~due \/ wqr.work
  BY TimeoutEffect
<1>2. CASE service.packet.kind # "baseAck" \/ service'.status = "failed"
  <2>1. NoAckOut
    BY <1>1, <1>2, SmallTypes DEF NoAckOut, AckPending, Awaiting
  <2> QED
    BY <1>1, <2>1, SameCount
<1>3. CASE service.packet.kind = "baseAck" /\ service'.status # "failed"
  <2>1. AckPending /\ ~wqr.work /\ ~due
    BY <1>1, <1>3 DEF AckPending, CountInv, Acks
  <2>2. wqr.ready => Level
    BY <1>1, <2>1, SmallTypes DEF CountInv, Acks
  <2>3. (InTurn' <=> InTurn) /\ (Level' <=> Level) /\ (Engaged' <=> Engaged)
    BY <1>1 DEF InTurn, Level, Engaged
  <2>4. Memory' /\ Counts'
    BY <1>1, <2>3 DEF CountInv, Memory, Counts
  <2>5. Acks'
    BY <1>1, <2>1, <2>2, <2>3 DEF Acks
  <2> QED
    BY <2>4, <2>5 DEF CountInv
<1> QED
  BY <1>2, <1>3

LEMMA EndingCount == ASSUME TypeInv, CountInv, Release \/ Cancel PROVE CountInv'
<1>1. /\ service'.status = "idle" /\ session'.seq = session.seq /\ UNCHANGED <<toBase, wqr, due>>
      /\ toWqr' = toWqr \/ (toWqr # NoFrame /\ toWqr' = Damaged)
  BY EndingEffect
<1>2. ~AckPending'
  BY <1>1 DEF AckPending, Awaiting
<1>3. (InTurn' <=> InTurn) /\ (Level' <=> Level) /\ (Engaged' <=> Engaged)
  BY <1>1 DEF InTurn, Level, Engaged
<1>4. Memory' /\ Counts'
  BY <1>1, <1>3 DEF CountInv, Memory, Counts
<1>5. Acks'
  BY <1>1, <1>2, <1>3, SmallTypes DEF CountInv, Acks
<1> QED
  BY <1>4, <1>5 DEF CountInv

LEMMA LossCount ==
    ASSUME TypeInv, LineInv, CountInv, Lose \/ Damage, Undisturbed
    PROVE  CountInv'
<1>1. /\ UNCHANGED <<service, session, wqr, due>>
      /\ \/ toWqr # NoFrame /\ toWqr' \in {NoFrame, Damaged} /\ toBase' = toBase
         \/ /\ toBase # NoFrame /\ toBase' \in {NoFrame, Damaged} /\ toWqr' = toWqr
            /\ toBase' = NoFrame => Class(toBase) \in env.losable
  BY LossEffect
<1>2. (InTurn' <=> InTurn) /\ (Level' <=> Level) /\ (Engaged' <=> Engaged) /\ (AckPending' <=> AckPending)
  BY <1>1 DEF InTurn, Level, Engaged, AckPending, Awaiting
<1>3. Memory'
  BY <1>1 DEF CountInv, Memory
<1>4. Counts'
  BY <1>1, <1>2, SmallTypes DEF CountInv, Counts
<1>5. CASE toBase' = toBase
  <2>1. toWqr' \in {toWqr, NoFrame, Damaged} /\ (toWqr' # NoFrame => toWqr # NoFrame)
    BY <1>1
  <2>2. Acks'
    BY <1>1, <1>2, <1>5, <2>1, SmallTypes DEF CountInv, Acks
  <2> QED
    BY <1>3, <1>4, <2>2 DEF CountInv
<1>6. CASE toBase' # toBase
  <2>1. toBase # NoFrame /\ toWqr' = toWqr /\ toWqr = NoFrame
    BY <1>1, <1>6 DEF LineInv, Turns
  <2>2. CASE toBase' = Damaged
    <3>1. Acks'
      BY <1>1, <1>2, <2>1, <2>2, SmallTypes DEF CountInv, Acks
    <3> QED
      BY <1>3, <1>4, <3>1 DEF CountInv
  <2>3. CASE toBase' = NoFrame
    <3>1. Class(toBase) \in Frames /\ Lose
      BY <1>1, <1>6, <2>1, <2>3, SerialAssumption, SmallTypes DEF TypeInv, Damage, Lose
    <3>2. toBase.kind # "damaged"
      BY <3>1 DEF Class, Frames
    <3>3. ~(toBase.kind = "answer" /\ toBase.piece.part > 1)
      BY <2>3, <3>1 DEF Undisturbed, PartLost
    <3>4. Acks'
      BY <1>1, <1>2, <2>1, <3>2, <3>3 DEF CountInv, Acks
    <3> QED
      BY <1>3, <1>4, <3>4 DEF CountInv
  <2> QED
    BY <1>1, <1>6, <2>1, <2>2, <2>3
<1> QED
  BY <1>5, <1>6

LEMMA DeafCount ==
    ASSUME TypeInv, LineInv, CountInv, WqrDeaf \/ BaseDeaf \/ HoldEnds
    PROVE  CountInv'
<1>1. UNCHANGED <<service, session, wqr, due>>
  BY DEF WqrDeaf, BaseDeaf, HoldEnds, base, board
<1>2. (InTurn' <=> InTurn) /\ (Level' <=> Level) /\ (Engaged' <=> Engaged) /\ (AckPending' <=> AckPending)
  BY <1>1 DEF InTurn, Level, Engaged, AckPending, Awaiting
<1>3. CASE WqrDeaf
  <2>1. toWqr # NoFrame /\ due /\ toWqr' = NoFrame /\ toBase' = toBase
    BY <1>3 DEF WqrDeaf
  <2>2. ~AckPending
    BY <2>1 DEF CountInv, Acks
  <2>3. NoAckOut
    BY <1>2, <2>1, <2>2, SmallTypes DEF NoAckOut
  <2> QED
    BY <1>1, <2>1, <2>3, SameCount
<1>4. CASE BaseDeaf
  <2>1. ~Awaiting /\ toBase # NoFrame /\ toBase' = NoFrame /\ toWqr' = toWqr
    BY <1>4 DEF BaseDeaf, Awaiting
  <2>2. NoAckOut
    BY <1>2, <2>1, SmallTypes DEF NoAckOut, AckPending, LineInv, Turns
  <2> QED
    BY <1>1, <2>1, <2>2, SameCount, SmallTypes
<1>5. CASE HoldEnds
  <2>1. toWqr' = toWqr /\ toBase' = toBase
    BY <1>5 DEF HoldEnds, line
  <2>2. Memory' /\ Counts' /\ Acks'
    BY <1>1, <1>2, <2>1 DEF CountInv, Memory, Counts, Acks
  <2> QED
    BY <2>2 DEF CountInv
<1> QED
  BY <1>3, <1>4, <1>5

\* The room the sequence space must leave for the parts of an answer.
RoomForAnswers == MaxParts + 1 < SeqMod

\* A frame the board takes for a repetition comes from a base that is one behind.
LEMMA RepetitionInTurn ==
    ASSUME RoomForAnswers, TypeInv, LineInv, CountInv, WqrReceive, toWqr.kind = "request",
           RepeatedRequest(wqr, toWqr) \/ RepeatedFragment(wqr, toWqr)
    PROVE  InTurn
<1>1. /\ ~due /\ ~wqr.work /\ ~wqr.active /\ toWqr.seq = session.seq /\ session.seq \in Seqs
      /\ wqr.offset \in 0 .. MaxParts /\ Len(wqr.answer) <= MaxParts /\ Len(wqr.answer) \in Nat
      /\ MaxParts \in Nat /\ SeqMod \in Nat
  BY SmallTypes, SerialAssumption
     DEF WqrReceive, LineInv, Modes, Kinds, TypeInv, SessionType, WqrOK, WqrType
<1>2. \A k \in 0 .. MaxParts : Plus(session.seq, 1 + k) # session.seq
  BY <1>1, PlusValue DEF RoomForAnswers
<1>3. CASE RepeatedRequest(wqr, toWqr)
  <2>1. wqr.ready /\ ~wqr.open /\ wqr.request # NoFrame /\ wqr.request.seq = session.seq
    BY <1>1, <1>3 DEF RepeatedRequest, SameFrame
  <2>2. wqr.seq # session.seq
    BY <1>1, <1>2, <2>1 DEF CountInv, Memory
  <2> QED
    BY <2>1, <2>2 DEF CountInv, Counts, Engaged, Level
<1>4. CASE RepeatedFragment(wqr, toWqr)
  <2>1. wqr.open /\ wqr.fragment # NoFrame /\ wqr.fragment.seq = session.seq
    BY <1>1, <1>4 DEF RepeatedFragment, SameFrame
  <2>2. wqr.seq # session.seq
    BY <1>2, <2>1 DEF CountInv, Memory
  <2> QED
    BY <2>1, <2>2 DEF CountInv, Counts, Engaged, Level
<1> QED
  BY <1>3, <1>4

LEMMA EarlierInTurn ==
    ASSUME TypeInv, LineInv, CountInv, WqrReceive, toWqr.kind = "baseNak", Earlier(wqr, toWqr.seq), wqr.ready
    PROVE  InTurn
<1>1. toWqr.seq = session.seq /\ session.seq \in Nat /\ wqr.seq \in Nat
  BY SmallTypes DEF LineInv, Kinds, TypeInv, SessionType, WqrOK, WqrType
<1>2. wqr.seq # session.seq
  BY <1>1 DEF Earlier
<1> QED
  BY <1>2 DEF CountInv, Counts, Engaged, Level

\* The board moves its answer on, or ends it.
LEMMA AckHeard ==
    ASSUME RoomForAnswers, TypeInv, LineInv, CountInv, WqrReceive, toWqr.kind = "baseAck", wqr.ready,
           \/ /\ wqr.offset + 1 < Len(wqr.answer)
              /\ wqr' = [wqr EXCEPT !.offset = @ + 1, !.seq = Inc(@)]
           \/ wqr' = [wqr EXCEPT !.ready = FALSE, !.offset = 0, !.request = NoFrame, !.seq = Inc(@)]
    PROVE  CountInv'
<1>1. /\ toWqr' = NoFrame /\ due' = TRUE /\ UNCHANGED <<service, session, toBase>> /\ ~due
      /\ toBase = NoFrame /\ ~wqr.work /\ wqr.control = NoFrame
  BY DEF WqrReceive, base, LineInv, Turns, Modes
<1>2. /\ wqr \in WqrType /\ wqr.offset \in 0 .. MaxParts /\ wqr.offset < Len(wqr.answer)
      /\ Len(wqr.answer) \in Nat /\ Len(wqr.answer) <= MaxParts
      /\ MaxParts \in Nat /\ SeqMod \in Nat /\ wqr.seq \in Seqs
      /\ wqr.request.seq \in Seqs /\ wqr.fragment.seq \in Seqs
  <2>1. wqr \in WqrType /\ Len(wqr.answer) <= MaxParts /\ wqr.offset < Len(wqr.answer)
    BY DEF TypeInv, WqrOK
  <2>2. /\ wqr.offset \in 0 .. MaxParts /\ wqr.answer \in Seq(Piece) /\ wqr.seq \in Seqs
        /\ wqr.request \in FrameType /\ wqr.fragment \in FrameType
    BY <2>1 DEF WqrType
  <2>3. wqr.request.seq \in Seqs /\ wqr.fragment.seq \in Seqs
    BY <2>2 DEF FrameType, Seqs
  <2>4. Len(wqr.answer) \in Nat
    BY <2>2
  <2> QED
    BY <2>1, <2>2, <2>3, <2>4, SmallTypes, SerialAssumption
<1>3. Level
  BY DEF CountInv, Acks
<1>4. wqr'.seq = Inc(wqr.seq) /\ InTurn'
  <2>1. "seq" \in DOMAIN wqr /\ wqr'.seq = Inc(wqr.seq)
    BY <1>2 DEF WqrType
  <2> QED
    BY <1>1, <1>3, <2>1 DEF InTurn, Level
<1>5. /\ wqr'.control = NoFrame /\ wqr'.open = wqr.open /\ wqr'.fragment = wqr.fragment /\ ~wqr'.work
      /\ \/ /\ wqr'.ready /\ wqr'.offset = wqr.offset + 1 /\ wqr'.request = wqr.request
            /\ wqr.offset + 1 < Len(wqr.answer)
         \/ ~wqr'.ready /\ wqr'.request = NoFrame
  BY <1>1, <1>2 DEF WqrType
<1>6. ASSUME NEW q \in Seqs, NEW k \in 0 .. MaxParts, k < MaxParts, wqr.seq = Plus(q, 1 + k)
      PROVE  wqr'.seq = Plus(q, 1 + (k + 1))
  <2>1. 1 + k \in Nat /\ 1 + k < SeqMod /\ (1 + k) + 1 < SeqMod /\ (1 + k) + 1 = 1 + (k + 1)
    BY <1>2, <1>6 DEF RoomForAnswers
  <2>2. Plus(q, (1 + k) + 1) = Inc(Plus(q, 1 + k))
    BY <2>1, PlusValue
  <2> QED
    BY <1>4, <1>6, <2>1, <2>2
<1>7. Memory'
  <2>1. ASSUME ~wqr'.open, wqr'.request # NoFrame, wqr'.ready
        PROVE  wqr'.seq = Plus(wqr'.request.seq, 1 + wqr'.offset)
    <3>1. /\ wqr'.offset = wqr.offset + 1 /\ wqr'.request = wqr.request /\ ~wqr.open
          /\ wqr.offset < MaxParts
      BY <1>2, <1>5, <2>1
    <3>2. wqr.seq = Plus(wqr.request.seq, 1 + wqr.offset)
      BY <2>1, <3>1 DEF CountInv, Memory
    <3> QED
      BY <1>2, <1>6, <3>1, <3>2
  <2>2. ASSUME wqr'.open, wqr'.fragment # NoFrame
        PROVE  \E k \in 0 .. MaxParts : /\ wqr'.seq = Plus(wqr'.fragment.seq, 1 + k)
                                        /\ wqr'.ready => k <= wqr'.offset
    <3>1. PICK k \in 0 .. MaxParts : wqr.seq = Plus(wqr.fragment.seq, 1 + k) /\ k <= wqr.offset
      BY <1>5, <2>2 DEF CountInv, Memory
    <3>2. k < MaxParts /\ k + 1 \in 0 .. MaxParts /\ (wqr'.ready => k + 1 <= wqr'.offset)
      BY <1>2, <1>5, <3>1
    <3>3. wqr'.seq = Plus(wqr'.fragment.seq, 1 + (k + 1))
      BY <1>2, <1>5, <1>6, <3>1, <3>2
    <3> QED
      BY <3>2, <3>3
  <2> QED
    BY <1>5, <2>1, <2>2 DEF Memory
<1>8. Counts'
  BY <1>1, <1>4, SmallTypes DEF Counts
<1>9. wqr'.ready => wqr'.offset > 0
  BY <1>2, <1>5
<1>10. Acks'
  BY <1>1, <1>4, <1>5, <1>9, SmallTypes DEF Acks
<1> QED
  BY <1>7, <1>8, <1>10 DEF CountInv

\* A control frame, or silence, that leaves the rest of the board as it was.
LEMMA ControlHeard ==
    ASSUME TypeInv, LineInv, CountInv, WqrReceive,
           UNCHANGED <<wqr.seq, wqr.open, wqr.fragment, wqr.request, wqr.ready, wqr.offset, wqr.work, wqr.sent>>,
           \/ wqr'.control.kind = "wqrNak"
           \/ wqr'.control.kind = "wqrAck" /\ InTurn /\ toWqr.kind = "request"
           \/ wqr'.control = NoFrame /\ (wqr.ready => InTurn) /\ toWqr.kind \in {"request", "baseNak"}
    PROVE  CountInv'
<1>1. /\ toWqr' = NoFrame /\ due' = TRUE /\ UNCHANGED <<service, session, toBase>> /\ ~due
      /\ toBase = NoFrame /\ ~wqr.work /\ wqr.control = NoFrame /\ toWqr # NoFrame
  BY DEF WqrReceive, base, LineInv, Turns, Modes
<1>2. (InTurn' <=> InTurn) /\ (Level' <=> Level) /\ (Engaged' <=> Engaged) /\ (AckPending' <=> AckPending)
  BY <1>1 DEF InTurn, Level, Engaged, AckPending, Awaiting
<1>3. Memory'
  BY DEF CountInv, Memory
<1>4. Counts'
  BY <1>1, <1>2, SmallTypes DEF CountInv, Counts
<1>5. AckPending => toWqr.kind \in {"baseAck", "damaged"}
  BY <1>1, SmallTypes DEF AckPending, LineInv, Kinds
<1>6. AckPending /\ wqr.ready => Level
  BY <1>1, SmallTypes DEF CountInv, Acks
<1>7. Acks'
  BY <1>1, <1>2, <1>5, <1>6, SmallTypes DEF Acks
<1> QED
  BY <1>3, <1>4, <1>7 DEF CountInv

\* A fragment is refused when no answer is ready that the board could fall back on.
LEMMA RefusalHeard ==
    ASSUME TypeInv, LineInv, CountInv, WqrReceive, ~(wqr.ready /\ wqr.request # NoFrame),
           UNCHANGED <<wqr.seq, wqr.request, wqr.ready, wqr.offset, wqr.work, wqr.sent>>,
           wqr'.open = FALSE, wqr'.control.kind = "wqrNak"
    PROVE  CountInv'
<1>1. /\ toWqr' = NoFrame /\ due' = TRUE /\ UNCHANGED <<service, session, toBase>> /\ ~due
      /\ toBase = NoFrame /\ ~wqr.work /\ toWqr # NoFrame
  BY DEF WqrReceive, base, LineInv, Turns, Modes
<1>2. (InTurn' <=> InTurn) /\ (Level' <=> Level) /\ (Engaged' => Engaged) /\ (AckPending' <=> AckPending)
  BY <1>1 DEF InTurn, Level, Engaged, AckPending, Awaiting
<1>3. Memory'
  BY <1>1 DEF Memory
<1>4. Counts'
  BY <1>1, <1>2, SmallTypes DEF CountInv, Counts
<1>5. AckPending => toWqr.kind \in {"baseAck", "damaged"}
  BY <1>1, SmallTypes DEF AckPending, LineInv, Kinds
<1>6. AckPending /\ wqr.ready => Level
  BY <1>1, SmallTypes DEF CountInv, Acks
<1>7. Acks'
  BY <1>1, <1>2, <1>5, <1>6, SmallTypes DEF Acks
<1> QED
  BY <1>3, <1>4, <1>7 DEF CountInv

\* A new message, begun or complete: the board is one ahead of the base.
LEMMA MessageHeard ==
    ASSUME RoomForAnswers, TypeInv, LineInv, CountInv, WqrReceive, toWqr.kind = "request", NEW x \in Seq(Piece),
           \/ wqr' = Ack([wqr EXCEPT !.received = x, !.type = toWqr.type, !.seq = Inc(toWqr.seq),
                                     !.open = TRUE, !.fragment = toWqr])
           \/ wqr' = [wqr EXCEPT !.received = x, !.type = toWqr.type, !.seq = Inc(toWqr.seq),
                                 !.open = FALSE, !.fragment = NoFrame, !.offset = 0, !.ready = FALSE,
                                 !.work = TRUE, !.request = toWqr]
    PROVE  CountInv'
<1>1. /\ toWqr' = NoFrame /\ due' = TRUE /\ UNCHANGED <<service, session, toBase>> /\ ~due
      /\ toBase = NoFrame /\ ~wqr.work /\ wqr.control = NoFrame /\ toWqr # NoFrame
  BY DEF WqrReceive, base, LineInv, Turns, Modes
<1>2. /\ wqr \in WqrType /\ toWqr.seq = session.seq /\ session.seq \in Seqs /\ wqr.offset \in Nat
      /\ 0 \in 0 .. MaxParts /\ SeqMod \in Nat /\ SeqMod > 1
  BY <1>1, SmallTypes, SerialAssumption DEF TypeInv, WqrOK, WqrType, SessionType, LineInv, Kinds
<1>3. Inc(toWqr.seq) = Plus(toWqr.seq, 1 + 0)
  BY <1>2, PlusValue
<1>4. ASSUME wqr' = Ack([wqr EXCEPT !.received = x, !.type = toWqr.type, !.seq = Inc(toWqr.seq),
                                    !.open = TRUE, !.fragment = toWqr])
      PROVE  /\ wqr'.seq = Inc(toWqr.seq) /\ wqr'.open /\ wqr'.fragment = toWqr
             /\ wqr'.offset = wqr.offset /\ wqr'.control.kind = "wqrAck"
  <2> DEFINE w == [wqr EXCEPT !.received = x, !.type = toWqr.type, !.seq = Inc(toWqr.seq),
                              !.open = TRUE, !.fragment = toWqr]
  <2>1. /\ w.seq = Inc(toWqr.seq) /\ w.open = TRUE /\ w.fragment = toWqr /\ w.offset = wqr.offset
        /\ DOMAIN w = DOMAIN wqr
    BY <1>2 DEF WqrType
  <2>2. {"seq", "open", "fragment", "offset", "control"} \subseteq DOMAIN w
    BY <1>2, <2>1 DEF WqrType
  <2>3. wqr' = [w EXCEPT !.control = Control("wqrAck", w.seq)]
    BY <1>4 DEF Ack
  <2> HIDE DEF w
  <2>4. /\ wqr'.seq = w.seq /\ wqr'.open = w.open /\ wqr'.fragment = w.fragment /\ wqr'.offset = w.offset
        /\ wqr'.control = Control("wqrAck", w.seq)
    BY <2>2, <2>3
  <2> QED
    BY <2>1, <2>4 DEF Control
<1>5. ASSUME wqr' = [wqr EXCEPT !.received = x, !.type = toWqr.type, !.seq = Inc(toWqr.seq),
                                !.open = FALSE, !.fragment = NoFrame, !.offset = 0, !.ready = FALSE,
                                !.work = TRUE, !.request = toWqr]
      PROVE  wqr'.seq = Inc(toWqr.seq) /\ ~wqr'.open /\ wqr'.request = toWqr /\ wqr'.offset = 0
  BY <1>2, <1>5 DEF WqrType
<1>6. wqr'.seq = Inc(toWqr.seq) /\ InTurn' /\ ~AckPending'
  BY <1>1, <1>2, <1>4, <1>5, SmallTypes DEF InTurn, AckPending, Awaiting, LineInv, Kinds
<1>7. Memory'
  BY <1>2, <1>3, <1>4, <1>5, <1>6 DEF Memory
<1>8. Counts'
  BY <1>1, <1>6, SmallTypes DEF Counts
<1>9. Acks'
  BY <1>1, <1>6, SmallTypes DEF Acks
<1> QED
  BY <1>7, <1>8, <1>9 DEF CountInv

LEMMA WqrReceiveCount ==
    ASSUME RoomForAnswers, TypeInv, LineInv, CountInv, WqrReceive, Undisturbed
    PROVE  CountInv'
<1>1. ~due /\ wqr.control = NoFrame /\ ~wqr.work /\ ~wqr.active /\ wqr \in WqrType
  BY DEF WqrReceive, LineInv, Turns, Modes, TypeInv, WqrOK
<1> DEFINE Same == UNCHANGED <<wqr.seq, wqr.open, wqr.fragment, wqr.request, wqr.ready, wqr.offset,
                               wqr.work, wqr.sent>>
<1>2. wqr' = Nak(wqr) => Same /\ wqr'.control.kind = "wqrNak"
  BY <1>1 DEF Nak, Control, WqrType
<1>3. wqr' = Ack(wqr) => Same /\ wqr'.control.kind = "wqrAck"
  BY <1>1 DEF Ack, Control, WqrType
<1>4. wqr' = wqr => Same /\ wqr'.control = NoFrame
  BY <1>1
<1>5. CASE wqr' = Nak([wqr EXCEPT !.received = << >>, !.open = FALSE])
  <2>1. /\ wqr'.control.kind = "wqrNak" /\ wqr'.open = FALSE /\ wqr'.work = wqr.work
        /\ wqr'.seq = wqr.seq /\ wqr'.fragment = wqr.fragment /\ wqr'.request = wqr.request
        /\ wqr'.ready = wqr.ready /\ wqr'.offset = wqr.offset /\ wqr'.sent = wqr.sent
    BY <1>1, <1>5 DEF Nak, Control, WqrType
  <2>2. CASE wqr.open = FALSE
    BY <2>1, <2>2, ControlHeard
  <2>3. CASE wqr.open # FALSE
    <3>1. ~(wqr.ready /\ wqr.request # NoFrame)
      BY <1>1, <2>1, <2>3 DEF Undisturbed, Refuses, WqrType
    <3> QED
      BY <2>1, <3>1, RefusalHeard
  <2> QED
    BY <2>2, <2>3
<1>6. CASE wqr' = Nak(wqr)
  BY <1>2, <1>6, ControlHeard
<1>7. CASE wqr' = wqr /\ toWqr.kind = "baseNak" /\ Earlier(wqr, toWqr.seq)
  BY <1>4, <1>7, EarlierInTurn, ControlHeard
<1>8. CASE wqr' = wqr /\ toWqr.kind = "request" /\ RepeatedRequest(wqr, toWqr)
  BY <1>4, <1>8, RepetitionInTurn, ControlHeard
<1>9. CASE wqr' = Ack(wqr) /\ toWqr.kind = "request" /\ RepeatedFragment(wqr, toWqr)
  BY <1>3, <1>9, RepetitionInTurn, ControlHeard
<1> HIDE DEF Same
<1> QED
  BY <1>5, <1>6, <1>7, <1>8, <1>9, HearOutcomes, AckHeard, MessageHeard

LEMMA PollCount ==
    ASSUME TypeInv, LineInv, CountInv, PollStatus \/ PollI2c
    PROVE  CountInv'
<1>1. /\ UNCHANGED <<service, session, toWqr, toBase, due>> /\ wqr.work /\ wqr \in WqrType /\ due
      /\ ~wqr.open /\ wqr.offset = 0 /\ wqr.control = NoFrame
  BY DEF PollStatus, PollI2c, base, line, TypeInv, WqrOK, LineInv, Modes
<1>2. /\ wqr'.seq = wqr.seq /\ wqr'.open = wqr.open /\ wqr'.offset = 0 /\ wqr'.control = wqr.control
      /\ wqr'.request = wqr.request /\ wqr'.sent = wqr.sent
  <2>1. \/ wqr' = wqr \/ wqr' = [wqr EXCEPT !.active = TRUE]
        \/ \E a : wqr' = Answered(wqr, a)
    BY DEF PollStatus, PollI2c, TypeInv, DriverType
  <2> QED
    BY <1>1, <2>1 DEF Answered, WqrType
<1>3. InTurn /\ ~AckPending /\ toWqr.kind # "baseAck"
  BY <1>1 DEF CountInv, Counts, Acks
<1>4. InTurn' /\ ~AckPending'
  BY <1>1, <1>2, <1>3 DEF InTurn, AckPending, Awaiting
<1>5. Memory'
  BY <1>1, <1>2 DEF CountInv, Memory
<1>6. Counts'
  BY <1>4 DEF Counts
<1>7. Acks'
  BY <1>1, <1>3, <1>4 DEF Acks
<1> QED
  BY <1>5, <1>6, <1>7 DEF CountInv

LEMMA WqrRespondCount ==
    ASSUME TypeInv, LineInv, CountInv, WqrRespond
    PROVE  CountInv'
<1>1. /\ toWqr' = NoFrame /\ wqr' = [wqr EXCEPT !.control = NoFrame, !.sent = TRUE] /\ due' = FALSE /\ due
      /\ UNCHANGED <<service, session>> /\ toBase = NoFrame
      /\ IF toWqr = NoFrame THEN toBase' = WqrFrame(wqr) ELSE toBase' \in {NoFrame, Damaged}
  BY DEF WqrRespond, base, LineInv, Turns
<1>2. wqr.control # NoFrame \/ wqr.ready
  BY DEF WqrRespond
<1>3. /\ wqr \in WqrType /\ wqr'.seq = wqr.seq /\ wqr'.open = wqr.open /\ wqr'.offset = wqr.offset
      /\ wqr'.control = NoFrame /\ wqr'.request = wqr.request /\ wqr'.fragment = wqr.fragment
      /\ wqr'.ready = wqr.ready /\ wqr'.work = wqr.work
  BY <1>1 DEF TypeInv, WqrOK, WqrType
<1>4. (InTurn' <=> InTurn) /\ (Level' <=> Level) /\ (Engaged' <=> Engaged) /\ (AckPending' <=> AckPending)
  BY <1>1, <1>3 DEF InTurn, Level, Engaged, AckPending, Awaiting
<1>5. ~wqr.work
  BY <1>2 DEF LineInv, Modes
<1>6. toBase'.kind \in {"answer", "wqrAck"} => InTurn
  <2>1. CASE toWqr # NoFrame
    BY <1>1, <2>1, SmallTypes
  <2>2. CASE toWqr = NoFrame /\ wqr.control # NoFrame
    BY <1>1, <2>2 DEF WqrFrame, LineInv, Kinds, CountInv, Counts
  <2>3. CASE toWqr = NoFrame /\ wqr.control = NoFrame
    BY <1>1, <1>2, <2>3 DEF CountInv, Counts
  <2> QED
    BY <2>1, <2>2, <2>3
<1>7. AckPending /\ wqr.ready => Level \/ (InTurn /\ toBase'.kind = "answer" /\ toBase'.piece.part > 1)
  <2> SUFFICES ASSUME AckPending, wqr.ready, ~Level
               PROVE  InTurn /\ toBase'.kind = "answer" /\ toBase'.piece.part > 1
    OBVIOUS
  <2>1. InTurn /\ wqr.control = NoFrame /\ wqr.offset > 0 /\ toWqr = NoFrame
    BY <1>1, SmallTypes DEF CountInv, Acks
  <2>2. toBase' = [kind |-> "answer", type |-> wqr.answerType, seq |-> wqr.seq,
                   piece |-> wqr.answer[wqr.offset + 1]]
    BY <1>1, <2>1 DEF WqrFrame
  <2>3. wqr.offset + 1 \in 1 .. Len(wqr.answer) /\ wqr.offset \in Nat
    BY SmallTypes DEF TypeInv, WqrOK, WqrType
  <2>4. wqr.answer[wqr.offset + 1].part = wqr.offset + 1
    BY <2>3 DEF LineInv, Modes
  <2> QED
    BY <2>1, <2>2, <2>3, <2>4
<1>8. AckPending /\ wqr.ready /\ Level => ~InTurn
  BY IncMoves DEF InTurn, Level, TypeInv, SessionType
<1>9. Memory'
  BY <1>3 DEF CountInv, Memory
<1>10. Counts'
  BY <1>1, <1>3, <1>4, <1>5, <1>6 DEF CountInv, Counts
<1>11. Acks'
  BY <1>1, <1>3, <1>4, <1>5, <1>7, SmallTypes DEF Acks
<1> QED
  BY <1>9, <1>10, <1>11 DEF CountInv

LEMMA WqrSilentCount ==
    ASSUME TypeInv, LineInv, CountInv, WqrSilent
    PROVE  CountInv'
<1>1. /\ due' = FALSE /\ UNCHANGED <<service, session, toWqr, toBase, wqr>> /\ due
      /\ ~wqr.work /\ ~wqr.ready
  BY DEF WqrSilent, base, line, Expected
<1>2. (InTurn' <=> InTurn) /\ (Level' <=> Level) /\ (Engaged' <=> Engaged) /\ (AckPending' <=> AckPending)
  BY <1>1 DEF InTurn, Level, Engaged, AckPending, Awaiting
<1>3. Memory' /\ Counts'
  BY <1>1, <1>2 DEF CountInv, Memory, Counts
<1>4. Acks'
  BY <1>1, <1>2 DEF CountInv, Acks
<1> QED
  BY <1>3, <1>4 DEF CountInv

LEMMA UpsetCount ==
    ASSUME TypeInv, LineInv, CountInv, Restart \/ Detach
    PROVE  CountInv'
<1>1. UNCHANGED <<service, session, toWqr, toBase>>
  BY DEF Restart, Detach, base, line
<1>2. CASE Restart
  <2>1. wqr' = InitWqr /\ due' = FALSE
    BY <1>2 DEF Restart
  <2>2. ~wqr'.open /\ ~wqr'.work /\ ~wqr'.ready /\ ~wqr'.sent
    BY <2>1 DEF InitWqr
  <2> QED
    BY <1>1, <2>1, <2>2 DEF CountInv, Memory, Counts, Acks, Engaged
<1>3. CASE Detach
  <2>1. /\ wqr' = [wqr EXCEPT !.received = << >>, !.open = FALSE, !.work = FALSE,
                               !.active = FALSE, !.fragment = NoFrame, !.request = NoFrame]
        /\ due' = due
    BY <1>3 DEF Detach
  <2>2. wqr \in WqrType
    BY DEF TypeInv, WqrOK
  <2>3. /\ ~wqr'.open /\ ~wqr'.work /\ wqr'.request = NoFrame /\ wqr'.control = wqr.control
        /\ wqr'.ready = wqr.ready /\ wqr'.seq = wqr.seq /\ wqr'.offset = wqr.offset /\ wqr'.sent = wqr.sent
    BY <2>1, <2>2 DEF WqrType
  <2>4. (InTurn' <=> InTurn) /\ (Level' <=> Level) /\ (Engaged' => Engaged) /\ (AckPending' <=> AckPending)
    BY <1>1, <2>3 DEF InTurn, Level, Engaged, AckPending, Awaiting
  <2>5. Memory'
    BY <2>3 DEF Memory
  <2>6. Counts'
    BY <1>1, <2>1, <2>3, <2>4 DEF CountInv, Counts
  <2>7. Acks'
    BY <1>1, <2>1, <2>3, <2>4 DEF CountInv, Acks
  <2> QED
    BY <2>5, <2>6, <2>7 DEF CountInv
<1> QED
  BY <1>2, <1>3

LEMMA CountStart == Init => CountInv
<1> SUFFICES ASSUME Init PROVE CountInv
  OBVIOUS
<1>1. /\ toWqr = NoFrame /\ toBase = NoFrame /\ due = FALSE /\ wqr = InitWqr /\ service = IdleService
  BY DEF Init
<1> QED
  BY <1>1, SmallTypes DEF CountInv, Memory, Counts, Acks, AckPending, Awaiting, Engaged, InitWqr, IdleService

LEMMA CountStep ==
    ASSUME RoomForAnswers, TypeInv, LineInv, CountInv, [Next]_vars, UNCHANGED vars \/ Undisturbed
    PROVE  CountInv'
<1>1. CASE UNCHANGED <<service, session, toWqr, toBase, wqr, due>>
  BY <1>1 DEF CountInv, Memory, Counts, Acks, InTurn, Level, Engaged, AckPending, Awaiting
<1>2. UNCHANGED vars \/ DriverEnds => UNCHANGED <<service, session, toWqr, toBase, wqr, due>>
  BY DEF vars, calls, base, board, line, DriverEnds
<1>3. CASE \E r \in env.requests : Start(r)
  BY <1>3, StartCount
<1>4. CASE BaseStep
  BY <1>4, TakeCount, RunRecoveringCount, TimeoutCount, DeafCount DEF BaseStep
<1>5. CASE BoardStep /\ ~DriverEnds /\ Undisturbed
  BY <1>5, WqrReceiveCount, DeafCount, PollCount, WqrRespondCount, WqrSilentCount DEF BoardStep
<1>6. CASE (Release \/ Cancel \/ Restart \/ Detach \/ Lose \/ Damage) /\ Undisturbed
  BY <1>6, EndingCount, UpsetCount, LossCount
<1> QED
  BY <1>1, <1>2, <1>3, <1>4, <1>5, <1>6 DEF Next

\* Only the last part of an answer makes a call succeed.
LEMMA OnlyAnswers ==
    ASSUME TypeInv, LineInv, TakeNak \/ TakeAck \/ TakeDamaged
    PROVE  service'.status # "succeeded"
<1>1. /\ service.status = "pending" /\ service \in ServiceType /\ CountAttempt(service) \in ServiceType
      /\ CountAttempt(service).status = "pending"
  BY TakeEffects, CountType DEF TypeInv, ServiceType
<1>2. ASSUME NEW s, NEW v \in ServiceType, v.status = "pending", StartNextPacket(s, v)
      PROVE  service'.status = "pending"
  BY <1>2 DEF StartNextPacket, ServiceType
<1>3. TakeNak \/ TakeAck => service'.status = "pending"
  BY <1>1, <1>2 DEF TakeNak, TakeAck
<1>4. CASE TakeDamaged
  <2> DEFINE v == [CountAttempt(service) EXCEPT !.waiting = FALSE]
  <2>1. v \in ServiceType /\ v.status = "pending"
    BY <1>1 DEF ServiceType
  <2>2. \/ \E s : StartNextPacket(s, v)
        \/ service' = [v EXCEPT !.status = "failed"]
        \/ \E p, r : service' = [v EXCEPT !.packet = p, !.recovering = r,
                                          !.status = IF Spent(v.attempts) THEN "failed" ELSE @]
    BY <1>4 DEF TakeDamaged, Reject
  <2> HIDE DEF v
  <2> QED
    BY <1>2, <2>1, <2>2 DEF ServiceType
<1> QED
  BY <1>3, <1>4

\* Once a call has succeeded the board is silent, and the counts stay where they are.
LEMMA InStepKept ==
    ASSUME TypeInv, LineInv, CountInv, SequenceInStep, [Next]_vars
    PROVE  SequenceInStep'
<1> SUFFICES ASSUME service'.status = "succeeded", wqr'.sent
             PROVE  wqr'.seq = session'.seq
  BY DEF SequenceInStep
<1>1. CASE UNCHANGED <<service, session, wqr>>
  BY <1>1 DEF SequenceInStep
<1>2. CASE UNCHANGED vars \/ DriverEnds \/ HoldEnds \/ WqrDeaf \/ BaseDeaf \/ WqrSilent \/ Lose \/ Damage
  <2>1. UNCHANGED <<service, session, wqr>>
    BY <1>2 DEF vars, base, board, DriverEnds, HoldEnds, WqrDeaf, BaseDeaf, WqrSilent, Lose, Damage
  <2> QED
    BY <1>1, <2>1
<1>3. CASE \E r \in env.requests : Start(r)
  BY <1>3, StartEffect
<1>4. CASE TakeNak \/ TakeAck \/ TakeDamaged
  BY <1>4, OnlyAnswers
<1>5. CASE TakeAnswer
  <2>1. wqr' = wqr /\ session'.seq = Inc(session.seq) /\ toBase.kind = "answer"
    BY <1>5, TakeEffects
  <2>2. InTurn
    BY <2>1 DEF CountInv, Counts
  <2> QED
    BY <2>1, <2>2 DEF InTurn
<1>6. CASE RunRecovering
  BY <1>6 DEF RunRecovering, TypeInv, ServiceType
<1>7. CASE Timeout
  BY <1>7, TimeoutEffect
<1>8. CASE Release \/ Cancel
  BY <1>8, EndingEffect
<1>9. CASE WqrReceive \/ PollStatus \/ PollI2c \/ WqrRespond
  <2>1. service'.status = service.status
    BY <1>9 DEF WqrReceive, PollStatus, PollI2c, WqrRespond, base
  <2>2. toWqr = NoFrame /\ ~due /\ ~wqr.work
    BY <2>1 DEF LineInv, Turns, Modes
  <2> QED
    BY <1>9, <2>2 DEF WqrReceive, PollStatus, PollI2c, WqrRespond
<1>10. CASE Restart
  BY <1>10 DEF Restart, InitWqr
<1>11. CASE Detach
  <2>1. wqr \in WqrType /\ UNCHANGED <<service, session>>
    BY <1>11 DEF Detach, base, TypeInv, WqrOK
  <2>2. wqr'.seq = wqr.seq /\ wqr'.sent = wqr.sent
    BY <1>11, <2>1 DEF Detach, WqrType
  <2> QED
    BY <2>1, <2>2 DEF SequenceInStep
<1> QED
  BY <1>2, <1>3, <1>4, <1>5, <1>6, <1>7, <1>8, <1>9, <1>10, <1>11 DEF Next, BaseStep, BoardStep

\* After a successful call both ends agree on the next sequence number, unless the board has
\* restarted since.  This holds whatever else is lost or damaged, as long as no later part of an
\* answer is lost and no fragment is refused while an earlier answer is ready.
THEOREM SequenceCorrect ==
    ASSUME RoomForAnswers
    PROVE  Spec /\ [][Undisturbed]_vars => []SequenceInStep
<1> DEFINE Inv == TypeInv /\ LineInv /\ CountInv /\ SequenceInStep
<1>1. Init => Inv
  <2>1. Init => SequenceInStep
    BY DEF Init, SequenceInStep, IdleService
  <2> QED
    BY <2>1, TypeStart, LineStart, CountStart
<1>2. Inv /\ [Next]_vars /\ [Undisturbed]_vars => Inv'
  BY TypeStep, LineStep, CountStep, InStepKept
<1>3. Inv => SequenceInStep
  OBVIOUS
<1> HIDE DEF Inv
<1> QED
  BY <1>1, <1>2, <1>3, PTL DEF Spec
=============================================================================
