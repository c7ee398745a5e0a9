---------------------------- MODULE MCSerialLink ----------------------------
(***************************************************************************)
(* Sequence numbers wrap after three frames and calls take up to five, so   *)
(* the wrap falls on every kind of frame; a bounded request gives up after  *)
(* two attempts, within the fault budget.                                   *)
(***************************************************************************)
EXTENDS SerialLink

Req(name, type, bounded, read, parts, answers) ==
    [name |-> name, type |-> type, bounded |-> bounded, read |-> read,
     parts |-> parts, answers |-> answers]

\* Calls of one frame each way: a write to the peripheral, another one, and the status poll.
Short == {Req("write", "i2c", FALSE, FALSE, 1, 1), Req("set", "i2c", FALSE, FALSE, 1, 1),
          Req("poll", "status", TRUE, FALSE, 1, 1)}

\* A write of two frames, and a read of two frames answered by three.
Long == {Req("write", "i2c", FALSE, FALSE, 2, 1), Req("read", "i2c", FALSE, TRUE, 2, 3)}

Env(asked, losable, damageable, upsets) ==
    [requests |-> asked, losable |-> losable, damageable |-> damageable, upsets |-> upsets]

\* What the protocol survives: calls of one frame survive any frame lost or damaged; calls of
\* several frames the loss of all but a later part of the answer; calls of one frame over a line
\* that only loses also a restart of the board; and one request made over and over also a wheel
\* taken off, or a cancelled call.
Same == {Req("write", "i2c", FALSE, FALSE, 1, 1)}
Survived == {Env(Short, Frames, Frames, {"slow"}),
             Env(Long, Frames \ {"laterAnswer"}, {"answer", "laterAnswer", "baseNak", "wqrNak"},
                 {"slow"}),
             Env(Short, Frames, {}, {"restart"}),
             Env(Same, Frames, {}, {"restart", "detach"}),
             Env(Same, Frames, {}, {"slow", "cancel"})}

\* What little breaks: an acknowledgement of the board damaged while a message of several frames
\* is sent after another one; an acknowledgement of the base damaged while an answer of several
\* frames is received; a poll that the board drops for a wheel taken off, its retry damaged.
Stale == {Env({Req("write", "i2c", FALSE, FALSE, 2, 1), Req("set", "i2c", FALSE, FALSE, 2, 1)},
              {}, {"wqrAck"}, {})}
Twice == {Env({Req("read", "i2c", FALSE, TRUE, 1, 2)}, {}, {"baseAck"}, {})}
Livelock == {Env({Req("poll", "status", TRUE, FALSE, 1, 1)}, {}, {"request"}, {"detach"})}
=============================================================================
