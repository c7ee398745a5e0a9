---------------------------- MODULE MCPedalService ----------------------------
(***************************************************************************)
(* Every kind of pedals, two settings, and environments in which a few      *)
(* things happen at a time.                                                 *)
(***************************************************************************)
EXTENDS PedalService

Still == [prompt |-> TRUE, clean |-> TRUE, analog |-> {}, plugs |-> 1, losses |-> 0, changes |-> 0, presses |-> 0,
          restarts |-> 0, controls |-> 0]

Tested == {[Still EXCEPT !.plugs = 2, !.losses = 1],
           [Still EXCEPT !.plugs = 2, !.analog = {"present", "detected"}, !.restarts = 1],
           [Still EXCEPT !.plugs = 2, !.controls = 1, !.restarts = 1],
           [Still EXCEPT !.changes = 2, !.losses = 1],
           [Still EXCEPT !.changes = 3, !.presses = 1],
           [Still EXCEPT !.changes = 1, !.restarts = 1, !.presses = 1],
           [Still EXCEPT !.presses = 2],
           [Still EXCEPT !.presses = 1, !.losses = 2],
           [Still EXCEPT !.prompt = FALSE, !.plugs = 2, !.changes = 1],
           [Still EXCEPT !.plugs = 3, !.changes = 1, !.presses = 1]}

Lossy == {[Still EXCEPT !.presses = 1, !.losses = 1]}
Pressed == {[Still EXCEPT !.presses = 1]}
Pulled == {[Still EXCEPT !.plugs = 2]}
=============================================================================
