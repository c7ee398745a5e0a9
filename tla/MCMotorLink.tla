---------------------------- MODULE MCMotorLink ----------------------------
(***************************************************************************)
(* A queue of two commands and a malformed limit of one, in four             *)
(* environments: a prompt main loop on a clean line, a slow main loop, a     *)
(* line that damages frames and one that slips.                              *)
(***************************************************************************)
EXTENDS MotorLink

Prompt == [prompt |-> TRUE, damage |-> {}, slips |-> FALSE,
           commands |-> 3, changes |-> 2, faults |-> 0]

MCEnvironments == {Prompt,
                   [Prompt EXCEPT !.prompt = FALSE, !.changes = 1],
                   [Prompt EXCEPT !.damage = {"checksum", "boundary"}, !.changes = 1, !.faults = 2],
                   [Prompt EXCEPT !.prompt = FALSE, !.slips = TRUE, !.commands = 2, !.changes = 1,
                                  !.faults = 1]}
=============================================================================
