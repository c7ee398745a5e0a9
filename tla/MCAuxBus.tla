------------------------------- MODULE MCAuxBus -------------------------------
(***************************************************************************)
(* Two parameters, every protocol of the motor, and the host busy with at   *)
(* most two things at a time.                                               *)
(***************************************************************************)
EXTENDS AuxBus

Tested == {[protocol |-> "legacy", host |-> {"transfer", "console"}],
           [protocol |-> "standard", host |-> {"console"}],
           [protocol |-> "standard", host |-> {"transfer", "setting"}],
           [protocol |-> "extended", host |-> {"transfer", "command"}]}
=============================================================================
