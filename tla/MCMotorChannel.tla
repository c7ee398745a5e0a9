--------------------------- MODULE MCMotorChannel ---------------------------
(***************************************************************************)
(* Three commands, of the host or requested by a startup, and three times a  *)
(* packet of the peer, a failed transfer, an odd control record, the start   *)
(* of a startup or a reset by a recovery: enough for the peer to reset the   *)
(* sequence twice and for a transfer to fail meanwhile, and for two startups *)
(* around a deferred upload.  One erased control record is tolerated, the    *)
(* second gives up.                                                         *)
(***************************************************************************)
EXTENDS MotorChannel
=============================================================================
