------------------------- MODULE MCCommandTransport -------------------------
(***************************************************************************)
(* The five clients, with a forwarder and adapter commands that give up on  *)
(* the second pass that finds them waiting, and a mailbox that retries one  *)
(* erased control record; any answer may be malformed.                      *)
(***************************************************************************)
EXTENDS CommandTransport
=============================================================================
