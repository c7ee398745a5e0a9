--------------------------- MODULE MCWheelSession ---------------------------
(***************************************************************************)
(* WheelSession with an activity window of one tick, a selection window of *)
(* two, and every kind of wheel but "secure", which is a "memory" wheel    *)
(* without the status-memory startup.                                      *)
(***************************************************************************)
EXTENDS WheelSession

MCKinds == {"plain", "memory", "scan", "future", "odd"}
=============================================================================
