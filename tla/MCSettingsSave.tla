--------------------------- MODULE MCSettingsSave ---------------------------
(***************************************************************************)
(* Three words, two thresholds and two limits; three changes of settings and *)
(* two faults, so that a save can be cut off, repeated and cut off again.     *)
(***************************************************************************)
EXTENDS SettingsSave
=============================================================================
