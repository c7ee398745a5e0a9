------------------------ MODULE MCSettingsJournal ------------------------
(***************************************************************************)
(* Two indexes with two values in pages of three records and rows of two   *)
(* instructions: a compaction copies over two rows, a page fills after one *)
(* further write, and the header counter passes its limit after twelve     *)
(* rotations.                                                              *)
(***************************************************************************)
EXTENDS SettingsJournal

MCValues == {1, 2}
=============================================================================
