--------------------------------- MODULE MCAta ---------------------------------
(***************************************************************************)
(* Instances of Ata for TLC: sectors of two words, three polls, reads of   *)
(* up to four sectors (one, the only case that hangs, to more than two).   *)
(***************************************************************************)
EXTENDS Ata

===============================================================================
