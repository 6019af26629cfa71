----------------------------- MODULE MCInterrupts -----------------------------
(***************************************************************************)
(* Instances of Interrupts for TLC: a few key events at any time, ticks    *)
(* and requests of the drive in between.                                   *)
(***************************************************************************)
EXTENDS Interrupts

===============================================================================
