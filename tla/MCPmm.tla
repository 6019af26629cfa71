-------------------------------- MODULE MCPmm --------------------------------
(***************************************************************************)
(* Instances of Pmm for TLC.  The bitmap has 16 bits and a uint32_t        *)
(* correspondingly 16 * 4096 values, so that a map of a few entries        *)
(* reaches the end of both.                                                *)
(***************************************************************************)
EXTENDS Pmm

K == 1024

E(base, length, type) == [base |-> base, length |-> length, type |-> type]

(* Whole pages without a hole: page 0 free, page 0 reserved, a map that    *)
(* fills the bitmap exactly.                                               *)
WholePages ==
  { << E(0, 8*K, 1), E(8*K, 4*K, 2), E(12*K, 12*K, 1) >>,
    << E(0, 4*K, 2), E(4*K, 16*K, 1) >>,
    << E(0, 12*K, 1), E(12*K, 44*K, 3), E(56*K, 8*K, 1) >> }

(* The shape a PC firmware reports: low memory that ends inside a page, a  *)
(* hole, a reserved ROM area, then the rest of memory.                     *)
PcMap == << E(0, 7*K, 1), E(7*K, 1*K, 2), E(16*K, 4*K, 2), E(20*K, 16*K, 1) >>

FittingMaps == WholePages \cup { PcMap, << >>, << E(0, 4*K, 1), E(64*K, 72*K, 1) >> }

PcMaps == { PcMap }

(* More memory than the bitmap has bits for. *)
BigMaps == { << E(0, 40*K, 1), E(40*K, 8*K, 2), E(48*K, 24*K, 1) >> }

==============================================================================
