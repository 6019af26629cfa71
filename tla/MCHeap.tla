-------------------------------- MODULE MCHeap --------------------------------
(***************************************************************************)
(* Instances of Heap for TLC: a machine of a few pages and clients that    *)
(* ask for sizes on both sides of every boundary of the code.              *)
(***************************************************************************)
EXTENDS Heap, TLC

K == 1024

E(base, length, type) == [base |-> base, length |-> length, type |-> type]

(* Page 0 is reserved: the list of the heap starts at an address other     *)
(* than 0.  Once the three pages of the heap are neighbours, once the      *)
(* first stands apart from the others.                                     *)
PageZeroReserved ==
  { << E(0, 4*K, 2), E(4*K, 12*K, 1) >>,
    << E(0, 4*K, 2), E(4*K, 4*K, 1), E(8*K, 4*K, 2), E(12*K, 8*K, 1) >> }

(* The map of a PC: memory starts with available memory at address 0. *)
PageZeroFree == { << E(0, 16*K, 1), E(16*K, 4*K, 2) >> }

Machines == PageZeroReserved \cup PageZeroFree

ClientSymmetry == Permutations(Client)

(* 4044 is the largest size a page is split for, 4072 a whole page. *)
SplitSizes == {0, 1500, 2000, 4044, 4045, 4072}
PageSizes  == {0, 2000, 4044, 4045, 4072}

===============================================================================
