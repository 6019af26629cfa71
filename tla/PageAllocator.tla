---------------------------- MODULE PageAllocator ----------------------------
(***************************************************************************)
(* What the physical memory manager promises the rest of the kernel        *)
(* (include/pmm.h): a fixed pool of page frames from which one frame at a  *)
(* time is taken and to which it can be given back.  A frame is never in   *)
(* two hands, and no frame appears or disappears once the pool is built.   *)
(***************************************************************************)

CONSTANT Frame      \* the page frames there may be

VARIABLES
  up,               \* the pool has been built
  avail,            \* frames nobody holds
  owned             \* frames handed out and not given back

vars == <<up, avail, owned>>

(* Without a memory map there is nothing to build and the pool stays empty. *)
Init ==
  /\ up \in BOOLEAN
  /\ avail = {}
  /\ owned = {}

(* The memory map has been read: some set of frames becomes the pool. *)
Build ==
  /\ ~up
  /\ up' = TRUE
  /\ avail' \in SUBSET Frame
  /\ UNCHANGED owned

Take(f) ==
  /\ up
  /\ f \in avail
  /\ avail' = avail \ {f}
  /\ owned' = owned \cup {f}
  /\ UNCHANGED up

Give(f) ==
  /\ f \in owned
  /\ owned' = owned \ {f}
  /\ avail' = avail \cup {f}
  /\ UNCHANGED up

Next == Build \/ \E f \in Frame : Take(f) \/ Give(f)

Spec == Init /\ [][Next]_vars

=============================================================================
