-------------------------------- MODULE MCStubs --------------------------------
(* Every vector with a gate interrupts the main program; between any two   *)
(* instructions after that, an NMI (no error code) or a page fault.        *)
EXTENDS Stubs

mcOuter  == 0..33
mcNested == {2, 14}

================================================================================
