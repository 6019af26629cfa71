------------------------------- MODULE MCReport --------------------------------
(* Lines of up to six characters for a buffer of six, of the letters m and *)
(* d, spaces, and the NUL a key without a character types; names of which  *)
(* some begin with others.  Ints have eight bits, an MB is 32 bytes, and   *)
(* the bitmap has room for 16 pages of 16 bytes, all that 8 bits address.  *)
EXTENDS Report

Letter == {"m", "d", " "}

mcChars == Letter \cup {"NUL"}

mcLines ==
  UNION {[1..k -> Letter] : k \in 0..6} \cup UNION {[1..k -> Letter \cup {"NUL"}] : k \in 1..3}

mcLeftovers == {[k \in 0..5 |-> "NUL"], [k \in 0..5 |-> IF k = 5 THEN "NUL" ELSE "d"]}

mcNames ==
  << <<"d", "m">>, <<"d", "d">>, <<"m">>, <<"d">>, <<"m", "d">>, <<"m", "m">> >>

mcPages     == {0, 1, 9, 15, 16}
mcSectors   == {0, 7, 100, 127, 128, 129, 255, 256, 300}
mcAddresses == {0, 10, 255, 256, 2748, 4095}
mcCodes     == {-128, -127, -1, 0, 6, 9, 10, 13, 99, 100, 127}

================================================================================
