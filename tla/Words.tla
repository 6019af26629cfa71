--------------------------------- MODULE Words ---------------------------------
(***************************************************************************)
(* What shell_exec (kernel/shell.c) makes of a line, by its words: the     *)
(* definition Shell works with, and that CommandLine's loops over          *)
(* pointers are compared with.                                             *)
(***************************************************************************)
EXTENDS Integers, Sequences, FiniteSets

CONSTANTS
  NUL, Space,
  BufSize,               \* size of line and of shell_exec's buf (256)
  MaxArgs                \* size of argv (16)

(* The C string in a buffer ends at the first NUL; shell_exec copies at    *)
(* most BufSize - 1 characters of it.                                      *)
CString(s) ==
  SubSeq(s, 1, CHOOSE n \in 0..Len(s) :
                 /\ \A i \in 1..n : s[i] # NUL
                 /\ n < Len(s) => s[n + 1] = NUL)
Copied(s) == SubSeq(s, 1, IF Len(s) < BufSize THEN Len(s) ELSE BufSize - 1)

(* argv: the words between spaces, the first MaxArgs of them.              *)
Argv(s) ==
  LET starts == {i \in 1..Len(s) : s[i] # Space /\ (i = 1 \/ s[i - 1] = Space)}
      Stop(i) == CHOOSE e \in i..Len(s) : /\ \A j \in i..e : s[j] # Space
                                          /\ e < Len(s) => s[e + 1] = Space
      Start(k) == CHOOSE i \in starts : Cardinality({j \in starts : j <= i}) = k
      argc     == IF Cardinality(starts) < MaxArgs THEN Cardinality(starts) ELSE MaxArgs
  IN  [k \in 1..argc |-> SubSeq(s, Start(k), Stop(Start(k)))]

================================================================================
