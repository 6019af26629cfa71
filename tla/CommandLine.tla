------------------------------ MODULE CommandLine ------------------------------
(***************************************************************************)
(* shell_exec and strcmp, loop round by loop round (kernel/shell.c,        *)
(* kernel/string.c): the copy of the line into a static buffer, the words  *)
(* cut out of it in place, and the search for the command.                 *)
(***************************************************************************)
EXTENDS Words

CONSTANTS
  Chars,             \* values of a char
  Lines,             \* what the keyboard driver's line may hold, as far as it is written
  Leftovers,         \* what buf may hold from earlier commands
  Names              \* the commands in the order shell_exec_args compares them

ASSUME LineAssumption ==
  /\ BufSize \in Nat \ {0} /\ MaxArgs \in Nat \ {0}
  /\ {NUL, Space} \subseteq Chars /\ NUL # Space
  /\ Lines \subseteq Seq(Chars) /\ Leftovers \subseteq [0..(BufSize - 1) -> Chars]

(* The commands' names are strings, and no two are the same. *)
ASSUME NamesAssumption ==
  /\ Names \in Seq(Seq(Chars)) /\ Names # <<>>
  /\ \A k \in 1..Len(Names) :
       /\ \A i \in 1..Len(Names[k]) : Names[k][i] # NUL
       /\ \A m \in 1..Len(Names) : Names[m] = Names[k] => m = k

VARIABLES
  pc,
  line, buf,         \* buf has indices 0..BufSize - 1
  j, p,              \* shell_exec's index and pointer, an index of buf
  argv,              \* the words' indices in buf
  cmd,               \* the name argv[0] is compared with; 0 for none
  a, b               \* strcmp's pointers, indices of buf and of the name

lineVars == <<line, buf, j, p, argv, cmd, a, b>>

CommandLineInit ==
  /\ line \in Lines /\ buf \in Leftovers
  /\ j = 0 /\ p = 0 /\ argv = <<>>
  /\ cmd = 0 /\ a = 0 /\ b = 0

Trans(here, next) == pc = here /\ pc' = next

Char(s, i) == IF i < Len(s) THEN s[i + 1] ELSE NUL

------------------------------------------------------------------------------
(* while (line[j] && j < 255) { buf[j] = line[j]; j++; } *)
Copy ==
  /\ pc = "copy"
  /\ \/ /\ Char(line, j) # NUL /\ j < BufSize - 1
        /\ buf' = [buf EXCEPT ![j] = Char(line, j)] /\ j' = j + 1
        /\ UNCHANGED pc
     \/ /\ ~(Char(line, j) # NUL /\ j < BufSize - 1)
        /\ buf' = [buf EXCEPT ![j] = NUL]
        /\ pc' = "word" /\ UNCHANGED j
  /\ UNCHANGED <<line, p, argv, cmd, a, b>>

Word ==
  /\ pc = "word"
  /\ pc' = IF buf[p] # NUL /\ Len(argv) < MaxArgs THEN "spaces" ELSE "exec"
  /\ UNCHANGED lineVars

Spaces ==
  /\ pc = "spaces"
  /\ \/ buf[p] = Space /\ p' = p + 1 /\ UNCHANGED <<pc, argv>>
     \/ buf[p] = NUL /\ pc' = "exec" /\ UNCHANGED <<p, argv>>
     \/ /\ buf[p] \notin {Space, NUL}
        /\ argv' = Append(argv, p)
        /\ pc' = "letters" /\ UNCHANGED p
  /\ UNCHANGED <<line, buf, j, cmd, a, b>>

(* Mutant: the space is passed over, but stays. *)
Letters_KeepsSpace ==
  /\ pc = "letters"
  /\ \/ buf[p] \notin {Space, NUL} /\ p' = p + 1 /\ UNCHANGED <<pc, buf>>
     \/ /\ buf[p] = Space
        /\ p' = p + 1
        /\ pc' = "word" /\ UNCHANGED buf
     \/ buf[p] = NUL /\ pc' = "word" /\ UNCHANGED <<p, buf>>
  /\ UNCHANGED <<line, j, argv, cmd, a, b>>

Letters ==
  /\ pc = "letters"
  /\ \/ buf[p] \notin {Space, NUL} /\ p' = p + 1 /\ UNCHANGED <<pc, buf>>
     \/ /\ buf[p] = Space
        /\ buf' = [buf EXCEPT ![p] = NUL] /\ p' = p + 1
        /\ pc' = "word"
     \/ buf[p] = NUL /\ pc' = "word" /\ UNCHANGED <<p, buf>>
  /\ UNCHANGED <<line, j, argv, cmd, a, b>>

shell_exec == Copy \/ Word \/ Spaces \/ Letters

------------------------------------------------------------------------------
(* shell_exec_args: compare argv[0] with one name after the other. *)

Exec ==
  /\ pc = "exec"
  /\ \/ argv = <<>> /\ pc' = "done" /\ UNCHANGED <<cmd, a, b>>
     \/ argv # <<>> /\ pc' = "strcmp" /\ cmd' = 1 /\ a' = argv[1] /\ b' = 0
  /\ UNCHANGED <<line, buf, j, p, argv>>

strcmp ==
  /\ pc = "strcmp"
  /\ LET c == Char(Names[cmd], b)
     IN  \/ /\ buf[a] # NUL /\ buf[a] = c
            /\ a' = a + 1 /\ b' = b + 1
            /\ UNCHANGED <<pc, cmd>>
         \/ /\ buf[a] = NUL /\ c = NUL                  \* the difference is 0
            /\ pc' = "done"
            /\ UNCHANGED <<cmd, a, b>>
         \/ /\ buf[a] # c
            /\ \/ /\ cmd < Len(Names)
                  /\ cmd' = cmd + 1 /\ a' = argv[1] /\ b' = 0
                  /\ UNCHANGED pc
               \/ /\ cmd = Len(Names)
                  /\ cmd' = 0 /\ pc' = "done"
                  /\ UNCHANGED <<a, b>>
  /\ UNCHANGED <<line, buf, j, p, argv>>

shell_exec_args == Exec \/ strcmp

------------------------------------------------------------------------------
(* Properties *)

Buffer == [k \in 1..BufSize |-> buf[k - 1]]

(* The words as a reader of argv finds them. *)
WordAt(q) == CString(SubSeq(Buffer, q + 1, BufSize))

(* The pointer walk finds exactly the words of the line as far as it was   *)
(* copied, every word ends inside buf, nothing left over from an earlier   *)
(* command shows through, and the chain of strcmp picks the command whose  *)
(* name argv[0] is (shell.c:14-31, string.c:3-9).                          *)
ParsedRight ==
  /\ j < BufSize /\ p < BufSize /\ a < BufSize
  /\ pc \in {"exec", "strcmp", "done"} =>
       [k \in 1..Len(argv) |-> WordAt(argv[k])] = Argv(Copied(CString(line)))
  /\ pc = "done" =>
       \A k \in 1..Len(Names) :
         (argv # <<>> /\ WordAt(argv[1]) = Names[k]) <=> cmd = k

================================================================================
