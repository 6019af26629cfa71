-------------------------------- MODULE Report ---------------------------------
(***************************************************************************)
(* The numbers the kernel shows: those of the commands mem and disk, as    *)
(* the command line runs them (kernel/shell.c), and those isr_handler      *)
(* shows for an exception (kernel/idt.c), written by int_to_str and        *)
(* addr_to_str digit by digit (kernel/fb.c).                               *)
(***************************************************************************)
EXTENDS CommandLine

CONSTANTS
  UintWord,          \* values of a uint32_t
  HexDigits,         \* digits of an address (16)
  TmpSize,           \* size of int_to_str's tmp (11)
  NumBuf,            \* size of the smallest caller's buffer (16)
  PageSize, SectorSize, MB,            \* 4096, 512, 2^20
  Pages, Sectors,    \* sizes of memory in pages and of the disk in sectors
  Addresses, Codes,  \* of page faults; vectors and error codes of the others
  Mem, Disk          \* the places of "mem" and "disk" in Names

ASSUME ReportAssumption ==
  /\ UintWord \in Nat /\ UintWord > 0 /\ UintWord % 2 = 0
  /\ {Mem, Disk} \subseteq DOMAIN Names

VARIABLES
  todo,              \* the numbers still to be shown
  item,              \* the one that is converted
  n, tmp, text       \* the number left, its digits, what is written

numVars == <<todo, item, n, tmp, text>>
vars == <<pc, lineVars, numVars>>

IntMax == UintWord \div 2 - 1
Least  == -(IntMax + 1)
AsInt(u) == LET w == u % UintWord IN IF w > IntMax THEN w - UintWord ELSE w
Minus == -1
EndOfText == -2

(* The number a text of digits denotes, and the largest one of k digits.   *)
Denoted(s, radix) ==
  LET value[k \in 0..Len(s)] == IF k = 0 THEN 0 ELSE value[k - 1] * radix + s[k]
  IN  value[Len(s)]
Largest(k, radix) == Denoted([d \in 1..k |-> radix - 1], radix)

(* The digits of an address hold every address, tmp and the smallest       *)
(* buffer every int with its sign and the NUL, and the codes are ints.     *)
ASSUME NumberAssumption ==
  /\ Pages \subseteq Nat /\ PageSize \in Nat
  /\ Sectors \subseteq Nat /\ SectorSize \in Nat
  /\ MB \in Nat /\ MB >= 2
  /\ HexDigits \in Nat /\ Addresses \subseteq 0..Largest(HexDigits, 16)
  /\ Codes \subseteq Least..IntMax
  /\ TmpSize \in Nat /\ NumBuf \in Nat
  /\ \E k \in 0..TmpSize : IntMax + 1 <= Largest(k, 10) /\ k + 2 <= NumBuf

(* A number to be shown: the value passed, the one that is meant, and      *)
(* whether the types on the way can hold it.                               *)
Num(v, meant) ==
  [fn |-> "int_to_str", value |-> v, meant |-> meant, fits |-> meant <= IntMax]
Addr(v) == [fn |-> "addr_to_str", value |-> v, meant |-> v, fits |-> TRUE]

(* A line has been entered, or an exception has struck: its handler has    *)
(* nothing to do with the line.                                            *)
Init ==
  /\ CommandLineInit
  /\ \/ pc = "copy"
     \/ pc = "isr" /\ line = <<>>
  /\ todo = <<>> /\ item = Addr(0)
  /\ n = 0 /\ tmp = <<>> /\ text = <<>>

------------------------------------------------------------------------------
(* Who shows numbers. *)

Shows(items) ==
  /\ todo' = items /\ pc' = "next"
  /\ UNCHANGED <<lineVars, item, n, tmp, text>>

(* (total_pages*4096) >> 20 in 32 bits. *)
MemNumbers(total, free) ==
  << [Num(((total * PageSize) % UintWord) \div MB, (total * PageSize) \div MB)
        EXCEPT !.fits = total * PageSize < UintWord],
     Num(AsInt(free), free), Num(AsInt(total - free), total - free) >>

(* total_sectors has 64 bits; both numbers are passed as ints. *)
DiskNumbers(sectors) ==
  << Num(AsInt((sectors * SectorSize) \div MB), (sectors * SectorSize) \div MB),
     Num(AsInt(sectors), sectors) >>

mem ==
  /\ pc = "done" /\ cmd = Mem /\ Len(argv) = 1
  /\ \E total \in Pages, free \in Pages : free <= total /\ Shows(MemNumbers(total, free))

disk ==
  /\ pc = "done" /\ cmd = Disk /\ Len(argv) = 1
  /\ \E sectors \in Sectors : Shows(DiskNumbers(sectors))

isr_handler ==
  /\ pc = "isr"
  /\ \/ \E addr \in Addresses : Shows(<<Addr(addr)>>)
     \/ \E num \in Codes, code \in Codes : Shows(<<Num(num, num), Num(code, code)>>)

NextNumber ==
  /\ pc = "next"
  /\ \/ /\ todo # <<>>
        /\ item' = Head(todo) /\ todo' = Tail(todo)
        /\ n' = Head(todo).value /\ tmp' = <<>> /\ text' = <<>>
        /\ pc' = Head(todo).fn
     \/ todo = <<>> /\ pc' = "end" /\ UNCHANGED numVars
  /\ UNCHANGED lineVars

------------------------------------------------------------------------------
(* int_to_str.  Negating the least int is undefined: the result is the     *)
(* number without a sign, or wraps, and then it is for the compiler to say *)
(* for how many rounds the loop goes on with a negative number, whose      *)
(* remainders are negative too.                                            *)

int_to_str ==
  /\ pc = "int_to_str"
  /\ \/ n = 0 /\ text' = <<0, EndOfText>> /\ pc' = "next" /\ UNCHANGED n
     \/ n < 0 /\ text' = <<Minus>> /\ n' = -n /\ pc' = "digits"
     \/ n = Least /\ text' = <<Minus>> /\ pc' = "digits" /\ UNCHANGED n
     \/ n > 0 /\ pc' = "digits" /\ UNCHANGED <<n, text>>
  /\ UNCHANGED <<lineVars, todo, item, tmp>>

(* Mutant: the loop stops at the last digit. *)
Digits_OneLess ==
  /\ pc = "digits"
  /\ \/ n > 9 /\ tmp' = Append(tmp, n % 10) /\ n' = n \div 10 /\ UNCHANGED pc
     \/ n <= 9 /\ pc' = "reverse" /\ UNCHANGED <<n, tmp>>
  /\ UNCHANGED <<lineVars, todo, item, text>>

Digits ==
  /\ pc = "digits"
  /\ \/ n > 0 /\ tmp' = Append(tmp, n % 10) /\ n' = n \div 10 /\ UNCHANGED pc
     \/ n < 0 /\ tmp' = Append(tmp, -((-n) % 10)) /\ n' = -((-n) \div 10) /\ UNCHANGED pc
     \/ n <= 0 /\ pc' = "reverse" /\ UNCHANGED <<n, tmp>>
  /\ UNCHANGED <<lineVars, todo, item, text>>

Reverse ==
  /\ pc = "reverse"
  /\ \/ /\ tmp # <<>>
        /\ text' = Append(text, tmp[Len(tmp)]) /\ tmp' = SubSeq(tmp, 1, Len(tmp) - 1)
        /\ UNCHANGED pc
     \/ tmp = <<>> /\ text' = Append(text, EndOfText) /\ pc' = "next" /\ UNCHANGED tmp
  /\ UNCHANGED <<lineVars, todo, item, n>>

(* addr_to_str writes its digits from the last one to the first. *)
addr_to_str ==
  /\ pc = "addr_to_str"
  /\ \/ /\ Len(text) < HexDigits
        /\ text' = <<n % 16>> \o text /\ n' = n \div 16
        /\ UNCHANGED pc
     \/ /\ Len(text) = HexDigits
        /\ text' = Append(text, EndOfText) /\ pc' = "next" /\ UNCHANGED n
  /\ UNCHANGED <<lineVars, todo, item, tmp>>

Number == int_to_str \/ Digits \/ Reverse \/ addr_to_str

Line == (shell_exec \/ shell_exec_args) /\ UNCHANGED numVars

Next == Line \/ mem \/ disk \/ isr_handler \/ NextNumber \/ Number

Spec == Init /\ [][Next]_vars

------------------------------------------------------------------------------
(* Properties *)

Body == SubSeq(text, 1, Len(text) - 1)

DecimalOf(v) ==
  LET digits == IF v < 0 THEN Tail(Body) ELSE Body
  IN  /\ v < 0 => Head(text) = Minus
      /\ digits # <<>> /\ \A k \in 1..Len(digits) : digits[k] \in 0..9
      /\ digits[1] = 0 => Len(digits) = 1
      /\ Denoted(digits, 10) = IF v < 0 THEN -v ELSE v

(* Every text is the number it stands for, without leading zeros, but for  *)
(* the least int, whose text is undefined (fb.c:230); the number is the    *)
(* one meant as long as the types on the way hold it, which takes less     *)
(* than 4 GiB of memory and less than 2^31 sectors; and no digit, the      *)
(* least int's included, goes behind tmp or a caller's buffer              *)
(* (fb.c:215-235, shell.c:61, 82-85, idt.c:41-64).                         *)
NumberShown ==
  /\ Len(tmp) <= TmpSize
  /\ item.fn = "int_to_str" => Len(text) <= NumBuf
  /\ pc \in {"next", "end"} /\ text # <<>> =>
       /\ item.fits => item.value = item.meant
       /\ IF item.fn = "addr_to_str"
          THEN Len(Body) = HexDigits /\ Denoted(Body, 16) = item.value
          ELSE item.value # Least => DecimalOf(item.value)

(* mem shows the size of every memory the bitmap covers (pmm.c:5,          *)
(* shell.c:61-64).                                                         *)
MemShown == cmd = Mem => item.value = item.meant

================================================================================
