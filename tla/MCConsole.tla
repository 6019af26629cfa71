------------------------------ MODULE MCConsole ------------------------------
(***************************************************************************)
(* Instances of Console for TLC: a screen of a few cells.  The key C types *)
(* the word "clear", T the word "theme", P the word "paper"; A types a     *)
(* letter, or another one with shift.  H, M, D, R and the minus key type    *)
(* "help", "mem", "disk", "reboot" and "--help".                           *)
(***************************************************************************)
EXTENDS Console

KeyA == 30
KeyC == 46
KeyT == 20
KeyP == 25
KeyH == 35
KeyM == 50
KeyD == 32
KeyR == 19
KeyMinus == 12
KeySpace == 57
KeyEsc == 1
KeyCapsLock == 58

(* Esc has a 0 in both tables.  CapsLock is the first code behind the      *)
(* tables: in the build the byte there is a '0', and with shift padding.   *)
Lower ==
  [code \in {KeyA, KeyC, KeyT, KeyP, KeyH, KeyM, KeyD, KeyR, KeyMinus,
             KeySpace, KeyEsc, KeyCapsLock} |->
     CASE code = KeyA -> "a"
       [] code = KeyC -> "clear"
       [] code = KeyT -> "theme"
       [] code = KeyP -> "paper"
       [] code = KeyH -> "help"
       [] code = KeyM -> "mem"
       [] code = KeyD -> "disk"
       [] code = KeyR -> "reboot"
       [] code = KeyMinus -> "--help"
       [] code = KeySpace -> " "
       [] code = KeyEsc -> "NUL"
       [] code = KeyCapsLock -> "0"]

Upper ==
  [code \in DOMAIN Lower |->
     CASE code = KeyEsc \/ code = KeyCapsLock -> "NUL"
       [] code = KeyA -> "A"
       [] OTHER -> Lower[code]]

Chars == {" ", "m", "a", "A", "0", "--help",
          "help", "clear", "mem", "disk", "theme", "reboot", "paper", "default"}

Colors == {"white", "black", "ink", "offwhite"}

ThemeTable ==
  [t \in {"default", "paper"} |->
     IF t = "paper" THEN [fg |-> "ink", bg |-> "offwhite"]
                    ELSE [fg |-> "white", bg |-> "black"]]

EditKeys == {Enter, Backspace}

TidyKeys    == EditKeys \cup {KeyA, KeyC, KeyA + 128, LShift, LShiftUp}
CommandKeys == EditKeys \cup {KeyA + 128, KeyC, KeyH, KeyD, KeyR, KeyT, KeyP, KeySpace}
ThemeKeys   == {Enter, KeyT, KeyP, KeySpace}
WildKeys    == EditKeys \cup {KeyCapsLock, LShift, LShiftUp}
LongKeys    == {KeyA, KeyEsc, Backspace}

=============================================================================
