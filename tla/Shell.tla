-------------------------------- MODULE Shell --------------------------------
(***************************************************************************)
(* The command interpreter, kernel/shell.c: a line is cut into words and   *)
(* the command it names becomes a sequence of terminal operations.         *)
(*                                                                         *)
(* One character stands for each command name and each argument the        *)
(* interpreter knows; any longer word is an unknown one.  What a message   *)
(* says is left out: Text stands for a message that fits its row.          *)
(***************************************************************************)
EXTENDS Terminal, FiniteSets

CONSTANTS
  Text, HelpFlag,                              \* "a message", "--help"
  Help, Clear, Mem, Disk, Theme, Reboot,       \* the command names
  Themes,                \* the colours of each theme, by the name of the theme
  BufSize                \* size of line and of shell_exec's buf (256)

MaxArgs == 16

ASSUME ShellAssumption ==
  /\ {Text, HelpFlag, Help, Clear, Mem, Disk, Theme, Reboot} \subseteq Char \ {Space}
  /\ Themes \in [DOMAIN Themes -> [fg : Color, bg : Color]]
  /\ DOMAIN Themes \subseteq Char \ {Space, HelpFlag}
  /\ BufSize \in Nat \ {0}

(* In every theme the text differs from its background, and from the black *)
(* of the row a scroll brings in.                                          *)
ASSUME ThemesAssumption ==
  \A t \in DOMAIN Themes : Themes[t].fg \notin {Themes[t].bg, FB_BLACK}

INSTANCE Words

------------------------------------------------------------------------------

Say == fb_println(<<Text>>)
Lines(n) == [k \in 1..(n * Len(Say)) |-> Say[((k - 1) % Len(Say)) + 1]]   \* n messages

(* A command that takes no argument complains when it gets one. *)
Alone(argv, script) == IF Len(argv) = 1 THEN script ELSE Say

MemReport ==
  fb_print(<<Text>>) \o fb_print(<<Text>>) \o Say \o fb_print(<<Text>>) \o Say \o fb_print(<<Text>>) \o Say

DiskReport ==
  fb_print(<<Text>>) \o Say \o fb_print(<<Text>>) \o fb_print(<<Text>>)
    \o fb_print(<<Text>>) \o fb_print(<<Text>>) \o Say

ThemeScript(argv) ==
  IF Len(argv) # 2 THEN Say
  ELSE IF argv[2] = <<HelpFlag>> THEN Lines(9)
  ELSE IF \E t \in DOMAIN Themes : argv[2] = <<t>>
       THEN <<[op |-> "theme", theme |-> Themes[argv[2][1]]]>>
       ELSE fb_print(<<Text>>) \o fb_println(argv[2])

shell_exec_args(argv) ==
  IF argv = <<>> THEN <<>>
  ELSE CASE argv[1] = <<Help>>   -> Alone(argv, Lines(6))
         [] argv[1] = <<Clear>>  -> Alone(argv, <<Op("clear")>>)
         [] argv[1] = <<Mem>>    -> Alone(argv, MemReport)
         [] argv[1] = <<Disk>>   -> Alone(argv, DiskReport)
         [] argv[1] = <<Theme>>  -> ThemeScript(argv)
         [] argv[1] = <<Reboot>> -> Alone(argv, <<Op("reset")>>)
         [] OTHER -> fb_print(<<Text>>) \o fb_print(argv[1]) \o Say

shell_exec(s) == shell_exec_args(Argv(Copied(CString(s))))

==============================================================================
