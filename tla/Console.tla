------------------------------- MODULE Console -------------------------------
(***************************************************************************)
(* The interactive console from kernel_main's first message on: the main   *)
(* program that prints and then spins, the timer interrupt that blinks     *)
(* the cursor, and the keyboard interrupt that edits the line and runs     *)
(* commands (kernel/kernel.c, keyboard.c, shell.c, idt.c, fb.c).           *)
(*                                                                         *)
(* Both handlers are entered through interrupt gates, so nothing           *)
(* interrupts them; the main program prints with interrupts enabled, and   *)
(* the timer is already unmasked by then.                                  *)
(***************************************************************************)
EXTENDS Shell

CONSTANTS
  scancode_map,          \* the character of a key's code ...
  uppercase_map,         \* ... and with shift, NUL where the table has a 0
  Keys,                  \* the codes the keyboard sends
  MaxLine                \* bound on the length of a line, for TLC

ASSUME ConsoleAssumption ==
  /\ Keys \subseteq 0..255
  /\ scancode_map \in [DOMAIN scancode_map -> Char \cup {NUL}]
  /\ uppercase_map \in [DOMAIN scancode_map -> Char \cup {NUL}]
  /\ MaxLine \in 0..(BufSize + 3)

VARIABLES
  todo,                  \* operations the running code has still to do
  in_handler,            \* it is the keyboard handler: interrupts are off
  unmasked,              \* keyboard_init has unmasked the keyboard
  line,                  \* the first line_len characters of line[]
  shift,
  stopped

keyVars == <<line, shift, stopped>>
conVars == <<termVars, todo, in_handler, unmasked, keyVars>>

LShift == 42
RShift == 54
Enter == 28
Backspace == 14
LShiftUp == 170
RShiftUp == 182

Prompt == <<Text, Space>>

(* From pit_init on: clear, complain if the drive did not answer, greet. *)
kernel_main(identified) ==
  <<Op("black")>> \o (IF identified THEN <<>> ELSE Say)
    \o Say \o Say \o fb_print(Prompt) \o <<Op("unmask")>>

ConsoleInit ==
  /\ TermInit
  /\ \E identified \in BOOLEAN : todo = kernel_main(identified)
  /\ in_handler = FALSE
  /\ unmasked = FALSE
  /\ line = <<>> /\ shift = FALSE /\ stopped = FALSE

------------------------------------------------------------------------------
(* The code that is running does its next operation. *)

Reset ==          \* the reboot command: the machine starts anew
  /\ Head(todo).op = "reset"
  /\ pix' = Black /\ screen_buf' = NoText /\ cur_row' = 0 /\ cur_col' = 0
  /\ theme' = [fg |-> FB_WHITE, bg |-> FB_BLACK]
  /\ \E identified \in BOOLEAN : todo' = kernel_main(identified)
  /\ in_handler' = FALSE /\ unmasked' = FALSE
  /\ line' = <<>> /\ shift' = FALSE /\ stopped' = FALSE

Continue ==
  /\ todo # <<>>
  /\ \/ Reset
     \/ /\ \/ Do(Head(todo)) /\ UNCHANGED unmasked
           \/ Head(todo).op = "unmask" /\ unmasked' = TRUE /\ UNCHANGED termVars
        /\ todo' = Tail(todo)
        /\ in_handler' = (in_handler /\ Tail(todo) # <<>>)
        /\ UNCHANGED keyVars

(* isr_handler(32): whether the cursor is drawn or erased depends on the   *)
(* tick counter; both happen.                                              *)
timer_handler ==
  /\ ~in_handler
  /\ fb_draw_cursor \/ fb_erase_cursor
  /\ UNCHANGED <<todo, in_handler, unmasked, keyVars>>

(* The rest of a key's handler, run with interrupts off. *)
Handle(ops) == todo' = ops /\ in_handler' = (ops # <<>>)

(* line[line_len] = c.  Behind line[BufSize - 1] lie the four bytes of     *)
(* stopped, all zero while keys are still handled.                         *)
Store(c) ==
  /\ line' = Append(line, c)
  /\ stopped' = (Len(line) >= BufSize /\ c # NUL)
  /\ UNCHANGED shift

TypeKey(code) ==
  LET c == IF shift THEN uppercase_map[code] ELSE scancode_map[code]
  IN  /\ code \in DOMAIN scancode_map
      /\ Len(line) < MaxLine
      /\ Store(c)
      /\ Handle(fb_print(IF c = NUL THEN <<>> ELSE <<c>>))

(* Mutants: the cursor is left standing; the prompt starts in whatever     *)
(* column the line ended.                                                  *)
EnterKey_NoErase(code) ==
  /\ code = Enter
  /\ line' = <<>>
  /\ Handle(<<Op("down"), Op("home")>>
              \o shell_exec(line) \o fb_print(Prompt) \o <<Op("draw")>>)
  /\ UNCHANGED <<shift, stopped>>

EnterKey_NoHome(code) ==
  /\ code = Enter
  /\ line' = <<>>
  /\ Handle(<<Op("erase"), Op("down")>>
              \o shell_exec(line) \o fb_print(Prompt) \o <<Op("draw")>>)
  /\ UNCHANGED <<shift, stopped>>

EnterKey(code) ==
  /\ code = Enter
  /\ line' = <<>>
  /\ Handle(<<Op("erase"), Op("down"), Op("home")>>
              \o shell_exec(line) \o fb_print(Prompt) \o <<Op("draw")>>)
  /\ UNCHANGED <<shift, stopped>>

(* Mutant: the screen is edited, the line is not. *)
BackspaceKey_KeepsLine(code) ==
  /\ code = Backspace
  /\ Len(line) > 0
  /\ Handle(<<Op("back")>>)
  /\ UNCHANGED keyVars

BackspaceKey(code) ==
  /\ code = Backspace
  /\ \/ Len(line) > 0 /\ line' = SubSeq(line, 1, Len(line) - 1) /\ Handle(<<Op("back")>>)
     \/ Len(line) = 0 /\ UNCHANGED line /\ Handle(<<>>)
  /\ UNCHANGED <<shift, stopped>>

ShiftKey(code) ==
  /\ \/ code \in {LShiftUp, RShiftUp} /\ shift' = FALSE
     \/ code \in {LShift, RShift} /\ shift' = TRUE
  /\ Handle(<<>>)
  /\ UNCHANGED <<line, stopped>>

OtherRelease(code) ==
  /\ code >= 128 /\ code \notin {LShiftUp, RShiftUp}
  /\ Handle(<<>>)
  /\ UNCHANGED keyVars

keyboard_handler(code) ==
  /\ unmasked /\ todo = <<>>
  /\ \/ stopped /\ Handle(<<>>) /\ UNCHANGED keyVars
     \/ /\ ~stopped
        /\ \/ ShiftKey(code) \/ OtherRelease(code)
           \/ EnterKey(code) \/ BackspaceKey(code) \/ TypeKey(code)
  /\ UNCHANGED <<termVars, unmasked>>

------------------------------------------------------------------------------

ConsoleNext == Continue \/ timer_handler \/ \E code \in Keys : keyboard_handler(code)

ConsoleSpec == ConsoleInit /\ [][ConsoleNext]_conVars

(* No tick falls into the few messages the main program prints: from the   *)
(* prompt on every printing runs with interrupts off.                      *)
QuietNext ==
  \/ Continue
  \/ todo = <<>> /\ timer_handler
  \/ \E code \in Keys : keyboard_handler(code)

QuietSpec == ConsoleInit /\ [][QuietNext]_conVars

------------------------------------------------------------------------------
(* Properties *)

AtRest == todo = <<>>

Image == {Fill(k) : k \in Color} \cup [ch : Char \ {Space}, ink : Color, paper : Color]

ConsoleTypeOK ==
  /\ pix \in [Rows -> [Cols -> Image]]
  /\ screen_buf \in [BufRows -> [Cols -> Char \cup {NUL}]]
  /\ cur_row \in 0..fb_rows /\ cur_col \in Cols
  /\ theme \in [fg : Color, bg : Color]
  /\ line \in Seq(Char \cup {NUL}) /\ Len(line) <= MaxLine
  /\ {in_handler, unmasked, shift, stopped} \subseteq BOOLEAN
  /\ in_handler => unmasked /\ ~AtRest

(* Between two interrupts the cursor block stands only at the cursor. *)
OneCursor == AtRest => CursorAlone

(* Between two interrupts a redraw would show the text that is shown. *)
RedrawKeepsText == AtRest => ScreenIsBuffer

(* Cursor, screen and screen_buf agree, though every function keeps them   *)
(* by hand (fb.c:68-86, 114, 127-133, 198-206).                            *)
ScreenConsistent == OneCursor /\ RedrawKeepsText

(* Between two interrupts nothing is shown behind the cursor. *)
NothingAhead == AtRest => BlankAhead

(* The cells in front of the cursor, in reading order, show the prompt and *)
(* the line Enter would run: what is run is what is seen                   *)
(* (keyboard.c:54-66, 69-72 against fb.c:78-86, 156-167).                  *)
LineOnScreen ==
  AtRest /\ unmasked =>
    LET shown == Prompt \o line
        here  == cur_row * fb_cols + cur_col
    IN  \A i \in 1..Len(shown) :
          LET cell == here - Len(shown) + i - 1
          IN  cell >= 0 => pix[cell \div fb_cols][cell % fb_cols].ch = shown[i]

(* Nothing calls keyboard_stop (keyboard.c:32), so keys are always handled. *)
KeyboardListens == ~stopped

(* The cursor leaves the screen at one place only, the cell behind the     *)
(* last one, from where the next output scrolls it back                    *)
(* (fb.c:79, 140-143, 159-164, 171-175).                                   *)
CursorLostOnlyAtEnd == AtRest /\ ~CursorOnScreen => cur_row = fb_rows /\ cur_col = 0

(* After every handler there is a cell for the cursor to blink in. *)
CursorVisible == AtRest => CursorOnScreen

EnterIsDone == in_handler /\ ~in_handler' /\ line = <<>> /\ Head(todo).op = "draw"

PromptAlone ==
  /\ cur_row' \in Rows /\ cur_col' = Len(Prompt)
  /\ \A c \in Cols :
       pix'[cur_row'][c].ch = IF c < Len(Prompt) THEN Prompt[c + 1] ELSE Space

(* When Enter's handler is done, the cursor's row shows the prompt from    *)
(* its left edge on and nothing else: whatever the line was, wrapped,      *)
(* deleted or longer than its array, and whatever the command left in the  *)
(* row or scrolled away (keyboard.c:50-60, fb.c:88-96, 125-137, 156-190).  *)
PromptAfterEnter == [][EnterIsDone => PromptAlone]_conVars

(* Every cell has the theme's background once a handler is done. *)
ThemeKept == AtRest => ThemeEverywhere

(* The messages kernel_main prints (kernel.c:31-33) are on the screen when *)
(* it switches the keyboard on.                                            *)
GreetingShown ==
  [][~unmasked /\ unmasked' =>
       \A r \in 0..(cur_row - 1) : pix[r][0].ch = Text]_conVars

==============================================================================
