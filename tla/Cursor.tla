-------------------------------- MODULE Cursor ---------------------------------
(***************************************************************************)
(* When the cursor shows: the tick counter (kernel/pit.c) and the cursor's *)
(* timing in fb_update_cursor and fb_cursor_activity (kernel/fb.c).  Where *)
(* the cursor is, and what lies beneath, is in Terminal.                   *)
(***************************************************************************)
EXTENDS Integers

CONSTANTS
  TickWord,             \* values of the uint32_t tick_count
  BlinkHalf,            \* 50 ticks on, 50 off
  CURSOR_SOLID_TICKS    \* 30

ASSUME CursorAssumption ==
  /\ CURSOR_SOLID_TICKS \in Nat \ {0}
  /\ BlinkHalf \in Nat /\ CURSOR_SOLID_TICKS < BlinkHalf
  /\ TickWord \in Nat /\ 2 * BlinkHalf <= TickWord

VARIABLES
  tick_count,
  last_activity,        \* tick_count at the last key press
  cursor,               \* whether the cursor is drawn
  since                 \* ticks since the last press, up to CURSOR_SOLID_TICKS;
                        \* last_activity is zero in .bss, so the boot counts as one

cursorVars == <<tick_count, last_activity, cursor, since>>

CursorInit ==
  /\ tick_count = 0 /\ last_activity = 0
  /\ cursor = FALSE /\ since = 0

(* Mutant: the end of the solid time is computed instead of the time gone  *)
(* by, which differs where the counter wraps.                              *)
Shown_Deadline(t) ==
  \/ t < (last_activity + CURSOR_SOLID_TICKS) % TickWord
  \/ (t \div BlinkHalf) % 2 = 0

Shown(t) ==
  \/ (t - last_activity) % TickWord < CURSOR_SOLID_TICKS
  \/ (t \div BlinkHalf) % 2 = 0

(* inc_ticks and fb_update_cursor, on a tick. *)
CursorTick ==
  /\ tick_count' = (tick_count + 1) % TickWord
  /\ cursor' = Shown(tick_count')
  /\ since' = IF since < CURSOR_SOLID_TICKS THEN since + 1 ELSE since
  /\ UNCHANGED last_activity

(* A key press: fb_cursor_activity, and what the key does redraws the      *)
(* cursor or, as a shift key, leaves it alone.                             *)
CursorPress ==
  /\ last_activity' = tick_count
  /\ cursor' \in {TRUE, cursor}
  /\ since' = 0
  /\ UNCHANGED tick_count

CursorTypeOK ==
  /\ {tick_count, last_activity} \subseteq 0..(TickWord - 1)
  /\ cursor \in BOOLEAN
  /\ since \in 0..CURSOR_SOLID_TICKS

================================================================================
