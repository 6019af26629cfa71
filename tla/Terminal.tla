------------------------------- MODULE Terminal -------------------------------
(***************************************************************************)
(* The text layer of the framebuffer driver, kernel/fb.c.                  *)
(*                                                                         *)
(* The screen is a grid of character cells.  A cell shows one image: a     *)
(* character in two colours, or one colour all over.  Each action below    *)
(* is a piece of a function of fb.c that writes one cell or moves the      *)
(* cursor; what calls them in which order is an operation sequence         *)
(* (fb_print, fb_println, ...), run one piece at a time by Do.             *)
(***************************************************************************)
EXTENDS Integers, Sequences

CONSTANTS
  fb_rows, fb_cols,      \* size of the screen in cells
  SCREEN_MAX_ROWS,       \* rows of screen_buf; its 128 columns exceed any fb_cols
  Char,                  \* characters other than NUL
  Space,                 \* the one of them whose glyph is empty
  NUL,                   \* the end of a string; in screen_buf, nothing to redraw
  Color,
  FB_WHITE, FB_BLACK

ASSUME TerminalAssumption ==
  /\ fb_rows \in Nat \ {0} /\ fb_cols \in Nat \ {0} /\ SCREEN_MAX_ROWS \in Nat \ {0}
  /\ Space \in Char /\ NUL \notin Char
  /\ FB_WHITE \in Color /\ FB_BLACK \in Color /\ FB_WHITE # FB_BLACK

VARIABLES
  pix,                   \* the image each cell shows
  screen_buf,            \* the characters remembered for redraw_screen; NUL for none
  cur_row, cur_col,
  theme                  \* theme_fg and theme_bg

termVars == <<pix, screen_buf, cur_row, cur_col, theme>>

Rows == 0..(fb_rows - 1)
Cols == 0..(fb_cols - 1)
BufRows == {r \in Rows : r < SCREEN_MAX_ROWS}

Fill(color) == [ch |-> Space, ink |-> color, paper |-> color]
Glyph(c, fg, bg) == IF c = Space THEN Fill(bg) ELSE [ch |-> c, ink |-> fg, paper |-> bg]

Black == [r \in Rows |-> [c \in Cols |-> Fill(FB_BLACK)]]
NoText == [r \in BufRows |-> [c \in Cols |-> NUL]]

TermInit ==
  /\ pix = Black                 \* what fb_clear has left
  /\ screen_buf = NoText
  /\ cur_row = 0 /\ cur_col = 0
  /\ theme = [fg |-> FB_WHITE, bg |-> FB_BLACK]

------------------------------------------------------------------------------
(* The screen after one call; p and b stand for pix and screen_buf.        *)

FillCursor(p, row, col, color) ==
  IF row \in Rows /\ col \in Cols THEN [p EXCEPT ![row][col] = Fill(color)] ELSE p

fb_draw_cursor ==
  /\ pix' = FillCursor(pix, cur_row, cur_col, theme.fg)
  /\ UNCHANGED <<screen_buf, cur_row, cur_col, theme>>

fb_erase_cursor ==
  /\ pix' = FillCursor(pix, cur_row, cur_col, theme.bg)
  /\ UNCHANGED <<screen_buf, cur_row, cur_col, theme>>

(* Mutant: the old place of the cursor is not erased. *)
fb_backspace_KeepsBlock ==
  /\ cur_col > 0
  /\ cur_col' = cur_col - 1
  /\ pix' = FillCursor(pix, cur_row, cur_col - 1, theme.fg)
  /\ screen_buf' = IF cur_row \in BufRows
                   THEN [screen_buf EXCEPT ![cur_row][cur_col - 1] = NUL] ELSE screen_buf
  /\ UNCHANGED <<cur_row, theme>>

fb_backspace ==
  \/ /\ cur_col = 0
     /\ UNCHANGED termVars
  \/ /\ cur_col > 0
     /\ cur_col' = cur_col - 1
     /\ pix' = FillCursor(FillCursor(pix, cur_row, cur_col, theme.bg),
                          cur_row, cur_col - 1, theme.fg)
     /\ screen_buf' = IF cur_row \in BufRows
                      THEN [screen_buf EXCEPT ![cur_row][cur_col - 1] = NUL]
                      ELSE screen_buf
     /\ UNCHANGED <<cur_row, theme>>

(* Mutants: the last row of screen_buf is not blanked; no scroll at all.   *)
ScrolledBuf_KeepsLast ==
  [r \in BufRows |-> IF r + 1 \in BufRows THEN screen_buf[r + 1] ELSE screen_buf[r]]
ScrollTo_Never(row) == cur_row' = row /\ UNCHANGED <<pix, screen_buf>>

(* One row up.  The new last row is black whatever the theme; of           *)
(* screen_buf only the rows it has take part.                              *)
ScrolledPix ==
  [r \in Rows |-> IF r + 1 \in Rows THEN pix[r + 1] ELSE [c \in Cols |-> Fill(FB_BLACK)]]
ScrolledBuf ==
  [r \in BufRows |-> IF r + 1 \in BufRows THEN screen_buf[r + 1] ELSE [c \in Cols |-> NUL]]

ScrollTo(row) ==
  IF row < fb_rows
  THEN cur_row' = row /\ UNCHANGED <<pix, screen_buf>>
  ELSE cur_row' = fb_rows - 1 /\ pix' = ScrolledPix /\ screen_buf' = ScrolledBuf

(* cur_row++, or fb_set_row(cur_row + 1), and the scroll that may follow. *)
Down == ScrollTo(cur_row + 1) /\ UNCHANGED <<cur_col, theme>>

(* if (cur_row >= fb_rows) fb_scroll() in front of the output. *)
MakeRoom == ScrollTo(cur_row) /\ UNCHANGED <<cur_col, theme>>

Home == cur_col' = 0 /\ UNCHANGED <<pix, screen_buf, cur_row, theme>>

(* fb_draw_char at the cursor, i cells to the right; write_fb stops at the *)
(* edge of the screen.                                                     *)
fb_draw_char(i, c) ==
  LET col == cur_col + i
  IN  /\ pix' = IF cur_row \in Rows /\ col \in Cols
                THEN [pix EXCEPT ![cur_row][col] = Glyph(c, theme.fg, theme.bg)] ELSE pix
      /\ screen_buf' = IF cur_row \in BufRows /\ col \in Cols
                       THEN [screen_buf EXCEPT ![cur_row][col] = c] ELSE screen_buf
      /\ UNCHANGED <<cur_row, cur_col, theme>>

(* Mutant: the wrap comes one column late. *)
Advance_Late ==
  /\ \/ cur_col < fb_cols /\ cur_col' = cur_col + 1 /\ UNCHANGED cur_row
     \/ cur_col >= fb_cols /\ cur_col' = 0 /\ cur_row' = cur_row + 1
  /\ UNCHANGED <<pix, screen_buf, theme>>

(* ++cur_col in fb_print_color; the wrap does not scroll yet. *)
Advance ==
  /\ \/ cur_col + 1 < fb_cols /\ cur_col' = cur_col + 1 /\ UNCHANGED cur_row
     \/ cur_col + 1 >= fb_cols /\ cur_col' = 0 /\ cur_row' = cur_row + 1
  /\ UNCHANGED <<pix, screen_buf, theme>>

fb_clear(color) ==
  /\ pix' = [r \in Rows |-> [c \in Cols |-> Fill(color)]]
  /\ UNCHANGED <<screen_buf, cur_row, cur_col, theme>>

fb_clear_screen ==
  /\ pix' = [r \in Rows |-> [c \in Cols |-> Fill(theme.bg)]]
  /\ screen_buf' = NoText
  /\ cur_row' = 0 /\ cur_col' = 0
  /\ UNCHANGED theme

(* What redraw_screen paints from screen_buf, the cursor apart. *)
Redrawn(fg, bg) ==
  [r \in Rows |-> [c \in Cols |->
     IF r \in BufRows /\ screen_buf[r][c] # NUL THEN Glyph(screen_buf[r][c], fg, bg)
                                                ELSE Fill(bg)]]

fb_update_theme(t) ==
  /\ theme' = t
  /\ pix' = FillCursor(Redrawn(t.fg, t.bg), cur_row, cur_col, t.fg)
  /\ UNCHANGED <<screen_buf, cur_row, cur_col>>

------------------------------------------------------------------------------
(* Operation sequences. *)

Op(name) == [op |-> name]
Put(i, c) == [op |-> "put", at |-> i, ch |-> c]

(* fb_print: erase the cursor, then character by character. *)
fb_print(text) ==
  <<Op("erase")>>
    \o [k \in 1..(3 * Len(text)) |->
          CASE k % 3 = 1 -> Op("room")
            [] k % 3 = 2 -> Put(0, text[(k + 1) \div 3])
            [] k % 3 = 0 -> Op("advance")]
    \o <<Op("draw")>>

(* fb_println: the text is cut at the edge, not wrapped. *)
fb_println(text) ==
  <<Op("erase"), Op("room")>>
    \o [k \in 1..Len(text) |-> Put(k - 1, text[k])]
    \o <<Op("home"), Op("down"), Op("draw")>>

Do(o) ==
  \/ o.op = "erase"   /\ fb_erase_cursor
  \/ o.op = "draw"    /\ fb_draw_cursor
  \/ o.op = "room"    /\ MakeRoom
  \/ o.op = "put"     /\ fb_draw_char(o.at, o.ch)
  \/ o.op = "advance" /\ Advance
  \/ o.op = "home"    /\ Home
  \/ o.op = "down"    /\ Down
  \/ o.op = "back"    /\ fb_backspace
  \/ o.op = "black"   /\ fb_clear(FB_BLACK)
  \/ o.op = "clear"   /\ fb_clear_screen
  \/ o.op = "theme"   /\ fb_update_theme(o.theme)

------------------------------------------------------------------------------
(* Properties of a screen nobody is writing to *)

CursorCell(r, c) == r = cur_row /\ c = cur_col

(* One cursor: the block in the text colour is nowhere but at the cursor,  *)
(* so every move of the cursor erased the block it left behind             *)
(* (fb.c:80-85, 157, 166, 170, 176, 206; keyboard.c:51-58).                *)
CursorAlone ==
  \A r \in Rows, c \in Cols :
    pix[r][c] = Fill(theme.fg) => CursorCell(r, c)

(* The screen shows what screen_buf remembers, character by character, so  *)
(* that redraw_screen loses nothing and brings nothing back                *)
(* (fb.c:83, 114, 127-133, 189-193).                                       *)
ScreenIsBuffer ==
  \A r \in Rows, c \in Cols :
    ~CursorCell(r, c) =>
      pix[r][c].ch = IF r \in BufRows /\ screen_buf[r][c] # NUL THEN screen_buf[r][c] ELSE Space

(* Output never mixes with older output: from the cursor on, in reading    *)
(* order, nothing is remembered and nothing is shown (fb.c:118-136, 187).  *)
BlankAhead ==
  \A r \in Rows, c \in Cols :
    r > cur_row \/ (r = cur_row /\ c >= cur_col)
      => /\ r \in BufRows => screen_buf[r][c] = NUL
         /\ pix[r][c].ch = Space

(* No cell has another background than the theme's ("paper  black          *)
(* off-white", shell.c:101).                                               *)
ThemeEverywhere ==
  \A r \in Rows, c \in Cols : pix[r][c].paper \in {theme.bg, theme.fg}

(* The blinking cursor (README.md:14) has a cell to blink in. *)
CursorOnScreen == cur_row \in Rows /\ cur_col \in Cols

===============================================================================
