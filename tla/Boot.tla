--------------------------------- MODULE Boot ----------------------------------
(***************************************************************************)
(* From the boot loader to the command line: boot/boot.s and the order of  *)
(* the calls in kernel_main (kernel/kernel.c), composed of the search of   *)
(* the boot information (Multiboot), of the page tables (Paging) and of    *)
(* the places where kernel/fb.c writes to the framebuffer.                 *)
(*                                                                         *)
(* An access whose page is not mapped to itself is a fault.  Until         *)
(* idt_init there is no handler, and the machine resets; from then on the  *)
(* handler reports it and returns to the instruction that faulted.         *)
(***************************************************************************)
EXTENDS Multiboot, Paging

CONSTANTS
  TargetCols,        \* 96: the columns the glyph's width is chosen for
  MinGlyph,          \* 8: the narrowest glyph
  SCREEN_MAX_COLS,   \* 128
  Word,              \* values of a uint32_t
  KernelPages,       \* big pages of the kernel's image, stack and tables
  MemPages           \* big pages pmm_alloc's frames may lie in

ASSUME GeometryAssumption ==
  /\ TargetCols \in Nat \ {0} /\ MinGlyph \in Nat \ {0}
  /\ SCREEN_MAX_COLS \in Nat
  /\ SCREEN_MAX_COLS >= TargetCols + (TargetCols - 1) \div MinGlyph

(* A framebuffer's height is a uint32_t (multiboot.h:50). *)
ASSUME HeightAssumption ==
  /\ Word \in Nat \ {0}
  /\ \A x \in Infos : \A a \in DOMAIN x : x[a].fb.height < Word

ASSUME MemoryAssumption ==
  KernelPages \subseteq Index /\ MemPages \subseteq Index /\ MemPages # {}

VARIABLES
  y,                 \* fb_clear's line
  access             \* the bytes the last step touched, from .. up to

vars == <<pc, mbVars, pgVars, y, access>>

Nowhere == <<0, 0>>

Init ==
  /\ pc = "_start"
  /\ MultibootInit
  /\ PagingInit
  /\ y = 0 /\ access = Nowhere

------------------------------------------------------------------------------
(* What fb_init computes from the description. *)

fb_size == fb.height * fb.pitch

glyph_w ==
  IF fb = NoFb THEN 0
  ELSE LET w == fb.width \div TargetCols IN IF w < MinGlyph THEN MinGlyph ELSE w

glyph_h == 2 * glyph_w
fb_cols == IF glyph_w = 0 THEN 0 ELSE fb.width \div glyph_w
fb_rows == IF glyph_h = 0 THEN 0 ELSE fb.height \div glyph_h

------------------------------------------------------------------------------
(* Where fb.c writes. *)

(* fb_clear, one line: four bytes a pixel whatever the pixel's size. *)
ClearedLine == LET row == fb.addr + y * fb.pitch IN <<row, row + 4 * fb.width>>

(* fb_draw_pixel: four bytes at the pixel's place. *)
PixelAt(px, py) ==
  LET pixel == fb.addr + py * fb.pitch + px * fb.bytes IN <<pixel, pixel + 4>>

(* The pixels of fb_draw_char and fb_fill_cell on the cells of the screen. *)
CellPixels ==
  {PixelAt(px, py) : px \in 0..(fb_cols * glyph_w - 1), py \in 0..(fb_rows * glyph_h - 1)}

(* Mutant: all rows are moved, one of them from below the screen. *)
Scrolled_AllRows ==
  LET row_bytes == glyph_h * fb.pitch
      moved     == ((fb_rows * row_bytes) \div 8) * 8
      cleared   == (row_bytes \div 8) * 8
  IN  <<fb.addr, fb.addr + moved + cleared>>

(* fb_scroll: rep movsq of all lines but one, rep stosq of one.            *)
Scrolled ==
  LET row_bytes == glyph_h * fb.pitch
      moved     == ((((fb_rows - 1) % Word) * row_bytes) \div 8) * 8
      cleared   == (row_bytes \div 8) * 8
  IN  <<fb.addr, fb.addr + moved + cleared>>

(* A text goes to the cells; with no row on the screen every character     *)
(* scrolls first.                                                          *)
TextAccesses == CellPixels \cup {Scrolled}

(* heap_init builds its header in the first frame of pmm_alloc, at address *)
(* 0 when the memory map was missing.                                      *)
HeapAccesses ==
  IF visited = <<>> THEN {<<0, 1>>}
  ELSE {<<n * BigPage, n * BigPage + 1>> : n \in MemPages}

Accesses ==
  CASE pc \in {"fb_clear", "fb_clear_2"} /\ y < fb.height -> {ClearedLine}
    [] pc = "heap_init" -> HeapAccesses
    [] pc = "greeting"  -> TextAccesses
    [] pc = "up"        -> TextAccesses \cup HeapAccesses
    [] OTHER            -> {Nowhere}

------------------------------------------------------------------------------
(* Faults *)

KernelReachable == \A n \in KernelPages : Translated(n) = n * BigPage

Works(a) == KernelReachable /\ (a[1] < a[2] => Reachable(a[1], a[2]))

NoPaging == {"_start", "l1"}
NoHandler ==
  {"mmap_first", "pmm_init", "mmap_next", "fb_init", "paging_map_fb", "map",
   "fb_clear", "idt_init"}

(* No handler: the processor resets, and the boot loader starts again.     *)
TripleFault ==
  /\ pc \in NoHandler
  /\ \E a \in Accesses : ~Works(a)
  /\ pc' = "_start" /\ tag' = InfoHeader
  /\ current' = 0 /\ visited' = <<>> /\ fb' = NoFb
  /\ pml4' = FALSE /\ pdpt' = [k \in Index |-> "none"]
  /\ pd' = [k \in Index |-> Absent] /\ fb_pd' = [k \in Index |-> Absent]
  /\ eax' = 0 /\ i' = 0
  /\ y' = 0 /\ access' = Nowhere
  /\ UNCHANGED info

Fault ==
  /\ pc \notin NoPaging \cup NoHandler \cup {"faulting"}
  /\ \E a \in Accesses : ~Works(a) /\ access' = a
  /\ pc' = "faulting"
  /\ UNCHANGED <<mbVars, pgVars, y>>

(* isr_handler prints its report and returns, and the instruction faults   *)
(* again.                                                                  *)
FaultAgain == pc = "faulting" /\ UNCHANGED vars

(* An access that works. *)
Touch(a) == Works(a) /\ access' = a

------------------------------------------------------------------------------
(* boot.s and kernel_main *)

Start == Trans("_start", "l1") /\ LinkTables /\ UNCHANGED <<mbVars, y, access>>

IdentityMap ==
  /\ pc = "l1"
  /\ \/ l1 /\ UNCHANGED pc
     \/ eax >= Entries /\ pc' = "mmap_first" /\ UNCHANGED pgVars
  /\ UNCHANGED <<mbVars, y, access>>

pmm_and_fb_init == ReadInfo /\ Touch(Nowhere) /\ UNCHANGED <<pgVars, y>>

(* The tables are written first, cr3 is loaded at the end; until then the  *)
(* processor may still know the kernel's old translation, or not.          *)
paging_map_fb ==
  /\ \/ /\ Trans("paging_map_fb", "map")
        /\ fb.addr # 0 /\ fb_size # 0
        /\ Works(Nowhere) /\ LinkFb(fb.addr)
     \/ /\ Trans("paging_map_fb", "fb_clear")
        /\ fb.addr = 0 \/ fb_size = 0
        /\ Works(Nowhere) /\ UNCHANGED pgVars
     \/ pc = "map" /\ MapPage(fb.addr, fb_size) /\ UNCHANGED pc
     \/ /\ Trans("map", "fb_clear")
        /\ ~MapsMore(fb.addr, fb_size) /\ UNCHANGED pgVars
  /\ UNCHANGED <<mbVars, y, access>>

fb_clear(here, next) ==
  /\ pc = here
  /\ \/ y < fb.height /\ Touch(ClearedLine) /\ y' = y + 1 /\ UNCHANGED pc
     \/ y >= fb.height /\ Touch(Nowhere) /\ y' = 0 /\ pc' = next
  /\ UNCHANGED <<mbVars, pgVars>>

Call(here, next) ==
  /\ Trans(here, next)
  /\ \E a \in Accesses : Touch(a)
  /\ UNCHANGED <<mbVars, pgVars, y>>

kernel_main ==
  \/ pmm_and_fb_init
  \/ paging_map_fb
  \/ fb_clear("fb_clear", "idt_init")
  \/ Call("idt_init", "heap_init")
  \/ Call("heap_init", "fb_clear_2")
  \/ fb_clear("fb_clear_2", "greeting")
  \/ Call("greeting", "up")

(* The idle loop, and the screen and the heap as the interrupts use them.  *)
Idle == Call("up", "up")

Next == Start \/ IdentityMap \/ kernel_main \/ Idle \/ TripleFault \/ Fault \/ FaultAgain

(* A processor runs: the program never stops between two steps. *)
Spec == Init /\ [][Next]_vars /\ WF_vars(Next)

------------------------------------------------------------------------------
(* Properties *)

(* Types, and the loop of paging_map_fb never goes behind its directory.   *)
BootTypeOK ==
  /\ info \in Infos
  /\ pc \in NoPaging \cup NoHandler
            \cup {"heap_init", "fb_clear_2", "greeting", "up", "faulting"}
  /\ pml4 \in BOOLEAN
  /\ pdpt \in [Index -> {"none", "pd", "fb_pd"}]
  /\ pd \in [Index -> Int] /\ fb_pd \in [Index -> Int]
  /\ eax \in 0..Entries /\ y \in Nat
  /\ i \in Nat /\ PdStart(fb.addr) + i <= Entries

(* A search of the boot information never looks between two tags or behind *)
(* the end tag; when pmm_init's loop is done it has read each entry of the *)
(* first memory map once, in order, and nothing behind the last one; and   *)
(* fb_init has come to the first framebuffer's tag.  What is not listed is *)
(* not found.                                                              *)
ReadingMap == {"mmap_first", "pmm_init", "mmap_next"}

InfoRead ==
  /\ OnTags
  /\ pc \notin NoPaging \cup ReadingMap => MapRead
  /\ pc \notin NoPaging \cup ReadingMap \cup {"fb_init"} => FbRead

(* boot.s has mapped the first region, and paging_map_fb does not take it  *)
(* away from a framebuffer above that region.                              *)
FirstRegionMapped ==
  pc \notin NoPaging /\ (fb.addr >= Region \/ fb.addr = 0 \/ fb_size = 0)
    => \A n \in Index : Translated(n) = n * BigPage

(* Once paging_map_fb has returned, every page a byte of the framebuffer   *)
(* lies in is mapped, up to the end of the region the framebuffer begins   *)
(* in: the one directory goes no further.                                  *)
FramebufferMapped ==
  /\ fb.addr # 0 /\ fb_size # 0
  /\ pc \notin NoPaging \cup ReadingMap \cup {"fb_init", "paging_map_fb", "map"}
  => \A n \in (fb.addr \div BigPage)..((fb.addr + fb_size - 1) \div BigPage) :
       n \div Entries = fb.addr \div Region => Translated(n) = n * BigPage

(* With a framebuffer the one entry of pml4 covers, the kernel may take    *)
(* addresses for physical ones: no page is mapped anywhere but to itself,  *)
(* and the pages of the first region and of the framebuffer are there.     *)
IdentityMapped ==
  fb.addr + fb_size <= Reach => IdentityOnly /\ FirstRegionMapped /\ FramebufferMapped

(* With pixels of four bytes and a row of text, everything drawn stays     *)
(* inside the framebuffer, and every cell of a line has its place in       *)
(* screen_buf.                                                             *)
InsideFb ==
  /\ fb_cols <= SCREEN_MAX_COLS
  /\ fb.bytes = 4 /\ fb_rows > 0 /\ access \notin HeapAccesses \cup {Nowhere}
       => access[1] >= fb.addr /\ access[2] <= fb.addr + fb_size

(* A machine the kernel supports: no framebuffer, or one above the first   *)
(* region and inside one region that the tables reach, the padding of its  *)
(* last line included, with a row of text.                                 *)
Supported ==
  LET fbs == {info[a].fb : a \in {b \in Listed : info[b].type = MB2_TAG_FB}}
  IN  \A f \in fbs :
        LET last == f.addr + f.height * f.pitch - 1
        IN  /\ f.addr \div Region \in 1..(Entries - 1)
            /\ last \div Region = f.addr \div Region
            /\ f.bytes = 4
            /\ f.height >= 2 * MinGlyph /\ f.height * TargetCols >= 2 * f.width

(* On such a machine the kernel comes up, and nothing it does from then on *)
(* faults.                                                                 *)
BootComes == Supported => <>[](pc = "up")

================================================================================
