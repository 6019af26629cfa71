# JordanOS in TLA+

A model of JordanOS, a small x86-64 kernel: the boot sequence and its page
tables, memory management, the terminal and its shell, the interrupt stubs, the
keyboard and timer interrupts, and the disk driver. The modules
are written from the code of the repository; each is checked by TLC on small
instances, and every safety property the passing runs check is also proved, for
every size; liveness is only model-checked.

`PROJECT.json` maps every definition to the lines it models, and lists the runs,
the hazards, the findings and the theorems.

## 1. The system

| Part | Source | State | Operations |
|---|---|---|---|
| Long mode entry | `boot/boot.s`, `linker.ld` | page tables, GDT | `_start` |
| Main program | `kernel/kernel.c` | the program counter | `kernel_main`: `pmm_init`, `fb_init`, `paging_map_fb`, `idt_init`, `heap_init`, `pic_init`, `sti`, `pit_init`, `ata_init`, the greeting, `keyboard_init`, an endless loop |
| Multiboot2 information | `kernel/memory.c`, `include/multiboot.h` | none (reads the loader's tags) | `mb2_find_tag`, `mmap_first`, `mmap_next`, number formatting |
| Physical memory manager | `kernel/pmm.c` | `bitmap`, `pages_num`, `free_pages` | `pmm_init`, `pmm_alloc`, `pmm_free` |
| Heap | `kernel/heap.c` | `head` and the block headers in memory | `heap_init`, `kmalloc` (`resize_block`), `kfree` |
| Paging | `kernel/paging.c` | `pdpt`, `fb_pd` | `paging_map_fb` |
| Framebuffer terminal | `kernel/fb.c`, `include/font.h` | pixels, `screen_buf`, `cur_row`, `cur_col`, `theme_fg`, `theme_bg`, `last_activity` | `fb_print`, `fb_println`, `fb_backspace`, `fb_scroll`, `fb_clear_screen`, `fb_update_theme`, the cursor functions |
| Shell | `kernel/shell.c` | none between lines | `shell_exec`: `help`, `clear`, `mem`, `disk`, `theme`, `reboot` |
| Keyboard driver | `kernel/keyboard.c` | `line`, `line_len`, `shift`, `stopped` | `keyboard_init`, `keyboard_handler` |
| Interrupt table, dispatcher | `kernel/idt.c`, `boot/interrupts.s` | `idt` | `idt_init`, `isr_handler`, the stubs |
| Interrupt controllers | `kernel/pic.c` | masks and requests (in the chips) | `pic_init`, `pic_eoi`, `pic_unmask` |
| Timer | `kernel/pit.c` | `tick_count` | `pit_init`, `inc_ticks` |
| Disk driver | `kernel/ata.c` | `drive` | `ata_init`, `ata_identify`, `ata_read` |
| Strings, speaker, ports | `kernel/string.c`, `kernel/beep.c`, `include/io.h` | none | pure functions, port writes |

### How the parts interact

There is one processor and no threads: what runs concurrently is the main
program and two interrupt handlers, and beside them the devices.

- The **heap** takes pages from the **page allocator** and never gives one
  back. The allocator is filled once, from the loader's memory map.
- The **timer** handler draws or erases the cursor in the **terminal** at the
  row and column it finds. The terminal's functions are also called by the main
  program (with interrupts enabled: greeting) and by the **keyboard** handler
  (with interrupts disabled: echo, editing, commands).
- The **keyboard** handler keeps the line, echoes it to the terminal and hands
  it to the **shell**, which runs inside the handler and prints through the
  terminal. It asks the allocator (`mem`) and the disk driver (`disk`).
- The **disk** driver polls; the drive moves on between two polls.
- Keys and ticks get to the handlers through the **interrupt controllers**,
  whose mask `pic_unmask` reads and writes with interrupts enabled, and through
  the **stubs**, which save what was interrupted and call the C dispatcher.
- Every access of the kernel goes through the **page tables** `boot.s` and
  `paging_map_fb` write; the framebuffer's place in them comes from the boot
  loader's **information**.

### What is hard, and what has to hold

- *Page allocator.* Three functions keep `free_pages` and the bitmap apart;
  page numbers, frames and `uint32_t` addresses must correspond. A page must not be
  in two hands, the counter must be exact, what is handed out must be memory.
- *Heap.* Split, join and link in every order of calls: held blocks disjoint,
  the list consistent in both directions, nothing lost, free neighbours joined.
- *Terminal.* The screen, `screen_buf` and the cursor are three views of one
  thing, updated by hand in many places and, by the timer, between any two of
  them: one cursor block, `screen_buf` equal to the screen, nothing stale below.
- *Keyboard and shell.* The line and the screen are edited separately: what
  Enter runs must be what is shown. The line buffer is bounded, the line is not.
- *Interrupts.* Early acknowledgement, edge-triggered lines, a mask changed in
  two steps, an initialisation order: no nesting, no unknown vector, every key
  handled once and in order, the timer never silenced.
- *Boot.* The loader decides on the layout of its information and on the place
  and shape of the framebuffer, and the tables must fit: tags and entries read
  exactly, every mapping the identity, nothing drawn outside the framebuffer,
  and no fault, because a fault resets the machine or repeats for ever.
- *Stubs.* 34 entries that must leave the same layout, on a stack of either
  alignment, and may themselves be interrupted: aligned calls with the right
  arguments, and no trace in what was interrupted.
- *Loops over bytes.* Words cut in place in a static buffer, and digits written
  into buffers that are just large enough.
- *Disk.* A device that may never answer, errors, and an instruction that
  changes its registers: identification must end and only succeed with data, a
  read must deliver what was asked for.

Nothing is persisted and there is no network: crash recovery and message loss
do not occur. `reboot` is modelled as a restart of the console.

## 2. The modules

| Module | Models | Composes |
|---|---|---|
| `PageAllocator` | what `pmm.h` promises: a pool of frames | |
| `Pmm` | `pmm.c` and the walk over the memory map | implements `PageAllocator` (`PoolSpec`) |
| `PmmProofs` | theorems about `Pmm` | extends `Pmm` |
| `Heap` | `heap.c` | extends `Pmm`: `heap_init` and `kmalloc` take `pmm_alloc` steps |
| `HeapProofs` | theorems about `Heap` | extends `Heap` and `PmmProofs` |
| `Terminal` | the text layer of `fb.c` | |
| `Words` | the words of a line, as a definition | |
| `Shell` | `shell.c` | extends `Terminal`: commands are sequences of its operations; takes the words from `Words` |
| `Console` | `kernel_main`'s printing, `keyboard.c`, the timer handler | extends `Shell` |
| `ConsoleProofs` | theorems about `Console` | extends `Console` |
| `Ata` | `ata.c` and the drive | |
| `AtaProofs` | theorems about `Ata` | extends `Ata` |
| `Cursor` | `pit.c`'s counter and the cursor's timing in `fb.c` | |
| `Interrupts` | `idt.c`, `pic.c`, `kernel_main`'s initialisation, and the controllers | extends `Cursor`: ticks and key presses move it |
| `InterruptsProofs` | theorems about `Interrupts` and `Cursor` | extends `Interrupts` |
| `Stubs` | `interrupts.s` and the processor's interrupt entry and return | |
| `StubsProofs` | theorems about `Stubs` | extends `Stubs` |
| `Multiboot` | `multiboot.h`, `memory.c`'s walk over the memory map | |
| `Paging` | the tables of `boot.s`, `paging.c`, the processor's translation | |
| `Boot` | `boot.s` and `kernel_main` in order, `fb_init`'s geometry and the bytes `fb.c` writes | extends `Multiboot` and `Paging` |
| `BootProofs` | theorems about `Boot` | extends `Boot` |
| `CommandLine` | `shell_exec` and `strcmp`, loop round by loop round | extends `Words`, against which it is checked |
| `Report` | `int_to_str`, `addr_to_str` and who calls them | extends `CommandLine`: `mem` and `disk` run behind the parsing |
| `ReportProofs` | theorems about `CommandLine` and `Report` | extends `Report` |
| `MC...` | the finite instances TLC checks | |

Definitions keep the names of the code. A definition whose comment begins with
"Mutant" is a plausible mistake in the function that follows it; it is used only
to see that the properties notice the mistake.

**Pmm.** `bitmap` is the set of page numbers whose bit is set. One iteration of
`pmm_init`'s outer loop is a step, after it `pmm_alloc` and `pmm_free` come in
any order; callers free only what they hold (`held` is their view, not the
code's). `Word` is 2^32, scaled down together with the bitmap: the ratio
`Word = BitmapBits * 4096` is that of the code (32768 * 32 bits), so that the
bitmap and the address arithmetic meet their ends at the same page. The entries
of the memory map are the sequence `map`; how they are found is in `Multiboot`.

**Heap.** `hdr` maps addresses to headers; 0 is both the null pointer and the
address of page 0, as in the code. The walk of `kmalloc` is a step per block
(`SearchNext`, `SearchHit`, `SearchEnd`); `kfree` is one step. Requests larger than a page
return 0 at once and change nothing. `old_block` is uninitialised when the list
is empty; the Makefile's build (gcc, `-O2`) has zeroed its register.

The search ignores `in_use`, so the code's heap hands blocks out twice
(run `heap_in_use`). `CarefulSpec` restricts the callers, not the code, to
requests for which the first block that is large enough is a free one; under it
everything else about the heap can be examined. In the kernel as it boots on a
PC, page 0 is available, `head` is 0 and every request takes a page
(`MCHeapNull.cfg`): there `CarefulSpec` restricts nothing, and the properties about
the list, which say what `kmalloc` can see, ask for a `head` other than 0.

**Terminal, Shell, Console.** The screen is a grid of cells, each showing a
character in two colours or one colour. Every function of `fb.c` is a sequence
of operations on one cell or on the cursor (`fb_print` is erase, then room, put
and advance for each character, then draw), and `Console` runs the sequences
one operation at a time: `todo` is what the running code has still to do. The
keyboard handler runs with interrupts off (`in_handler`); while the main program
prints, a timer interrupt may come between any two operations. What a message says
is abstracted to one character `Text`; a command name is one character too, so that a command
fits a screen of a few cells. The words of a line, the limit of 16 and the cut at
`BufSize - 1` are those of `shell_exec`.

**Ata.** Each poll of the status register is a step. While the drive is busy its `DRQ`
reads as anything, so that the order in which the driver waits for `BSY` and `DRQ` matters. `rdi` and `rcx` are
variables because the asm statement does not declare that `rep insw` changes them; the
registers are those of the Makefile's build, where the loop goes on with the changed values.

**Interrupts.** `kernel_main` from `idt_init` to its loop, handlers as a stack of
frames, the controllers with mask, requests and in-service bits, fixed
priorities and edge-triggered lines. A gate that is an interrupt gate clears the
interrupt flag, `iretq` sets it again. What the handlers do to the terminal is
in `Console`; here a handler is its port accesses, its acknowledgement, and what
it does to the cursor's timing. Once a line has overrun its array (`stopped`, when is in
`Console`) the handler still reads and acknowledges keys but leaves the cursor alone: `Cursor` has `tick_count`, `last_activity` and
whether the cursor is drawn, and the timer handler and a key press are its steps. The
boot counts as a press at tick 0, as `last_activity`, which is 0 then, has it.

**Stubs.** The stack is the sequence of its words from `rsp` up, and a stub is
the sequence of its instructions; words below `rsp` do not exist, which is what
`-mno-red-zone` (`Makefile:8`) allows. `before` remembers what was interrupted.
`isr_handler` is any function that keeps the calling convention. The processor
pushes an error code for the vectors the stubs expect one for; AMD's 29 and 30,
which push one too, occur only with features the kernel does not switch on.

**Multiboot, Paging, Boot.** `info` says which tag begins at which address, and
every step of `mb2_find_tag` is a step. A page table is a function from indices
to the address mapped or the next table, `Translated` is the processor's walk
through them. `Boot` runs `_start` and `kernel_main` in order; a step names the
bytes it touches (`Accesses`), and if their pages or the kernel's own are not
mapped to themselves it is a fault: a reset before `idt_init` (`TripleFault`),
an endless repetition after it (`Fault`, `FaultAgain`). Between the write to
`pdpt` and the reload of `cr3` the processor may or may not still know the old
translation. `Supported` says which machines the kernel is meant for: no
framebuffer, or one with 4-byte pixels, room for a row of text, and a place
above the first GiB and inside one GiB below 512, the padding of its last line included.

**CommandLine, Report.** The line is what the keyboard driver left, `buf` may
hold an earlier command; `shell_exec`'s pointer, the words' indices and
`strcmp`'s two pointers are variables. Behind a parsed `mem` or `disk`, or in the
handler of an exception, numbers are passed to `int_to_str` and `addr_to_str`,
which take a step per digit. Negating the least int is undefined (`fb.c:230`): in the model the
negation gives the number without its sign or the least int again, and with a negative number
the loop, whose test is `n > 0`, stops or goes on, as often as the compiler's code may.

## 3. The runs

| Run | Shows |
|---|---|
| `pmm` | types, exact counter, no page twice, contiguous maps numbered rightly, refinement of `PageAllocator` |
| `pmm_pc` (violation) | base addresses ignored: unavailable memory handed out |
| `heap` | blocks disjoint and tiling the pages, list consistent and complete, free neighbours joined, a page only when nothing listed fits |
| `heap_in_use` (violation) | a block in use is handed out again |
| `console` | one cursor, screen and `screen_buf` agree, nothing stale ahead of the cursor, the line is what the screen shows |
| `console_wild` | the same of cursor and screen with lines that wrap and overrun; the cursor leaves the screen only behind its last cell; after Enter the prompt is alone on the cursor's row |
| `console_race` (violation) | a tick damages the greeting |
| `ata` | identification ends, is sound, transfers stay in the buffer and happen only when offered |
| `irq` | no nesting, no unknown vector, keys (after `pic_init`) once, in order and in the end, a cursor that blinks for ever and is solid after a key |
| `boot` | the first memory map read exactly, the first framebuffer tag found, nothing behind the end tag; identity mappings only, and the first region and the framebuffer in its region covered; nothing drawn outside; a supported machine comes up and stays up |
| `stubs` | the C handler is called as C expects, with vector and code; what was interrupted goes on unchanged |
| `text` | words and command are those of the line; every number shown is the one meant while the types hold it, the least int excepted; no buffer is overrun, by the least int neither |

### Further counterexamples

These configurations are not among the runs. Each one makes TLC show in a few
steps how the code misses something that it gets right elsewhere:

| Configuration | Property | What TLC shows |
|---|---|---|
| `MCPmmBig.cfg` | `BitmapCoversMap` | a map larger than the bitmap: writes behind the array (`pmm.c:10`, `pmm.c:14`) |
| `MCHeapNull.cfg` | `PageOnlyWhenNoFit` | the block at address 0 is never found, and a page is taken although it would do (`heap.c:32`) |
| `MCConsoleWrap.cfg` | `LineOnScreen` | backspace behind a wrap: the line is shortened, the screen is not (`fb.c:79`) |
| `MCAtaRead.cfg` | `ReadDelivers` | a read of several sectors delivers the first one only (`ata.c:68`) |
| `MCReportMem.cfg` | `MemShown` | `mem` shows 0 MB when the bitmap is full, at 4 GiB (`shell.c:61`) |
| `MCConsoleFull.cfg` | `KeyboardListens` | character 257 of a line lands in `stopped` and the keyboard is dead (`keyboard.c:69`) |
| `MCConsoleEdge.cfg` | `CursorVisible` | a line that ends in the last cell leaves the cursor below the screen (`fb.c:163`) |
| `MCConsolePaper.cfg` | `ThemeKept` | scrolling brings in a black row under a light theme (`fb.c:125`) |
| `MCConsolePortrait.cfg` | `RedrawKeepsText` | rows beyond the 64 of `screen_buf` are forgotten by a theme change (`fb.c:114`) |
| `MCAtaHang.cfg` | `ReadReturns` | a read of one sector passes the end of its buffer and waits forever (`ata.c:72`) |
| `MCInterruptsEarly.cfg` | `EveryKeyHandled` | a key before `pic_init` leaves the line high, and no key ever arrives (`pic.c:5`) |

`pic.h:7-8` says that the interrupts are moved to numbers 33-48; `pic.c:7` and
`pic.c:18` move them to 32-47, which is what `InterruptsTypeOK` says.

### Bounds

- `pmm`: 16 pages, so that maps of three entries fill the bitmap exactly, and
  one map whose last entry is longer than `Word`, so that the truncated length shows.
- `heap`: three or four pages, three clients. Three blocks make every case of
  `kfree` (neighbours free or not on each side, at the end of the list, on
  another page); the sizes lie on both sides of the split boundary (4044, 4045),
  at 0 and at a whole page. The three machines have the heap's pages side by
  side, the first one apart, and the first one at address 0.
- `console`: a screen of 2x6 cells, so that every report scrolls the screen
  more than once. `MaxLine`, the bound on the length of a line, keeps the
  prompt and the line within one row (2 + 3 cells, one for the cursor). Pressed are
  Enter, Backspace, a release, the space bar and the words `clear`, `help`,
  `disk`, `reboot`, `theme` and `paper`; `mem` and `theme --help` print in the same way as `disk`
  and `help` and are left out to keep the run short.
- `console_wild`: a screen of 3x3 cells and a line buffer of three characters
  with lines of up to six, so that lines wrap, scroll and overrun. Its keys
  include CapsLock, whose code is the first behind the 58 entries of the tables:
  in the Makefile's build the byte there is `0`, and padding with shift.
- `ata`: sectors of two words, reads of up to four sectors (four are needed for
  an address that is advanced twice to leave the buffer in the mutant), three
  polls before a timeout.
- `irq`: three key events; one in service, one in the buffer, one waiting. The
  tick counter has 11 values and a phase 3 ticks, so that the counter wraps in
  the middle of a phase in which the cursor is off, as 2^32 ticks and phases of 50 do.
- `boot`: tables of 4 entries, pages of 64 bytes, so a region ("1 GiB") is 256
  bytes and the tables reach 1024. Three columns are aimed at and a glyph is at
  least 2 wide, which keeps the inequalities of 96, 8 and 128. The framebuffers
  begin inside a page and end in the fourth one, end with their region, cross
  it, lie on or beside the kernel's page, beyond the tables, have wide glyphs, short pixels
  or no row of text, or are absent; the tags come in six layouts, with
  sizes that are no multiple of 8, entries longer than the struct, and tags that
  another program left behind the end tag.
- `stubs`: all 34 vectors with both alignments of `rsp`, interrupts on or off;
  between any two instructions a second one with or without an error code.
  A third level repeats the second, which begins at either alignment already.
- `text`: buffers of six characters, two words, names that are prefixes of each
  other; ints of eight bits, for which `tmp` and the buffer are as tight as 11
  and 12 bytes are for 32 bits (the callers have 16 and 20).

### Assumptions about time and fairness

- `Console` has safety properties only. `QuietSpec` leaves out the ticks that
  fall into the main program's greeting; `console_race` uses `ConsoleSpec`,
  which has them. From the prompt on the two agree, because everything is then
  printed with interrupts off.
- `Ata`: the processor goes on executing (`WF` of the driver's steps). In `ata`
  the drive owes nothing. In `MCAtaRead.cfg` and `MCAtaHang.cfg` it answers every
  command (`WF` of `SectorReady`): what goes wrong there is the driver's doing.
- `Interrupts`: the processor executes, due interrupts are taken before
  the next step of the main program, the keyboard hands over its bytes, and the
  timer, which `pit_init` programs to repeat, goes on ticking (`WF` of `Tick`). A tick is followed
  by at least one step of the main program before the next tick: a handler takes far less than the
  10 ms of a tick period.
- `Boot`: the processor executes (`WF` of `Next`). There are no interrupts in
  it; what they add from `sti` on is in `Interrupts`.
- `Stubs`, `Report`: safety only.
- The early key of `MCInterruptsEarly.cfg` relies on the controllers' documented
  behaviour: an initialisation word resets edge detection, and a line that is
  high needs a new edge. `irq` assumes that no key event comes before `pic_init`
  is done (`LateKeySpec`).

## 4. What is proved

The assumptions are on the constants only and are evaluated by TLC in the runs.

### The page allocator: `PmmProofs`

For every set of memory maps and every size of the bitmap:

| Theorem | Statement |
|---|---|
| `TypeCorrect` | `Spec => []TypeOK` |
| `HeldStaysMarked` | `Spec => []HeldIsMarked` |
| `FreeCountCorrect` | `Spec => []FreeCountExact` |
| `ContiguousMapsAreSafe` | `Spec => []HandsOutRamIfContiguous` |
| `PmmImplementsPageAllocator` | `Spec /\ []BitmapCoversMap => PoolSpec` |

The only assumption is `PmmAssumption`: maps are sequences of entries, the
bitmap has at least one bit, and a `uint32_t` counts exactly the bytes of the
bitmap's pages.

*The argument.* `HeldIsMarked` is not inductive: `pmm_free(a)` clears one bit
and must not clear that of another held address. Two held addresses have
different pages only because both are multiples of the page size, and this has
to be carried along. So `IInv` is `TypeOK`, together with `HeldAligned` (held
addresses are page aligned, and there are none before `pmm_init` is done) and `HeldMarked`. The lemmas `PageRoundTrip` and
`AddressRoundTrip` say that `AddrOf` and `PageOf` are inverse to each other
below the bitmap's end, where the 32-bit product and cast lose nothing.
`FreeCountExact` follows from three lemmas on how each operation changes the
set of clear bits, and from the cardinality theorems for finite sets; it needs `IInv`
because a freed page must have been marked. For `ContiguousMapsAreSafe` the
additional invariant relates `pages_num` to the end of the entries read so far
and says that every clear bit belongs to available memory. The refinement maps
each `pmm_init` step but the last to a stutter, the last to `Build`, `pmm_alloc` to `Take` or, when it
fails, to a stutter, `pmm_free` to `Give`. `[]BitmapCoversMap` is a hypothesis
because the code does not ensure it (`MCPmmBig.cfg`).

### The heap: `HeapProofs`

For every memory map, every set of sizes and any number of clients:

| Theorem | Statement |
|---|---|
| `HeapTypes` | `CarefulSpec => [](BitmapCoversMap => HeapTypeOK)` |
| `HeldBlocksStay` | `CarefulSpec => [](BitmapCoversMap => InUseIsHeld)` |
| `CallersDisjoint` | `CarefulSpec => [](BitmapCoversMap => LiveDisjoint)` |
| `NeighboursCoalesced` | `CarefulSpec => [](BitmapCoversMap => Coalesced)` |
| `ListSound` | `CarefulSpec => [](BitmapCoversMap /\ heapUp => Sound(hdr))` |
| `ListIsIntact` | `CarefulSpec => [](BitmapCoversMap => ListIntact)` |
| `BlocksTile` | `CarefulSpec => [](BitmapCoversMap /\ (heapUp => head \in held) => Tiling)` |
| `NewPageWhenNoFit` | `CarefulSpec /\ []BitmapCoversMap => ListedBeforeNewPage` |

Assumed are `PmmAssumption` and that sizes are natural numbers. The
hypotheses are needed: without `BitmapCoversMap` the allocator hands out pages
twice, and without the restriction on requests in `CarefulSpec` the code hands out blocks
in use (`heap_in_use`). `head \in held` says that `heap_init` got a page: it
builds a block at address 0 when it got none (`heap.c:7`), and that block lies
in no page of the heap.

*The argument.* None of the properties is inductive. That a block in use stays
one needs that the step works on another block, which needs that blocks do not
overlap (`Apart`); that a fresh page overlaps no block needs that every byte of
every block lies in a page the heap holds (`Within`) and that the allocator
does not return a held page, which is `HeldStaysMarked` again (`IInv` of
`PmmProofs`). Joining follows `prev` and `next`, so the links have to agree
(`Chained`), and the block taken out must not be reachable in another way: the
list has no cycle, stated as the existence of numbers that grow along it
(`Acyclic`), which every operation can keep without an induction over the list.
Address 0 is a block when page 0 was taken and the null pointer always; it can
only be the first block (`ZeroIsFirst`). A search in progress has to know that
the block it stands behind is still the one in front of its next block, and that
it will meet a free one (`Searching`, `Promising`, a set of blocks to come).
`Sound` is these five together, and `HInv` adds who holds what (`Owners`), free
neighbours (`CoalescedBut`) and the search. The lemmas are about arbitrary
headers `h` and `g`: what a split, a mark, a link and a join of two or three
blocks do (`Splits`, `Marks`, `Links`, `Joins`) and that each keeps `Sound`,
`Owners` and `CoalescedBut`. One lemma per action then puts them together.

Three things count along the list or over the blocks. `ListIntact` says that
every block is reached from `head`: a walk (`Walks`) never returns to a block,
because the numbers of `Acyclic` grow along it, so by the number of blocks it has
met them all (`WalkCovers`). `Tiling` says that the sizes add up to the pages:
`HInv` carries the sum (`Filled`), and the lemmas on sums say how it changes when one
block is added, removed or resized. `ListedBeforeNewPage` needs that every block
the search has left behind was too small (`Passed`). Where these need
induction, over the natural numbers or over the subsets of a finite set, it is stated
with the *set* of the numbers (subsets) for which something holds, whose least element outside
is contradicted (`LeastOf`, `SubsetsUpwards`).

### The interrupts: `InterruptsProofs`

For any number of key events, every width of the tick counter and any solid time and
blink period that fit it:

| Theorem | Statement |
|---|---|
| `HandlersDoNotNest` | `InterruptsSpec => []NoNesting` |
| `GatesPresent` | `InterruptsSpec => []EveryVectorHasGate` |
| `KeysReadInOrder` | `InterruptsSpec => []KeysInOrder` |
| `CursorSolid` | `InterruptsSpec => []SolidAfterKey` |
| `InterruptsTypes` | `InterruptsSpec => []InterruptsTypeOK` |
| `LateKeysAreKeys` | `LateKeySpec => InterruptsSpec` |

Assumed are `InterruptsAssumption` (there is a number of keys) and
`CursorAssumption`: the solid time is shorter than half a blink, and a whole
blink fits the counter.

*The argument.* The invariant has three parts. `Control`: once `idt_init` is
past, every gate is an interrupt gate; once `pic_init` is past, only lines 0 and
1 can be unmasked, and `pic_unmask`'s local copy of the mask, read before and
written after any number of interrupts, would not unmask another either
(`Setup`); a handler runs alone and with the flag clear (`OneHandler`). `Keys`:
a request of line 1 stands for a byte in the output buffer, and a handler that
has not yet read finds its byte there and no second request
(`RequestMeansByte`); without it a handler could read a byte twice and
`KeysInOrder` is not inductive. `Timing`: until the solid time is over, the
difference modulo the counter's width is the number of ticks since the key
(`SinceIsDifference`), which is what `fb_update_cursor` compares.

### The disk driver: `AtaProofs`

For every length of a sector, every number of polls and every length of a read:

| Theorem | Statement |
|---|---|
| `AtaTypes` | `AtaSpec => []AtaTypeOK` |
| `StoresInBuffer` | `AtaSpec => []InBuffer` |
| `TakesOnlyOffered` | `AtaSpec => []OnlyOffered` |
| `IdentifyReadsSector` | `AtaSpec => IdentifySound` |

Assumed is `AtaAssumption`: the three constants are at least 1.

*The argument.* `InBuffer` holds for a reason that is not in the code's text:
after the first transfer `rcx` stays 0, because `rep insw` leaves it so and
nothing loads it again. `Registers` says this, and that the buffer's first
sector is all that is ever written; `DriveOK` that the drive takes part only
with sectors to send, and that an absent drive reads as all ones or all zeros;
`Offered` that neither of these gets the driver to a transfer, that behind a wait for
`BSY` the drive stays idle, which is why the `DRQ` seen then is meant, and that a
transfer begins only with data on offer; `Identifying` that identification
starts with fresh registers and one sector to come.

### The interrupt stubs: `StubsProofs`

For any vectors and any depth of nesting:

| Theorem | Statement |
|---|---|
| `StubsInvariant` | `Spec => []StubsInv` |
| `CallConventionHolds` | `Spec => []CallConvention` |
| `ContextIsRestored` | `Spec => ContextRestored` |

Assumed is `StubsAssumption`: the vectors are those of the 34 stubs.

*The argument.* What returns to the interrupted code is what was pushed, so the
invariant says of every point of a stub what lies on the stack: the frame of the
processor for the interrupted context `c`, code and vector, the registers saved so
far, the word that aligns `rsp`. `Serves(c, s)` is this, as one disjunct per part of
a stub (`Entering`, `Saving`, `Calling`, `InC`, `Restoring`, `Leaving`), and
`Nesting` says it of the running stub and the innermost context, and of every
interrupted stub and the context outside of it: what a nested interrupt leaves
has to be served again. The two theorems about properties read the stack in
front of `call` and of `iretq` off it.

### The boot sequence: `BootProofs`

For every well-formed boot information, every size of the tables and every
framebuffer, also those the kernel is not meant for (`Supported` is not assumed):

| Theorem | Statement |
|---|---|
| `BootTypes` | `Spec => []BootTypeOK` |
| `InfoIsRead` | `Spec => []InfoRead` |
| `IdentityIsMapped` | `Spec => []IdentityMapped` |
| `DrawsInside` | `Spec => []InsideFb` |

Assumed are `InfosAssumption` (the loader's information is well formed: tags follow each
other, a memory map holds whole entries), `PagingAssumption`,
`GeometryAssumption` (`SCREEN_MAX_COLS` is as wide as `fb.c` makes the
text at most), `HeightAssumption` (a height fits `uint32_t`) and `MemoryAssumption`.

*The argument.* `InfoInv` says that a search has passed no tag of its type
(`SearchAt`), that after `k` entries exactly the first `k` were visited, in order
(`AtEntry`), and behind the loops what they found (`MapRead`, `FbRead`). `TablesInv` gives every entry written its value: entry `k` of `pd`
is `k` big pages, entry `k` of `fb_pd` counts from the framebuffer's page, and
only region 0 and the framebuffer's region have a directory; then a
translation that exists is the identity by arithmetic on quotients and remainders.
That there is one is `CoverInv`: `_start` fills all of `pd` before paging is on, `paging_map_fb`
returns when `NPages` pages are written or the directory is full, and these are enough for
a framebuffer that begins inside a page (`PagesAreEnough`); what lies beyond the directory is
in another GiB, of which `FramebufferMapped` says nothing. Every
access recorded is one of the kernel's own, a cleared line or a
row of a glyph (`AccessInv`), and each of those ends before
`height * pitch`, which is where the integer geometry of `fb_init` matters.

### Words, commands and numbers: `ReportProofs`

For every width of the types, every buffer, every line and every list of commands:

| Theorem | Statement |
|---|---|
| `NumbersAreShown` | `Spec => []NumberShown` |
| `LineIsParsed` | `Spec => []ParsedRight` |

Assumed are `LineAssumption`, `NamesAssumption` (no two commands have one name, no
name holds a NUL), `ReportAssumption` and `NumberAssumption` (the buffers have
room for the digits of every value their type holds).

*The argument.* `int_to_str` takes digits from the right and reverses them. While
it divides, the number left and the digits taken make up the number meant
(`InDigits`), while it reverses, what is written and what is left do
(`InReverse`). Of the least int only the lengths are followed; that the digits fit follows from the powers of ten. For the words,
`Words` defines what they should be, and each loop has an invariant against that
definition: the text before `p` is cut into the first words (`BetweenWords`, `InWord`), all of it is
(`AllCut`), the names tried are not the first word and the one being compared agrees with it up to here
(`Compared`), the command chosen is the first word's (`Chosen`).

### The console: `ConsoleProofs`

For every size of the screen, every keyboard, set of themes, line buffer and list of
commands' arguments:

| Theorem | Statement |
|---|---|
| `ConsoleIsTyped` | `ConsoleSpec => []ConsoleTypeOK` |
| `CursorIsLostOnlyAtEnd` | `ConsoleSpec => []CursorLostOnlyAtEnd` |
| `OneCursorStays` | `QuietSpec => []OneCursor` |
| `NothingIsAhead` | `QuietSpec => []NothingAhead` |
| `ScreenStaysConsistent` | `fb_rows <= SCREEN_MAX_ROWS => (QuietSpec => []ScreenConsistent)` |
| `LineStaysOnScreen` | `OneRow /\ KeysShow => (QuietSpec => []LineOnScreen)` |
| `PromptFollowsEnter` | `PromptFits => (QuietSpec => PromptAfterEnter)` |

Assumed are `TerminalAssumption`, `ShellAssumption`, `ConsoleAssumption` and
`ThemesAssumption`: in every theme of `shell.c:106-124` the text differs from the
background and from black. The hypotheses are needed: a screen of more rows than `screen_buf` has
loses text (`MCConsolePortrait.cfg`); a line that does not fit the row behind the prompt
(`OneRow`) wraps, and backspace does not go back (`MCConsoleWrap.cfg`); a key
of the tables whose entry is 0 stores a NUL and shows nothing (`KeysShow`
excludes it). `PromptFits` says that the prompt is shorter than a row. The last five are about
`QuietSpec`, because a tick during the greeting damages it (`console_race`);
the first two hold with ticks anywhere.

*The argument.* A handler is a sequence of operations, and between two of
them nothing of the above holds. `Leads(T, s, a, b)` says that the sequence `s`
takes `a` to `b` by the table `T` of what each operation does, as typing
judgements do; it is compositional, so the commands are gone through once
(`CommandsLead`), for any table. Two tables are used. `Calm` has the phases of printing: at
rest, cursor erased, room made, character drawn, and so on. The invariant of the first two theorems
(`ConInv`) is that what is left to do (`todo`) leads from the present
phase to rest, with the cursor where the phase allows it. `PicInv` adds what
each phase leaves true of the cells (`Clean`: no block but the cursor's, and nothing behind it) and that the
screen is what `screen_buf` remembers (`Remembered`). For the line the table
is `Track`, whose states are trails: a text, how much of it the cursor's row
shows from its left edge, and the cursor's column, or nothing known at all (`Lost`).
`LineInv` says that the present trail is true of the screen and that what is left to
do leads to the trail of the prompt and the line. Nothing is known while
a command prints; the prompt, which comes after it in a fresh row, is followed character by
character. `PromptAfterEnter` uses `Track` too, without a condition on the line: whatever its
length, the rest of Enter's handler leads to the trail of the prompt alone.

### Only model-checked

- All liveness (`IdentifyEnds`, `EveryKeyHandled`, `CursorBlinks`,
  `BootComes`), and with it fairness and `ENABLED`, which are out of the
  prover's reach.
- The counterexamples: the runs marked as violations and the configurations of
  section 3 show what the code does not do.

Every safety property of a passing run is stated by a theorem. The library's
induction theorems cannot be used, because their parameters are
operators; where a proof needs induction it goes by sets, as described for the heap.

## 5. What is not modelled

- The font and the colours of single pixels; `Boot` has the bytes written,
  `Terminal` the cells.
- `memory.c:4-12, 29-72` (`mem_get_lower`, `mem_get_upper` and the formatting
  functions) and `string.c:11-46` (all but `strcmp`): nothing calls them.
- What the exception handler writes on the screen (`idt.c:47-54, 61-65`): only
  its numbers are modelled.
- The decoding of the identification data, sector addresses (`ata.c:13-26, 57-60`).
- Frames above the first GiB, which the allocator may hand out and nothing maps:
  `MemPages` lies in the first region. Nothing allocates that much.
- `beep.c`, whose only call is commented out; `keyboard_stop` and
  `keyboard_start`, which nothing calls.
- The GDT, segment registers and control registers of `boot.s`: one step.

## 6. Plan

Done: all components but those of section 5 are modelled and checked, and the
safety properties of the passing runs are proved. Next:

1. An abstract console (a transcript and a line) that `Console` implements while
   lines do not wrap; `LineInv` and `PicInv` are what its refinement proof needs.
2. The decoding of the identification data; the exception branches in `Console`.
