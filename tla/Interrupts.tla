------------------------------ MODULE Interrupts ------------------------------
(***************************************************************************)
(* How a key press becomes a call of the keyboard driver: kernel_main's    *)
(* initialisation order, the interrupt descriptor table (kernel/idt.c),    *)
(* the stubs (boot/interrupts.s), the interrupt controllers                *)
(* (kernel/pic.c), and the timer and the keyboard controller behind them,  *)
(* and what both handlers do to the cursor's timing (Cursor).              *)
(*                                                                         *)
(* IRQ lines are edge triggered: a rising line is latched in irr, and      *)
(* pic_init's first command word forgets what was latched.                 *)
(***************************************************************************)
EXTENDS Sequences, FiniteSets, Cursor

CONSTANT MaxKeys            \* bound on the number of key events, for TLC

ASSUME InterruptsAssumption == MaxKeys \in Nat

VARIABLES
  pc,                \* the next step of kernel_main
  currval,           \* pic_unmask's local
  IF_flag,           \* interrupts enabled
  idt,               \* gates by vector
  imr, irr, isr,     \* masked, requested and in-service IRQs
  base,              \* the vector of IRQ 0
  typed,             \* number of key events so far; event k has code k, and
                     \* is a press when k is odd, a release when it is even
  fifo,              \* codes the keyboard has still to hand over
  obf, data,         \* the controller's output buffer: full or not, and its byte
  seen,              \* the codes keyboard_handler has read
  stopped,           \* keys are read and ignored
  ticks,             \* the timer may tick: kernel_main got to run since the last tick
  stack              \* the handlers running, the innermost first

cpu == <<pc, currval, IF_flag, idt>>
pic == <<imr, irr, isr, base>>
i8042 == <<typed, fifo, obf, data>>
keyVars == <<seen, stopped>>
intVars == <<cpu, pic, i8042, keyVars, ticks, stack, cursorVars>>

Irq == {0, 1, 14}            \* timer, keyboard, drive
Cascade == 2
AllMasked == 0..15

TimerVector == 32
KeyVector == 33

Vector(irq) == base + irq

(* kernel_main from idt_init on; what it does in between raises no         *)
(* interrupt and touches none of these variables.                          *)
InterruptsInit ==
  /\ pc = "idt_init" /\ currval = {}
  /\ IF_flag = FALSE
  /\ idt = [v \in {} |-> "none"]
  /\ imr \in {{}, AllMasked} /\ irr = {} /\ isr = {} /\ base = 8
  /\ typed = 0 /\ fifo = <<>> /\ obf = FALSE /\ data = 0
  /\ seen = <<>> /\ stopped = FALSE
  /\ ticks = TRUE
  /\ stack = <<>>
  /\ CursorInit

------------------------------------------------------------------------------
(* The devices, external to the code. *)

KeyEvent ==
  /\ typed < MaxKeys
  /\ typed' = typed + 1
  /\ fifo' = Append(fifo, typed + 1)
  /\ UNCHANGED <<cpu, pic, obf, data, keyVars, ticks, stack, cursorVars>>

(* A byte fills the output buffer and raises IRQ 1. *)
HandOver ==
  /\ ~obf /\ fifo # <<>>
  /\ obf' = TRUE /\ data' = Head(fifo) /\ fifo' = Tail(fifo)
  /\ irr' = irr \cup {1}
  /\ UNCHANGED <<cpu, imr, isr, base, typed, keyVars, ticks, stack, cursorVars>>

(* A tick.  The handlers it may set off are done long before the next one  *)
(* (10 ms): in between, kernel_main gets to run.                           *)
Tick ==
  /\ ticks
  /\ ticks' = FALSE
  /\ irr' = irr \cup {0}
  /\ UNCHANGED <<cpu, imr, isr, base, i8042, keyVars, stack, cursorVars>>

(* The drive raises IRQ 14 at the end of a command. *)
DriveDone ==
  /\ irr' = irr \cup {14}
  /\ UNCHANGED <<cpu, imr, isr, base, i8042, keyVars, ticks, stack, cursorVars>>

------------------------------------------------------------------------------
(* The unmasked request of highest priority is due, unless one at least as *)
(* high is in service.                                                     *)

Open(irq) == irq \in irr \ imr /\ (irq > 7 => Cascade \notin imr)
Priority(irq) == IF irq > 7 THEN Cascade ELSE irq

Due(irq) ==
  /\ IF_flag /\ Open(irq)
  /\ \A other \in Irq : other # irq /\ Open(other) => Priority(irq) < Priority(other)
  /\ \A s \in isr : Priority(irq) < Priority(s)

------------------------------------------------------------------------------
(* kernel_main, a step of which is taken when no interrupt is due. *)

Running(here, next) ==
  /\ stack = <<>> /\ \A irq \in Irq : ~Due(irq)
  /\ pc = here /\ pc' = next
  /\ ticks' = TRUE

(* Mutant: trap gates, which leave interrupts enabled. *)
idt_init_TrapGates ==
  /\ Running("idt_init", "pic_init")
  /\ idt' = [v \in 0..KeyVector |-> "trap"]
  /\ UNCHANGED <<currval, IF_flag, pic, i8042, keyVars, stack, cursorVars>>

(* 0x8E: an interrupt gate for the exceptions, the timer and the keyboard. *)
idt_init ==
  /\ Running("idt_init", "pic_init")
  /\ idt' = [v \in 0..KeyVector |-> "interrupt"]
  /\ UNCHANGED <<currval, IF_flag, pic, i8042, keyVars, stack, cursorVars>>

(* Mutant: the IRQs are not masked at the end. *)
pic_init_Unmasked ==
  /\ Running("pic_init", "sti")
  /\ imr' = {} /\ irr' = {} /\ isr' = {} /\ base' = 32
  /\ UNCHANGED <<currval, IF_flag, idt, i8042, keyVars, stack, cursorVars>>

(* Mutant: the vectors stay where the firmware left them. *)
pic_init_NoRemap ==
  /\ Running("pic_init", "sti")
  /\ imr' = AllMasked /\ irr' = {} /\ isr' = {}
  /\ UNCHANGED <<base, currval, IF_flag, idt, i8042, keyVars, stack, cursorVars>>

(* The command words reset both controllers; a line that is already high   *)
(* is not seen until it falls and rises again.                             *)
pic_init ==
  /\ Running("pic_init", "sti")
  /\ imr' = AllMasked /\ irr' = {} /\ isr' = {} /\ base' = 32
  /\ UNCHANGED <<currval, IF_flag, idt, i8042, keyVars, stack, cursorVars>>

sti ==
  /\ Running("sti", "pit_read")
  /\ IF_flag' = TRUE
  /\ UNCHANGED <<currval, idt, pic, i8042, keyVars, stack, cursorVars>>

(* pic_unmask(irq): read the mask ... *)
UnmaskRead(here, next) ==
  /\ Running(here, next)
  /\ currval' = imr
  /\ UNCHANGED <<IF_flag, idt, pic, i8042, keyVars, stack, cursorVars>>

(* Mutant: the new mask forgets the IRQs enabled before. *)
UnmaskWrite_Only(here, next, irq) ==
  /\ Running(here, next)
  /\ imr' = AllMasked \ {irq}
  /\ UNCHANGED <<currval, IF_flag, idt, irr, isr, base, i8042, keyVars, stack, cursorVars>>

(* ... and write it back without the IRQ's bit, interrupts enabled. *)
UnmaskWrite(here, next, irq) ==
  /\ Running(here, next)
  /\ imr' = currval \ {irq}
  /\ UNCHANGED <<currval, IF_flag, idt, irr, isr, base, i8042, keyVars, stack, cursorVars>>

pit_init == UnmaskRead("pit_read", "pit_write") \/ UnmaskWrite("pit_write", "kbd_read", 0)
keyboard_init == UnmaskRead("kbd_read", "kbd_write") \/ UnmaskWrite("kbd_write", "spin", 1)

------------------------------------------------------------------------------
(* Interrupt delivery *)

Deliver(irq) ==
  /\ Due(irq)
  /\ irr' = irr \ {irq} /\ isr' = isr \cup {irq}
  /\ stack' = <<[vector |-> Vector(irq), at |-> "entry"]>> \o stack
  /\ IF_flag' = (Vector(irq) \in DOMAIN idt /\ idt[Vector(irq)] = "trap")
  /\ UNCHANGED <<pc, currval, idt, imr, base, i8042, keyVars, ticks, cursorVars>>

In(vector, here) == stack # <<>> /\ Head(stack) = [vector |-> vector, at |-> here]
At(next) == stack' = [stack EXCEPT ![1].at = next]

(* The mutants of pic_eoi and keyboard_handler: no EOI, no read. *)
pic_eoi_None == UNCHANGED pic

(* pic_eoi(irq): the non-specific end of interrupt. *)
pic_eoi ==
  /\ isr' = {s \in isr : \E h \in isr : Priority(h) < Priority(s)}
  /\ UNCHANGED <<imr, irr, base>>

keyboard_inb_None ==
  /\ In(KeyVector, "entry")
  /\ At("eoi")
  /\ seen' = Append(seen, data)
  /\ UNCHANGED <<cpu, pic, i8042, stopped, ticks, cursorVars>>

(* keyboard_handler: the byte is read first, which empties the buffer ... *)
keyboard_inb ==
  /\ In(KeyVector, "entry")
  /\ At("eoi")
  /\ seen' = Append(seen, data)
  /\ obf' = FALSE
  /\ UNCHANGED <<cpu, pic, typed, fifo, data, stopped, ticks, cursorVars>>

Press(code) == code % 2 = 1

(* ... the interrupt is acknowledged, and only then the key is handled.    *)
(* The press that overruns the line stops the keyboard (Store of Console); *)
(* which one that is, is left open here.                                   *)
keyboard_eoi ==
  /\ In(KeyVector, "eoi")
  /\ pic_eoi
  /\ \/ ~stopped /\ Press(seen[Len(seen)]) /\ CursorPress /\ stopped' \in BOOLEAN
     \/ (stopped \/ ~Press(seen[Len(seen)])) /\ UNCHANGED <<stopped, cursorVars>>
  /\ At("iretq")
  /\ UNCHANGED <<cpu, i8042, seen, ticks>>

(* isr_handler(32): inc_ticks, fb_update_cursor, then the EOI. *)
timer_handler ==
  /\ In(TimerVector, "entry")
  /\ CursorTick
  /\ pic_eoi
  /\ At("iretq")
  /\ UNCHANGED <<cpu, i8042, keyVars, ticks>>

(* The stub returns; an interrupt gate's return enables interrupts again.  *)
iretq ==
  /\ stack # <<>> /\ Head(stack).at = "iretq"
  /\ stack' = Tail(stack)
  /\ IF_flag' = TRUE
  /\ UNCHANGED <<pc, currval, idt, pic, i8042, keyVars, ticks, cursorVars>>

(* for (;;) {} *)
spin ==
  /\ Running("spin", "spin")
  /\ UNCHANGED <<currval, IF_flag, idt, pic, i8042, keyVars, stack, cursorVars>>

------------------------------------------------------------------------------

Main == idt_init \/ pic_init \/ sti \/ pit_init \/ keyboard_init \/ spin

Handler == keyboard_inb \/ keyboard_eoi \/ timer_handler \/ iretq

Cpu == Main \/ Handler \/ \E irq \in Irq : Deliver(irq)

Devices == HandOver \/ Tick \/ DriveDone

InterruptsNext == Cpu \/ Devices \/ KeyEvent

(* Nobody touches the keyboard before pic_init is done. *)
LateKeyEvent == pc \notin {"idt_init", "pic_init"} /\ KeyEvent

LateKeyNext == Cpu \/ Devices \/ LateKeyEvent

(* The processor executes, main program and handlers alike, requests are   *)
(* delivered when they may be, the keyboard hands over its bytes, and the  *)
(* timer, programmed to repeat (pit.c:9), goes on ticking.                 *)
Fairness ==
  /\ WF_intVars(Main) /\ WF_intVars(Handler)
  /\ \A irq \in Irq : WF_intVars(Deliver(irq))
  /\ WF_intVars(HandOver) /\ WF_intVars(Tick)

InterruptsSpec == InterruptsInit /\ [][InterruptsNext]_intVars /\ Fairness

LateKeySpec == InterruptsInit /\ [][LateKeyNext]_intVars /\ Fairness

------------------------------------------------------------------------------
(* Properties *)

InterruptsTypeOK ==
  /\ pc \in {"idt_init", "pic_init", "sti", "pit_read", "pit_write", "kbd_read", "kbd_write",
             "spin"}
  /\ currval \subseteq AllMasked /\ imr \subseteq AllMasked
  /\ irr \subseteq Irq /\ isr \subseteq Irq /\ base \in {8, 32}
  /\ {IF_flag, obf, ticks, stopped} \subseteq BOOLEAN
  /\ typed \in 0..MaxKeys /\ data \in 0..MaxKeys
  /\ fifo \in Seq(1..MaxKeys) /\ seen \in Seq(0..MaxKeys)
  /\ \A i \in 1..Len(stack) : stack[i].vector \in 32..47
  /\ CursorTypeOK

(* A handler is never interrupted: the line buffer, the screen and the     *)
(* counters need no lock (idt.c:18-20, 0x8E).                              *)
NoNesting == Len(stack) <= 1

(* Whatever is delivered has a gate: no masked or unknown line ever gets   *)
(* through to a vector idt_init left empty (idt.c:17-20, pic.c:25-26, 40). *)
EveryVectorHasGate == \A i \in 1..Len(stack) : stack[i].vector \in DOMAIN idt

(* Every key event is read exactly once and in order (keyboard.c:36).      *)
KeysInOrder ==
  seen \o (IF obf THEN <<data>> ELSE <<>>) \o fifo = [k \in 1..typed |-> k]

(* Every key event reaches keyboard_handler in the end: no request is lost *)
(* between the unmasking, the early EOI and the ticks in between           *)
(* (keyboard.c:28-37, pic.c:29-43, kernel.c:26-36).                        *)
EveryKeyHandled == \A k \in 1..MaxKeys : typed >= k ~> Len(seen) >= k

(* From the first tick after a key press on, the cursor shows for the      *)
(* solid time, whichever phase the blinking is in and also where the tick  *)
(* counter wraps (fb.c:65-66, 88-98).                                      *)
SolidAfterKey == since \in 1..(CURSOR_SOLID_TICKS - 1) => cursor

(* The cursor blinks on (README.md:14): it appears and disappears again    *)
(* and again, so no unmasking closes the timer's line and no wrap of the   *)
(* counter ends the blinking (pic.c:36-43, idt.c:55-60, fb.c:92-98).       *)
CursorBlinks == []<>cursor /\ []<>~cursor

===============================================================================
