--------------------------- MODULE InterruptsProofs ---------------------------
(***************************************************************************)
(* Theorems about Interrupts for any number of key events, any width of    *)
(* the tick counter and any blink and solid times.                         *)
(***************************************************************************)
EXTENDS Interrupts, SequenceTheorems, TLAPS

(* How far kernel_main is bounds what the controllers and the processor    *)
(* may do: every gate of idt_init is an interrupt gate, and once pic_init  *)
(* is done only the timer and the keyboard can be unmasked.                *)
Setup ==
  /\ pc # "idt_init" => idt = [v \in 0..KeyVector |-> "interrupt"]
  /\ pc \notin {"idt_init", "pic_init"} => base = 32 /\ AllMasked \ {0, 1} \subseteq imr
  /\ pc \in {"pit_write", "kbd_write"} => AllMasked \ {0, 1} \subseteq currval
  /\ IF_flag => pc \notin {"idt_init", "pic_init", "sti"}

Handlers == {TimerVector, KeyVector}
Steps == {"entry", "eoi", "iretq"}

(* At most one handler runs, and it runs with interrupts disabled.         *)
OneHandler ==
  stack # <<>> =>
    /\ ~IF_flag /\ pc \notin {"idt_init", "pic_init", "sti"}
    /\ \E v \in Handlers, a \in Steps : stack = <<[vector |-> v, at |-> a]>>

(* The keyboard's request stands for the byte in the output buffer: it is  *)
(* the byte the handler is about to read.                                  *)
RequestMeansByte ==
  /\ 1 \in irr => obf
  /\ In(KeyVector, "entry") => obf /\ 1 \notin irr

CpuTypes ==
  /\ pc \in {"idt_init", "pic_init", "sti", "pit_read", "pit_write", "kbd_read", "kbd_write",
             "spin"}
  /\ currval \subseteq AllMasked /\ imr \subseteq AllMasked
  /\ irr \subseteq Irq /\ isr \subseteq Irq /\ base \in {8, 32}
  /\ {IF_flag, ticks} \subseteq BOOLEAN

KeyTypes ==
  /\ obf \in BOOLEAN
  /\ typed \in 0..MaxKeys /\ data \in 0..MaxKeys
  /\ fifo \in Seq(1..MaxKeys) /\ seen \in Seq(0..MaxKeys)

Control == CpuTypes /\ Setup /\ OneHandler

(* While the solid time lasts, the wrapping difference fb_update_cursor    *)
(* computes is the number of ticks gone by.                                *)
SinceIsDifference ==
  since < CURSOR_SOLID_TICKS => (tick_count - last_activity) % TickWord = since

Timing == CursorTypeOK /\ SinceIsDifference /\ SolidAfterKey

------------------------------------------------------------------------------
(* The stack of one handler. *)

LEMMA OneOnStack ==
  ASSUME NEW s, NEW v \in Handlers, NEW a \in Steps,
         s = <<[vector |-> v, at |-> a]>>
  PROVE  /\ s # <<>> /\ Len(s) = 1 /\ s[1] = [vector |-> v, at |-> a]
         /\ Head(s) = [vector |-> v, at |-> a]
         /\ Tail(s) = <<>>
         /\ s \o <<>> = s
<1> DEFINE Frame == [vector : Handlers, at : Steps]
<1>1. [vector |-> v, at |-> a] \in Frame
  OBVIOUS
<1>2. s \in Seq(Frame) /\ Len(s) = 1 /\ s[1] = [vector |-> v, at |-> a]
  BY <1>1
<1>3. s # <<>>
  BY <1>2
<1>4. Tail(s) \in Seq(Frame) /\ Len(Tail(s)) = 0
  <2>1. Tail(s) \in Seq(Frame) /\ Len(Tail(s)) = Len(s) - 1
    BY <1>2, <1>3, HeadTailProperties, Zenon
  <2>2. QED
    BY <1>2, <2>1
<1>5. QED
  BY <1>2, <1>3, <1>4, EmptySeq, ConcatEmptySeq

LEMMA NextStep ==
  ASSUME NEW s, NEW v \in Handlers, NEW a \in Steps, NEW next \in Steps,
         s = <<[vector |-> v, at |-> a]>>
  PROVE  [s EXCEPT ![1].at = next] = <<[vector |-> v, at |-> next]>>
<1>1. s[1] = [vector |-> v, at |-> a]
  OBVIOUS
<1>2. [s EXCEPT ![1].at = next] = [s EXCEPT ![1] = [s[1] EXCEPT !.at = next]]
  OBVIOUS
<1>3. [s[1] EXCEPT !.at = next] = [vector |-> v, at |-> next]
  BY <1>1
<1>4. QED
  BY <1>2, <1>3

(* What a step of the handler that runs does to the stack.                 *)
LEMMA HandlerMoves ==
  ASSUME OneHandler, NEW v \in Handlers, NEW here \in Steps, NEW next \in Steps,
         In(v, here), At(next)
  PROVE  stack = <<[vector |-> v, at |-> here]>> /\ stack' = <<[vector |-> v, at |-> next]>>
<1>1. PICK w \in Handlers, a \in Steps : stack = <<[vector |-> w, at |-> a]>>
  BY DEF OneHandler, In
<1>2. Head(stack) = [vector |-> w, at |-> a] /\ Head(stack) = [vector |-> v, at |-> here]
  BY <1>1, OneOnStack DEF In
<1>3. w = v /\ a = here
  BY <1>2
<1>4. QED
  BY <1>1, <1>3, NextStep DEF At

------------------------------------------------------------------------------
(* Control: kernel_main and its handlers. *)

(* A device touches none of what Control speaks of but the requests.       *)
LEMMA DevicesKeepControl ==
  ASSUME Control, KeyEvent \/ Devices \/ UNCHANGED intVars
  PROVE  Control'
<1>1. irr' \subseteq Irq
  BY DEF Control, CpuTypes, KeyEvent, Devices, HandOver, Tick, DriveDone, Irq, intVars, pic
<1>2. UNCHANGED <<cpu, imr, isr, base, stack>> /\ {ticks'} \subseteq BOOLEAN
  BY DEF Control, CpuTypes, KeyEvent, Devices, HandOver, Tick, DriveDone, intVars, pic
<1>3. CpuTypes'
  BY <1>1, <1>2 DEF Control, CpuTypes, cpu
<1>4. Setup' /\ OneHandler'
  BY <1>2 DEF Control, Setup, OneHandler, cpu
<1>5. QED
  BY <1>3, <1>4 DEF Control

LEMMA MainKeepsControl ==
  ASSUME Control, Main
  PROVE  Control'
<1> USE DEF Control, CpuTypes, Setup, Running, cpu, pic
<1>1. stack' = <<>> /\ ticks' = TRUE /\ isr' \subseteq isr
  BY DEF Main, idt_init, pic_init, sti, pit_init, keyboard_init, UnmaskRead, UnmaskWrite, spin
<1>2. OneHandler'
  BY <1>1 DEF OneHandler
<1>3. CASE idt_init
  BY <1>1, <1>2, <1>3 DEF idt_init
<1>4. CASE pic_init
  BY <1>1, <1>2, <1>4 DEF pic_init
<1>5. CASE sti
  BY <1>1, <1>2, <1>5 DEF sti
<1>6. CASE pit_init
  <2>1. CASE UnmaskRead("pit_read", "pit_write")
    BY <1>1, <1>2, <2>1 DEF UnmaskRead
  <2>2. CASE UnmaskWrite("pit_write", "kbd_read", 0)
    BY <1>1, <1>2, <2>2 DEF UnmaskWrite
  <2>3. QED
    BY <1>6, <2>1, <2>2 DEF pit_init
<1>7. CASE keyboard_init
  <2>1. CASE UnmaskRead("kbd_read", "kbd_write")
    BY <1>1, <1>2, <2>1 DEF UnmaskRead
  <2>2. CASE UnmaskWrite("kbd_write", "spin", 1)
    BY <1>1, <1>2, <2>2 DEF UnmaskWrite
  <2>3. QED
    BY <1>7, <2>1, <2>2 DEF keyboard_init
<1>8. CASE spin
  BY <1>1, <1>2, <1>8 DEF spin
<1>9. QED
  BY <1>3, <1>4, <1>5, <1>6, <1>7, <1>8 DEF Main

(* Only the timer and the keyboard are ever delivered, to an empty stack.  *)
LEMMA Delivered ==
  ASSUME Control, NEW irq \in Irq, Deliver(irq)
  PROVE  /\ irq \in {0, 1} /\ Vector(irq) = 32 + irq /\ Vector(irq) \in Handlers
         /\ pc \notin {"idt_init", "pic_init", "sti"}
         /\ stack = <<>> /\ stack' = <<[vector |-> Vector(irq), at |-> "entry"]>>
         /\ ~IF_flag'
<1>1. IF_flag /\ irq \in irr \ imr
  BY DEF Deliver, Due, Open
<1>2. pc \notin {"idt_init", "pic_init", "sti"} /\ base = 32 /\ AllMasked \ {0, 1} \subseteq imr
  BY <1>1 DEF Control, Setup
<1>3. irq \in {0, 1}
  BY <1>1, <1>2 DEF Irq, AllMasked
<1>4. Vector(irq) = 32 + irq /\ Vector(irq) \in Handlers
  BY <1>2, <1>3 DEF Vector, Handlers, TimerVector, KeyVector
<1>5. stack = <<>>
  BY <1>1 DEF Control, OneHandler
<1>6. stack' = <<[vector |-> Vector(irq), at |-> "entry"]>>
  BY <1>4, <1>5, OneOnStack DEF Deliver, Steps
<1>7. idt = [v \in 0..KeyVector |-> "interrupt"]
  BY <1>2 DEF Control, Setup
<1>8. ~IF_flag'
  <2>1. Vector(irq) \in 0..KeyVector
    BY <1>3, <1>4 DEF KeyVector
  <2>2. IF_flag' = (Vector(irq) \in DOMAIN idt /\ idt[Vector(irq)] = "trap")
    BY DEF Deliver
  <2>3. idt[Vector(irq)] = "interrupt"
    BY <1>7, <2>1
  <2>4. QED
    BY <2>2, <2>3
<1>9. QED
  BY <1>2, <1>3, <1>4, <1>5, <1>6, <1>8

LEMMA DeliveryKeepsControl ==
  ASSUME Control, NEW irq \in Irq, Deliver(irq)
  PROVE  Control'
<1>1. CpuTypes' /\ Setup'
  <2>1. UNCHANGED <<pc, currval, idt, imr, base, ticks>> /\ irr' \subseteq irr
    BY DEF Deliver
  <2>2. isr' \subseteq Irq
    BY DEF Deliver, Control, CpuTypes
  <2>3. IF_flag' = FALSE
    BY Delivered DEF Deliver
  <2>4. QED
    BY <2>1, <2>2, <2>3 DEF Control, CpuTypes, Setup
<1>2. OneHandler'
  <2>1. "entry" \in Steps
    BY DEF Steps
  <2>2. pc' = pc
    BY DEF Deliver
  <2>3. QED
    BY Delivered, <2>1, <2>2 DEF OneHandler
<1>3. QED
  BY <1>1, <1>2 DEF Control

LEMMA HandlersKeepControl ==
  ASSUME Control, Handler
  PROVE  Control'
<1>1. UNCHANGED <<pc, currval, idt, imr, irr, base, ticks>> /\ isr' \subseteq isr
  BY DEF Handler, keyboard_inb, keyboard_eoi, timer_handler, iretq, pic_eoi, cpu, pic
<1>2. stack # <<>>
  BY DEF Handler, keyboard_inb, keyboard_eoi, timer_handler, iretq, In
<1>3. pc \notin {"idt_init", "pic_init", "sti"} /\ ~IF_flag
  BY <1>2 DEF Control, OneHandler
<1>4. CASE iretq
  <2>1. stack' = <<>> /\ IF_flag' = TRUE
    <3>1. PICK v \in Handlers, a \in Steps : stack = <<[vector |-> v, at |-> a]>>
      BY <1>2 DEF Control, OneHandler
    <3>2. QED
      BY <1>4, <3>1, OneOnStack DEF iretq
  <2>2. QED
    BY <1>1, <1>3, <2>1 DEF Control, CpuTypes, Setup, OneHandler
<1>5. ASSUME NEW v \in Handlers, NEW here \in Steps, NEW next \in Steps,
             In(v, here), At(next), UNCHANGED IF_flag
      PROVE  Control'
  <2>1. stack' = <<[vector |-> v, at |-> next]>>
    BY <1>5, HandlerMoves DEF Control
  <2>2. QED
    BY <1>1, <1>3, <1>5, <2>1 DEF Control, CpuTypes, Setup, OneHandler
<1>6. CASE keyboard_inb
  BY <1>5, <1>6 DEF keyboard_inb, cpu, Handlers, Steps
<1>7. CASE keyboard_eoi
  BY <1>5, <1>7 DEF keyboard_eoi, cpu, Handlers, Steps
<1>8. CASE timer_handler
  BY <1>5, <1>8 DEF timer_handler, cpu, Handlers, Steps
<1>9. QED
  BY <1>4, <1>6, <1>7, <1>8 DEF Handler

LEMMA ControlHolds == InterruptsInit => Control
  BY DEF InterruptsInit, Control, CpuTypes, Setup, OneHandler, AllMasked, Irq

LEMMA ControlStep ==
  ASSUME Control, [InterruptsNext]_intVars
  PROVE  Control'
  BY DevicesKeepControl, MainKeepsControl, DeliveryKeepsControl, HandlersKeepControl
  DEF InterruptsNext, Cpu

(* A handler is never interrupted: the gates are interrupt gates and the   *)
(* flag is set again only by the return (idt.c:18-20, interrupts.s).       *)
THEOREM HandlersDoNotNest == InterruptsSpec => []NoNesting
<1>1. Control => NoNesting
  <2>1. ASSUME Control, stack # <<>>
        PROVE  Len(stack) = 1
    BY <2>1, OneOnStack DEF Control, OneHandler
  <2>2. stack = <<>> => Len(stack) = 0
    OBVIOUS
  <2>3. Control => Len(stack) = 0 \/ Len(stack) = 1
    BY <2>1, <2>2, Zenon
  <2>4. 0 <= 1 /\ 1 <= 1
    OBVIOUS
  <2>5. QED
    BY <2>3, <2>4, Zenon DEF NoNesting
<1>2. QED
  BY ControlHolds, ControlStep, <1>1, PTL DEF InterruptsSpec

(* No interrupt is delivered to a vector without a gate, for pic_unmask    *)
(* lets no line through but the two idt_init has gates for (idt.c:17-20,   *)
(* pic.c:25-26, 40).                                                       *)
THEOREM GatesPresent == InterruptsSpec => []EveryVectorHasGate
<1>1. ASSUME Control, NEW i \in 1..Len(stack)
      PROVE  stack[i].vector \in DOMAIN idt
  <2>1. stack # <<>>
    BY <1>1
  <2>2. PICK v \in Handlers, a \in Steps : stack = <<[vector |-> v, at |-> a]>>
    BY <1>1, <2>1 DEF Control, OneHandler
  <2>3. i = 1 /\ stack[1].vector = v
    BY <1>1, <2>2, OneOnStack
  <2>4. idt = [w \in 0..KeyVector |-> "interrupt"]
    BY <1>1, <2>1 DEF Control, OneHandler, Setup
  <2>5. v \in 0..KeyVector
    BY DEF Handlers, TimerVector, KeyVector
  <2>6. QED
    BY <2>3, <2>4, <2>5
<1>2. Control => EveryVectorHasGate
  BY <1>1 DEF EveryVectorHasGate
<1>3. QED
  BY ControlHolds, ControlStep, <1>2, PTL DEF InterruptsSpec

------------------------------------------------------------------------------
(* Keys: the way of a code through the controller. *)

(* What is still to be read: the output buffer's byte, if there is one,    *)
(* and the keyboard's own queue behind it.                                 *)
Queued(full, byte, codes) == (IF full THEN <<byte>> ELSE <<>>) \o codes

LEMMA QueuedTyped ==
  ASSUME NEW S, NEW full \in BOOLEAN, NEW byte \in S, NEW codes \in Seq(S)
  PROVE  Queued(full, byte, codes) \in Seq(S)
<1>1. <<byte>> \in Seq(S) /\ <<>> \in Seq(S)
  BY EmptySeq
<1>2. <<byte>> \o codes \in Seq(S) /\ <<>> \o codes \in Seq(S)
  BY <1>1, ConcatProperties, Zenon
<1>3. QED
  BY <1>2, Zenon DEF Queued

(* A new key goes to the end.                                              *)
LEMMA QueuedAppend ==
  ASSUME NEW S, NEW full \in BOOLEAN, NEW byte \in S, NEW codes \in Seq(S), NEW code \in S,
         NEW read \in Seq(S)
  PROVE  read \o Queued(full, byte, Append(codes, code))
           = Append(read \o Queued(full, byte, codes), code)
<1>1. <<code>> \in Seq(S)
  OBVIOUS
<1>2. /\ Queued(full, byte, codes) \in Seq(S)
      /\ read \o Queued(full, byte, codes) \in Seq(S)
  BY QueuedTyped, ConcatProperties, Zenon
<1>3. Append(codes, code) = codes \o <<code>>
  BY AppendIsConcat, Zenon
<1>4. Append(read \o Queued(full, byte, codes), code)
        = (read \o Queued(full, byte, codes)) \o <<code>>
  BY <1>2, AppendIsConcat, Zenon
<1>5. (read \o Queued(full, byte, codes)) \o <<code>>
        = read \o (Queued(full, byte, codes) \o <<code>>)
  BY <1>1, <1>2, ConcatAssociative, SMT
<1>6. Queued(full, byte, codes) \o <<code>> = Queued(full, byte, codes \o <<code>>)
  <2>1. PICK front \in Seq(S) : front = IF full THEN <<byte>> ELSE <<>>
    <3>1. <<byte>> \in Seq(S) /\ <<>> \in Seq(S)
      BY EmptySeq
    <3>2. QED
      BY <3>1, Zenon
  <2>2. (front \o codes) \o <<code>> = front \o (codes \o <<code>>)
    BY <1>1, ConcatAssociative, SMT
  <2>3. QED
    BY <2>1, <2>2, Zenon DEF Queued
<1>7. QED
  BY <1>3, <1>4, <1>5, <1>6, Zenon

(* Handing the first code over changes nothing in what is to be read.      *)
LEMMA QueuedHandOver ==
  ASSUME NEW S, NEW byte, NEW codes \in Seq(S), codes # <<>>
  PROVE  Queued(TRUE, Head(codes), Tail(codes)) = Queued(FALSE, byte, codes)
<1>1. Queued(FALSE, byte, codes) = codes
  BY ConcatEmptySeq, Zenon DEF Queued
<1>2. /\ Head(codes) \in S /\ Tail(codes) \in Seq(S)
      /\ Len(Tail(codes)) = Len(codes) - 1
      /\ \A i \in 1..Len(Tail(codes)) : Tail(codes)[i] = codes[i + 1]
  BY HeadTailProperties, Zenon
<1>3. <<Head(codes)>> \o Tail(codes) = codes
  BY <1>2
<1>4. QED
  BY <1>1, <1>3, Zenon DEF Queued

(* Reading the byte moves it from what is queued to what has been read.    *)
LEMMA QueuedRead ==
  ASSUME NEW S, NEW byte \in S, NEW codes \in Seq(S), NEW read \in Seq(S)
  PROVE  Append(read, byte) \o Queued(FALSE, byte, codes) = read \o Queued(TRUE, byte, codes)
<1>1. <<byte>> \in Seq(S)
  OBVIOUS
<1>2. Append(read, byte) = read \o <<byte>>
  BY AppendIsConcat, Zenon
<1>3. Queued(FALSE, byte, codes) = codes
  BY ConcatEmptySeq, Zenon DEF Queued
<1>4. (read \o <<byte>>) \o codes = read \o (<<byte>> \o codes)
  BY <1>1, ConcatAssociative, SMT
<1>5. QED
  BY <1>2, <1>3, <1>4, Zenon DEF Queued

(* KeysInOrder, regrouped: what has been read, then what is still to be.   *)
Ordered == seen \o Queued(obf, data, fifo) = [k \in 1..typed |-> k]

Keys == KeyTypes /\ RequestMeansByte /\ Ordered

Codes == 0..MaxKeys

LEMMA KeyTypesUse ==
  ASSUME KeyTypes
  PROVE  /\ obf \in BOOLEAN /\ data \in Codes /\ fifo \in Seq(Codes) /\ seen \in Seq(Codes)
         /\ typed \in Nat
  BY SeqMonotonic, InterruptsAssumption DEF KeyTypes, Codes

LEMMA KeyEventKeepsKeys ==
  ASSUME Keys, KeyEvent
  PROVE  Keys'
<1>1. typed' = typed + 1 /\ typed' \in 1..MaxKeys /\ typed \in Nat
  BY InterruptsAssumption DEF Keys, KeyTypes, KeyEvent
<1>2. fifo' = Append(fifo, typed') /\ UNCHANGED <<irr, obf, data, seen, stack>>
  BY <1>1 DEF KeyEvent, pic, keyVars
<1>3. KeyTypes'
  <2>1. fifo' \in Seq(1..MaxKeys)
    BY <1>1, <1>2, AppendProperties DEF Keys, KeyTypes
  <2>2. typed' \in 0..MaxKeys
    BY <1>1
  <2>3. QED
    BY <1>2, <2>1, <2>2 DEF Keys, KeyTypes
<1>4. Ordered'
  <2>1. typed' \in Codes
    BY <1>1 DEF Codes
  <2>2. seen \o Queued(obf, data, Append(fifo, typed'))
          = Append(seen \o Queued(obf, data, fifo), typed')
    BY <2>1, KeyTypesUse, QueuedAppend DEF Keys
  <2>3. Append([k \in 1..typed |-> k], typed + 1) = [k \in 1..(typed + 1) |-> k]
    BY <1>1
  <2>4. QED
    BY <1>1, <1>2, <2>2, <2>3, Zenon DEF Keys, Ordered
<1>5. RequestMeansByte'
  BY <1>2 DEF Keys, RequestMeansByte, In
<1>6. QED
  BY <1>3, <1>4, <1>5 DEF Keys

LEMMA HandOverKeepsKeys ==
  ASSUME Keys, HandOver
  PROVE  Keys'
<1>1. /\ ~obf /\ fifo # <<>> /\ obf' = TRUE /\ data' = Head(fifo) /\ fifo' = Tail(fifo)
      /\ UNCHANGED <<typed, seen, stack>>
  BY DEF HandOver, keyVars
<1>2. KeyTypes'
  <2>1. Head(fifo) \in 1..MaxKeys /\ Tail(fifo) \in Seq(1..MaxKeys)
    BY <1>1, HeadTailProperties DEF Keys, KeyTypes
  <2>2. data' \in 0..MaxKeys
    BY <1>1, <2>1
  <2>3. QED
    BY <1>1, <2>1, <2>2 DEF Keys, KeyTypes
<1>3. Ordered'
  <2>1. Queued(TRUE, Head(fifo), Tail(fifo)) = Queued(FALSE, data, fifo)
    BY <1>1, KeyTypesUse, QueuedHandOver DEF Keys
  <2>2. obf = FALSE
    BY <1>1 DEF Keys, KeyTypes
  <2>3. QED
    BY <1>1, <2>1, <2>2, Zenon DEF Keys, Ordered
<1>4. RequestMeansByte'
  BY <1>1 DEF Keys, RequestMeansByte, In
<1>5. QED
  BY <1>2, <1>3, <1>4 DEF Keys

LEMMA ReadKeepsKeys ==
  ASSUME Control, Keys, keyboard_inb
  PROVE  Keys'
<1>1. /\ In(KeyVector, "entry") /\ At("eoi")
      /\ seen' = Append(seen, data) /\ obf' = FALSE /\ UNCHANGED <<irr, typed, fifo, data>>
  BY DEF keyboard_inb, pic
<1>2. obf = TRUE /\ 1 \notin irr
  BY <1>1 DEF Keys, KeyTypes, RequestMeansByte
<1>3. KeyTypes'
  <2>1. seen' \in Seq(0..MaxKeys)
    BY <1>1, AppendProperties DEF Keys, KeyTypes
  <2>2. QED
    BY <1>1, <2>1 DEF Keys, KeyTypes
<1>4. Ordered'
  <2>1. Append(seen, data) \o Queued(FALSE, data, fifo) = seen \o Queued(TRUE, data, fifo)
    BY KeyTypesUse, QueuedRead DEF Keys
  <2>2. QED
    BY <1>1, <1>2, <2>1, Zenon DEF Keys, Ordered
<1>5. RequestMeansByte'
  <2>1. stack' = <<[vector |-> KeyVector, at |-> "eoi"]>>
    BY <1>1, HandlerMoves DEF Control, Handlers, Steps
  <2>2. Head(stack') = [vector |-> KeyVector, at |-> "eoi"]
    BY <2>1, OneOnStack DEF Handlers, Steps
  <2>3. ~In(KeyVector, "entry")'
    BY <2>2 DEF In
  <2>4. QED
    BY <1>1, <1>2, <2>3 DEF RequestMeansByte
<1>6. QED
  BY <1>3, <1>4, <1>5 DEF Keys

(* The other steps leave the codes alone; no request of the keyboard is    *)
(* made up, and a handler that enters takes its request along.             *)
LEMMA OthersKeepKeys ==
  ASSUME Keys, UNCHANGED <<typed, fifo, obf, data, seen>>, 1 \in irr' => 1 \in irr,
         In(KeyVector, "entry")' => In(KeyVector, "entry") \/ (1 \in irr /\ 1 \notin irr')
  PROVE  Keys'
<1>1. KeyTypes' /\ Ordered'
  BY DEF Keys, KeyTypes, Ordered
<1>2. RequestMeansByte'
  BY DEF Keys, RequestMeansByte
<1>3. QED
  BY <1>1, <1>2 DEF Keys

LEMMA DeliveryKeepsKeys ==
  ASSUME Control, Keys, NEW irq \in Irq, Deliver(irq)
  PROVE  Keys'
<1>1. irr' = irr \ {irq} /\ irq \in irr /\ UNCHANGED <<typed, fifo, obf, data, seen>>
  BY DEF Deliver, Due, Open, i8042, keyVars
<1>2. ASSUME In(KeyVector, "entry")'
      PROVE  irq = 1
  <2>1. Head(stack') = [vector |-> Vector(irq), at |-> "entry"]
    BY Delivered, OneOnStack DEF Steps
  <2>2. Vector(irq) = KeyVector
    BY <1>2, <2>1 DEF In
  <2>3. QED
    BY <2>2, Delivered DEF KeyVector
<1>3. QED
  BY <1>1, <1>2, OthersKeepKeys

LEMMA HandlersKeepKeys ==
  ASSUME Control, Keys, Handler
  PROVE  Keys'
<1>1. CASE keyboard_inb
  BY <1>1, ReadKeepsKeys
<1>2. CASE keyboard_eoi \/ timer_handler
  <2>1. irr' = irr /\ UNCHANGED <<typed, fifo, obf, data, seen>>
    BY <1>2 DEF keyboard_eoi, timer_handler, pic_eoi, i8042, keyVars
  <2>2. PICK v \in Handlers, here \in Steps : In(v, here) /\ At("iretq")
    BY <1>2 DEF keyboard_eoi, timer_handler, Handlers, Steps
  <2>3. stack' = <<[vector |-> v, at |-> "iretq"]>>
    BY <2>2, HandlerMoves DEF Control, Steps
  <2>4. Head(stack') = [vector |-> v, at |-> "iretq"]
    BY <2>3, OneOnStack DEF Steps
  <2>5. ~In(KeyVector, "entry")'
    BY <2>4 DEF In
  <2>6. QED
    BY <2>1, <2>5, OthersKeepKeys
<1>3. CASE iretq
  <2>1. irr' = irr /\ UNCHANGED <<typed, fifo, obf, data, seen>>
    BY <1>3 DEF iretq, pic, i8042, keyVars
  <2>2. PICK v \in Handlers, a \in Steps : stack = <<[vector |-> v, at |-> a]>>
    BY <1>3 DEF iretq, Control, OneHandler
  <2>3. stack' = <<>>
    BY <1>3, <2>2, OneOnStack DEF iretq
  <2>4. QED
    BY <2>1, <2>3, OthersKeepKeys DEF In
<1>4. QED
  BY <1>1, <1>2, <1>3 DEF Handler

LEMMA MainKeepsKeys ==
  ASSUME Keys, Main
  PROVE  Keys'
<1>1. /\ UNCHANGED <<typed, fifo, obf, data, seen>>
      /\ irr' \subseteq irr /\ stack' = <<>>
  BY DEF Main, idt_init, pic_init, sti, pit_init, keyboard_init, UnmaskRead, UnmaskWrite, spin,
         Running, pic, i8042, keyVars
<1>2. QED
  BY <1>1, OthersKeepKeys DEF In

LEMMA DevicesKeepKeys ==
  ASSUME Keys, Tick \/ DriveDone \/ UNCHANGED intVars
  PROVE  Keys'
<1>1. /\ UNCHANGED <<typed, fifo, obf, data, seen, stack>>
      /\ irr' \subseteq irr \cup {0, 14}
  BY DEF Tick, DriveDone, intVars, pic, i8042, keyVars
<1>2. QED
  BY <1>1, OthersKeepKeys DEF In

LEMMA KeysHold == InterruptsInit => Keys
<1>1. ASSUME InterruptsInit
      PROVE  KeyTypes /\ RequestMeansByte
  <2>1. /\ typed = 0 /\ data = 0 /\ obf = FALSE /\ irr = {}
        /\ fifo = <<>> /\ seen = <<>> /\ stack = <<>>
    BY <1>1 DEF InterruptsInit
  <2>2. 0 \in 0..MaxKeys
    BY InterruptsAssumption
  <2>3. fifo \in Seq(1..MaxKeys) /\ seen \in Seq(0..MaxKeys)
    BY <2>1, EmptySeq, Zenon
  <2>4. KeyTypes
    BY <2>1, <2>2, <2>3 DEF KeyTypes
  <2>5. RequestMeansByte
    BY <2>1 DEF RequestMeansByte, In
  <2>6. QED
    BY <2>4, <2>5
<1>2. ASSUME InterruptsInit
      PROVE  Ordered
  <2>1. Queued(obf, data, fifo) = <<>>
    BY <1>2 DEF InterruptsInit, Queued
  <2>2. [k \in 1..0 |-> k] = <<>>
    OBVIOUS
  <2>3. QED
    BY <1>2, <2>1, <2>2 DEF InterruptsInit, Ordered
<1>3. QED
  BY <1>1, <1>2 DEF Keys

LEMMA KeysStep ==
  ASSUME Control, Keys, [InterruptsNext]_intVars
  PROVE  Keys'
  BY KeyEventKeepsKeys, HandOverKeepsKeys, DeliveryKeepsKeys, HandlersKeepKeys, MainKeepsKeys,
     DevicesKeepKeys
  DEF InterruptsNext, Cpu, Devices

(* No key event is lost, doubled or overtaken on the way from the keyboard *)
(* to the handler, whatever interrupts come in between (keyboard.c:36).    *)
THEOREM KeysReadInOrder == InterruptsSpec => []KeysInOrder
<1>1. Keys => KeysInOrder
  <2>1. ASSUME Keys
        PROVE  seen \o (IF obf THEN <<data>> ELSE <<>>) \o fifo = seen \o Queued(obf, data, fifo)
    <3>1. /\ obf \in BOOLEAN /\ data \in Codes /\ fifo \in Seq(Codes)
          /\ seen \in Seq(Codes)
      BY <2>1, KeyTypesUse DEF Keys
    <3>2. CASE obf
      <4>1. <<data>> \in Seq(Codes)
        BY <3>1
      <4>2. (seen \o <<data>>) \o fifo = seen \o (<<data>> \o fifo)
        BY <3>1, <4>1, ConcatAssociative, SMT
      <4>3. QED
        BY <3>2, <4>2, Zenon DEF Queued
    <3>3. CASE ~obf
      <4>1. seen \o <<>> = seen /\ <<>> \o fifo = fifo
        BY <3>1, ConcatEmptySeq, Zenon
      <4>2. QED
        BY <3>3, <4>1, Zenon DEF Queued
    <3>4. QED
      BY <3>2, <3>3, Zenon
  <2>2. QED
    BY <2>1, Zenon DEF Keys, Ordered, KeysInOrder
<1>2. QED
  BY ControlHolds, ControlStep, KeysHold, KeysStep, <1>1, PTL DEF InterruptsSpec

------------------------------------------------------------------------------
(* Timing: the cursor after a key press. *)

LEMMA ModSmall ==
  ASSUME NEW w \in Nat \ {0}, NEW x \in Int
  PROVE  /\ x \in 0..(w - 1) => x % w = x
         /\ -w <= x /\ x < 0 => x % w = x + w
  OBVIOUS

(* One tick more is one more in the wrapping difference, wherever the      *)
(* counter stands (pit.c:13, fb.c:94).                                     *)
LEMMA DifferenceSteps ==
  ASSUME NEW w \in Nat \ {0}, NEW t \in 0..(w - 1), NEW l \in 0..(w - 1), NEW s \in Nat,
         s + 1 < w, (t - l) % w = s
  PROVE  /\ (t + 1) % w \in 0..(w - 1)
         /\ (((t + 1) % w) - l) % w = s + 1
<1>1. CASE t + 1 < w
  <2>1. (t + 1) % w = t + 1
    BY <1>1, ModSmall
  <2>2. CASE t >= l
    <3>1. t - l = s
      BY <2>2, ModSmall
    <3>2. (t + 1 - l) % w = t + 1 - l
      BY <2>2, <3>1, ModSmall
    <3>3. QED
      BY <2>1, <3>1, <3>2
  <2>3. CASE t < l
    <3>1. t - l + w = s
      BY <2>3, ModSmall
    <3>2. (t + 1 - l) % w = t + 1 - l + w
      BY <2>3, <3>1, ModSmall
    <3>3. QED
      BY <2>1, <3>1, <3>2
  <2>4. QED
    BY <2>2, <2>3
<1>2. CASE t + 1 = w
  <2>1. (t + 1) % w = 0
    BY <1>2
  <2>2. t - l = s /\ l # 0
    BY <1>2, ModSmall
  <2>3. (0 - l) % w = w - l
    BY <2>2, ModSmall
  <2>4. QED
    BY <1>2, <2>1, <2>2, <2>3
<1>3. QED
  BY <1>1, <1>2

LEMMA PressKeepsTiming ==
  ASSUME Timing, CursorPress
  PROVE  Timing'
<1>1. /\ last_activity' = tick_count /\ tick_count' = tick_count /\ since' = 0
      /\ tick_count \in 0..(TickWord - 1)
  BY DEF Timing, CursorTypeOK, CursorPress
<1>2. CursorTypeOK'
  <2>1. cursor' \in BOOLEAN
    BY DEF Timing, CursorTypeOK, CursorPress
  <2>2. since' \in 0..CURSOR_SOLID_TICKS
    BY <1>1, CursorAssumption
  <2>3. QED
    BY <1>1, <2>1, <2>2 DEF CursorTypeOK
<1>3. SinceIsDifference'
  <2>1. TickWord \in Nat \ {0} /\ tick_count - tick_count = 0
    BY <1>1, CursorAssumption
  <2>2. 0 % TickWord = 0
    BY <2>1, ModSmall
  <2>3. QED
    BY <1>1, <2>1, <2>2 DEF SinceIsDifference
<1>4. SolidAfterKey'
  BY <1>1 DEF SolidAfterKey
<1>5. QED
  BY <1>2, <1>3, <1>4 DEF Timing

LEMMA TickKeepsTiming ==
  ASSUME Timing, CursorTick
  PROVE  Timing'
<1>1. /\ tick_count \in 0..(TickWord - 1) /\ last_activity \in 0..(TickWord - 1)
      /\ since \in 0..CURSOR_SOLID_TICKS
      /\ TickWord \in Nat \ {0} /\ CURSOR_SOLID_TICKS \in Nat /\ CURSOR_SOLID_TICKS < TickWord
  BY CursorAssumption DEF Timing, CursorTypeOK
<1>2. /\ tick_count' = (tick_count + 1) % TickWord /\ last_activity' = last_activity
      /\ since' = IF since < CURSOR_SOLID_TICKS THEN since + 1 ELSE since
      /\ cursor' = Shown(tick_count')
  BY DEF CursorTick
<1>3. CursorTypeOK'
  <2>1. tick_count' \in 0..(TickWord - 1)
    BY <1>1, <1>2
  <2>2. since' \in 0..CURSOR_SOLID_TICKS
    BY <1>1, <1>2
  <2>3. cursor' \in BOOLEAN
    BY <1>2 DEF Shown
  <2>4. QED
    BY <1>1, <1>2, <2>1, <2>2, <2>3 DEF CursorTypeOK
<1>4. ASSUME since' < CURSOR_SOLID_TICKS
      PROVE  (tick_count' - last_activity) % TickWord = since'
  <2>1. since < CURSOR_SOLID_TICKS /\ since' = since + 1 /\ since + 1 < TickWord
    BY <1>1, <1>2, <1>4
  <2>2. (tick_count - last_activity) % TickWord = since
    BY <2>1 DEF Timing, SinceIsDifference
  <2>3. since \in Nat
    BY <1>1
  <2>4. (((tick_count + 1) % TickWord) - last_activity) % TickWord = since + 1
    BY <1>1, <2>1, <2>2, <2>3, DifferenceSteps
  <2>5. QED
    BY <1>2, <2>1, <2>4
<1>5. SinceIsDifference'
  BY <1>2, <1>4 DEF SinceIsDifference
<1>6. SolidAfterKey'
  <2>1. since' \in 1..(CURSOR_SOLID_TICKS - 1) => since' < CURSOR_SOLID_TICKS
    BY <1>1
  <2>2. QED
    BY <1>2, <1>4, <2>1 DEF SolidAfterKey, Shown
<1>7. QED
  BY <1>3, <1>5, <1>6 DEF Timing

LEMMA TimingHolds == InterruptsInit => Timing
<1>1. 0 % TickWord = 0 /\ 0 \in 0..(TickWord - 1) /\ 0 \in 0..CURSOR_SOLID_TICKS
  BY CursorAssumption, ModSmall
<1>2. ASSUME InterruptsInit
      PROVE  tick_count = 0 /\ last_activity = 0 /\ cursor = FALSE /\ since = 0
  BY <1>2 DEF InterruptsInit, CursorInit
<1>3. ASSUME InterruptsInit
      PROVE  CursorTypeOK
  BY <1>1, <1>2, <1>3, Zenon DEF CursorTypeOK
<1>4. ASSUME InterruptsInit
      PROVE  SinceIsDifference /\ SolidAfterKey
  <2>1. 0 - 0 = 0 /\ ~(0 \in 1..(CURSOR_SOLID_TICKS - 1))
    OBVIOUS
  <2>2. QED
    BY <1>1, <1>2, <1>4, <2>1 DEF SinceIsDifference, SolidAfterKey
<1>5. QED
  BY <1>3, <1>4 DEF Timing

(* Only the end of the two handlers touches the cursor's timing.           *)
LEMMA TimingStep ==
  ASSUME Timing, [InterruptsNext]_intVars
  PROVE  Timing'
<1>1. CASE UNCHANGED cursorVars
  BY <1>1 DEF cursorVars, Timing, CursorTypeOK, SinceIsDifference, SolidAfterKey
<1>2. CASE keyboard_eoi
  BY <1>1, <1>2, PressKeepsTiming DEF keyboard_eoi
<1>3. CASE timer_handler
  BY <1>3, TickKeepsTiming DEF timer_handler
<1>4. KeyEvent \/ Devices \/ Main => UNCHANGED cursorVars
  BY DEF KeyEvent, Devices, HandOver, Tick, DriveDone, Main, idt_init, pic_init, sti, pit_init,
         keyboard_init, UnmaskRead, UnmaskWrite, spin
<1>5. (\E irq \in Irq : Deliver(irq)) \/ keyboard_inb \/ iretq => UNCHANGED cursorVars
  BY DEF Deliver, keyboard_inb, iretq
<1>6. UNCHANGED intVars => UNCHANGED cursorVars
  BY DEF intVars
<1>7. QED
  BY <1>1, <1>2, <1>3, <1>4, <1>5, <1>6 DEF InterruptsNext, Cpu, Handler

(* The solid time holds for every width of the counter, also where it      *)
(* wraps between the press and the tick (fb.c:65-66, 88-98).               *)
THEOREM CursorSolid == InterruptsSpec => []SolidAfterKey
<1>1. Timing => SolidAfterKey
  BY DEF Timing
<1>2. QED
  BY TimingHolds, TimingStep, <1>1, PTL DEF InterruptsSpec

StoppedType == stopped \in BOOLEAN

LEMMA StoppedIsBoolean == InterruptsSpec => []StoppedType
<1>1. InterruptsInit => StoppedType
  BY DEF InterruptsInit, StoppedType
<1>2. ASSUME StoppedType, [InterruptsNext]_intVars
      PROVE  StoppedType'
  <2>1. CASE UNCHANGED stopped
    BY <1>2, <2>1 DEF StoppedType
  <2>2. CASE keyboard_eoi
    BY <1>2, <2>2, Zenon DEF keyboard_eoi, StoppedType
  <2>3. KeyEvent \/ Devices \/ Main => UNCHANGED stopped
    BY DEF KeyEvent, Devices, HandOver, Tick, DriveDone, Main, idt_init, pic_init, sti, pit_init,
           keyboard_init, UnmaskRead, UnmaskWrite, spin, keyVars
  <2>4. (\E irq \in Irq : Deliver(irq)) \/ keyboard_inb \/ timer_handler \/ iretq
        => UNCHANGED stopped
    BY DEF Deliver, keyboard_inb, timer_handler, iretq, keyVars
  <2>5. UNCHANGED intVars => UNCHANGED stopped
    BY DEF intVars, keyVars
  <2>6. QED
    BY <1>2, <2>1, <2>2, <2>3, <2>4, <2>5, Zenon DEF InterruptsNext, Cpu, Handler
<1>3. QED
  BY <1>1, <1>2, PTL DEF InterruptsSpec

(* Every variable keeps its type; the vectors on the stack are ones that   *)
(* pic_init gave to the IRQs.                                              *)
THEOREM InterruptsTypes == InterruptsSpec => []InterruptsTypeOK
<1>1. ASSUME Control, Keys, Timing, StoppedType
      PROVE  InterruptsTypeOK
  <2>1. ASSUME NEW i \in 1..Len(stack)
        PROVE  stack[i].vector \in 32..47
    <3>1. stack # <<>>
      BY <2>1
    <3>2. PICK v \in Handlers, a \in Steps : stack = <<[vector |-> v, at |-> a]>>
      BY <1>1, <3>1 DEF Control, OneHandler
    <3>3. i = 1 /\ stack[1].vector = v
      BY <2>1, <3>2, OneOnStack
    <3>4. QED
      BY <3>3 DEF Handlers, TimerVector, KeyVector
  <2>2. {IF_flag, obf, ticks, stopped} \subseteq BOOLEAN
    BY <1>1, Zenon DEF Control, CpuTypes, Keys, KeyTypes, StoppedType
  <2>3. QED
    BY <1>1, <2>1, <2>2, Zenon DEF Control, CpuTypes, Keys, KeyTypes, Timing, InterruptsTypeOK
<1>2. QED
  BY ControlHolds, ControlStep, KeysHold, KeysStep, TimingHolds, TimingStep, StoppedIsBoolean, <1>1,
     PTL
  DEF InterruptsSpec

(* What is proved of keys at any time holds of keys after pic_init, which  *)
(* the run on EveryKeyHandled assumes.                                     *)
THEOREM LateKeysAreKeys == LateKeySpec => InterruptsSpec
<1>1. [LateKeyNext]_intVars => [InterruptsNext]_intVars
  BY DEF LateKeyNext, LateKeyEvent, InterruptsNext
<1>2. QED
  BY <1>1, PTL DEF LateKeySpec, InterruptsSpec

===============================================================================
