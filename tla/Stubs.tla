--------------------------------- MODULE Stubs ---------------------------------
(***************************************************************************)
(* The interrupt stubs, instruction by instruction (boot/interrupts.s):    *)
(* what the processor pushes, what a stub adds so that every handler finds *)
(* the same layout, the call of isr_handler, and the way back.  An         *)
(* exception may strike between any two instructions, a handler's too.     *)
(*                                                                         *)
(* The stack is the sequence of its 8-byte words, the one rsp points to    *)
(* first; words below rsp are dead, as the kernel is compiled without a    *)
(* red zone (Makefile:8).                                                  *)
(***************************************************************************)
EXTENDS Integers, Sequences

CONSTANTS
  Outer,             \* vectors that interrupt the main program
  Nested,            \* vectors that interrupt a stub or a handler
  MaxDepth           \* bound on the interrupts under way, for TLC

(* The vectors of the 34 stubs. *)
ASSUME StubsAssumption ==
  Outer \subseteq 0..33 /\ Nested \subseteq 0..33 /\ MaxDepth \in Nat

VARIABLES
  stack,             \* the words from rsp up
  regs,              \* the general registers without rsp
  rip,
  IF_flag,           \* interrupts enabled
  before             \* the contexts interrupted, the innermost first

vars == <<stack, regs, rip, IF_flag, before>>

Irqs == {32, 33}

(* Code addresses: instruction k of vector v's stub is 100 * v + k. *)
isr_handler == 5000
InHandler   == 5001
MainProgram == 9000

Base  == 1000                        \* the word address of stack_top, even
rsp   == Base - Len(stack)
Junk  == -1

(* isr_common saves the registers in one order ... *)
Pushed == <<"rax", "rbx", "rcx", "rdx", "rbp", "rsi", "rdi", "r8", "r9", "r10", "r11",
            "r12", "r13", "r14", "r15">>

(* Mutant: two registers are not restored in the opposite order. *)
Popped_Swapped ==
  <<"r15", "r14", "r13", "r12", "r11", "r10", "r9", "r8", "rsi", "rdi", "rbp",
    "rdx", "rcx", "rbx", "rax">>

(* ... and restores them in the opposite one. *)
Popped == <<"r15", "r14", "r13", "r12", "r11", "r10", "r9", "r8", "rdi", "rsi", "rbp",
            "rdx", "rcx", "rbx", "rax">>

CallerSaved == {"rax", "rcx", "rdx", "rsi", "rdi", "r8", "r9", "r10", "r11"}

Init ==
  /\ stack \in {<<>>, <<Junk>>}
  /\ regs = [r \in {Pushed[k] : k \in 1..Len(Pushed)} |->
                  100 + CHOOSE k \in 1..Len(Pushed) : Pushed[k] = r]
  /\ rip = MainProgram
  /\ IF_flag \in BOOLEAN
  /\ before = <<>>

------------------------------------------------------------------------------
(* The stubs.  isr8 and its like leave out the dummy error code. *)

(* Mutant: isr17 pushes a dummy code although the processor pushed one. *)
NoDummy_Not17 == {8, 10, 11, 12, 13, 14, 21}

NoDummy == {8, 10, 11, 12, 13, 14, 17, 21}

Entry(v) ==
  (IF v \in NoDummy THEN <<>> ELSE << <<"pushq $", 0>> >>) \o << <<"pushq $", v>> >>

isr_common ==
  [k \in 1..Len(Pushed) |-> <<"pushq", Pushed[k]>>]
  \o << <<"movq", 15, "rdi">>, <<"movq", 16, "rsi">>, <<"call", isr_handler>> >>
  \o [k \in 1..Len(Popped) |-> <<"popq", Popped[k]>>]
  \o << <<"addq", 2>>, <<"iretq", 0>> >>

Stub(v) == Entry(v) \o isr_common

InStub == rip < isr_handler
Instr  == Stub(rip \div 100)[rip % 100]
At(op) == InStub /\ Instr[1] = op

Step(op) == At(op) /\ rip' = rip + 1 /\ UNCHANGED <<IF_flag, before>>

push_const == Step("pushq $") /\ stack' = <<Instr[2]>> \o stack /\ UNCHANGED regs

push == Step("pushq") /\ stack' = <<regs[Instr[2]]>> \o stack /\ UNCHANGED regs

movq ==
  /\ Step("movq")
  /\ regs' = [regs EXCEPT ![Instr[3]] = stack[Instr[2] + 1]]
  /\ UNCHANGED stack

call ==
  /\ At("call")
  /\ stack' = <<rip + 1>> \o stack
  /\ rip' = Instr[2]
  /\ UNCHANGED <<regs, IF_flag, before>>

pop ==
  /\ Step("popq")
  /\ regs' = [regs EXCEPT ![Instr[2]] = Head(stack)]
  /\ stack' = Tail(stack)

addq == Step("addq") /\ stack' = SubSeq(stack, Instr[2] + 1, Len(stack)) /\ UNCHANGED regs

(* The processor takes rip, cs, rflags, rsp and ss from the stack. *)
iretq ==
  /\ At("iretq")
  /\ rip' = stack[1]
  /\ IF_flag' = (stack[3] = 1)
  /\ stack' = SubSeq(stack, Len(stack) - (Base - stack[4]) + 1, Len(stack))
  /\ before' = Tail(before)
  /\ UNCHANGED regs

------------------------------------------------------------------------------
(* isr_handler, of which only what the calling convention lets it do       *)
(* matters here: a frame of its own, and any registers but the callee's.   *)

isr_handler_runs ==
  /\ rip = isr_handler
  /\ rip' = InHandler
  /\ stack' = <<Junk>> \o stack
  /\ regs' = [r \in DOMAIN regs |-> IF r \in CallerSaved THEN Junk ELSE regs[r]]
  /\ UNCHANGED <<IF_flag, before>>

isr_handler_ret ==
  /\ rip = InHandler
  /\ rip' = stack[2]
  /\ stack' = SubSeq(stack, 3, Len(stack))
  /\ UNCHANGED <<regs, IF_flag, before>>

------------------------------------------------------------------------------
(* The processor: it aligns rsp to 16 bytes, pushes the frame and, for     *)
(* some exceptions, an error code; a gate of type 0x8E clears IF.          *)

WithCode == {8, 10, 11, 12, 13, 14, 17, 21}
ErrorCode == 7

Interrupt(v) ==
  /\ Len(before) < MaxDepth
  /\ v \in Irqs => IF_flag
  /\ LET pad   == IF rsp % 2 = 0 THEN <<>> ELSE <<Junk>>
         frame == <<rip, 8, IF IF_flag THEN 1 ELSE 0, rsp, 16>>
         code  == IF v \in WithCode THEN <<ErrorCode>> ELSE <<>>
     IN  stack' = code \o frame \o pad \o stack
  /\ before' = << [vector |-> v, code |-> IF v \in WithCode THEN ErrorCode ELSE 0,
                   stack |-> stack, regs |-> regs, rip |-> rip, IF_flag |-> IF_flag] >>
               \o before
  /\ rip' = 100 * v + 1
  /\ IF_flag' = FALSE
  /\ UNCHANGED regs

Interrupted ==
  \E v \in IF before = <<>> THEN Outer ELSE Nested : Interrupt(v)

isr == push_const \/ push \/ movq \/ call \/ pop \/ addq \/ iretq

Next == isr \/ isr_handler_runs \/ isr_handler_ret \/ Interrupted

Spec == Init /\ [][Next]_vars

------------------------------------------------------------------------------
(* Properties *)

(* isr_handler is called with the stack aligned to 16 bytes, as compiled C *)
(* expects, and with the vector and the error code, 0 where there is none, *)
(* for every vector and wherever rsp was (interrupts.s:39-110).            *)
CallConvention ==
  At("call") =>
    /\ rsp % 2 = 0
    /\ regs["rdi"] = before[1].vector
    /\ regs["rsi"] = before[1].code

(* An interrupt leaves no trace in what it interrupted: every register,    *)
(* the stack and its pointer, the interrupt flag and the place to go on    *)
(* are what they were, nested interrupts included (interrupts.s:89-127).   *)
ContextRestored ==
  [][Len(before') < Len(before) =>
       [stack |-> stack', regs |-> regs', rip |-> rip', IF_flag |-> IF_flag']
     = [stack |-> before[1].stack, regs |-> before[1].regs, rip |-> before[1].rip,
        IF_flag |-> before[1].IF_flag]]_vars

================================================================================
