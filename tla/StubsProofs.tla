------------------------------ MODULE StubsProofs ------------------------------
(***************************************************************************)
(* Theorems about Stubs for every choice of vectors and any depth of       *)
(* nested interrupts.                                                      *)
(***************************************************************************)
EXTENDS Stubs, SequenceTheorems, TLAPS

Reg == {Pushed[k] : k \in 1..Len(Pushed)}
Vectors == 0..33

Context == [vector : Vectors, code : Int, stack : Seq(Int), regs : [Reg -> Int], rip : Int,
            IF_flag : BOOLEAN]

CodeOf(v) == IF v \in WithCode THEN ErrorCode ELSE 0

(* What the processor pushes when it interrupts context c. *)
Flag(c)  == IF c.IF_flag THEN 1 ELSE 0
Pad(c)   == IF (Base - Len(c.stack)) % 2 = 0 THEN <<>> ELSE <<Junk>>
Below(c) == Pad(c) \o c.stack
Frame(c) == <<c.rip, 8, Flag(c), Base - Len(c.stack), 16>> \o Below(c)

(* The stack when the stub of c has brought vector and error code to their *)
(* places and saved n registers.                                           *)
Saved(c, n) ==
  [k \in 1..n |-> c.regs[Pushed[n + 1 - k]]] \o (<<c.vector>> \o (<<c.code>> \o Frame(c)))

(* Instruction m of isr_common in the stub of vector v, and the number of  *)
(* instructions in front of it.                                            *)
EntryLen(v)  == IF v \in NoDummy THEN 1 ELSE 2
Common(v, m) == 100 * v + EntryLen(v) + m

Entering(c, s) ==
  /\ s.regs = c.regs
  /\ \/ /\ s.rip = 100 * c.vector + 1
        /\ s.stack = IF c.vector \in WithCode THEN <<c.code>> \o Frame(c) ELSE Frame(c)
     \/ /\ c.vector \notin NoDummy
        /\ s.rip = 100 * c.vector + 2
        /\ s.stack = <<0>> \o Frame(c)

Saving(c, s) ==
  \E n \in 0..15 :
    s.rip = Common(c.vector, n + 1) /\ s.regs = c.regs /\ s.stack = Saved(c, n)

Calling(c, s) ==
  /\ s.stack = Saved(c, 15)
  /\ s.regs["rdi"] = c.vector
  /\ \/ s.rip = Common(c.vector, 17)
     \/ s.rip = Common(c.vector, 18) /\ s.regs["rsi"] = c.code

InC(c, s) ==
  \/ s.rip = isr_handler /\ s.stack = <<Common(c.vector, 19)>> \o Saved(c, 15)
  \/ s.rip = InHandler /\ s.stack = <<Junk>> \o (<<Common(c.vector, 19)>> \o Saved(c, 15))

Restoring(c, s) ==
  \E n \in 0..15 :
    /\ s.rip = Common(c.vector, 19 + n) /\ s.stack = Saved(c, 15 - n)
    /\ \A k \in (16 - n)..15 : s.regs[Pushed[k]] = c.regs[Pushed[k]]

Leaving(c, s) ==
  s.rip = Common(c.vector, 35) /\ s.regs = c.regs /\ s.stack = Frame(c)

(* Context s runs the code that was entered by interrupting context c.     *)
Serves(c, s) ==
  Entering(c, s) \/ Saving(c, s) \/ Calling(c, s) \/ InC(c, s) \/ Restoring(c, s)
    \/ Leaving(c, s)

Now == [stack |-> stack, regs |-> regs, rip |-> rip]

Machine == stack \in Seq(Int) /\ regs \in [Reg -> Int] /\ rip \in Int /\ IF_flag \in BOOLEAN

Contexts ==
  /\ before \in Seq(Context)
  /\ \A d \in 1..Len(before) : before[d].code = CodeOf(before[d].vector)

(* Every context under way serves the one it interrupted, and the          *)
(* outermost one is the main program.                                      *)
Nesting ==
  /\ before = <<>> => rip = MainProgram
  /\ before # <<>> => /\ Serves(before[1], Now)
                      /\ before[Len(before)].rip = MainProgram
  /\ \A d \in 1..(Len(before) - 1) : Serves(before[d + 1], before[d])

StubsInv == Machine /\ Contexts /\ Nesting

------------------------------------------------------------------------------
(* The instructions of a stub. *)

(* Sequence u is s, of length m, followed by t, of length n.               *)
Joins(S, m, n, s, t, u) ==
  /\ u \in [1..(m + n) -> S]
  /\ \A k \in 1..m : u[k] = s[k]
  /\ \A k \in 1..n : u[m + k] = t[k]

LEMMA Joined ==
  ASSUME NEW S, NEW m \in Nat, NEW n \in Nat, NEW s \in [1..m -> S], NEW t \in [1..n -> S]
  PROVE  Joins(S, m, n, s, t, s \o t)
<1>1. s \in Seq(S) /\ t \in Seq(S) /\ Len(s) = m /\ Len(t) = n
  OBVIOUS
<1>2. /\ s \o t \in Seq(S) /\ Len(s \o t) = m + n
      /\ \A k \in 1..m : (s \o t)[k] = s[k]
      /\ \A k \in 1..n : (s \o t)[m + k] = t[k]
  BY <1>1
<1>3. s \o t \in [1..(m + n) -> S]
  BY <1>2, LenProperties
<1>4. QED
  BY <1>2, <1>3 DEF Joins

LEMMA RegisterCount == Len(Pushed) = 15 /\ Len(Popped) = 15
BY DEF Pushed, Popped

(* The registers come back in the opposite order.                          *)
LEMMA PoppedIsReverse == \A k \in 1..15 : Popped[k] = Pushed[16 - k]
<1>1. TAKE k \in 1..15
<1>2. k \in {1, 2, 3, 4, 5, 6, 7, 8, 9, 10, 11, 12, 13, 14, 15}
  OBVIOUS
<1>3. QED
  BY <1>2 DEF Pushed, Popped

(* No register is saved twice.                                             *)
LEMMA PushedOnce == \A k, l \in 1..15 : Pushed[k] = Pushed[l] => k = l
<1>1. TAKE k, l \in 1..15
<1>2. k \in {1, 2, 3, 4, 5, 6, 7, 8, 9, 10, 11, 12, 13, 14, 15}
  OBVIOUS
<1>3. l \in {1, 2, 3, 4, 5, 6, 7, 8, 9, 10, 11, 12, 13, 14, 15}
  OBVIOUS
<1>4. QED
  BY <1>2, <1>3 DEF Pushed

LEMMA Common35 ==
  /\ \E Any : isr_common \in [1..35 -> Any]
  /\ \A k \in 1..15 : isr_common[k] = <<"pushq", Pushed[k]>>
  /\ isr_common[16] = <<"movq", 15, "rdi">>
  /\ isr_common[17] = <<"movq", 16, "rsi">>
  /\ isr_common[18] = <<"call", isr_handler>>
  /\ \A k \in 1..15 : isr_common[18 + k] = <<"popq", Popped[k]>>
  /\ isr_common[34] = <<"addq", 2>>
  /\ isr_common[35] = <<"iretq", 0>>
<1> DEFINE push15 == [k \in 1..15 |-> <<"pushq", Pushed[k]>>]
           middle == << <<"movq", 15, "rdi">>, <<"movq", 16, "rsi">>, <<"call", isr_handler>> >>
           pop15  == [k \in 1..15 |-> <<"popq", Popped[k]>>]
           last   == << <<"addq", 2>>, <<"iretq", 0>> >>
           Any    == {push15[k] : k \in 1..15} \cup {pop15[k] : k \in 1..15}
                     \cup {middle[k] : k \in 1..3} \cup {last[k] : k \in 1..2}
<1>1. isr_common = push15 \o middle \o pop15 \o last
  BY RegisterCount DEF isr_common
<1>2. /\ push15 \in [1..15 -> Any] /\ middle \in [1..3 -> Any] /\ pop15 \in [1..15 -> Any]
      /\ last \in [1..2 -> Any]
  OBVIOUS
<1>3. /\ middle[1] = <<"movq", 15, "rdi">> /\ middle[2] = <<"movq", 16, "rsi">>
      /\ middle[3] = <<"call", isr_handler>>
      /\ last[1] = <<"addq", 2>> /\ last[2] = <<"iretq", 0>>
      /\ \A k \in 1..15 : push15[k] = <<"pushq", Pushed[k]>> /\ pop15[k] = <<"popq", Popped[k]>>
  OBVIOUS
<1> HIDE DEF push15, middle, pop15, last, Any
<1>4. Joins(Any, 15, 3, push15, middle, push15 \o middle)
  BY <1>2, Joined
<1>5. push15 \o middle \in [1..18 -> Any]
  BY <1>4 DEF Joins
<1>6. Joins(Any, 18, 15, push15 \o middle, pop15, push15 \o middle \o pop15)
  BY <1>2, <1>5, Joined
<1>7. push15 \o middle \o pop15 \in [1..33 -> Any]
  <2>1. push15 \o middle \o pop15 \in [1..(18 + 15) -> Any]
    BY <1>6, Zenon DEF Joins
  <2>2. 18 + 15 = 33
    OBVIOUS
  <2>3. QED
    BY <2>1, <2>2, Zenon
<1>8. Joins(Any, 33, 2, push15 \o middle \o pop15, last, isr_common)
  BY <1>1, <1>2, <1>7, Joined
<1>9. isr_common \in [1..35 -> Any]
  BY <1>8 DEF Joins
<1>10. /\ \A k \in 1..15 : isr_common[k] = push15[k]
       /\ \A k \in 1..3 : isr_common[15 + k] = middle[k]
       /\ \A k \in 1..15 : isr_common[18 + k] = pop15[k]
       /\ \A k \in 1..2 : isr_common[33 + k] = last[k]
  <2> DEFINE two == push15 \o middle
             three == push15 \o middle \o pop15
  <2>1. /\ \A k \in 1..33 : isr_common[k] = three[k]
        /\ \A k \in 1..2 : isr_common[33 + k] = last[k]
    BY <1>8 DEF Joins
  <2>2. /\ \A k \in 1..18 : three[k] = two[k]
        /\ \A k \in 1..15 : three[18 + k] = pop15[k]
    BY <1>6 DEF Joins
  <2>3. /\ \A k \in 1..15 : two[k] = push15[k]
        /\ \A k \in 1..3 : two[15 + k] = middle[k]
    BY <1>4 DEF Joins
  <2> HIDE DEF two, three
  <2>4. QED
    BY <2>1, <2>2, <2>3
<1>11. /\ isr_common[15 + 1] = middle[1] /\ isr_common[15 + 2] = middle[2]
       /\ isr_common[15 + 3] = middle[3]
       /\ isr_common[33 + 1] = last[1] /\ isr_common[33 + 2] = last[2]
  BY <1>10
<1>12. QED
  BY <1>3, <1>9, <1>10, <1>11

LEMMA Pair == ASSUME NEW a, NEW b PROVE <<a>> \o <<b>> = <<a, b>>
<1>1. <<a>> \in [1..1 -> {a, b}] /\ <<b>> \in [1..1 -> {a, b}]
  OBVIOUS
<1>2. Joins({a, b}, 1, 1, <<a>>, <<b>>, <<a>> \o <<b>>)
  BY <1>1, Joined
<1>3. /\ <<a>> \o <<b>> \in [1..(1 + 1) -> {a, b}]
      /\ (<<a>> \o <<b>>)[1] = a /\ (<<a>> \o <<b>>)[1 + 1] = b
  BY <1>2 DEF Joins
<1>4. /\ <<a>> \o <<b>> \in [1..2 -> {a, b}]
      /\ (<<a>> \o <<b>>)[1] = a /\ (<<a>> \o <<b>>)[2] = b
  <2>1. 1 + 1 = 2
    OBVIOUS
  <2>2. QED
    BY <1>3, <2>1, Zenon
<1> DEFINE u == <<a>> \o <<b>>
           w == <<a, b>>
<1>5. w \in [1..2 -> {a, b}] /\ w[1] = a /\ w[2] = b
  OBVIOUS
<1>6. u \in [1..2 -> {a, b}] /\ u[1] = a /\ u[2] = b
  BY <1>4
<1> HIDE DEF u, w
<1>7. \A k \in 1..2 : u[k] = w[k]
  <2>1. \A k \in 1..2 : k = 1 \/ k = 2
    OBVIOUS
  <2>2. QED
    BY <1>5, <1>6, <2>1
<1>8. u = w
  BY <1>5, <1>6, <1>7
<1>9. QED
  BY <1>8 DEF u, w

LEMMA EntryParts ==
  ASSUME NEW v \in Vectors
  PROVE  Entry(v) = IF v \in NoDummy THEN << <<"pushq $", v>> >>
                                     ELSE << <<"pushq $", 0>>, <<"pushq $", v>> >>
<1> DEFINE Any == {<<"pushq $", 0>>, <<"pushq $", v>>}
<1>1. << <<"pushq $", v>> >> \in Seq(Any)
  OBVIOUS
<1>2. <<>> \o << <<"pushq $", v>> >> = << <<"pushq $", v>> >>
  BY <1>1, ConcatEmptySeq, Zenon
<1>3. << <<"pushq $", 0>> >> \o << <<"pushq $", v>> >> = << <<"pushq $", 0>>, <<"pushq $", v>> >>
  BY Pair, Zenon
<1>4. QED
  BY <1>2, <1>3, Zenon DEF Entry

LEMMA StubAt ==
  ASSUME NEW v \in Vectors
  PROVE  /\ \A m \in 1..35 : Stub(v)[EntryLen(v) + m] = isr_common[m]
         /\ v \in NoDummy => Stub(v)[1] = <<"pushq $", v>>
         /\ v \notin NoDummy => Stub(v)[1] = <<"pushq $", 0>> /\ Stub(v)[2] = <<"pushq $", v>>
<1>1. PICK Any : isr_common \in [1..35 -> Any]
  BY Common35
<1> DEFINE All == Any \cup {<<"pushq $", 0>>, <<"pushq $", v>>}
<1>2. isr_common \in [1..35 -> All]
  BY <1>1
<1>3. CASE v \in NoDummy
  <2> DEFINE e == << <<"pushq $", v>> >>
  <2>1. e \in [1..1 -> All] /\ e[1] = <<"pushq $", v>>
    <3>1. <<"pushq $", v>> \in All
      OBVIOUS
    <3>2. \A x \in All : <<x>> \in [1..1 -> All]
      <4> HIDE DEF All
      <4>1. QED
        OBVIOUS
    <3>3. QED
      BY <3>1, <3>2
  <2>2. Stub(v) = e \o isr_common /\ EntryLen(v) = 1
    BY <1>3, EntryParts, Zenon DEF Stub, EntryLen
  <2> HIDE DEF e, All
  <2>3. Joins(All, 1, 35, e, isr_common, Stub(v))
    BY <1>2, <2>1, <2>2, Joined
  <2>4. Stub(v)[1] = e[1] /\ \A m \in 1..35 : Stub(v)[1 + m] = isr_common[m]
    BY <2>3 DEF Joins
  <2>5. QED
    BY <1>3, <2>1, <2>2, <2>4
<1>4. CASE v \notin NoDummy
  <2> DEFINE e == << <<"pushq $", 0>>, <<"pushq $", v>> >>
  <2>1. e \in [1..2 -> All] /\ e[1] = <<"pushq $", 0>> /\ e[2] = <<"pushq $", v>>
    <3>1. <<"pushq $", 0>> \in All /\ <<"pushq $", v>> \in All
      OBVIOUS
    <3>2. \A x, y \in All : <<x, y>> \in [1..2 -> All]
      <4> HIDE DEF All
      <4>1. QED
        OBVIOUS
    <3>3. QED
      BY <3>1, <3>2
  <2>2. Stub(v) = e \o isr_common /\ EntryLen(v) = 2
    BY <1>4, EntryParts, Zenon DEF Stub, EntryLen
  <2> HIDE DEF e, All
  <2>3. Joins(All, 2, 35, e, isr_common, Stub(v))
    BY <1>2, <2>1, <2>2, Joined
  <2>4. Stub(v)[1] = e[1] /\ Stub(v)[2] = e[2]
        /\ \A m \in 1..35 : Stub(v)[2 + m] = isr_common[m]
    BY <2>3 DEF Joins
  <2>5. QED
    BY <1>4, <2>1, <2>2, <2>4
<1>5. QED
  BY <1>3, <1>4

(* The instruction at an address. *)
LEMMA Fetch ==
  ASSUME NEW v \in Vectors, NEW k \in 1..37, rip = 100 * v + k
  PROVE  InStub /\ Instr = Stub(v)[k]
<1>1. rip < isr_handler /\ rip \div 100 = v /\ rip % 100 = k
  BY DEF Vectors, isr_handler
<1>2. QED
  BY <1>1, Zenon DEF InStub, Instr

LEMMA FetchCommon ==
  ASSUME NEW v \in Vectors, NEW m \in 1..35, rip = Common(v, m)
  PROVE  InStub /\ Instr = isr_common[m] /\ rip + 1 = Common(v, m + 1)
<1>1. EntryLen(v) \in 1..2
  BY DEF EntryLen
<1>2. EntryLen(v) + m \in 1..37 /\ rip = 100 * v + (EntryLen(v) + m)
  BY <1>1 DEF Common, Vectors
<1>3. InStub /\ Instr = Stub(v)[EntryLen(v) + m]
  BY <1>2, Fetch
<1>4. Instr = isr_common[m]
  BY <1>3, StubAt
<1>5. rip + 1 = Common(v, m + 1)
  BY <1>1 DEF Common, Vectors
<1>6. QED
  BY <1>3, <1>4, <1>5

------------------------------------------------------------------------------
(* The words of the stack. *)

(* A word pushed is the first one, and popping it gives the stack back.    *)
LEMMA Put ==
  ASSUME NEW x \in Int, NEW s \in Seq(Int)
  PROVE  /\ <<x>> \o s \in Seq(Int) /\ <<x>> \o s # <<>>
         /\ Len(<<x>> \o s) = 1 + Len(s)
         /\ (<<x>> \o s)[1] = x /\ \A k \in 2..(1 + Len(s)) : (<<x>> \o s)[k] = s[k - 1]
         /\ Head(<<x>> \o s) = x /\ Tail(<<x>> \o s) = s
<1> DEFINE u == <<x>> \o s
<1>1. <<x>> \in Seq(Int) /\ Len(<<x>>) = 1 /\ <<x>>[1] = x
  OBVIOUS
<1>2. /\ u \in Seq(Int) /\ Len(u) = 1 + Len(s)
      /\ u[1] = x /\ \A k \in 2..(1 + Len(s)) : u[k] = s[k - 1]
  <2>1. /\ u \in Seq(Int) /\ Len(u) = Len(<<x>>) + Len(s)
        /\ \A k \in 1..(Len(<<x>>) + Len(s)) :
             u[k] = IF k <= Len(<<x>>) THEN <<x>>[k] ELSE s[k - Len(<<x>>)]
    BY <1>1, ConcatProperties
  <2>2. Len(s) \in Nat
    OBVIOUS
  <2>3. QED
    BY <1>1, <2>1, <2>2
<1>3. u # <<>>
  BY <1>2, EmptySeq
<1> HIDE DEF u
<1>4. Head(u) = x
  BY <1>2, <1>3
<1>5. Tail(u) = s
  <2>1. /\ Tail(u) \in Seq(Int) /\ Len(Tail(u)) = Len(s)
        /\ \A k \in 1..Len(Tail(u)) : Tail(u)[k] = u[k + 1]
    BY <1>2, <1>3, HeadTailProperties
  <2>2. \A k \in 1..Len(Tail(u)) : Tail(u)[k] = s[k]
    BY <1>2, <2>1
  <2>3. QED
    BY <2>1, <2>2, SeqEqual
<1>6. QED
  BY <1>2, <1>3, <1>4, <1>5 DEF u

(* The last words of a stack. *)
LEMMA Rest ==
  ASSUME NEW s \in Seq(Int), NEW t \in Seq(Int)
  PROVE  SubSeq(s \o t, Len(s) + 1, Len(s) + Len(t)) = t
<1> DEFINE u == s \o t
           r == SubSeq(u, Len(s) + 1, Len(s) + Len(t))
<1>1. /\ u \in Seq(Int) /\ Len(u) = Len(s) + Len(t) /\ Len(s) \in Nat /\ Len(t) \in Nat
      /\ \A k \in 1..(Len(s) + Len(t)) : u[k] = IF k <= Len(s) THEN s[k] ELSE t[k - Len(s)]
  BY ConcatProperties
<1> HIDE DEF u
<1>2. \A k \in (Len(s) + 1)..(Len(s) + Len(t)) : u[k] \in Int
  BY <1>1
<1>3. /\ r \in Seq(Int)
      /\ Len(r) = IF Len(s) + 1 <= Len(s) + Len(t)
                  THEN (Len(s) + Len(t)) - (Len(s) + 1) + 1 ELSE 0
      /\ \A k \in 1..((Len(s) + Len(t)) - (Len(s) + 1) + 1) : r[k] = u[(Len(s) + 1) + k - 1]
  <2>1. Len(s) + 1 \in Int /\ Len(s) + Len(t) \in Int
    BY <1>1
  <2>2. QED
    BY <1>2, <2>1, SubSeqProperties
<1> HIDE DEF r
<1>4. Len(r) = Len(t) /\ \A k \in 1..Len(r) : r[k] = t[k]
  <2>1. Len(r) = Len(t)
    BY <1>1, <1>3
  <2>2. ASSUME NEW k \in 1..Len(t)
        PROVE  r[k] = t[k]
    <3>1. r[k] = u[(Len(s) + 1) + k - 1] /\ (Len(s) + 1) + k - 1 = Len(s) + k
      BY <1>1, <1>3
    <3>2. Len(s) + k \in 1..(Len(s) + Len(t)) /\ ~(Len(s) + k <= Len(s))
          /\ (Len(s) + k) - Len(s) = k
      BY <1>1
    <3>3. u[Len(s) + k] = t[(Len(s) + k) - Len(s)]
      BY <1>1, <3>2
    <3>4. QED
      BY <3>1, <3>2, <3>3
  <2>3. QED
    BY <2>1, <2>2
<1>5. r = t
  BY <1>3, <1>4, SeqEqual
<1>6. QED
  BY <1>5 DEF r, u

(* Two words taken from a stack. *)
LEMMA TakeTwo ==
  ASSUME NEW x \in Int, NEW y \in Int, NEW s \in Seq(Int)
  PROVE  LET u == <<x>> \o (<<y>> \o s)
         IN  u \in Seq(Int) /\ u[2] = y /\ SubSeq(u, 3, Len(u)) = s
<1> DEFINE w == <<y>> \o s
           u == <<x>> \o w
<1>1. w \in Seq(Int) /\ Len(w) = 1 + Len(s) /\ w[1] = y /\ \A k \in 2..(1 + Len(s)) : w[k] = s[k - 1]
  BY Put
<1>2. u \in Seq(Int) /\ Len(u) = 1 + Len(w) /\ u[1] = x /\ \A k \in 2..(1 + Len(w)) : u[k] = w[k - 1]
  BY <1>1, Put
<1> HIDE DEF u, w
<1>3. Len(s) \in Nat
  OBVIOUS
<1>4. Len(u) = 2 + Len(s) /\ u[2] = y /\ \A k \in 3..(2 + Len(s)) : u[k] = s[k - 2]
  <2>1. Len(u) = 2 + Len(s) /\ Len(w) \in Nat
    BY <1>1, <1>2, <1>3
  <2>2. u[2] = w[1]
    BY <1>1, <1>2, <1>3
  <2>3. ASSUME NEW k \in 3..(2 + Len(s))
        PROVE  u[k] = s[k - 2]
    <3>1. u[k] = w[k - 1]
      BY <1>1, <1>2, <1>3
    <3>2. k - 1 \in 2..(1 + Len(s)) /\ (k - 1) - 1 = k - 2
      BY <1>3
    <3>3. w[k - 1] = s[(k - 1) - 1]
      BY <1>1, <3>2
    <3>4. QED
      BY <3>1, <3>2, <3>3
  <2>4. QED
    BY <1>1, <2>1, <2>2, <2>3
<1> DEFINE r == SubSeq(u, 3, Len(u))
<1>5. /\ r \in Seq(Int)
      /\ Len(r) = IF 3 <= Len(u) THEN Len(u) - 3 + 1 ELSE 0
      /\ \A k \in 1..(Len(u) - 3 + 1) : r[k] = u[3 + k - 1]
  <2>1. \A k \in 3..Len(u) : u[k] \in Int
    BY <1>2
  <2>2. 3 \in Int /\ Len(u) \in Int
    BY <1>2
  <2>3. QED
    BY <2>1, <2>2, SubSeqProperties
<1> HIDE DEF r
<1>6. Len(r) = Len(s) /\ \A k \in 1..Len(r) : r[k] = s[k]
  <2>1. Len(r) = Len(s)
    BY <1>3, <1>4, <1>5
  <2>2. ASSUME NEW k \in 1..Len(s)
        PROVE  r[k] = s[k]
    <3>1. r[k] = u[3 + k - 1] /\ 3 + k - 1 = k + 2
      BY <1>3, <1>4, <1>5
    <3>2. k + 2 \in 3..(2 + Len(s)) /\ (k + 2) - 2 = k
      BY <1>3
    <3>3. u[k + 2] = s[(k + 2) - 2]
      BY <1>4, <3>2
    <3>4. QED
      BY <3>1, <3>2, <3>3
  <2>3. QED
    BY <2>1, <2>2
<1>7. r = s
  BY <1>5, <1>6, SeqEqual
<1>8. QED
  BY <1>2, <1>4, <1>7 DEF r, u, w

(* The concatenation theorems for words. *)
LEMMA Associative ==
  \A x \in Seq(Int), y \in Seq(Int), z \in Seq(Int) : (x \o y) \o z = x \o (y \o z)
BY ConcatAssociative

LEMMA Concatenated ==
  \A x \in Seq(Int), y \in Seq(Int) :
    /\ x \o y \in Seq(Int) /\ Len(x \o y) = Len(x) + Len(y)
    /\ \A k \in 1..(Len(x) + Len(y)) :
         (x \o y)[k] = IF k <= Len(x) THEN x[k] ELSE y[k - Len(x)]
BY ConcatProperties

(* Three parts of a stack. *)
LEMMA Layers ==
  ASSUME NEW a \in Seq(Int), NEW b \in Seq(Int), NEW s \in Seq(Int)
  PROVE  \A F : F = a \o (b \o s) =>
           /\ F \in Seq(Int) /\ Len(F) = Len(a) + (Len(b) + Len(s))
           /\ \A k \in 1..Len(a) : F[k] = a[k]
           /\ SubSeq(F, Len(F) - Len(s) + 1, Len(F)) = s
<1>0. a \in Seq(Int) /\ b \in Seq(Int) /\ s \in Seq(Int)
  OBVIOUS
<1>a. (a \o b) \o s = a \o (b \o s)
  BY <1>0, Associative, Zenon
<1> DEFINE bs == b \o s
           ab == a \o b
           F == a \o bs
<1>1. bs \in Seq(Int) /\ Len(bs) = Len(b) + Len(s)
  BY ConcatProperties
<1>2. ab \in Seq(Int) /\ Len(ab) = Len(a) + Len(b)
  BY ConcatProperties
<1>3. F = ab \o s
  BY <1>a, Zenon
<1>4. Len(a) \in Nat /\ Len(b) \in Nat /\ Len(s) \in Nat
  OBVIOUS
<1> HIDE DEF bs
<1>5. /\ F \in Seq(Int) /\ Len(F) = Len(a) + Len(bs)
      /\ \A k \in 1..(Len(a) + Len(bs)) : F[k] = IF k <= Len(a) THEN a[k] ELSE bs[k - Len(a)]
  BY <1>0, <1>1, Concatenated, Zenon
<1> HIDE DEF F, ab
<1>6. SubSeq(F, Len(ab) + 1, Len(ab) + Len(s)) = s
  BY <1>2, <1>3, Rest
<1>7. Len(F) = Len(a) + (Len(b) + Len(s)) /\ \A k \in 1..Len(a) : F[k] = a[k]
  BY <1>1, <1>4, <1>5
<1>8. Len(ab) + 1 = Len(F) - Len(s) + 1 /\ Len(ab) + Len(s) = Len(F)
  BY <1>2, <1>4, <1>7
<1>9. F = a \o (b \o s)
  BY DEF F, bs
<1>10. SubSeq(F, Len(F) - Len(s) + 1, Len(F)) = s
  BY <1>6, <1>8, Zenon
<1>11. QED
  BY <1>5, <1>7, <1>9, <1>10, Zenon

LEMMA FrameParts ==
  ASSUME NEW c \in Context
  PROVE  /\ Frame(c) \in Seq(Int)
         /\ Frame(c)[1] = c.rip /\ Frame(c)[3] = Flag(c) /\ Frame(c)[4] = Base - Len(c.stack)
         /\ SubSeq(Frame(c), Len(Frame(c)) - (Base - Frame(c)[4]) + 1, Len(Frame(c))) = c.stack
         /\ \E m \in Nat : Len(Frame(c)) = 2 * m + 1
<1> DEFINE five == <<c.rip, 8, Flag(c), Base - Len(c.stack), 16>>
           F == Frame(c)
<1>1. /\ c.stack \in Seq(Int) /\ Len(c.stack) \in Nat /\ Pad(c) \in Seq(Int)
      /\ c.rip \in Int /\ Flag(c) \in Int /\ Base - Len(c.stack) \in Int
  <2>1. c.stack \in Seq(Int) /\ c.rip \in Int
    BY DEF Context
  <2>2. Len(c.stack) \in Nat
    BY <2>1
  <2>3. Pad(c) \in Seq(Int)
    BY DEF Pad, Junk
  <2>4. QED
    BY <2>1, <2>2, <2>3 DEF Flag, Base
<1>2. five \in Seq(Int) /\ Len(five) = 5
  BY <1>1
<1>3. five[1] = c.rip /\ five[3] = Flag(c) /\ five[4] = Base - Len(c.stack)
  OBVIOUS
<1>4. F = five \o (Pad(c) \o c.stack)
  BY Zenon DEF Frame, Below, five
<1> HIDE DEF five, F
<1>5. \E n \in Nat : n = 5 /\ Len(five) = n
  BY <1>2, Zenon
<1>6. PICK n \in Nat : n = 5 /\ Len(five) = n
  BY <1>5, Zenon
<1>7. /\ F \in Seq(Int) /\ Len(F) = n + (Len(Pad(c)) + Len(c.stack))
      /\ \A k \in 1..n : F[k] = five[k]
      /\ SubSeq(F, Len(F) - Len(c.stack) + 1, Len(F)) = c.stack
  <2>1. /\ F \in Seq(Int) /\ Len(F) = Len(five) + (Len(Pad(c)) + Len(c.stack))
        /\ \A k \in 1..Len(five) : F[k] = five[k]
        /\ SubSeq(F, Len(F) - Len(c.stack) + 1, Len(F)) = c.stack
    <3>1. five \in Seq(Int) /\ Pad(c) \in Seq(Int) /\ c.stack \in Seq(Int)
      BY <1>1, <1>2
    <3>2. QED
      BY <1>4, <3>1, Layers
  <2>2. QED
    BY <1>6, <2>1, Zenon
<1>8. n = 5
  BY <1>6
<1>9. F[1] = five[1] /\ F[3] = five[3] /\ F[4] = five[4]
  BY <1>7, <1>8
<1>10. Base - F[4] = Len(c.stack)
  BY <1>1, <1>3, <1>9 DEF Base
<1>11. \E m \in Nat : Len(Pad(c)) + Len(c.stack) = 2 * m
  <2>1. \E q \in {0, 1} : Len(Pad(c)) = q /\ ((Base - Len(c.stack)) % 2 = 0 <=> q = 0)
    <3>1. CASE (Base - Len(c.stack)) % 2 = 0
      BY <3>1 DEF Pad
    <3>2. CASE (Base - Len(c.stack)) % 2 # 0
      BY <3>2 DEF Pad
    <3>3. QED
      BY <3>1, <3>2
  <2>2. PICK q \in {0, 1} : Len(Pad(c)) = q /\ ((Base - Len(c.stack)) % 2 = 0 <=> q = 0)
    BY <2>1, Zenon
  <2> DEFINE L == Len(c.stack)
             m == (q + L) \div 2
  <2>3. L \in Nat
    BY <1>1
  <2>4. (1000 - L) % 2 = 0 <=> q = 0
    BY <2>2 DEF Base
  <2> HIDE DEF L
  <2>5. m \in Nat /\ q + L = 2 * m
    BY <2>3, <2>4
  <2>6. QED
    BY <2>2, <2>5, Zenon DEF L
<1>12. PICK m \in Nat : Len(Pad(c)) + Len(c.stack) = 2 * m
  BY <1>11
<1>13. Len(F) = 2 * (m + 2) + 1
  <2>1. Len(F) = 5 + 2 * m
    BY <1>7, <1>8, <1>12, Zenon
  <2>2. 5 + 2 * m = 2 * (m + 2) + 1
    OBVIOUS
  <2>3. QED
    BY <2>1, <2>2, Zenon
<1>14. \E k \in Nat : Len(F) = 2 * k + 1
  <2>1. m + 2 \in Nat
    OBVIOUS
  <2>2. QED
    BY <1>13, <2>1, Zenon
<1>15. QED
  BY <1>3, <1>7, <1>9, <1>10, <1>14, Zenon DEF F

(* Saving and taking back registers. *)
LEMMA SavedParts ==
  ASSUME NEW c \in Context
  PROVE  /\ Saved(c, 0) = <<c.vector>> \o (<<c.code>> \o Frame(c))
         /\ \A n \in 0..15 : Saved(c, n) \in Seq(Int)
         /\ \A n \in 0..14 : Saved(c, n + 1) = <<c.regs[Pushed[n + 1]]>> \o Saved(c, n)
         /\ Saved(c, 15)[16] = c.vector /\ Saved(c, 15)[17] = c.code
         /\ Len(Saved(c, 15)) = 17 + Len(Frame(c))
<1> DEFINE R(n) == [k \in 1..n |-> c.regs[Pushed[n + 1 - k]]]
           T == <<c.vector>> \o (<<c.code>> \o Frame(c))
<1>1. /\ c.vector \in Int /\ c.code \in Int /\ c.regs \in [Reg -> Int]
      /\ \A k \in 1..15 : Pushed[k] \in Reg
  <2>1. \A k \in 1..15 : Pushed[k] \in Reg
    BY RegisterCount, Zenon DEF Reg
  <2>2. c.vector \in 0..33 /\ c.code \in Int /\ c.regs \in [Reg -> Int]
    BY DEF Context, Vectors
  <2>3. c.vector \in Int
    BY <2>2
  <2>4. QED
    BY <2>1, <2>2, <2>3, Zenon
<1>2. T \in Seq(Int)
  BY <1>1, FrameParts, Put
<1>3. \A n \in 0..15 : R(n) \in Seq(Int) /\ Len(R(n)) = n
                       /\ \A k \in 1..n : R(n)[k] = c.regs[Pushed[n + 1 - k]]
  <2>1. TAKE n \in 0..15
  <2>2. \A k \in 1..n : c.regs[Pushed[n + 1 - k]] \in Int
    <3>1. TAKE k \in 1..n
    <3>2. n + 1 - k \in 1..15
      OBVIOUS
    <3>3. QED
      BY <1>1, <3>2
  <2>3. QED
    BY <2>2
<1>4. \A n \in 0..15 : Saved(c, n) = R(n) \o T
  BY DEF Saved
<1>5. R(0) = <<>>
  OBVIOUS
<1>6. \A n \in 0..14 : R(n + 1) = <<c.regs[Pushed[n + 1]]>> \o R(n)
  <2>1. TAKE n \in 0..14
  <2> DEFINE x == c.regs[Pushed[n + 1]]
             u == <<x>> \o R(n)
  <2>2. x \in Int
    BY <1>1
  <2>3. R(n) \in Seq(Int) /\ Len(R(n)) = n /\ \A k \in 1..n : R(n)[k] = c.regs[Pushed[n + 1 - k]]
    BY <1>3
  <2>4. R(n + 1) \in Seq(Int) /\ Len(R(n + 1)) = n + 1
        /\ \A k \in 1..(n + 1) : R(n + 1)[k] = c.regs[Pushed[n + 1 + 1 - k]]
    BY <1>3
  <2> HIDE DEF R, x
  <2>5. u \in Seq(Int) /\ Len(u) = 1 + n /\ u[1] = x
        /\ \A k \in 2..(1 + n) : u[k] = R(n)[k - 1]
    BY <2>2, <2>3, Put
  <2> HIDE DEF u
  <2>6. ASSUME NEW k \in 1..(n + 1)
        PROVE  R(n + 1)[k] = u[k]
    <3>1. CASE k = 1
      <4>1. n + 1 + 1 - k = n + 1
        BY <3>1
      <4>2. QED
        BY <2>4, <2>5, <3>1, <4>1 DEF x
    <3>2. CASE k # 1
      <4>1. k \in 2..(1 + n) /\ k - 1 \in 1..n /\ n + 1 - (k - 1) = n + 1 + 1 - k
        BY <3>2
      <4>2. u[k] = c.regs[Pushed[n + 1 - (k - 1)]]
        BY <2>3, <2>5, <4>1
      <4>3. QED
        BY <2>4, <4>1, <4>2
    <3>3. QED
      BY <3>1, <3>2
  <2>7. Len(u) = Len(R(n + 1))
    BY <2>4, <2>5
  <2>8. R(n + 1) = u
    BY <2>4, <2>5, <2>6, <2>7, SeqEqual
  <2>9. QED
    BY <2>8 DEF u, x
<1>7. ASSUME NEW n \in 0..14
      PROVE  Saved(c, n + 1) = <<c.regs[Pushed[n + 1]]>> \o Saved(c, n)
  <2> DEFINE x == c.regs[Pushed[n + 1]]
  <2>1. <<x>> \in Seq(Int) /\ R(n) \in Seq(Int)
    BY <1>1, <1>3
  <2>2. Saved(c, n + 1) = R(n + 1) \o T /\ Saved(c, n) = R(n) \o T /\ R(n + 1) = <<x>> \o R(n)
    <3>1. R(n + 1) = <<x>> \o R(n)
      BY <1>6
    <3> HIDE DEF R, T, x
    <3>2. n + 1 \in 0..15 /\ n \in 0..15
      OBVIOUS
    <3>3. QED
      BY <1>4, <3>1, <3>2, Zenon
  <2> HIDE DEF x, R, T
  <2>3. (<<x>> \o R(n)) \o T = <<x>> \o (R(n) \o T)
    BY <1>2, <2>1, ConcatAssociative
  <2>4. QED
    BY <2>2, <2>3 DEF x
<1>8. \A n \in 0..15 : Saved(c, n) \in Seq(Int)
  <2> HIDE DEF R, T
  <2>1. QED
    BY <1>2, <1>3, <1>4, ConcatProperties
<1>9. Saved(c, 0) = T
  <2> HIDE DEF R, T
  <2>1. 0 \in 0..15
    OBVIOUS
  <2>2. Saved(c, 0) = R(0) \o T
    BY <1>4, <2>1, Zenon
  <2>3. QED
    BY <1>2, <1>5, <2>2, ConcatEmptySeq, Zenon
<1>10. /\ Saved(c, 15)[16] = c.vector /\ Saved(c, 15)[17] = c.code
       /\ Len(Saved(c, 15)) = 17 + Len(Frame(c))
  <2> DEFINE r == R(15)
             S == Saved(c, 15)
             w == <<c.code>> \o Frame(c)
  <2>1. \E n \in Nat : n = 15 /\ r \in Seq(Int) /\ Len(r) = n
    BY <1>3
  <2>2. S = r \o T
    <3>1. 15 \in 0..15
      OBVIOUS
    <3> HIDE DEF w, T, R
    <3>2. QED
      BY <1>4, <3>1, Zenon DEF r, S
  <2>3. w \in Seq(Int) /\ w[1] = c.code /\ Len(w) = 1 + Len(Frame(c))
    BY <1>1, FrameParts, Put
  <2>4. Len(Frame(c)) \in Nat
    BY FrameParts
  <2>5. T = <<c.vector>> \o w
    OBVIOUS
  <2> HIDE DEF w, r, S, T, R
  <2>6. /\ Len(T) = 1 + Len(w) /\ T[1] = c.vector
        /\ \A k \in 2..(1 + Len(w)) : T[k] = w[k - 1]
    BY <1>1, <2>3, <2>5, Put
  <2>7. Len(T) = 2 + Len(Frame(c)) /\ T[2] = c.code
    BY <2>3, <2>4, <2>6
  <2>8. PICK n \in Nat : n = 15 /\ r \in Seq(Int) /\ Len(r) = n
    BY <2>1
  <2>9. \A k \in 1..(n + Len(T)) : S[k] = IF k <= n THEN r[k] ELSE T[k - n]
    <3>1. \A k \in 1..(Len(r) + Len(T)) : S[k] = IF k <= Len(r) THEN r[k] ELSE T[k - Len(r)]
      BY <1>2, <2>2, <2>8, Concatenated, Zenon
    <3>2. QED
      BY <2>8, <3>1, Zenon
  <2>10. S[n + 1] = T[1] /\ S[n + 2] = T[2]
    <3>1. /\ n + 1 \in 1..(n + Len(T)) /\ ~(n + 1 <= n) /\ (n + 1) - n = 1
          /\ n + 2 \in 1..(n + Len(T)) /\ ~(n + 2 <= n) /\ (n + 2) - n = 2
      BY <2>4, <2>7
    <3>2. S[n + 1] = T[(n + 1) - n] /\ S[n + 2] = T[(n + 2) - n]
      BY <2>9, <3>1
    <3>3. QED
      BY <3>1, <3>2
  <2>11. n + 1 = 16 /\ n + 2 = 17
    BY <2>8
  <2>12. S[16] = c.vector /\ S[17] = c.code
    BY <2>6, <2>7, <2>10, <2>11, Zenon
  <2>13. Len(S) = 17 + Len(Frame(c))
    <3>1. Len(S) = n + (2 + Len(Frame(c)))
      BY <1>2, <2>2, <2>7, <2>8, Concatenated, Zenon
    <3>2. n + (2 + Len(Frame(c))) = 17 + Len(Frame(c))
      BY <2>4, <2>8
    <3>3. QED
      BY <3>1, <3>2, Zenon
  <2>14. QED
    BY <2>12, <2>13, Zenon DEF S
<1>11. QED
  BY <1>7, <1>8, <1>9, <1>10

------------------------------------------------------------------------------
(* The steps of a stub and of the handler it calls. *)

ServiceStep == isr \/ isr_handler_runs \/ isr_handler_ret

(* In a stub, the instruction there decides the step. *)
LEMMA OnlyInstr ==
  ASSUME ServiceStep, InStub
  PROVE  \/ Instr[1] = "pushq $" /\ push_const
         \/ Instr[1] = "pushq" /\ push
         \/ Instr[1] = "movq" /\ movq
         \/ Instr[1] = "call" /\ call
         \/ Instr[1] = "popq" /\ pop
         \/ Instr[1] = "addq" /\ addq
         \/ Instr[1] = "iretq" /\ iretq
<1>1. rip # isr_handler /\ rip # InHandler
  BY DEF InStub, isr_handler, InHandler
<1>2. isr
  BY <1>1 DEF ServiceStep, isr_handler_runs, isr_handler_ret
<1>3. push_const => Instr[1] = "pushq $"
  BY DEF push_const, Step, At
<1>4. push => Instr[1] = "pushq"
  BY DEF push, Step, At
<1>5. movq => Instr[1] = "movq"
  BY DEF movq, Step, At
<1>6. call => Instr[1] = "call"
  BY DEF call, At
<1>7. pop => Instr[1] = "popq"
  BY DEF pop, Step, At
<1>8. addq => Instr[1] = "addq"
  BY DEF addq, Step, At
<1>9. iretq => Instr[1] = "iretq"
  BY DEF iretq, At
<1>10. QED
  BY <1>2, <1>3, <1>4, <1>5, <1>6, <1>7, <1>8, <1>9 DEF isr

LEMMA ContextParts ==
  ASSUME NEW c \in Context
  PROVE  /\ c.vector \in Vectors /\ c.vector \in Int /\ c.code \in Int
         /\ c.regs \in [Reg -> Int] /\ c.rip \in Int /\ c.stack \in Seq(Int)
         /\ c.IF_flag \in BOOLEAN
<1>1. /\ c.vector \in Vectors /\ c.code \in Int
      /\ c.regs \in [Reg -> Int] /\ c.rip \in Int /\ c.stack \in Seq(Int)
      /\ c.IF_flag \in BOOLEAN
  BY DEF Context
<1>2. \A v \in Vectors : v \in Int
  BY DEF Vectors
<1>3. QED
  BY <1>1, <1>2, Zenon

(* The instructions in front of isr_common. *)
LEMMA FetchEntry ==
  ASSUME NEW v \in Vectors
  PROVE  /\ rip = 100 * v + 1 => InStub
         /\ rip = 100 * v + 1 /\ v \in NoDummy => Instr[1] = "pushq $" /\ Instr[2] = v
         /\ rip = 100 * v + 1 /\ v \notin NoDummy => Instr[1] = "pushq $" /\ Instr[2] = 0
         /\ rip = 100 * v + 2 => InStub
         /\ rip = 100 * v + 2 /\ v \notin NoDummy => Instr[1] = "pushq $" /\ Instr[2] = v
<1>1. 1 \in 1..37 /\ 2 \in 1..37
  OBVIOUS
<1>2. rip = 100 * v + 1 => InStub /\ Instr = Stub(v)[1]
  BY <1>1, Fetch, Zenon
<1>3. rip = 100 * v + 2 => InStub /\ Instr = Stub(v)[2]
  BY <1>1, Fetch, Zenon
<1>4. <<"pushq $", v>>[1] = "pushq $" /\ <<"pushq $", v>>[2] = v
      /\ <<"pushq $", 0>>[1] = "pushq $" /\ <<"pushq $", 0>>[2] = 0
  OBVIOUS
<1>5. QED
  BY <1>2, <1>3, <1>4, StubAt, Zenon

(* What a step in the service of context c does, but for the last one. *)
Serving(c) == /\ ~iretq
              /\ UNCHANGED <<IF_flag, before>>
              /\ Machine'
              /\ Serves(c, Now')

LEMMA NowIs ==
  /\ Now.stack = stack /\ Now.regs = regs /\ Now.rip = rip
  /\ (Now').stack = stack' /\ (Now').regs = regs' /\ (Now').rip = rip'
BY DEF Now

LEMMA EnteringStep ==
  ASSUME Machine, NEW c \in Context, c.code = CodeOf(c.vector), ServiceStep, Entering(c, Now)
  PROVE  Serving(c)
<1> DEFINE v == c.vector
<1>1. v \in Vectors /\ v \in Int /\ c.code \in Int /\ Frame(c) \in Seq(Int)
  BY ContextParts, FrameParts, Zenon DEF v
<1>2. v \in WithCode <=> v \in NoDummy
  BY DEF WithCode, NoDummy
<1>3. regs = c.regs
  BY NowIs DEF Entering
<1> HIDE DEF v
<1>4. ASSUME rip = 100 * v + 1 \/ rip = 100 * v + 2,
             NEW w \in Int, Instr[1] = "pushq $", Instr[2] = w, InStub
      PROVE  /\ ~iretq /\ UNCHANGED <<IF_flag, before>> /\ regs' = regs
             /\ rip' = rip + 1 /\ stack' = <<w>> \o stack
             /\ Machine'
  <2>1. push_const
    BY <1>4, OnlyInstr
  <2>2. ~iretq
    BY <1>4 DEF iretq, At
  <2>3. /\ UNCHANGED <<IF_flag, before>> /\ regs' = regs
        /\ rip' = rip + 1 /\ stack' = <<w>> \o stack
    BY <1>4, <2>1 DEF push_const, Step
  <2>4. Machine'
    <3>1. stack' \in Seq(Int)
      BY <2>3, Put DEF Machine
    <3>2. QED
      BY <2>3, <3>1 DEF Machine
  <2>5. QED
    BY <2>2, <2>3, <2>4
<1>5. ASSUME rip' = 100 * v + EntryLen(v) + 1, stack' = <<v>> \o (<<c.code>> \o Frame(c)),
             regs' = regs
      PROVE  Serves(c, Now')
  <2>1. stack' = Saved(c, 0)
    BY <1>5, SavedParts, Zenon DEF v
  <2>2. rip' = Common(c.vector, 0 + 1)
    <3>1. 0 + 1 = 1
      OBVIOUS
    <3>2. QED
      BY <1>5, <3>1, Zenon DEF v, Common
  <2>3. 0 \in 0..15
    OBVIOUS
  <2>4. QED
    BY <1>3, <1>5, <2>1, <2>2, <2>3, NowIs, Zenon DEF Serves, Saving
<1>6. CASE rip = 100 * v + 1 /\ v \in NoDummy
  <2>1. stack = <<c.code>> \o Frame(c)
    BY <1>2, <1>6, NowIs DEF Entering, v
  <2>2. InStub /\ Instr[1] = "pushq $" /\ Instr[2] = v
    BY <1>1, <1>6, FetchEntry, Zenon
  <2>3. v \in Int
    BY <1>1
  <2>4. /\ ~iretq /\ UNCHANGED <<IF_flag, before>> /\ regs' = regs
        /\ rip' = rip + 1 /\ stack' = <<v>> \o stack
        /\ Machine'
    BY <1>4, <1>6, <2>2, <2>3, Zenon
  <2>5. rip' = 100 * v + EntryLen(v) + 1
    BY <1>1, <1>6, <2>4 DEF EntryLen
  <2>6. QED
    BY <1>5, <2>1, <2>4, <2>5 DEF Serving
<1>7. CASE rip = 100 * v + 1 /\ v \notin NoDummy
  <2>1. stack = Frame(c)
    BY <1>1, <1>2, <1>7, NowIs DEF Entering, v
  <2>2. InStub /\ Instr[1] = "pushq $" /\ Instr[2] = 0
    BY <1>1, <1>7, FetchEntry, Zenon
  <2>3. 0 \in Int
    BY <1>1
  <2>4. /\ ~iretq /\ UNCHANGED <<IF_flag, before>> /\ regs' = regs
        /\ rip' = rip + 1 /\ stack' = <<0>> \o stack
        /\ Machine'
    BY <1>4, <1>7, <2>2, <2>3, Zenon
  <2>5. rip' = 100 * v + 2
    BY <1>1, <1>7, <2>4
  <2>6. Entering(c, Now')
    BY <1>3, <1>7, <2>1, <2>4, <2>5, NowIs DEF Entering, v
  <2>7. QED
    BY <2>4, <2>6 DEF Serving, Serves
<1>8. CASE rip = 100 * v + 2 /\ v \notin NoDummy
  <2>1. stack = <<0>> \o Frame(c)
    BY <1>1, <1>8, NowIs DEF Entering, v
  <2>2. InStub /\ Instr[1] = "pushq $" /\ Instr[2] = v
    BY <1>1, <1>8, FetchEntry, Zenon
  <2>3. v \in Int
    BY <1>1
  <2>4. /\ ~iretq /\ UNCHANGED <<IF_flag, before>> /\ regs' = regs
        /\ rip' = rip + 1 /\ stack' = <<v>> \o stack
        /\ Machine'
    BY <1>4, <1>8, <2>2, <2>3, Zenon
  <2>5. rip' = 100 * v + EntryLen(v) + 1
    BY <1>1, <1>8, <2>4 DEF EntryLen
  <2>6. c.code = 0
    BY <1>2, <1>8 DEF CodeOf, v
  <2>7. QED
    BY <1>5, <2>1, <2>4, <2>5, <2>6 DEF Serving
<1>9. QED
  BY <1>6, <1>7, <1>8, NowIs DEF Entering, v

LEMMA SavingStep ==
  ASSUME Machine, NEW c \in Context, ServiceStep, Saving(c, Now)
  PROVE  Serving(c)
<1>1. PICK n \in 0..15 :
        rip = Common(c.vector, n + 1) /\ regs = c.regs /\ stack = Saved(c, n)
  BY NowIs, Zenon DEF Saving
<1>2. n + 1 \in 1..35 /\ c.vector \in Vectors /\ c.regs \in [Reg -> Int]
  <2>1. n + 1 \in 1..35
    OBVIOUS
  <2>2. QED
    BY <2>1, ContextParts, Zenon
<1>3. InStub /\ Instr = isr_common[n + 1] /\ rip + 1 = Common(c.vector, (n + 1) + 1)
  BY <1>1, <1>2, FetchCommon, Zenon
<1>4. CASE n \in 0..14
  <2> DEFINE x == Pushed[n + 1]
  <2>1. n + 1 \in 1..15 /\ n + 1 \in 0..15
    BY <1>4
  <2>2. Instr = <<"pushq", x>>
    BY <1>3, <2>1, Common35, Zenon
  <2>3. Instr[1] = "pushq" /\ Instr[2] = x
    BY <2>2
  <2>4. push
    BY <1>3, <2>3, OnlyInstr
  <2>5. ~iretq
    BY <2>3 DEF iretq, At
  <2>6. /\ UNCHANGED <<IF_flag, before>> /\ regs' = regs
        /\ rip' = rip + 1 /\ stack' = <<regs[x]>> \o stack
    BY <2>3, <2>4 DEF push, Step
  <2>7. stack' = Saved(c, n + 1)
    BY <1>1, <1>4, <2>6, SavedParts, Zenon
  <2>8. stack' \in Seq(Int)
    BY <2>1, <2>7, SavedParts, Zenon
  <2>9. Machine'
    BY <2>6, <2>8 DEF Machine
  <2>10. Saving(c, Now')
    BY <1>1, <1>3, <2>1, <2>6, <2>7, NowIs, Zenon DEF Saving
  <2>11. QED
    BY <2>5, <2>6, <2>9, <2>10, Zenon DEF Serving, Serves
<1>5. CASE n \notin 0..14
  <2>1. n = 15 /\ n + 1 = 16 /\ (n + 1) + 1 = 17
    BY <1>5
  <2>2. Instr = <<"movq", 15, "rdi">>
    BY <1>3, <2>1, Common35, Zenon
  <2>3. Instr[1] = "movq" /\ Instr[2] = 15 /\ Instr[3] = "rdi"
    BY <2>2
  <2>4. movq
    BY <1>3, <2>3, OnlyInstr
  <2>5. ~iretq
    BY <2>3 DEF iretq, At
  <2>6. /\ UNCHANGED <<IF_flag, before>> /\ stack' = stack
        /\ rip' = rip + 1 /\ regs' = [regs EXCEPT !["rdi"] = stack[15 + 1]]
    BY <2>3, <2>4 DEF movq, Step
  <2>7. stack[15 + 1] = c.vector
    <3>1. 15 + 1 = 16
      OBVIOUS
    <3>2. QED
      BY <1>1, <2>1, <3>1, SavedParts, Zenon
  <2>8. "rdi" \in Reg
    <3>1. "rdi" = Pushed[7] /\ 7 \in 1..15
      BY DEF Pushed
    <3>2. QED
      BY <3>1, RegisterCount, Zenon DEF Reg
  <2>9. regs'["rdi"] = c.vector /\ regs' \in [Reg -> Int]
    BY <1>1, <1>2, <2>6, <2>7, <2>8, ContextParts
  <2>10. Machine'
    BY <2>6, <2>9 DEF Machine
  <2>11. Calling(c, Now')
    BY <1>1, <1>3, <2>1, <2>6, <2>9, NowIs, Zenon DEF Calling
  <2>12. QED
    BY <2>5, <2>6, <2>10, <2>11, Zenon DEF Serving, Serves
<1>6. QED
  BY <1>4, <1>5

LEMMA CallingStep ==
  ASSUME Machine, NEW c \in Context, ServiceStep, Calling(c, Now)
  PROVE  Serving(c)
<1>1. stack = Saved(c, 15) /\ regs["rdi"] = c.vector
  BY NowIs, Zenon DEF Calling
<1>2. c.vector \in Vectors /\ 17 \in 1..35 /\ 18 \in 1..35 /\ 17 + 1 = 18 /\ 18 + 1 = 19
  <2>1. 17 \in 1..35 /\ 18 \in 1..35 /\ 17 + 1 = 18 /\ 18 + 1 = 19
    OBVIOUS
  <2>2. QED
    BY <2>1, ContextParts, Zenon
<1>3. "rdi" \in Reg /\ "rsi" \in Reg
  <2>1. "rdi" = Pushed[7] /\ 7 \in 1..15 /\ "rsi" = Pushed[6] /\ 6 \in 1..15
    BY DEF Pushed
  <2>2. QED
    BY <2>1, RegisterCount, Zenon DEF Reg
<1>4. CASE rip = Common(c.vector, 17)
  <2>1. InStub /\ Instr = isr_common[17] /\ rip + 1 = Common(c.vector, 18)
    BY <1>2, <1>4, FetchCommon, Zenon
  <2>2. Instr = <<"movq", 16, "rsi">>
    BY <2>1, Common35, Zenon
  <2>3. Instr[1] = "movq" /\ Instr[2] = 16 /\ Instr[3] = "rsi"
    BY <2>2
  <2>4. movq
    BY <2>1, <2>3, OnlyInstr
  <2>5. ~iretq
    BY <2>3 DEF iretq, At
  <2>6. /\ UNCHANGED <<IF_flag, before>> /\ stack' = stack
        /\ rip' = rip + 1 /\ regs' = [regs EXCEPT !["rsi"] = stack[16 + 1]]
    BY <2>3, <2>4 DEF movq, Step
  <2>7. stack[16 + 1] = c.code
    <3>1. 16 + 1 = 17
      OBVIOUS
    <3>2. QED
      BY <1>1, <3>1, SavedParts, Zenon
  <2>8. regs \in [Reg -> Int] /\ c.code \in Int
    BY ContextParts DEF Machine
  <2>9. regs'["rdi"] = c.vector /\ regs'["rsi"] = c.code /\ regs' \in [Reg -> Int]
    BY <1>1, <1>3, <2>6, <2>7, <2>8
  <2>10. Machine'
    BY <2>6, <2>9 DEF Machine
  <2>11. Calling(c, Now')
    BY <1>1, <2>1, <2>6, <2>9, NowIs, Zenon DEF Calling
  <2>12. QED
    BY <2>5, <2>6, <2>10, <2>11, Zenon DEF Serving, Serves
<1>5. CASE rip = Common(c.vector, 18)
  <2>1. InStub /\ Instr = isr_common[18] /\ rip + 1 = Common(c.vector, 19)
    BY <1>2, <1>5, FetchCommon, Zenon
  <2>2. Instr = <<"call", isr_handler>>
    BY <2>1, Common35, Zenon
  <2>3. Instr[1] = "call" /\ Instr[2] = isr_handler
    BY <2>2
  <2>4. call
    BY <2>1, <2>3, OnlyInstr
  <2>5. ~iretq
    BY <2>3 DEF iretq, At
  <2>6. /\ UNCHANGED <<IF_flag, before>> /\ regs' = regs
        /\ rip' = isr_handler /\ stack' = <<rip + 1>> \o stack
    BY <2>3, <2>4 DEF call
  <2>7. rip + 1 \in Int /\ isr_handler \in Int /\ stack \in Seq(Int)
    BY DEF Machine, isr_handler
  <2>8. stack' \in Seq(Int)
    BY <2>6, <2>7, Put
  <2>9. Machine'
    BY <2>6, <2>7, <2>8 DEF Machine
  <2>10. InC(c, Now')
    BY <1>1, <2>1, <2>6, NowIs, Zenon DEF InC
  <2>11. QED
    BY <2>5, <2>6, <2>9, <2>10, Zenon DEF Serving, Serves
<1>6. QED
  BY <1>4, <1>5, NowIs, Zenon DEF Calling

LEMMA InCStep ==
  ASSUME Machine, NEW c \in Context, ServiceStep, InC(c, Now)
  PROVE  Serving(c)
<1> DEFINE a == Common(c.vector, 19)
           s == Saved(c, 15)
<1>1. a \in Int /\ s \in Seq(Int) /\ Junk \in Int /\ 15 \in 0..15
  <2>1. \A v \in Vectors : Common(v, 19) \in Int
    BY DEF Common, EntryLen, Vectors
  <2>2. Junk \in Int /\ 15 \in 0..15
    BY DEF Junk
  <2>3. QED
    BY <2>1, <2>2, ContextParts, SavedParts, Zenon
<1>2. <<a>> \o s \in Seq(Int)
  BY <1>1, Put
<1>3. ~InStub /\ ~iretq /\ ~isr
  <2>1. rip = isr_handler \/ rip = InHandler
    BY NowIs, Zenon DEF InC
  <2>2. ~InStub
    BY <2>1 DEF InStub, isr_handler, InHandler
  <2>3. QED
    BY <2>2, Zenon
       DEF isr, push_const, push, movq, call, pop, addq, iretq, Step, At
<1>4. CASE rip = isr_handler /\ stack = <<a>> \o s
  <2>1. isr_handler_runs
    BY <1>3, <1>4 DEF ServiceStep, isr_handler_ret, isr_handler, InHandler
  <2>2. /\ rip' = InHandler /\ stack' = <<Junk>> \o stack /\ UNCHANGED <<IF_flag, before>>
        /\ regs' = [r \in DOMAIN regs |-> IF r \in CallerSaved THEN Junk ELSE regs[r]]
    BY <2>1, Zenon DEF isr_handler_runs
  <2>3. stack' \in Seq(Int)
    BY <1>1, <2>2, Put DEF Machine
  <2>4. regs' \in [Reg -> Int]
    BY <1>1, <2>2 DEF Machine
  <2>5. Machine'
    BY <2>2, <2>3, <2>4 DEF Machine, InHandler
  <2>6. InC(c, Now')
    BY <1>4, <2>2, NowIs, Zenon DEF InC
  <2>7. QED
    BY <1>3, <2>2, <2>5, <2>6, Zenon DEF Serving, Serves
<1>5. CASE rip = InHandler /\ stack = <<Junk>> \o (<<a>> \o s)
  <2>1. isr_handler_ret
    BY <1>3, <1>5 DEF ServiceStep, isr_handler_runs, isr_handler, InHandler
  <2>2. /\ rip' = stack[2] /\ stack' = SubSeq(stack, 3, Len(stack))
        /\ UNCHANGED <<regs, IF_flag, before>>
    BY <2>1, Zenon DEF isr_handler_ret
  <2> HIDE DEF a, s
  <2>3. stack[2] = a /\ SubSeq(stack, 3, Len(stack)) = s
    <3>1. LET u == <<Junk>> \o (<<a>> \o s)
          IN  u \in Seq(Int) /\ u[2] = a /\ SubSeq(u, 3, Len(u)) = s
      BY <1>1, TakeTwo, Zenon
    <3>2. QED
      BY <1>5, <3>1, Zenon
  <2>4. rip' = a /\ stack' = s
    BY <2>2, <2>3, Zenon
  <2>5. Machine'
    BY <1>1, <2>2, <2>4 DEF Machine
  <2>6. Restoring(c, Now')
    <3>1. /\ 0 \in 0..15 /\ 19 + 0 = 19 /\ 15 - 0 = 15
          /\ \A k \in (16 - 0)..15 : FALSE
      OBVIOUS
    <3>2. QED
      BY <2>4, <3>1, NowIs, Zenon DEF Restoring, a, s
  <2>7. QED
    BY <1>3, <2>2, <2>5, <2>6, Zenon DEF Serving, Serves
<1>6. QED
  BY <1>4, <1>5, NowIs, Zenon DEF InC

LEMMA RestoringStep ==
  ASSUME Machine, NEW c \in Context, ServiceStep, Restoring(c, Now)
  PROVE  Serving(c)
<1>1. PICK n \in 0..15 :
        /\ rip = Common(c.vector, 19 + n) /\ stack = Saved(c, 15 - n)
        /\ \A k \in (16 - n)..15 : regs[Pushed[k]] = c.regs[Pushed[k]]
  BY NowIs, Zenon DEF Restoring
<1>2. 19 + n \in 1..35 /\ c.vector \in Vectors /\ c.regs \in [Reg -> Int]
  <2>1. 19 + n \in 1..35
    OBVIOUS
  <2>2. QED
    BY <2>1, ContextParts, Zenon
<1>3. InStub /\ Instr = isr_common[19 + n] /\ rip + 1 = Common(c.vector, (19 + n) + 1)
  BY <1>1, <1>2, FetchCommon, Zenon
<1>4. CASE n \in 0..14
  <2> DEFINE j == 15 - n
             x == Pushed[j]
  <2>1. /\ n + 1 \in 1..15 /\ n + 1 \in 0..15 /\ 18 + (n + 1) = 19 + n /\ 16 - (n + 1) = j
        /\ j \in 1..15 /\ j - 1 \in 0..14 /\ (j - 1) + 1 = j
        /\ 15 - (n + 1) = j - 1 /\ (19 + n) + 1 = 19 + (n + 1) /\ j - 1 \in 0..15
    BY <1>4
  <2>2. Instr = <<"popq", x>>
    <3>1. Popped[n + 1] = Pushed[16 - (n + 1)]
      BY <2>1, PoppedIsReverse, Zenon
    <3>2. isr_common[18 + (n + 1)] = <<"popq", Popped[n + 1]>>
      BY <2>1, Common35, Zenon
    <3>3. isr_common[19 + n] = <<"popq", Popped[n + 1]>> /\ Popped[n + 1] = x
      BY <2>1, <3>1, <3>2, Zenon
    <3>4. QED
      BY <1>3, <3>3, Zenon
  <2>3. Instr[1] = "popq" /\ Instr[2] = x
    BY <2>2
  <2>4. pop
    BY <1>3, <2>3, OnlyInstr
  <2>5. ~iretq
    BY <2>3 DEF iretq, At
  <2>6. /\ UNCHANGED <<IF_flag, before>>
        /\ rip' = rip + 1 /\ stack' = Tail(stack) /\ regs' = [regs EXCEPT ![x] = Head(stack)]
    BY <2>3, <2>4 DEF pop, Step
  <2>7. x \in Reg
    BY <2>1, RegisterCount, Zenon DEF Reg
  <2>8. c.regs[x] \in Int /\ Saved(c, j - 1) \in Seq(Int)
    BY <1>2, <2>1, <2>7, SavedParts
  <2>9. stack = <<c.regs[x]>> \o Saved(c, j - 1)
    BY <1>1, <2>1, SavedParts, Zenon
  <2> HIDE DEF x, j
  <2>10. Head(stack) = c.regs[x] /\ Tail(stack) = Saved(c, j - 1)
    BY <2>8, <2>9, Put
  <2>11. regs' \in [Reg -> Int] /\ regs'[x] = c.regs[x]
         /\ \A y \in Reg : y # x => regs'[y] = regs[y]
    BY <2>6, <2>7, <2>8, <2>10 DEF Machine
  <2>12. ASSUME NEW k \in (16 - (n + 1))..15
         PROVE  regs'[Pushed[k]] = c.regs[Pushed[k]]
    <3>1. k \in 1..15 /\ (k = j \/ k \in (16 - n)..15)
      BY <2>1
    <3>2. Pushed[k] \in Reg
      BY <3>1, RegisterCount, Zenon DEF Reg
    <3>3. CASE Pushed[k] = x
      BY <2>11, <3>3, Zenon
    <3>4. CASE Pushed[k] # x
      <4>1. k # j
        BY <3>4, Zenon DEF x
      <4>2. QED
        BY <1>1, <2>11, <3>1, <3>2, <3>4, <4>1, Zenon
    <3>5. QED
      BY <3>3, <3>4
  <2>13. Machine'
    <3>1. rip \in Int /\ IF_flag \in BOOLEAN
      BY DEF Machine
    <3>2. rip + 1 \in Int
      BY <3>1
    <3>3. QED
      BY <2>6, <2>8, <2>10, <2>11, <3>1, <3>2, Zenon DEF Machine
  <2>14. Restoring(c, Now')
    <3>1. n + 1 \in 0..15
      BY <2>1
    <3>2. rip' = Common(c.vector, 19 + (n + 1))
      BY <1>3, <2>1, <2>6, Zenon
    <3>3. stack' = Saved(c, 15 - (n + 1))
      BY <2>1, <2>6, <2>10, Zenon
    <3>4. \A k \in (16 - (n + 1))..15 : regs'[Pushed[k]] = c.regs[Pushed[k]]
      BY <2>12, Zenon
    <3>5. QED
      BY <3>1, <3>2, <3>3, <3>4, NowIs, Zenon DEF Restoring
  <2>15. QED
    BY <2>5, <2>6, <2>13, <2>14, Zenon DEF Serving, Serves
<1>5. CASE n \notin 0..14
  <2>1. n = 15 /\ 19 + n = 34 /\ (19 + n) + 1 = 35 /\ 15 - n = 0 /\ 16 - n = 1
    BY <1>5
  <2>2. Instr = <<"addq", 2>>
    BY <1>3, <2>1, Common35, Zenon
  <2>3. Instr[1] = "addq" /\ Instr[2] = 2
    BY <2>2
  <2>4. addq
    BY <1>3, <2>3, OnlyInstr
  <2>5. ~iretq
    BY <2>3 DEF iretq, At
  <2>6. /\ UNCHANGED <<IF_flag, before>> /\ regs' = regs
        /\ rip' = rip + 1 /\ stack' = SubSeq(stack, 2 + 1, Len(stack))
    BY <2>3, <2>4 DEF addq, Step
  <2>7. stack' = Frame(c)
    <3>1. 2 + 1 = 3
      OBVIOUS
    <3>2. c.vector \in Int /\ c.code \in Int /\ Frame(c) \in Seq(Int)
      BY ContextParts, FrameParts, Zenon
    <3>3. stack = <<c.vector>> \o (<<c.code>> \o Frame(c))
      BY <1>1, <2>1, SavedParts, Zenon
    <3>4. SubSeq(stack, 3, Len(stack)) = Frame(c)
      <4>1. LET u == <<c.vector>> \o (<<c.code>> \o Frame(c))
            IN  u \in Seq(Int) /\ u[2] = c.code /\ SubSeq(u, 3, Len(u)) = Frame(c)
        BY <3>2, TakeTwo, Zenon
      <4>2. QED
        BY <3>3, <4>1, Zenon
    <3>5. QED
      BY <2>6, <3>1, <3>4, Zenon
  <2>8. regs = c.regs
    <3>1. \A y \in Reg : \E k \in 1..15 : y = Pushed[k]
      BY RegisterCount, Zenon DEF Reg
    <3>2. \A y \in Reg : regs[y] = c.regs[y]
      BY <1>1, <2>1, <3>1, Zenon
    <3>3. regs \in [Reg -> Int]
      BY DEF Machine
    <3>4. QED
      BY <1>2, <3>2, <3>3
  <2>9. Machine'
    BY <2>6, <2>7, FrameParts DEF Machine
  <2>10. Leaving(c, Now')
    BY <1>3, <2>1, <2>6, <2>7, <2>8, NowIs, Zenon DEF Leaving
  <2>11. QED
    BY <2>5, <2>6, <2>9, <2>10, Zenon DEF Serving, Serves
<1>6. QED
  BY <1>4, <1>5

(* The last step gives back everything the interrupt had taken away.       *)
LEMMA LeavingStep ==
  ASSUME Machine, NEW c \in Context, ServiceStep, Leaving(c, Now)
  PROVE  /\ iretq
         /\ stack' = c.stack /\ regs' = c.regs /\ rip' = c.rip /\ IF_flag' = c.IF_flag
         /\ before' = Tail(before)
<1>1. rip = Common(c.vector, 35) /\ regs = c.regs /\ stack = Frame(c)
  BY NowIs, Zenon DEF Leaving
<1>2. 35 \in 1..35 /\ c.vector \in Vectors
  <2>1. 35 \in 1..35
    OBVIOUS
  <2>2. QED
    BY <2>1, ContextParts, Zenon
<1>3. InStub /\ Instr = isr_common[35]
  BY <1>1, <1>2, FetchCommon, Zenon
<1>4. Instr = <<"iretq", 0>>
  BY <1>3, Common35, Zenon
<1>5. Instr[1] = "iretq"
  BY <1>4
<1>6. iretq
  BY <1>3, <1>5, OnlyInstr
<1>7. /\ rip' = stack[1] /\ IF_flag' = (stack[3] = 1) /\ regs' = regs /\ before' = Tail(before)
      /\ stack' = SubSeq(stack, Len(stack) - (Base - stack[4]) + 1, Len(stack))
  BY <1>6, Zenon DEF iretq
<1>8. rip' = c.rip /\ stack' = c.stack /\ IF_flag' = (Flag(c) = 1)
  BY <1>1, <1>7, FrameParts, Zenon
<1>9. IF_flag' = c.IF_flag
  <2>1. c.IF_flag \in BOOLEAN
    BY ContextParts, Zenon
  <2>2. (Flag(c) = 1) = c.IF_flag
    BY <2>1 DEF Flag
  <2>3. QED
    BY <1>8, <2>2, Zenon
<1>10. QED
  BY <1>1, <1>6, <1>7, <1>8, <1>9, Zenon

LEMMA ServiceStepServes ==
  ASSUME Machine, NEW c \in Context, c.code = CodeOf(c.vector), ServiceStep, Serves(c, Now)
  PROVE  \/ Serving(c)
         \/ /\ Leaving(c, Now) /\ iretq
            /\ stack' = c.stack /\ regs' = c.regs /\ rip' = c.rip /\ IF_flag' = c.IF_flag
            /\ before' = Tail(before)
BY EnteringStep, SavingStep, CallingStep, InCStep, RestoringStep, LeavingStep, Zenon
   DEF Serves

------------------------------------------------------------------------------
(* Interrupts under way. *)

(* The main program runs no stub. *)
LEMMA MainRuns ==
  ASSUME rip = MainProgram
  PROVE  ~ServiceStep
<1>1. ~InStub /\ rip # isr_handler /\ rip # InHandler
  BY DEF InStub, MainProgram, isr_handler, InHandler
<1>2. QED
  BY <1>1, Zenon
     DEF ServiceStep, isr, isr_handler_runs, isr_handler_ret, push_const, push, movq, call,
         pop, addq, iretq, Step, At

(* Whether a context serves another one is a matter of its stack, its      *)
(* registers and its place in the code.                                    *)
LEMMA ServesSame ==
  \A e, s, t : s.stack = t.stack /\ s.regs = t.regs /\ s.rip = t.rip /\ Serves(e, s)
                 => Serves(e, t)
<1> SUFFICES ASSUME NEW e, NEW s, NEW t,
                    s.stack = t.stack, s.regs = t.regs, s.rip = t.rip, Serves(e, s)
             PROVE  Serves(e, t)
  OBVIOUS
<1>1. CASE Entering(e, s)
  BY <1>1, Zenon DEF Entering, Serves
<1>2. CASE Saving(e, s)
  BY <1>2, Zenon DEF Saving, Serves
<1>3. CASE Calling(e, s)
  BY <1>3, Zenon DEF Calling, Serves
<1>4. CASE InC(e, s)
  BY <1>4, Zenon DEF InC, Serves
<1>5. CASE Restoring(e, s)
  BY <1>5, Zenon DEF Restoring, Serves
<1>6. CASE Leaving(e, s)
  BY <1>6, Zenon DEF Leaving, Serves
<1>7. QED
  BY <1>1, <1>2, <1>3, <1>4, <1>5, <1>6, Zenon DEF Serves

LEMMA InitInv == Init => StubsInv
<1> SUFFICES ASSUME Init PROVE StubsInv
  OBVIOUS
<1>1. stack \in Seq(Int)
  <2>1. stack \in {<<>>, <<Junk>>}
    BY DEF Init
  <2>2. <<>> \in Seq(Int) /\ <<Junk>> \in Seq(Int)
    BY DEF Junk
  <2>3. QED
    BY <2>1, <2>2
<1>2. regs \in [Reg -> Int]
  <2> DEFINE f(r) == CHOOSE k \in 1..Len(Pushed) : Pushed[k] = r
  <2>1. regs = [r \in Reg |-> 100 + f(r)]
    BY Zenon DEF Init, Reg
  <2>2. \A r \in Reg : f(r) \in Int
    <3>1. TAKE r \in Reg
    <3>2. \E k \in 1..Len(Pushed) : Pushed[k] = r
      BY Zenon DEF Reg
    <3>3. f(r) \in 1..Len(Pushed)
      BY <3>2, Zenon
    <3> HIDE DEF f
    <3>4. \A k \in 1..Len(Pushed) : k \in Int
      OBVIOUS
    <3>5. QED
      BY <3>3, <3>4, Zenon
  <2> HIDE DEF f
  <2>3. QED
    BY <2>1, <2>2
<1>3. Machine
  BY <1>1, <1>2 DEF Machine, Init, MainProgram
<1>4. before = <<>> /\ rip = MainProgram
  BY DEF Init
<1>5. Contexts
  BY <1>4 DEF Contexts
<1>6. Nesting
  BY <1>4 DEF Nesting
<1>7. QED
  BY <1>3, <1>5, <1>6 DEF StubsInv

(* A step of the innermost stub or handler. *)
LEMMA ServiceInv == StubsInv /\ ServiceStep => StubsInv'
<1> SUFFICES ASSUME StubsInv, ServiceStep PROVE StubsInv'
  OBVIOUS
<1> USE DEF StubsInv
<1>1. before # <<>>
  BY MainRuns DEF Nesting
<1>2. before \in Seq(Context) /\ Len(before) \in Nat /\ Len(before) > 0
  <2>1. before \in Seq(Context)
    BY DEF Contexts
  <2>2. Len(before) \in Nat \ {0}
    BY <1>1, <2>1, EmptySeq
  <2>3. QED
    BY <2>1, <2>2
<1>3. \E c : c = before[1] /\ c \in Context
  BY <1>2
<1>4. PICK c : c = before[1] /\ c \in Context
  BY <1>3, Zenon
<1>5. c.code = CodeOf(c.vector) /\ Serves(c, Now)
  <2>1. 1 \in 1..Len(before)
    BY <1>2
  <2>2. QED
    BY <1>1, <1>4, <2>1, Zenon DEF Contexts, Nesting
<1>6. CASE Serving(c)
  <2>1. before' = before /\ Machine' /\ Serves(c, Now')
    BY <1>6, Zenon DEF Serving
  <2>2. Contexts'
    BY <2>1 DEF Contexts
  <2>3. Nesting'
    BY <1>1, <1>4, <2>1, Zenon DEF Nesting
  <2>4. QED
    BY <2>1, <2>2, <2>3
<1>7. CASE /\ stack' = c.stack /\ regs' = c.regs /\ rip' = c.rip /\ IF_flag' = c.IF_flag
           /\ before' = Tail(before)
  <2>1. Machine'
    BY <1>4, <1>7, ContextParts, Zenon DEF Machine
  <2>2. /\ before' \in Seq(Context) /\ Len(before') = Len(before) - 1
        /\ \A d \in 1..Len(before') : before'[d] = before[d + 1]
    BY <1>1, <1>2, <1>7, HeadTailProperties
  <2>3. Contexts'
    <3>1. \A d \in 1..Len(before') : d + 1 \in 1..Len(before)
      BY <1>2, <2>2
    <3>2. QED
      BY <2>2, <3>1 DEF Contexts
  <2>4. Nesting'
    <3>1. CASE Len(before) = 1
      <4>1. before' = <<>>
        BY <2>2, <3>1, EmptySeq
      <4>2. rip' = MainProgram
        BY <1>1, <1>4, <1>7, <3>1 DEF Nesting
      <4>3. \A d \in 1..(Len(before') - 1) : FALSE
        BY <2>2, <3>1
      <4>4. QED
        BY <4>1, <4>2, <4>3, Zenon DEF Nesting
    <3>2. CASE Len(before) # 1
      <4>1. /\ 1 \in 1..(Len(before) - 1) /\ 1 + 1 = 2 /\ 1 \in 1..Len(before')
            /\ Len(before') \in 1..Len(before') /\ Len(before') + 1 = Len(before)
            /\ \A d \in 1..(Len(before') - 1) :
                 /\ d \in 1..Len(before') /\ d + 1 \in 1..Len(before')
                 /\ d + 1 \in 1..(Len(before) - 1)
        BY <1>2, <2>2, <3>2
      <4>2. before' # <<>>
        BY <2>2, <4>1, EmptySeq
      <4>3. Serves(before'[1], Now')
        <5>1. Serves(before[2], c)
          BY <1>4, <4>1, Zenon DEF Nesting
        <5>2. before'[1] = before[2]
          BY <2>2, <4>1, Zenon
        <5>3. (Now').stack = c.stack /\ (Now').regs = c.regs /\ (Now').rip = c.rip
          BY <1>7, NowIs, Zenon
        <5>4. QED
          BY <5>1, <5>2, <5>3, ServesSame, Zenon
      <4>4. before'[Len(before')].rip = MainProgram
        BY <1>1, <2>2, <4>1, Zenon DEF Nesting
      <4>5. ASSUME NEW d \in 1..(Len(before') - 1)
            PROVE  Serves(before'[d + 1], before'[d])
        <5>1. before'[d] = before[d + 1] /\ before'[d + 1] = before[(d + 1) + 1]
          BY <2>2, <4>1, Zenon
        <5>2. Serves(before[(d + 1) + 1], before[d + 1])
          BY <4>1, Zenon DEF Nesting
        <5>3. QED
          BY <5>1, <5>2, Zenon
      <4>6. QED
        BY <4>2, <4>3, <4>4, <4>5, Zenon DEF Nesting
    <3>3. QED
      BY <3>1, <3>2
  <2>5. QED
    BY <2>1, <2>3, <2>4
<1>8. QED
  BY <1>4, <1>5, <1>6, <1>7, ServiceStepServes

(* An exception or an interrupt on top of what is under way. *)
LEMMA InterruptInv == ASSUME StubsInv, NEW v \in Vectors, Interrupt(v) PROVE StubsInv'
<1> USE DEF StubsInv
<1> DEFINE ctx == [vector |-> v, code |-> IF v \in WithCode THEN ErrorCode ELSE 0,
                   stack |-> stack, regs |-> regs, rip |-> rip, IF_flag |-> IF_flag]
<1>1. ctx \in Context
  <2>1. (IF v \in WithCode THEN ErrorCode ELSE 0) \in Int
    BY DEF ErrorCode
  <2>2. QED
    BY <2>1 DEF Context, Machine
<1>2. \E c \in Context : c = ctx
  BY <1>1
<1>3. PICK c \in Context : c = ctx
  BY <1>2
<1>4. /\ c.vector = v /\ c.code = CodeOf(v) /\ c.stack = stack /\ c.regs = regs /\ c.rip = rip
      /\ c.IF_flag = IF_flag
  BY <1>3 DEF CodeOf
<1> DEFINE five == <<rip, 8, IF IF_flag THEN 1 ELSE 0, rsp, 16>>
           pad  == IF rsp % 2 = 0 THEN <<>> ELSE <<Junk>>
           code == IF v \in WithCode THEN <<ErrorCode>> ELSE <<>>
<1>5. /\ stack' = code \o five \o pad \o stack
      /\ before' = <<ctx>> \o before
      /\ rip' = 100 * v + 1 /\ IF_flag' = FALSE /\ regs' = regs
  BY Zenon DEF Interrupt
<1>6. five \in Seq(Int) /\ pad \in Seq(Int) /\ code \in Seq(Int) /\ stack \in Seq(Int)
  <2>1. stack \in Seq(Int) /\ rip \in Int
    BY DEF Machine
  <2>2. rsp \in Int
    BY <2>1 DEF rsp, Base
  <2>3. five \in Seq(Int)
    BY <2>1, <2>2
  <2>4. pad \in Seq(Int) /\ code \in Seq(Int)
    BY DEF Junk, ErrorCode
  <2>5. QED
    BY <2>1, <2>3, <2>4
<1>7. Frame(c) = five \o (pad \o stack)
  BY <1>4, Zenon DEF Frame, Below, Pad, Flag, rsp
<1>8. ErrorCode \in Int /\ <<ErrorCode>> \in Seq(Int)
  BY DEF ErrorCode
<1> HIDE DEF five, pad
<1>9. stack' = code \o Frame(c)
  <2> DEFINE cf == code \o five
             ps == pad \o stack
  <2> HIDE DEF code, ctx, StubsInv
  <2>1. cf \in Seq(Int) /\ ps \in Seq(Int)
    BY <1>6, Concatenated, Zenon
  <2>2. stack' = (cf \o pad) \o stack /\ Frame(c) = five \o ps
    BY <1>5, <1>7, Zenon
  <2>3. cf \o ps = code \o (five \o ps)
    BY <1>6, <2>1, Associative, Zenon
  <2> HIDE DEF cf
  <2>4. (cf \o pad) \o stack = cf \o (pad \o stack)
    BY <1>6, <2>1, Associative, Zenon
  <2>5. QED
    BY <2>2, <2>3, <2>4, Zenon
<1>10. /\ stack' = IF v \in WithCode THEN <<c.code>> \o Frame(c) ELSE Frame(c)
       /\ stack' \in Seq(Int)
  <2>1. Frame(c) \in Seq(Int)
    BY FrameParts, Zenon
  <2>2. CASE v \in WithCode
    <3>1. stack' = <<ErrorCode>> \o Frame(c) /\ c.code = ErrorCode
      BY <1>4, <1>9, <2>2, Zenon DEF CodeOf
    <3>2. stack' \in Seq(Int)
      BY <1>8, <2>1, <3>1, Put
    <3>3. QED
      BY <2>2, <3>1, <3>2, Zenon
  <2>3. CASE v \notin WithCode
    <3>1. stack' = <<>> \o Frame(c)
      BY <1>9, <2>3, Zenon
    <3>2. stack' = Frame(c)
      BY <2>1, <3>1, ConcatEmptySeq, Zenon
    <3>3. QED
      BY <2>1, <2>3, <3>2, Zenon
  <2>4. QED
    BY <2>2, <2>3
<1>11. Serves(c, Now')
  <2>1. Entering(c, Now')
    BY <1>4, <1>5, <1>10, NowIs, Zenon DEF Entering
  <2>2. QED
    BY <2>1, Zenon DEF Serves
<1>12. Machine'
  <2>1. rip' \in Int
    BY <1>5 DEF Vectors
  <2>2. QED
    BY <1>5, <1>10, <2>1 DEF Machine
<1> HIDE DEF ctx
<1>13. before \in Seq(Context) /\ Len(before) \in Nat
  BY DEF Contexts
<1>14. /\ before' \in Seq(Context) /\ Len(before') = 1 + Len(before)
       /\ before'[1] = c /\ \A d \in 2..(1 + Len(before)) : before'[d] = before[d - 1]
  <2>1. <<c>> \in Seq(Context) /\ Len(<<c>>) = 1 /\ <<c>>[1] = c
    BY <1>1
  <2>2. before' = <<c>> \o before
    BY <1>3, <1>5, Zenon
  <2>3. /\ before' \in Seq(Context) /\ Len(before') = Len(<<c>>) + Len(before)
        /\ \A d \in 1..(Len(<<c>>) + Len(before)) :
             before'[d] = IF d <= Len(<<c>>) THEN <<c>>[d] ELSE before[d - Len(<<c>>)]
    BY <1>13, <2>1, <2>2, ConcatProperties
  <2>4. QED
    BY <1>13, <2>1, <2>3
<1>15. before' # <<>>
  BY <1>13, <1>14, EmptySeq
<1>16. Contexts'
  <2>1. ASSUME NEW d \in 1..Len(before')
        PROVE  before'[d].code = CodeOf(before'[d].vector)
    <3>1. CASE d = 1
      BY <1>4, <1>14, <3>1, Zenon
    <3>2. CASE d # 1
      <4>1. d \in 2..(1 + Len(before)) /\ d - 1 \in 1..Len(before)
        BY <1>13, <1>14, <3>2
      <4>2. QED
        BY <1>14, <4>1, Zenon DEF Contexts
    <3>3. QED
      BY <3>1, <3>2
  <2>2. QED
    BY <1>14, <2>1, Zenon DEF Contexts
<1>17. Nesting'
  <2>1. before'[Len(before')].rip = MainProgram
    <3>1. CASE before = <<>>
      <4>1. Len(before') = 1
        BY <1>13, <1>14, <3>1
      <4>2. QED
        BY <1>4, <1>14, <3>1, <4>1, Zenon DEF Nesting
    <3>2. CASE before # <<>>
      <4>1. Len(before) \in Nat \ {0}
        BY <1>13, <3>2, EmptySeq
      <4>2. Len(before') \in 2..(1 + Len(before)) /\ Len(before') - 1 = Len(before)
        BY <1>13, <1>14, <4>1
      <4>3. before'[Len(before')] = before[Len(before)]
        BY <1>14, <4>2, Zenon
      <4>4. QED
        BY <3>2, <4>3, Zenon DEF Nesting
    <3>3. QED
      BY <3>1, <3>2
  <2>2. ASSUME NEW d \in 1..(Len(before') - 1)
        PROVE  Serves(before'[d + 1], before'[d])
    <3>1. d + 1 \in 2..(1 + Len(before)) /\ (d + 1) - 1 = d
      BY <1>13, <1>14
    <3>2. before'[d + 1] = before[d]
      BY <1>14, <3>1, Zenon
    <3>3. CASE d = 1
      <4>1. before # <<>>
        BY <1>13, <1>14, <3>3
      <4>2. Serves(before[1], Now)
        BY <4>1, Zenon DEF Nesting
      <4>3. Now.stack = c.stack /\ Now.regs = c.regs /\ Now.rip = c.rip
        BY <1>4, NowIs, Zenon
      <4>4. Serves(before[1], c)
        BY <4>2, <4>3, ServesSame, Zenon
      <4>5. QED
        BY <1>14, <3>2, <3>3, <4>4, Zenon
    <3>4. CASE d # 1
      <4>1. d \in 2..(1 + Len(before)) /\ d - 1 \in 1..(Len(before) - 1) /\ (d - 1) + 1 = d
        BY <1>13, <1>14, <3>4
      <4>2. before'[d] = before[d - 1]
        BY <1>14, <4>1, Zenon
      <4>3. Serves(before[(d - 1) + 1], before[d - 1])
        BY <4>1, Zenon DEF Nesting
      <4>4. QED
        BY <3>2, <4>1, <4>2, <4>3, Zenon
    <3>5. QED
      BY <3>3, <3>4
  <2>3. QED
    BY <1>11, <1>14, <1>15, <2>1, <2>2, Zenon DEF Nesting
<1>18. QED
  BY <1>12, <1>16, <1>17, Zenon

LEMMA StubsStep == StubsInv /\ [Next]_vars => StubsInv'
<1> SUFFICES ASSUME StubsInv, [Next]_vars PROVE StubsInv'
  OBVIOUS
<1>1. CASE ServiceStep
  BY <1>1, ServiceInv, Zenon
<1>2. CASE Interrupted
  <2>1. PICK v \in IF before = <<>> THEN Outer ELSE Nested : Interrupt(v)
    BY <1>2, Zenon DEF Interrupted
  <2>2. v \in Vectors
    BY StubsAssumption DEF Vectors
  <2>3. QED
    BY <2>1, <2>2, InterruptInv, Zenon
<1>3. CASE UNCHANGED vars
  BY <1>3 DEF vars, StubsInv, Machine, Contexts, Nesting, Now
<1>4. QED
  BY <1>1, <1>2, <1>3, Zenon DEF Next, ServiceStep

(* Every stub and handler under way serves the context it interrupted, and *)
(* finds the stack and the registers as the one it interrupted left them   *)
(* (interrupts.s:89-127).                                                  *)
THEOREM StubsInvariant == Spec => []StubsInv
<1>1. Init => StubsInv
  BY InitInv
<1>2. StubsInv /\ [Next]_vars => StubsInv'
  BY StubsStep
<1>3. QED
  BY <1>1, <1>2, PTL DEF Spec

------------------------------------------------------------------------------
(* The properties. *)

(* Only a stub that has saved all registers and loaded both arguments is   *)
(* at its call.                                                            *)
LEMMA AtCall ==
  ASSUME NEW c \in Context, Serves(c, Now), At("call")
  PROVE  Calling(c, Now) /\ rip = Common(c.vector, 18)
<1>1. InStub /\ Instr[1] = "call" /\ c.vector \in Vectors
  BY ContextParts, Zenon DEF At
<1>2. ASSUME NEW m \in 1..35, rip = Common(c.vector, m), m # 18
      PROVE  FALSE
  <2>1. Instr = isr_common[m]
    BY <1>1, <1>2, FetchCommon, Zenon
  <2>2. CASE m \in 1..15
    <3>1. Instr = <<"pushq", Pushed[m]>>
      BY <2>1, <2>2, Common35, Zenon
    <3>2. QED
      BY <1>1, <3>1
  <2>3. CASE m = 16
    <3>1. Instr = <<"movq", 15, "rdi">>
      BY <2>1, <2>3, Common35, Zenon
    <3>2. QED
      BY <1>1, <3>1
  <2>4. CASE m = 17
    <3>1. Instr = <<"movq", 16, "rsi">>
      BY <2>1, <2>4, Common35, Zenon
    <3>2. QED
      BY <1>1, <3>1
  <2>5. CASE m \in 19..33
    <3>1. m - 18 \in 1..15 /\ 18 + (m - 18) = m
      BY <2>5
    <3>2. Instr = <<"popq", Popped[m - 18]>>
      <4>1. isr_common[18 + (m - 18)] = <<"popq", Popped[m - 18]>>
        BY <3>1, Common35, Zenon
      <4>2. QED
        BY <2>1, <3>1, <4>1, Zenon
    <3>3. QED
      BY <1>1, <3>2
  <2>6. CASE m = 34
    <3>1. Instr = <<"addq", 2>>
      BY <2>1, <2>6, Common35, Zenon
    <3>2. QED
      BY <1>1, <3>1
  <2>7. CASE m = 35
    <3>1. Instr = <<"iretq", 0>>
      BY <2>1, <2>7, Common35, Zenon
    <3>2. QED
      BY <1>1, <3>1
  <2>8. QED
    BY <1>2, <2>2, <2>3, <2>4, <2>5, <2>6, <2>7
<1>3. ~Entering(c, Now)
  <2>1. SUFFICES ASSUME Entering(c, Now) PROVE FALSE
    OBVIOUS
  <2>2. \/ rip = 100 * c.vector + 1
        \/ rip = 100 * c.vector + 2 /\ c.vector \notin NoDummy
    BY <2>1, NowIs, Zenon DEF Entering
  <2>3. Instr[1] = "pushq $"
    BY <1>1, <2>2, FetchEntry, Zenon
  <2>4. QED
    BY <1>1, <2>3
<1>4. ~Saving(c, Now)
  <2>1. SUFFICES ASSUME Saving(c, Now) PROVE FALSE
    OBVIOUS
  <2>2. PICK n \in 0..15 : rip = Common(c.vector, n + 1)
    BY <2>1, NowIs, Zenon DEF Saving
  <2>3. n + 1 \in 1..35 /\ n + 1 # 18
    OBVIOUS
  <2>4. QED
    BY <1>2, <2>2, <2>3, Zenon
<1>5. ~InC(c, Now)
  BY <1>1, NowIs DEF InC, InStub, isr_handler, InHandler
<1>6. ~Restoring(c, Now)
  <2>1. SUFFICES ASSUME Restoring(c, Now) PROVE FALSE
    OBVIOUS
  <2>2. PICK n \in 0..15 : rip = Common(c.vector, 19 + n)
    BY <2>1, NowIs, Zenon DEF Restoring
  <2>3. 19 + n \in 1..35 /\ 19 + n # 18
    OBVIOUS
  <2>4. QED
    BY <1>2, <2>2, <2>3, Zenon
<1>7. ~Leaving(c, Now)
  <2>1. 35 \in 1..35 /\ 35 # 18
    OBVIOUS
  <2>2. QED
    BY <1>2, <2>1, NowIs, Zenon DEF Leaving
<1>8. Calling(c, Now)
  BY <1>3, <1>4, <1>5, <1>6, <1>7, Zenon DEF Serves
<1>9. rip # Common(c.vector, 17)
  <2>1. 17 \in 1..35 /\ 17 # 18
    OBVIOUS
  <2>2. QED
    BY <1>2, <2>1, Zenon
<1>10. QED
  BY <1>8, <1>9, NowIs, Zenon DEF Calling

LEMMA CallOfInv == StubsInv => CallConvention
<1> SUFFICES ASSUME StubsInv, At("call") PROVE CallConvention
  BY DEF CallConvention
<1> USE DEF StubsInv
<1>1. before # <<>>
  BY DEF Nesting, At, InStub, MainProgram, isr_handler
<1>2. before[1] \in Context
  <2>1. before \in Seq(Context)
    BY DEF Contexts
  <2>2. QED
    BY <1>1, <2>1
<1>3. PICK c \in Context : c = before[1]
  BY <1>2
<1>4. Serves(c, Now)
  BY <1>1, <1>3, Zenon DEF Nesting
<1>5. Calling(c, Now) /\ rip = Common(c.vector, 18)
  BY <1>4, AtCall, Zenon
<1>6. /\ stack = Saved(c, 15) /\ regs["rdi"] = c.vector
      /\ rip = Common(c.vector, 17) \/ regs["rsi"] = c.code
  BY <1>5, NowIs, Zenon DEF Calling
<1>7. rip # Common(c.vector, 17)
  <2>1. \A v \in Vectors : Common(v, 18) # Common(v, 17)
    BY DEF Common, EntryLen, Vectors
  <2>2. QED
    BY <1>5, <2>1, ContextParts, Zenon
<1>8. PICK m \in Nat : Len(Frame(c)) = 2 * m + 1
  BY FrameParts, Zenon
<1>9. rsp % 2 = 0
  <2>1. Len(stack) = 17 + (2 * m + 1)
    BY <1>6, <1>8, SavedParts, Zenon
  <2>2. (1000 - (17 + (2 * m + 1))) % 2 = 0
    OBVIOUS
  <2>3. rsp = 1000 - Len(stack)
    BY DEF rsp, Base
  <2> DEFINE L == Len(stack)
  <2>4. L = 17 + (2 * m + 1)
    BY <2>1
  <2>5. rsp = 1000 - L
    BY <2>3
  <2> HIDE DEF L, StubsInv
  <2>6. QED
    BY <2>2, <2>4, <2>5
<1>10. QED
  BY <1>3, <1>6, <1>7, <1>9, Zenon DEF CallConvention

(* isr_handler is called with the stack aligned and with the vector and    *)
(* the error code it expects, whatever was interrupted and however deep    *)
(* (interrupts.s:39-110).                                                  *)
THEOREM CallConventionHolds == Spec => []CallConvention
BY StubsInvariant, CallOfInv, PTL

LEMMA RestoredStep ==
  StubsInv /\ [Next]_vars =>
    [Len(before') < Len(before) =>
       [stack |-> stack', regs |-> regs', rip |-> rip', IF_flag |-> IF_flag']
     = [stack |-> before[1].stack, regs |-> before[1].regs, rip |-> before[1].rip,
        IF_flag |-> before[1].IF_flag]]_vars
<1> SUFFICES ASSUME StubsInv, Next, Len(before') < Len(before)
             PROVE  /\ stack' = before[1].stack /\ regs' = before[1].regs
                    /\ rip' = before[1].rip /\ IF_flag' = before[1].IF_flag
  BY Zenon
<1> USE DEF StubsInv
<1>1. before \in Seq(Context) /\ Len(before) \in Nat
  BY DEF Contexts
<1>2. ~Interrupted
  <2>1. SUFFICES ASSUME NEW v, Interrupt(v) PROVE FALSE
    BY Zenon DEF Interrupted
  <2> DEFINE ctx == [vector |-> v, code |-> IF v \in WithCode THEN ErrorCode ELSE 0,
                     stack |-> stack, regs |-> regs, rip |-> rip, IF_flag |-> IF_flag]
             Any == Context \cup {ctx}
  <2>2. before' = <<ctx>> \o before
    BY <2>1, Zenon DEF Interrupt
  <2>3. <<ctx>> \in Seq(Any) /\ before \in Seq(Any) /\ Len(<<ctx>>) = 1
    <3>1. ctx \in Any /\ Context \subseteq Any
      OBVIOUS
    <3> HIDE DEF ctx, Any
    <3>2. before \in Seq(Any)
      BY <1>1, <3>1, SeqMonotonic
    <3>3. QED
      BY <3>1, <3>2
  <2> HIDE DEF ctx, Any
  <2>4. Len(before') = Len(<<ctx>>) + Len(before)
    BY <2>2, <2>3, ConcatProperties
  <2>5. QED
    BY <1>1, <2>3, <2>4
<1>3. ServiceStep
  BY <1>2, Zenon DEF Next, ServiceStep
<1>4. before # <<>>
  BY <1>3, MainRuns DEF Nesting
<1>5. before[1] \in Context /\ 1 \in 1..Len(before)
  BY <1>1, <1>4
<1>6. PICK c \in Context : c = before[1]
  BY <1>5
<1>7. Serves(c, Now) /\ c.code = CodeOf(c.vector)
  BY <1>4, <1>5, <1>6, Zenon DEF Nesting, Contexts
<1>8. ~Serving(c)
  <2>1. ~(Len(before) < Len(before))
    BY <1>1
  <2>2. QED
    BY <2>1, Zenon DEF Serving
<1>9. QED
  BY <1>3, <1>6, <1>7, <1>8, ServiceStepServes, Zenon

(* An interrupt leaves no trace in what it interrupted, however deep the   *)
(* interrupts are nested (interrupts.s:89-127).                            *)
THEOREM ContextIsRestored == Spec => ContextRestored
BY StubsInvariant, RestoredStep, PTL DEF Spec, ContextRestored

================================================================================
