------------------------------ MODULE HeapProofs ------------------------------
(***************************************************************************)
(* Theorems about Heap for every memory map, any number of clients and     *)
(* sizes.  The lemmas speak of header functions h, so that they apply to   *)
(* the intermediate headers of an operation as well as to hdr itself.      *)
(***************************************************************************)
EXTENDS Heap, PmmProofs

(* Induction. *)

LEMMA Smallest ==
  ASSUME NEW S, S \subseteq Nat, S # {}
  PROVE  \E x \in S : \A z \in S : ~(z < x)
<1> DEFINE R == {ss \in Nat \X Nat : ss[1] < ss[2]}
<1>1. OpToRel(<, Nat) = R
  BY DEF OpToRel
<1>2. IsWellFoundedOn(R, Nat)
  BY <1>1, NatLessThanWellFounded
<1> HIDE DEF R
<1>3. PICK x \in S : \A z \in S : ~(<<z, x>> \in R)
  BY <1>2, WFMin
<1>4. QED
  BY <1>3 DEF R

(* A set with 0 and with every successor holds all of Nat.                 *)
LEMMA Upwards ==
  ASSUME NEW S, 0 \in S, \A m \in Nat : m \in S => m + 1 \in S
  PROVE  Nat \subseteq S
<1>1. SUFFICES ASSUME Nat \ S # {} PROVE FALSE
  OBVIOUS
<1>2. PICK x \in Nat \ S : \A z \in Nat \ S : ~(z < x)
  BY <1>1, Smallest
<1>3. x - 1 \in Nat /\ x - 1 < x
  BY <1>2
<1>4. QED
  BY <1>2, <1>3

------------------------------------------------------------------------------
(* Headers. *)

Record(D) == [size : Nat, in_use : BOOLEAN, next : D \cup {0}, prev : D \cup {0}]

Typed(h) == DOMAIN h \subseteq Nat /\ h \in [DOMAIN h -> Record(DOMAIN h)]

EndIn(h, b) == b + Hdr + h[b].size

Apart(h) == \A b, c \in DOMAIN h : b < c => EndIn(h, b) <= c

Chained(h) ==
  \A b \in DOMAIN h :
    /\ h[b].next # 0 => h[h[b].next].prev = b
    /\ h[b].prev # 0 => h[h[b].prev].next = b

(* The null pointer is also the address of a block when page 0 was taken,  *)
(* which is then the first one.                                            *)
ZeroIsFirst(h) == 0 \in DOMAIN h => h[0].prev = 0

(* The list has no cycle: the blocks can be numbered so that the numbers   *)
(* grow along it.                                                          *)
Ranks(h, rank) ==
  /\ rank \in [DOMAIN h -> Nat]
  /\ \A b \in DOMAIN h : h[b].next # 0 => rank[b] < rank[h[b].next]

Acyclic(h) == \E rank : Ranks(h, rank)

Sound(h) == Typed(h) /\ Apart(h) /\ Chained(h) /\ ZeroIsFirst(h) /\ Acyclic(h)

(* Every byte of a block lies in one of the pages.                         *)
Page(a) == a - (a % PageSize)

Within(h, pages) ==
  \A b \in DOMAIN h : \A a \in b..(EndIn(h, b) - 1) : Page(a) \in pages

LEMMA SoundBlock ==
  ASSUME NEW h, Sound(h), NEW b \in DOMAIN h
  PROVE  /\ b \in Nat /\ h[b] \in Record(DOMAIN h)
         /\ h[b].size \in Nat /\ h[b].in_use \in BOOLEAN
         /\ h[b].next \in DOMAIN h \cup {0} /\ h[b].prev \in DOMAIN h \cup {0}
         /\ h[b].next # 0 => h[b].next # b /\ h[h[b].next].prev = b
         /\ h[b].prev # 0 => b # 0 /\ h[b].prev # b /\ h[h[b].prev].next = b
<1>1. b \in Nat /\ h[b] \in Record(DOMAIN h)
  BY DEF Sound, Typed
<1>2. /\ h[b].size \in Nat /\ h[b].in_use \in BOOLEAN
      /\ h[b].next \in DOMAIN h \cup {0} /\ h[b].prev \in DOMAIN h \cup {0}
  BY <1>1 DEF Record
<1>3. /\ h[b].next # 0 => h[h[b].next].prev = b
      /\ h[b].prev # 0 => h[h[b].prev].next = b
  BY DEF Sound, Chained
<1>4. PICK rank : Ranks(h, rank)
  BY DEF Sound, Acyclic
<1>5. ASSUME h[b].next # 0
      PROVE  h[b].next # b
  <2>1. rank[b] < rank[h[b].next] /\ rank[b] \in Int
    BY <1>4, <1>5 DEF Ranks
  <2>2. ~(rank[b] < rank[b])
    BY <2>1
  <2>3. QED
    BY <2>1, <2>2, Zenon
<1>6. ASSUME h[b].prev # 0
      PROVE  h[b].prev # b
  <2>1. h[b].prev = b => h[b].next = b /\ b # 0
    BY <1>3, <1>6, Zenon
  <2>2. QED
    BY <1>5, <2>1, Zenon
<1>7. b = 0 => h[b].prev = 0
  BY DEF Sound, ZeroIsFirst
<1>8. QED
  BY <1>1, <1>2, <1>3, <1>5, <1>6, <1>7

------------------------------------------------------------------------------
(* Splitting a block. *)

(* g differs from h in that block b is cut to size bytes, with a free block *)
(* new behind it.                                                          *)
Splits(h, b, size, new, g) ==
  /\ new \in Nat /\ new # 0 /\ new \notin DOMAIN h /\ new = b + Hdr + size
  /\ DOMAIN g = DOMAIN h \cup {new} /\ g = [a \in DOMAIN g |-> g[a]]
  /\ h[b].next # 0 => h[b].next \in DOMAIN h \ {b}
  /\ g[new] = Header(h[b].size - (size + Hdr), FALSE, h[b].next, b)
  /\ g[b] = Header(size, h[b].in_use, new, h[b].prev)
  /\ h[b].next # 0 =>
       g[h[b].next] = Header(h[h[b].next].size, h[h[b].next].in_use, h[h[b].next].next, new)
  /\ \A a \in DOMAIN h \ {b} : a # h[b].next \/ h[b].next = 0 => g[a] = h[a]

LEMMA ResizeSplits ==
  ASSUME NEW h, Sound(h), NEW b \in DOMAIN h, NEW size \in Nat,
         h[b].size - size >= MinSplit
  PROVE  Splits(h, b, size, b + Hdr + size, resize_block(h, b, size))
<1> DEFINE new == b + Hdr + size
           nxt == h[b].next
           g == resize_block(h, b, size)
<1>1. /\ b \in Nat /\ h[b] \in Record(DOMAIN h) /\ h[b].size \in Nat
      /\ nxt \in DOMAIN h \cup {0} /\ (nxt # 0 => nxt # b) /\ DOMAIN h \subseteq Nat
  BY SoundBlock DEF Sound, Typed
<1>2. new \in Nat /\ b < new /\ new < EndIn(h, b)
  BY <1>1 DEF EndIn, Hdr, MinSplit
<1>3. new \notin DOMAIN h
  <2>1. ASSUME new \in DOMAIN h PROVE FALSE
    <3>1. EndIn(h, b) <= new
      BY <1>2, <2>1 DEF Sound, Apart
    <3>2. EndIn(h, b) \in Nat
      BY <1>1 DEF EndIn, Hdr
    <3>3. QED
      BY <1>2, <3>1, <3>2
  <2>2. QED
    BY <2>1
<1>4. new # 0 /\ new # b
  BY <1>1, <1>2
<1> HIDE DEF nxt
<1>5. g = [a \in DOMAIN h \cup {new} |->
             CASE a = new -> Header(h[b].size - (size + Hdr), FALSE, nxt, b)
               [] a = b   -> [h[b] EXCEPT !.size = size, !.next = new]
               [] a = nxt /\ nxt # 0 -> [h[a] EXCEPT !.prev = new]
               [] OTHER   -> h[a]]
  BY DEF resize_block, nxt
<1> HIDE DEF new, g
<1>6. g[new] = Header(h[b].size - (size + Hdr), FALSE, nxt, b)
  <2>1. new # nxt
    BY <1>1, <1>3, <1>4
  <2>2. QED
    BY <1>4, <1>5, <2>1, Zenon
<1>7. g[b] = Header(size, h[b].in_use, new, h[b].prev)
  <2>1. g[b] = [h[b] EXCEPT !.size = size, !.next = new]
    BY <1>1, <1>4, <1>5 DEF Record, Header
  <2>2. QED
    BY <1>1, <2>1 DEF Record, Header
<1>8. ASSUME nxt # 0
      PROVE  /\ nxt \in DOMAIN h \ {b}
             /\ g[nxt] = Header(h[nxt].size, h[nxt].in_use, h[nxt].next, new)
  <2>1. nxt \in DOMAIN h /\ nxt # new /\ nxt # b
    BY <1>1, <1>3, <1>8
  <2>2. g[nxt] = [h[nxt] EXCEPT !.prev = new]
    BY <1>5, <1>8, <2>1, Zenon
  <2>3. h[nxt] \in Record(DOMAIN h)
    BY <2>1 DEF Sound, Typed
  <2>4. QED
    BY <2>1, <2>2, <2>3 DEF Record, Header
<1>9. ASSUME NEW a \in DOMAIN h \ {b}, a # nxt \/ nxt = 0
      PROVE  g[a] = h[a]
  BY <1>3, <1>5, <1>9, Zenon
<1>10. DOMAIN g = DOMAIN h \cup {new} /\ g = [a \in DOMAIN g |-> g[a]]
  <2> DEFINE header(a) ==
               CASE a = new -> Header(h[b].size - (size + Hdr), FALSE, nxt, b)
                 [] a = b   -> [h[b] EXCEPT !.size = size, !.next = new]
                 [] a = nxt /\ nxt # 0 -> [h[a] EXCEPT !.prev = new]
                 [] OTHER   -> h[a]
  <2>1. g = [a \in DOMAIN h \cup {new} |-> header(a)]
    BY <1>5, Zenon
  <2> HIDE DEF header
  <2>2. QED
    BY <2>1
<1>11. Splits(h, b, size, new, g)
  BY <1>2, <1>3, <1>4, <1>6, <1>7, <1>8, <1>9, <1>10 DEF Splits, new, nxt
<1>12. QED
  BY <1>11 DEF new, g

(* The same, field by field.                                               *)
SplitsFields(h, b, size, new, nxt, g) ==
  /\ new \in Nat /\ new # 0 /\ new \notin DOMAIN h /\ DOMAIN g = DOMAIN h \cup {new}
  /\ nxt # 0 => nxt \in DOMAIN h \ {b}
  /\ g[new].size = h[b].size - (size + Hdr) /\ g[new].in_use = FALSE
  /\ g[new].next = nxt /\ g[new].prev = b
  /\ g[b].size = size /\ g[b].next = new /\ g[b].in_use = h[b].in_use
  /\ \A a \in DOMAIN h \ {b} : /\ g[a].size = h[a].size /\ g[a].next = h[a].next
                               /\ g[a].in_use = h[a].in_use
  /\ nxt # 0 => g[nxt].prev = new
  /\ \A a \in DOMAIN h : a # nxt \/ nxt = 0 => g[a].prev = h[a].prev
  /\ Typed(g)

LEMMA SplitFields ==
  ASSUME NEW h, Sound(h), NEW b \in DOMAIN h, NEW size \in Nat,
         h[b].size - size >= MinSplit,
         NEW new, NEW g, Splits(h, b, size, new, g),
         NEW nxt, nxt = h[b].next
  PROVE  SplitsFields(h, b, size, new, nxt, g)
<1>1. /\ new \in Nat /\ new # 0 /\ new \notin DOMAIN h /\ new # b
      /\ DOMAIN g = DOMAIN h \cup {new} /\ g = [a \in DOMAIN g |-> g[a]]
      /\ g[new] = Header(h[b].size - (size + Hdr), FALSE, nxt, b)
      /\ g[b] = Header(size, h[b].in_use, new, h[b].prev)
      /\ nxt # 0 => /\ nxt \in DOMAIN h \ {b}
                    /\ g[nxt] = Header(h[nxt].size, h[nxt].in_use, h[nxt].next, new)
      /\ \A a \in DOMAIN h \ {b} : a # nxt \/ nxt = 0 => g[a] = h[a]
  BY Zenon DEF Splits
<1>2. /\ g[new].size = h[b].size - (size + Hdr) /\ g[new].in_use = FALSE
      /\ g[new].next = nxt /\ g[new].prev = b
  BY <1>1 DEF Header
<1>3. /\ g[b].size = size /\ g[b].next = new /\ g[b].in_use = h[b].in_use
      /\ g[b].prev = h[b].prev
  BY <1>1 DEF Header
<1>4. ASSUME nxt # 0
      PROVE  /\ g[nxt].size = h[nxt].size /\ g[nxt].next = h[nxt].next
             /\ g[nxt].in_use = h[nxt].in_use /\ g[nxt].prev = new
  BY <1>1, <1>4 DEF Header
<1>5. \A a \in DOMAIN h \ {b} : /\ g[a].size = h[a].size /\ g[a].next = h[a].next
                                /\ g[a].in_use = h[a].in_use
  <2>1. TAKE a \in DOMAIN h \ {b}
  <2>2. CASE a = nxt /\ nxt # 0
    BY <1>4, <2>2, Zenon
  <2>3. CASE a # nxt \/ nxt = 0
    BY <1>1, <2>3, Zenon
  <2>4. QED
    BY <2>2, <2>3
<1>6. \A a \in DOMAIN h : a # nxt \/ nxt = 0 => g[a].prev = h[a].prev
  BY <1>1, <1>3, Zenon
<1>7. Typed(g)
  <2>1. DOMAIN g \subseteq Nat
    BY <1>1 DEF Sound, Typed
  <2>2. ASSUME NEW a \in DOMAIN g
        PROVE  g[a] \in Record(DOMAIN g)
    <3>1. \A x \in DOMAIN h : h[x] \in Record(DOMAIN h)
      BY DEF Sound, Typed
    <3>2. /\ h[b].size \in Nat /\ h[b].in_use \in BOOLEAN
          /\ h[b].next \in DOMAIN h \cup {0} /\ h[b].prev \in DOMAIN h \cup {0}
      BY <3>1 DEF Record
    <3>3. CASE a = new
      <4>1. h[b].size - (size + Hdr) \in Nat
        BY <3>2 DEF Hdr, MinSplit
      <4>2. QED
        BY <1>1, <1>2, <3>2, <3>3, <4>1 DEF Record, Header
    <3>4. CASE a = b
      BY <1>1, <3>2, <3>4 DEF Record, Header
    <3>5. CASE a = nxt /\ nxt # 0
      <4>1. /\ h[nxt].size \in Nat /\ h[nxt].in_use \in BOOLEAN
            /\ h[nxt].next \in DOMAIN h \cup {0}
        BY <1>1, <3>1, <3>5 DEF Record
      <4>2. QED
        BY <1>1, <3>5, <4>1 DEF Record, Header
    <3>6. CASE a \in DOMAIN h \ {b} /\ (a # nxt \/ nxt = 0)
      BY <1>1, <3>1, <3>6 DEF Record
    <3>7. QED
      BY <1>1, <3>3, <3>4, <3>5, <3>6
  <2>3. QED
    BY <1>1, <2>1, <2>2 DEF Typed
<1>8. QED
  BY <1>1, <1>2, <1>3, <1>4, <1>5, <1>6, <1>7 DEF SplitsFields

LEMMA SplitSound ==
  ASSUME NEW h, Sound(h), NEW b \in DOMAIN h, NEW size \in Nat,
         h[b].size - size >= MinSplit,
         NEW new, NEW g, Splits(h, b, size, new, g)
  PROVE  /\ Sound(g)
         /\ \A pages : Within(h, pages) => Within(g, pages)
<1>a. PICK nxt : nxt = h[b].next
  OBVIOUS
<1>b. SplitsFields(h, b, size, new, nxt, g)
  BY <1>a, SplitFields
<1> USE <1>b DEF SplitsFields
<1>c. \A a \in DOMAIN h : /\ a \in Nat /\ h[a].size \in Nat
                          /\ h[a].next \in DOMAIN h \cup {0} /\ h[a].prev \in DOMAIN h \cup {0}
                          /\ h[a].next # 0 => h[a].next # a /\ h[h[a].next].prev = a
                          /\ h[a].prev # 0 => a # 0 /\ h[a].prev # a /\ h[h[a].prev].next = a
  BY SoundBlock
<1>d. new = b + Hdr + size
  BY DEF Splits
<1>1. /\ EndIn(g, new) = EndIn(h, b) /\ EndIn(g, b) = new
      /\ \A a \in DOMAIN h \ {b} : EndIn(g, a) = EndIn(h, a)
      /\ b < new /\ new < EndIn(h, b)
      /\ \A a \in DOMAIN h : EndIn(h, a) \in Nat
  BY <1>c, <1>d DEF EndIn, Hdr, MinSplit
<1>2. Apart(g)
  <2>1. \A x, y \in DOMAIN h : x < y => EndIn(h, x) <= y
    BY DEF Sound, Apart
  <2>2. SUFFICES ASSUME NEW x \in DOMAIN g, NEW y \in DOMAIN g, x < y
                 PROVE  EndIn(g, x) <= y
    BY DEF Apart
  <2>3. CASE x = new
    <3>1. y \in DOMAIN h /\ b < y
      BY <1>c, <1>1, <2>2, <2>3
    <3>2. QED
      BY <1>1, <2>1, <2>3, <3>1
  <2>4. CASE y = new
    <3>1. x \in DOMAIN h
      BY <2>2, <2>4
    <3>2. CASE x = b
      BY <1>1, <2>4, <3>2
    <3>3. CASE x < b
      BY <1>c, <1>1, <2>1, <2>4, <3>1, <3>3
    <3>4. CASE b < x
      <4>1. EndIn(h, b) <= x
        BY <2>1, <3>1, <3>4
      <4>2. QED
        BY <1>c, <1>1, <2>2, <2>4, <3>1, <4>1
    <3>5. x = b \/ x < b \/ b < x
      BY <1>c, <3>1
    <3>6. QED
      BY <3>2, <3>3, <3>4, <3>5
  <2>5. CASE x \in DOMAIN h /\ y \in DOMAIN h
    <3>1. EndIn(h, x) <= y
      BY <2>1, <2>2, <2>5
    <3>2. QED
      BY <1>c, <1>1, <2>5, <3>1
  <2>6. QED
    BY <2>3, <2>4, <2>5
<1>3. Chained(g)
  <2>1. ASSUME NEW a \in DOMAIN g, g[a].next # 0
        PROVE  g[g[a].next].prev = a
    <3>1. CASE a = new
      BY <2>1, <3>1
    <3>2. CASE a = b
      BY <2>1, <3>2
    <3>3. CASE a \in DOMAIN h \ {b}
      <4>1. g[a].next = h[a].next /\ h[h[a].next].prev = a /\ h[a].next \in DOMAIN h
        BY <1>c, <2>1, <3>3
      <4>2. h[a].next # nxt
        BY <1>a, <1>c, <2>1, <3>3, <4>1
      <4>3. QED
        BY <4>1, <4>2
    <3>4. QED
      BY <3>1, <3>2, <3>3
  <2>2. ASSUME NEW a \in DOMAIN g, g[a].prev # 0
        PROVE  g[g[a].prev].next = a
    <3>1. CASE a = new
      BY <2>2, <3>1
    <3>2. CASE a = nxt /\ nxt # 0
      BY <2>2, <3>2
    <3>3. CASE a \in DOMAIN h /\ (a # nxt \/ nxt = 0)
      <4>1. g[a].prev = h[a].prev /\ h[h[a].prev].next = a /\ h[a].prev \in DOMAIN h /\ a # 0
        BY <1>c, <2>2, <3>3
      <4>2. h[a].prev # b
        BY <1>a, <3>3, <4>1
      <4>3. QED
        BY <4>1, <4>2
    <3>4. QED
      BY <3>1, <3>2, <3>3
  <2>3. QED
    BY <2>1, <2>2 DEF Chained
<1>4. Acyclic(g)
  <2>1. PICK rank : Ranks(h, rank)
    BY DEF Sound, Acyclic
  <2> DEFINE doubled == [a \in DOMAIN g |-> IF a = new THEN 2 * rank[b] + 1 ELSE 2 * rank[a]]
  <2>2. doubled \in [DOMAIN g -> Nat]
    BY <2>1 DEF Ranks
  <2>3. ASSUME NEW a \in DOMAIN g, g[a].next # 0
        PROVE  doubled[a] < doubled[g[a].next]
    <3>1. \A x \in DOMAIN h : rank[x] \in Nat /\ (h[x].next # 0 => rank[x] < rank[h[x].next])
      BY <2>1 DEF Ranks
    <3>2. CASE a = new
      BY <1>a, <2>3, <3>1, <3>2
    <3>3. CASE a = b
      BY <2>3, <3>1, <3>3
    <3>4. CASE a \in DOMAIN h \ {b}
      BY <1>c, <2>3, <3>1, <3>4
    <3>5. QED
      BY <3>2, <3>3, <3>4
  <2> HIDE DEF doubled
  <2>4. QED
    BY <2>2, <2>3 DEF Acyclic, Ranks
<1>5. ASSUME NEW pages, Within(h, pages)
      PROVE  Within(g, pages)
  <2>1. SUFFICES ASSUME NEW x \in DOMAIN g, NEW a \in x..(EndIn(g, x) - 1)
                 PROVE  Page(a) \in pages
    BY DEF Within
  <2>2. \A y \in DOMAIN h : a \in y..(EndIn(h, y) - 1) => Page(a) \in pages
    BY <1>5 DEF Within
  <2>3. CASE x = new \/ x = b
    <3>1. a \in b..(EndIn(h, b) - 1)
      BY <1>c, <1>1, <2>1, <2>3
    <3>2. QED
      BY <2>2, <3>1
  <2>4. CASE x \in DOMAIN h \ {b}
    BY <1>1, <2>1, <2>2, <2>4
  <2>5. QED
    BY <2>3, <2>4
<1>6. ZeroIsFirst(g)
  BY <1>b DEF Sound, ZeroIsFirst
<1>7. QED
  BY <1>2, <1>3, <1>4, <1>5, <1>6 DEF Sound

(* Only sizes and links count.                                             *)
LEMMA SameShapeSound ==
  ASSUME NEW h, Sound(h), NEW g, Typed(g), DOMAIN g = DOMAIN h,
         \A a \in DOMAIN h : /\ g[a].size = h[a].size /\ g[a].next = h[a].next
                             /\ g[a].prev = h[a].prev
  PROVE  /\ Sound(g)
         /\ \A pages : Within(h, pages) => Within(g, pages)
<1>1. \A a \in DOMAIN h : EndIn(g, a) = EndIn(h, a)
  BY DEF EndIn
<1>2. Apart(g)
  BY <1>1, Zenon DEF Sound, Apart
<1>3. Chained(g)
  <2>1. \A a \in DOMAIN h : /\ h[a].next \in DOMAIN h \cup {0} /\ h[a].prev \in DOMAIN h \cup {0}
                            /\ h[a].next # 0 => h[h[a].next].prev = a
                            /\ h[a].prev # 0 => h[h[a].prev].next = a
    BY SoundBlock
  <2>2. QED
    BY <2>1 DEF Chained
<1>4. ZeroIsFirst(g)
  BY DEF Sound, ZeroIsFirst
<1>5. Acyclic(g)
  BY Zenon DEF Sound, Acyclic, Ranks
<1>6. ASSUME NEW pages, Within(h, pages)
      PROVE  Within(g, pages)
  BY <1>1, <1>6, Zenon DEF Within
<1>7. QED
  BY <1>2, <1>3, <1>4, <1>5, <1>6 DEF Sound

(* g differs from h in that block b is in use.                             *)
Marks(h, b, g) ==
  /\ Sound(g) /\ \A pages : Within(h, pages) => Within(g, pages)
  /\ DOMAIN g = DOMAIN h /\ g[b].in_use
  /\ \A a \in DOMAIN h : /\ g[a].size = h[a].size /\ g[a].next = h[a].next
                         /\ g[a].prev = h[a].prev
                         /\ a # b => g[a].in_use = h[a].in_use

LEMMA MarkSound ==
  ASSUME NEW h, Sound(h), NEW b \in DOMAIN h, NEW g, g = [h EXCEPT ![b].in_use = TRUE]
  PROVE  Marks(h, b, g)
<1>1. h[b] \in Record(DOMAIN h)
  BY SoundBlock
<1>2. /\ DOMAIN g = DOMAIN h /\ g[b] = [h[b] EXCEPT !.in_use = TRUE]
      /\ \A a \in DOMAIN h : a # b => g[a] = h[a]
  BY DEF Sound, Typed
<1>3. /\ g[b].size = h[b].size /\ g[b].next = h[b].next /\ g[b].prev = h[b].prev
      /\ g[b].in_use = TRUE /\ g[b] \in Record(DOMAIN h)
  BY <1>1, <1>2 DEF Record
<1>4. Typed(g)
  BY <1>2, <1>3 DEF Sound, Typed
<1>5. \A a \in DOMAIN h : /\ g[a].size = h[a].size /\ g[a].next = h[a].next
                          /\ g[a].prev = h[a].prev
                          /\ a # b => g[a].in_use = h[a].in_use
  BY <1>2, <1>3, Zenon
<1>6. Sound(g) /\ \A pages : Within(h, pages) => Within(g, pages)
  BY <1>2, <1>4, <1>5, SameShapeSound
<1>7. QED
  BY <1>2, <1>3, <1>5, <1>6 DEF Marks

(* What kmalloc does to the block it found.                                *)
Carves(h, b, size, g) ==
  /\ Sound(g) /\ \A pages : Within(h, pages) => Within(g, pages)
  /\ DOMAIN h \subseteq DOMAIN g
  /\ g[b].in_use /\ g[b].size >= size
  /\ \A a \in DOMAIN h \ {b} : g[a].in_use = h[a].in_use /\ g[a].size = h[a].size
  /\ \A a \in DOMAIN g \ DOMAIN h : ~g[a].in_use
  /\ \A a \in DOMAIN h : h[a].prev = 0 => g[a].prev = 0
  /\ \A a \in DOMAIN g : g[a].prev = 0 => a \in DOMAIN h /\ h[a].prev = 0

LEMMA CarveSound ==
  ASSUME NEW h, Sound(h), NEW b \in DOMAIN h, b # 0, NEW size \in Nat, h[b].size >= size
  PROVE  Carves(h, b, size, Carve(h, b, size))
<1>a. h[b].size \in Nat /\ (h[b].next # 0 => h[h[b].next].prev = b)
  BY SoundBlock
<1>1. CASE h[b].size - size >= MinSplit
  <2>1. PICK new, cut : cut = resize_block(h, b, size) /\ Splits(h, b, size, new, cut)
    BY <1>1, ResizeSplits
  <2>2. PICK nxt : nxt = h[b].next
    OBVIOUS
  <2>3. SplitsFields(h, b, size, new, nxt, cut)
    BY <1>1, <2>1, <2>2, SplitFields
  <2>4. Sound(cut) /\ \A pages : Within(h, pages) => Within(cut, pages)
    BY <1>1, <2>1, SplitSound
  <2>5. PICK g : g = [cut EXCEPT ![b].in_use = TRUE]
    OBVIOUS
  <2>6. g = Carve(h, b, size)
    BY <1>1, <2>1, <2>5 DEF Carve
  <2>7. b \in DOMAIN cut
    BY <2>3 DEF SplitsFields
  <2>8. Marks(cut, b, g)
    BY <2>4, <2>5, <2>7, MarkSound
  <2>9. Carves(h, b, size, g)
    <3>1. g[b].size >= size
      BY <2>3, <2>7, <2>8 DEF SplitsFields, Marks
    <3>2. \A a \in DOMAIN g \ DOMAIN h : ~g[a].in_use
      BY <2>3, <2>8 DEF SplitsFields, Marks
    <3>3. \A a \in DOMAIN h : h[a].prev = 0 => g[a].prev = 0
      BY <1>a, <2>2, <2>3, <2>8 DEF SplitsFields, Marks
    <3>4. \A a \in DOMAIN h \ {b} : g[a].in_use = h[a].in_use /\ g[a].size = h[a].size
      BY <2>3, <2>8 DEF SplitsFields, Marks
    <3>5. DOMAIN h \subseteq DOMAIN g
      BY <2>3, <2>8 DEF SplitsFields, Marks
    <3>6. \A a \in DOMAIN g : g[a].prev = 0 => a \in DOMAIN h /\ h[a].prev = 0
      BY <2>2, <2>3, <2>8 DEF SplitsFields, Marks
    <3>7. QED
      BY <2>4, <2>8, <3>1, <3>2, <3>3, <3>4, <3>5, <3>6 DEF Carves, Marks
  <2>10. QED
    BY <2>6, <2>9
<1>2. CASE ~(h[b].size - size >= MinSplit)
  <2>1. PICK g : g = [h EXCEPT ![b].in_use = TRUE]
    OBVIOUS
  <2>2. g = Carve(h, b, size)
    BY <1>2, <2>1 DEF Carve
  <2>3. Marks(h, b, g)
    BY <2>1, MarkSound
  <2>4. Carves(h, b, size, g)
    BY <2>3 DEF Carves, Marks
  <2>5. QED
    BY <2>2, <2>4
<1>3. QED
  BY <1>1, <1>2

------------------------------------------------------------------------------
(* A fresh page behind the last block. *)

LEMMA PageOfBlock ==
  ASSUME NEW a \in Nat, NEW p \in Nat, p % PageSize = 0, p <= a, a < p + PageSize
  PROVE  Page(a) = p
<1>1. PICK q \in Nat : p = q * 4096
  <2>1. p = (p \div 4096) * 4096 /\ p \div 4096 \in Nat
    BY DEF PageSize
  <2>2. QED
    BY <2>1
<1>2. a % 4096 = a - q * 4096
  BY <1>1 DEF PageSize
<1>3. QED
  BY <1>1, <1>2 DEF Page, PageSize

(* No block reaches into a page the heap does not have.                    *)
LEMMA FreshPageApart ==
  ASSUME NEW h, Sound(h), NEW pages, Within(h, pages),
         NEW p \in Nat, p # 0, p % PageSize = 0, p \notin pages,
         NEW b \in DOMAIN h
  PROVE  b # p /\ (b < p => EndIn(h, b) <= p) /\ (p < b => p + PageSize <= b)
<1>1. b \in Nat /\ EndIn(h, b) \in Nat /\ b < EndIn(h, b)
  BY SoundBlock DEF EndIn, Hdr
<1>2. \A a \in b..(EndIn(h, b) - 1) : Page(a) # p
  BY DEF Within
<1>3. Page(p) = p
  BY PageOfBlock DEF PageSize
<1>4. b # p /\ (b < p => EndIn(h, b) <= p)
  <2>1. ASSUME b <= p, ~(EndIn(h, b) <= p) PROVE FALSE
    <3>1. p \in b..(EndIn(h, b) - 1)
      BY <1>1, <2>1
    <3>2. QED
      BY <1>2, <1>3, <3>1
  <2>2. QED
    BY <1>1, <2>1
<1>5. ASSUME p < b
      PROVE  p + PageSize <= b
  <2>1. ASSUME b < p + PageSize PROVE FALSE
    <3>1. Page(b) = p
      BY <1>1, <1>5, <2>1, PageOfBlock
    <3>2. b \in b..(EndIn(h, b) - 1)
      BY <1>1
    <3>3. QED
      BY <1>2, <3>1, <3>2
  <2>2. QED
    BY <1>1, <2>1 DEF PageSize
<1>6. QED
  BY <1>4, <1>5

(* g differs from h in that a page p, one free block, follows block old.   *)
Links(h, old, p, g) ==
  /\ DOMAIN g = DOMAIN h \cup {p}
  /\ g[p].size = MaxSize /\ g[p].in_use = FALSE /\ g[p].next = 0 /\ g[p].prev = old
  /\ g[old].next = p
  /\ \A a \in DOMAIN h : /\ g[a].size = h[a].size /\ g[a].prev = h[a].prev
                         /\ g[a].in_use = h[a].in_use
                         /\ a # old => g[a].next = h[a].next
  /\ Typed(g)

LEMMA LinkFields ==
  ASSUME NEW h, Sound(h), NEW old \in DOMAIN h, NEW p \in Nat, p \notin DOMAIN h,
         NEW g, g = [a \in DOMAIN h \cup {p} |->
                       CASE a = p   -> Header(MaxSize, FALSE, 0, old)
                         [] a = old -> [h[a] EXCEPT !.next = p]
                         [] OTHER   -> h[a]]
  PROVE  Links(h, old, p, g)
<1>1. p # old /\ DOMAIN g = DOMAIN h \cup {p}
  BY Zenon
<1>2. g[p] = Header(MaxSize, FALSE, 0, old)
  BY <1>1, Zenon
<1>3. g[old] = [h[old] EXCEPT !.next = p]
  BY <1>1, Zenon
<1>4. \A a \in DOMAIN h : a # old => g[a] = h[a]
  BY Zenon
<1>5. \A a \in DOMAIN h : h[a] \in Record(DOMAIN h)
  BY DEF Sound, Typed
<1>6. /\ g[p].size = MaxSize /\ g[p].in_use = FALSE /\ g[p].next = 0 /\ g[p].prev = old
  BY <1>2 DEF Header
<1>7. /\ g[old].size = h[old].size /\ g[old].prev = h[old].prev
      /\ g[old].in_use = h[old].in_use /\ g[old].next = p
      /\ g[old] \in Record(DOMAIN h \cup {p})
  BY <1>3, <1>5 DEF Record
<1>8. Typed(g)
  <2>1. g[p] \in Record(DOMAIN h \cup {p})
    BY <1>2 DEF Header, Record, MaxSize, PageSize, Hdr
  <2>2. \A a \in DOMAIN h : a # old => g[a] \in Record(DOMAIN h \cup {p})
    BY <1>4, <1>5 DEF Record
  <2>3. \A a \in DOMAIN g : g[a] \in Record(DOMAIN g)
    BY <1>1, <1>7, <2>1, <2>2
  <2> DEFINE header(a) == CASE a = p   -> Header(MaxSize, FALSE, 0, old)
                            [] a = old -> [h[a] EXCEPT !.next = p]
                            [] OTHER   -> h[a]
  <2>4. g = [a \in DOMAIN h \cup {p} |-> header(a)]
    BY Zenon
  <2> HIDE DEF header
  <2>5. g = [a \in DOMAIN g |-> g[a]]
    BY <2>4
  <2>6. DOMAIN g \subseteq Nat
    BY <1>1 DEF Sound, Typed
  <2>7. QED
    BY <2>3, <2>5, <2>6 DEF Typed
<1>9. QED
  BY <1>1, <1>4, <1>6, <1>7, <1>8, Zenon DEF Links

LEMMA LinkSound ==
  ASSUME NEW h, Sound(h), NEW pages, Within(h, pages),
         NEW p \in Nat, p # 0, p % PageSize = 0, p \notin pages,
         NEW old \in DOMAIN h, old # 0 => h[old].next = 0,
         NEW g, Links(h, old, p, g)
  PROVE  Sound(g) /\ Within(g, pages \cup {p})
<1> USE DEF Links
<1>1. \A a \in DOMAIN h : a \in Nat /\ a # p /\ (a < p => EndIn(h, a) <= p)
                          /\ (p < a => p + PageSize <= a)
  BY FreshPageApart DEF Sound, Typed
<1>2. EndIn(g, p) = p + PageSize /\ \A a \in DOMAIN h : EndIn(g, a) = EndIn(h, a)
  BY DEF EndIn, MaxSize, PageSize, Hdr
<1>3. \A a \in DOMAIN h : /\ h[a].next \in DOMAIN h \cup {0} /\ h[a].prev \in DOMAIN h \cup {0}
                          /\ h[a].next # 0 => h[a].next # a /\ h[h[a].next].prev = a
                          /\ h[a].prev # 0 => a # 0 /\ h[a].prev # a /\ h[h[a].prev].next = a
  BY SoundBlock
<1>4. Apart(g)
  <2>1. \A x, y \in DOMAIN h : x < y => EndIn(h, x) <= y
    BY DEF Sound, Apart
  <2>2. \A x, y \in DOMAIN g : x < y => EndIn(g, x) <= y
    BY <1>1, <1>2, <2>1
  <2>3. QED
    BY <2>2 DEF Apart
<1>5. Chained(g)
  <2>1. ASSUME NEW a \in DOMAIN g, g[a].next # 0
        PROVE  g[g[a].next].prev = a
    BY <1>1, <1>3, <2>1
  <2>2. ASSUME NEW a \in DOMAIN g, g[a].prev # 0
        PROVE  g[g[a].prev].next = a
    BY <1>1, <1>3, <2>2
  <2>3. QED
    BY <2>1, <2>2 DEF Chained
<1>6. ZeroIsFirst(g)
  BY DEF Sound, ZeroIsFirst
<1>7. Acyclic(g)
  <2>1. PICK rank : Ranks(h, rank)
    BY DEF Sound, Acyclic
  <2> DEFINE longer == [a \in DOMAIN g |-> IF a = p THEN rank[old] + 1 ELSE rank[a]]
  <2>2. longer \in [DOMAIN g -> Nat]
    BY <2>1 DEF Ranks
  <2>3. ASSUME NEW a \in DOMAIN g, g[a].next # 0
        PROVE  longer[a] < longer[g[a].next]
    <3>1. \A x \in DOMAIN h : rank[x] \in Nat /\ (h[x].next # 0 => rank[x] < rank[h[x].next])
      BY <2>1 DEF Ranks
    <3>2. CASE a = old
      BY <1>1, <2>3, <3>1, <3>2
    <3>3. CASE a \in DOMAIN h \ {old}
      BY <1>1, <1>3, <2>3, <3>1, <3>3
    <3>4. QED
      BY <2>3, <3>2, <3>3
  <2> HIDE DEF longer
  <2>4. QED
    BY <2>2, <2>3 DEF Acyclic, Ranks
<1>8. Within(g, pages \cup {p})
  <2>1. SUFFICES ASSUME NEW x \in DOMAIN g, NEW a \in x..(EndIn(g, x) - 1)
                 PROVE  Page(a) \in pages \cup {p}
    BY DEF Within
  <2>2. CASE x = p
    <3>1. a \in Nat /\ p <= a /\ a < p + PageSize
      BY <1>2, <2>1, <2>2 DEF PageSize
    <3>2. QED
      BY <3>1, PageOfBlock
  <2>3. CASE x \in DOMAIN h
    BY <1>2, <2>1, <2>3 DEF Within
  <2>4. QED
    BY <2>1, <2>2, <2>3
<1>9. QED
  BY <1>4, <1>5, <1>6, <1>7, <1>8 DEF Sound

------------------------------------------------------------------------------
(* Joining blocks. *)

(* The blocks from first to last follow each other on the list and in      *)
(* memory; gone are those but the first.                                   *)
Run(h, first, last, gone) ==
  /\ first \in DOMAIN h \ gone /\ last \in DOMAIN h /\ gone \subseteq DOMAIN h
  /\ gone = {} => first = last
  /\ gone # {} => h[first].next \in gone
  /\ first <= last
  /\ \A a \in gone : first <= a /\ EndIn(h, a) <= EndIn(h, last)
  /\ EndIn(h, first) <= EndIn(h, last)
  /\ \A x \in first..(EndIn(h, last) - 1) :
       \E a \in gone \cup {first} : x \in a..(EndIn(h, a) - 1)
  /\ h[last].next # 0 => h[last].next \in DOMAIN h \ (gone \cup {first})
  /\ h[first].prev \notin gone
  /\ \A a \in DOMAIN h \ (gone \cup {first}) :
       /\ h[a].next \notin gone
       /\ h[a].next # 0 => h[a].next # h[last].next
       /\ h[a].prev \in gone \/ h[a].prev = last => a = h[last].next /\ a # 0
  /\ \E rank : Ranks(h, rank) /\ rank[first] <= rank[last]

(* g differs from h in that they have become one free block.               *)
Joins(h, first, last, gone, nxt, g) ==
  /\ DOMAIN g = DOMAIN h \ gone
  /\ g[first].size = EndIn(h, last) - first - Hdr /\ g[first].in_use = FALSE
  /\ g[first].next = nxt /\ g[first].prev = h[first].prev
  /\ nxt # 0 => nxt \in DOMAIN h \ (gone \cup {first}) /\ g[nxt].prev = first
  /\ \A a \in DOMAIN h \ (gone \cup {first}) :
       /\ g[a].size = h[a].size /\ g[a].in_use = h[a].in_use /\ g[a].next = h[a].next
       /\ a # nxt \/ nxt = 0 => g[a].prev = h[a].prev
  /\ Typed(g)

JoinedHeaders(h, first, last, gone, nxt) ==
  [a \in DOMAIN h \ gone |->
     CASE a = first -> Header(EndIn(h, last) - first - Hdr, FALSE, nxt, h[first].prev)
       [] a = nxt /\ nxt # 0 /\ gone # {} -> [h[a] EXCEPT !.prev = first]
       [] OTHER -> h[a]]

LEMMA JoinFields ==
  ASSUME NEW h, Sound(h), NEW first, NEW last, NEW gone, Run(h, first, last, gone),
         NEW nxt, nxt = h[last].next
  PROVE  Joins(h, first, last, gone, nxt, JoinedHeaders(h, first, last, gone, nxt))
<1> PICK g : g = JoinedHeaders(h, first, last, gone, nxt)
  OBVIOUS
<1>1. /\ first \in DOMAIN h \ gone /\ last \in DOMAIN h
      /\ nxt # 0 => nxt \in DOMAIN h \ (gone \cup {first})
      /\ gone = {} => first = last
  BY DEF Run
<1>2. \A a \in DOMAIN h : /\ a \in Nat /\ h[a] \in Record(DOMAIN h)
                          /\ h[a].size \in Nat /\ h[a].in_use \in BOOLEAN
                          /\ h[a].next \in DOMAIN h \cup {0} /\ h[a].prev \in DOMAIN h \cup {0}
                          /\ h[a].next # 0 => h[h[a].next].prev = a
  BY SoundBlock
<1>3. g = [a \in DOMAIN h \ gone |->
             CASE a = first -> Header(EndIn(h, last) - first - Hdr, FALSE, nxt, h[first].prev)
               [] a = nxt /\ nxt # 0 /\ gone # {} -> [h[a] EXCEPT !.prev = first]
               [] OTHER -> h[a]]
  BY Zenon DEF JoinedHeaders
<1>4. DOMAIN g = DOMAIN h \ gone
  BY <1>3, Zenon
<1>5. g[first] = Header(EndIn(h, last) - first - Hdr, FALSE, nxt, h[first].prev)
  <2>1. ~(first = nxt /\ nxt # 0 /\ gone # {})
    BY <1>1
  <2>2. QED
    BY <1>1, <1>3, <2>1, Zenon
<1>6. ASSUME NEW a \in DOMAIN h \ (gone \cup {first}), a # nxt \/ nxt = 0 \/ gone = {}
      PROVE  g[a] = h[a]
  BY <1>3, <1>6, Zenon
<1>7. ASSUME nxt # 0, gone # {}
      PROVE  g[nxt] = [h[nxt] EXCEPT !.prev = first]
  BY <1>1, <1>3, <1>7, Zenon
<1>8. /\ g[first].size = EndIn(h, last) - first - Hdr /\ g[first].in_use = FALSE
      /\ g[first].next = nxt /\ g[first].prev = h[first].prev
  BY <1>5 DEF Header
<1>9. ASSUME nxt # 0
      PROVE  /\ g[nxt].prev = first /\ g[nxt].size = h[nxt].size
             /\ g[nxt].in_use = h[nxt].in_use /\ g[nxt].next = h[nxt].next
  <2>1. CASE gone = {}
    BY <1>1, <1>2, <1>6, <1>9, <2>1
  <2>2. CASE gone # {}
    BY <1>1, <1>2, <1>7, <1>9, <2>2 DEF Record
  <2>3. QED
    BY <2>1, <2>2
<1>10. \A a \in DOMAIN h \ (gone \cup {first}) :
         /\ g[a].size = h[a].size /\ g[a].in_use = h[a].in_use /\ g[a].next = h[a].next
         /\ a # nxt \/ nxt = 0 => g[a].prev = h[a].prev
  BY <1>6, <1>9
<1>11. Typed(g)
  <2>1. /\ \A a \in DOMAIN h \ (gone \cup {first}) : h[a].next \notin gone
        /\ \A a \in DOMAIN h \ (gone \cup {first}) : h[a].prev \in gone => a = nxt /\ nxt # 0
        /\ h[first].prev \notin gone
    BY DEF Run
  <2>2. g[first] \in Record(DOMAIN g)
    <3>1. EndIn(h, first) <= EndIn(h, last) /\ first \in Nat
      BY <1>1, <1>2 DEF Run
    <3>2. EndIn(h, last) - first - Hdr \in Nat
      BY <1>1, <1>2, <3>1 DEF EndIn, Hdr
    <3>3. nxt \in DOMAIN g \cup {0} /\ h[first].prev \in DOMAIN g \cup {0}
      BY <1>1, <1>2, <1>4, <2>1
    <3>4. QED
      BY <1>5, <3>2, <3>3 DEF Record, Header
  <2>3. ASSUME NEW a \in DOMAIN h \ (gone \cup {first})
        PROVE  g[a] \in Record(DOMAIN g)
    <3>1. /\ h[a].size \in Nat /\ h[a].in_use \in BOOLEAN
          /\ h[a].next \in DOMAIN g \cup {0}
          /\ h[a] \in Record(DOMAIN h)
      BY <1>2, <1>4, <2>1
    <3>2. CASE a = nxt /\ nxt # 0 /\ gone # {}
      <4>1. first \in DOMAIN g
        BY <1>1, <1>4
      <4>2. QED
        BY <1>7, <3>1, <3>2, <4>1 DEF Record
    <3>3. CASE a # nxt \/ nxt = 0 \/ gone = {}
      <4>1. h[a].prev \in DOMAIN g \cup {0}
        BY <1>2, <1>4, <2>1, <3>3
      <4>2. QED
        BY <1>6, <3>1, <3>3, <4>1 DEF Record
    <3>4. QED
      BY <3>2, <3>3
  <2> DEFINE header(a) ==
               CASE a = first -> Header(EndIn(h, last) - first - Hdr, FALSE, nxt, h[first].prev)
                 [] a = nxt /\ nxt # 0 /\ gone # {} -> [h[a] EXCEPT !.prev = first]
                 [] OTHER -> h[a]
  <2>4. g = [a \in DOMAIN h \ gone |-> header(a)]
    BY <1>3, Zenon
  <2> HIDE DEF header
  <2>5. g = [a \in DOMAIN g |-> g[a]]
    BY <2>4
  <2>6. DOMAIN g \subseteq Nat
    BY <1>2, <1>4
  <2>7. \A a \in DOMAIN g : g[a] \in Record(DOMAIN g)
    BY <1>4, <2>2, <2>3
  <2>8. QED
    BY <2>5, <2>6, <2>7 DEF Typed
<1>12. Joins(h, first, last, gone, nxt, g)
  BY <1>1, <1>4, <1>8, <1>9, <1>10, <1>11 DEF Joins
<1>13. QED
  BY <1>12

LEMMA JoinSound ==
  ASSUME NEW h, Sound(h), NEW first, NEW last, NEW gone, Run(h, first, last, gone),
         NEW nxt, nxt = h[last].next,
         NEW g, Joins(h, first, last, gone, nxt, g)
  PROVE  /\ Sound(g)
         /\ \A pages : Within(h, pages) => Within(g, pages)
<1> DEFINE others == DOMAIN h \ (gone \cup {first})
<1>1. \A a \in DOMAIN h : /\ a \in Nat /\ h[a].size \in Nat /\ EndIn(h, a) \in Nat
                          /\ a < EndIn(h, a)
                          /\ h[a].next \in DOMAIN h \cup {0} /\ h[a].prev \in DOMAIN h \cup {0}
                          /\ h[a].next # 0 => h[h[a].next].prev = a
                          /\ h[a].prev # 0 => a # 0 /\ h[a].prev # a /\ h[h[a].prev].next = a
  BY SoundBlock DEF EndIn, Hdr
<1>2. /\ first \in DOMAIN h \ gone /\ last \in DOMAIN h /\ gone \subseteq DOMAIN h
      /\ first <= last /\ EndIn(h, first) <= EndIn(h, last)
      /\ DOMAIN g = others \cup {first} /\ first \in Nat
  BY <1>1 DEF Run, Joins
<1>3. EndIn(g, first) = EndIn(h, last) /\ \A a \in others : EndIn(g, a) = EndIn(h, a)
  BY <1>1, <1>2 DEF Joins, EndIn, Hdr
<1>4. Apart(g)
  <2>1. \A x, y \in DOMAIN h : x < y => EndIn(h, x) <= y
    BY DEF Sound, Apart
  <2>2. \A x \in first..(EndIn(h, last) - 1) :
          \E a \in gone \cup {first} : x \in a..(EndIn(h, a) - 1)
    BY DEF Run
  <2>3. ASSUME NEW y \in others, first < y
        PROVE  EndIn(h, last) <= y
    <3>1. ASSUME y < EndIn(h, last) PROVE FALSE
      <4>1. PICK a \in gone \cup {first} : y \in a..(EndIn(h, a) - 1)
        BY <1>1, <1>2, <2>2, <2>3, <3>1
      <4>2. a \in DOMAIN h /\ a # y /\ a < y /\ y < EndIn(h, a)
        BY <1>1, <1>2, <4>1
      <4>3. EndIn(h, a) <= y
        BY <2>1, <2>3, <4>2
      <4>4. QED
        BY <1>1, <2>3, <4>2, <4>3
    <3>2. QED
      BY <1>1, <1>2, <3>1
  <2>4. ASSUME NEW x \in DOMAIN g, NEW y \in DOMAIN g, x < y
        PROVE  EndIn(g, x) <= y
    <3>1. CASE x = first
      BY <1>1, <1>2, <1>3, <2>3, <2>4, <3>1
    <3>2. CASE x \in others
      <4>1. x \in DOMAIN h /\ y \in DOMAIN h
        BY <1>2, <3>2
      <4>2. QED
        BY <1>3, <2>1, <2>4, <3>2, <4>1
    <3>3. QED
      BY <1>2, <3>1, <3>2
  <2>5. QED
    BY <2>4 DEF Apart
<1>a. /\ g[first].next = nxt /\ g[first].prev = h[first].prev
      /\ nxt # 0 => nxt \in others /\ g[nxt].prev = first
      /\ \A a \in others : /\ g[a].next = h[a].next
                           /\ a # nxt \/ nxt = 0 => g[a].prev = h[a].prev
  BY DEF Joins
<1>b. /\ h[first].prev \notin gone
      /\ \A a \in others :
           /\ h[a].next \notin gone
           /\ h[a].next # 0 => h[a].next # nxt
           /\ h[a].prev \in gone \/ h[a].prev = last => a = nxt /\ a # 0
      /\ gone = {} => first = last
  BY DEF Run
<1>5. Chained(g)
  <2>1. ASSUME NEW a \in DOMAIN g, g[a].next # 0
        PROVE  g[g[a].next].prev = a
    <3>1. CASE a = first
      BY <1>a, <2>1, <3>1
    <3>2. CASE a \in others
      <4>1. /\ g[a].next = h[a].next /\ h[h[a].next].prev = a
            /\ h[a].next \in DOMAIN h \ gone /\ h[a].next # nxt
        BY <1>1, <1>2, <1>a, <1>b, <2>1, <3>2
      <4>2. CASE h[a].next = first
        BY <1>a, <4>1, <4>2
      <4>3. CASE h[a].next # first
        BY <1>a, <4>1, <4>3
      <4>4. QED
        BY <4>2, <4>3
    <3>3. QED
      BY <1>2, <3>1, <3>2
  <2>2. ASSUME NEW a \in DOMAIN g, g[a].prev # 0
        PROVE  g[g[a].prev].next = a
    <3>1. CASE a = nxt /\ nxt # 0
      BY <1>a, <2>2, <3>1
    <3>2. CASE a = first
      <4>1. /\ g[a].prev = h[first].prev /\ h[h[first].prev].next = first
            /\ h[first].prev \in others
        BY <1>1, <1>2, <1>a, <1>b, <2>2, <3>2
      <4>2. QED
        BY <1>a, <3>2, <4>1
    <3>3. CASE a \in others /\ (a # nxt \/ nxt = 0)
      <4>1. /\ g[a].prev = h[a].prev /\ h[h[a].prev].next = a
            /\ h[a].prev \in DOMAIN h \ gone /\ h[a].prev # last
        BY <1>1, <1>2, <1>a, <1>b, <2>2, <3>3
      <4>2. h[a].prev # first
        <5>1. gone # {} => h[first].next \in gone
          BY DEF Run
        <5>2. QED
          BY <1>b, <3>3, <4>1, <5>1
      <4>3. QED
        BY <1>a, <4>1, <4>2
    <3>4. QED
      BY <1>2, <3>1, <3>2, <3>3
  <2>3. QED
    BY <2>1, <2>2 DEF Chained

<1>6. ZeroIsFirst(g)
  BY <1>1, <1>2, <1>a DEF Sound, ZeroIsFirst
<1>7. Acyclic(g)
  <2>1. PICK rank : Ranks(h, rank) /\ rank[first] <= rank[last]
    BY DEF Run
  <2> DEFINE fewer == [a \in DOMAIN g |-> rank[a]]
  <2>2. \A x \in DOMAIN h : rank[x] \in Nat /\ (h[x].next # 0 => rank[x] < rank[h[x].next])
    BY <2>1 DEF Ranks
  <2>3. fewer \in [DOMAIN g -> Nat]
    BY <1>2, <2>2
  <2>4. ASSUME NEW a \in DOMAIN g, g[a].next # 0
        PROVE  fewer[a] < fewer[g[a].next]
    <3>1. CASE a = first
      <4>1. nxt \in DOMAIN g /\ g[a].next = nxt /\ rank[last] < rank[nxt]
        BY <1>2, <1>a, <2>2, <2>4, <3>1
      <4>2. rank[first] < rank[nxt]
        BY <1>2, <2>1, <2>2, <4>1
      <4>3. QED
        BY <3>1, <4>1, <4>2
    <3>2. CASE a \in others
      BY <1>1, <1>2, <1>a, <1>b, <2>2, <2>4, <3>2
    <3>3. QED
      BY <1>2, <3>1, <3>2
  <2> HIDE DEF fewer
  <2>5. QED
    BY <2>3, <2>4 DEF Acyclic, Ranks
<1>8. ASSUME NEW pages, Within(h, pages)
      PROVE  Within(g, pages)
  <2>1. SUFFICES ASSUME NEW x \in DOMAIN g, NEW a \in x..(EndIn(g, x) - 1)
                 PROVE  Page(a) \in pages
    BY DEF Within
  <2>2. \A y \in DOMAIN h : a \in y..(EndIn(h, y) - 1) => Page(a) \in pages
    BY <1>8 DEF Within
  <2>3. CASE x = first
    <3>1. PICK y \in gone \cup {first} : a \in y..(EndIn(h, y) - 1)
      BY <1>3, <2>1, <2>3 DEF Run
    <3>2. QED
      BY <1>2, <2>2, <3>1
  <2>4. CASE x \in others
    BY <1>2, <1>3, <2>1, <2>2, <2>4
  <2>5. QED
    BY <1>2, <2>3, <2>4
<1>9. Typed(g)
  BY DEF Joins
<1>10. QED
  BY <1>4, <1>5, <1>6, <1>7, <1>8, <1>9 DEF Sound


(* Blocks that follow each other on the list and touch in memory.          *)
Consecutive(h, first, last, gone) ==
  /\ first \in DOMAIN h \ {0} /\ gone \subseteq DOMAIN h \ {0, first}
  /\ last \in gone \cup {first}
  /\ gone = {} => first = last
  /\ gone # {} => h[first].next \in gone
  /\ \A x \in gone : h[x].prev \in gone \cup {first}
  /\ \A x \in gone \cup {first} : x # last => h[x].next \in gone
  /\ \A rank : Ranks(h, rank) =>
       \A x \in gone \cup {first} : rank[first] <= rank[x] /\ rank[x] <= rank[last]
  /\ \A x \in gone \cup {first} : first <= x /\ EndIn(h, x) <= EndIn(h, last)
  /\ \A x \in first..(EndIn(h, last) - 1) :
       \E a \in gone \cup {first} : x \in a..(EndIn(h, a) - 1)

LEMMA ConsecutiveRun ==
  ASSUME NEW h, Sound(h), NEW first, NEW last, NEW gone, Consecutive(h, first, last, gone)
  PROVE  Run(h, first, last, gone)
<1> DEFINE S == gone \cup {first}
<1>1. /\ first \in DOMAIN h /\ first # 0 /\ gone \subseteq DOMAIN h /\ 0 \notin gone
      /\ first \notin gone /\ last \in S /\ last \in DOMAIN h /\ last # 0
      /\ \A x \in gone : h[x].prev \in S
      /\ \A x \in S : x # last => h[x].next \in gone
  BY DEF Consecutive
<1>2. \A a \in DOMAIN h : /\ a \in Nat
                          /\ h[a].next \in DOMAIN h \cup {0} /\ h[a].prev \in DOMAIN h \cup {0}
                          /\ h[a].next # 0 => h[h[a].next].prev = a
                          /\ h[a].prev # 0 => a # 0 /\ h[h[a].prev].next = a
  BY SoundBlock
<1>3. PICK rank : Ranks(h, rank)
  BY DEF Sound, Acyclic
<1>4. /\ \A a \in DOMAIN h : rank[a] \in Int /\ (h[a].next # 0 => rank[a] < rank[h[a].next])
      /\ \A x \in S : rank[first] <= rank[x] /\ rank[x] <= rank[last]
  BY <1>3 DEF Ranks, Consecutive
<1>5. h[last].next # 0 => h[last].next \in DOMAIN h \ S
  <2>1. ASSUME h[last].next # 0, h[last].next \in S PROVE FALSE
    <3>1. rank[last] < rank[h[last].next] /\ rank[h[last].next] <= rank[last]
      BY <1>1, <1>4, <2>1
    <3>2. rank[last] \in Int /\ rank[h[last].next] \in Int
      BY <1>1, <1>4, <2>1
    <3>3. QED
      BY <3>1, <3>2
  <2>2. QED
    BY <1>1, <1>2, <2>1
<1>6. h[first].prev \notin gone
  <2>1. ASSUME h[first].prev \in gone PROVE FALSE
    <3>1. h[first].prev # 0 /\ h[h[first].prev].next = first
      BY <1>1, <1>2, <2>1
    <3>2. rank[h[first].prev] < rank[first] /\ rank[first] <= rank[h[first].prev]
      BY <1>1, <1>4, <2>1, <3>1
    <3>3. rank[first] \in Int /\ rank[h[first].prev] \in Int
      BY <1>1, <1>4, <2>1
    <3>4. QED
      BY <3>2, <3>3
  <2>2. QED
    BY <2>1
<1>7. ASSUME NEW a \in DOMAIN h \ S
      PROVE  /\ h[a].next \notin gone
             /\ h[a].next # 0 => h[a].next # h[last].next
             /\ h[a].prev \in gone \/ h[a].prev = last => a = h[last].next /\ a # 0
  <2>1. h[a].next \notin gone
    BY <1>1, <1>2, <1>7
  <2>2. h[a].next # 0 => h[a].next # h[last].next
    BY <1>1, <1>2, <1>7
  <2>3. ASSUME h[a].prev \in gone \/ h[a].prev = last
        PROVE  a = h[last].next /\ a # 0
    <3>1. h[a].prev \in S /\ h[a].prev # 0
      BY <1>1, <2>3
    <3>2. h[h[a].prev].next = a /\ a # 0
      BY <1>2, <1>7, <3>1
    <3>3. h[a].prev = last
      BY <1>1, <1>7, <3>1, <3>2
    <3>4. QED
      BY <3>2, <3>3
  <2>4. QED
    BY <2>1, <2>2, <2>3
<1>8. \E r : Ranks(h, r) /\ r[first] <= r[last]
  BY <1>1, <1>3, <1>4
<1>9. /\ first \in DOMAIN h \ gone /\ last \in DOMAIN h /\ gone \subseteq DOMAIN h
      /\ gone = {} => first = last
      /\ gone # {} => h[first].next \in gone
      /\ first <= last
      /\ \A a \in gone : first <= a /\ EndIn(h, a) <= EndIn(h, last)
      /\ EndIn(h, first) <= EndIn(h, last)
      /\ \A x \in first..(EndIn(h, last) - 1) :
           \E a \in gone \cup {first} : x \in a..(EndIn(h, a) - 1)
  BY <1>1 DEF Consecutive
<1>10. QED
  BY <1>5, <1>6, <1>7, <1>8, <1>9 DEF Run

(* The blocks kfree joins with b: the one before it when withPrev, the one *)
(* behind it when withNext.                                                *)
Merges(h, b, withPrev, withNext, first, last, gone) ==
  /\ b \in DOMAIN h /\ b # 0
  /\ withPrev => h[b].prev # 0 /\ EndIn(h, h[b].prev) = b
  /\ withNext => h[b].next # 0 /\ EndIn(h, b) = h[b].next
  /\ first = IF withPrev THEN h[b].prev ELSE b
  /\ last = IF withNext THEN h[b].next ELSE b
  /\ gone = {a \in {b} : withPrev} \cup {a \in {h[b].next} : withNext}

LEMMA MergesRun ==
  ASSUME NEW h, Sound(h), NEW b, NEW withPrev \in BOOLEAN, NEW withNext \in BOOLEAN,
         NEW first, NEW last, NEW gone, Merges(h, b, withPrev, withNext, first, last, gone)
  PROVE  Run(h, first, last, gone)
<1>1. b \in DOMAIN h /\ b # 0 /\ b \in Nat
  BY SoundBlock DEF Merges
<1>2. PICK p, n : p = h[b].prev /\ n = h[b].next
  OBVIOUS
<1>3. \A a \in DOMAIN h : /\ a \in Nat /\ EndIn(h, a) \in Nat /\ a < EndIn(h, a)
                          /\ h[a].next \in DOMAIN h \cup {0} /\ h[a].prev \in DOMAIN h \cup {0}
                          /\ h[a].next # 0 => h[a].next # a /\ h[h[a].next].prev = a
                          /\ h[a].prev # 0 => h[a].prev # a /\ h[h[a].prev].next = a
  BY SoundBlock DEF EndIn, Hdr
<1>4. p # 0 => p \in DOMAIN h /\ p # b /\ h[p].next = b
  BY <1>1, <1>2, <1>3
<1>5. n # 0 => n \in DOMAIN h /\ n # b /\ h[n].prev = b
  BY <1>1, <1>2, <1>3
<1>6. ASSUME NEW rank, Ranks(h, rank)
      PROVE  /\ rank[b] \in Int
             /\ p # 0 => rank[p] \in Int /\ rank[p] < rank[b]
             /\ n # 0 => rank[n] \in Int /\ rank[b] < rank[n]
  BY <1>1, <1>2, <1>4, <1>5, <1>6 DEF Ranks
<1>7. p # 0 /\ n # 0 => p # n
  <2>1. PICK rank : Ranks(h, rank)
    BY DEF Sound, Acyclic
  <2>2. p # 0 /\ n # 0 => rank[p] \in Int /\ rank[n] \in Int /\ rank[b] \in Int
                          /\ rank[p] < rank[b] /\ rank[b] < rank[n]
    BY <1>6, <2>1
  <2>3. ASSUME p # 0, n # 0, p = n PROVE FALSE
    <3>1. rank[n] < rank[b] /\ rank[b] < rank[n] /\ rank[n] \in Int /\ rank[b] \in Int
      BY <2>2, <2>3
    <3>2. QED
      BY <3>1
  <2>4. QED
    BY <2>3
<1>8. CASE ~withPrev /\ ~withNext
  <2>1. first = b /\ last = b /\ gone = {}
    BY <1>8 DEF Merges
  <2>2. \A x \in first..(EndIn(h, last) - 1) :
          \E a \in gone \cup {first} : x \in a..(EndIn(h, a) - 1)
    BY <2>1
  <2>3. \A rank : Ranks(h, rank) =>
          \A x \in gone \cup {first} : rank[first] <= rank[x] /\ rank[x] <= rank[last]
    BY <1>6, <2>1
  <2>4. Consecutive(h, first, last, gone)
    BY <1>1, <1>3, <2>1, <2>2, <2>3 DEF Consecutive
  <2>5. QED
    BY <2>4, ConsecutiveRun
<1>9. CASE withPrev /\ ~withNext
  <2>1. first = p /\ last = b /\ gone = {b} /\ p # 0 /\ EndIn(h, p) = b
    BY <1>2, <1>9 DEF Merges
  <2>2. \A x \in first..(EndIn(h, last) - 1) :
          \E a \in gone \cup {first} : x \in a..(EndIn(h, a) - 1)
    BY <1>1, <1>3, <1>4, <2>1
  <2>3. \A rank : Ranks(h, rank) =>
          \A x \in gone \cup {first} : rank[first] <= rank[x] /\ rank[x] <= rank[last]
    BY <1>6, <2>1
  <2>4. Consecutive(h, first, last, gone)
    BY <1>1, <1>2, <1>3, <1>4, <2>1, <2>2, <2>3 DEF Consecutive
  <2>5. QED
    BY <2>4, ConsecutiveRun
<1>10. CASE ~withPrev /\ withNext
  <2>1. first = b /\ last = n /\ gone = {n} /\ n # 0 /\ EndIn(h, b) = n
    BY <1>2, <1>10 DEF Merges
  <2>2. \A x \in first..(EndIn(h, last) - 1) :
          \E a \in gone \cup {first} : x \in a..(EndIn(h, a) - 1)
    BY <1>1, <1>3, <1>5, <2>1
  <2>3. \A rank : Ranks(h, rank) =>
          \A x \in gone \cup {first} : rank[first] <= rank[x] /\ rank[x] <= rank[last]
    BY <1>6, <2>1
  <2>4. Consecutive(h, first, last, gone)
    BY <1>1, <1>2, <1>3, <1>5, <2>1, <2>2, <2>3 DEF Consecutive
  <2>5. QED
    BY <2>4, ConsecutiveRun
<1>11. CASE withPrev /\ withNext
  <2>1. /\ first = p /\ last = n /\ gone = {b, n} /\ p # 0 /\ n # 0
        /\ EndIn(h, p) = b /\ EndIn(h, b) = n
    BY <1>2, <1>11 DEF Merges
  <2>2. \A x \in first..(EndIn(h, last) - 1) :
          \E a \in gone \cup {first} : x \in a..(EndIn(h, a) - 1)
    <3>1. TAKE x \in first..(EndIn(h, last) - 1)
    <3>2. x \in p..(EndIn(h, p) - 1) \/ x \in b..(EndIn(h, b) - 1) \/ x \in n..(EndIn(h, n) - 1)
      BY <1>1, <1>3, <1>4, <1>5, <2>1
    <3>3. QED
      BY <2>1, <3>2
  <2>3. \A rank : Ranks(h, rank) =>
          \A x \in gone \cup {first} : rank[first] <= rank[x] /\ rank[x] <= rank[last]
    <3>1. SUFFICES ASSUME NEW rank, Ranks(h, rank), NEW x \in {p, b, n}
                   PROVE  rank[p] <= rank[x] /\ rank[x] <= rank[n]
      BY <2>1
    <3>2. /\ rank[b] \in Int /\ rank[p] \in Int /\ rank[n] \in Int
          /\ rank[p] < rank[b] /\ rank[b] < rank[n]
      BY <1>6, <2>1, <3>1
    <3>3. QED
      BY <3>2
  <2>4. \A x \in gone \cup {first} : first <= x /\ EndIn(h, x) <= EndIn(h, last)
    BY <1>1, <1>3, <1>4, <1>5, <2>1
  <2>5. Consecutive(h, first, last, gone)
    BY <1>1, <1>2, <1>4, <1>5, <1>7, <2>1, <2>2, <2>3, <2>4 DEF Consecutive
  <2>6. QED
    BY <2>5, ConsecutiveRun
<1>12. QED
  BY <1>8, <1>9, <1>10, <1>11


(* Joined of module Heap is that merge.                                    *)
LEMMA JoinedMerges ==
  ASSUME NEW b, NEW withPrev \in BOOLEAN, NEW withNext \in BOOLEAN, NEW first, NEW last,
         NEW gone, Merges(hdr, b, withPrev, withNext, first, last, gone)
  PROVE  Joined(b, withPrev, withNext)
           = JoinedHeaders(hdr, first, last, gone, hdr[last].next)
<1>1. /\ first = IF withPrev THEN hdr[b].prev ELSE b
      /\ last = IF withNext THEN hdr[b].next ELSE b
      /\ gone = {a \in {b} : withPrev} \cup {a \in {hdr[b].next} : withNext}
  BY DEF Merges
<1>2. EndIn(hdr, last) = IF withNext THEN End(hdr[b].next) ELSE End(b)
  BY <1>1 DEF EndIn, End
<1>3. hdr[last].next = IF withNext THEN hdr[hdr[b].next].next ELSE hdr[b].next
  BY <1>1
<1> DEFINE headers(f, end, nxt, G) ==
             [a \in DOMAIN hdr \ G |->
                CASE a = f -> Header(end - f - Hdr, FALSE, nxt, hdr[f].prev)
                  [] a = nxt /\ nxt # 0 /\ G # {} -> [hdr[a] EXCEPT !.prev = f]
                  [] OTHER -> hdr[a]]
<1>4. Joined(b, withPrev, withNext) =
        headers(IF withPrev THEN hdr[b].prev ELSE b,
                IF withNext THEN End(hdr[b].next) ELSE End(b),
                IF withNext THEN hdr[hdr[b].next].next ELSE hdr[b].next,
                {a \in {b} : withPrev} \cup {a \in {hdr[b].next} : withNext})
  BY Zenon DEF Joined, Blocks
<1>5. JoinedHeaders(hdr, first, last, gone, hdr[last].next) =
        headers(first, EndIn(hdr, last), hdr[last].next, gone)
  BY Zenon DEF JoinedHeaders
<1> HIDE DEF headers
<1>6. QED
  BY <1>1, <1>2, <1>3, <1>4, <1>5

------------------------------------------------------------------------------
(* Who holds which block. *)

(* InUseIsHeld for headers h and holders l, with the types of the holders; *)
(* nobody holds a block at address 0.                                      *)
Owners(h, l) ==
  /\ DOMAIN l \subseteq Client /\ l \in [DOMAIN l -> [ptr : Nat, size : Nat]]
  /\ \A c \in DOMAIN l : /\ l[c].ptr - Hdr \in DOMAIN h \ {0}
                         /\ h[l[c].ptr - Hdr].in_use
                         /\ h[l[c].ptr - Hdr].size >= l[c].size
  /\ \A c, d \in DOMAIN l : c # d => l[c].ptr # l[d].ptr
  /\ \A b \in DOMAIN h : h[b].in_use => \E c \in DOMAIN l : l[c].ptr = b + Hdr

LEMMA GiveOwners ==
  ASSUME NEW h, Sound(h), NEW l, Owners(h, l),
         NEW b \in DOMAIN h, b # 0, ~h[b].in_use, NEW size \in Nat,
         NEW c \in Client, c \notin DOMAIN l,
         NEW g, Carves(h, b, size, g),
         NEW m, m = [d \in DOMAIN l \cup {c} |->
                       IF d = c THEN [ptr |-> b + Hdr, size |-> size] ELSE l[d]]
  PROVE  Owners(g, m)
<1>1. b \in Nat /\ (b + Hdr) - Hdr = b /\ b + Hdr \in Nat
  BY SoundBlock DEF Hdr
<1>2. DOMAIN m = DOMAIN l \cup {c} /\ \A d \in DOMAIN l : d # c /\ m[d] = l[d]
  OBVIOUS
<1>3. m[c] = [ptr |-> b + Hdr, size |-> size]
  OBVIOUS
<1>4. m[c].ptr = b + Hdr /\ m[c].size = size
  BY <1>3
<1>5. \A d \in DOMAIN l : l[d] \in [ptr : Nat, size : Nat] /\ l[d].ptr \in Nat
  BY DEF Owners
<1>6. DOMAIN m \subseteq Client /\ m \in [DOMAIN m -> [ptr : Nat, size : Nat]]
  BY <1>1, <1>2, <1>3, <1>5 DEF Owners
<1>7. \A d \in DOMAIN l : l[d].ptr - Hdr # b
  BY DEF Owners
<1>8. \A d \in DOMAIN l : l[d].ptr # b + Hdr
  BY <1>1, <1>7
<1>9. \A d \in DOMAIN m : /\ m[d].ptr - Hdr \in DOMAIN g \ {0}
                          /\ g[m[d].ptr - Hdr].in_use
                          /\ g[m[d].ptr - Hdr].size >= m[d].size
  <2>1. TAKE d \in DOMAIN m
  <2>2. CASE d = c
    BY <1>1, <1>4, <2>2 DEF Carves
  <2>3. CASE d \in DOMAIN l
    <3>1. /\ l[d].ptr - Hdr \in DOMAIN h \ {0, b}
          /\ h[l[d].ptr - Hdr].in_use
          /\ h[l[d].ptr - Hdr].size >= l[d].size
      BY <1>7, <2>3 DEF Owners
    <3>2. QED
      BY <1>2, <2>3, <3>1 DEF Carves
  <2>4. QED
    BY <1>2, <2>2, <2>3
<1>10. \A d, e \in DOMAIN m : d # e => m[d].ptr # m[e].ptr
  BY <1>2, <1>4, <1>8 DEF Owners
<1>11. \A a \in DOMAIN g : g[a].in_use => \E d \in DOMAIN m : m[d].ptr = a + Hdr
  <2>1. SUFFICES ASSUME NEW a \in DOMAIN g, g[a].in_use
                 PROVE  \E d \in DOMAIN m : m[d].ptr = a + Hdr
    OBVIOUS
  <2>2. CASE a = b
    BY <1>2, <1>4, <2>2
  <2>3. CASE a # b
    <3>1. a \in DOMAIN h /\ h[a].in_use
      BY <2>1, <2>3 DEF Carves
    <3>2. PICK d \in DOMAIN l : l[d].ptr = a + Hdr
      BY <3>1 DEF Owners
    <3>3. QED
      BY <1>2, <3>2
  <2>4. QED
    BY <2>2, <2>3
<1>12. QED
  BY <1>6, <1>9, <1>10, <1>11 DEF Owners

LEMMA LinkOwners ==
  ASSUME NEW h, NEW l, Owners(h, l), NEW old, NEW p, p \notin DOMAIN h, NEW g, Links(h, old, p, g)
  PROVE  Owners(g, l)
BY DEF Owners, Links

LEMMA JoinOwners ==
  ASSUME NEW h, Sound(h), NEW l, Owners(h, l), NEW c \in DOMAIN l,
         NEW b, b = l[c].ptr - Hdr, NEW withPrev \in BOOLEAN, NEW withNext \in BOOLEAN,
         NEW first, NEW last, NEW gone, Merges(h, b, withPrev, withNext, first, last, gone),
         withPrev => ~h[h[b].prev].in_use, withNext => ~h[h[b].next].in_use,
         NEW nxt, NEW g, Joins(h, first, last, gone, nxt, g),
         NEW m, m = [d \in DOMAIN l \ {c} |-> l[d]]
  PROVE  Owners(g, m)
<1>1. /\ b \in gone \cup {first} /\ first \notin gone
      /\ \A a \in gone \cup {first} : a # b => ~h[a].in_use
  <2>1. /\ h[b].prev # 0 => h[b].prev # b /\ h[h[b].prev].next = b
        /\ h[b].next # 0 => h[b].next # b
    BY SoundBlock DEF Merges
  <2>2. Run(h, first, last, gone)
    BY MergesRun
  <2>3. QED
    BY <2>1, <2>2 DEF Merges, Run
<1>2. DOMAIN g = DOMAIN h \ gone /\ ~g[first].in_use /\ first \in DOMAIN h
  <2>1. Run(h, first, last, gone)
    BY MergesRun
  <2>2. QED
    BY <2>1 DEF Joins, Run
<1>3. \A a \in DOMAIN h \ (gone \cup {first}) :
        a \in DOMAIN g /\ g[a].size = h[a].size /\ g[a].in_use = h[a].in_use
  BY DEF Joins
<1>4. \A d \in DOMAIN l : l[d] \in [ptr : Nat, size : Nat] /\ l[d].ptr \in Nat
  BY DEF Owners
<1>5. DOMAIN m = DOMAIN l \ {c} /\ \A d \in DOMAIN m : d # c /\ d \in DOMAIN l /\ m[d] = l[d]
  OBVIOUS
<1>6. DOMAIN m \subseteq Client /\ m \in [DOMAIN m -> [ptr : Nat, size : Nat]]
  BY <1>4, <1>5 DEF Owners
<1>7. \A d \in DOMAIN m : l[d].ptr - Hdr # b
  BY <1>4, <1>5 DEF Owners, Hdr
<1>8. \A d \in DOMAIN m : /\ m[d].ptr - Hdr \in DOMAIN g \ {0}
                          /\ g[m[d].ptr - Hdr].in_use
                          /\ g[m[d].ptr - Hdr].size >= m[d].size
  <2>1. TAKE d \in DOMAIN m
  <2>2. /\ l[d].ptr - Hdr \in DOMAIN h \ {0}
        /\ h[l[d].ptr - Hdr].in_use
        /\ h[l[d].ptr - Hdr].size >= l[d].size
    BY <1>5 DEF Owners
  <2>3. l[d].ptr - Hdr \notin gone \cup {first}
    BY <1>1, <1>7, <2>2
  <2>4. QED
    BY <1>3, <1>5, <2>2, <2>3
<1>9. \A d, e \in DOMAIN m : d # e => m[d].ptr # m[e].ptr
  BY <1>5 DEF Owners
<1>10. \A a \in DOMAIN g : g[a].in_use => \E d \in DOMAIN m : m[d].ptr = a + Hdr
  <2>1. SUFFICES ASSUME NEW a \in DOMAIN g, g[a].in_use
                 PROVE  \E d \in DOMAIN m : m[d].ptr = a + Hdr
    OBVIOUS
  <2>2. a \in DOMAIN h \ (gone \cup {first}) /\ h[a].in_use /\ a # b
    BY <1>1, <1>2, <1>3, <2>1
  <2>3. PICK d \in DOMAIN l : l[d].ptr = a + Hdr
    BY <2>2 DEF Owners
  <2>4. d # c
    <3>1. a \in Nat
      BY <2>2, SoundBlock
    <3>2. l[d].ptr - Hdr = a
      BY <2>3, <3>1 DEF Hdr
    <3>3. QED
      BY <2>2, <3>2
  <2>5. QED
    BY <1>5, <2>3, <2>4
<1>11. QED
  BY <1>6, <1>8, <1>9, <1>10 DEF Owners


------------------------------------------------------------------------------
(* Free neighbours. *)

(* No two free blocks follow each other on the list and in memory, except  *)
(* perhaps in front of block x (0 for no exception).                       *)
Together(h, a) == a # 0 /\ h[a].next # 0 /\ EndIn(h, a) = h[a].next

CoalescedBut(h, x) ==
  \A a \in DOMAIN h :
    Together(h, a) /\ h[a].next # x => h[a].in_use \/ h[h[a].next].in_use

LEMMA MarkCoalesced ==
  ASSUME NEW h, Sound(h), NEW b \in DOMAIN h, CoalescedBut(h, b), NEW g, Marks(h, b, g)
  PROVE  CoalescedBut(g, 0)
<1>1. SUFFICES ASSUME NEW a \in DOMAIN g, Together(g, a)
               PROVE  g[a].in_use \/ g[g[a].next].in_use
  BY DEF CoalescedBut
<1>2. /\ a \in DOMAIN h /\ h[a].next \in DOMAIN h /\ g[a].next = h[a].next
      /\ g[b].in_use /\ Together(h, a)
  <2>1. a \in DOMAIN h /\ g[a].next = h[a].next /\ g[a].size = h[a].size /\ g[b].in_use
    BY DEF Marks
  <2>2. Together(h, a)
    BY <1>1, <2>1 DEF Together, EndIn
  <2>3. h[a].next \in DOMAIN h
    BY <2>1, <2>2, SoundBlock DEF Together
  <2>4. QED
    BY <2>1, <2>2, <2>3
<1>3. CASE a = b \/ h[a].next = b
  BY <1>2, <1>3
<1>4. CASE a # b /\ h[a].next # b
  <2>1. h[a].in_use \/ h[h[a].next].in_use
    BY <1>2, <1>4 DEF CoalescedBut
  <2>2. QED
    BY <1>2, <1>4, <2>1 DEF Marks
<1>5. QED
  BY <1>3, <1>4

LEMMA SplitCoalesced ==
  ASSUME NEW h, Sound(h), NEW b \in DOMAIN h, b # 0, ~h[b].in_use, CoalescedBut(h, b),
         NEW size \in Nat, h[b].size - size >= MinSplit,
         NEW new, NEW g, Splits(h, b, size, new, g),
         NEW m, Marks(g, b, m)
  PROVE  CoalescedBut(m, 0)
<1>1. PICK nxt : nxt = h[b].next
  OBVIOUS
<1>2. SplitsFields(h, b, size, new, nxt, g)
  BY <1>1, SplitFields
<1>3. /\ h[b].size \in Nat /\ b \in Nat /\ new = b + Hdr + size
  BY SoundBlock DEF Splits
<1>4. SUFFICES ASSUME NEW a \in DOMAIN m, Together(m, a)
               PROVE  m[a].in_use \/ m[m[a].next].in_use
  BY DEF CoalescedBut
<1>5. /\ DOMAIN m = DOMAIN h \cup {new} /\ new \notin DOMAIN h /\ m[b].in_use
      /\ m[new].next = nxt /\ m[new].size = h[b].size - (size + Hdr)
      /\ \A x \in DOMAIN h \ {b} : /\ m[x].next = h[x].next /\ m[x].size = h[x].size
                                   /\ m[x].in_use = h[x].in_use
  BY <1>2 DEF SplitsFields, Marks
<1>6. CASE a = b
  BY <1>5, <1>6
<1>7. CASE a = new
  <2>1. nxt # 0 /\ new + Hdr + m[new].size = nxt
    BY <1>4, <1>5, <1>7 DEF Together, EndIn
  <2>2. EndIn(h, b) = nxt
    BY <1>3, <1>5, <2>1 DEF EndIn, Hdr
  <2>3. nxt \in DOMAIN h /\ nxt # b
    BY <1>1, <2>1, SoundBlock
  <2>4. h[nxt].in_use
    BY <1>1, <2>1, <2>2, <2>3 DEF CoalescedBut, Together
  <2>5. QED
    BY <1>5, <1>7, <2>3, <2>4
<1>8. CASE a \in DOMAIN h \ {b}
  <2>1. m[a].next = h[a].next /\ m[a].in_use = h[a].in_use /\ Together(h, a)
    BY <1>4, <1>5, <1>8 DEF Together, EndIn
  <2>2. h[a].next \in DOMAIN h
    BY <1>8, <2>1, SoundBlock DEF Together
  <2>3. CASE h[a].next = b
    BY <1>5, <2>1, <2>3
  <2>4. CASE h[a].next # b
    <3>1. h[a].in_use \/ h[h[a].next].in_use
      BY <1>8, <2>1, <2>4 DEF CoalescedBut
    <3>2. m[h[a].next].in_use = h[h[a].next].in_use
      BY <1>5, <2>2, <2>4
    <3>3. QED
      BY <2>1, <3>1, <3>2
  <2>5. QED
    BY <2>3, <2>4
<1>9. QED
  BY <1>5, <1>6, <1>7, <1>8


LEMMA CarveCoalesced ==
  ASSUME NEW h, Sound(h), NEW b \in DOMAIN h, b # 0, ~h[b].in_use, CoalescedBut(h, b),
         NEW size \in Nat, h[b].size >= size
  PROVE  CoalescedBut(Carve(h, b, size), 0)
<1>1. CASE h[b].size - size >= MinSplit
  <2>1. PICK new, cut : cut = resize_block(h, b, size) /\ Splits(h, b, size, new, cut)
    BY <1>1, ResizeSplits
  <2>2. PICK g : g = [cut EXCEPT ![b].in_use = TRUE]
    OBVIOUS
  <2>3. g = Carve(h, b, size)
    BY <1>1, <2>1, <2>2 DEF Carve
  <2>4. Sound(cut) /\ b \in DOMAIN cut
    <3>1. Sound(cut)
      BY <1>1, <2>1, SplitSound
    <3>2. DOMAIN cut = DOMAIN h \cup {new}
      BY <2>1, Zenon DEF Splits
    <3>3. QED
      BY <3>1, <3>2
  <2>5. Marks(cut, b, g)
    BY <2>2, <2>4, MarkSound
  <2>6. QED
    BY <1>1, <2>1, <2>3, <2>5, SplitCoalesced
<1>2. CASE ~(h[b].size - size >= MinSplit)
  <2>1. PICK g : g = [h EXCEPT ![b].in_use = TRUE]
    OBVIOUS
  <2>2. g = Carve(h, b, size)
    BY <1>2, <2>1 DEF Carve
  <2>3. Marks(h, b, g)
    BY <2>1, MarkSound
  <2>4. QED
    BY <2>2, <2>3, MarkCoalesced
<1>3. QED
  BY <1>1, <1>2

LEMMA LinkCoalesced ==
  ASSUME NEW h, Sound(h), CoalescedBut(h, 0), NEW old \in DOMAIN h,
         NEW p, p \notin DOMAIN h, NEW g, Links(h, old, p, g)
  PROVE  CoalescedBut(g, p)
<1>1. SUFFICES ASSUME NEW a \in DOMAIN g, Together(g, a), g[a].next # p
               PROVE  g[a].in_use \/ g[g[a].next].in_use
  BY DEF CoalescedBut
<1>2. a \in DOMAIN h \ {old}
  BY <1>1 DEF Links, Together
<1>3. g[a].next = h[a].next /\ g[a].in_use = h[a].in_use /\ Together(h, a)
  BY <1>1, <1>2 DEF Links, Together, EndIn
<1>4. h[a].next \in DOMAIN h /\ h[a].next # 0
  BY <1>2, <1>3, SoundBlock DEF Together
<1>5. h[a].in_use \/ h[h[a].next].in_use
  BY <1>2, <1>3, <1>4 DEF CoalescedBut
<1>6. QED
  BY <1>3, <1>4, <1>5 DEF Links

(* kfree joins every free block that touches b, so that none of the blocks *)
(* around the joined one is free and touches it.                           *)
LEMMA JoinCoalesced ==
  ASSUME NEW h, Sound(h), CoalescedBut(h, 0),
         NEW b, NEW withPrev \in BOOLEAN, NEW withNext \in BOOLEAN,
         NEW first, NEW last, NEW gone, Merges(h, b, withPrev, withNext, first, last, gone),
         withPrev <=> h[b].prev # 0 /\ EndIn(h, h[b].prev) = b /\ ~h[h[b].prev].in_use,
         withNext <=> h[b].next # 0 /\ EndIn(h, b) = h[b].next /\ ~h[h[b].next].in_use,
         NEW nxt, nxt = h[last].next, NEW g, Joins(h, first, last, gone, nxt, g)
  PROVE  CoalescedBut(g, 0)
<1>1. SUFFICES ASSUME NEW a \in DOMAIN g, Together(g, a)
               PROVE  g[a].in_use \/ g[g[a].next].in_use
  BY DEF CoalescedBut
<1>2. Run(h, first, last, gone)
  BY MergesRun
<1>3. \A x \in DOMAIN h : /\ x \in Nat /\ h[x].size \in Nat /\ EndIn(h, x) \in Nat
                          /\ h[x].next \in DOMAIN h \cup {0} /\ h[x].prev \in DOMAIN h \cup {0}
                          /\ h[x].next # 0 => h[h[x].next].prev = x
                          /\ h[x].prev # 0 => h[h[x].prev].next = x
  BY SoundBlock DEF EndIn, Hdr
<1>4. /\ first \in DOMAIN h /\ last \in DOMAIN h /\ last # 0 /\ b \in DOMAIN h
      /\ DOMAIN g = DOMAIN h \ gone /\ b # 0
  BY <1>2 DEF Run, Merges, Joins
<1>5. \A x \in DOMAIN h \ (gone \cup {first}) :
        g[x].size = h[x].size /\ g[x].in_use = h[x].in_use /\ g[x].next = h[x].next
  BY DEF Joins
<1>6. \A x \in DOMAIN h : Together(h, x) => h[x].in_use \/ h[h[x].next].in_use
  BY DEF CoalescedBut, Together
<1>7. CASE a = first
  <2>1. g[a].next = nxt /\ nxt # 0 /\ nxt \in DOMAIN h \ (gone \cup {first})
    BY <1>1, <1>7 DEF Joins, Together
  <2>2. EndIn(g, first) = EndIn(h, last)
    BY <1>3, <1>4 DEF Joins, EndIn, Hdr
  <2>3. Together(h, last)
    BY <1>1, <1>4, <1>7, <2>1, <2>2 DEF Together
  <2>4. h[nxt].in_use
    <3>1. CASE withNext
      <4>1. ~h[last].in_use
        BY <3>1 DEF Merges
      <4>2. QED
        BY <1>4, <1>6, <2>3, <4>1
    <3>2. CASE ~withNext
      <4>1. last = b /\ h[b].next = nxt /\ EndIn(h, b) = nxt
        BY <2>3, <3>2 DEF Merges, Together
      <4>2. QED
        BY <2>1, <3>2, <4>1
    <3>3. QED
      BY <3>1, <3>2
  <2>5. QED
    BY <1>5, <2>1, <2>4
<1>8. CASE a \in DOMAIN h \ (gone \cup {first})
  <2>1. g[a].next = h[a].next /\ g[a].in_use = h[a].in_use /\ Together(h, a)
    BY <1>1, <1>5, <1>8 DEF Together, EndIn
  <2>2. h[a].next \in DOMAIN h \ gone /\ h[h[a].next].prev = a /\ a # 0
    BY <1>2, <1>3, <1>8, <2>1 DEF Run, Together
  <2>3. CASE h[a].next = first
    <3>1. CASE withPrev
      <4>1. ~h[first].in_use
        BY <3>1 DEF Merges
      <4>2. QED
        BY <1>6, <1>8, <2>1, <2>3, <4>1
    <3>2. CASE ~withPrev
      <4>1. first = b /\ h[b].prev = a /\ EndIn(h, a) = b
        BY <2>1, <2>2, <2>3, <3>2 DEF Merges, Together
      <4>2. QED
        BY <2>1, <2>2, <3>2, <4>1
    <3>3. QED
      BY <3>1, <3>2
  <2>4. CASE h[a].next # first
    BY <1>5, <1>6, <1>8, <2>1, <2>2, <2>4
  <2>5. QED
    BY <2>3, <2>4
<1>9. QED
  BY <1>4, <1>7, <1>8

------------------------------------------------------------------------------
(* Sizes: what the blocks of h take in memory, headers included. *)

Weight(h) == [b \in DOMAIN h |-> h[b].size + Hdr]

Total(h) == Fold!MapThenSumSet(LAMBDA b : h[b].size + Hdr, DOMAIN h)

(* The same property of all subsets of a finite set, from smaller to       *)
(* larger ones.                                                            *)
LEMMA SubsetsUpwards ==
  ASSUME NEW D, IsFiniteSet(D), NEW P, {} \in P,
         \A s \in SUBSET D : s # {} /\ (\A x \in s : s \ {x} \in P) => s \in P
  PROVE  SUBSET D \subseteq P
<1>1. SUFFICES ASSUME (SUBSET D) \ P # {} PROVE FALSE
  OBVIOUS
<1>2. \A s \in SUBSET D : IsFiniteSet(s) /\ Cardinality(s) \in Nat
  BY FS_Subset, FS_CardinalityType
<1> DEFINE C == {Cardinality(s) : s \in (SUBSET D) \ P}
<1>3. C \subseteq Nat /\ C # {}
  BY <1>1, <1>2
<1>4. PICK n \in C : \A z \in C : ~(z < n)
  <2> HIDE DEF C
  <2>1. QED
    BY <1>3, Smallest
<1>5. PICK s \in (SUBSET D) \ P : n = Cardinality(s)
  BY <1>4
<1>6. ASSUME NEW x \in s PROVE s \ {x} \in P
  <2>1. s \ {x} \in SUBSET D
    OBVIOUS
  <2>2. Cardinality(s \ {x}) = Cardinality(s) - 1
    BY <1>2, FS_RemoveElement
  <2>3. Cardinality(s \ {x}) < n
    BY <1>2, <1>5, <2>2
  <2>4. QED
    BY <1>4, <2>1, <2>3
<1>7. QED
  BY <1>5, <1>6

(* MapThenSumSet takes the elements in an order of its own.                *)
First(s) == CHOOSE x \in s : TRUE

Sums(D, w, t) ==
  t = [s \in SUBSET D |-> IF s = {} THEN 0 ELSE w[First(s)] + t[s \ {First(s)}]]

LEMMA FirstIn == \A s : s # {} => First(s) \in s
BY DEF First

LEMMA SumExists ==
  ASSUME NEW D, IsFiniteSet(D), NEW w \in [D -> Int]
  PROVE  \E t : Sums(D, w, t)
<1>1. \A s \in SUBSET D : IsFiniteSet(s) /\ Cardinality(s) \in Nat
  BY FS_Subset, FS_CardinalityType
<1>2. Cardinality(D) \in Nat /\ \A s \in SUBSET D : Cardinality(s) <= Cardinality(D)
  BY FS_CardinalityType, FS_Subset
<1> DEFINE Small(n) == {s \in SUBSET D : Cardinality(s) <= n}
           Value(t, s) == IF s = {} THEN 0 ELSE w[First(s)] + t[s \ {First(s)}]
           S == {n \in Nat : \E t : t = [s \in Small(n) |-> Value(t, s)]}
<1>3. ASSUME NEW s \in SUBSET D, s # {}
      PROVE  /\ s \ {First(s)} \in SUBSET D
             /\ Cardinality(s \ {First(s)}) = Cardinality(s) - 1
  BY <1>1, <1>3, FirstIn, FS_RemoveElement
<1>4. 0 \in S
  <2>1. \A s \in Small(0) : s = {}
    BY <1>1, FS_EmptySet
  <2>2. PICK t : t = [s \in Small(0) |-> 0]
    OBVIOUS
  <2>3. \A s \in Small(0) : Value(t, s) = 0
    BY <2>1
  <2> HIDE DEF Value, Small
  <2>4. t = [s \in Small(0) |-> Value(t, s)]
    BY <2>2, <2>3
  <2>5. QED
    BY <2>4
<1>5. ASSUME NEW n \in Nat, n \in S PROVE n + 1 \in S
  <2>1. PICK t : t = [s \in Small(n) |-> Value(t, s)]
    BY <1>5
  <2>2. PICK u : u = [s \in Small(n + 1) |-> Value(t, s)]
    OBVIOUS
  <2>3. ASSUME NEW s \in Small(n) PROVE s \in Small(n + 1) /\ u[s] = t[s]
    <3>1. s \in Small(n + 1)
      BY <1>1
    <3> HIDE DEF Value, Small
    <3>2. u[s] = Value(t, s) /\ t[s] = Value(t, s)
      BY <2>1, <2>2, <2>3, <3>1
    <3>3. QED
      BY <3>1, <3>2
  <2>4. ASSUME NEW s \in Small(n + 1) PROVE Value(t, s) = Value(u, s)
    <3>1. CASE s = {}
      BY <3>1
    <3>2. CASE s # {}
      <4>1. s \ {First(s)} \in Small(n)
        BY <1>1, <1>3, <2>4, <3>2
      <4>2. QED
        BY <2>3, <3>2, <4>1
    <3>3. QED
      BY <3>1, <3>2
  <2> HIDE DEF Value, Small
  <2>5. u = [s \in Small(n + 1) |-> Value(u, s)]
    BY <2>2, <2>4
  <2>6. QED
    BY <2>5
<1>6. Nat \subseteq S
  <2> HIDE DEF S
  <2>1. QED
    BY <1>4, <1>5, Upwards
<1>7. PICK t : t = [s \in Small(Cardinality(D)) |-> Value(t, s)]
  BY <1>2, <1>6
<1>8. Small(Cardinality(D)) = SUBSET D
  BY <1>2
<1>9. Sums(D, w, t)
  BY <1>7, <1>8, Zenon DEF Sums
<1>10. QED
  BY <1>9

(* The order does not matter.                                              *)
Adds(D, w, t) ==
  /\ \A s \in SUBSET D : t[s] \in Int
  /\ t[{}] = 0
  /\ \A s \in SUBSET D : \A x \in s : t[s] = w[x] + t[s \ {x}]

LEMMA SumAdds ==
  ASSUME NEW D, IsFiniteSet(D), NEW w \in [D -> Int], NEW t, Sums(D, w, t)
  PROVE  Adds(D, w, t)
<1>1. t[{}] = 0
  BY DEF Sums
<1>2. ASSUME NEW s \in SUBSET D, s # {}
      PROVE  First(s) \in s /\ t[s] = w[First(s)] + t[s \ {First(s)}]
  BY <1>2, FirstIn DEF Sums
<1>3. \A s \in SUBSET D : t[s] \in Int
  <2> DEFINE P == {s \in SUBSET D : t[s] \in Int}
  <2>1. {} \in P
    BY <1>1
  <2>2. ASSUME NEW s \in SUBSET D, s # {}, \A x \in s : s \ {x} \in P
        PROVE  s \in P
    <3>1. First(s) \in s /\ t[s] = w[First(s)] + t[s \ {First(s)}]
      BY <1>2, <2>2
    <3>2. t[s \ {First(s)}] \in Int /\ w[First(s)] \in Int
      BY <2>2, <3>1
    <3>3. QED
      BY <3>1, <3>2
  <2> HIDE DEF P
  <2>3. SUBSET D \subseteq P
    BY <2>1, <2>2, SubsetsUpwards
  <2>4. QED
    BY <2>3 DEF P
<1>4. \A s \in SUBSET D : \A x \in s : t[s] = w[x] + t[s \ {x}]
  <2> DEFINE P == {s \in SUBSET D : \A x \in s : t[s] = w[x] + t[s \ {x}]}
  <2>1. {} \in P
    OBVIOUS
  <2>2. ASSUME NEW s \in SUBSET D, s # {}, \A x \in s : s \ {x} \in P
        PROVE  s \in P
    <3>1. SUFFICES ASSUME NEW x \in s PROVE t[s] = w[x] + t[s \ {x}]
      OBVIOUS
    <3>2. PICK y : y = First(s)
      OBVIOUS
    <3>3. y \in s /\ t[s] = w[y] + t[s \ {y}]
      BY <1>2, <2>2, <3>2
    <3>4. CASE x = y
      BY <3>3, <3>4
    <3>5. CASE x # y
      <4>1. PICK rest : rest = s \ {x, y}
        OBVIOUS
      <4>2. (s \ {y}) \ {x} = rest /\ (s \ {x}) \ {y} = rest /\ rest \in SUBSET D
        BY <4>1
      <4>3. t[s \ {y}] = w[x] + t[(s \ {y}) \ {x}]
        BY <2>2, <3>3, <3>5
      <4>4. t[s \ {x}] = w[y] + t[(s \ {x}) \ {y}]
        BY <2>2, <3>3, <3>5
      <4>5. w[x] \in Int /\ w[y] \in Int /\ t[rest] \in Int
        BY <1>3, <3>3, <4>2
      <4>6. t[s \ {y}] = w[x] + t[rest] /\ t[s \ {x}] = w[y] + t[rest]
        BY <4>2, <4>3, <4>4
      <4>7. QED
        BY <3>3, <4>5, <4>6
    <3>6. QED
      BY <3>4, <3>5
  <2> HIDE DEF P
  <2>3. SUBSET D \subseteq P
    BY <2>1, <2>2, SubsetsUpwards
  <2>4. QED
    BY <2>3 DEF P
<1>5. QED
  BY <1>1, <1>3, <1>4 DEF Adds

LEMMA AddsAgree ==
  ASSUME NEW T, IsFiniteSet(T), NEW D, NEW E, T \subseteq D, T \subseteq E,
         NEW w, NEW v, \A x \in T : w[x] = v[x],
         NEW t, NEW u, Adds(D, w, t), Adds(E, v, u)
  PROVE  t[T] = u[T] /\ t[T] \in Int
<1> DEFINE P == {s \in SUBSET T : t[s] = u[s]}
<1>1. {} \in P
  BY DEF Adds
<1>2. ASSUME NEW s \in SUBSET T, s # {}, \A x \in s : s \ {x} \in P
      PROVE  s \in P
  <2>1. PICK x \in s : TRUE
    BY <1>2
  <2>2. s \in SUBSET D /\ s \in SUBSET E /\ w[x] = v[x]
    OBVIOUS
  <2>3. t[s] = w[x] + t[s \ {x}] /\ u[s] = v[x] + u[s \ {x}]
    BY <2>2, Zenon DEF Adds
  <2>4. t[s \ {x}] = u[s \ {x}]
    BY <1>2
  <2>5. QED
    BY <2>2, <2>3, <2>4
<1> HIDE DEF P
<1>3. SUBSET T \subseteq P
  BY <1>1, <1>2, SubsetsUpwards
<1>4. QED
  BY <1>3 DEF P, Adds

LEMMA TotalAdds ==
  ASSUME NEW h, Typed(h), IsFiniteSet(DOMAIN h)
  PROVE  \E t : Adds(DOMAIN h, Weight(h), t) /\ Total(h) = t[DOMAIN h]
<1>1. PICK w : w = Weight(h)
  OBVIOUS
<1>2. w \in [DOMAIN h -> Int] /\ \A b \in DOMAIN h : w[b] = h[b].size + Hdr
  BY <1>1 DEF Weight, Typed, Record, Hdr
<1>3. PICK some : Sums(DOMAIN h, w, some)
  BY <1>2, SumExists
<1> DEFINE Value(t, s) == IF s = {} THEN 0
                          ELSE (h[CHOOSE x \in s : TRUE].size + Hdr) + t[s \ {CHOOSE x \in s : TRUE}]
           it == CHOOSE t : t = [s \in SUBSET DOMAIN h |-> Value(t, s)]
<1>4. Total(h) = it[DOMAIN h]
  BY Zenon DEF Total, Fold!MapThenSumSet, Fold!MapThenFoldSet
<1>5. ASSUME NEW t
      PROVE  Sums(DOMAIN h, w, t) <=> t = [s \in SUBSET DOMAIN h |-> Value(t, s)]
  <2>1. PICK f, g : /\ f = [s \in SUBSET DOMAIN h |-> Value(t, s)]
                    /\ g = [s \in SUBSET DOMAIN h |->
                              IF s = {} THEN 0 ELSE w[First(s)] + t[s \ {First(s)}]]
    OBVIOUS
  <2>2. \A s \in SUBSET DOMAIN h : s # {} => First(s) \in DOMAIN h
    BY FirstIn
  <2>3. ASSUME NEW s \in SUBSET DOMAIN h
        PROVE  Value(t, s) = IF s = {} THEN 0 ELSE w[First(s)] + t[s \ {First(s)}]
    BY <1>2, <2>2 DEF First
  <2> HIDE DEF Value
  <2>4. f = g
    BY <2>1, <2>3
  <2>5. QED
    BY <2>1, <2>4, Zenon DEF Sums
<1> HIDE DEF Value
<1>6. some = [s \in SUBSET DOMAIN h |-> Value(some, s)]
  BY <1>3, <1>5, Zenon
<1>7. it = [s \in SUBSET DOMAIN h |-> Value(it, s)]
  BY <1>6, Zenon
<1>8. Sums(DOMAIN h, w, it)
  BY <1>5, <1>7
<1> HIDE DEF it
<1>9. Adds(DOMAIN h, w, it)
  BY <1>2, <1>8, SumAdds
<1>10. QED
  BY <1>1, <1>4, <1>9

(* The blocks of h take n bytes in all.                                    *)
Filled(h, n) == IsFiniteSet(DOMAIN h) /\ Total(h) = n

LEMMA AddsOne ==
  ASSUME NEW D, NEW w, NEW t, Adds(D, w, t), NEW T \in SUBSET D, NEW x \in D \ T
  PROVE  t[T \cup {x}] = w[x] + t[T] /\ t[T] \in Int
<1>1. T \cup {x} \in SUBSET D /\ x \in T \cup {x} /\ (T \cup {x}) \ {x} = T
  OBVIOUS
<1>2. t[T \cup {x}] = w[x] + t[(T \cup {x}) \ {x}]
  BY <1>1, Zenon DEF Adds
<1>3. QED
  BY <1>1, <1>2 DEF Adds

(* The sums t of h and u of g are the same on the blocks T both have.      *)
Shares(h, g, T, t, u) ==
  /\ Adds(DOMAIN h, Weight(h), t) /\ Total(h) = t[DOMAIN h]
  /\ Adds(DOMAIN g, Weight(g), u) /\ Total(g) = u[DOMAIN g]
  /\ t[T] = u[T] /\ t[T] \in Int

LEMMA TotalShares ==
  ASSUME NEW h, Typed(h), IsFiniteSet(DOMAIN h), NEW g, Typed(g), IsFiniteSet(DOMAIN g),
         NEW T, T \subseteq DOMAIN h, T \subseteq DOMAIN g,
         \A a \in T : g[a].size = h[a].size
  PROVE  \E t, u : Shares(h, g, T, t, u)
<1>1. PICK t : Adds(DOMAIN h, Weight(h), t) /\ Total(h) = t[DOMAIN h]
  BY TotalAdds
<1>2. PICK u : Adds(DOMAIN g, Weight(g), u) /\ Total(g) = u[DOMAIN g]
  BY TotalAdds
<1>3. IsFiniteSet(T)
  BY FS_Subset
<1>4. \A a \in T : Weight(h)[a] = Weight(g)[a]
  BY DEF Weight
<1>5. PICK w, v, D, E : w = Weight(h) /\ v = Weight(g) /\ D = DOMAIN h /\ E = DOMAIN g
  OBVIOUS
<1>6. /\ T \subseteq D /\ T \subseteq E /\ \A a \in T : w[a] = v[a]
      /\ Adds(D, w, t) /\ Adds(E, v, u)
  BY <1>1, <1>2, <1>4, <1>5
<1>7. t[T] = u[T] /\ t[T] \in Int
  BY <1>3, <1>6, AddsAgree
<1>8. QED
  BY <1>1, <1>2, <1>7 DEF Shares

LEMMA MarkFilled ==
  ASSUME NEW h, Sound(h), NEW n, Filled(h, n), NEW b, NEW g, Marks(h, b, g)
  PROVE  Filled(g, n)
<1>1. /\ DOMAIN g = DOMAIN h /\ Typed(h) /\ Typed(g) /\ IsFiniteSet(DOMAIN h)
      /\ \A a \in DOMAIN h : g[a].size = h[a].size
  BY DEF Marks, Sound, Filled
<1>2. PICK t, u : Shares(h, g, DOMAIN h, t, u)
  BY <1>1, TotalShares
<1>3. QED
  BY <1>1, <1>2 DEF Shares, Filled

LEMMA SplitFilled ==
  ASSUME NEW h, Sound(h), NEW n, Filled(h, n), NEW b \in DOMAIN h, NEW size \in Nat,
         NEW new, NEW g, Splits(h, b, size, new, g),
         NEW nxt, SplitsFields(h, b, size, new, nxt, g)
  PROVE  Filled(g, n)
<1>1. PICK T : T = DOMAIN h \ {b}
  OBVIOUS
<1>2. /\ DOMAIN h = T \cup {b} /\ DOMAIN g = (T \cup {b}) \cup {new} /\ new \notin DOMAIN h
      /\ T \in SUBSET DOMAIN h /\ T \in SUBSET DOMAIN g /\ b \notin T
      /\ g[new].size = h[b].size - (size + Hdr) /\ g[b].size = size
      /\ \A a \in T : g[a].size = h[a].size
  BY <1>1 DEF SplitsFields
<1>3. Typed(h) /\ Typed(g) /\ IsFiniteSet(DOMAIN h) /\ h[b].size \in Nat
  BY SoundBlock DEF Sound, Filled, SplitsFields
<1>4. IsFiniteSet(DOMAIN g)
  BY <1>2, <1>3, FS_AddElement
<1>5. PICK t, u : Shares(h, g, T, t, u)
  BY <1>2, <1>3, <1>4, TotalShares
<1>6. PICK w, v, D, E : w = Weight(h) /\ v = Weight(g) /\ D = DOMAIN h /\ E = DOMAIN g
  OBVIOUS
<1>7. Adds(D, w, t) /\ Adds(E, v, u) /\ t[T] = u[T] /\ t[T] \in Int
  BY <1>5, <1>6 DEF Shares
<1>8. /\ w[b] = h[b].size + 24 /\ v[b] = size + 24
      /\ v[new] = (h[b].size - (size + 24)) + 24
  BY <1>2, <1>6 DEF Weight, Hdr
<1>9. t[T \cup {b}] = w[b] + t[T]
  BY <1>2, <1>6, <1>7, AddsOne
<1>10. u[T \cup {b}] = v[b] + u[T]
  BY <1>2, <1>6, <1>7, AddsOne
<1>11. u[(T \cup {b}) \cup {new}] = v[new] + u[T \cup {b}]
  <2>1. PICK T2 : T2 = T \cup {b}
    OBVIOUS
  <2>2. T2 \in SUBSET E /\ new \in E \ T2
    BY <1>2, <1>6, <2>1
  <2>3. u[T2 \cup {new}] = v[new] + u[T2]
    BY <1>7, <2>2, AddsOne
  <2>4. QED
    BY <2>1, <2>3
<1>12. u[(T \cup {b}) \cup {new}] = t[T \cup {b}]
  <2>1. PICK k, x, y : k = t[T] /\ x = t[T \cup {b}] /\ y = u[(T \cup {b}) \cup {new}]
    OBVIOUS
  <2>2. k \in Int /\ x = h[b].size + 24 + k
        /\ y = ((h[b].size - (size + 24)) + 24) + ((size + 24) + k)
    BY <1>7, <1>8, <1>9, <1>10, <1>11, <2>1
  <2>3. x = y
    BY <1>3, <2>2
  <2>4. QED
    BY <2>1, <2>3
<1>13. QED
  BY <1>2, <1>4, <1>5, <1>12 DEF Shares, Filled

LEMMA CarveFilled ==
  ASSUME NEW h, Sound(h), NEW n, Filled(h, n), NEW b \in DOMAIN h, b # 0, NEW size \in Nat
  PROVE  Filled(Carve(h, b, size), n)
<1>1. CASE h[b].size - size >= MinSplit
  <2>1. PICK new, cut : cut = resize_block(h, b, size) /\ Splits(h, b, size, new, cut)
    BY <1>1, ResizeSplits
  <2>2. PICK nxt : nxt = h[b].next
    OBVIOUS
  <2>3. SplitsFields(h, b, size, new, nxt, cut)
    BY <1>1, <2>1, <2>2, SplitFields
  <2>4. Sound(cut) /\ b \in DOMAIN cut
    BY <1>1, <2>1, <2>3, SplitSound DEF SplitsFields
  <2>5. PICK g : g = [cut EXCEPT ![b].in_use = TRUE]
    OBVIOUS
  <2>6. g = Carve(h, b, size)
    BY <1>1, <2>1, <2>5 DEF Carve
  <2>7. Marks(cut, b, g)
    BY <2>4, <2>5, MarkSound
  <2>8. Filled(cut, n)
    BY <2>1, <2>3, SplitFilled
  <2>9. QED
    BY <2>4, <2>6, <2>7, <2>8, MarkFilled
<1>2. CASE ~(h[b].size - size >= MinSplit)
  <2>1. PICK g : g = [h EXCEPT ![b].in_use = TRUE]
    OBVIOUS
  <2>2. g = Carve(h, b, size)
    BY <1>2, <2>1 DEF Carve
  <2>3. Marks(h, b, g)
    BY <2>1, MarkSound
  <2>4. QED
    BY <2>2, <2>3, MarkFilled
<1>3. QED
  BY <1>1, <1>2

LEMMA LinkFilled ==
  ASSUME NEW h, Sound(h), NEW n, Filled(h, n), NEW old \in DOMAIN h,
         NEW p, p \notin DOMAIN h, NEW g, Links(h, old, p, g)
  PROVE  Filled(g, n + PageSize)
<1>1. PICK T : T = DOMAIN h
  OBVIOUS
<1>2. /\ DOMAIN g = T \cup {p} /\ T \in SUBSET DOMAIN g /\ p \in DOMAIN g \ T
      /\ g[p].size = 4072 /\ \A a \in T : g[a].size = h[a].size
      /\ Typed(h) /\ Typed(g) /\ IsFiniteSet(T)
  BY <1>1 DEF Links, Sound, Filled, MaxSize, PageSize, Hdr
<1>3. IsFiniteSet(DOMAIN g)
  BY <1>2, FS_AddElement
<1>4. PICK t, u : Shares(h, g, T, t, u)
  BY <1>1, <1>2, <1>3, TotalShares
<1>5. PICK v, E : v = Weight(g) /\ E = DOMAIN g
  OBVIOUS
<1>6. Adds(E, v, u) /\ u[T] = n /\ u[T] \in Int
  BY <1>1, <1>4, <1>5 DEF Shares, Filled
<1>7. v[p] = 4096
  BY <1>2, <1>5 DEF Weight, Hdr
<1>8. u[T \cup {p}] = v[p] + u[T]
  BY <1>2, <1>5, <1>6, AddsOne
<1>9. u[DOMAIN g] = n + 4096
  BY <1>2, <1>6, <1>7, <1>8
<1>10. Total(g) = n + PageSize
  BY <1>4, <1>9 DEF Shares, PageSize
<1>11. QED
  BY <1>3, <1>10 DEF Filled

LEMMA AddsTwo ==
  ASSUME NEW D, NEW w, NEW t, Adds(D, w, t), NEW T \in SUBSET D,
         NEW x \in D \ T, NEW y \in D \ T, x # y
  PROVE  t[T \cup {x, y}] = w[y] + (w[x] + t[T]) /\ t[T] \in Int
<1>1. PICK T1 : T1 = T \cup {x}
  OBVIOUS
<1>2. T1 \in SUBSET D /\ y \in D \ T1 /\ T \cup {x, y} = T1 \cup {y}
  BY <1>1
<1>3. t[T1] = w[x] + t[T] /\ t[T] \in Int
  BY <1>1, AddsOne
<1>4. t[T1 \cup {y}] = w[y] + t[T1]
  BY <1>2, AddsOne
<1>5. QED
  BY <1>2, <1>3, <1>4

(* The blocks kfree joins are together as large as the one they become.    *)
LEMMA MergesSum ==
  ASSUME NEW h, Sound(h), NEW b, NEW withPrev \in BOOLEAN, NEW withNext \in BOOLEAN,
         NEW first, NEW last, NEW gone, Merges(h, b, withPrev, withNext, first, last, gone),
         NEW t, Adds(DOMAIN h, Weight(h), t),
         NEW T, T = DOMAIN h \ (gone \cup {first})
  PROVE  t[DOMAIN h] = (EndIn(h, last) - first) + t[T] /\ t[T] \in Int
<1>1. PICK p, n, w, D : p = h[b].prev /\ n = h[b].next /\ w = Weight(h) /\ D = DOMAIN h
  OBVIOUS
<1>2. \A a \in D : a \in Int /\ EndIn(h, a) \in Int /\ w[a] = EndIn(h, a) - a
  <2>1. \A a \in DOMAIN h : a \in Nat /\ h[a].size \in Nat
    BY SoundBlock
  <2>2. QED
    BY <1>1, <2>1 DEF EndIn, Weight, Hdr
<1>3. Adds(D, w, t) /\ b \in D /\ D = DOMAIN h
  BY <1>1 DEF Merges
<1>4. Run(h, first, last, gone)
  BY MergesRun
<1>5. /\ p # 0 => p \in D /\ p # b
      /\ n # 0 => n \in D /\ n # b
  BY <1>1, <1>3, SoundBlock
<1>6. CASE ~withPrev /\ ~withNext
  <2>1. first = b /\ last = b /\ gone = {}
    BY <1>6 DEF Merges
  <2>2. T \in SUBSET D /\ b \in D \ T
    BY <1>3, <2>1
  <2>3. t[T \cup {b}] = w[b] + t[T] /\ t[T] \in Int
    <3>1. \A S \in SUBSET D : \A x \in D \ S : t[S \cup {x}] = w[x] + t[S] /\ t[S] \in Int
      BY <1>3, AddsOne
    <3>2. QED
      BY <2>2, <3>1, Zenon
  <2>4. DOMAIN h = T \cup {b}
    BY <1>3, <2>1
  <2>5. t[DOMAIN h] = w[b] + t[T]
    BY <2>3, <2>4
  <2>6. w[b] = EndIn(h, last) - first
    BY <1>2, <1>3, <2>1
  <2>7. QED
    BY <2>3, <2>5, <2>6
<1>7. CASE withPrev /\ ~withNext
  <2>1. first = p /\ last = b /\ gone = {b} /\ p # 0 /\ EndIn(h, p) = b
    BY <1>1, <1>7 DEF Merges
  <2>2. T \in SUBSET D /\ b \in D \ T /\ p \in D \ T /\ D = T \cup {b, p} /\ b # p
    BY <1>3, <1>5, <2>1
  <2>3. t[T \cup {b, p}] = w[p] + (w[b] + t[T]) /\ t[T] \in Int
    BY <1>3, <2>2, AddsTwo
  <2>4. t[DOMAIN h] = w[p] + (w[b] + t[T])
    BY <1>3, <2>2, <2>3
  <2>5. w[p] = b - p /\ w[b] = EndIn(h, b) - b /\ p \in Int /\ b \in Int /\ EndIn(h, b) \in Int
    BY <1>2, <2>1, <2>2
  <2>6. PICK e, k : e = EndIn(h, b) /\ k = t[T]
    OBVIOUS
  <2>7. t[DOMAIN h] = (b - p) + ((e - b) + k) /\ e \in Int /\ k \in Int
    BY <2>3, <2>4, <2>5, <2>6
  <2>8. t[DOMAIN h] = (e - p) + k
    BY <2>5, <2>7
  <2>9. QED
    BY <2>1, <2>6, <2>7, <2>8
<1>8. CASE ~withPrev /\ withNext
  <2>1. first = b /\ last = n /\ gone = {n} /\ n # 0 /\ EndIn(h, b) = n
    BY <1>1, <1>8 DEF Merges
  <2>2. T \in SUBSET D /\ b \in D \ T /\ n \in D \ T /\ D = T \cup {b, n} /\ b # n
    BY <1>3, <1>5, <2>1
  <2>3. t[T \cup {b, n}] = w[n] + (w[b] + t[T]) /\ t[T] \in Int
    BY <1>3, <2>2, AddsTwo
  <2>4. t[DOMAIN h] = w[n] + (w[b] + t[T])
    BY <1>3, <2>2, <2>3
  <2>5. w[b] = n - b /\ w[n] = EndIn(h, n) - n /\ n \in Int /\ b \in Int /\ EndIn(h, n) \in Int
    BY <1>2, <2>1, <2>2
  <2>6. PICK e, k : e = EndIn(h, n) /\ k = t[T]
    OBVIOUS
  <2>7. t[DOMAIN h] = (e - n) + ((n - b) + k) /\ e \in Int /\ k \in Int
    BY <2>3, <2>4, <2>5, <2>6
  <2>8. t[DOMAIN h] = (e - b) + k
    BY <2>5, <2>7
  <2>9. QED
    BY <2>1, <2>6, <2>7, <2>8
<1>9. CASE withPrev /\ withNext
  <2>1. /\ first = p /\ last = n /\ gone = {b, n} /\ p # 0 /\ n # 0
        /\ EndIn(h, p) = b /\ EndIn(h, b) = n
    BY <1>1, <1>9 DEF Merges
  <2>2. p # n
    BY <1>4, <2>1 DEF Run
  <2>3. PICK T2 : T2 = T \cup {b, p}
    OBVIOUS
  <2>4. /\ T \in SUBSET D /\ b \in D \ T /\ p \in D \ T /\ b # p
        /\ T2 \in SUBSET D /\ n \in D \ T2 /\ D = T2 \cup {n}
    BY <1>3, <1>5, <2>1, <2>2, <2>3
  <2>5. t[T2] = w[p] + (w[b] + t[T]) /\ t[T] \in Int
    BY <1>3, <2>3, <2>4, AddsTwo
  <2>6. t[T2 \cup {n}] = w[n] + t[T2]
    BY <1>3, <2>4, AddsOne
  <2>7. t[DOMAIN h] = w[n] + (w[p] + (w[b] + t[T]))
    BY <1>3, <2>4, <2>5, <2>6
  <2>8. /\ w[p] = b - p /\ w[b] = n - b /\ w[n] = EndIn(h, n) - n
        /\ n \in Int /\ b \in Int /\ p \in Int /\ EndIn(h, n) \in Int
    BY <1>2, <2>1, <2>4
  <2>9. PICK e, k : e = EndIn(h, n) /\ k = t[T]
    OBVIOUS
  <2>10. t[DOMAIN h] = (e - n) + ((b - p) + ((n - b) + k)) /\ e \in Int /\ k \in Int
    BY <2>5, <2>7, <2>8, <2>9
  <2>11. t[DOMAIN h] = (e - p) + k
    BY <2>8, <2>10
  <2>12. QED
    BY <2>1, <2>9, <2>10, <2>11
<1>10. QED
  BY <1>6, <1>7, <1>8, <1>9

LEMMA JoinFilled ==
  ASSUME NEW h, Sound(h), NEW m, Filled(h, m),
         NEW b, NEW withPrev \in BOOLEAN, NEW withNext \in BOOLEAN,
         NEW first, NEW last, NEW gone, Merges(h, b, withPrev, withNext, first, last, gone),
         NEW nxt, NEW g, Joins(h, first, last, gone, nxt, g)
  PROVE  Filled(g, m)
<1>1. PICK T : T = DOMAIN h \ (gone \cup {first})
  OBVIOUS
<1>2. first \in DOMAIN h \ gone /\ last \in DOMAIN h
  <2>1. Run(h, first, last, gone)
    BY MergesRun
  <2>2. QED
    BY <2>1 DEF Run
<1>3. /\ DOMAIN g = T \cup {first} /\ T \in SUBSET DOMAIN h /\ T \in SUBSET DOMAIN g
      /\ first \in DOMAIN g \ T
      /\ g[first].size = (EndIn(h, last) - first) - 24
      /\ \A a \in T : g[a].size = h[a].size
  BY <1>1, <1>2 DEF Joins, Hdr
<1>4. Typed(h) /\ Typed(g) /\ IsFiniteSet(DOMAIN h)
  BY DEF Sound, Joins, Filled
<1>5. IsFiniteSet(DOMAIN g)
  <2>1. DOMAIN g \in SUBSET DOMAIN h
    BY <1>2, <1>3
  <2>2. QED
    BY <1>4, <2>1, FS_Subset
<1>6. PICK t, u : Shares(h, g, T, t, u)
  BY <1>3, <1>4, <1>5, TotalShares
<1>7. PICK v, E : v = Weight(g) /\ E = DOMAIN g
  OBVIOUS
<1>8. Adds(E, v, u) /\ Adds(DOMAIN h, Weight(h), t) /\ u[T] = t[T] /\ t[T] \in Int
  BY <1>6, <1>7 DEF Shares
<1>9. t[DOMAIN h] = (EndIn(h, last) - first) + t[T]
  BY <1>1, <1>8, MergesSum
<1>10. v[first] = EndIn(h, last) - first
  <2>1. /\ last \in Nat /\ h[last].size \in Nat /\ first \in Nat
    BY <1>2, SoundBlock
  <2>2. v[first] = g[first].size + 24
    BY <1>3, <1>7 DEF Weight, Hdr
  <2>3. EndIn(h, last) \in Int
    BY <2>1 DEF EndIn, Hdr
  <2>4. QED
    BY <1>3, <2>1, <2>2, <2>3
<1>11. u[T \cup {first}] = v[first] + u[T]
  BY <1>3, <1>7, <1>8, AddsOne
<1>12. u[DOMAIN g] = t[DOMAIN h]
  BY <1>3, <1>8, <1>9, <1>10, <1>11
<1>13. QED
  BY <1>5, <1>6, <1>12 DEF Shares, Filled

------------------------------------------------------------------------------
(* The search of kmalloc. *)

(* Only the first block has none before it.  A list that begins at address *)
(* 0 is not one: kmalloc links every new page behind that block.           *)
Rooted(h, first) == first # 0 => \A b \in DOMAIN h : h[b].prev = 0 => b = first

(* The list h from its first block, which stays the first one, in pages.   *)
(* The page of heap_init is the one at address 0 when pmm_alloc failed.    *)
Listed(h, first, pages) ==
  /\ first \in DOMAIN h /\ h[first].prev = 0 /\ Rooted(h, first) /\ Sound(h)
  /\ first \in pages \cup {0} /\ Within(h, pages \cup {first})

(* From block on, the search for size bytes meets a block that is too      *)
(* small, or takes one that is free.                                       *)
Promising(h, block, size) ==
  \E path \in SUBSET (DOMAIN h \ {0}) :
    /\ block \in path \cup {0}
    /\ \A b \in path : IF h[b].size < size THEN h[b].next \in path \cup {0}
                                           ELSE ~h[b].in_use

(* The blocks the search for size bytes has left behind, all of the list   *)
(* before block, are too small.                                            *)
Passed(h, first, block, size) ==
  \E seen \in SUBSET (DOMAIN h \ {0}) :
    /\ first \in seen \cup {block}
    /\ \A b \in seen : h[b].size < size /\ h[b].next \in seen \cup {block}

(* The search s stands behind old_block; the list is empty or ends there   *)
(* when there is no block to look at.                                      *)
Searching(h, first, l, s) ==
  \/ s = Idle
  \/ /\ s \in [active : {TRUE}, who : Client \ DOMAIN l, size : 0..MaxSize,
               block : DOMAIN h \cup {0}, old_block : DOMAIN h \cup {0}]
     /\ s.old_block # 0 => h[s.old_block].next = s.block
     /\ s.old_block = 0 => s.block = first
     /\ Promising(h, s.block, s.size)
     /\ Passed(h, first, s.block, s.size)

(* The inductive invariant of the heap: it holds while the bitmap covers   *)
(* the map, for otherwise pmm_alloc hands out pages twice.                 *)
Started ==
  /\ heapUp \in BOOLEAN /\ (heapUp => Ready /\ 0 \notin ClearPages)
  /\ ~heapUp => /\ hdr = [a \in {} |-> 0] /\ live = [c \in {} |-> 0]
                /\ head = 0 /\ search = Idle /\ held = {}

(* The blocks take the pages of the heap as a whole.                       *)
Room(pages, first) == PageSize * Cardinality(pages \cup {first})

Working ==
  /\ Listed(hdr, head, held) /\ CoalescedBut(hdr, 0)
  /\ Owners(hdr, live) /\ Searching(hdr, head, live, search)
  /\ Filled(hdr, Room(held, head))

HInv == IInv /\ Started /\ (BitmapCoversMap /\ heapUp => Working)

(* pmm_alloc hands out an aligned page nobody has, or 0.                   *)
LEMMA AllocFacts ==
  ASSUME IInv, BitmapCoversMap, pmm_alloc
  PROVE  /\ IInv' /\ Ready /\ Ready' /\ held \subseteq held'
         /\ held' \subseteq held \cup {ret'}
         /\ ret' \in Nat /\ ret' % PageSize = 0
         /\ ret' # 0 => ret' \in held' \ held
         /\ 0 \notin ClearPages => (ret' = 0 => held' = held)
<1>1. IInv'
  BY NextInv DEF Next
<1>2. Ready /\ Ready'
  BY DEF pmm_alloc, Ready
<1>3. CASE \E i \in ClearPages : ret' = AddrOf(i) /\ held' = held \cup {AddrOf(i)}
  <2>1. PICK i \in ClearPages : ret' = AddrOf(i) /\ held' = held \cup {AddrOf(i)}
    BY <1>3
  <2>2. i \in Nat /\ i < BitmapBits /\ i \notin bitmap
    BY PmmAssumption DEF ClearPages, IInv, TypeOK, BitmapCoversMap
  <2>3. PageOf(AddrOf(i)) = i /\ AddrOf(i) \in 0..(Word - 1) /\ AddrOf(i) % PageSize = 0
    BY <2>2, PageRoundTrip
  <2>4. AddrOf(i) \notin held
    BY <2>2, <2>3 DEF IInv, HeldMarked
  <2>5. AddrOf(i) = 0 => i = 0
    <3>1. PageOf(0) = 0
      <4>1. 0 % Word = 0
        BY WordRange
      <4>2. QED
        BY <4>1 DEF PageOf, PageSize
    <3>2. QED
      BY <2>3, <3>1
  <2>6. QED
    BY <1>1, <1>2, <2>1, <2>3, <2>4, <2>5
<1>4. CASE ret' = 0 /\ held' = held
  BY <1>1, <1>2, <1>4 DEF PageSize
<1>5. QED
  BY <1>3, <1>4 DEF pmm_alloc

(* pmm_alloc takes the first page that is free, so that page 0 is taken    *)
(* from the first call on.                                                 *)
LEMMA ZeroTaken ==
  ASSUME IInv, pmm_alloc
  PROVE  0 \notin ClearPages'
<1>1. pages_num' = pages_num /\ ClearPages \subseteq Nat
  BY DEF pmm_alloc, ClearPages, IInv, TypeOK
<1>2. ASSUME NEW i \in ClearPages, \A j \in 0..(i - 1) : j \in bitmap, bitmap' = bitmap \cup {i}
      PROVE  0 \notin ClearPages'
  <2>1. i \in Nat
    BY <1>1
  <2>2. 0 \in bitmap'
    BY <1>2, <2>1
  <2>3. QED
    BY <2>2 DEF ClearPages
<1>3. CASE ClearPages = {} /\ bitmap' = bitmap
  BY <1>1, <1>3 DEF ClearPages
<1>4. QED
  BY <1>2, <1>3 DEF pmm_alloc

(* Before heap_init the heap has no page, and after it one more with every *)
(* page it is given.                                                       *)
LEMMA RoomGrows ==
  ASSUME NEW pages, IsFiniteSet(pages), NEW first, NEW p, p \notin pages \cup {first}
  PROVE  Room(pages \cup {p}, first) = Room(pages, first) + PageSize
<1>1. IsFiniteSet(pages \cup {first})
  BY FS_AddElement
<1>2. PICK n \in Nat : n = Cardinality(pages \cup {first})
  BY <1>1, FS_CardinalityType
<1>3. Cardinality((pages \cup {first}) \cup {p}) = n + 1
  BY <1>1, <1>2, FS_AddElement
<1>4. (pages \cup {first}) \cup {p} = (pages \cup {p}) \cup {first}
  OBVIOUS
<1>5. Cardinality((pages \cup {p}) \cup {first}) = n + 1
  BY <1>3, <1>4
<1>6. PageSize * (n + 1) = PageSize * n + PageSize
  BY DEF PageSize
<1>7. QED
  BY <1>2, <1>5, <1>6 DEF Room

LEMMA HeldFinite == ASSUME IInv PROVE IsFiniteSet(held)
<1>1. held \in SUBSET (0..(Word - 1)) /\ Word \in Int
  BY PmmAssumption DEF IInv, TypeOK, PageSize
<1>2. IsFiniteSet(0..(Word - 1))
  BY <1>1, FS_Interval
<1>3. QED
  BY <1>1, <1>2, FS_Subset

LEMMA FreshFilled ==
  ASSUME NEW p, NEW h, Typed(h), DOMAIN h = {p}, h[p].size = MaxSize
  PROVE  Filled(h, PageSize)
<1>1. IsFiniteSet(DOMAIN h)
  BY FS_Singleton
<1>2. PICK t : Adds(DOMAIN h, Weight(h), t) /\ Total(h) = t[DOMAIN h]
  BY <1>1, TotalAdds
<1>3. Weight(h)[p] = MaxSize + Hdr
  BY DEF Weight
<1>4. PICK w, D : w = Weight(h) /\ D = DOMAIN h
  OBVIOUS
<1>5. Adds(D, w, t) /\ {} \in SUBSET D /\ p \in D \ {}
  BY <1>2, <1>4
<1>6. t[{} \cup {p}] = w[p] + t[{}] /\ t[{}] = 0
  BY <1>5, AddsOne DEF Adds
<1>7. t[DOMAIN h] = t[{} \cup {p}]
  OBVIOUS
<1>8. t[DOMAIN h] = PageSize
  BY <1>3, <1>4, <1>6, <1>7 DEF MaxSize, PageSize, Hdr
<1>9. QED
  BY <1>1, <1>2, <1>8 DEF Filled

LEMMA FreshListed ==
  ASSUME NEW p \in Nat, p % PageSize = 0, NEW pages, p \in pages \cup {0},
         NEW h, Typed(h), DOMAIN h = {p}, h[p] = Header(MaxSize, FALSE, 0, 0)
  PROVE  Listed(h, p, pages) /\ ~h[p].in_use /\ CoalescedBut(h, 0)
<1>1. h[p].size = MaxSize /\ h[p].in_use = FALSE /\ h[p].next = 0 /\ h[p].prev = 0
  BY DEF Header
<1>2. Apart(h) /\ Chained(h) /\ ZeroIsFirst(h)
  <2>1. \A b \in DOMAIN h : b = p
    OBVIOUS
  <2>2. ~(p < p)
    OBVIOUS
  <2>3. Apart(h)
    BY <2>1, <2>2, Zenon DEF Apart
  <2>4. QED
    BY <1>1, <2>1, <2>3, Zenon DEF Chained, ZeroIsFirst
<1>3. Acyclic(h)
  <2>1. PICK rank : rank = [a \in {p} |-> 0]
    OBVIOUS
  <2>2. rank \in [{p} -> Nat]
    BY <2>1
  <2>3. Ranks(h, rank)
    BY <1>1, <2>2 DEF Ranks
  <2>4. QED
    BY <2>3 DEF Acyclic
<1>4. Within(h, pages \cup {p})
  <2>1. EndIn(h, p) = p + PageSize
    <3>1. EndIn(h, p) = p + 24 + MaxSize
      BY <1>1, Zenon DEF EndIn, Hdr
    <3>2. p + 24 + MaxSize = p + PageSize
      BY DEF MaxSize, PageSize, Hdr
    <3>3. QED
      BY <3>1, <3>2, Zenon
  <2>2. ASSUME NEW a \in p..(EndIn(h, p) - 1) PROVE Page(a) = p
    <3>1. a \in Nat /\ p <= a /\ a < p + PageSize
      BY <2>1, <2>2 DEF PageSize
    <3>2. QED
      BY <3>1, PageOfBlock
  <2>3. QED
    BY <2>2 DEF Within
<1>5. CoalescedBut(h, 0)
  BY <1>1, Zenon DEF CoalescedBut, Together
<1>6. Rooted(h, p)
  BY DEF Rooted
<1>7. QED
  BY <1>1, <1>2, <1>3, <1>4, <1>5, <1>6 DEF Listed, Sound

LEMMA HeapInitStep ==
  ASSUME HInv, heap_init
  PROVE  HInv'
<1>1. /\ pmm_alloc /\ ~heapUp /\ heapUp' = TRUE /\ head' = ret'
      /\ hdr' = [a \in {ret'} |-> Header(MaxSize, FALSE, 0, 0)]
      /\ search' = search /\ live' = live
  BY DEF heap_init
<1>2. IInv'
  BY <1>1, NextInv DEF Next, HInv
<1>3. Ready' /\ 0 \notin ClearPages'
  <2>1. Ready'
    BY <1>1 DEF pmm_alloc, Ready
  <2>2. QED
    BY <1>1, <2>1, ZeroTaken DEF HInv
<1>4. search' = Idle /\ live' = [c \in {} |-> 0]
  BY <1>1 DEF HInv, Started
<1>5. ASSUME BitmapCoversMap' PROVE Working'
  <2>1. BitmapCoversMap
    BY <1>1, <1>5 DEF BitmapCoversMap, pmm_alloc
  <2>2. ret' \in Nat /\ ret' % PageSize = 0 /\ ret' \in held' \cup {0}
    BY <1>1, <2>1, AllocFacts DEF HInv
  <2>a. Typed(hdr')
    BY <1>1, <2>2 DEF Typed, Record, Header, MaxSize, PageSize, Hdr
  <2>b. Filled(hdr', Room(held', head'))
    <3>1. PICK h, p : h = hdr' /\ p = ret'
      OBVIOUS
    <3>2. Typed(h) /\ DOMAIN h = {p} /\ h[p].size = MaxSize
      BY <1>1, <2>a, <3>1 DEF Header
    <3>3. Filled(h, PageSize)
      BY <3>2, FreshFilled
    <3>4. held' \cup {p} = {p}
      BY <1>1, <2>1, <3>1, AllocFacts DEF HInv, Started
    <3>5. Room(held', p) = PageSize
      <4>1. Cardinality({p}) = 1
        BY FS_Singleton
      <4>2. QED
        BY <3>4, <4>1 DEF Room, PageSize
    <3>6. QED
      BY <1>1, <3>1, <3>3, <3>5
  <2>3. Listed(hdr', head', held') /\ ~hdr'[ret'].in_use /\ CoalescedBut(hdr', 0)
    <3>1. DOMAIN hdr' = {ret'} /\ hdr'[ret'] = Header(MaxSize, FALSE, 0, 0)
      BY <1>1
    <3>2. Typed(hdr')
      BY <1>1, <2>2, <3>1 DEF Typed, Record, Header, MaxSize, PageSize, Hdr
    <3>3. QED
      BY <1>1, <2>2, <3>1, <3>2, FreshListed
  <2>4. Owners(hdr', live')
    BY <1>1, <1>4, <2>3 DEF Owners, Listed
  <2>5. Searching(hdr', head', live', search')
    BY <1>4 DEF Searching
  <2>6. QED
    BY <2>b, <2>3, <2>4, <2>5 DEF Working
<1>6. QED
  BY <1>1, <1>2, <1>3, <1>5 DEF HInv, Started


(* A step of the heap that allocates no page.                              *)
LEMMA QuietStep ==
  ASSUME HInv, UNCHANGED <<pmmVars, heapUp, head>>, heapUp,
         BitmapCoversMap => Working'
  PROVE  HInv'
<1>1. /\ IInv' /\ (BitmapCoversMap' <=> BitmapCoversMap) /\ (Ready' <=> Ready)
      /\ ClearPages' = ClearPages
  <2>1. IInv'
    BY NextInv DEF HInv
  <2>2. QED
    BY <2>1 DEF pmmVars, BitmapCoversMap, Ready, ClearPages
<1>2. QED
  BY <1>1 DEF HInv, Started

LEMMA KmallocStep ==
  ASSUME HInv, NEW c \in Client, NEW size \in Sizes, Careful(size), kmalloc(c, size)
  PROVE  HInv'
<1>1. /\ heapUp /\ search = Idle /\ c \notin DOMAIN live /\ size <= MaxSize
      /\ search' = [active |-> TRUE, who |-> c, size |-> size, block |-> head, old_block |-> 0]
      /\ UNCHANGED <<pmmVars, heapUp, head, hdr, live>>
  BY DEF kmalloc, UninitPtr
<1>2. size \in 0..MaxSize
  BY <1>1, HeapAssumption DEF MaxSize, PageSize, Hdr
<1>3. ASSUME BitmapCoversMap PROVE Working'
  <2>1. Working
    BY <1>1, <1>3 DEF HInv
  <2>2. head \in DOMAIN hdr
    BY <2>1 DEF Working, Listed
  <2>3. Promising(hdr, head, size)
    BY Zenon DEF Careful, Promising, Blocks
  <2>4. Searching(hdr, head, live, search')
    <3>1. PICK s : s = search'
      OBVIOUS
    <3>2. /\ s.active = TRUE /\ s.who = c /\ s.size = size /\ s.block = head /\ s.old_block = 0
          /\ s \in [active : {TRUE}, who : Client \ DOMAIN live, size : 0..MaxSize,
                    block : DOMAIN hdr \cup {0}, old_block : DOMAIN hdr \cup {0}]
      BY <1>1, <1>2, <2>2, <3>1
    <3>3. Passed(hdr, head, head, size)
      <4>1. {} \in SUBSET (DOMAIN hdr \ {0})
        OBVIOUS
      <4>2. QED
        BY <4>1 DEF Passed
    <3>4. Searching(hdr, head, live, s)
      BY <2>3, <3>2, <3>3, Zenon DEF Searching
    <3>5. QED
      BY <3>1, <3>4
  <2>5. held' = held
    BY <1>1 DEF pmmVars
  <2>6. QED
    BY <1>1, <2>1, <2>4, <2>5 DEF Working
<1>4. QED
  BY <1>1, <1>3, QuietStep

(* What a search in progress knows.                                        *)
SearchState(s) ==
  /\ s.who \in Client \ DOMAIN live /\ s.size \in Nat /\ s.size <= MaxSize
  /\ s.block \in DOMAIN hdr \cup {0} /\ s.old_block \in DOMAIN hdr \cup {0}
  /\ s.old_block # 0 => hdr[s.old_block].next = s.block
  /\ s.old_block = 0 => s.block = head
  /\ Promising(hdr, s.block, s.size)
  /\ Passed(hdr, head, s.block, s.size)

LEMMA SearchFacts ==
  ASSUME Working, search.active
  PROVE  SearchState(search)
<1>1. search # Idle
  BY DEF Idle
<1>2. Searching(hdr, head, live, search)
  BY DEF Working
<1>3. search \in [active : {TRUE}, who : Client \ DOMAIN live, size : 0..MaxSize,
                  block : DOMAIN hdr \cup {0}, old_block : DOMAIN hdr \cup {0}]
  BY <1>1, <1>2, Zenon DEF Searching
<1>4. /\ search.old_block # 0 => hdr[search.old_block].next = search.block
      /\ search.old_block = 0 => search.block = head
      /\ Promising(hdr, search.block, search.size)
      /\ Passed(hdr, head, search.block, search.size)
  BY <1>1, <1>2, Zenon DEF Searching
<1>5. /\ search.who \in Client \ DOMAIN live /\ search.size \in 0..MaxSize
      /\ search.block \in DOMAIN hdr \cup {0} /\ search.old_block \in DOMAIN hdr \cup {0}
  BY <1>3
<1>6. search.size \in Nat /\ search.size <= MaxSize
  <2>1. MaxSize \in Nat
    BY DEF MaxSize, PageSize, Hdr
  <2>2. QED
    BY <1>5, <2>1
<1>7. QED
  BY <1>4, <1>5, <1>6, Zenon DEF SearchState

LEMMA SearchNextStep ==
  ASSUME HInv, SearchNext
  PROVE  HInv'
<1>1. /\ search.active /\ search.block # 0 /\ hdr[search.block].size < search.size
      /\ search' = [search EXCEPT !.old_block = search.block, !.block = hdr[search.block].next]
      /\ UNCHANGED <<pmmVars, heapUp, head, hdr, live>>
  BY DEF SearchNext
<1>2. heapUp
  BY <1>1 DEF HInv, Started, Idle
<1>3. ASSUME BitmapCoversMap PROVE Working'
  <2>1. Working
    BY <1>2, <1>3 DEF HInv
  <2>2. SearchState(search)
    BY <1>1, <2>1, SearchFacts
  <2>3. PICK b, n : b = search.block /\ n = hdr[b].next
    OBVIOUS
  <2>4. b \in DOMAIN hdr /\ b # 0 /\ n \in DOMAIN hdr \cup {0}
    BY <1>1, <2>1, <2>2, <2>3, SoundBlock DEF SearchState, Working, Listed
  <2>5. Promising(hdr, n, search.size)
    <3>1. PICK path \in SUBSET (DOMAIN hdr \ {0}) :
            /\ b \in path \cup {0}
            /\ \A a \in path : IF hdr[a].size < search.size THEN hdr[a].next \in path \cup {0}
                                                           ELSE ~hdr[a].in_use
      BY <2>2, <2>3, Zenon DEF SearchState, Promising
    <3>2. n \in path \cup {0}
      BY <1>1, <2>3, <2>4, <3>1
    <3>3. QED
      BY <3>1, <3>2, Zenon DEF Promising
  <2>a. Passed(hdr, head, n, search.size)
    <3>1. PICK seen \in SUBSET (DOMAIN hdr \ {0}) :
            /\ head \in seen \cup {b}
            /\ \A a \in seen : hdr[a].size < search.size /\ hdr[a].next \in seen \cup {b}
      BY <2>2, <2>3, Zenon DEF SearchState, Passed
    <3>2. PICK more : more = seen \cup {b}
      OBVIOUS
    <3>3. more \in SUBSET (DOMAIN hdr \ {0}) /\ head \in more \cup {n}
      BY <2>4, <3>1, <3>2
    <3>4. \A a \in more : hdr[a].size < search.size /\ hdr[a].next \in more \cup {n}
      BY <1>1, <2>3, <3>1, <3>2
    <3>5. QED
      BY <3>3, <3>4, Zenon DEF Passed
  <2>6. Searching(hdr, head, live, search')
    <3>1. PICK s : s = search'
      OBVIOUS
    <3>2. search \in [active : {TRUE}, who : Client \ DOMAIN live, size : 0..MaxSize,
                      block : DOMAIN hdr \cup {0}, old_block : DOMAIN hdr \cup {0}]
      <4>1. search # Idle
        BY <1>1 DEF Idle
      <4>2. QED
        BY <2>1, <4>1, Zenon DEF Working, Searching
    <3>3. /\ s.size = search.size /\ s.block = n /\ s.old_block = b
          /\ s \in [active : {TRUE}, who : Client \ DOMAIN live, size : 0..MaxSize,
                    block : DOMAIN hdr \cup {0}, old_block : DOMAIN hdr \cup {0}]
      BY <1>1, <2>3, <2>4, <3>1, <3>2
    <3>4. Searching(hdr, head, live, s)
      BY <2>3, <2>4, <2>5, <2>a, <3>3, Zenon DEF Searching
    <3>5. QED
      BY <3>1, <3>4
  <2>7. held' = held
    BY <1>1 DEF pmmVars
  <2>8. QED
    BY <1>1, <2>1, <2>6, <2>7 DEF Working
<1>4. QED
  BY <1>1, <1>2, <1>3, QuietStep


(* Giving the free block b of the list h to the searching client.          *)
LEMMA TakeBlock ==
  ASSUME NEW h, NEW pages, Listed(h, head, pages), Owners(h, live),
         NEW c \in Client, c \notin DOMAIN live, NEW size \in Nat,
         NEW b \in DOMAIN h, b # 0, ~h[b].in_use, h[b].size >= size, CoalescedBut(h, b),
         hdr' = Carve(h, b, size), GiveTo(c, b, size), head' = head, search' = Idle,
         pages \subseteq held', NEW n, Filled(h, n), n = Room(held', head)
  PROVE  Working'
<1>1. PICK g : g = Carve(h, b, size)
  OBVIOUS
<1>2. Carves(h, b, size, g)
  BY <1>1, CarveSound DEF Listed
<1>3. Listed(g, head, held')
  <2>1. /\ Sound(g) /\ Within(g, pages \cup {head}) /\ head \in DOMAIN g /\ g[head].prev = 0
        /\ head \in held' \cup {0}
    BY <1>2 DEF Carves, Listed
  <2>2. Within(g, held' \cup {head})
    BY <2>1 DEF Within
  <2>3. Rooted(g, head)
    BY <1>2 DEF Carves, Listed, Rooted
  <2>4. QED
    BY <2>1, <2>2, <2>3 DEF Listed
<1>4. Owners(g, live')
  <2>1. PICK m : m = [d \in DOMAIN live \cup {c} |->
                        IF d = c THEN [ptr |-> b + Hdr, size |-> size] ELSE live[d]]
    OBVIOUS
  <2>2. Owners(g, m)
    <3>1. Sound(h)
      BY DEF Listed
    <3>2. QED
      BY <1>2, <2>1, <3>1, GiveOwners
  <2>3. live' = m
    BY <2>1, Zenon DEF GiveTo
  <2>4. QED
    BY <2>2, <2>3
<1>5. CoalescedBut(g, 0)
  BY <1>1, CarveCoalesced DEF Listed
<1>6. Filled(g, n)
  BY <1>1, CarveFilled DEF Listed
<1>7. QED
  BY <1>1, <1>3, <1>4, <1>5, <1>6 DEF Working, Searching

LEMMA SearchHitStep ==
  ASSUME HInv, SearchHit
  PROVE  HInv'
<1>1. /\ search.active /\ search.block # 0 /\ hdr[search.block].size >= search.size
      /\ hdr' = Carve(hdr, search.block, search.size)
      /\ GiveTo(search.who, search.block, search.size)
      /\ search' = Idle
      /\ UNCHANGED <<pmmVars, heapUp, head>>
  BY DEF SearchHit
<1>2. heapUp
  BY <1>1 DEF HInv, Started, Idle
<1>3. ASSUME BitmapCoversMap PROVE Working'
  <2>1. Working
    BY <1>2, <1>3 DEF HInv
  <2>2. SearchState(search)
    BY <1>1, <2>1, SearchFacts
  <2>3. PICK b, size : b = search.block /\ size = search.size
    OBVIOUS
  <2>4. b \in DOMAIN hdr /\ b # 0 /\ size \in Nat /\ hdr[b].size >= size
    BY <1>1, <2>2, <2>3 DEF SearchState
  <2>5. ~hdr[b].in_use
    <3>1. PICK path \in SUBSET (DOMAIN hdr \ {0}) :
            /\ b \in path \cup {0}
            /\ \A a \in path : IF hdr[a].size < size THEN hdr[a].next \in path \cup {0}
                                                     ELSE ~hdr[a].in_use
      BY <2>2, <2>3, Zenon DEF SearchState, Promising
    <3>2. ~(hdr[b].size < size)
      <4>1. hdr[b].size \in Nat
        BY <2>1, <2>4, SoundBlock DEF Working, Listed
      <4>2. QED
        BY <2>4, <4>1
    <3>3. QED
      BY <2>4, <3>1, <3>2
  <2>6. held' = held
    BY <1>1 DEF pmmVars
  <2>7. CoalescedBut(hdr, b)
    BY <2>1 DEF Working, CoalescedBut, Together
  <2>8. PICK n : n = Room(held, head)
    OBVIOUS
  <2>9. Filled(hdr, n) /\ n = Room(held', head)
    BY <2>1, <2>6, <2>8 DEF Working
  <2>10. QED
    BY <1>1, <2>1, <2>2, <2>3, <2>4, <2>5, <2>6, <2>7, <2>9, TakeBlock DEF Working, SearchState
<1>4. QED
  BY <1>1, <1>2, <1>3, QuietStep

LEMMA SearchEndStep ==
  ASSUME HInv, SearchEnd
  PROVE  HInv'
<1>1. /\ search.active /\ search.block = 0 /\ pmm_alloc /\ search' = Idle
      /\ heapUp' = heapUp /\ head' = head
  BY DEF SearchEnd
<1>2. heapUp
  BY <1>1 DEF HInv, Started, Idle
<1>3. IInv' /\ Ready' /\ 0 \notin ClearPages'
  <2>1. IInv'
    BY <1>1, NextInv DEF Next, HInv
  <2>2. 0 \notin ClearPages'
    BY <1>1, ZeroTaken DEF HInv
  <2>3. QED
    BY <1>1, <2>1, <2>2 DEF pmm_alloc, Ready
<1>4. ASSUME BitmapCoversMap' PROVE Working'
  <2>1. BitmapCoversMap
    BY <1>1, <1>4 DEF BitmapCoversMap, pmm_alloc
  <2>2. Working
    BY <1>2, <2>1 DEF HInv
  <2>3. /\ held \subseteq held' /\ ret' \in Nat /\ ret' % PageSize = 0
        /\ ret' # 0 => ret' \in held' \ held
        /\ held' \subseteq held \cup {ret'} /\ (ret' = 0 => held' = held)
    BY <1>1, <1>2, <2>1, AllocFacts DEF HInv, Started
  <2>4. SearchState(search)
    BY <1>1, <2>2, SearchFacts
  <2>5. CASE ret' = 0 /\ UNCHANGED <<hdr, live>>
    <3>1. Within(hdr, held' \cup {head}) /\ head \in held' \cup {0}
      BY <2>2, <2>3 DEF Working, Listed, Within
    <3>2. Filled(hdr, Room(held', head))
      BY <2>2, <2>3, <2>5 DEF Working
    <3>3. QED
      BY <1>1, <2>2, <2>5, <3>1, <3>2 DEF Working, Listed, Searching
  <2>6. CASE ret' # 0
    <3>1. PICK p, old, size, c :
            p = ret' /\ old = search.old_block /\ size = search.size /\ c = search.who
      OBVIOUS
    <3> DEFINE headers(q, o) == [a \in DOMAIN hdr \cup {q} |->
                                   CASE a = q -> Header(MaxSize, FALSE, 0, o)
                                     [] a = o -> [hdr[a] EXCEPT !.next = q]
                                     [] OTHER -> hdr[a]]
    <3>2. PICK linked : linked = headers(p, old)
      OBVIOUS
    <3>3. hdr' = Carve(linked, p, size) /\ GiveTo(c, p, size)
      <4>1. /\ hdr' = Carve(headers(ret', search.old_block), ret', search.size)
            /\ GiveTo(search.who, ret', search.size)
        BY <2>6, Zenon DEF SearchEnd, Blocks
      <4> HIDE DEF headers
      <4>2. QED
        BY <3>1, <3>2, <4>1
    <3>4. p \in Nat /\ p # 0 /\ p % PageSize = 0 /\ p \notin held /\ p \in held'
      BY <2>3, <2>6, <3>1
    <3>5. /\ Sound(hdr) /\ head \in DOMAIN hdr /\ hdr[head].prev = 0 /\ Rooted(hdr, head)
          /\ Within(hdr, held \cup {head}) /\ head \in held \cup {0}
          /\ Owners(hdr, live) /\ CoalescedBut(hdr, 0)
      BY <2>2 DEF Working, Listed
    <3>a. p \notin held \cup {head}
      BY <3>4, <3>5
    <3>6. old \in DOMAIN hdr /\ (old # 0 => hdr[old].next = 0)
      BY <1>1, <2>4, <3>1, <3>5 DEF SearchState
    <3>7. p \notin DOMAIN hdr
      BY <3>4, <3>5, <3>a, FreshPageApart
    <3>8. Links(hdr, old, p, linked)
      BY <3>2, <3>4, <3>5, <3>6, <3>7, LinkFields
    <3>9. Sound(linked) /\ Within(linked, (held \cup {head}) \cup {p})
      BY <3>4, <3>5, <3>6, <3>8, <3>a, LinkSound
    <3>b. Rooted(linked, head)
      <4>1. head # 0 => old # 0
        BY <1>1, <2>4, <3>1 DEF SearchState
      <4>2. QED
        BY <3>5, <3>8, <4>1 DEF Rooted, Links
    <3>10. Listed(linked, head, held \cup {p})
      <4>1. (held \cup {head}) \cup {p} = (held \cup {p}) \cup {head}
        OBVIOUS
      <4>2. Within(linked, (held \cup {p}) \cup {head})
        BY <3>9, <4>1
      <4>3. QED
        BY <3>5, <3>8, <3>9, <3>b, <4>2 DEF Listed, Links
    <3>11. Owners(linked, live)
      BY <3>5, <3>7, <3>8, LinkOwners
    <3>12. /\ p \in DOMAIN linked /\ ~linked[p].in_use /\ linked[p].size = MaxSize
      BY <3>8 DEF Links
    <3>13. /\ c \in Client /\ c \notin DOMAIN live /\ size \in Nat /\ linked[p].size >= size
      <4>1. size <= MaxSize /\ MaxSize \in Nat /\ size \in Nat
        BY <2>4, <3>1 DEF SearchState, MaxSize, PageSize, Hdr
      <4>2. QED
        BY <2>4, <3>1, <3>12, <4>1 DEF SearchState
    <3>14. held \cup {p} \subseteq held'
      BY <2>3, <3>4
    <3>15. CoalescedBut(linked, p)
      BY <3>5, <3>6, <3>7, <3>8, LinkCoalesced
    <3>c. PICK n : n = Room(held, head) + PageSize
      OBVIOUS
    <3>d. Filled(linked, n)
      <4>1. PICK k : k = Room(held, head)
        OBVIOUS
      <4>2. Filled(hdr, k)
        BY <2>2, <4>1 DEF Working
      <4>3. Filled(linked, k + PageSize)
        BY <3>5, <3>6, <3>7, <3>8, <4>2, LinkFilled
      <4>4. QED
        BY <3>c, <4>1, <4>3
    <3>e. n = Room(held', head)
      <4>1. held' = held \cup {p}
        BY <2>3, <3>1, <3>4
      <4>2. IsFiniteSet(held)
        BY HeldFinite DEF HInv
      <4>3. Room(held \cup {p}, head) = Room(held, head) + PageSize
        BY <3>a, <4>2, RoomGrows
      <4>4. QED
        BY <3>c, <4>1, <4>3
    <3>16. QED
      BY <1>1, <3>3, <3>4, <3>10, <3>11, <3>12, <3>13, <3>14, <3>15, <3>d, <3>e, TakeBlock
  <2>7. QED
    BY <2>5, <2>6 DEF SearchEnd
<1>5. QED
  BY <1>1, <1>2, <1>3, <1>4 DEF HInv, Started


LEMMA FreeStep ==
  ASSUME HInv, NEW c \in Client, Free(c)
  PROVE  HInv'
<1>1. heapUp /\ search = Idle /\ c \in DOMAIN live /\ kfree(c)
  BY DEF Free
<1>2. PICK b : b = live[c].ptr - Hdr
  OBVIOUS
<1>3. PICK withPrev, withNext : withPrev = FreePrev(b) /\ withNext = FreeNext(b)
  OBVIOUS
<1>4. /\ hdr' = Joined(b, withPrev, withNext)
      /\ live' = [d \in DOMAIN live \ {c} |-> live[d]]
      /\ UNCHANGED <<pmmVars, heapUp, head, search>>
  <2>1. BlockOf(c) = b
    BY <1>2 DEF BlockOf
  <2>2. QED
    BY <1>1, <1>3, <2>1, Zenon DEF kfree, Freed
<1>5. ASSUME BitmapCoversMap PROVE Working'
  <2>1. /\ head \in DOMAIN hdr /\ hdr[head].prev = 0 /\ Rooted(hdr, head) /\ Sound(hdr)
        /\ Within(hdr, held \cup {head}) /\ head \in held \cup {0} /\ Owners(hdr, live)
    BY <1>1, <1>5 DEF HInv, Working, Listed
  <2>2. b \in DOMAIN hdr /\ b # 0
    BY <1>1, <1>2, <2>1 DEF Owners
  <2>3. /\ withPrev \in BOOLEAN /\ withNext \in BOOLEAN
        /\ withPrev => /\ hdr[b].prev # 0 /\ EndIn(hdr, hdr[b].prev) = b
                       /\ ~hdr[hdr[b].prev].in_use
        /\ withNext => /\ hdr[b].next # 0 /\ EndIn(hdr, b) = hdr[b].next
                       /\ ~hdr[hdr[b].next].in_use
    BY <1>3 DEF FreePrev, FreeNext, Touch, End, EndIn
  <2>4. PICK first, last, gone :
          /\ first = IF withPrev THEN hdr[b].prev ELSE b
          /\ last = IF withNext THEN hdr[b].next ELSE b
          /\ gone = {a \in {b} : withPrev} \cup {a \in {hdr[b].next} : withNext}
    OBVIOUS
  <2>5. Merges(hdr, b, withPrev, withNext, first, last, gone)
    BY <2>2, <2>3, <2>4 DEF Merges
  <2>6. Run(hdr, first, last, gone)
    BY <2>1, <2>3, <2>5, MergesRun
  <2>7. PICK nxt, g, m :
          /\ nxt = hdr[last].next
          /\ g = JoinedHeaders(hdr, first, last, gone, nxt)
          /\ m = [d \in DOMAIN live \ {c} |-> live[d]]
    OBVIOUS
  <2>8. hdr' = g /\ live' = m
    BY <1>4, <2>3, <2>5, <2>7, JoinedMerges
  <2>9. Joins(hdr, first, last, gone, nxt, g)
    BY <2>1, <2>6, <2>7, JoinFields
  <2>10. Sound(g) /\ Within(g, held \cup {head})
    BY <2>1, <2>6, <2>7, <2>9, JoinSound
  <2>11. Owners(g, m)
    BY <1>1, <1>2, <2>1, <2>3, <2>5, <2>7, <2>9, JoinOwners
  <2>12. head \in DOMAIN g /\ g[head].prev = 0
    <3>1. \A a \in gone : hdr[a].prev # 0
      BY <2>1, <2>2, <2>3, <2>4, SoundBlock
    <3>2. head \notin gone
      BY <2>1, <3>1
    <3>3. ASSUME nxt # 0 PROVE head # nxt
      <4>1. last \in DOMAIN hdr /\ last # 0
        BY <2>2, <2>3, <2>4, <2>6 DEF Run
      <4>2. hdr[nxt].prev = last
        BY <2>1, <2>7, <3>3, <4>1, SoundBlock
      <4>3. QED
        BY <2>1, <4>1, <4>2
    <3>4. CASE head = first
      BY <2>1, <2>9, <3>2, <3>4 DEF Joins
    <3>5. CASE head # first
      BY <2>1, <2>9, <3>2, <3>3, <3>5 DEF Joins
    <3>6. QED
      BY <3>4, <3>5
  <2>a. Rooted(g, head)
    <3>1. first # 0 /\ DOMAIN g = DOMAIN hdr \ gone
      BY <2>2, <2>3, <2>4, <2>9 DEF Joins
    <3>2. ASSUME NEW a \in DOMAIN g, g[a].prev = 0
          PROVE  hdr[a].prev = 0
      <4>1. CASE a = first
        BY <2>9, <3>2, <4>1 DEF Joins
      <4>2. CASE a = nxt /\ nxt # 0
        BY <2>9, <3>1, <3>2, <4>2 DEF Joins
      <4>3. CASE a \in DOMAIN hdr \ (gone \cup {first}) /\ (a # nxt \/ nxt = 0)
        BY <2>9, <3>2, <4>3 DEF Joins
      <4>4. QED
        BY <3>1, <3>2, <4>1, <4>2, <4>3
    <3>3. QED
      BY <2>1, <3>1, <3>2 DEF Rooted
  <2>13. CoalescedBut(g, 0)
    <3>1. /\ withPrev <=> /\ hdr[b].prev # 0 /\ EndIn(hdr, hdr[b].prev) = b
                          /\ ~hdr[hdr[b].prev].in_use
          /\ withNext <=> /\ hdr[b].next # 0 /\ EndIn(hdr, b) = hdr[b].next
                          /\ ~hdr[hdr[b].next].in_use
      BY <1>3, <2>2 DEF FreePrev, FreeNext, Touch, End, EndIn
    <3>2. CoalescedBut(hdr, 0)
      BY <1>1, <1>5 DEF HInv, Working
    <3>3. QED
      BY <2>1, <2>3, <2>5, <2>7, <2>9, <3>1, <3>2, JoinCoalesced
  <2>b. Filled(g, Room(held, head))
    <3>1. PICK n : n = Room(held, head)
      OBVIOUS
    <3>2. Filled(hdr, n)
      BY <1>1, <1>5, <3>1 DEF HInv, Working
    <3>3. Filled(g, n)
      BY <2>1, <2>3, <2>5, <2>9, <3>2, JoinFilled
    <3>4. QED
      BY <3>1, <3>3
  <2>14. held' = held
    BY <1>4 DEF pmmVars
  <2>15. QED
    BY <1>1, <1>4, <2>1, <2>8, <2>10, <2>11, <2>12, <2>a, <2>13, <2>b, <2>14
       DEF Working, Listed, Searching
<1>6. QED
  BY <1>1, <1>4, <1>5, QuietStep

LEMMA BootStep ==
  ASSUME HInv, BootPmm
  PROVE  HInv'
<1>1. pmm_init /\ ~Ready /\ UNCHANGED heapVars
  BY DEF BootPmm, pmm_init
<1>2. IInv' /\ ~heapUp /\ held' = held
  BY <1>1, NextInv DEF Next, HInv, Started, pmm_init
<1>3. QED
  BY <1>1, <1>2 DEF HInv, Started, heapVars

LEMMA StutterStep ==
  ASSUME HInv, UNCHANGED vars
  PROVE  HInv'
<1>1. /\ IInv' /\ (BitmapCoversMap' <=> BitmapCoversMap) /\ (Ready' <=> Ready)
      /\ UNCHANGED heapVars /\ held' = held /\ ClearPages' = ClearPages
  <2>1. IInv'
    BY NextInv DEF HInv, vars
  <2>2. QED
    BY <2>1 DEF vars, pmmVars, BitmapCoversMap, Ready, ClearPages
<1>2. QED
  BY <1>1 DEF HInv, Started, Working, heapVars

LEMMA HeapInitInv == HeapInit => HInv
BY InitInv DEF HeapInit, HInv, Started, Init

LEMMA HeapNextInv == HInv /\ [CarefulNext]_vars => HInv'
<1> SUFFICES ASSUME HInv, [CarefulNext]_vars PROVE HInv'
  OBVIOUS
<1>1. CASE Step
  BY <1>1, BootStep, HeapInitStep, SearchNextStep, SearchHitStep, SearchEndStep, FreeStep
     DEF Step
<1>2. ASSUME NEW c \in Client, NEW size \in Sizes, Careful(size), kmalloc(c, size)
      PROVE  HInv'
  BY <1>2, KmallocStep
<1>3. CASE UNCHANGED vars
  BY <1>3, StutterStep
<1>4. QED
  BY <1>1, <1>2, <1>3 DEF CarefulNext

LEMMA CarefulInv == CarefulSpec => []HInv
<1>1. QED
  BY HeapInitInv, HeapNextInv, PTL DEF CarefulSpec


------------------------------------------------------------------------------
(* The list as kmalloc walks it. *)

(* Whoever follows the links from the first block meets every block: the   *)
(* one of least rank that was not met would have a block before it.        *)
LEMMA MeetsAll ==
  ASSUME NEW h, Sound(h), NEW first \in DOMAIN h, first # 0, Rooted(h, first),
         NEW seen, first \in seen,
         \A b \in seen : b \in DOMAIN h /\ h[b].next # 0 => h[b].next \in seen
  PROVE  DOMAIN h \subseteq seen
<1>1. SUFFICES ASSUME DOMAIN h \ seen # {} PROVE FALSE
  OBVIOUS
<1>2. PICK rank : Ranks(h, rank)
  BY DEF Sound, Acyclic
<1> DEFINE R == {rank[b] : b \in DOMAIN h \ seen}
<1>3. R \subseteq Nat /\ R # {}
  BY <1>1, <1>2 DEF Ranks
<1>4. PICK x \in R : \A z \in R : ~(z < x)
  BY <1>3, Smallest
<1>5. PICK b \in DOMAIN h \ seen : rank[b] = x
  BY <1>4
<1>6. h[b].prev # 0
  BY <1>5 DEF Rooted
<1>7. PICK p : p = h[b].prev
  OBVIOUS
<1>8. p \in DOMAIN h /\ h[p].next = b /\ b # 0
  BY <1>5, <1>6, <1>7, SoundBlock
<1>9. rank[p] < rank[b] /\ p \notin seen
  BY <1>2, <1>5, <1>8 DEF Ranks
<1>10. QED
  BY <1>4, <1>5, <1>8, <1>9

(* The walk from first: f[k] is the block after k steps, and 0 once the    *)
(* list has ended.                                                         *)
After(h, b) == IF b = 0 THEN 0 ELSE h[b].next

Walks(h, first, m, f) ==
  /\ f \in [0..m -> DOMAIN h \cup {0}] /\ f[0] = first
  /\ \A k \in 1..m : f[k] = After(h, f[k - 1])

LEMMA WalkExists ==
  ASSUME NEW h, Sound(h), NEW first \in DOMAIN h, NEW m \in Nat
  PROVE  \E f : Walks(h, first, m, f)
<1> DEFINE S == {n \in Nat : \E f : Walks(h, first, n, f)}
<1>1. 0 \in S
  <2>1. PICK f : f = [k \in 0..0 |-> first]
    OBVIOUS
  <2>2. Walks(h, first, 0, f)
    BY <2>1 DEF Walks
  <2>3. QED
    BY <2>2
<1>2. ASSUME NEW n \in Nat, n \in S PROVE n + 1 \in S
  <2>1. PICK f : Walks(h, first, n, f)
    BY <1>2
  <2>2. PICK next : next = After(h, f[n])
    OBVIOUS
  <2>3. f[n] \in DOMAIN h \cup {0}
    BY <2>1 DEF Walks
  <2>4. next \in DOMAIN h \cup {0}
    BY <2>2, <2>3, SoundBlock DEF After
  <2>5. PICK g : g = [k \in 0..(n + 1) |-> IF k = n + 1 THEN next ELSE f[k]]
    OBVIOUS
  <2>6. g \in [0..(n + 1) -> DOMAIN h \cup {0}] /\ g[0] = first
    BY <2>1, <2>4, <2>5 DEF Walks
  <2>7. ASSUME NEW k \in 1..(n + 1) PROVE g[k] = After(h, g[k - 1])
    <3>1. CASE k = n + 1
      <4>1. g[k] = next /\ g[k - 1] = f[n]
        BY <2>5, <3>1
      <4>2. QED
        BY <2>2, <4>1
    <3>2. CASE k \in 1..n
      <4>1. g[k] = f[k] /\ g[k - 1] = f[k - 1]
        BY <2>5, <3>2
      <4>2. f[k] = After(h, f[k - 1])
        BY <2>1, <3>2 DEF Walks
      <4>3. QED
        BY <4>1, <4>2
    <3>3. QED
      BY <2>7, <3>1, <3>2
  <2>8. Walks(h, first, n + 1, g)
    BY <2>6, <2>7 DEF Walks
  <2>9. QED
    BY <2>8
<1> HIDE DEF S
<1>3. Nat \subseteq S
  BY <1>1, <1>2, Upwards
<1>4. QED
  BY <1>3 DEF S

(* No block is met twice: the ranks grow along the walk.                   *)
LEMMA WalkClimbs ==
  ASSUME NEW h, Sound(h), NEW rank, Ranks(h, rank), NEW first, NEW m \in Nat, NEW f,
         Walks(h, first, m, f), NEW j \in 0..m, f[j] # 0, NEW i \in 0..(j - 1)
  PROVE  f[i] # 0 /\ rank[f[i]] < rank[f[j]]
<1> DEFINE P(n) == \A k \in 0..(n - 1) : f[n] # 0 => f[k] # 0 /\ rank[f[k]] < rank[f[n]]
           S == {n \in Nat : n <= m => P(n)}
<1>1. 0 \in S
  OBVIOUS
<1>2. ASSUME NEW n \in Nat, n \in S PROVE n + 1 \in S
  <2>1. SUFFICES ASSUME n + 1 <= m, f[n + 1] # 0, NEW k \in 0..n
                 PROVE  f[k] # 0 /\ rank[f[k]] < rank[f[n + 1]]
    OBVIOUS
  <2>2. f[n + 1] = After(h, f[n]) /\ f[n] \in DOMAIN h \cup {0}
        /\ f[k] \in DOMAIN h \cup {0} /\ f[n + 1] \in DOMAIN h \cup {0}
    BY <2>1 DEF Walks
  <2>3. f[n] # 0 /\ f[n] \in DOMAIN h /\ h[f[n]].next = f[n + 1]
    BY <2>1, <2>2 DEF After
  <2>4. rank[f[n]] < rank[f[n + 1]] /\ rank[f[n]] \in Nat /\ rank[f[n + 1]] \in Nat
    BY <2>1, <2>2, <2>3 DEF Ranks
  <2>5. CASE k = n
    BY <2>3, <2>4, <2>5
  <2>6. CASE k \in 0..(n - 1)
    <3>1. f[k] # 0 /\ rank[f[k]] < rank[f[n]]
      BY <1>2, <2>1, <2>3, <2>6
    <3>2. rank[f[k]] \in Nat
      BY <2>2, <3>1 DEF Ranks
    <3>3. QED
      BY <2>4, <3>1, <3>2
  <2>7. QED
    BY <2>1, <2>5, <2>6
<1> HIDE DEF P, S
<1>3. Nat \subseteq S
  BY <1>1, <1>2, Upwards
<1>4. P(j)
  BY <1>3 DEF S
<1>5. QED
  BY <1>4 DEF P

(* With n blocks the walk meets each of them in its first n steps and has  *)
(* then come to the end.                                                   *)
Covers(h, n, f) == {f[k] : k \in 0..(n - 1)} = DOMAIN h /\ f[n] = 0

LEMMA WalkCovers ==
  ASSUME NEW h, Sound(h), NEW first \in DOMAIN h, first # 0, Rooted(h, first),
         IsFiniteSet(DOMAIN h), NEW n, n = Cardinality(DOMAIN h),
         NEW m \in Nat, n <= m, NEW f, Walks(h, first, m, f)
  PROVE  Covers(h, n, f)
<1>1. n \in Nat
  BY FS_CardinalityType
<1>2. 0 \notin DOMAIN h
  BY DEF Sound, ZeroIsFirst, Rooted
<1>3. PICK rank : Ranks(h, rank)
  BY DEF Sound, Acyclic
<1>4. /\ \A k \in 0..m : f[k] \in DOMAIN h \cup {0}
      /\ f[0] = first
      /\ \A k \in 0..(m - 1) : f[k] # 0 => f[k + 1] = h[f[k]].next
  <2>1. \A k \in 0..m : f[k] \in DOMAIN h \cup {0}
    BY DEF Walks
  <2>2. ASSUME NEW k \in 0..(m - 1), f[k] # 0 PROVE f[k + 1] = h[f[k]].next
    <3>1. k + 1 \in 1..m /\ (k + 1) - 1 = k
      BY <2>2
    <3>2. f[k + 1] = After(h, f[(k + 1) - 1])
      BY <3>1 DEF Walks
    <3>3. QED
      BY <2>2, <3>1, <3>2 DEF After
  <2>3. f[0] = first
    BY DEF Walks
  <2>4. QED
    BY <2>1, <2>2, <2>3
<1>5. \A j \in 0..m : \A i \in 0..(j - 1) : f[j] # 0 => f[i] # 0 /\ f[i] # f[j]
  <2>1. SUFFICES ASSUME NEW j \in 0..m, NEW i \in 0..(j - 1), f[j] # 0
                 PROVE  f[i] # 0 /\ f[i] # f[j]
    OBVIOUS
  <2>2. f[i] # 0 /\ rank[f[i]] < rank[f[j]]
    BY <1>3, <2>1, WalkClimbs
  <2>3. rank[f[j]] \in Nat
    BY <1>3, <1>4, <2>1 DEF Ranks
  <2>4. ~(rank[f[j]] < rank[f[j]])
    BY <2>3
  <2>5. QED
    BY <2>2, <2>4
<1>6. \E j \in 0..n : f[j] = 0
  <2>1. SUFFICES ASSUME \A j \in 0..n : f[j] # 0 PROVE FALSE
    OBVIOUS
  <2>2. PICK g : g = [k \in 0..n |-> f[k]]
    OBVIOUS
  <2>3. g \in [0..n -> DOMAIN h]
    BY <1>1, <1>4, <2>1, <2>2
  <2>4. IsFiniteSet(0..n) /\ Cardinality(0..n) = n + 1
    BY <1>1, FS_Interval
  <2>5. Cardinality(DOMAIN h) < Cardinality(0..n)
    BY <1>1, <2>4
  <2>6. PICK x, y \in 0..n : x # y /\ g[x] = g[y]
    BY <2>3, <2>4, <2>5, FS_PigeonHole
  <2>7. f[x] = f[y] /\ (x < y \/ y < x) /\ x \in 0..m /\ y \in 0..m
    BY <1>1, <2>2, <2>6
  <2>8. QED
    BY <1>5, <2>1, <2>6, <2>7
<1> DEFINE Z == {j \in 0..n : f[j] = 0}
<1>7. PICK z \in Z : \A j \in Z : ~(j < z)
  <2>1. Z \subseteq Nat /\ Z # {}
    BY <1>1, <1>6
  <2> HIDE DEF Z
  <2>2. QED
    BY <2>1, Smallest
<1>8. /\ z \in 0..n /\ f[z] = 0 /\ z > 0
      /\ \A k \in 0..(z - 1) : f[k] # 0 /\ f[k] \in DOMAIN h /\ f[k + 1] = h[f[k]].next
  <2>1. z \in 0..n /\ f[z] = 0 /\ z > 0
    BY <1>4, <1>7
  <2>2. ASSUME NEW k \in 0..(z - 1) PROVE f[k] # 0
    BY <1>1, <1>7, <2>1, <2>2
  <2>3. \A k \in 0..(z - 1) : k \in 0..m /\ k \in 0..(m - 1)
    BY <1>1, <2>1
  <2>4. QED
    BY <1>4, <2>1, <2>2, <2>3
<1> HIDE DEF Z
<1> DEFINE seen == {f[k] : k \in 0..(z - 1)}
<1>9. first \in seen
  BY <1>4, <1>8
<1>10. ASSUME NEW b \in seen, h[b].next # 0 PROVE h[b].next \in seen
  <2>1. PICK k \in 0..(z - 1) : b = f[k]
    BY <1>10
  <2>2. f[k + 1] # 0 /\ f[k + 1] = h[b].next
    BY <1>8, <1>10, <2>1
  <2>3. k + 1 \in 0..(z - 1)
    BY <1>8, <2>1, <2>2
  <2>4. QED
    BY <2>2, <2>3
<1>11. DOMAIN h = seen
  <2>1. DOMAIN h \subseteq seen
    <3> HIDE DEF seen
    <3>1. QED
      BY <1>9, <1>10, MeetsAll
  <2>2. QED
    BY <1>8, <2>1
<1>12. z = n
  <2>1. PICK g : g = [k \in 0..(z - 1) |-> f[k]]
    OBVIOUS
  <2>2. g \in Surjection(0..(z - 1), DOMAIN h)
    BY <1>8, <1>11, <2>1 DEF Surjection
  <2>3. IsFiniteSet(0..(z - 1)) /\ Cardinality(0..(z - 1)) = z
    <3>1. PICK y \in Nat : y = z - 1
      BY <1>1, <1>8
    <3>2. IsFiniteSet(0..y) /\ Cardinality(0..y) = y + 1
      BY <3>1, FS_Interval
    <3>3. QED
      BY <1>8, <3>1, <3>2
  <2>4. n <= z
    BY <2>2, <2>3, FS_Surjection
  <2>5. QED
    BY <1>1, <1>8, <2>4
<1>13. QED
  BY <1>8, <1>11, <1>12 DEF Covers

(* Chain of module Heap is that walk.                                      *)
LEMMA ChainWalks ==
  ASSUME NEW h, h = hdr, NEW first, first = head, Sound(h), first \in DOMAIN h
  PROVE  Walks(h, first, PageSize * BitmapBits, Chain)
<1>1. PICK m \in Nat : m = PageSize * BitmapBits
  BY PmmAssumption DEF PageSize
<1> DEFINE Rule(f, n) == IF n = 0 THEN first
                         ELSE LET b == f[n - 1] IN IF b = 0 THEN 0 ELSE h[b].next
<1>2. Chain = CHOOSE f : f = [n \in 0..m |-> Rule(f, n)]
  BY <1>1, Zenon DEF Chain
<1>3. PICK f : Walks(h, first, m, f)
  BY WalkExists
<1>4. f = [n \in 0..m |-> Rule(f, n)]
  <2>1. f \in [0..m -> DOMAIN h \cup {0}]
    BY <1>3 DEF Walks
  <2>2. ASSUME NEW n \in 0..m PROVE f[n] = Rule(f, n)
    BY <1>3, <2>2 DEF Walks, After
  <2> HIDE DEF Rule
  <2>3. QED
    BY <2>1, <2>2
<1>5. Chain = [n \in 0..m |-> Rule(Chain, n)]
  <2> HIDE DEF Rule
  <2>1. QED
    BY <1>2, <1>4, Zenon
<1>6. PICK c : c = Chain
  OBVIOUS
<1>7. c = [n \in 0..m |-> Rule(c, n)]
  BY <1>5, <1>6, Zenon
<1>8. c[0] = first /\ \A k \in 1..m : c[k] = After(h, c[k - 1])
  BY <1>7 DEF After
<1>9. c \in [0..m -> DOMAIN h \cup {0}]
  <2> DEFINE S == {n \in Nat : n <= m => c[n] \in DOMAIN h \cup {0}}
  <2>1. 0 \in S
    BY <1>8
  <2>2. ASSUME NEW n \in Nat, n \in S PROVE n + 1 \in S
    <3>1. SUFFICES ASSUME n + 1 <= m PROVE c[n + 1] \in DOMAIN h \cup {0}
      OBVIOUS
    <3>2. c[n] \in DOMAIN h \cup {0}
      BY <2>2, <3>1
    <3>3. c[n + 1] = After(h, c[n])
      <4>1. n + 1 \in 1..m /\ (n + 1) - 1 = n
        BY <3>1
      <4>2. QED
        BY <1>8, <4>1
    <3>4. QED
      BY <3>2, <3>3, SoundBlock DEF After
  <2> HIDE DEF S
  <2>3. Nat \subseteq S
    BY <2>1, <2>2, Upwards
  <2>4. \A n \in 0..m : c[n] \in DOMAIN h \cup {0}
    BY <2>3 DEF S
  <2>5. DOMAIN c = 0..m /\ c = [n \in DOMAIN c |-> c[n]]
    <3> HIDE DEF Rule
    <3>1. QED
      BY <1>7
  <2>6. QED
    BY <2>4, <2>5
<1>10. Walks(h, first, m, c)
  BY <1>8, <1>9 DEF Walks
<1>11. QED
  BY <1>1, <1>6, <1>10

(* The blocks lie in pages the heap holds, so there are finitely many.     *)
LEMMA BlocksCounted ==
  ASSUME IInv, Listed(hdr, head, held), head # 0
  PROVE  IsFiniteSet(DOMAIN hdr) /\ Cardinality(DOMAIN hdr) <= PageSize * BitmapBits
<1>1. /\ Word \in Nat /\ Word = BitmapBits * 4096 /\ BitmapBits \in Nat \ {0}
  BY PmmAssumption DEF PageSize
<1>2. head \in held
  BY DEF Listed
<1>3. ASSUME NEW b \in DOMAIN hdr PROVE b \in 0..(Word - 1)
  <2>1. b \in Nat /\ hdr[b].size \in Nat
    BY SoundBlock DEF Listed
  <2>2. b \in b..(EndIn(hdr, b) - 1)
    BY <2>1 DEF EndIn, Hdr
  <2>3. Page(b) \in held
    BY <1>2, <2>2 DEF Listed, Within
  <2>4. PICK a : a = Page(b)
    OBVIOUS
  <2>5. a \in Nat /\ a < Word /\ a % 4096 = 0
    <3>1. a \in held
      BY <2>3, <2>4
    <3>2. a \in 0..(Word - 1) /\ a % PageSize = 0
      BY <3>1 DEF IInv, TypeOK, HeldAligned
    <3>3. QED
      BY <1>1, <3>2 DEF PageSize
  <2>6. b < a + 4096
    BY <2>1, <2>4 DEF Page, PageSize
  <2>7. a + 4096 <= Word
    BY <1>1, <2>5
  <2>8. QED
    BY <1>1, <2>1, <2>5, <2>6, <2>7
<1>4. IsFiniteSet(0..(Word - 1)) /\ Cardinality(0..(Word - 1)) = Word
  BY <1>1, FS_Interval
<1>5. DOMAIN hdr \in SUBSET (0..(Word - 1))
  BY <1>3
<1>6. IsFiniteSet(DOMAIN hdr) /\ Cardinality(DOMAIN hdr) <= Word
  BY <1>4, <1>5, FS_Subset
<1>7. QED
  BY <1>1, <1>6 DEF PageSize

------------------------------------------------------------------------------
(* Theorems. *)

(* Before heap_init nothing is held.                                       *)
LEMMA StoppedHeap ==
  ASSUME HInv, ~heapUp
  PROVE  InUseIsHeld /\ LiveDisjoint
<1>1. DOMAIN hdr = {} /\ DOMAIN live = {}
  BY DEF HInv, Started
<1>2. QED
  BY <1>1, Zenon DEF InUseIsHeld, LiveDisjoint, Blocks

(* Whatever the memory map, the sizes asked for and the order of the       *)
(* calls, a caller's memory is one block in use of the size asked for, and *)
(* kfree and its merging leave nobody else's block free or gone            *)
(* (heap.c:26-90), as long as the requests are such that the search meets  *)
(* a free block first.                                                     *)
THEOREM HeldBlocksStay == CarefulSpec => [](BitmapCoversMap => InUseIsHeld)
<1>1. ASSUME HInv, BitmapCoversMap PROVE InUseIsHeld
  <2>1. CASE heapUp
    <3>1. Owners(hdr, live)
      BY <1>1, <2>1 DEF HInv, Working
    <3>2. QED
      BY <3>1 DEF Owners, InUseIsHeld, Blocks
  <2>2. CASE ~heapUp
    BY <1>1, <2>2, StoppedHeap
  <2>3. QED
    BY <2>1, <2>2
<1>2. QED
  BY <1>1, CarefulInv, PTL

(* In the same runs no byte is given to two callers (heap.c:14-90).        *)
THEOREM CallersDisjoint == CarefulSpec => [](BitmapCoversMap => LiveDisjoint)
<1>1. ASSUME HInv, BitmapCoversMap PROVE LiveDisjoint
  <2>1. CASE ~heapUp
    BY <1>1, <2>1, StoppedHeap
  <2>2. CASE heapUp
    <3>1. Owners(hdr, live) /\ Sound(hdr)
      BY <1>1, <2>2 DEF HInv, Working, Listed
    <3>2. ASSUME NEW c \in DOMAIN live, NEW d \in DOMAIN live, live[c].ptr < live[d].ptr
          PROVE  live[c].ptr + live[c].size <= live[d].ptr
      <4>1. PICK a, b : a = live[c].ptr - Hdr /\ b = live[d].ptr - Hdr
        OBVIOUS
      <4>2. /\ a \in DOMAIN hdr /\ b \in DOMAIN hdr /\ hdr[a].size >= live[c].size
            /\ live[c].ptr \in Nat /\ live[d].ptr \in Nat /\ live[c].size \in Nat
        <5>1. live[c] \in [ptr : Nat, size : Nat] /\ live[d] \in [ptr : Nat, size : Nat]
          BY <3>1 DEF Owners
        <5>2. QED
          BY <3>1, <4>1, <5>1 DEF Owners
      <4>3. a \in Nat /\ b \in Nat /\ hdr[a].size \in Nat
        BY <3>1, <4>2, SoundBlock
      <4>4. a < b
        BY <3>2, <4>1, <4>2 DEF Hdr
      <4>5. EndIn(hdr, a) <= b
        BY <3>1, <4>2, <4>4 DEF Sound, Apart
      <4>6. QED
        BY <4>1, <4>2, <4>3, <4>5 DEF EndIn, Hdr
    <3>3. ASSUME NEW c \in DOMAIN live, NEW d \in DOMAIN live, c # d
          PROVE  live[c].ptr < live[d].ptr \/ live[d].ptr < live[c].ptr
      <4>1. live[c] \in [ptr : Nat, size : Nat] /\ live[d] \in [ptr : Nat, size : Nat]
        BY <3>1 DEF Owners
      <4>2. live[c].ptr # live[d].ptr
        BY <3>1, <3>3 DEF Owners
      <4>3. QED
        BY <4>1, <4>2
    <3>4. QED
      BY <3>2, <3>3 DEF LiveDisjoint
  <2>3. QED
    BY <2>1, <2>2
<1>2. QED
  BY <1>1, CarefulInv, PTL


(* The headers are well formed whatever was split and joined: blocks never *)
(* overlap, the links of neighbours agree in both directions, and the list *)
(* has no cycle, so that the search of kmalloc comes to an end             *)
(* (heap.c:14-24, 30-60, 70-87).                                           *)
THEOREM ListSound == CarefulSpec => [](BitmapCoversMap /\ heapUp => Sound(hdr))
<1>1. HInv => (BitmapCoversMap /\ heapUp => Sound(hdr))
  BY DEF HInv, Working, Listed
<1>2. QED
  BY <1>1, CarefulInv, PTL

(* Every variable of the heap keeps its type; in particular the links      *)
(* point to blocks and nothing else (heap.h:15-20).                        *)
THEOREM HeapTypes == CarefulSpec => [](BitmapCoversMap => HeapTypeOK)
<1>1. ASSUME HInv, BitmapCoversMap PROVE HeapTypeOK
  <2>1. TypeOK /\ heapUp \in BOOLEAN
    BY <1>1 DEF HInv, IInv, Started
  <2>2. CASE ~heapUp
    <3>1. hdr = [a \in {} |-> 0] /\ live = [c \in {} |-> 0] /\ head = 0 /\ search = Idle
      BY <1>1, <2>2 DEF HInv, Started
    <3>2. Blocks = {} /\ DOMAIN live = {}
      BY <3>1 DEF Blocks
    <3>3. hdr \in [Blocks -> HeaderType] /\ live \in [DOMAIN live -> [ptr : Nat, size : Nat]]
      BY <3>1, <3>2
    <3>4. search \in SearchType
      BY <3>1 DEF SearchType
    <3>5. QED
      BY <2>1, <3>1, <3>2, <3>3, <3>4 DEF HeapTypeOK
  <2>3. CASE heapUp
    <3>1. Listed(hdr, head, held) /\ Owners(hdr, live) /\ Searching(hdr, head, live, search)
      BY <1>1, <2>3 DEF HInv, Working
    <3>2. Blocks \subseteq Nat /\ hdr \in [Blocks -> HeaderType] /\ head \in Blocks
      BY <3>1 DEF Listed, Sound, Typed, Record, HeaderType, Blocks
    <3>3. DOMAIN live \subseteq Client /\ live \in [DOMAIN live -> [ptr : Nat, size : Nat]]
      BY <3>1 DEF Owners
    <3>4. search \in SearchType
      BY <3>1 DEF Searching, SearchType, Blocks
    <3>5. QED
      BY <2>1, <3>2, <3>3, <3>4 DEF HeapTypeOK
  <2>4. QED
    BY <2>2, <2>3
<1>2. QED
  BY <1>1, CarefulInv, PTL

(* kfree leaves no two free neighbours apart, and neither splitting nor a  *)
(* fresh page makes any (heap.c:53-90).                                    *)
THEOREM NeighboursCoalesced == CarefulSpec => [](BitmapCoversMap => Coalesced)
<1>1. ASSUME HInv, BitmapCoversMap PROVE Coalesced
  <2>1. CASE ~heapUp
    BY <1>1, <2>1 DEF HInv, Started, Coalesced
  <2>2. CASE heapUp
    <3>1. CoalescedBut(hdr, 0)
      BY <1>1, <2>2 DEF HInv, Working
    <3>2. QED
      BY <3>1 DEF CoalescedBut, Together, Coalesced, Touch, End, EndIn, Blocks
  <2>3. QED
    BY <2>1, <2>2
<1>2. QED
  BY <1>1, CarefulInv, PTL

(* The list stays linked in both directions, and from head on it reaches   *)
(* every block and ends, whatever was split, joined and appended, so that  *)
(* the search of kmalloc misses nothing and comes to an end                *)
(* (heap.c:18-22, 54-56, 74-76, 84-86).                                    *)
THEOREM ListIsIntact == CarefulSpec => [](BitmapCoversMap => ListIntact)
<1>1. ASSUME HInv, BitmapCoversMap, heapUp, head # 0 PROVE Linked /\ AllReachable
  <2>1. Listed(hdr, head, held) /\ IInv
    BY <1>1 DEF HInv, Working
  <2>2. Linked
    BY <2>1 DEF Listed, Sound, Chained, Linked, Blocks
  <2>3. PICK h, first, n : h = hdr /\ first = head /\ n = Cardinality(DOMAIN h)
    OBVIOUS
  <2>4. Sound(h) /\ first \in DOMAIN h /\ first # 0 /\ Rooted(h, first)
    BY <1>1, <2>1, <2>3 DEF Listed
  <2>5. IsFiniteSet(DOMAIN h) /\ n <= PageSize * BitmapBits
    BY <1>1, <2>1, <2>3, BlocksCounted
  <2>6. Walks(h, first, PageSize * BitmapBits, Chain)
    BY <2>3, <2>4, ChainWalks
  <2>7. PageSize * BitmapBits \in Nat
    BY PmmAssumption DEF PageSize
  <2>8. PICK c, m : c = Chain /\ m = PageSize * BitmapBits
    OBVIOUS
  <2>9. Covers(h, n, c)
    <3>1. m \in Nat /\ n <= m /\ Walks(h, first, m, c)
      BY <2>5, <2>6, <2>7, <2>8
    <3>2. n = Cardinality(DOMAIN h) /\ IsFiniteSet(DOMAIN h)
      BY <2>3, <2>5
    <3>3. QED
      BY <2>4, <3>1, <3>2, WalkCovers
  <2>10. AllReachable
    BY <2>3, <2>8, <2>9, Zenon DEF AllReachable, Blocks, Covers
  <2>11. QED
    BY <2>2, <2>10
<1>2. HInv => (BitmapCoversMap => ListIntact)
  BY <1>1 DEF ListIntact
<1>3. QED
  BY <1>2, CarefulInv, PTL

(* Where kmalloc can follow the list at all, it takes a new page, or       *)
(* refuses, only when no free block fits (heap.h:8, heap.c:31-60): the     *)
(* blocks it walked past are all of the list, and all too small.           *)
THEOREM NewPageWhenNoFit == CarefulSpec /\ []BitmapCoversMap => ListedBeforeNewPage
<1> DEFINE Took == held' # held \/ (~search'.active /\ live' = live)
<1>1. ASSUME HInv, BitmapCoversMap, [CarefulNext]_vars, head # 0, search.active, Took
      PROVE  NoFit(search.size)
  <2>1. heapUp /\ search # Idle /\ Ready
    BY <1>1 DEF HInv, Started, Idle
  <2>2. Working
    BY <1>1, <2>1 DEF HInv
  <2>3. SearchState(search)
    BY <1>1, <2>2, SearchFacts
  <2>4. CASE SearchEnd
    <3>1. PICK h, size, first : h = hdr /\ size = search.size /\ first = head
      OBVIOUS
    <3>2. search.block = 0
      BY <2>4 DEF SearchEnd
    <3>3. PICK seen \in SUBSET (DOMAIN h \ {0}) :
            /\ first \in seen \cup {0}
            /\ \A b \in seen : h[b].size < size /\ h[b].next \in seen \cup {0}
      BY <2>3, <3>1, <3>2, Zenon DEF SearchState, Passed
    <3>4. Sound(h) /\ first \in DOMAIN h /\ first # 0 /\ Rooted(h, first)
      BY <1>1, <2>2, <3>1 DEF Working, Listed
    <3>5. first \in seen /\ \A b \in seen : h[b].next # 0 => h[b].next \in seen
      BY <3>3, <3>4
    <3>6. DOMAIN h \subseteq seen
      BY <3>4, <3>5, MeetsAll
    <3>7. \A b \in DOMAIN h : h[b].size < size
      BY <3>3, <3>6
    <3>8. QED
      BY <3>1, <3>7, Zenon DEF NoFit, Blocks
  <2>5. CASE BootPmm
    BY <2>1, <2>5 DEF BootPmm, pmm_init, Ready
  <2>6. CASE heap_init
    BY <2>1, <2>6 DEF heap_init
  <2>7. CASE SearchNext
    <3>1. held' = held /\ search'.active
      BY <2>7 DEF SearchNext, pmmVars
    <3>2. QED
      BY <1>1, <3>1
  <2>8. CASE SearchHit
    <3>1. held' = held /\ GiveTo(search.who, search.block, search.size)
      BY <2>8 DEF SearchHit, pmmVars
    <3>2. search.who \in DOMAIN live'
      BY <3>1 DEF GiveTo
    <3>3. search.who \notin DOMAIN live
      BY <2>3 DEF SearchState
    <3>4. QED
      BY <1>1, <3>1, <3>2, <3>3
  <2>9. CASE \E c \in Client : Free(c)
    BY <2>1, <2>9 DEF Free
  <2>10. CASE \E c \in Client, s \in Sizes : Careful(s) /\ kmalloc(c, s)
    BY <2>1, <2>10 DEF kmalloc
  <2>11. CASE UNCHANGED vars
    <3>1. held' = held /\ search' = search
      BY <2>11 DEF vars, pmmVars, heapVars
    <3>2. QED
      BY <1>1, <3>1
  <2>12. QED
    BY <1>1, <2>4, <2>5, <2>6, <2>7, <2>8, <2>9, <2>10, <2>11 DEF CarefulNext, Step
<1>2. HInv /\ BitmapCoversMap /\ [CarefulNext]_vars
        => [head # 0 /\ search.active /\ Took => NoFit(search.size)]_vars
  BY <1>1
<1> HIDE DEF Took
<1>3. CarefulSpec => []HInv /\ [][CarefulNext]_vars
  BY CarefulInv, PTL DEF CarefulSpec
<1>4. QED
  BY <1>2, <1>3, PTL DEF ListedBeforeNewPage, Took

(* Where pmm_alloc gave heap_init a page, the blocks tile the pages of the *)
(* heap without gap or overlap, headers included, after every split and    *)
(* every join: no byte is lost and none is in two blocks (heap.c:14-24,    *)
(* 50-60, 70-87).                                                          *)
THEOREM BlocksTile == CarefulSpec => [](BitmapCoversMap /\ (heapUp => head \in held) => Tiling)
<1>1. ASSUME HInv, BitmapCoversMap, heapUp, head \in held PROVE Tiling
  <2>1. Listed(hdr, head, held) /\ Filled(hdr, Room(held, head))
    BY <1>1 DEF HInv, Working
  <2>2. ASSUME NEW b \in Blocks, NEW c \in Blocks, b < c PROVE End(b) <= c
    BY <2>1, <2>2 DEF Listed, Sound, Apart, Blocks, End, EndIn
  <2>3. held \cup {head} = held
    BY <1>1
  <2>4. ASSUME NEW b \in Blocks, NEW a \in {b, End(b) - 1} PROVE a - (a % PageSize) \in held
    <3>1. b \in DOMAIN hdr /\ b \in Nat /\ hdr[b].size \in Nat
      BY <2>1, <2>4, SoundBlock DEF Blocks, Listed
    <3>2. a \in b..(EndIn(hdr, b) - 1)
      BY <2>4, <3>1 DEF End, EndIn, Hdr
    <3>3. QED
      BY <2>1, <2>3, <3>1, <3>2 DEF Listed, Within, Page
  <2>5. Fold!MapThenSumSet(LAMBDA b : hdr[b].size + Hdr, Blocks) = PageSize * Cardinality(held)
    BY <2>1, <2>3, Zenon DEF Filled, Total, Room, Blocks
  <2>6. QED
    BY <2>2, <2>4, <2>5 DEF Tiling
<1>2. ASSUME HInv, ~heapUp PROVE Tiling
  <2>1. Blocks = {}
    BY <1>2 DEF HInv, Started, Blocks
  <2>2. QED
    BY <1>2, <2>1, Zenon DEF Tiling
<1>3. HInv => (BitmapCoversMap /\ (heapUp => head \in held) => Tiling)
  BY <1>1, <1>2 DEF HInv, Started
<1>4. QED
  BY <1>3, CarefulInv, PTL

===============================================================================
