--------------------------------- MODULE Heap ---------------------------------
(***************************************************************************)
(* The kernel heap, kernel/heap.c, on top of the physical memory manager.  *)
(*                                                                         *)
(* The headers in memory are a function from addresses to header records.  *)
(* kmalloc's walk along the block list is one step per block, so that the  *)
(* walk needs no recursion; nothing else runs in between, for the heap is  *)
(* not used by interrupt handlers.  The callers are any kernel code that   *)
(* frees exactly what it was given: each client holds at most one block.   *)
(***************************************************************************)
EXTENDS Pmm

Fold == INSTANCE FiniteSetsExt

CONSTANTS
  Client,        \* those who may hold a block at the same time
  Sizes          \* the sizes they ask for

Hdr      == 24                   \* sizeof(block_header_t)
MinSplit == Hdr + 4              \* the rest of a split must be this large
MaxSize  == PageSize - Hdr

ASSUME HeapAssumption == Sizes \subseteq Nat

VARIABLES
  heapUp,        \* heap_init has run
  head,
  hdr,           \* block headers by address; 0 is the null pointer and also a legal address
  search,        \* the kmalloc in progress
  live           \* live[c]: the block client c was given and has not freed

heapVars == <<heapUp, head, hdr, search, live>>
vars == <<pmmVars, heapVars>>

Blocks == DOMAIN hdr
End(b) == b + Hdr + hdr[b].size

Header(size, in_use, next, prev) ==
  [size |-> size, in_use |-> in_use, next |-> next, prev |-> prev]

Idle == [active |-> FALSE]

(* kmalloc declares old_block without a value (heap.c:31).  When the list  *)
(* is empty it is used like that; the build of the Makefile (gcc -O2) has  *)
(* zeroed its register by then.                                            *)
UninitPtr == 0

------------------------------------------------------------------------------

HeapInit ==
  /\ Init
  /\ heapUp = FALSE
  /\ head = 0
  /\ hdr = [a \in {} |-> 0]
  /\ search = Idle
  /\ live = [c \in {} |-> 0]

BootPmm == pmm_init /\ UNCHANGED heapVars

(* The page is used without looking whether pmm_alloc returned one.        *)
heap_init ==
  /\ Ready /\ ~heapUp
  /\ pmm_alloc
  /\ head' = ret'
  /\ hdr' = [a \in {ret'} |-> Header(MaxSize, FALSE, 0, 0)]
  /\ heapUp' = TRUE
  /\ UNCHANGED <<search, live>>

(* Mutants: the rest keeps the room of its own header; the block behind it *)
(* does not learn of its new neighbour.                                    *)
resize_block_BigRest(h, b, size) ==
  [a \in DOMAIN h \cup {b + Hdr + size} |->
     CASE a = b + Hdr + size -> Header(h[b].size - size, FALSE, h[b].next, b)
       [] a = b -> [h[b] EXCEPT !.size = size, !.next = b + Hdr + size]
       [] a = h[b].next /\ h[b].next # 0 -> [h[a] EXCEPT !.prev = b + Hdr + size]
       [] OTHER -> h[a]]

resize_block_NoBack(h, b, size) ==
  [a \in DOMAIN h \cup {b + Hdr + size} |->
     CASE a = b + Hdr + size -> Header(h[b].size - (size + Hdr), FALSE, h[b].next, b)
       [] a = b -> [h[b] EXCEPT !.size = size, !.next = b + Hdr + size]
       [] OTHER -> h[a]]

(* The headers h after block b of h is cut to size bytes, the rest becoming *)
(* a free block behind it; b is then marked in use.                         *)
resize_block(h, b, size) ==
  LET new == b + Hdr + size
      nxt == h[b].next
  IN  [a \in DOMAIN h \cup {new} |->
         CASE a = new -> Header(h[b].size - (size + Hdr), FALSE, nxt, b)
           [] a = b   -> [h[b] EXCEPT !.size = size, !.next = new]
           [] a = nxt /\ nxt # 0 -> [h[a] EXCEPT !.prev = new]
           [] OTHER   -> h[a]]

(* A block that fits is split when the rest can hold a header and 4 bytes. *)
Carve(h, b, size) ==
  LET cut == IF h[b].size - size >= MinSplit THEN resize_block(h, b, size) ELSE h
  IN  [cut EXCEPT ![b].in_use = TRUE]

GiveTo(c, b, size) ==
  live' = [d \in DOMAIN live \cup {c} |->
             IF d = c THEN [ptr |-> b + Hdr, size |-> size] ELSE live[d]]

(* Mutant: the search starts behind the first block. *)
kmalloc_SkipsHead(c, size) ==
  /\ heapUp /\ search = Idle /\ c \notin DOMAIN live
  /\ size <= MaxSize
  /\ search' = [active |-> TRUE, who |-> c, size |-> size,
                block |-> hdr[head].next, old_block |-> head]
  /\ UNCHANGED <<pmmVars, heapUp, head, hdr, live>>

kmalloc(c, size) ==
  /\ heapUp /\ search = Idle /\ c \notin DOMAIN live
  /\ size <= MaxSize             \* a larger one returns 0 at once and changes nothing
  /\ search' = [active |-> TRUE, who |-> c, size |-> size,
                block |-> head, old_block |-> UninitPtr]
  /\ UNCHANGED <<pmmVars, heapUp, head, hdr, live>>

(* The loop of kmalloc: on to the next block ... *)
SearchNext ==
  /\ search.active /\ search.block # 0
  /\ hdr[search.block].size < search.size
  /\ search' = [search EXCEPT !.old_block = search.block, !.block = hdr[search.block].next]
  /\ UNCHANGED <<pmmVars, heapUp, head, hdr, live>>

(* ... or take this one.  The size decides; in_use is not looked at. *)
SearchHit ==
  /\ search.active /\ search.block # 0
  /\ hdr[search.block].size >= search.size
  /\ hdr' = Carve(hdr, search.block, search.size)
  /\ GiveTo(search.who, search.block, search.size)
  /\ search' = Idle
  /\ UNCHANGED <<pmmVars, heapUp, head>>

(* No block fits: a fresh page is linked behind the last block seen. *)
SearchEnd ==
  /\ search.active /\ search.block = 0
  /\ pmm_alloc
  /\ \/ /\ ret' = 0
        /\ UNCHANGED <<hdr, live>>
     \/ /\ ret' # 0
        /\ LET old    == search.old_block
               linked == [a \in Blocks \cup {ret'} |->
                            CASE a = ret' -> Header(MaxSize, FALSE, 0, old)
                              [] a = old  -> [hdr[a] EXCEPT !.next = ret']
                              [] OTHER    -> hdr[a]]
           IN  hdr' = Carve(linked, ret', search.size)
        /\ GiveTo(search.who, ret', search.size)
  /\ search' = Idle
  /\ UNCHANGED <<heapUp, head>>

(* The headers after b was freed and joined with the block before it, if   *)
(* withPrev, and then with the block behind it, if withNext.               *)
Joined(b, withPrev, withNext) ==
  LET n     == hdr[b].next
      first == IF withPrev THEN hdr[b].prev ELSE b
      end   == IF withNext THEN End(n) ELSE End(b)
      nxt   == IF withNext THEN hdr[n].next ELSE n
      gone  == {a \in {b} : withPrev} \cup {a \in {n} : withNext}
  IN  [a \in Blocks \ gone |->
         CASE a = first -> Header(end - first - Hdr, FALSE, nxt, hdr[first].prev)
           [] a = nxt /\ nxt # 0 /\ gone # {} -> [hdr[a] EXCEPT !.prev = first]
           [] OTHER -> hdr[a]]

(* Two neighbours on the list that touch each other in memory. *)
Touch(a, b) == a # 0 /\ b # 0 /\ End(a) = b

FreePrev(b) == Touch(hdr[b].prev, b) /\ ~hdr[hdr[b].prev].in_use
FreeNext(b) == Touch(b, hdr[b].next) /\ ~hdr[hdr[b].next].in_use

Freed(c, newHdr) ==
  /\ hdr' = newHdr
  /\ live' = [d \in DOMAIN live \ {c} |-> live[d]]
  /\ UNCHANGED <<pmmVars, heapUp, head, search>>

BlockOf(c) == live[c].ptr - Hdr

(* Mutants: joined with a block in use; the block behind a joined one is   *)
(* left with its old prev; a block is left in use; only one side is joined.*)
kfree_JoinsInUse(c) ==
  LET b == BlockOf(c) IN Freed(c, Joined(b, Touch(hdr[b].prev, b), FreeNext(b)))

kfree_StalePrev(c) ==
  LET b == BlockOf(c)
      j == Joined(b, FreePrev(b), FreeNext(b))
      n == hdr[b].next
  IN  Freed(c, [a \in DOMAIN j |-> IF FreeNext(b) /\ a = hdr[n].next
                                   THEN hdr[a] ELSE j[a]])

kfree_StaysInUse(c) ==
  LET b == BlockOf(c)
      j == Joined(b, FreePrev(b), FreeNext(b))
  IN  Freed(c, IF FreePrev(b) THEN j ELSE [j EXCEPT ![b].in_use = TRUE])

kfree_PrevOnly(c) == LET b == BlockOf(c) IN Freed(c, Joined(b, FreePrev(b), FALSE))

(* kfree joins the block with the free blocks that touch it. *)
kfree(c) ==
  LET b == BlockOf(c) IN Freed(c, Joined(b, FreePrev(b), FreeNext(b)))

Free(c) == heapUp /\ search = Idle /\ c \in DOMAIN live /\ kfree(c)

------------------------------------------------------------------------------

Step ==
  \/ BootPmm
  \/ heap_init
  \/ SearchNext
  \/ SearchHit
  \/ SearchEnd
  \/ \E c \in Client : Free(c)

HeapNext == Step \/ \E c \in Client, s \in Sizes : kmalloc(c, s)

HeapSpec == HeapInit /\ [][HeapNext]_vars

(* Since the search ignores in_use, a request is certain to get a block of *)
(* its own only when the first block that is large enough is a free one:   *)
(* path holds the blocks the search visits.                                *)
Careful(size) ==
  \E path \in SUBSET (Blocks \ {0}) :
    /\ head \in path \cup {0}
    /\ \A b \in path : IF hdr[b].size < size THEN hdr[b].next \in path \cup {0}
                                           ELSE ~hdr[b].in_use

CarefulNext == Step \/ \E c \in Client, s \in Sizes : Careful(s) /\ kmalloc(c, s)

CarefulSpec == HeapInit /\ [][CarefulNext]_vars

------------------------------------------------------------------------------
(* Properties *)

HeaderType ==
  [size : Nat, in_use : BOOLEAN, next : Blocks \cup {0}, prev : Blocks \cup {0}]

SearchType ==
  {Idle} \cup [active : {TRUE}, who : Client \ DOMAIN live, size : 0..MaxSize,
               block : Blocks \cup {0}, old_block : Blocks \cup {0}]

HeapTypeOK ==
  /\ TypeOK
  /\ heapUp \in BOOLEAN
  /\ Blocks \subseteq Nat
  /\ hdr \in [Blocks -> HeaderType]
  /\ head \in Blocks \cup {0}
  /\ search \in SearchType
  /\ DOMAIN live \subseteq Client
  /\ live \in [DOMAIN live -> [ptr : Nat, size : Nat]]

(* No byte belongs to two callers: the blocks two clients hold do not      *)
(* overlap, whatever was split and merged in between (heap.c:14-90).       *)
LiveDisjoint ==
  \A c, d \in DOMAIN live :
    c # d => \/ live[c].ptr + live[c].size <= live[d].ptr
             \/ live[d].ptr + live[d].size <= live[c].ptr
             \/ live[c].size = 0 /\ live[d].size = 0 /\ live[c].ptr # live[d].ptr

(* What a client holds is backed by exactly one block in use that is large *)
(* enough, and every block in use is held: merging never swallows a block  *)
(* somebody holds, and a freed block is never left marked                  *)
(* (heap.c:37, 42, 61, 72, 82, 89).                                        *)
InUseIsHeld ==
  /\ \A c \in DOMAIN live :
       LET b == live[c].ptr - Hdr
       IN  b \in Blocks /\ hdr[b].in_use /\ hdr[b].size >= live[c].size
  /\ \A c, d \in DOMAIN live : c # d => live[c].ptr # live[d].ptr
  /\ \A b \in Blocks : hdr[b].in_use => \E c \in DOMAIN live : live[c].ptr = b + Hdr

(* The blocks tile the pages the heap took: no two overlap, each lies in   *)
(* pages the heap holds, and together they are as large as those pages     *)
(* (sizes written at heap.c:16, 23, 57, 73, 83).                           *)
Tiling ==
  /\ \A b, c \in Blocks : b < c => End(b) <= c
  /\ \A b \in Blocks : \A a \in {b, End(b) - 1} : a - (a % PageSize) \in held
  /\ heapUp => Fold!MapThenSumSet(LAMBDA b : hdr[b].size + Hdr, Blocks) = PageSize * Cardinality(held)

Linked ==
  \A b \in Blocks :
    /\ hdr[b].next # 0 => hdr[hdr[b].next].prev = b
    /\ hdr[b].prev # 0 => hdr[hdr[b].prev].next = b

Chain[n \in 0..(PageSize * BitmapBits)] ==
  IF n = 0 THEN head ELSE LET b == Chain[n - 1] IN IF b = 0 THEN 0 ELSE hdr[b].next

AllReachable ==
  /\ {Chain[n] : n \in 0..(Cardinality(Blocks) - 1)} = Blocks
  /\ Chain[Cardinality(Blocks)] = 0

(* The list is linked in both directions, reaches every block from head    *)
(* and ends, so that the search of kmalloc terminates and misses nothing   *)
(* (heap.c:18-22, 54-56, 74-76, 84-86).  A list that begins at address 0   *)
(* is one that kmalloc takes for empty.                                    *)
ListIntact == heapUp /\ head # 0 => Linked /\ AllReachable

(* kfree leaves no two free neighbours apart (heap.c:70-87): blocks next   *)
(* to each other on the list and in memory are never both free.  A block   *)
(* at address 0 is nobody's neighbour.                                     *)
Coalesced ==
  head # 0 =>
    \A b \in Blocks : Touch(b, hdr[b].next) => hdr[b].in_use \/ hdr[hdr[b].next].in_use

(* "it looks for an empty block that's big enough" (heap.h:8): a new page  *)
(* is taken, or the request refused, only when no free block fits.         *)
NoFit(size) == \A b \in Blocks : hdr[b].in_use \/ hdr[b].size < size

PageOnlyWhenNoFit ==
  [][search.active /\ (held' # held \/ (~search'.active /\ live' = live))
       => NoFit(search.size)]_vars

(* The same where kmalloc can follow the list at all.                      *)
ListedBeforeNewPage ==
  [][head # 0 /\ search.active /\ (held' # held \/ (~search'.active /\ live' = live))
       => NoFit(search.size)]_vars

==============================================================================
