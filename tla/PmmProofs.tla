------------------------------ MODULE PmmProofs ------------------------------
(***************************************************************************)
(* Theorems about Pmm for every memory map and every size of the bitmap.   *)
(***************************************************************************)
EXTENDS Pmm, FiniteSetTheorems, TLAPS

(* Addresses a caller holds: page aligned, inside a uint32_t, and handed   *)
(* out only after pmm_init is done.                                        *)
HeldAligned ==
  /\ \A a \in held : a % PageSize = 0
  /\ ~Ready => held = {}

(* While the bitmap covers the map, the page of every held address is      *)
(* marked.                                                                 *)
HeldMarked ==
  BitmapCoversMap => \A a \in held : PageOf(a) \in bitmap

(* The inductive invariant behind the theorems on types and holders.       *)
IInv == TypeOK /\ HeldAligned /\ HeldMarked

------------------------------------------------------------------------------
(* Arithmetic of pages and addresses. *)

(* Taking a uint32_t modulo 2^32 changes nothing below 2^32 and always     *)
(* lands below it (the casts of pmm.c:27, 50, 59).                         *)
LEMMA WordRange ==
  ASSUME NEW x \in Nat
  PROVE  /\ Word \in Nat \ {0}
         /\ x % Word \in 0..(Word - 1)
         /\ x < Word => x % Word = x
<1>1. Word \in Nat \ {0}
  BY PmmAssumption DEF PageSize
<1>2. QED
  BY <1>1, SMT

(* The page of an aligned address gives the address back, and so two       *)
(* aligned addresses with the same page are equal (pmm.c:50, 59).          *)
LEMMA AddressRoundTrip ==
  ASSUME NEW a \in 0..(Word - 1), a % PageSize = 0
  PROVE  /\ PageOf(a) \in Nat
         /\ PageOf(a) * PageSize = a
         /\ AddrOf(PageOf(a)) = a
<1>1. a \in Nat /\ a < Word /\ a % Word = a
  BY WordRange
<1>2. PageOf(a) = a \div 4096
  BY <1>1 DEF PageOf, PageSize
<1>3. (a \div 4096) \in Nat /\ (a \div 4096) * 4096 = a
  BY <1>1, SMT DEF PageSize
<1>4. QED
  BY <1>1, <1>2, <1>3 DEF AddrOf, PageSize

(* The address of a page is aligned; when the page has a bit, pmm_free     *)
(* finds the page again (pmm.c:50, 59).                                    *)
LEMMA PageRoundTrip ==
  ASSUME NEW p \in Nat
  PROVE  /\ AddrOf(p) \in 0..(Word - 1)
         /\ AddrOf(p) % PageSize = 0
         /\ p < BitmapBits => PageOf(AddrOf(p)) = p
<1>1. p * 4096 \in Nat
  OBVIOUS
<1>2. AddrOf(p) \in 0..(Word - 1)
  BY <1>1, WordRange DEF AddrOf, PageSize
<1>3. AddrOf(p) % PageSize = 0
  <2> DEFINE q == (p * 4096) \div Word
  <2>1. q \in Int /\ p * 4096 = q * Word + AddrOf(p)
    <3>1. \A x \in Nat, w \in Nat \ {0} : x = (x \div w) * w + (x % w) /\ (x \div w) \in Int
      BY SMT
    <3>2. QED
      BY <1>1, <3>1, WordRange DEF AddrOf, PageSize
  <2> HIDE DEF q
  <2>2. Word = BitmapBits * 4096 /\ BitmapBits \in Nat
    BY PmmAssumption DEF PageSize
  <2>3. AddrOf(p) = (p - q * BitmapBits) * 4096
    BY <2>1, <2>2, <1>2, SMT
  <2>4. QED
    <3>1. p - q * BitmapBits \in Int
      BY <2>1, <2>2
    <3>2. \A z \in Int : (z * 4096) % 4096 = 0
      BY SMT
    <3>3. QED
      BY <2>3, <3>1, <3>2 DEF PageSize
<1>4. ASSUME p < BitmapBits PROVE PageOf(AddrOf(p)) = p
  <2>1. Word = BitmapBits * 4096 /\ BitmapBits \in Nat
    BY PmmAssumption DEF PageSize
  <2>2. p * 4096 < Word
    BY <1>4, <2>1
  <2>3. AddrOf(p) = p * 4096
    BY <1>1, <2>2, WordRange DEF AddrOf, PageSize
  <2>4. PageOf(AddrOf(p)) = (p * 4096) \div 4096
    BY <1>1, <2>2, <2>3, WordRange DEF PageOf, PageSize
  <2>5. QED
    BY <2>4, SMT
<1>5. QED
  BY <1>2, <1>3, <1>4

(* The pages an entry contributes.                                         *)
LEMMA PagesInNat ==
  ASSUME NEW e \in Entry
  PROVE  PagesIn(e) \in Nat
<1>1. e.length \in Nat
  BY DEF Entry
<1>2. e.length % Word \in Nat
  BY <1>1, WordRange
<1>3. QED
  BY <1>2, SMT DEF PagesIn, PageSize

------------------------------------------------------------------------------
(* Type correctness, and the marking of held pages. *)

(* Freeing one held address clears the bit of no other held address        *)
(* (pmm.c:59): with it the marking survives pmm_free.                      *)
LEMMA DistinctPages ==
  ASSUME TypeOK, HeldAligned, NEW a \in held, NEW b \in held, PageOf(a) = PageOf(b)
  PROVE  a = b
<1>1. a \in 0..(Word - 1) /\ b \in 0..(Word - 1)
  BY DEF TypeOK
<1>2. a % PageSize = 0 /\ b % PageSize = 0
  BY DEF HeldAligned
<1>3. PageOf(a) * PageSize = a /\ PageOf(b) * PageSize = b
  BY <1>1, <1>2, AddressRoundTrip
<1>4. QED
  BY <1>3

LEMMA InitInv == Init => IInv
<1> SUFFICES ASSUME Init PROVE IInv
  OBVIOUS
<1>1. map \in Seq(Entry)
  BY PmmAssumption DEF Init
<1>2. Word \in Nat \ {0}
  BY WordRange
<1>3. TypeOK
  BY <1>1, <1>2 DEF Init, TypeOK
<1>4. QED
  BY <1>3 DEF Init, IInv, HeldAligned, HeldMarked

LEMMA NextInv == IInv /\ [Next]_pmmVars => IInv'
<1> SUFFICES ASSUME IInv, [Next]_pmmVars PROVE IInv'
  OBVIOUS
<1> USE DEF IInv
<1>a. Word \in Nat \ {0}
  BY WordRange
<1>1. CASE pmm_init
  <2>1. held = {} /\ held' = {} /\ map' = map /\ ret' = ret /\ entry' = entry + 1
    BY <1>1 DEF pmm_init, HeldAligned
  <2>2. entry \in 1..Len(map) /\ map[entry] \in Entry
    BY <1>1 DEF pmm_init, Ready, TypeOK
  <2>3. PagesIn(map[entry]) \in Nat
    BY <2>2, PagesInNat
  <2>4. pages_num' = pages_num + PagesIn(map[entry]) /\ pages_num' \in Nat
    BY <1>1, <2>3 DEF pmm_init, TypeOK
  <2>5. bitmap' \in SUBSET (0..(pages_num' - 1))
    <3>1. \A p \in bitmap' : p \in bitmap \/ p \in pages_num .. (pages_num + PagesIn(map[entry]) - 1)
      BY <1>1 DEF pmm_init
    <3>2. pages_num \in Nat /\ bitmap \in SUBSET (0..(pages_num - 1))
      BY DEF TypeOK
    <3>3. SUFFICES ASSUME NEW p \in bitmap'
                   PROVE  p \in 0..(pages_num' - 1)
      OBVIOUS
    <3>4. p \in 0..(pages_num - 1) \/ p \in pages_num .. (pages_num + PagesIn(map[entry]) - 1)
      BY <3>1, <3>2
    <3>5. QED
      BY <3>2, <3>4, <2>3, <2>4
  <2>6. free_pages' \in Int
    BY <1>1, <2>3 DEF pmm_init, TypeOK
  <2>7. TypeOK'
    BY <2>1, <2>2, <2>4, <2>5, <2>6 DEF TypeOK
  <2>8. QED
    BY <2>1, <2>7 DEF HeldAligned, HeldMarked
<1>2. CASE pmm_alloc
  <2>1. CASE \E i \in ClearPages : /\ bitmap' = bitmap \cup {i}
                                  /\ free_pages' = free_pages - 1
                                  /\ ret' = AddrOf(i)
                                  /\ held' = held \cup {AddrOf(i)}
    <3>1. PICK i \in ClearPages : /\ bitmap' = bitmap \cup {i}
                                  /\ free_pages' = free_pages - 1
                                  /\ ret' = AddrOf(i)
                                  /\ held' = held \cup {AddrOf(i)}
      BY <2>1
    <3>2. i \in 0..(pages_num - 1) /\ i \in Nat
      BY DEF ClearPages
    <3>3. /\ AddrOf(i) \in 0..(Word - 1)
          /\ AddrOf(i) % PageSize = 0
          /\ i < BitmapBits => PageOf(AddrOf(i)) = i
      BY <3>2, PageRoundTrip
    <3>4. UNCHANGED <<map, entry, pages_num>> /\ Ready /\ Ready'
      BY <1>2 DEF pmm_alloc, Ready
    <3>5. TypeOK'
      <4>1. bitmap' \in SUBSET (0..(pages_num - 1)) /\ held' \in SUBSET (0..(Word - 1))
        BY <3>1, <3>2, <3>3 DEF TypeOK
      <4>2. free_pages' \in Int
        BY <3>1 DEF TypeOK
      <4>3. QED
        BY <3>1, <3>3, <3>4, <4>1, <4>2 DEF TypeOK
    <3>6. HeldAligned'
      BY <3>1, <3>3, <3>4 DEF HeldAligned
    <3>7. HeldMarked'
      BY <3>1, <3>2, <3>3, <3>4, PmmAssumption DEF HeldMarked, BitmapCoversMap, TypeOK
    <3>8. QED
      BY <3>5, <3>6, <3>7
  <2>2. CASE ClearPages = {} /\ ret' = 0 /\ UNCHANGED <<bitmap, free_pages, held>>
    <3>1. UNCHANGED <<map, entry, pages_num, bitmap, free_pages, held>>
      BY <1>2, <2>2 DEF pmm_alloc
    <3>2. TypeOK'
      BY <2>2, <3>1, <1>a DEF TypeOK
    <3>3. QED
      BY <3>1, <3>2 DEF HeldAligned, HeldMarked, BitmapCoversMap, PageOf, Ready
  <2>3. QED
    BY <1>2, <2>1, <2>2 DEF pmm_alloc
<1>3. ASSUME NEW addr \in held, pmm_free(addr)
      PROVE  IInv'
  <2>1. /\ UNCHANGED <<map, entry, pages_num, ret>>
        /\ bitmap' = bitmap \ {PageOf(addr)}
        /\ held' = held \ {addr}
        /\ free_pages' = free_pages + 1
    BY <1>3 DEF pmm_free
  <2>2. TypeOK'
    <3>1. bitmap' \in SUBSET (0..(pages_num - 1)) /\ held' \in SUBSET (0..(Word - 1))
      BY <2>1 DEF TypeOK
    <3>2. free_pages' \in Int
      BY <2>1 DEF TypeOK
    <3>3. QED
      BY <2>1, <3>1, <3>2 DEF TypeOK
  <2>3. HeldAligned'
    BY <2>1 DEF HeldAligned, Ready
  <2>4. HeldMarked'
    BY <2>1, DistinctPages DEF HeldMarked, BitmapCoversMap
  <2>5. QED
    BY <2>2, <2>3, <2>4
<1>4. CASE UNCHANGED pmmVars
  BY <1>4 DEF pmmVars, TypeOK, HeldAligned, HeldMarked, BitmapCoversMap, PageOf, Ready
<1>5. QED
  BY <1>1, <1>2, <1>3, <1>4 DEF Next

LEMMA SpecInv == Spec => []IInv
<1>1. QED
  BY InitInv, NextInv, PTL DEF Spec

(* Every variable keeps its type, for every memory map.                    *)
THEOREM TypeCorrect == Spec => []TypeOK
<1>1. IInv => TypeOK
  BY DEF IInv
<1>2. QED
  BY <1>1, SpecInv, PTL

(* No held page can be handed out again, whatever the map, the number of   *)
(* pages and the order of the calls (pmm.c:45-60).                         *)
THEOREM HeldStaysMarked == Spec => []HeldIsMarked
<1>1. IInv => HeldIsMarked
  <2> SUFFICES ASSUME IInv, BitmapCoversMap, NEW a \in held
               PROVE  PageOf(a) \in bitmap /\ AddrOf(PageOf(a)) = a
    BY DEF HeldIsMarked
  <2>1. a \in 0..(Word - 1) /\ a % PageSize = 0
    BY DEF IInv, TypeOK, HeldAligned
  <2>2. QED
    BY <2>1, AddressRoundTrip DEF IInv, HeldMarked
<1>2. QED
  BY <1>1, SpecInv, PTL

------------------------------------------------------------------------------
(* How each call changes the set of clear pages. *)

(* An entry's page numbers are fresh: recording it adds them all to the    *)
(* clear pages, or none (pmm.c:26-42).                                     *)
LEMMA InitClearPages ==
  ASSUME IInv, pmm_init
  PROVE  LET n == PagesIn(map[entry])
         IN  /\ n \in Nat
             /\ pages_num' = pages_num + n
             /\ map[entry].type = 1 =>
                  /\ ClearPages' = ClearPages \cup (pages_num .. (pages_num + n - 1))
                  /\ free_pages' = free_pages + n
             /\ map[entry].type # 1 =>
                  /\ ClearPages' = ClearPages
                  /\ free_pages' = free_pages
<1> DEFINE n == PagesIn(map[entry])
           new == pages_num .. (pages_num + n - 1)
<1>1. entry \in 1..Len(map) /\ map[entry] \in Entry
  BY DEF pmm_init, Ready, IInv, TypeOK
<1>2. n \in Nat
  BY <1>1, PagesInNat
<1>3. pages_num \in Nat /\ pages_num' = pages_num + n /\ bitmap \in SUBSET (0..(pages_num - 1))
  BY DEF pmm_init, IInv, TypeOK
<1>4. 0..(pages_num' - 1) = (0..(pages_num - 1)) \cup new /\ (0..(pages_num - 1)) \cap new = {}
  <2> HIDE DEF n
  <2> QED
    BY <1>2, <1>3
<1>5. ASSUME map[entry].type = 1
      PROVE  ClearPages' = ClearPages \cup new /\ free_pages' = free_pages + n
  <2>1. bitmap' = bitmap \ new /\ free_pages' = free_pages + n
    BY <1>5 DEF pmm_init
  <2> HIDE DEF n, new
  <2>2. QED
    BY <2>1, <1>3, <1>4 DEF ClearPages
<1>6. ASSUME map[entry].type # 1
      PROVE  ClearPages' = ClearPages /\ free_pages' = free_pages
  <2>1. bitmap' = bitmap \cup new /\ free_pages' = free_pages
    BY <1>6 DEF pmm_init
  <2> HIDE DEF n, new
  <2>2. QED
    BY <2>1, <1>3, <1>4 DEF ClearPages
<1>7. QED
  BY <1>2, <1>3, <1>5, <1>6

(* pmm_alloc takes one clear page, or none when there is none              *)
(* (pmm.c:45-55).                                                          *)
LEMMA AllocClearPages ==
  ASSUME IInv, pmm_alloc
  PROVE  \/ \E i \in ClearPages :
              /\ i \in 0..(pages_num - 1)
              /\ ClearPages' = ClearPages \ {i}
              /\ free_pages' = free_pages - 1
              /\ held' = held \cup {AddrOf(i)}
         \/ /\ UNCHANGED <<free_pages, held>>
            /\ ClearPages' = ClearPages
<1>1. pages_num' = pages_num
  BY DEF pmm_alloc
<1>2. CASE \E i \in ClearPages : /\ bitmap' = bitmap \cup {i}
                                /\ free_pages' = free_pages - 1
                                /\ held' = held \cup {AddrOf(i)}
  BY <1>1, <1>2 DEF ClearPages
<1>3. CASE UNCHANGED <<bitmap, free_pages, held>>
  BY <1>1, <1>3 DEF ClearPages
<1>4. QED
  BY <1>2, <1>3 DEF pmm_alloc

(* pmm_free makes one page clear that was not (pmm.c:57-60).               *)
LEMMA FreeClearPages ==
  ASSUME IInv, BitmapCoversMap, NEW addr \in held, pmm_free(addr)
  PROVE  /\ ClearPages' = ClearPages \cup {PageOf(addr)}
         /\ PageOf(addr) \notin ClearPages
         /\ HeldPages' = HeldPages \ {PageOf(addr)}
         /\ free_pages' = free_pages + 1
<1>1. PageOf(addr) \in bitmap /\ PageOf(addr) \in 0..(pages_num - 1)
  BY DEF IInv, HeldMarked, TypeOK
<1>2. /\ pages_num' = pages_num
      /\ bitmap' = bitmap \ {PageOf(addr)}
      /\ held' = held \ {addr}
      /\ free_pages' = free_pages + 1
  BY DEF pmm_free
<1>3. ClearPages' = ClearPages \cup {PageOf(addr)}
  BY <1>1, <1>2 DEF ClearPages
<1>4. PageOf(addr) \notin ClearPages
  BY <1>1 DEF ClearPages
<1>5. \A a \in held : PageOf(a) = PageOf(addr) => a = addr
  BY DistinctPages DEF IInv
<1>6. HeldPages' = HeldPages \ {PageOf(addr)}
  BY <1>2, <1>5 DEF HeldPages, PageOf
<1>7. QED
  BY <1>2, <1>3, <1>4, <1>6

LEMMA ClearPagesFinite ==
  ASSUME TypeOK
  PROVE  IsFiniteSet(ClearPages)
<1>1. IsFiniteSet(0..(pages_num - 1))
  BY FS_Interval DEF TypeOK
<1>2. ClearPages \in SUBSET (0..(pages_num - 1))
  BY DEF ClearPages
<1>3. QED
  BY <1>1, <1>2, FS_Subset

------------------------------------------------------------------------------
(* The free counter. *)

LEMMA InitCount == Init => FreeCountExact
<1> SUFFICES ASSUME Init PROVE free_pages = Cardinality(ClearPages)
  BY DEF FreeCountExact
<1>1. ClearPages = {} /\ free_pages = 0
  BY DEF Init, ClearPages
<1>2. QED
  BY <1>1, FS_EmptySet

LEMMA NextCount == IInv /\ FreeCountExact /\ [Next]_pmmVars => FreeCountExact'
<1> SUFFICES ASSUME IInv, FreeCountExact, [Next]_pmmVars, BitmapCoversMap'
             PROVE  free_pages' = Cardinality(ClearPages')
  BY DEF FreeCountExact
<1>a. IsFiniteSet(ClearPages)
  BY ClearPagesFinite DEF IInv
<1>1. CASE pmm_init
  <2> DEFINE n == PagesIn(map[entry])
             new == pages_num .. (pages_num + n - 1)
  <2>1. /\ n \in Nat
        /\ pages_num' = pages_num + n
        /\ map[entry].type = 1 => ClearPages' = ClearPages \cup new /\ free_pages' = free_pages + n
        /\ map[entry].type # 1 => ClearPages' = ClearPages /\ free_pages' = free_pages
    BY <1>1, InitClearPages
  <2>2. pages_num \in Nat
    BY DEF IInv, TypeOK
  <2> HIDE DEF n
  <2>3. free_pages = Cardinality(ClearPages)
    BY <2>1, <2>2, PmmAssumption DEF FreeCountExact, BitmapCoversMap
  <2>4. IsFiniteSet(new) /\ Cardinality(new) = n
    BY <2>1, <2>2, FS_Interval
  <2>5. ClearPages \cap new = {}
    BY <2>2, <2>1 DEF ClearPages
  <2>6. Cardinality(ClearPages \cup new) = Cardinality(ClearPages) + n
    <3>1. Cardinality(ClearPages \cup new)
            = Cardinality(ClearPages) + Cardinality(new) - Cardinality(ClearPages \cap new)
      BY <1>a, <2>4, FS_Union
    <3>2. Cardinality(ClearPages \cap new) = 0
      BY <2>5, FS_EmptySet
    <3>3. Cardinality(ClearPages) \in Nat
      BY <1>a, FS_CardinalityType
    <3>4. QED
      BY <3>1, <3>2, <3>3, <2>4, <2>1
  <2>7. QED
    BY <2>1, <2>3, <2>6
<1>2. CASE pmm_alloc
  <2>1. BitmapCoversMap
    BY <1>2 DEF BitmapCoversMap, pmm_alloc
  <2>2. QED
    BY <1>2, <1>a, <2>1, AllocClearPages, FS_RemoveElement DEF FreeCountExact
<1>3. ASSUME NEW addr \in held, pmm_free(addr)
      PROVE  free_pages' = Cardinality(ClearPages')
  <2>1. BitmapCoversMap
    BY <1>3 DEF BitmapCoversMap, pmm_free
  <2>2. QED
    BY <1>3, <1>a, <2>1, FreeClearPages, FS_AddElement DEF FreeCountExact
<1>4. CASE UNCHANGED pmmVars
  BY <1>4 DEF pmmVars, FreeCountExact, BitmapCoversMap, ClearPages
<1>5. QED
  BY <1>1, <1>2, <1>3, <1>4 DEF Next

(* The counter the mem command shows is exact after every legal sequence   *)
(* of calls, on every map the bitmap has room for (pmm.c:32, 49, 58).      *)
THEOREM FreeCountCorrect == Spec => []FreeCountExact
<1>1. QED
  BY SpecInv, InitCount, NextCount, PTL DEF Spec

------------------------------------------------------------------------------
(* What is handed out is RAM, for a map without holes or partial pages. *)

(* Page numbers and addresses agree as far as the map has been read, and   *)
(* what is clear or held was recorded from an available entry.             *)
RamInv ==
  Contiguous(map) =>
    /\ ~Ready => map[entry].base = pages_num * PageSize
    /\ BitmapCoversMap => \A p \in ClearPages \cup HeldPages : IsRam(p)

LEMMA InitRam == Init => RamInv
<1> SUFFICES ASSUME Init, Contiguous(map)
             PROVE  /\ ~Ready => map[entry].base = pages_num * PageSize
                    /\ ClearPages \cup HeldPages = {}
  BY DEF RamInv
<1>1. ClearPages = {} /\ HeldPages = {}
  BY DEF Init, ClearPages, HeldPages
<1>2. Len(map) \in Nat
  BY PmmAssumption DEF Init
<1>3. QED
  BY <1>1, <1>2 DEF Init, Ready, Contiguous, PageSize

LEMMA NextRam == IInv /\ RamInv /\ [Next]_pmmVars => RamInv'
<1> SUFFICES ASSUME IInv, RamInv, [Next]_pmmVars, Contiguous(map)'
             PROVE  /\ ~Ready' => map'[entry'].base = pages_num' * PageSize
                    /\ BitmapCoversMap' => \A p \in ClearPages' \cup HeldPages' : IsRam(p)'
  BY DEF RamInv
<1>a. map' = map
  BY DEF Next, pmmVars, pmm_init, pmm_alloc, pmm_free
<1>b. Contiguous(map) /\ \A p : IsRam(p)' <=> IsRam(p)
  BY <1>a DEF IsRam, Contiguous
<1>1. CASE pmm_init
  <2> DEFINE n == PagesIn(map[entry])
             new == pages_num .. (pages_num + n - 1)
  <2>1. /\ n \in Nat
        /\ pages_num' = pages_num + n
        /\ map[entry].type = 1 => ClearPages' = ClearPages \cup new /\ free_pages' = free_pages + n
        /\ map[entry].type # 1 => ClearPages' = ClearPages /\ free_pages' = free_pages
    BY <1>1, InitClearPages
  <2>2. pages_num \in Nat /\ entry \in 1..Len(map) /\ Len(map) \in Nat /\ map[entry] \in Entry
    BY <1>1 DEF IInv, TypeOK, pmm_init, Ready
  <2>3. HeldPages' = {}
    BY <1>1 DEF IInv, HeldAligned, pmm_init, HeldPages
  <2>4. map[entry].base = pages_num * 4096
    BY <1>1, <1>b DEF RamInv, pmm_init, PageSize
  <2>5. map[entry].length = n * 4096 /\ map[entry].base \in Nat
    <3>1. map[entry].length \in Nat /\ map[entry].base \in Nat
      BY <2>2 DEF Entry
    <3>2. map[entry].length % 4096 = 0 /\ map[entry].length < Word
      BY <1>b, <2>2 DEF Contiguous, PageSize
    <3>3. n = map[entry].length \div 4096
      BY <3>1, <3>2, WordRange DEF PagesIn, PageSize
    <3>4. QED
      BY <3>1, <3>2, <3>3, SMT
  <2> HIDE DEF n
  <2>6. ASSUME ~Ready' PROVE map'[entry'].base = pages_num' * PageSize
    <3>1. entry' = entry + 1 /\ entry \in 1..(Len(map) - 1)
      BY <1>1, <1>a, <2>2, <2>6 DEF pmm_init, Ready
    <3>2. map[entry + 1].base = map[entry].base + map[entry].length
      BY <3>1, <1>b DEF Contiguous
    <3>3. QED
      BY <3>1, <3>2, <1>a, <2>1, <2>2, <2>4, <2>5 DEF PageSize
  <2>7. ASSUME BitmapCoversMap', NEW p \in ClearPages' \cup HeldPages' PROVE IsRam(p)'
    <3>1. BitmapCoversMap
      BY <2>7, <2>1, <2>2, PmmAssumption DEF BitmapCoversMap
    <3>2. CASE p \in ClearPages
      BY <3>1, <3>2, <1>b DEF RamInv
    <3>3. CASE map[entry].type = 1 /\ p \in new
      <4>1. p \in Nat /\ pages_num <= p /\ p + 1 <= pages_num + n
        BY <3>3, <2>1, <2>2
      <4>2. /\ map[entry].base <= p * 4096
            /\ (p + 1) * 4096 <= map[entry].base + map[entry].length
        BY <4>1, <2>1, <2>2, <2>4, <2>5
      <4>3. IsRam(p)
        BY <4>2, <3>3, <2>2 DEF IsRam, PageSize
      <4>4. QED
        BY <4>3, <1>b
    <3>4. QED
      BY <2>1, <2>3, <2>7, <3>2, <3>3
  <2>8. QED
    BY <2>6, <2>7
<1>2. CASE pmm_alloc
  <2>1. Ready' /\ (BitmapCoversMap' <=> BitmapCoversMap)
    BY <1>2 DEF pmm_alloc, Ready, BitmapCoversMap
  <2>2. ASSUME BitmapCoversMap, NEW p \in ClearPages' \cup HeldPages'
        PROVE  p \in ClearPages \cup HeldPages
    <3>1. ASSUME NEW i \in ClearPages, i \in 0..(pages_num - 1),
                 ClearPages' = ClearPages \ {i}, held' = held \cup {AddrOf(i)}
          PROVE  p \in ClearPages \cup HeldPages
      <4>1. i \in Nat /\ i < BitmapBits
        BY <3>1, <2>2, PmmAssumption DEF BitmapCoversMap, IInv, TypeOK
      <4>2. PageOf(AddrOf(i)) = i
        BY <4>1, PageRoundTrip
      <4>3. HeldPages' = HeldPages \cup {i}
        BY <4>2, <3>1 DEF HeldPages, PageOf
      <4>4. QED
        BY <4>3, <3>1, <2>2
    <3>2. ASSUME UNCHANGED held, ClearPages' = ClearPages
          PROVE  p \in ClearPages \cup HeldPages
      BY <3>2, <2>2 DEF HeldPages, PageOf
    <3>3. QED
      BY <1>2, <3>1, <3>2, AllocClearPages
  <2>3. QED
    BY <2>1, <2>2, <1>b DEF RamInv
<1>3. ASSUME NEW addr \in held, pmm_free(addr)
      PROVE  /\ Ready'
             /\ BitmapCoversMap' => \A p \in ClearPages' \cup HeldPages' : IsRam(p)'
  <2>1. Ready' /\ (BitmapCoversMap' <=> BitmapCoversMap)
    BY <1>3 DEF pmm_free, Ready, BitmapCoversMap
  <2>2. ASSUME BitmapCoversMap PROVE ClearPages' \cup HeldPages' = ClearPages \cup HeldPages
    <3>1. PageOf(addr) \in HeldPages
      BY DEF HeldPages
    <3>2. QED
      BY <1>3, <2>2, <3>1, FreeClearPages
  <2>3. QED
    BY <2>1, <2>2, <1>b DEF RamInv
<1>4. CASE UNCHANGED pmmVars
  BY <1>4 DEF pmmVars, RamInv, BitmapCoversMap, ClearPages, HeldPages, PageOf, Ready,
              IsRam, Contiguous
<1>5. QED
  BY <1>1, <1>2, <1>3, <1>4 DEF Next

(* On a map of whole pages without holes, pmm_alloc hands out only memory  *)
(* the boot loader called available, and the bitmap of pmm.h:7-8 means     *)
(* what it says (pmm.c:21-55).                                             *)
THEOREM ContiguousMapsAreSafe == Spec => []HandsOutRamIfContiguous
<1>1. RamInv => HandsOutRamIfContiguous
  BY DEF RamInv, HandsOutRamIfContiguous, HandsOutRam, HeldPages
<1>2. Spec => []RamInv
  BY SpecInv, InitRam, NextRam, PTL DEF Spec
<1>3. QED
  BY <1>1, <1>2, PTL

------------------------------------------------------------------------------
(* pmm.c implements the abstract page allocator. *)

LEMMA InitPool == Init => Pool!Init
<1> SUFFICES ASSUME Init PROVE Pool!Init
  OBVIOUS
<1>1. ClearPages = {} /\ HeldPages = {}
  BY DEF Init, ClearPages, HeldPages
<1>2. QED
  BY <1>1 DEF Pool!Init, Ready

LEMMA NextPool ==
  IInv /\ BitmapCoversMap /\ BitmapCoversMap' /\ [Next]_pmmVars => [Pool!Next]_(Pool!vars)
<1> SUFFICES ASSUME IInv, BitmapCoversMap, BitmapCoversMap', [Next]_pmmVars
             PROVE  Pool!Next \/ UNCHANGED Pool!vars
  OBVIOUS
<1> DEFINE Frame == 0..(BitmapBits - 1)
<1>a. pages_num \in Nat /\ pages_num <= BitmapBits /\ BitmapBits \in Nat
  BY PmmAssumption DEF IInv, TypeOK, BitmapCoversMap
<1>b. ClearPages \subseteq Frame
  BY <1>a DEF ClearPages
<1>1. CASE pmm_init
  <2>1. ~Ready /\ HeldPages = {} /\ HeldPages' = {}
    BY <1>1 DEF IInv, HeldAligned, pmm_init, HeldPages
  <2>2. CASE Ready'
    <3>1. pages_num' \in Nat /\ pages_num' <= BitmapBits
      BY <1>1, <1>a, InitClearPages DEF BitmapCoversMap
    <3>2. ClearPages' \in SUBSET Frame
      BY <3>1, <1>a DEF ClearPages
    <3>3. Pool!Build
      BY <2>1, <2>2, <3>2 DEF Pool!Build
    <3>4. QED
      BY <3>3 DEF Pool!Next
  <2>3. CASE ~Ready'
    <3>1. Ready = FALSE /\ Ready' = FALSE
      BY <2>1, <2>3 DEF Ready
    <3>2. QED
      BY <2>1, <3>1 DEF Pool!vars
  <2>4. QED
    BY <2>2, <2>3
<1>2. CASE pmm_alloc
  <2>1. Ready /\ Ready'
    BY <1>2 DEF pmm_alloc, Ready
  <2>2. ASSUME NEW i \in ClearPages, i \in 0..(pages_num - 1),
               ClearPages' = ClearPages \ {i}, held' = held \cup {AddrOf(i)}
        PROVE  Pool!Next
    <3>1. i \in Nat /\ i < BitmapBits
      BY <2>2, <1>a
    <3>2. PageOf(AddrOf(i)) = i
      BY <3>1, PageRoundTrip
    <3>3. HeldPages' = HeldPages \cup {i}
      BY <3>2, <2>2 DEF HeldPages, PageOf
    <3>4. Pool!Take(i)
      BY <2>1, <2>2, <3>3 DEF Pool!Take
    <3>5. QED
      BY <3>4, <1>b DEF Pool!Next
  <2>3. ASSUME UNCHANGED held, ClearPages' = ClearPages
        PROVE  UNCHANGED Pool!vars
    BY <2>1, <2>3 DEF Pool!vars, HeldPages, PageOf
  <2>4. QED
    BY <1>2, <2>2, <2>3, AllocClearPages
<1>3. ASSUME NEW addr \in held, pmm_free(addr)
      PROVE  Pool!Next
  <2>1. Ready /\ Ready'
    BY <1>3 DEF pmm_free, Ready
  <2>2. PageOf(addr) \in HeldPages
    BY DEF HeldPages
  <2>3. PageOf(addr) \in Frame
    <3>1. PageOf(addr) \in 0..(pages_num - 1)
      BY DEF IInv, HeldMarked, TypeOK
    <3>2. QED
      BY <3>1, <1>a
  <2>4. Pool!Give(PageOf(addr))
    BY <1>3, <2>1, <2>2, FreeClearPages DEF Pool!Give
  <2>5. QED
    BY <2>3, <2>4 DEF Pool!Next
<1>4. CASE UNCHANGED pmmVars
  BY <1>4 DEF pmmVars, Pool!vars, ClearPages, HeldPages, PageOf, Ready
<1>5. QED
  BY <1>1, <1>2, <1>3, <1>4 DEF Next

(* For every map the bitmap has room for, pmm.c implements the abstract    *)
(* page allocator: pages are handed to one holder at a time, and none is   *)
(* lost or made up (pmm.h:3-9).                                            *)
THEOREM PmmImplementsPageAllocator == Spec /\ []BitmapCoversMap => PoolSpec
<1>1. Spec /\ []BitmapCoversMap => Pool!Init /\ [][Pool!Next]_(Pool!vars)
  BY SpecInv, InitPool, NextPool, PTL DEF Spec
<1>2. QED
  BY <1>1 DEF PoolSpec, Pool!Spec
==============================================================================
