--------------------------------- MODULE Pmm ---------------------------------
(***************************************************************************)
(* The physical memory manager: kernel/pmm.c, and the walk over the        *)
(* Multiboot2 memory map in kernel/memory.c it is fed by.                  *)
(*                                                                         *)
(* The bitmap is the set of page numbers whose bit is 1.  pmm_init runs    *)
(* once, one map entry per step (the iterations of its while loop); after  *)
(* it, pmm_alloc and pmm_free are called in any order by kernel code that  *)
(* frees only addresses it was given.                                      *)
(***************************************************************************)
EXTENDS Integers, Sequences, FiniteSets

CONSTANTS
  Maps,          \* the memory maps the boot loader may pass
  BitmapBits,    \* bits of the bitmap array (32768 * 32 in the build)
  Word           \* 2^32, the range of a uint32_t (scaled for TLC)

PageSize == 4096

(* type 1 is memory the kernel may use; every other type is reserved. *)
Entry == [base : Nat, length : Nat, type : Nat]

ASSUME PmmAssumption ==
  /\ Maps \subseteq Seq(Entry)
  /\ BitmapBits \in Nat \ {0}
  /\ Word = BitmapBits * PageSize

VARIABLES
  map,           \* the map found by mmap_first; <<>> when there is no tag
  entry,         \* the entry pmm_init reads next; Len(map) + 1 after mmap_next returned 0
  bitmap,        \* pages whose bit is set
  pages_num,
  free_pages,
  ret,           \* what the latest pmm_alloc returned
  held           \* addresses handed out and not freed: the callers' view

pmmVars == <<map, entry, bitmap, pages_num, free_pages, ret, held>>

Ready == entry > Len(map)

(* The page the address of a pmm_free names, and the address of a page. *)
PageOf(addr) == (addr % Word) \div PageSize
AddrOf(page) == (page * PageSize) % Word

ClearPages == {p \in 0..(pages_num - 1) : p \notin bitmap}

------------------------------------------------------------------------------

Init ==
  /\ map \in Maps
  /\ entry = 1
  /\ bitmap = {}
  /\ pages_num = 0
  /\ free_pages = 0
  /\ ret = 0
  /\ held = {}

(* byte_size is a uint32_t: the upper half of a 64-bit length is dropped,  *)
(* and the division drops what is left of the last page.                   *)
PagesIn(e) == (e.length % Word) \div PageSize

(* Mutants: one page too many per entry; every entry taken for memory.     *)
pmm_init_OnePast ==
  /\ ~Ready
  /\ LET e   == map[entry]
         new == pages_num .. (pages_num + PagesIn(e))
     IN  /\ pages_num' = pages_num + PagesIn(e)
         /\ bitmap' = IF e.type = 1 THEN bitmap \ new ELSE bitmap \cup new
         /\ free_pages' = IF e.type = 1 THEN free_pages + PagesIn(e) ELSE free_pages
  /\ entry' = entry + 1
  /\ UNCHANGED <<map, ret, held>>

pmm_init_AnyType ==
  /\ ~Ready
  /\ pages_num' = pages_num + PagesIn(map[entry])
  /\ free_pages' = free_pages + PagesIn(map[entry])
  /\ entry' = entry + 1
  /\ UNCHANGED <<map, bitmap, ret, held>>

(* One iteration of pmm_init's loop: the entry's pages take the next page  *)
(* numbers, whatever its base address is.                                  *)
pmm_init ==
  /\ ~Ready
  /\ LET e    == map[entry]
         new  == pages_num .. (pages_num + PagesIn(e) - 1)
     IN  /\ pages_num' = pages_num + PagesIn(e)
         /\ \/ /\ e.type = 1
               /\ bitmap' = bitmap \ new
               /\ free_pages' = free_pages + PagesIn(e)
            \/ /\ e.type # 1
               /\ bitmap' = bitmap \cup new
               /\ UNCHANGED free_pages
  /\ entry' = entry + 1
  /\ UNCHANGED <<map, ret, held>>

(* Mutants: the page handed out is not marked; the counter is not lowered; *)
(* pmm_free leaves the bit.                                                *)
pmm_alloc_Unmarked ==
  /\ Ready
  /\ \E i \in ClearPages :
       /\ free_pages' = free_pages - 1
       /\ ret' = AddrOf(i)
       /\ held' = held \cup {AddrOf(i)}
  /\ UNCHANGED <<map, entry, bitmap, pages_num>>

pmm_alloc_Uncounted ==
  /\ Ready
  /\ \E i \in ClearPages :
       /\ bitmap' = bitmap \cup {i}
       /\ ret' = AddrOf(i)
       /\ held' = held \cup {AddrOf(i)}
  /\ UNCHANGED <<map, entry, pages_num, free_pages>>

pmm_free_KeepsBit(addr) ==
  /\ Ready
  /\ free_pages' = free_pages + 1
  /\ held' = held \ {addr}
  /\ UNCHANGED <<map, entry, bitmap, pages_num, ret>>

pmm_alloc ==
  /\ Ready
  /\ \/ \E i \in ClearPages :
          /\ \A j \in 0..(i - 1) : j \in bitmap      \* the first clear bit
          /\ bitmap' = bitmap \cup {i}
          /\ free_pages' = free_pages - 1
          /\ ret' = AddrOf(i)
          /\ held' = held \cup {AddrOf(i)}
     \/ /\ ClearPages = {}
        /\ ret' = 0
        /\ UNCHANGED <<bitmap, free_pages, held>>
  /\ UNCHANGED <<map, entry, pages_num>>

pmm_free(addr) ==
  /\ Ready
  /\ free_pages' = free_pages + 1
  /\ bitmap' = bitmap \ {PageOf(addr)}
  /\ held' = held \ {addr}
  /\ UNCHANGED <<map, entry, pages_num, ret>>

Next ==
  \/ pmm_init
  \/ pmm_alloc
  \/ \E addr \in held : pmm_free(addr)

Spec == Init /\ [][Next]_pmmVars

------------------------------------------------------------------------------
(* Properties *)

HeldPages == {PageOf(a) : a \in held}

TypeOK ==
  /\ map \in Seq(Entry)
  /\ entry \in 1..(Len(map) + 1)
  /\ bitmap \in SUBSET (0..(pages_num - 1))
  /\ pages_num \in Nat
  /\ free_pages \in Int
  /\ ret \in 0..(Word - 1)
  /\ held \in SUBSET (0..(Word - 1))

(* Every recorded page has a bit of its own and an address of its own: the *)
(* bitmap array is long enough for the map (pmm.c:5, written without a     *)
(* bound check at pmm.c:10 and pmm.c:14).                                  *)
BitmapCoversMap == pages_num <= BitmapBits

(* The counter shown by the mem command is the number of clear bits, after *)
(* every sequence of calls that frees only what it was given               *)
(* (free_pages is updated apart from the bitmap, pmm.c:32, 49, 58).        *)
FreeCountExact ==
  BitmapCoversMap => free_pages = Cardinality(ClearPages)

(* The page of every address somebody holds is marked used, so pmm_alloc   *)
(* cannot hand it out a second time, and is the page pmm_free will compute *)
(* from that address: the round trip through the uint32_t product and      *)
(* quotient loses nothing (pmm.c:47-50, 59).                               *)
HeldIsMarked ==
  BitmapCoversMap =>
    \A a \in held : /\ PageOf(a) \in bitmap
                    /\ AddrOf(PageOf(a)) = a

(* The page frame lies wholly in memory the map calls available. *)
IsRam(page) ==
  \E i \in 1..Len(map) :
    /\ map[i].type = 1
    /\ map[i].base <= page * PageSize
    /\ (page + 1) * PageSize <= map[i].base + map[i].length

(* "Each bit in the bitmap represents a page and its value represents      *)
(* whether or not it's available" (pmm.h:7-8): what is handed out is RAM.  *)
HandsOutRam == \A a \in held : IsRam(PageOf(a))

(* A map pmm_init numbers correctly: whole pages, no hole, from address 0, *)
(* every entry shorter than 4 GiB.                                         *)
Contiguous(m) ==
  /\ \A i \in 1..Len(m) : m[i].length % PageSize = 0 /\ m[i].length < Word
  /\ Len(m) > 0 => m[1].base = 0
  /\ \A i \in 1..(Len(m) - 1) : m[i + 1].base = m[i].base + m[i].length

(* For such a map the same holds without exception. *)
HandsOutRamIfContiguous ==
  Contiguous(map) /\ BitmapCoversMap => HandsOutRam

------------------------------------------------------------------------------
(* The promise: pmm.c implements the abstract page allocator.  A frame is  *)
(* taken only from the free ones, goes back only when its holder frees it, *)
(* and none is lost or made up once pmm_init has run (pmm.c:21-60).        *)
Pool == INSTANCE PageAllocator WITH
          Frame <- 0..(BitmapBits - 1),
          up    <- Ready,
          avail <- IF Ready THEN ClearPages ELSE {},
          owned <- HeldPages

PoolSpec == Pool!Spec

==============================================================================
