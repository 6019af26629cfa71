-------------------------------- MODULE Paging ---------------------------------
(***************************************************************************)
(* The page tables: what boot/boot.s sets up before it switches to long    *)
(* mode, and paging_map_fb (kernel/paging.c).                              *)
(*                                                                         *)
(* One entry of the top table is used.  The table it points to, pdpt, has  *)
(* an entry per region of 1 GiB; a page directory maps a region with big   *)
(* pages of 2 MiB.  An entry is the address it maps to, or Absent.  The    *)
(* kernel takes every address for physical, so a mapping is of use only    *)
(* where it is the identity.                                               *)
(***************************************************************************)
EXTENDS Integers

CONSTANTS
  Entries,           \* entries in a table (512)
  BigPage            \* bytes a page directory's entry maps (2 MiB)

ASSUME PagingAssumption == Entries \in Nat \ {0} /\ BigPage \in Nat \ {0}

Region == Entries * BigPage
Reach  == Entries * Region          \* what the one entry of pml4 covers

VARIABLES
  pml4,              \* its entry 0 points to pdpt
  pdpt,              \* per region, the page directory or "none"
  pd, fb_pd,         \* the page directories
  eax, i             \* loop counters of l1 and of paging_map_fb

pgVars == <<pml4, pdpt, pd, fb_pd, eax, i>>

Index  == 0..(Entries - 1)
Absent == -1

PagingInit ==
  /\ pml4 = FALSE
  /\ pdpt = [k \in Index |-> "none"]
  /\ pd = [k \in Index |-> Absent]
  /\ fb_pd = [k \in Index |-> Absent]
  /\ eax = 0 /\ i = 0

------------------------------------------------------------------------------
(* How the processor translates the address of page n. *)

Directory(region) ==
  IF pml4 /\ region \in Index THEN pdpt[region] ELSE "none"

Translated(n) ==
  CASE Directory(n \div Entries) = "pd"    -> pd[n % Entries]
    [] Directory(n \div Entries) = "fb_pd" -> fb_pd[n % Entries]
    [] OTHER -> Absent

(* The bytes from lo up to, not including, hi are there, each one at its   *)
(* own address.                                                            *)
Reachable(lo, hi) ==
  \A n \in (lo \div BigPage)..((hi - 1) \div BigPage) : Translated(n) = n * BigPage

------------------------------------------------------------------------------
(* boot.s *)

LinkTables ==
  /\ pml4' = TRUE
  /\ pdpt' = [pdpt EXCEPT ![0] = "pd"]
  /\ UNCHANGED <<pd, fb_pd, eax, i>>

(* One round of the loop l1: identity map the first region. *)
l1 ==
  /\ eax < Entries
  /\ pd' = [pd EXCEPT ![eax] = eax * BigPage]
  /\ eax' = eax + 1
  /\ UNCHANGED <<pml4, pdpt, fb_pd, i>>

------------------------------------------------------------------------------
(* paging_map_fb(phys_addr, size) *)

PdptIdx(addr)  == (addr \div Region) % Entries
PdStart(addr)  == (addr \div BigPage) % Entries

(* Mutant: the address is not rounded down to its page. *)
PageBase_Exact(addr) == addr

PageBase(addr) == addr - (addr % BigPage)

(* Mutant: the whole pages of the size only, none for what a framebuffer   *)
(* that begins inside a page needs more.                                   *)
NPages_NoSpare(size) == (size + BigPage - 1) \div BigPage

NPages(size) == (size + BigPage - 1) \div BigPage + 1

(* The directory takes the place of whatever the region had. *)
LinkFb(addr) ==
  /\ pdpt' = [pdpt EXCEPT ![PdptIdx(addr)] = "fb_pd"]
  /\ i' = 0
  /\ UNCHANGED <<pml4, pd, fb_pd, eax>>

(* Mutant: the loop does not stop at the end of the directory. *)
MapsMore_Unbounded(addr, size) == i < NPages(size)

MapsMore(addr, size) == i < NPages(size) /\ PdStart(addr) + i < Entries

MapPage(addr, size) ==
  /\ MapsMore(addr, size)
  /\ fb_pd' = [fb_pd EXCEPT ![PdStart(addr) + i] = PageBase(addr) + i * BigPage]
  /\ i' = i + 1
  /\ UNCHANGED <<pml4, pdpt, pd, eax>>

------------------------------------------------------------------------------
(* Properties *)

Mapped(n) == Translated(n) # Absent

(* Every page the tables map is mapped to itself. *)
IdentityOnly ==
  \A n \in 0..(Entries * Entries - 1) : Mapped(n) => Translated(n) = n * BigPage

================================================================================
