------------------------------- MODULE Multiboot -------------------------------
(***************************************************************************)
(* Reading the boot loader's information: mb2_find_tag and mb2_next_tag    *)
(* (include/multiboot.h), mmap_first and mmap_next (kernel/memory.c) as    *)
(* pmm_init calls them, and the tag fb_init takes the framebuffer from     *)
(* (kernel/fb.c).                                                          *)
(*                                                                         *)
(* The information lies in memory as a list of tags of different sizes,    *)
(* each one beginning at the next multiple of 8 behind its predecessor.    *)
(* info says which tag begins at which address; every step of a search is  *)
(* a step of the model.                                                    *)
(***************************************************************************)
EXTENDS Integers, Sequences

CONSTANT Infos               \* what a boot loader may pass

MB2_TAG_END  == 0
MB2_TAG_MMAP == 6
MB2_TAG_FB   == 8

InfoHeader == 8              \* sizeof(mb2_info_t)
MmapHeader == 16             \* sizeof(mb2_mmap_tag_t)

Screens == [addr : Nat, pitch : Nat, width : Nat, height : Nat, bytes : Nat]
Tags    == [type : Nat, size : Nat, entry_size : Nat, fb : Screens]

(* The format: the tags x follow each other from InfoHeader to the end     *)
(* tag, a memory map consists of whole entries and has one at least, and a *)
(* line of the framebuffer has room for its pixels.                        *)
WellFormed(x) ==
  /\ DOMAIN x \subseteq Nat /\ InfoHeader \in DOMAIN x
  /\ \A a \in DOMAIN x :
       LET after == ((a + x[a].size + 7) \div 8) * 8
       IN  /\ x[a] \in Tags
           /\ InfoHeader <= a /\ x[a].size >= 8
           /\ x[a].type # MB2_TAG_END =>
                after \in DOMAIN x /\ \A b \in DOMAIN x : b <= a \/ after <= b
           /\ x[a].type = MB2_TAG_MMAP =>
                /\ x[a].entry_size > 0 /\ x[a].size >= MmapHeader + x[a].entry_size
                /\ (x[a].size - MmapHeader) % x[a].entry_size = 0
           /\ x[a].fb.width * x[a].fb.bytes <= x[a].fb.pitch

ASSUME InfosAssumption == \A x \in Infos : WellFormed(x)

VARIABLES
  info,              \* the tags by address
  pc,                \* what the main program is doing
  tag,               \* the tag a search has come to
  current,           \* pmm_init's entry, 0 for none
  visited,           \* the entries pmm_init has read
  fb                 \* the framebuffer's description, as fb_init keeps it

mbVars == <<info, tag, current, visited, fb>>

NoFb == [addr |-> 0, pitch |-> 0, width |-> 0, height |-> 0, bytes |-> 0]

Trans(here, next) == pc = here /\ pc' = next

MultibootInit ==
  /\ info \in Infos
  /\ tag = InfoHeader
  /\ current = 0 /\ visited = <<>>
  /\ fb = NoFb

------------------------------------------------------------------------------
(* mb2_find_tag(mbi, type), which a caller enters with tag at the first    *)
(* tag: one round of the loop, and the two ways out of it.                 *)

mb2_next_tag == ((tag + info[tag].size + 7) \div 8) * 8

Skip(here, type) ==
  /\ pc = here
  /\ tag \in DOMAIN info /\ info[tag].type \notin {MB2_TAG_END, type}
  /\ tag' = mb2_next_tag
  /\ UNCHANGED <<pc, info, current, visited, fb>>

Found(type) == tag \in DOMAIN info /\ info[tag].type = type
NotFound == tag \in DOMAIN info /\ info[tag].type = MB2_TAG_END

mmap_first ==
  \/ Skip("mmap_first", MB2_TAG_MMAP)
  \/ /\ Trans("mmap_first", "pmm_init")
     /\ Found(MB2_TAG_MMAP)
     /\ current' = tag + MmapHeader
     /\ UNCHANGED <<info, tag, visited, fb>>
  \/ /\ Trans("mmap_first", "fb_init")
     /\ NotFound
     /\ tag' = InfoHeader
     /\ UNCHANGED <<info, current, visited, fb>>

(* One round of pmm_init's loop; what it does with the entry is in Pmm. *)
pmm_init ==
  /\ Trans("pmm_init", "mmap_next")
  /\ visited' = Append(visited, current)
  /\ tag' = InfoHeader
  /\ UNCHANGED <<info, current, fb>>

(* Mutant: the end of the tag is taken for an entry. *)
mmap_next_OnePast ==
  \/ Skip("mmap_next", MB2_TAG_MMAP)
  \/ /\ Found(MB2_TAG_MMAP)
     /\ LET next == current + info[tag].entry_size
        IN  \/ /\ next <= tag + info[tag].size
               /\ Trans("mmap_next", "pmm_init")
               /\ current' = next /\ UNCHANGED tag
            \/ /\ next > tag + info[tag].size
               /\ Trans("mmap_next", "fb_init")
               /\ current' = 0 /\ tag' = InfoHeader
     /\ UNCHANGED <<info, visited, fb>>

mmap_next ==
  \/ Skip("mmap_next", MB2_TAG_MMAP)
  \/ /\ Found(MB2_TAG_MMAP)
     /\ LET next == current + info[tag].entry_size
        IN  \/ /\ next < tag + info[tag].size
               /\ Trans("mmap_next", "pmm_init")
               /\ current' = next /\ UNCHANGED tag
            \/ /\ next >= tag + info[tag].size
               /\ Trans("mmap_next", "fb_init")
               /\ current' = 0 /\ tag' = InfoHeader
     /\ UNCHANGED <<info, visited, fb>>

(* Without the tag the description stays all zeros, as it is in .bss. *)
fb_init ==
  \/ Skip("fb_init", MB2_TAG_FB)
  \/ /\ Trans("fb_init", "paging_map_fb")
     /\ \/ Found(MB2_TAG_FB) /\ fb' = info[tag].fb
        \/ NotFound /\ UNCHANGED fb
     /\ UNCHANGED <<info, tag, current, visited>>

ReadInfo == mmap_first \/ pmm_init \/ mmap_next \/ fb_init

------------------------------------------------------------------------------
(* Properties *)

Searching == pc \in {"mmap_first", "mmap_next", "fb_init"}

(* The tags up to the end tag: what lies behind it is not the boot         *)
(* loader's, even where it looks like a tag.                               *)
Listed ==
  {a \in DOMAIN info : \A b \in DOMAIN info : info[b].type = MB2_TAG_END => a <= b}

IsFirst(a, type) ==
  /\ a \in Listed /\ info[a].type = type
  /\ \A b \in Listed : info[b].type = type => a <= b

Missing(type) == \A a \in Listed : info[a].type # type

EntriesOf(a) ==
  [k \in 1..((info[a].size - MmapHeader) \div info[a].entry_size) |->
     a + MmapHeader + (k - 1) * info[a].entry_size]

(* A search only ever looks at addresses where a listed tag begins. *)
OnTags == Searching => tag \in Listed

(* The entries of the first memory map, each once and no other bytes,      *)
(* whatever the size of an entry; none without a map.                      *)
MapRead ==
  \/ \E a \in DOMAIN info : IsFirst(a, MB2_TAG_MMAP) /\ visited = EntriesOf(a)
  \/ Missing(MB2_TAG_MMAP) /\ visited = <<>>

(* The framebuffer of the first such tag; all zeros without one.           *)
FbRead ==
  \/ \E a \in DOMAIN info : IsFirst(a, MB2_TAG_FB) /\ fb = info[a].fb
  \/ Missing(MB2_TAG_FB) /\ fb = NoFb

================================================================================
