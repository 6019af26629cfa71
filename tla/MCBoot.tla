-------------------------------- MODULE MCBoot ---------------------------------
(* Tables of four entries, pages of 64 bytes: a region is 256 bytes, the   *)
(* tables reach 1024.  One boot information for every layout of the tags   *)
(* and every place of the framebuffer that makes a difference.             *)
EXTENDS Boot, TLC

Tag(type, size) == [type |-> type, size |-> size, entry_size |-> 0, fb |-> NoFb]
EndTag  == Tag(MB2_TAG_END, 8)
CmdLine == Tag(1, 13)
Mmap(entries, size) ==
  [Tag(MB2_TAG_MMAP, MmapHeader + entries * size) EXCEPT !.entry_size = size]
FbTag(f) == [Tag(MB2_TAG_FB, 38) EXCEPT !.fb = f]

MapFirst(f) ==
  8 :> CmdLine @@ 24 :> Mmap(2, 24) @@ 88 :> FbTag(f) @@ 128 :> EndTag
FbFirst(f) ==
  8 :> FbTag(f) @@ 48 :> Mmap(1, 32) @@ 96 :> EndTag
NoMap(f) == 8 :> CmdLine @@ 24 :> FbTag(f) @@ 64 :> EndTag
NoFbTag  == 8 :> Mmap(2, 32) @@ 88 :> CmdLine @@ 104 :> EndTag
Nothing  == 8 :> EndTag

(* Behind the end tag, what another program left there. *)
LeftOver(f) ==
  8 :> CmdLine @@ 24 :> EndTag @@ 32 :> FbTag(f) @@ 72 :> Mmap(1, 24) @@ 112 :> EndTag

Screen(addr, width, height, pitch, bytes) ==
  [addr |-> addr, pitch |-> pitch, width |-> width, height |-> height, bytes |-> bytes]

Fbs ==
  { Screen(544, 8, 6, 32, 4),          \* begins inside a page, ends in the fourth
    Screen(384, 6, 4, 32, 4),          \* ends with its region, lines padded
    Screen(512, 13, 9, 52, 4),         \* wide glyphs
    Screen(704, 8, 6, 32, 4),          \* goes into the next region
    Screen(96, 6, 4, 24, 4),           \* below the first region's end
    Screen(32, 6, 4, 12, 2),           \* on the kernel's page, as text mode
    Screen(1024 + 544, 8, 6, 32, 4),   \* beyond the tables
    Screen(640, 6, 7, 18, 3),          \* pixels of three bytes
    Screen(544, 8, 3, 32, 4),          \* no row of text
    Screen(0, 8, 6, 32, 4) }           \* no address

mcInfos ==
  UNION {{MapFirst(f), FbFirst(f), NoMap(f), LeftOver(f)} : f \in Fbs} \cup {NoFbTag, Nothing}

================================================================================
