------------------------------- MODULE BootProofs ------------------------------
(***************************************************************************)
(* Theorems about Boot for every well-formed boot information, every size  *)
(* of the page tables and every framebuffer.                               *)
(***************************************************************************)
EXTENDS Boot, SequenceTheorems, TLAPS

Early   == {"_start", "l1"}
Reading == {"mmap_first", "pmm_init", "mmap_next", "fb_init"}
Later   == {"paging_map_fb", "map", "fb_clear", "idt_init", "heap_init", "fb_clear_2",
            "greeting", "up", "faulting"}

(* No listed tag of the type lies in front of the one the search has come  *)
(* to.                                                                     *)
SearchAt(type) ==
  tag \in Listed /\ \A b \in Listed : info[b].type = type => tag <= b

(* Entry k of the memory map at a, and the first k entries.                *)
EntryAt(a, k)   == a + MmapHeader + (k - 1) * info[a].entry_size
FirstOf(a, k)   == [j \in 1..k |-> EntryAt(a, j)]
HasEntry(a, k)  == EntryAt(a, k) < a + info[a].size

(* pmm_init has read the first k entries of the map at a, and current is   *)
(* entry c.                                                                *)
AtEntry(a, k, c) ==
  /\ IsFirst(a, MB2_TAG_MMAP) /\ visited = FirstOf(a, k)
  /\ current = EntryAt(a, c) /\ HasEntry(a, c)

(* What the reader of the boot information knows.                          *)
InfoInv ==
  /\ info \in Infos /\ pc \in Early \cup Reading \cup Later
  /\ pc \in Early => tag = InfoHeader /\ visited = <<>>
  /\ pc = "mmap_first" => SearchAt(MB2_TAG_MMAP) /\ visited = <<>>
  /\ pc = "pmm_init" =>
       \E a \in DOMAIN info : \E k \in Nat : AtEntry(a, k, k + 1)
  /\ pc = "mmap_next" =>
       /\ SearchAt(MB2_TAG_MMAP)
       /\ \E a \in DOMAIN info : \E k \in Nat \ {0} : AtEntry(a, k, k)
  /\ pc = "fb_init" => SearchAt(MB2_TAG_FB)
  /\ pc \in {"fb_init"} \cup Later => MapRead
  /\ pc \in Early \cup Reading => fb = NoFb
  /\ pc \in Later => FbRead

(* The framebuffer is the boot loader's, or none. *)
FbInv ==
  /\ fb \in Screens /\ fb.width * fb.bytes <= fb.pitch /\ fb.height < Word
  /\ pc \in Early \cup Reading => fb = NoFb

------------------------------------------------------------------------------
(* Reading the boot information. *)

LEMMA InfoParts ==
  ASSUME info \in Infos
  PROVE  /\ DOMAIN info \subseteq Nat /\ InfoHeader \in DOMAIN info
         /\ \A a \in DOMAIN info :
              /\ info[a].type \in Nat /\ info[a].size \in Nat /\ info[a].entry_size \in Nat
              /\ info[a].fb \in Screens
              /\ InfoHeader <= a /\ info[a].size >= 8
              /\ info[a].type = MB2_TAG_MMAP =>
                   /\ info[a].entry_size > 0 /\ info[a].size >= MmapHeader + info[a].entry_size
                   /\ (info[a].size - MmapHeader) % info[a].entry_size = 0
              /\ info[a].fb.width * info[a].fb.bytes <= info[a].fb.pitch
<1>1. WellFormed(info)
  BY InfosAssumption
<1>2. \A a \in DOMAIN info : info[a] \in Tags
  BY <1>1 DEF WellFormed
<1>3. \A t \in Tags : t.type \in Nat /\ t.size \in Nat /\ t.entry_size \in Nat /\ t.fb \in Screens
  BY DEF Tags
<1>4. QED
  BY <1>1, <1>2, <1>3, Zenon DEF WellFormed

LEMMA ListedTags ==
  ASSUME info \in Infos
  PROVE  /\ Listed \subseteq DOMAIN info /\ InfoHeader \in Listed
         /\ \A a \in DOMAIN info : a \in Nat /\ InfoHeader <= a
<1>1. InfoHeader \in DOMAIN info /\ \A a \in DOMAIN info : a \in Nat /\ InfoHeader <= a
  BY InfoParts, Zenon
<1>2. QED
  BY <1>1, Zenon DEF Listed

(* What is said of the listed tags stays true while info does.             *)
LEMMA SameInfo ==
  ASSUME info' = info
  PROVE  /\ Listed' = Listed
         /\ UNCHANGED visited => (MapRead' <=> MapRead)
         /\ UNCHANGED fb => (FbRead' <=> FbRead)
<1>1. Listed' = Listed
  BY Zenon DEF Listed
<1>2. UNCHANGED visited => (MapRead' <=> MapRead)
  BY <1>1, Zenon DEF MapRead, IsFirst, EntriesOf, Missing
<1>3. UNCHANGED fb => (FbRead' <=> FbRead)
  BY <1>1, Zenon DEF FbRead, IsFirst, Missing
<1>4. QED
  BY <1>1, <1>2, <1>3

(* One round of a search. *)
LEMMA SearchOn ==
  ASSUME info \in Infos, NEW type, SearchAt(type), info[tag].type \notin {MB2_TAG_END, type},
         tag' = mb2_next_tag, info' = info
  PROVE  SearchAt(type)'
<1> DEFINE after == ((tag + info[tag].size + 7) \div 8) * 8
<1>1. tag' = after
  BY DEF mb2_next_tag
<1>2. tag \in DOMAIN info /\ info[tag].type # MB2_TAG_END /\ info[tag].type # type
  BY ListedTags, Zenon DEF SearchAt
<1>3. after \in DOMAIN info /\ \A b \in DOMAIN info : b <= tag \/ after <= b
  BY <1>2, InfosAssumption, Zenon DEF WellFormed
<1> HIDE DEF after
<1>4. DOMAIN info \subseteq Nat
  BY InfoParts, Zenon
<1>5. ASSUME NEW b \in DOMAIN info, tag <= b, b # tag
      PROVE  after <= b
  BY <1>2, <1>3, <1>4, <1>5
<1>6. after \in Listed
  <2>1. ASSUME NEW b \in DOMAIN info, info[b].type = MB2_TAG_END
        PROVE  after <= b
    <3>1. tag <= b /\ b # tag
      BY <1>2, <2>1, Zenon DEF SearchAt, Listed
    <3>2. QED
      BY <1>5, <3>1
  <2>2. QED
    BY <1>3, <2>1, Zenon DEF Listed
<1>7. ASSUME NEW b \in Listed, info[b].type = type
      PROVE  after <= b
  <2>1. tag <= b /\ b # tag /\ b \in DOMAIN info
    BY <1>2, <1>7, Zenon DEF SearchAt, Listed
  <2>2. QED
    BY <1>5, <2>1
<1>8. Listed' = Listed
  BY SameInfo, Zenon
<1>9. QED
  BY <1>1, <1>6, <1>7, <1>8, Zenon DEF SearchAt

LEMMA SearchBegins ==
  ASSUME info \in Infos, NEW type, tag = InfoHeader
  PROVE  SearchAt(type)
<1>1. \A b \in Listed : InfoHeader <= b
  BY ListedTags, Zenon
<1>2. QED
  BY <1>1, ListedTags, Zenon DEF SearchAt

(* The same for a search that begins with the next step. *)
LEMMA SearchBeginsNext ==
  ASSUME info \in Infos, NEW type, tag' = InfoHeader, info' = info
  PROVE  SearchAt(type)'
<1>1. \A b \in Listed : InfoHeader <= b
  BY ListedTags, Zenon
<1>2. QED
  BY <1>1, ListedTags, SameInfo, Zenon DEF SearchAt

LEMMA FoundFirst ==
  ASSUME info \in Infos, NEW type, SearchAt(type), Found(type)
  PROVE  IsFirst(tag, type)
BY DEF SearchAt, Found, IsFirst

LEMMA NotFoundMissing ==
  ASSUME info \in Infos, NEW type, type # MB2_TAG_END, SearchAt(type), NotFound
  PROVE  Missing(type)
<1>1. SUFFICES ASSUME NEW a \in Listed, info[a].type = type PROVE FALSE
  BY DEF Missing
<1>2. tag \in DOMAIN info /\ a \in DOMAIN info /\ tag <= a /\ a <= tag
  BY <1>1, ListedTags, Zenon DEF SearchAt, NotFound, Listed
<1>3. a = tag
  BY <1>2, ListedTags
<1>4. QED
  BY <1>1, <1>3, Zenon DEF NotFound

LEMMA FirstIsUnique ==
  ASSUME info \in Infos, NEW type, NEW a, NEW b, IsFirst(a, type), IsFirst(b, type)
  PROVE  a = b
<1>1. a \in DOMAIN info /\ b \in DOMAIN info /\ a <= b /\ b <= a
  BY ListedTags, Zenon DEF IsFirst
<1>2. a \in Nat /\ b \in Nat
  BY <1>1, InfoParts, Zenon
<1>3. QED
  BY <1>1, <1>2

LEMMA InitInfo == Init => InfoInv
BY DEF Init, MultibootInit, InfoInv, Early, Reading, Later

(* Everything but ReadInfo keeps what was read, or starts again.           *)
LEMMA LaterInfo ==
  ASSUME InfoInv, UNCHANGED <<info, visited, fb>>, pc \in Later, pc' \in Later
  PROVE  InfoInv'
<1>1. MapRead' /\ FbRead'
  BY SameInfo, Zenon DEF InfoInv, Later
<1>2. QED
  BY <1>1 DEF InfoInv, Later, Early, Reading

LEMMA MmapFirstInfo == ASSUME InfoInv, mmap_first PROVE InfoInv'
<1> USE DEF InfoInv
<1>1. pc = "mmap_first" /\ info' = info /\ visited' = visited /\ fb' = fb
  BY Zenon DEF mmap_first, Skip, Trans
<1>2. SearchAt(MB2_TAG_MMAP) /\ visited = <<>> /\ info \in Infos /\ fb = NoFb
  BY <1>1 DEF Reading
<1>3. Listed' = Listed
  BY <1>1, SameInfo, Zenon
<1>4. CASE Skip("mmap_first", MB2_TAG_MMAP)
  <2>1. pc' = pc /\ info[tag].type \notin {MB2_TAG_END, MB2_TAG_MMAP} /\ tag' = mb2_next_tag
    BY <1>4 DEF Skip
  <2>2. SearchAt(MB2_TAG_MMAP)'
    BY <1>1, <1>2, <2>1, SearchOn, Zenon
  <2>3. QED
    BY <1>1, <1>2, <2>1, <2>2 DEF Early, Reading, Later
<1>5. CASE /\ Trans("mmap_first", "pmm_init") /\ Found(MB2_TAG_MMAP)
           /\ current' = tag + MmapHeader /\ UNCHANGED <<info, tag, visited, fb>>
  <2>1. IsFirst(tag, MB2_TAG_MMAP)
    BY <1>2, <1>5, FoundFirst, Zenon
  <2>2. /\ tag \in DOMAIN info /\ tag \in Nat /\ info[tag].type = MB2_TAG_MMAP
        /\ info[tag].size \in Nat /\ info[tag].entry_size \in Nat /\ info[tag].entry_size > 0
        /\ info[tag].size >= MmapHeader + info[tag].entry_size
    BY <1>2, <2>1, InfoParts, ListedTags DEF IsFirst
  <2>3. EntryAt(tag, 0 + 1) = tag + MmapHeader
    BY <2>2 DEF EntryAt, MmapHeader
  <2>4. HasEntry(tag, 0 + 1)
    BY <2>2, <2>3 DEF HasEntry, MmapHeader
  <2>5. visited = FirstOf(tag, 0)
    BY <1>2 DEF FirstOf
  <2>6. AtEntry(tag, 0, 0 + 1)'
    BY <1>3, <1>5, <2>1, <2>3, <2>4, <2>5, Zenon
       DEF AtEntry, IsFirst, FirstOf, EntryAt, HasEntry
  <2>7. pc' = "pmm_init" /\ 0 \in Nat /\ tag \in DOMAIN info'
    BY <1>1, <1>5, <2>2 DEF Trans
  <2>8. \E a \in DOMAIN info' : \E k \in Nat : AtEntry(a, k, k + 1)'
    <3>1. \E k \in Nat : AtEntry(tag, k, k + 1)'
      BY <2>6, <2>7, Zenon
    <3>2. tag' = tag
      BY <1>5
    <3>3. QED
      BY <2>7, <3>1, <3>2, Zenon
  <2>9. QED
    BY <1>1, <1>2, <2>7, <2>8 DEF Early, Reading, Later
<1>6. CASE Trans("mmap_first", "fb_init") /\ NotFound /\ tag' = InfoHeader
  <2>1. pc' = "fb_init" /\ SearchAt(MB2_TAG_FB)'
    BY <1>1, <1>2, <1>6, SearchBeginsNext, Zenon DEF Trans
  <2>2. MB2_TAG_MMAP # MB2_TAG_END
    BY DEF MB2_TAG_MMAP, MB2_TAG_END
  <2>3. Missing(MB2_TAG_MMAP)
    BY <1>2, <1>6, <2>2, NotFoundMissing, Zenon
  <2>4. MapRead'
    BY <1>1, <1>2, <2>3, SameInfo, Zenon DEF MapRead
  <2>5. QED
    BY <1>1, <1>2, <2>1, <2>4 DEF Early, Reading, Later
<1>7. QED
  BY <1>4, <1>5, <1>6, Zenon DEF mmap_first

(* The next entry, if there is one, and the end of the map.                *)
LEMMA NextEntry ==
  ASSUME info \in Infos, NEW a \in DOMAIN info, info[a].type = MB2_TAG_MMAP,
         NEW k \in Nat \ {0}, HasEntry(a, k)
  PROVE  /\ EntryAt(a, k) + info[a].entry_size = EntryAt(a, k + 1)
         /\ ~HasEntry(a, k + 1) => FirstOf(a, k) = EntriesOf(a)
<1> DEFINE e == info[a].entry_size
           s == info[a].size
<1>1. /\ a \in Nat /\ e \in Nat /\ e > 0 /\ s \in Nat /\ s >= MmapHeader + e
      /\ (s - MmapHeader) % e = 0
  BY InfoParts, Zenon
<1> HIDE DEF e, s
<1>2. /\ EntryAt(a, k) = a + MmapHeader + (k - 1) * e
      /\ EntryAt(a, k + 1) = a + MmapHeader + k * e
      /\ (k - 1) * e + e = k * e /\ (k - 1) * e \in Int /\ k * e \in Int
  <2>1. (k + 1) - 1 = k
    OBVIOUS
  <2>2. (k - 1) * e + e = k * e /\ (k - 1) * e \in Int /\ k * e \in Int
    BY <1>1
  <2>3. QED
    BY <2>1, <2>2, Zenon DEF EntryAt, e
<1>3. EntryAt(a, k) + e = EntryAt(a, k + 1)
  BY <1>1, <1>2 DEF MmapHeader
<1>4. ASSUME ~HasEntry(a, k + 1)
      PROVE  FirstOf(a, k) = EntriesOf(a)
  <2>1. (k - 1) * e < s - MmapHeader /\ s - MmapHeader <= k * e
    BY <1>1, <1>2, <1>4 DEF HasEntry, MmapHeader, s
  <2> DEFINE d == s - MmapHeader
             q == d \div e
  <2>2. d \in Nat /\ q \in Nat /\ d = q * e
    BY <1>1 DEF MmapHeader
  <2> HIDE DEF d, q
  <2>3. q = k
    <3>1. (k - 1) * e < q * e /\ q * e <= k * e
      BY <2>1, <2>2 DEF d
    <3>2. ~(q <= k - 1)
      <4>1. q <= k - 1 => q * e <= (k - 1) * e
        BY <1>1, <2>2
      <4>2. QED
        BY <1>1, <1>2, <2>2, <3>1, <4>1
    <3>3. ~(q >= k + 1)
      <4>1. q >= k + 1 => q * e >= (k + 1) * e
        BY <1>1, <2>2
      <4>2. (k + 1) * e = k * e + e
        BY <1>1
      <4>3. QED
        BY <1>1, <1>2, <2>2, <3>1, <4>1, <4>2
    <3>4. QED
      BY <2>2, <3>2, <3>3
  <2>4. (info[a].size - MmapHeader) \div info[a].entry_size = k
    BY <2>3 DEF q, d, s, e
  <2>5. QED
    BY <2>4 DEF FirstOf, EntriesOf, EntryAt
<1>5. QED
  BY <1>3, <1>4, Zenon DEF e

LEMMA PmmInitInfo == ASSUME InfoInv, pmm_init PROVE InfoInv'
<1> USE DEF InfoInv
<1>1. /\ pc = "pmm_init" /\ pc' = "mmap_next" /\ info' = info /\ current' = current
      /\ visited' = Append(visited, current) /\ tag' = InfoHeader /\ info \in Infos
      /\ fb' = fb /\ fb = NoFb
  BY DEF pmm_init, Trans, Reading
<1>2. PICK a \in DOMAIN info : \E k \in Nat : AtEntry(a, k, k + 1)
  BY <1>1
<1>3. PICK k \in Nat : AtEntry(a, k, k + 1)
  BY <1>2
<1>4. a \in Nat /\ info[a].entry_size \in Nat
  BY <1>1, InfoParts, Zenon
<1>5. \A j \in Nat : EntryAt(a, j) \in Int
  BY <1>4 DEF EntryAt, MmapHeader
<1>6. Append(FirstOf(a, k), EntryAt(a, k + 1)) = FirstOf(a, k + 1)
  <2>1. \A j \in 1..(k + 1) : EntryAt(a, j) \in Int
    BY <1>5
  <2>2. FirstOf(a, k) \in Seq(Int) /\ Len(FirstOf(a, k)) = k
        /\ \A j \in 1..k : FirstOf(a, k)[j] = EntryAt(a, j)
    BY <2>1 DEF FirstOf
  <2>3. FirstOf(a, k + 1) \in Seq(Int) /\ Len(FirstOf(a, k + 1)) = k + 1
        /\ \A j \in 1..(k + 1) : FirstOf(a, k + 1)[j] = EntryAt(a, j)
    BY <2>1 DEF FirstOf
  <2> DEFINE u == Append(FirstOf(a, k), EntryAt(a, k + 1))
  <2>4. /\ u \in Seq(Int) /\ Len(u) = k + 1 /\ u[k + 1] = EntryAt(a, k + 1)
        /\ \A j \in 1..k : u[j] = EntryAt(a, j)
    BY <2>1, <2>2, AppendProperties
  <2> HIDE DEF u
  <2>5. \A j \in 1..(k + 1) : u[j] = FirstOf(a, k + 1)[j]
    BY <2>3, <2>4
  <2>6. u = FirstOf(a, k + 1)
    BY <2>3, <2>4, <2>5, SeqEqual
  <2>7. QED
    BY <2>6 DEF u
<1>7. AtEntry(a, k + 1, k + 1)'
  BY <1>1, <1>3, <1>6, SameInfo, Zenon DEF AtEntry, IsFirst, FirstOf, EntryAt, HasEntry
<1>8. SearchAt(MB2_TAG_MMAP)'
  BY <1>1, SearchBeginsNext, Zenon
<1>9. k + 1 \in Nat \ {0} /\ a \in DOMAIN info'
  BY <1>1
<1>10. \E b \in DOMAIN info' : \E l \in Nat \ {0} : AtEntry(b, l, l)'
  BY <1>7, <1>9, Zenon
<1>11. QED
  BY <1>1, <1>8, <1>10 DEF Early, Reading, Later

LEMMA MmapNextInfo == ASSUME InfoInv, mmap_next PROVE InfoInv'
<1> USE DEF InfoInv
<1>1. pc = "mmap_next" /\ info' = info /\ visited' = visited /\ info \in Infos /\ fb' = fb
  BY Zenon DEF mmap_next, Skip, Trans
<1>2. fb = NoFb /\ SearchAt(MB2_TAG_MMAP) /\ Listed' = Listed
  BY <1>1, SameInfo DEF Reading
<1>3. CASE Skip("mmap_next", MB2_TAG_MMAP)
  <2>1. /\ pc' = pc /\ current' = current
        /\ info[tag].type \notin {MB2_TAG_END, MB2_TAG_MMAP} /\ tag' = mb2_next_tag
    BY <1>3 DEF Skip
  <2>2. SearchAt(MB2_TAG_MMAP)'
    BY <1>1, <1>2, <2>1, SearchOn, Zenon
  <2>3. \E a \in DOMAIN info' : \E k \in Nat \ {0} : AtEntry(a, k, k)'
    BY <1>1, <1>2, <2>1, Zenon DEF AtEntry, IsFirst, FirstOf, EntryAt, HasEntry
  <2>4. QED
    BY <1>1, <1>2, <2>1, <2>2, <2>3 DEF Early, Reading, Later
<1>4. CASE ~Skip("mmap_next", MB2_TAG_MMAP)
  <2> DEFINE next == current + info[tag].entry_size
  <2>1. /\ pc = "mmap_next" /\ Found(MB2_TAG_MMAP)
        /\ \/ /\ next < tag + info[tag].size /\ pc' = "pmm_init"
              /\ current' = next /\ tag' = tag
           \/ /\ next >= tag + info[tag].size /\ pc' = "fb_init"
              /\ tag' = InfoHeader
    BY <1>4, Zenon DEF mmap_next, Trans
  <2>2. SearchAt(MB2_TAG_MMAP) /\ \E a \in DOMAIN info : \E k \in Nat \ {0} : AtEntry(a, k, k)
    BY <2>1
  <2>3. IsFirst(tag, MB2_TAG_MMAP)
    BY <1>1, <2>1, <2>2, FoundFirst, Zenon
  <2>4. PICK k \in Nat \ {0} : AtEntry(tag, k, k)
    BY <1>1, <2>2, <2>3, FirstIsUnique, Zenon DEF AtEntry
  <2>5. tag \in DOMAIN info /\ info[tag].type = MB2_TAG_MMAP
    BY <1>1, <2>3, ListedTags, Zenon DEF IsFirst
  <2>6. next = EntryAt(tag, k + 1) /\ (~HasEntry(tag, k + 1) => FirstOf(tag, k) = EntriesOf(tag))
    BY <1>1, <2>4, <2>5, NextEntry, Zenon DEF AtEntry
  <2> HIDE DEF next
  <2>7. CASE next < tag + info[tag].size /\ pc' = "pmm_init" /\ current' = next /\ tag' = tag
    <3>1. AtEntry(tag, k, k + 1)'
      BY <1>1, <1>2, <2>4, <2>6, <2>7, Zenon
         DEF AtEntry, IsFirst, FirstOf, EntryAt, HasEntry
    <3>2. k \in Nat /\ tag \in DOMAIN info'
      BY <1>1, <2>5
    <3>3. \E a \in DOMAIN info' : \E l \in Nat : AtEntry(a, l, l + 1)'
      <4>1. \E l \in Nat : AtEntry(tag, l, l + 1)'
        BY <3>1, <3>2, Zenon
      <4>2. QED
        BY <2>7, <3>2, <4>1, Zenon
    <3>4. QED
      BY <1>1, <1>2, <2>7, <3>3 DEF Early, Reading, Later
  <2>8. CASE next >= tag + info[tag].size /\ pc' = "fb_init" /\ tag' = InfoHeader
    <3>1. ~HasEntry(tag, k + 1)
      <4>1. next \in Int /\ tag + info[tag].size \in Int
        <5>1. tag \in Nat /\ info[tag].entry_size \in Nat /\ info[tag].size \in Nat
          BY <1>1, <2>5, InfoParts, Zenon
        <5>2. k + 1 - 1 = k /\ k * info[tag].entry_size \in Int
          BY <5>1
        <5>3. QED
          BY <2>6, <5>1, <5>2 DEF EntryAt, MmapHeader
      <4>2. QED
        BY <2>6, <2>8, <4>1 DEF HasEntry
    <3>2. visited = EntriesOf(tag)
      BY <2>4, <2>6, <3>1, Zenon DEF AtEntry
    <3>3. MapRead'
      BY <1>1, <2>3, <2>5, <3>2, SameInfo, Zenon DEF MapRead
    <3>4. SearchAt(MB2_TAG_FB)'
      BY <1>1, <2>8, SearchBeginsNext, Zenon
    <3>5. QED
      BY <1>1, <1>2, <2>8, <3>3, <3>4 DEF Early, Reading, Later
  <2>9. QED
    BY <2>1, <2>7, <2>8, Zenon DEF next
<1>5. QED
  BY <1>3, <1>4

LEMMA FbInitInfo == ASSUME InfoInv, fb_init PROVE InfoInv'
<1> USE DEF InfoInv
<1>1. /\ pc = "fb_init" /\ info' = info /\ visited' = visited /\ info \in Infos
      /\ SearchAt(MB2_TAG_FB) /\ MapRead /\ fb = NoFb
  BY DEF fb_init, Skip, Trans, Reading
<1>2. MapRead'
  BY <1>1, SameInfo, Zenon
<1>3. CASE Skip("fb_init", MB2_TAG_FB)
  <2>1. /\ pc' = pc /\ fb' = fb /\ tag' = mb2_next_tag
        /\ info[tag].type \notin {MB2_TAG_END, MB2_TAG_FB}
    BY <1>3 DEF Skip
  <2>2. SearchAt(MB2_TAG_FB)'
    BY <1>1, <2>1, SearchOn, Zenon
  <2>3. QED
    BY <1>1, <1>2, <2>1, <2>2 DEF Early, Reading, Later
<1>4. CASE ~Skip("fb_init", MB2_TAG_FB)
  <2>1. /\ pc' = "paging_map_fb"
        /\ \/ Found(MB2_TAG_FB) /\ fb' = info[tag].fb
           \/ NotFound /\ fb' = fb
    BY <1>4, Zenon DEF fb_init, Trans
  <2>2. FbRead'
    <3>1. CASE Found(MB2_TAG_FB) /\ fb' = info[tag].fb
      <4>1. IsFirst(tag, MB2_TAG_FB)
        BY <1>1, <3>1, FoundFirst, Zenon
      <4>2. tag \in DOMAIN info' /\ Listed' = Listed
        BY <1>1, <3>1, SameInfo, Zenon DEF Found
      <4>3. QED
        BY <1>1, <3>1, <4>1, <4>2, Zenon DEF FbRead, IsFirst
    <3>2. CASE NotFound /\ fb' = fb
      <4>1. MB2_TAG_FB # MB2_TAG_END
        BY DEF MB2_TAG_FB, MB2_TAG_END
      <4>2. Missing(MB2_TAG_FB)
        BY <1>1, <3>2, <4>1, NotFoundMissing, Zenon
      <4>3. FbRead
        BY <1>1, <4>2, Zenon DEF FbRead
      <4>4. QED
        BY <1>1, <3>2, <4>3, SameInfo, Zenon
    <3>3. QED
      BY <2>1, <3>1, <3>2
  <2>3. QED
    BY <1>1, <1>2, <2>1, <2>2 DEF Early, Reading, Later
<1>5. QED
  BY <1>3, <1>4

(* The steps that read nothing, but for the restart. *)
LEMMA OtherSteps ==
  ASSUME InfoInv, Next, ~ReadInfo
  PROVE  \/ TripleFault
         \/ /\ pc = "_start" /\ pc' = "l1" /\ UNCHANGED mbVars
         \/ /\ pc = "l1" /\ pc' \in {"l1", "mmap_first"} /\ UNCHANGED mbVars
         \/ /\ pc \in Later /\ pc' \in Later /\ UNCHANGED mbVars
<1>1. pc \in Early \cup Reading \cup Later
  BY DEF InfoInv
<1>2. Start => pc = "_start" /\ pc' = "l1" /\ UNCHANGED mbVars
  BY DEF Start, Trans
<1>3. IdentityMap => pc = "l1" /\ pc' \in {"l1", "mmap_first"} /\ UNCHANGED mbVars
  BY DEF IdentityMap
<1>4. paging_map_fb => pc \in Later /\ pc' \in Later /\ UNCHANGED mbVars
  BY DEF paging_map_fb, Trans, Later
<1>5. ASSUME NEW here \in Later, NEW next \in Later, fb_clear(here, next) \/ Call(here, next)
      PROVE  pc \in Later /\ pc' \in Later /\ UNCHANGED mbVars
  BY <1>5 DEF fb_clear, Call, Trans
<1>6. kernel_main => pc \in Later /\ pc' \in Later /\ UNCHANGED mbVars
  BY <1>4, <1>5 DEF kernel_main, Later, pmm_and_fb_init
<1>7. Idle => pc \in Later /\ pc' \in Later /\ UNCHANGED mbVars
  BY <1>5 DEF Idle, Later
<1>8. Fault => pc \in Later /\ pc' \in Later /\ UNCHANGED mbVars
  BY <1>1 DEF Fault, Later, NoHandler, NoPaging, Early, Reading
<1>9. FaultAgain => pc \in Later /\ pc' \in Later /\ UNCHANGED mbVars
  BY DEF FaultAgain, Later, vars, mbVars
<1>10. QED
  BY <1>2, <1>3, <1>6, <1>7, <1>8, <1>9, Zenon DEF Next

LEMMA StepInfo == InfoInv /\ [Next]_vars => InfoInv'
<1> SUFFICES ASSUME InfoInv, [Next]_vars PROVE InfoInv'
  OBVIOUS
<1>1. CASE ReadInfo
  BY <1>1, MmapFirstInfo, PmmInitInfo, MmapNextInfo, FbInitInfo, Zenon DEF ReadInfo
<1>2. CASE Next /\ ~ReadInfo
  <2>1. CASE TripleFault
    <3>1. info' = info /\ pc' = "_start" /\ tag' = InfoHeader /\ visited' = <<>> /\ fb' = NoFb
      BY <2>1 DEF TripleFault
    <3>2. NoFb' = NoFb /\ InfoHeader' = InfoHeader
      BY DEF NoFb, InfoHeader
    <3>3. QED
      BY <3>1, <3>2 DEF InfoInv, Early, Reading, Later
  <2>2. CASE pc = "_start" /\ pc' = "l1" /\ UNCHANGED mbVars
    BY <2>2 DEF InfoInv, Early, Reading, Later, mbVars
  <2>3. CASE pc = "l1" /\ pc' \in {"l1", "mmap_first"} /\ UNCHANGED mbVars
    <3>1. /\ info \in Infos /\ tag = InfoHeader /\ visited = <<>> /\ fb = NoFb
          /\ UNCHANGED <<info, tag, visited, fb>>
      BY <2>3 DEF InfoInv, Early, mbVars
    <3>2. SearchAt(MB2_TAG_MMAP)'
      BY <3>1, SearchBeginsNext, Zenon
    <3>3. QED
      BY <2>3, <3>1, <3>2 DEF InfoInv, Early, Reading, Later
  <2>4. CASE pc \in Later /\ pc' \in Later /\ UNCHANGED mbVars
    BY <2>4, LaterInfo DEF mbVars
  <2>5. QED
    BY <1>2, <2>1, <2>2, <2>3, <2>4, OtherSteps, Zenon
<1>3. CASE UNCHANGED vars
  <2>1. UNCHANGED <<pc, info, tag, visited, current, fb>>
    BY <1>3 DEF vars, mbVars
  <2>2. Listed' = Listed /\ (MapRead' <=> MapRead) /\ (FbRead' <=> FbRead)
    BY <2>1, SameInfo, Zenon
  <2>3. QED
    BY <2>1, <2>2, Zenon
    DEF InfoInv, SearchAt, AtEntry, IsFirst, FirstOf, EntryAt, HasEntry
<1>4. QED
  BY <1>1, <1>2, <1>3

LEMMA InfoInvariant == Spec => []InfoInv
BY InitInfo, StepInfo, PTL DEF Spec

(* A search of the boot information never looks between two tags or behind *)
(* the end tag; pmm_init reads each entry of the first memory map once, in *)
(* order, and nothing else, and fb_init takes the first framebuffer's tag, *)
(* for every list of tags (multiboot.h:56-68, memory.c:13-31, fb.c:31-41). *)
THEOREM InfoIsRead == Spec => []InfoRead
<1>1. InfoInv => InfoRead
  <2>1. SUFFICES ASSUME InfoInv PROVE InfoRead
    OBVIOUS
  <2>2. OnTags
    BY <2>1 DEF InfoInv, OnTags, Searching, SearchAt
  <2>3. pc \notin NoPaging \cup ReadingMap => pc \in {"fb_init"} \cup Later
    BY <2>1 DEF InfoInv, NoPaging, ReadingMap, Early, Reading
  <2>4. QED
    BY <2>1, <2>2, <2>3 DEF InfoInv, InfoRead
<1>2. QED
  BY <1>1, InfoInvariant, PTL

(* The framebuffer fb_init found is one the boot loader described. *)
LEMMA StepFb == InfoInv /\ FbInv /\ [Next]_vars => FbInv'
<1> SUFFICES ASSUME InfoInv, FbInv, [Next]_vars PROVE FbInv'
  OBVIOUS
<1>1. CASE mmap_first \/ pmm_init \/ mmap_next
  <2>1. fb' = fb /\ pc \in Reading
    BY <1>1, Zenon DEF mmap_first, pmm_init, mmap_next, Skip, Trans, Reading
  <2>2. QED
    BY <2>1 DEF FbInv
<1>2. CASE fb_init
  <2>1. CASE Skip("fb_init", MB2_TAG_FB)
    BY <2>1 DEF Skip, FbInv
  <2>2. CASE pc' = "paging_map_fb" /\ Found(MB2_TAG_FB) /\ fb' = info[tag].fb
    <3>1. info \in Infos /\ tag \in DOMAIN info
      BY <2>2 DEF InfoInv, Found
    <3>2. fb' \in Screens /\ fb'.width * fb'.bytes <= fb'.pitch
      BY <2>2, <3>1, InfoParts, Zenon
    <3>3. fb'.height < Word
      BY <2>2, <3>1, HeightAssumption, Zenon
    <3>4. pc' \notin Early \cup Reading
      BY <2>2 DEF Early, Reading
    <3>5. QED
      BY <3>2, <3>3, <3>4, Zenon DEF FbInv
  <2>3. CASE pc' = "paging_map_fb" /\ fb' = fb
    BY <2>3 DEF FbInv, Early, Reading
  <2>4. QED
    BY <1>2, <2>1, <2>2, <2>3, Zenon DEF fb_init, Trans
<1>3. CASE Next /\ ~ReadInfo
  <2>1. CASE TripleFault
    <3>1. fb' = NoFb
      BY <2>1 DEF TripleFault
    <3>2. NoFb \in Screens /\ NoFb.width * NoFb.bytes <= NoFb.pitch /\ NoFb.height < Word
      BY HeightAssumption DEF NoFb, Screens
    <3>3. QED
      BY <3>1, <3>2, Zenon DEF FbInv
  <2>2. CASE ~TripleFault
    <3>1. fb' = fb /\ (pc' \in Early \cup Reading => pc \in Early \cup Reading)
      BY <1>3, <2>2, OtherSteps DEF mbVars, Early, Reading, Later
    <3>2. QED
      BY <3>1 DEF FbInv
  <2>3. QED
    BY <2>1, <2>2
<1>4. CASE UNCHANGED vars
  BY <1>4 DEF vars, mbVars, FbInv
<1>5. QED
  BY <1>1, <1>2, <1>3, <1>4, Zenon DEF ReadInfo

LEMMA InitFb == Init => FbInv
<1>1. NoFb \in Screens /\ NoFb.width * NoFb.bytes <= NoFb.pitch /\ NoFb.height < Word
  BY HeightAssumption DEF NoFb, Screens
<1>2. QED
  BY <1>1, Zenon DEF Init, MultibootInit, FbInv

LEMMA FbInvariant == Spec => []FbInv
BY InitFb, StepFb, InfoInvariant, PTL DEF Spec

------------------------------------------------------------------------------
(* The page tables. *)

Unlinked == Early \cup Reading \cup {"paging_map_fb"}

TypesInv ==
  /\ pml4 \in BOOLEAN
  /\ pdpt \in [Index -> {"none", "pd", "fb_pd"}]
  /\ pd \in [Index -> Int] /\ fb_pd \in [Index -> Int]
  /\ eax \in 0..Entries /\ y \in Nat /\ i \in Nat

(* Which directory a region has, and what the entries of the two are.      *)
TablesInv ==
  /\ \A k \in Index : pd[k] # Absent => pd[k] = k * BigPage
  /\ \A k \in Index : pdpt[k] = "pd" => k = 0
  /\ \A k \in Index : pdpt[k] = "fb_pd" =>
       pc \notin Unlinked /\ k = PdptIdx(fb.addr) /\ fb_size # 0
  /\ \A k \in Index : fb_pd[k] # Absent =>
       /\ pc \notin Unlinked /\ k >= PdStart(fb.addr)
       /\ fb_pd[k] = PageBase(fb.addr) + (k - PdStart(fb.addr)) * BigPage
  /\ pc = "map" => fb_size # 0
  /\ PdStart(fb.addr) + i <= Entries
  /\ pc \in Unlinked => i = 0

LEMMA IndexParts ==
  /\ Entries \in Nat /\ Entries > 0 /\ BigPage \in Nat /\ BigPage > 0
  /\ \A k \in Index : k \in Nat /\ k < Entries
  /\ 0 \in Index
  /\ Absent \in Int
BY PagingAssumption DEF Index, Absent

(* Where an address lies in the tables. *)
LEMMA AddressParts ==
  ASSUME NEW a \in Nat
  PROVE  /\ PdStart(a) \in Index /\ PdptIdx(a) \in Index
         /\ PageBase(a) = (a \div BigPage) * BigPage /\ a \div BigPage \in Nat
<1>1. BigPage \in Nat /\ BigPage > 0 /\ Entries \in Nat /\ Entries > 0
  BY IndexParts
<1>2. a \div BigPage \in Nat
  BY <1>1
<1>3. Region \in Nat /\ Region > 0
  BY <1>1 DEF Region
<1>4. a \div Region \in Nat
  BY <1>3
<1>5. \A n \in Nat : n % Entries \in Index
  BY <1>1 DEF Index
<1>6. a = (a \div BigPage) * BigPage + (a % BigPage)
  <2>1. \A x, b \in Nat : b > 0 => x = (x \div b) * b + (x % b)
    OBVIOUS
  <2>2. QED
    BY <1>1, <2>1
<1>7. a % BigPage \in Int /\ (a \div BigPage) * BigPage \in Int
  BY <1>1
<1>8. a - (a % BigPage) = (a \div BigPage) * BigPage
  BY <1>6, <1>7
<1>9. QED
  BY <1>2, <1>4, <1>5, <1>8, Zenon DEF PdStart, PdptIdx, PageBase

LEMMA InitTables == Init => TypesInv /\ TablesInv
<1> SUFFICES ASSUME Init PROVE TypesInv /\ TablesInv
  OBVIOUS
<1>1. /\ pml4 = FALSE /\ pdpt = [k \in Index |-> "none"]
      /\ pd = [k \in Index |-> Absent] /\ fb_pd = [k \in Index |-> Absent]
      /\ eax = 0 /\ i = 0 /\ y = 0 /\ pc = "_start" /\ fb = NoFb
  BY DEF Init, PagingInit, MultibootInit
<1>2. TypesInv
  <2>1. /\ pdpt \in [Index -> {"none", "pd", "fb_pd"}]
        /\ pd \in [Index -> Int] /\ fb_pd \in [Index -> Int]
    BY <1>1, IndexParts
  <2>2. 0 \in 0..Entries /\ 0 \in Nat
    BY IndexParts
  <2>3. QED
    BY <1>1, <2>1, <2>2, Zenon DEF TypesInv
<1>3. PdStart(fb.addr) \in Index
  <2>1. fb.addr \in Nat
    BY <1>1 DEF NoFb
  <2>2. QED
    BY <2>1, AddressParts, Zenon
<1>4. PdStart(fb.addr) + 0 <= Entries
  BY <1>3, IndexParts
<1>5. QED
  BY <1>1, <1>2, <1>4, Zenon DEF TablesInv

LEMMA FbParts ==
  ASSUME FbInv
  PROVE  /\ fb.addr \in Nat /\ fb.pitch \in Nat /\ fb.width \in Nat /\ fb.height \in Nat
         /\ fb.bytes \in Nat /\ fb_size \in Nat
         /\ PdStart(fb.addr) \in Index /\ PdptIdx(fb.addr) \in Index
<1>1. /\ fb.addr \in Nat /\ fb.pitch \in Nat /\ fb.width \in Nat /\ fb.height \in Nat
      /\ fb.bytes \in Nat
  BY DEF FbInv, Screens
<1>2. fb_size \in Nat
  BY <1>1 DEF fb_size
<1>3. QED
  BY <1>1, <1>2, AddressParts, Zenon

(* Steps that leave the tables and the framebuffer alone. *)
LEMMA TablesKept ==
  ASSUME TypesInv, TablesInv, UNCHANGED <<pgVars, fb>>, y' \in Nat,
         pc' \in Unlinked => pc \in Unlinked, pc \in Unlinked => pc' \in Unlinked,
         pc' = "map" => fb_size # 0
  PROVE  TypesInv' /\ TablesInv'
BY Zenon DEF TypesInv, TablesInv, pgVars, Index, PdptIdx, PdStart, PageBase, fb_size, Region

LEMMA StepTables == InfoInv /\ FbInv /\ TypesInv /\ TablesInv /\ [Next]_vars
                      => TypesInv' /\ TablesInv'
<1> SUFFICES ASSUME InfoInv, FbInv, TypesInv, TablesInv, [Next]_vars
             PROVE  TypesInv' /\ TablesInv'
  OBVIOUS
<1>1. CASE Start
  <2>1. /\ pc = "_start" /\ pc' = "l1" /\ UNCHANGED <<fb, y>>
        /\ pml4' = TRUE /\ pdpt' = [pdpt EXCEPT ![0] = "pd"]
        /\ UNCHANGED <<pd, fb_pd, eax, i>>
    BY <1>1 DEF Start, Trans, LinkTables, mbVars
  <2>2. TypesInv'
    BY <2>1, IndexParts DEF TypesInv
  <2>3. \A k \in Index : pdpt'[k] = IF k = 0 THEN "pd" ELSE pdpt[k]
    BY <2>1 DEF TypesInv
  <2>4. pc \in Unlinked /\ pc' \in Unlinked /\ pc' # "map"
    BY <2>1 DEF Unlinked, Early
  <2>5. QED
    BY <2>1, <2>2, <2>3, <2>4 DEF TablesInv, PdptIdx, PdStart, PageBase, fb_size
<1>2. CASE IdentityMap
  <2>1. CASE UNCHANGED pgVars
    <3>1. pc \in Unlinked /\ pc' \in Unlinked /\ pc' # "map" /\ UNCHANGED <<pgVars, fb>> /\ y' = y
      BY <1>2, <2>1 DEF IdentityMap, Unlinked, Early, Reading, mbVars
    <3>2. QED
      BY <3>1, TablesKept DEF TypesInv
  <2>2. CASE pc = "l1" /\ l1 /\ UNCHANGED pc
    <3>1. /\ eax < Entries /\ pd' = [pd EXCEPT ![eax] = eax * BigPage] /\ eax' = eax + 1
          /\ UNCHANGED <<pml4, pdpt, fb_pd, i, fb, y, pc>>
      BY <1>2, <2>2 DEF IdentityMap, l1, mbVars
    <3>2. eax \in Index /\ eax * BigPage \in Int
      BY <3>1, IndexParts DEF TypesInv, Index
    <3>3. TypesInv'
      BY <3>1, <3>2, IndexParts DEF TypesInv
    <3>4. \A k \in Index : pd'[k] = IF k = eax THEN eax * BigPage ELSE pd[k]
      BY <3>1 DEF TypesInv
    <3>5. QED
      BY <3>1, <3>3, <3>4, Zenon DEF TablesInv, PdptIdx, PdStart, PageBase, fb_size
  <2>3. QED
    BY <1>2, <2>1, <2>2, Zenon DEF IdentityMap
<1>3. CASE pmm_and_fb_init
  <2>1. UNCHANGED <<pgVars, y>> /\ ReadInfo
    BY <1>3 DEF pmm_and_fb_init
  <2>2. pc \in Unlinked /\ pc' \in Unlinked /\ pc' # "map"
    BY <2>1, Zenon
       DEF ReadInfo, mmap_first, pmm_init, mmap_next, fb_init, Skip, Trans, Unlinked, Reading
  <2>3. FbInv'
    BY StepFb
  <2>4. PdStart(fb.addr)' \in Index
    <3>1. (fb.addr)' \in Nat
      BY <2>3 DEF FbInv, Screens
    <3>2. QED
      BY <3>1, AddressParts, Zenon
  <2>5. i = 0 /\ i' = 0
    BY <2>1, <2>2 DEF TablesInv, pgVars
  <2>6. PdStart(fb.addr)' + i' <= Entries
    BY <2>4, <2>5, IndexParts
  <2>7. TypesInv'
    BY <2>1 DEF TypesInv, pgVars
  <2>8. UNCHANGED <<pdpt, pd, fb_pd>>
    BY <2>1 DEF pgVars
  <2>9. QED
    BY <2>2, <2>5, <2>6, <2>7, <2>8, Zenon DEF TablesInv
<1>4. CASE paging_map_fb
  <2>1. fb' = fb /\ y' = y
    BY <1>4 DEF paging_map_fb, mbVars
  <2>2. CASE Trans("paging_map_fb", "map") /\ fb_size # 0 /\ LinkFb(fb.addr)
    <3>1. /\ pdpt' = [pdpt EXCEPT ![PdptIdx(fb.addr)] = "fb_pd"] /\ i' = 0
          /\ UNCHANGED <<pml4, pd, fb_pd, eax>>
          /\ pc = "paging_map_fb" /\ pc' = "map"
      BY <2>2 DEF LinkFb, Trans
    <3>2. PdptIdx(fb.addr) \in Index /\ PdStart(fb.addr) \in Index
      BY FbParts, Zenon
    <3>3. TypesInv'
      BY <2>1, <3>1, <3>2 DEF TypesInv
    <3>4. \A k \in Index : pdpt'[k] = IF k = PdptIdx(fb.addr) THEN "fb_pd" ELSE pdpt[k]
      BY <3>1 DEF TypesInv
    <3>5. PdStart(fb.addr) + 0 <= Entries
      BY <3>2, IndexParts
    <3>6. pc \in Unlinked /\ pc' \notin Unlinked
      BY <3>1 DEF Unlinked, Early, Reading
    <3>7. QED
      BY <2>1, <2>2, <3>1, <3>3, <3>4, <3>5, <3>6
         DEF TablesInv, PdptIdx, PdStart, PageBase, fb_size
  <2>3. CASE Trans("paging_map_fb", "fb_clear") /\ UNCHANGED pgVars
    <3>1. pc = "paging_map_fb" /\ pc' = "fb_clear" /\ pc \in Unlinked /\ pc' \notin Unlinked
      BY <2>3 DEF Trans, Unlinked, Early, Reading
    <3>2. /\ TypesInv' /\ \A k \in Index : pdpt[k] # "fb_pd" /\ fb_pd[k] = Absent
      BY <2>1, <2>3, <3>1 DEF TypesInv, TablesInv, pgVars
    <3>3. QED
      BY <2>1, <2>3, <3>1, <3>2, Zenon DEF TablesInv, pgVars, PdptIdx, PdStart, PageBase, fb_size
  <2>4. CASE pc = "map" /\ MapPage(fb.addr, fb_size) /\ UNCHANGED pc
    <3> DEFINE s == PdStart(fb.addr)
    <3>1. /\ s + i < Entries /\ i' = i + 1
          /\ fb_pd' = [fb_pd EXCEPT ![s + i] = PageBase(fb.addr) + i * BigPage]
          /\ UNCHANGED <<pml4, pdpt, pd, eax, pc>> /\ pc \notin Unlinked
      BY <2>4 DEF MapPage, MapsMore, Unlinked, Early, Reading
    <3>2. s \in Index /\ i \in Nat /\ fb.addr \in Nat
      BY FbParts, Zenon DEF TypesInv
    <3>3. s + i \in Index /\ i * BigPage \in Int /\ PageBase(fb.addr) \in Int
      BY <3>1, <3>2, IndexParts DEF Index, PageBase
    <3>4. TypesInv'
      BY <2>1, <3>1, <3>2, <3>3 DEF TypesInv
    <3>5. \A k \in Index :
            fb_pd'[k] = IF k = s + i THEN PageBase(fb.addr) + i * BigPage ELSE fb_pd[k]
      BY <3>1 DEF TypesInv
    <3>6. s + i >= s /\ (s + i) - s = i /\ s + (i + 1) <= Entries
      BY <3>1, <3>2, IndexParts
    <3> HIDE DEF s
    <3>7. \A k \in Index : fb_pd'[k] # Absent =>
             k >= s /\ fb_pd'[k] = PageBase(fb.addr) + (k - s) * BigPage
      BY <3>1, <3>5, <3>6, Zenon DEF TablesInv, s
    <3>8. QED
      BY <2>1, <3>1, <3>4, <3>6, <3>7, Zenon
         DEF TablesInv, PdptIdx, PdStart, PageBase, fb_size, s
  <2>5. CASE Trans("map", "fb_clear") /\ UNCHANGED pgVars
    BY <2>1, <2>5, TablesKept, Zenon DEF Trans, Unlinked, Early, Reading, TypesInv
  <2>6. QED
    BY <1>4, <2>2, <2>3, <2>4, <2>5, Zenon DEF paging_map_fb
<1>5. CASE TripleFault
  <2>1. /\ pml4' = FALSE /\ pdpt' = [k \in Index |-> "none"]
        /\ pd' = [k \in Index |-> Absent] /\ fb_pd' = [k \in Index |-> Absent]
        /\ eax' = 0 /\ i' = 0 /\ y' = 0 /\ pc' = "_start" /\ fb' = NoFb
    BY <1>5 DEF TripleFault
  <2>2. TypesInv'
    <3>1. /\ pdpt' \in [Index -> {"none", "pd", "fb_pd"}]
          /\ pd' \in [Index -> Int] /\ fb_pd' \in [Index -> Int]
      BY <2>1, IndexParts
    <3>2. 0 \in 0..Entries /\ 0 \in Nat
      BY IndexParts
    <3>3. QED
      BY <2>1, <3>1, <3>2, Zenon DEF TypesInv, Index
  <2>3. PdStart(fb.addr)' \in Index
    <3>1. (fb.addr)' \in Nat
      BY <2>1 DEF NoFb
    <3>2. QED
      BY <3>1, AddressParts, Zenon
  <2>4. PdStart(fb.addr)' + 0 <= Entries
    BY <2>3, IndexParts
  <2>5. QED
    BY <2>1, <2>2, <2>4, Zenon DEF TablesInv
<1>6. CASE Next /\ ~Start /\ ~IdentityMap /\ ~pmm_and_fb_init /\ ~paging_map_fb /\ ~TripleFault
  <2>1. UNCHANGED <<pgVars, fb>> /\ y' \in Nat /\ pc \notin Unlinked /\ pc' \notin Unlinked
        /\ pc' # "map"
    <3>1. ASSUME NEW here \in Later \ {"paging_map_fb", "map"},
                 NEW next \in Later \ {"paging_map_fb", "map"},
                 fb_clear(here, next) \/ Call(here, next)
          PROVE  UNCHANGED <<pgVars, fb>> /\ y' \in Nat /\ pc \notin Unlinked /\ pc' \notin Unlinked
                 /\ pc' # "map"
      BY <3>1 DEF fb_clear, Call, Trans, Later, Unlinked, Early, Reading, mbVars, TypesInv
    <3>2. CASE kernel_main
      BY <1>6, <3>1, <3>2 DEF kernel_main, Later
    <3>3. CASE Idle
      BY <3>1, <3>3 DEF Idle, Later
    <3>4. CASE Fault \/ FaultAgain
      <4>1. UNCHANGED <<pgVars, fb>> /\ y' = y /\ pc' = "faulting"
        BY <3>4 DEF Fault, FaultAgain, vars, mbVars
      <4>2. pc \notin Unlinked
        BY <3>4 DEF Fault, FaultAgain, Unlinked, Early, Reading, NoPaging, NoHandler
      <4>3. QED
        BY <4>1, <4>2 DEF TypesInv, Unlinked, Early, Reading
    <3>5. QED
      BY <1>6, <3>2, <3>3, <3>4, Zenon DEF Next
  <2>2. QED
    BY <2>1, TablesKept, Zenon
<1>7. CASE UNCHANGED vars
  BY <1>7, TablesKept, Zenon DEF vars, mbVars, TypesInv, TablesInv
<1>8. QED
  BY <1>1, <1>2, <1>3, <1>4, <1>5, <1>6, <1>7, Zenon

LEMMA TablesInvariant == Spec => [](TypesInv /\ TablesInv)
BY InitTables, StepTables, InfoInvariant, FbInvariant, PTL DEF Spec

(* What the tables are sure to have: the first region as far as l1 has     *)
(* come, and the framebuffer's pages as far as paging_map_fb has come.     *)
FbLinked == pc \notin Unlinked /\ fb.addr # 0 /\ fb_size # 0

PagesOfFb ==
  \A k \in Index : k >= PdStart(fb.addr) /\ k < PdStart(fb.addr) + i =>
    fb_pd[k] = PageBase(fb.addr) + (k - PdStart(fb.addr)) * BigPage

CoverInv ==
  /\ \A k \in Index : k < eax => pd[k] = k * BigPage
  /\ pc \notin NoPaging => eax = Entries
  /\ pc # "_start" =>
       pml4 = TRUE /\ (pdpt[0] = "pd" \/ (FbLinked /\ PdptIdx(fb.addr) = 0))
  /\ FbLinked => pdpt[PdptIdx(fb.addr)] = "fb_pd"
  /\ PagesOfFb
  /\ FbLinked /\ pc # "map" => ~MapsMore(fb.addr, fb_size)

LEMMA NoPagesYet ==
  ASSUME i' = 0, (fb.addr)' \in Nat
  PROVE  PagesOfFb'
<1>1. PdStart(fb.addr)' \in Index
  BY AddressParts, Zenon
<1>2. ASSUME NEW k \in Index, k >= PdStart(fb.addr)', k < PdStart(fb.addr)' + i'
      PROVE  FALSE
  BY <1>1, <1>2, IndexParts
<1>3. Index' = Index
  BY DEF Index
<1>4. QED
  BY <1>2, <1>3, Zenon DEF PagesOfFb

LEMMA PagesKept ==
  ASSUME PagesOfFb, UNCHANGED <<fb, fb_pd, i>>
  PROVE  PagesOfFb'
BY Zenon DEF PagesOfFb, Index, PdStart, PageBase

LEMMA CoverKept ==
  ASSUME CoverInv, UNCHANGED <<pgVars, fb>>,
         pc' \in Unlinked <=> pc \in Unlinked, pc' # "map" => pc # "map",
         pc' \notin NoPaging => pc \notin NoPaging, pc # "_start"
  PROVE  CoverInv'
<1>1. UNCHANGED <<pml4, pdpt, pd, fb_pd, eax, i, fb>>
  BY DEF pgVars
<1>2. fb_size' = fb_size
  BY <1>1 DEF fb_size
<1>3. FbLinked' <=> FbLinked
  BY <1>1, <1>2, Zenon DEF FbLinked, Unlinked, Early, Reading
<1>4. PagesOfFb'
  BY <1>1, PagesKept, Zenon DEF CoverInv
<1>5. MapsMore(fb.addr, fb_size)' <=> MapsMore(fb.addr, fb_size)
  BY <1>1, <1>2, Zenon DEF MapsMore, NPages, PdStart
<1>6. PdptIdx(fb.addr)' = PdptIdx(fb.addr)
  BY <1>1, Zenon DEF PdptIdx, Region
<1>7. QED
  BY <1>1, <1>3, <1>4, <1>5, <1>6, Zenon DEF CoverInv, Index, NoPaging

LEMMA StepCover ==
  InfoInv /\ FbInv /\ TypesInv /\ TablesInv /\ CoverInv /\ [Next]_vars => CoverInv'
<1> SUFFICES ASSUME InfoInv, FbInv, TypesInv, TablesInv, CoverInv, [Next]_vars
             PROVE  CoverInv'
  OBVIOUS
<1>1. FbInv'
  BY StepFb
<1>2. (fb.addr)' \in Nat
  BY <1>1 DEF FbInv, Screens
<1>3. CASE Start
  <2>1. /\ pc = "_start" /\ pc' = "l1" /\ UNCHANGED <<pd, fb_pd, eax, i, fb>>
        /\ pml4' = TRUE /\ pdpt' = [pdpt EXCEPT ![0] = "pd"]
    BY <1>3 DEF Start, Trans, LinkTables, mbVars
  <2>2. pdpt'[0] = "pd"
    BY <2>1, IndexParts DEF TypesInv
  <2>3. pc' \in Unlinked /\ pc' \in NoPaging
    BY <2>1 DEF Unlinked, Early, NoPaging
  <2>4. ~FbLinked'
    BY <2>3, Zenon DEF FbLinked
  <2>5. PagesOfFb'
    BY <2>1, PagesKept, Zenon DEF CoverInv
  <2>6. QED
    BY <2>1, <2>2, <2>3, <2>4, <2>5 DEF CoverInv
<1>4. CASE IdentityMap
  <2>1. pc = "l1" /\ fb' = fb /\ pc \in Unlinked /\ pc' \in Unlinked /\ pc' # "_start"
    BY <1>4 DEF IdentityMap, Unlinked, Early, Reading, mbVars
  <2>2. ~FbLinked /\ ~FbLinked'
    BY <2>1, Zenon DEF FbLinked
  <2>3. CASE eax >= Entries /\ UNCHANGED pgVars
    <3>1. eax = Entries /\ UNCHANGED <<pml4, pdpt, pd, fb_pd, eax, i>>
      BY <2>3, IndexParts DEF TypesInv, pgVars
    <3>2. PagesOfFb'
      BY <2>1, <3>1, PagesKept, Zenon DEF CoverInv
    <3>3. QED
      BY <2>1, <2>2, <3>1, <3>2 DEF CoverInv
  <2>4. CASE l1 /\ UNCHANGED pc
    <3>1. /\ eax < Entries /\ pd' = [pd EXCEPT ![eax] = eax * BigPage] /\ eax' = eax + 1
          /\ UNCHANGED <<pml4, pdpt, fb_pd, i>>
      BY <2>4 DEF l1
    <3>2. eax \in Index /\ eax \in Nat
      BY <3>1, IndexParts DEF TypesInv, Index
    <3>3. \A k \in Index : pd'[k] = IF k = eax THEN eax * BigPage ELSE pd[k]
      BY <3>1 DEF TypesInv
    <3>4. \A k \in Index : k < eax + 1 => k = eax \/ k < eax
      BY <3>2, IndexParts
    <3>5. \A k \in Index : k < eax' => pd'[k] = k * BigPage
      BY <3>1, <3>3, <3>4, Zenon DEF CoverInv
    <3>6. PagesOfFb'
      BY <2>1, <3>1, PagesKept, Zenon DEF CoverInv
    <3>7. pc' \in NoPaging
      BY <2>1, <2>4 DEF NoPaging
    <3>8. QED
      BY <2>1, <2>2, <3>1, <3>5, <3>6, <3>7, Zenon DEF CoverInv, Index
  <2>5. QED
    BY <1>4, <2>3, <2>4, Zenon DEF IdentityMap
<1>5. CASE pmm_and_fb_init
  <2>1. UNCHANGED pgVars /\ ReadInfo
    BY <1>5 DEF pmm_and_fb_init
  <2>2. pc \in Reading /\ pc' \in Reading \cup {"paging_map_fb"}
    BY <2>1, Zenon
       DEF ReadInfo, mmap_first, pmm_init, mmap_next, fb_init, Skip, Trans, Reading
  <2>3. pc \in Unlinked /\ pc' \in Unlinked /\ pc \notin NoPaging /\ pc # "_start"
    BY <2>2 DEF Unlinked, Reading, NoPaging
  <2>4. ~FbLinked /\ ~FbLinked'
    BY <2>3, Zenon DEF FbLinked
  <2>5. UNCHANGED <<pml4, pdpt, pd, fb_pd, eax, i>> /\ i = 0
    BY <2>1, <2>3 DEF pgVars, TablesInv
  <2>6. PagesOfFb'
    BY <1>2, <2>5, NoPagesYet
  <2>7. QED
    BY <2>3, <2>4, <2>5, <2>6 DEF CoverInv
<1>6. CASE paging_map_fb
  <2>1. fb' = fb /\ fb_size' = fb_size
    BY <1>6 DEF paging_map_fb, mbVars, fb_size
  <2>2. CASE /\ Trans("paging_map_fb", "map") /\ fb.addr # 0 /\ fb_size # 0
             /\ LinkFb(fb.addr)
    <3>1. /\ pdpt' = [pdpt EXCEPT ![PdptIdx(fb.addr)] = "fb_pd"] /\ i' = 0
          /\ UNCHANGED <<pml4, pd, fb_pd, eax>>
          /\ pc = "paging_map_fb" /\ pc' = "map"
      BY <2>2 DEF LinkFb, Trans
    <3>2. PdptIdx(fb.addr) \in Index /\ 0 \in Index
      BY FbParts, IndexParts
    <3>3. \A k \in Index : pdpt'[k] = IF k = PdptIdx(fb.addr) THEN "fb_pd" ELSE pdpt[k]
      BY <3>1 DEF TypesInv
    <3>4. pc \in Unlinked /\ pc \notin NoPaging /\ pc' \notin Unlinked /\ pc # "_start"
      BY <3>1 DEF Unlinked, Early, Reading, NoPaging
    <3>5. ~FbLinked /\ FbLinked' /\ PdptIdx(fb.addr)' = PdptIdx(fb.addr)
      BY <2>1, <2>2, <3>4, Zenon DEF FbLinked, PdptIdx, Region
    <3>6. PagesOfFb'
      BY <1>2, <3>1, NoPagesYet
    <3>7. pdpt'[0] = "pd" \/ PdptIdx(fb.addr) = 0
      BY <3>2, <3>3, <3>4, <3>5, Zenon DEF CoverInv
    <3>8. pdpt'[PdptIdx(fb.addr)] = "fb_pd"
      BY <3>2, <3>3, Zenon
    <3>9. QED
      BY <3>1, <3>4, <3>5, <3>6, <3>7, <3>8, Zenon DEF CoverInv, Index
  <2>3. CASE /\ Trans("paging_map_fb", "fb_clear") /\ UNCHANGED pgVars
             /\ fb.addr = 0 \/ fb_size = 0
    <3>1. /\ pc = "paging_map_fb" /\ pc' = "fb_clear" /\ pc \in Unlinked
          /\ pc \notin NoPaging /\ pc # "_start"
      BY <2>3 DEF Trans, Unlinked, NoPaging
    <3>2. ~FbLinked /\ ~FbLinked'
      BY <2>1, <2>3, <3>1, Zenon DEF FbLinked
    <3>3. UNCHANGED <<pml4, pdpt, pd, fb_pd, eax, i>>
      BY <2>3 DEF pgVars
    <3>4. PagesOfFb'
      BY <2>1, <3>3, PagesKept, Zenon DEF CoverInv
    <3>5. QED
      BY <3>1, <3>2, <3>3, <3>4 DEF CoverInv
  <2>4. CASE pc = "map" /\ MapPage(fb.addr, fb_size) /\ UNCHANGED pc
    <3> DEFINE s == PdStart(fb.addr)
    <3>1. /\ s + i < Entries /\ i' = i + 1
          /\ fb_pd' = [fb_pd EXCEPT ![s + i] = PageBase(fb.addr) + i * BigPage]
          /\ UNCHANGED <<pml4, pdpt, pd, eax, pc>>
      BY <2>4 DEF MapPage, MapsMore
    <3>2. s \in Index /\ i \in Nat /\ s \in Nat
      BY FbParts, IndexParts DEF TypesInv
    <3>3. s + i \in Index
      BY <3>1, <3>2, IndexParts DEF Index
    <3>4. \A k \in Index :
            fb_pd'[k] = IF k = s + i THEN PageBase(fb.addr) + i * BigPage ELSE fb_pd[k]
      BY <3>1 DEF TypesInv
    <3>5. (s + i) - s = i /\ \A k \in Index : k < s + (i + 1) => k = s + i \/ k < s + i
      BY <3>2, IndexParts
    <3> HIDE DEF s
    <3>6. \A k \in Index : k >= s /\ k < s + (i + 1) =>
            fb_pd'[k] = PageBase(fb.addr) + (k - s) * BigPage
      BY <3>4, <3>5, Zenon DEF CoverInv, PagesOfFb, s
    <3>7. s' = s /\ PageBase(fb.addr)' = PageBase(fb.addr)
      BY <2>1, Zenon DEF s, PdStart, PageBase
    <3>8. PagesOfFb'
      BY <3>1, <3>6, <3>7, Zenon DEF PagesOfFb, s, Index
    <3>9. (FbLinked' <=> FbLinked) /\ PdptIdx(fb.addr)' = PdptIdx(fb.addr)
      BY <2>1, <3>1, Zenon DEF FbLinked, PdptIdx, Region, Unlinked, Early, Reading
    <3>10. pc' = "map" /\ pc # "_start" /\ pc \notin NoPaging
      BY <2>4 DEF NoPaging
    <3>11. QED
      BY <3>1, <3>8, <3>9, <3>10, Zenon DEF CoverInv, Index
  <2>5. CASE Trans("map", "fb_clear") /\ ~MapsMore(fb.addr, fb_size) /\ UNCHANGED pgVars
    <3>1. /\ pc = "map" /\ pc' = "fb_clear" /\ pc # "_start" /\ pc \notin NoPaging
          /\ pc \notin Unlinked /\ pc' \notin Unlinked
          /\ UNCHANGED <<pml4, pdpt, pd, fb_pd, eax, i>>
      BY <2>5 DEF Trans, NoPaging, Unlinked, Early, Reading, pgVars
    <3>2. (FbLinked' <=> FbLinked) /\ PdptIdx(fb.addr)' = PdptIdx(fb.addr)
      BY <2>1, <3>1, Zenon DEF FbLinked, PdptIdx, Region
    <3>3. ~MapsMore(fb.addr, fb_size)'
      BY <2>1, <2>5, <3>1, Zenon DEF MapsMore, NPages, PdStart
    <3>4. PagesOfFb'
      BY <2>1, <3>1, PagesKept, Zenon DEF CoverInv
    <3>5. QED
      BY <3>1, <3>2, <3>3, <3>4, Zenon DEF CoverInv, Index
  <2>6. QED
    BY <1>6, <2>2, <2>3, <2>4, <2>5, Zenon DEF paging_map_fb
<1>7. CASE TripleFault
  <2>1. eax' = 0 /\ i' = 0 /\ pc' = "_start"
    BY <1>7 DEF TripleFault
  <2>2. pc' \in Unlinked /\ pc' \in NoPaging
    BY <2>1 DEF Unlinked, Early, NoPaging
  <2>3. ~FbLinked'
    BY <2>2, Zenon DEF FbLinked
  <2>4. PagesOfFb'
    BY <1>2, <2>1, NoPagesYet
  <2>5. \A k \in Index : ~(k < 0)
    BY IndexParts
  <2>6. QED
    BY <2>1, <2>2, <2>3, <2>4, <2>5, Zenon DEF CoverInv, Index
<1>8. CASE Next /\ ~Start /\ ~IdentityMap /\ ~pmm_and_fb_init /\ ~paging_map_fb /\ ~TripleFault
  <2>1. /\ UNCHANGED <<pgVars, fb>>
        /\ {pc, pc'} \cap (Unlinked \cup NoPaging \cup {"map", "_start"}) = {}
    <3>1. ASSUME NEW here \in Later \ {"paging_map_fb", "map"},
                 NEW next \in Later \ {"paging_map_fb", "map"},
                 fb_clear(here, next) \/ Call(here, next)
          PROVE  /\ UNCHANGED <<pgVars, fb>>
                 /\ {pc, pc'} \cap (Unlinked \cup NoPaging \cup {"map", "_start"}) = {}
      BY <3>1 DEF fb_clear, Call, Trans, Later, Unlinked, Early, Reading, mbVars, NoPaging
    <3>2. CASE kernel_main
      BY <1>8, <3>1, <3>2 DEF kernel_main, Later
    <3>3. CASE Idle
      BY <3>1, <3>3 DEF Idle, Later
    <3>4. CASE Fault \/ FaultAgain
      <4>1. UNCHANGED <<pgVars, fb>> /\ pc' = "faulting"
        BY <3>4 DEF Fault, FaultAgain, vars, mbVars
      <4>2. pc \notin Unlinked \cup NoPaging \cup {"map", "_start"}
        BY <3>4 DEF Fault, FaultAgain, Unlinked, Early, Reading, NoPaging, NoHandler
      <4>3. QED
        BY <4>1, <4>2 DEF Unlinked, Early, Reading, NoPaging
    <3>5. QED
      BY <1>8, <3>2, <3>3, <3>4, Zenon DEF Next
  <2>2. QED
    BY <2>1, CoverKept, Zenon
<1>9. CASE UNCHANGED vars
  <2>1. UNCHANGED <<pgVars, fb, pc>>
    BY <1>9 DEF vars, mbVars
  <2>2. CASE pc # "_start"
    BY <2>1, <2>2, CoverKept, Zenon DEF Unlinked, Early, Reading, NoPaging
  <2>3. CASE pc = "_start"
    <3>1. UNCHANGED <<pd, fb_pd, eax, i, fb>> /\ pc' = "_start"
      BY <2>1, <2>3 DEF pgVars
    <3>2. pc' \in Unlinked /\ pc' \in NoPaging
      BY <3>1 DEF Unlinked, Early, NoPaging
    <3>3. ~FbLinked' /\ PagesOfFb'
      BY <3>1, <3>2, PagesKept, Zenon DEF FbLinked, CoverInv
    <3>4. QED
      BY <3>1, <3>2, <3>3, Zenon DEF CoverInv, Index
  <2>4. QED
    BY <2>2, <2>3
<1>10. QED
  BY <1>3, <1>4, <1>5, <1>6, <1>7, <1>8, <1>9, Zenon

LEMMA InitCover == Init => CoverInv
<1> SUFFICES ASSUME Init PROVE CoverInv
  OBVIOUS
<1>1. eax = 0 /\ i = 0 /\ pc = "_start" /\ fb = NoFb
  BY DEF Init, PagingInit, MultibootInit
<1>2. PdStart(fb.addr) \in Index
  BY <1>1, AddressParts DEF NoFb
<1>3. PagesOfFb
  <2>1. \A k \in Index : ~(k >= PdStart(fb.addr) /\ k < PdStart(fb.addr) + i)
    BY <1>1, <1>2, IndexParts
  <2>2. QED
    BY <2>1, Zenon DEF PagesOfFb
<1>4. pc \in Unlinked /\ pc \in NoPaging /\ \A k \in Index : ~(k < eax)
  BY <1>1, IndexParts DEF Unlinked, Early, NoPaging
<1>5. QED
  BY <1>1, <1>3, <1>4, Zenon DEF CoverInv, FbLinked

LEMMA CoverInvariant == Spec => []CoverInv
BY InitCover, StepCover, InfoInvariant, FbInvariant, TablesInvariant, PTL DEF Spec

(* Types, and paging_map_fb's loop stays inside its directory wherever the *)
(* framebuffer lies (paging.c:7-15).                                       *)
THEOREM BootTypes == Spec => []BootTypeOK
<1>1. InfoInv /\ TypesInv /\ TablesInv => BootTypeOK
  BY DEF InfoInv, TypesInv, TablesInv, BootTypeOK, Early, Reading, Later, NoPaging, NoHandler
<1>2. QED
  BY <1>1, InfoInvariant, TablesInvariant, PTL

(* Products and quotients. *)
LEMMA ProductGrows ==
  ASSUME NEW a \in Nat, NEW b \in Nat, NEW c \in Nat, a <= b
  PROVE  a * c <= b * c /\ a * c \in Nat /\ b * c \in Nat
<1>1. b - a \in Nat
  OBVIOUS
<1>2. (b - a) * c \in Nat /\ (b - a) * c = b * c - a * c
  BY <1>1
<1>3. a * c \in Nat /\ b * c \in Nat
  OBVIOUS
<1>4. QED
  BY <1>2, <1>3

LEMMA Division ==
  \A x \in Nat : \A b \in Nat \ {0} :
    /\ x \div b \in Nat /\ x % b \in 0..(b - 1)
    /\ x = (x \div b) * b + (x % b)
OBVIOUS

LEMMA QuotientIs ==
  ASSUME NEW x \in Nat, NEW b \in Nat \ {0}, NEW q \in Nat, NEW r \in 0..(b - 1), x = q * b + r
  PROVE  x \div b = q
<1>1. /\ x \div b \in Nat /\ x % b \in 0..(b - 1)
      /\ x = (x \div b) * b + (x % b)
  BY Division
<1> DEFINE p == x \div b
<1>2. p \in Nat
  BY <1>1
<1> DEFINE t == x % b
<1>3. t \in 0..(b - 1) /\ p * b + t = q * b + r
  BY <1>1
<1> HIDE DEF p, t
<1>4. CASE p < q
  <2>1. (p + 1) * b <= q * b /\ (p + 1) * b = p * b + b /\ p * b \in Nat /\ q * b \in Nat
    BY <1>2, <1>4, ProductGrows
  <2>2. QED
    BY <1>3, <2>1
<1>5. CASE q < p
  <2>1. (q + 1) * b <= p * b /\ (q + 1) * b = q * b + b /\ p * b \in Nat /\ q * b \in Nat
    BY <1>2, <1>5, ProductGrows
  <2>2. QED
    BY <1>3, <2>1
<1>6. QED
  BY <1>2, <1>4, <1>5 DEF p

(* The region of an address is that of its big page. *)
LEMMA RegionOfPage ==
  ASSUME NEW a \in Nat
  PROVE  a \div Region = (a \div BigPage) \div Entries
<1> DEFINE q == a \div BigPage
           r == a % BigPage
           m == q \div Entries
           k == q % Entries
           z == k * BigPage + r
<1>1. BigPage \in Nat \ {0} /\ Entries \in Nat \ {0}
  BY IndexParts
<1>2. q \in Nat /\ r \in 0..(BigPage - 1) /\ a = q * BigPage + r
  BY <1>1, Division
<1>3. m \in Nat /\ k \in 0..(Entries - 1) /\ q = m * Entries + k
  BY <1>1, <1>2, Division
<1> HIDE DEF q, r, m, k
<1>4. a = m * (Entries * BigPage) + z
  <2>1. q * BigPage = m * (Entries * BigPage) + k * BigPage
    BY <1>1, <1>3
  <2>2. k * BigPage \in Int /\ m * (Entries * BigPage) \in Int
    BY <1>1, <1>3
  <2>3. QED
    BY <1>2, <2>1, <2>2
<1>5. z \in Nat /\ z <= Entries * BigPage - 1
  <2>1. (k + 1) * BigPage <= Entries * BigPage
    BY <1>1, <1>3, ProductGrows
  <2>2. (k + 1) * BigPage = k * BigPage + BigPage /\ k * BigPage \in Nat /\ Entries * BigPage \in Nat
    BY <1>1, <1>3
  <2>3. QED
    BY <1>1, <1>2, <2>1, <2>2
<1>6. Entries * BigPage \in Nat \ {0}
  BY <1>1
<1> HIDE DEF z
<1>7. a \div (Entries * BigPage) = m
  <2>1. z \in 0..(Entries * BigPage - 1)
    BY <1>5, <1>6
  <2>2. QED
    BY <1>3, <1>4, <1>6, <2>1, QuotientIs
<1>8. QED
  BY <1>7 DEF Region, m, q

(* The page of an address below the tables' reach, by region and entry.    *)
LEMMA PlaceOfAddress ==
  ASSUME NEW a \in Nat, a < Reach
  PROVE  LET p == a \div BigPage
             m == p \div Entries
             j == p % Entries
         IN  /\ p \in Nat /\ m \in Nat /\ m < Entries /\ j \in Index /\ j \in Nat
             /\ p = m * Entries + j
             /\ a \div Region = m /\ PdptIdx(a) = m /\ PdStart(a) = j
             /\ PageBase(a) = p * BigPage
<1> DEFINE p == a \div BigPage
           m == p \div Entries
           j == p % Entries
<1>1. BigPage \in Nat \ {0} /\ Entries \in Nat \ {0}
  BY IndexParts
<1>2. p \in Nat /\ a = p * BigPage + (a % BigPage) /\ a % BigPage \in Nat
  <2>1. \A l \in 0..(BigPage - 1) : l \in Nat
    OBVIOUS
  <2>2. QED
    BY <1>1, <2>1, Division, Zenon
<1>3. m \in Nat /\ j \in 0..(Entries - 1) /\ p = m * Entries + j
  BY <1>1, <1>2, Division, Zenon
<1>4. j \in Index /\ j \in Nat
  BY <1>3, IndexParts DEF Index
<1>5. a \div Region = m
  BY RegionOfPage
<1>6. m < Entries
  <2> DEFINE w == a % BigPage
             square == Entries * Entries
  <2>1. Reach = square * BigPage /\ square \in Nat
    BY <1>1 DEF Reach, Region
  <2>2. w \in Nat /\ a = p * BigPage + w
    BY <1>2
  <2>3. p < square
    <3> HIDE DEF w, square
    <3>1. SUFFICES ASSUME square <= p PROVE FALSE
      BY <1>2, <2>1
    <3>2. square * BigPage <= p * BigPage /\ p * BigPage \in Nat /\ square * BigPage \in Nat
      BY <1>1, <1>2, <2>1, <3>1, ProductGrows
    <3>3. QED
      BY <2>1, <2>2, <3>2
  <2>4. SUFFICES ASSUME Entries <= m PROVE FALSE
    BY <1>1, <1>3
  <2>5. square <= m * Entries /\ m * Entries \in Nat
    BY <1>1, <1>3, <2>4, ProductGrows
  <2> HIDE DEF square
  <2>6. QED
    BY <1>2, <1>3, <1>4, <2>1, <2>3, <2>5
<1>7. PdptIdx(a) = m
  <2>1. \A x, b \in Nat : x < b => x % b = x
    OBVIOUS
  <2>2. m % Entries = m
    BY <1>1, <1>3, <1>6, <2>1, Zenon
  <2>3. QED
    BY <1>5, <2>2, Zenon DEF PdptIdx
<1>8. PdStart(a) = j /\ PageBase(a) = p * BigPage
  BY AddressParts DEF PdStart
<1>9. QED
  BY <1>2, <1>3, <1>4, <1>5, <1>6, <1>7, <1>8

(* The entry behind a framebuffer's first page, in its own region, has the *)
(* address of its page.                                                    *)
LEMMA EntryIsIdentity ==
  ASSUME NEW n \in Nat, NEW k \in Nat, NEW p \in Nat, NEW m \in Nat, NEW j \in Nat,
         n = m * Entries + k, p = m * Entries + j
  PROVE  k - j = n - p /\ p * BigPage + (k - j) * BigPage = n * BigPage
<1>1. m * Entries \in Int /\ BigPage \in Nat
  BY IndexParts
<1>2. k - j = n - p
  BY <1>1
<1>3. p * BigPage + (n - p) * BigPage = n * BigPage
  BY <1>1
<1>4. QED
  BY <1>2, <1>3

LEMMA PageParts ==
  ASSUME NEW n \in Nat
  PROVE  LET r == n \div Entries
             k == n % Entries
         IN  r \in Nat /\ k \in Index /\ k \in Nat /\ n = r * Entries + k
<1> DEFINE r == n \div Entries
           k == n % Entries
<1>1. Entries \in Nat \ {0}
  BY IndexParts
<1>2. r \in Nat /\ k \in 0..(Entries - 1) /\ n = r * Entries + k
  BY <1>1, Division, Zenon
<1>3. QED
  BY <1>2, IndexParts, Zenon DEF Index

LEMMA IdentityOfInv ==
  ASSUME FbInv, TypesInv, TablesInv, fb.addr + fb_size <= Reach
  PROVE  IdentityOnly
<1> SUFFICES ASSUME NEW n \in 0..(Entries * Entries - 1), Mapped(n)
             PROVE  Translated(n) = n * BigPage
  BY DEF IdentityOnly
<1> DEFINE r == n \div Entries
           k == n % Entries
           A == fb.addr
           p == A \div BigPage
<1>1. n \in Nat /\ A \in Nat /\ fb_size \in Nat
  BY FbParts
<1>2. r \in Nat /\ k \in Index /\ k \in Nat /\ n = r * Entries + k
  BY <1>1, PageParts, Zenon
<1>3. \/ Directory(r) = "pd" /\ Translated(n) = pd[k]
      \/ Directory(r) = "fb_pd" /\ Translated(n) = fb_pd[k]
  BY DEF Mapped, Translated
<1>4. CASE Directory(r) = "pd" /\ Translated(n) = pd[k]
  <2>1. r \in Index /\ pdpt[r] = "pd"
    BY <1>4 DEF Directory
  <2>2. r = 0
    BY <2>1, Zenon DEF TablesInv
  <2>3. n = k
    BY <1>1, <1>2, <2>2, IndexParts
  <2>4. pd[k] = k * BigPage
    BY <1>2, <1>4, Zenon DEF TablesInv, Mapped
  <2>5. QED
    BY <1>4, <2>3, <2>4, Zenon
<1>5. CASE Directory(r) = "fb_pd" /\ Translated(n) = fb_pd[k]
  <2>1. r \in Index /\ pdpt[r] = "fb_pd"
    BY <1>5 DEF Directory
  <2>2. r = PdptIdx(A) /\ fb_size # 0
    BY <2>1, Zenon DEF TablesInv
  <2>3. k >= PdStart(A) /\ fb_pd[k] = PageBase(A) + (k - PdStart(A)) * BigPage
    BY <1>2, <1>5, Zenon DEF TablesInv, Mapped
  <2>4. A < Reach
    <3>1. Reach \in Nat
      BY IndexParts DEF Reach, Region
    <3>2. QED
      BY <1>1, <2>2, <3>1
  <2> DEFINE m == p \div Entries
             j == p % Entries
  <2>5. /\ p \in Nat /\ m \in Nat /\ j \in Nat /\ p = m * Entries + j
        /\ PdptIdx(A) = m /\ PdStart(A) = j /\ PageBase(A) = p * BigPage
    BY <1>1, <2>4, PlaceOfAddress, Zenon
  <2> HIDE DEF m, j, p, A, r, k
  <2>6. p * BigPage + (k - j) * BigPage = n * BigPage
    <3>1. n = m * Entries + k
      BY <1>2, <2>2, <2>5
    <3>2. QED
      BY <1>1, <1>2, <2>5, <3>1, EntryIsIdentity
  <2>7. QED
    BY <1>5, <2>3, <2>5, <2>6, Zenon
<1>6. QED
  BY <1>3, <1>4, <1>5

LEMMA FirstRegionOfInv ==
  ASSUME FbInv, TypesInv, CoverInv, fb.addr + fb_size <= Reach
  PROVE  FirstRegionMapped
<1> SUFFICES ASSUME pc \notin NoPaging, fb.addr >= Region \/ fb.addr = 0 \/ fb_size = 0,
                    NEW n \in Index
             PROVE  Translated(n) = n * BigPage
  BY DEF FirstRegionMapped
<1> DEFINE A == fb.addr
           r == n \div Entries
           k == n % Entries
<1>1. A \in Nat /\ fb_size \in Nat /\ n \in Nat /\ n < Entries /\ 0 \in Index
  BY FbParts, IndexParts
<1>2. r = 0 /\ k = n
  BY <1>1, IndexParts
<1>3. pc # "_start" /\ eax = Entries
  BY DEF NoPaging, CoverInv
<1>4. pml4 = TRUE /\ (pdpt[0] = "pd" \/ (FbLinked /\ PdptIdx(A) = 0))
  BY <1>3, Zenon DEF CoverInv
<1>5. ~(FbLinked /\ PdptIdx(A) = 0)
  <2>1. SUFFICES ASSUME FbLinked, PdptIdx(A) = 0 PROVE FALSE
    OBVIOUS
  <2>2. A # 0 /\ fb_size # 0 /\ A >= Region
    BY <2>1, Zenon DEF FbLinked
  <2>3. Reach \in Nat /\ Region \in Nat /\ Region > 0
    BY IndexParts DEF Reach, Region
  <2>4. A < Reach
    BY <1>1, <2>2, <2>3
  <2>5. A \div Region = 0
    BY <1>1, <2>1, <2>4, PlaceOfAddress, Zenon
  <2> DEFINE w == A % Region
  <2>6. w \in 0..(Region - 1) /\ A = 0 * Region + w
    <3>1. Region \in Nat \ {0}
      BY <2>3
    <3>2. QED
      BY <1>1, <2>5, <3>1, Division, Zenon
  <2> HIDE DEF w
  <2>7. QED
    BY <1>1, <2>2, <2>3, <2>6
<1>6. Directory(r) = "pd"
  BY <1>1, <1>2, <1>4, <1>5 DEF Directory
<1>7. Translated(n) = pd[k]
  BY <1>6 DEF Translated
<1>8. pd[n] = n * BigPage
  BY <1>1, <1>3, Zenon DEF CoverInv
<1>9. QED
  BY <1>2, <1>7, <1>8, Zenon

(* The loop's number of pages is enough for a framebuffer of the size that *)
(* begins anywhere in its first page.                                      *)
LEMMA PagesAreEnough ==
  ASSUME NEW a \in Nat, NEW size \in Nat, size > 0, NEW n \in Nat,
         n <= (a + size - 1) \div BigPage
  PROVE  n - (a \div BigPage) < NPages(size)
<1> DEFINE B == BigPage
           p == a \div B
           w == a % B
           last == a + size - 1
           e == last \div B
           f == last % B
           top == size + B - 1
           q == top \div B
           t == top % B
           d == n - p
<1>1. B \in Nat \ {0} /\ last \in Nat /\ top \in Nat
  BY IndexParts
<1>2. p \in Nat /\ w \in 0..(B - 1) /\ a = p * B + w
  BY <1>1, Division, Zenon
<1>3. e \in Nat /\ f \in 0..(B - 1) /\ last = e * B + f
  BY <1>1, Division, Zenon
<1>4. q \in Nat /\ t \in 0..(B - 1) /\ top = q * B + t
  BY <1>1, Division, Zenon
<1>5. n <= e /\ last = a + size - 1 /\ top = size + B - 1 /\ d = n - p
  OBVIOUS
<1>6. NPages(size) = q + 1
  BY DEF NPages
<1> HIDE DEF B, p, w, last, e, f, top, q, t, d
<1>7. n * B <= e * B /\ n * B \in Nat /\ e * B \in Nat /\ p * B \in Nat /\ q * B \in Nat
  BY <1>1, <1>2, <1>3, <1>4, <1>5, ProductGrows
<1>8. d * B = n * B - p * B
  BY <1>1, <1>2, <1>5
<1>9. d * B < (q + 1) * B
  <2>1. (q + 1) * B = q * B + B
    BY <1>1, <1>4
  <2>2. d * B <= size + B - 2
    BY <1>1, <1>2, <1>3, <1>5, <1>7, <1>8
  <2>3. size + B - 1 <= q * B + B - 1
    BY <1>1, <1>4, <1>5, <1>7
  <2>4. QED
    BY <1>1, <1>4, <1>7, <1>8, <2>1, <2>2, <2>3
<1>10. ~(q + 1 <= d)
  <2>1. SUFFICES ASSUME q + 1 <= d PROVE FALSE
    OBVIOUS
  <2>2. d \in Nat
    BY <1>2, <1>4, <1>5, <2>1
  <2>3. (q + 1) * B <= d * B /\ (q + 1) * B \in Nat /\ d * B \in Nat
    BY <1>1, <1>4, <2>1, <2>2, ProductGrows
  <2>4. QED
    BY <1>9, <2>3
<1>11. d < q + 1
  BY <1>2, <1>4, <1>5, <1>10
<1>12. QED
  BY <1>6, <1>11 DEF d, p, B

LEMMA FramebufferOfInv ==
  ASSUME InfoInv, FbInv, TypesInv, CoverInv, fb.addr + fb_size <= Reach
  PROVE  FramebufferMapped
<1> DEFINE A == fb.addr
           p == A \div BigPage
           e == (A + fb_size - 1) \div BigPage
<1> SUFFICES ASSUME A # 0, fb_size # 0,
                    pc \notin NoPaging \cup ReadingMap \cup {"fb_init", "paging_map_fb", "map"},
                    NEW n \in p..e, n \div Entries = A \div Region
             PROVE  Translated(n) = n * BigPage
  BY DEF FramebufferMapped
<1> DEFINE k == n % Entries
           m == p \div Entries
           j == p % Entries
<1>1. A \in Nat /\ fb_size \in Nat /\ Reach \in Nat
  BY FbParts, IndexParts DEF Reach, Region
<1>2. A < Reach /\ fb_size > 0
  BY <1>1
<1>3. /\ p \in Nat /\ m \in Nat /\ m < Entries /\ j \in Nat /\ p = m * Entries + j
      /\ A \div Region = m /\ PdptIdx(A) = m /\ PdStart(A) = j /\ PageBase(A) = p * BigPage
  BY <1>1, <1>2, PlaceOfAddress, Zenon
<1>4. n \in Nat /\ p <= n /\ n <= e
  <2>1. A + fb_size - 1 \in Nat
    BY <1>1, <1>2
  <2>2. e \in Nat
    <3>1. BigPage \in Nat \ {0}
      BY IndexParts
    <3>2. QED
      BY <2>1, <3>1, Division, Zenon
  <2> HIDE DEF p, e
  <2>3. QED
    BY <1>3, <2>2
<1>5. k \in Index /\ k \in Nat /\ n = m * Entries + k
  BY <1>3, <1>4, PageParts, Zenon
<1>6. n - p < NPages(fb_size)
  BY <1>1, <1>2, <1>4, PagesAreEnough
<1>7. FbLinked /\ pc # "map" /\ pc # "_start"
  BY DEF FbLinked, Unlinked, Early, Reading, NoPaging, ReadingMap
<1>8. pml4 = TRUE /\ pdpt[m] = "fb_pd" /\ ~MapsMore(A, fb_size) /\ PagesOfFb
  BY <1>3, <1>7, Zenon DEF CoverInv
<1>9. m \in Index
  BY <1>3, IndexParts DEF Index
<1>10. Translated(n) = fb_pd[k]
  <2>1. Directory(m) = "fb_pd"
    BY <1>8, <1>9 DEF Directory
  <2>2. QED
    BY <1>3, <2>1 DEF Translated
<1>11. i \in Nat /\ Entries \in Nat /\ k < Entries /\ NPages(fb_size) \in Nat
  <2>1. i \in Nat /\ Entries \in Nat /\ BigPage \in Nat \ {0} /\ k < Entries
    BY <1>5, IndexParts DEF TypesInv
  <2>2. fb_size + BigPage - 1 \in Nat
    BY <1>1, <2>1
  <2>3. (fb_size + BigPage - 1) \div BigPage \in Nat
    BY <2>1, <2>2, Division, Zenon
  <2>4. QED
    BY <2>1, <2>3 DEF NPages
<1>12. ~(i < NPages(fb_size) /\ j + i < Entries)
  BY <1>3, <1>8, Zenon DEF MapsMore
<1> HIDE DEF A, p, e, k, m, j
<1>13. k - j = n - p /\ p * BigPage + (k - j) * BigPage = n * BigPage
  BY <1>3, <1>4, <1>5, EntryIsIdentity
<1>14. k >= j /\ k < j + i
  BY <1>3, <1>4, <1>5, <1>6, <1>11, <1>12, <1>13
<1>15. fb_pd[k] = PageBase(A) + (k - j) * BigPage
  BY <1>3, <1>5, <1>8, <1>14, Zenon DEF PagesOfFb, A
<1>16. QED
  BY <1>3, <1>10, <1>13, <1>15, Zenon

(* No page is mapped anywhere but to itself, wherever the framebuffer      *)
(* lies below the tables' reach, the middle of a page included; every page *)
(* of a framebuffer is mapped up to the end of its first region; and the   *)
(* first region is mapped if the framebuffer does not begin in it          *)
(* (boot.s:84-92, paging.c:7-15).                                          *)
THEOREM IdentityIsMapped == Spec => []IdentityMapped
<1>1. InfoInv /\ FbInv /\ TypesInv /\ TablesInv /\ CoverInv => IdentityMapped
  BY IdentityOfInv, FirstRegionOfInv, FramebufferOfInv, Zenon DEF IdentityMapped
<1>2. QED
  BY <1>1, InfoInvariant, FbInvariant, TablesInvariant, CoverInvariant, PTL

------------------------------------------------------------------------------
(* Where fb.c writes. *)

LineOf(k) == LET row == fb.addr + k * fb.pitch IN <<row, row + 4 * fb.width>>

Lines == {LineOf(k) : k \in 0..(fb.height - 1)}

(* What the last step touched is Nowhere until the tables are there, and   *)
(* then the heap's frame, a line being cleared, or text.                   *)
AccessInv ==
  /\ pc \in Unlinked \cup {"map"} => access = Nowhere
  /\ access \in HeapAccesses \cup {Nowhere} \cup TextAccesses \cup Lines

LEMMA AccessesIn ==
  ASSUME FbInv, TypesInv, NEW a \in Accesses
  PROVE  a \in HeapAccesses \cup {Nowhere} \cup TextAccesses \cup Lines
<1>1. CASE pc \in {"fb_clear", "fb_clear_2"} /\ y < fb.height
  <2>1. a = ClearedLine
    BY <1>1 DEF Accesses
  <2>2. y \in 0..(fb.height - 1)
    BY <1>1, FbParts DEF TypesInv
  <2>3. a = LineOf(y)
    BY <2>1, Zenon DEF ClearedLine, LineOf
  <2>4. QED
    BY <2>2, <2>3, Zenon DEF Lines
<1>2. CASE ~(pc \in {"fb_clear", "fb_clear_2"} /\ y < fb.height)
  <2>1. a \in HeapAccesses \cup {Nowhere} \cup TextAccesses
    BY <1>2 DEF Accesses
  <2>2. QED
    BY <2>1, Zenon
<1>3. QED
  BY <1>1, <1>2

LEMMA AccessKept ==
  ASSUME UNCHANGED mbVars,
         access' \in HeapAccesses \cup {Nowhere} \cup TextAccesses \cup Lines,
         pc' \in Unlinked \cup {"map"} => access' = Nowhere
  PROVE  AccessInv'
<1>1. UNCHANGED <<fb, visited>>
  BY DEF mbVars
<1>2. /\ HeapAccesses' = HeapAccesses /\ TextAccesses' = TextAccesses /\ Lines' = Lines
      /\ Nowhere' = Nowhere
  <2>1. glyph_w' = glyph_w
    BY <1>1, Zenon DEF glyph_w
  <2>2. glyph_h' = glyph_h /\ fb_cols' = fb_cols
    BY <1>1, <2>1, Zenon DEF glyph_h, fb_cols
  <2>3. fb_rows' = fb_rows
    BY <1>1, <2>2, Zenon DEF fb_rows
  <2>4. CellPixels' = CellPixels
    <3> DEFINE P(px, py) == fb.addr + py * fb.pitch + px * fb.bytes
               X == 0..(fb_cols * glyph_w - 1)
               Y == 0..(fb_rows * glyph_h - 1)
    <3>1. CellPixels = {<<P(px, py), P(px, py) + 4>> : px \in X, py \in Y}
      BY DEF CellPixels, PixelAt
    <3>2. CellPixels' = {<<P(px, py), P(px, py) + 4>> : px \in X, py \in Y}
      <4>1. CellPixels' = {<<P(px, py)', P(px, py)' + 4>> : px \in X', py \in Y'}
        BY DEF CellPixels, PixelAt
      <4>2. X' = X /\ Y' = Y
        BY <2>1, <2>2, <2>3
      <4>3. \A px, py : P(px, py)' = P(px, py)
        BY <1>1
      <4> HIDE DEF P, X, Y
      <4>4. QED
        BY <4>1, <4>2, <4>3
    <3>3. QED
      BY <3>1, <3>2
  <2>5. Scrolled' = Scrolled
    BY <1>1, <2>2, <2>3, Zenon DEF Scrolled
  <2>6. TextAccesses' = TextAccesses
    BY <2>4, <2>5, Zenon DEF TextAccesses
  <2>7. HeapAccesses' = HeapAccesses
    BY <1>1, Zenon DEF HeapAccesses
  <2>8. Lines' = Lines
    BY <1>1, Zenon DEF Lines, LineOf
  <2>9. QED
    BY <2>6, <2>7, <2>8, Zenon DEF Nowhere
<1>3. QED
  BY <1>2, Zenon DEF AccessInv

LEMMA NowhereAccess ==
  ASSUME access' = Nowhere PROVE AccessInv'
BY Zenon DEF AccessInv, Nowhere

LEMMA StepAccess ==
  FbInv /\ TypesInv /\ AccessInv /\ [Next]_vars => AccessInv'
<1> SUFFICES ASSUME FbInv, TypesInv, AccessInv, [Next]_vars PROVE AccessInv'
  OBVIOUS
<1>1. CASE Start \/ IdentityMap
  <2>1. access' = access /\ pc \in Unlinked
    BY <1>1 DEF Start, IdentityMap, Trans, Unlinked, Early
  <2>2. QED
    BY <2>1, NowhereAccess, Zenon DEF AccessInv
<1>2. CASE pmm_and_fb_init
  BY <1>2, NowhereAccess, Zenon DEF pmm_and_fb_init, Touch
<1>3. CASE paging_map_fb
  <2>1. access' = access /\ pc \in Unlinked \cup {"map"}
    BY <1>3 DEF paging_map_fb, Trans, Unlinked
  <2>2. QED
    BY <2>1, NowhereAccess, Zenon DEF AccessInv
<1>4. ASSUME NEW here \in Later \ {"paging_map_fb", "map"},
             NEW next \in Later \ {"paging_map_fb", "map"}, fb_clear(here, next)
      PROVE  AccessInv'
  <2>1. pc = here /\ UNCHANGED mbVars /\ (pc' = here \/ pc' = next)
    BY <1>4, Zenon DEF fb_clear
  <2>2. pc' \notin Unlinked \cup {"map"}
    BY <2>1 DEF Later, Unlinked, Early, Reading
  <2>3. CASE y < fb.height /\ Touch(ClearedLine)
    <3>1. y \in 0..(fb.height - 1)
      BY <2>3, FbParts DEF TypesInv
    <3>2. access' = LineOf(y)
      BY <2>3, Zenon DEF Touch, ClearedLine, LineOf
    <3>3. access' \in Lines
      BY <3>1, <3>2, Zenon DEF Lines
    <3>4. QED
      BY <2>1, <2>2, <3>3, AccessKept, Zenon
  <2>4. CASE Touch(Nowhere)
    BY <2>4, NowhereAccess, Zenon DEF Touch
  <2>5. QED
    BY <1>4, <2>3, <2>4, Zenon DEF fb_clear
<1>5. ASSUME NEW here \in Later \ {"paging_map_fb", "map"},
             NEW next \in Later \ {"paging_map_fb", "map"}, Call(here, next)
      PROVE  AccessInv'
  <2>1. PICK a \in Accesses : access' = a
    BY <1>5, Zenon DEF Call, Touch
  <2>2. UNCHANGED mbVars /\ pc' = next
    BY <1>5 DEF Call, Trans
  <2>3. pc' \notin Unlinked \cup {"map"}
    BY <2>2 DEF Later, Unlinked, Early, Reading
  <2>4. QED
    BY <2>1, <2>2, <2>3, AccessesIn, AccessKept, Zenon
<1>6. CASE Fault
  <2>1. PICK a \in Accesses : access' = a
    BY <1>6, Zenon DEF Fault
  <2>2. UNCHANGED mbVars /\ pc' = "faulting"
    BY <1>6 DEF Fault
  <2>3. pc' \notin Unlinked \cup {"map"}
    BY <2>2 DEF Unlinked, Early, Reading
  <2>4. QED
    BY <2>1, <2>2, <2>3, AccessesIn, AccessKept, Zenon
<1>7. CASE TripleFault
  BY <1>7, NowhereAccess, Zenon DEF TripleFault
<1>8. CASE FaultAgain \/ UNCHANGED vars
  <2>1. UNCHANGED vars
    BY <1>8 DEF FaultAgain
  <2>2. UNCHANGED mbVars /\ access' = access /\ pc' = pc
    BY <2>1 DEF vars
  <2>3. QED
    BY <2>2, AccessKept, Zenon DEF AccessInv
<1>9. CASE kernel_main \/ Idle
  BY <1>2, <1>3, <1>4, <1>5, <1>9 DEF kernel_main, Idle, Later
<1>10. QED
  BY <1>1, <1>6, <1>7, <1>8, <1>9, Zenon DEF Next

LEMMA AccessInvariant == Spec => []AccessInv
<1>1. Init => AccessInv
  BY Zenon DEF Init, AccessInv
<1>2. QED
  BY <1>1, StepAccess, FbInvariant, TablesInvariant, PTL DEF Spec

(* The columns of the widest screen are those SCREEN_MAX_COLS allows. *)
LEMMA ColumnsFit == FbInv => fb_cols <= SCREEN_MAX_COLS
<1> SUFFICES ASSUME FbInv PROVE fb_cols <= SCREEN_MAX_COLS
  OBVIOUS
<1> DEFINE W == fb.width
           T == TargetCols
           M == MinGlyph
           q == W \div T
           r == W % T
<1>1. W \in Nat /\ T \in Nat \ {0} /\ M \in Nat \ {0}
  BY FbParts, GeometryAssumption, Zenon
<1>2. q \in Nat /\ r \in 0..(T - 1) /\ W = q * T + r
  BY <1>1, Division, Zenon
<1> DEFINE e == (T - 1) \div M
           f == (T - 1) % M
<1>3. T - 1 \in Nat
  BY <1>1
<1>4. e \in Nat /\ f \in 0..(M - 1) /\ T - 1 = e * M + f
  BY <1>1, <1>3, Division, Zenon
<1>5. SCREEN_MAX_COLS \in Nat /\ SCREEN_MAX_COLS >= T + e
  BY GeometryAssumption, Zenon
<1> DEFINE w == glyph_w
           c == W \div w
           d == W % w
<1>6. CASE glyph_w = 0
  <2>1. fb_cols = 0
    BY <1>6 DEF fb_cols
  <2>2. QED
    BY <1>5, <2>1
<1>7. CASE glyph_w # 0
  <2>1. w = IF q < M THEN M ELSE q
    BY <1>7 DEF glyph_w
  <2>2. fb_cols = c
    BY <1>7 DEF fb_cols
  <2> HIDE DEF W, T, M, q, r, e, f, w
  <2>3. w \in Nat \ {0} /\ w >= M /\ w >= q
    BY <1>1, <1>2, <2>1
  <2>4. c \in Nat /\ d \in 0..(w - 1) /\ W = c * w + d
    BY <1>1, <2>3, Division, Zenon
  <2> HIDE DEF c, d
  <2>5. ~(c > T + e)
    <3>1. SUFFICES ASSUME c >= T + e + 1 PROVE FALSE
      BY <1>1, <1>4, <2>4
    <3>2. /\ (T + e + 1) * w <= c * w /\ (T + e + 1) * w = T * w + (e + 1) * w
          /\ T * w \in Nat /\ (e + 1) * w \in Nat /\ c * w \in Nat
      BY <1>1, <1>4, <2>3, <2>4, <3>1, ProductGrows
    <3>3. q * T <= w * T /\ w * T = T * w
      BY <1>1, <1>2, <2>3, ProductGrows
    <3>4. M * (e + 1) <= w * (e + 1) /\ w * (e + 1) = (e + 1) * w /\ M * (e + 1) = e * M + M
          /\ e * M \in Nat
      BY <1>1, <1>4, <2>3, ProductGrows
    <3>5. T - 1 < (e + 1) * w
      BY <1>1, <1>4, <3>2, <3>4
    <3>6. q * T \in Nat
      BY <1>1, <1>2
    <3>7. QED
      BY <1>1, <1>2, <2>4, <3>2, <3>3, <3>5, <3>6
  <2>6. QED
    BY <1>1, <1>4, <1>5, <2>2, <2>4, <2>5
<1>8. QED
  BY <1>6, <1>7

(* All of a line of the framebuffer lies in it. *)
LEMMA LineInside ==
  ASSUME FbInv, fb.bytes = 4, NEW k \in 0..(fb.height - 1)
  PROVE  /\ k * fb.pitch \in Nat
         /\ fb.addr + k * fb.pitch + 4 * fb.width <= fb.addr + fb_size
<1> DEFINE A == fb.addr
           P == fb.pitch
           W == fb.width
           H == fb.height
<1>1. A \in Nat /\ P \in Nat /\ W \in Nat /\ H \in Nat
  BY FbParts, Zenon
<1>2. W * 4 <= P
  BY Zenon DEF FbInv
<1>3. fb_size = H * P
  BY DEF fb_size
<1>4. k \in Nat /\ k + 1 <= H
  BY <1>1
<1> HIDE DEF A, P, W, H
<1>5. (k + 1) * P <= H * P /\ (k + 1) * P = k * P + P /\ k * P \in Nat /\ H * P \in Nat
  BY <1>1, <1>4, ProductGrows
<1>6. k * P \in Nat /\ A + k * P + 4 * W <= A + H * P
  BY <1>1, <1>2, <1>5
<1>7. QED
  BY <1>3, <1>6 DEF A, P, W, H

(* The glyphs' pixels lie in the framebuffer. *)
LEMMA CellsFit ==
  ASSUME FbInv, fb_rows > 0
  PROVE  /\ glyph_w \in Nat \ {0} /\ glyph_h \in Nat \ {0}
         /\ fb_cols \in Nat /\ fb_rows \in Nat /\ fb_rows <= fb.height
         /\ fb_cols * glyph_w <= fb.width /\ fb_rows * glyph_h <= fb.height
         /\ fb_cols * glyph_w \in Nat /\ fb_rows * glyph_h \in Nat
<1>1. fb.width \in Nat /\ fb.height \in Nat
  BY FbParts, Zenon
<1>2. glyph_h # 0
  <2>1. SUFFICES ASSUME glyph_h = 0 PROVE FALSE
    OBVIOUS
  <2>2. fb_rows = 0
    BY <2>1 DEF fb_rows
  <2>3. QED
    BY <2>2
<1>3. glyph_w \in Nat
  <2>1. TargetCols \in Nat \ {0} /\ MinGlyph \in Nat
    BY GeometryAssumption
  <2>2. fb.width \div TargetCols \in Nat
    BY <1>1, <2>1, Division, Zenon
  <2>3. QED
    BY <2>1, <2>2 DEF glyph_w
<1>4. glyph_w # 0
  BY <1>2 DEF glyph_h
<1>5. glyph_h \in Nat
  BY <1>3 DEF glyph_h
<1>6. fb_cols = fb.width \div glyph_w /\ fb_rows = fb.height \div glyph_h
  BY <1>2, <1>4, Zenon DEF fb_cols, fb_rows
<1>7. glyph_w \in Nat \ {0} /\ glyph_h \in Nat \ {0}
  BY <1>2, <1>3, <1>4, <1>5
<1>8. \A x \in Nat : \A b \in Nat \ {0} :
        x \div b \in Nat /\ (x \div b) * b <= x /\ (x \div b) * b \in Nat
  <2>1. TAKE x \in Nat
  <2>2. TAKE b \in Nat \ {0}
  <2>3. x \div b \in Nat /\ x % b \in 0..(b - 1) /\ x = (x \div b) * b + (x % b)
    BY Division, Zenon
  <2> DEFINE q == x \div b
             r == x % b
  <2>4. q \in Nat /\ r \in Nat /\ x = q * b + r
    BY <2>3
  <2> HIDE DEF q, r
  <2>5. q * b \in Nat
    BY <2>4
  <2>6. q \in Nat /\ q * b <= x /\ q * b \in Nat
    BY <2>4, <2>5
  <2>7. QED
    BY <2>6 DEF q
<1>9. /\ fb_cols \in Nat /\ fb_cols * glyph_w <= fb.width /\ fb_cols * glyph_w \in Nat
      /\ fb_rows \in Nat /\ fb_rows * glyph_h <= fb.height /\ fb_rows * glyph_h \in Nat
  BY <1>1, <1>6, <1>7, <1>8, Zenon
<1>10. fb_rows <= fb.height
  <2> DEFINE R == fb_rows
             g == glyph_h
  <2>1. R \in Nat /\ g \in Nat \ {0} /\ R * g <= fb.height /\ R * g \in Nat
    BY <1>7, <1>9, Zenon
  <2> HIDE DEF R, g
  <2>2. R <= R * g
    <3>1. 1 * R <= g * R /\ g * R = R * g
      BY <2>1, ProductGrows
    <3>2. QED
      BY <2>1, <3>1
  <2>3. R <= fb.height
    BY <1>1, <2>1, <2>2
  <2>4. QED
    BY <2>3 DEF R
<1>11. QED
  BY <1>7, <1>9, <1>10, Zenon

LEMMA PixelInside ==
  ASSUME FbInv, fb.bytes = 4, fb_rows > 0, NEW a \in CellPixels
  PROVE  a[1] >= fb.addr /\ a[2] <= fb.addr + fb_size
<1>1. PICK px \in 0..(fb_cols * glyph_w - 1), py \in 0..(fb_rows * glyph_h - 1) :
        a = PixelAt(px, py)
  BY DEF CellPixels
<1> DEFINE cw == fb_cols * glyph_w
           rh == fb_rows * glyph_h
           A == fb.addr
           q == py * fb.pitch
           W == fb.width
           H == fb.height
<1>2. /\ cw \in Nat /\ rh \in Nat /\ cw <= W /\ rh <= H /\ A \in Nat /\ W \in Nat /\ H \in Nat
      /\ fb_size \in Nat
  BY CellsFit, FbParts, Zenon
<1>3. px \in 0..(cw - 1) /\ py \in 0..(rh - 1)
  BY <1>1
<1>4. a[1] = A + q + px * fb.bytes /\ a[2] = A + q + px * fb.bytes + 4
  BY <1>1 DEF PixelAt
<1> HIDE DEF cw, rh
<1>5. px \in Nat /\ px + 1 <= W /\ py \in 0..(H - 1)
  BY <1>2, <1>3
<1>6. q \in Nat /\ A + q + 4 * W <= A + fb_size
  BY <1>5, LineInside
<1> HIDE DEF A, q, W, H
<1>7. a[1] = A + q + px * 4 /\ a[2] = A + q + px * 4 + 4
  BY <1>4
<1>8. A + q + px * 4 >= A /\ A + q + px * 4 + 4 <= A + fb_size
  BY <1>2, <1>5, <1>6
<1>9. QED
  BY <1>7, <1>8 DEF A

LEMMA ScrollInside ==
  ASSUME FbInv, fb_rows > 0
  PROVE  Scrolled[1] >= fb.addr /\ Scrolled[2] <= fb.addr + fb_size
<1> DEFINE R == fb_rows
           g == glyph_h
           P == fb.pitch
           b == g * P
           u == (R - 1) * b
           A == fb.addr
           H == fb.height
<1>1. /\ R \in Nat /\ g \in Nat /\ R * g <= H /\ R * g \in Nat /\ R <= H
      /\ P \in Nat /\ A \in Nat /\ H \in Nat
  BY CellsFit, FbParts, Zenon
<1>2. R > 0 /\ H < Word /\ Word \in Nat /\ fb_size = H * P
  BY HeightAssumption DEF FbInv, fb_size
<1>3. ((R - 1) % Word) = R - 1
  <2> HIDE DEF R, H
  <2>1. QED
    BY <1>1, <1>2
<1>4. Scrolled = <<A, A + (u \div 8) * 8 + (b \div 8) * 8>>
  BY <1>3 DEF Scrolled
<1> HIDE DEF R, g, P, A, H
<1>5. b \in Nat
  BY <1>1
<1>6. u \in Nat
  <2>1. R - 1 \in Nat
    BY <1>1, <1>2
  <2> HIDE DEF b
  <2>2. QED
    BY <1>5, <2>1
<1>7. u + b <= H * P /\ H * P \in Nat
  <2>1. u + b = R * b
    <3> HIDE DEF b
    <3>1. QED
      BY <1>1, <1>5
  <2>2. R * b = (R * g) * P
    BY <1>1
  <2>3. (R * g) * P <= H * P /\ H * P \in Nat
    BY <1>1, ProductGrows
  <2> HIDE DEF b, u
  <2>4. QED
    BY <2>1, <2>2, <2>3
<1> HIDE DEF b, u
<1>8. \A n \in Nat : (n \div 8) * 8 <= n /\ (n \div 8) * 8 \in Nat
  OBVIOUS
<1> DEFINE u8 == (u \div 8) * 8
           b8 == (b \div 8) * 8
<1>9. u8 <= u /\ b8 <= b /\ u8 \in Nat /\ b8 \in Nat
  BY <1>5, <1>6, <1>8, Zenon
<1>10. Scrolled[1] = A /\ Scrolled[2] = A + u8 + b8
  BY <1>4
<1> HIDE DEF u8, b8
<1>11. A >= A /\ A + u8 + b8 <= A + H * P
  BY <1>1, <1>5, <1>6, <1>7, <1>9
<1>12. QED
  BY <1>2, <1>10, <1>11 DEF A

LEMMA InsideOfInv == FbInv /\ AccessInv => InsideFb
<1> SUFFICES ASSUME FbInv, AccessInv PROVE InsideFb
  OBVIOUS
<1>1. fb_cols <= SCREEN_MAX_COLS
  BY ColumnsFit
<1>2. ASSUME fb.bytes = 4, fb_rows > 0, access \notin HeapAccesses \cup {Nowhere}
      PROVE  access[1] >= fb.addr /\ access[2] <= fb.addr + fb_size
  <2>1. access \in CellPixels \/ access = Scrolled \/ access \in Lines
    BY <1>2, Zenon DEF AccessInv, TextAccesses
  <2>2. CASE access \in Lines
    <3>1. PICK k \in 0..(fb.height - 1) : access = LineOf(k)
      BY <2>2, Zenon DEF Lines
    <3> DEFINE l == k * fb.pitch
    <3>2. access[1] = fb.addr + l /\ access[2] = fb.addr + l + 4 * fb.width
      BY <3>1 DEF LineOf
    <3>3. l \in Nat /\ fb.addr + l + 4 * fb.width <= fb.addr + fb_size
      BY <1>2, <3>1, LineInside
    <3> HIDE DEF l
    <3>4. fb.addr \in Nat
      BY FbParts, Zenon
    <3>5. QED
      BY <3>2, <3>3, <3>4
  <2>3. QED
    BY <1>2, <2>1, <2>2, PixelInside, ScrollInside, Zenon
<1>3. QED
  BY <1>1, <1>2, Zenon DEF InsideFb

(* With pixels of four bytes and a row of text, all that fb.c clears,      *)
(* draws and scrolls lies inside the framebuffer, and a line's cells have  *)
(* their places in screen_buf, for every size of the screen                *)
(* (fb.c:31-41, fb.c:49-63, fb.c:100-125).                                 *)
THEOREM DrawsInside == Spec => []InsideFb
BY InsideOfInv, FbInvariant, AccessInvariant, PTL

================================================================================
