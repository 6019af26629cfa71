SPECIFICATION CarefulSpec
CONSTANTS
  Maps <- Machines
  BitmapBits = 16
  Word = 65536
  Client = {c1, c2, c3}
  Sizes <- SplitSizes
SYMMETRY ClientSymmetry
INVARIANTS
  HeapTypeOK
  LiveDisjoint
  InUseIsHeld
  Tiling
  ListIntact
  Coalesced
PROPERTY
  ListedBeforeNewPage
