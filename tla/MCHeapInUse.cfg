SPECIFICATION HeapSpec
CONSTANTS
  Maps <- PageZeroReserved
  BitmapBits = 16
  Word = 65536
  Client = {c1, c2, c3}
  Sizes <- SplitSizes
SYMMETRY ClientSymmetry
INVARIANT
  LiveDisjoint
