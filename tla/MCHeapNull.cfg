SPECIFICATION HeapSpec
CONSTANTS
  Maps <- PageZeroFree
  BitmapBits = 16
  Word = 65536
  Client = {c1, c2, c3}
  Sizes <- PageSizes
SYMMETRY ClientSymmetry
PROPERTY
  PageOnlyWhenNoFit
