SPECIFICATION Spec
CONSTANTS
  Maps <- FittingMaps
  BitmapBits = 16
  Word = 65536
INVARIANTS
  TypeOK
  FreeCountExact
  HeldIsMarked
  HandsOutRamIfContiguous
PROPERTY
  PoolSpec
