SPECIFICATION Spec
CONSTANTS
  Maps <- PcMaps
  BitmapBits = 16
  Word = 65536
INVARIANT
  HandsOutRam
