SPECIFICATION Spec
CONSTANTS
  Maps <- BigMaps
  BitmapBits = 16
  Word = 65536
INVARIANT
  BitmapCoversMap
