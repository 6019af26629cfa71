SPECIFICATION AtaSpec
CONSTANTS
  Words = 2
  Timeout = 3
  MaxSectors = 4
INVARIANTS
  AtaTypeOK
  InBuffer
  OnlyOffered
PROPERTIES
  IdentifyEnds
  IdentifySound
