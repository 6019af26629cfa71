SPECIFICATION WorkingSpec
CONSTANTS
  Words = 2
  Timeout = 3
  MaxSectors = 4
PROPERTY
  ReadReturns
