CONSTANTS
  NUL = "NUL"
  Space = " "
  BufSize = 6
  MaxArgs = 2
  Chars <- mcChars
  Lines <- mcLines
  Leftovers <- mcLeftovers
  Names <- mcNames
  UintWord = 256
  HexDigits = 3
  TmpSize = 4
  NumBuf = 5
  PageSize = 16
  SectorSize = 8
  MB = 32
  Pages <- mcPages
  Sectors <- mcSectors
  Addresses <- mcAddresses
  Codes <- mcCodes
  Mem = 3
  Disk = 4
SPECIFICATION Spec
INVARIANTS
  MemShown
CHECK_DEADLOCK FALSE
