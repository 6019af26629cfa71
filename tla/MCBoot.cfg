CONSTANTS
  Infos <- mcInfos
  Entries = 4
  BigPage = 64
  TargetCols = 3
  MinGlyph = 2
  SCREEN_MAX_COLS = 4
  Word = 256
  KernelPages = {0}
  MemPages = {0, 3}
SPECIFICATION Spec
INVARIANTS
  BootTypeOK
  InfoRead
  IdentityMapped
  InsideFb
PROPERTY BootComes
