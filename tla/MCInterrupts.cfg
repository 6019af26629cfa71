SPECIFICATION LateKeySpec
CONSTANTS
  MaxKeys = 3
  TickWord = 11
  BlinkHalf = 3
  CURSOR_SOLID_TICKS = 2
INVARIANTS
  InterruptsTypeOK
  NoNesting
  EveryVectorHasGate
  KeysInOrder
  SolidAfterKey
PROPERTIES
  EveryKeyHandled
  CursorBlinks
