SPECIFICATION InterruptsSpec
CONSTANTS
  MaxKeys = 2
  TickWord = 11
  BlinkHalf = 3
  CURSOR_SOLID_TICKS = 2
PROPERTY
  EveryKeyHandled
