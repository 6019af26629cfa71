SPECIFICATION QuietSpec
CONSTANTS
  fb_rows = 3
  fb_cols = 3
  SCREEN_MAX_ROWS = 3
  Char <- Chars
  Space = " "
  NUL = "NUL"
  Color <- Colors
  FB_WHITE = "white"
  FB_BLACK = "black"
  Text = "m"
  HelpFlag = "--help"
  Help = "help"
  Clear = "clear"
  Mem = "mem"
  Disk = "disk"
  Theme = "theme"
  Reboot = "reboot"
  Themes <- ThemeTable
  BufSize = 3
  scancode_map <- Lower
  uppercase_map <- Upper
  Keys <- WildKeys
  MaxLine = 6
INVARIANTS
  ScreenConsistent
  CursorLostOnlyAtEnd
PROPERTY
  PromptAfterEnter
