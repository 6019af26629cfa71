SPECIFICATION QuietSpec
CONSTANTS
  fb_rows = 2
  fb_cols = 6
  SCREEN_MAX_ROWS = 2
  Char <- Chars
  Space = " "
  NUL = "NUL"
  Color <- Colors
  FB_WHITE = "white"
  FB_BLACK = "black"
  Text = "m"
  HelpFlag = "--help"
  Help = "help"
  Clear = "clear"
  Mem = "mem"
  Disk = "disk"
  Theme = "theme"
  Reboot = "reboot"
  Themes <- ThemeTable
  BufSize = 8
  scancode_map <- Lower
  uppercase_map <- Upper
  Keys <- CommandKeys
  MaxLine = 3
INVARIANTS
  ConsoleTypeOK
  ScreenConsistent
  NothingAhead
  LineOnScreen
