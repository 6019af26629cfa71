SPECIFICATION QuietSpec
CONSTANTS
  fb_rows = 3
  fb_cols = 6
  SCREEN_MAX_ROWS = 3
  Char <- Chars
  Space = " "
  NUL = "NUL"
  Color <- Colors
  FB_WHITE = "white"
  FB_BLACK = "black"
  Text = "m"
  HelpFlag = "--help"
  Help = "help"
  Clear = "clear"
  Mem = "mem"
  Disk = "disk"
  Theme = "theme"
  Reboot = "reboot"
  Themes <- ThemeTable
  BufSize = 8
  scancode_map <- Lower
  uppercase_map <- Upper
  Keys <- ThemeKeys
  MaxLine = 3
INVARIANT
  ThemeKept
