SPECIFICATION ConsoleSpec
CONSTANTS
  fb_rows = 6
  fb_cols = 4
  SCREEN_MAX_ROWS = 6
  Char <- Chars
  Space = " "
  NUL = "NUL"
  Color <- Colors
  FB_WHITE = "white"
  FB_BLACK = "black"
  Text = "m"
  HelpFlag = "--help"
  Help = "help"
  Clear = "clear"
  Mem = "mem"
  Disk = "disk"
  Theme = "theme"
  Reboot = "reboot"
  Themes <- ThemeTable
  BufSize = 8
  scancode_map <- Lower
  uppercase_map <- Upper
  Keys <- TidyKeys
  MaxLine = 2
PROPERTY
  GreetingShown
