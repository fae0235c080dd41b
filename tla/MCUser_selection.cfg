CONSTANTS
  NoLine = NoLine
  Null = Null
  Ink = {a}
  Blank = Blank
  Sizes = {}
  InitRows = 2
  InitCols = 1
  WideCols = 2
  Scrollback = 4
  MaxParam = 1
  MaxOut = 1
  OnMac = TRUE
  MaxDragStep = 1
  Programs = {{"print", "feed", "cursor", "region", "modes", "save", "index", "keypad"}, {"user", "mouse"}, {"feed", "user", "report"}, {"feed", "user", "alt"}, {"feed", "user", "erase"}, {"feed", "user", "reset"}, {"feed", "user", "lines"}}
SPECIFICATION UserSpec
CHECK_DEADLOCK FALSE

  
PROPERTIES
  SelectionKeepsLines
  OwnScrollKeepsFollowing
