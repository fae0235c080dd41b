CONSTANTS
  NoLine = NoLine
  Ink = {a}
  Blank = Blank
  Sizes = {2, 4}
  InitRows = 3
  InitCols = 2
  WideCols = 3
  Scrollback = 4
  MaxParam = 2
  MaxOut = 1
  Programs = {{"feed", "region", "resize"}, {"print", "feed", "cursor", "region", "index", "lines", "user", "reset"}, {"print", "feed", "cursor", "region", "erase", "save"}, {"print", "feed", "user", "erase", "resize"}, {"print", "feed", "save", "resize"}, {"print", "feed", "alt", "resize"}, {"print", "feed", "user", "alt"}, {"print", "feed", "region", "modes"}, {"region", "index", "erase"}}
SPECIFICATION Spec
CHECK_DEADLOCK FALSE
INVARIANTS
  TypeOK
  ScreenInsideList
  NeverStops
PROPERTIES
  ViewFollows
  ImplementsIdealScreen
