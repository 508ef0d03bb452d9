SPECIFICATION CarefulSpec
CONSTANTS
  Columns = 2
  Rows = 3
  MatrixBase = 4
  BankSize = 16
  TabStop = 2
  Regions <- MCRegions
  Blank = "blank"
  Ink = "ink"
  Chars = {"ESC", "[", "1", "B", "D", "H", "J", "K", "x"}
  RawChars = {"BS", "TAB", "NL", "CR", "SPACE"}
  Places = {0, 2}
  MaxSequence = 3
  MaxArgument = 1
INVARIANT TypeOK
PROPERTIES CursorClipped ImplementsTerminal
