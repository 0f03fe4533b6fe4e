SPECIFICATION VgaSpec
CONSTANTS
  ROWS = 2
  COLS = 2
  REG = 2
  CellValues <- MCCellValues
  Windows <- MCWindows
  MaxChanges = 3
INVARIANTS
  VgaTypeOK
  UnderlineOnlyCursor
PROPERTIES
  ScreenConverges
