SPECIFICATION Spec
CONSTANTS
  Width = 2
  Height = 3
  Glyph <- MCGlyph
  Blank = " "
  CR = "cr"
  BS = "bs"
  NL = "nl"
  Unexpected <- MCUnexpected
  WriteCall <- MCWriteCall
  CountLimit = 4
  Byte = 4
INVARIANTS
  TypeOK
  InsideScreen
  ShowsPaper
  CursorShown
PROPERTY
  WritesReturn
