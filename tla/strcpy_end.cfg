SPECIFICATION Spec
CONSTANTS
  Letter = {32, 49}
  NL = 10
  BS = 8
  Program <- MCProgram
  PageSize = 8
  Align = 4
  FirstSize = 2
  Memory = 4
  Fresh = 0
INVARIANT
  StrcpyCopiesEnd
CHECK_DEADLOCK FALSE
