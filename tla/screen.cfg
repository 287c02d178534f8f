SPECIFICATION ScreenSpec
CONSTANTS
  SCREEN_WIDTH = 2
  SCREEN_HEIGHT = 3
  a = a
  b = b
  Tasks = {a, b}
  Row <- SecondAndThird
  pid0 = pid0
  NUL = NUL
  Blank = Blank
  Newline = Newline
  BootText = BootText
INVARIANT NothingForgotten
INVARIANT RowsKept
