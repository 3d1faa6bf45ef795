SPECIFICATION afSpec
CONSTANTS
  LineMax = 4
  ReadMax = 3
  Length = {0, 1, 3, 4, 5, 9}
  MaxLines = 4
CHECK_DEADLOCK FALSE
INVARIANT FittingLinesHandled
