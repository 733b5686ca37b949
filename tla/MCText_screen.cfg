CONSTANTS
  SEQ_CAPACITY = 3
  MAX_PARAMS = 2
  COLS = 2
  ROWS = 2
  CURSOR_IDLE_TICKS = 1
  BLINK_TICKS = 1
  Plain = {65, 27, 10, 8}
  Coded = {56, 57, 59, 91, 63, 65, 66, 67, 68, 72, 74, 75, 104, 108, 109}
SPECIFICATION FairSpec
INVARIANTS TypeOK ParamsRight
PROPERTIES ImplementsTerminal CursorReturns
