CONSTANTS
  Bits = 8
  Bytes <- MCBytes
  Dividers = {7}
  MinGap = 16
  Polls = FALSE
SPECIFICATION Spec
INVARIANTS BusyWritesIgnored
