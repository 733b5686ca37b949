CONSTANTS
  Bits = 8
  Bytes <- MCBytes
  Dividers = {7, 15}
  MinGap = 4
  Polls = TRUE
SPECIFICATION FairSpec
INVARIANTS TypeOK PollsTrue SettingsKept
PROPERTIES SelectStable ByteSwapped ByteReturns
