CONSTANTS
  Keys = {4, 82}
  Configs <- MCConfigs
  SLOTS = 2
  MaxHeld = 2
  MAX_PACKET = 8
  NAK_LIMIT = 2
  NAK_LIMIT_HID = 2
  RETRY_LIMIT = 2
  KeyDepth = 1
SPECIFICATION FairSpec
INVARIANTS TypeOK PollsReady TypedOnce
PROPERTIES KeysSeen
