CONSTANTS
  Keys = {4, 5, 82}
  Configs <- MCConfigs
  SLOTS = 2
  MaxHeld = 3
  MAX_PACKET = 8
  NAK_LIMIT = 2
  NAK_LIMIT_HID = 2
  RETRY_LIMIT = 2
  KeyDepth = 2
SPECIFICATION Spec
INVARIANTS TypedOnce
