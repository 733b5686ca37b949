SPECIFICATION Spec
CONSTANTS
  MemSize = 10
  PageSize = 2
  Names = {n1}
  NoName = noname
  MaxWrites = 3
  Lens = {0, 1, 2}
  CopyChunk = 2
  SpaceChecked = TRUE
  CrashPoints <- SuperBlock
PROPERTIES
  SlabAppendOnly
