SPECIFICATION Spec
CONSTANTS
  MemSize = 9
  PageSize = 3
  Names = {n1}
  NoName = noname
  MaxWrites = 3
  Lens = {0, 1, 2}
  CopyChunk = 2
  SpaceChecked = FALSE
  CrashPoints <- NoCrash
INVARIANTS
  SlabBelowIndex
