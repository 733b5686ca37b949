SPECIFICATION FairSpec
CONSTANTS
  MemSize = 12
  PageSize = 2
  Names = {n1}
  NoName = noname
  MaxWrites = 3
  Lens = {0, 2, 3}
  CopyChunk = 2
  SpaceChecked = TRUE
  CrashPoints <- WriteAndDelete
INVARIANTS
  TypeOK
  SlabBelowIndex
  ExtentsOrdered
  FilesIntact
  CompactNoOp
PROPERTIES
  WriteIsFound
  FileIdStable
  CompactPacks
  CallsReturn
  ImplementsLog
