SPECIFICATION FairSpec
CONSTANTS
  Programs <- AllPrograms
  Keys <- KeySet
  Chars = 3
  SizeTxns <- SomeSizes
  QueueDepth = 2
  ReadyFree = 1
  TxnCapacity = 2
  KeyDepth = 2
  CounterMod = 8
  SelectGap = TRUE
INVARIANTS
  TypeOK
  QueuedSettles
PROPERTIES
  KeysDelivered
  TxnsIntact
  KeysMove
  AnswerComes
  ReadyComes
