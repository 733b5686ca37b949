CONSTANTS
  Pictures = {65}
  Txns <- MCTxns
  QueueDepth = 1
  ChanDepth = 1
  BulkCapacity = 2
  FrameLen = 2
  TextDl = 3
  TuiDl = 2
  MaxBacklog = 1
SPECIFICATION FairSpec
INVARIANTS TypeOK CleanIsDrawn PanelShows
PROPERTIES FramesIntact PanelSettles
