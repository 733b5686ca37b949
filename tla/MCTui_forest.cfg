CONSTANTS
  NODE_COUNT = 3
  PROP_COUNT = 1
  Capacity = 6
  TextLengths = {0, 2}
  Txns <- MCTxns
SPECIFICATION Spec
INVARIANTS TypeOK TreeSound
PROPERTIES LostOnlyUnderItself ImplementsForest
