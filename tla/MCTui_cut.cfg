CONSTANTS
  NODE_COUNT = 3
  PROP_COUNT = 1
  Capacity = 6
  TextLengths = {0, 3}
  Txns <- MCTxns
SPECIFICATION Spec
PROPERTIES CommitApplies
