SPECIFICATION MCSpec
CONSTANTS
  Trees <- MCTrees
  kMaxDataClusters = 4
  None = None
INVARIANTS
  ChainsApart
  WrittenReadsBack
  TransfersKeepTheDisks
  OwnStreamIsHeardWhole
CHECK_DEADLOCK FALSE
