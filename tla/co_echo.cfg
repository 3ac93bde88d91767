CONSTANTS
  Terms = {1, 2}
  QLen = 1
  Loads <- FourLoads
SPECIFICATION FairSpec
INVARIANTS ConsoleMirrored InOrder
PROPERTIES Echoed Detached
CHECK_DEADLOCK FALSE
