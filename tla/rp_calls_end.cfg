CONSTANTS
  Links = {l1, l2}
  Chat = Chat
  Ops <- NoException
  MaxSeq = 1
  MaxPing = 0
  Watchdog = FALSE
SPECIFICATION FairSpec
PROPERTY CallEnds
CHECK_DEADLOCK FALSE
