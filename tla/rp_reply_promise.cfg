CONSTANTS
  Links = {l1}
  Chat = Chat
  Ops <- OkOrRaise
  MaxSeq = 2
  MaxPing = 0
  Watchdog = FALSE
SPECIFICATION FairSpec
PROPERTY SameIdReply
CHECK_DEADLOCK FALSE
