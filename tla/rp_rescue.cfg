CONSTANTS
  Links = {l1}
  Chat = Chat
  Ops <- AnyOutcome
  MaxSeq = 2
  MaxPing = 2
  Watchdog = TRUE
SPECIFICATION TimerSpec
PROPERTIES WatchdogRescues RpcSpec
CHECK_DEADLOCK FALSE
