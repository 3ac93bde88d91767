CONSTANTS
  Links = {l1, l2}
  Chat = Chat
  Ops <- OkOrRaise
  MaxSeq = 2
  MaxPing = 0
  Watchdog = FALSE
SYMMETRY LinkPerms
SPECIFICATION Spec
INVARIANTS
  TypeOK
  OwnAnswer
  ReaderSurvives
  Routable
  ExecutedInOrder
  NoLeak
  IInv
  OInv
PROPERTY RpcSpec
CHECK_DEADLOCK FALSE
