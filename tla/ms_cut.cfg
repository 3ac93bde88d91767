CONSTANTS
  Scenarios <- TwoMessages
  _pack <- Pack
  _unpack <- Unpack
  Refused <- Unknown
SPECIFICATION Spec
INVARIANT CurrentMessage
CHECK_DEADLOCK FALSE
