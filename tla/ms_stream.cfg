CONSTANTS
  Scenarios <- Streams
  _pack <- Pack
  _unpack <- Unpack
  Refused <- Unknown
SPECIFICATION FairSpec
INVARIANTS
  InStep
  TooLongOnly
  
PROPERTY AllUnpacked
CHECK_DEADLOCK FALSE
