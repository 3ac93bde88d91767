CONSTANTS
  Names = {a}
  Xfn = xfn
  Trees <- AnyKinds
  Handlers = {h1, h2}
  Modes = {"r", "w"}
  Depth = 2
  MaxCalls = 3
  MaxChunk = 2
  MaxOther = 2
SPECIFICATION FairSpec
CHECK_DEADLOCK FALSE
PROPERTY RequestsEnd
