CONSTANTS
  Names = {a, b}
  Xfn = xfn
  Trees <- FileAndDir
  Handlers = {h1, h2}
  Modes = {"r", "w"}
  Depth = 2
  MaxCalls = 4
  MaxChunk = 1
  MaxOther = 1
SPECIFICATION Spec
SYMMETRY Symmetry
INVARIANTS TypeOK InodeInv HandlesOpen DescriptorsMirrored ListedInOrder
PROPERTIES InodesNotReused EntryResolves
CHECK_DEADLOCK FALSE
