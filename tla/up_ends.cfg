CONSTANTS
  Pins = {p1}
  Period = 64
  Depth = 2
  MaxLate = 5
  MaxOther = 1
  Delay = 1
  MaxDly = 2
SPECIFICATION FairSpec
PROPERTY DebounceEnds
CHECK_DEADLOCK FALSE
