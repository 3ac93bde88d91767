CONSTANTS
  Pins = {p1, p2}
  Period = 64
  Depth = 2
  MaxLate = 1
  MaxOther = 0
  Delay = 1
  MaxDly = 2
SPECIFICATION Spec
SYMMETRY PinSymmetry
INVARIANTS TypeOK WakeInv WakeUp DelayRuns FlagKept Timely
CHECK_DEADLOCK FALSE
