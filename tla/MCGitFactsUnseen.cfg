CONSTANTS
  None = None
  Branch = {a, b}
  Main <- MCMain
  LongLived <- MCLongLived
  Track <- MCTrack
  MaxEvents = 4
SPECIFICATION Spec
SYMMETRY MCSymmetry
INVARIANTS
  LandedIsSeen
CHECK_DEADLOCK FALSE
