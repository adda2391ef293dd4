CONSTANTS
  Store = {s1, s2}
  MaxEvents = 3
SPECIFICATION Spec
SYMMETRY MCSymmetry
INVARIANT NoDocIsLost
CHECK_DEADLOCK FALSE
