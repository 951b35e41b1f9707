SPECIFICATION Spec
CONSTANTS
  w1 = w1  w2 = w2
  Writers = {w1, w2}
  PageSize = 2
  Signals = 2
  MaxEvents = 4
  MaxLosses = 2
INVARIANTS CommitNotLost
CHECK_DEADLOCK FALSE
