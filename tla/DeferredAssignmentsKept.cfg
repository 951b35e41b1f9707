SPECIFICATION Spec
CONSTANTS
  Tasks = {t1}
  Agents = {a1, a2}
  NoAgent = NoAgent
  Operators = {o1}
  Tick = Tick
  ReplayLimit = 1
  MaxGeneration = 2
  MaxPauses = 2
  MaxFaults = 1
INVARIANTS DeferralNotLost
SYMMETRY Symmetry
CHECK_DEADLOCK FALSE
