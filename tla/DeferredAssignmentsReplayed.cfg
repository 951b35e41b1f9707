SPECIFICATION FairSpec
CONSTANTS
  Tasks = {t1, t2}
  Agents = {a1}
  NoAgent = NoAgent
  Operators = {o1}
  Tick = Tick
  ReplayLimit = 1
  MaxGeneration = 1
  MaxPauses = 1
  MaxFaults = 1
PROPERTIES EventuallyReplayed
CHECK_DEADLOCK FALSE
