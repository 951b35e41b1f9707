SPECIFICATION Spec
CONSTANTS
  r1 = r1  r2 = r2  t1 = t1  o1 = o1  o2 = o2
  Runs = {r1, r2}
  Tasks = {t1}
  Task <- SharedTask
  Operators = {o1, o2}
  NoRun = NoRun
  MaxPauses = 2
  MaxFaults = 1
SYMMETRY Symmetry
INVARIANTS LateLaunches CleanSweepReaches
CHECK_DEADLOCK FALSE
