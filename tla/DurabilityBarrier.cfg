SPECIFICATION FairSpec
CONSTANTS
  a1 = a1  a2 = a2  a3 = a3
  Callers = {a1, a2, a3}
  MaxCommits = 2
  MaxArrivals = 3
INVARIANTS AwaitCovers WaitersHaveARun
PROPERTIES EveryCallReturns
CHECK_DEADLOCK FALSE
