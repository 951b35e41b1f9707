SPECIFICATION FairSpec
CONSTANTS
  c1 = c1  c2 = c2
  Conns = {c1, c2}
  Bootstrap = TRUE
  Capacity = 2
  Reserve = 1
  MaxSeq = 2
  MaxFaults = 2
INVARIANTS AckedIsDurable ProjectedInOrder AckedWasTold
PROPERTIES ImplementsStream EventuallyAcknowledged
CHECK_DEADLOCK FALSE
