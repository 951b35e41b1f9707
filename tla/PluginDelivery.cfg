SPECIFICATION Spec
CONSTANTS
  MaxEvents = 2
  QueueSize = 2
  BufferCap = 2
  Attempts = 2
  MaxReports = 4
  MaxRefreshes = 1
  MaxEnables = 1
INVARIANTS LiveEventsInOrder ReplayedOnce
CHECK_DEADLOCK FALSE
