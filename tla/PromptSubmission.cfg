SPECIFICATION Spec
CONSTANTS
  Subs = {s1, s2}
  NoSub = NoSub
  Requests = {q1, q2}
  NoRequest = NoRequest
  MaxGeneration = 2
  MaxRestarts = 1
INVARIANTS CalledAtMostOnce
PROPERTIES OutcomeIsFinal
CHECK_DEADLOCK FALSE
