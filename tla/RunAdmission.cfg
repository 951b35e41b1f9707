SPECIFICATION Spec
CONSTANTS
  a1 = a1  a2 = a2  wake = wake  assign = assign  t1 = t1
  k1 = k1  kc = kc  v1 = v1  u1 = u1
  None = None
  Untyped = Untyped
  Agents = {a1, a2}
  Reasons = {wake, assign}
  Tasks = {t1}
  Keys = {k1, kc}
  CommentKeys = {kc}
  Waves = {v1}
  Routines = {u1}
  Requests <- AdmissionRequests
  IdempotencyWindow = 1
  CoalesceWindow = 1
  SelfTriggerWindow = 1
  SelfTriggerAllowance = 1
  SelfTriggerTotalAllowance = 1
  MaxCausationDepth = 2
  RetentionWindow = 1
  MaxRows = 3
  MaxTime = 2
INVARIANTS TypeOK IdentityOnce SelfTriggerBounded ChainsSound
CHECK_DEADLOCK FALSE
