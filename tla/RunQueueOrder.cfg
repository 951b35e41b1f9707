SPECIFICATION Spec
CONSTANTS
  a1 = a1  a2 = a2  w1 = w1  w2 = w2  u1 = u1
  None = None
  Runs = {1, 2, 3}
  Agents = {a1}
  Workspaces = {w1}
  Routines <- MCRoutines
  Agent <- OrderAgent
  Workspace <- OrderWorkspace
  Routine <- OrderRoutine
  HumanRooted <- OrderHuman
  EnqueuedClass <- OrderClass
  ProfileWorkspace <- OrderProfile
  InstanceCeiling = 2
  WorkspaceCeiling = 2
  WorkspaceBudget = 2
  RoutineBudget = 1
  BudgetWindow = 2
  PromotionAge = 1
  StaleAge = 1
  ScanCap = 2
  RetryDelays = {1}
  ParkReasons = {}
  SessionLimits = {2}
  ReadFaults = FALSE
  MaxTime = 3
  MaxLaunches = 3
INVARIANTS BudgetsHold
PROPERTIES NoOvertaking
CHECK_DEADLOCK FALSE
