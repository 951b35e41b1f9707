SPECIFICATION Spec
CONSTANTS
  a1 = a1  a2 = a2  w1 = w1  w2 = w2  u1 = u1
  None = None
  Runs = {1, 2}
  Agents = {a1}
  Workspaces = {w1}
  Routines <- MCRoutines
  Agent <- OrderAgent
  Workspace <- OrderWorkspace
  Routine <- ReplayRoutine
  HumanRooted <- ReplayHuman
  EnqueuedClass <- ReplayClass
  ProfileWorkspace <- OrderProfile
  InstanceCeiling = 1
  WorkspaceCeiling = 1
  WorkspaceBudget = 2
  RoutineBudget = 2
  BudgetWindow = 2
  PromotionAge = 1
  StaleAge = 0
  ScanCap = 2
  RetryDelays = {}
  ParkReasons = {"blocked_provider_action_required"}
  SessionLimits = {1}
  ReadFaults = FALSE
  MaxTime = 0
  MaxLaunches = 3
INVARIANTS InstanceCeilingHolds
CHECK_DEADLOCK FALSE
