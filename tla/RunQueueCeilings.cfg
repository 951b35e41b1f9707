SPECIFICATION Spec
CONSTANTS
  a1 = a1  a2 = a2  w1 = w1  w2 = w2  u1 = u1
  None = None
  Runs = {1, 2, 3}
  Agents <- MCAgents
  Workspaces <- MCWorkspaces
  Routines <- MCRoutines
  Agent <- CeilingAgent
  Workspace <- CeilingWorkspace
  Routine <- CeilingRoutine
  HumanRooted <- CeilingHuman
  EnqueuedClass <- CeilingClass
  ProfileWorkspace <- CeilingProfile
  InstanceCeiling = 2
  WorkspaceCeiling = 1
  WorkspaceBudget = 3
  RoutineBudget = 3
  BudgetWindow = 2
  PromotionAge = 1
  StaleAge = 0
  ScanCap = 2
  RetryDelays = {}
  ParkReasons = {"blocked_provider_action_required", "session_recovery_required"}
  SessionLimits = {2, None}
  ReadFaults = TRUE
  MaxTime = 0
  MaxLaunches = 3
INVARIANTS TypeOK CeilingsHold
PROPERTIES ImplementsGovernor
CHECK_DEADLOCK FALSE
