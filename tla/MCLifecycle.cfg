CONSTANTS
  OrgName = oa
  PrevOrg = ob
  RunTid = t1
  PrevTid = t0
  CleanTid = t1
  CleanOrg = oa
  Absent = Absent
  NoPhase = NoPhase
  NumProjects <- MCNumProjects
  NumSecrets <- MCNumSecrets
  NumConfigMaps <- MCNumConfigMaps
  MaxFaults = 1
  Leftovers = FALSE
  MaxAttempts = 1
  Deadline = 1
  ProjConcurrencyValues <- MCProjConcurrencyValues
  ObjConcurrencyValues <- MCObjConcurrencyValues
  MaxCleanups = 2
SPECIFICATION LifecycleSpec
INVARIANT LifecycleTypeOK
INVARIANT CompleteBeforeCleanup
INVARIANT FailedCleanupKeepsRecord
INVARIANT RerunLeavesNothingBehind
PROPERTY CleanupTerminates
CHECK_DEADLOCK FALSE
