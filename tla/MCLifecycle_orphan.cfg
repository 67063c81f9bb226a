CONSTANTS
  OrgName = oa
  PrevOrg = ob
  RunTid = t1
  PrevTid = t0
  CleanTid = t1
  CleanOrg = oa
  Absent = Absent
  NoPhase = NoPhase
  NumProjects <- MCNumProjects
  NumSecrets <- MCNumSecrets
  NumConfigMaps <- MCNumConfigMaps
  MaxFaults = 0
  Leftovers = FALSE
  MaxAttempts = 1
  Deadline = 1
  ProjConcurrencyValues <- MCProjConcurrencyValues
  ObjConcurrencyValues <- MCObjConcurrencyValues
  MaxCleanups = 1
  MaxCleanups = 1
SPECIFICATION LifecycleSpec
CHECK_DEADLOCK FALSE
INVARIANT CleanedLeavesNoOrphan
