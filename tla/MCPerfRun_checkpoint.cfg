CONSTANTS
  OrgName = oa
  PrevOrg = ob
  RunTid = t1
  PrevTid = t0
  Absent = Absent
  NoPhase = NoPhase
  NumProjects = 2
  NumSecrets <- MCNumSecrets
  NumConfigMaps <- MCNumConfigMaps
  MaxFaults = 2
  Leftovers = FALSE
  MaxAttempts = 2
  Deadline = 2
  ProjConcurrencyValues <- MCProjConcurrencyValues
  ObjConcurrencyValues <- MCObjConcurrencyValues
SPECIFICATION Spec
CHECK_DEADLOCK FALSE
INVARIANT CheckpointFailureTolerated
