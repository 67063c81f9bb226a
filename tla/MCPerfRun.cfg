CONSTANTS
  OrgName = oa
  PrevOrg = ob
  RunTid = t1
  PrevTid = t0
  Absent = Absent
  NoPhase = NoPhase
  NumProjects <- MCNumProjects
  NumSecrets <- MCNumSecrets
  NumConfigMaps <- MCNumConfigMaps
  MaxFaults = 2
  Leftovers = FALSE
  MaxAttempts = 2
  Deadline = 2
  ProjConcurrencyValues <- MCProjConcurrencyValues
  ObjConcurrencyValues <- MCObjConcurrencyValues
SPECIFICATION Spec
INVARIANT TypeOK
INVARIANT RecordNamesRun
INVARIANT NoThreadOutlivesPool
INVARIANT ObjectsAfterAllReady
INVARIANT CompleteWhenDone
PROPERTY Termination
PROPERTY ImplementsTestRunPhases
CHECK_DEADLOCK FALSE
