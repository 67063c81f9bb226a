----------------------------- MODULE Lifecycle ------------------------------
(***************************************************************************)
(* A perf run followed by cleanup mode: the run may finish, fail or be     *)
(* killed anywhere, and then an operator runs perf_run.py with             *)
(* RUN_MODE=cleanup, TEST_ID and ORG_NAME of that run, possibly again      *)
(* after the first cleanup ended.  The control plane keeps finalizing      *)
(* accepted deletions throughout.                                          *)
(***************************************************************************)
EXTENDS PerfRun, Cleanup

CONSTANT MaxCleanups   \* how many times the operator runs cleanup mode

VARIABLES
  cruns,        \* cleanup runs started
  lastCleaned,  \* the previous cleanup run ended with "Cleanup complete"
  faultsAtStart \* the fault count when the current cleanup run started

lifecycle == <<cruns, lastCleaned, faultsAtStart>>
allVars == <<vars, cleanup, lifecycle>>

LifecycleTypeOK ==
  /\ TypeOK /\ CleanupTypeOK
  /\ cruns \in 0..MaxCleanups /\ lastCleaned \in BOOLEAN
  /\ faultsAtStart \in 0..MaxFaults

LifecycleInit ==
  /\ Init /\ CleanupInit
  /\ cruns = 0 /\ lastCleaned = FALSE /\ faultsAtStart = 0

(* The operator starts cleanup mode once the run's process has ended.     *)
StartCleanup ==
  /\ pc \in Terminal /\ cpc \in {"idle", "cleaned", "cleanFailed", "cleanKilled"}
  /\ cruns < MaxCleanups
  /\ cpc' = "listProjects" /\ cfailure' = "none"
  /\ plist' = <<>> /\ olist' = <<>> /\ ckind' = "secret" /\ skipped' = {}
  /\ cruns' = cruns + 1 /\ lastCleaned' = (cpc = "cleaned")
  /\ faultsAtStart' = faults
  /\ UNCHANGED <<vars>>

RunStep ==
  /\ \/ MainStep \/ \E p \in ProjIdx : WorkerStep(p) \/ Environment \/ Crash
  /\ UNCHANGED <<cleanup, lifecycle>>

CleanerStep ==
  /\ CleanupStep
  /\ UNCHANGED <<run, pool, lifecycle>>

CleanerKilled ==
  /\ CleanupKilled
  /\ UNCHANGED <<run, pool, lifecycle>>

GarbageCollect ==
  /\ Finalize
  /\ UNCHANGED <<run, pool, cleanup, lifecycle>>

LifecycleNext ==
  \/ RunStep \/ StartCleanup \/ CleanerStep \/ CleanerKilled \/ GarbageCollect

(* The run's and the cleanup's threads are fair; the operator, the kill   *)
(* of a pod and the garbage collector are not assumed to act.             *)
LifecycleSpec ==
  /\ LifecycleInit /\ [][LifecycleNext]_allVars
  /\ WF_allVars(MainStep /\ UNCHANGED <<cleanup, lifecycle>>)
  /\ \A p \in ProjIdx : WF_allVars(WorkerStep(p) /\ UNCHANGED <<cleanup, lifecycle>>)
  /\ WF_allVars(CleanerStep)

-----------------------------------------------------------------------------
(* A resource of the run is on its way out: its own deletion, or for an  *)
(* object its project's, has been accepted.                               *)
Doomed(r) ==
  CASE r[1] = "object" -> <<"project", r[2], r[3]>> \in deleting
    [] OTHER           -> r \in deleting

(* spec 7(d): a cleanup that fails or whose pod is killed leaves the     *)
(* checkpoint in place: unless an earlier cleanup already completed, as   *)
(* long as resources of the run remain after a cleanup that did not       *)
(* complete, the record still names the run, and cleanup can be run again. *)
FailedCleanupKeepsRecord ==
  cpc \in {"cleanFailed", "cleanKilled"} /\ ~lastCleaned /\ LabelledBy(RunTid) # {} =>
    record # Absent /\ record.tid = RunTid

(* spec 4.7 and 8: cleanup is safe to re-run.  A cleanup pass that met  *)
(* no fault of its own and printed "Cleanup complete" leaves every        *)
(* Project of the test id, and so every object in one, deleted or being   *)
(* deleted, whatever an earlier pass (completed, failed or killed         *)
(* half-way) and the finalizer left: a Project finalized since the        *)
(* listing answers 404 and the loop goes on to the next one.              *)
RerunLeavesNothingBehind ==
  cpc = "cleaned" /\ faults = faultsAtStart =>
    \A o \in Orgs, i \in ProjIdx :
      /\ proj[o][i] = CleanTid => <<"project", o, i>> \in deleting
      /\ \A x \in Names :
           obj[o][i][x] = CleanTid => <<"project", o, i>> \in deleting

(* A run that reports completion, with NUM_SECRETS_PER_PROJECT=0 here,   *)
(* created every project and every ConfigMap: the Secret stage skipped by *)
(* its zero count does not end the project's work (checked until the      *)
(* operator's cleanup starts deleting).                                   *)
CompleteBeforeCleanup == cruns = 0 => CompleteWhenDone

(* Cleanup mode, once started, ends. *)
CleanupTerminates ==
  cpc = "listProjects" ~> cpc \in {"cleaned", "cleanFailed", "cleanKilled"}

(* spec 4.7/7(c): "Cleanup complete" means every resource of the test is *)
(* gone or being finalized; nothing is left that no record names.         *)
CleanedLeavesNoOrphan ==
  cpc = "cleaned" => \A r \in LabelledBy(RunTid) : Doomed(r)

(* spec 4.7: object cleanup is best-effort per object, one failing delete *)
(* does not keep the others of the project from being deleted.           *)
EveryListedObjectTried == skipped = {}
=============================================================================
