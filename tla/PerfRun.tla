------------------------------ MODULE PerfRun -------------------------------
(***************************************************************************)
(* The "run" mode of perf_run.py main(): checkpoint, baseline metrics,     *)
(* create_org_and_projects (organization create with retry_with_backoff,   *)
(* sequential project creates, sequential readiness waits),                *)
(* checkpoints, and create_objects_in_projects with its two nested         *)
(* ThreadPoolExecutors, then the best-effort results save.  The process    *)
(* may be killed at any point (Crash).                                     *)
(*                                                                         *)
(* Time is abstracted: sleeps (backoff, stabilisation, the 2s poll) are    *)
(* folded into the step that follows them, and the readiness deadline is   *)
(* counted in polls.  Metrics queries change no state here; MetricsQuery   *)
(* models them.                                                            *)
(***************************************************************************)
EXTENDS ControlPlane, FiniteSetsExt

CONSTANTS
  MaxAttempts,     \* retry_with_backoff's attempt budget (6 in the code)
  Deadline,        \* polls wait_condition_ready makes before its deadline
  ProjConcurrencyValues, \* the PROJECT_CONCURRENCY settings to explore
  ObjConcurrencyValues   \* the OBJECT_CONCURRENCY settings to explore

ASSUME MaxAttempts \in Nat \ {0} /\ Deadline \in Nat
ASSUME ProjConcurrencyValues \subseteq Int /\ ObjConcurrencyValues \subseteq Int

VARIABLES
  pc,          \* where main() is
  failure,     \* which exception ended the run ("none" while none has)
  runObjects,  \* RUN_OBJECTS_PHASE
  projConc,    \* PROJECT_CONCURRENCY, read once at start
  objConc,     \* OBJECT_CONCURRENCY, read once at start
  att,         \* retry_with_backoff's `attempt`
  cur,         \* index of the project the sequential loops are at
  polls,       \* fetches made by the current wait_condition_ready
  ptask,       \* ptask[p]: state of work_project(p)
  pcur,        \* next result the project-level ex.map iterator awaits
  pabort,      \* that iterator met an exception and cancelled the rest
  stage,       \* stage[p]: "secret" or "configmap" pool of work_project(p)
  otask,       \* otask[p][k][n]: state of create_secret/create_configmap(n)
  ocur,        \* ocur[p]: next result p's object iterator awaits; 0: no pool
  oabort       \* oabort[p]: p's object iterator met an exception

config == <<runObjects, projConc, objConc>>
run  == <<pc, failure, config, att, cur, polls>>
pool == <<ptask, pcur, pabort, stage, otask, ocur, oabort>>
vars == <<world, run, pool>>

Terminal   == {"done", "failed", "crashed"}
TaskStates == {"idle", "pending", "running", "ok", "err", "cancelled"}
Pooled     == projConc > 1

TypeOK ==
  /\ WorldTypeOK
  /\ pc \in {"ckInit", "baseline", "createOrg", "createProj", "waitReady",
             "ckOrgCreated", "afterProjects", "ckProjectsReady", "objects",
             "afterObjects", "saveResults"} \cup Terminal
  /\ failure \in {"none", "checkpoint", "create", "readyFetch",
                  "readyTimeout", "objects"}
  /\ runObjects \in BOOLEAN
  /\ projConc \in ProjConcurrencyValues /\ objConc \in ObjConcurrencyValues
  /\ att \in 1..MaxAttempts /\ cur \in ProjIdx /\ polls \in 0..Deadline
  /\ ptask \in [ProjIdx -> TaskStates]
  /\ pcur \in 1..NumProjects + 1 /\ pabort \in BOOLEAN
  /\ stage \in [ProjIdx -> Kinds]
  /\ \A p \in ProjIdx, k \in Kinds : otask[p][k] \in [1..Count(k) -> TaskStates]
  /\ ocur \in [ProjIdx -> 0..(NumSecrets + NumConfigMaps + 1)]
  /\ oabort \in [ProjIdx -> BOOLEAN]

Init ==
  /\ WorldInit
  /\ pc = "ckInit" /\ failure = "none" /\ runObjects \in BOOLEAN
  /\ projConc \in ProjConcurrencyValues /\ objConc \in ObjConcurrencyValues
  /\ att = 1 /\ cur = 1 /\ polls = 0
  /\ ptask = [p \in ProjIdx |-> "idle"] /\ pcur = 1 /\ pabort = FALSE
  /\ stage = [p \in ProjIdx |-> "secret"]
  /\ otask = [p \in ProjIdx |-> [k \in Kinds |-> [n \in 1..Count(k) |-> "idle"]]]
  /\ ocur = [p \in ProjIdx |-> 0] /\ oabort = [p \in ProjIdx |-> FALSE]

-----------------------------------------------------------------------------
(* save_checkpoint / save_results_configmap: read the record, replace its  *)
(* whole data (or create it on 404).  A failure raises out of main().      *)
SaveCheckpoint(phase, next) ==
  \/ /\ record' = [tid |-> RunTid, phase |-> phase]
     /\ pc' = next /\ UNCHANGED <<faults, failure>>
  \/ /\ faults < MaxFaults /\ faults' = faults + 1
     /\ pc' = "failed" /\ failure' = "checkpoint" /\ UNCHANGED record

(* Seeded fault: the attempt bound checked with <= (one attempt too many). *)
RetryVerdictOffByOne(r) ==
  CASE r.resp = "ok"                               -> "returned"
    [] r.resp = "retryable" /\ att <= MaxAttempts -> "retry"
    [] OTHER                                       -> "raised"

(* should_retry_api_exception + retry_with_backoff: what the loop does     *)
(* with one answer.  409 is not retryable, so it is raised to the caller.  *)
RetryVerdict(r) ==
  CASE r.resp = "ok"                              -> "returned"
    [] r.resp = "retryable" /\ att < MaxAttempts -> "retry"
    [] OTHER                                      -> "raised"

(* One attempt of a create wrapped in retry_with_backoff whose caller      *)
(* swallows a raised 409 and goes on with `proceed`.                       *)
RetriedCreate(r, proceed) ==
  \/ RetryVerdict(r) = "retry" /\ att' = att + 1 /\ UNCHANGED <<pc, failure, cur>>
  \/ (RetryVerdict(r) = "returned" \/ r.resp = "conflict") /\ proceed
  \/ /\ RetryVerdict(r) = "raised" /\ r.resp # "conflict"
     /\ pc' = "failed" /\ failure' = "create" /\ UNCHANGED <<att, cur>>

(* Seeded fault: the first checkpoint is not written before the creates. *)
CheckpointInitSkipped ==
  /\ pc = "ckInit" /\ pc' = "baseline"
  /\ UNCHANGED <<world, failure, config, att, cur, polls, pool>>

CheckpointInit ==
  /\ pc = "ckInit"
  /\ SaveCheckpoint("init", "baseline")
  /\ UNCHANGED <<org, proj, ready, deleting, obj, config, att, cur, polls, pool>>

MeasureBaseline ==
  /\ pc = "baseline" /\ pc' = "createOrg"
  /\ UNCHANGED <<world, failure, config, att, cur, polls, pool>>

CreateOrg ==
  /\ pc = "createOrg"
  /\ \E r \in CreateResults(org[OrgName], RunTid) :
       /\ Affordable(r)
       /\ org' = [org EXCEPT ![OrgName] = r.val] /\ faults' = faults + r.fault
       /\ RetriedCreate(r, pc' = "createProj" /\ att' = 1 /\ cur' = 1
                           /\ UNCHANGED failure)
  /\ UNCHANGED <<proj, ready, deleting, obj, record, config, polls, pool>>

CreateProject ==
  /\ pc = "createProj"
  /\ \E r \in CreateResults(proj[OrgName][cur], RunTid) :
       /\ Affordable(r)
       /\ proj' = [proj EXCEPT ![OrgName][cur] = r.val]
       /\ faults' = faults + r.fault
       /\ RetriedCreate(r, /\ att' = 1 /\ UNCHANGED failure
                           /\ IF cur < NumProjects
                              THEN cur' = cur + 1 /\ UNCHANGED pc
                              ELSE pc' = "waitReady" /\ cur' = 1)
  /\ UNCHANGED <<org, ready, deleting, obj, record, config, polls, pool>>

(* Seeded fault: a present Ready condition is taken for Ready whatever its *)
(* status.                                                                 *)
PollReadyAnyStatus ==
  /\ pc = "waitReady" /\ polls < Deadline
  /\ polls' = 0 /\ UNCHANGED <<faults, failure>>
  /\ IF cur < NumProjects
     THEN cur' = cur + 1 /\ UNCHANGED pc
     ELSE pc' = "ckOrgCreated" /\ UNCHANGED cur
  /\ UNCHANGED <<org, proj, ready, deleting, obj, record, config, att, pool>>

(* Seeded fault: the loop polls without consuming its deadline. *)
PollReadyNoDeadline ==
  /\ pc = "waitReady" /\ polls < Deadline
  /\ \/ /\ faults < MaxFaults /\ faults' = faults + 1
        /\ pc' = "failed" /\ failure' = "readyFetch" /\ UNCHANGED <<cur, polls>>
     \/ /\ ready[OrgName][cur] /\ polls' = 0 /\ UNCHANGED <<faults, failure>>
        /\ IF cur < NumProjects
           THEN cur' = cur + 1 /\ UNCHANGED pc
           ELSE pc' = "ckOrgCreated" /\ UNCHANGED cur
     \/ /\ ~ready[OrgName][cur] /\ UNCHANGED <<polls, pc, faults, failure, cur>>
  /\ UNCHANGED <<org, proj, ready, deleting, obj, record, config, att, pool>>

(* One iteration of wait_condition_ready for project `cur`: the get may    *)
(* raise (nothing catches it), the Ready condition may be True (next       *)
(* project), or not yet (sleep 2s and poll again).                         *)
PollReady ==
  /\ pc = "waitReady" /\ polls < Deadline
  /\ \/ /\ faults < MaxFaults /\ faults' = faults + 1
        /\ pc' = "failed" /\ failure' = "readyFetch" /\ UNCHANGED <<cur, polls>>
     \/ /\ ready[OrgName][cur] /\ polls' = 0 /\ UNCHANGED <<faults, failure>>
        /\ IF cur < NumProjects
           THEN cur' = cur + 1 /\ UNCHANGED pc
           ELSE pc' = "ckOrgCreated" /\ UNCHANGED cur
     \/ /\ ~ready[OrgName][cur] /\ polls' = polls + 1
        /\ UNCHANGED <<pc, faults, failure, cur>>
  /\ UNCHANGED <<org, proj, ready, deleting, obj, record, config, att, pool>>

ReadyTimeout ==
  /\ pc = "waitReady" /\ polls = Deadline
  /\ pc' = "failed" /\ failure' = "readyTimeout"
  /\ UNCHANGED <<world, config, att, cur, polls, pool>>

(* Seeded fault: the checkpoint at line 824 copied from line 815 and     *)
(* still saving "org-created".                                             *)
CheckpointProjectsReadyStalePhase ==
  /\ pc = "ckProjectsReady"
  /\ SaveCheckpoint("org-created",
                    IF runObjects THEN "objects" ELSE "saveResults")
  /\ ptask' = IF pc' = "objects" THEN [p \in ProjIdx |-> "pending"] ELSE ptask
  /\ UNCHANGED <<org, proj, ready, deleting, obj, config, att, cur, polls,
                 pcur, pabort, stage, otask, ocur, oabort>>

CheckpointOrgCreated ==
  /\ pc = "ckOrgCreated"
  /\ SaveCheckpoint("org-created", "afterProjects")
  /\ UNCHANGED <<org, proj, ready, deleting, obj, config, att, cur, polls, pool>>

MeasureAfterProjects ==
  /\ pc = "afterProjects" /\ pc' = "ckProjectsReady"
  /\ UNCHANGED <<world, failure, config, att, cur, polls, pool>>

(* The checkpoint, then `if run_objects_phase`: ex.map (or the sequential  *)
(* loop) is handed every project name.                                     *)
CheckpointProjectsReady ==
  /\ pc = "ckProjectsReady"
  /\ SaveCheckpoint("projects-ready",
                    IF runObjects THEN "objects" ELSE "saveResults")
  /\ ptask' = IF pc' = "objects" THEN [p \in ProjIdx |-> "pending"] ELSE ptask
  /\ UNCHANGED <<org, proj, ready, deleting, obj, config, att, cur, polls,
                 pcur, pabort, stage, otask, ocur, oabort>>

-----------------------------------------------------------------------------
(* create_objects_in_projects.  With PROJECT_CONCURRENCY > 1, ex.map       *)
(* submits every work_project to a pool whose idle threads take tasks in   *)
(* submission order; otherwise the main thread runs them one by one.       *)
(* Inside work_project, each of the two stages (Secrets, then ConfigMaps)  *)
(* is its own pool of OBJECT_CONCURRENCY threads when its count is > 0.    *)
(* ex.map's result iterator awaits results in order; on the first          *)
(* exception it cancels the tasks not yet started, and leaving the `with`  *)
(* block then waits for the running ones before the exception propagates. *)
Running(f) == {n \in DOMAIN f : f[n] = "running"}
Pending(f) == {n \in DOMAIN f : f[n] = "pending"}
CancelPending(f) == [n \in DOMAIN f |-> IF f[n] = "pending" THEN "cancelled" ELSE f[n]]

(* A pool thread (or, sequentially, the main thread) starts work_project. *)
StartProject(p) ==
  /\ pc = "objects" /\ ptask[p] = "pending"
  /\ IF Pooled
     THEN p = Min(Pending(ptask)) /\ Cardinality(Running(ptask)) < projConc
     ELSE p = pcur
  /\ ptask' = [ptask EXCEPT ![p] = "running"]
  /\ stage' = [stage EXCEPT ![p] = "secret"]
  /\ UNCHANGED <<world, run, pcur, pabort, otask, ocur, oabort>>

(* Seeded fault: a kind with count 0 ends the project's work, as if the   *)
(* `if num_secrets > 0` guarded a return instead of the pool alone.       *)
EnterStageZeroEndsProject(p) ==
  LET k == stage[p] IN
  /\ pc = "objects" /\ ptask[p] = "running" /\ ocur[p] = 0
  /\ \/ /\ Count(k) = 0
        /\ ptask' = [ptask EXCEPT ![p] = "ok"] /\ UNCHANGED <<stage, otask, ocur>>
     \/ /\ Count(k) > 0 /\ objConc < 1
        /\ ptask' = [ptask EXCEPT ![p] = "err"]
        /\ UNCHANGED <<stage, otask, ocur>>
     \/ /\ Count(k) > 0 /\ objConc >= 1
        /\ otask' = [otask EXCEPT ![p][k] = [n \in 1..Count(k) |-> "pending"]]
        /\ ocur' = [ocur EXCEPT ![p] = 1]
        /\ UNCHANGED <<ptask, stage>>
  /\ UNCHANGED <<world, run, pcur, pabort, oabort>>

(* work_project(p) reaches `if num > 0: with ThreadPoolExecutor(...)` of   *)
(* its current stage: no pool for a zero count, ValueError for           *)
(* max_workers < 1, else every create of the stage is submitted.          *)
EnterStage(p) ==
  LET k == stage[p] IN
  /\ pc = "objects" /\ ptask[p] = "running" /\ ocur[p] = 0
  /\ \/ /\ Count(k) = 0
        /\ IF k = "secret"
           THEN stage' = [stage EXCEPT ![p] = "configmap"] /\ UNCHANGED ptask
           ELSE ptask' = [ptask EXCEPT ![p] = "ok"] /\ UNCHANGED stage
        /\ UNCHANGED <<otask, ocur>>
     \/ /\ Count(k) > 0 /\ objConc < 1
        /\ ptask' = [ptask EXCEPT ![p] = "err"]
        /\ UNCHANGED <<stage, otask, ocur>>
     \/ /\ Count(k) > 0 /\ objConc >= 1
        /\ otask' = [otask EXCEPT ![p][k] = [n \in 1..Count(k) |-> "pending"]]
        /\ ocur' = [ocur EXCEPT ![p] = 1]
        /\ UNCHANGED <<ptask, stage>>
  /\ UNCHANGED <<world, run, pcur, pabort, oabort>>

(* An idle thread of p's object pool takes the oldest queued create. *)
StartObject(p, n) ==
  LET k == stage[p] IN
  /\ pc = "objects" /\ ptask[p] = "running" /\ ocur[p] > 0
  /\ n \in Pending(otask[p][k]) /\ n = Min(Pending(otask[p][k]))
  /\ Cardinality(Running(otask[p][k])) < objConc
  /\ otask' = [otask EXCEPT ![p][k][n] = "running"]
  /\ UNCHANGED <<world, run, ptask, pcur, pabort, stage, ocur, oabort>>

(* create_secret(n) / create_configmap(n): one create, 409 swallowed, any *)
(* other error raised (no retry).                                        *)
FinishObject(p, n) ==
  LET k == stage[p]
      x == <<k, n>>
  IN
  /\ pc = "objects" /\ otask[p][k][n] = "running"
  /\ \E r \in CreateResults(obj[OrgName][p][x], RunTid) :
       /\ Affordable(r)
       /\ obj' = [obj EXCEPT ![OrgName][p][x] = r.val]
       /\ faults' = faults + r.fault
       /\ otask' = [otask EXCEPT ![p][k][n] =
                      IF r.resp \in {"ok", "conflict"} THEN "ok" ELSE "err"]
  /\ UNCHANGED <<org, proj, ready, deleting, record, run, ptask, pcur, pabort, stage,
                 ocur, oabort>>

(* Seeded fault: a failed create's exception is swallowed by the awaiting *)
(* loop, which moves on as for a value.                                    *)
AwaitObjectSwallowing(p) ==
  LET k == stage[p]
      c == ocur[p]
  IN
  /\ pc = "objects" /\ ptask[p] = "running" /\ c > 0 /\ ~oabort[p]
  /\ \/ /\ c <= Count(k) /\ otask[p][k][c] \in {"ok", "err"}
        /\ ocur' = [ocur EXCEPT ![p] = c + 1]
        /\ UNCHANGED <<ptask, stage, otask, oabort>>
     \/ /\ c > Count(k)
        /\ ocur' = [ocur EXCEPT ![p] = 0]
        /\ IF k = "secret"
           THEN stage' = [stage EXCEPT ![p] = "configmap"] /\ UNCHANGED ptask
           ELSE ptask' = [ptask EXCEPT ![p] = "ok"] /\ UNCHANGED stage
        /\ UNCHANGED <<otask, oabort>>
  /\ UNCHANGED <<world, run, pcur, pabort>>

(* work_project's `list(ex.map(...))` awaits result ocur[p]: a value      *)
(* moves on (past the last one the stage is over), an exception cancels   *)
(* the queued creates.                                                     *)
AwaitObject(p) ==
  LET k == stage[p]
      c == ocur[p]
  IN
  /\ pc = "objects" /\ ptask[p] = "running" /\ c > 0 /\ ~oabort[p]
  /\ \/ /\ c <= Count(k) /\ otask[p][k][c] = "ok"
        /\ ocur' = [ocur EXCEPT ![p] = c + 1]
        /\ UNCHANGED <<ptask, stage, otask, oabort>>
     \/ /\ c <= Count(k) /\ otask[p][k][c] = "err"
        /\ otask' = [otask EXCEPT ![p][k] = CancelPending(@)]
        /\ oabort' = [oabort EXCEPT ![p] = TRUE]
        /\ UNCHANGED <<ptask, stage, ocur>>
     \/ /\ c > Count(k)
        /\ ocur' = [ocur EXCEPT ![p] = 0]
        /\ IF k = "secret"
           THEN stage' = [stage EXCEPT ![p] = "configmap"] /\ UNCHANGED ptask
           ELSE ptask' = [ptask EXCEPT ![p] = "ok"] /\ UNCHANGED stage
        /\ UNCHANGED <<otask, oabort>>
  /\ UNCHANGED <<world, run, pcur, pabort>>

(* Seeded fault: the pool is shut down without waiting (wait=False). *)
ObjectPoolRaiseNoWait(p) ==
  /\ pc = "objects" /\ ptask[p] = "running" /\ oabort[p]
  /\ ptask' = [ptask EXCEPT ![p] = "err"]
  /\ UNCHANGED <<world, run, pcur, pabort, stage, otask, ocur, oabort>>

(* Leaving the object pool's `with` block waits for the running creates, *)
(* then the exception ends work_project(p).                              *)
ObjectPoolRaise(p) ==
  /\ pc = "objects" /\ ptask[p] = "running" /\ oabort[p]
  /\ Running(otask[p][stage[p]]) = {}
  /\ ptask' = [ptask EXCEPT ![p] = "err"]
  /\ UNCHANGED <<world, run, pcur, pabort, stage, otask, ocur, oabort>>

(* The main thread awaits work_project(pcur): the sequential loop or the  *)
(* project-level ex.map iterator.                                          *)
AwaitProject ==
  /\ pc = "objects" /\ pcur <= NumProjects /\ ~pabort
  /\ \/ /\ ptask[pcur] = "ok" /\ pcur' = pcur + 1
        /\ UNCHANGED <<ptask, pabort, run>>
     \/ /\ ptask[pcur] = "err" /\ Pooled
        /\ ptask' = CancelPending(ptask) /\ pabort' = TRUE
        /\ UNCHANGED <<pcur, run>>
     \/ /\ ptask[pcur] = "err" /\ ~Pooled
        /\ pc' = "failed" /\ failure' = "objects"
        /\ UNCHANGED <<ptask, pcur, pabort, config, att, cur, polls>>
  /\ UNCHANGED <<world, stage, otask, ocur, oabort>>

(* The project pool's `with` block waits for running projects, then the  *)
(* exception leaves create_objects_in_projects and main().               *)
ProjectPoolRaise ==
  /\ pc = "objects" /\ pabort /\ Running(ptask) = {}
  /\ pc' = "failed" /\ failure' = "objects"
  /\ UNCHANGED <<world, config, att, cur, polls, pool>>

(* Every project's work returned: the stabilisation sleep and the         *)
(* after-objects measurement follow.                                       *)
ObjectsDone ==
  /\ pc = "objects" /\ pcur = NumProjects + 1
  /\ pc' = "afterObjects"
  /\ UNCHANGED <<world, failure, config, att, cur, polls, pool>>

MeasureAfterObjects ==
  /\ pc = "afterObjects" /\ pc' = "saveResults"
  /\ UNCHANGED <<world, failure, config, att, cur, polls, pool>>

(* The closing save_results_configmap replaces the record's data with     *)
(* results, report, test_id and org_name (no "phase"); its failure is only *)
(* logged.                                                                 *)
SaveResults ==
  /\ pc = "saveResults" /\ pc' = "done"
  /\ \/ record' = [tid |-> RunTid, phase |-> NoPhase] /\ UNCHANGED faults
     \/ faults < MaxFaults /\ faults' = faults + 1 /\ UNCHANGED record
  /\ UNCHANGED <<org, proj, ready, deleting, obj, failure, config, att, cur, polls, pool>>

(* The pod running main() is killed: every thread stops where it is. *)
Crash ==
  /\ pc \notin Terminal /\ pc' = "crashed"
  /\ UNCHANGED <<world, failure, config, att, cur, polls, pool>>

Environment ==
  /\ pc \notin Terminal
  /\ BecomeReady
  /\ UNCHANGED <<run, pool>>

MainStep ==
  \/ CheckpointInit \/ MeasureBaseline \/ CreateOrg \/ CreateProject
  \/ PollReady \/ ReadyTimeout \/ CheckpointOrgCreated
  \/ MeasureAfterProjects \/ CheckpointProjectsReady
  \/ AwaitProject \/ ProjectPoolRaise \/ ObjectsDone
  \/ MeasureAfterObjects \/ SaveResults

WorkerStep(p) ==
  \/ StartProject(p) \/ EnterStage(p) \/ AwaitObject(p) \/ ObjectPoolRaise(p)
  \/ \E n \in 1..Count(stage[p]) : StartObject(p, n) \/ FinishObject(p, n)

Next ==
  \/ MainStep
  \/ \E p \in ProjIdx : WorkerStep(p)
  \/ Environment
  \/ Crash

(* Threads are scheduled by the OS and Python's GIL hands off between     *)
(* them, so every enabled thread step is eventually taken.  The control   *)
(* plane and the pod's survival are not assumed fair.                      *)
Spec ==
  /\ Init /\ [][Next]_vars
  /\ WF_vars(MainStep)
  /\ \A p \in ProjIdx : WF_vars(WorkerStep(p))

-----------------------------------------------------------------------------
(* Properties.                                                              *)

(* Crash recovery: main() writes the "init" checkpoint before it creates   *)
(* anything, and every later save keeps test_id, so whenever a resource    *)
(* labelled with the run's test id exists, the perf-results record names   *)
(* that test id and a cleanup run can be pointed at it.                    *)
RecordNamesRun ==
  LabelledBy(RunTid) # {} => record # Absent /\ record.tid = RunTid

(* No thread outlives its pool: once create_objects_in_projects has        *)
(* returned or raised (including after a cancelled ex.map), no             *)
(* work_project and no create is still running behind main()'s back.      *)
NoThreadOutlivesPool ==
  pc \in {"afterObjects", "saveResults", "done", "failed"} =>
    /\ Running(ptask) = {}
    /\ \A p \in ProjIdx, k \in Kinds : Running(otask[p][k]) = {}

(* Ordering of the phases: an object of this run exists in a project only  *)
(* once every project of the organization has been created and seen Ready  *)
(* by wait_condition_ready.                                                *)
ObjectsAfterAllReady ==
  (\E i \in ProjIdx, x \in Names : obj[OrgName][i][x] = RunTid) =>
    \A j \in ProjIdx : proj[OrgName][j] # Absent /\ ready[OrgName][j]

(* A run that reaches "Perf run complete" has every project and, when the *)
(* objects phase ran, every Secret and ConfigMap of every project present, *)
(* despite retries, 409s, cancellations and the pools' interleavings.      *)
CompleteWhenDone ==
  pc = "done" =>
    \A i \in ProjIdx :
      /\ proj[OrgName][i] # Absent
      /\ runObjects => \A x \in Names : obj[OrgName][i][x] # Absent

(* Unless the pod is killed, main() ends: the retry budget, the readiness *)
(* deadline and the pools' waits are all finite.                          *)
Termination == <>(pc \in Terminal)

(* The refinement mapping to the design's TestRun: main()'s position     *)
(* gives the phase the run is in, the perf-results record of this test id *)
(* the persisted one (the results save, which writes no "phase", is the   *)
(* completion record), and the server the resources made.                 *)
RunPhase ==
  CASE pc = "ckInit" -> "start"
    [] pc \in {"baseline", "createOrg", "createProj", "waitReady", "ckOrgCreated"} -> "init"
    [] pc \in {"afterProjects", "ckProjectsReady"} -> "org-created"
    [] pc \in {"objects", "afterObjects", "saveResults"} -> "projects-ready"
    [] pc = "done" -> "objects-created"
    [] OTHER -> "stopped"

SavedPhase ==
  CASE record = Absent \/ record.tid # RunTid -> "none"
    [] record.phase = NoPhase -> "objects-created"
    [] OTHER -> record.phase

TR == INSTANCE TestRunPhases WITH
        Projects <- ProjIdx, Objects <- Names,
        phase <- RunPhase, saved <- SavedPhase,
        orgMade <- org[OrgName] # Absent,
        projMade <- {i \in ProjIdx : proj[OrgName][i] # Absent},
        objMade <- {<<i, x>> \in ProjIdx \X Names : obj[OrgName][i][x] # Absent},
        runObjects <- runObjects

(* main() with its pools, retries, 409s, crashes and failing saves        *)
(* implements the TestRun of the design: phases entered in order and each *)
(* persisted as it is entered, the organization and projects created in   *)
(* phase init only, objects only in projects-ready, and completion only   *)
(* with every object made.                                                 *)
ImplementsTestRunPhases == TR!PhasesSpec

(* spec 4.3: a transient fetch error during the readiness wait must not   *)
(* end the wait; only the deadline may.                                   *)
WaitFailsOnlyByDeadline == failure # "readyFetch"

(* spec 7(g): a checkpoint persistence failure is logged and the run goes *)
(* on.                                                                    *)
CheckpointFailureTolerated == failure # "checkpoint"

(* spec 3: "every created resource carries the TestRun's labels so       *)
(* Cleanup can find it".  cleanup_resources lists the projects labelled   *)
(* with its test id (695) and lists objects only inside them (709/720),   *)
(* so every object must lie in a project labelled with the object's own   *)
(* test id; the 409 of a project create (383) adopts whatever project     *)
(* already has the name.                                                  *)
ObjectsFindableByLabel ==
  \A o \in Orgs, i \in ProjIdx, x \in Names :
    obj[o][i][x] # Absent => proj[o][i] = obj[o][i][x]
=============================================================================
