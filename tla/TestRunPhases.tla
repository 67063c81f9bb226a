--------------------------- MODULE TestRunPhases ----------------------------
(***************************************************************************)
(* What the design promises of one perf run, without threads, retries or  *)
(* remote answers: the TestRun of spec section 3 goes through its phases  *)
(* init -> org-created -> projects-ready -> objects-created, each phase is *)
(* persisted as it is entered (section 3, 4.6), the organization and its   *)
(* projects are created in phase init, objects only once the projects are *)
(* ready (section 5), and the run may stop at any point (a fatal error or *)
(* the pod killed).  The closing save with the results stands for         *)
(* "objects-created-equivalent completion" (section 8), and it is          *)
(* best-effort (section 7(g)).                                             *)
(***************************************************************************)
EXTENDS Naturals

CONSTANTS
  Projects,   \* the run's project indices
  Objects     \* the names of the objects of one project

VARIABLES
  phase,      \* "start", a TestRun phase, or "stopped"
  saved,      \* the phase the external record holds for the run, or "none"
  orgMade,    \* the organization exists
  projMade,   \* the projects that exist
  objMade,    \* the <<project, object>> pairs that exist
  runObjects  \* the objects phase is enabled

avars == <<phase, saved, orgMade, projMade, objMade, runObjects>>

RunPhases == <<"init", "org-created", "projects-ready", "objects-created">>

(* The phase the run enters from phase `from`. *)
NextPhase(from) ==
  CASE from = "start"          -> "init"
    [] from = "init"           -> "org-created"
    [] from = "org-created"    -> "projects-ready"
    [] from = "projects-ready" -> "objects-created"

PhasesTypeOK ==
  /\ phase \in {"start", "stopped"} \cup {RunPhases[k] : k \in 1..4}
  /\ saved \in {"none"} \cup {RunPhases[k] : k \in 1..4}
  /\ orgMade \in BOOLEAN /\ projMade \subseteq Projects
  /\ objMade \subseteq Projects \X Objects /\ runObjects \in BOOLEAN

PhasesInit ==
  /\ phase = "start" /\ saved = "none"
  /\ orgMade = FALSE /\ projMade = {} /\ objMade = {}
  /\ runObjects \in BOOLEAN

(* A phase is entered and persisted in one step; org-created needs the    *)
(* organization and every project.                                         *)
Advance ==
  /\ phase \in {"start", "init", "org-created"}
  /\ phase = "init" => orgMade /\ projMade = Projects
  /\ phase' = NextPhase(phase) /\ saved' = phase'
  /\ UNCHANGED <<orgMade, projMade, objMade, runObjects>>

(* The run completes: every object exists when the objects phase ran; the *)
(* results save may fail, leaving the record as it was.                   *)
Complete ==
  /\ phase = "projects-ready"
  /\ runObjects => objMade = Projects \X Objects
  /\ phase' = "objects-created" /\ saved' \in {saved, "objects-created"}
  /\ UNCHANGED <<orgMade, projMade, objMade, runObjects>>

(* A create in phase init; the call that makes it may also end the run.   *)
MakeOrg ==
  /\ phase = "init" /\ orgMade' = TRUE /\ phase' \in {phase, "stopped"}
  /\ UNCHANGED <<saved, projMade, objMade, runObjects>>

MakeProject(i) ==
  /\ phase = "init" /\ orgMade
  /\ projMade' = projMade \cup {i} /\ phase' \in {phase, "stopped"}
  /\ UNCHANGED <<saved, orgMade, objMade, runObjects>>

MakeObject(i, x) ==
  /\ phase = "projects-ready" /\ runObjects /\ i \in projMade
  /\ objMade' = objMade \cup {<<i, x>>}
  /\ UNCHANGED <<phase, saved, orgMade, projMade, runObjects>>

Stop ==
  /\ phase \notin {"objects-created", "stopped"} /\ phase' = "stopped"
  /\ UNCHANGED <<saved, orgMade, projMade, objMade, runObjects>>

PhasesNext ==
  \/ Advance \/ Complete \/ MakeOrg \/ Stop
  \/ \E i \in Projects : MakeProject(i) \/ \E x \in Objects : MakeObject(i, x)

(* The run does not stall: it completes or stops. *)
PhasesSpec == PhasesInit /\ [][PhasesNext]_avars /\ WF_avars(PhasesNext)
=============================================================================
