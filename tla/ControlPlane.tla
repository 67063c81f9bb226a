---------------------------- MODULE ControlPlane ----------------------------
(***************************************************************************)
(* The remote world the perf orchestrator (perf_run.py) talks to: the Milo *)
(* API server with its Organizations and Projects, each project's control  *)
(* plane with its Secrets and ConfigMaps, and the "perf-results" ConfigMap *)
(* that holds the run's checkpoint.  This module is the environment, not   *)
(* code of the repository: it fixes what a create, get or delete may      *)
(* answer, and it injects remote faults under a budget.                    *)
(*                                                                         *)
(* A resource is either Absent or present, and a present resource is       *)
(* represented by the test-id label it carries (RunTid for the run under   *)
(* study, PrevTid for leftovers of an earlier run that was never cleaned   *)
(* up).  Names are implied by position: project i of organization o is     *)
(* "{o}-p-{i:03d}", object <<k, n>> is "perf-{k}-{n:03d}".                 *)
(***************************************************************************)
EXTENDS Naturals, FiniteSets

CONSTANTS
  OrgName,        \* the organization name the run uses
  PrevOrg,        \* the organization of an earlier, uncleaned run
  RunTid,         \* test id of the run under study
  PrevTid,        \* test id of the earlier run
  Absent,         \* model value: the resource does not exist
  NoPhase,        \* model value: the record has no "phase" key
  NumProjects,    \* NUM_PROJECTS
  NumSecrets,     \* NUM_SECRETS_PER_PROJECT
  NumConfigMaps,  \* NUM_CONFIGMAPS_PER_PROJECT
  MaxFaults,      \* bound on remote faults injected into one behaviour
  Leftovers       \* may resources of PrevTid exist initially?

ASSUME NumProjects \in Nat \ {0} /\ NumSecrets \in Nat /\ NumConfigMaps \in Nat
ASSUME MaxFaults \in Nat /\ Leftovers \in BOOLEAN

VARIABLES
  org,      \* org[o]       : Absent or the label of organization o
  proj,     \* proj[o][i]   : Absent or the label of project i of o
  ready,    \* ready[o][i]  : the project's Ready condition is True
  deleting, \* resources whose deletion was accepted, awaiting finalizers
  obj,      \* obj[o][i][x] : Absent or the label of object x in project i
  record,   \* the perf-results ConfigMap: Absent or [tid, phase]
  faults    \* remote faults injected so far

world == <<org, proj, ready, deleting, obj, record, faults>>

Orgs     == {OrgName, PrevOrg}
Tids     == {RunTid, PrevTid}
ProjIdx  == 1..NumProjects
Kinds    == {"secret", "configmap"}
Count(k) == IF k = "secret" THEN NumSecrets ELSE NumConfigMaps
Names    == UNION {{k} \X (1..Count(k)) : k \in Kinds}
Phases   == {"init", "org-created", "projects-ready"}
Records  == [tid : Tids, phase : Phases \cup {NoPhase}]
Deletable == {<<"org", o>> : o \in Orgs} \cup {<<"project", o, i>> : o \in Orgs, i \in ProjIdx}

WorldTypeOK ==
  /\ org    \in [Orgs -> Tids \cup {Absent}]
  /\ proj   \in [Orgs -> [ProjIdx -> Tids \cup {Absent}]]
  /\ ready  \in [Orgs -> [ProjIdx -> BOOLEAN]]
  /\ deleting \subseteq Deletable
  /\ obj    \in [Orgs -> [ProjIdx -> [Names -> Tids \cup {Absent}]]]
  /\ record \in Records \cup {Absent}
  /\ faults \in 0..MaxFaults

(* What an uncleaned earlier run may have left behind: its organization,  *)
(* some of its projects (Ready or not) and objects inside them, and its   *)
(* checkpoint record.                                                     *)
LeftoverWorlds ==
  { [org   |-> [o \in Orgs |-> IF o = PrevOrg THEN po ELSE Absent],
     proj  |-> [o \in Orgs |-> IF o = PrevOrg THEN pp ELSE [i \in ProjIdx |-> Absent]],
     ready |-> [o \in Orgs |-> IF o = PrevOrg THEN pr ELSE [i \in ProjIdx |-> FALSE]],
     obj   |-> [o \in Orgs |-> IF o = PrevOrg THEN px
                                ELSE [i \in ProjIdx |-> [x \in Names |-> Absent]]]] :
      po \in {Absent, PrevTid},
      pp \in [ProjIdx -> {Absent, PrevTid}],
      pr \in [ProjIdx -> BOOLEAN],
      px \in [ProjIdx -> [Names -> {Absent, PrevTid}]] }

EmptyWorld ==
  [org |-> [o \in Orgs |-> Absent],
   proj |-> [o \in Orgs |-> [i \in ProjIdx |-> Absent]],
   ready |-> [o \in Orgs |-> [i \in ProjIdx |-> FALSE]],
   obj |-> [o \in Orgs |-> [i \in ProjIdx |-> [x \in Names |-> Absent]]]]

WorldInit ==
  /\ \E w \in IF Leftovers THEN LeftoverWorlds ELSE {EmptyWorld} :
       /\ \A i \in ProjIdx :
            /\ w.proj[PrevOrg][i] # Absent => w.org[PrevOrg] # Absent
            /\ w.ready[PrevOrg][i] => w.proj[PrevOrg][i] # Absent
       /\ \A i \in ProjIdx, x \in Names :
            w.obj[PrevOrg][i][x] # Absent => w.ready[PrevOrg][i]
       /\ org = w.org /\ proj = w.proj /\ ready = w.ready /\ obj = w.obj
  /\ record \in IF Leftovers THEN [tid : {PrevTid}, phase : Phases] ELSE {Absent}
  /\ deleting = {}
  /\ faults = 0

(* The answers a create of a resource currently `cur` may get when the    *)
(* caller labels it `tid`.  "conflict" is HTTP 409; "retryable" stands    *)
(* for 429, 500 and the webhook/EOF bodies; "fatal" for any other error.  *)
(* A faulted create may still have been committed by the server.          *)
CreateResults(cur, tid) ==
  IF cur = Absent
  THEN {[resp |-> "ok", val |-> tid, fault |-> 0]}
       \cup {[resp |-> e, val |-> v, fault |-> 1] :
               e \in {"retryable", "fatal"}, v \in {Absent, tid}}
  ELSE {[resp |-> "conflict", val |-> cur, fault |-> 0]}
       \cup {[resp |-> e, val |-> cur, fault |-> 1] :
               e \in {"retryable", "fatal"}}

(* A remote call may fail only while the fault budget lasts. *)
Affordable(r) == faults + r.fault <= MaxFaults

(* Resources of every kind that carry label t. *)
LabelledBy(t) ==
  {<<"org", o>> : o \in {o \in Orgs : org[o] = t}}
  \cup {<<"project", o, i>> : <<o, i>> \in {<<o, i>> \in Orgs \X ProjIdx : proj[o][i] = t}}
  \cup {<<"object", o, i, x>> :
          <<o, i, x>> \in {<<o, i, x>> \in Orgs \X ProjIdx \X Names : obj[o][i][x] = t}}

(* The control plane eventually reports a created project Ready. *)
BecomeReady ==
  \E o \in Orgs, i \in ProjIdx :
    /\ proj[o][i] # Absent /\ ~ready[o][i]
    /\ ready' = [ready EXCEPT ![o][i] = TRUE]
    /\ UNCHANGED <<org, proj, deleting, obj, record, faults>>

(* Remove project i of o with everything in its control plane. *)
RemoveProject(o, i) ==
  /\ proj' = [proj EXCEPT ![o][i] = Absent]
  /\ ready' = [ready EXCEPT ![o][i] = FALSE]
  /\ obj' = [obj EXCEPT ![o][i] = [x \in Names |-> Absent]]

(* The garbage collector finishes a deletion: a Project goes with its      *)
(* control plane; an Organization only once none of its Projects is left.  *)
Finalize ==
  \E r \in deleting :
    /\ deleting' = deleting \ {r}
    /\ IF r[1] = "project"
       THEN RemoveProject(r[2], r[3]) /\ UNCHANGED org
       ELSE /\ \A i \in ProjIdx : proj[r[2]][i] = Absent
            /\ org' = [org EXCEPT ![r[2]] = Absent]
            /\ UNCHANGED <<proj, ready, obj>>
    /\ UNCHANGED <<record, faults>>
=============================================================================
