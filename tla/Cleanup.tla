------------------------------ MODULE Cleanup -------------------------------
(***************************************************************************)
(* The "cleanup" mode of perf_run.py main(): cleanup_resources(test_id,    *)
(* org_name) followed by the deletion of the perf-results record.          *)
(*                                                                         *)
(* cleanup_resources lists the Projects labelled with the test id; for     *)
(* each, in list order, it lists and deletes the labelled Secrets, then    *)
(* the labelled ConfigMaps (every ApiException of that part is swallowed,  *)
(* and a non-404 delete error ends the kind's loop), then deletes the      *)
(* Project (404/409 tolerated, other errors raised); last it deletes the   *)
(* Organization by name (404/409 tolerated).                               *)
(*                                                                         *)
(* Server semantics assumed for deletes (ControlPlane): an absent resource *)
(* answers 404; Secrets, ConfigMaps and the record go at once; a Project   *)
(* or Organization delete is accepted and finalized later (Finalize); any  *)
(* delete may also fail (409 or another error) while the fault budget      *)
(* lasts.                                                                  *)
(***************************************************************************)
EXTENDS ControlPlane, SequencesExt

CONSTANTS
  CleanTid,   \* TEST_ID given to cleanup mode
  CleanOrg    \* ORG_NAME given to cleanup mode

VARIABLES
  cpc,        \* where cleanup mode is
  cfailure,   \* the exception that ended cleanup mode, "none" if none
  plist,      \* the Projects listed by label, not yet handled
  olist,      \* the objects of the current kind listed, not yet deleted
  ckind,      \* the kind of object being deleted in the current project
  skipped     \* objects whose loop was ended by another object's error

cleanup == <<cpc, cfailure, plist, olist, ckind, skipped>>

CleanupStates == {"idle", "listProjects", "listObjects", "deleteObjects",
                  "deleteProject", "deleteOrg", "deleteRecord",
                  "cleaned", "cleanFailed", "cleanKilled"}

CleanupTypeOK ==
  /\ cpc \in CleanupStates
  /\ cfailure \in {"none", "list", "deleteProject", "deleteOrg", "deleteRecord"}
  /\ plist \in Seq(Orgs \X ProjIdx)
  /\ olist \in Seq(Names)
  /\ ckind \in Kinds
  /\ skipped \subseteq Orgs \X ProjIdx \X Names

CleanupInit ==
  /\ cpc = "idle" /\ cfailure = "none"
  /\ plist = <<>> /\ olist = <<>> /\ ckind = "secret" /\ skipped = {}

(* A sequence of the elements of a finite set of tuples, in the order     *)
(* the API server lists names (the zero-padded index makes it the index). *)
SortedSeq(S) ==
  LET RECURSIVE Build(_)
      Build(T) == IF T = {} THEN <<>>
                  ELSE LET m == CHOOSE t \in T : \A u \in T : t[2] <= u[2]
                       IN  <<m>> \o Build(T \ {m})
  IN  Build(S)

(* Project whose objects are being handled. *)
CurProj == Head(plist)

(* Seeded fault: main() removes the record before cleanup_resources. *)
ListProjectsRecordFirst ==
  /\ cpc = "listProjects" /\ record' = Absent
  /\ \/ /\ plist' = SortedSeq({p \in Orgs \X ProjIdx : proj[p[1]][p[2]] = CleanTid})
        /\ cpc' = IF plist' = <<>> THEN "deleteOrg" ELSE "listObjects"
        /\ ckind' = "secret" /\ UNCHANGED <<faults, cfailure>>
     \/ /\ faults < MaxFaults /\ faults' = faults + 1
        /\ cpc' = "cleanFailed" /\ cfailure' = "list"
        /\ UNCHANGED <<plist, ckind>>
  /\ UNCHANGED <<org, proj, ready, deleting, obj, olist, skipped>>

(* list_cluster_custom_object(projects, label_selector=test-id): not      *)
(* guarded, so an error ends cleanup mode.                                 *)
ListProjects ==
  /\ cpc = "listProjects"
  /\ \/ /\ plist' = SortedSeq({p \in Orgs \X ProjIdx : proj[p[1]][p[2]] = CleanTid})
        /\ cpc' = IF plist' = <<>> THEN "deleteOrg" ELSE "listObjects"
        /\ ckind' = "secret" /\ UNCHANGED <<faults, cfailure>>
     \/ /\ faults < MaxFaults /\ faults' = faults + 1
        /\ cpc' = "cleanFailed" /\ cfailure' = "list"
        /\ UNCHANGED <<plist, ckind>>
  /\ UNCHANGED <<org, proj, ready, deleting, obj, record, olist, skipped>>

(* list_namespaced_secret / list_namespaced_config_map by label in the    *)
(* project's control plane; an ApiException skips the kind.               *)
ListObjects ==
  LET o == CurProj[1]
      i == CurProj[2]
  IN
  /\ cpc = "listObjects" /\ cpc' = "deleteObjects"
  /\ \/ /\ olist' = SortedSeq({x \in Names : x[1] = ckind /\ obj[o][i][x] = CleanTid})
        /\ UNCHANGED faults
     \/ /\ faults < MaxFaults /\ faults' = faults + 1 /\ olist' = <<>>
  /\ UNCHANGED <<org, proj, ready, deleting, obj, record, cfailure, plist, ckind, skipped>>

(* One delete of the kind's loop: 404 is ignored, any other error is      *)
(* re-raised, leaves the loop and is swallowed by the kind's `except`.    *)
(* With the loop over, the ConfigMaps follow the Secrets, and the Project *)
(* delete follows the ConfigMaps.                                          *)
DeleteObject ==
  LET o == CurProj[1]
      i == CurProj[2]
  IN
  /\ cpc = "deleteObjects"
  /\ \/ /\ olist # <<>>
        /\ LET x == Head(olist) IN
           \/ /\ obj' = [obj EXCEPT ![o][i][x] = Absent]
              /\ olist' = Tail(olist) /\ UNCHANGED <<faults, skipped>>
           \/ /\ faults < MaxFaults /\ faults' = faults + 1 /\ olist' = <<>>
              /\ skipped' = skipped \cup {<<o, i, y>> : y \in ToSet(Tail(olist))}
              /\ UNCHANGED obj
        /\ UNCHANGED <<cpc, ckind>>
     \/ /\ olist = <<>>
        /\ IF ckind = "secret"
           THEN ckind' = "configmap" /\ cpc' = "listObjects"
           ELSE cpc' = "deleteProject" /\ UNCHANGED ckind
        /\ UNCHANGED <<obj, faults, olist, skipped>>
  /\ UNCHANGED <<org, proj, ready, deleting, record, cfailure, plist>>

(* Seeded fault: after the delete is accepted, cleanup waits for the      *)
(* Project to be gone before it moves on.                                  *)
DeleteProjectAwaitGone ==
  LET o == CurProj[1]
      i == CurProj[2]
  IN
  /\ cpc = "deleteProject"
  /\ \/ /\ proj[o][i] = Absent
        /\ cpc' = IF Len(plist) = 1 THEN "deleteOrg" ELSE "listObjects"
        /\ plist' = Tail(plist) /\ ckind' = "secret" /\ UNCHANGED deleting
     \/ /\ proj[o][i] # Absent
        /\ deleting' = deleting \cup {<<"project", o, i>>}
        /\ UNCHANGED <<cpc, plist, ckind>>
  /\ UNCHANGED <<org, proj, ready, obj, record, faults, cfailure, olist, skipped>>

(* Seeded fault: a 404 on a Project delete is taken for "already cleaned" *)
(* and ends the loop over the listed Projects.                           *)
DeleteProject404EndsLoop ==
  LET o == CurProj[1]
      i == CurProj[2]
      next == IF Len(plist) = 1 THEN "deleteOrg" ELSE "listObjects"
  IN
  /\ cpc = "deleteProject"
  /\ \/ /\ proj[o][i] = Absent /\ UNCHANGED <<deleting, faults>>
        /\ cpc' = "deleteOrg" /\ UNCHANGED cfailure
     \/ /\ proj[o][i] # Absent /\ UNCHANGED faults
        /\ deleting' = deleting \cup {<<"project", o, i>>}
        /\ cpc' = next /\ UNCHANGED cfailure
     \/ /\ faults < MaxFaults /\ faults' = faults + 1 /\ UNCHANGED deleting
        /\ \/ cpc' = next /\ UNCHANGED cfailure
           \/ cpc' = "cleanFailed" /\ cfailure' = "deleteProject"
  /\ plist' = Tail(plist) /\ ckind' = "secret"
  /\ UNCHANGED <<org, proj, ready, obj, record, olist, skipped>>

(* delete_cluster_custom_object(projects, name) through the               *)
(* organization-scoped client: 404 and 409 are tolerated, another error   *)
(* ends cleanup mode.  An accepted delete only starts the deletion.       *)
DeleteProject ==
  LET o == CurProj[1]
      i == CurProj[2]
      next == IF Len(plist) = 1 THEN "deleteOrg" ELSE "listObjects"
  IN
  /\ cpc = "deleteProject"
  /\ \/ /\ proj[o][i] = Absent /\ UNCHANGED <<deleting, faults>>
        /\ cpc' = next /\ UNCHANGED cfailure
     \/ /\ proj[o][i] # Absent /\ UNCHANGED faults
        /\ deleting' = deleting \cup {<<"project", o, i>>}
        /\ cpc' = next /\ UNCHANGED cfailure
     \/ /\ faults < MaxFaults /\ faults' = faults + 1 /\ UNCHANGED deleting
        /\ \/ cpc' = next /\ UNCHANGED cfailure
           \/ cpc' = "cleanFailed" /\ cfailure' = "deleteProject"
  /\ plist' = Tail(plist) /\ ckind' = "secret"
  /\ UNCHANGED <<org, proj, ready, obj, record, olist, skipped>>

(* delete_cluster_custom_object(organizations, org_name) through the base *)
(* client: 404 and 409 tolerated.  While Projects of the organization     *)
(* still exist (terminating ones included) the server may refuse with 409 *)
(* or accept and finalize the organization after them.                    *)
DeleteOrg ==
  LET hasProjects == \E i \in ProjIdx : proj[CleanOrg][i] # Absent IN
  /\ cpc = "deleteOrg"
  /\ \/ /\ org[CleanOrg] = Absent /\ UNCHANGED <<deleting, faults>>
        /\ cpc' = "deleteRecord" /\ UNCHANGED cfailure
     \/ /\ org[CleanOrg] # Absent /\ UNCHANGED faults
        /\ deleting' = deleting \cup {<<"org", CleanOrg>>}
        /\ cpc' = "deleteRecord" /\ UNCHANGED cfailure
     \/ /\ org[CleanOrg] # Absent /\ hasProjects
        /\ UNCHANGED <<deleting, faults>>
        /\ cpc' = "deleteRecord" /\ UNCHANGED cfailure
     \/ /\ faults < MaxFaults /\ faults' = faults + 1 /\ UNCHANGED deleting
        /\ \/ cpc' = "deleteRecord" /\ UNCHANGED cfailure
           \/ cpc' = "cleanFailed" /\ cfailure' = "deleteOrg"
  /\ UNCHANGED <<org, proj, ready, obj, record, plist, olist, ckind, skipped>>

(* main(): delete_namespaced_config_map("perf-results") after            *)
(* cleanup_resources returned, whatever test id the record names; 404     *)
(* tolerated, another error raised.                                       *)
DeleteRecord ==
  /\ cpc = "deleteRecord"
  /\ \/ /\ record' = Absent /\ UNCHANGED faults
        /\ cpc' = "cleaned" /\ UNCHANGED cfailure
     \/ /\ faults < MaxFaults /\ faults' = faults + 1
        /\ cpc' = "cleanFailed" /\ cfailure' = "deleteRecord"
        /\ UNCHANGED record
  /\ UNCHANGED <<org, proj, ready, deleting, obj, plist, olist, ckind, skipped>>

(* The pod running cleanup mode is killed between two of its calls; what  *)
(* it already deleted stays deleted, the rest is left as it is.           *)
CleanupKilled ==
  /\ cpc \notin {"idle", "cleaned", "cleanFailed", "cleanKilled"}
  /\ cpc' = "cleanKilled"
  /\ UNCHANGED <<world, cfailure, plist, olist, ckind, skipped>>

CleanupStep ==
  \/ ListProjects \/ ListObjects \/ DeleteObject \/ DeleteProject
  \/ DeleteOrg \/ DeleteRecord
=============================================================================
