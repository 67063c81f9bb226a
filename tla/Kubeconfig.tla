----------------------------- MODULE Kubeconfig ------------------------------
(***************************************************************************)
(* build_scoped_kubeconfig of perf_run.py, the Scoped Credential Deriver.  *)
(* A kubeconfig is a record of its clusters (name, server), its contexts  *)
(* (name, cluster) and its current context, "" standing for a key that is *)
(* missing or empty.  A server URL is a sequence of characters of which   *)
(* only "/" matters here.  The deep copy through safe_dump / safe_load is *)
(* the value semantics of TLA+: the base is never changed.                *)
(***************************************************************************)
EXTENDS ContactNames

(* Seeded fault: the server taken as it is, trailing "/" kept. *)
BuildScopedKubeconfigNoRstrip(base, scopePath, newName) ==
  [clusters |-> [j \in DOMAIN base.clusters |->
                   [name |-> newName, server |-> base.clusters[j].server \o scopePath]],
   contexts |-> [j \in DOMAIN base.contexts |-> [name |-> newName, cluster |-> newName]],
   current  |-> IF base.current # "" THEN newName ELSE base.current]

(* Every cluster gets the new name and its server, "/" stripped from the  *)
(* right, suffixed by the scope path; every context gets the new name and *)
(* points at the new cluster name; a current-context is replaced.         *)
BuildScopedKubeconfig(base, scopePath, newName) ==
  [clusters |-> [j \in DOMAIN base.clusters |->
                   [name |-> newName,
                    server |-> RStrip(base.clusters[j].server, {"/"}) \o scopePath]],
   contexts |-> [j \in DOMAIN base.contexts |-> [name |-> newName, cluster |-> newName]],
   current  |-> IF base.current # "" THEN newName ELSE base.current]

(* The server a client built from cfg talks to: the cluster named by the  *)
(* context named current-context, when exactly one of each matches.       *)
ResolvedServers(cfg) ==
  LET ctxs == {j \in DOMAIN cfg.contexts : cfg.contexts[j].name = cfg.current}
      cls(c) == {j \in DOMAIN cfg.clusters : cfg.clusters[j].name = c}
  IN  {cfg.clusters[j].server : j \in UNION {cls(cfg.contexts[i].cluster) : i \in ctxs}}
=============================================================================
