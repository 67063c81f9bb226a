----------------------------- MODULE MCPerfRun ------------------------------
(* Model-checking instance of PerfRun: three projects with two Secrets   *)
(* and no ConfigMap each, so that a pool of two has two creates in flight *)
(* and a queued one to cancel, and the ConfigMap stage is skipped by its  *)
(* `if num_configmaps > 0` (MCLifecycle covers a zero Secret count).      *)
EXTENDS PerfRun

MCNumProjects   == 3
MCNumSecrets    == 2
MCNumConfigMaps == 0
(* PROJECT_CONCURRENCY 1 takes the sequential loop, 2 the pool.           *)
MCProjConcurrencyValues == {1, 2}
(* OBJECT_CONCURRENCY 0 makes ThreadPoolExecutor raise ValueError.        *)
MCObjConcurrencyValues  == {0, 1, 2}
=============================================================================
