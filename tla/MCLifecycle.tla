---------------------------- MODULE MCLifecycle -----------------------------
(* Model-checking instance of Lifecycle: two projects with no Secret and *)
(* one ConfigMap each (NUM_SECRETS_PER_PROJECT=0 skips the Secret pool),  *)
(* a project pool of two, and two cleanup runs.                            *)
EXTENDS Lifecycle

MCNumProjects   == 2
MCNumSecrets    == 0
MCNumConfigMaps == 1
MCProjConcurrencyValues == {2}
MCObjConcurrencyValues  == {1}
=============================================================================
