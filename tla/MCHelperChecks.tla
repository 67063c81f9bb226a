--------------------------- MODULE MCHelperChecks ----------------------------
(* Inputs of the helper checks.  Two of the four metric keys: run_queries  *)
(* treats every key alike.  Five answer runs per query: a value at once, a *)
(* value at the sixth and last attempt, an empty result, a "status":       *)
(* "error" body, and a backend that never answers.                         *)
EXTENDS HelperChecks

MCScopePath == <<"/", "o">>

(* A call answers a value, a 500, a 409, a 403 whose body says a webhook  *)
(* call failed, a plain 403, or an exception other than ApiException.      *)
MCCallAnswers ==
  {[kind |-> "ok"], [kind |-> "other"]} \cup
  {[kind |-> "api", status |-> st, body |-> b] :
     <<st, b>> \in {<<500, "">>, <<409, "">>, <<403, "failed calling webhook">>, <<403, "">>}}

MCMetricKeys == {"apiserver_cpu_cores", "etcd_cpu_cores"}

Err == [transport |-> "err"]
Body(st, res) == [transport |-> "ok", status |-> st, result |-> res]
Then(first, rest) == <<first>> \o [j \in 1..HttpAttempts - 1 |-> rest]

MCAnswerRuns ==
  { Then(Body("success", <<1>>), Err),
    [j \in 1..HttpAttempts |-> IF j < HttpAttempts THEN Err ELSE Body("success", <<1>>)],
    Then(Body("success", <<>>), Err),
    Then(Body("error", <<>>), Err),
    [j \in 1..HttpAttempts |-> Err] }

(* Kubeconfigs of one or two clusters c1, c2 (servers "h", "h/", or none), *)
(* up to two contexts k1, k2, and a current-context or none.               *)
MCServers == {<<"h">>, <<"h", "/">>, <<>>}
MCClusters == [name : {"c1", "c2"}, server : MCServers]
MCContexts == [name : {"k1", "k2"}, cluster : {"c1", "c2"}]
MCBaseConfigs ==
  [clusters : SeqOf(MCClusters, 2) \ {<<>>}, contexts : SeqOf(MCContexts, 2),
   current : {"", "k1", "k2"}]
=============================================================================
