---------------------------- MODULE MetricsQuery -----------------------------
(***************************************************************************)
(* The Metrics Collector of perf_run.py: http_get_json, prom_query,        *)
(* run_queries and measure_metrics, as operators.  What the backend        *)
(* answers the GETs of one query is a sequence of answers, one per attempt *)
(* http_get_json would make; an answer is a transport failure (any         *)
(* exception of requests.get, raise_for_status or json(), 4xx included),   *)
(* or a body with a status and a result list that is empty or holds one    *)
(* value (a number, 0 or not).                                             *)
(*                                                                         *)
(* run_queries runs the queries of one variant on a pool of four threads   *)
(* that share nothing; the main thread stores each future's result under  *)
(* its own key in as_completed order, so the dict it returns does not     *)
(* depend on the order the threads finish in and is a function of the     *)
(* answers.  The pre-flight series counts (159-186) are logged and every  *)
(* exception of theirs is caught: they change no result.  Sleeps and the  *)
(* query strings are left out.                                             *)
(***************************************************************************)
EXTENDS Naturals, Sequences, SequencesExt

CONSTANT MetricKeys  \* the keys of run_queries' `queries` dict

(* `for attempt in range(6)` *)
HttpAttempts == 6

(* The four (pod_label, with_filter) combinations, tried in this order. *)
Variants == <<<<"pod", TRUE>>, <<"pod", FALSE>>, <<"pod_name", TRUE>>, <<"pod_name", FALSE>>>>

Answers ==
  [transport : {"err"}] \cup
  [transport : {"ok"}, status : {"success", "error"}, result : {<<>>, <<0>>, <<1>>}]

(* What a call returns: a value, or an exception. *)
Returned(v) == [raised |-> FALSE, value |-> v]
Raise       == [raised |-> TRUE, value |-> 0]

(* Seeded fault: `range(5)`, one attempt short. *)
HttpGetJsonFiveAttempts(answers) ==
  LET k == SelectInSeq(SubSeq(answers, 1, 5), LAMBDA a : a.transport = "ok")
  IN  IF k = 0 THEN Raise ELSE [raised |-> FALSE, value |-> answers[k]]

(* http_get_json: the first answer that is not a transport failure, or the *)
(* last failure raised once six attempts failed.                           *)
HttpGetJson(answers) ==
  LET k == SelectInSeq(SubSeq(answers, 1, HttpAttempts), LAMBDA a : a.transport = "ok")
  IN  IF k = 0 THEN Raise ELSE [raised |-> FALSE, value |-> answers[k]]

(* prom_query: a status other than "success" raises RuntimeError, an empty *)
(* result is 0.0, else the first series' value.                            *)
PromQuery(answers) ==
  LET got == HttpGetJson(answers) IN
  CASE got.raised                        -> Raise
    [] got.value.status # "success"      -> Raise
    [] got.value.result = <<>>           -> Returned(0)
    [] OTHER                             -> Returned(Head(got.value.result))

(* run_queries: every query of the variant; one that raised is 0.0. *)
RunQueries(answersOf) ==
  [m \in MetricKeys |-> LET r == PromQuery(answersOf[m]) IN
                          IF r.raised THEN 0 ELSE r.value]

Zeros == [m \in MetricKeys |-> 0]

(* measure_metrics' loop from variant v on: the first variant with any     *)
(* non-zero value is returned, and all zeros once every variant was tried. *)
RECURSIVE TryVariants(_, _)
TryVariants(table, v) ==
  IF v > Len(Variants) THEN Zeros
  ELSE LET results == RunQueries(table[v]) IN
       IF \E m \in MetricKeys : results[m] # 0 THEN results
       ELSE TryVariants(table, v + 1)

(* measure_metrics(table): table[v][m] is what the backend answers query m *)
(* of variant v.  Nothing in it raises.                                    *)
MeasureMetrics(table) == Returned(TryVariants(table, 1))
=============================================================================
