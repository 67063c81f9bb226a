---------------------------- MODULE HelperChecks -----------------------------
(***************************************************************************)
(* The pure helpers of the repository checked against the contracts their *)
(* docstrings and the design state, over every input of a bounded set:   *)
(* slugify() of create_contacts_from_csv.py, retry_with_backoff(),         *)
(* measure_metrics() and build_scoped_kubeconfig() of perf_run.py.  The   *)
(* state is one input of one helper (`which` says of which); it never    *)
(* changes.                                                                *)
(***************************************************************************)
EXTENDS MetricsQuery, Kubeconfig, RetryExecutor

CONSTANTS
  MaxLen,       \* longest string given to slugify
  CallAnswers,  \* what a call wrapped by retry_with_backoff may answer
  AnswerRuns,   \* what the backend may answer the six GETs of one query
  BaseConfigs,  \* the base kubeconfigs given to build_scoped_kubeconfig
  ScopePath,    \* the scope path appended to the server
  NewName       \* the new cluster and context name

VARIABLES which, slug, calls, table, base

helperVars == <<which, slug, calls, table, base>>

Tables == [1..Len(Variants) -> [MetricKeys -> AnswerRuns]]

(* The values the variables of the helpers not under check keep. *)
NoTable == [v \in 1..Len(Variants) |-> [m \in MetricKeys |-> CHOOSE a \in AnswerRuns : TRUE]]
NoBase  == CHOOSE b \in BaseConfigs : TRUE
NoCalls == [j \in 1..MaxRetryAttempts |-> CHOOSE a \in CallAnswers : TRUE]

HelperInit ==
  \/ /\ which = "slug" /\ slug \in SeqOf(Chars, MaxLen)
     /\ calls = NoCalls /\ table = NoTable /\ base = NoBase
  \/ /\ which = "retry" /\ calls \in [1..MaxRetryAttempts -> CallAnswers]
     /\ slug = <<>> /\ table = NoTable /\ base = NoBase
  \/ /\ which = "metrics" /\ table \in Tables
     /\ slug = <<>> /\ calls = NoCalls /\ base = NoBase
  \/ /\ which = "kubeconfig" /\ base \in BaseConfigs
     /\ slug = <<>> /\ calls = NoCalls /\ table = NoTable

HelperSpec == HelperInit /\ [][UNCHANGED helperVars]_helperVars

-----------------------------------------------------------------------------
(* slugify() ("lowercase, trim, replace non-alphanumeric with '-',         *)
(* collapse repeats, strip '-'") returns the docstring's slug for every    *)
(* input: the order of strip, lower and the two substitutions loses no     *)
(* character and leaves no stray hyphen.                                   *)
SlugifyMatchesDocstring == which = "slug" => Slugify(slug) = SlugReference(slug)

(* Spec 4.2 and 8, read as a definition: the calls go on while they fail   *)
(* with a retryable error, at most six of them; the delays between them   *)
(* are 1, 2, 4, 8, 16, ... capped at 16; the caller gets the last answer   *)
(* unchanged.                                                              *)
SpecRetry(a) ==
  LET stops == {j \in 1..MaxRetryAttempts :
                  a[j].kind # "api" \/ ~ShouldRetryApiException(a[j])}
      n     == IF stops = {} THEN MaxRetryAttempts ELSE Min(stops)
  IN  Outcome(a[n], n, [i \in 1..n - 1 |-> IF 2^(i - 1) < 16 THEN 2^(i - 1) ELSE 16])

(* retry_with_backoff makes the calls, sleeps the delays and hands back   *)
(* the answer that spec 4.2 and 8 describe, for every run of answers: the *)
(* attempt bound, the doubling with its cap, the classification and the   *)
(* re-raise together.                                                      *)
RetryAsSpecified == which = "retry" => RetryWithBackoff(calls) = SpecRetry(calls)

(* Spec 4.5 and 6, read as a definition for a query that gets an answer  *)
(* within six attempts: the value of the first answer that is not a      *)
(* transport failure, when it is a success with a non-empty result, and  *)
(* 0.0 for any other failure of the query.                                *)
SpecQueryValue(answers) ==
  LET a == answers[Min({j \in 1..HttpAttempts : answers[j].transport = "ok"})]
  IN  IF a.status = "success" /\ a.result # <<>> THEN a.result[1] ELSE 0

(* Spec 8: the snapshot of the first combination that yields any non-zero *)
(* metric, all zeros only if every combination yields all zeros.          *)
SpecSnapshot(t) ==
  LET R(v) == [m \in MetricKeys |-> SpecQueryValue(t[v][m])]
      nonZero == {v \in 1..Len(Variants) : \E m \in MetricKeys : R(v)[m] # 0}
  IN  IF nonZero = {} THEN Zeros ELSE R(Min(nonZero))

(* Every query of every combination gets an answer within six attempts;  *)
(* spec 4.5 and 7(f) make the other case, transport exhaustion, fatal.   *)
Reachable(t) ==
  \A v \in DOMAIN t, m \in MetricKeys :
    \E j \in 1..HttpAttempts : t[v][m][j].transport = "ok"

(* When the backend answers every query, measure_metrics returns the      *)
(* snapshot spec 4.5 and 8 describe: http_get_json's six attempts,        *)
(* prom_query's failed and empty answers degrading to 0.0, and the        *)
(* variant fallback to the first combination with a non-zero metric.      *)
MetricsSnapshotAsSpecified ==
  which = "metrics" /\ Reachable(table) =>
    MeasureMetrics(table) = Returned(SpecSnapshot(table))

(* The backend is unreachable: every GET of every query fails. *)
Unreachable(t) ==
  \A v \in DOMAIN t, m \in MetricKeys, j \in 1..HttpAttempts : t[v][m][j].transport = "err"

(* Spec 4.5 and 7(f): a transport-level exhaustion after six attempts is  *)
(* fatal and propagates out of the Collector when the backend is          *)
(* unreachable.                                                            *)
MeasureFailsWhenUnreachable ==
  which = "metrics" /\ Unreachable(table) => MeasureMetrics(table).raised

(* The server URL a scope path is appended to: "/" stripped at its end. *)
Scoped(server) == RStrip(server, {"/"}) \o ScopePath

(* Spec 4.1: a client built from the derived kubeconfig can talk to the   *)
(* base kubeconfig's current server with the scope path appended, one "/" *)
(* between them: the renamed current-context, contexts and clusters still *)
(* lead from one to the other.                                             *)
ScopedConfigTargetsScope ==
  which = "kubeconfig" =>
    \A s \in ResolvedServers(base) :
      Scoped(s) \in ResolvedServers(BuildScopedKubeconfig(base, ScopePath, NewName))
=============================================================================
