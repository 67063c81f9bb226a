# TLA+ models of the milo performance-test orchestrator and the contacts CSV converter

This directory holds TLA+ models of the repository's two programs. TLC
configurations check them.

- `src/test/performance/scripts/perf_run.py` is the performance-test
  orchestrator.
  - It provisions a tree of Milo resources: one Organization, N Projects, and
    Secrets and ConfigMaps in every Project.
  - It measures the control plane through Prometheus.
  - It checkpoints its progress in the ConfigMap `perf-results`.
  - In `RUN_MODE=cleanup`, it deletes everything that a test id created.
- `src/docs/migrations/001-contacts-from-csv/create_contacts_from_csv.py` is a
  converter. It turns a CSV of contacts into Contact and ContactGroupMembership
  manifests, printed as a YAML stream and written to two files.

## 1. Inventory of the system

| Part | Code | State it touches | Operations |
|---|---|---|---|
| Retry Executor | `should_retry_api_exception` 50-63, `retry_with_backoff` 66-77 | attempt counter, delay | classify an error; make at most 6 attempts with delays 1,2,4,8,16; re-raise unchanged |
| Readiness Poller | `find_condition` 236-242, `wait_condition_ready` 245-276 | poll count, deadline | GET, check `Ready`, sleep 2 s, time out |
| Scoped Credential Deriver | `build_scoped_kubeconfig` 279-292 | none (pure) | rename every cluster and context; point the server at the org or project control plane |
| Tree Provisioner | `create_org_and_projects` 303-401, `create_objects_in_projects` 404-464 | Organizations, Projects and objects on the server; two thread pools | create the org and projects (retried, 409 tolerated), wait until Ready, fan out object creates |
| Metrics Collector | `http_get_json` 118-132, `prom_query` 135-153, `measure_metrics` 156-233 | none kept | 4 parallel PromQL queries, label-variant fallback |
| Checkpoint Store | `save_results_configmap` 80-100, `save_checkpoint` 103-115 | the ConfigMap `perf-results` | read, then replace or create |
| Orchestrator | `main` 758-899 | process position, phase | run: init checkpoint, baseline, provision, checkpoints, objects, results. cleanup: `cleanup_resources`, then delete the record |
| Cleanup Engine | `cleanup_resources` 679-756 | every labelled resource | list projects by label; in each project delete Secrets, then ConfigMaps, then the Project; then delete the Organization |
| Report | `generate_report_html` 467-676 | none | formatting only |
| CSV converter | `create_contacts_from_csv.py` 21-229 | the output stream and two files | read and strip rows, build a Contact per address and a membership per Newsletter row, print, write |

How the parts of `perf_run.py` interact:
- The orchestrator drives everything from one main thread.
- Its only concurrency is in the provisioner and the metrics queries.
  - A pool of `PROJECT_CONCURRENCY` threads runs `work_project`.
  - Each of those threads opens its own pool of `OBJECT_CONCURRENCY` threads,
    one pool for the Secrets and then one for the ConfigMaps.
  - `run_queries` runs its four queries on a pool of four.
- The other actors are outside the process:
  - the Milo control plane, which answers, fails, commits before failing, and
    finalizes deletions later;
  - the operator, who runs cleanup mode after the run;
  - the kill of the pod, which can happen at any point.
- The checkpoint record is the only state that a run hands to a later cleanup.

The models reach these behaviours:
- a create that commits on the server and then fails, so that its retry gets 409;
- a crash between any two remote calls;
- `ex.map` awaiting results in order: on an error it cancels the queued tasks,
  and the `with` block waits for the running ones;
- a project pool in which some projects keep going after another one has failed;
- `OBJECT_CONCURRENCY = 0`;
- deletions that are only accepted and finish later, through finalizers;
- cleanup run twice, and a cleanup pod killed between two deletes and run
  again;
- a second run given the organization name of an uncleaned first run;
- a metrics backend that fails, answers empty results, or never answers.

## 2. Modules

| Module | Models | Built on |
|---|---|---|
| `ControlPlane` | The server as the program sees it: Organizations and Projects with their test-id label, Project readiness, objects per project, the `perf-results` record, deletions awaiting finalization, and a budget `MaxFaults` of injected remote errors. `CreateResults` lists the answers a create can get, including "failed but committed". `Finalize` is the garbage collector. | - |
| `PerfRun` | Run mode of `main`, together with the provisioner, the readiness poller, the retry loop (one step per attempt of a create) and the checkpoint store. `pc` is the main thread's position, `ptask` holds each project task's state, and `otask` each object task's state in the current stage. | ControlPlane |
| `TestRunPhases` | The abstract specification: the design's TestRun (spec §3, §4.6, §5), with phases entered in order and persisted as they are entered, creates in their phase, and a stop at any point. | - |
| `Cleanup` | Cleanup mode: `cleanup_resources` and the record deletion. `plist` and `olist` are the listed names still to handle; `skipped` holds objects that a loop abandoned. | ControlPlane |
| `Lifecycle` | A run followed by up to `MaxCleanups` cleanup runs for its test id, with the garbage collector acting throughout. | PerfRun, Cleanup |
| `RetryExecutor` | `should_retry_api_exception` and `retry_with_backoff` as operators over what each call answers. | - |
| `MetricsQuery` | `http_get_json`, `prom_query`, `run_queries` and `measure_metrics` as operators over what the backend answers each GET. | - |
| `Kubeconfig` | `build_scoped_kubeconfig` as an operator on kubeconfig records. | ContactNames (for `RStrip`) |
| `ContactNames` | The converter's string helpers: `strip`, `lower`, `slugify`, the address normalization, `parse_bool_newsletter`. | - |
| `ContactsCsv` | `main` and `process_csv` of the converter as a state machine: read, one step per row, print, write each file. | ContactNames |
| `HelperChecks` | The pure helpers checked against their contracts. The state is one input of one helper. | RetryExecutor, MetricsQuery, Kubeconfig |
| `MCPerfRun`, `MCLifecycle`, `MCContactsCsv`, `MCHelperChecks` | Constants for TLC. | - |

### How the actions correspond to the code

Each action models a whole step of the code, including its remote calls.

`PerfRun`:
- `CheckpointInit`, `CheckpointOrgCreated` and `CheckpointProjectsReady` are
  lines 803, 815 and 824, each followed by what comes next in `main`.
- `CreateOrg` and `CreateProject` model `retry_with_backoff(create...)` with its
  409 handling. One action is one attempt, and `att` counts the attempts.
  `RetryVerdict` says whether to retry, raise or go on.
- `PollReady` models one iteration of `wait_condition_ready`, and `ReadyTimeout`
  its TimeoutError.
- The object phase:
  - `StartProject`: a worker thread of the project pool takes a task (or the
    sequential loop takes its next iteration).
  - `EnterStage`: one `with ThreadPoolExecutor` is entered. It raises
    ValueError when `OBJECT_CONCURRENCY < 1`, and is skipped when the count is 0.
  - `StartObject` and `FinishObject`: a pool thread runs one create.
  - `AwaitObject` and `ObjectPoolRaise`: `list(ex.map(...))` consumes one
    result, or raises after the pool has shut down.
  - `AwaitProject` and `ProjectPoolRaise`: the same for the project pool.
- `SaveResults` models lines 848-899. This final save is best-effort.
- `Crash` kills the process.

`Cleanup` has one action per remote call: list projects, list a kind, delete
one object, delete the project, delete the org, delete the record.
`CleanupKilled` kills the cleanup pod between two of them. The operator may then
run cleanup again (`StartCleanup` in `Lifecycle`).

`ContactsCsv` has these actions:
- `ReadCsv` is `read_csv`.
- `ProcessRow` is one iteration of `process_csv`'s loop, including the skip,
  the address cleaning and both `append`s.
- `PrintDocs` is lines 179-183.
- `WriteContacts` and `WriteMemberships` are lines 185-189.

### Data abstractions

- Names are indices, and labels are reduced to the test id.
- The metric values of `PerfRun` are not modelled: a measurement is a step.
  `MetricsQuery` models what a measurement returns.
- Time in the readiness wait is counted in polls, up to `Deadline`.
- Retry delays are values in `RetryExecutor`. In `PerfRun`, where nothing
  depends on them, they are left out.
- Strings of the converter are sequences over a nine-character alphabet:
  - lower-case letters and a digit;
  - their upper-case forms;
  - blank, comma, hyphen, and "any other character".
- The word "newsletter" is the one character `n`.
- SHA-1 prefixes are the constant operator `Digest`.
- A YAML stream is a sequence of documents and separators `Sep`.
- A PromQL answer is a transport failure, or a body with a status and an empty
  or one-value result. Values are 0 or 1 (any non-zero number).
- A kubeconfig is a record of clusters, contexts and the current context.
  Only the `/` of a server URL matters.

## 3. Runs

| Run | Kind | What it checks and shows |
|---|---|---|
| `perf_run` (MCPerfRun.cfg) | pass | See the first list below. |
| `perf_readiness_fetch` | violation | One failed readiness GET aborts the run, because line 258 is unguarded. Spec §4.3 requires the poller to tolerate it. |
| `perf_checkpoint_failure` | violation | A failed checkpoint write aborts the run, because 803/815/824 are not in a try. Spec §7(g) says it is a warning. |
| `perf_org_reuse` (MCPerfRun_orgreuse.cfg) | violation | `ObjectsFindableByLabel` (spec §3: every created resource carries the run's labels so that Cleanup can find it). The cfg starts a run with the `ORG_NAME` of an uncleaned earlier run (`OrgName = PrevOrg`, leftovers present). Each project create answers 409, and line 383 swallows it without looking at the project's labels. The run therefore creates its Secrets and ConfigMaps inside the earlier run's projects. `cleanup_resources` finds objects only through projects labelled with its own test id (695, 709/720), so its cleanup never reaches them. |
| `lifecycle` (MCLifecycle.cfg) | pass | See the second list below. |
| `lifecycle_orphan` | violation | With no fault at all, the org delete answers 409 while its projects are still terminating. The 409 is tolerated (754), the record is deleted (774), and "Cleanup complete" is printed while the Organization is still present and no record names it. |
| `lifecycle_object_skip` | violation | One failing Secret delete ends the Secret loop of that project (714-717), so later Secrets are not tried. Spec §4.7 says cleanup is best-effort per object. |
| `contacts_csv` (MCContactsCsv.cfg) | pass | See the third list below. |
| `contacts_dirty_email` | violation | The cell `,` passes the emptiness test (166) before it is cleaned, and `strip()` runs before `rstrip(',')` (170). The result is a Contact whose address is empty, or keeps a blank. |
| `contacts_digest_collision` | violation | `ApplyKeepsEveryone`. `AppliedUnder` models `kubectl apply`: the last document of each name wins. The injected `MCDigestCollision` makes two hashes collide. First, the addresses `a` and `n` share the 5-hex-digit SHA-1 prefix of line 36, so their Contacts get one `metadata.name`. Second, the names `contact-` and `contact-a` share the prefix that names their memberships (line 82). `NameString` hashes the whole contact name, as the code does, so the two collisions are independent. Either one loses a person; TLC reports whichever it meets first. |
| `helpers` (MCHelperChecks.cfg) | pass | See the fourth list below. |
| `metrics_unreachable` | violation | When every GET fails, `run_queries` turns each exhausted query into 0.0 (220), and `measure_metrics` returns all zeros. Spec §4.5 and §7(f) say that transport exhaustion is fatal. |

`perf_run` checks the following:
- `RecordNamesRun`: if a resource of the run exists, the record names the run.
  This holds even after a crash, because the init checkpoint precedes every
  create.
- `NoThreadOutlivesPool`: no object or project thread is still running once
  `main` has moved past the object phase or has failed.
- `ObjectsAfterAllReady`: objects are created only after every project was seen
  Ready.
- `CompleteWhenDone`: a run that reports completion has every project and (when
  objects are enabled) every object.
- `Termination`: the run ends.
- `ImplementsTestRunPhases`: `PerfRun` implements `TestRunPhases` (see §4).

`lifecycle` checks the following:
- `CompleteBeforeCleanup`: completion with `NUM_SECRETS_PER_PROJECT = 0`. A zero
  count skips only its own stage.
- `FailedCleanupKeepsRecord`: a cleanup that failed or was killed leaves the
  record naming the run while the run's resources remain.
- `RerunLeavesNothingBehind`: cleanup is safe to re-run. Take a cleanup pass
  that met no fault of its own and printed "Cleanup complete". It leaves every
  Project of the test id, and every object inside one, deleted or being
  deleted. This holds whatever an earlier pass left behind, whether it
  completed, failed or was killed half-way, and whatever the finalizer has
  removed since. A Project finalized after the listing answers 404, and the
  loop goes on (742). The mutant `DeleteProject404EndsLoop` takes that 404 as
  "already cleaned" and stops the loop.
- `CleanupTerminates`: cleanup mode ends, and it never waits for finalizers.

`contacts_csv` checks the following:
- `StreamsLoadAsDocs`: what is printed, and each file written, loads back as
  exactly the documents built. No separator produces an empty document, even
  when one kind is empty.
- `MembershipsFollowNewsletterRows`: there is one membership per row with an
  address and List "Newsletter", in any case. Each membership refers to an
  emitted Contact.

`helpers` checks four pure helpers against their contracts, for every input of
a bounded set:
- `SlugifyMatchesDocstring`: `slugify` returns the docstring's slug for every
  string of up to four characters.
- `RetryAsSpecified`: `retry_with_backoff` matches spec §4.2/§8 for every run
  of six answers drawn from a value, 500, 409, a 403 with a webhook-failure
  body, a plain 403, and a non-ApiException. It makes the calls the spec
  describes, sleeps 1, 2, 4, 8, 16, and hands back the last answer unchanged.
- `MetricsSnapshotAsSpecified`: when every query gets an answer within six
  attempts, `measure_metrics` returns the spec §4.5/§8 snapshot. A failed or
  empty answer counts as 0.0. The reference leaves out transport exhaustion,
  which spec §7(f) makes fatal (`metrics_unreachable` covers it). The snapshot
  is the first label variant with any non-zero metric, otherwise all
  zeros. This holds for every assignment of five answer runs to each of the
  two queries of each of the four variants:
  - a value;
  - a value at the sixth attempt;
  - an empty result;
  - an error status;
  - no answer.
- `ScopedConfigTargetsScope`: `build_scoped_kubeconfig` produces a derived
  current context that leads to the base current server plus the scope path,
  with one `/` between them. This is checked for every kubeconfig of one or two
  clusters and up to two contexts.

### Mutants

Each property of a passing run has a mutant in PROJECT.json. A mutant is a
plausible bug in the code the property is about, and TLC finds the property
violated once the mutant replaces that definition:
- the init checkpoint skipped;
- the Ready check dropped;
- the deadline dropped;
- a pool error swallowed;
- a zero count ending the project instead of skipping its stage;
- the pool not waited for;
- the retry bound off by one (in the create loop and in `retry_with_backoff`);
- the projects-ready checkpoint copied from the org-created one;
- the record deleted before the cleanup;
- 404 raised on the org delete;
- cleanup waiting until a project is gone;
- the `contact-` prefix dropped;
- a separator after every document;
- the List compared case-sensitively;
- `lower()` after the substitutions in `slugify`;
- `range(5)` in `http_get_json`;
- the trailing `/` not stripped from the server.

### Bounds and why they suffice

`MCPerfRun.cfg` uses these bounds (131,488 states, about 20 s):
- 3 projects, so the project pool of size 2 has a queued task to cancel;
- 2 Secrets and 0 ConfigMaps, so that the object pool of size 1 has a queued
  task and the ConfigMap stage is skipped by its zero count;
- `PROJECT_CONCURRENCY` in {1, 2}, which covers the sequential loop and the
  pool;
- `OBJECT_CONCURRENCY` in {0, 1, 2}, where 0 makes `ThreadPoolExecutor` raise;
- `MaxAttempts = 2` and `Deadline = 2`, enough for a retry and a second poll;
- `MaxFaults = 2`, so that one fault can make a create commit and a second one
  can follow it.

`MCLifecycle.cfg` uses smaller bounds, because the cleanup interleaves with the
garbage collector:
- 2 projects;
- 0 Secrets and 1 ConfigMap. The ConfigMap loop of cleanup is the same code as
  the Secret loop, and the zero Secret count covers the other skipped stage;
- a single fault;
- `MaxCleanups = 2`.

The violation runs of PerfRun and Lifecycle use 2 projects. Each
counterexample needs one fault, or none.

`MCContactsCsv.cfg` checks every CSV of up to two rows (461,844 states):
- Email cells come from 8 strings: empty, blank, lower case, upper case, the
  newsletter word, and with a trailing comma, with or without a blank.
- List cells come from 4 strings, and name cells from 2.
- Both output paths are each present or absent.
- Two rows are enough for two Contacts, a Contact next to a skipped row, and
  memberships after Contacts.

`MCHelperChecks.cfg` has 447,308 inputs. The four metric keys are symmetric in
`run_queries`, so two of them suffice. Four variants are kept, because the
fallback order is what the property is about.

### Fairness

The main thread, each project worker and the cleanup thread have weak fairness.
Each is a Python thread that is never blocked forever, on two assumptions:
- every remote call returns or raises. Only `requests.get` (line 123) sets a
  timeout. The Kubernetes client calls set none, so `Termination` and
  `CleanupTerminates` assume that the API server answers;
- `ex.map` waits only on threads that are themselves fair.

The operator who starts cleanup, the kill of a pod and the control plane's
finalizer have no
fairness, so no property relies on them. Readiness (`Environment`) has no
fairness either, because the model must allow a project that never becomes
Ready: that case is what the deadline is for. The converter is sequential, and
its run is checked for safety only.

## 4. Refinement

`TestRunPhases` is the design's promise about one run:
- phases `init → org-created → projects-ready → objects-created`, each
  persisted as it is entered;
- the organization and projects made in `init`, with `org-created` entered
  only once they all exist;
- objects made only in `projects-ready`;
- completion only with every object, when the objects phase runs;
- a best-effort results save;
- a stop possible at any point, with the run not stalling (weak fairness).

`PerfRun` defines `TR == INSTANCE TestRunPhases WITH ...` using this mapping:
- `phase` is derived from `pc`;
- `saved` is the phase of the `perf-results` record of this test id. The
  results save, which writes no `phase` key, counts as the completion record
  that spec §8 calls "objects-created-equivalent";
- `orgMade`, `projMade` and `objMade` are the resources present on the server.

`perf_run` checks `TR!PhasesSpec` as the property `ImplementsTestRunPhases`.
The check covers retries, 409s, pool interleavings, cancellations, failing
saves and crashes.

## 5. Not modelled, and why

- **Configuration helpers and client construction**: these are I/O and parsing.
  How the kubernetes loader treats duplicate cluster or context names is
  outside the repository.
- **`generate_report_html`**: formatting only.
- **The results files written at 873-884**: local files, best-effort, and read
  by nothing.
- **The converter's I/O errors** (a missing input, an unwritable output):
  nothing is persisted between runs.
- **Organization readiness**: the code never waits for it (line 345). Spec
  §4.4(1) makes this the intended design, so the model lets projects be created
  in an organization that is not yet Ready.
- **ORG_NAME naming another run's organization at cleanup** (line 747):
  cleanup deletes the organization by name and never checks its label. The
  `Lifecycle` runs keep `ORG_NAME` apart from the organization of an earlier
  run, so no run checks this case. `perf_org_reuse` checks the run side
  of the same reuse.
- **The single perf-results record**: every run checkpoints into the one
  ConfigMap of that name (line 115). A later run replaces an earlier run's
  record, as spec §2 and §4.6 prescribe. Cleanup mode takes its test id from
  `TEST_ID` (764), not from the record, so no property treats the replacement
  as a loss.
- **Commit, then failure, of a record write**: this is modelled for creates,
  not for checkpoint writes.
- **A cleanup concurrent with a run**: `save_results_configmap`'s
  read-then-write (93) could race with it. Spec §4.6 makes single-writer use
  the only supported mode.
