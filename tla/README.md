# A TLA+ model of Keptn

Keptn wraps the deployment of a Kubernetes workload in checks: tasks and
evaluations that run before and after it, for every workload and for the
application the workloads belong to. The work is done by a set of Kubernetes
controllers that share nothing but the objects in the API server: the lifecycle
operator, the metrics operator and the certificate manager. This project models
them, checks the models with TLC and proves the most important facts about them
with TLAPS.

Paths are relative to the repository; `lifecycle-operator/` is left out where
it is clear.

## 1. The system

| Component | State it keeps | Operations | Interacts with |
| --- | --- | --- | --- |
| Pod mutating webhook (`webhooks/pod_mutator`) | none | on admission: create or update `KeptnWorkload`, create `KeptnAppCreationRequest`, add the scheduling gate | KeptnWorkload, KeptnAppCreationRequest |
| KeptnAppCreationRequest controller | the request, until a timeout | collect the workloads of an app, create or update the `KeptnApp`, delete the request | KeptnApp, webhook |
| KeptnApp controller | `status.currentVersion` | create a `KeptnAppVersion` per generation, deprecate older revisions | KeptnAppVersion |
| KeptnAppVersion controller | phases: pre tasks, pre evaluations, workloads, post tasks, post evaluations, promotion | phase handler; summary of its workload versions | tasks, evaluations, KeptnWorkloadVersion |
| KeptnWorkload controller | `status.currentVersion` | create a `KeptnWorkloadVersion` per version, update its spec | KeptnWorkloadVersion |
| KeptnWorkloadVersion controller | five phases, item status per check, overall status | wait for the app, phase handler, observe the deployment | tasks, evaluations, KeptnAppVersion |
| Phase handler (`controllers/common/phase`) | none (works on the item) | run one phase, set the overall status, deprecate the rest | both version controllers |
| Task / evaluation reconciliation (`controllers/common/task`, `.../evaluation`) | `ItemStatus` per check | create, look up and record the checks of a phase | KeptnTask, KeptnEvaluation |
| KeptnTask controller | job name, status | create the Job, take over its result | Kubernetes Jobs |
| KeptnTaskDefinition controller | name of a config map | create the config map of an inline function | KeptnTask |
| KeptnEvaluation controller | retry count, result per metric, overall status | attempt, retry, give up | KeptnMetric |
| Scheduling gates controller | none | remove the pod's gate | KeptnWorkloadVersion, Pod |
| KeptnConfig controller | process-wide options | switch `blockDeployment`, timeouts | all |
| KeptnMetric controller (`metrics-operator`) | latest value or a window of results, time of the last update | fetch at an interval | providers |
| Custom metrics API, metrics server | a cache in memory, Prometheus gauges | follow the metrics | KeptnMetric |
| Analysis controller (`metrics-operator`) | timeframe, stored values, verdict | collect concurrently, evaluate, report | worker pool, providers |
| Metrics providers | none | credentials, request, polling, reading of the answer | Prometheus, Dynatrace, DQL, Datadog |
| Certificate manager | the secret with CA and server certificate, the CA bundles | renew, inject | webhook configurations, CRDs |
| Certificate watcher (in each operator) | the certificate files | copy the secret's certificate | certificate manager, API server |
| API versions | every kind in up to five versions | conversion on read and write | clients of older versions |
| SLO converter | none | turn Keptn v1 objectives into AnalysisDefinitions | AnalysisDefinition |

What makes these controllers hard to get right:

* **No memory.** A reconciliation starts from a copy of the object out of the
  informer cache. The copy may be older than the controller's own last write.
* **Several writes per reconciliation**, each of which may be refused because
  of a conflict, may fail, or may fail although it was carried out. Some errors
  are returned (and the key is retried), some are only logged, some are dropped.
* **Objects are created before their name is recorded**, so a crash or a lost
  write in between leaves an orphan.
* **Only generation changes trigger the controllers**
  (`GenerationChangedPredicate`), not their own status writes. Whoever does not
  ask to be requeued is not called again until the operator restarts, and then
  everything is reconciled once more, finished objects included.
* **Decisions are spread**: the gate controller, the app version and the
  workload version read each other's status at different times, and so do the
  webhook and the controller that serves its requests, or the manager that renews
  a certificate and the operators that poll for it.
* **Goroutines and channels** in the analysis: a pool that expires is closed while
  some of its goroutines still want to send.

What makes each component correct:

* *workload version*: its phases run in order, each check runs once unless
  something fails, recorded results are real and final, a failure is recorded
  where it happened and ends the version, every version ends;
* *scheduling gate*: the pod waits for the pre-deployment checks and no longer;
* *evaluation*: it succeeds only if all objectives were met, fails only after
  all retries, and is decided;
* *task*: it reports the result of its own job, runs once, and completes;
* *app, app version*: one version per generation, older ones deprecated,
  an app ends when its workloads end; no circular waiting;
* *app creation request*: no workload is forgotten, a user's app is not touched;
* *task definition*: a job runs the code its definition has;
* *analysis*: a verdict rests on a value for every objective, all of one
  timeframe; nobody sends to a closed channel; the analysis ends and is reported;
* *metric*: fetched at its interval for ever, a bounded window of different
  results, readers that follow;
* *certificates*: what is served is valid and trusted, also while a CA is replaced
  and while one of several writes failed;
* *providers, conversions*: no invented value, no field lost that both sides know,
  no objective that became more lenient.

## 2. Modules

| Module | Models |
| --- | --- |
| `KeptnState` | `KeptnState`, `StatusSummary` and the overall state of a phase (`apis/lifecycle/v1/common/common.go`) |
| `PhaseItem` | what the phase handler does to an item, as operators on records (`controllers/common/phase/handler.go`) |
| `PhaseProgress` | abstract: what a phase item promises to whoever watches it |
| `WorkloadVersion`, `MCWorkloadVersion` | one workload version: its controller, the reconciliation of its checks, the gate controller, restarts, spec updates; it implements `PhaseProgress` |
| `WorkloadVersionProofs` | what the overall state of a phase says of its checks; types of `WorkloadVersion`, how it fails, what its results are worth, the refinement of `PhaseProgress`, and the order of the checks |
| `KeptnEvaluation`, `MCKeptnEvaluation` | one evaluation and its controller; two objectives about two metrics or one |
| `KeptnEvaluationProofs` | when an evaluation succeeds and when it is given up |
| `KeptnTask` | one task, its controller and its jobs |
| `TaskFunction` | extends `KeptnTask` by the task definition, its controller, the config maps and the code each job runs |
| `KeptnTaskProofs` | a task's result, the number of its jobs and the code they run |
| `AppDelivery`, `MCAppDelivery` | one app: the KeptnApp and the KeptnAppVersion controller, composed with abstract workload versions; an app of two generations |
| `AppDeliveryProofs` | how an app version ends, and what the app makes of it |
| `AppCreation`, `MCAppCreation` | webhook, app creation requests, KeptnWorkload controller, for two pods of one app |
| `AppCreationProofs` | no workload is forgotten, versions follow, a user's app is left alone |
| `AnalysisScoring` | operators, targets, scores and the verdict of an analysis, as functions |
| `Analysis`, `MCAnalysis` | one analysis: controller, worker pool, evaluators, collector, reporter |
| `AnalysisProofs` | types of `Analysis`, that a verdict rests on values and that a closed pool is quiet |
| `KeptnMetric` | the KeptnMetric controller |
| `MetricReaders` | the custom metrics API and the Prometheus gauges |
| `KeptnMetricProofs` | the metrics operator without analyses: the window of results of a metric, what the providers return, and what the SLO converter makes of an objective |
| `CertManager` | certificate manager, certificate watchers, CA bundles, time |
| `CertManagerProofs` | what is served is valid and trusted, and outages end |
| `SloConverter` | how the criteria of an SLO become a target |
| `ApiSchemas`, `ApiConversion` | the fields of every kind in every API version; the conversions between them |
| `Providers` | one query of a metrics provider |
| `ObjectStore` | an object that clients of all API versions read and update |
| `Support`, `MCSupport` | the metric controller, the readers, the providers, the SLO converter, the certificate manager and the object store, each by itself |

### The reconciliation pattern

All state machines have the same frame. `obj` is the object in the API
server, `cache` the informer's copy, `local` the copy in the hands of the
running reconciliation, `fresh` says whether `local` still has the
resourceVersion of `obj`. `pc` is the API call the reconciliation is about to
make. One action is the code between two API calls, so that everything else can
happen between any two calls and a crash may happen at each. Reconciliations of
one object never overlap (the work queue guarantees it); a key is in the queue or
not (`queued`).

`Update` is the API server: a write of a copy that is not fresh is refused; a
write of a fresh copy is carried out, or (within `MaxFaults`) fails with or
without having been carried out. After a failed write that was carried out the
copy is no longer fresh. `Crash` forgets everything in memory, and the restarted
operator queues every object. In `WorkloadVersion`, with `StaleReads` off a
reconciliation starts only when the cache has caught up, and with it on it may
start from the copy the cache still holds; in `KeptnTask` and `KeptnEvaluation`
stale reads are counted (`stale`, at most `MaxStale`), because their properties
say how much harm one of them can do.

### WorkloadVersion

The object's phases are numbered 1 to 5 in the order of `Reconcile`
(pre-deployment tasks and evaluations, deployment, post-deployment tasks and
evaluations). `obj.spec` is the set of tasks and evaluations of the spec, one of
`Specs`; `Checks` is what may be in one, and `CheckPhase` says to which phase each
belongs; the two kinds are reconciled by the same code in two copies and are one kind
here. The KeptnWorkload controller may replace the spec at any time. `items[c][n]` is
the n-th object ever created for check `c`; `items[c][n].succeeded` and `overlooked`
(checks that came into the spec when their phase had succeeded) are history variables.

| Action | Code |
| --- | --- |
| `StartReconcile` | `Reconcile`, the read |
| `CheckPreEvaluationStatusOfApp`, `SetAppContextMetadata`, `SetTraceId` | `checkPreEvaluationStatusOfApp` and its two writes |
| `EnterPhase`, `AllPhasesSucceeded` | the `do...Phase` functions and the head of `HandlePhase` |
| `ReconcileCheck` | one turn of the loop of `ReconcileTasks` / `ReconcileEvaluations` |
| `RecordChecks` | `reconcilePrePostDeployment` / `reconcilePrePostEvaluation` |
| `ReconcileDeployment` | `reconcileDeployment` |
| `CompletePhase` | the rest of `HandlePhase`, with the deferred status update |
| `FinishReconcile` | `finishKeptnWorkloadVersionReconcile` |
| `ReadFails` | the error returns of the reads |
| `RemoveGate` | the scheduling gates controller |
| `TouchSpec` | the spec update of the KeptnWorkload controller: a new generation, and the lists of checks of the workload |
| `ItemProgresses`, `ItemDeleted`, `ResultTakenBack` | the life of tasks and evaluations, as `KeptnTask` and `KeptnEvaluation` show it |
| `AppDecides`, `PodStarts`, `DeadlinePasses`, `SwitchBlocking` | app version, pod, time, KeptnConfig |

Abstractions: the empty state and `Pending` are one state (no function of the
code distinguishes them); the lists of a spec are sets; start times, spans,
events and metrics are left out; an unsupported resource kind, which is retried
for ever, is left out; a read error that changes nothing (of the object itself,
of a pod) is left out because the key is retried.

`PhaseProgress` has three variables: how many phases are passed, the outcome and
whether the gate is open. It has five steps: pass the next phase, fail, succeed
after the last phase, open the gate once the phases before the deployment are
passed, and open the gate after a failure. The last one (`OpenAfterFailure`) is what
the code does and the documentation denies; the run `wv_gate` shows it.
`ImplementsPhaseProgress` is its specification under the mapping `passed` = the length of the longest prefix of stored phases that are
Succeeded or Warning, `outcome` = the stored overall status, `open` = the pod is
released. It says in one formula what stale copies, conflicts, lost answers and
restarts must not do: take a phase back, pass two at once, succeed early, end
twice, release the pod early.

### KeptnEvaluation

`Reconcile` looks at the retries, then at the result; `EvaluateObjective` is one
turn of the loop of `performEvaluation`, whose result is the environment's
choice unless the objective is known to be met; `CompleteAttempt` counts the
attempt. The status is a function from metrics to states because the code's map
has the metric's name as key. `met`, `attempts` and `dropped` (the error of a
call was dropped since the operator started) are history variables. A `retries`
of 0 cannot be stored (the field is omitted when empty and defaults to 10), hence
`Retries` is positive.

### KeptnTask

`ReconcileJob` is a reconciliation that finds the job, `CreateJob` one that does
not; both end in `FinishReconcile`, the deferred status update whose error is
only logged. Jobs keep their result after they are gone, for the properties. A
definition may be missing, exist without a runtime, or be runnable.

### TaskFunction

`fn` is the function in the spec of the definition (inline code, of its own or of
the parent it refers to, a user's config map, a URL, a container, or nothing),
`fstatus` the config map its status names, `maps` the code in the config maps.
`ReconcileMap` and `ReconcileStatus` are the two writes of the definition's
controller (`keptntaskdefinition/controller.go`, `reconcile_function.go`), before
which the read of the map may fail (`GetConfigMapFails`); an error of any of them is
only logged (`flost`). `Script` is what `generateJob` puts into the job
(`job_utils.go`, `runtime_builder.go`, `container_builder.go`): a map wins over a
URL. `TaskController` is the controller of `KeptnTask`, whose jobs keep the script
they were created with; `PodStarts` reads the map when the pod starts. `sought` and
`ran` are history variables. The code of a job is a number that grows with every
edit.

### AppDelivery

Two controllers write the same app versions. `ReconcileApp`, `CreateAppVersion`,
`UpdateCurrentVersion`, `GetOlderAppVersion` and `DeprecateOlderAppVersion` are
the calls of one reconciliation of the KeptnApp (`keptnapp/controller.go`);
`StartReconcile` to `FinishReconcile` are those of an app version
(`keptnappversion`), as in `WorkloadVersion`, with six phases: pre tasks, pre
evaluations, the workloads, post tasks, post evaluations and promotion. `av[g]` is
the app version of generation `g`, `revisions` the order in which they were
created; `oldFresh` is to the copy of an older app version in the hands of the
first controller what `fresh` is to the copy of the second. `lost` is a history
variable: a reconciliation of the app stopped after it had created the app
version. The controller looks for older revisions in the cache: `known` are the ones
that are there (`Sync` delivers them), one that is not is passed over without an error,
and `missed`, a history variable, has those that exist all the same.

Workload versions are abstract: `WorkloadAppears`, `WorkloadBegins` (the wait for
the latest app version that lists the workload and is not deprecated) and
`WorkloadEnds`, which `WorkloadVersion` models in detail. The checks of a phase
have one state together. A copy that is found is up to date: an older one would only
lead to one more refused write. One app version is
reconciled at a time (the controllers run with one worker each). Creation
timestamps are distinct: of two app versions created within a second the code
takes the first in the list. The previous version, the app context and the
deletion of an app are left out.

### AppCreation

| Action | Code |
| --- | --- |
| `HandleWorkload` | `WorkloadHandler.Handle`: create or update the workload |
| `ParentNotFound` | `copyAnnotationsIfParentAnnotated` gives up and the pod is admitted without Keptn |
| `FindRequest`, `CreateRequest` | `AppCreationRequestHandler.Handle` |
| `RequestNotFound`, `UserAppFound`, `AwaitDeadline`, `CreateOrUpdateApp`, `DeleteRequest` | `Reconcile` of the KeptnAppCreationRequest, one action per way through it up to a write |
| `WorkloadUnchanged`, `UpdateWorkloadVersion`, `CreateWorkloadVersion` | `Reconcile` of the KeptnWorkload |
| `SyncWorkload`, `SyncVersion`, `SyncRequest`, `SyncApp`, `Resync`, `DeadlinePasses`, `Crash`, `UserWritesApp` | informers, time, restarts, users |

All reads are from caches that may lag, the workload versions among them (`wvCache`).
The KeptnWorkload controller compares the workload with the cached version, and
`misled`, a history variable, has the workloads that it found unchanged only because
that copy was old. `Versioned` are the workloads whose controller is modelled (in the
run, the one whose owner may change). Requests are numbered, because a pod may
rely on a request that is being deleted, or on the cached copy of one that is gone.
`raced` is a history variable: the workloads whose pod did so, and those that the
last listing missed. `AwaitDeadline` reads the clock twice as the code does: when
the deadline falls between the two, `RequeueAfter` is zero, which is no requeue.

### AnalysisScoring and Analysis

`AnalysisScoring` is the arithmetic of the evaluators; scores are doubled so that a
warning's half weight is an integer, and percentages are compared by
multiplication. In `Analysis` every goroutine has its own actions: `BeginJob`,
`SendRequest`, `SendError` (a worker, `DispatchToProviders`), `TakeRequest`,
`SendValue` (the evaluator of a provider type, `provider_selector.go`),
`CollectResult`, `GiveUp`, `FinishCollection` (the collector and the controller,
`worker_pool.go`, `controller.go`), `UpdateStatus`, `ReportResult`. Channels are
sequences; they have room for every objective, so a send never blocks. `stray`
says that a goroutine of a closed pool is left; its send is `Panic`, a restart of the
operator. An answer carries the timeframe and the template it was asked for. It may be
blank without an error (DQL, for a record without a value, `dynatrace_dql.go:378`): it is
collected and stored like a value, cannot be parsed, and its objective gets no point
(`objective_evaluator.go:59-62`). Answers are kept under a key, name and namespace of the
template joined by a dash (`ComputeKey`); different templates may have the same key, so
`KeyOf` is a constant, any function from templates to keys. Texts that `ParseFloat` takes
for a number although they are none to compare with (`NaN`) are left out, and so are the
deletion of an analysis and analyses with a fixed timeframe.

### KeptnMetric

Time is a clock of ticks; `FetchTime` is `lastUpdated` plus the interval. `NotFound`,
`ReadFails`, `NotDue`, `NoProvider`, `Fetch` and `UpdateStatus` are the ways
through `Reconcile`; of an interval result only its time is kept. `Restart` forgets
what the process had in memory. Aggregation is part of the value.

### MetricReaders

Two readers in the process of the metrics operator follow the metrics. `WatchUpdate` and
`WatchDelete` are the handlers of the adapter's informer (`provider.go`), `MissedDelete`
the deletion it learns of by listing anew, on which it panics; `served` has an entry per
key. `RecordMetrics` is the loop of the metrics server (`pkg/metrics/server.go`); `gauge`
has one per normalised name. Neither key is the metric's own: the adapter joins
namespace and name by a dash, the gauge leaves the namespace out. `KeyOf` and `GaugeOf`
are therefore constants, any functions of the metric, and the list that the server loops
over has any order. The controller is reduced to `SetValue` and `Refetch`, an update
with the same value, which also makes the adapter write the entry anew. That a metric is
fetched again and again is what `KeepsFetching` shows of `KeptnMetric`.

### CertManager

Time is counted in the manager's interval of three hours. `SkipUpdate`,
`StartUpdate`, `WriteSecret`, `Inject`, `InjectFails`, `EndUpdate` are one
reconciliation of the manager (`keptnwebhookcertificate_controller.go`,
`certificate_secret.go`), `Validate` is `Certs.Validate`. A certificate is its expiry
and the CA that issued it, a bundle a set of CAs. `UpdateCertificates` and
`MissCertificates` are the watcher of each operator (`pkg/certificates/watcher.go`).
`ListFails` is a read that fails. When it is the listing by label that does, the code
goes on with a nil list and panics (`resource_retriever.go`), which the controller
runtime recovers from and turns into an error, so that it is retried like any other. The
retriever by name, which leaves out a resource that it cannot read, is for other users
of the package and is not modelled. `DeleteSecret` and `ResetBundle` are what others may
do. A retry, which comes
within minutes, takes no time, and the informer catches up within three hours.
`outage` counts, from the last disturbance, for how long an operator's webhooks could
not be called: counted from the first, it would grow with every further one.

### SloConverter, ApiSchemas, ApiConversion, ObjectStore, Providers, Support

`SloConverter` starts from parsed criteria; an unbounded interval ends just beyond
the numbers in use. `ApiSchemas` lists the fields of every kind and version, each
version as its difference from the next newer one; a struct that is the same
everywhere is one field. `ApiConversion` has the hand-written conversions of
KeptnApp and KeptnAppVersion, and for all other kinds the API server's strategy
"None", which keeps the fields both versions have. `Providers` is one query:
`ReadSecret`, `Login`, `RequestFails`, `Answered`, and for DQL `Accepted` and
`StillRunning`; values are integers and their average is rounded down; that Datadog's average is
formatted with five significant digits is left out. `ObjectStore` is an object that
clients of any version read, change in one field and write back.

These parts, the metric controller, the readers and the certificate manager have no
state in common. `Support` is their sum: the first state chooses one of them (`part`),
which then behaves as its own specification says, with its own fairness, while the
others are at rest. The theorems speak of the parts' own specifications (`Spec` of
`KeptnMetric`, `ConverterSpec`, `ProviderSpec`, `CertSpec`).

## 3. Runs

All runs turn deadlock checking off: a finished object is not reconciled any more.

| Run | Configuration | Shows |
| --- | --- | --- |
| `wv_faults` | one check; stale reads and any two of an API error, a crash, a spec update that adds or removes the check, and a lost result | `TypeOK`, `FailureShape`, `ResultsAreReal`, `ImplementsPhaseProgress`, `ResultsAreFinal`, `FailedIsFinal` |
| `wv_live` | two checks of one phase and one of a later phase; `blockDeployment` switches at any time, fairness | `ChecksInOrder`, `Terminates`, `GateOpens` |
| `ke_evaluation` | two metrics, three retries; two errors, two crashes, two stale reads, fairness | `SucceededOnlyIfMet`, `FailedOnlyAfterRetries`, `DecidesUnlessDropped` |
| `kt_task` | a task and its definition of any kind, one edit; an error, a crash, a removed job or a stale read, fairness | `ResultIsReal`, `JobsAccountedFor`, `RunsDefinedCode`, `ResultKept`, `Completes` |
| `ad_delivery` | an app restarted once (two generations of one version), one workload, checks in the evaluation and the promotion phase; a cache that lags, two errors or crashes | `SucceededIsReal`, `AppFailureShape`, `SettledUnlessLost`, `EndIsFinal` |
| `ad_live` | the same app without errors and crashes, with fairness | `AppEnds` |
| `ac_creation` | two pods with a workload each, one without an app name and with two possible owners, one annotated on its parent; two requests, one fault or act of a user, fairness | `ListedUnlessRaced`, `VersionsFollow`, `UserAppUntouched`, `EventuallyListed` |
| `an_analysis` | three objectives with a template each, of two provider types, one of which may answer with a blank; two templates with the same key; two workers, a definition edited once, two times; one fault, fairness | `VerdictRestsOnValues`, `ClosedPoolIsQuiet`, `CompletedAndReported` |
| `support` | the parts of `Support`, see below; fairness | `ResultsApart`, `WindowBounded`, `KeepsFetching`; `ReadersCatchUp`; `ValueIsMeasured`; `MigratedVerdict`; `ServedIsValid`, `TrustedWhenDone`, `OutageBounded`, `CallableInTheEnd`; `OthersSurvive` |

In `support`:

* metric controller: one metric, limits 0 to 2, interval of two ticks, four ticks, one
  edit or deletion, two faults;
* readers: three metrics, two with the same gauge and two with the same key; a value
  that is a quantity but no number and one that is a number but no quantity; two changes
  of the metrics, one restart;
* providers: answers of up to two series of two points;
* SLO converter: criteria of up to two rules over three numbers;
* certificates: two operators, a webhook configuration and a CRD; a CA lives 9, a server
  certificate 6 units, renewed 4 before, polled every 2; 14 units, two failed calls, one
  disturbance;
* object store: every kind, version and field, two writes.

What each property says is in the comment above it. In short:

* `ListedUnlessRaced`: a workload all of whose pods of the latest version are admitted
  is left out of its app only if a pod relied on a request that had been served, or
  was not in the cache when it was. A pod that wrote the workload and was then rejected
  leaves a version that no request speaks of, until the pod is created again.
* `ResultsAreReal`: what is recorded as succeeded did succeed, and a phase that is
  recorded as succeeded has every check of the spec recorded so, unless the spec was
  given the check afterwards (`overlooked`).
* `SettledUnlessLost`: between two reconciliations an app has the version of its newest
  app version, and older revisions are deprecated, unless a call after the creation was
  lost, or an older revision was not in the cache (`missed`).
* `VersionsFollow`: a workload that is dealt with has a workload version with its spec,
  unless it was compared with an old copy of that version (`misled`).
* `RunsDefinedCode`: a job does not run code older than what its definition had
  settled on when the job was created.
* `VerdictRestsOnValues`: however many rounds, restarts and edits it took, every
  objective of the verdict has an answer for its key, all are of one timeframe, the
  verdict is the one of these answers, and unless it is "fail" the answer of every key
  objective is a number.
* `ClosedPoolIsQuiet`: unless the pool expired, nobody sends on a closed channel.
* `ResultsApart`: the window holds results of different fetches, an interval apart.
* `ServedIsValid`, `TrustedWhenDone`, `OutageBounded`: the threshold and the two
  polling intervals fit together; the CA of before is trusted long enough; after the
  last disturbance an outage lasts no longer than one interval of each.
* `ReadersCatchUp`: once metrics change no more, the custom metrics API has no entry
  for a key without a metric and otherwise the value of a metric with that key, and a
  gauge has the value of a metric of that name. With keys of their own, this is the
  metric itself.
* `MigratedVerdict`: a migrated objective judges no value better than before.

Three runs are expected to fail:

* `ke_same_metric` (`SucceededOnlyIfMet`): two objectives about one metric share an
  entry of the status, so that an objective that was never met counts as met;
  `keptnevaluationdefinition_types.go:25-26` says that all objectives have to be met.
* `wv_gate` (`DeployedOnlyIfChecked`): a failed pre-deployment phase deprecates the
  deployment phase, which counts as completed, so the gate is removed and the pod
  starts (`schedulinggates/controller.go:66`); `docs/docs/components/scheduling.md:33-34`
  says that the gate stays if the checks "have not yet finished successfully".
* `km_limit` (`UpdateWithinLimit`): one result goes for each that comes, so after
  `storedResults` was lowered updates leave the window longer than it
  (`metrics/controller.go:133`); `keptnmetric_types.go:74` calls it "the upper limit of
  how many past results should be stored".

### Behaviours that limit what the runs can promise

These behaviours of the code are part of the models:

* *A lost failure.* A failed phase is written by the phase's own status update;
  the overall status Failed follows in a deferred update whose error is only
  logged, and a failed phase is not requeued (`phase/handler.go:77-78,108`). When
  that update fails, the workload version keeps its old status until the operator
  restarts. `Terminates` is therefore checked without API errors.
* *A dropped error.* A read of an evaluation or of its definition that fails with
  anything but NotFound ends the reconciliation with neither an error nor a
  requeue (`keptnevaluation/controller.go:74-75,92-93`). Hence
  `DecidesUnlessDropped`.
* *A repeated task.* A job that is not found is created before the status of the
  task is looked at (`keptntask/controller.go:83-91`), so a completed task whose
  job was cleaned up is run again when it is next reconciled. `JobsAccountedFor`
  counts these jobs, and `ResultKept` speaks of a task whose job exists.
* *A half-done change of an app.* The current version of the app and the
  deprecation of its older revisions follow the creation of the app version. When
  one of them fails the reconciliation is requeued, but the next one finds the app
  version and returns at once (`keptnapp/controller.go:89-127`): the app keeps the
  old current version, or older revisions stay active. Hence
  `SettledUnlessLost`.
* *An older revision that is overlooked.* Older revisions are read from the cache, and
  one that is not found there is passed over (`keptnapp/controller.go:173-177`). A
  revision created just before stays active with nothing lost; `missed` in
  `SettledUnlessLost`.
* *A version that keeps the spec in between.* The workload controller compares the
  workload with its cached version (`keptnworkload/controller.go:94,117`). A workload that
  is changed and changed back while that copy lags is found unchanged; `misled` in
  `VersionsFollow`.
* *A check that is never run.* A new spec of a workload version may add a check to a
  phase that has succeeded, which is not done again (`phase/handler.go`); `overlooked` in
  `ResultsAreReal`.
* *A promotion that failed and succeeded.* The app version's controller passes a
  promotion that is completed, failed ones included
  (`keptnappversion/controller.go:176`). A restart, or a failed write, between the
  write of the failed phase and the one of the overall status ends the app version
  as Succeeded. `SucceededIsReal` leaves the promotion out.
* *A pod that is forgotten.* The request is deleted after the workloads were listed
  (`keptnappcreationrequest/controller.go:132`). A pod admitted in between, or while
  the deleted request is still in the webhook's cache, asks for nothing, and its
  workload is in no app until the next pod comes, although the app is to include
  "all workloads that have the same annotation" (`docs/docs/guides/integrate.md:127`).
  Hence `ListedUnlessRaced`. A pod whose annotated parent is not in the cache is
  admitted without Keptn (`pod_annotation.go:41-43`).
* *A definition that names an old map.* When inline code is replaced by a URL the
  status keeps the name of the map, against the comment in
  `keptntaskdefinition/controller.go:83`, and a map wins over a URL: tasks go on
  running the old code. A user's map that is created after the definition is not
  noticed, and a failed write of map or status is not repeated. `RunsDefinedCode`
  excludes these (`Leftover`, `flost`).
* *A pool that panics.* When the two minutes of a pool end, its channels are closed
  while evaluators still want to send (`provider_selector.go:117`): the operator
  panics and restarts. `ClosedPoolIsQuiet` shows that nothing else leads there, and
  `CompletedAndReported` that the analysis still ends. After a failed round the
  values of that round replace the ones of earlier rounds
  (`analysis/controller.go:108`), although they are to be "all analysis values that
  have already been retrieved" (`analysis_types.go:85`), so they are asked for again.
* *A metric that stops.* A failed read ends the reconciliation without a requeue
  (`metrics/controller.go:79`); hence `dropped` in `KeepsFetching`.
* *A window that does not shrink*, see `km_limit`. `WindowBounded` speaks of the largest
  limit so far. With `storedResults` set, `status.value` stays what it was.
* *An analysis with a blank.* A blank answer completes an analysis as an objective
  without a point, and templates whose keys are the same are judged by the answer of
  one of them. `VerdictRestsOnValues` says what is left: the answer is one for the key,
  and only a number satisfies a key objective.
* *Shared gauges and keys.* Metrics of the same name in two namespaces overwrite each
  other's gauge (`pkg/metrics/server.go:184`), and metrics whose namespace and name join
  to the same key each other's entry; when one of them is deleted the entry goes until
  another one is fetched. A gauge stays when its metric is deleted, and an entry of the
  custom metrics API when a value is no quantity.
* *Zero for nothing.* Dynatrace and Datadog return 0 when no point has a value; DQL
  panics on an empty array (`dynatrace_dql.go:375`) and takes any array of a record.
* *Lost fields.* A v1alpha2 client resets the revision of a KeptnAppVersion to 1, a
  v1beta1 client drops its metadata and span links, and a v1alpha1 client the items of
  a workload instance. `KnownLosses` names them in `OthersSurvive`. Fields that an old
  version does not know are lost on every write through it.
* *Approximate SLOs.* Ranges include their bounds whatever the rules say, of a
  criterion only the first two rules count, contradictory rules become a
  disjunction, partial overlaps of pass and warning become informative objectives.
  `MigratedVerdict` speaks of the criteria for which none of this happens.

### Disagreements with the documents

Met while modelling, and not runs of their own:

* With `blockDeployment` off, failed evaluations of the app end in Warning while
  workloads wait for Succeeded (`keptnworkloadversion/controller.go:353`) and are never
  deployed; `keptn-non-blocking.md:10-12` says that all applications are.
* An evaluation that succeeded with its last attempt is set to Failed when it is
  reconciled after a restart (`keptnevaluation/controller.go:80`);
  `keptnevaluation_types.go:64-66` says that the status is derived from the objectives.
* `cleanupWorkloads` never sets `foundWorkload`, so an app that lists anything is
  written at every request (`keptnappcreationrequest/controller.go:223-233`).
* A definition's parent that itself has a parent is used without the grandparent's
  code, against the comment in `runtime_builder.go:219`; a parent without a runtime
  is dereferenced (`runtime_builder.go:232`).
* Percentiles are computed on values that are converted to a sortable type, not
  sorted (`metrics/controller.go:220-225`).
* After a CA was renewed the bundle holds two CAs and is never taken for valid
  (`isBundleValid`), so it is injected again every three hours. That is harmless.
* In the SLI converter a variable that is a prefix of another one is replaced inside
  it (`sli_converter.go:97-116`).

### Bounds

`MaxFaults`, `MaxCrashes`, `MaxTouches`, `MaxLosses`, `MaxCleanups`, `MaxStale`,
`MaxEdits`, `MaxDisturbances` count disturbances; each hazard needs one or two of
them, and a run with one of each lets them fall between any two calls and in any
order. `wv_faults` has one of each kind and, by the constraint `TwoDisturbances`, any
two together. `MaxCopies`, `MaxJobs` and `MaxRequests` bound the objects created:
where stale reads can create any number, the last creation fails. Two checks of one
phase and one of another are enough to have order between phases and partial
results within one; two pods, to have one rely on the other's request; three
objectives with two workers, to have an uneven share and a template that is asked
for twice; four ticks at an interval of two, to have a full window move. In
`support` the proportions of the certificates are those of the code that matter: the
threshold is longer than both polling intervals together, a CA outlives a server certificate, and
the time is long enough for two CAs. `Early` makes faults stop in time to see how
they end. Inputs of the providers, the converter and the object store are all of their
size. Three metrics of the readers are enough for one to share its gauge with a second
and its key with a third, and two changes for a deletion and a change of the other.
`ad_delivery` has any two errors and crashes (`MaxDisturbances`). The actions that a run's
bounds switch off fire in another run.

### Fairness

`WF` of the controller's actions together: a queued key is served, and a running
reconciliation goes on. `WF` of the informers: every event is delivered. `WF` of the
gate controller: a gated pod is requeued every ten seconds. `WF` of tasks, evaluations
and jobs: a job has a deadline and an evaluation a bounded number of attempts. `WF` of
goroutines, of the watchers' polling and of time. Nothing is assumed of pods, users, or
of the app version: `Terminates` starts from an app that has let the workload go on.
There is no fairness on errors; they are bounded by their budget. In `ad_live` `SF` of
the start of each app version's reconciliation says that the work queue is first in,
first out, and `SF` of the end of its checks that a check which is looked at again and
again has ended at last. In `an_analysis` `SF` of the informer says that it catches
up between two of infinitely many reconciliations, which are ten seconds apart. In
`ac_creation` `WF` of `Resync` is the ten-hourly resync of the informers. In `support`
each part has its own fairness, which is void when the behaviour is about another one;
`WF` of `Refetch` says that a metric is fetched again, which `KeepsFetching` shows of
the controller.

Under a changing `blockDeployment` `ImplementsPhaseProgress` does not hold: what was
passed with a Warning becomes "not succeeded" when blocking is switched on, and a
restart drives the version from there again. With stale reads as well, `ChecksInOrder`
does not hold either: a phase ends with a Warning, blocking is switched on, the phase
is done again and fails, in a write that is reported as failed; blocking is switched
off, and a reconciliation that still sees the Warning begins the next phase. No
document promises anything here, so nothing is asserted; the theorems name the
conditions.

## 4. Proofs

The theorems hold for every value of the constants: any finite set of checks in any
phases, any number of generations, workloads, pods, metrics, objectives, retries and
jobs, and any number of crashes, failed calls, conflicts, stale reads and edits. They
rest on the named assumptions of the modules (`CheckAssumption`, `BoundAssumption`,
`TaskAssumption`, `FunctionAssumption`, `DeliveryAssumption`, `EvaluationAssumption`,
`PodAssumption`, `CreationBoundAssumption`, `MetricAssumption`, `PointsAssumption`,
`AnalysisAssumption`, `DecimalAssumption`, `CertAssumption`), which TLC evaluates in the
runs, as it does `ReadersAssumption`, of which no theorem speaks.
Of the others, all but the last two only say what kind of value a constant has.
`DecimalAssumption` says that values are decimals: there is one between any two numbers
of rules, and one on either side of them all. `CertAssumption` says how the times
relate, as they do in the code: an operator polls every 6 hours, a certificate is
renewed 12 hours before it expires, and lives longer than that; a CA lives longer than
both together. Three theorems have a hypothesis of their own, and each is needed, as
said there.

The arguments about controllers have one form, because the code has: a controller writes
from a copy, and the write is accepted only if the copy is current. So the invariants
say the same of the object, of the cache and of the copy in memory ("every copy was well
formed once"), and of a *fresh* copy that it agrees with the object on what the
reconciliation has not prepared to write.

**States of a phase** (`WorkloadVersionProofs`). `OverallSuccess`: the overall state is
Succeeded only if every check of the spec is listed as succeeded. It is counting: the
total is the number of checks of the spec, and the succeeded ones among those listed
have to reach it. The proofs about app versions and
evaluations repeat it as a lemma: each extends the module of its own component, whose
names are those of the others.

**Workload version** (`WorkloadVersionProofs`).

* `TypeCorrect`. Not inductive as it stands: the generation is bounded only because
  the controller writes the spec (the trace id) at most once. `TypeInv` adds that the
  generation counts the foreign spec updates plus one if the trace id is set, and that
  a fresh copy agrees with the object on both.
* `FailureShapeHolds`, `FailedIsFinalHolds`. `FailureInv` says the shape of every
  copy, that only a failed item has deprecated phases, that a fresh copy has the
  object's results, and that a phase is only being handled in an item that has not
  failed, with all phases before it done. It is needed because the failure is written
  in two steps of which the second may be lost.
* `ResultsAreRealHolds`, `ResultsAreFinalHolds`. `ResultInv`: whatever a copy records
  as succeeded did succeed, and a fresh copy knows every recorded result. The items
  themselves come and go; `items[c][n].succeeded` remembers. The spec comes and goes as
  well: a fresh copy has the object's spec, so a phase is only recorded as succeeded
  when the checks of the spec of that moment are, and what is added later is
  `overlooked`.
* `ImplementsPhaseProgressHolds`, for a configuration that does not change
  (`~ConfigMayChange`; section 3 says why). `ProgressInv` adds to `FailureInv` that
  phases are done in their order, that an ended item is done accordingly, and that a
  stale copy is *behind*: what it takes for done is done. `Passed`, which is defined by
  the longest prefix of done phases, is then the number of done phases
  (`PassedCount`), and each write adds none or the next one.
* `ChecksInOrderHolds`, if reads are not stale or the configuration does not change.
  In the first case the phases of the copy are those of the object (`OrderInv`), in the
  second the copy is behind (`ProgressInv`).

**Task** (`KeptnTaskProofs`).

* `TaskTypeCorrect`, `ResultIsRealHolds`, `ResultKeptHolds`. `TaskInv`: every copy
  names a job that was created and has that job's result if it has one, only a job
  that was seen has a result, and a fresh copy about to be written back has the
  object's own result unless the object has none or its job is not there.
* `JobsAccountedForHolds`. `BudgetInv` is an amortised count: the jobs created, plus
  one that a copy which is not fresh may still create, are at most the disturbances so
  far, plus one if the task knows a job that is there.
* `FunctionTaskGuarantees`: the same for the task with its definition. To the task, the
  definition's controller is an environment that changes `definition` and fails calls
  (`FunctionStep`).
* `FunctionTypeCorrect`, `RunsDefinedCodeHolds`. `FunctionInv`: the generated map never
  holds later code than the spec and holds that code when nothing is queued and no
  write was lost; the status names no user's map while the code is inline; what a job
  sought is at most what its map holds now, so at most what its pod will find.

**App versions** (`AppDeliveryProofs`).

* `TypeCorrect` with `TypeInv`: app versions are created in the order of generations,
  and the one being deprecated is older than the newest.
* `SucceededIsRealHolds`, `AppFailureShapeHolds`, `EndIsFinalHolds`. `ItemInv` says of
  every app version and of the copy in memory that an end is a sound one, and that a
  fresh copy that has ended *is* the stored one. The two controllers do not know of
  each other; the conflict on a stale copy is all that keeps one from undoing the
  other's end.
* `SettledUnlessLostHolds`. `SettledInv`: within a reconciliation of the app, the pairs
  of revisions that it has dealt with are settled, unless a call of it has failed:
  the older one is deprecated, or it was not in the cache.

**Evaluation** (`KeptnEvaluationProofs`). `EvaluationTypeCorrect`,
`FailedOnlyAfterRetriesHolds` with `RetryInv` (no copy claims an attempt that was not
made) and `SucceededOnlyIfMetHolds` with `MetInv` (no copy claims an objective that was
not met), the latter for objectives that have a metric each (`OneMetricEach`): the run
`ke_same_metric` shows it false otherwise.

**App creation** (`AppCreationProofs`). `CreationTypeCorrect`.
`UserAppUntouchedHolds`: a write is accepted only from a current copy, and that one
shows the app to be the user's. `VersionsFollowHolds` with `FollowInv`: unless the
workload is queued or its controller was misled by an old copy of the version, the
version that the *cached* workload names has been written.
`ListedUnlessRacedHolds` with `ListedInv`: a cached app of the user's is the app, and
an admitted workload is listed, or has raced, or a request is there whose workloads
have not been listed yet. The attempt to prove an earlier form, which spoke of every
workload with an admitted pod, failed: a third pod that goes back to an older version,
writes the workload and is rejected, leaves the app with the version in between. Two
pods, as in the run, do not show it.

**Metric** (`KeptnMetricProofs`). `WindowBoundedHolds` and `ResultsApartHolds` with
`WindowInv`: the metric being fetched was due in the copy that was read, and a status
replaces exactly the copy it was computed from, so the last result is at least an
interval old.

**Providers** (`KeptnMetricProofs`). `ValueIsMeasuredHolds`, of `ProviderSpec`, for
answers of any size. What counts is what the loops over an answer compute; they are
recursive functions of the round (`Measured`, `Total`, `FlattenSeq`). `LoopRuns` says
that such a function exists, `EveryRound` that a claim which is passed on from round to
round holds for all: the rounds for which it fails would have a least one. So the
values of a series are its points that have one (`MeasuredFacts`), the points of an
answer those of its series (`FlattenFacts`), and a sum lies between its least and its
greatest value times their number (`TotalFacts`), hence the average between the two.
`QueryInv` adds to the property the type of a query.

**SLO converter** (`KeptnMetricProofs`). `MigratedVerdictHolds`, of `ConverterSpec`, for
any numbers. Once percentages are gone (`CleanedOfOne`, `CleanedOfTwo`) there are
three shapes. A single rule is negated exactly (`NegatedRule`); so are two rules that
face each other, off their bounds (`NegatedCriterion`). Rules that are averted hold for no
value if both have to, so the objective is not meaningful, and outside of their range if
one has to (`TwoPass`). With a warning (`PassAndWarning`) the target says what the rules
say if the warning has the larger interval. If the pass criterion has it, the target is
stricter than the rules, and `Gap` finds a value that passes without a warning, so that
the warning does not contain the pass criterion. This is where `DecimalAssumption`
is needed: with rules about 2, 4 and 5 and whole values only, passing (2, 5) and warning
in (2, 4] are the same values, but not the same intervals to the converter.

**Analysis** (`AnalysisProofs`). `AnalysisTypeHolds`, `VerdictRestsOnValuesHolds` and
`ClosedPoolIsQuietHolds`, all three from `Invariant`. The collector only counts: it
closes the channels when it has taken as many results as there were objectives to ask
for. `CountOK` counts with it. A task is in one of five places: left to a worker that
has not begun it, in the hands of a worker, in the channel of a provider type, with an
evaluator, in the channel of results. Every step of the pool moves one task from a place
to the next and the collector takes one out, so the tasks in the pool and the results
collected are together what was to be collected, and a complete count leaves the pool
empty. In the other direction (`Located`) every objective is in one of the places, or
its key has an answer, so that nothing is missing when the pool is empty. Both
hold only as long as the collector goes on (`Live`), because workers drop their tasks
when the context has expired; then it gives up and there is no verdict. `PoolOK` says
that the pool works on the objectives of the definition that was read, and that there
is none between two collections; `RecOK`, that all values are of the timeframe of the
copy in memory. That every missing objective is given to exactly one worker
(`assignTasks`, `extractMissingObjectives`) is a lemma about slices of a sequence. Keys
are any function of templates, and a collected answer is one for a template with its
key. `KeyNeedsNumber` is why a blank answer for a key objective fails the analysis.

**Certificates** (`CertManagerProofs`). `ServedIsValidHolds`, `TrustedWhenDoneHolds` and
`OutageBoundedHolds`, all three from `CertInv`. Manager and operators share nothing but
the secret and the clock, so the invariant is about time. `SecretOK`: whenever the
manager has nothing due, the secret is *recent* (nothing in it is about to expire), so
an interval later it is nearly so, and an operator that looks finds a certificate which
outlives the wait for its next look. `RecOK`: what a reconciliation injects is the
secret, or the secret has been disturbed since the last interval, or the copy the
reconciliation started from was not recent, and then its write is refused; this holds
with a late informer and with writes that succeed but are reported as failed.
`BundleOK`: who trusts the CA trusts the one before. `Good`: an operator's certificate is
of this CA, or of the one before, and then the operator looks again before that one is
replaced in its turn, because a CA outlives the threshold and a wait. After a
disturbance, `ServedOK` counts: the time until the operator's next look and the length
of the outage are together at most the two intervals.

Proving has also shown a difference between the model and the language: TLA+ leaves
open which arm of a CASE with several true guards is taken, while TLC takes the first
one. Operators whose guards overlap are written with IF.

Only model-checked: liveness and everything with fairness, which the prover does not
handle (`Terminates`, `GateOpens`, `AppEnds`, `Completes`, `DecidesUnlessDropped`,
`EventuallyListed`, `CompletedAndReported`, `KeepsFetching`, `ReadersCatchUp`,
`CallableInTheEnd`), and `OthersSurvive` of the API versions. That one compares tables
of fields, kind by kind and version by version; the run goes through all of them, and a
proof would repeat the enumeration.

## 5. Not modelled

Not modelled for good: telemetry and events (output only), the aggregation functions
(floating-point statistics), the SLI converter and the app converter (text to text),
generated deep copies, parameters and secrets of jobs, operator start-up, function
runtimes. Of KeptnConfig only the options that a controller looks at while it
works are modelled. Of the validating webhooks only the rules of the one of
AnalysisDefinition are modelled, as the objectives the scoring starts from; those of
KeptnMetric, Analysis and KeptnTaskDefinition check single fields, and the models start
from objects that they accept.
