# A formal model of fiaas-deploy-daemon

fiaas-deploy-daemon runs in a Kubernetes cluster, watches `Application` objects, and turns
each into a Deployment with its services, ingresses and autoscaler. It reports what becomes
of each deploy in `ApplicationStatus` objects and, if so configured, in the status of the
`Application` itself. This directory holds TLA+ specifications of that behaviour, the TLC
configurations that check them on small instances, and theorems about them checked by TLAPS.

`PROJECT.json` lists components, runs, theorems, the source lines of each definition, and
the hazards the properties are for. Paths below are relative to `src/fiaas_deploy_daemon/`.

## Inventory

| Part | State it keeps | Operations | Talks to |
|---|---|---|---|
| CRD watcher `crd/watcher.py` | the watch client's memory of what it delivered | event → skip, initiate, build the spec, queue; fail | API server (list, watch, status read), lifecycle, deploy queue |
| Deployer `deployer/deploy.py` | deploy queue | take, report RUNNING, apply through the adapter, schedule a ready check, report FAILED | adapter, scheduler, lifecycle |
| Scheduler `deployer/scheduler.py` | priority queue of tasks by time | add, run, put back, drop on API error | ready checks |
| Ready check `deployer/kubernetes/ready_check.py` | job, deadline | read Deployment (and certificates), report SUCCESS or FAILED | API server, lifecycle |
| Life cycle `lifecycle.py` | none: a synchronous signal | initiate, start, success, failed | status handlers, usage reporting, bootstrap |
| Status store `crd/status.py` | `ApplicationStatus` objects, status of `Application` | save inline, save, clean up old ones | API server, deploy logs, `retry.py` |
| Retry `retry.py` | tries per call | two tries on 409, then `UpsertConflict` | every save |
| Adapter `deployer/kubernetes/` | cluster objects of an application | service account, role bindings, service, ingress, Deployment, autoscaler, disruption budget | API server, extension hook |
| Ingress `deployer/kubernetes/ingress*.py` | ingress objects | group items by annotations and issuer, create, delete unused | API server |
| Spec factory `specs/` | none | version transformers, look-up of configured and default values | – |
| Bootstrap `bootstrap/` | last status per application | deploy all bootstrap applications, wait, exit | lifecycle, deployer, scheduler |
| Usage reporting `usage_reporting/` | event queue, started times | put, send with retries | lifecycle, HTTP endpoint |
| Deploy logs `log_extras.py` | log buffers per deploy | append, read, take | logging, status store |
| Process `__init__.py`, `base_thread.py`, `web/__init__.py` | thread liveness | start, health check | Kubernetes' probe |

What makes it hard. Four threads and the cluster work concurrently; jobs of the same
application, even of the same deployment id, are in several threads at once; every API call
may fail before or after it took effect; nothing but the cluster's objects survives a
restart, after which everything is listed again; and the daemon's own status writes come
back to it as watch events.

What makes each part correct:

* **Watcher** – every update leads to one deploy, the last one included; the daemon's own
  writes lead to none; what was done before a restart is not undone.
* **Deployer, scheduler** – jobs keep their order; the Deployment never goes back; each job
  ends in one result, in the right order of reports; a check looks at the right Deployment.
* **Status store** – a status that says a deploy goes on is true; the places a result is
  written in agree; the newest results are kept.
* **Adapter, ingress, deployment** – after a deploy the objects are those of the configuration, and a failure
  part way is repaired by the next deploy; what others own, or the autoscaler decided, is kept; every host
  is served once, by the right issuer; the pod finds its secrets.
* **Spec factory** – a configured value wins over the default, the transformer keeps meaning.
* **Scheduler, ready check** – no check starves, none outlives its deadline, none passes early.
* **Bootstrap, usage reporting** – exit code 0 means every application was deployed; a report tells
  the start of its own deploy, and the server's failures do not stop the others.

## Modules

| Module | Models | Remarks |
|---|---|---|
| `FiaasResources` | the cluster: `Application`s, their watch stream, `ApplicationStatus`es, Deployments; users and controllers | external behaviour, and the writes of `crd/status.py` and the adapter as operators |
| `DaemonThreads` | `base_thread.py`, `lifecycle.py`, the handlers of `crd/status.py` | what all threads share: queues, jobs, reports |
| `CrdWatcher` | `crd/watcher.py` | |
| `Deployer` | `deployer/deploy.py` | |
| `Scheduler` | `deployer/scheduler.py`, `deployer/kubernetes/ready_check.py` | |
| `DeployLifecycle` | the promise of `lifecycle.py` to its observers | abstract specification |
| `DeployDaemon` | `__init__.py`: the system | composes `CrdWatcher`, `Deployer`, `Scheduler`; properties, fairness, inductive invariant, refinement |
| `StatusRegister` | what a report to the status objects promises the thread that makes it | abstract specification |
| `StatusStore` | `crd/status.py`, `retry.py`, the error buffer of `log_extras.py` | the reports of `DaemonThreads`, API call by API call; refines `StatusRegister` |
| `MC...` | | instances for TLC, one for each specification that is run |
| `TimedScheduler` | `deployer/scheduler.py` and `ReadyCheck` again, with due times, delays and deadlines | gives a reason for the fairness `DeployDaemon` assumes |
| `ReadyCheck` | what a ready check reads, and the cluster that rolls a Deployment out | |
| `UsageReporter` | `usage_reporting/`: queue, transformer, retries | |
| `Monitoring` | the end of a deploy: deployer, checks and usage reporter together | composes `ReadyCheck` and `UsageReporter` |
| `Adapter` | `deployer/kubernetes/`: the objects of one application, one after the other | extends `IngressDeployer` |
| `IngressDeployer` | `deployer/kubernetes/ingress.py`: the Ingresses of an `AppSpec` | operators |
| `DeploymentDeployer` | `deployer/kubernetes/deployment/`: the pod of an `AppSpec` | operators |
| `SpecFactory` | `specs/`: look-ups, version 2 to 3, the `AppSpec` of a configuration | operators |
| `Mappings` | `merge_dicts` and `dict.update`: one mapping over another | one operator, defined without TLC's `@@` so that it can be reasoned about |
| `AppObjects` | from a configuration to its Ingresses and pod | composes the three modules above |
| `Bootstrap` | `bootstrap/`, with the deployer and scheduler of the daemon | extends `Deployer` and `Scheduler` |
| `DeployDaemonProofs` | | types, order of jobs and revisions, turn of reports, inductive invariant, refinement; what is kept until the first failure |
| `StatusStoreProofs` | | types, inline status, number of statuses, refinement of the status store |
| `AdapterProofs` | | all properties of `Adapter` |
| `BootstrapProofs` | | the properties of `Bootstrap` |
| `TimedSchedulerProofs` | | waits and verdicts of `TimedScheduler` |
| `MonitoringProofs` | | readiness and reports of `Monitoring` |
| `SequenceLemmas` | | what folds and concatenations compute, by induction |
| `AppObjectsProofs` | | all properties of `AppObjects` |

Names that begin with `Mut` are faulty variants of the definition that follows them. No
specification uses them; put in its place they show that a property can fail (PROJECT.json,
`mutants`).

### How state corresponds to the code

* `app[a]` is the `Application` object: `rev` numbers the user's updates (so it stands for all
  content), `gen` is `metadata.generation`, `id` the label `fiaas/deployment_id`, `bad` a
  configuration that raises `InvalidConfiguration`, `ogen`, `sid` and `res` are
  `status.observedGeneration`, `status.deployment_id` and `status.result`.
* `stream[a]` holds the events on their way to the watcher, as snapshots; `seen[a]` is the version
  the watch client delivered last. The client is a library: it lists all objects when a watch
  starts, filters what it delivered before, and forgets only with the process. (It bounds its
  memory; that is not modelled.)
* `result[a][i]` is the `ApplicationStatus` of id `i`, `rank` its place by
  `fiaas/last_updated`, which decides what `_cleanup` deletes.
* `k8s[a]` is the Deployment: the job it was last written by, its content, and whether its
  status satisfies `_deployment_ready`. New content makes it unready, the same content does not.
* `thread[t]` is where a thread is: `idle`, at one of the two writes of a report (`inline`,
  `status`), between initiation and queueing (`build`), in the adapter (`deploy`), about to start
  a watch (`rewatch`), or `dead`. `n` is its job and `res` the result it reports.
* A job is one deploy: the `Subject` and `AppSpec` of one `Lifecycle.initiate`, numbered in that
  order. `queue` is `deploy_queue`, `tasks` the scheduler's queue.
* `reported`, `faults` and `jobs` are history.

Atomicity: a step lies between two API calls of one thread. In `DeployDaemon`, `_save_status_inline` and
`_save_status` with `_cleanup` are each one step, which succeeds, or raises, having had its effect or not;
`StatusStore` takes them apart, and refines `StatusRegister`, which says just that. The signal of `lifecycle.py` is
synchronous, so a report is part of the thread that makes it, and its exception too.
A check that is neither ready nor late goes back into the queue, which changes nothing here.

In `StatusStore`, which looks inside a report on one application:

* `w[t]` is thread `t`'s report: the call it is about to make (`pc`), id and result, the try it is in, what
  its copy of the object it read is worth to the API server (`copy`), the logs it took out of
  the buffer (`errs`), the statuses left to delete (`todo`), and how its last report ended (`end`).
* A `resourceVersion` matters only in whether it is still current: a copy is `fresh` until somebody else
  writes or deletes the object, then `stale`; an object that was not there is `new` and will be POSTed, all
  others are PUT. The API server refuses (409) a PUT of a stale copy and a POST of
  what exists; a PUT of what is gone is a 404, which is no conflict.
* A time matters only in how it compares: `before` holds, for each status and each thread that is saving, who has
  an earlier time. A thread takes the time before it reads the status, so statuses may be
  stored in another order than that of their times.
* `errors` are the ids with lines in `_ERROR_LOGS`. Only threads that call `set_extras` (`Tagged`) put lines
  there: watcher and deployer, not the scheduler, whose "Timed out" is kept under no application and so
  in nobody's status. The buffer of all logs works the same way and is not modelled.
* `dirty` is history: a report was broken off before its cleanup was through.

Not modelled there: two ids whose names collide (`create_name` hashes them), the removal of the
Application, and labels, annotations and owner references. Deletions of one cleanup come in any order.

In `Adapter`, `k8s` is the record of an application's objects, each known by the number of the `AppSpec` (in `Specs`)
it was last written for. `job` is the running `K8s.deploy`: the object it is at (`step`), and for the Deployment what
it has read (`replicas`), whether its copy is current (`fresh`) and the tries it had. The
Deployment is saved by two reads and a write, and a conflict repeats all of it; the other objects are written in one step, as nobody
else changes them in a way that matters. Each may fail before or after its write, some bindings or Ingresses
having been written. The best-effort quota is read twice (`adapter.py:55` and `:64`, the second
time for the Datadog container); the model reads it once. `service` is the number of the `AppSpec` the Service was written for, or 0
where there is none; the node ports that `_merge_ports` copies from the old Service are left out. A role binding's name is
generated, so a binding is known by its place: 0 is older than the daemon, any other number is the place in the operator's list
that made it. Users have bindings of their own from the start, of roles that are listed and of roles that are not.

An event without the label `fiaas/deployment_id` raises a `ValueError` in the watcher (`watcher.py:110`); in `CrdWatcher` that is one
of the ways in which the handling of an event fails (`HandleEventFails`).

`IngressDeployer`, `SpecFactory` and `DeploymentDeployer` are functions of their input; `AppObjects` calls them in the order
of the code. A domain, and the name of a variable or volume, is the sequence of its parts; an issuer override matches a domain
that it is a suffix of. A configuration is a record with some of the keys of the defaults; `Look(c, d)` is a `_Lookup` of a
part of it beside the part of the defaults. An exception of the factory is `Invalid`; one of a deployer is a guard
(`LacksHttpPort`, `LacksProbe`). `input` is the configuration with what the deploy finds beside it: whether the namespace is
best-effort, and the operator's default source of secrets, which `App` hands on to the deployers.

In `TimedScheduler` all times are relative to now, in seconds: `due` of a task (`execute_at`), `left` until the deadline of
its check, `loop` since the thread looked at its queue. A look, with the calls it makes, and the sleep of a second
after it take `1..MaxLoop` seconds.

In `ReadyCheck`, `spec` and `status` are those of the Deployment with their generations, `pods` those that exist;
`status.up` is history: how many of the new pods were available when the controller counted. In
`UsageReporter` a time is the number of the event it was taken at: the transformer takes it when the event leaves the queue. A POST is two steps,
`Post` and its answer, and nothing says that the answer comes (`open`): neither `session.post` (`usage_reporter.py:102`) nor the
session (`__init__.py:59`) has a timeout.

In `Bootstrap` the main thread stands where the watcher does, `main` says how far `Bootstrapper.run` is, `collected` is what
`StatusCollector` holds. blinker calls receivers in an order it does not promise: `first` says whether the
collector hears of a report before it is written or after.

Failures: `"api"` is a `K8sClientException` or `RetryError`, which deployer and scheduler handle;
`"other"` is any other exception (`UpsertConflict`, `ConnectionError`), which ends a thread
that does not catch it; `"crash"` is the end of the process. A dead thread makes
`HealthCheck.is_healthy` false, so the cluster restarts the daemon (`Restart`).

## Runs

Bounds: `MaxRev` updates per Application (two are needed for old to meet new), `MaxJobs`
initiated deploys (each update, its redelivery after a restart, and a second job under the
same id fit into 3 or 4), `MaxFaults` failures (2: one to break something, one in the
recovery), `Keep` for `OLD_STATUSES_TO_KEEP` (10 in the code: 1 makes cleanup happen at every second id, 2 keeps both ids in sight).
Reaching a bound just stops users, watcher or failures, so the runs do not check deadlock:
an idle daemon has nothing to do.

| Run | Shows |
|---|---|
| `DeployDaemon_restart` | types, order, ready checks, no orphaned status, no rollback, life cycle and the inductive invariant under any two failures in any step, with reused ids and inline status |
| `DeployDaemon_inline` | with inline status, and Applications that may be deleted: one update is one deploy, both places of a result agree, convergence, and every deploy ends |
| `DeployDaemon_crash` | convergence through crashes |
| `StatusStore_threads` | two threads on the same two ids: a report is stored once or raises, it ends, no more statuses stay than may be kept |
| `StatusStore_inline` | a thread and a user of the Application: only reports on the current id replace its status |
| `Adapter` | three deploys of five AppSpecs in any order, with a failing call, an autoscaler and users: the objects are those of the last AppSpec that was deployed, and what others own is kept |
| `AppObjects` | 5,921 configurations of up to three settings, of both versions, with and without the operator's default source of secrets: what a user writes is kept and the rest is defaulted (`ExplicitWins`, `Version2Kept`), names of ports are found (`PortsResolve`), every host and path is served once with one issuer, and so is the pair of a host (`ServedOnce`, `IssuerOfHost`), the pod is sound and has the managed environment (`PodIsSound`, `ManagedEnvWins`) |
| `Bootstrap` | two applications, one of them the daemon: the exit code tells the truth, and the collector has the last word of each deploy |
| `TimedScheduler` | three checks: no starvation, and every verdict in time |
| `Monitoring` | two overlapping deploys of up to two replicas: readiness is real (`ReadyMeansRolledOut`), usage reports are right (`ReportsOwnStart`) and are all sent or given up if no POST stays open (`ReportingCatchesUp`) |

`StatusStore` needs no bound: tries are finite by the code, and neither versions nor times are counted, so users,
threads and failures go on for ever. `Keep = 1` with two ids makes every second report evict
a status, which may be the one another thread is saving; `Tries = 2` is the code's value.

`Adapter`: three deploys are one to leave something behind, one to fail over it and one to repair it (`MaxFaults` 1); the AppSpecs
differ in every object - with and without autoscaler, cpu, ports, Ingresses, and the same id with fewer Ingresses;
`MaxTries = 2` (5 in the code) has a conflict and a retry; the numbers of a Deployment's replicas are those of the
autoscaler's ranges. `AppObjects`: three settings meet every pair of keys the factory relates (ports, checks and
ingresses), each with the values its code tells apart, among them empty lists, zeros and falses. `Bootstrap`: two jobs, one failing
call; two Applications are enough for one to hide the other's status. `TimedScheduler`: with three checks two can pass over the
third; a deadline of 8 seconds is within the delay of 10, and a loop of up to 2 seconds makes tasks overtake
each other; the bound of `NoStarvation` is reached. `Monitoring`: two deploys under own ids; two replicas let
counts of old and new pods add up; `MaxSends = 2` (5 in the code) has a retry and an end of the retries.

Two runs expect a violation:

* `Finding_inline_crash`: with inline status, a crash after INITIATED leaves an Application
  that no restart deploys.
* `Finding_delay` (`RestsBetweenCalls`): a check that is not ready is to be called again after ten seconds, but the scheduler puts a task it finds
  not yet due back as a new one, due in one second: it is called about every two seconds.

While modelling, these came up too; the models follow the code:

* An API error while a ready check runs removes it from the scheduler (`scheduler.py:45`), where
  `docs/design/overview.md` says checks run until they succeed or time out. The status stays RUNNING.
* `observedGeneration` is the generation when a result is written (`crd/status.py:74`), not, as
  `docs/operator_guide.md` says, that of the update which triggered the deploy.
* A 409 whose retries are exhausted arrives at the deployer as `UpsertConflict`, which
  is not among the exceptions it catches while reporting FAILED, though its comment (`deploy.py:93`) says 409 is: the thread ends.
* `get_final_error_logs` takes the logs out of the buffer inside the function that is retried (`crd/status.py:81`).
  After one conflict, a failed deploy's status in the Application has no error in it.
* An application with two types of secrets that both have init containers gets two containers, two mounts and two volumes of
  one name (`secrets.py:165`), which the API server refuses.
* An autoscaler that a new configuration changes or drops is replaced after the Deployment: until then
  it may rescale the new one by its old limits, and a Deployment it has left at another number
  of replicas stays there until the next deploy.
* A look-up lists the keys of the longer of configuration and defaults (`specs/lookup.py:65`). Where a version 2 configuration has as
  many keys as the defaults and one of them is unknown, those it lacks are not listed, and the transformer copies the
  `prometheus` mapping by such a list: what was left out there gets the default of version 3 and not of version 2. The proof of
  `Version2Kept` needs to exclude it.
* `extensions.tls: false` counts as absent: the factory turns a true into `{enabled: true}`, but leaves a false to the look-up, which
  finds nothing said (`specs/v3/factory.py:70-75`). With `use-ingress-tls` at `default_on` the Ingresses have TLS, where
  `docs/operator_guide.md:145` says "unless explicitly disabled in application manifests". `{enabled: false}` is honoured.
* The pair of a host gets what the first item on the host asks for: the loop of `ingress.py:182-186` adds an item on the pair only as
  long as there is none. Of two items on one host the second is missing on the pair, where `docs/operator_guide.md:232` promises
  "an identical ingress [...] with the same path mappings, ports, and annotations".
* A type of secrets with parameters and no annotations, or the other way round, is refused as invalid (`specs/v3/factory.py:273`
  looks both up, and no default has them), where `docs/v3_spec.md:701` says "and/or".
* A http check of a version 2 configuration that names no port is given the port `http` by the transformer (`v2/transformer.py:111`),
  also where the application calls its port otherwise: the pod then has a probe on a port it lacks. In version 3 the check gets the
  application's own port.
* A Service that is no longer wanted is deleted (`service.py:42-49`) before the Ingresses that send to it
  (`ingress_networkingv1.py:85-91`). Between these calls they dangle, and after a failure in between until the next deploy; what
  an earlier deploy of the same id has left dangles for good, as `delete_unused` deletes by id.
* A role that the operator lists twice is bound twice: `role_binding.py:34-58` compares each entry with the bindings it
  found at the start, not with those it has made.
* A POST of a usage report that gets no answer stops all later ones, as there is no timeout and one thread sends them all. Deploys go
  on.
* `strip_defaults` of the version 2 transformer (the `/transform` page) drops what is false, 0 or empty, also where
  the default is something else.

### What the properties need

* `NoOrphan` is for runs up to the first failure: a failed call may leave a status behind (see above).
* `OneDeployPerUpdate` is for one process: a restart deploys again what has not yet succeeded.
* `Converges` assumes an id of its own for each update, as the operator guide asks, and failures
  that are crashes: an event whose handling fails with an API error is not delivered again
  while the process lives. An update that keeps the id of a deploy that succeeded is skipped by design.
* `ResultSettles` assumes `Keep` is at least the number of ids. With less, the late report of an old deploy
  takes the newest place and evicts the status of the newest deployment (`_cleanup` sorts by update, not
  by deployment).
* `DeploysFinish`: a deploy may also end by the removal of its Application, since then the inline write raises and
  the thread gives the job up.
* `AsSpecified` and `NoOldIngress` are about the moment a deploy ends well. `NoOldIngress` leaves out what the
  same deployment id has left: `delete_unused` deletes by id.
* `ScaleIsRecent` leaves out Deployments that somebody has scaled to 0, which start again at the minimum, by design. It
  needs the retry to begin with the read of the replicas; so a number may be written that the Deployment
  had since the try began, but no other.
* `ReferencesHold` is about the objects K8s.deploy makes; ConfigMaps and Secrets that a pod refers to are optional or the user's. It
  says of an Ingress that its Service is there, with the exceptions listed above: while a deploy stands between the deletions, after one
  that has failed, and for Ingresses of the same deployment id.
* `BoundOnce` counts the bindings of a role that the operator lists once.
* `ForeignUntouched` is about every binding and service account that somebody else owns, of listed and of unlisted roles.
* `ExplicitWins` excepts one value that a user can write, `extensions.tls: false`, and says what becomes of it (see above).
* `PortsResolve` excepts one check, the http check of version 2 without a port (see above).
* `ServedOnce` says of a paired host nobody asked for that it has what the first item on the other host of the pair has, and no more. It takes an application's items as they are: two items on one host with different
  annotations are two Ingresses on it, as the user asked. The default hosts have the paths of all items without
  annotations, or the default path if there are none.
* `Version2Kept` and the like compare with what a configuration says; a key that is `null` says nothing (`lookup.py:37`).
* `ManagedEnvWins` leaves the names of the Datadog container's address out of the promise to global variables: `DataDog.apply` adds
  them to the list last.
* `PodIsSound` leaves out pods with two known types of secrets (see above). An application that asks for a type the operator does not
  have gets no secrets at all: the property says so.
* `ExitMeansDeployed`: where the collector is called first, the exit may come before SUCCESS is written, which then
  is lost with the process; the Deployment is right all the same.
* `CollectsLatest` is for runs without failures: a report that raises is collected or not depending on the receivers' order.
* `NoStarvation` bounds the wait of a task that is due by `MaxLoop` seconds for each task in the queue, `TimelyVerdict` that of a check
  whose deadline has passed by the delay of ten seconds more. Neither holds of a scheduler that
  takes tasks in another order, nor (the second) of one that puts tasks back with the full delay.
* `ReadyMeansRolledOut` relies on the controller writing a status that belongs together; the code needs it to, as it
  reads the Deployment once.
* `ReportingCatchesUp` supposes that every POST is answered or refused at some time; it says that nothing else stops the reports, neither
  errors nor retries.
* `ReportsOwnStart` is for ids used once by one application name: started times are kept by these two, without the namespace.
* `Bounded` is for cleanups that are not broken off; until then it counts, besides the statuses that may be kept, one for each
  thread that has stored a result and not listed the statuses yet. A cleanup deletes by the list it has, so it may
  delete a status that was renewed since: `StatusRegister` allows that (`Evict`), and with the code's ten
  statuses it takes ten other deployments in between.
* `ReportsEnd` holds however often others get in between, as the tries are bounded; so it is not the retry that makes a
  report succeed.
* A `SUCCESS` is taken back only where the daemon deploys itself: its deployer reports
  SUCCESS inside the `try` whose handler reports FAILED (`Retracts`).

### Fairness

Weak fairness for each thread's steps, for deadlines and for restarts: threads of one process are scheduled,
time passes, and the kubelet restarts a container that fails its probe. Strong fairness for
`RunCheck(n)`, because readiness comes and goes and the scheduler is busy with others at times, while
its queue is ordered by time, so no check is passed over for ever (`NoStarvation`). In `StatusStore`, weak fairness for the
next API call of each thread in the middle of a report: the client has time-outs. In `Monitoring`, for the usage reporter's
own steps alone, taking an event and starting a POST. Nothing is assumed of the server: that a POST ends is a premise of
`ReportingCatchesUp`, as the code does not see to it. `Adapter`, `AppObjects`, `Bootstrap` and `TimedScheduler` have none: they check safety only. Users, pods, failures
and a watch that ends are not fair: they need not happen.

## Proofs

TLC checks a small instance. The theorems hold for every value of the constants that meets the
assumptions their modules name; no bound has a value in them, so they hold whatever number of updates,
jobs, threads, checks or failures there is.

| Theorem | Of | States |
|---|---|---|
| `TypeCorrect` | `DeployDaemon` | `Spec => []TypeOK` |
| `Inductive` | | `Spec => []IInv`, the inductive invariant |
| `OrderCorrect` | | `Spec => []InOrder` |
| `ChecksCorrect` | | `Spec => []ChecksWhatItDeployed` |
| `RollbackNever` | | `Spec => NoRollback` |
| `Refines` | | `Spec => LifecycleSpec`: the daemon implements `DeployLifecycle` |
| `OrphanNever` | | `Spec => []NoOrphan` |
| `UpdatesDeployOnce` | | `Spec => [](faults = 0 => OneDeployPerUpdate)` |
| `StatusesAgree` | | `~ReuseIds /\ Spec => []InlineAgrees` |
| `StoreInductive` | `StatusStore` | its inductive invariant |
| `StoreTypeCorrect` | | `Spec => []TypeOK` |
| `InlineCurrent` | | `Spec => InlineOfCurrent` |
| `StoreRefines` | | `Spec => RegisterSpec`: reports implement `StatusRegister` |
| `FewStay` | | `Spec => []Bounded` |
| `AdapterInductive` | `Adapter` | its inductive invariant |
| `AdapterTyped` | | `Spec => []TypeOK` |
| `RolesBoundOnce`, `ReferencesNeverDangle` | | `Spec => []BoundOnce`, `Spec => []ReferencesHold` |
| `DeployAsSpecified`, `OldIngressesGone` | | `Spec => []AsSpecified`, `Spec => []NoOldIngress` |
| `UsersUntouched`, `ScaleRespected` | | `Spec => ForeignUntouched`, `Spec => ScaleIsRecent` |
| `BootstrapInductive` | `Bootstrap` | its inductive invariant |
| `ExitIsHonest` | | `Spec => []ExitMeansDeployed` |
| `CollectionIsLatest` | | `Spec => []CollectsLatest` |
| `TimedInductive` | `TimedScheduler` | its inductive invariant |
| `StarvesNever`, `VerdictTimely` | | `Spec => []NoStarvation`, `Spec => []TimelyVerdict` |
| `MonitoringInductive` | `Monitoring` | its inductive invariant |
| `ReadyIsRolledOut`, `ReportsTheirStart` | | `Spec => ReadyMeansRolledOut`, `Spec => []ReportsOwnStart` |
| `Invariance` | `AppObjects` | its inductive invariant |
| `ExplicitWinsHolds`, `Version2KeptHolds` | | `Spec => []ExplicitWins`, `Spec => []Version2Kept` |
| `PortsResolveHolds` | | `Spec => []PortsResolve` |
| `ServedOnceHolds`, `IssuerOfHostHolds` | | `Spec => []ServedOnce`, `Spec => []IssuerOfHost` |
| `ManagedEnvWinsHolds`, `PodIsSoundHolds` | | `Spec => []ManagedEnvWins`, `Spec => []PodIsSound` |

Two of them have a condition that the run of the property has in its constants: `OneDeployPerUpdate` is checked with
`MaxFaults = 0`, and `InlineAgrees` without `ReuseIds`. A user who reuses an id makes two jobs
write one `ApplicationStatus`, and either may be the last.

### Assumptions

Sets are non-empty or finite where it matters (`Apps` of `Bootstrap`, whose list is put in order; `Checks`; `Threads` and
`Ids` of the status store, which are counted), and bounds are natural numbers. Beyond that, in `Adapter`: the
`AppSpec`s are what the factory makes, that is, a minimum of replicas is not over the maximum, and an
autoscaler is enabled just if they differ (`specs/v3/factory.py:108`), and the paths of Ingresses send to ports of the application
(`SpecsAssumption`; `PortsResolve` is where `AppObjects` shows that); and `UnlistedRoles` are not among the operator's `Roles`, a list in which a
role may stand more than once (`RolesAssumption`). What else the `AppSpec`s say of ports and Ingresses is arbitrary.

In `AppObjects`, `Settings` may be any sets of values for any keys, of which a configuration has up to three. Assumed of the values is only what the
code relies on without a check, and only where a property depends on it (`SettingsAssumption`): ports, items and paths are
lists, replicas are numbers, hosts are domains, `tls` written as a boolean has no other keys (`short` stands for it), the secrets are finitely many, nobody can write the
`object()` that stands for "no resources" (`v2/transformer.py:27`), and in version 2 the mappings `prometheus` and `http` have no other keys than
their defaults (see above for what happens else). Of the operator's settings: suffixes are a list, and rewrite rules, pairs
and issuer overrides are about domains (`OperatorAssumption`). A domain is a sequence of `Texts`, which are the strings; the literals
that occur in the modules are named there because the prover does not know that they are strings. `NoneAssumption`:
`None` is no number, no boolean and no text.

### Arguments

**`DeployDaemon`.** `IInv` adds to the properties what they need to be inductive. That the Deployment never goes back follows from:
events of an Application are delivered in the order of its updates, and none is older than a job
made before (`EventsInOrder`); so jobs of one Application carry ever newer content
(`JobsInOrder`); the deployer applies them in the order they were initiated (`InOrder`),
and what it applied is the content of some job not newer than any still to be applied
(`DeploymentInOrder`). A restart empties the queues, but lists the current content. For the life cycle: a
deploy is in one place only (`OnePlace`, from `InOrder`), and whoever has it is about to report what the
last report allows (`ReportsInTurn`); so each report is a step of `DeployLifecycle` and all
other steps stutter.

**Until the first failure** (the last part of `DeployDaemonProofs`) there is no restart and no thread is dead (`Alive`), so a step is one of a few (`CalmStep`).
No status is left behind, because a job leaves the daemon only by a final report, which overwrites
the status of its id, or because its Application is removed, and all statuses with it (`Abandoned`). One update makes one job, because
of its snapshots only the first can ask for a deploy, and it comes before the job made of it (`Fresh`): what the daemon
writes into the Application turns the later ones into snapshots of a status. This needs the
watch client's memory too. The two places of a result agree, because the
`ApplicationStatus` shows the last report on its id (`StatusesReported`), the Application that on its last
update, or what a thread between the two writes is about to report (`OwnStatus`), and without reused ids
these are one job's (`OwnIds`).

**`StatusStore`.** For types and the inline status it is enough to know of each thread that it names an id exactly while it reports,
and that a fresh copy of the Application has the id reported on (`WriterInv`): a step of one
thread spoils copies of the others and changes nothing else of them (`Frame`), so their calls do not
move, and each step of its own is one of the register's or invisible. `Bounded` is a count: a save adds one status and one
thread that has yet to list them; a list leaves all but `Keep` to be deleted; a deletion removes what was not counted.

**`Adapter`.** `IInv` has one part for each object, which says that it is as the `AppSpec` wants it from the step after its
own on (`AccountApplied`, `BindingsApplied`, and so on). Of any earlier time it assumes nothing but the types, so that whatever a
failed deploy left is covered. Each part has to survive what others may do later in the same deploy: users and the
autoscaler, whose ranges may be those of an older `AppSpec`. `ReplicasRead` says that a number
read in a try is one the Deployment had since the try began; a conflict begins another try. `ReferencesHold` follows from
`ServiceApplied` and `IngressesApplied`: from its step on, the Service has the ports of the running deploy's `AppSpec`, and
the Ingresses that are of this `AppSpec` send to no others; after the deletions all that is left has its id.

**`Bootstrap`.** Nothing is done twice here, which makes the invariant one of places: each Application has one deploy (`OneJob`), which is in
one place (`OnePlace`), and its Deployment is that of this deploy (`OwnDeployment`). `SuccessIsReal` and `NoneForgotten` then relate what is
collected to that place, in both orders of the receivers: where the collector comes first, it knows what is about to be
written. `AllReady` says nothing of an Application that was never collected, so the exit code is honest only because the main thread has put each
there itself.

**`TimedScheduler`.** A check is looked at before others that are due later, and those put back come behind it, as they are due later
than now. So the checks ahead of an overdue one only become fewer, one with each look, and it is
overdue by the looks made so far (`OverdueInTurn`). A check is put back only before its deadline, so it is due less than a delay
after it (`DueNearDeadline`), and `NoStarvation` gives the rest of `TimelyVerdict`.

**`Monitoring`.** The arithmetic of readiness is in `CountsAddUp`: the controller counts no pod twice, so if all pods are of the newest
generation and as many are available as wanted, no old one was counted. A started time is kept from the event of
the start to that of the end, if no other deploy has the id (`StartKept`), as events stay in order (`EventsInTurn`).

**`AppObjects`.** Here the invariant is simple - `AppSpec`, Ingresses and pod are what the functions make of the input - and the
functions are the work. Folds and concatenations are recursive functions under `CHOOSE`; `SequenceLemmas` shows by induction on
the naturals (`Induction`, from the library's well-foundedness of `<`) that these functions exist and what their steps are
(`FoldSteps`), so a property of a fold is proved like a loop's, by what holds after each element (`FoldInvariant`, `FlattenRange`).
An instance of the module with the folded operator for `Op` serves each fold.

* `ExplicitWins`: a look-up is what is said, or the default (`LookIs`, `LookedUp`, `LookedUp2`, `LookedUp3`); what the factory
  adds to that is the maximum over the minimum.
* `Version2Kept`: key by key, a value goes through two look-ups, and the second finds what the first has put there; a check goes through
  `V2Check` and back (`TranslatedCheck`, `CheckAgain`), including the one that nobody configured.
* `PortsResolve`: `PortNumber` is always the number of an http port, the last of those of one name (`HttpPortIsPort`).
* `ServedOnce`: `Items` are the own, the default and the paired ones, as sets (`ItemsRange`). `Distributed` is the loop invariant of
  `_group_ingresses`: the groups hold just the items placed so far; a group without annotations has one issuer, which is the one of each
  of its items; no two of them have the same one, nor the same number. So two groups without annotations cannot share a host, as
  its issuer is a function of the host. What pairs add is `Paired`: item by item, a loop that adds the pair of a host nobody has yet adds the first item on
  each pair (`Firsts`, `PairsOf`), which is what the property asks for.
* `IssuerOfHost`: among the suffixes of a host the lengths decide (`SuffixOfLength`), so the longest override is unique (`LongestSuffix`).
* `PodIsSound`: of the types of secrets at most one is usable, so the fold over them changes the pod once or never
  (`PodHasOneSource`), and the pod has one of three shapes (`Shape`). `ManagedEnvWins` is about which of several mappings is
  over which, and that what comes after does not touch the environment (`SecretsKeep`).

### Only model-checked

* Liveness: `Converges`, `ResultSettles`, `DeploysFinish`, `ReportsEnd`, `ReportingCatchesUp`. The prover has no rules for
  fairness and ENABLED.
* What the two findings show: a counterexample is an instance.

## Not modelled, and the plan

What is left to prove:

* `DeployDaemon` with `StatusRegister`: that the one-step reports of `DaemonThreads` are those the register
  allows, which would connect `StoreRefines` to the daemon.

Left out: the parts of pods, services and Ingresses that are copied from the `AppSpec` or the configuration unchanged
(annotations, probes' numbers, update strategy, DNS), the v1beta1 ingress adapter, which makes the same objects in
another form, owner references, and what an extension hook changes; the definitions of the CRDs;
`strip_defaults`; configuration and secrets (read once, before any thread runs); metrics and the bookkeeper's
counters, which nothing in the program reads; log formatting, and the web pages.
