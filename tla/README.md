# PVEKube: a TLA+ project

PVEKube is a single Go process with a web UI that builds Kubernetes machine
images on Proxmox VE and creates, scales, upgrades and deletes workload clusters
through Cluster API (CAPI). Everything that takes longer than a request is a
*job*: a row in SQLite, a list of step rows, one goroutine that walks the steps,
log files, and server-sent events for the page that watches it. External
programs (`kubectl`, `clusterctl`, `kind`, Docker, Packer) and two external
services (the Proxmox API and the management cluster) do the work of the steps.

This directory holds TLA+ modules of the parts whose correctness depends on
interleavings, crashes and stale reads, the TLC runs that check them on small
instances, and TLAPS proofs that hold for every instance. `PROJECT.json` is the
machine-readable index: components, runs, the mutant that shows each property
can fail, the source lines of every definition, hazards, findings, theorems.

To repeat the checks, in this directory:

    tlc -workers 2 -config JobEngineSafety.cfg MCJobEngine
    tlapm JobEngineProofs.tla
    tlapm ImagesProofs.tla
    tlc -workers 2 -config MCPanel.cfg MCPanel
    tlc -workers 2 -config MCClusters.cfg MCClusters

## 1. Inventory

| Component (source) | State | Operations | Talks to | Hard behaviour | Correct when |
|---|---|---|---|---|---|
| **Job engine** (`internal/jobs`) | `jobs`, `job_steps` rows; cancel functions; one goroutine per job | `Start`, `StartExclusive`, `Cancel`, `run`, `ReconcileOnStartup` | store, every feature that starts a job | rows outlive goroutines; UPDATE errors are ignored; cancel races with completion | one job per lock key works at a time; rows tell the truth; every job ends |
| **Job event streams** (`jobs.go`, `linefile.go`, `handlers_prereq.go`) | log files, subscriber channels, the page | `Logf`, `publish`, `Subscribe`, replay, status check, tail | job engine, browser | bounded channels drop; replay overlaps publishing; a cursor holds the only connection | a page never shows what is not stored, and learns how the job ended |
| **Cluster upgrade** (`capi/upgrade.go`, `handlers_cluster_detail.go`) | the specs of the CAPI objects, `clusters` row | validate, lock, clone templates, patch control plane, patch workers, wait | job engine, CAPI controllers, templates | validation before the lock; abandoned upgrades; status that lags the spec | one minor version at a time; nodes not newer than the control plane; success means replaced |
| **Cluster lifecycle** (`handlers_clusters.go`, `handlers_cluster_detail.go`, `capi/lifecycle.go`, `capi/status.go`) | `clusters` row, Cluster object | apply, scale, delete, status polling | job engine, management cluster | row inserted before the lock; `deleting` written after the job started; polls with old answers | row and object agree when nothing runs; a refused apply leaves nothing; a delete job that records success has seen the object go |
| **Templates** (`handlers_templates.go`) | `templates` rows, images, `buildMu` | build, validate, record, delete | job engine, image builder, Proxmox | busy check against rows after a restart; check-then-destroy | an image in use is kept; one build at a time; a row for each image |
| **Image builder** (`internal/imagebuilder`) | a git checkout, a container | run Packer in Docker | templates | the container survives the process | see templates |
| **Proxmox connections** (`handlers_proxmox.go`) | `proxmox_connections` rows, the first of them primary; the selected host in `app_state` | connect, select, refresh, disconnect (cascades) | Proxmox API, templates, clusters, their Secrets | a check, ten seconds, an insert; one selection for all tabs; forms and jobs that outlive a connection | hosts stay apart; work goes where the page said; no row dangles; no cluster gets another host's credentials |
| **Proxmox API client** (`internal/proxmox`) | none | calls, `WaitTask`, ISO download | Proxmox | a failed poll abandons a task that goes on | a task reported done is done |
| **Prerequisites** (`internal/prereq`) | tools on the host | check, fix (a job) | job engine | two fixes of one tool share a temporary file | a tool is either the old or the new one |
| **Cluster form, preview, apply** (`handlers_clusters.go`, `cluster_preview.html`) | none: the page carries the form | parse, check, render, post again, plan the job | generation, addons, lifecycle | the apply sees only what the page's hidden fields carry | what is applied is what was shown |
| **Cluster form defaults** (`cluster_defaults.go`) | the `cluster_defaults` row | merge and save, forget | store | remembered field by field over several forms | what comes pre-filled is a form that may be sent |
| **Command runner** (`internal/runner`) | one child process | run, stream lines, cancel | every step | cancel after success; a line over 1 MB | the outcome is the command's |
| **IP plan** (`internal/ipplan`) | none | validate ranges, count addresses | apply form | IPv4 as numbers | a plan accepted has room, and machines get neither the gateway nor the endpoint |
| **Authentication, sessions, CSRF** (`internal/auth`, `server.go`) | `sessions` rows; tokens in memory | setup, login, logout, expiry | every handler | memory is lost in a restart, rows are not | an expired session is never used |
| **Secrets and redaction** (`internal/secrets`) | a key; values to mask | seal, open, mask | job logs | overlapping values | no registered value is shown |
| **Store, start-up, configuration** (`internal/store`, `cmd/pvekube`) | the database, one connection | migrate, reconcile, listen | all | a second process on one data directory | reconcile touches only what a dead process left |
| **Manifest generation** (`capi/generate.go`, `registry.go`, `oidc.go`, `credentials.go`, `trust.go`, `ignition.go`) | none | five passes over the documents clusterctl renders | preview | each pass may undo an earlier one; images differ in where they look | every node boots and trusts what it should |
| **Post-provision steps** (`capi/addons.go`, `dns.go`) | a kubeconfig on disk, the Corefile | wait for the API server and the nodes, run commands | job engine, workload cluster | an API server that flaps; order of steps; clean-up on each return | the job ends, leaves no credentials, and addons find the DNS they need |
| **Bootstrap, pages** (`internal/bootstrap`, `internal/ui`) | none of their own | sequences of commands, rendering | job steps | | as the steps that run them |

How they interact: handlers validate, then call `Start` or `StartExclusive`
(keys such as `cluster:<name>`) and return a job id; the page opens a stream of
that id; the job's steps call external programs and write the feature's own
rows; the next request reads those rows. Nothing else synchronises features:
the lock key is the only mutual exclusion that spans a job's life, `buildMu`
and `Engine.mu` protect a few statements each.

## 2. Modules

| Module | Models | State → code | Actions → code |
|---|---|---|---|
| `ResourceLock` | what `StartExclusive` promises (abstract) | `holders`, `past`: who has each key | `Acquire`, `Release` |
| `JobEngine` | the engine, its rows, crashes, a second process | `status`, `lockKey`, `step` are columns; `pc`, `idx`, `outcome` are `run`'s program counter, `i`, `finalStatus`; `cancels`, `ctxDone` the map and the contexts; `phase` is start-up | one action per transaction, UPDATE, context read or critical section of `start`, `run`, `failJob`, `Cancel`, `ReconcileOnStartup` |
| `JobStream` | what a browser sees; EXTENDS `JobEngine`, each step is an engine step with its publish or leaves the engine alone | `file` the log files, `logPath` the `log_path` columns, `outbox` what the goroutine publishes next, `channel`/`open` the subscriber channels, `conn` the pool's one connection, `handler`/`row` the place of `handleJobStream`, `seen`/`view`/`final` the page, `gaps`, `blind`, `fromChannel` history | `Log`, `Publish`, `CloseSubscribers`, and the handler's `Subscribe`, `OpenRows`, `ReplayRow`, `EndReplay`, `CheckStatus`, `Receive`, `EndOfChannel`, `Leave`, and its error branches `SkipRow`, `ReplayFails`, `CheckFails` |
| `ClusterUpgrade` | upgrades of one cluster, CAPI as environment, template deletion; composes `ResourceLock` | `declared` the templates named by the two specs, `noticed` what each controller last reconciled, `runs` what each machine was cloned from, `place` handler then job of each request, `templates`/`images`/`deleting` the rows, VMs and delete handlers | `Validate`, `StartJob`, the four steps of `UpgradeSpec`, `Stop`, `Crash`, the three stages of `handleTemplatesDelete`, and CAPI's `Notice` and `Replace` |
| `ClusterLifecycle` | apply, scale, status and delete requests for one cluster name; composes `ResourceLock` | `owner`, `status`, `link` the row of `clusters`, `connected` the connections, `object` and `wanted` the CAPI objects, `place`/`asked`/`unmarked` handler then job of each request, `stray` history | `Record`, `StartApply`, `Undo`, the apply job's manifest, `StartDelete`, `Mark`, `MarkFails`, the delete job's request, confirmation and row, `StartScale`, `Patch`, `CountReached`, `Observe`/`WriteStatus`, `Disconnect`, `Stop`, `Crash` |
| `IPPlan` | `ipplan.Validate` over addresses of `Bits` bits | pure | |
| `ClusterForm` | `parseClusterForm` and its sections, the preview page's hidden fields, `saveClusterDefaults`, `ApplySpec`, the commands of each step | pure, over a form record | |
| `Manifest` | `Generate` and its passes, over files, commands and flags of the documents | pure | |
| `Corefile` | the private DNS block, over lines | pure | |
| `Provision` | one cluster from form to the end of its apply job; uses the four above | `form`, `shown`, `manifest` the page, `remembered` the defaults row, `place`/`step`/`command` request then job, `streak`/`waited` the waits, `held` the kubeconfig file, `corefile`/`served` CoreDNS | `Preview`, `Apply`, `Forget`, the two gates (`FindSecret`, `Probe`, `PollFails`), `CountNodes`, `NodesReady`, `PatchCorefile`, `RestartCoreDNS`, `RunCommand`, `SkipStep`, `Stop`, `Die`, and the workload cluster's own steps |
| `Images` | template builds, validations and deletions, on one checkout | `at` handler then job, `vmid`, `vm` Proxmox, `container` Docker, `template`/`rendered` packer.json, `rows`, `used`, `deleting` | the handlers, each step of `BuildSpec` and `ValidateSpec`, the container's phases, `Interrupt`, `Record`, `Look`/`Destroy`/`RemoveRow`, `Crash` |
| `ProxmoxConnections` | the hosts, the tabs that show one of them, and the rows, jobs and Secrets that name one | `live`, `host`, `primary`, `lastId` the table and its AUTOINCREMENT; `remembered` `app_state`; `connecting`/`entered`/`first` a connect request's variables; `panel` what a tab shows; `build`/`template`, `apply`/`cluster` jobs and rows; `secret`, `objects` the management cluster | one action per statement of `handleProxmoxConnect`; `RemoveConnection` with its cascade; `OpenPage`, `LoadPanel`; `StartBuild`, `RecordTemplate`; `Preview`, `RecordCluster`, `WriteSecret`, `ApplyObject`; the removals |
| `JobEngineProofs`, `JobStreamProofs`, `ClusterUpgradeProofs`, `ClusterLifecycleProofs`, `ImagesProofs`, `CorefileProofs`, `ProvisionProofs`, `ProxmoxConnectionsProofs` | theorems | | |
| `MCJobEngine`, `MCJobStream`, `MCClusterUpgrade`, `MCClusters`, `MCPanel` | instances for TLC | | |

`JobEngine` is shown to implement `ResourceLock` (property `ImplementsLock`,
checked and proved, with `holders[k]` mapped to the active rows of key `k`), which is why
`ClusterUpgrade` and `ClusterLifecycle` may use the abstract lock and not repeat the
engine. `MCPanel` holds `Provision` and `Images` side by side, and `MCClusters`
`ClusterLifecycle` and `ProxmoxConnections`: they share no state, so a behaviour of such a run
chooses one of them at its start (`agenda`) and no product is explored.

Abstractions a reader should know of:

* `NumSteps` is one for all jobs; step functions are two outcomes and a choice
  of when. A step that fails does not say why.
* Subprocesses are taken to die with the process. What one already asked of a
  remote service stands (`Stop` in `ClusterUpgrade` lets an interrupted patch
  take effect).
* A page's lines are a set: order and duplicates are not told apart. A replay
  and the channel overlap, so lines do arrive twice; that is what the code does
  and no property is about it.
* CAPI is external: a controller notices a spec late and replaces one machine
  after another, the two roles independently, as the comment in `upgrade.go`
  says. Preflight checks of newer CAPI releases are not assumed.
* `VersionOf` is the numeric core `parseSemver` returns. VM ids, node names and
  machine sizing are part of the template.
* `upset` in `ClusterUpgrade` is a history variable, true once a job started on
  a cluster that had changed since it was validated, or whose machines were
  still being replaced. The code prevents neither (hazards list both), and the
  promise about minor versions holds exactly as long as it does not happen.
* Scale and delete jobs take the same key and are in `ClusterLifecycle`.
* `stray` in `ClusterLifecycle` is history too: a delete was started on a row that was not
  there or not settled (the handler does not look), or a connection was removed while it had
  clusters. What runs is recorded as long as neither happens.
* A form is a record whose fields take a few values each: an address, a
  certificate, junk, nothing. Names, SSH keys, sizes and versions are left out.
  DNS domains and servers are sets, although `ParseDNSList` keeps duplicates.
* `PlanFits` is what the code promises of a plan: one subnet, room, and a range for machines with neither
  the gateway nor the endpoint in it. That the endpoint is not the gateway is only noticed
  when the gateway answers a ping, so `AcceptedPlanFits` adds that the endpoint is not in `Answering`, the addresses
  that answer each ping. Others answer or not as it happens.
* A document of a manifest is its files (directory, name, extension, content, whether
  permissions are stated), its commands before and after kubeadm and its flags. `UpdatesCAs` and `Anchored` say
  which of the three images (`Flavors`) has an `update-ca-certificates`, and where it looks: Ubuntu and Flatcar, each in a
  directory of its own; Rocky Linux has none. `ManifestBoots` promises for Rocky what the code
  achieves: a node pulls from the registry, through containerd's own configuration, and boots
  if the form has no internal CA. See section 5.
* Reads of `handleJobStream` fail at most `MaxFaults` times, at any of its statements, and it goes on as the
  code does: without the row, without the rest of the replay, or with the tail. `gaps` marks a page whose replay was cut
  short or that had an event dropped. `blind` marks a page that went to the tail after its job's channels were closed.
* Three SELECTs whose errors the code discards are taken to succeed (`handlers_proxmox.go:222`, `253`,
  `handlers_templates.go:320`); a failing one counts as zero rows, as if there were nothing yet.
  `Complete` in `ClusterUpgrade` takes six `kubectl` reads as one look (`upgrade.go:335-340`): counts
  only advance while the job holds the lock, so a look over six moments tells no more than one at the last.
* In `ProxmoxConnections` a connection's host is its (url, token_id), which no statement updates. Builds and
  applies have only the steps that name a connection; the others are in `Images`, `Provision` and
  `ClusterLifecycle`. `Collect` is external: as the comment of `EnsureConnectionCredentialsSecret` tells,
  a Secret goes with the last object that refers to it. An object counts as an owner as soon as it
  is applied. Two history variables say what the code does not prevent: `overlapped`, that two connect
  requests were under way at once, and `exposed`, that an apply's Secret was collected between the
  step that wrote it and the step that creates the object.
* A command of a step succeeds (`RunCommand`) or ends the job (`Stop`); only
  those whose effect a property needs have actions of their own.
* The form is remembered (`Remember`) in the step that starts the job. A concurrent save or
  forget that falls between its read and its write is not modelled.
* Packer, Docker and Proxmox are external in `Images`: a container goes from started to a VM
  half made to an image, or fails, and cleans up or does not. An id is free when
  Proxmox says so. A container that docker does not remove counts among `mishaps`.

## 3. Runs

Safety is checked without fairness, and the runs with liveness use no symmetry.

| Run | Instance | Distinct states | Shows |
|---|---|---|---|
| `engine_safety` | 2 jobs, 3 steps, 1 key, 1 crash, 1 failing UPDATE | 560 k | exclusion by key, order of steps, honest final rows, no stale active row once the process serves, finality of rows, refinement of the abstract lock |
| `engine_live` | 2 jobs, 1 step, 1 crash, a second process | 137 k | a registered cancel ends its job; every job ends if its steps return |
| `stream` | 1 job, 2 steps, 1 page, channel of 3, 1 line a step, 1 crash, 1 lost connection, 1 failing read | 543 k | nothing shown before it is stored; a tail after a whole replay and without drops is complete; every watcher learns, unless blind; readers that read block nobody |
| `upgrade` | 4 versions, 2 requests, 1+1 machines, 1 crash, 1 template deletion | 138 k | one minor version at a time; the control plane's spec leads; success after notice means replaced; a wait ends |
| `clusters` | 3 requests of any kind, 2 connections, counts 1 and 2, 1 crash, 1 removed connection; and 2 hosts, 2 ids with 2 tabs that connect, 2 tabs, 1 build and 1 apply, or 1 tab, 2 builds and 2 applies | 278 k | a row is removed only when the object is gone; what runs is recorded; nothing is applied over; a scale waits for what is declared; every request ends. Hosts added one by one stay apart, and one is primary; what is submitted goes where its panel said; no row dangles; an object finds its own host's credentials |
| `panel` | 227 forms, 3 renderings, 3 Corefiles, 2 memories, deadlines of 1 failed poll, 5 probes; 2 builds, 1 validation, 2 VM ids, 1 mishap | 207 k | nodes boot and trust; an accepted plan fits; the apply is what was shown; pre-filled forms are accepted; DNS before Flux; the Corefile is kept; no kubeconfig is left; an apply ends. One build at a time; rows name their images; a used image is kept; Packer's wait for the reboot survives; a build ends |
| `rival_lock` | 2 jobs, 1 step, a second process | | violation, finding 1 |
| `stream_gap` | 1 job, 1 step, 1 page, no crash | | violation, finding 2 |
| `stream_stalled` | the same, a client that need not read | | violation, finding 3 |
| `upgrade_early`, `upgrade_skew`, `upgrade_template` | 1 request, no crash | | violations, findings 4 to 6 |

Why the bounds are enough to meet the interesting cases: two jobs are needed to
compete for a key, and a third adds no new pair. Three steps give a step with
one before and one after it. One crash at any point, followed by start-up, then
a second life in which the freed keys are used again. One failing UPDATE at any
statement. A channel of three is smaller than the events of one two-step job,
so drops happen, among them the final status. The versions are two minor
versions apart at most (so that a skip is possible) and differ once only in
the patch number. Two upgrade requests are needed for a job that inherits what
an abandoned one left. Bounds are named in the guards: `MaxCrashes`, `MaxLost`,
`MaxRivals`, `MaxLines`, `MaxLeaves`, `MaxFaults`, `MaxDeletes`, `MaxDisconnects`, `MaxMishaps`, `Patience`. The
upgrade, lifecycle and panel runs disable the deadlock
check: requests are used once, and when all are answered the system rests.

Three lifecycle requests give an apply, a delete and one more of any kind, so each
pair meets before, during and after a third. The forms of `panel` are: each combination of image,
registry, OIDC and CA (what nodes are told); each of CNI, DNS and Git (what runs
once they are up); everything at once for Ubuntu and Flatcar; each way one section is wrong or left over
from being switched off; and plans whose gateway, endpoint and range lie in, on and outside the ends of
a subnet of 8 out of 16 addresses, or whose endpoint is the gateway, one that answers a ping and one that
does not. Images are Ubuntu, Rocky and Flatcar. The Corefiles are kubeadm's, one with the block,
and one edited by hand with a block that never ends. Two VM ids are recycled by two builds; two
builds are alike, so they are submitted in order. One failed poll before the deadline is enough for
an API server that answers now and then, since a failure starts the five probes anew. The
run `stream` has no failing UPDATE (`MaxLost` is 0) to stay within minutes; its safety was explored once with one,
and its theorems hold for any number: a lost write of a step's start loses `log_path` with it (`NameLog`), and a replay then
skips the log, as `LogOf` says. The `upgrade` instance was
also explored with three requests (no crash, no deletion: 616 k states) and
with two workers (243 k), with the same result.

In `clusters`, two ids are one that is removed and one added after it, two tabs are a request
and the one that overlaps it, and two applies are a cluster deleted while another is applied, or one on each of
two connections, which takes two builds. Its behaviours about connections look at one of these at a time
(`Limited`, `Undisturbed`); two tabs that connect while one build and one apply are at work are 2.6 million
states, which were explored once for safety, with the same result. Requests, builds, applies, tabs and hosts are alike, since
no definition orders or names any of them, and `InOrder` lets the first ones begin: the order does what a
symmetry set would, and is sound for liveness.
What a run does not check again is the types of modules whose types are proved (`JobStream`, `ClusterUpgrade`,
`ClusterLifecycle`, `ProxmoxConnections`, `Images`) and who holds the lock in `ClusterUpgrade`.

### Fairness

* `Scheduled`: goroutines are scheduled, and a dead process is started again
  (`WF` on each `Engine(j)` and on the two halves of reconciliation). That is the
  Go scheduler and the service manager.
* `CancelObserved`: a step whose context is done returns. Every step passes its
  context to `exec.CommandContext`, an HTTP request or a `select`.
* `StepsReturn` is an assumption inside `EveryJobEnds`, not part of the
  specification: steps that poll have deadlines of their own, but a command may
  hang.
* `ServerFairness` adds that handlers run and an open page retries (that is what
  an `EventSource` does); `ClientReads` is separate, because `stream_stalled`
  is about a client that does not read.
* `LifecycleFairness`: handlers return, jobs go on and their waits have deadlines; teardown and scaling in
  Cluster API are never forced.
* `ProvisionFairness`: the job's goroutine goes on and what it calls returns, with success or
  not; nobody owes it nodes that become ready. A poll that fails is one of its steps, which is why `ApplyEnds`
  rests on the deadlines.
* `ImagesFairness`: a build's own steps go on, `Interrupt` at the timeout among them; its
  container owes nothing.
* `UpgradeFairness`: jobs poll and controllers reconcile. `Stop`, `Crash`,
  cancels, deletions and requests are never forced.

## 4. Proofs

All theorems hold for every value of the constants, under the named
assumptions only: `NumStepsAssumption`, `KeysAssumption`, `BoundsAssumption` (JobEngine) and
`UpgradeAssumption` (ClusterUpgrade), `LifecycleAssumption` (ClusterLifecycle),
`StreamAssumption` (JobStream), `ConnectionsAssumption` (ProxmoxConnections), `ImagesAssumption` (Images), `BitsAssumption`, `ProvisionAssumption`, `AnsweringAssumption`, `FormsAssumption`, `RenderedAssumption` and `CorefilesAssumption` (Provision).
`FormsAssumption` gives the fields of a form their types, and says that what is remembered at first is in order.
`RenderedAssumption` says what a manifest from clusterctl looks like (`IsRendered`: at most one document of each
kind, the fields the passes touch, the template's own command before ours, no OIDC flag that needs a file), with
any files anywhere; `CorefilesAssumption` only that a Corefile is a sequence of lines.

**JobEngineProofs.**
`TypeCorrect`: `TypeOK` is not inductive by itself, since the loop index must be known
to be a step where a step's row is written, and start-up must precede
goroutines; `PlacesFit` says so and the two are inductive together.
`MutualExclusion` needs in addition `WorkersOwnRows`: whoever works has an
active row, and the index keeps active rows of one key apart. It is conditional
on `rivals = 0`, and finding 1 shows that it must be.
`StepsInOrder` and `FinalStatusTrue` rest on `StepsBehind`, which says for each
place of `run` which step rows are pending, succeeded or failed, and on
`FinalRowsAtRest`: the final UPDATE is the last thing a goroutine does to its
row. All of these together are `IInv` (`Invariance`).
The two theorems are conditional on `lost = 0`: rows cannot tell the truth about an
UPDATE whose error was ignored.
`NoSpinnerIsStale` adds that from the first half of reconciliation on every
active row has a goroutine.

The second half is about steps, not states. `HistoryIsFinal` needs
that `run` never goes back to a row (`Ahead`), which holds even when UPDATEs are
lost. `EngineImplementsLock` maps each step to `Acquire` (a submission with a
key), `Release` (a final UPDATE, reconciliation) or a stutter. It uses that a job which
begins already holds its key, and that a row without a submission has none.
`RunNeverTurnsBack` counts: `StepsLeft` bounds what a goroutine has before it by its place and index
(4 for each step of the job and 6 more), each of its own steps lowers it, and cancels, crashes, reconciliation and other
jobs never raise it. It is the half of `EveryJobEnds` that needs no fairness: only not being run can keep a job from its end.

**JobStreamProofs.** `EngineStep` shows that a watched engine is the engine, with no second process, so
that `IInv` and `HistoryKept` are used as they are. `ShownIsKept` follows an event from the outbox through
a channel to the page: what it tells is in its file or row all along (`LinesSafe`, `RowsSafe`).
`TailMissesNothing` needs what is still to come. `NoLineMissed`: each line of a row the handler has read was
shown, is in the channel, or is published next. `NoStatusMissed` says so of statuses, which may be shown
out of order (the replay reads a newer row than the first event in the channel tells): after each older
event follows the row's own one (`Latest`). `EndIsLast`: nothing follows the final event of a job, so the
page that received it has nothing to come. A page that was told by `jobStatus` instead skips its channel, and
finding 2 is about it. `LogsNamed` ties a step's log to its row: while no UPDATE was lost, whatever a file holds, or
is about to be told, is in a file the row names. So the theorem says two things of a page without gaps, for any number of failing reads: it
shows what a refresh would, lost UPDATEs or not, and without lost ones the whole log. All parts together are inductive (`StreamInv`); TLC checked them before the proof,
with a crash, a failing read and a lost UPDATE.
`StreamsLeaveTheEngine` is the refinement of `JobEngine`: whatever pages, channels and replays do, the engine below
is the engine, so its theorems hold of it too.

**ClusterUpgradeProofs.** One inductive invariant, `UpgradeIInv`, carries four theorems.
`UpgradeTypeCorrect` and `KeyIsTheJobs` need only types and the lock.
`MinorByMinor` and `ControlPlaneLeads` need to know that at any time a single
upgrade is under way: `Rolling(a, b)` says that every template in play (specs,
what controllers saw, what machines run) is `a` or `b`, that `b` is a validated
successor of `a`, that the job at work is going from `a` to `b`, and that the new
template arrives first in the spec, then in the controller, then in the machine, the control plane's
spec before the workers'. It survives abandoned jobs because nothing is rolled
back, and a new job replaces the pair `(a, b)` only on a settled cluster: at
rest all is `b`, or all is still `a`. `SuccessMeansReplaced` adds that what the
job at work has patched is still declared, since the lock keeps others out
(`JobDeclares`); it needs no condition on how the job started.

**ClusterLifecycleProofs.** `LifecycleIInv` carries all five properties. `LockIsTheJobs`: the key is held by
exactly the one request whose job is at work. `AppliesOwnTheRow`: an apply between its row and the end
of its job owns the row, since `name` is unique and a row goes only with its delete job or its
own undo. `DeletesAreSettled` and `ObjectsAreListed`: an object has a row, and a delete job at
work found one, unless `stray`. `AppliesStartAfresh`: a row that an apply has just inserted has no object yet.
The lock makes the rest local: between two steps of a job nobody else changes object
or count (`AwaitedCountIsDeclared`, `RemovalMeansGone`).

**ImagesProofs.** `ImagesIInv` has one part for each thing that must not be mixed up.
`OneAtATime` (buildMu and the busy check) makes the rest hold of a single build. `OwnContainers` and
`OwnVMs`: whatever bears a build lies at the id it was given, because an id is given once, before
anything of the build exists. From these, `RowsOwn`: a row's image is at the row's id unless something
took it away (`stale`). `PatchedFirst` follows the checkout: one job clones it, and no job gets past the
rendering and no container starts before its template is patched, so every rewrite of `packer.json`
copies a patched one. A crash may leave containers, but those too start after the patch.

**CorefileProofs.** `PrivateZonesWritten`: of a Corefile of any length the DNS step leaves one block at its end,
keeps the lines of others in their order and is idempotent. `Pick` and `Open` go line by line, so the facts
about them are inductions on the number of lines read: what a prefix leaves is a prefix (`Pick` of two files joined
is the two picks joined), what is picked has only lines that are kept, and a file without markers is
left as it is. The induction theorems of the library take an operator as a parameter; these proofs
apply `WFMin` to the set of numbers for which a statement fails. That `Marked` (a line has an open begin marker
above it) and `Open` (what a reader from the top sees) agree is one of the inductions, and why
`KeepsOthers` is not the definition of `Strip` again.

**ProvisionProofs** has four parts. *The form.* `FaultlessPlanFits`: no error means that
gateway, endpoint and range fit one subnet, `ValidateIsExact` that no other plan is refused, whether or not the
endpoint answers, and `PlansFit` that no job has an endpoint in `Answering`; that a subnet is an interval needs `2^n` to be positive, which
is counted from the subsets of `1 .. n`. `CarriedWhole`: in an accepted form the sections that the page
does not carry are empty, so that all it loses is the pool of a MetalLB that is switched off.
`MergedInOrder`: of two forms in order the merged one is in order. `ProvisionIInv` carries these from
preview to job. `CredentialsGo` is inductive by itself.
*The steps.* `StepsInPlace`: whatever the form, a job has at least four steps, private DNS is the fifth and
no other, and only if it is asked for, and Flux is after the fourth; `CommandsOfStep` gives the commands each may run. `Progress` says where a job
may be, and `ProvisionTypes` follows. `ApplyNearsItsEnd` orders step, gate, command, counted nodes, failed polls and
probes in a row: whatever the job does makes the first of these that changes grow, or ends it, so that a flapping API
server, which resets the probes, pays with a failed poll. It is the half of `ApplyEnds` that needs no fairness. *Private DNS.* `CorefileServed` is the invariant: outside the DNS step CoreDNS runs on the
Corefile there is, and once the job is past the patch the file has its block (`BlockWritten`). It has to allow for the
step's early end, when the file needed no change, and for a reload that comes before the restart.
`FluxFindsItsServer` and `CorefileIsKept` follow, the latter with `PrivateZonesWritten`. *Manifests.* A bootstrap
document is sound when each script it runs and each file its flags name is there (`IsSound`); every pass
keeps it so (`WithFilesSound`, `WithOIDCSound`), and after all but Flatcar's it also has the CAs of the
form (`IsPrepared`) and the registry's configuration. `IgnitionFiles` says what the Flatcar pass makes of the files: none is left under `/usr`, a CA that
lay there lies where the image looks, and what lay elsewhere is as it was. `NodesBoot` follows for whatever clusterctl renders and each image, with Rocky's exception
in the formula.

**ProxmoxConnectionsProofs.** An id means one host for good (`IdsStand`): ids only grow, and the row of
an id never changes. So what a request noted of a connection (`Noted`) stays true whatever becomes of it, and
`PanelsTrue`, `BuildsTrue`, `AppliesTrue` and `SecretsTrue` say so from the panel to the Secret; `SentWhereShown`
and the first half of `CredentialsKept` follow. The other half is `SecretsStay`: whoever counts on a Secret, an
object or an apply between its two steps, finds it or is `exposed`. `RowsStep` needs that a build records one row only, so
no cluster's template moves. `ChecksHold` is for `OneByOneInOrder`: what a connect request has read is
still so when it inserts, as long as nobody else is connecting.

**Only model-checked.** Liveness (`CancelEndsJob`, `EveryJobEnds`,
`EveryWatcherLearns`, `SlowReaderBlocksNobody`, `WaitEnds`, `EveryRequestEnds`, `ApplyEnds`, `BuildsEnd`),
which is out of the prover's reach; of `EveryJobEnds` and `ApplyEnds` the part without fairness is proved. Every invariant and action property of a passing run is proved.

## 5. Findings

1. **A second process frees the locks of the first** (`rival_lock`). `main` reconciles
   the database before it finds the port taken. The running job's row becomes
   `interrupted`, leaves the partial unique index, and another job may take the key.
2. **Lines in the gap are lost when the job ends** (`stream_gap`). `handleJobStream`
   subscribes before the replay "so we never miss a line produced in the gap",
   and returns without draining the channel if the job has ended by the check.
   A refresh shows the whole log.
3. **A client that does not read stops every job** (`stream_stalled`). The replay writes
   to the client while its cursor holds the only database connection.
4. **An upgrade may be reported complete before it begins** (`upgrade_early`). The wait
   never looks at `observedGeneration`, so it may read the counts of the old spec.
   `CompleteOnceNoticed` is what does hold, and it is proved.
5. **Workers may be newer than the control plane** (`upgrade_skew`), because the
   second patch does not wait for the first rollout. `WorkersDeclaredBehind`, about the specs, holds
   while every job starts on a settled cluster, and is proved.
6. **The template a cluster was upgraded to looks unused** (`upgrade_template`):
   `clusters.template_id` is never updated, so its image may be destroyed.

Seen while modelling, without a run of its own:

* A cancel that arrives while the rest of a failed job is being skipped relabels the job as cancelled
  (`jobs.go:220-222`).
* A host may be added twice: the check, the call to the host and the INSERT of `handleProxmoxConnect` are
  separate, and no index backs them (`handlers_proxmox.go:222`); two first connects also become two
  primaries. `OneByOneInOrder` says what holds without overlap, and TLC finds the two rows when
  `overlapped` is dropped from it.
* The list of clusters asks for the active connection again every five seconds (`handlers_clusters.go:126`), so
  below a panel of one host it may show another host's clusters once another tab has selected that one.
* Between the first two steps of an apply job the Secret has no owner but the connection's other clusters: when
  the last of them is deleted just then, the Secret goes with it (`generate.go:495`). TLC finds this when
  `exposed` is dropped from `CredentialsKept`.
* A clone of the image builder that the process did not survive leaves a `.git`, which counts as a checkout from
  then on: every later build fails until somebody removes the directory (`imagebuilder.go:100`; in `Images`,
  `template` stays `"cloning"`).

* Rocky Linux is a supported image (`imagebuilder.go:46`, "Rocky Linux is cloud-init-capable" in `ignition.go:20`),
  but has neither `update-ca-certificates` nor `/usr/local/share/ca-certificates`. With an internal CA,
  `install-internal-ca.sh` fails under `set -e` before kubeadm (`trust.go:159-166`), and the node never
  joins. A registry's CA stays out of the system's store, where `|| true` hides the failure
  (`registry.go:122`); containerd still trusts it. `generate.go:242` says "every node's OS trust store". `NodesBootTrusting`
  states what is left, and TLC refutes it when `UpdatesCAs` is dropped from `ManifestBoots`.
* A plan whose endpoint is its gateway is accepted when the gateway does not answer a ping, or ping
  is not there (`ipplan.go:68-96`, `107-136`): `Validate` compares both with the range but not with each other.
* The form says "clear the host to build this one without a registry" (`clusters_panel.html:311-313`), but a host cleared while a
  CA or a user is left is refused (`RegistryOK`), and likewise the issuer.
* A page whose read of a finished job's status fails tails a channel that nobody will close
  (`handlers_prereq.go:162`), although the page counts on "server closes the stream itself on completion"
  (`job_progress.html:150`). It is `blind` until it loses its connection.

## 6. Plan

What is left, in order of importance.

1. The concurrent save of form defaults, the shared Calico ConfigMap of two clusters' jobs, and a
   second validation.
2. `Sessions`: expiry and the CSRF tokens a restart forgets.
3. Proofs: the part of `EveryRequestEnds`, `WaitEnds` and `BuildsEnd` that needs no fairness, as
   `RunNeverTurnsBack` is of `EveryJobEnds`.

## 7. Not modelled, and why

Password hashing and sealing are functions over bytes. Redaction replaces one string by
another in a fixed order. Bootstrap of the management cluster and the fixes of prerequisites are
sequences of external commands whose order is the job engine's. The discovery snapshot cached for each host is only shown. Sessions and CSRF tokens are rows and map entries that are
looked up and expire. Pages, discovery and views only read. Migrations run once, before anything else. These are listed
in `PROJECT.json` with their sources.

Left out on purpose within modelled parts: names, SSH keys, sizes and node choices of a form, which no
check relates to anything else; the text of YAML and of logs; Helm's and Flux's own
behaviour after they were told what to do; scanning a command's output (`runner.Run`), where a
line over 1 MB ends the reading but not the command.
