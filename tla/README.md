# Verification of cita-node-operator

TLA+ models of the operator that runs maintenance operations (backup, restore,
snapshot, switchover, ...) on the nodes of CITA-Cloud chains, the TLC
configurations that check them, and TLAPS proofs about them. Paths such as
`controllers/ttl.go` are relative to the repository.

## 1. The system

The operator has two halves that share nothing but Kubernetes objects.

**Management side** (`main.go`, `controllers/`). One process with nine
controllers of controller-runtime, one worker each. Eight of them reconcile a
custom resource (CR) of the kinds Backup, Restore, Snapshot, Duplicate, Recover,
BlockHeightFallback, Switchover, ChangeOwner: fill in defaults, create one
Kubernetes Job of the CR's name (for Backup and Snapshot a PVC of that name
first), and copy what became of the Job into `status.status`: Active, Complete,
Failed. A goroutine per reconcile of a finished CR deletes the Job after a time.
The ninth reconciles CitaNode, which the repository calls currently unavailable.
All reads go through informer caches, writes go to the API server.

**Execution side** (`pkg/`). The pod of a Job runs `cita-node-cli` once
(BackoffLimit 0, RestartPolicy Never). With action StopAndStart it scales the
node's StatefulSet or Deployment to zero, waits until the node has stopped, runs
commands on its volumes, annotates its own pod with a size or an error log, and
scales up again. A Switchover stops two nodes and exchanges their account
configmaps. It also reads through a cache.

| component | state | operations | interacts by | hard behaviour | what makes it correct |
|---|---|---|---|---|---|
| job reconcilers (`*_controller.go`) | CR status; none of their own but the worker's local copy | `Reconcile`, `setDefaultSpec/Status`, `jobFor...` | CRs, Jobs, PVCs, pods; workqueue | stale caches, conflicts, failed calls and crashes between two calls, names used again or by two kinds | one Job per CR; the status is the result of that Job, and final; every CR gets one |
| clean-up (`ttl.go`, `predicate.go`) | timers in memory | `CleanJob`, `jobPredicate` | Jobs by name | timers lost in a crash, timers that outlive their CR | deletes ended and reported Jobs only; deletes each in the end |
| node operations (`pkg/node/{cloud_config,python,helm}`) | `helmNode.replicas` | `Stop`, `CheckStopped`, `Start`, `Backup`, `Restore`, ... | workload, pods, volumes | cached reads, update conflicts, pods that linger, another program on the same node, an error between stop and start | the data is touched only while the node is down; it is started again, but not on half-written data |
| switchover (`pkg/switchover`) | account names read | `Switch` | two StatefulSets | an error between the two updates, pods that `CheckStopped` does not see | no two nodes run with one account |
| data commands (`pkg/node/behavior`, `pkg/common`) | files | `restore`, `backup`, `Snapshot`, `Archive`, ... | volumes | failure half-way, run again, an archive another one overwrites, two kinds of consensus data | a copy that is restored is the state that was saved; what is asked for is done, to that node only |
| CitaNode (`citanode_controller.go`, `statefulset.go`, ...) | `NodeMap` in memory, status and conditions of the CitaNode | `Reconcile`, `SyncStatus`, ... | StatefulSet, two configmaps, service, pod | memory against status, conditions that do not change, a dropped error, objects of a predecessor, others who scale | the status moves along the life of a node; the StatefulSet ends up as wanted |
| permissions (`job_rbac.go`) | none | `Ensure` | shared ClusterRoleBinding | eight workers read, extend and write it | every namespace stays bound |
| specifications (`jobFor...`, `buildArgs...`, `pkg/cmd`) | none | pure | arguments of the Job | optional fields and flags | the program gets what the CR says |

The hazards of each, at their lines, are listed in `PROJECT.json`.

## 2. Modules

| module | models |
|---|---|
| `JobController` | the eight job reconcilers, `CleanJob`, the predicate, the informers, the Job controller and the garbage collector |
| `Task` | what a CR promises its user: accepted, run once, reported for good |
| `JobTask` | the refinement mapping from `JobController` to `Task`, and the inductive invariant that justifies it |
| `NodeOperation` | the program of a Job at work on one node, for the three ways a node is deployed |
| `JobRbac` | `Ensure` of the workers on the shared ClusterRoleBinding |
| `JobSpec` | from the spec of a CR to the claims, mounts and arguments of its Job, and from these to the flags and places its program uses; functions only |
| `DataFlow` | what becomes of the data of nodes through several CRs: `JobSpec`, the data commands, faults |
| `AccountSwitch` | what a Switchover promises: two accounts are switched in one step or not at all |
| `Switchover` | the program of a Switchover Job on two of several nodes |
| `NodeStatus` | what the status of a CitaNode promises: which status may follow which, and on whose account |
| `CitaNode` | the reconciler of one CitaNode, its objects, the StatefulSet controller and the pod |
| `MCJobController`, `MCNodeOperation`, `MCSwitchover`, `MCCitaNode`, `MCJobRbac`, `MCDataFlow` | small instances for TLC |
| `JobController_proofs`, `JobNames_proofs`, `JobTask_proofs`, `NodeOperation_proofs`, `Switchover_proofs`, `CitaNode_proofs`, `JobRbac_proofs`, `DataFlow_proofs` | theorems |

### JobController

The eight `Reconcile` methods are one text with different types; they differ in
whether a PVC is made first (`ClaimingKinds`), whether a size is parsed from the
pod (`MeasuredKinds`) and whether another CR must exist (`RefOf`). The model has one
worker per kind (`pc`, `cur`, `seen`, `verdict`: where it is, the CR, the cached copy it
took, the status it will write). A step of `Reconcile` runs from one call that
changes the API to the next; reads of the caches happen in the step that uses
them, so everything else may happen between the read of a CR (`Fetch`) and the
write of its status.

| code | action |
|---|---|
| `r.Get` of the CR | `Fetch` |
| `setDefaultSpec` + `Update` + requeue | `SetDefaultSpec` |
| `r.Get` of the referenced Backup or Snapshot, or of the configmaps of a Switchover's nodes | `MissRef` when it is not there |
| `setDefaultStatus` + `Status().Update` + requeue | `SetDefaultStatus` |
| finished branch, `go CleanJob` | `CleanUp` |
| job not found / found | `FindJob` |
| PVC in `jobForBackup`, `jobForSnapshot` | `CreateClaim` |
| `r.Create(job)` + requeue | `CreateJob` |
| second `r.Get` of the Job and the three cases of its status | `LoseJob`, `SeeRunning`, `SeeFailed`, `SeeSucceeded` |
| `Status().Update` | `WriteStatus` |
| a goroutine whose timer fires | `CleanJob`, `FailCleanJob` |
| events and workqueue | `InformCR`, `InformJob`, `Resync` |

A Switchover looks for the `<node>-config` configmaps of its two nodes, and only once its
status is set (`LooksLate`); `Unconfigured` are the Switchovers one of whose nodes has
none. No run has such a CR, which would need a third; the proofs hold with any.

A CR is reduced to its incarnation (`uid`), whether defaults are set, and its
status; a Job to its controller reference, a serial number and its phase; both
are equal to another copy exactly when their resourceVersion would be, so an
update with an old copy is a conflict. `won`, `lost` and `made` are history
variables. Disturbances (`crash`, `apierror`, `deleteerror`, `podloss`, `deletecr`,
`deletejob`) are chosen per run and bounded by `MaxFaults`.

Simplifications: an informer that lags catches up in one step (it never shows an
intermediate version after a later one); an object is removed in one step, not
marked and then removed; pods are listed without lag; the `Ensure` call for
permissions is one of the calls that may fail. `Conditions[0]` of a failed Job is
there; a panic at an empty list would end the operator, which is `Crash`.

### NodeOperation

A program is the sequence of steps its `Node` method performs, for instance
`<<"stop", "check", "begin", "finish", "annotate", "start">>`; `CloudConfig`, `Python` and
`Helm` give it per operation and action. An error replaces what is left by
`"log"`, which is `AddLogToPodAnnotation`. `view` and `fresh` are the cached copy of the
workload and whether it is the latest, so `Stop` and `Start` may conflict; only
cloud-config tries again. `torn` is the set of Jobs that are in the middle of
changing the data or failed there. Pods are counted by state: starting, ready,
closing; `CheckStopped` sees the reported ready replicas, on python also the
number of pods.

### Switchover

As `NodeOperation`, with the steps of `Switch` over two nodes and with the account
in the StatefulSet's template. `half` is the set of Jobs that have updated one
of their two nodes. `RunAgain` says whether anybody starts a switchover after
one that was left half-way.

A node has at most one pod. It runs with the account the template had when it was
made and is unready, ready or closing; it is closed when it is no longer `Wanted` (no
replica, or another account), and ends some time later. The status counts ready pods,
and lags. `CheckStopped` needs a cached status of zero, so it passes with a pod that
starts, is unready or terminates: such a pod is `missed` (history).

| code | action |
|---|---|
| `Stop`, `Start` with `retry.RetryOnConflict` | `Stop`, `Start`, `Conflict` |
| `CheckStopped` | `CheckStopped`, `TimeOut` |
| `GetAccountConfigmap`, `UpdateAccountConfigmap` | the same |
| an error of `Switch` | `Fail`, `AddLog` |
| the StatefulSet controller and the kubelet | `CreatePod`, `BecomeReady`, `ClosePod`, `Gone`, `ReportReady` |

### CitaNode

One worker again, with the places between the calls that change something: `Fetch`
(with `SetDefaultStatus`), `ReconcileParts` (configmap, log configmap, service),
`ReconcileStatefulSet` and `SyncStatus`. `seen` is the copy of the CitaNode, `latest`
whether it is the latest version, so that `Status().Update` succeeds exactly then.
The CitaNode and its StatefulSet are read from caches that lag (`behind`); the pod and
the other parts without lag. `NodeMap` is set to the status in `Fetch` and to the
status that `Change` calls for in `ReconcileStatefulSet`, also if `Update` fails, whose
error `ReconcileAllRecourse` drops. Of the conditions the model keeps the reason of
`PodReady` and the message of `ExternalTrigger`, because `SetStatusAndCondition` writes
the status only when a condition changes. The containers are one value (`Images`)
that is the same or not.

| code | action |
|---|---|
| `r.Get`, `SetDefaultStatus`, `NodeMap.Store` | `Fetch` |
| `ReconcileConfigMap`, `ReconcileLogConfigMap`, `ReconcileService` | `ReconcileParts` |
| `ReconcileStatefulSet` and what `ReconcileAllRecourse` makes of it | `ReconcileStatefulSet` |
| `SyncStatus`, one disjunct per status | `SyncStatus` |
| events, `statefulSetPredicates` | `InformNode`, `InformSts`, `Resync` |

### JobRbac

`pc` is where a worker is in `Ensure` (before each `Get` that decides, before each
`Create` or `Update`), `ns` the namespace of its CR, `seen` the copy of the binding it
read. `objects` are the service accounts and the cluster role, which only exist or not;
`binding` has a version and its subjects in order. Both are read from caches that
lag one update at a time (`Inform`); `Create` fails if the object exists, `Update` if
the copy is not the latest (`Accepted`). An error puts the CR back into the queue.
`ensured` are the namespaces for which some `Ensure` has succeeded, `tampered` that
an administrator has deleted something (history). Disturbances: `crash`, `apierror`,
`subject` (somebody adds a subject), `delete`.

### JobSpec and DataFlow

`JobSpec` has one function per `jobFor...`, with its `buildArgs...`, for any deployment
method and spec. Of a Job it keeps the command, which claim is mounted where, and the
arguments that decide on data: directories, height, algorithms, `clear`
(delete-consensus-data), compression, owner. `Flags` adds the defaults `pkg/cmd` gives
to flags that were not passed, `Source`, `Target` and `Config` are the directories the
three node packages pass on, and `Resolve` turns a directory of the pod into a claim
and a path on it. It has its own `:>` and `@@` for functions of a few arguments, since
the definitions of TLC's cannot be used in a proof.

`DataFlow` lets users ask for resources, one at a time per node, and follows each
through its Job. `store` maps places on claims to directories. The content of "data"
and "chain_data" is one value: which node's chain and up to which height, whether it is
complete, its owner. `by` in a directory says which resource wrote there last.

| code | action |
|---|---|
| a user | `Submit` |
| `jobFor...`, PVC, Job, pod starts, `Stop`, `CheckStopped` | `Prepare` (their steps are in `JobController` and `NodeOperation`) |
| mkdir, `calculateSize`, `cp -a` or `Archive`, `CalcFileMD5` | `BeginBackup`, `EndBackup` |
| checksum, `rm -rf`, `removeConsensusData`, `cp -af` or `UnArchive` | `BeginRestore`, `EndRestore` |
| `cloud-op`, `ChangeOwner` of `SnapshotRecover` | `BeginCloudOp`, `EndCloudOp` |
| `chown -R` | `Chown` |
| annotation, `Start`, result of the Job | `Finish` |
| a command or call fails, the pod is killed | `Break` |
| a user deletes the Job of an Active CR, which is made again | `DeleteJob` |
| the node's own work | `Run` |

What a resource may ask for is `Request`, and `SpecsAssumption` says what a spec must
have for its Job to be made at all: a reference names a CR of the right kind, and the
path of a Backend has a first component, at which nothing else of the pod is mounted.

Each command begins and ends in two steps, between which its target is not whole;
everything else may happen between them. `cloud-op` is not part of the repository: it
is taken to work when its input is whole, has the height and is described by the
right configuration and algorithms. A checksum is the archive's content. Files have
an owner, users and groups are not told apart.

## 3. What is checked

| run | instance | shows |
|---|---|---|
| `MCJobIsolated` | a Backup and the Restore of it, a crash or a failed call, fairness | `TypeOK`; the status is the result of the CR's own Job (`OwnResult`), of which there is one (`AtMostOneJob`); a Job is cleaned only after its result was reported (`CleanedAfterReport`); the controller implements `Task` (`ImplementsTask`); the result is reported in the end (`EventuallyReported`) and the Job deleted (`EventuallyCleaned`) |
| `MCJobNames` | a Backup that annotates no size and a Snapshot of the same name, the Backup created twice, every disturbance | a Job has the PVC of its own CR (`ClaimIsOwn`), a result needs a Job of that name (`ResultOfName`), a result is final (`ResultIsFinal`) |
| `MCNodePython` | three programs one after the other on a python node, failing commands and calls, killed Jobs, unready pods | nothing touches the data while a pod exists (`NodeIsDown`), a program that succeeds has reported its size (`SizeReported`) and started the node again (`StartedAgain`), none starts it on data it left torn (`TornIsNotStarted`) |
| `MCNodeTogether` | two programs at the same time on a cloud-config node, a failing command or an evicted pod, fairness | programs end (`EventuallyEnds`); the node comes up unless one fails (`EventuallyUp`) |
| `MCSwitchover` | two switchovers of two nodes, there and back, one after the other, a failure at any step or a pod that turns unready, fairness | two pods run with one account only while one of them is on its way out and was missed by a `CheckStopped` (`OneSigner`), accounts are switched in one step or not at all (`ImplementsSwitch`), nodes come up (`NodesComeBack`) |
| `MCCitaNode` | one CitaNode, created and then changed, or deleted and created again; one disturbance of any kind; fairness | the status moves along `NodeStatus`, Starting and Stopping only while the CitaNode wants that (`ImplementsNodeStatus`); StatefulSet, log configmap and service end up its own and as wanted (`EventuallyAsWanted`); a node that is left alone ends up Running (`EventuallyRunning`) |
| `MCJobRbac` | two workers, two namespaces, one disturbance of any kind, fairness | a namespace once ensured stays bound until an administrator interferes (`StaysBound`), no subject is there twice (`OneSubjectEach`) or removed by the operator (`KeepsSubjects`), every namespace with a CR ends up bound (`EventuallyBound`) |
| `MCDataFlow` | two nodes, every method, any three of thirteen resources, one fault | a Restore or Recover brings back exactly what was saved (`RestoresWhatWasSaved`), one with a checksum all or nothing (`CheckedIsAtomic`), a BlockHeightFallback or ChangeOwner does what is asked (`AsAsked`), consensus data is gone where that was asked (`ConsensusCleared`), no other node's data changes (`NodesApart`) |

Four runs show where the code does not do what the repository says of it; each is
a finding in `PROJECT.json` with the line it contradicts:

| run | shows |
|---|---|
| `MCJobStaleResult` | Jobs are looked up by name, so a CR that is deleted and created again takes the finished Job of its predecessor for its own |
| `MCJobClaimCrash` | a crash between PVC and Job: every later attempt fails because the PVC exists |
| `MCNodeNotReady` | zero ready replicas are taken for a stopped node also while a pod starts, is unready or terminates |
| `MCSwitchoverAgain` | a switchover killed between its two updates leaves one account on both nodes; repeating it succeeds and starts both |

`MCNodeNotReady` has a counterpart in a switchover: the pod of the source turns
unready, `CheckStopped` passes, the accounts are switched, and the destination starts
with the account of a pod that is still there, both of them ready or the old one not
even deleted. So "no two pods ever run with one account" is false; `OneSigner` says
that this is the only way it fails: two pods that are both wanted never share an account,
and neither do two that every `CheckStopped` has seen, whatever fails in between.

Known from the models, but without a run of their own: python's `CheckStopped`
takes two terminating pods for none (`len == 1`); two programs on one node start it
under each other's feet; a Backup of a helm node never gets a result because
nothing annotates a size; a Job whose pod is gone leaves its CR Active; a Restore
whose Backup is deleted never cleans its Job; on a helm chain the `Stop` of a program
that follows a failed one remembers zero replicas, and its `Start` restores them.
Of a CitaNode the status may stay behind for good: a crash between the two updates
loses the Stopping (the StatefulSet differs no more, the status stays Running); a
node created Stopped is called Running, since 0 of 0 replicas are ready; Upgrading has
no way out; and a second Stopping that a lagging StatefulSet causes is never left,
because `PodReady` says CitaNodeStopped already. Deleting a CitaNode takes the
user's configmap along.

`CleanJob` deletes by name, so a timer of a deleted CR deletes the running Job of the
one created again under its name.

On a helm chain every Fallback stops all nodes, so of two Fallbacks of different nodes the
second remembers no replicas, and the first starts the node the second works on: with
such a pair in `MCDataFlow` TLC finds a Complete Fallback whose node is not at the height
asked for (`AsAsked`), and at the end no node of the chain runs.

Of the data: a Restore from a Backup that is still Active or has Failed, and any
Restore that fails, has removed the node's data first; a second Duplicate into a
directory with an older copy leaves files of both; a Duplicate and a Recover of one
archive at the same time defeat the checksum, which is computed before the archive
is read again. On python and helm a Restore or Recover mounts a claim with an empty
name and never runs, although examples in the repository's README use python; on
python Backup and Duplicate copy from the claim's root and not from the node's
directory, and fail (the defaults are those of cloud-config); a Duplicate onto the
claim of its own node looks for a directory of the node's name, which only python
has. Unpacked files belong to root. `removeConsensusData` returns after the first
directory it has removed, which matters only to a node that has both.

Read in the code and below what the models keep: a Restore that names neither a
Backup nor a Snapshot makes a nil Job; `RestoreReconciler.snapshot` is a field of the
reconciler, safe only while it has one worker; `ensureRole` never updates a role that
exists; `pkg/cmd/fallback.go` does nothing for an unknown method and succeeds;
`BlockHeightFallback` does not store a defaulted pull policy by itself;
`updateLogConfigMap` detects a changed log configuration and never writes it, so of the
log configmap `EventuallyAsWanted` promises existence and owner only; a Snapshot drops
the error of `calculateSize` and may annotate zero (the models keep that a size is
annotated, not which); helm's `Backup` does nothing and its `Snapshot` and `ChangeOwner`
panic, which no CR of `MCDataFlow` reaches: their Jobs mount claims that are not there.

**Bounds.** The interesting cases need one or two CRs per name and kind, two
incarnations, one or two disturbances: every conflict in the code is between two
parties (a worker and a timer, a worker and a cache, two programs). `MaxTimers = 1`
merges timers of one name, which is enough since each does the same; `MaxMade`
leaves room for one Job more than allowed. `MCDataFlow` allows three resources
(`MaxRequests`): one that saves, one that restores, and one that gets in between or
prepares the ground; a chain that grows once (`MaxHeight`), so that saved and present
states differ; one fault, which is enough to run an operation twice or leave it
half-way. `Retries = 3` stands for the five
attempts of `retry.DefaultRetry`: one, some, and the last. Sizes: 61 thousand
states for `MCJobIsolated`, 1.5 million for `MCJobNames`, 0.8 million for `MCCitaNode`,
0.5 million for `MCJobRbac`, 0.25 million for `MCDataFlow` and `MCSwitchover`, less for the
others. `MCSwitchover` has one failure in two switchovers: a failed first one, a failed
second one, or a pod missed by either; the second undoes the first, so that every old
account comes back to a node whose former pod may still be there. `MCCitaNode` allows two creations or changes (`MaxEdits`): a
predecessor and a successor, or a change that races with the creation; two values
for the containers, of which one (`NewImages`) is that of a new CitaNode.

**Deadlock** is not checked: when all CRs are reported, or all programs have
ended, nothing remains to be done.

**Fairness.** Workers, informers, timers, the Job controller and the garbage
collector keep going (weak fairness); a workqueue serves every item although the
worker is taken again and again by others (strong fairness of `Fetch`: the queue
is first in, first out). Nothing is assumed of users, disturbances or the resync.
Of a program the steps are fair together (`Step(j)`), not one by one: a poll may be
followed by the timeout. In `CitaNode` the resync keeps going too: nothing else wakes
the reconciler after somebody scaled the StatefulSet without effect on its status.
The cluster's actions there are fair together (`Cluster`); no single one need be.
Containers start and get ready in the end; in `Switchover` too, as pods that are to go do go.

## 4. What is proved

With TLAPS, for every value of the constants that satisfies the named
assumptions (kinds, names and references are functions of the CRs; bounds are
numbers):

* `TypeCorrect`: `Spec => []TypeOK` for `JobController`.
* `FinalResult`: `Spec => ResultIsFinal`. The argument: a worker writes only a copy
  that equals the API object (`Put`), and is past the finished branch only with a copy
  whose status is Active (`AtWork`, inductive together with `TypeOK`). It needs no
  assumption on names or disturbances.
* `ResultNamed`: `Spec => []ResultOfName`, and `ClaimKept`: `Spec => []ClaimIsOwn`, both
  also with shared and reused names and every disturbance. For the first, a Job keeps
  its owner and its outcome is recorded when it ends, and caches and verdicts only
  repeat it (`NameInv`). For the second, incarnations are numbered and never come back
  (`uids`), so a worker past `CreateClaim` whose CR is still the incarnation it took has
  the PVC it made (`ClaimInv`); that an existing PVC is an error is what it rests on.
* When every name is used once and nobody deletes CRs or Jobs (`Isolated`):
  `IsolatedInvariant` (`Spec => []IInv`), and from it `IsolatedOwnResult`,
  `IsolatedAtMostOneJob`, `IsolatedCleaning` and `Refinement` (`Spec => ImplementsTask`).

`OwnResult` is not inductive: a worker writes what it concluded from a cached Job,
and may hold a copy of the CR from before the result. `IInv` adds that every copy
(in the cache, in a worker) is an earlier version of the CR (`Earlier`), that every
Job seen is the one made for the CR, with its outcome on record (`JobsAreGenuine`,
`OneOutcome`), and that a Job is missing only after the cache has shown the result
(`CleanedLate`), which is what keeps a stale worker from creating a second one
(`Safe`). That last part fails as soon as a name is used again: exactly what
`MCJobStaleResult` shows.

* For `NodeOperation`, any programs on the node, any number of retries and
  disturbances: `TypeCorrect` and `TornStaysDown` (`Spec => TornIsNotStarted`) for every
  method; `SizeIsReported` (`Spec => []SizeReported`) unless the method is helm; with
  `OneAtATime` (finitely many programs, `AtOnce = 1`, not helm) `NodeIsStarted`
  (`Spec => StartedAgain`), and for python without evictions (`NoEviction`) `NodeStaysDown` (`Spec => []NodeIsDown`).

None of these is inductive, because each speaks of what a program has done, and the
state holds what it has still to do. The steps left keep the order stop, check, begin,
finish, annotate, start (`Ordered`), so the first of them tells what has happened. On
it rest: a program in the middle of its damage can only finish or log (`TornIsHeld`); one that
has not annotated will (`WillReport`); only one program runs, and from its `Stop` to
its `Start` the wanted replicas are zero and `Start` will restore one (`Calm`); there is at
most one pod, it closes only when none is wanted, and from `CheckStopped` to `Start`
there is none (`Quiet`). The lemma `Moves` says what any step does to one program.
`MCNodePython` is an instance of the assumptions; `MCNodeTogether` and
`MCNodeNotReady` are what happens without them.

* For `Switchover`: `TypeCorrect` without assumptions; with `OneAtATime` (finitely many
  Jobs, `AtOnce = 1`, `RunAgain = FALSE`) `OneSignerAlways` (`Spec => []OneSigner`) and
  `SwitchIsAtomic` (`Spec => ImplementsSwitch`).

Between its two updates a switchover leaves one account on two nodes, so the accounts
alone prove nothing, and that a check has passed says nothing of the pods either: they
may be there and not counted. `SInv` says what is known with k steps left (`Progress`):
from the checks on both nodes are scaled down, and a pod that is still there was missed
and is not wanted, so the controller makes none in its place; after the first update
exactly these two nodes share an account (`OneAccount`), and a Job that ends there holds
both down for good. A pod that was not missed was counted, or made later, and has its
node's present account (`OwnPods`). In the refinement the first update is hidden by
`held`, the second is the switch. `MCSwitchoverAgain` shows why `RunAgain = FALSE` is needed.

* For `CitaNode`, whatever the images, disturbances and bounds: `TypeCorrect`
  (`Spec => []TypeOK`), `Invariant` (`Spec => []IInv`) and `Refinement`
  (`Spec => ImplementsNodeStatus`).

The status of a CitaNode is written from a copy and from `NodeMap`, both older than
the write. `IInv` therefore says what they are worth (`Copies`: a worker's copy that
is still the latest is the CitaNode, and has a status) and that `NodeMap` holds
either the copy's status or what `Change` concluded from the copy's own spec
(`Tracked`). With optimistic locking the copy's spec is that of the CitaNode when the
write succeeds, so Starting is written only for a node that is wanted Running.

* For `JobRbac`, for any workers, namespaces and disturbances: `TypeCorrect`
  (`Spec => []TypeOK`), `Invariant` (`Spec => []EnsureInv`), `Bindings` (`Spec => []StaysBound`),
  `NoDuplicates` (`Spec => []OneSubjectEach`) and `NothingRemoved` (`Spec => KeepsSubjects`).

`OneSubjectEach` is not inductive: a worker extends the copy it has read. `EnsureInv`
adds that such a copy is an earlier version (`Copy`: one with the version of the
binding is the binding, and unless something was deleted what it lists is still
listed), that the worker extends it only when its namespace is not in it (`Lacking`),
and that everything a worker has passed on its way through `Ensure`, be it found in a
lagging cache or made, is still there (`Sound`). Every step leaves the binding alone,
adds to it or deletes it (`BindingStep`), and only an administrator's does the last.

* For `DataFlow`, for any nodes, resources, faults and every method: `TypeCorrect`
  (`Spec => []TypeOK`), and under hypotheses on what users ask for all five action
  properties:

  | theorem | property | hypotheses |
  |---|---|---|
  | `NodesKeptApart` | `NodesApart` | `Elsewhere` |
  | `ConsensusIsCleared` | `ConsensusCleared` | `Separate`, `Single` |
  | `DoneAsAsked` | `AsAsked` | `Separate`, `Single` |
  | `CheckedAtomic` | `CheckedIsAtomic` | `Separate`, `SameCopy`, `Single` |
  | `RestoresSaved` | `RestoresWhatWasSaved` | `Separate`, `SameCopy`, `Single` |

Nothing in the code checks these hypotheses; they are what the users of the operator
must see to. `Elsewhere`: no Duplicate goes into the directory of another node.
`Separate`: the Backend of no CR is the claim of a node or the directory of one.
`SameCopy`: a Recover names the place, and the archive, of the Duplicate it is compared
with. `Single`: on helm, where every Fallback stops all nodes, the Fallbacks are of one
node; section 3 says what two of them do. `MCDataFlow` is an instance of all of them
(`UsersAssumption`).

The properties speak of the end of an operation, while the directories pass through
torn states on the way and other programs run. The argument goes up in layers, each
inductive together with those below:

1. `JobFacts`, for every kind of CR and method: what the Job of a CR tells its program,
   through `setDefaultSpec`, arguments, flag defaults and mounts; most of all, which place
   it writes to: its node's directory, the claim of its own name, or the place of the
   Backend. `JobsKnown` says that the Jobs at work are these, `Typed` that what lies on
   the claims has its type. This gives `TypeCorrect` and `NodesKeptApart`.
2. `Orderly`: a node has one resource under way (`Submit` lets users ask for no more), and
   a program that is past `Prepare` and stops its node holds it down. So nobody writes to
   that node's directory except the program, and the node does not run there
   (`Undisturbed`). `Single` is needed here.
3. `Cleared`: once the work is done the consensus data is gone; and `Going`: a Fallback or
   ChangeOwner has the data its program found, half-way or changed as asked.
4. `Reports` and `Checked`: with a calm Recover the archive is the one whose checksum the
   Duplicate reported, and the node has the old data until it is unpacked.
5. `By`, `Saving`, `Saved` and `Bringing`: a directory that carries a CR's name is where
   that CR's program writes; a copy is half made while its program works; when that is
   done it equals the data the node had when it was stopped, as long as it still carries
   the CR's name (`Sound` asks for no more); and it is half brought back while a Restore
   works.

Not proved: liveness, since fairness and ENABLED are out of the prover's reach
(`EventuallyReported`, `EventuallyCleaned`, `EventuallyEnds`, `EventuallyUp`,
`NodesComeBack`, `EventuallyAsWanted`, `EventuallyRunning`, `EventuallyBound`). Every
invariant and every safety property that a passing run checks is proved, some under
the hypotheses named here, and listed under `theorems` in `PROJECT.json`.

## 5. Plan

1. `JobController`, `Task`, `JobTask` and their proofs: done.
2. `NodeOperation` and its proofs: done.
3. `Switchover` with `AccountSwitch` and their proofs: done.
4. `CitaNode` with `NodeStatus` and their proofs: done.
5. `JobRbac` and its proofs: done.
6. `JobSpec` and `DataFlow` and their proofs: done.
7. A composition of `JobController` with `NodeOperation`: the phases of a Job driven
   by the program in its pod; and of `CitaNode` with `NodeOperation`: the reconciler
   scales up a node that a Job has stopped.

## 6. Not modelled

Bytes of files and archives; `cloud-op`, which is another program; names, labels, log
configurations and events as text; affinity, images and pull policies; leader
election, probes and metrics of the manager; generated code; CRDs, charts and
manifests. Overlapping operations on one node are in `MCNodeTogether` only, not in
`DataFlow`.
