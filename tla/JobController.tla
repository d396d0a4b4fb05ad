---------------------------- MODULE JobController ----------------------------
(***************************************************************************)
(* The management side of the operator: the eight reconcilers that turn a  *)
(* custom resource (Backup, Restore, Snapshot, Duplicate, Recover,         *)
(* BlockHeightFallback, Switchover, ChangeOwner) into one Kubernetes Job    *)
(* and report the Job's result in the status of the resource.  The eight   *)
(* Reconcile methods have one shape; what differs is given by the sets     *)
(* ClaimingKinds, MeasuredKinds, by RefOf and by Unconfigured.             *)
(*                                                                         *)
(* Covered: stale informer caches, optimistic locking on status updates,   *)
(* failed API calls, operator crashes, the goroutines that delete finished *)
(* Jobs, deletion and re-creation of resources, Jobs and pods that         *)
(* disappear, resources of two kinds that share a name.                    *)
(*                                                                         *)
(* External: the API server, the Job controller, the garbage collector and *)
(* the informers are modelled from how the reconcilers rely on them.  An   *)
(* informer that lags catches up in one step; an object is removed from    *)
(* the API in one step; the pod list is read without lag.                  *)
(***************************************************************************)
EXTENDS Naturals, FiniteSets

CONSTANTS
  CRs,         \* custom resources: a kind and a name each
  Names,       \* names of custom resources, hence of Jobs and PVCs
  None,        \* "no custom resource"
  KindOf,      \* [CRs -> Kinds]
  NameOf,      \* [CRs -> Names]
  RefOf,       \* [CRs -> CRs \cup {None}], the Backup or Snapshot of a Restore
  Unconfigured,\* Switchovers one of whose nodes has no <node>-config configmap
  Unmeasured,  \* CRs whose Job ends without annotating a size (a Backup on helm)
  Disturbances,\* which of AllDisturbances may happen
  MaxFaults,   \* bound on the disturbances of a behaviour
  MaxUid,      \* [CRs -> Nat], bound on how often a CR is created
  MaxTimers,   \* bound on the pending CleanJob goroutines of a name
  MaxMade      \* bound on the Jobs made for a CR

Kinds == {"Backup", "Restore", "Snapshot", "Duplicate", "Recover",
          "BlockHeightFallback", "Switchover", "ChangeOwner"}

\* Kinds whose jobFor... creates a PVC named after the CR before the Job.
ClaimingKinds == {"Backup", "Snapshot"}

\* Kinds whose reconciler parses a size annotation of the Job's pod.
MeasuredKinds == {"Backup", "Snapshot", "Duplicate"}

\* What users, the cluster and the network may do to the operator.
AllDisturbances ==
  {"crash", "apierror", "deleteerror", "podloss", "deletecr", "deletejob"}

ASSUME NoneAssumption == None \notin CRs
ASSUME CRsAssumption ==
  /\ KindOf \in [CRs -> Kinds]
  /\ NameOf \in [CRs -> Names]
  /\ RefOf \in [CRs -> CRs \cup {None}]
  /\ Unmeasured \subseteq CRs
ASSUME UnconfiguredAssumption ==
  \A c \in Unconfigured : c \in CRs /\ KindOf[c] = "Switchover"
ASSUME DisturbancesAssumption == Disturbances \subseteq AllDisturbances
ASSUME BoundsAssumption ==
  /\ MaxFaults \in Nat
  /\ MaxUid \in [CRs -> Nat]
  /\ MaxTimers \in Nat \ {0}
  /\ MaxMade \in Nat \ {0}

VARIABLES
  cr,        \* the CRs in the API server
  crCache,   \* the operator's informer cache of them
  job,       \* the Jobs in the API server, by name
  jobCache,  \* the operator's informer cache of them
  pod,       \* does the pod of the Job of that name exist
  claim,     \* the PVCs created by the reconcilers, by name
  queue,     \* CRs waiting in the workqueue of their controller
  pc,        \* where the worker of each kind is in Reconcile
  cur,       \* the CR it reconciles
  seen,      \* the copy of that CR it took from the cache
  verdict,   \* the status it is about to write
  timers,    \* pending CleanJob goroutines, by the name they delete
  uids,      \* how many incarnations of a CR there have been
  made,      \* history: number of Jobs created for a CR
  won,       \* history: incarnations of a CR with a Job that succeeded
  lost,      \* history: incarnations of a CR with a Job that failed
  faults     \* disturbances so far

apiVars     == <<cr, job, pod, claim, uids>>
workerVars  == <<pc, cur, seen, verdict>>
historyVars == <<made, won, lost>>
vars == <<cr, crCache, job, jobCache, pod, claim, queue, pc, cur, seen,
          verdict, timers, uids, made, won, lost, faults>>
-----------------------------------------------------------------------------
(* Objects.                                                                *)

Finished == {"Complete", "Failed"}
Statuses == {"", "Active"} \cup Finished

\* A CR: which incarnation it is, whether setDefaultSpec has run, its status.
\* No two versions of one incarnation are equal, so equality of two copies
\* stands for equality of their resourceVersion.
CustomResource == [uid: Nat, defaulted: BOOLEAN, status: Statuses]
NoCR == [uid |-> 0, defaulted |-> FALSE, status |-> ""]

\* A Job: its controller reference (CR and incarnation), which of the Jobs
\* made for that CR it is, and what its status counters say.
Phases == {"New", "Active", "Succeeded", "Failed"}
Ended  == {"Succeeded", "Failed"}
NoJob  == [owner |-> None, uid |-> 0, serial |-> 0, phase |-> "none"]
JobObject == [owner: CRs, uid: Nat, serial: Nat, phase: Phases]

NoClaim == [owner |-> None, uid |-> 0]
Claim   == [owner: CRs, uid: Nat]

SameJob(i, j) == /\ i.owner = j.owner
                 /\ i.uid = j.uid
                 /\ i.serial = j.serial

\* Does the incarnation an object is owned by still exist?
Owned(object) == cr[object.owner].uid = object.uid

Locations == {"idle", "fetched", "claim", "create", "sync", "write"}

TypeOK ==
  /\ cr \in [CRs -> CustomResource]
  /\ crCache \in [CRs -> CustomResource]
  /\ job \in [Names -> JobObject \cup {NoJob}]
  /\ jobCache \in [Names -> JobObject \cup {NoJob}]
  /\ pod \in [Names -> BOOLEAN]
  /\ claim \in [Names -> Claim \cup {NoClaim}]
  /\ queue \in SUBSET CRs
  /\ pc \in [Kinds -> Locations]
  /\ cur \in [Kinds -> CRs \cup {None}]
  /\ seen \in [Kinds -> CustomResource]
  /\ verdict \in [Kinds -> Statuses]
  /\ timers \in [Names -> Nat]
  /\ uids \in [CRs -> Nat]
  /\ made \in [CRs -> Nat]
  /\ won \in [CRs -> SUBSET Nat]
  /\ lost \in [CRs -> SUBSET Nat]
  /\ faults \in Nat
  /\ \A k \in Kinds : pc[k] # "idle" => cur[k] \in CRs

Init ==
  /\ cr = [c \in CRs |-> NoCR]
  /\ crCache = cr
  /\ job = [n \in Names |-> NoJob]
  /\ jobCache = job
  /\ pod = [n \in Names |-> FALSE]
  /\ claim = [n \in Names |-> NoClaim]
  /\ queue = {}
  /\ pc = [k \in Kinds |-> "idle"]
  /\ cur = [k \in Kinds |-> None]
  /\ seen = [k \in Kinds |-> NoCR]
  /\ verdict = [k \in Kinds |-> ""]
  /\ timers = [n \in Names |-> 0]
  /\ uids = [c \in CRs |-> 0]
  /\ made = [c \in CRs |-> 0]
  /\ won = [c \in CRs |-> {}]
  /\ lost = [c \in CRs |-> {}]
  /\ faults = 0
-----------------------------------------------------------------------------
(* The reconcilers.  Each controller has one worker, so Reconcile of a kind *)
(* is sequential; its calls to the API server are steps of their own.      *)

\* The name of the CR under reconciliation, hence of its Job and its PVC.
JobName(k) == NameOf[cur[k]]

\* The worker of kind k ends this Reconcile; "again" stands for a Requeue
\* result or a returned error.
Return(k, again) ==
  /\ pc' = [pc EXCEPT ![k] = "idle"]
  /\ cur' = [cur EXCEPT ![k] = None]
  /\ seen' = [seen EXCEPT ![k] = NoCR]
  /\ verdict' = [verdict EXCEPT ![k] = ""]
  /\ queue' = IF again THEN queue \cup {cur[k]} ELSE queue

Continue(k, location) ==
  /\ pc' = [pc EXCEPT ![k] = location]
  /\ UNCHANGED <<cur, seen, queue>>

\* Take a CR from the workqueue and get it from the cache.  One that is gone
\* ends the Reconcile.
Fetch(c) ==
  LET k == KindOf[c] IN
  /\ pc[k] = "idle"
  /\ c \in queue
  /\ queue' = queue \ {c}
  /\ IF crCache[c].uid = 0
     THEN UNCHANGED workerVars
     ELSE /\ pc' = [pc EXCEPT ![k] = "fetched"]
          /\ cur' = [cur EXCEPT ![k] = c]
          /\ seen' = [seen EXCEPT ![k] = crCache[c]]
          /\ UNCHANGED verdict
  /\ UNCHANGED <<apiVars, crCache, jobCache, timers, historyVars, faults>>

\* Write the copy of the CR back; the API server takes it only if the copy is
\* the latest version.
Put(k, object) ==
  cr' = IF cr[cur[k]] = seen[k] THEN [cr EXCEPT ![cur[k]] = object] ELSE cr

\* setDefaultSpec changed something: Update and requeue.
SetDefaultSpec(k) ==
  /\ pc[k] = "fetched"
  /\ ~seen[k].defaulted
  /\ Put(k, [seen[k] EXCEPT !.defaulted = TRUE])
  /\ Return(k, TRUE)
  /\ UNCHANGED <<crCache, job, jobCache, pod, claim, timers, uids,
                 historyVars, faults>>

\* What the CR names must exist, in whatever state it is: the Backup or Snapshot of a
\* Restore, the configmaps of the two nodes of a Switchover.
RefFound(k) ==
  /\ cur[k] \notin Unconfigured
  /\ RefOf[cur[k]] # None => crCache[RefOf[cur[k]]].uid # 0

\* A Switchover looks only after setDefaultStatus, the others before.
LooksLate(k) == k = "Switchover"

MissRef(k) ==
  /\ pc[k] = "fetched"
  /\ seen[k].defaulted
  /\ LooksLate(k) => seen[k].status # ""
  /\ ~RefFound(k)
  /\ Return(k, TRUE)
  /\ UNCHANGED <<apiVars, crCache, jobCache, timers, historyVars, faults>>

\* setDefaultStatus changed something: Status().Update and requeue.
SetDefaultStatus(k) ==
  /\ pc[k] = "fetched"
  /\ seen[k].defaulted
  /\ LooksLate(k) \/ RefFound(k)
  /\ seen[k].status = ""
  /\ Put(k, [seen[k] EXCEPT !.status = "Active"])
  /\ Return(k, TRUE)
  /\ UNCHANGED <<crCache, job, jobCache, pod, claim, timers, uids,
                 historyVars, faults>>

\* The CR is set up; look for the Job of its name in the cache.
Ready(k) ==
  /\ pc[k] = "fetched"
  /\ seen[k].defaulted
  /\ RefFound(k)
  /\ seen[k].status # ""

\* Mutant: a Failed CR is not finished.
HasCompleted(k) == seen[k].status = "Complete"

HasResult(k) == seen[k].status \in Finished

\* Mutant: cleans whatever the status is.
CleanUpAny(k) ==
  /\ Ready(k)
  /\ timers' = IF jobCache[JobName(k)] # NoJob /\ timers[JobName(k)] < MaxTimers
               THEN [timers EXCEPT ![JobName(k)] = @ + 1]
               ELSE timers
  /\ Return(k, FALSE)
  /\ UNCHANGED <<apiVars, crCache, jobCache, historyVars, faults>>

\* The CR has its result: if its Job is still there, start CleanJob.
CleanUp(k) ==
  /\ Ready(k)
  /\ HasResult(k)
  /\ timers' = IF jobCache[JobName(k)] # NoJob /\ timers[JobName(k)] < MaxTimers
               THEN [timers EXCEPT ![JobName(k)] = @ + 1]
               ELSE timers
  /\ Return(k, FALSE)
  /\ UNCHANGED <<apiVars, crCache, jobCache, historyVars, faults>>

\* Mutant: goes on whether the CR has a result or not.
FindJobAlways(k) ==
  /\ Ready(k)
  /\ Continue(k, CASE jobCache[JobName(k)] # NoJob -> "sync"
                   [] k \in ClaimingKinds          -> "claim"
                   [] OTHER                        -> "create")
  /\ UNCHANGED <<apiVars, crCache, jobCache, verdict, timers, historyVars,
                 faults>>

\* The CR has no result: create the Job, or look at the one that is there.
FindJob(k) ==
  /\ Ready(k)
  /\ ~HasResult(k)
  /\ Continue(k, CASE jobCache[JobName(k)] # NoJob -> "sync"
                   [] k \in ClaimingKinds          -> "claim"
                   [] OTHER                        -> "create")
  /\ UNCHANGED <<apiVars, crCache, jobCache, verdict, timers, historyVars,
                 faults>>

\* Mutant: an existing PVC is taken as it is.
CreateClaimIfMissing(k) ==
  /\ pc[k] = "claim"
  /\ claim' = IF claim[JobName(k)] = NoClaim
              THEN [claim EXCEPT ![JobName(k)] =
                     [owner |-> cur[k], uid |-> seen[k].uid]]
              ELSE claim
  /\ Continue(k, "create")
  /\ UNCHANGED <<cr, crCache, job, jobCache, pod, verdict, timers, uids,
                 historyVars, faults>>

\* jobForBackup and jobForSnapshot create the PVC that receives the data.  An
\* existing PVC of that name is an error.
CreateClaim(k) ==
  /\ pc[k] = "claim"
  /\ IF claim[JobName(k)] = NoClaim
     THEN /\ claim' = [claim EXCEPT ![JobName(k)] =
                         [owner |-> cur[k], uid |-> seen[k].uid]]
          /\ Continue(k, "create")
          /\ UNCHANGED verdict
     ELSE /\ Return(k, TRUE)
          /\ UNCHANGED claim
  /\ UNCHANGED <<cr, crCache, job, jobCache, pod, timers, uids, historyVars,
                 faults>>

\* Create the Job and requeue.  An existing Job of that name is an error.
CreateJob(k) ==
  /\ pc[k] = "create"
  /\ made[cur[k]] < MaxMade
  /\ IF job[JobName(k)] = NoJob
     THEN /\ job' = [job EXCEPT ![JobName(k)] =
                       [owner  |-> cur[k],
                        uid    |-> seen[k].uid,
                        serial |-> made[cur[k]] + 1,
                        phase  |-> "New"]]
          /\ made' = [made EXCEPT ![cur[k]] = @ + 1]
     ELSE UNCHANGED <<job, made>>
  /\ Return(k, TRUE)
  /\ UNCHANGED <<cr, crCache, jobCache, pod, claim, timers, uids, won, lost,
                 faults>>

\* The pod list selects by the UID of the cached Job; it has one item or none.
PodListed(k) ==
  /\ pod[JobName(k)]
  /\ SameJob(job[JobName(k)], jobCache[JobName(k)])

\* The second Get of the Job: it is gone.
LoseJob(k) ==
  /\ pc[k] = "sync"
  /\ jobCache[JobName(k)] = NoJob
  /\ Return(k, TRUE)
  /\ UNCHANGED <<apiVars, crCache, jobCache, timers, historyVars, faults>>

\* The Job runs or has not started: the status stays Active.
SeeRunning(k) ==
  /\ pc[k] = "sync"
  /\ jobCache[JobName(k)].phase \in {"New", "Active"}
  /\ Return(k, FALSE)
  /\ UNCHANGED <<apiVars, crCache, jobCache, timers, historyVars, faults>>

\* The Job failed: the message is read from its pod, an error if that is gone.  (If the
\* status of the Job has no condition yet, Conditions[0] panics: that is Crash here.)
SeeFailed(k) ==
  /\ pc[k] = "sync"
  /\ jobCache[JobName(k)].phase = "Failed"
  /\ IF PodListed(k)
     THEN /\ verdict' = [verdict EXCEPT ![k] = "Failed"]
          /\ Continue(k, "write")
     ELSE Return(k, TRUE)
  /\ UNCHANGED <<apiVars, crCache, jobCache, timers, historyVars, faults>>

\* Mutant: a Job that does not run and did not fail has succeeded.
SeeNotFailed(k) ==
  /\ pc[k] = "sync"
  /\ jobCache[JobName(k)].phase \in {"New", "Succeeded"}
  /\ verdict' = [verdict EXCEPT ![k] = "Complete"]
  /\ Continue(k, "write")
  /\ UNCHANGED <<apiVars, crCache, jobCache, timers, historyVars, faults>>

\* The Job succeeded: kinds that report a size need the pod (if it is gone they
\* return a nil error, so nothing is requeued) and a number in its annotation.
SeeSucceeded(k) ==
  /\ pc[k] = "sync"
  /\ jobCache[JobName(k)].phase = "Succeeded"
  /\ IF k \in MeasuredKinds /\ (~PodListed(k) \/ jobCache[JobName(k)].owner \in Unmeasured)
     THEN Return(k, PodListed(k))
     ELSE /\ verdict' = [verdict EXCEPT ![k] = "Complete"]
          /\ Continue(k, "write")
  /\ UNCHANGED <<apiVars, crCache, jobCache, timers, historyVars, faults>>

\* Status().Update with the result; a conflict is an error.
WriteStatus(k) ==
  /\ pc[k] = "write"
  /\ Put(k, [seen[k] EXCEPT !.status = verdict[k]])
  /\ Return(k, cr[cur[k]] # seen[k])
  /\ UNCHANGED <<crCache, job, jobCache, pod, claim, timers, uids,
                 historyVars, faults>>

Reconcile(k) ==
  \/ SetDefaultSpec(k) \/ MissRef(k) \/ SetDefaultStatus(k)
  \/ CleanUp(k) \/ FindJob(k)
  \/ CreateClaim(k) \/ CreateJob(k)
  \/ LoseJob(k) \/ SeeRunning(k) \/ SeeFailed(k) \/ SeeSucceeded(k)
  \/ WriteStatus(k)
-----------------------------------------------------------------------------
(* CleanJob: when the timer fires the Job of that name is deleted, whatever *)
(* Job that is by then; its pod goes with it.                              *)

Remove(n) ==
  /\ job' = [job EXCEPT ![n] = NoJob]
  /\ pod' = [pod EXCEPT ![n] = FALSE]

\* Mutant: a ticker, which fires again.
CleanJobTicking(n) ==
  /\ job[n].phase \in Ended
  /\ timers' = [timers EXCEPT ![n] = @ - 1]
  /\ Remove(n)
  /\ UNCHANGED <<cr, crCache, jobCache, claim, queue, workerVars, uids,
                 historyVars, faults>>

CleanJob(n) ==
  /\ timers[n] > 0
  /\ timers' = [timers EXCEPT ![n] = @ - 1]
  /\ Remove(n)
  /\ UNCHANGED <<cr, crCache, jobCache, claim, queue, workerVars, uids,
                 historyVars, faults>>
-----------------------------------------------------------------------------
(* The informers.  A CR event enqueues the CR.  A Job event enqueues the    *)
(* owner, except that jobPredicate drops the deletion of an ended Job.     *)

InformCR(c) ==
  /\ crCache[c] # cr[c]
  /\ crCache' = [crCache EXCEPT ![c] = cr[c]]
  /\ queue' = queue \cup {c}
  /\ UNCHANGED <<apiVars, jobCache, workerVars, timers, historyVars, faults>>

jobPredicate(n) == jobCache[n].phase \notin Ended

\* Mutant: updates of an ended Job are dropped like its deletion.
EnqueuedWhileRunning(n) ==
  {o \in CRs : o = job[n].owner /\ job[n].phase \notin Ended}

\* The owners of a new or updated Job and of a deleted one.
Enqueued(n) ==
  {o \in CRs : \/ o = job[n].owner
               \/ o = jobCache[n].owner /\ jobPredicate(n)}

InformJob(n) ==
  /\ jobCache[n] # job[n]
  /\ jobCache' = [jobCache EXCEPT ![n] = job[n]]
  /\ queue' = queue \cup Enqueued(n)
  /\ UNCHANGED <<apiVars, crCache, workerVars, timers, historyVars, faults>>

\* The periodic resync of the CR informers.
Resync ==
  /\ queue' = queue \cup {c \in CRs : crCache[c].uid # 0}
  /\ UNCHANGED <<apiVars, crCache, jobCache, workerVars, timers, historyVars,
                 faults>>
-----------------------------------------------------------------------------
(* The cluster.                                                            *)

StartJob(n) ==
  /\ job[n].phase = "New"
  /\ job' = [job EXCEPT ![n].phase = "Active"]
  /\ pod' = [pod EXCEPT ![n] = TRUE]
  /\ UNCHANGED <<cr, crCache, jobCache, claim, queue, workerVars, timers, uids,
                 historyVars, faults>>

\* The counters of an Active Job change to "phase", for good.
End(n, phase) ==
  LET j == job[n] IN
  /\ j.phase = "Active"
  /\ job' = [job EXCEPT ![n].phase = phase]
  /\ IF phase = "Succeeded"
     THEN /\ won' = [won EXCEPT ![j.owner] = @ \cup {j.uid}]
          /\ UNCHANGED lost
     ELSE /\ lost' = [lost EXCEPT ![j.owner] = @ \cup {j.uid}]
          /\ UNCHANGED won
  /\ UNCHANGED <<cr, crCache, jobCache, claim, queue, workerVars, timers, uids,
                 made>>

\* The program in the pod exits (BackoffLimit 0, RestartPolicy Never).
EndJob(n) ==
  /\ \E phase \in Ended : End(n, phase)
  /\ UNCHANGED <<pod, faults>>

\* Objects whose owner is gone are collected.
Collect(n) ==
  /\ \/ /\ job[n] # NoJob /\ ~Owned(job[n])
        /\ Remove(n)
        /\ UNCHANGED claim
     \/ /\ claim[n] # NoClaim /\ ~Owned(claim[n])
        /\ claim' = [claim EXCEPT ![n] = NoClaim]
        /\ UNCHANGED <<job, pod>>
  /\ UNCHANGED <<cr, crCache, jobCache, queue, workerVars, timers, uids,
                 historyVars, faults>>

\* A user creates the CR, possibly again under a name used before.
CreateCR(c) ==
  /\ cr[c].uid = 0
  /\ uids[c] < MaxUid[c]
  /\ uids' = [uids EXCEPT ![c] = @ + 1]
  /\ cr' = [cr EXCEPT ![c] = [NoCR EXCEPT !.uid = uids[c] + 1]]
  /\ UNCHANGED <<crCache, job, jobCache, pod, claim, queue, workerVars, timers,
                 historyVars, faults>>
-----------------------------------------------------------------------------
(* Disturbances.                                                           *)

Disturb(d) ==
  /\ d \in Disturbances
  /\ faults < MaxFaults
  /\ faults' = faults + 1

\* A call of the reconciler fails (a call that took effect but whose answer is
\* lost is the effect followed by this).
FailReconcile(k) ==
  /\ Disturb("apierror")
  /\ pc[k] # "idle"
  /\ Return(k, TRUE)
  /\ UNCHANGED <<apiVars, crCache, jobCache, timers, historyVars>>

\* The deletion in CleanJob fails; it is only logged.
FailCleanJob(n) ==
  /\ Disturb("deleteerror")
  /\ timers[n] > 0
  /\ timers' = [timers EXCEPT ![n] = @ - 1]
  /\ UNCHANGED <<apiVars, crCache, jobCache, queue, workerVars, historyVars>>

\* The operator process ends and another starts: it lists everything, and
\* every CR is enqueued.
Crash ==
  /\ Disturb("crash")
  /\ crCache' = cr
  /\ jobCache' = job
  /\ queue' = {c \in CRs : cr[c].uid # 0}
  /\ pc' = [k \in Kinds |-> "idle"]
  /\ cur' = [k \in Kinds |-> None]
  /\ seen' = [k \in Kinds |-> NoCR]
  /\ verdict' = [k \in Kinds |-> ""]
  /\ timers' = [n \in Names |-> 0]
  /\ UNCHANGED <<apiVars, historyVars>>

\* The pod of a Job is removed (its node is lost, it is evicted or deleted).
LosePod(n) ==
  /\ Disturb("podloss")
  /\ pod[n]
  /\ pod' = [pod EXCEPT ![n] = FALSE]
  /\ IF job[n].phase = "Active"
     THEN End(n, "Failed")
     ELSE UNCHANGED <<cr, crCache, job, jobCache, claim, queue, workerVars,
                      timers, uids, historyVars>>

DeleteCR(c) ==
  /\ Disturb("deletecr")
  /\ cr[c].uid # 0
  /\ cr' = [cr EXCEPT ![c] = NoCR]
  /\ UNCHANGED <<crCache, job, jobCache, pod, claim, queue, workerVars, timers,
                 uids, historyVars>>

DeleteJob(n) ==
  /\ Disturb("deletejob")
  /\ job[n] # NoJob
  /\ Remove(n)
  /\ UNCHANGED <<cr, crCache, jobCache, claim, queue, workerVars, timers, uids,
                 historyVars>>
-----------------------------------------------------------------------------
Disturbance ==
  \/ \E k \in Kinds : FailReconcile(k)
  \/ \E n \in Names : FailCleanJob(n) \/ LosePod(n) \/ DeleteJob(n)
  \/ \E c \in CRs : DeleteCR(c)
  \/ Crash

Next ==
  \/ \E c \in CRs : Fetch(c)
  \/ \E k \in Kinds : Reconcile(k)
  \/ \E n \in Names : CleanJob(n)
  \/ \E c \in CRs : InformCR(c)
  \/ \E n \in Names : InformJob(n)
  \/ Resync
  \/ \E n \in Names : StartJob(n) \/ EndJob(n) \/ Collect(n)
  \/ \E c \in CRs : CreateCR(c)
  \/ Disturbance

Spec == Init /\ [][Next]_vars

\* The workers, the timers, the informers and the cluster keep going; users and
\* disturbances need not.  A workqueue serves every item (strong fairness: the
\* worker is idle again and again).
Fairness ==
  /\ \A c \in CRs : SF_vars(Fetch(c)) /\ WF_vars(InformCR(c))
  /\ \A k \in Kinds : WF_vars(Reconcile(k))
  /\ \A n \in Names : /\ WF_vars(CleanJob(n)) /\ WF_vars(InformJob(n))
                      /\ WF_vars(StartJob(n)) /\ WF_vars(EndJob(n))
                      /\ WF_vars(Collect(n))

FairSpec == Spec /\ Fairness
-----------------------------------------------------------------------------
(* Properties.                                                             *)

\* A result is final: as long as a CR is not deleted, a Complete or Failed
\* status is never overwritten, neither by a reconcile that works on a stale copy
\* nor after its Job has been cleaned (Reconcile's finished branch and the
\* resourceVersion of Status().Update).
ResultIsFinal ==
  [][\A c \in CRs : cr[c].status \in Finished /\ cr'[c].uid = cr[c].uid
                      => cr'[c].status = cr[c].status]_vars

\* The status tells the truth about this incarnation's own Job: Complete only if
\* it succeeded, Failed only if it failed (the jobs are found by name only).
OwnResult ==
  \A c \in CRs : /\ cr[c].status = "Complete" => cr[c].uid \in won[c]
                 /\ cr[c].status = "Failed" => cr[c].uid \in lost[c]

\* The operation of a CR is run at most once per incarnation: crashes, failed
\* calls and stale caches never create a second Job.
AtMostOneJob == \A c \in CRs : made[c] <= uids[c]

\* CleanJob takes no result away: the Job it deletes is one whose CR has a status
\* that says how it ended, or is gone.
CleanedAfterReport ==
  [][\A n \in Names : CleanJob(n) /\ job[n] # NoJob =>
       \/ ~Owned(job[n])
       \/ cr[job[n].owner].status \in Finished]_vars

\* Every CR gets its result although the operator may crash and calls may fail; a
\* Restore made before its Backup waits for it.  (A Switchover whose nodes have no
\* configmaps gets none.  Of the kinds that make a PVC first ActiveGetsJob speaks.)
EventuallyReported ==
  \A c \in CRs :
    /\ cr[c].uid # 0 /\ KindOf[c] \notin ClaimingKinds /\ c \notin Unconfigured
    /\ RefOf[c] # None => cr[RefOf[c]].uid # 0
    ~> cr[c].status \in Finished \/ cr[c].uid = 0

\* The Job of a CR that has its result is deleted in the end, although a crash
\* loses the timers.  (A deletion that fails is only logged; the next resync of the
\* informers, hours later, starts another timer.)
EventuallyCleaned ==
  \A c \in CRs : cr[c].status \in Finished ~>
                   job[NameOf[c]].owner # c \/ cr[c].uid = 0

\* A Job that writes into a PVC of its own name has that PVC: it belongs to the
\* same incarnation of the same CR, also after the name has been used again
\* (an existing PVC is an error in jobForBackup and jobForSnapshot).
ClaimIsOwn ==
  \A n \in Names :
    /\ job[n] # NoJob
    /\ KindOf[job[n].owner] \in ClaimingKinds
    /\ Owned(job[n])
    => claim[n] = [owner |-> job[n].owner, uid |-> job[n].uid]

\* What remains of OwnResult when names are reused or shared: no result without
\* a Job of that name that ended so.
ResultOfName ==
  \A c \in CRs :
    LET namesakes == {o \in CRs : NameOf[o] = NameOf[c]} IN
    /\ cr[c].status = "Complete" => \E o \in namesakes : won[o] # {}
    /\ cr[c].status = "Failed" => \E o \in namesakes : lost[o] # {}

\* "Check if the job already exists, if not create a new one": an Active CR that
\* has no Job gets one.  It does not when the PVC was made and the Job was not.
ActiveGetsJob ==
  \A c \in CRs : cr[c].status = "Active" ~> made[c] > 0 \/ cr[c].uid = 0
=============================================================================
