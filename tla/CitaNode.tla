------------------------------ MODULE CitaNode ------------------------------
(***************************************************************************)
(* The reconciler of one CitaNode: it adopts the configmap of the node,     *)
(* creates a log configmap and a service, keeps the node's StatefulSet as   *)
(* the CitaNode wants it, and tracks the node in status.status with the     *)
(* help of NodeMap, a map in memory.                                        *)
(*                                                                         *)
(* Covered: stale informer caches, optimistic locking of the CitaNode and   *)
(* the StatefulSet, failed calls (that of Update is swallowed), crashes,    *)
(* deletion and re-creation, others who scale the StatefulSet, pods that    *)
(* are evicted or not ready.                                                *)
(*                                                                         *)
(* External: the API server, the informers, the garbage collector, the     *)
(* StatefulSet controller and the kubelet.  The pod and the parts other     *)
(* than the StatefulSet are read without lag: a copy of a part that lags    *)
(* only makes the Create or Update fail, which FailReconcile covers, and of *)
(* the pod no property says more than the status does.  A pod is replaced   *)
(* in an upgrade like one that is evicted.                                  *)
(***************************************************************************)
EXTENDS Naturals, FiniteSets

CONSTANTS
  Images,       \* what the containers of the StatefulSet may be made of
  NewImages,    \* which of them a CitaNode may be created with
  Disturbances, \* which of AllDisturbances may happen
  MaxFaults,    \* bound on the disturbances of a behaviour
  MaxEdits      \* bound on what users create and change

AllDisturbances == {"crash", "apierror", "delete", "scale", "evict", "unready"}

ASSUME CitaNodeAssumption ==
  /\ Disturbances \subseteq AllDisturbances
  /\ NewImages \subseteq Images
  /\ MaxFaults \in Nat /\ MaxEdits \in Nat

VARIABLES
  node,      \* the CitaNode in the API server
  parts,     \* its configmap, log configmap and service
  sts,       \* its StatefulSet
  pod,       \* its pod, <name>-0
  nodeCache, \* the operator's informer caches
  stsCache,
  behind,    \* which caches lag
  queued,    \* the workqueue
  pc,        \* where the worker is in Reconcile
  seen,      \* the copy of the CitaNode it took from the cache
  latest,    \* is that copy the latest version
  NodeMap,   \* the status in memory, "" if there is none
  edits,     \* creations of the CitaNode and changes of its spec so far
  faults     \* disturbances so far

apiVars    == <<node, parts, sts, pod>>
cacheVars  == <<nodeCache, stsCache, behind>>
workerVars == <<queued, pc, seen, latest, NodeMap>>
boundVars  == <<edits, faults>>
vars == <<apiVars, cacheVars, workerVars, boundVars>>
-----------------------------------------------------------------------------
(* Objects.                                                                *)

Desired  == {"Running", "Stopped"}
Statuses == {"", "Starting", "Running", "Stopping", "Stopped", "Upgrading", "Error"}

\* The conditions: the reason of PodReady, and from which status to which the latest
\* ExternalTrigger went.
Reasons == {"", "ContainerAllReady", "ContainerNotReady", "CitaNodeStopped"}

Node   == [uid: Nat, desired: Desired, image: Images, status: Statuses,
           podReady: Reasons, trigger: Statuses \X Statuses]
Absent == [uid |-> 0]

\* owner: the CitaNode that controls the object, 0 if none does.
Object   == [there: BOOLEAN, owner: Nat]
NoObject == [there |-> FALSE, owner |-> 0]

\* all and ready: are there Replicas, ReadyReplicas.
StatefulSet == [owner: Nat, replicas: {0, 1}, image: Images,
                all: BOOLEAN, ready: BOOLEAN]
NoSts     == [owner |-> 0]
HasSts(s) == s # NoSts

\* The pod: not there, not started, containers not all ready, all ready.
Phases == {"none", "pending", "unready", "ready"}

TypeOK ==
  /\ node \in Node \cup {Absent}
  /\ parts \in [{"config", "log", "service"} -> Object]
  /\ sts \in StatefulSet \cup {NoSts}
  /\ pod \in Phases
  /\ nodeCache \in Node \cup {Absent}
  /\ stsCache \in StatefulSet \cup {NoSts}
  /\ behind \subseteq {"node", "sts"}
  /\ queued \in BOOLEAN
  /\ pc \in {"idle", "parts", "sts", "sync"}
  /\ seen \in Node \cup {Absent}
  /\ latest \in BOOLEAN
  /\ NodeMap \in Statuses
  /\ edits \in Nat /\ faults \in Nat

\* A user has made the configmap.
Init ==
  /\ node = Absent
  /\ parts = [p \in {"config", "log", "service"} |->
                IF p = "config" THEN [there |-> TRUE, owner |-> 0] ELSE NoObject]
  /\ sts = NoSts
  /\ pod = "none"
  /\ nodeCache = node /\ stsCache = sts
  /\ behind = {}
  /\ queued = FALSE
  /\ pc = "idle"
  /\ seen = Absent
  /\ latest = FALSE
  /\ NodeMap = ""
  /\ edits = 0 /\ faults = 0

-----------------------------------------------------------------------------
(* Writes to the API server.                                               *)

SetNode(object) ==
  /\ node' = object
  /\ latest' = FALSE
  /\ behind' = behind \cup {"node"}

SetSts(object) ==
  /\ sts' = object
  /\ behind' = behind \cup {"sts"}
-----------------------------------------------------------------------------
(* Reconcile.                                                              *)

\* The worker ends this Reconcile; an error puts the CitaNode back into the queue.
Return(again) ==
  /\ pc' = "idle"
  /\ seen' = Absent
  /\ latest' = FALSE
  /\ queued' = (queued \/ again)

Continue(location) ==
  /\ pc' = location
  /\ UNCHANGED <<queued, seen, latest>>

\* Status().Update; a copy that is not the latest is a conflict.
Put(object) ==
  IF latest
  THEN SetNode(object) /\ Return(FALSE)
  ELSE Return(TRUE) /\ UNCHANGED <<node, behind>>

\* One that has been deleted is forgotten, one without a status gets one.
Fetch ==
  /\ pc = "idle" /\ queued
  /\ \/ /\ nodeCache = Absent
        /\ queued' = FALSE
        /\ NodeMap' = ""
        /\ UNCHANGED <<node, behind, pc, seen, latest>>
     \/ /\ nodeCache # Absent /\ nodeCache.status = ""
        /\ IF "node" \in behind
           THEN UNCHANGED <<node, behind, queued>>
           ELSE SetNode([node EXCEPT !.status = "Starting"]) /\ queued' = FALSE
        /\ UNCHANGED <<pc, seen, latest, NodeMap>>
     \/ /\ nodeCache # Absent /\ nodeCache.status # ""
        /\ queued' = FALSE
        /\ pc' = "parts"
        /\ seen' = nodeCache
        /\ latest' = ("node" \notin behind)
        /\ NodeMap' = nodeCache.status
        /\ UNCHANGED <<node, behind>>
  /\ UNCHANGED <<parts, sts, pod, nodeCache, stsCache, boundVars>>

\* SetControllerReference refuses an object that another CitaNode controls.
Adoptable(object) == object.owner \in {0, seen.uid}

\* The configmap is adopted; a log configmap or service that is missing is created,
\* one that is there is left as it is.
WithParts ==
  [p \in DOMAIN parts |->
     IF parts[p].there /\ p # "config" THEN parts[p]
     ELSE [there |-> TRUE, owner |-> seen.uid]]

\* ReconcileConfigMap, ReconcileLogConfigMap and ReconcileService: a configmap that is
\* not there cannot be updated, one of another CitaNode not adopted.  (The contents of
\* the log configmap are left out: that they are out of date is found, but they are not
\* written, nor is an owner; the result "should update" is dropped by the caller.)
ReconcileParts ==
  /\ pc = "parts"
  /\ \/ /\ ~parts["config"].there \/ ~Adoptable(parts["config"])
        /\ Return(TRUE)
        /\ UNCHANGED parts
     \/ /\ parts["config"].there /\ Adoptable(parts["config"])
        /\ IF Adoptable(parts["log"])
           THEN parts' = WithParts /\ Continue("sts")
           ELSE /\ parts' = [parts EXCEPT !["config"].owner = seen.uid]
                /\ Return(TRUE)
  /\ UNCHANGED <<node, sts, pod, cacheVars, NodeMap, boundVars>>

\* Mutant: one too many.
ReplicasAndOne(n) == IF n.desired = "Stopped" THEN 0 ELSE 2

\* generateStatefulSet
Replicas(n) == IF n.desired = "Stopped" THEN 0 ELSE 1

NewSts(n) == [owner |-> n.uid, replicas |-> Replicas(n), image |-> n.image,
              all |-> FALSE, ready |-> FALSE]

\* Mutant: compares the wrong way round.
ChangeSwapped(s, n) ==
  IF s.replicas < Replicas(n) THEN "Stopping"
  ELSE IF s.replicas > Replicas(n) THEN "Starting" ELSE ""

ChangeOfReplicas(s, n) ==
  IF s.replicas > Replicas(n) THEN "Stopping"
  ELSE IF s.replicas < Replicas(n) THEN "Starting" ELSE ""

\* The new status that the difference between StatefulSet and CitaNode calls for.
Change(s, n) == IF s.image # n.image THEN "Upgrading" ELSE ChangeOfReplicas(s, n)

\* ReconcileAllRecourse drops the error of Update and goes on as if it had succeeded.
ReconcileStatefulSet ==
  /\ pc = "sts"
  /\ \/ /\ ~HasSts(stsCache) /\ HasSts(sts)
        /\ Return(TRUE)
        /\ UNCHANGED <<sts, behind, NodeMap>>
     \/ /\ ~HasSts(stsCache) /\ ~HasSts(sts)
        /\ SetSts(NewSts(seen))
        /\ Continue("sync") /\ UNCHANGED NodeMap
     \/ /\ HasSts(stsCache) /\ ~Adoptable(stsCache)
        /\ Return(TRUE)
        /\ UNCHANGED <<sts, behind, NodeMap>>
     \/ /\ HasSts(stsCache) /\ Adoptable(stsCache)
        /\ Continue("sync")
        /\ IF Change(stsCache, seen) = ""
           THEN UNCHANGED <<sts, behind, NodeMap>>
           ELSE /\ NodeMap' = Change(stsCache, seen)
                /\ IF "sts" \in behind THEN UNCHANGED <<sts, behind>>
                   ELSE SetSts([sts EXCEPT !.replicas = Replicas(seen),
                                           !.image = seen.image])
  /\ UNCHANGED <<node, parts, pod, nodeCache, stsCache, boundVars>>

\* Mutant: compares one of the two conditions only.
SetStatusByTrigger(object) ==
  IF object.trigger # seen.trigger
  THEN Put(object)
  ELSE Return(FALSE) /\ UNCHANGED <<node, behind>>

\* SetStatusAndCondition: the status is written only if the condition is a new one.
SetStatus(object) ==
  IF object.podReady # seen.podReady \/ object.trigger # seen.trigger
  THEN Put(object)
  ELSE Return(FALSE) /\ UNCHANGED <<node, behind>>

Fail    == Return(TRUE) /\ UNCHANGED <<node, behind>>
Nothing == Return(FALSE) /\ UNCHANGED <<node, behind>>

SetReady(status, reason) ==
  SetStatus([seen EXCEPT !.status = status, !.podReady = reason])

\* NodeMap differs from the status: this Reconcile has changed the StatefulSet.
SyncAction ==
  /\ NodeMap # seen.status
  /\ SetStatus([seen EXCEPT !.status = NodeMap, !.trigger = <<seen.status, NodeMap>>])

SyncStarting ==
  /\ seen.status = "Starting"
  /\ IF ~HasSts(stsCache) THEN Fail
     ELSE IF stsCache.all = stsCache.ready THEN SetReady("Running", "ContainerAllReady")
     ELSE Nothing

SyncStopping ==
  /\ seen.status = "Stopping"
  /\ IF pod = "none" THEN SetReady("Stopped", "CitaNodeStopped") ELSE Nothing

SyncRunning ==
  /\ seen.status = "Running"
  /\ CASE pod = "none"    -> Fail
       [] pod = "unready" -> SetReady("Error", "ContainerNotReady")
       [] pod \in {"pending", "ready"} -> Nothing

\* A pod that has not started has no containers that are not ready.
SyncError ==
  /\ seen.status = "Error"
  /\ CASE pod = "none"    -> Fail
       [] pod = "unready" -> Nothing
       [] pod \in {"pending", "ready"} -> SetReady("Running", "ContainerAllReady")

SyncStatus ==
  /\ pc = "sync"
  /\ \/ SyncAction
     \/ /\ NodeMap = seen.status
        /\ \/ SyncStarting \/ SyncStopping \/ SyncRunning \/ SyncError
           \/ seen.status \in {"Stopped", "Upgrading"} /\ Nothing
  /\ UNCHANGED <<parts, sts, pod, nodeCache, stsCache, NodeMap, boundVars>>

Reconcile == Fetch \/ ReconcileParts \/ ReconcileStatefulSet \/ SyncStatus
-----------------------------------------------------------------------------
(* Informers.                                                              *)

InformNode ==
  /\ "node" \in behind
  /\ nodeCache' = node
  /\ behind' = behind \ {"node"}
  /\ queued' = TRUE
  /\ UNCHANGED <<apiVars, stsCache, pc, seen, latest, NodeMap, boundVars>>

StsStatus(s) == <<s.all, s.ready>>

\* statefulSetPredicates: of the updates those that change the status wake the
\* reconciler.
statefulSetPredicates ==
  HasSts(stsCache) /\ HasSts(sts) => StsStatus(stsCache) # StsStatus(sts)

InformSts ==
  /\ "sts" \in behind
  /\ stsCache' = sts
  /\ behind' = behind \ {"sts"}
  /\ queued' = (queued \/ statefulSetPredicates)
  /\ UNCHANGED <<apiVars, nodeCache, pc, seen, latest, NodeMap, boundVars>>

Resync ==
  /\ nodeCache # Absent
  /\ queued' = TRUE
  /\ UNCHANGED <<apiVars, cacheVars, pc, seen, latest, NodeMap, boundVars>>
-----------------------------------------------------------------------------
(* The cluster.                                                            *)

PodStep(phase) ==
  /\ pod' = phase
  /\ UNCHANGED <<node, parts, sts, cacheVars, workerVars, edits>>

CreatePod ==
  /\ HasSts(sts) /\ sts.replicas = 1
  /\ pod = "none"
  /\ PodStep("pending")
  /\ UNCHANGED faults

\* The containers start, then they get ready.
Progress ==
  /\ \/ pod = "pending" /\ PodStep("unready")
     \/ pod = "unready" /\ PodStep("ready")
  /\ UNCHANGED faults

DeletePod ==
  /\ HasSts(sts) => sts.replicas = 0
  /\ pod # "none"
  /\ PodStep("none")
  /\ UNCHANGED faults

\* The status of the StatefulSet.
Report ==
  LET status == [sts EXCEPT !.all = (pod # "none"), !.ready = (pod = "ready")]
  IN /\ HasSts(sts)
     /\ status # sts
     /\ SetSts(status)
     /\ UNCHANGED <<node, parts, pod, nodeCache, stsCache, workerVars, boundVars>>

Orphaned(object) == object.owner # 0 /\ object.owner # node.uid

\* Objects whose CitaNode is gone are collected, also the configmap of its user.
Collect ==
  /\ \/ /\ Orphaned(sts)
        /\ SetSts(NoSts)
        /\ UNCHANGED parts
     \/ /\ \E p \in DOMAIN parts : /\ Orphaned(parts[p])
                                   /\ parts' = [parts EXCEPT ![p] = NoObject]
        /\ UNCHANGED <<sts, behind>>
  /\ UNCHANGED <<node, pod, nodeCache, stsCache, workerVars, boundVars>>
-----------------------------------------------------------------------------
(* Users and disturbances.                                                 *)

Edit ==
  /\ edits < MaxEdits
  /\ edits' = edits + 1

CreateNode ==
  /\ Edit
  /\ node = Absent
  /\ \E desired \in Desired, image \in NewImages :
       SetNode([uid |-> edits + 1, desired |-> desired, image |-> image, status |-> "",
                podReady |-> "", trigger |-> <<"", "">>])
  /\ UNCHANGED <<parts, sts, pod, nodeCache, stsCache, queued, pc, seen,
                 NodeMap, faults>>

ChangeNode ==
  /\ Edit
  /\ node # Absent
  /\ \E desired \in Desired, image \in Images :
       /\ <<desired, image>> # <<node.desired, node.image>>
       /\ SetNode([node EXCEPT !.desired = desired, !.image = image])
  /\ UNCHANGED <<parts, sts, pod, nodeCache, stsCache, queued, pc, seen,
                 NodeMap, faults>>

\* A user makes the configmap that was collected with an earlier CitaNode.
CreateConfigMap ==
  /\ ~parts["config"].there
  /\ parts' = [parts EXCEPT !["config"].there = TRUE]
  /\ UNCHANGED <<node, sts, pod, cacheVars, workerVars, boundVars>>

Disturb(d) ==
  /\ d \in Disturbances
  /\ faults < MaxFaults
  /\ faults' = faults + 1

DeleteNode ==
  /\ Disturb("delete")
  /\ node # Absent
  /\ SetNode(Absent)
  /\ UNCHANGED <<parts, sts, pod, nodeCache, stsCache, queued, pc, seen,
                 NodeMap, edits>>

\* Somebody else scales the StatefulSet: a user, or a Job that stops or starts the
\* node.
Scale ==
  /\ Disturb("scale")
  /\ HasSts(sts)
  /\ SetSts([sts EXCEPT !.replicas = 1 - sts.replicas])
  /\ UNCHANGED <<node, parts, pod, nodeCache, stsCache, workerVars, edits>>

\* A call fails; that of an Update of the StatefulSet does not end the Reconcile.  (A
\* lost answer is like the failure of the next call, or a resync.)
FailReconcile ==
  /\ Disturb("apierror")
  /\ pc # "idle"
  /\ \/ Return(TRUE) /\ UNCHANGED NodeMap
     \/ /\ pc = "sts"
        /\ HasSts(stsCache) /\ Adoptable(stsCache) /\ Change(stsCache, seen) # ""
        /\ Continue("sync")
        /\ NodeMap' = Change(stsCache, seen)
  /\ UNCHANGED <<apiVars, cacheVars, edits>>

\* The operator ends and is started again: it lists everything.
Crash ==
  /\ Disturb("crash")
  /\ nodeCache' = node /\ stsCache' = sts
  /\ behind' = {}
  /\ queued' = (node # Absent)
  /\ pc' = "idle" /\ seen' = Absent /\ latest' = FALSE
  /\ NodeMap' = ""
  /\ UNCHANGED <<apiVars, edits>>

Evict ==
  /\ Disturb("evict")
  /\ pod # "none"
  /\ PodStep("none")

BecomeUnready ==
  /\ Disturb("unready")
  /\ pod = "ready"
  /\ PodStep("unready")

Cluster == CreatePod \/ DeletePod \/ Progress \/ Report \/ Collect
Inform  == InformNode \/ InformSts
Users   == CreateNode \/ ChangeNode \/ CreateConfigMap
Disturbance == \/ DeleteNode \/ Scale \/ FailReconcile \/ Crash \/ Evict \/ BecomeUnready

Next == Reconcile \/ Inform \/ Resync \/ Cluster \/ Users \/ Disturbance

Spec == Init /\ [][Next]_vars

\* The worker, the informers and their resync, and the cluster keep going.
FairSpec ==
  /\ Spec
  /\ WF_vars(Reconcile) /\ WF_vars(Resync)
  /\ WF_vars(InformNode) /\ WF_vars(InformSts) /\ WF_vars(Cluster)
-----------------------------------------------------------------------------
(* Properties.                                                             *)

\* The StatefulSet is what its own CitaNode wants.
AsWanted ==
  /\ HasSts(sts)
  /\ sts.owner = node.uid
  /\ sts.replicas = Replicas(node) /\ sts.image = node.image

\* Whatever fails on the way, in the end the CitaNode has a StatefulSet as it wants it,
\* and a log configmap and a service that nobody else owns: a swallowed error of Update,
\* objects left by a predecessor, others who scale and a lost NodeMap are made good.
\* (Without its configmap it waits.  What is in the log configmap is not promised: a
\* changed log level is never written.)
EventuallyAsWanted ==
  <>[](\/ node = Absent
       \/ ~parts["config"].there
       \/ AsWanted /\ \A p \in DOMAIN parts : ~Orphaned(parts[p]) /\ parts[p].there)

\* A node that is created to run and then left alone is reported Running in the end:
\* SyncStatus leaves Error as well as Starting, although it is woken by the status of
\* the StatefulSet, reads the pod, and writes only when a condition is new.
EventuallyRunning ==
  <>[](edits = 1 /\ faults = 0 /\ node.desired = "Running" => node.status = "Running")

Wanted == IF node = Absent THEN "Running" ELSE node.desired
Status == IF node = Absent THEN "" ELSE node.status

\* The status moves as NodeStatus says, whichever copies and whatever NodeMap the
\* reconciler works with.
S == INSTANCE NodeStatus WITH
       exists <- node # Absent,
       wanted <- Wanted,
       status <- Status

ImplementsNodeStatus == S!Spec
=============================================================================
