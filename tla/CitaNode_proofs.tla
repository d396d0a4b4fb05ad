--------------------------- MODULE CitaNode_proofs ---------------------------
(***************************************************************************)
(* Proofs about CitaNode and its refinement of NodeStatus, for any images   *)
(* and disturbances, however many of them and of changes there are.        *)
(***************************************************************************)
EXTENDS CitaNode, TLAPS

USE CitaNodeAssumption

\* What the copies are worth: a cache that does not lag and a worker's copy that is the
\* latest are the object; the worker only works on a CitaNode with a status.
Copies ==
  /\ "node" \notin behind => nodeCache = node
  /\ "sts" \notin behind => stsCache = sts
  /\ latest => pc # "idle" /\ node = seen
  /\ pc # "idle" => seen \in Node /\ seen.status # ""

\* The status in memory is that of the worker's copy, or what its spec calls for.
Tracked ==
  pc # "idle" =>
    \/ NodeMap = seen.status
    \/ pc = "sync" /\ \/ NodeMap = "Upgrading"
                      \/ NodeMap = "Starting" /\ seen.desired = "Running"
                      \/ NodeMap = "Stopping" /\ seen.desired = "Stopped"

IInv == TypeOK /\ Copies /\ Tracked

\* The records the variables hold.
LEMMA ObjectTypes ==
  /\ Absent \notin Node
  /\ Absent.uid = 0 /\ NoSts.owner = 0
  /\ NoSts \notin StatefulSet
  /\ \A n \in Node, s \in Statuses : [n EXCEPT !.status = s] \in Node
  /\ \A n \in Node, s \in Statuses, r \in Reasons :
       [n EXCEPT !.status = s, !.podReady = r] \in Node
  /\ \A n \in Node, s \in Statuses, t \in Statuses \X Statuses :
       [n EXCEPT !.status = s, !.trigger = t] \in Node
  /\ \A n \in Node, d \in Desired, i \in Images :
       [n EXCEPT !.desired = d, !.image = i] \in Node
  /\ \A n \in Node : Replicas(n) \in {0, 1} /\ NewSts(n) \in StatefulSet
  /\ \A s \in StatefulSet, r \in {0, 1} : [s EXCEPT !.replicas = r] \in StatefulSet
  /\ \A s \in StatefulSet, r \in {0, 1}, i \in Images :
       [s EXCEPT !.replicas = r, !.image = i] \in StatefulSet
  /\ \A s \in StatefulSet, a \in BOOLEAN, b \in BOOLEAN :
       [s EXCEPT !.all = a, !.ready = b] \in StatefulSet
<1>1. Absent \notin Node
  BY DEF Absent, Node
<1>2. NoSts \notin StatefulSet
  BY DEF NoSts, StatefulSet
<1>3. Absent.uid = 0 /\ NoSts.owner = 0
  BY DEF Absent, NoSts
<1>4. /\ \A n \in Node, s \in Statuses : [n EXCEPT !.status = s] \in Node
      /\ \A n \in Node, s \in Statuses, r \in Reasons :
           [n EXCEPT !.status = s, !.podReady = r] \in Node
  BY DEF Node
<1>5. \A n \in Node, s \in Statuses, t \in Statuses \X Statuses :
        [n EXCEPT !.status = s, !.trigger = t] \in Node
  BY DEF Node
<1>6. \A n \in Node, d \in Desired, i \in Images :
        [n EXCEPT !.desired = d, !.image = i] \in Node
  BY DEF Node
<1>7. \A n \in Node : Replicas(n) \in {0, 1} /\ NewSts(n) \in StatefulSet
  BY DEF Node, Replicas, NewSts, StatefulSet
<1>8. /\ \A s \in StatefulSet, r \in {0, 1} : [s EXCEPT !.replicas = r] \in StatefulSet
      /\ \A s \in StatefulSet, r \in {0, 1}, i \in Images :
           [s EXCEPT !.replicas = r, !.image = i] \in StatefulSet
  BY DEF StatefulSet
<1>9. \A s \in StatefulSet, a \in BOOLEAN, b \in BOOLEAN :
        [s EXCEPT !.all = a, !.ready = b] \in StatefulSet
  BY DEF StatefulSet
<1>10. QED
  BY <1>1, <1>2, <1>3, <1>4, <1>5, <1>6, <1>7, <1>8, <1>9

\* The program starts in a state of the invariant.
LEMMA IInvInit == Init => IInv
<1> SUFFICES ASSUME Init PROVE IInv
  OBVIOUS
<1>1. parts \in [{"config", "log", "service"} -> Object]
  BY DEF Init, Object, NoObject
<1>2. TypeOK
  BY <1>1 DEF Init, TypeOK, Phases, Statuses
<1>3. QED
  BY <1>2 DEF Init, IInv, Copies, Tracked

\* Writing the CitaNode keeps the invariant of what it touches.
LEMMA SetNodeStep ==
  ASSUME IInv, NEW object \in Node \cup {Absent}, SetNode(object)
  PROVE  /\ node' \in Node \cup {Absent}
         /\ behind' \subseteq {"node", "sts"} /\ "node" \in behind'
         /\ latest' = FALSE
         /\ "sts" \in behind' <=> "sts" \in behind
BY DEF SetNode, IInv, TypeOK

\* A Reconcile that ends forgets its copy.
LEMMA ReturnStep ==
  ASSUME IInv, NEW again \in BOOLEAN, Return(again)
  PROVE  /\ pc' = "idle" /\ seen' = Absent /\ latest' = FALSE
         /\ queued' \in BOOLEAN
BY DEF Return, IInv, TypeOK

\* One that goes on keeps it.
LEMMA ContinueStep ==
  ASSUME IInv, pc # "idle", NEW l \in {"parts", "sts", "sync"}, Continue(l)
  PROVE  pc' = l /\ UNCHANGED <<queued, seen, latest>>
BY DEF Continue

\* What Change calls for is what the spec of the CitaNode wants.
LEMMA ChangeWanted ==
  ASSUME NEW s \in StatefulSet, NEW n \in Node
  PROVE  /\ Change(s, n) \in {"", "Upgrading", "Starting", "Stopping"}
         /\ Change(s, n) = "Starting" => n.desired = "Running"
         /\ Change(s, n) = "Stopping" => n.desired = "Stopped"
<1>1. s.replicas \in {0, 1} /\ n.desired \in {"Running", "Stopped"}
  BY DEF StatefulSet, Node, Desired
<1>2. ChangeOfReplicas(s, n) \in {"", "Starting", "Stopping"}
  BY DEF ChangeOfReplicas
<1>3. ChangeOfReplicas(s, n) = "Starting" => n.desired = "Running"
  BY <1>1 DEF ChangeOfReplicas, Replicas
<1>4. ChangeOfReplicas(s, n) = "Stopping" => n.desired = "Stopped"
  BY <1>1 DEF ChangeOfReplicas, Replicas
<1>5. QED
  BY <1>2, <1>3, <1>4 DEF Change

\* Taking the CitaNode from the queue keeps the invariant.
LEMMA FetchStep == IInv /\ Fetch => IInv'
<1> SUFFICES ASSUME IInv, Fetch PROVE IInv'
  OBVIOUS
<1> USE DEF boundVars
<1>1. CASE nodeCache = Absent /\ queued' = FALSE /\ NodeMap' = ""
           /\ UNCHANGED <<node, behind, pc, seen, latest>>
  BY <1>1 DEF Fetch, IInv, TypeOK, Copies, Tracked, Statuses
<1>2. CASE nodeCache # Absent /\ nodeCache.status = "" /\ "node" \in behind
           /\ UNCHANGED <<node, behind, queued, pc, seen, latest, NodeMap>>
  BY <1>2 DEF Fetch, IInv, TypeOK, Copies, Tracked
<1>3. CASE nodeCache # Absent /\ "node" \notin behind
           /\ SetNode([node EXCEPT !.status = "Starting"]) /\ queued' = FALSE
           /\ UNCHANGED <<pc, seen, latest, NodeMap>>
  <2>1. node \in Node /\ "Starting" \in Statuses
    BY <1>3 DEF IInv, TypeOK, Copies, Statuses
  <2>2. [node EXCEPT !.status = "Starting"] \in Node
    BY <2>1, ObjectTypes
  <2>3. QED
    BY <1>3, <2>2, SetNodeStep DEF Fetch, IInv, TypeOK, Copies, Tracked
<1>4. CASE /\ nodeCache # Absent /\ nodeCache.status # ""
           /\ queued' = FALSE /\ pc' = "parts" /\ seen' = nodeCache
           /\ latest' = ("node" \notin behind) /\ NodeMap' = nodeCache.status
           /\ UNCHANGED <<node, behind>>
  <2>1. nodeCache \in Node /\ nodeCache.status \in Statuses
    BY <1>4 DEF IInv, TypeOK, Node
  <2>2. Copies'
    BY <1>4, <2>1 DEF Fetch, IInv, TypeOK, Copies
  <2>3. TypeOK'
    BY <1>4, <2>1 DEF Fetch, IInv, TypeOK
  <2>4. QED
    BY <1>4, <2>2, <2>3 DEF IInv, Tracked
<1>5. QED
  BY <1>1, <1>2, <1>3, <1>4 DEF Fetch

\* Adopting and creating the parts keeps the invariant.
LEMMA PartsStep == IInv /\ ReconcileParts => IInv'
<1> SUFFICES ASSUME IInv, ReconcileParts PROVE IInv'
  OBVIOUS
<1> USE DEF cacheVars, boundVars
<1>1. pc = "parts" /\ seen \in Node /\ seen.uid \in Nat
  BY DEF ReconcileParts, IInv, Copies, Node
<1>2. parts' \in [{"config", "log", "service"} -> Object]
  <2>1. WithParts \in [{"config", "log", "service"} -> Object]
    BY <1>1 DEF WithParts, IInv, TypeOK, Object
  <2>2. [parts EXCEPT !["config"].owner = seen.uid]
          \in [{"config", "log", "service"} -> Object]
    BY <1>1 DEF IInv, TypeOK, Object
  <2>3. parts' \in {parts, WithParts, [parts EXCEPT !["config"].owner = seen.uid]}
    BY DEF ReconcileParts
  <2>4. QED
    BY <2>1, <2>2, <2>3 DEF IInv, TypeOK
<1>3. CASE Return(TRUE)
  BY <1>1, <1>2, <1>3, ReturnStep DEF ReconcileParts, IInv, TypeOK, Copies, Tracked
<1>4. CASE Continue("sts")
  BY <1>1, <1>2, <1>4, ContinueStep DEF ReconcileParts, IInv, TypeOK, Copies, Tracked
<1>5. QED
  BY <1>3, <1>4 DEF ReconcileParts

\* Updating the StatefulSet keeps it: NodeMap is set to what the spec wants.
LEMMA StatefulSetStep == IInv /\ ReconcileStatefulSet => IInv'
<1> SUFFICES ASSUME IInv, ReconcileStatefulSet PROVE IInv'
  OBVIOUS
<1> USE DEF boundVars
<1>1. pc = "sts" /\ seen \in Node /\ seen.image \in Images
  BY DEF ReconcileStatefulSet, IInv, Copies, Node
<1>2. CASE Return(TRUE) /\ UNCHANGED <<sts, behind, NodeMap>>
  BY <1>1, <1>2, ReturnStep DEF ReconcileStatefulSet, IInv, TypeOK, Copies, Tracked
<1>3. CASE SetSts(NewSts(seen)) /\ Continue("sync") /\ UNCHANGED NodeMap
  BY <1>1, <1>3, ObjectTypes, ContinueStep
  DEF ReconcileStatefulSet, SetSts, IInv, TypeOK, Copies, Tracked
<1>4. CASE Continue("sync") /\ UNCHANGED <<sts, behind, NodeMap>>
  BY <1>1, <1>4, ContinueStep DEF ReconcileStatefulSet, IInv, TypeOK, Copies, Tracked
<1>5. CASE /\ HasSts(stsCache) /\ Continue("sync")
           /\ Change(stsCache, seen) # "" /\ NodeMap' = Change(stsCache, seen)
           /\ IF "sts" \in behind THEN UNCHANGED <<sts, behind>>
              ELSE SetSts([sts EXCEPT !.replicas = Replicas(seen),
                                      !.image = seen.image])
  <2>1. stsCache \in StatefulSet
    BY <1>5 DEF HasSts, IInv, TypeOK
  <2>2. NodeMap' \in Statuses /\ Tracked'
    <3> DEFINE to == Change(stsCache, seen)
    <3>1. /\ to \in {"Upgrading", "Starting", "Stopping"}
          /\ to = "Starting" => seen.desired = "Running"
          /\ to = "Stopping" => seen.desired = "Stopped"
      BY <1>1, <1>5, <2>1, ChangeWanted
    <3>2. NodeMap' = to /\ pc' = "sync" /\ seen' = seen
      BY <1>1, <1>5, ContinueStep
    <3> HIDE DEF to
    <3>3. QED
      BY <3>1, <3>2 DEF Statuses, Tracked
  <2>3. /\ sts' \in StatefulSet \cup {NoSts}
        /\ behind' \subseteq {"node", "sts"}
        /\ "sts" \in behind'
        /\ "node" \in behind' <=> "node" \in behind
    <3>1. CASE "sts" \in behind
      BY <1>5, <3>1 DEF IInv, TypeOK
    <3>2. CASE "sts" \notin behind
      <4>1. SetSts([sts EXCEPT !.replicas = Replicas(seen), !.image = seen.image])
        BY <1>5, <3>2
      <4>2. sts \in StatefulSet /\ Replicas(seen) \in {0, 1}
        BY <1>1, <2>1, <3>2, ObjectTypes DEF IInv, Copies
      <4>3. [sts EXCEPT !.replicas = Replicas(seen), !.image = seen.image] \in StatefulSet
        BY <1>1, <4>2, ObjectTypes
      <4>4. QED
        BY <4>1, <4>3 DEF SetSts, IInv, TypeOK
    <3>3. QED
      BY <3>1, <3>2
  <2>4. QED
    BY <1>1, <1>5, <2>2, <2>3, ContinueStep
    DEF ReconcileStatefulSet, IInv, TypeOK, Copies
<1>6. QED
  BY <1>2, <1>3, <1>4, <1>5 DEF ReconcileStatefulSet

\* What SyncStatus may do to the status.
Moves(from, to) ==
  \/ <<from, to>> \in {<<"Starting", "Running">>, <<"Stopping", "Stopped">>,
                        <<"Running", "Error">>, <<"Error", "Running">>}
  \/ from # "" /\ to = "Starting" /\ seen.desired = "Running"
  \/ from # "" /\ to = "Stopping" /\ seen.desired = "Stopped"
  \/ from # "" /\ to = "Upgrading"

\* SetStatus writes the latest copy with the status, or nothing.
LEMMA SetStatusStep ==
  ASSUME IInv, pc # "idle", NEW object \in Node, SetStatus(object)
  PROVE  /\ pc' = "idle" /\ seen' = Absent /\ latest' = FALSE
         /\ queued' \in BOOLEAN
         /\ \/ node' = object /\ node = seen /\ behind' = behind \cup {"node"}
            \/ UNCHANGED <<node, behind>>
<1>1. CASE Return(FALSE) /\ UNCHANGED <<node, behind>>
  BY <1>1, ReturnStep
<1>2. CASE Return(TRUE) /\ UNCHANGED <<node, behind>>
  BY <1>2, ReturnStep
<1>3. CASE latest /\ SetNode(object) /\ Return(FALSE)
  BY <1>3, ReturnStep DEF SetNode, IInv, Copies
<1>4. QED
  BY <1>1, <1>2, <1>3 DEF SetStatus, Put

\* SyncStatus writes the copy with a status it may move to, or nothing.
LEMMA SyncWrites ==
  ASSUME IInv, SyncStatus
  PROVE  /\ seen \in Node /\ seen.status # ""
         /\ pc' = "idle" /\ seen' = Absent /\ latest' = FALSE
         /\ queued' \in BOOLEAN
         /\ \/ /\ node = seen /\ node' \in Node
               /\ behind' = behind \cup {"node"}
               /\ node'.desired = seen.desired
               /\ Moves(seen.status, node'.status)
            \/ UNCHANGED <<node, behind>>
<1>1. pc = "sync" /\ seen \in Node /\ seen.status # "" /\ seen.status \in Statuses
  BY DEF SyncStatus, IInv, Copies, Node
<1>2. ASSUME NEW s \in Statuses, NEW r \in Reasons, SetReady(s, r),
             Moves(seen.status, s)
      PROVE  \/ /\ node = seen /\ node' \in Node
                /\ behind' = behind \cup {"node"}
                /\ node'.desired = seen.desired
                /\ Moves(seen.status, node'.status)
             \/ UNCHANGED <<node, behind>>
  <2> DEFINE object == [seen EXCEPT !.status = s, !.podReady = r]
  <2>1. object \in Node
    BY <1>1, ObjectTypes
  <2>2. object.desired = seen.desired /\ object.status = s
    BY <1>1 DEF Node
  <2>3. SetStatus(object)
    BY <1>2 DEF SetReady
  <2> HIDE DEF object
  <2>4. QED
    BY <1>1, <1>2, <2>1, <2>2, <2>3, SetStatusStep
<1>3. ASSUME NEW s \in Statuses, NEW r \in Reasons, SetReady(s, r)
      PROVE  pc' = "idle" /\ seen' = Absent /\ latest' = FALSE /\ queued' \in BOOLEAN
  <2>1. [seen EXCEPT !.status = s, !.podReady = r] \in Node
    BY <1>1, ObjectTypes
  <2>2. QED
    BY <1>1, <1>3, <2>1, SetStatusStep DEF SetReady
<1>4. CASE SyncAction
  <2> DEFINE object == [seen EXCEPT !.status = NodeMap,
                                    !.trigger = <<seen.status, NodeMap>>]
  <2>1. NodeMap \in Statuses /\ <<seen.status, NodeMap>> \in Statuses \X Statuses
    BY <1>1 DEF IInv, TypeOK
  <2>2. object \in Node
    BY <1>1, <2>1, ObjectTypes
  <2>3. object.desired = seen.desired /\ object.status = NodeMap
    BY <1>1 DEF Node
  <2>4. Moves(seen.status, NodeMap)
    BY <1>1, <1>4 DEF SyncAction, IInv, Tracked, Moves
  <2>5. SetStatus(object)
    BY <1>4 DEF SyncAction
  <2> HIDE DEF object
  <2>6. QED
    BY <1>1, <2>2, <2>3, <2>4, <2>5, SetStatusStep
<1>5. CASE Nothing \/ Fail
  BY <1>1, <1>5, ReturnStep DEF Nothing, Fail
<1>6. /\ {"Running", "Stopped", "Error"} \subseteq Statuses
      /\ {"ContainerAllReady", "ContainerNotReady", "CitaNodeStopped"} \subseteq Reasons
  BY DEF Statuses, Reasons
<1>7. CASE SetReady("Running", "ContainerAllReady") /\ seen.status \in {"Starting", "Error"}
  <2>1. Moves(seen.status, "Running")
    BY <1>7 DEF Moves
  <2>2. QED
    BY <1>1, <1>2, <1>3, <1>6, <1>7, <2>1
<1>8. CASE SetReady("Stopped", "CitaNodeStopped") /\ seen.status = "Stopping"
  <2>1. Moves(seen.status, "Stopped")
    BY <1>8 DEF Moves
  <2>2. QED
    BY <1>1, <1>2, <1>3, <1>6, <1>8, <2>1
<1>9. CASE SetReady("Error", "ContainerNotReady") /\ seen.status = "Running"
  <2>1. Moves(seen.status, "Error")
    BY <1>9 DEF Moves
  <2>2. QED
    BY <1>1, <1>2, <1>3, <1>6, <1>9, <2>1
<1>10. CASE SyncStarting
  BY <1>5, <1>7, <1>10 DEF SyncStarting
<1>11. CASE SyncStopping
  BY <1>5, <1>8, <1>11 DEF SyncStopping
<1>12. pod \in {"none", "pending", "unready", "ready"}
  BY DEF IInv, TypeOK, Phases
<1>13. CASE SyncRunning
  BY <1>5, <1>9, <1>12, <1>13 DEF SyncRunning
<1>14. CASE SyncError
  BY <1>5, <1>7, <1>12, <1>14 DEF SyncError
<1>15. QED
  BY <1>4, <1>5, <1>10, <1>11, <1>13, <1>14 DEF SyncStatus

\* SyncStatus keeps it.
LEMMA SyncStep == IInv /\ SyncStatus => IInv'
<1> SUFFICES ASSUME IInv, SyncStatus PROVE IInv'
  OBVIOUS
<1>1. /\ pc' = "idle" /\ seen' = Absent /\ latest' = FALSE
      /\ queued' \in BOOLEAN
      /\ \/ node' \in Node /\ behind' = behind \cup {"node"}
         \/ UNCHANGED <<node, behind>>
  BY SyncWrites
<1>2. UNCHANGED <<parts, sts, pod, nodeCache, stsCache, NodeMap, edits, faults>>
  BY DEF SyncStatus, boundVars
<1>3. QED
  BY <1>1, <1>2 DEF IInv, TypeOK, Copies, Tracked

\* Caches that catch up keep the invariant.
LEMMA InformStep == IInv /\ (Inform \/ Resync) => IInv'
<1> SUFFICES ASSUME IInv, Inform \/ Resync PROVE IInv'
  OBVIOUS
<1> USE DEF apiVars, cacheVars, boundVars
<1>1. CASE InformNode
  BY <1>1 DEF InformNode, IInv, TypeOK, Copies, Tracked
<1>2. CASE InformSts
  <2>1. queued' \in BOOLEAN
    BY <1>2 DEF InformSts
  <2>2. QED
    BY <1>2, <2>1 DEF InformSts, IInv, TypeOK, Copies, Tracked
<1>3. CASE Resync
  BY ZenonT(60), <1>3 DEF Resync, IInv, TypeOK, Copies, Tracked
<1>4. QED
  BY <1>1, <1>2, <1>3 DEF Inform

\* The invariant does not speak of the pod, the parts and the bounds, but for types.
LEMMA Frame ==
  ASSUME IInv,
         UNCHANGED <<node, sts, nodeCache, stsCache, behind>>,
         UNCHANGED <<queued, pc, seen, latest, NodeMap>>,
         parts' \in [{"config", "log", "service"} -> Object], pod' \in Phases,
         edits' \in Nat, faults' \in Nat
  PROVE  IInv'
<1>1. TypeOK'
  BY DEF IInv, TypeOK
<1>2. Copies'
  BY DEF IInv, Copies
<1>3. Tracked'
  BY DEF IInv, Tracked
<1>4. QED
  BY <1>1, <1>2, <1>3 DEF IInv

\* A step of the pod.
LEMMA PodStepKeeps ==
  ASSUME IInv, NEW phase \in Phases, PodStep(phase), faults' \in Nat
  PROVE  IInv' /\ UNCHANGED node
<1>1. /\ UNCHANGED <<node, parts, sts, nodeCache, stsCache, behind>>
      /\ UNCHANGED <<queued, pc, seen, latest, NodeMap, edits>>
      /\ pod' \in Phases
  BY DEF PodStep, cacheVars, workerVars
<1>2. parts' \in [{"config", "log", "service"} -> Object] /\ edits' \in Nat
  BY <1>1 DEF IInv, TypeOK
<1>3. QED
  BY <1>1, <1>2, Frame

\* The pod, the status of the StatefulSet and the collector keep it.
LEMMA ClusterStep == IInv /\ Cluster => IInv' /\ UNCHANGED node
<1> SUFFICES ASSUME IInv, Cluster PROVE IInv' /\ UNCHANGED node
  OBVIOUS
<1> USE DEF workerVars, boundVars
<1>0. Phases = {"none", "pending", "unready", "ready"} /\ faults \in Nat
  BY DEF Phases, IInv, TypeOK
<1>1. CASE CreatePod
  BY <1>0, <1>1, PodStepKeeps DEF CreatePod
<1>2. CASE Progress
  BY <1>0, <1>2, PodStepKeeps DEF Progress
<1>3. CASE DeletePod
  BY <1>0, <1>3, PodStepKeeps DEF DeletePod
<1>4. CASE Report
  <2>1. sts \in StatefulSet /\ (pod # "none") \in BOOLEAN /\ (pod = "ready") \in BOOLEAN
    BY <1>4 DEF Report, HasSts, IInv, TypeOK
  <2>2. [sts EXCEPT !.all = (pod # "none"), !.ready = (pod = "ready")] \in StatefulSet
    BY <2>1, ObjectTypes
  <2>3. QED
    BY ZenonT(60), <1>4, <2>2 DEF Report, SetSts, IInv, TypeOK, Copies, Tracked
<1>5. CASE Collect
  <2>0. UNCHANGED <<node, pod, nodeCache, stsCache, queued, pc, seen, latest, NodeMap,
                    edits, faults>>
    BY <1>5 DEF Collect
  <2>1. NoObject \in Object /\ parts \in [{"config", "log", "service"} -> Object]
    BY DEF IInv, TypeOK, Object, NoObject
  <2>2. CASE SetSts(NoSts) /\ UNCHANGED parts
    BY ZenonT(60), <2>0, <2>2 DEF SetSts, IInv, TypeOK, Copies, Tracked
  <2>3. CASE /\ \E p \in DOMAIN parts : parts' = [parts EXCEPT ![p] = NoObject]
             /\ UNCHANGED <<sts, behind>>
    <3>1. parts' \in [{"config", "log", "service"} -> Object]
      BY <2>1, <2>3
    <3>2. pod' \in Phases /\ edits' \in Nat /\ faults' \in Nat
      BY <2>0 DEF IInv, TypeOK
    <3>3. QED
      BY <2>0, <2>3, <3>1, <3>2, Frame
  <2>4. QED
    BY <1>5, <2>2, <2>3 DEF Collect
<1>6. QED
  BY <1>1, <1>2, <1>3, <1>4, <1>5 DEF Cluster

\* Whoever writes the CitaNode but the reconciler leaves the rest alone.
LEMMA OthersWrite ==
  ASSUME IInv, NEW object \in Node \cup {Absent}, SetNode(object),
         edits' \in Nat, faults' \in Nat,
         UNCHANGED <<parts, sts, pod, nodeCache, stsCache, queued, pc, seen, NodeMap>>
  PROVE  IInv'
BY ZenonT(60), SetNodeStep DEF IInv, TypeOK, Copies, Tracked

\* Users keep the invariant.
LEMMA UsersStep == IInv /\ Users => IInv'
<1> SUFFICES ASSUME IInv, Users PROVE IInv'
  OBVIOUS
<1>0. edits \in Nat /\ faults \in Nat /\ node \in Node \cup {Absent}
  BY DEF IInv, TypeOK
<1>1. CASE CreateNode
  <2>1. PICK d \in Desired, i \in NewImages :
          SetNode([uid |-> edits + 1, desired |-> d, image |-> i, status |-> "",
                   podReady |-> "", trigger |-> <<"", "">>])
    BY <1>1 DEF CreateNode
  <2>2. [uid |-> edits + 1, desired |-> d, image |-> i, status |-> "",
         podReady |-> "", trigger |-> <<"", "">>] \in Node
    <3>1. "" \in Statuses /\ "" \in Reasons /\ <<"", "">> \in Statuses \X Statuses
      BY DEF Statuses, Reasons
    <3>2. i \in Images /\ edits + 1 \in Nat
      BY <1>0
    <3>3. QED
      BY <3>1, <3>2 DEF Node
  <2>3. edits' \in Nat /\ faults' \in Nat
    <3>1. Edit /\ UNCHANGED faults
      BY <1>1 DEF CreateNode
    <3>2. QED
      BY <1>0, <3>1 DEF Edit
  <2>4. QED
    BY <1>1, <2>1, <2>2, <2>3, OthersWrite DEF CreateNode
<1>2. CASE ChangeNode
  <2>1. PICK d \in Desired, i \in Images :
          SetNode([node EXCEPT !.desired = d, !.image = i])
    BY <1>2 DEF ChangeNode
  <2>2. [node EXCEPT !.desired = d, !.image = i] \in Node
    BY <1>0, <1>2, ObjectTypes DEF ChangeNode
  <2>3. edits' \in Nat /\ faults' \in Nat
    BY <1>0, <1>2 DEF ChangeNode, Edit
  <2>4. QED
    BY <1>2, <2>1, <2>2, <2>3, OthersWrite DEF ChangeNode
<1>3. CASE CreateConfigMap
  <2>1. parts' \in [{"config", "log", "service"} -> Object]
    BY <1>3 DEF CreateConfigMap, IInv, TypeOK, Object
  <2>2. /\ UNCHANGED <<node, sts, pod, nodeCache, stsCache, behind>>
        /\ UNCHANGED <<queued, pc, seen, latest, NodeMap, edits, faults>>
    BY <1>3 DEF CreateConfigMap, cacheVars, workerVars, boundVars
  <2>3. pod' \in Phases /\ edits' \in Nat /\ faults' \in Nat
    BY <2>2 DEF IInv, TypeOK
  <2>4. QED
    BY <2>1, <2>2, <2>3, Frame
<1>4. QED
  BY <1>1, <1>2, <1>3 DEF Users

\* Failures keep it, also that of an Update whose error is dropped.
LEMMA DisturbanceStep == IInv /\ Disturbance => IInv'
<1> SUFFICES ASSUME IInv, Disturbance PROVE IInv'
  OBVIOUS
<1>0. edits \in Nat /\ faults \in Nat /\ node \in Node \cup {Absent}
  BY DEF IInv, TypeOK
<1>00. Phases = {"none", "pending", "unready", "ready"}
  BY DEF Phases
<1>1. CASE DeleteNode
  <2>1. faults' \in Nat /\ edits' \in Nat
    BY <1>0, <1>1 DEF DeleteNode, Disturb
  <2>2. QED
    BY <1>1, <2>1, OthersWrite DEF DeleteNode
<1>2. CASE Scale
  <2>1. sts \in StatefulSet /\ 1 - sts.replicas \in {0, 1}
    BY <1>2 DEF Scale, HasSts, IInv, TypeOK, StatefulSet
  <2>2. [sts EXCEPT !.replicas = 1 - sts.replicas] \in StatefulSet
    BY <2>1, ObjectTypes
  <2>3. faults' \in Nat
    BY <1>0, <1>2 DEF Scale, Disturb
  <2>4. QED
    BY <1>2, <2>2, <2>3 DEF Scale, SetSts, workerVars, IInv, TypeOK, Copies, Tracked
<1>3. CASE FailReconcile
  <2> USE DEF apiVars, cacheVars
  <2>0. Disturb("apierror")
    BY <1>3 DEF FailReconcile
  <2>1. faults' \in Nat
    BY <1>0, <2>0 DEF Disturb
  <2>2. CASE Return(TRUE) /\ UNCHANGED NodeMap
    BY <1>3, <2>1, <2>2, ReturnStep DEF FailReconcile, IInv, TypeOK, Copies, Tracked
  <2>3. CASE /\ pc = "sts" /\ HasSts(stsCache) /\ Change(stsCache, seen) # ""
             /\ Continue("sync") /\ NodeMap' = Change(stsCache, seen)
    <3>1. stsCache \in StatefulSet /\ seen \in Node
      BY <2>3 DEF HasSts, IInv, TypeOK, Copies
    <3> DEFINE to == Change(stsCache, seen)
    <3>2. /\ to \in {"Upgrading", "Starting", "Stopping"}
          /\ to = "Starting" => seen.desired = "Running"
          /\ to = "Stopping" => seen.desired = "Stopped"
      BY <2>3, <3>1, ChangeWanted
    <3>3. NodeMap' = to /\ pc' = "sync" /\ UNCHANGED <<queued, seen, latest>>
      BY <2>3, ContinueStep
    <3> HIDE DEF to
    <3>4. Tracked' /\ NodeMap' \in Statuses
      BY <3>2, <3>3 DEF Statuses, Tracked
    <3>5. QED
      BY <1>3, <2>1, <2>3, <3>3, <3>4 DEF FailReconcile, IInv, TypeOK, Copies
  <2>4. QED
    BY <1>3, <2>2, <2>3 DEF FailReconcile
<1>4. CASE Crash
  <2>0. Disturb("crash") /\ queued' = (node # Absent)
    BY <1>4 DEF Crash
  <2>1. faults' \in Nat
    BY <1>0, <2>0 DEF Disturb
  <2>2. QED
    BY <1>4, <2>0, <2>1 DEF Crash, apiVars, IInv, TypeOK, Copies, Tracked, Statuses
<1>5. CASE Evict
  BY <1>0, <1>00, <1>5, PodStepKeeps DEF Evict, Disturb
<1>6. CASE BecomeUnready
  BY <1>0, <1>00, <1>6, PodStepKeeps DEF BecomeUnready, Disturb
<1>7. QED
  BY <1>1, <1>2, <1>3, <1>4, <1>5, <1>6 DEF Disturbance

\* The invariant is inductive.
LEMMA IInvNext == IInv /\ [Next]_vars => IInv'
<1> SUFFICES ASSUME IInv, [Next]_vars PROVE IInv'
  OBVIOUS
<1>1. CASE UNCHANGED vars
  <2>1. /\ UNCHANGED <<node, parts, sts, pod, nodeCache, stsCache, behind>>
        /\ UNCHANGED <<queued, pc, seen, latest, NodeMap, edits, faults>>
    BY <1>1 DEF vars, apiVars, cacheVars, workerVars, boundVars
  <2>2. /\ parts' \in [{"config", "log", "service"} -> Object]
        /\ pod' \in Phases /\ edits' \in Nat /\ faults' \in Nat
    BY <2>1 DEF IInv, TypeOK
  <2>3. QED
    BY <2>1, <2>2, Frame
<1>2. CASE Next
  BY <1>2, FetchStep, PartsStep, StatefulSetStep, SyncStep, InformStep, ClusterStep,
     UsersStep, DisturbanceStep
  DEF Next, Reconcile
<1>3. QED
  BY <1>1, <1>2
-----------------------------------------------------------------------------
\* Every variable of the reconciler keeps its type, and copies are worth what Copies
\* says, for every bound and every set of disturbances.
THEOREM Invariant == Spec => []IInv
<1>1. QED
  BY IInvInit, IInvNext, PTL DEF Spec

\* In particular the types.
THEOREM TypeCorrect == Spec => []TypeOK
<1>1. IInv => TypeOK
  BY DEF IInv
<1>2. QED
  BY <1>1, Invariant, PTL
-----------------------------------------------------------------------------
(* The refinement of NodeStatus.                                           *)

\* What the refinement mapping says of the CitaNode.
LEMMA Mapping ==
  ASSUME IInv
  PROVE  /\ node = Absent => Status = "" /\ Wanted = "Running"
         /\ node # Absent => /\ node \in Node
                            /\ Status = node.status /\ Wanted = node.desired
         /\ Wanted \in {"Running", "Stopped"}
<1>1. node # Absent => node \in Node /\ node.desired \in {"Running", "Stopped"}
  BY DEF IInv, TypeOK, Node, Desired
<1>2. QED
  BY <1>1 DEF Status, Wanted

\* Initial states map to initial states.
LEMMA StatusInit == Init => S!Init
BY DEF Init, S!Init, S!Wanted, Status, Wanted

\* A step that leaves the CitaNode alone stutters.
LEMMA StatusStutter == UNCHANGED node => UNCHANGED S!vars
BY DEF S!vars, Status, Wanted

\* A status that is written moves by itself or on account of its user.
LEMMA StatusMoves ==
  ASSUME IInv, IInv', node \in Node, node' \in Node, node = seen,
         node'.desired = seen.desired, seen.status # "",
         Moves(seen.status, node'.status)
  PROVE  S!Next
<1>1. node # Absent /\ node' # Absent
  BY ObjectTypes
<1>2. /\ Status = seen.status /\ Status' = node'.status
      /\ Wanted = seen.desired /\ Wanted' = Wanted
  BY <1>1 DEF Status, Wanted
<1>3. CASE <<Status, Status'>> \in {<<"Starting", "Running">>, <<"Stopping", "Stopped">>,
                                   <<"Running", "Error">>, <<"Error", "Running">>}
  <2>1. S!Live
    BY <1>1, <1>2, <1>3 DEF S!Live, S!Lives
  <2>2. QED
    BY <2>1 DEF S!Next
<1>4. CASE \/ Status' = "Starting" /\ Wanted = "Running"
           \/ Status' = "Stopping" /\ Wanted = "Stopped"
           \/ Status' = "Upgrading"
  <2>1. S!Act
    BY <1>1, <1>2, <1>4 DEF S!Act
  <2>2. QED
    BY <2>1 DEF S!Next
<1>5. QED
  BY <1>2, <1>3, <1>4 DEF Moves

\* Every step of the reconciler and of its users is a step of NodeStatus or a stutter.
LEMMA StatusNext == IInv /\ [Next]_vars => [S!Next]_(S!vars)
<1> SUFFICES ASSUME IInv, [Next]_vars PROVE [S!Next]_(S!vars)
  OBVIOUS
<1>0. IInv'
  BY IInvNext
<1>1. CASE UNCHANGED node
  BY <1>1, StatusStutter
<1>2. CASE Fetch /\ node # node'
  <2>1. /\ nodeCache # Absent /\ nodeCache.status = "" /\ "node" \notin behind
        /\ node' = [node EXCEPT !.status = "Starting"]
    BY <1>2 DEF Fetch, SetNode
  <2>2. node \in Node /\ node.status = ""
    BY <2>1 DEF IInv, TypeOK, Copies
  <2>3. node' # Absent /\ node'.status = "Starting" /\ node'.desired = node.desired
    <3>1. [node EXCEPT !.status = "Starting"] \in Node
      BY <2>2, ObjectTypes DEF Statuses
    <3>2. QED
      BY <2>1, <2>2, <3>1, ObjectTypes DEF Node
  <2>4. /\ node # Absent
        /\ Status = "" /\ Status' = "Starting" /\ Wanted' = Wanted
    BY <2>2, <2>3, ObjectTypes DEF Status, Wanted
  <2>5. S!Live
    BY <2>3, <2>4 DEF S!Live, S!Lives
  <2>6. QED
    BY <2>5 DEF S!Next
<1>3. CASE SyncStatus /\ node # node'
  <2>1. /\ seen \in Node /\ seen.status # "" /\ node = seen /\ node' \in Node
        /\ node'.desired = seen.desired
        /\ Moves(seen.status, node'.status)
    BY <1>3, SyncWrites
  <2>2. QED
    BY <1>0, <2>1, StatusMoves
<1>4. CASE CreateNode
  <2>1. PICK d \in Desired, i \in NewImages :
          node' = [uid |-> edits + 1, desired |-> d, image |-> i, status |-> "",
                   podReady |-> "", trigger |-> <<"", "">>]
    BY <1>4 DEF CreateNode, SetNode
  <2>2. node = Absent /\ node' # Absent /\ node'.status = ""
    <3>1. node = Absent
      BY <1>4 DEF CreateNode
    <3>2. node'.status = "" /\ node'.uid = edits + 1
      BY <2>1
    <3>3. edits + 1 # 0
      BY DEF IInv, TypeOK
    <3>4. QED
      BY <3>1, <3>2, <3>3, ObjectTypes
  <2>3. Status' = "" /\ Wanted' \in {"Running", "Stopped"}
    <3>1. Wanted' = d
      BY <2>1, <2>2 DEF Wanted
    <3>2. QED
      BY <2>2, <3>1 DEF Status, Desired
  <2>4. S!Create
    BY <2>2, <2>3 DEF S!Create, S!Wanted
  <2>5. QED
    BY <2>4 DEF S!Next
<1>5. CASE ChangeNode
  <2>1. PICK d \in Desired, i \in Images :
          node' = [node EXCEPT !.desired = d, !.image = i]
    BY <1>5 DEF ChangeNode, SetNode
  <2>2. node # Absent /\ node \in Node
    BY <1>5 DEF ChangeNode, IInv, TypeOK
  <2>3. node' \in Node /\ node'.status = node.status
    <3>1. [node EXCEPT !.desired = d, !.image = i] \in Node
      BY <2>2, ObjectTypes
    <3>2. QED
      BY <2>1, <2>2, <3>1 DEF Node
  <2>4. node' # Absent /\ Status' = Status
    BY <2>2, <2>3, ObjectTypes DEF Status
  <2>5. Wanted' \in {"Running", "Stopped"}
    BY <2>3, <2>4 DEF Wanted, Node, Desired
  <2>6. S!Want
    BY <2>2, <2>4, <2>5 DEF S!Want, S!Wanted
  <2>7. QED
    BY <2>6 DEF S!Next
<1>6. CASE DeleteNode
  <2>1. node # Absent /\ node' = Absent
    BY <1>6 DEF DeleteNode, SetNode
  <2>2. Status' = "" /\ Wanted' = "Running"
    BY <2>1 DEF Status, Wanted
  <2>3. S!Delete
    BY <2>1, <2>2 DEF S!Delete, S!Wanted
  <2>4. QED
    BY <2>3 DEF S!Next
<1>7. CASE ReconcileParts \/ ReconcileStatefulSet \/ Inform \/ Resync
  BY <1>1, <1>7 DEF ReconcileParts, ReconcileStatefulSet, Inform, InformNode, InformSts,
     Resync, apiVars
<1>8. CASE Cluster
  BY <1>1, <1>8, ClusterStep
<1>9. CASE CreateConfigMap \/ Scale \/ FailReconcile \/ Crash \/ Evict \/ BecomeUnready
  BY <1>1, <1>9 DEF CreateConfigMap, Scale, FailReconcile, Crash, Evict, BecomeUnready,
     PodStep, apiVars
<1>10. CASE UNCHANGED vars
  BY <1>1, <1>10 DEF vars, apiVars
<1>11. QED
  BY <1>1, <1>2, <1>3, <1>4, <1>5, <1>6, <1>7, <1>8, <1>9, <1>10
  DEF Next, Reconcile, Users, Disturbance

\* The status of a CitaNode moves as NodeStatus says, whatever fails: ImplementsNodeStatus.
THEOREM Refinement == Spec => ImplementsNodeStatus
BY StatusInit, StatusNext, Invariant, PTL DEF Spec, ImplementsNodeStatus, S!Spec
=============================================================================
