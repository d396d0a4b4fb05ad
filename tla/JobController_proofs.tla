-------------------------- MODULE JobController_proofs --------------------------
(***************************************************************************)
(* Proofs about JobController and its refinement of Task, for any number of *)
(* CRs and names and any bounds.                                           *)
(***************************************************************************)
EXTENDS JobTask, TLAPS

USE NoneAssumption, CRsAssumption, DisturbancesAssumption

\* The records the variables hold.
LEMMA ObjectTypes ==
  /\ NoCR \in CustomResource
  /\ NoCR.uid = 0 /\ NoCR.status = "" /\ NoCR.defaulted = FALSE
  /\ NoJob.phase = "none" /\ NoJob.owner = None
  /\ \A o \in CRs, u \in Nat, s \in Nat, p \in Phases :
       [owner |-> o, uid |-> u, serial |-> s, phase |-> p] \in JobObject
  /\ \A j \in JobObject, p \in Phases : [j EXCEPT !.phase = p] \in JobObject
  /\ \A v \in CustomResource, s \in Statuses : [v EXCEPT !.status = s] \in CustomResource
  /\ \A v \in CustomResource, b \in BOOLEAN : [v EXCEPT !.defaulted = b] \in CustomResource
  /\ \A u \in Nat : [NoCR EXCEPT !.uid = u] \in CustomResource
BY DEF NoCR, CustomResource, NoJob, JobObject, Statuses, Finished

\* The program starts well typed.
LEMMA TypeInit == Init => TypeOK
<1> SUFFICES ASSUME Init PROVE TypeOK
  OBVIOUS
<1>1. cr \in [CRs -> CustomResource] /\ crCache \in [CRs -> CustomResource]
  BY ObjectTypes DEF Init
<1>2. /\ job \in [Names -> JobObject \cup {NoJob}]
      /\ jobCache \in [Names -> JobObject \cup {NoJob}]
      /\ pod \in [Names -> BOOLEAN]
      /\ claim \in [Names -> Claim \cup {NoClaim}]
  BY DEF Init
<1>3. /\ queue \in SUBSET CRs
      /\ pc \in [Kinds -> Locations]
      /\ cur \in [Kinds -> CRs \cup {None}]
      /\ seen \in [Kinds -> CustomResource]
      /\ verdict \in [Kinds -> Statuses]
      /\ \A k \in Kinds : pc[k] # "idle" => cur[k] \in CRs
  BY ObjectTypes DEF Init, Locations, Statuses
<1>4. /\ timers \in [Names -> Nat] /\ faults \in Nat
      /\ uids \in [CRs -> Nat] /\ made \in [CRs -> Nat]
      /\ won \in [CRs -> SUBSET Nat] /\ lost \in [CRs -> SUBSET Nat]
  BY DEF Init
<1>5. QED
  BY <1>1, <1>2, <1>3, <1>4 DEF TypeOK

\* Writing the CR back keeps its type.
LEMMA PutType ==
  ASSUME TypeOK, NEW k \in Kinds, cur[k] \in CRs, NEW object \in CustomResource,
         Put(k, object)
  PROVE  cr' \in [CRs -> CustomResource]
BY DEF Put, TypeOK

\* A Reconcile that ends leaves the worker and the queue well typed.
LEMMA ReturnType ==
  ASSUME TypeOK, NEW k \in Kinds, cur[k] \in CRs, NEW again \in BOOLEAN,
         Return(k, again)
  PROVE  /\ queue' \in SUBSET CRs
         /\ pc' \in [Kinds -> Locations]
         /\ cur' \in [Kinds -> CRs \cup {None}]
         /\ seen' \in [Kinds -> CustomResource]
         /\ verdict' \in [Kinds -> Statuses]
         /\ \A i \in Kinds : pc'[i] # "idle" => cur'[i] \in CRs
BY ObjectTypes DEF Return, TypeOK, Locations, Statuses

\* So does one that goes on at another place.
LEMMA ContinueType ==
  ASSUME TypeOK, NEW k \in Kinds, cur[k] \in CRs, NEW l \in Locations,
         Continue(k, l)
  PROVE  /\ pc' \in [Kinds -> Locations]
         /\ UNCHANGED <<cur, seen, queue>>
         /\ \A i \in Kinds : pc'[i] # "idle" => cur'[i] \in CRs
BY DEF Continue, TypeOK

\* The end of a Job keeps the types of what it changes.
LEMMA EndType ==
  ASSUME TypeOK, NEW n \in Names, NEW p \in Ended, End(n, p)
  PROVE  /\ job' \in [Names -> JobObject \cup {NoJob}]
         /\ won' \in [CRs -> SUBSET Nat]
         /\ lost' \in [CRs -> SUBSET Nat]
         /\ UNCHANGED <<cr, crCache, jobCache, claim, queue, pc, cur, seen, verdict,
                        timers, uids, made>>
<1>0. job[n].phase = "Active" /\ job[n] \in JobObject \cup {NoJob}
  BY DEF End, TypeOK
<1>1. /\ job[n] \in JobObject /\ job[n].owner \in CRs /\ job[n].uid \in Nat
  BY <1>0, ObjectTypes DEF JobObject
<1>2. [job[n] EXCEPT !.phase = p] \in JobObject
  BY <1>1, ObjectTypes DEF Ended, Phases
<1>3. job' = [job EXCEPT ![n] = [job[n] EXCEPT !.phase = p]]
  BY DEF End
<1>4. p = "Succeeded" => /\ won' \in [CRs -> SUBSET Nat]
                         /\ lost' \in [CRs -> SUBSET Nat]
  BY SMTT(30), <1>1 DEF End, TypeOK
<1>5. p # "Succeeded" => /\ won' \in [CRs -> SUBSET Nat]
                         /\ lost' \in [CRs -> SUBSET Nat]
  BY <1>1 DEF End, TypeOK
<1>6. job' \in [Names -> JobObject \cup {NoJob}]
  BY <1>2, <1>3 DEF TypeOK
<1>7. UNCHANGED <<cr, crCache, jobCache, claim, queue, pc, cur, seen, verdict,
                  timers, uids, made>>
  BY DEF End, workerVars
<1>8. QED
  BY <1>4, <1>5, <1>6, <1>7

\* Every step of Reconcile keeps the types.
LEMMA ReconcileType ==
  ASSUME TypeOK, NEW k \in Kinds, Reconcile(k)
  PROVE  TypeOK'
<1> USE DEF apiVars, workerVars, historyVars
<1>0. pc[k] # "idle" /\ cur[k] \in CRs /\ JobName(k) \in Names /\ seen[k] \in CustomResource
  BY DEF Reconcile, SetDefaultSpec, MissRef, SetDefaultStatus, CleanUp, FindJob,
     Ready, CreateClaim, CreateJob, LoseJob, SeeRunning, SeeFailed, SeeSucceeded,
     WriteStatus, TypeOK, JobName
<1>1. CASE SetDefaultSpec(k)
  BY <1>0, <1>1, ObjectTypes, PutType, ReturnType DEF SetDefaultSpec, TypeOK
<1>2. CASE MissRef(k)
  BY <1>0, <1>2, ReturnType DEF MissRef, TypeOK
<1>3. CASE SetDefaultStatus(k)
  <2>1. [seen[k] EXCEPT !.status = "Active"] \in CustomResource
    BY <1>0, ObjectTypes DEF Statuses
  <2>2. QED
    BY <1>0, <1>3, <2>1, PutType, ReturnType DEF SetDefaultStatus, TypeOK
<1>4. CASE CleanUp(k)
  <2>1. timers' \in [Names -> Nat]
    BY <1>0, <1>4 DEF CleanUp, TypeOK
  <2>2. Return(k, FALSE)
    BY <1>4 DEF CleanUp
  <2>3. QED
    BY <1>0, <1>4, <2>1, <2>2, ReturnType DEF CleanUp, TypeOK
<1>5. CASE FindJob(k)
  <2> DEFINE next == CASE jobCache[JobName(k)] # NoJob -> "sync"
                       [] k \in ClaimingKinds          -> "claim"
                       [] OTHER                        -> "create"
  <2>0. next \in Locations
    BY DEF Locations
  <2>1. \E l \in Locations : Continue(k, l)
    <3>1. Continue(k, next) /\ next \in Locations
      BY <1>5, <2>0 DEF FindJob
    <3> HIDE DEF next
    <3>2. QED
      BY <3>1
  <2>2. PICK l \in Locations : Continue(k, l)
    BY <2>1
  <2>3. QED
    BY <1>0, <1>5, <2>2, ContinueType DEF FindJob, TypeOK
<1>6. CASE CreateClaim(k)
  <2>1. seen[k].uid \in Nat
    BY <1>0 DEF CustomResource
  <2>2. CASE claim[JobName(k)] = NoClaim
    <3>1. [owner |-> cur[k], uid |-> seen[k].uid] \in Claim
      BY <1>0, <2>1 DEF Claim
    <3>2. claim' \in [Names -> Claim \cup {NoClaim}]
      BY <1>6, <2>2, <3>1 DEF CreateClaim, TypeOK
    <3>3. Continue(k, "create") /\ "create" \in Locations /\ UNCHANGED verdict
      BY <1>6, <2>2 DEF CreateClaim, Locations
    <3>4. QED
      BY <1>0, <1>6, <3>2, <3>3, ContinueType DEF CreateClaim, TypeOK
  <2>3. CASE claim[JobName(k)] # NoClaim
    BY <1>0, <1>6, <2>3, ReturnType DEF CreateClaim, TypeOK
  <2>4. QED
    BY <2>2, <2>3
<1>7. CASE CreateJob(k)
  <2>1. seen[k].uid \in Nat /\ made[cur[k]] + 1 \in Nat
    BY <1>0 DEF CustomResource, TypeOK
  <2>2. [owner |-> cur[k], uid |-> seen[k].uid, serial |-> made[cur[k]] + 1,
         phase |-> "New"] \in JobObject
    BY <1>0, <2>1 DEF JobObject, Phases
  <2>3. job' \in [Names -> JobObject \cup {NoJob}] /\ made' \in [CRs -> Nat]
    BY SMTT(30), <1>7, <2>1, <2>2 DEF CreateJob, TypeOK
  <2>4. QED
    BY <1>0, <1>7, <2>3, ReturnType DEF CreateJob, TypeOK
<1>8. CASE LoseJob(k)
  BY <1>0, <1>8, ReturnType DEF LoseJob, TypeOK
<1>9. CASE SeeRunning(k)
  BY <1>0, <1>9, ReturnType DEF SeeRunning, TypeOK
<1>10. CASE SeeFailed(k)
  BY <1>0, <1>10, ContinueType, ReturnType
     DEF SeeFailed, TypeOK, Locations, Statuses, Finished
<1>11. CASE SeeSucceeded(k)
  <2>1. CASE k \in MeasuredKinds /\ (~PodListed(k) \/ jobCache[JobName(k)].owner \in Unmeasured)
    <3>1. Return(k, PodListed(k)) /\ PodListed(k) \in BOOLEAN
      BY <1>11, <2>1 DEF SeeSucceeded, PodListed, TypeOK
    <3>2. QED
      BY <1>0, <1>11, <3>1, ReturnType DEF SeeSucceeded, TypeOK
  <2>2. CASE ~(k \in MeasuredKinds /\ (~PodListed(k) \/ jobCache[JobName(k)].owner \in Unmeasured))
    <3>1. Continue(k, "write") /\ verdict' = [verdict EXCEPT ![k] = "Complete"]
      BY <1>11, <2>2 DEF SeeSucceeded
    <3>2. "write" \in Locations /\ "Complete" \in Statuses
      BY DEF Locations, Statuses, Finished
    <3>3. QED
      BY <1>0, <1>11, <3>1, <3>2, ContinueType DEF SeeSucceeded, TypeOK
  <2>3. QED
    BY <2>1, <2>2
<1>12. CASE WriteStatus(k)
  <2>1. [seen[k] EXCEPT !.status = verdict[k]] \in CustomResource
    BY <1>0, ObjectTypes DEF TypeOK
  <2>2. QED
    BY <1>0, <1>12, <2>1, PutType, ReturnType DEF WriteStatus, TypeOK
<1>13. QED
  BY <1>1, <1>2, <1>3, <1>4, <1>5, <1>6, <1>7, <1>8, <1>9, <1>10, <1>11, <1>12
     DEF Reconcile

\* Taking a CR from the queue keeps the types.
LEMMA FetchType ==
  ASSUME TypeOK, NEW c \in CRs, Fetch(c)
  PROVE  TypeOK'
<1>1. KindOf[c] \in Kinds /\ crCache[c] \in CustomResource
  BY DEF TypeOK
<1>2. CASE crCache[c].uid = 0
  BY <1>2 DEF Fetch, TypeOK, apiVars, workerVars, historyVars
<1>3. CASE crCache[c].uid # 0
  <2>1. /\ pc' = [pc EXCEPT ![KindOf[c]] = "fetched"]
        /\ cur' = [cur EXCEPT ![KindOf[c]] = c]
        /\ seen' = [seen EXCEPT ![KindOf[c]] = crCache[c]]
        /\ queue' = queue \ {c}
        /\ UNCHANGED <<apiVars, crCache, jobCache, timers, historyVars, faults, verdict>>
    BY <1>3 DEF Fetch
  <2>2. "fetched" \in Locations
    BY DEF Locations
  <2>3. /\ pc' \in [Kinds -> Locations] /\ cur' \in [Kinds -> CRs \cup {None}]
        /\ seen' \in [Kinds -> CustomResource] /\ queue' \in SUBSET CRs
    BY <1>1, <2>1, <2>2 DEF TypeOK
  <2>4. \A k \in Kinds : pc'[k] # "idle" => cur'[k] \in CRs
    BY <1>1, <2>1 DEF TypeOK
  <2>5. QED
    BY <2>1, <2>3, <2>4 DEF TypeOK, apiVars, historyVars
<1>4. QED
  BY <1>2, <1>3

\* The steps of the informers, the timers, the cluster and the users.
LEMMA ClusterType ==
  ASSUME TypeOK
  PROVE  /\ \A n \in Names : CleanJob(n) \/ InformJob(n) \/ StartJob(n)
              \/ EndJob(n) \/ Collect(n) => TypeOK'
         /\ \A c \in CRs : InformCR(c) \/ CreateCR(c) => TypeOK'
         /\ Resync => TypeOK'
<1> USE DEF apiVars, workerVars, historyVars
<1>1. ASSUME NEW n \in Names, CleanJob(n) PROVE TypeOK'
  BY <1>1 DEF CleanJob, Remove, TypeOK
<1>2. ASSUME NEW n \in Names, InformJob(n) PROVE TypeOK'
  BY <1>2 DEF InformJob, Enqueued, TypeOK
<1>3. ASSUME NEW n \in Names, StartJob(n) PROVE TypeOK'
  <2>1. [job[n] EXCEPT !.phase = "Active"] \in JobObject
    BY <1>3, ObjectTypes DEF StartJob, TypeOK, Phases
  <2>2. QED
    BY <1>3, <2>1 DEF StartJob, TypeOK
<1>4. ASSUME NEW n \in Names, EndJob(n) PROVE TypeOK'
  <2>1. PICK p \in Ended : End(n, p)
    BY <1>4 DEF EndJob
  <2>2. QED
    BY <1>4, <2>1, EndType DEF EndJob, TypeOK
<1>5. ASSUME NEW n \in Names, Collect(n) PROVE TypeOK'
  BY <1>5 DEF Collect, Remove, TypeOK
<1>6. ASSUME NEW c \in CRs, InformCR(c) PROVE TypeOK'
  BY <1>6 DEF InformCR, TypeOK
<1>7. ASSUME NEW c \in CRs, CreateCR(c) PROVE TypeOK'
  <2>1. uids[c] + 1 \in Nat
    BY DEF TypeOK
  <2>2. [NoCR EXCEPT !.uid = uids[c] + 1] \in CustomResource
    BY <2>1, ObjectTypes
  <2>3. QED
    BY <1>7, <2>1, <2>2 DEF CreateCR, TypeOK
<1>8. ASSUME Resync PROVE TypeOK'
  BY <1>8 DEF Resync, TypeOK
<1>9. QED
  BY <1>1, <1>2, <1>3, <1>4, <1>5, <1>6, <1>7, <1>8

\* Disturbances keep the types.
LEMMA DisturbanceType ==
  ASSUME TypeOK, Disturbance
  PROVE  TypeOK'
<1> USE DEF apiVars, workerVars, historyVars, Disturb
<1>0. faults + 1 \in Nat
  BY DEF TypeOK
<1>1. ASSUME NEW k \in Kinds, FailReconcile(k) PROVE TypeOK'
  <2>1. cur[k] \in CRs /\ Return(k, TRUE)
    BY <1>1 DEF FailReconcile, TypeOK
  <2>2. QED
    BY <1>0, <1>1, <2>1, ReturnType DEF FailReconcile, TypeOK
<1>2. ASSUME NEW n \in Names, FailCleanJob(n) PROVE TypeOK'
  BY <1>0, <1>2 DEF FailCleanJob, TypeOK
<1>3. ASSUME NEW n \in Names, LosePod(n) PROVE TypeOK'
  <2>1. CASE job[n].phase = "Active"
    BY <1>0, <1>3, <2>1, EndType DEF LosePod, TypeOK, Ended
  <2>2. CASE job[n].phase # "Active"
    BY <1>0, <1>3, <2>2 DEF LosePod, TypeOK
  <2>3. QED
    BY <2>1, <2>2
<1>4. ASSUME NEW n \in Names, DeleteJob(n) PROVE TypeOK'
  BY <1>0, <1>4 DEF DeleteJob, Remove, TypeOK
<1>5. ASSUME NEW c \in CRs, DeleteCR(c) PROVE TypeOK'
  BY <1>0, <1>5, ObjectTypes DEF DeleteCR, TypeOK
<1>6. ASSUME Crash PROVE TypeOK'
  <2>1. /\ pc' \in [Kinds -> Locations] /\ cur' \in [Kinds -> CRs \cup {None}]
        /\ seen' \in [Kinds -> CustomResource] /\ verdict' \in [Kinds -> Statuses]
        /\ timers' \in [Names -> Nat] /\ queue' \in SUBSET CRs
        /\ \A k \in Kinds : pc'[k] # "idle" => cur'[k] \in CRs
    BY <1>6, ObjectTypes DEF Crash, Locations, Statuses
  <2>2. QED
    BY <1>0, <1>6, <2>1 DEF Crash, TypeOK
<1>7. QED
  BY <1>1, <1>2, <1>3, <1>4, <1>5, <1>6 DEF Disturbance

\* TypeOK is inductive on its own.
LEMMA TypeNext == TypeOK /\ [Next]_vars => TypeOK'
<1>1. ASSUME TypeOK, Next PROVE TypeOK'
  BY <1>1, FetchType, ReconcileType, ClusterType, DisturbanceType DEF Next
<1>2. ASSUME TypeOK, UNCHANGED vars PROVE TypeOK'
  BY <1>2 DEF TypeOK, vars
<1>3. QED
  BY <1>1, <1>2

\* Every variable keeps its type, for any number of CRs and names.
THEOREM TypeCorrect == Spec => []TypeOK
<1>1. QED
  BY TypeInit, TypeNext, PTL DEF Spec
-----------------------------------------------------------------------------
(* A result is final.                                                      *)

\* No worker works at first.
LEMMA AtWorkInit == Init => AtWork
BY ZenonT(60) DEF Init, AtWork

\* What a step leaves of the workers: either nobody is at work, or at most one
\* worker k changes, and it goes home, takes a CR, or goes on with the same copy.
LEMMA AtWorkNext == TypeOK /\ AtWork /\ [Next]_vars => AtWork'
<1> USE DEF workerVars
<1>1. ASSUME TypeOK, AtWork, NEW k \in Kinds, NEW again \in BOOLEAN, Return(k, again)
      PROVE  AtWork'
  BY <1>1 DEF TypeOK, AtWork, Return
<1>2. ASSUME TypeOK, AtWork, UNCHANGED <<pc, cur, seen>>
      PROVE  AtWork'
  BY <1>2 DEF AtWork
<1>3. ASSUME TypeOK, AtWork, NEW k \in Kinds, NEW l \in Locations, Continue(k, l),
             pc[k] # "idle", seen[k].status = "Active"
      PROVE  AtWork'
  BY <1>3 DEF TypeOK, AtWork, Continue
<1>4. ASSUME TypeOK, AtWork, NEW c \in CRs, Fetch(c) PROVE AtWork'
  <2>1. KindOf[c] \in Kinds
    OBVIOUS
  <2>2. QED
    BY <1>4, <2>1 DEF TypeOK, AtWork, Fetch
<1>5. ASSUME TypeOK, AtWork, NEW k \in Kinds, Reconcile(k) PROVE AtWork'
  <2>1. CASE FindJob(k)
    <3>1. seen[k].status = "Active" /\ pc[k] = "fetched"
      BY <1>5, <2>1 DEF FindJob, Ready, HasResult, TypeOK, CustomResource, Statuses
    <3>2. Continue(k, "sync") \/ Continue(k, "claim") \/ Continue(k, "create")
      BY <2>1 DEF FindJob
    <3>3. QED
      BY <1>3, <1>5, <3>1, <3>2 DEF Locations
  <2>2. CASE pc[k] \notin {"idle", "fetched"} /\ \E l \in Locations : Continue(k, l)
    BY <1>3, <1>5, <2>2 DEF AtWork
  <2>3. \/ \E again \in BOOLEAN : Return(k, again)
        \/ FindJob(k)
        \/ pc[k] \notin {"idle", "fetched"} /\ \E l \in Locations : Continue(k, l)
    BY <1>5 DEF Reconcile, SetDefaultSpec, MissRef, SetDefaultStatus, CleanUp,
       CreateClaim, CreateJob, LoseJob, SeeRunning, SeeFailed, SeeSucceeded, PodListed,
       WriteStatus, Locations, TypeOK
  <2>4. QED
    BY <1>1, <1>5, <2>1, <2>2, <2>3
<1>6. ASSUME TypeOK, AtWork, Disturbance PROVE AtWork'
  <2>1. CASE Crash
    BY <2>1 DEF Crash, AtWork
  <2>2. CASE \E k \in Kinds : FailReconcile(k)
    BY <1>1, <1>6, <2>2 DEF FailReconcile
  <2>3. QED
    BY <1>2, <1>6, <2>1, <2>2 DEF Disturbance, FailCleanJob, LosePod, End, DeleteJob,
       DeleteCR
<1>7. QED
  BY <1>2, <1>4, <1>5, <1>6 DEF Next, CleanJob, InformCR, InformJob, Resync, StartJob,
     EndJob, End, Collect, CreateCR, vars

\* A status that is written over was not a result.
LEMMA ResultStep ==
  ASSUME TypeOK, AtWork, Next, NEW c \in CRs, cr[c].status \in Finished,
         cr'[c].uid = cr[c].uid
  PROVE  cr'[c].status = cr[c].status
<1> USE DEF apiVars
<1>1. ASSUME NEW k \in Kinds, Reconcile(k) PROVE cr'[c].status = cr[c].status
  <2>0. seen[k] \in CustomResource /\ cr[c] \in CustomResource
    BY DEF TypeOK
  <2>1. CASE SetDefaultSpec(k)
    BY <2>0, <2>1 DEF SetDefaultSpec, Put, TypeOK, CustomResource
  <2>2. CASE SetDefaultStatus(k)
    BY <2>0, <2>2 DEF SetDefaultStatus, Put, TypeOK, Finished
  <2>3. CASE WriteStatus(k)
    <3>1. seen[k].status = "Active"
      BY <2>3 DEF WriteStatus, AtWork
    <3>2. QED
      BY <2>0, <2>3, <3>1 DEF WriteStatus, Put, TypeOK, Finished
  <2>4. CASE UNCHANGED cr
    BY <2>4
  <2>5. QED
    BY <1>1, <2>1, <2>2, <2>3, <2>4 DEF Reconcile, MissRef, CleanUp, FindJob,
       CreateClaim, CreateJob, LoseJob, SeeRunning, SeeFailed, SeeSucceeded
<1>2. ASSUME NEW d \in CRs, CreateCR(d) PROVE cr'[c].status = cr[c].status
  <2>1. CASE c = d
    <3>1. uids[c] + 1 # 0
      BY DEF TypeOK
    <3>2. cr'[c].uid = uids[c] + 1 /\ cr[c].uid = 0
      BY <1>2, <2>1 DEF CreateCR, TypeOK, NoCR
    <3>3. cr'[c].uid # cr[c].uid
      BY <3>1, <3>2, Zenon
    <3>4. QED
      BY <3>3
  <2>2. CASE c # d
    BY <1>2, <2>2 DEF CreateCR, TypeOK
  <2>3. QED
    BY <2>1, <2>2
<1>3. ASSUME NEW d \in CRs, DeleteCR(d) PROVE cr'[c].status = cr[c].status
  BY <1>3 DEF DeleteCR, TypeOK, CustomResource, NoCR
<1>4. CASE UNCHANGED cr
  BY <1>4
<1>5. QED
  BY <1>1, <1>2, <1>3, <1>4 DEF Next, Fetch, CleanJob, InformCR, InformJob, Resync,
     StartJob, EndJob, End, Collect, Disturbance, FailReconcile, FailCleanJob, LosePod,
     DeleteJob, Crash

\* A Complete or Failed status stays as long as the CR does, whatever crashes, failed
\* calls, stale caches, reused and shared names there are.
THEOREM FinalResult == Spec => ResultIsFinal
<1>1. TypeOK /\ AtWork /\ [Next]_vars =>
      [\A c \in CRs : cr[c].status \in Finished /\ cr'[c].uid = cr[c].uid
                      => cr'[c].status = cr[c].status]_vars
  BY ResultStep
<1>2. Spec => []AtWork
  BY AtWorkInit, AtWorkNext, TypeCorrect, PTL DEF Spec
<1>3. QED
  BY <1>1, <1>2, TypeCorrect, PTL DEF Spec, ResultIsFinal
=============================================================================
