---------------------------- MODULE JobTask_proofs ----------------------------
(***************************************************************************)
(* When every name is used once, JobController keeps IInv, hence runs one  *)
(* Job per CR, reports that Job's own result and implements Task.          *)
(***************************************************************************)
EXTENDS JobController_proofs

USE NoneAssumption, CRsAssumption, DisturbancesAssumption

\* Stated because the provers lose it among untyped hypotheses.
LEMMA OneNotZero == 1 # 0
OBVIOUS

\* The invariant holds when nothing has been created.
LEMMA IInvInit == Init => IInv
<1> SUFFICES ASSUME Init PROVE IInv
  OBVIOUS
<1>1. TypeOK /\ AtWork
  BY TypeInit, AtWorkInit
<1>2. OneIncarnation /\ CacheIsEarlier /\ OwnResult
  BY ObjectTypes DEF Init, OneIncarnation, CacheIsEarlier, Earlier, OwnResult, Finished
<1>3. JobsAreGenuine
  BY DEF Init, JobsAreGenuine
<1>4. OneOutcome /\ CleanedLate
  <2>1. \A c \in CRs : /\ made[c] = 0 /\ won[c] = {} /\ lost[c] = {}
                       /\ timers[NameOf[c]] = 0
    BY DEF Init
  <2>2. QED
    <3>1. OneOutcome
      <4> SUFFICES ASSUME NEW c \in CRs
                   PROVE  /\ made[c] \in {0, 1}
                          /\ made[c] = 1 => uids[c] = 1 /\ cr[c].status # ""
                          /\ made[c] = 0 => won[c] = {} /\ lost[c] = {}
                          /\ won[c] = {} \/ lost[c] = {}
        BY DEF OneOutcome
      <4>1. made[c] \in {0, 1}
        BY <2>1
      <4>2. made[c] # 1
        BY <1>1, <2>1 DEF TypeOK
      <4>3. won[c] = {} /\ lost[c] = {}
        BY <2>1
      <4>4. QED
        BY <4>1, <4>2, <4>3
    <3>2. CleanedLate
      BY <2>1 DEF CleanedLate
    <3>3. QED
      BY <3>1, <3>2
<1>5. WorkersAreSafe
  BY DEF Init, WorkersAreSafe, Safe
<1>6. QED
  BY <1>1, <1>2, <1>3, <1>4, <1>5 DEF IInv, StoreIsSound

\* The store part only depends on the API objects, the caches and the timers.
LEMMA StoreFrame ==
  ASSUME StoreIsSound,
         UNCHANGED <<cr, crCache, job, jobCache, timers, uids, made, won, lost>>
  PROVE  StoreIsSound'
<1>1. OneIncarnation' /\ CacheIsEarlier' /\ CleanedLate' /\ OwnResult'
  BY DEF StoreIsSound, OneIncarnation, CacheIsEarlier, Earlier, CleanedLate, OwnResult
<1>2. JobsAreGenuine'
  BY DEF StoreIsSound, JobsAreGenuine, Genuine
<1>3. OneOutcome'
  BY DEF StoreIsSound, OneOutcome
<1>4. QED
  BY <1>1, <1>2, <1>3 DEF StoreIsSound

\* A step that touches neither the workers nor what they look at keeps them
\* safe.
LEMMA WorkersFrame ==
  ASSUME WorkersAreSafe,
         UNCHANGED <<cr, crCache, job, timers, uids, made, won, lost, pc, cur, seen, verdict>>
  PROVE  WorkersAreSafe'
BY DEF WorkersAreSafe, Safe, Earlier, JobName

\* A worker that goes home leaves the others as they are.
LEMMA WorkersReturn ==
  ASSUME TypeOK, WorkersAreSafe, NEW k \in Kinds, NEW again \in BOOLEAN,
         Return(k, again),
         UNCHANGED <<cr, crCache, job, timers, uids, made, won, lost>>
  PROVE  WorkersAreSafe'
BY ZenonT(60) DEF TypeOK, WorkersAreSafe, Safe, Return, Earlier, JobName

\* A worker that goes on keeps its copy.
LEMMA WorkersContinue ==
  ASSUME TypeOK, WorkersAreSafe, NEW k \in Kinds, NEW l \in Locations, Continue(k, l),
         pc[k] # "idle", l # "write",
         UNCHANGED <<cr, crCache, job, timers, uids, made, won, lost, verdict>>
  PROVE  WorkersAreSafe'
BY ZenonT(60) DEF TypeOK, WorkersAreSafe, Safe, Continue, Earlier, JobName

\* Of two workers each has a CR and a name of its own.
LEMMA OwnNamesOfWorkers ==
  ASSUME Isolated, TypeOK, AtWork, NEW i \in Kinds, NEW k \in Kinds, i # k,
         pc[i] # "idle", pc[k] # "idle"
  PROVE  cur[i] # cur[k] /\ JobName(i) # JobName(k)
BY DEF Isolated, TypeOK, AtWork, JobName

\* A worker takes a copy from a cache that is earlier than the API.
LEMMA FetchStep ==
  ASSUME Isolated, IInv, NEW c \in CRs, Fetch(c)
  PROVE  StoreIsSound' /\ WorkersAreSafe'
<1> USE DEF IInv, apiVars, historyVars, workerVars
<1>1. StoreIsSound'
  BY StoreFrame DEF Fetch
<1>2. CASE crCache[c].uid = 0
  BY <1>1, <1>2, WorkersFrame DEF Fetch
<1>3. CASE crCache[c].uid # 0
  <2>1. /\ crCache[c].uid = 1 /\ Earlier(crCache[c], c)
        /\ crCache[c].status \notin Finished =>
             ~(timers[NameOf[c]] > 0) /\ (made[c] = 1 => job[NameOf[c]] # NoJob)
    BY <1>3 DEF StoreIsSound, CacheIsEarlier, Earlier, CleanedLate
  <2>2. timers[NameOf[c]] \in Nat /\ KindOf[c] \in Kinds
    BY DEF TypeOK
  <2>3. /\ pc' = [pc EXCEPT ![KindOf[c]] = "fetched"]
        /\ cur' = [cur EXCEPT ![KindOf[c]] = c]
        /\ seen' = [seen EXCEPT ![KindOf[c]] = crCache[c]]
        /\ UNCHANGED <<cr, crCache, job, timers, uids, made, won, lost, verdict>>
    BY <1>3 DEF Fetch
  <2>4. ASSUME NEW k \in Kinds, k # KindOf[c]
        PROVE  pc'[k] = pc[k] /\ cur'[k] = cur[k] /\ seen'[k] = seen[k]
    BY <2>2, <2>3, <2>4 DEF TypeOK
  <2>5. LET k == KindOf[c] IN
        pc'[k] = "fetched" /\ cur'[k] = c /\ seen'[k] = crCache[c]
    BY <2>2, <2>3 DEF TypeOK
  <2>6. ASSUME NEW k \in Kinds PROVE Safe(k)'
    <3>1. CASE k # KindOf[c]
      <4>1. pc'[k] = pc[k] /\ cur'[k] = cur[k] /\ seen'[k] = seen[k]
        BY <2>4, <3>1
      <4>2. Safe(k)
        BY DEF WorkersAreSafe
      <4>3. QED
        BY <2>3, <4>1, <4>2 DEF WorkersAreSafe, Safe, Earlier, JobName
    <3>2. CASE k = KindOf[c]
      <4>1. pc'[k] = "fetched" /\ cur'[k] = c /\ seen'[k] = crCache[c]
        BY <2>5, <3>2
      <4>2. crCache[c].status \notin Finished => timers[NameOf[c]] = 0
        BY <2>1, <2>2
      <4>3. QED
        BY <2>1, <2>3, <4>1, <4>2 DEF Safe, Earlier, JobName
    <3>3. QED
      BY <3>1, <3>2
  <2>7. QED
    BY <1>1, <2>6 DEF WorkersAreSafe
<1>4. QED
  BY <1>1, <1>2, <1>3

\* Steps that only send a worker home or on.
LEMMA QuietSteps ==
  ASSUME Isolated, IInv, NEW k \in Kinds,
         \/ MissRef(k) \/ FindJob(k) \/ CreateClaim(k) \/ LoseJob(k) \/ SeeRunning(k)
         \/ FailReconcile(k)
  PROVE  StoreIsSound' /\ WorkersAreSafe'
<1> USE DEF IInv, apiVars, historyVars, workerVars
<1>1. UNCHANGED <<cr, crCache, job, jobCache, timers, uids, made, won, lost>>
  BY DEF MissRef, FindJob, CreateClaim, LoseJob, SeeRunning, FailReconcile
<1>2. StoreIsSound'
  BY <1>1, StoreFrame
<1>3. \/ Return(k, TRUE) \/ Return(k, FALSE)
      \/ /\ pc[k] # "idle" /\ UNCHANGED verdict
         /\ \E l \in Locations \ {"write"} : Continue(k, l)
  BY DEF MissRef, FindJob, Ready, CreateClaim, LoseJob, SeeRunning, FailReconcile, Locations
<1>4. WorkersAreSafe'
  BY <1>1, <1>3, WorkersReturn, WorkersContinue
<1>5. QED
  BY <1>2, <1>4

\* The cached Job of a CR's name was made for that CR.
LEMMA CachedJobIsOwn ==
  ASSUME Isolated, IInv, NEW k \in Kinds, pc[k] # "idle", jobCache[JobName(k)] # NoJob
  PROVE  /\ jobCache[JobName(k)].owner = cur[k]
         /\ jobCache[JobName(k)].phase = "Succeeded" => 1 \in won[cur[k]]
         /\ jobCache[JobName(k)].phase = "Failed" => 1 \in lost[cur[k]]
<1>1. cur[k] \in CRs /\ JobName(k) \in Names
  BY DEF IInv, TypeOK, JobName
<1>2. jobCache[JobName(k)] \in JobObject
  BY <1>1 DEF IInv, TypeOK
<1>3. jobCache[JobName(k)].owner \in CRs
  BY <1>2 DEF JobObject
<1>4. Genuine(jobCache[JobName(k)], JobName(k))
  BY <1>1 DEF IInv, StoreIsSound, JobsAreGenuine
<1>5. jobCache[JobName(k)].owner = cur[k]
  BY <1>1, <1>3, <1>4 DEF Isolated, Genuine, JobName
<1>6. QED
  BY <1>4, <1>5 DEF Genuine

\* A worker with a verdict.
LEMMA WorkersDecide ==
  ASSUME Isolated, IInv, NEW k \in Kinds, NEW v, Continue(k, "write"),
         pc[k] # "idle", verdict' = [verdict EXCEPT ![k] = v],
         \/ v = "Complete" /\ 1 \in won[cur[k]]
         \/ v = "Failed" /\ 1 \in lost[cur[k]],
         UNCHANGED <<cr, crCache, job, timers, uids, made, won, lost>>
  PROVE  WorkersAreSafe'
<1> SUFFICES ASSUME NEW i \in Kinds PROVE Safe(i)'
  BY DEF WorkersAreSafe
<1>1. Safe(i)
  BY DEF IInv, WorkersAreSafe
<1>2. CASE i # k
  <2>1. pc'[i] = pc[i] /\ verdict'[i] = verdict[i]
    BY <1>2 DEF IInv, TypeOK, Continue
  <2>2. QED
    BY <1>1, <2>1 DEF Safe, Earlier, JobName, Continue
<1>3. CASE i = k
  <2>1. pc'[k] = "write" /\ verdict'[k] = v
    BY DEF IInv, TypeOK, Continue
  <2>2. QED
    BY <1>1, <1>3, <2>1 DEF Safe, Earlier, JobName, Continue
<1>4. QED
  BY <1>2, <1>3

\* What a worker sees of a Job is what happened to the CR's own Job.
LEMMA SeeSteps ==
  ASSUME Isolated, IInv, NEW k \in Kinds, SeeFailed(k) \/ SeeSucceeded(k)
  PROVE  StoreIsSound' /\ WorkersAreSafe'
<1>0. UNCHANGED <<cr, crCache, job, jobCache, timers, uids, made, won, lost>>
  BY DEF SeeFailed, SeeSucceeded, apiVars, historyVars
<1>1. StoreIsSound'
  BY <1>0, StoreFrame DEF IInv
<1>2. /\ pc[k] # "idle"
      /\ jobCache[JobName(k)] # NoJob
  BY ObjectTypes DEF SeeFailed, SeeSucceeded
<1>3. CASE SeeFailed(k)
  <2>1. \/ Return(k, TRUE)
        \/ /\ Continue(k, "write") /\ verdict' = [verdict EXCEPT ![k] = "Failed"]
           /\ 1 \in lost[cur[k]]
    BY <1>2, <1>3, CachedJobIsOwn DEF SeeFailed
  <2>2. QED
    BY <1>0, <1>1, <1>2, <2>1, WorkersReturn, WorkersDecide DEF IInv
<1>4. CASE SeeSucceeded(k)
  <2>1. PodListed(k) \in BOOLEAN
    BY DEF IInv, TypeOK, PodListed
  <2>2. \/ Return(k, PodListed(k))
        \/ /\ Continue(k, "write") /\ verdict' = [verdict EXCEPT ![k] = "Complete"]
           /\ 1 \in won[cur[k]]
    BY <1>2, <1>4, CachedJobIsOwn DEF SeeSucceeded
  <2>3. QED
    BY <1>0, <1>1, <1>2, <2>1, <2>2, WorkersReturn, WorkersDecide DEF IInv
<1>5. QED
  BY <1>3, <1>4

\* Writing a CR back, or failing to: it keeps its incarnation, its status does not
\* move back, and a result is that of its Job.
LEMMA PutStep ==
  ASSUME Isolated, IInv, NEW k \in Kinds, NEW object \in CustomResource,
         NEW again \in BOOLEAN, pc[k] # "idle", Put(k, object), Return(k, again),
         cr[cur[k]] = seen[k] =>
           /\ object.uid = seen[k].uid
           /\ seen[k].status # "" => object.status # ""
           /\ seen[k].status \in Finished => object.status \in Finished
           /\ object.status = "Complete" => 1 \in won[cur[k]]
           /\ object.status = "Failed" => 1 \in lost[cur[k]],
         UNCHANGED <<crCache, job, jobCache, timers, uids, made, won, lost>>
  PROVE  StoreIsSound' /\ WorkersAreSafe'
<1>0. cur[k] \in CRs /\ seen[k].uid = 1
  BY DEF IInv, TypeOK, WorkersAreSafe, Safe
<1>1. ASSUME NEW c \in CRs
      PROVE  \/ cr'[c] = cr[c]
             \/ /\ c = cur[k] /\ cr[c] = seen[k] /\ cr'[c] = object
  BY <1>0 DEF Put, IInv, TypeOK
<1>2. ASSUME NEW c \in CRs
      PROVE  /\ cr'[c].uid = cr[c].uid
             /\ cr[c].status # "" => cr'[c].status # ""
             /\ cr[c].status \in Finished => cr'[c].status \in Finished
  BY <1>1
<1>3. OneIncarnation'
  <2> SUFFICES ASSUME NEW c \in CRs
               PROVE  uids[c] \in {0, 1} /\ cr'[c].uid = uids[c]
                      /\ (uids[c] = 0 => cr'[c] = NoCR)
    BY DEF OneIncarnation
  <2>1. uids[c] \in {0, 1} /\ cr[c].uid = uids[c] /\ (uids[c] = 0 => cr[c] = NoCR)
    BY DEF IInv, StoreIsSound, OneIncarnation
  <2>2. CASE cr'[c] = cr[c]
    BY <2>1, <2>2
  <2>3. CASE c = cur[k] /\ cr[c] = seen[k] /\ cr'[c] = object
    <3>1. cr[c].uid = 1
      BY <1>0, <2>3
    <3>2. uids[c] # 0
      BY <2>1, <3>1, OneNotZero, Zenon
    <3>3. QED
      BY <1>2, <2>1, <3>2
  <2>4. QED
    BY <1>1, <2>2, <2>3
<1>4. ASSUME NEW copy, NEW c \in CRs, Earlier(copy, c) PROVE Earlier(copy, c)'
  <2>1. /\ copy.uid # 0 => copy.uid = 1 /\ uids'[c] = 1
        /\ copy.status # "" => copy.uid = 1
    BY <1>4 DEF Earlier
  <2>2. copy.status = "Active" => cr'[c].status # ""
    BY <1>2, <1>4 DEF Earlier
  <2>3. copy.status \in Finished => cr'[c].status \in Finished
    BY <1>2, <1>4 DEF Earlier
  <2>4. QED
    BY <2>1, <2>2, <2>3 DEF Earlier

<1>5. CacheIsEarlier'
  <2>1. \A c \in CRs : crCache'[c] = crCache[c] /\ Earlier(crCache[c], c)
    BY DEF IInv, StoreIsSound, CacheIsEarlier
  <2>2. \A c \in CRs : Earlier(crCache[c], c)'
    BY <1>2, <2>1 DEF Earlier
  <2>3. QED
    BY <2>2 DEF CacheIsEarlier
<1>6. JobsAreGenuine' /\ CleanedLate'
  BY DEF IInv, StoreIsSound, JobsAreGenuine, Genuine, CleanedLate
<1>7. OneOutcome'
  BY <1>2 DEF IInv, StoreIsSound, OneOutcome
<1>8. OwnResult'
  <2> SUFFICES ASSUME NEW c \in CRs
               PROVE  /\ cr'[c].status = "Complete" => cr'[c].uid \in won[c]
                      /\ cr'[c].status = "Failed" => cr'[c].uid \in lost[c]
    BY DEF OwnResult
  <2>1. CASE cr'[c] = cr[c]
    BY <2>1 DEF IInv, StoreIsSound, OwnResult
  <2>2. CASE c = cur[k] /\ cr[c] = seen[k] /\ cr'[c] = object
    BY <1>0, <1>2, <2>2
  <2>3. QED
    BY <1>1, <2>1, <2>2
<1>9. WorkersAreSafe'
  <2> SUFFICES ASSUME NEW i \in Kinds PROVE Safe(i)'
    BY DEF WorkersAreSafe
  <2>1. CASE i = k
    BY <2>1 DEF Return, IInv, TypeOK, Safe
  <2>2. CASE i # k
    <3>1. UNCHANGED <<pc[i], cur[i], seen[i], verdict[i]>>
      BY <2>2 DEF Return, IInv, TypeOK
    <3>2. Safe(i) /\ (pc[i] # "idle" => cur[i] \in CRs)
      BY DEF IInv, WorkersAreSafe, TypeOK
    <3>3. pc[i] # "idle" => Earlier(seen[i], cur[i])'
      BY <1>2, <1>4, <3>1, <3>2 DEF Safe, Earlier
    <3>4. QED
      BY <3>1, <3>2, <3>3 DEF Safe, JobName
  <2>3. QED
    BY <2>1, <2>2
<1>10. QED
  BY <1>3, <1>5, <1>6, <1>7, <1>8, <1>9 DEF StoreIsSound

\* A write takes effect on the latest copy only, so a status moves forward.
LEMMA PutSteps ==
  ASSUME Isolated, IInv, NEW k \in Kinds,
         SetDefaultSpec(k) \/ SetDefaultStatus(k) \/ WriteStatus(k)
  PROVE  StoreIsSound' /\ WorkersAreSafe'
<1> USE ObjectTypes DEF apiVars, historyVars, workerVars
<1>0. /\ pc[k] # "idle" /\ cur[k] \in CRs
      /\ seen[k] \in CustomResource /\ verdict[k] \in Statuses /\ seen[k].uid = 1
  BY DEF SetDefaultSpec, SetDefaultStatus, WriteStatus, IInv, TypeOK, WorkersAreSafe, Safe
<1>1. CASE SetDefaultSpec(k)
  <2> DEFINE object == [seen[k] EXCEPT !.defaulted = TRUE]
  <2>1. object \in CustomResource /\ object.uid = seen[k].uid /\ object.status = seen[k].status
    BY <1>0 DEF CustomResource
  <2>2. cr[cur[k]] = seen[k] =>
          /\ object.status = "Complete" => 1 \in won[cur[k]]
          /\ object.status = "Failed" => 1 \in lost[cur[k]]
    BY <1>0, <2>1 DEF IInv, StoreIsSound, OwnResult
  <2>3. /\ Put(k, object) /\ Return(k, TRUE)
        /\ UNCHANGED <<crCache, job, jobCache, timers, uids, made, won, lost>>
    BY <1>1 DEF SetDefaultSpec
  <2> HIDE DEF object
  <2>4. QED
    BY <1>0, <2>1, <2>2, <2>3, PutStep
<1>2. CASE SetDefaultStatus(k)
  <2> DEFINE object == [seen[k] EXCEPT !.status = "Active"]
  <2>1. /\ object \in CustomResource /\ object.uid = seen[k].uid
        /\ object.status = "Active" /\ seen[k].status = ""
    BY <1>0, <1>2 DEF CustomResource, Statuses, SetDefaultStatus
  <2>2. /\ Put(k, object) /\ Return(k, TRUE)
        /\ UNCHANGED <<crCache, job, jobCache, timers, uids, made, won, lost>>
    BY <1>2 DEF SetDefaultStatus
  <2> HIDE DEF object
  <2>3. QED
    BY <1>0, <2>1, <2>2, PutStep DEF Finished
<1>3. CASE WriteStatus(k)
  <2> DEFINE object == [seen[k] EXCEPT !.status = verdict[k]]
             again == cr[cur[k]] # seen[k]
  <2>1. /\ object \in CustomResource /\ object.uid = seen[k].uid
        /\ object.status = verdict[k] /\ again \in BOOLEAN
    BY <1>0 DEF CustomResource
  <2>2. /\ verdict[k] \in Finished
        /\ verdict[k] = "Complete" => 1 \in won[cur[k]]
        /\ verdict[k] = "Failed" => 1 \in lost[cur[k]]
    BY <1>3 DEF WriteStatus, IInv, WorkersAreSafe, Safe, Finished
  <2>3. /\ Put(k, object) /\ Return(k, again)
        /\ UNCHANGED <<crCache, job, jobCache, timers, uids, made, won, lost>>
    BY <1>3 DEF WriteStatus
  <2> HIDE DEF object, again
  <2>4. QED
    BY <1>0, <2>1, <2>2, <2>3, PutStep DEF Finished
<1>4. QED
  BY <1>1, <1>2, <1>3

\* A timer is started for a CR whose result is in the cache.
LEMMA CleanUpStep ==
  ASSUME Isolated, IInv, NEW k \in Kinds, CleanUp(k)
  PROVE  StoreIsSound' /\ WorkersAreSafe'
<1> USE DEF apiVars, historyVars, workerVars
<1>0. /\ pc[k] # "idle" /\ cur[k] \in CRs /\ JobName(k) \in Names
      /\ seen[k].status \in Finished /\ crCache[cur[k]].status \in Finished
  BY DEF CleanUp, HasResult, Ready, IInv, TypeOK, WorkersAreSafe, Safe, JobName
<1>1. \A n \in Names : n # JobName(k) => timers'[n] = timers[n]
  BY DEF CleanUp, IInv, TypeOK
<1>2. /\ Return(k, FALSE)
      /\ UNCHANGED <<cr, crCache, job, jobCache, uids, made, won, lost>>
  BY DEF CleanUp
<1>3. CleanedLate'
  <2> SUFFICES ASSUME NEW c \in CRs
               PROVE  /\ timers'[NameOf[c]] > 0 => crCache[c].status \in Finished
                      /\ made[c] = 1 /\ job[NameOf[c]] = NoJob
                           => crCache[c].status \in Finished
    BY <1>2 DEF CleanedLate
  <2>1. CASE c = cur[k]
    BY <1>0, <2>1
  <2>2. CASE c # cur[k]
    <3>1. NameOf[c] # JobName(k)
      BY <1>0, <2>2 DEF Isolated, JobName
    <3>2. QED
      BY <1>1, <3>1 DEF IInv, StoreIsSound, CleanedLate
  <2>3. QED
    BY <2>1, <2>2
<1>4. OneIncarnation' /\ CacheIsEarlier' /\ OwnResult'
  BY <1>2 DEF IInv, StoreIsSound, OneIncarnation, CacheIsEarlier, Earlier, OwnResult
<1>5. JobsAreGenuine' /\ OneOutcome'
  BY <1>2 DEF IInv, StoreIsSound, JobsAreGenuine, Genuine, OneOutcome
<1>6. WorkersAreSafe'
  <2> SUFFICES ASSUME NEW i \in Kinds PROVE Safe(i)'
    BY DEF WorkersAreSafe
  <2>1. CASE i = k \/ pc[i] = "idle"
    BY <1>2, <2>1 DEF Return, IInv, TypeOK, Safe
  <2>2. CASE i # k /\ pc[i] # "idle"
    <3>1. UNCHANGED <<pc[i], cur[i], seen[i], verdict[i]>>
      BY <1>2, <2>2 DEF Return, IInv, TypeOK
    <3>2. timers'[JobName(i)] = timers[JobName(i)]
      BY <1>0, <1>1, <2>2, OwnNamesOfWorkers DEF IInv, TypeOK, JobName
    <3>3. Safe(i)
      BY DEF IInv, WorkersAreSafe
    <3>4. QED
      BY <1>2, <3>1, <3>2, <3>3 DEF Safe, Earlier, JobName
  <2>3. QED
    BY <2>1, <2>2
<1>7. QED
  BY <1>3, <1>4, <1>5, <1>6 DEF StoreIsSound


\* A worker that creates a Job finds none, so none was made for its CR.
LEMMA CreateJobStep ==
  ASSUME Isolated, IInv, NEW k \in Kinds, CreateJob(k)
  PROVE  StoreIsSound' /\ WorkersAreSafe'
<1> DEFINE n == JobName(k)
           c == cur[k]
<1>0. /\ pc[k] # "idle" /\ c \in CRs /\ n \in Names /\ n = NameOf[c]
      /\ seen[k].status = "Active" /\ seen[k].uid = 1
      /\ uids[c] = 1 /\ cr[c].status # ""
      /\ made[c] = 1 => job[n] # NoJob
      /\ made[c] \in {0, 1}
  <2>1. pc[k] = "create" /\ k \in Kinds
    BY DEF CreateJob
  <2>2. /\ pc[k] # "idle" /\ c \in CRs /\ n = NameOf[c] /\ n \in Names
        /\ seen[k].status = "Active" /\ Safe(k)
    BY <2>1 DEF IInv, TypeOK, JobName, AtWork, WorkersAreSafe
  <2>3. seen[k].uid = 1 /\ Earlier(seen[k], c) /\ (made[c] = 1 => job[n] # NoJob)
    BY <2>2 DEF Safe, Finished
  <2>4. uids[c] = 1 /\ cr[c].status # ""
    BY <2>2, <2>3, OneNotZero DEF Earlier
  <2>5. made[c] \in {0, 1}
    BY <2>2 DEF IInv, StoreIsSound, OneOutcome
  <2>6. QED
    BY <2>2, <2>3, <2>4, <2>5
<1>1. /\ Return(k, TRUE)
      /\ UNCHANGED <<cr, crCache, jobCache, timers, uids, won, lost>>
  BY DEF CreateJob
<1>2. CASE job[n] # NoJob
  <2>1. UNCHANGED <<job, made>>
    BY <1>2 DEF CreateJob
  <2>2. StoreIsSound'
    BY <1>1, <2>1, StoreFrame DEF IInv
  <2>3. QED
    BY <1>1, <2>1, <2>2, WorkersReturn DEF IInv
<1>3. CASE job[n] = NoJob
  <2>0. made[c] = 0 /\ won[c] = {} /\ lost[c] = {}
    BY <1>0, <1>3 DEF IInv, StoreIsSound, OneOutcome
  <2> DEFINE new == [owner |-> c, uid |-> seen[k].uid, serial |-> made[c] + 1, phase |-> "New"]
  <2>1. job' = [job EXCEPT ![n] = new] /\ made' = [made EXCEPT ![c] = @ + 1]
    BY <1>3 DEF CreateJob
  <2>2. new.owner = c /\ new.uid = 1 /\ new.phase = "New" /\ new # NoJob
    <3>1. new.owner = c /\ new.uid = seen[k].uid /\ new.phase = "New"
      OBVIOUS
    <3>2. new.phase # NoJob.phase
      BY <3>1, ObjectTypes
    <3>3. QED
      BY <1>0, <3>1, <3>2
  <2>3. made'[c] = 1 /\ job'[n] # NoJob /\ job'[n] = new
    <3> HIDE DEF new, n, c
    <3>1. made'[c] = made[c] + 1 /\ job'[n] = new
      BY <1>0, <2>1 DEF IInv, TypeOK
    <3>2. made[c] + 1 = 1
      BY <2>0
    <3>3. QED
      BY <2>2, <3>1, <3>2
  <2>4. ASSUME NEW d \in CRs, d # c
        PROVE  made'[d] = made[d] /\ NameOf[d] # n /\ job'[NameOf[d]] = job[NameOf[d]]
    <3>1. NameOf[d] # n
      BY <1>0, <2>4 DEF Isolated
    <3>2. QED
      BY <2>1, <2>4, <3>1 DEF IInv, TypeOK
  <2> HIDE DEF new, n, c
  <2>5. OneIncarnation' /\ CacheIsEarlier' /\ OwnResult'
    BY <1>1 DEF IInv, StoreIsSound, OneIncarnation, CacheIsEarlier, Earlier, OwnResult
  <2>6. CleanedLate'
    <3> SUFFICES ASSUME NEW d \in CRs
                 PROVE  /\ timers[NameOf[d]] > 0 => crCache[d].status \in Finished
                        /\ made'[d] = 1 /\ job'[NameOf[d]] = NoJob
                             => crCache[d].status \in Finished
      BY <1>1 DEF CleanedLate
    <3>1. CASE d = c
      BY <1>0, <2>3, <3>1 DEF IInv, StoreIsSound, CleanedLate
    <3>2. CASE d # c
      BY <2>4, <3>2 DEF IInv, StoreIsSound, CleanedLate
    <3>3. QED
      BY <3>1, <3>2
  <2>7. OneOutcome'
    <3> SUFFICES ASSUME NEW d \in CRs
                 PROVE  /\ made'[d] \in {0, 1}
                        /\ made'[d] = 1 => uids[d] = 1 /\ cr[d].status # ""
                        /\ made'[d] = 0 => won[d] = {} /\ lost[d] = {}
                        /\ won[d] = {} \/ lost[d] = {}
      BY <1>1 DEF OneOutcome
    <3>1. CASE d = c
      BY <1>0, <2>0, <2>3, <3>1
    <3>2. CASE d # c
      BY <2>4, <3>2 DEF IInv, StoreIsSound, OneOutcome
    <3>3. QED
      BY <3>1, <3>2
  <2>8. ASSUME NEW j \in JobObject, NEW m \in Names, Genuine(j, m)
        PROVE  /\ j.owner # c
               /\ NameOf[j.owner] = m /\ j.uid = 1 /\ made'[j.owner] = 1
               /\ j.phase = "Succeeded" => 1 \in won'[j.owner]
               /\ j.phase = "Failed" => 1 \in lost'[j.owner]
    <3>1. j.owner \in CRs
      BY DEF JobObject
    <3>2. made[j.owner] # 0
      BY <2>8, OneNotZero, Zenon DEF Genuine
    <3>3. QED
      BY <1>1, <2>0, <2>4, <2>8, <3>1, <3>2 DEF Genuine
  <2>9. JobsAreGenuine'
    <3> SUFFICES ASSUME NEW m \in Names
                 PROVE  /\ job'[m] # NoJob =>
                             /\ Genuine(job[m], m)'
                             /\ job'[m].phase \in {"New", "Active"} =>
                                  won'[job'[m].owner] = {} /\ lost'[job'[m].owner] = {}
                        /\ jobCache'[m] # NoJob => Genuine(jobCache[m], m)'
      BY DEF JobsAreGenuine
    <3>1. jobCache'[m] # NoJob => Genuine(jobCache[m], m)'
      <4>1. jobCache[m] # NoJob => jobCache[m] \in JobObject /\ Genuine(jobCache[m], m)
        BY DEF IInv, TypeOK, StoreIsSound, JobsAreGenuine
      <4>2. QED
        BY <1>1, <2>8, <4>1 DEF Genuine
    <3>2. CASE m = n
      BY <1>0, <1>1, <2>0, <2>2, <2>3, <3>1, <3>2 DEF Genuine
    <3>3. CASE m # n
      <4>1. job'[m] = job[m]
        BY <2>1, <3>3 DEF IInv, TypeOK
      <4>2. job[m] # NoJob => job[m] \in JobObject /\ Genuine(job[m], m)
        BY DEF IInv, TypeOK, StoreIsSound, JobsAreGenuine
      <4>3. job[m] # NoJob /\ job[m].phase \in {"New", "Active"} =>
              won[job[m].owner] = {} /\ lost[job[m].owner] = {}
        BY DEF IInv, StoreIsSound, JobsAreGenuine
      <4>4. QED
        BY <1>1, <2>8, <3>1, <4>1, <4>2, <4>3 DEF Genuine
    <3>4. QED
      BY <3>2, <3>3
  <2>10. WorkersAreSafe'
    <3> SUFFICES ASSUME NEW i \in Kinds PROVE Safe(i)'
      BY DEF WorkersAreSafe
    <3>1. CASE i = k \/ pc[i] = "idle"
      BY <1>1, <3>1 DEF Return, IInv, TypeOK, Safe
    <3>2. CASE i # k /\ pc[i] # "idle"
      <4>1. UNCHANGED <<pc[i], cur[i], seen[i], verdict[i]>>
        BY <1>1, <3>2 DEF Return, IInv, TypeOK
      <4>2. cur[i] \in CRs /\ cur[i] # c
        BY <1>0, <3>2, OwnNamesOfWorkers DEF IInv, TypeOK, c
      <4>3. made'[cur[i]] = made[cur[i]] /\ job'[JobName(i)] = job[JobName(i)]
        BY <2>4, <4>2 DEF JobName
      <4>4. Safe(i)
        BY DEF IInv, WorkersAreSafe
      <4>5. QED
        BY <1>1, <4>1, <4>3, <4>4 DEF Safe, Earlier, JobName
    <3>3. QED
      BY <3>1, <3>2
  <2>11. QED
    BY <2>5, <2>6, <2>7, <2>9, <2>10 DEF StoreIsSound
<1>4. QED
  BY <1>2, <1>3


\* A timer that fires, with or without effect, fires after the result is known.
LEMMA TimerSteps ==
  ASSUME Isolated, IInv, NEW n \in Names, CleanJob(n) \/ FailCleanJob(n)
  PROVE  StoreIsSound' /\ WorkersAreSafe'
<1> USE DEF apiVars, historyVars, workerVars
<1>1. /\ timers[n] > 0
      /\ \A m \in Names : m # n => timers'[m] = timers[m]
      /\ \A m \in Names : timers'[m] > 0 => timers[m] > 0
  <2>1. timers[n] \in Nat /\ timers[n] > 0 /\ timers' = [timers EXCEPT ![n] = @ - 1]
    BY DEF IInv, TypeOK, CleanJob, FailCleanJob
  <2>2. timers'[n] = timers[n] - 1
    BY <2>1 DEF IInv, TypeOK
  <2>3. \A m \in Names : m # n => timers'[m] = timers[m]
    BY <2>1 DEF IInv, TypeOK
  <2>4. QED
    BY <2>1, <2>2, <2>3
<1>2. /\ \A m \in Names : job'[m] = job[m] \/ (m = n /\ job'[m] = NoJob)
      /\ UNCHANGED <<cr, crCache, jobCache, uids, made, won, lost, pc, cur, seen, verdict>>
  BY DEF CleanJob, Remove, FailCleanJob, IInv, TypeOK
<1>3. OneIncarnation' /\ CacheIsEarlier' /\ OwnResult'
  BY <1>2 DEF IInv, StoreIsSound, OneIncarnation, CacheIsEarlier, Earlier, OwnResult
<1>4. JobsAreGenuine' /\ OneOutcome'
  <2>1. OneOutcome'
    BY <1>2 DEF IInv, StoreIsSound, OneOutcome
  <2>2. ASSUME NEW m \in Names, job'[m] # NoJob PROVE job'[m] = job[m]
    BY <1>2, <2>2
  <2>3. \A m \in Names : jobCache[m] # NoJob => Genuine(jobCache[m], m)'
    BY <1>2 DEF IInv, StoreIsSound, JobsAreGenuine, Genuine
  <2>4. \A m \in Names : job'[m] # NoJob =>
          /\ Genuine(job[m], m)'
          /\ job'[m].phase \in {"New", "Active"} =>
               won'[job'[m].owner] = {} /\ lost'[job'[m].owner] = {}
    BY SMTT(30), <1>2, <2>2 DEF IInv, StoreIsSound, JobsAreGenuine, Genuine
  <2>5. QED
    BY <1>2, <2>1, <2>3, <2>4 DEF JobsAreGenuine
<1>5. CleanedLate'
  BY <1>1, <1>2 DEF IInv, StoreIsSound, CleanedLate
<1>6. WorkersAreSafe'
  <2> SUFFICES ASSUME NEW k \in Kinds, pc[k] # "idle" PROVE Safe(k)'
    BY <1>2 DEF WorkersAreSafe, Safe
  <2>1. Safe(k) /\ JobName(k) \in Names
    BY DEF IInv, TypeOK, JobName, WorkersAreSafe
  <2>2. CASE JobName(k) = n
    <3>1. seen[k].status \in Finished
      BY <1>1, <2>1, <2>2 DEF Safe
    <3>2. QED
      BY <1>2, <2>1, <3>1 DEF Safe, Earlier
  <2>3. CASE JobName(k) # n
    <3>1. timers'[JobName(k)] = timers[JobName(k)] /\ job'[JobName(k)] = job[JobName(k)]
      BY <1>1, <1>2, <2>1, <2>3
    <3>2. QED
      BY <1>2, <2>1, <3>1 DEF Safe, Earlier, JobName
  <2>4. QED
    BY <2>2, <2>3
<1>7. QED
  BY <1>3, <1>4, <1>5, <1>6 DEF StoreIsSound

\* What the API holds is a copy like any other.
LEMMA CurrentIsEarlier ==
  ASSUME Isolated, IInv, NEW c \in CRs
  PROVE  Earlier(cr[c], c)
<1>1. uids[c] \in {0, 1} /\ cr[c].uid = uids[c] /\ (uids[c] = 0 => cr[c] = NoCR)
  BY DEF IInv, StoreIsSound, OneIncarnation
<1>2. CASE uids[c] = 0
  BY <1>1, <1>2, ObjectTypes DEF Earlier, Finished
<1>3. CASE uids[c] = 1
  BY <1>1, <1>3 DEF Earlier, Finished
<1>4. QED
  BY <1>1, <1>2, <1>3

\* A cache that catches up is still earlier than the API.
LEMMA InformSteps ==
  ASSUME Isolated, IInv,
         \/ \E c \in CRs : InformCR(c)
         \/ \E n \in Names : InformJob(n)
         \/ Crash
  PROVE  StoreIsSound' /\ WorkersAreSafe'
<1> USE DEF apiVars, historyVars, workerVars
<1>1. /\ \A c \in CRs : crCache'[c] = crCache[c] \/ crCache'[c] = cr[c]
      /\ \A n \in Names : jobCache'[n] = jobCache[n] \/ jobCache'[n] = job[n]
      /\ \A n \in Names : timers'[n] = timers[n] \/ timers'[n] = 0
      /\ UNCHANGED <<cr, job, uids, made, won, lost>>
  <2>1. ASSUME NEW c \in CRs, InformCR(c)
        PROVE  /\ \A d \in CRs : crCache'[d] = crCache[d] \/ crCache'[d] = cr[d]
               /\ UNCHANGED <<cr, job, jobCache, timers, uids, made, won, lost>>
    BY <2>1 DEF InformCR, IInv, TypeOK
  <2>2. ASSUME NEW n \in Names, InformJob(n)
        PROVE  /\ \A m \in Names : jobCache'[m] = jobCache[m] \/ jobCache'[m] = job[m]
               /\ UNCHANGED <<cr, crCache, job, timers, uids, made, won, lost>>
    BY <2>2 DEF InformJob, IInv, TypeOK
  <2>3. CASE Crash
    BY <2>3 DEF Crash
  <2>4. QED
    BY <2>1, <2>2, <2>3
<1>2. \A c \in CRs : crCache[c].status \in Finished => crCache'[c].status \in Finished
  BY <1>1 DEF IInv, StoreIsSound, CacheIsEarlier, Earlier
<1>3. OneIncarnation' /\ OneOutcome' /\ OwnResult'
  BY <1>1 DEF IInv, StoreIsSound, OneIncarnation, OneOutcome, OwnResult
<1>4. CacheIsEarlier'
  <2>1. \A c \in CRs : Earlier(crCache[c], c) /\ Earlier(cr[c], c)
    BY CurrentIsEarlier DEF IInv, StoreIsSound, CacheIsEarlier
  <2>2. QED
    BY <1>1, <2>1 DEF CacheIsEarlier, Earlier
<1>5. JobsAreGenuine'
  <2> SUFFICES ASSUME NEW n \in Names, jobCache'[n] # NoJob
               PROVE  Genuine(jobCache[n], n)'
    BY <1>1 DEF IInv, StoreIsSound, JobsAreGenuine, Genuine
  <2>1. CASE jobCache'[n] = jobCache[n]
    BY <1>1, <2>1 DEF IInv, StoreIsSound, JobsAreGenuine, Genuine
  <2>2. CASE jobCache'[n] = job[n]
    BY <1>1, <2>2 DEF IInv, StoreIsSound, JobsAreGenuine, Genuine
  <2>3. QED
    BY <1>1, <2>1, <2>2
<1>6. CleanedLate'
  <2> SUFFICES ASSUME NEW c \in CRs
               PROVE  /\ timers'[NameOf[c]] > 0 => crCache'[c].status \in Finished
                      /\ made[c] = 1 /\ job[NameOf[c]] = NoJob
                           => crCache'[c].status \in Finished
    BY <1>1 DEF CleanedLate
  <2>1. timers'[NameOf[c]] > 0 => timers[NameOf[c]] > 0
    BY <1>1
  <2>2. QED
    BY <1>2, <2>1 DEF IInv, StoreIsSound, CleanedLate
<1>7. WorkersAreSafe'
  <2> SUFFICES ASSUME NEW k \in Kinds, pc'[k] # "idle" PROVE Safe(k)'
    BY DEF WorkersAreSafe, Safe
  <2>1. UNCHANGED <<pc, cur, seen, verdict, timers>>
    BY DEF InformCR, InformJob, Crash
  <2>2. Safe(k) /\ cur[k] \in CRs
    BY <2>1 DEF IInv, TypeOK, WorkersAreSafe
  <2>3. QED
    BY <1>1, <1>2, <2>1, <2>2 DEF Safe, Earlier, JobName
<1>8. QED
  BY <1>3, <1>4, <1>5, <1>6, <1>7 DEF StoreIsSound

\* A step of a Job or its pod: the Job stays the one it is, and its first outcome
\* is put on record.
LEMMA ClusterSteps ==
  ASSUME Isolated, IInv, NEW n \in Names, StartJob(n) \/ EndJob(n) \/ LosePod(n)
  PROVE  StoreIsSound' /\ WorkersAreSafe'
<1> USE DEF apiVars, historyVars, workerVars
<1> DEFINE o == job[n].owner
<1>0. UNCHANGED <<cr, crCache, jobCache, timers, uids, made, pc, cur, seen, verdict>>
  BY DEF StartJob, EndJob, LosePod, End
<1>1. CASE UNCHANGED <<job, won, lost>>
  BY <1>0, <1>1, StoreFrame, WorkersFrame DEF IInv
<1>2. ASSUME NEW p \in {"Active", "Succeeded", "Failed"},
             job[n].phase \in {"New", "Active"},
             job' = [job EXCEPT ![n].phase = p],
             won' = IF p = "Succeeded" THEN [won EXCEPT ![o] = @ \cup {job[n].uid}] ELSE won,
             lost' = IF p = "Failed" THEN [lost EXCEPT ![o] = @ \cup {job[n].uid}] ELSE lost
      PROVE  StoreIsSound' /\ WorkersAreSafe'
  <2>1. /\ job[n] \in JobObject /\ job[n] # NoJob /\ o \in CRs
        /\ Genuine(job[n], n) /\ won[o] = {} /\ lost[o] = {}
    <3>1. job[n] # NoJob
      BY <1>2, ObjectTypes
    <3>2. QED
      BY <1>2, <3>1 DEF IInv, TypeOK, JobObject, StoreIsSound, JobsAreGenuine
  <2>2. /\ job'[n].owner = o /\ job'[n].uid = 1 /\ job'[n].phase = p /\ job'[n] # NoJob
        /\ \A m \in Names : m # n => job'[m] = job[m]
    <3>1. job'[n] = [job[n] EXCEPT !.phase = p]
      BY <1>2 DEF IInv, TypeOK
    <3>2. job'[n].owner = o /\ job'[n].uid = job[n].uid /\ job'[n].phase = p
      BY <2>1, <3>1 DEF JobObject
    <3>3. p # NoJob.phase
      BY <1>2, ObjectTypes
    <3>4. QED
      BY <1>2, <2>1, <3>2, <3>3 DEF Genuine, IInv, TypeOK
  <2>3. /\ won'[o] = IF p = "Succeeded" THEN {1} ELSE {}
        /\ lost'[o] = IF p = "Failed" THEN {1} ELSE {}
        /\ \A d \in CRs : d # o => won'[d] = won[d] /\ lost'[d] = lost[d]
    <3>1. job[n].uid = 1
      BY <2>1 DEF Genuine
    <3>2. CASE p = "Succeeded"
      BY <1>2, <2>1, <3>1, <3>2 DEF IInv, TypeOK
    <3>3. CASE p = "Failed"
      BY <1>2, <2>1, <3>1, <3>3 DEF IInv, TypeOK
    <3>4. CASE p = "Active"
      BY <1>2, <2>1, <3>4
    <3>5. QED
      BY <3>2, <3>3, <3>4
  <2> HIDE DEF o
  <2>4. \A d \in CRs : (1 \in won[d] => 1 \in won'[d]) /\ (1 \in lost[d] => 1 \in lost'[d])
    BY <2>1, <2>3
  <2>5. OneIncarnation' /\ CacheIsEarlier'
    BY <1>0 DEF IInv, StoreIsSound, OneIncarnation, CacheIsEarlier, Earlier
  <2>6. CleanedLate'
    BY <1>0, <2>2 DEF IInv, StoreIsSound, CleanedLate
  <2>7. OwnResult'
    BY <1>0, <2>1, <2>3 DEF IInv, StoreIsSound, OwnResult
  <2>8. OneOutcome'
    <3>1. made[o] = 1
      BY <2>1 DEF Genuine, o
    <3>2. made[o] # 0
      BY <3>1, OneNotZero, Zenon
    <3>3. QED
      BY <1>0, <2>1, <2>3, <3>2 DEF IInv, StoreIsSound, OneOutcome
  <2>9. ASSUME NEW j \in JobObject, NEW m \in Names, Genuine(j, m)
        PROVE  Genuine(j, m)'
    <3>1. j.owner \in CRs
      BY DEF JobObject
    <3>2. QED
      BY <1>0, <2>4, <2>9, <3>1 DEF Genuine
  <2>10. JobsAreGenuine'
    <3> SUFFICES ASSUME NEW m \in Names
                 PROVE  /\ job'[m] # NoJob =>
                             /\ Genuine(job[m], m)'
                             /\ job'[m].phase \in {"New", "Active"} =>
                                  won'[job'[m].owner] = {} /\ lost'[job'[m].owner] = {}
                        /\ jobCache'[m] # NoJob => Genuine(jobCache[m], m)'
      BY DEF JobsAreGenuine
    <3>1. jobCache'[m] # NoJob => Genuine(jobCache[m], m)'
      <4>1. jobCache[m] # NoJob => jobCache[m] \in JobObject /\ Genuine(jobCache[m], m)
        BY DEF IInv, TypeOK, StoreIsSound, JobsAreGenuine
      <4>2. QED
        BY <1>0, <2>9, <4>1 DEF Genuine
    <3>2. CASE m = n
      <4>1. Genuine(job[n], n)'
        BY <1>0, <2>1, <2>2, <2>3 DEF Genuine, o
      <4>2. QED
        BY <2>2, <2>3, <3>1, <3>2, <4>1
    <3>3. CASE m # n
      <4>0. job[m] # NoJob => job[m] \in JobObject
        BY DEF IInv, TypeOK
      <4>1. job[m] # NoJob =>
              /\ job[m] \in JobObject /\ Genuine(job[m], m)
              /\ job[m].phase \in {"New", "Active"} =>
                   won[job[m].owner] = {} /\ lost[job[m].owner] = {}
        BY <4>0 DEF IInv, StoreIsSound, JobsAreGenuine
      <4>2. job[m] # NoJob => job[m].owner \in CRs /\ job[m].owner # o
        BY <2>1, <3>3, <4>1 DEF Genuine, JobObject, o
      <4>3. job'[m] = job[m]
        BY <2>2, <3>3
      <4>4. job[m] # NoJob => Genuine(job[m], m)'
        BY <2>9, <4>1, <4>3 DEF Genuine
      <4>5. QED
        BY <2>3, <3>1, <4>1, <4>2, <4>3, <4>4
    <3>4. QED
      BY <3>2, <3>3
  <2>11. WorkersAreSafe'
    <3> SUFFICES ASSUME NEW k \in Kinds PROVE Safe(k)'
      BY DEF WorkersAreSafe
    <3>1. Safe(k) /\ (pc[k] # "idle" => cur[k] \in CRs /\ JobName(k) \in Names)
      BY DEF IInv, TypeOK, JobName, WorkersAreSafe
    <3>2. pc[k] # "idle" => (job[JobName(k)] # NoJob => job'[JobName(k)] # NoJob)
      BY <2>2, <3>1
    <3>3. QED
      BY <1>0, <2>4, <3>1, <3>2 DEF Safe, Earlier, JobName
  <2>12. QED
    BY <2>5, <2>6, <2>7, <2>8, <2>10, <2>11 DEF StoreIsSound
<1>3. CASE StartJob(n)
  BY <1>2, <1>3 DEF StartJob
<1>4. ASSUME NEW p \in Ended, End(n, p) PROVE StoreIsSound' /\ WorkersAreSafe'
  <2>1. CASE p = "Succeeded"
    BY <1>2, <1>4, <2>1 DEF End
  <2>2. CASE p = "Failed"
    BY <1>2, <1>4, <2>2 DEF End
  <2>3. QED
    BY <2>1, <2>2 DEF Ended
<1>5. CASE LosePod(n) /\ job[n].phase # "Active"
  BY <1>1, <1>5 DEF LosePod
<1>6. QED
  BY <1>3, <1>4, <1>5 DEF EndJob, LosePod, Ended


\* The CR of a Job is there, so only claims are ever collected.
LEMMA CollectStep ==
  ASSUME Isolated, IInv, NEW n \in Names, Collect(n)
  PROVE  /\ StoreIsSound' /\ WorkersAreSafe'
         /\ UNCHANGED <<cr, job, made, won, lost>>
<1> USE DEF apiVars, historyVars, workerVars
<1>1. job[n] # NoJob => Owned(job[n])
  <2> SUFFICES ASSUME job[n] # NoJob PROVE Owned(job[n])
    OBVIOUS
  <2>1. job[n] \in JobObject /\ Genuine(job[n], n)
    BY DEF IInv, TypeOK, StoreIsSound, JobsAreGenuine
  <2>2. job[n].owner \in CRs /\ job[n].uid = 1 /\ made[job[n].owner] = 1
    BY <2>1 DEF JobObject, Genuine
  <2>3. cr[job[n].owner].uid = 1
    BY <2>2 DEF IInv, StoreIsSound, OneIncarnation, OneOutcome
  <2>4. QED
    BY <2>2, <2>3 DEF Owned
<1>2. UNCHANGED <<cr, crCache, job, jobCache, timers, uids, made, won, lost, pc, cur,
                  seen, verdict>>
  BY <1>1 DEF Collect
<1>3. QED
  BY <1>2, StoreFrame, WorkersFrame DEF IInv

\* A CR that is created was never there, so nobody has a copy of it or a Job for it.
LEMMA CreateCRStep ==
  ASSUME Isolated, IInv, NEW c \in CRs, CreateCR(c)
  PROVE  StoreIsSound' /\ WorkersAreSafe'
<1> USE DEF apiVars, historyVars, workerVars
<1> DEFINE new == [NoCR EXCEPT !.uid = uids[c] + 1]
<1>1. uids[c] = 0 /\ cr[c] = NoCR
  BY DEF CreateCR, IInv, StoreIsSound, OneIncarnation
<1>2. cr' = [cr EXCEPT ![c] = new] /\ uids' = [uids EXCEPT ![c] = @ + 1]
  BY DEF CreateCR
<1>3. new.uid = 1 /\ new.status = ""
  <2>1. new.uid = uids[c] + 1 /\ new.status = NoCR.status
    BY DEF NoCR
  <2> HIDE DEF new
  <2>2. uids[c] + 1 = 1
    BY <1>1
  <2>3. QED
    BY <2>1, <2>2, ObjectTypes
<1> HIDE DEF new
<1>4. /\ cr'[c].uid = 1 /\ cr'[c].status = "" /\ uids'[c] = 1
      /\ \A d \in CRs : d # c => cr'[d] = cr[d] /\ uids'[d] = uids[d]
  <2>1. uids'[c] = uids[c] + 1 /\ uids[c] + 1 = 1
    BY <1>1, <1>2 DEF IInv, TypeOK
  <2>2. QED
    BY <1>2, <1>3, <2>1 DEF IInv, TypeOK
<1>5. UNCHANGED <<crCache, job, jobCache, timers, made, won, lost, pc, cur, seen, verdict>>
  BY DEF CreateCR
<1>6. made[c] = 0
  <2>1. made[c] = 1 => uids[c] = 1
    BY DEF IInv, StoreIsSound, OneOutcome
  <2>2. made[c] \in {0, 1}
    BY DEF IInv, StoreIsSound, OneOutcome
  <2>3. QED
    BY <1>1, <2>1, <2>2, OneNotZero
<1>7. OneIncarnation'
  <2> SUFFICES ASSUME NEW d \in CRs
               PROVE  uids'[d] \in {0, 1} /\ cr'[d].uid = uids'[d]
                      /\ (uids'[d] = 0 => cr'[d] = NoCR)
    BY DEF OneIncarnation
  <2>1. CASE d = c
    BY <1>4, <2>1, OneNotZero
  <2>2. CASE d # c
    BY <1>4, <2>2 DEF IInv, StoreIsSound, OneIncarnation
  <2>3. QED
    BY <2>1, <2>2
<1>8. ASSUME NEW d \in CRs, NEW copy, Earlier(copy, d)
      PROVE  /\ d = c => copy.uid = 0 /\ copy.status = ""
             /\ copy.uid # 0 => copy.uid = 1 /\ uids'[d] = 1
             /\ copy.status # "" => copy.uid = 1
             /\ copy.status = "Active" => cr'[d].status # ""
             /\ copy.status \in Finished => cr'[d].status \in Finished
  <2>1. CASE d = c
    <3>1. copy.uid = 0
      BY <1>1, <1>8, <2>1, OneNotZero DEF Earlier
    <3>2. copy.status = ""
      BY <1>8, <3>1, OneNotZero DEF Earlier
    <3>3. QED
      BY <3>1, <3>2 DEF Finished
  <2>2. CASE d # c
    BY <1>4, <1>8, <2>2 DEF Earlier
  <2>3. QED
    BY <2>1, <2>2
<1>9. CacheIsEarlier'
  BY <1>5, <1>8 DEF IInv, StoreIsSound, CacheIsEarlier, Earlier
<1>10. JobsAreGenuine' /\ CleanedLate'
  BY <1>5 DEF IInv, StoreIsSound, JobsAreGenuine, Genuine, CleanedLate
<1>11. OneOutcome'
  <2> SUFFICES ASSUME NEW d \in CRs
               PROVE  made[d] = 1 => uids'[d] = 1 /\ cr'[d].status # ""
    BY <1>5 DEF OneOutcome, IInv, StoreIsSound
  <2>1. CASE d = c
    BY <1>6, <2>1, OneNotZero, Zenon
  <2>2. CASE d # c
    BY <1>4, <2>2 DEF IInv, StoreIsSound, OneOutcome
  <2>3. QED
    BY <2>1, <2>2
<1>12. OwnResult'
  BY <1>4, <1>5 DEF IInv, StoreIsSound, OwnResult
<1>13. WorkersAreSafe'
  <2> SUFFICES ASSUME NEW k \in Kinds, pc[k] # "idle" PROVE Safe(k)'
    BY <1>5 DEF WorkersAreSafe, Safe
  <2>1. Safe(k) /\ cur[k] \in CRs /\ Earlier(seen[k], cur[k])
    BY DEF IInv, TypeOK, WorkersAreSafe, Safe
  <2>2. QED
    BY <1>5, <1>8, <2>1 DEF Safe, Earlier, JobName
<1>14. QED
  BY <1>7, <1>9, <1>10, <1>11, <1>12, <1>13 DEF StoreIsSound

\* A resync only enqueues.
LEMMA ResyncStep ==
  ASSUME Isolated, IInv, Resync \/ UNCHANGED vars
  PROVE  StoreIsSound' /\ WorkersAreSafe'
BY StoreFrame, WorkersFrame DEF IInv, Resync, vars, apiVars, historyVars, workerVars

\* The invariant is inductive when names are used once.
LEMMA IInvNext == Isolated /\ IInv /\ [Next]_vars => IInv'
<1> SUFFICES ASSUME Isolated, IInv, [Next]_vars PROVE IInv'
  OBVIOUS
<1>1. TypeOK' /\ AtWork'
  BY TypeNext, AtWorkNext DEF IInv
<1>2. ASSUME NEW k \in Kinds, Reconcile(k) PROVE StoreIsSound' /\ WorkersAreSafe'
  BY <1>2, QuietSteps, SeeSteps, PutSteps, CleanUpStep, CreateJobStep DEF Reconcile
<1>3. ASSUME Disturbance PROVE StoreIsSound' /\ WorkersAreSafe'
  <2>1. ~(\E n \in Names : DeleteJob(n)) /\ ~(\E c \in CRs : DeleteCR(c))
    BY DEF DeleteJob, DeleteCR, Disturb, Isolated
  <2>2. QED
    BY <1>3, <2>1, QuietSteps, TimerSteps, InformSteps, ClusterSteps DEF Disturbance
<1>4. StoreIsSound' /\ WorkersAreSafe'
  BY <1>2, <1>3, FetchStep, TimerSteps, InformSteps, ClusterSteps, CollectStep,
     CreateCRStep, ResyncStep DEF Next
<1>5. QED
  BY <1>1, <1>4 DEF IInv

\* The inductive invariant holds when every name is used once.
THEOREM IsolatedInvariant == ASSUME Isolated PROVE Spec => []IInv
<1>1. QED
  BY IInvInit, IInvNext, PTL DEF Spec

\* A Complete or Failed status tells how the CR's own Job ended.
THEOREM IsolatedOwnResult == ASSUME Isolated PROVE Spec => []OwnResult
<1>1. IInv => OwnResult
  BY DEF IInv, StoreIsSound
<1>2. QED
  BY <1>1, IsolatedInvariant, PTL

\* The operation of a CR is run at most once.
THEOREM IsolatedAtMostOneJob == ASSUME Isolated PROVE Spec => []AtMostOneJob
<1>1. IInv => AtMostOneJob
  <2> SUFFICES ASSUME IInv, NEW c \in CRs PROVE made[c] <= uids[c]
    BY DEF AtMostOneJob
  <2>1. made[c] \in {0, 1} /\ (made[c] = 1 => uids[c] = 1) /\ uids[c] \in Nat
    BY DEF IInv, TypeOK, StoreIsSound, OneOutcome
  <2>2. QED
    BY <2>1
<1>2. QED
  BY <1>1, IsolatedInvariant, PTL


\* CleanJob takes no result away.
THEOREM IsolatedCleaning == ASSUME Isolated PROVE Spec => CleanedAfterReport
<1>1. ASSUME IInv, NEW n \in Names, CleanJob(n), job[n] # NoJob
      PROVE  cr[job[n].owner].status \in Finished
  <2>1. job[n] \in JobObject /\ Genuine(job[n], n)
    BY <1>1 DEF IInv, TypeOK, StoreIsSound, JobsAreGenuine
  <2>2. job[n].owner \in CRs /\ NameOf[job[n].owner] = n /\ timers[n] > 0
    BY <1>1, <2>1 DEF JobObject, Genuine, CleanJob
  <2>3. QED
    BY <1>1, <2>2 DEF IInv, StoreIsSound, CleanedLate, CacheIsEarlier, Earlier
<1>2. IInv /\ [Next]_vars =>
      [\A n \in Names : CleanJob(n) /\ job[n] # NoJob =>
         \/ ~Owned(job[n])
         \/ cr[job[n].owner].status \in Finished]_vars
  BY <1>1
<1>3. QED
  BY <1>2, IsolatedInvariant, PTL DEF Spec, CleanedAfterReport
-----------------------------------------------------------------------------
(* Refinement of Task.                                                     *)

\* Initial states map to initial states.
LEMMA TaskInit == Init => T!Init
<1> SUFFICES ASSUME Init PROVE T!Init
  OBVIOUS
<1>1. \A c \in CRs : cr[c].uid = 0 /\ made[c] = 0
  BY ObjectTypes DEF Init
<1>2. taskStatus = [c \in CRs |-> "none"]
  BY <1>1 DEF taskStatus
<1>3. taskOutcome = [c \in CRs |-> "none"]
  BY <1>1 DEF taskOutcome
<1>4. QED
  BY <1>2, <1>3 DEF T!Init

\* A task changes with the CR, the number of Jobs made for it and their outcomes.
LEMMA TaskFrame ==
  ASSUME UNCHANGED <<cr, made, won, lost>>
  PROVE  UNCHANGED T!vars
BY DEF T!vars, taskStatus, taskOutcome


\* What the refinement mapping says of one task, before and after a step.
LEMMA TaskValues ==
  ASSUME NEW c \in CRs
  PROVE  /\ taskStatus[c] = IF cr[c].uid = 0 THEN "none" ELSE cr[c].status
         /\ taskStatus'[c] = IF cr'[c].uid = 0 THEN "none" ELSE cr'[c].status
         /\ taskOutcome[c] = IF made[c] = 0 THEN "none"
                             ELSE IF won[c] # {} THEN "Succeeded"
                             ELSE IF lost[c] # {} THEN "Failed" ELSE "running"
         /\ taskOutcome'[c] = IF made'[c] = 0 THEN "none"
                              ELSE IF won'[c] # {} THEN "Succeeded"
                              ELSE IF lost'[c] # {} THEN "Failed" ELSE "running"
BY DEF taskStatus, taskOutcome

\* A step that touches one CR touches one task.
LEMMA TaskChange ==
  ASSUME NEW c \in CRs, NEW s, NEW o,
         \A d \in CRs : d # c => UNCHANGED <<cr[d], made[d], won[d], lost[d]>>,
         taskStatus'[c] = s, taskOutcome'[c] = o
  PROVE  /\ taskStatus' = [taskStatus EXCEPT ![c] = s]
         /\ taskOutcome' = [taskOutcome EXCEPT ![c] = o]
         /\ taskStatus[c] = s => UNCHANGED taskStatus
         /\ taskOutcome[c] = o => UNCHANGED taskOutcome
<1>1. \A d \in CRs : d # c => taskStatus'[d] = taskStatus[d] /\ taskOutcome'[d] = taskOutcome[d]
  BY TaskValues
<1>2. /\ taskStatus = [d \in CRs |-> taskStatus[d]] /\ taskStatus' = [d \in CRs |-> taskStatus'[d]]
      /\ taskOutcome = [d \in CRs |-> taskOutcome[d]]
      /\ taskOutcome' = [d \in CRs |-> taskOutcome'[d]]
  BY DEF taskStatus, taskOutcome
<1> HIDE DEF taskStatus, taskOutcome
<1>3. QED
  BY <1>1, <1>2

\* A status update accepts the task, finishes it, or changes nothing the task shows.
LEMMA TaskPut ==
  ASSUME Isolated, IInv, NEW k \in Kinds,
         SetDefaultSpec(k) \/ SetDefaultStatus(k) \/ WriteStatus(k)
  PROVE  [T!Next]_(T!vars)
<1> DEFINE c == cur[k]
<1>0. /\ c \in CRs /\ seen[k] \in CustomResource /\ verdict[k] \in Statuses
      /\ seen[k].uid = 1 /\ seen[k].uid # 0 /\ Safe(k)
  <2>1. c \in CRs /\ seen[k] \in CustomResource /\ verdict[k] \in Statuses
        /\ seen[k].uid = 1 /\ Safe(k)
    BY DEF SetDefaultSpec, SetDefaultStatus, WriteStatus, IInv, TypeOK, WorkersAreSafe, Safe
  <2>2. QED
    BY <2>1, OneNotZero, Zenon
<1>1. UNCHANGED <<made, won, lost>>
  BY DEF SetDefaultSpec, SetDefaultStatus, WriteStatus, historyVars
<1>2. CASE UNCHANGED cr
  BY <1>1, <1>2, TaskFrame
<1>3. CASE cr[c] = seen[k]
  <2>1. ASSUME NEW object \in CustomResource, Put(k, object)
        PROVE  cr'[c] = object /\ (\A d \in CRs : d # c => cr'[d] = cr[d])
    BY <1>0, <1>3, <2>1 DEF Put, IInv, TypeOK
  <2>2. CASE SetDefaultSpec(k)
    <3> DEFINE object == [seen[k] EXCEPT !.defaulted = TRUE]
    <3>1. object \in CustomResource /\ object.uid = seen[k].uid /\ object.status = seen[k].status
      BY <1>0 DEF CustomResource
    <3>2. Put(k, object)
      BY <2>2 DEF SetDefaultSpec
    <3> HIDE DEF object
    <3>3. \A d \in CRs : cr'[d].uid = cr[d].uid /\ cr'[d].status = cr[d].status
      BY <1>3, <2>1, <3>1, <3>2
    <3>4. UNCHANGED taskStatus /\ UNCHANGED taskOutcome
      BY <1>1, <3>3 DEF taskStatus, taskOutcome
    <3>5. QED
      BY <3>4 DEF T!vars
  <2>3. CASE SetDefaultStatus(k)
    <3> DEFINE object == [seen[k] EXCEPT !.status = "Active"]
    <3>1. object \in CustomResource /\ object.uid = seen[k].uid /\ object.status = "Active"
      BY <1>0 DEF CustomResource, Statuses
    <3>2. Put(k, object) /\ seen[k].status = ""
      BY <2>3 DEF SetDefaultStatus
    <3> HIDE DEF object
    <3>3. cr'[c] = object /\ (\A d \in CRs : d # c => cr'[d] = cr[d])
      BY <2>1, <3>1, <3>2
    <3>4. taskStatus[c] = "" /\ taskStatus'[c] = "Active" /\ taskOutcome'[c] = taskOutcome[c]
      <4>1. cr[c].uid # 0 /\ cr[c].status = ""
        BY <1>0, <1>3, <3>2
      <4>2. cr'[c].uid # 0 /\ cr'[c].status = "Active"
        BY <1>0, <3>1, <3>3
      <4>3. taskStatus[c] = "" /\ taskStatus'[c] = "Active"
        BY <1>0, <4>1, <4>2 DEF taskStatus
      <4>4. taskOutcome'[c] = taskOutcome[c]
        BY <1>1 DEF taskOutcome
      <4>5. QED
        BY <4>3, <4>4
    <3>5. taskStatus' = [taskStatus EXCEPT ![c] = "Active"] /\ UNCHANGED taskOutcome
      BY <1>0, <1>1, <3>3, <3>4, TaskChange
    <3>6. T!Accept(c)
      BY <3>4, <3>5 DEF T!Accept
    <3>7. QED
      BY <1>0, <3>6 DEF T!Next
  <2>4. CASE WriteStatus(k)
    <3> DEFINE object == [seen[k] EXCEPT !.status = verdict[k]]
    <3>1. object \in CustomResource /\ object.uid = seen[k].uid /\ object.status = verdict[k]
      BY <1>0 DEF CustomResource
    <3>2. Put(k, object) /\ seen[k].status = "Active"
      BY <2>4 DEF WriteStatus, IInv, AtWork
    <3> HIDE DEF object
    <3>3. cr'[c] = object /\ (\A d \in CRs : d # c => cr'[d] = cr[d])
      BY <2>1, <3>1, <3>2
    <3>4. \/ verdict[k] = "Complete" /\ won[c] # {}
          \/ verdict[k] = "Failed" /\ lost[c] # {} /\ won[c] = {}
      BY <1>0, <2>4 DEF WriteStatus, Safe, IInv, StoreIsSound, OneOutcome
    <3>5. made[c] # 0
      BY <1>0, <3>4 DEF IInv, StoreIsSound, OneOutcome
    <3>6. /\ taskOutcome[c] \in {"Succeeded", "Failed"}
          /\ T!Report(taskOutcome[c]) = verdict[k]
      BY <1>0, <3>4, <3>5, TaskValues DEF T!Report
    <3>7. taskStatus[c] = "Active" /\ taskStatus'[c] = verdict[k]
          /\ taskOutcome'[c] = taskOutcome[c]
      <4>1. cr[c].uid # 0 /\ cr[c].status = "Active"
        BY <1>0, <1>3, <3>2
      <4>2. cr'[c].uid # 0 /\ cr'[c].status = verdict[k]
        BY <1>0, <3>1, <3>3
      <4>3. taskStatus[c] = "Active" /\ taskStatus'[c] = verdict[k]
        BY <1>0, <4>1, <4>2 DEF taskStatus
      <4>4. taskOutcome'[c] = taskOutcome[c]
        BY <1>1 DEF taskOutcome
      <4>5. QED
        BY <4>3, <4>4
    <3>8. taskStatus' = [taskStatus EXCEPT ![c] = verdict[k]] /\ UNCHANGED taskOutcome
      BY <1>0, <1>1, <3>3, <3>7, TaskChange
    <3>9. T!Finish(c)
      BY <3>6, <3>7, <3>8 DEF T!Finish
    <3>10. QED
      BY <1>0, <3>9 DEF T!Next
  <2>5. QED
    BY <2>2, <2>3, <2>4
<1>4. cr[c] = seen[k] \/ UNCHANGED cr
  BY DEF SetDefaultSpec, SetDefaultStatus, WriteStatus, Put
<1>5. QED
  BY <1>2, <1>3, <1>4

\* The Job of a task is created while the task is accepted and has none.
LEMMA TaskCreateJob ==
  ASSUME Isolated, IInv, NEW k \in Kinds, CreateJob(k)
  PROVE  [T!Next]_(T!vars)
<1> DEFINE c == cur[k]
<1>1. UNCHANGED <<cr, won, lost>>
  BY DEF CreateJob
<1>2. CASE UNCHANGED made
  BY <1>1, <1>2, TaskFrame
<1>3. CASE job[JobName(k)] = NoJob
  <2>1. c \in CRs /\ Safe(k) /\ seen[k].status = "Active" /\ pc[k] # "idle"
    BY DEF CreateJob, IInv, TypeOK, WorkersAreSafe, AtWork
  <2>2. made[c] = 0 /\ won[c] = {} /\ lost[c] = {}
    BY <1>3, <2>1 DEF Safe, Finished, IInv, StoreIsSound, OneOutcome
  <2>3. uids[c] = 1 /\ cr[c].uid = 1 /\ cr[c].status # ""
    <3>1. seen[k].uid = 1 /\ Earlier(seen[k], c)
      BY <2>1 DEF Safe
    <3>2. uids[c] = 1 /\ cr[c].status # ""
      BY <2>1, <3>1, OneNotZero DEF Earlier
    <3>3. QED
      BY <2>1, <3>2 DEF IInv, StoreIsSound, OneIncarnation
  <2>4. cr[c].status = "Active"
    <3>1. cr[c].status \notin Finished
      BY <2>1, <2>2 DEF IInv, StoreIsSound, OwnResult, Finished
    <3>2. cr[c].status \in Statuses
      BY <2>1 DEF IInv, TypeOK, CustomResource
    <3>3. QED
      BY <2>3, <3>1, <3>2 DEF Statuses
  <2>5. made'[c] = 1 /\ (\A d \in CRs : d # c => made'[d] = made[d])
    <3>1. made' = [made EXCEPT ![c] = @ + 1]
      BY <1>3 DEF CreateJob
    <3>2. made'[c] = made[c] + 1 /\ made[c] + 1 = 1
      BY <2>1, <2>2, <3>1 DEF IInv, TypeOK
    <3>3. QED
      BY <2>1, <3>1, <3>2 DEF IInv, TypeOK
  <2>6. cr[c].uid # 0 /\ made'[c] # 0
    BY <2>3, <2>5, OneNotZero, Zenon
  <2>7. /\ taskStatus[c] = "Active" /\ taskStatus'[c] = "Active"
        /\ taskOutcome[c] = "none" /\ taskOutcome'[c] = "running"
    BY <1>1, <2>1, <2>2, <2>4, <2>6, TaskValues
  <2>8. taskOutcome' = [taskOutcome EXCEPT ![c] = "running"] /\ UNCHANGED taskStatus
    BY <1>1, <2>1, <2>5, <2>7, TaskChange
  <2>9. T!Start(c)
    BY <2>7, <2>8 DEF T!Start
  <2>10. QED
    BY <2>1, <2>9 DEF T!Next
<1>4. QED
  BY <1>2, <1>3 DEF CreateJob

\* The end of a Job is the end of its task.
LEMMA TaskEnd ==
  ASSUME Isolated, IInv, NEW n \in Names, NEW p \in Ended, End(n, p)
  PROVE  [T!Next]_(T!vars)
<1> DEFINE c == job[n].owner
<1>1. job[n].phase = "Active" /\ job[n] # NoJob
  BY ObjectTypes DEF End
<1>2. /\ c \in CRs /\ job[n].uid = 1 /\ made[c] = 1 /\ won[c] = {} /\ lost[c] = {}
  <2>1. job[n] \in JobObject
    BY <1>1 DEF IInv, TypeOK
  <2>2. Genuine(job[n], n) /\ won[c] = {} /\ lost[c] = {}
    BY <1>1 DEF IInv, StoreIsSound, JobsAreGenuine
  <2>3. QED
    BY <2>1, <2>2 DEF JobObject, Genuine
<1>3. made[c] # 0
  BY <1>2, OneNotZero, Zenon
<1>4. UNCHANGED <<cr, made>>
  BY DEF End
<1>5. /\ \A d \in CRs : d # c => won'[d] = won[d] /\ lost'[d] = lost[d]
      /\ p = "Succeeded" => won'[c] # {}
      /\ p # "Succeeded" => won'[c] = {} /\ lost'[c] # {}
  <2>1. CASE p = "Succeeded"
    <3>1. won' = [won EXCEPT ![c] = @ \cup {job[n].uid}] /\ UNCHANGED lost
      BY <2>1 DEF End
    <3>2. QED
      BY <1>2, <2>1, <3>1 DEF IInv, TypeOK
  <2>2. CASE p # "Succeeded"
    <3>1. lost' = [lost EXCEPT ![c] = @ \cup {job[n].uid}] /\ UNCHANGED won
      BY <2>2 DEF End
    <3>2. QED
      BY <1>2, <2>2, <3>1 DEF IInv, TypeOK
  <2>3. QED
    BY <2>1, <2>2
<1>6. /\ taskOutcome[c] = "running" /\ taskOutcome'[c] = p
      /\ taskStatus'[c] = taskStatus[c]
  BY <1>2, <1>3, <1>4, <1>5, TaskValues DEF Ended
<1>7. taskOutcome' = [taskOutcome EXCEPT ![c] = p] /\ UNCHANGED taskStatus
  BY <1>2, <1>4, <1>5, <1>6, TaskChange
<1>8. T!End(c)
  BY <1>6, <1>7 DEF T!End, Ended
<1>9. QED
  BY <1>2, <1>8 DEF T!Next

\* Creating a CR is Submit.
LEMMA TaskCreateCR ==
  ASSUME Isolated, IInv, NEW c \in CRs, CreateCR(c)
  PROVE  [T!Next]_(T!vars)
<1>1. UNCHANGED <<made, won, lost>> /\ uids[c] \in Nat /\ cr[c].uid = 0
  BY DEF CreateCR, IInv, TypeOK, historyVars
<1> DEFINE new == [NoCR EXCEPT !.uid = uids[c] + 1]
<1>2. new.uid = uids[c] + 1 /\ new.status = ""
  BY DEF NoCR
<1>3. uids[c] + 1 # 0
  BY <1>1
<1>4. cr'[c] = new /\ (\A d \in CRs : d # c => cr'[d] = cr[d])
  BY DEF CreateCR, IInv, TypeOK
<1> HIDE DEF new
<1>5. cr'[c].uid # 0 /\ cr'[c].status = ""
  BY <1>2, <1>3, <1>4, Zenon
<1>6. taskStatus[c] = "none" /\ taskStatus'[c] = "" /\ taskOutcome'[c] = taskOutcome[c]
  BY <1>1, <1>5, TaskValues
<1>7. taskStatus' = [taskStatus EXCEPT ![c] = ""] /\ UNCHANGED taskOutcome
  BY <1>1, <1>4, <1>6, TaskChange
<1>8. T!Submit(c)
  BY <1>6, <1>7 DEF T!Submit
<1>9. QED
  BY <1>8 DEF T!Next

\* Every step maps to a step of Task or to none.
LEMMA TaskNext == Isolated /\ IInv /\ [Next]_vars => [T!Next]_(T!vars)
<1> SUFFICES ASSUME Isolated, IInv, [Next]_vars PROVE [T!Next]_(T!vars)
  OBVIOUS
<1> USE DEF apiVars, historyVars
<1>1. CASE UNCHANGED <<cr, made, won, lost>>
  BY <1>1, TaskFrame
<1>2. ASSUME NEW k \in Kinds, Reconcile(k) PROVE [T!Next]_(T!vars)
  BY <1>1, <1>2, TaskPut, TaskCreateJob DEF Reconcile, MissRef, CleanUp, FindJob,
     CreateClaim, LoseJob, SeeRunning, SeeFailed, SeeSucceeded
<1>3. ASSUME NEW n \in Names, StartJob(n) \/ EndJob(n) \/ Collect(n) PROVE [T!Next]_(T!vars)
  BY <1>1, <1>3, TaskEnd, CollectStep DEF StartJob, EndJob
<1>4. ASSUME Disturbance PROVE [T!Next]_(T!vars)
  <2>1. ~(\E n \in Names : DeleteJob(n)) /\ ~(\E c \in CRs : DeleteCR(c))
    BY DEF DeleteJob, DeleteCR, Disturb, Isolated
  <2>2. QED
    BY <1>1, <1>4, <2>1, TaskEnd DEF Disturbance, FailReconcile, FailCleanJob, LosePod,
       Crash, Ended
<1>5. QED
  BY <1>1, <1>2, <1>3, <1>4, TaskCreateCR DEF Next, Fetch, CleanJob, InformCR, InformJob,
     Resync, vars

\* The reconcilers implement the task: whatever crashes, failed calls, lost pods and
\* stale caches there are, each operation is run once and its result reported once.
THEOREM Refinement == ASSUME Isolated PROVE Spec => ImplementsTask
<1>1. QED
  BY TaskInit, TaskNext, IsolatedInvariant, PTL DEF Spec, ImplementsTask, T!Spec

=============================================================================
