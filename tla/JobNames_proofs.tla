---------------------------- MODULE JobNames_proofs ----------------------------
(***************************************************************************)
(* What JobController keeps although names are shared by kinds and used     *)
(* again: proofs for any CRs, names, references and disturbances, without   *)
(* the assumption Isolated of JobTask_proofs.                              *)
(*                                                                         *)
(* The argument: the step lemmas say what one step does to one worker, one  *)
(* CR, one Job, one PVC and one cache.  A Job keeps its owner, its           *)
(* incarnation and, once ended, its outcome, and a cache holds the Job that  *)
(* was there, so a result is that of some Job of the name (NameInv).  A      *)
(* worker about to create a Job has just created the PVC; if the CR's        *)
(* incarnation is still the one the worker took, the garbage collector has   *)
(* left that PVC alone (ClaimInv).                                         *)
(***************************************************************************)
EXTENDS JobController_proofs

USE NoneAssumption, CRsAssumption, DisturbancesAssumption

-----------------------------------------------------------------------------
(* What a step does to one thing.                                          *)

\* What a step does to the worker of kind k: it gives up, waits, takes a CR from
\* the cache, or gets one place further; it reaches "create" past a PVC that it
\* made itself, and "write" with what the cached Job says.
LEMMA WorkerStep ==
  ASSUME TypeOK, AtWork, [Next]_vars, NEW k \in Kinds
  PROVE  \/ pc'[k] = "idle" /\ verdict'[k] = ""
         \/ UNCHANGED <<pc[k], cur[k], seen[k], verdict[k]>>
         \/ /\ pc[k] = "idle" /\ pc'[k] = "fetched"
            /\ cur'[k] \in CRs /\ KindOf[cur'[k]] = k
            /\ seen'[k] = crCache[cur'[k]] /\ seen'[k].uid # 0
            /\ verdict'[k] = verdict[k]
         \/ /\ pc[k] \notin {"idle", "write"} /\ pc'[k] # "idle" /\ cur[k] \in CRs
            /\ UNCHANGED <<cur[k], seen[k]>>
            /\ \/ pc'[k] \in {"sync", "claim"} /\ verdict'[k] = verdict[k]
               \/ pc'[k] = "create" /\ k \notin ClaimingKinds /\ verdict'[k] = verdict[k]
               \/ /\ pc'[k] = "create" /\ verdict'[k] = verdict[k]
                  /\ claim'[JobName(k)] = [owner |-> cur[k], uid |-> seen[k].uid]
               \/ /\ pc'[k] = "write" /\ jobCache[JobName(k)].phase \in Ended
                  /\ verdict'[k] = "Complete" => jobCache[JobName(k)].phase = "Succeeded"
                  /\ verdict'[k] = "Failed" => jobCache[JobName(k)].phase = "Failed"
<1> DEFINE Home == pc'[k] = "idle" /\ verdict'[k] = ""
           Same == UNCHANGED <<pc[k], cur[k], seen[k], verdict[k]>>
<1> USE DEF workerVars
<1>1. ASSUME UNCHANGED workerVars
      PROVE  Same
  BY <1>1
<1>2. ASSUME NEW i \in Kinds, NEW again, Return(i, again)
      PROVE  Home \/ Same
  <2>1. CASE i = k
    BY <1>2, <2>1 DEF Return, TypeOK
  <2>2. CASE i # k
    BY <1>2, <2>2 DEF Return, TypeOK
  <2> QED
    BY <2>1, <2>2
<1>3. ASSUME NEW c \in CRs, Fetch(c)
      PROVE  \/ Same
             \/ /\ pc[k] = "idle" /\ pc'[k] = "fetched"
                /\ cur'[k] \in CRs /\ KindOf[cur'[k]] = k
                /\ seen'[k] = crCache[cur'[k]] /\ seen'[k].uid # 0
                /\ verdict'[k] = verdict[k]
  <2>1. CASE crCache[c].uid = 0
    BY <1>3, <2>1 DEF Fetch
  <2>2. CASE crCache[c].uid # 0 /\ KindOf[c] = k
    BY <1>3, <2>2 DEF Fetch, TypeOK
  <2>3. CASE crCache[c].uid # 0 /\ KindOf[c] # k
    BY <1>3, <2>3 DEF Fetch, TypeOK
  <2> QED
    BY <2>1, <2>2, <2>3
<1>4. ASSUME NEW i \in Kinds, i # k, NEW l, Continue(i, l), verdict'[k] = verdict[k]
      PROVE  Same
  BY <1>4 DEF Continue, TypeOK
<1>5. ASSUME NEW i \in Kinds, Reconcile(i)
      PROVE  \/ Home \/ Same
             \/ /\ pc[k] \notin {"idle", "write"} /\ pc'[k] # "idle" /\ cur[k] \in CRs
                /\ UNCHANGED <<cur[k], seen[k]>>
                /\ \/ pc'[k] \in {"sync", "claim"} /\ verdict'[k] = verdict[k]
                   \/ pc'[k] = "create" /\ k \notin ClaimingKinds /\ verdict'[k] = verdict[k]
                   \/ /\ pc'[k] = "create" /\ verdict'[k] = verdict[k]
                      /\ claim'[JobName(k)] = [owner |-> cur[k], uid |-> seen[k].uid]
                   \/ /\ pc'[k] = "write" /\ jobCache[JobName(k)].phase \in Ended
                      /\ verdict'[k] = "Complete" => jobCache[JobName(k)].phase = "Succeeded"
                      /\ verdict'[k] = "Failed" => jobCache[JobName(k)].phase = "Failed"
  <2>1. CASE \E again : Return(i, again)
    BY <1>2, <2>1
  <2>2. CASE FindJob(i)
    <3>1. /\ UNCHANGED verdict /\ pc[i] = "fetched"
          /\ \/ Continue(i, "sync")
             \/ Continue(i, "claim")
             \/ Continue(i, "create") /\ i \notin ClaimingKinds
      BY <2>2 DEF FindJob, Ready
    <3>2. CASE i = k
      BY <3>1, <3>2 DEF Continue, TypeOK
    <3>3. CASE i # k
      BY <1>4, <3>1, <3>3
    <3> QED
      BY <3>2, <3>3
  <2>3. CASE CreateClaim(i)
    <3>1. CASE claim[JobName(i)] = NoClaim
      <4>1. /\ UNCHANGED verdict /\ pc[i] = "claim" /\ Continue(i, "create")
            /\ claim' = [claim EXCEPT ![JobName(i)] = [owner |-> cur[i], uid |-> seen[i].uid]]
        BY <2>3, <3>1 DEF CreateClaim
      <4>2. CASE i = k
        <5>1. JobName(k) \in Names /\ cur[k] \in CRs
          BY <4>1, <4>2 DEF JobName, TypeOK
        <5>2. claim'[JobName(k)] = [owner |-> cur[k], uid |-> seen[k].uid]
          BY <4>1, <4>2, <5>1 DEF TypeOK
        <5> QED
          BY <4>1, <4>2, <5>1, <5>2 DEF Continue, TypeOK
      <4>3. CASE i # k
        BY <1>4, <4>1, <4>3
      <4> QED
        BY <4>2, <4>3
    <3>2. CASE claim[JobName(i)] # NoClaim
      BY <1>2, <2>3, <3>2 DEF CreateClaim
    <3> QED
      BY <3>1, <3>2
  <2>4. ASSUME NEW v, NEW p, pc[i] = "sync", jobCache[JobName(i)].phase = p, p \in Ended,
               v = "Complete" => p = "Succeeded", v = "Failed" => p = "Failed",
               verdict' = [verdict EXCEPT ![i] = v], Continue(i, "write")
        PROVE  \/ Same
               \/ /\ pc[k] \notin {"idle", "write"} /\ pc'[k] # "idle" /\ cur[k] \in CRs
                  /\ UNCHANGED <<cur[k], seen[k]>>
                  /\ pc'[k] = "write" /\ jobCache[JobName(k)].phase \in Ended
                  /\ verdict'[k] = "Complete" => jobCache[JobName(k)].phase = "Succeeded"
                  /\ verdict'[k] = "Failed" => jobCache[JobName(k)].phase = "Failed"
    <3>1. CASE i = k
      BY <2>4, <3>1 DEF Continue, TypeOK
    <3>2. CASE i # k
      <4>1. verdict'[k] = verdict[k]
        BY <2>4, <3>2 DEF TypeOK
      <4> QED
        BY <1>4, <2>4, <3>2, <4>1
    <3> QED
      BY <3>1, <3>2
  <2>5. CASE SeeFailed(i)
    <3>1. \/ Return(i, TRUE)
          \/ /\ pc[i] = "sync" /\ jobCache[JobName(i)].phase = "Failed"
             /\ verdict' = [verdict EXCEPT ![i] = "Failed"] /\ Continue(i, "write")
      BY <2>5 DEF SeeFailed
    <3> QED
      BY <2>1, <2>4, <3>1 DEF Ended
  <2>6. CASE SeeSucceeded(i)
    <3>1. \/ Return(i, PodListed(i))
          \/ /\ pc[i] = "sync" /\ jobCache[JobName(i)].phase = "Succeeded"
             /\ verdict' = [verdict EXCEPT ![i] = "Complete"] /\ Continue(i, "write")
      BY <2>6 DEF SeeSucceeded
    <3> QED
      BY <2>1, <2>4, <3>1 DEF Ended
  <2> QED
    BY <1>5, <2>1, <2>2, <2>3, <2>5, <2>6 DEF Reconcile, SetDefaultSpec, MissRef,
       SetDefaultStatus, CleanUp, CreateJob, LoseJob, SeeRunning, WriteStatus
<1>6. CASE Disturbance
  <2>1. CASE Crash
    BY <2>1 DEF Crash
  <2>2. CASE \E i \in Kinds : FailReconcile(i)
    BY <1>2, <2>2 DEF FailReconcile
  <2> QED
    BY <1>1, <1>6, <2>1, <2>2 DEF Disturbance, FailCleanJob, LosePod, End, DeleteJob,
       DeleteCR
<1> QED
  BY <1>1, <1>3, <1>5, <1>6 DEF Next, CleanJob, InformCR, InformJob, Resync, StartJob,
     EndJob, End, Collect, CreateCR, vars

\* A CR is left alone, deleted, created as a new incarnation, or given the status
\* Active or the verdict of the worker that holds it.
LEMMA CRStep ==
  ASSUME TypeOK, AtWork, [Next]_vars, NEW c \in CRs
  PROVE  \/ cr'[c] = cr[c] /\ uids'[c] = uids[c]
         \/ cr'[c] = NoCR /\ uids'[c] = uids[c]
         \/ /\ cr[c].uid = 0 /\ cr'[c].status = ""
            /\ cr'[c].uid = uids[c] + 1 /\ uids'[c] = uids[c] + 1
         \/ /\ cr'[c].uid = cr[c].uid /\ uids'[c] = uids[c]
            /\ \/ cr'[c].status \in {cr[c].status, "Active"}
               \/ \E k \in Kinds : /\ cur[k] = c /\ pc[k] = "write"
                                   /\ cr'[c].status = verdict[k]
<1> USE DEF apiVars
<1>1. ASSUME NEW k \in Kinds, Reconcile(k)
      PROVE  \/ cr'[c] = cr[c] /\ uids'[c] = uids[c]
             \/ /\ cr'[c].uid = cr[c].uid /\ uids'[c] = uids[c]
                /\ \/ cr'[c].status \in {cr[c].status, "Active"}
                   \/ cur[k] = c /\ pc[k] = "write" /\ cr'[c].status = verdict[k]
  <2>0. seen[k] \in CustomResource /\ cr \in [CRs -> CustomResource]
    BY DEF TypeOK
  <2>1. CASE SetDefaultSpec(k)
    <3>1. [seen[k] EXCEPT !.defaulted = TRUE].uid = seen[k].uid
          /\ [seen[k] EXCEPT !.defaulted = TRUE].status = seen[k].status
      BY <2>0 DEF CustomResource
    <3> QED
      BY <2>0, <2>1, <3>1 DEF SetDefaultSpec, Put
  <2>2. CASE SetDefaultStatus(k)
    <3>1. [seen[k] EXCEPT !.status = "Active"].uid = seen[k].uid
          /\ [seen[k] EXCEPT !.status = "Active"].status = "Active"
      BY <2>0 DEF CustomResource
    <3> QED
      BY <2>0, <2>2, <3>1 DEF SetDefaultStatus, Put
  <2>3. CASE WriteStatus(k)
    <3>1. [seen[k] EXCEPT !.status = verdict[k]].uid = seen[k].uid
          /\ [seen[k] EXCEPT !.status = verdict[k]].status = verdict[k]
      BY <2>0 DEF CustomResource
    <3> QED
      BY <2>0, <2>3, <3>1 DEF WriteStatus, Put
  <2>4. CASE UNCHANGED <<cr, uids>>
    BY <2>4
  <2> QED
    BY <1>1, <2>1, <2>2, <2>3, <2>4 DEF Reconcile, MissRef, CleanUp, FindJob,
       CreateClaim, CreateJob, LoseJob, SeeRunning, SeeFailed, SeeSucceeded
<1>2. ASSUME NEW d \in CRs, CreateCR(d)
      PROVE  \/ cr'[c] = cr[c] /\ uids'[c] = uids[c]
             \/ /\ cr[c].uid = 0 /\ cr'[c].status = ""
                /\ cr'[c].uid = uids[c] + 1 /\ uids'[c] = uids[c] + 1
  <2>1. CASE c = d
    BY <1>2, <2>1 DEF CreateCR, TypeOK, NoCR
  <2>2. CASE c # d
    BY <1>2, <2>2 DEF CreateCR, TypeOK
  <2> QED
    BY <2>1, <2>2
<1>3. ASSUME NEW d \in CRs, DeleteCR(d)
      PROVE  cr'[c] \in {cr[c], NoCR} /\ uids' = uids
  BY <1>3 DEF DeleteCR, TypeOK
<1>4. CASE UNCHANGED <<cr, uids>>
  BY <1>4
<1> QED
  BY <1>1, <1>2, <1>3, <1>4 DEF Next, Fetch, CleanJob, InformCR, InformJob, Resync,
     StartJob, EndJob, End, Collect, Disturbance, FailReconcile, FailCleanJob, LosePod,
     DeleteJob, Crash, vars

\* The Job of a name is left alone, deleted, made by a worker for its CR, or goes
\* on to a phase that the history has on record for the Job's owner.
LEMMA JobStep ==
  ASSUME TypeOK, AtWork, [Next]_vars, NEW n \in Names
  PROVE  \/ job'[n] = job[n]
         \/ job'[n] = NoJob
         \/ \E k \in Kinds :
              /\ pc[k] = "create" /\ cur[k] \in CRs /\ JobName(k) = n
              /\ job'[n] # NoJob
              /\ job'[n].owner = cur[k] /\ job'[n].uid = seen[k].uid
              /\ job'[n].phase = "New"
         \/ /\ job[n] # NoJob /\ job'[n] # NoJob
            /\ job'[n].owner = job[n].owner /\ job'[n].uid = job[n].uid
            /\ job'[n].phase = "Succeeded" => won'[job[n].owner] # {}
            /\ job'[n].phase = "Failed" => lost'[job[n].owner] # {}
<1> USE DEF apiVars
<1>1. ASSUME NEW k \in Kinds, Reconcile(k)
      PROVE  \/ job'[n] = job[n]
             \/ /\ pc[k] = "create" /\ cur[k] \in CRs /\ JobName(k) = n
                /\ job'[n] # NoJob
                /\ job'[n].owner = cur[k] /\ job'[n].uid = seen[k].uid
                /\ job'[n].phase = "New"
  <2>1. CASE CreateJob(k)
    <3>1. CASE job' = job
      BY <3>1
    <3>2. CASE job' # job
      <4> DEFINE new == [owner |-> cur[k], uid |-> seen[k].uid,
                         serial |-> made[cur[k]] + 1, phase |-> "New"]
      <4>1. /\ new # NoJob /\ new.owner = cur[k] /\ new.uid = seen[k].uid
            /\ new.phase = "New"
        BY DEF NoJob
      <4>2. job' = [job EXCEPT ![JobName(k)] = new] /\ pc[k] = "create"
        BY <2>1, <3>2 DEF CreateJob
      <4>3. cur[k] \in CRs
        BY <4>2 DEF TypeOK
      <4> HIDE DEF new
      <4> QED
        BY <4>1, <4>2, <4>3 DEF TypeOK
    <3> QED
      BY <3>1, <3>2
  <2>2. CASE UNCHANGED job
    BY <2>2
  <2> QED
    BY <1>1, <2>1, <2>2 DEF Reconcile, SetDefaultSpec, MissRef, SetDefaultStatus, CleanUp,
       FindJob, CreateClaim, LoseJob, SeeRunning, SeeFailed, SeeSucceeded, WriteStatus
<1>2. ASSUME NEW m \in Names, NEW p \in Ended \cup {"Active"}, job[m].phase \in Phases,
             job' = [job EXCEPT ![m].phase = p],
             p = "Succeeded" => won'[job[m].owner] # {},
             p = "Failed" => lost'[job[m].owner] # {}
      PROVE  \/ job'[n] = job[n]
             \/ /\ job[n] # NoJob /\ job'[n] # NoJob
                /\ job'[n].owner = job[n].owner /\ job'[n].uid = job[n].uid
                /\ job'[n].phase = "Succeeded" => won'[job[n].owner] # {}
                /\ job'[n].phase = "Failed" => lost'[job[n].owner] # {}
  <2>1. CASE m # n
    BY <1>2, <2>1 DEF TypeOK
  <2>2. CASE m = n
    <3>1. job[n] # NoJob /\ job[n] \in JobObject
      BY <1>2, <2>2, ObjectTypes DEF TypeOK, Phases
    <3> DEFINE new == [job[n] EXCEPT !.phase = p]
    <3>2. /\ new.owner = job[n].owner /\ new.uid = job[n].uid /\ new.phase = p
          /\ new.owner \in CRs
      BY <3>1 DEF JobObject
    <3>3. job'[n] = new
      BY <1>2, <2>2 DEF TypeOK
    <3> HIDE DEF new
    <3>4. new # NoJob
      BY <3>2, ObjectTypes
    <3> QED
      BY <1>2, <2>2, <3>1, <3>2, <3>3, <3>4
  <2> QED
    BY <2>1, <2>2
<1>3. ASSUME NEW m \in Names, NEW p \in Ended, End(m, p)
      PROVE  \/ job'[n] = job[n]
             \/ /\ job[n] # NoJob /\ job'[n] # NoJob
                /\ job'[n].owner = job[n].owner /\ job'[n].uid = job[n].uid
                /\ job'[n].phase = "Succeeded" => won'[job[n].owner] # {}
                /\ job'[n].phase = "Failed" => lost'[job[n].owner] # {}
  <2> DEFINE o == job[m].owner
             u == job[m].uid
  <2>1. job[m].phase = "Active" /\ job' = [job EXCEPT ![m].phase = p]
    BY <1>3 DEF End
  <2>2. job[m] # NoJob /\ job[m] \in JobObject
    BY <2>1, ObjectTypes DEF TypeOK
  <2>3. o \in CRs /\ won \in [CRs -> SUBSET Nat] /\ lost \in [CRs -> SUBSET Nat]
    BY <2>2 DEF JobObject, TypeOK
  <2>4. IF p = "Succeeded" THEN won' = [won EXCEPT ![o] = @ \cup {u}]
                           ELSE lost' = [lost EXCEPT ![o] = @ \cup {u}]
    BY <1>3 DEF End
  <2> HIDE DEF o, u
  <2>5. p = "Succeeded" => won'[o] # {}
    BY <2>3, <2>4
  <2>6. p = "Failed" => lost'[o] # {}
    BY <2>3, <2>4
  <2> QED
    BY <1>2, <2>1, <2>5, <2>6 DEF Phases, o
<1>4. ASSUME NEW m \in Names, StartJob(m)
      PROVE  \/ job'[n] = job[n]
             \/ /\ job[n] # NoJob /\ job'[n] # NoJob
                /\ job'[n].owner = job[n].owner /\ job'[n].uid = job[n].uid
                /\ job'[n].phase = "Succeeded" => won'[job[n].owner] # {}
                /\ job'[n].phase = "Failed" => lost'[job[n].owner] # {}
  BY <1>2, <1>4 DEF StartJob, Phases
<1>5. ASSUME NEW m \in Names, Remove(m)
      PROVE  job'[n] \in {job[n], NoJob}
  BY <1>5 DEF Remove, TypeOK
<1>6. CASE UNCHANGED job
  BY <1>6
<1>7. ASSUME NEW m \in Names, CleanJob(m) \/ Collect(m) \/ DeleteJob(m)
      PROVE  job'[n] \in {job[n], NoJob}
  BY <1>5, <1>7 DEF CleanJob, Collect, DeleteJob
<1>8. ASSUME NEW m \in Names, EndJob(m) \/ LosePod(m)
      PROVE  \/ job'[n] = job[n]
             \/ \E p \in Ended : End(m, p)
  BY <1>8 DEF EndJob, LosePod, Ended
<1> QED
  BY <1>1, <1>3, <1>4, <1>6, <1>7, <1>8 DEF Next, Fetch, InformCR, InformJob, Resync,
     CreateCR, Disturbance, FailReconcile, FailCleanJob, DeleteCR, Crash, vars

\* An outcome on record stays there.
LEMMA OutcomesStay ==
  ASSUME TypeOK, [Next]_vars, NEW c \in CRs
  PROVE  won[c] \subseteq won'[c] /\ lost[c] \subseteq lost'[c]
<1> USE DEF historyVars
<1>1. ASSUME NEW m \in Names, NEW p \in Ended, End(m, p)
      PROVE  won[c] \subseteq won'[c] /\ lost[c] \subseteq lost'[c]
  BY <1>1 DEF End, TypeOK
<1>2. CASE UNCHANGED <<won, lost>>
  BY <1>2
<1>3. ASSUME NEW m \in Names, EndJob(m) \/ LosePod(m)
      PROVE  UNCHANGED <<won, lost>> \/ \E p \in Ended : End(m, p)
  BY <1>3 DEF EndJob, LosePod, Ended
<1>4. ASSUME NEW k \in Kinds, Reconcile(k)
      PROVE  UNCHANGED <<won, lost>>
  BY <1>4 DEF Reconcile, SetDefaultSpec, MissRef, SetDefaultStatus, CleanUp, FindJob,
     CreateClaim, CreateJob, LoseJob, SeeRunning, SeeFailed, SeeSucceeded, WriteStatus
<1> QED
  BY <1>1, <1>2, <1>3, <1>4 DEF Next, Fetch, CleanJob, InformCR, InformJob, Resync,
     StartJob, Collect, CreateCR, Disturbance, FailReconcile, FailCleanJob, DeleteJob,
     DeleteCR, Crash, vars

\* A cache keeps what it has or takes what is there.
LEMMA CacheStep ==
  ASSUME TypeOK, [Next]_vars
  PROVE  /\ \A n \in Names : jobCache'[n] \in {jobCache[n], job[n]}
         /\ \A c \in CRs : crCache'[c] \in {crCache[c], cr[c]}
<1> DEFINE Caught == /\ \A n \in Names : jobCache'[n] \in {jobCache[n], job[n]}
                     /\ \A c \in CRs : crCache'[c] \in {crCache[c], cr[c]}
<1>1. ASSUME NEW n \in Names, InformJob(n)
      PROVE  Caught
  BY <1>1 DEF InformJob, TypeOK
<1>2. ASSUME NEW c \in CRs, InformCR(c)
      PROVE  Caught
  BY <1>2 DEF InformCR, TypeOK
<1>3. CASE Crash
  BY <1>3 DEF Crash
<1>4. CASE UNCHANGED <<crCache, jobCache>>
  BY <1>4
<1>5. ASSUME NEW k \in Kinds, Reconcile(k)
      PROVE  UNCHANGED <<crCache, jobCache>>
  BY <1>5 DEF Reconcile, SetDefaultSpec, MissRef, SetDefaultStatus, CleanUp, FindJob,
     CreateClaim, CreateJob, LoseJob, SeeRunning, SeeFailed, SeeSucceeded, WriteStatus
<1>6. ASSUME NEW n \in Names, EndJob(n) \/ LosePod(n)
      PROVE  UNCHANGED <<crCache, jobCache>>
  BY <1>6 DEF EndJob, LosePod, End
<1> QED
  BY <1>1, <1>2, <1>3, <1>4, <1>5, <1>6 DEF Next, Fetch, CleanJob, Resync,
     StartJob, Collect, CreateCR, Disturbance, FailReconcile, FailCleanJob, DeleteJob,
     DeleteCR, vars

\* A PVC is replaced only when it is not there, or its owner is not.
LEMMA ClaimStep ==
  ASSUME TypeOK, AtWork, [Next]_vars, NEW n \in Names
  PROVE  \/ claim'[n] = claim[n]
         \/ claim[n] = NoClaim
         \/ ~Owned(claim[n])
<1> USE DEF apiVars
<1>1. ASSUME NEW k \in Kinds, CreateClaim(k)
      PROVE  claim'[n] = claim[n] \/ claim[n] = NoClaim
  BY <1>1 DEF CreateClaim, TypeOK
<1>2. ASSUME NEW m \in Names, Collect(m)
      PROVE  claim'[n] = claim[n] \/ ~Owned(claim[n])
  BY <1>2 DEF Collect, TypeOK
<1>3. CASE UNCHANGED claim
  BY <1>3
<1>4. ASSUME NEW k \in Kinds, Reconcile(k)
      PROVE  UNCHANGED claim \/ CreateClaim(k)
  BY <1>4 DEF Reconcile, SetDefaultSpec, MissRef, SetDefaultStatus, CleanUp, FindJob,
     CreateJob, LoseJob, SeeRunning, SeeFailed, SeeSucceeded, WriteStatus
<1>5. ASSUME NEW m \in Names, EndJob(m) \/ LosePod(m)
      PROVE  UNCHANGED claim
  BY <1>5 DEF EndJob, LosePod, End
<1> QED
  BY <1>1, <1>2, <1>3, <1>4, <1>5 DEF Next, Fetch, CleanJob, InformCR, InformJob, Resync,
     StartJob, CreateCR, Disturbance, FailReconcile, FailCleanJob, DeleteJob,
     DeleteCR, Crash, vars

-----------------------------------------------------------------------------
(* A result is that of a Job of the name.                                  *)

\* A status s of a CR named n is backed by a Job of that name: w and l are won
\* and lost.
Reported(s, n, w, l) ==
  /\ s = "Complete" => \E o \in CRs : NameOf[o] = n /\ w[o] # {}
  /\ s = "Failed" => \E o \in CRs : NameOf[o] = n /\ l[o] # {}

\* The Job j, there or in the cache, belongs to a CR named n, and its outcome is
\* on record.
Named(j, n, w, l) ==
  j # NoJob =>
    /\ NameOf[j.owner] = n
    /\ j.phase = "Succeeded" => w[j.owner] # {}
    /\ j.phase = "Failed" => l[j.owner] # {}

\* The inductive invariant: statuses, Jobs, cached Jobs and verdicts about to be
\* written.
NameInv ==
  /\ \A c \in CRs : Reported(cr[c].status, NameOf[c], won, lost)
  /\ \A n \in Names : Named(job[n], n, won, lost) /\ Named(jobCache[n], n, won, lost)
  /\ \A k \in Kinds : IF pc[k] = "write" THEN Reported(verdict[k], JobName(k), won, lost)
                                         ELSE verdict[k] = ""

\* Nothing is reported and there is no Job at the start.
LEMMA NameInvInit == Init => NameInv
<1> SUFFICES ASSUME Init
             PROVE  NameInv
  OBVIOUS
<1>1. \A c \in CRs : cr[c].status = ""
  BY ObjectTypes DEF Init
<1>2. \A n \in Names : job[n] = NoJob /\ jobCache[n] = NoJob
  BY DEF Init
<1>3. \A k \in Kinds : pc[k] = "idle" /\ verdict[k] = ""
  BY DEF Init
<1> QED
  BY <1>1, <1>2, <1>3 DEF NameInv, Named, Reported

\* Every step keeps it.
LEMMA NameInvNext == TypeOK /\ AtWork /\ NameInv /\ [Next]_vars => NameInv'
<1> SUFFICES ASSUME TypeOK, AtWork, NameInv, [Next]_vars
             PROVE  NameInv'
  OBVIOUS
<1>1. ASSUME NEW s, NEW n, Reported(s, n, won, lost)
      PROVE  Reported(s, n, won', lost')
  BY <1>1, OutcomesStay DEF Reported
<1>2. ASSUME NEW n \in Names, NEW j \in JobObject \cup {NoJob}, Named(j, n, won, lost)
      PROVE  Named(j, n, won', lost')
  <2>1. j # NoJob => j.owner \in CRs
    BY DEF JobObject
  <2> QED
    BY <1>2, <2>1, OutcomesStay DEF Named
<1>3. ASSUME NEW n \in Names
      PROVE  Named(job[n], n, won, lost) /\ Named(jobCache[n], n, won, lost)
             /\ job[n] \in JobObject \cup {NoJob} /\ jobCache[n] \in JobObject \cup {NoJob}
  BY DEF NameInv, TypeOK
<1>4. ASSUME NEW n \in Names
      PROVE  Named(jobCache'[n], n, won', lost')
  BY <1>2, <1>3, CacheStep
<1>5. ASSUME NEW n \in Names
      PROVE  Named(job'[n], n, won', lost')
  <2>1. CASE job'[n] = job[n]
    BY <1>2, <1>3, <2>1
  <2>2. CASE job'[n] = NoJob
    BY <2>2 DEF Named
  <2>3. ASSUME NEW k \in Kinds, JobName(k) = n, job'[n].owner = cur[k],
               job'[n].phase = "New"
        PROVE  Named(job'[n], n, won', lost')
    BY <2>3 DEF Named, JobName
  <2>4. CASE /\ job[n] # NoJob
             /\ job'[n].owner = job[n].owner
             /\ job'[n].phase = "Succeeded" => won'[job[n].owner] # {}
             /\ job'[n].phase = "Failed" => lost'[job[n].owner] # {}
    BY <1>3, <2>4 DEF Named
  <2> QED
    BY <2>1, <2>2, <2>3, <2>4, JobStep
<1>6. ASSUME NEW k \in Kinds
      PROVE  IF pc'[k] = "write" THEN Reported(verdict'[k], JobName(k)', won', lost')
                                 ELSE verdict'[k] = ""
  <2>0. IF pc[k] = "write" THEN Reported(verdict[k], JobName(k), won, lost) ELSE verdict[k] = ""
    BY DEF NameInv
  <2>1. CASE pc'[k] = "idle" /\ verdict'[k] = ""
    BY <2>1
  <2>2. CASE UNCHANGED <<pc[k], cur[k], seen[k], verdict[k]>>
    <3>1. JobName(k)' = JobName(k)
      BY <2>2 DEF JobName
    <3> QED
      BY <1>1, <2>0, <2>2, <3>1
  <2>3. CASE pc'[k] = "fetched" /\ pc[k] = "idle" /\ verdict'[k] = verdict[k]
    BY <2>0, <2>3
  <2>4. CASE pc'[k] \in {"sync", "claim", "create"} /\ verdict'[k] = verdict[k] /\ pc[k] # "write"
    BY <2>0, <2>4
  <2>5. CASE /\ pc[k] # "idle" /\ cur[k] \in CRs /\ cur'[k] = cur[k]
             /\ pc'[k] = "write" /\ jobCache[JobName(k)].phase \in Ended
             /\ verdict'[k] = "Complete" => jobCache[JobName(k)].phase = "Succeeded"
             /\ verdict'[k] = "Failed" => jobCache[JobName(k)].phase = "Failed"
    <3> DEFINE n == NameOf[cur[k]]
               j == jobCache[n]
    <3>1. n \in Names /\ JobName(k) = n /\ JobName(k)' = n
      BY <2>5 DEF JobName
    <3>2. j # NoJob /\ j \in JobObject
      BY <1>3, <2>5, <3>1, ObjectTypes DEF Ended
    <3>3. /\ NameOf[j.owner] = n /\ j.owner \in CRs
          /\ j.phase = "Succeeded" => won[j.owner] # {}
          /\ j.phase = "Failed" => lost[j.owner] # {}
      BY <1>3, <3>1, <3>2 DEF Named, JobObject
    <3>4. Reported(verdict'[k], n, won, lost)
      BY <2>5, <3>1, <3>3 DEF Reported
    <3>5. Reported(verdict'[k], n, won', lost')
      BY <1>1, <3>4
    <3>6. Reported(verdict'[k], JobName(k)', won', lost')
      BY <3>1, <3>5
    <3> QED
      BY <2>5, <3>6
  <2> QED
    BY <2>1, <2>2, <2>3, <2>4, <2>5, WorkerStep
<1>7. ASSUME NEW c \in CRs
      PROVE  Reported(cr'[c].status, NameOf[c], won', lost')
  <2>1. CASE cr'[c].status = ""
    BY <2>1 DEF Reported
  <2>2. CASE cr'[c].status = cr[c].status
    BY <1>1, <2>2 DEF NameInv
  <2>3. CASE cr'[c].status = "Active"
    BY <2>3 DEF Reported
  <2>4. ASSUME NEW k \in Kinds, cur[k] = c, pc[k] = "write", cr'[c].status = verdict[k]
        PROVE  Reported(cr'[c].status, NameOf[c], won', lost')
    BY <1>1, <2>4 DEF NameInv, JobName
  <2> QED
    BY ZenonT(60), <2>1, <2>2, <2>3, <2>4, CRStep, ObjectTypes
<1> QED
  BY <1>4, <1>5, <1>6, <1>7 DEF NameInv

\* A Complete or Failed CR has a namesake with a Job that ended so, whatever names
\* are shared or used again (Reconcile finds the Job by its name).
THEOREM ResultNamed == Spec => []ResultOfName
<1>1. NameInv => ResultOfName
  BY DEF NameInv, Reported, ResultOfName
<1>2. Spec => []AtWork
  BY AtWorkInit, AtWorkNext, TypeCorrect, PTL DEF Spec
<1> QED
  BY <1>1, <1>2, TypeCorrect, NameInvInit, NameInvNext, PTL DEF Spec

-----------------------------------------------------------------------------
(* A Job that writes into a PVC has its own.                               *)

\* The inductive invariant: incarnations are numbered up to uids, so that one that
\* is gone never comes back, and a worker past CreateClaim whose CR is still the
\* incarnation it took has the PVC.
ClaimInv ==
  /\ ClaimIsOwn
  /\ \A c \in CRs : cr[c].uid <= uids[c] /\ crCache[c].uid <= uids[c]
  /\ \A n \in Names : job[n] # NoJob => job[n].uid \in 1 .. uids[job[n].owner]
  /\ \A k \in Kinds : pc[k] # "idle" => seen[k].uid \in 1 .. uids[cur[k]]
  /\ \A k \in ClaimingKinds :
       pc[k] = "create" /\ cr[cur[k]].uid = seen[k].uid =>
         claim[JobName(k)] = [owner |-> cur[k], uid |-> seen[k].uid]

\* There is no CR, no Job and no worker at the start.
LEMMA ClaimInvInit == Init => ClaimInv
<1> SUFFICES ASSUME Init
             PROVE  ClaimInv
  OBVIOUS
<1>1. \A c \in CRs : cr[c].uid = 0 /\ crCache[c].uid = 0 /\ uids[c] = 0
  BY ObjectTypes DEF Init
<1>2. \A n \in Names : job[n] = NoJob
  BY DEF Init
<1>3. \A k \in Kinds : pc[k] = "idle"
  BY DEF Init
<1>4. ClaimingKinds \subseteq Kinds
  BY DEF ClaimingKinds, Kinds
<1> QED
  BY <1>1, <1>2, <1>3, <1>4 DEF ClaimInv, ClaimIsOwn

\* A CR that has an old incarnation after a step had it before.
LEMMA SameIncarnation ==
  ASSUME TypeOK, AtWork, [Next]_vars, NEW c \in CRs, NEW u \in 1 .. uids[c], cr'[c].uid = u
  PROVE  cr[c].uid = u
<1>1. uids[c] \in Nat /\ u # 0 /\ u # uids[c] + 1
  BY DEF TypeOK
<1>2. NoCR.uid = 0
  BY ObjectTypes
<1> QED
  BY <1>1, <1>2, CRStep

\* The PVC of an incarnation that is there is left alone.
LEMMA ClaimStays ==
  ASSUME TypeOK, AtWork, [Next]_vars, NEW n \in Names, NEW c \in CRs, NEW u,
         claim[n] = [owner |-> c, uid |-> u], cr[c].uid = u
  PROVE  claim'[n] = claim[n]
<1>1. claim[n] # NoClaim
  BY DEF NoClaim
<1>2. Owned(claim[n])
  BY DEF Owned
<1> QED
  BY <1>1, <1>2, ClaimStep

\* Every step keeps it.
LEMMA ClaimInvNext == TypeOK /\ AtWork /\ ClaimInv /\ [Next]_vars => ClaimInv'
<1> SUFFICES ASSUME TypeOK, AtWork, ClaimInv, [Next]_vars
             PROVE  ClaimInv'
  OBVIOUS
<1>0. ClaimingKinds \subseteq Kinds
  BY DEF ClaimingKinds, Kinds
<1>1. \A c \in CRs : /\ uids[c] \in Nat /\ uids'[c] \in {uids[c], uids[c] + 1}
                     /\ cr[c].uid \in Nat /\ crCache[c].uid \in Nat
  <2>1. \A c \in CRs : uids'[c] \in {uids[c], uids[c] + 1}
    BY CRStep
  <2> QED
    BY <2>1 DEF TypeOK, CustomResource
<1>2. \A c \in CRs, u \in Nat : u <= uids[c] => u <= uids'[c]
  BY <1>1
<1>3. ASSUME NEW c \in CRs
      PROVE  cr'[c].uid <= uids'[c] /\ crCache'[c].uid <= uids'[c]
  <2>1. cr[c].uid <= uids[c] /\ crCache[c].uid <= uids[c]
    BY DEF ClaimInv
  <2>2. crCache'[c].uid <= uids'[c]
    BY <1>1, <1>2, <2>1, CacheStep
  <2>3. \/ cr'[c].uid = cr[c].uid \/ cr'[c].uid = 0
        \/ cr'[c].uid = uids[c] + 1 /\ uids'[c] = uids[c] + 1
    BY CRStep, ObjectTypes
  <2>4. cr'[c].uid <= uids'[c]
    BY <1>1, <1>2, <2>1, <2>3
  <2> QED
    BY <2>2, <2>4
<1>4. ASSUME NEW k \in Kinds, pc'[k] # "idle"
      PROVE  /\ cur'[k] \in CRs
             /\ seen'[k].uid \in 1 .. uids'[cur'[k]]
             /\ pc[k] # "idle" => cur[k] \in CRs /\ seen[k].uid \in 1 .. uids[cur[k]]
  <2>0. pc[k] # "idle" => cur[k] \in CRs /\ seen[k].uid \in 1 .. uids[cur[k]]
    BY DEF ClaimInv, TypeOK
  <2>1. CASE pc[k] # "idle" /\ UNCHANGED <<cur[k], seen[k]>>
    BY <1>1, <2>0, <2>1
  <2>2. CASE /\ pc[k] = "idle" /\ cur'[k] \in CRs
             /\ seen'[k] = crCache[cur'[k]] /\ seen'[k].uid # 0
    <3>1. crCache[cur'[k]].uid <= uids[cur'[k]]
      BY <2>2 DEF ClaimInv
    <3> QED
      BY <1>1, <2>2, <3>1
  <2> QED
    BY <1>4, <2>0, <2>1, <2>2, WorkerStep
<1>5. ASSUME NEW n \in Names, job'[n] # NoJob
      PROVE  job'[n].owner \in CRs /\ job'[n].uid \in 1 .. uids'[job'[n].owner]
  <2>1. job[n] # NoJob => job[n].owner \in CRs /\ job[n].uid \in 1 .. uids[job[n].owner]
    BY DEF ClaimInv, TypeOK, JobObject
  <2>2. CASE job[n] # NoJob /\ job'[n].owner = job[n].owner /\ job'[n].uid = job[n].uid
    BY <1>1, <2>1, <2>2
  <2>3. ASSUME NEW k \in Kinds, pc[k] = "create", cur[k] \in CRs,
               job'[n].owner = cur[k], job'[n].uid = seen[k].uid
        PROVE  job'[n].owner \in CRs /\ job'[n].uid \in 1 .. uids'[job'[n].owner]
    <3>1. seen[k].uid \in 1 .. uids[cur[k]]
      BY <2>3 DEF ClaimInv
    <3> QED
      BY <1>1, <2>3, <3>1
  <2> QED
    BY <1>5, <2>2, <2>3, JobStep
<1>6. ASSUME NEW k \in ClaimingKinds, pc'[k] = "create", cr'[cur'[k]].uid = seen'[k].uid
      PROVE  claim'[JobName(k)'] = [owner |-> cur'[k], uid |-> seen'[k].uid]
  <2>1. k \in Kinds
    BY <1>0
  <2>2. \/ pc[k] = "create" /\ UNCHANGED <<cur[k], seen[k]>>
        \/ /\ cur[k] \in CRs /\ UNCHANGED <<cur[k], seen[k]>>
           /\ claim'[JobName(k)] = [owner |-> cur[k], uid |-> seen[k].uid]
    BY <1>6, <2>1, WorkerStep
  <2>3. CASE claim'[JobName(k)] = [owner |-> cur[k], uid |-> seen[k].uid]
             /\ UNCHANGED <<cur[k], seen[k]>>
    BY <2>3 DEF JobName
  <2>4. CASE pc[k] = "create" /\ UNCHANGED <<cur[k], seen[k]>>
    <3>1. cur[k] \in CRs /\ seen[k].uid \in 1 .. uids[cur[k]] /\ JobName(k) \in Names
      BY <1>4, <1>6, <2>1, <2>4 DEF JobName
    <3>2. cr[cur[k]].uid = seen[k].uid
      BY <1>6, <2>4, <3>1, SameIncarnation
    <3>3. claim[JobName(k)] = [owner |-> cur[k], uid |-> seen[k].uid]
      BY <2>4, <3>2 DEF ClaimInv
    <3>4. claim'[JobName(k)] = claim[JobName(k)]
      BY <3>1, <3>2, <3>3, ClaimStays
    <3> QED
      BY <2>4, <3>3, <3>4 DEF JobName
  <2> QED
    BY <2>2, <2>3, <2>4
<1>7. ASSUME NEW n \in Names, job'[n] # NoJob, KindOf[job'[n].owner] \in ClaimingKinds,
             cr'[job'[n].owner].uid = job'[n].uid
      PROVE  claim'[n] = [owner |-> job'[n].owner, uid |-> job'[n].uid]
  <2>1. CASE job[n] # NoJob /\ job'[n].owner = job[n].owner /\ job'[n].uid = job[n].uid
    <3>1. job[n].owner \in CRs /\ job[n].uid \in 1 .. uids[job[n].owner]
      BY <2>1 DEF ClaimInv, TypeOK, JobObject
    <3>2. cr[job[n].owner].uid = job[n].uid
      BY <1>7, <2>1, <3>1, SameIncarnation
    <3>3. claim[n] = [owner |-> job[n].owner, uid |-> job[n].uid]
      BY <1>7, <2>1, <3>2 DEF ClaimInv, ClaimIsOwn, Owned
    <3>4. claim'[n] = claim[n]
      BY <3>1, <3>2, <3>3, ClaimStays
    <3> QED
      BY <2>1, <3>3, <3>4
  <2>2. ASSUME NEW k \in Kinds, pc[k] = "create", cur[k] \in CRs, JobName(k) = n,
               job'[n].owner = cur[k], job'[n].uid = seen[k].uid
        PROVE  claim'[n] = [owner |-> job'[n].owner, uid |-> job'[n].uid]
    <3>1. seen[k].uid \in 1 .. uids[cur[k]] /\ KindOf[cur[k]] = k
      BY <2>2 DEF ClaimInv, AtWork
    <3>2. k \in ClaimingKinds
      BY <1>7, <2>2, <3>1
    <3>3. cr[cur[k]].uid = seen[k].uid
      BY <1>7, <2>2, <3>1, SameIncarnation
    <3>4. claim[n] = [owner |-> cur[k], uid |-> seen[k].uid]
      BY <2>2, <3>2, <3>3 DEF ClaimInv
    <3>5. claim'[n] = claim[n]
      BY <2>2, <3>3, <3>4, ClaimStays
    <3> QED
      BY <2>2, <3>4, <3>5
  <2> QED
    BY <1>7, <2>1, <2>2, JobStep
<1>8. ClaimIsOwn'
  BY <1>7 DEF ClaimIsOwn, Owned
<1>9. \A k \in ClaimingKinds :
        pc'[k] = "create" /\ cr'[cur'[k]].uid = seen'[k].uid =>
          claim'[JobName(k)'] = [owner |-> cur'[k], uid |-> seen'[k].uid]
  BY <1>6
<1> QED
  BY <1>3, <1>4, <1>5, <1>8, <1>9 DEF ClaimInv

\* A Job of a Backup or Snapshot has the PVC that was made for the same incarnation
\* of its CR (jobForBackup and jobForSnapshot take an existing PVC for an error).
THEOREM ClaimKept == Spec => []ClaimIsOwn
<1>1. ClaimInv => ClaimIsOwn
  BY DEF ClaimInv
<1>2. Spec => []AtWork
  BY AtWorkInit, AtWorkNext, TypeCorrect, PTL DEF Spec
<1> QED
  BY <1>1, <1>2, TypeCorrect, ClaimInvInit, ClaimInvNext, PTL DEF Spec
=============================================================================
