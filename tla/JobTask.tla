------------------------------- MODULE JobTask -------------------------------
(***************************************************************************)
(* JobController implements Task when every name is used once and nobody   *)
(* deletes CRs or Jobs: the status of a task is the status of the CR, its  *)
(* outcome is that of the one Job made for it.                             *)
(***************************************************************************)
EXTENDS JobController

taskStatus == [c \in CRs |-> IF cr[c].uid = 0 THEN "none" ELSE cr[c].status]

taskOutcome ==
  [c \in CRs |-> IF made[c] = 0 THEN "none"
                 ELSE IF won[c] # {} THEN "Succeeded"
                 ELSE IF lost[c] # {} THEN "Failed"
                 ELSE "running"]

T == INSTANCE Task WITH Tasks <- CRs, status <- taskStatus, outcome <- taskOutcome

\* The eight reconcilers, with crashes, failed calls, lost pods and stale caches,
\* run each operation once and report its result once and for good.
ImplementsTask == T!Spec
-----------------------------------------------------------------------------
(* Why it does: the inductive invariant.                                   *)

\* Every name is used once: no two CRs share it, none is created twice, and nobody
\* deletes CRs or Jobs.
Isolated ==
  /\ \A c \in CRs : MaxUid[c] = 1
  /\ \A c, d \in CRs : NameOf[c] = NameOf[d] => c = d
  /\ Disturbances \cap {"deletecr", "deletejob"} = {}

\* A worker is past the finished branch of Reconcile only with a copy that has no
\* result, and it reconciles a CR of its kind.
AtWork ==
  \A k \in Kinds :
    /\ pc[k] # "idle" => KindOf[cur[k]] = k
    /\ pc[k] \notin {"idle", "fetched"} => seen[k].status = "Active"

\* The first and only incarnation of c, or none.
OneIncarnation ==
  \A c \in CRs :
    /\ uids[c] \in {0, 1}
    /\ cr[c].uid = uids[c]
    /\ uids[c] = 0 => cr[c] = NoCR

\* "copy" is the CR c as it was at some time: it exists only if c does, and its
\* status only moves forward.
Earlier(copy, c) ==
  /\ copy.uid # 0 => copy.uid = 1 /\ uids[c] = 1
  /\ copy.status # "" => copy.uid = 1
  /\ copy.status = "Active" => cr[c].status # ""
  /\ copy.status \in Finished => cr[c].status \in Finished

CacheIsEarlier == \A c \in CRs : Earlier(crCache[c], c)

\* A Job, in the API or in the cache, is the only one made for the CR of its name,
\* and how it ended is on record.
Genuine(j, n) ==
  /\ NameOf[j.owner] = n
  /\ j.uid = 1
  /\ made[j.owner] = 1
  /\ j.phase = "Succeeded" => 1 \in won[j.owner]
  /\ j.phase = "Failed" => 1 \in lost[j.owner]

JobsAreGenuine ==
  \A n \in Names :
    /\ job[n] # NoJob =>
         /\ Genuine(job[n], n)
         /\ job[n].phase \in {"New", "Active"} =>
              won[job[n].owner] = {} /\ lost[job[n].owner] = {}
    /\ jobCache[n] # NoJob => Genuine(jobCache[n], n)

\* One Job per CR, made for an accepted CR, with one outcome.
OneOutcome ==
  \A c \in CRs :
    /\ made[c] \in {0, 1}
    /\ made[c] = 1 => uids[c] = 1 /\ cr[c].status # ""
    /\ made[c] = 0 => won[c] = {} /\ lost[c] = {}
    /\ won[c] = {} \/ lost[c] = {}

\* CleanJob is started, hence a Job is gone, only after the operator has seen the
\* result in its cache.
CleanedLate ==
  \A c \in CRs :
    /\ timers[NameOf[c]] > 0 => crCache[c].status \in Finished
    /\ made[c] = 1 /\ job[NameOf[c]] = NoJob => crCache[c].status \in Finished

\* A worker has an earlier copy, and one with a result only if the cache has it too;
\* with a copy without result it has no timer to fear and the Job, if one was
\* made, is there; the status it is about to write is that of the CR's own Job.
Safe(k) ==
  pc[k] # "idle" =>
    /\ seen[k].uid = 1
    /\ Earlier(seen[k], cur[k])
    /\ seen[k].status \in Finished => crCache[cur[k]].status \in Finished
    /\ seen[k].status \notin Finished =>
         /\ timers[JobName(k)] = 0
         /\ made[cur[k]] = 1 => job[JobName(k)] # NoJob
    /\ pc[k] = "write" =>
         \/ verdict[k] = "Complete" /\ 1 \in won[cur[k]]
         \/ verdict[k] = "Failed" /\ 1 \in lost[cur[k]]

WorkersAreSafe == \A k \in Kinds : Safe(k)

StoreIsSound ==
  /\ OneIncarnation
  /\ CacheIsEarlier
  /\ JobsAreGenuine
  /\ OneOutcome
  /\ CleanedLate
  /\ OwnResult

IInv ==
  /\ TypeOK
  /\ AtWork
  /\ StoreIsSound
  /\ WorkersAreSafe
=============================================================================
