------------------------------- MODULE JobRbac -------------------------------
(***************************************************************************)
(* JobRbac.Ensure: before a reconciler looks for the Job of its resource,  *)
(* it makes sure that the pods of Jobs in that namespace may work on the   *)
(* cluster.  For that it needs the service account of the namespace, the   *)
(* one ClusterRole, and the namespace among the subjects of the one        *)
(* ClusterRoleBinding.  Eight workers, one per kind of resource, create    *)
(* and extend these objects at the same time, each on what an informer     *)
(* told it.                                                                *)
(*                                                                         *)
(* All names are constants of the operator, so an account is the namespace *)
(* it is in, and a subject is the namespace of its account.                *)
(***************************************************************************)
EXTENDS Naturals, Sequences, Functions

CONSTANTS
  Workers,     \* the workers of the reconcilers, one per kind
  Namespaces,  \* namespaces with resources of those kinds
  Resources,   \* the resources: their worker and their namespace
  Role,        \* the ClusterRole
  Other,       \* a subject an administrator adds by hand
  Disturbances,\* which of AllDisturbances may happen
  MaxFaults    \* bound on the disturbances of a behaviour

AllDisturbances == {"crash", "apierror", "subject", "delete"}

ASSUME RoleAssumption == Role \notin Namespaces
ASSUME OtherAssumption == Other \notin Namespaces
ASSUME ResourcesAssumption == Resources \subseteq Workers \X Namespaces
ASSUME DisturbancesAssumption == Disturbances \subseteq AllDisturbances
ASSUME MaxFaultsAssumption == MaxFaults \in Nat

VARIABLES
  objects,      \* accounts and role in the API server
  objectCache,  \* those the informers have seen
  binding,      \* the ClusterRoleBinding
  bindingCache, \* the informer's copy of it
  revision,     \* the latest resourceVersion given out
  queue,        \* the workqueue of each worker: namespaces to ensure
  pc,           \* where the worker is in Ensure
  ns,           \* the namespace it works for
  seen,         \* its copy of the binding
  ensured,      \* history: namespaces for which Ensure has returned nil
  tampered,     \* history: has an administrator deleted something
  faults        \* disturbances so far

storeVars == <<objects, binding, revision>>
cacheVars == <<objectCache, bindingCache>>
vars == <<objects, objectCache, binding, bindingCache, revision, queue, pc, ns,
          seen, ensured, tampered, faults>>
-----------------------------------------------------------------------------
Objects == Namespaces \cup {Role}

\* Version 0: there is no binding.
Binding == [version: Nat, subjects: Seq(Namespaces \cup {Other})]
NoBinding == [version |-> 0, subjects |-> <<>>]

Subjects(b) == Range(b.subjects)

Locations == {"idle", "account", "makeAccount", "role", "makeRole",
              "binding", "makeBinding", "extend"}

TypeOK ==
  /\ objects \in SUBSET Objects
  /\ objectCache \in SUBSET Objects
  /\ binding \in Binding
  /\ bindingCache \in Binding
  /\ revision \in Nat
  /\ queue \in [Workers -> Seq(Namespaces)]
  /\ pc \in [Workers -> Locations]
  /\ ns \in [Workers -> Namespaces]
  /\ seen \in [Workers -> Binding]
  /\ ensured \in SUBSET Namespaces
  /\ tampered \in BOOLEAN
  /\ faults \in Nat
  /\ \A w \in Workers : pc[w] = "extend" => seen[w] # NoBinding

\* The pods of Jobs in this namespace have the rights they need.
Bound(n) == /\ {n, Role} \subseteq objects
            /\ n \in Subjects(binding)

\* A cluster in which the operator has not run yet.
Init ==
  /\ objects = {} /\ objectCache = {}
  /\ binding = NoBinding /\ bindingCache = NoBinding
  /\ revision = 0
  /\ queue = [w \in Workers |-> <<>>]
  /\ pc = [w \in Workers |-> "idle"]
  /\ ns \in [Workers -> Namespaces]
  /\ seen = [w \in Workers |-> NoBinding]
  /\ ensured = {} /\ tampered = FALSE
  /\ faults = 0
-----------------------------------------------------------------------------
(* Ensure.                                                                 *)

GoTo(w, location) == pc' = [pc EXCEPT ![w] = location]

\* A workqueue holds a resource once.
Queued(w, n) == n \in Range(queue[w])
Joined(w, n) == IF Queued(w, n) THEN queue[w] ELSE Append(queue[w], n)

\* Mutant: the error of Ensure is logged and dropped.
FailSilently(w) == /\ GoTo(w, "idle")
                   /\ seen' = [seen EXCEPT ![w] = NoBinding]
                   /\ UNCHANGED <<queue, ensured>>

\* Reconcile returns the error of Ensure: the resource is queued again.
Fail(w) == /\ GoTo(w, "idle")
           /\ queue' = [queue EXCEPT ![w] = Joined(w, ns[w])]
           /\ seen' = [seen EXCEPT ![w] = NoBinding]
           /\ UNCHANGED ensured

Succeed(w) == /\ GoTo(w, "idle")
              /\ ensured' = ensured \cup {ns[w]}
              /\ seen' = [seen EXCEPT ![w] = NoBinding]
              /\ UNCHANGED queue

Continue(w, location) == /\ GoTo(w, location)
                         /\ UNCHANGED <<queue, ensured>>

\* A resource is created or changes, or one of its Jobs does.
Request(w, n) ==
  /\ <<w, n>> \in Resources
  /\ ~Queued(w, n)
  /\ queue' = [queue EXCEPT ![w] = Joined(w, n)]
  /\ UNCHANGED <<storeVars, cacheVars, pc, ns, seen, ensured, tampered, faults>>

Begin(w) ==
  /\ pc[w] = "idle"
  /\ queue[w] # <<>>
  /\ ns' = [ns EXCEPT ![w] = Head(queue[w])]
  /\ queue' = [queue EXCEPT ![w] = Tail(@)]
  /\ GoTo(w, "account")
  /\ UNCHANGED <<storeVars, cacheVars, seen, ensured, tampered, faults>>

\* Get of the account or the role, by way of the cache.
Get(w, object, found, missing) ==
  /\ Continue(w, IF object \in objectCache THEN found ELSE missing)
  /\ UNCHANGED <<storeVars, cacheVars, ns, seen, tampered, faults>>

\* Create of it; an object the cache has not shown yet is an error.
Make(w, object, next) ==
  /\ \/ /\ object \notin objects
        /\ objects' = objects \cup {object}
        /\ Continue(w, next)
        /\ UNCHANGED seen
     \/ /\ object \in objects
        /\ Fail(w)
        /\ UNCHANGED objects
  /\ UNCHANGED <<binding, revision, cacheVars, ns, tampered, faults>>

ensureServiceAccount(w) ==
  \/ pc[w] = "account" /\ Get(w, ns[w], "role", "makeAccount")
  \/ pc[w] = "makeAccount" /\ Make(w, ns[w], "role")

ensureRole(w) ==
  \/ pc[w] = "role" /\ Get(w, Role, "binding", "makeRole")
  \/ pc[w] = "makeRole" /\ Make(w, Role, "binding")

\* Mutant: the error of Get is ignored, and an empty binding extended.
GetBindingOrEmpty(w) ==
  /\ pc[w] = "binding"
  /\ Continue(w, "extend")
  /\ seen' = [seen EXCEPT ![w] = bindingCache]
  /\ UNCHANGED <<storeVars, cacheVars, ns, tampered, faults>>

\* Mutant: the subject is appended without a look at those that are there.
GetBindingUnchecked(w) ==
  /\ pc[w] = "binding"
  /\ Continue(w, IF bindingCache = NoBinding THEN "makeBinding" ELSE "extend")
  /\ seen' = [seen EXCEPT ![w] = bindingCache]
  /\ UNCHANGED <<storeVars, cacheVars, ns, tampered, faults>>

GetBinding(w) ==
  /\ pc[w] = "binding"
  /\ \/ /\ bindingCache = NoBinding
        /\ Continue(w, "makeBinding")
        /\ UNCHANGED seen
     \/ /\ bindingCache # NoBinding
        /\ ns[w] \in Subjects(bindingCache)
        /\ Succeed(w)
     \/ /\ bindingCache # NoBinding
        /\ ns[w] \notin Subjects(bindingCache)
        /\ Continue(w, "extend")
        /\ seen' = [seen EXCEPT ![w] = bindingCache]
  /\ UNCHANGED <<storeVars, cacheVars, ns, tampered, faults>>

\* Mutant: the subjects are those of a generated binding.
SentAlone(w) == <<ns[w]>>

\* What a worker sends: a binding of its own, or its copy with one more subject.
Sent(w) == IF pc[w] = "makeBinding" THEN <<ns[w]>>
           ELSE Append(seen[w].subjects, ns[w])

\* Create needs that there is none, Update that it is still the one seen.
Accepted(w) == IF pc[w] = "makeBinding" THEN binding = NoBinding
               ELSE binding.version = seen[w].version

Write(subjects) == /\ binding' = [version |-> revision + 1, subjects |-> subjects]
                   /\ revision' = revision + 1

WriteBinding(w) ==
  /\ pc[w] \in {"makeBinding", "extend"}
  /\ \/ Accepted(w) /\ Write(Sent(w)) /\ Succeed(w)
     \/ ~Accepted(w) /\ Fail(w) /\ UNCHANGED <<binding, revision>>
  /\ UNCHANGED <<objects, cacheVars, ns, tampered, faults>>

Ensure(w) == \/ Begin(w)
             \/ ensureServiceAccount(w)
             \/ ensureRole(w)
             \/ GetBinding(w)
             \/ WriteBinding(w)
-----------------------------------------------------------------------------
(* Informers and disturbances.                                             *)

InformObject(object) ==
  /\ (object \in objects) # (object \in objectCache)
  /\ objectCache' = IF object \in objects THEN objectCache \cup {object}
                    ELSE objectCache \ {object}
  /\ UNCHANGED <<storeVars, bindingCache, queue, pc, ns, seen, ensured,
                 tampered, faults>>

InformBinding ==
  /\ bindingCache # binding
  /\ bindingCache' = binding
  /\ UNCHANGED <<storeVars, objectCache, queue, pc, ns, seen, ensured,
                 tampered, faults>>

Inform == InformBinding \/ \E object \in Objects : InformObject(object)

Disturb(d) == /\ d \in Disturbances
              /\ faults < MaxFaults
              /\ faults' = faults + 1

\* The operator ends and starts again: what it was working on is queued.
Crash ==
  /\ Disturb("crash")
  /\ pc' = [w \in Workers |-> "idle"]
  /\ queue' = [w \in Workers |-> IF pc[w] = "idle" THEN queue[w]
                                  ELSE Joined(w, ns[w])]
  /\ seen' = [w \in Workers |-> NoBinding]
  /\ objectCache' = objects
  /\ bindingCache' = binding
  /\ UNCHANGED <<storeVars, ns, ensured, tampered>>

\* A call fails, perhaps after the server has done what it was asked.
CallFails(w) ==
  /\ pc[w] # "idle"
  /\ Disturb("apierror")
  /\ Fail(w)
  /\ \/ UNCHANGED storeVars
     \/ /\ pc[w] = "makeAccount" /\ objects' = objects \cup {ns[w]}
        /\ UNCHANGED <<binding, revision>>
     \/ /\ pc[w] = "makeRole" /\ objects' = objects \cup {Role}
        /\ UNCHANGED <<binding, revision>>
     \/ /\ pc[w] \in {"makeBinding", "extend"} /\ Accepted(w)
        /\ Write(Sent(w))
        /\ UNCHANGED objects
  /\ UNCHANGED <<cacheVars, ns, tampered>>

\* An administrator adds a subject of his own to the binding.
AddSubject ==
  /\ Disturb("subject")
  /\ binding # NoBinding
  /\ Other \notin Subjects(binding)
  /\ Write(Append(binding.subjects, Other))
  /\ UNCHANGED <<objects, cacheVars, queue, pc, ns, seen, ensured, tampered>>

\* An administrator deletes an account, the role or the binding.
DeleteObject(object) ==
  /\ Disturb("delete")
  /\ object \in objects
  /\ objects' = objects \ {object}
  /\ tampered' = TRUE
  /\ UNCHANGED <<binding, revision, cacheVars, queue, pc, ns, seen, ensured>>

DeleteBinding ==
  /\ Disturb("delete")
  /\ binding # NoBinding
  /\ binding' = NoBinding
  /\ tampered' = TRUE
  /\ UNCHANGED <<objects, revision, cacheVars, queue, pc, ns, seen, ensured>>

Administer == \/ AddSubject
              \/ DeleteBinding
              \/ \E object \in Objects : DeleteObject(object)
-----------------------------------------------------------------------------
Next ==
  \/ \E w \in Workers, n \in Namespaces : Request(w, n)
  \/ \E w \in Workers : Ensure(w) \/ CallFails(w)
  \/ Inform
  \/ Crash
  \/ Administer

Spec == Init /\ [][Next]_vars

\* A worker takes what is queued and goes on, and an informer catches up.
Fairness ==
  /\ \A w \in Workers : WF_vars(Ensure(w))
  /\ WF_vars(InformBinding)
  /\ \A object \in Objects : WF_vars(InformObject(object))

FairSpec == Spec /\ Fairness
-----------------------------------------------------------------------------
(* Properties.                                                             *)

\* Once Ensure has returned nil for a namespace its Jobs have their rights,
\* and no worker that extends the binding for another namespace takes them
\* away again; only an administrator who deletes something does.
StaysBound == ~tampered => \A n \in ensured : Bound(n)

\* However many workers found a namespace missing at the same time, it is in
\* the binding at most once.
OneSubjectEach ==
  \A i, j \in DOMAIN binding.subjects :
    binding.subjects[i] = binding.subjects[j] => i = j

\* The read-modify-write of the operator never takes a subject out of the
\* binding, be it of another worker or added by hand, and after whatever
\* deletions: what is there stays unless an administrator removes it.
KeepsSubjects ==
  [][~Administer => Subjects(binding) \subseteq Subjects(binding')]_vars

\* A resource that waits to be reconciled gets its namespace bound in the
\* end, through conflicts, stale caches, failed calls and crashes, unless an
\* administrator deletes the objects meanwhile.
EventuallyBound ==
  \A n \in Namespaces :
    (\E w \in Workers : Queued(w, n)) ~> Bound(n) \/ tampered
=============================================================================
