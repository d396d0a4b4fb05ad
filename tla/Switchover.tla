----------------------------- MODULE Switchover -----------------------------
(***************************************************************************)
(* The program of a Switchover Job: it stops two nodes, exchanges the      *)
(* account configmaps of their StatefulSets and starts both again.  Two    *)
(* pods that run with one account would both sign with its key.            *)
(*                                                                         *)
(* Covered: several Jobs, cached reads, conflicts and retries, failed      *)
(* calls, timeouts and killed Jobs between any two steps, pods that start, *)
(* are unready or terminate while CheckStopped looks at their number.      *)
(*                                                                         *)
(* External: the StatefulSet controller, which acts on the latest          *)
(* StatefulSet, keeps one pod per node and replaces a pod whose template   *)
(* has changed; and the kubelet.  Every StatefulSet has a volume named     *)
(* node-account.                                                           *)
(***************************************************************************)
EXTENDS Naturals, Sequences, FiniteSets

CONSTANTS
  Nodes,
  Accounts,    \* account configmaps
  AccountOf,   \* [Nodes -> Accounts], one to one, before the first Switchover
  Jobs,
  Source,      \* [Jobs -> Nodes], --source-node
  Dest,        \* [Jobs -> Nodes], --dest-node
  Retries,     \* attempts of retry.RetryOnConflict (5 in the code)
  AtOnce,      \* how many of the Jobs may run at the same time
  RunAgain,    \* may a Job begin after another has failed half-way
  Disturbances,\* which of AllDisturbances may happen
  MaxFaults    \* bound on the disturbances of a behaviour

AllDisturbances == {"call", "kill", "unready"}

ASSUME NodesAssumption ==
  /\ AccountOf \in [Nodes -> Accounts]
  /\ \A m, n \in Nodes : AccountOf[m] = AccountOf[n] => m = n
ASSUME JobsAssumption ==
  /\ Source \in [Jobs -> Nodes]
  /\ Dest \in [Jobs -> Nodes]
  /\ \A j \in Jobs : Source[j] # Dest[j]
  /\ RunAgain \in BOOLEAN
  /\ Disturbances \subseteq AllDisturbances
ASSUME NumbersAssumption ==
  /\ Retries \in Nat \ {0}
  /\ AtOnce \in Nat
  /\ MaxFaults \in Nat

VARIABLES
  workload, \* the StatefulSet of a node in the API server
  pod,      \* the pod of a node, {} if there is none
  view,     \* the StatefulSets in the cache of a Job's client
  fresh,    \* of which nodes that copy is the latest version
  steps,    \* what a Job has still to do
  tries,    \* attempts of its current update
  got,      \* the accounts it has read
  outcome,  \* how it ended
  half,     \* history: Jobs that have updated one of their two nodes
  faults    \* disturbances so far

vars == <<workload, pod, view, fresh, steps, tries, got, outcome, half, faults>>

StatefulSet == [replicas: {0, 1}, ready: {0, 1}, account: Accounts]

\* missed is history: a CheckStopped has passed that did not see the pod.
Pod == [account: Accounts, phase: {"unready", "ready", "closing"}, missed: BOOLEAN]
StepNames == {"stop", "check", "get", "update", "start", "log"}

\* Mutant: does not wait for the second node.
SwitchNoCheck(s, d) ==
  << <<"stop", s>>, <<"check", s>>, <<"stop", d>>,
     <<"get", s>>, <<"get", d>>, <<"update", s>>, <<"update", d>>,
     <<"start", s>>, <<"start", d>> >>

\* Mutant: reads each account just before it is needed.
SwitchLateGet(s, d) ==
  << <<"stop", s>>, <<"check", s>>, <<"stop", d>>, <<"check", d>>,
     <<"get", d>>, <<"update", s>>, <<"get", s>>, <<"update", d>>,
     <<"start", s>>, <<"start", d>> >>

\* Mutant: starts the first node only.
SwitchOneStart(s, d) ==
  << <<"stop", s>>, <<"check", s>>, <<"stop", d>>, <<"check", d>>,
     <<"get", s>>, <<"get", d>>, <<"update", s>>, <<"update", d>>, <<"start", s>> >>

Switch(s, d) ==
  << <<"stop", s>>, <<"check", s>>, <<"stop", d>>, <<"check", d>>,
     <<"get", s>>, <<"get", d>>, <<"update", s>>, <<"update", d>>,
     <<"start", s>>, <<"start", d>> >>

Running(j) == outcome[j] = "running"

\* Is the next step of j the operation op on node n?
At(j, op, n) == Running(j) /\ steps[j] # <<>> /\ Head(steps[j]) = <<op, n>>

TypeOK ==
  /\ workload \in [Nodes -> StatefulSet]
  /\ pod \in [Nodes -> SUBSET Pod]
  /\ \A n \in Nodes : \A p, q \in pod[n] : p = q
  /\ view \in [Jobs -> [Nodes -> StatefulSet]]
  /\ fresh \in [Jobs -> SUBSET Nodes]
  /\ steps \in [Jobs -> Seq(StepNames \X Nodes)]
  /\ tries \in [Jobs -> 0 .. Retries]
  /\ got \in [Jobs -> [Nodes -> Accounts]]
  /\ outcome \in [Jobs -> {"waiting", "running", "Succeeded", "Failed"}]
  /\ half \in SUBSET Jobs
  /\ faults \in 0 .. MaxFaults

FirstObjects == [n \in Nodes |-> [replicas |-> 1, ready |-> 1, account |-> AccountOf[n]]]

Init ==
  /\ workload = FirstObjects
  /\ pod = [n \in Nodes |->
             {[account |-> AccountOf[n], phase |-> "ready", missed |-> FALSE]}]
  /\ view = [j \in Jobs |-> FirstObjects]
  /\ fresh = [j \in Jobs |-> {}]
  /\ steps = [j \in Jobs |-> <<>>]
  /\ tries = [j \in Jobs |-> 0]
  /\ got = [j \in Jobs |-> AccountOf]
  /\ outcome = [j \in Jobs |-> "waiting"]
  /\ half = {}
  /\ faults = 0
-----------------------------------------------------------------------------
(* The program of a Job.                                                   *)

\* InitK8sClient fills the cache.
Begin(j) ==
  /\ outcome[j] = "waiting"
  /\ Cardinality({i \in Jobs : Running(i)}) < AtOnce
  /\ RunAgain \/ \A i \in half : Running(i)
  /\ outcome' = [outcome EXCEPT ![j] = "running"]
  /\ steps' = [steps EXCEPT ![j] = Switch(Source[j], Dest[j])]
  /\ view' = [view EXCEPT ![j] = workload]
  /\ fresh' = [fresh EXCEPT ![j] = Nodes]
  /\ UNCHANGED <<workload, pod, tries, got, half, faults>>

Done(j) == steps' = [steps EXCEPT ![j] = Tail(@)]

\* The error is returned to AddLogToPodAnnotation; nothing is undone.
Fail(j, n) == steps' = [steps EXCEPT ![j] = << <<"log", n>> >>]

\* A new version of the StatefulSet of n.
Change(n, object) ==
  /\ workload' = [workload EXCEPT ![n] = object]
  /\ fresh' = IF object = workload[n] THEN fresh ELSE [j \in Jobs |-> fresh[j] \ {n}]

\* Get from the cache, change and Update: a copy that is not the latest is a conflict,
\* which is tried again a bounded number of times.
Write(j, n, object) ==
  /\ n \in fresh[j]
  /\ Change(n, object)
  /\ Done(j)
  /\ tries' = [tries EXCEPT ![j] = 0]

\* Mutant: tries again for ever.
ConflictForever(j) ==
  \E op \in {"stop", "update", "start"}, n \in Nodes \ fresh[j] :
    /\ At(j, op, n)
    /\ tries' = [tries EXCEPT ![j] = @ + 1]
    /\ UNCHANGED <<workload, pod, view, fresh, steps, got, outcome, half, faults>>

Conflict(j) ==
  \E op \in {"stop", "update", "start"}, n \in Nodes \ fresh[j] :
    /\ At(j, op, n)
    /\ IF tries[j] + 1 < Retries
       THEN tries' = [tries EXCEPT ![j] = @ + 1] /\ UNCHANGED steps
       ELSE Fail(j, n) /\ UNCHANGED tries
    /\ UNCHANGED <<workload, pod, view, fresh, got, outcome, half, faults>>

Stop(j, n) ==
  /\ At(j, "stop", n)
  /\ Write(j, n, [workload[n] EXCEPT !.replicas = 0])
  /\ UNCHANGED <<pod, view, got, outcome, half, faults>>

\* The pod of n, if it is still there, is one that the status j has read does not count.
Miss(j, n) ==
  pod' = [pod EXCEPT ![n] = {[p EXCEPT !.missed = @ \/ view[j][n].ready = 0] : p \in @}]

\* Mutant: one poll is enough, whatever it finds.
CheckStoppedOnce(j, n) ==
  /\ At(j, "check", n)
  /\ Miss(j, n)
  /\ Done(j)
  /\ UNCHANGED <<workload, view, fresh, tries, got, outcome, half, faults>>

\* One poll that finds no ready replica.  A pod that is there all the same, since it
\* starts, is unready or terminates, or since the status lags, is missed.
CheckStopped(j, n) ==
  /\ At(j, "check", n)
  /\ view[j][n].ready = 0
  /\ Miss(j, n)
  /\ Done(j)
  /\ UNCHANGED <<workload, view, fresh, tries, got, outcome, half, faults>>

\* Sixty seconds have passed.
TimeOut(j, n) ==
  /\ At(j, "check", n)
  /\ Fail(j, n)
  /\ UNCHANGED <<workload, pod, view, fresh, tries, got, outcome, half, faults>>

GetAccountConfigmap(j, n) ==
  /\ At(j, "get", n)
  /\ got' = [got EXCEPT ![j][n] = view[j][n].account]
  /\ Done(j)
  /\ UNCHANGED <<workload, pod, view, fresh, tries, outcome, half, faults>>

Other(j, n) == IF n = Source[j] THEN Dest[j] ELSE Source[j]

\* The node gets the account that was read from the other one.
UpdateAccountConfigmap(j, n) ==
  /\ At(j, "update", n)
  /\ Write(j, n, [workload[n] EXCEPT !.account = got[j][Other(j, n)]])
  /\ half' = IF n = Source[j] THEN half \cup {j} ELSE half \ {j}
  /\ UNCHANGED <<pod, view, got, outcome, faults>>

Start(j, n) ==
  /\ At(j, "start", n)
  /\ Write(j, n, [workload[n] EXCEPT !.replicas = 1])
  /\ UNCHANGED <<pod, view, got, outcome, half, faults>>

\* The program ends, and its cache with it.
End(j, result) ==
  /\ outcome' = [outcome EXCEPT ![j] = result]
  /\ steps' = [steps EXCEPT ![j] = <<>>]
  /\ tries' = [tries EXCEPT ![j] = 0]
  /\ view' = [view EXCEPT ![j] = FirstObjects]
  /\ fresh' = [fresh EXCEPT ![j] = {}]
  /\ UNCHANGED <<workload, pod, got, half>>

Succeed(j) == Running(j) /\ steps[j] = <<>> /\ End(j, "Succeeded") /\ UNCHANGED faults

\* AddLogToPodAnnotation, and the program exits with 1.
AddLog(j, n) == At(j, "log", n) /\ End(j, "Failed") /\ UNCHANGED faults

Step(j) ==
  \/ \E n \in Nodes : \/ Stop(j, n) \/ CheckStopped(j, n) \/ TimeOut(j, n)
                     \/ GetAccountConfigmap(j, n) \/ UpdateAccountConfigmap(j, n)
                     \/ Start(j, n) \/ AddLog(j, n)
  \/ Conflict(j) \/ Succeed(j)

\* The informer of the Job's client catches up.
Refresh(j, n) ==
  /\ Running(j)
  /\ n \notin fresh[j]
  /\ view' = [view EXCEPT ![j][n] = workload[n]]
  /\ fresh' = [fresh EXCEPT ![j] = @ \cup {n}]
  /\ UNCHANGED <<workload, pod, steps, tries, got, outcome, half, faults>>
-----------------------------------------------------------------------------
(* The StatefulSet controller and the kubelet.                             *)

jobVars == <<view, steps, tries, got, outcome, half>>

NewPod(n) == [account |-> workload[n].account, phase |-> "unready", missed |-> FALSE]

\* The StatefulSet of n, as it is now, asks for the pod p.
Wanted(n, p) ==
  workload[n].replicas = 1 /\ p.account = workload[n].account /\ p.phase # "closing"

CreatePod(n) ==
  /\ pod[n] = {}
  /\ workload[n].replicas = 1
  /\ pod' = [pod EXCEPT ![n] = {NewPod(n)}]
  /\ UNCHANGED <<workload, fresh, jobVars, faults>>

Turn(n, from, to) ==
  /\ \E p \in pod[n] : p.phase \in from
  /\ pod' = [pod EXCEPT ![n] = {[p EXCEPT !.phase = to] : p \in @}]
  /\ UNCHANGED <<workload, fresh, jobVars>>

BecomeReady(n) == Turn(n, {"unready"}, "ready") /\ UNCHANGED faults

\* A pod that is not wanted, or is to run with another account, is deleted, ...
ClosePod(n) ==
  /\ \A p \in pod[n] : ~Wanted(n, p)
  /\ Turn(n, {"unready", "ready"}, "closing")
  /\ UNCHANGED faults

\* ... and ends some time later.
Gone(n) ==
  /\ \E p \in pod[n] : p.phase = "closing"
  /\ pod' = [pod EXCEPT ![n] = {}]
  /\ UNCHANGED <<workload, fresh, jobVars, faults>>

\* What the status will say: a pod that is being deleted is no longer ready, at the
\* latest when this is reported.
Count(n) == IF \E p \in pod[n] : p.phase = "ready" THEN 1 ELSE 0

ReportReady(n) ==
  /\ workload[n].ready # Count(n)
  /\ Change(n, [workload[n] EXCEPT !.ready = Count(n)])
  /\ UNCHANGED <<pod, jobVars, faults>>

Cluster(n) == CreatePod(n) \/ BecomeReady(n) \/ ClosePod(n) \/ Gone(n) \/ ReportReady(n)
-----------------------------------------------------------------------------
(* Disturbances.                                                           *)

Disturb(d) ==
  /\ d \in Disturbances
  /\ faults < MaxFaults
  /\ faults' = faults + 1

\* A call to the API server fails.
FailCall(j) ==
  /\ Disturb("call")
  /\ Running(j)
  /\ steps[j] # <<>>
  /\ Fail(j, Source[j])
  /\ UNCHANGED <<workload, pod, view, fresh, tries, got, outcome, half>>

\* The pod of the Job is lost or killed.
Kill(j) ==
  /\ Disturb("kill")
  /\ Running(j)
  /\ End(j, "Failed")

\* The readiness probe of a container fails.
BecomeUnready(n) == Disturb("unready") /\ Turn(n, {"ready"}, "unready")

Next ==
  \/ \E j \in Jobs : Begin(j) \/ Step(j) \/ FailCall(j) \/ Kill(j)
  \/ \E j \in Jobs, n \in Nodes : Refresh(j, n)
  \/ \E n \in Nodes : Cluster(n) \/ BecomeUnready(n)

Spec == Init /\ [][Next]_vars

\* The programs, their informers and the cluster keep going.
FairSpec ==
  /\ Spec
  /\ \A j \in Jobs : WF_vars(Step(j)) /\ \A n \in Nodes : WF_vars(Refresh(j, n))
  /\ \A n \in Nodes : /\ WF_vars(CreatePod(n)) /\ WF_vars(BecomeReady(n))
                      /\ WF_vars(ClosePod(n)) /\ WF_vars(Gone(n)) /\ WF_vars(ReportReady(n))
-----------------------------------------------------------------------------
(* Properties.                                                             *)

\* Two pods run with one account, and both sign with its key, only while one of them
\* is on its way out and was missed by a CheckStopped, which counts ready replicas
\* only.  Nothing else lets two nodes sign: not the order of the steps, stale copies,
\* retries, nor a switchover that ends after any of its steps.
OneSigner ==
  \A m, n \in Nodes : m # n =>
    \A p \in pod[m], q \in pod[n] : p.account = q.account =>
      (p.missed /\ ~Wanted(m, p)) \/ (q.missed /\ ~Wanted(n, q))

\* The accounts as a user sees them: a Job that has updated one node has not
\* switched anything yet.
held ==
  [n \in Nodes |-> IF \E j \in half : Source[j] = n
                   THEN got[CHOOSE j \in half : Source[j] = n][n]
                   ELSE workload[n].account]

Promise == INSTANCE AccountSwitch WITH
  holds <- held, Pairs <- {<<Source[j], Dest[j]>> : j \in Jobs}

\* Stale reads, retries and failures at any step either switch both accounts or
\* none, until somebody starts from a switchover that was left half-way.
ImplementsSwitch == Promise!Spec

\* Unless a switchover fails, every node comes up again, with a pod that is ready.
NodesComeBack ==
  []<>(\/ \A n \in Nodes : \E p \in pod[n] : p.phase = "ready"
       \/ \E j \in Jobs : outcome[j] = "Failed")

\* "Account switch: switch the accounts of two nodes": after a switchover that
\* succeeds the two nodes have different accounts.  They have the same one when it
\* repeats a switchover that failed between its two updates.
SwitchesAccounts ==
  [][\A j \in Jobs : /\ outcome[j] = "running" /\ outcome'[j] = "Succeeded"
                     => workload[Source[j]].account # workload[Dest[j]].account]_vars
=============================================================================
