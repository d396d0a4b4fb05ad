---------------------------- MODULE NodeOperation ----------------------------
(***************************************************************************)
(* The execution side of the operator: what the program in the pod of a    *)
(* Job (cita-node-cli) does to one blockchain node.  With action           *)
(* StopAndStart it scales the node's workload to zero, waits until the      *)
(* node has stopped, works on the node's torn, annotates its own pod and   *)
(* scales the workload up again; the first error ends it.  The three       *)
(* deployment methods differ in their steps, in how they write the         *)
(* workload, and in when they take the node to be stopped.                 *)
(*                                                                         *)
(* Covered: several Jobs on one node, cached reads of the workload,        *)
(* conflicting updates and their retries, timeouts, failing commands and   *)
(* calls, a killed Job pod, node pods that are evicted or not ready.       *)
(*                                                                         *)
(* External: the StatefulSet or Deployment controller and the node's pods. *)
(* The controllers act on the latest workload; what they do to one pod is  *)
(* one step.                                                               *)
(***************************************************************************)
EXTENDS Naturals, Sequences, FiniteSets

CONSTANTS
  Jobs,        \* the programs that are run on the node
  OpOf,        \* [Jobs -> Operations]
  ActionOf,    \* [Jobs -> Actions]
  Method,      \* how the node is deployed
  Size,        \* replicas of the workload: 1, for helm the nodes of the chain
  Retries,     \* attempts of retry.RetryOnConflict (5 in the code)
  AtOnce,      \* how many of the Jobs may run at the same time
  Disturbances,\* which of AllDisturbances may happen
  MaxFaults    \* bound on the disturbances of a behaviour

Operations == {"Backup", "Restore", "Fallback", "Snapshot", "SnapshotRecover",
               "ChangeOwner"}
Actions == {"StopAndStart", "Direct"}
Methods == {"cloud-config", "python", "helm"}

AllDisturbances == {"command", "call", "kill", "evict", "unready"}

ASSUME ProgramsAssumption ==
  /\ OpOf \in [Jobs -> Operations]
  /\ ActionOf \in [Jobs -> Actions]
  /\ Method \in Methods
  /\ Disturbances \subseteq AllDisturbances
ASSUME NumbersAssumption ==
  /\ Size \in Nat \ {0}
  /\ Method # "helm" => Size = 1
  /\ Retries \in Nat \ {0}
  /\ AtOnce \in Nat
  /\ MaxFaults \in Nat

VARIABLES
  workload, \* the StatefulSet or Deployment in the API server
  pods,     \* how many pods of the node are in which state
  torn,     \* the Jobs that are changing the node's data or failed doing so
  view,     \* the copy of the workload in the cache of a Job's client
  fresh,    \* is that copy the latest version
  steps,    \* what a Job has still to do
  tries,    \* attempts of its current update
  kept,     \* helmNode.replicas, the replicas to scale up to
  outcome,  \* how the Job ended
  note,     \* the annotation of the Job's pod
  faults    \* disturbances so far

vars == <<workload, pods, torn, view, fresh, steps, tries, kept, outcome, note,
          faults>>
nodeVars == <<workload, pods, torn>>

Workload == [replicas: Nat, ready: Nat]
Pods     == [starting: Nat, ready: Nat, closing: Nat]

\* Operations that change the node's data; the others only read it.
Writing  == {"Restore", "Fallback", "SnapshotRecover", "ChangeOwner"}
\* Operations that report a size.
Measured == {"Backup", "Snapshot"}

Live == pods.starting + pods.ready
NodePods == Live + pods.closing
-----------------------------------------------------------------------------
(* What an operation consists of.  "begin" and "finish" are the first and   *)
(* the last effect of its commands on the data.                            *)

\* Mutant: the node is not started again.
AroundNoStart(action, work) ==
  IF action = "StopAndStart" THEN <<"stop", "check">> \o work ELSE work

Around(action, work) ==
  IF action = "StopAndStart" THEN <<"stop", "check">> \o work \o <<"start">> ELSE work

Work == <<"begin", "finish">>

CloudConfig(op, action) ==
  Around(action, IF op \in Measured THEN Work \o <<"annotate">> ELSE Work)

\* Mutant: the size of a Backup is annotated, that of a Snapshot is not.
PythonBackupOnly(op, action) ==
  IF op = "SnapshotRecover" THEN <<"panic">>
  ELSE Around(action, IF op = "Backup" THEN Work \o <<"annotate">> ELSE Work)

Python(op, action) ==
  IF op = "SnapshotRecover" THEN <<"panic">>
  ELSE Around(action, IF op \in Measured THEN Work \o <<"annotate">> ELSE Work)

\* Backup does nothing; Fallback stops the chain whatever the action is.
Helm(op, action) ==
  CASE op = "Backup"   -> <<>>
    [] op = "Restore"  -> Around(action, Work)
    [] op = "Fallback" -> Around("StopAndStart", Work)
    [] OTHER           -> <<"panic">>

Program(j) ==
  CASE Method = "cloud-config" -> CloudConfig(OpOf[j], ActionOf[j])
    [] Method = "python"       -> Python(OpOf[j], ActionOf[j])
    [] Method = "helm"         -> Helm(OpOf[j], ActionOf[j])

StepNames == {"stop", "check", "begin", "finish", "annotate", "start", "panic", "log"}

Running(j) == outcome[j] = "running"
NextStep(j) == IF Running(j) /\ steps[j] # <<>> THEN Head(steps[j]) ELSE "none"
Stopping(j) == "stop" \in {Program(j)[i] : i \in DOMAIN Program(j)}

TypeOK ==
  /\ workload \in Workload
  /\ pods \in Pods
  /\ torn \in SUBSET Jobs
  /\ view \in [Jobs -> Workload]
  /\ fresh \in [Jobs -> BOOLEAN]
  /\ steps \in [Jobs -> Seq(StepNames)]
  /\ tries \in [Jobs -> Nat]
  /\ kept \in [Jobs -> Nat]
  /\ outcome \in [Jobs -> {"waiting", "running", "Succeeded", "Failed"}]
  /\ note \in [Jobs -> {"none", "size", "err-log"}]
  /\ faults \in Nat

\* The node runs, its pods may not be ready yet.
Init ==
  /\ workload \in [replicas: {Size}, ready: 0 .. Size]
  /\ pods = [starting |-> Size - workload.ready, ready |-> workload.ready, closing |-> 0]
  /\ torn = {}
  /\ view = [j \in Jobs |-> workload]
  /\ fresh = [j \in Jobs |-> FALSE]
  /\ steps = [j \in Jobs |-> <<>>]
  /\ tries = [j \in Jobs |-> 0]
  /\ kept = [j \in Jobs |-> 0]
  /\ outcome = [j \in Jobs |-> "waiting"]
  /\ note = [j \in Jobs |-> "none"]
  /\ faults = 0
-----------------------------------------------------------------------------
(* The program of a Job.                                                   *)

\* InitK8sClient and the first Get fill the cache.
Begin(j) ==
  /\ outcome[j] = "waiting"
  /\ Cardinality({i \in Jobs : Running(i)}) < AtOnce
  /\ outcome' = [outcome EXCEPT ![j] = "running"]
  /\ steps' = [steps EXCEPT ![j] = Program(j)]
  /\ view' = [view EXCEPT ![j] = workload]
  /\ fresh' = [fresh EXCEPT ![j] = TRUE]
  /\ UNCHANGED <<nodeVars, tries, kept, note, faults>>

Done(j) == steps' = [steps EXCEPT ![j] = Tail(@)]

\* Mutant: a program that stopped the node also starts it when it fails.
FailAndStart(j) ==
  steps' = [steps EXCEPT ![j] = IF Stopping(j) THEN <<"start", "log">> ELSE <<"log">>]

\* The error is returned to AddLogToPodAnnotation; nothing is undone.
Fail(j) == steps' = [steps EXCEPT ![j] = <<"log">>]

\* A new version of the workload: every cached copy is old.
Change(object) ==
  /\ workload' = object
  /\ fresh' = IF object = workload THEN fresh ELSE [j \in Jobs |-> FALSE]

\* Get and Update.  A copy that is not the latest is a conflict: cloud-config tries
\* again with what the cache has then, the others give up.
ScaleTo(j, n) ==
  \/ /\ fresh[j]
     /\ Change([workload EXCEPT !.replicas = n])
     /\ Done(j)
     /\ tries' = [tries EXCEPT ![j] = 0]
  \/ /\ ~fresh[j]
     /\ Method = "cloud-config"
     /\ tries[j] + 1 < Retries
     /\ tries' = [tries EXCEPT ![j] = @ + 1]
     /\ UNCHANGED <<workload, fresh, steps>>
  \/ /\ ~fresh[j]
     /\ Method # "cloud-config" \/ tries[j] + 1 >= Retries
     /\ Fail(j)
     /\ UNCHANGED <<workload, fresh, tries>>

\* Mutant: scales down by one.
StopOne(j) ==
  /\ NextStep(j) = "stop"
  /\ kept' = [kept EXCEPT ![j] = 1]
  /\ ScaleTo(j, workload.replicas - 1)
  /\ UNCHANGED <<pods, torn, view, outcome, note, faults>>

Stop(j) ==
  /\ NextStep(j) = "stop"
  /\ kept' = [kept EXCEPT ![j] = IF Method = "helm" THEN view[j].replicas ELSE 1]
  /\ ScaleTo(j, 0)
  /\ UNCHANGED <<pods, torn, view, outcome, note, faults>>

\* Mutant: looks at the replicas that are wanted, not at those that are ready.
CheckScaled(j) ==
  /\ NextStep(j) = "check"
  /\ view[j].replicas = 0
  /\ Done(j)
  /\ UNCHANGED <<nodeVars, view, fresh, tries, kept, outcome, note, faults>>

\* One poll that finds the node stopped.  Only python looks at the pods, and takes
\* any number of them but one for none.  (The first List fills the cache of the
\* pods; they only go away after it, so a copy that lags shows more of them.)
CheckStopped(j) ==
  /\ NextStep(j) = "check"
  /\ view[j].ready = 0
  /\ Method = "python" => NodePods # 1
  /\ Done(j)
  /\ UNCHANGED <<nodeVars, view, fresh, tries, kept, outcome, note, faults>>

\* Mutant: waits as long as the node has ready pods.
TimeOutWhenDown(j) ==
  /\ NextStep(j) = "check"
  /\ view[j].ready = 0
  /\ Fail(j)
  /\ UNCHANGED <<nodeVars, view, fresh, tries, kept, outcome, note, faults>>

\* Sixty seconds have passed.
TimeOut(j) ==
  /\ NextStep(j) = "check"
  /\ Fail(j)
  /\ UNCHANGED <<nodeVars, view, fresh, tries, kept, outcome, note, faults>>

BeginWork(j) ==
  /\ NextStep(j) = "begin"
  /\ torn' = IF OpOf[j] \in Writing THEN torn \cup {j} ELSE torn
  /\ Done(j)
  /\ UNCHANGED <<workload, pods, view, fresh, tries, kept, outcome, note, faults>>

\* A Restore starts from a clean directory and leaves nothing of earlier failures.
FinishWork(j) ==
  /\ NextStep(j) = "finish"
  /\ torn' = IF OpOf[j] = "Restore" THEN {i \in torn \ {j} : Running(i)} ELSE torn \ {j}
  /\ Done(j)
  /\ UNCHANGED <<workload, pods, view, fresh, tries, kept, outcome, note, faults>>

\* How large the size is does not matter here; a Snapshot whose size could not be found
\* out annotates 0, since Behavior.Snapshot drops the error of calculateSize.
AddAnnotations(j) ==
  /\ NextStep(j) = "annotate"
  /\ note' = [note EXCEPT ![j] = "size"]
  /\ Done(j)
  /\ UNCHANGED <<nodeVars, view, fresh, tries, kept, outcome, faults>>

Start(j) ==
  /\ NextStep(j) = "start"
  /\ ScaleTo(j, kept[j])
  /\ UNCHANGED <<pods, torn, view, kept, outcome, note, faults>>

\* Every step is done: the program exits with 0.
Succeed(j) ==
  /\ Running(j)
  /\ steps[j] = <<>>
  /\ outcome' = [outcome EXCEPT ![j] = "Succeeded"]
  /\ UNCHANGED <<nodeVars, view, fresh, steps, tries, kept, note, faults>>

\* A method that is not implemented.
Panic(j) ==
  /\ NextStep(j) = "panic"
  /\ outcome' = [outcome EXCEPT ![j] = "Failed"]
  /\ steps' = [steps EXCEPT ![j] = <<>>]
  /\ UNCHANGED <<nodeVars, view, fresh, tries, kept, note, faults>>

\* AddLogToPodAnnotation replaces the annotations by the error, and the program exits
\* with 1.
AddLog(j) ==
  /\ NextStep(j) = "log"
  /\ note' = [note EXCEPT ![j] = "err-log"]
  /\ outcome' = [outcome EXCEPT ![j] = "Failed"]
  /\ steps' = [steps EXCEPT ![j] = <<>>]
  /\ UNCHANGED <<nodeVars, view, fresh, tries, kept, faults>>

Step(j) ==
  \/ Stop(j) \/ CheckStopped(j) \/ TimeOut(j) \/ BeginWork(j) \/ FinishWork(j)
  \/ AddAnnotations(j) \/ Start(j) \/ Succeed(j) \/ Panic(j) \/ AddLog(j)

\* The informer of the Job's client catches up.
Refresh(j) ==
  /\ Running(j)
  /\ ~fresh[j]
  /\ view' = [view EXCEPT ![j] = workload]
  /\ fresh' = [fresh EXCEPT ![j] = TRUE]
  /\ UNCHANGED <<nodeVars, steps, tries, kept, outcome, note, faults>>
-----------------------------------------------------------------------------
(* The controller of the workload and the node's pods.                     *)

jobVars == <<view, steps, tries, kept, outcome, note>>

ScaleUp ==
  /\ (IF Method = "python" THEN Live ELSE NodePods) < workload.replicas
  /\ pods' = [pods EXCEPT !.starting = @ + 1]
  /\ UNCHANGED <<workload, torn, fresh, jobVars, faults>>

Close ==
  \/ pods.starting > 0 /\ pods' = [pods EXCEPT !.starting = @ - 1, !.closing = @ + 1]
  \/ pods.ready > 0 /\ pods' = [pods EXCEPT !.ready = @ - 1, !.closing = @ + 1]

ScaleDown ==
  /\ Live > workload.replicas
  /\ Close
  /\ UNCHANGED <<workload, torn, fresh, jobVars, faults>>

BecomeReady ==
  /\ pods.starting > 0
  /\ pods' = [pods EXCEPT !.starting = @ - 1, !.ready = @ + 1]
  /\ UNCHANGED <<workload, torn, fresh, jobVars, faults>>

Gone ==
  /\ pods.closing > 0
  /\ pods' = [pods EXCEPT !.closing = @ - 1]
  /\ UNCHANGED <<workload, torn, fresh, jobVars, faults>>

\* The status of the workload.  A Deployment does not count pods that are being
\* deleted; a StatefulSet may, as long as they are ready.
ReportReady ==
  /\ \E n \in pods.ready .. (pods.ready + IF Method = "python" THEN 0 ELSE pods.closing) :
       Change([workload EXCEPT !.ready = n])
  /\ workload' # workload
  /\ UNCHANGED <<pods, torn, jobVars, faults>>

Cluster == ScaleUp \/ ScaleDown \/ BecomeReady \/ Gone \/ ReportReady
-----------------------------------------------------------------------------
(* Disturbances.                                                           *)

Disturb(d) ==
  /\ d \in Disturbances
  /\ faults < MaxFaults
  /\ faults' = faults + 1

\* A command on the data fails.
FailCommand(j) ==
  /\ Disturb("command")
  /\ NextStep(j) \in {"begin", "finish"}
  /\ Fail(j)
  /\ UNCHANGED <<nodeVars, view, fresh, tries, kept, outcome, note>>

Calls == {"stop", "check", "annotate", "start"}

\* A call to the API server fails, for the annotation also because the pod has
\* changed in the meantime; or a call took effect and its answer is lost, which the
\* failure of the next step covers, and that after the last step.
FailCall(j) ==
  /\ Disturb("call")
  /\ \/ /\ \/ NextStep(j) \in Calls
           \/ /\ Running(j) /\ steps[j] = <<>> /\ Program(j) # <<>>
              /\ Program(j)[Len(Program(j))] \in Calls
        /\ Fail(j)
        /\ UNCHANGED outcome
     \/ /\ NextStep(j) = "log"
        /\ outcome' = [outcome EXCEPT ![j] = "Failed"]
        /\ steps' = [steps EXCEPT ![j] = <<>>]
  /\ UNCHANGED <<nodeVars, view, fresh, tries, kept, note>>

\* The pod of the Job is lost or killed.
Kill(j) ==
  /\ Disturb("kill")
  /\ Running(j)
  /\ outcome' = [outcome EXCEPT ![j] = "Failed"]
  /\ steps' = [steps EXCEPT ![j] = <<>>]
  /\ UNCHANGED <<nodeVars, view, fresh, tries, kept, note>>

\* A pod of the node is deleted or evicted.
Evict ==
  /\ Disturb("evict")
  /\ Close
  /\ UNCHANGED <<workload, torn, fresh, jobVars>>

\* A pod of the node stops being ready but goes on running.
BecomeUnready ==
  /\ Disturb("unready")
  /\ pods.ready > 0
  /\ pods' = [pods EXCEPT !.ready = @ - 1, !.starting = @ + 1]
  /\ UNCHANGED <<workload, torn, fresh, jobVars>>

Next ==
  \/ \E j \in Jobs : Begin(j) \/ Step(j) \/ Refresh(j)
  \/ Cluster
  \/ \E j \in Jobs : FailCommand(j) \/ FailCall(j) \/ Kill(j)
  \/ Evict \/ BecomeUnready

Spec == Init /\ [][Next]_vars

\* The programs, their informers and the cluster keep going.
FairSpec ==
  /\ Spec
  /\ \A j \in Jobs : WF_vars(Step(j)) /\ WF_vars(Refresh(j))
  /\ WF_vars(ScaleUp) /\ WF_vars(ScaleDown) /\ WF_vars(BecomeReady)
  /\ WF_vars(Gone) /\ WF_vars(ReportReady)
-----------------------------------------------------------------------------
(* Properties.                                                             *)

Working(j) == NextStep(j) = "finish"

\* "StopAndStart: shut down the node before backup": no pod of the node exists while
\* the data is copied or changed (Stop and CheckStopped).
NodeIsDown == \A j \in Jobs : Stopping(j) /\ Working(j) => NodePods = 0

\* No program starts the node on data it has itself left half changed: every error
\* on the way, and every lost update, ends a program before its Start.
TornIsNotStarted ==
  [][\A j \in torn : Start(j) => workload'.replicas <= workload.replicas]_vars

\* A size is there for whoever sees the Job succeed: the reconcilers of Backup and
\* Snapshot read it from the pod.
SizeReported ==
  \A j \in Jobs : outcome[j] = "Succeeded" /\ OpOf[j] \in Measured => note[j] = "size"

\* "... and start the node after backup": when a program that stopped the node
\* succeeds, the node has its replicas again, whatever earlier programs did.
StartedAgain ==
  [][\A j \in Jobs : /\ Running(j) /\ outcome'[j] = "Succeeded"
                     /\ Stopping(j)
                     => workload'.replicas = Size]_vars

\* Whatever happens to the node, and also when another program starts it again and
\* again, a program ends (the bounds of CheckStopped and of the retries).
EventuallyEnds ==
  \A j \in Jobs : Running(j) ~> outcome[j] \in {"Succeeded", "Failed"}

\* However the programs interleave, the node is up again and again until one of
\* them fails: the last Start is never lost to the Stop of another program.
EventuallyUp ==
  []<>(pods.ready = Size \/ \E j \in Jobs : outcome[j] = "Failed")
=============================================================================
