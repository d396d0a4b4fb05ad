-------------------------- MODULE Switchover_proofs --------------------------
(***************************************************************************)
(* Proofs about Switchover, for any nodes, accounts and Jobs, any number of *)
(* retries, failed calls, timeouts and killed Jobs: its type; and, when the *)
(* Jobs run one at a time and none after one that was left half-way, that   *)
(* two pods run with one account only while one of them was missed by       *)
(* CheckStopped and is on its way out, and that both accounts are switched  *)
(* or none is (the refinement of AccountSwitch).                           *)
(*                                                                         *)
(* The argument: a Job that has k steps left has k known facts about its    *)
(* two nodes behind it (Progress); two nodes have one account only between  *)
(* the two updates of a Job, and then both are down (SInv): scaled down,    *)
(* and without a pod that no CheckStopped has missed.                      *)
(***************************************************************************)
EXTENDS Switchover, FiniteSetTheorems, TLAPS

-----------------------------------------------------------------------------
(* Types.                                                                  *)

\* The ten steps of a program.
LEMMA SwitchSteps ==
  ASSUME NEW s \in Nodes, NEW d \in Nodes
  PROVE  /\ Switch(s, d) \in Seq(StepNames \X Nodes)
         /\ Len(Switch(s, d)) = 10
         /\ Switch(s, d)[1] = <<"stop", s>>   /\ Switch(s, d)[2] = <<"check", s>>
         /\ Switch(s, d)[3] = <<"stop", d>>   /\ Switch(s, d)[4] = <<"check", d>>
         /\ Switch(s, d)[5] = <<"get", s>>    /\ Switch(s, d)[6] = <<"get", d>>
         /\ Switch(s, d)[7] = <<"update", s>> /\ Switch(s, d)[8] = <<"update", d>>
         /\ Switch(s, d)[9] = <<"start", s>>  /\ Switch(s, d)[10] = <<"start", d>>
  BY DEF Switch, StepNames

\* The fields of a StatefulSet, and of one with a field changed.
LEMMA StatefulSetFields ==
  ASSUME NEW w \in StatefulSet
  PROVE  /\ w.replicas \in {0, 1} /\ w.ready \in {0, 1} /\ w.account \in Accounts
         /\ \A i \in {0, 1} :
              /\ [w EXCEPT !.replicas = i] \in StatefulSet
              /\ [w EXCEPT !.replicas = i].replicas = i
              /\ [w EXCEPT !.replicas = i].ready = w.ready
              /\ [w EXCEPT !.replicas = i].account = w.account
              /\ [w EXCEPT !.ready = i] \in StatefulSet
              /\ [w EXCEPT !.ready = i].replicas = w.replicas
              /\ [w EXCEPT !.ready = i].ready = i
              /\ [w EXCEPT !.ready = i].account = w.account
         /\ \A k \in Accounts :
              /\ [w EXCEPT !.account = k] \in StatefulSet
              /\ [w EXCEPT !.account = k].replicas = w.replicas
              /\ [w EXCEPT !.account = k].ready = w.ready
              /\ [w EXCEPT !.account = k].account = k
<1>1. w.replicas \in {0, 1} /\ w.ready \in {0, 1} /\ w.account \in Accounts
  BY DEF StatefulSet
<1>2. ASSUME NEW i \in {0, 1}
      PROVE   /\ [w EXCEPT !.replicas = i] \in StatefulSet
              /\ [w EXCEPT !.replicas = i].replicas = i
              /\ [w EXCEPT !.replicas = i].ready = w.ready
              /\ [w EXCEPT !.replicas = i].account = w.account
  BY DEF StatefulSet
<1>3. ASSUME NEW i \in {0, 1}
      PROVE   /\ [w EXCEPT !.ready = i] \in StatefulSet
              /\ [w EXCEPT !.ready = i].replicas = w.replicas
              /\ [w EXCEPT !.ready = i].ready = i
              /\ [w EXCEPT !.ready = i].account = w.account
  BY DEF StatefulSet
<1>4. ASSUME NEW k \in Accounts
      PROVE   /\ [w EXCEPT !.account = k] \in StatefulSet
              /\ [w EXCEPT !.account = k].replicas = w.replicas
              /\ [w EXCEPT !.account = k].ready = w.ready
              /\ [w EXCEPT !.account = k].account = k
  BY DEF StatefulSet
<1> QED
  BY <1>1, <1>2, <1>3, <1>4

\* The same for an object that is only known to be one with a field changed.
LEMMA WriteFields ==
  ASSUME NEW w \in StatefulSet, NEW o
  PROVE  /\ \A i \in {0, 1} : o = [w EXCEPT !.replicas = i] =>
              o \in StatefulSet /\ o.replicas = i /\ o.ready = w.ready /\ o.account = w.account
         /\ \A i \in {0, 1} : o = [w EXCEPT !.ready = i] =>
              o \in StatefulSet /\ o.replicas = w.replicas /\ o.ready = i /\ o.account = w.account
         /\ \A k \in Accounts : o = [w EXCEPT !.account = k] =>
              o \in StatefulSet /\ o.replicas = w.replicas /\ o.ready = w.ready /\ o.account = k
<1>1. ASSUME NEW i \in {0, 1}, o = [w EXCEPT !.replicas = i]
      PROVE  o \in StatefulSet /\ o.replicas = i /\ o.ready = w.ready /\ o.account = w.account
  BY <1>1 DEF StatefulSet
<1>2. ASSUME NEW i \in {0, 1}, o = [w EXCEPT !.ready = i]
      PROVE  o \in StatefulSet /\ o.replicas = w.replicas /\ o.ready = i /\ o.account = w.account
  BY <1>2 DEF StatefulSet
<1>3. ASSUME NEW k \in Accounts, o = [w EXCEPT !.account = k]
      PROVE  o \in StatefulSet /\ o.replicas = w.replicas /\ o.ready = w.ready /\ o.account = k
  BY <1>3 DEF StatefulSet
<1> QED
  BY <1>1, <1>2, <1>3

USE NodesAssumption, JobsAssumption, NumbersAssumption

\* A new version of one StatefulSet: the others stay, and no cached copy of it is fresh
\* if it differs.
LEMMA ChangeType ==
  ASSUME TypeOK, NEW n \in Nodes, NEW object \in StatefulSet, Change(n, object)
  PROVE  /\ workload' \in [Nodes -> StatefulSet]
         /\ workload'[n] = object
         /\ \A m \in Nodes \ {n} : workload'[m] = workload[m]
         /\ fresh' \in [Jobs -> SUBSET Nodes]
         /\ \A j \in Jobs : fresh'[j] \subseteq fresh[j]
         /\ workload'[n] # workload[n] => \A j \in Jobs : n \notin fresh'[j]
<1>1. workload' = [workload EXCEPT ![n] = object]
  BY DEF Change
<1>2. \/ fresh' = fresh /\ object = workload[n]
      \/ fresh' = [j \in Jobs |-> fresh[j] \ {n}]
  BY DEF Change
<1> QED
  BY <1>1, <1>2 DEF TypeOK

\* A step taken or a failure leaves a sequence of steps.
LEMMA StepsType ==
  ASSUME TypeOK, NEW j \in Jobs
  PROVE  /\ \A op, n : At(j, op, n) /\ Done(j) => steps' \in [Jobs -> Seq(StepNames \X Nodes)]
         /\ \A n \in Nodes : Fail(j, n) => steps' \in [Jobs -> Seq(StepNames \X Nodes)]
<1>1. steps[j] \in Seq(StepNames \X Nodes)
  BY DEF TypeOK
<1>2. steps[j] # <<>> => Tail(steps[j]) \in Seq(StepNames \X Nodes)
  BY <1>1
<1>3. ASSUME NEW n \in Nodes
      PROVE  << <<"log", n>> >> \in Seq(StepNames \X Nodes)
  <2>1. <<"log", n>> \in StepNames \X Nodes
    BY DEF StepNames
  <2> QED
    BY <2>1
<1>4. steps \in [Jobs -> Seq(StepNames \X Nodes)]
  BY DEF TypeOK
<1>5. ASSUME NEW op, NEW n, At(j, op, n), Done(j)
      PROVE  steps' \in [Jobs -> Seq(StepNames \X Nodes)]
  BY <1>2, <1>4, <1>5 DEF Done, At
<1>6. ASSUME NEW n \in Nodes, Fail(j, n)
      PROVE  steps' \in [Jobs -> Seq(StepNames \X Nodes)]
  BY <1>3, <1>4, <1>6 DEF Fail
<1> QED
  BY <1>5, <1>6

\* A pod, and the same pod later.
LEMMA PodFields ==
  ASSUME NEW p \in Pod
  PROVE  /\ p.account \in Accounts /\ p.missed \in BOOLEAN
         /\ \A x \in {"unready", "ready", "closing"} :
              /\ [p EXCEPT !.phase = x] \in Pod
              /\ [p EXCEPT !.phase = x].account = p.account
              /\ [p EXCEPT !.phase = x].missed = p.missed
         /\ \A x \in BOOLEAN :
              /\ [p EXCEPT !.missed = x] \in Pod
              /\ [p EXCEPT !.missed = x].account = p.account
              /\ [p EXCEPT !.missed = x].missed = x
<1>1. ASSUME NEW x \in {"unready", "ready", "closing"}
      PROVE   /\ [p EXCEPT !.phase = x] \in Pod
              /\ [p EXCEPT !.phase = x].account = p.account
              /\ [p EXCEPT !.phase = x].missed = p.missed
  BY DEF Pod
<1>2. ASSUME NEW x \in BOOLEAN
      PROVE   /\ [p EXCEPT !.missed = x] \in Pod
              /\ [p EXCEPT !.missed = x].account = p.account
              /\ [p EXCEPT !.missed = x].missed = x
  BY DEF Pod
<1>3. p.account \in Accounts /\ p.missed \in BOOLEAN
  BY DEF Pod
<1> QED
  BY <1>1, <1>2, <1>3

\* Every step keeps the types.
LEMMA TypeStep == TypeOK /\ [Next]_vars => TypeOK'
<1> SUFFICES ASSUME TypeOK, [Next]_vars
             PROVE  TypeOK'
  OBVIOUS
<1> USE DEF jobVars
<1>1. ASSUME NEW j \in Jobs, Begin(j)
      PROVE  TypeOK'
  <2>1. Switch(Source[j], Dest[j]) \in Seq(StepNames \X Nodes)
    BY SwitchSteps
  <2> QED
    BY <1>1, <2>1 DEF Begin, TypeOK
<1>2. ASSUME NEW j \in Jobs, NEW op, NEW n \in Nodes, NEW object \in StatefulSet,
             At(j, op, n), Write(j, n, object)
      PROVE  /\ workload' \in [Nodes -> StatefulSet] /\ fresh' \in [Jobs -> SUBSET Nodes]
             /\ steps' \in [Jobs -> Seq(StepNames \X Nodes)]
             /\ tries' \in [Jobs -> 0 .. Retries]
  <2>1. tries' = [tries EXCEPT ![j] = 0] /\ 0 \in 0 .. Retries
    BY <1>2 DEF Write
  <2>2. tries' \in [Jobs -> 0 .. Retries]
    BY <2>1 DEF TypeOK
  <2> QED
    BY <1>2, <2>2, ChangeType, StepsType DEF Write
<1>3. ASSUME NEW j \in Jobs, NEW n \in Nodes, Stop(j, n) \/ Start(j, n)
      PROVE  TypeOK'
  <2>1. /\ \E op : At(j, op, n)
        /\ \E object \in StatefulSet : Write(j, n, object)
        /\ UNCHANGED <<pod, view, got, outcome, half, faults>>
    <3>1. workload[n] \in StatefulSet
      BY DEF TypeOK
    <3> QED
      BY <1>3, <3>1, StatefulSetFields DEF Stop, Start
  <2> QED
    BY <1>2, <2>1 DEF TypeOK
<1>4. ASSUME NEW j \in Jobs, NEW n \in Nodes, UpdateAccountConfigmap(j, n)
      PROVE  TypeOK'
  <2>1. workload[n] \in StatefulSet /\ got[j][Other(j, n)] \in Accounts
    BY DEF TypeOK, Other
  <2>2. /\ At(j, "update", n)
        /\ \E object \in StatefulSet : Write(j, n, object)
        /\ UNCHANGED <<pod, view, got, outcome, faults>>
    BY <1>4, <2>1, StatefulSetFields DEF UpdateAccountConfigmap
  <2>3. half' \in SUBSET Jobs
    BY <1>4 DEF UpdateAccountConfigmap, TypeOK
  <2> QED
    BY <1>2, <2>2, <2>3 DEF TypeOK
<1>5. ASSUME NEW j \in Jobs, NEW n \in Nodes, CheckStopped(j, n)
      PROVE  TypeOK'
  <2> DEFINE set == {[p EXCEPT !.missed = @ \/ view[j][n].ready = 0] : p \in pod[n]}
  <2>1. pod[n] \in SUBSET Pod /\ \A p, q \in pod[n] : p = q
    BY DEF TypeOK
  <2>2. set \in SUBSET Pod /\ \A p, q \in set : p = q
    <3>1. ASSUME NEW p \in pod[n]
          PROVE  [p EXCEPT !.missed = @ \/ view[j][n].ready = 0] \in Pod
      <4>1. p \in Pod /\ (p.missed \/ view[j][n].ready = 0) \in BOOLEAN
        BY <2>1
      <4> QED
        BY <4>1, PodFields
    <3> QED
      BY <2>1, <3>1
  <2>3. pod' = [pod EXCEPT ![n] = set]
    BY <1>5 DEF CheckStopped, Miss
  <2> HIDE DEF set
  <2>4. /\ pod' \in [Nodes -> SUBSET Pod]
        /\ \A m \in Nodes : \A p, q \in pod'[m] : p = q
    BY <2>2, <2>3 DEF TypeOK
  <2> QED
    BY <1>5, <2>4, StepsType DEF CheckStopped, TypeOK
<1>6. ASSUME NEW j \in Jobs, NEW n \in Nodes, TimeOut(j, n)
      PROVE  TypeOK'
  BY <1>6, StepsType DEF TimeOut, TypeOK
<1>7. ASSUME NEW j \in Jobs, NEW n \in Nodes, GetAccountConfigmap(j, n)
      PROVE  TypeOK'
  <2>1. view[j][n].account \in Accounts
    <3>1. view[j][n] \in StatefulSet
      BY DEF TypeOK
    <3> QED
      BY <3>1, StatefulSetFields
  <2>2. got' \in [Jobs -> [Nodes -> Accounts]]
    BY <1>7, <2>1 DEF GetAccountConfigmap, TypeOK
  <2> QED
    BY <1>7, <2>2, StepsType DEF GetAccountConfigmap, TypeOK
<1>8. ASSUME NEW j \in Jobs, Conflict(j)
      PROVE  TypeOK'
  <2>1. PICK n \in Nodes :
          /\ \/ /\ tries[j] + 1 < Retries
                /\ tries' = [tries EXCEPT ![j] = tries[j] + 1]
                /\ UNCHANGED steps
             \/ Fail(j, n) /\ UNCHANGED tries
          /\ UNCHANGED <<workload, pod, view, fresh, got, outcome, half, faults>>
    BY <1>8 DEF Conflict
  <2>2. tries[j] \in 0 .. Retries /\ (tries[j] + 1 < Retries => tries[j] + 1 \in 0 .. Retries)
    BY DEF TypeOK
  <2>3. tries' \in [Jobs -> 0 .. Retries]
    BY <2>1, <2>2 DEF TypeOK
  <2> QED
    BY <2>1, <2>3, StepsType DEF TypeOK
<1>9. ASSUME NEW j \in Jobs, NEW result \in {"Succeeded", "Failed"}, End(j, result),
             faults' \in 0 .. MaxFaults
      PROVE  TypeOK'
  <2>1. FirstObjects \in [Nodes -> StatefulSet] /\ 0 \in 0 .. Retries
    BY DEF FirstObjects, StatefulSet
  <2> QED
    BY <1>9, <2>1 DEF End, TypeOK
<1>10. ASSUME NEW j \in Jobs, Succeed(j) \/ (\E n \in Nodes : AddLog(j, n))
       PROVE  TypeOK'
  BY <1>9, <1>10 DEF Succeed, AddLog, TypeOK
<1>11. ASSUME NEW d, Disturb(d)
       PROVE  faults' \in 0 .. MaxFaults
  BY <1>11 DEF Disturb, TypeOK
<1>12. ASSUME NEW j \in Jobs, FailCall(j)
       PROVE  TypeOK'
  BY <1>11, <1>12, StepsType DEF FailCall, TypeOK
<1>13. ASSUME NEW j \in Jobs, Kill(j)
       PROVE  TypeOK'
  BY <1>9, <1>11, <1>13 DEF Kill
<1>14. ASSUME NEW j \in Jobs, NEW n \in Nodes, Refresh(j, n)
       PROVE  TypeOK'
  BY <1>14 DEF Refresh, TypeOK
<1>15. ASSUME NEW n \in Nodes, NEW set \in SUBSET Pod, pod' = [pod EXCEPT ![n] = set],
              \A p, q \in set : p = q
       PROVE  /\ pod' \in [Nodes -> SUBSET Pod]
              /\ \A m \in Nodes : \A p, q \in pod'[m] : p = q
  BY <1>15 DEF TypeOK
<1>16. ASSUME NEW n \in Nodes, CreatePod(n) \/ Gone(n)
       PROVE  TypeOK'
  <2>1. workload[n] \in StatefulSet /\ NewPod(n) \in Pod
    BY StatefulSetFields DEF TypeOK, NewPod, Pod
  <2>2. \E set \in SUBSET Pod : pod' = [pod EXCEPT ![n] = set] /\ \A p, q \in set : p = q
    <3>1. CASE CreatePod(n)
      <4>1. {NewPod(n)} \in SUBSET Pod /\ \A p, q \in {NewPod(n)} : p = q
        BY <2>1
      <4> QED
        BY <3>1, <4>1 DEF CreatePod
    <3>2. CASE Gone(n)
      <4>1. {} \in SUBSET Pod /\ pod' = [pod EXCEPT ![n] = {}]
        BY <3>2 DEF Gone
      <4> QED
        BY <4>1
    <3> QED
      BY <1>16, <3>1, <3>2
  <2> QED
    BY <1>15, <1>16, <2>2 DEF CreatePod, Gone, TypeOK
<1>17. ASSUME NEW n \in Nodes, NEW from, NEW to \in {"unready", "ready", "closing"},
              Turn(n, from, to)
       PROVE  /\ pod' \in [Nodes -> SUBSET Pod]
              /\ \A m \in Nodes : \A p, q \in pod'[m] : p = q
  <2> DEFINE set == {[p EXCEPT !.phase = to] : p \in pod[n]}
  <2>1. pod[n] \in SUBSET Pod /\ \A p, q \in pod[n] : p = q
    BY DEF TypeOK
  <2>2. set \in SUBSET Pod /\ \A p, q \in set : p = q
    <3>1. ASSUME NEW p \in pod[n]
          PROVE  [p EXCEPT !.phase = to] \in Pod
      <4>1. p \in Pod
        BY <2>1
      <4> QED
        BY <4>1, PodFields
    <3> QED
      BY <2>1, <3>1
  <2>3. pod' = [pod EXCEPT ![n] = set]
    BY <1>17 DEF Turn
  <2> HIDE DEF set
  <2> QED
    BY <1>15, <2>2, <2>3
<1>18. ASSUME NEW n \in Nodes, BecomeReady(n) \/ ClosePod(n) \/ BecomeUnready(n)
       PROVE  TypeOK'
  <2>1. faults' \in 0 .. MaxFaults
    BY <1>11, <1>18 DEF BecomeReady, ClosePod, BecomeUnready, TypeOK
  <2>2. PICK from, to : to \in {"unready", "ready", "closing"} /\ Turn(n, from, to)
    BY <1>18 DEF BecomeReady, ClosePod, BecomeUnready
  <2>3. /\ pod' \in [Nodes -> SUBSET Pod]
        /\ \A m \in Nodes : \A p, q \in pod'[m] : p = q
    BY <1>17, <2>2
  <2>4. UNCHANGED <<workload, fresh, view, steps, tries, got, outcome, half>>
    BY <2>2 DEF Turn
  <2> QED
    BY <2>1, <2>3, <2>4 DEF TypeOK
<1>19. ASSUME NEW n \in Nodes, ReportReady(n)
       PROVE  TypeOK'
  <2>1. [workload[n] EXCEPT !.ready = Count(n)] \in StatefulSet
    <3>1. workload[n] \in StatefulSet /\ Count(n) \in {0, 1}
      BY DEF TypeOK, Count
    <3> QED
      BY <3>1, StatefulSetFields
  <2> QED
    BY <1>19, <2>1, ChangeType DEF ReportReady, TypeOK
<1>20. CASE UNCHANGED vars
  BY <1>20 DEF vars, TypeOK
<1> QED
  BY <1>1, <1>3, <1>4, <1>5, <1>6, <1>7, <1>8, <1>10, <1>12, <1>13, <1>14, <1>16,
     <1>18, <1>19, <1>20 DEF Next, Step, Cluster

\* The types hold initially.
LEMMA TypeInit == Init => TypeOK
<1> SUFFICES ASSUME Init
             PROVE  TypeOK
  OBVIOUS
<1>1. FirstObjects \in [Nodes -> StatefulSet]
  BY DEF FirstObjects, StatefulSet
<1>2. /\ pod \in [Nodes -> SUBSET Pod]
      /\ \A n \in Nodes : \A p, q \in pod[n] : p = q
  <2>1. \A n \in Nodes : [account |-> AccountOf[n], phase |-> "ready", missed |-> FALSE] \in Pod
    BY DEF Pod
  <2>2. pod = [n \in Nodes |->
                {[account |-> AccountOf[n], phase |-> "ready", missed |-> FALSE]}]
    BY DEF Init
  <2> QED
    BY <2>1, <2>2
<1> QED
  BY <1>1, <1>2 DEF Init, TypeOK

\* The type invariant: a node has at most one pod, and the copies, steps and attempts of
\* the Jobs stay within their types, whatever fails.
THEOREM TypeCorrect == Spec => []TypeOK
  BY TypeInit, TypeStep, PTL DEF Spec

\* Only one Job at a time, and none after one that failed half-way.
OneAtATime == AtOnce = 1 /\ IsFiniteSet(Jobs) /\ RunAgain = FALSE

-----------------------------------------------------------------------------
(* How far a Job is, and the invariant.                                    *)

\* The program of j.
Plan(j) == Switch(Source[j], Dest[j])

\* j has the last k steps of its program still to do.
Left(j, k) ==
  /\ Len(steps[j]) = k
  /\ \A i \in 1 .. k : steps[j][i] = Plan(j)[10 - k + i]

\* j has failed and is about to say so.
Logging(j) == \E n \in Nodes : steps[j] = << <<"log", n>> >>

\* n is scaled down.
Stopped(n) == workload[n].replicas = 0

\* Every pod of n has been missed by a CheckStopped.
AllMissed(n) == \A p \in pod[n] : p.missed

\* n is scaled down, and if it has a pod, a CheckStopped has missed it.
Down(n) == Stopped(n) /\ AllMissed(n)

\* A pod that was not missed runs with the account of its StatefulSet.
OwnPods(n) == \A p \in pod[n] : p.missed \/ p.account = workload[n].account

\* The pods go on, or are gone.
PodsKept ==
  \A n \in Nodes : \A q \in pod'[n] :
    \E p \in pod[n] : q.account = p.account /\ (p.missed => q.missed)

\* What the steps that j has taken have done.
Progress(j, k) ==
  LET s == Source[j]
      d == Dest[j]
  IN  /\ k \in 2 .. 9 => Stopped(s)
      /\ k \in 2 .. 8 => Down(s)
      /\ k \in 1 .. 7 => Stopped(d)
      /\ k \in 1 .. 6 => Down(d)
      /\ k \in 4 .. 10 => \A n \in {s, d} : view[j][n].account = workload[n].account
      /\ k \in 4 .. 5 => got[j][s] = workload[s].account
      /\ k = 4 => got[j][d] = workload[d].account
      /\ k = 3 => /\ workload[s].account = got[j][d]
                  /\ workload[d].account = got[j][d]
                  /\ \A n \in Nodes : workload[n].account # got[j][s]
      /\ j \in half <=> k = 3

\* At most one Job runs, and while it does no other is half-way.
Solo == \A i, j \in Jobs : Running(i) /\ (Running(j) \/ j \in half) => i = j

\* Two nodes have one account only half-way through a switchover.
OneAccount ==
  \A m, n \in Nodes : m # n /\ workload[m].account = workload[n].account =>
    \E j \in half : m \in {Source[j], Dest[j]} /\ n \in {Source[j], Dest[j]}

\* The inductive invariant.
SInv ==
  /\ Solo
  /\ \A i, j \in half : i = j
  /\ \A j \in half : Down(Source[j]) /\ Down(Dest[j])
  /\ OneAccount
  /\ \A n \in Nodes : OwnPods(n)
  /\ \A j \in Jobs : Running(j) =>
       /\ \A n \in fresh[j] : view[j][n] = workload[n]
       /\ Logging(j) \/ \E k \in 0 .. 10 : Left(j, k) /\ Progress(j, k)

\* The invariant says what is to be shown: nodes with one account are both down, and
\* have no pod that was not missed, nor one that is wanted.
LEMMA SafeNow == SInv => OneSigner
<1> SUFFICES ASSUME SInv, NEW m \in Nodes, NEW n \in Nodes, m # n,
                    NEW p \in pod[m], NEW q \in pod[n], p.account = q.account,
                    ~(p.missed /\ ~Wanted(m, p)), ~(q.missed /\ ~Wanted(n, q))
             PROVE  FALSE
  BY DEF OneSigner
<1>1. /\ p.account = workload[m].account /\ (p.missed => workload[m].replicas = 1)
      /\ q.account = workload[n].account /\ (q.missed => workload[n].replicas = 1)
  <2>1. OwnPods(m) /\ OwnPods(n)
    BY DEF SInv
  <2> QED
    BY <2>1 DEF OwnPods, Wanted
<1>2. OneAccount /\ \A j \in half : Down(Source[j]) /\ Down(Dest[j])
  BY DEF SInv
<1>3. PICK j \in half : m \in {Source[j], Dest[j]} /\ n \in {Source[j], Dest[j]}
  <2>1. m # n /\ workload[m].account = workload[n].account
    BY <1>1
  <2> QED
    BY <1>2, <2>1 DEF OneAccount
<1>4. workload[m].replicas = 0 /\ p.missed
  BY <1>2, <1>3 DEF Down, Stopped, AllMissed
<1> QED
  BY <1>1, <1>4

-----------------------------------------------------------------------------
(* The steps of the programs.                                              *)

\* The next step of a Job with k steps left, and what is left after it.
LEMMA LeftSteps ==
  ASSUME TypeOK, NEW j \in Jobs, NEW k \in 0 .. 10, Left(j, k), NEW op, NEW n, At(j, op, n)
  PROVE  /\ k \in 1 .. 10
         /\ Left(j, k)
         /\ <<op, n>> = Plan(j)[11 - k]
         /\ Done(j) => Left(j, k - 1)'
<1>1. steps[j] \in Seq(StepNames \X Nodes) /\ steps[j] # <<>> /\ Head(steps[j]) = <<op, n>>
  BY DEF TypeOK, At
<1>2. k \in 1 .. 10
  BY <1>1 DEF Left
<1>3. <<op, n>> = Plan(j)[11 - k]
  <2>1. steps[j][1] = Plan(j)[10 - k + 1] /\ 10 - k + 1 = 11 - k
    BY <1>2 DEF Left
  <2> QED
    BY <1>1, <2>1
<1>4. ASSUME Done(j)
      PROVE  Left(j, k - 1)'
  <2>1. steps'[j] = Tail(steps[j])
    BY <1>4 DEF Done, TypeOK
  <2>2. /\ Len(steps'[j]) = k - 1
        /\ \A i \in 1 .. k - 1 : steps'[j][i] = steps[j][i + 1]
    BY <1>1, <1>2, <2>1 DEF Left
  <2>3. ASSUME NEW i \in 1 .. k - 1
        PROVE  steps'[j][i] = Plan(j)[10 - (k - 1) + i]
    <3>1. i + 1 \in 1 .. k /\ 10 - k + (i + 1) = 10 - (k - 1) + i
      BY <1>2
    <3>2. steps[j][i + 1] = Plan(j)[10 - k + (i + 1)]
      BY <3>1 DEF Left
    <3> QED
      BY <2>2, <3>1, <3>2
  <2> QED
    BY <2>2, <2>3 DEF Left, Plan, Switch
<1> QED
  BY <1>2, <1>3, <1>4

\* The ten steps of the program of j.
LEMMA PlanSteps ==
  ASSUME NEW j \in Jobs, NEW s, NEW d, s = Source[j], d = Dest[j]
  PROVE  /\ s \in Nodes /\ d \in Nodes /\ s # d
         /\ Len(Plan(j)) = 10 /\ Plan(j) \in Seq(StepNames \X Nodes)
         /\ Plan(j)[1] = <<"stop", s>>   /\ Plan(j)[2] = <<"check", s>>
         /\ Plan(j)[3] = <<"stop", d>>   /\ Plan(j)[4] = <<"check", d>>
         /\ Plan(j)[5] = <<"get", s>>    /\ Plan(j)[6] = <<"get", d>>
         /\ Plan(j)[7] = <<"update", s>> /\ Plan(j)[8] = <<"update", d>>
         /\ Plan(j)[9] = <<"start", s>>  /\ Plan(j)[10] = <<"start", d>>
<1>1. s \in Nodes /\ d \in Nodes /\ s # d
  OBVIOUS
<1>2. Plan(j) = Switch(s, d)
  BY DEF Plan
<1>3. Len(Plan(j)) = 10 /\ Plan(j) \in Seq(StepNames \X Nodes)
  BY <1>1, <1>2, SwitchSteps
<1>4. /\ Plan(j)[1] = <<"stop", s>>   /\ Plan(j)[2] = <<"check", s>>
      /\ Plan(j)[3] = <<"stop", d>>   /\ Plan(j)[4] = <<"check", d>>
      /\ Plan(j)[5] = <<"get", s>>    /\ Plan(j)[6] = <<"get", d>>
      /\ Plan(j)[7] = <<"update", s>> /\ Plan(j)[8] = <<"update", d>>
      /\ Plan(j)[9] = <<"start", s>>  /\ Plan(j)[10] = <<"start", d>>
  BY DEF Plan, Switch
<1> QED
  BY <1>1, <1>3, <1>4

\* How many steps are left when an operation is next.
LEMMA StepAt ==
  ASSUME NEW j \in Jobs, NEW s, NEW d, s = Source[j], d = Dest[j],
         NEW k \in 1 .. 10, NEW op, NEW n, <<op, n>> = Plan(j)[11 - k]
  PROVE  /\ op = "stop"   => (k = 10 /\ n = s) \/ (k = 8 /\ n = d)
         /\ op = "check"  => (k = 9 /\ n = s) \/ (k = 7 /\ n = d)
         /\ op = "get"    => (k = 6 /\ n = s) \/ (k = 5 /\ n = d)
         /\ op = "update" => (k = 4 /\ n = s) \/ (k = 3 /\ n = d)
         /\ op = "start"  => (k = 2 /\ n = s) \/ (k = 1 /\ n = d)
         /\ op # "log"
<1> DEFINE p == Plan(j)
<1>1. /\ p[1] = <<"stop", s>>   /\ p[2] = <<"check", s>>
      /\ p[3] = <<"stop", d>>   /\ p[4] = <<"check", d>>
      /\ p[5] = <<"get", s>>    /\ p[6] = <<"get", d>>
      /\ p[7] = <<"update", s>> /\ p[8] = <<"update", d>>
      /\ p[9] = <<"start", s>>  /\ p[10] = <<"start", d>>
  BY SMTT(30), PlanSteps
<1>2. <<op, n>> = p[11 - k]
  OBVIOUS
<1> HIDE DEF p
<1>3. \/ k = 1 \/ k = 2 \/ k = 3 \/ k = 4 \/ k = 5
      \/ k = 6 \/ k = 7 \/ k = 8 \/ k = 9 \/ k = 10
  OBVIOUS
<1> QED
  BY <1>1, <1>2, <1>3

\* The invariant, seen by a Job that runs.
LEMMA OnlyRuns ==
  ASSUME TypeOK, SInv, NEW j \in Jobs, Running(j)
  PROVE  /\ half \subseteq {j}
         /\ \A i \in Jobs : Running(i) => i = j
         /\ \A n \in fresh[j] : view[j][n] = workload[n]
         /\ Logging(j) \/ \E k \in 0 .. 10 : Left(j, k) /\ Progress(j, k)
         /\ OneAccount
  BY DEF SInv, Solo, TypeOK

\* A step that leaves the pods as they are keeps them.
LEMMA SamePods == pod' = pod => PodsKept
  BY DEF PodsKept

\* What a step of a Job has to show.
LEMMA JobKeeps ==
  ASSUME TypeOK, SInv, NEW j \in Jobs, Running(j), outcome' = outcome, PodsKept,
         \A n \in fresh'[j] : view'[j][n] = workload'[n],
         Logging(j)' \/ \E k \in 0 .. 10 : Left(j, k)' /\ Progress(j, k)',
         half' \subseteq {j},
         \A i \in half' : Down(Source[i])' /\ Down(Dest[i])',
         OneAccount',
         \A n \in Nodes : workload'[n].account = workload[n].account \/ Down(n)
  PROVE  SInv'
<1>1. \A i \in Jobs : Running(i)' => i = j
  BY OnlyRuns DEF Running
<1>2. Solo'
  BY <1>1 DEF Solo, Running
<1>3. \A i, k \in half' : i = k
  OBVIOUS
<1>4. ASSUME NEW n \in Nodes
      PROVE  OwnPods(n)'
  <2>1. OwnPods(n) /\ (workload'[n].account = workload[n].account \/ AllMissed(n))
    BY DEF SInv, Down
  <2> QED
    BY <2>1 DEF PodsKept, OwnPods, AllMissed
<1>5. \A i \in Jobs : Running(i)' =>
        /\ \A n \in fresh'[i] : view'[i][n] = workload'[n]
        /\ Logging(i)' \/ \E k \in 0 .. 10 : Left(i, k)' /\ Progress(i, k)'
  BY <1>1
<1> QED
  BY <1>2, <1>3, <1>4, <1>5 DEF SInv

\* A write that is no conflict was made from the latest version.
LEMMA WriteFacts ==
  ASSUME TypeOK, SInv, NEW j \in Jobs, Running(j), NEW n \in Nodes,
         NEW object \in StatefulSet, Write(j, n, object), view' = view
  PROVE  /\ view[j][n] = workload[n] /\ Done(j)
         /\ workload'[n] = object
         /\ \A m \in Nodes \ {n} : workload'[m] = workload[m]
         /\ \A m \in fresh'[j] : view'[j][m] = workload'[m]
<1>1. n \in fresh[j] /\ Change(n, object) /\ Done(j)
  BY DEF Write
<1>2. \A m \in fresh[j] : view[j][m] = workload[m]
  BY OnlyRuns
<1>3. /\ workload'[n] = object
      /\ \A m \in Nodes \ {n} : workload'[m] = workload[m]
      /\ fresh'[j] \subseteq fresh[j] /\ fresh[j] \subseteq Nodes
      /\ workload'[n] # workload[n] => n \notin fresh'[j]
  BY <1>1, ChangeType DEF TypeOK
<1> QED
  BY <1>1, <1>2, <1>3

\* Where in its program a Job is that takes a step other than the log.
LEMMA Placed ==
  ASSUME TypeOK, SInv, NEW j \in Jobs, Running(j), NEW op, NEW n, At(j, op, n), op # "log"
  PROVE  \E k \in 1 .. 10 : /\ Progress(j, k)
                            /\ <<op, n>> = Plan(j)[11 - k]
                            /\ Done(j) => Left(j, k - 1)'
<1>1. ~ Logging(j)
  <2>1. SUFFICES ASSUME NEW m \in Nodes, steps[j] = << <<"log", m>> >>
                 PROVE  FALSE
    BY DEF Logging
  <2>2. Head(steps[j]) = <<"log", m>> /\ Head(steps[j]) = <<op, n>>
    BY <2>1 DEF At
  <2> QED
    BY <2>2
<1>2. PICK k \in 0 .. 10 : Left(j, k) /\ Progress(j, k)
  BY <1>1, OnlyRuns
<1>3. /\ k \in 1 .. 10
      /\ <<op, n>> = Plan(j)[11 - k]
      /\ Done(j) => Left(j, k - 1)'
  BY <1>2, LeftSteps
<1> QED
  BY <1>2, <1>3

-----------------------------------------------------------------------------
(* Every step keeps the invariant.                                         *)

\* A failure, at whatever step.
LEMMA FailKeeps ==
  ASSUME TypeOK, SInv, NEW j \in Jobs, Running(j), NEW n \in Nodes, Fail(j, n),
         UNCHANGED <<workload, pod, view, fresh, outcome, half>>
  PROVE  SInv'
<1>1. Logging(j)'
  BY DEF Fail, Logging, TypeOK
<1>2. \A m \in fresh'[j] : view'[j][m] = workload'[m]
  BY OnlyRuns
<1>3. half' \subseteq {j} /\ OneAccount'
  <2>1. half \subseteq {j} /\ OneAccount
    BY OnlyRuns
  <2> QED
    BY <2>1 DEF OneAccount
<1>4. \A i \in half' : Down(Source[i])' /\ Down(Dest[i])'
  BY DEF SInv, Down, Stopped, AllMissed
<1> QED
  BY <1>1, <1>2, <1>3, <1>4, SamePods, JobKeeps

\* Writing the replicas of one node: Stop and Start.
LEMMA ScaleKeeps ==
  ASSUME TypeOK, SInv, NEW j \in Jobs, Running(j), NEW n \in Nodes, NEW i \in {0, 1},
         (At(j, "stop", n) /\ i = 0) \/ (At(j, "start", n) /\ i = 1),
         Write(j, n, [workload[n] EXCEPT !.replicas = i]),
         UNCHANGED <<pod, view, got, outcome, half>>
  PROVE  SInv'
<1> DEFINE s == Source[j]
           d == Dest[j]
<1>1. /\ view[j][n] = workload[n] /\ Done(j)
      /\ workload'[n].replicas = i
      /\ \A m \in Nodes \ {n} : workload'[m].replicas = workload[m].replicas
      /\ \A m \in Nodes : workload'[m].account = workload[m].account
      /\ \A m \in fresh'[j] : view'[j][m] = workload'[m]
  <2> DEFINE object == [workload[n] EXCEPT !.replicas = i]
  <2>1. object \in StatefulSet /\ object.replicas = i /\ object.account = workload[n].account
    <3>1. workload[n] \in StatefulSet
      BY DEF TypeOK
    <3> QED
      BY <3>1, WriteFields
  <2>2. Write(j, n, object)
    OBVIOUS
  <2> HIDE DEF object
  <2>3. /\ view[j][n] = workload[n] /\ Done(j)
        /\ workload'[n] = object
        /\ \A m \in Nodes \ {n} : workload'[m] = workload[m]
        /\ \A m \in fresh'[j] : view'[j][m] = workload'[m]
    <3>1. view' = view
      OBVIOUS
    <3> QED
      BY <2>1, <2>2, <3>1, WriteFacts
  <2>4. \A m \in Nodes : workload'[m].account = workload[m].account
    BY <2>1, <2>3
  <2> QED
    BY <2>1, <2>3, <2>4
<1>2. PICK k \in 1 .. 10 :
        /\ Progress(j, k)
        /\ \/ <<"stop", n>> = Plan(j)[11 - k] /\ i = 0
           \/ <<"start", n>> = Plan(j)[11 - k] /\ i = 1
        /\ Left(j, k - 1)'
  <2>1. CASE At(j, "stop", n) /\ i = 0
    BY <1>1, <2>1, Placed
  <2>2. CASE At(j, "start", n) /\ i = 1
    BY <1>1, <2>2, Placed
  <2> QED
    BY <2>1, <2>2
<1>3. /\ s \in Nodes /\ d \in Nodes /\ s # d
      /\ \/ i = 0 /\ k = 10 /\ n = s
         \/ i = 0 /\ k = 8 /\ n = d
         \/ i = 1 /\ k = 2 /\ n = s
         \/ i = 1 /\ k = 1 /\ n = d
  <2>1. s \in Nodes /\ d \in Nodes /\ s # d
    BY PlanSteps
  <2>2. CASE <<"stop", n>> = Plan(j)[11 - k] /\ i = 0
    <3>1. (k = 10 /\ n = s) \/ (k = 8 /\ n = d)
      BY <2>2, StepAt
    <3> QED
      BY <2>1, <2>2, <3>1
  <2>3. CASE <<"start", n>> = Plan(j)[11 - k] /\ i = 1
    <3>1. (k = 2 /\ n = s) \/ (k = 1 /\ n = d)
      BY <2>3, StepAt
    <3> QED
      BY <2>1, <2>3, <3>1
  <2> QED
    BY <1>2, <2>2, <2>3
<1>4. half = {}
  <2>1. j \notin half
    BY <1>2, <1>3 DEF Progress
  <2> QED
    BY <2>1, OnlyRuns
<1>5. \A m \in Nodes : AllMissed(m)' <=> AllMissed(m)
  BY DEF AllMissed
<1>6. Progress(j, k - 1)'
  <2>1. CASE k = 10
    BY <1>1, <1>2, <1>3, <1>4, <1>5, <2>1 DEF Progress, Stopped, Down
  <2>2. CASE k = 8
    BY <1>1, <1>2, <1>3, <1>4, <1>5, <2>2 DEF Progress, Stopped, Down
  <2>3. CASE k = 2
    BY <1>1, <1>2, <1>3, <1>4, <1>5, <2>3 DEF Progress, Stopped, Down
  <2>4. CASE k = 1
    BY <1>1, <1>2, <1>3, <1>4, <1>5, <2>4 DEF Progress, Stopped, Down
  <2> QED
    BY <1>3, <2>1, <2>2, <2>3, <2>4
<1>7. OneAccount'
  <2>1. OneAccount
    BY OnlyRuns
  <2> QED
    BY <1>1, <2>1 DEF OneAccount
<1>8. k - 1 \in 0 .. 10
  OBVIOUS
<1> QED
  BY <1>1, <1>2, <1>4, <1>6, <1>7, <1>8, SamePods, JobKeeps

\* A poll that finds no ready replica: a pod that is there all the same is missed.
LEMMA CheckMisses ==
  ASSUME TypeOK, NEW j \in Jobs, NEW n \in Nodes, CheckStopped(j, n)
  PROVE  PodsKept /\ AllMissed(n)' /\ \A m \in Nodes : AllMissed(m) => AllMissed(m)'
<1>1. pod' = [pod EXCEPT ![n] = {[p EXCEPT !.missed = @ \/ view[j][n].ready = 0] : p \in @}]
  BY DEF CheckStopped, Miss
<1>2. view[j][n].ready = 0
  BY DEF CheckStopped
<1>3. \A m \in Nodes \ {n} : pod'[m] = pod[m]
  BY <1>1 DEF TypeOK
<1>4. ASSUME NEW q \in pod'[n]
      PROVE  q.missed /\ \E p \in pod[n] : q.account = p.account
  <2>1. pod'[n] = {[p EXCEPT !.missed = @ \/ view[j][n].ready = 0] : p \in pod[n]}
    BY <1>1 DEF TypeOK
  <2>2. PICK p \in pod[n] : q = [p EXCEPT !.missed = @ \/ view[j][n].ready = 0]
    BY <2>1
  <2>3. p \in Pod
    BY DEF TypeOK
  <2>4. q.account = p.account /\ q.missed = (p.missed \/ view[j][n].ready = 0)
    BY <2>2, <2>3 DEF Pod
  <2> QED
    BY <1>2, <2>4
<1> QED
  BY <1>3, <1>4 DEF PodsKept, AllMissed

\* Reading: a poll that finds no ready replica, or the account of a node.
LEMMA ReadKeeps ==
  ASSUME TypeOK, SInv, NEW j \in Jobs, NEW n \in Nodes,
         CheckStopped(j, n) \/ GetAccountConfigmap(j, n)
  PROVE  SInv'
<1> DEFINE s == Source[j]
           d == Dest[j]
<1>1. Running(j) /\ Done(j) /\ UNCHANGED <<workload, view, fresh, outcome, half>>
  BY DEF CheckStopped, GetAccountConfigmap, At
<1>2. \A m \in fresh'[j] : view'[j][m] = workload'[m]
  BY <1>1, OnlyRuns
<1>3. half' \subseteq {j} /\ OneAccount'
  <2>1. half \subseteq {j} /\ OneAccount
    BY <1>1, OnlyRuns
  <2> QED
    BY <1>1, <2>1 DEF OneAccount
<1>4. PodsKept /\ \A m \in Nodes : Down(m) => Down(m)'
  <2>1. PodsKept /\ \A m \in Nodes : AllMissed(m) => AllMissed(m)'
    <3>1. CASE GetAccountConfigmap(j, n)
      BY <3>1, SamePods DEF GetAccountConfigmap, AllMissed
    <3> QED
      BY <3>1, CheckMisses
  <2> QED
    BY <1>1, <2>1 DEF Down, Stopped
<1>5. \A i \in half' : Down(Source[i])' /\ Down(Dest[i])'
  <2>1. \A i \in half : i \in Jobs /\ Down(Source[i]) /\ Down(Dest[i])
    BY DEF SInv, TypeOK
  <2> QED
    BY <1>1, <1>4, <2>1
<1>6. CASE CheckStopped(j, n)
  <2>1. At(j, "check", n) /\ AllMissed(n)' /\ got' = got
    BY <1>6, CheckMisses DEF CheckStopped
  <2>2. PICK k \in 1 .. 10 :
          /\ Progress(j, k)
          /\ <<"check", n>> = Plan(j)[11 - k]
          /\ Left(j, k - 1)'
    BY <1>1, <2>1, Placed
  <2>3. /\ s \in Nodes /\ d \in Nodes /\ s # d
        /\ (k = 9 /\ n = s) \/ (k = 7 /\ n = d)
    <3>1. s \in Nodes /\ d \in Nodes /\ s # d
      BY PlanSteps
    <3>2. (k = 9 /\ n = s) \/ (k = 7 /\ n = d)
      BY <2>2, StepAt
    <3> QED
      BY <3>1, <3>2
  <2>4. Progress(j, k - 1)'
    <3>1. CASE k = 9
      BY <1>1, <1>4, <2>1, <2>2, <2>3, <3>1 DEF Progress, Stopped, Down
    <3>2. CASE k = 7
      BY <1>1, <1>4, <2>1, <2>2, <2>3, <3>2 DEF Progress, Stopped, Down
    <3> QED
      BY <2>3, <3>1, <3>2
  <2>5. k - 1 \in 0 .. 10
    OBVIOUS
  <2> QED
    BY <1>1, <1>2, <1>3, <1>5, <1>4, <2>2, <2>4, <2>5, JobKeeps
<1>7. CASE GetAccountConfigmap(j, n)
  <2>1. /\ At(j, "get", n)
        /\ got'[j][n] = view[j][n].account
        /\ \A m \in Nodes \ {n} : got'[j][m] = got[j][m]
    BY <1>7 DEF GetAccountConfigmap, TypeOK
  <2>2. PICK k \in 1 .. 10 :
          /\ Progress(j, k)
          /\ <<"get", n>> = Plan(j)[11 - k]
          /\ Left(j, k - 1)'
    BY <1>1, <2>1, Placed
  <2>3. /\ s \in Nodes /\ d \in Nodes /\ s # d
        /\ (k = 6 /\ n = s) \/ (k = 5 /\ n = d)
    <3>1. s \in Nodes /\ d \in Nodes /\ s # d
      BY PlanSteps
    <3>2. (k = 6 /\ n = s) \/ (k = 5 /\ n = d)
      BY <2>2, StepAt
    <3> QED
      BY <3>1, <3>2
  <2>4. Progress(j, k - 1)'
    <3>1. CASE k = 6
      BY <1>1, <1>4, <2>1, <2>2, <2>3, <3>1 DEF Progress, Stopped
    <3>2. CASE k = 5
      BY <1>1, <1>4, <2>1, <2>2, <2>3, <3>2 DEF Progress, Stopped
    <3> QED
      BY <2>3, <3>1, <3>2
  <2>5. k - 1 \in 0 .. 10
    OBVIOUS
  <2> QED
    BY <1>1, <1>2, <1>3, <1>5, <1>4, <2>2, <2>4, <2>5, JobKeeps
<1> QED
  BY <1>6, <1>7

\* The two updates: after the first, the two nodes have one account and both are down;
\* the second gives the other node the account that nobody has had in between.
LEMMA UpdateKeeps ==
  ASSUME TypeOK, SInv, NEW j \in Jobs, NEW n \in Nodes, UpdateAccountConfigmap(j, n)
  PROVE  SInv'
<1> DEFINE s == Source[j]
           d == Dest[j]
           object == [workload[n] EXCEPT !.account = got[j][Other(j, n)]]
<1>1. /\ Running(j) /\ At(j, "update", n) /\ Write(j, n, object)
      /\ half' = IF n = s THEN half \cup {j} ELSE half \ {j}
      /\ UNCHANGED <<pod, view, got, outcome>>
  BY DEF UpdateAccountConfigmap, At
<1>2. /\ object \in StatefulSet /\ object.account = got[j][Other(j, n)]
      /\ object.replicas = workload[n].replicas
  <2>1. workload[n] \in StatefulSet /\ got[j][Other(j, n)] \in Accounts
    BY DEF TypeOK, Other
  <2> QED
    BY <2>1, WriteFields
<1> HIDE DEF object
<1>3. /\ Done(j)
      /\ workload'[n].account = got[j][Other(j, n)]
      /\ \A m \in Nodes \ {n} : workload'[m].account = workload[m].account
      /\ \A m \in Nodes : workload'[m].replicas = workload[m].replicas
      /\ \A m \in fresh'[j] : view'[j][m] = workload'[m]
  BY <1>1, <1>2, WriteFacts
<1>4. PICK k \in 1 .. 10 :
        /\ Progress(j, k)
        /\ <<"update", n>> = Plan(j)[11 - k]
        /\ Left(j, k - 1)'
  BY <1>1, <1>3, Placed
<1>5. /\ s \in Nodes /\ d \in Nodes /\ s # d
      /\ (k = 4 /\ n = s) \/ (k = 3 /\ n = d)
  <2>1. s \in Nodes /\ d \in Nodes /\ s # d
    BY PlanSteps
  <2>2. (k = 4 /\ n = s) \/ (k = 3 /\ n = d)
    BY <1>4, StepAt
  <2> QED
    BY <2>1, <2>2
<1>6. half \subseteq {j} /\ OneAccount
  BY <1>1, OnlyRuns
<1>7. Down(s) /\ Down(d)
  BY <1>4, <1>5 DEF Progress
<1>8. Down(s)' /\ Down(d)'
  BY <1>1, <1>3, <1>5, <1>7 DEF Down, Stopped, AllMissed
<1>9. ASSUME k = 4
      PROVE  Progress(j, 3)' /\ OneAccount' /\ half' = {j}
  <2>1. /\ n = s /\ Other(j, n) = d /\ half = {}
        /\ got[j][s] = workload[s].account /\ got[j][d] = workload[d].account
    BY <1>4, <1>5, <1>6, <1>9 DEF Progress, Other
  <2>2. half' = {j}
    BY <1>1, <2>1
  <2>3. /\ workload'[s].account = workload[d].account
        /\ workload'[d].account = workload[d].account
    BY <1>3, <1>5, <2>1
  <2>4. \A m, p \in Nodes : m # p => workload[m].account # workload[p].account
    BY <1>6, <2>1 DEF OneAccount
  <2>5. \A m \in Nodes : workload'[m].account # got[j][s]
    BY <1>3, <1>5, <2>1, <2>3, <2>4
  <2>6. Progress(j, 3)'
    BY <1>1, <1>5, <1>8, <2>1, <2>2, <2>3, <2>5 DEF Progress, Stopped, Down
  <2>7. ASSUME NEW m \in Nodes, NEW p \in Nodes, m # p,
               workload'[m].account = workload'[p].account
        PROVE  m \in {s, d} /\ p \in {s, d}
    BY <1>3, <1>5, <2>1, <2>3, <2>4, <2>7
  <2> QED
    BY <2>2, <2>6, <2>7 DEF OneAccount
<1>10. ASSUME k = 3
       PROVE  Progress(j, 2)' /\ OneAccount' /\ half' = {}
  <2>1. /\ n = d /\ Other(j, n) = s /\ half' = {}
        /\ \A m \in Nodes : workload[m].account # got[j][s]
    BY <1>1, <1>4, <1>5, <1>6, <1>10 DEF Progress, Other
  <2>2. workload'[d].account = got[j][s]
    BY <1>3, <2>1
  <2>3. Progress(j, 2)'
    BY <1>1, <1>5, <1>8, <2>1 DEF Progress, Stopped, Down
  <2>4. \A m, p \in Nodes \ {d} : m # p => workload[m].account # workload[p].account
    BY <1>6 DEF OneAccount
  <2>5. \A m, p \in Nodes : m # p => workload'[m].account # workload'[p].account
    BY <1>3, <1>5, <2>1, <2>2, <2>4
  <2> QED
    BY <2>1, <2>3, <2>5 DEF OneAccount
<1>11. k - 1 \in 0 .. 10 /\ (k = 4 => k - 1 = 3) /\ (k = 3 => k - 1 = 2)
  OBVIOUS
<1>12. /\ Left(j, k - 1)' /\ Progress(j, k - 1)' /\ OneAccount' /\ half' \subseteq {j}
  BY <1>4, <1>5, <1>9, <1>10, <1>11
<1>13. \A i \in half' : Down(Source[i])' /\ Down(Dest[i])'
  BY <1>8, <1>12
<1>14. \A m \in Nodes : workload'[m].account = workload[m].account \/ Down(m)
  BY <1>3, <1>5, <1>7
<1> QED
  BY <1>1, <1>3, <1>11, <1>12, <1>13, <1>14, SamePods, JobKeeps

\* A Job that ends, or is killed.
LEMMA EndKeeps ==
  ASSUME TypeOK, SInv, NEW j \in Jobs, NEW result \in {"Succeeded", "Failed"}, End(j, result)
  PROVE  SInv'
<1>1. \A i \in Jobs : outcome'[i] = "running" =>
        /\ outcome[i] = "running" /\ steps'[i] = steps[i]
        /\ view'[i] = view[i] /\ fresh'[i] = fresh[i]
  BY DEF End, TypeOK
<1>2. UNCHANGED <<workload, pod, got, half>>
  BY DEF End
<1>3. Solo'
  BY <1>1, <1>2 DEF SInv, Solo, Running
<1>4. OneAccount'
  <2>1. OneAccount
    BY DEF SInv
  <2> QED
    BY <1>2, <2>1 DEF OneAccount
<1>5. /\ \A i, k \in half' : i = k
      /\ \A i \in half' : Down(Source[i])' /\ Down(Dest[i])'
      /\ \A n \in Nodes : OwnPods(n)'
  BY <1>2 DEF SInv, Down, Stopped, AllMissed, OwnPods
<1>6. ASSUME NEW i \in Jobs, Running(i)'
      PROVE  /\ \A n \in fresh'[i] : view'[i][n] = workload'[n]
             /\ Logging(i)' \/ \E k \in 0 .. 10 : Left(i, k)' /\ Progress(i, k)'
  <2>1. /\ Running(i) /\ steps'[i] = steps[i]
        /\ view'[i] = view[i] /\ fresh'[i] = fresh[i]
    BY <1>1, <1>6 DEF Running
  <2>2. \A n \in fresh'[i] : view'[i][n] = workload'[n]
    BY <1>2, <2>1, OnlyRuns
  <2>3. Logging(i) => Logging(i)'
    BY <2>1 DEF Logging
  <2>4. \A k \in 0 .. 10 : Left(i, k) /\ Progress(i, k) => Left(i, k)' /\ Progress(i, k)'
    <3>1. ASSUME NEW k \in 0 .. 10, Left(i, k)
          PROVE  Left(i, k)'
      BY <2>1, <3>1 DEF Left, Plan, Switch
    <3>2. ASSUME NEW k \in 0 .. 10, Progress(i, k)
          PROVE  Progress(i, k)'
      BY <1>2, <2>1, <3>2 DEF Progress, Stopped, Down, AllMissed
    <3> QED
      BY <3>1, <3>2
  <2> QED
    BY <2>1, <2>2, <2>3, <2>4, OnlyRuns
<1> QED
  BY <1>3, <1>4, <1>5, <1>6 DEF SInv

\* What a step that leaves the programs alone has to show.
LEMMA SameKeeps ==
  ASSUME TypeOK, SInv, UNCHANGED <<view, steps, got, outcome, half>>,
         \A m \in Nodes : workload'[m].replicas = workload[m].replicas,
         \A m \in Nodes : workload'[m].account = workload[m].account,
         \A m \in Nodes : Down(m) => AllMissed(m)',
         \A m \in Nodes : OwnPods(m)',
         \A j \in Jobs : Running(j) => \A m \in fresh'[j] : view[j][m] = workload'[m]
  PROVE  SInv'
<1>1. Solo' /\ OneAccount' /\ \A i, k \in half' : i = k
  <2>1. Solo /\ OneAccount /\ \A i, k \in half : i = k
    BY DEF SInv
  <2> QED
    BY <2>1 DEF Solo, OneAccount, Running
<1>2. \A m \in Nodes : (Stopped(m) => Stopped(m)') /\ (Down(m) => Down(m)')
  BY DEF Down, Stopped
<1>3. \A i \in half' : Down(Source[i])' /\ Down(Dest[i])'
  <2>1. \A i \in half : i \in Jobs /\ Down(Source[i]) /\ Down(Dest[i])
    BY DEF SInv, TypeOK
  <2> QED
    BY <1>2, <2>1
<1>4. ASSUME NEW j \in Jobs, Running(j)'
      PROVE  /\ \A m \in fresh'[j] : view'[j][m] = workload'[m]
             /\ Logging(j)' \/ \E k \in 0 .. 10 : Left(j, k)' /\ Progress(j, k)'
  <2>1. Running(j)
    BY <1>4 DEF Running
  <2>3. ASSUME NEW k \in 0 .. 10, Progress(j, k)
        PROVE  Progress(j, k)'
    BY <1>2, <2>3 DEF Progress
  <2>4. ASSUME NEW k \in 0 .. 10, Left(j, k)
        PROVE  Left(j, k)'
    BY <2>4 DEF Left, Plan, Switch
  <2>5. Logging(j) => Logging(j)'
    BY DEF Logging
  <2> QED
    BY <2>1, <2>3, <2>4, <2>5, OnlyRuns
<1> QED
  BY <1>1, <1>3, <1>4 DEF SInv

\* Nothing that the invariant speaks of changes.
LEMMA StutterKeeps ==
  ASSUME TypeOK, SInv, UNCHANGED <<workload, pod, view, fresh, steps, got, outcome, half>>
  PROVE  SInv'
<1>1. \A m \in Nodes : (Down(m) => AllMissed(m)') /\ OwnPods(m)'
  BY DEF SInv, Down, AllMissed, OwnPods
<1> QED
  BY <1>1, SameKeeps DEF SInv

\* A conflict: tried again, or failed.
LEMMA ConflictKeeps ==
  ASSUME TypeOK, SInv, NEW j \in Jobs, Conflict(j)
  PROVE  SInv'
<1>1. PICK n \in Nodes :
        /\ Running(j)
        /\ UNCHANGED steps \/ Fail(j, n)
        /\ UNCHANGED <<workload, pod, view, fresh, got, outcome, half>>
  BY DEF Conflict, At
<1>2. CASE Fail(j, n)
  BY <1>1, <1>2, FailKeeps
<1>3. CASE UNCHANGED steps
  <2>1. UNCHANGED <<workload, pod, view, fresh, steps, got, outcome, half>>
    BY <1>1, <1>3
  <2> QED
    BY <2>1, StutterKeeps
<1> QED
  BY <1>1, <1>2, <1>3

\* A Job begins when none runs and none was left half-way.
LEMMA BeginKeeps ==
  ASSUME TypeOK, SInv, OneAtATime, NEW j \in Jobs, Begin(j)
  PROVE  SInv'
<1>1. /\ outcome' = [outcome EXCEPT ![j] = "running"] /\ outcome[j] = "waiting"
      /\ steps'[j] = Plan(j)
      /\ view'[j] = workload
      /\ UNCHANGED <<workload, pod, got, half>>
  BY DEF Begin, TypeOK, Plan
<1>2. \A i \in Jobs : ~ Running(i)
  <2> DEFINE R == {i \in Jobs : Running(i)}
  <2>1. IsFiniteSet(R) /\ R \subseteq Jobs
    BY FS_Subset DEF OneAtATime
  <2>2. Cardinality(R) \in Nat /\ Cardinality(R) < 1
    BY <2>1, FS_CardinalityType DEF Begin, OneAtATime
  <2>3. R = {}
    BY <2>1, <2>2, FS_EmptySet
  <2> QED
    BY <2>3
<1>3. half = {}
  <2>1. \A i \in half : Running(i) /\ i \in Jobs
    BY DEF Begin, OneAtATime, TypeOK
  <2> QED
    BY <1>2, <2>1
<1>4. \A i \in Jobs : Running(i)' => i = j
  BY <1>1, <1>2 DEF Running, TypeOK
<1>5. Left(j, 10)'
  <2>1. Len(Plan(j)) = 10
    BY PlanSteps
  <2>2. \A i \in 1 .. 10 : 10 - 10 + i = i
    OBVIOUS
  <2> QED
    BY <1>1, <2>1, <2>2 DEF Left, Plan, Switch
<1>6. Progress(j, 10)'
  BY <1>1, <1>3 DEF Progress
<1>7. Solo' /\ OneAccount'
  <2>1. OneAccount
    BY DEF SInv
  <2> QED
    BY <1>1, <1>3, <1>4, <2>1 DEF OneAccount, Solo
<1>8. \A n \in fresh'[j] : view'[j][n] = workload'[n]
  BY <1>1
<1>9. \A n \in Nodes : OwnPods(n)'
  BY <1>1 DEF SInv, OwnPods
<1>10. 10 \in 0 .. 10
  OBVIOUS
<1> QED
  BY <1>1, <1>3, <1>4, <1>5, <1>6, <1>7, <1>8, <1>9, <1>10 DEF SInv

\* The cache catches up.
LEMMA RefreshKeeps ==
  ASSUME TypeOK, SInv, NEW j \in Jobs, NEW n \in Nodes, Refresh(j, n)
  PROVE  SInv'
<1>1. /\ Running(j)
      /\ view'[j][n] = workload[n]
      /\ \A m \in Nodes \ {n} : view'[j][m] = view[j][m]
      /\ fresh'[j] = fresh[j] \cup {n} /\ fresh[j] \subseteq Nodes
      /\ steps' = steps
      /\ UNCHANGED <<workload, pod, got, outcome, half>>
  BY DEF Refresh, TypeOK
<1>2. \A m \in fresh'[j] : view'[j][m] = workload'[m]
  <2>1. \A m \in fresh[j] : view[j][m] = workload[m]
    BY <1>1, OnlyRuns
  <2> QED
    BY <1>1, <2>1
<1>4. \A m \in Nodes : (Stopped(m)' <=> Stopped(m)) /\ (Down(m)' <=> Down(m))
  BY <1>1 DEF Down, Stopped, AllMissed
<1>5. \A m \in Nodes : view[j][m].account = workload[m].account
        => view'[j][m].account = workload'[m].account
  BY <1>1
<1>6. ASSUME NEW k \in 0 .. 10, Progress(j, k)
      PROVE  Progress(j, k)'
  BY <1>1, <1>4, <1>5, <1>6 DEF Progress
<1>7. ASSUME NEW k \in 0 .. 10, Left(j, k)
      PROVE  Left(j, k)'
  BY <1>1, <1>7 DEF Left, Plan, Switch
<1>8. Logging(j) => Logging(j)'
  BY <1>1 DEF Logging
<1>9. Logging(j)' \/ \E k \in 0 .. 10 : Left(j, k)' /\ Progress(j, k)'
  BY <1>1, <1>6, <1>7, <1>8, OnlyRuns
<1>10. half' \subseteq {j} /\ OneAccount'
  <2>1. half \subseteq {j} /\ OneAccount
    BY <1>1, OnlyRuns
  <2> QED
    BY <1>1, <2>1 DEF OneAccount
<1>11. \A i \in half' : Down(Source[i])' /\ Down(Dest[i])'
  BY <1>1 DEF SInv, Down, Stopped, AllMissed
<1> QED
  BY <1>1, <1>2, <1>9, <1>10, <1>11, SamePods, JobKeeps

\* Whatever becomes of a pod, its account stays, and so does that it was missed.
LEMMA TurnKeeps ==
  ASSUME TypeOK, NEW n \in Nodes, NEW from, NEW to \in {"unready", "ready", "closing"},
         Turn(n, from, to)
  PROVE  PodsKept
<1>1. /\ pod'[n] = {[p EXCEPT !.phase = to] : p \in pod[n]}
      /\ \A m \in Nodes \ {n} : pod'[m] = pod[m]
  BY DEF Turn, TypeOK
<1>2. \A p \in pod[n] : /\ [p EXCEPT !.phase = to].account = p.account
                         /\ [p EXCEPT !.phase = to].missed = p.missed
  BY PodFields DEF TypeOK
<1>3. ASSUME NEW q \in pod'[n]
      PROVE  \E p \in pod[n] : q.account = p.account /\ (p.missed => q.missed)
  <2>1. PICK p \in pod[n] : q = [p EXCEPT !.phase = to]
    BY <1>1
  <2> QED
    BY <1>2, <2>1
<1> QED
  BY <1>1, <1>3 DEF PodsKept

\* The StatefulSet controller and the kubelet make a pod only for a node that is not
\* scaled down, and give it the account of the StatefulSet.
LEMMA ClusterKeeps ==
  ASSUME TypeOK, SInv, NEW n \in Nodes, Cluster(n) \/ BecomeUnready(n)
  PROVE  SInv'
<1>1. UNCHANGED <<view, steps, got, outcome, half>>
  BY DEF Cluster, CreatePod, BecomeReady, ClosePod, Gone, ReportReady, BecomeUnready, Turn,
         jobVars
<1>2. /\ \A m \in Nodes : OwnPods(m)
      /\ \A j \in Jobs : Running(j) => \A m \in fresh[j] : view[j][m] = workload[m]
  BY DEF SInv
<1>3. ASSUME PodsKept, UNCHANGED <<workload, fresh>>
      PROVE  SInv'
  <2>1. \A m \in Nodes : (Down(m) => AllMissed(m)') /\ OwnPods(m)'
    BY <1>2, <1>3 DEF PodsKept, Down, AllMissed, OwnPods
  <2> QED
    BY <1>1, <1>2, <1>3, <2>1, SameKeeps
<1>4. CASE CreatePod(n)
  <2>1. /\ pod'[n] = {NewPod(n)} /\ workload[n].replicas = 1
        /\ \A m \in Nodes \ {n} : pod'[m] = pod[m]
        /\ UNCHANGED <<workload, fresh>>
    BY <1>4 DEF CreatePod, TypeOK
  <2>2. ASSUME NEW m \in Nodes
        PROVE  (Down(m) => AllMissed(m)') /\ OwnPods(m)'
    <3>1. CASE m = n
      <4>1. ~ Down(m)
        BY <2>1, <3>1 DEF Down, Stopped
      <4>2. NewPod(n).account = workload'[n].account
        BY <2>1 DEF NewPod
      <4> QED
        BY <2>1, <3>1, <4>1, <4>2 DEF OwnPods
    <3>2. CASE m # n
      BY <1>2, <2>1, <3>2 DEF Down, AllMissed, OwnPods
    <3> QED
      BY <3>1, <3>2
  <2> QED
    BY <1>1, <1>2, <2>1, <2>2, SameKeeps
<1>5. CASE BecomeReady(n) \/ ClosePod(n) \/ BecomeUnready(n)
  <2>1. /\ \E from, to : to \in {"unready", "ready", "closing"} /\ Turn(n, from, to)
        /\ UNCHANGED <<workload, fresh>>
    BY <1>5 DEF BecomeReady, ClosePod, BecomeUnready, Turn
  <2> QED
    BY <1>3, <2>1, TurnKeeps
<1>6. CASE Gone(n)
  <2>1. PodsKept /\ UNCHANGED <<workload, fresh>>
    BY <1>6 DEF Gone, PodsKept, TypeOK
  <2> QED
    BY <1>3, <2>1
<1>7. CASE ReportReady(n)
  <2> DEFINE object == [workload[n] EXCEPT !.ready = Count(n)]
  <2>1. /\ object \in StatefulSet
        /\ object.replicas = workload[n].replicas /\ object.account = workload[n].account
    <3>1. workload[n] \in StatefulSet /\ Count(n) \in {0, 1}
      BY DEF TypeOK, Count
    <3> QED
      BY <3>1, WriteFields
  <2>2. Change(n, object) /\ pod' = pod
    BY <1>7 DEF ReportReady
  <2> HIDE DEF object
  <2>3. /\ workload'[n] = object
        /\ \A m \in Nodes \ {n} : workload'[m] = workload[m]
        /\ \A j \in Jobs : fresh'[j] \subseteq fresh[j] /\ fresh[j] \subseteq Nodes
        /\ workload'[n] # workload[n] => \A j \in Jobs : n \notin fresh'[j]
    BY <2>1, <2>2, ChangeType DEF TypeOK
  <2>4. /\ \A m \in Nodes : workload'[m].replicas = workload[m].replicas
        /\ \A m \in Nodes : workload'[m].account = workload[m].account
        /\ \A j \in Jobs : Running(j) => \A m \in fresh'[j] : view[j][m] = workload'[m]
    BY <1>2, <2>1, <2>3
  <2>5. \A m \in Nodes : (Down(m) => AllMissed(m)') /\ OwnPods(m)'
    BY <1>2, <2>2, <2>4 DEF Down, AllMissed, OwnPods
  <2> QED
    BY <1>1, <2>4, <2>5, SameKeeps
<1> QED
  BY <1>4, <1>5, <1>6, <1>7 DEF Cluster

\* Every step keeps the invariant.
LEMMA SInvStep == TypeOK /\ SInv /\ OneAtATime /\ [Next]_vars => SInv'
<1> SUFFICES ASSUME TypeOK, SInv, OneAtATime, [Next]_vars
             PROVE  SInv'
  OBVIOUS
<1>1. ASSUME NEW j \in Jobs, Begin(j)
      PROVE  SInv'
  BY <1>1, BeginKeeps
<1>2. ASSUME NEW j \in Jobs, NEW n \in Nodes, Stop(j, n)
      PROVE  SInv'
  <2>1. Running(j)
    BY <1>2 DEF Stop, At
  <2>2. /\ At(j, "stop", n)
        /\ Write(j, n, [workload[n] EXCEPT !.replicas = 0])
        /\ UNCHANGED <<pod, view, got, outcome, half>>
    BY <1>2 DEF Stop
  <2> QED
    BY <2>1, <2>2, ScaleKeeps
<1>3. ASSUME NEW j \in Jobs, NEW n \in Nodes, Start(j, n)
      PROVE  SInv'
  <2>1. Running(j)
    BY <1>3 DEF Start, At
  <2> QED
    BY <1>3, <2>1, ScaleKeeps DEF Start
<1>4. ASSUME NEW j \in Jobs, NEW n \in Nodes, TimeOut(j, n)
      PROVE  SInv'
  BY <1>4, FailKeeps DEF TimeOut, At
<1>5. ASSUME NEW j \in Jobs, NEW n \in Nodes, AddLog(j, n)
      PROVE  SInv'
  BY <1>5, EndKeeps DEF AddLog
<1>6. ASSUME NEW j \in Jobs, Step(j)
      PROVE  SInv'
  <2>1. CASE Succeed(j)
    BY <2>1, EndKeeps DEF Succeed
  <2> QED
    BY <1>2, <1>3, <1>4, <1>5, <1>6, <2>1, ReadKeeps, UpdateKeeps, ConflictKeeps DEF Step
<1>7. ASSUME NEW j \in Jobs, FailCall(j)
      PROVE  SInv'
  BY <1>7, FailKeeps DEF FailCall
<1>8. ASSUME NEW j \in Jobs, Kill(j)
      PROVE  SInv'
  BY <1>8, EndKeeps DEF Kill
<1>9. CASE UNCHANGED vars
  BY <1>9, StutterKeeps DEF vars
<1> QED
  BY <1>1, <1>6, <1>7, <1>8, <1>9, RefreshKeeps, ClusterKeeps DEF Next

\* The invariant holds initially: every node has an account of its own.
LEMMA SInvInit == Init => SInv
<1> SUFFICES ASSUME Init
             PROVE  SInv
  OBVIOUS
<1>1. /\ \A j \in Jobs : ~ Running(j)
      /\ half = {}
      /\ \A n \in Nodes : \A p \in pod[n] : p.account = AccountOf[n]
  BY DEF Init, Running
<1>2. \A n \in Nodes : workload[n].account = AccountOf[n]
  BY DEF Init, FirstObjects
<1>3. Solo /\ OneAccount
  BY <1>1, <1>2 DEF Solo, OneAccount
<1>4. \A n \in Nodes : OwnPods(n)
  BY <1>1, <1>2 DEF OwnPods
<1> QED
  BY <1>1, <1>3, <1>4 DEF SInv

\* Switchovers that run one at a time, none after one left half-way: two pods run with
\* one account only while one of them, on its way out, was missed by a CheckStopped,
\* whatever fails, however long the cached copies lag and whenever pods become ready or
\* unready.
THEOREM OneSignerAlways == ASSUME OneAtATime PROVE Spec => []OneSigner
<1>1. TypeOK /\ SInv /\ [Next]_vars => SInv'
  BY SInvStep
<1> QED
  BY <1>1, TypeCorrect, SInvInit, SafeNow, PTL DEF Spec

-----------------------------------------------------------------------------
(* The refinement.                                                         *)

\* The accounts as a user sees them, with no Job half-way and with one.
LEMMA HeldNow ==
  /\ half = {} => held = [n \in Nodes |-> workload[n].account]
  /\ \A j \in Jobs : half = {j} =>
       held = [n \in Nodes |-> IF Source[j] = n THEN got[j][n] ELSE workload[n].account]
<1>1. half = {} => held = [n \in Nodes |-> workload[n].account]
  BY DEF held
<1>2. ASSUME NEW j \in Jobs, half = {j}
      PROVE  held = [n \in Nodes |-> IF Source[j] = n THEN got[j][n] ELSE workload[n].account]
  <2>1. ASSUME NEW n \in Nodes, Source[j] = n
        PROVE  (\E i \in half : Source[i] = n) /\ (CHOOSE i \in half : Source[i] = n) = j
    BY <1>2, <2>1
  <2>2. ASSUME NEW n \in Nodes, Source[j] # n
        PROVE  ~ \E i \in half : Source[i] = n
    BY <1>2, <2>2
  <2> QED
    BY <2>1, <2>2 DEF held
<1> QED
  BY <1>1, <1>2

\* The same after a step.
LEMMA HeldNext ==
  /\ half' = {} => held' = [n \in Nodes |-> workload'[n].account]
  /\ \A j \in Jobs : half' = {j} =>
       held' = [n \in Nodes |-> IF Source[j] = n THEN got'[j][n] ELSE workload'[n].account]
<1>1. half' = {} => held' = [n \in Nodes |-> workload'[n].account]
  BY DEF held
<1>2. ASSUME NEW j \in Jobs, half' = {j}
      PROVE  held' = [n \in Nodes |-> IF Source[j] = n THEN got'[j][n] ELSE workload'[n].account]
  <2>1. ASSUME NEW n \in Nodes, Source[j] = n
        PROVE  (\E i \in half' : Source[i] = n) /\ (CHOOSE i \in half' : Source[i] = n) = j
    BY <1>2, <2>1
  <2>2. ASSUME NEW n \in Nodes, Source[j] # n
        PROVE  ~ \E i \in half' : Source[i] = n
    BY <1>2, <2>2
  <2> QED
    BY <2>1, <2>2 DEF held
<1> QED
  BY <1>1, <1>2

\* They change only when an account or a half-way Job does.
LEMMA HeldStays ==
  ASSUME TypeOK, SInv, UNCHANGED <<half, got>>,
         \A n \in Nodes : workload'[n].account = workload[n].account
  PROVE  held' = held
<1>1. half = {} \/ \E j \in Jobs : half = {j}
  <2>1. half \subseteq Jobs /\ \A i, k \in half : i = k
    BY DEF SInv, TypeOK
  <2>2. ASSUME NEW j \in half
        PROVE  half = {j} /\ j \in Jobs
    BY <2>1
  <2> QED
    BY <2>2
<1>2. CASE half = {}
  BY <1>2, HeldNow, HeldNext
<1>3. ASSUME NEW j \in Jobs, half = {j}
      PROVE  held' = held
  BY <1>3, HeldNow, HeldNext
<1> QED
  BY <1>1, <1>2, <1>3

\* The first update is not visible; the second is the switch.
LEMMA UpdateSwitches ==
  ASSUME TypeOK, SInv, NEW j \in Jobs, NEW n \in Nodes, UpdateAccountConfigmap(j, n)
  PROVE  held' = held \/ Promise!Switch(Source[j], Dest[j])
<1> DEFINE s == Source[j]
           d == Dest[j]
           object == [workload[n] EXCEPT !.account = got[j][Other(j, n)]]
<1>1. /\ Running(j) /\ At(j, "update", n) /\ Write(j, n, object)
      /\ half' = IF n = s THEN half \cup {j} ELSE half \ {j}
      /\ UNCHANGED <<pod, view, got, outcome>>
  BY DEF UpdateAccountConfigmap, At
<1>2. object \in StatefulSet /\ object.account = got[j][Other(j, n)]
  <2>1. workload[n] \in StatefulSet /\ got[j][Other(j, n)] \in Accounts
    BY DEF TypeOK, Other
  <2> QED
    BY <2>1, WriteFields
<1> HIDE DEF object
<1>3. /\ Done(j)
      /\ workload'[n].account = got[j][Other(j, n)]
      /\ \A m \in Nodes \ {n} : workload'[m].account = workload[m].account
  BY <1>1, <1>2, WriteFacts
<1>4. PICK k \in 1 .. 10 : Progress(j, k) /\ <<"update", n>> = Plan(j)[11 - k]
  BY <1>1, Placed
<1>5. s \in Nodes /\ d \in Nodes /\ s # d
  BY PlanSteps
<1>6. (k = 4 /\ n = s) \/ (k = 3 /\ n = d)
  BY <1>4, StepAt
<1>7. half \subseteq {j}
  BY <1>1, OnlyRuns
<1>8. CASE k = 4
  <2>1. /\ n = s /\ half = {} /\ half' = {j}
        /\ got[j][s] = workload[s].account
    BY <1>1, <1>4, <1>5, <1>6, <1>7, <1>8 DEF Progress
  <2>2. /\ held = [m \in Nodes |-> workload[m].account]
        /\ held' = [m \in Nodes |-> IF s = m THEN got'[j][m] ELSE workload'[m].account]
    BY <2>1, HeldNow, HeldNext
  <2> QED
    BY <1>1, <1>3, <2>1, <2>2
<1>9. CASE k = 3
  <2>1. /\ n = d /\ Other(j, n) = s /\ half = {j} /\ half' = {}
        /\ workload[s].account = got[j][d] /\ workload[d].account = got[j][d]
    BY <1>1, <1>4, <1>5, <1>6, <1>7, <1>9 DEF Progress, Other
  <2>2. /\ held = [m \in Nodes |-> IF s = m THEN got[j][m] ELSE workload[m].account]
        /\ held' = [m \in Nodes |-> workload'[m].account]
    BY <2>1, HeldNow, HeldNext
  <2>3. held' = [held EXCEPT ![s] = held[d], ![d] = held[s]]
    <3>1. held[s] = got[j][s] /\ held[d] = got[j][d]
      BY <1>5, <2>1, <2>2
    <3>2. held'[s] = got[j][d] /\ held'[d] = got[j][s]
      BY <1>3, <1>5, <2>1, <2>2
    <3>3. \A m \in Nodes \ {s, d} : held'[m] = held[m]
      BY <1>3, <2>1, <2>2
    <3>4. DOMAIN held = Nodes /\ held = [m \in Nodes |-> held[m]]
      BY <2>2
    <3>5. held' = [m \in Nodes |-> IF m = d THEN held[s] ELSE IF m = s THEN held[d] ELSE held[m]]
      BY <1>5, <2>2, <3>1, <3>2, <3>3
    <3> HIDE DEF s, d
    <3> QED
      BY <1>5, <3>4, <3>5
  <2> QED
    BY <2>3 DEF Promise!Switch
<1> QED
  BY <1>6, <1>8, <1>9

\* Every step is a switch or is not visible.
LEMMA SwitchStep ==
  ASSUME TypeOK, SInv, [Next]_vars
  PROVE  [Promise!Next]_held
<1> SUFFICES held' = held \/ \E j \in Jobs : Promise!Switch(Source[j], Dest[j])
  <2>1. ASSUME NEW j \in Jobs, Promise!Switch(Source[j], Dest[j])
        PROVE  Promise!Next
    <3> DEFINE q == <<Source[j], Dest[j]>>
    <3>1. q \in {<<Source[i], Dest[i]>> : i \in Jobs} /\ q[1] = Source[j] /\ q[2] = Dest[j]
      OBVIOUS
    <3> QED
      BY <2>1, <3>1 DEF Promise!Next
  <2> QED
    BY <2>1
<1>1. ASSUME UNCHANGED <<half, got, workload>>
      PROVE  held' = held
  BY <1>1, HeldStays
<1>2. ASSUME NEW n \in Nodes, NEW i \in {0, 1}, NEW object, Change(n, object),
             \/ object = [workload[n] EXCEPT !.ready = i]
             \/ object = [workload[n] EXCEPT !.replicas = i],
             UNCHANGED <<half, got>>
      PROVE  held' = held
  <2>1. object \in StatefulSet /\ object.account = workload[n].account
    <3>1. workload[n] \in StatefulSet
      BY DEF TypeOK
    <3> QED
      BY <1>2, <3>1, WriteFields
  <2>2. workload'[n] = object /\ \A m \in Nodes \ {n} : workload'[m] = workload[m]
    BY <1>2, <2>1, ChangeType
  <2>3. \A m \in Nodes : workload'[m].account = workload[m].account
    BY <2>1, <2>2
  <2> QED
    BY <1>2, <2>3, HeldStays
<1>3. ASSUME NEW j \in Jobs, NEW n \in Nodes, Stop(j, n) \/ Start(j, n)
      PROVE  held' = held
  <2>1. CASE Stop(j, n)
    BY <1>2, <2>1 DEF Stop, Write
  <2>2. CASE Start(j, n)
    BY <1>2, <2>2 DEF Start, Write
  <2> QED
    BY <1>3, <2>1, <2>2
<1>4. ASSUME NEW n \in Nodes, Cluster(n) \/ BecomeUnready(n)
      PROVE  held' = held
  <2>1. CASE ReportReady(n)
    <3>1. Count(n) \in {0, 1}
      BY DEF Count
    <3> QED
      BY <1>2, <2>1, <3>1 DEF ReportReady, jobVars
  <2>2. CASE ~ ReportReady(n)
    BY <1>1, <1>4, <2>2 DEF Cluster, CreatePod, BecomeReady, ClosePod, Gone, BecomeUnready,
       Turn, jobVars
  <2> QED
    BY <2>1, <2>2
<1>5. ASSUME NEW j \in Jobs, NEW n \in Nodes, GetAccountConfigmap(j, n)
      PROVE  held' = held
  <2>1. Running(j) /\ At(j, "get", n) /\ UNCHANGED <<half, workload>>
    BY <1>5 DEF GetAccountConfigmap, At
  <2>2. PICK k \in 1 .. 10 : Progress(j, k) /\ <<"get", n>> = Plan(j)[11 - k]
    BY <2>1, Placed
  <2>3. k = 6 \/ k = 5
    BY <2>2, StepAt
  <2>4. half = {} /\ half' = {}
    <3>1. half \subseteq {j}
      BY <2>1, OnlyRuns
    <3> QED
      BY <2>1, <2>2, <2>3, <3>1 DEF Progress
  <2> QED
    BY <2>1, <2>4, HeldNow, HeldNext
<1>6. ASSUME NEW j \in Jobs, Step(j)
      PROVE  held' = held \/ \E i \in Jobs : Promise!Switch(Source[i], Dest[i])
  <2>1. ASSUME NEW n \in Nodes, CheckStopped(j, n) \/ TimeOut(j, n) \/ AddLog(j, n)
        PROVE  held' = held
    BY <1>1, <2>1 DEF CheckStopped, TimeOut, AddLog, End
  <2>2. CASE Conflict(j) \/ Succeed(j)
    BY <1>1, <2>2 DEF Conflict, Succeed, End
  <2> QED
    BY <1>3, <1>5, <1>6, <2>1, <2>2, UpdateSwitches DEF Step
<1>7. ASSUME NEW j \in Jobs, Begin(j) \/ FailCall(j) \/ Kill(j)
      PROVE  held' = held
  BY <1>1, <1>7 DEF Begin, FailCall, Kill, End
<1>8. ASSUME NEW j \in Jobs, NEW n \in Nodes, Refresh(j, n)
      PROVE  held' = held
  BY <1>1, <1>8 DEF Refresh
<1>9. CASE UNCHANGED vars
  BY <1>1, <1>9 DEF vars
<1> QED
  BY <1>4, <1>6, <1>7, <1>8, <1>9 DEF Next

\* The initial states map to initial states.
LEMMA SwitchInit == Init => Promise!Init
<1> SUFFICES ASSUME Init
             PROVE  Promise!Init
  OBVIOUS
<1>1. half = {} /\ \A n \in Nodes : workload[n].account = AccountOf[n]
  BY DEF Init, FirstObjects
<1>2. held = [n \in Nodes |-> workload[n].account]
  BY <1>1, HeldNow
<1> QED
  BY <1>1, <1>2 DEF Promise!Init

\* The same switchovers implement AccountSwitch: conflicts, retries, failed calls, timeouts
\* and kills at any step leave both accounts switched or none.
THEOREM SwitchIsAtomic == ASSUME OneAtATime PROVE Spec => ImplementsSwitch
<1>1. TypeOK /\ SInv /\ [Next]_vars => SInv'
  BY SInvStep
<1>2. TypeOK /\ SInv /\ [Next]_vars => [Promise!Next]_held
  BY SwitchStep
<1> QED
  BY <1>1, <1>2, TypeCorrect, SInvInit, SwitchInit, PTL DEF Spec, ImplementsSwitch, Promise!Spec
=============================================================================
