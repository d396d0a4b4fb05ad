------------------------- MODULE NodeOperation_proofs -------------------------
(***************************************************************************)
(* Proofs about NodeOperation, for any set of programs on the node, any     *)
(* method, and any number of retries and disturbances: its type, and that a *)
(* failed program never starts the node.  For the methods other than helm:  *)
(* that a size is reported.  For programs that run one at a time: that the  *)
(* node is started again, and on python that it is down during the work.    *)
(*                                                                         *)
(* The argument: what a program has still to do keeps an order (Ordered)    *)
(* from which the steps already done can be read; Moves says what a step of *)
(* the system does to one program, and every invariant follows from it.     *)
(***************************************************************************)
EXTENDS NodeOperation, FiniteSetTheorems, TLAPS

-----------------------------------------------------------------------------
(* The order of the steps of a program.                                     *)

\* What a program does while the node is stopped.
IsWork(w) ==
  /\ w \in Seq(StepNames)
  /\ Len(w) >= 2
  /\ w[1] = "begin" /\ w[2] = "finish"
  /\ \A i \in 3 .. Len(w) : w[i] = "annotate"

\* A sequence of steps with one more step.
LEMMA Append1 ==
  ASSUME NEW w \in Seq(StepNames), NEW e \in StepNames
  PROVE  /\ w \o <<e>> \in Seq(StepNames)
         /\ Len(w \o <<e>>) = Len(w) + 1
         /\ (w \o <<e>>)[Len(w) + 1] = e
         /\ \A i \in 1 .. Len(w) : (w \o <<e>>)[i] = w[i]
  OBVIOUS

\* The work of the operations that report nothing.
LEMMA PlainWork == IsWork(Work)
  BY DEF IsWork, Work, StepNames

\* The work of a Backup or Snapshot, which annotates the size after it.
LEMMA MeasuredWork == IsWork(Work \o <<"annotate">>)
<1> DEFINE p == Work \o <<"annotate">>
<1>1. Work \in Seq(StepNames) /\ Len(Work) = 2 /\ Work[1] = "begin" /\ Work[2] = "finish"
  BY DEF Work, StepNames
<1>2. "annotate" \in StepNames
  BY DEF StepNames
<1>3. /\ p \in Seq(StepNames)
      /\ Len(p) = Len(Work) + 1
      /\ p[Len(Work) + 1] = "annotate"
      /\ \A i \in 1 .. Len(Work) : p[i] = Work[i]
  BY <1>1, <1>2, Append1
<1>4. Len(p) = 3 /\ p[3] = "annotate"
  BY <1>1, <1>3
<1>5. 1 \in 1 .. Len(Work) /\ 2 \in 1 .. Len(Work)
  BY <1>1
<1>6. p[1] = "begin" /\ p[2] = "finish"
  BY <1>1, <1>3, <1>5
<1> HIDE DEF p
<1>7. IsWork(p)
  BY SMTT(30), <1>3, <1>4, <1>6 DEF IsWork
<1> QED
  BY <1>7 DEF p

\* The work of a program that stops the node and starts it again.
Wrapped(w) == <<"stop", "check">> \o w \o <<"start">>

\* Where the steps of a wrapped work are.
LEMMA WrappedShape ==
  ASSUME NEW w \in Seq(StepNames)
  PROVE  /\ Wrapped(w) \in Seq(StepNames)
         /\ Len(Wrapped(w)) = Len(w) + 3
         /\ Wrapped(w)[1] = "stop" /\ Wrapped(w)[2] = "check"
         /\ Wrapped(w)[Len(w) + 3] = "start"
         /\ \A i \in 1 .. Len(w) : Wrapped(w)[i + 2] = w[i]
  BY DEF Wrapped, StepNames

\* Stop is followed by check and comes first, begin is followed by finish, start comes
\* last, and a program that panics or logs its error does nothing else.
Ordered(s) ==
  /\ s \in Seq(StepNames)
  /\ \A i \in 1 .. Len(s) :
       /\ s[i] = "stop"  => i = 1 /\ Len(s) > 1 /\ s[2] = "check"
       /\ s[i] = "check" => i = 1 \/ (i = 2 /\ s[1] = "stop")
       /\ s[i] = "begin" => i < Len(s) /\ s[i + 1] = "finish"
       /\ s[i] = "start" => i = Len(s)
       /\ s[i] = "panic" => Len(s) = 1
       /\ s[i] = "log"   => Len(s) = 1

\* A work is in order, and neither stops nor starts the node.
LEMMA WorkOrdered ==
  ASSUME NEW w, IsWork(w)
  PROVE  Ordered(w) /\ \A i \in 1 .. Len(w) : w[i] \notin {"stop", "start", "panic", "log"}
<1>1. \A i \in 1 .. Len(w) :
                            \/ i = 1 /\ w[i] = "begin"
                            \/ i = 2 /\ w[i] = "finish"
                            \/ w[i] = "annotate"
  BY DEF IsWork
<1>2. w \in Seq(StepNames) /\ Len(w) \in Nat /\ Len(w) >= 2 /\ w[2] = "finish"
  BY DEF IsWork
<1>3. \A i \in 1 .. Len(w) : w[i] = "begin" => i < Len(w) /\ w[i + 1] = "finish"
  BY <1>1, <1>2
<1>4. \A i \in 1 .. Len(w) : w[i] \in {"begin", "finish", "annotate"}
  BY <1>1
<1> QED
  BY <1>2, <1>3, <1>4 DEF Ordered

\* So is a work between a stop and a start.
LEMMA WrappedOrdered ==
  ASSUME NEW w, IsWork(w)
  PROVE  Ordered(Wrapped(w))
<1> DEFINE p == Wrapped(w)
<1>1. /\ p \in Seq(StepNames)
      /\ Len(p) = Len(w) + 3
      /\ p[1] = "stop" /\ p[2] = "check"
      /\ p[Len(w) + 3] = "start"
      /\ \A i \in 1 .. Len(w) : p[i + 2] = w[i]
  BY WrappedShape DEF IsWork
<1> HIDE DEF p
<1>2. p[3] = "begin" /\ p[4] = "finish"
  <2>1. 1 \in 1 .. Len(w) /\ 2 \in 1 .. Len(w) /\ 1 + 2 = 3 /\ 2 + 2 = 4
    BY DEF IsWork
  <2> QED
    BY <1>1, <2>1 DEF IsWork
<1>3. \A i \in 1 .. Len(p) :
                            \/ i = 1 /\ p[i] = "stop"
                            \/ i = 2 /\ p[i] = "check"
                            \/ i = 3 /\ p[i] = "begin"
                            \/ i = 4 /\ p[i] = "finish"
                            \/ i = Len(p) /\ p[i] = "start"
                            \/ p[i] = "annotate"
  <2>1. \A i \in 5 .. Len(w) + 2 : p[i] = "annotate"
    <3> TAKE i \in 5 .. Len(w) + 2
    <3>1. i - 2 \in 3 .. Len(w) /\ i - 2 \in 1 .. Len(w) /\ (i - 2) + 2 = i
      BY DEF IsWork
    <3> QED
      BY <1>1, <3>1 DEF IsWork
  <2>2. Len(w) \in Nat /\ Len(w) >= 2
    BY DEF IsWork
  <2>3. ASSUME NEW i \in 1 .. Len(p)
        PROVE  i = 1 \/ i = 2 \/ i = 3 \/ i = 4 \/ i = Len(p) \/ i \in 5 .. Len(w) + 2
    BY <1>1, <2>2
  <2> QED
    BY <1>1, <1>2, <2>1, <2>2, <2>3
<1>4. Len(p) >= 5
  BY <1>1 DEF IsWork
<1>5. Ordered(p)
  BY <1>1, <1>3, <1>4, <1>2 DEF Ordered
<1> QED
  BY <1>5 DEF p

\* What follows the first step is in order, and does not stop the node (any more).
LEMMA RestOrdered ==
  ASSUME NEW s, Ordered(s), NEW t \in Seq(StepNames),
         Len(s) = Len(t) + 1, \A i \in 1 .. Len(t) : t[i] = s[i + 1]
  PROVE  Ordered(t) /\ \A i \in 1 .. Len(t) : t[i] # "stop"
<1>1. Len(t) \in Nat
  OBVIOUS
<1>2. ASSUME NEW i \in 1 .. Len(t)
      PROVE  /\ t[i] = "check" => i = 1
             /\ t[i] = "begin" => i < Len(t) /\ t[i + 1] = "finish"
             /\ t[i] = "start" => i = Len(t)
             /\ t[i] \notin {"panic", "log", "stop"}
  <2>1. i \in Nat /\ i >= 1 /\ i + 1 \in 1 .. Len(s) /\ i + 1 # 1 /\ t[i] = s[i + 1]
    BY <1>1
  <2>2. /\ s[i + 1] = "check" => i + 1 = 2
        /\ s[i + 1] = "begin" => i + 1 < Len(s) /\ s[(i + 1) + 1] = "finish"
        /\ s[i + 1] = "start" => i + 1 = Len(s)
        /\ s[i + 1] = "panic" => Len(s) = 1
        /\ s[i + 1] = "log" => Len(s) = 1
        /\ s[i + 1] # "stop"
    BY <2>1 DEF Ordered
  <2>3. Len(s) # 1
    BY <1>1, <2>1
  <2>4. ASSUME i + 1 < Len(s)
        PROVE  i < Len(t) /\ t[i + 1] = s[(i + 1) + 1]
    <3>1. i < Len(t) /\ i + 1 \in 1 .. Len(t)
      BY <1>1, <2>1, <2>4
    <3> QED
      BY <3>1
  <2> QED
    BY <1>1, <2>1, <2>2, <2>3, <2>4
<1> QED
  BY <1>2 DEF Ordered

\* The same of Tail.
LEMMA TailOrdered ==
  ASSUME NEW s, Ordered(s), s # <<>>
  PROVE  /\ Ordered(Tail(s))
         /\ Head(s) = s[1] /\ s[1] \in StepNames
         /\ Len(s) = Len(Tail(s)) + 1 /\ Len(Tail(s)) \in Nat
         /\ \A i \in 1 .. Len(Tail(s)) : Tail(s)[i] = s[i + 1] /\ Tail(s)[i] # "stop"
<1>1. s \in Seq(StepNames) /\ Len(s) \in Nat /\ Len(s) >= 1
  BY DEF Ordered
<1>2. /\ Tail(s) \in Seq(StepNames)
      /\ Len(s) = Len(Tail(s)) + 1
      /\ \A i \in 1 .. Len(Tail(s)) : Tail(s)[i] = s[i + 1]
  BY <1>1
<1>3. Head(s) = s[1] /\ s[1] \in StepNames
  BY <1>1
<1>4. Len(Tail(s)) \in Nat
  BY <1>2
<1>5. Ordered(Tail(s)) /\ \A i \in 1 .. Len(Tail(s)) : Tail(s)[i] # "stop"
  BY <1>2, RestOrdered
<1> QED
  BY <1>2, <1>3, <1>4, <1>5

\* Every program of the three methods is empty, panics, works, or works on a stopped node.
LEMMA ProgramShape ==
  ASSUME NEW j \in Jobs
  PROVE  \/ Program(j) = <<>> \/ Program(j) = <<"panic">>
         \/ IsWork(Program(j))
         \/ \E w : IsWork(w) /\ Program(j) = Wrapped(w)
<1>1. OpOf[j] \in Operations /\ ActionOf[j] \in Actions
  BY ProgramsAssumption
<1>2. ASSUME NEW w, IsWork(w), NEW action
      PROVE  \/ IsWork(Around(action, w))
             \/ \E v : IsWork(v) /\ Around(action, w) = Wrapped(v)
  BY <1>2 DEF Around, Wrapped
<1>3. CASE Method = "cloud-config"
  <2>1. Program(j) = CloudConfig(OpOf[j], ActionOf[j])
    BY <1>3 DEF Program
  <2>2. IsWork(IF OpOf[j] \in Measured THEN Work \o <<"annotate">> ELSE Work)
    BY PlainWork, MeasuredWork
  <2> QED
    BY <1>2, <2>1, <2>2 DEF CloudConfig
<1>4. CASE Method = "python"
  <2>1. Program(j) = Python(OpOf[j], ActionOf[j])
    BY <1>4 DEF Program
  <2>2. IsWork(IF OpOf[j] \in Measured THEN Work \o <<"annotate">> ELSE Work)
    BY PlainWork, MeasuredWork
  <2>3. CASE OpOf[j] = "SnapshotRecover"
    BY <2>1, <2>3 DEF Python
  <2>4. CASE OpOf[j] # "SnapshotRecover"
    BY <1>2, <2>1, <2>2, <2>4 DEF Python
  <2> QED
    BY <2>3, <2>4
<1>5. CASE Method = "helm"
  <2>1. Program(j) = Helm(OpOf[j], ActionOf[j])
    BY <1>5 DEF Program
  <2>2. CASE OpOf[j] = "Backup"
    BY <2>1, <2>2 DEF Helm
  <2>3. CASE OpOf[j] = "Restore"
    <3>1. Program(j) = Around(ActionOf[j], Work)
      BY <2>1, <2>3 DEF Helm
    <3> QED
      BY <1>2, <3>1, PlainWork
  <2>4. CASE OpOf[j] = "Fallback"
    <3>1. Program(j) = Around("StopAndStart", Work)
      BY <2>1, <2>4 DEF Helm
    <3> QED
      BY <1>2, <3>1, PlainWork
  <2>5. CASE OpOf[j] \notin {"Backup", "Restore", "Fallback"}
    BY <1>1, <2>1, <2>5 DEF Helm
  <2> QED
    BY <2>2, <2>3, <2>4, <2>5
<1> QED
  BY <1>3, <1>4, <1>5, ProgramsAssumption DEF Methods

\* The last step of a program that stops the node.
LastStarts(j, s) == s # <<>> /\ Stopping(j) => s[Len(s)] \in {"start", "log"}

\* Every program is in order; it stops the node first and starts it last, or does neither.
LEMMA ProgramOrdered ==
  ASSUME NEW j \in Jobs
  PROVE  /\ Ordered(Program(j)) /\ LastStarts(j, Program(j))
         /\ ~ Stopping(j) => \A i \in 1 .. Len(Program(j)) : Program(j)[i] \notin {"stop", "start"}
         /\ Stopping(j) => Program(j) # <<>> /\ Program(j)[1] = "stop"
<1>1. CASE Program(j) = <<>>
  BY <1>1 DEF Ordered, LastStarts, Stopping
<1>2. CASE Program(j) = <<"panic">>
  BY <1>2 DEF Ordered, LastStarts, Stopping, StepNames
<1>3. CASE IsWork(Program(j))
  <2>1. ~ Stopping(j)
    BY <1>3, WorkOrdered DEF Stopping, Ordered
  <2> QED
    BY <1>3, <2>1, WorkOrdered DEF LastStarts
<1>4. CASE \E w : IsWork(w) /\ Program(j) = Wrapped(w)
  <2>1. PICK w : IsWork(w) /\ Program(j) = Wrapped(w)
    BY <1>4
  <2>2. Ordered(Program(j))
    BY <2>1, WrappedOrdered
  <2>3. /\ Program(j)[1] = "stop"
        /\ Len(Program(j)) = Len(w) + 3
        /\ Program(j)[Len(w) + 3] = "start"
        /\ Program(j) \in Seq(StepNames)
        /\ Len(w) \in Nat
    BY <2>1, WrappedShape DEF IsWork
  <2>4. 1 \in DOMAIN Program(j) /\ Program(j) # <<>>
    BY <2>3
  <2>5. Stopping(j)
    BY <2>3, <2>4 DEF Stopping
  <2> QED
    BY <2>2, <2>3, <2>4, <2>5 DEF LastStarts
<1> QED
  BY <1>1, <1>2, <1>3, <1>4, ProgramShape

-----------------------------------------------------------------------------
(* The type.                                                                *)

\* A program with a next step runs and has steps left.
LEMMA NextMove ==
  ASSUME TypeOK, NEW j \in Jobs, NextStep(j) # "none"
  PROVE  /\ outcome[j] = "running" /\ steps[j] # <<>> /\ NextStep(j) = Head(steps[j])
         /\ Tail(steps[j]) \in Seq(StepNames)
<1>1. steps[j] \in Seq(StepNames)
  BY DEF TypeOK
<1> QED
  BY <1>1 DEF NextStep, Running

\* What is left of a program that failed or ended is a sequence of steps.
LEMMA LogTyped == <<"log">> \in Seq(StepNames) /\ <<>> \in Seq(StepNames)
  BY DEF StepNames

\* The counts of the node's pods, field by field.
PodsAre(p, starting, ready, closing) ==
  /\ p \in Pods
  /\ p.starting = starting /\ p.ready = ready /\ p.closing = closing

\* Changing a count or two leaves the others alone.
LEMMA PodsExcept ==
  ASSUME NEW p \in Pods, NEW n \in Nat, NEW m \in Nat
  PROVE  /\ PodsAre([p EXCEPT !.starting = n], n, p.ready, p.closing)
         /\ PodsAre([p EXCEPT !.starting = n, !.closing = m], n, p.ready, m)
         /\ PodsAre([p EXCEPT !.ready = n, !.closing = m], p.starting, n, m)
         /\ PodsAre([p EXCEPT !.starting = n, !.ready = m], n, m, p.closing)
         /\ PodsAre([p EXCEPT !.ready = n, !.starting = m], m, n, p.closing)
         /\ PodsAre([p EXCEPT !.closing = n], p.starting, p.ready, n)
  BY DEF Pods, PodsAre

\* The counts are numbers.
LEMMA PodCounts ==
  ASSUME TypeOK
  PROVE  /\ pods \in Pods /\ workload \in Workload
         /\ pods.starting \in Nat /\ pods.ready \in Nat /\ pods.closing \in Nat
         /\ workload.replicas \in Nat /\ workload.ready \in Nat
         /\ pods.starting + 1 \in Nat /\ pods.ready + 1 \in Nat /\ pods.closing + 1 \in Nat
         /\ pods.starting > 0 => pods.starting - 1 \in Nat
         /\ pods.ready > 0 => pods.ready - 1 \in Nat
         /\ pods.closing > 0 => pods.closing - 1 \in Nat
  BY SMTT(30) DEF TypeOK, Pods, Workload

\* A pod of the node is being deleted.
PodsClosed ==
  \/ pods.starting > 0 /\ PodsAre(pods', pods.starting - 1, pods.ready, pods.closing + 1)
  \/ pods.ready > 0 /\ PodsAre(pods', pods.starting, pods.ready - 1, pods.closing + 1)

\* What the steps of the cluster do to the node's pods.
LEMMA PodMoves ==
  ASSUME TypeOK
  PROVE  /\ ScaleUp => PodsAre(pods', pods.starting + 1, pods.ready, pods.closing)
         /\ Close => PodsClosed
         /\ BecomeReady => PodsAre(pods', pods.starting - 1, pods.ready + 1, pods.closing)
         /\ Gone => PodsAre(pods', pods.starting, pods.ready, pods.closing - 1)
         /\ BecomeUnready => PodsAre(pods', pods.starting + 1, pods.ready - 1, pods.closing)
<1>1. ScaleUp => PodsAre(pods', pods.starting + 1, pods.ready, pods.closing)
  BY PodCounts, PodsExcept DEF ScaleUp
<1>2. Close => PodsClosed
  BY ZenonT(60), PodCounts, PodsExcept DEF Close, PodsClosed
<1>3. BecomeReady => PodsAre(pods', pods.starting - 1, pods.ready + 1, pods.closing)
  <2>1. SUFFICES ASSUME BecomeReady
                 PROVE  PodsAre(pods', pods.starting - 1, pods.ready + 1, pods.closing)
    OBVIOUS
  <2>2. /\ pods.starting - 1 \in Nat /\ pods.ready + 1 \in Nat
        /\ pods' = [pods EXCEPT !.starting = pods.starting - 1, !.ready = pods.ready + 1]
    BY <2>1, PodCounts DEF BecomeReady
  <2>3. PodsAre([pods EXCEPT !.starting = pods.starting - 1, !.ready = pods.ready + 1],
                pods.starting - 1, pods.ready + 1, pods.closing)
    BY <2>2, PodCounts, PodsExcept
  <2> QED
    BY <2>2, <2>3
<1>4. Gone => PodsAre(pods', pods.starting, pods.ready, pods.closing - 1)
  BY PodCounts, PodsExcept DEF Gone
<1>5. BecomeUnready => PodsAre(pods', pods.starting + 1, pods.ready - 1, pods.closing)
  <2>1. SUFFICES ASSUME BecomeUnready
                 PROVE  PodsAre(pods', pods.starting + 1, pods.ready - 1, pods.closing)
    OBVIOUS
  <2>2. /\ pods.starting + 1 \in Nat /\ pods.ready - 1 \in Nat
        /\ pods' = [pods EXCEPT !.ready = pods.ready - 1, !.starting = pods.starting + 1]
    BY <2>1, PodCounts DEF BecomeUnready
  <2>3. PodsAre([pods EXCEPT !.ready = pods.ready - 1, !.starting = pods.starting + 1],
                pods.starting + 1, pods.ready - 1, pods.closing)
    BY <2>2, PodCounts, PodsExcept
  <2> QED
    BY <2>2, <2>3
<1> QED
  BY <1>1, <1>2, <1>3, <1>4, <1>5

\* A new version of the workload is a workload.
LEMMA ChangeMoves ==
  ASSUME TypeOK, NEW object \in Workload, Change(object)
  PROVE  /\ workload' = object /\ workload' \in Workload
         /\ fresh' \in [Jobs -> BOOLEAN]
<1>1. fresh' = fresh \/ fresh' = [j \in Jobs |-> FALSE]
  BY DEF Change
<1> QED
  BY <1>1 DEF Change, TypeOK

\* Writing one field of the workload leaves the other alone.
LEMMA WorkloadExcept ==
  ASSUME NEW w \in Workload, NEW n \in Nat
  PROVE  /\ [w EXCEPT !.replicas = n] \in Workload
         /\ [w EXCEPT !.replicas = n].replicas = n
         /\ [w EXCEPT !.ready = n] \in Workload
         /\ [w EXCEPT !.ready = n].replicas = w.replicas
  BY DEF Workload

\* Stop and Start keep the types.
LEMMA ScaleToType ==
  ASSUME TypeOK, NEW j \in Jobs, NextStep(j) # "none", NEW n \in Nat, ScaleTo(j, n)
  PROVE  /\ workload' \in Workload
         /\ fresh' \in [Jobs -> BOOLEAN]
         /\ steps' \in [Jobs -> Seq(StepNames)]
         /\ tries' \in [Jobs -> Nat]
<1>1. steps' = steps \/ Done(j) \/ Fail(j)
  BY DEF ScaleTo
<1>2. steps' \in [Jobs -> Seq(StepNames)]
  BY <1>1, NextMove, LogTyped DEF TypeOK, Done, Fail
<1>3. \/ UNCHANGED <<workload, fresh>>
      \/ Change([workload EXCEPT !.replicas = n])
  BY DEF ScaleTo
<1>4. workload' \in Workload /\ fresh' \in [Jobs -> BOOLEAN]
  <2>1. [workload EXCEPT !.replicas = n] \in Workload
    BY WorkloadExcept DEF TypeOK
  <2> QED
    BY <1>3, <2>1, ChangeMoves DEF TypeOK
<1>5. tries' \in [Jobs -> Nat]
  <2>1. \/ tries' = tries
        \/ tries' = [tries EXCEPT ![j] = 0]
        \/ tries' = [tries EXCEPT ![j] = tries[j] + 1]
    BY DEF ScaleTo
  <2>2. 0 \in Nat /\ tries[j] + 1 \in Nat /\ tries \in [Jobs -> Nat]
    BY DEF TypeOK
  <2> QED
    BY <2>1, <2>2
<1> QED
  BY <1>2, <1>4, <1>5

\* Every step keeps the types.
LEMMA TypeStep == TypeOK /\ [Next]_vars => TypeOK'
<1> SUFFICES ASSUME TypeOK, [Next]_vars
             PROVE  TypeOK'
  OBVIOUS
<1> USE DEF nodeVars, jobVars
<1>1. ASSUME NEW j \in Jobs, Begin(j)
      PROVE  TypeOK'
  <2>1. Program(j) \in Seq(StepNames)
    BY ProgramOrdered DEF Ordered
  <2> QED
    BY <1>1, <2>1 DEF Begin, TypeOK
<1>2. ASSUME NEW j \in Jobs, Stop(j)
      PROVE  TypeOK'
  <2>1. NextStep(j) # "none" /\ ScaleTo(j, 0)
    BY <1>2 DEF Stop
  <2>2. kept' \in [Jobs -> Nat]
    BY <1>2 DEF Stop, TypeOK, Workload
  <2> QED
    BY <1>2, <2>1, <2>2, ScaleToType DEF Stop, TypeOK
<1>3. ASSUME NEW j \in Jobs, CheckStopped(j)
      PROVE  TypeOK'
  <2>1. NextStep(j) # "none"
    BY <1>3 DEF CheckStopped
  <2> QED
    BY <1>3, <2>1, NextMove DEF CheckStopped, Done, TypeOK
<1>4. ASSUME NEW j \in Jobs, TimeOut(j)
      PROVE  TypeOK'
  BY <1>4, LogTyped DEF TimeOut, Fail, TypeOK
<1>5. ASSUME NEW j \in Jobs, BeginWork(j)
      PROVE  TypeOK'
  <2>1. NextStep(j) # "none"
    BY <1>5 DEF BeginWork
  <2> QED
    BY <1>5, <2>1, NextMove DEF BeginWork, Done, TypeOK
<1>6. ASSUME NEW j \in Jobs, FinishWork(j)
      PROVE  TypeOK'
  <2>1. NextStep(j) # "none"
    BY <1>6 DEF FinishWork
  <2>2. torn' \in SUBSET Jobs
    BY <1>6 DEF FinishWork, TypeOK
  <2> QED
    BY <1>6, <2>1, <2>2, NextMove DEF FinishWork, Done, TypeOK
<1>7. ASSUME NEW j \in Jobs, AddAnnotations(j)
      PROVE  TypeOK'
  <2>1. NextStep(j) # "none"
    BY <1>7 DEF AddAnnotations
  <2> QED
    BY <1>7, <2>1, NextMove DEF AddAnnotations, Done, TypeOK
<1>8. ASSUME NEW j \in Jobs, Start(j)
      PROVE  TypeOK'
  <2>1. NextStep(j) # "none" /\ ScaleTo(j, kept[j]) /\ kept[j] \in Nat
    BY <1>8 DEF Start, TypeOK
  <2> QED
    BY <1>8, <2>1, ScaleToType DEF Start, TypeOK
<1>9. ASSUME NEW j \in Jobs, Succeed(j)
      PROVE  TypeOK'
  BY <1>9 DEF Succeed, TypeOK
<1>10. ASSUME NEW j \in Jobs, Panic(j)
       PROVE  TypeOK'
  BY <1>10, LogTyped DEF Panic, TypeOK
<1>11. ASSUME NEW j \in Jobs, AddLog(j)
       PROVE  TypeOK'
  BY <1>11, LogTyped DEF AddLog, TypeOK
<1>12. ASSUME NEW j \in Jobs, Refresh(j)
       PROVE  TypeOK'
  BY <1>12 DEF Refresh, TypeOK
<1>13. CASE ScaleUp
  BY <1>13, PodMoves DEF ScaleUp, TypeOK, PodsAre
<1>14. ASSUME Close
       PROVE  pods' \in Pods
  BY <1>14, PodMoves DEF PodsClosed, PodsAre
<1>15. CASE ScaleDown
  BY <1>14, <1>15 DEF ScaleDown, TypeOK
<1>16. CASE BecomeReady
  BY <1>16, PodMoves DEF BecomeReady, TypeOK, PodsAre
<1>17. CASE Gone
  BY <1>17, PodMoves DEF Gone, TypeOK, PodsAre
<1>18. CASE ReportReady
  <2>1. workload' \in Workload /\ fresh' \in [Jobs -> BOOLEAN]
    <3>1. PICK n \in pods.ready .. (pods.ready + IF Method = "python" THEN 0 ELSE pods.closing) :
                 Change([workload EXCEPT !.ready = n])
      BY <1>18 DEF ReportReady
    <3>2. n \in Nat
      BY <3>1, PodCounts
    <3> QED
      BY <3>1, <3>2, PodCounts, WorkloadExcept, ChangeMoves
  <2> QED
    BY <1>18, <2>1 DEF ReportReady, TypeOK
<1>19. ASSUME NEW j \in Jobs, FailCommand(j)
       PROVE  TypeOK'
  BY <1>19, LogTyped DEF FailCommand, Disturb, Fail, TypeOK
<1>20. ASSUME NEW j \in Jobs, FailCall(j)
       PROVE  TypeOK'
  <2>1. outcome' \in [Jobs -> {"waiting", "running", "Succeeded", "Failed"}]
    BY <1>20 DEF FailCall, TypeOK
  <2>2. steps' \in [Jobs -> Seq(StepNames)]
    BY <1>20, LogTyped DEF FailCall, Fail, TypeOK
  <2> QED
    BY <1>20, <2>1, <2>2 DEF FailCall, Disturb, TypeOK
<1>21. ASSUME NEW j \in Jobs, Kill(j)
       PROVE  TypeOK'
  BY <1>21, LogTyped DEF Kill, Disturb, TypeOK
<1>22. CASE Evict
  BY <1>14, <1>22 DEF Evict, Disturb, TypeOK
<1>23. CASE BecomeUnready
  BY <1>23, PodMoves DEF BecomeUnready, Disturb, TypeOK, PodsAre
<1>24. CASE UNCHANGED vars
  BY <1>24 DEF vars, TypeOK
<1> QED
  BY <1>1, <1>2, <1>3, <1>4, <1>5, <1>6, <1>7, <1>8, <1>9, <1>10, <1>11, <1>12,
     <1>13, <1>15, <1>16, <1>17, <1>18, <1>19, <1>20, <1>21, <1>22, <1>23, <1>24
     DEF Next, Step, Cluster

\* The types hold initially.
LEMMA TypeInit == Init => TypeOK
<1> SUFFICES ASSUME Init
             PROVE  TypeOK
  OBVIOUS
<1>1. Size \in Nat
  BY NumbersAssumption
<1>2. workload \in Workload /\ workload.ready \in 0 .. Size
  BY <1>1 DEF Init, Workload
<1>3. pods \in Pods
  BY <1>1, <1>2 DEF Init, Pods
<1> QED
  BY <1>2, <1>3, LogTyped DEF Init, TypeOK

\* The type invariant: the counts of pods and replicas stay natural numbers, and what a
\* program has left is a sequence of steps, whatever the programs and the cluster do.
THEOREM TypeCorrect == Spec => []TypeOK
  BY TypeInit, TypeStep, PTL DEF Spec

-----------------------------------------------------------------------------
(* What a step does to one program.                                         *)

\* j takes the first step of what it has to do.
Takes(j) ==
  /\ Running(j) /\ steps[j] # <<>>
  /\ steps'[j] = Tail(steps[j])
  /\ outcome'[j] = outcome[j]
  /\ Head(steps[j]) \notin {"log", "panic"}
  /\ note'[j] = IF Head(steps[j]) = "annotate" THEN "size" ELSE note[j]
  /\ j \in torn' => Head(steps[j]) # "finish" /\ (j \in torn \/ Head(steps[j]) = "begin")
  /\ Head(steps[j]) = "stop" => workload'.replicas = 0 /\ (Method # "helm" => kept'[j] = 1)
  /\ Head(steps[j]) # "stop" => kept'[j] = kept[j]
  /\ Head(steps[j]) = "start" => workload'.replicas = kept[j]
  /\ Head(steps[j]) = "check" /\ Method = "python" => NodePods # 1

\* j begins, is not concerned, takes a step, fails, ends with an error, or succeeds.
Move(j) ==
  \/ /\ outcome[j] = "waiting" /\ outcome'[j] = "running"
     /\ AtOnce = 1 /\ IsFiniteSet(Jobs) => \A i \in Jobs : ~ Running(i)
     /\ \A i \in Jobs \ {j} : outcome'[i] = outcome[i]
     /\ steps'[j] = Program(j) /\ note'[j] = note[j]
     /\ j \in torn' => j \in torn
  \/ /\ steps'[j] = steps[j] /\ outcome'[j] = outcome[j] /\ note'[j] = note[j]
     /\ j \in torn' => j \in torn
     /\ kept'[j] = kept[j] \/ NextStep(j) = "stop"
  \/ Takes(j)
  \/ /\ Running(j) /\ outcome'[j] = outcome[j]
     /\ steps'[j] = <<"log">> /\ note'[j] = note[j]
     /\ j \in torn' => j \in torn
  \/ /\ Running(j) /\ outcome'[j] = "Failed" /\ steps'[j] = <<>>
     /\ j \in torn' => j \in torn
  \/ /\ Running(j) /\ outcome'[j] = "Succeeded"
     /\ steps[j] = <<>> /\ steps'[j] = <<>> /\ note'[j] = note[j]
     /\ j \in torn' => j \in torn

\* ScaleTo writes the replicas and goes on, or leaves the workload alone.
LEMMA ScaleMoves ==
  ASSUME TypeOK, NEW j \in Jobs, NEW n \in Nat, ScaleTo(j, n)
  PROVE  \/ workload'.replicas = n /\ Done(j)
         \/ workload' = workload /\ (steps' = steps \/ Fail(j))
<1>1. \/ Change([workload EXCEPT !.replicas = n]) /\ Done(j)
      \/ workload' = workload /\ (steps' = steps \/ Fail(j))
  BY DEF ScaleTo
<1>2. ASSUME Change([workload EXCEPT !.replicas = n])
      PROVE  workload'.replicas = n
  <2>1. workload' = [workload EXCEPT !.replicas = n]
    BY <1>2 DEF Change
  <2> QED
    BY <2>1, WorkloadExcept DEF TypeOK
<1> QED
  BY <1>1, <1>2

\* So do Stop and Start: a step is taken, or tried again, or fails.
LEMMA ScaleTakes ==
  ASSUME TypeOK, NEW j \in Jobs, Stop(j) \/ Start(j)
  PROVE  /\ Running(j) /\ steps[j] # <<>> /\ Head(steps[j]) = NextStep(j)
         /\ UNCHANGED <<torn, outcome, note>>
         /\ kept' = kept \/ (NextStep(j) = "stop" /\ \E n \in Nat : kept' = [kept EXCEPT ![j] = n])
         /\ \/ Done(j) /\ Takes(j) /\ NextStep(j) \in {"stop", "start"}
            \/ workload' = workload /\ (steps' = steps \/ Fail(j))
<1>1. CASE Stop(j)
  <2> DEFINE n == IF Method = "helm" THEN view[j].replicas ELSE 1
  <2>1. /\ NextStep(j) = "stop" /\ ScaleTo(j, 0)
        /\ kept' = [kept EXCEPT ![j] = n]
        /\ UNCHANGED <<torn, outcome, note>>
    BY <1>1 DEF Stop
  <2>2. n \in Nat
    BY DEF TypeOK, Workload
  <2>3. kept'[j] = n /\ (Method # "helm" => n = 1)
    BY <2>1 DEF TypeOK
  <2> HIDE DEF n
  <2>4. Running(j) /\ steps[j] # <<>> /\ Head(steps[j]) = "stop"
    BY <2>1 DEF NextStep
  <2>5. \/ workload'.replicas = 0 /\ Done(j)
        \/ workload' = workload /\ (steps' = steps \/ Fail(j))
    BY <2>1, ScaleMoves
  <2>6. workload'.replicas = 0 /\ Done(j) => Takes(j)
    BY <2>1, <2>3, <2>4 DEF Done, Takes, TypeOK
  <2> QED
    BY <2>1, <2>2, <2>4, <2>5, <2>6
<1>2. CASE Start(j)
  <2>1. /\ NextStep(j) = "start" /\ ScaleTo(j, kept[j]) /\ kept[j] \in Nat
        /\ UNCHANGED <<torn, outcome, note, kept>>
    BY <1>2 DEF Start, TypeOK
  <2>2. Running(j) /\ steps[j] # <<>> /\ Head(steps[j]) = "start"
    BY <2>1 DEF NextStep
  <2>3. \/ workload'.replicas = kept[j] /\ Done(j)
        \/ workload' = workload /\ (steps' = steps \/ Fail(j))
    BY <2>1, ScaleMoves
  <2>4. workload'.replicas = kept[j] /\ Done(j) => Takes(j)
    BY <2>1, <2>2 DEF Done, Takes, TypeOK
  <2> QED
    BY <2>1, <2>2, <2>3, <2>4
<1> QED
  BY <1>1, <1>2

\* With one program at a time, none runs when one begins.
LEMMA BeginsAlone ==
  ASSUME NEW j \in Jobs, Begin(j), AtOnce = 1, IsFiniteSet(Jobs)
  PROVE  \A i \in Jobs : ~ Running(i)
<1> DEFINE R == {i \in Jobs : Running(i)}
<1>1. IsFiniteSet(R) /\ R \subseteq Jobs
  BY FS_Subset
<1>2. Cardinality(R) \in Nat /\ Cardinality(R) < 1
  BY <1>1, FS_CardinalityType DEF Begin
<1>3. R = {}
  BY <1>1, <1>2, FS_EmptySet
<1> QED
  BY <1>3

\* Every step of the system is a Move of every program.
LEMMA Moves ==
  ASSUME TypeOK, [Next]_vars, NEW k \in Jobs
  PROVE  Move(k)
<1> USE DEF nodeVars, jobVars
<1> DEFINE Same == /\ steps'[k] = steps[k] /\ outcome'[k] = outcome[k] /\ note'[k] = note[k]
                   /\ k \in torn' => k \in torn
                   /\ kept'[k] = kept[k]
<1>0. Same => Move(k)
  BY DEF Move
<1>1. ASSUME NEW j \in Jobs, Begin(j)
      PROVE  Move(k)
  <2>1. CASE j = k
    <3>1. AtOnce = 1 /\ IsFiniteSet(Jobs) => \A i \in Jobs : ~ Running(i)
      BY <1>1, BeginsAlone
    <3> QED
      BY <1>1, <2>1, <3>1 DEF Begin, TypeOK, Move
  <2>2. CASE j # k
    BY <1>0, <1>1, <2>2 DEF Begin, TypeOK
  <2> QED
    BY <2>1, <2>2
<1>2. ASSUME NEW j \in Jobs, Stop(j) \/ Start(j)
      PROVE  Move(k)
  <2>1. /\ Running(j)
        /\ UNCHANGED <<torn, outcome, note>>
        /\ kept' = kept \/ (NextStep(j) = "stop" /\ \E n \in Nat : kept' = [kept EXCEPT ![j] = n])
        /\ (Done(j) /\ Takes(j)) \/ steps' = steps \/ Fail(j)
    BY <1>2, ScaleTakes
  <2>2. CASE j = k
    <3>1. CASE Takes(j)
      BY <2>2, <3>1 DEF Move
    <3>2. CASE steps' = steps
      BY <2>1, <2>2, <3>2 DEF Move
    <3>3. CASE Fail(j)
      BY <2>1, <2>2, <3>3 DEF Fail, Move, TypeOK
    <3> QED
      BY <2>1, <3>1, <3>2, <3>3
  <2>3. CASE j # k
    <3>1. steps'[k] = steps[k] /\ kept'[k] = kept[k]
      BY <2>1, <2>3 DEF Done, Fail, TypeOK
    <3> QED
      BY <1>0, <2>1, <3>1
  <2> QED
    BY <2>2, <2>3
<1>4. ASSUME NEW j \in Jobs,
             CheckStopped(j) \/ BeginWork(j) \/ FinishWork(j) \/ AddAnnotations(j)
      PROVE  Move(k)
  <2>1. /\ Running(j) /\ steps[j] # <<>> /\ NextStep(j) = Head(steps[j])
        /\ Done(j) /\ UNCHANGED <<workload, pods, outcome, kept>>
    BY <1>4 DEF CheckStopped, BeginWork, FinishWork, AddAnnotations, NextStep
  <2>2. CASE j = k
    <3>1. steps'[k] = Tail(steps[k])
      BY <2>1, <2>2 DEF Done, TypeOK
    <3>2. CASE CheckStopped(j)
      BY <2>1, <2>2, <3>1, <3>2 DEF CheckStopped, Takes, Move
    <3>3. CASE BeginWork(j)
      BY <2>1, <2>2, <3>1, <3>3 DEF BeginWork, Takes, Move
    <3>4. CASE FinishWork(j)
      BY <2>1, <2>2, <3>1, <3>4 DEF FinishWork, Takes, Move
    <3>5. CASE AddAnnotations(j)
      BY <2>1, <2>2, <3>1, <3>5 DEF AddAnnotations, Takes, Move, TypeOK
    <3> QED
      BY <1>4, <3>2, <3>3, <3>4, <3>5
  <2>3. CASE j # k
    <3>1. steps'[k] = steps[k]
      BY <2>1, <2>3 DEF Done, TypeOK
    <3>2. note'[k] = note[k] /\ (k \in torn' => k \in torn)
      BY <1>4, <2>3 DEF CheckStopped, BeginWork, FinishWork, AddAnnotations, TypeOK
    <3> QED
      BY <1>0, <2>1, <3>1, <3>2
  <2> QED
    BY <2>2, <2>3
<1>5. ASSUME NEW j \in Jobs, Running(j), Fail(j), UNCHANGED <<torn, kept, outcome, note>>
      PROVE  Move(k)
  <2>1. CASE j = k
    BY <1>5, <2>1 DEF Fail, Move, TypeOK
  <2>2. CASE j # k
    BY <1>0, <1>5, <2>2 DEF Fail, TypeOK
  <2> QED
    BY <2>1, <2>2
<1>6. ASSUME NEW j \in Jobs, TimeOut(j) \/ FailCommand(j)
      PROVE  Move(k)
  BY <1>5, <1>6 DEF TimeOut, FailCommand, NextStep
<1>7. ASSUME NEW j \in Jobs, Running(j),
             outcome' = [outcome EXCEPT ![j] = "Failed"],
             steps' = [steps EXCEPT ![j] = <<>>],
             UNCHANGED <<torn, kept>>,
             note' = note \/ note' = [note EXCEPT ![j] = "err-log"]
      PROVE  Move(k)
  <2>1. CASE j = k
    BY <1>7, <2>1 DEF Move, TypeOK
  <2>2. CASE j # k
    BY <1>0, <1>7, <2>2 DEF TypeOK
  <2> QED
    BY <2>1, <2>2
<1>8. ASSUME NEW j \in Jobs, Panic(j) \/ AddLog(j) \/ Kill(j)
      PROVE  Move(k)
  BY <1>7, <1>8 DEF Panic, AddLog, Kill, NextStep
<1>9. ASSUME NEW j \in Jobs, FailCall(j)
      PROVE  Move(k)
  <2>1. Running(j) /\ UNCHANGED <<torn, kept, note>>
    BY <1>9 DEF FailCall, NextStep, Calls
  <2>2. \/ Fail(j) /\ UNCHANGED outcome
        \/ /\ outcome' = [outcome EXCEPT ![j] = "Failed"]
           /\ steps' = [steps EXCEPT ![j] = <<>>]
    BY <1>9 DEF FailCall
  <2> QED
    BY <1>5, <1>7, <2>1, <2>2
<1>10. ASSUME NEW j \in Jobs, Succeed(j)
       PROVE  Move(k)
  <2>1. CASE j = k
    BY <1>10, <2>1 DEF Succeed, Move, TypeOK
  <2>2. CASE j # k
    BY <1>0, <1>10, <2>2 DEF Succeed, TypeOK
  <2> QED
    BY <2>1, <2>2
<1>11. ASSUME NEW j \in Jobs, Refresh(j)
       PROVE  Move(k)
  BY <1>0, <1>11 DEF Refresh
<1>12. CASE Cluster
  BY <1>0, <1>12 DEF Cluster, ScaleUp, ScaleDown, BecomeReady, Gone, ReportReady
<1>13. CASE Evict \/ BecomeUnready
  BY <1>0, <1>13 DEF Evict, BecomeUnready
<1>14. CASE UNCHANGED vars
  BY <1>0, <1>14 DEF vars
<1> QED
  BY <1>1, <1>2, <1>4, <1>6, <1>8, <1>9, <1>10, <1>11, <1>12, <1>13, <1>14
     DEF Next, Step

-----------------------------------------------------------------------------
(* Invariants of what is left of a program.                                 *)

\* s can be what j has still to do.
Planned(j, s) ==
  /\ Ordered(s)
  /\ LastStarts(j, s)
  /\ ~ Stopping(j) => \A i \in 1 .. Len(s) : s[i] \notin {"stop", "start"}

\* Every program has something left that it can have.
Shape == \A j \in Jobs : Planned(j, steps[j])

\* A whole program, an ended or failed one and what follows a step are all of that kind.
LEMMA PlannedFacts ==
  ASSUME NEW j \in Jobs
  PROVE  /\ Planned(j, Program(j))
         /\ Planned(j, <<>>)
         /\ Planned(j, <<"log">>)
         /\ \A s : Planned(j, s) /\ s # <<>> => Planned(j, Tail(s))
<1>1. Planned(j, Program(j))
  BY ProgramOrdered DEF Planned
<1>2. Planned(j, <<>>)
  BY DEF Planned, Ordered, LastStarts
<1>3. Planned(j, <<"log">>)
  BY DEF Planned, Ordered, LastStarts, StepNames
<1>4. ASSUME NEW s, Planned(j, s), s # <<>>
      PROVE  Planned(j, Tail(s))
  <2> DEFINE t == Tail(s)
  <2>1. /\ Ordered(t)
        /\ Len(s) = Len(t) + 1 /\ Len(t) \in Nat
        /\ \A i \in 1 .. Len(t) : t[i] = s[i + 1]
    BY <1>4, TailOrdered DEF Planned
  <2> HIDE DEF t
  <2>2. LastStarts(j, t)
    <3>1. SUFFICES ASSUME t # <<>>, Stopping(j)
                   PROVE  t[Len(t)] \in {"start", "log"}
      BY DEF LastStarts
    <3>2. Len(t) \in 1 .. Len(t)
      <4>1. t \in Seq(StepNames)
        BY <2>1 DEF Ordered
      <4> QED
        BY <3>1, <4>1
    <3>3. t[Len(t)] = s[Len(s)]
      BY <2>1, <3>2
    <3> QED
      BY <1>4, <3>1, <3>3 DEF Planned, LastStarts
  <2>3. ASSUME ~ Stopping(j), NEW i \in 1 .. Len(t)
        PROVE  t[i] \notin {"stop", "start"}
    <3>1. i + 1 \in 1 .. Len(s) /\ t[i] = s[i + 1]
      BY <2>1
    <3> QED
      BY <1>4, <2>3, <3>1 DEF Planned
  <2>4. Planned(j, t)
    BY <2>1, <2>2, <2>3 DEF Planned
  <2> QED
    BY <2>4 DEF t
<1> QED
  BY <1>1, <1>2, <1>3, <1>4

\* Every step keeps Shape.
LEMMA ShapeStep == TypeOK /\ Shape /\ [Next]_vars => Shape'
<1> SUFFICES ASSUME TypeOK, Shape, [Next]_vars, NEW j \in Jobs
             PROVE  Planned(j, steps'[j])
  BY DEF Shape, Planned, Ordered, LastStarts, Stopping, Program, CloudConfig, Python, Helm,
         Around, Work
<1>1. Move(j)
  BY Moves
<1>2. Planned(j, steps[j])
  BY DEF Shape
<1> QED
  BY <1>1, <1>2, PlannedFacts DEF Move, Takes

\* A program that has begun to change the data and not finished has either "finish" before
\* it, or its error to log, or has ended.
TornIsHeld ==
  \A j \in torn : /\ outcome[j] # "waiting"
                  /\ Running(j) => steps[j] # <<>> /\ Head(steps[j]) \in {"finish", "log"}

\* The step that comes next after the one that is taken.
LEMMA HeadFacts ==
  ASSUME NEW s, Ordered(s), s # <<>>
  PROVE  /\ Head(s) = "begin" => Tail(s) # <<>> /\ Head(Tail(s)) = "finish"
         /\ Head(s) = "stop" => Tail(s) # <<>> /\ Head(Tail(s)) = "check"
         /\ Head(s) = "start" => Tail(s) = <<>>
         /\ Tail(s) # <<>> => Head(Tail(s)) \notin {"stop", "log", "panic"}
         /\ Tail(s) # <<>> /\ Head(Tail(s)) = "check" => Head(s) = "stop"
         /\ Tail(s) = <<>> => Len(s) = 1
<1> DEFINE t == Tail(s)
<1>1. /\ Ordered(t) /\ Head(s) = s[1]
      /\ Len(s) = Len(t) + 1 /\ Len(t) \in Nat
      /\ \A i \in 1 .. Len(t) : t[i] = s[i + 1] /\ t[i] # "stop"
  BY TailOrdered
<1> HIDE DEF t
<1>2. t \in Seq(StepNames) /\ (t = <<>> <=> Len(t) = 0)
  BY <1>1 DEF Ordered
<1>3. ASSUME t # <<>>
      PROVE  /\ 1 \in 1 .. Len(t) /\ Head(t) = t[1] /\ t[1] = s[2] /\ Len(s) >= 2
             /\ 2 \in 1 .. Len(s)
  <2>1. 1 \in 1 .. Len(t)
    BY <1>1, <1>2, <1>3
  <2>2. Head(t) = t[1]
    BY <1>2, <1>3
  <2>3. t[1] = s[2]
    <3>1. t[1] = s[1 + 1]
      BY <1>1, <2>1
    <3> QED
      BY <3>1
  <2> QED
    BY <1>1, <2>1, <2>2, <2>3
<1>4. 1 \in 1 .. Len(s)
  BY <1>1
<1>5. s[1] = "begin" => Len(t) > 0 /\ s[2] = "finish"
  <2>1. s[1] = "begin" => 1 < Len(s) /\ s[1 + 1] = "finish"
    BY <1>4 DEF Ordered
  <2> QED
    BY <1>1, <2>1
<1>6. s[1] = "stop" => Len(t) > 0 /\ s[2] = "check"
  <2>1. s[1] = "stop" => Len(s) > 1 /\ s[2] = "check"
    BY <1>4 DEF Ordered
  <2> QED
    BY <1>1, <2>1
<1>7. s[1] = "start" => Len(t) = 0
  <2>1. s[1] = "start" => 1 = Len(s)
    BY <1>4 DEF Ordered
  <2> QED
    BY <1>1, <2>1
<1>8. ASSUME t # <<>>
      PROVE  /\ Head(t) \notin {"stop", "log", "panic"}
             /\ Head(t) = "check" => s[1] = "stop"
  BY <1>1, <1>3, <1>8 DEF Ordered
<1>9. t = <<>> => Len(s) = 1
  BY <1>1, <1>2
<1>10. Len(t) > 0 => t # <<>>
  BY <1>2
<1> QED
  BY <1>1, <1>2, <1>3, <1>5, <1>6, <1>7, <1>8, <1>9, <1>10 DEF t

\* Every step keeps TornIsHeld.
LEMMA TornStep == TypeOK /\ Shape /\ TornIsHeld /\ [Next]_vars => TornIsHeld'
<1> SUFFICES ASSUME TypeOK, Shape, TornIsHeld, [Next]_vars, NEW j \in torn'
             PROVE  /\ outcome'[j] # "waiting"
                    /\ outcome'[j] = "running" => /\ steps'[j] # <<>>
                                                  /\ Head(steps'[j]) \in {"finish", "log"}
  BY DEF TornIsHeld, Running
<1>1. j \in Jobs
  BY TypeStep DEF TypeOK
<1>2. Move(j) /\ Ordered(steps[j])
  BY <1>1, Moves DEF Shape, Planned
<1>3. CASE Takes(j)
  <2>1. Head(steps[j]) = "begin"
    BY <1>3 DEF Takes, TornIsHeld
  <2> QED
    BY <1>2, <1>3, <2>1, HeadFacts DEF Takes, Running
<1>4. CASE ~ Takes(j)
  <2>1. j \in torn
    BY <1>2, <1>4 DEF Move
  <2>2. /\ outcome[j] # "waiting"
        /\ Running(j) => steps[j] # <<>> /\ Head(steps[j]) \in {"finish", "log"}
    BY <2>1 DEF TornIsHeld
  <2>3. <<"log">> # <<>> /\ Head(<<"log">>) = "log"
    OBVIOUS
  <2> QED
    BY <1>2, <1>4, <2>2, <2>3 DEF Move, Running
<1> QED
  BY <1>3, <1>4

\* A Backup or Snapshot that has not annotated its size has still to, unless it fails; one
\* that succeeded has.
WillReport ==
  \A j \in Jobs : OpOf[j] \in Measured =>
    /\ outcome[j] = "Succeeded" => note[j] = "size"
    /\ Running(j) => \/ note[j] = "size"
                     \/ \E i \in 1 .. Len(steps[j]) : steps[j][i] \in {"annotate", "log", "panic"}

\* cloud-config and python annotate the size of a Backup and of a Snapshot.
LEMMA ProgramReports ==
  ASSUME NEW j \in Jobs, Method # "helm", OpOf[j] \in Measured
  PROVE  \E i \in 1 .. Len(Program(j)) : Program(j)[i] \in {"annotate", "log", "panic"}
<1> DEFINE w == Work \o <<"annotate">>
<1>1. OpOf[j] # "SnapshotRecover"
  BY DEF Measured
<1>2. Program(j) = Around(ActionOf[j], w)
  <2>1. CASE Method = "cloud-config"
    BY <2>1 DEF Program, CloudConfig
  <2>2. CASE Method = "python"
    <3>1. Program(j) = Python(OpOf[j], ActionOf[j])
      BY <2>2 DEF Program
    <3> QED
      BY <1>1, <3>1 DEF Python
  <2> QED
    BY <2>1, <2>2, ProgramsAssumption DEF Methods
<1>3. w \in Seq(StepNames) /\ Len(w) = 3 /\ w[3] = "annotate"
  <2>1. Work \in Seq(StepNames) /\ Len(Work) = 2 /\ "annotate" \in StepNames
    BY DEF Work, StepNames
  <2>2. w \in Seq(StepNames) /\ Len(w) = Len(Work) + 1 /\ w[Len(Work) + 1] = "annotate"
    BY <2>1, Append1
  <2> QED
    BY <2>1, <2>2
<1> HIDE DEF w
<1>4. CASE ActionOf[j] = "StopAndStart"
  <2>1. Program(j) = Wrapped(w)
    BY <1>2, <1>4 DEF Around, Wrapped
  <2>2. Len(Program(j)) = 6 /\ Program(j)[5] = "annotate"
    <3>1. Len(Wrapped(w)) = Len(w) + 3 /\ \A i \in 1 .. Len(w) : Wrapped(w)[i + 2] = w[i]
      BY <1>3, WrappedShape
    <3>2. 3 \in 1 .. Len(w) /\ 3 + 2 = 5 /\ Len(w) + 3 = 6
      BY <1>3
    <3> QED
      BY <1>3, <2>1, <3>1, <3>2
  <2> QED
    BY <2>2
<1>5. CASE ActionOf[j] # "StopAndStart"
  <2>1. Program(j) = w
    BY <1>2, <1>5 DEF Around
  <2>2. 3 \in 1 .. Len(w)
    BY <1>3
  <2> QED
    BY <1>3, <2>1, <2>2
<1> QED
  BY <1>4, <1>5

\* Every step keeps WillReport.
LEMMA ReportStep ==
  TypeOK /\ Shape /\ WillReport /\ Method # "helm" /\ [Next]_vars => WillReport'
<1> SUFFICES ASSUME TypeOK, Shape, WillReport, Method # "helm", [Next]_vars,
                    NEW j \in Jobs, OpOf[j] \in Measured
             PROVE  /\ outcome'[j] = "Succeeded" => note'[j] = "size"
                    /\ outcome'[j] = "running" =>
                         \/ note'[j] = "size"
                         \/ \E i \in 1 .. Len(steps'[j]) :
                              steps'[j][i] \in {"annotate", "log", "panic"}
  BY DEF WillReport, Running
<1>1. Move(j) /\ Ordered(steps[j])
  BY Moves DEF Shape, Planned
<1>2. /\ outcome[j] = "Succeeded" => note[j] = "size"
      /\ outcome[j] = "running" =>
           \/ note[j] = "size"
           \/ \E i \in 1 .. Len(steps[j]) : steps[j][i] \in {"annotate", "log", "panic"}
  BY DEF WillReport, Running
<1>3. CASE Takes(j)
  <2>1. SUFFICES ASSUME Head(steps[j]) # "annotate", note[j] # "size"
                 PROVE  \E i \in 1 .. Len(steps'[j]) :
                          steps'[j][i] \in {"annotate", "log", "panic"}
    BY <1>2, <1>3 DEF Takes, Running
  <2>2. PICK i \in 1 .. Len(steps[j]) : steps[j][i] \in {"annotate", "log", "panic"}
    BY <1>2, <1>3, <2>1 DEF Takes, Running
  <2>3. /\ steps'[j] = Tail(steps[j])
        /\ Head(steps[j]) = steps[j][1]
        /\ Len(steps[j]) = Len(steps'[j]) + 1 /\ Len(steps'[j]) \in Nat
        /\ \A n \in 1 .. Len(steps'[j]) : steps'[j][n] = steps[j][n + 1]
    BY <1>1, <1>3, TailOrdered DEF Takes
  <2>4. i # 1
    BY <1>3, <2>1, <2>2, <2>3 DEF Takes
  <2>5. i - 1 \in 1 .. Len(steps'[j]) /\ (i - 1) + 1 = i
    BY <2>2, <2>3, <2>4
  <2>6. steps'[j][i - 1] = steps[j][(i - 1) + 1]
    BY <2>3, <2>5
  <2> QED
    BY <2>2, <2>5, <2>6
<1>4. CASE ~ Takes(j)
  <2>1. Len(<<"log">>) = 1 /\ <<"log">>[1] = "log" /\ 1 \in 1 .. 1
    OBVIOUS
  <2>2. Len(<<>>) = 0 /\ 1 .. 0 = {}
    OBVIOUS
  <2> QED
    BY <1>1, <1>2, <1>4, <2>1, <2>2, ProgramReports DEF Move, Running
<1> QED
  BY <1>3, <1>4

\* Only a program that takes its stop or its start changes the replicas: the controller of
\* the workload, the pods and every failure leave them alone.
LEMMA ReplicaMoves ==
  ASSUME TypeOK, [Next]_vars
  PROVE  \/ workload'.replicas = workload.replicas
         \/ /\ pods' = pods
            /\ \E j \in Jobs : Takes(j) /\ Head(steps[j]) \in {"stop", "start"}
<1> USE DEF nodeVars, jobVars
<1>1. ASSUME NEW j \in Jobs, Stop(j) \/ Start(j)
      PROVE  \/ workload' = workload
             \/ pods' = pods /\ Takes(j) /\ Head(steps[j]) \in {"stop", "start"}
  BY <1>1, ScaleTakes DEF Stop, Start
<1>2. CASE ReportReady
  <2>1. PICK n \in pods.ready .. (pods.ready + IF Method = "python" THEN 0 ELSE pods.closing) :
               Change([workload EXCEPT !.ready = n])
    BY <1>2 DEF ReportReady
  <2>2. n \in Nat
    BY <2>1, PodCounts
  <2>3. workload' = [workload EXCEPT !.ready = n]
    BY <2>1 DEF Change
  <2> QED
    BY <2>2, <2>3, PodCounts, WorkloadExcept
<1>3. ASSUME NEW j \in Jobs,
             \/ Begin(j) \/ CheckStopped(j) \/ TimeOut(j) \/ BeginWork(j) \/ FinishWork(j)
             \/ AddAnnotations(j) \/ Succeed(j) \/ Panic(j) \/ AddLog(j) \/ Refresh(j)
             \/ FailCommand(j) \/ FailCall(j) \/ Kill(j)
      PROVE  workload' = workload
  BY <1>3 DEF Begin, CheckStopped, TimeOut, BeginWork, FinishWork, AddAnnotations, Succeed,
              Panic, AddLog, Refresh, FailCommand, FailCall, Kill
<1>4. CASE ScaleUp \/ ScaleDown \/ BecomeReady \/ Gone \/ Evict \/ BecomeUnready
  BY <1>4 DEF ScaleUp, ScaleDown, BecomeReady, Gone, Evict, BecomeUnready
<1>5. CASE UNCHANGED vars
  BY <1>5 DEF vars
<1> QED
  BY <1>1, <1>2, <1>3, <1>4, <1>5 DEF Next, Step, Cluster

-----------------------------------------------------------------------------
(* Programs that run one at a time.                                         *)

\* One program at a time, on a node with one replica.
OneAtATime == AtOnce = 1 /\ IsFiniteSet(Jobs) /\ Method # "helm"

\* Only one program runs.  Once it has stopped the node the workload has no replicas until
\* its start, and then the one it kept.
Calm ==
  /\ \A i, j \in Jobs : Running(i) /\ Running(j) => i = j
  /\ workload.replicas \in {0, 1}
  /\ \A j \in Jobs : Running(j) /\ Stopping(j) =>
       /\ steps[j] = <<>> => workload.replicas = 1
       /\ steps[j] # <<>> /\ Head(steps[j]) \notin {"stop", "log"} =>
            workload.replicas = 0 /\ kept[j] = 1

\* Calm holds initially.
LEMMA CalmInit == OneAtATime /\ Init => Calm
  BY NumbersAssumption DEF OneAtATime, Init, Calm, Running

\* A program that stops the node does so first.
LEMMA ConstantFacts ==
  ASSUME NEW j \in Jobs, Stopping(j)
  PROVE  Program(j) # <<>> /\ Head(Program(j)) = "stop"
<1>1. Program(j) # <<>> /\ Program(j)[1] = "stop" /\ Ordered(Program(j))
  BY ProgramOrdered
<1>2. Head(Program(j)) = Program(j)[1]
  BY <1>1, TailOrdered
<1> QED
  BY <1>1, <1>2

\* Every step keeps Calm.
LEMMA CalmStep == OneAtATime /\ TypeOK /\ Shape /\ Calm /\ [Next]_vars => Calm'
<1> SUFFICES ASSUME OneAtATime, TypeOK, Shape, Calm, [Next]_vars
             PROVE  Calm'
  OBVIOUS
<1>1. \A j \in Jobs : Move(j) /\ Planned(j, steps[j])
  BY Moves DEF Shape
<1>2. ASSUME NEW i \in Jobs, NEW j \in Jobs, outcome'[i] = "running", outcome'[j] = "running"
      PROVE  i = j
  <2>1. ASSUME NEW k \in Jobs, outcome'[k] = "running", outcome[k] # "running"
        PROVE  \A n \in Jobs \ {k} : outcome'[n] # "running"
    BY <1>1, <2>1 DEF Move, Takes, Running, OneAtATime
  <2>2. CASE outcome[i] = "running" /\ outcome[j] = "running"
    BY <2>2 DEF Calm, Running
  <2> QED
    BY <1>2, <2>1, <2>2
<1>3. ASSUME NEW j \in Jobs, Takes(j), Head(steps[j]) = "start"
      PROVE  /\ Stopping(j) /\ kept[j] = 1 /\ workload'.replicas = 1
             /\ steps'[j] = <<>>
  <2>1. Head(steps[j]) = steps[j][1] /\ 1 \in 1 .. Len(steps[j])
    <3>1. /\ Head(steps[j]) = steps[j][1] /\ Len(Tail(steps[j])) \in Nat
          /\ Len(steps[j]) = Len(Tail(steps[j])) + 1
      BY <1>1, <1>3, TailOrdered DEF Planned, Takes
    <3> QED
      BY <3>1
  <2>2. Stopping(j)
    BY <1>1, <1>3, <2>1 DEF Planned
  <2>3. kept[j] = 1
    BY <1>3, <2>2 DEF Calm, Takes
  <2>4. steps'[j] = <<>>
    BY <1>1, <1>3, HeadFacts DEF Planned, Takes
  <2> QED
    BY <1>3, <2>2, <2>3, <2>4 DEF Takes
<1>4. workload'.replicas \in {0, 1}
  BY <1>3, ReplicaMoves DEF Calm, Takes
<1>5. ASSUME NEW j \in Jobs, outcome'[j] = "running", Stopping(j)
      PROVE  /\ steps'[j] = <<>> => workload'.replicas = 1
             /\ steps'[j] # <<>> /\ Head(steps'[j]) \notin {"stop", "log"} =>
                  workload'.replicas = 0 /\ kept'[j] = 1
  <2>1. ASSUME Running(j), ~ (Takes(j) /\ Head(steps[j]) \in {"stop", "start"})
        PROVE  workload'.replicas = workload.replicas
    BY <2>1, ReplicaMoves DEF Calm, Takes
  <2>2. CASE ~ Running(j)
    BY <1>1, <1>5, <2>2, ConstantFacts DEF Move, Takes, Running
  <2>3. CASE Takes(j)
    <3>1. CASE Head(steps[j]) = "stop"
      <4>1. steps'[j] # <<>> /\ workload'.replicas = 0 /\ kept'[j] = 1
        BY <1>1, <2>3, <3>1, HeadFacts DEF Planned, Takes, OneAtATime
      <4> QED
        BY <4>1
    <3>2. CASE Head(steps[j]) = "start"
      BY <1>3, <2>3, <3>2
    <3>3. CASE Head(steps[j]) \notin {"stop", "start"}
      <4>1. workload.replicas = 0 /\ kept[j] = 1
        BY <1>5, <2>3, <3>3 DEF Calm, Takes
      <4>2. workload'.replicas = 0 /\ kept'[j] = 1
        BY <2>1, <2>3, <3>3, <4>1 DEF Takes
      <4>3. steps'[j] # <<>>
        <5>1. SUFFICES ASSUME Tail(steps[j]) = <<>>
                       PROVE  FALSE
          BY <2>3 DEF Takes
        <5>2. Len(steps[j]) = 1 /\ Head(steps[j]) = steps[j][1]
          BY <1>1, <2>3, <5>1, HeadFacts, TailOrdered DEF Planned, Takes
        <5>3. steps[j][Len(steps[j])] \in {"start", "log"}
          BY <1>1, <1>5, <2>3 DEF Planned, LastStarts, Takes
        <5> QED
          BY <2>3, <3>3, <5>2, <5>3 DEF Takes
      <4> QED
        BY <4>2, <4>3
    <3> QED
      BY <3>1, <3>2, <3>3
  <2>4. CASE Running(j) /\ ~ Takes(j)
    <3>1. workload'.replicas = workload.replicas
      BY <2>1, <2>4
    <3>2. CASE steps'[j] = steps[j] /\ (kept'[j] = kept[j] \/ NextStep(j) = "stop")
      BY <1>5, <2>4, <3>1, <3>2 DEF Calm, NextStep
    <3>3. CASE steps'[j] = <<"log">>
      <4>1. <<"log">> # <<>> /\ Head(<<"log">>) = "log"
        OBVIOUS
      <4> QED
        BY <3>3, <4>1
    <3> QED
      BY <1>1, <1>5, <2>4, <3>2, <3>3 DEF Move, Running
  <2> QED
    BY <2>2, <2>3, <2>4 DEF Takes
<1> QED
  BY <1>2, <1>4, <1>5 DEF Calm, Running, Stopping, Program, CloudConfig, Python, Helm,
     Around, Work

\* The node has at most one pod, which goes away only when the workload has no replicas, and
\* none from the check of a program to its start.
Quiet ==
  /\ NodePods <= 1
  /\ pods.closing > 0 => workload.replicas = 0
  /\ \A j \in Jobs : /\ Running(j) /\ Stopping(j) /\ steps[j] # <<>>
                     /\ Head(steps[j]) \notin {"stop", "check", "log"}
                     => NodePods = 0

\* The check of python asks whether exactly one pod is there: an eviction makes it two.
NoEviction == Method = "python" /\ "evict" \notin Disturbances

\* Quiet holds initially.
LEMMA QuietInit == OneAtATime /\ Init => Quiet
<1> SUFFICES ASSUME OneAtATime, Init
             PROVE  Quiet
  OBVIOUS
<1>1. Size = 1 /\ workload.ready \in 0 .. 1
  BY NumbersAssumption DEF OneAtATime, Init
<1>2. pods.starting = 1 - workload.ready /\ pods.ready = workload.ready /\ pods.closing = 0
  BY <1>1 DEF Init
<1> QED
  BY <1>1, <1>2 DEF Quiet, NodePods, Live, Init, Running

\* What the cluster does to a quiet node; it never wakes one that has been stopped.
LEMMA PodsSteady ==
  ASSUME NoEviction, TypeOK, Calm, Quiet, [Next]_vars, pods' # pods
  PROVE  /\ UNCHANGED <<steps, outcome>> /\ workload' = workload
         /\ pods'.starting + pods'.ready + pods'.closing \in 0 .. 1
         /\ pods'.closing > 0 => workload.replicas = 0
         /\ NodePods = 0 /\ workload.replicas = 0 => FALSE
<1> USE DEF nodeVars, jobVars
<1>1. /\ workload.replicas \in {0, 1} /\ pods.starting \in Nat /\ pods.ready \in Nat
      /\ pods.closing \in Nat
      /\ pods.starting + pods.ready + pods.closing <= 1
      /\ pods.closing > 0 => workload.replicas = 0
  BY PodCounts DEF Calm, Quiet, NodePods, Live
<1>2. CASE ScaleUp
  <2>1. /\ pods.starting + pods.ready < workload.replicas
        /\ UNCHANGED <<steps, outcome>> /\ workload' = workload
    BY <1>2 DEF ScaleUp, NoEviction, Live
  <2>2. /\ pods'.starting = pods.starting + 1 /\ pods'.ready = pods.ready
        /\ pods'.closing = pods.closing
    BY <1>2, PodMoves DEF PodsAre
  <2> QED
    BY <1>1, <2>1, <2>2
<1>3. CASE ScaleDown
  <2>1. /\ pods.starting + pods.ready > workload.replicas /\ PodsClosed
        /\ UNCHANGED <<steps, outcome>> /\ workload' = workload
    BY <1>3, PodMoves DEF ScaleDown, Live
  <2>2. pods'.starting + pods'.ready + pods'.closing = pods.starting + pods.ready + pods.closing
    BY <1>1, <2>1 DEF PodsClosed, PodsAre
  <2> QED
    BY <1>1, <2>1, <2>2 DEF NodePods, Live
<1>4. CASE BecomeReady \/ Gone \/ BecomeUnready
  <2>1. UNCHANGED <<steps, outcome>> /\ workload' = workload
    BY <1>4 DEF BecomeReady, Gone, BecomeUnready
  <2>2. \/ /\ pods.starting > 0 /\ pods'.starting = pods.starting - 1
           /\ pods'.ready = pods.ready + 1 /\ pods'.closing = pods.closing
        \/ /\ pods.closing > 0 /\ pods'.starting = pods.starting
           /\ pods'.ready = pods.ready /\ pods'.closing = pods.closing - 1
        \/ /\ pods.ready > 0 /\ pods'.starting = pods.starting + 1
           /\ pods'.ready = pods.ready - 1 /\ pods'.closing = pods.closing
    BY <1>4, PodMoves DEF BecomeReady, Gone, BecomeUnready, PodsAre
  <2> QED
    BY <1>1, <2>1, <2>2 DEF NodePods, Live
<1>5. CASE ReportReady \/ UNCHANGED vars
  BY <1>5 DEF ReportReady, vars
<1>6. ASSUME NEW j \in Jobs,
             \/ Begin(j) \/ Step(j) \/ Refresh(j)
             \/ FailCommand(j) \/ FailCall(j) \/ Kill(j)
      PROVE  pods' = pods
  BY <1>6 DEF Begin, Step, Stop, CheckStopped, TimeOut, BeginWork, FinishWork,
              AddAnnotations, Start, Succeed, Panic, AddLog, Refresh, FailCommand, FailCall,
              Kill
<1>7. ~ Evict
  BY DEF Evict, Disturb, NoEviction
<1> QED
  BY <1>2, <1>3, <1>4, <1>5, <1>6, <1>7 DEF Next, Cluster

\* Every step keeps Quiet.
LEMMA QuietStep ==
  OneAtATime /\ NoEviction /\ TypeOK /\ Shape /\ Calm /\ Quiet /\ [Next]_vars => Quiet'
<1> SUFFICES ASSUME OneAtATime, NoEviction, TypeOK, Shape, Calm, Quiet, [Next]_vars
             PROVE  Quiet'
  OBVIOUS
<1>1. CASE pods' # pods
  <2>1. /\ UNCHANGED <<steps, outcome>> /\ workload' = workload
        /\ NodePods' <= 1
        /\ pods'.closing > 0 => workload.replicas = 0
        /\ ~ (NodePods = 0 /\ workload.replicas = 0)
    BY <1>1, PodsSteady DEF NodePods, Live
  <2>2. ASSUME NEW j \in Jobs, Running(j), Stopping(j), steps[j] # <<>>,
               Head(steps[j]) \notin {"stop", "check", "log"}
        PROVE  FALSE
    BY <2>1, <2>2 DEF Calm, Quiet
  <2> QED
    BY <2>1, <2>2 DEF Quiet, Running, Stopping, Program, CloudConfig, Python, Helm,
       Around, Work
<1>2. CASE pods' = pods
  <2>1. NodePods' = NodePods /\ pods'.closing = pods.closing
    BY <1>2 DEF NodePods, Live
  <2>2. ASSUME pods.closing > 0
        PROVE  workload'.replicas = 0
    <3>1. workload.replicas = 0 /\ NodePods # 0
      BY SMTT(30), <2>2, PodCounts DEF Quiet, NodePods, Live
    <3>2. ASSUME NEW j \in Jobs, Takes(j), Head(steps[j]) = "start"
          PROVE  FALSE
      <4>1. Stopping(j)
        <5>1. /\ Head(steps[j]) = steps[j][1] /\ Len(Tail(steps[j])) \in Nat
              /\ Len(steps[j]) = Len(Tail(steps[j])) + 1
          BY <3>2, TailOrdered DEF Shape, Planned, Takes
        <5>2. 1 \in 1 .. Len(steps[j])
          BY <5>1
        <5> QED
          BY <3>2, <5>1, <5>2 DEF Shape, Planned
      <4> QED
        BY <3>1, <3>2, <4>1 DEF Quiet, Takes
    <3> QED
      BY <3>1, <3>2, ReplicaMoves DEF Takes
  <2>3. ASSUME NEW j \in Jobs, outcome'[j] = "running", Stopping(j), steps'[j] # <<>>,
               Head(steps'[j]) \notin {"stop", "check", "log"}
        PROVE  NodePods = 0
    <3>1. Move(j) /\ Ordered(steps[j])
      BY Moves DEF Shape, Planned
    <3>2. CASE Takes(j)
      <4>1. Head(steps[j]) # "stop"
        BY <2>3, <3>1, <3>2, HeadFacts DEF Takes
      <4>2. CASE Head(steps[j]) = "check"
        <5>1. NodePods # 1
          BY <3>2, <4>2 DEF Takes, NoEviction
        <5> QED
          BY <5>1, PodCounts DEF Quiet, NodePods, Live
      <4>3. CASE Head(steps[j]) # "check"
        BY <2>3, <3>2, <4>1, <4>3 DEF Quiet, Takes
      <4> QED
        BY <4>2, <4>3
    <3>3. CASE ~ Takes(j)
      <4>1. steps'[j] = steps[j] /\ Running(j)
        <5>1. <<"log">> # <<>> /\ Head(<<"log">>) = "log"
          OBVIOUS
        <5> QED
          BY <2>3, <3>1, <3>3, <5>1, ConstantFacts DEF Move, Running
      <4> QED
        BY <2>3, <4>1 DEF Quiet
    <3> QED
      BY <3>2, <3>3
  <2> QED
    BY <2>1, <2>2, <2>3 DEF Quiet, Running, Stopping, Program, CloudConfig, Python, Helm,
       Around, Work
<1> QED
  BY <1>1, <1>2

-----------------------------------------------------------------------------
(* The theorems.                                                            *)

\* The order of the steps, and what torn data implies, are invariants.
LEMMA ShapeAlways == Spec => [](Shape /\ TornIsHeld)
<1>1. Init => Shape /\ TornIsHeld
  <2>1. \A j \in Jobs : Planned(j, <<>>)
    BY PlannedFacts
  <2> QED
    BY <2>1 DEF Init, Shape, TornIsHeld
<1>2. TypeOK /\ Shape /\ TornIsHeld /\ [Next]_vars => (Shape /\ TornIsHeld)'
  BY ShapeStep, TornStep
<1> QED
  BY <1>1, <1>2, TypeCorrect, PTL DEF Spec

\* Whatever the method, the programs, their interleaving, the conflicts, timeouts and
\* failures: no program starts the node on data it has itself left half changed.
THEOREM TornStaysDown == Spec => TornIsNotStarted
<1>1. TornIsHeld =>
        [\A j \in torn : Start(j) => workload'.replicas <= workload.replicas]_vars
  BY DEF TornIsHeld, Start, NextStep
<1> QED
  BY <1>1, ShapeAlways, PTL DEF TornIsNotStarted

\* With cloud-config and python a Backup or Snapshot that succeeds has its size in the
\* annotation of its pod.  (With helm a Backup succeeds and reports nothing.)
THEOREM SizeIsReported ==
  ASSUME Method # "helm"
  PROVE  Spec => []SizeReported
<1>1. Init => WillReport
  BY DEF Init, WillReport, Running
<1>2. WillReport => SizeReported
  BY DEF WillReport, SizeReported
<1>3. TypeOK /\ Shape /\ WillReport /\ [Next]_vars => WillReport'
  BY ReportStep
<1> QED
  BY <1>1, <1>2, <1>3, ShapeAlways, TypeCorrect, PTL DEF Spec

\* Calm is an invariant.
LEMMA CalmAlways ==
  ASSUME OneAtATime
  PROVE  Spec => []Calm
<1>1. Init => Calm
  BY CalmInit
<1>2. TypeOK /\ Shape /\ Calm /\ [Next]_vars => Calm'
  BY CalmStep
<1> QED
  BY <1>1, <1>2, ShapeAlways, TypeCorrect, PTL DEF Spec

\* Run one at a time, a program that stopped the node and succeeds has started it again,
\* also when an earlier one failed and left it stopped.
THEOREM NodeIsStarted ==
  ASSUME OneAtATime
  PROVE  Spec => StartedAgain
<1>1. TypeOK /\ Shape /\ Calm /\ [Next]_vars =>
        [\A j \in Jobs : /\ Running(j) /\ outcome'[j] = "Succeeded"
                         /\ Stopping(j)
                         => workload'.replicas = Size]_vars
  <2>1. SUFFICES ASSUME TypeOK, Shape, Calm, [Next]_vars,
                        NEW j \in Jobs, Running(j), outcome'[j] = "Succeeded", Stopping(j)
                 PROVE  workload'.replicas = 1
    BY NumbersAssumption DEF OneAtATime
  <2>2. steps[j] = <<>>
    BY <2>1, Moves DEF Move, Takes, Running
  <2>3. ASSUME NEW k \in Jobs
        PROVE  ~ Takes(k)
    BY <2>1, <2>2, <2>3 DEF Calm, Takes
  <2>4. workload'.replicas = workload.replicas
    BY <2>1, <2>3, ReplicaMoves
  <2> QED
    BY <2>1, <2>2, <2>4 DEF Calm
<1>2. Spec => []Calm
  BY CalmAlways
<1> QED
  BY <1>1, <1>2, ShapeAlways, TypeCorrect, PTL DEF Spec, StartedAgain

\* Run one at a time on python, with no pod of the node evicted, no pod of the node exists
\* while the data is copied or changed, however long the cached copies lag.
THEOREM NodeStaysDown ==
  ASSUME OneAtATime, NoEviction
  PROVE  Spec => []NodeIsDown
<1>1. TypeOK /\ Shape /\ Quiet => NodeIsDown
  BY DEF Quiet, NodeIsDown, Working, NextStep, Running
<1>2. Init => Quiet
  BY QuietInit
<1>3. TypeOK /\ Shape /\ Calm /\ Quiet /\ [Next]_vars => Quiet'
  BY QuietStep
<1>4. Spec => []Calm
  BY CalmAlways
<1> QED
  BY <1>1, <1>2, <1>3, <1>4, ShapeAlways, TypeCorrect, PTL DEF Spec
=============================================================================
