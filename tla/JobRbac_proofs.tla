---------------------------- MODULE JobRbac_proofs ----------------------------
(***************************************************************************)
(* Proofs about JobRbac, for any number of workers, namespaces and          *)
(* disturbances: its type, and that workers which read, extend and write   *)
(* one binding at the same time take nothing away from each other.         *)
(***************************************************************************)
EXTENDS JobRbac, SequenceTheorems, TLAPS

USE RoleAssumption, OtherAssumption

\* The subjects of a binding with one more of them.
LEMMA SubjectsAppend ==
  ASSUME NEW S, NEW s \in Seq(S), NEW e \in S
  PROVE  /\ Append(s, e) \in Seq(S)
         /\ Range(Append(s, e)) = Range(s) \cup {e}
<1> DEFINE t == Append(s, e)
<1>1. /\ t \in Seq(S) /\ Len(t) = Len(s) + 1 /\ Len(s) \in Nat
      /\ DOMAIN t = 1 .. Len(t) /\ DOMAIN s = 1 .. Len(s)
      /\ t[Len(s) + 1] = e
      /\ \A i \in 1 .. Len(s) : t[i] = s[i]
  OBVIOUS
<1>2. Range(t) \subseteq Range(s) \cup {e}
  <2> SUFFICES ASSUME NEW i \in 1 .. Len(s) + 1 PROVE t[i] \in Range(s) \cup {e}
    BY <1>1 DEF Range
  <2>1. CASE i = Len(s) + 1
    BY <2>1, <1>1
  <2>2. CASE i # Len(s) + 1
    BY <2>2, <1>1 DEF Range
  <2>3. QED
    BY <2>1, <2>2
<1>3. Range(s) \subseteq Range(t)
  <2> SUFFICES ASSUME NEW i \in 1 .. Len(s) PROVE s[i] \in Range(t)
    BY <1>1 DEF Range
  <2>1. i \in 1 .. Len(t) /\ t[i] = s[i]
    BY <1>1
  <2>2. QED
    BY <2>1, <1>1 DEF Range
<1>4. e \in Range(t)
  <2>1. Len(s) + 1 \in 1 .. Len(t)
    BY <1>1
  <2>2. QED
    BY <2>1, <1>1 DEF Range
<1>5. QED
  BY <1>1, <1>2, <1>3, <1>4

\* No two positions of a sequence hold the same subject.
Distinct(s) == \A i, j \in DOMAIN s : s[i] = s[j] => i = j

LEMMA DistinctAppend ==
  ASSUME NEW S, NEW s \in Seq(S), NEW e \in S, Distinct(s), e \notin Range(s)
  PROVE  Distinct(Append(s, e))
<1> DEFINE t == Append(s, e)
<1>1. /\ Len(t) = Len(s) + 1 /\ Len(s) \in Nat
      /\ DOMAIN t = 1 .. Len(t) /\ DOMAIN s = 1 .. Len(s)
      /\ t[Len(s) + 1] = e
      /\ \A i \in 1 .. Len(s) : t[i] = s[i]
  OBVIOUS
<1>2. \A i \in 1 .. Len(s) : s[i] # e
  BY <1>1 DEF Range
<1> SUFFICES ASSUME NEW i \in 1 .. Len(s) + 1, NEW j \in 1 .. Len(s) + 1,
                    t[i] = t[j]
             PROVE  i = j
  BY <1>1 DEF Distinct
<1>3. CASE i \in 1 .. Len(s) /\ j \in 1 .. Len(s)
  BY <1>3, <1>1 DEF Distinct
<1>4. CASE i \in 1 .. Len(s) /\ j = Len(s) + 1
  BY <1>4, <1>1, <1>2
<1>5. CASE i = Len(s) + 1 /\ j \in 1 .. Len(s)
  BY <1>5, <1>1, <1>2
<1>6. CASE i = Len(s) + 1 /\ j = Len(s) + 1
  BY <1>6
<1>7. i \in 1 .. Len(s) \/ i = Len(s) + 1
  BY <1>1
<1>8. j \in 1 .. Len(s) \/ j = Len(s) + 1
  BY <1>1
<1>9. QED
  BY <1>3, <1>4, <1>5, <1>6, <1>7, <1>8

\* A sequence of one subject.
LEMMA Single ==
  ASSUME NEW S, NEW e \in S
  PROVE  <<e>> \in Seq(S) /\ Range(<<e>>) = {e} /\ Distinct(<<e>>)
<1>1. <<e>> \in Seq(S) /\ DOMAIN <<e>> = {1} /\ <<e>>[1] = e
  OBVIOUS
<1>2. Range(<<e>>) = {e}
  BY <1>1 DEF Range
<1>3. Distinct(<<e>>)
  BY <1>1 DEF Distinct
<1>4. QED
  BY <1>1, <1>2, <1>3

LEMMA NoBindingFacts ==
  /\ NoBinding \in Binding /\ NoBinding.version = 0
  /\ Subjects(NoBinding) = {} /\ Distinct(NoBinding.subjects)
<1>1. NoBinding \in Binding /\ NoBinding.version = 0 /\ NoBinding.subjects = <<>>
  BY DEF NoBinding, Binding
<1>2. DOMAIN <<>> = {}
  OBVIOUS
<1>3. QED
  BY <1>1, <1>2 DEF Subjects, Range, Distinct
-----------------------------------------------------------------------------
(* Types.                                                                  *)

Store == /\ objects \in SUBSET Objects
         /\ binding \in Binding
         /\ revision \in Nat

Cache == /\ objectCache \in SUBSET Objects
         /\ bindingCache \in Binding

Work == /\ queue \in [Workers -> Seq(Namespaces)]
        /\ pc \in [Workers -> Locations]
        /\ ns \in [Workers -> Namespaces]
        /\ seen \in [Workers -> Binding]
        /\ \A w \in Workers : pc[w] = "extend" => seen[w] # NoBinding

History == /\ ensured \in SUBSET Namespaces
           /\ tampered \in BOOLEAN
           /\ faults \in Nat

LEMMA TypeParts == TypeOK <=> Store /\ Cache /\ Work /\ History
BY DEF TypeOK, Store, Cache, Work, History

LEMMA JoinedType ==
  ASSUME Work, NEW w \in Workers, NEW n \in Namespaces
  PROVE  Joined(w, n) \in Seq(Namespaces)
<1>1. queue[w] \in Seq(Namespaces)
  BY DEF Work
<1>2. Append(queue[w], n) \in Seq(Namespaces)
  BY <1>1
<1>3. QED
  BY <1>1, <1>2 DEF Joined

\* How a worker leaves a call.
LEMMA FailType ==
  ASSUME TypeOK, NEW w \in Workers, Fail(w), UNCHANGED ns
  PROVE  Work' /\ ensured' \in SUBSET Namespaces
<1>1. Work /\ ensured \in SUBSET Namespaces
  BY TypeParts DEF History
<1>2. ns[w] \in Namespaces
  BY <1>1 DEF Work
<1>3. queue' \in [Workers -> Seq(Namespaces)]
  BY <1>1, <1>2, JoinedType DEF Fail, Work
<1>4. pc' \in [Workers -> Locations] /\ pc'[w] = "idle"
      /\ \A v \in Workers \ {w} : pc'[v] = pc[v]
  BY <1>1 DEF Fail, GoTo, Work, Locations
<1>5. seen' \in [Workers -> Binding]
      /\ \A v \in Workers \ {w} : seen'[v] = seen[v]
  BY <1>1, NoBindingFacts DEF Fail, Work
<1>6. \A v \in Workers : pc'[v] = "extend" => seen'[v] # NoBinding
  BY <1>1, <1>4, <1>5 DEF Work
<1>7. ns' \in [Workers -> Namespaces] /\ ensured' \in SUBSET Namespaces
  BY <1>1 DEF Work, Fail
<1>8. QED
  BY <1>3, <1>4, <1>5, <1>6, <1>7 DEF Work

LEMMA SucceedType ==
  ASSUME TypeOK, NEW w \in Workers, Succeed(w), UNCHANGED ns
  PROVE  Work' /\ ensured' \in SUBSET Namespaces
<1>1. Work /\ ensured \in SUBSET Namespaces
  BY TypeParts DEF History
<1>2. ns[w] \in Namespaces
  BY <1>1 DEF Work
<1>4. pc' \in [Workers -> Locations] /\ pc'[w] = "idle"
      /\ \A v \in Workers \ {w} : pc'[v] = pc[v]
  BY <1>1 DEF Succeed, GoTo, Work, Locations
<1>5. seen' \in [Workers -> Binding]
      /\ \A v \in Workers \ {w} : seen'[v] = seen[v]
  BY <1>1, NoBindingFacts DEF Succeed, Work
<1>6. \A v \in Workers : pc'[v] = "extend" => seen'[v] # NoBinding
  BY <1>1, <1>4, <1>5 DEF Work
<1>7. ns' \in [Workers -> Namespaces] /\ ensured' \in SUBSET Namespaces
      /\ queue' \in [Workers -> Seq(Namespaces)]
  BY <1>1, <1>2 DEF Work, Succeed
<1>8. QED
  BY <1>4, <1>5, <1>6, <1>7 DEF Work

LEMMA ContinueType ==
  ASSUME TypeOK, NEW w \in Workers, NEW location \in Locations \ {"extend"},
         Continue(w, location), UNCHANGED <<ns, seen>>
  PROVE  Work' /\ ensured' \in SUBSET Namespaces
<1>1. Work /\ ensured \in SUBSET Namespaces
  BY TypeParts DEF History
<1>2. pc' \in [Workers -> Locations] /\ pc'[w] = location
      /\ \A v \in Workers \ {w} : pc'[v] = pc[v]
  BY <1>1 DEF Continue, GoTo, Work
<1>3. \A v \in Workers : pc'[v] = "extend" => seen'[v] # NoBinding
  BY <1>1, <1>2 DEF Work
<1>4. QED
  BY <1>1, <1>2, <1>3 DEF Work, Continue

\* What a worker sends, and a binding that is written.
LEMMA SentType ==
  ASSUME TypeOK, NEW w \in Workers
  PROVE  Sent(w) \in Seq(Namespaces \cup {Other})
<1>1. ns[w] \in Namespaces /\ seen[w].subjects \in Seq(Namespaces \cup {Other})
  BY DEF TypeOK, Binding
<1>2. <<ns[w]>> \in Seq(Namespaces \cup {Other})
  BY <1>1, Single
<1>3. Append(seen[w].subjects, ns[w]) \in Seq(Namespaces \cup {Other})
  BY <1>1, SubjectsAppend
<1>4. QED
  BY <1>2, <1>3 DEF Sent

LEMMA WriteType ==
  ASSUME TypeOK, NEW subjects \in Seq(Namespaces \cup {Other}), Write(subjects)
  PROVE  /\ binding' \in Binding /\ revision' \in Nat
         /\ revision' = revision + 1
         /\ binding'.version = revision + 1 /\ binding'.subjects = subjects
BY DEF TypeOK, Write, Binding

LEMMA RequestType ==
  ASSUME TypeOK, NEW w \in Workers, NEW n \in Namespaces, Request(w, n)
  PROVE  TypeOK'
<1>1. Store /\ Cache /\ Work /\ History
  BY TypeParts
<1>2. /\ queue' = [queue EXCEPT ![w] = Joined(w, n)]
      /\ UNCHANGED <<objects, binding, revision, objectCache, bindingCache>>
      /\ UNCHANGED <<pc, ns, seen, ensured, tampered, faults>>
  BY DEF Request, storeVars, cacheVars
<1>3. Work'
  BY <1>1, <1>2, JoinedType DEF Work
<1>4. Store' /\ Cache' /\ History'
  BY <1>1, <1>2 DEF Store, Cache, History
<1>5. QED
  BY <1>3, <1>4 DEF TypeOK, Store, Cache, Work, History

LEMMA BeginType ==
  ASSUME TypeOK, NEW w \in Workers, Begin(w)
  PROVE  TypeOK'
<1>1. Store /\ Cache /\ Work /\ History
  BY TypeParts
<1>2. /\ queue[w] # <<>>
      /\ ns' = [ns EXCEPT ![w] = Head(queue[w])]
      /\ queue' = [queue EXCEPT ![w] = Tail(queue[w])]
      /\ pc' = [pc EXCEPT ![w] = "account"]
      /\ UNCHANGED <<objects, binding, revision, objectCache, bindingCache>>
      /\ UNCHANGED <<seen, ensured, tampered, faults>>
  BY DEF Begin, GoTo, storeVars, cacheVars
<1>3. queue[w] \in Seq(Namespaces)
  BY <1>1 DEF Work
<1>4. Head(queue[w]) \in Namespaces /\ Tail(queue[w]) \in Seq(Namespaces)
  BY <1>2, <1>3
<1>5. ns' \in [Workers -> Namespaces] /\ queue' \in [Workers -> Seq(Namespaces)]
  BY <1>1, <1>2, <1>4 DEF Work
<1>6. /\ pc' \in [Workers -> Locations] /\ seen' \in [Workers -> Binding]
      /\ \A v \in Workers : pc'[v] = "extend" => seen'[v] # NoBinding
  BY <1>1, <1>2 DEF Work, Locations
<1>7. Store' /\ Cache' /\ History'
  BY <1>1, <1>2 DEF Store, Cache, History
<1>8. QED
  BY <1>5, <1>6, <1>7 DEF TypeOK, Store, Cache, Work, History

LEMMA GetType ==
  ASSUME TypeOK, NEW w \in Workers, NEW object,
         NEW found \in Locations \ {"extend"}, NEW missing \in Locations \ {"extend"},
         Get(w, object, found, missing)
  PROVE  TypeOK'
<1>1. Store /\ Cache /\ Work /\ History
  BY TypeParts
<1>2. PICK location \in Locations \ {"extend"} : Continue(w, location)
  BY DEF Get
<1>3. /\ UNCHANGED <<objects, binding, revision, objectCache, bindingCache>>
      /\ UNCHANGED <<ns, seen, tampered, faults>>
  BY DEF Get, storeVars, cacheVars
<1>4. Work' /\ ensured' \in SUBSET Namespaces
  BY <1>2, <1>3, ContinueType
<1>5. Store' /\ Cache' /\ History'
  BY <1>1, <1>3, <1>4 DEF Store, Cache, History
<1>6. QED
  BY <1>4, <1>5 DEF TypeOK, Store, Cache, Work, History

LEMMA MakeType ==
  ASSUME TypeOK, NEW w \in Workers, NEW object \in Objects,
         NEW next \in Locations \ {"extend"}, Make(w, object, next)
  PROVE  TypeOK'
<1>1. Store /\ Cache /\ Work /\ History
  BY TypeParts
<1>2. /\ UNCHANGED <<binding, revision, objectCache, bindingCache>>
      /\ UNCHANGED <<ns, tampered, faults>>
  BY DEF Make, storeVars, cacheVars
<1>3. Work' /\ ensured' \in SUBSET Namespaces
  <2>1. CASE Continue(w, next) /\ UNCHANGED seen
    BY <2>1, <1>2, ContinueType
  <2>2. CASE Fail(w)
    BY <2>2, <1>2, FailType
  <2>3. QED
    BY <2>1, <2>2 DEF Make
<1>4. objects' \in SUBSET Objects
  BY <1>1 DEF Make, Store
<1>5. Store' /\ Cache' /\ History'
  BY <1>1, <1>2, <1>3, <1>4 DEF Store, Cache, History
<1>6. QED
  BY <1>3, <1>5 DEF TypeOK, Store, Cache, Work, History

LEMMA EnsureObjectType ==
  ASSUME TypeOK, NEW w \in Workers, ensureServiceAccount(w) \/ ensureRole(w)
  PROVE  TypeOK'
<1>1. ns[w] \in Objects /\ Role \in Objects
  BY DEF TypeOK, Objects
<1>2. {"role", "makeAccount", "binding", "makeRole"} \subseteq Locations \ {"extend"}
  BY DEF Locations
<1>3. CASE Get(w, ns[w], "role", "makeAccount")
  BY <1>1, <1>2, <1>3, GetType
<1>4. CASE Make(w, ns[w], "role")
  BY <1>1, <1>2, <1>4, MakeType
<1>5. CASE Get(w, Role, "binding", "makeRole")
  BY <1>1, <1>2, <1>5, GetType
<1>6. CASE Make(w, Role, "binding")
  BY <1>1, <1>2, <1>6, MakeType
<1>7. QED
  BY <1>3, <1>4, <1>5, <1>6 DEF ensureServiceAccount, ensureRole

LEMMA GetBindingType ==
  ASSUME TypeOK, NEW w \in Workers, GetBinding(w)
  PROVE  TypeOK'
<1>1. Store /\ Cache /\ Work /\ History
  BY TypeParts
<1>2. /\ UNCHANGED <<objects, binding, revision, objectCache, bindingCache>>
      /\ UNCHANGED <<ns, tampered, faults>>
  BY DEF GetBinding, storeVars, cacheVars
<1>3. Work' /\ ensured' \in SUBSET Namespaces
  <2>1. CASE Continue(w, "makeBinding") /\ UNCHANGED seen
    <3>1. "makeBinding" \in Locations \ {"extend"}
      BY DEF Locations
    <3>2. QED
      BY <2>1, <3>1, <1>2, ContinueType
  <2>2. CASE Succeed(w)
    BY <2>2, <1>2, SucceedType
  <2>3. CASE /\ bindingCache # NoBinding
             /\ Continue(w, "extend")
             /\ seen' = [seen EXCEPT ![w] = bindingCache]
    <3>1. /\ pc' = [pc EXCEPT ![w] = "extend"] /\ UNCHANGED <<queue, ensured>>
          /\ "extend" \in Locations
      BY <2>3 DEF Continue, GoTo, Locations
    <3>2. bindingCache \in Binding
      BY <1>1 DEF Cache
    <3>3. \A v \in Workers : pc'[v] = "extend" => seen'[v] # NoBinding
      BY <1>1, <2>3, <3>1 DEF Work
    <3>4. QED
      BY <1>1, <1>2, <2>3, <3>1, <3>2, <3>3 DEF Work, History
  <2>4. QED
    BY <2>1, <2>2, <2>3 DEF GetBinding
<1>4. Store' /\ Cache' /\ History'
  BY <1>1, <1>2, <1>3 DEF Store, Cache, History
<1>5. QED
  BY <1>3, <1>4 DEF TypeOK, Store, Cache, Work, History

LEMMA WriteBindingType ==
  ASSUME TypeOK, NEW w \in Workers, WriteBinding(w)
  PROVE  TypeOK'
<1>1. Store /\ Cache /\ Work /\ History
  BY TypeParts
<1>2. UNCHANGED <<objects, objectCache, bindingCache, ns, tampered, faults>>
  BY DEF WriteBinding, storeVars, cacheVars
<1>3. Work' /\ ensured' \in SUBSET Namespaces
  <2>1. CASE Succeed(w)
    BY <2>1, <1>2, SucceedType
  <2>2. CASE Fail(w)
    BY <2>2, <1>2, FailType
  <2>3. QED
    BY <2>1, <2>2 DEF WriteBinding
<1>4. binding' \in Binding /\ revision' \in Nat
  <2>1. CASE Write(Sent(w))
    BY <2>1, SentType, WriteType
  <2>2. CASE UNCHANGED <<binding, revision>>
    BY <2>2, <1>1 DEF Store
  <2>3. QED
    BY <2>1, <2>2 DEF WriteBinding
<1>5. Store' /\ Cache' /\ History'
  BY <1>1, <1>2, <1>3, <1>4 DEF Store, Cache, History
<1>6. QED
  BY <1>3, <1>5 DEF TypeOK, Store, Cache, Work, History

LEMMA InformType ==
  ASSUME TypeOK, Inform
  PROVE  TypeOK'
<1>1. Store /\ Cache /\ Work /\ History
  BY TypeParts
<1>2. /\ UNCHANGED <<objects, binding, revision, queue, pc, ns, seen>>
      /\ UNCHANGED <<ensured, tampered, faults>>
  BY DEF Inform, InformBinding, InformObject, storeVars
<1>3. Cache'
  <2>1. CASE InformBinding
    BY <2>1, <1>1 DEF InformBinding, Store, Cache
  <2>2. ASSUME NEW object \in Objects, InformObject(object) PROVE Cache'
    BY <2>2, <1>1 DEF InformObject, Cache
  <2>3. QED
    BY <2>1, <2>2 DEF Inform
<1>4. Store' /\ Work' /\ History'
  BY <1>1, <1>2 DEF Store, Work, History
<1>5. QED
  BY <1>3, <1>4 DEF TypeOK, Store, Cache, Work, History

LEMMA CrashType ==
  ASSUME TypeOK, Crash
  PROVE  TypeOK'
<1>1. Store /\ Cache /\ Work /\ History
  BY TypeParts
<1>2. /\ UNCHANGED <<objects, binding, revision, ns, ensured, tampered>>
      /\ objectCache' = objects /\ bindingCache' = binding
      /\ faults' = faults + 1
      /\ pc' = [w \in Workers |-> "idle"]
      /\ seen' = [w \in Workers |-> NoBinding]
      /\ queue' = [w \in Workers |-> IF pc[w] = "idle" THEN queue[w]
                                     ELSE Joined(w, ns[w])]
  BY DEF Crash, Disturb, storeVars
<1>3. \A w \in Workers : /\ queue[w] \in Seq(Namespaces)
                         /\ Joined(w, ns[w]) \in Seq(Namespaces)
  BY <1>1, JoinedType DEF Work
<1>4. queue' \in [Workers -> Seq(Namespaces)]
  BY <1>2, <1>3
<1>5. pc' \in [Workers -> Locations] /\ \A w \in Workers : pc'[w] # "extend"
  BY <1>2 DEF Locations
<1>6. seen' \in [Workers -> Binding] /\ ns' \in [Workers -> Namespaces]
  BY <1>1, <1>2, NoBindingFacts DEF Work
<1>7. Store' /\ Cache' /\ History'
  BY <1>1, <1>2 DEF Store, Cache, History
<1>8. QED
  BY <1>4, <1>5, <1>6, <1>7 DEF TypeOK, Store, Cache, Work, History

LEMMA CallFailsType ==
  ASSUME TypeOK, NEW w \in Workers, CallFails(w)
  PROVE  TypeOK'
<1>1. Store /\ Cache /\ Work /\ History
  BY TypeParts
<1>2. /\ UNCHANGED <<objectCache, bindingCache, ns, tampered>>
      /\ faults' = faults + 1
      /\ Fail(w)
  BY DEF CallFails, Disturb, cacheVars
<1>3. Work' /\ ensured' \in SUBSET Namespaces
  BY <1>2, FailType
<1>4. ns[w] \in Objects /\ Role \in Objects
  BY <1>1 DEF Work, Objects
<1>5. Store'
  <2>1. CASE UNCHANGED storeVars
    BY <2>1, <1>1 DEF storeVars, Store
  <2>2. CASE (objects' = objects \cup {ns[w]} \/ objects' = objects \cup {Role})
             /\ UNCHANGED <<binding, revision>>
    BY <2>2, <1>1, <1>4 DEF Store
  <2>3. CASE Write(Sent(w)) /\ UNCHANGED objects
    BY <2>3, <1>1, SentType, WriteType DEF Store
  <2>4. QED
    BY <2>1, <2>2, <2>3 DEF CallFails
<1>6. Cache' /\ History'
  BY <1>1, <1>2, <1>3 DEF Cache, History
<1>7. QED
  BY <1>3, <1>5, <1>6 DEF TypeOK, Store, Cache, Work, History

LEMMA AdministerType ==
  ASSUME TypeOK, Administer
  PROVE  TypeOK'
<1>1. Store /\ Cache /\ Work /\ History
  BY TypeParts
<1>2. /\ UNCHANGED <<objectCache, bindingCache, queue, pc, ns, seen, ensured>>
      /\ faults' = faults + 1
  BY DEF Administer, AddSubject, DeleteObject, DeleteBinding, Disturb, cacheVars
<1>3. Store' /\ tampered' \in BOOLEAN
  <2>1. CASE AddSubject
    <3>1. binding.subjects \in Seq(Namespaces \cup {Other})
      BY <1>1 DEF Store, Binding
    <3>2. Append(binding.subjects, Other) \in Seq(Namespaces \cup {Other})
      BY <3>1
    <3>3. QED
      BY <2>1, <3>2, <1>1, WriteType DEF AddSubject, Store, History
  <2>2. CASE DeleteBinding
    BY <2>2, <1>1, NoBindingFacts DEF DeleteBinding, Store
  <2>3. ASSUME NEW object \in Objects, DeleteObject(object)
        PROVE  Store' /\ tampered' \in BOOLEAN
    BY <2>3, <1>1 DEF DeleteObject, Store
  <2>4. QED
    BY <2>1, <2>2, <2>3 DEF Administer
<1>4. Cache' /\ Work' /\ History'
  BY <1>1, <1>2, <1>3 DEF Cache, Work, History
<1>5. QED
  BY <1>3, <1>4 DEF TypeOK, Store, Cache, Work, History

LEMMA TypeInit == Init => TypeOK
<1> SUFFICES ASSUME Init PROVE TypeOK
  OBVIOUS
<1>1. Store /\ Cache
  BY NoBindingFacts DEF Init, Store, Cache
<1>2. <<>> \in Seq(Namespaces) /\ "idle" \in Locations
  BY DEF Locations
<1>3. /\ queue \in [Workers -> Seq(Namespaces)]
      /\ pc \in [Workers -> Locations]
      /\ ns \in [Workers -> Namespaces]
  BY <1>2 DEF Init
<1>4. /\ seen \in [Workers -> Binding]
      /\ \A w \in Workers : pc[w] # "extend"
  BY NoBindingFacts DEF Init
<1>5. History
  BY DEF Init, History
<1>6. QED
  BY <1>1, <1>3, <1>4, <1>5, TypeParts DEF Work

LEMMA TypeNext == TypeOK /\ [Next]_vars => TypeOK'
<1> SUFFICES ASSUME TypeOK, [Next]_vars PROVE TypeOK'
  OBVIOUS
<1>1. ASSUME NEW w \in Workers, NEW n \in Namespaces, Request(w, n) PROVE TypeOK'
  BY <1>1, RequestType
<1>2. ASSUME NEW w \in Workers, Ensure(w) PROVE TypeOK'
  BY <1>2, BeginType, EnsureObjectType, GetBindingType, WriteBindingType DEF Ensure
<1>3. ASSUME NEW w \in Workers, CallFails(w) PROVE TypeOK'
  BY <1>3, CallFailsType
<1>4. CASE Inform
  BY <1>4, InformType
<1>5. CASE Crash
  BY <1>5, CrashType
<1>6. CASE Administer
  BY <1>6, AdministerType
<1>7. CASE UNCHANGED vars
  BY <1>7 DEF vars, TypeOK
<1>8. QED
  BY <1>1, <1>2, <1>3, <1>4, <1>5, <1>6, <1>7 DEF Next

\* Every variable keeps its type, and only a worker that has read a binding
\* extends one.
THEOREM TypeCorrect == Spec => []TypeOK
BY TypeInit, TypeNext, PTL DEF Spec
-----------------------------------------------------------------------------
(* What a step does to the binding and its copies.                         *)

\* A copy is an earlier version: one of the same version is the binding
\* itself, and while nothing has been deleted what it lists is still listed.
Copy(b) == /\ b.version <= revision
           /\ b.version = 0 => b = NoBinding
           /\ b.version = binding.version => b = binding
           /\ ~tampered => Subjects(b) \subseteq Subjects(binding)

Copies == /\ Copy(binding)
          /\ Copy(bindingCache)
          /\ \A w \in Workers : Copy(seen[w])

\* The three ways a step may treat the binding.
Kept    == UNCHANGED <<binding, revision>> /\ (tampered => tampered')
Deleted == binding' = NoBinding /\ UNCHANGED revision /\ tampered' = TRUE
Written == /\ revision' = revision + 1
           /\ binding'.version = revision + 1
           /\ Subjects(binding) \subseteq Subjects(binding')
           /\ Distinct(binding'.subjects)
           /\ UNCHANGED tampered

\* A worker extends a binding that lacks its namespace.
Lacking == \A w \in Workers : pc[w] = "extend" => ns[w] \notin Subjects(seen[w])

\* No subject twice, in the names of this module.
LEMMA OneSubjectIsDistinct == OneSubjectEach <=> Distinct(binding.subjects)
BY DEF OneSubjectEach, Distinct

\* A write that is accepted only adds a subject.
LEMMA AcceptedWrite ==
  ASSUME TypeOK, Copies, Lacking, OneSubjectEach, NEW w \in Workers,
         pc[w] \in {"makeBinding", "extend"}, Accepted(w), Write(Sent(w)),
         UNCHANGED tampered
  PROVE  Written /\ Subjects(binding') = Subjects(binding) \cup {ns[w]}
<1>1. /\ revision' = revision + 1 /\ binding'.version = revision + 1
      /\ binding'.subjects = Sent(w)
  BY SentType, WriteType
<1>2. ns[w] \in Namespaces \cup {Other} /\ seen[w] \in Binding
  BY DEF TypeOK
<1>3. CASE pc[w] = "makeBinding"
  <2>1. binding = NoBinding /\ Sent(w) = <<ns[w]>>
    BY <1>3 DEF Accepted, Sent
  <2>2. Range(<<ns[w]>>) = {ns[w]} /\ Distinct(<<ns[w]>>)
    BY <1>2, Single
  <2>3. QED
    BY <1>1, <2>1, <2>2, NoBindingFacts DEF Written, Subjects
<1>4. CASE pc[w] = "extend"
  <2>1. seen[w] = binding /\ Sent(w) = Append(seen[w].subjects, ns[w])
    BY <1>4 DEF Accepted, Sent, Copies, Copy
  <2>2. ns[w] \notin Range(binding.subjects)
    BY <1>4, <2>1 DEF Lacking, Subjects
  <2>3. binding.subjects \in Seq(Namespaces \cup {Other})
    BY <1>2, <2>1 DEF Binding
  <2>4. Distinct(binding.subjects)
    BY OneSubjectIsDistinct
  <2>5. /\ Range(Append(binding.subjects, ns[w])) = Range(binding.subjects) \cup {ns[w]}
        /\ Distinct(Append(binding.subjects, ns[w]))
    BY <1>2, <2>2, <2>3, <2>4, SubjectsAppend, DistinctAppend
  <2>6. QED
    BY <1>1, <2>1, <2>5 DEF Written, Subjects
<1>5. QED
  BY <1>3, <1>4

\* An administrator's subject.
LEMMA AddedSubject ==
  ASSUME TypeOK, OneSubjectEach, AddSubject
  PROVE  Written
<1>1. binding.subjects \in Seq(Namespaces \cup {Other}) /\ Other \in Namespaces \cup {Other}
  BY DEF TypeOK, Binding
<1>2. Other \notin Range(binding.subjects) /\ UNCHANGED tampered
      /\ Write(Append(binding.subjects, Other))
  BY DEF AddSubject, Subjects
<1>3. /\ Append(binding.subjects, Other) \in Seq(Namespaces \cup {Other})
      /\ Range(Append(binding.subjects, Other)) = Range(binding.subjects) \cup {Other}
  BY <1>1, SubjectsAppend
<1>4. Distinct(Append(binding.subjects, Other))
  BY <1>1, <1>2, OneSubjectIsDistinct, DistinctAppend
<1>5. /\ revision' = revision + 1 /\ binding'.version = revision + 1
      /\ binding'.subjects = Append(binding.subjects, Other)
  BY <1>2, <1>3, WriteType
<1>6. QED
  BY <1>2, <1>3, <1>4, <1>5 DEF Written, Subjects

\* Every step keeps the binding, deletes it or adds to it; only an
\* administrator deletes.
LEMMA BindingStep ==
  ASSUME TypeOK, Copies, Lacking, OneSubjectEach, [Next]_vars
  PROVE  Kept \/ Written \/ (Deleted /\ Administer)
<1>1. ASSUME NEW w \in Workers, NEW n \in Namespaces, Request(w, n) PROVE Kept
  BY <1>1 DEF Request, storeVars, Kept
<1>2. ASSUME NEW w \in Workers, Ensure(w) PROVE Kept \/ Written
  <2>1. CASE Begin(w)
    BY <2>1 DEF Begin, storeVars, Kept
  <2>2. CASE ensureServiceAccount(w) \/ ensureRole(w)
    BY <2>2 DEF ensureServiceAccount, ensureRole, Get, Make, storeVars, Kept
  <2>3. CASE GetBinding(w)
    BY <2>3 DEF GetBinding, storeVars, Kept
  <2>4. CASE WriteBinding(w)
    <3>1. UNCHANGED tampered /\ pc[w] \in {"makeBinding", "extend"}
      BY <2>4 DEF WriteBinding
    <3>2. CASE Accepted(w) /\ Write(Sent(w))
      BY <3>1, <3>2, AcceptedWrite
    <3>3. CASE UNCHANGED <<binding, revision>>
      BY <3>1, <3>3 DEF Kept
    <3>4. QED
      BY <2>4, <3>2, <3>3 DEF WriteBinding
  <2>5. QED
    BY <1>2, <2>1, <2>2, <2>3, <2>4 DEF Ensure
<1>3. ASSUME NEW w \in Workers, CallFails(w) PROVE Kept \/ Written
  <2>1. UNCHANGED tampered
    BY <1>3 DEF CallFails
  <2>2. CASE UNCHANGED <<binding, revision>>
    BY <2>1, <2>2 DEF Kept
  <2>3. CASE pc[w] \in {"makeBinding", "extend"} /\ Accepted(w) /\ Write(Sent(w))
    BY <2>1, <2>3, AcceptedWrite
  <2>4. QED
    BY <1>3, <2>2, <2>3 DEF CallFails, storeVars
<1>4. CASE Inform \/ Crash \/ UNCHANGED vars
  BY <1>4 DEF Inform, InformBinding, InformObject, Crash, storeVars, vars, Kept
<1>5. CASE Administer
  <2>1. CASE AddSubject
    BY <2>1, AddedSubject
  <2>2. CASE DeleteBinding
    BY <2>2, <1>5 DEF DeleteBinding, Deleted
  <2>3. ASSUME NEW object \in Objects, DeleteObject(object) PROVE Kept
    BY <2>3 DEF DeleteObject, Kept
  <2>4. QED
    BY <1>5, <2>1, <2>2, <2>3 DEF Administer
<1>6. QED
  BY <1>1, <1>2, <1>3, <1>4, <1>5 DEF Next

\* A copy after a step that leaves it alone.
CopyNext(b) == /\ b.version <= revision'
               /\ b.version = 0 => b = NoBinding
               /\ b.version = binding'.version => b = binding'
               /\ ~tampered' => Subjects(b) \subseteq Subjects(binding')

LEMMA CopyStep ==
  ASSUME TypeOK, NEW b \in Binding, Copy(b), Copy(binding),
         Kept \/ Written \/ Deleted
  PROVE  CopyNext(b)
<1>1. revision \in Nat /\ b.version \in Nat /\ binding.version \in Nat
      /\ tampered \in BOOLEAN
  BY DEF TypeOK, Binding
<1>2. CASE Kept
  BY <1>2 DEF Kept, Copy, CopyNext
<1>3. CASE Written
  <2>1. b.version # binding'.version /\ b.version <= revision'
    BY <1>1, <1>3 DEF Written, Copy
  <2>2. ~tampered' => Subjects(b) \subseteq Subjects(binding')
    BY <1>3 DEF Written, Copy
  <2>3. QED
    BY <2>1, <2>2 DEF Copy, CopyNext
<1>4. CASE Deleted
  BY <1>1, <1>4, NoBindingFacts DEF Deleted, Copy, CopyNext
<1>5. QED
  BY <1>2, <1>3, <1>4

LEMMA BindingIsCopy ==
  ASSUME TypeOK, TypeOK', Copy(binding), Kept \/ Written \/ Deleted
  PROVE  Copy(binding)'
<1>1. revision \in Nat /\ binding.version \in Nat
  BY DEF TypeOK, Binding
<1>2. CASE Kept
  BY <1>2 DEF Kept, Copy
<1>3. CASE Written
  BY <1>1, <1>3 DEF Written, Copy
<1>4. CASE Deleted
  BY <1>1, <1>4, NoBindingFacts DEF Deleted, Copy
<1>5. QED
  BY <1>2, <1>3, <1>4

\* The worker that takes a step; the others stay where they are.
Alone(w) == \A v \in Workers \ {w} :
              pc'[v] = pc[v] /\ ns'[v] = ns[v] /\ seen'[v] = seen[v]

\* What the worker may do to its copy: keep it, drop it, or read a binding
\* that lacks its namespace in order to extend it.
KeepsCopy(w)  == seen'[w] = seen[w] /\ pc'[w] # "extend"
DropsCopy(w)  == seen'[w] = NoBinding /\ pc'[w] = "idle"
ReadsCopy(w)  == /\ seen'[w] = bindingCache
                 /\ ns'[w] = ns[w]
                 /\ ns[w] \notin Subjects(bindingCache)

LEMMA WorkerStep ==
  ASSUME TypeOK, NEW w \in Workers, Ensure(w) \/ CallFails(w)
  PROVE  /\ Alone(w)
         /\ KeepsCopy(w) \/ DropsCopy(w) \/ ReadsCopy(w)
         /\ bindingCache' = bindingCache
<1>0. /\ pc \in [Workers -> Locations] /\ ns \in [Workers -> Namespaces]
      /\ seen \in [Workers -> Binding]
  BY DEF TypeOK
<1>1. ASSUME Fail(w) \/ Succeed(w), UNCHANGED ns
      PROVE  Alone(w) /\ DropsCopy(w)
  BY <1>0, <1>1 DEF Fail, Succeed, GoTo, Alone, DropsCopy
<1>2. ASSUME NEW location \in Locations \ {"extend"}, Continue(w, location),
             UNCHANGED <<ns, seen>>
      PROVE  Alone(w) /\ KeepsCopy(w)
  BY <1>0, <1>2 DEF Continue, GoTo, Alone, KeepsCopy
<1>3. CASE Begin(w)
  BY <1>0, <1>3 DEF Begin, GoTo, cacheVars, Alone, KeepsCopy
<1>4. CASE ensureServiceAccount(w) \/ ensureRole(w)
  <2>1. PICK object : \/ Get(w, object, "role", "makeAccount")
                      \/ Make(w, object, "role")
                      \/ Get(w, object, "binding", "makeRole")
                      \/ Make(w, object, "binding")
    BY <1>4 DEF ensureServiceAccount, ensureRole
  <2>2. bindingCache' = bindingCache /\ UNCHANGED ns
    BY <2>1 DEF Get, Make, cacheVars
  <2>3. \/ Fail(w)
        \/ \E location \in Locations \ {"extend"} :
             Continue(w, location) /\ UNCHANGED seen
    <3>1. {"role", "makeAccount", "binding", "makeRole"} \subseteq Locations \ {"extend"}
      BY DEF Locations
    <3>2. QED
      BY <2>1, <3>1 DEF Get, Make
  <2>4. QED
    BY <2>2, <2>3, <1>1, <1>2
<1>5. CASE GetBinding(w)
  <2>1. UNCHANGED ns /\ bindingCache' = bindingCache
    BY <1>5 DEF GetBinding, cacheVars
  <2>2. CASE Continue(w, "makeBinding") /\ UNCHANGED seen
    <3>1. "makeBinding" \in Locations \ {"extend"}
      BY DEF Locations
    <3>2. QED
      BY <2>1, <2>2, <3>1, <1>2
  <2>3. CASE Succeed(w)
    BY <2>1, <2>3, <1>1
  <2>4. CASE /\ ns[w] \notin Subjects(bindingCache)
             /\ Continue(w, "extend")
             /\ seen' = [seen EXCEPT ![w] = bindingCache]
    BY <1>0, <2>1, <2>4 DEF Continue, GoTo, Alone, ReadsCopy
  <2>5. QED
    BY <1>5, <2>1, <2>2, <2>3, <2>4 DEF GetBinding
<1>6. CASE WriteBinding(w)
  <2>1. UNCHANGED ns /\ bindingCache' = bindingCache /\ (Fail(w) \/ Succeed(w))
    BY <1>6 DEF WriteBinding, cacheVars
  <2>2. QED
    BY <2>1, <1>1
<1>7. CASE CallFails(w)
  <2>1. UNCHANGED ns /\ bindingCache' = bindingCache /\ Fail(w)
    BY <1>7 DEF CallFails, cacheVars
  <2>2. QED
    BY <2>1, <1>1
<1>8. QED
  BY <1>3, <1>4, <1>5, <1>6, <1>7 DEF Ensure

\* What the other steps do to the copies.
LEMMA OtherStep ==
  ASSUME TypeOK,
         \/ \E w \in Workers, n \in Namespaces : Request(w, n)
         \/ Inform \/ Crash \/ Administer \/ UNCHANGED vars
  PROVE  /\ bindingCache' \in {bindingCache, binding}
         /\ \/ UNCHANGED <<pc, ns, seen>>
            \/ /\ pc' = [w \in Workers |-> "idle"]
               /\ seen' = [w \in Workers |-> NoBinding]
<1>1. ASSUME NEW w \in Workers, NEW n \in Namespaces, Request(w, n)
      PROVE  bindingCache' = bindingCache /\ UNCHANGED <<pc, ns, seen>>
  BY <1>1 DEF Request, cacheVars
<1>2. CASE Inform
  BY <1>2 DEF Inform, InformBinding, InformObject
<1>3. CASE Crash
  BY <1>3 DEF Crash
<1>4. CASE Administer
  BY <1>4 DEF Administer, AddSubject, DeleteBinding, DeleteObject, cacheVars
<1>5. CASE UNCHANGED vars
  BY <1>5 DEF vars
<1>6. QED
  BY <1>1, <1>2, <1>3, <1>4, <1>5

\* Copies stay copies, and a worker extends what lacks its namespace.
LEMMA CopiesStep ==
  ASSUME TypeOK, TypeOK', Copies, Lacking, OneSubjectEach, [Next]_vars
  PROVE  Copies' /\ Lacking'
<1>1. Kept \/ Written \/ Deleted
  BY BindingStep
<1>2. binding \in Binding /\ bindingCache \in Binding /\ NoBinding \in Binding
      /\ \A w \in Workers : seen[w] \in Binding
  BY NoBindingFacts DEF TypeOK
<1>3. Copy(NoBinding)
  <2>1. revision \in Nat /\ NoBinding.version = 0 /\ Subjects(NoBinding) = {}
    BY NoBindingFacts DEF TypeOK
  <2>2. binding.version = 0 => binding = NoBinding
    BY DEF Copies, Copy
  <2>3. QED
    BY <2>1, <2>2 DEF Copy
<1>4. /\ CopyNext(binding) /\ CopyNext(bindingCache) /\ CopyNext(NoBinding)
      /\ \A w \in Workers : CopyNext(seen[w])
  BY <1>1, <1>2, <1>3, CopyStep DEF Copies
<1>5. Copy(binding)'
  BY <1>1, BindingIsCopy DEF Copies
<1>6. SUFFICES /\ CopyNext(bindingCache')
               /\ \A w \in Workers : CopyNext(seen'[w])
               /\ Lacking'
  BY <1>5 DEF Copies, Copy, CopyNext
<1>7. ASSUME NEW w \in Workers, Ensure(w) \/ CallFails(w)
      PROVE  /\ CopyNext(bindingCache')
             /\ \A v \in Workers : CopyNext(seen'[v])
             /\ Lacking'
  <2>1. /\ Alone(w) /\ bindingCache' = bindingCache
        /\ KeepsCopy(w) \/ DropsCopy(w) \/ ReadsCopy(w)
    BY <1>7, WorkerStep
  <2>2. \A v \in Workers : CopyNext(seen'[v])
    <3>1. seen'[w] \in {seen[w], NoBinding, bindingCache}
      BY <2>1 DEF KeepsCopy, DropsCopy, ReadsCopy
    <3>2. \A v \in Workers \ {w} : seen'[v] = seen[v]
      BY <2>1 DEF Alone
    <3>3. QED
      BY <3>1, <3>2, <1>4
  <2>3. Lacking'
    <3>1. \A v \in Workers \ {w} : pc'[v] = "extend" => ns'[v] \notin Subjects(seen'[v])
      BY <2>1 DEF Alone, Lacking
    <3>2. pc'[w] = "extend" => ns'[w] \notin Subjects(seen'[w])
      BY <2>1 DEF KeepsCopy, DropsCopy, ReadsCopy
    <3>3. QED
      BY <3>1, <3>2 DEF Lacking, Subjects
  <2>4. QED
    BY <2>1, <2>2, <2>3, <1>4
<1>8. ASSUME \/ \E w \in Workers, n \in Namespaces : Request(w, n)
             \/ Inform \/ Crash \/ Administer \/ UNCHANGED vars
      PROVE  /\ CopyNext(bindingCache')
             /\ \A w \in Workers : CopyNext(seen'[w])
             /\ Lacking'
  <2>1. bindingCache' \in {bindingCache, binding}
    BY <1>8, OtherStep
  <2>2. CASE UNCHANGED <<pc, ns, seen>>
    <3>1. Lacking'
      BY <2>2 DEF Lacking, Subjects
    <3>2. QED
      BY <2>1, <2>2, <3>1, <1>4
  <2>3. CASE /\ pc' = [w \in Workers |-> "idle"]
             /\ seen' = [w \in Workers |-> NoBinding]
    <3>1. Lacking'
      BY <2>3 DEF Lacking
    <3>2. QED
      BY <2>1, <2>3, <3>1, <1>4
  <2>4. QED
    BY <1>8, <2>2, <2>3, OtherStep
<1>9. QED
  BY <1>7, <1>8 DEF Next

LEMMA DistinctStep ==
  ASSUME TypeOK, Copies, Lacking, OneSubjectEach, [Next]_vars
  PROVE  OneSubjectEach'
<1>1. CASE Kept
  BY <1>1 DEF Kept, OneSubjectEach
<1>2. CASE Written
  BY <1>2 DEF Written, OneSubjectEach, Distinct
<1>3. CASE Deleted
  BY <1>3, NoBindingFacts DEF Deleted, OneSubjectEach, Distinct
<1>4. QED
  BY <1>1, <1>2, <1>3, BindingStep

\* The binding and its copies, through every step.
CopyInv == TypeOK /\ Copies /\ Lacking /\ OneSubjectEach

LEMMA CopyInit == Init => CopyInv
<1> SUFFICES ASSUME Init PROVE CopyInv
  OBVIOUS
<1>1. TypeOK
  BY TypeInit
<1>2. Copy(NoBinding) /\ binding = NoBinding /\ bindingCache = NoBinding
      /\ \A w \in Workers : seen[w] = NoBinding /\ pc[w] = "idle"
  BY NoBindingFacts DEF Init, Copy
<1>3. Copies /\ Lacking
  BY <1>2 DEF Copies, Lacking
<1>4. OneSubjectEach
  BY <1>2, NoBindingFacts DEF OneSubjectEach, Distinct
<1>5. QED
  BY <1>1, <1>3, <1>4 DEF CopyInv

LEMMA CopyInvStep == CopyInv /\ [Next]_vars => CopyInv'
<1> SUFFICES ASSUME CopyInv, [Next]_vars PROVE CopyInv'
  OBVIOUS
<1>1. TypeOK /\ Copies /\ Lacking /\ OneSubjectEach
  BY DEF CopyInv
<1>2. TypeOK'
  BY <1>1, TypeNext
<1>3. Copies' /\ Lacking'
  BY <1>1, <1>2, CopiesStep
<1>4. OneSubjectEach'
  BY <1>1, DistinctStep
<1>5. QED
  BY <1>2, <1>3, <1>4 DEF CopyInv

LEMMA CopyAlways == Spec => []CopyInv
BY CopyInit, CopyInvStep, PTL DEF Spec

\* No namespace is in the binding twice, for any number of workers that
\* extend it at the same time.
THEOREM NoDuplicates == Spec => []OneSubjectEach
<1>1. CopyInv => OneSubjectEach
  BY DEF CopyInv
<1>2. QED
  BY <1>1, CopyAlways, PTL

\* No step but an administrator's takes a subject out of the binding.
THEOREM NothingRemoved == Spec => KeepsSubjects
<1>1. CopyInv /\ [Next]_vars
      => [~Administer => Subjects(binding) \subseteq Subjects(binding')]_vars
  <2> SUFFICES ASSUME CopyInv, [Next]_vars, ~Administer
               PROVE  Subjects(binding) \subseteq Subjects(binding')
    OBVIOUS
  <2>1. Kept \/ Written
    BY BindingStep DEF CopyInv
  <2>2. QED
    BY <2>1 DEF Kept, Written
<1>2. QED
  BY <1>1, CopyAlways, PTL DEF Spec, KeepsSubjects
-----------------------------------------------------------------------------
(* What Ensure has found or made is there.                                 *)

PastAccount == {"role", "makeRole", "binding", "makeBinding", "extend"}
PastRole    == {"binding", "makeBinding", "extend"}

\* What a worker at that place has made sure of.
Reached(location, n) == /\ location \in PastAccount => n \in objects
                        /\ location \in PastRole => Role \in objects

Sound == /\ objectCache \subseteq objects
         /\ \A w \in Workers : Reached(pc[w], ns[w])
         /\ \A n \in ensured : Bound(n)

\* A step that deletes nothing keeps all objects, and the subjects.
LEMMA NothingDeleted ==
  ASSUME CopyInv, [Next]_vars, ~tampered'
  PROVE  /\ ~tampered
         /\ objects \subseteq objects'
         /\ Subjects(binding) \subseteq Subjects(binding')
<1>1. Kept \/ Written
  BY BindingStep DEF CopyInv, Deleted
<1>2. ~tampered /\ Subjects(binding) \subseteq Subjects(binding')
  BY <1>1 DEF Kept, Written
<1>3. objects \subseteq objects'
  <2>1. ASSUME NEW w \in Workers, NEW n \in Namespaces, Request(w, n)
        PROVE  objects \subseteq objects'
    BY <2>1 DEF Request, storeVars
  <2>2. ASSUME NEW w \in Workers, Ensure(w) PROVE objects \subseteq objects'
    BY <2>2 DEF Ensure, Begin, ensureServiceAccount, ensureRole, Get, Make,
                GetBinding, WriteBinding, storeVars
  <2>3. ASSUME NEW w \in Workers, CallFails(w) PROVE objects \subseteq objects'
    BY <2>3 DEF CallFails, storeVars
  <2>4. CASE Inform \/ Crash \/ UNCHANGED vars
    BY <2>4 DEF Inform, InformBinding, InformObject, Crash, storeVars, vars
  <2>5. CASE Administer
    BY <2>5 DEF Administer, AddSubject, DeleteBinding, DeleteObject
  <2>6. QED
    BY <2>1, <2>2, <2>3, <2>4, <2>5 DEF Next
<1>4. QED
  BY <1>2, <1>3

\* What was reached before such a step still is.
LEMMA ReachedStays ==
  ASSUME objects \subseteq objects', NEW location, NEW n, Reached(location, n)
  PROVE  /\ location \in PastAccount => n \in objects'
         /\ location \in PastRole => Role \in objects'
BY DEF Reached

\* A worker moves on only when the object is there.
LEMMA EnsureReaches ==
  ASSUME TypeOK, Sound, objects \subseteq objects', NEW w \in Workers,
         Ensure(w) \/ CallFails(w)
  PROVE  /\ pc'[w] \in PastAccount => ns'[w] \in objects'
         /\ pc'[w] \in PastRole => Role \in objects'
<1>0. pc \in [Workers -> Locations] /\ ns \in [Workers -> Namespaces]
  BY DEF TypeOK
<1>1. Reached(pc[w], ns[w]) /\ objectCache \subseteq objects'
  BY DEF Sound
<1>2. ASSUME Fail(w) \/ Succeed(w) PROVE pc'[w] = "idle"
  BY <1>0, <1>2 DEF Fail, Succeed, GoTo
<1>3. ASSUME NEW location, Continue(w, location), UNCHANGED ns
      PROVE  pc'[w] = location /\ ns'[w] = ns[w]
  BY <1>0, <1>3 DEF Continue, GoTo
<1>4. "idle" \notin PastAccount /\ PastRole \subseteq PastAccount
  BY DEF PastAccount, PastRole
<1>5. CASE Begin(w)
  <2>1. pc'[w] = "account"
    BY <1>0, <1>5 DEF Begin, GoTo
  <2>2. QED
    BY <2>1 DEF PastAccount, PastRole
<1>6. CASE ensureServiceAccount(w)
  <2>1. UNCHANGED ns
    BY <1>6 DEF ensureServiceAccount, Get, Make
  <2>2. \/ pc'[w] \in {"idle", "makeAccount"}
        \/ pc'[w] = "role" /\ ns[w] \in objects'
    <3>1. CASE Get(w, ns[w], "role", "makeAccount")
      BY <3>1, <2>1, <1>1, <1>3 DEF Get
    <3>2. CASE Make(w, ns[w], "role")
      BY <3>2, <2>1, <1>2, <1>3 DEF Make
    <3>3. QED
      BY <1>6, <3>1, <3>2 DEF ensureServiceAccount
  <2>3. QED
    BY <2>1, <2>2 DEF PastAccount, PastRole
<1>7. CASE ensureRole(w)
  <2>1. UNCHANGED ns
    BY <1>7 DEF ensureRole, Get, Make
  <2>2. ns[w] \in objects'
    BY <1>7, <1>1 DEF ensureRole, Reached, PastAccount
  <2>3. \/ pc'[w] \in {"idle", "makeRole"}
        \/ pc'[w] = "binding" /\ Role \in objects'
    <3>1. CASE Get(w, Role, "binding", "makeRole")
      BY <3>1, <2>1, <1>1, <1>3 DEF Get
    <3>2. CASE Make(w, Role, "binding")
      BY <3>2, <2>1, <1>2, <1>3 DEF Make
    <3>3. QED
      BY <1>7, <3>1, <3>2 DEF ensureRole
  <2>4. QED
    BY <2>1, <2>2, <2>3 DEF PastAccount, PastRole
<1>8. CASE GetBinding(w)
  <2>1. UNCHANGED ns
    BY <1>8 DEF GetBinding
  <2>2. ns[w] \in objects' /\ Role \in objects'
    BY <1>8, <1>1 DEF GetBinding, Reached, PastAccount, PastRole
  <2>3. QED
    BY <2>1, <2>2
<1>9. CASE WriteBinding(w)
  BY <1>9, <1>2, <1>4 DEF WriteBinding
<1>10. CASE CallFails(w)
  BY <1>10, <1>2, <1>4 DEF CallFails
<1>11. QED
  BY <1>5, <1>6, <1>7, <1>8, <1>9, <1>10 DEF Ensure

\* Ensure returns nil only for a namespace that is bound.
LEMMA EnsuredIsBound ==
  ASSUME CopyInv, Sound, [Next]_vars, ~tampered', NEW n \in ensured'
  PROVE  Bound(n)'
<1>1. TypeOK /\ Copies /\ Lacking /\ OneSubjectEach
  BY DEF CopyInv
<1>2. /\ ~tampered /\ objects \subseteq objects'
      /\ Subjects(binding) \subseteq Subjects(binding')
  BY NothingDeleted
<1>3. CASE n \in ensured
  BY <1>2, <1>3 DEF Sound, Bound, Subjects
<1>4. CASE n \notin ensured
  <2>1. PICK w \in Workers : \/ GetBinding(w) /\ Succeed(w)
                             \/ WriteBinding(w) /\ Succeed(w)
    <3>1. ASSUME NEW v \in Workers, NEW m \in Namespaces, Request(v, m)
          PROVE  ensured' = ensured
      BY <3>1 DEF Request
    <3>2. ASSUME NEW v \in Workers, CallFails(v) PROVE ensured' = ensured
      BY <3>2 DEF CallFails, Fail
    <3>3. ASSUME Inform \/ Crash \/ Administer \/ UNCHANGED vars
          PROVE  ensured' = ensured
      BY <3>3 DEF Inform, InformBinding, InformObject, Crash, Administer,
                  AddSubject, DeleteBinding, DeleteObject, vars
    <3>4. ASSUME NEW v \in Workers,
                 Begin(v) \/ ensureServiceAccount(v) \/ ensureRole(v)
          PROVE  ensured' = ensured
      BY <3>4 DEF Begin, ensureServiceAccount, ensureRole, Get, Make, Fail, Continue
    <3>5. PICK v \in Workers : GetBinding(v) \/ WriteBinding(v)
      BY <1>4, <3>1, <3>2, <3>3, <3>4 DEF Next, Ensure
    <3>6. Succeed(v)
      BY <1>4, <3>5 DEF GetBinding, WriteBinding, Continue, Fail
    <3>7. QED
      BY <3>5, <3>6
  <2>2. n = ns[w]
    BY <1>4, <2>1 DEF Succeed
  <2>3. pc[w] \in PastRole /\ pc[w] \in PastAccount
    BY <2>1 DEF GetBinding, WriteBinding, PastRole, PastAccount
  <2>4. {ns[w], Role} \subseteq objects'
    BY <1>2, <2>3 DEF Sound, Reached
  <2>5. ns[w] \in Subjects(binding')
    <3>1. CASE GetBinding(w) /\ Succeed(w)
      <4>1. ns[w] \in Subjects(bindingCache)
        <5>1. pc \in [Workers -> Locations] /\ pc'[w] = "idle"
          BY <1>1, <3>1 DEF TypeOK, Succeed, GoTo
        <5>2. \A location : Continue(w, location) => pc'[w] = location
          BY <5>1 DEF Continue, GoTo
        <5>3. QED
          BY <3>1, <5>1, <5>2 DEF GetBinding
      <4>2. Subjects(bindingCache) \subseteq Subjects(binding)
        BY <1>1, <1>2 DEF Copies, Copy
      <4>3. QED
        BY <4>1, <4>2, <1>2
    <3>2. CASE WriteBinding(w) /\ Succeed(w)
      <4>1. ~Fail(w)
        BY <1>4, <2>2, <3>2 DEF Fail, Succeed
      <4>2. /\ Accepted(w) /\ Write(Sent(w)) /\ UNCHANGED tampered
            /\ pc[w] \in {"makeBinding", "extend"}
        BY <3>2, <4>1 DEF WriteBinding
      <4>3. Subjects(binding') = Subjects(binding) \cup {ns[w]}
        BY <1>1, <4>2, AcceptedWrite
      <4>4. QED
        BY <4>3
    <3>3. QED
      BY <2>1, <3>1, <3>2
  <2>6. QED
    BY <2>2, <2>4, <2>5 DEF Bound, Subjects
<1>5. QED
  BY <1>3, <1>4

LEMMA SoundStep ==
  ASSUME CopyInv, ~tampered => Sound, [Next]_vars, ~tampered'
  PROVE  Sound'
<1>1. TypeOK /\ ~tampered /\ objects \subseteq objects'
  BY NothingDeleted DEF CopyInv
<1>2. Sound
  BY <1>1
<1>3. objectCache' \subseteq objects'
  <2>1. objectCache \subseteq objects'
    BY <1>1, <1>2 DEF Sound
  <2>2. ASSUME NEW w \in Workers, NEW n \in Namespaces, Request(w, n)
        PROVE  objectCache' = objectCache
    BY <2>2 DEF Request, cacheVars
  <2>3. ASSUME NEW w \in Workers, Ensure(w) \/ CallFails(w)
        PROVE  objectCache' = objectCache
    BY <2>3 DEF Ensure, CallFails, Begin, ensureServiceAccount, ensureRole, Get,
                Make, GetBinding, WriteBinding, cacheVars
  <2>4. CASE Administer \/ UNCHANGED vars
    BY <2>1, <2>4 DEF Administer, AddSubject, DeleteBinding, DeleteObject,
                      cacheVars, vars
  <2>5. CASE Inform \/ Crash
    BY <2>1, <2>5 DEF Inform, InformBinding, InformObject, Crash, storeVars
  <2>6. QED
    BY <2>1, <2>2, <2>3, <2>4, <2>5 DEF Next
<1>4. \A w \in Workers : Reached(pc[w], ns[w])'
  <2>1. ASSUME NEW w \in Workers, Ensure(w) \/ CallFails(w), NEW v \in Workers
        PROVE  Reached(pc[v], ns[v])'
    <3>1. CASE v = w
      BY <1>1, <1>2, <2>1, <3>1, EnsureReaches DEF Reached
    <3>2. CASE v # w
      <4>1. pc'[v] = pc[v] /\ ns'[v] = ns[v]
        BY <1>1, <2>1, <3>2, WorkerStep DEF Alone
      <4>2. Reached(pc[v], ns[v])
        BY <1>2 DEF Sound
      <4>3. QED
        BY <4>1, <4>2, <1>1 DEF Reached
    <3>3. QED
      BY <3>1, <3>2
  <2>2. CASE \/ \E w \in Workers, n \in Namespaces : Request(w, n)
             \/ Inform \/ Crash \/ Administer \/ UNCHANGED vars
    <3>1. CASE UNCHANGED <<pc, ns, seen>>
      BY <3>1, <1>1, <1>2 DEF Sound, Reached
    <3>2. CASE pc' = [w \in Workers |-> "idle"]
      BY <3>2 DEF Reached, PastAccount, PastRole
    <3>3. QED
      BY <1>1, <2>2, <3>1, <3>2, OtherStep
  <2>3. QED
    BY <2>1, <2>2 DEF Next
<1>5. \A n \in ensured' : Bound(n)'
  BY <1>2, EnsuredIsBound
<1>6. QED
  BY <1>3, <1>4, <1>5 DEF Sound, Bound, Subjects, Reached

\* The inductive invariant: the copies of the binding are earlier versions of
\* it, and unless something was deleted what Ensure has passed is there.
EnsureInv == CopyInv /\ (~tampered => Sound)

THEOREM Invariant == Spec => []EnsureInv
<1>1. Init => EnsureInv
  <2> SUFFICES ASSUME Init PROVE EnsureInv
    OBVIOUS
  <2>1. \A w \in Workers : pc[w] = "idle"
    BY DEF Init
  <2>2. Sound
    BY <2>1 DEF Init, Sound, Reached, PastAccount, PastRole
  <2>3. QED
    BY <2>2, CopyInit DEF EnsureInv
<1>2. EnsureInv /\ [Next]_vars => EnsureInv'
  BY CopyInvStep, SoundStep DEF EnsureInv
<1>3. QED
  BY <1>1, <1>2, PTL DEF Spec

\* A namespace for which Ensure has returned nil keeps its account, the role
\* and its place in the binding, unless an administrator deletes something.
THEOREM Bindings == Spec => []StaysBound
<1>1. EnsureInv => StaysBound
  BY DEF EnsureInv, Sound, StaysBound
<1>2. QED
  BY <1>1, Invariant, PTL
=============================================================================
