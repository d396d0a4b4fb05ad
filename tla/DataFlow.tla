------------------------------ MODULE DataFlow ------------------------------
(***************************************************************************)
(* What becomes of the data of nodes: custom resources one after the       *)
(* other, the Jobs JobSpec makes of them, and what the programs in their   *)
(* pods do to the directories on the claims.  How a node is stopped and    *)
(* started in detail, and how a reconciler follows its Job, is in          *)
(* NodeOperation and JobController.                                        *)
(***************************************************************************)
EXTENDS JobSpec, FiniteSets, Functions

CONSTANTS
  CRs,         \* names of resources
  Specs,       \* what each asks for
  CopyOf,      \* for a Recover: the Duplicate the user wants to get back
  Owners,      \* users that may own files
  StartOwner,  \* the owner of every file in the beginning
  StartHeight, \* the height of each node in the beginning
  MaxHeight,   \* bound on the height of a node
  MaxRequests, \* bound on the resources of a behaviour
  MaxFaults    \* bound on the faults of a behaviour

\* What a resource may ask for.  A field that its kind does not have is empty.
Kinds == {"Backup", "Snapshot", "Duplicate", "Restore", "Recover", "Fallback",
          "ChangeOwner"}
Request == [kind: Kinds, node: Nodes, action: {"", "StopAndStart", "Direct"},
            backup: CRs \cup {""}, snapshot: CRs \cup {""},
            claim: STRING \X STRING, path: Seq(STRING), pack: BOOLEAN, file: STRING,
            height: Nat, clear: BOOLEAN, uid: Owners, md5: BOOLEAN]

\* GetMountPoint refuses a path without a first component, a container is not started
\* with a claim mounted at its root, and the API server refuses a pod that mounts two
\* claims at one directory.
ASSUME SpecsAssumption ==
  /\ "" \notin CRs
  /\ Specs \in [CRs -> Request]
  /\ \A c \in CRs : LET s == Specs[c] IN
       /\ s.backup # "" => s.kind = "Restore" /\ Specs[s.backup].kind = "Backup"
       /\ s.snapshot # "" => s.kind = "Restore" /\ Specs[s.snapshot].kind = "Snapshot"
       /\ s.pack => s.kind \in {"Duplicate", "Recover"}
       /\ s.clear => s.kind \in {"Restore", "Recover", "Fallback"}
       /\ s.md5 => s.kind = "Recover" /\ s.pack
       /\ s.kind = "Duplicate" => s.path # <<>> /\ s.path[1] # "backup-source"
       /\ s.kind = "Recover" => s.path # <<>> /\ s.path[1] # "restore-dest"

ASSUME StartAssumption ==
  /\ {0, Default.uid, StartOwner} \subseteq Owners
  /\ StartHeight \in [Nodes -> Nat]

\* A place on a claim: the path without the directory the claim is mounted at.
Below(claim, path) == <<claim, SubSeq(path, 2, Len(path))>>

\* What users must see to.  A Duplicate is not put into the directory of another
\* node, ...
Elsewhere ==
  \A c \in CRs : Specs[c].kind = "Duplicate" =>
    \A n \in Nodes \ {Specs[c].node} :
      Below(Specs[c].claim, Specs[c].path) \notin {<<DataDir(n), <<>>>>, <<ChainClaim, <<n>>>>}

\* ... or, better, of no node and on no claim of one; ...
Separate ==
  \A n \in Nodes :
    /\ DataDir(n) # ChainClaim
    /\ \A c \in CRs : /\ Specs[c].claim # DataDir(n)
                      /\ Below(Specs[c].claim, Specs[c].path) # <<ChainClaim, <<n>>>>

\* ... a Recover names the place, and the archive, of the Duplicate it is to bring
\* back; ...
SameCopy ==
  \A c \in CRs : Specs[c].kind = "Recover" /\ CopyOf[c] \in CRs =>
    LET s == Specs[c]
        t == Specs[CopyOf[c]]
    IN  /\ t.kind = "Duplicate" /\ t.claim = s.claim /\ t.path = s.path /\ t.pack = s.pack
        /\ s.pack => s.file = IF t.file = "" THEN CopyOf[c] ELSE t.file

\* ... and, where a Fallback stops all nodes, Fallbacks of two nodes do not meet.
OneNode ==
  \A c, d \in CRs : Specs[c].kind = "Fallback" /\ Specs[d].kind = "Fallback" =>
    Specs[c].node = Specs[d].node

VARIABLES
  method,   \* how the nodes are deployed
  store,    \* the directories that exist: their place and what is in them
  up,       \* nodes that run
  at,       \* how far each resource that was asked for has come
  jobs,     \* the Job made last for a resource, and the nodes its program is to start
  report,   \* the checksum in the status of a Duplicate, where there is one
  faults,   \* faults so far
  began     \* history: what a program found when it began

vars == <<method, store, up, at, jobs, report, faults, began>>
-----------------------------------------------------------------------------
(* Data.                                                                   *)

\* "data" and "chain_data" of a node are one content: whose chain they are of and
\* up to which height, whether they are complete, and who owns them.  More
\* than one origin: files of several states lie in one directory.
Marks == [node: Nodes, height: Nat]
Content == [of: SUBSET Marks, whole: BOOLEAN, owner: Owners]
Nothing == [of |-> {}, whole |-> FALSE, owner |-> 0]

\* An archive of such a content; it is closed when it has been written to its end.
Archive == [of: SUBSET Marks, whole: BOOLEAN, closed: BOOLEAN]
NoArchive == [of |-> {}, whole |-> FALSE, closed |-> FALSE]

\* A directory: node data, a state saved by cloud-op, archives by file name, the
\* consensus data of a node, and the resource that last wrote here.
EmptyDir == [chain |-> Nothing, state |-> Nothing, archives |-> <<>>, wal |-> {},
             by |-> ""]
Files == CRs \cup ({Specs[c].file : c \in CRs} \ {""})
ConsensusDirs == {"raft-data-dir", "overlord_wal"}

Dir(d) == /\ d.chain \in Content /\ d.state \in Content
          /\ DOMAIN d.archives \subseteq Files
          /\ \A f \in DOMAIN d.archives : d.archives[f] \in Archive
          /\ d.wal \subseteq ConsensusDirs
          /\ d.by \in CRs \cup {""}

Read(p) == IF p \in DOMAIN store THEN store[p] ELSE EmptyDir

Torn(content) == [content EXCEPT !.whole = FALSE]

\* What cp -a makes of a directory: files that are not overwritten stay.
Merge(old, new) == IF new = Nothing THEN old ELSE [new EXCEPT !.of = @ \cup old.of]

\* The directory of a node.
Home(n) == IF method = "cloud-config" THEN <<DataDir(n), <<>>>>
           ELSE <<ChainClaim, <<n>>>>

ChainOf(n) == Read(Home(n)).chain

WalOf(n) == CASE filterConsensus(n) = "raft"     -> {"raft-data-dir"}
              [] filterConsensus(n) = "overlord" -> {"overlord_wal"}
              [] OTHER                           -> {}

\* The state of a chain at another height.
Rewound(of, height) == {[mark EXCEPT !.height = height] : mark \in of}

Known(of, height) == \A mark \in of : height <= mark.height
-----------------------------------------------------------------------------
(* Resources and their Jobs.                                               *)

S(c) == setDefaultSpec(Specs[c])
Kind(c) == Specs[c].kind

JobOf(m, c) ==
  CASE Kind(c) = "Backup"      -> jobForBackup(m, c, S(c))
    [] Kind(c) = "Snapshot"    -> jobForSnapshot(m, c, S(c))
    [] Kind(c) = "Duplicate"   -> jobForDuplicate(m, c, S(c))
    [] Kind(c) = "Recover"     -> jobForRecover(m, S(c))
    [] Kind(c) = "Fallback"    -> jobForBlockHeightFallback(m, S(c))
    [] Kind(c) = "ChangeOwner" -> jobForChangeOwner(m, S(c))
    [] Kind(c) = "Restore"     ->
         IF S(c).snapshot = "" THEN jobForRestore(m, S(c))
         ELSE jobForSnapshotRecover(m, S(c), S(S(c).snapshot).height)

\* A Job as its program sees it, with its flags and places.
Seen(job) ==
  [command |-> job.command, flags |-> Flags(job),
   from |-> Resolve(job, Source(job)), to |-> Resolve(job, Target(job)),
   config |-> Resolve(job, Config(job)), replicas |-> {}]

Command(c) == jobs[c].command
F(c)    == jobs[c].flags
From(c) == jobs[c].from
To(c)   == jobs[c].to

Refs(c) == {S(c).backup, S(c).snapshot} \ {""}

Claims == ({p[1] : p \in DOMAIN store} \ {NoClaim}) \cup {ConfigMap(n) : n \in Nodes}

Ended == {"Complete", "Failed"}
AtWork == {"ready", "busy", "done"}
Progress == {"active"} \cup AtWork \cup Ended

\* Helm's Fallback stops the chain whatever the action.
Stops(c) == S(c).action = "StopAndStart" \/ method = "helm"
Stopped(c) == IF method = "helm" THEN Nodes ELSE {S(c).node}

\* What Start brings up again: the replicas Stop has found, or one.
Remembered(c) == IF method = "helm" THEN up ELSE {S(c).node}

TypeOK ==
  /\ method \in Methods
  /\ \A p \in DOMAIN store : Dir(store[p])
  /\ up \subseteq Nodes
  /\ DOMAIN at \subseteq CRs /\ Range(at) \subseteq Progress
  /\ DOMAIN jobs \subseteq DOMAIN at
  /\ \A c \in DOMAIN jobs : Command(c) \in DOMAIN FlagDefaults
                            /\ jobs[c].replicas \subseteq Nodes
  /\ DOMAIN report \subseteq DOMAIN jobs /\ Range(report) \subseteq Archive
  /\ faults \in Nat
  /\ began \in [DOMAIN jobs -> [chain: Content, fresh: BOOLEAN, sound: BOOLEAN,
                               calm: BOOLEAN]]

\* The data claims of a chain and the claims Duplicates name exist.
Init ==
  /\ method \in Methods
  /\ LET homes == {Home(n) : n \in Nodes}
         roots == {<<Specs[c].claim, <<>>>> : c \in CRs}
                    \ {<<NoClaim, <<>>>>, <<ChainClaim, <<>>>>}
         chain == IF method = "cloud-config" THEN {} ELSE {<<ChainClaim, <<>>>>}
     IN  store = [p \in homes \cup roots \cup chain |->
                    IF p \notin homes THEN EmptyDir
                    ELSE LET n == CHOOSE n \in Nodes : p = Home(n)
                         IN  [EmptyDir EXCEPT
                               !.chain.of = {[node |-> n, height |-> StartHeight[n]]},
                               !.chain.whole = TRUE,
                               !.chain.owner = StartOwner,
                               !.wal = WalOf(n)]]
  /\ up = Nodes
  /\ at = <<>>
  /\ jobs = <<>>
  /\ report = <<>>
  /\ faults = 0
  /\ began = <<>>
-----------------------------------------------------------------------------
(* From the resource to the start of the program's work.                   *)

Move(c, to) == at' = [at EXCEPT ![c] = to]

\* Users ask for one operation at a time on a node, and to restore a resource that
\* exists.  The checksum of a Recover is that in the status of the Duplicate,
\* once there is one.
Submit(c) ==
  /\ Cardinality(DOMAIN at) < MaxRequests
  /\ \A d \in DOMAIN at : Specs[d].node = Specs[c].node => at[d] \in Ended
  /\ Refs(c) \subseteq DOMAIN at
  /\ Specs[c].md5 => CopyOf[c] \in DOMAIN report
  /\ at' = (c :> "active") @@ at
  /\ UNCHANGED <<method, store, up, jobs, report, faults, began>>

\* What a Restore or Recover is to bring back.
Original(c) == IF Kind(c) = "Recover" THEN CopyOf[c]
               ELSE IF S(c).snapshot # "" THEN S(c).snapshot ELSE S(c).backup

\* It is what a resource has left there that is Complete, stopped its node, was
\* alone there, and has not put its copy on top of another one; nobody has
\* written there since.
Sound(c, from) ==
  LET x == Original(c)
  IN  /\ x \in DOMAIN at
      /\ at[x] = "Complete"
      /\ Stops(x)
      /\ began[x].calm
      /\ began[x].fresh \/ S(x).pack
      /\ Read(from).by = x

\* Some Jobs need a claim of their own name, which must not be there yet.
Claimed(c) == IF Kind(c) \in {"Backup", "Snapshot"}
              THEN (<<OwnClaim(c), <<>>>> :> EmptyDir) @@ store ELSE store

\* The Job is made, its pod runs as there are the claims it mounts, and the program
\* stops the node.
Prepare(c) ==
  LET job  == JobOf(method, c)
      seen == Seen(job)
  IN  /\ at[c] = "active"
      /\ Kind(c) \in {"Backup", "Snapshot"} => OwnClaim(c) \notin Claims
      /\ Range(job.mounts) \subseteq Claims \cup {OwnClaim(c)}
      /\ Move(c, "ready")
      /\ store' = Claimed(c)
      /\ up' = IF Stops(c) THEN up \ Stopped(c) ELSE up
      /\ jobs' = (c :> [seen EXCEPT !.replicas = Remembered(c)]) @@ jobs
      /\ began' = (c :> [chain |-> ChainOf(Specs[c].node),
                         fresh |-> Read(seen.to).chain = Nothing,
                         sound |-> Kind(c) \in {"Restore", "Recover"}
                                   /\ Sound(c, seen.from),
                         calm |-> TRUE]) @@ began
      /\ UNCHANGED <<method, report, faults>>

Finish(c) ==
  /\ at[c] = "done"
  /\ Move(c, "Complete")
  /\ up' = IF Stops(c) THEN (up \ Stopped(c)) \cup jobs[c].replicas ELSE up
  /\ UNCHANGED <<method, store, jobs, report, faults, began>>
-----------------------------------------------------------------------------
(* The work.                                                               *)

\* Others that are at work on what c writes are not alone any more.
Noted(c) ==
  [d \in DOMAIN began |-> IF d # c /\ at[d] \in AtWork /\ To(c) \in {From(d), To(d)}
                 THEN [began[d] EXCEPT !.calm = FALSE] ELSE began[d]]

Write(c, dir) == /\ store' = (To(c) :> [dir EXCEPT !.by = c]) @@ store
                 /\ began' = Noted(c)

\* The work cannot go on: the program ends, and the node stays as it is.
GiveUp(c) == Move(c, "Failed") /\ UNCHANGED <<store, began>>

\* Backup: mkdir of the target, then cp -a or an archive.
Packed(c, dir, closed) ==
  LET source == Read(From(c)).chain
      old    == IF at[c] = "busy" THEN dir.archives[F(c).output].of ELSE {}
  IN  [dir EXCEPT !.archives =
        (F(c).output :> [of |-> old \cup source.of, whole |-> source.whole,
                         closed |-> closed]) @@ @]

\* (On helm Backup does nothing and Snapshot and ChangeOwner panic.  No Job gets there:
\* the pods of all but a Fallback wait for claims that a helm chain does not have.)
BeginBackup(c) ==
  LET source == Read(From(c)).chain
      target == Read(To(c))
  IN  \/ /\ source = Nothing
         /\ Move(c, "Failed")
         /\ store' = (To(c) :> target) @@ store
         /\ UNCHANGED began
      \/ /\ source # Nothing
         /\ Move(c, "busy")
         /\ IF F(c).compress THEN Write(c, Packed(c, target, FALSE))
            ELSE Write(c, [target EXCEPT !.chain = Merge(@, Torn(source))])

EndBackup(c) ==
  LET source == Read(From(c)).chain
      target == Read(To(c))
  IN  \/ /\ source # Nothing
         /\ Move(c, "done")
         /\ IF F(c).compress
            THEN /\ Write(c, Packed(c, target, TRUE))
                 /\ report' = (c :> store'[To(c)].archives[F(c).output]) @@ report
            ELSE /\ Write(c, [target EXCEPT !.chain = Merge(@, source)])
                 /\ UNCHANGED report
      \/ /\ ~source.whole
         /\ GiveUp(c)
         /\ UNCHANGED report

\* Restore: the checksum, rm of what is there, then cp -af or the archive.
Stored(c) == LET archives == Read(From(c)).archives
             IN  IF F(c).input \in DOMAIN archives THEN archives[F(c).input]
                 ELSE NoArchive

\* Mutant: the checksum is not looked at.
ChecksumSkipped(c) == FALSE

ChecksumFails(c) ==
  F(c).decompress /\ F(c).md5 /\ Stored(c) # report[CopyOf[c]]

\* Unpacked files belong to the user of the program.
Unpacked(archive) == [of |-> archive.of, whole |-> archive.whole, owner |-> 0]

Restored(c) == IF F(c).decompress THEN Unpacked(Stored(c)) ELSE Read(From(c)).chain

\* Mutant: only the first directory is looked for.
removeRaftData(wal) == wal \ {"raft-data-dir"}

\* Returns as soon as it has removed a directory.
removeConsensusData(wal) ==
  IF "raft-data-dir" \in wal THEN wal \ {"raft-data-dir"} ELSE wal \ {"overlord_wal"}

\* Mutant: what is there is not removed first.
KeptOver(c) ==
  [Read(To(c)) EXCEPT !.wal = IF F(c).clear THEN removeConsensusData(@) ELSE @]

Cleaned(c) ==
  [Read(To(c)) EXCEPT !.chain = Nothing,
                      !.wal = IF F(c).clear THEN removeConsensusData(@) ELSE @]

BeginRestore(c) ==
  \/ ChecksumFails(c) /\ GiveUp(c)
  \/ /\ ~ChecksumFails(c)
     /\ Move(c, "busy")
     /\ Write(c, [Cleaned(c) EXCEPT !.chain = Merge(@, Torn(Restored(c)))])

EndRestore(c) ==
  \/ /\ IF F(c).decompress THEN Stored(c).closed ELSE Restored(c) # Nothing
     /\ To(c) \in DOMAIN store
     /\ Move(c, "done")
     /\ Write(c, [Read(To(c)) EXCEPT !.chain = Merge(@, Restored(c))])
  \/ /\ ~Restored(c).whole \/ (F(c).decompress /\ ~Stored(c).closed)
     /\ GiveUp(c)

\* cloud-op works on data that is whole and has reached the height.
Input(c) == IF Command(c) = "snapshot-recover" THEN Read(From(c)).state
            ELSE Read(From(c)).chain

Rewindable(c) ==
  /\ Input(c).whole
  /\ IF Command(c) = "snapshot-recover"
     THEN \A mark \in Input(c).of : mark.height = F(c).height
     ELSE Known(Input(c).of, F(c).height)

\* It needs the configuration and the algorithms of the node; with others what
\* it leaves is no state of its chain.
Understood(c) ==
  LET n == Specs[c].node
  IN  /\ filterCrypto(n) \in {"", F(c).crypto}
      /\ F(c).consensus = filterConsensus(n)
      /\ jobs[c].config =
           IF method = "cloud-config" THEN <<ConfigMap(n), <<>>>> ELSE Home(n)

Result(c, whole, owner) == [of |-> Rewound(Input(c).of, F(c).height),
                            whole |-> whole, owner |-> owner]

BeginCloudOp(c) ==
  \/ ~Rewindable(c) /\ GiveUp(c)
  \/ /\ Rewindable(c)
     /\ Move(c, "busy")
     /\ IF Command(c) = "snapshot"
        THEN Write(c, [Read(To(c)) EXCEPT !.state = Result(c, FALSE, 0)])
        ELSE Write(c, [Read(To(c)) EXCEPT !.chain = Result(c, FALSE, 0)])

\* A Restore from a Snapshot changes the owner of what cloud-op has written.
EndCloudOp(c) ==
  /\ Move(c, "done")
  /\ CASE Command(c) = "snapshot" ->
            Write(c, [Read(To(c)) EXCEPT !.state = Result(c, Understood(c), 0)])
       [] Command(c) = "fallback" ->
            Write(c, [Read(To(c)) EXCEPT
                       !.chain = Result(c, Understood(c), began[c].chain.owner),
                       !.wal = IF F(c).clear THEN {} ELSE @])
       [] Command(c) = "snapshot-recover" ->
            Write(c, [Read(To(c)) EXCEPT
                       !.chain = Result(c, Understood(c), Default.uid),
                       !.wal = IF F(c).clear THEN {} ELSE @])

\* chown -R.
Chown(c) ==
  /\ Move(c, "done")
  /\ store' = [p \in DOMAIN store |->
                 IF /\ p[1] = To(c)[1] /\ Seqs!IsPrefix(To(c)[2], p[2])
                    /\ store[p].chain # Nothing
                 THEN [store[p] EXCEPT !.chain.owner = F(c).uid]
                 ELSE store[p]]
  /\ UNCHANGED began

BeginWork(c) ==
  /\ at[c] = "ready"
  /\ \/ Command(c) = "backup" /\ BeginBackup(c)
     \/ Command(c) = "restore" /\ BeginRestore(c)
     \/ Command(c) \in {"fallback", "snapshot", "snapshot-recover"} /\ BeginCloudOp(c)
     \/ Command(c) = "chown" /\ Move(c, "busy") /\ UNCHANGED <<store, began>>
  /\ UNCHANGED <<method, up, jobs, report, faults>>

EndWork(c) ==
  /\ at[c] = "busy"
  /\ \/ Command(c) = "backup" /\ EndBackup(c)
     \/ /\ \/ Command(c) = "restore" /\ EndRestore(c)
           \/ Command(c) \in {"fallback", "snapshot", "snapshot-recover"}
                /\ EndCloudOp(c)
           \/ Command(c) = "chown" /\ Chown(c)
        /\ UNCHANGED report
  /\ UNCHANGED <<method, up, jobs, faults>>

Program(c) == Prepare(c) \/ BeginWork(c) \/ EndWork(c) \/ Finish(c)
-----------------------------------------------------------------------------
(* Nodes and faults.                                                       *)

\* A node that runs on good data goes on with its chain.
Run(n) ==
  /\ n \in up
  /\ ChainOf(n).whole
  /\ Cardinality(ChainOf(n).of) = 1
  /\ \A mark \in ChainOf(n).of : mark.height < MaxHeight
  /\ store' = [store EXCEPT
       ![Home(n)].chain.of = {[mark EXCEPT !.height = @ + 1] : mark \in @},
       ![Home(n)].wal = @ \cup WalOf(n)]
  /\ UNCHANGED <<method, up, at, jobs, report, faults, began>>

Fault == faults < MaxFaults /\ faults' = faults + 1

\* A command or a call fails, or the pod is killed.
Break(c) ==
  /\ at[c] \in AtWork
  /\ Fault
  /\ Move(c, "Failed")
  /\ began' = [began EXCEPT ![c].calm = FALSE]
  /\ UNCHANGED <<method, store, up, jobs, report>>

\* A user deletes the Job of an Active resource, with its pod; the reconciler
\* makes another one.
DeleteJob(c) ==
  /\ at[c] \in AtWork
  /\ Fault
  /\ Move(c, "active")
  /\ UNCHANGED <<method, store, up, jobs, report, began>>
-----------------------------------------------------------------------------
Next ==
  \/ \E c \in CRs \ DOMAIN at : Submit(c)
  \/ \E c \in DOMAIN at : Program(c) \/ Break(c) \/ DeleteJob(c)
  \/ \E n \in Nodes : Run(n)

Spec == Init /\ [][Next]_vars
-----------------------------------------------------------------------------
(* Properties.                                                             *)

\* c becomes Complete, or Failed, in this step.
Completes(c) == at[c] # "Complete" /\ at'[c] = "Complete"
Fails(c) == at[c] # "Failed" /\ at'[c] = "Failed"

\* The data of its node when the step is over.
Left(c) == store'[Home(Specs[c].node)]

Expected(c) ==
  LET saved == began[Original(c)].chain
  IN  IF Command(c) = "snapshot-recover"
      THEN [of |-> Rewound(saved.of, S(Original(c)).height), whole |-> TRUE,
            owner |-> Default.uid]
      ELSE IF F(c).decompress THEN [saved EXCEPT !.owner = 0] ELSE saved

\* From end to end: when a Restore or Recover becomes Complete its node has
\* exactly the data that the node it was saved from had when the Backup,
\* Snapshot or Duplicate stopped it, of whatever node, although claims, paths
\* and flags went through two Jobs and though either Job may have run twice.
\* Nobody must have written to the copy since, and what was put on top of an
\* older copy is no copy of one state.
RestoresWhatWasSaved ==
  [][\A c \in DOMAIN at :
       Completes(c) /\ Stops(c) /\ began[c].sound /\ began[c].calm
         => Left(c).chain = Expected(c)]_vars

\* A Recover with the checksum of a Duplicate is atomic as long as neither a
\* fault nor another writer of the archive hits it: Complete or Failed, its
\* node has either the data of that Duplicate or what it had before, although
\* the archive may have been overwritten or left half-written by another one.
CheckedIsAtomic ==
  [][\A c \in DOMAIN at :
       /\ Completes(c) \/ Fails(c)
       /\ Specs[c].md5 /\ Stops(c) /\ began'[c].calm
       => Left(c).chain \in {began[c].chain, Unpacked(report[CopyOf[c]])}]_vars

\* A Complete BlockHeightFallback has taken its node, and a ChangeOwner the
\* files of its node, to what the resource asks for: height, algorithms,
\* configuration, user and place survive the way through defaults, arguments,
\* flags and mounts.
AsAsked ==
  [][\A c \in DOMAIN at :
       /\ Completes(c) /\ Stops(c) /\ Kind(c) \in {"Fallback", "ChangeOwner"}
       /\ began[c].chain # Nothing
       => Left(c).chain =
            IF Kind(c) = "Fallback"
            THEN [began[c].chain EXCEPT !.of = Rewound(@, Specs[c].height)]
            ELSE [began[c].chain EXCEPT
                   !.owner = IF Specs[c].uid = 0 THEN 1000 ELSE Specs[c].uid]]_vars

\* When an operation that is to delete consensus data is Complete its node has
\* none left, whichever consensus it runs.
ConsensusCleared ==
  [][\A c \in DOMAIN at : Completes(c) /\ Stops(c) /\ Specs[c].clear
                      => Left(c).wal = {}]_vars

\* A step of a resource's program never changes the data of another node, also where
\* all nodes of the chain are directories of one claim.
NodesApart ==
  [][\A c \in DOMAIN at : at'[c] # at[c] =>
       \A n \in Nodes \ {Specs[c].node} : store'[Home(n)] = store[Home(n)]]_vars
=============================================================================
