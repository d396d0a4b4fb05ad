-------------------------- MODULE DataFlow_proofs --------------------------
(***************************************************************************)
(* Proofs about DataFlow, for any nodes, images, resources and bounds.     *)
(*                                                                         *)
(* First: what the Job of every kind of resource tells its program, after  *)
(* defaults, arguments and mounts have been put together (OfBackup to      *)
(* OfChangeOwner, JobFacts).  Then invariants, one on top of the other:    *)
(* JobsKnown and Typed (types, and that every Job is the one its resource  *)
(* asks for), Orderly (one resource works on a node, which is down), and,  *)
(* for each property, what lies in the directories that are worked on      *)
(* while a program is between its steps.  What users must see to is a      *)
(* hypothesis of the theorem that needs it: Elsewhere, Separate, SameCopy, *)
(* OneNode of DataFlow.                                                    *)
(***************************************************************************)
EXTENDS DataFlow, SequenceTheorems, TLAPS
-----------------------------------------------------------------------------
(* What programs are told.                                                 *)

\* The defaults of every command.
LEMMA DefaultsOf ==
  /\ FlagDefaults["backup"] = [source |-> BackupSource, dest |-> BackupDest,
                               compress |-> FALSE, output |-> ""]
  /\ FlagDefaults["restore"] = [source |-> RestoreSource, dest |-> RestoreDest,
                 decompress |-> FALSE, md5 |-> FALSE, input |-> "", clear |-> FALSE]
  /\ FlagDefaults["snapshot"] = ChainDefaults
  /\ FlagDefaults["fallback"] = ChainDefaults
  /\ FlagDefaults["chown"] = [uid |-> 1000]
  /\ FlagDefaults["snapshot-recover"] = ChainDefaults
  /\ DOMAIN FlagDefaults = {"backup", "restore", "snapshot", "fallback", "chown",
                            "snapshot-recover"}
  BY ZenonT(60) DEF FlagDefaults, @@, :>

\* What a Job is made of.
Made(job, command, mounts, args) ==
  job.command = command /\ job.mounts = mounts /\ job.args = args

\* The fields of a Job.
LEMMA JobFields ==
  ASSUME NEW a, NEW b, NEW d
  PROVE  Made(Job(a, b, d), a, b, d)
  BY DEF Made, Job

\* All mounts are first components of paths.
Shallow(job) == \A p \in DOMAIN job.mounts : \E x : p = <<x>>

\* A directory below a mount.
LEMMA Resolved ==
  ASSUME NEW T, NEW job, NEW path \in Seq(T), path # <<>>,
         Shallow(job), <<path[1]>> \in DOMAIN job.mounts
  PROVE  Resolve(job, path) = <<job.mounts[<<path[1]>>], SubSeq(path, 2, Len(path))>>
<1>1. ASSUME NEW a
      PROVE  Seqs!IsPrefix(<<a>>, path) <=> a = path[1]
  BY DEF Seqs!IsPrefix
<1> DEFINE here == <<path[1]>>
<1>2. \A p \in DOMAIN job.mounts : Seqs!IsPrefix(p, path) <=> p = here
  BY <1>1 DEF Shallow
<1>3. (CHOOSE p \in DOMAIN job.mounts : Seqs!IsPrefix(p, path)) = here
  BY <1>2
<1>4. Len(here) + 1 = 2
  OBVIOUS
<1>5. \E mount \in DOMAIN job.mounts : Seqs!IsPrefix(mount, path)
  BY <1>2
<1> HIDE DEF here
<1>6. Resolve(job, path) = <<job.mounts[here], SubSeq(path, Len(here) + 1, Len(path))>>
  BY <1>3, <1>5, Zenon DEF Resolve
<1>7. Resolve(job, path) = <<job.mounts[here], SubSeq(path, 2, Len(path))>>
  BY <1>4, <1>6, Zenon
<1> QED
  BY <1>7, Zenon DEF here

\* The directory that is mounted, ...
LEMMA ResolvedRoot ==
  ASSUME NEW job, NEW a, <<a>> \in DOMAIN job.mounts, Shallow(job)
  PROVE  Resolve(job, <<a>>) = <<job.mounts[<<a>>], <<>>>>
<1> DEFINE p == <<a>>
<1>1. p \in Seq({a}) /\ p # <<>> /\ p[1] = a /\ Len(p) = 1
  OBVIOUS
<1>2. p = <<a>>
  OBVIOUS
<1> HIDE DEF p
<1>3. Resolve(job, p) = <<job.mounts[<<p[1]>>], SubSeq(p, 2, Len(p))>>
  BY <1>1, Resolved
<1>4. SubSeq(p, 2, Len(p)) = <<>>
  BY <1>1, SubSeqEmpty
<1> QED
  BY <1>1, <1>2, <1>3, <1>4

\* ... and one in it.
LEMMA ResolvedIn ==
  ASSUME NEW job, NEW a, NEW n, <<a>> \in DOMAIN job.mounts, Shallow(job)
  PROVE  Resolve(job, Append(<<a>>, n)) = <<job.mounts[<<a>>], <<n>>>>
<1> DEFINE p == Append(<<a>>, n)
<1>1. p \in Seq({a, n}) /\ p # <<>> /\ p[1] = a /\ p[2] = n /\ Len(p) = 2
  OBVIOUS
<1> HIDE DEF p
<1>2. Resolve(job, p) = <<job.mounts[<<p[1]>>], SubSeq(p, 2, Len(p))>>
  BY <1>1, Resolved
<1> DEFINE q == SubSeq(p, 2, 2)
<1>3. q \in Seq({a, n}) /\ Len(q) = 1 /\ q[1] = n
  BY <1>1
<1>4. q = <<n>>
  <2> DEFINE r == <<n>>
  <2>1. r \in Seq({a, n}) /\ Len(r) = 1 /\ r[1] = n
    OBVIOUS
  <2> HIDE DEF q, r
  <2>2. q = r
    BY <1>3, <2>1, SeqEqual
  <2> QED
    BY <2>2 DEF r
<1> QED
  BY <1>1, <1>2, <1>4 DEF p
-----------------------------------------------------------------------------
\* The fields of a spec with its defaults.
LEMMA Specified ==
  ASSUME NEW c \in CRs
  PROVE  /\ S(c).node = Specs[c].node /\ Specs[c].node \in Nodes
         /\ S(c).kind = Specs[c].kind /\ Specs[c].kind \in Kinds
         /\ S(c).backup = Specs[c].backup /\ Specs[c].backup \in CRs \cup {""}
         /\ S(c).snapshot = Specs[c].snapshot /\ Specs[c].snapshot \in CRs \cup {""}
         /\ S(c).claim = Specs[c].claim
         /\ S(c).path = Specs[c].path /\ Specs[c].path \in Seq(STRING)
         /\ S(c).pack = Specs[c].pack /\ Specs[c].pack \in BOOLEAN
         /\ S(c).file = Specs[c].file
         /\ S(c).height = Specs[c].height /\ Specs[c].height \in Nat
         /\ S(c).clear = Specs[c].clear /\ Specs[c].clear \in BOOLEAN
         /\ S(c).md5 = Specs[c].md5 /\ Specs[c].md5 \in BOOLEAN
         /\ S(c).uid = IF Specs[c].uid = 0 THEN 1000 ELSE Specs[c].uid
         /\ S(c).uid \in Owners
<1> DEFINE s == Specs[c]
<1>1. s \in Request
  BY SpecsAssumption
<1>2. s.uid \in Owners /\ 1000 \in Owners
  BY <1>1, StartAssumption DEF Request, Default
<1>3. S(c) = [s EXCEPT !.action = IF @ = "" THEN Default.action ELSE @,
                       !.uid = IF @ = 0 THEN Default.uid ELSE @]
  BY DEF S, setDefaultSpec
<1> DEFINE t == S(c)
<1> HIDE DEF s, t
<1>4. /\ s.node \in Nodes /\ s.kind \in Kinds /\ s.backup \in CRs \cup {""}
      /\ s.snapshot \in CRs \cup {""} /\ s.path \in Seq(STRING) /\ s.pack \in BOOLEAN
      /\ s.height \in Nat /\ s.clear \in BOOLEAN /\ s.md5 \in BOOLEAN
  BY <1>1 DEF Request
<1>5. /\ t.node = s.node /\ t.kind = s.kind /\ t.backup = s.backup
      /\ t.snapshot = s.snapshot /\ t.claim = s.claim /\ t.path = s.path
  BY <1>1, <1>3 DEF Request, t
<1>6. /\ t.pack = s.pack /\ t.file = s.file /\ t.height = s.height
      /\ t.clear = s.clear /\ t.md5 = s.md5
  BY <1>1, <1>3 DEF Request, t
<1>7. t.uid = IF s.uid = 0 THEN 1000 ELSE s.uid
  <2>1. t.uid = IF s.uid = 0 THEN Default.uid ELSE s.uid
    BY <1>1, <1>3 DEF Request, t
  <2> QED
    BY <2>1 DEF Default
<1> QED
  BY <1>2, <1>4, <1>5, <1>6, <1>7, ZenonT(60) DEF s, t

\* What the assumption on specs says of one of them.
LEMMA Ruled ==
  ASSUME NEW c \in CRs
  PROVE  /\ c # ""
         /\ Specs[c].backup # "" => Kind(c) = "Restore" /\ Kind(Specs[c].backup) = "Backup"
         /\ Specs[c].snapshot # "" => Kind(c) = "Restore" /\ Kind(Specs[c].snapshot) = "Snapshot"
         /\ Specs[c].pack => Kind(c) \in {"Duplicate", "Recover"}
         /\ Specs[c].clear => Kind(c) \in {"Restore", "Recover", "Fallback"}
         /\ Specs[c].md5 => Kind(c) = "Recover" /\ Specs[c].pack
         /\ Kind(c) = "Duplicate" => Specs[c].path # <<>> /\ Specs[c].path[1] # "backup-source"
         /\ Kind(c) = "Recover" => Specs[c].path # <<>> /\ Specs[c].path[1] # "restore-dest"
  BY SpecsAssumption, Zenon DEF Kind

\* Home, for any method.
HomeOf(m, n) == IF m = "cloud-config" THEN <<DataDir(n), <<>>>> ELSE <<ChainClaim, <<n>>>>

\* What the flags say of the algorithms is what the node uses.
Fits(n, flags) == /\ filterCrypto(n) \in {"", flags.crypto}
                  /\ flags.consensus = filterConsensus(n)

\* The name of the archive a Duplicate makes.
Named(c) == IF Specs[c].file = "" THEN c ELSE Specs[c].file

\* One, two or three claims are mounted in the pod.
OneMount(job, a, v) == job.mounts = <<a>> :> v
TwoMounts(job, a, v, b, w) == job.mounts = <<a>> :> v @@ <<b>> :> w
ThreeMounts(job, a, v, b, w, k, z) == job.mounts = <<a>> :> v @@ <<b>> :> w @@ <<k>> :> z

\* The claims of such a pod and where they are.
LEMMA OneMounted ==
  ASSUME NEW job, NEW a, NEW v, OneMount(job, a, v)
  PROVE  /\ Shallow(job) /\ v \in Range(job.mounts)
         /\ <<a>> \in DOMAIN job.mounts /\ job.mounts[<<a>>] = v
<1>1. DOMAIN job.mounts = {<<a>>} /\ job.mounts[<<a>>] = v
  BY DEF :>, OneMount
<1> QED
  BY <1>1 DEF Range, Shallow

\* Two of them.
LEMMA TwoMounted ==
  ASSUME NEW job, NEW a, NEW b, NEW v, NEW w, a # b, TwoMounts(job, a, v, b, w)
  PROVE  /\ Shallow(job) /\ v \in Range(job.mounts) /\ w \in Range(job.mounts)
         /\ <<a>> \in DOMAIN job.mounts /\ job.mounts[<<a>>] = v
         /\ <<b>> \in DOMAIN job.mounts /\ job.mounts[<<b>>] = w
<1>1. /\ DOMAIN job.mounts = {<<a>>, <<b>>}
      /\ job.mounts[<<a>>] = v /\ job.mounts[<<b>>] = w
  BY DEF @@, :>, TwoMounts
<1> QED
  BY <1>1 DEF Range, Shallow

\* Three of them.
LEMMA ThreeMounted ==
  ASSUME NEW job, NEW a, NEW b, NEW k, NEW v, NEW w, NEW z, a # b, a # k, b # k,
         ThreeMounts(job, a, v, b, w, k, z)
  PROVE  /\ Shallow(job)
         /\ v \in Range(job.mounts) /\ w \in Range(job.mounts) /\ z \in Range(job.mounts)
         /\ <<a>> \in DOMAIN job.mounts /\ job.mounts[<<a>>] = v
         /\ <<b>> \in DOMAIN job.mounts /\ job.mounts[<<b>>] = w
         /\ <<k>> \in DOMAIN job.mounts /\ job.mounts[<<k>>] = z
<1>1. /\ DOMAIN job.mounts = {<<a>>, <<b>>, <<k>>}
      /\ job.mounts[<<a>>] = v /\ job.mounts[<<b>>] = w /\ job.mounts[<<k>>] = z
  BY DEF @@, :>, ThreeMounts
<1> QED
  BY <1>1 DEF Range, Shallow

\* What the program of a Backup or Duplicate is told.
BackupFacts(m, c, j) ==
  /\ j.command = "backup"
  /\ j.flags.compress = Specs[c].pack
  /\ Specs[c].pack => j.flags.output = Named(c)
  /\ j.to = IF Kind(c) = "Backup" THEN <<OwnClaim(c), <<>>>>
            ELSE Below(Specs[c].claim, Specs[c].path)
  /\ m = "cloud-config" /\ Specs[c].claim # DataDir(Specs[c].node)
       => j.from = HomeOf(m, Specs[c].node)

\* The same for the Job of a Backup, ...
LEMMA OfBackup ==
  ASSUME NEW m \in Methods, NEW c \in CRs, Kind(c) = "Backup"
  PROVE  /\ BackupFacts(m, c, Seen(JobOf(m, c)))
         /\ SourceClaim(m, Specs[c].node) \in Range(JobOf(m, c).mounts)
<1> DEFINE job == JobOf(m, c)
           n == Specs[c].node
           source == SourceClaim(m, n)
           own == OwnClaim(c)
<1>1. job = jobForBackup(m, c, S(c)) /\ S(c).node = n
  BY Specified DEF JobOf
<1>2. /\ job.command = "backup"
      /\ job.mounts = BackupSource :> source @@ BackupDest :> own
      /\ job.args = [method |-> m, node |-> n, action |-> S(c).action]
  BY <1>1 DEF jobForBackup, Job, Common
<1>3. m = "cloud-config" => <<source, <<>>>> = HomeOf(m, n)
  BY DEF HomeOf, SourceClaim
<1>4. Specs[c].pack = FALSE
  BY Ruled, Specified
<1> HIDE DEF job, n, source, own
<1>5. /\ source \in Range(job.mounts)
      /\ Resolve(job, BackupSource) = <<source, <<>>>>
      /\ Resolve(job, BackupDest) = <<own, <<>>>>
  <2> DEFINE a == "backup-source"
             b == "backup-dest"
  <2> a # b
    OBVIOUS
  <2>1. BackupSource = <<a>> /\ BackupDest = <<b>>
    BY DEF BackupSource, BackupDest
  <2> HIDE DEF a, b
  <2>2. TwoMounts(job, a, source, b, own)
    BY <1>2, <2>1 DEF TwoMounts
  <2>3. /\ Shallow(job) /\ source \in Range(job.mounts)
        /\ <<a>> \in DOMAIN job.mounts /\ job.mounts[<<a>>] = source
        /\ <<b>> \in DOMAIN job.mounts /\ job.mounts[<<b>>] = own
    BY <2>2, TwoMounted
  <2> QED
    BY <2>1, <2>3, ResolvedRoot
<1>6. /\ Flags(job).compress = FALSE
      /\ Flags(job).source = BackupSource /\ Flags(job).dest = BackupDest
  <2>1. Flags(job) = [method |-> m, node |-> n, action |-> S(c).action]
                       @@ [source |-> BackupSource, dest |-> BackupDest,
                           compress |-> FALSE, output |-> ""]
    BY <1>2, DefaultsOf, ZenonT(60) DEF Flags
  <2> QED
    BY <2>1 DEF @@
<1>7. Source(job) = BackupSource /\ Target(job) = BackupDest
  BY <1>2, <1>6 DEF Source, Target
<1>8. /\ Seen(job).command = "backup" /\ Seen(job).flags = Flags(job)
      /\ Seen(job).from = <<source, <<>>>> /\ Seen(job).to = <<own, <<>>>>
  BY <1>2, <1>5, <1>7 DEF Seen
<1> QED
  BY <1>3, <1>4, <1>5, <1>6, <1>8 DEF job, n, source, own, BackupFacts

\* ... and of a Duplicate.
LEMMA OfDuplicate ==
  ASSUME NEW m \in Methods, NEW c \in CRs, Kind(c) = "Duplicate"
  PROVE  /\ BackupFacts(m, c, Seen(JobOf(m, c)))
         /\ SourceClaim(m, Specs[c].node) \in Range(JobOf(m, c).mounts)
<1> DEFINE job == JobOf(m, c)
           n == Specs[c].node
           source == SourceClaim(m, n)
           claim == Specs[c].claim
           path == Specs[c].path
           first == path[1]
           mount == <<first>>
           from == IF source = claim THEN Append(mount, n) ELSE BackupSource
           name == Named(c)
           pack == IF Specs[c].pack THEN [compress |-> TRUE, output |-> name] ELSE <<>>
           common == [method |-> m, node |-> n, action |-> S(c).action]
           given == [source |-> from, dest |-> path]
           default == [source |-> BackupSource, dest |-> BackupDest, compress |-> FALSE,
                       output |-> ""]
<1>1. job = jobForDuplicate(m, c, S(c))
  BY DEF JobOf
<1>2. /\ path \in Seq(STRING) /\ path # <<>> /\ first # "backup-source"
      /\ Specs[c].pack \in BOOLEAN
  BY Specified, Ruled
<1>3. /\ job.command = "backup"
      /\ job.mounts = IF source = claim THEN mount :> source
                      ELSE BackupSource :> source @@ mount :> claim
      /\ job.args = common @@ pack @@ given
  <2>1. /\ S(c).node = n /\ S(c).claim = claim /\ S(c).path = path
        /\ S(c).pack = Specs[c].pack /\ S(c).file = Specs[c].file
    BY Specified
  <2> DEFINE t == S(c)
             mounts == IF source = claim THEN mount :> source
                       ELSE BackupSource :> source @@ mount :> claim
             args == common @@ pack @@ given
  <2>2. jobForDuplicate(m, c, t) = Job("backup", mounts, args)
    <3>1. jobForDuplicate(m, c, t) =
            Job("backup", IF SourceClaim(m, t.node) = t.claim
                          THEN <<t.path[1]>> :> SourceClaim(m, t.node)
                          ELSE BackupSource :> SourceClaim(m, t.node) @@ <<t.path[1]>> :> t.claim,
                [method |-> m, node |-> t.node, action |-> t.action]
                  @@ (IF t.pack
                      THEN [compress |-> TRUE, output |-> IF t.file = "" THEN c ELSE t.file]
                      ELSE <<>>)
                  @@ [source |-> IF SourceClaim(m, t.node) = t.claim
                                 THEN Append(<<t.path[1]>>, t.node) ELSE BackupSource,
                      dest |-> t.path])
      BY Zenon DEF jobForDuplicate, Common, GetMountPoint
    <3> QED
      BY <2>1, <3>1, Zenon DEF Named
  <2>3. job = Job("backup", mounts, args)
    BY <1>1, <2>2
  <2> HIDE DEF mounts, args
  <2>4. job.command = "backup" /\ job.mounts = mounts /\ job.args = args
    BY <2>3 DEF Job
  <2> QED
    BY <2>4 DEF mounts, args
<1>4. m = "cloud-config" /\ claim # DataDir(n) => claim # source /\ <<source, <<>>>> = HomeOf(m, n)
  BY DEF HomeOf, SourceClaim
<1>5. pack = IF Specs[c].pack THEN [compress |-> TRUE, output |-> name] ELSE <<>>
  OBVIOUS
<1>6. source # claim => from = BackupSource
  OBVIOUS
<1> HIDE DEF job, n, source, claim, path, first, from, name, pack
<1>7. /\ source \in Range(job.mounts) /\ Shallow(job)
      /\ mount \in DOMAIN job.mounts /\ job.mounts[mount] = claim
      /\ source # claim => Resolve(job, BackupSource) = <<source, <<>>>>
  <2>1. CASE source = claim
    <3>1. OneMount(job, first, source)
      BY <1>3, <2>1 DEF OneMount
    <3>2. /\ Shallow(job) /\ mount \in DOMAIN job.mounts /\ job.mounts[mount] = source
          /\ source \in Range(job.mounts)
      BY <3>1, OneMounted
    <3> QED
      BY <2>1, <3>2
  <2>2. CASE source # claim
    <3> DEFINE a == "backup-source"
    <3>1. BackupSource = <<a>> /\ a # first
      BY <1>2 DEF BackupSource
    <3> HIDE DEF a
    <3>2. TwoMounts(job, a, source, first, claim)
      BY <1>3, <2>2, <3>1 DEF TwoMounts
    <3>3. /\ Shallow(job) /\ source \in Range(job.mounts)
          /\ <<a>> \in DOMAIN job.mounts /\ job.mounts[<<a>>] = source
          /\ mount \in DOMAIN job.mounts /\ job.mounts[mount] = claim
      BY <3>1, <3>2, TwoMounted
    <3>4. Resolve(job, <<a>>) = <<source, <<>>>>
      BY <3>3, ResolvedRoot
    <3>5. Resolve(job, BackupSource) = <<source, <<>>>>
      BY <3>1, <3>4
    <3>6. source \in Range(job.mounts)
      BY <3>3
    <3> QED
      BY <3>3, <3>5, <3>6, Zenon
  <2> QED
    BY <2>1, <2>2
<1>8. Resolve(job, path) = Below(claim, path)
  <2>1. Resolve(job, path) = <<job.mounts[mount], SubSeq(path, 2, Len(path))>>
    BY <1>2, <1>7, Resolved DEF first
  <2> QED
    BY <1>7, <2>1 DEF Below
<1>9. /\ Flags(job).compress = Specs[c].pack
      /\ Specs[c].pack => Flags(job).output = name
      /\ Flags(job).source = from /\ Flags(job).dest = path
  <2>1. Flags(job) = (common @@ pack @@ given) @@ default
    BY <1>3, DefaultsOf, ZenonT(60) DEF Flags
  <2>2. CASE Specs[c].pack
    <3>1. pack = [compress |-> TRUE, output |-> name]
      BY <1>5, <2>2
    <3> QED
      BY <2>1, <2>2, <3>1 DEF @@
  <2>3. CASE ~Specs[c].pack
    <3>1. pack = <<>> /\ Specs[c].pack = FALSE
      BY <1>2, <1>5, <2>3
    <3>2. DOMAIN pack = {}
      BY <3>1
    <3> QED
      BY <2>1, <2>3, <3>1, <3>2 DEF @@
  <2> QED
    BY <2>2, <2>3
<1>10. Source(job) = from /\ Target(job) = path
  BY <1>3, <1>9 DEF Source, Target
<1>11. /\ Seen(job).command = "backup" /\ Seen(job).flags = Flags(job)
       /\ Seen(job).from = Resolve(job, from) /\ Seen(job).to = Below(claim, path)
  BY <1>3, <1>8, <1>10 DEF Seen
<1> QED
  BY <1>4, <1>6, <1>7, <1>9, <1>11 DEF BackupFacts, job, n, source, claim, path, name

\* A flag that is given or left to its default.
LEMMA ClearFlagOf ==
  ASSUME NEW c \in CRs
  PROVE  /\ DOMAIN ClearFlag(S(c)) = IF Specs[c].clear THEN {"clear"} ELSE {}
         /\ Specs[c].clear => ClearFlag(S(c))["clear"] = TRUE
<1> DEFINE t == S(c)
<1>1. t.clear = Specs[c].clear
  BY Specified
<1> HIDE DEF t
<1>2. CASE Specs[c].clear
  <2>1. ClearFlag(t) = [clear |-> TRUE]
    BY <1>1, <1>2 DEF ClearFlag
  <2>2. DOMAIN ClearFlag(t) = {"clear"} /\ ClearFlag(t)["clear"] = TRUE
    BY <2>1
  <2> QED
    BY <1>2, <2>2 DEF t
<1>3. CASE ~Specs[c].clear
  <2>1. ClearFlag(t) = <<>>
    BY <1>1, <1>3 DEF ClearFlag
  <2>2. DOMAIN <<>> = {}
    OBVIOUS
  <2> QED
    BY <1>3, <2>1, <2>2 DEF t
<1> QED
  BY <1>2, <1>3 DEF t

\* What the program of a Restore from a Backup or of a Recover is told.
RestoreFacts(m, c, j) ==
  /\ j.command = "restore"
  /\ j.flags.decompress = Specs[c].pack
  /\ Specs[c].pack => j.flags.md5 = Specs[c].md5 /\ j.flags.input = Specs[c].file
  /\ j.flags.clear = Specs[c].clear
  /\ j.from = IF Kind(c) = "Restore" THEN <<OwnClaim(Specs[c].backup), <<>>>>
              ELSE Below(Specs[c].claim, Specs[c].path)
  /\ j.to = <<RestoreClaim(m, Specs[c].node), <<>>>>

\* The same for the Job of a Restore from a Backup, ...
LEMMA OfRestore ==
  ASSUME NEW m \in Methods, NEW c \in CRs, Kind(c) = "Restore", Specs[c].snapshot = ""
  PROVE  /\ RestoreFacts(m, c, Seen(JobOf(m, c)))
         /\ RestoreClaim(m, Specs[c].node) \in Range(JobOf(m, c).mounts)
<1> DEFINE job == JobOf(m, c)
           n == Specs[c].node
           source == OwnClaim(Specs[c].backup)
           dest == RestoreClaim(m, n)
           clear == ClearFlag(S(c))
           common == [method |-> m, node |-> n, action |-> S(c).action]
           default == [source |-> RestoreSource, dest |-> RestoreDest, decompress |-> FALSE,
                       md5 |-> FALSE, input |-> "", clear |-> FALSE]
<1>1. job = jobForRestore(m, S(c))
  <2>1. S(c).snapshot = ""
    BY Specified
  <2> QED
    BY <2>1 DEF JobOf
<1>2. /\ job.command = "restore"
      /\ job.mounts = RestoreSource :> source @@ RestoreDest :> dest
      /\ job.args = common @@ clear
  <2> DEFINE t == S(c)
             mounts == RestoreSource :> source @@ RestoreDest :> dest
             args == common @@ clear
  <2>1. t.node = n /\ t.backup = Specs[c].backup
    BY Specified
  <2>2. jobForRestore(m, t) = Job("restore", mounts, args)
    BY <2>1, Zenon DEF jobForRestore, Common
  <2>3. job = Job("restore", mounts, args)
    BY <1>1, <2>2
  <2> HIDE DEF job, mounts, args
  <2>4. Made(job, "restore", mounts, args)
    BY <2>3, JobFields, Zenon
  <2> QED
    BY <2>4, Zenon DEF Made, mounts, args
<1>3. Specs[c].pack = FALSE /\ Specs[c].clear \in BOOLEAN
  BY Ruled, Specified
<1>4. /\ DOMAIN clear = IF Specs[c].clear THEN {"clear"} ELSE {}
      /\ Specs[c].clear => clear["clear"] = TRUE
  BY ClearFlagOf
<1> HIDE DEF job, n, source, dest, clear
<1>5. /\ dest \in Range(job.mounts)
      /\ Resolve(job, RestoreSource) = <<source, <<>>>>
      /\ Resolve(job, RestoreDest) = <<dest, <<>>>>
  <2> DEFINE a == "restore-source"
             b == "restore-dest"
  <2> a # b
    OBVIOUS
  <2>1. RestoreSource = <<a>> /\ RestoreDest = <<b>>
    BY DEF RestoreSource, RestoreDest
  <2> HIDE DEF a, b
  <2>2. TwoMounts(job, a, source, b, dest)
    BY <1>2, <2>1 DEF TwoMounts
  <2>3. /\ Shallow(job) /\ dest \in Range(job.mounts)
        /\ <<a>> \in DOMAIN job.mounts /\ job.mounts[<<a>>] = source
        /\ <<b>> \in DOMAIN job.mounts /\ job.mounts[<<b>>] = dest
    BY <2>2, TwoMounted
  <2> QED
    BY <2>1, <2>3, ResolvedRoot
<1>6. /\ Flags(job).decompress = FALSE /\ Flags(job).clear = Specs[c].clear
      /\ Flags(job).source = RestoreSource /\ Flags(job).dest = RestoreDest
  <2>1. Flags(job) = (common @@ clear) @@ default
    <3>1. FlagDefaults["restore"] = default
      BY DefaultsOf
    <3>2. Flags(job) = job.args @@ FlagDefaults[job.command]
      BY Zenon DEF Flags
    <3> QED
      BY <1>2, <3>1, <3>2, Zenon
  <2> QED
    BY <1>3, <1>4, <2>1 DEF @@
<1>7. Source(job) = RestoreSource /\ Target(job) = RestoreDest
  BY <1>2, <1>6 DEF Source, Target
<1>8. /\ Seen(job).command = "restore" /\ Seen(job).flags = Flags(job)
      /\ Seen(job).from = <<source, <<>>>> /\ Seen(job).to = <<dest, <<>>>>
  BY <1>2, <1>5, <1>7 DEF Seen
<1> QED
  BY <1>3, <1>5, <1>6, <1>8 DEF job, n, source, dest, RestoreFacts

\* ... and for that of a Recover.
LEMMA OfRecover ==
  ASSUME NEW m \in Methods, NEW c \in CRs, Kind(c) = "Recover"
  PROVE  /\ RestoreFacts(m, c, Seen(JobOf(m, c)))
         /\ RestoreClaim(m, Specs[c].node) \in Range(JobOf(m, c).mounts)
<1> DEFINE job == JobOf(m, c)
           n == Specs[c].node
           claim == Specs[c].claim
           path == Specs[c].path
           first == path[1]
           mount == <<first>>
           dest == RestoreClaim(m, n)
           clear == ClearFlag(S(c))
           pack == IF Specs[c].pack
                   THEN [decompress |-> TRUE, md5 |-> Specs[c].md5, input |-> Specs[c].file]
                   ELSE <<>>
           common == [method |-> m, node |-> n, action |-> S(c).action]
           given == [source |-> path, dest |-> RestoreDest]
           default == [source |-> RestoreSource, dest |-> RestoreDest, decompress |-> FALSE,
                       md5 |-> FALSE, input |-> "", clear |-> FALSE]
<1>1. job = jobForRecover(m, S(c))
  BY DEF JobOf
<1>2. /\ path \in Seq(STRING) /\ path # <<>> /\ first # "restore-dest"
      /\ Specs[c].pack \in BOOLEAN /\ Specs[c].clear \in BOOLEAN
  BY Specified, Ruled
<1>3. /\ job.command = "restore"
      /\ job.mounts = mount :> claim @@ RestoreDest :> dest
      /\ job.args = common @@ clear @@ given @@ pack
  <2> DEFINE t == S(c)
             mounts == mount :> claim @@ RestoreDest :> dest
             args == common @@ clear @@ given @@ pack
  <2>1. /\ t.node = n /\ t.claim = claim /\ t.path = path /\ t.pack = Specs[c].pack
        /\ t.file = Specs[c].file /\ t.md5 = Specs[c].md5
    BY Specified
  <2>2. jobForRecover(m, t) = Job("restore", mounts, args)
    <3>1. jobForRecover(m, t) =
            Job("restore", <<t.path[1]>> :> t.claim @@ RestoreDest :> RestoreClaim(m, t.node),
                [method |-> m, node |-> t.node, action |-> t.action] @@ ClearFlag(t)
                  @@ [source |-> t.path, dest |-> RestoreDest]
                  @@ (IF t.pack
                      THEN [decompress |-> TRUE, md5 |-> t.md5, input |-> t.file] ELSE <<>>))
      BY Zenon DEF jobForRecover, Common, GetMountPoint
    <3> QED
      BY <2>1, <3>1, Zenon
  <2>3. job = Job("restore", mounts, args)
    BY <1>1, <2>2
  <2> HIDE DEF mounts, args
  <2>4. job.command = "restore" /\ job.mounts = mounts /\ job.args = args
    BY <2>3 DEF Job
  <2> QED
    BY <2>4 DEF mounts, args
<1>4. pack = IF Specs[c].pack
             THEN [decompress |-> TRUE, md5 |-> Specs[c].md5, input |-> Specs[c].file]
             ELSE <<>>
  OBVIOUS
<1>5. /\ DOMAIN clear = IF Specs[c].clear THEN {"clear"} ELSE {}
      /\ Specs[c].clear => clear["clear"] = TRUE
  BY ClearFlagOf
<1> HIDE DEF job, n, claim, path, first, dest, clear, pack
<1>6. /\ dest \in Range(job.mounts) /\ Shallow(job)
      /\ mount \in DOMAIN job.mounts /\ job.mounts[mount] = claim
      /\ Resolve(job, RestoreDest) = <<dest, <<>>>>
  <2> DEFINE b == "restore-dest"
  <2>1. RestoreDest = <<b>> /\ b # first
    BY <1>2 DEF RestoreDest
  <2> HIDE DEF b
  <2>2. TwoMounts(job, first, claim, b, dest)
    BY <1>3, <2>1 DEF TwoMounts
  <2>3. /\ Shallow(job) /\ dest \in Range(job.mounts)
        /\ mount \in DOMAIN job.mounts /\ job.mounts[mount] = claim
        /\ <<b>> \in DOMAIN job.mounts /\ job.mounts[<<b>>] = dest
    BY <2>1, <2>2, TwoMounted
  <2>4. Resolve(job, <<b>>) = <<dest, <<>>>>
    BY <2>3, ResolvedRoot
  <2>5. Resolve(job, RestoreDest) = <<dest, <<>>>>
    BY <2>1, <2>4
  <2>6. dest \in Range(job.mounts)
    BY <2>3
  <2> QED
    BY <2>3, <2>5, <2>6, Zenon
<1>7. Resolve(job, path) = Below(claim, path)
  <2>1. Resolve(job, path) = <<job.mounts[mount], SubSeq(path, 2, Len(path))>>
    BY <1>2, <1>6, Resolved DEF first
  <2> QED
    BY <1>6, <2>1 DEF Below
<1>8. /\ Flags(job).decompress = Specs[c].pack /\ Flags(job).clear = Specs[c].clear
      /\ Specs[c].pack => Flags(job).md5 = Specs[c].md5 /\ Flags(job).input = Specs[c].file
      /\ Flags(job).source = path /\ Flags(job).dest = RestoreDest
  <2>1. Flags(job) = (common @@ clear @@ given @@ pack) @@ default
    BY <1>3, DefaultsOf, ZenonT(60) DEF Flags
  <2>2. CASE Specs[c].pack
    <3>1. pack = [decompress |-> TRUE, md5 |-> Specs[c].md5, input |-> Specs[c].file]
      BY <1>4, <2>2
    <3> QED
      BY <1>2, <1>5, <2>1, <2>2, <3>1, ZenonT(60) DEF @@
  <2>3. CASE ~Specs[c].pack
    <3>1. pack = <<>> /\ Specs[c].pack = FALSE
      BY <1>2, <1>4, <2>3
    <3>2. DOMAIN pack = {}
      BY <3>1
    <3> QED
      BY <1>2, <1>5, <2>1, <2>3, <3>1, <3>2 DEF @@
  <2> QED
    BY <2>2, <2>3
<1>9. Source(job) = path /\ Target(job) = RestoreDest
  BY <1>3, <1>8 DEF Source, Target
<1>10. /\ Seen(job).command = "restore" /\ Seen(job).flags = Flags(job)
       /\ Seen(job).from = Below(claim, path) /\ Seen(job).to = <<dest, <<>>>>
  BY <1>3, <1>6, <1>7, <1>9 DEF Seen
<1> QED
  BY <1>6, <1>8, <1>10 DEF RestoreFacts, job, n, claim, path, dest

\* What the programs of cloud-op are told of the node's algorithms.
LEMMA AlgorithmsFit ==
  ASSUME NEW n \in Nodes, NEW before, NEW x, NEW y, NEW z,
         {"crypto", "consensus"} \cap DOMAIN before = {}
  PROVE  /\ Fits(n, before @@ Algorithms(n) @@ x @@ y)
         /\ Fits(n, before @@ Algorithms(n) @@ x @@ y @@ z)
<1> DEFINE f == before @@ Algorithms(n) @@ x @@ y
           g == before @@ Algorithms(n) @@ x @@ y @@ z
<1>1. f["consensus"] = filterConsensus(n) /\ g["consensus"] = filterConsensus(n)
  BY DEF Algorithms, @@
<1>2. CASE filterCrypto(n) = ""
  BY <1>1, <1>2 DEF Fits
<1>3. CASE filterCrypto(n) # ""
  <2>1. Algorithms(n) = [consensus |-> filterConsensus(n)] @@ [crypto |-> filterCrypto(n)]
    BY <1>3 DEF Algorithms
  <2>2. f["crypto"] = filterCrypto(n) /\ g["crypto"] = filterCrypto(n)
    BY <2>1 DEF @@
  <2> QED
    BY <1>1, <2>2 DEF Fits
<1> QED
  BY <1>2, <1>3

\* The flags of cloud-op, without and with that to delete consensus data.
PlainFlags(f, m, k, action, n, h) ==
  f = [method |-> m, node |-> k, action |-> action] @@ Algorithms(n)
        @@ [height |-> h] @@ ChainDefaults
ClearFlags(f, m, k, action, n, h, clear) ==
  f = [method |-> m, node |-> k, action |-> action] @@ Algorithms(n)
        @@ [height |-> h] @@ clear @@ ChainDefaults
Clears(f, clear) == f.clear = IF DOMAIN clear = {} THEN FALSE ELSE clear["clear"]
Told(f, m, k, n, h) == f.method = m /\ f.node = k /\ f.height = h /\ Fits(n, f)

\* The program finds in them what the Job was given.
LEMMA ChainFlags ==
  ASSUME NEW n \in Nodes, NEW m, NEW k, NEW action, NEW h, NEW clear,
         DOMAIN clear \subseteq {"clear"}
  PROVE  \A f : /\ PlainFlags(f, m, k, action, n, h) => Told(f, m, k, n, h)
                /\ ClearFlags(f, m, k, action, n, h, clear) =>
                     Told(f, m, k, n, h) /\ Clears(f, clear)
<1> DEFINE common == [method |-> m, node |-> k, action |-> action]
           height == [height |-> h]
           g == common @@ Algorithms(n) @@ height @@ ChainDefaults
           d == common @@ Algorithms(n) @@ height @@ clear @@ ChainDefaults
<1>1. {"crypto", "consensus"} \cap DOMAIN common = {}
  OBVIOUS
<1>2. DOMAIN Algorithms(n) \subseteq {"crypto", "consensus"}
  <2>1. CASE filterCrypto(n) = ""
    <3> DEFINE none == <<>>
    <3>1. Algorithms(n) = [consensus |-> filterConsensus(n)] @@ none
      BY <2>1 DEF Algorithms
    <3>2. DOMAIN none = {}
      OBVIOUS
    <3> HIDE DEF none
    <3> QED
      BY <3>1, <3>2 DEF @@
  <2>2. CASE filterCrypto(n) # ""
    <3>1. Algorithms(n) = [consensus |-> filterConsensus(n)] @@ [crypto |-> filterCrypto(n)]
      BY <2>2 DEF Algorithms
    <3> QED
      BY <3>1 DEF @@
  <2> QED
    BY <2>1, <2>2
<1>3. Fits(n, g) /\ Fits(n, d)
  BY <1>1, AlgorithmsFit
<1> DEFINE alg == Algorithms(n)
           default == ChainDefaults
<1>4. DOMAIN alg \subseteq {"crypto", "consensus"}
  BY <1>2
<1>5. /\ DOMAIN default = {"height", "crypto", "consensus", "clear"}
      /\ default["clear"] = FALSE
  BY SMT DEF ChainDefaults
<1>6. /\ g = ((common @@ alg) @@ height) @@ default
      /\ d = (((common @@ alg) @@ height) @@ clear) @@ default
  OBVIOUS
<1> HIDE DEF alg, default, g, d
<1>7. /\ g.method = m /\ g.node = k /\ g.height = h /\ g.clear = FALSE
      /\ d.method = m /\ d.node = k /\ d.height = h
  BY <1>4, <1>5, <1>6 DEF @@
<1>8. d.clear = IF DOMAIN clear = {} THEN FALSE ELSE clear["clear"]
  <2> DEFINE e == (common @@ alg) @@ height
  <2>1. d = (e @@ clear) @@ default
    BY <1>6
  <2>2. "clear" \notin DOMAIN e
    BY <1>4 DEF @@
  <2> HIDE DEF e
  <2>3. CASE DOMAIN clear = {}
    BY <1>5, <2>1, <2>2, <2>3 DEF @@
  <2>4. CASE DOMAIN clear = {"clear"}
    BY <1>5, <2>1, <2>2, <2>4 DEF @@
  <2> QED
    BY <2>3, <2>4
<1> QED
  BY <1>3, <1>7, <1>8, Zenon DEF Told, Clears, PlainFlags, ClearFlags, g, d

\* Where there is no configmap nothing else is mounted.
LEMMA NoMoreMounts ==
  ASSUME NEW a, NEW b, NEW v, NEW w
  PROVE  /\ (a :> v) @@ <<>> = a :> v
         /\ (a :> v @@ b :> w) @@ <<>> = a :> v @@ b :> w
  BY DEF @@, :>

\* What the programs of a Snapshot, ...
SnapshotFacts(m, c, j) ==
  /\ j.command = "snapshot"
  /\ j.flags.height = Specs[c].height
  /\ Fits(Specs[c].node, j.flags)
  /\ j.to = <<OwnClaim(c), <<>>>>
  /\ m = "cloud-config" => /\ j.from = HomeOf(m, Specs[c].node)
                           /\ j.config = <<ConfigMap(Specs[c].node), <<>>>>

\* ... a Restore from one, ...
RebuildFacts(m, c, j) ==
  /\ j.command = "snapshot-recover"
  /\ j.flags.height = Specs[Specs[c].snapshot].height
  /\ j.flags.clear = Specs[c].clear
  /\ Fits(Specs[c].node, j.flags)
  /\ j.from = <<OwnClaim(Specs[c].snapshot), <<>>>>
  /\ j.to = <<RestoreClaim(m, Specs[c].node), <<>>>>
  /\ m = "cloud-config" => j.config = <<ConfigMap(Specs[c].node), <<>>>>

\* ... a BlockHeightFallback ...
FallbackFacts(m, c, j) ==
  /\ j.command = "fallback"
  /\ j.flags.height = Specs[c].height
  /\ j.flags.clear = Specs[c].clear
  /\ Fits(Specs[c].node, j.flags)
  /\ j.from = HomeOf(m, Specs[c].node)
  /\ j.to = HomeOf(m, Specs[c].node)
  /\ j.config = IF m = "cloud-config" THEN <<ConfigMap(Specs[c].node), <<>>>>
                ELSE HomeOf(m, Specs[c].node)

\* ... and a ChangeOwner are told.
ChangeOwnerFacts(m, c, j) ==
  /\ j.command = "chown"
  /\ j.flags.uid = IF Specs[c].uid = 0 THEN 1000 ELSE Specs[c].uid
  /\ j.to = IF m = "helm" THEN <<DataDir(Specs[c].node), <<Specs[c].node>>>>
            ELSE HomeOf(m, Specs[c].node)

\* The Job of a Snapshot tells it that, ...
LEMMA OfSnapshot ==
  ASSUME NEW m \in Methods, NEW c \in CRs, Kind(c) = "Snapshot"
  PROVE  /\ SnapshotFacts(m, c, Seen(JobOf(m, c)))
         /\ SourceClaim(m, Specs[c].node) \in Range(JobOf(m, c).mounts)
<1> DEFINE job == JobOf(m, c)
           n == Specs[c].node
           h == Specs[c].height
           source == SourceClaim(m, n)
           own == OwnClaim(c)
           action == S(c).action
           common == [method |-> m, node |-> n, action |-> action]
           args == common @@ Algorithms(n) @@ [height |-> h]
           two == BackupSource :> source @@ BackupDest :> own
           three == BackupSource :> source @@ BackupDest :> own @@ ConfigMount :> ConfigMap(n)
           mounts == IF m = "cloud-config" THEN three ELSE two
<1>1. /\ job.command = "snapshot" /\ job.mounts = mounts /\ job.args = args
  <2> DEFINE t == S(c)
  <2>1. t.node = n /\ t.height = h
    BY Specified
  <2>2. job = jobForSnapshot(m, c, t)
    BY DEF JobOf
  <2>3. jobForSnapshot(m, c, t) = Job("snapshot", two @@ ConfigMounts(m, n), args)
    BY <2>1, Zenon DEF jobForSnapshot, Common
  <2>4. two @@ ConfigMounts(m, n) = mounts
    BY NoMoreMounts DEF ConfigMounts
  <2>5. job = Job("snapshot", mounts, args)
    BY <2>2, <2>3, <2>4, Zenon
  <2> HIDE DEF job, mounts, args
  <2>6. Made(job, "snapshot", mounts, args)
    BY <2>5, JobFields, Zenon
  <2> QED
    BY <2>6, Zenon DEF Made
<1>2. n \in Nodes
  BY Specified
<1> DEFINE a == "backup-source"
           b == "backup-dest"
           k == "cita-config"
<1>3. a # b /\ a # k /\ b # k
  OBVIOUS
<1>4. BackupSource = <<a>> /\ BackupDest = <<b>> /\ ConfigMount = <<k>>
  BY DEF BackupSource, BackupDest, ConfigMount
<1>5. m = "cloud-config" => <<source, <<>>>> = HomeOf(m, n)
  BY DEF HomeOf, SourceClaim
<1> HIDE DEF a, b, k
<1>6. IF m = "cloud-config" THEN ThreeMounts(job, a, source, b, own, k, ConfigMap(n))
      ELSE TwoMounts(job, a, source, b, own)
  BY <1>1, <1>4, Zenon DEF TwoMounts, ThreeMounts
<1>7. /\ Flags(job).method = m /\ Flags(job).node = n /\ Flags(job).height = h
      /\ Fits(n, Flags(job))
  <2>1. FlagDefaults["snapshot"] = ChainDefaults
    BY DefaultsOf
  <2>2. Flags(job) = job.args @@ FlagDefaults[job.command]
    BY Zenon DEF Flags
  <2>3. Flags(job) = common @@ Algorithms(n) @@ [height |-> h] @@ ChainDefaults
    BY <1>1, <2>1, <2>2, Zenon
  <2>4. PlainFlags(Flags(job), m, n, action, n, h)
    BY <2>3, Zenon DEF PlainFlags
  <2>5. DOMAIN [x \in {} |-> x] \subseteq {"clear"}
    OBVIOUS
  <2> HIDE DEF n, h, action, job
  <2>6. Told(Flags(job), m, n, n, h)
    BY <1>2, <2>4, <2>5, ChainFlags, Zenon
  <2> QED
    BY <2>6 DEF Told
<1> HIDE DEF job, n, h, source, own, mounts, args
<1>8. /\ Shallow(job) /\ source \in Range(job.mounts)
      /\ <<a>> \in DOMAIN job.mounts /\ job.mounts[<<a>>] = source
      /\ <<b>> \in DOMAIN job.mounts /\ job.mounts[<<b>>] = own
      /\ m = "cloud-config" => <<k>> \in DOMAIN job.mounts /\ job.mounts[<<k>>] = ConfigMap(n)
  <2>1. CASE m = "cloud-config"
    <3>1. ThreeMounts(job, a, source, b, own, k, ConfigMap(n))
      BY <1>6, <2>1
    <3> QED
      BY <1>3, <3>1, ThreeMounted, Zenon
  <2>2. CASE m # "cloud-config"
    <3>1. TwoMounts(job, a, source, b, own)
      BY <1>6, <2>2
    <3> QED
      BY <1>3, <2>2, <3>1, TwoMounted, Zenon
  <2> QED
    BY <2>1, <2>2
<1>9. /\ Resolve(job, BackupDest) = <<own, <<>>>>
      /\ Resolve(job, BackupSource) = <<source, <<>>>>
      /\ m = "cloud-config" => Resolve(job, ConfigMount) = <<ConfigMap(n), <<>>>>
  BY <1>4, <1>8, ResolvedRoot
<1>10. Target(job) = BackupDest
  BY <1>1 DEF Target
<1>11. m = "cloud-config" => Source(job) = BackupSource /\ Config(job) = ConfigMount
  BY <1>1, <1>7 DEF Source, NodeRoot, Config
<1>12. /\ Seen(job).command = "snapshot" /\ Seen(job).flags = Flags(job)
       /\ Seen(job).to = <<own, <<>>>>
       /\ m = "cloud-config" => /\ Seen(job).from = <<source, <<>>>>
                                /\ Seen(job).config = <<ConfigMap(n), <<>>>>
  BY <1>1, <1>9, <1>10, <1>11 DEF Seen
<1> QED
  BY <1>5, <1>7, <1>8, <1>12 DEF SnapshotFacts, job, n, h, source, own

\* ... and so does that of a Restore from a Snapshot, ...
LEMMA OfRebuild ==
  ASSUME NEW m \in Methods, NEW c \in CRs, Kind(c) = "Restore", Specs[c].snapshot # ""
  PROVE  /\ RebuildFacts(m, c, Seen(JobOf(m, c)))
         /\ RestoreClaim(m, Specs[c].node) \in Range(JobOf(m, c).mounts)
<1> DEFINE job == JobOf(m, c)
           n == Specs[c].node
           h == Specs[Specs[c].snapshot].height
           source == OwnClaim(Specs[c].snapshot)
           dest == RestoreClaim(m, n)
           clear == ClearFlag(S(c))
           action == S(c).action
           common == [method |-> m, node |-> n, action |-> action]
           args == common @@ Algorithms(n) @@ [height |-> h] @@ clear
           mounts == RestoreSource :> source @@ RestoreDest :> dest
                       @@ ConfigMount :> ConfigMap(n)
<1>1. /\ job.command = "snapshot-recover" /\ job.mounts = mounts /\ job.args = args
  <2> DEFINE t == S(c)
             u == S(t.snapshot)
  <2>1. t.node = n /\ t.snapshot = Specs[c].snapshot
    BY Specified
  <2>2. u.height = h
    <3>1. Specs[c].snapshot \in CRs
      BY Specified
    <3> QED
      BY <2>1, <3>1, Specified
  <2>3. job = jobForSnapshotRecover(m, t, u.height)
    BY <2>1 DEF JobOf
  <2>4. jobForSnapshotRecover(m, t, h) = Job("snapshot-recover", mounts, args)
    BY <2>1, Zenon DEF jobForSnapshotRecover, Common
  <2>5. job = Job("snapshot-recover", mounts, args)
    BY <2>2, <2>3, <2>4, Zenon
  <2> HIDE DEF job, mounts, args
  <2>6. Made(job, "snapshot-recover", mounts, args)
    BY <2>5, JobFields, Zenon
  <2> QED
    BY <2>6, Zenon DEF Made
<1>2. n \in Nodes /\ Specs[c].clear \in BOOLEAN
  BY Specified
<1>3. /\ DOMAIN clear = IF Specs[c].clear THEN {"clear"} ELSE {}
      /\ Specs[c].clear => clear["clear"] = TRUE
  BY ClearFlagOf
<1> DEFINE a == "restore-source"
           b == "restore-dest"
           k == "cita-config"
<1>4. a # b /\ a # k /\ b # k
  OBVIOUS
<1>5. RestoreSource = <<a>> /\ RestoreDest = <<b>> /\ ConfigMount = <<k>>
  BY DEF RestoreSource, RestoreDest, ConfigMount
<1> HIDE DEF a, b, k
<1>6. ThreeMounts(job, a, source, b, dest, k, ConfigMap(n))
  BY <1>1, <1>5, Zenon DEF ThreeMounts
<1>7. /\ Flags(job).method = m /\ Flags(job).height = h
      /\ Flags(job).clear = Specs[c].clear /\ Fits(n, Flags(job))
  <2>1. FlagDefaults["snapshot-recover"] = ChainDefaults
    BY DefaultsOf
  <2>2. Flags(job) = job.args @@ FlagDefaults[job.command]
    BY Zenon DEF Flags
  <2>3. Flags(job) = common @@ Algorithms(n) @@ [height |-> h] @@ clear @@ ChainDefaults
    BY <1>1, <2>1, <2>2, Zenon
  <2>4. ClearFlags(Flags(job), m, n, action, n, h, clear)
    BY <2>3, Zenon DEF ClearFlags
  <2>5. DOMAIN clear \subseteq {"clear"}
    BY <1>3
  <2> HIDE DEF n, h, action, job, clear
  <2>6. Told(Flags(job), m, n, n, h) /\ Clears(Flags(job), clear)
    BY <1>2, <2>4, <2>5, ChainFlags, Zenon
  <2>7. Flags(job).clear = Specs[c].clear
    BY <1>2, <1>3, <2>6 DEF Clears
  <2> QED
    BY <2>6, <2>7 DEF Told
<1> HIDE DEF job, n, h, source, dest, mounts, args
<1>8. /\ Shallow(job) /\ dest \in Range(job.mounts)
      /\ <<a>> \in DOMAIN job.mounts /\ job.mounts[<<a>>] = source
      /\ <<b>> \in DOMAIN job.mounts /\ job.mounts[<<b>>] = dest
      /\ <<k>> \in DOMAIN job.mounts /\ job.mounts[<<k>>] = ConfigMap(n)
  BY <1>4, <1>6, ThreeMounted, Zenon
<1>9. /\ Resolve(job, RestoreSource) = <<source, <<>>>>
      /\ Resolve(job, RestoreDest) = <<dest, <<>>>>
      /\ Resolve(job, ConfigMount) = <<ConfigMap(n), <<>>>>
  BY <1>5, <1>8, ResolvedRoot
<1>10. /\ Source(job) = RestoreSource /\ Target(job) = RestoreDest
       /\ m = "cloud-config" => Config(job) = ConfigMount
  BY <1>1, <1>7 DEF Source, Target, Config
<1>11. /\ Seen(job).command = "snapshot-recover" /\ Seen(job).flags = Flags(job)
       /\ Seen(job).from = <<source, <<>>>> /\ Seen(job).to = <<dest, <<>>>>
       /\ m = "cloud-config" => Seen(job).config = <<ConfigMap(n), <<>>>>
  BY <1>1, <1>9, <1>10 DEF Seen
<1> QED
  BY <1>7, <1>8, <1>11 DEF RebuildFacts, job, n, h, source, dest

\* ... of a BlockHeightFallback ...
LEMMA OfFallback ==
  ASSUME NEW m \in Methods, NEW c \in CRs, Kind(c) = "Fallback"
  PROVE  FallbackFacts(m, c, Seen(JobOf(m, c)))
<1> DEFINE job == JobOf(m, c)
           n == Specs[c].node
           h == Specs[c].height
           claim == VolumeClaim(m, n)
           clear == ClearFlag(S(c))
           action == S(c).action
           common == [method |-> m, node |-> n, action |-> action]
           args == common @@ Algorithms(n) @@ [height |-> h] @@ clear
           one == VolumeMount :> claim
           two == VolumeMount :> claim @@ ConfigMount :> ConfigMap(n)
           mounts == IF m = "cloud-config" THEN two ELSE one
<1>1. /\ job.command = "fallback" /\ job.mounts = mounts /\ job.args = args
  <2> DEFINE t == S(c)
  <2>1. t.node = n /\ t.height = h
    BY Specified
  <2>2. job = jobForBlockHeightFallback(m, t)
    BY DEF JobOf
  <2>3. jobForBlockHeightFallback(m, t) = Job("fallback", one @@ ConfigMounts(m, n), args)
    BY <2>1, Zenon DEF jobForBlockHeightFallback, Common
  <2>4. one @@ ConfigMounts(m, n) = mounts
    BY NoMoreMounts DEF ConfigMounts
  <2>5. job = Job("fallback", mounts, args)
    BY <2>2, <2>3, <2>4, Zenon
  <2> HIDE DEF job, mounts, args
  <2>6. Made(job, "fallback", mounts, args)
    BY <2>5, JobFields, Zenon
  <2> QED
    BY <2>6, Zenon DEF Made
<1>2. n \in Nodes /\ Specs[c].clear \in BOOLEAN
  BY Specified
<1>3. /\ DOMAIN clear = IF Specs[c].clear THEN {"clear"} ELSE {}
      /\ Specs[c].clear => clear["clear"] = TRUE
  BY ClearFlagOf
<1> DEFINE a == "mnt"
           k == "cita-config"
<1>4. a # k
  OBVIOUS
<1>5. VolumeMount = <<a>> /\ ConfigMount = <<k>>
  BY DEF VolumeMount, ConfigMount
<1> HIDE DEF a, k
<1>6. IF m = "cloud-config" THEN TwoMounts(job, a, claim, k, ConfigMap(n))
      ELSE OneMount(job, a, claim)
  BY <1>1, <1>5, Zenon DEF OneMount, TwoMounts
<1>7. /\ Flags(job).method = m /\ Flags(job).node = n /\ Flags(job).height = h
      /\ Flags(job).clear = Specs[c].clear /\ Fits(n, Flags(job))
  <2>1. FlagDefaults["fallback"] = ChainDefaults
    BY DefaultsOf
  <2>2. Flags(job) = job.args @@ FlagDefaults[job.command]
    BY Zenon DEF Flags
  <2>3. Flags(job) = common @@ Algorithms(n) @@ [height |-> h] @@ clear @@ ChainDefaults
    BY <1>1, <2>1, <2>2, Zenon
  <2>4. ClearFlags(Flags(job), m, n, action, n, h, clear)
    BY <2>3, Zenon DEF ClearFlags
  <2>5. DOMAIN clear \subseteq {"clear"}
    BY <1>3
  <2> HIDE DEF n, h, action, job, clear
  <2>6. Told(Flags(job), m, n, n, h) /\ Clears(Flags(job), clear)
    BY <1>2, <2>4, <2>5, ChainFlags, Zenon
  <2>7. Flags(job).clear = Specs[c].clear
    BY <1>2, <1>3, <2>6 DEF Clears
  <2> QED
    BY <2>6, <2>7 DEF Told
<1>8. HomeOf(m, n) = IF m = "cloud-config" THEN <<claim, <<>>>> ELSE <<claim, <<n>>>>
  BY DEF HomeOf, VolumeClaim
<1> HIDE DEF job, n, h, claim, mounts, args
<1>9. /\ Shallow(job)
      /\ <<a>> \in DOMAIN job.mounts /\ job.mounts[<<a>>] = claim
      /\ m = "cloud-config" => <<k>> \in DOMAIN job.mounts /\ job.mounts[<<k>>] = ConfigMap(n)
  <2>1. CASE m = "cloud-config"
    <3>1. TwoMounts(job, a, claim, k, ConfigMap(n))
      BY <1>6, <2>1
    <3> QED
      BY <1>4, <3>1, TwoMounted, Zenon
  <2>2. CASE m # "cloud-config"
    <3>1. OneMount(job, a, claim)
      BY <1>6, <2>2
    <3> QED
      BY <2>2, <3>1, OneMounted, Zenon
  <2> QED
    BY <2>1, <2>2
<1>10. /\ Resolve(job, VolumeMount) = <<claim, <<>>>>
       /\ Resolve(job, Append(VolumeMount, n)) = <<claim, <<n>>>>
       /\ m = "cloud-config" => Resolve(job, ConfigMount) = <<ConfigMap(n), <<>>>>
  BY <1>5, <1>9, ResolvedRoot, ResolvedIn
<1>11. /\ Source(job) = IF m = "cloud-config" THEN VolumeMount ELSE Append(VolumeMount, n)
       /\ Target(job) = Source(job)
       /\ Config(job) = IF m = "cloud-config" THEN ConfigMount ELSE Target(job)
  BY <1>1, <1>7 DEF Source, Target, NodeRoot, Config
<1>12. /\ Seen(job).command = "fallback" /\ Seen(job).flags = Flags(job)
       /\ Seen(job).from = HomeOf(m, n) /\ Seen(job).to = HomeOf(m, n)
       /\ Seen(job).config = IF m = "cloud-config" THEN <<ConfigMap(n), <<>>>>
                             ELSE HomeOf(m, n)
  BY <1>1, <1>8, <1>10, <1>11 DEF Seen
<1> QED
  BY <1>7, <1>12 DEF FallbackFacts, job, n, h

\* ... and of a ChangeOwner.
LEMMA OfChangeOwner ==
  ASSUME NEW m \in Methods, NEW c \in CRs, Kind(c) = "ChangeOwner"
  PROVE  /\ ChangeOwnerFacts(m, c, Seen(JobOf(m, c)))
         /\ SourceClaim(m, Specs[c].node) \in Range(JobOf(m, c).mounts)
<1> DEFINE job == JobOf(m, c)
           n == Specs[c].node
           uid == S(c).uid
           claim == SourceClaim(m, n)
           common == [method |-> m, node |-> n, action |-> S(c).action]
           given == [uid |-> uid]
           args == common @@ given
           mounts == ChangeOwner :> claim
           default == [uid |-> 1000]
<1>1. /\ job.command = "chown" /\ job.mounts = mounts /\ job.args = args
  <2> DEFINE t == S(c)
  <2>1. t.node = n
    BY Specified
  <2>2. job = jobForChangeOwner(m, t)
    BY DEF JobOf
  <2>3. jobForChangeOwner(m, t) = Job("chown", mounts, args)
    BY <2>1, Zenon DEF jobForChangeOwner, Common
  <2>4. job = Job("chown", mounts, args)
    BY <2>2, <2>3, Zenon
  <2> HIDE DEF job, mounts, args
  <2>5. Made(job, "chown", mounts, args)
    BY <2>4, JobFields, Zenon
  <2> QED
    BY <2>5, Zenon DEF Made
<1> DEFINE a == "change-owner"
<1>2. ChangeOwner = <<a>>
  BY DEF ChangeOwner
<1> HIDE DEF a
<1>3. OneMount(job, a, claim)
  BY <1>1, <1>2, Zenon DEF OneMount
<1>4. HomeOf(m, n) = IF m = "cloud-config" THEN <<claim, <<>>>> ELSE <<ChainClaim, <<n>>>>
  BY DEF HomeOf, SourceClaim
<1>5. claim = IF m = "python" THEN ChainClaim ELSE DataDir(n)
  BY DEF SourceClaim
<1>6. uid = IF Specs[c].uid = 0 THEN 1000 ELSE Specs[c].uid
  BY Specified
<1> HIDE DEF job, n, uid, claim
<1>7. Flags(job).method = m /\ Flags(job).node = n /\ Flags(job).uid = uid
  <2>1. FlagDefaults["chown"] = default
    BY DefaultsOf
  <2>2. Flags(job) = job.args @@ FlagDefaults[job.command]
    BY Zenon DEF Flags
  <2> HIDE DEF default
  <2>3. Flags(job) = (common @@ given) @@ default
    BY <1>1, <2>1, <2>2, Zenon
  <2> QED
    BY <2>3 DEF @@
<1> HIDE DEF mounts, args
<1>8. /\ Shallow(job) /\ claim \in Range(job.mounts)
      /\ <<a>> \in DOMAIN job.mounts /\ job.mounts[<<a>>] = claim
  BY <1>3, OneMounted, Zenon
<1>9. /\ Resolve(job, ChangeOwner) = <<claim, <<>>>>
      /\ Resolve(job, Append(ChangeOwner, n)) = <<claim, <<n>>>>
  BY <1>2, <1>8, ResolvedRoot, ResolvedIn
<1>10. Target(job) = IF m = "cloud-config" THEN ChangeOwner ELSE Append(ChangeOwner, n)
  BY <1>1, <1>7 DEF Source, Target, NodeRoot
<1>11. /\ Seen(job).command = "chown" /\ Seen(job).flags = Flags(job)
       /\ Seen(job).to = IF m = "helm" THEN <<DataDir(n), <<n>>>> ELSE HomeOf(m, n)
  <2>1. Seen(job).to = Resolve(job, Target(job)) /\ Seen(job).command = "chown"
        /\ Seen(job).flags = Flags(job)
    BY <1>1 DEF Seen
  <2>2. CASE m = "cloud-config"
    BY <1>4, <1>9, <1>10, <2>1, <2>2
  <2>3. CASE m = "python"
    BY <1>4, <1>5, <1>9, <1>10, <2>1, <2>3
  <2>4. CASE m = "helm"
    BY <1>5, <1>9, <1>10, <2>1, <2>4
  <2> QED
    BY <2>2, <2>3, <2>4 DEF Methods
<1> QED
  BY <1>6, <1>7, <1>8, <1>11 DEF ChangeOwnerFacts, job, n, claim
-----------------------------------------------------------------------------
\* All of this for any resource.
JobFacts(m, c, j) ==
  /\ Kind(c) \in {"Backup", "Duplicate"} => BackupFacts(m, c, j)
  /\ Kind(c) = "Recover" \/ (Kind(c) = "Restore" /\ Specs[c].snapshot = "")
       => RestoreFacts(m, c, j)
  /\ Kind(c) = "Snapshot" => SnapshotFacts(m, c, j)
  /\ Kind(c) = "Restore" /\ Specs[c].snapshot # "" => RebuildFacts(m, c, j)
  /\ Kind(c) = "Fallback" => FallbackFacts(m, c, j)
  /\ Kind(c) = "ChangeOwner" => ChangeOwnerFacts(m, c, j)

\* Whatever the kind.
LEMMA OfEvery ==
  ASSUME NEW m \in Methods, NEW c \in CRs
  PROVE  /\ JobFacts(m, c, Seen(JobOf(m, c)))
         /\ Kind(c) \in {"Restore", "Recover"} =>
              RestoreClaim(m, Specs[c].node) \in Range(JobOf(m, c).mounts)
         /\ Kind(c) \in {"Backup", "Duplicate", "Snapshot", "ChangeOwner"} =>
              SourceClaim(m, Specs[c].node) \in Range(JobOf(m, c).mounts)
<1> DEFINE job == JobOf(m, c)
           j == Seen(job)
<1> HIDE DEF job, j
<1>1. Kind(c) = "Backup" => BackupFacts(m, c, j) /\ SourceClaim(m, Specs[c].node) \in Range(job.mounts)
  BY OfBackup, Zenon DEF job, j
<1>2. Kind(c) = "Duplicate" => BackupFacts(m, c, j) /\ SourceClaim(m, Specs[c].node) \in Range(job.mounts)
  BY OfDuplicate, Zenon DEF job, j
<1>3. Kind(c) = "Restore" /\ Specs[c].snapshot = "" =>
        RestoreFacts(m, c, j) /\ RestoreClaim(m, Specs[c].node) \in Range(job.mounts)
  BY OfRestore, Zenon DEF job, j
<1>4. Kind(c) = "Recover" => RestoreFacts(m, c, j) /\ RestoreClaim(m, Specs[c].node) \in Range(job.mounts)
  BY OfRecover, Zenon DEF job, j
<1>5. Kind(c) = "Snapshot" => SnapshotFacts(m, c, j) /\ SourceClaim(m, Specs[c].node) \in Range(job.mounts)
  BY OfSnapshot, Zenon DEF job, j
<1>6. Kind(c) = "Restore" /\ Specs[c].snapshot # "" =>
        RebuildFacts(m, c, j) /\ RestoreClaim(m, Specs[c].node) \in Range(job.mounts)
  BY OfRebuild, Zenon DEF job, j
<1>7. Kind(c) = "Fallback" => FallbackFacts(m, c, j)
  BY OfFallback, Zenon DEF job, j
<1>8. Kind(c) = "ChangeOwner" => ChangeOwnerFacts(m, c, j) /\ SourceClaim(m, Specs[c].node) \in Range(job.mounts)
  BY OfChangeOwner, Zenon DEF job, j
<1>9. JobFacts(m, c, j)
  BY <1>1, <1>2, <1>3, <1>4, <1>5, <1>6, <1>7, <1>8 DEF JobFacts
<1> QED
  BY <1>1, <1>2, <1>3, <1>4, <1>5, <1>6, <1>8, <1>9 DEF job, j

\* What the program is to start again has no part in it.
LEMMA WithReplicas ==
  ASSUME NEW m, NEW c, NEW job, NEW r, JobFacts(m, c, Seen(job))
  PROVE  /\ JobFacts(m, c, [Seen(job) EXCEPT !.replicas = r])
         /\ [Seen(job) EXCEPT !.replicas = r].replicas = r
<1> DEFINE j == Seen(job)
           k == [j EXCEPT !.replicas = r]
<1>1. /\ k.command = j.command /\ k.flags = j.flags /\ k.from = j.from /\ k.to = j.to
      /\ k.config = j.config /\ k.replicas = r
  BY DEF Seen
<1> HIDE DEF j, k
<1>2. BackupFacts(m, c, j) => BackupFacts(m, c, k)
  BY <1>1, Zenon DEF BackupFacts
<1>3. RestoreFacts(m, c, j) => RestoreFacts(m, c, k)
  BY <1>1, Zenon DEF RestoreFacts
<1>4. SnapshotFacts(m, c, j) => SnapshotFacts(m, c, k)
  BY <1>1, Zenon DEF SnapshotFacts
<1>5. RebuildFacts(m, c, j) => RebuildFacts(m, c, k)
  BY <1>1, Zenon DEF RebuildFacts
<1>6. FallbackFacts(m, c, j) => FallbackFacts(m, c, k)
  BY <1>1, Zenon DEF FallbackFacts
<1>7. ChangeOwnerFacts(m, c, j) => ChangeOwnerFacts(m, c, k)
  BY <1>1 DEF ChangeOwnerFacts
<1> QED
  BY <1>1, <1>2, <1>3, <1>4, <1>5, <1>6, <1>7, Zenon DEF JobFacts, j, k
-----------------------------------------------------------------------------
(* Every Job made is the one its resource asks for, in every state.        *)

\* The directory of a node under the method in use.
LEMMA HomeIs == \A n : Home(n) = HomeOf(method, n)
  BY DEF Home, HomeOf

\* What is known of the resources and of their Jobs.
JobsKnown ==
  /\ method \in Methods
  /\ DOMAIN at \subseteq CRs
  /\ DOMAIN jobs \subseteq DOMAIN at
  /\ DOMAIN began = DOMAIN jobs
  /\ \A c \in DOMAIN at : /\ at[c] \in Progress
                          /\ at[c] \in AtWork \cup {"Complete"} => c \in DOMAIN jobs
  /\ \A c \in DOMAIN jobs : /\ JobFacts(method, c, jobs[c])
                            /\ Kind(c) \in {"Restore", "Recover"} => method = "cloud-config"
  /\ \A n \in Nodes : Home(n) \in DOMAIN store

\* In the beginning nothing has been asked for.
LEMMA JobsKnownInit == Init => JobsKnown
<1> SUFFICES ASSUME Init PROVE JobsKnown
  OBVIOUS
<1>1. at = <<>> /\ jobs = <<>> /\ began = <<>> /\ method \in Methods
  BY DEF Init
<1>2. DOMAIN at = {} /\ DOMAIN jobs = {} /\ DOMAIN began = {}
  BY <1>1
<1>3. \A n \in Nodes : Home(n) \in DOMAIN store
  BY Zenon DEF Init
<1> QED
  BY <1>1, <1>2, <1>3 DEF JobsKnown

\* A step of a resource that has been asked for.
StepOf(c) == Program(c) \/ Break(c) \/ DeleteJob(c)

\* What every such step has in common.
LEMMA Shape ==
  ASSUME NEW c \in DOMAIN at, StepOf(c)
  PROVE  /\ method' = method
         /\ at[c] \in {"active"} \cup AtWork
         /\ DOMAIN at' = DOMAIN at /\ at'[c] \in Progress /\ at'[c] # at[c]
         /\ \A d \in DOMAIN at : d # c => at'[d] = at[d]
         /\ DOMAIN store \subseteq DOMAIN store'
         /\ Prepare(c) \/ (jobs' = jobs /\ DOMAIN began' = DOMAIN began /\ at[c] \in AtWork)
<1>a. /\ "active" \in Progress /\ "ready" \in Progress /\ "busy" \in Progress
      /\ "done" \in Progress /\ "Complete" \in Progress /\ "Failed" \in Progress
      /\ AtWork = {"ready", "busy", "done"} /\ "active" \notin AtWork /\ "Failed" \notin AtWork
  BY DEF Progress, AtWork, Ended
<1>b. ASSUME NEW d PROVE Write(c, d) => DOMAIN store \subseteq DOMAIN store' /\ DOMAIN began' = DOMAIN began
  BY DEF Write, Noted, @@
<1>1. CASE Prepare(c)
  <2>1. at' = [at EXCEPT ![c] = "ready"] /\ at[c] = "active" /\ method' = method
    BY <1>1 DEF Prepare, Move
  <2>2. DOMAIN store \subseteq DOMAIN store'
    BY <1>1 DEF Prepare, Claimed, @@
  <2> QED
    BY <1>a, <1>1, <2>1, <2>2
<1>2. CASE BeginWork(c)
  <2>1. /\ method' = method /\ jobs' = jobs /\ at[c] = "ready"
    BY <1>2 DEF BeginWork
  <2>2. at' = [at EXCEPT ![c] = "busy"] \/ at' = [at EXCEPT ![c] = "Failed"]
    BY <1>2 DEF BeginWork, BeginBackup, BeginRestore, BeginCloudOp, GiveUp, Move
  <2>3. DOMAIN store \subseteq DOMAIN store' /\ DOMAIN began' = DOMAIN began
    <3>1. CASE BeginBackup(c)
      <4>1. CASE store' = (To(c) :> Read(To(c))) @@ store /\ began' = began
        BY <4>1 DEF @@
      <4> QED
        BY <1>b, <3>1, <4>1 DEF BeginBackup
    <3>2. CASE BeginRestore(c)
      BY <1>b, <3>2 DEF BeginRestore, GiveUp
    <3>3. CASE BeginCloudOp(c)
      BY <1>b, <3>3 DEF BeginCloudOp, GiveUp
    <3>4. CASE UNCHANGED <<store, began>>
      BY <3>4
    <3> QED
      BY <1>2, <3>1, <3>2, <3>3, <3>4 DEF BeginWork
  <2> QED
    BY <1>a, <2>1, <2>2, <2>3
<1>3. CASE EndWork(c)
  <2>1. /\ method' = method /\ jobs' = jobs /\ at[c] = "busy"
    BY <1>3 DEF EndWork
  <2>2. at' = [at EXCEPT ![c] = "done"] \/ at' = [at EXCEPT ![c] = "Failed"]
    BY <1>3 DEF EndWork, EndBackup, EndRestore, EndCloudOp, Chown, GiveUp, Move
  <2>3. DOMAIN store \subseteq DOMAIN store' /\ DOMAIN began' = DOMAIN began
    <3>1. CASE EndBackup(c)
      BY <1>b, <3>1 DEF EndBackup, GiveUp
    <3>2. CASE EndRestore(c)
      BY <1>b, <3>2 DEF EndRestore, GiveUp
    <3>3. CASE EndCloudOp(c) /\ Command(c) \in {"fallback", "snapshot", "snapshot-recover"}
      <4>1. CASE Command(c) = "snapshot"
        BY <1>b, <3>3, <4>1 DEF EndCloudOp
      <4>2. CASE Command(c) = "fallback"
        BY <1>b, <3>3, <4>2 DEF EndCloudOp
      <4>3. CASE Command(c) = "snapshot-recover"
        BY <1>b, <3>3, <4>3 DEF EndCloudOp
      <4> QED
        BY <3>3, <4>1, <4>2, <4>3
    <3>4. CASE Chown(c)
      BY <3>4 DEF Chown
    <3> QED
      BY <1>3, <3>1, <3>2, <3>3, <3>4 DEF EndWork
  <2> QED
    BY <1>a, <2>1, <2>2, <2>3
<1>4. CASE Finish(c)
  BY <1>a, <1>4 DEF Finish, Move
<1>5. CASE Break(c)
  <2>1. DOMAIN began' = DOMAIN began
    BY <1>5 DEF Break
  <2> QED
    BY <1>a, <1>5, <2>1 DEF Break, Move
<1>6. CASE DeleteJob(c)
  BY <1>a, <1>6 DEF DeleteJob, Move
<1> QED
  BY <1>1, <1>2, <1>3, <1>4, <1>5, <1>6 DEF StepOf, Program
-----------------------------------------------------------------------------
(* The data: contents, archives and directories are what they should be,   *)
(* and every program writes such ones.                                     *)

\* A directory, field by field.
DirOf(chain, state, archives, wal, by) ==
  [chain |-> chain, state |-> state, archives |-> archives, wal |-> wal, by |-> by]
Shelves == UNION {[names -> Archive] : names \in SUBSET Files}
Directories == [chain: Content, state: Content, archives: Shelves,
                wal: SUBSET ConsensusDirs, by: CRs \cup {""}]
Began == [chain: Content, fresh: BOOLEAN, sound: BOOLEAN, calm: BOOLEAN]

\* The fields of a directory, ...
LEMMA FieldsOf ==
  ASSUME NEW d \in Directories
  PROVE  /\ d = DirOf(d.chain, d.state, d.archives, d.wal, d.by)
         /\ d.chain \in Content /\ d.state \in Content /\ d.archives \in Shelves
         /\ d.wal \in SUBSET ConsensusDirs /\ d.by \in CRs \cup {""}
  BY DEF Directories, DirOf

\* ... which make it one, ...
LEMMA DirIs ==
  ASSUME NEW chain \in Content, NEW state \in Content, NEW archives \in Shelves,
         NEW wal \in SUBSET ConsensusDirs, NEW by \in CRs \cup {""}
  PROVE  DirOf(chain, state, archives, wal, by) \in Directories
  BY DEF Directories, DirOf

\* ... one by one.
LEMMA FieldOfDir ==
  ASSUME NEW chain, NEW state, NEW archives, NEW wal, NEW by
  PROVE  /\ DirOf(chain, state, archives, wal, by).chain = chain
         /\ DirOf(chain, state, archives, wal, by).state = state
         /\ DirOf(chain, state, archives, wal, by).archives = archives
         /\ DirOf(chain, state, archives, wal, by).wal = wal
         /\ DirOf(chain, state, archives, wal, by).by = by
  BY DEF DirOf

\* A directory with another content, ...
LEMMA DirWith ==
  ASSUME NEW d \in Directories, NEW x
  PROVE  /\ [d EXCEPT !.chain = x] = DirOf(x, d.state, d.archives, d.wal, d.by)
         /\ [d EXCEPT !.state = x] = DirOf(d.chain, x, d.archives, d.wal, d.by)
         /\ [d EXCEPT !.archives = x] = DirOf(d.chain, d.state, x, d.wal, d.by)
         /\ [d EXCEPT !.wal = x] = DirOf(d.chain, d.state, d.archives, x, d.by)
         /\ [d EXCEPT !.by = x] = DirOf(d.chain, d.state, d.archives, d.wal, x)
<1>1. d = DirOf(d.chain, d.state, d.archives, d.wal, d.by)
  BY FieldsOf
<1> QED
  BY <1>1 DEF DirOf

\* ... with another writer, ...
LEMMA DirBy ==
  ASSUME NEW chain, NEW state, NEW archives, NEW wal, NEW by, NEW x
  PROVE  /\ [DirOf(chain, state, archives, wal, by) EXCEPT !.by = x]
              = DirOf(chain, state, archives, wal, x)
         /\ [DirOf(chain, state, archives, wal, by) EXCEPT !.wal = x]
              = DirOf(chain, state, archives, x, by)
  BY DEF DirOf

\* ... and with two changes.
LEMMA DirWithBoth ==
  ASSUME NEW d \in Directories, NEW x, NEW y
  PROVE  [d EXCEPT !.chain = x, !.wal = y] = DirOf(x, d.state, d.archives, y, d.by)
<1> DEFINE state == d.state
           archives == d.archives
           wal == d.wal
           by == d.by
<1>1. [d EXCEPT !.chain = x] = DirOf(x, state, archives, wal, by)
  BY DirWith
<1> HIDE DEF state, archives, wal, by
<1>2. [DirOf(x, state, archives, wal, by) EXCEPT !.wal = y] = DirOf(x, state, archives, y, by)
  BY DEF DirOf
<1>3. [[d EXCEPT !.chain = x] EXCEPT !.wal = y] = DirOf(x, state, archives, y, by)
  BY <1>1, <1>2, Zenon
<1> QED
  BY <1>3, Zenon DEF state, archives, by

\* What is empty.
LEMMA Empties ==
  /\ Nothing \in Content /\ NoArchive \in Archive
  /\ EmptyDir \in Directories
  /\ DOMAIN EmptyDir.archives = {}
  /\ EmptyDir.chain = Nothing /\ EmptyDir.wal = {} /\ EmptyDir.by = ""
<1>1. Nothing \in Content /\ NoArchive \in Archive
  BY StartAssumption DEF Nothing, NoArchive, Content, Archive
<1> DEFINE none == <<>>
<1>2. DOMAIN none = {} /\ none = [x \in {} |-> x]
  OBVIOUS
<1>3. EmptyDir = DirOf(Nothing, Nothing, none, {}, "")
  BY DEF EmptyDir, DirOf
<1> HIDE DEF none
<1>4. none \in Shelves
  BY <1>2 DEF Shelves
<1>5. EmptyDir \in Directories
  BY <1>1, <1>3, <1>4, DirIs
<1>6. EmptyDir.archives = none /\ EmptyDir.chain = Nothing /\ EmptyDir.wal = {} /\ EmptyDir.by = ""
  BY <1>3 DEF DirOf
<1> QED
  BY <1>1, <1>2, <1>5, <1>6

\* Contents.
LEMMA ContentWith ==
  ASSUME NEW x \in Content, NEW y
  PROVE  /\ [x EXCEPT !.of = y] = [of |-> y, whole |-> x.whole, owner |-> x.owner]
         /\ [x EXCEPT !.whole = y] = [of |-> x.of, whole |-> y, owner |-> x.owner]
         /\ [x EXCEPT !.owner = y] = [of |-> x.of, whole |-> x.whole, owner |-> y]
  BY DEF Content

\* What is made of contents are contents.
LEMMA Contents ==
  ASSUME NEW x \in Content, NEW y \in Content, NEW a \in Archive
  PROVE  /\ Torn(x) = [of |-> x.of, whole |-> FALSE, owner |-> x.owner] /\ Torn(x) \in Content
         /\ Unpacked(a) \in Content
         /\ Merge(x, y) = IF y = Nothing THEN x
                          ELSE [of |-> y.of \cup x.of, whole |-> y.whole, owner |-> y.owner]
         /\ Merge(x, y) \in Content
<1>1. /\ x = [of |-> x.of, whole |-> x.whole, owner |-> x.owner]
      /\ y = [of |-> y.of, whole |-> y.whole, owner |-> y.owner]
      /\ x.of \in SUBSET Marks /\ y.of \in SUBSET Marks /\ a.of \in SUBSET Marks
      /\ x.whole \in BOOLEAN /\ y.whole \in BOOLEAN /\ a.whole \in BOOLEAN
      /\ x.owner \in Owners /\ y.owner \in Owners /\ 0 \in Owners
  BY StartAssumption DEF Content, Archive
<1>2. Torn(x) = [of |-> x.of, whole |-> FALSE, owner |-> x.owner]
  BY <1>1, ContentWith, Zenon DEF Torn
<1>3. Merge(x, y) = IF y = Nothing THEN x
                    ELSE [of |-> y.of \cup x.of, whole |-> y.whole, owner |-> y.owner]
  BY <1>1 DEF Merge
<1>4. Unpacked(a) \in Content
  BY <1>1 DEF Unpacked, Content
<1> QED
  BY <1>1, <1>2, <1>3, <1>4 DEF Content

\* Taking a state to a height twice is taking it there once.
LEMMA Rewinds ==
  ASSUME NEW of \in SUBSET Marks, NEW h \in Nat
  PROVE  Rewound(of, h) \in SUBSET Marks /\ Rewound(Rewound(of, h), h) = Rewound(of, h)
<1>1. ASSUME NEW mark \in Marks
      PROVE  /\ [mark EXCEPT !.height = h] \in Marks
             /\ [[mark EXCEPT !.height = h] EXCEPT !.height = h] = [mark EXCEPT !.height = h]
  BY DEF Marks
<1>2. Rewound(of, h) \in SUBSET Marks
  BY <1>1 DEF Rewound
<1> DEFINE g(mark) == [mark EXCEPT !.height = h]
<1>3. Rewound(of, h) = {g(mark) : mark \in of}
  BY DEF Rewound
<1>4. Rewound(Rewound(of, h), h) = {g(mark) : mark \in {g(mark) : mark \in of}}
  BY DEF Rewound
<1>5. \A mark \in of : g(g(mark)) = g(mark)
  BY <1>1
<1> HIDE DEF g
<1> QED
  BY <1>2, <1>3, <1>4, <1>5

\* An archive that is added.
LEMMA Shelved ==
  ASSUME NEW archives \in Shelves, NEW name, NEW a
  PROVE  /\ DOMAIN ((name :> a) @@ archives) = DOMAIN archives \cup {name}
         /\ ((name :> a) @@ archives)[name] = a
         /\ \A other \in DOMAIN archives : other # name =>
              ((name :> a) @@ archives)[other] = archives[other]
         /\ name \in Files /\ a \in Archive => (name :> a) @@ archives \in Shelves
         /\ DOMAIN archives \subseteq Files
         /\ \A other \in DOMAIN archives : archives[other] \in Archive
<1> DEFINE new == (name :> a) @@ archives
<1>1. /\ DOMAIN new = DOMAIN archives \cup {name} /\ new[name] = a
      /\ \A other \in DOMAIN archives : other # name => new[other] = archives[other]
      /\ new = [x \in DOMAIN new |-> new[x]]
  BY DEF @@, :>
<1>2. /\ DOMAIN archives \subseteq Files
      /\ \A other \in DOMAIN archives : archives[other] \in Archive
  BY DEF Shelves
<1> HIDE DEF new
<1>3. name \in Files /\ a \in Archive => new \in [DOMAIN new -> Archive] /\ DOMAIN new \subseteq Files
  BY <1>1, <1>2
<1>4. name \in Files /\ a \in Archive => new \in Shelves
  BY <1>3 DEF Shelves
<1> QED
  BY <1>1, <1>2, <1>4 DEF new

\* What the variables are; a Backup that goes on finds the archive it has begun.
Typed ==
  /\ \A p \in DOMAIN store : store[p] \in Directories
  /\ up \subseteq Nodes
  /\ \A c \in DOMAIN jobs : jobs[c].replicas \subseteq Nodes
  /\ DOMAIN report \subseteq DOMAIN jobs
  /\ \A c \in DOMAIN report : report[c] \in Archive
  /\ faults \in Nat
  /\ began \in [DOMAIN jobs -> Began]
  /\ \A c \in DOMAIN at : at[c] = "busy" /\ Command(c) = "backup" /\ F(c).compress =>
       To(c) \in DOMAIN store /\ F(c).output \in DOMAIN store[To(c)].archives

\* What is read at any place is a directory.
LEMMA ReadTyped ==
  ASSUME Typed, NEW p
  PROVE  Read(p) \in Directories
  BY Empties DEF Read, Typed

\* The programs by their commands.
LEMMA Programs ==
  ASSUME JobsKnown, NEW c \in DOMAIN jobs
  PROVE  /\ c \in CRs /\ c \in DOMAIN at /\ c \in DOMAIN began
         /\ Specs[c].node \in Nodes
         /\ JobFacts(method, c, jobs[c])
         /\ \/ Kind(c) \in {"Backup", "Duplicate"} /\ Command(c) = "backup"
            \/ Kind(c) = "Snapshot" /\ Command(c) = "snapshot"
            \/ Kind(c) = "Fallback" /\ Command(c) = "fallback"
            \/ Kind(c) = "ChangeOwner" /\ Command(c) = "chown"
            \/ Kind(c) = "Recover" /\ Command(c) = "restore"
            \/ Kind(c) = "Restore" /\ Specs[c].snapshot = "" /\ Command(c) = "restore"
            \/ Kind(c) = "Restore" /\ Specs[c].snapshot # "" /\ Command(c) = "snapshot-recover"
<1>1. c \in CRs /\ c \in DOMAIN at /\ c \in DOMAIN began /\ JobFacts(method, c, jobs[c])
  BY DEF JobsKnown
<1>2. Specs[c].node \in Nodes /\ Kind(c) \in Kinds
  BY <1>1, Specified DEF Kind
<1> DEFINE j == jobs[c]
<1> HIDE DEF j
<1>3. JobFacts(method, c, j)
  BY <1>1 DEF j
<1>4. /\ Kind(c) \in {"Backup", "Duplicate"} => j.command = "backup"
      /\ Kind(c) = "Snapshot" => j.command = "snapshot"
      /\ Kind(c) = "Fallback" => j.command = "fallback"
      /\ Kind(c) = "ChangeOwner" => j.command = "chown"
      /\ Kind(c) = "Recover" => j.command = "restore"
      /\ Kind(c) = "Restore" /\ Specs[c].snapshot = "" => j.command = "restore"
      /\ Kind(c) = "Restore" /\ Specs[c].snapshot # "" => j.command = "snapshot-recover"
  BY <1>3 DEF JobFacts, BackupFacts, RestoreFacts, SnapshotFacts, RebuildFacts, FallbackFacts,
              ChangeOwnerFacts
<1>5. Command(c) = j.command
  BY DEF Command, j
<1> HIDE DEF Command
<1> QED
  BY <1>1, <1>2, <1>4, <1>5 DEF Kinds

\* Their flags.
LEMMA FlagsKnown ==
  ASSUME JobsKnown, NEW c \in DOMAIN jobs
  PROVE  /\ Command(c) = "backup" =>
              /\ F(c).compress = Specs[c].pack /\ Named(c) \in Files
              /\ Specs[c].pack => F(c).output = Named(c) /\ Kind(c) = "Duplicate"
         /\ Command(c) = "restore" =>
              /\ F(c).decompress = Specs[c].pack /\ F(c).clear = Specs[c].clear
              /\ Specs[c].pack => F(c).md5 = Specs[c].md5 /\ F(c).input = Specs[c].file
         /\ Command(c) = "snapshot" => F(c).height = Specs[c].height
         /\ Command(c) = "fallback" => F(c).height = Specs[c].height /\ F(c).clear = Specs[c].clear
         /\ Command(c) = "snapshot-recover" =>
              /\ F(c).height = Specs[Specs[c].snapshot].height /\ Specs[c].snapshot \in CRs
              /\ F(c).clear = Specs[c].clear
         /\ Command(c) \in {"snapshot", "fallback", "snapshot-recover"} =>
              F(c).height \in Nat /\ Fits(Specs[c].node, F(c))
         /\ Command(c) = "chown" =>
              F(c).uid = (IF Specs[c].uid = 0 THEN 1000 ELSE Specs[c].uid) /\ F(c).uid \in Owners
<1> DEFINE j == jobs[c]
           kind == Kind(c)
           command == Command(c)
           flags == F(c)
<1>1. c \in CRs /\ JobFacts(method, c, j)
  BY Programs
<1>2. flags = j.flags /\ command = j.command
  BY DEF F, Command
<1>3. \/ kind \in {"Backup", "Duplicate"} /\ command = "backup"
      \/ kind = "Snapshot" /\ command = "snapshot"
      \/ kind = "Fallback" /\ command = "fallback"
      \/ kind = "ChangeOwner" /\ command = "chown"
      \/ kind = "Recover" /\ command = "restore"
      \/ kind = "Restore" /\ Specs[c].snapshot = "" /\ command = "restore"
      \/ kind = "Restore" /\ Specs[c].snapshot # "" /\ command = "snapshot-recover"
  BY Programs
<1>4. Specs[c].snapshot # "" => Specs[c].snapshot \in CRs /\ Specs[Specs[c].snapshot].height \in Nat
  BY <1>1, Specified
<1>5. /\ Specs[c].height \in Nat
      /\ (IF Specs[c].uid = 0 THEN 1000 ELSE Specs[c].uid) \in Owners
  <2> DEFINE uid == IF Specs[c].uid = 0 THEN 1000 ELSE Specs[c].uid
  <2>1. S(c).uid = uid /\ S(c).uid \in Owners /\ Specs[c].height \in Nat
    BY <1>1, Specified, Zenon
  <2> HIDE DEF uid
  <2>2. uid \in Owners /\ Specs[c].height \in Nat
    BY <2>1
  <2> QED
    BY <2>2 DEF uid
<1>6. Specs[c].pack => kind \in {"Duplicate", "Recover"}
  BY <1>1, Ruled
<1>7. Named(c) \in Files
  BY <1>1 DEF Named, Files
<1> HIDE DEF j, kind, command, flags
<1>8. CASE kind \in {"Backup", "Duplicate"}
  <2>1. BackupFacts(method, c, j)
    BY <1>1, <1>8 DEF JobFacts, kind
  <2> QED
    BY <1>2, <1>3, <1>6, <1>7, <1>8, <2>1 DEF BackupFacts, command, flags, kind
<1>9. CASE kind = "Snapshot"
  <2>1. SnapshotFacts(method, c, j)
    BY <1>1, <1>9 DEF JobFacts, kind
  <2> QED
    BY <1>2, <1>3, <1>5, <1>9, <2>1 DEF SnapshotFacts, command, flags
<1>10. CASE kind = "Fallback"
  <2>1. FallbackFacts(method, c, j)
    BY <1>1, <1>10 DEF JobFacts, kind
  <2> QED
    BY <1>2, <1>3, <1>5, <1>10, <2>1 DEF FallbackFacts, command, flags
<1>11. CASE kind = "ChangeOwner"
  <2>1. ChangeOwnerFacts(method, c, j)
    BY <1>1, <1>11 DEF JobFacts, kind
  <2> QED
    BY <1>2, <1>3, <1>5, <1>11, <2>1 DEF ChangeOwnerFacts, command, flags
<1>12. CASE command = "restore"
  <2>1. RestoreFacts(method, c, j)
    BY <1>1, <1>3, <1>12 DEF JobFacts, kind
  <2> QED
    BY <1>2, <1>12, <2>1 DEF RestoreFacts, command, flags
<1>13. CASE kind = "Restore" /\ Specs[c].snapshot # "" /\ command = "snapshot-recover"
  <2>1. RebuildFacts(method, c, j)
    BY <1>1, <1>13 DEF JobFacts, kind
  <2> QED
    BY <1>2, <1>4, <1>13, <2>1 DEF RebuildFacts, command, flags
<1> QED
  BY <1>3, <1>8, <1>9, <1>10, <1>11, <1>12, <1>13

\* What a program leaves at the place it works on.
Wrote(c, chain, state, archives, wal) ==
  /\ store' = (To(c) :> DirOf(chain, state, archives, wal, c)) @@ store
  /\ began' = Noted(c)

\* A Write says so.
LEMMA WriteDir ==
  ASSUME NEW c, NEW chain, NEW state, NEW archives, NEW wal, NEW by,
         Write(c, DirOf(chain, state, archives, wal, by))
  PROVE  Wrote(c, chain, state, archives, wal)
<1>1. [DirOf(chain, state, archives, wal, by) EXCEPT !.by = c]
        = DirOf(chain, state, archives, wal, c)
  BY DEF DirOf
<1> QED
  BY <1>1, Zenon DEF Write, Wrote

\* The archive a Backup makes of its source.
Packing(c, old, closed) ==
  [of |-> old \cup Read(From(c)).chain.of, whole |-> Read(From(c)).chain.whole,
   closed |-> closed]
Shelve(c, a) == (F(c).output :> a) @@ Read(To(c)).archives

\* The steps of Backup and Duplicate, ...
LEMMA BackupBegins ==
  ASSUME Typed, NEW c, at[c] = "ready", BeginBackup(c)
  PROVE  \/ /\ Read(From(c)).chain = Nothing /\ Move(c, "Failed")
            /\ store' = (To(c) :> Read(To(c))) @@ store /\ began' = began
         \/ /\ Read(From(c)).chain # Nothing /\ Move(c, "busy")
            /\ IF F(c).compress
               THEN Wrote(c, Read(To(c)).chain, Read(To(c)).state,
                          Shelve(c, Packing(c, {}, FALSE)), Read(To(c)).wal)
               ELSE Wrote(c, Merge(Read(To(c)).chain, Torn(Read(From(c)).chain)),
                          Read(To(c)).state, Read(To(c)).archives, Read(To(c)).wal)
<1> DEFINE k == Read(To(c))
           source == Read(From(c)).chain
           new == Shelve(c, Packing(c, {}, FALSE))
           chain == Merge(k.chain, Torn(source))
<1>1. k \in Directories
  BY ReadTyped
<1>2. Packed(c, k, FALSE) = [k EXCEPT !.archives = new]
  BY Zenon DEF Packed, Packing, Shelve
<1>3. Packed(c, k, FALSE) = DirOf(k.chain, k.state, new, k.wal, k.by)
  BY <1>1, <1>2, DirWith
<1>4. [k EXCEPT !.chain = chain] = DirOf(chain, k.state, k.archives, k.wal, k.by)
  BY <1>1, DirWith
<1>5. Write(c, Packed(c, k, FALSE)) => Wrote(c, k.chain, k.state, new, k.wal)
  BY <1>3, WriteDir, Zenon
<1>6. Write(c, [k EXCEPT !.chain = chain]) => Wrote(c, chain, k.state, k.archives, k.wal)
  BY <1>4, WriteDir, Zenon
<1> QED
  BY <1>5, <1>6, Zenon DEF BeginBackup

\* Their end.
LEMMA BackupEnds ==
  ASSUME Typed, NEW c, at[c] = "busy", EndBackup(c)
  PROVE  \/ /\ Read(From(c)).chain # Nothing /\ Move(c, "done")
            /\ IF F(c).compress
               THEN /\ Wrote(c, Read(To(c)).chain, Read(To(c)).state,
                             Shelve(c, Packing(c, Read(To(c)).archives[F(c).output].of, TRUE)),
                             Read(To(c)).wal)
                    /\ report' = (c :> Packing(c, Read(To(c)).archives[F(c).output].of, TRUE))
                                   @@ report
               ELSE /\ Wrote(c, Merge(Read(To(c)).chain, Read(From(c)).chain),
                             Read(To(c)).state, Read(To(c)).archives, Read(To(c)).wal)
                    /\ report' = report
         \/ ~Read(From(c)).chain.whole /\ Move(c, "Failed") /\ UNCHANGED <<store, began, report>>
<1> DEFINE k == Read(To(c))
           source == Read(From(c)).chain
           a == Packing(c, k.archives[F(c).output].of, TRUE)
           new == Shelve(c, a)
           chain == Merge(k.chain, source)
<1>1. k \in Directories
  BY ReadTyped
<1>2. Packed(c, k, TRUE) = [k EXCEPT !.archives = new]
  BY Zenon DEF Packed, Packing, Shelve
<1>3. Packed(c, k, TRUE) = DirOf(k.chain, k.state, new, k.wal, k.by)
  BY <1>1, <1>2, DirWith
<1>4. [k EXCEPT !.chain = chain] = DirOf(chain, k.state, k.archives, k.wal, k.by)
  BY <1>1, DirWith
<1>5. Write(c, Packed(c, k, TRUE)) => Wrote(c, k.chain, k.state, new, k.wal)
  BY <1>3, WriteDir, Zenon
<1>6. Write(c, [k EXCEPT !.chain = chain]) => Wrote(c, chain, k.state, k.archives, k.wal)
  BY <1>4, WriteDir, Zenon
<1>7. Wrote(c, k.chain, k.state, new, k.wal) => store'[To(c)].archives[F(c).output] = a
  <2> DEFINE d == DirOf(k.chain, k.state, new, k.wal, c)
  <2>1. d.archives = new
    BY Zenon DEF DirOf
  <2> HIDE DEF a
  <2>2. new[F(c).output] = a
    BY DEF Shelve, @@, :>
  <2> HIDE DEF d, new
  <2>3. ((To(c) :> d) @@ store)[To(c)] = d
    BY DEF @@, :>
  <2> QED
    BY <2>1, <2>2, <2>3, Zenon DEF Wrote, d
<1> QED
  BY <1>5, <1>6, <1>7, Zenon DEF EndBackup, GiveUp

\* ... of Restore and Recover, ...
LEMMA RestoreBegins ==
  ASSUME Typed, NEW c, BeginRestore(c)
  PROVE  \/ ChecksumFails(c) /\ Move(c, "Failed") /\ UNCHANGED <<store, began>>
         \/ /\ ~ChecksumFails(c) /\ Move(c, "busy")
            /\ Wrote(c, Merge(Nothing, Torn(Restored(c))), Read(To(c)).state,
                     Read(To(c)).archives,
                     IF F(c).clear THEN removeConsensusData(Read(To(c)).wal)
                     ELSE Read(To(c)).wal)
<1> DEFINE k == Read(To(c))
           torn == Torn(Restored(c))
           wal == IF F(c).clear THEN removeConsensusData(k.wal) ELSE k.wal
           clean == DirOf(Nothing, k.state, k.archives, wal, k.by)
           chain == Merge(Nothing, torn)
<1>1. k \in Directories
  BY ReadTyped
<1>2. Cleaned(c) = [k EXCEPT !.chain = Nothing, !.wal = wal]
  BY Zenon DEF Cleaned
<1>3. [k EXCEPT !.chain = Nothing, !.wal = wal] = clean
  BY <1>1, DirWithBoth
<1>4. Cleaned(c) = clean
  BY <1>2, <1>3, Zenon
<1>5. clean.chain = Nothing
  BY Zenon DEF DirOf
<1>6. [clean EXCEPT !.chain = Merge(@, torn)] = DirOf(chain, k.state, k.archives, wal, k.by)
  <2> DEFINE state == k.state
             archives == k.archives
             by == k.by
  <2> HIDE DEF k, wal, torn, chain, state, archives, by
  <2>1. [DirOf(Nothing, state, archives, wal, by) EXCEPT !.chain = chain]
          = DirOf(chain, state, archives, wal, by)
    BY DEF DirOf
  <2> USE DEF state, archives, by, chain
  <2> QED
    BY <1>5, <2>1, Zenon
<1>7. Write(c, [clean EXCEPT !.chain = Merge(@, torn)]) => Wrote(c, chain, k.state, k.archives, wal)
  BY <1>6, WriteDir, Zenon
<1>8. Write(c, [Cleaned(c) EXCEPT !.chain = Merge(@, torn)]) => Wrote(c, chain, k.state, k.archives, wal)
  BY <1>4, <1>7, Zenon
<1> QED
  BY <1>8, Zenon DEF BeginRestore, GiveUp

\* Their end.
LEMMA RestoreEnds ==
  ASSUME Typed, NEW c, EndRestore(c)
  PROVE  \/ /\ IF F(c).decompress THEN Stored(c).closed ELSE Restored(c) # Nothing
            /\ To(c) \in DOMAIN store /\ Move(c, "done")
            /\ Wrote(c, Merge(Read(To(c)).chain, Restored(c)), Read(To(c)).state,
                     Read(To(c)).archives, Read(To(c)).wal)
         \/ /\ ~Restored(c).whole \/ (F(c).decompress /\ ~Stored(c).closed)
            /\ Move(c, "Failed") /\ UNCHANGED <<store, began>>
<1> DEFINE k == Read(To(c))
           chain == Merge(k.chain, Restored(c))
<1>1. k \in Directories
  BY ReadTyped
<1>2. [k EXCEPT !.chain = chain] = DirOf(chain, k.state, k.archives, k.wal, k.by)
  BY <1>1, DirWith
<1>3. Write(c, [k EXCEPT !.chain = chain]) => Wrote(c, chain, k.state, k.archives, k.wal)
  BY <1>2, WriteDir, Zenon
<1> QED
  BY <1>3, Zenon DEF EndRestore, GiveUp

\* ... and of cloud-op, written out.
LEMMA CloudOpBegins ==
  ASSUME Typed, NEW c, BeginCloudOp(c)
  PROVE  \/ ~Rewindable(c) /\ Move(c, "Failed") /\ UNCHANGED <<store, began>>
         \/ /\ Rewindable(c) /\ Move(c, "busy")
            /\ IF Command(c) = "snapshot"
               THEN Wrote(c, Read(To(c)).chain, Result(c, FALSE, 0), Read(To(c)).archives,
                          Read(To(c)).wal)
               ELSE Wrote(c, Result(c, FALSE, 0), Read(To(c)).state, Read(To(c)).archives,
                          Read(To(c)).wal)
<1> DEFINE k == Read(To(c))
           x == Result(c, FALSE, 0)
<1>1. k \in Directories
  BY ReadTyped
<1>2. /\ [k EXCEPT !.state = x] = DirOf(k.chain, x, k.archives, k.wal, k.by)
      /\ [k EXCEPT !.chain = x] = DirOf(x, k.state, k.archives, k.wal, k.by)
  BY <1>1, DirWith
<1>3. Write(c, [k EXCEPT !.state = x]) => Wrote(c, k.chain, x, k.archives, k.wal)
  BY <1>2, WriteDir, Zenon
<1>4. Write(c, [k EXCEPT !.chain = x]) => Wrote(c, x, k.state, k.archives, k.wal)
  BY <1>2, WriteDir, Zenon
<1> QED
  BY <1>3, <1>4, Zenon DEF BeginCloudOp, GiveUp

\* Its end.
LEMMA CloudOpEnds ==
  ASSUME Typed, NEW c, EndCloudOp(c)
  PROVE  /\ Move(c, "done")
         /\ Command(c) = "snapshot" =>
              Wrote(c, Read(To(c)).chain, Result(c, Understood(c), 0), Read(To(c)).archives,
                    Read(To(c)).wal)
         /\ Command(c) = "fallback" =>
              Wrote(c, Result(c, Understood(c), began[c].chain.owner), Read(To(c)).state,
                    Read(To(c)).archives, IF F(c).clear THEN {} ELSE Read(To(c)).wal)
         /\ Command(c) = "snapshot-recover" =>
              Wrote(c, Result(c, Understood(c), Default.uid), Read(To(c)).state,
                    Read(To(c)).archives, IF F(c).clear THEN {} ELSE Read(To(c)).wal)
<1> DEFINE k == Read(To(c))
           x == Result(c, Understood(c), 0)
           y == Result(c, Understood(c), began[c].chain.owner)
           z == Result(c, Understood(c), Default.uid)
           wal == IF F(c).clear THEN {} ELSE k.wal
<1>1. k \in Directories
  BY ReadTyped
<1>2. [k EXCEPT !.state = x] = DirOf(k.chain, x, k.archives, k.wal, k.by)
  BY <1>1, DirWith
<1>3. [k EXCEPT !.chain = y, !.wal = wal] = DirOf(y, k.state, k.archives, wal, k.by)
  BY <1>1, DirWithBoth
<1>4. [k EXCEPT !.chain = z, !.wal = wal] = DirOf(z, k.state, k.archives, wal, k.by)
  BY <1>1, DirWithBoth
<1>5. Write(c, [k EXCEPT !.state = x]) => Wrote(c, k.chain, x, k.archives, k.wal)
  BY <1>2, WriteDir, Zenon
<1>6. Write(c, [k EXCEPT !.chain = y, !.wal = wal]) => Wrote(c, y, k.state, k.archives, wal)
  <2> DEFINE e == [k EXCEPT !.chain = y, !.wal = wal]
  <2>1. e = DirOf(y, k.state, k.archives, wal, k.by)
    BY <1>3
  <2> HIDE DEF e, k, y, wal
  <2>2. Write(c, e) => Wrote(c, y, k.state, k.archives, wal)
    BY <2>1, WriteDir, Zenon
  <2> QED
    BY <2>2 DEF e
<1>7. Write(c, [k EXCEPT !.chain = z, !.wal = wal]) => Wrote(c, z, k.state, k.archives, wal)
  <2> DEFINE e == [k EXCEPT !.chain = z, !.wal = wal]
  <2>1. e = DirOf(z, k.state, k.archives, wal, k.by)
    BY <1>4
  <2> HIDE DEF e, k, z, wal
  <2>2. Write(c, e) => Wrote(c, z, k.state, k.archives, wal)
    BY <2>1, WriteDir, Zenon
  <2> QED
    BY <2>2 DEF e
<1> DEFINE command == Command(c)
<1>8. /\ Move(c, "done")
      /\ CASE command = "snapshot" -> Write(c, [k EXCEPT !.state = x])
           [] command = "fallback" -> Write(c, [k EXCEPT !.chain = y, !.wal = wal])
           [] command = "snapshot-recover" -> Write(c, [k EXCEPT !.chain = z, !.wal = wal])
  BY Zenon DEF EndCloudOp
<1>9. /\ command = "snapshot" => Write(c, [k EXCEPT !.state = x])
      /\ command = "fallback" => Write(c, [k EXCEPT !.chain = y, !.wal = wal])
      /\ command = "snapshot-recover" => Write(c, [k EXCEPT !.chain = z, !.wal = wal])
  <2> DEFINE w1 == Write(c, [k EXCEPT !.state = x])
             w2 == Write(c, [k EXCEPT !.chain = y, !.wal = wal])
             w3 == Write(c, [k EXCEPT !.chain = z, !.wal = wal])
  <2>1. /\ TRUE
        /\ CASE command = "snapshot" -> w1
             [] command = "fallback" -> w2
             [] command = "snapshot-recover" -> w3
    BY <1>8, Zenon
  <2> HIDE DEF w1, w2, w3, command
  <2>2. (command = "snapshot" => w1) /\ (command = "fallback" => w2)
          /\ (command = "snapshot-recover" => w3)
    BY <2>1
  <2> QED
    BY <2>2, Zenon DEF w1, w2, w3
<1> QED
  BY <1>5, <1>6, <1>7, <1>8, <1>9, Zenon

\* What the programs read, and what they make of it.
LEMMA Reading ==
  ASSUME JobsKnown, Typed, NEW c \in DOMAIN jobs
  PROVE  /\ Read(From(c)) \in Directories /\ Read(To(c)) \in Directories
         /\ Stored(c) \in Archive /\ Restored(c) \in Content /\ Input(c) \in Content
         /\ began[c] \in Began
         /\ Command(c) \in {"snapshot", "fallback", "snapshot-recover"} =>
              \A whole \in BOOLEAN, owner \in Owners : Result(c, whole, owner) \in Content
<1>1. Read(From(c)) \in Directories /\ Read(To(c)) \in Directories
  BY ReadTyped
<1> DEFINE from == Read(From(c))
<1>2. /\ from.chain \in Content /\ from.state \in Content /\ from.archives \in Shelves
  BY <1>1, FieldsOf
<1> HIDE DEF from
<1>3. Stored(c) = IF F(c).input \in DOMAIN from.archives THEN from.archives[F(c).input]
                  ELSE NoArchive
  BY Zenon DEF Stored, from
<1>4. Stored(c) \in Archive
  <2> DEFINE books == from.archives
             input == F(c).input
  <2>1. books \in Shelves /\ (Stored(c) = IF input \in DOMAIN books THEN books[input] ELSE NoArchive)
    BY <1>2, <1>3
  <2> HIDE DEF books, input
  <2>2. \A other \in DOMAIN books : books[other] \in Archive
    BY <2>1, Shelved
  <2> QED
    BY <2>1, <2>2, Empties
<1>5. Restored(c) = IF F(c).decompress THEN Unpacked(Stored(c)) ELSE from.chain
  BY Zenon DEF Restored, from
<1>6. Restored(c) \in Content
  <2>1. Unpacked(Stored(c)) \in Content
    BY <1>4, Contents, Empties
  <2> QED
    BY <1>2, <1>5, <2>1
<1>7. Input(c) \in Content
  BY <1>2 DEF Input, from
<1>8. began[c] \in Began
  BY DEF Typed
<1>9. ASSUME Command(c) \in {"snapshot", "fallback", "snapshot-recover"},
             NEW whole \in BOOLEAN, NEW owner \in Owners
      PROVE  Result(c, whole, owner) \in Content
  <2>1. F(c).height \in Nat
    BY <1>9, FlagsKnown
  <2>2. Input(c).of \in SUBSET Marks
    BY <1>7 DEF Content
  <2>3. Rewound(Input(c).of, F(c).height) \in SUBSET Marks
    BY <2>1, <2>2, Rewinds
  <2> QED
    BY <2>3 DEF Result, Content
<1> QED
  BY <1>1, <1>4, <1>6, <1>7, <1>8, <1>9

\* Understood is true or false.
LEMMA Understands == \A c : Understood(c) \in BOOLEAN
  BY DEF Understood

\* What is at a place after a step.
After(p) == IF p \in DOMAIN store' THEN store'[p] ELSE EmptyDir

\* The place of a resource is written to.
Writes(c, d) ==
  /\ at[c] \in {"ready", "busy"}
  /\ d \in Directories /\ d.by = c
  /\ DOMAIN Read(To(c)).archives \subseteq DOMAIN d.archives
  /\ d.wal \subseteq Read(To(c)).wal
  /\ store' = (To(c) :> d) @@ store
  /\ began' = Noted(c)

\* A directory written out is one.
LEMMA WroteWrites ==
  ASSUME JobsKnown, Typed, NEW c \in DOMAIN jobs, at[c] \in {"ready", "busy"},
         NEW chain \in Content, NEW state \in Content, NEW archives \in Shelves,
         NEW wal \in SUBSET ConsensusDirs,
         DOMAIN Read(To(c)).archives \subseteq DOMAIN archives, wal \subseteq Read(To(c)).wal,
         Wrote(c, chain, state, archives, wal)
  PROVE  Writes(c, DirOf(chain, state, archives, wal, c))
<1> DEFINE d == DirOf(chain, state, archives, wal, c)
<1>1. c \in CRs
  BY Programs
<1>2. d \in Directories
  BY <1>1, DirIs
<1>3. d.archives = archives /\ d.by = c /\ d.wal = wal
  BY DEF DirOf
<1> HIDE DEF d
<1>4. store' = (To(c) :> d) @@ store /\ began' = Noted(c)
  BY Zenon DEF Wrote, d
<1>5. Writes(c, d)
  BY <1>2, <1>3, <1>4, Zenon DEF Writes
<1> QED
  BY <1>5 DEF d

\* So a step of a resource leaves every place as it is, or writes at its own, or
\* changes owners.
Quiet(c) == /\ \A p : After(p) = Read(p)
            /\ report' = report
            /\ \A d \in DOMAIN began : d # c => began'[d] = began[d]

\* Each program writes at its own place only.
LEMMA BackupWrites ==
  ASSUME JobsKnown, Typed, NEW c \in DOMAIN jobs, Command(c) = "backup",
         \/ at[c] = "ready" /\ BeginBackup(c) /\ report' = report
         \/ at[c] = "busy" /\ EndBackup(c)
  PROVE  Quiet(c) \/ \E d : Writes(c, d)
<1> DEFINE k == Read(To(c))
           source == Read(From(c)).chain
           out == F(c).output
<1>1. k \in Directories /\ source \in Content
  BY Reading, FieldsOf
<1>2. /\ k.chain \in Content /\ k.state \in Content /\ k.archives \in Shelves
      /\ k.wal \in SUBSET ConsensusDirs
  BY <1>1, FieldsOf
<1>3. ASSUME NEW old \in SUBSET Marks, NEW closed \in BOOLEAN
      PROVE  Packing(c, old, closed) \in Archive
  BY <1>1 DEF Packing, Archive, Content
<1>4. F(c).compress => out \in Files
  <2>1. /\ F(c).compress = Specs[c].pack /\ Named(c) \in Files
        /\ Specs[c].pack => F(c).output = Named(c)
    BY FlagsKnown
  <2> QED
    BY <2>1
<1>5. ASSUME NEW a \in Archive, F(c).compress,
             Wrote(c, k.chain, k.state, Shelve(c, a), k.wal), at[c] \in {"ready", "busy"}
      PROVE  \E d : Writes(c, d)
  <2>1. Shelve(c, a) \in Shelves /\ DOMAIN k.archives \subseteq DOMAIN Shelve(c, a)
    <3> DEFINE books == k.archives
               new == (out :> a) @@ books
    <3>1. books \in Shelves /\ out \in Files
      BY <1>2, <1>4, <1>5
    <3>2. Shelve(c, a) = new
      BY Zenon DEF Shelve
    <3> HIDE DEF books, out
    <3>3. new \in Shelves /\ DOMAIN new = DOMAIN books \cup {out}
      BY <3>1, Shelved, ZenonT(60)
    <3> HIDE DEF new
    <3>4. DOMAIN books \subseteq DOMAIN new
      BY <3>3
    <3> QED
      BY <3>2, <3>3, <3>4, Zenon DEF books
  <2> QED
    BY <1>2, <1>5, <2>1, WroteWrites
<1>6. ASSUME NEW x \in Content, at[c] \in {"ready", "busy"},
             Wrote(c, Merge(k.chain, x), k.state, k.archives, k.wal)
      PROVE  \E d : Writes(c, d)
  <2>1. Merge(k.chain, x) \in Content
    BY <1>2, Contents, Empties
  <2> QED
    BY <1>2, <1>6, <2>1, WroteWrites
<1>7. ASSUME store' = (To(c) :> k) @@ store \/ store' = store
      PROVE  \A p : After(p) = Read(p)
  BY <1>7 DEF After, Read, @@, :>
<1>8. CASE at[c] = "ready" /\ BeginBackup(c) /\ report' = report
  <2>1. CASE /\ source = Nothing /\ Move(c, "Failed")
             /\ store' = (To(c) :> k) @@ store /\ began' = began
    BY <1>7, <1>8, <2>1 DEF Quiet
  <2>2. CASE F(c).compress /\ Wrote(c, k.chain, k.state, Shelve(c, Packing(c, {}, FALSE)), k.wal)
    <3>1. Packing(c, {}, FALSE) \in Archive
      BY <1>3
    <3> QED
      BY <1>5, <1>8, <2>2, <3>1
  <2>3. CASE Wrote(c, Merge(k.chain, Torn(source)), k.state, k.archives, k.wal)
    <3>1. Torn(source) \in Content
      BY <1>1, Contents, Empties
    <3> QED
      BY <1>6, <1>8, <2>3, <3>1
  <2> QED
    BY <1>8, <2>1, <2>2, <2>3, BackupBegins, Zenon
<1>9. CASE at[c] = "busy" /\ EndBackup(c)
  <2> DEFINE a == Packing(c, k.archives[out].of, TRUE)
  <2>1. CASE F(c).compress /\ Wrote(c, k.chain, k.state, Shelve(c, a), k.wal)
    <3>1. out \in DOMAIN k.archives
      <4>1. To(c) \in DOMAIN store /\ out \in DOMAIN store[To(c)].archives
        BY <1>9, <2>1, Programs DEF Typed
      <4> QED
        BY <4>1 DEF Read
    <3>2. k.archives[out] \in Archive
      BY <1>2, <3>1, Shelved
    <3>3. k.archives[out].of \in SUBSET Marks
      BY <3>2 DEF Archive
    <3>4. a \in Archive
      BY <1>3, <3>3
    <3> QED
      BY <1>5, <1>9, <2>1, <3>4
  <2>2. CASE Wrote(c, Merge(k.chain, source), k.state, k.archives, k.wal)
    BY <1>1, <1>6, <1>9, <2>2
  <2>3. CASE UNCHANGED <<store, began, report>>
    BY <1>7, <2>3 DEF Quiet
  <2> QED
    BY <1>9, <2>1, <2>2, <2>3, BackupEnds, Zenon
<1> QED
  BY <1>8, <1>9

\* Restore and Recover.
LEMMA RestoreWrites ==
  ASSUME JobsKnown, Typed, NEW c \in DOMAIN jobs, report' = report,
         \/ at[c] = "ready" /\ BeginRestore(c)
         \/ at[c] = "busy" /\ EndRestore(c)
  PROVE  Quiet(c) \/ \E d : Writes(c, d)
<1> DEFINE k == Read(To(c))
           new == Restored(c)
           wal == IF F(c).clear THEN removeConsensusData(k.wal) ELSE k.wal
<1>1. k \in Directories /\ new \in Content
  BY Reading
<1>2. /\ k.chain \in Content /\ k.state \in Content /\ k.archives \in Shelves
      /\ k.wal \in SUBSET ConsensusDirs
  BY <1>1, FieldsOf
<1>3. wal \in SUBSET ConsensusDirs /\ wal \subseteq k.wal
  BY <1>2 DEF removeConsensusData
<1>4. Merge(Nothing, Torn(new)) \in Content /\ Merge(k.chain, new) \in Content
  BY <1>1, <1>2, Contents, Empties
<1>5. CASE UNCHANGED <<store, began>>
  BY <1>5 DEF Quiet, After, Read
<1>6. CASE at[c] = "ready" /\ Wrote(c, Merge(Nothing, Torn(new)), k.state, k.archives, wal)
  BY <1>2, <1>3, <1>4, <1>6, WroteWrites
<1>7. CASE at[c] = "busy" /\ Wrote(c, Merge(k.chain, new), k.state, k.archives, k.wal)
  BY <1>2, <1>4, <1>7, WroteWrites
<1>8. CASE at[c] = "ready" /\ BeginRestore(c)
  BY <1>5, <1>6, <1>8, RestoreBegins, Zenon
<1>9. CASE at[c] = "busy" /\ EndRestore(c)
  BY <1>5, <1>7, <1>9, RestoreEnds, Zenon
<1> QED
  BY <1>8, <1>9

\* cloud-op.
LEMMA CloudOpWrites ==
  ASSUME JobsKnown, Typed, NEW c \in DOMAIN jobs, report' = report,
         Command(c) \in {"snapshot", "fallback", "snapshot-recover"},
         \/ at[c] = "ready" /\ BeginCloudOp(c)
         \/ at[c] = "busy" /\ EndCloudOp(c)
  PROVE  Quiet(c) \/ \E d : Writes(c, d)
<1> DEFINE k == Read(To(c))
           wal == IF F(c).clear THEN {} ELSE k.wal
           x == Result(c, FALSE, 0)
           y == Result(c, Understood(c), 0)
           z == Result(c, Understood(c), began[c].chain.owner)
           u == Result(c, Understood(c), Default.uid)
<1>1. k \in Directories
  BY Reading
<1>2. /\ k.chain \in Content /\ k.state \in Content /\ k.archives \in Shelves
      /\ k.wal \in SUBSET ConsensusDirs
  BY <1>1, FieldsOf
<1>3. wal \in SUBSET ConsensusDirs /\ wal \subseteq k.wal
  BY <1>2
<1>4. began[c].chain.owner \in Owners /\ 0 \in Owners /\ Default.uid \in Owners
  BY Reading, StartAssumption DEF Began, Content
<1>5. x \in Content /\ y \in Content /\ z \in Content /\ u \in Content
  BY <1>4, Reading, Understands
<1> HIDE DEF wal, x, y, z, u
<1>6. CASE UNCHANGED <<store, began>>
  BY <1>6 DEF Quiet, After, Read
<1>7. CASE at[c] = "ready" /\ BeginCloudOp(c)
  <2>1. CASE Wrote(c, k.chain, x, k.archives, k.wal)
    BY <1>2, <1>5, <1>7, <2>1, WroteWrites
  <2>2. CASE Wrote(c, x, k.state, k.archives, k.wal)
    BY <1>2, <1>5, <1>7, <2>2, WroteWrites
  <2> QED
    BY <1>6, <1>7, <2>1, <2>2, CloudOpBegins, Zenon DEF x
<1>8. CASE at[c] = "busy" /\ EndCloudOp(c)
  <2>1. CASE Wrote(c, k.chain, y, k.archives, k.wal)
    BY <1>2, <1>5, <1>8, <2>1, WroteWrites
  <2>2. CASE Wrote(c, z, k.state, k.archives, wal)
    BY <1>2, <1>3, <1>5, <1>8, <2>2, WroteWrites
  <2>3. CASE Wrote(c, u, k.state, k.archives, wal)
    BY <1>2, <1>3, <1>5, <1>8, <2>3, WroteWrites
  <2> QED
    BY <1>8, <2>1, <2>2, <2>3, CloudOpEnds, Zenon DEF y, z, u, wal
<1> QED
  BY <1>7, <1>8

\* The claim of the resource's own is new.
LEMMA ClaimIsNew ==
  ASSUME NEW c, Prepare(c)
  PROVE  /\ \A p \in DOMAIN store : store'[p] = store[p]
         /\ \A p \in DOMAIN store' \ DOMAIN store : store'[p] = EmptyDir
<1> DEFINE own == <<OwnClaim(c), <<>>>>
<1>1. store' = Claimed(c)
  BY DEF Prepare
<1>2. CASE Kind(c) \in {"Backup", "Snapshot"}
  <2>1. own \notin DOMAIN store
    <3>1. OwnClaim(c) \notin {p[1] : p \in DOMAIN store} \ {NoClaim}
      BY <1>2 DEF Prepare, Claims
    <3>2. OwnClaim(c) # NoClaim
      BY DEF OwnClaim, NoClaim
    <3>3. own[1] = OwnClaim(c)
      OBVIOUS
    <3> QED
      BY <3>1, <3>2, <3>3
  <2>2. store' = (own :> EmptyDir) @@ store
    BY <1>1, <1>2 DEF Claimed
  <2> HIDE DEF own
  <2> QED
    BY <2>1, <2>2 DEF @@, :>
<1>3. CASE Kind(c) \notin {"Backup", "Snapshot"}
  BY <1>1, <1>3 DEF Claimed
<1> QED
  BY <1>2, <1>3

\* The places chown works on.
Under(c, p) == p[1] = To(c)[1] /\ Seqs!IsPrefix(To(c)[2], p[2])

Owns(c) == /\ at[c] = "busy" /\ Command(c) = "chown" /\ began' = began /\ report' = report
           /\ Chown(c)

\* There is no other step of a resource.
LEMMA Effects ==
  ASSUME JobsKnown, Typed, NEW c \in DOMAIN at, StepOf(c)
  PROVE  Quiet(c) \/ (\E d : Writes(c, d)) \/ Owns(c)
<1>1. CASE Prepare(c)
  <2>1. \A p : After(p) = Read(p)
    <3>1. DOMAIN store \subseteq DOMAIN store'
      BY Shape
    <3> QED
      BY <1>1, <3>1, ClaimIsNew DEF After, Read
  <2>2. report' = report /\ \A d \in DOMAIN began : d # c => began'[d] = began[d]
    BY <1>1 DEF Prepare, @@, :>
  <2> QED
    BY <2>1, <2>2 DEF Quiet
<1>2. CASE BeginWork(c) \/ EndWork(c)
  <2>1. c \in DOMAIN jobs
    BY <1>2 DEF JobsKnown, BeginWork, EndWork, AtWork
  <2>2. CASE BeginWork(c)
    <3>1. at[c] = "ready" /\ report' = report
      BY <2>2 DEF BeginWork
    <3>2. CASE UNCHANGED <<store, began>>
      BY <3>1, <3>2 DEF Quiet, After, Read
    <3>3. CASE Command(c) = "backup" /\ BeginBackup(c)
      BY <2>1, <3>1, <3>3, BackupWrites
    <3>4. CASE at[c] = "ready" /\ BeginRestore(c) /\ report' = report
      BY <2>1, <3>4, RestoreWrites, Zenon
    <3>5. CASE /\ Command(c) \in {"fallback", "snapshot", "snapshot-recover"}
               /\ at[c] = "ready" /\ BeginCloudOp(c) /\ report' = report
      BY <2>1, <3>5, CloudOpWrites, Zenon
    <3> QED
      BY <2>2, <3>1, <3>2, <3>3, <3>4, <3>5, Zenon DEF BeginWork
  <2>3. CASE EndWork(c)
    <3>1. at[c] = "busy"
      BY <2>3 DEF EndWork
    <3>2. CASE Command(c) = "chown" /\ Chown(c) /\ report' = report
      BY <3>1, <3>2 DEF Owns, Chown
    <3>3. CASE Command(c) = "backup" /\ EndBackup(c)
      BY <2>1, <3>1, <3>3, BackupWrites, Zenon
    <3>4. CASE EndRestore(c) /\ report' = report
      BY <2>1, <3>1, <3>4, RestoreWrites, Zenon
    <3>5. CASE /\ Command(c) \in {"fallback", "snapshot", "snapshot-recover"}
               /\ EndCloudOp(c) /\ report' = report
      BY <2>1, <3>1, <3>5, CloudOpWrites
    <3> QED
      BY <2>3, <3>2, <3>3, <3>4, <3>5, Zenon DEF EndWork
  <2> QED
    BY <1>2, <2>2, <2>3
<1>3. CASE Finish(c)
  BY <1>3 DEF Finish, Quiet, After, Read
<1>4. CASE Break(c)
  <2>1. \A d \in DOMAIN began : d # c => began'[d] = began[d]
    BY <1>4 DEF Break
  <2> QED
    BY <1>4, <2>1 DEF Break, Quiet, After, Read
<1>5. CASE DeleteJob(c)
  BY <1>5 DEF DeleteJob, Quiet, After, Read
<1> QED
  BY <1>1, <1>2, <1>3, <1>4, <1>5 DEF StepOf, Program

\* The Job a step makes is the one its resource asks for.
LEMMA Prepared ==
  ASSUME JobsKnown, NEW c \in DOMAIN at, Prepare(c)
  PROVE  /\ DOMAIN jobs' = DOMAIN jobs \cup {c} /\ DOMAIN began' = DOMAIN jobs \cup {c}
         /\ \A d \in DOMAIN jobs : d # c => jobs'[d] = jobs[d] /\ began'[d] = began[d]
         /\ JobFacts(method, c, jobs'[c]) /\ jobs'[c].replicas = Remembered(c)
         /\ Kind(c) \in {"Restore", "Recover"} => method = "cloud-config"
         /\ Kind(c) \in {"Backup", "Duplicate", "Snapshot", "ChangeOwner"} =>
              SourceClaim(method, Specs[c].node) \in Claims \cup {OwnClaim(c)}
<1> DEFINE job == JobOf(method, c)
           j == [Seen(job) EXCEPT !.replicas = Remembered(c)]
<1>1. c \in CRs /\ method \in Methods
  BY DEF JobsKnown
<1>2. jobs' = (c :> j) @@ jobs /\ Range(job.mounts) \subseteq Claims \cup {OwnClaim(c)}
  BY DEF Prepare
<1>3. \E b : began' = (c :> b) @@ began
  BY Zenon DEF Prepare
<1>4. /\ JobFacts(method, c, Seen(job))
      /\ Kind(c) \in {"Restore", "Recover"} => RestoreClaim(method, Specs[c].node) \in Range(job.mounts)
      /\ Kind(c) \in {"Backup", "Duplicate", "Snapshot", "ChangeOwner"} =>
           SourceClaim(method, Specs[c].node) \in Range(job.mounts)
  BY <1>1, OfEvery
<1>5. JobFacts(method, c, j) /\ j.replicas = Remembered(c)
  BY <1>4, WithReplicas
<1> HIDE DEF job, j
<1>6. /\ DOMAIN jobs' = DOMAIN jobs \cup {c} /\ jobs'[c] = j
      /\ \A d \in DOMAIN jobs : d # c => jobs'[d] = jobs[d]
  BY <1>2 DEF @@, :>
<1>7. /\ DOMAIN began' = DOMAIN jobs \cup {c}
      /\ \A d \in DOMAIN jobs : d # c => began'[d] = began[d]
  <2>1. DOMAIN began = DOMAIN jobs
    BY DEF JobsKnown
  <2> QED
    BY <1>3, <2>1 DEF @@, :>
<1>8. NoClaim \notin Claims \cup {OwnClaim(c)}
  BY DEF Claims, NoClaim, ConfigMap, OwnClaim
<1>9. Kind(c) \in {"Restore", "Recover"} => method = "cloud-config"
  <2>1. method # "cloud-config" => RestoreClaim(method, Specs[c].node) = NoClaim
    BY DEF RestoreClaim
  <2> QED
    BY <1>2, <1>4, <1>8, <2>1
<1>10. Kind(c) \in {"Backup", "Duplicate", "Snapshot", "ChangeOwner"} =>
         SourceClaim(method, Specs[c].node) \in Claims \cup {OwnClaim(c)}
  BY <1>2, <1>4
<1> QED
  BY <1>5, <1>6, <1>7, <1>9, <1>10, Zenon

\* The other steps.
LEMMA Submitted ==
  ASSUME NEW c \in CRs \ DOMAIN at, Submit(c)
  PROVE  /\ DOMAIN at' = DOMAIN at \cup {c} /\ at'[c] = "active"
         /\ \A d \in DOMAIN at : at'[d] = at[d]
         /\ UNCHANGED <<method, store, up, jobs, report, faults, began>>
  BY DEF Submit, @@, :>

\* No step makes another Job than the one that is asked for.
LEMMA JobsKnownNext ==
  ASSUME JobsKnown, [Next]_vars
  PROVE  JobsKnown'
<1>1. CASE UNCHANGED vars
  <2>1. /\ method' = method /\ at' = at /\ jobs' = jobs /\ began' = began /\ store' = store
    BY <1>1 DEF vars
  <2> QED
    BY <2>1 DEF JobsKnown, Home
<1>2. CASE \E c \in CRs \ DOMAIN at : Submit(c)
  <2> PICK c \in CRs \ DOMAIN at : Submit(c)
    BY <1>2
  <2>1. /\ DOMAIN at' = DOMAIN at \cup {c} /\ at'[c] = "active"
        /\ \A d \in DOMAIN at : at'[d] = at[d]
        /\ method' = method /\ jobs' = jobs /\ began' = began /\ store' = store
    BY Submitted
  <2>2. "active" \in Progress /\ "active" \notin AtWork \cup {"Complete"}
    BY DEF Progress, AtWork
  <2> QED
    BY <2>1, <2>2 DEF JobsKnown, Home
<1>3. CASE \E c \in DOMAIN at : StepOf(c)
  <2> PICK c \in DOMAIN at : StepOf(c)
    BY <1>3
  <2>1. /\ method' = method /\ DOMAIN at' = DOMAIN at /\ at'[c] \in Progress
        /\ at[c] \in {"active"} \cup AtWork
        /\ \A d \in DOMAIN at : d # c => at'[d] = at[d]
        /\ DOMAIN store \subseteq DOMAIN store'
        /\ Prepare(c) \/ (jobs' = jobs /\ DOMAIN began' = DOMAIN began /\ at[c] \in AtWork)
    BY Shape
  <2>2. \A n \in Nodes : Home(n)' \in DOMAIN store'
    BY <2>1 DEF JobsKnown, Home
  <2>3. CASE Prepare(c)
    <3>1. /\ DOMAIN jobs' = DOMAIN jobs \cup {c} /\ DOMAIN began' = DOMAIN jobs \cup {c}
          /\ \A d \in DOMAIN jobs : d # c => jobs'[d] = jobs[d]
          /\ JobFacts(method, c, jobs'[c])
          /\ Kind(c) \in {"Restore", "Recover"} => method = "cloud-config"
      BY <2>3, Prepared
    <3>2. \A d \in DOMAIN jobs' : /\ JobFacts(method', d, jobs'[d])
                                 /\ Kind(d) \in {"Restore", "Recover"} => method' = "cloud-config"
      BY <2>1, <3>1 DEF JobsKnown
    <3>3. \A d \in DOMAIN at' : /\ at'[d] \in Progress
                               /\ at'[d] \in AtWork \cup {"Complete"} => d \in DOMAIN jobs'
      BY <2>1, <3>1 DEF JobsKnown
    <3> QED
      BY <2>1, <2>2, <3>1, <3>2, <3>3 DEF JobsKnown
  <2>4. CASE jobs' = jobs /\ DOMAIN began' = DOMAIN began /\ at[c] \in AtWork
    <3>1. \A d \in DOMAIN jobs' : /\ JobFacts(method', d, jobs'[d])
                                 /\ Kind(d) \in {"Restore", "Recover"} => method' = "cloud-config"
      BY <2>1, <2>4 DEF JobsKnown
    <3>2. \A d \in DOMAIN at' : /\ at'[d] \in Progress
                               /\ at'[d] \in AtWork \cup {"Complete"} => d \in DOMAIN jobs'
      BY <2>1, <2>4 DEF JobsKnown
    <3> QED
      BY <2>1, <2>2, <2>4, <3>1, <3>2 DEF JobsKnown
  <2> QED
    BY <2>1, <2>3, <2>4
<1>4. CASE \E n \in Nodes : Run(n)
  <2>1. /\ method' = method /\ at' = at /\ jobs' = jobs /\ began' = began
        /\ DOMAIN store' = DOMAIN store
    BY <1>4 DEF Run
  <2> QED
    BY <2>1 DEF JobsKnown, Home
<1> QED
  BY <1>1, <1>2, <1>3, <1>4 DEF Next, StepOf

-----------------------------------------------------------------------------
(* Typed is an invariant.                                                  *)

\* Only a step of a resource moves it.
LEMMA Moved ==
  ASSUME [Next]_vars, NEW c \in DOMAIN at, at'[c] # at[c]
  PROVE  StepOf(c)
<1>1. CASE UNCHANGED vars
  BY <1>1 DEF vars
<1>2. CASE \E d \in CRs \ DOMAIN at : Submit(d)
  BY <1>2, Submitted
<1>3. CASE \E d \in DOMAIN at : StepOf(d)
  BY <1>3, Shape
<1>4. CASE \E n \in Nodes : Run(n)
  BY <1>4 DEF Run
<1> QED
  BY <1>1, <1>2, <1>3, <1>4 DEF Next, StepOf

\* Only Finish completes.
LEMMA Completed ==
  ASSUME [Next]_vars, NEW c \in DOMAIN at, at[c] # "Complete", at'[c] = "Complete"
  PROVE  Finish(c) /\ at[c] = "done" /\ store' = store /\ StepOf(c)
<1>1. StepOf(c)
  BY Moved
<1>2. /\ ~Prepare(c) /\ ~BeginWork(c) /\ ~EndWork(c) /\ ~Break(c) /\ ~DeleteJob(c)
  BY DEF Prepare, BeginWork, BeginBackup, BeginRestore, BeginCloudOp, EndWork, EndBackup,
         EndRestore, EndCloudOp, Chown, Break, DeleteJob, Move, GiveUp
<1> QED
  BY <1>1, <1>2 DEF StepOf, Program, Finish

\* The consensus data of a node.
LEMMA WalTyped == \A n : WalOf(n) \in SUBSET ConsensusDirs
  BY DEF WalOf, ConsensusDirs

\* What a node that runs makes of its directory.
Grown(n) == {[mark EXCEPT !.height = @ + 1] : mark \in ChainOf(n).of}
Grows(n, d) ==
  DirOf([of |-> Grown(n), whole |-> d.chain.whole, owner |-> d.chain.owner], d.state,
        d.archives, d.wal \cup WalOf(n), d.by)

\* Nothing else changes.
LEMMA Runs ==
  ASSUME JobsKnown, Typed, NEW n \in Nodes, Run(n)
  PROVE  /\ DOMAIN store' = DOMAIN store
         /\ \A p \in DOMAIN store : p # Home(n) => store'[p] = store[p]
         /\ store'[Home(n)] = Grows(n, store[Home(n)])
         /\ Grows(n, store[Home(n)]) \in Directories
         /\ n \in up /\ ChainOf(n).whole
         /\ UNCHANGED <<method, up, at, jobs, report, faults, began>>
<1> DEFINE h == Home(n)
           d == store[h]
           of == Grown(n)
           wal == d.wal \cup WalOf(n)
           chain == [of |-> of, whole |-> d.chain.whole, owner |-> d.chain.owner]
<1>1. h \in DOMAIN store /\ d \in Directories
  BY DEF JobsKnown, Typed
<1>2. ChainOf(n) = d.chain
  BY <1>1 DEF ChainOf, Read
<1>3. of = {[mark EXCEPT !.height = @ + 1] : mark \in d.chain.of}
  BY <1>2, Zenon DEF Grown
<1>4. d.chain \in Content
  BY <1>1, FieldsOf
<1>5. [d.chain EXCEPT !.of = of] = chain
  BY <1>4, ContentWith
<1>6. [d EXCEPT !.chain = chain] = DirOf(chain, d.state, d.archives, d.wal, d.by)
  BY <1>1, DirWith
<1>8. Grows(n, d) \in Directories
  <2>1. /\ \A mark \in d.chain.of : [mark EXCEPT !.height = @ + 1] \in Marks
    BY <1>4 DEF Content, Marks
  <2>2. chain \in Content
    BY <1>3, <1>4, <2>1 DEF Content
  <2>3. wal \in SUBSET ConsensusDirs /\ d.by \in CRs \cup {""} /\ d.state \in Content /\ d.archives \in Shelves
    BY <1>1, FieldsOf, WalTyped
  <2> HIDE DEF chain, wal
  <2>4. DirOf(chain, d.state, d.archives, wal, d.by) \in Directories
    BY <2>2, <2>3, DirIs
  <2> QED
    BY <2>4, Zenon DEF Grows, chain, wal
<1>9. /\ DOMAIN store' = DOMAIN store /\ store'[h] = Grows(n, d)
      /\ \A p \in DOMAIN store : p # h => store'[p] = store[p]
  <2>1. store' = [store EXCEPT ![h].chain.of = of, ![h].wal = wal]
    <3>1. of = {[mark EXCEPT !.height = @ + 1] : mark \in store[h].chain.of}
      BY <1>3, Zenon
    <3> QED
      BY <3>1, Zenon DEF Run
  <2> DEFINE chain2 == [d.chain EXCEPT !.of = of]
             e == [[d EXCEPT !.chain = chain2] EXCEPT !.wal = wal]
  <2> HIDE DEF h, of, wal
  <2>2. /\ DOMAIN store' = DOMAIN store /\ store'[h] = e
        /\ \A p \in DOMAIN store : p # h => store'[p] = store[p]
    BY <1>1, <2>1 DEF Directories
  <2>3. e = Grows(n, d)
    <3>1. [d EXCEPT !.chain = chain] = DirOf(chain, d.state, d.archives, d.wal, d.by)
      BY <1>6
    <3>2. e = [DirOf(chain, d.state, d.archives, d.wal, d.by) EXCEPT !.wal = wal]
      BY <1>5, <3>1, Zenon
    <3> DEFINE state == d.state
               archives == d.archives
               by == d.by
               old == d.wal
    <3> HIDE DEF chain, d, state, archives, by, old
    <3>3. [DirOf(chain, state, archives, old, by) EXCEPT !.wal = wal]
            = DirOf(chain, state, archives, wal, by)
      BY DEF DirOf
    <3>4. Grows(n, d) = DirOf(chain, state, archives, wal, by)
      BY Zenon DEF Grows, chain, of, wal, d, state, archives, by
    <3> QED
      BY <3>2, <3>3, <3>4, Zenon DEF state, archives, by, old
  <2> QED
    BY <2>2, <2>3, Zenon
<1>10. /\ n \in up /\ ChainOf(n).whole
       /\ UNCHANGED <<method, up, at, jobs, report, faults, began>>
  BY DEF Run
<1> QED
  BY <1>8, <1>9, <1>10, Zenon

\* Which variables a step of a resource leaves alone.
LEMMA Leaves ==
  ASSUME NEW c \in DOMAIN at, StepOf(c), faults \in Nat
  PROVE  /\ faults' \in Nat
         /\ Prepare(c) \/ Finish(c) \/ up' = up
         /\ report' = report \/ (at[c] = "busy" /\ Command(c) = "backup" /\ EndBackup(c))
         /\ began' = began \/ Prepare(c) \/ Break(c) \/ began' = Noted(c)
<1>1. CASE Prepare(c)
  BY <1>1 DEF Prepare
<1>2. CASE BeginWork(c)
  <2>1. began' = began \/ began' = Noted(c)
    BY <1>2 DEF BeginWork, BeginBackup, BeginRestore, BeginCloudOp, GiveUp, Write
  <2> QED
    BY <1>2, <2>1 DEF BeginWork
<1>3. CASE EndWork(c)
  <2>1. began' = began \/ began' = Noted(c)
    <3>1. CASE EndCloudOp(c) /\ Command(c) \in {"fallback", "snapshot", "snapshot-recover"}
      <4>1. CASE Command(c) = "snapshot"
        BY <3>1, <4>1 DEF EndCloudOp, Write
      <4>2. CASE Command(c) = "fallback"
        BY <3>1, <4>2 DEF EndCloudOp, Write
      <4>3. CASE Command(c) = "snapshot-recover"
        BY <3>1, <4>3 DEF EndCloudOp, Write
      <4> QED
        BY <3>1, <4>1, <4>2, <4>3
    <3>2. CASE EndBackup(c) \/ EndRestore(c) \/ Chown(c)
      BY <3>2 DEF EndBackup, EndRestore, Chown, GiveUp, Write
    <3> QED
      BY <1>3, <3>1, <3>2 DEF EndWork
  <2> QED
    BY <1>3, <2>1 DEF EndWork
<1>4. CASE Finish(c)
  BY <1>4 DEF Finish
<1>5. CASE Break(c)
  BY <1>5 DEF Break, Fault
<1>6. CASE DeleteJob(c)
  BY <1>6 DEF DeleteJob, Fault
<1> QED
  BY <1>1, <1>2, <1>3, <1>4, <1>5, <1>6 DEF StepOf, Program

\* chown keeps directories what they are, and every place.
LEMMA Chowns ==
  ASSUME Typed, NEW c, Chown(c), F(c).uid \in Owners
  PROVE  /\ DOMAIN store' = DOMAIN store
         /\ \A p \in DOMAIN store :
              /\ store'[p] \in Directories
              /\ store'[p].state = store[p].state /\ store'[p].archives = store[p].archives
              /\ store'[p].wal = store[p].wal /\ store'[p].by = store[p].by
              /\ IF Under(c, p) /\ store[p].chain # Nothing
                 THEN store'[p].chain = [store[p].chain EXCEPT !.owner = F(c).uid]
                 ELSE store'[p] = store[p]
<1>1. DOMAIN store' = DOMAIN store
  BY DEF Chown
<1>2. ASSUME NEW p \in DOMAIN store
      PROVE  /\ store'[p] \in Directories
             /\ store'[p].state = store[p].state /\ store'[p].archives = store[p].archives
             /\ store'[p].wal = store[p].wal /\ store'[p].by = store[p].by
             /\ IF Under(c, p) /\ store[p].chain # Nothing
                THEN store'[p].chain = [store[p].chain EXCEPT !.owner = F(c).uid]
                ELSE store'[p] = store[p]
  <2> DEFINE d == store[p]
             new == [d.chain EXCEPT !.owner = F(c).uid]
  <2>1. d \in Directories
    BY <1>2 DEF Typed
  <2>2. store'[p] = IF Under(c, p) /\ d.chain # Nothing THEN [d EXCEPT !.chain.owner = F(c).uid]
                    ELSE d
    BY <1>2, Zenon DEF Chown, Under
  <2>3. CASE Under(c, p) /\ d.chain # Nothing
    <3>1. store'[p] = [d EXCEPT !.chain = new]
      BY <2>2, <2>3, Zenon
    <3>2. [d EXCEPT !.chain = new] = DirOf(new, d.state, d.archives, d.wal, d.by)
      BY <2>1, DirWith
    <3>3. new \in Content
      <4>1. d.chain \in Content
        BY <2>1, FieldsOf
      <4> QED
        BY <4>1, ContentWith DEF Content
    <3> DEFINE e == DirOf(new, d.state, d.archives, d.wal, d.by)
    <3>4. store'[p] = e
      BY <3>1, <3>2, Zenon
    <3>5. e \in Directories
      BY <2>1, <3>3, FieldsOf, DirIs
    <3>6. /\ e.chain = new /\ e.state = d.state /\ e.archives = d.archives /\ e.wal = d.wal
          /\ e.by = d.by
      BY DEF DirOf
    <3> HIDE DEF e, new, d
    <3>7. /\ store'[p] \in Directories
          /\ store'[p].state = d.state /\ store'[p].archives = d.archives
          /\ store'[p].wal = d.wal /\ store'[p].by = d.by
          /\ store'[p].chain = new
      BY <3>4, <3>5, <3>6, Zenon
    <3> QED
      BY <2>3, <3>7, Zenon DEF d, new
  <2>4. CASE ~(Under(c, p) /\ d.chain # Nothing)
    BY <2>1, <2>2, <2>4
  <2> QED
    BY <2>3, <2>4
<1> QED
  BY <1>1, <1>2

\* The store after a step of a resource.
LEMMA StoreTyped ==
  ASSUME JobsKnown, Typed, NEW c \in DOMAIN at, StepOf(c)
  PROVE  \A p \in DOMAIN store' : store'[p] \in Directories
<1>1. CASE Quiet(c)
  <2> SUFFICES ASSUME NEW p \in DOMAIN store' PROVE store'[p] \in Directories
    OBVIOUS
  <2>1. After(p) = Read(p)
    BY <1>1 DEF Quiet
  <2> QED
    BY <2>1, ReadTyped DEF After
<1>2. CASE \E d : Writes(c, d)
  BY <1>2 DEF Writes, Typed, @@, :>
<1>3. CASE Owns(c)
  <2>1. c \in DOMAIN jobs /\ Command(c) = "chown" /\ Chown(c)
    BY <1>3 DEF Owns, JobsKnown, AtWork
  <2>2. F(c).uid \in Owners
    BY <2>1, FlagsKnown
  <2> QED
    BY <2>1, <2>2, Chowns
<1> QED
  BY <1>1, <1>2, <1>3, Effects

\* In the beginning there are the directories of nodes and empty ones.
LEMMA TypedInit == Init => Typed
<1> SUFFICES ASSUME Init PROVE Typed
  OBVIOUS
<1>1. /\ at = <<>> /\ jobs = <<>> /\ began = <<>> /\ report = <<>> /\ up = Nodes /\ faults = 0
  BY DEF Init
<1>2. /\ DOMAIN at = {} /\ DOMAIN jobs = {} /\ DOMAIN report = {} /\ began \in [{} -> Began]
  BY <1>1
<1>3. ASSUME NEW p \in DOMAIN store
      PROVE  store[p] \in Directories
  <2> DEFINE n == CHOOSE n \in Nodes : p = Home(n)
             chain == [of |-> {[node |-> n, height |-> StartHeight[n]]}, whole |-> TRUE,
                       owner |-> StartOwner]
             full == [EmptyDir EXCEPT
                       !.chain.of = {[node |-> n, height |-> StartHeight[n]]},
                       !.chain.whole = TRUE, !.chain.owner = StartOwner, !.wal = WalOf(n)]
  <2>1. store[p] = EmptyDir \/ ((\E m \in Nodes : p = Home(m)) /\ store[p] = full)
    BY <1>3, Zenon DEF Init
  <2>2. CASE store[p] = full /\ \E m \in Nodes : p = Home(m)
    <3>1. n \in Nodes
      BY <2>2
    <3>2. StartHeight[n] \in Nat
      BY <3>1, StartAssumption
    <3>3. chain \in Content
      BY <3>1, <3>2, StartAssumption DEF Content, Marks
    <3>4. WalOf(n) \in SUBSET ConsensusDirs
      BY WalTyped
    <3> DEFINE w == WalOf(n)
               marks == {[node |-> n, height |-> StartHeight[n]]}
    <3>5. full = [EmptyDir EXCEPT !.chain.of = marks, !.chain.whole = TRUE,
                                  !.chain.owner = StartOwner, !.wal = w]
      BY Zenon
    <3>6. EmptyDir.state \in Content /\ EmptyDir.archives \in Shelves /\ EmptyDir.by \in CRs \cup {""}
      BY Empties, FieldsOf
    <3>7. chain = [of |-> marks, whole |-> TRUE, owner |-> StartOwner]
      BY Zenon
    <3> HIDE DEF n, w, marks, full, chain
    <3>8. full = DirOf(chain, EmptyDir.state, EmptyDir.archives, w, EmptyDir.by)
      BY <3>5, <3>7 DEF EmptyDir, Nothing, DirOf
    <3>9. w \in SUBSET ConsensusDirs
      BY <3>4 DEF w
    <3>10. full \in Directories
      BY <3>3, <3>6, <3>8, <3>9, DirIs
    <3> QED
      BY <2>2, <3>10
  <2> QED
    BY <2>1, <2>2, Empties
<1> QED
  BY <1>1, <1>2, <1>3 DEF Typed
\* No archive is ever taken away.
LEMMA ArchivesStay ==
  ASSUME JobsKnown, Typed, NEW c \in DOMAIN at, StepOf(c), NEW p \in DOMAIN store
  PROVE  p \in DOMAIN store' /\ DOMAIN store[p].archives \subseteq DOMAIN store'[p].archives
<1>1. p \in DOMAIN store'
  BY Shape
<1>2. CASE Quiet(c)
  <2>1. After(p) = Read(p)
    BY <1>2 DEF Quiet
  <2> QED
    BY <1>1, <2>1 DEF After, Read
<1>3. CASE \E d : Writes(c, d)
  <2> PICK d : Writes(c, d)
    BY <1>3
  <2>1. store' = (To(c) :> d) @@ store /\ DOMAIN Read(To(c)).archives \subseteq DOMAIN d.archives
    BY DEF Writes
  <2>2. CASE p = To(c)
    BY <2>1, <2>2 DEF @@, :>, Read
  <2>3. CASE p # To(c)
    BY <2>1, <2>3 DEF @@, :>
  <2> QED
    BY <1>1, <2>2, <2>3
<1>4. CASE Owns(c)
  <2>1. c \in DOMAIN jobs /\ Command(c) = "chown" /\ Chown(c)
    BY <1>4 DEF Owns, JobsKnown, AtWork
  <2>2. F(c).uid \in Owners
    BY <2>1, FlagsKnown
  <2> QED
    BY <1>1, <2>1, <2>2, Chowns
<1> QED
  BY <1>2, <1>3, <1>4, Effects

\* A Backup that begins an archive leaves it there.
LEMMA ArchiveBegun ==
  ASSUME JobsKnown, Typed, NEW c \in DOMAIN at, StepOf(c), at'[c] = "busy",
         Command(c) = "backup", F(c).compress
  PROVE  jobs' = jobs /\ To(c) \in DOMAIN store' /\ F(c).output \in DOMAIN store'[To(c)].archives
<1>1. at[c] = "ready" /\ jobs' = jobs /\ BeginBackup(c)
  <2>1. /\ ~Prepare(c) /\ ~EndWork(c) /\ ~Finish(c) /\ ~Break(c) /\ ~DeleteJob(c)
    BY DEF Prepare, EndWork, EndBackup, EndRestore, EndCloudOp, Chown, Finish, Break, DeleteJob,
           Move, GiveUp
  <2>2. BeginWork(c)
    BY <2>1 DEF StepOf, Program
  <2> QED
    BY <2>2 DEF BeginWork
<1> DEFINE k == Read(To(c))
           a == Packing(c, {}, FALSE)
           d == DirOf(k.chain, k.state, Shelve(c, a), k.wal, c)
<1>2. Wrote(c, k.chain, k.state, Shelve(c, a), k.wal)
  <2>1. ~Move(c, "Failed")
    BY DEF Move
  <2> QED
    BY <1>1, <2>1, BackupBegins, Zenon
<1>3. store' = (To(c) :> d) @@ store
  BY <1>2, Zenon DEF Wrote
<1>4. d.archives = Shelve(c, a)
  BY Zenon DEF DirOf
<1>5. F(c).output \in DOMAIN Shelve(c, a)
  BY DEF Shelve, @@, :>
<1> HIDE DEF d, a
<1>6. To(c) \in DOMAIN store' /\ store'[To(c)] = d
  BY <1>3 DEF @@, :>
<1> QED
  BY <1>1, <1>4, <1>5, <1>6, Zenon

\* A Backup that ends reports an archive.
LEMMA PackingTyped ==
  ASSUME JobsKnown, Typed, NEW c \in DOMAIN jobs, at[c] = "busy", Command(c) = "backup",
         F(c).compress
  PROVE  Packing(c, Read(To(c)).archives[F(c).output].of, TRUE) \in Archive
<1> DEFINE k == Read(To(c))
           source == Read(From(c)).chain
           out == F(c).output
<1>1. k.archives \in Shelves /\ source \in Content
  BY Reading, FieldsOf
<1>2. out \in DOMAIN k.archives
  <2>1. To(c) \in DOMAIN store /\ out \in DOMAIN store[To(c)].archives
    BY Programs DEF Typed
  <2> QED
    BY <2>1 DEF Read
<1>3. k.archives[out] \in Archive
  BY <1>1, <1>2, Shelved
<1>4. k.archives[out].of \in SUBSET Marks /\ source.of \in SUBSET Marks /\ source.whole \in BOOLEAN
  BY <1>1, <1>3 DEF Archive, Content
<1> QED
  BY <1>4 DEF Packing, Archive

\* What a program finds when it begins.
LEMMA BeganTyped ==
  ASSUME JobsKnown, Typed, NEW c \in DOMAIN at, StepOf(c)
  PROVE  began' \in [DOMAIN jobs' -> Began]
<1>1. CASE Prepare(c)
  <2> DEFINE from == Seen(JobOf(method, c)).from
             to == Seen(JobOf(method, c)).to
             sound == Kind(c) \in {"Restore", "Recover"} /\ Sound(c, from)
             fresh == Read(to).chain = Nothing
             chain == ChainOf(Specs[c].node)
             b == [chain |-> chain, fresh |-> fresh, sound |-> sound, calm |-> TRUE]
  <2>1. began' = (c :> b) @@ began
    BY <1>1, Zenon DEF Prepare
  <2>2. chain \in Content
    BY ReadTyped, FieldsOf DEF ChainOf
  <2>3. fresh \in BOOLEAN /\ sound \in BOOLEAN
    OBVIOUS
  <2> HIDE DEF from, to, sound, fresh, chain
  <2>4. b \in Began
    BY <2>2, <2>3 DEF Began
  <2>5. DOMAIN jobs' = DOMAIN jobs \cup {c}
    BY <1>1, Prepared
  <2>6. began \in [DOMAIN jobs -> Began]
    BY DEF Typed
  <2> HIDE DEF b
  <2> QED
    BY <2>1, <2>4, <2>5, <2>6 DEF @@, :>
<1>2. CASE ~Prepare(c)
  <2>1. jobs' = jobs /\ began \in [DOMAIN jobs -> Began]
    BY <1>2, Shape DEF Typed
  <2>2. CASE began' = Noted(c)
    BY <2>1, <2>2 DEF Noted, Began
  <2>3. CASE Break(c)
    BY <2>1, <2>3 DEF Break, Began
  <2>4. CASE began' = began
    BY <2>1, <2>4
  <2> QED
    BY <1>2, <2>2, <2>3, <2>4, Leaves DEF Typed
<1> QED
  BY <1>1, <1>2

\* What a Duplicate reports is an archive.
LEMMA ReportTyped ==
  ASSUME JobsKnown, Typed, NEW c \in DOMAIN at, StepOf(c)
  PROVE  DOMAIN report' \subseteq DOMAIN jobs' /\ \A d \in DOMAIN report' : report'[d] \in Archive
<1>1. DOMAIN jobs \subseteq DOMAIN jobs'
  BY Shape, Prepared
<1>2. CASE report' = report
  BY <1>1, <1>2 DEF Typed
<1>3. CASE at[c] = "busy" /\ Command(c) = "backup" /\ EndBackup(c)
  <2>1. c \in DOMAIN jobs
    BY <1>3 DEF JobsKnown, AtWork
  <2> DEFINE a == Packing(c, Read(To(c)).archives[F(c).output].of, TRUE)
  <2>2. report' = report \/ (F(c).compress /\ report' = (c :> a) @@ report)
    BY <1>3, BackupEnds, Zenon
  <2>3. F(c).compress => a \in Archive
    BY <1>3, <2>1, PackingTyped
  <2> HIDE DEF a
  <2> QED
    BY <1>1, <1>2, <2>1, <2>2, <2>3 DEF Typed, @@, :>
<1> QED
  BY <1>2, <1>3, Leaves DEF Typed

\* Every step keeps all this.
LEMMA TypedNext ==
  ASSUME JobsKnown, Typed, [Next]_vars
  PROVE  Typed'
<1>1. CASE UNCHANGED vars
  BY <1>1 DEF vars, Typed, Command, F, To
<1>2. CASE \E c \in CRs \ DOMAIN at : Submit(c)
  <2> PICK c \in CRs \ DOMAIN at : Submit(c)
    BY <1>2
  <2>1. /\ DOMAIN at' = DOMAIN at \cup {c} /\ at'[c] = "active"
        /\ \A d \in DOMAIN at : at'[d] = at[d]
        /\ UNCHANGED <<method, store, up, jobs, report, faults, began>>
    BY Submitted
  <2> QED
    BY <2>1 DEF Typed, Command, F, To
<1>3. CASE \E c \in DOMAIN at : StepOf(c)
  <2> PICK c \in DOMAIN at : StepOf(c)
    BY <1>3
  <2>1. /\ DOMAIN at' = DOMAIN at
        /\ \A d \in DOMAIN at : d # c => at'[d] = at[d]
        /\ Prepare(c) \/ jobs' = jobs
    BY Shape
  <2>2. up' \subseteq Nodes
    <3>1. CASE Prepare(c)
      BY <3>1 DEF Prepare, Typed
    <3>2. CASE Finish(c)
      BY <3>2 DEF Finish, Typed, JobsKnown, AtWork
    <3> QED
      BY <3>1, <3>2, Leaves DEF Typed
  <2>3. \A d \in DOMAIN jobs' : jobs'[d].replicas \subseteq Nodes
    <3>1. CASE Prepare(c)
      <4>1. Remembered(c) \subseteq Nodes
        <5>1. Specs[c].node \in Nodes
          BY Specified DEF JobsKnown
        <5>2. S(c).node = Specs[c].node
          BY Specified DEF JobsKnown
        <5> QED
          BY <5>1, <5>2 DEF Remembered, Typed
      <4>2. /\ DOMAIN jobs' = DOMAIN jobs \cup {c} /\ jobs'[c].replicas = Remembered(c)
            /\ \A d \in DOMAIN jobs : d # c => jobs'[d] = jobs[d]
        BY <3>1, Prepared
      <4>3. \A d \in DOMAIN jobs : jobs[d].replicas \subseteq Nodes
        BY DEF Typed
      <4> QED
        BY <4>1, <4>2, <4>3
    <3> QED
      BY <2>1, <3>1 DEF Typed
  <2>4. ASSUME NEW d \in DOMAIN at', at'[d] = "busy", Command(d)' = "backup", F(d)'.compress
        PROVE  To(d)' \in DOMAIN store' /\ F(d)'.output \in DOMAIN store'[To(d)'].archives
    <3>1. CASE d = c
      <4>1. jobs' = jobs
        <5>1. ~Prepare(c)
          BY <2>4, <3>1 DEF Prepare, Move
        <5> QED
          BY <2>1, <5>1
      <4>2. Command(c) = "backup" /\ F(c).compress /\ To(c)' = To(c) /\ F(c)' = F(c)
        BY <2>4, <3>1, <4>1 DEF Command, F, To
      <4> QED
        BY <2>4, <3>1, <4>2, ArchiveBegun
    <3>2. CASE d # c
      <4>1. d \in DOMAIN at /\ at[d] = "busy"
        BY <2>1, <2>4, <3>2
      <4>2. d \in DOMAIN jobs
        BY <4>1 DEF JobsKnown, AtWork
      <4>3. jobs'[d] = jobs[d]
        BY <2>1, <3>2, <4>2, Prepared
      <4>4. Command(d) = "backup" /\ F(d).compress /\ To(d)' = To(d) /\ F(d)' = F(d)
        BY <2>4, <4>3 DEF Command, F, To
      <4>5. To(d) \in DOMAIN store /\ F(d).output \in DOMAIN store[To(d)].archives
        BY <4>1, <4>4 DEF Typed
      <4> QED
        BY <4>4, <4>5, ArchivesStay
    <3> QED
      BY <3>1, <3>2
  <2> QED
    BY <2>2, <2>3, <2>4, StoreTyped, BeganTyped, ReportTyped, Leaves DEF Typed
<1>4. CASE \E n \in Nodes : Run(n)
  <2> PICK n \in Nodes : Run(n)
    BY <1>4
  <2> DEFINE h == Home(n)
             g == Grows(n, store[h])
  <2>1. /\ DOMAIN store' = DOMAIN store /\ store'[h] = g /\ g \in Directories
        /\ \A p \in DOMAIN store : p # h => store'[p] = store[p]
        /\ UNCHANGED <<method, up, at, jobs, report, faults, began>>
    BY Runs
  <2>2. g.archives = store[h].archives
    BY Zenon DEF Grows, DirOf
  <2> HIDE DEF g, h
  <2>3. \A p \in DOMAIN store : store'[p] \in Directories /\ store'[p].archives = store[p].archives
    BY <2>1, <2>2 DEF Typed
  <2> QED
    BY <2>1, <2>3 DEF Typed, Command, F, To
<1> QED
  BY <1>1, <1>2, <1>3, <1>4 DEF Next, StepOf

\* From the first state on.
Grounded == JobsKnown /\ Typed

\* Both hold in every state.
LEMMA GroundedAlways == Spec => []Grounded
<1>1. Init => Grounded
  BY JobsKnownInit, TypedInit DEF Grounded
<1>2. Grounded /\ [Next]_vars => Grounded'
  BY JobsKnownNext, TypedNext DEF Grounded
<1> QED
  BY <1>1, <1>2, PTL DEF Spec

\* Every Job is of a known command and names only nodes of the chain, and whatever
\* programs are cut off, made again or meet at one place, what lies on the claims are
\* directories, contents and archives.
THEOREM TypeCorrect == Spec => []TypeOK
<1>1. Grounded => TypeOK
  <2> SUFFICES ASSUME JobsKnown, Typed PROVE TypeOK
    BY DEF Grounded
  <2>1. \A p \in DOMAIN store : Dir(store[p])
    <3> SUFFICES ASSUME NEW p \in DOMAIN store PROVE Dir(store[p])
      OBVIOUS
    <3> DEFINE d == store[p]
    <3>1. d \in Directories
      BY DEF Typed
    <3> HIDE DEF d
    <3>2. /\ d.chain \in Content /\ d.state \in Content /\ d.archives \in Shelves
          /\ d.wal \in SUBSET ConsensusDirs /\ d.by \in CRs \cup {""}
      BY <3>1, FieldsOf
    <3>3. DOMAIN d.archives \subseteq Files /\ \A f \in DOMAIN d.archives : d.archives[f] \in Archive
      BY <3>2, Shelved
    <3>4. Dir(d)
      BY <3>2, <3>3 DEF Dir
    <3> QED
      BY <3>4 DEF d
  <2>2. Range(at) \subseteq Progress /\ Range(report) \subseteq Archive
    BY DEF JobsKnown, Typed, Range
  <2>3. \A c \in DOMAIN jobs : Command(c) \in DOMAIN FlagDefaults /\ jobs[c].replicas \subseteq Nodes
    <3>1. DOMAIN FlagDefaults = {"backup", "restore", "snapshot", "fallback", "chown",
                                 "snapshot-recover"}
      BY DEF FlagDefaults, @@, :>
    <3> QED
      BY <3>1, Programs DEF Typed
  <2> QED
    BY <2>1, <2>2, <2>3 DEF TypeOK, JobsKnown, Typed, Began
<1> QED
  BY <1>1, GroundedAlways, PTL

-----------------------------------------------------------------------------
(* The nodes are kept apart.                                               *)

\* No place a resource writes to is the directory of another node.
LEMMA TargetsApart ==
  ASSUME Elsewhere, JobsKnown, NEW c \in DOMAIN jobs, NEW n \in Nodes \ {Specs[c].node}
  PROVE  To(c) # Home(n) /\ (Command(c) = "chown" => ~Under(c, Home(n)))
<1> DEFINE k == Specs[c].node
           j == jobs[c]
           to == To(c)
           home == Home(n)
<1>1. /\ c \in CRs /\ k \in Nodes /\ JobFacts(method, c, j) /\ k # n /\ n \in Nodes
      /\ method \in Methods
  BY Programs DEF JobsKnown
<1>2. home = IF method = "cloud-config" THEN <<DataDir(n), <<>>>> ELSE <<ChainClaim, <<n>>>>
  BY DEF Home
<1>3. to = j.to
  BY DEF To
<1> HIDE DEF j, to, home
<1>4. CASE Kind(c) = "Backup" \/ Kind(c) = "Snapshot"
  <2>1. to = <<OwnClaim(c), <<>>>>
    BY <1>1, <1>3, <1>4 DEF JobFacts, BackupFacts, SnapshotFacts
  <2>2. to # home
    BY <1>2, <2>1 DEF OwnClaim, DataDir, ChainClaim
  <2>3. Command(c) # "chown"
    BY <1>4, Programs
  <2> QED
    BY <2>2, <2>3 DEF to, home
<1>5. CASE Kind(c) = "Duplicate"
  <2>1. to = Below(Specs[c].claim, Specs[c].path)
    BY <1>1, <1>3, <1>5 DEF JobFacts, BackupFacts
  <2>2. to \notin {<<DataDir(n), <<>>>>, <<ChainClaim, <<n>>>>}
    BY <1>1, <1>5, <2>1 DEF Elsewhere, Kind
  <2>3. Command(c) # "chown"
    BY <1>5, Programs
  <2> QED
    BY <1>2, <2>2, <2>3 DEF to, home
<1>6. CASE Kind(c) \in {"Restore", "Recover"}
  <2>1. to = <<RestoreClaim(method, k), <<>>>>
    BY <1>1, <1>3, <1>6 DEF JobFacts, RestoreFacts, RebuildFacts
  <2>2. method = "cloud-config"
    BY <1>6 DEF JobsKnown
  <2>3. to = <<DataDir(k), <<>>>> /\ home = <<DataDir(n), <<>>>>
    BY <1>2, <2>1, <2>2 DEF RestoreClaim
  <2>4. to # home
    BY <1>1, <2>3 DEF DataDir
  <2>5. Command(c) # "chown"
    BY <1>6, Programs
  <2> QED
    BY <2>4, <2>5 DEF to, home
<1>7. CASE Kind(c) = "Fallback"
  <2>1. to = HomeOf(method, k)
    BY <1>1, <1>3, <1>7 DEF JobFacts, FallbackFacts
  <2>2. to # home
    BY <1>1, <1>2, <2>1 DEF HomeOf, DataDir, ChainClaim
  <2>3. Command(c) # "chown"
    BY <1>7, Programs
  <2> QED
    BY <2>2, <2>3 DEF to, home
<1>8. CASE Kind(c) = "ChangeOwner"
  <2>1. to = IF method = "helm" THEN <<DataDir(k), <<k>>>> ELSE HomeOf(method, k)
    BY <1>1, <1>3, <1>8 DEF JobFacts, ChangeOwnerFacts
  <2>2. CASE method = "cloud-config"
    <3>1. to = <<DataDir(k), <<>>>> /\ home = <<DataDir(n), <<>>>>
      BY <1>2, <2>1, <2>2 DEF HomeOf
    <3>2. to[1] # home[1]
      BY <1>1, <3>1 DEF DataDir
    <3> QED
      BY <3>2 DEF Under, to, home
  <2>3. CASE method # "cloud-config"
    <3>1. to[2] = <<k>> /\ home[2] = <<n>>
      BY <1>2, <2>1, <2>3 DEF HomeOf
    <3>2. ~Seqs!IsPrefix(to[2], home[2])
      BY <1>1, <3>1 DEF Seqs!IsPrefix
    <3>3. to # home
      BY <1>1, <3>1
    <3> QED
      BY <3>2, <3>3 DEF Under, to, home
  <2> QED
    BY <2>2, <2>3
<1>9. Kind(c) \in Kinds
  BY <1>1, Specified DEF Kind
<1> QED
  BY <1>4, <1>5, <1>6, <1>7, <1>8, <1>9 DEF Kinds

\* So a step of a resource leaves the directories of other nodes as they are.
LEMMA Apart ==
  ASSUME Elsewhere, JobsKnown, Typed, NEW c \in DOMAIN at, StepOf(c),
         NEW n \in Nodes \ {Specs[c].node}
  PROVE  store'[Home(n)] = store[Home(n)] /\ Home(n)' = Home(n)
<1> DEFINE p == Home(n)
<1>1. p \in DOMAIN store /\ method' = method /\ DOMAIN store \subseteq DOMAIN store'
  BY Shape DEF JobsKnown
<1>2. p' = p
  BY <1>1 DEF Home
<1>3. CASE Quiet(c)
  <2> HIDE DEF p
  <2>1. After(p) = Read(p)
    BY <1>3 DEF Quiet
  <2>2. store'[p] = store[p]
    BY <1>1, <2>1 DEF After, Read
  <2> QED
    BY <1>2, <2>2 DEF p
<1>4. CASE \E d : Writes(c, d)
  <2> PICK d : Writes(c, d)
    BY <1>4
  <2>1. c \in DOMAIN jobs
    BY DEF Writes, JobsKnown, AtWork
  <2>2. To(c) # p
    BY <2>1, TargetsApart
  <2> HIDE DEF p
  <2>3. store'[p] = store[p]
    BY <1>1, <2>2 DEF Writes, @@, :>
  <2> QED
    BY <1>2, <2>3 DEF p
<1>5. CASE Owns(c)
  <2>1. c \in DOMAIN jobs /\ Command(c) = "chown" /\ Chown(c)
    BY <1>5 DEF Owns, JobsKnown, AtWork
  <2>2. ~Under(c, p)
    BY <2>1, TargetsApart
  <2> HIDE DEF p
  <2>3. store'[p] = store[p]
    BY <1>1, <2>1, <2>2 DEF Chown, Under
  <2> QED
    BY <1>2, <2>3 DEF p
<1> QED
  BY <1>3, <1>4, <1>5, Effects

\* Whatever resources work at the same time, on whatever method, with faults and Jobs
\* that are made again: a step of the program of one (backup, restore, cloud-op or
\* chown) leaves the data of every other node as it is, as long as no Duplicate is
\* written into the directory of another node.
THEOREM NodesKeptApart ==
  ASSUME Elsewhere
  PROVE  Spec => NodesApart
<1>1. ASSUME JobsKnown, Typed, [Next]_vars
      PROVE  \A c \in DOMAIN at : at'[c] # at[c] =>
               \A n \in Nodes \ {Specs[c].node} : store'[Home(n)] = store[Home(n)]
  <2> SUFFICES ASSUME NEW c \in DOMAIN at, at'[c] # at[c], NEW n \in Nodes \ {Specs[c].node}
               PROVE  store'[Home(n)] = store[Home(n)]
    OBVIOUS
  <2>1. StepOf(c)
    BY <1>1, Moved
  <2> QED
    BY <1>1, <2>1, Apart
<1>2. Grounded /\ [Next]_vars =>
        [\A c \in DOMAIN at : at'[c] # at[c] =>
           \A n \in Nodes \ {Specs[c].node} : store'[Home(n)] = store[Home(n)]]_vars
  BY <1>1 DEF Grounded
<1> QED
  BY <1>2, GroundedAlways, PTL DEF NodesApart, Spec
-----------------------------------------------------------------------------
(* One resource at a time works on a node, and while it does the node is   *)
(* down.                                                                   *)

\* Fallbacks of a chain on Helm are of one node.
Single == method = "helm" => OneNode

\* A node has no two resources under way.
Exclusive == \A c, d \in DOMAIN at :
  Specs[c].node = Specs[d].node /\ at[c] \notin Ended /\ at[d] \notin Ended => c = d

\* On Helm only a Fallback finds the claims it needs.
OnHelm == method = "helm" =>
  /\ OneNode
  /\ \A p \in DOMAIN store : \A n \in Nodes : p[1] # DataDir(n)
  /\ \A c \in DOMAIN jobs : Kind(c) = "Fallback"

\* Elsewhere Start brings up the node that was stopped.
OwnReplica == method # "helm" => \A c \in DOMAIN jobs : jobs[c].replicas = {Specs[c].node}

\* A node that a resource has stopped and works on does not run.
StoppedDown == \A c \in DOMAIN at : at[c] \in AtWork /\ Stops(c) => Specs[c].node \notin up

\* There is no consensus data but that of the consensus the node runs.
OwnWal == \A n \in Nodes : store[Home(n)].wal \subseteq WalOf(n)

\* These five together.
Orderly == Exclusive /\ OnHelm /\ OwnReplica /\ StoppedDown /\ OwnWal

\* On no claim of a node is also not in the directory of one.
LEMMA SeparateElsewhere == Separate => Elsewhere
<1> SUFFICES ASSUME Separate, NEW c \in CRs, NEW n \in Nodes
             PROVE  Below(Specs[c].claim, Specs[c].path)
                      \notin {<<DataDir(n), <<>>>>, <<ChainClaim, <<n>>>>}
  BY DEF Elsewhere
<1>1. Below(Specs[c].claim, Specs[c].path)[1] = Specs[c].claim
  BY DEF Below
<1>2. Specs[c].claim # DataDir(n) /\ Below(Specs[c].claim, Specs[c].path) # <<ChainClaim, <<n>>>>
  BY DEF Separate
<1> DEFINE b == Below(Specs[c].claim, Specs[c].path)
<1> HIDE DEF b
<1>3. b # <<DataDir(n), <<>>>>
  BY <1>1, <1>2 DEF b
<1> QED
  BY <1>2, <1>3 DEF b

\* Nodes have a directory each.
LEMMA HomesApart ==
  ASSUME NEW m \in Nodes, NEW n \in Nodes, m # n
  PROVE  Home(m) # Home(n)
  BY DEF Home, DataDir, ChainClaim

\* What a step of a resource adds to the store.
LEMMA NewPlaces ==
  ASSUME JobsKnown, NEW c \in DOMAIN at, StepOf(c), NEW p \in DOMAIN store' \ DOMAIN store
  PROVE  p = <<OwnClaim(c), <<>>>> \/ (c \in DOMAIN jobs /\ p = To(c))
<1>1. ASSUME NEW d, Write(c, d) \/ store' = (To(c) :> d) @@ store
      PROVE  p = To(c)
  BY <1>1 DEF Write, @@, :>
<1>2. CASE Prepare(c)
  BY <1>2 DEF Prepare, Claimed, @@, :>
<1>3. CASE BeginWork(c)
  <2>1. c \in DOMAIN jobs
    BY <1>3 DEF JobsKnown, BeginWork, AtWork
  <2>2. CASE BeginBackup(c)
    BY <1>1, <2>1, <2>2 DEF BeginBackup
  <2>3. CASE BeginRestore(c)
    BY <1>1, <2>1, <2>3 DEF BeginRestore, GiveUp
  <2>4. CASE BeginCloudOp(c)
    BY <1>1, <2>1, <2>4 DEF BeginCloudOp, GiveUp
  <2> QED
    BY <1>3, <2>2, <2>3, <2>4 DEF BeginWork
<1>4. CASE EndWork(c)
  <2>1. c \in DOMAIN jobs
    BY <1>4 DEF JobsKnown, EndWork, AtWork
  <2>2. CASE EndBackup(c)
    BY <1>1, <2>1, <2>2 DEF EndBackup, GiveUp
  <2>3. CASE EndRestore(c)
    BY <1>1, <2>1, <2>3 DEF EndRestore, GiveUp
  <2>4. CASE EndCloudOp(c) /\ Command(c) \in {"fallback", "snapshot", "snapshot-recover"}
    <3>1. CASE Command(c) = "snapshot"
      BY <1>1, <2>1, <2>4, <3>1 DEF EndCloudOp
    <3>2. CASE Command(c) = "fallback"
      BY <1>1, <2>1, <2>4, <3>2 DEF EndCloudOp
    <3>3. CASE Command(c) = "snapshot-recover"
      BY <1>1, <2>1, <2>4, <3>3 DEF EndCloudOp
    <3> QED
      BY <2>4, <3>1, <3>2, <3>3
  <2>5. CASE Chown(c)
    BY <2>5 DEF Chown
  <2> QED
    BY <1>4, <2>2, <2>3, <2>4, <2>5 DEF EndWork
<1>5. CASE Finish(c) \/ Break(c) \/ DeleteJob(c)
  BY <1>5 DEF Finish, Break, DeleteJob
<1> QED
  BY <1>2, <1>3, <1>4, <1>5 DEF StepOf, Program

\* No program adds consensus data.
LEMMA WalShrinks ==
  ASSUME JobsKnown, Typed, NEW c \in DOMAIN at, StepOf(c), NEW p \in DOMAIN store
  PROVE  p \in DOMAIN store' /\ store'[p].wal \subseteq store[p].wal
<1>1. p \in DOMAIN store'
  BY Shape
<1>2. CASE Quiet(c)
  <2>1. After(p) = Read(p)
    BY <1>2 DEF Quiet
  <2> QED
    BY <1>1, <2>1 DEF After, Read
<1>3. CASE \E d : Writes(c, d)
  <2> PICK d : Writes(c, d)
    BY <1>3
  <2>1. store' = (To(c) :> d) @@ store /\ d.wal \subseteq Read(To(c)).wal
    BY DEF Writes
  <2>2. CASE p = To(c)
    BY <2>1, <2>2 DEF @@, :>, Read
  <2>3. CASE p # To(c)
    BY <2>1, <2>3 DEF @@, :>
  <2> QED
    BY <1>1, <2>2, <2>3
<1>4. CASE Owns(c)
  <2>1. c \in DOMAIN jobs /\ Command(c) = "chown" /\ Chown(c)
    BY <1>4 DEF Owns, JobsKnown, AtWork
  <2>2. F(c).uid \in Owners
    BY <2>1, FlagsKnown
  <2> QED
    BY <1>1, <2>1, <2>2, Chowns
<1> QED
  BY <1>2, <1>3, <1>4, Effects

\* In the beginning.
LEMMA OrderlyInit ==
  ASSUME Separate, Init, Single
  PROVE  Orderly
<1>1. DOMAIN at = {} /\ DOMAIN jobs = {}
  <2>1. at = <<>> /\ jobs = <<>>
    BY DEF Init
  <2> QED
    BY <2>1
<1>2. Exclusive /\ OwnReplica /\ StoppedDown
  BY <1>1 DEF Exclusive, OwnReplica, StoppedDown
<1>3. OnHelm
  <2> SUFFICES ASSUME method = "helm", NEW p \in DOMAIN store, NEW n \in Nodes
               PROVE  p[1] # DataDir(n)
    BY <1>1 DEF OnHelm, Single
  <2>1. \/ \E m \in Nodes : p = <<ChainClaim, <<m>>>>
        \/ \E c \in CRs : p = <<Specs[c].claim, <<>>>>
        \/ p = <<ChainClaim, <<>>>>
    BY DEF Init, Home
  <2>2. DataDir(n) # ChainClaim /\ \A c \in CRs : Specs[c].claim # DataDir(n)
    BY DEF Separate
  <2> QED
    BY <2>1, <2>2
<1>4. OwnWal
  <2> SUFFICES ASSUME NEW n \in Nodes PROVE store[Home(n)].wal \subseteq WalOf(n)
    BY DEF OwnWal
  <2> DEFINE p == Home(n)
             m == CHOOSE m \in Nodes : p = Home(m)
             full == [EmptyDir EXCEPT
                       !.chain.of = {[node |-> m, height |-> StartHeight[m]]},
                       !.chain.whole = TRUE, !.chain.owner = StartOwner, !.wal = WalOf(m)]
  <2>1. m \in Nodes /\ p = Home(m)
    <3>1. \E x \in Nodes : p = Home(x)
      OBVIOUS
    <3> QED
      BY <3>1, Zenon
  <2>2. m = n
    BY <2>1, HomesApart
  <2>3. p \in DOMAIN store /\ store[p] = full
    <3>1. p \in {Home(x) : x \in Nodes}
      OBVIOUS
    <3> QED
      BY <3>1, Zenon DEF Init
  <2> DEFINE w == WalOf(m)
             marks == {[node |-> m, height |-> StartHeight[m]]}
  <2>4. full = [EmptyDir EXCEPT !.chain.of = marks, !.chain.whole = TRUE,
                                !.chain.owner = StartOwner, !.wal = w]
    BY Zenon
  <2> HIDE DEF full, m, w, marks
  <2>5. full.wal = w
    BY <2>4 DEF EmptyDir, Nothing
  <2> QED
    BY <2>2, <2>3, <2>5 DEF w
<1> QED
  BY <1>2, <1>3, <1>4 DEF Orderly

\* Submit waits for what is under way on the node.
LEMMA ExclusiveNext ==
  ASSUME JobsKnown, Exclusive, [Next]_vars
  PROVE  Exclusive'
<1>1. CASE UNCHANGED vars
  BY <1>1 DEF vars, Exclusive
<1>2. CASE \E c \in CRs \ DOMAIN at : Submit(c)
  <2> PICK c \in CRs \ DOMAIN at : Submit(c)
    BY <1>2
  <2>1. \A d \in DOMAIN at : Specs[d].node = Specs[c].node => at[d] \in Ended
    BY DEF Submit
  <2> QED
    BY <2>1, Submitted, ZenonT(60) DEF Exclusive
<1>3. CASE \E c \in DOMAIN at : StepOf(c)
  <2> PICK c \in DOMAIN at : StepOf(c)
    BY <1>3
  <2>1. /\ at[c] \notin Ended /\ DOMAIN at' = DOMAIN at
        /\ \A d \in DOMAIN at : d # c => at'[d] = at[d]
    BY Shape DEF Ended, AtWork
  <2> QED
    BY <2>1 DEF Exclusive
<1>4. CASE \E n \in Nodes : Run(n)
  BY <1>4 DEF Run, Exclusive
<1> QED
  BY <1>1, <1>2, <1>3, <1>4 DEF Next, StepOf

\* The Jobs of the other kinds name a claim that is not there.
LEMMA OnHelmNext ==
  ASSUME JobsKnown, OnHelm, [Next]_vars
  PROVE  OnHelm'
<1>1. CASE UNCHANGED vars
  BY <1>1 DEF vars, OnHelm
<1>2. CASE \E c \in CRs \ DOMAIN at : Submit(c)
  BY <1>2, Submitted DEF OnHelm
<1>3. CASE \E c \in DOMAIN at : StepOf(c)
  <2> PICK c \in DOMAIN at : StepOf(c)
    BY <1>3
  <2> SUFFICES ASSUME method = "helm" PROVE OnHelm'
    BY Shape DEF OnHelm
  <2>1. /\ \A p \in DOMAIN store : \A n \in Nodes : p[1] # DataDir(n)
        /\ \A d \in DOMAIN jobs : Kind(d) = "Fallback"
        /\ OneNode
    BY DEF OnHelm
  <2>2. ASSUME NEW p \in DOMAIN store', NEW n \in Nodes
        PROVE  p[1] # DataDir(n)
    <3>1. CASE p = <<OwnClaim(c), <<>>>>
      BY <3>1 DEF OwnClaim, DataDir
    <3>2. CASE c \in DOMAIN jobs /\ p = To(c)
      <4>1. JobFacts(method, c, jobs[c]) /\ Kind(c) = "Fallback"
        BY <2>1, <3>2 DEF JobsKnown
      <4>2. To(c) = Home(Specs[c].node)
        BY <4>1, HomeIs DEF JobFacts, FallbackFacts, To
      <4>3. Specs[c].node \in Nodes
        BY <3>2, Programs
      <4> QED
        BY <2>1, <3>2, <4>2, <4>3 DEF JobsKnown
    <3> QED
      BY <2>1, <2>2, <3>1, <3>2, NewPlaces
  <2>3. \A d \in DOMAIN jobs' : Kind(d) = "Fallback"
    <3>1. CASE Prepare(c)
      <4>1. Kind(c) \notin {"Restore", "Recover"}
        BY <3>1, Prepared
      <4>2. Kind(c) \notin {"Backup", "Duplicate", "Snapshot", "ChangeOwner"}
        <5> SUFFICES ASSUME Kind(c) \in {"Backup", "Duplicate", "Snapshot", "ChangeOwner"}
                     PROVE  FALSE
          OBVIOUS
        <5>1. SourceClaim(method, Specs[c].node) \in Claims \cup {OwnClaim(c)}
          BY <3>1, Prepared
        <5>2. SourceClaim(method, Specs[c].node) = DataDir(Specs[c].node)
          BY DEF SourceClaim
        <5>3. Specs[c].node \in Nodes
          BY Specified DEF JobsKnown
        <5>4. DataDir(Specs[c].node) \in {p[1] : p \in DOMAIN store}
          BY <5>1, <5>2 DEF Claims, DataDir, ConfigMap, OwnClaim
        <5> QED
          BY <2>1, <5>3, <5>4
      <4>3. Kind(c) \in Kinds
        BY Specified DEF JobsKnown, Kind
      <4>4. DOMAIN jobs' = DOMAIN jobs \cup {c}
        BY <3>1, Prepared
      <4> QED
        BY <2>1, <4>1, <4>2, <4>3, <4>4 DEF Kinds
    <3> QED
      BY <2>1, <3>1, Shape
  <2> QED
    BY <2>1, <2>2, <2>3 DEF OnHelm
<1>4. CASE \E n \in Nodes : Run(n)
  <2>1. DOMAIN store' = DOMAIN store /\ jobs' = jobs /\ method' = method
    BY <1>4 DEF Run
  <2> QED
    BY <2>1 DEF OnHelm
<1> QED
  BY <1>1, <1>2, <1>3, <1>4 DEF Next, StepOf

\* Prepare remembers the node it stops.
LEMMA OwnReplicaNext ==
  ASSUME JobsKnown, OwnReplica, [Next]_vars
  PROVE  OwnReplica'
<1>1. CASE UNCHANGED vars
  BY <1>1 DEF vars, OwnReplica
<1>2. CASE \E c \in CRs \ DOMAIN at : Submit(c)
  BY <1>2, Submitted DEF OwnReplica
<1>3. CASE \E c \in DOMAIN at : StepOf(c)
  <2> PICK c \in DOMAIN at : StepOf(c)
    BY <1>3
  <2>1. method' = method
    BY Shape
  <2>2. CASE Prepare(c)
    <3>1. /\ DOMAIN jobs' = DOMAIN jobs \cup {c} /\ jobs'[c].replicas = Remembered(c)
          /\ \A d \in DOMAIN jobs : d # c => jobs'[d] = jobs[d]
      BY <2>2, Prepared
    <3>2. method # "helm" => Remembered(c) = {Specs[c].node}
      BY Specified DEF JobsKnown, Remembered
    <3> QED
      BY <2>1, <3>1, <3>2 DEF OwnReplica
  <2> QED
    BY <2>1, <2>2, Shape DEF OwnReplica
<1>4. CASE \E n \in Nodes : Run(n)
  BY <1>4 DEF Run, OwnReplica
<1> QED
  BY <1>1, <1>2, <1>3, <1>4 DEF Next, StepOf

\* The method never changes.
LEMMA StopsSame ==
  ASSUME method' = method, NEW c
  PROVE  Stops(c)' = Stops(c) /\ \A n : Home(n)' = Home(n)
  BY DEF Stops, S, Home

\* Only the resource at work on a node starts it.
LEMMA StoppedDownNext ==
  ASSUME JobsKnown, Orderly, [Next]_vars
  PROVE  StoppedDown'
<1>1. CASE UNCHANGED vars
  BY <1>1 DEF vars, Orderly, StoppedDown, Stops
<1>2. CASE \E c \in CRs \ DOMAIN at : Submit(c)
  <2>1. "active" \notin AtWork
    BY DEF AtWork
  <2> QED
    BY <1>2, <2>1, Submitted DEF Orderly, StoppedDown, Stops
<1>3. CASE \E c \in DOMAIN at : StepOf(c)
  <2> PICK c \in DOMAIN at : StepOf(c)
    BY <1>3
  <2>1. /\ method' = method /\ DOMAIN at' = DOMAIN at /\ at[c] \in {"active"} \cup AtWork
        /\ \A d \in DOMAIN at : d # c => at'[d] = at[d]
        /\ Prepare(c) \/ at[c] \in AtWork
    BY Shape
  <2>2. c \in CRs /\ S(c).node = Specs[c].node /\ Specs[c].node \in Nodes
    BY Specified DEF JobsKnown
  <2>3. up' = up \/ (Prepare(c) /\ up' \subseteq up) \/ Finish(c)
    <3>1. Prepare(c) => up' \subseteq up
      BY DEF Prepare
    <3>2. Prepare(c) \/ Finish(c) \/ up' = up
      BY DEF StepOf, Program, BeginWork, EndWork, Break, DeleteJob
    <3> QED
      BY <3>1, <3>2
  <2> SUFFICES ASSUME NEW d \in DOMAIN at, at'[d] \in AtWork, Stops(d)
               PROVE  Specs[d].node \notin up'
    BY <2>1, StopsSame DEF StoppedDown
  <2>4. CASE d = c
    <3>1. CASE Prepare(c)
      BY <2>2, <2>4, <3>1 DEF Prepare, Stopped
    <3>2. CASE Finish(c)
      BY <2>4, <3>2 DEF Finish, Move, AtWork
    <3>3. CASE up' = up /\ at[c] \in AtWork
      BY <2>4, <3>3 DEF Orderly, StoppedDown
    <3> QED
      BY <2>1, <2>3, <3>1, <3>2, <3>3
  <2>5. CASE d # c
    <3>1. at[d] \in AtWork /\ Specs[d].node \notin up /\ d \in DOMAIN jobs
      BY <2>1, <2>5 DEF Orderly, StoppedDown, JobsKnown
    <3>2. Specs[d].node # Specs[c].node
      BY <2>1, <2>5, <3>1 DEF Orderly, Exclusive, AtWork, Ended
    <3>3. CASE Finish(c)
      <4>1. c \in DOMAIN jobs
        BY <3>3 DEF Finish, JobsKnown, AtWork
      <4>2. method # "helm"
        <5> SUFFICES ASSUME method = "helm" PROVE FALSE
          OBVIOUS
        <5>1. Kind(c) = "Fallback" /\ Kind(d) = "Fallback" /\ OneNode
          BY <3>1, <4>1 DEF Orderly, OnHelm
        <5> QED
          BY <2>2, <3>1, <3>2, <5>1 DEF OneNode, Kind, JobsKnown
      <4>3. jobs[c].replicas = {Specs[c].node}
        BY <4>1, <4>2 DEF Orderly, OwnReplica
      <4> QED
        BY <3>1, <3>2, <3>3, <4>3 DEF Finish
    <3> QED
      BY <2>3, <3>1, <3>3
  <2> QED
    BY <2>4, <2>5
<1>4. CASE \E n \in Nodes : Run(n)
  BY <1>4 DEF Run, Orderly, StoppedDown, Stops
<1> QED
  BY <1>1, <1>2, <1>3, <1>4 DEF Next, StepOf

\* Programs only take consensus data away; a node adds its own.
LEMMA OwnWalNext ==
  ASSUME JobsKnown, Typed, OwnWal, [Next]_vars
  PROVE  OwnWal'
<1> SUFFICES ASSUME NEW n \in Nodes PROVE store'[Home(n)'].wal \subseteq WalOf(n)
  BY DEF OwnWal
<1>1. Home(n) \in DOMAIN store /\ store[Home(n)].wal \subseteq WalOf(n)
  BY DEF JobsKnown, OwnWal
<1>2. Home(n)' = Home(n)
  <2>1. method' = method
    BY Shape DEF Next, StepOf, vars, Submit, Run
  <2> QED
    BY <2>1, StopsSame
<1>3. CASE store' = store
  BY <1>1, <1>2, <1>3
<1>4. CASE \E c \in DOMAIN at : StepOf(c)
  BY <1>1, <1>2, <1>4, WalShrinks
<1>5. CASE \E m \in Nodes : Run(m)
  <2> PICK m \in Nodes : Run(m)
    BY <1>5
  <2>1. CASE m = n
    <3>1. store'[Home(n)] = Grows(n, store[Home(n)])
      BY <2>1, Runs
    <3>2. Grows(n, store[Home(n)]).wal = store[Home(n)].wal \cup WalOf(n)
      BY Zenon DEF Grows, DirOf
    <3> QED
      BY <1>1, <1>2, <3>1, <3>2
  <2>2. CASE m # n
    <3>1. Home(n) # Home(m)
      BY <2>2, HomesApart
    <3>2. store'[Home(n)] = store[Home(n)]
      BY <1>1, <3>1, Runs
    <3> QED
      BY <1>1, <1>2, <3>2
  <2> QED
    BY <2>1, <2>2
<1> QED
  BY <1>3, <1>4, <1>5 DEF Next, StepOf, vars, Submit

\* All five.
LEMMA OrderlyNext ==
  ASSUME JobsKnown, Typed, Orderly, [Next]_vars
  PROVE  Orderly'
  BY ExclusiveNext, OnHelmNext, OwnReplicaNext, StoppedDownNext, OwnWalNext DEF Orderly

\* While a resource works on the node it has stopped nobody else touches the node's
\* directory.
LEMMA Undisturbed ==
  ASSUME Separate, JobsKnown, Typed, Orderly, [Next]_vars,
         NEW c \in DOMAIN at, at[c] \in AtWork, at'[c] = at[c], Stops(c)
  PROVE  /\ store'[Home(Specs[c].node)] = store[Home(Specs[c].node)]
         /\ method' = method /\ c \in DOMAIN jobs /\ jobs'[c] = jobs[c]
         /\ began'[c].calm => began'[c] = began[c]
         /\ began'[c].chain = began[c].chain /\ began'[c].sound = began[c].sound
<1> DEFINE k == Specs[c].node
<1>1. c \in DOMAIN jobs /\ k \in Nodes /\ c \in DOMAIN began /\ began[c] \in Began /\ k \notin up
  BY Programs DEF JobsKnown, Typed, Orderly, StoppedDown
<1>2. CASE UNCHANGED vars
  BY <1>1, <1>2 DEF vars
<1>3. CASE \E d \in CRs \ DOMAIN at : Submit(d)
  BY <1>1, <1>3, Submitted
<1>4. CASE \E d \in DOMAIN at : StepOf(d)
  <2> PICK d \in DOMAIN at : StepOf(d)
    BY <1>4
  <2>1. d # c /\ at[d] \notin Ended /\ at[c] \notin Ended
    BY Shape DEF AtWork, Ended
  <2>2. Specs[d].node # k
    BY <2>1 DEF Orderly, Exclusive
  <2>3. store'[Home(k)] = store[Home(k)]
    BY <1>1, <2>2, SeparateElsewhere, Apart
  <2>4. jobs'[c] = jobs[c]
    BY <1>1, <2>1, Shape, Prepared
  <2>5. /\ began'[c].calm => began'[c] = began[c]
        /\ began'[c].chain = began[c].chain /\ began'[c].sound = began[c].sound
    <3>1. CASE Prepare(d)
      BY <1>1, <2>1, <3>1, Prepared
    <3>2. CASE Break(d)
      BY <1>1, <2>1, <3>2 DEF Break
    <3>3. CASE began' = Noted(d)
      BY <1>1, <3>3 DEF Noted, Began
    <3>4. CASE began' = began
      BY <3>4
    <3> QED
      BY <3>1, <3>2, <3>3, <3>4, Leaves DEF Typed
  <2> QED
    BY <1>1, <2>3, <2>4, <2>5, Shape
<1>5. CASE \E n \in Nodes : Run(n)
  <2> PICK n \in Nodes : Run(n)
    BY <1>5
  <2>1. n # k
    BY <1>1, Runs
  <2>2. Home(n) # Home(k) /\ Home(k) \in DOMAIN store
    BY <1>1, <2>1, HomesApart DEF JobsKnown
  <2> DEFINE h == Home(k)
  <2> HIDE DEF h
  <2>3. store'[h] = store[h]
    BY <2>2, Runs DEF h
  <2>4. UNCHANGED <<method, jobs, began>>
    BY Runs
  <2> QED
    BY <1>1, <2>3, <2>4 DEF h
<1> QED
  BY <1>2, <1>3, <1>4, <1>5 DEF Next, StepOf

\* What a Write leaves behind.
LEMMA WroteThere ==
  ASSUME NEW c, NEW chain, NEW state, NEW archives, NEW wal,
         Wrote(c, chain, state, archives, wal)
  PROVE  /\ To(c) \in DOMAIN store' /\ store'[To(c)].chain = chain
         /\ store'[To(c)].state = state /\ store'[To(c)].archives = archives
         /\ store'[To(c)].wal = wal /\ store'[To(c)].by = c
<1> DEFINE d == DirOf(chain, state, archives, wal, c)
<1>1. /\ d.chain = chain /\ d.state = state /\ d.archives = archives /\ d.wal = wal
      /\ d.by = c
  BY DEF DirOf
<1>2. store' = (To(c) :> d) @@ store
  BY Zenon DEF Wrote
<1> HIDE DEF d
<1>3. To(c) \in DOMAIN store' /\ store'[To(c)] = d
  BY <1>2 DEF @@, :>
<1> QED
  BY <1>1, <1>3, Zenon

\* The programs that work in the directory of their node.
LEMMA AtHome ==
  ASSUME JobsKnown, NEW c \in DOMAIN jobs, Kind(c) \in {"Restore", "Recover", "Fallback"}
  PROVE  /\ To(c) = Home(Specs[c].node) /\ To(c) \in DOMAIN store
         /\ Read(To(c)) = store[Home(Specs[c].node)]
<1> DEFINE j == jobs[c]
           k == Specs[c].node
<1>1. k \in Nodes /\ JobFacts(method, c, j)
  BY Programs
<1> HIDE DEF j
<1>4. To(c) = Home(k)
  <2>1. CASE Kind(c) = "Fallback"
    <3>1. j.to = HomeOf(method, k)
      BY <1>1, <2>1 DEF JobFacts, FallbackFacts
    <3> QED
      BY <3>1, HomeIs DEF To, j
  <2>2. CASE Kind(c) \in {"Restore", "Recover"}
    <3>1. method = "cloud-config"
      BY <2>2 DEF JobsKnown
    <3>2. j.to = <<RestoreClaim(method, k), <<>>>>
      BY <1>1, <2>2 DEF JobFacts, RestoreFacts, RebuildFacts
    <3> QED
      BY <3>1, <3>2 DEF RestoreClaim, Home, To, j
  <2> QED
    BY <2>1, <2>2
<1> QED
  BY <1>1, <1>4 DEF JobsKnown, Read

-----------------------------------------------------------------------------
(* Consensus data is cleared.                                              *)

\* From the time a Restore has cleaned, or another program has ended.
Cleared == \A c \in DOMAIN at :
  /\ Specs[c].clear /\ Stops(c)
  /\ at[c] = "done" \/ (at[c] = "busy" /\ Command(c) = "restore")
  => store[Home(Specs[c].node)].wal = {}

\* removeConsensusData returns after the first directory it removes; that is enough, as
\* a node runs one consensus.
LEMMA RemovesAll ==
  ASSUME NEW n, NEW wal, wal \subseteq WalOf(n)
  PROVE  removeConsensusData(wal) = {}
  BY DEF WalOf, removeConsensusData

\* A program clears the directory it writes, and nobody brings the data back.
LEMMA ClearedNext ==
  ASSUME Separate, JobsKnown, Typed, Orderly, Cleared, [Next]_vars
  PROVE  Cleared'
<1> SUFFICES ASSUME NEW c \in DOMAIN at', Specs[c].clear, Stops(c)',
                    at'[c] = "done" \/ (at'[c] = "busy" /\ Command(c)' = "restore")
             PROVE  store'[Home(Specs[c].node)'].wal = {}
  BY DEF Cleared
<1>1. c \in DOMAIN at /\ method' = method
  <2>1. CASE \E d \in CRs \ DOMAIN at : Submit(d)
    BY <2>1, Submitted
  <2> QED
    BY <2>1, Shape DEF Next, StepOf, vars, Run
<1>2. Stops(c) /\ Home(Specs[c].node)' = Home(Specs[c].node)
  BY <1>1, StopsSame
<1> DEFINE k == Specs[c].node
           h == Home(k)
<1>3. c \in CRs /\ Kind(c) \in {"Restore", "Recover", "Fallback"}
  BY <1>1, Ruled DEF JobsKnown
<1>4. CASE at'[c] = at[c]
  <2>1. at[c] \in AtWork
    BY <1>4 DEF AtWork
  <2>2. store'[h] = store[h] /\ jobs'[c] = jobs[c]
    BY <1>1, <1>2, <1>4, <2>1, Undisturbed
  <2>3. Command(c)' = Command(c)
    BY <2>2 DEF Command
  <2> QED
    BY <1>1, <1>2, <1>4, <2>2, <2>3 DEF Cleared
<1>5. CASE at'[c] # at[c]
  <2>1. StepOf(c)
    BY <1>1, <1>5, Moved
  <2>2. BeginWork(c) \/ EndWork(c)
    BY <2>1 DEF StepOf, Program, Prepare, Finish, Break, DeleteJob, Move
  <2>3. c \in DOMAIN jobs /\ at[c] \in {"ready", "busy"} /\ jobs' = jobs
    BY <1>1, <2>2 DEF BeginWork, EndWork, JobsKnown, AtWork
  <2>4. To(c) = h /\ Read(To(c)) = store[h]
    BY <1>3, <2>3, AtHome
  <2>5. store[h].wal \subseteq WalOf(k)
    BY <2>3, Programs DEF Orderly, OwnWal
  <2>6. CASE Command(c) = "restore"
    <3>1. F(c).clear
      BY <2>3, <2>6, FlagsKnown
    <3>2. at'[c] # "Failed"
      OBVIOUS
    <3>3. CASE BeginWork(c)
      <4>1. BeginRestore(c) /\ ~Move(c, "Failed")
        BY <1>1, <2>6, <3>2, <3>3 DEF BeginWork, Move
      <4>2. store'[To(c)].wal = removeConsensusData(Read(To(c)).wal)
        BY <3>1, <4>1, RestoreBegins, WroteThere
      <4> QED
        BY <1>2, <2>4, <2>5, <4>2, RemovesAll
    <3>4. CASE EndWork(c)
      <4>1. EndRestore(c) /\ ~Move(c, "Failed") /\ at[c] = "busy"
        BY <1>1, <2>6, <3>2, <3>4 DEF EndWork, Move
      <4>2. store'[To(c)].wal = Read(To(c)).wal
        BY <4>1, RestoreEnds, WroteThere
      <4>3. store[h].wal = {}
        BY <1>1, <1>2, <2>6, <4>1 DEF Cleared
      <4> QED
        BY <1>2, <2>4, <4>2, <4>3
    <3> QED
      BY <2>2, <3>3, <3>4
  <2>7. CASE Command(c) # "restore"
    <3>1. Command(c) \in {"fallback", "snapshot-recover"} /\ F(c).clear
      BY <1>3, <2>3, <2>7, Programs, FlagsKnown
    <3>2. Command(c)' = Command(c)
      BY <2>3 DEF Command
    <3>3. at'[c] = "done"
      BY <2>7, <3>2
    <3>4. ~BeginWork(c)
      BY <1>1, <2>7, <3>1, <3>3 DEF BeginWork, BeginCloudOp, Move, GiveUp
    <3>5. EndCloudOp(c)
      BY <2>2, <3>1, <3>4 DEF EndWork
    <3>6. store'[To(c)].wal = {}
      BY <3>1, <3>5, CloudOpEnds, WroteThere
    <3> QED
      BY <1>2, <2>4, <3>6
  <2> QED
    BY <2>6, <2>7
<1> QED
  BY <1>4, <1>5

\* All of it.
Clearing == JobsKnown /\ Typed /\ Orderly /\ Cleared

\* When a Restore, Recover or BlockHeightFallback that is to delete consensus data
\* becomes Complete, the node it has stopped has none left, whichever consensus it
\* runs and however often the Job was made again: removeConsensusData and the
\* clean-up of cloud-op together.
THEOREM ConsensusIsCleared ==
  ASSUME Separate
  PROVE  Spec /\ Single => ConsensusCleared
<1>1. Init /\ Single => Clearing
  <2>1. Init => Cleared
    <3>1. Init => DOMAIN at = {}
      <4>1. Init => at = <<>>
        BY DEF Init
      <4> QED
        BY <4>1
    <3> QED
      BY <3>1 DEF Cleared
  <2> QED
    BY <2>1, JobsKnownInit, TypedInit, OrderlyInit DEF Clearing
<1>2. Clearing /\ [Next]_vars => Clearing'
  BY JobsKnownNext, TypedNext, OrderlyNext, ClearedNext DEF Clearing
<1>3. Clearing /\ [Next]_vars =>
        [\A c \in DOMAIN at : Completes(c) /\ Stops(c) /\ Specs[c].clear => Left(c).wal = {}]_vars
  <2> SUFFICES ASSUME Clearing, [Next]_vars, NEW c \in DOMAIN at,
                      Completes(c), Stops(c), Specs[c].clear
               PROVE  Left(c).wal = {}
    OBVIOUS
  <2>1. at[c] = "done" /\ store' = store
    BY Completed DEF Completes
  <2> QED
    BY <2>1 DEF Left, Clearing, Cleared
<1> QED
  BY <1>1, <1>2, <1>3, PTL DEF Spec, ConsensusCleared

-----------------------------------------------------------------------------
(* Fallbacks and ChangeOwners do what they are asked for.                  *)

\* What the directory of a node holds while its resource works: b is what it held.
Goes(c, chain, b) ==
  /\ at[c] = "ready" => chain = b
  /\ Kind(c) = "Fallback" /\ at[c] = "busy" =>
       b.whole /\ chain = [of |-> Rewound(b.of, Specs[c].height), whole |-> FALSE, owner |-> 0]
  /\ Kind(c) = "Fallback" /\ at[c] = "done" =>
       b.whole /\ chain = [of |-> Rewound(b.of, Specs[c].height), whole |-> TRUE,
                           owner |-> b.owner]
  /\ Kind(c) = "ChangeOwner" /\ at[c] = "busy" => chain = b
  /\ Kind(c) = "ChangeOwner" /\ at[c] = "done" /\ b # Nothing =>
       chain = [b EXCEPT !.owner = IF Specs[c].uid = 0 THEN 1000 ELSE Specs[c].uid]

\* The same for all that are at work.
Going == \A c \in DOMAIN at : Stops(c) /\ at[c] \in AtWork =>
  Goes(c, store[Home(Specs[c].node)].chain, began[c].chain)

\* Prepare remembers what is there.
LEMMA Remembers ==
  ASSUME JobsKnown, NEW c \in DOMAIN at, Prepare(c)
  PROVE  /\ store'[Home(Specs[c].node)] = store[Home(Specs[c].node)]
         /\ began'[c].chain = store[Home(Specs[c].node)].chain
         /\ began'[c].calm
         /\ began'[c].fresh = (Read(jobs'[c].to).chain = Nothing)
         /\ began'[c].sound = (Kind(c) \in {"Restore", "Recover"} /\ Sound(c, jobs'[c].from))
<1> DEFINE seen == Seen(JobOf(method, c))
           b == [chain |-> ChainOf(Specs[c].node), fresh |-> Read(seen.to).chain = Nothing,
                 sound |-> Kind(c) \in {"Restore", "Recover"} /\ Sound(c, seen.from),
                 calm |-> TRUE]
           j == [seen EXCEPT !.replicas = Remembered(c)]
<1>1. began' = (c :> b) @@ began /\ jobs' = (c :> j) @@ jobs
  BY Zenon DEF Prepare
<1>2. j.to = seen.to /\ j.from = seen.from
  <2>1. \E a1, a2, a3, a4, a5, a6 : seen = [command |-> a1, flags |-> a2, from |-> a3, to |-> a4,
                                            config |-> a5, replicas |-> a6]
    BY Zenon DEF Seen
  <2> HIDE DEF seen
  <2> QED
    BY <2>1
<1>3. Home(Specs[c].node) \in DOMAIN store
  BY Specified DEF JobsKnown
<1>4. ChainOf(Specs[c].node) = store[Home(Specs[c].node)].chain
  BY <1>3 DEF ChainOf, Read
<1>5. store'[Home(Specs[c].node)] = store[Home(Specs[c].node)]
  BY <1>3, ClaimIsNew
<1>6. /\ b.chain = store[Home(Specs[c].node)].chain /\ b.calm
      /\ b.fresh = (Read(j.to).chain = Nothing)
      /\ b.sound = (Kind(c) \in {"Restore", "Recover"} /\ Sound(c, j.from))
  BY <1>2, <1>4
<1> HIDE DEF b, j
<1>7. began'[c] = b /\ jobs'[c] = j
  BY <1>1 DEF @@, :>
<1> QED
  BY <1>5, <1>6, <1>7

\* cloud-op understands the data of its node.
LEMMA Understandable ==
  ASSUME JobsKnown, NEW c \in DOMAIN jobs,
         Kind(c) = "Fallback" \/ method = "cloud-config",
         Command(c) \in {"fallback", "snapshot", "snapshot-recover"}
  PROVE  Understood(c)
<1> DEFINE j == jobs[c]
           n == Specs[c].node
<1>1. JobFacts(method, c, j) /\ Fits(n, F(c))
  BY Programs, FlagsKnown
<1> HIDE DEF j
<1>2. j.config = IF method = "cloud-config" THEN <<ConfigMap(n), <<>>>> ELSE HomeOf(method, n)
  <2>1. CASE Kind(c) = "Fallback"
    BY <1>1, <2>1 DEF JobFacts, FallbackFacts
  <2>2. CASE Kind(c) = "Snapshot" /\ method = "cloud-config"
    BY <1>1, <2>2 DEF JobFacts, SnapshotFacts
  <2>3. CASE Kind(c) = "Restore" /\ Specs[c].snapshot # "" /\ method = "cloud-config"
    BY <1>1, <2>3 DEF JobFacts, RebuildFacts
  <2> QED
    BY <2>1, <2>2, <2>3, Programs
<1> QED
  BY <1>1, <1>2, HomeIs DEF Understood, Fits, j

\* cloud-op takes the node to the height in its two steps.
LEMMA GoingFallback ==
  ASSUME JobsKnown, Typed, Going, NEW c \in DOMAIN at, c \in DOMAIN jobs, Kind(c) = "Fallback",
         Stops(c), at'[c] \in AtWork, BeginWork(c) \/ EndWork(c)
  PROVE  Goes(c, store[Home(Specs[c].node)].chain, began[c].chain)'
<1> DEFINE h == Home(Specs[c].node)
           b == began[c].chain
           height == Specs[c].height
           whole == Understood(c)
<1>1. /\ Command(c) = "fallback" /\ began[c] \in Began /\ F(c).height = height
      /\ To(c) = h /\ Read(To(c)) = store[h] /\ whole
      /\ height \in Nat /\ h \in DOMAIN store /\ h' = h
  <2>1. Command(c) = "fallback" /\ began[c] \in Began
    BY Programs DEF Typed
  <2>2. F(c).height = height /\ height \in Nat
    BY <2>1, FlagsKnown
  <2>3. whole
    BY <2>1, Understandable
  <2>4. method' = method
    BY DEF BeginWork, EndWork
  <2> QED
    BY <2>1, <2>2, <2>3, <2>4, AtHome, StopsSame
<1>2. From(c) = To(c)
  <2>1. FallbackFacts(method, c, jobs[c])
    BY Programs DEF JobFacts
  <2> QED
    BY <2>1 DEF FallbackFacts, From, To
<1>3. Input(c) = store[h].chain /\ b.of \in SUBSET Marks
  BY <1>1, <1>2 DEF Input, Began, Content
<1>4. ASSUME NEW w, NEW owner
      PROVE  Result(c, w, owner) = [of |-> Rewound(store[h].chain.of, height), whole |-> w,
                                    owner |-> owner]
  BY <1>1, <1>3, Zenon DEF Result
<1> HIDE DEF h, height
<1>5. CASE BeginWork(c)
  <2>1. BeginCloudOp(c) /\ ~Move(c, "Failed") /\ at[c] = "ready"
    BY <1>1, <1>5 DEF BeginWork, Move, AtWork
  <2>2. /\ Rewindable(c) /\ at'[c] = "busy"
        /\ store'[To(c)].chain = Result(c, FALSE, 0) /\ began' = Noted(c)
    <3>1. Rewindable(c) /\ Move(c, "busy")
          /\ Wrote(c, Result(c, FALSE, 0), Read(To(c)).state, Read(To(c)).archives,
                   Read(To(c)).wal)
      BY <1>1, <2>1, CloudOpBegins
    <3> QED
      BY <3>1, WroteThere DEF Move, Wrote
  <2>3. store[h].chain = b
    BY <2>1 DEF Going, Goes, AtWork, h
  <2>4. b.whole
    BY <1>3, <2>2, <2>3 DEF Rewindable
  <2>5. began'[c] = began[c]
    BY <2>2 DEF Noted, JobsKnown
  <2>6. store'[h].chain = [of |-> Rewound(b.of, height), whole |-> FALSE, owner |-> 0]
    BY <1>1, <1>4, <2>2, <2>3
  <2> QED
    BY <1>1, <2>2, <2>4, <2>5, <2>6 DEF Goes, h, height
<1>6. CASE EndWork(c)
  <2>1. EndCloudOp(c) /\ at[c] = "busy"
    BY <1>1, <1>6 DEF EndWork
  <2>2. /\ at'[c] = "done" /\ began' = Noted(c)
        /\ store'[To(c)].chain = Result(c, whole, b.owner)
    <3>1. Move(c, "done")
          /\ Wrote(c, Result(c, whole, b.owner), Read(To(c)).state, Read(To(c)).archives,
                   IF F(c).clear THEN {} ELSE Read(To(c)).wal)
      BY <1>1, <2>1, CloudOpEnds
    <3> QED
      BY <3>1, WroteThere DEF Move, Wrote
  <2>3. b.whole /\ store[h].chain.of = Rewound(b.of, height)
    <3> DEFINE chain == store[h].chain
    <3>1. Goes(c, chain, b)
      BY <2>1 DEF Going, AtWork, h
    <3> HIDE DEF chain, b
    <3>2. /\ b.whole
          /\ chain = [of |-> Rewound(b.of, height), whole |-> FALSE, owner |-> 0]
      BY <2>1, <3>1, Zenon DEF Goes, height
    <3>3. b.whole /\ chain.of = Rewound(b.of, height)
      BY <3>2
    <3> QED
      BY <3>3 DEF chain, b
  <2>4. Rewound(store[h].chain.of, height) = Rewound(b.of, height)
    BY <1>1, <1>3, <2>3, Rewinds
  <2>5. began'[c] = began[c]
    BY <2>2 DEF Noted, JobsKnown
  <2>6. store'[h].chain = [of |-> Rewound(b.of, height), whole |-> TRUE, owner |-> b.owner]
    BY <1>1, <1>4, <2>2, <2>4
  <2> QED
    BY <1>1, <2>2, <2>3, <2>5, <2>6 DEF Goes, h, height
<1> QED
  BY <1>5, <1>6

\* chown hands the files over in its second step.
LEMMA GoingChangeOwner ==
  ASSUME JobsKnown, Typed, Orderly, Going, NEW c \in DOMAIN at, c \in DOMAIN jobs,
         Kind(c) = "ChangeOwner", Stops(c), at'[c] \in AtWork, BeginWork(c) \/ EndWork(c)
  PROVE  Goes(c, store[Home(Specs[c].node)].chain, began[c].chain)'
<1> DEFINE h == Home(Specs[c].node)
           b == began[c].chain
           uid == IF Specs[c].uid = 0 THEN 1000 ELSE Specs[c].uid
<1>1. /\ Command(c) = "chown" /\ began[c] \in Began /\ F(c).uid = uid /\ F(c).uid \in Owners
      /\ Specs[c].node \in Nodes /\ h \in DOMAIN store /\ h' = h
  <2>1. Command(c) = "chown" /\ began[c] \in Began /\ Specs[c].node \in Nodes
    BY Programs DEF Typed
  <2>2. method' = method
    BY DEF BeginWork, EndWork
  <2> QED
    BY <2>1, <2>2, FlagsKnown, StopsSame DEF JobsKnown
<1>2. To(c) = h
  <2>1. method # "helm"
    BY DEF Orderly, OnHelm
  <2>2. ChangeOwnerFacts(method, c, jobs[c])
    BY Programs DEF JobFacts
  <2> QED
    BY <2>1, <2>2, HomeIs DEF ChangeOwnerFacts, To
<1>3. Under(c, h)
  BY <1>2 DEF Under, Seqs!IsPrefix, Home
<1> HIDE DEF h, uid
<1>4. CASE BeginWork(c)
  <2>1. at[c] = "ready" /\ at'[c] = "busy" /\ UNCHANGED <<store, began>>
    BY <1>1, <1>4 DEF BeginWork, Move
  <2>2. store[h].chain = b
    BY <2>1 DEF Going, Goes, AtWork, h
  <2> QED
    BY <1>1, <2>1, <2>2 DEF Goes, h
<1>5. CASE EndWork(c)
  <2>1. at[c] = "busy" /\ Chown(c) /\ at'[c] = "done" /\ began' = began
    BY <1>1, <1>5 DEF EndWork, Chown, Move
  <2>2. store[h].chain = b
    BY <2>1 DEF Going, Goes, AtWork, h
  <2>3. b # Nothing => store'[h].chain = [b EXCEPT !.owner = uid]
    BY <1>1, <1>3, <2>1, <2>2, Chowns
  <2> QED
    BY <1>1, <2>1, <2>3 DEF Goes, h, uid
<1> QED
  BY <1>4, <1>5

\* Others leave the directory alone.
LEMMA GoingNext ==
  ASSUME Separate, JobsKnown, Typed, Orderly, Going, [Next]_vars
  PROVE  Going'
<1> SUFFICES ASSUME NEW c \in DOMAIN at', Stops(c)', at'[c] \in AtWork
             PROVE  Goes(c, store[Home(Specs[c].node)].chain, began[c].chain)'
  BY DEF Going
<1>1. c \in DOMAIN at /\ method' = method
  <2>1. CASE \E d \in CRs \ DOMAIN at : Submit(d)
    BY <2>1, Submitted DEF AtWork
  <2> QED
    BY <2>1, Shape DEF Next, StepOf, vars, Run
<1>2. Stops(c) /\ Home(Specs[c].node)' = Home(Specs[c].node)
  BY <1>1, StopsSame
<1>3. CASE at'[c] = at[c]
  <2>1. /\ store'[Home(Specs[c].node)] = store[Home(Specs[c].node)]
        /\ began'[c].chain = began[c].chain
    BY <1>1, <1>2, <1>3, Undisturbed
  <2> QED
    BY <1>1, <1>2, <1>3, <2>1 DEF Going, Goes
<1>4. CASE at'[c] # at[c]
  <2>1. StepOf(c)
    BY <1>1, <1>4, Moved
  <2>2. CASE Prepare(c)
    <3>1. at'[c] = "ready"
      BY <1>1, <2>2 DEF Prepare, Move
    <3> QED
      BY <1>1, <1>2, <2>2, <3>1, Remembers DEF Goes
  <2>3. CASE BeginWork(c) \/ EndWork(c)
    <3>1. c \in DOMAIN jobs
      BY <1>1, <2>3 DEF BeginWork, EndWork, JobsKnown, AtWork
    <3>2. CASE Kind(c) = "Fallback"
      BY <1>1, <1>2, <2>3, <3>1, <3>2, GoingFallback
    <3>3. CASE Kind(c) = "ChangeOwner"
      BY <1>1, <1>2, <2>3, <3>1, <3>3, GoingChangeOwner
    <3>4. CASE Kind(c) \notin {"Fallback", "ChangeOwner"}
      <4>1. at'[c] # "ready"
        BY <1>1, <2>3 DEF BeginWork, EndWork, BeginBackup, BeginRestore, BeginCloudOp, EndBackup,
                          EndRestore, EndCloudOp, Chown, Move, GiveUp
      <4> QED
        BY <3>4, <4>1 DEF Goes
    <3> QED
      BY <3>2, <3>3, <3>4
  <2>4. ~Finish(c) /\ ~Break(c) /\ ~DeleteJob(c)
    BY <1>1 DEF Finish, Break, DeleteJob, Move, AtWork
  <2> QED
    BY <2>1, <2>2, <2>3, <2>4 DEF StepOf, Program
<1> QED
  BY <1>3, <1>4

\* What the following proofs start from.
Working == JobsKnown /\ Typed /\ Orderly /\ Going

\* It holds in every state.
LEMMA WorkingAlways ==
  ASSUME Separate
  PROVE  Spec /\ Single => []Working
<1>1. Init /\ Single => Working
  <2>1. Init => Going
    <3>1. Init => DOMAIN at = {}
      <4>1. Init => at = <<>>
        BY DEF Init
      <4> QED
        BY <4>1
    <3> QED
      BY <3>1 DEF Going
  <2> QED
    BY <2>1, JobsKnownInit, TypedInit, OrderlyInit DEF Working
<1>2. Working /\ [Next]_vars => Working'
  BY JobsKnownNext, TypedNext, OrderlyNext, GoingNext DEF Working
<1> QED
  BY <1>1, <1>2, PTL DEF Spec

\* A Complete BlockHeightFallback has taken its node to the height of its spec and kept
\* the owner of its files, a Complete ChangeOwner has given them to the user of its
\* spec: what the resource asks for reaches the program through setDefaultSpec, the
\* arguments of the Job, the defaults of the flags and the mounts.
THEOREM DoneAsAsked ==
  ASSUME Separate
  PROVE  Spec /\ Single => AsAsked
<1> DEFINE Asked(c) ==
      /\ Completes(c) /\ Stops(c) /\ Kind(c) \in {"Fallback", "ChangeOwner"}
      /\ began[c].chain # Nothing
      => Left(c).chain =
           IF Kind(c) = "Fallback"
           THEN [began[c].chain EXCEPT !.of = Rewound(@, Specs[c].height)]
           ELSE [began[c].chain EXCEPT
                  !.owner = IF Specs[c].uid = 0 THEN 1000 ELSE Specs[c].uid]
<1>1. Working /\ [Next]_vars => [\A c \in DOMAIN at : Asked(c)]_vars
  <2> SUFFICES ASSUME Working, [Next]_vars, NEW c \in DOMAIN at, Completes(c), Stops(c),
                      Kind(c) \in {"Fallback", "ChangeOwner"}, began[c].chain # Nothing
               PROVE  Asked(c)
    OBVIOUS
  <2> DEFINE h == Home(Specs[c].node)
             b == began[c].chain
  <2>1. at[c] = "done" /\ store' = store
    BY Completed DEF Completes
  <2>2. Goes(c, store[h].chain, b)
    BY <2>1 DEF Working, Going, AtWork
  <2>3. b \in Content
    <3>1. c \in DOMAIN began
      BY <2>1 DEF Working, JobsKnown, AtWork
    <3> QED
      BY <3>1 DEF Working, Typed, JobsKnown, Began
  <2>4. [b EXCEPT !.of = Rewound(@, Specs[c].height)]
          = [of |-> Rewound(b.of, Specs[c].height), whole |-> b.whole, owner |-> b.owner]
    BY <2>3, ContentWith, Zenon
  <2>5. b.whole \in BOOLEAN
    BY <2>3 DEF Content
  <2> HIDE DEF h, b
  <2>6. CASE Kind(c) = "Fallback"
    <3>1. b.whole = TRUE
      BY <2>1, <2>2, <2>5, <2>6 DEF Goes
    <3>2. store[h].chain = [of |-> Rewound(b.of, Specs[c].height), whole |-> TRUE,
                            owner |-> b.owner]
      BY <2>1, <2>2, <2>6 DEF Goes
    <3>3. Left(c).chain = [b EXCEPT !.of = Rewound(@, Specs[c].height)]
      BY <2>1, <2>4, <3>1, <3>2 DEF Left, h
    <3> QED
      BY <2>6, <3>3 DEF b
  <2>7. CASE Kind(c) = "ChangeOwner"
    BY <2>1, <2>2, <2>7 DEF Goes, Left, h, b
  <2> QED
    BY <2>6, <2>7
<1> QED
  BY <1>1, WorkingAlways, PTL DEF Spec, AsAsked

-----------------------------------------------------------------------------
(* A Recover that checks its archive is atomic.                            *)

\* What has been reported, and what a Recover waits for.
Reports ==
  /\ \A c \in DOMAIN report : report[c].closed /\ Kind(c) = "Duplicate" /\ Specs[c].pack
  /\ \A c \in DOMAIN at : Specs[c].md5 => CopyOf[c] \in DOMAIN report

\* The directory of its node, as long as nobody else has written the archive.
Checks(c, chain, stored, r) ==
  /\ at[c] = "busy" => stored = r /\ chain = Torn(Unpacked(r))
  /\ at[c] = "done" => chain = Unpacked(r)

\* The same for all of them.
Checked == \A c \in DOMAIN at :
  Specs[c].md5 /\ Stops(c) /\ at[c] \in AtWork /\ began[c].calm =>
    Checks(c, store[Home(Specs[c].node)].chain, Stored(c), report[CopyOf[c]])

\* cp -a on nothing, and again on what it left half-way.
LEMMA Merges ==
  ASSUME NEW x \in Content
  PROVE  /\ Merge(Nothing, x) = x /\ Merge(Torn(x), x) = x
         /\ Merge(Nothing, Torn(x)) = Torn(x)
         /\ ~x.whole => Torn(x) = x
<1>1. /\ x = [of |-> x.of, whole |-> x.whole, owner |-> x.owner] /\ x.whole \in BOOLEAN
      /\ Torn(x) = [of |-> x.of, whole |-> FALSE, owner |-> x.owner] /\ Torn(x) \in Content
      /\ Nothing \in Content
  BY Contents, Empties DEF Content
<1>2. ASSUME NEW y \in Content
      PROVE  Merge(Nothing, y) = y
  <2>1. /\ Merge(Nothing, y) = IF y = Nothing THEN Nothing
              ELSE [of |-> y.of \cup Nothing.of, whole |-> y.whole, owner |-> y.owner]
        /\ y = [of |-> y.of, whole |-> y.whole, owner |-> y.owner]
    BY <1>1, Contents, Empties, ZenonT(60) DEF Content
  <2>2. Nothing.of = {}
    BY DEF Nothing
  <2> QED
    BY <2>1, <2>2
<1>3. Merge(Torn(x), x) = x
  <2>1. Merge(Torn(x), x) = IF x = Nothing THEN Torn(x)
              ELSE [of |-> x.of \cup Torn(x).of, whole |-> x.whole, owner |-> x.owner]
    BY <1>1, Contents, Empties
  <2>2. Torn(x).of = x.of
    BY <1>1
  <2>3. x = Nothing => Torn(x) = x
    BY <1>1 DEF Nothing
  <2> QED
    BY <1>1, <2>1, <2>2, <2>3
<1> QED
  BY <1>1, <1>2, <1>3

\* What a Restore or Recover reads is not the directory of a node.
LEMMA SourceElsewhere ==
  ASSUME Separate, JobsKnown, NEW c \in DOMAIN jobs, Kind(c) \in {"Restore", "Recover"}
  PROVE  method = "cloud-config" /\ \A n \in Nodes : From(c)[1] # DataDir(n)
<1> DEFINE j == jobs[c]
<1>1. c \in CRs /\ JobFacts(method, c, j) /\ method = "cloud-config"
  BY DEF JobsKnown
<1>2. j.from \in {<<OwnClaim(Specs[c].backup), <<>>>>, <<OwnClaim(Specs[c].snapshot), <<>>>>,
                  Below(Specs[c].claim, Specs[c].path)}
  BY <1>1 DEF JobFacts, RestoreFacts, RebuildFacts
<1>3. From(c) = j.from
  BY DEF From
<1> HIDE DEF j
<1>4. \A n \in Nodes : Specs[c].claim # DataDir(n)
  BY <1>1 DEF Separate
<1> QED
  BY <1>1, <1>2, <1>3, <1>4 DEF OwnClaim, DataDir, Below

\* A place that is not on the claim of a node changes only when it is written to.
LEMMA PlaceKept ==
  ASSUME JobsKnown, Typed, [Next]_vars, method = "cloud-config",
         NEW p, \A n \in Nodes : p[1] # DataDir(n),
         \A d \in DOMAIN at : \A e : StepOf(d) /\ Writes(d, e) => To(d) # p
  PROVE  After(p) = Read(p)
<1>1. CASE store' = store
  BY <1>1 DEF After, Read
<1>2. CASE \E d \in DOMAIN at : StepOf(d)
  <2> PICK d \in DOMAIN at : StepOf(d)
    BY <1>2
  <2>1. CASE Quiet(d)
    BY <2>1 DEF Quiet
  <2>2. CASE \E e : Writes(d, e)
    <3> PICK e : Writes(d, e)
      BY <2>2
    <3>1. store' = (To(d) :> e) @@ store /\ To(d) # p
      BY DEF Writes
    <3> QED
      BY <3>1 DEF After, Read, @@, :>
  <2>3. CASE Owns(d)
    <3>1. d \in DOMAIN jobs /\ Kind(d) = "ChangeOwner" /\ Chown(d) /\ Specs[d].node \in Nodes
      BY <2>3, Programs DEF Owns, JobsKnown, AtWork
    <3>2. ChangeOwnerFacts(method, d, jobs[d])
      BY <3>1, Programs DEF JobFacts
    <3>3. To(d) = <<DataDir(Specs[d].node), <<>>>>
      BY <3>2 DEF ChangeOwnerFacts, HomeOf, To
    <3>4. ~Under(d, p)
      BY <3>1, <3>3 DEF Under
    <3> QED
      BY <3>1, <3>4 DEF Chown, Under, After, Read
  <2> QED
    BY <2>1, <2>2, <2>3, Effects
<1>3. CASE \E n \in Nodes : Run(n)
  <2> PICK n \in Nodes : Run(n)
    BY <1>3
  <2>1. Home(n) = <<DataDir(n), <<>>>>
    BY DEF Home
  <2>2. p # Home(n)
    BY <2>1
  <2>3. DOMAIN store' = DOMAIN store /\ \A q \in DOMAIN store : q # Home(n) => store'[q] = store[q]
    BY Runs
  <2> QED
    BY <2>2, <2>3 DEF After, Read
<1> QED
  BY <1>1, <1>2, <1>3 DEF Next, StepOf, vars, Submit

\* While a resource is alone with what it reads nobody changes it.
LEMMA SourceKept ==
  ASSUME Separate, JobsKnown, Typed, [Next]_vars, NEW c \in DOMAIN at, at[c] \in AtWork,
         at'[c] = at[c], began'[c].calm, Kind(c) \in {"Restore", "Recover"}
  PROVE  After(From(c)) = Read(From(c))
<1>1. c \in DOMAIN jobs /\ c \in DOMAIN began /\ began[c] \in Began
  BY DEF JobsKnown, Typed
<1>2. method = "cloud-config" /\ \A n \in Nodes : From(c)[1] # DataDir(n)
  BY <1>1, SourceElsewhere
<1>3. ASSUME NEW d \in DOMAIN at, NEW e, StepOf(d), Writes(d, e)
      PROVE  To(d) # From(c)
  <2>1. d # c
    BY <1>3, Shape
  <2>2. began' = Noted(d)
    BY <1>3 DEF Writes
  <2> QED
    BY <1>1, <2>1, <2>2 DEF Noted, Began
<1> DEFINE p == From(c)
<1> HIDE DEF p
<1>4. After(p) = Read(p)
  BY <1>2, <1>3, PlaceKept DEF p
<1> QED
  BY <1>4 DEF p

\* The report a Recover goes by comes with the archive it reads.
LEMMA ReportKept ==
  ASSUME SameCopy, JobsKnown, Typed, Reports, [Next]_vars, NEW c \in DOMAIN at,
         at[c] \in AtWork, at'[c] = at[c], began'[c].calm, Specs[c].md5
  PROVE  report'[CopyOf[c]] = report[CopyOf[c]]
<1> DEFINE x == CopyOf[c]
<1>1. /\ c \in CRs /\ c \in DOMAIN jobs /\ c \in DOMAIN began /\ began[c] \in Began
      /\ Kind(c) = "Recover" /\ x \in DOMAIN report /\ x \in DOMAIN jobs /\ x \in CRs
      /\ Kind(x) = "Duplicate"
  BY Ruled DEF JobsKnown, Typed, Reports
<1>2. CASE report' = report
  BY <1>2
<1>3. CASE \E d \in DOMAIN at : StepOf(d)
  <2> PICK d \in DOMAIN at : StepOf(d)
    BY <1>3
  <2>1. d # c
    BY Shape
  <2>2. CASE at[d] = "busy" /\ Command(d) = "backup" /\ EndBackup(d) /\ report' # report
    <3> DEFINE a == Packing(d, Read(To(d)).archives[F(d).output].of, TRUE)
    <3>1. report' = (d :> a) @@ report /\ began' = Noted(d)
      BY <2>2, BackupEnds, Zenon DEF Wrote
    <3>2. To(d) # From(c)
      BY <1>1, <2>1, <3>1 DEF Noted, Began
    <3>3. From(c) = Below(Specs[c].claim, Specs[c].path)
      <4>1. RestoreFacts(method, c, jobs[c])
        BY <1>1 DEF JobsKnown, JobFacts
      <4> QED
        BY <1>1, <4>1 DEF RestoreFacts, From
    <3>4. To(x) = Below(Specs[x].claim, Specs[x].path)
      <4>1. BackupFacts(method, x, jobs[x])
        BY <1>1 DEF JobsKnown, JobFacts
      <4> QED
        BY <1>1, <4>1 DEF BackupFacts, To
    <3>5. Specs[x].claim = Specs[c].claim /\ Specs[x].path = Specs[c].path
      BY <1>1 DEF SameCopy, Kind
    <3>6. x # d
      BY <3>2, <3>3, <3>4, <3>5
    <3> HIDE DEF a
    <3> QED
      BY <1>1, <3>1, <3>6 DEF @@, :>
  <2> QED
    BY <1>2, <2>2, Leaves DEF Typed
<1> QED
  BY <1>2, <1>3 DEF Next, StepOf, vars, Submit, Run

\* A Duplicate reports when its archive is closed; Submit waits for the report.
LEMMA ReportsNext ==
  ASSUME JobsKnown, Typed, Reports, [Next]_vars
  PROVE  Reports'
<1>1. CASE UNCHANGED vars
  BY <1>1 DEF vars, Reports
<1>2. CASE \E c \in CRs \ DOMAIN at : Submit(c)
  <2> PICK c \in CRs \ DOMAIN at : Submit(c)
    BY <1>2
  <2>1. Specs[c].md5 => CopyOf[c] \in DOMAIN report
    BY DEF Submit
  <2> QED
    BY <2>1, Submitted DEF Reports
<1>3. CASE \E c \in DOMAIN at : StepOf(c)
  <2> PICK c \in DOMAIN at : StepOf(c)
    BY <1>3
  <2>1. DOMAIN at' = DOMAIN at
    BY Shape
  <2>2. CASE report' = report
    BY <2>1, <2>2 DEF Reports
  <2>3. CASE at[c] = "busy" /\ Command(c) = "backup" /\ EndBackup(c) /\ report' # report
    <3> DEFINE a == Packing(c, Read(To(c)).archives[F(c).output].of, TRUE)
    <3>1. report' = (c :> a) @@ report /\ F(c).compress
      BY <2>3, BackupEnds, Zenon
    <3>2. a.closed
      BY DEF Packing
    <3>3. c \in DOMAIN jobs
      BY <2>3 DEF JobsKnown, AtWork
    <3>4. Kind(c) = "Duplicate" /\ Specs[c].pack
      BY <2>3, <3>1, <3>3, FlagsKnown
    <3> HIDE DEF a
    <3> QED
      BY <2>1, <3>1, <3>2, <3>4 DEF Reports, @@, :>
  <2> QED
    BY <2>2, <2>3, Leaves DEF Typed
<1>4. CASE \E n \in Nodes : Run(n)
  BY <1>4 DEF Run, Reports
<1> QED
  BY <1>1, <1>2, <1>3, <1>4 DEF Next, StepOf

\* A Recover that carries a checksum, and what it makes of the archive it reads.
LEMMA CheckedFacts ==
  ASSUME Separate, JobsKnown, Typed, NEW c \in DOMAIN jobs, Specs[c].md5
  PROVE  /\ Kind(c) = "Recover" /\ Command(c) = "restore" /\ F(c).decompress /\ F(c).md5
         /\ To(c) = Home(Specs[c].node) /\ Read(To(c)) = store[Home(Specs[c].node)]
         /\ From(c) # To(c) /\ Restored(c) = Unpacked(Stored(c)) /\ Restored(c) \in Content
         /\ began[c] \in Began
<1>1. Kind(c) = "Recover" /\ Specs[c].pack /\ c \in CRs
  BY Ruled DEF JobsKnown
<1>2. Command(c) = "restore" /\ Specs[c].node \in Nodes
  BY <1>1, Programs
<1>3. F(c).decompress /\ F(c).md5
  BY <1>1, <1>2, FlagsKnown
<1>4. To(c) = Home(Specs[c].node) /\ Read(To(c)) = store[Home(Specs[c].node)]
  BY <1>1, AtHome
<1>5. From(c) # To(c)
  <2>1. method = "cloud-config" /\ From(c)[1] # DataDir(Specs[c].node)
    BY <1>1, <1>2, SourceElsewhere
  <2>2. To(c) = <<DataDir(Specs[c].node), <<>>>>
    BY <1>4, <2>1 DEF Home
  <2> DEFINE p == From(c)
  <2> HIDE DEF p
  <2>3. p # To(c)
    BY <2>1, <2>2 DEF p
  <2> QED
    BY <2>3 DEF p
<1>6. Restored(c) = Unpacked(Stored(c))
  BY <1>3 DEF Restored
<1> QED
  BY <1>1, <1>2, <1>3, <1>4, <1>5, <1>6, Reading

\* The archive after a step that leaves the place it lies at alone.
LEMMA StoredSame ==
  ASSUME NEW c, jobs'[c] = jobs[c], After(From(c)) = Read(From(c))
  PROVE  Stored(c)' = Stored(c)
<1>1. From(c)' = From(c) /\ F(c)' = F(c)
  BY DEF From, F
<1>2. Read(From(c))' = After(From(c))
  BY <1>1 DEF Read, After
<1> QED
  BY <1>1, <1>2, Zenon DEF Stored

\* Its own steps: the checksum, then the files of that archive.
LEMMA CheckedStep ==
  ASSUME Separate, JobsKnown, Typed, Checked, NEW c \in DOMAIN at, c \in DOMAIN jobs,
         Specs[c].md5, Stops(c), BeginWork(c) \/ EndWork(c), at'[c] \in AtWork, began'[c].calm
  PROVE  Checks(c, store[Home(Specs[c].node)].chain, Stored(c), report[CopyOf[c]])'
<1> DEFINE h == Home(Specs[c].node)
           r == report[CopyOf[c]]
           stored == Stored(c)
           new == Restored(c)
<1>1. /\ Command(c) = "restore" /\ F(c).decompress /\ F(c).md5 /\ To(c) = h
      /\ Read(To(c)) = store[h] /\ From(c) # To(c) /\ new = Unpacked(stored)
      /\ new \in Content /\ began[c] \in Began
  BY CheckedFacts
<1>2. /\ jobs' = jobs /\ report' = report /\ h' = h
  <2>1. method' = method /\ jobs' = jobs
    BY DEF BeginWork, EndWork
  <2>2. report' = report
    BY <1>1 DEF BeginWork, EndWork
  <2> QED
    BY <2>1, <2>2, StopsSame
<1>3. ASSUME began' = Noted(c), store' = (To(c) :> store'[To(c)]) @@ store
      PROVE  began'[c] = began[c] /\ Stored(c)' = stored
  <2>1. began'[c] = began[c]
    BY <1>3 DEF Noted, JobsKnown
  <2>2. After(From(c)) = Read(From(c))
    BY <1>1, <1>3 DEF After, Read, @@, :>
  <2> QED
    BY <1>2, <2>1, <2>2, StoredSame
<1>4. ASSUME NEW chain, NEW state, NEW archives, NEW wal, Wrote(c, chain, state, archives, wal)
      PROVE  began' = Noted(c) /\ store' = (To(c) :> store'[To(c)]) @@ store
  BY <1>4 DEF Wrote, @@, :>
<1>5. CASE BeginWork(c)
  <2>1. BeginRestore(c) /\ ~Move(c, "Failed") /\ at[c] = "ready"
    BY <1>1, <1>5 DEF BeginWork, Move, AtWork
  <2>2. /\ ~ChecksumFails(c) /\ at'[c] = "busy"
        /\ store'[h].chain = Merge(Nothing, Torn(new))
        /\ began' = Noted(c) /\ store' = (To(c) :> store'[To(c)]) @@ store
    BY <1>1, <1>4, <2>1, RestoreBegins, WroteThere DEF Move
  <2>3. stored = r
    BY <1>1, <2>2 DEF ChecksumFails
  <2>4. store'[h].chain = Torn(new)
    BY <1>1, <2>2, Merges
  <2> QED
    BY <1>1, <1>2, <1>3, <2>2, <2>3, <2>4 DEF Checks
<1>6. CASE EndWork(c)
  <2>1. EndRestore(c) /\ ~Move(c, "Failed") /\ at[c] = "busy"
    BY <1>1, <1>6 DEF EndWork, Move, AtWork
  <2>2. /\ at'[c] = "done"
        /\ store'[h].chain = Merge(store[h].chain, new)
        /\ began' = Noted(c) /\ store' = (To(c) :> store'[To(c)]) @@ store
    BY <1>1, <1>4, <2>1, RestoreEnds, WroteThere DEF Move
  <2>3. stored = r /\ store[h].chain = Torn(Unpacked(r))
    BY <1>3, <2>1, <2>2 DEF Checked, Checks, AtWork
  <2>4. store'[h].chain = new
    BY <1>1, <2>2, <2>3, Merges
  <2> QED
    BY <1>1, <1>2, <2>2, <2>3, <2>4 DEF Checks
<1> QED
  BY <1>5, <1>6

\* Others leave its node, the archive and the report alone.
LEMMA CheckedNext ==
  ASSUME Separate, SameCopy, JobsKnown, Typed, Orderly, Reports, Checked, [Next]_vars
  PROVE  Checked'
<1> SUFFICES ASSUME NEW c \in DOMAIN at', Specs[c].md5, Stops(c)', at'[c] \in AtWork,
                    began'[c].calm
             PROVE  Checks(c, store[Home(Specs[c].node)].chain, Stored(c), report[CopyOf[c]])'
  BY DEF Checked
<1>1. c \in DOMAIN at /\ method' = method
  <2>1. CASE \E d \in CRs \ DOMAIN at : Submit(d)
    BY <2>1, Submitted DEF AtWork
  <2> QED
    BY <2>1, Shape DEF Next, StepOf, vars, Run
<1>2. Stops(c) /\ Home(Specs[c].node)' = Home(Specs[c].node)
  BY <1>1, StopsSame
<1>3. CASE at'[c] = at[c]
  <2>1. /\ store'[Home(Specs[c].node)] = store[Home(Specs[c].node)]
        /\ jobs'[c] = jobs[c] /\ began'[c] = began[c] /\ c \in DOMAIN jobs
    BY <1>1, <1>2, <1>3, Undisturbed
  <2>2. Kind(c) = "Recover"
    BY <1>1, Ruled DEF JobsKnown
  <2>3. Stored(c)' = Stored(c)
    BY <1>1, <1>3, <2>1, <2>2, SourceKept, StoredSame
  <2>4. report'[CopyOf[c]] = report[CopyOf[c]]
    BY <1>1, <1>3, ReportKept
  <2>5. Checks(c, store[Home(Specs[c].node)].chain, Stored(c), report[CopyOf[c]])
    BY <1>1, <1>2, <1>3, <2>1 DEF Checked
  <2> QED
    BY <1>2, <1>3, <2>1, <2>3, <2>4, <2>5 DEF Checks
<1>4. CASE at'[c] # at[c]
  <2>1. StepOf(c)
    BY <1>1, <1>4, Moved
  <2>2. CASE Prepare(c)
    BY <1>1, <2>2 DEF Prepare, Move, Checks
  <2>3. CASE BeginWork(c) \/ EndWork(c)
    <3>1. c \in DOMAIN jobs
      BY <1>1, <2>3 DEF BeginWork, EndWork, JobsKnown, AtWork
    <3> QED
      BY <1>1, <1>2, <2>3, <3>1, CheckedStep
  <2>4. ~Finish(c) /\ ~Break(c) /\ ~DeleteJob(c)
    BY <1>1 DEF Finish, Break, DeleteJob, Move, AtWork
  <2> QED
    BY <2>1, <2>2, <2>3, <2>4 DEF StepOf, Program
<1> QED
  BY <1>3, <1>4

\* All of it.
Checking == Working /\ Reports /\ Checked

\* A step that ends a Recover with a checksum.
LEMMA CheckedEnds ==
  ASSUME Separate, Checking, [Next]_vars, NEW c \in DOMAIN at, Completes(c) \/ Fails(c),
         Specs[c].md5, Stops(c), began'[c].calm
  PROVE  Left(c).chain \in {began[c].chain, Unpacked(report[CopyOf[c]])}
<1> DEFINE h == Home(Specs[c].node)
           r == report[CopyOf[c]]
<1>1. JobsKnown /\ Typed /\ Orderly /\ Going /\ Reports /\ Checked
  BY DEF Checking, Working
<1>2. r \in Archive /\ r.closed /\ Unpacked(r) \in Content
  BY <1>1, Contents, Empties DEF Reports, Typed
<1>3. CASE Completes(c)
  <2>1. at[c] = "done" /\ store' = store /\ Finish(c)
    BY <1>3, Completed DEF Completes
  <2>2. began' = began
    BY <2>1 DEF Finish
  <2>3. store[h].chain = Unpacked(r)
    BY <1>1, <2>1, <2>2 DEF Checked, Checks, AtWork
  <2> QED
    BY <2>1, <2>3 DEF Left
<1>4. CASE Fails(c)
  <2>1. StepOf(c) /\ at'[c] = "Failed"
    BY <1>4, Moved DEF Fails
  <2>2. ~Prepare(c) /\ ~Finish(c) /\ ~DeleteJob(c)
    BY <2>1 DEF Prepare, Finish, DeleteJob, Move
  <2>3. CASE Break(c)
    <3>1. c \in DOMAIN began
      BY <1>1, <2>3 DEF Break, JobsKnown
    <3>2. began[c] \in Began
      BY <1>1, <3>1 DEF Typed, JobsKnown
    <3> QED
      BY <2>3, <3>1, <3>2 DEF Break, Began
  <2>4. CASE BeginWork(c)
    <3>1. c \in DOMAIN jobs /\ at[c] = "ready"
      BY <1>1, <2>4 DEF BeginWork, JobsKnown, AtWork
    <3>2. Command(c) = "restore"
      BY <1>1, <3>1, CheckedFacts
    <3>3. BeginRestore(c) /\ ~Move(c, "busy")
      BY <2>1, <2>4, <3>2 DEF BeginWork, Move
    <3>4. store' = store
      BY <1>1, <3>3, RestoreBegins
    <3>5. store[h].chain = began[c].chain
      BY <1>1, <3>1 DEF Going, Goes, AtWork
    <3> QED
      BY <3>4, <3>5 DEF Left
  <2>5. CASE EndWork(c)
    <3>1. c \in DOMAIN jobs /\ at[c] = "busy"
      BY <1>1, <2>5 DEF EndWork, JobsKnown, AtWork
    <3>2. /\ Command(c) = "restore" /\ Restored(c) = Unpacked(Stored(c))
      BY <1>1, <3>1, CheckedFacts
    <3>3. EndRestore(c) /\ ~Move(c, "done")
      BY <2>1, <2>5, <3>2 DEF EndWork, Move
    <3>4. /\ ~Restored(c).whole \/ ~Stored(c).closed
          /\ UNCHANGED <<store, began>>
      BY <1>1, <3>3, RestoreEnds
    <3>5. Stored(c) = r /\ store[h].chain = Torn(Unpacked(r))
      BY <1>1, <3>1, <3>4 DEF Checked, Checks, AtWork
    <3>6. Torn(Unpacked(r)) = Unpacked(r)
      BY <1>2, <3>2, <3>4, <3>5, Merges
    <3> QED
      BY <3>4, <3>5, <3>6 DEF Left
  <2> QED
    BY <2>1, <2>2, <2>3, <2>4, <2>5 DEF StepOf, Program
<1> QED
  BY <1>3, <1>4

\* A Recover that carries the checksum of a Duplicate is atomic: when it becomes
\* Complete or Failed without a fault, and without another writer at the archive
\* while it was at work, its node has what it had before or what is in the archive
\* the Duplicate reported, although the file may have been overwritten or left
\* half-written since.
THEOREM CheckedAtomic ==
  ASSUME Separate, SameCopy
  PROVE  Spec /\ Single => CheckedIsAtomic
<1>1. Init => Reports /\ Checked
  <2>1. Init => DOMAIN at = {} /\ DOMAIN report = {}
    <3>1. Init => at = <<>> /\ report = <<>>
      BY DEF Init
    <3> QED
      BY <3>1
  <2> QED
    BY <2>1 DEF Reports, Checked
<1>2. Working /\ Reports /\ Checked /\ [Next]_vars => Reports' /\ Checked'
  BY ReportsNext, CheckedNext DEF Working
<1>3. Working /\ Reports /\ Checked /\ [Next]_vars =>
        [\A c \in DOMAIN at :
           /\ Completes(c) \/ Fails(c)
           /\ Specs[c].md5 /\ Stops(c) /\ began'[c].calm
           => Left(c).chain \in {began[c].chain, Unpacked(report[CopyOf[c]])}]_vars
  BY CheckedEnds DEF Checking
<1> QED
  BY <1>1, <1>2, <1>3, WorkingAlways, PTL DEF Spec, CheckedIsAtomic

-----------------------------------------------------------------------------
(* What is restored is what was saved.                                     *)

\* What can be brought back is a copy of one of these kinds.
CopyKinds == {"Backup", "Snapshot", "Duplicate"}

\* Whoever last wrote a directory works there.
By == \A p \in DOMAIN store :
  store[p].by # "" => store[p].by \in DOMAIN jobs /\ p = jobs[store[p].by].to

\* What lies at the place of a copy while it is made, ...
Saves(s, x, d, b) ==
  /\ s = "ready" /\ Kind(x) # "Snapshot" /\ ~Specs[x].pack => d.chain = Nothing
  /\ s = "busy" /\ Kind(x) # "Snapshot" =>
       IF Specs[x].pack THEN d.archives[Named(x)].of = b.of ELSE d.chain = Torn(b)

\* The source is still what it was, and the copy grows, ...
Saving == method = "cloud-config" => \A x \in DOMAIN at :
  at[x] \in AtWork /\ Kind(x) \in CopyKinds /\ Stops(x) =>
    /\ store[Home(Specs[x].node)].chain = began[x].chain
    /\ began[x].calm /\ (began[x].fresh \/ Specs[x].pack) =>
         Saves(at[x], x, Read(To(x)), began[x].chain)

\* ... and when it is there.
Holds(x, d, b) ==
  /\ Kind(x) = "Snapshot" =>
       d.state = [of |-> Rewound(b.of, Specs[x].height), whole |-> TRUE, owner |-> 0]
  /\ Kind(x) # "Snapshot" /\ Specs[x].pack =>
       /\ Named(x) \in DOMAIN d.archives
       /\ d.archives[Named(x)] = [of |-> b.of, whole |-> b.whole, closed |-> TRUE]
  /\ Kind(x) # "Snapshot" /\ ~Specs[x].pack => d.chain = b

\* It holds as long as the copy carries the name of the resource.
Saved == method = "cloud-config" => \A x \in DOMAIN at :
  /\ at[x] \in {"done", "Complete"} /\ Kind(x) \in CopyKinds /\ Stops(x)
  /\ began[x].calm /\ (began[x].fresh \/ Specs[x].pack) /\ Read(To(x)).by = x
  => Holds(x, Read(To(x)), began[x].chain)

\* How far it has been brought back: e is what is expected.
Brings(s, command, chain, e) ==
  /\ s = "busy" /\ command = "restore" => chain = Torn(e)
  /\ s = "done" => chain = e

\* The copy stays sound while the program works.
Bringing == \A c \in DOMAIN at :
  at[c] \in AtWork /\ Stops(c) /\ began[c].sound /\ began[c].calm =>
    /\ Kind(c) \in {"Restore", "Recover"} /\ Sound(c, From(c))
    /\ Brings(at[c], Command(c), store[Home(Specs[c].node)].chain, Expected(c))

\* The place of a resource is the same for every Job of it.
LEMMA SamePlace ==
  ASSUME NEW m \in Methods, NEW c \in CRs, NEW i, NEW j, JobFacts(m, c, i), JobFacts(m, c, j)
  PROVE  i.to = j.to
<1>1. Kind(c) \in Kinds
  BY Specified DEF Kind
<1>2. CASE Kind(c) \in {"Backup", "Duplicate"}
  BY <1>2 DEF JobFacts, BackupFacts
<1>3. CASE Kind(c) = "Snapshot"
  BY <1>3 DEF JobFacts, SnapshotFacts
<1>4. CASE Kind(c) \in {"Restore", "Recover"}
  <2>1. i.to = <<RestoreClaim(m, Specs[c].node), <<>>>>
    BY <1>4 DEF JobFacts, RestoreFacts, RebuildFacts
  <2>2. j.to = <<RestoreClaim(m, Specs[c].node), <<>>>>
    BY <1>4 DEF JobFacts, RestoreFacts, RebuildFacts
  <2> QED
    BY <2>1, <2>2
<1>5. CASE Kind(c) = "Fallback"
  BY <1>5 DEF JobFacts, FallbackFacts
<1>6. CASE Kind(c) = "ChangeOwner"
  BY <1>6 DEF JobFacts, ChangeOwnerFacts
<1> QED
  BY <1>1, <1>2, <1>3, <1>4, <1>5, <1>6 DEF Kinds

\* In the beginning nobody has written.
LEMMA ByInit == Init => By
<1> SUFFICES ASSUME Init, NEW p \in DOMAIN store PROVE store[p].by = ""
  BY DEF By
<1> DEFINE n == CHOOSE n \in Nodes : p = Home(n)
           full == [EmptyDir EXCEPT
                     !.chain.of = {[node |-> n, height |-> StartHeight[n]]},
                     !.chain.whole = TRUE, !.chain.owner = StartOwner, !.wal = WalOf(n)]
<1>1. store[p] = EmptyDir \/ store[p] = full
  BY Zenon DEF Init
<1>2. full.by = ""
  <2> DEFINE w == WalOf(n)
             marks == {[node |-> n, height |-> StartHeight[n]]}
  <2>1. full = [EmptyDir EXCEPT !.chain.of = marks, !.chain.whole = TRUE,
                                !.chain.owner = StartOwner, !.wal = w]
    BY Zenon
  <2> HIDE DEF full, w, marks
  <2> QED
    BY <2>1 DEF EmptyDir, Nothing
<1> HIDE DEF full
<1> QED
  BY <1>1, <1>2, Empties

\* Whoever writes signs, and no Job of a resource works elsewhere.
LEMMA ByNext ==
  ASSUME JobsKnown, Typed, By, [Next]_vars
  PROVE  By'
<1>1. CASE UNCHANGED vars
  BY <1>1 DEF vars, By
<1>2. CASE \E c \in CRs \ DOMAIN at : Submit(c)
  BY <1>2, Submitted DEF By
<1>3. CASE \E c \in DOMAIN at : StepOf(c)
  <2> PICK c \in DOMAIN at : StepOf(c)
    BY <1>3
  <2>1. ASSUME NEW d \in DOMAIN jobs
        PROVE  d \in DOMAIN jobs' /\ jobs'[d].to = jobs[d].to
    <3>1. CASE Prepare(c)
      <4>1. /\ DOMAIN jobs' = DOMAIN jobs \cup {c} /\ JobFacts(method, c, jobs'[c])
            /\ d # c => jobs'[d] = jobs[d]
        BY <2>1, <3>1, Prepared
      <4>2. CASE d = c
        <5>1. JobFacts(method, c, jobs[c]) /\ c \in CRs /\ method \in Methods
          BY <2>1, <4>2 DEF JobsKnown
        <5>2. jobs'[c].to = jobs[c].to
          BY <4>1, <5>1, SamePlace
        <5> QED
          BY <2>1, <4>1, <4>2, <5>2
      <4> QED
        BY <2>1, <4>1, <4>2
    <3> QED
      BY <2>1, <3>1, Shape
  <2> SUFFICES ASSUME NEW p \in DOMAIN store', store'[p].by # ""
               PROVE  store'[p].by \in DOMAIN jobs' /\ p = jobs'[store'[p].by].to
    BY DEF By
  <2>2. ASSUME p \in DOMAIN store, store'[p].by = store[p].by
        PROVE  store'[p].by \in DOMAIN jobs' /\ p = jobs'[store'[p].by].to
    <3> DEFINE d == store[p].by
    <3>1. d \in DOMAIN jobs /\ p = jobs[d].to
      BY <2>2 DEF By
    <3> HIDE DEF d
    <3>2. d \in DOMAIN jobs' /\ p = jobs'[d].to
      BY <2>1, <3>1
    <3>3. store'[p].by = d
      BY <2>2 DEF d
    <3> QED
      BY <3>2, <3>3
  <2>3. CASE Quiet(c)
    <3>1. After(p) = Read(p)
      BY <2>3 DEF Quiet
    <3>2. p \in DOMAIN store /\ store'[p] = store[p]
      BY <3>1, Empties DEF After, Read
    <3> QED
      BY <2>2, <3>2
  <2>4. CASE \E d : Writes(c, d)
    <3> PICK d : Writes(c, d)
      BY <2>4
    <3>1. store' = (To(c) :> d) @@ store /\ d.by = c /\ c \in DOMAIN jobs
      BY DEF Writes, JobsKnown, AtWork
    <3>2. CASE p = To(c)
      <4>1. store'[p].by = c
        BY <3>1, <3>2 DEF @@, :>
      <4>2. c \in DOMAIN jobs' /\ jobs'[c].to = To(c)
        BY <2>1, <3>1 DEF To
      <4> QED
        BY <3>2, <4>1, <4>2
    <3>3. CASE p # To(c)
      BY <2>2, <3>1, <3>3 DEF @@, :>
    <3> QED
      BY <3>2, <3>3
  <2>5. CASE Owns(c)
    <3>1. c \in DOMAIN jobs /\ Command(c) = "chown" /\ Chown(c)
      BY <2>5 DEF Owns, JobsKnown, AtWork
    <3>2. F(c).uid \in Owners
      BY <3>1, FlagsKnown
    <3> QED
      BY <2>2, <3>1, <3>2, Chowns
  <2> QED
    BY <2>3, <2>4, <2>5, Effects
<1>4. CASE \E n \in Nodes : Run(n)
  <2> PICK n \in Nodes : Run(n)
    BY <1>4
  <2> DEFINE h == Home(n)
             g == Grows(n, store[h])
  <2>1. /\ DOMAIN store' = DOMAIN store /\ store'[h] = g
        /\ \A p \in DOMAIN store : p # h => store'[p] = store[p]
        /\ jobs' = jobs
    BY Runs
  <2>2. g.by = store[h].by
    BY Zenon DEF Grows, DirOf
  <2> HIDE DEF g, h
  <2>3. \A p \in DOMAIN store : store'[p].by = store[p].by
    BY <2>1, <2>2
  <2> QED
    BY <2>1, <2>3 DEF By
<1> QED
  BY <1>1, <1>2, <1>3, <1>4 DEF Next, StepOf

\* What is recorded of a resource does not change in the steps of others.
LEMMA RecordKept ==
  ASSUME JobsKnown, Typed, [Next]_vars, NEW x \in DOMAIN jobs, at'[x] = at[x]
  PROVE  /\ x \in DOMAIN at' /\ method' = method /\ jobs'[x] = jobs[x]
         /\ began'[x].calm \/ at[x] \notin AtWork => began'[x] = began[x]
         /\ began'[x].chain = began[x].chain
<1>1. x \in DOMAIN at /\ x \in DOMAIN began /\ began[x] \in Began
  BY DEF JobsKnown, Typed
<1>2. CASE UNCHANGED vars
  BY <1>1, <1>2 DEF vars
<1>3. CASE \E d \in CRs \ DOMAIN at : Submit(d)
  BY <1>1, <1>3, Submitted
<1>4. CASE \E d \in DOMAIN at : StepOf(d)
  <2> PICK d \in DOMAIN at : StepOf(d)
    BY <1>4
  <2>1. d # x /\ DOMAIN at' = DOMAIN at /\ method' = method
    BY Shape
  <2>2. jobs'[x] = jobs[x]
    BY <2>1, Shape, Prepared
  <2>3. /\ began'[x].calm \/ at[x] \notin AtWork => began'[x] = began[x]
        /\ began'[x].chain = began[x].chain
    <3>1. CASE Prepare(d)
      BY <1>1, <2>1, <3>1, Prepared
    <3>2. CASE Break(d)
      BY <1>1, <2>1, <3>2 DEF Break
    <3>3. CASE began' = Noted(d)
      BY <1>1, <3>3 DEF Noted, Began
    <3>4. CASE began' = began
      BY <3>4
    <3> QED
      BY <3>1, <3>2, <3>3, <3>4, Leaves DEF Typed
  <2> QED
    BY <1>1, <2>1, <2>2, <2>3
<1>5. CASE \E n \in Nodes : Run(n)
  BY <1>1, <1>5 DEF Run
<1> QED
  BY <1>2, <1>3, <1>4, <1>5 DEF Next, StepOf

\* What is known of the Jobs that copy.
LEMMA CopyFacts ==
  ASSUME Separate, JobsKnown, method = "cloud-config", NEW x \in DOMAIN jobs,
         Kind(x) \in CopyKinds
  PROVE  /\ Read(From(x)) = store[Home(Specs[x].node)]
         /\ \A n \in Nodes : To(x)[1] # DataDir(n)
         /\ To(x) # Home(Specs[x].node)
         /\ Kind(x) # "Snapshot" =>
              /\ Command(x) = "backup" /\ F(x).compress = Specs[x].pack
              /\ Specs[x].pack => F(x).output = Named(x)
         /\ Kind(x) = "Snapshot" =>
              /\ Command(x) = "snapshot" /\ F(x).height = Specs[x].height /\ Understood(x)
<1> DEFINE j == jobs[x]
           k == Specs[x].node
<1>1. x \in CRs /\ k \in Nodes /\ JobFacts(method, x, j)
  BY Programs
<1>2. Specs[x].claim # DataDir(k) /\ \A n \in Nodes : Specs[x].claim # DataDir(n)
  BY <1>1 DEF Separate
<1>3. From(x) = j.from /\ To(x) = j.to
  BY DEF From, To
<1> HIDE DEF j
<1>4. j.from = HomeOf(method, k)
  BY <1>1, <1>2 DEF JobFacts, BackupFacts, SnapshotFacts, CopyKinds
<1>5. j.to \in {<<OwnClaim(x), <<>>>>, Below(Specs[x].claim, Specs[x].path)}
  BY <1>1 DEF JobFacts, BackupFacts, SnapshotFacts, CopyKinds
<1>6. \A n \in Nodes : j.to[1] # DataDir(n)
  BY <1>2, <1>5 DEF OwnClaim, DataDir, Below
<1>7. Read(From(x)) = store[Home(k)]
  BY <1>1, <1>3, <1>4, HomeIs DEF JobsKnown, Read
<1>8. To(x) # Home(k)
  <2>1. Home(k) = <<DataDir(k), <<>>>>
    BY DEF Home
  <2> DEFINE p == j.to
  <2> HIDE DEF p
  <2>2. p # Home(k)
    BY <1>1, <1>6, <2>1 DEF p
  <2> QED
    BY <1>3, <2>2 DEF p
<1>9. Kind(x) # "Snapshot" => Command(x) = "backup"
  BY Programs DEF CopyKinds
<1>10. Kind(x) = "Snapshot" => Command(x) = "snapshot"
  BY Programs
<1> QED
  BY <1>3, <1>6, <1>7, <1>8, <1>9, <1>10, FlagsKnown, Understandable

\* While a copy is alone nobody changes what it has made.
LEMMA CopyKept ==
  ASSUME Separate, JobsKnown, Typed, [Next]_vars, method = "cloud-config",
         NEW x \in DOMAIN jobs, Kind(x) \in CopyKinds, at'[x] = at[x],
         (at[x] \in AtWork /\ began'[x].calm) \/ After(To(x)).by = x
  PROVE  After(To(x)) = Read(To(x))
<1>1. x \in DOMAIN at /\ x \in DOMAIN began /\ began[x] \in Began
  BY DEF JobsKnown, Typed
<1>2. \A n \in Nodes : To(x)[1] # DataDir(n)
  BY CopyFacts
<1>3. ASSUME NEW d \in DOMAIN at, NEW e, StepOf(d), Writes(d, e)
      PROVE  To(d) # To(x)
  <2>1. d # x
    BY <1>3, Shape
  <2>2. began' = Noted(d) /\ store' = (To(d) :> e) @@ store /\ e.by = d
    BY <1>3 DEF Writes
  <2> SUFFICES ASSUME To(d) = To(x) PROVE FALSE
    OBVIOUS
  <2>3. After(To(x)).by = d
    BY <2>2 DEF After, @@, :>
  <2>4. at[x] \in AtWork => ~began'[x].calm
    BY <1>1, <2>1, <2>2 DEF Noted, Began
  <2> QED
    BY <2>1, <2>3, <2>4
<1> DEFINE p == To(x)
<1> HIDE DEF p
<1>4. After(p) = Read(p)
  BY <1>2, <1>3, PlaceKept DEF p
<1> QED
  BY <1>4 DEF p


\* The steps of the program that copies.
LEMMA CopyStep ==
  ASSUME Separate, JobsKnown, Typed, Saving, method = "cloud-config",
         NEW x \in DOMAIN at, x \in DOMAIN jobs, at[x] \in AtWork, Kind(x) \in CopyKinds,
         Stops(x), BeginWork(x) \/ EndWork(x), at'[x] \in AtWork
  PROVE  /\ store'[Home(Specs[x].node)].chain = began[x].chain
         /\ began'[x] = began[x] /\ jobs' = jobs /\ method' = method
         /\ began[x].calm /\ (began[x].fresh \/ Specs[x].pack) =>
              /\ Saves(at'[x], x, After(To(x)), began[x].chain)
              /\ at'[x] = "done" => Holds(x, After(To(x)), began[x].chain)
<1> DEFINE h == Home(Specs[x].node)
           b == began[x].chain
           p == To(x)
           d == Read(p)
           n == Named(x)
           sound == began[x].calm /\ (began[x].fresh \/ Specs[x].pack)
<1>1. /\ Read(From(x)) = store[h] /\ p # h
      /\ Kind(x) # "Snapshot" =>
           /\ Command(x) = "backup" /\ F(x).compress = Specs[x].pack
           /\ Specs[x].pack => F(x).output = n
      /\ Kind(x) = "Snapshot" =>
           /\ Command(x) = "snapshot" /\ F(x).height = Specs[x].height /\ Understood(x)
  BY CopyFacts
<1>2. /\ store[h].chain = b
      /\ sound => Saves(at[x], x, d, b)
  BY DEF Saving
<1>3. /\ x \in DOMAIN began /\ began[x] \in Began /\ b \in Content
      /\ jobs' = jobs /\ method' = method /\ h \in DOMAIN store
  BY Programs DEF Typed, JobsKnown, Began, BeginWork, EndWork
<1> HIDE DEF h, b, p, d, n, sound
<1>4. ASSUME NEW chain, NEW state, NEW archives, NEW wal, Wrote(x, chain, state, archives, wal)
      PROVE  /\ store'[h] = store[h] /\ began'[x] = began[x]
             /\ After(p).chain = chain /\ After(p).state = state
             /\ After(p).archives = archives
  <2>1. /\ p \in DOMAIN store' /\ store'[p].chain = chain /\ store'[p].state = state
        /\ store'[p].archives = archives
    BY <1>4, WroteThere DEF p
  <2>2. began' = Noted(x)
    BY <1>4 DEF Wrote
  <2>3. began'[x] = began[x]
    BY <1>3, <2>2 DEF Noted
  <2>4. \E e : store' = (p :> e) @@ store
    BY <1>4 DEF Wrote, p
  <2>5. store'[h] = store[h]
    BY <1>1, <1>3, <2>4 DEF @@, :>
  <2> QED
    BY <2>1, <2>3, <2>5 DEF After
<1> SUFFICES /\ store'[h] = store[h] /\ began'[x] = began[x]
             /\ sound => /\ Saves(at'[x], x, After(p), b)
                         /\ at'[x] = "done" => Holds(x, After(p), b)
  BY <1>2, <1>3 DEF h, b, p, sound
<1>5. CASE Kind(x) # "Snapshot" /\ BeginWork(x)
  <2>1. BeginBackup(x) /\ at[x] = "ready" /\ ~Move(x, "Failed")
    BY <1>1, <1>5 DEF BeginWork, Move, AtWork
  <2>2. /\ at'[x] = "busy"
        /\ IF Specs[x].pack
           THEN Wrote(x, d.chain, d.state, Shelve(x, Packing(x, {}, FALSE)), d.wal)
           ELSE Wrote(x, Merge(d.chain, Torn(b)), d.state, d.archives, d.wal)
    BY <1>1, <1>2, <1>5, <2>1, BackupBegins DEF Move, d, p
  <2>3. CASE Specs[x].pack
    <3> DEFINE a == Packing(x, {}, FALSE)
               books == Shelve(x, a)
    <3>1. a.of = b.of
      BY <1>1, <1>2 DEF Packing
    <3> HIDE DEF a
    <3>2. books[n] = a
      BY <1>1, <1>5, <2>3 DEF Shelve, @@, :>
    <3> HIDE DEF books
    <3>3. Wrote(x, d.chain, d.state, books, d.wal)
      BY <2>2, <2>3 DEF books, a
    <3>4. store'[h] = store[h] /\ began'[x] = began[x] /\ After(p).archives = books
      BY <1>4, <3>3
    <3>5. After(p).archives[n].of = b.of
      BY <3>1, <3>2, <3>4
    <3> QED
      BY <2>2, <2>3, <3>4, <3>5 DEF Saves, n
  <2>4. CASE ~Specs[x].pack
    <3>1. sound => d.chain = Nothing
      BY <1>2, <1>5, <2>1, <2>4 DEF Saves
    <3>2. sound => Merge(d.chain, Torn(b)) = Torn(b)
      BY <1>3, <3>1, Merges
    <3>3. /\ store'[h] = store[h] /\ began'[x] = began[x]
          /\ After(p).chain = Merge(d.chain, Torn(b))
      BY <1>4, <2>2, <2>4
    <3> QED
      BY <2>2, <2>4, <3>2, <3>3 DEF Saves
  <2> QED
    BY <2>3, <2>4
<1>6. CASE Kind(x) # "Snapshot" /\ EndWork(x)
  <2>1. EndBackup(x) /\ at[x] = "busy" /\ ~Move(x, "Failed")
    BY <1>1, <1>6 DEF EndWork, Move, AtWork
  <2> DEFINE old == d.archives[n].of
             a == Packing(x, old, TRUE)
             books == Shelve(x, a)
  <2>2. /\ at'[x] = "done"
        /\ IF Specs[x].pack
           THEN Wrote(x, d.chain, d.state, books, d.wal)
           ELSE Wrote(x, Merge(d.chain, b), d.state, d.archives, d.wal)
    <3>1. CASE Specs[x].pack
      <4>1. F(x).compress /\ F(x).output = n
        BY <1>1, <1>6, <3>1
      <4> QED
        BY <2>1, <3>1, <4>1, BackupEnds DEF Move, d, p
    <3>2. CASE ~Specs[x].pack
      BY <1>1, <1>2, <1>6, <2>1, <3>2, BackupEnds DEF Move, d, p
    <3> QED
      BY <3>1, <3>2
  <2>3. CASE Specs[x].pack
    <3>1. sound => old = b.of
      BY <1>2, <1>6, <2>1, <2>3 DEF Saves, n
    <3>2. sound => a = [of |-> b.of, whole |-> b.whole, closed |-> TRUE]
      BY <1>1, <1>2, <3>1 DEF Packing
    <3> HIDE DEF a, old
    <3>3. books[n] = a /\ n \in DOMAIN books
      BY <1>1, <1>6, <2>3 DEF Shelve, @@, :>
    <3> HIDE DEF books
    <3>4. store'[h] = store[h] /\ began'[x] = began[x] /\ After(p).archives = books
      BY <1>4, <2>2, <2>3
    <3> QED
      BY <1>6, <2>2, <2>3, <3>2, <3>3, <3>4 DEF Saves, Holds, n
  <2>4. CASE ~Specs[x].pack
    <3>1. sound => d.chain = Torn(b)
      BY <1>2, <1>6, <2>1, <2>4 DEF Saves
    <3>2. sound => Merge(d.chain, b) = b
      BY <1>3, <3>1, Merges
    <3>3. /\ store'[h] = store[h] /\ began'[x] = began[x]
          /\ After(p).chain = Merge(d.chain, b)
      BY <1>4, <2>2, <2>4
    <3> QED
      BY <1>6, <2>2, <2>4, <3>2, <3>3 DEF Saves, Holds
  <2> QED
    BY <2>3, <2>4
<1>7. CASE Kind(x) = "Snapshot" /\ BeginWork(x)
  <2>1. BeginCloudOp(x) /\ ~Move(x, "Failed")
    BY <1>1, <1>7 DEF BeginWork, Move, AtWork
  <2>2. /\ at'[x] = "busy"
        /\ Wrote(x, d.chain, Result(x, FALSE, 0), d.archives, d.wal)
    BY <1>1, <1>7, <2>1, CloudOpBegins DEF Move, d, p
  <2>3. store'[h] = store[h] /\ began'[x] = began[x]
    BY <1>4, <2>2
  <2> QED
    BY <1>7, <2>2, <2>3 DEF Saves
<1>8. CASE Kind(x) = "Snapshot" /\ EndWork(x)
  <2> DEFINE r == Result(x, Understood(x), 0)
  <2>1. EndCloudOp(x)
    BY <1>1, <1>8 DEF EndWork
  <2>2. at'[x] = "done" /\ Wrote(x, d.chain, r, d.archives, d.wal)
    BY <1>1, <1>8, <2>1, CloudOpEnds DEF Move, d, p
  <2>3. Input(x).of = b.of
    BY <1>1, <1>2, <1>8 DEF Input
  <2>4. r = [of |-> Rewound(b.of, Specs[x].height), whole |-> TRUE, owner |-> 0]
    <3>1. r = [of |-> Rewound(Input(x).of, F(x).height), whole |-> Understood(x), owner |-> 0]
      BY Zenon DEF Result
    <3>2. Understood(x) = TRUE
      BY <1>1, <1>8, Understands
    <3> QED
      BY <1>1, <1>8, <2>3, <3>1, <3>2
  <2> HIDE DEF r
  <2>5. store'[h] = store[h] /\ began'[x] = began[x] /\ After(p).state = r
    BY <1>4, <2>2
  <2> QED
    BY <1>8, <2>2, <2>4, <2>5 DEF Saves, Holds
<1> QED
  BY <1>5, <1>6, <1>7, <1>8


\* A copy under way.
LEMMA SavingNext ==
  ASSUME Separate, JobsKnown, Typed, Orderly, Saving, [Next]_vars
  PROVE  Saving'
<1> SUFFICES ASSUME method' = "cloud-config", NEW x \in DOMAIN at', at'[x] \in AtWork,
                    Kind(x) \in CopyKinds, Stops(x)'
             PROVE  /\ store'[Home(Specs[x].node)'].chain = began'[x].chain
                    /\ began'[x].calm /\ (began'[x].fresh \/ Specs[x].pack) =>
                         Saves(at'[x], x, Read(To(x))', began'[x].chain)
  BY DEF Saving
<1> DEFINE h == Home(Specs[x].node)
<1>1. x \in DOMAIN at /\ method' = method
  <2>1. CASE \E d \in CRs \ DOMAIN at : Submit(d)
    BY <2>1, Submitted DEF AtWork
  <2> QED
    BY <2>1, Shape DEF Next, StepOf, vars, Run
<1>2. Stops(x) /\ h' = h /\ method = "cloud-config"
  BY <1>1, StopsSame
<1>3. CASE at'[x] = at[x]
  <2>1. /\ store'[h] = store[h] /\ x \in DOMAIN jobs /\ jobs'[x] = jobs[x]
        /\ began'[x].calm => began'[x] = began[x]
        /\ began'[x].chain = began[x].chain
    BY <1>1, <1>2, <1>3, Undisturbed
  <2>2. began'[x].calm => After(To(x)) = Read(To(x))
    BY <1>2, <1>3, <2>1, CopyKept
  <2>3. Read(To(x))' = After(To(x))
    BY <2>1 DEF Read, After, To
  <2>4. /\ store[h].chain = began[x].chain
        /\ began[x].calm /\ (began[x].fresh \/ Specs[x].pack) =>
             Saves(at[x], x, Read(To(x)), began[x].chain)
    BY <1>1, <1>2, <1>3 DEF Saving
  <2> QED
    BY <1>2, <1>3, <2>1, <2>2, <2>3, <2>4
<1>4. CASE at'[x] # at[x]
  <2>1. StepOf(x)
    BY <1>1, <1>4, Moved
  <2>2. CASE Prepare(x)
    <3>1. at'[x] = "ready"
      BY <1>1, <2>2 DEF Prepare, Move
    <3>2. /\ store'[h] = store[h] /\ began'[x].chain = store[h].chain
          /\ began'[x].fresh = (Read(jobs'[x].to).chain = Nothing)
      BY <1>1, <2>2, Remembers
    <3>3. Read(To(x))' = After(jobs'[x].to)
      BY DEF Read, After, To
    <3> DEFINE p == jobs'[x].to
    <3> HIDE DEF p
    <3>4. After(p) = Read(p)
      <4>1. DOMAIN store \subseteq DOMAIN store'
        BY <1>1, <2>1, Shape
      <4> QED
        BY <1>1, <2>2, <4>1, ClaimIsNew DEF After, Read
    <3> QED
      BY <1>2, <3>1, <3>2, <3>3, <3>4 DEF Saves, p
  <2>3. CASE BeginWork(x) \/ EndWork(x)
    <3>1. x \in DOMAIN jobs /\ at[x] \in AtWork
      BY <1>1, <2>3 DEF BeginWork, EndWork, JobsKnown, AtWork
    <3>2. /\ store'[h].chain = began[x].chain
          /\ began'[x] = began[x] /\ jobs' = jobs
          /\ began[x].calm /\ (began[x].fresh \/ Specs[x].pack) =>
                Saves(at'[x], x, After(To(x)), began[x].chain)
      BY <1>1, <1>2, <2>3, <3>1, CopyStep
    <3>3. Read(To(x))' = After(To(x))
      BY <3>2 DEF Read, After, To
    <3> QED
      BY <1>2, <3>2, <3>3
  <2>4. ~Finish(x) /\ ~Break(x) /\ ~DeleteJob(x)
    BY <1>1 DEF Finish, Break, DeleteJob, Move, AtWork
  <2> QED
    BY <2>1, <2>2, <2>3, <2>4 DEF StepOf, Program
<1> QED
  BY <1>3, <1>4

\* A copy that is there.
LEMMA SavedNext ==
  ASSUME Separate, JobsKnown, Typed, Saving, Saved, [Next]_vars
  PROVE  Saved'
<1> SUFFICES ASSUME method' = "cloud-config", NEW x \in DOMAIN at',
                    at'[x] \in {"done", "Complete"}, Kind(x) \in CopyKinds, Stops(x)',
                    began'[x].calm, began'[x].fresh \/ Specs[x].pack,
                    Read(To(x))'.by = x
             PROVE  Holds(x, Read(To(x))', began'[x].chain)
  BY DEF Saved
<1>1. x \in DOMAIN at /\ method' = method
  <2>1. CASE \E d \in CRs \ DOMAIN at : Submit(d)
    BY <2>1, Submitted
  <2> QED
    BY <2>1, Shape DEF Next, StepOf, vars, Run
<1>2. Stops(x) /\ method = "cloud-config"
  BY <1>1, StopsSame
<1>3. ASSUME jobs'[x] = jobs[x]
      PROVE  Read(To(x))' = After(To(x))
  BY <1>3 DEF Read, After, To
<1>4. CASE at'[x] = at[x]
  <2>1. x \in DOMAIN jobs
    BY <1>1, <1>4 DEF JobsKnown, AtWork
  <2>2. jobs'[x] = jobs[x] /\ began'[x] = began[x]
    BY <2>1, <1>4, RecordKept
  <2>3. After(To(x)).by = x
    BY <1>3, <2>2
  <2>4. After(To(x)) = Read(To(x))
    BY <1>2, <1>4, <2>1, <2>3, CopyKept
  <2>5. Holds(x, Read(To(x)), began[x].chain)
    BY <1>1, <1>2, <1>4, <2>2, <2>3, <2>4 DEF Saved
  <2> QED
    BY <1>3, <2>2, <2>4, <2>5
<1>5. CASE at'[x] # at[x]
  <2>1. StepOf(x)
    BY <1>1, <1>5, Moved
  <2>2. CASE EndWork(x)
    <3>1. x \in DOMAIN jobs /\ at[x] \in AtWork /\ at'[x] \in AtWork /\ at'[x] = "done"
      <4>1. at[x] = "busy"
        BY <2>2 DEF EndWork
      <4>2. at'[x] # "Complete"
        BY <1>1, <4>1, Completed
      <4> QED
        BY <1>1, <4>1, <4>2 DEF JobsKnown, AtWork
    <3>2. /\ began'[x] = began[x] /\ jobs' = jobs
          /\ began[x].calm /\ (began[x].fresh \/ Specs[x].pack) =>
                Holds(x, After(To(x)), began[x].chain)
      BY <1>1, <1>2, <2>2, <3>1, CopyStep
    <3> QED
      BY <1>3, <3>2
  <2>3. CASE Finish(x)
    <3>1. at[x] = "done" /\ UNCHANGED <<store, jobs, began>>
      BY <2>3 DEF Finish
    <3>2. After(To(x)) = Read(To(x))
      BY <3>1 DEF After, Read
    <3>3. Read(To(x))' = Read(To(x))
      BY <1>3, <3>1, <3>2
    <3>4. Holds(x, Read(To(x)), began[x].chain)
      BY <1>1, <1>2, <3>1, <3>3 DEF Saved
    <3> QED
      BY <3>1, <3>3, <3>4
  <2>4. ~Prepare(x) /\ ~Break(x) /\ ~DeleteJob(x)
    BY <1>1 DEF Prepare, Break, DeleteJob, Move
  <2>5. ~BeginWork(x)
    BY <1>1, <2>1 DEF BeginWork, BeginBackup, BeginRestore, BeginCloudOp, Move, GiveUp
  <2> QED
    BY <2>1, <2>2, <2>3, <2>4, <2>5 DEF StepOf, Program
<1> QED
  BY <1>4, <1>5


\* What a Restore or Recover is to bring back is a copy, ...
LEMMA Originals ==
  ASSUME SameCopy, NEW c \in CRs, Kind(c) \in {"Restore", "Recover"}, Original(c) \in CRs
  PROVE  /\ Kind(Original(c)) \in CopyKinds
         /\ Kind(c) = "Recover" =>
              /\ Kind(Original(c)) = "Duplicate" /\ Specs[Original(c)].pack = Specs[c].pack
              /\ Specs[c].pack => Specs[c].file = Named(Original(c))
         /\ Kind(c) = "Restore" /\ Specs[c].snapshot = "" =>
              Kind(Original(c)) = "Backup" /\ ~Specs[Original(c)].pack /\ ~Specs[c].pack
         /\ Kind(c) = "Restore" /\ Specs[c].snapshot # "" =>
              Kind(Original(c)) = "Snapshot" /\ Original(c) = Specs[c].snapshot
<1> DEFINE x == Original(c)
<1>1. S(c).snapshot = Specs[c].snapshot /\ S(c).backup = Specs[c].backup
  BY Specified
<1>2. x # ""
  BY Ruled
<1>3. CASE Kind(c) = "Recover"
  <2>1. x = CopyOf[c]
    BY <1>3 DEF Original
  <2>2. /\ Specs[x].kind = "Duplicate" /\ Specs[x].pack = Specs[c].pack
        /\ Specs[c].pack => Specs[c].file = IF Specs[x].file = "" THEN x ELSE Specs[x].file
    BY <1>3, <2>1 DEF SameCopy, Kind
  <2> QED
    BY <1>3, <2>2 DEF Kind, Named, CopyKinds
<1>4. CASE Kind(c) = "Restore" /\ Specs[c].snapshot = ""
  <2>1. x = Specs[c].backup
    BY <1>1, <1>4 DEF Original
  <2>2. Kind(x) = "Backup"
    BY <1>2, <2>1, Ruled
  <2>3. ~Specs[x].pack /\ ~Specs[c].pack
    BY <1>4, <2>2, Ruled
  <2> QED
    BY <1>4, <2>2, <2>3 DEF CopyKinds
<1>5. CASE Kind(c) = "Restore" /\ Specs[c].snapshot # ""
  <2>1. x = Specs[c].snapshot
    BY <1>1, <1>5 DEF Original
  <2>2. Kind(x) = "Snapshot"
    BY <1>5, <2>1, Ruled
  <2> QED
    BY <1>5, <2>1, <2>2 DEF CopyKinds
<1> QED
  BY <1>3, <1>4, <1>5

\* ... and where it is sound it lies there.
LEMMA SoundHolds ==
  ASSUME SameCopy, JobsKnown, By, Saved, NEW c \in DOMAIN jobs,
         Kind(c) \in {"Restore", "Recover"}, Sound(c, From(c))
  PROVE  /\ Original(c) \in DOMAIN jobs
         /\ Holds(Original(c), Read(From(c)), began[Original(c)].chain)
<1> DEFINE x == Original(c)
           p == From(c)
<1>1. /\ x \in DOMAIN at /\ at[x] = "Complete" /\ Stops(x) /\ began[x].calm
      /\ began[x].fresh \/ S(x).pack
      /\ Read(p).by = x
  BY Zenon DEF Sound
<1>2. x \in CRs /\ c \in CRs /\ x # "" /\ method = "cloud-config" /\ x \in DOMAIN jobs
  BY <1>1, Ruled DEF JobsKnown
<1>3. Kind(x) \in CopyKinds /\ S(x).pack = Specs[x].pack
  BY <1>2, Originals, Specified
<1> HIDE DEF x, p
<1>4. p \in DOMAIN store /\ store[p].by = x
  BY <1>1, <1>2, Empties DEF Read
<1>5. p = To(x)
  BY <1>2, <1>4 DEF By, To
<1>6. Holds(x, Read(To(x)), began[x].chain)
  BY <1>1, <1>2, <1>3, <1>5 DEF Saved
<1> QED
  BY <1>2, <1>5, <1>6 DEF x, p

\* What it makes of it.
LEMMA BroughtFacts ==
  ASSUME Separate, SameCopy, JobsKnown, Typed, By, Saved, NEW c \in DOMAIN jobs,
         Kind(c) \in {"Restore", "Recover"}, Sound(c, From(c))
  PROVE  /\ Command(c) = "restore" => Restored(c) = Expected(c)
         /\ Command(c) = "snapshot-recover" =>
              Result(c, Understood(c), Default.uid) = Expected(c)
<1> DEFINE x == Original(c)
           d == Read(From(c))
           b == began[x].chain
<1>1. /\ x \in DOMAIN jobs /\ Holds(x, d, b)
  BY SoundHolds
<1>2. /\ c \in CRs /\ x \in CRs /\ method = "cloud-config" /\ b \in Content
  BY <1>1 DEF JobsKnown, Typed, Began
<1>3. /\ Kind(x) \in CopyKinds
      /\ Kind(c) = "Recover" =>
           /\ Kind(x) = "Duplicate" /\ Specs[x].pack = Specs[c].pack
           /\ Specs[c].pack => Specs[c].file = Named(x)
      /\ Kind(c) = "Restore" /\ Specs[c].snapshot = "" =>
           Kind(x) = "Backup" /\ ~Specs[x].pack /\ ~Specs[c].pack
      /\ Kind(c) = "Restore" /\ Specs[c].snapshot # "" =>
           Kind(x) = "Snapshot" /\ x = Specs[c].snapshot
  BY <1>2, Originals
<1>4. Expected(c) =
        IF Command(c) = "snapshot-recover"
        THEN [of |-> Rewound(b.of, S(x).height), whole |-> TRUE, owner |-> Default.uid]
        ELSE IF F(c).decompress THEN [b EXCEPT !.owner = 0] ELSE b
  BY Zenon DEF Expected
<1> HIDE DEF x, d, b
<1>5. CASE Command(c) = "restore"
  <2>1. /\ F(c).decompress = Specs[c].pack
        /\ Specs[c].pack => F(c).input = Specs[c].file
    BY <1>5, FlagsKnown
  <2>2. Specs[x].pack = Specs[c].pack /\ Kind(x) # "Snapshot"
    <3>1. Kind(c) = "Recover" \/ (Kind(c) = "Restore" /\ Specs[c].snapshot = "")
      BY <1>5, Programs
    <3>2. Specs[c].pack \in BOOLEAN /\ Specs[x].pack \in BOOLEAN
      BY <1>2, Specified
    <3> QED
      BY <1>3, <3>1, <3>2
  <2>3. CASE Specs[c].pack
    <3>1. Kind(c) = "Recover" /\ F(c).input = Named(x) /\ F(c).decompress
      BY <1>2, <1>3, <2>1, <2>3, Ruled
    <3>2. /\ Named(x) \in DOMAIN d.archives
          /\ d.archives[Named(x)] = [of |-> b.of, whole |-> b.whole, closed |-> TRUE]
      BY <1>1, <2>2, <2>3 DEF Holds
    <3>3. Stored(c) = [of |-> b.of, whole |-> b.whole, closed |-> TRUE]
      BY <3>1, <3>2 DEF Stored, d
    <3>4. Restored(c) = Unpacked(Stored(c))
      BY <3>1 DEF Restored
    <3>5. Restored(c) = [of |-> b.of, whole |-> b.whole, owner |-> 0]
      BY <3>3, <3>4 DEF Unpacked
    <3>6. [b EXCEPT !.owner = 0] = [of |-> b.of, whole |-> b.whole, owner |-> 0]
      BY <1>2, ContentWith, Zenon
    <3> QED
      BY <1>4, <1>5, <3>1, <3>5, <3>6
  <2>4. CASE ~Specs[c].pack
    <3>1. d.chain = b
      BY <1>1, <2>2, <2>4 DEF Holds
    <3>2. Restored(c) = b
      BY <2>1, <2>4, <3>1 DEF Restored, d
    <3> QED
      BY <1>4, <1>5, <2>1, <2>4, <3>2
  <2> QED
    BY <1>5, <2>3, <2>4
<1>6. CASE Command(c) = "snapshot-recover"
  <2> DEFINE height == Specs[x].height
             r == Result(c, Understood(c), Default.uid)
             of == Rewound(b.of, height)
  <2>1. Kind(c) = "Restore" /\ Specs[c].snapshot # "" /\ Kind(x) = "Snapshot"
    BY <1>3, <1>6, Programs
  <2>2. F(c).height = height /\ S(x).height = height /\ height \in Nat
    BY <1>2, <1>3, <1>6, <2>1, FlagsKnown, Specified
  <2>3. d.state = [of |-> of, whole |-> TRUE, owner |-> 0]
    BY <1>1, <2>1 DEF Holds
  <2> HIDE DEF of
  <2>4. Input(c).of = of
    BY <1>6, <2>3 DEF Input, d
  <2>5. Rewound(of, height) = of
    <3>1. b.of \in SUBSET Marks
      BY <1>2 DEF Content
    <3> QED
      BY <2>2, <3>1, Rewinds DEF of
  <2>6. Understood(c) = TRUE
    BY <1>2, <1>6, Understandable, Understands
  <2>7. r = [of |-> Rewound(Input(c).of, F(c).height), whole |-> Understood(c),
             owner |-> Default.uid]
    BY Zenon DEF Result
  <2>8. r = [of |-> of, whole |-> TRUE, owner |-> Default.uid]
    <3> DEFINE user == Default.uid
    <3> HIDE DEF user, r, height
    <3>1. r = [of |-> Rewound(Input(c).of, F(c).height), whole |-> Understood(c), owner |-> user]
      BY <2>7 DEF user
    <3> QED
      BY <2>2, <2>4, <2>5, <2>6, <3>1 DEF user
  <2> HIDE DEF r
  <2>9. Expected(c) = [of |-> of, whole |-> TRUE, owner |-> Default.uid]
    BY <1>4, <1>6, <2>2 DEF of
  <2>10. r = Expected(c)
    BY <2>8, <2>9
  <2> QED
    BY <1>6, <2>10 DEF r
<1> QED
  BY <1>5, <1>6

\* A copy that is sound stays so as long as its place does.
LEMMA SoundKept ==
  ASSUME JobsKnown, Typed, [Next]_vars, NEW c \in DOMAIN at, at[c] \in {"active"} \cup AtWork,
         NEW p, Sound(c, p), After(p) = Read(p)
  PROVE  /\ Original(c) \in DOMAIN at' /\ at'[Original(c)] = "Complete"
         /\ Stops(Original(c))' /\ began'[Original(c)] = began[Original(c)]
         /\ After(p).by = Original(c)
<1> DEFINE x == Original(c)
<1>1. x \in DOMAIN at /\ at[x] = "Complete" /\ Stops(x) /\ Read(p).by = x
  BY Zenon DEF Sound
<1> HIDE DEF x
<1>2. x \in DOMAIN jobs
  BY <1>1 DEF JobsKnown
<1>3. at'[x] = at[x]
  <2> SUFFICES ASSUME at'[x] # at[x] PROVE FALSE
    OBVIOUS
  <2>1. at[x] \in {"active"} \cup AtWork
    BY <1>1, Moved, Shape
  <2> QED
    BY <1>1, <2>1 DEF AtWork
<1>4. x \in DOMAIN at' /\ method' = method /\ began'[x] = began[x]
  BY <1>1, <1>2, <1>3, RecordKept DEF AtWork
<1>5. Stops(x)'
  BY <1>1, <1>4, StopsSame
<1> QED
  BY <1>1, <1>3, <1>4, <1>5 DEF x


\* The program's own steps.
LEMMA BringingStep ==
  ASSUME Separate, SameCopy, JobsKnown, Typed, By, Saved, Bringing, [Next]_vars,
         NEW c \in DOMAIN at, c \in DOMAIN jobs, at[c] \in AtWork, Stops(c),
         began[c].sound, began[c].calm, BeginWork(c) \/ EndWork(c), at'[c] \in AtWork
  PROVE  /\ After(From(c)) = Read(From(c)) /\ jobs' = jobs /\ began'[c] = began[c]
         /\ Brings(at'[c], Command(c), store'[Home(Specs[c].node)].chain, Expected(c))
<1> DEFINE h == Home(Specs[c].node)
           e == Expected(c)
           new == Restored(c)
           result == Result(c, Understood(c), Default.uid)
<1>1. /\ Kind(c) \in {"Restore", "Recover"} /\ Sound(c, From(c))
      /\ Brings(at[c], Command(c), store[h].chain, e)
  BY DEF Bringing
<1>2. /\ To(c) = h /\ Read(To(c)) = store[h]
      /\ jobs' = jobs /\ c \in DOMAIN began
  BY <1>1, AtHome DEF BeginWork, EndWork, JobsKnown
<1>3. From(c) # To(c)
  <2>1. method = "cloud-config" /\ From(c)[1] # DataDir(Specs[c].node)
    BY <1>1, SourceElsewhere, Programs
  <2>2. To(c) = <<DataDir(Specs[c].node), <<>>>>
    BY <1>2, <2>1 DEF Home
  <2> DEFINE p == From(c)
  <2> HIDE DEF p
  <2>3. p # To(c)
    BY <2>1, <2>2 DEF p
  <2> QED
    BY <2>3 DEF p
<1>4. /\ Command(c) = "restore" => new = e
      /\ Command(c) = "snapshot-recover" => result = e
  BY <1>1, BroughtFacts
<1>5. Command(c) \in {"restore", "snapshot-recover"} /\ new \in Content
  BY <1>1, Programs, Reading
<1> HIDE DEF h, e, new, result
<1>6. ASSUME NEW chain, NEW state, NEW archives, NEW wal, Wrote(c, chain, state, archives, wal)
      PROVE  /\ After(From(c)) = Read(From(c)) /\ began'[c] = began[c]
             /\ store'[h].chain = chain
  <2>1. began' = Noted(c) /\ \E d : store' = (To(c) :> d) @@ store
    BY <1>6 DEF Wrote
  <2>2. After(From(c)) = Read(From(c))
    BY <1>3, <2>1 DEF After, Read, @@, :>
  <2>3. began'[c] = began[c]
    BY <1>2, <2>1 DEF Noted
  <2>4. store'[h].chain = chain
    BY <1>2, <1>6, WroteThere
  <2> QED
    BY <2>2, <2>3, <2>4
<1> SUFFICES /\ After(From(c)) = Read(From(c)) /\ began'[c] = began[c]
             /\ Brings(at'[c], Command(c), store'[h].chain, e)
  BY <1>2 DEF h, e
<1>7. CASE Command(c) = "restore" /\ BeginWork(c)
  <2>1. BeginRestore(c) /\ ~Move(c, "Failed")
    BY <1>7 DEF BeginWork, Move, AtWork
  <2>2. /\ at'[c] = "busy"
        /\ \E state, archives, wal : Wrote(c, Merge(Nothing, Torn(new)), state, archives, wal)
    BY <2>1, RestoreBegins DEF Move, new
  <2>3. Merge(Nothing, Torn(new)) = Torn(e)
    BY <1>4, <1>5, <1>7, Merges
  <2> QED
    BY <1>6, <2>2, <2>3 DEF Brings
<1>8. CASE Command(c) = "restore" /\ EndWork(c)
  <2>1. EndRestore(c) /\ ~Move(c, "Failed") /\ at[c] = "busy"
    BY <1>8 DEF EndWork, Move, AtWork
  <2>2. /\ at'[c] = "done"
        /\ \E state, archives, wal : Wrote(c, Merge(store[h].chain, new), state, archives, wal)
    BY <1>2, <2>1, RestoreEnds DEF Move, new
  <2>3. store[h].chain = Torn(e)
    BY <1>1, <1>8, <2>1 DEF Brings
  <2>4. Merge(store[h].chain, new) = e
    BY <1>4, <1>5, <1>8, <2>3, Merges
  <2> QED
    BY <1>6, <2>2, <2>4 DEF Brings
<1>9. CASE Command(c) = "snapshot-recover" /\ BeginWork(c)
  <2>1. BeginCloudOp(c) /\ ~Move(c, "Failed")
    BY <1>9 DEF BeginWork, Move, AtWork
  <2>2. /\ at'[c] = "busy"
        /\ \E chain, state, archives, wal : Wrote(c, chain, state, archives, wal)
    BY <1>9, <2>1, CloudOpBegins DEF Move
  <2> QED
    BY <1>6, <1>9, <2>2 DEF Brings
<1>10. CASE Command(c) = "snapshot-recover" /\ EndWork(c)
  <2>1. EndCloudOp(c)
    BY <1>10 DEF EndWork
  <2>2. /\ at'[c] = "done"
        /\ \E state, archives, wal : Wrote(c, result, state, archives, wal)
    BY <1>10, <2>1, CloudOpEnds DEF Move, result
  <2> QED
    BY <1>4, <1>6, <1>10, <2>2 DEF Brings
<1> QED
  BY <1>5, <1>7, <1>8, <1>9, <1>10

\* A Restore or Recover under way.
LEMMA BringingNext ==
  ASSUME Separate, SameCopy, JobsKnown, Typed, Orderly, By, Saved, Bringing, [Next]_vars
  PROVE  Bringing'
<1> SUFFICES ASSUME NEW c \in DOMAIN at', at'[c] \in AtWork, Stops(c)', began'[c].sound,
                    began'[c].calm
             PROVE  /\ Kind(c) \in {"Restore", "Recover"} /\ Sound(c, From(c))'
                    /\ Brings(at'[c], Command(c)', store'[Home(Specs[c].node)'].chain,
                              Expected(c)')
  BY DEF Bringing
<1> DEFINE h == Home(Specs[c].node)
           x == Original(c)
<1>1. c \in DOMAIN at /\ method' = method
  <2>1. CASE \E d \in CRs \ DOMAIN at : Submit(d)
    BY <2>1, Submitted DEF AtWork
  <2> QED
    BY <2>1, Shape DEF Next, StepOf, vars, Run
<1>2. Stops(c) /\ h' = h
  BY <1>1, StopsSame
<1>3. ASSUME jobs'[c] = jobs[c], Sound(c, From(c)), After(From(c)) = Read(From(c)),
             at[c] \in {"active"} \cup AtWork
      PROVE  /\ Sound(c, From(c))' /\ Expected(c)' = Expected(c)
             /\ Command(c)' = Command(c)
  <2> DEFINE p == From(c)
  <2> HIDE DEF p
  <2>1. Sound(c, p) /\ After(p) = Read(p)
    BY <1>3 DEF p
  <2>2. /\ x \in DOMAIN at' /\ at'[x] = "Complete" /\ Stops(x)'
        /\ began'[x] = began[x] /\ After(p).by = x
    BY <1>1, <1>3, <2>1, SoundKept
  <2>3. Read(From(c))' = After(p)
    BY <1>3 DEF Read, After, From, p
  <2>4. began[x].calm /\ (began[x].fresh \/ S(x).pack)
    BY <1>3, Zenon DEF Sound
  <2>5. Sound(c, From(c))'
    BY <2>2, <2>3, <2>4, Zenon DEF Sound
  <2>6. Command(c)' = Command(c) /\ F(c)' = F(c)
    BY <1>3 DEF Command, F
  <2>7. Expected(c)' = Expected(c)
    BY <2>2, <2>6, Zenon DEF Expected
  <2> QED
    BY <2>5, <2>6, <2>7
<1>4. CASE at'[c] = at[c]
  <2>1. /\ store'[h] = store[h] /\ jobs'[c] = jobs[c] /\ began'[c] = began[c]
    BY <1>1, <1>2, <1>4, Undisturbed
  <2>2. /\ Kind(c) \in {"Restore", "Recover"} /\ Sound(c, From(c))
        /\ Brings(at[c], Command(c), store[h].chain, Expected(c))
    BY <1>1, <1>2, <1>4, <2>1 DEF Bringing
  <2>3. After(From(c)) = Read(From(c))
    BY <1>1, <1>4, <2>2, SourceKept
  <2>4. Sound(c, From(c))' /\ Expected(c)' = Expected(c) /\ Command(c)' = Command(c)
    BY <1>3, <1>4, <2>1, <2>2, <2>3
  <2> QED
    BY <1>2, <1>4, <2>1, <2>2, <2>4
<1>5. CASE at'[c] # at[c]
  <2>1. StepOf(c)
    BY <1>1, <1>5, Moved
  <2>2. CASE Prepare(c)
    <3> DEFINE p == jobs'[c].from
    <3>1. at'[c] = "ready" /\ at[c] = "active"
      BY <1>1, <2>2 DEF Prepare, Move
    <3>2. Kind(c) \in {"Restore", "Recover"} /\ Sound(c, p)
      BY <1>1, <2>2, Remembers
    <3>3. Read(From(c))' = After(p)
      BY DEF Read, After, From
    <3> HIDE DEF p
    <3>4. After(p) = Read(p)
      <4>1. DOMAIN store \subseteq DOMAIN store'
        BY <1>1, <2>1, Shape
      <4> QED
        BY <1>1, <2>2, <4>1, ClaimIsNew DEF After, Read
    <3>5. /\ x \in DOMAIN at' /\ at'[x] = "Complete" /\ Stops(x)'
          /\ began'[x] = began[x] /\ After(p).by = x
      BY <1>1, <3>1, <3>2, <3>4, SoundKept
    <3>6. began[x].calm /\ (began[x].fresh \/ S(x).pack)
      BY <3>2, Zenon DEF Sound
    <3>7. Sound(c, From(c))'
      BY <3>3, <3>5, <3>6, Zenon DEF Sound
    <3> QED
      BY <3>1, <3>2, <3>7 DEF Brings
  <2>3. CASE BeginWork(c) \/ EndWork(c)
    <3>1. c \in DOMAIN jobs /\ at[c] \in AtWork
      BY <1>1, <2>3 DEF BeginWork, EndWork, JobsKnown, AtWork
    <3>2. began[c].sound /\ began[c].calm
      <4>1. began' = began \/ began' = Noted(c)
        <5>1. ~Prepare(c) /\ ~Break(c)
          BY <1>1, <3>1 DEF Prepare, Break, Move, AtWork
        <5>2. faults \in Nat
          BY DEF Typed
        <5> QED
          BY <1>1, <2>1, <5>1, <5>2, Leaves
      <4> QED
        BY <3>1, <4>1 DEF Noted, JobsKnown
    <3>3. /\ After(From(c)) = Read(From(c)) /\ jobs' = jobs /\ began'[c] = began[c]
          /\ Brings(at'[c], Command(c), store'[h].chain, Expected(c))
      BY <1>1, <1>2, <2>3, <3>1, <3>2, BringingStep
    <3>4. Kind(c) \in {"Restore", "Recover"} /\ Sound(c, From(c))
      BY <1>1, <1>2, <3>1, <3>2 DEF Bringing
    <3>5. Sound(c, From(c))' /\ Expected(c)' = Expected(c) /\ Command(c)' = Command(c)
      BY <1>3, <3>1, <3>3, <3>4
    <3> QED
      BY <1>2, <3>3, <3>4, <3>5
  <2>4. ~Finish(c) /\ ~Break(c) /\ ~DeleteJob(c)
    BY <1>1 DEF Finish, Break, DeleteJob, Move, AtWork
  <2> QED
    BY <2>1, <2>2, <2>3, <2>4 DEF StepOf, Program
<1> QED
  BY <1>4, <1>5

\* From end to end: when a Restore or Recover becomes Complete, its node has exactly the
\* data that the node it was saved from had when the Backup, Snapshot or Duplicate
\* stopped it, although the Jobs of both went through defaults, flags, paths and
\* mounts, may have been made again half-way, and other nodes went on meanwhile.
\* The copy is one that stopped its node and is not laid on top of an older one, and
\* nobody has written to it since.
THEOREM RestoresSaved ==
  ASSUME Separate, SameCopy
  PROVE  Spec /\ Single => RestoresWhatWasSaved
<1>1. Init => By /\ Saving /\ Saved /\ Bringing
  <2>1. Init => DOMAIN at = {}
    <3>1. Init => at = <<>>
      BY DEF Init
    <3> QED
      BY <3>1
  <2> QED
    BY <2>1, ByInit DEF Saving, Saved, Bringing
<1>2. /\ Working /\ By /\ Saving /\ Saved /\ Bringing /\ [Next]_vars
      => By' /\ Saving' /\ Saved' /\ Bringing'
  BY ByNext, SavingNext, SavedNext, BringingNext DEF Working
<1>3. /\ Working /\ By /\ Saving /\ Saved /\ Bringing /\ [Next]_vars
      => [\A c \in DOMAIN at :
            Completes(c) /\ Stops(c) /\ began[c].sound /\ began[c].calm
              => Left(c).chain = Expected(c)]_vars
  <2> SUFFICES ASSUME Bringing, [Next]_vars, NEW c \in DOMAIN at, Completes(c), Stops(c),
                      began[c].sound, began[c].calm
               PROVE  Left(c).chain = Expected(c)
    OBVIOUS
  <2>1. at[c] = "done" /\ store' = store
    BY Completed DEF Completes
  <2>2. Brings(at[c], Command(c), store[Home(Specs[c].node)].chain, Expected(c))
    BY <2>1 DEF Bringing, AtWork
  <2> QED
    BY <2>1, <2>2 DEF Brings, Left
<1> QED
  BY <1>1, <1>2, <1>3, WorkingAlways, PTL DEF Spec, RestoresWhatWasSaved

=============================================================================
