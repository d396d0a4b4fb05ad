------------------------------ MODULE JobSpec ------------------------------
(***************************************************************************)
(* What a Job of the operator is told.  A reconciler turns a custom        *)
(* resource into a Job: claims mounted at directories, and arguments.  The *)
(* program in its pod adds the defaults of the flags it was not given, and *)
(* works on paths, which the mounts turn into places on the claims.        *)
(*                                                                         *)
(* A path is a sequence of names.  Of the arguments those are kept that    *)
(* decide which data is worked on and how.                                 *)
(***************************************************************************)
EXTENDS Naturals, Sequences

Seqs == INSTANCE SequencesExt

CONSTANTS
  Nodes,  \* the nodes of the chain
  Images  \* which known names the images of a node's containers contain

\* A function of one argument, and two functions as one, of which the left counts
\* where both say something: a map of the code, and what is set or left as it is in it.
x :> v == [y \in {x} |-> v]
f @@ g == [x \in DOMAIN f \cup DOMAIN g |-> IF x \in DOMAIN f THEN f[x] ELSE g[x]]

Methods == {"cloud-config", "python", "helm"}

ASSUME ImagesAssumption ==
  Images \in [Nodes -> [crypto: SUBSET {"sm", "eth"},
                        consensus: SUBSET {"bft", "raft", "overlord"}]]

\* The fixed directories of pods.
BackupSource  == <<"backup-source">>
BackupDest    == <<"backup-dest">>
RestoreSource == <<"restore-source">>
RestoreDest   == <<"restore-dest">>
VolumeMount   == <<"mnt">>
ConfigMount   == <<"cita-config">>
ChangeOwner   == <<"change-owner">>

\* Volumes: the claim of a StatefulSet's pod, the claim all Deployments or pods
\* of a chain share, a claim named after a resource, the configmap of a node.
DataDir(n)   == <<"datadir", n>>
ChainClaim   == <<"datadir", "chain">>
OwnClaim(c)  == <<"resource", c>>
ConfigMap(n) == <<"config", n>>
NoClaim      == <<"", "">>
-----------------------------------------------------------------------------
(* The spec of a custom resource.                                          *)

Default == [action |-> "StopAndStart", uid |-> 1000]

setDefaultSpec(s) ==
  [s EXCEPT !.action = IF @ = "" THEN Default.action ELSE @,
            !.uid = IF @ = 0 THEN Default.uid ELSE @]

\* The first name a container's image contains, in the order of the code; ""
\* if there is none, or no such container.
FirstOf(names, known) ==
  IF \E i \in DOMAIN known : known[i] \in names
  THEN SelectSeq(known, LAMBDA name : name \in names)[1]
  ELSE ""

filterCrypto(n)    == FirstOf(Images[n].crypto, <<"sm", "eth">>)
filterConsensus(n) == FirstOf(Images[n].consensus, <<"bft", "raft", "overlord">>)
-----------------------------------------------------------------------------
(* Jobs.  m is the deployment method, c the name of the resource, s its    *)
(* spec.                                                                   *)

\* The first component.
GetMountPoint(path) == <<path[1]>>

\* The claim a reconciler takes for the data of a node: to save it, ...
SourceClaim(m, n) == IF m = "python" THEN ChainClaim ELSE DataDir(n)

\* ... to write it back (for the other methods that is still to do), ...
RestoreClaim(m, n) == IF m = "cloud-config" THEN DataDir(n) ELSE NoClaim

\* ... and to change it.
VolumeClaim(m, n) == IF m = "cloud-config" THEN DataDir(n) ELSE ChainClaim

\* The node's configmap, on the methods that have one.
ConfigMounts(m, n) == IF m = "cloud-config" THEN ConfigMount :> ConfigMap(n)
                      ELSE <<>>

Common(m, s) == [method |-> m, node |-> s.node, action |-> s.action]

\* Crypto is left to the flag's default when it is not known.
Algorithms(n) ==
  [consensus |-> filterConsensus(n)]
    @@ (IF filterCrypto(n) = "" THEN <<>> ELSE [crypto |-> filterCrypto(n)])

ClearFlag(s) == IF s.clear THEN [clear |-> TRUE] ELSE <<>>

Job(command, mounts, args) == [command |-> command, mounts |-> mounts, args |-> args]

jobForBackup(m, c, s) ==
  Job("backup",
      BackupSource :> SourceClaim(m, s.node) @@ BackupDest :> OwnClaim(c),
      Common(m, s))

jobForSnapshot(m, c, s) ==
  Job("snapshot",
      BackupSource :> SourceClaim(m, s.node) @@ BackupDest :> OwnClaim(c)
        @@ ConfigMounts(m, s.node),
      Common(m, s) @@ Algorithms(s.node) @@ [height |-> s.height])

\* Mutant: an archive without a name of its own gets none.
jobForDuplicateUnnamed(m, c, s) ==
  LET source == SourceClaim(m, s.node)
      mount  == GetMountPoint(s.path)
      onePvc == source = s.claim
      pack   == IF s.pack
                THEN [compress |-> TRUE, output |-> s.file]
                ELSE <<>>
  IN  Job("backup",
          IF onePvc THEN mount :> source
                    ELSE BackupSource :> source @@ mount :> s.claim,
          Common(m, s) @@ pack
            @@ [source |-> IF onePvc THEN Append(mount, s.node) ELSE BackupSource,
                dest |-> s.path])

jobForDuplicate(m, c, s) ==
  LET source == SourceClaim(m, s.node)
      mount  == GetMountPoint(s.path)
      onePvc == source = s.claim
      pack   == IF s.pack
                THEN [compress |-> TRUE, output |-> IF s.file = "" THEN c ELSE s.file]
                ELSE <<>>
  IN  Job("backup",
          IF onePvc THEN mount :> source
                    ELSE BackupSource :> source @@ mount :> s.claim,
          Common(m, s) @@ pack
            @@ [source |-> IF onePvc THEN Append(mount, s.node) ELSE BackupSource,
                dest |-> s.path])

jobForRestore(m, s) ==
  Job("restore",
      RestoreSource :> OwnClaim(s.backup) @@ RestoreDest :> RestoreClaim(m, s.node),
      Common(m, s) @@ ClearFlag(s))

\* height is that of the Snapshot.
jobForSnapshotRecover(m, s, height) ==
  Job("snapshot-recover",
      RestoreSource :> OwnClaim(s.snapshot) @@ RestoreDest :> RestoreClaim(m, s.node)
        @@ ConfigMount :> ConfigMap(s.node),
      Common(m, s) @@ Algorithms(s.node) @@ [height |-> height] @@ ClearFlag(s))

\* Of the checksum the job keeps whether the resource carries one.
jobForRecover(m, s) ==
  Job("restore",
      GetMountPoint(s.path) :> s.claim @@ RestoreDest :> RestoreClaim(m, s.node),
      Common(m, s) @@ ClearFlag(s)
        @@ [source |-> s.path, dest |-> RestoreDest]
        @@ (IF s.pack THEN [decompress |-> TRUE, md5 |-> s.md5, input |-> s.file]
            ELSE <<>>))

\* Mutant: the crypto algorithm is left to the flag's default.
jobForFallbackNoCrypto(m, s) ==
  Job("fallback",
      VolumeMount :> VolumeClaim(m, s.node) @@ ConfigMounts(m, s.node),
      Common(m, s) @@ ClearFlag(s)
        @@ [height |-> s.height, consensus |-> filterConsensus(s.node)])

jobForBlockHeightFallback(m, s) ==
  Job("fallback",
      VolumeMount :> VolumeClaim(m, s.node) @@ ConfigMounts(m, s.node),
      Common(m, s) @@ Algorithms(s.node) @@ [height |-> s.height] @@ ClearFlag(s))

jobForChangeOwner(m, s) ==
  Job("chown", ChangeOwner :> SourceClaim(m, s.node), Common(m, s) @@ [uid |-> s.uid])
-----------------------------------------------------------------------------
(* The program of a Job.                                                   *)

ChainDefaults == [height |-> 999999999, crypto |-> "sm", consensus |-> "bft",
                  clear |-> FALSE]

FlagDefaults ==
  [backup   |-> [source |-> BackupSource, dest |-> BackupDest,
                 compress |-> FALSE, output |-> ""],
   restore  |-> [source |-> RestoreSource, dest |-> RestoreDest, decompress |-> FALSE,
                 md5 |-> FALSE, input |-> "", clear |-> FALSE],
   snapshot |-> ChainDefaults,
   fallback |-> ChainDefaults,
   chown    |-> [uid |-> 1000]] @@ ("snapshot-recover" :> ChainDefaults)

Flags(job) == job.args @@ FlagDefaults[job.command]

\* Mutant: the directory of the node is forgotten.
NodeRootOfAll(mount, flags) == mount

\* The directory of a node on what is mounted at "mount".
NodeRoot(mount, flags) == IF flags.method = "cloud-config" THEN mount
                          ELSE Append(mount, flags.node)

\* The directories the command works on, as the node operations choose them.
Source(job) ==
  CASE job.command \in {"backup", "restore"} -> Flags(job).source
    [] job.command = "snapshot"              -> NodeRoot(BackupSource, Flags(job))
    [] job.command = "snapshot-recover"      -> RestoreSource
    [] job.command = "fallback"              -> NodeRoot(VolumeMount, Flags(job))
    [] job.command = "chown"                 -> NodeRoot(ChangeOwner, Flags(job))

Target(job) ==
  CASE job.command \in {"backup", "restore"} -> Flags(job).dest
    [] job.command = "snapshot"              -> BackupDest
    [] job.command = "snapshot-recover"      -> RestoreDest
    [] job.command \in {"fallback", "chown"} -> Source(job)

\* Where the configuration is read: the configmap, or the node's directory.
Config(job) ==
  IF Flags(job).method = "cloud-config" THEN ConfigMount
  ELSE IF job.command = "snapshot" THEN Source(job) ELSE Target(job)

\* A path in the pod is a place on the claim mounted there, or, if none is, a
\* place that is gone with the pod.
Resolve(job, path) ==
  IF \E mount \in DOMAIN job.mounts : Seqs!IsPrefix(mount, path)
  THEN LET mount == CHOOSE p \in DOMAIN job.mounts : Seqs!IsPrefix(p, path)
       IN  <<job.mounts[mount], SubSeq(path, Len(mount) + 1, Len(path))>>
  ELSE <<NoClaim, path>>
=============================================================================
