--------------------------- MODULE MCNodeOperation ---------------------------
(* Small instances of NodeOperation. *)
EXTENDS NodeOperation, TLC

CONSTANTS a, b, c

OneJob  == {a}
TwoJobs == {a, b}
ThreeJobs == {a, b, c}

RestoreOnly        == [j \in Jobs |-> "Restore"]
SnapshotAndMore    == a :> "Snapshot" @@ b :> "ChangeOwner" @@ c :> "SnapshotRecover"
BackupAndRestore   == a :> "Backup" @@ b :> "Restore"
RestoreAndFallback == a :> "Restore" @@ b :> "Fallback"

AllStop == [j \in Jobs |-> "StopAndStart"]
=============================================================================
