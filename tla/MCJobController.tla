--------------------------- MODULE MCJobController ---------------------------
(* Small instances of JobController. *)
EXTENDS JobTask, TLC

CONSTANTS x, y, n1, n2

OneCR    == {x}
TwoCRs   == {x, y}
OneName  == {n1}
TwoNames == {n1, n2}

BackupAndSnapshot == x :> "Backup" @@ y :> "Snapshot"

\* A Backup x and a Restore y that refers to it.
BackupAndRestore == x :> "Backup" @@ y :> "Restore"
RestoreOfBackup  == x :> None @@ y :> x

NoRefs   == [c \in CRs |-> None]

OwnNames   == x :> n1 @@ y :> n2
SharedName == [c \in CRs |-> n1]

Once       == [c \in CRs |-> 1]
Twice      == [c \in CRs |-> 2]
FirstTwice == x :> 2 @@ y :> 1

SingleKind(kind) == [c \in CRs |-> kind]
RecoverOnly    == SingleKind("Recover")
BackupOnly     == SingleKind("Backup")
=============================================================================
