------------------------------ MODULE MCJobRbac ------------------------------
(* A small instance of JobRbac. *)
EXTENDS JobRbac, TLC

CONSTANTS backups, restores, east, west

TwoWorkers    == {backups, restores}
TwoNamespaces == {east, west}
ThreeResources == {<<backups, east>>, <<restores, east>>, <<restores, west>>}
=============================================================================
