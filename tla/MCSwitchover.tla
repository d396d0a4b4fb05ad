---------------------------- MODULE MCSwitchover ----------------------------
(* Small instances of Switchover. *)
EXTENDS Switchover, TLC

CONSTANTS n1, n2, k1, k2, a, b

AllNodes    == {n1, n2}
AllAccounts == {k1, k2}
OwnAccount  == n1 :> k1 @@ n2 :> k2

TwoJobs == {a, b}

\* There and back.
SourceBack == a :> n1 @@ b :> n2
DestBack   == a :> n2 @@ b :> n1

\* The same switchover twice.
SourceAgain == a :> n1 @@ b :> n1
DestAgain   == a :> n2 @@ b :> n2
=============================================================================
