---------------------------- MODULE AccountSwitch ----------------------------
(***************************************************************************)
(* What a Switchover promises: the accounts of two nodes are switched, in   *)
(* one step as far as a user can tell, and nothing else happens to the      *)
(* accounts.                                                               *)
(***************************************************************************)
CONSTANTS Nodes, Accounts,
          Pairs  \* the pairs of nodes that may be switched

VARIABLE holds   \* the account of a node

Init == holds \in [Nodes -> Accounts] /\ \A m, n \in Nodes : holds[m] = holds[n] => m = n

Switch(m, n) == holds' = [holds EXCEPT ![m] = holds[n], ![n] = holds[m]]

Next == \E p \in Pairs : Switch(p[1], p[2])

Spec == Init /\ [][Next]_holds
=============================================================================
