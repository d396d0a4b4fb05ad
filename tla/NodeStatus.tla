----------------------------- MODULE NodeStatus -----------------------------
(***************************************************************************)
(* What the status of a CitaNode promises to whoever watches it: it moves  *)
(* along the life of a node, and says Starting or Stopping on account of    *)
(* the state that the CitaNode wants at that moment.                       *)
(***************************************************************************)
VARIABLES
  exists,
  wanted, \* the desired state
  status

vars == <<exists, wanted, status>>

Wanted == {"Running", "Stopped"}

Init == ~exists /\ status = "" /\ wanted \in Wanted

Create == ~exists /\ exists' /\ status' = "" /\ wanted' \in Wanted
Delete == exists /\ ~exists' /\ status' = "" /\ wanted' \in Wanted
Want   == exists /\ exists' /\ wanted' \in Wanted /\ UNCHANGED status

\* What happens to the node by itself.
Lives == {<<"", "Starting">>, <<"Starting", "Running">>, <<"Stopping", "Stopped">>,
          <<"Running", "Error">>, <<"Error", "Running">>}

Live ==
  /\ exists
  /\ <<status, status'>> \in Lives
  /\ UNCHANGED <<exists, wanted>>

\* What its user makes happen.
Act ==
  /\ exists
  /\ status # ""
  /\ \/ status' = "Starting" /\ wanted = "Running"
     \/ status' = "Stopping" /\ wanted = "Stopped"
     \/ status' = "Upgrading"
  /\ UNCHANGED <<exists, wanted>>

Next == Create \/ Delete \/ Want \/ Live \/ Act

Spec == Init /\ [][Next]_vars
=============================================================================
