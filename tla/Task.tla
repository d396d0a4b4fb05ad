-------------------------------- MODULE Task --------------------------------
(***************************************************************************)
(* What a custom resource of the operator promises its user: it is         *)
(* accepted, its operation is run once, and its status then says for good  *)
(* how the operation ended.                                                *)
(***************************************************************************)
CONSTANT Tasks

VARIABLES
  status,  \* what the user sees: "none" before the task is submitted
  outcome  \* what became of the operation

vars == <<status, outcome>>

\* The status that reports an outcome.
Report(o) == IF o = "Succeeded" THEN "Complete" ELSE "Failed"

TypeOK ==
  /\ status \in [Tasks -> {"none", "", "Active", "Complete", "Failed"}]
  /\ outcome \in [Tasks -> {"none", "running", "Succeeded", "Failed"}]

Init ==
  /\ status = [t \in Tasks |-> "none"]
  /\ outcome = [t \in Tasks |-> "none"]

Submit(t) ==
  /\ status[t] = "none"
  /\ status' = [status EXCEPT ![t] = ""]
  /\ UNCHANGED outcome

Accept(t) ==
  /\ status[t] = ""
  /\ status' = [status EXCEPT ![t] = "Active"]
  /\ UNCHANGED outcome

Start(t) ==
  /\ status[t] = "Active"
  /\ outcome[t] = "none"
  /\ outcome' = [outcome EXCEPT ![t] = "running"]
  /\ UNCHANGED status

End(t) ==
  /\ outcome[t] = "running"
  /\ \E o \in {"Succeeded", "Failed"} : outcome' = [outcome EXCEPT ![t] = o]
  /\ UNCHANGED status

Finish(t) ==
  /\ status[t] = "Active"
  /\ outcome[t] \in {"Succeeded", "Failed"}
  /\ status' = [status EXCEPT ![t] = Report(outcome[t])]
  /\ UNCHANGED outcome

Next == \E t \in Tasks : Submit(t) \/ Accept(t) \/ Start(t) \/ End(t) \/ Finish(t)

Spec == Init /\ [][Next]_vars
=============================================================================
