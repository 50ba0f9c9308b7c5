---------------------------- MODULE TaskDelivery ----------------------------
(***************************************************************************)
(* What the queue, its dead-letter queue and the worker promise together,  *)
(* seen from one task: a task that is owed an execution is served by one   *)
(* that returns normally or is buried in the dead-letter queue, and no     *)
(* loss or fault takes it back.  Delivery is at least once: a late         *)
(* duplicate may still serve a task that is already buried.                *)
(***************************************************************************)
CONSTANT Tasks

VARIABLE job    \* "none", "owed", "served" or "buried", for each task

TypeOK == job \in [Tasks -> {"none", "owed", "served", "buried"}]

Init == job = [t \in Tasks |-> "none"]

Owe(t) ==
    /\ job[t] = "none"
    /\ job' = [job EXCEPT ![t] = "owed"]

Serve(t) ==
    /\ job[t] \in {"owed", "buried"}
    /\ job' = [job EXCEPT ![t] = "served"]

Bury(t) ==
    /\ job[t] = "owed"
    /\ job' = [job EXCEPT ![t] = "buried"]

Next == \E t \in Tasks : Owe(t) \/ Serve(t) \/ Bury(t)

Spec == Init /\ [][Next]_job

\* An owed task does not stay owed.
FairSpec == Spec /\ \A t \in Tasks : WF_job((Serve(t) /\ job[t] = "owed") \/ Bury(t))
=============================================================================
