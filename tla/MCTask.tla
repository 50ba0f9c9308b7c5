------------------------------- MODULE MCTask -------------------------------
(***************************************************************************)
(* Instances of TaskPipeline for TLC.                                      *)
(***************************************************************************)
EXTENDS TaskProperties, FiniteSets, TLC

CONSTANTS t1, t2, w1, w2, h1, h2, h3

\* One worker process, as docker-compose runs it, with two coroutines: the
\* second exists only while the delivery of the first is lost.
OneWorker == (h1 :> w1) @@ (h2 :> w1)

\* One worker process whose connection is never lost.
OneHandler == h1 :> w1

\* Two worker processes, the first with two coroutines.
TwoWorkers == (h1 :> w1) @@ (h2 :> w1) @@ (h3 :> w2)

\* Every call of submit, of execute and of process_message that can raise.
AllPoints == (ExecutePoints \ {"hook_done", "hook_failed"})
             \cup DOMAIN SubmitNext \cup {"except"}
ComputeOnly == {"compute"}
WorkPoints == ComputeOnly \cup DOMAIN SubmitNext
=============================================================================
