--------------------------- MODULE TaskProperties ---------------------------
(***************************************************************************)
(* What the task pipeline promises: properties of TaskPipeline.            *)
(***************************************************************************)
EXTENDS TaskPipeline

PollState ==
    [at : {"idle"}, task : {None}, snap : {"none"}]
    \cup [at : {"read"}, task : Tasks, snap : {"none"}]
    \cup [at : {"fill"}, task : Tasks, snap : Status]

\* Every variable has its type.
TypeOK ==
    /\ sub \in [Tasks -> {"s_put", "s_create", "s_cache", "s_publish", "done", "failed"}]
    /\ stored \subseteq Tasks
    /\ db \in [Tasks -> Status \cup {"none"}]
    /\ aged \subseteq Tasks
    /\ cache \in [Tasks -> Status \cup {"miss"}]
    /\ queue \in [Message -> Nat]
    /\ dlq \subseteq Message
    /\ unacked \in [Workers -> Handlers \cup {None}]
    /\ pc \in [Handlers -> WorkerPoints \cup {"idle"}]
    /\ msg \in [Handlers -> Message \cup {None}]
    /\ events \in [Tasks -> Seq({"complete", "error"})]
    /\ hooks \in [Tasks -> SUBSET {"completed", "failed"}]
    /\ poll \in [Pollers -> PollState]
    /\ faults \in Nat
    /\ losses \in Nat
    /\ runs \in [Tasks -> Nat]
    /\ finished \subseteq Tasks
    /\ committed \subseteq Tasks
    /\ redelivered \subseteq Tasks

-----------------------------------------------------------------------------
InQueue(t) == \E m \in Message : m.task = t /\ queue[m] > 0
InDlq(t) == \E m \in dlq : m.task = t

\* A handler is busy with t; it is working until it has published the retry.
Busy(h, t) == pc[h] # "idle" /\ Task(h) = t
Working(h, t) == Busy(h, t) /\ pc[h] \notin {"ack_retry", "outer_nack"}
Executing(h, t) == Busy(h, t) /\ pc[h] \in ExecutePoints

\* The delivery a handler holds is the only thing that keeps t alive.
Carries(h, t) == Held(h) /\ pc[h] # "ack_retry" /\ Task(h) = t

\* Something still stands for t, or it was executed to the end.
Kept(t) ==
    \/ InQueue(t)
    \/ \E h \in Handlers : Carries(h, t)
    \/ InDlq(t)
    \/ t \in finished

\* A client can see that t is complete without reading its row.
Announced(t) ==
    \/ cache[t] = "completed"
    \/ "completed" \in hooks[t]
    \/ \E i \in 1..Len(events[t]) : events[t][i] = "complete"

\* Nothing will happen to an accepted task any more.
Settled(t) ==
    /\ sub[t] = "done"
    /\ ~InQueue(t)
    /\ \A h \in Handlers : ~Busy(h, t)

-----------------------------------------------------------------------------
(* A task the API accepted (202) is never lost: its message is in the queue, *)
(* or a worker still owes its acknowledgement, or it is dead-lettered, or an *)
(* execute of it has returned normally.  Publish-before-acknowledge in       *)
(* process_message is what this is about, under every loss and fault.        *)
NothingLost == \A t \in Tasks : sub[t] = "done" => Kept(t)

(* Two handlers execute the same task at once only after the broker has     *)
(* requeued a lost delivery of it: retries alone never overlap, although the *)
(* retry is published before the failed delivery is acknowledged.           *)
ExclusiveExecution ==
    \A t \in Tasks \ redelivered, h1, h2 \in Handlers :
        Executing(h1, t) /\ Executing(h2, t) => h1 = h2

(* Unless a delivery of it is lost, a task is delivered at most             *)
(* MAX_RETRIES + 1 times, whatever fails in between.                        *)
AttemptsBounded ==
    \A t \in Tasks \ redelivered : runs[t] <= MaxRetries + 1

(* Each lost delivery costs at most MAX_RETRIES + 1 further ones: the       *)
(* coroutine it leaves behind and the delivery that follows each go on with *)
(* the retries their header leaves them, and both publish retries.          *)
AttemptsPerLoss ==
    \A t \in Tasks : runs[t] <= (MaxRetries + 1) * (losses + 1)

(* Whatever tells a client that a task is complete - the cached status, the *)
(* complete event, the webhook - comes after the row was set to completed.  *)
(* (A row past its retention may be deleted under a late attempt.)          *)
AnnouncedAfterCommit ==
    \A t \in Tasks \ aged : Announced(t) => t \in committed

(* A message in the queue, or being executed, names a task whose input is   *)
(* stored and whose row exists, unless retention removed the row: submit    *)
(* publishes last, whichever of its calls fail.                             *)
WorkerFindsTask ==
    \A t \in Tasks :
        (InQueue(t) \/ \E h \in Handlers : Busy(h, t))
        => t \in stored /\ (db[t] # "none" \/ t \in aged)

(* Completed is final for a task none of whose deliveries is lost, when no  *)
(* call raises between the commit of the result and the webhook: no retry   *)
(* is left behind that would set the row back to processing or failed.      *)
PostCommit == {"save_db", "save_cache", "send_complete"}

CompletedIsFinal ==
    [][\A t \in Tasks :
         /\ FaultPoints \cap PostCommit = {}
         /\ t \notin redelivered'
         /\ db[t] = "completed"
         => \/ db'[t] = "completed"
            \/ t \in aged /\ db'[t] = "none"]_vars

\* Only the work of execute, and the calls of submit, raise.
WorkOnly == FaultPoints \subseteq {"compute"} \cup DOMAIN SubmitNext

LastEvent(t) == IF events[t] = <<>> THEN "nothing" ELSE events[t][Len(events[t])]

\* Row, last event (of a voice task) and cached status of t tell this outcome;
\* a poll may have cached what it read earlier.
Tells(t, status, event) ==
    /\ db[t] = status
    /\ LastEvent(t) = IF t \in VoiceTasks THEN event ELSE "nothing"
    /\ Pollers = {} => cache[t] \in {"miss", status}

(* When only the work itself fails, all the places that tell a client about *)
(* a task agree once it is settled, unless a delivery of it was lost: row,  *)
(* cached status, last event and dead-letter queue all say completed, or    *)
(* all say failed after exactly MAX_RETRIES + 1 attempts.                   *)
SettledOutcome ==
    WorkOnly =>
        \A t \in Tasks \ (redelivered \cup aged) : Settled(t) =>
            \/ Tells(t, "completed", "complete") /\ ~InDlq(t)
            \/ Tells(t, "failed", "error") /\ InDlq(t) /\ runs[t] = MaxRetries + 1

(* Whatever raises: once an execute of t returned normally, row, cached     *)
(* status and last event say completed for good, although the attempts      *)
(* before it may have failed before or after their commit; and a settled    *)
(* task no execute of which returned is dead-lettered, however far behind   *)
(* its row was left - an except block whose own update raised leaves it at  *)
(* processing.  (Unless a delivery was lost or retention is due.)           *)
FinishedOrBuried ==
    \A t \in Tasks \ (redelivered \cup aged) :
        /\ t \in finished => Tells(t, "completed", "complete")
        /\ Settled(t) /\ t \notin finished => InDlq(t)

-----------------------------------------------------------------------------
(* The pipeline implements TaskDelivery: what is owed stays owed until it   *)
(* is served or buried, and is served or buried eventually.                 *)
Job == [t \in Tasks |->
          CASE t \in finished -> "served"
            [] t \notin finished /\ InDlq(t) -> "buried"
            [] t \notin finished /\ ~InDlq(t)
               /\ (InQueue(t) \/ \E h \in Handlers : Carries(h, t)) -> "owed"
            [] OTHER -> "none"]

Delivery == INSTANCE TaskDelivery WITH job <- Job

ImplementsDelivery == Delivery!FairSpec

(* A poll that read the row before the worker's last write may put a stale  *)
(* status into the cache after it; the TTL bounds how long it is served.    *)
StaleStatusExpires ==
    \A t \in Tasks : Settled(t) ~> [](cache[t] \in {"miss", db[t]})

-----------------------------------------------------------------------------
(* The stream endpoint documents "complete - pipeline finished" and "error - *)
(* pipeline failed".  A reader replays the stream from its beginning and     *)
(* stops at the first of the two.                                            *)
StreamTellsOutcome ==
    \A t \in VoiceTasks :
        Settled(t) /\ db[t] = "completed" /\ events[t] # <<>>
        => events[t][1] = "complete"
=============================================================================
