---------------------------- MODULE TaskPipeline ----------------------------
(***************************************************************************)
(* The life of a task, from the HTTP request that submits it to the last   *)
(* thing a worker does with its message: the API's submit, the RabbitMQ    *)
(* queue and its dead-letter queue, the worker's message handler with its  *)
(* retries, the use case's execute, the rows of PostgreSQL, the status     *)
(* entries of Redis, the terminal events of the Redis stream, the webhook, *)
(* the poll endpoint and the retention loop.                               *)
(*                                                                         *)
(* Every await of the code is a step, so that requests, handlers, polls    *)
(* and the clean-up interleave between any two of them.  A call on another *)
(* service returns, raises without effect, or raises although it took      *)
(* effect (a lost reply).                                                  *)
(***************************************************************************)
EXTENDS Naturals, Sequences

CONSTANTS
    Tasks,        \* task ids
    VoiceTasks,   \* the tasks of POST /chat/voice; the others are text tasks
    Hooked,       \* the tasks submitted with a webhook_url
    Workers,      \* worker processes
    Handlers,     \* slots for concurrent on_message coroutines
    WorkerOf,     \* the worker a slot belongs to
    Pollers,      \* concurrent requests to GET /tasks/{task_id}
    MaxRetries,   \* MAX_RETRIES of the worker
    FaultPoints,  \* the points at which a call may raise
    MaxFaults,    \* bound: calls that raise
    MaxLosses,    \* bound: worker crashes and lost broker connections
    Ageing,       \* whether a row may become older than the retention period
    None

Message == [task : Tasks, retry : 0..MaxRetries]

ASSUME ConstantsAssumption ==
    /\ VoiceTasks \subseteq Tasks
    /\ Hooked \subseteq Tasks
    /\ WorkerOf \in [Handlers -> Workers]
    /\ MaxRetries \in Nat
    /\ MaxFaults \in Nat
    /\ MaxLosses \in Nat
    /\ Ageing \in BOOLEAN
    /\ None \notin Handlers
    /\ None \notin Message
    /\ None \notin Tasks

VARIABLES
    sub,          \* progress of each task's submit
    stored,       \* tasks whose input object is in the object store
    db,           \* status column of each row, "none" when there is no row
    aged,         \* tasks whose created_at is before the retention cutoff
    cache,        \* status in each task's Redis entry, "miss" when there is none
    queue,        \* copies of each message in voicebot.tasks
    dlq,          \* messages in voicebot.tasks.dlq
    unacked,      \* the handler whose delivery a worker's channel still owes
    pc,           \* where each handler is
    msg,          \* the message each handler works on
    events,       \* terminal events in each task's stream, in order
    hooks,        \* statuses posted to each task's webhook
    poll,         \* progress of each poll
    faults,       \* calls that raised so far
    losses,       \* crashes and lost connections so far
    runs,         \* history: deliveries of each task to a handler
    finished,     \* history: tasks an execute of which returned normally
    committed,    \* history: tasks whose row was ever set to completed
    redelivered   \* history: tasks a delivery of which was lost and requeued

vars == <<sub, stored, db, aged, cache, queue, dlq, unacked, pc, msg, events,
          hooks, poll, faults, losses, runs, finished, committed, redelivered>>

apiVars  == <<sub, stored>>
redisVars == <<cache, events>>
brokerVars == <<queue, dlq, unacked>>
history == <<runs, finished, committed, redelivered>>

Status == {"pending", "processing", "completed", "failed"}

-----------------------------------------------------------------------------
(***************************************************************************)
(* Control flow.                                                           *)
(***************************************************************************)

\* Defect: the message is published before the row exists.
SubmitNextPublishEarly == [s_put |-> "s_publish", s_publish |-> "s_create",
                           s_create |-> "s_cache", s_cache |-> "done"]

\* submit: put the input, create the row, cache the status, publish.
SubmitNext == [s_put |-> "s_create", s_create |-> "s_cache",
               s_cache |-> "s_publish", s_publish |-> "done"]

\* Defect: the completed status is cached before it is committed.
NextPointCacheFirst ==
    [load |-> "mark_db", mark_db |-> "mark_cache", mark_cache |-> "compute",
     compute |-> "save_cache", save_cache |-> "save_db",
     save_db |-> "send_complete", send_complete |-> "hook_done",
     hook_done |-> "ack",
     fail_db |-> "fail_cache", fail_cache |-> "send_error",
     send_error |-> "hook_failed", hook_failed |-> "except"]

\* execute, in the order of its awaits: the successful path, then the
\* except block, which ends by re-raising into process_message.
NextPoint ==
    [load |-> "mark_db", mark_db |-> "mark_cache", mark_cache |-> "compute",
     compute |-> "save_db", save_db |-> "save_cache",
     save_cache |-> "send_complete", send_complete |-> "hook_done",
     hook_done |-> "ack",
     fail_db |-> "fail_cache", fail_cache |-> "send_error",
     send_error |-> "hook_failed", hook_failed |-> "except"]

ExecutePoints == DOMAIN NextPoint
WorkerPoints  == ExecutePoints \cup {"ack", "except", "ack_retry", "outer_nack"}

\* Only the voice pipeline publishes events.
After(p, t) ==
    IF NextPoint[p] \in {"send_complete", "send_error"} /\ t \notin VoiceTasks
    THEN NextPoint[NextPoint[p]]
    ELSE NextPoint[p]

\* Defect: a failure of the work does not enter the except block.
OnRaiseUncaught(p) ==
    IF p \in {"save_db", "save_cache", "send_complete"} THEN "fail_db" ELSE "except"

\* Defect: an error of Redis past the commit is logged and execute goes on.
OnRaiseSwallow(p) ==
    IF p \in {"compute", "save_db"} THEN "fail_db"
    ELSE IF p \in {"save_cache", "send_complete"} THEN "hook_done" ELSE "except"

\* The try block of execute starts after the row and the entry are marked
\* processing: a call that raises before it, or in the except block itself,
\* raises out of execute.
OnRaise(p) ==
    IF p \in {"compute", "save_db", "save_cache", "send_complete"}
    THEN "fail_db" ELSE "except"

\* Defect: a status outside TaskStatus.
StatusAtMisspelt == [mark_db |-> "processing", mark_cache |-> "processing",
                     save_db |-> "completed",  save_cache |-> "completed",
                     fail_db |-> "error",      fail_cache |-> "failed"]

StatusAt == [mark_db |-> "processing", mark_cache |-> "processing",
             save_db |-> "completed",  save_cache |-> "completed",
             fail_db |-> "failed",     fail_cache |-> "failed"]

Outcome == {"returns", "raises", "raises_late"}

\* An outcome other than "returns" is a fault: only where FaultPoints allows.
Charge(p, r) ==
    \/ r = "returns" /\ UNCHANGED faults
    \/ /\ r # "returns"
       /\ p \in FaultPoints
       /\ faults < MaxFaults
       /\ faults' = faults + 1

Task(h) == msg[h].task

Goto(h, p) == pc' = [pc EXCEPT ![h] = p]

\* An awaited call at one of the given points of execute, with outcome r.
Call(h, points, r) ==
    /\ pc[h] \in points
    /\ Charge(pc[h], r)
    /\ Goto(h, IF r = "returns" THEN After(pc[h], Task(h)) ELSE OnRaise(pc[h]))

-----------------------------------------------------------------------------
Init ==
    /\ sub = [t \in Tasks |-> "s_put"]
    /\ stored = {}
    /\ db = [t \in Tasks |-> "none"]
    /\ aged = {}
    /\ cache = [t \in Tasks |-> "miss"]
    /\ queue = [m \in Message |-> 0]
    /\ dlq = {}
    /\ unacked = [w \in Workers |-> None]
    /\ pc = [h \in Handlers |-> "idle"]
    /\ msg = [h \in Handlers |-> None]
    /\ events = [t \in Tasks |-> <<>>]
    /\ hooks = [t \in Tasks |-> {}]
    /\ poll = [p \in Pollers |-> [at |-> "idle", task |-> None, snap |-> "none"]]
    /\ faults = 0
    /\ losses = 0
    /\ runs = [t \in Tasks |-> 0]
    /\ finished = {}
    /\ committed = {}
    /\ redelivered = {}

-----------------------------------------------------------------------------
(***************************************************************************)
(* API: one await of submit.  An exception leaves the earlier effects in   *)
(* place and answers 500.                                                  *)
(***************************************************************************)
Submit(t) ==
    \E r \in Outcome :
      /\ sub[t] \in DOMAIN SubmitNext
      /\ Charge(sub[t], r)
      /\ sub' = [sub EXCEPT ![t] = IF r = "returns" THEN SubmitNext[@] ELSE "failed"]
      /\ LET does(p) == sub[t] = p /\ r # "raises" IN
         /\ stored' = IF does("s_put") THEN stored \cup {t} ELSE stored
         /\ db' = IF does("s_create") THEN [db EXCEPT ![t] = "pending"] ELSE db
         /\ cache' = IF does("s_cache") THEN [cache EXCEPT ![t] = "pending"] ELSE cache
         /\ queue' = IF does("s_publish")
                     THEN [queue EXCEPT ![[task |-> t, retry |-> 0]] = @ + 1]
                     ELSE queue
      /\ UNCHANGED <<aged, dlq, unacked, pc, msg, events, hooks, poll, losses, history>>

-----------------------------------------------------------------------------
(***************************************************************************)
(* Worker: a delivery, with prefetch_count = 1, and the awaits of execute. *)
(***************************************************************************)
OnMessage(h, m) ==
    /\ pc[h] = "idle"
    /\ unacked[WorkerOf[h]] = None
    /\ queue[m] > 0
    /\ queue' = [queue EXCEPT ![m] = @ - 1]
    /\ unacked' = [unacked EXCEPT ![WorkerOf[h]] = h]
    /\ msg' = [msg EXCEPT ![h] = m]
    /\ Goto(h, "load")
    /\ runs' = [runs EXCEPT ![m.task] = @ + 1]
    /\ UNCHANGED <<apiVars, db, aged, redisVars, dlq, hooks, poll, faults, losses,
                   finished, committed, redelivered>>

\* repo.get: a missing row makes execute raise ValueError.
RepoGet(h) ==
    /\ pc[h] = "load"
    /\ \/ \E r \in Outcome :
            /\ r = "returns" => db[Task(h)] # "none"
            /\ Call(h, {"load"}, r)
       \/ /\ db[Task(h)] = "none"
          /\ Goto(h, "except")
          /\ UNCHANGED faults
    /\ UNCHANGED <<apiVars, db, aged, redisVars, brokerVars, msg, hooks, poll, losses, history>>

\* repo.update: UPDATE ... WHERE id = task_id does nothing when the row is gone.
RepoUpdate(h) ==
    /\ \E r \in Outcome :
         /\ Call(h, {"mark_db", "save_db", "fail_db"}, r)
         /\ IF r # "raises" /\ db[Task(h)] # "none"
            THEN /\ db' = [db EXCEPT ![Task(h)] = StatusAt[pc[h]]]
                 /\ committed' = IF pc[h] = "save_db"
                                 THEN committed \cup {Task(h)} ELSE committed
            ELSE UNCHANGED <<db, committed>>
    /\ UNCHANGED <<apiVars, aged, redisVars, brokerVars, msg, hooks, poll, losses,
                   runs, finished, redelivered>>

\* cache.set: SETEX, which overwrites whatever the entry holds.
CacheSet(h) ==
    /\ \E r \in Outcome :
         /\ Call(h, {"mark_cache", "save_cache", "fail_cache"}, r)
         /\ cache' = IF r # "raises"
                     THEN [cache EXCEPT ![Task(h)] = StatusAt[pc[h]]] ELSE cache
    /\ UNCHANGED <<apiVars, db, aged, events, brokerVars, msg, hooks, poll, losses, history>>

\* The work itself: fetch the input and run the models.  A missing input or
\* any failure of storage or inference raises.
Compute(h) ==
    /\ pc[h] = "compute"
    /\ \/ \E r \in Outcome \ {"raises_late"} :
            /\ r = "returns" => Task(h) \in stored
            /\ Call(h, {"compute"}, r)
       \/ /\ Task(h) \notin stored
          /\ Goto(h, OnRaise("compute"))
          /\ UNCHANGED faults
    /\ UNCHANGED <<apiVars, db, aged, redisVars, brokerVars, msg, hooks, poll, losses, history>>

\* cache.publish_event of the terminal event.
PublishEvent(h) ==
    /\ \E r \in Outcome :
         /\ Call(h, {"send_complete", "send_error"}, r)
         /\ events' = IF r # "raises"
                      THEN [events EXCEPT ![Task(h)] =
                              Append(@, IF pc[h] = "send_complete" THEN "complete" ELSE "error")]
                      ELSE events
    /\ UNCHANGED <<apiVars, db, aged, cache, brokerVars, msg, hooks, poll, losses, history>>

\* send_webhook swallows every failure, so a post may silently not happen.
\* After the webhook of the successful path execute returns normally.
SendWebhook(h) ==
    /\ Call(h, {"hook_done", "hook_failed"}, "returns")
    /\ \E delivered \in BOOLEAN :
         hooks' = IF delivered /\ Task(h) \in Hooked
                  THEN [hooks EXCEPT ![Task(h)] =
                          @ \cup {IF pc[h] = "hook_done" THEN "completed" ELSE "failed"}]
                  ELSE hooks
    /\ finished' = IF pc[h] = "hook_done" THEN finished \cup {Task(h)} ELSE finished
    /\ UNCHANGED <<apiVars, db, aged, redisVars, brokerVars, msg, poll, losses,
                   runs, committed, redelivered>>

-----------------------------------------------------------------------------
(***************************************************************************)
(* Worker: what process_message and on_message do with the delivery.       *)
(***************************************************************************)
Held(h) == unacked[WorkerOf[h]] = h

Leave(h) ==
    /\ Goto(h, "idle")
    /\ msg' = [msg EXCEPT ![h] = None]

\* Settle the delivery and leave.  A delivery of a lost connection cannot be
\* settled any more: the call raises into onraise, or is lost on the wire.
Settle(h, from, onraise, deadletter) ==
    /\ pc[h] = from
    /\ \/ /\ Held(h)
          /\ unacked' = [unacked EXCEPT ![WorkerOf[h]] = None]
          /\ dlq' = IF deadletter THEN dlq \cup {msg[h]} ELSE dlq
          /\ Leave(h)
       \/ /\ ~Held(h)
          /\ \/ Leave(h)
             \/ onraise # "idle" /\ Goto(h, onraise) /\ UNCHANGED msg
          /\ UNCHANGED <<unacked, dlq>>
    /\ UNCHANGED <<apiVars, db, aged, redisVars, queue, hooks, poll, faults, losses, history>>

\* try: execute returned, ack.
AckDone(h) == Settle(h, "ack", "except", FALSE)

\* Defect: a publish that raises is swallowed and the delivery acknowledged.
RepublishSwallow(h) ==
    /\ pc[h] = "except"
    /\ msg[h].retry < MaxRetries
    /\ \E r \in Outcome :
         /\ Charge("except", r)
         /\ Goto(h, "ack_retry")
         /\ queue' = IF r # "raises"
                     THEN [queue EXCEPT ![[msg[h] EXCEPT !.retry = @ + 1]] = @ + 1]
                     ELSE queue
    /\ UNCHANGED <<apiVars, db, aged, redisVars, dlq, unacked, msg, hooks, poll, losses, history>>

\* Defect: the header is copied without incrementing x-retry-count.
RepublishUncounted(h) ==
    /\ pc[h] = "except"
    /\ msg[h].retry < MaxRetries
    /\ \E r \in Outcome :
         /\ Charge("except", r)
         /\ Goto(h, IF r = "returns" THEN "ack_retry" ELSE "outer_nack")
         /\ queue' = IF r # "raises" THEN [queue EXCEPT ![msg[h]] = @ + 1] ELSE queue
    /\ UNCHANGED <<apiVars, db, aged, redisVars, dlq, unacked, msg, hooks, poll, losses, history>>

\* except, retries left: publish a copy with the incremented header, then ack.
\* A publish that raises leaves process_message for on_message's handler.
Republish(h) ==
    /\ pc[h] = "except"
    /\ msg[h].retry < MaxRetries
    /\ \E r \in Outcome :
         /\ Charge("except", r)
         /\ Goto(h, IF r = "returns" THEN "ack_retry" ELSE "outer_nack")
         /\ queue' = IF r # "raises"
                     THEN [queue EXCEPT ![[msg[h] EXCEPT !.retry = @ + 1]] = @ + 1]
                     ELSE queue
    /\ UNCHANGED <<apiVars, db, aged, redisVars, dlq, unacked, msg, hooks, poll, losses, history>>

\* Defect: the failed delivery is requeued as well as republished.
AckRetryRequeue(h) ==
    /\ pc[h] = "ack_retry"
    /\ Held(h)
    /\ unacked' = [unacked EXCEPT ![WorkerOf[h]] = None]
    /\ queue' = [queue EXCEPT ![msg[h]] = @ + 1]
    /\ Leave(h)
    /\ UNCHANGED <<apiVars, db, aged, redisVars, dlq, hooks, poll, faults, losses, history>>

AckRetry(h) == Settle(h, "ack_retry", "outer_nack", FALSE)

\* except, no retry left: nack(requeue=False) dead-letters the message.
DeadLetter(h) ==
    /\ msg[h] # None /\ msg[h].retry >= MaxRetries
    /\ Settle(h, "except", "outer_nack", TRUE)

\* Defect: on_message logs the exception and leaves the delivery unsettled.
OuterNackForgotten(h) ==
    /\ pc[h] = "outer_nack"
    /\ Goto(h, "idle")
    /\ UNCHANGED <<apiVars, db, aged, redisVars, brokerVars, msg, hooks, poll, faults,
                   losses, history>>

\* on_message: nack(requeue=False) after an exception out of process_message.
OuterNack(h) == Settle(h, "outer_nack", "idle", TRUE)

-----------------------------------------------------------------------------
(***************************************************************************)
(* Failures.  The broker requeues the unacknowledged delivery of a worker  *)
(* whose connection is gone.  A lost connection leaves the handlers        *)
(* running; a crash ends them.                                             *)
(***************************************************************************)
Requeue(w) ==
    IF unacked[w] = None
    THEN UNCHANGED <<queue, unacked, redelivered>>
    ELSE /\ queue' = [queue EXCEPT ![msg[unacked[w]]] = @ + 1]
         /\ unacked' = [unacked EXCEPT ![w] = None]
         /\ redelivered' = redelivered \cup {Task(unacked[w])}

ConnectionLost(w) ==
    /\ losses < MaxLosses
    /\ unacked[w] # None
    /\ Requeue(w)
    /\ losses' = losses + 1
    /\ UNCHANGED <<apiVars, db, aged, redisVars, dlq, pc, msg, hooks, poll, faults,
                   runs, finished, committed>>

WorkerCrash(w) ==
    /\ losses < MaxLosses
    /\ \E h \in Handlers : WorkerOf[h] = w /\ pc[h] # "idle"
    /\ Requeue(w)
    /\ losses' = losses + 1
    /\ pc' = [h \in Handlers |-> IF WorkerOf[h] = w THEN "idle" ELSE pc[h]]
    /\ msg' = [h \in Handlers |-> IF WorkerOf[h] = w THEN None ELSE msg[h]]
    /\ UNCHANGED <<apiVars, db, aged, redisVars, dlq, hooks, poll, faults,
                   runs, finished, committed>>

-----------------------------------------------------------------------------
(***************************************************************************)
(* Time: the TTL of a Redis entry, the retention period, the daily         *)
(* clean-up of old rows with a final status.                               *)
(***************************************************************************)
\* Defect: SET without a TTL for everything but the failed status.
CacheExpireFailedOnly(t) ==
    /\ cache[t] = "failed"
    /\ cache' = [cache EXCEPT ![t] = "miss"]
    /\ UNCHANGED <<apiVars, db, aged, events, brokerVars, pc, msg, hooks, poll,
                   faults, losses, history>>

CacheExpire(t) ==
    /\ cache[t] # "miss"
    /\ cache' = [cache EXCEPT ![t] = "miss"]
    /\ UNCHANGED <<apiVars, db, aged, events, brokerVars, pc, msg, hooks, poll,
                   faults, losses, history>>

Age(t) ==
    /\ Ageing
    /\ db[t] # "none"
    /\ aged' = aged \cup {t}
    /\ UNCHANGED <<apiVars, db, redisVars, brokerVars, pc, msg, hooks, poll,
                   faults, losses, history>>

CleanupLoop ==
    LET expired == {t \in aged : db[t] \in {"completed", "failed"}} IN
    /\ expired # {}
    /\ db' = [t \in Tasks |-> IF t \in expired THEN "none" ELSE db[t]]
    /\ UNCHANGED <<apiVars, aged, redisVars, brokerVars, pc, msg, hooks, poll,
                   faults, losses, history>>

-----------------------------------------------------------------------------
(***************************************************************************)
(* API: GET /tasks/{task_id}.  A cache hit answers at once and changes     *)
(* nothing; a miss reads the row and then fills the cache from it.         *)
(***************************************************************************)
PollStep(p, at, task, snap) ==
    /\ poll' = [poll EXCEPT ![p] = [at |-> at, task |-> task, snap |-> snap]]
    /\ UNCHANGED <<apiVars, db, aged, events, brokerVars, pc, msg, hooks,
                   faults, losses, history>>

PollMiss(p, t) ==
    /\ poll[p].at = "idle"
    /\ sub[t] = "done"
    /\ cache[t] = "miss"
    /\ PollStep(p, "read", t, "none")
    /\ UNCHANGED cache

\* No row: 404, without filling the cache.
PollRead(p) ==
    /\ poll[p].at = "read"
    /\ LET row == db[poll[p].task] IN
       IF row = "none" THEN PollStep(p, "idle", None, "none")
                       ELSE PollStep(p, "fill", poll[p].task, row)
    /\ UNCHANGED cache

PollFill(p) ==
    /\ poll[p].at = "fill"
    /\ cache' = [cache EXCEPT ![poll[p].task] = poll[p].snap]
    /\ PollStep(p, "idle", None, "none")

\* A call of the request raised, or the client went away.
PollAbort(p) ==
    /\ poll[p].at # "idle"
    /\ PollStep(p, "idle", None, "none")
    /\ UNCHANGED cache

-----------------------------------------------------------------------------
ExecuteStep(h) ==
    \/ RepoGet(h) \/ RepoUpdate(h) \/ CacheSet(h) \/ Compute(h)
    \/ PublishEvent(h) \/ SendWebhook(h)

SettleStep(h) ==
    \/ AckDone(h) \/ Republish(h) \/ AckRetry(h) \/ DeadLetter(h) \/ OuterNack(h)

HandlerStep(h) == ExecuteStep(h) \/ SettleStep(h)

PollerStep(p) ==
    \/ \E t \in Tasks : PollMiss(p, t)
    \/ PollRead(p) \/ PollFill(p) \/ PollAbort(p)

Next ==
    \/ \E t \in Tasks : Submit(t) \/ CacheExpire(t) \/ Age(t)
    \/ \E h \in Handlers : HandlerStep(h) \/ \E m \in Message : OnMessage(h, m)
    \/ \E w \in Workers : ConnectionLost(w) \/ WorkerCrash(w)
    \/ \E p \in Pollers : PollerStep(p)
    \/ CleanupLoop

Spec == Init /\ [][Next]_vars

\* Coroutines run, the broker delivers to a free consumer, Redis expires keys
\* and a request that is past its cache lookup ends.
Fairness ==
    /\ \A h \in Handlers : WF_vars(HandlerStep(h))
    /\ WF_vars(\E h \in Handlers, m \in Message : OnMessage(h, m))
    /\ \A t \in Tasks : WF_vars(CacheExpire(t))
    /\ \A p \in Pollers : WF_vars(PollRead(p) \/ PollFill(p) \/ PollAbort(p))

FairSpec == Spec /\ Fairness
=============================================================================
