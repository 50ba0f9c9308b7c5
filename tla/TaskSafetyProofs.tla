-------------------------- MODULE TaskSafetyProofs --------------------------
(***************************************************************************)
(* Theorems about TaskPipeline, for every number of tasks, workers and     *)
(* handlers, every MAX_RETRIES and every bound on faults and losses: its   *)
(* types; no accepted task is lost; a worker finds the task its message    *)
(* names; completion is announced only after it is committed; and the      *)
(* pipeline implements at-least-once delivery.                             *)
(***************************************************************************)
EXTENDS TaskProperties, TLAPS

(* A handler has a message exactly while it runs, and an unsettled delivery *)
(* belongs to a running handler of the worker that owes it.                 *)
HandlersOK ==
    /\ \A h \in Handlers : pc[h] = "idle" <=> msg[h] = None
    /\ \A w \in Workers : unacked[w] # None =>
         WorkerOf[unacked[w]] = w /\ pc[unacked[w]] # "idle"

TypeInv == TypeOK /\ HandlersOK

USE ConstantsAssumption

-----------------------------------------------------------------------------
(* Facts about the control tables. *)
LEMMA PointsType ==
    /\ ExecutePoints = {"load", "mark_db", "mark_cache", "compute", "save_db",
                        "save_cache", "send_complete", "hook_done", "fail_db",
                        "fail_cache", "send_error", "hook_failed"}
    /\ "idle" \notin WorkerPoints
    /\ {"ack", "except", "ack_retry", "outer_nack"} \subseteq WorkerPoints
    /\ \A p \in ExecutePoints, t \in Tasks :
         /\ After(p, t) \in WorkerPoints \ {"ack_retry", "outer_nack"}
         /\ After(p, t) = "ack" => p = "hook_done"
    /\ \A p \in ExecutePoints : OnRaise(p) \in WorkerPoints \cap {"fail_db", "except"}
  BY DEF NextPoint, ExecutePoints, After, OnRaise, WorkerPoints

(* A copy more of a message, or a copy less of one there is, leaves a bag. *)
LEMMA AddCopy ==
    ASSUME NEW q \in [Message -> Nat], NEW m \in Message
    PROVE  [q EXCEPT ![m] = @ + 1] \in [Message -> Nat]
  OBVIOUS

(* A running handler works on a message. *)
LEMMA RunningHasMessage ==
    ASSUME TypeInv, NEW h \in Handlers, pc[h] # "idle"
    PROVE  msg[h] \in Message /\ Task(h) \in Tasks
  BY DEF TypeInv, TypeOK, HandlersOK, Message, Task

(* What a call at one of the points of execute does to the control state. *)
LEMMA CallFacts ==
    ASSUME TypeInv, NEW h \in Handlers, NEW points \in SUBSET ExecutePoints,
           NEW r \in Outcome, Call(h, points, r)
    PROVE  /\ pc[h] \in points
           /\ msg[h] \in Message
           /\ Task(h) \in Tasks
           /\ \E q \in WorkerPoints : Goto(h, q)
           /\ faults' \in Nat
  <1>1. pc[h] \in points /\ pc[h] # "idle"
    BY PointsType DEF Call
  <1>2. msg[h] \in Message /\ Task(h) \in Tasks
    BY <1>1, RunningHasMessage
  <1>3. \E q \in WorkerPoints : Goto(h, q)
    <2>1. CASE r = "returns"
      BY <1>1, <1>2, <2>1, PointsType DEF Call
    <2>2. CASE r # "returns"
      BY <1>1, <1>2, <2>2, PointsType DEF Call
    <2> QED BY <2>1, <2>2
  <1>4. faults' \in Nat
    BY DEF Call, Charge, TypeInv, TypeOK
  <1> QED BY <1>1, <1>2, <1>3, <1>4

-----------------------------------------------------------------------------
(***************************************************************************)
(* Types.  One lemma per group of actions, one step per action.            *)
(***************************************************************************)

\* The initial state has the types.
LEMMA TypeInit == Init => TypeInv
  <1>1. [at |-> "idle", task |-> None, snap |-> "none"] \in PollState
    BY DEF PollState
  <1> QED BY <1>1 DEF Init, TypeInv, TypeOK, HandlersOK, Status

\* Submit, an expiring entry and an ageing row keep the types.
LEMMA TypeApi ==
    ASSUME TypeInv, NEW t \in Tasks, Submit(t) \/ CacheExpire(t) \/ Age(t)
    PROVE  TypeInv'
  <1>1. CASE Submit(t)
    <2>1. PICK r \in Outcome :
            /\ sub[t] \in DOMAIN SubmitNext
            /\ Charge(sub[t], r)
            /\ sub' = [sub EXCEPT ![t] = IF r = "returns" THEN SubmitNext[@] ELSE "failed"]
      BY <1>1 DEF Submit
    <2>2. sub' \in [Tasks -> {"s_put", "s_create", "s_cache", "s_publish", "done", "failed"}]
      BY <2>1 DEF TypeInv, TypeOK, SubmitNext
    <2>3. faults' \in Nat
      BY <2>1 DEF TypeInv, TypeOK, Charge
    <2>4. /\ stored' \subseteq Tasks
          /\ db' \in [Tasks -> Status \cup {"none"}]
          /\ cache' \in [Tasks -> Status \cup {"miss"}]
      BY <1>1 DEF Submit, TypeInv, TypeOK, Status
    <2>5. queue' \in [Message -> Nat]
      <3>1. [task |-> t, retry |-> 0] \in Message
        BY DEF Message
      <3>2. \/ queue' = queue
            \/ queue' = [queue EXCEPT ![[task |-> t, retry |-> 0]] = @ + 1]
        BY <1>1 DEF Submit
      <3> QED BY <3>1, <3>2, AddCopy DEF TypeInv, TypeOK
    <2> QED BY <1>1, <2>2, <2>3, <2>4, <2>5
            DEF Submit, TypeInv, TypeOK, HandlersOK, history
  <1>2. CASE CacheExpire(t)
    BY <1>2 DEF CacheExpire, TypeInv, TypeOK, HandlersOK, apiVars, brokerVars, history
  <1>3. CASE Age(t)
    BY <1>3 DEF Age, TypeInv, TypeOK, HandlersOK, apiVars, redisVars, brokerVars, history
  <1> QED BY <1>1, <1>2, <1>3

(* Moving a running handler to another point keeps the handlers in order. *)
LEMMA GotoKeepsHandlers ==
    ASSUME TypeInv, NEW h \in Handlers, pc[h] # "idle",
           \E q \in WorkerPoints : Goto(h, q), UNCHANGED <<msg, unacked>>
    PROVE  pc' \in [Handlers -> WorkerPoints \cup {"idle"}] /\ HandlersOK'
  BY PointsType DEF TypeInv, TypeOK, HandlersOK, Goto

\* The calls of execute keep the types.
LEMMA TypeExecute ==
    ASSUME TypeInv, NEW h \in Handlers, ExecuteStep(h)
    PROVE  TypeInv'
  <1> USE DEF apiVars, redisVars, brokerVars, history
  <1>0. msg[h] \in Message /\ Task(h) \in Tasks /\ pc[h] # "idle"
    BY PointsType, RunningHasMessage
    DEF ExecuteStep, RepoGet, RepoUpdate, CacheSet, Compute, PublishEvent, SendWebhook, Call
  <1>1. CASE RepoGet(h)
    <2>1. /\ \E q \in WorkerPoints : Goto(h, q)
          /\ faults' \in Nat
          /\ UNCHANGED <<msg, unacked>>
      <3>1. CASE \E r \in Outcome : Call(h, {"load"}, r)
        BY <1>1, <3>1, CallFacts, PointsType DEF RepoGet
      <3>2. CASE UNCHANGED faults /\ \E q \in WorkerPoints : Goto(h, q)
        BY <1>1, <3>2 DEF RepoGet, TypeInv, TypeOK
      <3> QED BY <1>1, <3>1, <3>2, PointsType DEF RepoGet
    <2>2. pc' \in [Handlers -> WorkerPoints \cup {"idle"}] /\ HandlersOK'
      BY <1>0, <2>1, GotoKeepsHandlers
    <2> QED BY <1>1, <2>1, <2>2 DEF RepoGet, TypeInv, TypeOK
  <1>2. CASE RepoUpdate(h)
    <2>1. /\ \E q \in WorkerPoints : Goto(h, q)
          /\ faults' \in Nat
          /\ UNCHANGED <<msg, unacked>>
      <3>1. PICK r \in Outcome : Call(h, {"mark_db", "save_db", "fail_db"}, r)
        BY <1>2 DEF RepoUpdate, Outcome
      <3> QED BY <1>2, <3>1, CallFacts, PointsType DEF RepoUpdate
    <2>2. pc' \in [Handlers -> WorkerPoints \cup {"idle"}] /\ HandlersOK'
      BY <1>0, <2>1, GotoKeepsHandlers
    <2>3. StatusAt[pc[h]] \in Status
      BY <1>2 DEF RepoUpdate, Call, StatusAt, Status
    <2>4. db' \in [Tasks -> Status \cup {"none"}] /\ committed' \subseteq Tasks
      <3>1. \/ UNCHANGED <<db, committed>>
            \/ /\ db' = [db EXCEPT ![Task(h)] = StatusAt[pc[h]]]
               /\ committed' = committed \/ committed' = committed \cup {Task(h)}
        BY <1>2 DEF RepoUpdate
      <3> QED BY <1>0, <2>3, <3>1 DEF TypeInv, TypeOK
    <2> QED BY <1>2, <2>1, <2>2, <2>4 DEF RepoUpdate, TypeInv, TypeOK
  <1>3. CASE CacheSet(h)
    <2>1. /\ \E q \in WorkerPoints : Goto(h, q)
          /\ faults' \in Nat
          /\ UNCHANGED <<msg, unacked>>
      <3>1. PICK r \in Outcome : Call(h, {"mark_cache", "save_cache", "fail_cache"}, r)
        BY <1>3 DEF CacheSet, Outcome
      <3> QED BY <1>3, <3>1, CallFacts, PointsType DEF CacheSet
    <2>2. pc' \in [Handlers -> WorkerPoints \cup {"idle"}] /\ HandlersOK'
      BY <1>0, <2>1, GotoKeepsHandlers
    <2>3. StatusAt[pc[h]] \in Status
      BY <1>3 DEF CacheSet, Call, StatusAt, Status
    <2>4. cache' \in [Tasks -> Status \cup {"miss"}]
      BY <1>0, <1>3, <2>3 DEF CacheSet, TypeInv, TypeOK
    <2> QED BY <1>3, <2>1, <2>2, <2>4 DEF CacheSet, TypeInv, TypeOK
  <1>4. CASE Compute(h)
    <2>1. /\ \E q \in WorkerPoints : Goto(h, q)
          /\ faults' \in Nat
          /\ UNCHANGED <<msg, unacked>>
      <3>1. CASE \E r \in Outcome : Call(h, {"compute"}, r)
        BY <1>4, <3>1, CallFacts, PointsType DEF Compute
      <3>2. CASE UNCHANGED faults /\ \E q \in WorkerPoints : Goto(h, q)
        BY <1>4, <3>2 DEF Compute, TypeInv, TypeOK
      <3> QED BY <1>4, <3>1, <3>2, PointsType DEF Compute
    <2>2. pc' \in [Handlers -> WorkerPoints \cup {"idle"}] /\ HandlersOK'
      BY <1>0, <2>1, GotoKeepsHandlers
    <2> QED BY <1>4, <2>1, <2>2 DEF Compute, TypeInv, TypeOK
  <1>5. CASE PublishEvent(h)
    <2>1. /\ \E q \in WorkerPoints : Goto(h, q)
          /\ faults' \in Nat
          /\ UNCHANGED <<msg, unacked>>
      <3>1. PICK r \in Outcome : Call(h, {"send_complete", "send_error"}, r)
        BY <1>5 DEF PublishEvent, Outcome
      <3> QED BY <1>5, <3>1, CallFacts, PointsType DEF PublishEvent
    <2>2. pc' \in [Handlers -> WorkerPoints \cup {"idle"}] /\ HandlersOK'
      BY <1>0, <2>1, GotoKeepsHandlers
    <2>3. events' \in [Tasks -> Seq({"complete", "error"})]
      BY <1>0, <1>5 DEF PublishEvent, TypeInv, TypeOK
    <2> QED BY <1>5, <2>1, <2>2, <2>3 DEF PublishEvent, TypeInv, TypeOK
  <1>6. CASE SendWebhook(h)
    <2>1. /\ \E q \in WorkerPoints : Goto(h, q)
          /\ faults' \in Nat
          /\ UNCHANGED <<msg, unacked>>
      <3>1. PICK r \in Outcome : Call(h, {"hook_done", "hook_failed"}, r)
        BY <1>6 DEF SendWebhook, Outcome
      <3> QED BY <1>6, <3>1, CallFacts, PointsType DEF SendWebhook
    <2>2. pc' \in [Handlers -> WorkerPoints \cup {"idle"}] /\ HandlersOK'
      BY <1>0, <2>1, GotoKeepsHandlers
    <2>3. hooks' \in [Tasks -> SUBSET {"completed", "failed"}] /\ finished' \subseteq Tasks
      BY <1>0, <1>6 DEF SendWebhook, TypeInv, TypeOK
    <2> QED BY <1>6, <2>1, <2>2, <2>3 DEF SendWebhook, TypeInv, TypeOK
  <1> QED BY <1>1, <1>2, <1>3, <1>4, <1>5, <1>6 DEF ExecuteStep

\* A delivery keeps the types.
LEMMA TypeDelivery ==
    ASSUME TypeInv, NEW h \in Handlers, NEW m \in Message, OnMessage(h, m)
    PROVE  TypeInv'
  <1>1. queue' \in [Message -> Nat]
    BY DEF OnMessage, TypeInv, TypeOK
  <1>2. /\ unacked' \in [Workers -> Handlers \cup {None}]
        /\ pc' \in [Handlers -> WorkerPoints \cup {"idle"}]
        /\ msg' \in [Handlers -> Message \cup {None}]
    BY PointsType DEF OnMessage, Goto, TypeInv, TypeOK, WorkerPoints
  <1>3. runs' \in [Tasks -> Nat]
    BY DEF OnMessage, TypeInv, TypeOK, Message
  <1>4. HandlersOK'
    BY DEF OnMessage, Goto, TypeInv, TypeOK, HandlersOK
  <1> QED BY <1>1, <1>2, <1>3, <1>4
          DEF OnMessage, TypeInv, TypeOK, apiVars, redisVars

(* Whatever settles a delivery: it is removed from the channel and perhaps  *)
(* dead-lettered, or it is not the handler's any more.                      *)
LEMMA TypeSettle ==
    ASSUME TypeInv, NEW h \in Handlers, NEW from \in WorkerPoints,
           NEW onraise \in WorkerPoints \cup {"idle"}, NEW deadletter \in BOOLEAN,
           Settle(h, from, onraise, deadletter)
    PROVE  TypeInv'
  <1>1. pc[h] # "idle" /\ msg[h] \in Message
    BY PointsType, RunningHasMessage DEF Settle
  <1>2. CASE Held(h) /\ unacked' = [unacked EXCEPT ![WorkerOf[h]] = None]
             /\ dlq' = (IF deadletter THEN dlq \cup {msg[h]} ELSE dlq) /\ Leave(h)
    <2>1. dlq' \subseteq Message /\ unacked' \in [Workers -> Handlers \cup {None}]
      BY <1>1, <1>2 DEF TypeInv, TypeOK
    <2>2. /\ pc' \in [Handlers -> WorkerPoints \cup {"idle"}]
          /\ msg' \in [Handlers -> Message \cup {None}]
      BY <1>2 DEF Leave, Goto, TypeInv, TypeOK
    <2>3. HandlersOK'
      BY <1>2 DEF Held, Leave, Goto, TypeInv, TypeOK, HandlersOK
    <2> QED BY <2>1, <2>2, <2>3
            DEF Settle, TypeInv, TypeOK, apiVars, redisVars, history
  <1>3. CASE ~Held(h) /\ UNCHANGED <<unacked, dlq>> /\ Leave(h)
    <2>1. /\ pc' \in [Handlers -> WorkerPoints \cup {"idle"}]
          /\ msg' \in [Handlers -> Message \cup {None}]
      BY <1>3 DEF Leave, Goto, TypeInv, TypeOK
    <2>2. HandlersOK'
      BY <1>3 DEF Held, Leave, Goto, TypeInv, TypeOK, HandlersOK
    <2> QED BY <1>3, <2>1, <2>2
            DEF Settle, TypeInv, TypeOK, apiVars, redisVars, history
  <1>4. CASE ~Held(h) /\ UNCHANGED <<unacked, dlq, msg>>
             /\ onraise # "idle" /\ Goto(h, onraise)
    <2>1. pc' \in [Handlers -> WorkerPoints \cup {"idle"}] /\ HandlersOK'
      BY <1>1, <1>4, GotoKeepsHandlers
    <2> QED BY <1>4, <2>1
            DEF Settle, TypeInv, TypeOK, apiVars, redisVars, history
  <1> QED BY <1>2, <1>3, <1>4 DEF Settle

\* Everything process_message does after execute keeps the types.
LEMMA TypeSettleStep ==
    ASSUME TypeInv, NEW h \in Handlers, SettleStep(h)
    PROVE  TypeInv'
  <1>1. CASE AckDone(h)
    BY <1>1, TypeSettle, PointsType DEF AckDone
  <1>2. CASE Republish(h)
    <2>1. pc[h] # "idle" /\ msg[h] \in Message
      BY <1>2, PointsType, RunningHasMessage DEF Republish
    <2>2. (\E q \in WorkerPoints : Goto(h, q)) /\ UNCHANGED <<msg, unacked>>
      BY <1>2, PointsType DEF Republish
    <2>3. pc' \in [Handlers -> WorkerPoints \cup {"idle"}] /\ HandlersOK'
      BY <2>1, <2>2, GotoKeepsHandlers
    <2>4. [msg[h] EXCEPT !.retry = @ + 1] \in Message
      BY <1>2, <2>1 DEF Republish, Message
    <2>5. \/ queue' = queue
          \/ \E m \in Message : queue' = [queue EXCEPT ![m] = @ + 1]
      BY <1>2, <2>4 DEF Republish
    <2>6. queue' \in [Message -> Nat]
      BY <2>5, AddCopy DEF TypeInv, TypeOK
    <2>7. faults' \in Nat
      BY <1>2 DEF Republish, Charge, TypeInv, TypeOK
    <2> QED BY <1>2, <2>2, <2>3, <2>6, <2>7
            DEF Republish, TypeInv, TypeOK, apiVars, redisVars, history
  <1>3. CASE AckRetry(h)
    BY <1>3, TypeSettle, PointsType DEF AckRetry
  <1>4. CASE DeadLetter(h)
    BY <1>4, TypeSettle, PointsType DEF DeadLetter
  <1>5. CASE OuterNack(h)
    BY <1>5, TypeSettle, PointsType DEF OuterNack
  <1> QED BY <1>1, <1>2, <1>3, <1>4, <1>5 DEF SettleStep

\* A lost connection and a crash keep the types.
LEMMA TypeLoss ==
    ASSUME TypeInv, NEW w \in Workers, ConnectionLost(w) \/ WorkerCrash(w)
    PROVE  TypeInv'
  <1>1. /\ queue' \in [Message -> Nat]
        /\ unacked' \in [Workers -> Handlers \cup {None}]
        /\ redelivered' \subseteq Tasks
    <2>1. CASE unacked[w] = None
      BY <2>1 DEF ConnectionLost, WorkerCrash, Requeue, TypeInv, TypeOK
    <2>2. CASE unacked[w] # None
      <3>1. unacked[w] \in Handlers /\ pc[unacked[w]] # "idle"
        BY <2>2 DEF TypeInv, TypeOK, HandlersOK
      <3>2. msg[unacked[w]] \in Message /\ Task(unacked[w]) \in Tasks
        BY <3>1, RunningHasMessage
      <3>3. /\ queue' = [queue EXCEPT ![msg[unacked[w]]] = @ + 1]
            /\ unacked' = [unacked EXCEPT ![w] = None]
            /\ redelivered' = redelivered \cup {Task(unacked[w])}
        BY <2>2 DEF ConnectionLost, WorkerCrash, Requeue
      <3> QED BY <3>2, <3>3, AddCopy DEF TypeInv, TypeOK
    <2> QED BY <2>1, <2>2
  <1>2. losses' \in Nat
    BY DEF ConnectionLost, WorkerCrash, TypeInv, TypeOK
  <1>3. CASE ConnectionLost(w)
    <2>1. HandlersOK'
      BY <1>3 DEF ConnectionLost, Requeue, TypeInv, TypeOK, HandlersOK
    <2> QED BY <1>1, <1>2, <1>3, <2>1
            DEF ConnectionLost, TypeInv, TypeOK, apiVars, redisVars
  <1>4. CASE WorkerCrash(w)
    <2>1. /\ pc' \in [Handlers -> WorkerPoints \cup {"idle"}]
          /\ msg' \in [Handlers -> Message \cup {None}]
      BY <1>4 DEF WorkerCrash, TypeInv, TypeOK
    <2>2. unacked' = [unacked EXCEPT ![w] = None]
      BY <1>4 DEF WorkerCrash, Requeue, TypeInv, TypeOK
    <2>3. HandlersOK'
      BY <1>4, <2>2 DEF WorkerCrash, TypeInv, TypeOK, HandlersOK
    <2> QED BY <1>1, <1>2, <1>4, <2>1, <2>3
            DEF WorkerCrash, TypeInv, TypeOK, apiVars, redisVars
  <1> QED BY <1>3, <1>4

\* The steps of a poll keep the types.
LEMMA TypePoll ==
    ASSUME TypeInv, NEW p \in Pollers, PollerStep(p)
    PROVE  TypeInv'
  <1>1. /\ poll[p] \in PollState
        /\ poll[p].at \in {"read", "fill"} => poll[p].task \in Tasks
        /\ poll[p].at = "fill" => poll[p].snap \in Status
    BY DEF TypeInv, TypeOK, PollState
  <1> DEFINE Effect ==
          /\ cache' \in [Tasks -> Status \cup {"miss"}]
          /\ \E s \in PollState : poll' = [poll EXCEPT ![p] = s]
          /\ UNCHANGED <<apiVars, db, aged, events, brokerVars, pc, msg, hooks, faults,
                         losses, history>>
  <1>2. Effect
    <2> DEFINE idle == [at |-> "idle", task |-> None, snap |-> "none"]
    <2>1. idle \in PollState
      BY DEF PollState
    <2>2. ASSUME NEW t \in Tasks, PollMiss(p, t) PROVE Effect
      <3>1. [at |-> "read", task |-> t, snap |-> "none"] \in PollState
        BY DEF PollState
      <3> QED BY <2>2, <3>1 DEF PollMiss, PollStep, TypeInv, TypeOK
    <2>3. CASE PollRead(p)
      <3>1. poll[p].task \in Tasks /\ db[poll[p].task] \in Status \cup {"none"}
        BY <1>1, <2>3 DEF PollRead, TypeInv, TypeOK
      <3>2. CASE db[poll[p].task] = "none"
        BY <2>1, <2>3, <3>2 DEF PollRead, PollStep, TypeInv, TypeOK
      <3>3. CASE db[poll[p].task] # "none"
        <4>1. [at |-> "fill", task |-> poll[p].task, snap |-> db[poll[p].task]] \in PollState
          BY <3>1, <3>3 DEF PollState
        <4> QED BY <2>3, <3>3, <4>1 DEF PollRead, PollStep, TypeInv, TypeOK
      <3> QED BY <3>2, <3>3
    <2>4. CASE PollFill(p)
      BY <1>1, <2>1, <2>4 DEF PollFill, PollStep, TypeInv, TypeOK
    <2>5. CASE PollAbort(p)
      BY <2>1, <2>5 DEF PollAbort, PollStep, TypeInv, TypeOK
    <2> QED BY <2>2, <2>3, <2>4, <2>5 DEF PollerStep
  <1>3. poll' \in [Pollers -> PollState]
    BY <1>2 DEF TypeInv, TypeOK
  <1> QED BY <1>2, <1>3
          DEF TypeInv, TypeOK, HandlersOK, apiVars, brokerVars, history

\* Retention keeps the types.
LEMMA TypeCleanup ==
    ASSUME TypeInv, CleanupLoop
    PROVE  TypeInv'
  BY DEF CleanupLoop, TypeInv, TypeOK, HandlersOK, apiVars, redisVars, brokerVars, history

\* A step of nothing keeps the types.
LEMMA TypeStutter ==
    ASSUME TypeInv, UNCHANGED vars
    PROVE  TypeInv'
  BY DEF vars, TypeInv, TypeOK, HandlersOK

(* Every variable keeps its type, and the bookkeeping of handlers and       *)
(* deliveries stays consistent, whatever raises, crashes or disconnects.    *)
THEOREM TypeCorrect == Spec => []TypeInv
  <1>1. TypeInv /\ [Next]_vars => TypeInv'
    BY TypeApi, TypeExecute, TypeSettleStep, TypeDelivery, TypeLoss, TypePoll,
       TypeCleanup, TypeStutter DEF Next, HandlerStep
  <1> QED BY TypeInit, <1>1, PTL DEF Spec

(* Every variable has its type in every reachable state. *)
THEOREM TypeOKHolds == Spec => []TypeOK
  BY TypeCorrect, PTL DEF TypeInv

-----------------------------------------------------------------------------
(***************************************************************************)
(* Safety.                                                                 *)
(***************************************************************************)

(* What NothingLost needs to be inductive: a task a handler ever had in its *)
(* hands counts as accepted, and a handler reaches the acknowledgement of   *)
(* the successful path only after its execute returned.                     *)
KeptInv ==
    /\ \A t \in Tasks : sub[t] = "done" \/ runs[t] > 0 => Kept(t)
    /\ \A h \in Handlers : pc[h] = "ack" => Task(h) \in finished
    /\ \A h \in Handlers : pc[h] # "idle" => runs[Task(h)] > 0

(* No step undoes what stands for a task. *)
KeptStays == \A t \in Tasks : Kept(t) => Kept(t)'

(* A step that touches neither the broker nor the messages, and moves no    *)
(* handler past the republication, keeps what stands for a task.            *)
LEMMA KeptFrame ==
    ASSUME TypeInv, NEW t \in Tasks, Kept(t),
           UNCHANGED <<queue, dlq, unacked, msg>>, finished \subseteq finished',
           \A h \in Handlers : pc'[h] = "ack_retry" => pc[h] = "ack_retry"
    PROVE  Kept(t)'
  BY DEF Kept, InQueue, InDlq, Carries, Held, Task

(* The control state after a step of execute. *)
LEMMA ExecuteFrame ==
    ASSUME TypeInv, NEW h \in Handlers, ExecuteStep(h)
    PROVE  /\ pc[h] \in ExecutePoints
           /\ \E q \in WorkerPoints \ {"ack_retry", "outer_nack"} :
                Goto(h, q) /\ (q = "ack" => pc[h] = "hook_done" /\ SendWebhook(h))
           /\ UNCHANGED <<sub, stored, aged, queue, dlq, unacked, msg, poll, losses,
                          runs, redelivered>>
           /\ finished' = (IF pc[h] = "hook_done" THEN finished \cup {Task(h)} ELSE finished)
  <1> USE DEF apiVars, redisVars, brokerVars, history
  <1>0. pc[h] \in ExecutePoints /\ Task(h) \in Tasks
    BY PointsType, RunningHasMessage
    DEF ExecuteStep, RepoGet, RepoUpdate, CacheSet, Compute, PublishEvent, SendWebhook, Call
  <1>1. \E q \in WorkerPoints \ {"ack_retry", "outer_nack"} :
          Goto(h, q) /\ (q = "ack" => pc[h] = "hook_done" /\ SendWebhook(h))
    <2>1. \/ Goto(h, After(pc[h], Task(h)))
          \/ Goto(h, OnRaise(pc[h]))
          \/ Goto(h, "except")
      BY DEF ExecuteStep, RepoGet, RepoUpdate, CacheSet, Compute, PublishEvent,
             SendWebhook, Call
    <2>2. pc[h] = "hook_done" => SendWebhook(h)
      BY DEF ExecuteStep, RepoGet, RepoUpdate, CacheSet, Compute, PublishEvent,
             SendWebhook, Call
    <2> QED BY <1>0, <2>1, <2>2, PointsType
  <1>2. UNCHANGED <<sub, stored, aged, queue, dlq, unacked, msg, poll, losses, runs,
                    redelivered>>
    BY DEF ExecuteStep, RepoGet, RepoUpdate, CacheSet, Compute, PublishEvent, SendWebhook
  <1>3. finished' = (IF pc[h] = "hook_done" THEN finished \cup {Task(h)} ELSE finished)
    BY DEF ExecuteStep, RepoGet, RepoUpdate, CacheSet, Compute, PublishEvent,
           SendWebhook, Call
  <1> QED BY <1>0, <1>1, <1>2, <1>3

-----------------------------------------------------------------------------
(* Settling a delivery: a held one is dead-lettered or its task is finished, *)
(* unless a retry is already in the queue.                                   *)
LEMMA SettleKeeps ==
    ASSUME TypeInv, KeptInv, NEW h \in Handlers, NEW from \in WorkerPoints,
           NEW onraise \in {"idle", "except", "outer_nack"}, NEW deadletter \in BOOLEAN,
           Settle(h, from, onraise, deadletter),
           deadletter \/ from = "ack_retry" \/ Task(h) \in finished
    PROVE  KeptInv' /\ KeptStays
  <1> USE DEF history
  <1>1. pc[h] # "idle" /\ msg[h] \in Message /\ Task(h) \in Tasks
    BY PointsType, RunningHasMessage DEF Settle
  <1>2. UNCHANGED <<sub, runs, finished, queue>>
    BY DEF Settle, apiVars
  <1>3. \A h2 \in Handlers \ {h} : pc'[h2] = pc[h2] /\ Task(h2)' = Task(h2)
    BY DEF Settle, Leave, Goto, Task, TypeInv, TypeOK
  <1>4. \/ pc'[h] = "idle"
        \/ pc'[h] \in {"except", "outer_nack"} /\ Task(h)' = Task(h) /\ ~Held(h)
    BY DEF Settle, Leave, Goto, Task, TypeInv, TypeOK
  <1>5. \A t \in Tasks : Kept(t) => Kept(t)'
    <2> SUFFICES ASSUME NEW t \in Tasks, Kept(t) PROVE Kept(t)'
      OBVIOUS
    <2>1. CASE InQueue(t) \/ t \in finished
      BY <1>2, <2>1 DEF Kept, InQueue
    <2>2. CASE InDlq(t)
      BY <2>2 DEF Kept, InDlq, Settle
    <2>3. ASSUME NEW c \in Handlers, Carries(c, t) PROVE Kept(t)'
      <3>1. CASE c # h
        <4>1. Held(c)'
          <5>1. unacked[WorkerOf[c]] = c /\ WorkerOf[c] \in Workers
            BY <2>3 DEF Carries, Held
          <5>2. \/ unacked' = unacked
                \/ Held(h) /\ unacked' = [unacked EXCEPT ![WorkerOf[h]] = None]
            BY DEF Settle
          <5> QED BY <3>1, <5>1, <5>2 DEF Held, TypeInv, TypeOK
        <4>2. Carries(c, t)'
          BY <1>3, <2>3, <3>1, <4>1 DEF Carries
        <4> QED BY <4>2 DEF Kept
      <3>2. CASE c = h
        <4>1. Held(h) /\ pc[h] # "ack_retry" /\ t = Task(h)
          BY <2>3, <3>2 DEF Carries
        <4>2. CASE deadletter
          BY <1>1, <4>1, <4>2 DEF Settle, Kept, InDlq, Task
        <4>3. CASE Task(h) \in finished
          BY <1>2, <4>1, <4>3 DEF Kept
        <4> QED BY <4>1, <4>2, <4>3 DEF Settle
      <3> QED BY <3>1, <3>2
    <2> QED BY <2>1, <2>2, <2>3 DEF Kept
  <1>6. \A k \in Handlers : pc'[k] = "ack" => Task(k)' \in finished'
    BY <1>2, <1>3, <1>4 DEF KeptInv
  <1>7. \A k \in Handlers : pc'[k] # "idle" => runs'[Task(k)'] > 0
    BY <1>1, <1>2, <1>3, <1>4 DEF KeptInv
  <1> QED BY <1>2, <1>5, <1>6, <1>7 DEF KeptInv, KeptStays

\* The republication keeps every task, before it gives its delivery up.
LEMMA RepublishKeeps ==
    ASSUME TypeInv, KeptInv, NEW h \in Handlers, Republish(h)
    PROVE  KeptInv' /\ KeptStays
  <1> USE DEF history
  <1>1. /\ pc[h] # "idle" /\ msg[h] \in Message /\ Task(h) \in Tasks
        /\ UNCHANGED <<sub, runs, finished, msg, unacked, dlq>>
    BY RunningHasMessage DEF Republish, apiVars
  <1> DEFINE copy == [msg[h] EXCEPT !.retry = @ + 1]
  <1>2. copy \in Message /\ copy.task = Task(h)
    <2>1. msg[h].retry < MaxRetries
      BY DEF Republish
    <2>2. PICK k \in Tasks, n \in 0..MaxRetries : msg[h] = [task |-> k, retry |-> n]
      BY <1>1 DEF Message
    <2>3. copy = [task |-> k, retry |-> n + 1]
      BY <2>2
    <2> QED BY <2>1, <2>2, <2>3 DEF Message, Task
  <1>3. \/ queue' = queue /\ Goto(h, "outer_nack")
        \/ queue' = [queue EXCEPT ![copy] = @ + 1] /\ Goto(h, "ack_retry")
        \/ queue' = [queue EXCEPT ![copy] = @ + 1] /\ Goto(h, "outer_nack")
    BY DEF Republish
  <1>4. \A m \in Message : queue[m] > 0 => queue'[m] > 0
    <2> HIDE DEF copy
    <2> QED BY <1>2, <1>3 DEF TypeInv, TypeOK
  <1>5. Goto(h, "ack_retry") => queue'[copy] > 0
    <2>1. queue' = [queue EXCEPT ![copy] = @ + 1] => queue'[copy] > 0
      <3> HIDE DEF copy
      <3> QED BY <1>2 DEF TypeInv, TypeOK
    <2>2. ~(Goto(h, "outer_nack") /\ Goto(h, "ack_retry"))
      BY DEF Goto, TypeInv, TypeOK
    <2> QED BY <1>3, <2>1, <2>2
  <1>6. \A t \in Tasks : Kept(t) => Kept(t)'
    <2> SUFFICES ASSUME NEW t \in Tasks, Kept(t) PROVE Kept(t)'
      OBVIOUS
    <2>1. CASE InQueue(t) \/ InDlq(t) \/ t \in finished
      BY <1>1, <1>4, <2>1 DEF Kept, InQueue, InDlq
    <2>2. ASSUME NEW c \in Handlers, Carries(c, t) PROVE Kept(t)'
      <3>1. CASE c # h \/ Goto(h, "outer_nack")
        <4>1. pc'[c] # "ack_retry"
          BY <1>3, <2>2, <3>1 DEF Carries, Goto, TypeInv, TypeOK
        <4> QED BY <1>1, <2>2, <4>1 DEF Kept, Carries, Held, Task
      <3>2. CASE c = h /\ Goto(h, "ack_retry")
        BY <1>2, <1>5, <2>2, <3>2 DEF Kept, InQueue, Carries
      <3> QED BY <1>3, <3>1, <3>2
    <2> QED BY <2>1, <2>2 DEF Kept
  <1>7. \A k \in Handlers :
          /\ Task(k)' = Task(k)
          /\ pc'[k] = pc[k] \/ (k = h /\ pc'[k] \in {"ack_retry", "outer_nack"})
    BY <1>1, <1>3 DEF Task, Goto, TypeInv, TypeOK
  <1> QED BY <1>1, <1>6, <1>7 DEF KeptInv, KeptStays

\* A delivered task is kept by the handler that holds it.
LEMMA DeliveryKeeps ==
    ASSUME TypeInv, KeptInv, NEW h \in Handlers, NEW m \in Message, OnMessage(h, m)
    PROVE  KeptInv' /\ KeptStays
  <1> USE DEF history
  <1>1. /\ m.task \in Tasks
        /\ UNCHANGED <<sub, finished, dlq>>
        /\ runs' = [runs EXCEPT ![m.task] = @ + 1]
    BY DEF OnMessage, Message, apiVars
  <1>2. /\ Task(h)' = m.task /\ pc'[h] = "load"
        /\ \A k \in Handlers \ {h} : Task(k)' = Task(k) /\ pc'[k] = pc[k]
    BY DEF OnMessage, Goto, Task, TypeInv, TypeOK
  <1>3. Carries(h, m.task)'
    BY <1>2 DEF OnMessage, Carries, Held, TypeInv, TypeOK
  <1>4. \A t \in Tasks \ {m.task} : Kept(t) => Kept(t)'
    <2> SUFFICES ASSUME NEW t \in Tasks \ {m.task}, Kept(t) PROVE Kept(t)'
      OBVIOUS
    <2>1. CASE InQueue(t)
      BY <2>1 DEF OnMessage, Kept, InQueue, TypeInv, TypeOK
    <2>2. ASSUME NEW c \in Handlers, Carries(c, t) PROVE Kept(t)'
      <3>1. c # h
        BY <2>2 DEF OnMessage, Carries, Held
      <3>2. Carries(c, t)'
        BY <1>2, <2>2, <3>1 DEF OnMessage, Carries, Held, TypeInv, TypeOK
      <3> QED BY <3>2 DEF Kept
    <2> QED BY <1>1, <2>1, <2>2 DEF Kept, InDlq
  <1>5. \A t \in Tasks : sub'[t] = "done" \/ runs'[t] > 0 => Kept(t)'
    <2>1. Kept(m.task)'
      BY <1>3 DEF Kept
    <2>2. \A t \in Tasks \ {m.task} : runs'[t] = runs[t]
      BY <1>1 DEF TypeInv, TypeOK
    <2> QED BY <1>1, <1>4, <2>1, <2>2 DEF KeptInv
  <1>8. KeptStays
    BY <1>3, <1>4 DEF KeptStays, Kept
  <1>6. \A k \in Handlers : pc'[k] = "ack" => Task(k)' \in finished'
    BY <1>1, <1>2 DEF KeptInv
  <1>7. \A k \in Handlers : pc'[k] # "idle" => runs'[Task(k)'] > 0
    <2> SUFFICES ASSUME NEW k \in Handlers, pc'[k] # "idle" PROVE runs'[Task(k)'] > 0
      OBVIOUS
    <2>1. CASE k = h
      BY <1>1, <1>2, <2>1 DEF TypeInv, TypeOK
    <2>2. CASE k # h
      BY <1>1, <1>2, <2>2, RunningHasMessage DEF KeptInv, TypeInv, TypeOK
    <2> QED BY <2>1, <2>2
  <1> QED BY <1>5, <1>6, <1>7, <1>8 DEF KeptInv

\* A lost delivery is back in the queue.
LEMMA LossKeeps ==
    ASSUME TypeInv, KeptInv, NEW w \in Workers, ConnectionLost(w) \/ WorkerCrash(w)
    PROVE  KeptInv' /\ KeptStays
  <1>1. /\ UNCHANGED <<sub, runs, finished, dlq>>
        /\ \A k \in Handlers :
             \/ pc'[k] = pc[k] /\ msg'[k] = msg[k]
             \/ pc'[k] = "idle" /\ WorkerOf[k] = w
    BY DEF ConnectionLost, WorkerCrash, apiVars, TypeInv, TypeOK
  <1>2. \A m \in Message : queue[m] > 0 => queue'[m] > 0
    <2>1. CASE unacked[w] = None
      BY <2>1 DEF ConnectionLost, WorkerCrash, Requeue
    <2>2. CASE unacked[w] # None
      <3>1. msg[unacked[w]] \in Message
        BY <2>2, RunningHasMessage DEF TypeInv, TypeOK, HandlersOK
      <3>2. queue' = [queue EXCEPT ![msg[unacked[w]]] = @ + 1]
        BY <2>2 DEF ConnectionLost, WorkerCrash, Requeue
      <3> QED BY <3>1, <3>2 DEF TypeInv, TypeOK
    <2> QED BY <2>1, <2>2
  <1>3. \A t \in Tasks : Kept(t) => Kept(t)'
    <2> SUFFICES ASSUME NEW t \in Tasks, Kept(t) PROVE Kept(t)'
      OBVIOUS
    <2>1. CASE InQueue(t) \/ InDlq(t) \/ t \in finished
      BY <1>1, <1>2, <2>1 DEF Kept, InQueue, InDlq
    <2>2. ASSUME NEW c \in Handlers, Carries(c, t) PROVE Kept(t)'
      <3>1. CASE WorkerOf[c] = w
        <4>1. unacked[w] = c /\ unacked[w] # None /\ Task(c) = t
          BY <2>2, <3>1 DEF Carries, Held
        <4>2. msg[c] \in Message
          BY <4>1, RunningHasMessage DEF TypeInv, HandlersOK
        <4>3. queue' = [queue EXCEPT ![msg[c]] = @ + 1]
          BY <4>1 DEF ConnectionLost, WorkerCrash, Requeue
        <4>4. queue'[msg[c]] > 0
          BY <4>2, <4>3 DEF TypeInv, TypeOK
        <4> QED BY <4>1, <4>2, <4>4 DEF Kept, InQueue, Task
      <3>2. CASE WorkerOf[c] # w
        <4>1. unacked'[WorkerOf[c]] = unacked[WorkerOf[c]]
          BY <3>2 DEF ConnectionLost, WorkerCrash, Requeue, TypeInv, TypeOK
        <4> QED BY <1>1, <2>2, <3>2, <4>1 DEF Kept, Carries, Held, Task,
                   ConnectionLost, WorkerCrash, TypeInv, TypeOK
      <3> QED BY <3>1, <3>2
    <2> QED BY <2>1, <2>2 DEF Kept
  <1> QED BY <1>1, <1>3 DEF KeptInv, Task, KeptStays

\* A step of execute keeps every task.
LEMMA ExecuteKeeps ==
    ASSUME TypeInv, KeptInv, NEW h \in Handlers, ExecuteStep(h)
    PROVE  KeptInv' /\ KeptStays
  <1>1. PICK q \in WorkerPoints \ {"ack_retry", "outer_nack"} :
          Goto(h, q) /\ (q = "ack" => pc[h] = "hook_done")
    BY ExecuteFrame
  <1>2. /\ UNCHANGED <<sub, runs, queue, dlq, unacked, msg>>
        /\ finished' = (IF pc[h] = "hook_done" THEN finished \cup {Task(h)} ELSE finished)
        /\ pc[h] # "idle"
    BY ExecuteFrame, PointsType
  <1>3. /\ \A k \in Handlers : Task(k)' = Task(k)
        /\ \A k \in Handlers \ {h} : pc'[k] = pc[k]
        /\ pc'[h] = q
    BY <1>1, <1>2 DEF Goto, Task, TypeInv, TypeOK
  <1>4. \A t \in Tasks : Kept(t) => Kept(t)'
    BY <1>2, <1>3, KeptFrame
  <1> QED BY <1>1, <1>2, <1>3, <1>4 DEF KeptInv, KeptStays

\* Submit adds to what is kept.
LEMMA ApiKeeps ==
    ASSUME TypeInv, KeptInv, NEW t \in Tasks, Submit(t)
    PROVE  KeptInv' /\ KeptStays
  <1> DEFINE m == [task |-> t, retry |-> 0]
  <1>1. m \in Message /\ m.task = t
    BY DEF Message
  <1>2. UNCHANGED <<dlq, unacked, pc, msg, runs, finished>>
    BY DEF Submit, history
  <1>3. \/ queue' = queue /\ sub'[t] # "done"
        \/ queue' = [queue EXCEPT ![m] = @ + 1]
    BY DEF Submit, SubmitNext, TypeInv, TypeOK
  <1>4. /\ \A n \in Message : queue[n] > 0 => queue'[n] > 0
        /\ sub'[t] = "done" => queue'[m] > 0
    <2> HIDE DEF m
    <2>1. CASE queue' = queue /\ sub'[t] # "done"
      BY <2>1
    <2>2. CASE queue' = [queue EXCEPT ![m] = @ + 1]
      BY <1>1, <2>2 DEF TypeInv, TypeOK
    <2> QED BY <1>3, <2>1, <2>2
  <1>5. \A k \in Tasks : Kept(k) => Kept(k)'
    BY <1>2, <1>4 DEF Kept, InQueue, InDlq, Carries, Held, Task
  <1>6. sub'[t] = "done" => Kept(t)'
    BY <1>1, <1>4 DEF Kept, InQueue
  <1>7. \A k \in Tasks \ {t} : sub'[k] = sub[k]
    BY DEF Submit, TypeInv, TypeOK
  <1> QED BY <1>2, <1>5, <1>6, <1>7 DEF KeptInv, Task, KeptStays

\* Nothing is accepted or delivered at first.
LEMMA KeptInit == Init => KeptInv
  BY DEF Init, KeptInv

(* Steps that leave the broker, the handlers and the submits alone. *)
LEMMA QuietKeeps ==
    ASSUME TypeInv, KeptInv,
           UNCHANGED <<sub, queue, dlq, unacked, pc, msg, runs, finished>>
    PROVE  KeptInv' /\ KeptStays
  <1>1. \A t \in Tasks : Kept(t) => Kept(t)'
    BY KeptFrame
  <1> QED BY <1>1 DEF KeptInv, Task, KeptStays

\* Every step keeps what is accepted or delivered.
LEMMA KeptStep ==
    ASSUME TypeInv, KeptInv, [Next]_vars
    PROVE  KeptInv' /\ KeptStays
  <1> USE DEF apiVars, redisVars, brokerVars, history
  <1>1. ASSUME NEW t \in Tasks, Submit(t) \/ CacheExpire(t) \/ Age(t)
        PROVE  KeptInv' /\ KeptStays
    BY <1>1, ApiKeeps, QuietKeeps DEF CacheExpire, Age
  <1>2. ASSUME NEW h \in Handlers, SettleStep(h)
        PROVE  KeptInv' /\ KeptStays
    <2>1. CASE AckDone(h)
      <3>1. Task(h) \in finished
        BY <2>1 DEF AckDone, Settle, KeptInv
      <3> QED BY <2>1, <3>1, SettleKeeps, PointsType DEF AckDone
    <2>2. CASE Republish(h)
      BY <2>2, RepublishKeeps
    <2>3. CASE AckRetry(h)
      BY <2>3, SettleKeeps, PointsType DEF AckRetry
    <2>4. CASE DeadLetter(h)
      BY <2>4, SettleKeeps, PointsType DEF DeadLetter
    <2>5. CASE OuterNack(h)
      BY <2>5, SettleKeeps, PointsType DEF OuterNack
    <2> QED BY <1>2, <2>1, <2>2, <2>3, <2>4, <2>5 DEF SettleStep
  <1>3. ASSUME NEW p \in Pollers, PollerStep(p)
        PROVE  KeptInv' /\ KeptStays
    <2>1. UNCHANGED <<sub, queue, dlq, unacked, pc, msg, runs, finished>>
      BY <1>3 DEF PollerStep, PollMiss, PollRead, PollFill, PollAbort, PollStep
    <2> QED BY <2>1, QuietKeeps
  <1>4. CASE CleanupLoop
    BY <1>4, QuietKeeps DEF CleanupLoop
  <1>5. CASE UNCHANGED vars
    BY <1>5, QuietKeeps DEF vars
  <1> QED BY <1>1, <1>2, <1>3, <1>4, <1>5, ExecuteKeeps, DeliveryKeeps, LossKeeps
          DEF Next, HandlerStep

\* A task that was accepted or delivered is kept in every reachable state.
THEOREM KeptCorrect == Spec => []KeptInv
  BY TypeCorrect, KeptInit, KeptStep, PTL DEF Spec

(* A task that submit accepted is never lost, whatever raises, crashes or   *)
(* disconnects, for any number of workers and any MAX_RETRIES.              *)
THEOREM NothingLostHolds == Spec => []NothingLost
  <1>1. KeptInv => NothingLost
    BY DEF KeptInv, NothingLost
  <1> QED BY <1>1, KeptCorrect, PTL

-----------------------------------------------------------------------------
(***************************************************************************)
(* A message names a task whose input is stored and whose row exists.      *)
(***************************************************************************)
Recorded(t) == t \in stored /\ (db[t] # "none" \/ t \in aged)

(* Submit stores, then creates, then publishes; only retention deletes.     *)
RecordInv ==
    /\ \A t \in Tasks : sub[t] \in {"s_create", "s_cache", "s_publish"} => t \in stored
    /\ \A t \in Tasks : sub[t] \in {"s_cache", "s_publish"} => Recorded(t)
    /\ WorkerFindsTask

\* Nothing is stored or queued at first.
LEMMA RecordInit == Init => RecordInv
  BY DEF Init, RecordInv, WorkerFindsTask, InQueue, Busy

(* Inputs are never deleted, rows do not become younger, and a commit is a  *)
(* commit.                                                                  *)
LEMMA OnlyGrows ==
    ASSUME [Next]_vars
    PROVE  stored \subseteq stored' /\ aged \subseteq aged' /\ committed \subseteq committed'
  BY DEF Next, vars, apiVars, history, Submit, CacheExpire, Age, HandlerStep, ExecuteStep,
         RepoGet, RepoUpdate, CacheSet, Compute, PublishEvent, SendWebhook, SettleStep,
         AckDone, Republish, AckRetry, DeadLetter, OuterNack, Settle, OnMessage,
         ConnectionLost, WorkerCrash, PollerStep, PollMiss, PollRead, PollFill, PollAbort,
         PollStep, CleanupLoop

(* No step but retention removes what is recorded, and retention removes    *)
(* only what has aged.                                                      *)
LEMMA RecordedStays ==
    ASSUME TypeInv, [Next]_vars, NEW t \in Tasks, Recorded(t)
    PROVE  Recorded(t)'
  <1>1. stored \subseteq stored' /\ aged \subseteq aged'
    BY OnlyGrows
  <1>2. db[t] # "none" => db'[t] # "none" \/ t \in aged
    <2>1. CASE UNCHANGED db
      BY <2>1
    <2>2. ASSUME NEW k \in Tasks, Submit(k) PROVE <1>2
      BY <2>2 DEF Submit, TypeInv, TypeOK
    <2>3. ASSUME NEW h \in Handlers, RepoUpdate(h) PROVE <1>2
      BY <2>3 DEF RepoUpdate, Call, StatusAt, TypeInv, TypeOK
    <2>4. CASE CleanupLoop
      BY <2>4 DEF CleanupLoop
    <2> QED BY <2>1, <2>2, <2>3, <2>4
        DEF Next, vars, CacheExpire, Age, HandlerStep, ExecuteStep, RepoGet, CacheSet,
            Compute, PublishEvent, SendWebhook, SettleStep, AckDone, Republish, AckRetry,
            DeadLetter, OuterNack, Settle, OnMessage, ConnectionLost, WorkerCrash,
            PollerStep, PollMiss, PollRead, PollFill, PollAbort, PollStep
  <1> QED BY <1>1, <1>2 DEF Recorded

Present(t) == InQueue(t) \/ \E h \in Handlers : Busy(h, t)

(* Only the last step of submit brings a task to the queue and the workers: *)
(* every other copy is made from a message that is there already.           *)
LEMMA PresenceOrigin ==
    ASSUME TypeInv, [Next]_vars, NEW t \in Tasks, Present(t)'
    PROVE  Present(t) \/ (Submit(t) /\ sub[t] = "s_publish")
  <1> USE DEF apiVars, redisVars, brokerVars, history
  <1>1. CASE UNCHANGED <<queue, pc, msg>>
    BY <1>1 DEF Present, InQueue, Busy, Task
  <1>2. CASE Submit(t)
    BY <1>2, <1>1 DEF Submit
  <1>3. ASSUME NEW k \in Tasks \ {t}, Submit(k)
        PROVE  Present(t)
    <2>1. \/ queue' = queue
          \/ queue' = [queue EXCEPT ![[task |-> k, retry |-> 0]] = @ + 1]
      BY <1>3 DEF Submit
    <2>2. \A m \in Message : m.task = t => queue'[m] = queue[m]
      BY <2>1 DEF TypeInv, TypeOK
    <2> QED BY <1>3, <2>2 DEF Submit, Present, InQueue, Busy, Task
  <1>4. ASSUME NEW h \in Handlers, ExecuteStep(h)
        PROVE  Present(t)
    <2>1. UNCHANGED <<queue, msg>> /\ pc[h] # "idle"
      BY <1>4, ExecuteFrame, PointsType
    <2>2. \A k \in Handlers \ {h} : pc'[k] = pc[k]
      BY <1>4, ExecuteFrame DEF Goto, TypeInv, TypeOK
    <2> QED BY <2>1, <2>2 DEF Present, InQueue, Busy, Task
  <1>5. ASSUME NEW h \in Handlers, NEW m \in Message, OnMessage(h, m)
        PROVE  Present(t)
    <2>1. \A n \in Message : queue'[n] > 0 => queue[n] > 0
      BY <1>5 DEF OnMessage, TypeInv, TypeOK
    <2>2. /\ Task(h)' = m.task
          /\ \A k \in Handlers \ {h} : Task(k)' = Task(k) /\ pc'[k] = pc[k]
      BY <1>5 DEF OnMessage, Goto, Task, TypeInv, TypeOK
    <2>3. queue[m] > 0
      BY <1>5 DEF OnMessage
    <2> QED BY <2>1, <2>2, <2>3 DEF Present, InQueue, Busy
  <1>6. ASSUME NEW h \in Handlers, SettleStep(h)
        PROVE  Present(t)
    <2>1. pc[h] # "idle" /\ msg[h] \in Message
      BY <1>6, PointsType, RunningHasMessage
      DEF SettleStep, AckDone, Republish, AckRetry, DeadLetter, OuterNack, Settle
    <2>2. CASE Republish(h)
      <3>1. UNCHANGED msg /\ \A k \in Handlers \ {h} : pc'[k] = pc[k]
        BY <2>2 DEF Republish, Goto, TypeInv, TypeOK
      <3>2. \A n \in Message : queue'[n] > 0 => queue[n] > 0 \/ n.task = Task(h)
        <4>1. [msg[h] EXCEPT !.retry = @ + 1].task = Task(h)
          BY <2>1 DEF Task, Message
        <4> QED BY <2>2, <4>1 DEF Republish, TypeInv, TypeOK
      <3> QED BY <2>1, <3>1, <3>2 DEF Present, InQueue, Busy, Task
    <2>3. CASE ~Republish(h)
      <3>1. UNCHANGED queue
        BY <1>6, <2>3 DEF SettleStep, AckDone, AckRetry, DeadLetter, OuterNack, Settle
      <3>2. /\ \A k \in Handlers \ {h} : pc'[k] = pc[k] /\ msg'[k] = msg[k]
            /\ pc'[h] = "idle" \/ msg'[h] = msg[h]
        BY <1>6, <2>3 DEF SettleStep, AckDone, AckRetry, DeadLetter, OuterNack, Settle,
                          Leave, Goto, TypeInv, TypeOK
      <3> QED BY <2>1, <3>1, <3>2 DEF Present, InQueue, Busy, Task
    <2> QED BY <2>2, <2>3
  <1>7. ASSUME NEW w \in Workers, ConnectionLost(w) \/ WorkerCrash(w)
        PROVE  Present(t)
    <2>1. \A k \in Handlers : pc'[k] = "idle" \/ (pc'[k] = pc[k] /\ msg'[k] = msg[k])
      BY <1>7 DEF ConnectionLost, WorkerCrash
    <2>2. \A n \in Message : queue'[n] > 0 => queue[n] > 0
                                              \/ \E k \in Handlers : Busy(k, n.task)
      <3>1. CASE unacked[w] = None
        BY <1>7, <3>1 DEF ConnectionLost, WorkerCrash, Requeue
      <3>2. CASE unacked[w] # None
        <4>1. unacked[w] \in Handlers /\ Busy(unacked[w], msg[unacked[w]].task)
          BY <3>2 DEF TypeInv, TypeOK, HandlersOK, Busy, Task
        <4>2. queue' = [queue EXCEPT ![msg[unacked[w]]] = @ + 1]
          BY <1>7, <3>2 DEF ConnectionLost, WorkerCrash, Requeue
        <4> QED BY <4>1, <4>2 DEF TypeInv, TypeOK
      <3> QED BY <3>1, <3>2
    <2> QED BY <2>1, <2>2 DEF Present, InQueue, Busy, Task
  <1>8. ASSUME NEW p \in Pollers, PollerStep(p)
        PROVE  Present(t) \/ (Submit(t) /\ sub[t] = "s_publish")
    BY <1>1, <1>8 DEF PollerStep, PollMiss, PollRead, PollFill, PollAbort, PollStep
  <1> QED BY <1>1, <1>2, <1>3, <1>4, <1>5, <1>6, <1>7, <1>8
          DEF Next, HandlerStep, CacheExpire, Age, CleanupLoop, vars

\* Every step keeps submit's progress and its effects in agreement.
LEMMA RecordStep ==
    ASSUME TypeInv, RecordInv, [Next]_vars
    PROVE  RecordInv'
  <1> SUFFICES ASSUME NEW t \in Tasks
               PROVE  /\ sub'[t] \in {"s_create", "s_cache", "s_publish"} => t \in stored'
                      /\ sub'[t] \in {"s_cache", "s_publish"} => Recorded(t)'
                      /\ Present(t)' => Recorded(t)'
    BY DEF RecordInv, WorkerFindsTask, Present, Recorded
  <1>1. Present(t)' => Recorded(t)'
    BY PresenceOrigin, RecordedStays DEF RecordInv, WorkerFindsTask, Present, Recorded
  <1>2. CASE Submit(t)
    BY <1>1, <1>2 DEF Submit, SubmitNext, RecordInv, Recorded, TypeInv, TypeOK
  <1>3. CASE ~Submit(t)
    <2>1. sub'[t] = sub[t]
      BY <1>3 DEF Next, vars, apiVars, Submit, CacheExpire, Age, HandlerStep, ExecuteStep,
           RepoGet, RepoUpdate, CacheSet, Compute, PublishEvent, SendWebhook, SettleStep,
           AckDone, Republish, AckRetry, DeadLetter, OuterNack, Settle, OnMessage,
           ConnectionLost, WorkerCrash, PollerStep, PollMiss, PollRead, PollFill, PollAbort,
           PollStep, CleanupLoop, TypeInv, TypeOK
    <2>2. stored \subseteq stored'
      BY OnlyGrows
    <2> QED BY <1>1, <2>1, <2>2, RecordedStays DEF RecordInv
  <1> QED BY <1>2, <1>3

\* What submit is past has taken effect, in every reachable state.
THEOREM RecordCorrect == Spec => []RecordInv
  BY TypeCorrect, RecordInit, RecordStep, PTL DEF Spec

(* A worker finds the input and the row of every task it is given, whichever *)
(* calls of submit fail, unless retention removed the row.                   *)
THEOREM WorkerFindsTaskHolds == Spec => []WorkerFindsTask
  BY RecordCorrect, PTL DEF RecordInv

-----------------------------------------------------------------------------
(***************************************************************************)
(* Completion is announced after its commit.                               *)
(***************************************************************************)
(* Somebody who is about to announce the completion of t, or could learn it *)
(* from the row.                                                            *)
AboutToAnnounce(t) ==
    \/ db[t] = "completed"
    \/ \E h \in Handlers : Busy(h, t) /\ pc[h] \in {"save_cache", "send_complete", "hook_done"}
    \/ \E p \in Pollers : poll[p].at = "fill" /\ poll[p].task = t /\ poll[p].snap = "completed"

CommitInv ==
    \A t \in Tasks \ aged : Announced(t) \/ AboutToAnnounce(t) => t \in committed

\* Nothing is announced at first.
LEMMA CommitInit == Init => CommitInv
  BY DEF Init, CommitInv, Announced, AboutToAnnounce, Busy

\* What execute announces, or is about to, is committed.
LEMMA ExecuteAnnounces ==
    ASSUME TypeInv, RecordInv, CommitInv, NEW h \in Handlers, ExecuteStep(h),
           NEW t \in Tasks \ aged', Announced(t)' \/ AboutToAnnounce(t)'
    PROVE  t \in committed'
  <1> USE DEF apiVars, redisVars, brokerVars, history
  <1>0. /\ pc[h] \in ExecutePoints /\ Task(h) \in Tasks /\ Busy(h, Task(h))
        /\ UNCHANGED <<msg, poll, aged>> /\ committed \subseteq committed'
        /\ \A k \in Handlers \ {h} : pc'[k] = pc[k]
    <2>1. ExecuteStep(h) => [Next]_vars
      BY DEF Next, HandlerStep
    <2> QED BY <2>1, ExecuteFrame, OnlyGrows, PointsType, RunningHasMessage
            DEF Busy, Goto, TypeInv, TypeOK
  <1>1. CASE Announced(t) \/ AboutToAnnounce(t)
    BY <1>0, <1>1 DEF CommitInv
  <1>2. CASE ~Announced(t) /\ ~AboutToAnnounce(t)
    <2>1. CASE RepoGet(h) \/ Compute(h)
      <3>1. pc'[h] \notin {"save_cache", "send_complete", "hook_done"}
        BY <2>1 DEF RepoGet, Compute, Call, Goto, After, NextPoint, OnRaise, TypeInv, TypeOK
      <3> QED BY <1>0, <1>2, <2>1, <3>1
              DEF RepoGet, Compute, Announced, AboutToAnnounce, Busy, Task
    <2>2. CASE RepoUpdate(h)
      <3>1. db[Task(h)] # "none" \/ Task(h) \in aged
        BY <1>0 DEF RecordInv, WorkerFindsTask
      <3>2. CASE t = Task(h) /\ pc[h] = "save_db"
        <4>1. PICK r \in Outcome :
                /\ Call(h, {"mark_db", "save_db", "fail_db"}, r)
                /\ r # "raises" => committed' = committed \cup {t}
                /\ r = "raises" => UNCHANGED db
          BY <1>0, <2>2, <3>1, <3>2 DEF RepoUpdate
        <4>2. CASE r # "raises"
          BY <4>1, <4>2
        <4>3. CASE r = "raises"
          <5>1. pc'[h] = "fail_db"
            BY <3>2, <4>1, <4>3 DEF Call, Goto, OnRaise, TypeInv, TypeOK
          <5> QED BY <1>0, <1>2, <2>2, <4>1, <4>3, <5>1
                  DEF RepoUpdate, Announced, AboutToAnnounce, Busy, Task
        <4> QED BY <4>2, <4>3
      <3>3. CASE ~(t = Task(h) /\ pc[h] = "save_db")
        <4>1. db'[t] = "completed" => db[t] = "completed"
          BY <1>0, <2>2, <3>3 DEF RepoUpdate, Call, StatusAt, TypeInv, TypeOK
        <4>2. t = Task(h) => pc'[h] \notin {"save_cache", "send_complete", "hook_done"}
          BY <2>2, <3>3 DEF RepoUpdate, Call, Goto, After, NextPoint, OnRaise, TypeInv, TypeOK
        <4> QED BY <1>0, <1>2, <2>2, <4>1, <4>2
                DEF RepoUpdate, Announced, AboutToAnnounce, Busy, Task
      <3> QED BY <3>2, <3>3
    <2>3. CASE CacheSet(h)
      <3>1. t = Task(h) => pc[h] # "save_cache"
        BY <1>0, <1>2 DEF AboutToAnnounce
      <3>2. cache'[t] = "completed" => cache[t] = "completed"
        BY <1>0, <2>3, <3>1 DEF CacheSet, Call, StatusAt, TypeInv, TypeOK
      <3>3. t = Task(h) => pc'[h] \notin {"save_cache", "send_complete", "hook_done"}
        BY <2>3, <3>1 DEF CacheSet, Call, Goto, After, NextPoint, OnRaise, TypeInv, TypeOK
      <3> QED BY <1>0, <1>2, <2>3, <3>2, <3>3
              DEF CacheSet, Announced, AboutToAnnounce, Busy, Task
    <2>4. CASE PublishEvent(h)
      <3>1. t = Task(h) => pc[h] # "send_complete"
        BY <1>0, <1>2 DEF AboutToAnnounce
      <3>2. events'[t] = events[t] \/ events'[t] = Append(events[t], "error")
        BY <1>0, <2>4, <3>1 DEF PublishEvent, Call, TypeInv, TypeOK
      <3>3. (\E i \in 1..Len(events'[t]) : events'[t][i] = "complete")
            => \E i \in 1..Len(events[t]) : events[t][i] = "complete"
        <4> SUFFICES ASSUME NEW i \in 1..Len(events'[t]), events'[t][i] = "complete",
                            events'[t] = Append(events[t], "error")
                     PROVE  i \in 1..Len(events[t]) /\ events[t][i] = "complete"
          BY <3>2
        <4>1. events[t] \in Seq({"complete", "error"})
          BY DEF TypeInv, TypeOK
        <4> QED BY <4>1
      <3>4. t = Task(h) => pc'[h] \notin {"save_cache", "send_complete", "hook_done"}
        BY <2>4, <3>1 DEF PublishEvent, Call, Goto, After, NextPoint, OnRaise, TypeInv, TypeOK
      <3> QED BY <1>0, <1>2, <2>4, <3>3, <3>4
              DEF PublishEvent, Announced, AboutToAnnounce, Busy, Task
    <2>5. CASE SendWebhook(h)
      <3>1. t = Task(h) => pc[h] # "hook_done"
        BY <1>0, <1>2 DEF AboutToAnnounce
      <3>2. "completed" \in hooks'[t] => "completed" \in hooks[t]
        BY <1>0, <2>5, <3>1 DEF SendWebhook, Call, TypeInv, TypeOK
      <3>3. t = Task(h) => pc'[h] \notin {"save_cache", "send_complete", "hook_done"}
        BY <2>5, <3>1 DEF SendWebhook, Call, Goto, After, NextPoint, OnRaise, TypeInv, TypeOK
      <3> QED BY <1>0, <1>2, <2>5, <3>2, <3>3
              DEF SendWebhook, Announced, AboutToAnnounce, Busy, Task
    <2> QED BY <2>1, <2>2, <2>3, <2>4, <2>5 DEF ExecuteStep
  <1> QED BY <1>1, <1>2

\* Every step announces only what is committed.
LEMMA CommitStep ==
    ASSUME TypeInv, RecordInv, CommitInv, [Next]_vars
    PROVE  CommitInv'
  <1> USE DEF apiVars, redisVars, brokerVars, history
  <1> SUFFICES ASSUME NEW t \in Tasks \ aged', Announced(t)' \/ AboutToAnnounce(t)'
               PROVE  t \in committed'
    BY DEF CommitInv
  <1>0. t \notin aged /\ committed \subseteq committed'
    BY OnlyGrows
  <1>1. CASE Announced(t) \/ AboutToAnnounce(t)
    BY <1>0, <1>1 DEF CommitInv
  <1>2. CASE ~Announced(t) /\ ~AboutToAnnounce(t)
    <2>1. CASE UNCHANGED <<db, cache, hooks, events, pc, msg, poll>>
      BY <1>2, <2>1 DEF Announced, AboutToAnnounce, Busy, Task
    <2>2. ASSUME NEW k \in Tasks, Submit(k) \/ CacheExpire(k)
          PROVE  FALSE
      <3>1. db'[t] = "completed" => db[t] = "completed"
        BY <2>2 DEF Submit, CacheExpire, TypeInv, TypeOK
      <3>2. cache'[t] = "completed" => cache[t] = "completed"
        BY <2>2 DEF Submit, CacheExpire, TypeInv, TypeOK
      <3> QED BY <1>2, <2>2, <3>1, <3>2
              DEF Submit, CacheExpire, Announced, AboutToAnnounce, Busy, Task
    <2>3. ASSUME NEW h \in Handlers, NEW m \in Message, OnMessage(h, m)
          PROVE  FALSE
      <3>1. /\ pc'[h] = "load"
            /\ \A k \in Handlers \ {h} : pc'[k] = pc[k] /\ msg'[k] = msg[k]
        BY <2>3 DEF OnMessage, Goto, TypeInv, TypeOK
      <3> QED BY <1>2, <2>3, <3>1 DEF OnMessage, Announced, AboutToAnnounce, Busy, Task
    <2>4. ASSUME NEW h \in Handlers, SettleStep(h)
          PROVE  FALSE
      <3>1. /\ pc'[h] \in {"idle", "except", "ack_retry", "outer_nack"}
            /\ \A k \in Handlers \ {h} : pc'[k] = pc[k] /\ msg'[k] = msg[k]
            /\ UNCHANGED <<db, cache, hooks, events, poll>>
        BY <2>4 DEF SettleStep, AckDone, Republish, AckRetry, DeadLetter, OuterNack, Settle,
                    Leave, Goto, TypeInv, TypeOK
      <3> QED BY <1>2, <3>1 DEF Announced, AboutToAnnounce, Busy, Task
    <2>5. ASSUME NEW w \in Workers, ConnectionLost(w) \/ WorkerCrash(w)
          PROVE  FALSE
      <3>1. /\ UNCHANGED <<db, cache, hooks, events, poll>>
            /\ \A k \in Handlers : pc'[k] = "idle" \/ (pc'[k] = pc[k] /\ msg'[k] = msg[k])
        BY <2>5 DEF ConnectionLost, WorkerCrash
      <3> QED BY <1>2, <3>1 DEF Announced, AboutToAnnounce, Busy, Task
    <2>6. CASE CleanupLoop
      <3>1. db'[t] = "completed" => db[t] = "completed"
        BY <2>6 DEF CleanupLoop
      <3> QED BY <1>2, <2>6, <3>1
              DEF CleanupLoop, Announced, AboutToAnnounce, Busy, Task
    <2>7. ASSUME NEW p \in Pollers, PollerStep(p)
          PROVE  FALSE
      <3>1. /\ UNCHANGED <<db, hooks, events, pc, msg>>
            /\ \A o \in Pollers \ {p} : poll'[o] = poll[o]
        BY <2>7 DEF PollerStep, PollMiss, PollRead, PollFill, PollAbort, PollStep,
                    TypeInv, TypeOK
      <3>2. cache'[t] # "completed"
        BY <1>2, <2>7 DEF PollerStep, PollMiss, PollRead, PollFill, PollAbort, PollStep,
                          Announced, AboutToAnnounce, TypeInv, TypeOK
      <3>3. ~(poll'[p].at = "fill" /\ poll'[p].task = t /\ poll'[p].snap = "completed")
        BY <1>2, <2>7 DEF PollerStep, PollMiss, PollRead, PollFill, PollAbort, PollStep,
                          AboutToAnnounce, TypeInv, TypeOK
      <3> QED BY <1>2, <3>1, <3>2, <3>3 DEF Announced, AboutToAnnounce, Busy, Task
    <2> QED BY <2>1, <2>2, <2>3, <2>4, <2>5, <2>6, <2>7, ExecuteAnnounces
            DEF Next, HandlerStep, Age, vars
  <1> QED BY <1>1, <1>2

(* The cached status, the complete event, the webhook and what a poll may   *)
(* put into the cache say completed only after the row was.                 *)
THEOREM AnnouncedAfterCommitHolds == Spec => []AnnouncedAfterCommit
  <1>1. Spec => []CommitInv
    BY RecordCorrect, TypeCorrect, CommitInit, CommitStep, PTL DEF Spec
  <1>2. CommitInv => AnnouncedAfterCommit
    BY DEF CommitInv, AnnouncedAfterCommit
  <1> QED BY <1>1, <1>2, PTL

-----------------------------------------------------------------------------
(***************************************************************************)
(* The refinement: TaskPipeline implements the safety part of TaskDelivery *)
(* under the mapping Job of TaskProperties.                                *)
(***************************************************************************)
(* What stands for a task was put there by its submit. *)
LEMMA KeptOrigin ==
    ASSUME TypeInv, KeptInv, [Next]_vars, NEW t \in Tasks, Kept(t)',
           t \in finished' => t \in finished, InDlq(t)' => InDlq(t)
    PROVE  Kept(t) \/ Submit(t)
  <1>1. CASE t \in finished' \/ InDlq(t)'
    BY <1>1 DEF Kept
  <1>2. CASE InQueue(t)' \/ \E h \in Handlers : Carries(h, t)'
    <2>1. \A h \in Handlers : Carries(h, t)' => Busy(h, t)'
      <3> SUFFICES ASSUME NEW h \in Handlers, Carries(h, t)' PROVE Busy(h, t)'
        OBVIOUS
      <3>1. TypeInv'
        BY TypeApi, TypeExecute, TypeSettleStep, TypeDelivery, TypeLoss, TypePoll,
           TypeCleanup, TypeStutter DEF Next, HandlerStep
      <3>2. unacked'[WorkerOf[h]] = h /\ h # None /\ WorkerOf[h] \in Workers
        BY DEF Carries, Held
      <3>3. pc'[h] # "idle"
        BY <3>1, <3>2 DEF TypeInv, HandlersOK
      <3> QED BY <3>3 DEF Carries, Busy
    <2>2. Present(t)'
      BY <1>2, <2>1 DEF Present
    <2>3. Present(t) \/ Submit(t)
      BY <2>2, PresenceOrigin
    <2>4. Present(t) => Kept(t)
      BY DEF Present, Kept, KeptInv, Busy
    <2> QED BY <2>3, <2>4
  <1> QED BY <1>1, <1>2 DEF Kept

(* The task that a step may finish, dead-letter or accept: at most one, and *)
(* one that is finished or dead-lettered was accepted before.               *)
Concerns(s) ==
    /\ \A t \in Tasks \ {s} : /\ t \in finished' <=> t \in finished
                              /\ InDlq(t)' <=> InDlq(t)
                              /\ Kept(t)' <=> Kept(t)
    /\ s \in finished => s \in finished'
    /\ InDlq(s) => InDlq(s)'
    /\ Kept(s) => Kept(s)'
    /\ ~Kept(s) => s \notin finished' /\ ~InDlq(s)'

\* A step of submit changes the progress of its own task and of no other task.
LEMMA SubmitMoves ==
    ASSUME TypeInv, NEW t \in Tasks, Submit(t)
    PROVE  sub'[t] # sub[t] /\ \A k \in Tasks \ {t} : sub'[k] = sub[k]
  BY DEF Submit, SubmitNext, TypeInv, TypeOK

\* Every step is the business of a single task: no other task becomes kept,
\* finished or dead-lettered by it (d only shows that there is a task to choose).
LEMMA OneTask ==
    ASSUME TypeInv, KeptInv, [Next]_vars, NEW d \in Tasks
    PROVE  \E s \in Tasks : Concerns(s)
  <1> USE DEF apiVars, redisVars, brokerVars, history
  <1>1. \A t \in Tasks : Kept(t) => Kept(t)'
    BY KeptStep DEF KeptStays
  <1>2. ASSUME UNCHANGED <<finished, dlq>>, NEW s \in Tasks,
               \A t \in Tasks \ {s} : ~Submit(t)
        PROVE  Concerns(s)
    BY <1>1, <1>2, KeptOrigin DEF Concerns, InDlq, Kept
  <1>3. ASSUME NEW s \in Tasks, Submit(s)
        PROVE  \E k \in Tasks : Concerns(k)
    <2>1. \A t \in Tasks \ {s} : ~Submit(t)
      BY <1>3, SubmitMoves
    <2> QED BY <1>2, <1>3, <2>1 DEF Submit
  <1>4. ASSUME NEW h \in Handlers, ExecuteStep(h)
        PROVE  \E k \in Tasks : Concerns(k)
    <2>1. /\ pc[h] # "idle" /\ UNCHANGED <<dlq, sub>>
          /\ finished \subseteq finished' /\ finished' \subseteq finished \cup {Task(h)}
      BY <1>4, ExecuteFrame, PointsType
    <2>2. PICK s \in Tasks : s = Task(h) /\ Kept(s)
      BY <2>1, RunningHasMessage DEF KeptInv
    <2>3. \A t \in Tasks : ~Submit(t)
      BY <2>1, SubmitMoves
    <2>4. \A t \in Tasks : InDlq(t)' <=> InDlq(t)
      BY <2>1 DEF InDlq
    <2>5. \A t \in Tasks \ {s} : Kept(t)' => Kept(t)
      BY <2>1, <2>2, <2>3, <2>4, KeptOrigin
    <2>6. Concerns(s)
      BY <1>1, <2>1, <2>2, <2>4, <2>5 DEF Concerns
    <2> QED BY <2>2, <2>6
  <1>5. ASSUME NEW h \in Handlers, SettleStep(h)
        PROVE  \E k \in Tasks : Concerns(k)
    <2>1. /\ pc[h] # "idle" /\ UNCHANGED <<finished, sub>>
          /\ dlq \subseteq dlq' /\ dlq' \subseteq dlq \cup {msg[h]}
      BY <1>5, PointsType
      DEF SettleStep, AckDone, Republish, AckRetry, DeadLetter, OuterNack, Settle
    <2>2. PICK s \in Tasks : s = Task(h) /\ Kept(s)
      BY <2>1, RunningHasMessage DEF KeptInv
    <2>3. \A t \in Tasks : ~Submit(t)
      BY <2>1, SubmitMoves
    <2>4. \A t \in Tasks : InDlq(t) => InDlq(t)'
      BY <2>1 DEF InDlq
    <2>5. \A t \in Tasks \ {s} : InDlq(t)' => InDlq(t)
      BY <2>1, <2>2 DEF InDlq, Task
    <2>6. \A t \in Tasks \ {s} : Kept(t)' => Kept(t)
      BY <2>1, <2>3, <2>5, KeptOrigin
    <2>7. Concerns(s)
      BY <1>1, <2>1, <2>2, <2>4, <2>5, <2>6 DEF Concerns
    <2> QED BY <2>2, <2>7
  <1>6. ASSUME UNCHANGED <<sub, finished, dlq>>
        PROVE  \E k \in Tasks : Concerns(k)
    <2>1. \A t \in Tasks : ~Submit(t)
      BY <1>6, SubmitMoves
    <2> QED BY <1>2, <1>6, <2>1
  <1>7. ASSUME NEW p \in Pollers, PollerStep(p)
        PROVE  UNCHANGED <<sub, finished, dlq>>
    BY <1>7 DEF PollerStep, PollMiss, PollRead, PollFill, PollAbort, PollStep
  <1> QED BY <1>3, <1>4, <1>5, <1>6, <1>7
          DEF Next, HandlerStep, CacheExpire, Age, OnMessage, ConnectionLost, WorkerCrash,
              CleanupLoop, vars

\* Every step of the pipeline is a step of the abstract delivery or none.
LEMMA JobStep ==
    ASSUME TypeInv, KeptInv, [Next]_vars
    PROVE  [Delivery!Next]_Job
  <1>1. CASE Tasks = {}
    <2>1. Job' = Job
      BY <1>1 DEF Job
    <2> QED BY <2>1
  <1>2. CASE Tasks # {}
    <2>1. PICK s \in Tasks : Concerns(s)
      BY <1>2, OneTask
    <2>2. \A t \in Tasks \ {s} : Job'[t] = Job[t]
      BY <2>1 DEF Job, Concerns, Kept
    <2>3. Job' = [Job EXCEPT ![s] = Job'[s]]
      BY <2>2 DEF Job
    <2>4. \/ Job'[s] = Job[s]
          \/ Job[s] = "none" /\ Job'[s] = "owed"
          \/ Job[s] \in {"owed", "buried"} /\ Job'[s] = "served"
          \/ Job[s] = "owed" /\ Job'[s] = "buried"
      BY <2>1 DEF Job, Concerns, Kept
    <2>5. CASE Job'[s] = Job[s]
      BY <2>2, <2>5 DEF Job
    <2> QED BY <2>3, <2>4, <2>5
            DEF Delivery!Next, Delivery!Owe, Delivery!Serve, Delivery!Bury
  <1> QED BY <1>1, <1>2

(* The pipeline implements at-least-once delivery: an accepted task is      *)
(* served or buried, once, and no loss or fault takes that back.            *)
THEOREM DeliveryRefined == Spec => Delivery!Spec
  <1>1. Init => Delivery!Init
    BY DEF Init, Delivery!Init, Job, InDlq, InQueue, Carries, Held
  <1> QED BY <1>1, JobStep, TypeCorrect, KeptCorrect, PTL DEF Spec, Delivery!Spec
=============================================================================
