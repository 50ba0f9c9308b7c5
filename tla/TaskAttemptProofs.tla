------------------------- MODULE TaskAttemptProofs --------------------------
(***************************************************************************)
(* Theorems about TaskPipeline: while no delivery of a task is lost, its   *)
(* attempts never overlap, there are at most MAX_RETRIES + 1 of them, and, *)
(* where no call after the commit raises, a completed row is final; each   *)
(* lost delivery costs at most MAX_RETRIES + 1 further attempts; where     *)
(* only the work itself fails, a settled task has the same outcome in its  *)
(* row, its event stream, its cache entry and the dead-letter queue; and,  *)
(* whatever raises, a task is told completed once an execute of it has     *)
(* returned, or it is dead-lettered.                                       *)
(***************************************************************************)
EXTENDS TaskSafetyProofs, FiniteSetTheorems

USE ConstantsAssumption

(* The token argument.  Unless a delivery of t was lost, its next attempt   *)
(* exists once: as the one copy in the queue, whose header counts the       *)
(* attempts before it, or as the one handler still working on it, whose     *)
(* header counts the attempts before its own.                               *)
TokenInv(t) ==
    /\ \A h \in Handlers : Busy(h, t) => Held(h)
    /\ sub[t] \in DOMAIN SubmitNext => ~Present(t) /\ runs[t] = 0
    /\ \A m \in Message : m.task = t /\ queue[m] > 0 =>
         queue[m] = 1 /\ runs[t] = m.retry
    /\ \A h \in Handlers : Working(h, t) =>
         ~InQueue(t) /\ runs[t] = msg[h].retry + 1
    /\ \A h1, h2 \in Handlers : Working(h1, t) /\ Working(h2, t) => h1 = h2
    /\ runs[t] <= MaxRetries + 1

AttemptInv == \A t \in Tasks \ redelivered : TokenInv(t)

\* Before any submit there is no attempt.
LEMMA AttemptInit == Init => AttemptInv
  <1> SUFFICES ASSUME Init, NEW t \in Tasks PROVE TokenInv(t)
    BY DEF AttemptInv
  <1>1. ~InQueue(t) /\ (\A h \in Handlers : ~Busy(h, t)) /\ runs[t] = 0
    BY DEF Init, InQueue, Busy
  <1>2. 0 <= MaxRetries + 1 /\ \A m \in Message : queue[m] = 0
    BY DEF Init
  <1> QED BY <1>1, <1>2 DEF TokenInv, Present, Working, InQueue

(* A step that adds nothing to what there is of t keeps its token.          *)
LEMMA TokenFrame ==
    ASSUME TypeInv, NEW t \in Tasks, TokenInv(t),
           sub'[t] = sub[t] \/ sub'[t] \notin DOMAIN SubmitNext,
           runs'[t] = runs[t],
           \A m \in Message : m.task = t => queue'[m] = queue[m],
           \A k \in Handlers : Busy(k, t)' => Busy(k, t) /\ msg'[k] = msg[k] /\ Held(k)',
           \A k \in Handlers : Working(k, t)' => Working(k, t)
    PROVE  TokenInv(t)'
  <1>1. /\ Present(t)' => Present(t)
        /\ InQueue(t)' => InQueue(t)
    BY DEF Present, InQueue
  <1>2. \A k \in Handlers : Working(k, t)' => msg'[k] = msg[k]
    BY DEF Working
  <1> QED BY <1>1, <1>2 DEF TokenInv

\* The publication of submit makes the one token of its task.
LEMMA SubmitToken ==
    ASSUME TypeInv, NEW k \in Tasks, Submit(k), NEW t \in Tasks, TokenInv(t)
    PROVE  TokenInv(t)'
  <1> DEFINE m == [task |-> k, retry |-> 0]
  <1>1. m \in Message /\ m.task = k /\ m.retry = 0
    BY DEF Message
  <1>2. UNCHANGED <<unacked, pc, msg, runs>>
    BY DEF Submit, history
  <1>3. /\ \A o \in Tasks \ {k} : sub'[o] = sub[o]
        /\ sub[k] \in DOMAIN SubmitNext
        /\ \/ queue' = queue
           \/ /\ queue' = [queue EXCEPT ![m] = @ + 1]
              /\ sub'[k] \notin DOMAIN SubmitNext
    BY DEF Submit, SubmitNext, TypeInv, TypeOK
  <1>4. \A h \in Handlers : /\ Busy(h, t)' <=> Busy(h, t)
                            /\ Working(h, t)' <=> Working(h, t)
                            /\ Held(h)' <=> Held(h)
    BY <1>2 DEF Busy, Working, Held, Task
  <1> HIDE DEF m
  <1>5. CASE k # t
    <2>1. \A n \in Message : n.task = t => queue'[n] = queue[n]
      BY <1>1, <1>3, <1>5 DEF TypeInv, TypeOK
    <2> QED BY <1>2, <1>3, <1>4, <1>5, <2>1, TokenFrame DEF TokenInv
  <1>6. CASE k = t
    <2>1. ~Present(t) /\ runs[t] = 0
      BY <1>3, <1>6 DEF TokenInv
    <2>2. (\A h \in Handlers : ~Busy(h, t)) /\ \A n \in Message : n.task = t => queue[n] = 0
      BY <2>1 DEF Present, InQueue, TypeInv, TypeOK
    <2>3. CASE queue' = queue
      BY <1>2, <1>4, <2>1, <2>2, <2>3 DEF TokenInv, Present, InQueue, Working
    <2>4. CASE queue' = [queue EXCEPT ![m] = @ + 1] /\ sub'[k] \notin DOMAIN SubmitNext
      <3>1. queue'[m] = 1 /\ \A n \in Message \ {m} : queue'[n] = queue[n]
        BY <1>1, <1>6, <2>2, <2>4 DEF TypeInv, TypeOK
      <3> QED BY <1>1, <1>2, <1>4, <1>6, <2>1, <2>2, <2>4, <3>1
              DEF TokenInv, Working
    <2> QED BY <1>3, <2>3, <2>4
  <1> QED BY <1>5, <1>6

\* A step of execute leaves the token where it is.
LEMMA ExecuteToken ==
    ASSUME TypeInv, NEW h \in Handlers, ExecuteStep(h), NEW t \in Tasks, TokenInv(t)
    PROVE  TokenInv(t)'
  <1>1. PICK q \in WorkerPoints \ {"ack_retry", "outer_nack"} : Goto(h, q)
    BY ExecuteFrame
  <1>2. UNCHANGED <<sub, queue, unacked, msg, runs>> /\ pc[h] \in ExecutePoints
    BY ExecuteFrame
  <1>3. \A k \in Handlers : pc'[k] = pc[k] \/ (k = h /\ pc'[k] = q)
    BY <1>1 DEF Goto, TypeInv, TypeOK
  <1>4. \A k \in Handlers : /\ Busy(k, t)' => Busy(k, t)
                            /\ Working(k, t)' => Working(k, t)
                            /\ Held(k) => Held(k)'
    BY <1>2, <1>3, PointsType DEF Busy, Working, Held, Task
  <1> QED BY <1>2, <1>4, TokenFrame DEF TokenInv

\* A delivery moves the token from the queue to the handler.
LEMMA DeliveryToken ==
    ASSUME TypeInv, NEW h \in Handlers, NEW m \in Message, OnMessage(h, m),
           NEW t \in Tasks, TokenInv(t)
    PROVE  TokenInv(t)'
  <1>1. /\ UNCHANGED sub
        /\ Task(h)' = m.task /\ msg'[h] = m /\ pc'[h] = "load" /\ Held(h)'
        /\ m.task \in Tasks /\ m.retry \in 0..MaxRetries
    BY DEF OnMessage, Goto, Task, Held, Message, apiVars, TypeInv, TypeOK
  <1>2. \A k \in Handlers \ {h} :
          /\ msg'[k] = msg[k] /\ pc'[k] = pc[k]
          /\ Task(k)' = Task(k)
          /\ Held(k) => Held(k)'
    BY DEF OnMessage, Goto, Task, Held, TypeInv, TypeOK
  <1>3. /\ queue[m] > 0
        /\ queue'[m] = queue[m] - 1
        /\ \A n \in Message \ {m} : queue'[n] = queue[n]
    BY DEF OnMessage, TypeInv, TypeOK
  <1>4. CASE m.task # t
    <2>1. \A k \in Handlers : /\ Busy(k, t)' => k # h /\ Busy(k, t)
                              /\ Working(k, t)' => Working(k, t)
      BY <1>1, <1>2, <1>4 DEF Busy, Working
    <2>2. runs'[t] = runs[t]
      BY <1>4 DEF OnMessage, TypeInv, TypeOK
    <2> QED BY <1>1, <1>2, <1>3, <1>4, <2>1, <2>2, TokenFrame DEF TokenInv
  <1>5. CASE m.task = t
    <2>1. InQueue(t) /\ queue[m] = 1 /\ runs[t] = m.retry
      BY <1>3, <1>5 DEF InQueue, TokenInv
    <2>2. runs'[t] = m.retry + 1
      BY <1>5, <2>1 DEF OnMessage, TypeInv, TypeOK
    <2>3. \A n \in Message : n.task = t => queue'[n] = 0
      <3> SUFFICES ASSUME NEW n \in Message, n.task = t, n # m PROVE queue'[n] = 0
        BY <1>3, <2>1
      <3>1. n.retry # m.retry
        BY <1>5 DEF Message
      <3> QED BY <1>3, <2>1, <3>1 DEF TokenInv, TypeInv, TypeOK
    <2>4. \A k \in Handlers : ~Working(k, t)
      BY <2>1 DEF TokenInv
    <2>5. \A k \in Handlers : Working(k, t)' => k = h
      BY <1>2, <2>4 DEF Working, Busy
    <2>6. \A k \in Handlers : Busy(k, t)' => Held(k)'
      BY <1>1, <1>2 DEF TokenInv, Busy
    <2>7. sub'[t] \notin DOMAIN SubmitNext
      BY <1>1, <2>1 DEF TokenInv, Present
    <2>8. ~InQueue(t)'
      BY <2>3 DEF InQueue
    <2> QED BY <1>1, <2>2, <2>3, <2>5, <2>6, <2>7, <2>8 DEF TokenInv
  <1> QED BY <1>4, <1>5

\* Settling a delivery ends the token of its task or leaves it.
LEMMA SettleToken ==
    ASSUME TypeInv, NEW h \in Handlers, NEW from \in WorkerPoints,
           NEW onraise \in {"idle", "except", "outer_nack"}, NEW deadletter \in BOOLEAN,
           Settle(h, from, onraise, deadletter), NEW t \in Tasks, TokenInv(t)
    PROVE  TokenInv(t)'
  <1>1. UNCHANGED <<sub, queue, runs>> /\ pc[h] # "idle"
    BY PointsType DEF Settle, apiVars, history
  <1>2. \A k \in Handlers \ {h} : pc'[k] = pc[k] /\ msg'[k] = msg[k] /\ Task(k)' = Task(k)
    BY DEF Settle, Leave, Goto, Task, TypeInv, TypeOK
  <1>3. \A k \in Handlers \ {h} : Held(k) => Held(k)'
    <2> SUFFICES ASSUME NEW k \in Handlers \ {h}, Held(k) PROVE Held(k)'
      OBVIOUS
    <2>1. unacked[WorkerOf[k]] = k /\ WorkerOf[k] \in Workers
      BY DEF Held
    <2>2. \/ unacked' = unacked
          \/ Held(h) /\ unacked' = [unacked EXCEPT ![WorkerOf[h]] = None]
      BY DEF Settle
    <2> QED BY <2>1, <2>2 DEF Held, TypeInv, TypeOK
  <1>4. \/ pc'[h] = "idle"
        \/ Task(h) # t /\ Task(h)' # t
    <2>1. CASE Held(h)
      BY <2>1 DEF Settle, Leave, Goto, TypeInv, TypeOK
    <2>2. CASE ~Held(h) /\ Leave(h)
      BY <2>2 DEF Leave, Goto, TypeInv, TypeOK
    <2>3. CASE ~Held(h) /\ UNCHANGED msg
      BY <1>1, <2>3 DEF TokenInv, Busy, Task
    <2> QED BY <2>1, <2>2, <2>3 DEF Settle
  <1>5. \A k \in Handlers : /\ Busy(k, t)' => k # h /\ Busy(k, t)
                            /\ Working(k, t)' => Working(k, t)
    BY <1>2, <1>4 DEF Busy, Working
  <1> QED BY <1>1, <1>2, <1>3, <1>5, TokenFrame DEF TokenInv

\* The republication moves the token into the queue, counted once more.
LEMMA RepublishToken ==
    ASSUME TypeInv, NEW h \in Handlers, Republish(h), NEW t \in Tasks, TokenInv(t)
    PROVE  TokenInv(t)'
  <1>1. /\ pc[h] = "except" /\ msg[h] \in Message /\ msg[h].retry < MaxRetries
        /\ UNCHANGED <<sub, runs, msg, unacked>>
    BY RunningHasMessage DEF Republish, apiVars, history
  <1>2. PICK q \in {"ack_retry", "outer_nack"} : Goto(h, q)
    BY DEF Republish
  <1>3. /\ \A k \in Handlers : /\ Task(k)' = Task(k)
                               /\ Held(k)' <=> Held(k)
                               /\ Busy(k, t)' => Busy(k, t)
                               /\ Working(k, t)' => k # h /\ Working(k, t)
    BY <1>1, <1>2 DEF Goto, Task, Held, Busy, Working, TypeInv, TypeOK
  <1>4. CASE queue' = queue
    BY <1>1, <1>3, <1>4, TokenFrame DEF TokenInv
  <1>5. CASE queue' # queue
    <2>1. PICK k \in Tasks, n \in 0..MaxRetries : msg[h] = [task |-> k, retry |-> n]
      BY <1>1 DEF Message
    <2> DEFINE copy == [task |-> k, retry |-> n + 1]
    <2>2. /\ copy \in Message /\ copy.task = Task(h) /\ copy.retry = msg[h].retry + 1
          /\ [msg[h] EXCEPT !.retry = @ + 1] = copy
      BY <1>1, <2>1 DEF Message, Task
    <2>3. queue' = [queue EXCEPT ![copy] = @ + 1]
      BY <1>5, <2>2 DEF Republish
    <2> HIDE DEF copy
    <2>4. queue'[copy] = queue[copy] + 1 /\ \A o \in Message \ {copy} : queue'[o] = queue[o]
      BY <2>2, <2>3 DEF TypeInv, TypeOK
    <2>5. CASE Task(h) # t
      BY <1>1, <1>3, <2>2, <2>4, <2>5, TokenFrame DEF TokenInv
    <2>6. CASE Task(h) = t
      <3>1. Working(h, t)
        BY <1>1, <2>6 DEF Working, Busy
      <3>2. \A o \in Message : o.task = t => queue[o] = 0
        BY <3>1 DEF TokenInv, InQueue, TypeInv, TypeOK
      <3>3. runs[t] = copy.retry
        BY <2>2, <3>1 DEF TokenInv
      <3>4. \A k2 \in Handlers : ~Working(k2, t)'
        BY <1>3, <3>1 DEF TokenInv
      <3>5. \A m \in Message : m.task = t /\ queue'[m] > 0 => queue'[m] = 1 /\ runs'[t] = m.retry
        BY <1>1, <2>2, <2>4, <2>6, <3>2, <3>3
      <3>6. sub'[t] \notin DOMAIN SubmitNext
        BY <1>1, <3>1 DEF TokenInv, Present, Working
      <3> QED BY <1>1, <1>3, <3>4, <3>5, <3>6 DEF TokenInv
    <2> QED BY <2>5, <2>6
  <1> QED BY <1>4, <1>5

(* What is lost of a task that is not marked as redelivered is nothing.     *)
LEMMA LossToken ==
    ASSUME TypeInv, NEW w \in Workers, ConnectionLost(w) \/ WorkerCrash(w),
           NEW t \in Tasks \ redelivered', TokenInv(t)
    PROVE  TokenInv(t)'
  <1>1. UNCHANGED <<sub, runs>>
    BY DEF ConnectionLost, WorkerCrash, apiVars
  <1>2. \A k \in Handlers : pc'[k] = "idle" \/ (pc'[k] = pc[k] /\ msg'[k] = msg[k])
    BY DEF ConnectionLost, WorkerCrash
  <1>3. unacked[w] # None => Task(unacked[w]) # t /\ msg[unacked[w]] \in Message
    BY RunningHasMessage DEF ConnectionLost, WorkerCrash, Requeue, TypeInv, TypeOK, HandlersOK
  <1>4. \A m \in Message : m.task = t => queue'[m] = queue[m]
    <2>1. CASE unacked[w] = None
      BY <2>1 DEF ConnectionLost, WorkerCrash, Requeue
    <2>2. CASE unacked[w] # None
      <3>1. queue' = [queue EXCEPT ![msg[unacked[w]]] = @ + 1]
        BY <2>2 DEF ConnectionLost, WorkerCrash, Requeue
      <3> QED BY <1>3, <2>2, <3>1 DEF Task, TypeInv, TypeOK
    <2> QED BY <2>1, <2>2
  <1>5. \A k \in Handlers : Busy(k, t)' => Busy(k, t) /\ msg'[k] = msg[k] /\ Held(k)'
    <2> SUFFICES ASSUME NEW k \in Handlers, Busy(k, t)'
                 PROVE  Busy(k, t) /\ msg'[k] = msg[k] /\ Held(k)'
      OBVIOUS
    <2>1. Busy(k, t) /\ msg'[k] = msg[k]
      BY <1>2 DEF Busy, Task
    <2>2. unacked[WorkerOf[k]] = k /\ Task(k) = t /\ k # None
      BY <2>1 DEF TokenInv, Held, Busy
    <2>3. WorkerOf[k] # w
      BY <1>3, <2>2
    <2>4. unacked'[WorkerOf[k]] = unacked[WorkerOf[k]]
      BY <2>3 DEF ConnectionLost, WorkerCrash, Requeue, TypeInv, TypeOK
    <2> QED BY <2>1, <2>2, <2>4 DEF Held
  <1>6. \A k \in Handlers : Working(k, t)' => Working(k, t)
    BY <1>2, <1>5 DEF Working, Busy
  <1> QED BY <1>1, <1>4, <1>5, <1>6, TokenFrame

\* A lost delivery is never forgotten.
LEMMA RedeliveredGrows ==
    ASSUME [Next]_vars
    PROVE  redelivered \subseteq redelivered'
  BY DEF Next, vars, history, Submit, CacheExpire, Age, HandlerStep, ExecuteStep, RepoGet,
         RepoUpdate, CacheSet, Compute, PublishEvent, SendWebhook, SettleStep, AckDone,
         Republish, AckRetry, DeadLetter, OuterNack, Settle, OnMessage, ConnectionLost,
         WorkerCrash, Requeue, PollerStep, PollMiss, PollRead, PollFill, PollAbort,
         PollStep, CleanupLoop

\* Every step keeps the tokens of the tasks without a lost delivery.
LEMMA AttemptStep ==
    ASSUME TypeInv, AttemptInv, [Next]_vars
    PROVE  AttemptInv'
  <1> USE DEF apiVars, redisVars, brokerVars, history
  <1> SUFFICES ASSUME NEW t \in Tasks \ redelivered' PROVE TokenInv(t)'
    BY DEF AttemptInv
  <1>1. TokenInv(t)
    BY RedeliveredGrows DEF AttemptInv
  <1>2. CASE UNCHANGED <<sub, queue, unacked, pc, msg, runs>>
    <2>1. \A k \in Handlers : /\ Busy(k, t)' <=> Busy(k, t)
                              /\ Working(k, t)' <=> Working(k, t)
                              /\ Held(k)' <=> Held(k)
      BY <1>2 DEF Busy, Working, Held, Task
    <2> QED BY <1>1, <1>2, <2>1, TokenFrame DEF TokenInv
  <1>3. ASSUME NEW h \in Handlers, SettleStep(h) PROVE TokenInv(t)'
    BY <1>1, <1>3, SettleToken, RepublishToken, PointsType
    DEF SettleStep, AckDone, AckRetry, DeadLetter, OuterNack
  <1>4. ASSUME NEW p \in Pollers, PollerStep(p) PROVE TokenInv(t)'
    <2>1. UNCHANGED <<sub, queue, unacked, pc, msg, runs>>
      BY <1>4 DEF PollerStep, PollMiss, PollRead, PollFill, PollAbort, PollStep
    <2> QED BY <1>2, <2>1
  <1>5. CASE (\E k \in Tasks : CacheExpire(k) \/ Age(k)) \/ CleanupLoop \/ UNCHANGED vars
    BY <1>2, <1>5 DEF CacheExpire, Age, CleanupLoop, vars
  <1> QED BY <1>1, <1>3, <1>4, <1>5, SubmitToken, ExecuteToken, DeliveryToken, LossToken
          DEF Next, HandlerStep

\* A task without a lost delivery has at most one token.
THEOREM AttemptCorrect == Spec => []AttemptInv
  BY TypeCorrect, AttemptInit, AttemptStep, PTL DEF Spec

(* Retries of a task never overlap, although each is published before the   *)
(* delivery that failed is acknowledged.                                    *)
THEOREM ExclusiveExecutionHolds == Spec => []ExclusiveExecution
  <1>1. AttemptInv => ExclusiveExecution
    BY PointsType DEF AttemptInv, TokenInv, ExclusiveExecution, Executing, Working
  <1> QED BY <1>1, AttemptCorrect, PTL

(* A task whose deliveries are not lost has at most MAX_RETRIES + 1 attempts. *)
THEOREM AttemptsBoundedHolds == Spec => []AttemptsBounded
  <1>1. AttemptInv => AttemptsBounded
    BY DEF AttemptInv, TokenInv, AttemptsBounded
  <1> QED BY <1>1, AttemptCorrect, PTL

-----------------------------------------------------------------------------
(***************************************************************************)
(* Attempts and losses: the attempts of a task that have begun and those   *)
(* that may still begin are counted together.                              *)
(***************************************************************************)

(* The attempts a holder may still come to, a handler (c = 0) or the c-th   *)
(* copy of a message: one per value of x-retry-count from a on.             *)
Column(x, c, a) == {<<x, c, j>> : j \in a..MaxRetries}

(* The attempts of t that may still begin: of a handler working on it, its  *)
(* retries; of a copy in the queue, its delivery and the retries of that.   *)
OfHandlers(t) ==
    {e \in Handlers \X {0} \X (0..MaxRetries) :
       Working(e[1], t) /\ msg[e[1]].retry < e[3]}

OfQueue(t) ==
    {e \in Message \X (Nat \ {0}) \X (0..MaxRetries) :
       e[1].task = t /\ e[2] <= queue[e[1]] /\ e[1].retry <= e[3]}

AttemptsLeft(t) == OfHandlers(t) \cup OfQueue(t)

(* A holder that has a attempts behind it has MAX_RETRIES + 1 - a left.     *)
LEMMA ColumnCount ==
    ASSUME NEW x, NEW c, NEW a \in Nat, a <= MaxRetries + 1
    PROVE  /\ IsFiniteSet(Column(x, c, a))
           /\ Cardinality(Column(x, c, a)) = MaxRetries + 1 - a
  <1> DEFINE f == [j \in a..MaxRetries |-> <<x, c, j>>]
  <1>1. f \in Bijection(a..MaxRetries, Column(x, c, a))
    <2>1. f \in [a..MaxRetries -> Column(x, c, a)]
      BY DEF Column
    <2>2. \A i, j \in a..MaxRetries : f[i] = f[j] => i = j
      OBVIOUS
    <2>3. \A e \in Column(x, c, a) : \E j \in a..MaxRetries : f[j] = e
      BY DEF Column
    <2> QED BY <2>1, <2>2, <2>3 DEF Bijection, Injection, Surjection, IsInjective
  <1>2. ExistsBijection(a..MaxRetries, Column(x, c, a))
    BY <1>1 DEF ExistsBijection
  <1>3. /\ IsFiniteSet(a..MaxRetries)
        /\ Cardinality(a..MaxRetries) = MaxRetries + 1 - a
    BY FS_Interval
  <1> QED BY <1>2, <1>3, FS_Bijection

(* Elements of a finite set are replaced by others.                         *)
LEMMA Replacing ==
    ASSUME NEW S, NEW T, NEW A, NEW R, IsFiniteSet(S), IsFiniteSet(R),
           A \subseteq S, T \subseteq (S \ A) \cup R
    PROVE  /\ IsFiniteSet(T)
           /\ Cardinality(S) \in Nat /\ Cardinality(T) \in Nat
           /\ Cardinality(T) <= Cardinality(S) - Cardinality(A) + Cardinality(R)
  <1>1. /\ IsFiniteSet(S \ A) /\ IsFiniteSet(A)
        /\ Cardinality(S \ A) = Cardinality(S) - Cardinality(A)
    <2>1. S \cap A = A
      OBVIOUS
    <2> QED BY <2>1, FS_Difference, FS_Subset
  <1>2. /\ IsFiniteSet((S \ A) \cup R)
        /\ Cardinality((S \ A) \cup R)
             = Cardinality(S \ A) + Cardinality(R) - Cardinality((S \ A) \cap R)
        /\ IsFiniteSet((S \ A) \cap R)
    BY <1>1, FS_Union, FS_Intersection
  <1>3. IsFiniteSet(T) /\ Cardinality(T) <= Cardinality((S \ A) \cup R)
    BY <1>2, FS_Subset
  <1>4. /\ Cardinality(S) \in Nat /\ Cardinality(A) \in Nat /\ Cardinality(R) \in Nat
        /\ Cardinality(T) \in Nat /\ Cardinality((S \ A) \cap R) \in Nat
        /\ Cardinality((S \ A) \cup R) \in Nat
    BY <1>1, <1>2, <1>3, FS_CardinalityType
  <1> QED BY <1>1, <1>2, <1>3, <1>4

(* The attempts so far and those that may still begin are MAX_RETRIES + 1   *)
(* for the submission and as many for each loss.                            *)
BudgetOf(t) ==
    /\ sub[t] \in DOMAIN SubmitNext => ~Present(t) /\ runs[t] = 0
    /\ IsFiniteSet(AttemptsLeft(t))
    /\ runs[t] + Cardinality(AttemptsLeft(t)) <= (MaxRetries + 1) * (losses + 1)

BudgetInv == \A t \in Tasks : BudgetOf(t)

\* Before any submit there is no attempt, and none to come.
LEMMA BudgetInit == Init => BudgetInv
  <1> SUFFICES ASSUME Init, NEW t \in Tasks PROVE BudgetOf(t)
    BY DEF BudgetInv
  <1>1. ~Present(t) /\ runs[t] = 0
    BY DEF Init, Present, InQueue, Busy
  <1>2. AttemptsLeft(t) = {}
    <2>1. \A h \in Handlers : ~Working(h, t)
      BY DEF Init, Working, Busy
    <2>2. \A m \in Message : queue[m] = 0
      BY DEF Init
    <2> QED BY <2>1, <2>2 DEF AttemptsLeft, OfHandlers, OfQueue
  <1>3. (MaxRetries + 1) * (losses + 1) \in Nat
    BY DEF Init
  <1>4. IsFiniteSet(AttemptsLeft(t)) /\ Cardinality(AttemptsLeft(t)) = 0
    BY <1>2, FS_EmptySet
  <1> QED BY <1>1, <1>3, <1>4 DEF BudgetOf

(* A step that replaces attempts to come by as many, counting the one that  *)
(* begins, or a loss that adds at most MAX_RETRIES + 1.                     *)
LEMMA BudgetFrame ==
    ASSUME TypeInv, TypeInv', NEW t \in Tasks, BudgetOf(t),
           sub'[t] \in DOMAIN SubmitNext => ~Present(t)' /\ runs'[t] = 0,
           NEW A \in SUBSET AttemptsLeft(t), NEW R, IsFiniteSet(R),
           AttemptsLeft(t)' \subseteq (AttemptsLeft(t) \ A) \cup R,
           \/ /\ losses' = losses
              /\ runs'[t] + Cardinality(R) = runs[t] + Cardinality(A)
           \/ /\ losses' = losses + 1 /\ runs'[t] = runs[t]
              /\ Cardinality(R) <= Cardinality(A) + MaxRetries + 1
    PROVE  BudgetOf(t)'
  <1>1. /\ IsFiniteSet(AttemptsLeft(t)') /\ IsFiniteSet(A)
        /\ Cardinality(AttemptsLeft(t)) \in Nat /\ Cardinality(AttemptsLeft(t)') \in Nat
        /\ Cardinality(AttemptsLeft(t)')
             <= Cardinality(AttemptsLeft(t)) - Cardinality(A) + Cardinality(R)
    BY Replacing, FS_Subset DEF BudgetOf
  <1>2. Cardinality(A) \in Nat /\ Cardinality(R) \in Nat
    BY <1>1, FS_CardinalityType
  <1>3. runs[t] \in Nat /\ runs'[t] \in Nat /\ losses \in Nat
    BY DEF TypeInv, TypeOK
  <1>4. runs[t] + Cardinality(AttemptsLeft(t)) <= (MaxRetries + 1) * (losses + 1)
    BY DEF BudgetOf
  <1>5. (MaxRetries + 1) * (losses + 1 + 1) = (MaxRetries + 1) * (losses + 1) + (MaxRetries + 1)
    BY <1>3
  <1>6. (MaxRetries + 1) * (losses + 1) \in Nat
    BY <1>3
  <1>7. runs'[t] + Cardinality(AttemptsLeft(t)') <= (MaxRetries + 1) * (losses' + 1)
    <2>1. CASE losses' = losses /\ runs'[t] + Cardinality(R) = runs[t] + Cardinality(A)
      BY <1>1, <1>2, <1>3, <1>4, <1>6, <2>1
    <2>2. CASE /\ losses' = losses + 1 /\ runs'[t] = runs[t]
               /\ Cardinality(R) <= Cardinality(A) + MaxRetries + 1
      BY <1>1, <1>2, <1>3, <1>4, <1>5, <1>6, <2>2
    <2> QED BY <2>1, <2>2
  <1> QED BY <1>1, <1>7 DEF BudgetOf

\* A step that adds no copy and no working handler leaves no attempt more.
LEMMA NoMoreLeft ==
    ASSUME TypeInv, TypeInv', NEW t \in Tasks, BudgetOf(t),
           sub'[t] \in DOMAIN SubmitNext => sub[t] \in DOMAIN SubmitNext,
           \A k \in Handlers : Busy(k, t)' => Busy(k, t),
           losses' \in {losses, losses + 1}, runs'[t] = runs[t],
           \A m \in Message : m.task = t => queue'[m] <= queue[m],
           \A k \in Handlers : Working(k, t)' => Working(k, t) /\ msg'[k] = msg[k]
    PROVE  BudgetOf(t)'
  <1>1. AttemptsLeft(t)' \subseteq AttemptsLeft(t)
    <2>1. OfHandlers(t)' \subseteq OfHandlers(t)
      BY DEF OfHandlers
    <2>2. OfQueue(t)' \subseteq OfQueue(t)
      <3> SUFFICES ASSUME NEW m \in Message, NEW c \in Nat \ {0}, NEW j \in 0..MaxRetries,
                          m.task = t, c <= queue'[m], m.retry <= j
                   PROVE  <<m, c, j>> \in OfQueue(t)
        BY DEF OfQueue
      <3>1. c <= queue[m]
        BY DEF TypeInv, TypeOK
      <3> QED BY <3>1 DEF OfQueue
    <2> QED BY <2>1, <2>2 DEF AttemptsLeft
  <1>2. sub'[t] \in DOMAIN SubmitNext => ~Present(t)' /\ runs'[t] = 0
    <2>1. InQueue(t)' => InQueue(t)
      BY DEF InQueue, TypeInv, TypeOK
    <2> QED BY <2>1 DEF BudgetOf, Present
  <1>3. IsFiniteSet({}) /\ Cardinality({}) = 0
    BY FS_EmptySet
  <1>4. 0 <= 0 + MaxRetries + 1
    OBVIOUS
  <1> QED BY <1>1, <1>2, <1>3, <1>4, BudgetFrame DEF TypeInv, TypeOK

\* The copy submit publishes brings MAX_RETRIES + 1 attempts, the first ones.
LEMMA SubmitBudget ==
    ASSUME TypeInv, TypeInv', NEW k \in Tasks, Submit(k), NEW t \in Tasks, BudgetOf(t)
    PROVE  BudgetOf(t)'
  <1> DEFINE m == [task |-> k, retry |-> 0]
  <1>1. m \in Message /\ m.task = k /\ m.retry = 0
    BY DEF Message
  <1>2. /\ UNCHANGED <<pc, msg, runs, losses>>
        /\ sub[k] \in DOMAIN SubmitNext
        /\ sub'[k] \in DOMAIN SubmitNext => sub[k] # "s_publish"
        /\ t # k => sub'[t] = sub[t]
        /\ queue' # queue => sub[k] = "s_publish" /\ queue' = [queue EXCEPT ![m] = @ + 1]
    BY DEF Submit, history, SubmitNext, TypeInv, TypeOK
  <1> HIDE DEF m
  <1>3. \A h \in Handlers : (Busy(h, t)' <=> Busy(h, t)) /\ (Working(h, t)' <=> Working(h, t))
    BY <1>2 DEF Busy, Task, Working
  <1>4. CASE queue' = queue \/ k # t
    <2>1. ASSUME NEW o \in Message, o.task = t PROVE queue'[o] <= queue[o]
      <3>1. queue'[o] = queue[o]
        BY <1>1, <1>2, <1>4, <2>1 DEF TypeInv, TypeOK
      <3> QED BY <3>1 DEF TypeInv, TypeOK
    <2>2. sub'[t] \in DOMAIN SubmitNext => sub[t] \in DOMAIN SubmitNext
      BY <1>2
    <2> QED BY <1>2, <1>3, <2>1, <2>2, NoMoreLeft
  <1>5. CASE queue' # queue /\ k = t
    <2>1. ~Present(t) /\ runs[t] = 0 /\ sub'[t] \notin DOMAIN SubmitNext
      BY <1>2, <1>5 DEF BudgetOf
    <2>2. \A o \in Message : o.task = t => queue[o] = 0
      BY <2>1 DEF Present, InQueue, TypeInv, TypeOK
    <2>3. queue'[m] = 1 /\ \A o \in Message : o.task = t /\ o # m => queue'[o] = 0
      BY <1>1, <1>2, <1>5, <2>2 DEF TypeInv, TypeOK
    <2>4. AttemptsLeft(t)' \subseteq Column(m, 1, 0)
      <3>1. OfHandlers(t)' = {}
        BY <1>3, <2>1 DEF OfHandlers, Working, Present
      <3>2. OfQueue(t)' \subseteq Column(m, 1, 0)
        <4> SUFFICES ASSUME NEW o \in Message, NEW c \in Nat \ {0}, NEW j \in 0..MaxRetries,
                            o.task = t, c <= queue'[o]
                     PROVE  <<o, c, j>> \in Column(m, 1, 0)
          BY DEF OfQueue
        <4>1. o = m /\ c = 1
          BY <2>3
        <4> QED BY <4>1 DEF Column
      <3> QED BY <3>1, <3>2 DEF AttemptsLeft
    <2>5. IsFiniteSet(Column(m, 1, 0)) /\ Cardinality(Column(m, 1, 0)) = MaxRetries + 1
      BY ColumnCount
    <2>6. /\ IsFiniteSet(AttemptsLeft(t)') /\ Cardinality(AttemptsLeft(t)') \in Nat
          /\ Cardinality(AttemptsLeft(t)') <= MaxRetries + 1
      BY <2>4, <2>5, FS_Subset, FS_CardinalityType
    <2>7. MaxRetries + 1 <= (MaxRetries + 1) * (losses + 1)
      <3>1. losses \in Nat
        BY DEF TypeInv, TypeOK
      <3>2. (MaxRetries + 1) * (losses + 1) = (MaxRetries + 1) * losses + (MaxRetries + 1)
        BY <3>1
      <3>3. (MaxRetries + 1) * losses \in Nat
        BY <3>1
      <3> QED BY <3>1, <3>2, <3>3
    <2>8. (MaxRetries + 1) * (losses + 1) \in Nat
      <3>1. losses \in Nat
        BY DEF TypeInv, TypeOK
      <3> QED BY <3>1
    <2> QED BY <1>2, <2>1, <2>6, <2>7, <2>8 DEF BudgetOf
  <1> QED BY <1>4, <1>5

\* A delivery turns the first attempt of its copy into one that has begun.
LEMMA DeliveryBudget ==
    ASSUME TypeInv, TypeInv', NEW h \in Handlers, NEW m \in Message, OnMessage(h, m),
           NEW t \in Tasks, BudgetOf(t)
    PROVE  BudgetOf(t)'
  <1>1. /\ UNCHANGED <<sub, losses>>
        /\ pc[h] = "idle" /\ pc'[h] = "load" /\ msg'[h] = m
        /\ \A k \in Handlers \ {h} : pc'[k] = pc[k] /\ msg'[k] = msg[k]
        /\ queue[m] \in Nat \ {0} /\ queue'[m] = queue[m] - 1
        /\ \A n \in Message \ {m} : queue'[n] = queue[n]
        /\ runs'[m.task] = runs[m.task] + 1 /\ (m.task # t => runs'[t] = runs[t])
    <2>1. UNCHANGED <<sub, losses>> /\ pc[h] = "idle"
      BY DEF OnMessage, apiVars
    <2>2. /\ pc'[h] = "load" /\ msg'[h] = m
          /\ \A k \in Handlers \ {h} : pc'[k] = pc[k] /\ msg'[k] = msg[k]
      BY DEF OnMessage, Goto, TypeInv, TypeOK
    <2>3. queue[m] \in Nat \ {0}
      BY DEF OnMessage, TypeInv, TypeOK
    <2>4. queue'[m] = queue[m] - 1 /\ \A n \in Message \ {m} : queue'[n] = queue[n]
      BY DEF OnMessage, TypeInv, TypeOK
    <2>5. m.task \in Tasks
      BY DEF Message
    <2>6. runs'[m.task] = runs[m.task] + 1 /\ (m.task # t => runs'[t] = runs[t])
      BY <2>5 DEF OnMessage, TypeInv, TypeOK
    <2> QED BY <2>1, <2>2, <2>3, <2>4, <2>6
  <1>2. \A k \in Handlers \ {h} : (Busy(k, t)' <=> Busy(k, t)) /\ (Working(k, t)' <=> Working(k, t))
    BY <1>1 DEF Busy, Task, Working
  <1>3. CASE m.task # t
    <2>1. ~Busy(h, t)' /\ ~Working(h, t)'
      BY <1>1, <1>3 DEF Busy, Task, Working
    <2>2. ASSUME NEW o \in Message, o.task = t PROVE queue'[o] <= queue[o]
      <3>1. queue'[o] = queue[o]
        BY <1>1, <1>3, <2>2
      <3> QED BY <3>1 DEF TypeInv, TypeOK
    <2> QED BY <1>1, <1>2, <1>3, <2>1, <2>2, NoMoreLeft
  <1>4. CASE m.task = t
    <2> DEFINE A == Column(m, queue[m], m.retry)
               R == Column(h, 0, m.retry + 1)
    <2>1. m.retry \in 0..MaxRetries
      BY DEF Message
    <2>2. A \subseteq AttemptsLeft(t)
      BY <1>1, <1>4, <2>1 DEF Column, AttemptsLeft, OfQueue
    <2>3. AttemptsLeft(t)' \subseteq (AttemptsLeft(t) \ A) \cup R
      <3>1. ASSUME NEW k \in Handlers, NEW j \in 0..MaxRetries, Working(k, t)', msg'[k].retry < j
            PROVE  <<k, 0, j>> \in (AttemptsLeft(t) \ A) \cup R
        <4>1. CASE k = h
          BY <1>1, <2>1, <3>1, <4>1 DEF Column
        <4>2. CASE k # h
          <5>1. Working(k, t) /\ msg[k].retry < j
            BY <1>1, <1>2, <3>1, <4>2
          <5>2. <<k, 0, j>> \in AttemptsLeft(t)
            BY <5>1 DEF AttemptsLeft, OfHandlers
          <5>3. <<k, 0, j>> \notin A
            BY <1>1 DEF Column
          <5> QED BY <5>2, <5>3
        <4> QED BY <4>1, <4>2
      <3>2. ASSUME NEW o \in Message, NEW c \in Nat \ {0}, NEW j \in 0..MaxRetries,
                   o.task = t, c <= queue'[o], o.retry <= j
            PROVE  <<o, c, j>> \in (AttemptsLeft(t) \ A) \cup R
        <4>1. c <= queue[o] /\ (o = m => c # queue[m])
          BY <1>1, <3>2 DEF TypeInv, TypeOK
        <4>2. <<o, c, j>> \in AttemptsLeft(t)
          BY <3>2, <4>1 DEF AttemptsLeft, OfQueue
        <4>3. <<o, c, j>> \notin A
          BY <4>1 DEF Column
        <4> QED BY <4>2, <4>3
      <3> QED BY <3>1, <3>2 DEF AttemptsLeft, OfHandlers, OfQueue
    <2>4. /\ IsFiniteSet(R) /\ Cardinality(A) = MaxRetries + 1 - m.retry
          /\ Cardinality(R) = MaxRetries - m.retry
      BY <2>1, ColumnCount
    <2>5. runs'[t] + Cardinality(R) = runs[t] + Cardinality(A)
      <3>1. runs[t] \in Nat /\ runs'[t] = runs[t] + 1 /\ m.retry \in Nat
        BY <1>1, <1>4, <2>1 DEF TypeInv, TypeOK
      <3> HIDE DEF A, R
      <3> QED BY <2>4, <3>1
    <2>6. sub'[t] \notin DOMAIN SubmitNext
      BY <1>1, <1>4 DEF BudgetOf, Present, InQueue
    <2> HIDE DEF A, R
    <2> QED BY <1>1, <2>2, <2>3, <2>4, <2>5, <2>6, BudgetFrame
  <1> QED BY <1>3, <1>4

\* The copy a handler publishes brings the attempts the handler leaves.
LEMMA RepublishBudget ==
    ASSUME TypeInv, TypeInv', NEW h \in Handlers, Republish(h), NEW t \in Tasks, BudgetOf(t)
    PROVE  BudgetOf(t)'
  <1>1. /\ pc[h] = "except" /\ msg[h] \in Message /\ msg[h].retry < MaxRetries
        /\ UNCHANGED <<sub, runs, msg, losses>>
    BY RunningHasMessage DEF Republish, apiVars, history
  <1>2. PICK q \in {"ack_retry", "outer_nack"} : Goto(h, q)
    BY DEF Republish
  <1>3. \A k \in Handlers : /\ Busy(k, t)' => Busy(k, t)
                            /\ Working(k, t)' => k # h /\ Working(k, t)
    BY <1>1, <1>2 DEF Goto, Task, Busy, Working, TypeInv, TypeOK
  <1>4. PICK k \in Tasks, n \in 0..MaxRetries : msg[h] = [task |-> k, retry |-> n]
    BY <1>1 DEF Message
  <1> DEFINE copy == [task |-> k, retry |-> n + 1]
  <1>5. /\ n < MaxRetries /\ msg[h].retry = n
        /\ copy \in Message /\ copy.task = Task(h) /\ copy.retry = n + 1
        /\ [msg[h] EXCEPT !.retry = @ + 1] = copy
    BY <1>1, <1>4 DEF Message, Task
  <1>6. queue' = queue \/ queue' = [queue EXCEPT ![copy] = @ + 1]
    BY <1>5 DEF Republish
  <1> HIDE DEF copy
  <1>7. CASE queue' = queue \/ Task(h) # t
    <2>1. ASSUME NEW o \in Message, o.task = t PROVE queue'[o] <= queue[o]
      <3>1. queue'[o] = queue[o]
        BY <1>5, <1>6, <1>7, <2>1 DEF TypeInv, TypeOK
      <3> QED BY <3>1 DEF TypeInv, TypeOK
    <2> QED BY <1>1, <1>3, <2>1, NoMoreLeft
  <1>8. CASE queue' # queue /\ Task(h) = t
    <2> DEFINE A == Column(h, 0, n + 1)
               R == Column(copy, queue[copy] + 1, n + 1)
    <2>1. Working(h, t)
      BY <1>1, <1>8 DEF Working, Busy
    <2>2. A \subseteq AttemptsLeft(t)
      BY <1>5, <2>1 DEF Column, AttemptsLeft, OfHandlers
    <2>3. /\ queue[copy] \in Nat /\ queue'[copy] = queue[copy] + 1
          /\ \A o \in Message \ {copy} : queue'[o] = queue[o]
      BY <1>5, <1>6, <1>8 DEF TypeInv, TypeOK
    <2>4. AttemptsLeft(t)' \subseteq (AttemptsLeft(t) \ A) \cup R
      <3>1. ASSUME NEW g \in Handlers, NEW j \in 0..MaxRetries, Working(g, t)', msg'[g].retry < j
            PROVE  <<g, 0, j>> \in (AttemptsLeft(t) \ A) \cup R
        <4>1. <<g, 0, j>> \in AttemptsLeft(t)
          BY <1>1, <1>3, <3>1 DEF AttemptsLeft, OfHandlers
        <4>2. <<g, 0, j>> \notin A
          BY <1>3, <3>1 DEF Column
        <4> QED BY <4>1, <4>2
      <3>2. ASSUME NEW o \in Message, NEW c \in Nat \ {0}, NEW j \in 0..MaxRetries,
                   o.task = t, c <= queue'[o], o.retry <= j
            PROVE  <<o, c, j>> \in (AttemptsLeft(t) \ A) \cup R
        <4>1. CASE c <= queue[o]
          <5>1. <<o, c, j>> \in AttemptsLeft(t)
            BY <3>2, <4>1 DEF AttemptsLeft, OfQueue
          <5>2. <<o, c, j>> \notin A
            BY DEF Column
          <5> QED BY <5>1, <5>2
        <4>2. CASE ~(c <= queue[o])
          <5>1. o = copy
            BY <2>3, <3>2, <4>2
          <5>2. c = queue[copy] + 1 /\ j \in n + 1..MaxRetries
            BY <1>5, <2>3, <3>2, <4>2, <5>1
          <5> QED BY <5>1, <5>2 DEF Column
        <4> QED BY <4>1, <4>2
      <3> HIDE DEF A, R
      <3> QED BY <3>1, <3>2 DEF AttemptsLeft, OfHandlers, OfQueue
    <2>5. /\ IsFiniteSet(R) /\ Cardinality(A) = Cardinality(R)
      BY <1>5, ColumnCount
    <2>6. sub'[t] \notin DOMAIN SubmitNext
      BY <1>1, <2>1 DEF BudgetOf, Present, Working
    <2> HIDE DEF A, R
    <2> QED BY <1>1, <2>2, <2>4, <2>5, <2>6, BudgetFrame
  <1> QED BY <1>7, <1>8

\* A delivery that is lost comes again: its copy brings at most MAX_RETRIES + 1.
LEMMA LossBudget ==
    ASSUME TypeInv, TypeInv', NEW w \in Workers, ConnectionLost(w) \/ WorkerCrash(w),
           NEW t \in Tasks, BudgetOf(t)
    PROVE  BudgetOf(t)'
  <1>1. UNCHANGED <<sub, runs>> /\ losses' = losses + 1
    BY DEF ConnectionLost, WorkerCrash, apiVars
  <1>2. \A k \in Handlers : pc'[k] = "idle" \/ (pc'[k] = pc[k] /\ msg'[k] = msg[k])
    BY DEF ConnectionLost, WorkerCrash
  <1>3. \A k \in Handlers : /\ Busy(k, t)' => Busy(k, t)
                            /\ Working(k, t)' => Working(k, t) /\ msg'[k] = msg[k]
    BY <1>2 DEF Busy, Task, Working
  <1> DEFINE m == msg[unacked[w]]
  <1>4. CASE unacked[w] = None \/ m.task # t
    <2>1. ASSUME NEW o \in Message, o.task = t PROVE queue'[o] <= queue[o]
      <3>1. queue'[o] = queue[o]
        BY <1>4, <2>1 DEF ConnectionLost, WorkerCrash, Requeue, TypeInv, TypeOK
      <3> QED BY <3>1 DEF TypeInv, TypeOK
    <2> HIDE DEF m
    <2> QED BY <1>1, <1>3, <2>1, NoMoreLeft
  <1>5. CASE unacked[w] # None /\ m.task = t
    <2>1. unacked[w] \in Handlers /\ pc[unacked[w]] # "idle" /\ m \in Message
      BY <1>5, RunningHasMessage DEF TypeInv, TypeOK, HandlersOK
    <2>2. Busy(unacked[w], t)
      BY <1>5, <2>1 DEF Busy, Task
    <2>3. queue' = [queue EXCEPT ![m] = @ + 1]
      BY <1>5 DEF ConnectionLost, WorkerCrash, Requeue
    <2> HIDE DEF m
    <2>4. /\ queue[m] \in Nat /\ queue'[m] = queue[m] + 1
          /\ \A o \in Message \ {m} : queue'[o] = queue[o]
      BY <2>1, <2>3 DEF TypeInv, TypeOK
    <2> DEFINE R == Column(m, queue[m] + 1, 0)
    <2>5. AttemptsLeft(t)' \subseteq AttemptsLeft(t) \cup R
      <3>1. ASSUME NEW o \in Message, NEW c \in Nat \ {0}, NEW j \in 0..MaxRetries,
                   o.task = t, c <= queue'[o], o.retry <= j
            PROVE  <<o, c, j>> \in AttemptsLeft(t) \cup R
        <4>1. CASE c <= queue[o]
          BY <3>1, <4>1 DEF AttemptsLeft, OfQueue
        <4>2. CASE ~(c <= queue[o])
          <5>1. o = m
            BY <2>4, <3>1, <4>2
          <5>2. c = queue[m] + 1
            BY <2>4, <3>1, <4>2, <5>1
          <5> QED BY <5>1, <5>2 DEF Column
        <4> QED BY <4>1, <4>2
      <3>2. OfHandlers(t)' \subseteq OfHandlers(t)
        BY <1>3 DEF OfHandlers
      <3> HIDE DEF R
      <3> QED BY <3>1, <3>2 DEF AttemptsLeft, OfQueue
    <2>6. IsFiniteSet(R) /\ Cardinality(R) = MaxRetries + 1
      BY ColumnCount
    <2>7. /\ sub'[t] \notin DOMAIN SubmitNext
          /\ {} \subseteq AttemptsLeft(t) /\ Cardinality({}) = 0
          /\ Cardinality(R) <= 0 + MaxRetries + 1
      BY <1>1, <2>1, <2>2, <2>6, FS_EmptySet DEF BudgetOf, Present
    <2> HIDE DEF R
    <2> QED BY <1>1, <2>5, <2>6, <2>7, BudgetFrame
  <1> QED BY <1>4, <1>5

\* Every step keeps every task's budget.
LEMMA BudgetStep ==
    ASSUME TypeInv, TypeInv', BudgetInv, [Next]_vars
    PROVE  BudgetInv'
  <1> USE DEF apiVars, redisVars, brokerVars, history
  <1> SUFFICES ASSUME NEW t \in Tasks PROVE BudgetOf(t)'
    BY DEF BudgetInv
  <1>1. BudgetOf(t)
    BY DEF BudgetInv
  <1>2. ASSUME UNCHANGED <<sub, queue, runs, losses>>,
               \A k \in Handlers : Busy(k, t)' => Busy(k, t),
               \A k \in Handlers : Working(k, t)' => Working(k, t) /\ msg'[k] = msg[k]
        PROVE  BudgetOf(t)'
    <2>1. \A o \in Message : queue'[o] <= queue[o]
      BY <1>2 DEF TypeInv, TypeOK
    <2> QED BY <1>1, <1>2, <2>1, NoMoreLeft
  <1>3. CASE UNCHANGED <<sub, queue, runs, losses, pc, msg>>
    <2>1. \A k \in Handlers : (Busy(k, t)' <=> Busy(k, t)) /\ (Working(k, t)' <=> Working(k, t))
      BY <1>3 DEF Busy, Task, Working
    <2> QED BY <1>2, <1>3, <2>1
  <1>4. CASE \/ \E k \in Tasks : CacheExpire(k) \/ Age(k)
             \/ \E p \in Pollers : PollerStep(p)
             \/ CleanupLoop \/ UNCHANGED vars
    <2>1. UNCHANGED <<sub, queue, runs, losses, pc, msg>>
      BY <1>4 DEF CacheExpire, Age, CleanupLoop, PollerStep, PollMiss, PollRead, PollFill,
                  PollAbort, PollStep, vars
    <2> QED BY <1>3, <2>1
  <1>5. ASSUME NEW h \in Handlers, ExecuteStep(h) PROVE BudgetOf(t)'
    <2>1. UNCHANGED <<sub, queue, msg, losses, runs>> /\ pc[h] \in ExecutePoints
      BY <1>5, ExecuteFrame
    <2>2. PICK q \in WorkerPoints : Goto(h, q)
      BY <1>5, ExecuteFrame
    <2>3. \A k \in Handlers \ {h} : pc'[k] = pc[k]
      BY <2>2 DEF Goto, TypeInv, TypeOK
    <2>4. \A k \in Handlers : (Busy(k, t)' => Busy(k, t)) /\ (Working(k, t)' => Working(k, t))
      BY <2>1, <2>3, PointsType DEF Busy, Task, Working
    <2> QED BY <1>2, <2>1, <2>4
  <1>6. ASSUME NEW h \in Handlers, SettleStep(h), ~Republish(h) PROVE BudgetOf(t)'
    <2>1. UNCHANGED <<sub, queue, losses, runs>> /\ pc[h] \in {"ack", "except", "ack_retry", "outer_nack"}
      BY <1>6 DEF SettleStep, AckDone, AckRetry, DeadLetter, OuterNack, Settle
    <2>2. \A k \in Handlers \ {h} : pc'[k] = pc[k] /\ msg'[k] = msg[k]
      BY <1>6 DEF SettleStep, AckDone, AckRetry, DeadLetter, OuterNack, Settle, Leave, Goto,
                  TypeInv, TypeOK
    <2>3. \/ pc'[h] = "idle"
          \/ /\ msg'[h] = msg[h]
             /\ pc'[h] \notin {"ack_retry", "outer_nack"} => pc[h] = "ack"
      BY <1>6 DEF SettleStep, AckDone, AckRetry, DeadLetter, OuterNack, Settle, Leave, Goto,
                  TypeInv, TypeOK
    <2>4. \A k \in Handlers : /\ Busy(k, t)' => Busy(k, t)
                              /\ Working(k, t)' => Working(k, t) /\ msg'[k] = msg[k]
      BY <2>1, <2>2, <2>3 DEF Busy, Task, Working
    <2> QED BY <1>2, <2>1, <2>4
  <1> QED BY <1>1, <1>4, <1>5, <1>6, SubmitBudget, DeliveryBudget, RepublishBudget, LossBudget
          DEF Next, HandlerStep

\* Attempts so far and attempts still to come never exceed what losses allow.
THEOREM BudgetCorrect == Spec => []BudgetInv
  BY TypeCorrect, BudgetInit, BudgetStep, PTL DEF Spec

(* Each lost delivery costs a task at most MAX_RETRIES + 1 further attempts. *)
THEOREM AttemptsPerLossHolds == Spec => []AttemptsPerLoss
  <1>1. TypeInv /\ BudgetInv => AttemptsPerLoss
    <2> SUFFICES ASSUME TypeInv, BudgetInv, NEW t \in Tasks
                 PROVE  runs[t] <= (MaxRetries + 1) * (losses + 1)
      BY DEF AttemptsPerLoss
    <2>1. /\ Cardinality(AttemptsLeft(t)) \in Nat
          /\ runs[t] + Cardinality(AttemptsLeft(t)) <= (MaxRetries + 1) * (losses + 1)
      BY FS_CardinalityType DEF BudgetInv, BudgetOf
    <2>2. runs[t] \in Nat /\ losses \in Nat
      BY DEF TypeInv, TypeOK
    <2>3. (MaxRetries + 1) * (losses + 1) \in Nat
      BY <2>2
    <2> QED BY <2>1, <2>2, <2>3
  <1> QED BY <1>1, TypeCorrect, BudgetCorrect, PTL

-----------------------------------------------------------------------------
(***************************************************************************)
(* Where nothing raises between the commit of a result and the end of      *)
(* execute, a completed task stays completed until retention removes it,   *)
(* as long as no delivery of it is lost.                                   *)
(***************************************************************************)
SafeCommit == FaultPoints \cap PostCommit = {}

\* Where a handler is that has committed the result and not yet settled.
PastCommit == {"save_cache", "send_complete", "hook_done", "ack"}

(* Nothing is left that would write the row of t: no submit, no message, no *)
(* handler before its commit.                                               *)
Final(t) ==
    /\ sub[t] \notin DOMAIN SubmitNext
    /\ ~InQueue(t)
    /\ \A h \in Handlers : Working(h, t) => pc[h] \in PastCommit

FinalInv ==
    SafeCommit => \A t \in Tasks \ redelivered : db[t] = "completed" => Final(t)

\* Nothing is completed at first.
LEMMA FinalInit == Init => FinalInv
  BY DEF Init, FinalInv

(* A step that adds no message and moves no handler of t keeps it final.    *)
LEMMA FinalFrame ==
    ASSUME NEW t \in Tasks, Final(t),
           sub'[t] = sub[t] \/ sub'[t] \notin DOMAIN SubmitNext,
           \A m \in Message : m.task = t => queue'[m] = queue[m],
           \A k \in Handlers : Working(k, t)' => Working(k, t) /\ pc'[k] = pc[k]
    PROVE  Final(t)'
  <1>1. InQueue(t)' => InQueue(t)
    BY DEF InQueue
  <1> QED BY <1>1 DEF Final

(* Only the commit makes a row completed, and only submit and a handler     *)
(* before its commit write a row at all.                                    *)
LEMMA RowWriters ==
    ASSUME TypeInv, [Next]_vars, NEW t \in Tasks, db'[t] # db[t]
    PROVE  \/ Submit(t) /\ sub[t] = "s_create" /\ db'[t] = "pending"
           \/ t \in aged /\ db'[t] = "none"
           \/ \E h \in Handlers :
                /\ Working(h, t) /\ RepoUpdate(h)
                /\ pc[h] \in {"mark_db", "save_db", "fail_db"}
                /\ db'[t] = StatusAt[pc[h]]
  <1> USE DEF apiVars, redisVars, brokerVars, history
  <1>1. CASE \E k \in Tasks : Submit(k)
    BY <1>1 DEF Submit, TypeInv, TypeOK
  <1>2. ASSUME NEW h \in Handlers, RepoUpdate(h)
        PROVE  /\ Working(h, t)
               /\ pc[h] \in {"mark_db", "save_db", "fail_db"}
               /\ db'[t] = StatusAt[pc[h]]
    <2>1. PICK r \in Outcome :
            /\ Call(h, {"mark_db", "save_db", "fail_db"}, r)
            /\ IF r # "raises" /\ db[Task(h)] # "none"
               THEN db' = [db EXCEPT ![Task(h)] = StatusAt[pc[h]]]
               ELSE UNCHANGED db
      BY <1>2 DEF RepoUpdate
    <2>2. pc[h] \in {"mark_db", "save_db", "fail_db"}
      BY <2>1 DEF Call
    <2>3. db' = [db EXCEPT ![Task(h)] = StatusAt[pc[h]]]
      BY <2>1
    <2>4. Task(h) = t /\ db'[t] = StatusAt[pc[h]]
      BY <2>3 DEF TypeInv, TypeOK
    <2> QED BY <2>2, <2>4 DEF Working, Busy
  <1>3. CASE CleanupLoop
    BY <1>3 DEF CleanupLoop, TypeInv, TypeOK
  <1>4. CASE \/ UNCHANGED vars
             \/ \E k \in Tasks : CacheExpire(k) \/ Age(k)
             \/ \E w \in Workers : ConnectionLost(w) \/ WorkerCrash(w)
             \/ \E p \in Pollers : PollerStep(p)
    BY <1>4 DEF vars, CacheExpire, Age, ConnectionLost, WorkerCrash, PollerStep,
                PollMiss, PollRead, PollFill, PollAbort, PollStep
  <1>5. CASE \E h \in Handlers :
               \/ RepoGet(h) \/ CacheSet(h) \/ Compute(h) \/ PublishEvent(h)
               \/ SendWebhook(h) \/ SettleStep(h) \/ \E m \in Message : OnMessage(h, m)
    BY <1>5 DEF RepoGet, CacheSet, Compute, PublishEvent, SendWebhook, SettleStep,
                AckDone, Republish, AckRetry, DeadLetter, OuterNack, Settle, OnMessage
  <1> QED BY <1>1, <1>2, <1>3, <1>4, <1>5 DEF Next, HandlerStep, ExecuteStep

-----------------------------------------------------------------------------
(* After its commit a handler only goes forward.                            *)
LEMMA ExecuteForward ==
    ASSUME TypeInv, SafeCommit, NEW h \in Handlers, ExecuteStep(h),
           pc[h] \in PastCommit
    PROVE  pc'[h] \in PastCommit
  <1>1. pc[h] \in {"save_cache", "send_complete", "hook_done"} /\ Task(h) \in Tasks
    BY ExecuteFrame, PointsType, RunningHasMessage DEF PastCommit
  <1>2. \E points \in SUBSET ExecutePoints, r \in Outcome : Call(h, points, r)
    BY <1>1, PointsType
    DEF ExecuteStep, RepoGet, RepoUpdate, CacheSet, Compute, PublishEvent, SendWebhook,
        Call, Outcome
  <1>3. PICK points \in SUBSET ExecutePoints, r \in Outcome : Call(h, points, r)
    BY <1>2
  <1>4. pc[h] # "hook_done" => r = "returns"
    BY <1>1, <1>3 DEF Call, Charge, SafeCommit, PostCommit
  <1>5. pc[h] = "hook_done" => Goto(h, After("hook_done", Task(h)))
    BY <1>1 DEF ExecuteStep, RepoGet, RepoUpdate, CacheSet, Compute, PublishEvent,
                SendWebhook, Call
  <1>6. Goto(h, After(pc[h], Task(h)))
    BY <1>3, <1>4, <1>5 DEF Call
  <1>7. pc'[h] = After(pc[h], Task(h))
    BY <1>6 DEF Goto, TypeInv, TypeOK
  <1> QED BY <1>1, <1>7 DEF After, NextPoint, PastCommit

\* A step of execute keeps a completed task final.
LEMMA ExecuteFinal ==
    ASSUME TypeInv, SafeCommit, NEW h \in Handlers, ExecuteStep(h), NEW t \in Tasks, Final(t)
    PROVE  Final(t)'
  <1>1. UNCHANGED <<sub, queue, msg>> /\ pc[h] \in ExecutePoints
    BY ExecuteFrame
  <1>2. \A k \in Handlers \ {h} : pc'[k] = pc[k]
    BY ExecuteFrame DEF Goto, TypeInv, TypeOK
  <1>3. \A k \in Handlers \ {h} : Working(k, t)' => Working(k, t)
    BY <1>1, <1>2 DEF Working, Busy, Task
  <1>4. Working(h, t)' => Working(h, t)
    BY <1>1, PointsType DEF Working, Busy, Task
  <1>5. Working(h, t) => pc'[h] \in PastCommit
    BY ExecuteForward DEF Final
  <1>6. InQueue(t)' => InQueue(t)
    BY <1>1 DEF InQueue
  <1> QED BY <1>1, <1>2, <1>3, <1>4, <1>5, <1>6 DEF Final

(* The handler of a completed task holds its delivery, so its ack succeeds  *)
(* and it leaves; the delivery of an earlier attempt leaves or is rejected. *)
LEMMA SettleFinal ==
    ASSUME TypeInv, NEW h \in Handlers, SettleStep(h), NEW t \in Tasks, TokenInv(t), Final(t)
    PROVE  Final(t)'
  <1> USE DEF apiVars, redisVars, brokerVars, history
  <1>1. UNCHANGED sub /\ pc[h] \in {"ack", "except", "ack_retry", "outer_nack"}
    BY DEF SettleStep, AckDone, Republish, AckRetry, DeadLetter, OuterNack, Settle
  <1>2. \A k \in Handlers \ {h} : pc'[k] = pc[k] /\ msg'[k] = msg[k]
    BY DEF SettleStep, AckDone, Republish, AckRetry, DeadLetter, OuterNack, Settle,
           Leave, Goto, TypeInv, TypeOK
  <1>3. \A k \in Handlers \ {h} : Working(k, t)' => Working(k, t) /\ pc'[k] = pc[k]
    BY <1>2 DEF Working, Busy, Task
  <1>4. pc[h] = "except" => Task(h) # t
    BY DEF Final, Working, Busy, PastCommit
  <1>5. CASE Republish(h)
    <2>1. pc[h] = "except" /\ msg[h] \in Message /\ Task(h) \in Tasks
      BY <1>5, RunningHasMessage DEF Republish
    <2>2. \A m \in Message : m.task = t => queue'[m] = queue[m]
      <3> DEFINE copy == [msg[h] EXCEPT !.retry = @ + 1]
      <3>1. copy.task # t
        BY <1>4, <2>1 DEF Message, Task
      <3>2. queue' = queue \/ queue' = [queue EXCEPT ![copy] = @ + 1]
        BY <1>5 DEF Republish
      <3> HIDE DEF copy
      <3> QED BY <3>1, <3>2 DEF TypeInv, TypeOK
    <2>3. ~Working(h, t)'
      BY <1>4, <1>5, <2>1 DEF Republish, Working, Busy, Task
    <2> QED BY <1>1, <1>3, <2>2, <2>3, FinalFrame
  <1>6. CASE AckDone(h) \/ AckRetry(h) \/ DeadLetter(h) \/ OuterNack(h)
    <2>1. UNCHANGED queue
      BY <1>6 DEF AckDone, AckRetry, DeadLetter, OuterNack, Settle
    <2>2. \/ pc'[h] = "idle"
          \/ ~Held(h) /\ UNCHANGED msg
      BY <1>6 DEF AckDone, AckRetry, DeadLetter, OuterNack, Settle, Leave, Goto,
                  TypeInv, TypeOK
    <2>3. ~Held(h) => Task(h) # t
      BY <1>1 DEF TokenInv, Busy
    <2>4. ~Working(h, t)'
      BY <2>2, <2>3 DEF Working, Busy, Task
    <2> QED BY <1>1, <1>3, <2>1, <2>4, FinalFrame
  <1> QED BY <1>5, <1>6 DEF SettleStep

\* Neither the API, the broker, a crash nor time brings a task back.
LEMMA OtherFinal ==
    ASSUME TypeInv, AttemptInv, NEW t \in Tasks \ redelivered', Final(t),
           \/ \E k \in Tasks : Submit(k) \/ CacheExpire(k) \/ Age(k)
           \/ \E h \in Handlers, m \in Message : OnMessage(h, m)
           \/ \E w \in Workers : ConnectionLost(w) \/ WorkerCrash(w)
           \/ \E p \in Pollers : PollerStep(p)
           \/ CleanupLoop \/ UNCHANGED vars
    PROVE  Final(t)'
  <1> USE DEF apiVars, redisVars, brokerVars, history
  <1>1. CASE UNCHANGED <<sub, queue, pc, msg>>
    BY <1>1, FinalFrame DEF Working, Busy, Task
  <1>2. ASSUME NEW k \in Tasks, Submit(k) PROVE Final(t)'
    <2> DEFINE m == [task |-> k, retry |-> 0]
    <2>1. k # t
      BY <1>2 DEF Final, Submit
    <2>2. m \in Message /\ m.task # t
      BY <2>1 DEF Message
    <2>3. /\ UNCHANGED <<pc, msg>> /\ sub'[t] = sub[t]
          /\ queue' = queue \/ queue' = [queue EXCEPT ![m] = @ + 1]
      BY <1>2, <2>1 DEF Submit, TypeInv, TypeOK
    <2> HIDE DEF m
    <2>4. \A n \in Message : n.task = t => queue'[n] = queue[n]
      BY <2>2, <2>3 DEF TypeInv, TypeOK
    <2> QED BY <2>3, <2>4, FinalFrame DEF Working, Busy, Task
  <1>3. ASSUME NEW h \in Handlers, NEW m \in Message, OnMessage(h, m) PROVE Final(t)'
    <2>1. m.task # t
      BY <1>3 DEF Final, InQueue, OnMessage
    <2>2. /\ UNCHANGED sub /\ msg'[h] = m
          /\ queue' = [queue EXCEPT ![m] = @ - 1]
          /\ \A k \in Handlers \ {h} : pc'[k] = pc[k] /\ msg'[k] = msg[k]
      BY <1>3 DEF OnMessage, Goto, TypeInv, TypeOK
    <2>3. \A n \in Message : n.task = t => queue'[n] = queue[n]
      BY <2>1, <2>2 DEF TypeInv, TypeOK
    <2>4. ~Working(h, t)'
      BY <2>1, <2>2 DEF Working, Busy, Task
    <2>5. \A k \in Handlers \ {h} : Working(k, t)' => Working(k, t)
      BY <2>2 DEF Working, Busy, Task
    <2> QED BY <2>2, <2>3, <2>4, <2>5, FinalFrame
  <1>4. ASSUME NEW w \in Workers, ConnectionLost(w) \/ WorkerCrash(w) PROVE Final(t)'
    <2>1. UNCHANGED sub
      BY <1>4 DEF ConnectionLost, WorkerCrash
    <2>2. \A k \in Handlers : pc'[k] = "idle" \/ (pc'[k] = pc[k] /\ msg'[k] = msg[k])
      BY <1>4 DEF ConnectionLost, WorkerCrash
    <2>3. unacked[w] # None => Task(unacked[w]) # t /\ msg[unacked[w]] \in Message
      BY <1>4, RunningHasMessage
      DEF ConnectionLost, WorkerCrash, Requeue, TypeInv, TypeOK, HandlersOK
    <2>4. \A m \in Message : m.task = t => queue'[m] = queue[m]
      <3>1. CASE unacked[w] = None
        BY <1>4, <3>1 DEF ConnectionLost, WorkerCrash, Requeue
      <3>2. CASE unacked[w] # None
        <4>1. queue' = [queue EXCEPT ![msg[unacked[w]]] = @ + 1]
          BY <1>4, <3>2 DEF ConnectionLost, WorkerCrash, Requeue
        <4> QED BY <2>3, <3>2, <4>1 DEF Task, TypeInv, TypeOK
      <3> QED BY <3>1, <3>2
    <2>5. \A k \in Handlers : Working(k, t)' => Working(k, t) /\ pc'[k] = pc[k]
      BY <2>2 DEF Working, Busy, Task
    <2> QED BY <2>1, <2>4, <2>5, FinalFrame
  <1>5. CASE \/ \E k \in Tasks : CacheExpire(k) \/ Age(k)
             \/ \E p \in Pollers : PollerStep(p)
             \/ CleanupLoop \/ UNCHANGED vars
    <2>1. UNCHANGED <<sub, queue, pc, msg>>
      BY <1>5 DEF CacheExpire, Age, PollerStep, PollMiss, PollRead, PollFill,
                  PollAbort, PollStep, CleanupLoop, vars
    <2> QED BY <1>1, <2>1
  <1> QED BY <1>2, <1>3, <1>4, <1>5

-----------------------------------------------------------------------------
(* The commit itself makes its task final.                                  *)
LEMMA CommitFinal ==
    ASSUME TypeInv, SafeCommit, NEW h \in Handlers, RepoUpdate(h), pc[h] = "save_db",
           NEW t \in Tasks, Working(h, t), TokenInv(t)
    PROVE  Final(t)'
  <1> USE DEF apiVars, redisVars, brokerVars, history
  <1>1. Task(h) = t /\ UNCHANGED <<sub, queue, msg>>
    BY ExecuteFrame DEF ExecuteStep, Working, Busy
  <1>2. Goto(h, After("save_db", t))
    BY <1>1 DEF RepoUpdate, Call, Charge, SafeCommit, PostCommit
  <1>3. /\ pc'[h] \in PastCommit
        /\ \A k \in Handlers \ {h} : pc'[k] = pc[k]
    BY <1>2 DEF Goto, After, NextPoint, PastCommit, TypeInv, TypeOK
  <1>4. \A k \in Handlers : Working(k, t)' => k = h
    <2> SUFFICES ASSUME NEW k \in Handlers, k # h, Working(k, t)' PROVE FALSE
      OBVIOUS
    <2>1. Working(k, t)
      BY <1>1, <1>3 DEF Working, Busy, Task
    <2> QED BY <2>1 DEF TokenInv
  <1>5. sub[t] \notin DOMAIN SubmitNext /\ ~InQueue(t)
    BY DEF TokenInv, Present, Working
  <1>6. ~InQueue(t)'
    BY <1>1, <1>5 DEF InQueue
  <1> QED BY <1>1, <1>3, <1>4, <1>5, <1>6 DEF Final

\* A completed task stays final, and a commit makes its task final.
LEMMA FinalStep ==
    ASSUME TypeInv, AttemptInv, FinalInv, [Next]_vars
    PROVE  FinalInv'
  <1> SUFFICES ASSUME SafeCommit, NEW t \in Tasks \ redelivered', db'[t] = "completed"
               PROVE  Final(t)'
    BY DEF FinalInv, SafeCommit, PostCommit
  <1>1. t \notin redelivered /\ TokenInv(t)
    BY RedeliveredGrows DEF AttemptInv
  <1>2. CASE db[t] = "completed"
    <2>1. Final(t)
      BY <1>1, <1>2 DEF FinalInv
    <2> QED BY <1>1, <2>1, ExecuteFinal, SettleFinal, OtherFinal DEF Next, HandlerStep
  <1>3. CASE db[t] # "completed"
    <2>1. PICK h \in Handlers : /\ Working(h, t) /\ RepoUpdate(h)
                                /\ pc[h] \in {"mark_db", "save_db", "fail_db"}
                                /\ db'[t] = StatusAt[pc[h]]
      BY <1>3, RowWriters
    <2>2. pc[h] = "save_db"
      BY <2>1 DEF StatusAt
    <2> QED BY <1>1, <2>1, <2>2, CommitFinal
  <1> QED BY <1>2, <1>3

\* Nothing is left that would write the row of a completed task.
THEOREM FinalCorrect == Spec => []FinalInv
  BY TypeCorrect, AttemptCorrect, FinalInit, FinalStep, PTL DEF Spec

(* Completed is final: nothing but retention takes a row out of completed,  *)
(* unless a delivery of its task is lost or a call raises between the       *)
(* commit and the end of execute.                                           *)
THEOREM CompletedIsFinalHolds == Spec => CompletedIsFinal
  <1> DEFINE Step ==
        \A t \in Tasks :
          /\ FaultPoints \cap PostCommit = {}
          /\ t \notin redelivered'
          /\ db[t] = "completed"
          => \/ db'[t] = "completed"
             \/ t \in aged /\ db'[t] = "none"
  <1>1. ASSUME TypeInv, FinalInv, [Next]_vars PROVE Step
    <2> SUFFICES ASSUME NEW t \in Tasks, SafeCommit, t \notin redelivered',
                        db[t] = "completed", db'[t] # "completed"
                 PROVE  t \in aged /\ db'[t] = "none"
      BY DEF SafeCommit
    <2>1. Final(t)
      BY <1>1, RedeliveredGrows DEF FinalInv
    <2>2. sub[t] # "s_create"
      BY <2>1 DEF Final, SubmitNext
    <2>3. \A h \in Handlers : Working(h, t) => pc[h] \notin {"mark_db", "save_db", "fail_db"}
      BY <2>1 DEF Final, PastCommit
    <2> QED BY <1>1, <2>2, <2>3, RowWriters
  <1>2. TypeInv /\ FinalInv /\ [Next]_vars => [Step]_vars
    BY <1>1
  <1> QED BY <1>2, TypeCorrect, FinalCorrect, PTL DEF Spec, CompletedIsFinal

-----------------------------------------------------------------------------
(***************************************************************************)
(* The outcome.                                                            *)
(***************************************************************************)

EventTells(t, event) == LastEvent(t) = IF t \in VoiceTasks THEN event ELSE "nothing"
CacheTells(t, status) == Pollers = {} => cache[t] \in {"miss", status}

(* What execute has told about t when a handler has come to a point of its  *)
(* successful path: first the row, then the cache entry, then the last      *)
(* event.                                                                   *)
Arrived(point, t) ==
    /\ point \in PastCommit => db[t] = "completed"
    /\ point \in {"send_complete", "hook_done", "ack"} => CacheTells(t, "completed")
    /\ point \in {"hook_done", "ack"} => EventTells(t, "complete")

\* And in the except block, where only the work fails.
Reached(point, t) ==
    /\ Arrived(point, t)
    /\ point \in {"fail_cache", "send_error", "hook_failed", "except"} => db[t] = "failed"
    /\ point \in {"send_error", "hook_failed", "except"} => CacheTells(t, "failed")
    /\ point \in {"hook_failed", "except"} => EventTells(t, "error")

\* Text tasks have no events, and no handler that publishes one.
Silent(t) ==
    t \notin VoiceTasks =>
      /\ events[t] = <<>>
      /\ \A h \in Handlers : Busy(h, t) => pc[h] \notin {"send_complete", "send_error"}

(* The outcome of t: none while a token of it is left, but for the handler  *)
(* that is about to acknowledge it; after that, one that all places tell.   *)
OutcomeOf(t) ==
    /\ ~(t \in finished /\ InDlq(t))
    /\ sub[t] \in DOMAIN SubmitNext \/ InQueue(t) => t \notin finished /\ ~InDlq(t)
    /\ \A h \in Handlers : Working(h, t) =>
         /\ ~InDlq(t)
         /\ t \in finished <=> pc[h] = "ack"
         /\ Reached(pc[h], t)
    /\ \A h \in Handlers : Busy(h, t) => pc[h] # "outer_nack"
    /\ t \in finished => Tells(t, "completed", "complete")
    /\ InDlq(t) => Tells(t, "failed", "error") /\ runs[t] = MaxRetries + 1
    /\ Silent(t)

OutcomeInv == WorkOnly => \A t \in Tasks \ (redelivered \cup aged) : OutcomeOf(t)

-----------------------------------------------------------------------------
\* At first there is no attempt and nothing is told.
LEMMA OutcomeInit == Init => OutcomeInv
  <1> SUFFICES ASSUME Init, NEW t \in Tasks PROVE OutcomeOf(t)
    BY DEF OutcomeInv
  <1>1. t \notin finished /\ ~InDlq(t) /\ ~InQueue(t) /\ events[t] = <<>>
    BY DEF Init, InDlq, InQueue
  <1>2. \A h \in Handlers : ~Busy(h, t)
    BY DEF Init, Busy
  <1> QED BY <1>1, <1>2 DEF OutcomeOf, Silent, Working

\* What is told of t depends on its row, its entry and its events.
LEMMA TellsFrame ==
    ASSUME NEW t \in Tasks, db'[t] = db[t], events'[t] = events[t],
           Pollers # {} \/ cache'[t] \in {cache[t], "miss"}
    PROVE  /\ \A point : Arrived(point, t) => Arrived(point, t)'
           /\ \A point : Reached(point, t) => Reached(point, t)'
           /\ \A status, event : Tells(t, status, event) => Tells(t, status, event)'
  <1>1. LastEvent(t)' = LastEvent(t)
    BY DEF LastEvent
  <1>2. \A status : CacheTells(t, status) => CacheTells(t, status)'
    BY DEF CacheTells
  <1>3. \A status, event : Tells(t, status, event) => Tells(t, status, event)'
    BY <1>1 DEF Tells
  <1>4. \A event : EventTells(t, event) => EventTells(t, event)'
    BY <1>1 DEF EventTells
  <1>5. \A point : Arrived(point, t) => Arrived(point, t)'
    BY <1>2, <1>4 DEF Arrived
  <1> QED BY <1>2, <1>3, <1>4, <1>5 DEF Reached

(* A step that tells nothing new about t, adds no message of it and moves   *)
(* none of its handlers keeps its outcome.                                  *)
LEMMA OutcomeFrame ==
    ASSUME NEW t \in Tasks, OutcomeOf(t),
           db'[t] = db[t], events'[t] = events[t],
           Pollers # {} \/ cache'[t] \in {cache[t], "miss"},
           runs'[t] = runs[t], t \in finished' <=> t \in finished,
           sub'[t] = sub[t] \/ sub'[t] \notin DOMAIN SubmitNext,
           InDlq(t)' <=> InDlq(t), InQueue(t)' => InQueue(t),
           \A k \in Handlers : Busy(k, t)' => Busy(k, t) /\ pc'[k] = pc[k]
    PROVE  OutcomeOf(t)'
  <1>1. /\ \A point : Reached(point, t) => Reached(point, t)'
        /\ \A status, event : Tells(t, status, event) => Tells(t, status, event)'
    BY TellsFrame
  <1>2. \A k \in Handlers : Working(k, t)' => Working(k, t) /\ pc'[k] = pc[k]
    BY DEF Working
  <1>3. Silent(t)'
    BY DEF OutcomeOf, Silent
  <1>4. \A k \in Handlers : Working(k, t)' =>
          /\ ~InDlq(t)' /\ (t \in finished' <=> pc'[k] = "ack") /\ Reached(pc[k], t)'
    BY <1>1, <1>2 DEF OutcomeOf
  <1>5. /\ \A k \in Handlers : Busy(k, t)' => pc'[k] # "outer_nack"
        /\ t \in finished' => Tells(t, "completed", "complete")'
        /\ InDlq(t)' => Tells(t, "failed", "error")' /\ runs'[t] = MaxRetries + 1
    BY <1>1 DEF OutcomeOf
  <1>6. /\ ~(t \in finished' /\ InDlq(t)')
        /\ sub'[t] \in DOMAIN SubmitNext \/ InQueue(t)' => t \notin finished' /\ ~InDlq(t)'
    BY DEF OutcomeOf
  <1> QED BY <1>3, <1>4, <1>5, <1>6 DEF OutcomeOf

-----------------------------------------------------------------------------
\* What a step of execute writes, of its own task and of the others.
LEMMA ExecuteWrites ==
    ASSUME TypeInv, NEW h \in Handlers, ExecuteStep(h), NEW t \in Tasks
    PROVE  Task(h) # t => db'[t] = db[t] /\ cache'[t] = cache[t] /\ events'[t] = events[t]
  <1>1. Task(h) \in Tasks
    BY ExecuteFrame, RunningHasMessage, PointsType
  <1> QED BY <1>1 DEF ExecuteStep, RepoGet, RepoUpdate, CacheSet, Compute, PublishEvent,
                      SendWebhook, redisVars, TypeInv, TypeOK

\* Where only the work fails, execute goes on in order but for the work.
LEMMA WorkGoes ==
    ASSUME TypeInv, RecordInv, WorkOnly, NEW h \in Handlers, ExecuteStep(h),
           Task(h) \in Tasks \ aged
    PROVE  \/ Goto(h, After(pc[h], Task(h)))
           \/ pc[h] = "compute" /\ Goto(h, "fail_db")
  <1>1. pc[h] \in ExecutePoints /\ db[Task(h)] # "none"
    BY ExecuteFrame, PointsType DEF RecordInv, WorkerFindsTask, Busy
  <1>2. \A points, r : Call(h, points, r) =>
          \/ Goto(h, After(pc[h], Task(h)))
          \/ pc[h] = "compute" /\ Goto(h, "fail_db")
    BY <1>1, PointsType DEF Call, Charge, WorkOnly, SubmitNext, OnRaise
  <1> QED BY <1>1, <1>2
          DEF ExecuteStep, RepoGet, RepoUpdate, CacheSet, Compute, PublishEvent,
              SendWebhook, OnRaise

\* Its calls return and take effect.
LEMMA WorkWrites ==
    ASSUME TypeInv, RecordInv, WorkOnly, NEW h \in Handlers, ExecuteStep(h),
           NEW t \in Tasks \ aged, Task(h) = t
    PROVE  /\ db'[t] = IF pc[h] \in {"mark_db", "save_db", "fail_db"}
                       THEN StatusAt[pc[h]] ELSE db[t]
           /\ cache'[t] = IF pc[h] \in {"mark_cache", "save_cache", "fail_cache"}
                          THEN StatusAt[pc[h]] ELSE cache[t]
           /\ events'[t] = CASE pc[h] = "send_complete" -> Append(events[t], "complete")
                             [] pc[h] = "send_error" -> Append(events[t], "error")
                             [] OTHER -> events[t]
  <1> USE DEF redisVars, TypeInv, TypeOK
  <1>1. pc[h] \in ExecutePoints /\ db[t] # "none"
    BY ExecuteFrame, PointsType DEF RecordInv, WorkerFindsTask, Busy
  <1>2. \A points, r : Call(h, points, r) => pc[h] \in points /\ (pc[h] # "compute" => r = "returns")
    BY <1>1, PointsType DEF Call, Charge, WorkOnly, SubmitNext
  <1>3. CASE RepoGet(h) \/ Compute(h) \/ SendWebhook(h)
    BY <1>2, <1>3 DEF RepoGet, Compute, SendWebhook
  <1>4. CASE RepoUpdate(h)
    <2>1. PICK r \in Outcome :
            /\ Call(h, {"mark_db", "save_db", "fail_db"}, r)
            /\ r # "raises" /\ db[Task(h)] # "none"
                 => db' = [db EXCEPT ![Task(h)] = StatusAt[pc[h]]]
      BY <1>4 DEF RepoUpdate
    <2>2. pc[h] \in {"mark_db", "save_db", "fail_db"} /\ r = "returns"
      BY <1>2, <2>1
    <2>3. db' = [db EXCEPT ![t] = StatusAt[pc[h]]] /\ UNCHANGED <<cache, events>>
      BY <1>1, <1>4, <2>1, <2>2 DEF RepoUpdate
    <2> QED BY <2>2, <2>3
  <1>5. CASE CacheSet(h)
    <2>1. PICK r \in Outcome :
            /\ Call(h, {"mark_cache", "save_cache", "fail_cache"}, r)
            /\ r # "raises" => cache' = [cache EXCEPT ![Task(h)] = StatusAt[pc[h]]]
      BY <1>5 DEF CacheSet
    <2>2. pc[h] \in {"mark_cache", "save_cache", "fail_cache"} /\ r = "returns"
      BY <1>2, <2>1
    <2>3. cache' = [cache EXCEPT ![t] = StatusAt[pc[h]]] /\ UNCHANGED <<db, events>>
      BY <1>5, <2>1, <2>2 DEF CacheSet
    <2> QED BY <2>2, <2>3
  <1>6. CASE PublishEvent(h)
    <2> DEFINE event == IF pc[h] = "send_complete" THEN "complete" ELSE "error"
    <2>1. PICK r \in Outcome :
            /\ Call(h, {"send_complete", "send_error"}, r)
            /\ r # "raises" => events' = [events EXCEPT ![Task(h)] = Append(@, event)]
      BY <1>6 DEF PublishEvent
    <2>2. pc[h] \in {"send_complete", "send_error"} /\ r = "returns"
      BY <1>2, <2>1
    <2>3. events' = [events EXCEPT ![t] = Append(@, event)] /\ UNCHANGED <<db, cache>>
      BY <1>6, <2>1, <2>2 DEF PublishEvent
    <2> QED BY <2>2, <2>3
  <1> QED BY <1>3, <1>4, <1>5, <1>6 DEF ExecuteStep

(* Whatever raises: a call of execute returns and takes effect, or the      *)
(* handler leaves the successful path.                                      *)
LEMMA ReturnWrites ==
    ASSUME TypeInv, RecordInv, NEW h \in Handlers, ExecuteStep(h),
           NEW t \in Tasks \ aged, Task(h) = t, pc'[h] \notin {"fail_db", "except"}
    PROVE  /\ pc'[h] = After(pc[h], t)
           /\ db'[t] = IF pc[h] \in {"mark_db", "save_db", "fail_db"}
                       THEN StatusAt[pc[h]] ELSE db[t]
           /\ cache'[t] = IF pc[h] \in {"mark_cache", "save_cache", "fail_cache"}
                          THEN StatusAt[pc[h]] ELSE cache[t]
           /\ events'[t] = CASE pc[h] = "send_complete" -> Append(events[t], "complete")
                             [] pc[h] = "send_error" -> Append(events[t], "error")
                             [] OTHER -> events[t]
  <1> USE DEF redisVars, TypeInv, TypeOK
  <1>1. pc[h] \in ExecutePoints /\ db[t] # "none"
    BY ExecuteFrame, PointsType DEF RecordInv, WorkerFindsTask, Busy
  <1>2. ~Goto(h, "except") /\ ~Goto(h, OnRaise(pc[h]))
    BY <1>1, PointsType DEF Goto
  <1>3. \A points, r : Call(h, points, r) =>
          pc[h] \in points /\ r = "returns" /\ pc'[h] = After(pc[h], t)
    BY <1>2 DEF Call, Goto
  <1>4. CASE RepoGet(h) \/ Compute(h) \/ SendWebhook(h)
    <2>1. /\ \E points, r : Call(h, points, r)
          /\ pc[h] \in {"load", "compute", "hook_done", "hook_failed"}
          /\ UNCHANGED <<db, cache, events>>
      BY <1>1, <1>2, <1>3, <1>4 DEF RepoGet, Compute, SendWebhook
    <2> QED BY <1>3, <2>1
  <1>5. CASE RepoUpdate(h)
    <2>1. PICK r \in Outcome :
            /\ Call(h, {"mark_db", "save_db", "fail_db"}, r)
            /\ r # "raises" /\ db[Task(h)] # "none"
                 => db' = [db EXCEPT ![Task(h)] = StatusAt[pc[h]]]
      BY <1>5 DEF RepoUpdate
    <2>2. pc[h] \in {"mark_db", "save_db", "fail_db"} /\ r = "returns" /\ pc'[h] = After(pc[h], t)
      BY <1>3, <2>1
    <2>3. db' = [db EXCEPT ![t] = StatusAt[pc[h]]] /\ UNCHANGED <<cache, events>>
      BY <1>1, <1>5, <2>1, <2>2 DEF RepoUpdate
    <2> QED BY <2>2, <2>3
  <1>6. CASE CacheSet(h)
    <2>1. PICK r \in Outcome :
            /\ Call(h, {"mark_cache", "save_cache", "fail_cache"}, r)
            /\ r # "raises" => cache' = [cache EXCEPT ![Task(h)] = StatusAt[pc[h]]]
      BY <1>6 DEF CacheSet
    <2>2. /\ pc[h] \in {"mark_cache", "save_cache", "fail_cache"} /\ r = "returns"
          /\ pc'[h] = After(pc[h], t)
      BY <1>3, <2>1
    <2>3. cache' = [cache EXCEPT ![t] = StatusAt[pc[h]]] /\ UNCHANGED <<db, events>>
      BY <1>6, <2>1, <2>2 DEF CacheSet
    <2> QED BY <2>2, <2>3
  <1>7. CASE PublishEvent(h)
    <2> DEFINE event == IF pc[h] = "send_complete" THEN "complete" ELSE "error"
    <2>1. PICK r \in Outcome :
            /\ Call(h, {"send_complete", "send_error"}, r)
            /\ r # "raises" => events' = [events EXCEPT ![Task(h)] = Append(@, event)]
      BY <1>7 DEF PublishEvent
    <2>2. pc[h] \in {"send_complete", "send_error"} /\ r = "returns" /\ pc'[h] = After(pc[h], t)
      BY <1>3, <2>1
    <2>3. events' = [events EXCEPT ![t] = Append(@, event)] /\ UNCHANGED <<db, cache>>
      BY <1>7, <2>1, <2>2 DEF PublishEvent
    <2> QED BY <2>2, <2>3
  <1> QED BY <1>4, <1>5, <1>6, <1>7 DEF ExecuteStep

\* What the successful path has told of t when its handler is at the next point.
LEMMA ArrivedNext ==
    ASSUME TypeInv, RecordInv, NEW h \in Handlers, ExecuteStep(h),
           NEW t \in Tasks \ aged, Task(h) = t, Arrived(pc[h], t), Silent(t)
    PROVE  /\ Arrived(pc[h], t)'
           /\ t \notin VoiceTasks =>
                events'[t] = <<>> /\ pc'[h] \notin {"send_complete", "send_error"}
  <1>1. /\ pc[h] \in {"load", "mark_db", "mark_cache", "compute", "save_db", "save_cache",
                      "send_complete", "hook_done", "fail_db", "fail_cache", "send_error",
                      "hook_failed"}
        /\ pc \in [Handlers -> WorkerPoints \cup {"idle"}]
    BY ExecuteFrame, PointsType DEF TypeInv, TypeOK
  <1>2. t \notin VoiceTasks => events[t] = <<>> /\ pc[h] \notin {"send_complete", "send_error"}
    BY <1>1 DEF Silent, Busy
  <1>3. CASE pc'[h] \in {"fail_db", "except"}
    <2>1. pc[h] \notin {"send_complete", "send_error"} => UNCHANGED events
      BY DEF ExecuteStep, RepoGet, RepoUpdate, CacheSet, Compute, PublishEvent,
             SendWebhook, redisVars, Call
    <2> QED BY <1>2, <1>3, <2>1 DEF Arrived, PastCommit
  <1>4. CASE pc'[h] \notin {"fail_db", "except"}
    <2>1. pc'[h] = After(pc[h], t)
      BY <1>4, ReturnWrites
    <2>2. events \in [Tasks -> Seq({"complete", "error"})]
      BY DEF TypeInv, TypeOK
    <2>3. t \notin VoiceTasks =>
            events'[t] = <<>> /\ pc'[h] \notin {"send_complete", "send_error"}
      BY <1>1, <1>2, <1>4, <2>1, ReturnWrites DEF After, NextPoint
    <2>4. t \notin VoiceTasks => LastEvent(t)' = "nothing"
      BY <2>3 DEF LastEvent
    <2>5. pc'[h] \in PastCommit => db'[t] = "completed"
      BY <1>1, <1>4, <2>1, ReturnWrites DEF After, NextPoint, PastCommit, Arrived, StatusAt
    <2>6. pc'[h] \in {"send_complete", "hook_done", "ack"} => CacheTells(t, "completed")'
      BY <1>1, <1>4, <2>1, ReturnWrites DEF After, NextPoint, Arrived, CacheTells, StatusAt
    <2>7. pc'[h] \in {"hook_done", "ack"} => EventTells(t, "complete")'
      <3>1. CASE pc[h] = "send_complete" /\ t \in VoiceTasks
        <4>1. events'[t] = Append(events[t], "complete")
          BY <1>4, <3>1, ReturnWrites
        <4> QED BY <2>2, <3>1, <4>1 DEF LastEvent, EventTells
      <3>2. CASE pc[h] = "hook_done" /\ t \in VoiceTasks
        BY <1>4, <3>2, ReturnWrites DEF Arrived, EventTells, LastEvent
      <3>3. CASE t \notin VoiceTasks
        BY <2>4, <3>3 DEF EventTells
      <3> QED BY <1>1, <2>1, <3>1, <3>2, <3>3 DEF After, NextPoint
    <2> QED BY <2>3, <2>5, <2>6, <2>7 DEF Arrived
  <1> QED BY <1>3, <1>4

\* What is told of t when its handler has come to the next point.
LEMMA ReachedNext ==
    ASSUME TypeInv, RecordInv, WorkOnly, NEW h \in Handlers, ExecuteStep(h),
           NEW t \in Tasks \ aged, Task(h) = t, Reached(pc[h], t), Silent(t)
    PROVE  /\ Reached(pc[h], t)'
           /\ t \notin VoiceTasks =>
                events'[t] = <<>> /\ pc'[h] \notin {"send_complete", "send_error"}
  <1>1. /\ pc[h] \in {"load", "mark_db", "mark_cache", "compute", "save_db", "save_cache",
                      "send_complete", "hook_done", "fail_db", "fail_cache", "send_error",
                      "hook_failed"}
        /\ pc \in [Handlers -> WorkerPoints \cup {"idle"}]
    BY ExecuteFrame, PointsType DEF TypeInv, TypeOK
  <1>2. \/ pc'[h] = After(pc[h], t)
        \/ pc[h] = "compute" /\ pc'[h] = "fail_db"
    BY <1>1, WorkGoes DEF Goto
  <1>3. t \notin VoiceTasks => events[t] = <<>> /\ pc[h] \notin {"send_complete", "send_error"}
    BY <1>1 DEF Silent, Busy
  <1>4. events \in [Tasks -> Seq({"complete", "error"})]
    BY DEF TypeInv, TypeOK
  <1>5. /\ Arrived(pc[h], t)'
        /\ t \notin VoiceTasks =>
             events'[t] = <<>> /\ pc'[h] \notin {"send_complete", "send_error"}
    BY ArrivedNext DEF Reached
  <1>6. t \notin VoiceTasks => LastEvent(t)' = "nothing"
    BY <1>5 DEF LastEvent
  <1>7. pc'[h] \in {"fail_cache", "send_error", "hook_failed", "except"} => db'[t] = "failed"
    BY <1>1, <1>2, WorkWrites DEF After, NextPoint, Reached, StatusAt
  <1>8. pc'[h] \in {"send_error", "hook_failed", "except"} => CacheTells(t, "failed")'
    BY <1>1, <1>2, WorkWrites DEF After, NextPoint, Reached, CacheTells, StatusAt
  <1>9. pc'[h] \in {"hook_failed", "except"} => EventTells(t, "error")'
    <2>1. CASE pc[h] = "send_error" /\ t \in VoiceTasks
      <3>1. events'[t] = Append(events[t], "error")
        BY <2>1, WorkWrites
      <3> QED BY <1>4, <2>1, <3>1 DEF LastEvent, EventTells
    <2>2. CASE pc[h] = "hook_failed" /\ t \in VoiceTasks
      BY <2>2, WorkWrites DEF Reached, EventTells, LastEvent
    <2>3. CASE t \notin VoiceTasks
      BY <1>6, <2>3 DEF EventTells
    <2> QED BY <1>1, <1>2, <2>1, <2>2, <2>3 DEF After, NextPoint
  <1> QED BY <1>5, <1>7, <1>8, <1>9 DEF Reached

\* A step of execute tells of its own task what its next point says.
LEMMA ExecuteOutcome ==
    ASSUME TypeInv, RecordInv, WorkOnly, NEW h \in Handlers, ExecuteStep(h),
           NEW t \in Tasks \ aged, TokenInv(t), OutcomeOf(t)
    PROVE  OutcomeOf(t)'
  <1>1. /\ pc[h] \in ExecutePoints
        /\ UNCHANGED <<sub, queue, dlq, msg, runs>>
        /\ finished' = (IF pc[h] = "hook_done" THEN finished \cup {Task(h)} ELSE finished)
    BY ExecuteFrame
  <1>2. PICK q \in WorkerPoints \ {"ack_retry", "outer_nack"} :
          Goto(h, q) /\ (q = "ack" => pc[h] = "hook_done")
    BY ExecuteFrame
  <1>3. /\ pc'[h] = q /\ \A k \in Handlers \ {h} : pc'[k] = pc[k]
        /\ \A k \in Handlers : Task(k)' = Task(k)
        /\ InDlq(t)' <=> InDlq(t)
        /\ InQueue(t)' <=> InQueue(t)
    BY <1>1, <1>2 DEF Goto, Task, InDlq, InQueue, TypeInv, TypeOK
  <1>4. CASE Task(h) # t
    <2>1. \A k \in Handlers : Busy(k, t)' => Busy(k, t) /\ pc'[k] = pc[k]
      BY <1>3, <1>4 DEF Busy
    <2> QED BY <1>1, <1>3, <1>4, <2>1, ExecuteWrites, OutcomeFrame
  <1>5. CASE Task(h) = t
    <2>1. Working(h, t) /\ Busy(h, t) /\ pc[h] # "ack"
      BY <1>1, <1>5, PointsType DEF Working, Busy
    <2>2. /\ ~InDlq(t) /\ t \notin finished /\ ~InQueue(t) /\ Reached(pc[h], t)
          /\ sub[t] \notin DOMAIN SubmitNext
          /\ \A k \in Handlers \ {h} : ~Working(k, t)
      BY <2>1 DEF OutcomeOf, TokenInv, Present
    <2>3. Reached(pc[h], t)'
      BY <1>5, <2>2, ReachedNext DEF OutcomeOf
    <2>4. t \in finished' <=> pc[h] = "hook_done"
      BY <1>1, <1>5, <2>2
    <2>5. pc[h] = "hook_done" => pc'[h] = "ack"
      <3>1. After("hook_done", t) = "ack"
        BY DEF After, NextPoint
      <3>2. pc[h] = "hook_done" => Goto(h, After("hook_done", t))
        BY <1>5, WorkGoes
      <3> QED BY <3>1, <3>2 DEF Goto, TypeInv, TypeOK
    <2>6. \A k \in Handlers \ {h} : ~Working(k, t)'
      BY <1>3, <2>2 DEF Working, Busy
    <2>7. Silent(t)'
      <3>1. /\ t \notin VoiceTasks => events'[t] = <<>> /\ pc'[h] \notin {"send_complete", "send_error"}
        BY <1>5, <2>2, ReachedNext DEF OutcomeOf
      <3>2. \A k \in Handlers \ {h} : Busy(k, t)' => Busy(k, t) /\ pc'[k] = pc[k]
        BY <1>3 DEF Busy
      <3> QED BY <3>1, <3>2 DEF Silent, OutcomeOf
    <2>8. \A k \in Handlers : Busy(k, t)' => pc'[k] # "outer_nack"
      BY <1>3 DEF Busy, OutcomeOf
    <2>9. t \in finished' => Tells(t, "completed", "complete")'
      <3> SUFFICES ASSUME pc[h] = "hook_done" PROVE Tells(t, "completed", "complete")'
        BY <2>4
      <3>1. pc'[h] = "ack"
        BY <2>5
      <3> QED BY <2>3, <3>1 DEF Reached, Arrived, PastCommit, Tells, CacheTells, EventTells
    <2>10. t \in finished' <=> pc'[h] = "ack"
      BY <1>2, <1>3, <2>4, <2>5
    <2>11. \A k \in Handlers : Working(k, t)' =>
             ~InDlq(t)' /\ (t \in finished' <=> pc'[k] = "ack") /\ Reached(pc[k], t)'
      <3> SUFFICES ASSUME NEW k \in Handlers, Working(k, t)'
                   PROVE  /\ ~InDlq(t)'
                          /\ t \in finished' <=> pc'[k] = "ack"
                          /\ Reached(pc[k], t)'
        OBVIOUS
      <3>1. k = h
        BY <2>6
      <3>2. ~InDlq(t)' /\ (t \in finished' <=> pc'[k] = "ack")
        BY <1>3, <2>2, <2>10, <3>1
      <3>3. Reached(pc[k], t)'
        BY <2>3, <3>1
      <3> QED BY <3>2, <3>3
    <2> QED BY <1>1, <1>3, <2>2, <2>7, <2>8, <2>9, <2>11 DEF OutcomeOf
  <1> QED BY <1>4, <1>5

-----------------------------------------------------------------------------
\* Settling: only the last nack dead-letters, and it tells failed.
LEMMA SettleOutcome ==
    ASSUME TypeInv, RecordInv, WorkOnly, NEW h \in Handlers, SettleStep(h),
           NEW t \in Tasks, TokenInv(t), OutcomeOf(t)
    PROVE  OutcomeOf(t)'
  <1> USE DEF apiVars, redisVars, brokerVars, history
  <1>1. /\ UNCHANGED <<sub, db, cache, events, runs, finished>>
        /\ pc[h] \in {"ack", "except", "ack_retry", "outer_nack"}
    BY DEF SettleStep, AckDone, Republish, AckRetry, DeadLetter, OuterNack, Settle
  <1>2. \A k \in Handlers \ {h} : pc'[k] = pc[k] /\ msg'[k] = msg[k]
    BY DEF SettleStep, AckDone, Republish, AckRetry, DeadLetter, OuterNack, Settle,
           Leave, Goto, TypeInv, TypeOK
  <1>3. \A k \in Handlers \ {h} : Busy(k, t)' => Busy(k, t) /\ pc'[k] = pc[k]
    BY <1>2 DEF Busy, Task
  <1>4. msg[h] \in Message /\ Task(h) \in Tasks
    BY <1>1, RunningHasMessage
  <1>5. Task(h) = t => Busy(h, t) /\ Held(h) /\ pc[h] # "outer_nack"
    BY <1>1 DEF Busy, TokenInv, OutcomeOf
  <1>6. CASE Republish(h)
    <2>1. pc[h] = "except" /\ UNCHANGED <<msg, dlq>> /\ InDlq(t)' = InDlq(t)
      BY <1>6 DEF Republish, InDlq
    <2> DEFINE copy == [msg[h] EXCEPT !.retry = @ + 1]
    <2>2. copy.task = Task(h)
      BY <1>4 DEF Message, Task
    <2>3. "except" \notin FaultPoints
      BY DEF WorkOnly, SubmitNext
    <2>4. Goto(h, "ack_retry") /\ queue' = [queue EXCEPT ![copy] = @ + 1]
      BY <1>6, <2>3 DEF Republish, Charge
    <2> HIDE DEF copy
    <2>5. pc'[h] = "ack_retry" /\ \A o \in Message : o # copy => queue'[o] = queue[o]
      BY <2>4 DEF Goto, TypeInv, TypeOK
    <2>6. CASE Task(h) # t
      <3>1. InQueue(t)' => InQueue(t)
        BY <2>2, <2>5, <2>6 DEF InQueue
      <3>2. ~Busy(h, t)'
        BY <2>1, <2>6 DEF Busy, Task
      <3> QED BY <1>1, <1>3, <2>1, <3>1, <3>2, OutcomeFrame
    <2>7. CASE Task(h) = t
      <3>1. Working(h, t)
        BY <1>5, <2>1, <2>7 DEF Working
      <3>2. /\ t \notin finished /\ ~InDlq(t)
            /\ \A k \in Handlers \ {h} : ~Working(k, t)
        BY <2>1, <3>1 DEF OutcomeOf, TokenInv
      <3>3. \A k \in Handlers : ~Working(k, t)'
        BY <1>3, <2>5, <3>2 DEF Working
      <3>4. \A k \in Handlers : Busy(k, t)' => pc'[k] # "outer_nack"
        BY <1>3, <2>5 DEF OutcomeOf
      <3>5. Silent(t)'
        BY <1>1, <1>3, <2>5 DEF Silent, OutcomeOf
      <3> QED BY <1>1, <2>1, <3>2, <3>3, <3>4, <3>5 DEF OutcomeOf
    <2> QED BY <2>6, <2>7
  <1>7. CASE AckDone(h) \/ AckRetry(h) \/ DeadLetter(h) \/ OuterNack(h)
    <2>1. UNCHANGED queue /\ (InQueue(t)' <=> InQueue(t))
      BY <1>7 DEF AckDone, AckRetry, DeadLetter, OuterNack, Settle, InQueue
    <2>2. ~Busy(h, t)'
      <3>1. CASE pc'[h] = "idle"
        BY <3>1 DEF Busy
      <3>2. CASE ~Held(h) /\ UNCHANGED msg
        BY <1>5, <3>2 DEF Busy, Task
      <3> QED BY <1>7, <3>1, <3>2
              DEF AckDone, AckRetry, DeadLetter, OuterNack, Settle, Leave, Goto,
                  TypeInv, TypeOK
    <2>3. \A k \in Handlers : Busy(k, t)' => Busy(k, t) /\ pc'[k] = pc[k]
      BY <1>3, <2>2
    <2>4. CASE InDlq(t)' <=> InDlq(t)
      BY <1>1, <2>1, <2>3, <2>4, OutcomeFrame
    <2>5. CASE ~(InDlq(t)' <=> InDlq(t))
      <3>1. dlq' = dlq \cup {msg[h]}
        BY <1>7, <2>5 DEF AckDone, AckRetry, DeadLetter, OuterNack, Settle, InDlq
      <3>2. Task(h) = t
        BY <2>5, <3>1 DEF InDlq, Task
      <3>3. DeadLetter(h) /\ pc[h] = "except" /\ msg[h].retry >= MaxRetries
        BY <1>5, <1>7, <2>5, <3>2 DEF AckDone, AckRetry, DeadLetter, OuterNack, Settle, InDlq
      <3>4. Working(h, t)
        BY <1>5, <3>2, <3>3 DEF Working
      <3>5. /\ t \notin finished /\ ~InQueue(t) /\ sub[t] \notin DOMAIN SubmitNext
            /\ Reached("except", t)
            /\ runs[t] = MaxRetries + 1
            /\ \A k \in Handlers \ {h} : ~Working(k, t)
        <4>1. msg[h].retry \in 0..MaxRetries /\ runs[t] = msg[h].retry + 1
          BY <1>4, <3>4 DEF Message, TokenInv
        <4>2. runs[t] = MaxRetries + 1
          BY <3>3, <4>1
        <4> QED BY <3>3, <3>4, <4>2 DEF OutcomeOf, TokenInv, Present, Working
      <3>6. Tells(t, "failed", "error")
        BY <3>5 DEF Reached, Tells, CacheTells, EventTells
      <3>7. Tells(t, "failed", "error")'
        BY <1>1, <3>6, TellsFrame
      <3>8. \A k \in Handlers : ~Working(k, t)'
        BY <1>3, <2>2, <3>5 DEF Working
      <3>9. \A k \in Handlers : Busy(k, t)' => pc'[k] # "outer_nack"
        BY <2>3 DEF OutcomeOf
      <3>10. Silent(t)'
        BY <1>1, <2>3 DEF Silent, OutcomeOf
      <3> QED BY <1>1, <2>1, <3>5, <3>7, <3>8, <3>9, <3>10 DEF OutcomeOf
    <2> QED BY <2>4, <2>5
  <1> QED BY <1>6, <1>7 DEF SettleStep

-----------------------------------------------------------------------------
\* A submit that is not over has nothing delivered yet.
LEMMA SubmitOutcome ==
    ASSUME TypeInv, NEW k \in Tasks, Submit(k), NEW t \in Tasks, TokenInv(t), OutcomeOf(t)
    PROVE  OutcomeOf(t)'
  <1> DEFINE m == [task |-> k, retry |-> 0]
  <1>1. /\ UNCHANGED <<dlq, pc, msg, events, runs, finished>>
        /\ InDlq(t)' <=> InDlq(t)
        /\ \A h \in Handlers : Busy(h, t)' <=> Busy(h, t)
    BY DEF Submit, history, InDlq, Busy, Task
  <1>2. CASE k # t
    <2>1. db'[t] = db[t] /\ cache'[t] = cache[t] /\ sub'[t] = sub[t]
      BY <1>2 DEF Submit, TypeInv, TypeOK
    <2>2. m \in Message /\ m.task # t /\ (queue' = queue \/ queue' = [queue EXCEPT ![m] = @ + 1])
      BY <1>2 DEF Submit, Message
    <2> HIDE DEF m
    <2>3. InQueue(t)' => InQueue(t)
      BY <2>2 DEF InQueue, TypeInv, TypeOK
    <2> QED BY <1>1, <2>1, <2>3, OutcomeFrame
  <1>3. CASE k = t
    <2>1. /\ t \notin finished /\ ~InDlq(t)
          /\ \A h \in Handlers : ~Busy(h, t)
      BY <1>3 DEF Submit, OutcomeOf, TokenInv, Present
    <2> QED BY <1>1, <2>1 DEF OutcomeOf, Silent, Working
  <1> QED BY <1>2, <1>3

\* A delivered task has no outcome yet.
LEMMA DeliveryOutcome ==
    ASSUME TypeInv, NEW h \in Handlers, NEW m \in Message, OnMessage(h, m),
           NEW t \in Tasks, TokenInv(t), OutcomeOf(t)
    PROVE  OutcomeOf(t)'
  <1> USE DEF apiVars, redisVars
  <1>1. /\ UNCHANGED <<sub, db, cache, events, dlq, finished>>
        /\ InDlq(t)' <=> InDlq(t)
        /\ Task(h)' = m.task /\ pc'[h] = "load"
        /\ \A k \in Handlers \ {h} : pc'[k] = pc[k] /\ Task(k)' = Task(k)
    BY DEF OnMessage, Goto, Task, InDlq, TypeInv, TypeOK
  <1>2. InQueue(t)' => InQueue(t)
    BY DEF OnMessage, InQueue, TypeInv, TypeOK
  <1>3. \A k \in Handlers \ {h} : Busy(k, t)' => Busy(k, t) /\ pc'[k] = pc[k]
    BY <1>1 DEF Busy
  <1>4. CASE m.task # t
    <2>1. runs'[t] = runs[t] /\ ~Busy(h, t)'
      BY <1>1, <1>4 DEF OnMessage, Busy, TypeInv, TypeOK
    <2> QED BY <1>1, <1>2, <1>3, <2>1, OutcomeFrame
  <1>5. CASE m.task = t
    <2>1. InQueue(t)
      BY <1>5 DEF OnMessage, InQueue
    <2>2. t \notin finished /\ ~InDlq(t) /\ \A k \in Handlers : ~Working(k, t)
      BY <2>1 DEF OutcomeOf, TokenInv
    <2>3. \A k \in Handlers : Working(k, t)' => pc'[k] = "load"
      BY <1>1, <1>3, <2>2 DEF Working
    <2>4. \A k \in Handlers : Busy(k, t)' => pc'[k] # "outer_nack"
      BY <1>1, <1>3 DEF OutcomeOf
    <2>5. Silent(t)'
      BY <1>1, <1>3 DEF Silent, OutcomeOf
    <2>6. \A k \in Handlers : Working(k, t)' => Reached(pc[k], t)'
      BY <2>3 DEF Reached, Arrived, PastCommit
    <2> QED BY <1>1, <2>2, <2>3, <2>4, <2>5, <2>6 DEF OutcomeOf
  <1> QED BY <1>4, <1>5

\* What the broker loses of other tasks, and time, tell nothing about t.
LEMMA OtherOutcome ==
    ASSUME TypeInv, NEW t \in Tasks \ (redelivered' \cup aged'), OutcomeOf(t),
           \/ \E k \in Tasks : CacheExpire(k) \/ Age(k)
           \/ \E w \in Workers : ConnectionLost(w) \/ WorkerCrash(w)
           \/ \E p \in Pollers : PollerStep(p)
           \/ CleanupLoop \/ UNCHANGED vars
    PROVE  OutcomeOf(t)'
  <1> USE DEF apiVars, redisVars, brokerVars, history
  <1>1. ASSUME UNCHANGED <<sub, queue, dlq, pc, msg, events, runs, finished>>,
               db'[t] = db[t], Pollers # {} \/ cache'[t] \in {cache[t], "miss"}
        PROVE  OutcomeOf(t)'
    <2>1. /\ InDlq(t)' <=> InDlq(t)
          /\ InQueue(t)' <=> InQueue(t)
          /\ \A k \in Handlers : Busy(k, t)' <=> Busy(k, t)
      BY <1>1 DEF InDlq, InQueue, Busy, Task
    <2> QED BY <1>1, <2>1, OutcomeFrame
  <1>2. CASE \E k \in Tasks : CacheExpire(k) \/ Age(k)
    BY <1>1, <1>2 DEF CacheExpire, Age, TypeInv, TypeOK
  <1>3. CASE \E p \in Pollers : PollerStep(p)
    BY <1>1, <1>3 DEF PollerStep, PollMiss, PollRead, PollFill, PollAbort, PollStep
  <1>4. CASE CleanupLoop
    BY <1>1, <1>4 DEF CleanupLoop, TypeInv, TypeOK
  <1>5. CASE UNCHANGED vars
    BY <1>1, <1>5 DEF vars
  <1>6. ASSUME NEW w \in Workers, ConnectionLost(w) \/ WorkerCrash(w) PROVE OutcomeOf(t)'
    <2>1. /\ UNCHANGED <<sub, db, cache, events, dlq, runs, finished>>
          /\ InDlq(t)' <=> InDlq(t)
      BY <1>6 DEF ConnectionLost, WorkerCrash, InDlq
    <2>2. \A k \in Handlers : pc'[k] = "idle" \/ (pc'[k] = pc[k] /\ msg'[k] = msg[k])
      BY <1>6 DEF ConnectionLost, WorkerCrash
    <2>3. \A k \in Handlers : Busy(k, t)' => Busy(k, t) /\ pc'[k] = pc[k]
      BY <2>2 DEF Busy, Task
    <2>4. InQueue(t)' => InQueue(t)
      <3>1. CASE unacked[w] = None
        BY <1>6, <3>1 DEF ConnectionLost, WorkerCrash, Requeue, InQueue
      <3>2. CASE unacked[w] # None
        <4>1. /\ queue' = [queue EXCEPT ![msg[unacked[w]]] = @ + 1]
              /\ msg[unacked[w]].task # t
          BY <1>6, <3>2 DEF ConnectionLost, WorkerCrash, Requeue, Task
        <4> QED BY <4>1 DEF InQueue, TypeInv, TypeOK
      <3> QED BY <3>1, <3>2
    <2> QED BY <2>1, <2>3, <2>4, OutcomeFrame
  <1> QED BY <1>2, <1>3, <1>4, <1>5, <1>6

\* Every step keeps the outcome of the tasks without a lost delivery.
LEMMA OutcomeStep ==
    ASSUME TypeInv, RecordInv, AttemptInv, OutcomeInv, [Next]_vars
    PROVE  OutcomeInv'
  <1> SUFFICES ASSUME WorkOnly, NEW t \in Tasks \ (redelivered' \cup aged')
               PROVE  OutcomeOf(t)'
    BY DEF OutcomeInv, WorkOnly
  <1>1. t \in Tasks \ (redelivered \cup aged)
    BY RedeliveredGrows, OnlyGrows
  <1>2. TokenInv(t) /\ OutcomeOf(t)
    BY <1>1 DEF AttemptInv, OutcomeInv
  <1> QED BY <1>1, <1>2, ExecuteOutcome, SettleOutcome, SubmitOutcome, DeliveryOutcome,
             OtherOutcome DEF Next, HandlerStep

\* A task without a lost delivery is told one outcome.
THEOREM OutcomeCorrect == Spec => []OutcomeInv
  BY TypeCorrect, RecordCorrect, AttemptCorrect, OutcomeInit, OutcomeStep, PTL DEF Spec

(* Where only the work itself fails, row, cached status, last event and     *)
(* dead-letter queue of a settled task say the same, failed after exactly   *)
(* MAX_RETRIES + 1 attempts, unless a delivery of it was lost.              *)
THEOREM SettledOutcomeHolds == Spec => []SettledOutcome
  <1>1. TypeInv /\ KeptInv /\ OutcomeInv => SettledOutcome
    <2> SUFFICES ASSUME TypeInv, KeptInv, OutcomeInv, WorkOnly,
                        NEW t \in Tasks \ (redelivered \cup aged), Settled(t)
                 PROVE  \/ Tells(t, "completed", "complete") /\ ~InDlq(t)
                        \/ Tells(t, "failed", "error") /\ InDlq(t) /\ runs[t] = MaxRetries + 1
      BY DEF SettledOutcome
    <2>1. OutcomeOf(t) /\ Kept(t)
      BY DEF OutcomeInv, KeptInv, Settled
    <2>2. \A h \in Handlers : ~Carries(h, t)
      BY DEF Settled, Carries, Held, Busy, TypeInv, HandlersOK
    <2>3. InDlq(t) \/ t \in finished
      BY <2>1, <2>2 DEF Kept, Settled
    <2> QED BY <2>1, <2>3 DEF OutcomeOf
  <1> QED BY <1>1, TypeCorrect, KeptCorrect, OutcomeCorrect, PTL

-----------------------------------------------------------------------------
(***************************************************************************)
(* Finished, whatever raises.                                              *)
(***************************************************************************)

(* No token is left of a task an execute of which returned normally, but    *)
(* for the handler that is about to acknowledge it, and what the successful *)
(* path told of it stays.                                                   *)
DoneOf(t) ==
    /\ sub[t] \in DOMAIN SubmitNext \/ InQueue(t) => t \notin finished
    /\ \A h \in Handlers : Working(h, t) =>
         (t \in finished <=> pc[h] = "ack") /\ Arrived(pc[h], t)
    /\ t \in finished => Tells(t, "completed", "complete")
    /\ Silent(t)

DoneInv == \A t \in Tasks \ (redelivered \cup aged) : DoneOf(t)

\* At first nothing is finished.
LEMMA DoneInit == Init => DoneInv
  BY DEF Init, DoneInv, DoneOf, Silent, Working, Busy

(* A step that tells nothing new about t and moves none of its handlers     *)
(* keeps what it is told when it is finished.                               *)
LEMMA DoneFrame ==
    ASSUME NEW t \in Tasks, DoneOf(t),
           db'[t] = db[t], events'[t] = events[t],
           Pollers # {} \/ cache'[t] \in {cache[t], "miss"},
           t \in finished' <=> t \in finished,
           sub'[t] = sub[t] \/ sub'[t] \notin DOMAIN SubmitNext,
           InQueue(t)' => InQueue(t) \/ t \notin finished,
           \A k \in Handlers : Working(k, t)' => Working(k, t) /\ pc'[k] = pc[k],
           \A k \in Handlers : Busy(k, t)' =>
             Busy(k, t) /\ pc'[k] \in {pc[k], "ack_retry", "outer_nack"}
    PROVE  DoneOf(t)'
  <1>1. /\ \A point : Arrived(point, t) => Arrived(point, t)'
        /\ Tells(t, "completed", "complete") => Tells(t, "completed", "complete")'
    BY TellsFrame
  <1>2. Silent(t)'
    BY DEF DoneOf, Silent
  <1>3. \A k \in Handlers : Working(k, t)' =>
          (t \in finished' <=> pc'[k] = "ack") /\ Arrived(pc[k], t)'
    BY <1>1 DEF DoneOf
  <1>4. t \in finished' => Tells(t, "completed", "complete")'
    BY <1>1 DEF DoneOf
  <1>5. sub'[t] \in DOMAIN SubmitNext \/ InQueue(t)' => t \notin finished'
    BY DEF DoneOf
  <1> QED BY <1>2, <1>3, <1>4, <1>5 DEF DoneOf

\* A step of execute: only the last one finishes its task, and all is told by then.
LEMMA ExecuteDone ==
    ASSUME TypeInv, RecordInv, NEW h \in Handlers, ExecuteStep(h),
           NEW t \in Tasks \ aged, TokenInv(t), DoneOf(t)
    PROVE  DoneOf(t)'
  <1>1. /\ pc[h] \in ExecutePoints
        /\ UNCHANGED <<sub, queue, msg>>
        /\ finished' = (IF pc[h] = "hook_done" THEN finished \cup {Task(h)} ELSE finished)
    BY ExecuteFrame
  <1>2. PICK q \in WorkerPoints \ {"ack_retry", "outer_nack"} :
          Goto(h, q) /\ (q = "ack" => pc[h] = "hook_done")
    BY ExecuteFrame
  <1>3. /\ pc'[h] = q /\ \A k \in Handlers \ {h} : pc'[k] = pc[k]
        /\ \A k \in Handlers : Task(k)' = Task(k)
        /\ InQueue(t)' <=> InQueue(t)
    BY <1>1, <1>2 DEF Goto, Task, InQueue, TypeInv, TypeOK
  <1>4. CASE Task(h) # t
    <2>1. \A k \in Handlers : Busy(k, t)' => Busy(k, t) /\ pc'[k] = pc[k]
      BY <1>3, <1>4 DEF Busy
    <2>2. \A k \in Handlers : Working(k, t)' => Working(k, t) /\ pc'[k] = pc[k]
      BY <2>1 DEF Working
    <2> QED BY <1>1, <1>3, <1>4, <2>1, <2>2, ExecuteWrites, DoneFrame
  <1>5. CASE Task(h) = t
    <2>1. Working(h, t) /\ Busy(h, t) /\ pc[h] # "ack"
      BY <1>1, <1>5, PointsType DEF Working, Busy
    <2>2. /\ t \notin finished /\ ~InQueue(t) /\ Arrived(pc[h], t) /\ Silent(t)
          /\ sub[t] \notin DOMAIN SubmitNext
          /\ \A k \in Handlers \ {h} : ~Working(k, t)
      BY <2>1 DEF DoneOf, TokenInv, Present
    <2>3. /\ Arrived(pc[h], t)'
          /\ t \notin VoiceTasks =>
               events'[t] = <<>> /\ pc'[h] \notin {"send_complete", "send_error"}
      BY <1>5, <2>2, ArrivedNext
    <2>4. pc[h] = "hook_done" => pc'[h] = "ack"
      <3>1. After("hook_done", t) = "ack"
        BY DEF After, NextPoint
      <3>2. pc[h] = "hook_done" => Goto(h, After("hook_done", t))
        BY <1>5 DEF ExecuteStep, RepoGet, RepoUpdate, CacheSet, Compute, PublishEvent,
                    SendWebhook, Call
      <3> QED BY <3>1, <3>2 DEF Goto, TypeInv, TypeOK
    <2>5. t \in finished' <=> pc'[h] = "ack"
      BY <1>1, <1>2, <1>3, <1>5, <2>2, <2>4
    <2>6. \A k \in Handlers \ {h} : ~Working(k, t)'
      BY <1>3, <2>2 DEF Working, Busy
    <2>7. \A k \in Handlers : Working(k, t)' =>
            (t \in finished' <=> pc'[k] = "ack") /\ Arrived(pc[k], t)'
      <3> SUFFICES ASSUME NEW k \in Handlers, Working(k, t)'
                   PROVE  (t \in finished' <=> pc'[k] = "ack") /\ Arrived(pc[k], t)'
        OBVIOUS
      <3>1. k = h
        BY <2>6
      <3> QED BY <2>3, <2>5, <3>1
    <2>8. Silent(t)'
      <3>1. \A k \in Handlers \ {h} : Busy(k, t)' => Busy(k, t) /\ pc'[k] = pc[k]
        BY <1>3 DEF Busy
      <3> QED BY <2>2, <2>3, <3>1 DEF Silent
    <2>9. t \in finished' => Tells(t, "completed", "complete")'
      BY <2>3, <2>5 DEF Arrived, PastCommit, Tells, CacheTells, EventTells
    <2> QED BY <1>1, <1>3, <2>2, <2>7, <2>8, <2>9 DEF DoneOf
  <1> QED BY <1>4, <1>5

\* What process_message does with the delivery tells nothing, and a task that is
\* published again is not finished.
LEMMA SettleDone ==
    ASSUME TypeInv, NEW h \in Handlers, SettleStep(h), NEW t \in Tasks, TokenInv(t), DoneOf(t)
    PROVE  DoneOf(t)'
  <1> USE DEF apiVars, redisVars, brokerVars, history
  <1>1. /\ UNCHANGED <<sub, db, cache, events, finished>>
        /\ pc[h] \in {"ack", "except", "ack_retry", "outer_nack"}
    BY DEF SettleStep, AckDone, Republish, AckRetry, DeadLetter, OuterNack, Settle
  <1>2. \A k \in Handlers \ {h} : pc'[k] = pc[k] /\ msg'[k] = msg[k]
    BY DEF SettleStep, AckDone, Republish, AckRetry, DeadLetter, OuterNack, Settle,
           Leave, Goto, TypeInv, TypeOK
  <1>3. Task(h) = t => Busy(h, t) /\ Held(h)
    BY <1>1 DEF Busy, TokenInv
  <1>4. Busy(h, t)' => Busy(h, t) /\ pc'[h] \in {"ack_retry", "outer_nack"}
    <2>1. CASE Republish(h)
      BY <1>3, <2>1 DEF Republish, Goto, Busy, Task, TypeInv, TypeOK
    <2>2. CASE pc'[h] = "idle"
      BY <2>2 DEF Busy
    <2>3. CASE ~Held(h) /\ UNCHANGED msg
      BY <1>3, <2>3 DEF Busy, Task
    <2> QED BY <2>1, <2>2, <2>3
            DEF SettleStep, AckDone, AckRetry, DeadLetter, OuterNack, Settle, Leave, Goto,
                TypeInv, TypeOK
  <1>5. /\ \A k \in Handlers : Busy(k, t)' =>
             Busy(k, t) /\ pc'[k] \in {pc[k], "ack_retry", "outer_nack"}
        /\ \A k \in Handlers : Working(k, t)' => Working(k, t) /\ pc'[k] = pc[k]
    BY <1>2, <1>4 DEF Busy, Task, Working
  <1>6. InQueue(t)' => InQueue(t) \/ t \notin finished
    <2>1. CASE queue' = queue
      BY <2>1 DEF InQueue
    <2>2. CASE queue' # queue
      <3>1. pc[h] = "except" /\ msg[h] \in Message
        BY <1>1, <2>2, RunningHasMessage
        DEF SettleStep, AckDone, Republish, AckRetry, DeadLetter, OuterNack, Settle
      <3> DEFINE copy == [msg[h] EXCEPT !.retry = @ + 1]
      <3>2. copy.task = Task(h)
        BY <3>1 DEF Message, Task
      <3>3. queue' = [queue EXCEPT ![copy] = @ + 1]
        BY <2>2 DEF SettleStep, AckDone, Republish, AckRetry, DeadLetter, OuterNack, Settle
      <3> HIDE DEF copy
      <3>4. \A o \in Message : o # copy => queue'[o] = queue[o]
        BY <3>3 DEF TypeInv, TypeOK
      <3>5. CASE Task(h) = t
        BY <1>3, <3>1, <3>5 DEF DoneOf, Working
      <3>6. CASE Task(h) # t
        BY <3>2, <3>4, <3>6 DEF InQueue
      <3> QED BY <3>5, <3>6
    <2> QED BY <2>1, <2>2
  <1> QED BY <1>1, <1>5, <1>6, DoneFrame

\* A submit that is not over has nothing delivered yet.
LEMMA SubmitDone ==
    ASSUME TypeInv, NEW k \in Tasks, Submit(k), NEW t \in Tasks, TokenInv(t), DoneOf(t)
    PROVE  DoneOf(t)'
  <1> DEFINE m == [task |-> k, retry |-> 0]
  <1>1. /\ UNCHANGED <<pc, msg, events, finished>>
        /\ \A h \in Handlers : Busy(h, t)' <=> Busy(h, t)
        /\ \A h \in Handlers : Working(h, t)' <=> Working(h, t)
    BY DEF Submit, history, Busy, Task, Working
  <1>2. CASE k # t
    <2>1. db'[t] = db[t] /\ cache'[t] = cache[t] /\ sub'[t] = sub[t]
      BY <1>2 DEF Submit, TypeInv, TypeOK
    <2>2. m \in Message /\ m.task # t /\ (queue' = queue \/ queue' = [queue EXCEPT ![m] = @ + 1])
      BY <1>2 DEF Submit, Message
    <2> HIDE DEF m
    <2>3. InQueue(t)' => InQueue(t)
      BY <2>2 DEF InQueue, TypeInv, TypeOK
    <2> QED BY <1>1, <2>1, <2>3, DoneFrame
  <1>3. CASE k = t
    <2>1. t \notin finished /\ \A h \in Handlers : ~Busy(h, t)
      BY <1>3 DEF Submit, DoneOf, TokenInv, Present
    <2> QED BY <1>1, <2>1 DEF DoneOf, Silent, Working
  <1> QED BY <1>2, <1>3

\* A delivered task is not finished.
LEMMA DeliveryDone ==
    ASSUME TypeInv, NEW h \in Handlers, NEW m \in Message, OnMessage(h, m),
           NEW t \in Tasks, TokenInv(t), DoneOf(t)
    PROVE  DoneOf(t)'
  <1> USE DEF apiVars, redisVars
  <1>1. /\ UNCHANGED <<sub, db, cache, events, finished>>
        /\ Task(h)' = m.task /\ pc'[h] = "load"
        /\ \A k \in Handlers \ {h} : pc'[k] = pc[k] /\ Task(k)' = Task(k)
    BY DEF OnMessage, Goto, Task, TypeInv, TypeOK
  <1>2. InQueue(t)' => InQueue(t)
    BY DEF OnMessage, InQueue, TypeInv, TypeOK
  <1>3. \A k \in Handlers \ {h} : /\ Busy(k, t)' => Busy(k, t) /\ pc'[k] = pc[k]
                                  /\ Working(k, t)' => Working(k, t)
    BY <1>1 DEF Busy, Working
  <1>4. CASE m.task # t
    <2>1. ~Busy(h, t)' /\ ~Working(h, t)'
      BY <1>1, <1>4 DEF Busy, Working
    <2> QED BY <1>1, <1>2, <1>3, <2>1, DoneFrame
  <1>5. CASE m.task = t
    <2>1. InQueue(t)
      BY <1>5 DEF OnMessage, InQueue
    <2>2. t \notin finished /\ \A k \in Handlers : ~Working(k, t)
      BY <2>1 DEF DoneOf, TokenInv
    <2>3. \A k \in Handlers : Working(k, t)' => pc'[k] = "load"
      BY <1>1, <1>3, <2>2
    <2>4. Silent(t)'
      BY <1>1, <1>3 DEF Silent, DoneOf
    <2>5. \A k \in Handlers : Working(k, t)' => Arrived(pc[k], t)'
      BY <2>3 DEF Arrived, PastCommit
    <2> QED BY <1>1, <2>2, <2>3, <2>4, <2>5 DEF DoneOf
  <1> QED BY <1>4, <1>5

\* What the broker loses of other tasks, and time, tell nothing about t.
LEMMA OtherDone ==
    ASSUME TypeInv, NEW t \in Tasks \ (redelivered' \cup aged'), DoneOf(t),
           \/ \E k \in Tasks : CacheExpire(k) \/ Age(k)
           \/ \E w \in Workers : ConnectionLost(w) \/ WorkerCrash(w)
           \/ \E p \in Pollers : PollerStep(p)
           \/ CleanupLoop \/ UNCHANGED vars
    PROVE  DoneOf(t)'
  <1> USE DEF apiVars, redisVars, brokerVars, history
  <1>1. ASSUME UNCHANGED <<sub, queue, pc, msg, events, finished>>,
               db'[t] = db[t], Pollers # {} \/ cache'[t] \in {cache[t], "miss"}
        PROVE  DoneOf(t)'
    <2>1. /\ InQueue(t)' <=> InQueue(t)
          /\ \A k \in Handlers : Busy(k, t)' <=> Busy(k, t)
          /\ \A k \in Handlers : Working(k, t)' <=> Working(k, t)
      BY <1>1 DEF InQueue, Busy, Task, Working
    <2> QED BY <1>1, <2>1, DoneFrame
  <1>2. CASE \E k \in Tasks : CacheExpire(k) \/ Age(k)
    BY <1>1, <1>2 DEF CacheExpire, Age, TypeInv, TypeOK
  <1>3. CASE \E p \in Pollers : PollerStep(p)
    BY <1>1, <1>3 DEF PollerStep, PollMiss, PollRead, PollFill, PollAbort, PollStep
  <1>4. CASE CleanupLoop
    BY <1>1, <1>4 DEF CleanupLoop, TypeInv, TypeOK
  <1>5. CASE UNCHANGED vars
    BY <1>1, <1>5 DEF vars
  <1>6. ASSUME NEW w \in Workers, ConnectionLost(w) \/ WorkerCrash(w) PROVE DoneOf(t)'
    <2>1. UNCHANGED <<sub, db, cache, events, finished>>
      BY <1>6 DEF ConnectionLost, WorkerCrash
    <2>2. \A k \in Handlers : pc'[k] = "idle" \/ (pc'[k] = pc[k] /\ msg'[k] = msg[k])
      BY <1>6 DEF ConnectionLost, WorkerCrash
    <2>3. \A k \in Handlers : /\ Busy(k, t)' => Busy(k, t) /\ pc'[k] = pc[k]
                              /\ Working(k, t)' => Working(k, t) /\ pc'[k] = pc[k]
      BY <2>2 DEF Busy, Task, Working
    <2>4. InQueue(t)' => InQueue(t)
      <3>1. CASE unacked[w] = None
        BY <1>6, <3>1 DEF ConnectionLost, WorkerCrash, Requeue, InQueue
      <3>2. CASE unacked[w] # None
        <4>1. /\ queue' = [queue EXCEPT ![msg[unacked[w]]] = @ + 1]
              /\ msg[unacked[w]].task # t
          BY <1>6, <3>2 DEF ConnectionLost, WorkerCrash, Requeue, Task
        <4> QED BY <4>1 DEF InQueue, TypeInv, TypeOK
      <3> QED BY <3>1, <3>2
    <2> QED BY <2>1, <2>3, <2>4, DoneFrame
  <1> QED BY <1>2, <1>3, <1>4, <1>5, <1>6

\* Every step keeps what is told of a finished task without a lost delivery.
LEMMA DoneStep ==
    ASSUME TypeInv, RecordInv, AttemptInv, DoneInv, [Next]_vars
    PROVE  DoneInv'
  <1> SUFFICES ASSUME NEW t \in Tasks \ (redelivered' \cup aged')
               PROVE  DoneOf(t)'
    BY DEF DoneInv
  <1>1. t \in Tasks \ (redelivered \cup aged)
    BY RedeliveredGrows, OnlyGrows
  <1>2. TokenInv(t) /\ DoneOf(t)
    BY <1>1 DEF AttemptInv, DoneInv
  <1> QED BY <1>1, <1>2, ExecuteDone, SettleDone, SubmitDone, DeliveryDone, OtherDone
          DEF Next, HandlerStep

(* A task an execute of which returned normally is told completed for good, *)
(* whatever raises.                                                         *)
THEOREM DoneCorrect == Spec => []DoneInv
  BY TypeCorrect, RecordCorrect, AttemptCorrect, DoneInit, DoneStep, PTL DEF Spec

(* Once an execute of a task returned normally its row, cached status and   *)
(* last event say completed for good, and a settled task no execute of      *)
(* which returned is dead-lettered, whichever calls raise, unless a         *)
(* delivery of it was lost or retention is due.                             *)
THEOREM FinishedOrBuriedHolds == Spec => []FinishedOrBuried
  <1>1. TypeInv /\ KeptInv /\ DoneInv => FinishedOrBuried
    <2> SUFFICES ASSUME TypeInv, KeptInv, DoneInv, NEW t \in Tasks \ (redelivered \cup aged)
                 PROVE  /\ t \in finished => Tells(t, "completed", "complete")
                        /\ Settled(t) /\ t \notin finished => InDlq(t)
      BY DEF FinishedOrBuried
    <2>1. t \in finished => Tells(t, "completed", "complete")
      BY DEF DoneInv, DoneOf
    <2>2. ASSUME Settled(t), t \notin finished PROVE InDlq(t)
      <3>1. \A h \in Handlers : ~Carries(h, t)
        BY <2>2 DEF Settled, Carries, Held, Busy, TypeInv, HandlersOK
      <3>2. Kept(t)
        BY <2>2 DEF KeptInv, Settled
      <3> QED BY <2>2, <3>1, <3>2 DEF Kept, Settled
    <2> QED BY <2>1, <2>2
  <1> QED BY <1>1, TypeCorrect, KeptCorrect, DoneCorrect, PTL
=============================================================================
