----------------------------- MODULE TaskAnswers -----------------------------
(***************************************************************************)
(* What GET /tasks/{task_id} answers about one submitted task: the fields  *)
(* of the row and of the cache entry that take turns as its source, as     *)
(* executions, polls that fill the cache and the retention loop of the API *)
(* write them in between.                                                  *)
(*                                                                         *)
(* Execution number e transcribes, answers and fails with the value e;     *)
(* Null is SQL's NULL and a key that a cached dict lacks.                  *)
(***************************************************************************)
EXTENDS Integers

CONSTANTS
    Clients,      \* requests to GET /tasks/{task_id} that may overlap
    Kinds,        \* task types
    MaxRuns,      \* bound: executions of the task
    MaxFaults,    \* bound: calls that raise
    MaxLosses     \* bound: worker crashes and lost broker connections

ASSUME AnswersAssumption ==
    /\ "pipeline" \notin Clients
    /\ Kinds \subseteq {"voice", "text"}
    /\ {MaxRuns, MaxFaults, MaxLosses} \subseteq Nat

VARIABLES
    kind,         \* the task's type
    row,          \* its row
    cache,        \* its cache entry
    filler,       \* history: the client that filled the entry, or the pipeline
    runs,         \* executions begun
    at,           \* the point each execution has reached
    poll,         \* what each client's request is doing, with the row it read
    seen,         \* history: how far the task was in each client's last answer
    committed,    \* history: executions whose result was committed
    raised,       \* history: executions that entered their except block
    faults, losses

bounds == <<faults, losses>>
history == <<committed, raised>>
vars == <<kind, row, cache, filler, runs, at, poll, seen, history, bounds>>

Runs == 1..MaxRuns
Null == 0

-----------------------------------------------------------------------------
Blank(status) ==
    [status |-> status, transcript |-> Null, response |-> Null, error |-> Null]

Gone == Blank("gone")         \* no row
Missing == Blank("missing")   \* no cache entry

Transcript(e) == IF kind = "voice" THEN e ELSE Null

\* The columns or keys that execution e writes at a point, over data.
Written(point, e, data) ==
    CASE point \in {"mark_db", "mark_cache"} -> [data EXCEPT !.status = "processing"]
      [] point \in {"save_db", "save_cache"} ->
           [data EXCEPT !.status = "completed", !.transcript = Transcript(e), !.response = e]
      [] point \in {"fail_db", "fail_cache"} ->
           [data EXCEPT !.status = "failed", !.error = e]

\* UPDATE: the other columns stay; without a row, nothing.
RepoUpdate(e) == IF row = Gone THEN Gone ELSE Written(at[e], e, row)

\* SETEX of a dict: the whole entry is replaced.
CacheSet(e) == Written(at[e], e, Blank("pending"))

\* Defect: the fill has a key the answer does not look up.
FilledRenamed(data) ==
    [status |-> data.status, text |-> data.transcript,
     response |-> data.response, error |-> data.error]

\* Defect: the fill leaves the response out.
FilledWithoutResponse(data) == [data EXCEPT !.response = Null]

\* The dict a poll puts into the cache from the row it read.
Filled(data) ==
    [status |-> data.status, transcript |-> data.transcript,
     response |-> data.response, error |-> data.error]

\* Defect: the cache says processing before the row does.
NextPointCacheFirst(point) ==
    [load |-> "mark_cache", mark_cache |-> "mark_db", mark_db |-> "work",
     work |-> "save_db", save_db |-> "save_cache", save_cache |-> "done",
     fail_db |-> "fail_cache", fail_cache |-> "failed"][point]

\* The awaits of execute, in order, and those of its except block.
NextPoint(point) ==
    [load |-> "mark_db", mark_db |-> "mark_cache", mark_cache |-> "work",
     work |-> "save_db", save_db |-> "save_cache", save_cache |-> "done",
     fail_db |-> "fail_cache", fail_cache |-> "failed"][point]

Points == {"load", "mark_db", "mark_cache", "work", "save_db", "save_cache",
           "fail_db", "fail_cache"}

\* The try block begins after the row and the cache say processing.
OnRaise(point) ==
    IF point \in {"work", "save_db", "save_cache"} THEN "fail_db" ELSE "failed"

-----------------------------------------------------------------------------
\* submit has returned: row and cache say pending.
Init ==
    /\ kind \in Kinds
    /\ row = Blank("pending") /\ cache = Blank("pending") /\ filler = "pipeline"
    /\ runs = 0 /\ at = [e \in Runs |-> "idle"]
    /\ poll = [c \in Clients |-> [at |-> "idle", snap |-> Missing]]
    /\ seen = [c \in Clients |-> 0]
    /\ committed = {} /\ raised = {}
    /\ faults = 0 /\ losses = 0

\* A delivery reaches a worker: the first, the retry of a failed execution, or,
\* after a lost connection, one that overlaps with the execution before it.
Begin ==
    /\ runs < MaxRuns
    /\ runs' = runs + 1
    /\ at' = [at EXCEPT ![runs + 1] = "load"]
    /\ losses' = IF runs = 0 \/ at[runs] \in {"failed", "crashed"} THEN losses ELSE losses + 1
    /\ losses' <= MaxLosses
    /\ UNCHANGED <<kind, row, cache, filler, poll, seen, history, faults>>

\* One await of execution e, which takes effect, raises, or both.
Call(e, effect, raises) ==
    LET point == at[e] IN
    /\ effect \/ raises
    /\ at' = [at EXCEPT ![e] = IF raises THEN OnRaise(point) ELSE NextPoint(point)]
    /\ raised' = IF at'[e] = "fail_db" THEN raised \cup {e} ELSE raised
    /\ faults' = IF raises THEN faults + 1 ELSE faults
    /\ faults' <= MaxFaults
    /\ UNCHANGED <<kind, runs, poll, seen, losses>>

Load(e) ==
    /\ at[e] = "load"
    /\ IF row = Gone
       THEN /\ at' = [at EXCEPT ![e] = "failed"]
            /\ UNCHANGED <<kind, runs, poll, seen, bounds, raised>>
       ELSE \E raises \in BOOLEAN : Call(e, TRUE, raises)
    /\ UNCHANGED <<row, cache, filler, committed>>

\* Storage, speech recognition, language model, speech synthesis, events.
Work(e) ==
    /\ at[e] = "work"
    /\ \E raises \in BOOLEAN : Call(e, TRUE, raises)
    /\ UNCHANGED <<row, cache, filler, committed>>

WriteRow(e) ==
    /\ at[e] \in {"mark_db", "save_db", "fail_db"}
    /\ \E effect, raises \in BOOLEAN :
         /\ Call(e, effect, raises)
         /\ row' = IF effect THEN RepoUpdate(e) ELSE row
         /\ committed' = IF effect /\ at[e] = "save_db" THEN committed \cup {e} ELSE committed
    /\ UNCHANGED <<cache, filler>>

\* cache.set, with the event published after it.
WriteCache(e) ==
    /\ at[e] \in {"mark_cache", "save_cache", "fail_cache"}
    /\ \E effect, raises \in BOOLEAN :
         /\ Call(e, effect, raises)
         /\ cache' = IF effect THEN CacheSet(e) ELSE cache
         /\ filler' = IF effect THEN "pipeline" ELSE filler
    /\ UNCHANGED <<row, committed>>

Crash(e) ==
    /\ at[e] \in Points
    /\ losses < MaxLosses
    /\ losses' = losses + 1
    /\ at' = [at EXCEPT ![e] = "crashed"]
    /\ UNCHANGED <<kind, row, cache, filler, runs, poll, seen, history,
                   faults>>

-----------------------------------------------------------------------------
(***************************************************************************)
(* The poll endpoint: cache-aside with one dict per answer.                *)
(***************************************************************************)
pipeline == <<kind, row, runs, at, history, bounds>>

\* How far a task with this status is; both outcomes are the end.
Rank(status) ==
    CASE status = "pending" -> 0 [] status = "processing" -> 1 [] OTHER -> 2

Idle(c) == poll' = [poll EXCEPT ![c] = [at |-> "idle", snap |-> Missing]]
Answer(c, data) == seen' = [seen EXCEPT ![c] = Rank(data.status)]

Hit(c) ==
    /\ poll[c].at = "idle" /\ cache # Missing
    /\ Answer(c, cache)
    /\ UNCHANGED <<pipeline, cache, filler, poll>>

Miss(c) ==
    /\ poll[c].at = "idle" /\ cache = Missing
    /\ poll' = [poll EXCEPT ![c].at = "read"]
    /\ UNCHANGED <<pipeline, cache, filler, seen>>

\* Read the row; 404 without one.
Read(c) ==
    /\ poll[c].at = "read"
    /\ IF row = Gone THEN Idle(c)
       ELSE poll' = [poll EXCEPT ![c] = [at |-> "fill", snap |-> row]]
    /\ UNCHANGED <<pipeline, cache, filler, seen>>

\* Fill the cache from what was read, and answer unless that call raises.
Fill(c) ==
    /\ poll[c].at = "fill"
    /\ cache' = Filled(poll[c].snap)
    /\ filler' = c
    /\ Answer(c, poll[c].snap) \/ UNCHANGED seen
    /\ Idle(c)
    /\ UNCHANGED pipeline

\* The client goes away or a call raises before it took effect.
Abort(c) ==
    /\ poll[c].at # "idle"
    /\ Idle(c)
    /\ UNCHANGED <<pipeline, cache, filler, seen>>

\* Defect: a result never leaves the cache.
CacheExpireUnfinished ==
    /\ cache \notin {Missing} /\ cache.status # "completed"
    /\ cache' = Missing
    /\ UNCHANGED <<pipeline, filler, poll, seen>>

CacheExpire ==
    /\ cache # Missing
    /\ cache' = Missing
    /\ UNCHANGED <<pipeline, filler, poll, seen>>

\* _cleanup_loop: the task is older than the retention period and finished.
DeleteOld ==
    /\ row.status \in {"completed", "failed"}
    /\ row' = Gone
    /\ UNCHANGED <<kind, runs, at, history, bounds, cache, filler, poll, seen>>

-----------------------------------------------------------------------------
Next ==
    \/ Begin \/ CacheExpire \/ DeleteOld
    \/ \E e \in Runs : Load(e) \/ Work(e) \/ WriteRow(e) \/ WriteCache(e) \/ Crash(e)
    \/ \E c \in Clients : Hit(c) \/ Miss(c) \/ Read(c) \/ Fill(c) \/ Abort(c)

Spec == Init /\ [][Next]_vars

\* Redis expires what is not written again.
FairSpec == Spec /\ WF_vars(CacheExpire)

-----------------------------------------------------------------------------
Statuses == {"pending", "processing", "completed", "failed"}
Value == Runs \cup {Null}
Data == [status : Statuses, transcript : Value, response : Value, error : Value]

\* Every variable has its type.
TypeOK ==
    /\ kind \in Kinds
    /\ row \in Data \cup {Gone}
    /\ cache \in Data \cup {Missing}
    /\ filler \in Clients \cup {"pipeline"}
    /\ runs \in 0..MaxRuns
    /\ at \in [Runs -> Points \cup {"idle", "done", "failed", "crashed"}]
    /\ poll \in [Clients -> [at : {"idle", "read"}, snap : {Missing}]
                            \cup [at : {"fill"}, snap : Data]]
    /\ seen \in [Clients -> 0..2]
    /\ committed \subseteq Runs /\ raised \subseteq Runs
    /\ faults \in 0..MaxFaults /\ losses \in 0..MaxLosses

\* What an answer may be assembled from at this moment.
Sources == {cache} \cup {poll[c].snap : c \in Clients}

\* One execution stands behind the fields of data.
Whole(data) ==
    /\ data.status = "completed" =>
         /\ data.response \in committed
         /\ data.transcript = Transcript(data.response)
         /\ data.error \in (raised \ {data.response}) \cup {Null}
    /\ data.status = "failed" => data.error \in raised

(* An answer is the work of one execution: completed comes with the         *)
(* response and, for a voice task, the transcript that the same execution   *)
(* committed; failed comes with the error of an execution that did fail.    *)
(* The error that a retried task keeps in its row (the update of execute    *)
(* does not clear it) is then never that of the execution that answered.    *)
(* It holds for cached and uncached answers, however executions overlap.    *)
AnswersAreWhole == \A data \in Sources : Whole(data)

(* While a task is executed for the first time, no client sees it go back   *)
(* from an outcome to processing or from processing to pending, unless the  *)
(* cache entry it hits was filled by the late poll of another client: row   *)
(* before cache in execute and submit is what this rests on (get_task).     *)
NeverBack ==
    [][\A c \in Clients :
        runs <= 1 => seen'[c] >= seen[c] \/ filler \in Clients \ {c}]_vars

\* The cache says what the row says, as far as an answer goes.
Agrees ==
    \/ cache = Missing
    \/ /\ row # Gone
       /\ cache.status = row.status
       /\ row.status = "completed" =>
            cache.response = row.response /\ cache.transcript = row.transcript

(* In the end no stale answer is left: whatever fills, overlaps, crashes    *)
(* and deletions leave in the cache, it comes to agree with the row, or to  *)
(* be absent, for good (RedisCache's ttl; get_task's fill).                 *)
AnswersSettle == <>[]Agrees
=============================================================================
