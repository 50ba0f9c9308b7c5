---------------------------- MODULE EventStream ----------------------------
(***************************************************************************)
(* The event stream of one voice task: the executions that publish to it   *)
(* (publish_event is an XADD followed by an EXPIRE), the Redis stream that *)
(* trims and expires, and the SSE readers that replay it with XREAD until  *)
(* a terminal event or their deadline (iter_events).  Executions follow    *)
(* each other here; TaskPipeline is about the ones that overlap.           *)
(*                                                                         *)
(* An entry's id is its position in log, the history of all appends; the   *)
(* stream holds the entries from first on.  Time is counted in ticks, of   *)
(* which TicksPerMs make the millisecond that Redis counts in.             *)
(***************************************************************************)
EXTENDS Integers, Sequences, FiniteSets

CONSTANTS
    Readers,      \* concurrent SSE requests
    MaxRetries,   \* MAX_RETRIES of the worker
    MaxChunks,    \* bound: audio chunks of an execution
    MaxLen,       \* STREAM_MAXLEN
    Count,        \* entries an XREAD returns at most
    Timeout,      \* timeout_s of a reader, in ticks
    BlockMax,     \* the longest block of an XREAD, in milliseconds
    TicksPerMs,   \* ticks in a millisecond
    MaxFaults,    \* bound: calls and computations that raise
    MaxCrashes    \* bound: crashes of the worker

ASSUME StreamAssumption ==
    /\ MaxRetries \in Nat /\ MaxChunks \in Nat /\ MaxFaults \in Nat /\ MaxCrashes \in Nat
    /\ MaxLen \in Nat \ {0} /\ Count \in Nat \ {0} /\ Timeout \in Nat \ {0}
    /\ BlockMax \in Nat \ {0} /\ TicksPerMs \in Nat \ {0}

VARIABLES
    log,       \* every entry ever appended: its type and the execution it is of
    first,     \* the oldest id the stream still holds, Len(log) + 1 if it is gone
    ttl,       \* whether the key has a time to live
    expired,   \* history: the last id that went with an expired key
    stage,     \* "start", then the event the execution publishes next
    adding,    \* whether publish_event is at its XADD or at its EXPIRE
    run,       \* the number of the current execution
    retry,     \* its x-retry-count
    chunks,    \* audio chunks the current execution has published
    at,        \* where each reader is in iter_events
    last,      \* its last_id
    batch,     \* the end of the entries its last XREAD returned
    got,       \* the ids it has sent to the client
    begin,     \* history: first when it connected
    left,      \* ticks until its deadline
    timer,     \* ticks until its XREAD times out
    faults, crashes

streamVars == <<log, first, ttl, expired>>
writerVars == <<stage, adding, run, retry, chunks>>
readerVars == <<at, last, batch, got, begin, left, timer>>
vars == <<streamVars, writerVars, readerVars, faults, crashes>>

EventType == {"transcript", "audio_chunk", "complete", "error"}

\* Defect: only the complete event ends a stream.
IsTerminalComplete(type) == type = "complete"

IsTerminal(type) == type \in {"complete", "error"}

Forever == -1

Smaller(a, b) == IF a < b THEN a ELSE b
Larger(a, b)  == IF a < b THEN b ELSE a

-----------------------------------------------------------------------------
Init ==
    /\ log = <<>> /\ first = 1 /\ ttl = FALSE /\ expired = 0
    /\ stage = "start" /\ adding = "xadd" /\ run = 1 /\ retry = 0 /\ chunks = 0
    /\ at = [r \in Readers |-> "idle"]
    /\ last = [r \in Readers |-> 0]
    /\ batch = [r \in Readers |-> 0]
    /\ got = [r \in Readers |-> {}]
    /\ begin = [r \in Readers |-> 0]
    /\ left = [r \in Readers |-> 0]
    /\ timer = [r \in Readers |-> 0]
    /\ faults = 0 /\ crashes = 0

-----------------------------------------------------------------------------
(***************************************************************************)
(* The worker: executions of the task, one after another.                  *)
(***************************************************************************)
\* The execution ends and nothing follows it.
Stop == stage' = "done" /\ adding' = "xadd" /\ chunks' = 0 /\ UNCHANGED <<run, retry>>

\* The same message again, from the start.
Again == stage' = "start" /\ adding' = "xadd" /\ chunks' = 0 /\ run' = run + 1

\* Defect: nothing counts the retries.
RetryUncounted == Again /\ retry' = retry + 1

\* The execution raised: published again while its header allows it, else, or
\* when the publication raises, dead-lettered.
Retry ==
    \/ retry < MaxRetries /\ Again /\ retry' = retry + 1
    \/ Stop

\* An exception: past the try, into the except block, or out of it.
Raise ==
    IF stage \in {"start", "error"} THEN Retry
    ELSE /\ stage' = "error" /\ adding' = "xadd"
         /\ UNCHANGED <<run, retry, chunks>>

\* The event was published: what the execution does next.
Proceed ==
    \/ /\ stage \in {"transcript", "audio_chunk"}
       /\ \/ chunks < MaxChunks /\ stage' = "audio_chunk" /\ chunks' = chunks + 1
          \/ stage' = "complete" /\ UNCHANGED chunks
       /\ adding' = "xadd"
       /\ UNCHANGED <<run, retry>>
    \/ stage = "complete" /\ Stop
    \/ stage = "error" /\ Retry

\* XADD ... MAXLEN ~ n trims whole nodes: it keeps at least the n newest.
Added(type) ==
    /\ log' = Append(log, [type |-> type, run |-> run])
    /\ first' \in first..Larger(first, Len(log) + 2 - MaxLen)

Fault == faults < MaxFaults /\ faults' = faults + 1

\* The row is read and marked processing, before the try.
Begin ==
    /\ stage = "start"
    /\ stage' = "transcript"
    /\ UNCHANGED <<streamVars, adding, run, retry, chunks, readerVars, faults, crashes>>

Xadd ==
    /\ stage \in EventType
    /\ adding = "xadd"
    /\ \/ /\ Added(stage)
          /\ adding' = "expire"
          /\ UNCHANGED <<stage, run, retry, chunks, faults>>
       \/ Fault /\ Added(stage) /\ Raise
       \/ Fault /\ UNCHANGED <<log, first>> /\ Raise
    /\ UNCHANGED <<ttl, expired, readerVars, crashes>>

\* EXPIRE key STREAM_TTL.
Expire ==
    /\ adding = "expire"
    /\ \/ ttl' = (first <= Len(log)) /\ Proceed /\ UNCHANGED faults
       \/ Fault /\ ttl' \in {ttl, first <= Len(log)} /\ Raise
    /\ UNCHANGED <<log, first, expired, readerVars, crashes>>

\* A call between two events raises: row, cache, storage or a model.
WorkFails ==
    /\ stage # "done"
    /\ adding = "xadd"
    /\ Fault
    /\ Raise
    /\ UNCHANGED <<streamVars, readerVars, crashes>>

\* The worker dies and the broker delivers the message again, its header
\* unchanged.
WorkerCrash ==
    /\ stage # "done"
    /\ crashes < MaxCrashes
    /\ crashes' = crashes + 1
    /\ Again
    /\ UNCHANGED <<retry, streamVars, readerVars, faults>>

-----------------------------------------------------------------------------
(***************************************************************************)
(* Readers.                                                                *)
(***************************************************************************)
Open(r) == at[r] \notin {"idle", "ended"}

Goto(r, p) == at' = [at EXCEPT ![r] = p]

\* Defect: the reader starts at the end of the stream.
StartAtEnd == Len(log)

\* last_id = "0-0"
Start == 0

Connect(r) ==
    /\ at[r] = "idle"
    /\ Goto(r, "loop")
    /\ last' = [last EXCEPT ![r] = Start]
    /\ left' = [left EXCEPT ![r] = Timeout]
    /\ begin' = [begin EXCEPT ![r] = first]
    /\ UNCHANGED <<streamVars, writerVars, batch, got, timer, faults, crashes>>

\* The top of the loop: the deadline, then XREAD with what is left of it as
\* its block, in whole milliseconds.  BLOCK 0 blocks without a timeout.
Loop(r) ==
    /\ at[r] = "loop"
    /\ IF left[r] = 0
       THEN Goto(r, "ended") /\ UNCHANGED timer
       ELSE LET block == Smaller(BlockMax, left[r] \div TicksPerMs) IN
            /\ Goto(r, "waiting")
            /\ timer' = [timer EXCEPT ![r] = IF block = 0 THEN Forever
                                             ELSE block * TicksPerMs]
    /\ UNCHANGED <<streamVars, writerVars, last, batch, got, begin, left, faults, crashes>>

\* Defect: last_id is not advanced, each XREAD starts from the beginning.
NextHeldAgain(r) == first

\* The oldest entry after last_id that the stream holds or will hold.
NextHeld(r) == Larger(first, last[r] + 1)

\* XREAD answers with the oldest entries after last_id.
Answer(r) ==
    /\ at[r] = "waiting"
    /\ LET from == NextHeld(r) IN
       /\ from <= Len(log)
       /\ batch' = [batch EXCEPT ![r] = Smaller(from + Count - 1, Len(log))]
       /\ last' = [last EXCEPT ![r] = from - 1]
    /\ Goto(r, "yielding")
    /\ UNCHANGED <<streamVars, writerVars, got, begin, left, timer, faults, crashes>>

\* XREAD times out: nothing to send, once more around the loop.
NoAnswer(r) ==
    /\ at[r] = "waiting"
    /\ timer[r] = 0
    /\ Goto(r, "loop")
    /\ UNCHANGED <<streamVars, writerVars, last, batch, got, begin, left, timer, faults, crashes>>

\* Send the next entry of the batch to the client.
Yield(r) ==
    /\ at[r] = "yielding"
    /\ LET id == last[r] + 1 IN
       /\ last' = [last EXCEPT ![r] = id]
       /\ got' = [got EXCEPT ![r] = @ \cup {id}]
       /\ Goto(r, IF IsTerminal(log[id].type) THEN "ended"
                  ELSE IF id = batch[r] THEN "loop" ELSE "yielding")
    /\ UNCHANGED <<streamVars, writerVars, batch, begin, left, timer, faults, crashes>>

\* The client disconnects, or XREAD raises and the stream is interrupted.
Disconnect(r) ==
    /\ Open(r)
    /\ Goto(r, "ended")
    /\ UNCHANGED <<streamVars, writerVars, last, batch, got, begin, left, timer, faults, crashes>>

-----------------------------------------------------------------------------
(***************************************************************************)
(* Time.  An hour may pass between any two steps: how STREAM_TTL compares  *)
(* with a reader's timeout is left open.                                   *)
(***************************************************************************)
KeyExpires ==
    /\ ttl
    /\ first' = Len(log) + 1
    /\ ttl' = FALSE
    /\ expired' = Len(log)
    /\ UNCHANGED <<log, writerVars, readerVars, faults, crashes>>

\* No time passes at the top of the loop: iter_events awaits nothing between
\* taking the time and sending XREAD.
Tick ==
    /\ \E r \in Readers : Open(r) /\ left[r] > 0
    /\ \A r \in Readers : at[r] # "loop"
    /\ left' = [r \in Readers |-> Larger(0, left[r] - 1)]
    /\ timer' = [r \in Readers |-> IF timer[r] > 0 THEN timer[r] - 1 ELSE timer[r]]
    /\ UNCHANGED <<streamVars, writerVars, at, last, batch, got, begin, faults, crashes>>

-----------------------------------------------------------------------------
Execution == Begin \/ Xadd \/ Expire \/ WorkFails

ReaderStep(r) == Loop(r) \/ Answer(r) \/ NoAnswer(r) \/ Yield(r)

Next ==
    \/ Execution \/ WorkerCrash \/ KeyExpires \/ Tick
    \/ \E r \in Readers : Connect(r) \/ ReaderStep(r) \/ Disconnect(r)

Spec == Init /\ [][Next]_vars

\* Executions go on, time passes, Redis answers and clients keep reading.
Fairness ==
    /\ WF_vars(Execution)
    /\ WF_vars(Tick)
    /\ \A r \in Readers : WF_vars(ReaderStep(r))

FairSpec == Spec /\ Fairness

-----------------------------------------------------------------------------
\* Every variable has its type.
TypeOK ==
    /\ log \in Seq([type : EventType, run : Nat])
    /\ first \in 1..Len(log) + 1
    /\ ttl \in BOOLEAN
    /\ expired \in 0..Len(log)
    /\ stage \in EventType \cup {"start", "done"}
    /\ adding \in {"xadd", "expire"}
    /\ run \in Nat \ {0} /\ retry \in 0..MaxRetries /\ chunks \in 0..MaxChunks
    /\ at \in [Readers -> {"idle", "loop", "waiting", "yielding", "ended"}]
    /\ last \in [Readers -> 0..Len(log)]
    /\ batch \in [Readers -> 0..Len(log)]
    /\ got \in [Readers -> SUBSET (1..Len(log))]
    /\ begin \in [Readers -> 0..Len(log) + 1]
    /\ left \in [Readers -> 0..Timeout]
    /\ timer \in [Readers -> Forever..BlockMax * TicksPerMs]
    /\ faults \in 0..MaxFaults /\ crashes \in 0..MaxCrashes

(* A reader misses nothing the stream held when it connected or received    *)
(* since, except entries that at least MAXLEN newer ones pushed out, or     *)
(* that went with an expired key: replay and live events join without a gap *)
(* whatever the batches and however slow the client (iter_events).          *)
ReplayHasNoGap ==
    \A r \in Readers : at[r] # "idle" =>
        \A i \in begin[r]..last[r] :
            i \in got[r] \/ i <= expired \/ i + MaxLen <= Len(log)

\* An entry that ends a stream, and a stream that has lost no entry.
EndEvent(i) == log[i].type \in {"complete", "error"}
Whole == expired = 0 /\ Len(log) <= MaxLen

(* A client sees the events of one execution only, although a retry appends *)
(* to the same stream: the error event of the failed execution ends its SSE *)
(* stream, also when it connects late - as long as that event was appended. *)
(* (publish_event in execute's except block, the return of iter_events.)    *)
OneExecutionPerReader ==
    \A r \in Readers : \A i, j \in got[r] :
        log[i].run < log[j].run /\ Whole
        => ~ \E k \in 1..Len(log) : log[k].run = log[i].run /\ EndEvent(k)

(* A reader with a terminal event ahead of it ends, however many entries    *)
(* come before it and even when it waits in an XREAD without a timeout,     *)
(* unless the stream loses entries before it reads them (iter_events).      *)
TerminalEndsReaders ==
    \A r \in Readers :
        /\ Open(r)
        /\ \E i \in Larger(first, last[r] + 1)..Len(log) : EndEvent(i)
        ~> at[r] = "ended" \/ ~Whole

\* The stream as its clients see it: the types of its entries, and where they are.
Shown == [i \in DOMAIN log |-> log[i].type]
Mode == [r \in Readers |-> CASE at[r] = "idle"  -> "away"
                              [] at[r] = "ended" -> "over"
                              [] Open(r)         -> "reading"]

Feed == INSTANCE EventFeed WITH
    Types <- EventType, Final <- {"complete", "error"},
    feed <- Shown, lost <- first - 1, state <- Mode, seen <- last

(* The stream implements EventFeed: a client gets every event in order and  *)
(* at most once, but what the stream lost before it was read, gets nothing  *)
(* after a final one, and gets all the stream holds as long as it stays.    *)
ImplementsFeed == Feed!FairSpec

(* iter_events documents that it goes on "until a 'complete'/'error' event  *)
(* arrives or timeout_s elapses".                                           *)
ReaderTimesOut == \A r \in Readers : Open(r) ~> at[r] = "ended"
=============================================================================
