---------------------------- MODULE StreamProofs ----------------------------
(***************************************************************************)
(* Proofs about EventStream: a reader of a stream that is trimmed and that *)
(* expires misses nothing else, and is shown one execution.                *)
(***************************************************************************)
EXTENDS EventStream, SequenceTheorems, TLAPS

Entry == [type : EventType, run : Nat]

\* The types the argument needs.
StreamType ==
    /\ log \in Seq(Entry)
    /\ first \in 1..Len(log) + 1
    /\ expired \in 0..Len(log)
    /\ run \in Nat
    /\ at \in [Readers -> {"idle", "loop", "waiting", "yielding", "ended"}]
    /\ last \in [Readers -> Nat]
    /\ batch \in [Readers -> Nat]
    /\ got \in [Readers -> SUBSET Nat]
    /\ begin \in [Readers -> Nat]

\* An id is gone for a reason.
Gone(i) == i <= expired \/ i + MaxLen <= Len(log)

\* Every id the stream does not hold any more is gone for a reason.
TrimInv == \A i \in Nat : 0 < i /\ i < first => Gone(i)

\* A batch that is being sent has a next entry, which was appended.
BatchInv ==
    \A r \in Readers :
        /\ last[r] <= Len(log)
        /\ at[r] = "yielding" => last[r] < batch[r] /\ batch[r] <= Len(log)
        /\ at[r] # "idle" => begin[r] >= 1

ReplayInv == StreamType /\ TrimInv /\ BatchInv /\ ReplayHasNoGap

-----------------------------------------------------------------------------
(* However an execution goes on - past a published event, into the except   *)
(* block, with a retry - the number of the execution remains a number.      *)
LEMMA WriterRun ==
    ASSUME run \in Nat, Raise \/ Proceed \/ Again
    PROVE  run' \in Nat
  BY DEF Raise, Proceed, Again, Retry, Stop

(* An append keeps the invariant: what it trims has MaxLen successors.      *)
LEMMA AddedKeepsReplay ==
    ASSUME ReplayInv, NEW type \in EventType, Added(type), run' \in Nat,
           UNCHANGED <<expired, readerVars>>
    PROVE  ReplayInv'
<1> USE StreamAssumption DEF ReplayInv, StreamType
<1> DEFINE new == [type |-> type, run |-> run]
<1>1. new \in Entry /\ log' = Append(log, new)
  BY DEF Added, Entry
<1>2. log' \in Seq(Entry) /\ Len(log') = Len(log) + 1
  BY <1>1
<1>3. Len(log) \in Nat /\ MaxLen \in Nat /\ MaxLen >= 1
  OBVIOUS
<1>4. /\ first' \in Int /\ first' >= first
      /\ first' <= first \/ first' <= Len(log) + 2 - MaxLen
  BY <1>3 DEF Added, Larger
<1>5. first' \in 1..Len(log') + 1 /\ expired' \in 0..Len(log')
  BY <1>2, <1>3, <1>4 DEF readerVars
<1>6. StreamType'
  BY <1>2, <1>5 DEF readerVars
<1>7. \A i \in Nat : Gone(i) => Gone(i)'
  BY <1>2, <1>3 DEF Gone
<1>8. TrimInv'
  <2> SUFFICES ASSUME NEW i \in Nat, 0 < i, i < first' PROVE Gone(i)'
    BY DEF TrimInv
  <2>1. CASE i < first
    BY <2>1, <1>4, <1>7 DEF TrimInv
  <2>2. CASE i >= first
    <3>1. i + MaxLen <= Len(log')
      BY <2>2, <1>2, <1>3, <1>4
    <3> QED BY <3>1 DEF Gone
  <2> QED BY <2>1, <2>2
<1>9. BatchInv'
  BY <1>2, <1>3 DEF BatchInv, readerVars
<1>10. ReplayHasNoGap'
  BY <1>2, <1>3 DEF ReplayHasNoGap, readerVars
<1> QED BY <1>6, <1>8, <1>9, <1>10

(* A step that leaves the stream and what readers have alone keeps it.      *)
LEMMA OtherKeepsReplay ==
    ASSUME ReplayInv, run' \in Nat, UNCHANGED <<log, first, expired, readerVars>>
    PROVE  ReplayInv'
<1> USE DEF ReplayInv, readerVars
<1>1. StreamType'
  BY DEF StreamType
<1>2. TrimInv'
  BY DEF TrimInv, Gone
<1>3. BatchInv'
  BY DEF BatchInv
<1>4. ReplayHasNoGap'
  BY DEF ReplayHasNoGap
<1> QED BY <1>1, <1>2, <1>3, <1>4

(* The key expires: everything it held is gone for that reason.             *)
LEMMA KeyExpiresKeepsReplay ==
    ASSUME ReplayInv, KeyExpires
    PROVE  ReplayInv'
<1> USE DEF ReplayInv, KeyExpires, writerVars, readerVars
<1>1. Len(log) \in Nat /\ first' = Len(log) + 1 /\ expired' = Len(log) /\ log' = log
  BY DEF StreamType
<1>2. StreamType'
  BY <1>1 DEF StreamType
<1>3. TrimInv'
  BY <1>1 DEF TrimInv, Gone, StreamType
<1>4. BatchInv'
  BY <1>1 DEF BatchInv
<1>5. ReplayHasNoGap'
  BY <1>1, StreamAssumption DEF ReplayHasNoGap, StreamType
<1> QED BY <1>2, <1>3, <1>4, <1>5

-----------------------------------------------------------------------------
(* The steps of a reader keep the invariant.  Answer may skip ids that are  *)
(* trimmed, Yield sends the next one, Connect starts before them all.       *)
LEMMA ReaderKeepsReplay ==
    ASSUME ReplayInv, NEW r \in Readers,
           Connect(r) \/ ReaderStep(r) \/ Disconnect(r)
    PROVE  ReplayInv'
<1> USE StreamAssumption DEF ReplayInv, streamVars, writerVars, Goto
<1>0. /\ log' = log /\ first' = first /\ expired' = expired /\ run' = run
      /\ Len(log) \in Nat /\ first \in Nat /\ first >= 1
      /\ last[r] \in Nat /\ Len(log)' = Len(log)
  BY DEF Connect, ReaderStep, Loop, Answer, NoAnswer, Yield, Disconnect, StreamType
<1>1. TrimInv'
  BY <1>0 DEF TrimInv, Gone
<1>2. CASE Connect(r)
  <2> USE <1>2, <1>0 DEF Connect, Start
  <2>1. StreamType'
    BY DEF StreamType
  <2>2. BatchInv'
    BY DEF BatchInv, StreamType
  <2>3. ReplayHasNoGap'
    BY DEF ReplayHasNoGap, StreamType
  <2> QED BY <1>1, <2>1, <2>2, <2>3
<1>3. CASE Loop(r) \/ NoAnswer(r) \/ Disconnect(r)
  <2> USE <1>3, <1>0 DEF Loop, NoAnswer, Disconnect
  <2>1. /\ at[r] # "idle"
        /\ at' \in [Readers -> {"idle", "loop", "waiting", "yielding", "ended"}]
        /\ \A q \in Readers : at'[q] = at[q] \/ (q = r /\ at'[q] \notin {"idle", "yielding"})
        /\ UNCHANGED <<last, batch, got, begin>>
    BY DEF StreamType, Open
  <2>2. StreamType'
    BY <2>1 DEF StreamType
  <2>3. BatchInv'
    BY <2>1 DEF BatchInv
  <2>4. ReplayHasNoGap'
    BY <2>1 DEF ReplayHasNoGap
  <2> QED BY <1>1, <2>2, <2>3, <2>4
<1>4. CASE Answer(r)
  <2> DEFINE from == Larger(first, last[r] + 1)
             upto == Smaller(from + Count - 1, Len(log))
  <2> USE <1>0
  <2>1. /\ from \in Nat /\ from >= 1 /\ from >= last[r] + 1 /\ from <= Len(log)
        /\ from = first \/ from = last[r] + 1
    BY <1>4 DEF Answer, NextHeld, Larger
  <2>2. upto \in Nat /\ from <= upto /\ upto <= Len(log)
    BY <2>1 DEF Smaller
  <2> HIDE DEF from, upto
  <2>3. /\ at[r] = "waiting"
        /\ at' = [at EXCEPT ![r] = "yielding"]
        /\ last' = [last EXCEPT ![r] = from - 1]
        /\ batch' = [batch EXCEPT ![r] = upto]
        /\ UNCHANGED <<got, begin>>
    BY <1>4 DEF Answer, NextHeld, from, upto
  <2>4. StreamType'
    BY <2>1, <2>2, <2>3 DEF StreamType
  <2>5. BatchInv'
    BY <2>1, <2>2, <2>3 DEF BatchInv, StreamType
  <2>6. ReplayHasNoGap'
    <3> SUFFICES ASSUME NEW q \in Readers, at'[q] # "idle",
                        NEW i \in begin[q]..last'[q], i \notin got[q]
                 PROVE  Gone(i)
      BY <2>3 DEF ReplayHasNoGap, Gone
    <3>1. CASE q # r \/ i <= last[r]
      BY <3>1, <2>3 DEF ReplayHasNoGap, Gone, StreamType
    <3>2. CASE q = r /\ i > last[r]
      <4>1. i \in Nat /\ 0 < i /\ i < first
        BY <3>2, <2>1, <2>3 DEF BatchInv, StreamType
      <4> QED BY <4>1 DEF TrimInv
    <3> QED BY <3>1, <3>2 DEF StreamType
  <2> QED BY <1>1, <2>4, <2>5, <2>6
<1>5. CASE Yield(r)
  <2> USE <1>0
  <2>1. /\ at[r] = "yielding" /\ last[r] < batch[r] /\ batch[r] <= Len(log)
        /\ batch[r] \in Nat
    BY <1>5 DEF Yield, BatchInv, StreamType
  <2>2. /\ last' = [last EXCEPT ![r] = last[r] + 1]
        /\ got' = [got EXCEPT ![r] = @ \cup {last[r] + 1}]
        /\ UNCHANGED <<batch, begin>>
    BY <1>5 DEF Yield
  <2>3. /\ at' \in [Readers -> {"idle", "loop", "waiting", "yielding", "ended"}]
        /\ \A q \in Readers \ {r} : at'[q] = at[q]
        /\ at'[r] = "yielding" => last[r] + 1 # batch[r]
    BY <1>5 DEF Yield, StreamType
  <2>4. StreamType'
    <3>1. last' \in [Readers -> Nat] /\ got' \in [Readers -> SUBSET Nat]
      BY <2>2 DEF StreamType
    <3> QED BY <3>1, <2>2, <2>3 DEF StreamType
  <2>5. BatchInv'
    BY <2>1, <2>2, <2>3 DEF BatchInv, StreamType
  <2>6. ReplayHasNoGap'
    <3> SUFFICES ASSUME NEW q \in Readers, at'[q] # "idle",
                        NEW i \in begin[q]..last'[q], i \notin got'[q]
                 PROVE  Gone(i)
      BY <2>2 DEF ReplayHasNoGap, Gone
    <3>1. /\ at[q] # "idle" /\ i \in Int /\ begin[q] <= i
          /\ last[q] \in Nat /\ begin[q] \in Nat
      BY <2>1, <2>2, <2>3 DEF StreamType
    <3>2. i <= last[q] /\ i \notin got[q]
      <4>1. CASE q = r
        BY <4>1, <3>1, <2>2 DEF StreamType
      <4>2. CASE q # r
        BY <4>2, <3>1, <2>2 DEF StreamType
      <4> QED BY <4>1, <4>2
    <3> QED BY <3>1, <3>2 DEF ReplayHasNoGap, Gone
  <2> QED BY <1>1, <2>4, <2>5, <2>6
<1> QED BY <1>2, <1>3, <1>4, <1>5 DEF ReaderStep

-----------------------------------------------------------------------------
(* Every step of executions, readers, Redis and the clock keeps it.         *)
LEMMA NextKeepsReplay ==
    ASSUME ReplayInv, [Next]_vars
    PROVE  ReplayInv'
<1> USE DEF streamVars, writerVars
<1>0. run \in Nat
  BY DEF ReplayInv, StreamType
<1>1. CASE Begin
  BY <1>1, <1>0, OtherKeepsReplay DEF Begin
<1>2. CASE Xadd
  <2>1. run' \in Nat /\ stage \in EventType /\ UNCHANGED <<expired, readerVars>>
    BY <1>0, <1>2, WriterRun DEF Xadd
  <2>2. CASE Added(stage)
    BY <2>1, <2>2, AddedKeepsReplay
  <2>3. CASE UNCHANGED <<log, first>>
    BY <2>1, <2>3, OtherKeepsReplay
  <2> QED BY <1>2, <2>2, <2>3 DEF Xadd
<1>3. CASE Expire
  BY <1>3, <1>0, WriterRun, OtherKeepsReplay DEF Expire
<1>4. CASE WorkFails
  BY <1>4, <1>0, WriterRun, OtherKeepsReplay DEF WorkFails
<1>5. CASE WorkerCrash
  BY <1>5, <1>0, WriterRun, OtherKeepsReplay DEF WorkerCrash
<1>6. CASE KeyExpires
  BY <1>6, KeyExpiresKeepsReplay
<1>7. CASE Tick
  <2>1. /\ run' = run /\ UNCHANGED <<log, first, expired>>
        /\ UNCHANGED <<at, last, batch, got, begin>>
    BY <1>7 DEF Tick
  <2> QED
    BY <2>1 DEF ReplayInv, StreamType, TrimInv, Gone, BatchInv, ReplayHasNoGap
<1>8. ASSUME NEW r \in Readers, Connect(r) \/ ReaderStep(r) \/ Disconnect(r)
      PROVE  ReplayInv'
  BY <1>8, ReaderKeepsReplay
<1>9. CASE UNCHANGED vars
  BY <1>9, <1>0, OtherKeepsReplay DEF vars
<1> QED BY <1>1, <1>2, <1>3, <1>4, <1>5, <1>6, <1>7, <1>8, <1>9 DEF Next, Execution

(* The invariant holds of every behaviour of an event stream.               *)
THEOREM ReplayCorrect == Spec => []ReplayInv
<1>1. Init => ReplayInv
  BY DEF Init, ReplayInv, StreamType, TrimInv, BatchInv, ReplayHasNoGap, EventType
<1>2. ReplayInv /\ [Next]_vars => ReplayInv'
  BY NextKeepsReplay
<1> QED BY <1>1, <1>2, PTL DEF Spec

(* A reader misses nothing of what the stream held when it connected or     *)
(* received since, except what MaxLen newer entries pushed out or what went *)
(* with an expired key - for any number of readers, retries and entries.    *)
THEOREM ReplayHasNoGapHolds == Spec => []ReplayHasNoGap
  BY ReplayCorrect, PTL DEF ReplayInv

-----------------------------------------------------------------------------
(* The stream is written by one execution after the other.                  *)
RunsInv ==
    /\ \A i \in 1..Len(log) : log[i].run <= run
    /\ \A i, j \in 1..Len(log) : i <= j => log[i].run <= log[j].run

(* While nothing is lost, a reader has got all up to its last id, and no    *)
(* event that ends a stream but the one it ended with.                      *)
PrefixInv ==
    \A r \in Readers :
        /\ at[r] = "idle" => got[r] = {}
        /\ Whole /\ at[r] # "idle" =>
             /\ got[r] = 1..last[r]
             /\ \A k \in got[r] : EndEvent(k) => k = last[r] /\ at[r] = "ended"

OnceInv == RunsInv /\ PrefixInv

\* A stream that has lost no entry starts at its first one.
LEMMA WholeStream ==
    ASSUME ReplayInv, Whole
    PROVE  first = 1
<1>1. first \in Nat /\ Len(log) \in Nat /\ first >= 1
  BY DEF ReplayInv, StreamType
<1>2. first > 1 => Gone(1)
  BY DEF ReplayInv, TrimInv
<1> QED BY <1>1, <1>2, StreamAssumption DEF Gone, Whole

\* The number of the execution never decreases.
LEMMA WriterCounts ==
    ASSUME run \in Nat, Raise \/ Proceed \/ Again
    PROVE  run' \in Nat /\ run' >= run
  BY DEF Raise, Proceed, Again, Retry, Stop

\* Every entry names the execution it is of.
LEMMA EntryRun ==
    ASSUME StreamType, NEW i \in 1..Len(log)
    PROVE  log[i].run \in Nat
<1>1. log[i] \in Entry
  BY DEF StreamType
<1> QED BY <1>1 DEF Entry

(* A step that neither appends nor moves a reader keeps it.                 *)
LEMMA OtherKeepsOnce ==
    ASSUME ReplayInv, OnceInv, run' \in Nat, run' >= run, Whole' => Whole,
           UNCHANGED <<log, at, last, got>>
    PROVE  OnceInv'
<1>1. RunsInv'
  <2>1. \A i \in 1..Len(log) : log[i].run \in Nat
    BY EntryRun DEF ReplayInv
  <2>2. run \in Nat /\ log' = log
    BY DEF ReplayInv, StreamType
  <2> QED BY <2>1, <2>2 DEF OnceInv, RunsInv
<1>2. PrefixInv'
  BY DEF OnceInv, PrefixInv, EndEvent
<1> QED BY <1>1, <1>2 DEF OnceInv

\* An append, which is of the current execution, keeps the order of runs.
LEMMA AddedKeepsOnce ==
    ASSUME ReplayInv, OnceInv, NEW type \in EventType, Added(type), run' \in Nat, run' >= run,
           UNCHANGED <<expired, readerVars>>
    PROVE  OnceInv'
<1> DEFINE new == [type |-> type, run |-> run]
<1>1. run \in Nat /\ log \in Seq(Entry) /\ new \in Entry /\ log' = Append(log, new)
  BY DEF Added, Entry, ReplayInv, StreamType
<1>2. /\ Len(log) \in Nat /\ Len(log') = Len(log) + 1
      /\ log'[Len(log) + 1].run = run
      /\ \A i \in 1..Len(log) : log'[i] = log[i] /\ log[i].run \in Nat
  <2>1. Len(log) \in Nat /\ Len(log') = Len(log) + 1 /\ log'[Len(log) + 1] = new
    BY <1>1
  <2>2. \A i \in 1..Len(log) : log'[i] = log[i]
    BY <1>1
  <2> QED BY <2>1, <2>2, EntryRun DEF ReplayInv
<1> HIDE DEF new
<1>3. RunsInv'
  <2>1. \A i \in 1..Len(log') : log'[i].run <= run
    BY <1>1, <1>2 DEF OnceInv, RunsInv
  <2>2. \A i \in 1..Len(log') : log'[i].run \in Nat
    BY <1>1, <1>2
  <2>3. ASSUME NEW i \in 1..Len(log'), NEW j \in 1..Len(log'), i <= j
        PROVE  log'[i].run <= log'[j].run
    <3>1. CASE j = Len(log) + 1
      BY <1>2, <2>1, <3>1
    <3>2. CASE j <= Len(log)
      BY <1>2, <2>3, <3>2 DEF OnceInv, RunsInv
    <3> QED BY <1>2, <3>1, <3>2
  <2> QED BY <1>1, <2>1, <2>2, <2>3 DEF RunsInv
<1>4. Whole' => Whole
  BY <1>2, StreamAssumption DEF Whole
<1>5. PrefixInv'
  <2> SUFFICES ASSUME NEW r \in Readers, Whole, at[r] # "idle"
               PROVE  /\ got[r] = 1..last[r]
                      /\ \A k \in got[r] : EndEvent(k)' => k = last[r] /\ at[r] = "ended"
    BY <1>4 DEF PrefixInv, OnceInv, readerVars
  <2>1. got[r] = 1..last[r] /\ last[r] \in Nat /\ last[r] <= Len(log)
    BY DEF OnceInv, PrefixInv, ReplayInv, BatchInv, StreamType
  <2>2. \A k \in got[r] : EndEvent(k)' <=> EndEvent(k)
    BY <1>2, <2>1 DEF EndEvent
  <2> QED BY <2>1, <2>2 DEF OnceInv, PrefixInv
<1> QED BY <1>3, <1>5 DEF OnceInv

\* A reader that goes on reads the next id, one that saw an end stops.
LEMMA ReaderKeepsOnce ==
    ASSUME ReplayInv, OnceInv, NEW r \in Readers,
           Connect(r) \/ ReaderStep(r) \/ Disconnect(r)
    PROVE  OnceInv'
<1> USE DEF streamVars, writerVars, Goto
<1>1. /\ UNCHANGED <<log, first, expired, run>>
      /\ Whole' <=> Whole
      /\ \A k \in Nat : EndEvent(k)' <=> EndEvent(k)
  BY DEF Connect, ReaderStep, Loop, Answer, NoAnswer, Yield, Disconnect, Whole, EndEvent
<1>2. RunsInv'
  BY <1>1 DEF OnceInv, RunsInv
<1>3. \A q \in Readers \ {r} : at'[q] = at[q] /\ last'[q] = last[q] /\ got'[q] = got[q]
  BY DEF Connect, ReaderStep, Loop, Answer, NoAnswer, Yield, Disconnect, ReplayInv, StreamType
<1>4. SUFFICES ASSUME Whole
               PROVE  /\ at'[r] # "idle"
                      /\ got'[r] = 1..last'[r]
                      /\ \A k \in got'[r] : EndEvent(k) => k = last'[r] /\ at'[r] = "ended"
  <2>1. at'[r] # "idle"
    BY DEF Connect, ReaderStep, Loop, Answer, NoAnswer, Yield, Disconnect, ReplayInv, StreamType
  <2>2. \A q \in Readers : got'[q] \subseteq Nat
    BY NextKeepsReplay DEF Next, ReplayInv, StreamType
  <2> QED BY <1>1, <1>2, <1>3, <1>4, <2>1, <2>2 DEF OnceInv, PrefixInv
<1>5. CASE Connect(r)
  <2>1. at[r] = "idle" /\ at'[r] = "loop" /\ last'[r] = 0 /\ got'[r] = got[r]
    BY <1>5 DEF Connect, Start, ReplayInv, StreamType
  <2>2. got'[r] = {}
    BY <2>1 DEF OnceInv, PrefixInv
  <2> QED BY <2>1, <2>2
<1>6. CASE ReaderStep(r) \/ Disconnect(r)
  <2>1. /\ at[r] \notin {"idle", "ended"} /\ last[r] \in Nat
        /\ got[r] = 1..last[r] /\ \A k \in got[r] : ~EndEvent(k)
    BY <1>4, <1>6
    DEF ReaderStep, Loop, Answer, NoAnswer, Yield, Disconnect, Open, OnceInv, PrefixInv,
        ReplayInv, StreamType
  <2>2. CASE Loop(r) \/ NoAnswer(r) \/ Disconnect(r)
    BY <2>1, <2>2 DEF Loop, NoAnswer, Disconnect, ReplayInv, StreamType
  <2>3. CASE Answer(r)
    <3>1. Larger(first, last[r] + 1) = last[r] + 1
      BY <1>4, <2>1, WholeStream DEF Larger
    <3>2. at'[r] = "yielding" /\ last'[r] = last[r] /\ got'[r] = got[r]
      BY <2>1, <2>3, <3>1 DEF Answer, NextHeld, ReplayInv, StreamType
    <3> QED BY <2>1, <3>2
  <2>4. CASE Yield(r)
    <3>1. /\ last'[r] = last[r] + 1 /\ got'[r] = got[r] \cup {last[r] + 1}
          /\ at'[r] \in {"ended", "loop", "yielding"}
          /\ EndEvent(last[r] + 1) => at'[r] = "ended"
      BY <2>4 DEF Yield, IsTerminal, EndEvent, ReplayInv, StreamType
    <3> QED BY <2>1, <3>1
  <2> QED BY <1>6, <2>2, <2>3, <2>4 DEF ReaderStep
<1> QED BY <1>5, <1>6

\* Every step of executions, readers, Redis and the clock keeps it.
LEMMA NextKeepsOnce ==
    ASSUME ReplayInv, OnceInv, [Next]_vars
    PROVE  OnceInv'
<1> USE DEF streamVars, writerVars, readerVars
<1>0. run \in Nat /\ Len(log) \in Nat /\ expired \in Nat /\ run >= run
  BY DEF ReplayInv, StreamType
<1>1. CASE Xadd
  <2>1. run' \in Nat /\ run' >= run /\ stage \in EventType /\ UNCHANGED <<expired, readerVars>>
    BY <1>0, <1>1, WriterCounts DEF Xadd
  <2>2. CASE Added(stage)
    BY <2>1, <2>2, AddedKeepsOnce
  <2>3. CASE UNCHANGED <<log, first>>
    BY <2>1, <2>3, OtherKeepsOnce DEF Whole
  <2> QED BY <1>1, <2>2, <2>3 DEF Xadd
<1>2. CASE Begin \/ Expire \/ WorkFails \/ WorkerCrash \/ Tick \/ UNCHANGED vars
  <2>1. run' \in Nat /\ run' >= run
    BY <1>0, <1>2, WriterCounts DEF Begin, Expire, WorkFails, WorkerCrash, Tick, vars
  <2>2. UNCHANGED <<log, expired, at, last, got>>
    BY <1>2 DEF Begin, Expire, WorkFails, WorkerCrash, Tick, vars
  <2> QED BY <2>1, <2>2, OtherKeepsOnce DEF Whole
<1>3. CASE KeyExpires
  <2>1. UNCHANGED <<log, run, at, last, got>> /\ expired' = Len(log) /\ expired \in 0..Len(log)
    BY <1>3 DEF KeyExpires, ReplayInv, StreamType
  <2>2. Whole' => Whole
    BY <1>0, <2>1 DEF Whole
  <2> QED BY <1>0, <2>1, <2>2, OtherKeepsOnce
<1>4. ASSUME NEW r \in Readers, Connect(r) \/ ReaderStep(r) \/ Disconnect(r)
      PROVE  OnceInv'
  BY <1>4, ReaderKeepsOnce
<1> QED BY <1>1, <1>2, <1>3, <1>4 DEF Next, Execution

\* The order of runs and the prefix a reader has got are invariant.
THEOREM OnceCorrect == Spec => []OnceInv
<1>1. Init => OnceInv
  BY DEF Init, OnceInv, RunsInv, PrefixInv
<1> QED BY <1>1, ReplayCorrect, NextKeepsOnce, PTL DEF Spec

(* A client is shown the events of one execution, unless one of the others  *)
(* ended without its last event or the stream has lost entries.             *)
THEOREM OneExecutionPerReaderHolds == Spec => []OneExecutionPerReader
<1>1. ReplayInv /\ OnceInv => OneExecutionPerReader
  <2> SUFFICES ASSUME ReplayInv, OnceInv, NEW r \in Readers, NEW i \in got[r], NEW j \in got[r],
                      log[i].run < log[j].run, Whole,
                      NEW k \in 1..Len(log), log[k].run = log[i].run, EndEvent(k)
               PROVE  FALSE
    BY DEF OneExecutionPerReader
  <2>1. /\ at[r] # "idle" /\ got[r] = 1..last[r]
        /\ last[r] \in Nat /\ last[r] <= Len(log) /\ Len(log) \in Nat
    BY DEF OnceInv, PrefixInv, ReplayInv, BatchInv, StreamType
  <2>2. j \in 1..Len(log) /\ log[j].run \in Nat /\ log[k].run \in Nat
    BY <2>1, EntryRun DEF ReplayInv
  <2>3. ~(j <= k)
    BY <2>1, <2>2 DEF OnceInv, RunsInv
  <2>4. k \in got[r] /\ k # last[r]
    BY <2>1, <2>3
  <2> QED BY <2>1, <2>4 DEF OnceInv, PrefixInv
<1> QED BY <1>1, ReplayCorrect, OnceCorrect, PTL

-----------------------------------------------------------------------------
(* A reader that has not connected yet has read nothing.                    *)
IdleInv == \A r \in Readers : at[r] = "idle" => last[r] = 0

\* The abstract mode of a client, from where its reader is.
LEMMA ModeOf ==
    ASSUME StreamType, NEW r \in Readers
    PROVE  /\ at[r] = "idle" => Mode[r] = "away"
           /\ at[r] = "ended" => Mode[r] = "over"
           /\ Open(r) => Mode[r] = "reading"
  BY DEF StreamType, Mode, Open

\* Nothing but its own connection lets a client see an event.
LEMMA IdleStays ==
    ASSUME ReplayInv, IdleInv, [Next]_vars
    PROVE  IdleInv'
<1> USE DEF readerVars, ReplayInv, StreamType, IdleInv
<1>1. CASE Execution \/ WorkerCrash \/ KeyExpires \/ Tick \/ UNCHANGED vars
  BY <1>1 DEF Execution, Begin, Xadd, Expire, WorkFails, WorkerCrash, KeyExpires, Tick, vars
<1>2. ASSUME NEW r \in Readers, Connect(r) \/ ReaderStep(r) \/ Disconnect(r)
      PROVE  IdleInv'
  BY <1>2 DEF Connect, Start, ReaderStep, Loop, Answer, NoAnswer, Yield, Disconnect, Open, Goto
<1> QED BY <1>1, <1>2 DEF Next

\* Ids count from one, the positions that are lost from zero.
LEMMA TrimmedRange ==
    ASSUME NEW f \in Nat, NEW g \in Int, NEW n \in Nat, NEW k \in Nat,
           g >= f, g <= f \/ g <= n + 2 - k
    PROVE  g - 1 = f - 1 \/ g - 1 \in (f - 1)..(n + 1 - k)
  OBVIOUS

\* An append to the stream is the publication of an event of that type.
LEMMA AddedPublishes ==
    ASSUME StreamType, NEW type \in EventType, Added(type), UNCHANGED readerVars
    PROVE  Feed!Publish
<1> USE StreamAssumption
<1> DEFINE new == [type |-> type, run |-> run]
<1>1. /\ log' = Append(log, new) /\ new \in Entry /\ log \in Seq(Entry)
      /\ first \in Nat /\ Len(log) \in Nat /\ MaxLen \in Nat
  BY DEF Added, Entry, StreamType
<1>2. new.type = type
  OBVIOUS
<1> HIDE DEF new
<1>3. /\ DOMAIN log = 1..Len(log) /\ DOMAIN log' = 1..(Len(log) + 1)
      /\ \A i \in 1..Len(log) : log'[i] = log[i]
      /\ log'[Len(log) + 1] = new
  BY <1>1
<1>4. Shown \in Seq(EventType) /\ Len(Shown) = Len(log)
  <2>1. \A i \in 1..Len(log) : log[i].type \in EventType
    <3> SUFFICES ASSUME NEW i \in 1..Len(log) PROVE log[i].type \in EventType
      OBVIOUS
    <3>1. log[i] \in Entry
      BY <1>1
    <3> QED BY <3>1 DEF Entry
  <2> QED BY <1>1, <1>3, <2>1 DEF Shown
<1>5. Shown' = Append(Shown, type)
  <2>1. Append(Shown, type) \in Seq(EventType) /\ Len(Append(Shown, type)) = Len(log) + 1
    BY <1>4
  <2>2. Shown' \in Seq(EventType) /\ Len(Shown') = Len(log) + 1
    BY <1>1, <1>2, <1>3, <1>4 DEF Shown
  <2>3. ASSUME NEW i \in 1..Len(log) + 1
        PROVE  Shown'[i] = Append(Shown, type)[i]
    <3>1. CASE i = Len(log) + 1
      BY <1>1, <1>2, <1>3, <1>4, <3>1 DEF Shown
    <3>2. CASE i # Len(log) + 1
      <4>1. i \in 1..Len(log) /\ Shown'[i] = Shown[i]
        BY <1>1, <1>3, <3>2 DEF Shown
      <4> QED BY <1>4, <4>1
    <3> QED BY <3>1, <3>2
  <2> QED BY <2>1, <2>2, <2>3, SeqEqual
<1>6. first' - 1 = first - 1 \/ first' - 1 \in (first - 1)..(Len(Shown) + 1 - MaxLen)
  <2>1. /\ first' \in Int /\ first' >= first
        /\ first' <= first \/ first' <= Len(log) + 2 - MaxLen
    BY <1>1 DEF Added, Larger
  <2>2. Len(Shown) = Len(log) /\ Len(log) \in Nat /\ MaxLen \in Nat /\ first \in Nat
    BY <1>1, <1>4
  <2> QED BY <2>1, <2>2, TrimmedRange
<1>7. UNCHANGED <<Mode, last>>
  BY DEF readerVars, Mode, Open
<1> QED BY <1>5, <1>6, <1>7 DEF Feed!Publish

\* A step that leaves the stream and the readers' positions alone is invisible.
LEMMA OtherStutters ==
    ASSUME UNCHANGED <<log, first, at, last>>
    PROVE  UNCHANGED Feed!vars
  BY DEF Feed!vars, Shown, Mode, Open

\* The steps of a reader: joining, skipping, being sent an event, leaving.
LEMMA ReaderServed ==
    ASSUME ReplayInv, IdleInv, NEW r \in Readers,
           Connect(r) \/ ReaderStep(r) \/ Disconnect(r)
    PROVE  \/ Feed!Join(r) \/ Feed!Deliver(r) \/ Feed!Skip(r) \/ Feed!Quit(r)
           \/ UNCHANGED Feed!vars
<1> USE DEF streamVars, writerVars, Goto
<1>0. /\ UNCHANGED <<log, first, Shown>> /\ StreamType /\ StreamType'
      /\ Len(log) \in Nat /\ first \in 1..Len(log) + 1
      /\ DOMAIN log = 1..Len(log) /\ Len(Shown) = Len(log)
  <2>1. StreamType'
    BY ReaderKeepsReplay DEF ReplayInv
  <2>2. StreamType /\ DOMAIN log = 1..Len(log) /\ Len(log) \in Nat
    BY DEF ReplayInv, StreamType
  <2>3. Len(Shown) = Len(log)
    BY <2>2 DEF Shown
  <2> QED BY <2>1, <2>2, <2>3
      DEF Connect, ReaderStep, Loop, Answer, NoAnswer, Yield, Disconnect, StreamType, Shown
<1>1. ASSUME NEW m \in {"away", "reading", "over"},
             \A q \in Readers \ {r} : at'[q] = at[q],
             Mode'[r] = m
      PROVE  Mode' = [Mode EXCEPT ![r] = m]
  BY <1>1 DEF Mode, Open
<1>2. \A q \in Readers \ {r} : at'[q] = at[q]
  BY <1>0 DEF Connect, ReaderStep, Loop, Answer, NoAnswer, Yield, Disconnect, StreamType
<1>3. /\ at'[r] = "idle" => Mode'[r] = "away"
      /\ at'[r] = "ended" => Mode'[r] = "over"
      /\ at'[r] \notin {"idle", "ended"} => Mode'[r] = "reading"
  BY <1>0 DEF Mode, Open, StreamType
<1>4. /\ at[r] = "idle" => Mode[r] = "away"
      /\ at[r] \notin {"idle", "ended"} => Mode[r] = "reading"
  BY <1>0, ModeOf DEF Open
<1>5. CASE Connect(r)
  <2>1. at[r] = "idle" /\ at'[r] = "loop" /\ last' = last
    BY <1>0, <1>5 DEF Connect, Start, IdleInv, StreamType
  <2>2. Mode' = [Mode EXCEPT ![r] = "reading"]
    BY <1>1, <1>2, <1>3, <2>1
  <2> QED BY <1>0, <1>4, <2>1, <2>2 DEF Feed!Join
<1>6. CASE Loop(r) \/ NoAnswer(r) \/ Disconnect(r)
  <2>1. at[r] \notin {"idle", "ended"} /\ at'[r] # "idle" /\ last' = last
    BY <1>0, <1>6 DEF Loop, NoAnswer, Disconnect, Open, StreamType
  <2>2. CASE at'[r] = "ended"
    <3>1. Mode' = [Mode EXCEPT ![r] = "over"]
      BY <1>1, <1>2, <1>3, <2>2
    <3> QED BY <1>0, <1>4, <2>1, <3>1 DEF Feed!Quit
  <2>3. CASE at'[r] # "ended"
    <3>1. Mode' = Mode
      BY <1>2, <1>3, <1>4, <2>1, <2>3 DEF Mode, Open
    <3> QED BY <1>0, <2>1, <3>1 DEF Feed!vars
  <2> QED BY <2>2, <2>3
<1>7. CASE Answer(r)
  <2>1. /\ at[r] = "waiting" /\ at'[r] = "yielding"
        /\ Larger(first, last[r] + 1) <= Len(log)
        /\ last' = [last EXCEPT ![r] = Larger(first, last[r] + 1) - 1]
        /\ last[r] \in Nat /\ last \in [Readers -> Nat]
    BY <1>0, <1>7 DEF Answer, NextHeld, StreamType
  <2>2. Mode' = Mode
    BY <1>2, <1>3, <1>4, <2>1 DEF Mode, Open
  <2>3. CASE first <= last[r] + 1
    <3>1. last' = last
      BY <1>0, <2>1, <2>3 DEF Larger
    <3> QED BY <1>0, <2>2, <3>1 DEF Feed!vars
  <2>4. CASE first > last[r] + 1
    <3>1. first \in Nat /\ Larger(first, last[r] + 1) = first
      BY <1>0, <2>1, <2>4 DEF Larger
    <3>2. last' = [last EXCEPT ![r] = first - 1] /\ first <= Len(log)
      BY <2>1, <3>1
    <3>3. last[r] < first - 1 /\ first - 1 < Len(log)
      BY <1>0, <2>1, <2>4, <3>1, <3>2
    <3> QED BY <1>0, <1>4, <2>1, <2>2, <3>2, <3>3 DEF Feed!Skip
  <2> QED BY <1>0, <2>1, <2>3, <2>4
<1>8. CASE Yield(r)
  <2>1. /\ at[r] = "yielding" /\ last[r] \in Nat /\ last[r] < Len(log)
        /\ last' = [last EXCEPT ![r] = last[r] + 1]
        /\ at'[r] = "ended" <=> IsTerminal(log[last[r] + 1].type)
        /\ at'[r] # "idle"
    BY <1>0, <1>8 DEF Yield, ReplayInv, BatchInv, StreamType
  <2>2. Shown[last[r] + 1] = log[last[r] + 1].type
    BY <1>0, <2>1 DEF Shown
  <2>3. Mode' = [Mode EXCEPT ![r] = IF Shown[last[r] + 1] \in {"complete", "error"}
                                    THEN "over" ELSE "reading"]
    BY <1>1, <1>2, <1>3, <2>1, <2>2 DEF IsTerminal
  <2> QED BY <1>0, <1>4, <2>1, <2>3 DEF Feed!Deliver
<1> QED BY <1>5, <1>6, <1>7, <1>8 DEF ReaderStep

(* The stream implements EventFeed, but for the clients' fairness: whatever *)
(* fails, retries, is trimmed or expires, a client is sent events in order, *)
(* at most once, with no gap but what was lost, and nothing after a final   *)
(* one (publish_event, iter_events).                                        *)
THEOREM FeedRefined == Spec => Feed!Spec
<1>1. Init => Feed!Init /\ IdleInv
  <2> SUFFICES ASSUME Init PROVE Feed!Init /\ IdleInv
    OBVIOUS
  <2>1. Shown = <<>>
    BY DEF Init, Shown
  <2>2. Mode = [r \in Readers |-> "away"]
    BY DEF Init, Mode, Open
  <2> QED BY <2>1, <2>2 DEF Init, Feed!Init, IdleInv
<1>2. ASSUME ReplayInv, IdleInv, [Next]_vars
      PROVE  [Feed!Next]_(Feed!vars)
  <2> USE <1>2 DEF streamVars, writerVars, readerVars, ReplayInv
  <2>1. CASE Xadd
    <3>1. stage \in EventType /\ UNCHANGED readerVars
      BY <2>1 DEF Xadd
    <3>2. CASE Added(stage)
      BY <3>1, <3>2, AddedPublishes DEF Feed!Next
    <3>3. CASE UNCHANGED <<log, first>>
      BY <3>1, <3>3, OtherStutters
    <3> QED BY <2>1, <3>2, <3>3 DEF Xadd
  <2>2. CASE Begin \/ Expire \/ WorkFails \/ WorkerCrash \/ Tick \/ UNCHANGED vars
    BY <2>2, OtherStutters DEF Begin, Expire, WorkFails, WorkerCrash, Tick, vars
  <2>3. CASE KeyExpires
    <3>1. Len(log) \in Nat /\ first' - 1 = Len(log) /\ UNCHANGED <<log, at, last>>
      BY <2>3 DEF KeyExpires, StreamType
    <3>2. DOMAIN log = 1..Len(log)
      BY DEF StreamType
    <3>3. Len(Shown) = Len(log)
      BY <3>1, <3>2 DEF Shown
    <3>4. UNCHANGED <<Shown, Mode>>
      BY <3>1 DEF Shown, Mode, Open
    <3> QED BY <3>1, <3>3, <3>4 DEF Feed!Next, Feed!Expire
  <2>4. ASSUME NEW r \in Readers, Connect(r) \/ ReaderStep(r) \/ Disconnect(r)
        PROVE  [Feed!Next]_(Feed!vars)
    BY <2>4, ReaderServed DEF Feed!Next
  <2> QED BY <2>1, <2>2, <2>3, <2>4 DEF Next, Execution
<1> QED BY <1>1, <1>2, ReplayCorrect, IdleStays, PTL DEF Spec, Feed!Spec

-----------------------------------------------------------------------------
\* The parts of TypeOK: of the stream, of the executions, of the readers.
LogOK ==
    /\ log \in Seq(Entry) /\ first \in 1..Len(log) + 1 /\ expired \in 0..Len(log)
TtlOK == ttl \in BOOLEAN
WriterOK ==
    /\ stage \in EventType \cup {"start", "done"} /\ adding \in {"xadd", "expire"}
    /\ run \in Nat \ {0} /\ retry \in 0..MaxRetries /\ chunks \in 0..MaxChunks
    /\ faults \in 0..MaxFaults /\ crashes \in 0..MaxCrashes
ReaderOK ==
    /\ at \in [Readers -> {"idle", "loop", "waiting", "yielding", "ended"}]
    /\ last \in [Readers -> 0..Len(log)]
    /\ batch \in [Readers -> 0..Len(log)]
    /\ got \in [Readers -> SUBSET (1..Len(log))]
    /\ begin \in [Readers -> 0..Len(log) + 1]
    /\ left \in [Readers -> 0..Timeout]
    /\ timer \in [Readers -> Forever..BlockMax * TicksPerMs]

\* The parts together are the type invariant.
LEMMA TypeParts == TypeOK <=> LogOK /\ TtlOK /\ WriterOK /\ ReaderOK
  BY DEF TypeOK, LogOK, TtlOK, WriterOK, ReaderOK, Entry

\* The block of an XREAD, in ticks, is at most the longest.
LEMMA BlockTicks ==
    ASSUME NEW l \in Nat
    PROVE  Smaller(BlockMax, l \div TicksPerMs) * TicksPerMs \in 0..BlockMax * TicksPerMs
<1>1. l \div TicksPerMs \in Nat
  BY StreamAssumption
<1>2. Smaller(BlockMax, l \div TicksPerMs) \in 0..BlockMax
  <2> DEFINE q == l \div TicksPerMs
  <2> HIDE DEF q
  <2>1. q \in Nat => Smaller(BlockMax, q) \in 0..BlockMax
    BY StreamAssumption DEF Smaller
  <2> QED BY <1>1, <2>1 DEF q
<1>3. ASSUME NEW b \in Nat, NEW m \in Nat, NEW t \in Nat, b <= m
      PROVE  b * t \in 0..m * t
  <2>1. m = b + (m - b) /\ m - b \in Nat
    BY <1>3
  <2>2. ASSUME NEW d \in Nat
        PROVE  b * t \in 0..(b + d) * t
    OBVIOUS
  <2> QED BY <2>1, <2>2
<1> QED BY <1>2, <1>3, StreamAssumption

\* Executions keep their types, and with the stream those of the readers.
LEMMA WriterKeepsType ==
    ASSUME TypeOK, Execution \/ WorkerCrash
    PROVE  TypeOK'
<1> USE StreamAssumption DEF streamVars, writerVars, readerVars
<1>1. LogOK /\ TtlOK /\ WriterOK /\ ReaderOK
  BY TypeParts
<1>2. ASSUME Raise \/ Proceed \/ (Again /\ UNCHANGED retry),
             faults' \in 0..MaxFaults, crashes' \in 0..MaxCrashes
      PROVE  WriterOK'
  BY <1>1, <1>2 DEF Raise, Proceed, Again, Retry, Stop, WriterOK, EventType
<1>3. Fault => faults' \in 0..MaxFaults
  BY <1>1 DEF Fault, WriterOK
<1>4. CASE Begin
  BY <1>1, <1>4 DEF Begin, TypeOK, LogOK, TtlOK, WriterOK, ReaderOK, Entry, EventType
<1>5. CASE Xadd
  <2>1. WriterOK'
    <3>1. \/ adding' = "expire" /\ UNCHANGED <<stage, run, retry, chunks, faults, crashes>>
          \/ Fault /\ Raise /\ UNCHANGED crashes
      BY <1>5 DEF Xadd
    <3>2. crashes \in 0..MaxCrashes
      BY <1>1 DEF WriterOK
    <3>3. CASE adding' = "expire" /\ UNCHANGED <<stage, run, retry, chunks, faults, crashes>>
      BY <1>1, <3>3 DEF WriterOK
    <3>4. CASE Fault /\ Raise /\ UNCHANGED crashes
      <4>1. crashes' \in 0..MaxCrashes /\ faults' \in 0..MaxFaults
        BY <1>3, <3>2, <3>4
      <4> QED BY <1>2, <3>4, <4>1
    <3> QED BY <3>1, <3>3, <3>4
  <2>0. TtlOK'
    BY <1>1, <1>5 DEF Xadd, TtlOK
  <2>2. LogOK' /\ ReaderOK'
    <3>1. CASE UNCHANGED <<log, first>>
      BY <1>1, <1>5, <3>1 DEF Xadd, LogOK, ReaderOK
    <3>2. CASE Added(stage)
      <4> DEFINE new == [type |-> stage, run |-> run]
      <4>1. /\ stage \in EventType /\ log \in Seq(Entry) /\ run \in Nat
            /\ log' = Append(log, new)
            /\ UNCHANGED <<expired, readerVars>>
            /\ first' \in first..Larger(first, Len(log) + 2 - MaxLen)
        BY <1>1, <1>5, <3>2 DEF Xadd, Added, LogOK, WriterOK
      <4>2. new \in Entry
        BY <4>1 DEF Entry
      <4> HIDE DEF new
      <4>3. log' \in Seq(Entry) /\ Len(log') = Len(log) + 1 /\ Len(log) \in Nat
        BY <4>1, <4>2
      <4>4. first' \in 1..Len(log') + 1
        BY <1>1, <4>1, <4>3 DEF LogOK, Larger
      <4>5. LogOK'
        BY <1>1, <4>1, <4>3, <4>4 DEF LogOK
      <4>6. ReaderOK'
        BY <1>1, <4>1, <4>3 DEF ReaderOK
      <4> QED BY <4>5, <4>6
    <3> QED BY <1>5, <3>1, <3>2 DEF Xadd
  <2> QED BY <2>0, <2>1, <2>2 DEF TypeOK, LogOK, TtlOK, WriterOK, ReaderOK, Entry
<1>6. CASE Expire
  <2>1. WriterOK'
    <3>1. \/ Proceed /\ UNCHANGED <<faults, crashes>>
          \/ Fault /\ Raise /\ UNCHANGED crashes
      BY <1>6 DEF Expire
    <3>2. crashes \in 0..MaxCrashes /\ faults \in 0..MaxFaults
      BY <1>1 DEF WriterOK
    <3>3. crashes' \in 0..MaxCrashes /\ faults' \in 0..MaxFaults
      BY <1>3, <3>1, <3>2
    <3> QED BY <1>2, <3>1, <3>3
  <2>2. LogOK' /\ TtlOK' /\ ReaderOK'
    <3> DEFINE held == first <= Len(log)
    <3>1. held \in BOOLEAN /\ ttl \in BOOLEAN
      BY <1>1 DEF TtlOK
    <3>2. ttl' = held \/ ttl' \in {ttl, held}
      BY <1>6 DEF Expire
    <3>3. ttl' \in BOOLEAN
      <4> HIDE DEF held
      <4> QED BY <3>1, <3>2
    <3>4. UNCHANGED <<log, first, expired, readerVars>>
      BY <1>6 DEF Expire
    <3> QED BY <1>1, <3>3, <3>4 DEF LogOK, TtlOK, ReaderOK
  <2> QED BY <2>1, <2>2 DEF TypeOK, LogOK, TtlOK, WriterOK, ReaderOK, Entry
<1>7. CASE WorkFails \/ WorkerCrash
  <2>1. WriterOK'
    <3>1. CASE WorkFails
      <4>1. Fault /\ Raise /\ UNCHANGED crashes /\ crashes \in 0..MaxCrashes
        BY <1>1, <3>1 DEF WorkFails, WriterOK
      <4>2. crashes' \in 0..MaxCrashes /\ faults' \in 0..MaxFaults
        BY <1>3, <4>1
      <4> QED BY <1>2, <4>1, <4>2
    <3>2. CASE WorkerCrash
      <4>1. crashes' \in 0..MaxCrashes
        BY <1>1, <3>2 DEF WorkerCrash, WriterOK
      <4> QED BY <1>1, <1>2, <3>2, <4>1 DEF WorkerCrash, WriterOK
    <3> QED BY <1>7, <3>1, <3>2
  <2>0. TtlOK'
    BY <1>1, <1>7 DEF WorkFails, WorkerCrash, TtlOK
  <2>2. LogOK' /\ ReaderOK'
    BY <1>1, <1>7 DEF WorkFails, WorkerCrash, LogOK, ReaderOK
  <2> QED BY <2>0, <2>1, <2>2 DEF TypeOK, LogOK, TtlOK, WriterOK, ReaderOK, Entry
<1> QED BY <1>4, <1>5, <1>6, <1>7 DEF Execution

\* Readers keep their types; what a reader is sent is in the stream (BatchInv).
LEMMA ReaderKeepsType ==
    ASSUME TypeOK, ReplayInv, NEW r \in Readers,
           Connect(r) \/ ReaderStep(r) \/ Disconnect(r)
    PROVE  TypeOK'
<1> USE StreamAssumption DEF streamVars, writerVars, Goto
<1>1. LogOK /\ TtlOK /\ WriterOK /\ ReaderOK /\ Len(log) \in Nat
  BY TypeParts DEF LogOK
<1>2. UNCHANGED <<log, first, ttl, expired, stage, adding, run, retry, chunks, faults, crashes>>
  BY DEF Connect, ReaderStep, Loop, Answer, NoAnswer, Yield, Disconnect
<1>3. LogOK' /\ TtlOK' /\ WriterOK'
  BY <1>1, <1>2 DEF LogOK, TtlOK, WriterOK
<1>4. ReaderOK'
  <2>1. CASE Connect(r)
    BY <1>1, <1>2, <2>1 DEF Connect, Start, ReaderOK, LogOK
  <2>2. CASE Loop(r)
    <3> DEFINE t == Smaller(BlockMax, left[r] \div TicksPerMs) * TicksPerMs
    <3>1. left[r] \in Nat
      BY <1>1 DEF ReaderOK
    <3>2. t \in Forever..BlockMax * TicksPerMs /\ Forever \in Forever..BlockMax * TicksPerMs
      <4> DEFINE m == BlockMax * TicksPerMs
      <4>1. t \in 0..m /\ m \in Nat
        BY <3>1, BlockTicks
      <4> HIDE DEF t, m
      <4>2. t \in -1..m /\ -1 \in -1..m
        BY <4>1
      <4> QED BY <4>2 DEF Forever, m
    <3> HIDE DEF t
    <3>3. /\ at' = [at EXCEPT ![r] = at'[r]] /\ at'[r] \in {"ended", "waiting"}
          /\ UNCHANGED <<last, batch, got, begin, left>>
          /\ timer' = timer \/ timer' = [timer EXCEPT ![r] = Forever]
             \/ timer' = [timer EXCEPT ![r] = t]
      BY <1>1, <2>2 DEF Loop, ReaderOK, t
    <3> QED BY <1>1, <1>2, <3>2, <3>3 DEF ReaderOK
  <2>3. CASE NoAnswer(r) \/ Disconnect(r)
    BY <1>1, <1>2, <2>3 DEF NoAnswer, Disconnect, ReaderOK
  <2>4. CASE Answer(r)
    <3> DEFINE from == NextHeld(r)
    <3>1. from \in 1..Len(log)
      BY <1>1, <2>4 DEF Answer, NextHeld, Larger, LogOK, ReaderOK
    <3>2. Smaller(from + Count - 1, Len(log)) \in 0..Len(log) /\ from - 1 \in 0..Len(log)
      BY <1>1, <3>1 DEF Smaller
    <3> HIDE DEF from
    <3> QED BY <1>1, <1>2, <2>4, <3>2 DEF Answer, ReaderOK, from
  <2>5. CASE Yield(r)
    <3>1. last[r] + 1 \in 1..Len(log)
      BY <1>1, <2>5 DEF Yield, ReplayInv, BatchInv, ReaderOK
    <3> QED BY <1>1, <1>2, <2>5, <3>1 DEF Yield, ReaderOK
  <2> QED BY <2>1, <2>2, <2>3, <2>4, <2>5 DEF ReaderStep
<1> QED BY <1>3, <1>4 DEF TypeOK, LogOK, TtlOK, WriterOK, ReaderOK, Entry

(* Every variable keeps its type, whatever fails, is trimmed or expires.    *)
THEOREM StreamTypeOKHolds == Spec => []TypeOK
<1> USE StreamAssumption
<1>1. Init => TypeOK
  <2>1. BlockMax * TicksPerMs \in Nat
    OBVIOUS
  <2>2. 0 \in Forever..BlockMax * TicksPerMs
    BY <2>1 DEF Forever
  <2>3. Init => LogOK /\ TtlOK /\ WriterOK /\ ReaderOK
    <3> SUFFICES ASSUME Init PROVE LogOK /\ TtlOK /\ WriterOK /\ ReaderOK
      OBVIOUS
    <3>1. LogOK
      BY DEF Init, LogOK
    <3>2. WriterOK
      BY DEF Init, WriterOK
    <3>4. TtlOK
      BY DEF Init, TtlOK
    <3>3. ReaderOK
      BY <2>2, <3>1 DEF Init, ReaderOK, LogOK
    <3> QED BY <3>1, <3>2, <3>3, <3>4
  <2> QED BY <2>3, TypeParts
<1>2. ASSUME TypeOK, ReplayInv, [Next]_vars
      PROVE  TypeOK'
  <2> USE <1>2 DEF streamVars, writerVars, readerVars
  <2>1. LogOK /\ TtlOK /\ WriterOK /\ ReaderOK
    BY TypeParts
  <2>2. CASE KeyExpires
    <3>1. LogOK'
      BY <2>1, <2>2 DEF KeyExpires, LogOK
    <3>2. WriterOK' /\ ReaderOK'
      BY <2>1, <2>2 DEF KeyExpires, WriterOK, ReaderOK
    <3>3. TtlOK'
      BY <2>2 DEF KeyExpires, TtlOK
    <3> QED BY <3>1, <3>2, <3>3 DEF TypeOK, LogOK, TtlOK, WriterOK, ReaderOK, Entry
  <2>3. CASE Tick
    <3>1. LogOK' /\ TtlOK' /\ WriterOK'
      BY <2>1, <2>3 DEF Tick, LogOK, TtlOK, WriterOK
    <3>2. left' \in [Readers -> 0..Timeout]
      BY <2>1, <2>3 DEF Tick, ReaderOK, Larger
    <3>3. timer' \in [Readers -> Forever..BlockMax * TicksPerMs]
      <4> DEFINE m == BlockMax * TicksPerMs
      <4>1. m \in Nat /\ timer \in [Readers -> -1..m]
        BY <2>1 DEF ReaderOK, Forever
      <4> HIDE DEF m
      <4>2. timer' \in [Readers -> -1..m]
        BY <2>3, <4>1 DEF Tick
      <4> QED BY <4>2 DEF Forever, m
    <3>4. ReaderOK'
      BY <2>1, <2>3, <3>2, <3>3 DEF Tick, ReaderOK
    <3> QED BY <3>1, <3>4 DEF TypeOK, LogOK, TtlOK, WriterOK, ReaderOK, Entry
  <2>4. CASE UNCHANGED vars
    <3>1. LogOK' /\ TtlOK' /\ WriterOK' /\ ReaderOK'
      BY <2>1, <2>4 DEF vars, LogOK, TtlOK, WriterOK, ReaderOK
    <3> QED BY <3>1 DEF TypeOK, LogOK, TtlOK, WriterOK, ReaderOK, Entry
  <2> QED BY <2>2, <2>3, <2>4, WriterKeepsType, ReaderKeepsType DEF Next
<1> QED BY <1>1, <1>2, ReplayCorrect, PTL DEF Spec
=============================================================================
