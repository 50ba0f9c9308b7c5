---------------------------- MODULE AnswersProofs ----------------------------
(***************************************************************************)
(* Proofs about TaskAnswers: for any number of clients, executions, faults *)
(* and losses, an answer is the work of one execution.                     *)
(***************************************************************************)
EXTENDS TaskAnswers, TLAPS

USE AnswersAssumption

Trying == {"idle", "load", "mark_db", "mark_cache", "work", "save_db", "save_cache"}

(* Where an execution is tells what it did: it raised before its except     *)
(* block and not while it is still trying, it committed before it caches.   *)
ExecutionInv ==
    \A e \in Runs :
        /\ e > runs => at[e] = "idle"
        /\ at[e] \in {"fail_db", "fail_cache"} => e \in raised
        /\ at[e] \in Trying => e \notin raised
        /\ at[e] = "save_cache" => e \in committed

\* The row keeps an error of an execution that raised, whatever its status.
RowInv ==
    /\ Whole(row)
    /\ row.error \in raised \cup {Null}

WholeInv == TypeOK /\ ExecutionInv /\ RowInv /\ AnswersAreWhole

-----------------------------------------------------------------------------
\* What an execution may write is data, and the columns it leaves stay.
LEMMA WrittenData ==
    ASSUME NEW e \in Runs, NEW data \in Data,
           NEW point \in {"mark_db", "mark_cache", "save_db", "save_cache", "fail_db", "fail_cache"}
    PROVE  /\ Written(point, e, data) \in Data
           /\ point \in {"mark_db", "mark_cache"} =>
                /\ Written(point, e, data).status = "processing"
                /\ Written(point, e, data).error = data.error
           /\ point \in {"save_db", "save_cache"} =>
                /\ Written(point, e, data).status = "completed"
                /\ Written(point, e, data).transcript = Transcript(e)
                /\ Written(point, e, data).response = e
                /\ Written(point, e, data).error = data.error
           /\ point \in {"fail_db", "fail_cache"} =>
                /\ Written(point, e, data).status = "failed"
                /\ Written(point, e, data).error = e
  BY DEF Written, Data, Value, Statuses, Transcript, Null

\* A blank row, a deleted row and a missing entry claim the work of nobody.
LEMMA BlankData ==
    /\ Blank("pending") \in Data
    /\ Blank("pending").status = "pending" /\ Blank("pending").error = Null
    /\ Gone.status = "gone" /\ Missing.status = "missing" /\ Gone.error = Null
    /\ Gone \notin Data /\ Missing \notin Data
  BY DEF Blank, Gone, Missing, Data, Statuses, Value, Null

(* What is whole stays whole: no execution takes back that it raised or     *)
(* committed.                                                               *)
LEMMA WholeStays ==
    ASSUME kind' = kind, committed \subseteq committed', raised \subseteq raised'
    PROVE  \A data : Whole(data) => Whole(data)'
  BY DEF Whole, Transcript

(* A source that does not change stays whole; only a new one needs a look.  *)
LEMMA SourcesStay ==
    ASSUME WholeInv, kind' = kind, committed \subseteq committed', raised \subseteq raised',
           cache' = cache \/ Whole(cache)',
           \A c \in Clients : poll'[c].snap = poll[c].snap \/ Whole(poll[c].snap)'
    PROVE  AnswersAreWhole'
<1>1. Whole(cache)'
  BY WholeStays DEF WholeInv, AnswersAreWhole, Sources
<1>2. ASSUME NEW c \in Clients PROVE Whole(poll[c].snap)'
  BY WholeStays DEF WholeInv, AnswersAreWhole, Sources
<1> QED BY <1>1, <1>2 DEF AnswersAreWhole, Sources

\* A row that does not change stays whole.
LEMMA RowStays ==
    ASSUME WholeInv, kind' = kind, committed \subseteq committed', raised \subseteq raised',
           row' = row
    PROVE  RowInv'
  BY WholeStays DEF WholeInv, RowInv

(* A call moves its execution on, and keeps what its place tells.           *)
LEMMA CallMoves ==
    ASSUME WholeInv, NEW e \in Runs, at[e] \in Points,
           NEW effect \in BOOLEAN, NEW raises \in BOOLEAN, Call(e, effect, raises),
           committed \subseteq committed', committed' \subseteq Runs,
           at[e] = "save_db" /\ effect => e \in committed'
    PROVE  /\ ExecutionInv'
           /\ raised \subseteq raised' /\ raised' \subseteq Runs
           /\ at' \in [Runs -> Points \cup {"idle", "done", "failed", "crashed"}]
           /\ faults' \in 0..MaxFaults
<1> USE DEF WholeInv, ExecutionInv
<1>1. /\ at \in [Runs -> Points \cup {"idle", "done", "failed", "crashed"}]
      /\ raised \subseteq Runs /\ runs' = runs
  BY DEF TypeOK, Call
<1>2. /\ \A d \in Runs \ {e} : at'[d] = at[d]
      /\ at'[e] = IF raises THEN OnRaise(at[e]) ELSE NextPoint(at[e])
      /\ at' \in [Runs -> Points \cup {"idle", "done", "failed", "crashed"}]
  BY <1>1 DEF Call, OnRaise, NextPoint, Points
<1>3. raised' = IF at'[e] = "fail_db" THEN raised \cup {e} ELSE raised
  BY DEF Call
<1>4. faults' \in 0..MaxFaults
  BY DEF Call, TypeOK
<1>5. ASSUME NEW d \in Runs, d # e
      PROVE  /\ d > runs' => at'[d] = "idle"
             /\ at'[d] \in {"fail_db", "fail_cache"} => d \in raised'
             /\ at'[d] \in Trying => d \notin raised'
             /\ at'[d] = "save_cache" => d \in committed'
  BY <1>1, <1>2, <1>3, <1>5
<1>6. /\ e > runs' => at'[e] = "idle"
      /\ at'[e] \in {"fail_db", "fail_cache"} => e \in raised'
      /\ at'[e] \in Trying => e \notin raised'
      /\ at'[e] = "save_cache" => e \in committed'
  <2>1. ~(e > runs)
    BY DEF Points
  <2>2. CASE raises
    BY <1>1, <1>2, <1>3, <2>1, <2>2 DEF OnRaise, Trying, Points
  <2>3. CASE ~raises
    <3>1. effect
      BY <2>3 DEF Call
    <3> QED BY <1>1, <1>2, <1>3, <2>1, <2>3, <3>1 DEF NextPoint, Trying, Points
  <2> QED BY <2>2, <2>3
<1> QED BY <1>2, <1>3, <1>4, <1>5, <1>6, <1>1

-----------------------------------------------------------------------------
(* At first there is neither a result nor an error.                         *)
LEMMA InitWhole == Init => WholeInv
<1> SUFFICES ASSUME Init PROVE WholeInv
  OBVIOUS
<1>1. TypeOK
  BY BlankData DEF Init, TypeOK, Points, Runs
<1>2. ExecutionInv
  BY DEF Init, ExecutionInv, Trying
<1>3. RowInv /\ AnswersAreWhole
  BY BlankData DEF Init, RowInv, AnswersAreWhole, Sources, Whole
<1> QED BY <1>1, <1>2, <1>3 DEF WholeInv

(* A delivery starts an execution that was idle, so has not raised.         *)
LEMMA BeginWhole == WholeInv /\ Begin => WholeInv'
<1> SUFFICES ASSUME WholeInv, Begin PROVE WholeInv'
  OBVIOUS
<1>1. /\ runs' = runs + 1 /\ runs + 1 \in Runs /\ runs \in 0..MaxRuns
      /\ at' = [at EXCEPT ![runs + 1] = "load"]
      /\ UNCHANGED <<kind, row, cache, filler, poll, seen, committed, raised, faults>>
      /\ losses' \in 0..MaxLosses
  BY DEF Begin, WholeInv, TypeOK, Runs, history
<1>2. TypeOK'
  BY <1>1 DEF WholeInv, TypeOK, Points, Runs, Data, Value
<1>3. ExecutionInv'
  BY <1>1 DEF WholeInv, ExecutionInv, TypeOK, Trying, Runs
<1> QED BY <1>1, <1>2, <1>3, RowStays, SourcesStay DEF WholeInv

(* A call that writes neither row nor cache.                                *)
LEMMA SilentWhole ==
    ASSUME WholeInv, NEW e \in Runs, Load(e) \/ Work(e) \/ Crash(e)
    PROVE  WholeInv'
<1>1. UNCHANGED <<kind, row, cache, filler, runs, poll, seen, committed>>
  BY DEF Load, Work, Crash, Call, history
<1>2. CASE \E raises \in BOOLEAN : at[e] \in Points /\ Call(e, TRUE, raises) /\ at[e] # "save_db"
  <2>1. /\ ExecutionInv'
        /\ raised \subseteq raised' /\ raised' \subseteq Runs
        /\ at' \in [Runs -> Points \cup {"idle", "done", "failed", "crashed"}]
        /\ faults' \in 0..MaxFaults /\ losses' = losses
    BY <1>1, <1>2, CallMoves DEF WholeInv, TypeOK, Call
  <2>2. TypeOK'
    BY <1>1, <2>1 DEF WholeInv, TypeOK
  <2> QED BY <1>1, <2>1, <2>2, RowStays, SourcesStay DEF WholeInv
<1>3. CASE \E point \in {"failed", "crashed"} :
             /\ at[e] \in Points /\ at' = [at EXCEPT ![e] = point]
             /\ UNCHANGED <<raised, faults>> /\ losses' \in 0..MaxLosses
  <2>1. TypeOK'
    BY <1>1, <1>3 DEF WholeInv, TypeOK
  <2>2. ExecutionInv'
    BY <1>1, <1>3 DEF WholeInv, ExecutionInv, TypeOK, Trying, Points
  <2> QED BY <1>1, <1>3, <2>1, <2>2, RowStays, SourcesStay DEF WholeInv
<1>4. CASE Load(e)
  BY <1>2, <1>3, <1>4 DEF Load, Points, bounds, WholeInv, TypeOK
<1>5. CASE Work(e)
  BY <1>2, <1>5 DEF Work, Points
<1>6. CASE Crash(e)
  BY <1>3, <1>6 DEF Crash, Points, WholeInv, TypeOK, history
<1> QED BY <1>4, <1>5, <1>6

(* An UPDATE leaves a whole row: it sets status, transcript and response of *)
(* one execution at once, while the error that stays is another one's.      *)
LEMMA WriteRowWhole ==
    ASSUME WholeInv, NEW e \in Runs, WriteRow(e)
    PROVE  WholeInv'
<1> PICK effect \in BOOLEAN, raises \in BOOLEAN :
      /\ Call(e, effect, raises)
      /\ row' = IF effect THEN RepoUpdate(e) ELSE row
      /\ committed' = IF effect /\ at[e] = "save_db" THEN committed \cup {e} ELSE committed
  BY DEF WriteRow
<1>1. /\ UNCHANGED <<kind, cache, filler, runs, poll, seen, losses>>
      /\ at[e] \in {"mark_db", "save_db", "fail_db"}
      /\ committed \subseteq Runs /\ committed \subseteq committed' /\ committed' \subseteq Runs
  BY DEF WriteRow, Call, WholeInv, TypeOK
<1>2. /\ ExecutionInv'
      /\ raised \subseteq raised' /\ raised' \subseteq Runs
      /\ at' \in [Runs -> Points \cup {"idle", "done", "failed", "crashed"}]
      /\ faults' \in 0..MaxFaults
  BY <1>1, CallMoves DEF Points
<1>3. AnswersAreWhole'
  BY <1>1, <1>2, SourcesStay
<1>4. CASE row' = row
  <2>1. TypeOK'
    BY <1>1, <1>2, <1>4 DEF WholeInv, TypeOK
  <2> QED BY <1>1, <1>2, <1>3, <1>4, <2>1, RowStays DEF WholeInv
<1>5. CASE row' # row
  <2>1. effect /\ row \in Data /\ row' = Written(at[e], e, row)
    BY <1>5 DEF RepoUpdate, WholeInv, TypeOK
  <2>2. row' \in Data
    BY <1>1, <2>1, WrittenData
  <2>3. TypeOK'
    BY <1>1, <1>2, <2>2 DEF WholeInv, TypeOK
  <2>4. CASE at[e] = "mark_db"
    <3>1. row'.status = "processing" /\ row'.error = row.error
      BY <2>1, <2>4, WrittenData
    <3> QED BY <1>2, <1>3, <2>3, <3>1 DEF WholeInv, RowInv, Whole
  <2>5. CASE at[e] = "save_db"
    <3>1. /\ row'.status = "completed" /\ row'.transcript = Transcript(e)
          /\ row'.response = e /\ row'.error = row.error
      BY <2>1, <2>5, WrittenData
    <3>2. e \in committed' /\ e \notin raised /\ row.error \in raised \cup {Null}
      BY <2>1, <2>5 DEF WholeInv, ExecutionInv, Trying, RowInv
    <3>3. Transcript(row.response)' = Transcript(e)
      BY <1>1, <3>1 DEF Transcript
    <3> QED BY <1>2, <1>3, <2>3, <3>1, <3>2, <3>3 DEF WholeInv, RowInv, Whole
  <2>6. CASE at[e] = "fail_db"
    <3>1. row'.status = "failed" /\ row'.error = e
      BY <2>1, <2>6, WrittenData
    <3>2. e \in raised'
      BY <1>2, <2>6 DEF WholeInv, ExecutionInv
    <3> QED BY <1>2, <1>3, <2>3, <3>1, <3>2 DEF WholeInv, RowInv, Whole
  <2> QED BY <1>1, <2>4, <2>5, <2>6
<1> QED BY <1>4, <1>5

(* A cached dict is whole: its keys are those of one execution.             *)
LEMMA WriteCacheWhole ==
    ASSUME WholeInv, NEW e \in Runs, WriteCache(e)
    PROVE  WholeInv'
<1> PICK effect \in BOOLEAN, raises \in BOOLEAN :
      /\ Call(e, effect, raises)
      /\ cache' = IF effect THEN CacheSet(e) ELSE cache
      /\ filler' = IF effect THEN "pipeline" ELSE filler
  BY DEF WriteCache
<1>1. /\ UNCHANGED <<kind, row, runs, poll, seen, committed, losses>>
      /\ at[e] \in {"mark_cache", "save_cache", "fail_cache"}
      /\ committed \subseteq Runs /\ filler' \in Clients \cup {"pipeline"}
  BY DEF WriteCache, Call, WholeInv, TypeOK
<1>2. /\ ExecutionInv'
      /\ raised \subseteq raised' /\ raised' \subseteq Runs
      /\ at' \in [Runs -> Points \cup {"idle", "done", "failed", "crashed"}]
      /\ faults' \in 0..MaxFaults
  BY <1>1, CallMoves DEF Points
<1>3. CASE cache' = cache
  <2>1. TypeOK'
    BY <1>1, <1>2, <1>3 DEF WholeInv, TypeOK
  <2> QED BY <1>1, <1>2, <1>3, <2>1, RowStays, SourcesStay DEF WholeInv
<1>4. CASE cache' = Written(at[e], e, Blank("pending"))
  <2>1. cache' \in Data
    BY <1>1, <1>4, WrittenData, BlankData
  <2>2. TypeOK'
    BY <1>1, <1>2, <2>1 DEF WholeInv, TypeOK
  <2>3. Whole(cache)'
    <3>1. CASE at[e] = "mark_cache"
      <4>1. cache'.status = "processing"
        BY <1>4, <3>1, WrittenData, BlankData
      <4> QED BY <4>1 DEF Whole
    <3>2. CASE at[e] = "save_cache"
      <4>1. /\ cache'.status = "completed" /\ cache'.transcript = Transcript(e)
            /\ cache'.response = e /\ cache'.error = Null
        BY <1>4, <3>2, WrittenData, BlankData
      <4>2. e \in committed'
        BY <1>1, <3>2 DEF WholeInv, ExecutionInv
      <4>3. Transcript(cache.response)' = Transcript(e)
        BY <1>1, <4>1 DEF Transcript
      <4> QED BY <4>1, <4>2, <4>3 DEF Whole
    <3>3. CASE at[e] = "fail_cache"
      <4>1. cache'.status = "failed" /\ cache'.error = e
        BY <1>4, <3>3, WrittenData, BlankData
      <4>2. e \in raised'
        BY <1>2, <3>3 DEF WholeInv, ExecutionInv
      <4> QED BY <4>1, <4>2 DEF Whole
    <3> QED BY <1>1, <3>1, <3>2, <3>3
  <2> QED BY <1>1, <1>2, <2>2, <2>3, RowStays, SourcesStay DEF WholeInv
<1> QED BY <1>3, <1>4 DEF CacheSet

-----------------------------------------------------------------------------
\* Clients and the expiry only hand on what is whole.
LEMMA ClientWhole ==
    ASSUME WholeInv,
           CacheExpire \/ \E c \in Clients : Hit(c) \/ Miss(c) \/ Read(c) \/ Fill(c) \/ Abort(c)
    PROVE  WholeInv'
<1>1. UNCHANGED <<kind, row, runs, at, committed, raised, faults, losses>>
  BY DEF CacheExpire, Hit, Miss, Read, Fill, Abort, pipeline, history, bounds
<1>2. ExecutionInv'
  BY <1>1 DEF WholeInv, ExecutionInv
<1>3. RowInv'
  BY <1>1, RowStays
<1>4. Whole(Missing)'
  BY BlankData DEF Whole
<1>5. /\ cache' \in Data \cup {Missing}
      /\ cache' = cache \/ Whole(cache)'
  <2>1. CASE CacheExpire
    BY <1>4, <2>1 DEF CacheExpire
  <2>2. ASSUME NEW c \in Clients, Hit(c) \/ Miss(c) \/ Read(c) \/ Abort(c)
        PROVE  cache' = cache
    BY <2>2 DEF Hit, Miss, Read, Abort
  <2>3. ASSUME NEW c \in Clients, Fill(c)
        PROVE  cache' \in Data /\ Whole(cache)'
    <3>1. poll[c].snap \in Data /\ Whole(poll[c].snap)
      BY <2>3, BlankData DEF Fill, WholeInv, TypeOK, AnswersAreWhole, Sources
    <3>2. cache' = poll[c].snap
      BY <2>3, <3>1 DEF Fill, Filled, Data
    <3> QED BY <1>1, <3>1, <3>2 DEF Whole, Transcript
  <2> QED BY <2>1, <2>2, <2>3 DEF WholeInv, TypeOK
<1>6. \A c \in Clients : poll'[c].snap = poll[c].snap \/ Whole(poll[c].snap)'
  <2> SUFFICES ASSUME NEW c \in Clients
               PROVE  poll'[c].snap = poll[c].snap \/ Whole(poll[c].snap)'
    OBVIOUS
  <2>1. \/ poll'[c] = poll[c]
        \/ poll'[c].snap = Missing
        \/ poll'[c].snap = poll[c].snap
        \/ poll'[c].snap = row
    BY DEF CacheExpire, Hit, Miss, Read, Fill, Abort, Idle, WholeInv, TypeOK
  <2> QED BY <1>1, <1>3, <1>4, <2>1 DEF RowInv, Whole, Transcript
<1>7. poll' \in [Clients -> [at : {"idle", "read"}, snap : {Missing}]
                            \cup [at : {"fill"}, snap : Data]]
  BY DEF CacheExpire, Hit, Miss, Read, Fill, Abort, Idle, WholeInv, TypeOK
<1>8. seen' \in [Clients -> 0..2] /\ filler' \in Clients \cup {"pipeline"}
  BY DEF CacheExpire, Hit, Miss, Read, Fill, Abort, Answer, Rank, WholeInv, TypeOK
<1>9. TypeOK'
  BY <1>1, <1>5, <1>7, <1>8 DEF WholeInv, TypeOK
<1> QED BY <1>1, <1>2, <1>3, <1>5, <1>6, <1>9, SourcesStay DEF WholeInv

\* A deleted row is no source.
LEMMA DeleteWhole == WholeInv /\ DeleteOld => WholeInv'
<1> SUFFICES ASSUME WholeInv, DeleteOld PROVE WholeInv'
  OBVIOUS
<1>1. /\ row' = Gone
      /\ UNCHANGED <<kind, runs, at, committed, raised, faults, losses, cache, filler, poll, seen>>
  BY DEF DeleteOld, history, bounds
<1>2. TypeOK' /\ ExecutionInv'
  BY <1>1 DEF WholeInv, TypeOK, ExecutionInv
<1>3. RowInv'
  BY <1>1, BlankData DEF RowInv, Whole
<1> QED BY <1>1, <1>2, <1>3, SourcesStay DEF WholeInv

(* The inductive invariant of whole answers: every step of an execution, a   *)
(* poll, the cache and the retention loop keeps it.                         *)
THEOREM WholeCorrect == Spec => []WholeInv
<1>1. WholeInv /\ [Next]_vars => WholeInv'
  <2> SUFFICES ASSUME WholeInv, [Next]_vars PROVE WholeInv'
    OBVIOUS
  <2>1. CASE UNCHANGED vars
    <3>1. UNCHANGED <<kind, row, cache, filler, runs, at, poll, seen, committed, raised,
                      faults, losses>>
      BY <2>1 DEF vars, history, bounds
    <3>2. TypeOK' /\ ExecutionInv'
      BY <3>1 DEF WholeInv, TypeOK, ExecutionInv
    <3> QED BY <3>1, <3>2, RowStays, SourcesStay DEF WholeInv
  <2> QED
    BY <2>1, BeginWhole, SilentWhole, WriteRowWhole, WriteCacheWhole, ClientWhole, DeleteWhole
    DEF Next
<1> QED BY <1>1, InitWhole, PTL DEF Spec

\* Every variable keeps its type, for any number of clients and executions.
THEOREM AnswersTypeOKHolds == Spec => []TypeOK
<1>1. WholeInv => TypeOK
  BY DEF WholeInv
<1> QED BY <1>1, WholeCorrect, PTL

(* An answer is the work of one execution, cached or not, for any number of *)
(* clients, executions, faults and lost deliveries.                         *)
THEOREM AnswersAreWholeHolds == Spec => []AnswersAreWhole
<1>1. WholeInv => AnswersAreWhole
  BY DEF WholeInv
<1> QED BY <1>1, WholeCorrect, PTL

-----------------------------------------------------------------------------
(***************************************************************************)
(* No client sees a first execution go back.  The row moves forward only,  *)
(* the cache follows the row, and what a client has seen bounds everything *)
(* it may be answered from, but an entry another client filled.            *)
(***************************************************************************)
RowRank == Rank(row.status)

OrderInv ==
    runs <= 1 =>
      /\ runs = 0 => RowRank <= 1
      /\ \A e \in Runs :
           /\ at[e] \in {"load", "mark_db"} => RowRank <= 1
           /\ at[e] = "mark_cache" => RowRank = 1
           /\ at[e] \in {"save_cache", "fail_cache"} => RowRank = 2
      /\ cache # Missing => Rank(cache.status) <= RowRank
      /\ \A c \in Clients :
           /\ poll[c].at = "fill" => Rank(poll[c].snap.status) <= RowRank
           /\ seen[c] <= RowRank
           /\ seen[c] <= Rank(poll[c].snap.status)
           /\ filler \in {"pipeline", c} => seen[c] <= Rank(cache.status)

\* How far each status of a task has got.
LEMMA Ranks ==
    /\ \A status : Rank(status) \in 0..2
    /\ Rank("pending") = 0 /\ Rank("processing") = 1
    /\ Rank("completed") = 2 /\ Rank("failed") = 2
    /\ Rank("gone") = 2 /\ Rank("missing") = 2
  BY DEF Rank

(* A step that moves executions only, and not into a point that claims more *)
(* of the row than holds.                                                   *)
LEMMA OrderFrame ==
    ASSUME OrderInv, runs' <= 1 => runs <= 1 /\ (runs' = 0 => runs = 0),
           UNCHANGED <<row, cache, filler, poll, seen>>,
           runs' <= 1 => \A e \in Runs :
             /\ at'[e] \in {"load", "mark_db"} => RowRank <= 1
             /\ at'[e] = "mark_cache" => RowRank = 1
             /\ at'[e] \in {"save_cache", "fail_cache"} => RowRank = 2
    PROVE  OrderInv'
  BY DEF OrderInv, RowRank

\* While one execution has begun, no other one is anywhere.
LEMMA OneBegun ==
    ASSUME WholeInv, runs <= 1, NEW e \in Runs, at[e] \in Points
    PROVE  /\ runs = 1 /\ e = 1
           /\ \A d \in Runs \ {e} : at[d] = "idle"
<1>1. runs \in 0..MaxRuns /\ e \in 1..MaxRuns /\ MaxRuns \in Nat
  BY DEF WholeInv, TypeOK, Runs
<1>2. ~(e > runs)
  BY DEF WholeInv, ExecutionInv, Points
<1>3. runs = 1 /\ e = 1
  BY <1>1, <1>2
<1>4. \A d \in Runs \ {e} : d > runs
  BY <1>1, <1>3 DEF Runs
<1> QED BY <1>3, <1>4 DEF WholeInv, ExecutionInv

\* A first execution finds the row as submit wrote it.
LEMMA BeginOrder == WholeInv /\ OrderInv /\ Begin => OrderInv'
<1> SUFFICES ASSUME WholeInv, OrderInv, Begin PROVE OrderInv'
  OBVIOUS
<1>1. /\ runs' = runs + 1 /\ runs + 1 \in Runs /\ runs \in Nat
      /\ at' = [at EXCEPT ![runs + 1] = "load"] /\ at \in [Runs -> Points \cup {"idle", "done", "failed", "crashed"}]
      /\ UNCHANGED <<row, cache, filler, poll, seen>>
  BY DEF Begin, WholeInv, TypeOK, Runs, history
<1>2. ASSUME runs' <= 1, NEW e \in Runs
      PROVE  /\ at'[e] \in {"load", "mark_db"} => RowRank <= 1
             /\ at'[e] = "mark_cache" => RowRank = 1
             /\ at'[e] \in {"save_cache", "fail_cache"} => RowRank = 2
  BY <1>1, <1>2 DEF OrderInv
<1> QED BY <1>1, <1>2, OrderFrame

\* Reading the row, working and crashing write neither the row nor the cache.
LEMMA SilentOrder ==
    ASSUME WholeInv, OrderInv, NEW e \in Runs, Load(e) \/ Work(e) \/ Crash(e)
    PROVE  OrderInv'
<1>1. /\ UNCHANGED <<row, cache, filler, runs, poll, seen>>
      /\ at[e] \in {"load", "work"} \/ at' = [at EXCEPT ![e] = "crashed"]
      /\ \A d \in Runs \ {e} : at'[d] = at[d]
      /\ at[e] = "load" => at'[e] \in {"mark_db", "failed", "crashed"}
      /\ at[e] = "work" => at'[e] \in {"save_db", "fail_db", "crashed"}
      /\ at \in [Runs -> Points \cup {"idle", "done", "failed", "crashed"}]
  BY DEF Load, Work, Crash, Call, history, OnRaise, NextPoint, WholeInv, TypeOK
<1>2. ASSUME runs' <= 1, NEW d \in Runs
      PROVE  /\ at'[d] \in {"load", "mark_db"} => RowRank <= 1
             /\ at'[d] = "mark_cache" => RowRank = 1
             /\ at'[d] \in {"save_cache", "fail_cache"} => RowRank = 2
  <2>1. CASE d = e
    BY <1>1, <1>2, <2>1 DEF OrderInv
  <2>2. CASE d # e
    BY <1>1, <1>2, <2>2 DEF OrderInv
  <2> QED BY <2>1, <2>2
<1> QED BY <1>1, <1>2, OrderFrame

(* A first execution moves the row forward.                                 *)
LEMMA WriteRowOrder ==
    ASSUME WholeInv, OrderInv, NEW e \in Runs, WriteRow(e)
    PROVE  OrderInv'
<1> PICK effect \in BOOLEAN, raises \in BOOLEAN :
      /\ Call(e, effect, raises)
      /\ row' = IF effect THEN RepoUpdate(e) ELSE row
  BY DEF WriteRow
<1>1. /\ UNCHANGED <<cache, filler, runs, poll, seen>>
      /\ at[e] \in {"mark_db", "save_db", "fail_db"} /\ at[e] \in Points
      /\ \A d \in Runs \ {e} : at'[d] = at[d]
      /\ at'[e] = IF raises THEN OnRaise(at[e]) ELSE NextPoint(at[e])
      /\ effect \/ raises
  BY DEF WriteRow, Call, WholeInv, TypeOK, Points
<1> SUFFICES ASSUME runs <= 1 PROVE OrderInv'
  BY <1>1 DEF OrderInv
<1>2. runs = 1 /\ \A d \in Runs \ {e} : at[d] = "idle"
  BY <1>1, OneBegun
<1>3. RowRank \in 0..2 /\ RowRank' \in 0..2
  BY Ranks DEF RowRank
<1>4. effect => \/ row = Gone /\ row' = Gone
                \/ row \in Data /\ row' = Written(at[e], e, row)
  BY DEF RepoUpdate, WholeInv, TypeOK
<1>5. CASE at[e] = "mark_db"
  <2>1. RowRank <= 1
    BY <1>5 DEF OrderInv
  <2>2. row # Gone
    BY <2>1, Ranks, BlankData DEF RowRank
  <2>3. effect => row'.status = "processing"
    BY <1>4, <1>5, <2>2, WrittenData
  <2>4. effect => RowRank' = 1
    BY <2>3, Ranks DEF RowRank
  <2>5. RowRank <= RowRank' /\ RowRank' <= 1
    BY <1>3, <2>1, <2>4 DEF RowRank
  <2>6. /\ raises => at'[e] = "failed"
        /\ ~raises => at'[e] = "mark_cache" /\ RowRank' = 1
    BY <1>1, <1>5, <2>4 DEF OnRaise, NextPoint
  <2>7. \A d \in Runs :
           /\ at'[d] \in {"load", "mark_db"} => RowRank' <= 1
           /\ at'[d] = "mark_cache" => RowRank' = 1
           /\ at'[d] \in {"save_cache", "fail_cache"} => RowRank' = 2
    BY <1>1, <1>2, <2>6
  <2> QED BY <1>1, <1>2, <1>3, <2>5, <2>7, Ranks DEF OrderInv, WholeInv, TypeOK
<1>6. CASE at[e] \in {"save_db", "fail_db"}
  <2>1. effect => row'.status \in {"completed", "failed", "gone"}
    BY <1>4, <1>6, WrittenData, BlankData
  <2>2. effect => RowRank' = 2
    BY <2>1, Ranks DEF RowRank
  <2>3. RowRank <= RowRank'
    BY <1>3, <2>2 DEF RowRank
  <2>4. /\ raises => at'[e] \in {"fail_db", "failed"}
        /\ ~raises => at'[e] \in {"save_cache", "fail_cache"} /\ RowRank' = 2
    BY <1>1, <1>6, <2>2 DEF OnRaise, NextPoint
  <2>5. \A d \in Runs :
           /\ at'[d] \in {"load", "mark_db"} => RowRank' <= 1
           /\ at'[d] = "mark_cache" => RowRank' = 1
           /\ at'[d] \in {"save_cache", "fail_cache"} => RowRank' = 2
    BY <1>1, <1>2, <2>4
  <2> QED BY <1>1, <1>2, <1>3, <2>3, <2>5, Ranks DEF OrderInv, WholeInv, TypeOK
<1> QED BY <1>1, <1>5, <1>6

(* The cache is told of what the row says already.                          *)
LEMMA WriteCacheOrder ==
    ASSUME WholeInv, OrderInv, NEW e \in Runs, WriteCache(e)
    PROVE  OrderInv'
<1> PICK effect \in BOOLEAN, raises \in BOOLEAN :
      /\ Call(e, effect, raises)
      /\ cache' = IF effect THEN CacheSet(e) ELSE cache
      /\ filler' = IF effect THEN "pipeline" ELSE filler
  BY DEF WriteCache
<1>1. /\ UNCHANGED <<row, runs, poll, seen>>
      /\ at[e] \in {"mark_cache", "save_cache", "fail_cache"} /\ at[e] \in Points
      /\ \A d \in Runs \ {e} : at'[d] = at[d]
      /\ at'[e] = IF raises THEN OnRaise(at[e]) ELSE NextPoint(at[e])
  BY DEF WriteCache, Call, WholeInv, TypeOK, Points
<1> SUFFICES ASSUME runs <= 1 PROVE OrderInv'
  BY <1>1 DEF OrderInv
<1>2. runs = 1 /\ \A d \in Runs \ {e} : at[d] = "idle"
  BY <1>1, OneBegun
<1>3. at'[e] \in {"work", "done", "failed", "fail_db"}
  BY <1>1 DEF OnRaise, NextPoint
<1>4. effect => Rank(cache'.status) = RowRank
  <2>1. CASE at[e] = "mark_cache"
    BY <2>1, <1>2, WrittenData, BlankData, Ranks DEF CacheSet, OrderInv
  <2>2. CASE at[e] \in {"save_cache", "fail_cache"}
    BY <2>2, <1>2, WrittenData, BlankData, Ranks DEF CacheSet, OrderInv
  <2> QED BY <1>1, <2>1, <2>2
<1>5. RowRank' = RowRank /\ RowRank \in 0..2
  BY <1>1, Ranks DEF RowRank
<1> QED BY <1>1, <1>2, <1>3, <1>4, <1>5, Ranks DEF OrderInv, WholeInv, TypeOK

(* A poll hands on what it read, which is no more than the row says and no  *)
(* less than its client has seen.                                           *)
LEMMA ClientOrder ==
    ASSUME WholeInv, OrderInv, NEW c \in Clients,
           Hit(c) \/ Miss(c) \/ Read(c) \/ Fill(c) \/ Abort(c)
    PROVE  /\ OrderInv'
           /\ runs <= 1 => seen'[c] >= seen[c] \/ filler \in Clients \ {c}
<1>1. /\ UNCHANGED <<row, runs, at>> /\ RowRank' = RowRank
      /\ \A d \in Clients \ {c} : poll'[d] = poll[d] /\ seen'[d] = seen[d]
  BY DEF Hit, Miss, Read, Fill, Abort, pipeline, Idle, Answer, RowRank, WholeInv, TypeOK
<1>2. \A d \in Clients : seen[d] \in 0..2
  BY DEF WholeInv, TypeOK
<1> SUFFICES ASSUME runs <= 1
             PROVE  OrderInv' /\ (seen'[c] >= seen[c] \/ filler \in Clients \ {c})
  BY <1>1 DEF OrderInv
<1>3. ASSUME cache' # Missing => Rank(cache'.status) <= RowRank,
             poll'[c].at = "fill" => Rank(poll'[c].snap.status) <= RowRank,
             seen'[c] <= RowRank, seen'[c] <= Rank(poll'[c].snap.status),
             \A d \in Clients : filler' \in {"pipeline", d} => seen'[d] <= Rank(cache'.status)
      PROVE  OrderInv'
  BY <1>1, <1>3 DEF OrderInv
<1>4. CASE Hit(c)
  <2>1. /\ UNCHANGED <<cache, filler, poll>> /\ cache # Missing
        /\ seen'[c] = Rank(cache.status) /\ poll[c].snap = Missing
    BY <1>4 DEF Hit, Answer, WholeInv, TypeOK
  <2>2. seen'[c] <= Rank(poll[c].snap.status) /\ seen'[c] <= RowRank
    BY <2>1, Ranks, BlankData DEF OrderInv
  <2>3. OrderInv'
    BY <1>1, <1>2, <1>3, <2>1, <2>2, Ranks DEF OrderInv
  <2>4. filler \in {"pipeline", c} => seen'[c] >= seen[c]
    BY <2>1, <1>2, Ranks DEF OrderInv
  <2> QED BY <2>3, <2>4 DEF WholeInv, TypeOK
<1>5. CASE Fill(c)
  <2>1. /\ poll[c].at = "fill" /\ poll[c].snap \in Data
        /\ cache' = poll[c].snap /\ filler' = c
        /\ seen'[c] \in {Rank(poll[c].snap.status), seen[c]}
        /\ poll'[c].at = "idle" /\ poll'[c].snap = Missing
    BY <1>5, BlankData DEF Fill, Filled, Data, Idle, Answer, WholeInv, TypeOK
  <2>2. seen'[c] >= seen[c] /\ seen'[c] <= RowRank /\ seen'[c] <= Rank(cache'.status)
    BY <1>2, <2>1, Ranks DEF OrderInv, RowRank
  <2>3. seen'[c] <= Rank(poll'[c].snap.status)
    BY <1>2, <2>1, Ranks, BlankData
  <2>4. \A d \in Clients : filler' \in {"pipeline", d} => seen'[d] <= Rank(cache'.status)
    <3>1. ASSUME NEW d \in Clients, d # c, filler' \in {"pipeline", d}
          PROVE  FALSE
      BY <2>1, <3>1
    <3> QED BY <2>2, <3>1
  <2> QED BY <1>3, <2>1, <2>2, <2>3, <2>4 DEF OrderInv
<1>6. CASE Miss(c) \/ Read(c) \/ Abort(c)
  <2>1. UNCHANGED <<cache, filler, seen>>
    BY <1>6 DEF Miss, Read, Abort
  <2>2. \/ poll'[c].at # "fill" /\ poll'[c].snap = Missing
        \/ poll'[c].snap = row
    BY <1>6 DEF Miss, Read, Abort, Idle, WholeInv, TypeOK
  <2>3. /\ poll'[c].at = "fill" => Rank(poll'[c].snap.status) <= RowRank
        /\ seen'[c] <= Rank(poll'[c].snap.status)
    BY <1>2, <2>1, <2>2, Ranks, BlankData DEF OrderInv, RowRank
  <2> QED BY <1>2, <1>3, <2>1, <2>3 DEF OrderInv
<1> QED BY <1>4, <1>5, <1>6

\* Without an entry or a row there is nothing to go back to.
LEMMA ExpireOrder == WholeInv /\ OrderInv /\ (CacheExpire \/ DeleteOld) => OrderInv'
<1> SUFFICES ASSUME WholeInv, OrderInv, CacheExpire \/ DeleteOld PROVE OrderInv'
  OBVIOUS
<1>1. \A c \in Clients : seen[c] \in 0..2
  BY DEF WholeInv, TypeOK
<1>2. CASE CacheExpire
  BY <1>1, <1>2, Ranks, BlankData DEF CacheExpire, pipeline, OrderInv, RowRank
<1>3. CASE DeleteOld
  <2>1. RowRank = 2 /\ RowRank' = 2
    BY <1>3, Ranks, BlankData DEF DeleteOld, RowRank
  <2> QED BY <1>3, <2>1 DEF DeleteOld, OrderInv
<1> QED BY <1>2, <1>3

(* The order of the sources is inductive: the pipeline writes the row before *)
(* the cache, and a poll fills the cache with what the row was.             *)
THEOREM OrderCorrect == Spec => []OrderInv
<1>1. Init => OrderInv
  <2> SUFFICES ASSUME Init PROVE OrderInv
    OBVIOUS
  <2>1. RowRank = 0 /\ Rank(cache.status) = 0
    BY Ranks, BlankData DEF Init, RowRank
  <2> QED BY <2>1, Ranks, BlankData DEF Init, OrderInv
<1>2. WholeInv /\ OrderInv /\ [Next]_vars => OrderInv'
  <2> SUFFICES ASSUME WholeInv, OrderInv, [Next]_vars PROVE OrderInv'
    OBVIOUS
  <2>1. CASE UNCHANGED vars
    BY <2>1 DEF vars, OrderInv, RowRank
  <2> QED
    BY <2>1, BeginOrder, SilentOrder, WriteRowOrder, WriteCacheOrder, ClientOrder, ExpireOrder
    DEF Next
<1> QED BY <1>1, <1>2, WholeCorrect, PTL DEF Spec

(* While a task is executed for the first time, no client sees it go back,  *)
(* unless the entry it hits was filled by another client; for any number of *)
(* clients, faults and expiries.                                            *)
THEOREM NeverBackHolds == Spec => NeverBack
<1>1. WholeInv /\ OrderInv /\ [Next]_vars =>
        [\A c \in Clients : runs <= 1 => seen'[c] >= seen[c] \/ filler \in Clients \ {c}]_vars
  <2> SUFFICES ASSUME WholeInv, OrderInv, Next, NEW c \in Clients, runs <= 1
               PROVE  seen'[c] >= seen[c] \/ filler \in Clients \ {c}
    OBVIOUS
  <2>1. seen[c] \in 0..2
    BY DEF WholeInv, TypeOK
  <2>2. CASE seen'[c] = seen[c]
    BY <2>1, <2>2
  <2>3. CASE seen'[c] # seen[c]
    <3>1. Hit(c) \/ Fill(c)
      BY <2>3 DEF Next, Begin, CacheExpire, DeleteOld, Load, Work, WriteRow, WriteCache, Crash,
                  Call, Hit, Miss, Read, Fill, Abort, Answer, WholeInv, TypeOK
    <3> QED BY <3>1, ClientOrder
  <2> QED BY <2>2, <2>3
<1> QED BY <1>1, WholeCorrect, OrderCorrect, PTL DEF NeverBack, Spec
=============================================================================
