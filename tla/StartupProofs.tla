---------------------------- MODULE StartupProofs ----------------------------
(***************************************************************************)
(* Proofs about Startup: a container serves only when it can, and races    *)
(* cost it at most two starts.                                             *)
(***************************************************************************)
EXTENDS Startup, TLAPS

\* What is there for c: committed, or made by its own transaction.
Sees(c) == objects \cup made[c]

\* Past its migration.
Migrated == {"head_bucket", "create_bucket", "declare", "serving"}

\* How far c is says what there is for it.
ProgressInv ==
    \A c \in Containers :
        /\ pc[c] = "tasks" => {"alembic_version"} \subseteq Sees(c)
        /\ pc[c] = "output_mode" => Schema(1) \subseteq Sees(c)
        /\ pc[c] = "commit" => Schema(Head) = Sees(c)
        /\ pc[c] \in Migrated => revision = Head
        /\ pc[c] \in {"declare", "serving"} => bucket
        /\ pc[c] = "serving" => queues

\* The committed objects are those of the committed revision.
SchemaInv == objects = Schema(revision)

ReadyInv == TypeOK /\ SchemaInv /\ ProgressInv

\* What a database holds at each revision.
LEMMA SchemaValues ==
    /\ Head = 2
    /\ Schema(0) = {}
    /\ Schema(1) = {"alembic_version", "tasks"}
    /\ Schema(2) = {"alembic_version", "tasks", "output_mode"}
  BY DEF Schema, Head

-----------------------------------------------------------------------------
(* A failed call leaves the committed state alone and empties the           *)
(* container's transaction (Fail, in every action that may raise).          *)
LEMMA FailKeepsReady ==
    ASSUME ReadyInv, NEW c \in Containers, Fail(c), faults' \in 0..MaxFaults
    PROVE  ReadyInv'
<1> USE DEF ReadyInv, Fail, Exit, Goto, database, services
<1>1. TypeOK'
  BY DEF TypeOK
<1>2. SchemaInv'
  BY DEF SchemaInv
<1>3. ProgressInv'
  BY DEF ProgressInv, Sees, Migrated, TypeOK
<1> QED BY <1>1, <1>2, <1>3

(* A migration reads the heads, creates what is pending and commits it.     *)
LEMMA MigrationKeepsReady ==
    ASSUME ReadyInv, NEW c \in Containers,
           GetHeads(c) \/ CheckVersion(c) \/ Create(c) \/ Commit(c)
    PROVE  ReadyInv'
<1> USE SchemaValues DEF ReadyInv, Goto, database, services
<1>1. CASE GetHeads(c)
  <2>0. revision \in {0, 1, 2} /\ pc[c] = "heads"
    BY <1>1 DEF TypeOK, GetHeads
  <2>1. /\ pc' = [pc EXCEPT ![c] = CASE revision = 0 -> "check_version"
                                    [] revision = 1 -> "output_mode"
                                    [] revision = 2 -> "commit"]
        /\ heads' = [heads EXCEPT ![c] = revision]
        /\ UNCHANGED <<made, objects, revision, bucket, queues, restarts, faults>>
    BY <1>1 DEF GetHeads
  <2>2. TypeOK'
    BY <2>0, <2>1 DEF TypeOK, NextObject
  <2>3. SchemaInv'
    BY <2>1 DEF SchemaInv
  <2>4. ProgressInv'
    <3>1. \A d \in Containers \ {c} : pc'[d] = pc[d]
      BY <2>1 DEF TypeOK
    <3>2. CASE revision = 0
      BY <2>1, <3>1, <3>2 DEF ProgressInv, Sees, Migrated, TypeOK
    <3>3. CASE revision = 1
      BY <2>1, <3>1, <3>3 DEF ProgressInv, Sees, Migrated, TypeOK, SchemaInv
    <3>4. CASE revision = 2
      BY <2>1, <3>1, <3>4 DEF ProgressInv, Sees, Migrated, TypeOK, SchemaInv
    <3> QED BY <2>0, <3>2, <3>3, <3>4
  <2> QED BY <2>2, <2>3, <2>4
<1>2. CASE CheckVersion(c)
  <2>1. TypeOK'
    BY <1>2 DEF CheckVersion, TypeOK, NextObject
  <2>2. SchemaInv'
    BY <1>2 DEF CheckVersion, SchemaInv
  <2>3. ProgressInv'
    BY <1>2 DEF CheckVersion, ProgressInv, Sees, Migrated, TypeOK
  <2> QED BY <2>1, <2>2, <2>3
<1>3. CASE Create(c) /\ pc[c] \notin objects
  <2>1. /\ pc[c] \in {"alembic_version", "tasks", "output_mode"}
        /\ made' = [made EXCEPT ![c] = @ \cup {pc[c]}]
        /\ pc' = [pc EXCEPT ![c] = NextObject[pc[c]]]
        /\ UNCHANGED <<heads, objects, revision, bucket, queues, restarts, faults>>
    BY <1>3 DEF Create, NextObject
  <2>2. /\ pc[c] = "alembic_version" => NextObject[pc[c]] = "tasks"
        /\ pc[c] = "tasks" => NextObject[pc[c]] = "output_mode"
        /\ pc[c] = "output_mode" => NextObject[pc[c]] = "commit"
    BY DEF NextObject
  <2>3. TypeOK'
    BY <2>1, <2>2 DEF TypeOK, NextObject
  <2>4. SchemaInv'
    BY <2>1 DEF SchemaInv
  <2>5. ProgressInv'
    <3>1. /\ \A d \in Containers \ {c} : pc'[d] = pc[d] /\ made'[d] = made[d]
          /\ made'[c] = made[c] \cup {pc[c]} /\ pc'[c] = NextObject[pc[c]]
      BY <2>1 DEF TypeOK
    <3>2. made[c] \subseteq Schema(Head) /\ objects \subseteq Schema(Head)
      BY DEF TypeOK
    <3>3. CASE pc[c] = "alembic_version"
      BY <2>1, <2>2, <3>1, <3>3 DEF ProgressInv, Sees, Migrated
    <3>4. CASE pc[c] = "tasks"
      BY <2>1, <2>2, <3>1, <3>4 DEF ProgressInv, Sees, Migrated
    <3>5. CASE pc[c] = "output_mode"
      BY <2>1, <2>2, <3>1, <3>2, <3>5 DEF ProgressInv, Sees, Migrated
    <3> QED BY <2>1, <3>3, <3>4, <3>5
  <2> QED BY <2>3, <2>4, <2>5
<1>4. CASE Create(c) /\ pc[c] \in objects
  <2>1. Fail(c) /\ faults' \in 0..MaxFaults
    BY <1>4 DEF Create, TypeOK
  <2> QED BY <2>1, FailKeepsReady
<1>5. CASE Commit(c)
  <2>1. objects' = Schema(Head) /\ revision' = Head
    BY <1>5 DEF Commit, ProgressInv, Sees
  <2>2. TypeOK'
    BY <1>5, <2>1 DEF Commit, TypeOK
  <2>3. SchemaInv'
    BY <2>1 DEF SchemaInv
  <2>4. ProgressInv'
    <3>1. /\ \A d \in Containers \ {c} : pc'[d] = pc[d] /\ made'[d] = made[d]
          /\ pc'[c] = "head_bucket"
          /\ UNCHANGED <<bucket, queues>>
      BY <1>5 DEF Commit, TypeOK
    <3>2. \A d \in Containers : made'[d] \subseteq Schema(Head)
      BY <2>2 DEF TypeOK
    <3> QED BY <2>1, <3>1, <3>2 DEF ProgressInv, Sees, Migrated
  <2> QED BY <2>2, <2>3, <2>4
<1> QED BY <1>1, <1>2, <1>3, <1>4, <1>5

(* The bucket and the queues, once there, remain; a restart starts afresh.  *)
LEMMA ServicesKeepReady ==
    ASSUME ReadyInv, NEW c \in Containers,
           HeadBucket(c) \/ CreateBucket(c) \/ DeclareQueues(c) \/ Restart(c)
    PROVE  ReadyInv'
<1> USE DEF ReadyInv, Goto, database, services
<1>1. CASE CreateBucket(c) /\ bucket
  <2>1. Fail(c) /\ faults' \in 0..MaxFaults
    BY <1>1 DEF CreateBucket, TypeOK
  <2> QED BY <2>1, FailKeepsReady
<1>2. CASE HeadBucket(c) \/ (CreateBucket(c) /\ ~bucket) \/ DeclareQueues(c) \/ Restart(c)
  <2> USE <1>2 DEF HeadBucket, CreateBucket, DeclareQueues, Restart
  <2>1. TypeOK'
    <3>1. CASE HeadBucket(c)
      <4>1. faults' \in 0..MaxFaults
        BY <3>1, StartupAssumption DEF TypeOK
      <4> QED BY <3>1, <4>1 DEF TypeOK
    <3>2. CASE CreateBucket(c) /\ ~bucket
      BY <3>2 DEF TypeOK
    <3>3. CASE DeclareQueues(c)
      BY <3>3 DEF TypeOK
    <3>4. CASE Restart(c)
      BY <3>4 DEF TypeOK
    <3> QED BY <3>1, <3>2, <3>3, <3>4
  <2>2. SchemaInv'
    BY DEF SchemaInv
  <2>3. ProgressInv'
    BY DEF ProgressInv, Sees, Migrated, TypeOK
  <2> QED BY <2>1, <2>2, <2>3
<1> QED BY <1>1, <1>2

(* The invariant holds of every start of any number of containers.          *)
THEOREM ReadyCorrect == Spec => []ReadyInv
<1>1. Init => ReadyInv
  <2> SUFFICES ASSUME Init PROVE ReadyInv
    OBVIOUS
  <2>1. revision \in {0, 1, 2}
    BY SchemaValues DEF Init
  <2>2. TypeOK
    BY <2>1, SchemaValues, StartupAssumption DEF Init, TypeOK
  <2> QED BY <2>2 DEF Init, ReadyInv, SchemaInv, ProgressInv, Migrated
<1>2. ReadyInv /\ [Next]_vars => ReadyInv'
  <2> SUFFICES ASSUME ReadyInv, [Next]_vars PROVE ReadyInv'
    OBVIOUS
  <2>1. ASSUME NEW c \in Containers, Step(c) PROVE ReadyInv'
    BY <2>1, MigrationKeepsReady, ServicesKeepReady DEF Step
  <2>2. ASSUME NEW c \in Containers, Fault(c) PROVE ReadyInv'
    <3>1. faults' \in 0..MaxFaults
      BY <2>2, StartupAssumption DEF Fault, ReadyInv, TypeOK
    <3> QED BY <2>2, <3>1, FailKeepsReady DEF Fault
  <2>3. CASE UNCHANGED vars
    BY <2>3 DEF vars, database, services, ReadyInv, TypeOK, SchemaInv,
                ProgressInv, Sees
  <2> QED BY <2>1, <2>2, <2>3 DEF Next
<1> QED BY <1>1, <1>2, PTL DEF Spec

\* Every variable keeps its type, for any number of containers and faults.
THEOREM StartupTypeOKHolds == Spec => []TypeOK
<1>1. ReadyInv => TypeOK
  BY DEF ReadyInv
<1> QED BY <1>1, ReadyCorrect, PTL

(* A container serves only over the complete schema, an existing bucket and *)
(* declared queues, for any number of containers, faults and races.         *)
THEOREM ServingIsReadyHolds == Spec => []ServingIsReady
<1>1. ReadyInv => ServingIsReady
  BY DEF ReadyInv, SchemaInv, ProgressInv, Migrated, ServingIsReady
<1> QED BY <1>1, ReadyCorrect, PTL

-----------------------------------------------------------------------------
(* What a container has lost and may still lose, each at most once: its     *)
(* start that is over, its migration and its bucket.                        *)
Creating == {"check_version"} \cup DOMAIN NextObject

Down(c)     == IF pc[c] = "down" THEN 1 ELSE 0
Migration(c) == IF pc[c] \in Creating \/ revision # Head THEN 1 ELSE 0
Bucket(c)   == IF ~bucket \/ pc[c] = "create_bucket" THEN 1 ELSE 0

Spent(c) == restarts[c] + Down(c) + Migration(c) + Bucket(c)

RaceInv ==
    /\ \A c \in Containers :
         pc[c] \in {"check_version", "alembic_version", "tasks"} => revision # 1
    /\ \A c \in Containers : Spent(c) <= faults + 2

\* What a container has lost or may still lose is counted in numbers.
LEMMA SpentType ==
    ASSUME TypeOK, NEW c \in Containers
    PROVE  /\ restarts[c] \in Nat /\ faults \in Nat
           /\ Down(c) \in 0..1 /\ Migration(c) \in 0..1 /\ Bucket(c) \in 0..1
  BY StartupAssumption DEF TypeOK, Down, Migration, Bucket

(* A container finds an object only after another one's migration.          *)
LEMMA LostMigration ==
    ASSUME ReadyInv, RaceInv, NEW c \in Containers,
           pc[c] \in DOMAIN NextObject, pc[c] \in objects
    PROVE  revision = Head
<1>1. pc[c] \in {"alembic_version", "tasks", "output_mode"}
  BY DEF NextObject
<1>2. revision \in {0, 1, 2}
  BY SchemaValues DEF ReadyInv, TypeOK
<1> QED BY <1>1, <1>2, SchemaValues DEF ReadyInv, SchemaInv, RaceInv

(* What another container does costs nothing.                               *)
LEMMA OthersSpend ==
    ASSUME ReadyInv, ReadyInv', RaceInv, NEW c \in Containers, Step(c) \/ Fault(c),
           NEW d \in Containers \ {c}
    PROVE  Spent(d)' <= faults' + 2
<1>1. /\ pc'[d] = pc[d] /\ restarts'[d] = restarts[d]
      /\ revision' \in {revision, Head} /\ (bucket => bucket')
      /\ faults' \in {faults, faults + 1}
  BY DEF Step, GetHeads, CheckVersion, Create, Commit, HeadBucket, CreateBucket,
         DeclareQueues, Restart, Fault, Fail, Exit, Goto, database, services, ReadyInv, TypeOK
<1>2. Down(d)' = Down(d) /\ Migration(d)' <= Migration(d) /\ Bucket(d)' <= Bucket(d)
  BY <1>1 DEF Down, Migration, Bucket
<1>3. restarts[d] \in Nat /\ faults \in Nat /\ Spent(d) <= faults + 2
  BY SpentType DEF ReadyInv, RaceInv
<1>4. /\ Down(d) \in 0..1 /\ Migration(d) \in 0..1 /\ Bucket(d) \in 0..1
      /\ Migration(d)' \in 0..1 /\ Bucket(d)' \in 0..1
  BY SpentType DEF ReadyInv, Migration, Bucket
<1> QED BY <1>1, <1>2, <1>3, <1>4 DEF Spent

(* A container that goes down has lost a race it cannot lose again, or a    *)
(* call raised.                                                             *)
LEMMA OwnSpending ==
    ASSUME ReadyInv, ReadyInv', RaceInv, NEW c \in Containers, Step(c) \/ Fault(c)
    PROVE  Spent(c)' <= faults' + 2
<1> USE DEF database, services
<1>1. /\ restarts[c] \in Nat /\ faults \in Nat /\ Spent(c) <= faults + 2
      /\ Down(c) \in 0..1 /\ Migration(c) \in 0..1 /\ Bucket(c) \in 0..1
      /\ Down(c)' \in 0..1 /\ Migration(c)' \in 0..1 /\ Bucket(c)' \in 0..1
      /\ restarts'[c] \in Nat
  BY SpentType DEF ReadyInv, RaceInv, Down, Migration, Bucket, TypeOK
<1>2. SUFFICES \/ /\ faults' = faults
                  /\ restarts'[c] + Down(c)' + Migration(c)' + Bucket(c)'
                     <= restarts[c] + Down(c) + Migration(c) + Bucket(c)
               \/ /\ faults' = faults + 1
                  /\ restarts'[c] + Down(c)' + Migration(c)' + Bucket(c)'
                     <= restarts[c] + Down(c) + Migration(c) + Bucket(c) + 1
  BY <1>1 DEF Spent
<1>3. ASSUME Fail(c)
      PROVE  /\ restarts'[c] = restarts[c] /\ pc'[c] = "down"
             /\ revision' = revision /\ bucket' = bucket
  BY <1>3 DEF Fail, Exit, Goto, ReadyInv, TypeOK
<1>4. CASE Fault(c)
  <2>1. faults' = faults + 1 /\ restarts'[c] = restarts[c]
    BY <1>3, <1>4 DEF Fault
  <2>2. Down(c) = 0 /\ Migration(c)' <= Migration(c) /\ Bucket(c)' <= Bucket(c)
    BY <1>3, <1>4 DEF Fault, Down, Migration, Bucket, Creating, NextObject
  <2> QED BY <1>1, <2>1, <2>2
<1>5. CASE Create(c) /\ pc[c] \in objects
  <2>1. Fail(c) /\ faults' = faults /\ revision = Head /\ pc[c] \in DOMAIN NextObject
    BY <1>5, LostMigration DEF Create
  <2>2. Down(c) = 0 /\ Migration(c) = 1
    BY <2>1 DEF Down, Migration, Creating, NextObject
  <2>3. Down(c)' = 1 /\ Migration(c)' = 0 /\ Bucket(c)' <= Bucket(c)
    BY <1>3, <2>1 DEF Down, Migration, Bucket, Creating, NextObject
  <2> QED BY <1>1, <1>3, <2>1, <2>2, <2>3
<1>6. CASE CreateBucket(c) /\ bucket
  <2>1. Fail(c) /\ faults' = faults /\ pc[c] = "create_bucket"
    BY <1>6 DEF CreateBucket
  <2>2. Down(c) = 0 /\ Bucket(c) = 1
    BY <2>1 DEF Down, Bucket
  <2>3. Down(c)' = 1 /\ Bucket(c)' = 0 /\ Migration(c)' <= Migration(c)
    BY <1>3, <1>6, <2>1 DEF Down, Migration, Bucket, Creating, NextObject
  <2> QED BY <1>1, <1>3, <2>1, <2>2, <2>3
<1>7. CASE Restart(c)
  <2>1. /\ pc[c] = "down" /\ pc'[c] = "heads" /\ restarts'[c] = restarts[c] + 1
        /\ UNCHANGED <<revision, bucket, faults>>
    BY <1>7 DEF Restart, Goto, ReadyInv, TypeOK
  <2>2. Down(c) = 1 /\ Down(c)' = 0 /\ Migration(c)' = Migration(c) /\ Bucket(c)' = Bucket(c)
    BY <2>1 DEF Down, Migration, Bucket, Creating, NextObject
  <2> QED BY <1>1, <2>1, <2>2
<1>8. CASE \/ GetHeads(c) \/ CheckVersion(c) \/ (Create(c) /\ pc[c] \notin objects)
           \/ Commit(c) \/ (HeadBucket(c) /\ UNCHANGED faults)
           \/ (CreateBucket(c) /\ ~bucket) \/ DeclareQueues(c)
  <2>1. /\ UNCHANGED <<restarts, faults>> /\ pc'[c] # "down" /\ pc[c] # "down"
    <3>1. CASE GetHeads(c)
      BY <3>1, SchemaValues DEF GetHeads, Goto, ReadyInv, TypeOK
    <3>2. CASE ~GetHeads(c)
      BY <1>8, <3>2 DEF CheckVersion, Create, Commit, HeadBucket, CreateBucket,
                        DeclareQueues, Goto, NextObject, ReadyInv, TypeOK
    <3> QED BY <3>1, <3>2
  <2>2. Migration(c)' <= Migration(c)
    <3>1. CASE GetHeads(c)
      BY <3>1, SchemaValues
      DEF GetHeads, Goto, Migration, Creating, NextObject, ReadyInv, TypeOK
    <3>2. CASE ~GetHeads(c)
      BY <1>8, <3>2
      DEF CheckVersion, Create, Commit, HeadBucket, CreateBucket, DeclareQueues, Goto,
          Migration, Creating, NextObject, ReadyInv, TypeOK
    <3> QED BY <3>1, <3>2
  <2>3. Bucket(c)' <= Bucket(c)
    <3>1. CASE GetHeads(c)
      BY <3>1, SchemaValues DEF GetHeads, Goto, Bucket, ReadyInv, TypeOK
    <3>2. CASE ~GetHeads(c)
      BY <1>8, <3>2
      DEF CheckVersion, Create, Commit, HeadBucket, CreateBucket, DeclareQueues, Goto,
          Bucket, NextObject, ReadyInv, TypeOK
    <3> QED BY <3>1, <3>2
  <2>4. Down(c)' = 0 /\ Down(c) = 0
    BY <2>1 DEF Down
  <2> QED BY <1>1, <2>1, <2>2, <2>3, <2>4
<1>9. CASE HeadBucket(c) /\ faults' = faults + 1
  <2>1. /\ pc[c] = "head_bucket" /\ pc'[c] \in {"declare", "create_bucket"}
        /\ UNCHANGED <<restarts, revision>>
    BY <1>9 DEF HeadBucket, Goto, ReadyInv, TypeOK
  <2>2. Down(c) = 0 /\ Down(c)' = 0 /\ Migration(c)' <= Migration(c)
    BY <2>1 DEF Down, Migration, Creating, NextObject
  <2> QED BY <1>1, <1>9, <2>1, <2>2
<1>10. HeadBucket(c) => faults' \in {faults, faults + 1}
  BY DEF HeadBucket
<1> QED BY <1>4, <1>5, <1>6, <1>7, <1>8, <1>9, <1>10 DEF Step

\* A container never spends more than the faults so far and two races.
THEOREM RaceCorrect == Spec => []RaceInv
<1>1. Init => RaceInv
  <2> SUFFICES ASSUME Init PROVE RaceInv
    OBVIOUS
  <2>1. ASSUME NEW c \in Containers
        PROVE  /\ restarts[c] = 0 /\ Down(c) = 0
               /\ Migration(c) \in 0..1 /\ Bucket(c) \in 0..1
    <3>1. restarts[c] = 0 /\ Down(c) = 0
      BY DEF Init, Down
    <3>2. Migration(c) \in 0..1 /\ Bucket(c) \in 0..1
      BY DEF Migration, Bucket
    <3> QED BY <3>1, <3>2
  <2> QED BY <2>1 DEF Init, RaceInv, Spent
<1>2. ReadyInv /\ ReadyInv' /\ RaceInv /\ [Next]_vars => RaceInv'
  <2> SUFFICES ASSUME ReadyInv, ReadyInv', RaceInv, [Next]_vars PROVE RaceInv'
    OBVIOUS
  <2>1. ASSUME NEW c \in Containers, Step(c) \/ Fault(c) PROVE RaceInv'
    <3>1. \A d \in Containers : Spent(d)' <= faults' + 2
      BY <2>1, OthersSpend, OwnSpending
    <3>2. ASSUME NEW d \in Containers,
                 pc'[d] \in {"check_version", "alembic_version", "tasks"}
          PROVE  revision' # 1
      <4>1. revision' \in {revision, Head}
        BY <2>1 DEF Step, GetHeads, CheckVersion, Create, Commit, HeadBucket, CreateBucket,
                    DeclareQueues, Restart, Fault, Fail, Exit, database, services
      <4>2. pc[d] \in {"check_version", "alembic_version", "tasks"} \/ revision # 1
        <5>1. CASE GetHeads(c)
          BY <3>2, <5>1 DEF GetHeads, Goto, ReadyInv, TypeOK
        <5>2. CASE ~GetHeads(c)
          BY <2>1, <3>2, <5>2
          DEF Step, CheckVersion, Create, Commit, HeadBucket, CreateBucket, DeclareQueues,
              Restart, Fault, Fail, Exit, Goto, NextObject, ReadyInv, TypeOK
        <5> QED BY <5>1, <5>2
      <4> QED BY <4>1, <4>2, SchemaValues DEF RaceInv
    <3> QED BY <3>1, <3>2 DEF RaceInv
  <2>2. CASE UNCHANGED vars
    BY <2>2 DEF vars, database, services, RaceInv, Spent, Down, Migration, Bucket
  <2> QED BY <2>1, <2>2 DEF Next
<1> QED BY <1>1, <1>2, ReadyCorrect, PTL DEF Spec

(* Racing costs a container at most two starts, one for the migration and   *)
(* one for the bucket, however many containers start at once.               *)
THEOREM RestartsBoundedHolds == Spec => []RestartsBounded
<1>1. ReadyInv /\ RaceInv => RestartsBounded
  <2> SUFFICES ASSUME ReadyInv, RaceInv, NEW c \in Containers PROVE restarts[c] <= faults + 2
    BY DEF RestartsBounded
  <2> QED BY SpentType DEF ReadyInv, RaceInv, Spent
<1> QED BY <1>1, ReadyCorrect, RaceCorrect, PTL
=============================================================================
