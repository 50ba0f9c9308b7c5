------------------------------- MODULE Startup -------------------------------
(***************************************************************************)
(* How the API and worker containers come up beside each other: each runs  *)
(* `alembic upgrade head` in one PostgreSQL transaction, makes sure of the *)
(* bucket, declares the queues and serves.  Whatever raises ends the       *)
(* container, which Docker starts again.                                   *)
(*                                                                         *)
(* PostgreSQL lets one transaction create an object: another that creates  *)
(* the same waits for its end, and fails if it committed.                  *)
(***************************************************************************)
EXTENDS Naturals

CONSTANTS
    Containers,
    MaxFaults     \* bound: calls that raise, and crashes

ASSUME StartupAssumption == MaxFaults \in Nat

VARIABLES
    pc,           \* where each container is in its start
    heads,        \* the revision it found
    made,         \* what its open transaction has created
    objects,      \* committed: the version table, the table, the column
    revision,     \* committed: alembic's version_num
    bucket,       \* whether the bucket exists
    queues,       \* whether the queues are declared
    restarts,     \* how often each container was started again
    faults

database == <<objects, revision>>
services == <<bucket, queues>>
vars == <<pc, heads, made, database, services, restarts, faults>>

\* Revisions: 0 is the empty database, 1 and 2 are 001 and 002.
Head == 2

\* What a database at a revision holds.
Schema(r) == CASE r = 0 -> {}
               [] r = 1 -> {"alembic_version", "tasks"}
               [] r = 2 -> {"alembic_version", "tasks", "output_mode"}

Goto(c, p) == pc' = [pc EXCEPT ![c] = p]

\* Defect: the entrypoint has no `set -e`, the program starts in any case.
ExitContinue(c) == Goto(c, "head_bucket")

\* A call raised: the container's process ends.
Exit(c) == Goto(c, "down")

Fail(c) ==
    /\ Exit(c)
    /\ made' = [made EXCEPT ![c] = {}]
    /\ UNCHANGED <<heads, database, services, restarts>>

-----------------------------------------------------------------------------
\* The first start, or one over the database of an earlier release.
Init ==
    /\ pc = [c \in Containers |-> "heads"]
    /\ heads = [c \in Containers |-> 0]
    /\ made = [c \in Containers |-> {}]
    /\ revision \in 0..Head
    /\ objects = Schema(revision)
    /\ bucket \in BOOLEAN
    /\ queues \in BOOLEAN
    /\ restarts = [c \in Containers |-> 0]
    /\ faults = 0

\* run_migrations: the current heads decide which revisions are pending.
GetHeads(c) ==
    /\ pc[c] = "heads"
    /\ heads' = [heads EXCEPT ![c] = revision]
    /\ Goto(c, CASE revision = 0 -> "check_version"
                 [] revision = 1 -> "output_mode"
                 [] revision = 2 -> "commit")
    /\ UNCHANGED <<made, database, services, restarts, faults>>

\* The version table is created unless it is there.
CheckVersion(c) ==
    /\ pc[c] = "check_version"
    /\ Goto(c, IF "alembic_version" \in objects THEN "tasks" ELSE "alembic_version")
    /\ UNCHANGED <<heads, made, database, services, restarts, faults>>

\* Defect: 002 adds a column of another name.
NextObjectMisnamed == [alembic_version |-> "tasks", tasks |-> "outputmode",
                       output_mode |-> "commit", outputmode |-> "commit"]

\* What upgrade() goes on with after it created an object.
NextObject == [alembic_version |-> "tasks", tasks |-> "output_mode",
               output_mode |-> "commit"]

\* CREATE TABLE alembic_version, 001's CREATE TABLE tasks, 002's ADD COLUMN.
Create(c) ==
    /\ pc[c] \in DOMAIN NextObject
    /\ \A d \in Containers \ {c} : pc[c] \notin made[d]
    /\ IF pc[c] \in objects
       THEN Fail(c)
       ELSE /\ made' = [made EXCEPT ![c] = @ \cup {pc[c]}]
            /\ Goto(c, NextObject[pc[c]])
            /\ UNCHANGED <<heads, database, services, restarts>>
    /\ UNCHANGED faults

\* One transaction for all pending revisions.
Commit(c) ==
    /\ pc[c] = "commit"
    /\ objects' = objects \cup made[c]
    /\ revision' = Head
    /\ made' = [made EXCEPT ![c] = {}]
    /\ Goto(c, "head_bucket")
    /\ UNCHANGED <<heads, services, restarts, faults>>

\* Defect: the bucket is created without asking for it first.
HeadBucketBlind(c) ==
    /\ pc[c] = "head_bucket"
    /\ Goto(c, "create_bucket")
    /\ UNCHANGED <<heads, made, database, services, restarts, faults>>

\* ensure_bucket: create the bucket if it is not there, or if the question
\* fails for another reason ...
HeadBucket(c) ==
    /\ pc[c] = "head_bucket"
    /\ \/ Goto(c, IF bucket THEN "declare" ELSE "create_bucket") /\ UNCHANGED faults
       \/ Goto(c, "create_bucket") /\ faults < MaxFaults /\ faults' = faults + 1
    /\ UNCHANGED <<heads, made, database, services, restarts>>

\* ... which raises if it is there, because another container was faster.
CreateBucket(c) ==
    /\ pc[c] = "create_bucket"
    /\ IF bucket THEN Fail(c)
       ELSE /\ bucket' = TRUE
            /\ Goto(c, "declare")
            /\ UNCHANGED <<heads, made, database, queues, restarts>>
    /\ UNCHANGED faults

\* RabbitMQPublisher.connect: declare both queues, which is idempotent.
DeclareQueues(c) ==
    /\ pc[c] = "declare"
    /\ queues' = TRUE
    /\ Goto(c, "serving")
    /\ UNCHANGED <<heads, made, database, bucket, restarts, faults>>

\* A call raises, or the container crashes; its transaction is rolled back.
Fault(c) ==
    /\ pc[c] # "down"
    /\ faults < MaxFaults
    /\ faults' = faults + 1
    /\ Fail(c)

\* Defect: restart "no".
RestartNever(c) == FALSE /\ UNCHANGED vars

\* restart: unless-stopped
Restart(c) ==
    /\ pc[c] = "down"
    /\ Goto(c, "heads")
    /\ restarts' = [restarts EXCEPT ![c] = @ + 1]
    /\ UNCHANGED <<heads, made, database, services, faults>>

-----------------------------------------------------------------------------
Step(c) ==
    \/ GetHeads(c) \/ CheckVersion(c) \/ Create(c) \/ Commit(c)
    \/ HeadBucket(c) \/ CreateBucket(c) \/ DeclareQueues(c) \/ Restart(c)

Next == \E c \in Containers : Step(c) \/ Fault(c)

Spec == Init /\ [][Next]_vars

\* Processes run and Docker restarts them.
FairSpec == Spec /\ \A c \in Containers : WF_vars(Step(c))

-----------------------------------------------------------------------------
\* Every variable has its type.
TypeOK ==
    /\ pc \in [Containers -> {"heads", "check_version", "commit", "head_bucket",
                              "create_bucket", "declare", "serving", "down"}
                             \cup DOMAIN NextObject]
    /\ heads \in [Containers -> 0..Head]
    /\ made \in [Containers -> SUBSET Schema(Head)]
    /\ objects \subseteq Schema(Head)
    /\ revision \in 0..Head
    /\ bucket \in BOOLEAN
    /\ queues \in BOOLEAN
    /\ restarts \in [Containers -> Nat]
    /\ faults \in 0..MaxFaults

(* A container serves only over the complete schema, an existing bucket and *)
(* declared queues, whoever created them and however the starts interleave  *)
(* or fail (entrypoint.sh, run_migrations_online, ensure_bucket, connect).  *)
ServingIsReady ==
    \A c \in Containers : pc[c] = "serving" =>
        objects = Schema(Head) /\ revision = Head /\ bucket /\ queues

(* Racing costs a container at most two starts: one lost against another's  *)
(* migration and one against another's bucket; every further one is a fault.*)
RestartsBounded == \A c \in Containers : restarts[c] <= faults + 2

(* All containers serve in the end: a migration that waits for another's is *)
(* not left waiting, a start that fails is repeated, and a lost race is not *)
(* lost again.                                                              *)
AllServe == <>[](\A c \in Containers : pc[c] = "serving")
=============================================================================
