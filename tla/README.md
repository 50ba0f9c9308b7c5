# Verification of voicebot_service

TLA+ models of the Vietnamese voicebot service (API, worker, queue, cache,
database, object store), checked with TLC and, where stated, proved with TLAPS.

Every definition is translated from the source; `PROJECT.json` maps each one to
the lines it stands for. Paths below are relative to the repository.

## 1. The system

A client submits a voice or text task over HTTP, gets a task id, and then polls
the task, follows its server-sent events, or waits for a webhook. The work is
done by a worker process that takes the task from RabbitMQ.

| Component | Source | State | Operations |
|---|---|---|---|
| Submit | `voice_pipeline.py`, `text_pipeline.py` (`submit`) | none of its own | put input, create row, cache `pending`, publish message |
| Poll | `routers/voice.py` `get_task` | request locals (the row it read) | cache lookup, row read, cache fill |
| Event stream | `routers/voice.py` `stream_task_events`, `redis_cache.py` `iter_events` | `last_id`, deadline | XREAD from the beginning until a terminal event |
| Retention | `services/api/app/main.py` `_cleanup_loop` | none | delete old final rows, daily |
| Message handler | `services/worker/app/worker/main.py` | the delivery, `x-retry-count` | execute, ack, republish, dead-letter |
| Voice execute | `voice_pipeline.py` `execute` | tokens, sentence buffer, chunk index | ASR, LLM, TTS, status writes, events, webhook |
| Text execute | `text_pipeline.py` `execute` | response | LLM, status writes, webhook |
| LLM adapter | `triton_llm.py` | `in_think` | clean, filter and collect tokens |
| Speech recognition | `triton_asr.py`, `triton/parakeet_asr/1/model.py` | none kept | fetch, decode, resample, network, CTC decoding |
| Repository | `postgres_task_repo.py`, `db/models.py` | rows | create, get, update |
| Cache | `redis_cache.py` | entries with TTL, streams | SETEX, XADD + EXPIRE, XREAD |
| Queue | `rabbitmq_publisher.py`, worker `main` | work queue, DLQ, unacknowledged deliveries | publish, deliver, settle, requeue |
| Object store | `seaweedfs.py` | inputs, chunks, bucket | put, get, presign, ensure_bucket |
| Start-up | `entrypoint.sh`, `shared/alembic`, `main`s | schema, revision | migrate, ensure bucket, declare queues |

**How they interact.** Submit and the worker share the row, the cache entry, the
input object and the message; nothing makes their four writes atomic. The worker
and the readers share the Redis stream. Polls share the cache entry with the
worker (cache-aside: a poll that misses reads the row and *then* writes what it
read). Retention shares the rows. API and worker start beside each other and
share the schema and the bucket.

**What is hard.** Every `await` is a point where another coroutine, process or
service may act, or where the call may raise with or without having taken
effect. The broker delivers at least once: after a lost connection, the task is
delivered again while the coroutine of the old delivery still runs. A failed
attempt is retried by publishing a *new* message and acknowledging the old one.
All attempts of a task write to one row, one cache entry, one event stream and
the same chunk keys. A client has four ways of learning the outcome, which may
disagree. `PROJECT.json` lists the hazards with their lines.

**What makes it correct.** An accepted task is never lost, and eventually is
executed to the end or dead-lettered; a task is not executed twice at once
unless the broker lost a delivery; attempts are bounded by the retries and the
losses; a settled task is completed everywhere or dead-lettered; nobody is told
`completed` before the result is committed; a stale status is not served for
ever; a reader of events misses nothing and ends; the spoken chunks spell the
response; the containers come up whatever the order of their starts.

## 2. The modules

| Module | Models | Run through |
|---|---|---|
| `TaskPipeline` | one task's life through submit, broker, handler, execute, row, cache, terminal events, webhook, polls, retention | `MCTask` |
| `TaskProperties` | what that pipeline promises, and the refinement mapping `Job` | `MCTask` |
| `TaskDelivery` | the abstract promise: owed, served, buried | (refined by `TaskPipeline`) |
| `TaskAnswers` | the fields that polls answer with: row and cache entry under overlapping executions, polls, deletion | `MCAnswers` |
| `EventStream` | writer and readers of a Redis stream, and the refinement mapping `Feed` | `MCStream` |
| `EventFeed` | the abstract promise to a client: events in order, no gap but forgotten ones, nothing after a final one | (refined by `EventStream`) |
| `VoiceAnswer` | token filter, sentence buffer, chunks, objects, links, final row, in both pipelines | `MCVoice` |
| `SpeechRecognition` | from a stored recording to its transcript | `MCSpeech` |
| `Text` | text as a sequence of symbols, and the methods of `str` that `VoiceAnswer` and `SpeechRecognition` call | (extended by both) |
| `Startup` | concurrent migration, bucket and queue creation, restart | `MCStartup` |
| `TaskSafetyProofs` | theorems about `TaskPipeline`: types, nothing lost, input and row, commit, the refinement of `TaskDelivery` | tlapm |
| `TaskAttemptProofs` | theorems about its attempts: exclusive, bounded with and without losses, final, one outcome, finished or dead-lettered | tlapm |
| `StreamProofs`, `StartupProofs`, `AnswersProofs` | theorems about `EventStream`, `Startup` and `TaskAnswers` | tlapm |
| `TextLemmas` | what `Kept`, `Squeeze` and the strips do to texts of any length | tlapm |
| `VoiceProofs`, `SpeechProofs` | theorems about `VoiceAnswer` and `SpeechRecognition`, from `TextLemmas` | tlapm |

`execute` appears in several modules, each a view of the same coroutine: its
status writes and error path in `TaskPipeline`, the fields it writes in
`TaskAnswers`, the order of its events in `EventStream`, its text in
`VoiceAnswer`, its first step in `SpeechRecognition`. They are not composed:
they share the order of the awaits and the meaning of a raise, no variable.

### TaskPipeline

A handler's `pc` is the await it is at. `NextPoint` is the successful order of
`execute`, `OnRaise` says where an exception at a point leads: into the except
block only from inside the `try` (not from the reads and writes before it, nor
from the except block itself, which raises on into `process_message`).

| Code | Model |
|---|---|
| four awaits of `submit` | `Submit` along `SubmitNext` |
| `repo.get`, `repo.update`, `cache.set`, `publish_event`, `send_webhook` | `RepoGet`, `RepoUpdate`, `CacheSet`, `PublishEvent`, `SendWebhook` |
| storage, ASR, LLM, TTS | `Compute` |
| `msg.ack()` in the `try` | `AckDone`: raising leads into the except block, so to a retry |
| publish with `x-retry-count + 1`, then `ack` | `Republish`, `AckRetry` |
| `nack(requeue=False)` | `DeadLetter`; in `on_message`'s own handler `OuterNack` |
| connection lost | `ConnectionLost`: requeue, the coroutine goes on |
| worker killed | `WorkerCrash`: requeue, its coroutines are gone |
| `get_task` | `PollMiss`, `PollRead`, `PollFill`, `PollAbort` |
| TTL, retention | `CacheExpire`, `Age`, `CleanupLoop` |

A call has an `Outcome`: it returns, raises without effect, or raises although
it took effect (the reply was lost). `FaultPoints` says where calls may raise in
an instance and `MaxFaults` how often; `MaxLosses` bounds crashes and lost
connections. `unacked` is the delivery a worker's channel still owes
(`prefetch_count = 1`): a handler whose delivery is lost cannot settle it any
more. The variables marked *history* exist only to state properties.

### TaskAnswers

The broker is gone from this view: an execution simply begins (`Begin`), as the
first, as the retry of a failed one, or beside one that lost its connection.
What is added is data. Execution *e* transcribes, answers and fails with the
value *e*, so that a field tells who wrote it. `RepoUpdate` changes only the
columns it is given, which is why the error of a failed attempt stays beside the
result of the next; `CacheSet` replaces the whole entry; `Filled` copies what a
poll read. `Read` and `Fill` of several clients interleave with each other and
with the worker. `DeleteOld` is a pass of the retention loop over a finished row.

### EventStream

An entry's id is its position in `log`; the stream holds the ids from `first`
on. `MAXLEN ~ n` trims whole nodes, so after an append `first` is any position
that keeps at least the `n` newest. `publish_event` is two steps, XADD and
EXPIRE, either of which may raise with or without effect. A reader is in its
loop, in an XREAD or sending a batch to a client of any speed; a disconnection
or an error of Redis ends it. Time is counted in ticks of which several make a
millisecond, because the block time is truncated to milliseconds; none passes at the
top of a reader's loop, which awaits nothing before it sends its XREAD. The executions
that write follow each other; overlapping ones are the subject of `TaskPipeline`
and `TaskAnswers`. `Feed` maps the stream to `EventFeed`: ids below `first` are
the forgotten events, `last` is what a client has seen.

### VoiceAnswer

Text is a sequence of symbols (letters, a space, a sentence end, tags, template
markers; `Text` holds what `str` does to it). `Line` is one `data:` line through `_clean_token`, the filter and the
body of `execute`'s loop; a flushed sentence is synthesized, stored under its
chunk key and announced before the next line is read, as the `async for`
enforces. `Raise` may end an attempt anywhere; the next starts with fresh locals
over the same objects. `RepoGet` returns what the dict of `PostgresTaskRepo.get`
holds. In the text pipeline the same lines go to `generate`, which only collects
them (`Accumulate`). `WorkerLinkHost` is the host the worker's adapter signs
links for.

### SpeechRecognition

`Fetch` is `storage.get`, for which a `ClientError` of any kind is an absent
object and any other error is raised; `Prepare` decodes what came, or raises. Audio is a number of samples and a rate, the
network any sequence of labels no longer than the spectrogram. The decoding loop
is one step per label (`First`, `Dedupe`), so that its invariant can be stated
between two steps; `Finish` drops blanks, joins, puts spaces and strips.

### Startup

One PostgreSQL transaction runs all pending revisions. Two transactions that
create the same object: the second waits, fails if the first commits, goes on if
it rolls back. A `head_bucket` that fails for whatever reason goes on to
`create_bucket`. A failure exits the container (`set -e`), Docker restarts it.

## 3. The runs

Passing runs:

| Run | Question | Instance |
|---|---|---|
| `faults` | `TypeOK`, `NothingLost`, `AnnouncedAfterCommit`, `WorkerFindsTask`, `ExclusiveExecution`, `AttemptsBounded`, `AttemptsPerLoss`, `FinishedOrBuried` when any call raises | 1 voice task, 2 workers, 3 coroutines, 2 faults, 1 loss, retention |
| `outcome` | `SettledOutcome`: row, cache, last event and DLQ agree; `CompletedIsFinal` | voice and text task, 2 workers, `MAX_RETRIES` 2, 4 failures of the work or of submit |
| `delivery` | `ImplementsDelivery`: refinement of `TaskDelivery` with its liveness; `StaleStatusExpires` and `AnnouncedAfterCommit` under racing polls | every fault point, 1 poll, 2 faults, 1 loss |
| `answers` | `TypeOK`, `AnswersAreWhole`, `NeverBack`, `AnswersSettle` | voice and text tasks, 2 clients, 2 executions that may overlap, 2 faults, 1 loss |
| `stream_replay` | `TypeOK`, `ReplayHasNoGap` under trimming and expiry, `OneExecutionPerReader`, `TerminalEndsReaders`, `ImplementsFeed`: refinement of `EventFeed` with its liveness | up to 3 executions, `MAXLEN` 4, XREAD count 2, 2 faults, 1 crash |
| `voice_answer` | `TypeOK`, `ChunksSpellResponse`, `ChunksSpeakTheirSentence`, `ThoughtsFiltered` | all streams of ≤ 4 lines of words, spaces, sentence ends and tags, both pipelines, minimum length 3, 1 retry |
| `speech` | `TypeOK`, `DedupedIsCollapse`, `TranscriptIsCollapse` | five recordings, all sequences of ≤ 6 labels over 3 tokens and the blank |
| `startup_race` | `TypeOK`, `ServingIsReady`, `RestartsBounded`, `AllServe` | 3 containers, revisions 0–2, 2 faults |

Runs that find a disagreement between the code and what the repository says of
it (the findings quote both):

| Run | Disagreement |
|---|---|
| `stream` | the `error` event of a failed attempt ends every stream, also when the retry completes |
| `stream_timeout` | a timed `XREAD` that leaves less than a millisecond is followed by `BLOCK 0`, which waits for ever |
| `voice_links` | the worker signs the links of audio chunks for the internal endpoint, also when a public one is configured |
| `voice_text` | `output_mode=text` tasks are synthesized: `repo.get` does not return the column |

Four more that need no run, because each is visible in one place of the code: a
stream keeps no time to live when its last EXPIRE fails, against "streams
auto-expire" (`redis_cache.py:6`, `:34-35`); the webhook too is told `failed` by an attempt whose retry completes
(`voice_pipeline.py:158`); `audio_url` is never returned, because `execute`
always commits `output_object_key=None` (`voice_pipeline.py:126`); text that
shares a token with a think tag is dropped with the tag (`triton_llm.py:68-73`),
so `ThoughtsFiltered` is checked for tags in tokens of their own.

**Why the bounds are enough.** Tasks do not interact except by queueing, so one
task (two where settling is the question) shows what can happen to each. Two
coroutines in one worker are what a lost connection creates; a third, in another
worker, adds a competitor that takes the requeued delivery. Retries of 1 give a
first and a last attempt; `outcome`, which counts them, uses the real 2. Two
faults fail the work and then one of the calls that deal with it: the except
block, the republication, an acknowledgement. That two tasks settle apart from
each other, whatever deliveries are lost, is left to the theorems: with losses
the two-task instance is too large.
In `TaskAnswers` a poll of one client and the late fill of another is what two
clients add to one, and two executions are the least that overlap; every
interleaving of their calls with the polls is explored.
In `EventStream` readers share nothing they write, so one is enough; `MAXLEN` 4
trims in the middle of a batch of 2, and two short executions fit into the
stream untrimmed. `stream_timeout` has three ticks of half a millisecond and blocks
of one millisecond, so that a timed XREAD comes first and its end leaves half a
millisecond; with 120 s and 2000 ms the same remainder takes a few more rounds.
In `VoiceAnswer`
four lines of up to three symbols put a sentence end at every position relative
to the minimum length and to a token's end. In `SpeechRecognition` six labels
hold a repeat, a blank and a doubled letter in any order, at both ends too.

**Deadlock** is checked in `answers`, where a client may always ask again, and
nowhere else: the other systems rest when all tasks are settled, all readers
gone, the transcript answered, or everything serves and the bound on faults is
used.

**Fairness.** `TaskPipeline`: each handler makes its next step (its awaits
return or raise: the LLM client has a 60 s timeout, the others end with their
connection), the broker delivers to a free consumer, Redis expires entries, a
poll past its lookup ends. Not assumed: that clients poll, that anything raises,
that rows age. `TaskAnswers`: only that Redis expires an entry that is there;
not even that an execution goes on. `EventStream`: executions go on, time passes, Redis answers and
clients read; XREAD times out only when it was given a block time. `Startup`:
processes run and Docker restarts them.

## 4. The proofs

All for arbitrary constants satisfying the named assumptions
(`ConstantsAssumption`, `StreamAssumption`, `StartupAssumption`,
`AnswersAssumption`, `AnswerAssumption`, `SpeechAssumption`). Every invariant
and every action property that a passing run checks is a theorem, and of the two
refinements the safety part.

| Theorem | States |
|---|---|
| `TypeOKHolds` | `[]TypeOK` of `TaskPipeline` |
| `NothingLostHolds` | an accepted task is queued, held, dead-lettered or finished |
| `WorkerFindsTaskHolds` | input and row exist for every message |
| `AnnouncedAfterCommitHolds` | nobody is told `completed` before the commit |
| `ExclusiveExecutionHolds` | attempts overlap only after a lost delivery |
| `AttemptsBoundedHolds` | at most `MaxRetries + 1` deliveries unless one is lost |
| `AttemptsPerLossHolds` | at most `(MaxRetries + 1) * (losses + 1)` deliveries, whichever are lost |
| `FinishedOrBuriedHolds` | a task an execute of which returned says completed everywhere; any other settled task is dead-lettered |
| `CompletedIsFinalHolds` | completed stays completed until retention |
| `SettledOutcomeHolds` | where only the work and submit fail, row, last event, cache and DLQ of a settled task agree |
| `DeliveryRefined` | `Spec => Delivery!Spec`, the safety part of the refinement |
| `AnswersTypeOKHolds` | `[]TypeOK` of `TaskAnswers` |
| `AnswersAreWholeHolds` | an answer is the work of one execution, however executions overlap |
| `NeverBackHolds` | in a first execution no client sees the task go back, but for another's late fill |
| `StreamTypeOKHolds` | `[]TypeOK` of `EventStream` |
| `FeedRefined` | `Spec => Feed!Spec`, the safety part of the refinement of `EventFeed` |
| `VoiceTypeOKHolds` | `[]TypeOK` of `VoiceAnswer`: no template marker reaches the response, a chunk or an event |
| `ChunksSpellResponseHolds` | the chunks that the attempt which completed a spoken task announced, put together, spell its response |
| `ChunksSpeakTheirSentenceHolds` | behind every key an attempt announced is the speech of the sentence announced with it |
| `ThoughtsFilteredHolds` | the response is what the model said outside its think blocks, when every tag comes in a token of its own |
| `SpeechTypeOKHolds` | `[]TypeOK` of `SpeechRecognition` |
| `DedupedIsCollapseHolds` | the CTC loop keeps the first label of every run, for any output |
| `TranscriptIsCollapseHolds` | the transcript is the CTC collapse of the labels: those heard (not blank, not a repeat of the one before), joined, spaced and stripped |
| `StartupTypeOKHolds` | `[]TypeOK` of `Startup` |
| `ReplayHasNoGapHolds` | readers of a trimmed, expiring stream miss nothing else |
| `OneExecutionPerReaderHolds` | a reader is shown one execution, unless that one ended without its last event |
| `ServingIsReadyHolds` | a container serves only over a complete schema, bucket and queues |
| `RestartsBoundedHolds` | at most two starts are lost to races |

*Types* come first (`TypeInv`): `TypeOK` plus that a busy handler has a message.

*Nothing lost.* `NothingLost` is not inductive: an acknowledgement drops the
delivery that may be all that stands for the task. `KeptInv` claims `Kept` for
every task that was ever delivered too, and that a handler about to acknowledge
after `execute` is of a finished task. `KeptStays` says that a step keeps what
is kept, action by action; `DeliveryRefined` uses it again: a job never falls
back to "none".

*Input and row.* `RecordInv` follows `submit`: once it is past a call, the effect
of that call is there, so the message, which comes last, finds both.

*Committed first.* `AnnouncedAfterCommit` needs `CommitInv`: a handler past
`save_db`, a poll whose snapshot is `completed`, and a row that is `completed`
each imply that the task is committed (or aged).

*Exclusive attempts.* `AttemptInv` says where the one life of a task is: unless
a delivery of it was lost, every handler busy with it holds its delivery, and
the task is not yet submitted, or has one copy in the queue whose retry count is
the number of runs, or has one working handler whose retry count is one less.
Both `ExclusiveExecution` and `AttemptsBounded` are read off it.

*Attempts per loss.* A lost delivery leaves a coroutine behind that may still
publish a retry, and puts a copy back that may be retried too, so `AttemptInv`
says nothing of such a task. `BudgetInv` counts instead: `AttemptsLeft` is the
set of attempts that copies and handlers of a task may still begin, one for each
retry their headers leave them, and its cardinality plus the runs so far is at
most `(MaxRetries + 1) * (losses + 1)`. A delivery takes one attempt from the set
and adds one run, a republication replaces a handler's attempts by its copy's
(`Replacing`), and only a loss adds a column (`ColumnCount`).

*Completed is final.* `FinalInv` says that nothing is left that would write the
row of a completed task: its submit is over, no message of it is queued, and the
one handler still working on it is past its commit. It uses `AttemptInv`: that
handler holds its delivery, so its ack cannot raise into a retry. The theorem is
about tasks without a lost delivery and, by its premise on `FaultPoints`, where no
call between the commit and the webhook raises: with either, the code really
does take a row out of `completed`.

*One outcome.* `OutcomeOf` follows a task's single token: while one is left in
the queue or in a handler, the task is neither finished nor dead-lettered (but
for the handler that is about to acknowledge it), and what execute has told by
the point a handler has reached is `Reached`: first the row, then the entry, then
the last event. Only the nack of the last retry dead-letters, which happens in a
handler whose row, entry and event say failed. That a settled task has an outcome
at all is `NothingLost`. A task with a lost delivery is left out, because an
orphaned attempt may overwrite the outcome of the next one, and so is a row past
its retention.

*Finished or buried.* `DoneInv` is `OutcomeOf` for any fault: what execute has told
by the point of the handler is claimed only on its successful way (`Arrived`),
and a finished task has told completed everywhere, because its one handler is
past its last await and nothing of it is queued that would write again. A settled
task that is not finished can only be dead-lettered: `NothingLost` once more, so
an except block that raised is no exception.

*No gap.* `ReplayHasNoGap` needs `TrimInv`, about the stream alone: every id
below `first` went with an expiry or has at least `MaxLen` successors.

*One execution.* While the stream has lost nothing, a reader has got the ids up to
its last (`PrefixInv`) and ended at the first event that ends a stream; entries
are ordered by execution (`RunsInv`).

*The feed.* An append is a `Publish` (`AddedPublishes`) and every step of a
reader one step of the feed (`ReaderServed`): an answer of XREAD is a `Skip` to
the oldest entry held or nothing, a yield is a `Deliver`, an end without a
terminal event a `Quit`. `ReplayInv` supplies that a batch never reaches past the
log; `IdleInv` says that a client who has not connected has seen nothing.

*Whole answers.* `AnswersAreWhole` looks at the cache and at what polls hold;
`WholeInv` adds the row they are copied from (`RowInv`: whole, and with the error
of an execution that did raise, whatever its status) and the executions that
write it (`ExecutionInv`: one in its except block has raised, one still trying
has not, one about to cache a result has committed it). That the error in a
completed row is never its own execution's rests on the second of these.
Committed and raised only grow, so what is whole stays whole (`WholeStays`) and
a step has to justify only what it writes.

*Never back.* `OrderInv` orders the sources of a first execution: the row is as far
as the execution has got, an entry the pipeline wrote and any poll's snapshot are
no further than the row, and what a client has been told is no more than the
row, its own snapshot or, unless another client filled it, the cache entry says.

*Decoding.* `LoopInv` adds to `DedupedIsCollapse` that the last label kept equals
the last label read, which is why comparing with either is the same.

*Lemmas about text.* `Kept(seq, K)`, what a sequence holds at the positions `K`,
is a `FlattenSeq`, hence a recursive function, and what it computes for a sequence of any length
needs an induction. The library's induction theorems cannot be
instantiated, so `TextLemmas` does it by first-order means: the set of lengths
for which a claim fails has a least element (`NatLessThanWellFounded`,
`WFMin`), and the recursive definition is unfolded once. What the other proofs
cite are the consequences: how `Kept` and `Squeeze` go through a concatenation
(`KeptConcat`), an appended symbol (`KeptAppend`, `KeptNext`), a split (`KeptSplit`) and that
stripping a text loses only white space.

*Chunks.* `ChunkInv` numbers the chunks of the running attempt 0, 1, 2, ... and
says that each object is stored before its number is announced; that no event is of
an attempt to come is what makes overwriting the keys of an earlier attempt
harmless. `SpeltInv` adds the balance: but for white space, the announced chunks, the sentence
being spoken and the buffer spell the response so far (`Balanced`), whatever
line ends a sentence, is too short for one or is only stripped away. At the
commit the buffer has been spoken or was blank.

*Thoughts.* `ThinkInv` says that `in_think` holds exactly when a block is open
at the end of what was said (`Open`), and that the response is what is visible
of it. The theorem's hypothesis `TagsAlone` is the tokenizer's behaviour that the
filter relies on; without it the filter, which passes or drops tokens as a whole,
loses text (the last remark on the findings in section 3).

*Transcript.* `HeardInv` says, label by label, that the labels kept, but for
blanks, are those heard up to the position of the loop (`HeardBy`); two equal
sounds with a blank between them are both heard. At the end of the loop that is
the transcript's whole input. The types say of the transcript that it holds
letters of the vocabulary and spaces, and no word separator.

*Ready.* `ReadyInv` follows a start: what a transaction has made, together with
what is committed, is the schema up to the object it is about to create, and
committed objects always are a revision's schema.

*Restarts.* `RaceInv` counts, with the restarts, what a container may still lose:
the start that is over, its migration until it has seen the head revision, its
bucket until it exists. Only a fault increases the sum.

**Only model-checked:** liveness, which is beyond the prover: the fairness in
`ImplementsDelivery` and `ImplementsFeed`, `StaleStatusExpires`,
`AnswersSettle`, `TerminalEndsReaders` and `AllServe`.

## 5. Not modelled

- The networks of speech recognition, language model and synthesis, and the
  values of spectrograms and samples: floating-point arithmetic. `mms_tts` hands
  a text to a network and returns its samples; the adapter in front of it is one
  stateless call, an outcome of the work.
- Authentication and rate limits: no state the pipeline depends on.
- Configuration, logging, metrics, monitoring, Docker files and export scripts.
- The lazy creation of S3 clients (start-up runs it before any concurrency),
  their closing, `RedisCache.delete` and `storage.delete` (nobody calls them).
- The retention loop's sleep: it waits a day *before* its first pass, so an API
  restarted more often never deletes. Nothing documents a time by which rows are
  gone, so retention may act at any moment, or never.
- The stream endpoint's check that the task exists, and its own error event for
  a broken connection, which one reader sees and the stream does not keep.
- The broker and PostgreSQL are assumed to keep what they confirmed.

## 6. Plan

1. The core: `TaskPipeline`, `TaskProperties`, `TaskDelivery`, their runs, the
   theorems above. *Done.*
2. `EventStream`, `VoiceAnswer`, `Startup` and first theorems. *Done.*
3. The abstract `EventFeed` and its refinement, the fields of answers under
   overlapping executions (`TaskAnswers`), speech recognition with its CTC
   decoding, the text pipeline's `generate`, the links of chunks, and the
   theorems about them. *Done.*
4. Proof of `SettledOutcome`; attempts under lost deliveries (`AttemptsPerLoss`) and
   outcomes under any fault (`FinishedOrBuried`); the shared `Text`, the lemmas about it, and the
   theorems about the chunks, the think filter and the transcript. *Done.*
5. Overlapping executions in `EventStream` and `VoiceAnswer`, where they mix
   their events and overwrite each other's chunks.
6. A shared abstract view of `execute` refined by the modules that look at it.
