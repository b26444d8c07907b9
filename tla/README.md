# Conversation analyzer: TLA+ models, checks and proofs

This directory models the podcast speech analysis system of this repository: a FastAPI service
accepts an audio file with a list of features, a broker hands the features of a task, one after
the other, to AI workers, and a callback worker reports the finished task to the client. The neural
models themselves are opaque; everything that decides *when*, *where* and *how often* they
run, and what becomes of their results, is modelled. Paths below are relative to `src/src/`.

1. [The system](#1-the-system)
2. [Modules](#2-modules)
3. [Properties and runs](#3-properties-and-runs)
4. [Bounds and fairness](#4-bounds-and-fairness)
5. [What is proved](#5-what-is-proved)
6. [Where the code and its documents disagree](#6-where-the-code-and-its-documents-disagree)
7. [What is not modelled](#7-what-is-not-modelled)
8. [Plan](#8-plan)

## 1. The system

### Components, state and operations

| Component | Source | State | Operations |
|---|---|---|---|
| Task store | `db/service.py`, `db/models.py` | rows `Task`, `FeaturesInTask`, `TaskResultsFinal` | insert a task, update a feature, update a task, read a task's features, read the requests to recover |
| API | `routers/tasks.py` | none of its own | submit (upload, insert, publish), delete the audio, report the status |
| Broker | `workers/broker_worker.py` | in memory: `available_workers` with last heartbeats, `pending_requests` | `handle_api_request`, `handle_worker_response`, `dispatch_next_feature`, `dispatch_feature`, `process_worker_pending_requests`, `_print_stats`, start-up recovery |
| AI worker | `workers/audio_diarization_worker.py` | none; its private queue lives in RabbitMQ | start-up, heartbeat every 30 s, job, shutdown |
| Callback worker | `workers/callback_worker.py` | running callbacks, loop counters | deliver, post with retries, acknowledge, stop |
| RabbitMQ, MinIO | `docker-compose.yml`, `modules/` | queues, objects | publish, deliver, acknowledge, redeliver |
| Connection of the API | `modules/mq_connection_manager.py` | one connection and one channel for all requests | `connect` with retries, `get_channel`, `close` |
| Diarization service | `services/audio_diarization_service.py` | none between jobs | predict regions, drop short ones, merge over micro pauses, fill the gaps with noise |
| STT service | `services/stt_service_nemo.py` | the streaming buffer, which outlives a job | batch the speech segments, append their audio, stream, assign transcripts |
| Emotion service | `services/audio_emotion_service.py` | none between jobs | split into chunks, process batches, aggregate |

### Interactions

* API to broker: a `TaskPayload` in a durable queue, after the row has been committed.
* Broker to worker: a job in the private queue of a worker the broker has registered. That queue
  is exclusive and auto-delete, so it vanishes with the worker and its jobs.
* Worker to broker: start-up, heartbeat, shutdown and answers in one durable queue.
* Broker to callback worker: a durable queue.
* Worker to service: one inference at a time, in a thread; the service returns an extended `Results`
  document or an error.
* Requests of the API to RabbitMQ: through the connection and channel they all share.
* Everything else goes through the database. Each `TaskService` call is one transaction.

### What is hard

* The broker's two handlers run on one event loop and interleave at every `await`. Both walk
  through `dispatch_next_feature`, both use `pending_requests`, and both read rows the other writes.
* A job is published *before* its feature is marked `PROCESSING`. An answer can come first.
* The broker loses its memory in a crash, and its unacknowledged messages come back to handlers that
  have already committed part of their work.
* Every exception in a handler is logged and the message acknowledged: a partial failure is final.
* Workers expire when they are not heard of for 100 s, live or not, and may answer afterwards.
* Heartbeats race the shutdown status.
* Callbacks are retried, run ten at a time and are redelivered after a crash.
* Requests test a shared channel, await, and use or replace it.
* The services walk lists by index, batch, flatten and put together again, and carry on after a batch
  that failed half way.

The hazards, each at its line, are in `PROJECT.json` with the properties that cover them, or the reason why none
does.

### What makes each component correct

* *Store*: a task is `READY` only with nothing `WAITING`; a stored result rests on stored results of
  the same task.
* *Broker*: one place works on a task at a time; features run in order; an unsettled task always has a
  carrier; a job carries all earlier results; an aborted task stays aborted; workers that are gone are
  forgotten; a pending job is dispatched to the worker that starts; a task is lost only with a worker that had its job.
* *Worker*: every job it takes is answered.
* *API*: every accepted task settles, and a poll says how far it is.
* *Connection*: every call ends; the queue exists before somebody publishes to it; a request is given an
  open channel; connections do not pile up.
* *Services*: no speech is lost, none appears twice, silence and only silence is noise; every segment gets
  its own transcript and its own emotion.
* *Whole system*: what a client sees is one orderly life cycle per task.
* *Callback worker*: bounded tries, none given up early, none repeated without cause, all settled.

## 2. Modules

| Module | Models |
|---|---|
| `Faults` | what the environment may do wrong, and a budget for each kind |
| `TaskStore` | the tables and `TaskService`, one atomic operator per call |
| `MessageQueues` | the queues, their bindings and the file bucket as the code uses them |
| `TasksApi` | submission in three steps, deletion, the cases the status endpoint answers of its two reads |
| `AudioWorker` | the protocol of an AI worker process |
| `BrokerWorker` | the broker: handlers await by await, expiry, crash, recovery |
| `ConversationAnalyzer` | the composition, fairness, and all properties of the system |
| `TaskLifecycle` | the abstract specification: what a client that polls a task is promised |
| `MCConversationAnalyzer` | instances of `ConversationAnalyzer` for TLC |
| `CallbackWorker`, `MCCallbackWorker` | callback delivery and its instance |
| `ConnectionManager`, `MCConnectionManager` | the RabbitMQ connection of the API, and its instance |
| `ResultsDocument` | the segments the services pass on to each other |
| `DiarizationService`, `SttService`, `EmotionService` | the inference of each service around its neural model |
| `AudioServices`, `MCAudioServices` | a worker process that loads one of them, and its instance |
| `QueueFacts` | lemmas about sequences used as queues, induction over the numbers |
| `ConversationAnalyzerProofs` | effect lemmas for every variable, type correctness, and the proofs of `ReadyNothingWaiting` and `BuiltOnDiarization` |
| `FlightProofs` | the proofs of `SingleFlight` and `AbortedStaysAborted` |
| `OrderProofs` | the refinement to `TaskLifecycle`, and the proofs of `FeaturesInOrder`, `FinalResultComplete`, `JobsCarryEarlierResults` and `PollAnswered` |
| `RecoveryProofs` | the proofs of `TaskNotLost`, with crashes of the broker, and of `LostOnlyWithItsWorker`, with workers that leave |
| `CallbackProofs` | the proofs of type correctness and the three safety properties of `CallbackWorker` |
| `ConnectionProofs` | the same for `ConnectionManager` |
| `ServiceProofs` | the loops that sort, select, batch, split and flatten, and the proofs of all properties of the three services |

### Correspondence

**Store.** A feature is its `order_idx`; diarization is 1. A `Results` document is the set of
features whose output it contains: the properties ask which outputs are there, not what they say.
`taskId` is the serial primary key, by which recovery orders its requests. `"none"` stands for a row
that does not exist.

**Broker.** An action is the code between two awaited calls. `pc[h]` names the call handler `h` makes
next, `view[h]` is the snapshot `get_features_for_task` gave it. The message a handler works on is the
head of its queue until `Acknowledge`, as with `prefetch_count=1` and `message.process()`.
Local variables need no state of their own: what a handler knows is in the message and in `view`.

| Code | Actions |
|---|---|
| `handle_api_request` | `DeliverRequest`, `AcceptRequest`, then the dispatch below |
| `handle_worker_response` | `DeliverStartup`, `DeliverHeartbeat`, `DeliverShutdown`, `DeliverAnswer`; `FeatureFailed`, `TaskFailed`; `FeatureReady`, `PendingAfterAnswer`, then the dispatch below |
| `process_worker_pending_requests` | `DispatchPending` (publish), `MarkPending` (update, keep the rest) |
| `dispatch_next_feature`, `dispatch_feature` | `ReadFeatures`, then `Defer`, `Dispatch` + `MarkDispatched`, `FinishFailed`, or `FinishReady` + `SendCallback` |
| `except Exception` in a handler | `HandlerError`, and the failing branch of `DispatchPending` |
| `check_available_workers`, `_print_stats` | `DropLateWorkers`, `PrintStats`; `GrowLate` lets the 100 s pass |
| `run` | `BrokerCrash`, `BrokerStart` (with `get_pending_feature_requests`) |

`process_worker_pending_requests` publishes to the worker that sent the message whether or not that
worker is registered, as the code does; being registered only matters for the test that some worker of
the type is there.

**AI worker.** The repository has one worker program. `audio_stt_worker.py` and
`audio_emotions_worker.py` are empty, while the broker serves their types already, so the
diarization worker's protocol is instantiated for every feature. That the other services build on an
existing document and report an error without one is taken from `services/audio_emotion_service.py`.
`RaiseInJob` is the exception branch as it is: it raises again and sends nothing. `send_status` may
lose any message, against the budget `lost_status`.

**API.** The three awaited calls of `create_audio_task` are three actions with nothing that
undoes an earlier one. A request that dies takes no further step, so `Spec` covers it without
an action. `task_status` writes nothing and has no action either: its two transactions are two moments of a
behaviour, the status taken from the first and the result from the second (`PollAnswered`).

**Callback worker.** `stage[c]` is where the asyncio task of callback `c` is; `GoDown` returns whatever
is unacknowledged to its place in the queue; `Stop` is the window in `run` in which the http client is
closed and the connection is not.

**Connection manager.** `at[c]` is the call that caller `c` (a request, or `connect` at start-up) awaits,
`using[c]` the connection or channel it awaits it of, which need not be `self.connection` or `self.channel`
any more. Connections and channels are numbered as they are opened; `live` and `open` are the ones
that are not closed, so connections nobody refers to any more stay in the model as they stay in the process.
RabbitMQ may refuse any call and close anything that is open.

**AI services.** The neural models are external: they return any of a set of predictions, or raise.

| Code | Actions |
|---|---|
| diarization: prediction, short regions, speakers | `Predict`, `Segment` (`KeepLongOrClose`, `UserId`, `SpeechOf`), `InferenceRaises` |
| diarization: the `while` loop over micro pauses | `BeginPass`; per iteration `SkipMerged`, `MergeWithNext` or `KeepSegment`; `EndPass` |
| diarization: noise | `FillNoise` (`WithNoise`) |
| STT | `TakeDocument` (`Batches`); `AppendAudio` per segment, `Stream` per batch; `StreamNothing`, `SttRaises`, `SttEnds` |
| emotions | `TakeTranscript` (`FlatChunks`, `Batched`), `DetectBatch`, `FailBatch`, `Aggregate` |

A transcript is named after the audio it was made from (`<<job, segment>>`), an emotion is the list of
chunks it was computed from. So the properties can tell whether a result is a segment's own. `streams` is kept
over the jobs of a process because the code's buffer is. What the labels of several chunks average to is not
modelled.

**Life cycle.** The refinement mapping is direct: `phase` is the status column of the task, `stage` those of its
features, `report` the final result. The queues, the workers and the broker's memory have no counterpart:
what they do must be invisible in the rows, or one of the seven steps of `TaskLifecycle`.

## 3. Properties and runs

The system may really stop (every task settled, all workers gone), so the runs say
`CHECK_DEADLOCK FALSE`; progress is the subject of the liveness properties.

| Run | Instance | Checks |
|---|---|---|
| `orderly` | 2 tasks of both features, 2 workers; one worker may leave, one may expire, one inference may fail; prompt marks | `TypeOK`, `SingleFlight`, `FeaturesInOrder`, `FinalResultComplete`, `JobsCarryEarlierResults`, `LostOnlyWithItsWorker`, `AbortedStaysAborted`, `ImplementsLifecycle` |
| `restart` | the same tasks and workers, one broker crash at any step; prompt marks | `TaskNotLost` |
| `losses` | 1 task with any feature list; one crash, handler error, lost status, publish error, storage error and deletion, in any order; any marks | `ReadyNothingWaiting`, `BuiltOnDiarization` |
| `live` | 2 tasks, 2 workers, no faults, fairness | `EveryTaskSettles`, `PollAnswered` |
| `departures` | 2 tasks, one worker that leaves with or without a word, fairness; any marks | `GoneWorkersForgotten` |
| `callbacks` | 3 callbacks (one unusable), 2 slots, 3 tries, 1 restart, fairness | `TypeOK`, `TriesBounded`, `GivenUpOnlyWhenDue`, `NoRepeatWithoutRestart`, `EveryCallbackSettles` |
| `services` | all lists of up to 4 regions of 2 speakers; documents of up to 4 segments in up to 3 jobs of one process; transcripts of up to 3 segments; any model call may raise | `TypeOK`, `RunsMerged`, `NoVoiceLost`, `SilenceIsNoise`, `NoiseOnlyOverNestedSpeech`, `PassesShrink`; `TextsAreOwn`, `EverySpeechTranscribed`, `FailsOnlyOnFullBatches`; `ChunksCoverSegment`, `OneEmotionEach`, `EmotionsOwnUnlessShifted` |
| `connections` | start-up and 2 requests, 2 tries, RabbitMQ closes something twice, fairness | `TypeOK`, `QueueExistsForRequests`, `ConnectionsBounded`, `ClosedOnlyWhenOvertaken`, `EveryCallEnds` |
| four more | the smallest instance that shows a disagreement | see section 6 |

* `SingleFlight` counts the *carriers* of a task: its request, a pending entry, a published job, an
  answer. The handler's own message stops counting as soon as it has passed the task on. More than one
  carrier, or one for a settled task, means that a feature is computed twice or a result is overwritten.
* `TaskNotLost` is the other half: an accepted task that is not settled has at least one carrier, or
  a `WAITING` row while the broker is down. A crash anywhere within a handler must keep it true.
* `FeaturesInOrder` and `JobsCarryEarlierResults` are about jobs that wait: a pending job is built from
  a snapshot and dispatched much later.
* `FinalResultComplete` compares what is reported with what was asked for.
* `LostOnlyWithItsWorker` says where the code really does lose a task while the broker is up: only together
  with a worker that left, in whose type's feature the task is then stuck.
* `PollAnswered` is about a poll that is overtaken: it reads a status, then any steps of the broker happen, then it
  reads the result. It has a message for the two unless the task finished in between, in which case the code
  answers with status 500 (section 6). `[](P => []Q)` has the first read in `P` and the second in `Q`.
* `EveryTaskSettles` is checked without faults. With a failing job, or a lost startup, it is false: neither a failed
  answer nor a heartbeat dispatches a pending job, so a task may wait for a worker that is idle (section 6).
* `ImplementsLifecycle` is the refinement: `ConversationAnalyzer` implements `TaskLifecycle`. It covers what no
  invariant here says, such as that no feature starts before the task is accepted, and that nothing of a settled
  task changes, its features and its result included.
* `ReadyNothingWaiting` and `BuiltOnDiarization` are what is left when *everything* of the fault list may
  happen, including the race of section 6.
* `RunsMerged` compares the index loop of the diarization, with its skipped elements and the last one added by
  hand, with a definition of what merging means: maximal runs. `NoVoiceLost` and the two noise properties go from
  the neural model's regions to the final document. Their exceptions are the code's: short isolated regions are
  dropped, and noise may lie over speech when one speaker talks within the turn of another (`Nested`).
* `TextsAreOwn` and `EverySpeechTranscribed` are about the buffer that outlives a job;
  `EmotionsOwnUnlessShifted` about a batch that fails half way.
* `ClosedOnlyWhenOvertaken`: `get_channel` may return a closed channel, but only one that another call put in
  place of the one this request has looked at or opened.

Every property of a passing run is paired with a mutant, a definition changed as a
plausible bug would change it (a list entry not removed, the wrong element of a list, a dropped
call), under which TLC finds it violated. The mutants stand beside the definitions they change, marked
`Mutant:`.

### Prompt marks

`dispatch_next_feature` publishes a job and then awaits the update to `PROCESSING`. If the worker's
answer is handled in between, that update overwrites `READY`, and the task is finished without the
result. Run `race_mark` shows this in the code as it is. Inference takes seconds at least, so the order
"mark, then answer" is what a deployment nearly always sees. `PromptMarks = TRUE` restricts a model to
that order, so that `orderly` and `live` can say what holds apart from the race: without it, most of
their properties fail by that one cause. In `restart` it only keeps the instance small: `AcceptedNotLost` is
proved without it. `losses` and `departures` do without it, and so do all theorems but those of `OrderProofs`.

## 4. Bounds and fairness

### Bounds

| Bound | Where | Why it is enough |
|---|---|---|
| `Budget` | each fault kind at most once per run | properties compare states around one fault; `losses` combines six kinds in any order. The theorems hold for every budget |
| two tasks, two features | all runs | two tasks compete for a worker and share the pending list; two features give every order relation (first, last, earlier result). Tasks are alike (`SYMMETRY` in the safety runs) |
| two workers, one per type | most runs | each starts once, as each start has a fresh `WORKER_ID`; a worker that left does not come back as the same one. Two workers of one type add the random choice of `dispatch_feature`: the safety theorems cover them, the runs do not |
| one heartbeat per worker in the queue (`Heartbeat`) | all runs | a heartbeat is idempotent: a second behind the first finds the worker registered already, unless the shutdown is between them, which a heartbeat sent after the first is handled reproduces |
| heartbeats without news left out (`HeartbeatNews`) | all runs | it would change nothing but a time stamp, which `late` abstracts; those of a closing worker stay, since they can register a worker again |
| 3 callbacks, 2 slots | `callbacks` | one waits for a slot while others sleep between tries, as an eleventh behind ten |
| ticks in `services` | diarization | a tick is a quarter of a second, so `ShortRegion = 4`, `NeighbourGap = 8`, `MinSpeech = 1` and `MicroPause = 4` are the code's 1.0, 2.0, 0.25 and 1.0 s. Starts and lengths of the regions give overlap, containment, equal starts, and gaps and lengths on every side of each threshold. The theorems hold for any regions and thresholds |
| up to 4 regions | diarization | two merges in one pass, a merge that enables another in the next, and the last element behind a skipped one |
| `SttBatchSize = 2`, `MaxJobs = 3`, documents of up to 4 segments | STT | the code's batch size; a full, a partial and an empty last batch; a job that fails, one that inherits its buffer, and one after that. The theorems hold for any number |
| transcripts of up to 3 segments of length 1, 4, 5 or 9, `LongSegment = 4`, `Padding = 1`, `EmotionBatchSize = 2` | emotions | shorter than, equal to, just above and above twice the threshold; batches that end within a segment and across segments. The theorems hold for any |
| 2 requests, `MaxRetries = 2`, `MaxClosures = 2` | `connections` | one request overtakes another, after RabbitMQ closed what was open and then what was opened again; one failed attempt and a last one. The theorems hold for any number |
| `MaxRestarts = 1` | `callbacks` | a restart meets every stage of every callback, also in the closing window |

### Fairness

`FairSpec` asks weak fairness of what the deployment keeps running: the event loops of broker and
workers (each handler takes its next step; each worker works, and sends heartbeats), the restart of a
stopped container (`restart: unless-stopped` in `docker-compose.yml`), the clock (`GrowLate` for a worker
that is gone) and `_print_stats`, a loop that calls `check_available_workers` for ever. A
submission that has begun continues. No fault is fair. Strong fairness is used nowhere: between two
steps of a handler nothing can disable the next one but a crash, which the budget bounds.
For the callback worker: requests end within `timeout=10.0`, sleeps end, a closing process
closes its connection and is started again; a request need never succeed.
For the connection manager: a call that is awaited ends, with a result or an exception (AMQP has timeouts);
nothing is assumed of RabbitMQ. The services are sequential: `PassesShrink`, a step property, stands for
the end of their one loop without a bound.

## 5. What is proved

TLAPS proves, for every number of tasks, features and workers, every assignment of types, every fault
budget, and except for the theorems of `OrderProofs` and `LostWithItsWorker` with or without prompt marks (in
`CallbackProofs`: of callbacks, slots, tries and restarts; in `ConnectionProofs`: of requests, tries and closures; in
`ServiceProofs`: of regions, transcripts, documents and jobs, for all batch sizes, thresholds and paddings):

* **`TypeCorrect`** (`ConversationAnalyzerProofs`): `Spec => []TypeOK`.
* **`ReadyMeansNothingWaiting`** (`ConversationAnalyzerProofs`): `Spec => []ReadyNothingWaiting`.
* **`ResultsBuiltOnDiarization`** (`ConversationAnalyzerProofs`): `Spec => []BuiltOnDiarization`.
* **`OneCarrierAtMost`**, **`AbortedForGood`** (`FlightProofs`): `Spec /\ NoBrokerFault => []SingleFlight` and
  `Spec /\ NoBrokerFault => AbortedStaysAborted`; the stronger `SettledForGood` says that no settled status is
  ever written again.
* **`LifecycleImplemented`**, **`OrderedFeatures`**, **`CompleteResults`**, **`JobsHaveEarlierResults`**,
  **`PollsAnswered`** (`OrderProofs`): `Spec /\ NoBrokerFault /\ PromptMarks` implies `ImplementsLifecycle`,
  `[]FeaturesInOrder`, `[]FinalResultComplete`, `[]JobsCarryEarlierResults` and `PollAnswered`.
* **`AcceptedNotLost`**, **`LostWithItsWorker`** (`RecoveryProofs`): `Spec /\ NoLosingFault => []TaskNotLost` and
  `Spec /\ NoBrokerFault /\ PromptMarks /\ NothingDropped => []LostOnlyWithItsWorker`.
* **`CallbackTypeCorrect`**, **`RetriesBounded`**, **`NothingGivenUpEarly`**, **`RepeatsNeedRestart`**
  (`CallbackProofs`): `Spec => []TypeOK`, `Spec => []TriesBounded`, `Spec => []GivenUpOnlyWhenDue`,
  `Spec => NoRepeatWithoutRestart`.
* **`ConnectionTypeCorrect`**, **`NoChannelBeforeQueue`**, **`ConnectionsStayBounded`**, **`ClosedMeansOvertaken`**
  (`ConnectionProofs`): `Spec => []TypeOK`, `Spec => []QueueExistsForRequests`, `Spec => []ConnectionsBounded`,
  `Spec => ClosedOnlyWhenOvertaken`.
* **`ServicesTypeCorrect`**, **`MicroPausesMerged`**, **`SilenceBecomesNoise`**, **`NoiseWhereSilent`**,
  **`VoicesKept`**, **`PassesEnd`** (`ServiceProofs`, from `DiarizationCorrect`): for the `Spec` of `AudioServices`,
  `Spec => []TypeOK`, `Spec => []RunsMerged`, `Spec => []SilenceIsNoise`, `Spec => []NoiseOnlyOverNestedSpeech`,
  `Spec => []NoVoiceLost`, `Spec => PassesShrink`.
* **`TranscriptsAreOwn`**, **`AllSpeechTranscribed`**, **`OnlyFullBatchesFail`** (`ServiceProofs`, from
  `SttCorrect`): `Spec => []TextsAreOwn`, `Spec => []EverySpeechTranscribed`, `Spec => []FailsOnlyOnFullBatches`.
* **`ChunksCover`**, **`OneEmotion`**, **`EmotionsOwn`** (`ServiceProofs`, from `EmotionCorrect`):
  `Spec => []ChunksCoverSegment`, `Spec => []OneEmotionEach`, `Spec => []EmotionsOwnUnlessShifted`.

They rest on the named assumptions of the modules: `TasksAssumption`, `FeaturesAssumption`,
`WorkersAssumption` (every worker has a feature), `NoTaskAssumption`, `BudgetAssumption`,
`ChoicesAssumption` (a feature list is not empty: the insert rejects an empty one), `CallbackAssumption`;
for callbacks `CallbacksAssumption` and `LimitsAssumption`; for connections `StartupAssumption`,
`RetriesAssumption` and `ClosuresAssumption`; for the services `DiarizationAssumption` (the neural model
predicts a list of regions, each of some speaker and with a length, in any order), `SttAssumption` and
`EmotionAssumption` (a document is a list of segments as `models/results.py` types them). The theorems of `FlightProofs` have the premise `NoBrokerFault`: the
budget has no broker crash and no exception in a handler, since after either a message comes back, or a
pending entry stays, whose task was passed on already. Everything else may go wrong. Those of `OrderProofs` have
the premise `PromptMarks` as well, since `race_mark` shows that they are false without it; so has
`LostWithItsWorker`, which is proved from them.

**Typing.** `TypeOK` is not inductive: a handler in the middle of a message uses the head of its queue.
`InFlight` adds that this head exists and is of the kind its step expects. Since queues grow at their
tail and only the handler itself removes the head, it is kept (`HeadsKept`). To keep
the steps short, each variable first gets an effect lemma (`StoreEffect`, `ResponseQueueEffect`, ...)
that says what `Next` can do to it at most; later proofs split on these few effects and not on the
thirty actions.

**Finish.** The danger is the stale snapshot: `dispatch_next_feature` reads, awaits, and writes `READY`.
The argument is monotonicity. Once a row exists, no action makes one of its features `WAITING`
(`NoNewWaiting`), so a snapshot without waiting features cannot be outdated in the one respect that
matters (`SnapshotCurrent`). The insert is the exception, and it needs a task without row, while
everything that travels for a task has one (`RowsExist`). Together: `FinishInv`. It would stop being
true if recovery ever requeued `PROCESSING` features; the mutant of this property does just that.

**Lineage.** `LineageInv` follows a document all the way round: rows, jobs and pending entries, snapshots,
answers. A document on the way consists of features stored for that task and contains diarization
(`Grounded`); stored results are never removed (`StoredGrows`), so what was true when a job was built is
true when its answer arrives, however late, duplicated or out of order (`GroundedStays`).

**Flight.** `Carriers` is counted as four sets of positions, one per kind of queue (`ReqAt`, `AnsAt`, `PendAt`,
`JobAt`). `InOnePlace` says that at most one is not empty and that it has one element. It is inductive together
with `Nowhere` for settled tasks and for those not accepted yet (`FlightInv`), as long as the broker is
`Undisturbed`. The argument is a hand-over: every step that puts a carrier somewhere takes the only one there
was (`MessagePassedOn`, `PendingMoves`, `WorkMoves`), all others only take away or move up (`KeptMoves`,
`PositionsKept`), and the one that creates a carrier finds the task nowhere (`ApiMoves`). What makes it
subtle is the entry of the pending list that is published but not yet removed, across an await in which the other
handler appends to the list: `Taken` names it, and the step that removes it removes the same one
(`MarkPendingMoves`). `AbortedStaysAborted` follows: whoever writes a status holds a carrier (`StatusWriter`), and a
settled task has none. Prompt marks are not needed, so the race of section 6 corrupts statuses of
features but never runs one twice.

**Order.** `FlightInv` says that a task has one carrier, `OrderInv` what this carrier knows. Of the rows (`RowsInv`):
all before the last feature that has begun are `READY`, a stored result is built on exactly those before it, and the
final result on all. Of the carriers (`CarriersKnow`): who waits for acceptance finds the task `WAITING`; a pending
job is about the first `WAITING` feature, with nothing in progress (`Due`); a job with a worker is about the one
that is `PROCESSING` (`Working`), or the one about to be marked; an answer has the document of all features up to
its own; a handler that decides has a snapshot that is still true. None of the four properties is inductive
without it: that a job built long ago still fits is true only because nobody else could move the task in between.
That is where the proof uses `FlightInv`: the step of a carrier changes the rows, and every other carrier's
knowledge would be outdated, if there were another (`OnlyCarrier`, `OthersKnow`). The steps that only move carriers,
most of them, are dealt with once (`Fewer`, `GoesOn`). Prompt marks enter in one place, `WorkKnows`: a job that is
taken has been marked, so its answer finds the feature `PROCESSING`. And `MarkedThere` keeps the pending entry whose
job was published until it is marked; without it a mark could be skipped.

**Recovery.** `NoLosingFault` excludes the five faults after which the code does lose a task: a worker that
leaves, a status that is not sent, an exception in a handler, a failing store, a deleted file. What is left is any
number of crashes, expired heartbeats, failed inferences and publishes that raise. `TaskNotLost` speaks of all
carriers; the part of them a crash takes away, the pending list and what a handler knows, says nothing about
the next state. So `Recoverable` speaks of what is left after a crash: an unsettled task is in a message no handler has
passed on yet (`Carried`), or has a `WAITING` feature, which recovery finds; and while the broker is up the task
is then in the pending list (`Listed`). That a message is dropped only when its task is in good hands is what the
other parts say. A mark takes a feature out of `WAITING` only while its job or its answer is on the way
(`MarksInTime`): after a crash recovery would not find it. A crash can leave a task with two carriers, so both handlers
can work on it at once; then a handler may hold a snapshot that is outdated (`Outdated`) and dispatch
a feature that is not `WAITING` any more. This loses nothing since it is never the last one (`OutdatedNotAlone`, `OneIsCurrent`). Here
`SingleFlight` is false and no proof about one carrier is of use: the argument counts nothing, and no step of
it asks which of the carriers does the work. The induction step has a lemma for each way a task changes hands
(`JobArrives`, `DispatchArrives`, `PendingKept`, `StartLists`, `HandOn`).

**Losses.** With workers that leave, each of these lemmas has one more outcome: the task's job was in the queue of a
worker that is gone, or is published to one (`LostWith`). The broker does not notice: `dispatch_feature` chooses
among registered workers, and `WorkersKnown` says of those only that they were started once. The second half is that
the task then stays where it is. `CarriersKnow` of `OrderProofs` tells which feature it is stuck at when the job is
lost (`StuckAt`, `LostIsStuck`), and only an answer of the task could move it on, which nobody sends any more
(`StuckStays`). So `LossInv`: an unsettled task is held by a message or an entry, or is stuck at a feature of a worker
that is gone. `NothingDropped` excludes the other faults that lose a task.

**Refinement.** The induction step also gives `LifeStep(t)` for every task, which says what the row of one
task goes through. `OneTaskWritten` adds that no step writes two tasks, and `LifecycleStep` puts them together to a
step of `TaskLifecycle` on whole arrays, or none.

**Polls.** A task has a final result when it is `READY` and only then (`Reported`), so one transaction would always
be answered. For two, what was read first must not be taken back: a status that is `READY` is written by nobody,
since writers hold a carrier (`StatusWriter`). A `PROCESSING` task may move on, and only to `READY` does that matter.

**Callbacks.** `CallbackInv` says that a callback is in one place only, the queue, the worker or the
settled ones (`InOnePlace`), and counts requests in two parts (`Counted`): at most `MaxTries` for each
earlier life, and what `attempt` says for this one. `TriesBounded` alone is not inductive, because it
does not tell a callback that is about to be posted for the first time in this life from one that has
used up its tries. `DueWhenGivenUp` starts at the end of the tries rather than at the acknowledgement;
`DoneWhenAccepted` covers the time between the confirmation and the acknowledgement.

**Connections.** `ConnectionInv` adds three facts to the types. A request begins only when the API serves, and it
serves only after the declaration (`QueueInv`). Channels are numbered, `self.channel` is the youngest, and the one
a caller declares its queue on is the youngest of its own (`ChannelInv`): so if the channel returned is not
that one, somebody opened it later. A caller that awaits a connection has opened one less than it has made
attempts (`OpenedInv`), which makes `ConnectionsBounded` inductive.

**Diarization.** A pass makes the list of segments coarser: `Grouped` says that a list has the segments of another in
groups of neighbours, each as one segment, with only micro pauses within a group. Within a pass the new list is such
a grouping of what was consumed of the old one (`PassInv`), where one step adds a group of one or two (`GroupedNext`);
and groups of groups are groups (`GroupedTwice`), so after any number of passes the list is a grouping of what the
neural model heard (`MergingInv`). As long as a pass has merged nothing, it has compared every two neighbours
it consumed (`Apart`): so when the passes end, no two groups could be merged. A grouping in which nothing is left to
merge is unique (`GroupedRuns`), hence `Runs`. A pass that merged something had fewer groups than segments, which is
`PassesShrink`. The noise is computed from this list alone. Up to the end of the last speech each tick without
speech is before some segment and behind the one before it, which need not end later than all others
(`SilenceCovered`). Only if ends are in the order of starts does noise avoid speech, and without nested regions the
filter and the groups keep that order (`KeptInOrder`, `GroupsInOrder`). `NoVoiceLost` needs it, too: a neighbour anywhere
in the list makes a region close to one beside it (`NearOneBeside`), and the filter looks only at those.

**Speech to text.** The invariant `SttInv` has three parts besides the types. `Transcribed`: during a job each
speech segment has its transcript or is in a batch that is left, and nothing else has one or is in one. That the
batches have every speech segment, in order and without the others, is arithmetic about two loops (`BatchesRight`):
the positions that pass the test are listed in order (`AscendingLists`), and position `k` falls into one batch
(`BatchOf`). The last batch is what makes a job fail: it is empty just if the batch size divides the number of
positions (`FullBatches`). `Buffered`: the process, not the job, owns the streaming buffer, so it has at least what
was appended for this batch, perhaps behind what an earlier job left; it is never shorter, so each segment of the
batch gets some transcript. `CleanBuffer`: the buffer is empty after each job in which the model did not raise,
and a job that begins with an empty one has in it, stream by stream, its current batch. `TextsAreOwn` is not inductive
without it: nothing in the assignment of a transcript says whose it is.

**Emotions.** That the chunks of a segment cover it is arithmetic about `split_segment` (`SplitCovers`): second `x`
falls into chunk `x div LongSegment`. The batches left have the chunk numbers from some `done` on, each once and in order
(`Cut`), and `EmotionInv` relates `done` to `flat_emotions`: there are at least `done` results, and if there are
no more, each is in its place. A batch that fails keeps the first, since its fallback stands for the whole batch, and
the second only if nothing of it was parsed. So there are always enough results at the end: the aggregation never
raises `IndexError`, and each speech segment gets an emotion because it has a chunk (`ChunksRight`). The excess
never goes away, which is why `EmotionsOwnUnlessShifted` can test for it at the end.

**Induction over data.** The induction theorems of the library take an operator as parameter, which the provers
cannot instantiate. `QueueFacts` states induction for sets of numbers (`AllNaturals`, from the well-foundedness of
`<`) and the definition of a recursive function by its step as a function (`DefinedByStep`); with these the list
that a selecting loop builds (`AscendingLists`) and the one that `FlattenSeq` puts together (`Flattened`) are
described for every length. Sorting needs no recursion: an element's place is the number of those ahead of it
(`ByStart`, `RankOf`).

**Only model-checked.** Liveness and everything about fairness or ENABLED is out of the prover's reach.
That are `EveryTaskSettles`, `GoneWorkersForgotten`, `EveryCallbackSettles` and `EveryCallEnds`.
Every other property of a passing run is proved, under the premises named above.

## 6. Where the code and its documents disagree

Each has a run that expects a violation and an entry under `findings` with the quoted line.

| Run | What it shows |
|---|---|
| `race_mark` | the answer to a task's only job overtakes the mark `PROCESSING`, and the task becomes `READY` without a result (`FinalResultWhole`, the first half of `FinalResultComplete`) |
| `restart_order` | recovery takes the first `WAITING` feature even when an earlier one is still `PROCESSING`, although features "are processed sequentially" |
| `callback_missing` | `json.dumps` of a `Results` model raises, so no callback that has a result is queued |
| `stt_full_batches` | when the speech segments fill their batches exactly, an empty batch follows, streaming it raises, and the job fails with all transcripts computed |

Seen while modelling, without a run of its own:

* Recovery ignores the status of the task and queues a feature of an aborted one (`RecoverableRequests`,
  `db/service.py:205`).
* The exception branch of a job names a status that does not exist and sends nothing; the task stays
  `PROCESSING` (`RaiseInJob`, `workers/audio_diarization_worker.py:150`).
* A heartbeat registers a worker and dispatches nothing (`DeliverHeartbeat`), although the flow diagram has
  "Startup / heartbeat", "Register worker", "Dispatch pending job" (`assets/api_flow_mermaid.md:47-50`). A worker whose
  startup message was lost, or that had expired, is registered and idle while the job that waits for it waits on.
  A failed answer dispatches no pending job either (`TaskFailed`), although its sender is free from then on. That is
  why `EveryTaskSettles` is checked without faults.
* The status endpoint has no message for some combinations of status and result (`HasStatusMessage` states the
  ones it has) and then fails: for a `WAITING` task always, and for one that is finished between its two reads
  (`PollAnswered` exempts both).
* A success answer does not register its sender although the worker's comment says so
  (`workers/audio_diarization_worker.py:130`).
* The callback worker closes its http client before its connection, so that a callback posting in between is
  acknowledged without having been sent (`cut` in `GivenUpOnlyWhenDue`).
* `get_channel` "ensures the channel is alive before returning it", but an overtaken request gets whatever
  is in `self.channel` by then, closed or not; connections replaced by a retry or by another request are never
  closed.
* "Add noise segments between speech segments" puts noise over speech when a segment lies within the one before
  it (`NoiseOnlyOverNestedSpeech`). The comments beside the thresholds of the diarization name other numbers
  than the code (lines 270-273), and `merge_autoresponder_micro_pauses` is called by nobody.
* After an exception the streaming buffer keeps what the job had appended, and the next job assigns those
  transcripts to its own segments (`TextsAreOwn` exempts it).
* After a batch of emotions that failed with results already parsed, later segments get emotions of earlier ones
  (`EmotionsOwnUnlessShifted` exempts them).

Because `callback_missing` is how the code behaves, the broker model queues only callbacks without a
result; `CallbackWorker` is written for whatever is in its queue.

## 7. What is not modelled

* The neural models, audio decoding, GPU helpers and the training script: no protocol state.
* What `connect_robust` restores by itself: a connection that closes in `ConnectionManager` is one that it gave
  up. In `ConversationAnalyzer` a lost connection appears only as a crash or a fault of the publish; the
  broker's and the workers' own connections have no code of their own to model.
* API key check and exception handlers: one comparison and wording, without state.
* Rounding: the diarization rounds the times of segments to two decimals; the ticks of `DiarizationService` are exact.
* Where NVIDIA's streaming buffer was read up to. `SttService` has the audio it holds; if a job that raised left
  the position at the end, the next one streams nothing and raises as well, which the model has as a raise
  of the neural model (`SttRaises`).
* Contents: transcripts, messages, time stamps, callback payloads, API keys, wording of errors.
* Jobs of one worker are one step: until the answer is sent the job is unacknowledged in a queue that dies
  with the worker, so nobody can observe where within the job it died.
* Migrations: only the three seeded features and their order matter, as `NumFeatures`.
* Several brokers. The deployment runs one.

## 8. Plan

Done: the inventory; store, queues, API, worker, broker and their composition with safety, fault and
liveness runs; the abstract life cycle and its refinement; the callback worker; the connection manager; the three
AI services; theorems for every invariant and action property of the runs, and for the refinement.

Left, in this order:

1. **Larger instances.** Three features; two workers of one type, for the random choice of `dispatch_feature`. The
   theorems cover both, the runs do not: what is open is progress.
