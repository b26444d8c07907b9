--------------------------- MODULE MessageQueues ----------------------------
(***************************************************************************)
(* RabbitMQ and MinIO as the code uses them.  The three named queues are   *)
(* durable and their messages persistent: they survive every crash.  A     *)
(* message is delivered to its only consumer in order, one at a time       *)
(* (prefetch_count=1), and stays at the head of the queue until it is      *)
(* acknowledged, so a consumer that dies gets it again.  The private queue *)
(* of a worker is exclusive and auto-delete: it vanishes, with what it     *)
(* holds, when the worker's connection closes, and a message routed to a   *)
(* worker without a queue is dropped silently.                             *)
(***************************************************************************)
EXTENDS TaskStore, Sequences

CONSTANTS Workers,      \* worker processes; a WORKER_ID is fresh at every start
          TypeOf,       \* the feature each worker computes
          NoTask        \* the empty task_uuid of a status message

ASSUME WorkersAssumption == TypeOf \in [Workers -> Features]
ASSUME NoTaskAssumption == NoTask \notin Tasks

VARIABLES
    request_queue,      \* TaskPayload, API -> broker
    response_queue,     \* WorkerResponsePayload, workers -> broker
    callback_queue,     \* finished tasks, broker -> callback worker
    worker_queue,       \* feature jobs, broker -> each worker
    bound,              \* the workers whose private queue exists
    files               \* objects in request-files-unprocessed

queueVars == <<request_queue, response_queue, callback_queue, worker_queue, bound, files>>

AnswerStatuses == {"success", "failed"}
StatusMessages == {"startup", "shutdown", "heartbeat"}

Answer   == [status : AnswerStatuses, worker : Workers, task : Tasks, result : Results]
Status   == [status : StatusMessages, worker : Workers, task : {NoTask}, result : {None}]
Response == Answer \cup Status
Callback == [task : Tasks, result : Results]

QueuesInit ==
    /\ request_queue  = <<>>
    /\ response_queue = <<>>
    /\ callback_queue = <<>>
    /\ worker_queue   = [w \in Workers |-> <<>>]
    /\ bound          = {}
    /\ files          = {}

QueuesTypeOK ==
    /\ request_queue  \in Seq(Tasks)
    /\ response_queue \in Seq(Response)
    /\ callback_queue \in Seq(Callback)
    /\ worker_queue   \in [Workers -> Seq(Job)]
    /\ bound          \in SUBSET Workers
    /\ files          \in SUBSET Tasks

\* Publish a job with routing key worker.<type>.<w>.
PublishJob(w, job) ==
    worker_queue' = IF w \in bound
                       THEN [worker_queue EXCEPT ![w] = Append(@, job)]
                       ELSE worker_queue

DeclareWorkerQueue(w) == bound' = bound \cup {w} /\ UNCHANGED worker_queue

DropWorkerQueue(w) ==
    /\ bound' = bound \ {w}
    /\ worker_queue' = [worker_queue EXCEPT ![w] = <<>>]
=============================================================================
