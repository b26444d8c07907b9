---------------------------- MODULE AudioWorker -----------------------------
(***************************************************************************)
(* An AI worker process (src/workers/audio_diarization_worker.py).  The    *)
(* repository has one worker program, for diarization; its message         *)
(* protocol is modelled once and instantiated for every feature, since the *)
(* broker already serves the other two (their worker files are empty).     *)
(*                                                                         *)
(* A job is one step: the job stays unacknowledged in the private queue    *)
(* until its answer is sent, and a crash meanwhile loses the queue, so no  *)
(* other process can tell where within the job the crash was.              *)
(***************************************************************************)
EXTENDS MessageQueues, Faults

VARIABLE wstate         \* state of each worker process

workerVars == <<wstate>>

\* "closing": the shutdown status is sent, the connection not yet closed.
WorkerStates == {"off", "up", "closing", "gone"}

WorkerInit   == wstate = [w \in Workers |-> "off"]
WorkerTypeOK == wstate \in [Workers -> WorkerStates]

Running(w) == wstate[w] \in {"up", "closing"}

StatusOf(w, status) == [status |-> status, worker |-> w, task |-> NoTask, result |-> None]

\* send_status, in a step that also costs the faults in cost: a failure to
\* publish is logged and forgotten.
SendStatus(response, cost) ==
    \/ /\ Spend(cost)
       /\ response_queue' = Append(response_queue, response)
    \/ /\ Spend(cost \cup {"lost_status"})
       /\ UNCHANGED response_queue

\* connect_message_queues, then the startup status of run.
StartWorker(w) ==
    /\ wstate[w] = "off"
    /\ wstate' = [wstate EXCEPT ![w] = "up"]
    /\ DeclareWorkerQueue(w)
    /\ SendStatus(StatusOf(w, "startup"), {})
    /\ UNCHANGED <<storeVars, request_queue, callback_queue, files>>

\* One round of heartbeat_loop, which runs until the connection closes.  Bound:
\* a worker sends no heartbeat while the broker has not handled its last one.
Heartbeat(w) ==
    /\ Running(w)
    /\ \A i \in DOMAIN response_queue : response_queue[i] # StatusOf(w, "heartbeat")
    /\ response_queue' = Append(response_queue, StatusOf(w, "heartbeat"))
    /\ UNCHANGED <<storeVars, request_queue, callback_queue, worker_queue, bound, files,
                   wstate, budget>>

-----------------------------------------------------------------------------
\* Mutant: a service that does not mind missing results.
InferenceAlone(job) == job.existing \cup {job.feature}

\* The Results a job's inference returns, None when it returns an error.
\* Diarization starts a new document; the other services add to the one they
\* are given and fail without it.
Inference(job) ==
    IF job.feature = Diarization THEN {Diarization}
    ELSE IF job.existing = None THEN None
    ELSE job.existing \cup {job.feature}

TakeJob(w) ==
    /\ Running(w)
    /\ worker_queue[w] # <<>>
    /\ worker_queue' = [worker_queue EXCEPT ![w] = Tail(@)]
    /\ UNCHANGED <<storeVars, request_queue, callback_queue, bound, files, wstate>>

\* The audio was read and the inference succeeded.
AnswerSuccess(w) ==
    /\ TakeJob(w)
    /\ LET job == Head(worker_queue[w]) IN
          /\ job.task \in files
          /\ Inference(job) # None
          /\ SendStatus([status |-> "success", worker |-> w, task |-> job.task,
                         result |-> Inference(job)], {})

\* The audio was read and the inference returned an error message.
AnswerFailed(w) ==
    /\ TakeJob(w)
    /\ LET job == Head(worker_queue[w]) IN
          /\ job.task \in files
          /\ SendStatus([status |-> "failed", worker |-> w, task |-> job.task, result |-> None],
                        IF Inference(job) = None THEN {} ELSE {"inference_error"})

\* The audio could not be read.  The handler for this names a status that does
\* not exist (WorkerStatusMessage.failed_task), so it raises before it sends
\* anything and the job is rejected.
RaiseInJob(w) ==
    /\ TakeJob(w)
    /\ Spend(IF Head(worker_queue[w]).task \in files THEN {"storage_error"} ELSE {})
    /\ UNCHANGED response_queue

ProcessTask(w) == AnswerSuccess(w) \/ AnswerFailed(w) \/ RaiseInJob(w)

-----------------------------------------------------------------------------
\* SIGTERM: the shutdown status is sent; consumer and heartbeats run on.
Shutdown(w) ==
    /\ wstate[w] = "up"
    /\ wstate' = [wstate EXCEPT ![w] = "closing"]
    /\ SendStatus(StatusOf(w, "shutdown"), {"worker_exit"})
    /\ UNCHANGED <<storeVars, request_queue, callback_queue, worker_queue, bound, files>>

\* The connection closes, or the process dies without a word.
CloseConnection(w) ==
    /\ \/ wstate[w] = "closing" /\ Spend({})
       \/ wstate[w] = "up" /\ Spend({"worker_exit"})
    /\ wstate' = [wstate EXCEPT ![w] = "gone"]
    /\ DropWorkerQueue(w)
    /\ UNCHANGED <<storeVars, request_queue, response_queue, callback_queue, files>>
=============================================================================
