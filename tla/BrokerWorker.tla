---------------------------- MODULE BrokerWorker ----------------------------
(***************************************************************************)
(* The broker (src/workers/broker_worker.py): one asyncio process with two *)
(* message handlers.  prefetch_count=1 lets each handler work on one       *)
(* message at a time, the head of its queue, which stays there until it is *)
(* acknowledged.  The handlers interleave at every await, so an action is  *)
(* what a handler does between two of them; pc[h] names the call handler h *)
(* makes next.                                                             *)
(***************************************************************************)
EXTENDS MessageQueues, Faults

CONSTANT WithCallback       \* tasks submitted with a callback_url

ASSUME CallbackAssumption == WithCallback \subseteq Tasks

VARIABLES
    broker_up,
    available_workers,      \* workers registered (of every worker_type)
    late,                   \* those last heard of more than 100 seconds ago
    pending_requests,       \* jobs that found no worker, oldest first
    pc,                     \* each handler's next call
    view                    \* each handler's answer of get_features_for_task

brokerVars == <<broker_up, available_workers, late, pending_requests, pc, view>>

Handlers == {"request", "response"}

PCs == {"idle", "accept", "feature_failed", "task_failed", "feature_ready", "pending",
        "mark_pending", "read", "decide", "mark", "callback", "ack"}

BrokerInit ==
    /\ broker_up = TRUE
    /\ available_workers = {}
    /\ late = {}
    /\ pending_requests = <<>>
    /\ pc = [h \in Handlers |-> "idle"]
    /\ view = [h \in Handlers |-> NoView]

BrokerTypeOK ==
    /\ broker_up \in BOOLEAN
    /\ available_workers \in SUBSET Workers
    /\ late \in SUBSET Workers
    /\ pending_requests \in Seq(Job)
    /\ pc \in [Handlers -> PCs]
    /\ view \in [Handlers -> FeaturesView]

QueueOf(h) == IF h = "request" THEN request_queue ELSE response_queue
Answered   == Head(response_queue)
TaskOf(h)  == IF h = "request" THEN Head(request_queue) ELSE Answered.task

Goto(h, step) == pc' = [pc EXCEPT ![h] = step]

\* Handler h is about to make the call named step.
At(h, step) == broker_up /\ pc[h] = step

Registered(f) == {w \in available_workers : TypeOf[w] = f}

\* check_available_workers.
DropLateWorkers ==
    /\ available_workers' = available_workers \ late
    /\ late' = {}

\* register_worker.
Register(w) ==
    /\ available_workers' = available_workers \cup {w}
    /\ late' = late \ {w}

\* What a handler's step leaves alone besides the store.
KeepWorkers == UNCHANGED <<available_workers, late>>
KeepQueues  == UNCHANGED <<request_queue, response_queue, callback_queue, bound, files>>

-----------------------------------------------------------------------------
(* Background: time and _print_stats.                                      *)

\* 100 seconds pass without a message of w.  A process that is gone never
\* sends one again; for one that lives (an overloaded process, a broken link)
\* this is a fault.
GrowLate(w, alive) ==
    /\ w \in available_workers \ late
    /\ late' = late \cup {w}
    /\ Spend(IF alive THEN {"late_heartbeat"} ELSE {})
    /\ UNCHANGED <<storeVars, queueVars, broker_up, available_workers, pending_requests, pc, view>>

\* Mutant: the statistics are printed, nobody checks the heartbeats.
PrintStatsOnly ==
    /\ broker_up
    /\ late # {}
    /\ UNCHANGED <<storeVars, queueVars, budget, brokerVars>>

PrintStats ==
    /\ broker_up
    /\ late # {}
    /\ DropLateWorkers
    /\ UNCHANGED <<storeVars, queueVars, budget, broker_up, pending_requests, pc, view>>

-----------------------------------------------------------------------------
(* process_worker_pending_requests                                         *)

\* Positions of the pending jobs for feature f.
PendingFor(f) == {i \in DOMAIN pending_requests : pending_requests[i].feature = f}

\* Up to its first await: publish the oldest pending job of worker w's type to
\* w itself, registered or not, as long as some worker of that type is in
\* registered; continue at done when there is nothing to publish.  The publish
\* may raise, which ends the handler.
DispatchPending(w, registered, done) ==
    LET matches == {i \in PendingFor(TypeOf[w]) : \E v \in registered : TypeOf[v] = TypeOf[w]}
    IN  \/ /\ matches = {}
           /\ Goto("response", done)
           /\ Spend({})
           /\ UNCHANGED worker_queue
        \/ \E i \in FirstOf(matches) :
           /\ PublishJob(w, pending_requests[i])
           /\ Goto("response", "mark_pending")
           /\ Spend({})
        \/ /\ matches # {}
           /\ Goto("response", "ack")
           /\ Spend({"handler_error"})
           /\ UNCHANGED worker_queue

\* Mutant: the entries behind the dispatched one are forgotten.
MarkPendingForgets ==
    /\ At("response", "mark_pending")
    /\ \E i \in FirstOf(PendingFor(TypeOf[Answered.worker])) :
          /\ UpdateFeature(pending_requests[i].task, pending_requests[i].feature, "PROCESSING", None)
          /\ pending_requests' = SubSeq(pending_requests, 1, i - 1)
    /\ Goto("response", IF Answered.status = "startup" THEN "ack" ELSE "read")
    /\ UNCHANGED <<queueVars, budget, broker_up, view>>
    /\ KeepWorkers

\* After it: mark the feature PROCESSING, then keep every other entry, those
\* appended since included (the loop walks the live list).
MarkPending ==
    /\ At("response", "mark_pending")
    /\ \E i \in FirstOf(PendingFor(TypeOf[Answered.worker])) :
          /\ UpdateFeature(pending_requests[i].task, pending_requests[i].feature, "PROCESSING", None)
          /\ pending_requests' = SubSeq(pending_requests, 1, i - 1)
                                   \o SubSeq(pending_requests, i + 1, Len(pending_requests))
    /\ Goto("response", IF Answered.status = "startup" THEN "ack" ELSE "read")
    /\ UNCHANGED <<queueVars, budget, broker_up, view>>
    /\ KeepWorkers

-----------------------------------------------------------------------------
(* handle_api_request                                                      *)

DeliverRequest ==
    /\ At("request", "idle")
    /\ request_queue # <<>>
    /\ DropLateWorkers
    /\ Goto("request", "accept")
    /\ UNCHANGED <<storeVars, queueVars, budget, broker_up, pending_requests, view>>

AcceptRequest ==
    /\ At("request", "accept")
    /\ UpdateTask(TaskOf("request"), "PROCESSING", None)
    /\ Goto("request", "read")
    /\ UNCHANGED <<queueVars, budget, broker_up, pending_requests, view>>
    /\ KeepWorkers

-----------------------------------------------------------------------------
(* handle_worker_response, one delivery action per status                  *)

DeliverResponse(statuses) ==
    /\ At("response", "idle")
    /\ response_queue # <<>>
    /\ Answered.status \in statuses
    /\ UNCHANGED <<storeVars, broker_up, pending_requests, view>>

DeliverStartup ==
    /\ DeliverResponse({"startup"})
    /\ Register(Answered.worker)
    /\ DispatchPending(Answered.worker, available_workers \cup {Answered.worker}, "ack")
    /\ KeepQueues

\* A heartbeat or a shutdown changes the broker's memory only, and nothing is
\* awaited before its acknowledgement: a crash in between is the same as one
\* before the delivery.
HandledAtOnce ==
    /\ response_queue' = Tail(response_queue)
    /\ UNCHANGED <<request_queue, callback_queue, worker_queue, bound, files, budget, pc>>

DeliverHeartbeat ==
    /\ DeliverResponse({"heartbeat"})
    /\ Register(Answered.worker)
    /\ HandledAtOnce

DeliverShutdown ==
    /\ DeliverResponse({"shutdown"})
    /\ available_workers' = available_workers \ {Answered.worker}
    /\ late' = late \ {Answered.worker}
    /\ HandledAtOnce

DeliverAnswer ==
    /\ DeliverResponse(AnswerStatuses)
    /\ Goto("response", IF Answered.status = "failed" THEN "feature_failed" ELSE "feature_ready")
    /\ UNCHANGED <<queueVars, budget>>
    /\ KeepWorkers

FeatureFailed ==
    /\ At("response", "feature_failed")
    /\ UpdateFeature(Answered.task, TypeOf[Answered.worker], "FAILED", None)
    /\ Goto("response", "task_failed")
    /\ UNCHANGED <<queueVars, budget, broker_up, pending_requests, view>>
    /\ KeepWorkers

\* Mutant: after the abort the handler goes on to the next feature.
TaskFailedGoesOn ==
    /\ At("response", "task_failed")
    /\ UpdateTask(Answered.task, "FAILED", None)
    /\ Goto("response", "read")
    /\ UNCHANGED <<queueVars, budget, broker_up, pending_requests, view>>
    /\ KeepWorkers

TaskFailed ==
    /\ At("response", "task_failed")
    /\ UpdateTask(Answered.task, "FAILED", None)
    /\ Goto("response", "ack")
    /\ UNCHANGED <<queueVars, budget, broker_up, pending_requests, view>>
    /\ KeepWorkers

FeatureReady ==
    /\ At("response", "feature_ready")
    /\ UpdateFeature(Answered.task, TypeOf[Answered.worker], "READY", Answered.result)
    /\ Goto("response", "pending")
    /\ UNCHANGED <<queueVars, budget, broker_up, pending_requests, view>>
    /\ KeepWorkers

\* Mutant: an answer does not dispatch a pending job.
PendingAfterAnswerSkipped ==
    /\ At("response", "pending")
    /\ Goto("response", "read")
    /\ UNCHANGED <<storeVars, queueVars, budget, broker_up, available_workers, late,
                   pending_requests, view>>

PendingAfterAnswer ==
    /\ At("response", "pending")
    /\ DispatchPending(Answered.worker, available_workers, "read")
    /\ KeepQueues
    /\ KeepWorkers
    /\ UNCHANGED <<storeVars, broker_up, pending_requests, view>>

-----------------------------------------------------------------------------
(* dispatch_next_feature, called by both handlers                          *)

\* get_task and get_features_for_task: a snapshot the rest decides on.  The early
\* return for a task without a row is never taken: whatever travels for a task has
\* one (RowsExist in ConversationAnalyzerProofs).
ReadFeatures(h) ==
    /\ At(h, "read")
    /\ view' = [view EXCEPT ![h] = FeaturesOf(TaskOf(h))]
    /\ Goto(h, "decide")
    /\ UNCHANGED <<storeVars, queueVars, budget, broker_up, pending_requests>>
    /\ KeepWorkers

\* Mutant: existing_results is not passed on.
NextJobAlone(h, f) == [task |-> TaskOf(h), feature |-> f, existing |-> None]

NextJob(h, f) == [task |-> TaskOf(h), feature |-> f, existing |-> view[h].existing]

\* dispatch_feature without a worker: the feature stays WAITING.
Defer(h) ==
    /\ At(h, "decide")
    /\ \E f \in FirstOf(view[h].waiting) :
          /\ Registered(f) = {}
          /\ pending_requests' = Append(pending_requests, NextJob(h, f))
    /\ Goto(h, "ack")
    /\ UNCHANGED <<storeVars, queueVars, budget, broker_up, view>>
    /\ KeepWorkers

\* dispatch_feature with workers: one is chosen at random.
Dispatch(h) ==
    /\ At(h, "decide")
    /\ \E f \in FirstOf(view[h].waiting) :
          \E w \in Registered(f) : PublishJob(w, NextJob(h, f))
    /\ Goto(h, "mark")
    /\ UNCHANGED <<storeVars, budget, broker_up, pending_requests, view>>
    /\ KeepQueues
    /\ KeepWorkers

MarkDispatched(h) ==
    /\ At(h, "mark")
    /\ \E f \in FirstOf(view[h].waiting) : UpdateFeature(TaskOf(h), f, "PROCESSING", None)
    /\ Goto(h, "ack")
    /\ UNCHANGED <<queueVars, budget, broker_up, pending_requests, view>>
    /\ KeepWorkers

\* No WAITING feature in the snapshot and a FAILED one.
FinishFailed(h) ==
    /\ At(h, "decide")
    /\ view[h].waiting = {}
    /\ view[h].failed
    /\ UpdateTask(TaskOf(h), "FAILED", None)
    /\ Goto(h, "ack")
    /\ UNCHANGED <<queueVars, budget, broker_up, pending_requests, view>>
    /\ KeepWorkers

\* Mutant: the result is committed first, and the status in a second transaction.
FinishReadyResultFirst(h) ==
    /\ At(h, "decide")
    /\ view[h].waiting = {}
    /\ ~ view[h].failed
    /\ \/ /\ finalResult[TaskOf(h)] = None
          /\ UpdateTask(TaskOf(h), taskStatus[TaskOf(h)], view[h].existing)
          /\ UNCHANGED pc
       \/ /\ finalResult[TaskOf(h)] # None
          /\ UpdateTask(TaskOf(h), "READY", None)
          /\ Goto(h, "callback")
    /\ UNCHANGED <<queueVars, budget, broker_up, pending_requests, view>>
    /\ KeepWorkers

\* No WAITING and no FAILED feature in the snapshot.
FinishReady(h) ==
    /\ At(h, "decide")
    /\ view[h].waiting = {}
    /\ ~ view[h].failed
    /\ UpdateTask(TaskOf(h), "READY", view[h].existing)
    /\ Goto(h, "callback")
    /\ UNCHANGED <<queueVars, budget, broker_up, pending_requests, view>>
    /\ KeepWorkers

\* json.dumps accepts None but not a Results model: it raises TypeError, which
\* the handler logs.
Serialisable(result) == result = None

\* _send_callback.
SendCallback(h) ==
    /\ At(h, "callback")
    /\ callback_queue' = IF TaskOf(h) \in WithCallback /\ Serialisable(view[h].existing)
                            THEN Append(callback_queue, [task |-> TaskOf(h), result |-> view[h].existing])
                            ELSE callback_queue
    /\ Goto(h, "ack")
    /\ UNCHANGED <<storeVars, request_queue, response_queue, worker_queue, bound, files,
                   budget, broker_up, pending_requests, view>>
    /\ KeepWorkers

-----------------------------------------------------------------------------
(* The end of a handler and of the process                                 *)

\* message.process() acknowledges when the handler returns, whether it did its
\* work or logged an exception.
Acknowledge(h) ==
    /\ At(h, "ack")
    /\ IF h = "request"
          THEN request_queue' = Tail(request_queue) /\ UNCHANGED response_queue
          ELSE response_queue' = Tail(response_queue) /\ UNCHANGED request_queue
    /\ Goto(h, "idle")
    /\ view' = [view EXCEPT ![h] = NoView]
    /\ UNCHANGED <<storeVars, callback_queue, worker_queue, bound, files, budget,
                   broker_up, pending_requests>>
    /\ KeepWorkers

\* The call raises and has no effect; except Exception logs it.  What the
\* handler still had to do is not done.
HandlerError(h) ==
    /\ broker_up
    /\ pc[h] \notin {"idle", "pending", "ack"}
    /\ Goto(h, "ack")
    /\ Spend({"handler_error"})
    /\ UNCHANGED <<storeVars, queueVars, broker_up, pending_requests, view>>
    /\ KeepWorkers

\* A crash, or a SIGTERM that cancels the handlers: memory is lost, the
\* messages in progress go back to the head of their queues.
BrokerCrash ==
    /\ broker_up
    /\ Spend({"broker_crash"})
    /\ broker_up' = FALSE
    /\ available_workers' = {}
    /\ late' = {}
    /\ pending_requests' = <<>>
    /\ pc' = [h \in Handlers |-> "idle"]
    /\ view' = [h \in Handlers |-> NoView]
    /\ UNCHANGED <<storeVars, queueVars>>

\* Mutant: the broker starts with an empty list.
BrokerStartEmpty ==
    /\ ~ broker_up
    /\ broker_up' = TRUE
    /\ UNCHANGED <<storeVars, queueVars, budget, available_workers, late, pending_requests, pc, view>>

\* Mutant: the broker first puts every PROCESSING feature back to WAITING.
BrokerStartRequeues ==
    /\ ~ broker_up
    /\ broker_up' = TRUE
    /\ featStatus' = [t \in Tasks |-> [f \in Features |->
                         IF featStatus[t][f] = "PROCESSING" THEN "WAITING" ELSE featStatus[t][f]]]
    /\ pending_requests' \in InTaskIdOrder(RecoverableRequests)
    /\ UNCHANGED <<taskId, taskStatus, featResult, finalResult, queueVars, budget,
                   available_workers, late, pc, view>>

\* run: recover the pending requests, then consume.
BrokerStart ==
    /\ ~ broker_up
    /\ broker_up' = TRUE
    /\ pending_requests' \in InTaskIdOrder(RecoverableRequests)
    /\ UNCHANGED <<storeVars, queueVars, budget, available_workers, late, pc, view>>

HandleRequest == DeliverRequest \/ AcceptRequest

HandleResponse ==
    \/ DeliverStartup \/ DeliverHeartbeat \/ DeliverShutdown \/ DeliverAnswer
    \/ FeatureFailed \/ TaskFailed
    \/ FeatureReady \/ PendingAfterAnswer \/ MarkPending

DispatchNextFeature(h) ==
    \/ ReadFeatures(h)
    \/ Defer(h) \/ Dispatch(h) \/ MarkDispatched(h)
    \/ FinishFailed(h) \/ FinishReady(h) \/ SendCallback(h)

\* Every step the running broker takes on its own.
BrokerStep ==
    \/ HandleRequest \/ HandleResponse
    \/ \E h \in Handlers : DispatchNextFeature(h) \/ Acknowledge(h)
=============================================================================
