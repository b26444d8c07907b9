--------------------- MODULE ConversationAnalyzerProofs ---------------------
(***************************************************************************)
(* Invariants of the analyser for every number of tasks, features and      *)
(* workers and every fault budget.  The first part says, variable by       *)
(* variable, which actions touch it and how; the invariants then follow    *)
(* from these effects.  The last two parts are about what a task is        *)
(* finished with: no WAITING feature, and results built on diarization.    *)
(***************************************************************************)
EXTENDS ConversationAnalyzer, FiniteSetTheorems, QueueFacts

-----------------------------------------------------------------------------
(* Inductive invariant, first part: types, and the messages in progress.   *)

RequestPCs == {"idle", "accept", "read", "decide", "mark", "callback", "ack"}
AnswerPCs  == {"feature_failed", "task_failed", "feature_ready", "pending",
               "read", "decide", "mark", "callback"}

\* The message a handler works on is there, and of the kind the handler's next
\* call is for.
InFlightAt(p) ==
    /\ p["request"] \in RequestPCs
    /\ p["request"] # "idle" => request_queue # <<>>
    /\ p["response"] # "accept"
    /\ p["response"] # "idle" => response_queue # <<>>
    /\ p["response"] \in AnswerPCs => Answered.status \in AnswerStatuses
    /\ p["response"] = "feature_ready" => Answered.status = "success"
    /\ p["response"] = "mark_pending" => Answered.status \in AnswerStatuses \cup {"startup"}

InFlight == InFlightAt(pc)

Typing == TypeOK /\ InFlight

-----------------------------------------------------------------------------
(* Effects                                                                 *)

\* The actions that write to the database.
StoreStep ==
    \/ \E t \in Tasks : InsertSubmission(t)
    \/ AcceptRequest \/ FeatureFailed \/ TaskFailed \/ FeatureReady \/ MarkPending
    \/ \E h \in Handlers : MarkDispatched(h) \/ FinishFailed(h) \/ FinishReady(h)

\* No other action changes a row.
LEMMA StoreFrame ==
    ASSUME [Next]_vars
    PROVE  UNCHANGED storeVars \/ StoreStep
<1>1. ASSUME NEW t \in Tasks, Api(t) PROVE UNCHANGED storeVars \/ StoreStep
  BY <1>1 DEF Api, ApiStep, StoreAudio, PublishTask, PublishFails, StoreStep
<1>2. ASSUME NEW w \in Workers, Begin(w) \/ Beat(w) \/ Work(w) \/ Leave(w)
      PROVE  UNCHANGED storeVars
  BY <1>2 DEF Begin, Beat, Work, Leave, StartWorker, Heartbeat, ProcessTask, AnswerSuccess,
              AnswerFailed, RaiseInJob, TakeJob, Shutdown, CloseConnection
<1>3. CASE HandleRequest \/ HandleResponse
  BY <1>3 DEF HandleRequest, HandleResponse, DeliverRequest, DeliverStartup, DeliverHeartbeat,
              DeliverShutdown, DeliverAnswer, DeliverResponse, PendingAfterAnswer, StoreStep
<1>4. ASSUME NEW h \in Handlers, DispatchNextFeature(h) \/ Acknowledge(h)
      PROVE  UNCHANGED storeVars \/ StoreStep
  BY <1>4 DEF DispatchNextFeature, ReadFeatures, Defer, Dispatch, SendCallback, Acknowledge, StoreStep
<1>5. CASE Restart \/ Expire \/ Fault
  BY <1>5 DEF Restart, BrokerStart, Expire, PrintStats, GrowLate, Fault, HandlerError,
              BrokerCrash, DeleteAudio
<1>6. CASE UNCHANGED vars
  BY <1>6 DEF vars
<1>7. QED
  BY <1>1, <1>2, <1>3, <1>4, <1>5, <1>6 DEF Next, Broker, BrokerStep

\* Requests are published by the API and taken off by their acknowledgement.
LEMMA RequestQueueEffect ==
    ASSUME [Next]_vars
    PROVE  \/ UNCHANGED request_queue
           \/ \E t \in Tasks : submission[t] = "inserted" /\ request_queue' = Append(request_queue, t)
           \/ pc["request"] = "ack" /\ Goto("request", "idle") /\ request_queue' = Tail(request_queue)
<1>. USE DEF queueVars
<1>1. ASSUME NEW t \in Tasks, Api(t)
      PROVE  \/ UNCHANGED request_queue
             \/ submission[t] = "inserted" /\ request_queue' = Append(request_queue, t)
  BY <1>1 DEF Api, ApiStep, StoreAudio, InsertSubmission, PublishTask, PublishFails, Advance
<1>2. ASSUME NEW w \in Workers, Begin(w) \/ Beat(w) \/ Work(w) \/ Leave(w)
      PROVE  UNCHANGED request_queue
  BY <1>2 DEF Begin, Beat, Work, Leave, StartWorker, Heartbeat, ProcessTask, AnswerSuccess,
              AnswerFailed, RaiseInJob, TakeJob, Shutdown, CloseConnection
<1>3. CASE HandleRequest \/ HandleResponse
  BY <1>3 DEF HandleRequest, HandleResponse, DeliverRequest, DeliverStartup, DeliverHeartbeat,
              DeliverShutdown, HandledAtOnce, DeliverAnswer, PendingAfterAnswer, AcceptRequest,
              FeatureFailed, TaskFailed, FeatureReady, MarkPending, KeepQueues
<1>4. ASSUME NEW h \in Handlers, DispatchNextFeature(h) PROVE UNCHANGED request_queue
  BY <1>4 DEF DispatchNextFeature, ReadFeatures, Defer, Dispatch, MarkDispatched, FinishFailed,
              FinishReady, SendCallback, KeepQueues
<1>5. ASSUME NEW h \in Handlers, Acknowledge(h)
      PROVE  \/ UNCHANGED request_queue
             \/ pc["request"] = "ack" /\ Goto("request", "idle") /\ request_queue' = Tail(request_queue)
  BY <1>5 DEF Acknowledge, At
<1>6. CASE Restart \/ Expire \/ Fault
  BY <1>6 DEF Restart, BrokerStart, Expire, PrintStats, GrowLate, Fault, HandlerError,
              BrokerCrash, DeleteAudio
<1>7. CASE UNCHANGED vars
  BY <1>7 DEF vars
<1>8. QED
  BY <1>1, <1>2, <1>3, <1>4, <1>5, <1>6, <1>7 DEF Next, Broker, BrokerStep

\* The answer worker w gives to the first job of its queue.
AnswerOf(w, status, result) ==
    [status |-> status, worker |-> w, task |-> Head(worker_queue[w]).task, result |-> result]

\* Workers append status messages and answers to their first job; the broker
\* takes a message off once its handler is through.
LEMMA ResponseQueueEffect ==
    ASSUME [Next]_vars
    PROVE  \/ UNCHANGED response_queue
           \/ \E w \in Workers, s \in StatusMessages :
                 response_queue' = Append(response_queue, StatusOf(w, s))
           \/ \E w \in Workers :
                 /\ worker_queue[w] # <<>>
                 /\ \/ response_queue' = Append(response_queue, AnswerOf(w, "failed", None))
                    \/ /\ Inference(Head(worker_queue[w])) # None
                       /\ response_queue' = Append(response_queue,
                             AnswerOf(w, "success", Inference(Head(worker_queue[w]))))
           \/ /\ pc["response"] = "ack" /\ Goto("response", "idle")
              /\ response_queue' = Tail(response_queue)
           \/ /\ pc["response"] = "idle" /\ UNCHANGED pc
              /\ response_queue # <<>> /\ response_queue' = Tail(response_queue)
              /\ Answered.status \in StatusMessages
<1>. USE DEF queueVars
<1>1. ASSUME NEW t \in Tasks, Api(t) PROVE UNCHANGED response_queue
  BY <1>1 DEF Api, ApiStep, StoreAudio, InsertSubmission, PublishTask, PublishFails
<1>2. ASSUME NEW w \in Workers, Begin(w) \/ Beat(w) \/ Leave(w)
      PROVE  \/ UNCHANGED response_queue
             \/ \E s \in StatusMessages : response_queue' = Append(response_queue, StatusOf(w, s))
  BY <1>2 DEF Begin, Beat, Leave, StartWorker, Heartbeat, Shutdown, CloseConnection, SendStatus,
              StatusMessages
<1>3. ASSUME NEW w \in Workers, Work(w)
      PROVE  \/ UNCHANGED response_queue
             \/ /\ worker_queue[w] # <<>>
                /\ \/ response_queue' = Append(response_queue, AnswerOf(w, "failed", None))
                   \/ /\ Inference(Head(worker_queue[w])) # None
                      /\ response_queue' = Append(response_queue,
                            AnswerOf(w, "success", Inference(Head(worker_queue[w]))))
  BY <1>3 DEF Work, ProcessTask, AnswerSuccess, AnswerFailed, RaiseInJob, TakeJob, SendStatus, AnswerOf
<1>4. ASSUME HandleRequest \/ HandleResponse
      PROVE  \/ UNCHANGED response_queue
             \/ /\ pc["response"] = "idle" /\ UNCHANGED pc
                /\ response_queue # <<>> /\ response_queue' = Tail(response_queue)
                /\ Answered.status \in StatusMessages
  BY <1>4 DEF HandleRequest, HandleResponse, DeliverRequest, DeliverStartup, DeliverHeartbeat,
              DeliverShutdown, HandledAtOnce, DeliverResponse, DeliverAnswer, PendingAfterAnswer,
              AcceptRequest, FeatureFailed, TaskFailed, FeatureReady, MarkPending, KeepQueues, At,
              StatusMessages
<1>5. ASSUME NEW h \in Handlers, DispatchNextFeature(h) PROVE UNCHANGED response_queue
  BY <1>5 DEF DispatchNextFeature, ReadFeatures, Defer, Dispatch, MarkDispatched, FinishFailed,
              FinishReady, SendCallback, KeepQueues
<1>6. ASSUME NEW h \in Handlers, Acknowledge(h)
      PROVE  \/ UNCHANGED response_queue
             \/ /\ pc["response"] = "ack" /\ Goto("response", "idle")
                /\ response_queue' = Tail(response_queue)
  BY <1>6 DEF Acknowledge, At, Handlers
<1>7. CASE Restart \/ Expire \/ Fault
  BY <1>7 DEF Restart, BrokerStart, Expire, PrintStats, GrowLate, Fault, HandlerError,
              BrokerCrash, DeleteAudio
<1>8. CASE UNCHANGED vars
  BY <1>8 DEF vars
<1>9. QED
  BY <1>1, <1>2, <1>3, <1>4, <1>5, <1>6, <1>7, <1>8 DEF Next, Broker, BrokerStep

\* Only _send_callback queues a callback.
LEMMA CallbackQueueEffect ==
    ASSUME [Next]_vars
    PROVE  \/ UNCHANGED callback_queue
           \/ \E h \in Handlers :
                 /\ pc[h] = "callback"
                 /\ callback_queue' = Append(callback_queue,
                                             [task |-> TaskOf(h), result |-> view[h].existing])
<1>. USE DEF queueVars
<1>1. ASSUME NEW t \in Tasks, Api(t) PROVE UNCHANGED callback_queue
  BY <1>1 DEF Api, ApiStep, StoreAudio, InsertSubmission, PublishTask, PublishFails
<1>2. ASSUME NEW w \in Workers, Begin(w) \/ Beat(w) \/ Work(w) \/ Leave(w)
      PROVE  UNCHANGED callback_queue
  BY <1>2 DEF Begin, Beat, Work, Leave, StartWorker, Heartbeat, ProcessTask, AnswerSuccess,
              AnswerFailed, RaiseInJob, TakeJob, Shutdown, CloseConnection
<1>3. CASE HandleRequest \/ HandleResponse
  BY <1>3 DEF HandleRequest, HandleResponse, DeliverRequest, DeliverStartup, DeliverHeartbeat,
              DeliverShutdown, HandledAtOnce, DeliverAnswer, PendingAfterAnswer, AcceptRequest,
              FeatureFailed, TaskFailed, FeatureReady, MarkPending, KeepQueues
<1>4. ASSUME NEW h \in Handlers, DispatchNextFeature(h) \/ Acknowledge(h)
      PROVE  \/ UNCHANGED callback_queue
             \/ /\ pc[h] = "callback"
                /\ callback_queue' = Append(callback_queue,
                                            [task |-> TaskOf(h), result |-> view[h].existing])
  BY <1>4 DEF DispatchNextFeature, ReadFeatures, Defer, Dispatch, MarkDispatched, FinishFailed,
              FinishReady, SendCallback, Acknowledge, KeepQueues, At
<1>5. CASE Restart \/ Expire \/ Fault
  BY <1>5 DEF Restart, BrokerStart, Expire, PrintStats, GrowLate, Fault, HandlerError,
              BrokerCrash, DeleteAudio
<1>6. CASE UNCHANGED vars
  BY <1>6 DEF vars
<1>7. QED
  BY <1>1, <1>2, <1>3, <1>4, <1>5, <1>6 DEF Next, Broker, BrokerStep

\* A private queue loses its first job to its worker, or everything with the
\* connection; it gains the oldest pending job of the worker's feature, or the
\* job a handler has decided on.
LEMMA WorkerQueueEffect ==
    ASSUME [Next]_vars
    PROVE  \/ UNCHANGED worker_queue
           \/ \E w \in Workers : /\ worker_queue[w] # <<>>
                                 /\ worker_queue' = [worker_queue EXCEPT ![w] = Tail(@)]
           \/ \E w \in Workers : worker_queue' = [worker_queue EXCEPT ![w] = <<>>]
           \/ /\ response_queue # <<>> \/ pc["response"] = "pending"
              /\ \E i \in PendingFor(TypeOf[Answered.worker]) :
                    PublishJob(Answered.worker, pending_requests[i])
           \/ \E h \in Handlers : /\ pc[h] = "decide"
                                  /\ \E f \in view[h].waiting : \E w \in Registered(f) :
                                        PublishJob(w, NextJob(h, f))
<1>. USE DEF queueVars
<1>1. ASSUME NEW t \in Tasks, Api(t) PROVE UNCHANGED worker_queue
  BY <1>1 DEF Api, ApiStep, StoreAudio, InsertSubmission, PublishTask, PublishFails
<1>2. ASSUME NEW w \in Workers, Begin(w) \/ Beat(w) \/ Work(w) \/ Leave(w)
      PROVE  \/ UNCHANGED worker_queue
             \/ /\ worker_queue[w] # <<>>
                /\ worker_queue' = [worker_queue EXCEPT ![w] = Tail(@)]
             \/ worker_queue' = [worker_queue EXCEPT ![w] = <<>>]
  BY <1>2 DEF Begin, Beat, Work, Leave, StartWorker, Heartbeat, ProcessTask, AnswerSuccess,
              AnswerFailed, RaiseInJob, TakeJob, Shutdown, CloseConnection, DeclareWorkerQueue,
              DropWorkerQueue
<1>3. ASSUME NEW R, NEW done, DispatchPending(Answered.worker, R, done)
      PROVE  \/ UNCHANGED worker_queue
             \/ \E i \in PendingFor(TypeOf[Answered.worker]) :
                   PublishJob(Answered.worker, pending_requests[i])
  BY <1>3 DEF DispatchPending, FirstOf
<1>4. CASE DeliverStartup \/ PendingAfterAnswer
  <2>1. CASE DeliverStartup
    BY <1>3, <2>1 DEF DeliverStartup, DeliverResponse
  <2>2. CASE PendingAfterAnswer
    BY <1>3, <2>2 DEF PendingAfterAnswer, At
  <2>. QED
    BY <1>4, <2>1, <2>2
<1>5. CASE HandleRequest \/ HandleResponse
  BY <1>4, <1>5 DEF HandleRequest, HandleResponse, DeliverRequest, DeliverHeartbeat,
              DeliverShutdown, HandledAtOnce, DeliverAnswer, AcceptRequest,
              FeatureFailed, TaskFailed, FeatureReady, MarkPending
<1>6. ASSUME NEW h \in Handlers, DispatchNextFeature(h) \/ Acknowledge(h)
      PROVE  \/ UNCHANGED worker_queue
             \/ /\ pc[h] = "decide"
                /\ \E f \in view[h].waiting : \E w \in Registered(f) : PublishJob(w, NextJob(h, f))
  BY <1>6 DEF DispatchNextFeature, ReadFeatures, Defer, Dispatch, MarkDispatched, FinishFailed,
              FinishReady, SendCallback, Acknowledge, At, FirstOf
<1>7. CASE Restart \/ Expire \/ Fault
  BY <1>7 DEF Restart, BrokerStart, Expire, PrintStats, GrowLate, Fault, HandlerError,
              BrokerCrash, DeleteAudio
<1>8. CASE UNCHANGED vars
  BY <1>8 DEF vars
<1>9. QED
  BY <1>1, <1>2, <1>5, <1>6, <1>7, <1>8, Zenon DEF Next, Broker, BrokerStep, Registered

\* The list of pending jobs is lost in a crash and rebuilt at the start; in
\* between it gains the jobs that found no worker and loses the dispatched ones.
LEMMA PendingEffect ==
    ASSUME [Next]_vars
    PROVE  \/ UNCHANGED pending_requests
           \/ pending_requests' = <<>>
           \/ pending_requests' \in InTaskIdOrder(RecoverableRequests)
           \/ \E i \in DOMAIN pending_requests :
                 pending_requests' = SubSeq(pending_requests, 1, i - 1)
                                        \o SubSeq(pending_requests, i + 1, Len(pending_requests))
           \/ \E h \in Handlers :
                 /\ pc[h] = "decide"
                 /\ \E f \in view[h].waiting : pending_requests' = Append(pending_requests, NextJob(h, f))
<1>. USE DEF brokerVars
<1>1. ASSUME NEW t \in Tasks, Api(t) PROVE UNCHANGED pending_requests
  BY <1>1 DEF Api
<1>2. ASSUME NEW w \in Workers, Begin(w) \/ Beat(w) \/ Work(w) \/ Leave(w)
      PROVE  UNCHANGED pending_requests
  BY <1>2 DEF Begin, Beat, Work, Leave
<1>3. CASE MarkPending
  BY <1>3 DEF MarkPending, FirstOf, PendingFor
<1>4. CASE (HandleRequest \/ HandleResponse) /\ ~ MarkPending
  BY <1>4 DEF HandleRequest, HandleResponse, DeliverRequest, DeliverStartup, DeliverHeartbeat,
              DeliverShutdown, DeliverAnswer, DeliverResponse, PendingAfterAnswer, AcceptRequest,
              FeatureFailed, TaskFailed, FeatureReady
<1>5. ASSUME NEW h \in Handlers, DispatchNextFeature(h) \/ Acknowledge(h)
      PROVE  \/ UNCHANGED pending_requests
             \/ /\ pc[h] = "decide"
                /\ \E f \in view[h].waiting : pending_requests' = Append(pending_requests, NextJob(h, f))
  BY <1>5 DEF DispatchNextFeature, ReadFeatures, Defer, Dispatch, MarkDispatched, FinishFailed,
              FinishReady, SendCallback, Acknowledge, At, FirstOf
<1>6. CASE Restart \/ Expire \/ Fault
  BY <1>6 DEF Restart, BrokerStart, Expire, PrintStats, GrowLate, Fault, HandlerError,
              BrokerCrash, DeleteAudio
<1>7. CASE UNCHANGED vars
  BY <1>7 DEF vars
<1>8. QED
  BY <1>1, <1>2, <1>3, <1>4, <1>5, <1>6, <1>7 DEF Next, Broker, BrokerStep

\* A snapshot is taken by the read that precedes the decision, and is dropped
\* with the end of its handler.
LEMMA ViewEffect ==
    ASSUME [Next]_vars
    PROVE  \/ UNCHANGED view
           \/ view' = [h \in Handlers |-> NoView] /\ pc' = [h \in Handlers |-> "idle"]
           \/ \E h \in Handlers : /\ view' = [view EXCEPT ![h] = NoView]
                                  /\ pc[h] = "ack" /\ Goto(h, "idle")
           \/ \E h \in Handlers : /\ view' = [view EXCEPT ![h] = FeaturesOf(TaskOf(h))]
                                  /\ pc[h] = "read" /\ Goto(h, "decide")
                                  /\ UNCHANGED <<storeVars, request_queue, response_queue>>
<1>. USE DEF brokerVars
<1>1. ASSUME NEW t \in Tasks, Api(t) PROVE UNCHANGED view
  BY <1>1 DEF Api
<1>2. ASSUME NEW w \in Workers, Begin(w) \/ Beat(w) \/ Work(w) \/ Leave(w)
      PROVE  UNCHANGED view
  BY <1>2 DEF Begin, Beat, Work, Leave
<1>3. CASE HandleRequest \/ HandleResponse
  BY <1>3 DEF HandleRequest, HandleResponse, DeliverRequest, DeliverStartup, DeliverHeartbeat,
              DeliverShutdown, DeliverAnswer, DeliverResponse, PendingAfterAnswer, AcceptRequest,
              FeatureFailed, TaskFailed, FeatureReady, MarkPending
<1>4. ASSUME NEW h \in Handlers, ReadFeatures(h)
      PROVE  /\ view' = [view EXCEPT ![h] = FeaturesOf(TaskOf(h))]
             /\ pc[h] = "read" /\ Goto(h, "decide")
             /\ UNCHANGED <<storeVars, request_queue, response_queue>>
  BY <1>4 DEF ReadFeatures, At, queueVars
<1>5. ASSUME NEW h \in Handlers, Acknowledge(h)
      PROVE  view' = [view EXCEPT ![h] = NoView] /\ pc[h] = "ack" /\ Goto(h, "idle")
  BY <1>5 DEF Acknowledge, At
<1>6. ASSUME NEW h \in Handlers, DispatchNextFeature(h), ~ ReadFeatures(h)
      PROVE  UNCHANGED view
  BY <1>6 DEF DispatchNextFeature, Defer, Dispatch, MarkDispatched, FinishFailed,
              FinishReady, SendCallback
<1>7. CASE Restart \/ Expire \/ Fault
  BY <1>7 DEF Restart, BrokerStart, Expire, PrintStats, GrowLate, Fault, HandlerError,
              BrokerCrash, DeleteAudio
<1>8. CASE UNCHANGED vars
  BY <1>8 DEF vars
<1>9. QED
  BY <1>1, <1>2, <1>3, <1>4, <1>5, <1>6, <1>7, <1>8 DEF Next, Broker, BrokerStep

-----------------------------------------------------------------------------
(* The store                                                               *)

\* A task_uuid once inserted keeps its row, the new status being a legal one.
LEMMA InsertTaskTyped ==
    ASSUME StoreTypeOK, NEW t \in Tasks, NEW wanted, InsertTask(t, wanted)
    PROVE  StoreTypeOK'
<1>1. IsFiniteSet({u \in Tasks : HasRow(u)})
  BY FS_Subset, TasksAssumption
<1>2. Cardinality({u \in Tasks : HasRow(u)}) + 1 \in Nat
  BY <1>1, FS_CardinalityType
<1>3. taskId' \in [Tasks -> Nat]
  BY <1>2 DEF StoreTypeOK, InsertTask
<1>4. /\ taskStatus' \in [Tasks -> TaskStatuses]
      /\ featStatus' \in [Tasks -> [Features -> FeatureStatuses]]
  BY DEF StoreTypeOK, InsertTask, TaskStatuses, FeatureStatuses
<1>5. QED
  BY <1>3, <1>4 DEF StoreTypeOK, InsertTask

\* update_feature_status_by_type stores a legal status and document.
LEMMA UpdateFeatureTyped ==
    ASSUME StoreTypeOK, NEW t \in Tasks, NEW f \in Features,
           NEW status \in FeatureStatuses, NEW result \in Results,
           UpdateFeature(t, f, status, result)
    PROVE  StoreTypeOK'
BY DEF StoreTypeOK, UpdateFeature

\* update_task stores a legal status and document.
LEMMA UpdateTaskTyped ==
    ASSUME StoreTypeOK, NEW t \in Tasks, NEW status \in TaskStatuses, NEW results \in Results,
           UpdateTask(t, status, results)
    PROVE  StoreTypeOK'
BY DEF StoreTypeOK, UpdateTask

\* What the two queries return.
LEMMA ViewsTyped ==
    ASSUME StoreTypeOK
    PROVE  /\ \A t \in Tasks : FeaturesOf(t) \in FeaturesView
           /\ RecoverableRequests \subseteq Job
           /\ IsFiniteSet(RecoverableRequests)
<1>1. \A t \in Tasks : \A S \in SUBSET Features : ResultOfLast(t, S) \in Results
  BY DEF StoreTypeOK, ResultOfLast, LastOf, Results
<1>2. \A t \in Tasks : FeaturesOf(t) \in FeaturesView
  BY <1>1 DEF FeaturesOf, FeaturesView, WithStatus
<1>. DEFINE P == {q \in Tasks \X Features : q[2] \in FirstOf(WithStatus(q[1], "WAITING"))}
            Request(p) == [task     |-> p[1],
                           feature  |-> p[2],
                           existing |-> ResultOfLast(p[1], {g \in WithStatus(p[1], "READY") :
                                                               featResult[p[1]][g] # None})]
<1>3. RecoverableRequests = {Request(p) : p \in P}
  BY DEF RecoverableRequests
<1>4. \A p \in P : Request(p) \in Job
  BY <1>1 DEF Job, WithStatus
<1>5. IsFiniteSet(P)
  <2>1. IsFiniteSet(Features)
    BY FeaturesAssumption, FS_Interval DEF Features
  <2>2. IsFiniteSet(Tasks \X Features)
    BY <2>1, TasksAssumption, FS_Product
  <2>3. QED
    BY <2>2, FS_Subset
<1>. DEFINE T == {Request(p) : p \in P}
            requestOf == [p \in P |-> Request(p)]
<1>6. IsFiniteSet(T)
  <2>. HIDE DEF P, Request
  <2>1. requestOf \in Surjection(P, T)
    BY DEF Surjection
  <2>2. QED
    BY <1>5, <2>1, FS_Surjection
<1>7. QED
  BY <1>2, <1>3, <1>4, <1>6

-----------------------------------------------------------------------------
(* Type correctness                                                        *)

\* Every message in progress names an existing worker, and a task where the
\* handler's next call needs one.
LEMMA InProgress ==
    ASSUME Typing
    PROVE  /\ pc["request"] # "idle" => TaskOf("request") \in Tasks
           /\ response_queue # <<>> => Answered \in Response
           /\ response_queue # <<>> => Answered.worker \in Workers
           /\ pc["response"] \in AnswerPCs => Answered \in Answer
           /\ \A h \in Handlers : pc[h] \in {"read", "decide", "mark", "callback"} => TaskOf(h) \in Tasks
<1>1. pc["request"] # "idle" => TaskOf("request") \in Tasks
  BY HeadTailFacts DEF Typing, TypeOK, QueuesTypeOK, InFlight, InFlightAt, TaskOf
<1>2. response_queue # <<>> => Answered \in Response
  BY HeadTailFacts DEF Typing, TypeOK, QueuesTypeOK, Answered
<1>3. response_queue # <<>> => Answered.worker \in Workers
  BY <1>2 DEF Response, Answer, Status
<1>4. pc["response"] \in AnswerPCs => Answered \in Answer
  BY <1>2 DEF Typing, InFlight, InFlightAt, Response, Status, StatusMessages, AnswerStatuses, AnswerPCs
<1>5. pc["response"] \in {"read", "decide", "mark", "callback"} => TaskOf("response") \in Tasks
  BY <1>4 DEF AnswerPCs, TaskOf, Answer
<1>6. QED
  BY <1>1, <1>2, <1>3, <1>4, <1>5 DEF Handlers

\* Every write to the database is one of these calls.
LEMMA StoreEffect ==
    ASSUME Typing, [Next]_vars
    PROVE  \/ UNCHANGED storeVars
           \/ \E t \in Tasks, wanted \in SUBSET Features : InsertTask(t, wanted)
           \/ \E t \in Tasks, f \in Features, s \in {"PROCESSING", "FAILED"} :
                 UpdateFeature(t, f, s, None)
           \/ /\ response_queue # <<>> /\ Answered \in Answer /\ Answered.status = "success"
              /\ UpdateFeature(Answered.task, TypeOf[Answered.worker], "READY", Answered.result)
           \/ \E t \in Tasks, s \in {"PROCESSING", "FAILED"} : UpdateTask(t, s, None)
           \/ \E h \in Handlers : /\ pc[h] = "decide" /\ view[h].waiting = {} /\ TaskOf(h) \in Tasks
                                  /\ UpdateTask(TaskOf(h), "READY", view[h].existing)
<1>. DEFINE Updates == \E t \in Tasks, f \in Features, s \in {"PROCESSING", "FAILED"} :
                           UpdateFeature(t, f, s, None)
            Settles == \E t \in Tasks, s \in {"PROCESSING", "FAILED"} : UpdateTask(t, s, None)
            Finishes == \E h \in Handlers :
                           /\ pc[h] = "decide" /\ view[h].waiting = {} /\ TaskOf(h) \in Tasks
                           /\ UpdateTask(TaskOf(h), "READY", view[h].existing)
<1>1. ASSUME NEW t \in Tasks, InsertSubmission(t)
      PROVE  \E wanted \in SUBSET Features : InsertTask(t, wanted)
  BY <1>1, ChoicesAssumption DEF InsertSubmission
<1>2. ASSUME AcceptRequest PROVE Settles
  <2>1. TaskOf("request") \in Tasks
    BY <1>2, InProgress DEF AcceptRequest, At
  <2>2. QED
    BY <1>2, <2>1 DEF AcceptRequest
<1>3. ASSUME FeatureFailed \/ TaskFailed \/ FeatureReady
      PROVE  /\ response_queue # <<>> /\ Answered \in Answer
             /\ Answered.task \in Tasks /\ TypeOf[Answered.worker] \in Features
  <2>1. response_queue # <<>> /\ Answered \in Answer
    BY <1>3, InProgress DEF FeatureFailed, TaskFailed, FeatureReady, At, AnswerPCs, Typing,
                            InFlight, InFlightAt
  <2>2. QED
    BY <2>1, WorkersAssumption DEF Answer
<1>4. ASSUME FeatureFailed PROVE Updates
  BY <1>3, <1>4 DEF FeatureFailed
<1>5. ASSUME TaskFailed PROVE Settles
  BY <1>3, <1>5 DEF TaskFailed
<1>6. ASSUME FeatureReady
      PROVE  /\ response_queue # <<>> /\ Answered \in Answer /\ Answered.status = "success"
             /\ UpdateFeature(Answered.task, TypeOf[Answered.worker], "READY", Answered.result)
  BY <1>3, <1>6 DEF FeatureReady, At, Typing, InFlight, InFlightAt
<1>7. ASSUME MarkPending PROVE Updates
  <2>1. PICK i \in DOMAIN pending_requests :
           UpdateFeature(pending_requests[i].task, pending_requests[i].feature, "PROCESSING", None)
    BY <1>7 DEF MarkPending, FirstOf, PendingFor
  <2>2. pending_requests[i] \in Job
    BY DEF Typing, TypeOK, BrokerTypeOK
  <2>3. QED
    BY <2>1, <2>2 DEF Job
<1>8. ASSUME NEW h \in Handlers, MarkDispatched(h) \/ FinishFailed(h) \/ FinishReady(h)
      PROVE  Updates \/ Settles \/ Finishes
  <2>1. TaskOf(h) \in Tasks
    BY <1>8, InProgress DEF MarkDispatched, FinishFailed, FinishReady, At
  <2>2. view[h].waiting \subseteq Features
    BY DEF Typing, TypeOK, BrokerTypeOK, FeaturesView
  <2>3. ASSUME MarkDispatched(h) PROVE Updates
    BY <2>1, <2>2, <2>3 DEF MarkDispatched, FirstOf
  <2>4. ASSUME FinishFailed(h) PROVE Settles
    BY <2>1, <2>4 DEF FinishFailed
  <2>5. ASSUME FinishReady(h) PROVE Finishes
    BY <2>1, <2>5 DEF FinishReady, At
  <2>6. QED
    BY <1>8, <2>3, <2>4, <2>5
<1>9. QED
  BY <1>1, <1>2, <1>4, <1>5, <1>6, <1>7, <1>8, StoreFrame DEF StoreStep

\* Every write to the database is a legal one.
LEMMA StoreTyped ==
    ASSUME Typing, [Next]_vars
    PROVE  StoreTypeOK'
<1>. USE DEF TaskStatuses, FeatureStatuses
<1>0. StoreTypeOK /\ None \in Results
  BY DEF Typing, TypeOK, None, Results
<1>1. ASSUME UNCHANGED storeVars PROVE StoreTypeOK'
  BY <1>0, <1>1 DEF storeVars, StoreTypeOK
<1>2. ASSUME NEW t \in Tasks, NEW wanted \in SUBSET Features, InsertTask(t, wanted)
      PROVE  StoreTypeOK'
  BY <1>0, <1>2, InsertTaskTyped
<1>3. ASSUME NEW t \in Tasks, NEW f \in Features, NEW s \in {"PROCESSING", "FAILED"},
             UpdateFeature(t, f, s, None)
      PROVE  StoreTypeOK'
  BY <1>0, <1>3, UpdateFeatureTyped
<1>4. ASSUME Answered \in Answer,
             UpdateFeature(Answered.task, TypeOf[Answered.worker], "READY", Answered.result)
      PROVE  StoreTypeOK'
  BY <1>0, <1>4, UpdateFeatureTyped, WorkersAssumption DEF Answer
<1>5. ASSUME NEW t \in Tasks, NEW s \in {"PROCESSING", "FAILED"}, UpdateTask(t, s, None)
      PROVE  StoreTypeOK'
  BY <1>0, <1>5, UpdateTaskTyped
<1>6. ASSUME NEW h \in Handlers, TaskOf(h) \in Tasks, UpdateTask(TaskOf(h), "READY", view[h].existing)
      PROVE  StoreTypeOK'
  <2>1. view[h].existing \in Results
    BY DEF Typing, TypeOK, BrokerTypeOK, FeaturesView
  <2>2. QED
    BY <1>0, <1>6, <2>1, UpdateTaskTyped
<1>7. QED
  BY <1>1, <1>2, <1>3, <1>4, <1>5, <1>6, StoreEffect

\* Every job that is made is a legal one.
LEMMA NextJobTyped ==
    ASSUME Typing, NEW h \in Handlers, pc[h] = "decide", NEW f \in view[h].waiting
    PROVE  NextJob(h, f) \in Job
<1>1. TaskOf(h) \in Tasks
  BY InProgress
<1>2. view[h] \in FeaturesView
  BY DEF Typing, TypeOK, BrokerTypeOK
<1>3. QED
  BY <1>1, <1>2 DEF NextJob, Job, FeaturesView

\* Publishing one keeps the private queues legal.
LEMMA PublishJobTyped ==
    ASSUME worker_queue \in [Workers -> Seq(Job)], NEW w \in Workers, NEW job \in Job,
           PublishJob(w, job)
    PROVE  worker_queue' \in [Workers -> Seq(Job)]
BY AppendFacts DEF PublishJob

\* Every callback that is made is a legal one.
LEMMA CallbackTyped ==
    ASSUME Typing, NEW h \in Handlers, pc[h] = "callback"
    PROVE  [task |-> TaskOf(h), result |-> view[h].existing] \in Callback
<1>1. TaskOf(h) \in Tasks /\ view[h] \in FeaturesView
  BY InProgress DEF Typing, TypeOK, BrokerTypeOK
<1>2. QED
  BY <1>1 DEF Callback, FeaturesView

\* Both answers to a job are legal messages.
LEMMA AnswersTyped ==
    ASSUME worker_queue \in [Workers -> Seq(Job)], NEW w \in Workers, worker_queue[w] # <<>>
    PROVE  /\ AnswerOf(w, "failed", None) \in Response
           /\ AnswerOf(w, "success", Inference(Head(worker_queue[w]))) \in Response
<1>1. Head(worker_queue[w]) \in Job
  BY HeadTailFacts
<1>2. Inference(Head(worker_queue[w])) \in Results
  BY <1>1, FeaturesAssumption DEF Inference, Job, Results, None, Features, Diarization
<1>3. QED
  BY <1>1, <1>2 DEF AnswerOf, Response, Answer, AnswerStatuses, Job, None, Results

\* Answers, status messages, jobs and callbacks are of their type.
LEMMA QueuesTyped ==
    ASSUME Typing, [Next]_vars
    PROVE  /\ request_queue' \in Seq(Tasks)
           /\ response_queue' \in Seq(Response)
           /\ callback_queue' \in Seq(Callback)
           /\ worker_queue' \in [Workers -> Seq(Job)]
           /\ pending_requests' \in Seq(Job)
<1>0. /\ request_queue \in Seq(Tasks)
      /\ response_queue \in Seq(Response)
      /\ callback_queue \in Seq(Callback)
      /\ worker_queue \in [Workers -> Seq(Job)]
      /\ pending_requests \in Seq(Job)
  BY DEF Typing, TypeOK, QueuesTypeOK, BrokerTypeOK
<1>1. request_queue' \in Seq(Tasks)
  <2>1. ASSUME NEW t \in Tasks, request_queue' = Append(request_queue, t)
        PROVE  request_queue' \in Seq(Tasks)
    BY <1>0, <2>1, AppendFacts
  <2>2. ASSUME pc["request"] = "ack", request_queue' = Tail(request_queue)
        PROVE  request_queue' \in Seq(Tasks)
    <3>1. request_queue # <<>>
      BY <2>2 DEF Typing, InFlight, InFlightAt
    <3>2. QED
      BY <1>0, <2>2, <3>1, HeadTailFacts
  <2>3. QED
    BY <1>0, <2>1, <2>2, RequestQueueEffect
<1>2. response_queue' \in Seq(Response)
  <2>1. ASSUME NEW m \in Response, response_queue' = Append(response_queue, m)
        PROVE  response_queue' \in Seq(Response)
    BY <1>0, <2>1, AppendFacts
  <2>2. ASSUME response_queue # <<>>, response_queue' = Tail(response_queue)
        PROVE  response_queue' \in Seq(Response)
    BY <1>0, <2>2, HeadTailFacts
  <2>3. \A w \in Workers, s \in StatusMessages : StatusOf(w, s) \in Response
    BY DEF StatusOf, Response, Status
  <2>4. ASSUME NEW w \in Workers, worker_queue[w] # <<>>
        PROVE  /\ AnswerOf(w, "failed", None) \in Response
               /\ AnswerOf(w, "success", Inference(Head(worker_queue[w]))) \in Response
    BY <1>0, <2>4, AnswersTyped
  <2>5. pc["response"] = "ack" => response_queue # <<>>
    BY DEF Typing, InFlight, InFlightAt
  <2>6. QED
    BY <1>0, <2>1, <2>2, <2>3, <2>4, <2>5, ResponseQueueEffect
<1>3. callback_queue' \in Seq(Callback)
  <2>1. ASSUME NEW h \in Handlers, pc[h] = "callback"
        PROVE  [task |-> TaskOf(h), result |-> view[h].existing] \in Callback
    BY <2>1, CallbackTyped
  <2>2. ASSUME NEW m \in Callback, callback_queue' = Append(callback_queue, m)
        PROVE  callback_queue' \in Seq(Callback)
    BY <1>0, <2>2, AppendFacts
  <2>3. QED
    BY <1>0, <2>1, <2>2, CallbackQueueEffect
<1>4. worker_queue' \in [Workers -> Seq(Job)]
  <2>1. ASSUME NEW w \in Workers, worker_queue[w] # <<>>,
               worker_queue' = [worker_queue EXCEPT ![w] = Tail(@)]
        PROVE  worker_queue' \in [Workers -> Seq(Job)]
    <3>1. Tail(worker_queue[w]) \in Seq(Job)
      BY <1>0, <2>1, HeadTailFacts
    <3>2. QED
      BY <1>0, <2>1, <3>1
  <2>2. ASSUME NEW w \in Workers, worker_queue' = [worker_queue EXCEPT ![w] = <<>>]
        PROVE  worker_queue' \in [Workers -> Seq(Job)]
    BY <1>0, <2>2
  <2>3. ASSUME response_queue # <<>> \/ pc["response"] = "pending",
               NEW i \in PendingFor(TypeOf[Answered.worker]),
               PublishJob(Answered.worker, pending_requests[i])
        PROVE  worker_queue' \in [Workers -> Seq(Job)]
    <3>1. Answered.worker \in Workers
      BY <2>3, InProgress DEF Typing, InFlight, InFlightAt
    <3>2. pending_requests[i] \in Job
      BY <1>0 DEF PendingFor
    <3>3. QED
      BY <1>0, <2>3, <3>1, <3>2, PublishJobTyped
  <2>4. ASSUME NEW h \in Handlers, pc[h] = "decide", NEW f \in view[h].waiting,
               NEW w \in Registered(f), PublishJob(w, NextJob(h, f))
        PROVE  worker_queue' \in [Workers -> Seq(Job)]
    <3>1. w \in Workers
      BY DEF Registered, Typing, TypeOK, BrokerTypeOK
    <3>2. QED
      BY <1>0, <2>4, <3>1, NextJobTyped, PublishJobTyped
  <2>5. QED
    BY <1>0, <2>1, <2>2, <2>3, <2>4, WorkerQueueEffect
<1>5. pending_requests' \in Seq(Job)
  <2>1. InTaskIdOrder(RecoverableRequests) \subseteq Seq(Job)
    <3>1. /\ RecoverableRequests \subseteq Job
          /\ Cardinality(RecoverableRequests) \in Nat
      BY ViewsTyped, FS_CardinalityType DEF Typing, TypeOK
    <3>2. QED
      BY <3>1 DEF InTaskIdOrder
  <2>2. ASSUME NEW i \in DOMAIN pending_requests,
               pending_requests' = SubSeq(pending_requests, 1, i - 1)
                                      \o SubSeq(pending_requests, i + 1, Len(pending_requests))
        PROVE  pending_requests' \in Seq(Job)
    BY <1>0, <2>2, RemoveFacts
  <2>3. ASSUME NEW h \in Handlers, pc[h] = "decide", NEW f \in view[h].waiting,
               pending_requests' = Append(pending_requests, NextJob(h, f))
        PROVE  pending_requests' \in Seq(Job)
    BY <1>0, <2>3, NextJobTyped, AppendFacts
  <2>4. <<>> \in Seq(Job)
    OBVIOUS
  <2>5. QED
    BY <1>0, <2>1, <2>2, <2>3, <2>4, PendingEffect, Zenon
<1>6. QED
  BY <1>1, <1>2, <1>3, <1>4, <1>5

\* The rest of the state.
RestTypeOK ==
    /\ bound \in SUBSET Workers
    /\ files \in SUBSET Tasks
    /\ ApiTypeOK
    /\ WorkerTypeOK
    /\ broker_up \in BOOLEAN
    /\ available_workers \in SUBSET Workers
    /\ late \in SUBSET Workers

\* It changes within its types.
LEMMA RestTyped ==
    ASSUME Typing, [Next]_vars
    PROVE  RestTypeOK'
<1>. USE DEF RestTypeOK, ApiTypeOK, WorkerTypeOK, WorkerStates, Submissions, queueVars, apiVars,
             workerVars, brokerVars
<1>0. RestTypeOK
  BY DEF Typing, TypeOK, QueuesTypeOK, BrokerTypeOK
<1>1. ASSUME NEW t \in Tasks, Api(t) PROVE RestTypeOK'
  BY <1>0, <1>1 DEF Api, ApiStep, StoreAudio, InsertSubmission, PublishTask, PublishFails, Advance
<1>2. ASSUME NEW w \in Workers, Begin(w) \/ Beat(w) \/ Work(w) \/ Leave(w)
      PROVE  RestTypeOK'
  BY <1>0, <1>2 DEF Begin, Beat, Work, Leave, StartWorker, Heartbeat, ProcessTask, AnswerSuccess,
              AnswerFailed, RaiseInJob, TakeJob, Shutdown, CloseConnection, DeclareWorkerQueue,
              DropWorkerQueue
<1>3. CASE HandleRequest /\ UNCHANGED <<apiVars, workerVars>>
  BY <1>0, <1>3 DEF HandleRequest, DeliverRequest, DropLateWorkers, AcceptRequest, KeepWorkers
<1>4. CASE HandleResponse /\ UNCHANGED <<apiVars, workerVars>>
  <2>1. response_queue # <<>> => Answered.worker \in Workers
    BY InProgress
  <2>2. QED
    BY <1>0, <1>4, <2>1 DEF HandleResponse, DeliverStartup, DeliverHeartbeat, DeliverShutdown,
              DeliverAnswer, DeliverResponse, HandledAtOnce, Register, FeatureFailed, TaskFailed,
              FeatureReady, PendingAfterAnswer, MarkPending, KeepWorkers, KeepQueues
<1>5. ASSUME NEW h \in Handlers, DispatchNextFeature(h) \/ Acknowledge(h),
             UNCHANGED <<apiVars, workerVars>>
      PROVE  RestTypeOK'
  BY <1>0, <1>5 DEF DispatchNextFeature, ReadFeatures, Defer, Dispatch, MarkDispatched, FinishFailed,
              FinishReady, SendCallback, Acknowledge, KeepWorkers, KeepQueues
<1>6. CASE Restart \/ Expire \/ Fault
  BY <1>0, <1>6 DEF Restart, BrokerStart, Expire, PrintStats, DropLateWorkers, GrowLate, Fault,
              HandlerError, BrokerCrash, DeleteAudio, KeepWorkers
<1>7. CASE UNCHANGED vars
  BY <1>0, <1>7 DEF vars
<1>8. QED
  BY <1>1, <1>2, <1>3, <1>4, <1>5, <1>6, <1>7 DEF Next, Broker, BrokerStep

\* A step pays for its faults, or for none.
LEMMA BudgetEffect ==
    ASSUME [Next]_vars
    PROVE  UNCHANGED budget \/ \E kinds \in SUBSET FaultKinds : Spend(kinds)
<1>. DEFINE Paid == UNCHANGED budget \/ \E kinds \in SUBSET FaultKinds : Spend(kinds)
<1>1. ASSUME NEW t \in Tasks, Api(t) PROVE Paid
  BY <1>1 DEF Api, ApiStep, StoreAudio, InsertSubmission, PublishTask, PublishFails, FaultKinds
<1>2. ASSUME NEW w \in Workers, Begin(w) \/ Beat(w) \/ Work(w) \/ Leave(w) PROVE Paid
  <2>1. ASSUME NEW m, NEW cost \in SUBSET FaultKinds, SendStatus(m, cost) PROVE Paid
    BY <2>1 DEF SendStatus, FaultKinds
  <2>2. CASE Begin(w) \/ Beat(w)
    BY <2>1, <2>2 DEF Begin, Beat, StartWorker, Heartbeat
  <2>3. CASE Work(w)
    BY <2>1, <2>3 DEF Work, ProcessTask, AnswerSuccess, AnswerFailed, RaiseInJob, FaultKinds
  <2>4. CASE Leave(w)
    BY <2>1, <2>4 DEF Leave, Shutdown, CloseConnection, FaultKinds
  <2>5. QED
    BY <1>2, <2>2, <2>3, <2>4
<1>3. ASSUME HandleRequest \/ HandleResponse PROVE Paid
  BY <1>3 DEF HandleRequest, HandleResponse, DeliverRequest, DeliverStartup, DeliverHeartbeat,
              DeliverShutdown, HandledAtOnce, DeliverAnswer, PendingAfterAnswer, DispatchPending,
              AcceptRequest, FeatureFailed, TaskFailed, FeatureReady, MarkPending, FaultKinds
<1>4. ASSUME NEW h \in Handlers, DispatchNextFeature(h) \/ Acknowledge(h) PROVE Paid
  BY <1>4 DEF DispatchNextFeature, ReadFeatures, Defer, Dispatch, MarkDispatched, FinishFailed,
              FinishReady, SendCallback, Acknowledge
<1>5. ASSUME Restart \/ Expire \/ Fault PROVE Paid
  BY <1>5 DEF Restart, BrokerStart, Expire, PrintStats, GrowLate, Fault, HandlerError,
              BrokerCrash, DeleteAudio, FaultKinds
<1>6. ASSUME UNCHANGED vars PROVE Paid
  BY <1>6 DEF vars
<1>7. QED
  BY <1>1, <1>2, <1>3, <1>4, <1>5, <1>6 DEF Next, Broker, BrokerStep

\* No fault is paid for twice.
LEMMA BudgetTyped ==
    ASSUME Typing, [Next]_vars
    PROVE  budget' \in [FaultKinds -> Nat]
<1>1. budget \in [FaultKinds -> Nat]
  BY DEF Typing, TypeOK
<1>2. ASSUME NEW kinds \in SUBSET FaultKinds, Spend(kinds) PROVE budget' \in [FaultKinds -> Nat]
  <2>1. \A k \in kinds : budget[k] - 1 \in Nat
    BY <1>1, <1>2 DEF Spend
  <2>2. QED
    BY <1>1, <1>2, <2>1 DEF Spend
<1>3. QED
  BY <1>1, <1>2, BudgetEffect

\* A handler goes only where the message in progress allows it.
LEMMA ControlTyped ==
    ASSUME Typing, [Next]_vars
    PROVE  pc' \in [Handlers -> PCs] /\ InFlightAt(pc')
<1>. USE DEF InFlightAt, RequestPCs, AnswerPCs, PCs, Handlers
<1>0. pc \in [Handlers -> PCs] /\ InFlightAt(pc)
  BY DEF Typing, TypeOK, BrokerTypeOK, InFlight
<1>. DEFINE Goal == pc' \in [Handlers -> PCs] /\ InFlightAt(pc')
<1>1. CASE UNCHANGED pc
  BY <1>0, <1>1
<1>2. CASE HandleRequest
  BY <1>0, <1>2 DEF HandleRequest, DeliverRequest, AcceptRequest, At, Goto
<1>3. CASE HandleResponse
  BY <1>0, <1>3 DEF HandleResponse, DeliverStartup, DeliverHeartbeat, DeliverShutdown,
        DeliverAnswer, DeliverResponse, HandledAtOnce, FeatureFailed, TaskFailed, FeatureReady,
        PendingAfterAnswer, MarkPending, DispatchPending, At, Goto, AnswerStatuses
<1>4. ASSUME NEW h \in Handlers, DispatchNextFeature(h) \/ Acknowledge(h) \/ HandlerError(h)
      PROVE  Goal
  BY <1>0, <1>4 DEF DispatchNextFeature, ReadFeatures, Defer, Dispatch, MarkDispatched, FinishFailed,
              FinishReady, SendCallback, Acknowledge, HandlerError, At, Goto
<1>5. CASE BrokerCrash
  BY <1>5 DEF BrokerCrash
<1>6. ASSUME NEW t \in Tasks, Api(t) PROVE UNCHANGED pc
  BY <1>6 DEF Api, brokerVars
<1>7. ASSUME NEW w \in Workers, Begin(w) \/ Beat(w) \/ Work(w) \/ Leave(w) PROVE UNCHANGED pc
  BY <1>7 DEF Begin, Beat, Work, Leave, brokerVars
<1>8. CASE Restart \/ Expire
  BY <1>1, <1>8 DEF Restart, BrokerStart, Expire, PrintStats, GrowLate
<1>9. CASE Fault
  <2>1. ASSUME NEW t \in Tasks, DeleteAudio(t), UNCHANGED <<workerVars, brokerVars>>
        PROVE  UNCHANGED pc
    BY <2>1 DEF brokerVars
  <2>2. QED
    BY <1>1, <1>4, <1>5, <1>9, <2>1 DEF Fault
<1>10. CASE UNCHANGED vars
  BY <1>1, <1>10 DEF vars, brokerVars
<1>11. QED
  BY <1>1, <1>2, <1>3, <1>4, <1>6, <1>7, <1>8, <1>9, <1>10 DEF Next, Broker, BrokerStep

\* A message in progress stays where it is until its handler is through.
LEMMA HeadsKept ==
    ASSUME Typing, [Next]_vars
    PROVE  /\ request_queue # <<>> /\ pc'["request"] # "idle" =>
                  request_queue' # <<>> /\ Head(request_queue') = Head(request_queue)
           /\ response_queue # <<>> /\ pc'["response"] # "idle" =>
                  response_queue' # <<>> /\ Head(response_queue') = Head(response_queue)
<1>0. /\ request_queue \in Seq(Tasks)
      /\ response_queue \in Seq(Response)
      /\ worker_queue \in [Workers -> Seq(Job)]
      /\ pc \in [Handlers -> PCs]
  BY DEF Typing, TypeOK, QueuesTypeOK, BrokerTypeOK
<1>1. ASSUME request_queue # <<>>, pc'["request"] # "idle"
      PROVE  request_queue' # <<>> /\ Head(request_queue') = Head(request_queue)
  <2>1. ASSUME NEW t \in Tasks, request_queue' = Append(request_queue, t)
        PROVE  request_queue' # <<>> /\ Head(request_queue') = Head(request_queue)
    BY <1>0, <1>1, <2>1, AppendFacts
  <2>2. ~ Goto("request", "idle")
    BY <1>0, <1>1 DEF Goto, Handlers
  <2>3. QED
    BY <1>1, <2>1, <2>2, RequestQueueEffect
<1>2. ASSUME response_queue # <<>>, pc'["response"] # "idle"
      PROVE  response_queue' # <<>> /\ Head(response_queue') = Head(response_queue)
  <2>1. ASSUME NEW m \in Response, response_queue' = Append(response_queue, m)
        PROVE  response_queue' # <<>> /\ Head(response_queue') = Head(response_queue)
    BY <1>0, <1>2, <2>1, AppendFacts
  <2>2. ~ Goto("response", "idle") /\ ~ (pc["response"] = "idle" /\ UNCHANGED pc)
    BY <1>0, <1>2 DEF Goto, Handlers
  <2>3. \A w \in Workers, s \in StatusMessages : StatusOf(w, s) \in Response
    BY DEF StatusOf, Response, Status
  <2>4. ASSUME NEW w \in Workers, worker_queue[w] # <<>>
        PROVE  /\ AnswerOf(w, "failed", None) \in Response
               /\ AnswerOf(w, "success", Inference(Head(worker_queue[w]))) \in Response
    BY <1>0, <2>4, AnswersTyped
  <2>5. QED
    BY <1>2, <2>1, <2>2, <2>3, <2>4, ResponseQueueEffect
<1>3. QED
  BY <1>1, <1>2

\* The induction step of TypeCorrect.
LEMMA TypingStep ==
    ASSUME Typing, [Next]_vars
    PROVE  Typing'
<1>1. view' \in [Handlers -> FeaturesView]
  <2>1. view \in [Handlers -> FeaturesView]
    BY DEF Typing, TypeOK, BrokerTypeOK
  <2>2. NoView \in FeaturesView
    BY DEF NoView, FeaturesView, None, Results
  <2>3. ASSUME NEW h \in Handlers, pc[h] = "read" PROVE FeaturesOf(TaskOf(h)) \in FeaturesView
    BY <2>3, InProgress, ViewsTyped DEF Typing, TypeOK
  <2>4. QED
    BY <2>1, <2>2, <2>3, ViewEffect
<1>2. TypeOK'
  <2>1. StoreTypeOK'
    BY StoreTyped
  <2>2. QueuesTypeOK' /\ ApiTypeOK' /\ WorkerTypeOK'
    BY QueuesTyped, RestTyped DEF QueuesTypeOK, RestTypeOK
  <2>3. BrokerTypeOK'
    BY <1>1, QueuesTyped, RestTyped, ControlTyped DEF BrokerTypeOK, RestTypeOK
  <2>4. QED
    BY <2>1, <2>2, <2>3, BudgetTyped DEF TypeOK
<1>3. InFlight'
  <2>1. InFlightAt(pc')
    BY ControlTyped
  <2>2. QED
    BY <2>1, HeadsKept DEF InFlight, InFlightAt, Answered, AnswerPCs
<1>4. QED
  BY <1>2, <1>3 DEF Typing

\* The analyser starts with an empty database and empty queues.
LEMMA TypingInit == Init => Typing
<1>. SUFFICES ASSUME Init PROVE Typing
  OBVIOUS
<1>. USE DEF Init
<1>1. StoreTypeOK
  BY DEF StoreInit, StoreTypeOK, TaskStatuses, FeatureStatuses, Results, None
<1>2. QueuesTypeOK
  BY DEF QueuesInit, QueuesTypeOK
<1>3. ApiTypeOK /\ WorkerTypeOK
  BY DEF ApiInit, ApiTypeOK, Submissions, WorkerInit, WorkerTypeOK, WorkerStates
<1>4. BrokerTypeOK
  BY DEF BrokerInit, BrokerTypeOK, PCs, NoView, FeaturesView, None, Results
<1>5. budget \in [FaultKinds -> Nat]
  BY BudgetAssumption DEF FaultsInit
<1>6. InFlight
  BY DEF BrokerInit, InFlight, InFlightAt, RequestPCs, AnswerPCs, Handlers
<1>7. QED
  BY <1>1, <1>2, <1>3, <1>4, <1>5, <1>6 DEF Typing, TypeOK

\* Types hold, and a handler in the middle of a message finds that message at
\* the head of its queue, whatever the other handler, the workers, crashes and
\* redeliveries do meanwhile.
THEOREM TypingCorrect == Spec => []Typing
<1>1. Typing /\ [Next]_vars => Typing'
  BY TypingStep
<1>2. QED
  BY <1>1, TypingInit, PTL DEF Spec

\* The types of all state, for any number of tasks, features, workers and faults.
THEOREM TypeCorrect == Spec => []TypeOK
<1>1. Typing => TypeOK
  BY DEF Typing
<1>2. QED
  BY <1>1, TypingCorrect, PTL

-----------------------------------------------------------------------------
(* The handlers of dispatch_next_feature, for the invariants about snapshots  *)

\* The handlers that go on to decide, and those that finish a task, and what
\* they know then.
LEMMA SnapshotTaken ==
    ASSUME Typing, [Next]_vars, NEW h \in Handlers
    PROVE  /\ pc'[h] = "decide" => \/ pc[h] = "decide" /\ view'[h] = view[h]
                                   \/ /\ pc[h] = "read" /\ view'[h] = FeaturesOf(TaskOf(h))
                                      /\ UNCHANGED <<storeVars, request_queue, response_queue>>
           /\ pc'[h] = "callback" => \/ pc[h] = "callback"
                                     \/ pc[h] = "decide" /\ view[h].waiting = {}
<1>. DEFINE Decides(k) ==
        pc'[k] = "decide" => \/ pc[k] = "decide" /\ view'[k] = view[k]
                             \/ /\ pc[k] = "read" /\ view'[k] = FeaturesOf(TaskOf(k))
                                /\ UNCHANGED <<storeVars, request_queue, response_queue>>
            Finishes(k) ==
        pc'[k] = "callback" => pc[k] = "callback" \/ (pc[k] = "decide" /\ view[k].waiting = {})
            Goal == \A k \in Handlers : Decides(k) /\ Finishes(k)
<1>0. pc \in [Handlers -> PCs] /\ view \in [Handlers -> FeaturesView]
  BY DEF Typing, TypeOK, BrokerTypeOK
<1>1. ASSUME UNCHANGED pc, UNCHANGED view PROVE Goal
  BY <1>1
<1>2. ASSUME HandleRequest \/ HandleResponse PROVE Goal
  BY <1>0, <1>2 DEF HandleRequest, DeliverRequest, AcceptRequest, HandleResponse, DeliverStartup,
        DeliverHeartbeat, DeliverShutdown, DeliverAnswer, DeliverResponse, HandledAtOnce,
        FeatureFailed, TaskFailed, FeatureReady, PendingAfterAnswer, MarkPending, DispatchPending,
        At, Goto
<1>3. ASSUME NEW k \in Handlers, DispatchNextFeature(k) \/ Acknowledge(k) \/ HandlerError(k)
      PROVE  Goal
  BY <1>0, <1>3 DEF DispatchNextFeature, ReadFeatures, Defer, Dispatch, MarkDispatched, FinishFailed,
              FinishReady, SendCallback, Acknowledge, HandlerError, At, Goto, queueVars
<1>4. ASSUME BrokerCrash PROVE Goal
  BY <1>4 DEF BrokerCrash
<1>5. ASSUME NEW t \in Tasks, Api(t) PROVE Goal
  BY <1>1, <1>5 DEF Api, brokerVars
<1>6. ASSUME NEW w \in Workers, Begin(w) \/ Beat(w) \/ Work(w) \/ Leave(w) PROVE Goal
  BY <1>1, <1>6 DEF Begin, Beat, Work, Leave, brokerVars
<1>7. ASSUME Restart \/ Expire PROVE Goal
  BY <1>1, <1>7 DEF Restart, BrokerStart, Expire, PrintStats, GrowLate
<1>8. ASSUME Fault PROVE Goal
  <2>1. ASSUME NEW t \in Tasks, DeleteAudio(t), UNCHANGED <<workerVars, brokerVars>> PROVE Goal
    BY <1>1, <2>1 DEF brokerVars
  <2>2. QED
    BY <1>3, <1>4, <1>8, <2>1 DEF Fault
<1>9. ASSUME UNCHANGED vars PROVE Goal
  BY <1>1, <1>9 DEF vars, brokerVars
<1>10. Goal
  BY <1>2, <1>3, <1>5, <1>6, <1>7, <1>8, <1>9 DEF Next, Broker, BrokerStep
<1>11. QED
  BY <1>10

\* The task of a message in progress stays the same.
LEMMA TaskOfKept ==
    ASSUME Typing, [Next]_vars, NEW h \in Handlers, pc[h] # "idle", pc'[h] # "idle"
    PROVE  TaskOf(h)' = TaskOf(h)
<1>1. CASE h = "request"
  BY <1>1, HeadsKept DEF TaskOf, Typing, InFlight, InFlightAt
<1>2. CASE h = "response"
  BY <1>2, HeadsKept DEF TaskOf, Answered, Typing, InFlight, InFlightAt
<1>3. QED
  BY <1>1, <1>2 DEF Handlers

-----------------------------------------------------------------------------
(* A finished task waits for nothing.  The handler that finishes a task    *)
(* decides on a snapshot of its features; the proof shows that the         *)
(* snapshot cannot miss a WAITING feature, since no step of anybody makes  *)
(* one in a task that has its row, and every task in a message has it.     *)

Waiting(t) == WithStatus(t, "WAITING")
Rows == {t \in Tasks : HasRow(t)}

\* Whatever is queued or published belongs to a task with a row; a task without
\* one has no features.
RowsExist ==
    /\ \A t \in Tasks : submission[t] = "inserted" => t \in Rows
    /\ Elements(request_queue) \subseteq Rows
    /\ \A m \in Elements(response_queue) : m.status \in AnswerStatuses => m.task \in Rows
    /\ \A w \in Workers : \A job \in Elements(worker_queue[w]) : job.task \in Rows
    /\ \A job \in Elements(pending_requests) : job.task \in Rows
    /\ \A m \in Elements(callback_queue) : m.task \in Rows
    /\ \A t \in Tasks : t \notin Rows => Requested(t) = {}

\* A snapshot without a WAITING feature is not outdated.
SnapshotCurrent ==
    \A h \in Handlers :
        pc[h] = "callback" \/ (pc[h] = "decide" /\ view[h].waiting = {}) => Waiting(TaskOf(h)) = {}

FinishInv == RowsExist /\ SnapshotCurrent /\ ReadyNothingWaiting

\* No call makes a feature of an inserted task WAITING, removes a row, or adds a
\* feature to a task that stays without one.
LEMMA NoNewWaiting ==
    ASSUME Typing, [Next]_vars, NEW t \in Tasks
    PROVE  /\ t \in Rows => t \in Rows' /\ Waiting(t)' \subseteq Waiting(t)
           /\ t \notin Rows' /\ Requested(t) = {} => Requested(t)' = {}
<1>. DEFINE Goal == /\ t \in Rows => t \in Rows' /\ Waiting(t)' \subseteq Waiting(t)
                    /\ t \notin Rows' /\ Requested(t) = {} => Requested(t)' = {}
<1>0. StoreTypeOK
  BY DEF Typing, TypeOK
<1>. USE DEF Rows, HasRow, Waiting, WithStatus, Requested
<1>1. ASSUME UNCHANGED storeVars PROVE Goal
  BY <1>1 DEF storeVars
<1>2. ASSUME NEW u \in Tasks, NEW wanted \in SUBSET Features, InsertTask(u, wanted) PROVE Goal
  BY <1>0, <1>2 DEF InsertTask, StoreTypeOK
<1>3. ASSUME NEW u \in Tasks, NEW f \in Features, NEW s \in {"PROCESSING", "FAILED", "READY"},
             NEW r, UpdateFeature(u, f, s, r)
      PROVE  Goal
  BY <1>0, <1>3 DEF UpdateFeature, StoreTypeOK
<1>4. ASSUME NEW u \in Tasks, NEW s \in {"PROCESSING", "FAILED", "READY"}, NEW r, UpdateTask(u, s, r)
      PROVE  Goal
  BY <1>0, <1>4 DEF UpdateTask, StoreTypeOK
<1>5. Answered \in Answer => Answered.task \in Tasks /\ TypeOf[Answered.worker] \in Features
  BY WorkersAssumption DEF Answer
<1>6. QED
  BY <1>1, <1>2, <1>3, <1>4, <1>5, StoreEffect

\* A submission is inserted by the step that makes the row.
LEMMA InsertedHasRow ==
    ASSUME Typing, [Next]_vars, NEW t \in Tasks, submission'[t] = "inserted"
    PROVE  submission[t] = "inserted" \/ t \in Rows'
<1>1. submission \in [Tasks -> Submissions] /\ StoreTypeOK
  BY DEF Typing, TypeOK, ApiTypeOK
<1>2. ASSUME NEW u \in Tasks, Api(u) PROVE submission[t] = "inserted" \/ t \in Rows'
  BY <1>1, <1>2 DEF Api, ApiStep, StoreAudio, InsertSubmission, PublishTask, PublishFails, Advance,
                    InsertTask, Rows, HasRow, StoreTypeOK
<1>3. ASSUME NEW w \in Workers, Begin(w) \/ Beat(w) \/ Work(w) \/ Leave(w) PROVE UNCHANGED submission
  BY <1>3 DEF Begin, Beat, Work, Leave, apiVars
<1>4. CASE Broker \/ Restart \/ Expire
  BY <1>4 DEF Broker, Restart, Expire, apiVars
<1>5. CASE Fault
  BY <1>5 DEF Fault, DeleteAudio, apiVars
<1>6. CASE UNCHANGED vars
  BY <1>6 DEF vars, apiVars
<1>7. QED
  BY <1>2, <1>3, <1>4, <1>5, <1>6 DEF Next

\* The tasks of the handlers' messages have rows.
LEMMA InProgressHasRow ==
    ASSUME Typing, RowsExist, NEW h \in Handlers,
           pc[h] \in {"read", "decide", "mark", "callback"}
    PROVE  TaskOf(h) \in Rows
<1>1. TaskOf(h) \in Tasks
  BY InProgress
<1>2. CASE h = "request"
  BY <1>2, HeadTailFacts DEF TaskOf, RowsExist, Typing, TypeOK, QueuesTypeOK, InFlight, InFlightAt
<1>3. CASE h = "response"
  <2>1. response_queue # <<>> /\ Answered.status \in AnswerStatuses
    BY <1>3 DEF Typing, InFlight, InFlightAt, AnswerPCs
  <2>2. Answered \in Elements(response_queue)
    BY <2>1, HeadTailFacts DEF Typing, TypeOK, QueuesTypeOK, Answered
  <2>3. QED
    BY <1>1, <1>3, <2>1, <2>2 DEF TaskOf, RowsExist
<1>4. QED
  BY <1>1, <1>2, <1>3 DEF Handlers

\* Messages keep referring to tasks with rows.
LEMMA RowsExistStep ==
    ASSUME Typing, RowsExist, [Next]_vars
    PROVE  RowsExist'
<1>0. /\ request_queue \in Seq(Tasks)
      /\ response_queue \in Seq(Response)
      /\ callback_queue \in Seq(Callback)
      /\ worker_queue \in [Workers -> Seq(Job)]
      /\ pending_requests \in Seq(Job)
      /\ Typing'
  BY TypingStep DEF Typing, TypeOK, QueuesTypeOK, BrokerTypeOK
<1>1. Rows \subseteq Rows' /\ Rows \subseteq Tasks
  BY NoNewWaiting DEF Rows
<1>2. \A t \in Tasks : (submission[t] = "inserted")' => t \in Rows'
  BY <1>1, InsertedHasRow DEF RowsExist
<1>3. \A t \in Elements(request_queue)' : t \in Rows'
  <2>1. \A t \in Elements(request_queue) : t \in Tasks /\ t \in Rows'
    BY <1>0, <1>1 DEF RowsExist, Elements
  <2>2. ASSUME NEW t \in Tasks, submission[t] = "inserted", request_queue' = Append(request_queue, t)
        PROVE  Elements(request_queue)' \subseteq Elements(request_queue) \cup {t} /\ t \in Rows'
    BY <1>0, <1>1, <2>2, AppendFacts DEF RowsExist
  <2>3. ASSUME pc["request"] = "ack", request_queue' = Tail(request_queue)
        PROVE  Elements(request_queue)' \subseteq Elements(request_queue)
    BY <1>0, <2>3, HeadTailFacts DEF Typing, InFlight, InFlightAt
  <2>4. CASE UNCHANGED request_queue
    BY <2>1, <2>4
  <2>5. QED
    BY <2>1, <2>2, <2>3, <2>4, RequestQueueEffect
<1>4. \A m \in Elements(response_queue)' : m.status \in AnswerStatuses => m.task \in Rows'
  <2>1. \A m \in Elements(response_queue) : m.status \in AnswerStatuses => m.task \in Rows'
    <3>1. ASSUME NEW m \in Elements(response_queue), m.status \in AnswerStatuses
          PROVE  m.task \in Tasks /\ m.task \in Rows
      <4>1. m \in Response
        BY <1>0 DEF Elements
      <4>2. QED
        BY <3>1, <4>1 DEF Response, Answer, Status, AnswerStatuses, StatusMessages, RowsExist
    <3>2. QED
      BY <1>1, <3>1
  <2>2. ASSUME NEW m \in Response, m.status \in AnswerStatuses => m.task \in Rows',
               response_queue' = Append(response_queue, m)
        PROVE  \A n \in Elements(response_queue)' : n.status \in AnswerStatuses => n.task \in Rows'
    BY <1>0, <2>1, <2>2, AppendFacts
  <2>3. ASSUME NEW w \in Workers, worker_queue[w] # <<>>
        PROVE  /\ AnswerOf(w, "failed", None) \in Response
               /\ AnswerOf(w, "success", Inference(Head(worker_queue[w]))) \in Response
               /\ \A s, r : AnswerOf(w, s, r).task \in Rows'
    <3>1. Head(worker_queue[w]) \in Job /\ Head(worker_queue[w]) \in Elements(worker_queue[w])
      BY <1>0, <2>3, HeadTailFacts
    <3>2. Head(worker_queue[w]).task \in Rows'
      BY <1>1, <3>1 DEF RowsExist, Job
    <3>3. QED
      BY <1>0, <2>3, <3>2, AnswersTyped DEF AnswerOf
  <2>4. \A w \in Workers, s \in StatusMessages :
           StatusOf(w, s) \in Response /\ StatusOf(w, s).status \notin AnswerStatuses
    BY DEF StatusOf, Response, Status, StatusMessages, AnswerStatuses
  <2>5. ASSUME response_queue # <<>>, response_queue' = Tail(response_queue)
        PROVE  \A n \in Elements(response_queue)' : n.status \in AnswerStatuses => n.task \in Rows'
    BY <1>0, <2>1, <2>5, HeadTailFacts
  <2>6. ASSUME UNCHANGED response_queue
        PROVE  \A n \in Elements(response_queue)' : n.status \in AnswerStatuses => n.task \in Rows'
    BY <2>1, <2>6
  <2>7. pc["response"] = "ack" => response_queue # <<>>
    BY DEF Typing, InFlight, InFlightAt
  <2>8. QED
    BY <2>2, <2>3, <2>4, <2>5, <2>6, <2>7, ResponseQueueEffect
<1>5. \A job \in Elements(pending_requests) : job \in Job /\ job.task \in Rows /\ job.task \in Rows'
  <2>1. \A job \in Elements(pending_requests) : job \in Job
    BY <1>0 DEF Elements
  <2>2. QED
    BY <1>1, <2>1 DEF RowsExist
<1>6. ASSUME NEW h \in Handlers, pc[h] \in {"decide", "callback"}
      PROVE  TaskOf(h) \in Rows'
  BY <1>1, <1>6, InProgressHasRow
<1>7. \A w \in Workers : \A job \in Elements(worker_queue[w])' : job.task \in Rows'
  <2>1. ASSUME NEW w \in Workers, NEW job \in Elements(worker_queue[w]) PROVE job.task \in Rows'
    BY <1>0, <1>1, <2>1 DEF RowsExist, Elements, Job
  <2>2. ASSUME UNCHANGED worker_queue
        PROVE  \A w \in Workers : \A job \in Elements(worker_queue[w])' : job.task \in Rows'
    BY <2>1, <2>2
  <2>3. ASSUME NEW v \in Workers, worker_queue[v] # <<>>,
               worker_queue' = [worker_queue EXCEPT ![v] = Tail(@)]
        PROVE  \A w \in Workers : \A job \in Elements(worker_queue[w])' : job.task \in Rows'
    <3>1. \A w \in Workers : Elements(worker_queue[w])' \subseteq Elements(worker_queue[w])
      BY <1>0, <2>3, HeadTailFacts
    <3>2. QED
      BY <2>1, <3>1
  <2>4. ASSUME NEW v \in Workers, worker_queue' = [worker_queue EXCEPT ![v] = <<>>]
        PROVE  \A w \in Workers : \A job \in Elements(worker_queue[w])' : job.task \in Rows'
    <3>1. \A w \in Workers : Elements(worker_queue[w])' \subseteq Elements(worker_queue[w])
      BY <1>0, <2>4 DEF Elements
    <3>2. QED
      BY <2>1, <3>1
  <2>5. ASSUME NEW v, NEW job \in Job, job.task \in Rows', PublishJob(v, job)
        PROVE  \A w \in Workers : \A j \in Elements(worker_queue[w])' : j.task \in Rows'
    <3>1. \A w \in Workers : Elements(worker_queue[w])' \subseteq Elements(worker_queue[w]) \cup {job}
      BY <1>0, <2>5, AppendFacts DEF PublishJob
    <3>2. QED
      BY <2>1, <2>5, <3>1
  <2>6. \A i \in DOMAIN pending_requests :
           pending_requests[i] \in Job /\ pending_requests[i] \in Elements(pending_requests)
    BY <1>5 DEF Elements
  <2>7. ASSUME NEW h \in Handlers, pc[h] = "decide", NEW f \in view[h].waiting
        PROVE  NextJob(h, f) \in Job /\ NextJob(h, f).task \in Rows'
    BY <1>6, <2>7, NextJobTyped DEF NextJob
  <2>8. QED
    BY <1>5, <2>2, <2>3, <2>4, <2>5, <2>6, <2>7, WorkerQueueEffect DEF PendingFor
<1>8. \A job \in Elements(pending_requests)' : job.task \in Rows'
  <2>1. ASSUME UNCHANGED pending_requests \/ pending_requests' = <<>>
        PROVE  Elements(pending_requests)' \subseteq Elements(pending_requests)
    BY <1>0, <2>1 DEF Elements
  <2>2. ASSUME pending_requests' \in InTaskIdOrder(RecoverableRequests)
        PROVE  \A job \in Elements(pending_requests)' : job.task \in Rows'
    <3>1. ASSUME NEW job \in RecoverableRequests
          PROVE  job.task \in Tasks /\ Requested(job.task) # {}
      <4>. DEFINE P == {q \in Tasks \X Features : q[2] \in FirstOf(WithStatus(q[1], "WAITING"))}
                  Last(p) == ResultOfLast(p[1], {g \in WithStatus(p[1], "READY") :
                                                    featResult[p[1]][g] # None})
      <4>0. PICK p \in P : job = [task |-> p[1], feature |-> p[2], existing |-> Last(p)]
        BY <3>1, Zenon DEF RecoverableRequests
      <4>1. p \in Tasks \X Features /\ p[2] \in FirstOf(WithStatus(p[1], "WAITING")) /\ job.task = p[1]
        BY <4>0
      <4>2. p[2] \in Features /\ featStatus[p[1]][p[2]] = "WAITING"
        BY <4>1 DEF FirstOf, WithStatus
      <4>3. QED
        BY <4>1, <4>2 DEF Requested
    <3>2. \A job \in RecoverableRequests : job.task \in Rows'
      BY <1>1, <3>1 DEF RowsExist
    <3>3. Elements(pending_requests)' \subseteq RecoverableRequests
      BY <2>2 DEF InTaskIdOrder, Elements
    <3>4. QED
      BY <3>2, <3>3
  <2>3. ASSUME NEW i \in DOMAIN pending_requests,
               pending_requests' = SubSeq(pending_requests, 1, i - 1)
                                      \o SubSeq(pending_requests, i + 1, Len(pending_requests))
        PROVE  Elements(pending_requests)' \subseteq Elements(pending_requests)
    BY <1>0, <2>3, RemoveFacts
  <2>4. ASSUME NEW h \in Handlers, pc[h] = "decide", NEW f \in view[h].waiting,
               pending_requests' = Append(pending_requests, NextJob(h, f))
        PROVE  \A job \in Elements(pending_requests)' : job.task \in Rows'
    <3>1. NextJob(h, f) \in Job /\ NextJob(h, f).task \in Rows'
      BY <1>6, <2>4, NextJobTyped DEF NextJob
    <3>2. QED
      BY <1>0, <1>5, <2>4, <3>1, AppendFacts
  <2>5. QED
    BY <1>5, <2>1, <2>2, <2>3, <2>4, PendingEffect
<1>9. \A m \in Elements(callback_queue)' : m.task \in Rows'
  <2>1. \A m \in Elements(callback_queue) : m.task \in Rows'
    BY <1>0, <1>1 DEF RowsExist, Elements, Callback
  <2>2. ASSUME NEW h \in Handlers, pc[h] = "callback",
               callback_queue' = Append(callback_queue, [task |-> TaskOf(h), result |-> view[h].existing])
        PROVE  \A m \in Elements(callback_queue)' : m.task \in Rows'
    <3>1. Elements(callback_queue)' =
             Elements(callback_queue) \cup {[task |-> TaskOf(h), result |-> view[h].existing]}
      BY <1>0, <2>2, CallbackTyped, AppendFacts
    <3>2. QED
      BY <1>6, <2>1, <2>2, <3>1
  <2>3. CASE UNCHANGED callback_queue
    BY <2>1, <2>3
  <2>4. QED
    BY <2>2, <2>3, CallbackQueueEffect
<1>10. \A t \in Tasks : t \notin Rows' => Requested(t)' = {}
  BY <1>1, NoNewWaiting DEF RowsExist
<1>11. QED
  BY <1>2, <1>3, <1>4, <1>7, <1>8, <1>9, <1>10 DEF RowsExist

\* A snapshot that misses no WAITING feature keeps missing none.
LEMMA SnapshotCurrentStep ==
    ASSUME Typing, RowsExist, SnapshotCurrent, [Next]_vars
    PROVE  SnapshotCurrent'
<1>. SUFFICES ASSUME NEW h \in Handlers,
                     pc'[h] = "callback" \/ (pc'[h] = "decide" /\ view'[h].waiting = {})
              PROVE  Waiting(TaskOf(h))' = {}
  BY DEF SnapshotCurrent
<1>1. ASSUME pc[h] \in {"read", "decide", "callback"}, Waiting(TaskOf(h)) = {}
      PROVE  Waiting(TaskOf(h))' = {}
  <2>1. TaskOf(h) \in Rows /\ TaskOf(h) \in Tasks
    BY <1>1, InProgressHasRow DEF Rows
  <2>2. TaskOf(h)' = TaskOf(h)
    BY <1>1, TaskOfKept
  <2>3. PICK t \in Tasks : t = TaskOf(h)
    BY <2>1
  <2>4. Waiting(t)' \subseteq Waiting(t)
    BY <2>1, <2>3, NoNewWaiting
  <2>5. QED
    BY <1>1, <2>2, <2>3, <2>4 DEF Waiting, WithStatus
<1>2. CASE pc[h] = "callback" \/ (pc[h] = "decide" /\ view[h].waiting = {})
  BY <1>1, <1>2 DEF SnapshotCurrent
<1>3. CASE pc[h] = "read" /\ view'[h] = FeaturesOf(TaskOf(h)) /\ pc'[h] = "decide"
  <2>1. Waiting(TaskOf(h)) = {}
    BY <1>3 DEF FeaturesOf, Waiting
  <2>2. QED
    BY <1>1, <1>3, <2>1
<1>4. QED
  BY <1>2, <1>3, SnapshotTaken

\* A task becomes READY, and is called back, only on a snapshot that is current,
\* and gets no new WAITING feature afterwards.
LEMMA ReadyNothingWaitingStep ==
    ASSUME Typing, FinishInv, [Next]_vars
    PROVE  ReadyNothingWaiting'
<1>0. StoreTypeOK /\ callback_queue \in Seq(Callback)
  BY DEF Typing, TypeOK, QueuesTypeOK
<1>1. ASSUME NEW t \in Tasks, t \in Rows, Waiting(t) = {} PROVE Waiting(t)' = {}
  BY <1>1, NoNewWaiting
<1>2. ASSUME NEW t \in Tasks, taskStatus'[t] = "READY" PROVE Waiting(t)' = {}
  <2>1. ASSUME taskStatus[t] = "READY" PROVE Waiting(t)' = {}
    BY <1>1, <2>1 DEF FinishInv, ReadyNothingWaiting, Waiting, Rows, HasRow
  <2>2. ASSUME NEW h \in Handlers, pc[h] = "decide", view[h].waiting = {}, TaskOf(h) = t
        PROVE  Waiting(t)' = {}
    <3>1. t \in Rows
      BY <2>2, InProgressHasRow DEF FinishInv
    <3>2. Waiting(t) = {}
      BY <2>2 DEF FinishInv, SnapshotCurrent
    <3>3. QED
      BY <1>1, <3>1, <3>2
  <2>3. \/ taskStatus[t] = "READY"
        \/ \E h \in Handlers : pc[h] = "decide" /\ view[h].waiting = {} /\ TaskOf(h) = t
    BY <1>0, <1>2, StoreEffect DEF storeVars, InsertTask, UpdateFeature, UpdateTask, StoreTypeOK
  <2>4. QED
    BY <2>1, <2>2, <2>3
<1>3. ASSUME NEW m \in Elements(callback_queue)', m.task \in Tasks PROVE Waiting(m.task)' = {}
  <2>1. ASSUME NEW n \in Elements(callback_queue) PROVE n.task \in Rows /\ Waiting(n.task) = {}
    BY DEF FinishInv, RowsExist, ReadyNothingWaiting, Elements, Waiting, Rows
  <2>2. ASSUME NEW h \in Handlers, pc[h] = "callback"
        PROVE  TaskOf(h) \in Rows /\ Waiting(TaskOf(h)) = {}
    BY <2>2, InProgressHasRow DEF FinishInv, SnapshotCurrent
  <2>3. PICK t \in Tasks : t = m.task
    BY <1>3
  <2>4. t \in Rows /\ Waiting(t) = {}
    <3>1. ASSUME NEW h \in Handlers, pc[h] = "callback",
                 callback_queue' = Append(callback_queue, [task |-> TaskOf(h), result |-> view[h].existing])
          PROVE  m \in Elements(callback_queue) \/ m.task = TaskOf(h)
      BY <1>0, <1>3, <3>1, CallbackTyped, AppendFacts
    <3>2. CASE UNCHANGED callback_queue
      BY <1>3, <2>1, <2>3, <3>2
    <3>3. QED
      BY <2>1, <2>2, <2>3, <3>1, <3>2, CallbackQueueEffect
  <2>5. Waiting(t)' = {}
    BY <1>1, <2>4
  <2>6. QED
    BY <2>3, <2>5
<1>4. QED
  BY <1>2, <1>3 DEF ReadyNothingWaiting, Elements, Waiting

\* A task that is READY, and one whose callback was queued, has no WAITING
\* feature: what FinishReady decides on a snapshot of dispatch_next_feature still
\* holds when it writes and when it calls back.  For every instance, and with
\* every fault, redelivery and race of the model.
THEOREM ReadyMeansNothingWaiting == Spec => []ReadyNothingWaiting
<1>1. Init => FinishInv
  BY DEF Init, StoreInit, QueuesInit, ApiInit, BrokerInit, FinishInv, RowsExist, SnapshotCurrent,
         ReadyNothingWaiting, Elements, Rows, HasRow, Requested, Handlers, Waiting, WithStatus
<1>2. Typing /\ FinishInv /\ [Next]_vars => FinishInv'
  BY RowsExistStep, SnapshotCurrentStep, ReadyNothingWaitingStep DEF FinishInv
<1>3. FinishInv => ReadyNothingWaiting
  BY DEF FinishInv
<1>4. QED
  BY <1>1, <1>2, <1>3, TypingCorrect, PTL DEF Spec

-----------------------------------------------------------------------------
(* Lineage: every result is built on a diarization of the same task.  The  *)
(* proof follows the result documents around: from the database into a     *)
(* snapshot or a recovered request, into a job, into an answer and back.   *)

\* The features of t that have a stored result.
Stored(t) == {f \in Features : featResult[t][f] # None}

\* A document made of stored results of t; a document that is not absent has
\* the diarization.
Grounded(t, result) == result \subseteq Stored(t) /\ (result # None => Diarization \in result)

\* A new document of feature f.
GroundedOutput(t, f, result) ==
    /\ {Diarization, f} \subseteq result
    /\ result \subseteq Stored(t) \cup {f}

RowsGrounded ==
    /\ \A t \in Tasks : \A f \in Features : Grounded(t, featResult[t][f])
    /\ \A t \in Tasks : \A f \in Stored(t) : f \in featResult[t][f]
    /\ \A t \in Tasks : finalResult[t] \subseteq Stored(t)

\* A job for worker w: of its feature, with a document to build on.
GoodJob(w, job) == job.feature = TypeOf[w] /\ Grounded(job.task, job.existing)

JobsGrounded ==
    /\ \A w \in Workers : \A job \in Elements(worker_queue[w]) : GoodJob(w, job)
    /\ \A job \in Elements(pending_requests) : Grounded(job.task, job.existing)

SnapshotsGrounded ==
    \A h \in Handlers : pc[h] = "decide" => Grounded(TaskOf(h), view[h].existing)

GoodAnswer(m) == m.status = "success" => GroundedOutput(m.task, TypeOf[m.worker], m.result)

AnswersGrounded == \A m \in Elements(response_queue) : GoodAnswer(m)

LineageInv == RowsGrounded /\ JobsGrounded /\ SnapshotsGrounded /\ AnswersGrounded

\* A stored result is replaced, never removed.
LEMMA StoredGrows ==
    ASSUME Typing, [Next]_vars, NEW t \in Tasks
    PROVE  Stored(t) \subseteq Stored(t)'
<1>. DEFINE Goal == Stored(t) \subseteq Stored(t)'
<1>0. StoreTypeOK
  BY DEF Typing, TypeOK
<1>. USE DEF Stored
<1>1. ASSUME UNCHANGED featResult PROVE Goal
  BY <1>1
<1>2. ASSUME NEW u \in Tasks, NEW f \in Features, NEW s, NEW r, UpdateFeature(u, f, s, r) PROVE Goal
  BY <1>0, <1>2 DEF UpdateFeature, StoreTypeOK
<1>3. Answered \in Answer => Answered.task \in Tasks /\ TypeOf[Answered.worker] \in Features
  BY WorkersAssumption DEF Answer
<1>4. QED
  BY <1>1, <1>2, <1>3, StoreEffect DEF storeVars, InsertTask, UpdateTask

\* What is grounded stays so.
LEMMA GroundedStays ==
    ASSUME Typing, [Next]_vars
    PROVE  /\ \A t \in Tasks : \A r \in Results : Grounded(t, r) => Grounded(t, r)'
           /\ \A w \in Workers : \A job \in Job : GoodJob(w, job) => GoodJob(w, job)'
           /\ \A m \in Response : GoodAnswer(m) => GoodAnswer(m)'
<1>1. ASSUME NEW t \in Tasks, NEW r \in Results, Grounded(t, r) PROVE Grounded(t, r)'
  BY <1>1, StoredGrows DEF Grounded
<1>2. ASSUME NEW w \in Workers, NEW job \in Job, GoodJob(w, job) PROVE GoodJob(w, job)'
  <2>1. PICK t \in Tasks, r \in Results : t = job.task /\ r = job.existing
    BY DEF Job
  <2>2. Grounded(t, r) /\ Grounded(t, r)'
    BY <1>1, <1>2, <2>1 DEF GoodJob
  <2>3. QED
    BY <1>2, <2>1, <2>2 DEF GoodJob
<1>3. ASSUME NEW m \in Response, GoodAnswer(m) PROVE GoodAnswer(m)'
  <2>. SUFFICES ASSUME m.status = "success" PROVE GroundedOutput(m.task, TypeOf[m.worker], m.result)'
    BY DEF GoodAnswer
  <2>1. m.task \in Tasks
    BY DEF Response, Answer, Status, StatusMessages
  <2>2. PICK t \in Tasks : t = m.task
    BY <2>1
  <2>3. Stored(t) \subseteq Stored(t)'
    BY StoredGrows
  <2>4. GroundedOutput(t, TypeOf[m.worker], m.result)
    BY <1>3, <2>2 DEF GoodAnswer
  <2>5. QED
    BY <2>2, <2>3, <2>4 DEF GroundedOutput
<1>4. QED
  BY <1>1, <1>2, <1>3

\* The answers of the inference to a good job are good.
LEMMA InferenceGrounded ==
    ASSUME NEW w \in Workers, NEW job \in Job, GoodJob(w, job), Inference(job) # None
    PROVE  GroundedOutput(job.task, TypeOf[w], Inference(job))
BY DEF GoodJob, Grounded, GroundedOutput, Inference, None, Job, Results

\* So are the documents the two queries return.
LEMMA ViewsGrounded ==
    ASSUME Typing, RowsGrounded
    PROVE  /\ \A t \in Tasks : \A S \in SUBSET Features : Grounded(t, ResultOfLast(t, S))
           /\ \A t \in Tasks : Grounded(t, FeaturesOf(t).existing)
           /\ \A job \in RecoverableRequests : Grounded(job.task, job.existing)
<1>1. ASSUME NEW t \in Tasks, NEW S \in SUBSET Features PROVE Grounded(t, ResultOfLast(t, S))
  <2>1. \A f \in LastOf(S) : Grounded(t, featResult[t][f])
    BY DEF RowsGrounded, LastOf
  <2>2. QED
    BY <2>1 DEF ResultOfLast, Grounded, None
<1>2. \A t \in Tasks : Grounded(t, FeaturesOf(t).existing)
  BY <1>1 DEF FeaturesOf, WithStatus
<1>3. ASSUME NEW job \in RecoverableRequests PROVE Grounded(job.task, job.existing)
  <2>. DEFINE P == {q \in Tasks \X Features : q[2] \in FirstOf(WithStatus(q[1], "WAITING"))}
              Prior(p) == {g \in WithStatus(p[1], "READY") : featResult[p[1]][g] # None}
  <2>1. PICK p \in P : job = [task |-> p[1], feature |-> p[2], existing |-> ResultOfLast(p[1], Prior(p))]
    BY <1>3, Zenon DEF RecoverableRequests
  <2>2. p[1] \in Tasks /\ Prior(p) \in SUBSET Features
    BY <2>1 DEF WithStatus
  <2>3. Grounded(p[1], ResultOfLast(p[1], Prior(p)))
    BY <1>1, <2>2
  <2>. HIDE DEF P, Prior
  <2>4. job.task = p[1] /\ job.existing = ResultOfLast(p[1], Prior(p))
    BY <2>1
  <2>5. QED
    BY <2>3, <2>4
<1>4. QED
  BY <1>1, <1>2, <1>3

\* Only answers write results, and a good answer writes a grounded one.
LEMMA RowsGroundedStep ==
    ASSUME Typing, LineageInv, [Next]_vars
    PROVE  RowsGrounded'
<1>. DEFINE Goal == RowsGrounded'
<1>0. StoreTypeOK
  BY DEF Typing, TypeOK
<1>1. ASSUME UNCHANGED <<featResult, finalResult>> PROVE Goal
  BY <1>1 DEF LineageInv, RowsGrounded, Grounded, Stored
<1>2. ASSUME NEW t \in Tasks, NEW f \in Features, NEW s, UpdateFeature(t, f, s, None) PROVE Goal
  BY <1>1, <1>2 DEF UpdateFeature
<1>3. ASSUME response_queue # <<>>, Answered \in Answer, Answered.status = "success",
             UpdateFeature(Answered.task, TypeOf[Answered.worker], "READY", Answered.result)
      PROVE  Goal
  <2>1. PICK t \in Tasks, f \in Features, r \in Results :
           t = Answered.task /\ f = TypeOf[Answered.worker] /\ r = Answered.result
    BY <1>3, WorkersAssumption DEF Answer
  <2>2. Answered \in Elements(response_queue)
    BY <1>3, HeadTailFacts DEF Typing, TypeOK, QueuesTypeOK, Answered
  <2>3. GroundedOutput(t, f, r)
    BY <1>3, <2>1, <2>2 DEF LineageInv, AnswersGrounded, GoodAnswer
  <2>4. UpdateFeature(t, f, "READY", r)
    BY <1>3, <2>1
  <2>5. CASE featStatus[t][f] = "none"
    BY <1>1, <2>4, <2>5 DEF UpdateFeature
  <2>6. CASE featStatus[t][f] # "none"
    <3>1. r # None
      BY <2>3 DEF GroundedOutput, None
    <3>2. /\ featResult' = [featResult EXCEPT ![t][f] = r]
          /\ finalResult' = finalResult
      BY <2>4, <2>6, <3>1 DEF UpdateFeature
    <3>3. \A u \in Tasks : Stored(u)' = IF u = t THEN Stored(t) \cup {f} ELSE Stored(u)
      BY <1>0, <3>1, <3>2 DEF Stored, StoreTypeOK
    <3>4. QED
      BY <1>0, <2>3, <3>1, <3>2, <3>3 DEF LineageInv, RowsGrounded, Grounded, GroundedOutput, StoreTypeOK
  <2>7. QED
    BY <2>5, <2>6
<1>4. ASSUME NEW t \in Tasks, NEW s, NEW r, UpdateTask(t, s, r), r \subseteq Stored(t) PROVE Goal
  BY <1>0, <1>4 DEF UpdateTask, LineageInv, RowsGrounded, Grounded, Stored, StoreTypeOK
<1>5. ASSUME NEW h \in Handlers, pc[h] = "decide" PROVE view[h].existing \subseteq Stored(TaskOf(h))
  BY <1>5 DEF LineageInv, SnapshotsGrounded, Grounded
<1>6. ASSUME NEW t \in Tasks, NEW wanted, InsertTask(t, wanted) PROVE Goal
  BY <1>1, <1>6 DEF InsertTask
<1>7. ASSUME UNCHANGED storeVars PROVE Goal
  BY <1>1, <1>7 DEF storeVars
<1>8. \A t : None \subseteq Stored(t)
  BY DEF None
<1>9. QED
  BY <1>2, <1>3, <1>4, <1>5, <1>6, <1>7, <1>8, StoreEffect

\* Jobs are made from stored documents, on dispatch, on deferral and at a start.
LEMMA JobsGroundedStep ==
    ASSUME Typing, LineageInv, [Next]_vars
    PROVE  JobsGrounded'
<1>0. /\ worker_queue \in [Workers -> Seq(Job)]
      /\ pending_requests \in Seq(Job)
      /\ available_workers \in SUBSET Workers
  BY DEF Typing, TypeOK, QueuesTypeOK, BrokerTypeOK
<1>1. ASSUME NEW job \in Job, Grounded(job.task, job.existing)
      PROVE  Grounded(job.task, job.existing)'
  <2>1. PICK t \in Tasks, r \in Results : t = job.task /\ r = job.existing
    BY DEF Job
  <2>2. Grounded(t, r) /\ Grounded(t, r)'
    BY <1>1, <2>1, GroundedStays
  <2>3. QED
    BY <2>1, <2>2
<1>2. \A job \in Elements(pending_requests) : job \in Job /\ Grounded(job.task, job.existing)
  BY <1>0 DEF LineageInv, JobsGrounded, Elements
<1>3. ASSUME NEW h \in Handlers, pc[h] = "decide", NEW f \in view[h].waiting
      PROVE  /\ NextJob(h, f) \in Job /\ NextJob(h, f).feature = f
             /\ Grounded(NextJob(h, f).task, NextJob(h, f).existing)
  BY <1>3, NextJobTyped DEF NextJob, LineageInv, SnapshotsGrounded
<1>4. \A w \in Workers : \A job \in Elements(worker_queue[w])' : GoodJob(w, job)'
  <2>0. \A w \in Workers : \A job \in Elements(worker_queue[w]) : GoodJob(w, job)'
    <3>1. \A w \in Workers : \A job \in Elements(worker_queue[w]) : job \in Job /\ GoodJob(w, job)
      BY <1>0 DEF LineageInv, JobsGrounded, Elements
    <3>2. QED
      BY <3>1, GroundedStays
  <2>1. ASSUME \A w \in Workers : Elements(worker_queue[w])' \subseteq Elements(worker_queue[w])
        PROVE  \A w \in Workers : \A job \in Elements(worker_queue[w])' : GoodJob(w, job)'
    BY <2>0, <2>1
  <2>2. ASSUME UNCHANGED worker_queue
        PROVE  \A w \in Workers : Elements(worker_queue[w])' \subseteq Elements(worker_queue[w])
    BY <2>2
  <2>3. ASSUME NEW v \in Workers, worker_queue[v] # <<>>,
               worker_queue' = [worker_queue EXCEPT ![v] = Tail(@)]
        PROVE  \A w \in Workers : Elements(worker_queue[w])' \subseteq Elements(worker_queue[w])
    BY <1>0, <2>3, HeadTailFacts
  <2>4. ASSUME NEW v \in Workers, worker_queue' = [worker_queue EXCEPT ![v] = <<>>]
        PROVE  \A w \in Workers : Elements(worker_queue[w])' \subseteq Elements(worker_queue[w])
    BY <1>0, <2>4 DEF Elements
  <2>5. ASSUME NEW v \in Workers, NEW job \in Job, job.feature = TypeOf[v],
               Grounded(job.task, job.existing), PublishJob(v, job)
        PROVE  \A w \in Workers : \A j \in Elements(worker_queue[w])' : GoodJob(w, j)'
    <3>1. GoodJob(v, job)'
      BY <2>5, GroundedStays DEF GoodJob
    <3>2. \A w \in Workers : Elements(worker_queue[w])' \subseteq
             IF w = v THEN Elements(worker_queue[w]) \cup {job} ELSE Elements(worker_queue[w])
      BY <1>0, <2>5, AppendFacts DEF PublishJob
    <3>3. QED
      BY <2>0, <3>1, <3>2
  <2>6. ASSUME response_queue # <<>> \/ pc["response"] = "pending",
               NEW i \in PendingFor(TypeOf[Answered.worker]),
               PublishJob(Answered.worker, pending_requests[i])
        PROVE  \A w \in Workers : \A j \in Elements(worker_queue[w])' : GoodJob(w, j)'
    <3>1. Answered.worker \in Workers
      BY <2>6, InProgress DEF Typing, InFlight, InFlightAt
    <3>2. PICK job \in Elements(pending_requests) : job = pending_requests[i]
      BY DEF PendingFor, Elements
    <3>3. job.feature = TypeOf[Answered.worker]
      BY <3>2 DEF PendingFor
    <3>4. QED
      BY <1>2, <2>5, <2>6, <3>1, <3>2, <3>3
  <2>7. ASSUME NEW h \in Handlers, pc[h] = "decide", NEW f \in view[h].waiting,
               NEW w \in Registered(f), PublishJob(w, NextJob(h, f))
        PROVE  \A v \in Workers : \A j \in Elements(worker_queue[v])' : GoodJob(v, j)'
    <3>1. w \in Workers /\ TypeOf[w] = f
      BY <1>0 DEF Registered
    <3>2. QED
      BY <1>3, <2>5, <2>7, <3>1
  <2>8. QED
    BY <2>1, <2>2, <2>3, <2>4, <2>6, <2>7, WorkerQueueEffect
<1>5. \A job \in Elements(pending_requests)' : Grounded(job.task, job.existing)'
  <2>0. \A job \in Elements(pending_requests) : Grounded(job.task, job.existing)'
    BY <1>1, <1>2
  <2>1. ASSUME Elements(pending_requests)' \subseteq Elements(pending_requests)
        PROVE  \A job \in Elements(pending_requests)' : Grounded(job.task, job.existing)'
    BY <2>0, <2>1
  <2>2. ASSUME UNCHANGED pending_requests \/ pending_requests' = <<>>
        PROVE  Elements(pending_requests)' \subseteq Elements(pending_requests)
    BY <1>0, <2>2 DEF Elements
  <2>3. ASSUME NEW i \in DOMAIN pending_requests,
               pending_requests' = SubSeq(pending_requests, 1, i - 1)
                                      \o SubSeq(pending_requests, i + 1, Len(pending_requests))
        PROVE  Elements(pending_requests)' \subseteq Elements(pending_requests)
    BY <1>0, <2>3, RemoveFacts
  <2>4. ASSUME pending_requests' \in InTaskIdOrder(RecoverableRequests)
        PROVE  \A job \in Elements(pending_requests)' : Grounded(job.task, job.existing)'
    <3>1. \A job \in RecoverableRequests : job \in Job /\ Grounded(job.task, job.existing)
      BY ViewsTyped, ViewsGrounded DEF LineageInv, Typing, TypeOK
    <3>2. Elements(pending_requests)' \subseteq RecoverableRequests
      BY <2>4 DEF InTaskIdOrder, Elements
    <3>3. QED
      BY <1>1, <3>1, <3>2
  <2>5. ASSUME NEW h \in Handlers, pc[h] = "decide", NEW f \in view[h].waiting,
               pending_requests' = Append(pending_requests, NextJob(h, f))
        PROVE  \A job \in Elements(pending_requests)' : Grounded(job.task, job.existing)'
    <3>1. PICK job \in Job : job = NextJob(h, f)
      BY <1>3, <2>5
    <3>2. Grounded(job.task, job.existing)'
      BY <1>1, <1>3, <2>5, <3>1
    <3>3. Elements(pending_requests)' = Elements(pending_requests) \cup {job}
      BY <1>0, <2>5, <3>1, AppendFacts
    <3>4. QED
      BY <2>0, <3>2, <3>3
  <2>6. QED
    BY <2>1, <2>2, <2>3, <2>4, <2>5, PendingEffect
<1>6. QED
  BY <1>4, <1>5 DEF JobsGrounded

\* A snapshot's document is a stored one.
LEMMA SnapshotsGroundedStep ==
    ASSUME Typing, LineageInv, [Next]_vars
    PROVE  SnapshotsGrounded'
<1>. SUFFICES ASSUME NEW h \in Handlers, pc'[h] = "decide"
              PROVE  Grounded(TaskOf(h), view[h].existing)'
  BY DEF SnapshotsGrounded
<1>1. pc[h] \in {"read", "decide"}
  BY SnapshotTaken
<1>2. PICK t \in Tasks : t = TaskOf(h) /\ t = TaskOf(h)'
  BY <1>1, InProgress, TaskOfKept
<1>3. view[h] \in FeaturesView /\ view'[h] \in FeaturesView
  BY TypingStep DEF Typing, TypeOK, BrokerTypeOK
<1>4. Grounded(t, view'[h].existing)
  <2>1. CASE pc[h] = "decide" /\ view'[h] = view[h]
    BY <1>2, <2>1 DEF LineageInv, SnapshotsGrounded
  <2>2. CASE view'[h] = FeaturesOf(t)
    BY <2>2, ViewsGrounded DEF LineageInv
  <2>3. QED
    BY <1>2, <2>1, <2>2, SnapshotTaken
<1>5. PICK r \in Results : r = view'[h].existing
  BY <1>3 DEF FeaturesView
<1>6. Grounded(t, r)'
  BY <1>4, <1>5, GroundedStays
<1>7. QED
  BY <1>2, <1>5, <1>6

\* A worker answers with what its inference made of a good job.
LEMMA AnswersGroundedStep ==
    ASSUME Typing, LineageInv, [Next]_vars
    PROVE  AnswersGrounded'
<1>0. /\ response_queue \in Seq(Response)
      /\ worker_queue \in [Workers -> Seq(Job)]
  BY DEF Typing, TypeOK, QueuesTypeOK
<1>1. \A m \in Elements(response_queue) : m \in Response /\ GoodAnswer(m)
  BY <1>0 DEF LineageInv, AnswersGrounded, Elements
<1>2. \A m \in Elements(response_queue) : GoodAnswer(m)'
  BY <1>1, GroundedStays
<1>3. ASSUME NEW m \in Response, GoodAnswer(m), response_queue' = Append(response_queue, m)
      PROVE  AnswersGrounded'
  <2>1. Elements(response_queue)' = Elements(response_queue) \cup {m}
    BY <1>0, <1>3, AppendFacts
  <2>2. GoodAnswer(m)'
    BY <1>3, GroundedStays
  <2>3. QED
    BY <1>2, <2>1, <2>2 DEF AnswersGrounded
<1>4. ASSUME NEW w \in Workers, worker_queue[w] # <<>>
      PROVE  /\ AnswerOf(w, "failed", None) \in Response
             /\ GoodAnswer(AnswerOf(w, "failed", None))
             /\ AnswerOf(w, "success", Inference(Head(worker_queue[w]))) \in Response
             /\ Inference(Head(worker_queue[w])) # None =>
                   GoodAnswer(AnswerOf(w, "success", Inference(Head(worker_queue[w]))))
  <2>1. Head(worker_queue[w]) \in Job /\ Head(worker_queue[w]) \in Elements(worker_queue[w])
    BY <1>0, <1>4, HeadTailFacts
  <2>2. GoodJob(w, Head(worker_queue[w]))
    BY <2>1 DEF LineageInv, JobsGrounded
  <2>3. QED
    BY <1>0, <1>4, <2>1, <2>2, AnswersTyped, InferenceGrounded DEF AnswerOf, GoodAnswer
<1>5. \A w \in Workers, s \in StatusMessages : StatusOf(w, s) \in Response /\ GoodAnswer(StatusOf(w, s))
  BY DEF StatusOf, Response, Status, StatusMessages, GoodAnswer
<1>6. ASSUME response_queue # <<>>, response_queue' = Tail(response_queue) PROVE AnswersGrounded'
  BY <1>0, <1>2, <1>6, HeadTailFacts DEF AnswersGrounded
<1>7. ASSUME UNCHANGED response_queue PROVE AnswersGrounded'
  BY <1>2, <1>7 DEF AnswersGrounded
<1>8. pc["response"] = "ack" => response_queue # <<>>
  BY DEF Typing, InFlight, InFlightAt
<1>9. QED
  BY <1>3, <1>4, <1>5, <1>6, <1>7, <1>8, ResponseQueueEffect

\* README: "Before any other AI service model can be used Diarization needs to
\* be processed first."  Whatever is stored for a task, as a feature's result or
\* as the final one, was built on a diarization of that task and on results
\* stored for it: for every number of tasks, features and workers, also when
\* clients submit feature lists without diarization, and whatever is lost,
\* redelivered, recovered or raced for on the way.
THEOREM ResultsBuiltOnDiarization == Spec => []BuiltOnDiarization
<1>1. Init => LineageInv
  BY DEF Init, StoreInit, QueuesInit, BrokerInit, LineageInv, RowsGrounded, JobsGrounded,
         SnapshotsGrounded, AnswersGrounded, Grounded, Stored, Elements, None, Handlers
<1>2. Typing /\ LineageInv /\ [Next]_vars => LineageInv'
  BY RowsGroundedStep, JobsGroundedStep, SnapshotsGroundedStep, AnswersGroundedStep DEF LineageInv
<1>3. LineageInv => BuiltOnDiarization
  BY DEF LineageInv, RowsGrounded, Grounded, Stored, BuiltOnDiarization
<1>4. QED
  BY <1>1, <1>2, <1>3, TypingCorrect, PTL DEF Spec
=============================================================================
