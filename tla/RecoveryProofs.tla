--------------------------- MODULE RecoveryProofs ---------------------------
(***************************************************************************)
(* An accepted task is not lost, however often the broker crashes, as long *)
(* as no worker leaves, no call of a handler raises and no answer or file  *)
(* is lost.  What survives a crash are requests, answers and published     *)
(* jobs, and the WAITING rows, of which the next start makes pending jobs. *)
(* The proof shows that a task without the former has the latter: a mark   *)
(* takes a feature out of WAITING only while its job or its answer is      *)
(* still on the way, and a handler that decides on an outdated snapshot is *)
(* never the only one that holds a message of the task.                    *)
(*                                                                         *)
(* Without crashes, but with workers that leave, a task is lost only       *)
(* together with one: the last part shows that it is then stuck at a       *)
(* feature of a worker that is gone.                                       *)
(***************************************************************************)
EXTENDS OrderProofs

LosingFaults == {"handler_error", "lost_status", "storage_error", "delete_file"}

NoLosingFault == \A k \in LosingFaults \cup {"worker_exit"} : Budget[k] = 0

Spared == \A k \in LosingFaults : budget[k] = 0

\* A worker that was heard of, or is registered, was started, and has its queue
\* until it leaves.
WorkersKnown ==
    /\ bound = {w \in Workers : Running(w)}
    /\ \A w \in available_workers : wstate[w] # "off"
    /\ \A m \in Elements(response_queue) : wstate[m.worker] # "off"

NobodyLeaves == budget["worker_exit"] = 0 /\ \A w \in Workers : wstate[w] \in {"off", "up"}

FilesStay == \A t \in Tasks : submission[t] # "new" \/ t \in Rows => t \in files

DownIsIdle == ~ broker_up => \A h \in Handlers : pc[h] = "idle"

EntryTaken == pc["response"] = "mark_pending" => Taken # {}

Ground == Spared /\ WorkersKnown /\ FilesStay /\ DownIsIdle /\ EntryTaken

\* The task is in a message that survives a crash, other than those the handlers
\* in X work on.
Carried(t, X) ==
    \/ t \in Remaining(request_queue, "request" \in X)
    \/ \E m \in Remaining(response_queue, "response" \in X) : m.task = t
    \/ \E w \in Workers : \E job \in Elements(worker_queue[w]) : job.task = t

Passing == {h \in Handlers : PassedOn(h)}

\* The task is in the pending list and not being dispatched from it.
Listed(t) == \E i \in DOMAIN pending_requests \ Taken : pending_requests[i].task = t

Owed(t) == submission[t] = "accepted" /\ ~ Settled(t)

Recoverable ==
    \A t \in Tasks : Owed(t) =>
        Carried(t, Passing) \/ (Waiting(t) # {} /\ (broker_up => Listed(t)))

\* The answers whose status the broker has not stored yet.
Unstored ==
    Remaining(response_queue, pc["response"] \notin {"idle", "feature_ready", "feature_failed"})

\* A job for feature f of task t, or the answer to it, is still on the way.
Coming(t, f) ==
    \E w \in Workers : /\ TypeOf[w] = f
                       /\ \/ \E job \in Elements(worker_queue[w]) : job.task = t
                          \/ \E m \in Unstored : m.task = t /\ m.worker = w

\* A handler has published a job for it and not marked it yet.
MarkDue(h, t, f) ==
    \/ pc[h] = "mark" /\ TaskOf(h) = t /\ f \in FirstOf(view[h].waiting)
    \/ h = "response" /\ \E i \in Taken : pending_requests[i].task = t /\ pending_requests[i].feature = f

MarksInTime ==
    \A h \in Handlers : \A t \in Tasks : \A f \in Features :
        MarkDue(h, t, f) /\ featStatus[t][f] = "WAITING" => Coming(t, f)

\* A handler that will dispatch a feature that is not WAITING any more.
Outdated(h) == pc[h] = "decide" /\ view[h].waiting # {} /\ Waiting(TaskOf(h)) = {}

OutdatedNotAlone ==
    \A h \in Handlers :
        Outdated(h) /\ Owed(TaskOf(h)) => Carried(TaskOf(h), Passing \cup {h})

\* Of two handlers that decide on the same task one does not decide on an
\* outdated snapshot.
OneIsCurrent ==
    (\A h \in Handlers : pc[h] = "decide") /\ TaskOf("request") = TaskOf("response") =>
        \E h \in Handlers : view[h].waiting = Waiting(TaskOf(h))

RecoveryInv ==
    /\ RowsExist /\ Ground /\ NobodyLeaves /\ MarksInTime /\ OneIsCurrent
    /\ OutdatedNotAlone /\ Recoverable

-----------------------------------------------------------------------------
(* The faults that would lose a task do not happen                         *)

\* Nobody can pay for one.
LEMMA LosingFaultsUnpaid ==
    ASSUME Spared, NEW kinds, Spend(kinds)
    PROVE  kinds \cap LosingFaults = {}
BY DEF Spared, Spend, LosingFaults

\* So the steps that need one are not taken.
LEMMA SparedSteps ==
    ASSUME Typing, Spared, [Next]_vars
    PROVE  /\ Spared'
           /\ \A h \in Handlers : ~ HandlerError(h)
           /\ \A t \in Tasks : ~ DeleteAudio(t)
<1>1. Spared'
  <2>1. CASE UNCHANGED budget
    BY <2>1 DEF Spared
  <2>2. ASSUME NEW kinds \in SUBSET FaultKinds, Spend(kinds) PROVE Spared'
    BY <2>2, LosingFaultsUnpaid DEF Spared, Spend, LosingFaults, FaultKinds
  <2>3. QED
    BY <2>1, <2>2, BudgetEffect
<1>2. (\A h \in Handlers : ~ HandlerError(h)) /\ \A t \in Tasks : ~ DeleteAudio(t)
  BY LosingFaultsUnpaid DEF HandlerError, DeleteAudio, LosingFaults
<1>3. QED
  BY <1>1, <1>2

\* Without a worker that leaves all stay.
LEMMA NobodyLeavesStep ==
    ASSUME Typing, NobodyLeaves, [Next]_vars
    PROVE  NobodyLeaves' /\ \A w \in Workers : ~ Leave(w)
<1>0. wstate \in [Workers -> WorkerStates]
  BY DEF Typing, TypeOK, WorkerTypeOK
<1>1. \A kinds : Spend(kinds) => "worker_exit" \notin kinds
  BY DEF NobodyLeaves, Spend
<1>2. ASSUME NEW w \in Workers PROVE ~ Leave(w)
  <2>1. wstate[w] # "closing"
    BY DEF NobodyLeaves
  <2>2. QED
    BY <1>1, <2>1 DEF Leave, Shutdown, CloseConnection, SendStatus
<1>3. budget'["worker_exit"] = 0
  <2>1. CASE UNCHANGED budget
    BY <2>1 DEF NobodyLeaves
  <2>2. ASSUME NEW kinds \in SUBSET FaultKinds, Spend(kinds) PROVE budget'["worker_exit"] = 0
    BY <1>1, <2>2 DEF NobodyLeaves, Spend, FaultKinds
  <2>3. QED
    BY <2>1, <2>2, BudgetEffect
<1>4. \A w \in Workers : wstate'[w] \in {"off", "up"}
  <2>1. ASSUME NEW w \in Workers, Begin(w) PROVE \A v \in Workers : wstate'[v] \in {"off", "up"}
    BY <1>0, <2>1 DEF Begin, StartWorker, NobodyLeaves
  <2>2. (\A w \in Workers : ~ Begin(w)) => UNCHANGED wstate
    BY <1>2 DEF Next, Api, Beat, Heartbeat, Work, ProcessTask, AnswerSuccess, AnswerFailed, RaiseInJob,
           TakeJob, Broker, Restart, Expire, Fault, workerVars, vars
  <2>3. QED
    BY <2>1, <2>2 DEF NobodyLeaves
<1>5. QED
  BY <1>2, <1>3, <1>4 DEF NobodyLeaves

\* A job is answered, and nothing else happens meanwhile.
LEMMA WorkDone ==
    ASSUME Typing, RowsExist, Spared, FilesStay, NEW w \in Workers, Work(w)
    PROVE  /\ worker_queue[w] # <<>> /\ worker_queue' = [worker_queue EXCEPT ![w] = Tail(@)]
           /\ \E m \in Response : /\ m.worker = w /\ m.task = Head(worker_queue[w]).task
                                  /\ response_queue' = Append(response_queue, m)
           /\ UNCHANGED <<request_queue, bound, wstate, available_workers, pc>>
<1>1. /\ worker_queue[w] # <<>> /\ worker_queue' = [worker_queue EXCEPT ![w] = Tail(@)]
      /\ UNCHANGED <<request_queue, bound, wstate, available_workers, pc>>
  BY DEF Work, ProcessTask, AnswerSuccess, AnswerFailed, RaiseInJob, TakeJob, brokerVars
<1>2. Head(worker_queue[w]).task \in files
  <2>1. Head(worker_queue[w]) \in Elements(worker_queue[w])
    BY <1>1, QueueTypes, HeadTailFacts
  <2>2. QED
    BY <2>1 DEF RowsExist, FilesStay, Rows
<1>3. ~ RaiseInJob(w)
  BY <1>2, LosingFaultsUnpaid DEF RaiseInJob, LosingFaults
<1>4. ASSUME NEW s, NEW r, NEW kinds, AnswerOf(w, s, r) \in Response, SendStatus(AnswerOf(w, s, r), kinds)
      PROVE  \E m \in Response : /\ m.worker = w /\ m.task = Head(worker_queue[w]).task
                                 /\ response_queue' = Append(response_queue, m)
  <2>1. response_queue' = Append(response_queue, AnswerOf(w, s, r))
    BY <1>4, LosingFaultsUnpaid DEF SendStatus, LosingFaults
  <2>2. QED
    BY <1>4, <2>1 DEF AnswerOf
<1>5. /\ AnswerOf(w, "failed", None) \in Response
      /\ AnswerOf(w, "success", Inference(Head(worker_queue[w]))) \in Response
  BY <1>1, QueueTypes, AnswersTyped
<1>6. AnswerSuccess(w) => SendStatus(AnswerOf(w, "success", Inference(Head(worker_queue[w]))), {})
  BY DEF AnswerSuccess, AnswerOf
<1>7. AnswerFailed(w) => \E kinds : SendStatus(AnswerOf(w, "failed", None), kinds)
  BY DEF AnswerFailed, AnswerOf
<1>8. QED
  BY <1>1, <1>3, <1>4, <1>5, <1>6, <1>7 DEF Work, ProcessTask

\* Whoever is registered or has sent a message has been started.
LEMMA WorkersKnownStep ==
    ASSUME Typing, RowsExist, Spared, WorkersKnown, FilesStay, [Next]_vars
    PROVE  WorkersKnown'
<1>0. /\ response_queue \in Seq(Response)
      /\ wstate \in [Workers -> WorkerStates]
      /\ response_queue # <<>> => Answered \in Elements(response_queue)
      /\ bound \in SUBSET Workers /\ available_workers \in SUBSET Workers
  BY HeadTailFacts DEF Typing, TypeOK, QueuesTypeOK, WorkerTypeOK, BrokerTypeOK, Answered
<1>1. ASSUME NEW w \in Workers, Begin(w) \/ Beat(w) \/ Work(w) \/ Leave(w) PROVE WorkersKnown'
  <2>1. \A m \in Elements(response_queue)' : m \in Elements(response_queue) \/ m.worker = w
    <3>1. \A s \in StatusMessages : StatusOf(w, s) \in Response /\ StatusOf(w, s).worker = w
      BY DEF StatusOf, Response, Status
    <3>2. Work(w) => \E m \in Response : m.worker = w /\ response_queue' = Append(response_queue, m)
      BY WorkDone
    <3>3. ~ Work(w) => \/ UNCHANGED response_queue
                       \/ \E s \in StatusMessages : response_queue' = Append(response_queue, StatusOf(w, s))
      BY <1>1 DEF Begin, StartWorker, Beat, Heartbeat, Leave, Shutdown, CloseConnection, SendStatus, StatusMessages
    <3>4. UNCHANGED response_queue \/ \E m \in Response : m.worker = w /\ response_queue' = Append(response_queue, m)
      BY <3>1, <3>2, <3>3
    <3>5. ASSUME NEW m \in Response, m.worker = w, response_queue' = Append(response_queue, m)
          PROVE  \A n \in Elements(response_queue)' : n \in Elements(response_queue) \/ n.worker = w
      <4>1. Elements(Append(response_queue, m)) = Elements(response_queue) \cup {m}
        BY <1>0, AppendFacts
      <4>2. Elements(response_queue)' = Elements(response_queue) \cup {m}
        BY <3>5, <4>1
      <4>3. QED
        BY <3>5, <4>2
    <3>6. QED
      BY <3>4, <3>5
  <2>2. /\ wstate'[w] # "off" /\ \A v \in Workers \ {w} : wstate'[v] = wstate[v]
        /\ bound' = {v \in Workers : wstate'[v] \in {"up", "closing"}}
        /\ UNCHANGED available_workers
    <3>1. CASE Begin(w)
      BY <1>0, <3>1 DEF WorkersKnown, Running, Begin, StartWorker, DeclareWorkerQueue, brokerVars
    <3>2. CASE Beat(w)
      BY <1>0, <3>2 DEF WorkersKnown, Running, Beat, Heartbeat, brokerVars
    <3>3. CASE Work(w)
      <4>1. Running(w)
        BY <3>3 DEF Work, ProcessTask, AnswerSuccess, AnswerFailed, RaiseInJob, TakeJob
      <4>2. QED
        BY <1>0, <3>3, <4>1, WorkDone DEF WorkersKnown, Running
    <3>4. CASE Leave(w)
      BY <1>0, <3>4 DEF WorkersKnown, Running, Leave, Shutdown, CloseConnection, DropWorkerQueue, brokerVars
    <3>5. QED
      BY <1>1, <3>1, <3>2, <3>3, <3>4
  <2>3. \A m \in Elements(response_queue) : m.worker \in Workers
    BY <1>0 DEF Elements, Response, Answer, Status
  <2>4. QED
    BY <1>0, <2>1, <2>2, <2>3 DEF WorkersKnown, Running
<1>2. ASSUME UNCHANGED <<bound, wstate>>,
             response_queue' = response_queue \/ (response_queue # <<>> /\ response_queue' = Tail(response_queue)),
             \A w \in available_workers' :
                 w \in available_workers \/ (response_queue # <<>> /\ w = Answered.worker)
      PROVE  WorkersKnown'
  <2>1. Elements(response_queue)' \subseteq Elements(response_queue)
    BY <1>0, <1>2, HeadTailFacts
  <2>2. QED
    BY <1>0, <1>2, <2>1 DEF WorkersKnown, Running
<1>3. ASSUME HandleRequest \/ HandleResponse, UNCHANGED <<apiVars, workerVars>> PROVE WorkersKnown'
  BY <1>2, <1>3 DEF HandleRequest, HandleResponse, DeliverRequest, DeliverStartup, DeliverHeartbeat,
              DeliverShutdown, HandledAtOnce, DeliverAnswer, DeliverResponse, PendingAfterAnswer,
              AcceptRequest, FeatureFailed, TaskFailed, FeatureReady, MarkPending, Register,
              DropLateWorkers, KeepWorkers, KeepQueues, queueVars, workerVars
<1>4. ASSUME NEW h \in Handlers, DispatchNextFeature(h) \/ Acknowledge(h), UNCHANGED <<apiVars, workerVars>>
      PROVE  WorkersKnown'
  BY <1>2, <1>4 DEF DispatchNextFeature, ReadFeatures, Defer, Dispatch, MarkDispatched, FinishFailed,
              FinishReady, SendCallback, Acknowledge, At, KeepWorkers, KeepQueues, queueVars, workerVars,
              Typing, InFlight, InFlightAt, Handlers
<1>5. ASSUME NEW t \in Tasks, Api(t) PROVE WorkersKnown'
  BY <1>2, <1>5 DEF Api, ApiStep, StoreAudio, InsertSubmission, PublishTask, PublishFails, queueVars,
              workerVars, brokerVars
<1>6. ASSUME Restart \/ Expire \/ Fault PROVE WorkersKnown'
  BY <1>2, <1>6, SparedSteps DEF Restart, BrokerStart, Expire, PrintStats, DropLateWorkers, GrowLate,
              Fault, BrokerCrash, queueVars, workerVars
<1>7. CASE UNCHANGED vars
  BY <1>2, <1>7 DEF vars, queueVars, workerVars, brokerVars
<1>8. QED
  BY <1>1, <1>3, <1>4, <1>5, <1>6, <1>7, SparedSteps DEF Next, Broker, BrokerStep

\* The audio file of a task that was inserted is there.
LEMMA FilesStayStep ==
    ASSUME Typing, Spared, FilesStay, [Next]_vars
    PROVE  FilesStay'
<1>0. submission \in [Tasks -> Submissions] /\ files \in SUBSET Tasks /\ StoreTypeOK
  BY DEF Typing, TypeOK, ApiTypeOK, QueuesTypeOK
<1>1. ASSUME NEW u \in Tasks, Api(u) PROVE FilesStay'
  BY <1>0, <1>1 DEF Api, ApiStep, StoreAudio, InsertSubmission, PublishTask, PublishFails, Advance,
              InsertTask, StoreTypeOK, FilesStay, Rows, HasRow, storeVars, queueVars
<1>2. ASSUME UNCHANGED <<files, submission>>, \A t \in Tasks : t \in Rows' => t \in Rows PROVE FilesStay'
  BY <1>2 DEF FilesStay
<1>3. ASSUME \A t \in Tasks : ~ InsertSubmission(t) PROVE \A t \in Tasks : t \in Rows' => t \in Rows
  <2>1. UNCHANGED taskStatus \/ \E u \in Tasks : \E s, r : UpdateTask(u, s, r)
    BY <1>3, StoreFrame, InProgress
       DEF StoreStep, storeVars, AcceptRequest, FeatureFailed, TaskFailed, FeatureReady, MarkPending,
           MarkDispatched, FinishFailed, FinishReady, UpdateFeature, At, AnswerPCs, Answer
  <2>2. QED
    BY <1>0, <2>1 DEF UpdateTask, StoreTypeOK, Rows, HasRow
<1>4. (\A t \in Tasks : ~ Api(t)) => UNCHANGED <<files, submission>> /\ \A t \in Tasks : ~ InsertSubmission(t)
  <2>1. ASSUME NEW w \in Workers, Begin(w) \/ Beat(w) \/ Work(w) \/ Leave(w) PROVE UNCHANGED <<files, submission>>
    BY <2>1 DEF Begin, Beat, Work, Leave, StartWorker, Heartbeat, ProcessTask, AnswerSuccess,
              AnswerFailed, RaiseInJob, TakeJob, Shutdown, CloseConnection, apiVars
  <2>2. ASSUME HandleRequest \/ HandleResponse PROVE UNCHANGED files
    BY <2>2 DEF HandleRequest, HandleResponse, DeliverRequest, DeliverStartup, DeliverHeartbeat,
              DeliverShutdown, HandledAtOnce, DeliverAnswer, PendingAfterAnswer,
              AcceptRequest, FeatureFailed, TaskFailed, FeatureReady, MarkPending, KeepQueues, queueVars
  <2>3. ASSUME NEW h \in Handlers, DispatchNextFeature(h) \/ Acknowledge(h) PROVE UNCHANGED files
    BY <2>3 DEF DispatchNextFeature, ReadFeatures, Defer, Dispatch, MarkDispatched, FinishFailed,
              FinishReady, SendCallback, Acknowledge, KeepQueues, queueVars
  <2>4. ASSUME Restart \/ Expire \/ Fault PROVE UNCHANGED <<files, submission>>
    BY <2>4, SparedSteps DEF Restart, BrokerStart, Expire, PrintStats, GrowLate, Fault, BrokerCrash,
              queueVars, apiVars
  <2>5. ASSUME UNCHANGED vars PROVE UNCHANGED <<files, submission>>
    BY <2>5 DEF vars, queueVars, apiVars
  <2>6. ASSUME \A t \in Tasks : ~ Api(t) PROVE UNCHANGED <<files, submission>>
    BY <2>1, <2>2, <2>3, <2>4, <2>5, <2>6, SparedSteps DEF Next, Broker, BrokerStep, apiVars
  <2>7. ASSUME NEW t \in Tasks, InsertSubmission(t), UNCHANGED submission PROVE FALSE
    BY <1>0, <2>7 DEF InsertSubmission, Advance
  <2>8. QED
    BY <2>6, <2>7
<1>5. QED
  BY <1>1, <1>2, <1>3, <1>4

\* While the broker is down no handler is in the middle of a message.
LEMMA DownIsIdleStep ==
    ASSUME Typing, DownIsIdle, [Next]_vars
    PROVE  DownIsIdle'
<1>1. ASSUME NEW t \in Tasks, Api(t) PROVE UNCHANGED <<broker_up, pc>>
  BY <1>1 DEF Api, brokerVars
<1>2. ASSUME NEW w \in Workers, Begin(w) \/ Beat(w) \/ Work(w) \/ Leave(w) PROVE UNCHANGED <<broker_up, pc>>
  BY <1>2 DEF Begin, Beat, Work, Leave, brokerVars
<1>3. ASSUME HandleRequest \/ HandleResponse PROVE broker_up'
  BY <1>3 DEF HandleRequest, HandleResponse, DeliverRequest, DeliverStartup, DeliverHeartbeat,
              DeliverShutdown, HandledAtOnce, DeliverAnswer, DeliverResponse, PendingAfterAnswer,
              AcceptRequest, FeatureFailed, TaskFailed, FeatureReady, MarkPending, At
<1>4. ASSUME NEW h \in Handlers, DispatchNextFeature(h) \/ Acknowledge(h) \/ HandlerError(h) PROVE broker_up'
  BY <1>4 DEF DispatchNextFeature, ReadFeatures, Defer, Dispatch, MarkDispatched, FinishFailed,
              FinishReady, SendCallback, Acknowledge, HandlerError, At
<1>5. ASSUME Restart \/ Expire \/ Fault PROVE DownIsIdle'
  BY <1>4, <1>5 DEF Restart, BrokerStart, Expire, PrintStats, GrowLate, Fault, BrokerCrash, DeleteAudio,
              DownIsIdle, brokerVars
<1>6. ASSUME UNCHANGED vars PROVE UNCHANGED <<broker_up, pc>>
  BY <1>6 DEF vars, brokerVars
<1>7. QED
  BY <1>1, <1>2, <1>3, <1>4, <1>5, <1>6 DEF Next, Broker, BrokerStep, DownIsIdle

-----------------------------------------------------------------------------
(* Durable messages                                                        *)

\* A request stays until the handler that works on it is through; that handler's
\* message is set aside when it is no longer counted.
LEMMA RequestsStay ==
    ASSUME Typing, [Next]_vars, NEW before \in BOOLEAN, NEW after \in BOOLEAN,
           before => pc["request"] # "idle",
           pc["request"] = "ack" => before,
           after => pc'["request"] # "idle"
    PROVE  \A t \in Remaining(request_queue, before) :
              t \in Remaining(request_queue', after) \/ (~ before /\ after /\ t = TaskOf("request"))
<1>0. request_queue \in Seq(Tasks) /\ pc \in [Handlers -> PCs]
  BY QueueTypes
<1>1. before => request_queue # <<>>
  BY DEF Typing, InFlight, InFlightAt
<1>. SUFFICES ASSUME NEW t \in Remaining(request_queue, before)
              PROVE  t \in Remaining(request_queue', after) \/ (~ before /\ after /\ t = TaskOf("request"))
  OBVIOUS
<1>2. request_queue # <<>> /\ (t \in Remaining(request_queue, after) \/ (~ before /\ after /\ t = TaskOf("request")))
  <2>1. t \in Elements(request_queue)
    BY <1>0, <1>1, RemainingFacts
  <2>2. request_queue # <<>>
    BY <2>1 DEF Elements
  <2>3. Elements(request_queue) = {TaskOf("request")} \cup Elements(Tail(request_queue))
    BY <1>0, <2>2, HeadAndTail DEF TaskOf
  <2>4. QED
    BY <2>1, <2>2, <2>3 DEF Remaining
<1>3. ASSUME NEW u \in Tasks, request_queue' = Append(request_queue, u)
      PROVE  Remaining(request_queue', after) = Remaining(request_queue, after) \cup {u}
  BY <1>0, <1>2, <1>3, RemainingFacts
<1>4. ASSUME pc["request"] = "ack", Goto("request", "idle"), request_queue' = Tail(request_queue)
      PROVE  Remaining(request_queue, before) = Remaining(request_queue', after)
  BY <1>0, <1>4 DEF Goto, Handlers, Remaining
<1>5. QED
  BY <1>2, <1>3, <1>4, RequestQueueEffect

\* An answer stays too; a status message may be handled at once, and the message
\* the handler works on is set aside when it is no longer counted.
LEMMA AnswersStay ==
    ASSUME Typing, [Next]_vars, NEW before \in BOOLEAN, NEW after \in BOOLEAN,
           before => pc["response"] # "idle",
           pc["response"] = "ack" => before,
           after => pc'["response"] # "idle"
    PROVE  /\ \A m \in Remaining(response_queue, before) :
                 \/ m \in Remaining(response_queue', after)
                 \/ ~ before /\ m = Answered /\ (after \/ m.status \in StatusMessages)
           /\ \A m \in Response : response_queue' = Append(response_queue, m) /\ (after => response_queue # <<>>)
                 => m \in Remaining(response_queue', after)
<1>0. response_queue \in Seq(Response) /\ pc \in [Handlers -> PCs]
  BY QueueTypes
<1>1. before => response_queue # <<>>
  BY DEF Typing, InFlight, InFlightAt
<1>2. ASSUME NEW m \in Remaining(response_queue, before)
      PROVE  /\ response_queue # <<>>
             /\ m \in Remaining(response_queue, after) \/ (~ before /\ after /\ m = Answered)
  <2>1. m \in Elements(response_queue)
    BY <1>0, <1>1, RemainingFacts
  <2>2. response_queue # <<>>
    BY <2>1 DEF Elements
  <2>3. Elements(response_queue) = {Answered} \cup Elements(Tail(response_queue))
    BY <1>0, <2>2, HeadAndTail DEF Answered
  <2>4. QED
    BY <2>1, <2>2, <2>3 DEF Remaining
<1>3. ASSUME NEW m \in Response, response_queue' = Append(response_queue, m), after => response_queue # <<>>
      PROVE  Remaining(response_queue', after) = Remaining(response_queue, after) \cup {m}
  BY <1>0, <1>3, RemainingFacts
<1>4. ASSUME pc["response"] = "ack", Goto("response", "idle"), response_queue' = Tail(response_queue)
      PROVE  Remaining(response_queue, before) = Remaining(response_queue', after)
  BY <1>0, <1>4 DEF Goto, Handlers, Remaining
<1>5. ASSUME pc["response"] = "idle", UNCHANGED pc, response_queue # <<>>, response_queue' = Tail(response_queue),
             NEW m \in Remaining(response_queue, before)
      PROVE  m \in Remaining(response_queue', after) \/ (~ before /\ m = Answered)
  <2>1. ~ before /\ ~ after
    BY <1>5
  <2>2. Elements(response_queue) = {Answered} \cup Elements(Tail(response_queue))
    BY <1>0, <1>5, HeadAndTail DEF Answered
  <2>3. QED
    BY <1>5, <2>1, <2>2 DEF Remaining
<1>6. \A w \in Workers, s \in StatusMessages : StatusOf(w, s) \in Response
  BY DEF StatusOf, Response, Status
<1>7. ASSUME NEW w \in Workers, worker_queue[w] # <<>>
      PROVE  /\ AnswerOf(w, "failed", None) \in Response
             /\ AnswerOf(w, "success", Inference(Head(worker_queue[w]))) \in Response
  BY <1>7, QueueTypes, AnswersTyped
<1>8. ASSUME NEW m \in Remaining(response_queue, before)
      PROVE  \/ m \in Remaining(response_queue', after)
             \/ ~ before /\ m = Answered /\ (after \/ m.status \in StatusMessages)
  <2>1. ASSUME NEW n \in Response, response_queue' = Append(response_queue, n)
        PROVE  m \in Remaining(response_queue, after) => m \in Remaining(response_queue', after)
    BY <1>2, <1>3, <2>1
  <2>2. QED
    BY <1>2, <1>4, <1>5, <1>6, <1>7, <2>1, ResponseQueueEffect
<1>9. QED
  BY <1>3, <1>8

\* A job stays in its worker's queue until it is answered, or the worker leaves.
LEMMA JobsStay ==
    ASSUME Typing, RowsExist, Spared, FilesStay, [Next]_vars,
           NEW w \in Workers, NEW job \in Elements(worker_queue[w])
    PROVE  \/ job \in Elements(worker_queue'[w]) \/ wstate'[w] = "gone"
           \/ UNCHANGED pc /\ \E m \in Response : /\ m.worker = w /\ m.task = job.task
                                                 /\ response_queue' = Append(response_queue, m)
<1>0. worker_queue \in [Workers -> Seq(Job)]
  BY QueueTypes
<1>1. ASSUME NEW v \in Workers, Work(v)
      PROVE  \/ job \in Elements(worker_queue'[w])
             \/ UNCHANGED pc /\ \E m \in Response : /\ m.worker = w /\ m.task = job.task
                                                   /\ response_queue' = Append(response_queue, m)
  <2>1. CASE v # w
    BY <1>0, <1>1, <2>1, WorkDone
  <2>2. CASE v = w
    <3>1. Elements(worker_queue[w]) = {Head(worker_queue[w])} \cup Elements(Tail(worker_queue[w]))
      BY <1>0, <1>1, <2>2, WorkDone, HeadAndTail
    <3>2. worker_queue'[w] = Tail(worker_queue[w])
      BY <1>0, <1>1, <2>2, WorkDone
    <3>3. QED
      BY <1>1, <2>2, <3>1, <3>2, WorkDone
  <2>3. QED
    BY <2>1, <2>2
<1>2. ASSUME NEW v, NEW j, PublishJob(v, j), j \in Job PROVE job \in Elements(worker_queue'[w])
  BY <1>0, <1>2, AppendFacts DEF PublishJob
<1>3. ASSUME UNCHANGED worker_queue PROVE job \in Elements(worker_queue'[w])
  BY <1>3
<1>4. ASSUME NEW v \in Workers, Begin(v) \/ Beat(v) \/ Leave(v)
      PROVE  job \in Elements(worker_queue'[w]) \/ wstate'[w] = "gone"
  <2>1. CASE CloseConnection(v)
    <3>1. wstate \in [Workers -> WorkerStates]
      BY DEF Typing, TypeOK, WorkerTypeOK
    <3>2. v # w => worker_queue'[w] = worker_queue[w]
      BY <1>0, <2>1 DEF CloseConnection, DropWorkerQueue
    <3>3. v = w => wstate'[w] = "gone"
      BY <2>1, <3>1 DEF CloseConnection
    <3>4. QED
      BY <3>2, <3>3
  <2>2. CASE ~ CloseConnection(v)
    BY <1>4, <2>2 DEF Begin, Beat, Leave, StartWorker, Heartbeat, Shutdown, DeclareWorkerQueue
  <2>3. QED
    BY <2>1, <2>2
<1>5. ASSUME NEW t \in Tasks, Api(t) PROVE UNCHANGED worker_queue
  BY <1>5 DEF Api, ApiStep, StoreAudio, InsertSubmission, PublishTask, PublishFails, queueVars
<1>6. ASSUME DeliverStartup \/ PendingAfterAnswer PROVE job \in Elements(worker_queue'[w])
  <2>1. \A i \in DOMAIN pending_requests : pending_requests[i] \in Job
    BY QueueTypes
  <2>2. ASSUME NEW R, NEW done, DispatchPending(Answered.worker, R, done)
        PROVE  job \in Elements(worker_queue'[w])
    <3>1. \/ UNCHANGED worker_queue
          \/ \E i \in DOMAIN pending_requests : PublishJob(Answered.worker, pending_requests[i])
      BY <2>2 DEF DispatchPending, FirstOf, PendingFor
    <3>2. QED
      BY <1>2, <1>3, <2>1, <3>1
  <2>3. QED
    BY <1>6, <2>2 DEF DeliverStartup, PendingAfterAnswer
<1>7. ASSUME HandleRequest \/ HandleResponse, ~ DeliverStartup, ~ PendingAfterAnswer PROVE UNCHANGED worker_queue
  BY <1>7 DEF HandleRequest, HandleResponse, DeliverRequest, DeliverHeartbeat,
              DeliverShutdown, HandledAtOnce, DeliverAnswer, AcceptRequest,
              FeatureFailed, TaskFailed, FeatureReady, MarkPending, queueVars
<1>8. ASSUME NEW h \in Handlers, Dispatch(h) PROVE job \in Elements(worker_queue'[w])
  <2>1. PICK f \in view[h].waiting : \E v \in Registered(f) : PublishJob(v, NextJob(h, f))
    BY <1>8 DEF Dispatch, FirstOf
  <2>2. NextJob(h, f) \in Job
    BY <1>8, NextJobTyped DEF Dispatch, At
  <2>3. QED
    BY <1>2, <2>1, <2>2
<1>9. ASSUME NEW h \in Handlers, DispatchNextFeature(h) \/ Acknowledge(h), ~ Dispatch(h) PROVE UNCHANGED worker_queue
  BY <1>9 DEF DispatchNextFeature, ReadFeatures, Defer, MarkDispatched, FinishFailed,
              FinishReady, SendCallback, Acknowledge, queueVars
<1>10. ASSUME Restart \/ Expire \/ Fault PROVE UNCHANGED worker_queue
  BY <1>10, SparedSteps DEF Restart, BrokerStart, Expire, PrintStats, GrowLate, Fault, BrokerCrash, queueVars
<1>11. CASE UNCHANGED vars
  BY <1>3, <1>11 DEF vars, queueVars
<1>12. QED
  BY <1>1, <1>3, <1>4, <1>5, <1>6, <1>7, <1>8, <1>9, <1>10, <1>11, SparedSteps DEF Next, Broker, BrokerStep

\* A status message is about no task.
LEMMA StatusOfNoTask ==
    ASSUME NEW m \in Response, m.task \in Tasks
    PROVE  m.status \notin StatusMessages /\ m.status \in AnswerStatuses
BY NoTaskAssumption DEF Response, Answer, Status, AnswerStatuses, StatusMessages

\* A worker is gone and task t with it: the worker had a job of t, or one was
\* published to it after it had left, by a dispatch or from the pending list.
LostWith(t) ==
    \E w \in Workers :
        /\ wstate'[w] = "gone"
        /\ \/ \E job \in Elements(worker_queue[w]) : job.task = t
           \/ \E h \in Handlers : Dispatch(h) /\ TaskOf(h) = t /\ TypeOf[w] \in FirstOf(view[h].waiting)
           \/ \E i \in DOMAIN pending_requests \cap (Taken' \ Taken) :
                 pending_requests[i].task = t /\ pending_requests[i].feature = TypeOf[w]

\* Nobody comes back.
LEMMA GoneForGood ==
    ASSUME Typing, [Next]_vars, NEW w \in Workers, wstate[w] = "gone"
    PROVE  wstate'[w] = "gone"
<1>0. wstate \in [Workers -> WorkerStates]
  BY DEF Typing, TypeOK, WorkerTypeOK
<1>1. ASSUME NEW v \in Workers, Begin(v) \/ Leave(v) PROVE wstate'[w] = "gone"
  BY <1>0, <1>1 DEF Begin, Leave, StartWorker, Shutdown, CloseConnection
<1>2. (\A v \in Workers : ~ (Begin(v) \/ Leave(v))) => UNCHANGED wstate
  BY DEF Next, Api, Beat, Heartbeat, Work, ProcessTask, AnswerSuccess, AnswerFailed, RaiseInJob,
         TakeJob, Broker, Restart, Expire, Fault, workerVars, vars
<1>3. QED
  BY <1>1, <1>2

\* With nobody gone nothing is lost.
LEMMA NoneLost ==
    ASSUME Typing, NobodyLeaves, [Next]_vars
    PROVE  /\ \A w \in Workers : wstate'[w] # "gone"
           /\ \A t \in Tasks : ~ LostWith(t)
BY NobodyLeavesStep DEF NobodyLeaves, LostWith

\* What carries a task besides the messages of the handlers in X goes on to do so:
\* an acknowledgement makes no difference, nor does a handler that works on another
\* task.
LEMMA CarriedStep ==
    ASSUME Typing, RowsExist, Ground, [Next]_vars, NEW t \in Tasks,
           NEW X \in SUBSET Handlers, NEW Y \in SUBSET Handlers,
           \A h \in X : pc[h] # "idle",
           \A h \in Handlers : pc[h] = "ack" => h \in X,
           \A h \in Y : pc'[h] # "idle" /\ (h \in X \/ TaskOf(h) # t),
           Carried(t, X)
    PROVE  Carried(t, Y)' \/ LostWith(t)
<1>0. "request" \in Handlers /\ "response" \in Handlers /\ response_queue \in Seq(Response)
  BY QueueTypes DEF Handlers
<1>1. CASE t \in Remaining(request_queue, "request" \in X)
  <2>1. PICK before \in BOOLEAN, after \in BOOLEAN :
            (before <=> "request" \in X) /\ (after <=> "request" \in Y)
    BY Zenon
  <2>2. t \in Remaining(request_queue', after)
    BY <1>0, <1>1, <2>1, RequestsStay
  <2>3. QED
    BY <2>1, <2>2 DEF Carried
<1>. DEFINE Answers == \E m \in Remaining(response_queue', "response" \in Y) : m.task = t
<1>2. PICK before \in BOOLEAN, after \in BOOLEAN :
          (before <=> "response" \in X) /\ (after <=> "response" \in Y)
  BY Zenon
<1>3. /\ before => pc["response"] # "idle"
      /\ pc["response"] = "ack" => before
      /\ after => pc'["response"] # "idle" /\ (before \/ Answered.task # t)
  BY <1>0, <1>2 DEF TaskOf
<1>4. before => response_queue # <<>>
  BY <1>3 DEF Typing, InFlight, InFlightAt
<1>5. CASE \E m \in Remaining(response_queue, "response" \in X) : m.task = t
  <2>1. PICK m \in Remaining(response_queue, before) : m.task = t
    BY <1>2, <1>5
  <2>2. m \in Response
    BY <1>0, <1>4, RemainingFacts
  <2>3. m \in Remaining(response_queue', after)
    BY <1>3, <2>1, <2>2, AnswersStay, StatusOfNoTask
  <2>4. Answers
    BY <1>2, <2>1, <2>3
  <2>5. QED
    BY <2>4 DEF Carried
<1>6. ASSUME NEW w \in Workers, NEW job \in Elements(worker_queue[w]), job.task = t
      PROVE  Carried(t, Y)' \/ LostWith(t)
  <2>1. CASE job \in Elements(worker_queue'[w])
    BY <1>6, <2>1 DEF Carried
  <2>2. ASSUME UNCHANGED pc, NEW m \in Response, m.task = job.task, response_queue' = Append(response_queue, m)
        PROVE  Answers
    <3>0. after => response_queue # <<>>
      <4>1. after => pc["response"] # "idle"
        BY <1>3, <2>2
      <4>2. QED
        BY <4>1 DEF Typing, InFlight, InFlightAt
    <3>1. m \in Remaining(response_queue', after)
      BY <1>3, <2>2, <3>0, AnswersStay
    <3>2. QED
      BY <1>2, <1>6, <2>2, <3>1
  <2>3. Answers => Carried(t, Y)'
    BY DEF Carried
  <2>4. wstate'[w] = "gone" => LostWith(t)
    BY <1>6 DEF LostWith
  <2>5. QED
    BY <2>1, <2>2, <2>3, <2>4, JobsStay DEF Ground
<1>7. QED
  BY <1>1, <1>5, <1>6 DEF Carried

\* The message a handler works on carries its task.
LEMMA HandlerCarries ==
    ASSUME Typing, NEW t \in Tasks, NEW h \in Handlers, NEW X \in SUBSET Handlers,
           pc[h] # "idle", TaskOf(h) = t, h \notin X
    PROVE  Carried(t, X)
<1>0. request_queue \in Seq(Tasks) /\ response_queue \in Seq(Response)
  BY QueueTypes
<1>1. CASE h = "request"
  <2>1. request_queue # <<>> /\ TaskOf(h) = Head(request_queue)
    BY <1>1 DEF Typing, InFlight, InFlightAt, TaskOf
  <2>2. t \in Remaining(request_queue, "request" \in X)
    BY <1>0, <1>1, <2>1, HeadTailFacts DEF Remaining
  <2>3. QED
    BY <2>2 DEF Carried
<1>2. CASE h = "response"
  <2>1. response_queue # <<>> /\ TaskOf(h) = Head(response_queue).task
    BY <1>2 DEF Typing, InFlight, InFlightAt, TaskOf, Answered
  <2>2. \E m \in Remaining(response_queue, "response" \in X) : m.task = t
    BY <1>0, <1>2, <2>1, HeadTailFacts DEF Remaining
  <2>3. QED
    BY <2>2 DEF Carried
<1>3. QED
  BY <1>1, <1>2 DEF Handlers

-----------------------------------------------------------------------------
(* Who does what                                                           *)

\* A step of handler h.
StepOf(h) ==
    \/ h = "request" /\ HandleRequest
    \/ h = "response" /\ HandleResponse
    \/ DispatchNextFeature(h) \/ Acknowledge(h)

\* A handler gets on by its own steps only, but for a crash.
LEMMA OwnStep ==
    ASSUME Typing, Ground, [Next]_vars, NEW h \in Handlers, pc'[h] # pc[h]
    PROVE  StepOf(h) \/ BrokerCrash
<1>0. pc \in [Handlers -> PCs]
  BY QueueTypes
<1>1. ASSUME NEW t \in Tasks, Api(t) PROVE UNCHANGED pc
  BY <1>1 DEF Api, brokerVars
<1>2. ASSUME NEW w \in Workers, Begin(w) \/ Beat(w) \/ Work(w) \/ Leave(w) PROVE UNCHANGED pc
  BY <1>2 DEF Begin, Beat, Work, Leave, brokerVars
<1>3. ASSUME HandleRequest, h # "request" PROVE FALSE
  BY <1>0, <1>3 DEF HandleRequest, DeliverRequest, AcceptRequest, Goto
<1>4. ASSUME HandleResponse, h # "response" PROVE FALSE
  BY <1>0, <1>4 DEF HandleResponse, DeliverStartup, DeliverHeartbeat, DeliverShutdown, HandledAtOnce,
              DeliverAnswer, PendingAfterAnswer, DispatchPending, FeatureFailed, TaskFailed,
              FeatureReady, MarkPending, Goto
<1>5. ASSUME NEW k \in Handlers, DispatchNextFeature(k) \/ Acknowledge(k), h # k PROVE FALSE
  BY <1>0, <1>5 DEF DispatchNextFeature, ReadFeatures, Defer, Dispatch, MarkDispatched, FinishFailed,
              FinishReady, SendCallback, Acknowledge, Goto
<1>6. ASSUME Restart \/ Expire \/ Fault PROVE UNCHANGED pc \/ BrokerCrash
  BY <1>6, SparedSteps DEF Ground, Restart, BrokerStart, Expire, PrintStats, GrowLate, Fault
<1>7. CASE UNCHANGED vars
  BY <1>7 DEF vars, brokerVars
<1>8. QED
  BY <1>1, <1>2, <1>3, <1>4, <1>5, <1>6, <1>7 DEF Next, Broker, BrokerStep, StepOf

\* How a message comes to be passed on.
LEMMA PassingStep ==
    ASSUME Typing, Ground, [Next]_vars, NEW h \in Handlers, h \in Passing', h \notin Passing
    PROVE  \/ Defer(h) \/ Dispatch(h) \/ FinishFailed(h) \/ FinishReady(h)
           \/ h = "response" /\ TaskFailed
           \/ TaskOf(h) \notin Tasks
<1>0. pc \in [Handlers -> PCs] /\ pc'[h] # pc[h]
  BY QueueTypes DEF Passing, PassedOn
<1>1. ~ BrokerCrash
  BY DEF BrokerCrash, Passing, PassedOn
<1>2. CASE h = "request" /\ HandleRequest
  BY <1>0, <1>2 DEF HandleRequest, DeliverRequest, AcceptRequest, Goto, Passing, PassedOn, Handlers
<1>3. ASSUME h = "response", HandleResponse PROVE TaskFailed \/ TaskOf(h) \notin Tasks
  <2>1. ASSUME Answered \in Response, Answered.status \in StatusMessages PROVE TaskOf(h) \notin Tasks
    BY <1>3, <2>1, StatusOfNoTask DEF TaskOf
  <2>2. CASE DeliverStartup
    BY <2>1, <2>2, InProgress DEF DeliverStartup, DeliverResponse, StatusMessages
  <2>3. CASE DeliverHeartbeat \/ DeliverShutdown \/ DeliverAnswer \/ FeatureFailed \/ FeatureReady
    BY <1>0, <1>3, <2>3 DEF DeliverHeartbeat, DeliverShutdown, DeliverAnswer, FeatureFailed, FeatureReady,
                HandledAtOnce, Goto, Passing, PassedOn, Handlers
  <2>4. CASE PendingAfterAnswer
    <3>1. ~ Spend({"handler_error"})
      BY LosingFaultsUnpaid DEF Ground, LosingFaults
    <3>2. pc'["response"] \in {"read", "mark_pending"}
      BY <1>0, <2>4, <3>1 DEF PendingAfterAnswer, DispatchPending, Goto, Handlers
    <3>3. QED
      BY <1>3, <3>2 DEF Passing, PassedOn
  <2>5. CASE MarkPending
    <3>1. Answered.status = "startup" /\ Answered \in Response
      BY <1>0, <1>3, <2>5, InProgress DEF MarkPending, Goto, At, Passing, PassedOn, Handlers, Typing, InFlight, InFlightAt
    <3>2. QED
      BY <2>1, <3>1 DEF StatusMessages
  <2>6. QED
    BY <1>3, <2>2, <2>3, <2>4, <2>5 DEF HandleResponse
<1>4. CASE DispatchNextFeature(h)
  BY <1>0, <1>4 DEF DispatchNextFeature, ReadFeatures, MarkDispatched, SendCallback, At, Goto,
              Passing, PassedOn
<1>5. CASE Acknowledge(h)
  BY <1>0, <1>5 DEF Acknowledge, At, Passing, PassedOn
<1>6. QED
  BY <1>0, <1>1, <1>2, <1>3, <1>4, <1>5, OwnStep DEF StepOf

\* Whoever finishes a task settles it.
LEMMA FinishSettles ==
    ASSUME Typing, RowsExist, NEW h \in Handlers,
           FinishFailed(h) \/ FinishReady(h) \/ (h = "response" /\ TaskFailed)
    PROVE  Settled(TaskOf(h))'
<1>0. StoreTypeOK
  BY DEF Typing, TypeOK
<1>1. CASE FinishFailed(h) \/ FinishReady(h)
  <2>1. TaskOf(h) \in Rows /\ TaskOf(h)' = TaskOf(h)
    BY <1>1, InProgressHasRow DEF FinishFailed, FinishReady, At, queueVars, TaskOf, Answered
  <2>2. QED
    BY <1>0, <1>1, <2>1 DEF FinishFailed, FinishReady, UpdateTask, Settled, Rows, HasRow, StoreTypeOK
<1>2. CASE h = "response" /\ TaskFailed
  <2>1. Answered \in Response /\ response_queue # <<>> /\ Answered.status \in AnswerStatuses /\ Answered' = Answered
    BY <1>2, InProgress DEF TaskFailed, At, Typing, InFlight, InFlightAt, AnswerPCs, queueVars, Answered
  <2>2. Answered \in Elements(response_queue)
    BY <2>1, QueueTypes, HeadTailFacts DEF Answered
  <2>3. Answered.task \in Rows
    BY <2>1, <2>2 DEF RowsExist
  <2>4. QED
    BY <1>0, <1>2, <2>1, <2>3 DEF TaskFailed, UpdateTask, Settled, Rows, HasRow, StoreTypeOK, TaskOf
<1>3. QED
  BY <1>1, <1>2

\* The workers the broker publishes to have been started.
LEMMA PublishedToKnown ==
    ASSUME Typing, Ground
    PROVE  /\ \A w \in available_workers : w \in Workers /\ wstate[w] # "off"
           /\ response_queue # <<>> => Answered.worker \in Workers /\ wstate[Answered.worker] # "off"
<1>1. response_queue # <<>> => Answered \in Elements(response_queue) /\ Answered \in Response
  BY QueueTypes, HeadTailFacts DEF Answered
<1>2. available_workers \in SUBSET Workers
  BY DEF Typing, TypeOK, BrokerTypeOK
<1>3. QED
  BY <1>1, <1>2 DEF Ground, WorkersKnown, Response, Answer, Status

\* A job that is published reaches its worker, unless the worker has left.
LEMMA JobArrives ==
    ASSUME Typing, Ground, NEW w \in Workers, wstate[w] # "off", NEW job \in Job, PublishJob(w, job)
    PROVE  job \in Elements(worker_queue'[w]) \/ wstate[w] = "gone"
<1>1. wstate[w] = "gone" \/ w \in bound
  BY DEF Ground, WorkersKnown, Running, Typing, TypeOK, WorkerTypeOK, WorkerStates
<1>2. worker_queue \in [Workers -> Seq(Job)]
  BY QueueTypes
<1>3. w \in bound => worker_queue'[w] = Append(worker_queue[w], job)
  BY <1>2 DEF PublishJob
<1>4. QED
  BY <1>1, <1>2, <1>3, AppendFacts

\* The job of a dispatch is on its way to a worker of its feature, or to one that
\* has left.
LEMMA DispatchArrives ==
    ASSUME Typing, Ground, [Next]_vars, NEW h \in Handlers, Dispatch(h), NEW f \in FirstOf(view[h].waiting)
    PROVE  \E w \in Workers : /\ TypeOf[w] = f
                              /\ \/ wstate'[w] = "gone"
                                 \/ \E job \in Elements(worker_queue'[w]) : job.task = TaskOf(h)
<1>1. PICK g \in FirstOf(view[h].waiting), w \in available_workers : TypeOf[w] = g /\ PublishJob(w, NextJob(h, g))
  BY DEF Dispatch, Registered
<1>2. view[h].waiting \subseteq Nat
  BY DEF Typing, TypeOK, BrokerTypeOK, FeaturesView, Features
<1>3. f = g
  BY <1>1, <1>2 DEF FirstOf
<1>4. NextJob(h, g) \in Job /\ NextJob(h, g).task = TaskOf(h)
  BY <1>1, NextJobTyped DEF Dispatch, At, NextJob, FirstOf
<1>5. w \in Workers /\ (wstate[w] = "gone" \/ NextJob(h, g) \in Elements(worker_queue'[w]))
  BY <1>1, <1>4, PublishedToKnown, JobArrives
<1>6. QED
  BY <1>1, <1>3, <1>4, <1>5, GoneForGood

\* What carries a task is handed on: only a job deferred to the pending list
\* leaves the durable messages, but for a worker that is gone.
LEMMA HandOn ==
    ASSUME Typing, RowsExist, Ground, [Next]_vars, NEW t \in Tasks, ~ Settled(t)',
           NEW X \in SUBSET Handlers, NEW Y \in SUBSET Handlers,
           Passing \subseteq X, Y \subseteq X \cup Passing',
           \A h \in X : pc[h] # "idle", \A h \in Y : pc'[h] # "idle",
           \A k \in Handlers \ X : ~ (Defer(k) /\ TaskOf(k) = t),
           Carried(t, X)
    PROVE  Carried(t, Y)' \/ LostWith(t)
<1>1. CASE \A h \in Y : h \in X \/ TaskOf(h) # t
  BY <1>1, CarriedStep DEF Passing, PassedOn
<1>2. ASSUME NEW h \in Y, h \notin X, TaskOf(h) = t PROVE Carried(t, Y)' \/ LostWith(t)
  <2>0. h \in Handlers /\ h \in Passing' /\ h \notin Passing
    BY <1>2
  <2>1. TaskOf(h)' = TaskOf(h) => ~ FinishFailed(h) /\ ~ FinishReady(h) /\ ~ (h = "response" /\ TaskFailed)
    BY <1>2, <2>0, FinishSettles
  <2>2. FinishFailed(h) \/ FinishReady(h) \/ (h = "response" /\ TaskFailed) => TaskOf(h)' = TaskOf(h)
    BY DEF FinishFailed, FinishReady, TaskFailed, queueVars, TaskOf, Answered
  <2>3. Dispatch(h)
    BY <1>2, <2>0, <2>1, <2>2, PassingStep
  <2>4. PICK f \in FirstOf(view[h].waiting) : TRUE
    BY <2>3 DEF Dispatch
  <2>5. PICK w \in Workers : /\ TypeOf[w] = f
                             /\ \/ wstate'[w] = "gone"
                                \/ \E job \in Elements(worker_queue'[w]) : job.task = t
    BY <1>2, <2>0, <2>3, DispatchArrives
  <2>6. wstate'[w] = "gone" => LostWith(t)
    BY <1>2, <2>0, <2>3, <2>5 DEF LostWith
  <2>7. QED
    BY <2>5, <2>6 DEF Carried
<1>3. QED
  BY <1>1, <1>2

-----------------------------------------------------------------------------
(* The pending list                                                        *)

\* A set of numbers that is not empty has a first one.
LEMMA FirstExists ==
    ASSUME NEW S, S \subseteq Nat, S # {}
    PROVE  FirstOf(S) # {}
  BY LeastExists DEF FirstOf

\* As many different elements as a set has are all of them.
LEMMA AllEnumerated ==
    ASSUME NEW S, IsFiniteSet(S), NEW s \in [1..Cardinality(S) -> S],
           \A i, j \in DOMAIN s : i < j => s[i] # s[j]
    PROVE  \A x \in S : \E i \in DOMAIN s : s[i] = x
<1>1. Cardinality(S) \in Nat
  BY FS_CardinalityType
<1>2. IsFiniteSet(1..Cardinality(S)) /\ Cardinality(1..Cardinality(S)) = Cardinality(S)
  BY <1>1, FS_Interval
<1>3. s \in Injection(1..Cardinality(S), S)
  BY <1>1 DEF Injection, IsInjective
<1>4. s \in Surjection(1..Cardinality(S), S)
  BY <1>2, <1>3, FS_Injection
<1>5. QED
  BY <1>4 DEF Surjection

\* A broker that starts puts a job of every task with a WAITING feature on its list.
LEMMA StartLists ==
    ASSUME Typing, Ground, NEW t \in Tasks, BrokerStart, Waiting(t) # {}
    PROVE  Listed(t)'
<1>1. PICK f \in FirstOf(Waiting(t)) : TRUE
  BY FirstExists DEF Waiting, WithStatus, Features
<1>2. \E r \in RecoverableRequests : r.task = t
  <2>1. <<t, f>> \in {q \in Tasks \X Features : q[2] \in FirstOf(WithStatus(q[1], "WAITING"))}
    BY <1>1 DEF Waiting, WithStatus, FirstOf
  <2>. DEFINE Request(p) == [task |-> p[1], feature |-> p[2],
                             existing |-> ResultOfLast(p[1], {g \in WithStatus(p[1], "READY") : featResult[p[1]][g] # None})]
  <2>2. Request(<<t, f>>).task = t
    OBVIOUS
  <2>. HIDE DEF Request
  <2>3. RecoverableRequests = {Request(p) : p \in {q \in Tasks \X Features : q[2] \in FirstOf(WithStatus(q[1], "WAITING"))}}
    BY Zenon DEF RecoverableRequests, Request
  <2>4. QED
    BY <2>1, <2>2, <2>3
<1>3. IsFiniteSet(RecoverableRequests) /\ taskId \in [Tasks -> Nat] /\ RecoverableRequests \subseteq Job
  BY ViewsTyped DEF Typing, TypeOK, StoreTypeOK
<1>4. /\ pending_requests' \in [1..Cardinality(RecoverableRequests) -> RecoverableRequests]
      /\ \A i, j \in DOMAIN pending_requests' :
            i < j => taskId[pending_requests'[i].task] < taskId[pending_requests'[j].task]
  BY DEF BrokerStart, InTaskIdOrder
<1>5. \A i, j \in DOMAIN pending_requests' : i < j => pending_requests'[i] # pending_requests'[j]
  <2>1. \A i \in DOMAIN pending_requests' : taskId[pending_requests'[i].task] \in Nat
    BY <1>3, <1>4 DEF Job
  <2>2. QED
    BY <1>4, <2>1
<1>6. \A r \in RecoverableRequests : \E i \in DOMAIN pending_requests' : pending_requests'[i] = r
  BY <1>3, <1>4, <1>5, AllEnumerated
<1>7. Taken' = {}
  BY DEF BrokerStart, Ground, DownIsIdle, Taken, Handlers
<1>8. QED
  BY <1>2, <1>6, <1>7 DEF Listed

\* A running broker's list changes only when a job is deferred, or was dispatched
\* from it.
LEMMA PendingKept ==
    ASSUME Typing, Ground, [Next]_vars, broker_up, broker_up'
    PROVE  UNCHANGED pending_requests \/ MarkPending \/ \E h \in Handlers : Defer(h)
<1>1. ASSUME NEW t \in Tasks, Api(t) PROVE UNCHANGED pending_requests
  BY <1>1 DEF Api, brokerVars
<1>2. ASSUME NEW w \in Workers, Begin(w) \/ Beat(w) \/ Work(w) \/ Leave(w) PROVE UNCHANGED pending_requests
  BY <1>2 DEF Begin, Beat, Work, Leave, brokerVars
<1>3. ASSUME HandleRequest \/ HandleResponse, ~ MarkPending PROVE UNCHANGED pending_requests
  BY <1>3 DEF HandleRequest, HandleResponse, DeliverRequest, AcceptRequest, DeliverStartup, DeliverHeartbeat,
              DeliverShutdown, DeliverResponse, DeliverAnswer, PendingAfterAnswer, FeatureFailed,
              TaskFailed, FeatureReady
<1>4. ASSUME NEW h \in Handlers, DispatchNextFeature(h) \/ Acknowledge(h), ~ Defer(h)
      PROVE  UNCHANGED pending_requests
  BY <1>4 DEF DispatchNextFeature, ReadFeatures, Dispatch, MarkDispatched, FinishFailed,
              FinishReady, SendCallback, Acknowledge
<1>5. ASSUME Restart \/ Expire \/ Fault PROVE UNCHANGED pending_requests
  BY <1>5, SparedSteps DEF Ground, Restart, BrokerStart, Expire, PrintStats, GrowLate, Fault, BrokerCrash
<1>6. CASE UNCHANGED vars
  BY <1>6 DEF vars, brokerVars
<1>7. QED
  BY <1>1, <1>2, <1>3, <1>4, <1>5, <1>6 DEF Next, Broker, BrokerStep

\* A job that is dispatched from the list goes to the worker that was heard of, if
\* it has not left.
LEMMA TakenArrives ==
    ASSUME Typing, Ground, [Next]_vars, pc["response"] # "mark_pending", pc'["response"] = "mark_pending"
    PROVE  /\ broker_up /\ UNCHANGED <<pending_requests, response_queue>>
           /\ Taken' # {}
           /\ \A i \in Taken' :
                 /\ i \in DOMAIN pending_requests
                 /\ \E w \in Workers : /\ TypeOf[w] = pending_requests[i].feature
                                       /\ \/ wstate'[w] = "gone"
                                          \/ pending_requests[i] \in Elements(worker_queue'[w])
<1>0. pc \in [Handlers -> PCs] /\ "response" \in Handlers /\ DOMAIN pending_requests \subseteq Nat
  BY QueueTypes DEF Handlers
<1>. DEFINE w == Answered.worker
            P == PendingFor(TypeOf[w])
<1>1. DeliverStartup \/ PendingAfterAnswer
  <2>1. ~ BrokerCrash
    BY <1>0 DEF BrokerCrash
  <2>2. ~ DispatchNextFeature("response") /\ ~ Acknowledge("response")
    BY <1>0 DEF DispatchNextFeature, ReadFeatures, Defer, Dispatch, MarkDispatched, FinishFailed,
              FinishReady, SendCallback, Acknowledge, Goto
  <2>3. HandleResponse
    BY <1>0, <2>1, <2>2, OwnStep DEF StepOf
  <2>4. QED
    BY <1>0, <2>3 DEF HandleResponse, DeliverHeartbeat, DeliverShutdown, HandledAtOnce, DeliverAnswer,
              FeatureFailed, TaskFailed, FeatureReady, MarkPending, Goto
<1>2. response_queue # <<>> /\ broker_up /\ UNCHANGED <<pending_requests, response_queue>> /\ w \in Workers
  BY <1>1, InProgress DEF DeliverStartup, PendingAfterAnswer, DeliverResponse, KeepQueues, At, Typing, InFlight, InFlightAt
<1>3. \E R : DispatchPending(w, R, "ack") \/ DispatchPending(w, R, "read")
  BY <1>1 DEF DeliverStartup, PendingAfterAnswer
<1>4. PICK i \in FirstOf(P) : PublishJob(w, pending_requests[i])
  <2>1. \A R : \A i \in FirstOf({j \in P : \E v \in R : TypeOf[v] = TypeOf[w]}) : i \in FirstOf(P)
    BY DEF FirstOf
  <2>2. QED
    BY <1>0, <1>3, <2>1 DEF DispatchPending, Goto
<1>5. Taken' = {i}
  <2>1. \A j \in FirstOf(P) : j = i
    BY <1>0, <1>4 DEF FirstOf, PendingFor
  <2>2. FirstOf(PendingFor(TypeOf[Answered.worker]))' = FirstOf(P)
    BY <1>2 DEF PendingFor, FirstOf, Answered
  <2>3. QED
    BY <1>4, <2>1, <2>2 DEF Taken
<1>6. i \in DOMAIN pending_requests /\ pending_requests[i] \in Job /\ pending_requests[i].feature = TypeOf[w]
  BY <1>4, QueueTypes DEF FirstOf, PendingFor
<1>7. pending_requests[i] \in Elements(worker_queue'[w]) \/ wstate'[w] = "gone"
  BY <1>2, <1>4, <1>6, PublishedToKnown, JobArrives, GoneForGood
<1>8. QED
  BY <1>2, <1>5, <1>6, <1>7

\* Whoever waits for the mark of a dispatch from the list finds the entry there.
LEMMA TakenKept ==
    ASSUME Typing, Ground, [Next]_vars, pc["response"] = "mark_pending", pc'["response"] = "mark_pending"
    PROVE  /\ broker_up /\ broker_up'
           /\ Taken' = Taken
           /\ UNCHANGED pending_requests \/ \E h \in Handlers : Defer(h)
<1>0. /\ pc \in [Handlers -> PCs] /\ "response" \in Handlers
      /\ pending_requests \in Seq(Job) /\ DOMAIN pending_requests = 1..Len(pending_requests)
      /\ DownIsIdle'
  BY QueueTypes, DownIsIdleStep DEF Handlers, Ground
<1>1. broker_up /\ broker_up'
  BY <1>0 DEF Ground, DownIsIdle
<1>2. Answered' = Answered
  BY HeadsKept DEF Typing, InFlight, InFlightAt, Answered
<1>3. ~ MarkPending
  BY <1>0 DEF MarkPending, Goto
<1>. DEFINE P == PendingFor(TypeOf[Answered.worker])
<1>4. CASE UNCHANGED pending_requests
  BY <1>1, <1>2, <1>4 DEF Taken, PendingFor, FirstOf
<1>5. ASSUME NEW h \in Handlers, Defer(h) PROVE Taken' = Taken
  <2>1. PICK f \in view[h].waiting : pending_requests' = Append(pending_requests, NextJob(h, f))
    BY <1>5 DEF Defer, FirstOf
  <2>2. NextJob(h, f) \in Job
    BY <1>5, NextJobTyped DEF Defer, At
  <2>3. P' \subseteq P \cup {Len(pending_requests) + 1} /\ P \subseteq P' /\ P \subseteq 1..Len(pending_requests)
    BY <1>0, <1>2, <2>1, <2>2 DEF PendingFor
  <2>4. Len(pending_requests) \in Nat
    BY <1>0
  <2>5. FirstOf(P) # {}
    BY DEF Ground, EntryTaken, Taken
  <2>6. FirstOf(P') = FirstOf(P)
    BY <2>3, <2>4, <2>5 DEF FirstOf
  <2>7. QED
    BY <2>6 DEF Taken, FirstOf
<1>6. QED
  BY <1>1, <1>3, <1>4, <1>5, PendingKept

\* The entry that is being dispatched stays on the list until it is marked.
LEMMA EntryTakenStep ==
    ASSUME Typing, Ground, [Next]_vars
    PROVE  EntryTaken'
<1>1. CASE pc["response"] = "mark_pending"
  BY <1>1, TakenKept DEF EntryTaken, Ground
<1>2. CASE pc["response"] # "mark_pending"
  BY <1>2, TakenArrives DEF EntryTaken
<1>3. QED
  BY <1>1, <1>2

\* What keeps running, keeps running.
LEMMA GroundStep ==
    ASSUME Typing, RowsExist, Ground, [Next]_vars
    PROVE  Ground'
BY SparedSteps, WorkersKnownStep, FilesStayStep, DownIsIdleStep, EntryTakenStep DEF Ground

\* A job that is deferred is listed.
LEMMA DeferLists ==
    ASSUME Typing, Ground, [Next]_vars, NEW h \in Handlers, Defer(h), NEW t \in Tasks, TaskOf(h) = t
    PROVE  Listed(t)'
<1>0. /\ pc \in [Handlers -> PCs] /\ "response" \in Handlers /\ pc[h] = "decide" /\ pc' = [pc EXCEPT ![h] = "ack"]
      /\ pending_requests \in Seq(Job) /\ DOMAIN pending_requests = 1..Len(pending_requests)
      /\ Len(pending_requests) \in Nat
  BY QueueTypes DEF Handlers, Defer, At, Goto
<1>1. PICK f \in view[h].waiting : pending_requests' = Append(pending_requests, NextJob(h, f))
  BY DEF Defer, FirstOf
<1>2. NextJob(h, f) \in Job /\ NextJob(h, f).task = t
  BY <1>0, NextJobTyped DEF NextJob
<1>3. /\ Len(pending_requests) + 1 \in DOMAIN pending_requests'
      /\ pending_requests'[Len(pending_requests) + 1].task = t
  BY <1>0, <1>1, <1>2
<1>4. Len(pending_requests) + 1 \notin Taken'
  <2>1. Taken \subseteq DOMAIN pending_requests
    BY DEF Taken, FirstOf, PendingFor
  <2>2. pc["response"] # "mark_pending" => Taken' = {}
    BY <1>0 DEF Taken
  <2>3. pc["response"] = "mark_pending" => Taken' = Taken
    BY <1>0, TakenKept
  <2>4. QED
    BY <1>0, <2>1, <2>2, <2>3
<1>5. QED
  BY <1>0, <1>3, <1>4 DEF Listed

\* A listed job stays listed until it is dispatched to a worker, gone or not.
LEMMA ListedStep ==
    ASSUME Typing, Ground, [Next]_vars, broker_up, broker_up', NEW t \in Tasks, Listed(t)
    PROVE  \/ Listed(t)' \/ LostWith(t)
           \/ \E w \in Workers : \E job \in Elements(worker_queue'[w]) : job.task = t
<1>0. pc \in [Handlers -> PCs] /\ pending_requests \in Seq(Job) /\ DOMAIN pending_requests = 1..Len(pending_requests)
  BY QueueTypes
<1>1. PICK i \in DOMAIN pending_requests \ Taken : pending_requests[i].task = t
  BY DEF Listed
<1>2. CASE MarkPending
  <2>1. PICK k \in FirstOf(PendingFor(TypeOf[Answered.worker])) :
            pending_requests' = SubSeq(pending_requests, 1, k - 1)
                                   \o SubSeq(pending_requests, k + 1, Len(pending_requests))
    BY <1>2 DEF MarkPending
  <2>2. k \in Taken /\ k \in DOMAIN pending_requests
    BY <1>2, <2>1 DEF MarkPending, At, Taken, FirstOf, PendingFor
  <2>3. \E j \in DOMAIN pending_requests' : pending_requests'[j] = pending_requests[i]
    BY <1>0, <1>1, <2>1, <2>2, RemoveKeeps
  <2>4. pc'["response"] # "mark_pending"
    BY <1>0, <1>2 DEF MarkPending, Goto, Handlers
  <2>5. Taken' = {}
    BY <2>4 DEF Taken
  <2>6. QED
    BY <1>1, <2>3, <2>5 DEF Listed
<1>3. ASSUME ~ MarkPending
      PROVE  /\ i \in DOMAIN pending_requests' /\ pending_requests'[i].task = t
  <2>1. ASSUME NEW h \in Handlers, Defer(h)
        PROVE  \E job \in Job : pending_requests' = Append(pending_requests, job)
    <3>1. PICK f \in view[h].waiting : pending_requests' = Append(pending_requests, NextJob(h, f))
      BY <2>1 DEF Defer, FirstOf
    <3>2. QED
      BY <2>1, <3>1, NextJobTyped DEF Defer, At
  <2>2. ASSUME NEW job \in Job, pending_requests' = Append(pending_requests, job)
        PROVE  i \in DOMAIN pending_requests' /\ pending_requests'[i].task = t
    BY <1>0, <1>1, <2>2
  <2>3. QED
    BY <1>1, <1>3, <2>1, <2>2, PendingKept
<1>4. CASE pc["response"] # "mark_pending" /\ pc'["response"] = "mark_pending"
  <2>1. CASE i \in Taken'
    <3>1. PICK w \in Workers : /\ TypeOf[w] = pending_requests[i].feature
                               /\ \/ wstate'[w] = "gone"
                                  \/ pending_requests[i] \in Elements(worker_queue'[w])
      BY <1>4, <2>1, TakenArrives
    <3>2. wstate'[w] = "gone" => LostWith(t)
      BY <1>1, <2>1, <3>1 DEF LostWith
    <3>3. QED
      BY <1>1, <3>1, <3>2
  <2>2. CASE i \notin Taken'
    BY <1>1, <1>4, <2>2, TakenArrives DEF Listed
  <2>3. QED
    BY <2>1, <2>2
<1>5. CASE pc["response"] = "mark_pending" /\ pc'["response"] = "mark_pending"
  <2>1. ~ MarkPending
    BY <1>0, <1>5 DEF MarkPending, Goto, Handlers
  <2>2. QED
    BY <1>1, <1>3, <1>5, <2>1, TakenKept DEF Listed
<1>6. CASE pc'["response"] # "mark_pending"
  <2>1. Taken' = {}
    BY <1>6 DEF Taken
  <2>2. QED
    BY <1>2, <1>3, <2>1 DEF Listed
<1>7. QED
  BY <1>4, <1>5, <1>6

-----------------------------------------------------------------------------
(* Marks                                                                   *)

\* How a feature leaves WAITING: its answer is stored, or its dispatch is marked.
LEMMA WaitingLeft ==
    ASSUME Typing, RowsExist, [Next]_vars, NEW t \in Tasks, NEW f \in Waiting(t), f \notin Waiting(t)'
    PROVE  /\ UNCHANGED <<request_queue, response_queue, worker_queue>>
           /\ \/ /\ pc["response"] \in {"feature_ready", "feature_failed"} /\ TaskOf("response") = t
                 /\ pc' = [pc EXCEPT !["response"] = IF pc["response"] = "feature_ready" THEN "pending" ELSE "task_failed"]
              \/ \E h \in Handlers : MarkDue(h, t, f)
<1>0. featStatus[t][f] = "WAITING" /\ StoreTypeOK /\ f \in Features
  BY DEF Waiting, WithStatus, Typing, TypeOK
<1>1. featStatus'[t][f] # "WAITING"
  BY <1>0 DEF Waiting, WithStatus
<1>2. CASE FeatureFailed \/ FeatureReady
  BY <1>0, <1>1, <1>2 DEF FeatureFailed, FeatureReady, UpdateFeature, At, Goto, TaskOf, queueVars, StoreTypeOK
<1>3. CASE MarkPending
  <2>1. PICK i \in FirstOf(PendingFor(TypeOf[Answered.worker])) :
            UpdateFeature(pending_requests[i].task, pending_requests[i].feature, "PROCESSING", None)
    BY <1>3 DEF MarkPending
  <2>2. pending_requests[i].task = t /\ pending_requests[i].feature = f
    BY <1>0, <1>1, <2>1 DEF UpdateFeature, StoreTypeOK
  <2>3. i \in Taken
    BY <1>3, <2>1 DEF Taken, MarkPending, At, FirstOf
  <2>4. QED
    BY <1>3, <2>2, <2>3 DEF MarkDue, Handlers, MarkPending, queueVars
<1>4. ASSUME NEW h \in Handlers, MarkDispatched(h)
      PROVE  MarkDue(h, t, f) /\ UNCHANGED queueVars
  <2>1. PICK g \in FirstOf(view[h].waiting) : UpdateFeature(TaskOf(h), g, "PROCESSING", None)
    BY <1>4 DEF MarkDispatched
  <2>2. TaskOf(h) = t /\ g = f
    BY <1>0, <1>1, <2>1 DEF UpdateFeature, StoreTypeOK
  <2>3. QED
    BY <1>4, <2>1, <2>2 DEF MarkDispatched, At, MarkDue
<1>5. ASSUME NEW u \in Tasks, InsertSubmission(u) PROVE FALSE
  <2>1. t \in Rows
    BY <1>0 DEF RowsExist, Requested
  <2>2. QED
    BY <1>0, <1>1, <1>5, <2>1 DEF InsertSubmission, InsertTask, Rows, StoreTypeOK
<1>6. ASSUME UNCHANGED featStatus PROVE FALSE
  BY <1>0, <1>1, <1>6
<1>7. AcceptRequest \/ TaskFailed \/ (\E h \in Handlers : FinishFailed(h) \/ FinishReady(h)) => UNCHANGED featStatus
  BY DEF AcceptRequest, TaskFailed, FinishFailed, FinishReady, UpdateTask
<1>8. QED
  BY <1>2, <1>3, <1>4, <1>5, <1>6, <1>7, StoreFrame DEF StoreStep, storeVars, queueVars

\* A job or answer on its way carries its task, unless the answer is the one being
\* handled and not counted.
LEMMA ComingCarries ==
    ASSUME NEW t \in Tasks, NEW f, NEW X \in SUBSET Handlers, Coming(t, f),
           "response" \in X => pc["response"] \notin {"idle", "feature_ready", "feature_failed"},
           Typing
    PROVE  Carried(t, X)
<1>1. PICK w \in Workers : \/ \E job \in Elements(worker_queue[w]) : job.task = t
                           \/ \E m \in Unstored : m.task = t /\ m.worker = w
  BY DEF Coming
<1>2. ASSUME NEW m \in Unstored PROVE m \in Remaining(response_queue, "response" \in X)
  <2>1. pc["response"] # "idle" => response_queue # <<>> /\ response_queue \in Seq(Response)
    BY QueueTypes DEF Typing, InFlight, InFlightAt
  <2>2. CASE pc["response"] \notin {"idle", "feature_ready", "feature_failed"}
    BY <1>2, <2>1, <2>2, HeadTailFacts DEF Unstored, Remaining
  <2>3. CASE pc["response"] \in {"idle", "feature_ready", "feature_failed"}
    BY <1>2, <2>3 DEF Unstored, Remaining
  <2>4. QED
    BY <2>2, <2>3
<1>3. QED
  BY <1>1, <1>2 DEF Carried

\* It stays on its way until the answer is stored.
LEMMA ComingStep ==
    ASSUME Typing, RowsExist, Ground, NobodyLeaves, [Next]_vars, NEW t \in Tasks, NEW f \in Features,
           featStatus'[t][f] = "WAITING", Coming(t, f)
    PROVE  Coming(t, f)'
<1>. DEFINE Open == {"idle", "feature_ready", "feature_failed"}
<1>0. response_queue \in Seq(Response) /\ pc \in [Handlers -> PCs] /\ "response" \in Handlers /\ StoreTypeOK
  BY QueueTypes DEF Handlers, Typing, TypeOK
<1>1. PICK w \in Workers : TypeOf[w] = f /\ \/ \E job \in Elements(worker_queue[w]) : job.task = t
                                            \/ \E m \in Unstored : m.task = t /\ m.worker = w
  BY DEF Coming
<1>2. PICK before \in BOOLEAN, after \in BOOLEAN :
          (before <=> pc["response"] \notin Open) /\ (after <=> pc'["response"] \notin Open)
  BY Zenon
<1>3. before => response_queue # <<>>
  BY <1>2 DEF Typing, InFlight, InFlightAt
<1>. DEFINE Answers == \E m \in Remaining(response_queue', after) : m.task = t /\ m.worker = w
<1>4. Answers => Coming(t, f)'
  BY <1>1, <1>2 DEF Coming, Unstored
<1>5. ASSUME NEW job \in Elements(worker_queue[w]), job.task = t PROVE Coming(t, f)'
  <2>1. CASE job \in Elements(worker_queue'[w])
    BY <1>1, <1>5, <2>1 DEF Coming
  <2>2. ASSUME UNCHANGED pc, NEW m \in Response, m.worker = w, m.task = job.task,
               response_queue' = Append(response_queue, m)
        PROVE  Answers
    <3>1. m \in Remaining(response_queue', after)
      BY <1>2, <1>3, <2>2, AnswersStay
    <3>2. QED
      BY <1>5, <2>2, <3>1
  <2>3. QED
    BY <1>4, <2>1, <2>2, JobsStay, NoneLost DEF Ground
<1>6. ASSUME NEW m \in Remaining(response_queue, before), m.task = t, m.worker = w PROVE Coming(t, f)'
  <2>1. m \in Response
    BY <1>0, <1>3, <1>6, RemainingFacts
  <2>2. m \in Remaining(response_queue', after) \/ (~ before /\ after /\ m = Answered)
    BY <1>2, <1>6, <2>1, AnswersStay, StatusOfNoTask
  <2>3. ASSUME ~ before, after, m = Answered PROVE FALSE
    <3>1. pc["response"] \in Open /\ pc'["response"] \notin Open
      BY <1>2, <2>3
    <3>2. ~ DispatchNextFeature("response") /\ ~ Acknowledge("response") /\ ~ BrokerCrash
      BY <1>0, <3>1 DEF DispatchNextFeature, ReadFeatures, Defer, Dispatch, MarkDispatched, FinishFailed,
                FinishReady, SendCallback, Acknowledge, BrokerCrash, At
    <3>3. HandleResponse
      BY <1>0, <3>1, <3>2, OwnStep DEF StepOf
    <3>4. FeatureReady \/ FeatureFailed \/ DeliverStartup
      BY <1>0, <3>1, <3>3 DEF HandleResponse, DeliverHeartbeat, DeliverShutdown, HandledAtOnce, DeliverAnswer,
                DeliverResponse, TaskFailed, PendingAfterAnswer, MarkPending, Goto, At
    <3>5. ~ DeliverStartup
      BY <1>6, <2>1, <2>3, StatusOfNoTask DEF DeliverStartup, DeliverResponse, StatusMessages
    <3>6. QED
      BY <1>0, <1>1, <1>6, <2>3, <3>4, <3>5 DEF FeatureReady, FeatureFailed, UpdateFeature, StoreTypeOK
  <2>4. QED
    BY <1>4, <1>6, <2>2, <2>3
<1>7. QED
  BY <1>1, <1>2, <1>5, <1>6 DEF Unstored

\* Whoever is to mark a dispatch has published the job.
LEMMA MarkDueStep ==
    ASSUME Typing, RowsExist, Ground, NobodyLeaves, [Next]_vars, NEW h \in Handlers, NEW t \in Tasks, NEW f \in Features,
           MarkDue(h, t, f)'
    PROVE  t \in Rows /\ (MarkDue(h, t, f) \/ Coming(t, f)')
<1>0. pc \in [Handlers -> PCs] /\ "response" \in Handlers
  BY QueueTypes DEF Handlers
<1>1. ASSUME pc'[h] = "mark", TaskOf(h)' = t, (f \in FirstOf(view[h].waiting))'
      PROVE  t \in Rows /\ (MarkDue(h, t, f) \/ Coming(t, f)')
  <2>1. pc[h] = "mark" \/ Dispatch(h)
    <3>1. CASE pc[h] # "mark"
      <4>1. ~ BrokerCrash
        BY <1>1 DEF BrokerCrash
      <4>2. StepOf(h)
        BY <1>1, <3>1, <4>1, OwnStep
      <4>3. ~ HandleRequest /\ ~ Acknowledge(h) /\ ~ (h = "response" /\ HandleResponse /\ ~ PendingAfterAnswer /\ ~ DeliverStartup)
        BY <1>0, <1>1, <3>1 DEF HandleRequest, DeliverRequest, AcceptRequest, Acknowledge, HandleResponse,
                  DeliverHeartbeat, DeliverShutdown, HandledAtOnce, DeliverAnswer,
                  FeatureFailed, TaskFailed, FeatureReady, MarkPending, Goto, Handlers
      <4>4. ~ (h = "response" /\ (PendingAfterAnswer \/ DeliverStartup))
        BY <1>0, <1>1 DEF PendingAfterAnswer, DeliverStartup, DispatchPending, Goto
      <4>5. DispatchNextFeature(h)
        BY <4>2, <4>3, <4>4 DEF StepOf
      <4>6. QED
        BY <1>0, <1>1, <3>1, <4>5 DEF DispatchNextFeature, ReadFeatures, Defer, MarkDispatched, FinishFailed,
                  FinishReady, SendCallback, Goto
    <3>2. QED
      BY <3>1
  <2>2. pc[h] \in {"mark", "decide"} /\ TaskOf(h) = t
    <3>1. pc[h] \in {"mark", "decide"}
      BY <2>1 DEF Dispatch, At
    <3>2. QED
      BY <1>1, <3>1, TaskOfKept
  <2>3. t \in Rows
    BY <2>2, InProgressHasRow
  <2>4. view'[h] = view[h]
    <3>1. \A k \in Handlers : view \in [Handlers -> FeaturesView]
      BY DEF Typing, TypeOK, BrokerTypeOK
    <3>2. QED
      BY <1>0, <1>1, <2>2, <3>1, ViewEffect DEF Goto
  <2>5. CASE Dispatch(h)
    BY <1>1, <2>2, <2>3, <2>4, <2>5, DispatchArrives, NoneLost DEF Coming, FirstOf
  <2>6. CASE pc[h] = "mark"
    BY <1>1, <2>2, <2>3, <2>4, <2>6 DEF MarkDue, FirstOf
  <2>7. QED
    BY <2>1, <2>3, <2>5, <2>6
<1>2. ASSUME h = "response", NEW i \in Taken', (pending_requests[i].task = t /\ pending_requests[i].feature = f)'
      PROVE  t \in Rows /\ (MarkDue(h, t, f) \/ Coming(t, f)')
  <2>1. pc'["response"] = "mark_pending"
    BY <1>2 DEF Taken
  <2>2. i \in DOMAIN pending_requests /\ pending_requests'[i] = pending_requests[i]
    <3>1. CASE pc["response"] # "mark_pending"
      BY <1>2, <2>1, <3>1, TakenArrives
    <3>2. CASE pc["response"] = "mark_pending"
      <4>1. i \in Taken /\ (UNCHANGED pending_requests \/ \E k \in Handlers : Defer(k))
        BY <1>2, <2>1, <3>2, TakenKept
      <4>2. i \in DOMAIN pending_requests /\ pending_requests \in Seq(Job)
        BY <4>1, QueueTypes DEF Taken, FirstOf, PendingFor
      <4>3. ASSUME NEW k \in Handlers, Defer(k) PROVE pending_requests'[i] = pending_requests[i]
        <5>1. PICK g \in view[k].waiting : pending_requests' = Append(pending_requests, NextJob(k, g))
          BY <4>3 DEF Defer, FirstOf
        <5>2. NextJob(k, g) \in Job
          BY <4>3, NextJobTyped DEF Defer, At
        <5>3. QED
          BY <4>2, <5>1, <5>2
      <4>4. QED
        BY <4>1, <4>2, <4>3
    <3>3. QED
      BY <3>1, <3>2
  <2>3. t \in Rows
    BY <1>2, <2>2 DEF RowsExist, Elements
  <2>4. CASE pc["response"] # "mark_pending"
    BY <1>2, <2>1, <2>2, <2>3, <2>4, TakenArrives, NoneLost DEF Coming
  <2>5. CASE pc["response"] = "mark_pending"
    <3>1. i \in Taken
      BY <1>2, <2>1, <2>5, TakenKept
    <3>2. QED
      BY <1>2, <2>2, <2>3, <3>1 DEF MarkDue
  <2>6. QED
    BY <2>3, <2>4, <2>5
<1>3. QED
  BY <1>1, <1>2 DEF MarkDue

\* A mark takes a feature out of WAITING only while its job or answer is on the way.
LEMMA MarksInTimeStep ==
    ASSUME Typing, RowsExist, Ground, NobodyLeaves, MarksInTime, [Next]_vars
    PROVE  MarksInTime'
<1>. SUFFICES ASSUME NEW h \in Handlers, NEW t \in Tasks, NEW f \in Features,
                     MarkDue(h, t, f)', featStatus'[t][f] = "WAITING"
              PROVE  Coming(t, f)'
  BY DEF MarksInTime
<1>1. t \in Rows /\ (MarkDue(h, t, f) \/ Coming(t, f)')
  BY MarkDueStep
<1>2. featStatus[t][f] = "WAITING"
  BY <1>1, NoNewWaiting DEF Waiting, WithStatus
<1>3. QED
  BY <1>1, <1>2, ComingStep DEF MarksInTime

-----------------------------------------------------------------------------
(* Outdated snapshots                                                      *)

\* A handler that read the features after the last mark decides on what they are.
LEMMA OneIsCurrentStep ==
    ASSUME Typing, RowsExist, Ground, OneIsCurrent, [Next]_vars
    PROVE  OneIsCurrent'
<1>. SUFFICES ASSUME \A h \in Handlers : pc'[h] = "decide", TaskOf("request")' = TaskOf("response")'
              PROVE  \E h \in Handlers : view'[h].waiting = Waiting(TaskOf(h))'
  BY DEF OneIsCurrent
<1>0. \A h \in Handlers : \/ pc[h] = "decide" /\ view'[h] = view[h]
                          \/ /\ pc[h] = "read" /\ view'[h] = FeaturesOf(TaskOf(h))
                             /\ UNCHANGED <<storeVars, request_queue, response_queue>>
  BY SnapshotTaken
<1>1. ASSUME NEW h \in Handlers, pc[h] = "read" PROVE view'[h].waiting = Waiting(TaskOf(h))'
  <2>1. view'[h] = FeaturesOf(TaskOf(h)) /\ UNCHANGED <<storeVars, request_queue, response_queue>>
    BY <1>0, <1>1
  <2>2. Waiting(TaskOf(h))' = Waiting(TaskOf(h))
    BY <2>1 DEF Waiting, WithStatus, storeVars, TaskOf, Answered
  <2>3. QED
    BY <2>1, <2>2 DEF FeaturesOf, Waiting
<1>2. ASSUME \A h \in Handlers : pc[h] = "decide" PROVE \E h \in Handlers : view'[h].waiting = Waiting(TaskOf(h))'
  <2>1. \A h \in Handlers : view'[h] = view[h] /\ TaskOf(h)' = TaskOf(h) /\ TaskOf(h) \in Rows
    BY <1>0, <1>2, TaskOfKept, InProgressHasRow
  <2>2. PICK h \in Handlers : view[h].waiting = Waiting(TaskOf(h))
    BY <1>2, <2>1 DEF OneIsCurrent, Handlers
  <2>3. PICK t \in Rows : t = TaskOf(h)
    BY <2>1
  <2>4. t \in Tasks /\ Waiting(t)' \subseteq Waiting(t)
    BY NoNewWaiting DEF Rows
  <2>5. ASSUME NEW f \in Waiting(t) PROVE f \in Waiting(t)'
    BY <1>2, <2>4, <2>5, WaitingLeft DEF MarkDue, Taken, Handlers
  <2>6. Waiting(TaskOf(h))' = Waiting(TaskOf(h))
    BY <2>1, <2>3, <2>4, <2>5
  <2>7. QED
    BY <2>1, <2>2, <2>6
<1>3. QED
  BY <1>0, <1>1, <1>2

\* A settled task is only taken up again with another request for it.
LEMMA TakenUpAgain ==
    ASSUME Typing, [Next]_vars, NEW t \in Tasks, Settled(t), ~ Settled(t)'
    PROVE  AcceptRequest /\ TaskOf("request") = t
<1>0. taskStatus \in [Tasks -> TaskStatuses] /\ taskStatus'[t] # taskStatus[t]
  BY DEF Typing, TypeOK, StoreTypeOK, Settled
<1>1. ~ \E u \in Tasks : InsertSubmission(u)
  BY <1>0 DEF InsertSubmission, InsertTask, HasRow, Settled
<1>2. ~ (FeatureFailed \/ FeatureReady \/ MarkPending \/ \E h \in Handlers : MarkDispatched(h))
  BY <1>0 DEF FeatureFailed, FeatureReady, MarkPending, MarkDispatched, UpdateFeature
<1>3. ~ (TaskFailed \/ \E h \in Handlers : FinishFailed(h) \/ FinishReady(h))
  BY <1>0 DEF TaskFailed, FinishFailed, FinishReady, UpdateTask, Settled
<1>4. AcceptRequest
  BY <1>0, <1>1, <1>2, <1>3, StoreFrame DEF StoreStep, storeVars
<1>5. QED
  BY <1>0, <1>4 DEF AcceptRequest, UpdateTask

\* A task is owed a step from the moment on its request is published.
LEMMA NewlyOwed ==
    ASSUME Typing, [Next]_vars, NEW t \in Tasks, ~ Owed(t), Owed(t)',
           NEW Y \in SUBSET Handlers, \A h \in Y : pc'[h] \notin {"idle", "read"}
    PROVE  Carried(t, Y)'
<1>0. /\ request_queue \in Seq(Tasks) /\ pc \in [Handlers -> PCs] /\ "request" \in Handlers
      /\ submission \in [Tasks -> Submissions]
  BY QueueTypes DEF Handlers, Typing, TypeOK, ApiTypeOK
<1>1. CASE submission[t] = "accepted"
  <2>1. AcceptRequest /\ TaskOf("request") = t
    BY <1>1, TakenUpAgain DEF Owed
  <2>2. request_queue # <<>> /\ request_queue' = request_queue /\ "request" \notin Y
    BY <1>0, <2>1 DEF AcceptRequest, At, Goto, Typing, InFlight, InFlightAt, queueVars
  <2>3. t \in Remaining(request_queue', "request" \in Y)
    BY <1>0, <2>1, <2>2, HeadTailFacts DEF Remaining, TaskOf
  <2>4. QED
    BY <2>3 DEF Carried
<1>2. CASE submission[t] # "accepted"
  <2>1. submission'[t] = "accepted"
    BY DEF Owed
  <2>2. ASSUME NEW u \in Tasks, Api(u) PROVE UNCHANGED pc /\ request_queue' = Append(request_queue, t)
    BY <1>0, <1>2, <2>1, <2>2 DEF Api, ApiStep, StoreAudio, InsertSubmission, PublishTask, PublishFails, Advance, brokerVars
  <2>3. ASSUME NEW w \in Workers, Begin(w) \/ Beat(w) \/ Work(w) \/ Leave(w) PROVE UNCHANGED submission
    BY <2>3 DEF Begin, Beat, Work, Leave, apiVars
  <2>4. Broker \/ Restart \/ Expire \/ Fault \/ UNCHANGED vars => UNCHANGED submission
    BY DEF Broker, Restart, Expire, Fault, DeleteAudio, apiVars, vars
  <2>5. UNCHANGED pc /\ request_queue' = Append(request_queue, t)
    BY <1>2, <2>1, <2>2, <2>3, <2>4 DEF Next
  <2>6. PICK hidden \in BOOLEAN : hidden <=> "request" \in Y
    BY Zenon
  <2>7. hidden => request_queue # <<>>
    BY <2>5, <2>6 DEF Typing, InFlight, InFlightAt
  <2>8. t \in Remaining(request_queue', hidden)
    BY <1>0, <2>5, <2>7, RemainingFacts
  <2>9. QED
    BY <2>6, <2>8 DEF Carried
<1>3. QED
  BY <1>1, <1>2

\* A handler with an outdated snapshot does not hold the only message of its task.
LEMMA OutdatedNotAloneStep ==
    ASSUME Typing, RecoveryInv, [Next]_vars
    PROVE  OutdatedNotAlone'
<1>. SUFFICES ASSUME NEW h \in Handlers, Outdated(h)', Owed(TaskOf(h))'
              PROVE  Carried(TaskOf(h), Passing \cup {h})'
  BY DEF OutdatedNotAlone
<1>0. RowsExist /\ Ground /\ NobodyLeaves /\ MarksInTime /\ OneIsCurrent /\ OutdatedNotAlone
  BY DEF RecoveryInv
<1>1. pc'[h] = "decide" /\ view'[h].waiting # {} /\ Waiting(TaskOf(h))' = {}
  BY DEF Outdated
<1>2. pc[h] = "decide" /\ view'[h] = view[h]
  <2>1. ASSUME view'[h] = FeaturesOf(TaskOf(h)), UNCHANGED <<storeVars, request_queue, response_queue>> PROVE FALSE
    <3>1. Waiting(TaskOf(h))' = Waiting(TaskOf(h))
      BY <2>1 DEF Waiting, WithStatus, storeVars, TaskOf, Answered
    <3>2. QED
      BY <1>1, <2>1, <3>1 DEF FeaturesOf, Waiting
  <2>2. QED
    BY <1>1, <2>1, SnapshotTaken
<1>3. PICK t \in Tasks : t = TaskOf(h)
  BY <1>2, InProgress
<1>4. TaskOf(h)' = t
  BY <1>1, <1>2, <1>3, TaskOfKept
<1>5. PICK X \in SUBSET Handlers, Y \in SUBSET Handlers : X = Passing \cup {h} /\ Y = Passing' \cup {h}
  <2>1. Passing \cup {h} \in SUBSET Handlers /\ Passing' \cup {h} \in SUBSET Handlers
    BY DEF Passing
  <2>2. QED
    BY <2>1
<1>6. /\ Passing \subseteq X /\ Y \subseteq X \cup Passing'
      /\ \A k \in X : pc[k] # "idle"
      /\ \A k \in Y : pc'[k] \notin {"idle", "read"}
      /\ h \in X
  BY <1>1, <1>2, <1>5 DEF Passing, PassedOn
<1>7. Owed(t)' /\ Waiting(t)' = {} /\ Outdated(h)'
  BY <1>1, <1>4
<1>8. ASSUME Owed(t) PROVE Carried(t, X) /\ \A k \in Handlers \ X : ~ (Defer(k) /\ TaskOf(k) = t)
  <2>1. CASE Waiting(t) = {}
    <3>1. Carried(t, X)
      BY <1>0, <1>1, <1>2, <1>3, <1>5, <1>8, <2>1 DEF OutdatedNotAlone, Outdated
    <3>2. ASSUME NEW k \in Handlers \ X, Defer(k), TaskOf(k) = t PROVE FALSE
      <4>1. pc[k] = "decide" /\ view[k].waiting # {} /\ k # h
        BY <1>6, <3>2 DEF Defer, At, FirstOf
      <4>2. /\ \A j \in Handlers : j \in {k, h} /\ pc[j] = "decide" /\ TaskOf(j) = t
            /\ TaskOf("request") = TaskOf("response")
        BY <1>2, <1>3, <3>2, <4>1 DEF Handlers
      <4>3. PICK j \in Handlers : view[j].waiting = Waiting(TaskOf(j))
        BY <1>0, <4>2 DEF OneIsCurrent
      <4>4. QED
        BY <1>1, <1>2, <2>1, <4>1, <4>2, <4>3
    <3>3. QED
      BY <3>1, <3>2
  <2>2. CASE Waiting(t) # {}
    <3>1. PICK f \in Waiting(t) : f \notin Waiting(t)'
      BY <1>7, <2>2
    <3>2. \A k \in Handlers : ~ Defer(k)
      BY <3>1 DEF Defer, Waiting, WithStatus, storeVars
    <3>3. ASSUME pc["response"] \in {"feature_ready", "feature_failed"}, TaskOf("response") = t PROVE Carried(t, X)
      <4>1. "response" \notin X
        BY <1>2, <1>5, <3>3 DEF Passing, PassedOn
      <4>2. QED
        BY <1>6, <3>3, <4>1, HandlerCarries DEF Handlers
    <3>4. ASSUME NEW k \in Handlers, MarkDue(k, t, f) PROVE Carried(t, X)
      <4>1. f \in Features /\ featStatus[t][f] = "WAITING"
        BY <3>1 DEF Waiting, WithStatus
      <4>2. Coming(t, f)
        BY <1>0, <3>4, <4>1 DEF MarksInTime
      <4>3. "response" \in X => pc["response"] \notin {"idle", "feature_ready", "feature_failed"}
        BY <1>2, <1>5 DEF Passing, PassedOn
      <4>4. QED
        BY <1>6, <4>2, <4>3, ComingCarries
    <3>5. QED
      BY <1>0, <3>1, <3>2, <3>3, <3>4, WaitingLeft
  <2>3. QED
    BY <2>1, <2>2
<1>9. Carried(t, Y)'
  <2>1. CASE Owed(t)
    <3>1. ~ Settled(t)'
      BY <1>7 DEF Owed
    <3>2. QED
      BY <1>0, <1>6, <1>8, <2>1, <3>1, HandOn, NoneLost
  <2>2. CASE ~ Owed(t)
    BY <1>6, <1>7, <2>2, NewlyOwed
  <2>3. QED
    BY <2>1, <2>2
<1>10. (Passing \cup {h})' = Y /\ TaskOf(h)' = t
  BY <1>4, <1>5
<1>11. QED
  BY <1>9, <1>10 DEF Carried

-----------------------------------------------------------------------------
(* No task is lost                                                         *)

\* A task that is owed a step is carried by a durable message, or has a feature
\* that waits and that a running broker has on its list.
LEMMA RecoverableStep ==
    ASSUME Typing, RecoveryInv, [Next]_vars
    PROVE  Recoverable'
<1>. SUFFICES ASSUME NEW t \in Tasks, Owed(t)'
              PROVE  Carried(t, Passing)' \/ (Waiting(t)' # {} /\ (broker_up' => Listed(t)'))
  BY DEF Recoverable
<1>0. RowsExist /\ Ground /\ NobodyLeaves /\ MarksInTime /\ OneIsCurrent /\ OutdatedNotAlone /\ Recoverable
  BY DEF RecoveryInv
<1>1. PICK X \in SUBSET Handlers, Y \in SUBSET Handlers : X = Passing /\ Y = Passing'
  <2>1. Passing \in SUBSET Handlers /\ Passing' \in SUBSET Handlers
    BY DEF Passing
  <2>2. QED
    BY <2>1
<1>2. /\ \A h \in X : pc[h] # "idle"
      /\ \A h \in Y : pc'[h] \notin {"idle", "read"}
  BY <1>1 DEF Passing, PassedOn
<1>3. CASE ~ Owed(t)
  BY <1>1, <1>2, <1>3, NewlyOwed DEF Carried
<1>4. ASSUME Owed(t), NEW k \in Handlers \ X, Defer(k), TaskOf(k) = t
      PROVE  Carried(t, Y)' \/ (Waiting(t)' # {} /\ Listed(t)')
  <2>1. Listed(t)' /\ Waiting(t)' = Waiting(t)
    <3>1. Listed(t)'
      BY <1>0, <1>4, DeferLists
    <3>2. Waiting(t)' = Waiting(t)
      BY <1>4 DEF Defer, Waiting, WithStatus, storeVars
    <3>3. QED
      BY <3>1, <3>2
  <2>2. CASE Waiting(t) # {}
    BY <2>1, <2>2
  <2>3. CASE Waiting(t) = {}
    <3>1. pc[k] = "decide" /\ view[k].waiting # {} /\ pc' = [pc EXCEPT ![k] = "ack"] /\ pc \in [Handlers -> PCs]
      BY <1>4, QueueTypes DEF Defer, At, FirstOf, Goto
    <3>2. PICK Z \in SUBSET Handlers : Z = Passing \cup {k}
      <4>1. Passing \cup {k} \in SUBSET Handlers
        BY DEF Passing
      <4>2. QED
        BY <4>1
    <3>3. Carried(t, Z)
      BY <1>0, <1>4, <2>3, <3>1, <3>2 DEF OutdatedNotAlone, Outdated
    <3>4. /\ Passing \subseteq Z /\ Y \subseteq Z
          /\ \A h \in Z : pc[h] # "idle"
      BY <1>1, <3>1, <3>2 DEF Passing, PassedOn
    <3>5. Carried(t, Y)'
      <4>1. \A h \in Handlers : pc[h] = "ack" => h \in Z
        BY <3>4 DEF Passing, PassedOn
      <4>2. QED
        BY <1>0, <1>2, <3>3, <3>4, <4>1, CarriedStep, NoneLost
    <3>6. QED
      BY <3>5
  <2>4. QED
    BY <2>2, <2>3
<1>5. ASSUME Owed(t), Carried(t, Passing) PROVE Carried(t, Y)' \/ (Waiting(t)' # {} /\ Listed(t)')
  <2>1. CASE \E k \in Handlers \ X : Defer(k) /\ TaskOf(k) = t
    BY <1>4, <1>5, <2>1
  <2>2. CASE \A k \in Handlers \ X : ~ (Defer(k) /\ TaskOf(k) = t)
    <3>1. Carried(t, X) /\ Passing \subseteq X /\ Y \subseteq X \cup Passing' /\ ~ Settled(t)'
      BY <1>1, <1>5 DEF Owed
    <3>2. Carried(t, Y)'
      BY <1>0, <1>2, <2>2, <3>1, HandOn, NoneLost
    <3>3. QED
      BY <3>2
  <2>3. QED
    BY <2>1, <2>2
<1>6. ASSUME Owed(t), ~ Carried(t, Passing)
      PROVE  Carried(t, Y)' \/ (Waiting(t)' # {} /\ (broker_up' => Listed(t)'))
  <2>0. Waiting(t) # {} /\ (broker_up => Listed(t))
    BY <1>0, <1>6 DEF Recoverable
  <2>1. ASSUME NEW f \in Waiting(t), f \notin Waiting(t)' PROVE FALSE
    <3>1. ASSUME pc["response"] \in {"feature_ready", "feature_failed"}, TaskOf("response") = t PROVE FALSE
      <4>1. "response" \notin X
        BY <1>1, <3>1 DEF Passing, PassedOn
      <4>2. Carried(t, X)
        BY <3>1, <4>1, HandlerCarries DEF Handlers
      <4>3. QED
        BY <1>1, <1>6, <4>2
    <3>2. ASSUME NEW h \in Handlers, MarkDue(h, t, f) PROVE FALSE
      <4>1. f \in Features /\ featStatus[t][f] = "WAITING"
        BY <2>1 DEF Waiting, WithStatus
      <4>2. Coming(t, f)
        BY <1>0, <3>2, <4>1 DEF MarksInTime
      <4>3. "response" \in X => pc["response"] \notin {"idle", "feature_ready", "feature_failed"}
        BY <1>1 DEF Passing, PassedOn
      <4>4. QED
        BY <1>1, <1>6, <4>2, <4>3, ComingCarries
    <3>3. QED
      BY <1>0, <2>1, <3>1, <3>2, WaitingLeft
  <2>2. Waiting(t)' # {}
    BY <2>0, <2>1
  <2>3. CASE broker_up /\ broker_up'
    BY <1>0, <2>0, <2>2, <2>3, ListedStep, NoneLost DEF Carried
  <2>4. ASSUME ~ broker_up, broker_up' PROVE Listed(t)'
    <3>1. BrokerStart
      <4>1. ASSUME NEW w \in Workers, Begin(w) \/ Beat(w) \/ Work(w) \/ Leave(w) PROVE UNCHANGED broker_up
        BY <4>1 DEF Begin, Beat, Work, Leave, brokerVars
      <4>2. ASSUME HandleRequest \/ HandleResponse PROVE FALSE
        BY <2>4, <4>2 DEF HandleRequest, HandleResponse, DeliverRequest, DeliverStartup, DeliverHeartbeat,
              DeliverShutdown, DeliverAnswer, DeliverResponse, PendingAfterAnswer,
              AcceptRequest, FeatureFailed, TaskFailed, FeatureReady, MarkPending, At
      <4>3. ASSUME NEW h \in Handlers, DispatchNextFeature(h) \/ Acknowledge(h) PROVE FALSE
        BY <2>4, <4>3 DEF DispatchNextFeature, ReadFeatures, Defer, Dispatch, MarkDispatched, FinishFailed,
              FinishReady, SendCallback, Acknowledge, At
      <4>4. ASSUME Expire \/ Fault \/ UNCHANGED vars \/ \E u \in Tasks : Api(u) PROVE FALSE
        BY <2>4, <4>4 DEF Expire, PrintStats, GrowLate, Fault, HandlerError, BrokerCrash, DeleteAudio,
              vars, brokerVars, Api
      <4>5. QED
        BY <2>4, <4>1, <4>2, <4>3, <4>4 DEF Next, Broker, BrokerStep, Restart
    <3>2. QED
      BY <1>0, <2>0, <3>1, StartLists
  <2>5. QED
    BY <2>2, <2>3, <2>4
<1>7. Carried(t, Y)' => Carried(t, Passing)'
  BY <1>1 DEF Carried
<1>8. QED
  BY <1>3, <1>4, <1>5, <1>6, <1>7

\* In the beginning there is no row, no message and nothing to lose.
LEMMA NothingAtFirst ==
    ASSUME Init, \A k \in LosingFaults : Budget[k] = 0
    PROVE  RowsExist /\ Ground
<1>1. /\ submission = [t \in Tasks |-> "new"] /\ taskStatus = [t \in Tasks |-> "none"]
      /\ featStatus = [t \in Tasks |-> [f \in Features |-> "none"]]
      /\ bound = {} /\ files = {} /\ available_workers = {} /\ broker_up = TRUE
      /\ request_queue = <<>> /\ response_queue = <<>> /\ callback_queue = <<>> /\ pending_requests = <<>>
      /\ worker_queue = [w \in Workers |-> <<>>]
      /\ wstate = [w \in Workers |-> "off"] /\ pc = [h \in Handlers |-> "idle"] /\ budget = Budget
  BY DEF Init, StoreInit, QueuesInit, ApiInit, WorkerInit, BrokerInit, FaultsInit
<1>2. Rows = {} /\ Elements(<<>>) = {}
  BY <1>1 DEF Rows, HasRow, Elements
<1>3. RowsExist
  BY <1>1, <1>2 DEF RowsExist, Requested
<1>4. Ground
  BY <1>1, <1>2 DEF Ground, Spared, WorkersKnown, FilesStay, DownIsIdle, EntryTaken, Handlers, Running
<1>5. QED
  BY <1>3, <1>4

\* It holds in the beginning.
LEMMA RecoveryInit == Init /\ NoLosingFault => RecoveryInv
<1>. SUFFICES ASSUME Init, NoLosingFault PROVE RecoveryInv
  OBVIOUS
<1>1. /\ submission = [t \in Tasks |-> "new"] /\ wstate = [w \in Workers |-> "off"]
      /\ pc = [h \in Handlers |-> "idle"] /\ pending_requests = <<>> /\ budget = Budget
  BY DEF Init, ApiInit, WorkerInit, BrokerInit, FaultsInit
<1>2. RowsExist /\ Ground
  BY NothingAtFirst DEF NoLosingFault
<1>3. NobodyLeaves
  BY <1>1 DEF NobodyLeaves, NoLosingFault
<1>4. MarksInTime /\ OneIsCurrent /\ OutdatedNotAlone /\ Recoverable
  BY <1>1 DEF MarksInTime, MarkDue, Taken, OneIsCurrent, OutdatedNotAlone, Outdated, Recoverable, Owed, Handlers
<1>5. QED
  BY <1>2, <1>3, <1>4 DEF RecoveryInv

\* The inductive invariant of a system that loses no worker, call, answer or file.
THEOREM RecoveryCorrect == Spec /\ NoLosingFault => [](Typing /\ RecoveryInv)
<1>1. Typing /\ RecoveryInv /\ [Next]_vars => (Typing /\ RecoveryInv)'
  <2>. SUFFICES ASSUME Typing, RecoveryInv, [Next]_vars PROVE (Typing /\ RecoveryInv)'
    OBVIOUS
  <2>1. RowsExist /\ Ground /\ NobodyLeaves /\ MarksInTime /\ OneIsCurrent
    BY DEF RecoveryInv
  <2>2. Typing' /\ RowsExist' /\ Ground' /\ NobodyLeaves' /\ MarksInTime' /\ OneIsCurrent' /\ OutdatedNotAlone' /\ Recoverable'
    BY <2>1, TypingStep, RowsExistStep, GroundStep, NobodyLeavesStep, MarksInTimeStep, OneIsCurrentStep, OutdatedNotAloneStep,
       RecoverableStep
  <2>3. QED
    BY <2>2 DEF RecoveryInv
<1>2. Init /\ NoLosingFault => Typing /\ RecoveryInv
  BY TypingInit, RecoveryInit
<1>3. QED
  BY <1>1, <1>2, PTL DEF Spec

\* Where a message that remains is found.
LEMMA RemainingAt ==
    ASSUME NEW S, NEW q \in Seq(S), NEW hidden \in BOOLEAN, hidden => q # <<>>, NEW m \in Remaining(q, hidden)
    PROVE  \E j \in DOMAIN q : q[j] = m /\ ~ (j = 1 /\ hidden)
<1>1. CASE hidden
  <2>1. PICK i \in DOMAIN Tail(q) : Tail(q)[i] = m
    BY <1>1 DEF Remaining, Elements
  <2>2. i \in Nat \ {0} /\ i + 1 \in DOMAIN q /\ q[i + 1] = m
    BY <1>1, <2>1
  <2>3. i + 1 # 1
    BY <2>2
  <2>4. QED
    BY <2>2, <2>3
<1>2. CASE ~ hidden
  BY <1>2 DEF Remaining, Elements
<1>3. QED
  BY <1>1, <1>2

\* The invariant's messages and entries are carriers.
LEMMA CarriedCarriers ==
    ASSUME Typing, NEW t \in Tasks, Carried(t, Passing) \/ Listed(t)
    PROVE  Carriers(t) # {}
<1>0. request_queue \in Seq(Tasks) /\ response_queue \in Seq(Response) /\ "request" \in Handlers /\ "response" \in Handlers
  BY QueueTypes DEF Handlers
<1>. DEFINE r == PassedOn("request")
            s == PassedOn("response")
<1>1. /\ r \in BOOLEAN /\ s \in BOOLEAN
      /\ (r => request_queue # <<>>) /\ (s => response_queue # <<>>)
      /\ ("request" \in Passing <=> r) /\ ("response" \in Passing <=> s)
  BY <1>0 DEF Passing, PassedOn, Typing, InFlight, InFlightAt
<1>. HIDE DEF r, s
<1>2. CASE t \in Remaining(request_queue, r)
  <2>1. PICK j \in DOMAIN request_queue : request_queue[j] = t /\ ~ (j = 1 /\ r)
    BY <1>0, <1>1, <1>2, RemainingAt
  <2>2. <<"request", 1, j>> \in Carriers(t)
    BY <2>1, Zenon DEF Carriers, r
  <2>3. QED
    BY <2>2
<1>3. CASE \E m \in Remaining(response_queue, s) : m.task = t
  <2>1. PICK j \in DOMAIN response_queue : response_queue[j].task = t /\ ~ (j = 1 /\ s)
    BY <1>0, <1>1, <1>3, RemainingAt
  <2>2. <<"answer", 1, j>> \in Carriers(t)
    BY <2>1, Zenon DEF Carriers, s
  <2>3. QED
    BY <2>2
<1>4. CASE \E w \in Workers : \E job \in Elements(worker_queue[w]) : job.task = t
  <2>0. PICK w \in Workers : \E job \in Elements(worker_queue[w]) : job.task = t
    BY <1>4
  <2>1. PICK j \in DOMAIN worker_queue[w] : worker_queue[w][j].task = t
    BY <2>0 DEF Elements
  <2>. DEFINE Jobs(v) == {<<"job", v, i>> : i \in {k \in DOMAIN worker_queue[v] : worker_queue[v][k].task = t}}
  <2>2. UNION {Jobs(v) : v \in Workers} \subseteq Carriers(t)
    BY Zenon DEF Carriers
  <2>3. <<"job", w, j>> \in Jobs(w)
    BY <2>1
  <2>4. Jobs(w) \in {Jobs(v) : v \in Workers}
    OBVIOUS
  <2>. HIDE DEF Jobs
  <2>5. QED
    BY <2>2, <2>3, <2>4
<1>5. CASE Listed(t)
  <2>1. PICK j \in DOMAIN pending_requests \ Taken : pending_requests[j].task = t
    BY <1>5 DEF Listed
  <2>2. ~ (pc["response"] = "mark_pending" /\ j \in FirstOf(PendingFor(TypeOf[Answered.worker])))
    BY <2>1 DEF Taken
  <2>3. <<"pending", 1, j>> \in Carriers(t)
    BY <2>1, <2>2, Zenon DEF Carriers
  <2>4. QED
    BY <2>3
<1>6. QED
  BY <1>1, <1>2, <1>3, <1>4, <1>5 DEF Carried

\* handle_api_request, handle_worker_response and recover_pending_tasks together
\* lose no accepted task (TaskNotLost), whatever the number of crashes, redelivered
\* messages, expired workers and failed inferences, and whether or not answers wait
\* for the marks.
THEOREM AcceptedNotLost == Spec /\ NoLosingFault => []TaskNotLost
<1>1. ASSUME Typing, RecoveryInv PROVE TaskNotLost
  <2>. SUFFICES ASSUME NEW t \in Tasks, Owed(t)
                PROVE  Carriers(t) # {} \/ (~ broker_up /\ WithStatus(t, "WAITING") # {})
    BY DEF TaskNotLost, Owed
  <2>1. Carried(t, Passing) \/ (Waiting(t) # {} /\ (broker_up => Listed(t)))
    BY <1>1 DEF RecoveryInv, Recoverable
  <2>2. QED
    BY <1>1, <2>1, CarriedCarriers DEF Waiting
<1>2. QED
  BY <1>1, RecoveryCorrect, PTL

-----------------------------------------------------------------------------
(* Workers that leave                                                      *)

\* Nothing but a worker loses a task.
NothingDropped == \A k \in LosingFaults : Budget[k] = 0

\* Everything up to feature f of t is done, and f is not.
StuckAt(t, f) ==
    /\ featStatus[t][f] \in {"WAITING", "PROCESSING"}
    /\ \A g \in Requested(t) : g < f => featStatus[t][g] = "READY"

StuckWithGone(t) == \E w \in Workers : wstate[w] = "gone" /\ StuckAt(t, TypeOf[w])

\* Some message, entry or job has t.
Held(t) == Carried(t, Passing) \/ Listed(t)

LossInv ==
    /\ RowsExist /\ Ground
    /\ \A t \in Tasks : Owed(t) => Held(t) \/ StuckWithGone(t)

OrderKnown == Typing /\ Undisturbed /\ FlightInv /\ OrderInv /\ PromptMarks

\* The outcome of t is about to be stored.
Stores(t) == pc["response"] \in {"feature_ready", "feature_failed"} /\ Answered.task = t

\* A task stays at the feature it has come to until an answer for it is stored.
LEMMA StuckStays ==
    ASSUME OrderKnown, [Next]_vars, NEW t \in Tasks, NEW f \in Features, StuckAt(t, f), ~ Stores(t)
    PROVE  StuckAt(t, f)'
<1>0. StoreTypeOK /\ f \in Requested(t) /\ LifeStep(t) /\ RowsInv(t)
  BY OrderStep DEF OrderKnown, OrderInv, Typing, TypeOK, StuckAt, Requested
<1>1. featStatus[t] \in [Features -> FeatureStatuses]
  BY <1>0 DEF StoreTypeOK
<1>2. taskStatus[t] # "none"
  BY <1>0 DEF RowsInv, HasRow
<1>3. ASSUME featStatus'[t] = featStatus[t] PROVE StuckAt(t, f)'
  BY <1>3 DEF StuckAt, Requested
<1>4. ASSUME NEW g \in Requested(t), featStatus[t][g] = "WAITING",
             featStatus'[t] = [featStatus[t] EXCEPT ![g] = "PROCESSING"]
      PROVE  StuckAt(t, f)'
  <2>1. Requested(t)' = Requested(t)
    BY <1>1, <1>4 DEF Requested
  <2>2. QED
    BY <1>1, <1>4, <2>1 DEF StuckAt, Requested
<1>5. ASSUME NEW g \in Requested(t), featStatus[t][g] = "PROCESSING", featStatus'[t][g] \in {"READY", "FAILED"}
      PROVE  FALSE
  <2>1. ~ \E u \in Tasks : InsertSubmission(u)
    BY <1>0, <1>2, <1>5 DEF InsertSubmission, InsertTask, HasRow, StoreTypeOK, Requested
  <2>2. ~ (MarkPending \/ \E h \in Handlers : MarkDispatched(h))
    <3>1. ASSUME NEW u, NEW f1, UpdateFeature(u, f1, "PROCESSING", None) PROVE FALSE
      BY <1>0, <1>5, <3>1 DEF UpdateFeature, StoreTypeOK, Requested
    <3>2. MarkPending \/ (\E h \in Handlers : MarkDispatched(h)) => \E u, f1 : UpdateFeature(u, f1, "PROCESSING", None)
      BY Zenon DEF MarkPending, MarkDispatched
    <3>3. QED
      BY <3>1, <3>2
  <2>3. ~ (AcceptRequest \/ TaskFailed \/ \E h \in Handlers : FinishFailed(h) \/ FinishReady(h))
    BY <1>5 DEF AcceptRequest, TaskFailed, FinishFailed, FinishReady, UpdateTask
  <2>4. ~ (FeatureFailed \/ FeatureReady)
    BY <1>0, <1>5 DEF FeatureFailed, FeatureReady, UpdateFeature, At, Stores, StoreTypeOK, Requested
  <2>5. featStatus' # featStatus
    BY <1>5
  <2>6. QED
    BY <2>1, <2>2, <2>3, <2>4, <2>5, StoreFrame DEF OrderKnown, StoreStep, storeVars
<1>6. ASSUME NEW g \in Requested(t), NEW s \in {"READY", "FAILED"}, featStatus'[t] = [featStatus[t] EXCEPT ![g] = s]
      PROVE  featStatus'[t][g] \in {"READY", "FAILED"}
  BY <1>1, <1>6 DEF Requested
<1>7. QED
  BY <1>0, <1>2, <1>3, <1>4, <1>5, <1>6 DEF LifeStep

\* A job knows the feature its task is stuck at when the job is lost.
LEMMA LostIsStuck ==
    ASSUME OrderKnown, Ground, [Next]_vars, NEW t \in Tasks, LostWith(t)
    PROVE  StuckWithGone(t)'
<1>. USE DEF OrderKnown
<1>0. CarriersKnow(t) /\ RowsInv(t) /\ InOnePlace(t) /\ DOMAIN pending_requests \subseteq Nat
  BY QueueTypes DEF OrderInv, FlightInv
<1>1. ASSUME NEW f \in Features, Due(t, f) \/ Working(t, f) PROVE StuckAt(t, f)
  <2>1. f \in Requested(t) /\ Requested(t) \subseteq Nat
    BY <1>1 DEF Due, Working, FirstOf, WithStatus, Requested, Features
  <2>2. CASE Due(t, f)
    <3>1. featStatus[t][f] = "WAITING" /\ \A g \in Requested(t) : g < f => featStatus[t][g] # "WAITING"
      BY <2>1, <2>2 DEF Due, FirstOf, WithStatus, Requested
    <3>2. QED
      BY <2>2, <3>1 DEF Due, Quiet, StuckAt
  <2>3. CASE Working(t, f)
    BY <1>0, <2>1, <2>3 DEF Working, StuckAt, RowsInv, Ordered
  <2>4. QED
    BY <1>1, <2>2, <2>3
<1>2. ASSUME NEW w \in Workers, wstate'[w] = "gone", Due(t, TypeOf[w]) \/ Working(t, TypeOf[w]), ~ Stores(t)
      PROVE  StuckWithGone(t)'
  BY <1>1, <1>2, WorkersAssumption, StuckStays DEF StuckWithGone
<1>3. ASSUME NEW w \in Workers, wstate'[w] = "gone", NEW job \in Elements(worker_queue[w]), job.task = t
      PROVE  StuckWithGone(t)'
  <2>1. job \in Given(w, t)
    BY <1>3, QueueTypes DEF Given, OfTask, Elements
  <2>2. Due(t, TypeOf[w]) \/ Working(t, TypeOf[w])
    BY <1>0, <2>1 DEF CarriersKnow, GivenInv
  <2>3. ~ Stores(t)
    BY <2>1, OnlyCarrier DEF Stores
  <2>4. QED
    BY <1>2, <1>3, <2>2, <2>3
<1>4. ASSUME NEW w \in Workers, wstate'[w] = "gone", NEW h \in Handlers, Dispatch(h), TaskOf(h) = t,
             TypeOf[w] \in FirstOf(view[h].waiting)
      PROVE  StuckWithGone(t)'
  <2>1. Due(t, TypeOf[w])
    BY <1>0, <1>4, Deciding DEF Dispatch, At
  <2>2. AnswersTo(t) = {}
    BY <1>0, <2>1, CarriersByRows DEF Due
  <2>3. ~ Stores(t)
    <3>1. Stores(t) => Answered \in Response
      BY InProgress DEF Stores, Typing, InFlight, InFlightAt
    <3>2. QED
      BY <2>2, <3>1 DEF Stores, AnswersTo, OfTask
  <2>4. QED
    BY <1>2, <1>4, <2>1, <2>3
<1>5. ASSUME NEW w \in Workers, wstate'[w] = "gone", NEW i \in DOMAIN pending_requests \cap (Taken' \ Taken),
             pending_requests[i].task = t, pending_requests[i].feature = TypeOf[w]
      PROVE  StuckWithGone(t)'
  <2>1. pending_requests[i] \in PendJobs(t)
    BY <1>5, QueueTypes DEF PendJobs, OfTask, Elements
  <2>2. Due(t, TypeOf[w])
    BY <1>0, <1>5, <2>1 DEF CarriersKnow, PendingInv
  <2>3. AnswersTo(t) = {}
    BY <1>0, <2>2, CarriersByRows DEF Due
  <2>4. ~ Stores(t)
    <3>1. Stores(t) => Answered \in Response
      BY InProgress DEF Stores, Typing, InFlight, InFlightAt
    <3>2. QED
      BY <2>3, <3>1 DEF Stores, AnswersTo, OfTask
  <2>5. QED
    BY <1>2, <1>5, <2>2, <2>4
<1>6. QED
  BY <1>3, <1>4, <1>5 DEF LostWith

\* What holds a task is followed by something else that does, unless the task is
\* settled or lost with a worker.
LEMMA HeldStep ==
    ASSUME Typing, Undisturbed, RowsExist, Ground, [Next]_vars, NEW t \in Tasks, Owed(t)', Owed(t) => Held(t)
    PROVE  Held(t)' \/ LostWith(t)
<1>1. PICK X \in SUBSET Handlers, Y \in SUBSET Handlers : X = Passing /\ Y = Passing'
  <2>1. Passing \in SUBSET Handlers /\ Passing' \in SUBSET Handlers
    BY DEF Passing
  <2>2. QED
    BY <2>1
<1>2. /\ \A h \in X : pc[h] # "idle"
      /\ \A h \in Y : pc'[h] \notin {"idle", "read"}
  BY <1>1 DEF Passing, PassedOn
<1>3. Carried(t, Y)' => Held(t)'
  BY <1>1 DEF Held, Carried
<1>4. CASE ~ Owed(t)
  BY <1>2, <1>3, <1>4, NewlyOwed
<1>5. CASE Carried(t, Passing)
  <2>1. CASE \E k \in Handlers \ X : Defer(k) /\ TaskOf(k) = t
    BY <2>1, DeferLists DEF Held
  <2>2. CASE \A k \in Handlers \ X : ~ (Defer(k) /\ TaskOf(k) = t)
    <3>1. Carried(t, X) /\ Passing \subseteq X /\ Y \subseteq X \cup Passing' /\ ~ Settled(t)'
      BY <1>1, <1>5 DEF Owed
    <3>2. QED
      BY <1>2, <1>3, <2>2, <3>1, HandOn
  <2>3. QED
    BY <2>1, <2>2
<1>6. CASE Listed(t)
  <2>1. broker_up /\ broker_up'
    BY UndisturbedStep DEF Undisturbed
  <2>2. QED
    BY <1>6, <2>1, ListedStep DEF Held, Carried
<1>7. QED
  BY <1>4, <1>5, <1>6 DEF Held

\* The induction step.
LEMMA LossStep ==
    ASSUME OrderKnown, LossInv, [Next]_vars
    PROVE  LossInv'
<1>. USE DEF OrderKnown
<1>0. RowsExist /\ Ground /\ RowsExist' /\ Ground'
  BY RowsExistStep, GroundStep DEF LossInv
<1>1. ASSUME NEW t \in Tasks, Owed(t)' PROVE Held(t)' \/ StuckWithGone(t)'
  <2>1. CASE Owed(t) => Held(t)
    BY <1>0, <1>1, <2>1, HeldStep, LostIsStuck
  <2>2. CASE Owed(t) /\ ~ Held(t)
    <3>1. PICK w \in Workers : wstate[w] = "gone" /\ StuckAt(t, TypeOf[w])
      BY <2>2 DEF LossInv, StuckWithGone
    <3>2. ~ Stores(t)
      <4>1. ASSUME Stores(t) PROVE Carried(t, Passing)
        <5>1. PICK X \in SUBSET Handlers : X = Passing
          BY DEF Passing
        <5>2. "response" \in Handlers /\ "response" \notin X /\ TaskOf("response") = t /\ pc["response"] # "idle"
          BY <4>1, <5>1 DEF Stores, Handlers, Passing, PassedOn, TaskOf
        <5>3. QED
          BY <5>1, <5>2, HandlerCarries
      <4>2. QED
        BY <2>2, <4>1 DEF Held
    <3>3. QED
      BY <3>1, <3>2, StuckStays, GoneForGood, WorkersAssumption DEF StuckWithGone
  <2>3. QED
    BY <2>1, <2>2
<1>2. QED
  BY <1>0, <1>1 DEF LossInv

\* In the beginning there is nothing to lose here either.
LEMMA LossInit == Init /\ NothingDropped => LossInv
<1>. SUFFICES ASSUME Init, NothingDropped PROVE LossInv
  OBVIOUS
<1>1. \A t \in Tasks : ~ Owed(t)
  BY DEF Init, ApiInit, Owed
<1>2. RowsExist /\ Ground
  BY NothingAtFirst DEF NothingDropped
<1>3. QED
  BY <1>1, <1>2 DEF LossInv

\* handle_worker_response and dispatch_feature lose a task only together with a
\* worker, and the task is then stuck in a feature of that worker's type
\* (LostOnlyWithItsWorker): whatever workers leave, expire or fail, as long as the
\* broker is not disturbed, marks a job before it is answered, and no call, status
\* or file is lost besides.
THEOREM LostWithItsWorker ==
    Spec /\ NoBrokerFault /\ PromptMarks /\ NothingDropped => []LostOnlyWithItsWorker
<1>1. OrderKnown /\ OrderKnown' /\ LossInv /\ [Next]_vars => LossInv'
  BY LossStep
<1>2. Init /\ NothingDropped => LossInv
  BY LossInit
<1>3. Spec /\ NoBrokerFault /\ PromptMarks => []OrderKnown
  BY OrderCorrect DEF OrderKnown
<1>4. ASSUME OrderKnown, LossInv PROVE LostOnlyWithItsWorker
  <2>. SUFFICES ASSUME NEW t \in Tasks, Owed(t), Carriers(t) = {} PROVE StuckWithGone(t)
    BY DEF LostOnlyWithItsWorker, Owed, StuckWithGone, StuckAt
  <2>1. ~ Held(t)
    BY <1>4, CarriedCarriers DEF Held, OrderKnown
  <2>2. QED
    BY <1>4, <2>1 DEF LossInv
<1>5. QED
  BY <1>1, <1>2, <1>3, <1>4, PTL DEF Spec
=============================================================================
