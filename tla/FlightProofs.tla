---------------------------- MODULE FlightProofs ----------------------------
(***************************************************************************)
(* A task is in one place at a time, as long as the broker neither crashes *)
(* nor fails in a handler: with any number of tasks, features and workers, *)
(* with workers that leave, expire or fail, lost status messages and       *)
(* deleted files, and whether or not answers wait for the marks.  Every    *)
(* step hands the carrier of a task on, and only to a place that is empty. *)
(***************************************************************************)
EXTENDS ConversationAnalyzerProofs

NoBrokerFault == Budget["broker_crash"] = 0 /\ Budget["handler_error"] = 0

Undisturbed == broker_up /\ budget["broker_crash"] = 0 /\ budget["handler_error"] = 0

\* Where a task is carried, by queue.  The message of a handler that has passed
\* its task on does not count, nor does the entry that is being dispatched.
OfTask(t) == {m \in Response \cup Job : m.task = t}

Taken == {i \in FirstOf(PendingFor(TypeOf[Answered.worker])) : pc["response"] = "mark_pending"}

ReqAt(t)    == {i \in Where(request_queue, {t}) : ~ (i = 1 /\ PassedOn("request"))}
AnsAt(t)    == {i \in Where(response_queue, OfTask(t)) : ~ (i = 1 /\ PassedOn("response"))}
PendAt(t)   == Where(pending_requests, OfTask(t)) \ Taken
JobAt(w, t) == Where(worker_queue[w], OfTask(t))

One(S)    == \A x, y \in S : x = y
NoJob(t)  == \A w \in Workers : JobAt(w, t) = {}
OneJob(t) == \A w, v \in Workers : \A i \in JobAt(w, t), j \in JobAt(v, t) : w = v /\ i = j

Nowhere(t) == ReqAt(t) = {} /\ AnsAt(t) = {} /\ PendAt(t) = {} /\ NoJob(t)

InOnePlace(t) ==
    /\ One(ReqAt(t)) /\ One(AnsAt(t)) /\ One(PendAt(t)) /\ OneJob(t)
    /\ ReqAt(t) = {} \/ (AnsAt(t) = {} /\ PendAt(t) = {} /\ NoJob(t))
    /\ AnsAt(t) = {} \/ (PendAt(t) = {} /\ NoJob(t))
    /\ PendAt(t) = {} \/ NoJob(t)

FlightInv ==
    \A t \in Tasks :
        /\ InOnePlace(t)
        /\ Settled(t) => Nowhere(t)
        /\ submission[t] # "accepted" => Nowhere(t) /\ ~ Settled(t)

-----------------------------------------------------------------------------
(* Sets of positions before and after a step                               *)

Kept(S, T) == (S = {} => T = {}) /\ (One(S) => One(T))

\* Positions may disappear or move up.
LEMMA PositionsKept ==
    ASSUME NEW S, NEW T
    PROVE  /\ T \subseteq S => Kept(S, T)
           /\ (\A i \in T : i \in Nat /\ i + 1 \in S) => Kept(S, T)
           /\ \A k \in Nat : (\A i \in T : i \in Nat /\ (i < k => i \in S) /\ (i >= k => i + 1 \in S)) => Kept(S, T)
<1>1. T \subseteq S => Kept(S, T)
  BY DEF Kept, One
<1>2. ASSUME \A i \in T : i \in Nat /\ i + 1 \in S PROVE Kept(S, T)
  BY <1>2 DEF Kept, One
<1>3. ASSUME NEW k \in Nat, \A i \in T : i \in Nat /\ (i < k => i \in S) /\ (i >= k => i + 1 \in S)
      PROVE  Kept(S, T)
  <2>1. S = {} => T = {}
    BY <1>3
  <2>2. ASSUME One(S), NEW x \in T, NEW y \in T PROVE x = y
    <3>1. CASE x < k /\ y < k
      BY <1>3, <2>2, <3>1 DEF One
    <3>2. CASE x >= k /\ y >= k
      <4>1. x + 1 = y + 1
        BY <1>3, <2>2, <3>2 DEF One
      <4>2. QED
        BY <1>3, <4>1
    <3>3. CASE x < k /\ y >= k
      <4>1. x = y + 1
        BY <1>3, <2>2, <3>3 DEF One
      <4>2. QED
        BY <1>3, <3>3, <4>1
    <3>4. CASE x >= k /\ y < k
      <4>1. x + 1 = y
        BY <1>3, <2>2, <3>4 DEF One
      <4>2. QED
        BY <1>3, <3>4, <4>1
    <3>5. QED
      BY <1>3, <3>1, <3>2, <3>3, <3>4
  <2>3. QED
    BY <2>1, <2>2 DEF Kept, One
<1>4. QED
  BY <1>1, <1>2, <1>3

Moves(t) == InOnePlace(t)' /\ (Nowhere(t) => Nowhere(t)')

\* A step that only takes carriers of t away, or moves them up, keeps t in one place.
LEMMA KeptMoves ==
    ASSUME NEW t \in Tasks, InOnePlace(t),
           Kept(ReqAt(t), ReqAt(t)'), Kept(AnsAt(t), AnsAt(t)'), Kept(PendAt(t), PendAt(t)'),
           \A w \in Workers : JobAt(w, t)' \subseteq JobAt(w, t)
    PROVE  Moves(t)
<1>1. (NoJob(t) => NoJob(t)') /\ (OneJob(t) => OneJob(t)')
  BY DEF NoJob, OneJob
<1>2. QED
  BY <1>1 DEF Kept, Moves, InOnePlace, Nowhere

\* What the queues hold.
LEMMA QueueTypes ==
    ASSUME Typing
    PROVE  /\ request_queue \in Seq(Tasks)
           /\ response_queue \in Seq(Response)
           /\ pending_requests \in Seq(Job)
           /\ worker_queue \in [Workers -> Seq(Job)]
           /\ pc \in [Handlers -> PCs]
BY DEF Typing, TypeOK, QueuesTypeOK, BrokerTypeOK

\* The message of a handler that has not passed its task on is a carrier, at
\* position 1, of the task the handler works on.
LEMMA HeadCarries ==
    ASSUME Typing
    PROVE  /\ pc["request"] # "idle" => \A t \in Tasks : 1 \in Where(request_queue, {t}) <=> t = TaskOf("request")
           /\ pc["response"] # "idle" => \A t \in Tasks : 1 \in Where(response_queue, OfTask(t)) <=> t = Answered.task
<1>1. ASSUME pc["request"] # "idle", NEW t \in Tasks
      PROVE  1 \in Where(request_queue, {t}) <=> t = TaskOf("request")
  <2>1. request_queue # <<>>
    BY <1>1 DEF Typing, InFlight, InFlightAt
  <2>2. QED
    BY <2>1, QueueTypes, WhereTail DEF TaskOf
<1>2. ASSUME pc["response"] # "idle", NEW t \in Tasks
      PROVE  1 \in Where(response_queue, OfTask(t)) <=> t = Answered.task
  <2>1. response_queue # <<>>
    BY <1>2 DEF Typing, InFlight, InFlightAt
  <2>2. Answered \in Response
    BY <2>1, InProgress
  <2>3. Answered \in OfTask(t) <=> t = Answered.task
    BY <2>2 DEF OfTask
  <2>4. QED
    BY <2>1, <2>3, QueueTypes, WhereTail DEF Answered
<1>3. QED
  BY <1>1, <1>2

-----------------------------------------------------------------------------
(* The broker is not disturbed                                             *)

\* Nobody can pay for a fault of the broker.
LEMMA NoBrokerFaultPaid ==
    ASSUME Undisturbed, NEW kinds, Spend(kinds)
    PROVE  "broker_crash" \notin kinds /\ "handler_error" \notin kinds
BY DEF Undisturbed, Spend

\* So the broker stays up and every call of its handlers succeeds.
LEMMA UndisturbedStep ==
    ASSUME Typing, Undisturbed, [Next]_vars
    PROVE  /\ Undisturbed'
           /\ ~ BrokerCrash /\ ~ BrokerStart
           /\ \A h \in Handlers : ~ HandlerError(h)
<1>1. ~ BrokerCrash /\ ~ BrokerStart /\ \A h \in Handlers : ~ HandlerError(h)
  BY NoBrokerFaultPaid DEF BrokerCrash, BrokerStart, HandlerError, Undisturbed
<1>2. budget'["broker_crash"] = 0 /\ budget'["handler_error"] = 0
  <2>1. CASE UNCHANGED budget
    BY <2>1 DEF Undisturbed
  <2>2. ASSUME NEW kinds \in SUBSET FaultKinds, Spend(kinds)
        PROVE  budget'["broker_crash"] = 0 /\ budget'["handler_error"] = 0
    BY <2>2, NoBrokerFaultPaid DEF Spend, FaultKinds, Undisturbed
  <2>3. QED
    BY <2>1, <2>2, BudgetEffect
<1>3. broker_up'
  <2>. USE DEF Undisturbed, brokerVars
  <2>1. ASSUME NEW t \in Tasks, Api(t) PROVE UNCHANGED broker_up
    BY <2>1 DEF Api
  <2>2. ASSUME NEW w \in Workers, Begin(w) \/ Beat(w) \/ Work(w) \/ Leave(w) PROVE UNCHANGED broker_up
    BY <2>2 DEF Begin, Beat, Work, Leave
  <2>3. CASE HandleRequest \/ HandleResponse
    BY <2>3 DEF HandleRequest, HandleResponse, DeliverRequest, DeliverStartup, DeliverHeartbeat,
              DeliverShutdown, DeliverAnswer, DeliverResponse, PendingAfterAnswer, AcceptRequest,
              FeatureFailed, TaskFailed, FeatureReady, MarkPending
  <2>4. ASSUME NEW h \in Handlers, DispatchNextFeature(h) \/ Acknowledge(h) PROVE UNCHANGED broker_up
    BY <2>4 DEF DispatchNextFeature, ReadFeatures, Defer, Dispatch, MarkDispatched, FinishFailed,
              FinishReady, SendCallback, Acknowledge
  <2>5. CASE Restart \/ Expire \/ Fault
    BY <1>1, <2>5 DEF Restart, Expire, PrintStats, GrowLate, Fault, DeleteAudio
  <2>6. CASE UNCHANGED vars
    BY <2>6 DEF vars
  <2>7. QED
    BY <2>1, <2>2, <2>3, <2>4, <2>5, <2>6 DEF Next, Broker, BrokerStep
<1>4. QED
  BY <1>1, <1>2, <1>3 DEF Undisturbed
-----------------------------------------------------------------------------
(* Steps that hand nothing on                                              *)

\* A step of the handlers' control alone.
LEMMA ControlMoves ==
    ASSUME NEW t \in Tasks, InOnePlace(t),
           UNCHANGED <<request_queue, response_queue, pending_requests, worker_queue>>,
           \A h \in Handlers : PassedOn(h) => PassedOn(h)',
           pc["response"] = "mark_pending" => pc'["response"] = "mark_pending"
    PROVE  Moves(t)
<1>1. Taken \subseteq Taken'
  BY DEF Taken, Answered, PendingFor, FirstOf
<1>2. /\ ReqAt(t)' \subseteq ReqAt(t) /\ AnsAt(t)' \subseteq AnsAt(t)
      /\ PendAt(t)' \subseteq PendAt(t)
      /\ \A w \in Workers : JobAt(w, t)' = JobAt(w, t)
  BY <1>1 DEF ReqAt, AnsAt, PendAt, JobAt, Where, Handlers
<1>3. QED
  BY <1>2, PositionsKept, KeptMoves

\* Steps outside the broker that touch no queue.
LEMMA OutsideMoves ==
    ASSUME NEW t \in Tasks, InOnePlace(t),
           UNCHANGED <<request_queue, response_queue, pending_requests, worker_queue, pc>>
    PROVE  Moves(t)
BY ControlMoves DEF PassedOn

\* Control steps of the handlers.
LEMMA HandlerMoves ==
    ASSUME Typing, NEW t \in Tasks, InOnePlace(t),
           \/ DeliverRequest \/ AcceptRequest \/ DeliverAnswer
           \/ FeatureFailed \/ TaskFailed \/ FeatureReady
           \/ \E h \in Handlers : \/ ReadFeatures(h) \/ MarkDispatched(h)
                                 \/ FinishFailed(h) \/ FinishReady(h) \/ SendCallback(h)
    PROVE  Moves(t)
<1>0. pc \in [Handlers -> PCs]
  BY QueueTypes
<1>. DEFINE Goal == /\ UNCHANGED <<request_queue, response_queue, pending_requests, worker_queue>>
                    /\ \A k \in Handlers : PassedOn(k) => PassedOn(k)'
                    /\ pc["response"] = "mark_pending" => pc'["response"] = "mark_pending"
<1>1. CASE DeliverRequest \/ AcceptRequest
  <2>1. Goal
    BY <1>0, <1>1 DEF DeliverRequest, AcceptRequest, At, Goto, PassedOn, Handlers, queueVars
  <2>2. QED
    BY <2>1, ControlMoves
<1>2. CASE DeliverAnswer \/ FeatureFailed \/ TaskFailed \/ FeatureReady
  <2>1. Goal
    BY <1>0, <1>2 DEF DeliverAnswer, DeliverResponse, FeatureFailed, TaskFailed, FeatureReady, At, Goto,
                  PassedOn, Handlers, queueVars
  <2>2. QED
    BY <2>1, ControlMoves
<1>3. ASSUME NEW h \in Handlers,
             ReadFeatures(h) \/ MarkDispatched(h) \/ FinishFailed(h) \/ FinishReady(h) \/ SendCallback(h)
      PROVE  Moves(t)
  <2>1. Goal
    BY <1>0, <1>3 DEF ReadFeatures, MarkDispatched, FinishFailed, FinishReady, SendCallback, At, Goto,
                  PassedOn, Handlers, queueVars
  <2>2. QED
    BY <2>1, ControlMoves
<1>4. QED
  BY <1>1, <1>2, <1>3

\* An acknowledged message had been passed on.
LEMMA AcknowledgeMoves ==
    ASSUME Typing, NEW t \in Tasks, InOnePlace(t), NEW h \in Handlers, Acknowledge(h)
    PROVE  Moves(t)
<1>0. /\ pc[h] = "ack" /\ pc' = [pc EXCEPT ![h] = "idle"] /\ pc \in [Handlers -> PCs]
      /\ UNCHANGED <<pending_requests, worker_queue>>
  BY QueueTypes DEF Acknowledge, At, Goto
<1>1. \A w \in Workers : JobAt(w, t)' = JobAt(w, t)
  BY <1>0 DEF JobAt, Where
<1>2. CASE h = "request"
  <2>1. request_queue # <<>> /\ request_queue' = Tail(request_queue) /\ UNCHANGED response_queue
    BY <1>0, <1>2 DEF Acknowledge, Typing, InFlight, InFlightAt
  <2>2. \A i \in ReqAt(t)' : i \in Nat /\ i + 1 \in ReqAt(t)
    BY <2>1, QueueTypes, WhereTail DEF ReqAt
  <2>3. AnsAt(t)' = AnsAt(t) /\ PendAt(t)' = PendAt(t)
    BY <1>0, <1>2, <2>1 DEF AnsAt, PendAt, Taken, Answered, PassedOn, Where, PendingFor, FirstOf, Handlers
  <2>4. QED
    BY <1>1, <2>2, <2>3, PositionsKept, KeptMoves
<1>3. CASE h = "response"
  <2>1. response_queue # <<>> /\ response_queue' = Tail(response_queue) /\ UNCHANGED request_queue
    BY <1>0, <1>3 DEF Acknowledge, Typing, InFlight, InFlightAt
  <2>2. \A i \in AnsAt(t)' : i \in Nat /\ i + 1 \in AnsAt(t)
    BY <2>1, QueueTypes, WhereTail DEF AnsAt
  <2>3. ReqAt(t)' = ReqAt(t)
    BY <1>0, <1>3, <2>1 DEF ReqAt, PassedOn, Where, Handlers
  <2>4. PendAt(t)' = PendAt(t)
    BY <1>0, <1>3 DEF PendAt, Taken, Where, Handlers
  <2>5. QED
    BY <1>1, <2>2, <2>3, <2>4, PositionsKept, KeptMoves
<1>4. QED
  BY <1>2, <1>3 DEF Handlers

\* A heartbeat or shutdown status is handled in one step.
LEMMA StatusHandledMoves ==
    ASSUME Typing, NEW t \in Tasks, InOnePlace(t), DeliverHeartbeat \/ DeliverShutdown
    PROVE  Moves(t)
<1>0. /\ pc["response"] = "idle" /\ pc' = pc
      /\ response_queue # <<>> /\ response_queue' = Tail(response_queue)
      /\ UNCHANGED <<request_queue, pending_requests, worker_queue>>
  BY DEF DeliverHeartbeat, DeliverShutdown, DeliverResponse, HandledAtOnce, At
<1>1. \A w \in Workers : JobAt(w, t)' = JobAt(w, t)
  BY <1>0 DEF JobAt, Where
<1>2. \A i \in AnsAt(t)' : i \in Nat /\ i + 1 \in AnsAt(t)
  BY <1>0, QueueTypes, WhereTail DEF AnsAt
<1>3. ReqAt(t)' = ReqAt(t)
  BY <1>0 DEF ReqAt, PassedOn, Where
<1>4. PendAt(t)' = PendAt(t)
  BY <1>0 DEF PendAt, Taken, Where
<1>5. QED
  BY <1>1, <1>2, <1>3, <1>4, PositionsKept, KeptMoves

\* The entry that is removed from the pending list is the one that was dispatched.
LEMMA MarkPendingMoves ==
    ASSUME Typing, NEW t \in Tasks, InOnePlace(t), MarkPending
    PROVE  Moves(t)
<1>. DEFINE P == PendingFor(TypeOf[Answered.worker])
<1>0. /\ pc["response"] = "mark_pending" /\ pc \in [Handlers -> PCs]
      /\ pc' = [pc EXCEPT !["response"] = IF Answered.status = "startup" THEN "ack" ELSE "read"]
      /\ UNCHANGED <<request_queue, response_queue, worker_queue>>
  BY QueueTypes DEF MarkPending, At, Goto, queueVars
<1>1. PICK i \in FirstOf(P) :
         pending_requests' = SubSeq(pending_requests, 1, i - 1)
                                \o SubSeq(pending_requests, i + 1, Len(pending_requests))
  BY DEF MarkPending
<1>2. i \in DOMAIN pending_requests /\ i \in Nat /\ DOMAIN pending_requests \subseteq Nat
  BY <1>1, QueueTypes DEF FirstOf, PendingFor
<1>3. Taken = {i}
  <2>1. \A j \in FirstOf(P) : j = i
    BY <1>1, <1>2 DEF FirstOf, PendingFor
  <2>2. QED
    BY <1>0, <1>1, <2>1 DEF Taken
<1>4. Taken' = {}
  BY <1>0 DEF Taken, Handlers
<1>5. \A j \in PendAt(t)' : j \in Nat /\ (j < i => j \in PendAt(t)) /\ (j >= i => j + 1 \in PendAt(t))
  <2>1. \A j \in Where(pending_requests', OfTask(t)) :
            /\ j \in Nat
            /\ j < i => j \in Where(pending_requests, OfTask(t))
            /\ j >= i => j + 1 \in Where(pending_requests, OfTask(t))
    BY <1>1, <1>2, QueueTypes, WhereRemove
  <2>2. PendAt(t)' = Where(pending_requests', OfTask(t))
    BY <1>4 DEF PendAt, OfTask
  <2>3. QED
    BY <1>2, <1>3, <2>1, <2>2 DEF PendAt
<1>6. /\ ReqAt(t)' = ReqAt(t) /\ AnsAt(t)' \subseteq AnsAt(t)
      /\ \A w \in Workers : JobAt(w, t)' = JobAt(w, t)
  BY <1>0 DEF ReqAt, AnsAt, JobAt, Where, PassedOn, Handlers
<1>7. Kept(PendAt(t), PendAt(t)')
  BY <1>2, <1>5, PositionsKept
<1>8. QED
  BY <1>6, <1>7, PositionsKept, KeptMoves

\* Status messages name no task, and a worker that leaves takes its jobs along.
LEMMA WorkerMoves ==
    ASSUME Typing, NEW t \in Tasks, InOnePlace(t), NEW w \in Workers, Begin(w) \/ Beat(w) \/ Leave(w)
    PROVE  Moves(t)
<1>0. /\ UNCHANGED <<request_queue, pending_requests, pc>>
      /\ UNCHANGED response_queue \/ \E s \in StatusMessages : response_queue' = Append(response_queue, StatusOf(w, s))
      /\ UNCHANGED worker_queue \/ worker_queue' = [worker_queue EXCEPT ![w] = <<>>]
  BY DEF Begin, Beat, Leave, StartWorker, Heartbeat, Shutdown, CloseConnection, SendStatus,
         StatusMessages, brokerVars, DeclareWorkerQueue, DropWorkerQueue
<1>1. ReqAt(t)' = ReqAt(t)
  BY <1>0 DEF ReqAt, Where, PassedOn
<1>2. /\ Where(response_queue', OfTask(t)) = Where(response_queue, OfTask(t))
      /\ response_queue # <<>> => Head(response_queue') = Head(response_queue)
  <2>. DEFINE Goal == /\ Where(response_queue', OfTask(t)) = Where(response_queue, OfTask(t))
                      /\ response_queue # <<>> => Head(response_queue') = Head(response_queue)
  <2>1. ASSUME NEW s \in StatusMessages, response_queue' = Append(response_queue, StatusOf(w, s))
        PROVE  Goal
    <3>1. StatusOf(w, s) \in Response /\ StatusOf(w, s) \notin OfTask(t)
      BY NoTaskAssumption DEF StatusOf, Response, Status, OfTask
    <3>2. QED
      BY <2>1, <3>1, QueueTypes, WhereAppend, AppendFacts
  <2>2. ASSUME UNCHANGED response_queue PROVE Goal
    BY <2>2
  <2>3. QED
    BY <1>0, <2>1, <2>2
<1>3. AnsAt(t)' = AnsAt(t)
  BY <1>0, <1>2 DEF AnsAt, PassedOn, OfTask
<1>4. PendAt(t)' = PendAt(t)
  <2>1. pc["response"] = "mark_pending" => Answered' = Answered
    BY <1>2 DEF Typing, InFlight, InFlightAt, Answered
  <2>2. Taken' = Taken
    BY <1>0, <2>1 DEF Taken, PendingFor, FirstOf
  <2>3. QED
    BY <1>0, <2>2 DEF PendAt, Where
<1>5. \A v \in Workers : JobAt(v, t)' \subseteq JobAt(v, t)
  <2>1. CASE UNCHANGED worker_queue
    BY <2>1 DEF JobAt, Where
  <2>2. CASE worker_queue' = [worker_queue EXCEPT ![w] = <<>>]
    <3>1. \A v \in Workers : worker_queue'[v] = IF v = w THEN <<>> ELSE worker_queue[v]
      BY <2>2, QueueTypes
    <3>2. DOMAIN <<>> = {}
      OBVIOUS
    <3>3. QED
      BY <3>1, <3>2 DEF JobAt, Where
  <2>3. QED
    BY <1>0, <2>1, <2>2
<1>6. QED
  BY <1>1, <1>3, <1>4, <1>5, PositionsKept, KeptMoves
-----------------------------------------------------------------------------
(* Steps that hand a task on                                               *)

\* A worker takes its first job, and answers to it if at all.
LEMMA WorkMoves ==
    ASSUME Typing, NEW t \in Tasks, InOnePlace(t), NEW w \in Workers, Work(w)
    PROVE  Moves(t)
<1>. DEFINE job == Head(worker_queue[w])
<1>0. /\ UNCHANGED <<request_queue, pending_requests, pc>>
      /\ worker_queue[w] # <<>> /\ worker_queue' = [worker_queue EXCEPT ![w] = Tail(@)]
      /\ \/ UNCHANGED response_queue
         \/ response_queue' = Append(response_queue, AnswerOf(w, "failed", None))
         \/ response_queue' = Append(response_queue, AnswerOf(w, "success", Inference(job)))
  BY DEF Work, ProcessTask, AnswerSuccess, AnswerFailed, RaiseInJob, TakeJob, SendStatus, AnswerOf, brokerVars
<1>1. worker_queue[w] \in Seq(Job) /\ job \in Job
  BY <1>0, QueueTypes, HeadTailFacts
<1>2. ReqAt(t)' = ReqAt(t)
  BY <1>0 DEF ReqAt, Where, PassedOn
<1>3. /\ job.task # t => Where(response_queue', OfTask(t)) = Where(response_queue, OfTask(t))
      /\ Where(response_queue', OfTask(t)) \subseteq Where(response_queue, OfTask(t)) \cup {Len(response_queue) + 1}
      /\ response_queue # <<>> => Head(response_queue') = Head(response_queue)
  <2>. DEFINE Goal == <1>3!1 /\ <1>3!2 /\ <1>3!3
  <2>1. ASSUME NEW m \in Response, m.task = job.task, response_queue' = Append(response_queue, m) PROVE Goal
    <3>1. m \in OfTask(t) <=> job.task = t
      BY <2>1 DEF OfTask
    <3>2. QED
      BY <2>1, <3>1, QueueTypes, WhereAppend, AppendFacts
  <2>2. ASSUME UNCHANGED response_queue PROVE Goal
    BY <2>2
  <2>3. /\ AnswerOf(w, "failed", None) \in Response /\ AnswerOf(w, "success", Inference(job)) \in Response
        /\ \A st, r : AnswerOf(w, st, r).task = job.task
    BY <1>0, QueueTypes, AnswersTyped DEF AnswerOf
  <2>4. QED
    BY <1>0, <2>1, <2>2, <2>3
<1>4. PendAt(t)' = PendAt(t)
  <2>1. pc["response"] = "mark_pending" => Answered' = Answered
    BY <1>3 DEF Typing, InFlight, InFlightAt, Answered
  <2>2. Taken' = Taken
    BY <1>0, <2>1 DEF Taken, PendingFor, FirstOf
  <2>3. QED
    BY <1>0, <2>2 DEF PendAt, Where
<1>5. /\ \A v \in Workers : v # w => JobAt(v, t)' = JobAt(v, t)
      /\ \A k \in JobAt(w, t)' : k \in Nat \ {0} /\ k + 1 \in JobAt(w, t)
      /\ 1 \in JobAt(w, t) <=> job.task = t
  <2>1. /\ \A v \in Workers : v # w => worker_queue'[v] = worker_queue[v]
        /\ worker_queue'[w] = Tail(worker_queue[w])
    BY <1>0, QueueTypes
  <2>2. job \in OfTask(t) <=> job.task = t
    BY <1>1 DEF OfTask
  <2>3. QED
    BY <1>0, <1>1, <2>1, <2>2, WhereTail DEF JobAt
<1>6. CASE job.task = t
  <2>1. 1 \in JobAt(w, t)
    BY <1>5, <1>6
  <2>2. NoJob(t)'
    BY <1>5, <2>1 DEF InOnePlace, OneJob, NoJob
  <2>3. ReqAt(t) = {} /\ AnsAt(t) = {} /\ PendAt(t) = {}
    BY <2>1 DEF InOnePlace, NoJob
  <2>4. AnsAt(t)' \subseteq {Len(response_queue) + 1}
    BY <1>0, <1>3, <2>3 DEF AnsAt, PassedOn
  <2>5. OneJob(t)'
    BY <2>2 DEF NoJob, OneJob
  <2>6. One(AnsAt(t)')
    BY <2>4 DEF One
  <2>7. ~ Nowhere(t)
    BY <2>1 DEF Nowhere, NoJob
  <2>8. QED
    BY <1>2, <1>4, <2>2, <2>3, <2>5, <2>6, <2>7 DEF Moves, InOnePlace, One
<1>7. CASE job.task # t
  <2>1. AnsAt(t)' = AnsAt(t)
    BY <1>0, <1>3, <1>7 DEF AnsAt, PassedOn
  <2>2. (NoJob(t) => NoJob(t)') /\ (OneJob(t) => OneJob(t)')
    <3>1. NoJob(t) => NoJob(t)'
      BY <1>5 DEF NoJob
    <3>2. ASSUME OneJob(t), NEW u \in Workers, NEW v \in Workers, NEW a \in JobAt(u, t)', NEW b \in JobAt(v, t)'
          PROVE  u = v /\ a = b
      <4>1. /\ u # w => a \in JobAt(u, t)
            /\ v # w => b \in JobAt(v, t)
            /\ u = w => a \in Nat /\ a + 1 \in JobAt(w, t)
            /\ v = w => b \in Nat /\ b + 1 \in JobAt(w, t)
        BY <1>5, <3>2
      <4>2. u = v
        BY <3>2, <4>1 DEF OneJob
      <4>3. a = b
        <5>1. CASE u = w
          <6>1. a + 1 = b + 1 /\ a \in Nat /\ b \in Nat
            BY <3>2, <4>1, <4>2, <5>1 DEF OneJob
          <6>2. QED
            BY <6>1
        <5>2. CASE u # w
          BY <3>2, <4>1, <4>2, <5>2 DEF OneJob
        <5>3. QED
          BY <5>1, <5>2
      <4>4. QED
        BY <4>2, <4>3
    <3>3. QED
      BY <3>1, <3>2 DEF OneJob
  <2>3. QED
    BY <1>2, <1>4, <2>1, <2>2 DEF Moves, InOnePlace, Nowhere
<1>8. QED
  BY <1>6, <1>7

\* A handler that passes its message on: the message stops to count, and was the
\* only carrier of its task.
LEMMA MessagePassedOn ==
    ASSUME Typing, NEW t \in Tasks, InOnePlace(t), NEW h \in Handlers,
           UNCHANGED <<request_queue, response_queue>>,
           pc[h] = "decide" \/ (h = "response" /\ pc[h] = "task_failed"),
           \E q \in {"mark", "callback", "ack"} : pc' = [pc EXCEPT ![h] = q]
    PROVE  /\ ReqAt(t)' \subseteq ReqAt(t) /\ AnsAt(t)' \subseteq AnsAt(t)
           /\ TaskOf(h) = t => /\ ReqAt(t)' = {} /\ AnsAt(t)' = {} /\ PendAt(t) = {} /\ NoJob(t)
                               /\ ~ Nowhere(t)
<1>0. pc \in [Handlers -> PCs]
  BY QueueTypes
<1>1. ReqAt(t)' \subseteq ReqAt(t) /\ AnsAt(t)' \subseteq AnsAt(t)
  BY <1>0 DEF ReqAt, AnsAt, Where, PassedOn, Handlers
<1>2. ASSUME TaskOf(h) = t, h = "request"
      PROVE  /\ ReqAt(t)' = {} /\ AnsAt(t)' = {} /\ PendAt(t) = {} /\ NoJob(t)
             /\ ~ Nowhere(t)
  <2>1. 1 \in ReqAt(t)
    BY <1>2, HeadCarries DEF ReqAt, PassedOn
  <2>2. 1 \notin ReqAt(t)'
    BY <1>0, <1>2 DEF ReqAt, PassedOn
  <2>3. AnsAt(t) = {} /\ PendAt(t) = {} /\ NoJob(t) /\ One(ReqAt(t))
    BY <2>1 DEF InOnePlace
  <2>4. QED
    BY <1>1, <2>1, <2>2, <2>3 DEF One, Nowhere
<1>3. ASSUME TaskOf(h) = t, h = "response"
      PROVE  /\ ReqAt(t)' = {} /\ AnsAt(t)' = {} /\ PendAt(t) = {} /\ NoJob(t)
             /\ ~ Nowhere(t)
  <2>1. 1 \in AnsAt(t)
    BY <1>3, HeadCarries DEF AnsAt, PassedOn, TaskOf
  <2>2. 1 \notin AnsAt(t)'
    BY <1>0, <1>3 DEF AnsAt, PassedOn
  <2>3. ReqAt(t) = {} /\ PendAt(t) = {} /\ NoJob(t) /\ One(AnsAt(t))
    BY <2>1 DEF InOnePlace
  <2>4. QED
    BY <1>1, <2>1, <2>2, <2>3 DEF One, Nowhere
<1>4. QED
  BY <1>1, <1>2, <1>3 DEF Handlers

\* A job that finds no worker joins the pending list.
LEMMA DeferMoves ==
    ASSUME Typing, NEW t \in Tasks, InOnePlace(t), NEW h \in Handlers, Defer(h)
    PROVE  Moves(t)
<1>0. /\ pc[h] = "decide" /\ pc' = [pc EXCEPT ![h] = "ack"] /\ pc \in [Handlers -> PCs]
      /\ UNCHANGED <<request_queue, response_queue, worker_queue>>
  BY QueueTypes DEF Defer, At, Goto, queueVars
<1>1. PICK f \in view[h].waiting : pending_requests' = Append(pending_requests, NextJob(h, f))
  BY DEF Defer, FirstOf
<1>2. NextJob(h, f) \in Job /\ (NextJob(h, f) \in OfTask(t) <=> TaskOf(h) = t)
  BY <1>0, NextJobTyped DEF OfTask, NextJob
<1>3. /\ TaskOf(h) # t => Where(pending_requests', OfTask(t)) = Where(pending_requests, OfTask(t))
      /\ Where(pending_requests', OfTask(t)) \subseteq Where(pending_requests, OfTask(t)) \cup {Len(pending_requests) + 1}
  BY <1>1, <1>2, QueueTypes, WhereAppend
<1>4. Taken \subseteq Taken'
  <2>. DEFINE P == PendingFor(TypeOf[Answered.worker])
  <2>1. ASSUME NEW k \in Taken PROVE k \in Taken'
    <3>1. k \in FirstOf(P) /\ pc["response"] = "mark_pending"
      BY <2>1 DEF Taken
    <3>2. k \in P /\ \A j \in P : k <= j
      BY <3>1 DEF FirstOf
    <3>3. P' \subseteq P \cup {Len(pending_requests) + 1} /\ P \subseteq P' /\ P \subseteq 1..Len(pending_requests)
      BY <1>0, <1>1, <1>2, QueueTypes DEF PendingFor, Answered
    <3>4. k \in FirstOf(P')
      BY <3>2, <3>3, QueueTypes DEF FirstOf
    <3>5. pc'["response"] = "mark_pending"
      BY <1>0, <3>1 DEF Handlers
    <3>6. QED
      BY <3>4, <3>5 DEF Taken, FirstOf
  <2>2. QED
    BY <2>1
<1>5. \A w \in Workers : JobAt(w, t)' = JobAt(w, t)
  BY <1>0 DEF JobAt, Where
<1>6. CASE TaskOf(h) = t
  <2>1. ReqAt(t)' = {} /\ AnsAt(t)' = {} /\ PendAt(t) = {} /\ NoJob(t) /\ ~ Nowhere(t)
    BY <1>0, <1>6, MessagePassedOn
  <2>2. PendAt(t)' \subseteq {Len(pending_requests) + 1}
    BY <1>3, <1>4, <2>1 DEF PendAt, OfTask
  <2>3. NoJob(t)' /\ OneJob(t)'
    BY <1>5, <2>1 DEF NoJob, OneJob
  <2>4. QED
    BY <2>1, <2>2, <2>3 DEF Moves, InOnePlace, One
<1>7. CASE TaskOf(h) # t
  <2>1. ReqAt(t)' \subseteq ReqAt(t) /\ AnsAt(t)' \subseteq AnsAt(t)
    BY <1>0, MessagePassedOn
  <2>2. PendAt(t)' \subseteq PendAt(t)
    BY <1>3, <1>4, <1>7 DEF PendAt, OfTask
  <2>3. QED
    BY <1>5, <2>1, <2>2, PositionsKept, KeptMoves
<1>8. QED
  BY <1>6, <1>7
\* A published job goes to one worker, or nowhere.
LEMMA JobPublished ==
    ASSUME Typing, NEW t \in Tasks, NEW w \in Workers, NEW job \in Job, PublishJob(w, job)
    PROVE  /\ job.task # t => \A v \in Workers : JobAt(v, t)' = JobAt(v, t)
           /\ NoJob(t) => OneJob(t)'
<1>1. worker_queue[w] \in Seq(Job) /\ (job \in OfTask(t) <=> job.task = t)
  BY QueueTypes DEF OfTask
<1>2. /\ \A v \in Workers : v # w => worker_queue'[v] = worker_queue[v]
      /\ worker_queue'[w] \in {worker_queue[w], Append(worker_queue[w], job)}
  BY QueueTypes DEF PublishJob
<1>3. /\ job.task # t => JobAt(w, t)' = JobAt(w, t)
      /\ JobAt(w, t)' \subseteq JobAt(w, t) \cup {Len(worker_queue[w]) + 1}
  <2>. DEFINE q == worker_queue[w]
  <2>1. /\ job.task # t => Where(Append(q, job), OfTask(t)) = Where(q, OfTask(t))
        /\ job.task = t => Where(Append(q, job), OfTask(t)) = Where(q, OfTask(t)) \cup {Len(q) + 1}
    BY <1>1, WhereAppend
  <2>2. worker_queue'[w] = q \/ worker_queue'[w] = Append(q, job)
    BY <1>2
  <2>3. QED
    BY <2>1, <2>2 DEF JobAt
<1>4. \A v \in Workers : v # w => JobAt(v, t)' = JobAt(v, t)
  BY <1>2 DEF JobAt, Where
<1>5. QED
  BY <1>3, <1>4 DEF NoJob, OneJob

\* A job for which a worker is registered goes to its queue.
LEMMA DispatchMoves ==
    ASSUME Typing, NEW t \in Tasks, InOnePlace(t), NEW h \in Handlers, Dispatch(h)
    PROVE  Moves(t)
<1>0. /\ pc[h] = "decide" /\ pc' = [pc EXCEPT ![h] = "mark"] /\ pc \in [Handlers -> PCs]
      /\ UNCHANGED <<request_queue, response_queue, pending_requests>>
  BY QueueTypes DEF Dispatch, At, Goto, KeepQueues
<1>1. PICK f \in view[h].waiting, w \in Workers : PublishJob(w, NextJob(h, f))
  <2>1. available_workers \subseteq Workers
    BY DEF Typing, TypeOK, BrokerTypeOK
  <2>2. QED
    BY <2>1 DEF Dispatch, FirstOf, Registered
<1>2. NextJob(h, f) \in Job /\ NextJob(h, f).task = TaskOf(h)
  BY <1>0, NextJobTyped DEF NextJob
<1>3. PendAt(t)' = PendAt(t)
  BY <1>0 DEF PendAt, Taken, Where, Answered, PendingFor, FirstOf, Handlers
<1>4. CASE TaskOf(h) = t
  <2>1. ReqAt(t)' = {} /\ AnsAt(t)' = {} /\ PendAt(t) = {} /\ NoJob(t) /\ ~ Nowhere(t)
    BY <1>0, <1>4, MessagePassedOn
  <2>2. OneJob(t)'
    BY <1>1, <1>2, <2>1, JobPublished
  <2>3. QED
    BY <1>3, <2>1, <2>2 DEF Moves, InOnePlace, One
<1>5. CASE TaskOf(h) # t
  <2>1. ReqAt(t)' \subseteq ReqAt(t) /\ AnsAt(t)' \subseteq AnsAt(t)
    BY <1>0, MessagePassedOn
  <2>2. \A v \in Workers : JobAt(v, t)' = JobAt(v, t)
    BY <1>1, <1>2, <1>5, JobPublished
  <2>3. QED
    BY <1>3, <2>1, <2>2, PositionsKept, KeptMoves
<1>6. QED
  BY <1>4, <1>5

\* The oldest pending job of its type goes to the worker that was heard of.
LEMMA PendingMoves ==
    ASSUME Typing, Undisturbed, NEW t \in Tasks, InOnePlace(t), DeliverStartup \/ PendingAfterAnswer
    PROVE  Moves(t)
<1>. DEFINE w == Answered.worker
            P == PendingFor(TypeOf[w])
<1>0. /\ pc["response"] \in {"idle", "pending"} /\ pc \in [Handlers -> PCs]
      /\ UNCHANGED <<request_queue, response_queue, pending_requests>>
      /\ w \in Workers
  BY QueueTypes, InProgress DEF DeliverStartup, PendingAfterAnswer, DeliverResponse, At, KeepQueues,
     Typing, InFlight, InFlightAt
<1>2. ~ Spend({"handler_error"})
  BY NoBrokerFaultPaid
<1>3. ASSUME NEW done \in {"ack", "read"}, Goto("response", done), UNCHANGED worker_queue PROVE Moves(t)
  BY <1>0, <1>3, ControlMoves DEF Goto, PassedOn, Handlers
<1>4. ASSUME NEW i \in FirstOf(P), PublishJob(w, pending_requests[i]), Goto("response", "mark_pending")
      PROVE  Moves(t)
  <2>1. i \in DOMAIN pending_requests /\ pending_requests[i] \in Job
    BY QueueTypes DEF FirstOf, PendingFor
  <2>2. Taken = {} /\ i \in Taken'
    BY <1>0, <1>4 DEF Taken, Answered, PendingFor, FirstOf, Goto, Handlers
  <2>3. PendAt(t)' \subseteq PendAt(t) \ {i}
    BY <1>0, <2>2 DEF PendAt, Where, OfTask
  <2>4. ReqAt(t)' = ReqAt(t) /\ AnsAt(t)' = AnsAt(t)
    BY <1>0, <1>4 DEF ReqAt, AnsAt, Where, PassedOn, Goto, Handlers
  <2>5. CASE pending_requests[i].task = t
    <3>1. i \in PendAt(t)
      BY <2>1, <2>2, <2>5 DEF PendAt, Where, OfTask
    <3>2. PendAt(t)' = {} /\ ReqAt(t) = {} /\ AnsAt(t) = {} /\ NoJob(t) /\ ~ Nowhere(t)
      BY <2>3, <3>1 DEF InOnePlace, One, Nowhere
    <3>3. OneJob(t)'
      BY <1>0, <1>4, <2>1, <3>2, JobPublished
    <3>4. QED
      BY <2>4, <3>2, <3>3 DEF Moves, InOnePlace, One
  <2>6. CASE pending_requests[i].task # t
    <3>1. \A v \in Workers : JobAt(v, t)' = JobAt(v, t)
      BY <1>0, <1>4, <2>1, <2>6, JobPublished
    <3>2. QED
      BY <2>3, <2>4, <3>1, PositionsKept, KeptMoves
  <2>7. QED
    BY <2>5, <2>6
<1>5. ASSUME NEW R, NEW done \in {"ack", "read"}, DispatchPending(w, R, done) PROVE Moves(t)
  <2>1. \A i : i \in FirstOf({j \in P : \E v \in R : TypeOf[v] = TypeOf[w]}) => i \in FirstOf(P)
    BY DEF FirstOf
  <2>2. QED
    BY <1>2, <1>3, <1>4, <1>5, <2>1 DEF DispatchPending
<1>6. QED
  BY <1>5 DEF DeliverStartup, PendingAfterAnswer

\* The API publishes a task once, after nothing else carries it.
LEMMA ApiMoves ==
    ASSUME Typing, NEW t \in Tasks, InOnePlace(t), NEW u \in Tasks, Api(u),
           submission[t] # "accepted" => Nowhere(t)
    PROVE  \/ Moves(t)
           \/ submission'[t] = "accepted" /\ submission[t] # "accepted" /\ InOnePlace(t)'
<1>1. CASE StoreAudio(u) \/ InsertSubmission(u) \/ PublishFails(u)
  BY <1>1, OutsideMoves DEF Api, StoreAudio, InsertSubmission, PublishFails, queueVars, brokerVars
<1>2. CASE PublishTask(u)
  <2>1. /\ request_queue' = Append(request_queue, u)
        /\ UNCHANGED <<response_queue, pending_requests, worker_queue, pc>>
        /\ submission[u] = "inserted" /\ submission' = [submission EXCEPT ![u] = "accepted"]
    BY <1>2 DEF Api, PublishTask, Advance, brokerVars
  <2>2. /\ AnsAt(t)' = AnsAt(t) /\ PendAt(t)' = PendAt(t)
        /\ \A w \in Workers : JobAt(w, t)' = JobAt(w, t)
    BY <2>1 DEF AnsAt, PendAt, JobAt, Where, PassedOn, Taken, Answered, PendingFor, FirstOf
  <2>3. CASE u = t
    <3>1. Nowhere(t) /\ submission'[t] = "accepted" /\ submission[t] # "accepted"
      BY <2>1, <2>3 DEF Typing, TypeOK, ApiTypeOK
    <3>2. ReqAt(t)' \subseteq {1, Len(request_queue) + 1}
                 /\ (1 \in ReqAt(t)' => 1 = Len(request_queue) + 1)
      <4>1. Where(request_queue', {t}) = Where(request_queue, {t}) \cup {Len(request_queue) + 1}
        BY <2>1, <2>3, QueueTypes, WhereAppend
      <4>2. \A i \in Where(request_queue, {t}) : i = 1 /\ PassedOn("request")
        BY <3>1 DEF Nowhere, ReqAt
      <4>3. UNCHANGED PassedOn("request")
        BY <2>1 DEF PassedOn
      <4>4. QED
        BY <4>1, <4>2, <4>3 DEF ReqAt
    <3>3. One(ReqAt(t)')
      BY <3>2 DEF One
    <3>4. NoJob(t)' /\ OneJob(t)'
      BY <2>2, <3>1 DEF NoJob, OneJob, Nowhere
    <3>5. InOnePlace(t)'
      BY <2>2, <3>1, <3>3, <3>4 DEF InOnePlace, Nowhere, One
    <3>6. QED
      BY <3>1, <3>5
  <2>4. CASE u # t
    <3>1. ReqAt(t)' = ReqAt(t)
      <4>1. Where(request_queue', {t}) = Where(request_queue, {t})
        BY <2>1, <2>4, QueueTypes, WhereAppend
      <4>2. QED
        BY <2>1, <4>1 DEF ReqAt, PassedOn
    <3>2. QED
      BY <2>2, <3>1, PositionsKept, KeptMoves
  <2>5. QED
    BY <2>3, <2>4
<1>3. QED
  BY <1>1, <1>2 DEF Api, ApiStep
-----------------------------------------------------------------------------
(* Every step                                                              *)

\* Every step keeps a task in one place, and a submission becomes accepted when
\* it is first put in one.
LEMMA StepMoves ==
    ASSUME Typing, Undisturbed, FlightInv, [Next]_vars, NEW t \in Tasks
    PROVE  \/ Moves(t)
           \/ submission'[t] = "accepted" /\ submission[t] # "accepted" /\ InOnePlace(t)'
<1>0. InOnePlace(t) /\ (submission[t] # "accepted" => Nowhere(t))
  BY DEF FlightInv
<1>1. ASSUME NEW u \in Tasks, Api(u)
      PROVE  \/ Moves(t)
             \/ submission'[t] = "accepted" /\ submission[t] # "accepted" /\ InOnePlace(t)'
  BY <1>0, <1>1, ApiMoves
<1>2. ASSUME NEW w \in Workers, Begin(w) \/ Beat(w) \/ Work(w) \/ Leave(w) PROVE Moves(t)
  BY <1>0, <1>2, WorkerMoves, WorkMoves
<1>3. CASE HandleRequest \/ HandleResponse
  BY <1>0, <1>3, HandlerMoves, StatusHandledMoves, PendingMoves, MarkPendingMoves DEF HandleRequest, HandleResponse
<1>4. ASSUME NEW h \in Handlers, DispatchNextFeature(h) \/ Acknowledge(h) PROVE Moves(t)
  BY <1>0, <1>4, HandlerMoves, DeferMoves, DispatchMoves, AcknowledgeMoves DEF DispatchNextFeature
<1>5. CASE Expire
  BY <1>0, <1>5, OutsideMoves DEF Expire, PrintStats, GrowLate, queueVars
<1>6. CASE Fault
  <2>1. PICK u \in Tasks : DeleteAudio(u) /\ UNCHANGED brokerVars
    BY <1>6, UndisturbedStep DEF Fault
  <2>2. QED
    BY <1>0, <2>1, OutsideMoves DEF DeleteAudio, brokerVars
<1>7. CASE UNCHANGED vars
  BY <1>0, <1>7, OutsideMoves DEF vars, queueVars, brokerVars
<1>8. QED
  BY <1>1, <1>2, <1>3, <1>4, <1>5, <1>6, <1>7, UndisturbedStep DEF Next, Broker, BrokerStep, Restart

\* Who writes the status of a task: its insert, the handler that accepts it, and
\* one that passes its message on by settling it.
LEMMA StatusEffect ==
    ASSUME Typing, [Next]_vars, NEW t \in Tasks, taskStatus'[t] # taskStatus[t]
    PROVE  \/ taskStatus[t] = "none" /\ taskStatus'[t] = "WAITING"
           \/ taskStatus[t] # "none" /\ taskStatus'[t] = "PROCESSING" /\ pc["request"] = "accept" /\ TaskOf("request") = t
           \/ \E h \in Handlers :
                 /\ taskStatus[t] # "none"
                 /\ pc[h] = "decide" \/ (h = "response" /\ pc[h] = "task_failed")
                 /\ \E q \in {"callback", "ack"} : pc' = [pc EXCEPT ![h] = q]
                 /\ UNCHANGED <<request_queue, response_queue, pending_requests, worker_queue>>
                 /\ TaskOf(h) = t
<1>0. taskStatus \in [Tasks -> TaskStatuses]
  BY DEF Typing, TypeOK, StoreTypeOK
<1>1. ASSUME NEW u \in Tasks, InsertSubmission(u) PROVE taskStatus[t] = "none" /\ taskStatus'[t] = "WAITING"
  BY <1>0, <1>1 DEF InsertSubmission, InsertTask, HasRow
<1>2. ASSUME AcceptRequest
      PROVE  taskStatus[t] # "none" /\ taskStatus'[t] = "PROCESSING" /\ pc["request"] = "accept" /\ TaskOf("request") = t
  BY <1>0, <1>2 DEF AcceptRequest, UpdateTask, HasRow, At
<1>3. ASSUME TaskFailed
      PROVE  /\ taskStatus[t] # "none" /\ pc["response"] = "task_failed" /\ pc' = [pc EXCEPT !["response"] = "ack"]
             /\ UNCHANGED <<request_queue, response_queue, pending_requests, worker_queue>>
             /\ TaskOf("response") = t
  BY <1>0, <1>3 DEF TaskFailed, UpdateTask, HasRow, At, Goto, TaskOf, queueVars
<1>4. ASSUME NEW h \in Handlers, FinishFailed(h) \/ FinishReady(h)
      PROVE  /\ taskStatus[t] # "none" /\ pc[h] = "decide" /\ \E q \in {"callback", "ack"} : pc' = [pc EXCEPT ![h] = q]
             /\ UNCHANGED <<request_queue, response_queue, pending_requests, worker_queue>>
             /\ TaskOf(h) = t
  BY <1>0, <1>4 DEF FinishFailed, FinishReady, UpdateTask, HasRow, At, Goto, queueVars
<1>5. ~ (FeatureFailed \/ FeatureReady \/ MarkPending \/ \E h \in Handlers : MarkDispatched(h))
  BY DEF FeatureFailed, FeatureReady, MarkPending, MarkDispatched, UpdateFeature
<1>6. QED
  BY <1>1, <1>2, <1>3, <1>4, <1>5, StoreFrame DEF StoreStep, storeVars, Handlers

\* Whoever writes the status of an inserted task holds its only carrier, and a
\* task that settles is carried nowhere afterwards.
LEMMA StatusWriter ==
    ASSUME Typing, [Next]_vars, NEW t \in Tasks, InOnePlace(t),
           taskStatus'[t] # taskStatus[t], taskStatus[t] # "none"
    PROVE  ~ Nowhere(t) /\ (Settled(t)' => Nowhere(t)')
<1>1. CASE taskStatus'[t] = "PROCESSING" /\ pc["request"] = "accept" /\ TaskOf("request") = t
  <2>1. 1 \in ReqAt(t)
    BY <1>1, HeadCarries DEF ReqAt, PassedOn
  <2>2. QED
    BY <1>1, <2>1 DEF Nowhere, Settled
<1>2. ASSUME NEW h \in Handlers, NEW q \in {"callback", "ack"},
             pc[h] = "decide" \/ (h = "response" /\ pc[h] = "task_failed"),
             pc' = [pc EXCEPT ![h] = q],
             UNCHANGED <<request_queue, response_queue, pending_requests, worker_queue>>, TaskOf(h) = t
      PROVE  ~ Nowhere(t) /\ Nowhere(t)'
  <2>1. ReqAt(t)' = {} /\ AnsAt(t)' = {} /\ PendAt(t) = {} /\ NoJob(t) /\ ~ Nowhere(t)
    BY <1>2, MessagePassedOn
  <2>2. PendAt(t)' = PendAt(t)
    BY <1>2, QueueTypes DEF PendAt, Taken, Where, Answered, PendingFor, FirstOf, Handlers
  <2>3. NoJob(t)'
    BY <1>2, <2>1 DEF NoJob, JobAt, Where
  <2>4. QED
    BY <2>1, <2>2, <2>3 DEF Nowhere
<1>3. QED
  BY <1>1, <1>2, StatusEffect

\* Accepted submissions stay accepted, and a task without row is not accepted.
LEMMA SubmissionStep ==
    ASSUME Typing, [Next]_vars, NEW t \in Tasks, submission[t] = "accepted"
    PROVE  submission'[t] = "accepted"
<1>1. submission \in [Tasks -> Submissions]
  BY DEF Typing, TypeOK, ApiTypeOK
<1>2. ASSUME NEW u \in Tasks, Api(u) PROVE submission'[t] = "accepted"
  BY <1>1, <1>2 DEF Api, ApiStep, StoreAudio, InsertSubmission, PublishTask, PublishFails, Advance
<1>3. ASSUME NEW w \in Workers, Begin(w) \/ Beat(w) \/ Work(w) \/ Leave(w) PROVE UNCHANGED submission
  BY <1>3 DEF Begin, Beat, Work, Leave, apiVars
<1>4. CASE Broker \/ Restart \/ Expire
  BY <1>4 DEF Broker, Restart, Expire, apiVars
<1>5. CASE Fault
  BY <1>5 DEF Fault, DeleteAudio, apiVars
<1>6. CASE UNCHANGED vars
  BY <1>6 DEF vars, apiVars
<1>7. QED
  BY <1>2, <1>3, <1>4, <1>5, <1>6 DEF Next

\* The induction step.
LEMMA FlightStep ==
    ASSUME Typing, Undisturbed, FlightInv, [Next]_vars
    PROVE  FlightInv'
<1>. SUFFICES ASSUME NEW t \in Tasks
              PROVE  /\ InOnePlace(t)'
                     /\ Settled(t)' => Nowhere(t)'
                     /\ submission'[t] # "accepted" => Nowhere(t)' /\ ~ Settled(t)'
  BY DEF FlightInv
<1>0. /\ InOnePlace(t) /\ (Settled(t) => Nowhere(t))
      /\ submission[t] # "accepted" => Nowhere(t) /\ ~ Settled(t)
  BY DEF FlightInv
<1>1. \/ InOnePlace(t)' /\ (Nowhere(t) => Nowhere(t)')
      \/ submission'[t] = "accepted" /\ submission[t] # "accepted" /\ InOnePlace(t)'
  BY StepMoves DEF Moves
<1>2. Settled(t)' /\ ~ Settled(t) => ~ Nowhere(t) /\ Nowhere(t)'
  <2>1. ASSUME taskStatus'[t] # taskStatus[t], taskStatus[t] = "none" PROVE ~ Settled(t)'
    BY <2>1, StatusEffect DEF Settled
  <2>2. QED
    BY <1>0, <2>1, StatusWriter DEF Settled
<1>3. submission[t] = "accepted" => submission'[t] = "accepted"
  BY SubmissionStep
<1>4. QED
  BY <1>0, <1>1, <1>2, <1>3

\* In the beginning no task is anywhere.
LEMMA FlightInit == Init /\ NoBrokerFault => Undisturbed /\ FlightInv
<1>. SUFFICES ASSUME Init, NoBrokerFault PROVE Undisturbed /\ FlightInv
  OBVIOUS
<1>1. Undisturbed
  BY DEF Init, NoBrokerFault, Undisturbed, BrokerInit, FaultsInit
<1>2. ASSUME NEW t \in Tasks PROVE Nowhere(t)
  BY DEF Init, QueuesInit, BrokerInit, Nowhere, NoJob, ReqAt, AnsAt, PendAt, JobAt, Where
<1>3. ASSUME NEW t \in Tasks PROVE InOnePlace(t) /\ ~ Settled(t)
  BY <1>2 DEF Init, StoreInit, Settled, InOnePlace, Nowhere, NoJob, OneJob, One
<1>4. QED
  BY <1>1, <1>2, <1>3 DEF FlightInv

\* Where the tasks are, in every state of a broker that is not disturbed.
THEOREM FlightCorrect == Spec /\ NoBrokerFault => [](Typing /\ Undisturbed /\ FlightInv)
<1>1. Typing /\ Undisturbed /\ FlightInv /\ [Next]_vars => (Typing /\ Undisturbed /\ FlightInv)'
  BY TypingStep, UndisturbedStep, FlightStep
<1>2. Init /\ NoBrokerFault => Typing /\ Undisturbed /\ FlightInv
  BY TypingInit, FlightInit
<1>3. QED
  BY <1>1, <1>2, PTL DEF Spec

\* The carriers of a task are the places the invariant is about.
LEMMA CarriersAt ==
    ASSUME Typing, NEW t \in Tasks, NEW c \in Carriers(t)
    PROVE  \/ \E i \in ReqAt(t)  : c = <<"request", 1, i>>
           \/ \E i \in AnsAt(t)  : c = <<"answer", 1, i>>
           \/ \E i \in PendAt(t) : c = <<"pending", 1, i>>
           \/ \E w \in Workers : \E i \in JobAt(w, t) : c = <<"job", w, i>>
<1>1. /\ \A j \in DOMAIN response_queue : response_queue[j] \in Response
      /\ \A j \in DOMAIN pending_requests : pending_requests[j] \in Job
      /\ \A w \in Workers : \A j \in DOMAIN worker_queue[w] : worker_queue[w][j] \in Job
  BY QueueTypes
<1>2. CASE \E j \in DOMAIN request_queue : /\ c = <<"request", 1, j>> /\ request_queue[j] = t
                                          /\ ~ (j = 1 /\ PassedOn("request"))
  BY <1>2 DEF ReqAt, Where
<1>3. CASE \E j \in DOMAIN response_queue : /\ c = <<"answer", 1, j>> /\ response_queue[j].task = t
                                           /\ ~ (j = 1 /\ PassedOn("response"))
  BY <1>1, <1>3 DEF AnsAt, Where, OfTask
<1>4. CASE \E j \in DOMAIN pending_requests :
              /\ c = <<"pending", 1, j>> /\ pending_requests[j].task = t
              /\ ~ (pc["response"] = "mark_pending" /\ j \in FirstOf(PendingFor(TypeOf[Answered.worker])))
  BY <1>1, <1>4 DEF PendAt, Where, OfTask, Taken
<1>5. CASE \E w \in Workers : \E j \in DOMAIN worker_queue[w] :
              c = <<"job", w, j>> /\ worker_queue[w][j].task = t
  BY <1>1, <1>5 DEF JobAt, Where, OfTask
<1>6. QED
  BY <1>2, <1>3, <1>4, <1>5 DEF Carriers

\* A task is in one place at a time and in none once settled (SingleFlight),
\* as long as the broker runs on: dispatch_next_feature is called only by the
\* handler that holds the task's only message, so no feature is given out twice,
\* even when an answer overtakes the mark of its own dispatch.
THEOREM OneCarrierAtMost == Spec /\ NoBrokerFault => []SingleFlight
<1>1. ASSUME Typing, FlightInv PROVE SingleFlight
  <2>. SUFFICES ASSUME NEW t \in Tasks
                PROVE  Cardinality(Carriers(t)) <= IF Settled(t) THEN 0 ELSE 1
    BY DEF SingleFlight
  <2>0. InOnePlace(t) /\ (Settled(t) => Nowhere(t))
    BY <1>1 DEF FlightInv
  <2>1. ASSUME NEW c \in Carriers(t), NEW d \in Carriers(t) PROVE c = d
    BY <1>1, <2>0, CarriersAt DEF InOnePlace, One, OneJob, NoJob
  <2>2. CASE Carriers(t) = {}
    BY <2>2, FS_EmptySet
  <2>3. CASE Carriers(t) # {}
    <3>1. PICK c : Carriers(t) = {c}
      BY <2>1, <2>3
    <3>2. Cardinality(Carriers(t)) = 1
      BY <3>1, FS_Singleton
    <3>3. ~ Nowhere(t)
      BY <1>1, <2>3, CarriersAt DEF Nowhere, NoJob
    <3>4. QED
      BY <2>0, <3>2, <3>3
  <2>4. QED
    BY <2>2, <2>3
<1>2. QED
  BY <1>1, FlightCorrect, PTL

\* A READY task stays READY and a FAILED one stays FAILED: whoever could write
\* the status again would have to hold a carrier of the task, and none is left.
THEOREM SettledForGood ==
    Spec /\ NoBrokerFault => [][\A t \in Tasks : Settled(t) => taskStatus'[t] = taskStatus[t]]_vars
<1>. DEFINE Same == \A t \in Tasks : Settled(t) => taskStatus'[t] = taskStatus[t]
<1>1. Typing /\ FlightInv /\ [Next]_vars => Same
  BY StatusWriter DEF FlightInv, Settled
<1>2. QED
  BY <1>1, FlightCorrect, PTL DEF Spec

\* In particular a task that was aborted never turns READY (AbortedStaysAborted).
THEOREM AbortedForGood == Spec /\ NoBrokerFault => AbortedStaysAborted
<1>1. ASSUME \A t \in Tasks : Settled(t) => taskStatus'[t] = taskStatus[t]
      PROVE  \A t \in Tasks : taskStatus[t] = "FAILED" => taskStatus'[t] = "FAILED"
  BY <1>1 DEF Settled
<1>2. QED
  BY <1>1, SettledForGood, PTL DEF AbortedStaysAborted
=============================================================================
