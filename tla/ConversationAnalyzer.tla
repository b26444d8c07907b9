------------------------ MODULE ConversationAnalyzer ------------------------
(***************************************************************************)
(* The analyser: API, broker and AI workers around the store, the queues   *)
(* and the file storage.  Nothing but those three is shared.               *)
(***************************************************************************)
EXTENDS TasksApi, AudioWorker, BrokerWorker

CONSTANT PromptMarks
    \* TRUE: no worker answers a job before the broker's update to PROCESSING
    \* that follows the publish of that job has committed.  The code does not
    \* wait for it; a model that runs for seconds makes it likely.

ASSUME PromptAssumption == PromptMarks \in BOOLEAN

vars == <<storeVars, queueVars, apiVars, workerVars, brokerVars, budget>>

Init == /\ StoreInit /\ QueuesInit /\ FaultsInit
        /\ ApiInit /\ WorkerInit /\ BrokerInit

TypeOK == /\ StoreTypeOK /\ QueuesTypeOK /\ ApiTypeOK /\ WorkerTypeOK /\ BrokerTypeOK
          /\ budget \in [FaultKinds -> Nat]

-----------------------------------------------------------------------------
\* A handler has published a job of t and not yet marked it.
UnmarkedBy(h, t) ==
    \/ pc[h] = "mark" /\ TaskOf(h) = t
    \/ /\ h = "response" /\ pc[h] = "mark_pending"
       /\ \E i \in FirstOf(PendingFor(TypeOf[Answered.worker])) : pending_requests[i].task = t

MayAnswer(w) ==
    PromptMarks => \A h \in Handlers : ~ UnmarkedBy(h, Head(worker_queue[w]).task)

Api(t) == ApiStep(t) /\ UNCHANGED <<workerVars, brokerVars>>

Work(w) == ProcessTask(w) /\ MayAnswer(w) /\ UNCHANGED <<apiVars, brokerVars>>

\* Bound: the heartbeats that find the broker up to date about a worker, and
\* would change nothing, are left out; those of a closing worker are kept.
HeartbeatNews(w) == w \in available_workers \ late => wstate[w] = "closing"

Beat(w) == Heartbeat(w) /\ HeartbeatNews(w) /\ UNCHANGED <<apiVars, brokerVars>>

Begin(w) == StartWorker(w) /\ UNCHANGED <<apiVars, brokerVars>>

Leave(w) == (Shutdown(w) \/ CloseConnection(w)) /\ UNCHANGED <<apiVars, brokerVars>>

Broker == BrokerStep /\ UNCHANGED <<apiVars, workerVars>>

Restart == BrokerStart /\ UNCHANGED <<apiVars, workerVars>>

\* _print_stats, and the clock it reads.
Expire == /\ \/ PrintStats
             \/ \E w \in Workers : GrowLate(w, Running(w))
          /\ UNCHANGED <<apiVars, workerVars>>

Fault == \/ (\E h \in Handlers : HandlerError(h)) /\ UNCHANGED <<apiVars, workerVars>>
         \/ BrokerCrash /\ UNCHANGED <<apiVars, workerVars>>
         \/ (\E t \in Tasks : DeleteAudio(t)) /\ UNCHANGED <<workerVars, brokerVars>>

Next == \/ \E t \in Tasks : Api(t)
        \/ \E w \in Workers : Begin(w) \/ Beat(w) \/ Work(w) \/ Leave(w)
        \/ Broker \/ Restart \/ Expire \/ Fault

Spec == Init /\ [][Next]_vars

\* The event loops run, docker restarts the broker, the workers the deployment
\* needs are started, jobs end, connections close, clocks advance.  Clients
\* and faults owe nothing, except that a stored submission goes on.
Fairness ==
    /\ \A t \in Tasks : WF_vars(Api(t))
    /\ \A w \in Workers :
          /\ WF_vars(Begin(w))
          /\ WF_vars(Beat(w))
          /\ WF_vars(Work(w))
          /\ WF_vars(CloseConnection(w) /\ wstate[w] = "closing" /\ UNCHANGED <<apiVars, brokerVars>>)
    /\ WF_vars(HandleRequest /\ UNCHANGED <<apiVars, workerVars>>)
    /\ WF_vars(HandleResponse /\ UNCHANGED <<apiVars, workerVars>>)
    /\ \A h \in Handlers :
          /\ WF_vars(DispatchNextFeature(h) /\ UNCHANGED <<apiVars, workerVars>>)
          /\ WF_vars(Acknowledge(h) /\ UNCHANGED <<apiVars, workerVars>>)
    /\ WF_vars(Restart)
    /\ \A w \in Workers : WF_vars(GrowLate(w, Running(w)) /\ ~ Running(w) /\ UNCHANGED <<apiVars, workerVars>>)
    /\ WF_vars(PrintStats /\ UNCHANGED <<apiVars, workerVars>>)

FairSpec == Spec /\ Fairness

-----------------------------------------------------------------------------
(* Properties                                                              *)

Settled(t) == taskStatus[t] \in {"READY", "FAILED"}

\* What still owes task t a step: its request, a pending or published job, or
\* an answer.  The message a handler works on stops counting once the handler
\* has passed the task on (to a worker or to the pending list) or settled it.
PassedOn(h) == pc[h] \in {"mark", "callback", "ack"}

Carriers(t) ==
    {<<"request", 1, i>> : i \in {j \in DOMAIN request_queue :
        request_queue[j] = t /\ ~ (j = 1 /\ PassedOn("request"))}}
    \cup
    {<<"answer", 1, i>> : i \in {j \in DOMAIN response_queue :
        response_queue[j].task = t /\ ~ (j = 1 /\ PassedOn("response"))}}
    \cup
    {<<"pending", 1, i>> : i \in {j \in DOMAIN pending_requests :
        /\ pending_requests[j].task = t
        /\ ~ (/\ pc["response"] = "mark_pending"
              /\ j \in FirstOf(PendingFor(TypeOf[Answered.worker])))}}
    \cup
    UNION {{<<"job", w, i>> : i \in {j \in DOMAIN worker_queue[w] :
        worker_queue[w][j].task = t}} : w \in Workers}

\* A task is worked on in one place at a time, and nowhere once it is READY or
\* FAILED: no handler dispatches a feature that is pending, running or answered
\* already, whatever the order in which requests, answers and startups arrive.
SingleFlight ==
    \A t \in Tasks : Cardinality(Carriers(t)) <= IF Settled(t) THEN 0 ELSE 1

\* An accepted task that is neither READY nor FAILED is still carried by a
\* message, a pending entry or a job; while the broker is down a WAITING row
\* will do, since the next start recovers it.
TaskNotLost ==
    \A t \in Tasks : submission[t] = "accepted" /\ ~ Settled(t) =>
        \/ Carriers(t) # {}
        \/ ~ broker_up /\ WithStatus(t, "WAITING") # {}

\* get_pending_feature_requests: "features within a task are processed
\* sequentially".  A feature leaves WAITING only when all before it are READY.
FeaturesInOrder ==
    \A t \in Tasks : \A f, g \in Requested(t) :
        f < g /\ featStatus[t][g] # "WAITING" => featStatus[t][f] = "READY"

\* dispatch_next_feature: the last feature's result "contains all previous and
\* current results".  The final result of a READY task has the output of every
\* requested feature.
FinalResultWhole ==
    \A t \in Tasks : taskStatus[t] = "READY" => finalResult[t] = Requested(t)

\* "All features done for task": a READY task has such a result, and every
\* requested feature is READY, then and afterwards.
FinalResultComplete ==
    /\ FinalResultWhole
    /\ \A t \in Tasks : taskStatus[t] = "READY" => Requested(t) = WithStatus(t, "READY")

\* Every job a worker holds, and every one pending, carries the output of all
\* the requested features before its own, also when it was built long before
\* it is dispatched.
JobsCarryEarlierResults ==
    LET jobs == UNION {{q[i] : i \in DOMAIN q} :
                       q \in {worker_queue[w] : w \in Workers} \cup {pending_requests}}
    IN  \A job \in jobs : job.existing = {g \in Requested(job.task) : g < job.feature}

\* handle_worker_response: "Task aborted."  A FAILED task stays FAILED.
AbortedStaysAborted ==
    [][\A t \in Tasks : taskStatus[t] = "FAILED" => taskStatus'[t] = "FAILED"]_vars

\* The one way to lose a task while the broker stays up: the feature it is stuck
\* in was given to a worker that is gone, with the worker's private queue or after
\* it, when the broker still had the worker on its list.
LostOnlyWithItsWorker ==
    \A t \in Tasks : submission[t] = "accepted" /\ ~ Settled(t) /\ Carriers(t) = {} =>
        \E w \in Workers :
            /\ wstate[w] = "gone"
            /\ featStatus[t][TypeOf[w]] \in {"WAITING", "PROCESSING"}
            /\ \A g \in Requested(t) : g < TypeOf[w] => featStatus[t][g] = "READY"

\* A poll reads the status of a task in one transaction and its result in a later
\* one, and anything may happen in between.  It finds a message for what it has read,
\* unless the task was PROCESSING at the first read and has become READY before the
\* second: READY is always read with a result, however late, and a PROCESSING task
\* that a poll has no message for is a finished one, so that the next poll has.
\* (FAILED needs no result; a poll that reads WAITING always ends in status 500.)
PollAnswered ==
    \A t \in Tasks : \A status \in {"PROCESSING", "READY"} :
        [](taskStatus[t] = status =>
              [](\/ HasStatusMessage(status, finalResult[t])
                 \/ status = "PROCESSING" /\ taskStatus[t] = "READY"))

\* A task that is READY, and one whose callback was queued, has no WAITING
\* feature, although the handler that finished it decided on a snapshot that
\* the other handler, a crash or a redelivery may have outdated.
ReadyNothingWaiting ==
    \A t \in Tasks :
        (taskStatus[t] = "READY" \/ \E i \in DOMAIN callback_queue : callback_queue[i].task = t)
            => WithStatus(t, "WAITING") = {}

\* README: "Before any other AI service model can be used Diarization needs to
\* be processed first."  A stored result contains its own feature and the
\* diarization it was built on, and, like a final result, only features whose
\* result is stored for the same task.
BuiltOnDiarization ==
    \A t \in Tasks :
        LET stored == {f \in Features : featResult[t][f] # None}
        IN  /\ \A f \in stored : {Diarization, f} \subseteq featResult[t][f]
            /\ \A f \in stored : featResult[t][f] \subseteq stored
            /\ finalResult[t] \subseteq stored

\* The whole analyser implements the life cycle a client is promised: every step
\* of handlers, workers, queues and clocks is one of its steps or none.
Lifecycle == INSTANCE TaskLifecycle WITH
                 Choices <- FeatureChoices,
                 phase   <- taskStatus,
                 stage   <- featStatus,
                 report  <- finalResult

ImplementsLifecycle == Lifecycle!Spec

\* Every accepted task becomes READY or FAILED.
EveryTaskSettles ==
    \A t \in Tasks : submission[t] = "accepted" ~> Settled(t)

\* Publishing the callback is the last step of the flow for a READY task that
\* was submitted with a callback_url.
CallbackQueued ==
    \A t \in WithCallback :
        taskStatus[t] = "READY" ~> \E i \in DOMAIN callback_queue : callback_queue[i].task = t

\* A worker process that is gone is removed for good, although a heartbeat it
\* sent after its shutdown status registers it again.
GoneWorkersForgotten ==
    \A w \in Workers : wstate[w] = "gone" ~> [](w \notin available_workers)
=============================================================================
