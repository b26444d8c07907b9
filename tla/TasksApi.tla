------------------------------ MODULE TasksApi ------------------------------
(***************************************************************************)
(* The FastAPI endpoints that change state (src/routers/tasks.py).         *)
(* create_audio_task uploads the audio, inserts the task and publishes it, *)
(* three awaited calls in this order with nothing that undoes the earlier  *)
(* ones when a later one fails.  A request whose process dies, or whose     *)
(* upload or insert fails, simply takes no further step.                   *)
(***************************************************************************)
EXTENDS MessageQueues, Faults

CONSTANT FeatureChoices     \* the feature lists clients submit

ASSUME ChoicesAssumption == FeatureChoices \subseteq (SUBSET Features) \ {{}}

VARIABLE submission         \* how far the submission of each task is

apiVars == <<submission>>

Submissions == {"new", "stored", "inserted", "accepted", "error"}

ApiInit   == submission = [t \in Tasks |-> "new"]
ApiTypeOK == submission \in [Tasks -> Submissions]

Advance(t, from, to) ==
    /\ submission[t] = from
    /\ submission' = [submission EXCEPT ![t] = to]

StoreAudio(t) ==
    /\ Advance(t, "new", "stored")
    /\ files' = files \cup {t}
    /\ UNCHANGED <<storeVars, request_queue, response_queue, callback_queue,
                   worker_queue, bound, budget>>

InsertSubmission(t) ==
    /\ Advance(t, "stored", "inserted")
    /\ \E wanted \in FeatureChoices : InsertTask(t, wanted)
    /\ UNCHANGED <<queueVars, budget>>

\* Mutant: the publish is repeated although the first one went through.
PublishTaskTwice(t) ==
    /\ Advance(t, "inserted", "accepted")
    /\ request_queue' = request_queue \o <<t, t>>
    /\ UNCHANGED <<storeVars, response_queue, callback_queue, worker_queue, bound,
                   files, budget>>

\* 202 Accepted.
PublishTask(t) ==
    /\ Advance(t, "inserted", "accepted")
    /\ request_queue' = Append(request_queue, t)
    /\ UNCHANGED <<storeVars, response_queue, callback_queue, worker_queue, bound,
                   files, budget>>

\* Status 500 (or the API process dies): the row stays, and the file.
PublishFails(t) ==
    /\ Advance(t, "inserted", "error")
    /\ Spend({"publish_error"})
    /\ UNCHANGED <<storeVars, queueVars>>

\* delete_task_audio_file, by a client that was given the task_uuid, whatever
\* the task is doing.
DeleteAudio(t) ==
    /\ submission[t] = "accepted"
    /\ t \in files
    /\ Spend({"delete_file"})
    /\ files' = files \ {t}
    /\ UNCHANGED <<storeVars, request_queue, response_queue, callback_queue,
                   worker_queue, bound, submission>>

\* task_status, of the status that its first transaction has read and the result
\* that its second one reads later: it assigns the message of its answer only in
\* these cases.  In any other the name is unbound and the request ends in status 500.
HasStatusMessage(status, result) ==
    \/ status = "READY" /\ result # None
    \/ status = "PROCESSING" /\ result = None
    \/ status = "FAILED"

ApiStep(t) == StoreAudio(t) \/ InsertSubmission(t) \/ PublishTask(t) \/ PublishFails(t)
=============================================================================
