----------------------- MODULE MCConversationAnalyzer -----------------------
(***************************************************************************)
(* Instances of ConversationAnalyzer for TLC: two tasks, the features      *)
(* diarization (1) and a second one that needs it (2), and a worker for    *)
(* each.                                                                   *)
(***************************************************************************)
EXTENDS ConversationAnalyzer, TLC

CONSTANTS t1, t2, d1, e1

OneOfEach == (d1 :> 1) @@ (e1 :> 2)
OneDiarizer == d1 :> 1

OnlyBoth == {{1, 2}}
DiarizationOrBoth == {{1}, {1, 2}}
AnyFeatures == {{1}, {2}, {1, 2}}
JustDiarization == {{1}}

OneOf(S) == [k \in FaultKinds |-> IF k \in S THEN 1 ELSE 0]

NoFaults == OneOf({})
OrderlyFaults == OneOf({"worker_exit", "late_heartbeat", "inference_error"})
LossFaults == OneOf({"broker_crash", "handler_error", "lost_status", "publish_error",
                     "storage_error", "delete_file"})
CrashOnly == OneOf({"broker_crash"})
ExitOnly == OneOf({"worker_exit"})

TasksAlike == Permutations(Tasks)
=============================================================================
