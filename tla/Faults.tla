------------------------------- MODULE Faults -------------------------------
(***************************************************************************)
(* Everything the environment may do to the analyser that the code cannot  *)
(* prevent, and how often.  Every step that needs the environment to       *)
(* misbehave pays for it here, so that the number of faults in a behaviour *)
(* is a bound of the instance (Budget) and the theorems hold for every     *)
(* bound.                                                                  *)
(***************************************************************************)
EXTENDS Naturals

FaultKinds == {
    "broker_crash",     \* the broker process dies, or is stopped, and loses its memory
    "worker_exit",      \* an AI worker process crashes or is stopped
    "late_heartbeat",   \* a live worker is not heard of for more than 100 seconds
    "inference_error",  \* a model fails on an input it was given
    "lost_status",      \* send_status fails to publish, which it only logs
    "handler_error",    \* a database or queue call of a broker handler raises
    "publish_error",    \* the API cannot publish the accepted task
    "storage_error",    \* MinIO fails while a worker reads the audio file
    "delete_file"}      \* a client deletes the audio file of a task

CONSTANT Budget         \* how many faults of each kind may happen

ASSUME BudgetAssumption == Budget \in [FaultKinds -> Nat]

VARIABLE budget         \* how many faults of each kind may still happen

\* The step pays for one fault of every kind in kinds.
Spend(kinds) ==
    /\ \A k \in kinds : budget[k] > 0
    /\ budget' = [k \in FaultKinds |->
                     IF k \in kinds THEN budget[k] - 1 ELSE budget[k]]

FaultsInit == budget = Budget
=============================================================================
