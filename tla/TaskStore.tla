----------------------------- MODULE TaskStore ------------------------------
(***************************************************************************)
(* The PostgreSQL tables (src/db/models.py) and the TaskService operations *)
(* on them (src/db/service.py).  Every TaskService call opens one session  *)
(* and commits it when it returns (db.py, get_db_session), so a call is    *)
(* one atomic step; a call that raises rolls back and changes nothing.     *)
(*                                                                         *)
(* A feature is identified by its order_idx, diarization being the first.  *)
(* A Results document is abstracted to the set of features whose output it *)
(* contains; None, the absent document, is the empty set.                  *)
(***************************************************************************)
EXTENDS Naturals, FiniteSets

CONSTANTS Tasks,        \* the task_uuids clients may obtain
          NumFeatures   \* number of rows of the features table

ASSUME TasksAssumption == IsFiniteSet(Tasks)
ASSUME FeaturesAssumption == NumFeatures \in Nat \ {0}

Features    == 1..NumFeatures
Diarization == 1
Results     == SUBSET Features
None        == {}

\* "none" is a row that does not exist.  NOT_SET is only the default of the
\* response model TaskRead and is never stored.
TaskStatuses    == {"none", "WAITING", "PROCESSING", "READY", "FAILED"}
FeatureStatuses == {"none", "WAITING", "PROCESSING", "READY", "FAILED"}

VARIABLES
    taskId,       \* Task.id of each task, 0 when it has no row
    taskStatus,   \* Task.status
    featStatus,   \* FeaturesInTask.status, "none" where the task has no such row
    featResult,   \* FeaturesInTask.result_data
    finalResult   \* TaskResultsFinal.result_data

storeVars == <<taskId, taskStatus, featStatus, featResult, finalResult>>

StoreInit ==
    /\ taskId      = [t \in Tasks |-> 0]
    /\ taskStatus  = [t \in Tasks |-> "none"]
    /\ featStatus  = [t \in Tasks |-> [f \in Features |-> "none"]]
    /\ featResult  = [t \in Tasks |-> [f \in Features |-> None]]
    /\ finalResult = [t \in Tasks |-> None]

StoreTypeOK ==
    /\ taskId      \in [Tasks -> Nat]
    /\ taskStatus  \in [Tasks -> TaskStatuses]
    /\ featStatus  \in [Tasks -> [Features -> FeatureStatuses]]
    /\ featResult  \in [Tasks -> [Features -> Results]]
    /\ finalResult \in [Tasks -> Results]

-----------------------------------------------------------------------------
\* The smallest and the largest element of a set of numbers, as a set that is
\* empty when the set is.
LastOf(S)  == {m \in S : \A n \in S : n <= m}
FirstOf(S) == {m \in S : \A n \in S : m <= n}

HasRow(t)         == taskStatus[t] # "none"
Requested(t)      == {f \in Features : featStatus[t][f] # "none"}
WithStatus(t, s)  == {f \in Features : featStatus[t][f] = s}

-----------------------------------------------------------------------------
\* Mutant: the task is inserted with the default status of TaskRead.
InsertTaskNotSet(t, wanted) ==
    /\ ~ HasRow(t)
    /\ taskId' = [taskId EXCEPT ![t] = Cardinality({u \in Tasks : HasRow(u)}) + 1]
    /\ taskStatus' = [taskStatus EXCEPT ![t] = "NOT_SET"]
    /\ featStatus' = [featStatus EXCEPT ![t] =
                         [f \in Features |-> IF f \in wanted THEN "WAITING" ELSE "none"]]
    /\ UNCHANGED <<featResult, finalResult>>

\* insert_task_with_features: the task and one WAITING row per feature found,
\* in one transaction.  The serial primary key numbers the rows.
InsertTask(t, wanted) ==
    /\ ~ HasRow(t)
    /\ wanted # {}
    /\ taskId' = [taskId EXCEPT ![t] = Cardinality({u \in Tasks : HasRow(u)}) + 1]
    /\ taskStatus' = [taskStatus EXCEPT ![t] = "WAITING"]
    /\ featStatus' = [featStatus EXCEPT ![t] =
                         [f \in Features |-> IF f \in wanted THEN "WAITING" ELSE "none"]]
    /\ UNCHANGED <<featResult, finalResult>>

\* update_feature_status_by_type: no effect without a row; the stored result is
\* replaced only when one is given.
UpdateFeature(t, f, status, result) ==
    /\ featStatus' = IF featStatus[t][f] = "none"
                        THEN featStatus
                        ELSE [featStatus EXCEPT ![t][f] = status]
    /\ featResult' = IF featStatus[t][f] = "none" \/ result = None
                        THEN featResult
                        ELSE [featResult EXCEPT ![t][f] = result]
    /\ UNCHANGED <<taskId, taskStatus, finalResult>>

\* update_task: sets the status, and creates or replaces the final result when
\* one is given.
UpdateTask(t, status, results) ==
    /\ taskStatus' = IF HasRow(t) THEN [taskStatus EXCEPT ![t] = status] ELSE taskStatus
    /\ finalResult' = IF ~ HasRow(t) \/ results = None
                         THEN finalResult
                         ELSE [finalResult EXCEPT ![t] = results]
    /\ UNCHANGED <<taskId, featStatus, featResult>>

-----------------------------------------------------------------------------
\* The document of the last feature of S, None when S is empty.
ResultOfLast(t, S) == UNION {featResult[t][f] : f \in LastOf(S)}

\* What dispatch_next_feature keeps of get_features_for_task: the WAITING
\* features, whether one FAILED, and the result of the last READY one.
FeaturesView == [waiting : SUBSET Features, failed : BOOLEAN, existing : Results]
NoView       == [waiting |-> {}, failed |-> FALSE, existing |-> None]

\* Mutant: prior_results[0] for prior_results[-1].
FeaturesOfFirstResult(t) ==
    [waiting  |-> WithStatus(t, "WAITING"),
     failed   |-> WithStatus(t, "FAILED") # {},
     existing |-> UNION {featResult[t][f] : f \in FirstOf(WithStatus(t, "READY"))}]

FeaturesOf(t) ==
    [waiting  |-> WithStatus(t, "WAITING"),
     failed   |-> WithStatus(t, "FAILED") # {},
     existing |-> ResultOfLast(t, WithStatus(t, "READY"))]

\* The payload of a feature job; get_pending_feature_requests and
\* dispatch_feature build the same one.
Job == [task : Tasks, feature : Features, existing : Results]

\* get_pending_feature_requests: for every task that has WAITING features, the
\* first of them, with the last result its READY features have stored.
RecoverableRequests ==
    {[task     |-> p[1],
      feature  |-> p[2],
      existing |-> ResultOfLast(p[1], {g \in WithStatus(p[1], "READY") : featResult[p[1]][g] # None})]
        : p \in {q \in Tasks \X Features : q[2] \in FirstOf(WithStatus(q[1], "WAITING"))}}

\* ORDER BY Task.id: the enumerations of a set of requests in that order (one,
\* since the primary keys are distinct).
InTaskIdOrder(requests) ==
    {s \in [1..Cardinality(requests) -> requests] :
        \A i, j \in DOMAIN s : i < j => taskId[s[i].task] < taskId[s[j].task]}
=============================================================================
