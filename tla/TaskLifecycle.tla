---------------------------- MODULE TaskLifecycle ----------------------------
(***************************************************************************)
(* What the system promises to a client that polls a task: its features    *)
(* are computed one after the other in their order, the first failure      *)
(* aborts it, and it settles once, as READY with the results of everything *)
(* it asked for or as FAILED.  There is no broker, queue or worker here;   *)
(* ConversationAnalyzer is shown to implement this.                        *)
(***************************************************************************)
EXTENDS Naturals

CONSTANTS Tasks,        \* the tasks clients may submit
          Features,     \* the features, numbered in the order they are computed in
          Choices       \* the feature lists clients submit

VARIABLES
    phase,      \* status of each task, "none" before it is submitted
    stage,      \* status of each of its features, "none" when it was not asked for
    report      \* the features whose output the final result contains

vars == <<phase, stage, report>>

Phases == {"none", "WAITING", "PROCESSING", "READY", "FAILED"}

Wanted(t) == {f \in Features : stage[t][f] # "none"}
In(t, s)  == {f \in Features : stage[t][f] = s}

Init ==
    /\ phase  = [t \in Tasks |-> "none"]
    /\ stage  = [t \in Tasks |-> [f \in Features |-> "none"]]
    /\ report = [t \in Tasks |-> {}]

Submit(t) ==
    /\ phase[t] = "none"
    /\ phase' = [phase EXCEPT ![t] = "WAITING"]
    /\ \E wanted \in Choices :
          stage' = [stage EXCEPT ![t] = [f \in Features |->
                       IF f \in wanted THEN "WAITING" ELSE "none"]]
    /\ UNCHANGED report

Accept(t) ==
    /\ phase[t] = "WAITING"
    /\ phase' = [phase EXCEPT ![t] = "PROCESSING"]
    /\ UNCHANGED <<stage, report>>

Move(t, f, from, to) ==
    /\ phase[t] = "PROCESSING"
    /\ stage[t][f] = from
    /\ stage' = [stage EXCEPT ![t][f] = to]
    /\ UNCHANGED <<phase, report>>

\* The next feature starts when everything before it is READY.
Start(t) ==
    \E f \in Features :
        /\ Move(t, f, "WAITING", "PROCESSING")
        /\ \A g \in Wanted(t) : g < f => stage[t][g] = "READY"

Complete(t) == \E f \in Features : Move(t, f, "PROCESSING", "READY")
Break(t)    == \E f \in Features : Move(t, f, "PROCESSING", "FAILED")

Abort(t) ==
    /\ phase[t] = "PROCESSING"
    /\ In(t, "FAILED") # {}
    /\ phase' = [phase EXCEPT ![t] = "FAILED"]
    /\ UNCHANGED <<stage, report>>

Finish(t) ==
    /\ phase[t] = "PROCESSING"
    /\ Wanted(t) = In(t, "READY")
    /\ phase' = [phase EXCEPT ![t] = "READY"]
    /\ report' = [report EXCEPT ![t] = Wanted(t)]
    /\ UNCHANGED stage

Next == \E t \in Tasks :
            \/ Submit(t) \/ Accept(t) \/ Start(t)
            \/ Complete(t) \/ Break(t) \/ Abort(t) \/ Finish(t)

Spec == Init /\ [][Next]_vars
=============================================================================
