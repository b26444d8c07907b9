---------------------------- MODULE OrderProofs ----------------------------
(***************************************************************************)
(* The features of a task are computed in their order, and the analyser    *)
(* implements TaskLifecycle: for any number of tasks, features and         *)
(* workers, as long as the broker neither crashes nor fails in a handler   *)
(* and marks a job before it is answered.  FlightProofs says that a task   *)
(* has one carrier; here is what this carrier knows.                       *)
(***************************************************************************)
EXTENDS FlightProofs

Earlier(t, f) == {g \in Requested(t) : g < f}
UpTo(t, f)    == {g \in Requested(t) : g <= f}

\* Nothing of t is being computed, and nothing failed.
Quiet(t) == \A f \in Requested(t) : featStatus[t][f] \in {"WAITING", "READY"}

\* f is the next feature of t, or the one being computed.
Due(t, f) == Quiet(t) /\ f \in FirstOf(WithStatus(t, "WAITING"))

Working(t, f) ==
    /\ featStatus[t][f] = "PROCESSING"
    /\ \A g \in Requested(t) \ {f} : featStatus[t][g] \in {"WAITING", "READY"}

\* The rows of a task.
Ordered(t) ==
    \A f, g \in Requested(t) : f < g /\ featStatus[t][g] # "WAITING" => featStatus[t][f] = "READY"

Documented(t) ==
    /\ \A f \in WithStatus(t, "READY") : featResult[t][f] = UpTo(t, f)
    /\ WithStatus(t, "READY") # {} => LastOf(WithStatus(t, "READY")) # {}

Reported(t) ==
    IF taskStatus[t] = "READY"
       THEN finalResult[t] = Requested(t) /\ Requested(t) = WithStatus(t, "READY")
       ELSE finalResult[t] = None

RowsInv(t) ==
    /\ Ordered(t)
    /\ Documented(t)
    /\ Reported(t)
    /\ HasRow(t) <=> Requested(t) # {}
    /\ taskStatus[t] = "WAITING" => Quiet(t)

SameRows(t) ==
    /\ taskStatus'[t] = taskStatus[t] /\ featStatus'[t] = featStatus[t]
    /\ featResult'[t] = featResult[t] /\ finalResult'[t] = finalResult[t]

\* What the life cycle of a task goes through in a step.
LifeStep(t) ==
    \/ taskStatus'[t] = taskStatus[t] /\ featStatus'[t] = featStatus[t] /\ finalResult'[t] = finalResult[t]
    \/ /\ taskStatus[t] = "none" /\ taskStatus'[t] = "WAITING" /\ finalResult'[t] = finalResult[t]
       /\ \E wanted \in FeatureChoices :
             featStatus'[t] = [f \in Features |-> IF f \in wanted THEN "WAITING" ELSE "none"]
    \/ /\ taskStatus[t] = "WAITING" /\ taskStatus'[t] = "PROCESSING"
       /\ featStatus'[t] = featStatus[t] /\ finalResult'[t] = finalResult[t]
    \/ /\ taskStatus[t] = "PROCESSING" /\ taskStatus'[t] = "PROCESSING" /\ finalResult'[t] = finalResult[t]
       /\ \E f \in Requested(t) :
             \/ /\ featStatus[t][f] = "WAITING" /\ featStatus'[t] = [featStatus[t] EXCEPT ![f] = "PROCESSING"]
                /\ \A g \in Requested(t) : g < f => featStatus[t][g] = "READY"
             \/ /\ featStatus[t][f] = "PROCESSING"
                /\ \E s \in {"READY", "FAILED"} : featStatus'[t] = [featStatus[t] EXCEPT ![f] = s]
    \/ /\ taskStatus[t] = "PROCESSING" /\ taskStatus'[t] = "FAILED" /\ WithStatus(t, "FAILED") # {}
       /\ featStatus'[t] = featStatus[t] /\ finalResult'[t] = finalResult[t]
    \/ /\ taskStatus[t] = "PROCESSING" /\ taskStatus'[t] = "READY" /\ Requested(t) = WithStatus(t, "READY")
       /\ featStatus'[t] = featStatus[t] /\ finalResult'[t] = Requested(t)

-----------------------------------------------------------------------------
(* What the rows say                                                       *)

\* Everything about the rows of a task survives a step that leaves them alone.
LEMMA RowsFrame ==
    ASSUME NEW t \in Tasks, SameRows(t)
    PROVE  /\ Requested(t)' = Requested(t) /\ Quiet(t)' = Quiet(t)
           /\ \A s : WithStatus(t, s)' = WithStatus(t, s)
           /\ \A f : Earlier(t, f)' = Earlier(t, f) /\ UpTo(t, f)' = UpTo(t, f)
           /\ \A f : Due(t, f)' = Due(t, f) /\ Working(t, f)' = Working(t, f)
           /\ FeaturesOf(t)' = FeaturesOf(t)
           /\ RowsInv(t)' = RowsInv(t)
<1>. USE DEF SameRows
<1>1. Requested(t)' = Requested(t) /\ \A s : WithStatus(t, s)' = WithStatus(t, s)
  BY DEF Requested, WithStatus
<1>2. Quiet(t)' = Quiet(t) /\ \A f : Earlier(t, f)' = Earlier(t, f) /\ UpTo(t, f)' = UpTo(t, f)
  BY <1>1 DEF Quiet, Earlier, UpTo
<1>3. \A f : Due(t, f)' = Due(t, f) /\ Working(t, f)' = Working(t, f)
  BY <1>1, <1>2 DEF Due, Working, FirstOf
<1>4. FeaturesOf(t)' = FeaturesOf(t)
  BY <1>1 DEF FeaturesOf, ResultOfLast, LastOf
<1>5. Ordered(t)' = Ordered(t)
  BY <1>1 DEF Ordered
<1>6. Documented(t)' = Documented(t)
  BY <1>1, <1>2 DEF Documented, LastOf
<1>7. Reported(t)' = Reported(t) /\ HasRow(t)' = HasRow(t)
  BY <1>1 DEF Reported, HasRow
<1>8. QED
  BY <1>1, <1>2, <1>3, <1>4, <1>5, <1>6, <1>7 DEF RowsInv

\* The last result of a quiet task has everything before its next feature, or
\* everything there is.
LEMMA LastResult ==
    ASSUME Typing, NEW t \in Tasks, RowsInv(t), Quiet(t)
    PROVE  /\ \A f \in Features : Due(t, f) => FeaturesOf(t).existing = Earlier(t, f)
           /\ WithStatus(t, "WAITING") = {} => FeaturesOf(t).existing = Requested(t)
           /\ FeaturesOf(t).failed = FALSE
<1>. DEFINE R == WithStatus(t, "READY")
<1>1. FeaturesOf(t).existing = UNION {featResult[t][f] : f \in LastOf(R)} /\ (FeaturesOf(t).failed <=> WithStatus(t, "FAILED") # {})
  BY DEF FeaturesOf, ResultOfLast
<1>2. R = {} => FeaturesOf(t).existing = {}
  BY <1>1 DEF LastOf
<1>3. ASSUME R # {} PROVE \E m \in R : FeaturesOf(t).existing = UpTo(t, m) /\ \A n \in R : n <= m
  <2>1. PICK m \in LastOf(R) : TRUE
    BY <1>3 DEF RowsInv, Documented
  <2>2. m \in R /\ \A n \in R : n <= m
    BY <2>1 DEF LastOf
  <2>3. R \subseteq Nat
    BY DEF WithStatus, Features
  <2>4. LastOf(R) = {m}
    BY <2>1, <2>2, <2>3 DEF LastOf
  <2>5. featResult[t][m] = UpTo(t, m)
    BY <2>2 DEF RowsInv, Documented
  <2>6. QED
    BY <1>1, <2>2, <2>4, <2>5
<1>4. /\ R \subseteq Requested(t) /\ Requested(t) \subseteq R \cup WithStatus(t, "WAITING")
      /\ Requested(t) \subseteq Nat /\ WithStatus(t, "WAITING") \subseteq Requested(t)
      /\ R \cap WithStatus(t, "WAITING") = {}
  BY DEF Quiet, Requested, WithStatus, Features
<1>5. ASSUME NEW f \in Features, Due(t, f) PROVE FeaturesOf(t).existing = Earlier(t, f)
  <2>1. f \in WithStatus(t, "WAITING") /\ \A n \in WithStatus(t, "WAITING") : f <= n
    BY <1>5 DEF Due, FirstOf
  <2>2. \A g \in R : g < f
    <3>1. ASSUME NEW g \in R, ~ (g < f) PROVE FALSE
      <4>1. f < g /\ f \in Requested(t) /\ g \in Requested(t)
        BY <1>4, <2>1, <3>1
      <4>2. featStatus[t][g] = "READY" /\ featStatus[t][f] = "WAITING"
        BY <2>1 DEF WithStatus
      <4>3. QED
        BY <4>1, <4>2 DEF RowsInv, Ordered
    <3>2. QED
      BY <3>1
  <2>3. Earlier(t, f) = R
    BY <1>4, <2>1, <2>2 DEF Earlier
  <2>4. CASE R = {}
    BY <1>2, <2>3, <2>4
  <2>5. CASE R # {}
    <3>1. PICK m \in R : FeaturesOf(t).existing = UpTo(t, m) /\ \A n \in R : n <= m
      BY <1>3, <2>5
    <3>2. UpTo(t, m) = R
      <4>1. \A g \in Requested(t) : g <= m => g < f
        BY <1>4, <2>1, <2>2
      <4>2. QED
        BY <1>4, <2>3, <3>1, <4>1 DEF UpTo, Earlier
    <3>3. QED
      BY <2>3, <3>1, <3>2
  <2>6. QED
    BY <2>4, <2>5
<1>6. ASSUME WithStatus(t, "WAITING") = {} PROVE FeaturesOf(t).existing = Requested(t)
  <2>1. R = Requested(t)
    BY <1>4, <1>6
  <2>2. CASE R = {}
    BY <1>2, <2>1, <2>2
  <2>3. CASE R # {}
    <3>1. PICK m \in R : FeaturesOf(t).existing = UpTo(t, m) /\ \A n \in R : n <= m
      BY <1>3, <2>3
    <3>2. QED
      BY <2>1, <3>1 DEF UpTo
  <2>4. QED
    BY <2>2, <2>3
<1>7. WithStatus(t, "FAILED") = {}
  BY DEF Quiet, Requested, WithStatus
<1>8. QED
  BY <1>1, <1>5, <1>6, <1>7

-----------------------------------------------------------------------------
(* What the writes do to the rows                                          *)

\* A call of the TaskService writes the rows of its task only.
LEMMA OtherRows ==
    ASSUME Typing, NEW t \in Tasks, NEW u \in Tasks, t # u
    PROVE  /\ \A wanted : InsertTask(u, wanted) => SameRows(t)
           /\ \A f \in Features : \A s, r : UpdateFeature(u, f, s, r) => SameRows(t)
           /\ \A s, r : UpdateTask(u, s, r) => SameRows(t)
BY DEF SameRows, InsertTask, UpdateFeature, UpdateTask, Typing, TypeOK, StoreTypeOK

\* And these, when it has them.
LEMMA OwnRows ==
    ASSUME Typing, NEW t \in Tasks
    PROVE  /\ \A wanted : InsertTask(t, wanted) =>
                 /\ taskStatus'[t] = "WAITING"
                 /\ featStatus'[t] = [f \in Features |-> IF f \in wanted THEN "WAITING" ELSE "none"]
                 /\ featResult'[t] = featResult[t] /\ finalResult'[t] = finalResult[t]
           /\ \A f \in Features : \A s, r : UpdateFeature(t, f, s, r) /\ f \in Requested(t) =>
                 /\ featStatus'[t] = [featStatus[t] EXCEPT ![f] = s]
                 /\ r = None => featResult'[t] = featResult[t]
                 /\ r # None => featResult'[t] = [featResult[t] EXCEPT ![f] = r]
                 /\ taskStatus'[t] = taskStatus[t] /\ finalResult'[t] = finalResult[t]
           /\ \A s, r : UpdateTask(t, s, r) /\ HasRow(t) =>
                 /\ taskStatus'[t] = s
                 /\ r = None => finalResult'[t] = finalResult[t]
                 /\ r # None => finalResult'[t] = r
                 /\ featStatus'[t] = featStatus[t] /\ featResult'[t] = featResult[t]
<1>. USE DEF Typing, TypeOK, StoreTypeOK
<1>1. ASSUME NEW wanted, InsertTask(t, wanted)
      PROVE  /\ taskStatus'[t] = "WAITING"
             /\ featStatus'[t] = [f \in Features |-> IF f \in wanted THEN "WAITING" ELSE "none"]
             /\ featResult'[t] = featResult[t] /\ finalResult'[t] = finalResult[t]
  BY <1>1 DEF InsertTask
<1>2. ASSUME NEW f \in Features, NEW s, NEW r, UpdateFeature(t, f, s, r), f \in Requested(t)
      PROVE  /\ featStatus'[t] = [featStatus[t] EXCEPT ![f] = s]
             /\ r = None => featResult'[t] = featResult[t]
             /\ r # None => featResult'[t] = [featResult[t] EXCEPT ![f] = r]
             /\ taskStatus'[t] = taskStatus[t] /\ finalResult'[t] = finalResult[t]
  BY <1>2 DEF UpdateFeature, Requested
<1>3. ASSUME NEW s, NEW r, UpdateTask(t, s, r), HasRow(t)
      PROVE  /\ taskStatus'[t] = s
             /\ r = None => finalResult'[t] = finalResult[t]
             /\ r # None => finalResult'[t] = r
             /\ featStatus'[t] = featStatus[t] /\ featResult'[t] = featResult[t]
  BY <1>3 DEF UpdateTask
<1>4. QED
  BY <1>1, <1>2, <1>3

\* The rows of a task that is inserted.
LEMMA RowsInserted ==
    ASSUME Typing, NEW t \in Tasks, RowsInv(t), NEW wanted \in FeatureChoices, InsertTask(t, wanted)
    PROVE  RowsInv(t)' /\ taskStatus'[t] = "WAITING"
<1>0. wanted \subseteq Features /\ wanted # {} /\ ~ HasRow(t)
  BY ChoicesAssumption DEF InsertTask
<1>1. /\ taskStatus'[t] = "WAITING"
      /\ featStatus'[t] = [f \in Features |-> IF f \in wanted THEN "WAITING" ELSE "none"]
      /\ finalResult'[t] = finalResult[t] /\ finalResult[t] = None
  BY <1>0, OwnRows DEF RowsInv, Reported, HasRow
<1>2. /\ Requested(t)' = wanted /\ WithStatus(t, "READY")' = {}
      /\ \A f \in wanted : featStatus'[t][f] = "WAITING"
  BY <1>0, <1>1 DEF Requested, WithStatus
<1>3. QED
  BY <1>0, <1>1, <1>2 DEF RowsInv, Ordered, Documented, Reported, Quiet, HasRow

\* Those of a task whose status is set without a result.
LEMMA RowsSettled ==
    ASSUME Typing, NEW t \in Tasks, RowsInv(t), HasRow(t), NEW s \in {"PROCESSING", "FAILED"},
           taskStatus[t] # "READY", UpdateTask(t, s, None)
    PROVE  /\ RowsInv(t)' /\ taskStatus'[t] = s /\ Quiet(t)' = Quiet(t)
           /\ featStatus'[t] = featStatus[t] /\ finalResult'[t] = finalResult[t]
<1>1. /\ taskStatus'[t] = s /\ finalResult'[t] = finalResult[t]
      /\ featStatus'[t] = featStatus[t] /\ featResult'[t] = featResult[t]
  BY OwnRows
<1>2. Requested(t)' = Requested(t) /\ \A x : WithStatus(t, x)' = WithStatus(t, x)
  BY <1>1 DEF Requested, WithStatus
<1>3. Quiet(t)' = Quiet(t) /\ Ordered(t)' = Ordered(t)
  BY <1>1, <1>2 DEF Quiet, Ordered
<1>4. Documented(t)' = Documented(t)
  BY <1>1, <1>2 DEF Documented, LastOf, UpTo
<1>5. QED
  BY <1>1, <1>2, <1>3, <1>4 DEF RowsInv, Reported, HasRow

\* Those of a task that is finished with everything it asked for.
LEMMA RowsFinished ==
    ASSUME Typing, NEW t \in Tasks, RowsInv(t), HasRow(t), Quiet(t), WithStatus(t, "WAITING") = {},
           UpdateTask(t, "READY", Requested(t))
    PROVE  /\ RowsInv(t)' /\ taskStatus'[t] = "READY" /\ Requested(t) = WithStatus(t, "READY")
           /\ featStatus'[t] = featStatus[t] /\ finalResult'[t] = Requested(t)
<1>0. Requested(t) # None
  BY DEF RowsInv, None
<1>1. /\ taskStatus'[t] = "READY" /\ finalResult'[t] = Requested(t)
      /\ featStatus'[t] = featStatus[t] /\ featResult'[t] = featResult[t]
  BY <1>0, OwnRows
<1>2. Requested(t)' = Requested(t) /\ \A x : WithStatus(t, x)' = WithStatus(t, x)
  BY <1>1 DEF Requested, WithStatus
<1>3. Ordered(t)' = Ordered(t)
  BY <1>1, <1>2 DEF Ordered
<1>4. Documented(t)' = Documented(t)
  BY <1>1, <1>2 DEF Documented, LastOf, UpTo
<1>5. Requested(t) = WithStatus(t, "READY")
  BY DEF Quiet, Requested, WithStatus
<1>6. QED
  BY <1>1, <1>2, <1>3, <1>4, <1>5 DEF RowsInv, Reported, HasRow

\* Those of a task whose next feature is given out.
LEMMA RowsStarted ==
    ASSUME Typing, NEW t \in Tasks, RowsInv(t), taskStatus[t] = "PROCESSING",
           NEW f \in Features, Due(t, f), UpdateFeature(t, f, "PROCESSING", None)
    PROVE  /\ RowsInv(t)' /\ Working(t, f)' /\ Requested(t)' = Requested(t)
           /\ taskStatus'[t] = taskStatus[t] /\ finalResult'[t] = finalResult[t]
           /\ featStatus'[t] = [featStatus[t] EXCEPT ![f] = "PROCESSING"]
           /\ \A g \in Requested(t) : g < f => featStatus[t][g] = "READY"
<1>0. /\ f \in Requested(t) /\ featStatus[t][f] = "WAITING" /\ Quiet(t)
      /\ \A g \in WithStatus(t, "WAITING") : f <= g
  BY DEF Due, FirstOf, WithStatus, Requested
<1>1. /\ featStatus'[t] = [featStatus[t] EXCEPT ![f] = "PROCESSING"] /\ featResult'[t] = featResult[t]
      /\ taskStatus'[t] = taskStatus[t] /\ finalResult'[t] = finalResult[t]
  BY <1>0 DEF UpdateFeature, Requested, Typing, TypeOK, StoreTypeOK
<1>2. featStatus[t] \in [Features -> FeatureStatuses] /\ Requested(t) \subseteq Nat /\ f \in Nat
  BY DEF Typing, TypeOK, StoreTypeOK, Requested, Features
<1>3. /\ featStatus'[t][f] = "PROCESSING"
      /\ \A g \in Features \ {f} : featStatus'[t][g] = featStatus[t][g]
  BY <1>1, <1>2
<1>4. Requested(t)' = Requested(t) /\ WithStatus(t, "READY")' = WithStatus(t, "READY")
  BY <1>0, <1>3 DEF Requested, WithStatus
<1>5. \A g \in Requested(t) : g < f => featStatus[t][g] = "READY"
  <2>1. ASSUME NEW g \in Requested(t), g < f, featStatus[t][g] # "READY" PROVE FALSE
    <3>1. g \in WithStatus(t, "WAITING")
      BY <1>0, <2>1 DEF Quiet, WithStatus, Requested
    <3>2. QED
      BY <1>0, <1>2, <2>1, <3>1
  <2>2. QED
    BY <2>1
<1>6. Working(t, f)'
  BY <1>0, <1>3, <1>4 DEF Working, Quiet, Requested
<1>7. Ordered(t)'
  <2>1. ASSUME NEW a \in Requested(t), NEW b \in Requested(t), a < b, featStatus'[t][b] # "WAITING"
        PROVE  featStatus'[t][a] = "READY"
    <3>1. CASE b = f
      BY <1>3, <1>5, <2>1, <3>1, <1>2 DEF Requested
    <3>2. CASE b # f
      <4>1. featStatus[t][a] = "READY"
        BY <1>3, <2>1, <3>2 DEF RowsInv, Ordered, Requested
      <4>2. a # f
        BY <1>0, <4>1
      <4>3. QED
        BY <1>3, <4>1, <4>2 DEF Requested
    <3>3. QED
      BY <3>1, <3>2
  <2>2. QED
    BY <1>4, <2>1 DEF Ordered
<1>8. Documented(t)'
  BY <1>1, <1>4 DEF RowsInv, Documented, UpTo
<1>9. QED
  BY <1>1, <1>4, <1>5, <1>6, <1>7, <1>8 DEF RowsInv, Reported, HasRow

\* Those of a task whose feature was computed, from the results of all before it.
LEMMA RowsCompleted ==
    ASSUME Typing, NEW t \in Tasks, RowsInv(t), taskStatus[t] = "PROCESSING",
           NEW f \in Features, Working(t, f), UpdateFeature(t, f, "READY", UpTo(t, f))
    PROVE  /\ RowsInv(t)' /\ Quiet(t)'
           /\ taskStatus'[t] = taskStatus[t] /\ finalResult'[t] = finalResult[t]
           /\ featStatus'[t] = [featStatus[t] EXCEPT ![f] = "READY"]
<1>0. f \in Requested(t) /\ f \in Nat /\ Requested(t) \subseteq Nat
  BY DEF Working, Requested, Features
<1>1. UpTo(t, f) # None
  BY <1>0 DEF UpTo, None
<1>2. /\ featStatus'[t] = [featStatus[t] EXCEPT ![f] = "READY"]
      /\ featResult'[t] = [featResult[t] EXCEPT ![f] = UpTo(t, f)]
      /\ taskStatus'[t] = taskStatus[t] /\ finalResult'[t] = finalResult[t]
  BY <1>0, <1>1, OwnRows
<1>3. featStatus[t] \in [Features -> FeatureStatuses] /\ featResult[t] \in [Features -> Results]
  BY DEF Typing, TypeOK, StoreTypeOK
<1>4. /\ featStatus'[t][f] = "READY" /\ featResult'[t][f] = UpTo(t, f)
      /\ \A g \in Features \ {f} : featStatus'[t][g] = featStatus[t][g] /\ featResult'[t][g] = featResult[t][g]
  BY <1>2, <1>3
<1>5. Requested(t)' = Requested(t) /\ WithStatus(t, "READY")' = WithStatus(t, "READY") \cup {f}
  BY <1>0, <1>4 DEF Requested, WithStatus
<1>6. Quiet(t)'
  BY <1>4, <1>5 DEF Working, Quiet, Requested
<1>7. Ordered(t)'
  <2>1. ASSUME NEW a \in Requested(t), NEW b \in Requested(t), a < b, featStatus'[t][b] # "WAITING"
        PROVE  featStatus'[t][a] = "READY"
    <3>1. featStatus[t][b] # "WAITING"
      BY <1>4, <2>1 DEF Working, Requested
    <3>2. featStatus[t][a] = "READY"
      BY <2>1, <3>1 DEF RowsInv, Ordered
    <3>3. QED
      BY <1>4, <3>2 DEF Requested
  <2>2. QED
    BY <1>5, <2>1 DEF Ordered
<1>8. Documented(t)'
  <2>1. \A g : UpTo(t, g)' = UpTo(t, g)
    BY <1>5 DEF UpTo
  <2>2. \A g \in WithStatus(t, "READY") : featResult'[t][g] = UpTo(t, g)
    BY <1>4 DEF RowsInv, Documented, Working, WithStatus
  <2>3. \A g \in WithStatus(t, "READY") : g <= f
    <3>1. ASSUME NEW g \in WithStatus(t, "READY"), ~ (g <= f) PROVE FALSE
      <4>1. g \in Requested(t) /\ f < g /\ featStatus[t][g] # "WAITING"
        BY <1>0, <3>1 DEF WithStatus, Requested, Features
      <4>2. QED
        BY <1>0, <4>1 DEF RowsInv, Ordered, Working
    <3>2. QED
      BY <3>1
  <2>4. f \in LastOf(WithStatus(t, "READY")')
    BY <1>0, <1>5, <2>3 DEF LastOf
  <2>5. QED
    BY <1>4, <1>5, <2>1, <2>2, <2>4 DEF Documented, LastOf
<1>9. QED
  BY <1>2, <1>5, <1>6, <1>7, <1>8 DEF RowsInv, Reported, HasRow

\* Those of a task whose feature failed.
LEMMA RowsBroken ==
    ASSUME Typing, NEW t \in Tasks, RowsInv(t), taskStatus[t] = "PROCESSING",
           NEW f \in Features, Working(t, f), UpdateFeature(t, f, "FAILED", None)
    PROVE  /\ RowsInv(t)' /\ WithStatus(t, "FAILED")' # {}
           /\ taskStatus'[t] = taskStatus[t] /\ finalResult'[t] = finalResult[t]
           /\ featStatus'[t] = [featStatus[t] EXCEPT ![f] = "FAILED"]
<1>0. f \in Requested(t)
  BY DEF Working, Requested
<1>1. /\ featStatus'[t] = [featStatus[t] EXCEPT ![f] = "FAILED"] /\ featResult'[t] = featResult[t]
      /\ taskStatus'[t] = taskStatus[t] /\ finalResult'[t] = finalResult[t]
  BY <1>0 DEF UpdateFeature, Requested, Typing, TypeOK, StoreTypeOK
<1>2. featStatus[t] \in [Features -> FeatureStatuses]
  BY DEF Typing, TypeOK, StoreTypeOK
<1>3. /\ featStatus'[t][f] = "FAILED" /\ featStatus[t][f] = "PROCESSING"
      /\ \A g \in Features \ {f} : featStatus'[t][g] = featStatus[t][g]
  BY <1>1, <1>2 DEF Working
<1>4. Requested(t)' = Requested(t) /\ WithStatus(t, "READY")' = WithStatus(t, "READY")
  BY <1>0, <1>3 DEF Requested, WithStatus
<1>5. Ordered(t)'
  BY <1>3, <1>4 DEF RowsInv, Ordered, Requested
<1>6. Documented(t)'
  BY <1>1, <1>4 DEF RowsInv, Documented, UpTo
<1>7. WithStatus(t, "FAILED")' # {}
  BY <1>3 DEF WithStatus
<1>8. QED
  BY <1>1, <1>4, <1>5, <1>6, <1>7 DEF RowsInv, Reported, HasRow

-----------------------------------------------------------------------------
(* The invariant: what each carrier of a task knows                        *)

\* The messages no handler works on yet.
NewRequests == {request_queue[i]  : i \in {j \in DOMAIN request_queue  : j # 1 \/ pc["request"] = "idle"}}
NewAnswers  == {response_queue[i] : i \in {j \in DOMAIN response_queue : j # 1 \/ pc["response"] = "idle"}}

\* t is still to be accepted.
Waits(t) == t \in NewRequests \/ (pc["request"] = "accept" /\ TaskOf("request") = t)

\* The answers for t whose outcome is still to be stored.
AnswersTo(t) ==
    {m \in OfTask(t) : m \in NewAnswers \/ (pc["response"] \in {"feature_ready", "feature_failed"} /\ m = Answered)}

Broken(t) == pc["response"] = "task_failed" /\ Answered.task = t

\* Handler h is about to give out the next feature of t.
Decides(h, t) == pc[h] \in {"pending", "mark_pending", "read", "decide"} /\ TaskOf(h) = t

PendJobs(t) == OfTask(t) \cap Elements(pending_requests)
Given(w, t) == OfTask(t) \cap Elements(worker_queue[w])

Unmarked(t) == \E h \in Handlers : UnmarkedBy(h, t)

\* The job handler h has still to mark is all there is of t.
Alone(h, t) ==
    /\ ~ Waits(t) /\ AnswersTo(t) = {} /\ ~ Broken(t) /\ PendAt(t) = {}
    /\ \A k \in Handlers : ~ Decides(k, t) /\ (UnmarkedBy(k, t) => k = h)

WaitsInv(t) == Waits(t) => taskStatus[t] = "WAITING"

AnswersInv(t) ==
    \A m \in AnswersTo(t) :
        /\ taskStatus[t] = "PROCESSING"
        /\ Working(t, TypeOf[m.worker])
        /\ m.status = "success" => m.result = UpTo(t, TypeOf[m.worker])

BrokenInv(t) == Broken(t) => taskStatus[t] = "PROCESSING" /\ WithStatus(t, "FAILED") # {}

DecidesInv(t) ==
    \A h \in Handlers : Decides(h, t) =>
        /\ taskStatus[t] = "PROCESSING" /\ Quiet(t)
        /\ pc[h] = "decide" => view[h] = FeaturesOf(t)

JobFits(t, job) == taskStatus[t] = "PROCESSING" /\ job.existing = Earlier(t, job.feature)

PendingInv(t) == \A job \in PendJobs(t) : JobFits(t, job) /\ Due(t, job.feature)

GivenInv(t) ==
    \A w \in Workers : \A job \in Given(w, t) :
        /\ JobFits(t, job)
        /\ job.feature = TypeOf[w]
        /\ IF Unmarked(t) THEN Due(t, job.feature) ELSE Working(t, job.feature)

MarkInv(t) ==
    \A h \in Handlers : UnmarkedBy(h, t) =>
        /\ taskStatus[t] = "PROCESSING" /\ Quiet(t)
        /\ pc[h] = "mark" => view[h].waiting = WithStatus(t, "WAITING")
        /\ Alone(h, t)

CarriersKnow(t) ==
    /\ WaitsInv(t) /\ AnswersInv(t) /\ BrokenInv(t) /\ DecidesInv(t)
    /\ PendingInv(t) /\ GivenInv(t) /\ MarkInv(t)

SubmissionInv(t) ==
    /\ submission[t] = "inserted" => taskStatus[t] = "WAITING"
    /\ submission[t] = "accepted" => HasRow(t)

\* The entry whose job was published is there until it is marked.
MarkedThere == pc["response"] = "mark_pending" => Taken # {}

OrderInv ==
    \A t \in Tasks : MarkedThere /\ RowsInv(t) /\ SubmissionInv(t) /\ CarriersKnow(t)

-----------------------------------------------------------------------------
(* Steps that leave the rows of a task alone and give it no new carrier    *)

Steady(t) ==
    /\ Waits(t)' => Waits(t) \/ (taskStatus[t] = "WAITING" /\ ~ Unmarked(t))
    /\ Broken(t)' => Broken(t)
    /\ \A h \in Handlers : Decides(h, t)' =>
          /\ Decides(h, t)
          /\ pc'[h] = "decide" => view'[h] = FeaturesOf(t) \/ (pc[h] = "decide" /\ view'[h] = view[h])
    /\ \A w \in Workers : Given(w, t)' \subseteq Given(w, t)
    /\ \A h \in Handlers : /\ UnmarkedBy(h, t)' <=> UnmarkedBy(h, t)
                           /\ UnmarkedBy(h, t) => pc'[h] = pc[h] /\ view'[h] = view[h]

FewerAnswers(t) == AnswersTo(t)' \subseteq AnswersTo(t)

FewerPending(t) == PendJobs(t)' \subseteq PendJobs(t) /\ (PendAt(t) = {} => PendAt(t)' = {})

Fewer(t) == Steady(t) /\ FewerAnswers(t) /\ FewerPending(t)

\* Carriers that go on, with the rows as they are, know what they knew.
LEMMA SteadyKnow ==
    ASSUME NEW t \in Tasks, SameRows(t), Steady(t), CarriersKnow(t)
    PROVE  /\ WaitsInv(t)' /\ BrokenInv(t)' /\ DecidesInv(t)' /\ GivenInv(t)'
           /\ FewerAnswers(t) => AnswersInv(t)'
           /\ FewerPending(t) => PendingInv(t)'
           /\ FewerAnswers(t) /\ FewerPending(t) => MarkInv(t)'
           /\ ~ Unmarked(t) => MarkInv(t)'
<1>0. /\ taskStatus'[t] = taskStatus[t] /\ Quiet(t)' = Quiet(t) /\ FeaturesOf(t)' = FeaturesOf(t)
      /\ \A s : WithStatus(t, s)' = WithStatus(t, s)
      /\ \A f : Earlier(t, f)' = Earlier(t, f) /\ UpTo(t, f)' = UpTo(t, f)
      /\ \A f : Due(t, f)' = Due(t, f) /\ Working(t, f)' = Working(t, f)
  BY RowsFrame DEF SameRows
<1>1. WaitsInv(t)' /\ BrokenInv(t)'
  BY <1>0 DEF Steady, CarriersKnow, WaitsInv, BrokenInv
<1>2. FewerAnswers(t) => AnswersInv(t)'
  BY <1>0 DEF FewerAnswers, CarriersKnow, AnswersInv
<1>3. DecidesInv(t)'
  BY <1>0 DEF Steady, CarriersKnow, DecidesInv
<1>4. FewerPending(t) => PendingInv(t)'
  BY <1>0 DEF FewerPending, CarriersKnow, PendingInv, JobFits
<1>5. Unmarked(t)' <=> Unmarked(t)
  BY DEF Steady, Unmarked
<1>6. GivenInv(t)'
  BY <1>0, <1>5 DEF Steady, CarriersKnow, GivenInv, JobFits
<1>7. FewerAnswers(t) /\ FewerPending(t) => MarkInv(t)'
  BY <1>0 DEF Steady, FewerAnswers, FewerPending, CarriersKnow, MarkInv, Alone, Unmarked
<1>8. ~ Unmarked(t) => MarkInv(t)'
  BY <1>5 DEF Unmarked, MarkInv
<1>9. QED
  BY <1>1, <1>2, <1>3, <1>4, <1>6, <1>7, <1>8

\* In particular when there are only fewer of them.
LEMMA FewerKnow ==
    ASSUME NEW t \in Tasks, SameRows(t), Fewer(t), CarriersKnow(t)
    PROVE  CarriersKnow(t)'
<1>1. /\ WaitsInv(t)' /\ BrokenInv(t)' /\ DecidesInv(t)' /\ GivenInv(t)'
      /\ AnswersInv(t)' /\ PendingInv(t)' /\ MarkInv(t)'
  BY SteadyKnow DEF Fewer
<1>2. QED
  BY <1>1 DEF CarriersKnow

\* A step outside the broker that touches no queue.
LEMMA OutsideFewer ==
    ASSUME NEW t \in Tasks,
           UNCHANGED <<request_queue, response_queue, pending_requests, worker_queue, pc, view>>
    PROVE  Fewer(t) /\ Taken' = Taken
<1>1. Taken' = Taken /\ PendAt(t)' = PendAt(t)
  BY DEF Taken, PendAt, Where, Answered, PendingFor, FirstOf
<1>2. \A h \in Handlers : TaskOf(h)' = TaskOf(h) /\ (UnmarkedBy(h, t)' <=> UnmarkedBy(h, t))
  BY DEF TaskOf, Answered, UnmarkedBy, FirstOf, PendingFor
<1>3. NewRequests' = NewRequests /\ NewAnswers' = NewAnswers
  BY DEF NewRequests, NewAnswers
<1>4. /\ Waits(t)' = Waits(t) /\ Broken(t)' = Broken(t)
      /\ \A h \in Handlers : Decides(h, t)' = Decides(h, t)
  BY <1>2, <1>3 DEF Waits, Broken, Decides, Answered, Handlers
<1>5. AnswersTo(t)' = AnswersTo(t)
  BY <1>3 DEF AnswersTo, Answered, OfTask
<1>6. PendJobs(t)' = PendJobs(t) /\ \A w \in Workers : Given(w, t)' = Given(w, t)
  BY DEF PendJobs, Given, Elements, OfTask
<1>7. QED
  BY <1>1, <1>2, <1>4, <1>5, <1>6 DEF Fewer, Steady, FewerAnswers, FewerPending

\* Handler h goes on to its call q, with the same message.
GoesOn(h, q) ==
    /\ pc' = [pc EXCEPT ![h] = q]
    /\ q # "idle" /\ q # "mark_pending" /\ pc[h] # "mark_pending"
    /\ UNCHANGED <<request_queue, response_queue>>
    /\ Taken' = Taken /\ \A i \in Taken : pending_requests'[i] = pending_requests[i]
    /\ \A k \in Handlers \ {h} : view'[k] = view[k]

\* It does not touch what the other handler is about to mark.
LEMMA GoesOnStep ==
    ASSUME Typing, NEW h \in Handlers, NEW q, pc' = [pc EXCEPT ![h] = q],
           q # "idle", q # "mark_pending", pc[h] # "mark_pending",
           UNCHANGED <<request_queue, response_queue, pending_requests>>,
           \A k \in Handlers \ {h} : view'[k] = view[k]
    PROVE  GoesOn(h, q) /\ \A t \in Tasks : FewerPending(t)
<1>0. pc \in [Handlers -> PCs]
  BY QueueTypes
<1>1. pc'["response"] = "mark_pending" <=> pc["response"] = "mark_pending"
  BY <1>0 DEF Handlers
<1>2. Taken' = Taken
  BY <1>1 DEF Taken, Answered, PendingFor, FirstOf
<1>3. \A t \in Tasks : PendAt(t)' = PendAt(t) /\ PendJobs(t)' = PendJobs(t)
  BY <1>2 DEF PendAt, PendJobs, Where, Elements, OfTask
<1>4. QED
  BY <1>2, <1>3 DEF GoesOn, FewerPending

\* What this leaves alone: all that is not about the task of h.
LEMMA GoesOnFrame ==
    ASSUME Typing, NEW t \in Tasks, NEW h \in Handlers, NEW q, GoesOn(h, q)
    PROVE  /\ NewRequests' \subseteq NewRequests /\ NewAnswers' \subseteq NewAnswers
           /\ \A k \in Handlers : TaskOf(k)' = TaskOf(k)
           /\ \A k \in Handlers \ {h} : pc'[k] = pc[k] /\ view'[k] = view[k]
           /\ pc'[h] = q
           /\ \A k \in Handlers \ {h} : UnmarkedBy(k, t)' <=> UnmarkedBy(k, t)
           /\ TaskOf(h) # t \/ (pc[h] # "mark" /\ q # "mark") => (UnmarkedBy(h, t)' <=> UnmarkedBy(h, t))
<1>0. /\ pc' = [pc EXCEPT ![h] = q] /\ pc \in [Handlers -> PCs] /\ q # "idle"
      /\ UNCHANGED <<request_queue, response_queue>>
      /\ Taken' = Taken /\ \A i \in Taken : pending_requests'[i] = pending_requests[i]
  BY QueueTypes DEF GoesOn
<1>1. pc'[h] = q /\ \A k \in Handlers \ {h} : pc'[k] = pc[k] /\ view'[k] = view[k]
  BY <1>0 DEF GoesOn
<1>2. \A k \in Handlers : TaskOf(k)' = TaskOf(k)
  BY <1>0 DEF TaskOf, Answered
<1>3. NewRequests' \subseteq NewRequests /\ NewAnswers' \subseteq NewAnswers
  BY <1>0, <1>1 DEF NewRequests, NewAnswers, Handlers
<1>4. \A k \in Handlers : UnmarkedBy(k, t) <=> \/ pc[k] = "mark" /\ TaskOf(k) = t
                                               \/ k = "response" /\ \E i \in Taken : pending_requests[i].task = t
  BY DEF UnmarkedBy, Taken
<1>5. \A k \in Handlers : UnmarkedBy(k, t)' <=> \/ pc'[k] = "mark" /\ TaskOf(k)' = t
                                                \/ k = "response" /\ \E i \in Taken' : pending_requests'[i].task = t
  BY DEF UnmarkedBy, Taken
<1>6. QED
  BY <1>0, <1>1, <1>2, <1>3, <1>4, <1>5

\* The handler of another task.
LEMMA OtherGoesOn ==
    ASSUME Typing, NEW t \in Tasks, NEW h \in Handlers, NEW q, GoesOn(h, q), TaskOf(h) # t,
           \A w \in Workers : Given(w, t)' \subseteq Given(w, t)
    PROVE  Steady(t) /\ FewerAnswers(t)
<1>0. /\ NewRequests' \subseteq NewRequests /\ NewAnswers' \subseteq NewAnswers
      /\ \A k \in Handlers : TaskOf(k)' = TaskOf(k)
      /\ \A k \in Handlers \ {h} : pc'[k] = pc[k] /\ view'[k] = view[k]
      /\ \A k \in Handlers : UnmarkedBy(k, t)' <=> UnmarkedBy(k, t)
  BY GoesOnFrame
<1>1. Waits(t)' => Waits(t)
  BY <1>0 DEF Waits, Handlers
<1>2. TaskOf("response") = Answered.task /\ TaskOf("response")' = Answered'.task
  BY DEF TaskOf
<1>3. (Broken(t)' => Broken(t)) /\ \A k \in Handlers : Decides(k, t)' => Decides(k, t)
  BY <1>0, <1>2 DEF Broken, Decides, Handlers
<1>4. AnswersTo(t)' \subseteq AnswersTo(t)
  <2>1. Answered' = Answered
    BY DEF GoesOn, Answered
  <2>2. QED
    BY <1>0, <1>2, <2>1 DEF AnswersTo, OfTask, Handlers
<1>5. ASSUME NEW k \in Handlers, UnmarkedBy(k, t) PROVE pc'[k] = pc[k] /\ view'[k] = view[k]
  <2>1. CASE k # h
    BY <1>0, <2>1
  <2>2. CASE k = h
    BY <1>5, <2>2 DEF GoesOn, UnmarkedBy
  <2>3. QED
    BY <2>1, <2>2
<1>6. \A k \in Handlers : Decides(k, t)' => pc'[k] = pc[k] /\ view'[k] = view[k]
  BY <1>0 DEF Decides
<1>7. QED
  BY <1>0, <1>1, <1>3, <1>4, <1>5, <1>6 DEF Steady, FewerAnswers

\* A handler that goes on with its message and knows no more and no less.
LEMMA SameGoesOn ==
    ASSUME Typing, NEW t \in Tasks, NEW h \in Handlers, NEW q, GoesOn(h, q), TaskOf(h) = t, UNCHANGED worker_queue,
           \/ h = "request" /\ pc[h] = "idle" /\ request_queue # <<>> /\ q = "accept"
           \/ h = "response" /\ pc[h] = "idle" /\ response_queue # <<>> /\ q \in {"feature_ready", "feature_failed"}
           \/ pc[h] = "pending" /\ q = "read" /\ view' = view
           \/ pc[h] = "read" /\ q = "decide" /\ view'[h] = FeaturesOf(t)
           \/ pc[h] \in {"idle", "callback"} /\ q = "ack"
    PROVE  Steady(t) /\ FewerAnswers(t)
<1>0. /\ NewRequests' \subseteq NewRequests /\ NewAnswers' \subseteq NewAnswers
      /\ \A k \in Handlers : TaskOf(k)' = TaskOf(k)
      /\ \A k \in Handlers \ {h} : pc'[k] = pc[k] /\ view'[k] = view[k]
      /\ pc'[h] = q
      /\ \A k \in Handlers : UnmarkedBy(k, t)' <=> UnmarkedBy(k, t)
  BY GoesOnFrame
<1>1. Waits(t)' => Waits(t)
  <2>1. CASE h = "request" /\ pc[h] = "idle" /\ request_queue # <<>>
    <3>1. 1 \in DOMAIN request_queue /\ request_queue[1] = TaskOf("request")
      BY <2>1, QueueTypes DEF TaskOf
    <3>2. t \in NewRequests
      BY <2>1, <3>1 DEF NewRequests
    <3>3. QED
      BY <3>2 DEF Waits
  <2>2. CASE q # "accept" \/ h = "response"
    BY <1>0, <2>2 DEF Waits, Handlers
  <2>3. QED
    BY <2>1, <2>2 DEF Handlers
<1>2. (Broken(t)' => Broken(t)) /\ \A k \in Handlers : Decides(k, t)' => Decides(k, t)
  <2>1. TaskOf("response") = Answered.task /\ TaskOf("response")' = Answered'.task
    BY DEF TaskOf
  <2>2. QED
    BY <1>0, <2>1 DEF Broken, Decides, Handlers
<1>3. AnswersTo(t)' \subseteq AnswersTo(t)
  <2>1. Answered' = Answered
    BY DEF GoesOn, Answered
  <2>2. CASE q \in {"feature_ready", "feature_failed"}
    <3>1. 1 \in DOMAIN response_queue /\ response_queue[1] = Answered
      BY <2>2, QueueTypes DEF Answered
    <3>2. Answered \in NewAnswers
      BY <2>2, <3>1 DEF NewAnswers
    <3>3. QED
      BY <1>0, <2>1, <3>2 DEF AnswersTo, OfTask
  <2>3. CASE q \notin {"feature_ready", "feature_failed"}
    BY <1>0, <2>1, <2>3 DEF AnswersTo, OfTask, Handlers
  <2>4. QED
    BY <2>2, <2>3
<1>4. \A k \in Handlers : UnmarkedBy(k, t) => pc'[k] = pc[k] /\ view'[k] = view[k]
  BY <1>0 DEF UnmarkedBy, GoesOn
<1>5. \A k \in Handlers : Decides(k, t)' => (pc'[k] = "decide" => view'[k] = FeaturesOf(t) \/ (pc[k] = "decide" /\ view'[k] = view[k]))
  BY <1>0 DEF Decides
<1>6. \A w \in Workers : Given(w, t)' = Given(w, t)
  BY DEF Given, OfTask
<1>7. QED
  BY <1>0, <1>1, <1>2, <1>3, <1>4, <1>5, <1>6 DEF Steady, FewerAnswers

\* The steps in which a handler only goes on.
LEMMA HandlerFewer ==
    ASSUME Typing, Undisturbed, NEW t \in Tasks,
           \/ DeliverRequest \/ DeliverAnswer
           \/ (DeliverStartup \/ PendingAfterAnswer) /\ pc'["response"] # "mark_pending" /\ UNCHANGED worker_queue
           \/ \E h \in Handlers : ReadFeatures(h) \/ SendCallback(h)
    PROVE  Fewer(t) /\ Taken' = Taken
<1>. DEFINE Own(h, q) == \/ h = "request" /\ pc[h] = "idle" /\ request_queue # <<>> /\ q = "accept"
                         \/ h = "response" /\ pc[h] = "idle" /\ response_queue # <<>> /\ q \in {"feature_ready", "feature_failed"}
                         \/ pc[h] = "pending" /\ q = "read" /\ view' = view
                         \/ pc[h] = "read" /\ q = "decide" /\ view'[h] = FeaturesOf(TaskOf(h))
                         \/ pc[h] \in {"idle", "callback"} /\ q = "ack"
<1>0. pc \in [Handlers -> PCs] /\ view \in [Handlers -> FeaturesView]
  BY DEF Typing, TypeOK, BrokerTypeOK
<1>1. ASSUME NEW h \in Handlers, NEW q, GoesOn(h, q), FewerPending(t), Own(h, q), UNCHANGED worker_queue
      PROVE  Fewer(t) /\ Taken' = Taken
  <2>1. \A w \in Workers : Given(w, t)' \subseteq Given(w, t)
    BY <1>1 DEF Given, OfTask
  <2>2. Taken' = Taken
    BY <1>1 DEF GoesOn
  <2>3. CASE TaskOf(h) # t
    BY <1>1, <2>1, <2>2, <2>3, OtherGoesOn DEF Fewer
  <2>4. CASE TaskOf(h) = t
    BY <1>1, <2>2, <2>4, SameGoesOn DEF Fewer
  <2>5. QED
    BY <2>3, <2>4
<1>2. CASE DeliverRequest
  <2>1. GoesOn("request", "accept") /\ FewerPending(t) /\ Own("request", "accept") /\ UNCHANGED worker_queue
    BY <1>0, <1>2, GoesOnStep DEF DeliverRequest, At, Goto, queueVars, Handlers
  <2>2. QED
    BY <1>1, <2>1 DEF Handlers
<1>3. CASE DeliverAnswer
  <2>1. PICK q \in {"feature_ready", "feature_failed"} : Goto("response", q)
    BY <1>3 DEF DeliverAnswer
  <2>2. GoesOn("response", q) /\ FewerPending(t) /\ Own("response", q) /\ UNCHANGED worker_queue
    BY <1>0, <1>3, <2>1, GoesOnStep DEF DeliverAnswer, DeliverResponse, At, Goto, queueVars, Handlers
  <2>3. QED
    BY <1>1, <2>2 DEF Handlers
<1>4. ASSUME DeliverStartup, pc'["response"] # "mark_pending", UNCHANGED worker_queue PROVE Fewer(t) /\ Taken' = Taken
  <2>1. Goto("response", "ack")
    BY <1>0, <1>4 DEF DeliverStartup, DispatchPending, Goto, Handlers
  <2>2. GoesOn("response", "ack") /\ FewerPending(t) /\ Own("response", "ack")
    BY <1>0, <1>4, <2>1, GoesOnStep DEF DeliverStartup, DeliverResponse, At, Goto, KeepQueues, Handlers
  <2>3. QED
    BY <1>1, <1>4, <2>2 DEF Handlers
<1>5. ASSUME NEW h \in Handlers, ReadFeatures(h) PROVE Fewer(t) /\ Taken' = Taken
  <2>1. GoesOn(h, "decide") /\ FewerPending(t) /\ Own(h, "decide") /\ UNCHANGED worker_queue
    BY <1>0, <1>5, GoesOnStep DEF ReadFeatures, At, Goto, queueVars, Handlers
  <2>2. QED
    BY <1>1, <2>1
<1>6. ASSUME NEW h \in Handlers, SendCallback(h) PROVE Fewer(t) /\ Taken' = Taken
  <2>1. GoesOn(h, "ack") /\ FewerPending(t) /\ Own(h, "ack") /\ UNCHANGED worker_queue
    BY <1>0, <1>6, GoesOnStep DEF SendCallback, At, Goto, Handlers
  <2>2. QED
    BY <1>1, <2>1
<1>7. ASSUME PendingAfterAnswer, pc'["response"] # "mark_pending", UNCHANGED worker_queue, ~ Spend({"handler_error"})
      PROVE  Fewer(t) /\ Taken' = Taken
  <2>1. Goto("response", "read")
    BY <1>0, <1>7 DEF PendingAfterAnswer, DispatchPending, Goto, Handlers
  <2>2. GoesOn("response", "read") /\ FewerPending(t) /\ Own("response", "read")
    BY <1>0, <1>7, <2>1, GoesOnStep DEF PendingAfterAnswer, At, Goto, KeepQueues, Handlers
  <2>3. QED
    BY <1>1, <1>7, <2>2 DEF Handlers
<1>8. QED
  BY <1>2, <1>3, <1>4, <1>5, <1>6, <1>7, NoBrokerFaultPaid

\* A message is taken off its queue, or sent, and none of t is new.
LEMMA QueueFewer ==
    ASSUME Typing, NEW t \in Tasks, UNCHANGED pending_requests,
           \A w \in Workers : Given(w, t)' \subseteq Given(w, t),
           \A h \in Handlers : \/ pc'[h] = pc[h] /\ view'[h] = view[h]
                               \/ pc[h] = "ack" /\ pc'[h] = "idle",
           \A h \in Handlers : pc'[h] # "idle" => TaskOf(h)' = TaskOf(h),
           pc'["response"] # "idle" => Answered' = Answered,
           t \in NewRequests' => t \in NewRequests \/ (taskStatus[t] = "WAITING" /\ ~ Unmarked(t))
    PROVE  /\ Steady(t) /\ FewerPending(t) /\ Taken' = Taken
           /\ NewAnswers' \cap OfTask(t) \subseteq NewAnswers => FewerAnswers(t)
           /\ AnswersTo(t)' \subseteq AnswersTo(t) \cup NewAnswers'
<1>1. Waits(t)' => Waits(t) \/ (taskStatus[t] = "WAITING" /\ ~ Unmarked(t))
  BY DEF Waits, Handlers
<1>2. \A h \in Handlers : Decides(h, t)' => Decides(h, t) /\ pc'[h] = pc[h] /\ view'[h] = view[h]
  BY DEF Decides
<1>3. /\ Broken(t)' => Broken(t)
      /\ NewAnswers' \cap OfTask(t) \subseteq NewAnswers => AnswersTo(t)' \subseteq AnswersTo(t)
      /\ AnswersTo(t)' \subseteq AnswersTo(t) \cup NewAnswers'
  BY DEF Broken, AnswersTo, OfTask, Handlers
<1>4. Taken' = Taken
  BY DEF Taken, PendingFor, FirstOf, Handlers
<1>5. PendJobs(t)' = PendJobs(t) /\ PendAt(t)' = PendAt(t)
  BY <1>4 DEF PendJobs, PendAt, Where, Elements, OfTask
<1>6. \A h \in Handlers : UnmarkedBy(h, t) <=> \/ pc[h] = "mark" /\ TaskOf(h) = t
                                               \/ h = "response" /\ \E i \in Taken : pending_requests[i].task = t
  BY DEF UnmarkedBy, Taken
<1>7. \A h \in Handlers : UnmarkedBy(h, t)' <=> \/ pc'[h] = "mark" /\ TaskOf(h)' = t
                                                \/ h = "response" /\ \E i \in Taken' : pending_requests'[i].task = t
  BY DEF UnmarkedBy, Taken
<1>8. \A h \in Handlers : UnmarkedBy(h, t)' <=> UnmarkedBy(h, t)
  BY <1>4, <1>6, <1>7
<1>9. \A h \in Handlers : UnmarkedBy(h, t) => pc'[h] = pc[h] /\ view'[h] = view[h]
  BY DEF UnmarkedBy
<1>10. QED
  BY <1>1, <1>2, <1>3, <1>4, <1>5, <1>8, <1>9 DEF Steady, FewerAnswers, FewerPending

\* Taking the first message off.
LEMMA NewAfterTail ==
    ASSUME NEW S, NEW q \in Seq(S), q # <<>>
    PROVE  {Tail(q)[i] : i \in DOMAIN Tail(q)} \subseteq {q[i] : i \in {j \in DOMAIN q : j # 1}}
<1>1. Len(q) \in Nat \ {0} /\ DOMAIN q = 1..Len(q)
  BY EmptySeq
<1>2. DOMAIN Tail(q) = 1..(Len(q) - 1) /\ \A i \in 1..(Len(q) - 1) : Tail(q)[i] = q[i + 1]
  BY <1>1
<1>3. QED
  BY <1>1, <1>2

\* Sending one.
LEMMA NewAfterAppend ==
    ASSUME NEW S, NEW q \in Seq(S), NEW m \in S, NEW r, r = Append(q, m)
    PROVE  \A P : {r[i] : i \in {j \in DOMAIN r : j # 1 \/ P}} \subseteq {q[i] : i \in {j \in DOMAIN q : j # 1 \/ P}} \cup {m}
<1>1. /\ Len(r) = Len(q) + 1 /\ Len(q) \in Nat
      /\ \A i \in 1..Len(q) : r[i] = q[i]
      /\ r[Len(q) + 1] = m
  BY AppendProperties
<1>2. DOMAIN q = 1..Len(q) /\ DOMAIN r = (1..Len(q)) \cup {Len(q) + 1}
  BY <1>1
<1>3. QED
  BY <1>1, <1>2

\* A handled message is acknowledged; heartbeats and shutdowns at once.
LEMMA AcknowledgeFewer ==
    ASSUME Typing, NEW t \in Tasks,
           DeliverHeartbeat \/ DeliverShutdown \/ \E h \in Handlers : Acknowledge(h)
    PROVE  Fewer(t) /\ Taken' = Taken
<1>0. /\ pc \in [Handlers -> PCs] /\ view \in [Handlers -> FeaturesView]
      /\ request_queue \in Seq(Tasks) /\ response_queue \in Seq(Response)
  BY DEF Typing, TypeOK, BrokerTypeOK, QueuesTypeOK
<1>1. ASSUME DeliverHeartbeat \/ DeliverShutdown PROVE Fewer(t) /\ Taken' = Taken
  <2>1. /\ pc["response"] = "idle" /\ UNCHANGED <<pc, view, request_queue, pending_requests, worker_queue>>
        /\ response_queue # <<>> /\ response_queue' = Tail(response_queue)
    BY <1>1 DEF DeliverHeartbeat, DeliverShutdown, DeliverResponse, HandledAtOnce, At
  <2>2. NewAnswers' \subseteq NewAnswers
    BY <1>0, <2>1, NewAfterTail DEF NewAnswers
  <2>3. \A h \in Handlers : pc'[h] # "idle" => TaskOf(h)' = TaskOf(h)
    BY <2>1 DEF TaskOf, Handlers
  <2>4. \A w \in Workers : Given(w, t)' = Given(w, t)
    BY <2>1 DEF Given, OfTask
  <2>5. NewRequests' = NewRequests
    BY <2>1 DEF NewRequests
  <2>6. QED
    BY <2>1, <2>2, <2>3, <2>4, <2>5, QueueFewer DEF Fewer
<1>2. ASSUME NEW h \in Handlers, Acknowledge(h) PROVE Fewer(t) /\ Taken' = Taken
  <2>1. /\ pc[h] = "ack" /\ pc' = [pc EXCEPT ![h] = "idle"] /\ view' = [view EXCEPT ![h] = NoView]
        /\ UNCHANGED <<pending_requests, worker_queue>>
        /\ h = "request" => request_queue' = Tail(request_queue) /\ UNCHANGED response_queue
        /\ h = "response" => response_queue' = Tail(response_queue) /\ UNCHANGED request_queue
    BY <1>2 DEF Acknowledge, At, Goto
  <2>2. h = "request" => request_queue # <<>>
    BY <2>1 DEF Typing, InFlight, InFlightAt
  <2>3. h = "response" => response_queue # <<>>
    BY <2>1 DEF Typing, InFlight, InFlightAt
  <2>4. NewRequests' \subseteq NewRequests
    <3>1. CASE h = "request"
      <4>1. /\ request_queue' = Tail(request_queue) /\ request_queue # <<>> /\ pc["request"] # "idle"
            /\ pc'["request"] = "idle"
        BY <1>0, <2>1, <2>2, <3>1
      <4>2. NewRequests = {request_queue[i] : i \in {j \in DOMAIN request_queue : j # 1}}
        BY <4>1 DEF NewRequests
      <4>3. NewRequests' = {Tail(request_queue)[i] : i \in DOMAIN Tail(request_queue)}
        BY <4>1 DEF NewRequests
      <4>4. QED
        BY <1>0, <4>1, <4>2, <4>3, NewAfterTail
    <3>2. CASE h = "response"
      BY <1>0, <2>1, <3>2 DEF NewRequests, Handlers
    <3>3. QED
      BY <3>1, <3>2 DEF Handlers
  <2>5. NewAnswers' \subseteq NewAnswers
    BY <1>0, <2>1, <2>3, NewAfterTail DEF NewAnswers, Handlers
  <2>6. /\ \A k \in Handlers : pc'[k] # "idle" => TaskOf(k)' = TaskOf(k)
        /\ pc'["response"] # "idle" => Answered' = Answered
    BY <1>0, <2>1 DEF TaskOf, Answered, Handlers
  <2>7. \A w \in Workers : Given(w, t)' = Given(w, t)
    BY <2>1 DEF Given, OfTask
  <2>8. \A k \in Handlers : \/ pc'[k] = pc[k] /\ view'[k] = view[k]
                            \/ pc[k] = "ack" /\ pc'[k] = "idle"
    BY <1>0, <2>1
  <2>9. QED
    BY <2>1, <2>4, <2>5, <2>6, <2>7, <2>8, QueueFewer DEF Fewer
<1>3. QED
  BY <1>1, <1>2

\* A message sent to the broker leaves those it holds alone.
LEMMA AnswerSent ==
    ASSUME Typing, NEW m \in Response, response_queue' = Append(response_queue, m), UNCHANGED <<pc, request_queue>>
    PROVE  /\ NewAnswers' \subseteq NewAnswers \cup {m} /\ NewRequests' = NewRequests
           /\ \A h \in Handlers : pc[h] # "idle" => TaskOf(h)' = TaskOf(h)
           /\ pc["response"] # "idle" => Answered' = Answered
<1>0. response_queue \in Seq(Response)
  BY QueueTypes
<1>1. NewAnswers' \subseteq NewAnswers \cup {m} /\ NewRequests' = NewRequests
  BY <1>0, NewAfterAppend DEF NewAnswers, NewRequests
<1>2. pc["response"] # "idle" => Answered' = Answered
  BY <1>0, AppendFacts DEF Typing, InFlight, InFlightAt, Answered
<1>3. \A h \in Handlers : pc[h] # "idle" => TaskOf(h)' = TaskOf(h)
  BY <1>2 DEF TaskOf, Handlers
<1>4. QED
  BY <1>1, <1>2, <1>3

\* Status messages name no task, and a worker that leaves takes its jobs along.
LEMMA WorkerFewer ==
    ASSUME Typing, NEW t \in Tasks, NEW w \in Workers, Begin(w) \/ Beat(w) \/ Leave(w)
    PROVE  Fewer(t) /\ Taken' = Taken
<1>0. /\ UNCHANGED <<request_queue, pending_requests, pc, view>>
      /\ UNCHANGED response_queue \/ \E s \in StatusMessages : response_queue' = Append(response_queue, StatusOf(w, s))
      /\ UNCHANGED worker_queue \/ worker_queue' = [worker_queue EXCEPT ![w] = <<>>]
  BY DEF Begin, Beat, Leave, StartWorker, Heartbeat, Shutdown, CloseConnection, SendStatus,
         StatusMessages, brokerVars, DeclareWorkerQueue, DropWorkerQueue
<1>1. \A v \in Workers : Given(v, t)' \subseteq Given(v, t)
  <2>1. \A v \in Workers : worker_queue'[v] = worker_queue[v] \/ worker_queue'[v] = <<>>
    BY <1>0, QueueTypes
  <2>2. Elements(<<>>) = {}
    BY DEF Elements
  <2>3. QED
    BY <2>1, <2>2 DEF Given, Elements, OfTask
<1>. DEFINE Goal == /\ \A h \in Handlers : pc'[h] # "idle" => TaskOf(h)' = TaskOf(h)
                    /\ pc'["response"] # "idle" => Answered' = Answered
                    /\ NewRequests' = NewRequests
                    /\ NewAnswers' \cap OfTask(t) \subseteq NewAnswers
<1>2. CASE UNCHANGED response_queue
  <2>1. Goal
    BY <1>0, <1>2 DEF TaskOf, Answered, NewRequests, NewAnswers
  <2>2. QED
    BY <1>0, <1>1, <2>1, QueueFewer DEF Fewer
<1>3. ASSUME NEW s \in StatusMessages, response_queue' = Append(response_queue, StatusOf(w, s))
      PROVE  Fewer(t) /\ Taken' = Taken
  <2>1. StatusOf(w, s) \in Response /\ StatusOf(w, s) \notin OfTask(t)
    BY NoTaskAssumption DEF StatusOf, Response, Status, OfTask
  <2>2. Goal
    BY <1>0, <1>3, <2>1, AnswerSent
  <2>3. QED
    BY <1>0, <1>1, <2>2, QueueFewer DEF Fewer
<1>4. QED
  BY <1>0, <1>2, <1>3

-----------------------------------------------------------------------------
(* Steps that hand a task on                                               *)

\* What a service makes of a job that fits.
LEMMA InferenceUpTo ==
    ASSUME NEW t \in Tasks, NEW f \in Requested(t), NEW job \in Job, job.feature = f,
           job.existing = Earlier(t, f), Inference(job) # None
    PROVE  Inference(job) = UpTo(t, f)
<1>1. Requested(t) \subseteq Nat /\ \A g \in Requested(t) : g >= 1
  BY DEF Requested, Features
<1>2. UpTo(t, f) = Earlier(t, f) \cup {f}
  BY <1>1 DEF UpTo, Earlier
<1>3. f = 1 => Earlier(t, f) = {}
  BY <1>1 DEF Earlier
<1>4. QED
  BY <1>2, <1>3 DEF Inference, Diarization

\* An answer is sent only after its job was marked, and has the results of all
\* features up to its own.
LEMMA WorkKnows ==
    ASSUME Typing, PromptMarks, NEW t \in Tasks, CarriersKnow(t), NEW w \in Workers, Work(w)
    PROVE  CarriersKnow(t)' /\ Taken' = Taken
<1>. DEFINE job == Head(worker_queue[w])
<1>0. /\ UNCHANGED <<request_queue, pending_requests, pc, view>> /\ MayAnswer(w)
      /\ worker_queue[w] # <<>> /\ worker_queue' = [worker_queue EXCEPT ![w] = Tail(@)]
      /\ \/ UNCHANGED response_queue
         \/ response_queue' = Append(response_queue, AnswerOf(w, "failed", None))
         \/ Inference(job) # None /\ response_queue' = Append(response_queue, AnswerOf(w, "success", Inference(job)))
  BY DEF Work, ProcessTask, AnswerSuccess, AnswerFailed, RaiseInJob, TakeJob, SendStatus, AnswerOf, brokerVars
<1>1. SameRows(t)
  BY DEF Work, ProcessTask, AnswerSuccess, AnswerFailed, RaiseInJob, TakeJob, storeVars, SameRows
<1>2. job \in Job /\ job \in Elements(worker_queue[w]) /\ Elements(Tail(worker_queue[w])) \subseteq Elements(worker_queue[w])
  BY <1>0, QueueTypes, HeadTailFacts
<1>3. \A v \in Workers : Given(v, t)' \subseteq Given(v, t)
  <2>1. \A v \in Workers : worker_queue'[v] = IF v = w THEN Tail(worker_queue[v]) ELSE worker_queue[v]
    BY <1>0, QueueTypes
  <2>2. \A v \in Workers : Elements(worker_queue'[v]) \subseteq Elements(worker_queue[v])
    BY <1>2, <2>1
  <2>3. \A v \in Workers : Elements(worker_queue[v])' = Elements(worker_queue'[v])
    BY DEF Elements
  <2>4. QED
    BY <2>2, <2>3 DEF Given, OfTask
<1>4. CASE UNCHANGED response_queue
  <2>1. /\ \A h \in Handlers : pc'[h] # "idle" => TaskOf(h)' = TaskOf(h)
        /\ pc'["response"] # "idle" => Answered' = Answered
        /\ NewRequests' = NewRequests /\ NewAnswers' = NewAnswers
    BY <1>0, <1>4 DEF TaskOf, Answered, NewRequests, NewAnswers
  <2>2. Fewer(t) /\ Taken' = Taken
    BY <1>0, <1>3, <2>1, QueueFewer DEF Fewer
  <2>3. QED
    BY <1>1, <2>2, FewerKnow
<1>5. ASSUME NEW m \in Response, m.task = job.task, m.worker = w, response_queue' = Append(response_queue, m),
             m.status = "success" => m.result = Inference(job) /\ Inference(job) # None
      PROVE  CarriersKnow(t)' /\ Taken' = Taken
  <2>1. /\ \A h \in Handlers : pc'[h] # "idle" => TaskOf(h)' = TaskOf(h)
        /\ pc'["response"] # "idle" => Answered' = Answered
        /\ NewRequests' = NewRequests /\ NewAnswers' \subseteq NewAnswers \cup {m}
    BY <1>0, <1>5, AnswerSent
  <2>2. /\ Steady(t) /\ FewerPending(t) /\ Taken' = Taken
        /\ NewAnswers' \cap OfTask(t) \subseteq NewAnswers => FewerAnswers(t)
        /\ AnswersTo(t)' \subseteq AnswersTo(t) \cup NewAnswers'
    BY <1>0, <1>3, <2>1, QueueFewer
  <2>3. CASE job.task # t
    <3>1. m \notin OfTask(t)
      BY <1>5, <2>3 DEF OfTask
    <3>2. Fewer(t)
      BY <2>1, <2>2, <3>1 DEF Fewer
    <3>3. QED
      BY <1>1, <2>2, <3>2, FewerKnow
  <2>4. CASE job.task = t
    <3>1. job \in Given(w, t) /\ ~ Unmarked(t)
      BY <1>0, <1>2, <2>4 DEF Given, OfTask, MayAnswer, Unmarked
    <3>2. /\ taskStatus[t] = "PROCESSING" /\ job.existing = Earlier(t, TypeOf[w])
          /\ job.feature = TypeOf[w] /\ Working(t, TypeOf[w])
      BY <3>1 DEF CarriersKnow, GivenInv, JobFits
    <3>3. TypeOf[w] \in Requested(t)
      BY <3>2, WorkersAssumption DEF Working, Requested
    <3>4. m.status = "success" => m.result = UpTo(t, TypeOf[w])
      BY <1>2, <1>5, <3>2, <3>3, InferenceUpTo
    <3>5. AnswersTo(t)' \subseteq AnswersTo(t) \cup {m}
      BY <2>1, <2>2 DEF AnswersTo, OfTask
    <3>6. AnswersInv(t)'
      <4>1. /\ taskStatus'[t] = taskStatus[t]
            /\ \A f : UpTo(t, f)' = UpTo(t, f) /\ Working(t, f)' = Working(t, f)
        BY <1>1, RowsFrame DEF SameRows
      <4>2. QED
        BY <1>5, <3>2, <3>4, <3>5, <4>1 DEF CarriersKnow, AnswersInv
    <3>7. QED
      BY <1>1, <2>2, <3>1, <3>6, SteadyKnow DEF CarriersKnow
  <2>5. QED
    BY <2>3, <2>4
<1>6. /\ AnswerOf(w, "failed", None) \in Response /\ AnswerOf(w, "success", Inference(job)) \in Response
      /\ \A st, r : LET m == AnswerOf(w, st, r) IN m.task = job.task /\ m.worker = w /\ m.status = st /\ m.result = r
  BY <1>0, QueueTypes, AnswersTyped DEF AnswerOf
<1>7. QED
  BY <1>0, <1>4, <1>5, <1>6

\* A task nothing carries.
NoCarrier(t) ==
    /\ ~ Waits(t) /\ AnswersTo(t) = {} /\ ~ Broken(t) /\ \A h \in Handlers : ~ Decides(h, t)
    /\ PendJobs(t) = {} /\ (\A w \in Workers : Given(w, t) = {}) /\ ~ Unmarked(t)

\* Where nothing carries a task there is nothing to know.
LEMMA NoCarrierKnows ==
    ASSUME NEW t \in Tasks, NoCarrier(t)'
    PROVE  CarriersKnow(t)'
BY DEF NoCarrier, CarriersKnow, WaitsInv, AnswersInv, BrokenInv, DecidesInv, PendingInv, GivenInv,
       MarkInv, Unmarked

\* What the rows of a task tell about its carriers.
LEMMA CarriersByRows ==
    ASSUME Typing, NEW t \in Tasks, CarriersKnow(t)
    PROVE  /\ taskStatus[t] = "none" => NoCarrier(t)
           /\ taskStatus[t] # "WAITING" => ~ Waits(t)
           /\ taskStatus[t] = "WAITING" => /\ AnswersTo(t) = {} /\ ~ Broken(t) /\ \A h \in Handlers : ~ Decides(h, t)
                                           /\ PendJobs(t) = {} /\ \A w \in Workers : Given(w, t) = {}
                                           /\ ~ Unmarked(t)
           /\ Quiet(t) => AnswersTo(t) = {} /\ ~ Broken(t)
           /\ Quiet(t) /\ ~ Unmarked(t) => \A w \in Workers : Given(w, t) = {}
           /\ ~ Quiet(t) => (\A h \in Handlers : ~ Decides(h, t)) /\ PendJobs(t) = {} /\ ~ Unmarked(t)
           /\ WithStatus(t, "FAILED") # {} =>
                 AnswersTo(t) = {} /\ (\A h \in Handlers : ~ Decides(h, t)) /\ PendJobs(t) = {}
                    /\ (\A w \in Workers : Given(w, t) = {}) /\ ~ Unmarked(t)
<1>1. ASSUME taskStatus[t] # "PROCESSING"
      PROVE  /\ AnswersTo(t) = {} /\ ~ Broken(t) /\ \A h \in Handlers : ~ Decides(h, t)
             /\ PendJobs(t) = {} /\ (\A w \in Workers : Given(w, t) = {}) /\ ~ Unmarked(t)
  BY <1>1 DEF CarriersKnow, AnswersInv, BrokenInv, DecidesInv, PendingInv, GivenInv, MarkInv, JobFits, Unmarked
<1>2. taskStatus[t] # "WAITING" => ~ Waits(t)
  BY DEF CarriersKnow, WaitsInv
<1>3. Quiet(t) => WithStatus(t, "FAILED") = {} /\ \A f \in Features : ~ Working(t, f)
  BY DEF Quiet, Working, WithStatus, Requested
<1>4. ASSUME NEW f \in Features, Working(t, f) PROVE WithStatus(t, "FAILED") = {}
  BY <1>4 DEF Working, WithStatus, Requested
<1>5. \A m \in AnswersTo(t) : Working(t, TypeOf[m.worker]) /\ TypeOf[m.worker] \in Features
  <2>1. \A m \in AnswersTo(t) : Working(t, TypeOf[m.worker])
    BY DEF CarriersKnow, AnswersInv
  <2>2. NewAnswers \subseteq Response
    BY QueueTypes DEF NewAnswers
  <2>3. pc["response"] \in {"feature_ready", "feature_failed"} => Answered \in Response
    BY InProgress DEF Typing, InFlight, InFlightAt
  <2>4. \A m \in AnswersTo(t) : m.worker \in Workers
    BY <2>2, <2>3 DEF AnswersTo, Response, Answer, Status
  <2>5. QED
    BY <2>1, <2>4, WorkersAssumption
<1>6. Quiet(t) => AnswersTo(t) = {} /\ ~ Broken(t)
  BY <1>3, <1>5 DEF CarriersKnow, BrokenInv
<1>7. \A w \in Workers : \A job \in Given(w, t) : job.feature \in Features /\ (~ Unmarked(t) => Working(t, job.feature))
  BY WorkersAssumption DEF CarriersKnow, GivenInv
<1>8. ~ Quiet(t) => (\A h \in Handlers : ~ Decides(h, t)) /\ PendJobs(t) = {} /\ ~ Unmarked(t)
  BY DEF CarriersKnow, DecidesInv, PendingInv, MarkInv, Due, Unmarked
<1>9. ASSUME WithStatus(t, "FAILED") # {}
      PROVE  AnswersTo(t) = {} /\ (\A h \in Handlers : ~ Decides(h, t)) /\ PendJobs(t) = {}
                    /\ (\A w \in Workers : Given(w, t) = {}) /\ ~ Unmarked(t)
  <2>1. ~ Quiet(t)
    BY <1>3, <1>9
  <2>2. (\A h \in Handlers : ~ Decides(h, t)) /\ PendJobs(t) = {} /\ ~ Unmarked(t)
    BY <1>8, <2>1
  <2>3. AnswersTo(t) = {} /\ \A w \in Workers : Given(w, t) = {}
    BY <1>4, <1>5, <1>7, <1>9, <2>2
  <2>4. QED
    BY <2>2, <2>3
<1>10. Quiet(t) /\ ~ Unmarked(t) => \A w \in Workers : Given(w, t) = {}
  BY <1>3, <1>7
<1>11. QED
  BY <1>1, <1>2, <1>6, <1>8, <1>9, <1>10 DEF NoCarrier

\* Fewer than none are none.
LEMMA NoCarrierStays ==
    ASSUME NEW t \in Tasks, Fewer(t), NoCarrier(t), taskStatus[t] # "WAITING"
    PROVE  NoCarrier(t)'
BY DEF NoCarrier, Fewer, Steady, FewerAnswers, FewerPending, Unmarked

\* The API inserts a task nothing carries, and publishes it while it waits.
LEMMA ApiKnows ==
    ASSUME Typing, NEW t \in Tasks, CarriersKnow(t), RowsInv(t), SubmissionInv(t), NEW u \in Tasks, Api(u)
    PROVE  /\ CarriersKnow(t)' /\ RowsInv(t)' /\ Taken' = Taken /\ LifeStep(t)
           /\ SameRows(t) \/ (taskStatus[t] = "none" /\ InsertSubmission(t))
<1>1. CASE StoreAudio(u) \/ PublishFails(u)
  <2>1. SameRows(t) /\ Fewer(t) /\ Taken' = Taken
    BY <1>1, OutsideFewer DEF Api, StoreAudio, PublishFails, queueVars, brokerVars, storeVars, SameRows
  <2>2. QED
    BY <2>1, FewerKnow, RowsFrame DEF SameRows, LifeStep
<1>2. CASE InsertSubmission(u)
  <2>1. Fewer(t) /\ Taken' = Taken
    BY <1>2, OutsideFewer DEF Api, InsertSubmission, queueVars, brokerVars
  <2>2. PICK wanted \in FeatureChoices : InsertTask(u, wanted)
    BY <1>2 DEF InsertSubmission
  <2>3. CASE u # t
    <3>1. SameRows(t)
      BY <2>2, <2>3, OtherRows
    <3>2. QED
      BY <2>1, <3>1, FewerKnow, RowsFrame DEF SameRows, LifeStep
  <2>4. CASE u = t
    <3>1. taskStatus[t] = "none" /\ RowsInv(t)'
      BY <2>2, <2>4, RowsInserted DEF InsertTask, HasRow
    <3>2. CarriersKnow(t)'
      BY <2>1, <3>1, CarriersByRows, NoCarrierStays, NoCarrierKnows
    <3>3. LifeStep(t)
      BY <2>2, <2>4, <3>1, OwnRows DEF LifeStep
    <3>4. QED
      BY <1>2, <2>1, <2>4, <3>1, <3>2, <3>3
  <2>5. QED
    BY <2>3, <2>4
<1>3. CASE PublishTask(u)
  <2>1. /\ request_queue' = Append(request_queue, u) /\ submission[u] = "inserted" /\ SameRows(t)
        /\ UNCHANGED <<response_queue, pending_requests, worker_queue, pc, view>>
    BY <1>3 DEF Api, PublishTask, Advance, brokerVars, storeVars, SameRows
  <2>2. NewRequests' \subseteq NewRequests \cup {u}
    BY <2>1, QueueTypes, NewAfterAppend DEF NewRequests
  <2>3. u = t => taskStatus[t] = "WAITING" /\ ~ Unmarked(t)
    BY <2>1, CarriersByRows DEF SubmissionInv
  <2>4. \A h \in Handlers : pc'[h] # "idle" => TaskOf(h)' = TaskOf(h)
    BY <2>1, QueueTypes, AppendFacts DEF TaskOf, Answered, Typing, InFlight, InFlightAt
  <2>5. /\ Answered' = Answered /\ NewAnswers' = NewAnswers /\ \A w \in Workers : Given(w, t)' = Given(w, t)
    BY <2>1 DEF Answered, NewAnswers, Given, OfTask
  <2>6. Fewer(t) /\ Taken' = Taken
    BY <2>1, <2>2, <2>3, <2>4, <2>5, QueueFewer DEF Fewer
  <2>7. QED
    BY <2>1, <2>6, FewerKnow, RowsFrame DEF SameRows, LifeStep
<1>4. QED
  BY <1>1, <1>2, <1>3 DEF Api, ApiStep

-----------------------------------------------------------------------------
(* Steps of the handler that holds the only carrier                        *)

\* What FlightInv says of it.
LEMMA OnlyCarrier ==
    ASSUME Typing, FlightInv, NEW t \in Tasks
    PROVE  /\ pc["request"] = "accept" /\ TaskOf("request") = t => t \notin NewRequests
           /\ pc["response"] \in {"feature_ready", "feature_failed"} /\ Answered.task = t =>
                 NewAnswers \cap OfTask(t) = {} /\ \A w \in Workers : Given(w, t) = {}
           /\ \A h \in Handlers : Decides(h, t) =>
                 PendAt(t) = {} /\ \A k \in Handlers : Decides(k, t) => k = h
           /\ \A i \in PendAt(t) : PendAt(t) = {i} /\ \A k \in Handlers : ~ Decides(k, t)
           /\ PendAt(t) = {} /\ (pc["response"] = "mark_pending" => ~ UnmarkedBy("response", t)) => PendJobs(t) = {}
<1>0. InOnePlace(t)
  BY DEF FlightInv
<1>1. \A w \in Workers : NoJob(t) => Given(w, t) = {}
  BY DEF NoJob, JobAt, Given, Where, Elements
<1>2. ASSUME pc["request"] = "accept", TaskOf("request") = t PROVE t \notin NewRequests
  <2>1. 1 \in ReqAt(t)
    BY <1>2, HeadCarries DEF ReqAt, PassedOn
  <2>2. \A i \in DOMAIN request_queue : request_queue[i] = t /\ i # 1 => i \in ReqAt(t)
    BY DEF ReqAt, Where
  <2>3. QED
    BY <1>0, <1>2, <2>1, <2>2 DEF NewRequests, InOnePlace, One
<1>3. ASSUME pc["response"] \in {"feature_ready", "feature_failed"}, Answered.task = t
      PROVE  NewAnswers \cap OfTask(t) = {} /\ \A w \in Workers : Given(w, t) = {}
  <2>1. 1 \in AnsAt(t)
    BY <1>3, HeadCarries DEF AnsAt, PassedOn
  <2>2. \A i \in DOMAIN response_queue : response_queue[i] \in OfTask(t) /\ i # 1 => i \in AnsAt(t)
    BY DEF AnsAt, Where
  <2>3. NewAnswers \cap OfTask(t) = {}
    BY <1>0, <1>3, <2>1, <2>2 DEF NewAnswers, InOnePlace, One
  <2>4. QED
    BY <1>0, <1>1, <2>1, <2>3 DEF InOnePlace
<1>4. ASSUME NEW h \in Handlers, Decides(h, t)
      PROVE  (h = "request" /\ ReqAt(t) # {}) \/ (h = "response" /\ AnsAt(t) # {})
  <2>1. CASE h = "request"
    <3>1. pc["request"] \in {"read", "decide"} /\ TaskOf("request") = t
      BY <1>4, <2>1 DEF Decides, Typing, InFlight, InFlightAt, RequestPCs
    <3>2. 1 \in ReqAt(t)
      BY <3>1, HeadCarries DEF ReqAt, PassedOn
    <3>3. QED
      BY <2>1, <3>2
  <2>2. CASE h = "response"
    <3>1. pc["response"] \in {"pending", "mark_pending", "read", "decide"} /\ Answered.task = t
      BY <1>4, <2>2 DEF Decides, TaskOf
    <3>2. 1 \in AnsAt(t)
      BY <3>1, HeadCarries DEF AnsAt, PassedOn
    <3>3. QED
      BY <2>2, <3>2
  <2>3. QED
    BY <2>1, <2>2 DEF Handlers
<1>5. ASSUME NEW h \in Handlers, Decides(h, t)
      PROVE  PendAt(t) = {} /\ \A k \in Handlers : Decides(k, t) => k = h
  BY <1>0, <1>4, <1>5 DEF InOnePlace
<1>6. ASSUME NEW i \in PendAt(t) PROVE PendAt(t) = {i} /\ \A k \in Handlers : ~ Decides(k, t)
  BY <1>0, <1>5, <1>6 DEF InOnePlace, One
<1>7. ASSUME PendAt(t) = {}, pc["response"] = "mark_pending" => ~ UnmarkedBy("response", t)
      PROVE  PendJobs(t) = {}
  <2>1. ASSUME NEW i \in DOMAIN pending_requests, pending_requests[i] \in OfTask(t) PROVE FALSE
    <3>1. i \in Taken
      BY <1>7, <2>1 DEF PendAt, Where
    <3>2. pending_requests[i].task = t
      BY <2>1 DEF OfTask
    <3>3. QED
      BY <1>7, <3>1, <3>2 DEF UnmarkedBy, Taken
  <2>2. QED
    BY <2>1 DEF PendJobs, Elements
<1>8. QED
  BY <1>2, <1>3, <1>5, <1>6, <1>7

\* A handler that stores something goes on; the rows of no other task change.
LEMMA OthersKnow ==
    ASSUME Typing, NEW t \in Tasks, CarriersKnow(t), RowsInv(t), NEW h \in Handlers, NEW q, GoesOn(h, q),
           TaskOf(h) # t, SameRows(t), FewerPending(t), \A w \in Workers : Given(w, t)' \subseteq Given(w, t)
    PROVE  CarriersKnow(t)' /\ RowsInv(t)' /\ Taken' = Taken
<1>1. Fewer(t) /\ Taken' = Taken
  BY OtherGoesOn DEF Fewer, GoesOn
<1>2. QED
  BY <1>1, FewerKnow, RowsFrame

\* The request is accepted by the handler that took it.
LEMMA AcceptKnows ==
    ASSUME Typing, FlightInv, NEW t \in Tasks, CarriersKnow(t), RowsInv(t), AcceptRequest
    PROVE  CarriersKnow(t)' /\ RowsInv(t)' /\ Taken' = Taken /\ LifeStep(t)
<1>0. /\ pc["request"] = "accept" /\ UpdateTask(TaskOf("request"), "PROCESSING", None) /\ TaskOf("request") \in Tasks
      /\ UNCHANGED <<request_queue, response_queue, pending_requests, worker_queue, view>>
      /\ pc' = [pc EXCEPT !["request"] = "read"] /\ pc \in [Handlers -> PCs]
  BY InProgress, QueueTypes DEF AcceptRequest, At, Goto, queueVars
<1>1. GoesOn("request", "read") /\ FewerPending(t) /\ \A w \in Workers : Given(w, t)' = Given(w, t)
  BY <1>0, GoesOnStep DEF Handlers, Given, OfTask
<1>2. CASE TaskOf("request") # t
  <2>1. SameRows(t)
    BY <1>0, <1>2, OtherRows
  <2>2. QED
    BY <1>1, <1>2, <2>1, OthersKnow DEF Handlers, SameRows, LifeStep
<1>3. CASE TaskOf("request") = t
  <2>1. taskStatus[t] = "WAITING"
    BY <1>0, <1>3 DEF CarriersKnow, WaitsInv, Waits
  <2>2. /\ RowsInv(t)' /\ taskStatus'[t] = "PROCESSING" /\ Quiet(t)'
        /\ featStatus'[t] = featStatus[t] /\ finalResult'[t] = finalResult[t]
    BY <1>0, <1>3, <2>1, RowsSettled DEF HasRow, RowsInv
  <2>3. /\ AnswersTo(t) = {} /\ ~ Broken(t) /\ \A h \in Handlers : ~ Decides(h, t)
        /\ PendJobs(t) = {} /\ (\A w \in Workers : Given(w, t) = {}) /\ ~ Unmarked(t)
    BY <2>1, CarriersByRows
  <2>4. /\ NewRequests' \subseteq NewRequests /\ NewAnswers' \subseteq NewAnswers
        /\ \A k \in Handlers : TaskOf(k)' = TaskOf(k)
        /\ pc'["response"] = pc["response"] /\ pc'["request"] = "read"
        /\ \A k \in Handlers : UnmarkedBy(k, t)' <=> UnmarkedBy(k, t)
    BY <1>0, <1>1, GoesOnFrame DEF Handlers
  <2>5. ~ Waits(t)'
    BY <1>0, <1>3, <2>4, OnlyCarrier DEF Waits
  <2>6. AnswersTo(t)' = {} /\ ~ Broken(t)' /\ PendJobs(t)' = {} /\ (\A w \in Workers : Given(w, t)' = {}) /\ ~ Unmarked(t)'
    <3>1. AnswersTo(t)' = {} /\ ~ Broken(t)'
      BY <1>0, <2>3, <2>4 DEF AnswersTo, Broken, OfTask, Answered
    <3>2. QED
      BY <1>1, <2>3, <2>4, <3>1 DEF FewerPending, Unmarked
  <2>7. DecidesInv(t)'
    BY <2>2, <2>3, <2>4 DEF DecidesInv, Decides, Handlers
  <2>8. CarriersKnow(t)'
    BY <2>5, <2>6, <2>7 DEF CarriersKnow, WaitsInv, AnswersInv, BrokenInv, PendingInv, GivenInv, MarkInv, Unmarked
  <2>9. QED
    BY <1>1, <2>1, <2>2, <2>8 DEF GoesOn, LifeStep
<1>4. QED
  BY <1>2, <1>3

\* An answer whose outcome is being stored was the only carrier.
LEMMA AnswerStored ==
    ASSUME Typing, FlightInv, NEW t \in Tasks, CarriersKnow(t), Answered.task = t,
           pc["response"] \in {"feature_ready", "feature_failed"},
           NEW q \in {"pending", "task_failed"}, GoesOn("response", q), FewerPending(t), UNCHANGED worker_queue
    PROVE  /\ taskStatus[t] = "PROCESSING" /\ Working(t, TypeOf[Answered.worker])
           /\ Answered.status = "success" => Answered.result = UpTo(t, TypeOf[Answered.worker])
           /\ ~ Waits(t)' /\ AnswersTo(t)' = {} /\ PendJobs(t)' = {} /\ (\A w \in Workers : Given(w, t)' = {})
           /\ ~ Unmarked(t)' /\ (Broken(t)' => q = "task_failed")
           /\ \A h \in Handlers : Decides(h, t)' => h = "response" /\ q = "pending"
<1>0. /\ Answered \in AnswersTo(t) /\ Answered' = Answered
      /\ NewAnswers \cap OfTask(t) = {} /\ \A w \in Workers : Given(w, t) = {}
  BY OnlyCarrier, InProgress DEF AnswersTo, AnswerPCs, OfTask, Response, GoesOn, Answered
<1>1. /\ taskStatus[t] = "PROCESSING" /\ Working(t, TypeOf[Answered.worker])
      /\ Answered.status = "success" => Answered.result = UpTo(t, TypeOf[Answered.worker])
  BY <1>0 DEF CarriersKnow, AnswersInv
<1>2. ~ Waits(t) /\ (\A h \in Handlers : ~ Decides(h, t)) /\ PendJobs(t) = {} /\ ~ Unmarked(t)
  BY <1>0, <1>1, CarriersByRows
<1>3. /\ NewRequests' \subseteq NewRequests /\ NewAnswers' \subseteq NewAnswers
      /\ \A k \in Handlers : TaskOf(k)' = TaskOf(k)
      /\ pc'["request"] = pc["request"] /\ pc'["response"] = q
      /\ \A k \in Handlers : UnmarkedBy(k, t)' <=> UnmarkedBy(k, t)
  BY GoesOnFrame DEF Handlers
<1>4. ~ Waits(t)' /\ AnswersTo(t)' = {} /\ (Broken(t)' => q = "task_failed")
  BY <1>0, <1>2, <1>3 DEF Waits, AnswersTo, Broken, OfTask, Handlers
<1>5. \A h \in Handlers : Decides(h, t)' => h = "response" /\ q = "pending"
  BY <1>2, <1>3 DEF Decides, Handlers
<1>6. PendJobs(t)' = {} /\ (\A w \in Workers : Given(w, t)' = {}) /\ ~ Unmarked(t)'
  BY <1>0, <1>2, <1>3 DEF FewerPending, Given, OfTask, Unmarked
<1>7. QED
  BY <1>1, <1>4, <1>5, <1>6

\* The outcome of a feature is stored.
LEMMA FeatureKnows ==
    ASSUME Typing, FlightInv, NEW t \in Tasks, CarriersKnow(t), RowsInv(t), FeatureReady \/ FeatureFailed
    PROVE  CarriersKnow(t)' /\ RowsInv(t)' /\ Taken' = Taken /\ LifeStep(t)
<1>. DEFINE u == Answered.task
            f == TypeOf[Answered.worker]
<1>0. /\ pc["response"] \in {"feature_ready", "feature_failed"} /\ pc \in [Handlers -> PCs]
      /\ u \in Tasks /\ f \in Features
      /\ UNCHANGED <<request_queue, response_queue, pending_requests, worker_queue, view>>
  <2>1. pc["response"] \in {"feature_ready", "feature_failed"} /\ pc \in [Handlers -> PCs]
    BY QueueTypes DEF FeatureReady, FeatureFailed, At
  <2>2. Answered \in Answer
    BY <2>1, InProgress DEF AnswerPCs
  <2>3. QED
    BY <2>1, <2>2, WorkersAssumption DEF FeatureReady, FeatureFailed, queueVars, Answer
<1>1. PICK q \in {"pending", "task_failed"} :
         /\ pc' = [pc EXCEPT !["response"] = q]
         /\ q = "pending" => Answered.status = "success" /\ UpdateFeature(u, f, "READY", Answered.result)
         /\ q = "task_failed" => UpdateFeature(u, f, "FAILED", None)
  BY DEF FeatureReady, FeatureFailed, Goto, At, Typing, InFlight, InFlightAt
<1>2. GoesOn("response", q) /\ FewerPending(t) /\ \A w \in Workers : Given(w, t)' = Given(w, t)
  BY <1>0, <1>1, GoesOnStep DEF Handlers, Given, OfTask
<1>3. CASE u # t
  <2>1. SameRows(t)
    BY <1>0, <1>1, <1>3, OtherRows
  <2>2. TaskOf("response") # t
    BY <1>3 DEF TaskOf
  <2>3. QED
    BY <1>2, <2>1, <2>2, OthersKnow DEF Handlers, SameRows, LifeStep
<1>4. CASE u = t
  <2>1. /\ taskStatus[t] = "PROCESSING" /\ Working(t, f)
        /\ Answered.status = "success" => Answered.result = UpTo(t, f)
        /\ ~ Waits(t)' /\ AnswersTo(t)' = {} /\ PendJobs(t)' = {} /\ (\A w \in Workers : Given(w, t)' = {})
        /\ ~ Unmarked(t)' /\ (Broken(t)' => q = "task_failed")
        /\ \A h \in Handlers : Decides(h, t)' => h = "response" /\ q = "pending"
    BY <1>0, <1>2, <1>4, AnswerStored
  <2>2. f \in Requested(t) /\ featStatus[t][f] = "PROCESSING"
    BY <1>0, <2>1 DEF Working, Requested
  <2>3. CASE q = "pending"
    <3>1. /\ RowsInv(t)' /\ Quiet(t)'
          /\ taskStatus'[t] = taskStatus[t] /\ finalResult'[t] = finalResult[t]
          /\ featStatus'[t] = [featStatus[t] EXCEPT ![f] = "READY"]
      BY <1>0, <1>1, <1>4, <2>1, <2>3, RowsCompleted
    <3>2. DecidesInv(t)'
      BY <1>0, <1>1, <2>1, <2>3, <3>1 DEF DecidesInv, Handlers
    <3>3. CarriersKnow(t)'
      BY <2>1, <2>3, <3>2 DEF CarriersKnow, WaitsInv, AnswersInv, BrokenInv, PendingInv, GivenInv, MarkInv, Unmarked
    <3>4. LifeStep(t)
      BY <2>1, <2>2, <3>1 DEF LifeStep
    <3>5. QED
      BY <1>2, <3>1, <3>3, <3>4 DEF GoesOn
  <2>4. CASE q = "task_failed"
    <3>1. /\ RowsInv(t)' /\ WithStatus(t, "FAILED")' # {}
          /\ taskStatus'[t] = taskStatus[t] /\ finalResult'[t] = finalResult[t]
          /\ featStatus'[t] = [featStatus[t] EXCEPT ![f] = "FAILED"]
      BY <1>0, <1>1, <1>4, <2>1, <2>4, RowsBroken
    <3>2. CarriersKnow(t)'
      BY <2>1, <2>4, <3>1 DEF CarriersKnow, WaitsInv, AnswersInv, BrokenInv, DecidesInv, PendingInv, GivenInv, MarkInv, Unmarked
    <3>3. LifeStep(t)
      BY <2>1, <2>2, <3>1 DEF LifeStep
    <3>4. QED
      BY <1>2, <3>1, <3>2, <3>3 DEF GoesOn
  <2>5. QED
    BY <2>3, <2>4
<1>5. QED
  BY <1>3, <1>4

\* But for handler h, its pending jobs and the jobs of the workers, nothing has t.
NothingElse(h, t) ==
    /\ ~ Waits(t) /\ AnswersTo(t) = {} /\ (h = "request" => ~ Broken(t))
    /\ \A k \in Handlers \ {h} : ~ Decides(k, t) /\ ~ UnmarkedBy(k, t)

\* The message handler h works on is all there is of t.
OnlyAt(h, t) ==
    /\ NothingElse(h, t) /\ ~ UnmarkedBy(h, t)
    /\ PendJobs(t) = {} /\ \A w \in Workers : Given(w, t) = {}

\* A handler that decides has a snapshot of the rows as they are.
LEMMA Deciding ==
    ASSUME Typing, FlightInv, NEW t \in Tasks, CarriersKnow(t), RowsInv(t),
           NEW h \in Handlers, pc[h] = "decide", TaskOf(h) = t
    PROVE  /\ OnlyAt(h, t) /\ taskStatus[t] = "PROCESSING" /\ Quiet(t)
           /\ view[h].waiting = WithStatus(t, "WAITING") /\ view[h].failed = FALSE
           /\ \A f \in FirstOf(view[h].waiting) :
                 f \in Features /\ Due(t, f) /\ view[h].existing = Earlier(t, f)
           /\ view[h].waiting = {} => view[h].existing = Requested(t)
<1>1. Decides(h, t)
  BY DEF Decides
<1>2. taskStatus[t] = "PROCESSING" /\ Quiet(t) /\ view[h] = FeaturesOf(t)
  BY <1>1 DEF CarriersKnow, DecidesInv
<1>3. ~ Unmarked(t)
  BY <1>1 DEF CarriersKnow, MarkInv, Alone, Unmarked
<1>4. ~ Waits(t) /\ AnswersTo(t) = {} /\ ~ Broken(t) /\ \A w \in Workers : Given(w, t) = {}
  BY <1>2, <1>3, CarriersByRows
<1>5. PendJobs(t) = {} /\ \A k \in Handlers \ {h} : ~ Decides(k, t)
  BY <1>1, <1>3, OnlyCarrier DEF Unmarked, Handlers
<1>6. view[h].waiting = WithStatus(t, "WAITING") /\ view[h].failed = FALSE
  <2>1. view[h].failed = FALSE
    BY <1>2, LastResult
  <2>2. QED
    BY <1>2, <2>1 DEF FeaturesOf
<1>7. ASSUME NEW f \in FirstOf(view[h].waiting)
      PROVE  f \in Features /\ Due(t, f) /\ view[h].existing = Earlier(t, f)
  <2>1. f \in Features /\ Due(t, f)
    BY <1>2, <1>6, <1>7 DEF Due, FirstOf, WithStatus
  <2>2. QED
    BY <1>2, <2>1, LastResult
<1>8. view[h].waiting = {} => view[h].existing = Requested(t)
  BY <1>2, <1>6, LastResult
<1>9. QED
  BY <1>2, <1>3, <1>4, <1>5, <1>6, <1>7, <1>8 DEF OnlyAt, NothingElse, Unmarked

\* Once it is passed on there is nothing but what it was passed on to.
LEMMA PassesOn ==
    ASSUME Typing, NEW t \in Tasks, NEW h \in Handlers, NothingElse(h, t), TaskOf(h) = t,
           NEW q \in {"mark", "callback", "ack"}, GoesOn(h, q)
    PROVE  /\ ~ Waits(t)' /\ AnswersTo(t)' = {} /\ ~ Broken(t)' /\ \A k \in Handlers : ~ Decides(k, t)'
           /\ \A k \in Handlers : UnmarkedBy(k, t)' => k = h
           /\ UnmarkedBy(h, t)' => q = "mark"
           /\ OnlyAt(h, t) /\ FewerPending(t) /\ UNCHANGED worker_queue /\ q # "mark" => NoCarrier(t)'
<1>0. /\ NewRequests' \subseteq NewRequests /\ NewAnswers' \subseteq NewAnswers
      /\ \A k \in Handlers : TaskOf(k)' = TaskOf(k)
      /\ \A k \in Handlers \ {h} : pc'[k] = pc[k]
      /\ pc'[h] = q
      /\ \A k \in Handlers \ {h} : UnmarkedBy(k, t)' <=> UnmarkedBy(k, t)
  BY GoesOnFrame
<1>1. ~ Waits(t)' /\ ~ Broken(t)' /\ \A k \in Handlers : ~ Decides(k, t)'
  <2>1. TaskOf("response") = Answered.task /\ TaskOf("response")' = Answered'.task
    BY DEF TaskOf
  <2>2. QED
    BY <1>0, <2>1 DEF NothingElse, Waits, Broken, Decides, Handlers
<1>2. AnswersTo(t)' = {}
  <2>1. Answered' = Answered
    BY DEF GoesOn, Answered
  <2>2. QED
    BY <1>0, <2>1 DEF NothingElse, AnswersTo, OfTask, Handlers
<1>3. \A k \in Handlers : UnmarkedBy(k, t)' => k = h
  BY <1>0 DEF NothingElse
<1>4. UnmarkedBy(h, t)' => q = "mark"
  BY <1>0 DEF UnmarkedBy
<1>5. OnlyAt(h, t) /\ UNCHANGED worker_queue => \A w \in Workers : Given(w, t)' = {}
  BY DEF OnlyAt, Given, OfTask
<1>6. QED
  BY <1>1, <1>2, <1>3, <1>4, <1>5 DEF NoCarrier, FewerPending, OnlyAt, Unmarked

\* A task is settled by the handler that holds all there is of it, for what its
\* rows say.
LEMMA SettleKnows ==
    ASSUME Typing, FlightInv, NEW t \in Tasks, CarriersKnow(t), RowsInv(t),
           TaskFailed \/ \E h \in Handlers : FinishFailed(h) \/ FinishReady(h)
    PROVE  CarriersKnow(t)' /\ RowsInv(t)' /\ Taken' = Taken /\ LifeStep(t)
<1>0. pc \in [Handlers -> PCs]
  BY QueueTypes
<1>1. ASSUME NEW h \in Handlers, NEW q \in {"callback", "ack"}, Goto(h, q), pc[h] \in {"task_failed", "decide"},
             UNCHANGED <<request_queue, response_queue, pending_requests, worker_queue, view>>,
             NEW s, NEW r, UpdateTask(TaskOf(h), s, r), TaskOf(h) \in Tasks,
             TaskOf(h) = t => OnlyAt(h, t) /\ RowsInv(t)' /\ LifeStep(t)
      PROVE  CarriersKnow(t)' /\ RowsInv(t)' /\ Taken' = Taken /\ LifeStep(t)
  <2>1. GoesOn(h, q) /\ FewerPending(t) /\ \A w \in Workers : Given(w, t)' = Given(w, t)
    BY <1>0, <1>1, GoesOnStep DEF Goto, Given, OfTask
  <2>2. CASE TaskOf(h) # t
    <3>1. SameRows(t)
      BY <1>1, <2>2, OtherRows
    <3>2. QED
      BY <2>1, <2>2, <3>1, OthersKnow DEF SameRows, LifeStep
  <2>3. CASE TaskOf(h) = t
    <3>1. NoCarrier(t)'
      BY <1>1, <2>1, <2>3, PassesOn DEF OnlyAt
    <3>2. QED
      BY <1>1, <2>1, <2>3, <3>1, NoCarrierKnows DEF GoesOn
  <2>4. QED
    BY <2>2, <2>3
<1>2. CASE TaskFailed
  <2>1. /\ pc["response"] = "task_failed" /\ Goto("response", "ack") /\ UpdateTask(Answered.task, "FAILED", None)
        /\ UNCHANGED <<request_queue, response_queue, pending_requests, worker_queue, view>>
    BY <1>2 DEF TaskFailed, At, queueVars
  <2>2. Answered.task \in Tasks /\ TaskOf("response") = Answered.task
    BY <2>1, InProgress DEF AnswerPCs, Answer, TaskOf
  <2>3. ASSUME Answered.task = t PROVE OnlyAt("response", t) /\ RowsInv(t)' /\ LifeStep(t)
    <3>1. taskStatus[t] = "PROCESSING" /\ WithStatus(t, "FAILED") # {}
      BY <2>1, <2>3 DEF CarriersKnow, BrokenInv, Broken
    <3>2. OnlyAt("response", t)
      BY <3>1, CarriersByRows DEF OnlyAt, NothingElse, Unmarked, Handlers
    <3>3. /\ RowsInv(t)' /\ taskStatus'[t] = "FAILED"
          /\ featStatus'[t] = featStatus[t] /\ finalResult'[t] = finalResult[t]
      BY <2>1, <2>3, <3>1, RowsSettled DEF HasRow
    <3>4. QED
      BY <3>1, <3>2, <3>3 DEF LifeStep
  <2>4. QED
    BY <1>1, <2>1, <2>2, <2>3 DEF Handlers
<1>3. ASSUME NEW h \in Handlers, FinishReady(h) PROVE CarriersKnow(t)' /\ RowsInv(t)' /\ Taken' = Taken /\ LifeStep(t)
  <2>1. /\ pc[h] = "decide" /\ Goto(h, "callback") /\ UpdateTask(TaskOf(h), "READY", view[h].existing)
        /\ view[h].waiting = {} /\ TaskOf(h) \in Tasks
        /\ UNCHANGED <<request_queue, response_queue, pending_requests, worker_queue, view>>
    BY <1>3, InProgress DEF FinishReady, At, queueVars
  <2>2. ASSUME TaskOf(h) = t PROVE OnlyAt(h, t) /\ RowsInv(t)' /\ LifeStep(t)
    <3>1. /\ OnlyAt(h, t) /\ taskStatus[t] = "PROCESSING" /\ Quiet(t) /\ WithStatus(t, "WAITING") = {}
          /\ view[h].existing = Requested(t)
      BY <2>1, <2>2, Deciding
    <3>2. /\ RowsInv(t)' /\ taskStatus'[t] = "READY" /\ Requested(t) = WithStatus(t, "READY")
          /\ featStatus'[t] = featStatus[t] /\ finalResult'[t] = Requested(t)
      BY <2>1, <2>2, <3>1, RowsFinished DEF HasRow
    <3>3. QED
      BY <3>1, <3>2 DEF LifeStep
  <2>3. QED
    BY <1>1, <2>1, <2>2
<1>4. ASSUME NEW h \in Handlers, FinishFailed(h) PROVE CarriersKnow(t)' /\ RowsInv(t)' /\ Taken' = Taken /\ LifeStep(t)
  <2>1. /\ pc[h] = "decide" /\ Goto(h, "ack") /\ UpdateTask(TaskOf(h), "FAILED", None)
        /\ view[h].failed /\ TaskOf(h) \in Tasks
        /\ UNCHANGED <<request_queue, response_queue, pending_requests, worker_queue, view>>
    BY <1>4, InProgress DEF FinishFailed, At, queueVars
  <2>2. TaskOf(h) # t
    BY <2>1, Deciding
  <2>3. QED
    BY <1>1, <2>1, <2>2
<1>5. QED
  BY <1>2, <1>3, <1>4

-----------------------------------------------------------------------------
(* Steps that give out a feature                                           *)

\* A published job is given to one worker at most.
LEMMA JobGiven ==
    ASSUME Typing, NEW t \in Tasks, NEW w \in Workers, NEW job \in Job, PublishJob(w, job)
    PROVE  /\ \A v \in Workers : Given(v, t)' \subseteq Given(v, t) \cup {job}
           /\ \A v \in Workers \ {w} : Given(v, t)' = Given(v, t)
           /\ job.task # t => \A v \in Workers : Given(v, t)' = Given(v, t)
<1>1. worker_queue[w] \in Seq(Job)
  BY QueueTypes
<1>2. /\ \A v \in Workers : v # w => worker_queue'[v] = worker_queue[v]
      /\ worker_queue'[w] \in {worker_queue[w], Append(worker_queue[w], job)}
  BY QueueTypes DEF PublishJob
<1>3. Elements(worker_queue[w])' \in {Elements(worker_queue[w]), Elements(worker_queue[w]) \cup {job}}
  <2>1. Elements(Append(worker_queue[w], job)) = Elements(worker_queue[w]) \cup {job}
    BY <1>1, AppendFacts
  <2>2. Elements(worker_queue[w])' = Elements(worker_queue'[w])
    BY DEF Elements
  <2>3. QED
    BY <1>2, <2>1, <2>2
<1>4. job.task # t => job \notin OfTask(t)
  BY DEF OfTask
<1>5. \A v \in Workers \ {w} : Elements(worker_queue[v])' = Elements(worker_queue[v])
  BY <1>2 DEF Elements
<1>6. \A v \in Workers : Given(v, t)' = OfTask(t) \cap Elements(worker_queue[v])'
  BY DEF Given, OfTask
<1>7. QED
  BY <1>3, <1>4, <1>5, <1>6 DEF Given

\* A job is published to a worker of its feature before the feature is marked.
LEMMA DispatchKnows ==
    ASSUME Typing, FlightInv, NEW t \in Tasks, CarriersKnow(t), RowsInv(t), NEW h \in Handlers, Dispatch(h)
    PROVE  CarriersKnow(t)' /\ RowsInv(t)' /\ Taken' = Taken /\ SameRows(t)
<1>0. /\ pc[h] = "decide" /\ pc' = [pc EXCEPT ![h] = "mark"] /\ pc \in [Handlers -> PCs]
      /\ UNCHANGED <<request_queue, response_queue, pending_requests, view, storeVars>>
      /\ TaskOf(h) \in Tasks
  BY QueueTypes, InProgress DEF Dispatch, At, Goto, KeepQueues
<1>1. PICK f \in FirstOf(view[h].waiting), w \in Workers : TypeOf[w] = f /\ PublishJob(w, NextJob(h, f))
  <2>1. available_workers \subseteq Workers
    BY DEF Typing, TypeOK, BrokerTypeOK
  <2>2. QED
    BY <2>1 DEF Dispatch, Registered
<1>2. NextJob(h, f) \in Job /\ NextJob(h, f) = [task |-> TaskOf(h), feature |-> f, existing |-> view[h].existing]
  BY <1>0, <1>1, NextJobTyped DEF NextJob, FirstOf
<1>3. GoesOn(h, "mark") /\ FewerPending(t)
  BY <1>0, GoesOnStep
<1>4. SameRows(t)
  BY <1>0 DEF storeVars, SameRows
<1>5. CASE TaskOf(h) # t
  <2>1. \A v \in Workers : Given(v, t)' = Given(v, t)
    BY <1>1, <1>2, <1>5, JobGiven
  <2>2. QED
    BY <1>3, <1>4, <1>5, <2>1, OthersKnow
<1>6. CASE TaskOf(h) = t
  <2>1. /\ OnlyAt(h, t) /\ taskStatus[t] = "PROCESSING" /\ Quiet(t)
        /\ view[h].waiting = WithStatus(t, "WAITING")
        /\ Due(t, f) /\ view[h].existing = Earlier(t, f)
    BY <1>0, <1>1, <1>6, Deciding
  <2>2. /\ ~ Waits(t)' /\ AnswersTo(t)' = {} /\ ~ Broken(t)' /\ \A k \in Handlers : ~ Decides(k, t)'
        /\ \A k \in Handlers : UnmarkedBy(k, t)' => k = h
    BY <1>3, <1>6, <2>1, PassesOn DEF OnlyAt
  <2>3. PendJobs(t)' = {} /\ PendAt(t)' = {}
    <3>1. PendAt(t) = {}
      BY <2>1 DEF OnlyAt, PendJobs, PendAt, Where, Elements
    <3>2. QED
      BY <1>3, <2>1, <3>1 DEF FewerPending, OnlyAt
  <2>4. \A v \in Workers : Given(v, t)' \subseteq {NextJob(h, f)} /\ (v # w => Given(v, t)' = {})
    BY <1>1, <1>2, <2>1, JobGiven DEF OnlyAt
  <2>5. /\ taskStatus'[t] = "PROCESSING" /\ Quiet(t)' /\ WithStatus(t, "WAITING")' = WithStatus(t, "WAITING")
        /\ Due(t, f)' /\ Earlier(t, f)' = Earlier(t, f) /\ RowsInv(t)'
    BY <1>4, <2>1, RowsFrame DEF SameRows
  <2>6. UnmarkedBy(h, t)'
    <3>1. TaskOf(h)' = TaskOf(h) /\ pc'[h] = "mark"
      BY <1>0 DEF TaskOf, Answered
    <3>2. QED
      BY <1>6, <3>1 DEF UnmarkedBy
  <2>7. GivenInv(t)'
    BY <1>1, <1>2, <2>1, <2>4, <2>5, <2>6 DEF GivenInv, JobFits, Unmarked
  <2>8. MarkInv(t)'
    BY <1>0, <2>1, <2>2, <2>3, <2>5 DEF MarkInv, Alone
  <2>9. QED
    BY <1>3, <1>4, <2>2, <2>3, <2>5, <2>7, <2>8
       DEF CarriersKnow, WaitsInv, AnswersInv, BrokenInv, DecidesInv, PendingInv, GoesOn
<1>7. QED
  BY <1>5, <1>6

\* The mark finds the rows as they were when the job was published.
LEMMA MarkKnows ==
    ASSUME Typing, FlightInv, NEW t \in Tasks, CarriersKnow(t), RowsInv(t), NEW h \in Handlers, MarkDispatched(h)
    PROVE  CarriersKnow(t)' /\ RowsInv(t)' /\ Taken' = Taken /\ LifeStep(t)
<1>0. /\ pc[h] = "mark" /\ pc' = [pc EXCEPT ![h] = "ack"] /\ pc \in [Handlers -> PCs]
      /\ UNCHANGED <<request_queue, response_queue, pending_requests, worker_queue, view>>
      /\ TaskOf(h) \in Tasks
  BY QueueTypes, InProgress DEF MarkDispatched, At, Goto, queueVars
<1>1. PICK f \in FirstOf(view[h].waiting) : f \in Features /\ UpdateFeature(TaskOf(h), f, "PROCESSING", None)
  BY DEF MarkDispatched, FirstOf, Typing, TypeOK, BrokerTypeOK, FeaturesView
<1>2. GoesOn(h, "ack") /\ FewerPending(t) /\ \A w \in Workers : Given(w, t)' = Given(w, t)
  BY <1>0, GoesOnStep DEF Given, OfTask
<1>3. CASE TaskOf(h) # t
  <2>1. SameRows(t)
    BY <1>0, <1>1, <1>3, OtherRows
  <2>2. QED
    BY <1>2, <1>3, <2>1, OthersKnow DEF SameRows, LifeStep
<1>4. CASE TaskOf(h) = t
  <2>1. UnmarkedBy(h, t) /\ Unmarked(t)
    BY <1>0, <1>4 DEF UnmarkedBy, Unmarked
  <2>2. /\ taskStatus[t] = "PROCESSING" /\ Quiet(t) /\ Alone(h, t)
        /\ view[h].waiting = WithStatus(t, "WAITING")
    BY <1>0, <2>1 DEF CarriersKnow, MarkInv
  <2>3. Due(t, f)
    BY <1>1, <2>2 DEF Due
  <2>4. NothingElse(h, t)
    BY <2>2 DEF Alone, NothingElse
  <2>5. PendJobs(t) = {}
    BY <1>0, <2>2, OnlyCarrier DEF Alone, Handlers
  <2>6. \A w \in Workers : \A job \in Given(w, t) :
           job.existing = Earlier(t, f) /\ job.feature = f /\ job.feature = TypeOf[w]
    <3>1. ASSUME NEW g \in Features, Due(t, g) PROVE g = f
      BY <2>3, <3>1 DEF Due, FirstOf, WithStatus, Features
    <3>2. ASSUME NEW w \in Workers, NEW job \in Given(w, t)
          PROVE  job.existing = Earlier(t, f) /\ job.feature = f /\ job.feature = TypeOf[w]
      <4>1. job.existing = Earlier(t, job.feature) /\ Due(t, job.feature) /\ job.feature = TypeOf[w]
        BY <2>1, <3>2 DEF CarriersKnow, GivenInv, JobFits
      <4>2. QED
        BY <3>1, <4>1, WorkersAssumption
    <3>3. QED
      BY <3>2
  <2>7. /\ RowsInv(t)' /\ Working(t, f)' /\ Requested(t)' = Requested(t)
        /\ taskStatus'[t] = taskStatus[t] /\ finalResult'[t] = finalResult[t]
        /\ featStatus'[t] = [featStatus[t] EXCEPT ![f] = "PROCESSING"]
        /\ \A g \in Requested(t) : g < f => featStatus[t][g] = "READY"
    BY <1>1, <1>4, <2>2, <2>3, RowsStarted
  <2>8. /\ ~ Waits(t)' /\ AnswersTo(t)' = {} /\ ~ Broken(t)' /\ (\A k \in Handlers : ~ Decides(k, t)') /\ ~ Unmarked(t)'
    BY <1>2, <1>4, <2>4, PassesOn DEF Unmarked
  <2>9. GivenInv(t)'
    <3>1. Earlier(t, f)' = Earlier(t, f)
      BY <2>7 DEF Earlier
    <3>2. QED
      BY <1>2, <2>2, <2>6, <2>7, <2>8, <3>1 DEF GivenInv, JobFits
  <2>10. CarriersKnow(t)'
    BY <1>2, <2>5, <2>8, <2>9
       DEF FewerPending, CarriersKnow, WaitsInv, AnswersInv, BrokenInv, DecidesInv, PendingInv, MarkInv, Unmarked
  <2>11. LifeStep(t)
    BY <2>2, <2>3, <2>7 DEF LifeStep, Due, FirstOf, WithStatus, Requested
  <2>12. QED
    BY <1>2, <2>7, <2>10, <2>11 DEF GoesOn
<1>5. QED
  BY <1>3, <1>4

\* An entry that is appended does not get before the one that is being marked.
LEMMA DeferGoesOn ==
    ASSUME Typing, MarkedThere, NEW h \in Handlers, pc[h] = "decide", Goto(h, "ack"),
           UNCHANGED <<request_queue, response_queue, view>>,
           NEW job \in Job, pending_requests' = Append(pending_requests, job)
    PROVE  GoesOn(h, "ack")
<1>. DEFINE P == PendingFor(TypeOf[Answered.worker])
            n == Len(pending_requests)
<1>0. pc \in [Handlers -> PCs] /\ pending_requests \in Seq(Job) /\ pc' = [pc EXCEPT ![h] = "ack"]
  BY QueueTypes DEF Goto
<1>1. /\ n \in Nat /\ DOMAIN pending_requests = 1..n /\ DOMAIN pending_requests' = (1..n) \cup {n + 1}
      /\ \A i \in 1..n : pending_requests'[i] = pending_requests[i]
  <2>1. /\ Append(pending_requests, job) \in Seq(Job) /\ Len(Append(pending_requests, job)) = n + 1
        /\ \A i \in 1..n : Append(pending_requests, job)[i] = pending_requests[i]
    BY <1>0, AppendProperties
  <2>2. QED
    BY <1>0, <2>1
<1>2. P' \subseteq P \cup {n + 1} /\ P \subseteq P' /\ P \subseteq 1..n
  BY <1>1 DEF PendingFor, Answered
<1>3. pc'["response"] = "mark_pending" <=> pc["response"] = "mark_pending"
  BY <1>0 DEF Handlers
<1>4. FirstOf(P) # {} => FirstOf(P') = FirstOf(P)
  <2>1. ASSUME NEW k \in FirstOf(P) PROVE FirstOf(P) = {k} /\ FirstOf(P') = {k}
    <3>1. k \in P /\ k \in P' /\ k \in 1..n /\ \A j \in P : k <= j
      BY <1>2, <2>1 DEF FirstOf
    <3>2. \A j \in P' : k <= j
      BY <1>1, <1>2, <3>1
    <3>3. \A j \in P \cup P' : j \in Nat
      BY <1>1, <1>2
    <3>4. FirstOf(P) = {k}
      <4>1. \A j \in P : (\A m \in P : j <= m) => j = k
        BY <3>1, <3>3
      <4>2. QED
        BY <3>1, <4>1 DEF FirstOf
    <3>5. FirstOf(P') = {k}
      <4>1. \A j \in P' : (\A m \in P' : j <= m) => j = k
        BY <3>1, <3>2, <3>3
      <4>2. QED
        BY <3>1, <3>2, <4>1 DEF FirstOf
    <3>6. QED
      BY <3>4, <3>5
  <2>2. QED
    BY <2>1
<1>5. Taken' = Taken
  <2>1. CASE pc["response"] = "mark_pending"
    <3>1. FirstOf(P) # {}
      BY <2>1 DEF MarkedThere, Taken
    <3>2. Taken = FirstOf(P) /\ Taken' = FirstOf(P')
      BY <1>3, <2>1 DEF Taken, FirstOf
    <3>3. QED
      BY <1>4, <3>1, <3>2
  <2>2. CASE pc["response"] # "mark_pending"
    BY <1>3, <2>2 DEF Taken
  <2>3. QED
    BY <2>1, <2>2
<1>6. \A i \in Taken : pending_requests'[i] = pending_requests[i]
  BY <1>1, <1>2 DEF Taken, FirstOf
<1>7. QED
  BY <1>0, <1>5, <1>6 DEF GoesOn

\* A job no worker can take yet waits as the only carrier of its task, and still
\* fits when it is taken.
LEMMA DeferKnows ==
    ASSUME Typing, FlightInv, MarkedThere, NEW t \in Tasks, CarriersKnow(t), RowsInv(t), NEW h \in Handlers, Defer(h)
    PROVE  CarriersKnow(t)' /\ RowsInv(t)' /\ Taken' = Taken /\ SameRows(t)
<1>0. /\ pc[h] = "decide" /\ Goto(h, "ack")
      /\ UNCHANGED <<request_queue, response_queue, worker_queue, view, storeVars>>
      /\ pending_requests \in Seq(Job)
  BY QueueTypes DEF Defer, At, queueVars
<1>1. PICK f \in FirstOf(view[h].waiting) : pending_requests' = Append(pending_requests, NextJob(h, f))
  BY DEF Defer
<1>2. NextJob(h, f) \in Job /\ NextJob(h, f) = [task |-> TaskOf(h), feature |-> f, existing |-> view[h].existing]
  BY <1>0, <1>1, NextJobTyped DEF NextJob, FirstOf
<1>3. GoesOn(h, "ack") /\ SameRows(t) /\ \A w \in Workers : Given(w, t)' = Given(w, t)
  BY <1>0, <1>1, <1>2, DeferGoesOn DEF storeVars, SameRows, Given, OfTask
<1>4. PendJobs(t)' \subseteq PendJobs(t) \cup ({NextJob(h, f)} \cap OfTask(t))
  <2>1. Elements(pending_requests)' = Elements(pending_requests) \cup {NextJob(h, f)}
    <3>1. Elements(Append(pending_requests, NextJob(h, f))) = Elements(pending_requests) \cup {NextJob(h, f)}
      BY <1>0, <1>2, AppendFacts
    <3>2. Elements(pending_requests)' = Elements(pending_requests')
      BY DEF Elements
    <3>3. QED
      BY <1>1, <3>1, <3>2
  <2>2. PendJobs(t)' = OfTask(t) \cap Elements(pending_requests)'
    BY DEF PendJobs, OfTask
  <2>3. QED
    BY <2>1, <2>2 DEF PendJobs
<1>5. CASE TaskOf(h) # t
  <2>1. NextJob(h, f) \notin OfTask(t)
    BY <1>2, <1>5 DEF OfTask
  <2>2. Where(pending_requests', OfTask(t)) = Where(pending_requests, OfTask(t))
    BY <1>0, <1>1, <1>2, <2>1, WhereAppend
  <2>3. PendAt(t)' = PendAt(t)
    <3>1. PendAt(t)' = Where(pending_requests', OfTask(t)) \ Taken'
      BY DEF PendAt, OfTask
    <3>2. QED
      BY <1>3, <2>2, <3>1 DEF PendAt, GoesOn
  <2>4. FewerPending(t)
    BY <1>4, <2>1, <2>3 DEF FewerPending
  <2>5. QED
    BY <1>3, <1>5, <2>4, OthersKnow
<1>6. CASE TaskOf(h) = t
  <2>1. /\ OnlyAt(h, t) /\ taskStatus[t] = "PROCESSING"
        /\ Due(t, f) /\ view[h].existing = Earlier(t, f)
    BY <1>0, <1>1, <1>6, Deciding
  <2>2. /\ ~ Waits(t)' /\ AnswersTo(t)' = {} /\ ~ Broken(t)' /\ (\A k \in Handlers : ~ Decides(k, t)') /\ ~ Unmarked(t)'
    BY <1>3, <1>6, <2>1, PassesOn DEF OnlyAt, Unmarked
  <2>3. taskStatus'[t] = "PROCESSING" /\ Due(t, f)' /\ Earlier(t, f)' = Earlier(t, f) /\ RowsInv(t)'
    BY <1>3, <2>1, RowsFrame DEF SameRows
  <2>4. PendingInv(t)'
    BY <1>2, <1>4, <2>1, <2>3 DEF OnlyAt, PendingInv, JobFits
  <2>5. QED
    BY <1>3, <2>1, <2>2, <2>3, <2>4
       DEF CarriersKnow, WaitsInv, AnswersInv, BrokenInv, DecidesInv, GivenInv, MarkInv, Unmarked, OnlyAt, GoesOn
<1>7. QED
  BY <1>5, <1>6

\* A pending job is published to the worker that was heard of.
LEMMA PublishPendingKnows ==
    ASSUME Typing, FlightInv, NEW t \in Tasks, CarriersKnow(t), RowsInv(t),
           \/ pc["response"] = "idle" /\ response_queue # <<>> /\ Answered.status = "startup"
           \/ pc["response"] = "pending",
           NEW i \in FirstOf(PendingFor(TypeOf[Answered.worker])), PublishJob(Answered.worker, pending_requests[i]),
           Goto("response", "mark_pending"),
           UNCHANGED <<request_queue, response_queue, pending_requests, view, storeVars>>
    PROVE  CarriersKnow(t)' /\ Taken' = {i} /\ RowsInv(t)' /\ SameRows(t)
<1>. DEFINE w == Answered.worker
            job == pending_requests[i]
<1>0. /\ pc \in [Handlers -> PCs] /\ pc' = [pc EXCEPT !["response"] = "mark_pending"]
      /\ response_queue # <<>> /\ w \in Workers /\ TypeOf[w] \in Features
      /\ pending_requests \in Seq(Job)
  BY QueueTypes, InProgress, WorkersAssumption DEF Goto, Typing, InFlight, InFlightAt
<1>1. i \in DOMAIN pending_requests /\ job \in Job /\ job.feature = TypeOf[w]
  BY <1>0 DEF FirstOf, PendingFor
<1>2. Taken = {} /\ Taken' = {i}
  <2>1. \A j \in FirstOf(PendingFor(TypeOf[w])) : j = i
    BY <1>0 DEF FirstOf, PendingFor
  <2>2. pc'["response"] = "mark_pending" /\ pc["response"] # "mark_pending"
    BY <1>0 DEF Handlers
  <2>3. QED
    BY <2>1, <2>2 DEF Taken, Answered, PendingFor, FirstOf
<1>3. /\ NewRequests' = NewRequests /\ NewAnswers' \subseteq NewAnswers /\ Answered' = Answered
      /\ \A k \in Handlers : TaskOf(k)' = TaskOf(k)
      /\ pc'["request"] = pc["request"] /\ pc'["response"] = "mark_pending"
  BY <1>0 DEF NewRequests, NewAnswers, TaskOf, Answered, Handlers
<1>4. /\ UnmarkedBy("request", t)' <=> UnmarkedBy("request", t)
      /\ UnmarkedBy("response", t)' <=> job.task = t
      /\ ~ UnmarkedBy("response", t)
  <2>1. UnmarkedBy("response", t)' <=> \/ pc'["response"] = "mark" /\ TaskOf("response")' = t
                                       \/ \E j \in Taken' : pending_requests'[j].task = t
    BY DEF UnmarkedBy, Taken
  <2>2. UnmarkedBy("response", t) <=> \/ pc["response"] = "mark" /\ TaskOf("response") = t
                                      \/ \E j \in Taken : pending_requests[j].task = t
    BY DEF UnmarkedBy, Taken
  <2>3. QED
    BY <1>2, <1>3, <2>1, <2>2 DEF UnmarkedBy, Handlers
<1>5. \A k \in Handlers : Decides(k, t)' => (Decides(k, t) /\ pc'[k] # "decide") \/ (k = "request" /\ Decides(k, t))
  <2>1. pc["response"] = "idle" => TaskOf("response") # t
    BY <1>0, InProgress, NoTaskAssumption DEF Response, Answer, Status, AnswerStatuses, TaskOf
  <2>2. QED
    BY <1>3, <2>1 DEF Decides, Handlers
<1>6. /\ (Waits(t)' => Waits(t)) /\ ~ Broken(t)' /\ AnswersTo(t)' \subseteq AnswersTo(t)
      /\ PendJobs(t)' = PendJobs(t) /\ PendAt(t)' = PendAt(t) \ {i}
  BY <1>2, <1>3 DEF Waits, Broken, AnswersTo, PendJobs, PendAt, Where, OfTask, Elements, Handlers
<1>7. SameRows(t)
  BY DEF storeVars, SameRows
<1>8. RowsInv(t)'
  BY <1>7, RowsFrame
<1>9. CASE job.task # t
  <2>1. \A v \in Workers : Given(v, t)' = Given(v, t)
    BY <1>0, <1>1, <1>9, JobGiven
  <2>2. Steady(t)
    BY <1>3, <1>4, <1>5, <1>6, <1>9, <2>1 DEF Steady, Handlers
  <2>3. Fewer(t)
    BY <1>6, <2>2 DEF Fewer, FewerAnswers, FewerPending
  <2>4. QED
    BY <1>2, <1>7, <1>8, <2>3, FewerKnow
<1>10. CASE job.task = t
  <2>1. job \in PendJobs(t) /\ i \in PendAt(t)
    BY <1>1, <1>2, <1>10 DEF PendJobs, PendAt, Where, OfTask, Elements
  <2>2. JobFits(t, job) /\ Due(t, job.feature) /\ taskStatus[t] = "PROCESSING" /\ Quiet(t)
    BY <2>1 DEF CarriersKnow, PendingInv, JobFits, Due
  <2>3. PendAt(t) = {i} /\ \A k \in Handlers : ~ Decides(k, t)
    BY <2>1, OnlyCarrier
  <2>4. ~ UnmarkedBy("request", t) /\ ~ Unmarked(t)
    BY <1>4, <2>1 DEF CarriersKnow, MarkInv, Alone, Unmarked, Handlers
  <2>5. ~ Waits(t) /\ AnswersTo(t) = {} /\ \A v \in Workers : Given(v, t) = {}
    BY <2>2, <2>4, CarriersByRows
  <2>6. \A v \in Workers : Given(v, t)' \subseteq {job} /\ (v # w => Given(v, t)' = {})
    BY <1>0, <1>1, <2>5, JobGiven
  <2>7. /\ taskStatus'[t] = "PROCESSING" /\ Quiet(t)'
        /\ \A f : (Due(t, f)' <=> Due(t, f)) /\ Earlier(t, f)' = Earlier(t, f)
    BY <1>7, <2>2, RowsFrame DEF SameRows
  <2>8. GivenInv(t)'
    BY <1>1, <1>4, <1>10, <2>2, <2>6, <2>7 DEF GivenInv, JobFits, Unmarked, Handlers
  <2>9. MarkInv(t)'
    BY <1>3, <1>4, <1>5, <1>6, <2>3, <2>4, <2>5, <2>7 DEF MarkInv, Alone, Handlers
  <2>10. PendingInv(t)'
    BY <1>6, <2>7 DEF CarriersKnow, PendingInv, JobFits
  <2>11. CarriersKnow(t)'
    BY <1>5, <1>6, <2>3, <2>5, <2>8, <2>9, <2>10 DEF CarriersKnow, WaitsInv, AnswersInv, BrokenInv, DecidesInv
  <2>12. QED
    BY <1>2, <1>7, <1>8, <2>11
<1>11. QED
  BY <1>9, <1>10

\* Whatever a startup or an answer does with the pending list.
LEMMA PendingKnows ==
    ASSUME Typing, Undisturbed, FlightInv, NEW t \in Tasks, CarriersKnow(t), RowsInv(t),
           DeliverStartup \/ PendingAfterAnswer
    PROVE  /\ CarriersKnow(t)' /\ RowsInv(t)' /\ SameRows(t)
           /\ pc'["response"] # "mark_pending" \/ Taken' # {}
<1>. DEFINE P == PendingFor(TypeOf[Answered.worker])
<1>0. /\ pc \in [Handlers -> PCs] /\ UNCHANGED <<request_queue, response_queue, pending_requests, view, storeVars>>
      /\ \/ pc["response"] = "idle" /\ response_queue # <<>> /\ Answered.status = "startup"
         \/ pc["response"] = "pending"
  BY QueueTypes DEF DeliverStartup, PendingAfterAnswer, DeliverResponse, At, KeepQueues
<1>1. SameRows(t)
  BY <1>0 DEF storeVars, SameRows
<1>2. ASSUME NEW R, NEW done \in {"ack", "read"}, DispatchPending(Answered.worker, R, done)
      PROVE  \/ pc'["response"] # "mark_pending" /\ UNCHANGED worker_queue
             \/ \E i \in FirstOf(P) : PublishJob(Answered.worker, pending_requests[i]) /\ Goto("response", "mark_pending")
  <2>1. \A i : i \in FirstOf({j \in P : \E v \in R : TypeOf[v] = TypeOf[Answered.worker]}) => i \in FirstOf(P)
    BY DEF FirstOf
  <2>2. \A q : Goto("response", q) => pc'["response"] = q
    BY <1>0 DEF Goto, Handlers
  <2>3. QED
    BY <1>2, <2>1, <2>2 DEF DispatchPending
<1>3. \/ pc'["response"] # "mark_pending" /\ UNCHANGED worker_queue
      \/ \E i \in FirstOf(P) : PublishJob(Answered.worker, pending_requests[i]) /\ Goto("response", "mark_pending")
  BY <1>2 DEF DeliverStartup, PendingAfterAnswer
<1>4. ASSUME pc'["response"] # "mark_pending", UNCHANGED worker_queue
      PROVE  CarriersKnow(t)' /\ RowsInv(t)' /\ Taken' = Taken
  <2>1. Fewer(t) /\ Taken' = Taken
    BY <1>4, HandlerFewer
  <2>2. QED
    BY <1>1, <2>1, FewerKnow, RowsFrame
<1>5. ASSUME NEW i \in FirstOf(P), PublishJob(Answered.worker, pending_requests[i]), Goto("response", "mark_pending")
      PROVE  CarriersKnow(t)' /\ RowsInv(t)' /\ Taken' # {}
  <2>1. CarriersKnow(t)' /\ Taken' = {i} /\ RowsInv(t)'
    BY <1>0, <1>5, PublishPendingKnows
  <2>2. QED
    BY <2>1
<1>6. QED
  BY <1>1, <1>3, <1>4, <1>5

\* The entry is taken off the list when its feature is marked.
LEMMA MarkPendingKnows ==
    ASSUME Typing, FlightInv, NEW t \in Tasks, CarriersKnow(t), RowsInv(t), MarkPending
    PROVE  CarriersKnow(t)' /\ RowsInv(t)' /\ pc'["response"] # "mark_pending" /\ LifeStep(t)
<1>. DEFINE P == PendingFor(TypeOf[Answered.worker])
            q == IF Answered.status = "startup" THEN "ack" ELSE "read"
<1>0. /\ pc["response"] = "mark_pending" /\ pc \in [Handlers -> PCs] /\ pc' = [pc EXCEPT !["response"] = q]
      /\ UNCHANGED <<request_queue, response_queue, worker_queue, view>>
      /\ pending_requests \in Seq(Job)
  BY QueueTypes DEF MarkPending, At, Goto, queueVars
<1>1. PICK i \in FirstOf(P) :
         /\ UpdateFeature(pending_requests[i].task, pending_requests[i].feature, "PROCESSING", None)
         /\ pending_requests' = SubSeq(pending_requests, 1, i - 1)
                                   \o SubSeq(pending_requests, i + 1, Len(pending_requests))
  BY DEF MarkPending
<1>2. /\ i \in DOMAIN pending_requests /\ DOMAIN pending_requests \subseteq Nat
      /\ \E j \in Job, g \in Features : j = pending_requests[i] /\ g = j.feature /\ j.task \in Tasks
  <2>1. i \in DOMAIN pending_requests
    BY <1>1 DEF FirstOf, PendingFor
  <2>2. pending_requests[i] \in Job
    BY <1>0, <2>1
  <2>3. QED
    BY <1>0, <2>1, <2>2 DEF Job
<1>11. PICK job \in Job, f \in Features : job = pending_requests[i] /\ f = job.feature /\ job.task \in Tasks
  BY <1>2
<1>3. Taken = {i} /\ Taken' = {}
  <2>1. \A j \in FirstOf(P) : j = i
    BY <1>1, <1>2 DEF FirstOf, PendingFor
  <2>2. pc'["response"] # "mark_pending"
    BY <1>0 DEF Handlers
  <2>3. QED
    BY <1>0, <1>1, <2>1, <2>2 DEF Taken
<1>4. \A j \in Where(pending_requests', OfTask(t)) :
            /\ j \in Nat
            /\ j < i => j \in Where(pending_requests, OfTask(t))
            /\ j >= i => j + 1 \in Where(pending_requests, OfTask(t))
  BY <1>0, <1>1, <1>2, WhereRemove
<1>5. PendJobs(t)' \subseteq PendJobs(t) /\ (PendAt(t) = {} => PendAt(t)' = {} /\ PendJobs(t)' = {})
  <2>1. Elements(pending_requests') \subseteq Elements(pending_requests)
    BY <1>0, <1>1, <1>2, RemoveFacts
  <2>2. PendJobs(t)' = OfTask(t) \cap Elements(pending_requests')
    BY DEF PendJobs, OfTask, Elements
  <2>3. PendAt(t)' \subseteq Where(pending_requests', OfTask(t))
    BY DEF PendAt, OfTask
  <2>4. ASSUME PendAt(t) = {} PROVE Where(pending_requests', OfTask(t)) = {}
    <3>1. \A j \in Where(pending_requests, OfTask(t)) : j = i
      BY <1>3, <2>4 DEF PendAt
    <3>2. ASSUME NEW j \in Where(pending_requests', OfTask(t)) PROVE FALSE
      BY <1>2, <1>4, <3>1, <3>2
    <3>3. QED
      BY <3>2
  <2>5. Where(pending_requests', OfTask(t)) = {} => PendJobs(t)' = {}
    BY <2>2 DEF Where, Elements
  <2>6. QED
    BY <2>1, <2>2, <2>3, <2>4, <2>5 DEF PendJobs
<1>6. /\ NewRequests' = NewRequests /\ NewAnswers' \subseteq NewAnswers /\ Answered' = Answered
      /\ \A k \in Handlers : TaskOf(k)' = TaskOf(k)
      /\ pc'["request"] = pc["request"] /\ pc'["response"] \in {"ack", "read"}
      /\ \A w \in Workers : Given(w, t)' = Given(w, t)
  BY <1>0 DEF NewRequests, NewAnswers, TaskOf, Answered, Handlers, Given, OfTask
<1>7. /\ UnmarkedBy("request", t)' <=> UnmarkedBy("request", t)
      /\ UnmarkedBy("response", t) <=> job.task = t
      /\ ~ UnmarkedBy("response", t)'
  BY <1>0, <1>3, <1>6, <1>11 DEF UnmarkedBy, Taken, Handlers
<1>8. /\ (Waits(t)' => Waits(t)) /\ ~ Broken(t)' /\ AnswersTo(t)' \subseteq AnswersTo(t)
      /\ \A k \in Handlers : Decides(k, t)' => Decides(k, t) /\ (k = "response" => pc'[k] # "decide")
  BY <1>0, <1>6 DEF Waits, Broken, AnswersTo, Decides, OfTask, Handlers
<1>9. CASE job.task # t
  <2>1. SameRows(t)
    BY <1>1, <1>9, <1>11, OtherRows
  <2>2. Steady(t)
    BY <1>0, <1>6, <1>7, <1>8, <1>9 DEF Steady, Handlers
  <2>3. Fewer(t)
    BY <1>5, <1>8, <2>2 DEF Fewer, FewerAnswers, FewerPending
  <2>4. QED
    BY <1>6, <2>1, <2>3, FewerKnow, RowsFrame DEF SameRows, LifeStep
<1>10. CASE job.task = t
  <2>1. UnmarkedBy("response", t) /\ Unmarked(t) /\ job \in PendJobs(t)
    BY <1>2, <1>7, <1>10, <1>11 DEF Unmarked, Handlers, PendJobs, OfTask, Elements
  <2>2. taskStatus[t] = "PROCESSING" /\ Quiet(t) /\ Alone("response", t) /\ Due(t, f)
    BY <1>11, <2>1 DEF CarriersKnow, MarkInv, PendingInv, Handlers
  <2>3. \A w \in Workers : \A j \in Given(w, t) :
           j.existing = Earlier(t, f) /\ j.feature = f /\ j.feature = TypeOf[w]
    <3>1. ASSUME NEW g \in Features, Due(t, g) PROVE g = f
      BY <1>2, <2>2, <3>1 DEF Due, FirstOf, WithStatus, Features
    <3>2. ASSUME NEW w \in Workers, NEW j \in Given(w, t)
          PROVE  j.existing = Earlier(t, f) /\ j.feature = f /\ j.feature = TypeOf[w]
      <4>1. j.existing = Earlier(t, j.feature) /\ Due(t, j.feature) /\ j.feature = TypeOf[w]
        BY <2>1, <3>2 DEF CarriersKnow, GivenInv, JobFits
      <4>2. QED
        BY <3>1, <4>1, WorkersAssumption
    <3>3. QED
      BY <3>2
  <2>4. /\ RowsInv(t)' /\ Working(t, f)' /\ Requested(t)' = Requested(t)
        /\ taskStatus'[t] = taskStatus[t] /\ finalResult'[t] = finalResult[t]
        /\ featStatus'[t] = [featStatus[t] EXCEPT ![f] = "PROCESSING"]
        /\ \A g \in Requested(t) : g < f => featStatus[t][g] = "READY"
    BY <1>1, <1>10, <1>11, <2>2, RowsStarted
  <2>5. /\ ~ Waits(t)' /\ AnswersTo(t)' = {} /\ ~ Broken(t)' /\ (\A k \in Handlers : ~ Decides(k, t)') /\ ~ Unmarked(t)'
        /\ PendJobs(t)' = {}
    BY <1>5, <1>7, <1>8, <2>2 DEF Alone, Unmarked, Handlers
  <2>6. GivenInv(t)'
    <3>1. Earlier(t, f)' = Earlier(t, f)
      BY <2>4 DEF Earlier
    <3>2. QED
      BY <1>6, <2>2, <2>3, <2>4, <2>5, <3>1 DEF GivenInv, JobFits
  <2>7. CarriersKnow(t)'
    BY <2>5, <2>6 DEF CarriersKnow, WaitsInv, AnswersInv, BrokenInv, DecidesInv, PendingInv, MarkInv, Unmarked
  <2>8. LifeStep(t)
    BY <1>2, <2>2, <2>4 DEF LifeStep, Due, FirstOf, WithStatus, Requested
  <2>9. QED
    BY <1>6, <2>4, <2>7, <2>8
<1>12. QED
  BY <1>9, <1>10

-----------------------------------------------------------------------------
(* Every step                                                              *)

\* The steps that leave the database alone, as far as the order is concerned.
LEMMA SilentKnows ==
    ASSUME Typing, Undisturbed, NEW t \in Tasks, CarriersKnow(t), RowsInv(t),
           \/ \E w \in Workers : Begin(w) \/ Beat(w) \/ Leave(w)
           \/ DeliverRequest \/ DeliverAnswer \/ DeliverHeartbeat \/ DeliverShutdown
           \/ \E h \in Handlers : ReadFeatures(h) \/ SendCallback(h) \/ Acknowledge(h)
           \/ Expire \/ (\E u \in Tasks : DeleteAudio(u) /\ UNCHANGED brokerVars) \/ UNCHANGED vars
    PROVE  CarriersKnow(t)' /\ RowsInv(t)' /\ Taken' = Taken /\ SameRows(t)
<1>1. ASSUME Fewer(t), UNCHANGED storeVars, Taken' = Taken
      PROVE  CarriersKnow(t)' /\ RowsInv(t)' /\ Taken' = Taken /\ SameRows(t)
  <2>1. SameRows(t)
    BY <1>1 DEF storeVars, SameRows
  <2>2. QED
    BY <1>1, <2>1, FewerKnow, RowsFrame
<1>2. ASSUME NEW w \in Workers, Begin(w) \/ Beat(w) \/ Leave(w)
      PROVE  Fewer(t) /\ UNCHANGED storeVars /\ Taken' = Taken
  BY <1>2, WorkerFewer DEF Begin, Beat, Leave, StartWorker, Heartbeat, Shutdown, CloseConnection
<1>3. CASE DeliverHeartbeat \/ DeliverShutdown
  BY <1>1, <1>3, AcknowledgeFewer DEF DeliverHeartbeat, DeliverShutdown, DeliverResponse
<1>4. ASSUME NEW h \in Handlers, Acknowledge(h) PROVE Fewer(t) /\ UNCHANGED storeVars /\ Taken' = Taken
  BY <1>4, AcknowledgeFewer DEF Acknowledge
<1>5. CASE DeliverRequest \/ DeliverAnswer
  BY <1>1, <1>5, HandlerFewer DEF DeliverRequest, DeliverAnswer, DeliverResponse
<1>6. ASSUME NEW h \in Handlers, ReadFeatures(h) \/ SendCallback(h) PROVE Fewer(t) /\ UNCHANGED storeVars /\ Taken' = Taken
  BY <1>6, HandlerFewer DEF ReadFeatures, SendCallback
<1>7. CASE Expire \/ (\E u \in Tasks : DeleteAudio(u) /\ UNCHANGED brokerVars) \/ UNCHANGED vars
  <2>1. /\ UNCHANGED <<request_queue, response_queue, pending_requests, worker_queue, pc, view>>
        /\ UNCHANGED storeVars
    BY <1>7 DEF Expire, PrintStats, GrowLate, DeleteAudio, queueVars, brokerVars, vars
  <2>2. QED
    BY <1>1, <2>1, OutsideFewer
<1>8. QED
  BY <1>1, <1>2, <1>3, <1>4, <1>5, <1>6, <1>7

\* No step makes a handler wait for a mark but the publish of a pending job.
LEMMA MarkAwaited ==
    ASSUME Typing, Undisturbed, [Next]_vars, pc'["response"] = "mark_pending", pc["response"] # "mark_pending"
    PROVE  DeliverStartup \/ PendingAfterAnswer
<1>0. pc \in [Handlers -> PCs]
  BY QueueTypes
<1>1. ASSUME UNCHANGED pc PROVE FALSE
  BY <1>1
<1>2. ASSUME NEW h \in Handlers, NEW q, Goto(h, q), q # "mark_pending" PROVE FALSE
  BY <1>0, <1>2 DEF Goto, Handlers
<1>3. ~ \E t \in Tasks : Api(t)
  BY <1>1 DEF Api, brokerVars
<1>4. ~ \E w \in Workers : Begin(w) \/ Beat(w) \/ Work(w) \/ Leave(w)
  BY <1>1 DEF Begin, Beat, Work, Leave, brokerVars
<1>5. ~ (HandleRequest \/ DeliverHeartbeat \/ DeliverShutdown \/ DeliverAnswer \/ FeatureFailed \/ TaskFailed
           \/ FeatureReady \/ MarkPending)
  <2>1. ~ HandleRequest
    BY <1>2 DEF HandleRequest, DeliverRequest, AcceptRequest, Handlers
  <2>2. ~ (DeliverHeartbeat \/ DeliverShutdown)
    BY <1>1 DEF DeliverHeartbeat, DeliverShutdown, HandledAtOnce
  <2>3. ~ (DeliverAnswer \/ FeatureFailed \/ TaskFailed \/ FeatureReady \/ MarkPending)
    BY <1>2 DEF DeliverAnswer, FeatureFailed, TaskFailed, FeatureReady, MarkPending, Handlers
  <2>4. QED
    BY <2>1, <2>2, <2>3
<1>6. ~ \E h \in Handlers : DispatchNextFeature(h) \/ Acknowledge(h)
  BY <1>2 DEF DispatchNextFeature, ReadFeatures, Defer, Dispatch, MarkDispatched, FinishFailed, FinishReady,
              SendCallback, Acknowledge
<1>7. ~ (Expire \/ UNCHANGED vars)
  BY <1>1 DEF Expire, PrintStats, GrowLate, vars, brokerVars
<1>8. ~ \E t \in Tasks : DeleteAudio(t) /\ UNCHANGED brokerVars
  BY <1>1 DEF brokerVars
<1>9. QED
  BY <1>3, <1>4, <1>5, <1>6, <1>7, <1>8, UndisturbedStep DEF Next, Broker, BrokerStep, HandleResponse, Restart, Fault

\* What every carrier knows stays true, and the life cycle of a task goes on.
LEMMA StepKnows ==
    ASSUME Typing, Undisturbed, FlightInv, PromptMarks, MarkedThere, [Next]_vars,
           NEW t \in Tasks, CarriersKnow(t), RowsInv(t), SubmissionInv(t)
    PROVE  CarriersKnow(t)' /\ RowsInv(t)' /\ LifeStep(t) /\ MarkedThere'
<1>. DEFINE Goal == /\ CarriersKnow(t)' /\ RowsInv(t)' /\ LifeStep(t)
                    /\ pc'["response"] # "mark_pending" \/ Taken' # {} \/ Taken' = Taken
<1>0. SameRows(t) => LifeStep(t)
  BY DEF SameRows, LifeStep
<1>1. ASSUME NEW u \in Tasks, Api(u) PROVE Goal
  BY <1>1, ApiKnows
<1>2. ASSUME NEW w \in Workers, Begin(w) \/ Beat(w) \/ Leave(w) PROVE Goal
  BY <1>0, <1>2, SilentKnows
<1>3. ASSUME NEW w \in Workers, Work(w) PROVE Goal
  <2>1. SameRows(t)
    BY <1>3 DEF Work, ProcessTask, AnswerSuccess, AnswerFailed, RaiseInJob, TakeJob, storeVars, SameRows
  <2>2. QED
    BY <1>0, <1>3, <2>1, WorkKnows, RowsFrame
<1>4. ASSUME DeliverRequest \/ DeliverAnswer \/ DeliverHeartbeat \/ DeliverShutdown PROVE Goal
  BY <1>0, <1>4, SilentKnows
<1>5. ASSUME AcceptRequest PROVE Goal
  BY <1>5, AcceptKnows
<1>6. ASSUME DeliverStartup \/ PendingAfterAnswer PROVE Goal
  BY <1>0, <1>6, PendingKnows
<1>7. ASSUME FeatureReady \/ FeatureFailed PROVE Goal
  BY <1>7, FeatureKnows
<1>8. ASSUME MarkPending PROVE Goal
  BY <1>8, MarkPendingKnows
<1>9. ASSUME TaskFailed \/ \E h \in Handlers : FinishFailed(h) \/ FinishReady(h) PROVE Goal
  BY <1>9, SettleKnows
<1>10. ASSUME NEW h \in Handlers, ReadFeatures(h) \/ SendCallback(h) \/ Acknowledge(h) PROVE Goal
  BY <1>0, <1>10, SilentKnows
<1>11. ASSUME NEW h \in Handlers, Defer(h) \/ Dispatch(h) PROVE Goal
  BY <1>0, <1>11, DeferKnows, DispatchKnows
<1>12. ASSUME NEW h \in Handlers, MarkDispatched(h) PROVE Goal
  BY <1>12, MarkKnows
<1>13. ASSUME Expire \/ UNCHANGED vars PROVE Goal
  BY <1>0, <1>13, SilentKnows
<1>14. ASSUME Fault PROVE Goal
  <2>1. \E u \in Tasks : DeleteAudio(u) /\ UNCHANGED brokerVars
    BY <1>14, UndisturbedStep DEF Fault
  <2>2. QED
    BY <1>0, <2>1, SilentKnows
<1>15. Goal
  BY <1>1, <1>2, <1>3, <1>4, <1>5, <1>6, <1>7, <1>8, <1>9, <1>10, <1>11, <1>12, <1>13, <1>14, UndisturbedStep
     DEF Next, Broker, BrokerStep, HandleRequest, HandleResponse, DispatchNextFeature, Restart
<1>16. MarkedThere'
  <2>1. CASE pc["response"] = "mark_pending"
    BY <1>15, <2>1 DEF MarkedThere
  <2>2. CASE pc["response"] # "mark_pending"
    BY <2>2, MarkAwaited, PendingKnows DEF MarkedThere
  <2>3. QED
    BY <2>1, <2>2
<1>17. QED
  BY <1>15, <1>16

\* A submission that is inserted waits, whoever else moves, and one that is
\* accepted has its row.
LEMMA SubmissionKept ==
    ASSUME Typing, FlightInv, [Next]_vars, NEW t \in Tasks, SubmissionInv(t), LifeStep(t)
    PROVE  SubmissionInv(t)'
<1>0. submission \in [Tasks -> Submissions]
  BY DEF Typing, TypeOK, ApiTypeOK
<1>1. \/ submission'[t] = submission[t]
      \/ submission'[t] \in {"stored", "error"}
      \/ submission'[t] = "inserted" /\ taskStatus'[t] = "WAITING"
      \/ submission'[t] = "accepted" /\ submission[t] = "inserted" /\ UNCHANGED taskStatus
  <2>. DEFINE Goal == <1>1!1 \/ <1>1!2 \/ <1>1!3 \/ <1>1!4
  <2>1. ASSUME NEW u \in Tasks, StoreAudio(u) \/ PublishFails(u) PROVE Goal
    BY <1>0, <2>1 DEF StoreAudio, PublishFails, Advance
  <2>2. ASSUME NEW u \in Tasks, InsertSubmission(u) PROVE Goal
    <3>1. CASE u = t
      <4>1. taskStatus'[t] = "WAITING"
        BY <2>2, <3>1, OwnRows DEF InsertSubmission
      <4>2. QED
        BY <1>0, <2>2, <3>1, <4>1 DEF InsertSubmission, Advance
    <3>2. CASE u # t
      BY <1>0, <2>2, <3>2 DEF InsertSubmission, Advance
    <3>3. QED
      BY <3>1, <3>2
  <2>3. ASSUME NEW u \in Tasks, PublishTask(u) PROVE Goal
    BY <1>0, <2>3 DEF PublishTask, Advance, storeVars
  <2>4. ASSUME NEW w \in Workers, Begin(w) \/ Beat(w) \/ Work(w) \/ Leave(w) PROVE Goal
    BY <2>4 DEF Begin, Beat, Work, Leave, apiVars
  <2>5. ASSUME Broker \/ Restart \/ Expire \/ Fault \/ UNCHANGED vars PROVE Goal
    BY <2>5 DEF Broker, Restart, Expire, Fault, DeleteAudio, vars, apiVars
  <2>6. QED
    BY <2>1, <2>2, <2>3, <2>4, <2>5 DEF Next, Api, ApiStep
<1>2. HasRow(t) => HasRow(t)'
  BY DEF LifeStep, HasRow
<1>3. submission[t] = "inserted" => taskStatus'[t] = taskStatus[t]
  BY StatusWriter DEF FlightInv, SubmissionInv
<1>4. QED
  BY <1>1, <1>2, <1>3 DEF SubmissionInv, HasRow

\* The induction step.
LEMMA OrderStep ==
    ASSUME Typing, Undisturbed, FlightInv, OrderInv, PromptMarks, [Next]_vars
    PROVE  OrderInv' /\ \A t \in Tasks : LifeStep(t)
<1>1. ASSUME NEW t \in Tasks PROVE CarriersKnow(t)' /\ RowsInv(t)' /\ LifeStep(t) /\ MarkedThere'
  BY StepKnows DEF OrderInv
<1>2. ASSUME NEW t \in Tasks PROVE SubmissionInv(t)'
  BY <1>1, SubmissionKept DEF OrderInv
<1>3. QED
  BY <1>1, <1>2 DEF OrderInv

\* In the beginning there are no rows and no carriers.
LEMMA OrderInit == Init => OrderInv
<1>. SUFFICES ASSUME Init, NEW t \in Tasks
              PROVE  MarkedThere /\ RowsInv(t) /\ SubmissionInv(t) /\ CarriersKnow(t)
  BY DEF OrderInv
<1>. USE DEF Init, StoreInit, QueuesInit, BrokerInit, ApiInit
<1>1. MarkedThere /\ SubmissionInv(t)
  BY DEF MarkedThere, SubmissionInv, Handlers
<1>2. RowsInv(t)
  BY DEF RowsInv, Ordered, Documented, Reported, HasRow, Quiet, Requested, WithStatus
<1>3. NoCarrier(t)
  <2>1. /\ request_queue = <<>> /\ response_queue = <<>> /\ pending_requests = <<>>
        /\ \A w \in Workers : worker_queue[w] = <<>>
        /\ \A h \in Handlers : pc[h] = "idle"
        /\ pc["request"] = "idle" /\ pc["response"] = "idle"
    BY DEF Handlers
  <2>2. ~ Waits(t) /\ AnswersTo(t) = {} /\ ~ Broken(t) /\ \A h \in Handlers : ~ Decides(h, t)
    BY <2>1 DEF Waits, NewRequests, AnswersTo, NewAnswers, Broken, Decides
  <2>3. PendJobs(t) = {} /\ (\A w \in Workers : Given(w, t) = {}) /\ ~ Unmarked(t)
    BY <2>1 DEF PendJobs, Given, Elements, Unmarked, UnmarkedBy
  <2>4. QED
    BY <2>2, <2>3 DEF NoCarrier
<1>4. QED
  BY <1>1, <1>2, <1>3
     DEF NoCarrier, CarriersKnow, WaitsInv, AnswersInv, BrokenInv, DecidesInv, PendingInv, GivenInv, MarkInv, Unmarked

-----------------------------------------------------------------------------
(* Theorems                                                                *)

\* What the broker knows of a task is what its rows say, in every state of a
\* broker that is not disturbed and marks a job before it is answered.
THEOREM OrderCorrect ==
    Spec /\ NoBrokerFault /\ PromptMarks
        => [](Typing /\ Undisturbed /\ FlightInv /\ OrderInv /\ PromptMarks)
<1>. DEFINE Inv == Typing /\ Undisturbed /\ FlightInv /\ OrderInv /\ PromptMarks
<1>1. Inv /\ [Next]_vars => Inv'
  BY TypingStep, UndisturbedStep, FlightStep, OrderStep
<1>2. Init /\ NoBrokerFault /\ PromptMarks => Inv
  BY TypingInit, FlightInit, OrderInit
<1>3. QED
  BY <1>1, <1>2, PTL DEF Spec

\* The features of a task leave WAITING one after the other (FeaturesInOrder):
\* a handler decides on the rows as they are, since it holds the only carrier.
THEOREM OrderedFeatures == Spec /\ NoBrokerFault /\ PromptMarks => []FeaturesInOrder
<1>1. OrderInv => FeaturesInOrder
  BY DEF OrderInv, RowsInv, Ordered, FeaturesInOrder
<1>2. QED
  BY <1>1, OrderCorrect, PTL

\* The final result has the output of every requested feature, and all are READY
\* (FinalResultComplete): the last document was built on all the others.
THEOREM CompleteResults == Spec /\ NoBrokerFault /\ PromptMarks => []FinalResultComplete
<1>1. OrderInv => FinalResultComplete
  BY DEF OrderInv, RowsInv, Reported, FinalResultComplete, FinalResultWhole
<1>2. QED
  BY <1>1, OrderCorrect, PTL

\* Every job, pending or given, has the output of all features before its own
\* (JobsCarryEarlierResults), however long ago it was built.
THEOREM JobsHaveEarlierResults == Spec /\ NoBrokerFault /\ PromptMarks => []JobsCarryEarlierResults
<1>1. ASSUME Typing, OrderInv PROVE JobsCarryEarlierResults
  <2>1. ASSUME NEW q \in Seq(Job), (\E w \in Workers : q = worker_queue[w]) \/ q = pending_requests, NEW i \in DOMAIN q
        PROVE  q[i].existing = {g \in Requested(q[i].task) : g < q[i].feature}
    <3>1. q[i] \in Job /\ q[i].task \in Tasks
      <4>1. q[i] \in Job
        BY <2>1
      <4>2. QED
        BY <4>1 DEF Job
    <3>2. q[i] \in OfTask(q[i].task) /\ q[i] \in Elements(q)
      BY <3>1 DEF OfTask, Elements
    <3>3. JobFits(q[i].task, q[i])
      BY <1>1, <2>1, <3>1, <3>2 DEF OrderInv, CarriersKnow, PendingInv, GivenInv, PendJobs, Given
    <3>4. QED
      BY <3>3 DEF JobFits, Earlier
  <2>2. pending_requests \in Seq(Job) /\ \A w \in Workers : worker_queue[w] \in Seq(Job)
    BY <1>1, QueueTypes
  <2>3. QED
    BY <2>1, <2>2 DEF JobsCarryEarlierResults
<1>2. QED
  BY <1>1, OrderCorrect, PTL

\* A poll, whose two reads any steps may separate, has a message for what it reads,
\* unless the task was PROCESSING and finished in between (PollAnswered): a task has
\* a final result when it is READY and only then, and READY is never taken back.
THEOREM PollsAnswered == Spec /\ NoBrokerFault /\ PromptMarks => PollAnswered
<1>1. ASSUME NEW t \in Tasks, NEW status \in {"PROCESSING", "READY"}
      PROVE  Spec /\ NoBrokerFault /\ PromptMarks =>
                [](taskStatus[t] = status =>
                      [](\/ HasStatusMessage(status, finalResult[t])
                         \/ status = "PROCESSING" /\ taskStatus[t] = "READY"))
  <2>. DEFINE Inv   == Typing /\ Undisturbed /\ FlightInv /\ OrderInv /\ PromptMarks
              Has   == \/ HasStatusMessage(status, finalResult[t])
                       \/ status = "PROCESSING" /\ taskStatus[t] = "READY"
              Seen  == taskStatus[t] = status
              Ready == taskStatus[t] = "READY"
  <2>1. Inv => (finalResult[t] = None <=> ~ Ready)
    <3>1. OrderInv => Reported(t) /\ (HasRow(t) => Requested(t) # {})
      BY DEF OrderInv, RowsInv
    <3>2. QED
      BY <3>1 DEF Reported, HasRow, None
  <2>2. Inv /\ (status = "READY" => Ready) => Has
    BY <2>1 DEF HasStatusMessage
  <2>3. Inv /\ [Next]_vars => (Ready => Ready')
    BY StatusWriter DEF FlightInv, Settled
  <2>4. CASE status = "PROCESSING"
    <3>1. Inv => Has
      BY <2>2, <2>4
    <3>2. QED
      BY <3>1, OrderCorrect, PTL
  <2>5. CASE status = "READY"
    <3>1. (Seen => Ready) /\ (Inv /\ Ready => Has)
      BY <2>2, <2>5
    <3>. HIDE DEF Seen, Ready
    <3>2. Spec /\ NoBrokerFault /\ PromptMarks => [](Seen => []Has)
      BY <2>3, <3>1, OrderCorrect, PTL DEF Spec
    <3>3. QED
      BY <3>2 DEF Seen
  <2>6. QED
    BY <2>4, <2>5
<1>2. QED
  BY <1>1 DEF PollAnswered

\* Only one task is written in a step.
LEMMA OneTaskWritten ==
    ASSUME Typing, Typing', [Next]_vars
    PROVE  \/ UNCHANGED <<taskStatus, featStatus, finalResult>>
           \/ \E t \in Tasks :
                 /\ taskStatus'  = [taskStatus  EXCEPT ![t] = taskStatus'[t]]
                 /\ featStatus'  = [featStatus  EXCEPT ![t] = featStatus'[t]]
                 /\ finalResult' = [finalResult EXCEPT ![t] = finalResult'[t]]
<1>. DEFINE Only(t) == /\ taskStatus'  = [taskStatus  EXCEPT ![t] = taskStatus'[t]]
                       /\ featStatus'  = [featStatus  EXCEPT ![t] = featStatus'[t]]
                       /\ finalResult' = [finalResult EXCEPT ![t] = finalResult'[t]]
<1>0. /\ taskStatus  \in [Tasks -> TaskStatuses] /\ taskStatus' \in [Tasks -> TaskStatuses]
      /\ featStatus  \in [Tasks -> [Features -> FeatureStatuses]]
      /\ featStatus' \in [Tasks -> [Features -> FeatureStatuses]]
      /\ finalResult \in [Tasks -> Results] /\ finalResult' \in [Tasks -> Results]
  BY DEF Typing, TypeOK, StoreTypeOK
<1>1. ASSUME NEW t \in Tasks, NEW wanted, InsertTask(t, wanted) PROVE Only(t)
  BY <1>0, <1>1 DEF InsertTask
<1>2. ASSUME NEW t \in Tasks, NEW f \in Features, NEW s, NEW r, UpdateFeature(t, f, s, r) PROVE Only(t)
  BY <1>0, <1>2 DEF UpdateFeature
<1>3. ASSUME NEW t \in Tasks, NEW s, NEW r, UpdateTask(t, s, r) PROVE Only(t)
  BY <1>0, <1>3 DEF UpdateTask
<1>4. response_queue # <<>> /\ Answered \in Answer /\ Answered.status = "success"
        => Answered.task \in Tasks /\ TypeOf[Answered.worker] \in Features
  BY WorkersAssumption DEF Answer
<1>5. CASE UNCHANGED storeVars
  BY <1>5 DEF storeVars
<1>6. CASE \E t \in Tasks : Only(t)
  BY <1>6
<1>7. QED
  <2>. HIDE DEF Only
  <2>1. UNCHANGED storeVars \/ \E t \in Tasks : Only(t)
    BY <1>1, <1>2, <1>3, <1>4, StoreEffect
  <2>2. QED
    BY <1>5, <1>6, <2>1

\* What a task goes through is a step of the life cycle, when no other is written.
LEMMA LifecycleStep ==
    ASSUME Typing, NEW t \in Tasks, LifeStep(t),
           taskStatus'  = [taskStatus  EXCEPT ![t] = taskStatus'[t]],
           featStatus'  = [featStatus  EXCEPT ![t] = featStatus'[t]],
           finalResult' = [finalResult EXCEPT ![t] = finalResult'[t]]
    PROVE  Lifecycle!Next \/ UNCHANGED <<taskStatus, featStatus, finalResult>>
<1>0. /\ taskStatus  \in [Tasks -> TaskStatuses]
      /\ featStatus  \in [Tasks -> [Features -> FeatureStatuses]]
      /\ finalResult \in [Tasks -> Results]
  BY DEF Typing, TypeOK, StoreTypeOK
<1>. DEFINE Row(s)    == taskStatus'[t] = s
            Stage     == featStatus'[t] = featStatus[t]
            Report    == finalResult'[t] = finalResult[t]
<1>1. /\ Row(taskStatus[t]) => taskStatus' = taskStatus
      /\ Stage  => featStatus' = featStatus
      /\ Report => finalResult' = finalResult
  BY <1>0
<1>2. Lifecycle!Wanted(t) = Requested(t) /\ \A s : Lifecycle!In(t, s) = WithStatus(t, s)
  BY DEF Lifecycle!Wanted, Lifecycle!In, Requested, WithStatus
<1>3. CASE Row(taskStatus[t]) /\ Stage /\ Report
  BY <1>1, <1>3
<1>4. CASE /\ taskStatus[t] = "none" /\ Row("WAITING") /\ Report
           /\ \E wanted \in FeatureChoices :
                 featStatus'[t] = [f \in Features |-> IF f \in wanted THEN "WAITING" ELSE "none"]
  <2>1. Lifecycle!Submit(t)
    BY <1>1, <1>4 DEF Lifecycle!Submit
  <2>2. QED
    BY <2>1 DEF Lifecycle!Next
<1>5. CASE taskStatus[t] = "WAITING" /\ Row("PROCESSING") /\ Stage /\ Report
  <2>1. Lifecycle!Accept(t)
    BY <1>1, <1>5 DEF Lifecycle!Accept
  <2>2. QED
    BY <2>1 DEF Lifecycle!Next
<1>6. ASSUME taskStatus[t] = "PROCESSING", Row("PROCESSING"), Report, NEW f \in Requested(t)
      PROVE  \A from, to :
                featStatus[t][f] = from /\ featStatus'[t] = [featStatus[t] EXCEPT ![f] = to]
                  => Lifecycle!Move(t, f, from, to)
  <2>1. taskStatus' = taskStatus /\ finalResult' = finalResult
    BY <1>1, <1>6
  <2>2. f \in Features
    BY DEF Requested
  <2>3. ASSUME NEW to, featStatus'[t] = [featStatus[t] EXCEPT ![f] = to]
        PROVE  featStatus' = [featStatus EXCEPT ![t][f] = to]
    BY <1>0, <2>2, <2>3
  <2>4. QED
    BY <1>6, <2>1, <2>3 DEF Lifecycle!Move
<1>7. CASE /\ taskStatus[t] = "PROCESSING" /\ Row("PROCESSING") /\ Report
           /\ \E f \in Requested(t) :
                 /\ featStatus[t][f] = "WAITING" /\ featStatus'[t] = [featStatus[t] EXCEPT ![f] = "PROCESSING"]
                 /\ \A g \in Requested(t) : g < f => featStatus[t][g] = "READY"
  <2>1. Lifecycle!Start(t)
    BY <1>2, <1>6, <1>7 DEF Lifecycle!Start, Requested
  <2>2. QED
    BY <2>1 DEF Lifecycle!Next
<1>8. CASE /\ taskStatus[t] = "PROCESSING" /\ Row("PROCESSING") /\ Report
           /\ \E f \in Requested(t), s \in {"READY", "FAILED"} :
                 featStatus[t][f] = "PROCESSING" /\ featStatus'[t] = [featStatus[t] EXCEPT ![f] = s]
  <2>1. Lifecycle!Complete(t) \/ Lifecycle!Break(t)
    BY <1>6, <1>8 DEF Lifecycle!Complete, Lifecycle!Break, Requested
  <2>2. QED
    BY <2>1 DEF Lifecycle!Next
<1>9. CASE /\ taskStatus[t] = "PROCESSING" /\ Row("FAILED") /\ WithStatus(t, "FAILED") # {} /\ Stage /\ Report
  <2>1. Lifecycle!Abort(t)
    BY <1>1, <1>2, <1>9 DEF Lifecycle!Abort
  <2>2. QED
    BY <2>1 DEF Lifecycle!Next
<1>10. CASE /\ taskStatus[t] = "PROCESSING" /\ Row("READY") /\ Requested(t) = WithStatus(t, "READY")
            /\ Stage /\ finalResult'[t] = Requested(t)
  <2>1. Lifecycle!Finish(t)
    BY <1>1, <1>2, <1>10 DEF Lifecycle!Finish
  <2>2. QED
    BY <2>1 DEF Lifecycle!Next
<1>11. QED
  BY <1>3, <1>4, <1>5, <1>7, <1>8, <1>9, <1>10 DEF LifeStep

\* The whole analyser implements the life cycle (ImplementsLifecycle): a step
\* writes the rows of one task, which go through a step of it or through none.
THEOREM LifecycleImplemented == Spec /\ NoBrokerFault /\ PromptMarks => ImplementsLifecycle
<1>. DEFINE Inv  == Typing /\ Undisturbed /\ FlightInv /\ OrderInv /\ PromptMarks
            Move == Lifecycle!Next \/ UNCHANGED <<taskStatus, featStatus, finalResult>>
<1>1. Init => Lifecycle!Init
  BY DEF Init, StoreInit, Lifecycle!Init, None
<1>2. Inv /\ Inv' /\ [Next]_vars => Move
  <2>1. SUFFICES ASSUME Inv, Inv', [Next]_vars PROVE Move
    OBVIOUS
  <2>2. \A t \in Tasks : LifeStep(t)
    BY <2>1, OrderStep
  <2>3. QED
    BY <2>1, <2>2, OneTaskWritten, LifecycleStep
<1>3. Move => [Lifecycle!Next]_(Lifecycle!vars)
  BY DEF Lifecycle!vars
<1>4. QED
  <2>. HIDE DEF Inv, Move
  <2>1. Spec /\ NoBrokerFault /\ PromptMarks => []Inv
    BY OrderCorrect DEF Inv
  <2>2. Inv /\ Inv' /\ [Next]_vars => [Lifecycle!Next]_(Lifecycle!vars)
    BY <1>2, <1>3
  <2>3. QED
    BY <1>1, <2>1, <2>2, PTL DEF Spec, ImplementsLifecycle, Lifecycle!Spec
=============================================================================
