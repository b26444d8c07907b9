--------------------------- MODULE CallbackProofs ---------------------------
(***************************************************************************)
(* Proofs about CallbackWorker: how often a client is called, when a       *)
(* callback is given up and when it may be repeated, for any number of     *)
(* callbacks, slots, tries and restarts.                                   *)
(***************************************************************************)
EXTENDS CallbackWorker, TLAPS

IsPublished(c) == \E i \in DOMAIN published : published[i] = c

\* A callback is in at most one of the queue, the worker and the settled ones,
\* and in none before it is published.
InOnePlace ==
    \A c \in Callbacks :
        /\ c \in ready \cup settled \/ stage[c] # "none" => IsPublished(c)
        /\ c \in ready => stage[c] = "none" /\ c \notin settled
        /\ c \in settled => stage[c] = "none"
        /\ mode = "down" => stage[c] = "none"

\* The most requests earlier lives of the process can have sent for a callback.
Earlier == MaxTries * restarts

\* What this life adds is counted by attempt.
Counted ==
    \A c \in Callbacks :
        /\ posts[c] <= Earlier + MaxTries
        /\ stage[c] = "posting" => attempt[c] > 0 /\ posts[c] < Earlier + attempt[c]
        /\ stage[c] = "sleeping" => attempt[c] < MaxTries /\ posts[c] <= Earlier + attempt[c]
        /\ stage[c] \in {"none", "started"} /\ c \notin settled => posts[c] <= Earlier

\* GivenUpOnlyWhenDue, from the end of the tries on.
GivenUp(c) == c \in settled \/ stage[c] = "ack"

DueWhenGivenUp ==
    \A c \in Callbacks \ accepted :
        GivenUp(c) /\ c \in Usable /\ c \notin cut => attempt[c] = MaxTries

\* In its first life the process is done with what its client has confirmed.
DoneWhenAccepted == restarts = 0 => \A c \in accepted : GivenUp(c)

CallbackInv == TypeOK /\ InOnePlace /\ Counted /\ DueWhenGivenUp /\ DoneWhenAccepted

-----------------------------------------------------------------------------
\* Arithmetic of the bound.
LEMMA EarlierFacts ==
    ASSUME TypeOK
    PROVE  /\ Earlier \in Nat
           /\ restarts' = restarts + 1 => Earlier' = Earlier + MaxTries
           /\ MaxTries * (restarts + 1) = Earlier + MaxTries
<1>1. restarts \in Nat /\ MaxTries \in Nat
  BY LimitsAssumption DEF TypeOK
<1>2. MaxTries * restarts \in Nat
  BY <1>1
<1>3. MaxTries * (restarts + 1) = MaxTries * restarts + MaxTries
  BY <1>1
<1> QED
  BY <1>2, <1>3 DEF Earlier

\* Nothing is published yet.
LEMMA CallbackInit == Init => CallbackInv
<1> SUFFICES ASSUME Init PROVE CallbackInv
  OBVIOUS
<1>1. TypeOK
  BY LimitsAssumption DEF Init, TypeOK, Stages
<1>2. Earlier \in Nat
  BY <1>1, EarlierFacts
<1> QED
  BY <1>1, <1>2, LimitsAssumption DEF Init, CallbackInv, InOnePlace, Counted, DueWhenGivenUp, DoneWhenAccepted, GivenUp

-----------------------------------------------------------------------------
\* Type correctness of a step: a sleeping try is not the last.
LEMMA CallbackTyped ==
    ASSUME TypeOK, Counted, [Next]_vars
    PROVE  TypeOK'
<1> USE LimitsAssumption DEF TypeOK, Stages, Move, Held
<1>1. ASSUME NEW c \in Callbacks, Publish(c) PROVE TypeOK'
  BY <1>1 DEF Publish
<1>2. ASSUME Deliver PROVE TypeOK'
  BY <1>2 DEF Deliver
<1>3. ASSUME NEW c \in Callbacks, Execute(c) PROVE TypeOK'
  <2>1. CASE BeginCallback(c)
    BY <2>1 DEF BeginCallback
  <2>2. CASE Post2xx(c)
    BY <2>2 DEF Post2xx
  <2>3. CASE PostFails(c)
    BY <2>3 DEF PostFails
  <2>4. CASE PostOnClosedClient(c)
    BY <2>4 DEF PostOnClosedClient
  <2>5. CASE WakeUp(c)
    BY <2>5 DEF WakeUp, Counted
  <2>6. CASE Finish(c)
    BY <2>6 DEF Finish
  <2> QED
    BY <1>3, <2>1, <2>2, <2>3, <2>4, <2>5, <2>6 DEF Execute
<1>4. ASSUME Stop \/ GoDown \/ ComeUp PROVE TypeOK'
  BY <1>4 DEF Stop, GoDown, ComeUp
<1>5. ASSUME UNCHANGED vars PROVE TypeOK'
  BY <1>5 DEF vars
<1> QED
  BY <1>1, <1>2, <1>3, <1>4, <1>5 DEF Next

\* What is published stays so.
LEMMA PublishedStays ==
    ASSUME TypeOK, [Next]_vars, NEW c \in Callbacks, IsPublished(c)
    PROVE  IsPublished(c)'
<1>1. ASSUME NEW d \in Callbacks, Publish(d) PROVE IsPublished(c)'
  BY <1>1 DEF Publish, IsPublished, TypeOK
<1>2. ASSUME UNCHANGED published PROVE IsPublished(c)'
  BY <1>2 DEF IsPublished
<1> QED
  BY <1>1, <1>2 DEF Next, Deliver, Execute, BeginCallback, Post2xx, PostFails, PostOnClosedClient,
     WakeUp, Finish, Stop, GoDown, ComeUp, vars

\* A step moves a callback from one place to the next.
LEMMA InOnePlaceStep ==
    ASSUME TypeOK, InOnePlace, [Next]_vars
    PROVE  InOnePlace'
<1>0. \A c \in Callbacks : IsPublished(c) => IsPublished(c)'
  BY PublishedStays
<1> USE <1>0 DEF TypeOK, Stages, Move, Held, InOnePlace
<1>1. ASSUME NEW c \in Callbacks, Publish(c) PROVE InOnePlace'
  <2>1. ~ IsPublished(c)
    BY <1>1 DEF Publish, IsPublished
  <2>2. IsPublished(c)'
    BY <1>1 DEF Publish, IsPublished
  <2> QED
    BY <1>1, <2>1, <2>2 DEF Publish
<1>2. ASSUME Deliver PROVE InOnePlace'
  BY <1>2 DEF Deliver
<1>3. ASSUME NEW c \in Callbacks, Execute(c) PROVE InOnePlace'
  <2>1. UNCHANGED mode /\ mode # "down" /\ ready' = ready
    BY <1>3 DEF Execute, BeginCallback, Post2xx, PostFails, PostOnClosedClient, WakeUp, Finish
  <2>2. /\ stage[c] # "none"
        /\ \/ settled' = settled
           \/ settled' = settled \cup {c} /\ stage'[c] = "none"
        /\ \A d \in Callbacks : d # c => stage'[d] = stage[d]
    <3>1. CASE Finish(c)
      BY <3>1 DEF Finish
    <3>2. CASE ~ Finish(c)
      BY <1>3, <3>2 DEF Execute, BeginCallback, Post2xx, PostFails, PostOnClosedClient, WakeUp
    <3> QED
      BY <3>1, <3>2
  <2> QED
    BY <2>1, <2>2
<1>4. ASSUME Stop \/ GoDown \/ ComeUp PROVE InOnePlace'
  BY <1>4 DEF Stop, GoDown, ComeUp
<1>5. ASSUME UNCHANGED vars PROVE InOnePlace'
  BY <1>5 DEF vars
<1> QED
  BY <1>1, <1>2, <1>3, <1>4, <1>5 DEF Next

\* Every request is counted by attempt, and a restart by Earlier.
LEMMA CountedStep ==
    ASSUME TypeOK, InOnePlace, Counted, [Next]_vars
    PROVE  Counted'
<1>0. /\ Earlier \in Nat
      /\ UNCHANGED restarts => Earlier' = Earlier
      /\ restarts' = restarts + 1 => Earlier' = Earlier + MaxTries
  BY EarlierFacts DEF Earlier
<1> USE <1>0, LimitsAssumption DEF TypeOK, Stages, Move, Held, Counted
<1>1. ASSUME NEW c \in Callbacks, Publish(c) PROVE Counted'
  BY <1>1 DEF Publish
<1>2. ASSUME Deliver PROVE Counted'
  BY <1>2 DEF Deliver, InOnePlace
<1>3. ASSUME NEW c \in Callbacks, Execute(c) PROVE Counted'
  <2>0. c \notin settled
    BY <1>3 DEF Execute, BeginCallback, Post2xx, PostFails, PostOnClosedClient, WakeUp, Finish, InOnePlace
  <2>1. CASE BeginCallback(c)
    BY <2>0, <2>1 DEF BeginCallback
  <2>2. CASE Post2xx(c)
    BY <2>2 DEF Post2xx
  <2>3. CASE PostFails(c)
    BY <2>3 DEF PostFails
  <2>4. CASE PostOnClosedClient(c)
    BY <2>4 DEF PostOnClosedClient
  <2>5. CASE WakeUp(c)
    BY <2>5 DEF WakeUp
  <2>6. CASE Finish(c)
    BY <2>6 DEF Finish
  <2> QED
    BY <1>3, <2>1, <2>2, <2>3, <2>4, <2>5, <2>6 DEF Execute
<1>4. ASSUME Stop \/ GoDown \/ ComeUp PROVE Counted'
  <2>1. CASE Stop \/ ComeUp
    BY <2>1 DEF Stop, ComeUp
  <2>2. CASE GoDown
    BY <2>2 DEF GoDown
  <2> QED
    BY <1>4, <2>1, <2>2
<1>5. ASSUME UNCHANGED vars PROVE Counted'
  BY <1>5 DEF vars
<1> QED
  BY <1>1, <1>2, <1>3, <1>4, <1>5 DEF Next

\* The end of the tries, and the confirmation, last until a restart.
LEMMA DueStep ==
    ASSUME TypeOK, InOnePlace, Counted, DueWhenGivenUp, DoneWhenAccepted, [Next]_vars
    PROVE  DueWhenGivenUp' /\ DoneWhenAccepted'
<1> DEFINE Goal == DueWhenGivenUp' /\ DoneWhenAccepted'
<1> USE LimitsAssumption DEF TypeOK, Stages, Move, Held, DueWhenGivenUp, DoneWhenAccepted, GivenUp
<1>1. ASSUME NEW c \in Callbacks, Publish(c) PROVE Goal
  BY <1>1 DEF Publish
<1>2. ASSUME Deliver PROVE Goal
  BY <1>2 DEF Deliver, InOnePlace
<1>3. ASSUME NEW c \in Callbacks, Execute(c) PROVE Goal
  <2>1. CASE BeginCallback(c)
    BY <2>1 DEF BeginCallback, InOnePlace
  <2>2. CASE Post2xx(c)
    BY <2>2 DEF Post2xx
  <2>3. CASE PostFails(c)
    BY <2>3 DEF PostFails, Counted
  <2>4. CASE PostOnClosedClient(c)
    BY <2>4 DEF PostOnClosedClient
  <2>5. CASE WakeUp(c)
    BY <2>5 DEF WakeUp, InOnePlace
  <2>6. CASE Finish(c)
    BY <2>6 DEF Finish
  <2> QED
    BY <1>3, <2>1, <2>2, <2>3, <2>4, <2>5, <2>6 DEF Execute
<1>4. ASSUME Stop \/ GoDown \/ ComeUp PROVE Goal
  BY <1>4 DEF Stop, GoDown, ComeUp
<1>5. ASSUME UNCHANGED vars PROVE Goal
  BY <1>5 DEF vars
<1> QED
  BY <1>1, <1>2, <1>3, <1>4, <1>5 DEF Next

-----------------------------------------------------------------------------
\* The invariant of callback delivery.
THEOREM CallbackInvariant == Spec => []CallbackInv
<1>1. Init => CallbackInv
  BY CallbackInit
<1>2. CallbackInv /\ [Next]_vars => CallbackInv'
  BY CallbackTyped, InOnePlaceStep, CountedStep, DueStep DEF CallbackInv
<1> QED
  BY <1>1, <1>2, PTL DEF Spec

\* Queue, slots, stages and counters stay of their type: in particular a callback
\* sleeps only between two tries and never has more attempts than max_tries.
THEOREM CallbackTypeCorrect == Spec => []TypeOK
<1>1. CallbackInv => TypeOK
  BY DEF CallbackInv
<1> QED
  BY <1>1, CallbackInvariant, PTL

\* No life of the process sends a client more than max_tries requests for one
\* task, whatever fails, times out or is delivered again.
THEOREM RetriesBounded == Spec => []TriesBounded
<1>1. CallbackInv => TriesBounded
  BY EarlierFacts DEF CallbackInv, Counted, TriesBounded
<1> QED
  BY <1>1, CallbackInvariant, PTL

\* Nothing deliverable is acknowledged unconfirmed before its tries are used up,
\* but for the request that meets the closed client.
THEOREM NothingGivenUpEarly == Spec => []GivenUpOnlyWhenDue
<1>1. CallbackInv => GivenUpOnlyWhenDue
  BY DEF CallbackInv, DueWhenGivenUp, GivenUp, GivenUpOnlyWhenDue, TypeOK
<1> QED
  BY <1>1, CallbackInvariant, PTL

\* A confirmed callback reaches its client again only after a restart.
THEOREM RepeatsNeedRestart == Spec => NoRepeatWithoutRestart
<1> DEFINE Step == \A c \in accepted : posts'[c] > posts[c] => restarts > 0
<1>1. CallbackInv /\ [Next]_vars => [Step]_vars
  <2> SUFFICES ASSUME CallbackInv, Next, NEW c \in accepted, posts'[c] > posts[c], restarts = 0
               PROVE FALSE
    BY DEF CallbackInv, TypeOK
  <2>1. GivenUp(c) /\ c \in Callbacks
    BY DEF CallbackInv, DoneWhenAccepted, TypeOK
  <2>2. stage[c] # "posting"
    BY <2>1 DEF GivenUp, CallbackInv, InOnePlace
  <2>3. posts[c] \in Nat
    BY <2>1 DEF CallbackInv, TypeOK
  <2>4. PICK d \in Callbacks : Post2xx(d) \/ PostFails(d)
    BY <2>3 DEF Next, Publish, Deliver, Execute, BeginCallback, PostOnClosedClient, WakeUp, Finish,
       Stop, GoDown, ComeUp
  <2>5. d # c
    BY <2>2, <2>4 DEF Post2xx, PostFails, Move
  <2> QED
    BY <2>1, <2>3, <2>4, <2>5 DEF Post2xx, PostFails, CallbackInv, TypeOK
<1> QED
  BY <1>1, CallbackInvariant, PTL DEF Spec, NoRepeatWithoutRestart
=============================================================================
