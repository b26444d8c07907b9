--------------------------- MODULE CallbackWorker ---------------------------
(***************************************************************************)
(* The callback worker (src/workers/callback_worker.py): it takes finished *)
(* tasks from the durable callback queue, up to Prefetch of them at a time *)
(* (prefetch_count=10), and posts each to its client, trying up to         *)
(* max_tries times.  Every callback is a task of its own on one event      *)
(* loop; they interleave at the requests and the sleeps.  A callback is    *)
(* acknowledged when its task ends; what is not acknowledged when the      *)
(* connection goes returns to its place in the queue.                      *)
(***************************************************************************)
EXTENDS Naturals, Sequences, FiniteSets

CONSTANTS Callbacks,    \* the callbacks the broker may queue
          Usable,       \* those whose callback_url a request can be sent to
          Prefetch,
          MaxTries,
          MaxRestarts   \* bound: how often the process may go down

ASSUME CallbacksAssumption == IsFiniteSet(Callbacks) /\ Usable \subseteq Callbacks
ASSUME LimitsAssumption == Prefetch \in Nat \ {0} /\ MaxTries \in Nat \ {0} /\ MaxRestarts \in Nat

VARIABLES
    published,  \* every callback so far, in the order of the queue
    ready,      \* those waiting in the queue
    mode,       \* "closing": the http client is closed, the connection not yet
    stage,      \* where the task of each callback is
    attempt,    \* the loop variable of send_callback_with_retry
    settled,    \* acknowledged callbacks
    restarts,
    posts,      \* how many requests have reached the client (history)
    accepted,   \* callbacks the client has confirmed to the worker (history)
    cut         \* callbacks whose request met the closed http client (history)

vars == <<published, ready, mode, stage, attempt, settled, restarts, posts, accepted, cut>>

Stages == {"none", "started", "posting", "sleeping", "ack"}

Init ==
    /\ published = <<>>
    /\ ready = {}
    /\ mode = "up"
    /\ stage = [c \in Callbacks |-> "none"]
    /\ attempt = [c \in Callbacks |-> 0]
    /\ settled = {}
    /\ restarts = 0
    /\ posts = [c \in Callbacks |-> 0]
    /\ accepted = {}
    /\ cut = {}

TypeOK ==
    /\ published \in Seq(Callbacks)
    /\ ready \in SUBSET Callbacks
    /\ mode \in {"up", "closing", "down"}
    /\ stage \in [Callbacks -> Stages]
    /\ attempt \in [Callbacks -> 0..MaxTries]
    /\ settled \in SUBSET Callbacks
    /\ restarts \in 0..MaxRestarts
    /\ posts \in [Callbacks -> Nat]
    /\ accepted \in SUBSET Callbacks
    /\ cut \in SUBSET Callbacks

-----------------------------------------------------------------------------
Held == {c \in Callbacks : stage[c] # "none"}

Move(c, from, to) == stage[c] = from /\ stage' = [stage EXCEPT ![c] = to]

\* The broker queues a finished task.
Publish(c) ==
    /\ \A i \in DOMAIN published : published[i] # c
    /\ published' = Append(published, c)
    /\ ready' = ready \cup {c}
    /\ UNCHANGED <<mode, stage, attempt, settled, restarts, posts, accepted, cut>>

\* process_callback starts a task for the first message of the queue.
Deliver ==
    /\ mode # "down"
    /\ Cardinality(Held) < Prefetch
    /\ \E i \in DOMAIN published :
          /\ published[i] \in ready
          /\ \A j \in 1..(i - 1) : published[j] \notin ready
          /\ ready' = ready \ {published[i]}
          /\ stage' = [stage EXCEPT ![published[i]] = "started"]
    /\ UNCHANGED <<published, mode, attempt, settled, restarts, posts, accepted, cut>>

\* _safe_execute_callback up to its first await: a missing or faulty url, or
\* one httpx refuses, ends it, logged and acknowledged.
BeginCallback(c) ==
    /\ mode # "down"
    /\ Move(c, "started", IF c \in Usable THEN "posting" ELSE "ack")
    /\ attempt' = [attempt EXCEPT ![c] = IF c \in Usable THEN 1 ELSE 0]
    /\ UNCHANGED <<published, ready, mode, settled, restarts, posts, accepted, cut>>

\* The answer is 2xx.  Closing the client leaves an answer that is already there.
Post2xx(c) ==
    /\ mode # "down"
    /\ Move(c, "posting", "ack")
    /\ posts' = [posts EXCEPT ![c] = @ + 1]
    /\ accepted' = accepted \cup {c}
    /\ UNCHANGED <<published, ready, mode, attempt, settled, restarts, cut>>

\* Mutant: one sleep too many, and one request.
PostFailsOnceMore(c) ==
    /\ mode # "down"
    /\ Move(c, "posting", IF attempt[c] <= MaxTries THEN "sleeping" ELSE "ack")
    /\ \E reached \in {0, 1} : posts' = [posts EXCEPT ![c] = @ + reached]
    /\ UNCHANGED <<published, ready, mode, attempt, settled, restarts, accepted, cut>>

\* Mutant: the first failure is the last.
PostFailsForGood(c) ==
    /\ mode # "down"
    /\ Move(c, "posting", "ack")
    /\ \E reached \in {0, 1} : posts' = [posts EXCEPT ![c] = @ + reached]
    /\ UNCHANGED <<published, ready, mode, attempt, settled, restarts, accepted, cut>>

\* No answer within 10 seconds, no connection, or a 4xx or 5xx answer: whether
\* the request reached the client or not, the worker sleeps and tries again.
PostFails(c) ==
    /\ mode # "down"
    /\ Move(c, "posting", IF attempt[c] < MaxTries THEN "sleeping" ELSE "ack")
    /\ \E reached \in {0, 1} : posts' = [posts EXCEPT ![c] = @ + reached]
    /\ UNCHANGED <<published, ready, mode, attempt, settled, restarts, accepted, cut>>

\* A request on the closed client raises RuntimeError, which is no request
\* error: it ends the task, which logs and acknowledges.
PostOnClosedClient(c) ==
    /\ mode = "closing"
    /\ Move(c, "posting", "ack")
    /\ cut' = cut \cup {c}
    /\ UNCHANGED <<published, ready, mode, attempt, settled, restarts, posts, accepted>>

\* Mutant: the loop starts over.
WakeUpFromStart(c) ==
    /\ mode # "down"
    /\ Move(c, "sleeping", "posting")
    /\ attempt' = [attempt EXCEPT ![c] = 1]
    /\ UNCHANGED <<published, ready, mode, settled, restarts, posts, accepted, cut>>

WakeUp(c) ==
    /\ mode # "down"
    /\ Move(c, "sleeping", "posting")
    /\ attempt' = [attempt EXCEPT ![c] = @ + 1]
    /\ UNCHANGED <<published, ready, mode, settled, restarts, posts, accepted, cut>>

\* Mutant: the message goes back to the queue at the end of its task.
FinishRequeues(c) ==
    /\ mode # "down"
    /\ Move(c, "ack", "none")
    /\ ready' = ready \cup {c}
    /\ UNCHANGED <<published, mode, attempt, settled, restarts, posts, accepted, cut>>

\* message.process(requeue=False) acknowledges.
Finish(c) ==
    /\ mode # "down"
    /\ Move(c, "ack", "none")
    /\ settled' = settled \cup {c}
    /\ UNCHANGED <<published, ready, mode, attempt, restarts, posts, accepted, cut>>

-----------------------------------------------------------------------------
\* SIGTERM: run closes the http client, then the connection.
Stop ==
    /\ mode = "up"
    /\ restarts < MaxRestarts
    /\ mode' = "closing"
    /\ UNCHANGED <<published, ready, stage, attempt, settled, restarts, posts, accepted, cut>>

\* Mutant: messages are acknowledged as they are delivered.
GoDownForgets ==
    /\ mode # "down"
    /\ restarts < MaxRestarts
    /\ mode' = "down"
    /\ restarts' = restarts + 1
    /\ stage' = [c \in Callbacks |-> "none"]
    /\ UNCHANGED <<published, ready, attempt, settled, posts, accepted, cut>>

\* The connection closes, after Stop or with the process.
GoDown ==
    /\ mode # "down"
    /\ restarts < MaxRestarts
    /\ mode' = "down"
    /\ restarts' = restarts + 1
    /\ ready' = ready \cup Held
    /\ stage' = [c \in Callbacks |-> "none"]
    /\ UNCHANGED <<published, attempt, settled, posts, accepted, cut>>

\* restart: unless-stopped.
ComeUp ==
    /\ mode = "down"
    /\ mode' = "up"
    /\ UNCHANGED <<published, ready, stage, attempt, settled, restarts, posts, accepted, cut>>

Execute(c) ==
    \/ BeginCallback(c) \/ Post2xx(c) \/ PostFails(c) \/ PostOnClosedClient(c)
    \/ WakeUp(c) \/ Finish(c)

Next ==
    \/ \E c \in Callbacks : Publish(c) \/ Execute(c)
    \/ Deliver \/ Stop \/ GoDown \/ ComeUp

Spec == Init /\ [][Next]_vars

\* The event loop runs, requests end (timeout=10.0), sleeps end, a stopping
\* process closes its connection and docker starts it again.
FairSpec ==
    /\ Spec
    /\ WF_vars(Deliver)
    /\ \A c \in Callbacks : WF_vars(Execute(c))
    /\ WF_vars(GoDown /\ mode = "closing")
    /\ WF_vars(ComeUp)

-----------------------------------------------------------------------------
\* send_callback_with_retry: "retrying up to max_tries".  No life of the process
\* sends a client more than max_tries requests for one task.
TriesBounded == \A c \in Callbacks : posts[c] <= MaxTries * (restarts + 1)

\* A callback its client has not confirmed is acknowledged only when its url is
\* unusable, the tries are used up, or its request met the closing process.
GivenUpOnlyWhenDue ==
    \A c \in settled \ accepted : c \in Usable /\ c \notin cut => attempt[c] = MaxTries

\* A callback that its client has confirmed is sent again only after a restart.
NoRepeatWithoutRestart ==
    [][\A c \in accepted : posts'[c] > posts[c] => restarts > 0]_vars

\* Every queued callback is acknowledged in the end: neither sleeping retries nor
\* restarts keep one in the queue for ever.
EveryCallbackSettles ==
    \A c \in Callbacks : (\E i \in DOMAIN published : published[i] = c) ~> c \in settled
=============================================================================
