-------------------------- MODULE ConnectionManager -------------------------
(***************************************************************************)
(* RabbitMQManager (src/modules/mq_connection_manager.py) in one API       *)
(* process: connect at start-up, get_channel once per request, close at    *)
(* shutdown.  All requests share connection and channel and interleave at  *)
(* every await.  aio_pika is external: what is asked for is opened or an   *)
(* exception is raised, and RabbitMQ may close a connection or a channel   *)
(* at any time (for good: what the robust connection restores by itself    *)
(* never looks closed to this class).                                      *)
(***************************************************************************)
EXTENDS Naturals, Sequences, FiniteSets

CONSTANTS
    Requests,           \* HTTP requests that need a channel
    Startup,            \* the call of connect in lifespan
    MaxRetries,         \* max_retries
    MaxClosures         \* bound: times RabbitMQ closes something

ASSUME StartupAssumption == Startup \notin Requests
ASSUME RetriesAssumption == MaxRetries \in Nat \ {0}
ASSUME ClosuresAssumption == MaxClosures \in Nat

VARIABLES
    connection,         \* self.connection, a connection number or None
    channel,            \* self.channel, a channel number or None
    connections,        \* the caller of each connection opened so far
    channels,           \* the connection and the caller of each channel opened so far
    live,               \* connections that are open
    open,               \* channels that are open
    at,                 \* what each caller awaits
    attempt,            \* its attempt in connect
    using,              \* the connection or the channel it awaits something of
    given,              \* the channel get_channel returned to it
    declared,           \* REQUEST_QUEUE exists
    serving,            \* the API process answers requests
    closures            \* times RabbitMQ closed something

shared == <<connection, channel, connections, channels, live, open>>
vars   == <<shared, at, attempt, using, given, declared, serving, closures>>

Callers == Requests \cup {Startup}
None    == 0

Connecting == {"connect", "channel", "declare"}
Awaits     == {"new", "reopen", "served", "raised"} \cup Connecting

Init ==
    /\ connection = None /\ connections = <<>> /\ live = {}
    /\ channel = None /\ channels = <<>> /\ open = {}
    /\ at = [c \in Callers |-> IF c = Startup THEN "connect" ELSE "new"]
    /\ attempt = [c \in Callers |-> 1]
    /\ using = [c \in Callers |-> None]
    /\ given = [c \in Callers |-> None]
    /\ declared = FALSE
    /\ serving = FALSE
    /\ closures = 0

Goto(c, step, what) ==
    /\ at' = [at EXCEPT ![c] = step]
    /\ using' = [using EXCEPT ![c] = what]

-----------------------------------------------------------------------------
(* connect                                                                 *)

\* connect_robust returns; the channel of the new connection is asked for.
ConnectionOpens(c) ==
    /\ at[c] = "connect"
    /\ connections' = Append(connections, c)
    /\ connection' = Len(connections')
    /\ live' = live \cup {connection'}
    /\ Goto(c, "channel", connection')
    /\ UNCHANGED <<channel, channels, open, attempt, given, declared, serving, closures>>

\* A new channel, which replaces self.channel.
OpenChannel(c) ==
    /\ using[c] \in live
    /\ channels' = Append(channels, [connection |-> using[c], caller |-> c])
    /\ channel' = Len(channels')
    /\ open' = open \cup {channel'}
    /\ UNCHANGED <<connection, connections, live>>

\* Mutant: connect returns without the declaration of the queue.
ChannelOpensForUse(c) ==
    /\ at[c] = "channel"
    /\ OpenChannel(c)
    /\ Goto(c, "served", None)
    /\ given' = IF c = Startup THEN given ELSE [given EXCEPT ![c] = channel']
    /\ serving' = (serving \/ c = Startup)
    /\ UNCHANGED <<attempt, declared, closures>>

ChannelOpens(c) ==
    /\ at[c] = "channel"
    /\ OpenChannel(c)
    /\ Goto(c, "declare", channel')
    /\ UNCHANGED <<attempt, given, declared, serving, closures>>

\* The request gets self.channel as it is now.
QueueDeclared(c) ==
    /\ at[c] = "declare"
    /\ using[c] \in open
    /\ declared' = TRUE
    /\ Goto(c, "served", None)
    /\ given' = IF c = Startup THEN given ELSE [given EXCEPT ![c] = channel]
    /\ serving' = (serving \/ c = Startup)
    /\ UNCHANGED <<shared, attempt, closures>>

\* Mutant: an exception does not count as an attempt.
RetryForEver(c) ==
    /\ at[c] \in Connecting
    /\ Goto(c, "connect", None)
    /\ UNCHANGED <<shared, attempt, given, declared, serving, closures>>

\* Mutant: range(1, max_retries + 2).
RetryOnceMore(c) ==
    /\ at[c] \in Connecting
    /\ attempt[c] <= MaxRetries
    /\ attempt' = [attempt EXCEPT ![c] = @ + 1]
    /\ Goto(c, "connect", None)
    /\ UNCHANGED <<shared, given, declared, serving, closures>>

\* An exception, and the next attempt after a sleep.
Retry(c) ==
    /\ at[c] \in Connecting
    /\ attempt[c] < MaxRetries
    /\ attempt' = [attempt EXCEPT ![c] = @ + 1]
    /\ Goto(c, "connect", None)
    /\ UNCHANGED <<shared, given, declared, serving, closures>>

\* Mutant: only a failure to connect is caught.
GiveUpUnconnected(c) ==
    /\ at[c] = "connect"
    /\ attempt[c] = MaxRetries
    /\ Goto(c, "raised", None)
    /\ UNCHANGED <<shared, attempt, given, declared, serving, closures>>

\* An exception in the last attempt: RuntimeError.
GiveUp(c) ==
    /\ at[c] \in Connecting
    /\ attempt[c] = MaxRetries
    /\ Goto(c, "raised", None)
    /\ UNCHANGED <<shared, attempt, given, declared, serving, closures>>

-----------------------------------------------------------------------------
(* get_channel                                                             *)

\* Mutant: the channel is not looked at.
ReturnAnyChannel(r) ==
    /\ serving
    /\ at[r] = "new"
    /\ channel # None
    /\ Goto(r, "served", None)
    /\ given' = [given EXCEPT ![r] = channel]
    /\ UNCHANGED <<shared, attempt, declared, serving, closures>>

ReturnChannel(r) ==
    /\ serving
    /\ at[r] = "new"
    /\ channel \in open
    /\ Goto(r, "served", None)
    /\ given' = [given EXCEPT ![r] = channel]
    /\ UNCHANGED <<shared, attempt, declared, serving, closures>>

Reconnect(r) ==
    /\ serving
    /\ at[r] = "new"
    /\ channel \notin open /\ connection \notin live
    /\ Goto(r, "connect", None)
    /\ UNCHANGED <<shared, attempt, given, declared, serving, closures>>

AskForChannel(r) ==
    /\ serving
    /\ at[r] = "new"
    /\ channel \notin open /\ connection \in live
    /\ Goto(r, "reopen", connection)
    /\ UNCHANGED <<shared, attempt, given, declared, serving, closures>>

ChannelReopens(r) ==
    /\ at[r] = "reopen"
    /\ OpenChannel(r)
    /\ Goto(r, "served", None)
    /\ given' = [given EXCEPT ![r] = channel']
    /\ UNCHANGED <<attempt, declared, serving, closures>>

ReopenRaises(r) ==
    /\ at[r] = "reopen"
    /\ Goto(r, "raised", None)
    /\ UNCHANGED <<shared, attempt, given, declared, serving, closures>>

-----------------------------------------------------------------------------
(* RabbitMQ, and the end of the process                                    *)

ChannelsOn(dead) == {ch \in open : channels[ch].connection \in dead}

Close(deadConnections, deadChannels) ==
    /\ live' = live \ deadConnections
    /\ open' = open \ (deadChannels \cup ChannelsOn(deadConnections))
    /\ UNCHANGED <<connection, channel, connections, channels>>

RabbitCloses ==
    /\ closures < MaxClosures
    /\ closures' = closures + 1
    /\ \/ \E k \in live : Close({k}, {})
       \/ \E ch \in open : Close({}, {ch})
    /\ UNCHANGED <<at, attempt, using, given, declared, serving>>

\* close, when lifespan ends and no request is under way.
Shutdown ==
    /\ serving
    /\ \A r \in Requests : at[r] \in {"new", "served", "raised"}
    /\ serving' = FALSE
    /\ Close({connection} \cap live, {})
    /\ UNCHANGED <<at, attempt, using, given, declared, closures>>

Connect(c) == ConnectionOpens(c) \/ ChannelOpens(c) \/ QueueDeclared(c) \/ Retry(c) \/ GiveUp(c)

GetChannel(r) == ReturnChannel(r) \/ Reconnect(r) \/ AskForChannel(r) \/ ChannelReopens(r) \/ ReopenRaises(r)

Next ==
    \/ \E c \in Callers : Connect(c)
    \/ \E r \in Requests : GetChannel(r)
    \/ RabbitCloses
    \/ Shutdown

Spec == Init /\ [][Next]_vars

\* An awaited call ends, in one way or the other.
Fairness == \A c \in Callers : /\ WF_vars(Connect(c))
                               /\ WF_vars(ChannelReopens(c) \/ ReopenRaises(c))

FairSpec == Spec /\ Fairness

-----------------------------------------------------------------------------
(* Properties                                                              *)

TypeOK ==
    /\ connections \in Seq(Callers)
    /\ channels \in Seq([connection : Nat, caller : Callers])
    /\ connection \in Nat /\ channel \in Nat
    /\ live \in SUBSET DOMAIN connections
    /\ open \in SUBSET DOMAIN channels
    /\ at \in [Callers -> Awaits]
    /\ attempt \in [Callers -> 1..MaxRetries]
    /\ using \in [Callers -> Nat]
    /\ given \in [Callers -> Nat]
    /\ declared \in BOOLEAN /\ serving \in BOOLEAN
    /\ closures \in 0..MaxClosures

\* connect declares REQUEST_QUEUE, get_channel's other branches do not: no request
\* gets a channel before the queue it publishes to exists.
QueueExistsForRequests == \A r \in Requests : given[r] # None => declared

\* "Ensures the channel is alive before returning it."  A request that is given a
\* channel which is closed already was overtaken: the channel is not the one it
\* has just looked at or opened, but one another call put in its place meanwhile.
ClosedOnlyWhenOvertaken ==
    [][\A r \in Requests :
          at'[r] = "served" /\ at[r] # "served" /\ given'[r] \notin open' =>
              channels[given'[r]].caller # r /\ using[r] \in open \ {given'[r]}]_vars

\* However the calls overlap and fail, the process opens at most max_retries
\* connections for each of them; those it loses sight of stay open.
ConnectionsBounded ==
    \A c \in Callers : Cardinality({k \in DOMAIN connections : connections[k] = c}) <= attempt[c]

\* Every call that has begun returns or raises.
EveryCallEnds ==
    \A c \in Callers : at[c] \in Connecting \cup {"reopen"} ~> at[c] \in {"served", "raised"}
=============================================================================
