-------------------------- MODULE ConnectionProofs --------------------------
(***************************************************************************)
(* Proofs about ConnectionManager, for any number of requests, retries and *)
(* closures: when REQUEST_QUEUE exists, when a request is given a closed   *)
(* channel, and how many connections are opened.                           *)
(***************************************************************************)
EXTENDS ConnectionManager, FiniteSetTheorems, TLAPS

\* The queue exists once the API serves, and only then a request begins.
QueueInv ==
    /\ serving => declared
    /\ \A r \in Requests : at[r] # "new" \/ given[r] # None => declared

\* self.channel is the youngest one, and the one a caller declares its queue on
\* is the youngest of its own.
ChannelInv ==
    /\ channel = Len(channels)
    /\ \A c \in Callers : at[c] = "declare" =>
          /\ using[c] \in DOMAIN channels
          /\ \A k \in DOMAIN channels : k > using[c] => channels[k].caller # c

Mine(c) == {k \in DOMAIN connections : connections[k] = c}

\* A caller that awaits a connection has one attempt left to open it in.
OpenedInv ==
    \A c \in Callers :
        Cardinality(Mine(c)) <= IF at[c] \in {"new", "connect"} THEN attempt[c] - 1 ELSE attempt[c]

ConnectionInv == TypeOK /\ QueueInv /\ ChannelInv /\ OpenedInv

-----------------------------------------------------------------------------
\* What is opened gets the next number.
LEMMA NextNumber ==
    ASSUME NEW S, NEW q \in Seq(S), NEW m \in S
    PROVE  LET n == Len(q) + 1
           IN  /\ Len(q) \in Nat /\ DOMAIN q = 1..Len(q)
               /\ Append(q, m) \in Seq(S)
               /\ Len(Append(q, m)) = n /\ DOMAIN Append(q, m) = 1..n
               /\ Append(q, m)[n] = m
               /\ \A k \in DOMAIN q : Append(q, m)[k] = q[k]
OBVIOUS

\* Nothing is open before the first attempt.
LEMMA ConnectionInit == Init => ConnectionInv
<1> SUFFICES ASSUME Init PROVE ConnectionInv
  OBVIOUS
<1> USE RetriesAssumption, ClosuresAssumption, StartupAssumption DEF Init, None
<1>0. connections \in Seq(Callers) /\ channels \in Seq([connection : Nat, caller : Callers])
  OBVIOUS
<1>1. TypeOK
  <2>1. at \in [Callers -> Awaits]
    BY DEF Awaits, Connecting
  <2>2. attempt \in [Callers -> 1..MaxRetries] /\ closures \in 0..MaxClosures
    OBVIOUS
  <2>3. using \in [Callers -> Nat] /\ given \in [Callers -> Nat]
    OBVIOUS
  <2> QED
    BY <1>0, <2>1, <2>2, <2>3 DEF TypeOK
<1>2. QueueInv /\ ChannelInv
  BY DEF QueueInv, ChannelInv, Callers
<1>3. \A c \in Callers : Mine(c) = {}
  <2>1. DOMAIN connections = {}
    OBVIOUS
  <2> QED
    BY <2>1 DEF Mine
<1>4. OpenedInv
  <2>1. Cardinality({}) = 0
    BY FS_EmptySet
  <2>2. \A c \in Callers : at[c] \in {"new", "connect"} /\ attempt[c] = 1
    OBVIOUS
  <2> QED
    BY <1>3, <2>1, <2>2 DEF OpenedInv
<1> QED
  BY <1>1, <1>2, <1>4 DEF ConnectionInv

\* Type correctness of a step.
LEMMA ConnectionTyped ==
    ASSUME TypeOK, [Next]_vars
    PROVE  TypeOK'
<1> USE RetriesAssumption, ClosuresAssumption DEF TypeOK, Awaits, Connecting, Goto, shared, Callers
<1>1. ASSUME NEW c \in Callers, Connect(c) PROVE TypeOK'
  <2>1. CASE ConnectionOpens(c)
    BY <2>1 DEF ConnectionOpens
  <2>2. CASE ChannelOpens(c)
    BY <2>2 DEF ChannelOpens, OpenChannel
  <2>3. CASE QueueDeclared(c)
    BY <2>3 DEF QueueDeclared, None
  <2>4. CASE Retry(c)
    BY <2>4 DEF Retry, None
  <2>5. CASE GiveUp(c)
    BY <2>5 DEF GiveUp, None
  <2> QED
    BY <1>1, <2>1, <2>2, <2>3, <2>4, <2>5 DEF Connect
<1>2. ASSUME NEW r \in Requests, GetChannel(r) PROVE TypeOK'
  <2>1. CASE ReturnChannel(r)
    BY <2>1 DEF ReturnChannel, None
  <2>2. CASE Reconnect(r)
    BY <2>2 DEF Reconnect, None
  <2>3. CASE AskForChannel(r)
    BY <2>3 DEF AskForChannel
  <2>4. CASE ChannelReopens(r)
    BY <2>4 DEF ChannelReopens, OpenChannel, None
  <2>5. CASE ReopenRaises(r)
    BY <2>5 DEF ReopenRaises, None
  <2> QED
    BY <1>2, <2>1, <2>2, <2>3, <2>4, <2>5 DEF GetChannel
<1>3. ASSUME RabbitCloses PROVE TypeOK'
  <2>1. closures' \in 0..MaxClosures
    BY <1>3 DEF RabbitCloses
  <2>2. /\ live' \subseteq live /\ open' \subseteq open
        /\ UNCHANGED <<connection, channel, connections, channels>>
    BY <1>3 DEF RabbitCloses, Close
  <2> QED
    BY <1>3, <2>1, <2>2 DEF RabbitCloses
<1>4. ASSUME Shutdown PROVE TypeOK'
  BY <1>4 DEF Shutdown, Close
<1>5. ASSUME UNCHANGED vars PROVE TypeOK'
  BY <1>5 DEF vars
<1> QED
  BY <1>1, <1>2, <1>3, <1>4, <1>5 DEF Next

\* A request begins when the API serves, and the API serves when the queue is
\* declared.
LEMMA QueueStep ==
    ASSUME TypeOK, QueueInv, [Next]_vars
    PROVE  QueueInv'
<1> USE StartupAssumption DEF TypeOK, QueueInv, Goto, shared, Callers, None
<1>1. ASSUME NEW c \in Callers, Connect(c) PROVE QueueInv'
  <2>1. CASE ConnectionOpens(c) \/ Retry(c) \/ GiveUp(c)
    BY <2>1 DEF ConnectionOpens, Retry, GiveUp, Connecting
  <2>2. CASE ChannelOpens(c)
    BY <2>2 DEF ChannelOpens
  <2>3. CASE QueueDeclared(c)
    BY <2>3 DEF QueueDeclared
  <2> QED
    BY <1>1, <2>1, <2>2, <2>3 DEF Connect
<1>2. ASSUME NEW r \in Requests, GetChannel(r) PROVE QueueInv'
  BY <1>2 DEF GetChannel, ReturnChannel, Reconnect, AskForChannel, ChannelReopens, ReopenRaises
<1>3. ASSUME RabbitCloses \/ Shutdown PROVE QueueInv'
  BY <1>3 DEF RabbitCloses, Shutdown
<1>4. ASSUME UNCHANGED vars PROVE QueueInv'
  BY <1>4 DEF vars
<1> QED
  BY <1>1, <1>2, <1>3, <1>4 DEF Next

\* A channel that is opened is younger than all others.
LEMMA OpenChannelYoungest ==
    ASSUME TypeOK, ChannelInv, NEW c \in Callers, OpenChannel(c),
           \A d \in Callers : at'[d] = "declare" => 
               \/ d = c /\ using'[d] = channel'
               \/ d # c /\ at[d] = "declare" /\ using'[d] = using[d]
    PROVE  ChannelInv'
<1>1. /\ Len(channels') = Len(channels) + 1
      /\ DOMAIN channels' = 1..Len(channels) + 1
      /\ \A k \in DOMAIN channels : channels'[k] = channels[k]
      /\ channels'[Len(channels) + 1].caller = c
      /\ channel' = Len(channels')
      /\ Len(channels) \in Nat /\ DOMAIN channels = 1..Len(channels)
  <2> DEFINE new == [connection |-> using[c], caller |-> c]
  <2>1. /\ channels \in Seq([connection : Nat, caller : Callers])
        /\ new \in [connection : Nat, caller : Callers]
        /\ new.caller = c
    BY DEF TypeOK
  <2>2. channels' = Append(channels, new) /\ channel' = Len(channels')
    BY DEF OpenChannel
  <2> HIDE DEF new
  <2> QED
    BY <2>1, <2>2, NextNumber
<1>2. \A k \in DOMAIN channels' : k \in DOMAIN channels \/ k = Len(channels) + 1
  BY <1>1
<1>3. ASSUME NEW d \in Callers, at'[d] = "declare"
      PROVE  /\ using'[d] \in DOMAIN channels'
             /\ \A k \in DOMAIN channels' : k > using'[d] => channels'[k].caller # d
  <2>1. CASE d = c
    BY <1>1, <1>3, <2>1
  <2>2. CASE d # c
    <3>1. at[d] = "declare" /\ using'[d] = using[d]
      BY <1>3, <2>2
    <3>2. using[d] \in DOMAIN channels /\ \A k \in DOMAIN channels : k > using[d] => channels[k].caller # d
      BY <3>1 DEF ChannelInv
    <3> QED
      BY <1>1, <1>2, <2>2, <3>1, <3>2
  <2> QED
    BY <2>1, <2>2
<1> QED
  BY <1>1, <1>3 DEF ChannelInv

\* A step keeps that order.
LEMMA ChannelStep ==
    ASSUME TypeOK, ChannelInv, [Next]_vars
    PROVE  ChannelInv'
<1> USE DEF TypeOK, Goto, shared, Callers
<1>1. ASSUME NEW c \in Callers, Connect(c) PROVE ChannelInv'
  <2>1. CASE ChannelOpens(c)
    BY <2>1, OpenChannelYoungest DEF ChannelOpens
  <2>2. CASE ConnectionOpens(c) \/ QueueDeclared(c) \/ Retry(c) \/ GiveUp(c)
    BY <2>2 DEF ConnectionOpens, QueueDeclared, Retry, GiveUp, Connecting, ChannelInv
  <2> QED
    BY <1>1, <2>1, <2>2 DEF Connect
<1>2. ASSUME NEW r \in Requests, GetChannel(r) PROVE ChannelInv'
  <2>1. CASE ChannelReopens(r)
    BY <2>1, OpenChannelYoungest DEF ChannelReopens
  <2>2. CASE ReturnChannel(r) \/ Reconnect(r) \/ AskForChannel(r) \/ ReopenRaises(r)
    BY <2>2 DEF ReturnChannel, Reconnect, AskForChannel, ReopenRaises, ChannelInv
  <2> QED
    BY <1>2, <2>1, <2>2 DEF GetChannel
<1>3. ASSUME RabbitCloses \/ Shutdown PROVE ChannelInv'
  BY <1>3 DEF RabbitCloses, Shutdown, Close, ChannelInv
<1>4. ASSUME UNCHANGED vars PROVE ChannelInv'
  BY <1>4 DEF vars, ChannelInv
<1> QED
  BY <1>1, <1>2, <1>3, <1>4 DEF Next

-----------------------------------------------------------------------------
\* A caller's connections are finitely many.
LEMMA MineFinite ==
    ASSUME TypeOK, NEW c \in Callers
    PROVE  IsFiniteSet(Mine(c)) /\ Cardinality(Mine(c)) \in Nat
<1>1. Mine(c) \subseteq 1..Len(connections) /\ Len(connections) \in Nat
  BY DEF Mine, TypeOK
<1>2. IsFiniteSet(1..Len(connections))
  BY <1>1, FS_Interval
<1> QED
  BY <1>1, <1>2, FS_Subset, FS_CardinalityType

\* A connection that is opened adds one to those of its caller.
LEMMA ConnectionOpensAddsOne ==
    ASSUME TypeOK, OpenedInv, NEW c \in Callers, ConnectionOpens(c)
    PROVE  OpenedInv'
<1>0. /\ connections' = Append(connections, c)
      /\ at[c] = "connect" /\ at' = [at EXCEPT ![c] = "channel"]
      /\ attempt' = attempt
      /\ at \in [Callers -> Awaits] /\ attempt \in [Callers -> 1..MaxRetries]
  BY DEF ConnectionOpens, Goto, TypeOK
<1>1. /\ Len(connections) \in Nat /\ DOMAIN connections = 1..Len(connections)
      /\ DOMAIN connections' = 1..Len(connections) + 1
      /\ connections'[Len(connections) + 1] = c
      /\ \A k \in DOMAIN connections : connections'[k] = connections[k]
  BY <1>0, NextNumber DEF TypeOK
<1>2. /\ \A d \in Callers : d # c => Mine(d)' = Mine(d)
      /\ Mine(c)' = Mine(c) \cup {Len(connections) + 1}
  BY <1>1 DEF Mine
<1>3. Cardinality(Mine(c)) \in Nat /\ Cardinality(Mine(c)') \in Nat /\ Cardinality(Mine(c)') <= Cardinality(Mine(c)) + 1
  <2>1. IsFiniteSet(Mine(c)) /\ Cardinality(Mine(c)) \in Nat
    BY MineFinite
  <2> HIDE DEF Mine
  <2>2. Cardinality(Mine(c) \cup {Len(connections) + 1}) =
           IF Len(connections) + 1 \in Mine(c) THEN Cardinality(Mine(c)) ELSE Cardinality(Mine(c)) + 1
    BY <2>1, FS_AddElement
  <2> QED
    BY <1>2, <2>1, <2>2
<1>4. Cardinality(Mine(c)) <= attempt[c] - 1
  BY <1>0 DEF OpenedInv
<1>5. Cardinality(Mine(c)') <= attempt'[c] /\ at'[c] = "channel"
  BY <1>0, <1>3, <1>4, RetriesAssumption
<1>6. \A d \in Callers : d # c => at'[d] = at[d] /\ attempt'[d] = attempt[d]
  BY <1>0
<1> QED
  BY <1>2, <1>5, <1>6 DEF OpenedInv

\* Nothing else opens a connection, and the count of attempts only grows.
LEMMA OpenedStep ==
    ASSUME TypeOK, OpenedInv, [Next]_vars
    PROVE  OpenedInv'
<1>1. CASE \E c \in Callers : ConnectionOpens(c)
  BY <1>1, ConnectionOpensAddsOne
<1>2. CASE ~ \E c \in Callers : ConnectionOpens(c)
  <2>1. connections' = connections
    BY <1>2 DEF Next, Connect, GetChannel, ChannelOpens, QueueDeclared, Retry, GiveUp, ReturnChannel,
       Reconnect, AskForChannel, ChannelReopens, ReopenRaises, RabbitCloses, Shutdown, Close, OpenChannel,
       shared, vars
  <2>2. \A c \in Callers : Mine(c)' = Mine(c)
    BY <2>1 DEF Mine
  <2>3. ASSUME NEW c \in Callers
        PROVE  \/ at'[c] = at[c] /\ attempt'[c] = attempt[c]
               \/ at[c] \in Connecting /\ at'[c] = "connect" /\ attempt'[c] = attempt[c] + 1
               \/ at[c] = "new" /\ at'[c] = "connect" /\ attempt'[c] = attempt[c]
               \/ at'[c] \notin {"new", "connect"} /\ attempt'[c] = attempt[c]
    <3> USE DEF TypeOK, Goto, Callers
    <3>1. ASSUME NEW d \in Callers, Connect(d) PROVE <2>3!2
      BY <1>2, <3>1 DEF Connect, ChannelOpens, QueueDeclared, Retry, GiveUp
    <3>2. ASSUME NEW r \in Requests, GetChannel(r) PROVE <2>3!2
      BY <3>2 DEF GetChannel, ReturnChannel, Reconnect, AskForChannel, ChannelReopens, ReopenRaises
    <3>3. ASSUME RabbitCloses \/ Shutdown \/ UNCHANGED vars PROVE <2>3!2
      BY <3>3 DEF RabbitCloses, Shutdown, vars
    <3> QED
      BY <3>1, <3>2, <3>3 DEF Next
  <2>4. \A c \in Callers : Cardinality(Mine(c)) \in Nat /\ attempt[c] \in Nat
    BY MineFinite, RetriesAssumption DEF TypeOK
  <2> QED
    BY <2>2, <2>3, <2>4 DEF OpenedInv, Connecting
<1> QED
  BY <1>1, <1>2

-----------------------------------------------------------------------------
\* The invariant of the connection manager.
THEOREM ConnectionInvariant == Spec => []ConnectionInv
<1>1. Init => ConnectionInv
  BY ConnectionInit
<1>2. ConnectionInv /\ [Next]_vars => ConnectionInv'
  BY ConnectionTyped, QueueStep, ChannelStep, OpenedStep DEF ConnectionInv
<1> QED
  BY <1>1, <1>2, PTL DEF Spec

\* Connections, channels and callers stay of their type.
THEOREM ConnectionTypeCorrect == Spec => []TypeOK
<1>1. ConnectionInv => TypeOK
  BY DEF ConnectionInv
<1> QED
  BY <1>1, ConnectionInvariant, PTL

\* No request is given a channel before REQUEST_QUEUE is declared, although only
\* connect declares it.
THEOREM NoChannelBeforeQueue == Spec => []QueueExistsForRequests
<1>1. ConnectionInv => QueueExistsForRequests
  BY DEF ConnectionInv, QueueInv, QueueExistsForRequests
<1> QED
  BY <1>1, ConnectionInvariant, PTL

\* However many requests reconnect at once, each opens at most max_retries
\* connections, one in each attempt.
THEOREM ConnectionsStayBounded == Spec => []ConnectionsBounded
<1>1. ConnectionInv => ConnectionsBounded
  <2> SUFFICES ASSUME ConnectionInv, NEW c \in Callers PROVE Cardinality(Mine(c)) <= attempt[c]
    BY DEF ConnectionsBounded, Mine
  <2>1. Cardinality(Mine(c)) \in Nat /\ attempt[c] \in Nat
    BY MineFinite, RetriesAssumption DEF ConnectionInv, TypeOK
  <2> QED
    BY <2>1 DEF ConnectionInv, OpenedInv
<1> QED
  BY <1>1, ConnectionInvariant, PTL

\* get_channel returns a closed channel only when another call has replaced the
\* one this request has just opened.
THEOREM ClosedMeansOvertaken == Spec => ClosedOnlyWhenOvertaken
<1> DEFINE Step == \A r \in Requests :
                      at'[r] = "served" /\ at[r] # "served" /\ given'[r] \notin open' =>
                          channels[given'[r]].caller # r /\ using[r] \in open \ {given'[r]}
<1>1. ConnectionInv /\ [Next]_vars => [Step]_vars
  <2> SUFFICES ASSUME ConnectionInv, Next, NEW r \in Requests,
                      at'[r] = "served", at[r] # "served", given'[r] \notin open'
               PROVE  channels[given'[r]].caller # r /\ using[r] \in open \ {given'[r]}
    OBVIOUS
  <2> USE DEF ConnectionInv, TypeOK, Goto, Callers
  <2>1. QueueDeclared(r) \/ ReturnChannel(r) \/ ChannelReopens(r)
    BY DEF Next, Connect, GetChannel, ConnectionOpens, ChannelOpens, QueueDeclared, Retry, GiveUp,
       ReturnChannel, Reconnect, AskForChannel, ChannelReopens, ReopenRaises, RabbitCloses, Shutdown
  <2>2. QueueDeclared(r)
    BY <2>1 DEF ReturnChannel, ChannelReopens, OpenChannel, shared
  <2>3. given'[r] = channel /\ open' = open /\ using[r] \in open /\ at[r] = "declare"
    BY <2>2, StartupAssumption DEF QueueDeclared, shared
  <2>4. channel = Len(channels) /\ Len(channels) \in Nat /\ DOMAIN channels = 1..Len(channels)
    BY DEF ChannelInv
  <2>5. using[r] \in 1..channel /\ using[r] # channel
    BY <2>3, <2>4
  <2>6. channels[channel].caller # r
    BY <2>3, <2>4, <2>5 DEF ChannelInv
  <2> QED
    BY <2>3, <2>6
<1> QED
  BY <1>1, ConnectionInvariant, PTL DEF Spec, ClosedOnlyWhenOvertaken
=============================================================================
