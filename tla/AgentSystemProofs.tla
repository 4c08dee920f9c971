------------------------- MODULE AgentSystemProofs -------------------------
(***************************************************************************)
(* AgentSystem for any numbers of agents, sockets, calls and records, and for *)
(* unbounded queues: types, where the server sends a call and how long a call *)
(* waits, what comes first on a new connection, and whose the records, lists    *)
(* and samples the server keeps are.                                        *)
(*                                                                         *)
(* TypeOK is not inductive by itself: that a queue stays well typed depends  *)
(* on what the messages that caused the new one were about, that a route is  *)
(* an agent's depends on the socket having been dialled, and that a call is  *)
(* asked of some agent depends on how far the call is.  TypeInv adds these.  *)
(*                                                                         *)
(* Nor are the properties of waiting calls.  That a disconnect finds those of its *)
(* agent through pending needs every waiting call to be routed: its socket   *)
(* speaks for the agent that was asked (CallsRouted), which in turn needs    *)
(* socketsByUuid and agentUuid to agree (Routes): the gateway sets them      *)
(* together and only ever to the agent that dialled the socket.              *)
(*                                                                         *)
(* OpeningInv follows a new connection, and KeepingInv what refers to a record. *)
(***************************************************************************)
EXTENDS AgentSystem, SequenceTheorems, TLAPS

(* The requests a message of each type may be about.                         *)
Names(type) ==
    CASE type \in {"container.command", "container.result"} -> Commands
      [] type \in {"container.inspect", "container.inspected"} -> Inspects
      [] type \in {"logs.subscribe", "logs.unsubscribe", "logs.chunk"} -> Streams
      [] OTHER -> {None}
Named(types) == {m \in Message(types) : m.req \in Names(m.type)}

(* Every message on its way is about a request of its own kind, or of none.  *)
MessagesNamed ==
    /\ up \in [Sockets -> Seq(Named(AgentMessage))]
    /\ down \in [Sockets -> Seq(Named(ServerMessage))]

(* A socket the server has work for was dialled by an agent, and an agent's  *)
(* current socket is its own.                                                *)
SocketsOwned ==
    /\ \A s \in Sockets :
          up[s] # <<>> \/ regTask[s] # "none" \/ hbTask[s] # "none" => owner[s] \in Agents
    /\ \A a \in Agents : sock[a] # None => owner[sock[a]] = a

(* A call on its way to the gateway is about some agent's host.              *)
CallsAddressed ==
    \A r \in Requests : call[r].state \in {"lookup", "found"} =>
        call[r].agent \in Agents /\ call[r].host \in HostIds

TypeInv ==
    /\ WireTypeOK /\ CachesTypeOK
    /\ DbTypeOK /\ ProcessTypeOK /\ RouteTypeOK /\ CallTypeOK /\ TaskTypeOK
    /\ AgentTypeOK
    /\ MessagesNamed /\ SocketsOwned /\ CallsAddressed

---------------------------------------------------------------------------
(* A queue stays well typed when it grows and when it is read. *)
LEMMA QueueType ==
    ASSUME NEW M, NEW q \in Seq(M), NEW m \in M
    PROVE  /\ Append(q, m) \in Seq(M)
           /\ Append(q, m) # <<>>
           /\ q # <<>> => Tail(q) \in Seq(M) /\ Head(q) \in M
BY AppendProperties, HeadTailProperties, EmptySeq

(* Both kinds of writes keep the queues well typed, whatever the socket. *)
LEMMA SendType ==
    ASSUME NEW M, NEW queues \in [Sockets -> Seq(M)], NEW s, NEW m \in M
    PROVE  /\ Send(queues, s, m) \in [Sockets -> Seq(M)]
           /\ Write(queues, s, m) \in [Sockets -> Seq(M)]
BY QueueType DEF Send, Write

(* The messages the two sides build are well typed and named. *)
LEMMA NamedType ==
    ASSUME NEW types, NEW type \in types, NEW r \in Names(type), NEW ok \in BOOLEAN,
           NEW v \in Nat
    PROVE  /\ About(type, r) \in Named(types)
           /\ [About(type, r) EXCEPT !.ok = ok] \in Named(types)
           /\ None \in Names(type) => Envelope(type) \in Named(types)
           /\ None \in Names(type) => [Envelope(type) EXCEPT !.ver = v] \in Named(types)
<1>1. r \in Requests \cup {None}
  BY DEF Names, Requests
<1>. QED
  BY <1>1 DEF Envelope, About, Named, Message

(* Named messages are messages. *)
LEMMA NamedIsMessage ==
    ASSUME NEW types, NEW queues \in [Sockets -> Seq(Named(types))]
    PROVE  queues \in [Sockets -> Seq(Message(types))]
BY SeqMonotonic DEF Named

(* A call record stays one when its state, or its outcome too, is set. *)
LEMMA CallUpdate ==
    ASSUME NEW f \in [Requests -> CallRecord], NEW r, NEW st \in CallStates, NEW ok \in BOOLEAN
    PROVE  /\ [f EXCEPT ![r].state = st, ![r].ok = ok] \in [Requests -> CallRecord]
           /\ [f EXCEPT ![r].state = st] \in [Requests -> CallRecord]
           /\ \A q \in Requests : [f[q] EXCEPT !.state = st] \in CallRecord
<1>1. \A q \in Requests : /\ [f[q] EXCEPT !.state = st, !.ok = ok] \in CallRecord
                          /\ [f[q] EXCEPT !.state = st] \in CallRecord
  BY DEF CallRecord
<1>. QED
  BY <1>1

(* An answer, awaited or late, keeps the calls well typed. *)
LEMMA ResolveType ==
    ASSUME CallTypeOK, CallsAddressed, NEW r, NEW ok \in BOOLEAN, Resolve(r, ok),
           UNCHANGED <<logSubscribers, viewers>>
    PROVE  CallTypeOK' /\ CallsAddressed'
<1>1. CallTypeOK'
  BY SMTT(30), CallUpdate DEF CallTypeOK, Resolve, CallStates
<1>2. CallsAddressed'
  BY DEF CallTypeOK, Resolve, CallsAddressed, CallRecord
<1>. QED
  BY <1>1, <1>2

(* A container list keeps the caches well typed. *)
LEMMA SetContainersType ==
    ASSUME CachesTypeOK, NEW a \in Agents, NEW v \in Nat, NEW own \in HostIds \cup {None},
           SetContainers(a, v, own), UNCHANGED <<metricsHost, metrics>>
    PROVE  CachesTypeOK'
BY DEF CachesTypeOK, SetContainers, Snapshot

(* A metrics sample keeps the caches well typed. *)
LEMMA SetMetricsType ==
    ASSUME CachesTypeOK, NEW a \in Agents, NEW own \in HostIds \cup {None},
           SetMetrics(a, own), UNCHANGED <<inventoryHost, inventory>>
    PROVE  CachesTypeOK'
BY DEF CachesTypeOK, SetMetrics

(* Indexing a host keeps the caches well typed. *)
LEMMA RememberType ==
    ASSUME CachesTypeOK, NEW a \in Agents, NEW h \in HostIds \cup {None},
           InventoryRemember(h, a),
           UNCHANGED metrics, UNCHANGED metricsHost \/ MetricsRemember(h, a)
    PROVE  CachesTypeOK'
BY DEF CachesTypeOK, InventoryRemember, MetricsRemember

(* A step keeps the part of the invariant about variables it leaves alone. *)
LEMMA Frame ==
    ASSUME TypeInv
    PROVE  /\ UNCHANGED wireVars => WireTypeOK' /\ MessagesNamed'
           /\ UNCHANGED cacheVars => CachesTypeOK'
           /\ UNCHANGED dbVars => DbTypeOK'
           /\ UNCHANGED processVars => ProcessTypeOK'
           /\ UNCHANGED routeVars => RouteTypeOK'
           /\ UNCHANGED callVars => CallTypeOK' /\ CallsAddressed'
           /\ UNCHANGED taskVars => TaskTypeOK'
           /\ UNCHANGED agentVars => AgentTypeOK'
BY DEF TypeInv, wireVars, cacheVars, dbVars, processVars, routeVars, callVars, taskVars,
   agentVars, WireTypeOK, MessagesNamed, CachesTypeOK, DbTypeOK, ProcessTypeOK, RouteTypeOK,
   CallTypeOK, CallsAddressed, TaskTypeOK, AgentTypeOK

(* The initial states satisfy the invariant. *)
LEMMA InitType == Init => TypeInv
<1>. SUFFICES ASSUME Init PROVE TypeInv
  OBVIOUS
<1>. USE DEF Init
<1>1. WireTypeOK /\ MessagesNamed
  BY EmptySeq DEF WireInit, WireTypeOK, MessagesNamed, ClientEnds, ServerEnds
<1>2. CachesTypeOK /\ AgentTypeOK
  BY DEF GatewayInit, CachesInit, CachesTypeOK, NoSnapshot, AgentInit, AgentTypeOK, NoEffect
<1>3. DbTypeOK /\ ProcessTypeOK /\ RouteTypeOK /\ CallTypeOK /\ TaskTypeOK
  BY DEF GatewayInit, DbTypeOK, ProcessTypeOK, RouteTypeOK, CallTypeOK, TaskTypeOK, NoRow,
     NoCall, CallRecord, CallStates
<1>4. SocketsOwned /\ CallsAddressed
  BY DEF WireInit, GatewayInit, AgentInit, SocketsOwned, CallsAddressed, NoCall
<1>. QED
  BY <1>1, <1>2, <1>3, <1>4 DEF TypeInv

(* The end of the server process keeps the invariant. *)
LEMMA ServerLostType ==
    ASSUME TypeInv, ServerLost, crashes' \in Nat, dbFaults' \in Nat, UNCHANGED agentVars
    PROVE  TypeInv'
<1>1. MessagesNamed' /\ WireTypeOK'
  BY EmptySeq, NamedIsMessage DEF TypeInv, MessagesNamed, WireTypeOK, ServerLost, ServerEnds
<1>2. CachesTypeOK' /\ DbTypeOK' /\ ProcessTypeOK' /\ RouteTypeOK' /\ TaskTypeOK'
  BY DEF TypeInv, DbTypeOK, ProcessTypeOK, RouteTypeOK, TaskTypeOK, CachesTypeOK,
     ServerLost, CachesForgotten, NoSnapshot
<1>3. CallTypeOK' 
  <2>1. "aborted" \in CallStates /\ call \in [Requests -> CallRecord]
    BY DEF TypeInv, CallTypeOK, CallStates
  <2>2. call' \in [Requests -> CallRecord]
    BY <2>1, CallUpdate DEF ServerLost
  <2>. QED
    BY <2>2 DEF TypeInv, CallTypeOK, ServerLost
<1>5. SocketsOwned' /\ CallsAddressed' /\ AgentTypeOK'
  BY Frame DEF TypeInv, SocketsOwned, CallsAddressed, CallTypeOK, ServerLost, agentVars,
     InProgress
<1>. QED
  BY <1>1, <1>2, <1>3, <1>5 DEF TypeInv

(* The handlers of the agents' messages keep the invariant. *)
LEMMA ReceiveType ==
    ASSUME TypeInv, UNCHANGED agentVars, NEW s \in Sockets, Receive(s)
    PROVE TypeInv'
<1>1. /\ up[s] # <<>> /\ up' = [up EXCEPT ![s] = Tail(@)]
      /\ UNCHANGED <<owner, clientEnd, serverEnd, down>>
  BY DEF Receive, ReceiveRegister, ReceiveHeartbeat, ReceiveListed, ReceiveMetrics,
     ReceiveResult, ReceiveInspected, ReceiveChunk, Consume, Arrives, gatewayVars
<1>2. MessagesNamed' /\ WireTypeOK'
  BY <1>1, QueueType, NamedIsMessage DEF TypeInv, WireTypeOK, MessagesNamed
<1>3. owner[s] \in Agents /\ Head(up[s]).ok \in BOOLEAN /\ Head(up[s]).ver \in Nat
  <2>1. Head(up[s]) \in Message(AgentMessage)
    BY <1>1, HeadTailProperties DEF TypeInv, WireTypeOK
  <2>. QED
    BY <1>1, <2>1 DEF TypeInv, SocketsOwned, Message
<1>4. AgentTypeOK' /\ DbTypeOK' /\ ProcessTypeOK'
  BY Frame DEF Receive, ReceiveRegister, ReceiveHeartbeat, ReceiveListed, ReceiveMetrics,
     ReceiveResult, ReceiveInspected, ReceiveChunk, gatewayVars
<1>5. SocketsOwned'
  BY <1>1, <1>3 DEF TypeInv, SocketsOwned, TaskTypeOK, agentVars, Receive, ReceiveRegister,
     ReceiveHeartbeat, ReceiveListed, ReceiveMetrics, ReceiveResult, ReceiveInspected,
     ReceiveChunk, gatewayVars, taskVars
<1>6. CachesTypeOK' /\ RouteTypeOK' /\ CallTypeOK' /\ TaskTypeOK' /\ CallsAddressed'
  <2>1. CASE ReceiveRegister(s)
    BY <2>1, Frame DEF ReceiveRegister, TypeInv, TaskTypeOK
  <2>2. CASE ReceiveHeartbeat(s)
    BY <2>2, <1>3, Frame DEF ReceiveHeartbeat, TypeInv, TaskTypeOK, RouteTypeOK
  <2>3. CASE ReceiveListed(s)
    <3>1. CachesTypeOK'
      BY <2>3, <1>3, SetContainersType, Frame DEF ReceiveListed, TypeInv, RouteTypeOK,
         cacheVars
    <3>. QED
      BY <2>3, <3>1, Frame DEF ReceiveListed
  <2>4. CASE ReceiveMetrics(s)
    BY <2>4, <1>3, SetMetricsType, Frame DEF ReceiveMetrics, TypeInv, RouteTypeOK
  <2>5. CASE ReceiveResult(s)
    BY <2>5, <1>3, ResolveType, Frame DEF ReceiveResult, TypeInv
  <2>6. CASE ReceiveInspected(s)
    BY <2>6, <1>3, ResolveType, Frame DEF ReceiveInspected, TypeInv
  <2>7. CASE ReceiveChunk(s)
    BY <2>7, Frame DEF ReceiveChunk, gatewayVars
  <2>. QED
    BY <2>1, <2>2, <2>3, <2>4, <2>5, <2>6, <2>7 DEF Receive
<1>. QED
  BY <1>2, <1>4, <1>5, <1>6 DEF TypeInv

(* So do the server's other steps for a socket. *)
LEMMA SocketStepType ==
    ASSUME TypeInv, UNCHANGED agentVars, NEW s \in Sockets, SocketStep(s)
    PROVE  TypeInv'
<1>1. CASE Receive(s)
  BY <1>1, ReceiveType
<1>2. CASE RegisterUpsert(s)
  <2>1. CASE UnhandledDbFault
    BY <2>1, ServerLostType DEF UnhandledDbFault, DbFault, TypeInv, ProcessTypeOK
  <2>2. CASE ~UnhandledDbFault
    <3>0. PICK h \in HostIds :
              /\ rows' = [rows EXCEPT ![owner[s]] =
                             [id |-> h, status |-> "ONLINE", recent |-> TRUE]]
              /\ usedIds' = usedIds \cup {h}
              /\ regTask' = [regTask EXCEPT ![s] = "resume"]
              /\ regId' = [regId EXCEPT ![s] = h]
              /\ UNCHANGED <<hbTask, offTask, deleting>>
      BY <1>2, <2>2 DEF RegisterUpsert, Upsert
    <3>1. DbTypeOK' /\ TaskTypeOK'
      BY <3>0 DEF TypeInv, DbTypeOK, TaskTypeOK
    <3>2. SocketsOwned'
      BY <1>2, <2>2 DEF RegisterUpsert, TypeInv, TaskTypeOK, SocketsOwned, wireVars,
         agentVars
    <3>. QED
      BY <1>2, <2>2, <3>1, <3>2, Frame DEF RegisterUpsert, TypeInv
  <2>. QED
    BY <2>1, <2>2
<1>3. CASE RegisterResume(s)
  <2>1. owner[s] \in Agents /\ regId[s] \in HostIds \cup {None}
    BY <1>3 DEF RegisterResume, TypeInv, SocketsOwned, TaskTypeOK
  <2>2. WireTypeOK' /\ MessagesNamed'
    <3>1. /\ Envelope("agent.registered") \in Named(ServerMessage)
          /\ Envelope("container.list") \in Named(ServerMessage)
      BY NamedType DEF Names, ServerMessage
    <3>2. down' \in [Sockets -> Seq(Named(ServerMessage))]
      BY <1>3, <3>1, SendType DEF RegisterResume, TypeInv, MessagesNamed
    <3>. QED
      BY <1>3, <3>2, NamedIsMessage DEF RegisterResume, TypeInv, MessagesNamed, WireTypeOK
  <2>3. CachesTypeOK'
    BY <1>3, <2>1, RememberType DEF RegisterResume, TypeInv
  <2>4. RouteTypeOK' /\ TaskTypeOK' /\ SocketsOwned'
    BY <1>3, <2>1 DEF RegisterResume, TypeInv, RouteTypeOK, TaskTypeOK, SocketsOwned,
       agentVars
  <2>. QED
    BY <1>3, <2>2, <2>3, <2>4, Frame DEF RegisterResume, TypeInv
<1>4. CASE HeartbeatFind(s)
  <2>1. CASE UnhandledDbFault
    BY <2>1, ServerLostType DEF UnhandledDbFault, DbFault, TypeInv, ProcessTypeOK
  <2>2. CASE ~UnhandledDbFault
    <3>1. TaskTypeOK' /\ SocketsOwned'
      BY <1>4, <2>2 DEF HeartbeatFind, TypeInv, TaskTypeOK, SocketsOwned, wireVars,
         agentVars
    <3>. QED
      BY <1>4, <2>2, <3>1, Frame DEF HeartbeatFind, TypeInv
  <2>. QED
    BY <2>1, <2>2
<1>5. CASE HeartbeatUpdate(s)
  <2>1. CASE UnhandledDbFault \/ (ServerLost /\ UNCHANGED <<crashes, dbFaults>>)
    BY <2>1, ServerLostType DEF UnhandledDbFault, DbFault, TypeInv, ProcessTypeOK
  <2>2. CASE ~UnhandledDbFault /\ HasRow(owner[s])
    <3>1. DbTypeOK'
      BY <1>5, <2>2 DEF HeartbeatUpdate, TypeInv, DbTypeOK
    <3>2. TaskTypeOK' /\ SocketsOwned'
      BY <1>5, <2>2 DEF HeartbeatUpdate, TypeInv, TaskTypeOK, SocketsOwned, wireVars,
         agentVars
    <3>. QED
      BY <1>5, <2>2, <3>1, <3>2, Frame DEF HeartbeatUpdate, TypeInv
  <2>3. UnhandledDbFault \/ (ServerLost /\ UNCHANGED <<crashes, dbFaults>>) \/ HasRow(owner[s])
    BY <1>5 DEF HeartbeatUpdate
  <2>. QED
    BY <2>1, <2>2, <2>3
<1>6. CASE SocketClosing(s)
  <2>1. WireTypeOK' /\ MessagesNamed' /\ SocketsOwned'
    BY <1>6 DEF SocketClosing, TypeInv, WireTypeOK, MessagesNamed, SocketsOwned, ServerEnds,
       gatewayVars, taskVars, agentVars
  <2>. QED
    BY <1>6, <2>1, Frame DEF SocketClosing, TypeInv, gatewayVars
<1>7. CASE SocketClosed(s)
  <2>1. WireTypeOK' /\ MessagesNamed' /\ SocketsOwned'
    <3>1. up' \in [Sockets -> Seq(Named(AgentMessage))]
      BY <1>7, EmptySeq DEF SocketClosed, TypeInv, MessagesNamed
    <3>. QED
      BY <1>7, <3>1, NamedIsMessage DEF SocketClosed, TypeInv, WireTypeOK, MessagesNamed,
         SocketsOwned, ServerEnds, agentVars
  <2>2. CASE agentUuid[s] = None
    BY <1>7, <2>1, <2>2, Frame DEF SocketClosed, HandleDisconnect, TypeInv, CallTypeOK,
       CallsAddressed, RouteTypeOK, TaskTypeOK
  <2>3. CASE agentUuid[s] # None
    <3>1. RouteTypeOK' /\ TaskTypeOK'
      BY <1>7, <2>3 DEF SocketClosed, HandleDisconnect, TypeInv, RouteTypeOK, TaskTypeOK
    <3>2. call' \in [Requests -> CallRecord]
      <4>1. "disconnected" \in CallStates /\ call \in [Requests -> CallRecord]
        BY DEF CallStates, TypeInv, CallTypeOK
      <4>2. call' = [r \in Requests |-> IF r \in {q \in Calls : pending[q] = agentUuid[s]}
                                        THEN [call[r] EXCEPT !.state = "disconnected"]
                                        ELSE call[r]]
        BY <1>7, <2>3 DEF SocketClosed, HandleDisconnect
      <4>. QED
        BY <4>1, <4>2, CallUpdate
    <3>3. CallTypeOK' /\ CallsAddressed'
      BY <1>7, <2>3, <3>2 DEF SocketClosed, HandleDisconnect, TypeInv, CallTypeOK,
         CallsAddressed, CallRecord
    <3>. QED
      BY <1>7, <2>1, <3>1, <3>3, Frame DEF SocketClosed, TypeInv
  <2>. QED
    BY <2>2, <2>3
<1>8. CASE MarkOffline(s)
  <2>1. DbTypeOK' /\ ProcessTypeOK' /\ TaskTypeOK'
    BY SMTT(30), <1>8 DEF MarkOffline, DbFault, TypeInv, DbTypeOK, ProcessTypeOK, TaskTypeOK
  <2>2. SocketsOwned'
    BY <1>8 DEF MarkOffline, TypeInv, SocketsOwned, wireVars, agentVars
  <2>. QED
    BY <1>8, <2>1, <2>2, Frame DEF MarkOffline, TypeInv
<1>. QED
  BY <1>1, <1>2, <1>3, <1>4, <1>5, <1>6, <1>7, <1>8 DEF SocketStep, Registration,
     HeartbeatTask

(* Refusing a call keeps the calls well typed. *)
LEMMA RefuseType ==
    ASSUME CallTypeOK, CallsAddressed, NEW r \in Requests, NEW why \in Refusals,
           Refuse(r, why), UNCHANGED <<pending, timers, logSubscribers>>
    PROVE  CallTypeOK' /\ CallsAddressed'
<1>1. why \in CallStates /\ why \notin {"lookup", "found"}
  BY DEF CallStates, Refusals
<1>2. call' \in [Requests -> CallRecord]
  BY <1>1, CallUpdate DEF Refuse, CallTypeOK
<1>. QED
  BY <1>1, <1>2 DEF Refuse, CallTypeOK, CallsAddressed, CallRecord

(* Sending a command or an inspect keeps the invariant, and so does refusing it. *)
LEMMA AskType ==
    ASSUME TypeInv, UNCHANGED agentVars, NEW r \in Calls,
           NEW type \in ServerMessage, r \in Names(type), Ask(r, type)
    PROVE  TypeInv'
<1>. DEFINE a == call[r].agent
            s == socketsByUuid[a]
<1>1. r \in Requests /\ a \in Agents /\ call[r].host \in HostIds
  BY DEF Ask, TypeInv, CallsAddressed, Calls, Requests
<1>2. CachesTypeOK'
  BY <1>1, RememberType DEF Ask, TypeInv
<1>3. SocketsOwned'
  BY DEF Ask, TypeInv, SocketsOwned, taskVars, agentVars
<1>4. CASE Reachable(a)
  <2>1. s \in Sockets
    BY <1>1, <1>4 DEF Reachable, TypeInv, RouteTypeOK
  <2>2. down' \in [Sockets -> Seq(Named(ServerMessage))]
    <3>1. About(type, r) \in Named(ServerMessage)
      BY NamedType
    <3>2. down' = Send(down, s, About(type, r))
      BY <1>4 DEF Ask
    <3>. QED
      BY <3>1, <3>2, SendType DEF TypeInv, MessagesNamed
  <2>3. WireTypeOK' /\ MessagesNamed'
    BY <2>2, NamedIsMessage DEF Ask, TypeInv, WireTypeOK, MessagesNamed
  <2>4. /\ pending' = [pending EXCEPT ![r] = a]
        /\ timers' = timers \cup {r}
        /\ call' = [call EXCEPT ![r].state = "waiting", ![r].sock = s]
        /\ UNCHANGED <<viewers, logSubscribers>>
    BY <1>4 DEF Ask
  <2>5. call' \in [Requests -> CallRecord]
    BY ZenonT(30), <2>1, <2>4 DEF TypeInv, CallTypeOK, CallRecord, CallStates, InProgress
  <2>6. CallTypeOK' /\ CallsAddressed'
    BY <1>1, <2>4, <2>5 DEF TypeInv, CallTypeOK, CallsAddressed, CallRecord
  <2>. QED
    BY <1>2, <1>3, <2>3, <2>6, Frame DEF Ask, TypeInv
<1>5. CASE ~Reachable(a)
  <2>1. Refuse(r, "refused") /\ UNCHANGED <<pending, timers, down, logSubscribers>>
    BY <1>5 DEF Ask
  <2>2. CallTypeOK' /\ CallsAddressed'
    BY <1>1, <2>1, RefuseType, "refused" \in Refusals DEF TypeInv, Refusals
  <2>3. WireTypeOK' /\ MessagesNamed'
    BY <2>1, Frame DEF Ask, wireVars
  <2>. QED
    BY <1>2, <1>3, <2>2, <2>3, Frame DEF Ask, TypeInv
<1>. QED
  BY <1>4, <1>5

(* The server's steps for a call keep the invariant. *)
LEMMA CallStepType ==
    ASSUME TypeInv, UNCHANGED agentVars, NEW r \in Requests, CallStep(r)
    PROVE  TypeInv'
<1>1. ASSUME NEW a \in Agents, BeginCall(r, a)
      PROVE  TypeInv'
  <2>1. rows[a].id \in HostIds
    BY <1>1 DEF BeginCall, HasRow, TypeInv, DbTypeOK
  <2>2. call' \in [Requests -> CallRecord]
    BY <1>1, <2>1 DEF BeginCall, TypeInv, CallTypeOK, CallRecord, NoCall, CallStates,
       InProgress
  <2>3. CallTypeOK' /\ CallsAddressed'
    BY <1>1, <2>1, <2>2 DEF BeginCall, TypeInv, CallTypeOK, CallsAddressed, NoCall
  <2>4. SocketsOwned'
    BY <1>1 DEF BeginCall, TypeInv, SocketsOwned, taskVars, wireVars, agentVars
  <2>. QED
    BY <1>1, <2>3, <2>4, Frame DEF BeginCall, TypeInv
<1>2. CASE LookupHost(r)
  <2>1. CallTypeOK' /\ CallsAddressed'
    <3>1. CASE call' = [call EXCEPT ![r].state = "found"] /\ UNCHANGED viewers
      <4>1. call' \in [Requests -> CallRecord]
        BY <3>1, CallUpdate DEF TypeInv, CallTypeOK, CallStates, InProgress
      <4>. QED
        BY <1>2, <3>1, <4>1 DEF LookupHost, TypeInv, CallTypeOK, CallsAddressed, CallRecord
    <3>2. CASE Refuse(r, "notfound") \/ Refuse(r, "failed")
      BY <1>2, <3>2, RefuseType DEF LookupHost, TypeInv, Refusals
    <3>. QED
      BY <1>2, <3>1, <3>2 DEF LookupHost
  <2>2. SocketsOwned' /\ ProcessTypeOK'
    BY <1>2 DEF LookupHost, DbFault, TypeInv, ProcessTypeOK, SocketsOwned, taskVars,
       wireVars, agentVars
  <2>. QED
    BY <1>2, <2>1, <2>2, Frame DEF LookupHost, TypeInv
<1>3. CASE SendContainerCommand(r) \/ InspectContainer(r)
  <2>1. /\ r \in Commands => r \in Names("container.command")
        /\ r \in Inspects => r \in Names("container.inspect")
        /\ {"container.command", "container.inspect"} \subseteq ServerMessage
    BY DEF Names, ServerMessage
  <2>. QED
    BY <1>3, <2>1, AskType DEF SendContainerCommand, InspectContainer, Calls
<1>4. CASE StartLogStream(r)
  <2>. DEFINE a == call[r].agent
              s == socketsByUuid[a]
  <2>1. a \in Agents /\ call[r].host \in HostIds
    BY <1>4 DEF StartLogStream, TypeInv, CallsAddressed
  <2>2. CachesTypeOK' /\ SocketsOwned'
    BY <1>4, <2>1, RememberType DEF StartLogStream, TypeInv, SocketsOwned, taskVars,
       agentVars
  <2>3. CASE Reachable(a)
    <3>1. /\ s \in Sockets
          /\ logSubscribers' = [logSubscribers EXCEPT ![r] = a]
          /\ call' = [call EXCEPT ![r].state = "live", ![r].sock = s]
          /\ down' = Send(down, s, About("logs.subscribe", r))
          /\ UNCHANGED <<viewers, pending, timers>>
      BY <1>4, <2>1, <2>3 DEF StartLogStream, Reachable, TypeInv, RouteTypeOK
    <3>2. About("logs.subscribe", r) \in Named(ServerMessage)
      BY <1>4, NamedType DEF StartLogStream, Names, ServerMessage
    <3>3. WireTypeOK' /\ MessagesNamed'
      <4>1. down' \in [Sockets -> Seq(Named(ServerMessage))]
        BY <3>1, <3>2, SendType DEF TypeInv, MessagesNamed
      <4>. QED
        BY <1>4, <4>1, NamedIsMessage DEF StartLogStream, TypeInv, WireTypeOK, MessagesNamed
    <3>4. call' \in [Requests -> CallRecord]
      BY ZenonT(30), <3>1 DEF TypeInv, CallTypeOK, CallRecord, CallStates, InProgress
    <3>5. CallTypeOK' /\ CallsAddressed'
      BY <2>1, <3>1, <3>4 DEF TypeInv, CallTypeOK, CallsAddressed, CallRecord
    <3>. QED
      BY <1>4, <2>2, <3>3, <3>5, Frame DEF StartLogStream, TypeInv
  <2>4. CASE ~Reachable(a)
    <3>1. Refuse(r, "refused") /\ UNCHANGED <<pending, timers, down, logSubscribers>>
      BY <1>4, <2>4 DEF StartLogStream
    <3>2. CallTypeOK' /\ CallsAddressed'
      BY <3>1, RefuseType, "refused" \in Refusals DEF TypeInv, Refusals
    <3>3. WireTypeOK' /\ MessagesNamed'
      BY <1>4, <3>1, Frame DEF StartLogStream, wireVars
    <3>. QED
      BY <1>4, <2>2, <3>2, <3>3, Frame DEF StartLogStream, TypeInv
  <2>. QED
    BY <2>3, <2>4
<1>5. CASE CallTimeout(r)
  <2>1. call' \in [Requests -> CallRecord]
    BY <1>5, CallUpdate DEF CallTimeout, TypeInv, CallTypeOK, CallStates
  <2>2. CallTypeOK' /\ CallsAddressed'
    BY <1>5, <2>1 DEF CallTimeout, TypeInv, CallTypeOK, CallsAddressed, CallRecord
  <2>3. SocketsOwned'
    BY <1>5 DEF CallTimeout, TypeInv, SocketsOwned, taskVars, wireVars, agentVars
  <2>. QED
    BY <1>5, <2>2, <2>3, Frame DEF CallTimeout, TypeInv
<1>6. CASE CloseViewer(r)
  <2>1. CASE call[r].state = "live"
    <3>1. r \in Streams
      BY <1>6 DEF CloseViewer, TypeInv, CallTypeOK
    <3>2. WireTypeOK' /\ MessagesNamed'
      <4>1. About("logs.unsubscribe", r) \in Named(ServerMessage)
        BY <3>1, NamedType DEF Names, ServerMessage
      <4>2. down' \in [Sockets -> Seq(Named(ServerMessage))]
        <5>1. \/ down' = down
              \/ \E s : down' = Send(down, s, About("logs.unsubscribe", r))
          BY <1>6, <2>1 DEF CloseViewer, StopLogStream
        <5>2. down \in [Sockets -> Seq(Named(ServerMessage))]
          BY DEF TypeInv, MessagesNamed
        <5>. QED
          BY <4>1, <5>1, <5>2, SendType
      <4>. QED
        BY <1>6, <4>2, NamedIsMessage DEF CloseViewer, TypeInv, WireTypeOK, MessagesNamed
    <3>3. call' \in [Requests -> CallRecord]
      <4>1. call' = [call EXCEPT ![r].state = "closed"] /\ "closed" \in CallStates
        BY <1>6, <2>1 DEF CloseViewer, CallStates
      <4>. QED
        BY <4>1, CallUpdate DEF TypeInv, CallTypeOK
    <3>4. CallTypeOK' /\ CallsAddressed'
      BY <1>6, <2>1, <3>3 DEF CloseViewer, StopLogStream, TypeInv, CallTypeOK,
         CallsAddressed, CallRecord
    <3>5. SocketsOwned'
      BY <1>6 DEF CloseViewer, TypeInv, SocketsOwned, taskVars, agentVars
    <3>. QED
      BY <1>6, <3>2, <3>4, <3>5, Frame DEF CloseViewer, TypeInv
  <2>2. CASE call[r].state # "live"
    <3>1. CallTypeOK' /\ CallsAddressed' /\ SocketsOwned'
      BY <1>6, <2>2 DEF CloseViewer, TypeInv, CallTypeOK, CallsAddressed, SocketsOwned,
         taskVars, agentVars
    <3>. QED
      BY <1>6, <2>2, <3>1, Frame DEF CloseViewer, TypeInv, wireVars
  <2>. QED
    BY <2>1, <2>2
<1>. QED
  BY <1>1, <1>2, <1>3, <1>4, <1>5, <1>6 DEF CallStep, Dispatch

(* The deletion of a host keeps the invariant. *)
LEMMA HostStepType ==
    ASSUME TypeInv, UNCHANGED agentVars, NEW a \in Agents, HostStep(a)
    PROVE  TypeInv'
<1>1. DbTypeOK' /\ TaskTypeOK'
  <2>1. CASE DeleteHostCheck(a)
    BY <2>1, Frame DEF DeleteHostCheck, TypeInv, DbTypeOK, TaskTypeOK
  <2>2. CASE DeleteHostCommit(a)
    BY <2>2 DEF DeleteHostCommit, TypeInv, DbTypeOK, TaskTypeOK, NoRow
  <2>3. CASE SevenDaysPass(a)
    BY <2>3, Frame DEF SevenDaysPass, TypeInv, DbTypeOK
  <2>. QED
    BY <2>1, <2>2, <2>3 DEF HostStep
<1>2. /\ UNCHANGED <<processVars, routeVars, callVars, cacheVars, wireVars>>
      /\ UNCHANGED <<regTask, hbTask>>
  BY DEF HostStep, DeleteHostCheck, DeleteHostCommit, SevenDaysPass, taskVars
<1>3. SocketsOwned'
  BY <1>2 DEF TypeInv, SocketsOwned, wireVars, agentVars
<1>. QED
  BY <1>1, <1>2, <1>3, Frame DEF TypeInv

(* Every step of the server keeps the invariant. *)
LEMMA GatewayType ==
    ASSUME TypeInv, GatewayNext, UNCHANGED agentVars
    PROVE  TypeInv'
<1>1. CASE ServerCrash
  BY <1>1, ServerLostType DEF ServerCrash, TypeInv, ProcessTypeOK
<1>2. CASE ServerStart
  <2>1. ProcessTypeOK' /\ SocketsOwned'
    BY <1>2 DEF ServerStart, TypeInv, ProcessTypeOK, SocketsOwned, taskVars, wireVars,
       agentVars
  <2>. QED
    BY <1>2, <2>1, Frame DEF ServerStart, TypeInv
<1>. QED
  BY <1>1, <1>2, SocketStepType, CallStepType, HostStepType DEF GatewayNext

---------------------------------------------------------------------------
(* An agent's step keeps the server's part of the invariant. *)
LEMMA GatewayFrame ==
    ASSUME TypeInv, UNCHANGED gatewayVars
    PROVE  /\ CachesTypeOK' /\ DbTypeOK' /\ ProcessTypeOK' /\ RouteTypeOK' /\ CallTypeOK'
           /\ TaskTypeOK' /\ CallsAddressed'
           /\ UNCHANGED <<regTask, hbTask>>
BY Frame DEF gatewayVars, taskVars

(* What an agent takes from its socket is a message of the type it looked for. *)
LEMMA TakeType ==
    ASSUME TypeInv, NEW a \in Agents, NEW type, Delivered(a, type)
    PROVE  /\ sock[a] \in Sockets /\ down[sock[a]] # <<>>
           /\ Head(down[sock[a]]) \in Named(ServerMessage)
           /\ Head(down[sock[a]]).req \in Names(type)
           /\ Take(down, a) \in [Sockets -> Seq(Named(ServerMessage))]
<1>1. sock[a] \in Sockets /\ down[sock[a]] # <<>> /\ Head(down[sock[a]]).type = type
  BY DEF Delivered, TypeInv, AgentTypeOK
<1>2. down[sock[a]] \in Seq(Named(ServerMessage))
  BY <1>1 DEF TypeInv, MessagesNamed
<1>3. /\ Head(down[sock[a]]) \in Named(ServerMessage)
      /\ Tail(down[sock[a]]) \in Seq(Named(ServerMessage))
  BY <1>1, <1>2, HeadTailProperties
<1>. QED
  BY <1>1, <1>3 DEF Take, TypeInv, MessagesNamed, Named

(* What an agent writes keeps the queues well typed and owned. *)
LEMMA WriteType ==
    ASSUME TypeInv, UNCHANGED <<owner, clientEnd, serverEnd, sock, regTask, hbTask>>,
           NEW a \in Agents, NEW m \in Named(AgentMessage),
           up' \in {up, Write(up, sock[a], m)},
           down' \in [Sockets -> Seq(Named(ServerMessage))]
    PROVE  WireTypeOK' /\ MessagesNamed' /\ SocketsOwned'
<1>1. up' \in [Sockets -> Seq(Named(AgentMessage))]
  <2>1. up \in [Sockets -> Seq(Named(AgentMessage))]
    BY DEF TypeInv, MessagesNamed
  <2>. QED
    BY <2>1, SendType
<1>2. \A s \in Sockets : up'[s] # <<>> => up[s] # <<>> \/ s = sock[a]
  BY DEF Write, TypeInv, MessagesNamed
<1>. QED
  BY <1>1, <1>2, NamedIsMessage, WireAssumption DEF TypeInv, WireTypeOK, MessagesNamed,
     SocketsOwned

(* The end of a session keeps the invariant. *)
LEMMA DisconnectType ==
    ASSUME TypeInv, UNCHANGED gatewayVars, NEW a \in Agents,
           NEW next \in {"waiting", "stopped"},
           NEW end \in {"closed", "lost"}, Disconnect(a, next, end)
    PROVE  TypeInv'
<1>1. MessagesNamed'
  BY EmptySeq DEF Disconnect, TypeInv, MessagesNamed
<1>2. WireTypeOK'
  BY <1>1, NamedIsMessage DEF Disconnect, TypeInv, WireTypeOK, MessagesNamed, ClientEnds
<1>3. AgentTypeOK'
  BY DEF Disconnect, TypeInv, AgentTypeOK
<1>4. SocketsOwned'
  BY GatewayFrame DEF Disconnect, TypeInv, SocketsOwned, AgentTypeOK
<1>. QED
  BY <1>1, <1>2, <1>3, <1>4, GatewayFrame DEF TypeInv

(* Carrying out a call keeps the invariant. *)
LEMMA CarryOutType ==
    ASSUME TypeInv, UNCHANGED gatewayVars, NEW a \in Agents, NEW type, Serves(a, type),
           NEW answer \in AgentMessage, Names(answer) = Names(type), NEW ok \in BOOLEAN,
           CarryOut(a, Head(down[sock[a]]).req, ok, answer),
           docker' \in [Agents -> Nat], changed' \in [Agents -> BOOLEAN]
    PROVE  TypeInv'
<1>. DEFINE r == Head(down[sock[a]]).req
<1>1. r \in Names(answer) /\ down' \in [Sockets -> Seq(Named(ServerMessage))]
  BY TakeType DEF Serves, CarryOut
<1>2. [About(answer, r) EXCEPT !.ok = ok] \in Named(AgentMessage)
  BY <1>1, NamedType
<1>3. WireTypeOK' /\ MessagesNamed' /\ SocketsOwned'
  BY <1>1, <1>2, WriteType, GatewayFrame DEF CarryOut
<1>4. effect' \in [Requests -> [count : Nat, agent : Agents \cup {None}, ok : BOOLEAN]]
  <2>. DEFINE Effect == [count : Nat, agent : Agents \cup {None}, ok : BOOLEAN]
              e == [count |-> effect[r].count + 1, agent |-> a, ok |-> ok]
  <2>1. effect \in [Requests -> Effect] /\ effect' = [effect EXCEPT ![r] = e]
    BY DEF CarryOut, TypeInv, AgentTypeOK
  <2>2. r \in Requests => e \in Effect
    BY <2>1
  <2>. QED
    BY <2>1, <2>2
<1>. QED
  BY <1>3, <1>4, GatewayFrame DEF CarryOut, TypeInv, AgentTypeOK

(* Every step of an agent keeps the invariant. *)
LEMMA AgentType ==
    ASSUME TypeInv, UNCHANGED gatewayVars, NEW a \in Agents, AgentStep(a)
    PROVE  TypeInv'
<1>0. /\ Envelope("agent.register") \in Named(AgentMessage)
      /\ Envelope("agent.heartbeat") \in Named(AgentMessage)
      /\ Envelope("metrics.host") \in Named(AgentMessage)
      /\ Listed(a) \in Named(AgentMessage)
      /\ \A r \in Streams : About("logs.chunk", r) \in Named(AgentMessage)
  BY NamedType DEF Names, AgentMessage, Listed, TypeInv, AgentTypeOK
<1>1. CASE Reconnect(a)
  <2>1. PICK s \in Sockets : Dial(a, s)
    BY <1>1 DEF Reconnect
  <2>2. up' \in [Sockets -> Seq(Named(AgentMessage))]
    BY <1>0, <2>1, QueueType, EmptySeq DEF Dial, TypeInv, MessagesNamed
  <2>3. WireTypeOK' /\ MessagesNamed'
    BY <2>1, <2>2, NamedIsMessage DEF Dial, TypeInv, WireTypeOK, MessagesNamed, ClientEnds,
       ServerEnds
  <2>4. SocketsOwned' /\ AgentTypeOK'
    BY <2>1, GatewayFrame, WireAssumption DEF Dial, TypeInv, SocketsOwned, AgentTypeOK,
       WireTypeOK, MessagesNamed, engineVars, Connected
  <2>. QED
    BY <2>3, <2>4, GatewayFrame DEF TypeInv
<1>2. CASE Registered(a)
  BY <1>0, <1>2, TakeType, WriteType, GatewayFrame DEF Registered, TypeInv, AgentTypeOK,
     engineVars, Connected
<1>3. CASE RegisterTimeout(a) \/ SessionFails(a) \/ Stop(a) \/ (a \in Fragile /\ Vanish(a))
  BY <1>3, DisconnectType DEF RegisterTimeout, SessionFails, Stop, Vanish
<1>4. CASE Heartbeat(a) \/ HostMetrics(a) \/ \E r \in Streams : EmitLogChunk(a, r)
  <2>1. PICK m \in Named(AgentMessage) : Report(a, m)
    BY <1>0, <1>4 DEF Heartbeat, HostMetrics, EmitLogChunk
  <2>2. WireTypeOK' /\ MessagesNamed' /\ SocketsOwned'
    BY <2>1, WriteType, GatewayFrame DEF Report, TypeInv, MessagesNamed
  <2>. QED
    BY <2>1, <2>2, GatewayFrame DEF Report, TypeInv, AgentTypeOK, engineVars
<1>5. CASE HandleContainerList(a)
  BY <1>0, <1>5, TakeType, WriteType, GatewayFrame DEF HandleContainerList, Serves, TypeInv,
     AgentTypeOK, engineVars
<1>6. CASE PushContainers(a)
  <2>1. WireTypeOK' /\ MessagesNamed' /\ SocketsOwned'
    BY <1>0, <1>6, WriteType, GatewayFrame DEF PushContainers, TypeInv, MessagesNamed
  <2>. QED
    BY <1>6, <2>1, GatewayFrame DEF PushContainers, TypeInv, AgentTypeOK
<1>7. CASE HandleContainerCommand(a)
  <2>1. PICK ok \in BOOLEAN :
           /\ CarryOut(a, Head(down[sock[a]]).req, ok, "container.result")
           /\ docker' = [docker EXCEPT ![a] = IF ok THEN @ + 1 ELSE @]
           /\ changed' \in {changed, [changed EXCEPT ![a] = TRUE]}
    BY <1>7 DEF HandleContainerCommand
  <2>2. docker' \in [Agents -> Nat] /\ changed' \in [Agents -> BOOLEAN]
    <3>1. docker \in [Agents -> Nat] /\ changed \in [Agents -> BOOLEAN]
      BY DEF TypeInv, AgentTypeOK
    <3>2. (IF ok THEN docker[a] + 1 ELSE docker[a]) \in Nat
      BY <3>1
    <3>. QED
      BY <2>1, <3>1, <3>2
  <2>. QED
    BY <1>7, <2>1, <2>2, CarryOutType DEF HandleContainerCommand, Names, AgentMessage
<1>8. CASE HandleContainerInspect(a)
  <2>1. docker' \in [Agents -> Nat] /\ changed' \in [Agents -> BOOLEAN]
    BY <1>8 DEF HandleContainerInspect, TypeInv, AgentTypeOK
  <2>. QED
    BY <1>8, <2>1, CarryOutType DEF HandleContainerInspect, Names, AgentMessage
<1>9. CASE HandleLogsSubscribe(a) \/ HandleLogsUnsubscribe(a)
  <2>1. /\ Head(down[sock[a]]).req \in Streams
        /\ down' \in [Sockets -> Seq(Named(ServerMessage))]
    BY <1>9, TakeType DEF HandleLogsSubscribe, HandleLogsUnsubscribe, Serves, Names
  <2>2. WireTypeOK' /\ MessagesNamed' /\ SocketsOwned'
    BY <1>0, <1>9, <2>1, WriteType, GatewayFrame DEF HandleLogsSubscribe,
       HandleLogsUnsubscribe
  <2>3. AgentTypeOK'
    <3>. DEFINE r == Head(down[sock[a]]).req
    <3>1. /\ logStreams' \in {[logStreams EXCEPT ![a] = @ \cup {r}],
                             [logStreams EXCEPT ![a] = @ \ {r}]}
          /\ logReaders' \in {[logReaders EXCEPT ![a] = @ \cup {r}],
                             [logReaders EXCEPT ![a] = @ \ {r}]}
          /\ UNCHANGED <<session, sock, engineVars>>
      BY <1>9 DEF HandleLogsSubscribe, HandleLogsUnsubscribe
    <3>2. \A streams \in [Agents -> SUBSET Streams] :
              /\ [streams EXCEPT ![a] = @ \cup {r}] \in [Agents -> SUBSET Streams]
              /\ [streams EXCEPT ![a] = @ \ {r}] \in [Agents -> SUBSET Streams]
      BY <2>1
    <3>. QED
      BY <3>1, <3>2 DEF TypeInv, AgentTypeOK, engineVars
  <2>. QED
    BY <2>2, <2>3, GatewayFrame DEF TypeInv
<1>10. CASE ContainersChange(a) \/ Start(a) \/ \E r \in Streams : StreamEnds(a, r)
  <2>1. UNCHANGED <<wireVars, sock>>
    BY <1>10 DEF ContainersChange, Start, StreamEnds
  <2>2. SocketsOwned' /\ WireTypeOK' /\ MessagesNamed'
    BY <2>1, GatewayFrame, Frame DEF TypeInv, SocketsOwned, wireVars
  <2>3. AgentTypeOK'
    <3>1. CASE ContainersChange(a)
      <4>1. /\ docker' = [docker EXCEPT ![a] = docker[a] + 1]
            /\ changed' \in {changed, [changed EXCEPT ![a] = TRUE]}
            /\ UNCHANGED <<session, sock, effect, logStreams, logReaders>>
        BY <3>1 DEF ContainersChange
      <4>2. docker[a] + 1 \in Nat
        BY DEF TypeInv, AgentTypeOK
      <4>. QED
        BY <4>1, <4>2 DEF TypeInv, AgentTypeOK
    <3>2. CASE Start(a)
      BY <3>2 DEF Start, TypeInv, AgentTypeOK, engineVars
    <3>3. CASE \E r \in Streams : StreamEnds(a, r)
      BY <3>3 DEF StreamEnds, TypeInv, AgentTypeOK, engineVars
    <3>. QED
      BY <1>10, <3>1, <3>2, <3>3
  <2>. QED
    BY <2>2, <2>3, GatewayFrame DEF TypeInv
<1>. QED
  BY <1>1, <1>2, <1>3, <1>4, <1>5, <1>6, <1>7, <1>8, <1>9, <1>10 DEF AgentStep,
     HandleMessage

(* Every step of the system keeps the invariant. *)
LEMMA TypeStep == TypeInv /\ [Next]_vars => TypeInv'
<1>. SUFFICES ASSUME TypeInv, [Next]_vars
              PROVE  TypeInv'
  OBVIOUS
<1>1. CASE GatewayNext /\ UNCHANGED agentVars
  BY <1>1, GatewayType
<1>2. CASE AgentNext /\ UNCHANGED gatewayVars
  BY <1>2, AgentType DEF AgentNext
<1>3. CASE UNCHANGED vars
  <2>1. UNCHANGED <<wireVars, gatewayVars, agentVars>>
    BY <1>3 DEF vars
  <2>2. SocketsOwned'
    BY <2>1, GatewayFrame DEF TypeInv, SocketsOwned, wireVars, agentVars
  <2>. QED
    BY <2>1, <2>2, GatewayFrame, Frame DEF TypeInv
<1>. QED
  BY <1>1, <1>2, <1>3 DEF Next

(* Every state the server and the agents reach is well typed: in particular a
   message is only ever handled as what it is, and a record, a route, a call
   or a queue never holds a value of another kind. *)
THEOREM TypeCorrect == Spec => []TypeOK
<1>1. TypeInv => TypeOK
  BY DEF TypeInv, TypeOK, GatewayTypeOK
<1>. QED
  BY <1>1, InitType, TypeStep, PTL DEF Spec

---------------------------------------------------------------------------
(* The life of routes and of waiting calls.                                 *)

(* What a socket speaks for is the agent that dialled it, and the socket an *)
(* agent is reached on speaks for it.                                       *)
Routes ==
    /\ \A s \in Sockets : agentUuid[s] # None => agentUuid[s] = owner[s]
    /\ \A a \in Agents : socketsByUuid[a] # None => agentUuid[socketsByUuid[a]] = a

(* A waiting call was sent on a socket that speaks for the agent asked, and *)
(* whose close was not handled yet.                                         *)
CallsRouted ==
    \A r \in Calls : call[r].state = "waiting" =>
        /\ call[r].sock \in Sockets
        /\ call[r].agent \in Agents
        /\ agentUuid[call[r].sock] = call[r].agent
        /\ serverEnd[call[r].sock] \in {"open", "closing"}

RouteInv == TypeInv /\ Routes /\ WaitingIsTimed /\ CallsRouted

---------------------------------------------------------------------------
(* A step keeps the parts about variables it leaves alone.                  *)
LEMMA RouteFrame ==
    ASSUME RouteInv
    PROVE  /\ UNCHANGED <<owner, routeVars>> => Routes'
           /\ UNCHANGED <<pending, timers, call>> => WaitingIsTimed'
           /\ UNCHANGED <<agentUuid, serverEnd, call>> => CallsRouted'
BY DEF RouteInv, Routes, WaitingIsTimed, CallsRouted, routeVars

(* Initially nothing is routed and nothing waits.                           *)
LEMMA RouteInit == Init => Routes /\ WaitingIsTimed /\ CallsRouted
BY DEF Init, GatewayInit, Routes, WaitingIsTimed, CallsRouted, NoCall, Calls, Requests

(* After the end of the server process no call waits.                       *)
LEMMA ServerLostRoute ==
    ASSUME RouteInv, ServerLost
    PROVE  Routes' /\ WaitingIsTimed' /\ CallsRouted'
<1>1. \A r \in Calls : call'[r].state # "waiting"
  BY DEF ServerLost, RouteInv, TypeInv, CallTypeOK, CallRecord, InProgress, Calls, Requests
<1>. QED
  BY <1>1 DEF ServerLost, Routes, WaitingIsTimed, CallsRouted

(* Registering, and a heartbeat, route an agent to the socket it dialled.   *)
LEMMA RouteSet ==
    ASSUME RouteInv, NEW s \in Sockets, owner[s] \in Agents,
           agentUuid' = [agentUuid EXCEPT ![s] = owner[s]],
           socketsByUuid' = [socketsByUuid EXCEPT ![owner[s]] = s],
           UNCHANGED <<owner, serverEnd, pending, timers, call>>
    PROVE  Routes' /\ WaitingIsTimed' /\ CallsRouted'
<1>1. Routes'
  BY WireAssumption DEF RouteInv, Routes, TypeInv, RouteTypeOK
<1>2. CallsRouted'
  BY WireAssumption DEF RouteInv, Routes, CallsRouted, TypeInv, RouteTypeOK
<1>. QED
  BY <1>1, <1>2, RouteFrame

(* An answer ends the wait of its call, a late one changes nothing.         *)
LEMMA ResolveRoute ==
    ASSUME RouteInv, NEW r \in Calls, NEW ok, Resolve(r, ok),
           UNCHANGED <<owner, serverEnd, routeVars>>
    PROVE  Routes' /\ WaitingIsTimed' /\ CallsRouted'
<1>1. WaitingIsTimed'
  BY DEF Resolve, RouteInv, WaitingIsTimed, TypeInv, CallTypeOK, CallRecord, Calls, Requests
<1>2. CallsRouted'
  BY DEF Resolve, RouteInv, CallsRouted, TypeInv, CallTypeOK, CallRecord, Calls, Requests,
     routeVars
<1>. QED
  BY <1>1, <1>2, RouteFrame

(* handleDisconnect ends the wait of every call sent on the closed socket,  *)
(* because each is pending on the agent the socket speaks for.              *)
LEMMA SocketClosedRoute ==
    ASSUME RouteInv, NEW s \in Sockets, SocketClosed(s)
    PROVE  Routes' /\ WaitingIsTimed' /\ CallsRouted'
<1>1. CASE agentUuid[s] = None
  <2>1. UNCHANGED <<socketsByUuid, agentUuid, owner, pending, timers, call>>
    BY <1>1 DEF SocketClosed, HandleDisconnect
  <2>2. CallsRouted'
    BY <1>1, <2>1, WireAssumption DEF SocketClosed, RouteInv, CallsRouted, TypeInv,
       WireTypeOK
  <2>. QED
    BY <2>1, <2>2, RouteFrame DEF SocketClosed, routeVars
<1>2. CASE agentUuid[s] # None
  <2>. DEFINE a == agentUuid[s]
              cut == {r \in Calls : pending[r] = a}
  <2>1. /\ socketsByUuid' = [socketsByUuid EXCEPT ![a] = None]
        /\ pending' = [r \in Calls |-> IF r \in cut THEN None ELSE pending[r]]
        /\ timers' = timers \ cut
        /\ call' = [r \in Requests |-> IF r \in cut
                        THEN [call[r] EXCEPT !.state = "disconnected"] ELSE call[r]]
        /\ serverEnd' = [serverEnd EXCEPT ![s] = "closed"]
        /\ UNCHANGED <<owner, agentUuid>>
    BY <1>2 DEF SocketClosed, HandleDisconnect
  <2>2. \A r \in Calls : /\ r \in cut => call'[r].state = "disconnected"
                         /\ r \notin cut => call'[r] = call[r]
    BY <2>1 DEF RouteInv, TypeInv, CallTypeOK, CallRecord, Calls, Requests
  <2>3. Routes'
    BY <1>2, <2>1 DEF RouteInv, Routes, TypeInv, RouteTypeOK
  <2>4. WaitingIsTimed'
    <3>1. \A r \in Calls : /\ r \in cut => pending'[r] = None /\ r \notin timers'
                           /\ r \notin cut => /\ pending'[r] = pending[r]
                                              /\ r \in timers' <=> r \in timers
      BY <2>1
    <3>. QED
      BY <2>2, <3>1 DEF RouteInv, WaitingIsTimed
  <2>5. CallsRouted'
    <3>1. \A r \in Calls : call'[r].state = "waiting" => /\ call'[r] = call[r]
                                                         /\ call[r].sock \in Sockets
                                                         /\ call[r].sock # s
      BY <2>2 DEF RouteInv, CallsRouted, WaitingIsTimed
    <3>2. \A t \in Sockets : t # s => serverEnd'[t] = serverEnd[t]
      BY <2>1 DEF RouteInv, TypeInv, WireTypeOK
    <3>3. UNCHANGED agentUuid
      BY <2>1
    <3>. QED
      BY <3>1, <3>2, <3>3 DEF RouteInv, CallsRouted
  <2>. QED
    BY <2>3, <2>4, <2>5
<1>. QED
  BY <1>1, <1>2

(* The server's steps for a socket.                                         *)
LEMMA SocketRoute ==
    ASSUME RouteInv, NEW s \in Sockets, SocketStep(s)
    PROVE  Routes' /\ WaitingIsTimed' /\ CallsRouted'
<1>1. CASE Receive(s)
  <2>1. up[s] # <<>> /\ owner[s] \in Agents
    BY <1>1 DEF Receive, ReceiveRegister, ReceiveHeartbeat, ReceiveListed, ReceiveMetrics,
       ReceiveResult, ReceiveInspected, ReceiveChunk, Arrives, RouteInv, TypeInv,
       SocketsOwned
  <2>2. CASE ReceiveHeartbeat(s)
    BY <2>1, <2>2, RouteSet DEF ReceiveHeartbeat, callVars
  <2>3. CASE ReceiveResult(s) \/ ReceiveInspected(s)
    <3>1. Head(up[s]) \in Named(AgentMessage)
      BY <2>1, HeadTailProperties DEF RouteInv, TypeInv, MessagesNamed
    <3>2. Head(up[s]).req \in Calls
      BY <2>3, <3>1 DEF ReceiveResult, ReceiveInspected, Arrives, Named, Names, Calls
    <3>. QED
      BY <2>3, <3>2, ResolveRoute DEF ReceiveResult, ReceiveInspected
  <2>4. CASE ReceiveRegister(s) \/ ReceiveListed(s) \/ ReceiveMetrics(s) \/ ReceiveChunk(s)
    <3>1. UNCHANGED <<owner, serverEnd, routeVars, callVars>>
      BY <2>4 DEF ReceiveRegister, ReceiveListed, ReceiveMetrics, ReceiveChunk, gatewayVars
    <3>. QED
      BY <3>1, RouteFrame DEF callVars, routeVars
  <2>. QED
    BY <1>1, <2>2, <2>3, <2>4 DEF Receive
<1>2. CASE RegisterUpsert(s) \/ HeartbeatFind(s) \/ HeartbeatUpdate(s)
  <2>1. ServerLost \/ UNCHANGED <<wireVars, routeVars, callVars>>
    BY <1>2 DEF RegisterUpsert, HeartbeatFind, HeartbeatUpdate, UnhandledDbFault
  <2>. QED
    BY <2>1, ServerLostRoute, RouteFrame DEF wireVars, callVars, routeVars
<1>3. CASE RegisterResume(s)
  BY <1>3, RouteSet DEF RegisterResume, callVars, RouteInv, TypeInv, SocketsOwned
<1>4. CASE SocketClosing(s)
  <2>1. CallsRouted'
    BY <1>4 DEF SocketClosing, RouteInv, CallsRouted, TypeInv, WireTypeOK, gatewayVars,
       routeVars, callVars
  <2>. QED
    BY <1>4, <2>1, RouteFrame DEF SocketClosing, gatewayVars, callVars
<1>5. CASE SocketClosed(s)
  BY <1>5, SocketClosedRoute
<1>6. CASE MarkOffline(s)
  BY <1>6, RouteFrame DEF MarkOffline, wireVars, callVars, routeVars
<1>. QED
  BY <1>1, <1>2, <1>3, <1>4, <1>5, <1>6 DEF SocketStep, Registration, HeartbeatTask

(* The server's steps for a call.                                           *)
LEMMA CallRoute ==
    ASSUME RouteInv, NEW r \in Requests, CallStep(r)
    PROVE  Routes' /\ WaitingIsTimed' /\ CallsRouted'
<1>1. UNCHANGED <<owner, serverEnd, routeVars>>
  BY DEF CallStep, BeginCall, LookupHost, Dispatch, SendContainerCommand, InspectContainer,
     Ask, StartLogStream, CallTimeout, CloseViewer, wireVars
<1>2. Routes'
  BY <1>1, RouteFrame
<1>3. CASE /\ call[r].state # "waiting" /\ call'[r].state # "waiting"
           /\ \A q \in Requests : q # r => call'[q] = call[q]
           /\ UNCHANGED <<pending, timers>>
  <2>1. WaitingIsTimed'
    BY <1>3 DEF RouteInv, WaitingIsTimed, Calls, Requests
  <2>2. CallsRouted'
    BY <1>1, <1>3 DEF RouteInv, CallsRouted, Calls, Requests, routeVars
  <2>. QED
    BY <1>2, <2>1, <2>2
<1>4. CASE CallTimeout(r)
  <2>1. /\ r \in Calls /\ timers' = timers \ {r}
        /\ pending' = [pending EXCEPT ![r] = None]
        /\ call' = [call EXCEPT ![r].state = "timedout"]
    BY <1>4 DEF CallTimeout, RouteInv, TypeInv, CallTypeOK
  <2>2. \A q \in Calls : IF q = r THEN call'[q].state = "timedout" /\ pending'[q] = None
                                  ELSE call'[q] = call[q] /\ pending'[q] = pending[q]
    BY <2>1 DEF RouteInv, TypeInv, CallTypeOK, CallRecord, Calls, Requests
  <2>3. WaitingIsTimed'
    BY <2>1, <2>2 DEF RouteInv, WaitingIsTimed
  <2>4. CallsRouted'
    BY <1>1, <2>2 DEF RouteInv, CallsRouted, routeVars
  <2>. QED
    BY <1>2, <2>3, <2>4
<1>5. CASE (\E a \in Agents : BeginCall(r, a)) \/ LookupHost(r) \/ StartLogStream(r)
  <2>1. call \in [Requests -> CallRecord]
    BY DEF RouteInv, TypeInv, CallTypeOK
  <2>2. call[r].state # "waiting"
    BY <1>5 DEF BeginCall, LookupHost, StartLogStream
  <2>. QED
    BY ZenonT(30), <1>3, <1>5, <2>1, <2>2 DEF BeginCall, LookupHost, StartLogStream, Refuse,
       CallRecord, NoCall
<1>6. CASE SendContainerCommand(r) \/ InspectContainer(r)
  <2>. DEFINE a == call[r].agent
              s == socketsByUuid[a]
  <2>1. PICK type : Ask(r, type)
    BY <1>6 DEF SendContainerCommand, InspectContainer
  <2>2. r \in Calls /\ r \in Requests /\ a \in Agents /\ call \in [Requests -> CallRecord]
    BY <1>6, <2>1 DEF SendContainerCommand, InspectContainer, Ask, Calls, Requests,
       RouteInv, TypeInv, CallTypeOK, CallsAddressed
  <2>3. CASE Reachable(a)
    <3>1. /\ pending' = [pending EXCEPT ![r] = a]
          /\ timers' = timers \cup {r}
          /\ call' = [call EXCEPT ![r].state = "waiting", ![r].sock = s]
      BY <2>1, <2>3 DEF Ask
    <3>2. s \in Sockets /\ agentUuid[s] = a /\ serverEnd[s] = "open"
      BY <2>2, <2>3 DEF Reachable, RouteInv, Routes, TypeInv, RouteTypeOK
    <3>3. /\ call'[r].state = "waiting" /\ call'[r].sock = s /\ call'[r].agent = a
          /\ pending'[r] = a
          /\ \A q \in Calls : q # r => call'[q] = call[q] /\ pending'[q] = pending[q]
      <4>1. call'[r] = [call[r] EXCEPT !.state = "waiting", !.sock = s]
        BY <2>2, <3>1
      <4>2. call[r] \in CallRecord
        BY <2>2
      <4>3. \A q \in Calls : q # r => call'[q] = call[q]
        BY <2>2, <3>1 DEF Calls, Requests
      <4>4. pending'[r] = a /\ \A q \in Calls : q # r => pending'[q] = pending[q]
        BY <2>2, <3>1 DEF RouteInv, TypeInv, CallTypeOK
      <4>. QED
        BY <4>1, <4>2, <4>3, <4>4 DEF CallRecord
    <3>4. WaitingIsTimed'
      BY ZenonT(30), <2>2, <3>1, <3>3, WireAssumption DEF RouteInv, WaitingIsTimed
    <3>5. CallsRouted'
      BY <1>1, <2>2, <3>2, <3>3 DEF RouteInv, CallsRouted, routeVars
    <3>. QED
      BY <1>2, <3>4, <3>5
  <2>4. CASE ~Reachable(a)
    <3>1. call[r].state = "found" /\ Refuse(r, "refused") /\ UNCHANGED <<pending, timers>>
      BY <2>1, <2>4 DEF Ask
    <3>. QED
      BY <1>3, <2>2, <3>1 DEF Refuse, CallRecord
  <2>. QED
    BY <2>3, <2>4
<1>7. CASE CloseViewer(r)
  <2>1. r \notin Calls
    BY <1>7, WireAssumption DEF CloseViewer, RouteInv, TypeInv, CallTypeOK, Calls
  <2>2. \A q \in Calls : call'[q] = call[q]
    BY <1>7, <2>1 DEF CloseViewer, RouteInv, TypeInv, CallTypeOK, Calls, Requests
  <2>3. WaitingIsTimed' /\ CallsRouted'
    BY <1>1, <1>7, <2>2 DEF CloseViewer, RouteInv, WaitingIsTimed, CallsRouted, routeVars
  <2>. QED
    BY <1>2, <2>3
<1>. QED
  BY <1>4, <1>5, <1>6, <1>7 DEF CallStep, Dispatch

(* An agent's step: dialling takes a socket nobody owned.                   *)
LEMMA AgentRoute ==
    ASSUME RouteInv, NEW a \in Agents, AgentStep(a), UNCHANGED gatewayVars
    PROVE  Routes' /\ WaitingIsTimed' /\ CallsRouted'
<1>1. UNCHANGED <<routeVars, pending, timers, call>>
  BY DEF gatewayVars, callVars
<1>2. CASE UNCHANGED <<owner, serverEnd>>
  BY <1>1, <1>2, RouteFrame DEF routeVars
<1>3. CASE Reconnect(a)
  <2>1. PICK s \in Sockets : /\ owner[s] = None
                             /\ owner' = [owner EXCEPT ![s] = a]
                             /\ serverEnd' = [serverEnd EXCEPT ![s] = "open"]
    BY <1>3 DEF Reconnect, Dial
  <2>2. \A t \in Sockets : owner[t] # None => owner'[t] = owner[t]
    BY <2>1 DEF RouteInv, TypeInv, WireTypeOK
  <2>3. \A t \in Sockets :
            serverEnd[t] \in {"open", "closing"} => serverEnd'[t] \in {"open", "closing"}
    BY <2>1 DEF RouteInv, TypeInv, WireTypeOK
  <2>4. Routes'
    BY <1>1, <2>2, WireAssumption DEF RouteInv, Routes, TypeInv, RouteTypeOK, routeVars
  <2>5. CallsRouted'
    BY <1>1, <2>3 DEF RouteInv, CallsRouted, routeVars
  <2>. QED
    BY <1>1, <2>4, <2>5, RouteFrame
<1>4. Reconnect(a) \/ UNCHANGED <<owner, serverEnd>>
  BY DEF AgentStep, Registered, RegisterTimeout, SessionFails, HandleMessage,
     HandleContainerList, HandleContainerCommand, HandleContainerInspect,
     HandleLogsSubscribe, HandleLogsUnsubscribe, Heartbeat, HostMetrics, PushContainers,
     ContainersChange, Stop, Start, Vanish, EmitLogChunk, StreamEnds, Disconnect, Report,
     CarryOut, wireVars
<1>. QED
  BY <1>2, <1>3, <1>4

(* Every step of the system.                                                *)
LEMMA RouteStep == RouteInv /\ [Next]_vars => Routes' /\ WaitingIsTimed' /\ CallsRouted'
<1>. SUFFICES ASSUME RouteInv, [Next]_vars
              PROVE  Routes' /\ WaitingIsTimed' /\ CallsRouted'
  OBVIOUS
<1>1. CASE GatewayNext
  <2>1. CASE \E a \in Agents : HostStep(a)
    BY <2>1, RouteFrame DEF HostStep, DeleteHostCheck, DeleteHostCommit, SevenDaysPass,
       wireVars, routeVars, callVars
  <2>2. CASE ServerCrash
    BY <2>2, ServerLostRoute DEF ServerCrash
  <2>3. CASE ServerStart
    BY <2>3, RouteFrame DEF ServerStart, wireVars, routeVars, callVars
  <2>. QED
    BY <1>1, <2>1, <2>2, <2>3, SocketRoute, CallRoute DEF GatewayNext
<1>2. CASE AgentNext /\ UNCHANGED gatewayVars
  BY <1>2, AgentRoute DEF AgentNext
<1>3. CASE UNCHANGED vars
  BY <1>3, RouteFrame DEF vars, wireVars, gatewayVars, routeVars, callVars
<1>. QED
  BY <1>1, <1>2, <1>3 DEF Next

(* The routing invariant.                                                   *)
LEMMA RouteInvariant == Spec => []RouteInv
<1>1. Init => RouteInv
  BY InitType, RouteInit DEF RouteInv
<1>2. RouteInv /\ [Next]_vars => RouteInv'
  BY TypeStep, RouteStep DEF RouteInv
<1>. QED
  BY <1>1, <1>2, PTL DEF Spec

(* sendContainerCommand and inspectContainer arm one timer with one entry in *)
(* pendingCommands or pendingInspects, and answer, timeout, disconnect and  *)
(* restart each clear both: a call waits exactly as long as they exist.     *)
THEOREM CallsAreTimed == Spec => []WaitingIsTimed
<1>1. RouteInv => WaitingIsTimed
  BY DEF RouteInv
<1>. QED
  BY <1>1, RouteInvariant, PTL

(* handleDisconnect rejects the agent's pending calls at once: no call waits *)
(* on a socket whose close was handled, however stale the close was.        *)
THEOREM DisconnectReleases == Spec => []NoCallWaitsOnClosedSocket
<1>1. RouteInv => NoCallWaitsOnClosedSocket
  BY DEF RouteInv, CallsRouted, NoCallWaitsOnClosedSocket
<1>. QED
  BY <1>1, RouteInvariant, PTL

---------------------------------------------------------------------------
(* The messages that ask for an action or an inspect, and their answers.    *)
Asks == {"container.command", "container.inspect"}
Answers == {"container.result", "container.inspected"}

(* The messages of a queue.                                                 *)
Contents(q) == {q[i] : i \in DOMAIN q}
(* A queue with a request holds nothing else about that call.               *)
AskedOnce(q) ==
    \A i, j \in DOMAIN q : q[i].type \in Asks /\ q[j].req = q[i].req => i = j

(* Appending adds the message, and a message about a call that no request of *)
(* the queue is about keeps the requests single.                            *)
LEMMA AppendContents ==
    ASSUME NEW M, NEW q \in Seq(M), NEW m \in M
    PROVE  /\ Contents(Append(q, m)) = Contents(q) \cup {m}
           /\ /\ AskedOnce(q)
              /\ \A n \in Contents(q) : n.req = m.req => {m.type, n.type} \cap Asks = {}
              => AskedOnce(Append(q, m))
<1>. DEFINE p == Append(q, m)
<1>1. /\ DOMAIN q = 1 .. Len(q) /\ Len(q) \in Nat
      /\ DOMAIN p = 1 .. (Len(q) + 1)
      /\ \A i \in 1 .. Len(q) : p[i] = q[i]
      /\ p[Len(q) + 1] = m
  BY AppendProperties, LenProperties
<1>2. DOMAIN p = DOMAIN q \cup {Len(q) + 1}
  BY <1>1
<1>3. Contents(p) = Contents(q) \cup {m}
  BY <1>1, <1>2 DEF Contents
<1>4. ASSUME AskedOnce(q),
             \A n \in Contents(q) : n.req = m.req => {m.type, n.type} \cap Asks = {}
      PROVE  AskedOnce(p)
  BY <1>1, <1>2, <1>4 DEF Contents, AskedOnce
<1>. QED
  BY <1>3, <1>4

(* Reading removes the head, and with a request all there is about its call. *)
LEMMA TailContents ==
    ASSUME NEW M, NEW q \in Seq(M), q # <<>>
    PROVE  /\ Head(q) \in Contents(q) /\ Contents(Tail(q)) \subseteq Contents(q)
           /\ AskedOnce(q) => /\ AskedOnce(Tail(q))
                              /\ Head(q).type \in Asks =>
                                     \A m \in Contents(Tail(q)) : m.req # Head(q).req
<1>1. /\ DOMAIN q = 1 .. Len(q) /\ Len(q) \in Nat \ {0}
      /\ DOMAIN Tail(q) = 1 .. (Len(q) - 1)
      /\ \A i \in 1 .. (Len(q) - 1) : Tail(q)[i] = q[i + 1]
      /\ Head(q) = q[1]
  BY HeadTailProperties, LenProperties, EmptySeq
<1>2. \A i \in DOMAIN Tail(q) : i + 1 \in DOMAIN q /\ Tail(q)[i] = q[i + 1] /\ i + 1 # 1
  BY <1>1
<1>3. Head(q) \in Contents(q) /\ Contents(Tail(q)) \subseteq Contents(q)
  BY <1>1, <1>2 DEF Contents
<1>4. ASSUME AskedOnce(q)
      PROVE  AskedOnce(Tail(q))
  <2>. SUFFICES ASSUME NEW i \in DOMAIN Tail(q), NEW j \in DOMAIN Tail(q),
                       Tail(q)[i].type \in Asks, Tail(q)[j].req = Tail(q)[i].req
                PROVE  i = j
    BY DEF AskedOnce
  <2>1. i + 1 = j + 1
    BY <1>2, <1>4 DEF AskedOnce
  <2>. QED
    BY <1>1, <2>1
<1>5. ASSUME AskedOnce(q), Head(q).type \in Asks, NEW m \in Contents(Tail(q))
      PROVE  m.req # Head(q).req
  <2>1. PICK i \in DOMAIN Tail(q) : m = q[i + 1]
    BY <1>2 DEF Contents
  <2>. QED
    BY <1>1, <1>2, <1>5, <2>1 DEF AskedOnce
<1>. QED
  BY <1>3, <1>4, <1>5

(* The empty queue.                                                         *)
LEMMA EmptyContents == Contents(<<>>) = {} /\ AskedOnce(<<>>)
BY EmptySeq DEF Contents, AskedOnce

(* A queue of messages contains messages.                                   *)
LEMMA ContentsIn ==
    ASSUME NEW M, NEW q \in Seq(M)
    PROVE  Contents(q) \subseteq M
BY ElementOfSeq DEF Contents

(* What the type invariant says of the messages on their way.               *)
LEMMA MessageNames ==
    TypeInv => \A s \in Sockets :
        /\ Contents(down[s]) \subseteq Named(ServerMessage)
        /\ Contents(up[s]) \subseteq Named(AgentMessage)
BY ContentsIn DEF TypeInv, MessagesNamed

(* Requests and answers are about calls.                                    *)
LEMMA NamedAbout ==
    ASSUME NEW types, NEW m \in Named(types)
    PROVE  /\ m.req \in Requests \cup {None}
           /\ m.type \in Asks \cup Answers => m.req \in Calls
           /\ m.req \in Streams => m.type \notin Asks \cup Answers
           /\ m.req = None => m.type \notin Asks \cup Answers
BY WireAssumption DEF Named, Message, Names, Asks, Answers, Calls, Requests

(* A socket dialled stays its agent's.                                      *)
OwnersKept == \A s \in Sockets : owner[s] \in Agents => owner'[s] = owner[s]

(* What a write adds to the queues, wherever it goes.                       *)
LEMMA SendContents ==
    ASSUME NEW M, NEW queues \in [Sockets -> Seq(M)], NEW s \in Sockets, NEW m \in M,
           NEW t \in Sockets
    PROVE  /\ Contents(Send(queues, s, m)[t]) \subseteq
                 Contents(queues[t]) \cup (IF t = s THEN {m} ELSE {})
           /\ Contents(Write(queues, s, m)[t]) \subseteq
                 Contents(queues[t]) \cup (IF t = s THEN {m} ELSE {})
           /\ /\ AskedOnce(queues[t])
              /\ \A n \in Contents(queues[s]) : n.req = m.req => {m.type, n.type} \cap Asks = {}
              => AskedOnce(Send(queues, s, m)[t])
<1>1. queues[s] \in Seq(M) /\ queues[t] \in Seq(M)
  OBVIOUS
<1>. QED
  BY <1>1, AppendContents DEF Send, Write

---------------------------------------------------------------------------
(* What comes first on a new connection, and what is kept for a host.         *)

(* A socket nobody dialled carries nothing and was given no record.            *)
NewSocketsBlank ==
    \A s \in Sockets : owner[s] = None =>
        clientEnd[s] # "open" /\ down[s] = <<>> /\ regId[s] = None /\ agentId[s] = None

(* An agent that registers has an open connection on which it has not beaten   *)
(* yet; nothing can be sent to it until the server speaks of it as this agent's, *)
(* and then the acknowledgement is the first message.                          *)
OpeningOf(a) == session[a] = "registering" =>
    /\ sock[a] \in Sockets /\ clientEnd[sock[a]] = "open"
    /\ \A m \in Contents(up[sock[a]]) : m.type # "agent.heartbeat"
    /\ \/ /\ down[sock[a]] = <<>>
          /\ agentUuid[sock[a]] = None \/ serverEnd[sock[a]] # "open"
       \/ down[sock[a]] # <<>> /\ Head(down[sock[a]]).type = "agent.registered"

OpeningInv == RouteInv /\ NewSocketsBlank /\ \A a \in Agents : OpeningOf(a)

(* What a step may do to the socket of an agent that registers.                 *)
Undisturbed(s) ==
    /\ clientEnd'[s] = clientEnd[s]
    /\ \A m \in Contents(up'[s]) : m \in Contents(up[s]) \/ m.type # "agent.heartbeat"
    /\ agentUuid'[s] \in {None, agentUuid[s]}
    /\ serverEnd[s] # "open" => serverEnd'[s] # "open"
    /\ \/ down'[s] = down[s]
       \/ down[s] # <<>> /\ down'[s] # <<>> /\ Head(down'[s]) = Head(down[s])

(* A step that leaves its socket undisturbed keeps what an agent relies on. *)
LEMMA OpeningFrame ==
    ASSUME NEW a \in Agents, OpeningOf(a), session'[a] = session[a], sock'[a] = sock[a],
           session[a] = "registering" => Undisturbed(sock[a])
    PROVE  OpeningOf(a)'
BY DEF OpeningOf, Undisturbed

(* No two agents have the same socket, and none an undialled one.               *)
LEMMA SocketsDistinct ==
    ASSUME TypeInv, NEW a \in Agents, NEW b \in Agents, sock[a] = sock[b], sock[a] # None
    PROVE  a = b
BY DEF TypeInv, SocketsOwned

(* A message sent to an agent that can be reached is not the first on its socket. *)
LEMMA AppendHead ==
    ASSUME NEW M, NEW q \in Seq(M), NEW m \in M
    PROVE  /\ Append(q, m) # <<>>
           /\ q # <<>> => Head(Append(q, m)) = Head(q)
           /\ q = <<>> => Head(Append(q, m)) = m
<1>1. /\ Append(q, m) \in Seq(M) /\ Len(Append(q, m)) = Len(q) + 1 /\ Len(q) \in Nat
      /\ Append(q, m) # <<>> /\ Append(q, m)[Len(q) + 1] = m
      /\ \A i \in 1 .. Len(q) : Append(q, m)[i] = q[i]
  BY AppendProperties, LenProperties, EmptySeq
<1>2. Head(Append(q, m)) = Append(q, m)[1] BY <1>1, HeadTailProperties
<1>3. ASSUME q # <<>> PROVE Head(Append(q, m)) = Head(q)
  <2>1. Head(q) = q[1] /\ Len(q) # 0 BY <1>3, HeadTailProperties, EmptySeq
  <2>. QED BY <1>1, <1>2, <2>1
<1>4. ASSUME q = <<>> PROVE Head(Append(q, m)) = m
  <2>1. Len(q) = 0 BY <1>4, EmptySeq
  <2>. QED BY <1>1, <1>2, <2>1
<1>. QED BY <1>1, <1>3, <1>4

(* What is sent to an agent the server knows comes after the first message. *)
LEMMA SendAfterFirst ==
    ASSUME OpeningInv, NEW x \in Agents, Reachable(x), NEW m \in Named(ServerMessage),
           down' = Send(down, socketsByUuid[x], m), NEW a \in Agents,
           session[a] = "registering", UNCHANGED <<clientEnd, serverEnd, up, agentUuid>>
    PROVE  Undisturbed(sock[a])
<1>. DEFINE t == socketsByUuid[x]
            q == down[t]
<1>1. /\ t \in Sockets /\ agentUuid[t] = x /\ x # None /\ serverEnd[t] = "open"
      /\ q \in Seq(Named(ServerMessage)) /\ down \in [Sockets -> Seq(Named(ServerMessage))]
  BY WireAssumption DEF Reachable, OpeningInv, RouteInv, Routes, TypeInv, RouteTypeOK,
     MessagesNamed
<1>2. sock[a] \in Sockets /\ (sock[a] = t => q # <<>>)
  BY <1>1 DEF OpeningInv, OpeningOf
<1>3. down'[sock[a]] \in {down[sock[a]], Append(down[sock[a]], m)}
  BY <1>1, <1>2 DEF Send
<1>4. sock[a] # t => down'[sock[a]] = down[sock[a]] BY <1>1, <1>2 DEF Send
<1>5. sock[a] = t => \/ down'[sock[a]] = q
                     \/ down'[sock[a]] # <<>> /\ Head(down'[sock[a]]) = Head(q)
  BY <1>1, <1>2, <1>3, AppendHead
<1>. QED BY <1>2, <1>4, <1>5 DEF Undisturbed

(* Nothing is sent on a socket nobody dialled.                                *)
LEMMA SendKeepsBlank ==
    ASSUME NewSocketsBlank, NEW s, NEW m, NEW n,
           \/ down' = down
           \/ down' = Send(down, s, m)
           \/ down' = Send(Send(down, s, m), s, n),
           down \in [Sockets -> Seq(Named(ServerMessage))],
           UNCHANGED <<owner, clientEnd>>
    PROVE  \A t \in Sockets : owner'[t] = None => clientEnd'[t] # "open" /\ down'[t] = <<>>
BY DEF NewSocketsBlank, Send

(* The server's steps for a socket.                                           *)
LEMMA QuietOpening ==
    ASSUME OpeningInv, UNCHANGED <<owner, clientEnd, serverEnd, up, down, agentUuid,
                                   regId, agentId, session, sock>>
    PROVE  NewSocketsBlank' /\ \A a \in Agents : OpeningOf(a)'
<1>1. \A a \in Agents : Undisturbed(sock[a]) BY DEF Undisturbed
<1>. QED BY <1>1, OpeningFrame DEF OpeningInv, NewSocketsBlank

(* The end of the process closes its ends; no message is taken back.      *)
LEMMA ServerLostOpening ==
    ASSUME OpeningInv, ServerLost, UNCHANGED <<session, sock>>
    PROVE  NewSocketsBlank' /\ \A a \in Agents : OpeningOf(a)'
<1>1. NewSocketsBlank' BY DEF OpeningInv, NewSocketsBlank, ServerLost
<1>2. ASSUME NEW a \in Agents, session[a] = "registering" PROVE Undisturbed(sock[a])
  <2>1. sock[a] \in Sockets BY <1>2 DEF OpeningInv, OpeningOf
  <2>. QED BY <2>1, EmptyContents DEF ServerLost, Undisturbed
<1>. QED BY <1>1, <1>2, OpeningFrame DEF OpeningInv, ServerLost

(* What arrives on a socket: a message is taken off its other queue.      *)
LEMMA ReceiveOpening ==
    ASSUME OpeningInv, NEW s \in Sockets, Receive(s), UNCHANGED <<session, sock>>
    PROVE  NewSocketsBlank' /\ \A a \in Agents : OpeningOf(a)'
<1>1. /\ up[s] # <<>> /\ up' = [up EXCEPT ![s] = Tail(@)]
      /\ UNCHANGED <<owner, clientEnd, serverEnd, down, regId, agentId>>
  BY DEF Receive, ReceiveRegister, ReceiveHeartbeat, ReceiveListed, ReceiveMetrics,
     ReceiveResult, ReceiveInspected, ReceiveChunk, Consume, Arrives, gatewayVars, routeVars,
     taskVars
<1>2. up \in [Sockets -> Seq(Named(AgentMessage))]
  BY DEF OpeningInv, RouteInv, TypeInv, MessagesNamed
<1>3. /\ \A t \in Sockets : Contents(up'[t]) \subseteq Contents(up[t])
      /\ Head(up[s]) \in Contents(up[s])
  BY <1>1, <1>2, TailContents
<1>4. \/ UNCHANGED agentUuid
      \/ agentUuid' = [agentUuid EXCEPT ![s] = owner[s]] /\ Head(up[s]).type = "agent.heartbeat"
  BY DEF Receive, ReceiveRegister, ReceiveHeartbeat, ReceiveListed, ReceiveMetrics,
     ReceiveResult, ReceiveInspected, ReceiveChunk, Arrives, gatewayVars, routeVars
<1>5. ASSUME NEW a \in Agents, session[a] = "registering" PROVE Undisturbed(sock[a])
  <2>1. /\ sock[a] \in Sockets
        /\ \A m \in Contents(up[sock[a]]) : m.type # "agent.heartbeat"
    BY <1>5 DEF OpeningInv, OpeningOf
  <2>2. agentUuid'[sock[a]] = agentUuid[sock[a]]
    <3>1. agentUuid \in [Sockets -> Agents \cup {None}]
      BY DEF OpeningInv, RouteInv, TypeInv, RouteTypeOK
    <3>2. sock[a] = s => UNCHANGED agentUuid BY <1>3, <1>4, <2>1
    <3>3. sock[a] # s => agentUuid'[sock[a]] = agentUuid[sock[a]] BY <1>4, <2>1, <3>1
    <3>. QED BY <3>2, <3>3
  <2>. QED BY <1>1, <1>3, <2>1, <2>2 DEF Undisturbed
<1>. QED BY <1>1, <1>5, OpeningFrame DEF OpeningInv, NewSocketsBlank

(* handleRegister acknowledges before it asks for the list.                      *)
LEMMA ResumeOpening ==
    ASSUME OpeningInv, NEW s \in Sockets, RegisterResume(s), UNCHANGED <<session, sock>>
    PROVE  NewSocketsBlank' /\ \A a \in Agents : OpeningOf(a)'
<1>. DEFINE first == Envelope("agent.registered")
            list == Envelope("container.list")
            q == down[s]
<1>1. /\ owner[s] \in Agents /\ owner[s] # None
      /\ agentUuid' = [agentUuid EXCEPT ![s] = owner[s]]
      /\ agentId' = [agentId EXCEPT ![s] = regId[s]]
      /\ down' = Send(Send(down, s, first), s, list)
      /\ UNCHANGED <<owner, clientEnd, serverEnd, up, regId>>
  BY WireAssumption DEF RegisterResume, OpeningInv, RouteInv, TypeInv, SocketsOwned
<1>2. /\ first \in Named(ServerMessage) /\ list \in Named(ServerMessage)
      /\ first.type = "agent.registered"
  BY NamedType DEF Names, ServerMessage, Envelope
<1>3. down \in [Sockets -> Seq(Named(ServerMessage))] /\ q \in Seq(Named(ServerMessage))
  BY DEF OpeningInv, RouteInv, TypeInv, MessagesNamed
<1>4. NewSocketsBlank'
  <2>1. \A t \in Sockets : owner'[t] = None => clientEnd'[t] # "open" /\ down'[t] = <<>>
    BY <1>1, <1>3, SendKeepsBlank DEF OpeningInv
  <2>. QED
    BY <1>1, <2>1 DEF OpeningInv, NewSocketsBlank
<1>5. down'[s] = IF serverEnd[s] = "open" /\ clientEnd[s] = "open"
                 THEN Append(Append(q, first), list) ELSE q
  BY <1>1, <1>3 DEF Send
<1>6. \A t \in Sockets : t # s => down'[t] = down[t]
  BY <1>1, <1>3 DEF Send
<1>7. ASSUME NEW a \in Agents, session[a] = "registering" PROVE OpeningOf(a)'
  <2>1. /\ sock[a] \in Sockets /\ clientEnd[sock[a]] = "open" /\ OpeningOf(a)
    BY <1>7 DEF OpeningInv, OpeningOf
  <2>2. CASE sock[a] # s
    <3>1. Undisturbed(sock[a]) BY <1>1, <1>6, <2>1, <2>2 DEF Undisturbed
    <3>. QED BY <2>1, <3>1, OpeningFrame
  <2>3. CASE sock[a] = s
    <3>1. serverEnd[s] = "open" =>
              down'[s] # <<>> /\ Head(down'[s]).type = "agent.registered"
      <4>1. /\ Append(q, first) \in Seq(Named(ServerMessage)) /\ Append(q, first) # <<>>
            /\ Head(Append(q, first)) = IF q = <<>> THEN first ELSE Head(q)
        BY <1>2, <1>3, AppendHead, QueueType
      <4>2. /\ Append(Append(q, first), list) # <<>>
            /\ Head(Append(Append(q, first), list)) = Head(Append(q, first))
        BY <1>2, <4>1, AppendHead
      <4>3. q # <<>> => Head(q).type = "agent.registered"
        BY <1>7, <2>1, <2>3 DEF OpeningOf
      <4>. QED BY <1>2, <1>5, <2>1, <2>3, <4>1, <4>2, <4>3
    <3>2. serverEnd[s] # "open" => down'[s] = q BY <1>5
    <3>. QED BY <1>1, <1>7, <2>1, <2>3, <3>1, <3>2 DEF OpeningOf
  <2>. QED BY <2>2, <2>3
<1>8. ASSUME NEW a \in Agents, session[a] # "registering" PROVE OpeningOf(a)'
  BY <1>8 DEF OpeningOf
<1>. QED BY <1>4, <1>7, <1>8

(* The server's steps for a socket, together.                             *)
LEMMA SocketOpening ==
    ASSUME OpeningInv, NEW s \in Sockets, SocketStep(s), UNCHANGED <<session, sock>>
    PROVE  NewSocketsBlank' /\ \A a \in Agents : OpeningOf(a)'
<1>1. CASE Receive(s) BY <1>1, ReceiveOpening
<1>2. CASE RegisterUpsert(s)
  <2>1. CASE ServerLost BY <2>1, ServerLostOpening
  <2>2. CASE ~ServerLost
    <3>1. PICK h : /\ regTask[s] = "upsert" /\ regId' = [regId EXCEPT ![s] = h]
                   /\ UNCHANGED <<wireVars, routeVars>>
      BY <1>2, <2>2 DEF RegisterUpsert, UnhandledDbFault
    <3>2. owner[s] # None
      BY <3>1, WireAssumption DEF OpeningInv, RouteInv, TypeInv, SocketsOwned
    <3>3. NewSocketsBlank'
      BY <3>1, <3>2 DEF OpeningInv, NewSocketsBlank, wireVars, routeVars
    <3>4. \A a \in Agents : Undisturbed(sock[a])
      BY <3>1 DEF Undisturbed, wireVars, routeVars
    <3>. QED BY <3>3, <3>4, OpeningFrame DEF OpeningInv
  <2>. QED BY <2>1, <2>2
<1>3. CASE RegisterResume(s) BY <1>3, ResumeOpening
<1>4. CASE HeartbeatFind(s) \/ HeartbeatUpdate(s) \/ MarkOffline(s)
  <2>1. ServerLost \/ UNCHANGED <<wireVars, routeVars, regId>>
    BY <1>4 DEF HeartbeatFind, HeartbeatUpdate, UnhandledDbFault, MarkOffline
  <2>. QED BY <2>1, ServerLostOpening, QuietOpening DEF wireVars, routeVars
<1>5. CASE SocketClosing(s) \/ SocketClosed(s)
  <2>1. /\ UNCHANGED <<owner, clientEnd, down, agentUuid, regId, agentId>>
        /\ \/ up' = up \/ up' = [up EXCEPT ![s] = <<>>]
        /\ \/ serverEnd' = [serverEnd EXCEPT ![s] = "closing"]
           \/ serverEnd' = [serverEnd EXCEPT ![s] = "closed"]
    BY <1>5 DEF SocketClosing, SocketClosed, gatewayVars, routeVars, taskVars
  <2>2. NewSocketsBlank' BY <2>1 DEF OpeningInv, NewSocketsBlank
  <2>3. ASSUME NEW a \in Agents, session[a] = "registering" PROVE Undisturbed(sock[a])
    <3>1. sock[a] \in Sockets BY <2>3 DEF OpeningInv, OpeningOf
    <3>2. Contents(up'[sock[a]]) \subseteq Contents(up[sock[a]])
      BY <2>1, <3>1, EmptyContents DEF OpeningInv, RouteInv, TypeInv, WireTypeOK
    <3>3. serverEnd[sock[a]] # "open" => serverEnd'[sock[a]] # "open"
      BY <2>1, <3>1 DEF OpeningInv, RouteInv, TypeInv, WireTypeOK
    <3>. QED BY <2>1, <3>2, <3>3 DEF Undisturbed
  <2>. QED BY <2>2, <2>3, OpeningFrame DEF OpeningInv
<1>. QED BY <1>1, <1>2, <1>3, <1>4, <1>5 DEF SocketStep, Registration, HeartbeatTask

(* The server's steps for a call: its message goes to an agent it knows.         *)
LEMMA CallOpening ==
    ASSUME OpeningInv, NEW r \in Requests, CallStep(r), UNCHANGED <<session, sock>>
    PROVE  NewSocketsBlank' /\ \A a \in Agents : OpeningOf(a)'
<1>1. UNCHANGED <<owner, clientEnd, serverEnd, up, agentUuid, agentId, regId>>
  BY DEF CallStep, BeginCall, LookupHost, Dispatch, SendContainerCommand, InspectContainer,
     Ask, StartLogStream, CallTimeout, CloseViewer, wireVars, routeVars, taskVars
<1>2. \/ down' = down
      \/ \E x \in Agents : \E m \in Named(ServerMessage) :
             Reachable(x) /\ down' = Send(down, socketsByUuid[x], m)
  <2>1. CASE (\E a \in Agents : BeginCall(r, a)) \/ LookupHost(r) \/ CallTimeout(r)
    BY <2>1 DEF BeginCall, LookupHost, CallTimeout, wireVars
  <2>2. CASE SendContainerCommand(r) \/ InspectContainer(r)
    <3>1. PICK type \in {"container.command", "container.inspect"} :
              r \in Names(type) /\ Ask(r, type)
      BY <2>2 DEF SendContainerCommand, InspectContainer, Names
    <3>2. call[r].agent \in Agents
      BY <3>1 DEF Ask, OpeningInv, RouteInv, TypeInv, CallsAddressed
    <3>3. About(type, r) \in Named(ServerMessage) BY <3>1, NamedType DEF ServerMessage
    <3>. QED BY <3>1, <3>2, <3>3 DEF Ask
  <2>3. CASE StartLogStream(r)
    <3>1. call[r].agent \in Agents /\ r \in Streams
      BY <2>3 DEF StartLogStream, OpeningInv, RouteInv, TypeInv, CallsAddressed
    <3>2. About("logs.subscribe", r) \in Named(ServerMessage)
      BY <3>1, NamedType DEF Names, ServerMessage
    <3>. QED BY <2>3, <3>1, <3>2 DEF StartLogStream
  <2>4. CASE CloseViewer(r)
    <3>1. r \in Streams /\ logSubscribers[r] \in Agents \cup {None}
      BY <2>4 DEF CloseViewer, OpeningInv, RouteInv, TypeInv, CallTypeOK
    <3>2. About("logs.unsubscribe", r) \in Named(ServerMessage)
      BY <3>1, NamedType DEF Names, ServerMessage
    <3>. QED BY <2>4, <3>1, <3>2 DEF CloseViewer, StopLogStream
  <2>. QED BY <2>1, <2>2, <2>3, <2>4 DEF CallStep, Dispatch
<1>3. NewSocketsBlank'
  <2>1. down \in [Sockets -> Seq(Named(ServerMessage))]
    BY DEF OpeningInv, RouteInv, TypeInv, MessagesNamed
  <2>2. \A t \in Sockets : owner'[t] = None => clientEnd'[t] # "open" /\ down'[t] = <<>>
    BY <1>1, <1>2, <2>1, SendKeepsBlank DEF OpeningInv
  <2>. QED BY <1>1, <2>2 DEF OpeningInv, NewSocketsBlank
<1>4. ASSUME NEW a \in Agents, session[a] = "registering" PROVE Undisturbed(sock[a])
  <2>1. CASE down' = down BY <1>1, <2>1 DEF Undisturbed
  <2>2. CASE down' # down BY <1>1, <1>2, <1>4, <2>2, SendAfterFirst
  <2>. QED BY <2>1, <2>2
<1>. QED BY <1>3, <1>4, OpeningFrame DEF OpeningInv

(* An agent's steps.                                                          *)
LEMMA AgentOpening ==
    ASSUME OpeningInv, NEW a \in Agents, AgentStep(a), UNCHANGED gatewayVars
    PROVE  NewSocketsBlank' /\ \A b \in Agents : OpeningOf(b)'
<1>1. UNCHANGED <<agentUuid, agentId, regId>> BY DEF gatewayVars, routeVars, taskVars
<1>2. TypeInv /\ AgentTypeOK /\ None \notin Sockets /\ None \notin Agents
  BY WireAssumption DEF OpeningInv, RouteInv, TypeInv
<1>3. up \in [Sockets -> Seq(Named(AgentMessage))] /\ down \in [Sockets -> Seq(Named(ServerMessage))]
  BY <1>2 DEF TypeInv, MessagesNamed
<1>4. CASE Reconnect(a)
  <2>1. PICK s \in Sockets : Dial(a, s) BY <1>4 DEF Reconnect
  <2>2. /\ owner[s] = None /\ owner' = [owner EXCEPT ![s] = a]
        /\ clientEnd' = [clientEnd EXCEPT ![s] = "open"]
        /\ serverEnd' = [serverEnd EXCEPT ![s] = "open"]
        /\ up' = [up EXCEPT ![s] = <<Envelope("agent.register")>>]
        /\ session' = [session EXCEPT ![a] = "registering"]
        /\ sock' = [sock EXCEPT ![a] = s] /\ down' = down
    BY <2>1 DEF Dial
  <2>3. down[s] = <<>> /\ agentUuid[s] = None
    BY <2>2 DEF OpeningInv, NewSocketsBlank, RouteInv, Routes
  <2>4. NewSocketsBlank'
    BY <1>1, <1>2, <2>2 DEF OpeningInv, NewSocketsBlank, TypeInv, WireTypeOK
  <2>5. OpeningOf(a)'
    <3>1. up'[s] = <<Envelope("agent.register")>> /\ clientEnd'[s] = "open" /\ sock'[a] = s
      BY <1>2, <1>3, <2>2 DEF TypeInv, WireTypeOK, AgentTypeOK
    <3>2. \A m \in Contents(up'[s]) : m.type # "agent.heartbeat"
      BY <3>1 DEF Contents, Envelope
    <3>. QED BY <1>1, <2>2, <2>3, <3>1, <3>2 DEF OpeningOf
  <2>6. ASSUME NEW b \in Agents, b # a PROVE OpeningOf(b)'
    <3>1. session'[b] = session[b] /\ sock'[b] = sock[b] BY <1>2, <2>2, <2>6 DEF AgentTypeOK
    <3>2. ASSUME session[b] = "registering" PROVE Undisturbed(sock[b])
      <4>1. sock[b] \in Sockets BY <3>2 DEF OpeningInv, OpeningOf
      <4>2. sock[b] # s BY <1>2, <2>2, <4>1 DEF TypeInv, SocketsOwned
      <4>. QED BY <1>1, <2>2, <4>2 DEF Undisturbed
    <3>. QED BY <3>1, <3>2, OpeningFrame DEF OpeningInv
  <2>. QED BY <2>4, <2>5, <2>6
<1>5. CASE ~Reconnect(a)
  <2>1. /\ UNCHANGED <<owner, serverEnd>>
        /\ \A b \in Agents : b # a => session'[b] = session[b] /\ sock'[b] = sock[b]
    BY ZenonT(30), <1>2, <1>5 DEF AgentStep, Registered, RegisterTimeout, SessionFails, HandleMessage,
       HandleContainerList, HandleContainerCommand, HandleContainerInspect,
       HandleLogsSubscribe, HandleLogsUnsubscribe, Heartbeat, HostMetrics, PushContainers,
       ContainersChange, Stop, Start, Vanish, EmitLogChunk, StreamEnds, Disconnect, Report,
       CarryOut, wireVars, AgentTypeOK
  <2>2. \A t \in Sockets : t # sock[a] =>
            clientEnd'[t] = clientEnd[t] /\ up'[t] = up[t] /\ down'[t] = down[t]
    BY ZenonT(30), <1>2, <1>3, <1>5 DEF AgentStep, Registered, RegisterTimeout, SessionFails, HandleMessage,
       HandleContainerList, HandleContainerCommand, HandleContainerInspect,
       HandleLogsSubscribe, HandleLogsUnsubscribe, Heartbeat, HostMetrics, PushContainers,
       ContainersChange, Stop, Start, Vanish, EmitLogChunk, StreamEnds, Disconnect, Report,
       CarryOut, wireVars, Write, Take, TypeInv, WireTypeOK
  <2>3. NewSocketsBlank'
    <3>1. \A t \in Sockets : owner[t] = None => t # sock[a]
      BY <1>2 DEF TypeInv, SocketsOwned
    <3>. QED BY <1>1, <2>1, <2>2, <3>1 DEF OpeningInv, NewSocketsBlank
  <2>4. ASSUME NEW b \in Agents, b # a PROVE OpeningOf(b)'
    <3>1. ASSUME session[b] = "registering" PROVE Undisturbed(sock[b])
      <4>1. sock[b] \in Sockets BY <3>1 DEF OpeningInv, OpeningOf
      <4>2. sock[b] # sock[a] BY <1>2, <2>4, <4>1, SocketsDistinct
      <4>. QED BY <1>1, <2>1, <2>2, <4>1, <4>2 DEF Undisturbed
    <3>. QED BY <2>1, <2>4, <3>1, OpeningFrame DEF OpeningInv
  <2>5. OpeningOf(a)'
    <3>1. CASE session'[a] # "registering" BY <3>1 DEF OpeningOf
    <3>2. CASE session'[a] = "registering"
      <4>1. \/ ContainersChange(a) \/ \E r \in Streams : StreamEnds(a, r)
            \/ \E r \in Streams : EmitLogChunk(a, r)
        BY <1>2, <1>5, <3>2 DEF AgentStep, Registered, RegisterTimeout, SessionFails,
           HandleMessage, HandleContainerList, HandleContainerCommand, HandleContainerInspect,
           HandleLogsSubscribe, HandleLogsUnsubscribe, Heartbeat, HostMetrics, PushContainers,
           Serves, Stop, Start, Vanish, Disconnect, Report, CarryOut, AgentTypeOK
      <4>2. /\ UNCHANGED <<session, sock, clientEnd, serverEnd, down>>
            /\ up' = up \/ \E r \in Streams : up' = Write(up, sock[a], About("logs.chunk", r))
        BY <4>1 DEF ContainersChange, StreamEnds, EmitLogChunk, Report, wireVars
      <4>3. sock[a] \in Sockets BY <3>2, <4>2 DEF OpeningInv, OpeningOf
      <4>4. ASSUME NEW m \in Contents(up'[sock[a]])
            PROVE  m \in Contents(up[sock[a]]) \/ m.type # "agent.heartbeat"
        <5>1. CASE up' = up BY <4>4, <5>1
        <5>2. ASSUME NEW r \in Streams, up' = Write(up, sock[a], About("logs.chunk", r))
              PROVE  m \in Contents(up[sock[a]]) \/ m.type # "agent.heartbeat"
          <6>1. PICK chunk : chunk = About("logs.chunk", r) OBVIOUS
          <6>2. chunk \in Named(AgentMessage)
            BY <6>1, NamedType DEF Names, AgentMessage
          <6>3. m \in Contents(up[sock[a]]) \cup {chunk}
            BY <1>3, <4>3, <4>4, <5>2, <6>1, <6>2, SendContents
          <6>. QED BY <6>1, <6>3 DEF About, Envelope
        <5>. QED BY <4>2, <5>1, <5>2
      <4>5. Undisturbed(sock[a]) BY <1>1, <4>2, <4>4 DEF Undisturbed
      <4>. QED BY <4>2, <4>5, OpeningFrame DEF OpeningInv
    <3>. QED BY <3>1, <3>2
  <2>6. \A b \in Agents : b # a => OpeningOf(b)'
    BY <2>4
  <2>. QED BY Zenon, <2>3, <2>5, <2>6
<1>. QED BY <1>4, <1>5

(* One case per actor.                                                    *)
LEMMA OpeningStep ==
    OpeningInv /\ [Next]_vars => NewSocketsBlank' /\ \A a \in Agents : OpeningOf(a)'
<1>. SUFFICES ASSUME OpeningInv, [Next]_vars
              PROVE  NewSocketsBlank' /\ \A a \in Agents : OpeningOf(a)'
  OBVIOUS
<1>1. CASE GatewayNext /\ UNCHANGED agentVars
  <2>1. UNCHANGED <<session, sock>> BY <1>1 DEF agentVars
  <2>2. CASE (\E a \in Agents : HostStep(a)) \/ ServerStart
    BY <2>1, <2>2, QuietOpening DEF HostStep, DeleteHostCheck, DeleteHostCommit,
       SevenDaysPass, ServerStart, wireVars, routeVars, taskVars
  <2>3. CASE ServerCrash BY <2>1, <2>3, ServerLostOpening DEF ServerCrash
  <2>. QED BY <1>1, <2>1, <2>2, <2>3, SocketOpening, CallOpening DEF GatewayNext
<1>2. CASE AgentNext /\ UNCHANGED gatewayVars BY <1>2, AgentOpening DEF AgentNext
<1>3. CASE UNCHANGED vars
  BY <1>3, QuietOpening DEF vars, wireVars, gatewayVars, routeVars, taskVars, agentVars
<1>. QED BY <1>1, <1>2, <1>3 DEF Next

(* So it holds from the start on.                                         *)
LEMMA OpeningInvariant == Spec => []OpeningInv
<1>1. Init => OpeningInv
  <2>1. Init => RouteInv BY InitType, RouteInit DEF RouteInv
  <2>2. Init => NewSocketsBlank /\ \A a \in Agents : OpeningOf(a)
    BY DEF Init, WireInit, GatewayInit, AgentInit, NewSocketsBlank, OpeningOf
  <2>. QED BY <2>1, <2>2 DEF OpeningInv
<1>2. OpeningInv /\ [Next]_vars => OpeningInv'
  BY TypeStep, RouteStep, OpeningStep DEF OpeningInv, RouteInv
<1>. QED BY <1>1, <1>2, PTL DEF Spec

(* waitRegistered discards every message before the acknowledgement: nothing    *)
(* is discarded, for agent.registered is the first message of a connection,   *)
(* although calls, lists and a newer connection's requests are sent meanwhile. *)
THEOREM AcknowledgedFirst == Spec => []NothingDiscarded
<1>1. OpeningInv => NothingDiscarded BY DEF OpeningInv, OpeningOf, NothingDiscarded
<1>. QED BY <1>1, OpeningInvariant, PTL

---------------------------------------------------------------------------
(* Whose the records and the snapshots are.                                   *)

(* Something in the server, or a call, takes record h for agent a's.             *)
Refers(a, h) ==
    \/ rows[a].id = h \/ inventoryHost[a] = h \/ metricsHost[a] = h
    \/ inventory[h].agent = a \/ metrics[h] = a
    \/ \E s \in Sockets : owner[s] = a /\ h \in {regId[s], agentId[s]}
    \/ \E r \in Requests : call[r].agent = a /\ call[r].host = h

(* A record given out is one agent's, for everything that speaks of it.           *)
IdsBelong ==
    \A h \in HostIds : \A a \in Agents : Refers(a, h) =>
        h \in usedIds /\ \A b \in Agents : Refers(b, h) => b = a

(* A list on its way, and one that is kept, shows a container set its agent had.  *)
ListsKnown ==
    \A s \in Sockets : \A m \in Contents(up[s]) : m.ver <= docker[owner[s]]
SnapshotsKnown ==
    \A h \in HostIds : /\ inventory[h].agent = None => inventory[h].ver = 0
                       /\ \A a \in Agents : inventory[h].agent = a => inventory[h].ver <= docker[a]

KeepingInv == OpeningInv /\ IdsBelong /\ ListsKnown /\ SnapshotsKnown

(* What a step may do: refer to what was referred to, and let docker go on.       *)
RefersKept == \A a \in Agents : \A h \in HostIds : Refers(a, h)' => Refers(a, h)
DockerGrows == \A a \in Agents : docker[a] <= docker'[a] /\ docker'[a] \in Nat

(* No new reference, and no id taken back.                                *)
LEMMA RefersFrame ==
    ASSUME IdsBelong, RefersKept, usedIds \subseteq usedIds' PROVE IdsBelong'
BY DEF IdsBelong, RefersKept

(* A step that changes no reference but may delete a record.              *)
LEMMA SameReferences ==
    ASSUME UNCHANGED <<inventoryHost, metricsHost, inventory, metrics, owner, regId, agentId>>,
           \A a \in Agents : rows'[a].id \in {rows[a].id, None},
           \A r \in Requests : call'[r].agent = call[r].agent /\ call'[r].host = call[r].host
    PROVE  RefersKept
<1>. SUFFICES ASSUME NEW a \in Agents, NEW h \in HostIds, Refers(a, h)' PROVE Refers(a, h)
  BY DEF RefersKept
<1>1. h # None BY GatewayAssumption DEF GatewayAssumption
<1>. QED BY <1>1 DEF Refers

(* The cases of a call's step that leave its host and agent alone.                *)
LEMMA CallNamed ==
    ASSUME NEW f \in [Requests -> CallRecord], NEW r \in Requests, NEW st, NEW sk, NEW ok,
           NEW g, \/ g = [f EXCEPT ![r].state = st]
                  \/ g = [f EXCEPT ![r].state = st, ![r].sock = sk]
                  \/ g = [f EXCEPT ![r].state = st, ![r].ok = ok]
    PROVE  \A q \in Requests : g[q].agent = f[q].agent /\ g[q].host = f[q].host
BY DEF CallRecord

(* Remembering a host for the agent it belongs to.                             *)
LEMMA RememberKeeps ==
    ASSUME KeepingInv, NEW a \in Agents, NEW h, h \in HostIds => Refers(a, h),
           InventoryRemember(h, a), UNCHANGED docker
    PROVE  /\ SnapshotsKnown'
           /\ \A k \in HostIds : \A b \in Agents :
                 inventory'[k].agent = b \/ inventoryHost'[b] = k => Refers(b, k)
<1>1. /\ inventoryHost \in [Agents -> HostIds \cup {None}]
      /\ inventory \in [HostIds -> [agent : Agents \cup {None}, ver : Nat]]
      /\ docker \in [Agents -> Nat] /\ None \notin Agents
  BY WireAssumption DEF KeepingInv, OpeningInv, RouteInv, TypeInv, CachesTypeOK, AgentTypeOK
<1>2. \A k \in HostIds : /\ k # h => inventory'[k] = inventory[k]
                         /\ k = h => inventory'[k].agent = a /\ inventory'[k].ver = inventory[k].ver
  BY <1>1 DEF InventoryRemember
<1>3. \A b \in Agents : inventoryHost'[b] = IF b = a THEN h ELSE inventoryHost[b]
  BY <1>1 DEF InventoryRemember
<1>4. SnapshotsKnown'
  <2>. SUFFICES ASSUME NEW k \in HostIds
                PROVE  /\ inventory'[k].agent = None => inventory'[k].ver = 0
                       /\ \A b \in Agents :
                             inventory'[k].agent = b => inventory'[k].ver <= docker[b]
    BY DEF SnapshotsKnown
  <2>1. CASE k # h BY <1>2, <2>1 DEF KeepingInv, SnapshotsKnown
  <2>2. CASE k = h
    <3>1. inventory[h].ver <= docker[a]
      <4>1. CASE inventory[h].agent = None
        BY <1>1, <2>2, <4>1 DEF KeepingInv, SnapshotsKnown
      <4>2. CASE inventory[h].agent # None
        <5>1. inventory[h].agent \in Agents BY <1>1, <2>2, <4>2
        <5>2. inventory[h].agent = a BY <2>2, <5>1 DEF KeepingInv, IdsBelong, Refers
        <5>. QED BY <2>2, <5>2 DEF KeepingInv, SnapshotsKnown
      <4>. QED BY <4>1, <4>2
    <3>. QED BY <1>1, <1>2, <2>2, <3>1
  <2>. QED BY <2>1, <2>2
<1>5. ASSUME NEW k \in HostIds, NEW b \in Agents, inventory'[k].agent = b \/ inventoryHost'[b] = k
      PROVE  Refers(b, k)
  BY <1>2, <1>3, <1>5 DEF Refers
<1>. QED BY <1>4, <1>5

(* A list, or a sample, that is kept under the record its socket, or the index,    *)
(* has for the agent.                                                         *)
LEMMA SetContainersKeeps ==
    ASSUME KeepingInv, NEW a \in Agents, NEW v \in Nat, v <= docker[a],
           NEW own \in HostIds \cup {None}, own # None => Refers(a, own),
           SetContainers(a, v, own), UNCHANGED docker
    PROVE  /\ SnapshotsKnown'
           /\ \A k \in HostIds : \A b \in Agents :
                 inventory'[k].agent = b \/ inventoryHost'[b] = k => Refers(b, k)
<1>1. /\ inventoryHost \in [Agents -> HostIds \cup {None}]
      /\ inventory \in [HostIds -> [agent : Agents \cup {None}, ver : Nat]]
      /\ None \notin Agents
  BY WireAssumption DEF KeepingInv, OpeningInv, RouteInv, TypeInv, CachesTypeOK
<1>. DEFINE h == IF own # None THEN own ELSE inventoryHost[a]
<1>2. CASE h = None
  BY <1>2 DEF SetContainers, KeepingInv, SnapshotsKnown, Refers
<1>3. CASE h # None
  <2>1. h \in HostIds /\ Refers(a, h) BY <1>1, <1>3 DEF Refers
  <2>2. /\ inventory' = [inventory EXCEPT ![h] = Snapshot(a, v)]
        /\ inventoryHost' = [inventoryHost EXCEPT ![a] = h]
    BY <1>3 DEF SetContainers
  <2>3. \A k \in HostIds : /\ k # h => inventory'[k] = inventory[k]
                           /\ k = h => inventory'[k].agent = a /\ inventory'[k].ver = v
    BY <1>1, <2>2 DEF Snapshot
  <2>4. SnapshotsKnown' BY <1>1, <2>3 DEF KeepingInv, SnapshotsKnown
  <2>5. \A b \in Agents : inventoryHost'[b] = IF b = a THEN h ELSE inventoryHost[b]
    BY <1>1, <2>2
  <2>6. ASSUME NEW k \in HostIds, NEW b \in Agents,
               inventory'[k].agent = b \/ inventoryHost'[b] = k
        PROVE  Refers(b, k)
    BY <2>1, <2>3, <2>5, <2>6 DEF Refers
  <2>. QED BY <2>4, <2>6
<1>. QED BY <1>2, <1>3

(* The same for a sample.                                                 *)
LEMMA SetMetricsKeeps ==
    ASSUME KeepingInv, NEW a \in Agents,
           NEW own \in HostIds \cup {None}, own # None => Refers(a, own), SetMetrics(a, own)
    PROVE  \A k \in HostIds : \A b \in Agents :
               metrics'[k] = b \/ metricsHost'[b] = k => Refers(b, k)
<1>1. /\ metricsHost \in [Agents -> HostIds \cup {None}]
      /\ metrics \in [HostIds -> Agents \cup {None}]
  BY DEF KeepingInv, OpeningInv, RouteInv, TypeInv, CachesTypeOK
<1>. DEFINE h == IF own # None THEN own ELSE metricsHost[a]
<1>2. CASE h = None BY <1>2 DEF SetMetrics, Refers
<1>3. CASE h # None
  <2>1. h \in HostIds /\ Refers(a, h) BY <1>1, <1>3 DEF Refers
  <2>2. /\ metrics' = [metrics EXCEPT ![h] = a]
        /\ metricsHost' = [metricsHost EXCEPT ![a] = h]
    BY <1>3 DEF SetMetrics
  <2>. QED BY <1>1, <2>1, <2>2 DEF Refers
<1>. QED BY <1>2, <1>3

(* A step after which every list was on its way or is no newer than docker. *)
LEMMA ListsFrame ==
    ASSUME KeepingInv, DockerGrows, OwnersKept,
           \A s \in Sockets : \A m \in Contents(up'[s]) :
               m \in Contents(up[s]) \/ m.ver <= docker'[owner'[s]]
    PROVE  ListsKnown'
<1>. SUFFICES ASSUME NEW s \in Sockets, NEW m \in Contents(up'[s])
              PROVE  m.ver <= docker'[owner'[s]]
  BY DEF ListsKnown
<1>1. CASE m \in Contents(up[s])
  <2>1. TypeInv BY DEF KeepingInv, OpeningInv, RouteInv
  <2>2. up[s] # <<>> BY <1>1, EmptyContents
  <2>3. owner[s] \in Agents BY <2>1, <2>2 DEF TypeInv, SocketsOwned
  <2>4. owner'[s] = owner[s] BY <2>3 DEF OwnersKept
  <2>5. m.ver \in Nat BY <1>1, <2>1, MessageNames DEF Named, Message
  <2>6. m.ver <= docker[owner[s]] BY <1>1 DEF KeepingInv, ListsKnown
  <2>7. docker[owner[s]] \in Nat BY <2>1, <2>3 DEF TypeInv, AgentTypeOK
  <2>. QED BY <2>3, <2>4, <2>5, <2>6, <2>7 DEF DockerGrows
<1>2. CASE m \notin Contents(up[s]) BY <1>2
<1>. QED BY <1>1, <1>2

(* A step that leaves the inventory alone.                                *)
LEMMA SnapshotsFrame ==
    ASSUME KeepingInv, DockerGrows, UNCHANGED inventory PROVE SnapshotsKnown'
<1>1. TypeInv BY DEF KeepingInv, OpeningInv, RouteInv
<1>2. ASSUME NEW h \in HostIds, NEW a \in Agents, inventory[h].agent = a
      PROVE  inventory[h].ver <= docker'[a]
  <2>1. inventory[h].ver \in Nat /\ docker[a] \in Nat
    BY <1>1 DEF TypeInv, CachesTypeOK, AgentTypeOK
  <2>2. inventory[h].ver <= docker[a] BY <1>2 DEF KeepingInv, SnapshotsKnown
  <2>. QED BY <2>1, <2>2 DEF DockerGrows
<1>. QED BY <1>2 DEF KeepingInv, SnapshotsKnown

(* Docker is the agents' matter.                                              *)
LEMMA DockerStays == ASSUME TypeInv, UNCHANGED docker PROVE DockerGrows
BY DEF TypeInv, AgentTypeOK, DockerGrows

(* The server's end only reads the lists.                                       *)
LEMMA GatewayLists ==
    ASSUME KeepingInv, GatewayNext, UNCHANGED agentVars PROVE ListsKnown'
<1>1. TypeInv /\ up \in [Sockets -> Seq(Named(AgentMessage))]
  BY DEF KeepingInv, OpeningInv, RouteInv, TypeInv, MessagesNamed
<1>2. /\ owner' = owner
      /\ \/ up' = up
         \/ ServerLost
         \/ \E s \in Sockets : up' = [up EXCEPT ![s] = <<>>]
         \/ \E s \in Sockets : up[s] # <<>> /\ Consume(s)
  <2>1. ASSUME NEW s \in Sockets, SocketStep(s)
        PROVE  owner' = owner /\ (up' = up \/ ServerLost \/ up' = [up EXCEPT ![s] = <<>>]
                                   \/ (up[s] # <<>> /\ Consume(s)))
    BY <2>1 DEF SocketStep, Receive, ReceiveRegister, ReceiveHeartbeat, ReceiveListed,
       ReceiveMetrics, ReceiveResult, ReceiveInspected, ReceiveChunk, Arrives, Registration,
       RegisterUpsert, RegisterResume, HeartbeatTask, HeartbeatFind, HeartbeatUpdate,
       UnhandledDbFault, SocketClosing, SocketClosed, MarkOffline, wireVars, ServerLost
  <2>2. ASSUME NEW r \in Requests, CallStep(r) PROVE owner' = owner /\ up' = up
    BY <2>2 DEF CallStep, BeginCall, LookupHost, Dispatch, SendContainerCommand,
       InspectContainer, Ask, StartLogStream, CallTimeout, CloseViewer, wireVars
  <2>3. ASSUME NEW a \in Agents, HostStep(a) PROVE owner' = owner /\ up' = up
    BY <2>3 DEF HostStep, DeleteHostCheck, DeleteHostCommit, SevenDaysPass, wireVars
  <2>4. ServerCrash => owner' = owner /\ ServerLost BY DEF ServerCrash, ServerLost
  <2>5. ServerStart => owner' = owner /\ up' = up BY DEF ServerStart, wireVars
  <2>. QED BY <2>1, <2>2, <2>3, <2>4, <2>5 DEF GatewayNext
<1>3. ASSUME NEW t \in Sockets PROVE Contents(up'[t]) \subseteq Contents(up[t])
  <2>1. CASE up' = up BY <2>1
  <2>2. CASE ServerLost BY <2>2, EmptyContents DEF ServerLost
  <2>3. ASSUME NEW s \in Sockets, up' = [up EXCEPT ![s] = <<>>]
        PROVE  Contents(up'[t]) \subseteq Contents(up[t])
    BY <1>1, <2>3, EmptyContents
  <2>4. ASSUME NEW s \in Sockets, up[s] # <<>>, Consume(s)
        PROVE  Contents(up'[t]) \subseteq Contents(up[t])
    BY <1>1, <2>4, TailContents DEF Consume
  <2>. QED BY <1>2, <2>1, <2>2, <2>3, <2>4
<1>. QED BY <1>1, <1>2, <1>3, DockerStays, ListsFrame DEF OwnersKept, agentVars

(* The end of the process forgets the caches; records and calls keep theirs.        *)
LEMMA ServerLostKeeps ==
    ASSUME KeepingInv, ServerLost, UNCHANGED docker
    PROVE  RefersKept /\ UNCHANGED usedIds /\ SnapshotsKnown'
<1>1. None \notin Agents /\ None \notin HostIds
  BY WireAssumption, GatewayAssumption DEF GatewayAssumption
<1>2. \A r \in Requests : call'[r].agent = call[r].agent /\ call'[r].host = call[r].host
  BY DEF ServerLost, KeepingInv, OpeningInv, RouteInv, TypeInv, CallTypeOK, CallRecord
<1>3. RefersKept
  BY <1>1, <1>2 DEF RefersKept, Refers, ServerLost, CachesForgotten, NoSnapshot
<1>4. SnapshotsKnown'
  BY <1>1 DEF SnapshotsKnown, ServerLost, CachesForgotten, NoSnapshot
<1>. QED BY <1>3, <1>4 DEF ServerLost

(* A message that arrives is kept under its own agent's record.           *)
LEMMA ReceiveKeeps ==
    ASSUME KeepingInv, NEW s \in Sockets, Receive(s), UNCHANGED docker
    PROVE  RefersKept /\ UNCHANGED usedIds /\ SnapshotsKnown'
<1>1. TypeInv /\ DockerGrows
  BY DockerStays DEF KeepingInv, OpeningInv, RouteInv
<1>2. /\ up[s] # <<>> /\ owner[s] \in Agents
      /\ UNCHANGED <<rows, usedIds, owner, regId, agentId>>
  BY <1>1 DEF Receive, ReceiveRegister, ReceiveHeartbeat, ReceiveListed, ReceiveMetrics,
     ReceiveResult, ReceiveInspected, ReceiveChunk, Arrives, gatewayVars, dbVars, routeVars,
     taskVars, TypeInv, SocketsOwned
<1>3. agentId[s] \in HostIds \cup {None} /\ (agentId[s] # None => Refers(owner[s], agentId[s]))
  BY <1>1, <1>2 DEF TypeInv, RouteTypeOK, Refers
<1>4. CASE ReceiveListed(s)
  <2>1. UNCHANGED <<call, metricsHost, metrics>> BY <1>4 DEF ReceiveListed, callVars
  <2>2. CASE agentUuid[s] = None
    <3>1. UNCHANGED <<inventoryHost, inventory>> BY <1>4, <2>2 DEF ReceiveListed
    <3>. QED BY <1>1, <1>2, <2>1, <3>1, SameReferences, SnapshotsFrame
  <2>3. CASE agentUuid[s] # None
    <3>1. agentUuid[s] = owner[s] /\ SetContainers(owner[s], Head(up[s]).ver, agentId[s])
      BY <1>4, <2>3 DEF ReceiveListed, KeepingInv, OpeningInv, RouteInv, Routes
    <3>2. Head(up[s]) \in Contents(up[s]) /\ Head(up[s]) \in Named(AgentMessage)
      BY <1>1, <1>2, TailContents, MessageNames DEF TypeInv, MessagesNamed
    <3>3. Head(up[s]).ver \in Nat /\ Head(up[s]).ver <= docker[owner[s]]
      BY <3>2 DEF Named, Message, KeepingInv, ListsKnown
    <3>4. /\ SnapshotsKnown'
          /\ \A k \in HostIds : \A b \in Agents :
                 inventory'[k].agent = b \/ inventoryHost'[b] = k => Refers(b, k)
      BY <1>2, <1>3, <3>1, <3>3, SetContainersKeeps
    <3>5. RefersKept BY <1>2, <2>1, <3>4 DEF RefersKept, Refers
    <3>. QED BY <1>2, <3>4, <3>5
  <2>. QED BY <2>2, <2>3
<1>5. CASE ReceiveMetrics(s)
  <2>1. UNCHANGED <<call, inventoryHost, inventory>> /\ SetMetrics(owner[s], agentId[s])
    BY <1>5 DEF ReceiveMetrics, callVars
  <2>2. \A k \in HostIds : \A b \in Agents :
            metrics'[k] = b \/ metricsHost'[b] = k => Refers(b, k)
    BY <1>2, <1>3, <2>1, SetMetricsKeeps
  <2>3. RefersKept BY <1>2, <2>1, <2>2 DEF RefersKept, Refers
  <2>. QED BY <1>1, <1>2, <2>1, <2>3, SnapshotsFrame
<1>6. CASE ~ReceiveListed(s) /\ ~ReceiveMetrics(s)
  <2>1. UNCHANGED cacheVars
    BY <1>6 DEF Receive, ReceiveRegister, ReceiveHeartbeat, ReceiveResult, ReceiveInspected,
       ReceiveChunk, gatewayVars
  <2>2. \A r \in Requests : call'[r].agent = call[r].agent /\ call'[r].host = call[r].host
    <3>1. CASE UNCHANGED call BY <3>1
    <3>2. CASE ReceiveResult(s) \/ ReceiveInspected(s)
      <4>1. Resolve(Head(up[s]).req, Head(up[s]).ok)
        BY <3>2 DEF ReceiveResult, ReceiveInspected
      <4>2. Head(up[s]).req \in Requests
        <5>1. Head(up[s]) \in Named(AgentMessage)
          BY <1>1, <1>2, HeadTailProperties DEF TypeInv, MessagesNamed
        <5>. QED
          BY <3>2, <5>1 DEF ReceiveResult, ReceiveInspected, Arrives, Named, Names, Requests
      <4>3. call \in [Requests -> CallRecord] BY <1>1 DEF TypeInv, CallTypeOK
      <4>. QED BY <4>1, <4>2, <4>3, CallNamed DEF Resolve
    <3>. QED
      BY <1>6, <3>1, <3>2 DEF Receive, ReceiveRegister, ReceiveHeartbeat, ReceiveChunk,
         gatewayVars, callVars
  <2>. QED BY <1>1, <1>2, <2>1, <2>2, SameReferences, SnapshotsFrame DEF cacheVars
<1>. QED BY <1>4, <1>5, <1>6

(* An upsert takes the record the agent has, or one that was never given out.       *)
LEMMA UpsertKeeps ==
    ASSUME KeepingInv, NEW s \in Sockets, owner[s] \in Agents, NEW h \in HostIds, Upsert(s, h),
           regId' = [regId EXCEPT ![s] = h],
           UNCHANGED <<owner, agentId, cacheVars, call>>
    PROVE  IdsBelong'
<1>1. TypeInv BY DEF KeepingInv, OpeningInv, RouteInv
<1>2. /\ rows' = [rows EXCEPT ![owner[s]] = [id |-> h, status |-> "ONLINE", recent |-> TRUE]]
      /\ usedIds' = usedIds \cup {h}
      /\ rows[owner[s]].id = h \/ h \notin usedIds
  BY DEF Upsert
<1>3. \A a \in Agents : rows'[a].id = IF a = owner[s] THEN h ELSE rows[a].id
  BY <1>1, <1>2 DEF TypeInv, DbTypeOK
<1>4. \A t \in Sockets : regId'[t] = IF t = s THEN h ELSE regId[t]
  BY <1>1 DEF TypeInv, TaskTypeOK
<1>5. ASSUME NEW a \in Agents, NEW k \in HostIds, Refers(a, k)'
      PROVE  Refers(a, k) \/ (a = owner[s] /\ k = h)
  BY <1>3, <1>4, <1>5 DEF Refers, cacheVars
<1>6. rows[owner[s]].id = h => Refers(owner[s], h) BY DEF Refers
<1>. QED BY <1>2, <1>5, <1>6 DEF KeepingInv, IdsBelong

(* The server's steps for a socket, together.                             *)
LEMMA SocketKeeps ==
    ASSUME KeepingInv, NEW s \in Sockets, SocketStep(s), UNCHANGED docker
    PROVE  IdsBelong' /\ SnapshotsKnown'
<1>0. TypeInv /\ DockerGrows /\ IdsBelong
  BY DockerStays DEF KeepingInv, OpeningInv, RouteInv
<1>1. CASE Receive(s) BY <1>0, <1>1, ReceiveKeeps, RefersFrame
<1>2. CASE ServerLost BY <1>0, <1>2, ServerLostKeeps, RefersFrame
<1>3. CASE RegisterUpsert(s) /\ ~ServerLost
  <2>1. PICK h \in HostIds : /\ Upsert(s, h) /\ regId' = [regId EXCEPT ![s] = h]
                             /\ UNCHANGED <<routeVars, callVars, cacheVars, wireVars>>
    BY <1>3 DEF RegisterUpsert, UnhandledDbFault
  <2>2. owner[s] \in Agents BY <1>0, <1>3 DEF RegisterUpsert, TypeInv, SocketsOwned
  <2>3. IdsBelong' BY <2>1, <2>2, UpsertKeeps DEF routeVars, callVars, wireVars
  <2>. QED BY <1>0, <2>1, <2>3, SnapshotsFrame DEF cacheVars
<1>4. CASE RegisterResume(s)
  <2>. DEFINE a == owner[s]
              h == regId[s]
  <2>1. /\ InventoryRemember(h, a) /\ MetricsRemember(h, a)
        /\ agentId' = [agentId EXCEPT ![s] = h]
        /\ UNCHANGED <<rows, usedIds, owner, regId, call, metrics>>
    BY <1>4 DEF RegisterResume, dbVars, callVars
  <2>2. a \in Agents /\ (h \in HostIds => Refers(a, h))
    BY <1>0, <1>4 DEF RegisterResume, TypeInv, SocketsOwned, Refers
  <2>3. /\ SnapshotsKnown'
        /\ \A k \in HostIds : \A b \in Agents :
               inventory'[k].agent = b \/ inventoryHost'[b] = k => Refers(b, k)
    BY <2>1, <2>2, RememberKeeps
  <2>4. \A k \in HostIds : \A b \in Agents : metricsHost'[b] = k => Refers(b, k)
    BY <1>0, <2>1, <2>2 DEF MetricsRemember, TypeInv, CachesTypeOK, Refers
  <2>5. \A t \in Sockets : agentId'[t] \in {agentId[t], regId[t]}
    BY <1>0, <2>1 DEF TypeInv, RouteTypeOK
  <2>6. RefersKept BY <2>1, <2>3, <2>4, <2>5 DEF RefersKept, Refers
  <2>. QED BY <1>0, <2>1, <2>3, <2>6, RefersFrame
<1>5. CASE /\ HeartbeatFind(s) \/ HeartbeatUpdate(s) \/ MarkOffline(s)
           /\ ~ServerLost
  <2>1. UNCHANGED <<usedIds, routeVars, callVars, regId, cacheVars, wireVars>>
    BY <1>5 DEF HeartbeatFind, HeartbeatUpdate, MarkOffline, UnhandledDbFault, dbVars
  <2>2. \A b \in Agents : rows'[b].id = rows[b].id
    BY <1>0, <1>5 DEF HeartbeatFind, HeartbeatUpdate, MarkOffline, UnhandledDbFault, dbVars,
       TypeInv, DbTypeOK
  <2>3. RefersKept BY <2>1, <2>2, SameReferences DEF routeVars, callVars, cacheVars, wireVars
  <2>. QED BY <1>0, <2>1, <2>3, RefersFrame, SnapshotsFrame DEF cacheVars
<1>6. CASE SocketClosing(s) \/ SocketClosed(s)
  <2>1. UNCHANGED <<rows, usedIds, owner, regId, agentId, cacheVars>>
    BY <1>6 DEF SocketClosing, SocketClosed, gatewayVars, dbVars, routeVars, taskVars
  <2>2. \A r \in Requests : call'[r].agent = call[r].agent /\ call'[r].host = call[r].host
    BY <1>0, <1>6 DEF SocketClosing, SocketClosed, HandleDisconnect, gatewayVars, callVars,
       TypeInv, CallTypeOK, CallRecord
  <2>3. RefersKept BY <2>1, <2>2, SameReferences DEF cacheVars
  <2>. QED BY <1>0, <2>1, <2>3, RefersFrame, SnapshotsFrame DEF cacheVars
<1>. QED
  BY <1>1, <1>2, <1>3, <1>4, <1>5, <1>6 DEF SocketStep, Registration, HeartbeatTask

(* A call names the record its agent had when it began.                   *)
LEMMA CallKeeps ==
    ASSUME KeepingInv, NEW r \in Requests, CallStep(r), UNCHANGED docker
    PROVE  IdsBelong' /\ SnapshotsKnown'
<1>0. /\ TypeInv /\ DockerGrows /\ IdsBelong /\ call \in [Requests -> CallRecord]
  BY DockerStays DEF KeepingInv, OpeningInv, RouteInv, TypeInv, CallTypeOK
<1>1. UNCHANGED <<rows, usedIds, owner, regId, agentId, metricsHost, metrics>>
  BY DEF CallStep, BeginCall, LookupHost, Dispatch, SendContainerCommand, InspectContainer,
     Ask, StartLogStream, CallTimeout, CloseViewer, dbVars, wireVars, routeVars, taskVars,
     cacheVars
<1>2. ASSUME UNCHANGED cacheVars,
             \A q \in Requests : call'[q].agent = call[q].agent /\ call'[q].host = call[q].host
      PROVE  IdsBelong' /\ SnapshotsKnown'
  <2>1. RefersKept BY <1>1, <1>2, SameReferences DEF cacheVars
  <2>. QED BY <1>0, <1>1, <1>2, <2>1, RefersFrame, SnapshotsFrame DEF cacheVars
<1>3. ASSUME NEW a \in Agents, BeginCall(r, a) PROVE IdsBelong' /\ SnapshotsKnown'
  <2>1. UNCHANGED cacheVars BY <1>3 DEF BeginCall
  <2>2. \A q \in Requests :
            \/ call'[q] = call[q]
            \/ call'[q].agent = a /\ call'[q].host = rows[a].id
    BY <1>0, <1>3 DEF BeginCall, NoCall
  <2>3. RefersKept BY <1>1, <2>1, <2>2 DEF RefersKept, Refers, cacheVars
  <2>. QED BY <1>0, <1>1, <2>1, <2>3, RefersFrame, SnapshotsFrame DEF cacheVars
<1>4. CASE LookupHost(r) \/ CallTimeout(r) \/ CloseViewer(r)
  <2>1. UNCHANGED cacheVars BY <1>4 DEF LookupHost, CallTimeout, CloseViewer
  <2>2. call' = call \/ \E st : call' = [call EXCEPT ![r].state = st]
    BY <1>4 DEF LookupHost, Refuse, CallTimeout, CloseViewer
  <2>3. \A q \in Requests : call'[q].agent = call[q].agent /\ call'[q].host = call[q].host
    <3>1. ASSUME NEW st, call' = [call EXCEPT ![r].state = st]
          PROVE  \A q \in Requests : call'[q].agent = call[q].agent /\ call'[q].host = call[q].host
      BY <1>0, <3>1 DEF CallRecord
    <3>. QED BY <2>2, <3>1
  <2>. QED BY <1>2, <2>1, <2>3
<1>5. CASE Dispatch(r)
  <2>. DEFINE a == call[r].agent
              h == call[r].host
  <2>1. /\ InventoryRemember(h, a) /\ call[r].state = "found"
        /\ \/ \E st : call' = [call EXCEPT ![r].state = st]
           \/ \E st, sk : call' = [call EXCEPT ![r].state = st, ![r].sock = sk]
    BY <1>5 DEF Dispatch, SendContainerCommand, InspectContainer, Ask, StartLogStream, Refuse
  <2>2. a \in Agents /\ Refers(a, h)
    BY <1>0, <2>1 DEF TypeInv, CallsAddressed, Refers
  <2>3. /\ SnapshotsKnown'
        /\ \A k \in HostIds : \A b \in Agents :
               inventory'[k].agent = b \/ inventoryHost'[b] = k => Refers(b, k)
    BY <2>1, <2>2, RememberKeeps
  <2>4. \A q \in Requests : call'[q].agent = call[q].agent /\ call'[q].host = call[q].host
    <3>1. ASSUME NEW st, call' = [call EXCEPT ![r].state = st]
          PROVE  \A q \in Requests : call'[q].agent = call[q].agent /\ call'[q].host = call[q].host
      BY <1>0, <3>1 DEF CallRecord
    <3>2. ASSUME NEW st, NEW sk, call' = [call EXCEPT ![r].state = st, ![r].sock = sk]
          PROVE  \A q \in Requests : call'[q].agent = call[q].agent /\ call'[q].host = call[q].host
      BY <1>0, <3>2 DEF CallRecord
    <3>. QED BY <2>1, <3>1, <3>2
  <2>5. RefersKept BY <1>1, <2>3, <2>4 DEF RefersKept, Refers
  <2>. QED BY <1>0, <1>1, <2>3, <2>5, RefersFrame
<1>. QED BY <1>3, <1>4, <1>5 DEF CallStep

(* A deletion leaves no reference behind that was not there.              *)
LEMMA HostKeeps ==
    ASSUME KeepingInv, NEW a \in Agents, HostStep(a), UNCHANGED docker
    PROVE  IdsBelong' /\ SnapshotsKnown'
<1>1. TypeInv /\ DockerGrows /\ IdsBelong
  BY DockerStays DEF KeepingInv, OpeningInv, RouteInv
<1>2. UNCHANGED <<usedIds, owner, regId, agentId, call, cacheVars>>
  BY DEF HostStep, DeleteHostCheck, DeleteHostCommit, SevenDaysPass, dbVars, wireVars,
     routeVars, callVars, taskVars
<1>3. \A b \in Agents : rows'[b].id \in {rows[b].id, None}
  BY <1>1 DEF HostStep, DeleteHostCheck, DeleteHostCommit, SevenDaysPass, dbVars, NoRow,
     TypeInv, DbTypeOK
<1>4. RefersKept BY <1>2, <1>3, SameReferences DEF cacheVars
<1>. QED BY <1>1, <1>2, <1>4, RefersFrame, SnapshotsFrame DEF cacheVars

(* What an agent writes of its containers is what Docker lists then.             *)
LEMMA AgentKeeps ==
    ASSUME KeepingInv, NEW a \in Agents, AgentStep(a), UNCHANGED gatewayVars
    PROVE  IdsBelong' /\ ListsKnown' /\ SnapshotsKnown'
<1>0. /\ TypeInv /\ IdsBelong /\ docker \in [Agents -> Nat] /\ sock \in [Agents -> Sockets \cup {None}]
      /\ None \notin Sockets /\ owner \in [Sockets -> Agents \cup {None}]
      /\ None \notin Agents /\ up \in [Sockets -> Seq(Named(AgentMessage))]
  BY WireAssumption
  DEF KeepingInv, OpeningInv, RouteInv, TypeInv, AgentTypeOK, WireTypeOK, MessagesNamed
<1>1. UNCHANGED <<rows, usedIds, regId, agentId, call, cacheVars>>
  BY DEF gatewayVars, dbVars, routeVars, callVars, taskVars
<1>2. docker' \in {docker, [docker EXCEPT ![a] = docker[a] + 1]}
  BY ZenonT(30), <1>0 DEF AgentStep, Reconnect, Dial, Registered, RegisterTimeout, SessionFails,
     HandleMessage, HandleContainerList, HandleContainerCommand, HandleContainerInspect,
     HandleLogsSubscribe, HandleLogsUnsubscribe, Heartbeat, HostMetrics, PushContainers,
     ContainersChange, Stop, Start, Vanish, EmitLogChunk, StreamEnds, Disconnect, Report,
     CarryOut, engineVars
<1>3. DockerGrows
  <2>1. \A b \in Agents : docker[b] \in Nat /\ docker'[b] \in {docker[b], docker[b] + 1}
    BY <1>0, <1>2
  <2>2. \A b \in Agents : docker[b] <= docker[b] + 1 /\ docker[b] + 1 \in Nat
                          /\ docker[b] <= docker[b]
    BY <1>0
  <2>. QED BY <2>1, <2>2 DEF DockerGrows
<1>4. CASE Reconnect(a)
  <2>1. PICK s \in Sockets : Dial(a, s) BY <1>4 DEF Reconnect
  <2>2. owner[s] = None /\ owner' = [owner EXCEPT ![s] = a]
        /\ up' = [up EXCEPT ![s] = <<Envelope("agent.register")>>]
    BY <2>1 DEF Dial
  <2>3. regId[s] = None /\ agentId[s] = None
    BY <2>2 DEF KeepingInv, OpeningInv, NewSocketsBlank
  <2>4. None \notin HostIds BY GatewayAssumption DEF GatewayAssumption
  <2>5. \A t \in Sockets : t # s => owner'[t] = owner[t] BY <1>0, <2>2
  <2>6. RefersKept BY <1>1, <2>3, <2>4, <2>5 DEF RefersKept, Refers, cacheVars
  <2>7. ASSUME NEW t \in Sockets, NEW m \in Contents(up'[t])
        PROVE  m \in Contents(up[t]) \/ m.ver <= docker'[owner'[t]]
    <3>1. CASE t # s BY <1>0, <2>2, <2>7, <3>1
    <3>2. CASE t = s
      <4>1. up'[s] = <<Envelope("agent.register")>> /\ owner'[s] = a
        BY <1>0, <2>2 DEF TypeInv, WireTypeOK
      <4>2. m = Envelope("agent.register") BY <2>7, <3>2, <4>1 DEF Contents
      <4>3. m.ver = 0 BY <4>2 DEF Envelope
      <4>4. docker'[a] \in Nat BY <1>3 DEF DockerGrows
      <4>. QED BY <3>2, <4>1, <4>3, <4>4
    <3>. QED BY <3>1, <3>2
  <2>8. OwnersKept BY <1>0, <2>2, <2>5 DEF OwnersKept
  <2>. QED
    BY <1>0, <1>1, <1>3, <2>6, <2>7, <2>8, RefersFrame, ListsFrame, SnapshotsFrame DEF cacheVars
<1>5. CASE ~Reconnect(a)
  <2>1. /\ owner' = owner
        /\ up' = up \/ \E m \in Named(AgentMessage) :
               up' = Write(up, sock[a], m) /\ session[a] \in Connected /\ m.ver \in {0, docker[a]}
    <3>0. docker[a] \in Nat /\ Listed(a).ver = docker[a] BY <1>0 DEF Listed, Envelope
    <3>1. /\ \A type \in {"agent.heartbeat", "metrics.host"} :
                 Envelope(type) \in Named(AgentMessage) /\ Envelope(type).ver = 0
          /\ Listed(a) \in Named(AgentMessage)
      BY <3>0, NamedType DEF Names, AgentMessage, Listed, Envelope
    <3>2. \A r \in Streams : About("logs.chunk", r) \in Named(AgentMessage)
                             /\ About("logs.chunk", r).ver = 0
      BY NamedType DEF Names, AgentMessage, About, Envelope
    <3>3. ASSUME NEW type, NEW r, NEW ok \in BOOLEAN,
                 r \in Names(type), type \in AgentMessage
          PROVE  /\ [About(type, r) EXCEPT !.ok = ok] \in Named(AgentMessage)
                 /\ [About(type, r) EXCEPT !.ok = ok].ver = 0
      BY <3>3, NamedType DEF About, Envelope
    <3>4. CASE Registered(a)
      BY <3>1, <3>4 DEF Registered, Connected
    <3>5. CASE RegisterTimeout(a) \/ SessionFails(a) \/ Stop(a) \/ (a \in Fragile /\ Vanish(a))
      BY <3>5 DEF RegisterTimeout, SessionFails, Stop, Vanish, Disconnect
    <3>6. CASE HandleContainerList(a) \/ PushContainers(a)
      BY <3>0, <3>1, <3>6 DEF HandleContainerList, PushContainers, Serves, Connected
    <3>7. CASE HandleContainerCommand(a) \/ HandleContainerInspect(a)
      <4>1. PICK type \in {"container.result", "container.inspected"}, ok \in BOOLEAN :
               /\ Head(down[sock[a]]).req \in Names(type)
               /\ CarryOut(a, Head(down[sock[a]]).req, ok, type)
        <5>1. CASE HandleContainerCommand(a)
          <6>1. Head(down[sock[a]]).req \in Names("container.command")
            BY <1>0, <5>1, TakeType DEF HandleContainerCommand, Serves
          <6>2. Names("container.command") = Names("container.result") BY DEF Names
          <6>. QED BY <5>1, <6>1, <6>2 DEF HandleContainerCommand
        <5>2. CASE HandleContainerInspect(a)
          <6>1. Head(down[sock[a]]).req \in Names("container.inspect")
            BY <1>0, <5>2, TakeType DEF HandleContainerInspect, Serves
          <6>2. Names("container.inspect") = Names("container.inspected") BY DEF Names
          <6>. QED BY <5>2, <6>1, <6>2 DEF HandleContainerInspect
        <5>. QED BY <3>7, <5>1, <5>2
      <4>2. type \in AgentMessage BY DEF AgentMessage
      <4>3. PICK m : m = [About(type, Head(down[sock[a]]).req) EXCEPT !.ok = ok] OBVIOUS
      <4>4. m \in Named(AgentMessage) /\ m.ver = 0 BY <3>3, <4>1, <4>2, <4>3
      <4>5. owner' = owner /\ up' = Write(up, sock[a], m) BY <4>1, <4>3 DEF CarryOut
      <4>6. session[a] \in Connected
        BY <3>7 DEF HandleContainerCommand, HandleContainerInspect, Serves, Connected
      <4>. QED BY <4>4, <4>5, <4>6
    <3>9. CASE Heartbeat(a) \/ HostMetrics(a) \/ \E r \in Streams : EmitLogChunk(a, r)
      <4>1. PICK m \in Named(AgentMessage) :
               m.ver = 0 /\ Report(a, m) /\ session[a] \in Connected
        BY <3>1, <3>2, <3>9 DEF Heartbeat, HostMetrics, EmitLogChunk, Connected
      <4>2. owner' = owner /\ up' = Write(up, sock[a], m) BY <4>1 DEF Report
      <4>. QED BY <4>1, <4>2
    <3>10. CASE HandleLogsSubscribe(a) \/ HandleLogsUnsubscribe(a) \/ ContainersChange(a)
                \/ Start(a) \/ \E r \in Streams : StreamEnds(a, r)
      BY <3>10 DEF HandleLogsSubscribe, HandleLogsUnsubscribe, ContainersChange, Start,
         StreamEnds, wireVars
    <3>. QED
      BY <1>5, <3>4, <3>5, <3>6, <3>7, <3>9, <3>10 DEF AgentStep, HandleMessage
  <2>2. ASSUME NEW t \in Sockets, NEW m \in Contents(up'[t])
        PROVE  m \in Contents(up[t]) \/ m.ver <= docker'[owner'[t]]
    <3>1. CASE up' = up BY <2>2, <3>1
    <3>2. ASSUME NEW n \in Named(AgentMessage), up' = Write(up, sock[a], n), n.ver \in {0, docker[a]}
          PROVE  m \in Contents(up[t]) \/ m.ver <= docker'[owner'[t]]
      <4>1. CASE sock[a] \notin Sockets
        <5>1. up' = up BY <1>0, <3>2, <4>1 DEF Write
        <5>. QED BY <2>2, <5>1
      <4>2. CASE sock[a] \in Sockets
        <5>0. Contents(Write(up, sock[a], n)[t]) \subseteq
                 Contents(up[t]) \cup (IF t = sock[a] THEN {n} ELSE {})
          <6>1. PICK M : M = Named(AgentMessage) OBVIOUS
          <6>2. up \in [Sockets -> Seq(M)] /\ n \in M BY <1>0, <3>2, <6>1
          <6>. QED BY <4>2, <6>2, SendContents
        <5>1. m \in Contents(up[t]) \/ (t = sock[a] /\ m = n)
          BY <2>2, <3>2, <5>0
        <5>2. owner'[sock[a]] = a BY <1>0, <2>1, <4>2 DEF TypeInv, SocketsOwned
        <5>3. docker[a] \in Nat /\ docker'[a] \in Nat /\ docker[a] <= docker'[a]
          BY <1>0, <1>3 DEF DockerGrows
        <5>4. n.ver <= docker'[a] BY <3>2, <5>3
        <5>. QED BY <5>1, <5>2, <5>4
      <4>. QED BY <4>1, <4>2
    <3>. QED BY <2>1, <3>1, <3>2
  <2>3. RefersKept BY <1>1, <2>1, SameReferences DEF cacheVars
  <2>4. OwnersKept BY <2>1 DEF OwnersKept
  <2>. QED
    BY <1>0, <1>1, <1>3, <2>2, <2>3, <2>4, RefersFrame, ListsFrame, SnapshotsFrame
    DEF cacheVars
<1>. QED BY <1>4, <1>5

(* One case per actor.                                                    *)
LEMMA KeepingStep ==
    KeepingInv /\ [Next]_vars => IdsBelong' /\ ListsKnown' /\ SnapshotsKnown'
<1>. SUFFICES ASSUME KeepingInv, [Next]_vars
              PROVE  IdsBelong' /\ ListsKnown' /\ SnapshotsKnown'
  OBVIOUS
<1>0. TypeInv /\ IdsBelong BY DEF KeepingInv, OpeningInv, RouteInv
<1>1. CASE GatewayNext /\ UNCHANGED agentVars
  <2>1. UNCHANGED docker BY <1>1 DEF agentVars
  <2>2. ListsKnown' BY <1>1, GatewayLists
  <2>3. CASE ServerCrash
    BY <1>0, <2>1, <2>2, <2>3, ServerLostKeeps, RefersFrame DEF ServerCrash
  <2>4. CASE ServerStart
    <3>1. UNCHANGED <<rows, usedIds, owner, regId, agentId, call, cacheVars>>
      BY <2>4 DEF ServerStart, dbVars, wireVars, routeVars, callVars, taskVars
    <3>2. RefersKept BY <3>1, SameReferences DEF cacheVars
    <3>. QED
      BY <1>0, <2>1, <2>2, <3>1, <3>2, RefersFrame, DockerStays, SnapshotsFrame DEF cacheVars
  <2>. QED
    BY <1>1, <2>1, <2>2, <2>3, <2>4, SocketKeeps, CallKeeps, HostKeeps DEF GatewayNext
<1>2. CASE AgentNext /\ UNCHANGED gatewayVars BY <1>2, AgentKeeps DEF AgentNext
<1>3. CASE UNCHANGED vars
  BY <1>3 DEF vars, wireVars, gatewayVars, agentVars, dbVars, routeVars, callVars, taskVars,
     cacheVars, KeepingInv, IdsBelong, Refers, ListsKnown, SnapshotsKnown
<1>. QED BY <1>1, <1>2, <1>3 DEF Next

(* setContainers and set keep a list or a sample under the record of the socket *)
(* it came on, or else under the one last known for the agent: what is kept for *)
(* a host was always sent by its own agent, whichever sockets and ids it had.   *)
THEOREM CachesKeepToTheirHost == Spec => []CachesBelong
<1>1. Init => IdsBelong /\ ListsKnown /\ SnapshotsKnown
  BY WireAssumption, GatewayAssumption, EmptyContents
  DEF Init, WireInit, GatewayInit, CachesInit, NoRow, NoCall, NoSnapshot, IdsBelong, Refers,
      ListsKnown, SnapshotsKnown, GatewayAssumption
<1>2. OpeningInv /\ IdsBelong /\ ListsKnown /\ SnapshotsKnown /\ [Next]_vars
          => IdsBelong' /\ ListsKnown' /\ SnapshotsKnown'
  BY KeepingStep DEF KeepingInv
<1>3. OpeningInv /\ IdsBelong /\ ListsKnown /\ SnapshotsKnown => CachesBelong
  <2>. SUFFICES ASSUME OpeningInv, IdsBelong, SnapshotsKnown, NEW a \in Agents, HasRow(a)
                PROVE  /\ inventory[rows[a].id].agent \in {a, None}
                       /\ inventory[rows[a].id].ver <= docker[a]
                       /\ metrics[rows[a].id] \in {a, None}
    BY DEF CachesBelong
  <2>. DEFINE h == rows[a].id
  <2>1. /\ h \in HostIds /\ docker[a] \in Nat
        /\ inventory[h].agent \in Agents \cup {None} /\ metrics[h] \in Agents \cup {None}
    BY DEF OpeningInv, RouteInv, TypeInv, DbTypeOK, CachesTypeOK, AgentTypeOK, HasRow
  <2>2. Refers(a, h) BY DEF Refers
  <2>3. \A b \in Agents : inventory[h].agent = b \/ metrics[h] = b => b = a
    BY <2>1, <2>2 DEF IdsBelong, Refers
  <2>4. inventory[h].agent \in {a, None} /\ metrics[h] \in {a, None} BY <2>1, <2>3
  <2>5. inventory[h].ver <= docker[a] BY <2>1, <2>4 DEF SnapshotsKnown
  <2>. QED BY <2>4, <2>5
<1>. QED BY <1>1, <1>2, <1>3, OpeningInvariant, PTL DEF Spec
===========================================================================
