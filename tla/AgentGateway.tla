--------------------------- MODULE AgentGateway ---------------------------
(***************************************************************************)
(* The server: AgentsGateway with AgentsService (the agent records in       *)
(* PostgreSQL), the part of HostsService that deletes a host, and the way   *)
(* ContainersService and ContainersController call the gateway.             *)
(*                                                                         *)
(* Node runs one piece of JavaScript at a time, so an action is the code    *)
(* between two awaits.  Messages of a socket are handed to handleMessage in *)
(* order, but it is not awaited: the handlers of one socket, of several     *)
(* sockets and of HTTP calls interleave at their database accesses, and two *)
(* accesses under way may commit in either order (a connection pool).       *)
(* Nothing catches a rejection inside handleMessage, so a failed database   *)
(* access of handleRegister or handleHeartbeat ends the process, which the  *)
(* container runtime restarts.                                              *)
(***************************************************************************)
EXTENDS HostCaches, FiniteSets

CONSTANTS
    MaxCrashes,   \* bound: spontaneous ends of the server process
    MaxDbFaults   \* bound: failed database accesses

ASSUME GatewayAssumption ==
    /\ MaxCrashes \in Nat
    /\ MaxDbFaults \in Nat
    /\ None \notin HostIds
    /\ HostIds # {}

Calls == Commands \cup Inspects    \* requests that wait for one answer

VARIABLES
    rows,             \* the agent table, by uuid
    usedIds,          \* record ids ever given out (ids are never given twice)
    serverUp,         \* the server process runs
    crashes, dbFaults,\* how many there were
    agentUuid,        \* client.agentUuid of each server socket
    agentId,          \* client.agentId
    socketsByUuid,    \* the socket an agent is reached on
    pending,          \* pendingCommands and pendingInspects: the agent asked, or None
    timers,           \* the calls whose setTimeout is armed
    logSubscribers,   \* the agent streaming for a log view, or None
    call,             \* each HTTP call: where it is, and whom it is about
    viewers,          \* the log views whose SSE response is open
    regTask, regId,   \* handleRegister of each socket, and the id it got
    hbTask,           \* handleHeartbeat of each socket
    offTask,          \* the markOffline of a closed socket is under way
    deleting          \* deleteHost between its check and its delete: the id

dbVars      == <<rows, usedIds>>
processVars == <<serverUp, crashes, dbFaults>>
routeVars   == <<agentUuid, agentId, socketsByUuid>>
callVars    == <<pending, timers, logSubscribers, call, viewers>>
taskVars    == <<regTask, regId, hbTask, offTask, deleting>>
gatewayVars == <<dbVars, processVars, routeVars, callVars, taskVars, cacheVars>>

(* recent: lastSeen is less than 7 days old.                                *)
NoRow == [id |-> None, status |-> "OFFLINE", recent |-> FALSE]
HasRow(a) == rows[a].id # None

(* lookup: findById is under way.  found: its answer is about to be used.   *)
(* waiting / live: the gateway has sent the message.  The others are ends.  *)
InProgress == {"lookup", "found", "waiting", "live"}
Refusals   == {"notfound", "refused", "failed"}
CallStates == {"idle", "answered", "timedout", "disconnected", "aborted", "closed"}
                  \cup InProgress \cup Refusals
NoCall == [state |-> "idle", agent |-> None, host |-> None, sock |-> None, ok |-> FALSE]

CallRecord == [state : CallStates, agent : Agents \cup {None}, host : HostIds \cup {None},
               sock : Sockets \cup {None}, ok : BOOLEAN]

DbTypeOK ==
    /\ rows \in [Agents -> [id : HostIds \cup {None}, status : {"ONLINE", "OFFLINE"},
                            recent : BOOLEAN]]
    /\ usedIds \subseteq HostIds
ProcessTypeOK == serverUp \in BOOLEAN /\ crashes \in Nat /\ dbFaults \in Nat
RouteTypeOK ==
    /\ agentUuid \in [Sockets -> Agents \cup {None}]
    /\ agentId \in [Sockets -> HostIds \cup {None}]
    /\ socketsByUuid \in [Agents -> Sockets \cup {None}]
CallTypeOK ==
    /\ pending \in [Calls -> Agents \cup {None}]
    /\ timers \subseteq Calls
    /\ logSubscribers \in [Streams -> Agents \cup {None}]
    /\ call \in [Requests -> CallRecord]
    /\ viewers \subseteq Streams
TaskTypeOK ==
    /\ regTask \in [Sockets -> {"none", "upsert", "resume"}]
    /\ regId \in [Sockets -> HostIds \cup {None}]
    /\ hbTask \in [Sockets -> {"none", "find", "update"}]
    /\ offTask \in [Sockets -> BOOLEAN]
    /\ deleting \in [Agents -> HostIds \cup {None}]
GatewayTypeOK == DbTypeOK /\ ProcessTypeOK /\ RouteTypeOK /\ CallTypeOK /\ TaskTypeOK

GatewayInit ==
    /\ rows = [a \in Agents |-> NoRow]
    /\ usedIds = {}
    /\ serverUp = TRUE /\ crashes = 0 /\ dbFaults = 0
    /\ agentUuid = [s \in Sockets |-> None]
    /\ agentId = [s \in Sockets |-> None]
    /\ socketsByUuid = [a \in Agents |-> None]
    /\ pending = [r \in Calls |-> None]
    /\ timers = {}
    /\ logSubscribers = [r \in Streams |-> None]
    /\ call = [r \in Requests |-> NoCall]
    /\ viewers = {}
    /\ regTask = [s \in Sockets |-> "none"]
    /\ regId = [s \in Sockets |-> None]
    /\ hbTask = [s \in Sockets |-> "none"]
    /\ offTask = [s \in Sockets |-> FALSE]
    /\ deleting = [a \in Agents |-> None]
    /\ CachesInit

---------------------------------------------------------------------------
(* The process.                                                             *)

(* The process ends: memory and connections are gone, records stay, and the *)
(* HTTP calls in progress are cut off.                                      *)
ServerLost ==
    /\ serverUp' = FALSE
    /\ agentUuid' = [s \in Sockets |-> None]
    /\ agentId' = [s \in Sockets |-> None]
    /\ socketsByUuid' = [a \in Agents |-> None]
    /\ pending' = [r \in Calls |-> None]
    /\ timers' = {}
    /\ logSubscribers' = [r \in Streams |-> None]
    /\ viewers' = {}
    /\ regTask' = [s \in Sockets |-> "none"]
    /\ regId' = [s \in Sockets |-> None]
    /\ hbTask' = [s \in Sockets |-> "none"]
    /\ offTask' = [s \in Sockets |-> FALSE]
    /\ deleting' = [a \in Agents |-> None]
    /\ CachesForgotten
    /\ call' = [r \in Requests |-> IF call[r].state \in InProgress
                                   THEN [call[r] EXCEPT !.state = "aborted"]
                                   ELSE call[r]]
    /\ serverEnd' = [s \in Sockets |-> IF serverEnd[s] = "unused" THEN "unused"
                                       ELSE "closed"]
    /\ up' = [s \in Sockets |-> <<>>]
    /\ UNCHANGED <<rows, usedIds, owner, clientEnd, down>>

ServerCrash ==
    /\ serverUp /\ crashes < MaxCrashes
    /\ crashes' = crashes + 1
    /\ ServerLost
    /\ UNCHANGED dbFaults

(* main.ts, under a restart policy: nothing is reset in the database.       *)
ServerStart ==
    /\ ~serverUp
    /\ serverUp' = TRUE
    /\ UNCHANGED <<dbVars, crashes, dbFaults, routeVars, callVars, taskVars,
                   cacheVars, wireVars>>

DbFault ==
    /\ dbFaults < MaxDbFaults
    /\ dbFaults' = dbFaults + 1

(* A rejection nobody handles.                                              *)
UnhandledDbFault == DbFault /\ ServerLost /\ UNCHANGED crashes

---------------------------------------------------------------------------
(* Connections.                                                             *)

(* The server's end of s stops being OPEN: the agent closed it, or the      *)
(* network failed.                                                          *)
SocketClosing(s) ==
    /\ serverEnd[s] = "open"
    /\ serverEnd' = [serverEnd EXCEPT ![s] = "closing"]
    /\ UNCHANGED <<owner, clientEnd, up, down, gatewayVars>>

(* Mutant: handleDisconnect forgets the calls that wait.                     *)
HandleDisconnectNoReject(s) ==
    LET a == agentUuid[s]
    IN  IF a = None
        THEN UNCHANGED <<socketsByUuid, pending, timers, call, logSubscribers, offTask>>
        ELSE /\ socketsByUuid' = [socketsByUuid EXCEPT ![a] = None]
             /\ logSubscribers' = [r \in Streams |->
                                      IF logSubscribers[r] = a THEN None
                                      ELSE logSubscribers[r]]
             /\ offTask' = [offTask EXCEPT ![s] = TRUE]
             /\ UNCHANGED <<pending, timers, call>>

(* handleDisconnect up to its await, for the agent the socket spoke for.    *)
HandleDisconnect(s) ==
    LET a == agentUuid[s]
        cut == {r \in Calls : pending[r] = a}
    IN  IF a = None
        THEN UNCHANGED <<socketsByUuid, pending, timers, call, logSubscribers, offTask>>
        ELSE /\ socketsByUuid' = [socketsByUuid EXCEPT ![a] = None]
             /\ pending' = [r \in Calls |-> IF r \in cut THEN None ELSE pending[r]]
             /\ timers' = timers \ cut
             /\ call' = [r \in Requests |-> IF r \in cut
                             THEN [call[r] EXCEPT !.state = "disconnected"]
                             ELSE call[r]]
             /\ logSubscribers' = [r \in Streams |->
                                      IF logSubscribers[r] = a THEN None
                                      ELSE logSubscribers[r]]
             /\ offTask' = [offTask EXCEPT ![s] = TRUE]

(* 'close' is emitted; messages not yet delivered are lost.                 *)
SocketClosed(s) ==
    /\ serverEnd[s] = "closing"
    /\ serverEnd' = [serverEnd EXCEPT ![s] = "closed"]
    /\ up' = [up EXCEPT ![s] = <<>>]
    /\ HandleDisconnect(s)
    /\ UNCHANGED <<owner, clientEnd, down, dbVars, processVars, agentUuid, agentId,
                   viewers, regTask, regId, hbTask, deleting, cacheVars>>

(* Mutant: markOffline writes a status the table does not know.              *)
MarkOfflineUnknown(s) ==
    /\ offTask[s]
    /\ offTask' = [offTask EXCEPT ![s] = FALSE]
    /\ rows' = [rows EXCEPT ![agentUuid[s]].status = "UNKNOWN"]
    /\ UNCHANGED <<dbFaults, usedIds, serverUp, crashes, routeVars, callVars, regTask,
                   regId, hbTask, deleting, cacheVars, wireVars>>

(* AgentsService.markOffline commits, or fails and is swallowed.            *)
MarkOffline(s) ==
    /\ offTask[s]
    /\ offTask' = [offTask EXCEPT ![s] = FALSE]
    /\ \/ /\ rows' = [rows EXCEPT ![agentUuid[s]].status = "OFFLINE"]
          /\ UNCHANGED dbFaults
       \/ DbFault /\ UNCHANGED rows
    /\ UNCHANGED <<usedIds, serverUp, crashes, routeVars, callVars, regTask, regId,
                   hbTask, deleting, cacheVars, wireVars>>

---------------------------------------------------------------------------
(* agent.register                                                           *)

ReceiveRegister(s) ==
    /\ Arrives(s, "agent.register") /\ regTask[s] = "none"
    /\ Consume(s)
    /\ regTask' = [regTask EXCEPT ![s] = "upsert"]
    /\ UNCHANGED <<owner, clientEnd, serverEnd, down, dbVars, processVars, routeVars,
                   callVars, regId, hbTask, offTask, deleting, cacheVars>>

(* Mutant: the upsert looks for the hostname, which two hosts have in common.  *)
UpsertByHostname(s, h) ==
    LET a == owner[s]
        known == {rows[b].id : b \in Agents} \ {None}
    IN  /\ IF HasRow(a) THEN h = rows[a].id
           ELSE IF known # {} THEN h \in known ELSE h \notin usedIds
        /\ rows' = [rows EXCEPT ![a] = [id |-> h, status |-> "ONLINE", recent |-> TRUE]]
        /\ usedIds' = usedIds \cup {h}

(* The upsert of AgentsService.register: one atomic statement.  A record    *)
(* that exists keeps its id; a new one gets a fresh id.                     *)
Upsert(s, h) ==
    LET a == owner[s]
    IN  /\ IF HasRow(a) THEN h = rows[a].id ELSE h \notin usedIds
        /\ rows' = [rows EXCEPT ![a] = [id |-> h, status |-> "ONLINE", recent |-> TRUE]]
        /\ usedIds' = usedIds \cup {h}

RegisterUpsert(s) ==
    /\ regTask[s] = "upsert"
    /\ \/ \E h \in HostIds :
             /\ Upsert(s, h)
             /\ regTask' = [regTask EXCEPT ![s] = "resume"]
             /\ regId' = [regId EXCEPT ![s] = h]
             /\ UNCHANGED <<processVars, routeVars, callVars, hbTask, offTask, deleting,
                            cacheVars, wireVars>>
       \/ UnhandledDbFault

(* Mutant: the container list is requested before the acknowledgement.       *)
RegisterResumeListFirst(s) ==
    LET a == owner[s]
    IN  /\ regTask[s] = "resume"
        /\ regTask' = [regTask EXCEPT ![s] = "none"]
        /\ agentUuid' = [agentUuid EXCEPT ![s] = a]
        /\ agentId' = [agentId EXCEPT ![s] = regId[s]]
        /\ socketsByUuid' = [socketsByUuid EXCEPT ![a] = s]
        /\ InventoryRemember(regId[s], a)
        /\ MetricsRemember(regId[s], a)
        /\ down' = Send(Send(down, s, Envelope("container.list")),
                        s, Envelope("agent.registered"))
        /\ UNCHANGED <<owner, clientEnd, serverEnd, up, dbVars, processVars, callVars,
                       regId, hbTask, offTask, deleting, metrics>>

(* The rest of handleRegister, whatever happened to the socket meanwhile.   *)
RegisterResume(s) ==
    LET a == owner[s]
    IN  /\ regTask[s] = "resume"
        /\ regTask' = [regTask EXCEPT ![s] = "none"]
        /\ agentUuid' = [agentUuid EXCEPT ![s] = a]
        /\ agentId' = [agentId EXCEPT ![s] = regId[s]]
        /\ socketsByUuid' = [socketsByUuid EXCEPT ![a] = s]
        /\ InventoryRemember(regId[s], a)
        /\ MetricsRemember(regId[s], a)
        /\ down' = Send(Send(down, s, Envelope("agent.registered")),
                        s, Envelope("container.list"))
        /\ UNCHANGED <<owner, clientEnd, serverEnd, up, dbVars, processVars, callVars,
                       regId, hbTask, offTask, deleting, metrics>>

(* Mutant: a heartbeat does not restore the route to its socket.             *)
ReceiveHeartbeatNoRoute(s) ==
    /\ Arrives(s, "agent.heartbeat") /\ hbTask[s] = "none"
    /\ Consume(s)
    /\ agentUuid' = [agentUuid EXCEPT ![s] = owner[s]]
    /\ hbTask' = [hbTask EXCEPT ![s] = "find"]
    /\ UNCHANGED <<owner, clientEnd, serverEnd, down, dbVars, processVars, agentId,
                   socketsByUuid, callVars, regTask, regId, offTask, deleting, cacheVars>>

(* agent.heartbeat                                                          *)

ReceiveHeartbeat(s) ==
    /\ Arrives(s, "agent.heartbeat") /\ hbTask[s] = "none"
    /\ Consume(s)
    /\ agentUuid' = [agentUuid EXCEPT ![s] = owner[s]]
    /\ socketsByUuid' = [socketsByUuid EXCEPT ![owner[s]] = s]
    /\ hbTask' = [hbTask EXCEPT ![s] = "find"]
    /\ UNCHANGED <<owner, clientEnd, serverEnd, down, dbVars, processVars, agentId,
                   callVars, regTask, regId, offTask, deleting, cacheVars>>

(* AgentsService.heartbeat: findUnique, then update.                        *)
HeartbeatFind(s) ==
    /\ hbTask[s] = "find"
    /\ \/ /\ hbTask' = [hbTask EXCEPT ![s] = IF HasRow(owner[s]) THEN "update" ELSE "none"]
          /\ UNCHANGED <<dbVars, processVars, routeVars, callVars, regTask, regId, offTask,
                         deleting, cacheVars, wireVars>>
       \/ UnhandledDbFault

(* The update of a record deleted meanwhile is a rejection too (P2025).     *)
HeartbeatUpdate(s) ==
    LET a == owner[s]
    IN  /\ hbTask[s] = "update"
        /\ \/ /\ HasRow(a)
              /\ rows' = [rows EXCEPT ![a].status = "ONLINE", ![a].recent = TRUE]
              /\ hbTask' = [hbTask EXCEPT ![s] = "none"]
              /\ UNCHANGED <<usedIds, processVars, routeVars, callVars, regTask, regId,
                             offTask, deleting, cacheVars, wireVars>>
           \/ ~HasRow(a) /\ ServerLost /\ UNCHANGED <<crashes, dbFaults>>
           \/ UnhandledDbFault

---------------------------------------------------------------------------
(* The other messages: their handlers run to the end at once.               *)

ReceiveListed(s) ==
    /\ Arrives(s, "container.listed")
    /\ Consume(s)
    /\ IF agentUuid[s] = None
       THEN UNCHANGED <<inventoryHost, inventory>>
       ELSE SetContainers(agentUuid[s], Head(up[s]).ver, agentId[s])
    /\ UNCHANGED <<owner, clientEnd, serverEnd, down, dbVars, processVars, routeVars,
                   callVars, taskVars, metricsHost, metrics>>

ReceiveMetrics(s) ==
    /\ Arrives(s, "metrics.host")
    /\ Consume(s)
    /\ SetMetrics(owner[s], agentId[s])
    /\ UNCHANGED <<owner, clientEnd, serverEnd, down, dbVars, processVars, routeVars,
                   callVars, taskVars, inventoryHost, inventory>>

(* Mutants of Resolve: the outcome is reported as a success; a late answer   *)
(* is not recognised; the timer is not cleared.                              *)
ResolveAsSuccess(r, ok) ==
    IF pending[r] = None
    THEN UNCHANGED <<pending, timers, call>>
    ELSE /\ pending' = [pending EXCEPT ![r] = None]
         /\ timers' = timers \ {r}
         /\ call' = [call EXCEPT ![r].state = "answered", ![r].ok = TRUE]
ResolveLate(r, ok) ==
    /\ pending' = [pending EXCEPT ![r] = None]
    /\ timers' = timers \ {r}
    /\ call' = [call EXCEPT ![r].state = "answered", ![r].ok = ok]
ResolveKeepTimer(r, ok) ==
    IF pending[r] = None
    THEN UNCHANGED <<pending, timers, call>>
    ELSE /\ pending' = [pending EXCEPT ![r] = None]
         /\ call' = [call EXCEPT ![r].state = "answered", ![r].ok = ok]
         /\ UNCHANGED timers

(* An answer for a call that no longer waits is ignored.                    *)
Resolve(r, ok) ==
    IF pending[r] = None
    THEN UNCHANGED <<pending, timers, call>>
    ELSE /\ pending' = [pending EXCEPT ![r] = None]
         /\ timers' = timers \ {r}
         /\ call' = [call EXCEPT ![r].state = "answered", ![r].ok = ok]

ReceiveResult(s) ==
    /\ Arrives(s, "container.result")
    /\ Consume(s)
    /\ Resolve(Head(up[s]).req, Head(up[s]).ok)
    /\ UNCHANGED <<owner, clientEnd, serverEnd, down, dbVars, processVars, routeVars,
                   logSubscribers, viewers, taskVars, cacheVars>>

ReceiveInspected(s) ==
    /\ Arrives(s, "container.inspected")
    /\ Consume(s)
    /\ Resolve(Head(up[s]).req, Head(up[s]).ok)
    /\ UNCHANGED <<owner, clientEnd, serverEnd, down, dbVars, processVars, routeVars,
                   logSubscribers, viewers, taskVars, cacheVars>>

(* A chunk goes to its view's onChunk, or is dropped; either way no state   *)
(* of the server changes.                                                   *)
ReceiveChunk(s) ==
    /\ Arrives(s, "logs.chunk")
    /\ Consume(s)
    /\ UNCHANGED <<owner, clientEnd, serverEnd, down, gatewayVars>>

---------------------------------------------------------------------------
(* HTTP calls about one host.                                               *)

(* The route handler issues findById for the id the dashboard shows.        *)
BeginCall(r, a) ==
    /\ serverUp /\ call[r].state = "idle" /\ HasRow(a)
    /\ call' = [call EXCEPT ![r] = [NoCall EXCEPT !.state = "lookup", !.agent = a,
                                                  !.host = rows[a].id]]
    /\ viewers' = viewers \cup ({r} \cap Streams)
    /\ UNCHANGED <<dbVars, processVars, routeVars, pending, timers, logSubscribers,
                   taskVars, cacheVars, wireVars>>

(* The call ends before anything was sent; a log view gets an error event.  *)
Refuse(r, why) ==
    /\ call' = [call EXCEPT ![r].state = why]
    /\ viewers' = viewers \ {r}

(* findById answers.                                                        *)
LookupHost(r) ==
    /\ call[r].state = "lookup"
    /\ \/ /\ rows[call[r].agent].id = call[r].host
          /\ call' = [call EXCEPT ![r].state = "found"]
          /\ UNCHANGED <<viewers, dbFaults>>
       \/ /\ rows[call[r].agent].id # call[r].host
          /\ Refuse(r, "notfound")
          /\ UNCHANGED dbFaults
       \/ DbFault /\ Refuse(r, "failed")
    /\ UNCHANGED <<dbVars, serverUp, crashes, routeVars, pending, timers,
                   logSubscribers, taskVars, cacheVars, wireVars>>

(* The agent has a socket and its readyState is OPEN.                       *)
Reachable(a) ==
    /\ socketsByUuid[a] # None
    /\ serverEnd[socketsByUuid[a]] = "open"

(* Mutants of Ask: the message goes out on whichever socket is open; the     *)
(* timer is not armed.                                                       *)
AskAnySocket(r, type) ==
    /\ call[r].state = "found" /\ Reachable(call[r].agent)
    /\ \E s \in Sockets :
          /\ serverEnd[s] = "open"
          /\ call' = [call EXCEPT ![r].state = "waiting", ![r].sock = s]
          /\ down' = Send(down, s, About(type, r))
    /\ pending' = [pending EXCEPT ![r] = call[r].agent]
    /\ timers' = timers \cup {r}
    /\ InventoryRemember(call[r].host, call[r].agent)
    /\ UNCHANGED <<owner, clientEnd, serverEnd, up, dbVars, processVars, routeVars,
                   viewers, logSubscribers, taskVars, metricsHost, metrics>>
AskNoTimer(r, type) ==
    LET a == call[r].agent
        s == socketsByUuid[a]
    IN  /\ call[r].state = "found" /\ Reachable(a)
        /\ InventoryRemember(call[r].host, a)
        /\ pending' = [pending EXCEPT ![r] = a]
        /\ call' = [call EXCEPT ![r].state = "waiting", ![r].sock = s]
        /\ down' = Send(down, s, About(type, r))
        /\ UNCHANGED <<owner, clientEnd, serverEnd, up, dbVars, processVars, routeVars,
                       timers, viewers, logSubscribers, taskVars, metricsHost, metrics>>

(* Record the call and send its message on the agent's socket.              *)
Ask(r, type) ==
    LET a == call[r].agent
        s == socketsByUuid[a]
    IN  /\ call[r].state = "found"
        /\ InventoryRemember(call[r].host, a)
        /\ \/ /\ Reachable(a)
              /\ pending' = [pending EXCEPT ![r] = a]
              /\ timers' = timers \cup {r}
              /\ call' = [call EXCEPT ![r].state = "waiting", ![r].sock = s]
              /\ down' = Send(down, s, About(type, r))
              /\ UNCHANGED viewers
           \/ /\ ~Reachable(a)
              /\ Refuse(r, "refused")
              /\ UNCHANGED <<pending, timers, down>>
        /\ UNCHANGED <<owner, clientEnd, serverEnd, up, dbVars, processVars, routeVars,
                       logSubscribers, taskVars, metricsHost, metrics>>

SendContainerCommand(r) == r \in Commands /\ Ask(r, "container.command")
InspectContainer(r) == r \in Inspects /\ Ask(r, "container.inspect")

(* Mutant: a timeout is reported as 503, as if nothing had been sent.        *)
CallTimeoutAs503(r) ==
    /\ r \in timers
    /\ timers' = timers \ {r}
    /\ pending' = [pending EXCEPT ![r] = None]
    /\ call' = [call EXCEPT ![r].state = "refused"]
    /\ UNCHANGED <<dbVars, processVars, routeVars, logSubscribers, viewers, taskVars,
                   cacheVars, wireVars>>

(* The 45 s or 15 s of a call are over.                                     *)
CallTimeout(r) ==
    /\ r \in timers
    /\ timers' = timers \ {r}
    /\ pending' = [pending EXCEPT ![r] = None]
    /\ call' = [call EXCEPT ![r].state = "timedout"]
    /\ UNCHANGED <<dbVars, processVars, routeVars, logSubscribers, viewers, taskVars,
                   cacheVars, wireVars>>

(* The view may have been closed while findById was under way: nothing      *)
(* looks at it.                                                             *)
StartLogStream(r) ==
    LET a == call[r].agent
        s == socketsByUuid[a]
    IN  /\ r \in Streams /\ call[r].state = "found"
        /\ InventoryRemember(call[r].host, a)
        /\ \/ /\ Reachable(a)
              /\ logSubscribers' = [logSubscribers EXCEPT ![r] = a]
              /\ call' = [call EXCEPT ![r].state = "live", ![r].sock = s]
              /\ down' = Send(down, s, About("logs.subscribe", r))
              /\ UNCHANGED viewers
           \/ /\ ~Reachable(a)
              /\ Refuse(r, "refused")
              /\ UNCHANGED <<logSubscribers, down>>
        /\ UNCHANGED <<owner, clientEnd, serverEnd, up, dbVars, processVars, routeVars,
                       pending, timers, taskVars, metricsHost, metrics>>

(* Mutant: the subscriber is forgotten and the agent is not told.            *)
StopLogStreamQuietly(r) ==
    /\ logSubscribers' = [logSubscribers EXCEPT ![r] = None]
    /\ UNCHANGED down

(* AgentsGateway.stopLogStream.                                             *)
StopLogStream(r) ==
    LET a == logSubscribers[r]
    IN  /\ logSubscribers' = [logSubscribers EXCEPT ![r] = None]
        /\ down' = IF a # None /\ Reachable(a)
                   THEN Send(down, socketsByUuid[a], About("logs.unsubscribe", r))
                   ELSE down

(* The user leaves the log view: the Observable's teardown stops the stream *)
(* if the gateway has returned its requestId by then.                       *)
CloseViewer(r) ==
    /\ r \in viewers
    /\ viewers' = viewers \ {r}
    /\ IF call[r].state = "live"
       THEN /\ StopLogStream(r)
            /\ call' = [call EXCEPT ![r].state = "closed"]
       ELSE UNCHANGED <<logSubscribers, down, call>>
    /\ UNCHANGED <<owner, clientEnd, serverEnd, up, dbVars, processVars, routeVars,
                   pending, timers, taskVars, cacheVars>>

---------------------------------------------------------------------------
(* HostsService.deleteHost: check, then delete by id.                       *)

DeleteHostCheck(a) ==
    /\ serverUp /\ HasRow(a) /\ deleting[a] = None
    /\ rows[a].status # "ONLINE" /\ ~rows[a].recent
    /\ deleting' = [deleting EXCEPT ![a] = rows[a].id]
    /\ UNCHANGED <<dbVars, processVars, routeVars, callVars, regTask, regId, hbTask,
                   offTask, cacheVars, wireVars>>

DeleteHostCommit(a) ==
    /\ deleting[a] # None
    /\ deleting' = [deleting EXCEPT ![a] = None]
    /\ rows' = IF rows[a].id = deleting[a] THEN [rows EXCEPT ![a] = NoRow] ELSE rows
    /\ UNCHANGED <<usedIds, processVars, routeVars, callVars, regTask, regId, hbTask,
                   offTask, cacheVars, wireVars>>

(* Seven days pass while the agent's machine is off.  Bound: only while     *)
(* there are record ids to spare for the agents that have none.             *)
Quiet(a) ==
    \A s \in Sockets : owner[s] = a =>
        /\ clientEnd[s] # "open" /\ serverEnd[s] # "closing"
        /\ regTask[s] = "none" /\ hbTask[s] = "none" /\ ~offTask[s]

SevenDaysPass(a) ==
    /\ HasRow(a) /\ rows[a].recent /\ Quiet(a)
    /\ Cardinality(HostIds \ usedIds) > Cardinality({b \in Agents : ~HasRow(b)})
    /\ rows' = [rows EXCEPT ![a].recent = FALSE]
    /\ UNCHANGED <<usedIds, processVars, routeVars, callVars, taskVars, cacheVars, wireVars>>
===========================================================================
