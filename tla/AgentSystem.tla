---------------------------- MODULE AgentSystem ---------------------------
(***************************************************************************)
(* The server and the agents, composed: one step is a step of one of them,  *)
(* and they share only the sockets.                                         *)
(***************************************************************************)
EXTENDS AgentGateway, AgentClient

CONSTANT Fragile   \* the agents whose machine may vanish without a close

vars == <<wireVars, gatewayVars, agentVars>>

Init == WireInit /\ GatewayInit /\ AgentInit

TypeOK == WireTypeOK /\ CachesTypeOK /\ GatewayTypeOK /\ AgentTypeOK

---------------------------------------------------------------------------
(* The server's steps for one socket: a message, or a continuation.         *)
Receive(s) ==
    \/ ReceiveRegister(s) \/ ReceiveHeartbeat(s) \/ ReceiveListed(s)
    \/ ReceiveMetrics(s) \/ ReceiveResult(s) \/ ReceiveInspected(s) \/ ReceiveChunk(s)
Registration(s) == RegisterUpsert(s) \/ RegisterResume(s)
HeartbeatTask(s) == HeartbeatFind(s) \/ HeartbeatUpdate(s)
SocketStep(s) ==
    \/ Receive(s) \/ Registration(s) \/ HeartbeatTask(s)
    \/ SocketClosing(s) \/ SocketClosed(s) \/ MarkOffline(s)

Dispatch(r) == SendContainerCommand(r) \/ InspectContainer(r) \/ StartLogStream(r)
CallStep(r) ==
    \/ \E a \in Agents : BeginCall(r, a)
    \/ LookupHost(r) \/ Dispatch(r) \/ CallTimeout(r) \/ CloseViewer(r)

HostStep(a) == DeleteHostCheck(a) \/ DeleteHostCommit(a) \/ SevenDaysPass(a)

GatewayNext ==
    \/ \E s \in Sockets : SocketStep(s)
    \/ \E r \in Requests : CallStep(r)
    \/ \E a \in Agents : HostStep(a)
    \/ ServerCrash \/ ServerStart

(* An agent's steps.  It can only dial a server that is there.              *)
Reconnect(a) == \E s \in Sockets : serverUp /\ Dial(a, s)
HandleMessage(a) ==
    \/ HandleContainerList(a) \/ HandleContainerCommand(a) \/ HandleContainerInspect(a)
    \/ HandleLogsSubscribe(a) \/ HandleLogsUnsubscribe(a)
AgentStep(a) ==
    \/ Reconnect(a) \/ Registered(a) \/ RegisterTimeout(a) \/ SessionFails(a)
    \/ HandleMessage(a) \/ Heartbeat(a) \/ HostMetrics(a) \/ PushContainers(a)
    \/ ContainersChange(a) \/ Stop(a) \/ Start(a)
    \/ a \in Fragile /\ Vanish(a)
    \/ \E r \in Streams : EmitLogChunk(a, r) \/ StreamEnds(a, r)

AgentNext == \E a \in Agents : AgentStep(a)

Next ==
    \/ GatewayNext /\ UNCHANGED agentVars
    \/ AgentNext /\ UNCHANGED gatewayVars

Spec == Init /\ [][Next]_vars

---------------------------------------------------------------------------
(* Fairness.  A message that has arrived is delivered, a database access    *)
(* ends, a timer fires, a serving agent reads its socket and beats; a close *)
(* is noticed by the other end unless the machine vanished.  Nothing makes  *)
(* users act, machines start or stop, sockets break or the server crash.    *)
(* The server is restarted: restart: unless-stopped.                        *)
ClientGone(s) == clientEnd[s] = "closed" /\ SocketClosing(s)
ServerGone(a) == sock[a] # None /\ serverEnd[sock[a]] = "closed" /\ SessionFails(a)

ServerFairness ==
    /\ WF_vars(ServerStart /\ UNCHANGED agentVars)
    /\ \A s \in Sockets :
          /\ WF_vars(Receive(s) /\ UNCHANGED agentVars)
          /\ WF_vars(Registration(s) /\ UNCHANGED agentVars)
          /\ WF_vars(HeartbeatTask(s) /\ UNCHANGED agentVars)
          /\ WF_vars(ClientGone(s) /\ UNCHANGED agentVars)
          /\ WF_vars(SocketClosed(s) /\ UNCHANGED agentVars)
          /\ WF_vars(MarkOffline(s) /\ UNCHANGED agentVars)
    /\ \A r \in Requests :
          /\ WF_vars(LookupHost(r) /\ UNCHANGED agentVars)
          /\ WF_vars(Dispatch(r) /\ UNCHANGED agentVars)
          /\ WF_vars(CallTimeout(r) /\ UNCHANGED agentVars)

AgentFairness ==
    \A a \in Agents :
        /\ WF_vars(Reconnect(a) /\ UNCHANGED gatewayVars)
        /\ WF_vars(RegisterTimeout(a) /\ UNCHANGED gatewayVars)
        /\ WF_vars(ServerGone(a) /\ UNCHANGED gatewayVars)
        /\ WF_vars(Registered(a) /\ UNCHANGED gatewayVars)
        /\ WF_vars(HandleMessage(a) /\ UNCHANGED gatewayVars)
        /\ WF_vars(Heartbeat(a) /\ UNCHANGED gatewayVars)

FairSpec == Spec /\ ServerFairness /\ AgentFairness

---------------------------------------------------------------------------
(* Safety.                                                                  *)

AboutCall(s) == {i \in DOMAIN down[s] : down[s][i].req # None}

(* A call reaches only the agent of the host it names: the socket an agent  *)
(* is reached on was dialled by that agent, a message about a call is on    *)
(* the socket it was sent on, and only the addressed agent carries it out,  *)
(* at most once, whatever reconnects happen around it.                      *)
RoutingSound ==
    /\ \A a \in Agents : socketsByUuid[a] # None =>
          /\ owner[socketsByUuid[a]] = a
          /\ agentUuid[socketsByUuid[a]] = a
    /\ \A s \in Sockets : \A i \in AboutCall(s) :
          /\ call[down[s][i].req].agent = owner[s]
          /\ down[s][i].type # "logs.unsubscribe" => call[down[s][i].req].sock = s
    /\ \A r \in Requests :
          /\ effect[r].count <= 1
          /\ effect[r].count = 1 => effect[r].agent = call[r].agent

(* The answer a user gets is the agent's: the call was carried out, and     *)
(* with the outcome reported.                                               *)
AnswerIsTrue ==
    \A r \in Calls : call[r].state = "answered" =>
        effect[r].count = 1 /\ effect[r].ok = call[r].ok

(* A call refused with "not found" or "not connected" is never carried out, *)
(* not even later: the user may safely repeat it.                           *)
RefusedNeverRuns ==
    \A r \in Requests : call[r].state \in Refusals =>
        /\ effect[r].count = 0
        /\ \A s \in Sockets : \A i \in DOMAIN down[s] : down[s][i].req # r

(* A call waits exactly as long as its entry and its timer exist, so none   *)
(* is forgotten and no timer outlives its call.                             *)
WaitingIsTimed ==
    \A r \in Calls :
        /\ call[r].state = "waiting" <=> r \in timers
        /\ call[r].state = "waiting" <=> pending[r] # None
        /\ pending[r] # None => pending[r] = call[r].agent

(* No call waits for an answer on a socket whose close was handled: a       *)
(* disconnect releases the callers at once instead of letting them time out.*)
NoCallWaitsOnClosedSocket ==
    \A r \in Calls : call[r].state = "waiting" =>
        serverEnd[call[r].sock] \in {"open", "closing"}

(* waitRegistered discards whatever comes before the acknowledgement, so    *)
(* nothing may: the first message on a new socket is agent.registered.      *)
NothingDiscarded ==
    \A a \in Agents : session[a] = "registering" /\ down[sock[a]] # <<>> =>
        Head(down[sock[a]]).type = "agent.registered"

(* What the server keeps for a host is that host's: its inventory was       *)
(* listed by the agent whose record has that id, and shows a container set  *)
(* the agent had.                                                           *)
CachesBelong ==
    \A a \in Agents : HasRow(a) =>
        /\ inventory[rows[a].id].agent \in {a, None}
        /\ inventory[rows[a].id].ver <= docker[a]
        /\ metrics[rows[a].id] \in {a, None}

(* While an agent's first connection lives, the reader the agent holds for a  *)
(* log view is known to the server or about to be released.  It is not so    *)
(* once the agent has reconnected: the late close of the old socket drops    *)
(* the subscribers of the new one (handleDisconnect goes by the agent).      *)
NoAbandonedReader ==
    \A a \in Agents : \A r \in logReaders[a] :
        \/ \E s \in Sockets : owner[s] = a /\ s # sock[a]
        \/ logSubscribers[r] = a
        \/ serverEnd[sock[a]] # "open"
        \/ \E i \in DOMAIN down[sock[a]] :
              down[sock[a]][i] = About("logs.unsubscribe", r)

(* The server forwards chunks only to a view that is open.                  *)
NoSubscriberWithoutViewer ==
    \A r \in Streams : logSubscribers[r] # None => r \in viewers

(* A caller is told "Agent disconnected" only when the connection its call   *)
(* went out on has ended.                                                   *)
DisconnectedMeansGone ==
    [][\A r \in Calls : call[r].state = "waiting" /\ call'[r].state = "disconnected" =>
           serverEnd'[call[r].sock] = "closed"]_call

(* deleteHost: "Cannot be currently ONLINE".                                *)
DeletedWasOffline ==
    [][\A a \in Agents : HasRow(a) /\ rows'[a].id = None => rows[a].status # "ONLINE"]_rows

---------------------------------------------------------------------------
(* The calls keep the contract of CommandContract.                          *)

(* What the user knows of a call, and what happened to it on the host.        *)
Outcome(c) ==
    CASE c.state = "idle" -> "idle"
      [] c.state \in InProgress -> "open"
      [] c.state \in Refusals -> "refused"
      [] c.state = "answered" -> IF c.ok THEN "succeeded" ELSE "failed"
      [] OTHER -> "unknown"
Done(e) == IF e.count = 0 THEN "no" ELSE IF e.ok THEN "succeeded" ELSE "failed"

Contract == INSTANCE CommandContract
                WITH outcome <- [r \in Calls |-> Outcome(call[r])],
                     done <- [r \in Calls |-> Done(effect[r])]

(* Lifecycle commands and inspects implement CommandContract.               *)
KeepsContract == Contract!ContractSpec

---------------------------------------------------------------------------
(* Liveness.                                                                *)

(* Every call ends.                                                         *)
EveryCallEnds ==
    \A r \in Calls : call[r].state \in InProgress ~> call[r].state \notin InProgress

(* An agent that stays in session ends up shown ONLINE and reachable on its *)
(* present socket, whatever stale disconnects it met: the next heartbeat    *)
(* repairs them.                                                            *)
PresenceRepaired ==
    \A a \in Agents :
        <>[](session[a] = "serving")
            => <>[](HasRow(a) => rows[a].status = "ONLINE" /\ socketsByUuid[a] = sock[a])

(* An agent that is gone for good ends up shown OFFLINE.                    *)
GoneIsOffline ==
    \A a \in Agents :
        <>[](session[a] = "stopped") => <>[](rows[a].status = "OFFLINE")
===========================================================================
