--------------------------- MODULE DeliveryProofs --------------------------
(***************************************************************************)
(* That calls are delivered to the agent they name, carried out at most once *)
(* and answered truthfully: for any numbers of agents, sockets and calls.   *)
(*                                                                         *)
(* The invariant follows a call along its way.  A message about it is on the *)
(* socket it was sent on (RequestsOnTheirWay), alone and not yet carried out *)
(* (AsksPending); what was carried out had been sent (EffectsAsked); and an  *)
(* answer on its way reports it (AnswersOnTheirWay).  A call that was sent    *)
(* never becomes unsent, and keeps its socket and its agent, which is why a  *)
(* request left on an old socket after a reconnect does no harm.             *)
(*                                                                         *)
(* With that the lifecycle commands and inspects implement CommandContract: the *)
(* mapping takes a call's state to what its user knows and its effect to what   *)
(* happened on the host, and the invariant supplies what a step of the contract *)
(* requires.                                                               *)
(*                                                                         *)
(* Last, the log readers of the agents: a view an agent reads is one the server *)
(* streams for, or one whose release is on its way behind every request for it *)
(* (ReadersTracked), as long as the agent's first connection lives.          *)
(***************************************************************************)
EXTENDS AgentSystemProofs

(* A call in one of these states was never given to a socket.               *)
Unsent == {"idle", "lookup", "found"} \cup Refusals
Sent(r) == call[r].state \notin Unsent

(* A message about a call is on a socket of the agent addressed, and, but   *)
(* for an unsubscribe, on the very socket the call was sent on.             *)
RequestsOnTheirWay ==
    \A s \in Sockets : \A m \in Contents(down[s]) : m.req # None =>
        /\ owner[s] \in Agents /\ call[m.req].agent = owner[s]
        /\ Sent(m.req)
        /\ m.type # "logs.unsubscribe" => call[m.req].sock = s

(* What is still on its way was not carried out yet.                        *)
AsksPending ==
    \A s \in Sockets :
        /\ AskedOnce(down[s])
        /\ \A m \in Contents(down[s]) : m.type \in Asks => effect[m.req].count = 0

(* Only what was sent is carried out, once, and by the agent addressed.     *)
EffectsAsked ==
    \A r \in Requests : effect[r].count > 0 =>
        effect[r].count = 1 /\ Sent(r) /\ effect[r].agent = call[r].agent

(* An answer on its way reports what was done.                              *)
AnswersOnTheirWay ==
    \A s \in Sockets : \A m \in Contents(up[s]) : m.type \in Answers =>
        effect[m.req].count = 1 /\ effect[m.req].ok = m.ok

(* A live log view belongs to the agent its call addressed.                 *)
SubscribersSent ==
    \A r \in Streams : logSubscribers[r] # None =>
        Sent(r) /\ logSubscribers[r] = call[r].agent

(* The part of the invariant about messages and effects.                    *)
CallsDelivered ==
    /\ RequestsOnTheirWay /\ AsksPending /\ EffectsAsked /\ AnswersOnTheirWay
    /\ AnswerIsTrue /\ SubscribersSent

DeliveryInv == RouteInv /\ CallsDelivered

---------------------------------------------------------------------------
(* What a step may do to calls, sockets and queues without disturbing a part *)
(* of the invariant.  A call sent stays sent, on its socket and to its agent. *)
CallsStable ==
    \A r \in Requests : Sent(r) =>
        /\ call'[r].agent = call[r].agent
        /\ call'[r].sock = call[r].sock
        /\ call'[r].state \notin Unsent
(* Nothing new is on its way to an agent.                                   *)
QueuesShrink ==
    \A s \in Sockets : /\ Contents(down'[s]) \subseteq Contents(down[s])
                       /\ AskedOnce(down[s]) => AskedOnce(down'[s])
(* No new answer is on its way to the server.                               *)
AnswersShrink ==
    \A s \in Sockets : \A m \in Contents(up'[s]) : m.type \in Answers => m \in Contents(up[s])
(* No call is answered.                                                     *)
NoNewAnswer ==
    \A r \in Calls : call'[r].state = "answered" =>
        call[r].state = "answered" /\ call'[r].ok = call[r].ok
(* No log view becomes live.                                                *)
SubscribersShrink ==
    \A r \in Streams : logSubscribers'[r] \in {None, logSubscribers[r]}

(* What each part of the invariant needs of a step that carries out nothing. *)
LEMMA DeliveryFrame ==
    ASSUME DeliveryInv
    PROVE  /\ CallsStable /\ OwnersKept /\ QueuesShrink => RequestsOnTheirWay'
           /\ UNCHANGED effect /\ QueuesShrink => AsksPending'
           /\ UNCHANGED effect /\ CallsStable => EffectsAsked'
           /\ UNCHANGED effect /\ AnswersShrink => AnswersOnTheirWay'
           /\ UNCHANGED effect /\ NoNewAnswer => AnswerIsTrue'
           /\ CallsStable /\ SubscribersShrink => SubscribersSent'
<1>. USE DEF DeliveryInv, CallsDelivered
<1>0. TypeInv
  BY DEF RouteInv
<1>1. ASSUME CallsStable, OwnersKept, QueuesShrink
      PROVE  RequestsOnTheirWay'
  <2>. SUFFICES ASSUME NEW s \in Sockets, NEW m \in Contents(down'[s]), m.req # None
                PROVE  /\ owner'[s] \in Agents /\ call'[m.req].agent = owner'[s]
                       /\ call'[m.req].state \notin Unsent
                       /\ m.type # "logs.unsubscribe" => call'[m.req].sock = s
    BY DEF RequestsOnTheirWay, Sent
  <2>1. m \in Contents(down[s])
    BY <1>1 DEF QueuesShrink
  <2>2. m.req \in Requests
    BY <1>0, <2>1, MessageNames, NamedAbout
  <2>3. /\ owner[s] \in Agents /\ call[m.req].agent = owner[s] /\ Sent(m.req)
        /\ m.type # "logs.unsubscribe" => call[m.req].sock = s
    BY <2>1 DEF RequestsOnTheirWay
  <2>. QED
    BY <1>1, <2>2, <2>3 DEF CallsStable, OwnersKept
<1>2. ASSUME UNCHANGED effect, QueuesShrink
      PROVE  AsksPending'
  BY <1>2 DEF AsksPending, QueuesShrink
<1>3. ASSUME UNCHANGED effect, CallsStable
      PROVE  EffectsAsked'
  BY <1>3 DEF EffectsAsked, CallsStable, Sent
<1>4. ASSUME UNCHANGED effect, AnswersShrink
      PROVE  AnswersOnTheirWay'
  BY <1>4 DEF AnswersOnTheirWay, AnswersShrink
<1>5. ASSUME UNCHANGED effect, NoNewAnswer
      PROVE  AnswerIsTrue'
  BY <1>5 DEF AnswerIsTrue, NoNewAnswer
<1>6. ASSUME CallsStable, SubscribersShrink
      PROVE  SubscribersSent'
  BY <1>6 DEF SubscribersSent, CallsStable, SubscribersShrink, Sent, Requests
<1>. QED
  BY <1>1, <1>2, <1>3, <1>4, <1>5, <1>6

---------------------------------------------------------------------------
(* New messages to one agent keep the invariant when they are about calls   *)
(* sent to it that were not carried out.                                    *)
LEMMA DownGrows ==
    ASSUME DeliveryInv, CallsStable, OwnersKept, UNCHANGED effect,
           NEW s \in Sockets, NEW new \in SUBSET Named(ServerMessage),
           \A t \in Sockets :
              /\ Contents(down'[t]) \subseteq Contents(down[t]) \cup (IF t = s THEN new ELSE {})
              /\ AskedOnce(down'[t]),
           \A m \in new : m.req # None =>
              /\ owner'[s] \in Agents /\ call'[m.req].agent = owner'[s]
              /\ call'[m.req].state \notin Unsent
              /\ m.type # "logs.unsubscribe" => call'[m.req].sock = s,
           \A m \in new : m.type \in Asks => effect[m.req].count = 0
    PROVE  RequestsOnTheirWay' /\ AsksPending'
<1>. USE DEF DeliveryInv, CallsDelivered
<1>1. ASSUME NEW t \in Sockets, NEW m \in Contents(down'[t]), m.req # None
      PROVE  /\ owner'[t] \in Agents /\ call'[m.req].agent = owner'[t]
             /\ call'[m.req].state \notin Unsent
             /\ m.type # "logs.unsubscribe" => call'[m.req].sock = t
  <2>1. CASE m \in Contents(down[t])
    <3>1. m.req \in Requests
      BY <1>1, <2>1, MessageNames, NamedAbout DEF RouteInv
    <3>. QED
      BY <1>1, <2>1, <3>1 DEF RequestsOnTheirWay, CallsStable, OwnersKept
  <2>2. CASE m \in new /\ t = s
    BY <1>1, <2>2
  <2>. QED
    BY <1>1, <2>1, <2>2
<1>2. RequestsOnTheirWay'
  BY <1>1 DEF RequestsOnTheirWay, Sent
<1>3. AsksPending'
  BY DEF AsksPending
<1>. QED
  BY <1>2, <1>3

(* Delivering a message to the server brings no answer on its way.          *)
LEMMA ConsumeShrinks ==
    ASSUME TypeInv, NEW s \in Sockets, up[s] # <<>>, Consume(s)
    PROVE  AnswersShrink
<1>1. up \in [Sockets -> Seq(Named(AgentMessage))]
  BY DEF TypeInv, MessagesNamed
<1>2. up[s] \in Seq(Named(AgentMessage)) /\ up' = [up EXCEPT ![s] = Tail(up[s])]
  BY <1>1 DEF Consume
<1>3. Contents(Tail(up[s])) \subseteq Contents(up[s])
  BY <1>2, TailContents
<1>. QED
  BY <1>1, <1>2, <1>3 DEF AnswersShrink

(* Delivering one to an agent removes the only request about its call.      *)
LEMMA TakeShrinks ==
    ASSUME TypeInv, NEW s \in Sockets, down[s] # <<>>, down' = [down EXCEPT ![s] = Tail(@)]
    PROVE  /\ QueuesShrink
           /\ Head(down[s]) \in Contents(down[s])
           /\ AskedOnce(down[s]) /\ Head(down[s]).type \in Asks =>
                 \A m \in Contents(down'[s]) : m.req # Head(down[s]).req
<1>1. down \in [Sockets -> Seq(Named(ServerMessage))]
  BY DEF TypeInv, MessagesNamed
<1>2. down[s] \in Seq(Named(ServerMessage)) /\ down' = [down EXCEPT ![s] = Tail(down[s])]
  BY <1>1
<1>3. /\ down'[s] = Tail(down[s])
      /\ \A t \in Sockets : t # s => down'[t] = down[t]
  BY <1>1, <1>2
<1>. QED
  BY <1>2, <1>3, TailContents DEF QueuesShrink

(* So does losing queues.                                                   *)
LEMMA EmptyShrinks ==
    ASSUME NEW S \in SUBSET Sockets
    PROVE  /\ down' = [s \in Sockets |-> IF s \in S THEN <<>> ELSE down[s]] => QueuesShrink
           /\ up' = [s \in Sockets |-> IF s \in S THEN <<>> ELSE up[s]] => AnswersShrink
BY EmptyContents DEF QueuesShrink, AnswersShrink

(* What a step leaves alone does not grow.                                  *)
LEMMA SameShrinks ==
    /\ UNCHANGED down => QueuesShrink
    /\ UNCHANGED up => AnswersShrink
    /\ UNCHANGED owner => OwnersKept
    /\ UNCHANGED call => CallsStable /\ NoNewAnswer
    /\ UNCHANGED logSubscribers => SubscribersShrink
BY DEF QueuesShrink, AnswersShrink, OwnersKept, CallsStable, NoNewAnswer, SubscribersShrink,
   Sent, Calls, Requests

(* A step without new messages, answers or effects.                         *)
LEMMA QuietDelivery ==
    ASSUME DeliveryInv, UNCHANGED effect,
           CallsStable, NoNewAnswer, OwnersKept, QueuesShrink, AnswersShrink, SubscribersShrink
    PROVE  CallsDelivered'
BY DeliveryFrame DEF CallsDelivered

(* A step that leaves the calls alone, too.                                 *)
LEMMA SameDelivery ==
    ASSUME DeliveryInv, UNCHANGED <<owner, effect, call, logSubscribers>>,
           QueuesShrink, AnswersShrink
    PROVE  CallsDelivered'
BY QuietDelivery, SameShrinks

(* The end of the server process.                                           *)
LEMMA ServerLostDelivery ==
    ASSUME DeliveryInv, ServerLost, UNCHANGED effect
    PROVE  CallsDelivered'
<1>1. call \in [Requests -> CallRecord]
  BY DEF DeliveryInv, RouteInv, TypeInv, CallTypeOK
<1>2. \A r \in Requests : \/ call'[r] = call[r]
                         \/ call'[r] = [call[r] EXCEPT !.state = "aborted"]
  BY DEF ServerLost
<1>a. ASSUME NEW r \in Requests
      PROVE  /\ call'[r].agent = call[r].agent /\ call'[r].sock = call[r].sock
             /\ call'[r].ok = call[r].ok /\ call'[r].state \in {call[r].state, "aborted"}
  <2>1. call[r] \in CallRecord
    BY <1>1
  <2>2. call'[r] = call[r] \/ call'[r] = [call[r] EXCEPT !.state = "aborted"]
    BY <1>2
  <2>. QED
    BY <2>1, <2>2 DEF CallRecord
<1>b. CallsStable
  BY <1>a DEF CallsStable, Sent, Unsent, Refusals
<1>c. NoNewAnswer
  BY <1>a DEF NoNewAnswer, Calls, Requests
<1>3. CallsStable /\ NoNewAnswer
  BY <1>b, <1>c
<1>4. QueuesShrink /\ AnswersShrink /\ OwnersKept /\ SubscribersShrink
  BY SameShrinks, EmptyContents DEF ServerLost, AnswersShrink, SubscribersShrink
<1>. QED
  BY <1>3, <1>4, QuietDelivery

(* The answer a waiting call gets reports what was done.                    *)
LEMMA ResolveDelivery ==
    ASSUME DeliveryInv, UNCHANGED <<owner, down, effect, logSubscribers>>,
           NEW s \in Sockets, NEW m \in Contents(up[s]), m.type \in Answers,
           AnswersShrink, Resolve(m.req, m.ok)
    PROVE  CallsDelivered'
<1>. DEFINE r == m.req
<1>1. r \in Calls /\ r \in Requests
  BY MessageNames, NamedAbout DEF DeliveryInv, RouteInv, Calls, Requests
<1>2. effect[r].count = 1 /\ effect[r].ok = m.ok
  BY DEF DeliveryInv, CallsDelivered, AnswersOnTheirWay
<1>3. call \in [Requests -> CallRecord]
  BY DEF DeliveryInv, RouteInv, TypeInv, CallTypeOK
<1>4. \/ UNCHANGED call
      \/ /\ Sent(r) 
         /\ call' = [call EXCEPT ![r] = [call[r] EXCEPT !.state = "answered", !.ok = m.ok]]
  BY <1>1, <1>3 DEF Resolve, DeliveryInv, RouteInv, WaitingIsTimed, Sent, Unsent, Refusals
<1>5. /\ \A q \in Requests : q # r => call'[q] = call[q]
      /\ \/ call'[r] = call[r]
         \/ /\ call'[r].state = "answered" /\ call'[r].ok = m.ok
            /\ call'[r].agent = call[r].agent /\ call'[r].sock = call[r].sock
  <2>1. CASE UNCHANGED call
    BY <2>1
  <2>2. CASE call' = [call EXCEPT ![r] = [call[r] EXCEPT !.state = "answered", !.ok = m.ok]]
    <3>1. call'[r] = [call[r] EXCEPT !.state = "answered", !.ok = m.ok]
      BY <1>1, <1>3, <2>2
    <3>2. call[r] \in CallRecord
      BY <1>1, <1>3
    <3>. QED
      BY <1>1, <1>3, <2>2, <3>1, <3>2 DEF CallRecord
  <2>. QED
    BY <1>4, <2>1, <2>2
<1>6. CallsStable
  BY <1>1, <1>5 DEF CallsStable, Unsent, Refusals, Sent
<1>7. AnswerIsTrue'
  BY <1>1, <1>2, <1>5 DEF DeliveryInv, CallsDelivered, AnswerIsTrue, Calls, Requests
<1>. QED
  BY <1>6, <1>7, DeliveryFrame, SameShrinks DEF CallsDelivered

(* The handlers of the agents' messages.                                    *)
LEMMA ReceiveDelivery ==
    ASSUME DeliveryInv, NEW s \in Sockets, Receive(s), UNCHANGED agentVars
    PROVE  CallsDelivered'
<1>1. /\ up[s] # <<>> /\ Consume(s)
      /\ UNCHANGED <<owner, down, effect, logSubscribers>>
  BY DEF Receive, ReceiveRegister, ReceiveHeartbeat, ReceiveListed, ReceiveMetrics,
     ReceiveResult, ReceiveInspected, ReceiveChunk, Arrives, callVars, gatewayVars,
     agentVars
<1>2. AnswersShrink
  BY <1>1, ConsumeShrinks DEF DeliveryInv, RouteInv
<1>3. CASE ReceiveResult(s) \/ ReceiveInspected(s)
  <2>1. up[s] \in Seq(Named(AgentMessage))
    BY DEF DeliveryInv, RouteInv, TypeInv, MessagesNamed
  <2>2. Head(up[s]) \in Contents(up[s])
    BY <1>1, <2>1, TailContents
  <2>3. Head(up[s]).type \in Answers /\ Resolve(Head(up[s]).req, Head(up[s]).ok)
    BY <1>3 DEF ReceiveResult, ReceiveInspected, Arrives, Answers
  <2>. QED
    BY <1>1, <1>2, <2>2, <2>3, ResolveDelivery
<1>4. CASE ~(ReceiveResult(s) \/ ReceiveInspected(s))
  <2>1. UNCHANGED call
    BY <1>4 DEF Receive, ReceiveRegister, ReceiveHeartbeat, ReceiveListed, ReceiveMetrics,
       ReceiveChunk, callVars, gatewayVars
  <2>. QED
    BY <1>1, <1>2, <2>1, SameShrinks, SameDelivery
<1>. QED
  BY <1>3, <1>4

(* handleDisconnect gives calls up and answers none.                        *)
LEMMA SocketClosedDelivery ==
    ASSUME DeliveryInv, NEW s \in Sockets, SocketClosed(s), UNCHANGED agentVars
    PROVE  CallsDelivered'
<1>1. call \in [Requests -> CallRecord] /\ up \in [Sockets -> Seq(Named(AgentMessage))]
  BY DEF DeliveryInv, RouteInv, TypeInv, CallTypeOK, MessagesNamed
<1>2. \A r \in Requests :
         \/ call'[r] = call[r]
         \/ /\ r \in Calls /\ pending[r] # None
            /\ call'[r] = [call[r] EXCEPT !.state = "disconnected"]
  BY <1>1 DEF SocketClosed, HandleDisconnect
<1>a. ASSUME NEW r \in Requests
      PROVE  /\ call'[r].agent = call[r].agent /\ call'[r].sock = call[r].sock
             /\ call'[r].ok = call[r].ok /\ call'[r].state \in {call[r].state, "disconnected"}
  <2>1. call[r] \in CallRecord
    BY <1>1
  <2>2. call'[r] = call[r] \/ call'[r] = [call[r] EXCEPT !.state = "disconnected"]
    BY <1>2
  <2>. QED
    BY <2>1, <2>2 DEF CallRecord
<1>b. CallsStable
  BY <1>a DEF CallsStable, Sent, Unsent, Refusals
<1>c. NoNewAnswer
  BY <1>a DEF NoNewAnswer, Calls, Requests
<1>3. CallsStable /\ NoNewAnswer
  BY <1>b, <1>c
<1>4. SubscribersShrink
  BY DEF SocketClosed, HandleDisconnect, SubscribersShrink
<1>5. AnswersShrink
  BY <1>1, EmptyContents DEF SocketClosed, AnswersShrink
<1>. QED
  BY <1>3, <1>4, <1>5, QuietDelivery, SameShrinks DEF SocketClosed, agentVars

(* The acknowledgement and the list request are about no call.              *)
LEMMA ResumeDelivery ==
    ASSUME DeliveryInv, NEW s \in Sockets, RegisterResume(s), UNCHANGED agentVars
    PROVE  CallsDelivered'
<1>. DEFINE m1 == Envelope("agent.registered")
            m2 == Envelope("container.list")
            mid == Send(down, s, m1)
<1>1. UNCHANGED <<owner, up, effect, call, logSubscribers>> /\ down' = Send(mid, s, m2)
  BY DEF RegisterResume, agentVars, callVars
<1>2. /\ m1 \in Named(ServerMessage) /\ m1.req = None /\ m1.type \notin Asks
      /\ m2 \in Named(ServerMessage) /\ m2.req = None /\ m2.type \notin Asks
  BY DEF Envelope, Named, Names, Message, ServerMessage, Asks
<1>3. down \in [Sockets -> Seq(Named(ServerMessage))]
  BY DEF DeliveryInv, RouteInv, TypeInv, MessagesNamed
<1>4. mid \in [Sockets -> Seq(Named(ServerMessage))]
  BY <1>2, <1>3, SendType
<1>5. \A q \in Seq(Named(ServerMessage)) : \A n \in Contents(q) :
         /\ n.req = m1.req => {m1.type, n.type} \cap Asks = {}
         /\ n.req = m2.req => {m2.type, n.type} \cap Asks = {}
  <2>1. ASSUME NEW q \in Seq(Named(ServerMessage)), NEW n \in Contents(q), n.req = None
        PROVE  n.type \notin Asks
    BY <2>1, ContentsIn, NamedAbout
  <2>. QED
    BY <1>2, <2>1
<1>. HIDE DEF m1, m2
<1>6. \A t \in Sockets :
         /\ Contents(mid[t]) \subseteq Contents(down[t]) \cup (IF t = s THEN {m1} ELSE {})
         /\ AskedOnce(down[t]) => AskedOnce(mid[t])
  BY <1>2, <1>3, <1>5, SendContents
<1>. HIDE DEF mid
<1>7. \A t \in Sockets :
         /\ Contents(down'[t]) \subseteq Contents(mid[t]) \cup (IF t = s THEN {m2} ELSE {})
         /\ AskedOnce(mid[t]) => AskedOnce(down'[t])
  <2>. SUFFICES ASSUME NEW t \in Sockets
                PROVE  /\ Contents(Send(mid, s, m2)[t]) \subseteq
                            Contents(mid[t]) \cup (IF t = s THEN {m2} ELSE {})
                       /\ AskedOnce(mid[t]) => AskedOnce(Send(mid, s, m2)[t])
    BY <1>1
  <2>1. \A n \in Contents(mid[s]) : n.req = m2.req => {m2.type, n.type} \cap Asks = {}
    BY <1>4, <1>5
  <2>. QED
    BY <1>2, <1>4, <2>1, SendContents
<1>8. \A t \in Sockets :
         /\ Contents(down'[t]) \subseteq Contents(down[t]) \cup (IF t = s THEN {m1, m2} ELSE {})
         /\ AskedOnce(down'[t])
  BY <1>6, <1>7 DEF DeliveryInv, CallsDelivered, AsksPending
<1>9. RequestsOnTheirWay' /\ AsksPending'
  <2>1. CallsStable /\ OwnersKept /\ UNCHANGED effect
    BY <1>1, SameShrinks
  <2>2. /\ {m1, m2} \in SUBSET Named(ServerMessage)
        /\ \A m \in {m1, m2} : m.req = None /\ m.type \notin Asks
    BY <1>2
  <2>. QED
    BY <1>8, <2>1, <2>2, DownGrows
<1>. QED
  BY <1>1, <1>9, SameShrinks, DeliveryFrame DEF CallsDelivered

(* The server's steps for a socket.                                         *)
LEMMA SocketDelivery ==
    ASSUME DeliveryInv, NEW s \in Sockets, SocketStep(s), UNCHANGED agentVars
    PROVE  CallsDelivered'
<1>1. CASE RegisterUpsert(s) \/ HeartbeatFind(s) \/ HeartbeatUpdate(s)
  <2>1. ServerLost \/ UNCHANGED <<wireVars, callVars>>
    BY <1>1 DEF RegisterUpsert, HeartbeatFind, HeartbeatUpdate, UnhandledDbFault
  <2>. QED
    BY <2>1, ServerLostDelivery, SameShrinks, SameDelivery DEF wireVars, callVars, agentVars
<1>2. CASE SocketClosing(s) \/ MarkOffline(s)
  BY <1>2, SameShrinks, SameDelivery DEF SocketClosing, MarkOffline, wireVars, callVars,
     gatewayVars, agentVars
<1>. QED
  BY <1>1, <1>2, ReceiveDelivery, ResumeDelivery, SocketClosedDelivery DEF SocketStep,
     Registration, HeartbeatTask

(* Changing a call that was not sent, or moving a sent one on.              *)
LEMMA CallKept ==
    ASSUME DeliveryInv, NEW r \in Requests, NEW c, call' = [call EXCEPT ![r] = c],
           c.state # "answered",
           \/ ~Sent(r)
           \/ c.agent = call[r].agent /\ c.sock = call[r].sock /\ c.state \notin Unsent
    PROVE  CallsStable /\ NoNewAnswer
<1>1. call \in [Requests -> CallRecord]
  BY DEF DeliveryInv, RouteInv, TypeInv, CallTypeOK
<1>2. call'[r] = c /\ \A q \in Requests : q # r => call'[q] = call[q]
  BY <1>1
<1>3. CallsStable
  BY <1>2 DEF CallsStable, Sent
<1>4. NoNewAnswer
  BY <1>2 DEF NoNewAnswer, Calls, Requests
<1>. QED
  BY <1>3, <1>4

(* The same when only its state changes.                                    *)
LEMMA StateKept ==
    ASSUME DeliveryInv, NEW r \in Requests, NEW state \in CallStates \ {"answered"},
           call' = [call EXCEPT ![r].state = state],
           ~Sent(r) \/ state \notin Unsent
    PROVE  CallsStable /\ NoNewAnswer
<1>. DEFINE c == [call[r] EXCEPT !.state = state]
<1>1. call \in [Requests -> CallRecord]
  BY DEF DeliveryInv, RouteInv, TypeInv, CallTypeOK
<1>2. call' = [call EXCEPT ![r] = c]
  BY <1>1
<1>3. c.state = state /\ c.agent = call[r].agent /\ c.sock = call[r].sock
  BY <1>1 DEF CallRecord
<1>. HIDE DEF c
<1>. QED
  BY <1>2, <1>3, CallKept

(* Sending a call: nothing about it was on its way or done before.          *)
LEMMA DispatchDelivery ==
    ASSUME DeliveryInv, UNCHANGED <<owner, up, effect>>,
           NEW r \in Requests, call[r].state = "found",
           NEW s \in Sockets, owner[s] = call[r].agent, owner[s] \in Agents,
           NEW state \in {"waiting", "live"}, NEW type, About(type, r) \in Named(ServerMessage),
           call' = [call EXCEPT ![r].state = state, ![r].sock = s],
           down' = Send(down, s, About(type, r)),
           \/ UNCHANGED logSubscribers
           \/ r \in Streams /\ logSubscribers' = [logSubscribers EXCEPT ![r] = call[r].agent]
    PROVE  CallsDelivered'
<1>. DEFINE a == call[r].agent
            m == About(type, r)
            c == [call[r] EXCEPT !.state = state, !.sock = s]
<1>1. /\ call \in [Requests -> CallRecord] /\ down \in [Sockets -> Seq(Named(ServerMessage))]
      /\ logSubscribers \in [Streams -> Agents \cup {None}]
  BY DEF DeliveryInv, RouteInv, TypeInv, CallTypeOK, MessagesNamed
<1>2. a \in Agents /\ s \in Sockets /\ owner[s] = a
  OBVIOUS
<1>3. ~Sent(r)
  BY DEF Sent, Unsent
<1>4. call' = [call EXCEPT ![r] = c]
  BY <1>1
<1>5. c.state = state /\ c.sock = s /\ c.agent = a
  BY <1>1 DEF CallRecord
<1>6. call'[r] = c
  BY <1>1, <1>4
<1>7. CallsStable /\ NoNewAnswer
  BY <1>3, <1>4, <1>5, CallKept
<1>8. m \in Named(ServerMessage) /\ m.req = r /\ m.req # None
  BY WireAssumption DEF About, Envelope
<1>9. \A n \in Contents(down[s]) : n.req # r
  BY <1>2, <1>3, <1>8 DEF DeliveryInv, CallsDelivered, RequestsOnTheirWay
<1>10. \A t \in Sockets :
          /\ Contents(down'[t]) \subseteq Contents(down[t]) \cup (IF t = s THEN {m} ELSE {})
          /\ AskedOnce(down'[t])
  <2>. SUFFICES ASSUME NEW t \in Sockets
                PROVE  /\ Contents(Send(down, s, m)[t]) \subseteq
                             Contents(down[t]) \cup (IF t = s THEN {m} ELSE {})
                       /\ AskedOnce(down[t]) => AskedOnce(Send(down, s, m)[t])
    BY DEF DeliveryInv, CallsDelivered, AsksPending
  <2>1. /\ down \in [Sockets -> Seq(Named(ServerMessage))] /\ s \in Sockets
        /\ m \in Named(ServerMessage)
        /\ \A n \in Contents(down[s]) : n.req = m.req => {m.type, n.type} \cap Asks = {}
    BY <1>1, <1>2, <1>8, <1>9
  <2>. HIDE DEF m
  <2>. QED
    BY <2>1, SendContents
<1>11. effect[r].count = 0
  BY <1>1, <1>3 DEF DeliveryInv, CallsDelivered, EffectsAsked, RouteInv, TypeInv,
     AgentTypeOK
<1>12. RequestsOnTheirWay' /\ AsksPending'
  <2>0. DeliveryInv /\ s \in Sockets
    BY <1>2
  <2>1. OwnersKept /\ CallsStable /\ UNCHANGED effect
    BY <1>7, SameShrinks
  <2>. DEFINE new == {m}
  <2>2. new \in SUBSET Named(ServerMessage)
    BY <1>8
  <2>3. \A n \in new : n.req # None =>
              /\ owner'[s] \in Agents /\ call'[n.req].agent = owner'[s]
              /\ call'[n.req].state \notin Unsent
              /\ n.type # "logs.unsubscribe" => call'[n.req].sock = s
    BY <1>2, <1>5, <1>6, <1>8 DEF Unsent, Refusals
  <2>4. \A n \in new : n.type \in Asks => effect[n.req].count = 0
    BY <1>8, <1>11
  <2>5. \A t \in Sockets :
          /\ Contents(down'[t]) \subseteq Contents(down[t]) \cup (IF t = s THEN new ELSE {})
          /\ AskedOnce(down'[t])
    BY <1>10
  <2>. HIDE DEF m, new
  <2>. QED
    BY ONLY <2>0, <2>1, <2>2, <2>3, <2>4, <2>5, DownGrows
<1>13. SubscribersSent'
  <2>1. CASE UNCHANGED logSubscribers
    BY <1>7, <2>1, SameShrinks, DeliveryFrame
  <2>2. CASE r \in Streams /\ logSubscribers' = [logSubscribers EXCEPT ![r] = a]
    <3>1. \A q \in Streams : q # r => logSubscribers'[q] = logSubscribers[q] /\ q \in Requests
      BY <1>1, <2>2 DEF Requests
    <3>2. \A q \in Streams : q # r /\ logSubscribers[q] # None =>
             call'[q].state \notin Unsent /\ call'[q].agent = logSubscribers[q]
      BY <1>7, <3>1 DEF CallsStable, DeliveryInv, CallsDelivered, SubscribersSent
    <3>3. call'[r].state \notin Unsent /\ call'[r].agent = a /\ logSubscribers'[r] = a
      BY <1>1, <1>5, <1>6, <2>2 DEF Unsent, Refusals
    <3>. QED
      BY <3>1, <3>2, <3>3 DEF SubscribersSent, Sent
  <2>. QED
    BY <2>1, <2>2
<1>. QED
  BY <1>7, <1>12, <1>13, DeliveryFrame, SameShrinks DEF CallsDelivered

(* Closing a live log view tells the agent that streams for it.             *)
LEMMA UnsubscribeDelivery ==
    ASSUME DeliveryInv, UNCHANGED <<owner, up, effect>>, CallsStable, NoNewAnswer,
           NEW r \in Streams, Sent(r), NEW s \in Sockets,
           owner[s] = call[r].agent, owner[s] \in Agents,
           down' = Send(down, s, About("logs.unsubscribe", r)), SubscribersShrink
    PROVE  CallsDelivered'
<1>. DEFINE m == About("logs.unsubscribe", r)
            new == {m}
<1>1. /\ m \in Named(ServerMessage) /\ m.req = r /\ m.req \in Requests
      /\ m.type = "logs.unsubscribe" /\ m.type \notin Asks
  BY DEF About, Envelope, Named, Names, Message, ServerMessage, Asks, Requests
<1>2. down \in [Sockets -> Seq(Named(ServerMessage))]
  BY DEF DeliveryInv, RouteInv, TypeInv, MessagesNamed
<1>3. \A n \in Contents(down[s]) : n.req = m.req => {m.type, n.type} \cap Asks = {}
  <2>1. \A n \in Contents(down[s]) : n.req = r => n.type \notin Asks
    BY <1>2, ContentsIn, NamedAbout
  <2>. QED
    BY <1>1, <2>1
<1>4. \A t \in Sockets :
          /\ Contents(down'[t]) \subseteq Contents(down[t]) \cup (IF t = s THEN new ELSE {})
          /\ AskedOnce(down'[t])
  <2>. SUFFICES ASSUME NEW t \in Sockets
                PROVE  /\ Contents(Send(down, s, m)[t]) \subseteq
                             Contents(down[t]) \cup (IF t = s THEN {m} ELSE {})
                       /\ AskedOnce(down[t]) => AskedOnce(Send(down, s, m)[t])
    BY DEF DeliveryInv, CallsDelivered, AsksPending
  <2>. HIDE DEF m
  <2>. QED
    BY <1>1, <1>2, <1>3, SendContents
<1>5. /\ new \in SUBSET Named(ServerMessage)
      /\ \A n \in new : n.type \in Asks => effect[n.req].count = 0
  BY <1>1
<1>6. \A n \in new : n.req # None =>
         /\ owner'[s] \in Agents /\ call'[n.req].agent = owner'[s]
         /\ call'[n.req].state \notin Unsent
         /\ n.type # "logs.unsubscribe" => call'[n.req].sock = s
  BY <1>1 DEF CallsStable
<1>7. OwnersKept /\ UNCHANGED effect
  BY SameShrinks
<1>8. DeliveryInv /\ CallsStable /\ s \in Sockets
  OBVIOUS
<1>9. RequestsOnTheirWay' /\ AsksPending'
  <2>. HIDE DEF m, new
  <2>. QED
    BY ONLY <1>4, <1>5, <1>6, <1>7, <1>8, DownGrows
<1>. QED
  BY <1>9, DeliveryFrame, SameShrinks DEF CallsDelivered

(* The socket an agent is reached on is its own.                            *)
LEMMA RouteOwned ==
    ASSUME DeliveryInv, NEW a \in Agents, Reachable(a)
    PROVE  socketsByUuid[a] \in Sockets /\ owner[socketsByUuid[a]] = a
BY WireAssumption DEF Reachable, DeliveryInv, RouteInv, Routes, TypeInv, RouteTypeOK

(* The server's steps for a call.                                           *)
LEMMA CallDelivery ==
    ASSUME DeliveryInv, NEW r \in Requests, CallStep(r), UNCHANGED agentVars
    PROVE  CallsDelivered'
<1>. DEFINE a == call[r].agent
<1>1. /\ call \in [Requests -> CallRecord]
      /\ logSubscribers \in [Streams -> Agents \cup {None}]
  BY DEF DeliveryInv, RouteInv, TypeInv, CallTypeOK
<1>2. UNCHANGED <<owner, up, effect>>
  BY DEF CallStep, BeginCall, LookupHost, Dispatch, SendContainerCommand, InspectContainer,
     Ask, StartLogStream, CallTimeout, CloseViewer, wireVars, agentVars
<1>3. CASE UNCHANGED <<down, logSubscribers>> /\ CallsStable /\ NoNewAnswer
  BY <1>2, <1>3, SameShrinks, QuietDelivery
<1>4. CASE \E b \in Agents : BeginCall(r, b)
  <2>1. PICK c : /\ call' = [call EXCEPT ![r] = c] /\ c.state = "lookup"
                 /\ ~Sent(r) /\ UNCHANGED <<down, logSubscribers>>
    BY <1>4 DEF BeginCall, NoCall, Sent, Unsent, wireVars
  <2>. QED
    BY <1>3, <2>1, CallKept
<1>5. CASE LookupHost(r)
  <2>1. /\ \E state \in {"found", "notfound", "failed"} :
              call' = [call EXCEPT ![r].state = state]
        /\ ~Sent(r) /\ UNCHANGED <<down, logSubscribers>>
    BY <1>5 DEF LookupHost, Refuse, Sent, Unsent, wireVars
  <2>. QED
    BY <1>3, <2>1, StateKept DEF CallStates, InProgress, Refusals
<1>6. CASE CallTimeout(r)
  <2>1. call' = [call EXCEPT ![r].state = "timedout"] /\ UNCHANGED <<down, logSubscribers>>
    BY <1>6 DEF CallTimeout, wireVars
  <2>. QED
    BY <1>3, <2>1, StateKept DEF CallStates, Unsent, Refusals
<1>7. CASE Dispatch(r)
  <2>1. /\ a \in Agents /\ call[r].state = "found" /\ ~Sent(r)
    BY <1>7 DEF Dispatch, SendContainerCommand, InspectContainer, Ask, StartLogStream, Sent,
       Unsent, DeliveryInv, RouteInv, TypeInv, CallsAddressed
  <2>2. CASE ~Reachable(a)
    <3>1. call' = [call EXCEPT ![r].state = "refused"] /\ UNCHANGED <<down, logSubscribers>>
      BY <1>7, <2>2 DEF Dispatch, SendContainerCommand, InspectContainer, Ask,
         StartLogStream, Refuse
    <3>. QED
      BY <1>3, <2>1, <3>1, StateKept DEF CallStates, Refusals
  <2>3. CASE Reachable(a)
    <3>1. PICK s \in Sockets : s = socketsByUuid[a] /\ owner[s] = a
      BY <2>1, <2>3, RouteOwned
    <3>. DEFINE Goes(type, state) ==
                   /\ About(type, r) \in Named(ServerMessage)
                   /\ call' = [call EXCEPT ![r].state = state, ![r].sock = s]
                   /\ down' = Send(down, s, About(type, r))
                   /\ \/ UNCHANGED logSubscribers
                      \/ r \in Streams /\ logSubscribers' = [logSubscribers EXCEPT ![r] = a]
    <3>2. \/ Goes("container.command", "waiting") \/ Goes("container.inspect", "waiting")
          \/ Goes("logs.subscribe", "live")
      <4>1. CASE r \in Commands /\ Ask(r, "container.command")
        <5>1. About("container.command", r) \in Named(ServerMessage)
          BY <4>1 DEF About, Envelope, Named, Names, Message, ServerMessage, Requests
        <5>2. /\ call' = [call EXCEPT ![r].state = "waiting", ![r].sock = s]
              /\ down' = Send(down, s, About("container.command", r))
              /\ UNCHANGED logSubscribers
          BY <2>3, <3>1, <4>1 DEF Ask
        <5>. QED
          BY <4>1, <5>1, <5>2
      <4>2. CASE r \in Inspects /\ Ask(r, "container.inspect")
        <5>1. About("container.inspect", r) \in Named(ServerMessage)
          BY <4>2 DEF About, Envelope, Named, Names, Message, ServerMessage, Requests
        <5>2. /\ call' = [call EXCEPT ![r].state = "waiting", ![r].sock = s]
              /\ down' = Send(down, s, About("container.inspect", r))
              /\ UNCHANGED logSubscribers
          BY <2>3, <3>1, <4>2 DEF Ask
        <5>. QED
          BY <4>2, <5>1, <5>2
      <4>3. CASE r \in Streams /\ StartLogStream(r)
        <5>1. About("logs.subscribe", r) \in Named(ServerMessage)
          BY <4>3 DEF About, Envelope, Named, Names, Message, ServerMessage, Requests
        <5>2. /\ call' = [call EXCEPT ![r].state = "live", ![r].sock = s]
              /\ down' = Send(down, s, About("logs.subscribe", r))
              /\ logSubscribers' = [logSubscribers EXCEPT ![r] = a]
          BY <2>3, <3>1, <4>3 DEF StartLogStream
        <5>. QED
          BY <4>3, <5>1, <5>2
      <4>. QED
        BY <1>7, <4>1, <4>2, <4>3 DEF Dispatch, SendContainerCommand, InspectContainer,
           StartLogStream
    <3>3. PICK type \in ServerMessage, state \in {"waiting", "live"} : Goes(type, state)
      <4>. HIDE DEF Goes
      <4>. QED
        BY <3>2 DEF ServerMessage
    <3>. QED
      BY <1>2, <2>1, <3>1, <3>3, DispatchDelivery
  <2>. QED
    BY <2>2, <2>3
<1>8. CASE CloseViewer(r)
  <2>1. r \in Streams
    BY <1>8 DEF CloseViewer, DeliveryInv, RouteInv, TypeInv, CallTypeOK
  <2>2. CASE call[r].state # "live"
    BY <1>3, <1>8, <2>2, SameShrinks DEF CloseViewer
  <2>3. CASE call[r].state = "live"
    <3>. DEFINE b == logSubscribers[r]
    <3>1. CallsStable /\ NoNewAnswer
      BY <1>8, <2>3, StateKept DEF CloseViewer, CallStates, Unsent, Refusals
    <3>2. SubscribersShrink /\ Sent(r)
      BY <1>1, <1>8, <2>3 DEF CloseViewer, StopLogStream, SubscribersShrink, Sent, Unsent,
         Refusals
    <3>3. CASE UNCHANGED down
      BY <1>2, <3>1, <3>2, <3>3, SameShrinks, QuietDelivery
    <3>4. CASE ~UNCHANGED down
      <4>1. /\ b # None /\ Reachable(b)
            /\ down' = Send(down, socketsByUuid[b], About("logs.unsubscribe", r))
        BY <1>8, <2>3, <3>4 DEF CloseViewer, StopLogStream
      <4>2. b \in Agents /\ b = call[r].agent
        BY <1>1, <2>1, <4>1 DEF DeliveryInv, CallsDelivered, SubscribersSent
      <4>3. PICK s \in Sockets : s = socketsByUuid[b] /\ owner[s] = b
        BY <4>1, <4>2, RouteOwned
      <4>. QED
        BY <1>2, <2>1, <3>1, <3>2, <4>1, <4>2, <4>3, UnsubscribeDelivery
    <3>. QED
      BY <3>3, <3>4
  <2>. QED
    BY <2>2, <2>3
<1>. QED
  BY <1>4, <1>5, <1>6, <1>7, <1>8 DEF CallStep

---------------------------------------------------------------------------
(* An agent's unasked reports are no answers.                               *)
LEMMA WriteShrinks ==
    ASSUME TypeInv, NEW s, NEW m \in Named(AgentMessage), m.type \notin Answers,
           up' \in {up, Write(up, s, m)}
    PROVE  AnswersShrink
<1>1. up \in [Sockets -> Seq(Named(AgentMessage))]
  BY DEF TypeInv, MessagesNamed
<1>2. \A t \in Sockets : up'[t] = up[t] \/ up'[t] = Append(up[t], m)
  BY <1>1 DEF Write
<1>3. \A t \in Sockets : Contents(Append(up[t], m)) = Contents(up[t]) \cup {m}
  BY <1>1, AppendContents
<1>4. \A t \in Sockets : \A n \in Contents(up'[t]) : n \in Contents(up[t]) \/ n = m
  <2>. SUFFICES ASSUME NEW t \in Sockets
                PROVE  \A n \in Contents(up'[t]) : n \in Contents(up[t]) \/ n = m
    OBVIOUS
  <2>1. CASE up'[t] = up[t]
    BY <2>1
  <2>2. CASE up'[t] = Append(up[t], m)
    BY <1>3, <2>2
  <2>. QED
    BY <1>2, <2>1, <2>2
<1>. QED
  BY <1>4 DEF AnswersShrink

(* Carrying a call out: it was asked of this agent, on this socket, and not *)
(* done before; the answer written reports what was done.                   *)
LEMMA CarryOutDelivery ==
    ASSUME DeliveryInv, UNCHANGED gatewayVars, NEW a \in Agents, NEW type \in Asks,
           Serves(a, type), NEW answer \in Answers, Names(answer) = Names(type),
           NEW ok \in BOOLEAN, CarryOut(a, Head(down[sock[a]]).req, ok, answer)
    PROVE  CallsDelivered'
<1>. USE DEF DeliveryInv, CallsDelivered
<1>0. TypeInv
  BY DEF RouteInv
<1>1. PICK s \in Sockets, m \in Named(ServerMessage) :
         /\ s = sock[a] /\ down[s] # <<>> /\ m = Head(down[s]) /\ m.type = type
         /\ m.req \in Names(type)
  BY <1>0, TakeType DEF Serves, Delivered
<1>2. PICK r : r = m.req
  OBVIOUS
<1>3. r \in Calls /\ r \in Requests /\ r # None
  BY <1>1, <1>2, WireAssumption DEF Asks, Names, Calls, Requests
<1>4. PICK n : n = [About(answer, r) EXCEPT !.ok = ok]
  OBVIOUS
<1>5. /\ effect' = [effect EXCEPT ![r] = [count |-> @.count + 1, agent |-> a, ok |-> ok]]
      /\ down' = [down EXCEPT ![s] = Tail(@)]
      /\ up' = Write(up, s, n)
      /\ UNCHANGED <<owner, call, logSubscribers>>
  BY <1>1, <1>2, <1>4 DEF CarryOut, Take, gatewayVars, callVars
<1>6. n \in Named(AgentMessage) /\ n.req = r /\ n.ok = ok
  <2>1. answer \in AgentMessage /\ r \in Names(answer)
    BY <1>1, <1>2 DEF Answers, AgentMessage
  <2>. QED
    BY <1>3, <1>4, <2>1 DEF About, Envelope, Named, Message
<1>7. /\ QueuesShrink /\ m \in Contents(down[s])
      /\ \A q \in Contents(down'[s]) : q.req # r
  BY <1>0, <1>1, <1>2, <1>5, TakeShrinks DEF AsksPending
<1>8. /\ owner[s] = a /\ call[r].agent = a /\ call[r].sock = s /\ Sent(r)
      /\ effect[r].count = 0
  <2>1. m.type # "logs.unsubscribe" /\ m.type \in Asks
    BY <1>1 DEF Asks
  <2>2. owner[s] = a
    BY <1>0, <1>1, WireAssumption DEF TypeInv, SocketsOwned
  <2>. QED
    BY <1>2, <1>3, <1>7, <2>1, <2>2 DEF RequestsOnTheirWay, AsksPending
<1>9. /\ effect'[r] = [count |-> 1, agent |-> a, ok |-> ok]
      /\ \A q \in Requests : q # r => effect'[q] = effect[q]
  BY <1>3, <1>5, <1>8, <1>0 DEF TypeInv, AgentTypeOK
<1>10. CallsStable /\ OwnersKept /\ SubscribersShrink
  BY <1>5, SameShrinks
<1>11. AsksPending'
  <2>. SUFFICES ASSUME NEW t \in Sockets, NEW q \in Contents(down'[t]), q.type \in Asks
                PROVE  effect'[q.req].count = 0
    BY <1>7 DEF AsksPending, QueuesShrink
  <2>1. q \in Contents(down[t])
    BY <1>7 DEF QueuesShrink
  <2>2. effect[q.req].count = 0 /\ q.req \in Calls
    BY <1>0, <2>1, MessageNames, NamedAbout DEF AsksPending
  <2>3. q.req # r
    <3>1. CASE t = s
      BY <1>7, <3>1
    <3>2. CASE t # s
      <4>1. call[q.req].sock = t
        BY <2>1, <2>2, WireAssumption DEF RequestsOnTheirWay, Asks, Calls, Requests
      <4>. QED
        BY <1>8, <3>2, <4>1
    <3>. QED
      BY <3>1, <3>2
  <2>. QED
    BY <1>9, <2>2, <2>3 DEF Calls, Requests
<1>12. EffectsAsked'
  BY <1>5, <1>8, <1>9 DEF EffectsAsked, Sent
<1>13. AnswersOnTheirWay'
  <2>. SUFFICES ASSUME NEW t \in Sockets, NEW q \in Contents(up'[t]), q.type \in Answers
                PROVE  effect'[q.req].count = 1 /\ effect'[q.req].ok = q.ok
    BY DEF AnswersOnTheirWay
  <2>1. Contents(up'[t]) \subseteq Contents(up[t]) \cup {n}
    <3>1. up \in [Sockets -> Seq(Named(AgentMessage))]
      BY <1>0 DEF TypeInv, MessagesNamed
    <3>2. Contents(Write(up, s, n)[t]) \subseteq
             Contents(up[t]) \cup (IF t = s THEN {n} ELSE {})
      BY ONLY <3>1, <1>6, s \in Sockets, t \in Sockets, SendContents
    <3>. QED
      BY <1>5, <3>2
  <2>2. CASE q = n
    BY <1>6, <1>9, <2>2
  <2>3. CASE q \in Contents(up[t])
    <3>1. effect[q.req].count = 1 /\ effect[q.req].ok = q.ok /\ q.req \in Calls
      BY <1>0, <2>3, MessageNames, NamedAbout DEF AnswersOnTheirWay
    <3>2. q.req # r
      BY <1>8, <3>1
    <3>. QED
      BY <1>9, <3>1, <3>2 DEF Calls, Requests
  <2>. QED
    BY <2>1, <2>2, <2>3
<1>14. AnswerIsTrue'
  <2>. SUFFICES ASSUME NEW q \in Calls, call[q].state = "answered"
                PROVE  effect'[q].count = 1 /\ effect'[q].ok = call[q].ok
    BY <1>5 DEF AnswerIsTrue
  <2>1. effect[q].count = 1 /\ effect[q].ok = call[q].ok
    BY DEF AnswerIsTrue
  <2>2. q # r
    BY <1>8, <2>1
  <2>. QED
    BY <1>9, <2>1, <2>2 DEF Calls, Requests
<1>. QED
  BY <1>7, <1>10, <1>11, <1>12, <1>13, <1>14, DeliveryFrame

(* An agent's steps.                                                        *)
LEMMA AgentDelivery ==
    ASSUME DeliveryInv, NEW a \in Agents, AgentStep(a), UNCHANGED gatewayVars
    PROVE  CallsDelivered'
<1>0. TypeInv /\ UNCHANGED <<call, logSubscribers>>
  BY DEF DeliveryInv, RouteInv, gatewayVars, callVars
<1>9. /\ \A m \in {Envelope("agent.heartbeat"), Envelope("metrics.host"), Listed(a)} :
            m \in Named(AgentMessage) /\ m.type \notin Answers
      /\ \A r \in Streams : /\ About("logs.chunk", r) \in Named(AgentMessage)
                            /\ About("logs.chunk", r).type \notin Answers
  <2>1. /\ Envelope("agent.heartbeat") \in Named(AgentMessage)
        /\ Envelope("metrics.host") \in Named(AgentMessage)
        /\ Listed(a) \in Named(AgentMessage)
        /\ \A r \in Streams : About("logs.chunk", r) \in Named(AgentMessage)
    BY <1>0, NamedType DEF Names, AgentMessage, Listed, TypeInv, AgentTypeOK
  <2>2. /\ Envelope("agent.heartbeat").type \notin Answers
        /\ Envelope("metrics.host").type \notin Answers
        /\ Listed(a).type \notin Answers
    BY DEF Envelope, Listed, Answers
  <2>3. \A r \in Streams : About("logs.chunk", r).type \notin Answers
    BY DEF About, Envelope, Answers
  <2>. QED
    BY <2>1, <2>2, <2>3
<1>1. CASE Reconnect(a)
  <2>1. PICK s \in Sockets : Dial(a, s)
    BY <1>1 DEF Reconnect
  <2>2. OwnersKept
    BY <1>0, <2>1, WireAssumption DEF Dial, OwnersKept, TypeInv, WireTypeOK
  <2>3. AnswersShrink
    <3>1. /\ \A t \in Sockets : t # s => up'[t] = up[t]
          /\ up'[s] = <<Envelope("agent.register")>>
      BY <1>0, <2>1 DEF Dial, TypeInv, MessagesNamed
    <3>2. \A m \in Contents(up'[s]) : m.type \notin Answers
      BY <3>1 DEF Contents, Envelope, Answers
    <3>. QED
      BY <3>1, <3>2 DEF AnswersShrink
  <2>. QED
    BY <1>0, <2>1, <2>2, <2>3, SameShrinks, QuietDelivery DEF Dial, engineVars
<1>2. CASE RegisterTimeout(a) \/ SessionFails(a) \/ Stop(a) \/ (a \in Fragile /\ Vanish(a))
  <2>1. /\ down' = [s \in Sockets |->
                       IF s \in {t \in Sockets : t = sock[a]} THEN <<>> ELSE down[s]]
        /\ UNCHANGED <<owner, up, effect>>
    BY <1>2 DEF RegisterTimeout, SessionFails, Stop, Vanish, Disconnect
  <2>. QED
    BY <1>0, <2>1, EmptyShrinks, SameShrinks, SameDelivery
<1>3. CASE UNCHANGED <<owner, down, effect>> /\ AnswersShrink
  BY <1>0, <1>3, SameShrinks, SameDelivery
<1>4. CASE Start(a) \/ ContainersChange(a) \/ \E r \in Streams : StreamEnds(a, r)
  BY <1>3, <1>4, SameShrinks DEF Start, ContainersChange, StreamEnds, engineVars, wireVars
<1>5. CASE Heartbeat(a) \/ HostMetrics(a) \/ PushContainers(a)
           \/ \E r \in Streams : EmitLogChunk(a, r)
  <2>1. PICK m \in Named(AgentMessage) : /\ m.type \notin Answers
                                        /\ up' \in {up, Write(up, sock[a], m)}
    BY <1>5, <1>9 DEF Heartbeat, HostMetrics, PushContainers, EmitLogChunk, Report
  <2>2. UNCHANGED <<owner, down, effect>>
    BY <1>5 DEF Heartbeat, HostMetrics, PushContainers, EmitLogChunk, Report, engineVars
  <2>3. PICK s : s = sock[a]
    OBVIOUS
  <2>. QED
    BY <1>0, <1>3, <2>1, <2>2, <2>3, WriteShrinks
<1>6. CASE \/ Registered(a) \/ HandleContainerList(a) \/ HandleLogsSubscribe(a)
           \/ HandleLogsUnsubscribe(a)
  <2>1. PICK m \in Named(AgentMessage) : /\ m.type \notin Answers
                                        /\ up' \in {up, Write(up, sock[a], m)}
    BY <1>6, <1>9 DEF Registered, HandleContainerList, HandleLogsSubscribe,
       HandleLogsUnsubscribe
  <2>2. AnswersShrink
    <3>1. PICK s : s = sock[a]
      OBVIOUS
    <3>. QED
      BY <1>0, <2>1, <3>1, WriteShrinks
  <2>3. QueuesShrink
    <3>1. /\ sock[a] \in Sockets /\ down[sock[a]] # <<>>
          /\ down' = [down EXCEPT ![sock[a]] = Tail(@)]
      BY <1>0, <1>6 DEF Registered, HandleContainerList, HandleLogsSubscribe,
         HandleLogsUnsubscribe, Serves, Delivered, Take, TypeInv, AgentTypeOK
    <3>2. PICK s \in Sockets : s = sock[a]
      BY <3>1
    <3>. QED
      BY <1>0, <3>1, <3>2, TakeShrinks
  <2>4. UNCHANGED <<owner, effect>>
    BY <1>6 DEF Registered, HandleContainerList, HandleLogsSubscribe, HandleLogsUnsubscribe,
       engineVars
  <2>. QED
    BY <1>0, <2>2, <2>3, <2>4, SameDelivery
<1>7. CASE HandleContainerCommand(a)
  <2>1. PICK ok \in BOOLEAN : CarryOut(a, Head(down[sock[a]]).req, ok, "container.result")
    BY <1>7 DEF HandleContainerCommand
  <2>. QED
    BY <1>7, <2>1, CarryOutDelivery DEF HandleContainerCommand, Asks, Answers, Names
<1>8. CASE HandleContainerInspect(a)
  <2>1. PICK ok \in BOOLEAN : CarryOut(a, Head(down[sock[a]]).req, ok, "container.inspected")
    BY <1>8 DEF HandleContainerInspect
  <2>. QED
    BY <1>8, <2>1, CarryOutDelivery DEF HandleContainerInspect, Asks, Answers, Names
<1>. QED
  BY <1>1, <1>2, <1>4, <1>5, <1>6, <1>7, <1>8 DEF AgentStep, HandleMessage

(* Every step of the system.                                                *)
LEMMA DeliveryStep == DeliveryInv /\ [Next]_vars => CallsDelivered'
<1>. SUFFICES ASSUME DeliveryInv, [Next]_vars
              PROVE  CallsDelivered'
  OBVIOUS
<1>1. CASE GatewayNext /\ UNCHANGED agentVars
  <2>1. CASE \E a \in Agents : HostStep(a)
    BY <1>1, <2>1, SameShrinks, SameDelivery DEF HostStep, DeleteHostCheck,
       DeleteHostCommit, SevenDaysPass, wireVars, callVars, agentVars
  <2>2. CASE ServerCrash
    BY <1>1, <2>2, ServerLostDelivery DEF ServerCrash, agentVars
  <2>3. CASE ServerStart
    BY <1>1, <2>3, SameShrinks, SameDelivery DEF ServerStart, wireVars, callVars, agentVars
  <2>. QED
    BY <1>1, <2>1, <2>2, <2>3, SocketDelivery, CallDelivery DEF GatewayNext
<1>2. CASE AgentNext /\ UNCHANGED gatewayVars
  BY <1>2, AgentDelivery DEF AgentNext
<1>3. CASE UNCHANGED vars
  BY <1>3, SameShrinks, SameDelivery DEF vars, wireVars, gatewayVars, callVars, agentVars
<1>. QED
  BY <1>1, <1>2, <1>3 DEF Next

(* Initially nothing is on its way and nothing was done.                    *)
LEMMA DeliveryInit == Init => CallsDelivered
<1>. SUFFICES ASSUME Init
              PROVE  CallsDelivered
  OBVIOUS
<1>1. \A s \in Sockets : Contents(up[s]) = {} /\ Contents(down[s]) = {} /\ AskedOnce(down[s])
  BY EmptyContents DEF Init, WireInit
<1>2. \A r \in Requests : effect[r].count = 0 /\ call[r].state = "idle"
  BY DEF Init, GatewayInit, AgentInit, NoEffect, NoCall
<1>3. \A r \in Streams : logSubscribers[r] = None
  BY DEF Init, GatewayInit
<1>. QED
  BY SMTT(30), <1>1, <1>2, <1>3 DEF CallsDelivered, RequestsOnTheirWay, AsksPending, EffectsAsked,
     AnswersOnTheirWay, AnswerIsTrue, SubscribersSent, Calls, Requests

(* The delivery invariant.                                                  *)
LEMMA DeliveryInvariant == Spec => []DeliveryInv
<1>1. Init => DeliveryInv
  BY InitType, RouteInit, DeliveryInit DEF DeliveryInv, RouteInv
<1>2. DeliveryInv /\ [Next]_vars => DeliveryInv'
  BY TypeStep, RouteStep, DeliveryStep DEF DeliveryInv, RouteInv
<1>. QED
  BY <1>1, <1>2, PTL DEF Spec

(* sendContainerCommand, inspectContainer and startLogStream look the host up *)
(* by id and send on the socket socketsByUuid has for its uuid: whatever    *)
(* reconnects, stale closes, crashes and late registrations happen around   *)
(* them, only the agent of that host gets the message, on that socket, and  *)
(* carries it out at most once.                                             *)
THEOREM CallsReachTheirAgent == Spec => []RoutingSound
<1>1. DeliveryInv => RoutingSound
  <2>. SUFFICES ASSUME DeliveryInv
                PROVE  RoutingSound
    OBVIOUS
  <2>1. \A a \in Agents : socketsByUuid[a] # None =>
           owner[socketsByUuid[a]] = a /\ agentUuid[socketsByUuid[a]] = a
    BY WireAssumption DEF DeliveryInv, RouteInv, Routes, TypeInv, RouteTypeOK
  <2>2. ASSUME NEW s \in Sockets, NEW i \in AboutCall(s)
        PROVE  /\ call[down[s][i].req].agent = owner[s]
               /\ down[s][i].type # "logs.unsubscribe" => call[down[s][i].req].sock = s
    BY <2>2 DEF AboutCall, Contents, DeliveryInv, CallsDelivered, RequestsOnTheirWay
  <2>3. \A r \in Requests : /\ effect[r].count <= 1
                            /\ effect[r].count = 1 => effect[r].agent = call[r].agent
    BY DEF DeliveryInv, CallsDelivered, EffectsAsked, RouteInv, TypeInv, AgentTypeOK
  <2>. QED
    BY <2>1, <2>2, <2>3 DEF RoutingSound
<1>. QED
  BY <1>1, DeliveryInvariant, PTL

(* container.result and container.inspected resolve the entry of their      *)
(* requestId: a call is answered only with what the agent did for it.       *)
THEOREM AnswersAreTrue == Spec => []AnswerIsTrue
<1>1. DeliveryInv => AnswerIsTrue
  BY DEF DeliveryInv, CallsDelivered
<1>. QED
  BY <1>1, DeliveryInvariant, PTL

(* A call refused with 404 or 503, or whose findById failed, wrote nothing: it *)
(* was not and will never be carried out.                                   *)
THEOREM RefusedIsSafeToRepeat == Spec => []RefusedNeverRuns
<1>1. DeliveryInv => RefusedNeverRuns
  <2>. SUFFICES ASSUME DeliveryInv, NEW r \in Requests, call[r].state \in Refusals
                PROVE  /\ effect[r].count = 0
                       /\ \A s \in Sockets : \A i \in DOMAIN down[s] : down[s][i].req # r
    BY DEF RefusedNeverRuns
  <2>1. ~Sent(r) /\ r # None
    BY WireAssumption DEF Sent, Unsent
  <2>2. effect[r].count = 0
    BY <2>1 DEF DeliveryInv, CallsDelivered, EffectsAsked, RouteInv, TypeInv, AgentTypeOK
  <2>3. \A s \in Sockets : \A m \in Contents(down[s]) : m.req # r
    BY <2>1 DEF DeliveryInv, CallsDelivered, RequestsOnTheirWay
  <2>. QED
    BY <2>2, <2>3 DEF Contents
<1>. QED
  BY <1>1, DeliveryInvariant, PTL

---------------------------------------------------------------------------
(* The refinement of CommandContract.                                       *)

(* A step of the contract, or none, seen through the refinement mapping.    *)
ContractStep == [Contract!ContractNext]_(Contract!contractVars)

(* The outcome of a call, by its state.                                     *)
LEMMA OutcomeOf ==
    ASSUME NEW c
    PROVE  /\ c.state = "idle" => Outcome(c) = "idle"
           /\ c.state \in InProgress => Outcome(c) = "open"
           /\ c.state \in Refusals => Outcome(c) = "refused"
           /\ c.state = "answered" => Outcome(c) = IF c.ok THEN "succeeded" ELSE "failed"
           /\ c.state \in {"timedout", "disconnected", "aborted", "closed"}
                 => Outcome(c) = "unknown"
BY DEF Outcome, InProgress, Refusals

(* Initially every call is idle and nothing is done.                        *)
LEMMA ContractInit == Init => Contract!ContractInit
<1>. SUFFICES ASSUME Init
              PROVE  Contract!ContractInit
  OBVIOUS
<1>1. \A r \in Calls : call[r].state = "idle" /\ effect[r].count = 0
  BY DEF Init, GatewayInit, AgentInit, NoCall, NoEffect, Calls, Requests
<1>2. \A r \in Calls : Outcome(call[r]) = "idle" /\ Done(effect[r]) = "no"
  BY <1>1, OutcomeOf DEF Done
<1>. QED
  BY <1>2 DEF Contract!ContractInit

(* A step that gives up any number of open calls.                           *)
LEMMA GiveUpStep ==
    ASSUME UNCHANGED effect,
           \A r \in Calls :
              \/ Outcome(call'[r]) = Outcome(call[r])
              \/ Outcome(call[r]) = "open" /\ Outcome(call'[r]) = "unknown"
    PROVE  ContractStep
<1>. DEFINE given == {r \in Calls : /\ Outcome(call[r]) = "open"
                                   /\ Outcome(call'[r]) = "unknown"}
<1>1. Contract!GiveUp(given)
  BY DEF Contract!GiveUp
<1>2. given \in SUBSET Calls
  OBVIOUS
<1>. QED
  BY <1>1, <1>2 DEF ContractStep, Contract!ContractNext

(* A step that leaves calls and effects alone.                              *)
LEMMA SameStep ==
    ASSUME UNCHANGED <<call, effect>>
    PROVE  ContractStep
BY GiveUpStep

(* A step that begins, refuses or answers one call.                         *)
LEMMA OneStep ==
    ASSUME UNCHANGED effect, NEW r \in Calls,
           \A q \in Calls : q # r => Outcome(call'[q]) = Outcome(call[q]),
           \/ /\ Outcome(call[r]) = "idle"
              /\ Outcome(call'[r]) = "open"
           \/ /\ Outcome(call[r]) = "open" /\ Done(effect[r]) = "no"
              /\ Outcome(call'[r]) = "refused"
           \/ /\ Outcome(call[r]) = "open" /\ Done(effect[r]) # "no"
              /\ Outcome(call'[r]) = Done(effect[r])
    PROVE  ContractStep
<1>1. CASE Outcome(call[r]) = "idle" /\ Outcome(call'[r]) = "open"
  <2>1. Contract!Begin(r)
    BY <1>1 DEF Contract!Begin
  <2>. QED
    BY <2>1 DEF ContractStep, Contract!ContractNext
<1>2. CASE /\ Outcome(call[r]) = "open" /\ Done(effect[r]) = "no"
           /\ Outcome(call'[r]) = "refused"
  <2>1. Contract!Refuse(r)
    BY <1>2 DEF Contract!Refuse
  <2>. QED
    BY <2>1 DEF ContractStep, Contract!ContractNext
<1>3. CASE /\ Outcome(call[r]) = "open" /\ Done(effect[r]) # "no"
           /\ Outcome(call'[r]) = Done(effect[r])
  <2>1. Contract!Answer(r)
    BY <1>3 DEF Contract!Answer
  <2>. QED
    BY <2>1 DEF ContractStep, Contract!ContractNext
<1>. QED
  BY <1>1, <1>2, <1>3

(* A step that carries out one call.                                        *)
LEMMA PerformStep ==
    ASSUME UNCHANGED call, NEW r \in Calls, Outcome(call[r]) \in {"open", "unknown"},
           Done(effect[r]) = "no", Done(effect'[r]) \in {"succeeded", "failed"},
           \A q \in Calls : q # r => Done(effect'[q]) = Done(effect[q])
    PROVE  ContractStep
<1>1. Contract!Perform(r, Done(effect'[r]))
  BY DEF Contract!Perform
<1>2. Done(effect'[r]) \in Contract!Results
  BY DEF Contract!Results
<1>. QED
  BY <1>1, <1>2 DEF ContractStep, Contract!ContractNext

---------------------------------------------------------------------------
(* The outcome of a call whose state is set.                                *)
LEMMA StateOutcome ==
    ASSUME NEW c \in CallRecord, NEW state \in CallStates \ {"answered"}
    PROVE  /\ [c EXCEPT !.state = state].state = state
           /\ state \in InProgress => Outcome([c EXCEPT !.state = state]) = "open"
           /\ state \in Refusals => Outcome([c EXCEPT !.state = state]) = "refused"
           /\ state \in {"timedout", "disconnected", "aborted", "closed"} =>
                 Outcome([c EXCEPT !.state = state]) = "unknown"
<1>1. [c EXCEPT !.state = state].state = state
  BY DEF CallRecord
<1>. QED
  BY <1>1, OutcomeOf

(* The end of the server process gives up the calls in progress.            *)
LEMMA ServerLostContract ==
    ASSUME DeliveryInv, ServerLost, UNCHANGED effect
    PROVE  ContractStep
<1>1. call \in [Requests -> CallRecord]
  BY DEF DeliveryInv, RouteInv, TypeInv, CallTypeOK
<1>2. ASSUME NEW r \in Calls
      PROVE  \/ Outcome(call'[r]) = Outcome(call[r])
             \/ Outcome(call[r]) = "open" /\ Outcome(call'[r]) = "unknown"
  <2>1. r \in Requests /\ call[r] \in CallRecord
    BY <1>1 DEF Calls, Requests
  <2>2. CASE call[r].state \in InProgress
    <3>1. call'[r] = [call[r] EXCEPT !.state = "aborted"]
      BY <2>1, <2>2 DEF ServerLost
    <3>. QED
      BY <2>1, <2>2, <3>1, OutcomeOf, StateOutcome DEF CallStates
  <2>3. CASE call[r].state \notin InProgress
    BY <2>1, <2>3 DEF ServerLost
  <2>. QED
    BY <2>2, <2>3
<1>. QED
  BY <1>2, GiveUpStep

(* An answer for a waiting call is what was done for it.                    *)
LEMMA ResolveContract ==
    ASSUME DeliveryInv, UNCHANGED effect,
           NEW s \in Sockets, NEW m \in Contents(up[s]), m.type \in Answers,
           Resolve(m.req, m.ok)
    PROVE  ContractStep
<1>. DEFINE r == m.req
<1>1. r \in Calls /\ r \in Requests
  BY MessageNames, NamedAbout DEF DeliveryInv, RouteInv, Calls, Requests
<1>2. effect[r].count = 1 /\ effect[r].ok = m.ok
  BY DEF DeliveryInv, CallsDelivered, AnswersOnTheirWay
<1>3. call \in [Requests -> CallRecord]
  BY DEF DeliveryInv, RouteInv, TypeInv, CallTypeOK
<1>4. CASE pending[r] = None
  BY <1>4, SameStep DEF Resolve
<1>5. CASE pending[r] # None
  <2>. DEFINE c == [call[r] EXCEPT !.state = "answered", !.ok = m.ok]
  <2>1. call[r].state = "waiting" /\ call' = [call EXCEPT ![r] = c]
    BY <1>1, <1>3, <1>5 DEF Resolve, DeliveryInv, RouteInv, WaitingIsTimed
  <2>2. call'[r] = c /\ \A q \in Calls : q # r => call'[q] = call[q]
    BY <1>1, <1>3, <2>1 DEF Calls, Requests
  <2>3. c.state = "answered" /\ c.ok = m.ok
    BY <1>1, <1>3 DEF CallRecord
  <2>. HIDE DEF c
  <2>4. Outcome(call'[r]) = IF m.ok THEN "succeeded" ELSE "failed"
    BY <2>2, <2>3, OutcomeOf
  <2>5. Done(effect[r]) = IF m.ok THEN "succeeded" ELSE "failed"
    BY <1>2 DEF Done
  <2>6. Outcome(call[r]) = "open"
    BY <2>1, OutcomeOf DEF InProgress
  <2>7. Done(effect[r]) # "no" /\ Outcome(call'[r]) = Done(effect[r])
    BY <2>4, <2>5
  <2>. QED
    BY <1>1, <2>2, <2>6, <2>7, OneStep
<1>. QED
  BY <1>4, <1>5

(* The server's steps for a socket.                                         *)
LEMMA SocketContract ==
    ASSUME DeliveryInv, NEW s \in Sockets, SocketStep(s), UNCHANGED agentVars
    PROVE  ContractStep
<1>0. UNCHANGED effect
  BY DEF agentVars
<1>1. CASE ReceiveResult(s) \/ ReceiveInspected(s)
  <2>1. /\ up[s] \in Seq(Named(AgentMessage)) /\ up[s] # <<>>
        /\ Head(up[s]).type \in Answers /\ Resolve(Head(up[s]).req, Head(up[s]).ok)
    BY <1>1 DEF ReceiveResult, ReceiveInspected, Arrives, Answers, DeliveryInv, RouteInv,
       TypeInv, MessagesNamed
  <2>2. Head(up[s]) \in Contents(up[s])
    BY <2>1, TailContents
  <2>. QED
    BY <1>0, <2>1, <2>2, ResolveContract
<1>2. CASE SocketClosed(s)
  <2>1. call \in [Requests -> CallRecord]
    BY DEF DeliveryInv, RouteInv, TypeInv, CallTypeOK
  <2>2. ASSUME NEW r \in Calls
        PROVE  \/ Outcome(call'[r]) = Outcome(call[r])
               \/ Outcome(call[r]) = "open" /\ Outcome(call'[r]) = "unknown"
    <3>1. r \in Requests /\ call[r] \in CallRecord
      BY <2>1 DEF Calls, Requests
    <3>2. CASE call'[r] = call[r]
      BY <3>2
    <3>3. CASE pending[r] # None /\ call'[r] = [call[r] EXCEPT !.state = "disconnected"]
      <4>1. call[r].state = "waiting"
        BY <3>3 DEF DeliveryInv, RouteInv, WaitingIsTimed
      <4>. QED
        BY <3>1, <3>3, <4>1, OutcomeOf, StateOutcome DEF CallStates, InProgress
    <3>. QED
      BY <1>2, <3>1, <3>2, <3>3 DEF SocketClosed, HandleDisconnect
  <2>. QED
    BY <1>0, <2>2, GiveUpStep
<1>3. CASE ServerLost
  BY <1>0, <1>3, ServerLostContract
<1>4. CASE UNCHANGED call
  BY <1>0, <1>4, SameStep
<1>. QED
  BY <1>1, <1>2, <1>3, <1>4 DEF SocketStep, Receive, Registration, HeartbeatTask,
     ReceiveRegister, ReceiveHeartbeat, ReceiveListed, ReceiveMetrics, ReceiveChunk,
     RegisterUpsert, RegisterResume, HeartbeatFind, HeartbeatUpdate, UnhandledDbFault,
     SocketClosing, MarkOffline, callVars, gatewayVars

(* The server's steps for a call: a refused call was not carried out.       *)
LEMMA CallContract ==
    ASSUME DeliveryInv, NEW r \in Requests, CallStep(r), UNCHANGED agentVars
    PROVE  ContractStep
<1>0. UNCHANGED effect /\ call \in [Requests -> CallRecord]
  BY DEF agentVars, DeliveryInv, RouteInv, TypeInv, CallTypeOK
<1>1. PICK c : call' = [call EXCEPT ![r] = c]
  BY <1>0 DEF CallStep, BeginCall, LookupHost, Dispatch, SendContainerCommand,
     InspectContainer, Ask, StartLogStream, CallTimeout, CloseViewer, Refuse
<1>2. call'[r] = c /\ \A q \in Requests : q # r => call'[q] = call[q]
  BY <1>0, <1>1
<1>3. CASE r \notin Calls
  BY <1>0, <1>2, <1>3, GiveUpStep DEF Calls, Requests
<1>4. CASE r \in Calls
  <2>1. CASE \E a \in Agents : BeginCall(r, a)
    <3>1. call[r].state = "idle" /\ call'[r].state = "lookup"
      BY <1>0, <2>1 DEF BeginCall, NoCall
    <3>. QED
      BY <1>0, <1>2, <1>4, <3>1, OutcomeOf, OneStep DEF InProgress, Calls, Requests
  <2>2. ASSUME NEW state \in {"found", "waiting", "refused", "notfound", "failed", "timedout"},
               call'[r].state = state, call[r].state \in InProgress,
               state \in Refusals => ~Sent(r)
        PROVE  ContractStep
    <3>1. Outcome(call[r]) = "open"
      BY <2>2, OutcomeOf
    <3>2. CASE state \in Refusals
      <4>1. effect[r].count = 0
        BY <1>4, <2>2, <3>2 DEF DeliveryInv, CallsDelivered, EffectsAsked, RouteInv,
           TypeInv, AgentTypeOK
      <4>2. Done(effect[r]) = "no" /\ Outcome(call'[r]) = "refused"
        BY <2>2, <3>2, <4>1, OutcomeOf DEF Done
      <4>. QED
        BY <1>0, <1>2, <1>4, <3>1, <4>2, OneStep DEF Calls, Requests
    <3>3. CASE state \in InProgress
      <4>1. Outcome(call'[r]) = "open"
        BY <2>2, <3>3, OutcomeOf
      <4>. QED
        BY <1>0, <1>2, <3>1, <4>1, GiveUpStep DEF Calls, Requests
    <3>4. CASE state = "timedout"
      <4>1. Outcome(call'[r]) = "unknown"
        BY <2>2, <3>4, OutcomeOf
      <4>. QED
        BY <1>0, <1>2, <3>1, <4>1, GiveUpStep DEF Calls, Requests
    <3>. QED
      BY <3>2, <3>3, <3>4 DEF InProgress, Refusals
  <2>3. CASE LookupHost(r)
    <3>1. /\ call[r].state = "lookup" /\ ~Sent(r)
          /\ call'[r].state \in {"found", "notfound", "failed"}
      BY <1>0, <2>3 DEF LookupHost, Refuse, Sent, Unsent, CallRecord
    <3>. QED
      BY <2>2, <3>1 DEF InProgress
  <2>4. CASE CallTimeout(r)
    <3>1. call[r].state = "waiting" /\ call'[r].state = "timedout"
      BY <1>0, <1>4, <2>4 DEF CallTimeout, CallRecord, DeliveryInv, RouteInv, WaitingIsTimed
    <3>. QED
      BY <2>2, <3>1 DEF InProgress, Refusals
  <2>5. CASE Dispatch(r)
    <3>1. PICK type : Ask(r, type)
      BY <1>4, <2>5, WireAssumption DEF Dispatch, SendContainerCommand, InspectContainer,
         StartLogStream, Calls
    <3>2. call[r].state = "found" /\ ~Sent(r)
      BY <3>1 DEF Ask, Sent, Unsent
    <3>3. call'[r].state \in {"waiting", "refused"}
      BY <1>0, <3>1 DEF Ask, Refuse, CallRecord
    <3>. QED
      BY <2>2, <3>2, <3>3 DEF InProgress
  <2>6. ~CloseViewer(r)
    BY <1>4, WireAssumption DEF CloseViewer, DeliveryInv, RouteInv, TypeInv, CallTypeOK,
       Calls
  <2>. QED
    BY <2>1, <2>3, <2>4, <2>5, <2>6 DEF CallStep
<1>. QED
  BY <1>3, <1>4

(* An agent's step: carrying out a call that was sent, so not refused, and not *)
(* answered, because it was not done before.                                *)
LEMMA AgentContract ==
    ASSUME DeliveryInv, NEW a \in Agents, AgentStep(a), UNCHANGED gatewayVars
    PROVE  ContractStep
<1>0. UNCHANGED call /\ TypeInv
  BY DEF gatewayVars, callVars, DeliveryInv, RouteInv
<1>1. CASE UNCHANGED effect
  BY <1>0, <1>1, SameStep
<1>2. CASE HandleContainerCommand(a) \/ HandleContainerInspect(a)
  <2>1. PICK ok \in BOOLEAN, type \in Asks, answer \in Answers :
           Serves(a, type) /\ CarryOut(a, Head(down[sock[a]]).req, ok, answer)
    BY <1>2 DEF HandleContainerCommand, HandleContainerInspect, Asks, Answers
  <2>2. PICK s \in Sockets, m \in Named(ServerMessage) :
           /\ s = sock[a] /\ down[s] # <<>> /\ m = Head(down[s]) /\ m.type = type
           /\ m.req \in Names(type)
    BY <1>0, <2>1, TakeType DEF Serves, Delivered
  <2>3. PICK r : r = m.req
    OBVIOUS
  <2>4. r \in Calls /\ r \in Requests /\ r # None
    BY <2>2, <2>3, WireAssumption DEF Asks, Names, Calls, Requests
  <2>5. m \in Contents(down[s])
    BY <2>2, TailContents, <1>0 DEF TypeInv, MessagesNamed
  <2>6. Sent(r) /\ effect[r].count = 0
    BY <2>2, <2>3, <2>4, <2>5 DEF DeliveryInv, CallsDelivered, RequestsOnTheirWay,
       AsksPending
  <2>7. effect' = [effect EXCEPT ![r] = [count |-> @.count + 1, agent |-> a, ok |-> ok]]
    BY <2>1, <2>2, <2>3 DEF CarryOut
  <2>8. /\ effect'[r] = [count |-> 1, agent |-> a, ok |-> ok]
        /\ \A q \in Calls : q # r => effect'[q] = effect[q]
    BY <1>0, <2>4, <2>6, <2>7 DEF TypeInv, AgentTypeOK, Calls, Requests
  <2>9. /\ Done(effect[r]) = "no" /\ Done(effect'[r]) \in {"succeeded", "failed"}
        /\ \A q \in Calls : q # r => Done(effect'[q]) = Done(effect[q])
    BY <2>6, <2>8 DEF Done
  <2>10. Outcome(call[r]) \in {"open", "unknown"}
    <3>1. call[r].state \in CallStates
      BY <1>0, <2>4 DEF TypeInv, CallTypeOK, CallRecord
    <3>2. call[r].state # "answered"
      BY <2>4, <2>6 DEF DeliveryInv, CallsDelivered, AnswerIsTrue
    <3>3. call[r].state \in InProgress \cup {"timedout", "disconnected", "aborted", "closed"}
      BY <2>6, <3>1, <3>2 DEF Sent, Unsent, CallStates
    <3>. QED
      BY <3>3, OutcomeOf
  <2>. QED
    BY <1>0, <2>4, <2>9, <2>10, PerformStep
<1>. QED
  BY <1>1, <1>2 DEF AgentStep, Reconnect, Dial, Registered, RegisterTimeout, SessionFails,
     HandleMessage, HandleContainerList, HandleLogsSubscribe, HandleLogsUnsubscribe,
     Heartbeat, HostMetrics, PushContainers, ContainersChange, Stop, Start, Vanish,
     EmitLogChunk, StreamEnds, Disconnect, Report, engineVars

(* Every step of the system.                                                *)
LEMMA ContractNextStep == DeliveryInv /\ [Next]_vars => ContractStep
<1>. SUFFICES ASSUME DeliveryInv, [Next]_vars
              PROVE  ContractStep
  OBVIOUS
<1>1. CASE GatewayNext /\ UNCHANGED agentVars
  <2>1. CASE (\E a \in Agents : HostStep(a)) \/ ServerStart
    BY <1>1, <2>1, SameStep DEF HostStep, DeleteHostCheck, DeleteHostCommit, SevenDaysPass,
       ServerStart, callVars, agentVars
  <2>2. CASE ServerCrash
    BY <1>1, <2>2, ServerLostContract DEF ServerCrash, agentVars
  <2>. QED
    BY <1>1, <2>1, <2>2, SocketContract, CallContract DEF GatewayNext
<1>2. CASE AgentNext /\ UNCHANGED gatewayVars
  BY <1>2, AgentContract DEF AgentNext
<1>3. CASE UNCHANGED vars
  BY <1>3, SameStep DEF vars, gatewayVars, callVars, agentVars
<1>. QED
  BY <1>1, <1>2, <1>3 DEF Next

(* The server and the agents together implement CommandContract: every step *)
(* of handleRegister, handleDisconnect, the calls, the agents' sessions or a *)
(* crash begins, carries out, refuses, answers or gives up calls as the     *)
(* contract allows, or changes nothing a user could tell.                   *)
THEOREM ImplementsContract == Spec => KeepsContract
<1>1. Init => Contract!ContractInit
  BY ContractInit
<1>2. DeliveryInv /\ [Next]_vars => [Contract!ContractNext]_(Contract!contractVars)
  BY ContractNextStep DEF ContractStep
<1>. QED
  BY <1>1, <1>2, DeliveryInvariant, PTL DEF Spec, KeepsContract, Contract!ContractSpec
---------------------------------------------------------------------------
(* The log readers of an agent on its first connection.                     *)

(* The agent is in session on the only socket it ever dialled, and the      *)
(* server takes that socket for open.                                       *)
FirstLives(a) ==
    /\ sock[a] \in Sockets /\ serverEnd[sock[a]] = "open"
    /\ \A s \in Sockets : owner[s] = a => s = sock[a]

(* The queue tells the agent to release view r, and tells it so after every  *)
(* request to follow r.                                                      *)
Ends(q, r) == \E i \in DOMAIN q : q[i] = About("logs.unsubscribe", r)
Closes(q, r) ==
    \A i \in DOMAIN q : q[i].type = "logs.subscribe" /\ q[i].req = r =>
        \E j \in DOMAIN q : i < j /\ q[j] = About("logs.unsubscribe", r)
Released(q, held, r) == (r \in held => Ends(q, r)) /\ Closes(q, r)

(* An agent's connection is open at its end, and without one it reads no log. *)
ConnectionsHeld ==
    \A a \in Agents :
        /\ session[a] \notin Connected => sock[a] = None
        /\ sock[a] = None => logReaders[a] = {}
        /\ sock[a] # None => clientEnd[sock[a]] = "open"

(* Only an agent that ever dialled streams for a view.                       *)
SubscribersOwned ==
    \A r \in Streams : logSubscribers[r] # None => \E s \in Sockets : owner[s] = logSubscribers[r]

(* Every view an agent streams for can be stopped, on the agent's socket; and *)
(* every other is released by what is on its way.                            *)
Tracked(a) == FirstLives(a) =>
    \A r \in Streams : IF logSubscribers[r] = a THEN socketsByUuid[a] = sock[a]
                       ELSE Released(down[sock[a]], logReaders[a], r)

ReadersTracked == ConnectionsHeld /\ SubscribersOwned /\ \A a \in Agents : Tracked(a)
ReaderInv == OpeningInv /\ DeliveryInv /\ ReadersTracked

(* A message sent to an agent leaves what releases a view, unless it asks for *)
(* it again; the one that stops a view releases it.                          *)
LEMMA AppendReleased ==
    ASSUME NEW M, NEW q \in Seq(M), NEW m \in M, NEW held, NEW r
    PROVE  /\ /\ Released(q, held, r)
              /\ ~(m.type = "logs.subscribe" /\ m.req = r)
              => Released(Append(q, m), held, r)
           /\ m = About("logs.unsubscribe", r) => Released(Append(q, m), held, r)
<1>. DEFINE p == Append(q, m)
            n == Len(q)
<1>1. /\ DOMAIN q = 1 .. n /\ n \in Nat
      /\ DOMAIN p = 1 .. (n + 1)
      /\ \A i \in 1 .. n : p[i] = q[i]
      /\ p[n + 1] = m
  BY AppendProperties, LenProperties
<1>. HIDE DEF p, n
<1>2. \A i \in DOMAIN p : i = n + 1 \/ (i \in DOMAIN q /\ p[i] = q[i] /\ i < n + 1)
  BY <1>1
<1>3. \A i \in DOMAIN q : i \in DOMAIN p /\ p[i] = q[i]
  BY <1>1
<1>4. n + 1 \in DOMAIN p /\ p[n + 1] = m
  BY <1>1
<1>5. Ends(q, r) => Ends(p, r)
  BY <1>3 DEF Ends
<1>6. ASSUME Closes(q, r), ~(m.type = "logs.subscribe" /\ m.req = r)
      PROVE  Closes(p, r)
  <2>. SUFFICES ASSUME NEW i \in DOMAIN p, p[i].type = "logs.subscribe", p[i].req = r
                PROVE  \E j \in DOMAIN p : i < j /\ p[j] = About("logs.unsubscribe", r)
    BY DEF Closes
  <2>1. i \in DOMAIN q /\ p[i] = q[i]
    BY <1>2, <1>4, <1>6
  <2>2. PICK j \in DOMAIN q : i < j /\ q[j] = About("logs.unsubscribe", r)
    BY <1>6, <2>1 DEF Closes
  <2>. QED
    BY <1>3, <2>2
<1>7. ASSUME m = About("logs.unsubscribe", r)
      PROVE  Ends(p, r) /\ Closes(p, r)
  <2>1. Ends(p, r)
    BY <1>4, <1>7 DEF Ends
  <2>2. m.type # "logs.subscribe"
    BY <1>7 DEF About, Envelope
  <2>3. Closes(p, r)
    BY <1>2, <1>4, <1>7, <2>2 DEF Closes
  <2>. QED
    BY <2>1, <2>3
<1>. QED
  BY <1>5, <1>6, <1>7 DEF Released, p

(* What the agent reads: a view it takes up is released later, a view it is   *)
(* told to release need not be any more, and nothing changes for the others.  *)
LEMMA TailReleased ==
    ASSUME NEW M, NEW q \in Seq(M), q # <<>>, NEW held, NEW next, NEW r,
           Released(q, held, r),
           \/ Head(q).type = "logs.subscribe" /\ Head(q).req = r
           \/ r \notin next
           \/ (r \in next => r \in held) /\ Head(q) # About("logs.unsubscribe", r)
    PROVE  Released(Tail(q), next, r)
<1>. DEFINE n == Len(q)
            t == Tail(q)
<1>1. /\ DOMAIN q = 1 .. n /\ n \in Nat /\ n # 0
      /\ DOMAIN t = 1 .. (n - 1)
      /\ \A i \in 1 .. (n - 1) : t[i] = q[i + 1]
      /\ Head(q) = q[1]
  BY HeadTailProperties, LenProperties, EmptySeq
<1>. HIDE DEF n, t
<1>2. \A i \in DOMAIN t : i \in Nat /\ i + 1 \in DOMAIN q /\ t[i] = q[i + 1]
  BY <1>1
<1>3. \A i \in DOMAIN q : i = 1 \/ (i - 1 \in DOMAIN t /\ t[i - 1] = q[i])
  BY <1>1
<1>a. \A i \in DOMAIN q : i \in Nat
  BY <1>1
<1>4. Closes(t, r)
  <2>. SUFFICES ASSUME NEW i \in DOMAIN t, t[i].type = "logs.subscribe", t[i].req = r
                PROVE  \E j \in DOMAIN t : i < j /\ t[j] = About("logs.unsubscribe", r)
    BY DEF Closes
  <2>1. PICK j \in DOMAIN q : i + 1 < j /\ q[j] = About("logs.unsubscribe", r)
    BY <1>2 DEF Closes, Released
  <2>2. j # 1 /\ i < j - 1
    BY <1>2, <1>a, <2>1
  <2>. QED
    BY <1>3, <2>1, <2>2
<1>5. ASSUME r \in next
      PROVE  Ends(t, r)
  <2>1. PICK j \in DOMAIN q : j # 1 /\ q[j] = About("logs.unsubscribe", r)
    <3>1. CASE Head(q).type = "logs.subscribe" /\ Head(q).req = r
      <4>1. 1 \in DOMAIN q /\ q[1].type = "logs.subscribe" /\ q[1].req = r
        BY <1>1, <3>1
      <4>2. PICK j \in DOMAIN q : 1 < j /\ q[j] = About("logs.unsubscribe", r)
        BY <4>1 DEF Closes, Released
      <4>3. j # 1
        BY <1>a, <4>2
      <4>. QED
        BY <4>2, <4>3
    <3>2. CASE (r \in next => r \in held) /\ Head(q) # About("logs.unsubscribe", r)
      BY <1>1, <1>5, <3>2 DEF Ends, Released
    <3>. QED
      BY <1>5, <3>1, <3>2
  <2>. QED
    BY <1>3, <2>1 DEF Ends
<1>. QED
  BY <1>4, <1>5 DEF Released, t

---------------------------------------------------------------------------
(* A step that leaves an agent's connection, its readers and its subscribers  *)
(* alone, and what releases a view on its way.                              *)
Steady(a) ==
    /\ UNCHANGED <<sock, logReaders>>
    /\ FirstLives(a)' => FirstLives(a)
    /\ FirstLives(a)' =>
          /\ socketsByUuid'[a] = socketsByUuid[a] \/ socketsByUuid'[a] = sock[a]
          /\ \A r \in Streams :
                /\ logSubscribers'[r] = a <=> logSubscribers[r] = a
                /\ Released(down[sock[a]], logReaders[a], r)
                      => Released(down'[sock[a]], logReaders[a], r)

(* Such a step keeps its readers known.                                     *)
LEMMA SteadyTracked ==
    ASSUME NEW a \in Agents, Tracked(a), Steady(a)
    PROVE  Tracked(a)'
BY DEF Tracked, Steady

(* What a step needs for the other two parts.                               *)
LEMMA ReaderFrame ==
    ASSUME ReaderInv
    PROVE  /\ UNCHANGED <<session, sock, logReaders, clientEnd>> => ConnectionsHeld'
           /\ OwnersKept /\ SubscribersShrink => SubscribersOwned'
<1>1. ASSUME UNCHANGED <<session, sock, logReaders, clientEnd>>
      PROVE  ConnectionsHeld'
  BY <1>1 DEF ReaderInv, ReadersTracked, ConnectionsHeld
<1>2. ASSUME OwnersKept, SubscribersShrink
      PROVE  SubscribersOwned'
  <2>. SUFFICES ASSUME NEW r \in Streams, logSubscribers'[r] # None
                PROVE  \E s \in Sockets : owner'[s] = logSubscribers'[r]
    BY DEF SubscribersOwned
  <2>1. logSubscribers'[r] = logSubscribers[r] /\ logSubscribers[r] # None
    BY <1>2 DEF SubscribersShrink
  <2>2. PICK s \in Sockets : owner[s] = logSubscribers[r]
    BY <2>1 DEF ReaderInv, ReadersTracked, SubscribersOwned
  <2>3. owner[s] \in Agents
    BY <2>1, <2>2 DEF ReaderInv, DeliveryInv, RouteInv, TypeInv, CallTypeOK
  <2>. QED
    BY <1>2, <2>1, <2>2, <2>3 DEF OwnersKept
<1>. QED
  BY <1>1, <1>2

(* What the server sends takes no release back, unless it asks for a view.   *)
LEMMA SendReleased ==
    ASSUME NEW M, NEW queues \in [Sockets -> Seq(M)], NEW s, NEW m \in M, NEW t \in Sockets,
           NEW held, NEW r, Released(queues[t], held, r), m.type # "logs.subscribe"
    PROVE  Released(Send(queues, s, m)[t], held, r)
<1>1. queues[t] \in Seq(M)
  OBVIOUS
<1>2. Send(queues, s, m)[t] \in {queues[t], Append(queues[t], m)}
  BY DEF Send
<1>3. Released(Append(queues[t], m), held, r)
  BY <1>1, AppendReleased
<1>. QED
  BY <1>2, <1>3

(* The end of the process ends every connection.                            *)
LEMMA ServerLostReaders ==
    ASSUME ServerLost, UNCHANGED <<sock, logReaders>>
    PROVE  SubscribersShrink /\ OwnersKept /\ \A a \in Agents : Steady(a)
BY DEF ServerLost, Steady, FirstLives, SubscribersShrink, OwnersKept

(* Routing an agent to a socket it dialled: the only one, on its first        *)
(* connection.                                                              *)
LEMMA RoutedSteady ==
    ASSUME ReaderInv, UNCHANGED <<owner, serverEnd, down, logSubscribers, sock, logReaders>>,
           NEW s \in Sockets, owner[s] \in Agents,
           socketsByUuid' \in {socketsByUuid, [socketsByUuid EXCEPT ![owner[s]] = s]}
    PROVE  \A a \in Agents : Steady(a)
<1>. SUFFICES ASSUME NEW a \in Agents
              PROVE  Steady(a)
  OBVIOUS
<1>1. socketsByUuid \in [Agents -> Sockets \cup {None}]
  BY DEF ReaderInv, DeliveryInv, RouteInv, TypeInv, RouteTypeOK
<1>2. FirstLives(a)' <=> FirstLives(a)
  BY DEF FirstLives
<1>3. FirstLives(a) => socketsByUuid'[a] = socketsByUuid[a] \/ socketsByUuid'[a] = sock[a]
  BY <1>1 DEF FirstLives
<1>. QED
  BY <1>2, <1>3 DEF Steady

(* A disconnect drops the subscribers of the agent whose socket closed.       *)
LEMMA SocketClosedReaders ==
    ASSUME ReaderInv, NEW s \in Sockets, SocketClosed(s), UNCHANGED <<sock, logReaders>>
    PROVE  SubscribersShrink /\ \A a \in Agents : Steady(a)
<1>1. /\ socketsByUuid \in [Agents -> Sockets \cup {None}]
      /\ logSubscribers \in [Streams -> Agents \cup {None}]
      /\ serverEnd \in [Sockets -> ServerEnds]
  BY DEF ReaderInv, DeliveryInv, RouteInv, TypeInv, RouteTypeOK, CallTypeOK, WireTypeOK
<1>2. /\ serverEnd' = [serverEnd EXCEPT ![s] = "closed"]
      /\ UNCHANGED <<owner, down>>
  BY DEF SocketClosed
<1>3. \A a \in Agents : FirstLives(a)' => FirstLives(a) /\ s # sock[a]
  BY <1>1, <1>2 DEF FirstLives
<1>4. CASE agentUuid[s] = None
  <2>1. UNCHANGED <<socketsByUuid, logSubscribers>>
    BY <1>4 DEF SocketClosed, HandleDisconnect
  <2>. QED
    BY <1>2, <1>3, <2>1, SameShrinks DEF Steady
<1>5. CASE agentUuid[s] # None
  <2>1. agentUuid[s] = owner[s]
    BY <1>5 DEF ReaderInv, DeliveryInv, RouteInv, Routes
  <2>2. /\ socketsByUuid' = [socketsByUuid EXCEPT ![owner[s]] = None]
        /\ logSubscribers' = [r \in Streams |-> IF logSubscribers[r] = owner[s] THEN None
                                               ELSE logSubscribers[r]]
    BY <1>5, <2>1 DEF SocketClosed, HandleDisconnect
  <2>3. SubscribersShrink
    BY <2>2 DEF SubscribersShrink
  <2>4. ASSUME NEW a \in Agents
        PROVE  Steady(a)
    <3>1. FirstLives(a)' => a # owner[s]
      BY <1>2, <1>3 DEF FirstLives
    <3>2. a # owner[s] => /\ socketsByUuid'[a] = socketsByUuid[a]
                          /\ \A r \in Streams : logSubscribers'[r] = a <=> logSubscribers[r] = a
      BY <1>1, <2>2, WireAssumption
    <3>. QED
      BY <1>2, <1>3, <3>1, <3>2 DEF Steady
  <2>. QED
    BY <2>3, <2>4
<1>. QED
  BY <1>4, <1>5

(* The server's steps for a socket.                                         *)
LEMMA SocketReaders ==
    ASSUME ReaderInv, NEW s \in Sockets, SocketStep(s), UNCHANGED agentVars
    PROVE  /\ SubscribersShrink /\ OwnersKept /\ UNCHANGED clientEnd
           /\ \A a \in Agents : Steady(a)
<1>0. UNCHANGED <<sock, logReaders>>
  BY DEF agentVars
<1>1. /\ up[s] # <<>> \/ regTask[s] # "none" \/ hbTask[s] # "none" => owner[s] \in Agents
      /\ down \in [Sockets -> Seq(Named(ServerMessage))]
      /\ serverEnd \in [Sockets -> ServerEnds]
  BY DEF ReaderInv, DeliveryInv, RouteInv, TypeInv, SocketsOwned, MessagesNamed, WireTypeOK
<1>2. CASE Receive(s)
  <2>1. /\ UNCHANGED <<owner, clientEnd, serverEnd, down, logSubscribers>>
        /\ socketsByUuid' \in {socketsByUuid, [socketsByUuid EXCEPT ![owner[s]] = s]}
        /\ up[s] # <<>>
    BY <1>2 DEF Receive, ReceiveRegister, ReceiveHeartbeat, ReceiveListed, ReceiveMetrics,
       ReceiveResult, ReceiveInspected, ReceiveChunk, Arrives, callVars, routeVars, gatewayVars
  <2>. QED
    BY <1>0, <1>1, <2>1, RoutedSteady, SameShrinks
<1>3. CASE ServerLost
  BY <1>0, <1>3, ServerLostReaders DEF ServerLost
<1>4. CASE /\ UNCHANGED <<owner, clientEnd, down, socketsByUuid, logSubscribers>>
           /\ UNCHANGED serverEnd \/ serverEnd' = [serverEnd EXCEPT ![s] = "closing"]
  <2>1. \A t \in Sockets : serverEnd'[t] = "open" => serverEnd[t] = "open"
    BY <1>1, <1>4
  <2>. QED
    BY <1>0, <1>4, <2>1, SameShrinks DEF Steady, FirstLives
<1>5. CASE RegisterUpsert(s) \/ HeartbeatTask(s) \/ MarkOffline(s) \/ SocketClosing(s)
  BY <1>3, <1>4, <1>5 DEF RegisterUpsert, HeartbeatTask, HeartbeatFind, HeartbeatUpdate,
     MarkOffline, SocketClosing, UnhandledDbFault, wireVars, routeVars, callVars, gatewayVars
<1>6. CASE RegisterResume(s)
  <2>. DEFINE m == Envelope("agent.registered")
              n == Envelope("container.list")
              mid == Send(down, s, m)
  <2>1. /\ UNCHANGED <<owner, clientEnd, serverEnd, logSubscribers>>
        /\ socketsByUuid' = [socketsByUuid EXCEPT ![owner[s]] = s]
        /\ owner[s] \in Agents
        /\ down' = Send(mid, s, n)
    BY <1>1, <1>6 DEF RegisterResume, callVars
  <2>2. /\ m \in Named(ServerMessage) /\ m.type # "logs.subscribe"
        /\ n \in Named(ServerMessage) /\ n.type # "logs.subscribe"
    BY DEF Envelope, Named, Names, Message, ServerMessage, Requests
  <2>. HIDE DEF m, n, mid
  <2>3. mid \in [Sockets -> Seq(Named(ServerMessage))]
    BY <1>1, <2>2, SendType DEF mid
  <2>4. socketsByUuid \in [Agents -> Sockets \cup {None}]
    BY DEF ReaderInv, DeliveryInv, RouteInv, TypeInv, RouteTypeOK
  <2>5. ASSUME NEW a \in Agents
        PROVE  Steady(a)
    <3>1. ASSUME NEW r \in Streams, FirstLives(a), Released(down[sock[a]], logReaders[a], r)
          PROVE  Released(down'[sock[a]], logReaders[a], r)
      <4>1. sock[a] \in Sockets
        BY <3>1 DEF FirstLives
      <4>2. Released(mid[sock[a]], logReaders[a], r)
        BY <1>1, <2>2, <3>1, <4>1, SendReleased DEF mid
      <4>. QED
        BY <2>1, <2>2, <2>3, <4>1, <4>2, SendReleased
    <3>2. FirstLives(a)' <=> FirstLives(a)
      BY <1>0, <2>1 DEF FirstLives
    <3>3. FirstLives(a) => socketsByUuid'[a] = socketsByUuid[a] \/ socketsByUuid'[a] = sock[a]
      BY <2>1, <2>4 DEF FirstLives
    <3>. QED
      BY <1>0, <2>1, <3>1, <3>2, <3>3 DEF Steady
  <2>. QED
    BY <2>1, <2>5, SameShrinks
<1>7. CASE SocketClosed(s)
  BY <1>0, <1>7, SocketClosedReaders, SameShrinks DEF SocketClosed
<1>. QED
  BY <1>2, <1>5, <1>6, <1>7 DEF SocketStep, Registration

(* A step of the server keeps the invariant when it is steady for every agent. *)
LEMMA SteadyReaders ==
    ASSUME ReaderInv, UNCHANGED <<session, sock, logReaders, clientEnd>>,
           OwnersKept, SubscribersShrink, \A a \in Agents : Steady(a)
    PROVE  ReadersTracked'
BY ReaderFrame, SteadyTracked DEF ReaderInv, ReadersTracked

(* Where a message for agent x goes: on its first connection, onto its socket, *)
(* and never onto another agent's.                                          *)
LEMMA SendQueue ==
    ASSUME ReaderInv, NEW x \in Agents, Reachable(x), NEW m,
           down' = Send(down, socketsByUuid[x], m), NEW a \in Agents, FirstLives(a)
    PROVE  IF a = x THEN down'[sock[a]] = Append(down[sock[a]], m)
           ELSE down'[sock[a]] = down[sock[a]]
<1>1. socketsByUuid[x] \in Sockets /\ owner[socketsByUuid[x]] = x
  BY RouteOwned DEF ReaderInv
<1>2. /\ sock[a] \in Sockets /\ sock[a] # None /\ serverEnd[sock[a]] = "open"
      /\ \A s \in Sockets : owner[s] = a => s = sock[a]
  BY WireAssumption DEF FirstLives
<1>3. owner[sock[a]] = a /\ clientEnd[sock[a]] = "open"
  BY <1>2 DEF ReaderInv, DeliveryInv, RouteInv, TypeInv, SocketsOwned, ReadersTracked,
     ConnectionsHeld
<1>4. down \in [Sockets -> Seq(Named(ServerMessage))]
  BY DEF ReaderInv, DeliveryInv, RouteInv, TypeInv, MessagesNamed
<1>5. CASE a = x
  <2>1. socketsByUuid[x] = sock[a]
    BY <1>1, <1>2, <1>5
  <2>. QED
    BY <1>2, <1>3, <1>4, <1>5, <2>1 DEF Send
<1>6. CASE a # x
  <2>1. socketsByUuid[x] # sock[a]
    BY <1>1, <1>3, <1>6
  <2>. QED
    BY <1>2, <1>4, <1>6, <2>1 DEF Send
<1>. QED
  BY <1>5, <1>6

(* A new subscriber was none before, and streams for the agent it is sent to. *)
LEMMA StartReaders ==
    ASSUME ReaderInv, NEW r \in Streams, StartLogStream(r), Reachable(call[r].agent),
           UNCHANGED agentVars
    PROVE  ReadersTracked'
<1>. DEFINE x == call[r].agent
            m == About("logs.subscribe", r)
<1>1. /\ x \in Agents /\ call[r].state = "found" /\ r \in Requests
      /\ logSubscribers \in [Streams -> Agents \cup {None}]
      /\ down \in [Sockets -> Seq(Named(ServerMessage))]
  BY DEF StartLogStream, ReaderInv, DeliveryInv, RouteInv, TypeInv, CallsAddressed,
     CallTypeOK, MessagesNamed, Requests
<1>2. /\ logSubscribers' = [logSubscribers EXCEPT ![r] = x]
      /\ down' = Send(down, socketsByUuid[x], m)
      /\ UNCHANGED <<owner, clientEnd, serverEnd, socketsByUuid>>
      /\ UNCHANGED <<session, sock, logReaders>>
  BY DEF StartLogStream, routeVars, agentVars
<1>3. logSubscribers[r] = None
  BY <1>1 DEF ReaderInv, DeliveryInv, CallsDelivered, SubscribersSent, Sent, Unsent
<1>4. m \in Named(ServerMessage) /\ m.type = "logs.subscribe" /\ m.req = r
  BY <1>1 DEF About, Envelope, Named, Names, Message, ServerMessage
<1>5. ConnectionsHeld'
  BY <1>2, ReaderFrame
<1>6. SubscribersOwned'
  <2>1. socketsByUuid[x] \in Sockets /\ owner[socketsByUuid[x]] = x
    BY <1>1, RouteOwned DEF ReaderInv
  <2>2. \A q \in Streams : logSubscribers'[q] = IF q = r THEN x ELSE logSubscribers[q]
    BY <1>1, <1>2
  <2>. QED
    BY <1>2, <2>1, <2>2 DEF SubscribersOwned, ReaderInv, ReadersTracked
<1>7. ASSUME NEW a \in Agents, FirstLives(a)', NEW q \in Streams
      PROVE  IF logSubscribers'[q] = a THEN socketsByUuid'[a] = sock'[a]
             ELSE Released(down'[sock'[a]], logReaders'[a], q)
  <2>. HIDE DEF m
  <2>1. FirstLives(a)
    BY <1>2, <1>7 DEF FirstLives
  <2>2. IF logSubscribers[q] = a THEN socketsByUuid[a] = sock[a]
        ELSE Released(down[sock[a]], logReaders[a], q)
    BY <2>1 DEF ReaderInv, ReadersTracked, Tracked
  <2>3. IF a = x THEN down'[sock[a]] = Append(down[sock[a]], m)
        ELSE down'[sock[a]] = down[sock[a]]
    BY <1>1, <1>2, <2>1, SendQueue
  <2>4. down[sock[a]] \in Seq(Named(ServerMessage))
    BY <1>1, <2>1 DEF FirstLives
  <2>5. CASE q = r /\ a = x
    <3>1. socketsByUuid[x] \in Sockets /\ owner[socketsByUuid[x]] = x
      BY <1>1, RouteOwned DEF ReaderInv
    <3>2. socketsByUuid[a] = sock[a]
      BY <2>1, <2>5, <3>1 DEF FirstLives
    <3>. QED
      BY <1>1, <1>2, <2>5, <3>2
  <2>6. CASE q = r /\ a # x
    <3>1. logSubscribers[q] # a /\ logSubscribers'[q] # a
      BY <1>1, <1>2, <1>3, <2>6, WireAssumption
    <3>. QED
      BY <1>2, <2>2, <2>3, <2>6, <3>1
  <2>7. CASE q # r
    <3>1. logSubscribers'[q] = logSubscribers[q]
      BY <1>1, <1>2, <2>7
    <3>2. Released(down[sock[a]], logReaders[a], q) => Released(down'[sock[a]], logReaders[a], q)
      BY <1>4, <2>3, <2>4, <2>7, AppendReleased
    <3>. QED
      BY <1>2, <2>2, <3>1, <3>2
  <2>. QED
    BY <2>5, <2>6, <2>7
<1>8. \A a \in Agents : Tracked(a)'
  BY <1>7 DEF Tracked
<1>. QED
  BY <1>5, <1>6, <1>8 DEF ReadersTracked

(* Closing a live view: its agent is told on its only connection, which the    *)
(* server still reaches it on.                                              *)
LEMMA CloseReaders ==
    ASSUME ReaderInv, NEW r \in Streams, StopLogStream(r),
           UNCHANGED <<owner, clientEnd, serverEnd, socketsByUuid>>, UNCHANGED agentVars
    PROVE  ReadersTracked'
<1>. DEFINE x == logSubscribers[r]
            m == About("logs.unsubscribe", r)
<1>1. /\ logSubscribers \in [Streams -> Agents \cup {None}]
      /\ down \in [Sockets -> Seq(Named(ServerMessage))]
  BY DEF ReaderInv, DeliveryInv, RouteInv, TypeInv, CallTypeOK, MessagesNamed
<1>2. /\ logSubscribers' = [logSubscribers EXCEPT ![r] = None]
      /\ down' = IF x # None /\ Reachable(x) THEN Send(down, socketsByUuid[x], m) ELSE down
      /\ UNCHANGED <<owner, clientEnd, serverEnd, socketsByUuid>>
      /\ UNCHANGED <<session, sock, logReaders>>
  BY DEF StopLogStream, agentVars
<1>3. m \in Named(ServerMessage) /\ m.type # "logs.subscribe"
  BY DEF About, Envelope, Named, Names, Message, ServerMessage, Requests
<1>4. ConnectionsHeld' /\ SubscribersOwned'
  <2>1. SubscribersShrink /\ OwnersKept
    BY <1>1, <1>2, SameShrinks DEF SubscribersShrink
  <2>. QED
    BY <1>2, <2>1, ReaderFrame
<1>5. ASSUME NEW a \in Agents, FirstLives(a)', NEW q \in Streams
      PROVE  IF logSubscribers'[q] = a THEN socketsByUuid'[a] = sock'[a]
             ELSE Released(down'[sock'[a]], logReaders'[a], q)
  <2>. HIDE DEF m
  <2>1. FirstLives(a)
    BY <1>2, <1>5 DEF FirstLives
  <2>2. IF logSubscribers[q] = a THEN socketsByUuid[a] = sock[a]
        ELSE Released(down[sock[a]], logReaders[a], q)
    BY <2>1 DEF ReaderInv, ReadersTracked, Tracked
  <2>3. \/ down'[sock[a]] = down[sock[a]] /\ ~(x = a /\ Reachable(x))
        \/ down'[sock[a]] = Append(down[sock[a]], m)
    <3>1. CASE x # None /\ Reachable(x)
      <4>1. x \in Agents /\ down' = Send(down, socketsByUuid[x], m)
        BY <1>1, <1>2, <3>1
      <4>2. IF a = x THEN down'[sock[a]] = Append(down[sock[a]], m)
            ELSE down'[sock[a]] = down[sock[a]]
        BY <2>1, <3>1, <4>1, SendQueue
      <4>. QED
        BY <4>2
    <3>2. CASE ~(x # None /\ Reachable(x))
      BY <1>2, <3>2, WireAssumption
    <3>. QED
      BY <3>1, <3>2
  <2>4. down[sock[a]] \in Seq(Named(ServerMessage))
    BY <1>1, <2>1 DEF FirstLives
  <2>5. CASE q # r \/ x # a
    <3>1. logSubscribers'[q] = a <=> logSubscribers[q] = a
      BY <1>1, <1>2, <2>5, WireAssumption
    <3>2. Released(down[sock[a]], logReaders[a], q) => Released(down'[sock[a]], logReaders[a], q)
      BY <1>3, <2>3, <2>4, AppendReleased
    <3>. QED
      BY <1>2, <2>2, <3>1, <3>2
  <2>6. CASE q = r /\ x = a
    <3>1. logSubscribers'[q] # a
      BY <1>1, <1>2, <2>6, WireAssumption
    <3>2. Reachable(x)
      BY <2>1, <2>2, <2>6, WireAssumption DEF FirstLives, Reachable
    <3>3. down'[sock[a]] = Append(down[sock[a]], m)
      BY <2>3, <2>6, <3>2
    <3>4. Released(down'[sock[a]], logReaders[a], q)
      <4>1. m = About("logs.unsubscribe", q)
        BY <2>6 DEF m
      <4>. QED
        BY <1>3, <2>4, <3>3, <4>1, AppendReleased
    <3>. QED
      BY <1>2, <3>1, <3>4
  <2>. QED
    BY <2>5, <2>6
<1>6. \A a \in Agents : Tracked(a)'
  BY <1>5 DEF Tracked
<1>. QED
  BY <1>4, <1>6 DEF ReadersTracked

(* The server's steps for a call.                                           *)
LEMMA CallReaders ==
    ASSUME ReaderInv, NEW r \in Requests, CallStep(r), UNCHANGED agentVars
    PROVE  ReadersTracked'
<1>0. /\ UNCHANGED <<session, sock, logReaders>>
      /\ down \in [Sockets -> Seq(Named(ServerMessage))]
  BY DEF agentVars, ReaderInv, DeliveryInv, RouteInv, TypeInv, MessagesNamed
<1>1. ASSUME UNCHANGED <<owner, clientEnd, serverEnd, socketsByUuid, logSubscribers>>,
             NEW s, NEW m \in Named(ServerMessage), m.type # "logs.subscribe",
             down' \in {down, Send(down, s, m)}
      PROVE  ReadersTracked'
  <2>1. ASSUME NEW a \in Agents
        PROVE  Steady(a)
    <3>1. FirstLives(a)' <=> FirstLives(a)
      BY <1>0, <1>1 DEF FirstLives
    <3>2. ASSUME NEW q \in Streams, FirstLives(a), Released(down[sock[a]], logReaders[a], q)
          PROVE  Released(down'[sock[a]], logReaders[a], q)
      <4>1. sock[a] \in Sockets
        BY <3>2 DEF FirstLives
      <4>2. Released(Send(down, s, m)[sock[a]], logReaders[a], q)
        BY <1>0, <1>1, <3>2, <4>1, SendReleased
      <4>. QED
        BY <1>1, <3>2, <4>2
    <3>. QED
      BY <1>0, <1>1, <3>1, <3>2 DEF Steady
  <2>. QED
    BY <1>0, <1>1, <2>1, SameShrinks, SteadyReaders
<1>2. CASE /\ UNCHANGED <<owner, clientEnd, serverEnd, socketsByUuid, logSubscribers>>
           /\ UNCHANGED down
  <2>1. PICK m \in Named(ServerMessage) : m.type # "logs.subscribe"
    <3>1. Envelope("container.list") \in Named(ServerMessage)
      BY NamedType DEF Names, ServerMessage
    <3>. QED
      BY <3>1 DEF Envelope
  <2>. QED
    BY <1>1, <1>2, <2>1
<1>3. CASE (\E b \in Agents : BeginCall(r, b)) \/ LookupHost(r) \/ CallTimeout(r)
  BY <1>2, <1>3 DEF BeginCall, LookupHost, CallTimeout, routeVars, wireVars
<1>4. ASSUME NEW type \in Asks, Ask(r, type), r \in Names(type)
      PROVE  ReadersTracked'
  <2>1. /\ UNCHANGED <<owner, clientEnd, serverEnd, socketsByUuid, logSubscribers>>
        /\ down' \in {down, Send(down, socketsByUuid[call[r].agent], About(type, r))}
    BY <1>4 DEF Ask, routeVars
  <2>2. About(type, r) \in Named(ServerMessage) /\ About(type, r).type # "logs.subscribe"
    BY <1>4 DEF Asks, About, Envelope, Named, Names, Message, ServerMessage
  <2>3. PICK m \in Named(ServerMessage) : m = About(type, r)
    BY <2>2
  <2>4. PICK s : s = socketsByUuid[call[r].agent]
    OBVIOUS
  <2>. QED
    BY <1>1, <2>1, <2>2, <2>3, <2>4
<1>5. CASE SendContainerCommand(r) \/ InspectContainer(r)
  BY <1>4, <1>5 DEF SendContainerCommand, InspectContainer, Asks, Names
<1>6. CASE StartLogStream(r)
  <2>1. CASE Reachable(call[r].agent)
    BY <1>6, <2>1, StartReaders DEF StartLogStream
  <2>2. CASE ~Reachable(call[r].agent)
    BY <1>2, <1>6, <2>2 DEF StartLogStream, routeVars
  <2>. QED
    BY <2>1, <2>2
<1>7. CASE CloseViewer(r)
  <2>1. CASE call[r].state = "live"
    <3>1. r \in Streams
      BY <1>7 DEF CloseViewer, ReaderInv, DeliveryInv, RouteInv, TypeInv, CallTypeOK
    <3>. QED
      BY <1>7, <2>1, <3>1, CloseReaders DEF CloseViewer, routeVars
  <2>2. CASE call[r].state # "live"
    BY <1>2, <1>7, <2>2 DEF CloseViewer, routeVars
  <2>. QED
    BY <2>1, <2>2
<1>. QED
  BY <1>3, <1>5, <1>6, <1>7 DEF CallStep, Dispatch

---------------------------------------------------------------------------
(* An agent's own steps do not touch the other agents' connections.         *)
LEMMA OthersTracked ==
    ASSUME ReaderInv, NEW a \in Agents, NEW b \in Agents, a # b,
           UNCHANGED <<serverEnd, socketsByUuid, logSubscribers>>,
           sock'[b] = sock[b], logReaders'[b] = logReaders[b],
           \A t \in Sockets : owner'[t] = owner[t] \/ owner[t] = None,
           \A t \in Sockets : owner[t] = b => down'[t] = down[t]
    PROVE  Tracked(b)'
<1>1. ASSUME FirstLives(b)'
      PROVE  FirstLives(b) /\ down'[sock[b]] = down[sock[b]]
  <2>1. sock[b] \in Sockets /\ sock[b] # None
    BY <1>1, WireAssumption DEF FirstLives
  <2>2. owner[sock[b]] = b
    BY <2>1 DEF ReaderInv, DeliveryInv, RouteInv, TypeInv, SocketsOwned
  <2>3. \A t \in Sockets : owner[t] = b => owner'[t] = b
    BY WireAssumption
  <2>. QED
    BY <1>1, <2>1, <2>2, <2>3 DEF FirstLives
<1>. QED
  BY <1>1 DEF Tracked, ReaderInv, ReadersTracked

(* A new connection: nothing is on its way, and no view is read.            *)
LEMMA DialReaders ==
    ASSUME ReaderInv, NEW a \in Agents, NEW s \in Sockets, Dial(a, s), UNCHANGED gatewayVars
    PROVE  ReadersTracked'
<1>1. /\ session[a] = "waiting" /\ owner[s] = None
      /\ owner' = [owner EXCEPT ![s] = a]
      /\ clientEnd' = [clientEnd EXCEPT ![s] = "open"]
      /\ serverEnd' = [serverEnd EXCEPT ![s] = "open"]
      /\ session' = [session EXCEPT ![a] = "registering"]
      /\ sock' = [sock EXCEPT ![a] = s]
      /\ UNCHANGED <<down, logReaders, socketsByUuid, logSubscribers>>
  BY DEF Dial, gatewayVars, routeVars, callVars
<1>2. /\ owner \in [Sockets -> Agents \cup {None}]
      /\ clientEnd \in [Sockets -> ClientEnds] /\ serverEnd \in [Sockets -> ServerEnds]
      /\ session \in [Agents -> {"stopped", "waiting"} \cup Connected]
      /\ sock \in [Agents -> Sockets \cup {None}]
      /\ logSubscribers \in [Streams -> Agents \cup {None}]
  BY DEF ReaderInv, DeliveryInv, RouteInv, TypeInv, WireTypeOK, AgentTypeOK, CallTypeOK
<1>3. \A b \in Agents : sock[b] # None => owner[sock[b]] = b /\ sock[b] # s
  BY <1>1, WireAssumption DEF ReaderInv, DeliveryInv, RouteInv, TypeInv, SocketsOwned
<1>4. sock[a] = None /\ logReaders[a] = {} /\ down[s] = <<>>
  BY <1>1 DEF ReaderInv, ReadersTracked, ConnectionsHeld, Connected, OpeningInv, NewSocketsBlank
<1>5. ConnectionsHeld'
  <2>1. ASSUME NEW b \in Agents
        PROVE  /\ session'[b] \notin Connected => sock'[b] = None
               /\ sock'[b] = None => logReaders'[b] = {}
               /\ sock'[b] # None => clientEnd'[sock'[b]] = "open"
    <3>1. CASE b = a
      <4>1. session'[a] = "registering" /\ sock'[a] = s /\ clientEnd'[s] = "open" /\ s # None
        BY <1>1, <1>2, WireAssumption
      <4>. QED
        BY <3>1, <4>1 DEF Connected
    <3>2. CASE b # a
      <4>1. session'[b] = session[b] /\ sock'[b] = sock[b] /\ logReaders'[b] = logReaders[b]
        BY <1>1, <1>2, <3>2
      <4>2. sock[b] # None => clientEnd'[sock[b]] = clientEnd[sock[b]]
        BY <1>1, <1>2, <1>3
      <4>. QED
        BY <4>1, <4>2 DEF ReaderInv, ReadersTracked, ConnectionsHeld
    <3>. QED
      BY <3>1, <3>2
  <2>. QED
    BY <2>1 DEF ConnectionsHeld
<1>6. OwnersKept
  BY <1>1, <1>2, WireAssumption DEF OwnersKept
<1>7. SubscribersOwned'
  BY <1>1, <1>6, ReaderFrame, SameShrinks
<1>8. ASSUME NEW b \in Agents
      PROVE  Tracked(b)'
  <2>1. CASE b = a
    <3>. SUFFICES ASSUME FirstLives(a)', NEW r \in Streams
                  PROVE  IF logSubscribers'[r] = a THEN socketsByUuid'[a] = sock'[a]
                         ELSE Released(down'[sock'[a]], logReaders'[a], r)
      BY <2>1 DEF Tracked
    <3>1. sock'[a] = s /\ down'[s] = <<>> /\ logReaders'[a] = {}
      BY <1>1, <1>2, <1>4
    <3>2. Released(<<>>, {}, r)
      BY EmptySeq DEF Released, Closes
    <3>3. logSubscribers'[r] # a
      <4>1. SUFFICES ASSUME logSubscribers[r] = a
                     PROVE  FALSE
        BY <1>1
      <4>2. PICK t \in Sockets : owner[t] = a
        BY <4>1, WireAssumption DEF ReaderInv, ReadersTracked, SubscribersOwned
      <4>3. t # s /\ owner'[t] = a
        BY <1>1, <1>2, <4>2, WireAssumption
      <4>. QED
        BY <3>1, <4>3 DEF FirstLives
    <3>. QED
      BY <3>1, <3>2, <3>3
  <2>2. CASE b # a
    <3>1. sock'[b] = sock[b] /\ logReaders'[b] = logReaders[b]
      BY <1>1, <1>2, <2>2
    <3>2. ASSUME FirstLives(b)'
          PROVE  FirstLives(b)
      <4>1. sock[b] \in Sockets /\ sock[b] # s
        BY <1>3, <3>1, <3>2, WireAssumption DEF FirstLives
      <4>2. \A t \in Sockets : owner[t] = b => owner'[t] = b
        BY <1>1, <1>2, WireAssumption
      <4>. QED
        BY <1>1, <1>2, <3>1, <3>2, <4>1, <4>2 DEF FirstLives
    <3>. QED
      BY <1>1, <3>1, <3>2 DEF Tracked, ReaderInv, ReadersTracked
  <2>. QED
    BY <2>1, <2>2
<1>. QED
  BY <1>5, <1>7, <1>8 DEF ReadersTracked

(* A session that ends closes its connection and every reader.              *)
LEMMA DisconnectReaders ==
    ASSUME ReaderInv, NEW a \in Agents, NEW next \in {"stopped", "waiting"}, NEW end,
           Disconnect(a, next, end), UNCHANGED gatewayVars
    PROVE  ReadersTracked'
<1>1. /\ session' = [session EXCEPT ![a] = next]
      /\ sock' = [sock EXCEPT ![a] = None]
      /\ clientEnd' = [s \in Sockets |-> IF s = sock[a] THEN end ELSE clientEnd[s]]
      /\ down' = [s \in Sockets |-> IF s = sock[a] THEN <<>> ELSE down[s]]
      /\ logReaders' = [logReaders EXCEPT ![a] = {}]
      /\ UNCHANGED <<owner, serverEnd, socketsByUuid, logSubscribers>>
  BY DEF Disconnect, gatewayVars, routeVars, callVars
<1>2. /\ session \in [Agents -> {"stopped", "waiting"} \cup Connected]
      /\ sock \in [Agents -> Sockets \cup {None}]
      /\ logReaders \in [Agents -> SUBSET Streams]
      /\ down \in [Sockets -> Seq(Message(ServerMessage))]
      /\ clientEnd \in [Sockets -> ClientEnds]
  BY DEF ReaderInv, DeliveryInv, RouteInv, TypeInv, AgentTypeOK, WireTypeOK
<1>3. \A b \in Agents : sock[b] # None => owner[sock[b]] = b
  BY DEF ReaderInv, DeliveryInv, RouteInv, TypeInv, SocketsOwned
<1>4. /\ session'[a] \notin Connected /\ sock'[a] = None /\ logReaders'[a] = {}
      /\ \A b \in Agents : b # a => /\ session'[b] = session[b] /\ sock'[b] = sock[b]
                                    /\ logReaders'[b] = logReaders[b]
  BY <1>1, <1>2 DEF Connected
<1>5. ConnectionsHeld'
  <2>1. ASSUME NEW b \in Agents, b # a, sock[b] # None
        PROVE  clientEnd'[sock[b]] = clientEnd[sock[b]]
    <3>1. sock[b] \in Sockets /\ sock[b] # sock[a]
      BY <1>2, <1>3, <2>1
    <3>. QED
      BY <1>1, <3>1
  <2>. QED
    BY <1>4, <2>1 DEF ConnectionsHeld, ReaderInv, ReadersTracked
<1>6. SubscribersOwned'
  BY <1>1, ReaderFrame, SameShrinks
<1>7. ASSUME NEW b \in Agents
      PROVE  Tracked(b)'
  <2>1. CASE b = a
    BY <1>4, <2>1, WireAssumption DEF Tracked, FirstLives
  <2>2. CASE b # a
    <3>1. \A t \in Sockets : owner[t] = b => t # sock[a]
      BY <1>3, <2>2, WireAssumption
    <3>2. \A t \in Sockets : owner[t] = b => down'[t] = down[t]
      BY <1>1, <3>1
    <3>. QED
      BY <1>1, <1>4, <2>2, <3>2, OthersTracked
  <2>. QED
    BY <2>1, <2>2
<1>. QED
  BY <1>5, <1>6, <1>7 DEF ReadersTracked

(* The agent reads a message; what it is told to follow or to release is what *)
(* becomes of its readers.                                                  *)
LEMMA TakeReaders ==
    ASSUME ReaderInv, NEW a \in Agents, UNCHANGED gatewayVars,
           UNCHANGED <<owner, clientEnd, serverEnd, sock>>,
           session[a] \in Connected, session'[a] \in Connected,
           \A b \in Agents : b # a => session'[b] = session[b] /\ logReaders'[b] = logReaders[b],
           sock[a] \in Sockets, down[sock[a]] # <<>>, down' = Take(down, a),
           \A r \in Streams :
              \/ Head(down[sock[a]]).type = "logs.subscribe" /\ Head(down[sock[a]]).req = r
              \/ r \notin logReaders'[a]
              \/ /\ r \in logReaders'[a] => r \in logReaders[a]
                 /\ Head(down[sock[a]]) # About("logs.unsubscribe", r)
    PROVE  ReadersTracked'
<1>1. /\ down \in [Sockets -> Seq(Named(ServerMessage))]
      /\ down' = [down EXCEPT ![sock[a]] = Tail(down[sock[a]])]
      /\ UNCHANGED <<socketsByUuid, logSubscribers>>
  BY DEF Take, gatewayVars, routeVars, callVars, ReaderInv, DeliveryInv, RouteInv, TypeInv,
     MessagesNamed
<1>2. sock[a] # None /\ owner[sock[a]] = a
  BY WireAssumption DEF ReaderInv, DeliveryInv, RouteInv, TypeInv, SocketsOwned
<1>3. ConnectionsHeld'
  BY <1>2 DEF ReaderInv, ReadersTracked, ConnectionsHeld
<1>4. SubscribersOwned'
  BY <1>1, ReaderFrame, SameShrinks
<1>5. ASSUME NEW b \in Agents
      PROVE  Tracked(b)'
  <2>1. CASE b = a
    <3>. SUFFICES ASSUME FirstLives(a)', NEW r \in Streams
                  PROVE  IF logSubscribers'[r] = a THEN socketsByUuid'[a] = sock'[a]
                         ELSE Released(down'[sock'[a]], logReaders'[a], r)
      BY <2>1 DEF Tracked
    <3>1. FirstLives(a)
      BY DEF FirstLives
    <3>2. IF logSubscribers[r] = a THEN socketsByUuid[a] = sock[a]
          ELSE Released(down[sock[a]], logReaders[a], r)
      BY <3>1 DEF ReaderInv, ReadersTracked, Tracked
    <3>3. down[sock[a]] \in Seq(Named(ServerMessage)) /\ down'[sock[a]] = Tail(down[sock[a]])
      BY <1>1
    <3>4. Released(down[sock[a]], logReaders[a], r) => Released(down'[sock[a]], logReaders'[a], r)
      BY <3>3, TailReleased
    <3>. QED
      BY <1>1, <3>2, <3>4
  <2>2. CASE b # a
    <3>1. \A t \in Sockets : owner[t] = b => down'[t] = down[t]
      BY <1>1, <1>2, <2>2
    <3>. QED
      BY <1>1, <2>2, <3>1, OthersTracked
  <2>. QED
    BY <2>1, <2>2
<1>. QED
  BY <1>3, <1>4, <1>5 DEF ReadersTracked

(* A step that leaves the connections and the queues to the agents alone, and  *)
(* opens no reader.                                                         *)
LEMMA QuietReaders ==
    ASSUME ReaderInv,
           UNCHANGED <<owner, clientEnd, serverEnd, down, socketsByUuid, logSubscribers, sock>>,
           \A a \in Agents : /\ session'[a] \notin Connected => session[a] \notin Connected
                             /\ logReaders'[a] \subseteq logReaders[a]
    PROVE  ReadersTracked'
<1>1. ConnectionsHeld'
  BY DEF ReaderInv, ReadersTracked, ConnectionsHeld
<1>2. SubscribersOwned'
  BY ReaderFrame, SameShrinks
<1>3. \A a \in Agents : Tracked(a)'
  BY DEF Tracked, FirstLives, Released, ReaderInv, ReadersTracked
<1>. QED
  BY <1>1, <1>2, <1>3 DEF ReadersTracked

(* The agents' steps.                                                       *)
LEMMA AgentReaders ==
    ASSUME ReaderInv, NEW a \in Agents, AgentStep(a), UNCHANGED gatewayVars
    PROVE  ReadersTracked'
<1>0. /\ UNCHANGED <<socketsByUuid, logSubscribers>>
      /\ session \in [Agents -> {"stopped", "waiting"} \cup Connected]
      /\ sock \in [Agents -> Sockets \cup {None}]
      /\ logReaders \in [Agents -> SUBSET Streams]
      /\ down \in [Sockets -> Seq(Named(ServerMessage))]
  BY DEF gatewayVars, routeVars, callVars, ReaderInv, DeliveryInv, RouteInv, TypeInv,
     AgentTypeOK, MessagesNamed
<1>1. CASE Reconnect(a)
  BY <1>1, DialReaders DEF Reconnect
<1>2. CASE RegisterTimeout(a) \/ SessionFails(a) \/ Stop(a) \/ (a \in Fragile /\ Vanish(a))
  BY <1>2, DisconnectReaders DEF RegisterTimeout, SessionFails, Stop, Vanish
<1>3. CASE \/ Heartbeat(a) \/ HostMetrics(a) \/ PushContainers(a) \/ ContainersChange(a)
           \/ \E r \in Streams : EmitLogChunk(a, r)
  BY <1>0, <1>3, QuietReaders DEF Heartbeat, HostMetrics, PushContainers, ContainersChange,
     EmitLogChunk, Report, engineVars, wireVars
<1>4. CASE Start(a)
  <2>1. UNCHANGED <<owner, clientEnd, serverEnd, down, sock, logReaders>>
    BY <1>4 DEF Start, wireVars
  <2>2. \A b \in Agents : session'[b] \notin Connected => session[b] \notin Connected
    BY <1>0, <1>4 DEF Start, Connected
  <2>. QED
    BY <1>0, <2>1, <2>2, QuietReaders
<1>5. CASE \E r \in Streams : StreamEnds(a, r)
  <2>1. UNCHANGED <<owner, clientEnd, serverEnd, down, sock, session>>
    BY <1>5 DEF StreamEnds, wireVars
  <2>2. \A b \in Agents : logReaders'[b] \subseteq logReaders[b]
    BY <1>0, <1>5 DEF StreamEnds
  <2>. QED
    BY <1>0, <2>1, <2>2, QuietReaders
<1>6. CASE Registered(a) \/ HandleMessage(a)
  <2>. DEFINE m == Head(down[sock[a]])
  <2>1. /\ UNCHANGED <<owner, clientEnd, serverEnd, sock>>
        /\ session[a] \in Connected /\ session'[a] \in Connected
        /\ \A b \in Agents : b # a => session'[b] = session[b] /\ logReaders'[b] = logReaders[b]
        /\ down[sock[a]] # <<>> /\ down' = Take(down, a)
    <3>1. CASE Registered(a)
      BY <1>0, <3>1 DEF Registered, Delivered, Connected
    <3>2. CASE HandleContainerList(a) \/ HandleContainerCommand(a) \/ HandleContainerInspect(a)
      BY ZenonT(30), <3>2 DEF HandleContainerList, HandleContainerCommand, HandleContainerInspect,
         CarryOut, Serves, Delivered, Connected
    <3>3. CASE HandleLogsSubscribe(a) \/ HandleLogsUnsubscribe(a)
      BY <1>0, <3>3 DEF HandleLogsSubscribe, HandleLogsUnsubscribe, Serves, Delivered, Connected
    <3>. QED
      BY <1>6, <3>1, <3>2, <3>3 DEF HandleMessage
  <2>2. sock[a] \in Sockets
    BY <1>0, <1>6 DEF Registered, HandleMessage, HandleContainerList, HandleContainerCommand,
       HandleContainerInspect, HandleLogsSubscribe, HandleLogsUnsubscribe, Serves, Delivered
  <2>3. ASSUME NEW r \in Streams
        PROVE  \/ m.type = "logs.subscribe" /\ m.req = r
               \/ r \notin logReaders'[a]
               \/ (r \in logReaders'[a] => r \in logReaders[a]) /\ m # About("logs.unsubscribe", r)
    <3>1. /\ About("logs.unsubscribe", r).type = "logs.unsubscribe"
          /\ About("logs.unsubscribe", r).req = r
      BY DEF About, Envelope
    <3>2. CASE /\ m.type # "logs.unsubscribe" /\ UNCHANGED logReaders
      BY <3>1, <3>2
    <3>3. CASE Registered(a) \/ HandleContainerList(a) \/ HandleContainerCommand(a)
               \/ HandleContainerInspect(a)
      BY ZenonT(30), <3>2, <3>3 DEF Registered, HandleContainerList, HandleContainerCommand,
         HandleContainerInspect, CarryOut, Serves, Delivered
    <3>4. CASE HandleLogsSubscribe(a)
      <4>1. /\ m.type = "logs.subscribe"
            /\ logReaders'[a] \subseteq logReaders[a] \cup {m.req}
        BY <1>0, <3>4 DEF HandleLogsSubscribe, Serves, Delivered
      <4>. QED
        BY <3>1, <4>1
    <3>5. CASE HandleLogsUnsubscribe(a)
      <4>1. logReaders'[a] = logReaders[a] \ {m.req}
        BY <1>0, <3>5 DEF HandleLogsUnsubscribe
      <4>. QED
        BY <3>1, <4>1
    <3>. QED
      BY <1>6, <3>3, <3>4, <3>5 DEF HandleMessage
  <2>. QED
    BY <2>1, <2>2, <2>3, TakeReaders
<1>. QED
  BY <1>1, <1>2, <1>3, <1>4, <1>5, <1>6 DEF AgentStep

(* Every step of the system.                                                *)
LEMMA ReaderStep == ReaderInv /\ [Next]_vars => ReadersTracked'
<1>. SUFFICES ASSUME ReaderInv, [Next]_vars
              PROVE  ReadersTracked'
  OBVIOUS
<1>1. CASE GatewayNext /\ UNCHANGED agentVars
  <2>0. UNCHANGED <<session, sock, logReaders>>
    BY <1>1 DEF agentVars
  <2>1. CASE (\E a \in Agents : HostStep(a)) \/ ServerStart
    BY <2>0, <2>1, QuietReaders DEF HostStep, DeleteHostCheck, DeleteHostCommit,
       SevenDaysPass, ServerStart, wireVars, routeVars, callVars
  <2>2. CASE ServerCrash
    BY <2>0, <2>2, ServerLostReaders, SteadyReaders DEF ServerCrash, ServerLost
  <2>3. CASE \E s \in Sockets : SocketStep(s)
    <3>1. PICK s \in Sockets : SocketStep(s)
      BY <2>3
    <3>2. /\ SubscribersShrink /\ OwnersKept /\ UNCHANGED clientEnd
          /\ \A a \in Agents : Steady(a)
      BY <1>1, <3>1, SocketReaders
    <3>. QED
      BY <2>0, <3>2, SteadyReaders
  <2>. QED
    BY <1>1, <2>1, <2>2, <2>3, CallReaders DEF GatewayNext
<1>2. CASE AgentNext /\ UNCHANGED gatewayVars
  BY <1>2, AgentReaders DEF AgentNext
<1>3. CASE UNCHANGED vars
  BY <1>3, QuietReaders DEF vars, wireVars, gatewayVars, routeVars, callVars, agentVars
<1>. QED
  BY <1>1, <1>2, <1>3 DEF Next

(* Initially there is no connection and no reader.                          *)
LEMMA ReaderInit == Init => ReadersTracked
BY WireAssumption DEF Init, WireInit, GatewayInit, AgentInit, ReadersTracked, ConnectionsHeld,
   SubscribersOwned, Tracked, FirstLives, Connected

(* The invariant of log readers.                                            *)
LEMMA ReaderInvariant == Spec => []ReadersTracked
<1>1. OpeningInv /\ DeliveryInv /\ ReadersTracked /\ [Next]_vars => ReadersTracked'
  BY ReaderStep DEF ReaderInv
<1>. QED
  BY <1>1, ReaderInit, OpeningInvariant, DeliveryInvariant, PTL DEF Spec

(* startLogStream, stopLogStream and handleDisconnect keep logSubscribers; the *)
(* agent's readers follow the messages they send.  While an agent's first       *)
(* connection lives, no reader is abandoned: the server can still stop it, or   *)
(* has told the agent to.                                                   *)
THEOREM ReadersAreKnown == Spec => []NoAbandonedReader
<1>1. DeliveryInv /\ ReadersTracked => NoAbandonedReader
  <2>. SUFFICES ASSUME DeliveryInv, ReadersTracked, NEW a \in Agents, NEW r \in logReaders[a],
                       \A s \in Sockets : owner[s] = a => s = sock[a],
                       serverEnd[sock[a]] = "open", logSubscribers[r] # a
                PROVE  \E i \in DOMAIN down[sock[a]] :
                          down[sock[a]][i] = About("logs.unsubscribe", r)
    BY DEF NoAbandonedReader
  <2>1. r \in Streams /\ sock[a] \in Sockets
    BY DEF ReadersTracked, ConnectionsHeld, DeliveryInv, RouteInv, TypeInv, AgentTypeOK
  <2>2. Released(down[sock[a]], logReaders[a], r)
    BY <2>1 DEF ReadersTracked, Tracked, FirstLives
  <2>. QED
    BY <2>2 DEF Released, Ends
<1>. QED
  BY <1>1, DeliveryInvariant, ReaderInvariant, PTL
===========================================================================
