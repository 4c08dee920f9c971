------------------------------- MODULE Wire -------------------------------
(***************************************************************************)
(* The WebSockets between the agents and the server, and the messages of   *)
(* the DockSight protocol.  A socket is used once: an agent that reconnects *)
(* dials another one.  Each direction is a FIFO; what a peer wrote before   *)
(* its end closed may still be read by the other, or be lost with the       *)
(* connection.  The two ends learn of a close at different times, and       *)
(* between the two a socket is half open.                                   *)
(***************************************************************************)
EXTENDS Naturals, Sequences

CONSTANTS
    Agents,     \* the agents, one process each; stands for their durable uuids
    Sockets,    \* the connections the agents may open (bounds the reconnects)
    Commands,   \* lifecycle command calls a user makes, named by requestId
    Inspects,   \* inspect calls, named by requestId
    Streams,    \* log views, named by requestId
    None        \* stands for undefined and null

Requests == Commands \cup Inspects \cup Streams

ASSUME WireAssumption ==
    /\ Commands \cap Inspects = {}
    /\ Commands \cap Streams = {}
    /\ Inspects \cap Streams = {}
    /\ None \notin Agents \cup Sockets \cup Requests

(* "container.command" stands for the six lifecycle messages, which share   *)
(* one handler at each end; every message carries the fields any may need.  *)
AgentMessage  == {"agent.register", "agent.heartbeat", "container.listed",
                  "container.result", "container.inspected", "logs.chunk",
                  "metrics.host"}
ServerMessage == {"agent.registered", "container.list", "container.command",
                  "container.inspect", "logs.subscribe", "logs.unsubscribe"}
Message(types) == [type : types, req : Requests \cup {None}, ok : BOOLEAN, ver : Nat]

Envelope(type) == [type |-> type, req |-> None, ok |-> TRUE, ver |-> 0]
About(type, r) == [Envelope(type) EXCEPT !.req = r]

VARIABLES
    owner,      \* owner[s]: the agent that dialled socket s, or None
    clientEnd,  \* the agent's end of each socket
    serverEnd,  \* the server's end (readyState, and whether 'close' was emitted)
    up,         \* up[s]: messages on their way to the server
    down        \* down[s]: messages on their way to the agent

wireVars == <<owner, clientEnd, serverEnd, up, down>>

(* "lost": the agent's machine vanished without closing the connection.     *)
(* "closing": readyState is no longer OPEN and 'close' is still to come.    *)
ClientEnds == {"unused", "open", "closed", "lost"}
ServerEnds == {"unused", "open", "closing", "closed"}

WireTypeOK ==
    /\ owner \in [Sockets -> Agents \cup {None}]
    /\ clientEnd \in [Sockets -> ClientEnds]
    /\ serverEnd \in [Sockets -> ServerEnds]
    /\ up \in [Sockets -> Seq(Message(AgentMessage))]
    /\ down \in [Sockets -> Seq(Message(ServerMessage))]

WireInit ==
    /\ owner = [s \in Sockets |-> None]
    /\ clientEnd = [s \in Sockets |-> "unused"]
    /\ serverEnd = [s \in Sockets |-> "unused"]
    /\ up = [s \in Sockets |-> <<>>]
    /\ down = [s \in Sockets |-> <<>>]

(* AgentsGateway.send: nothing is written unless readyState is OPEN, and    *)
(* what is written to a peer that is gone is lost.                          *)
Send(queues, s, m) ==
    IF serverEnd[s] = "open" /\ clientEnd[s] = "open"
    THEN [queues EXCEPT ![s] = Append(@, m)]
    ELSE queues

(* Client.write: the write is lost when the server's end is gone.           *)
Write(queues, s, m) ==
    IF serverEnd[s] \in {"open", "closing"}
    THEN [queues EXCEPT ![s] = Append(@, m)]
    ELSE queues

(* A message of the given type is the next the server's end of s delivers.  *)
Arrives(s, type) ==
    /\ serverEnd[s] \in {"open", "closing"}
    /\ up[s] # <<>>
    /\ Head(up[s]).type = type
Consume(s) == up' = [up EXCEPT ![s] = Tail(@)]
===========================================================================
