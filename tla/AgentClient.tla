---------------------------- MODULE AgentClient ---------------------------
(***************************************************************************)
(* The agent process on a managed host: communication.Client (dial,         *)
(* register, wait for the acknowledgement, serve), the logs.Service it       *)
(* drives, and the Docker engine as far as the client sees it.               *)
(*                                                                         *)
(* serve() is one goroutine that takes one event at a time from a select,    *)
(* so an action is one iteration of its loop; the log streams have their own *)
(* goroutines and write on whichever connection is current.                  *)
(***************************************************************************)
EXTENDS Wire

CONSTANTS
    Pushes,      \* what agents report unasked in this instance
    MaxVersion   \* bound: versions of a host's container set, not counting commands

ASSUME ClientAssumption ==
    /\ Pushes \subseteq {"agent.heartbeat", "metrics.host", "logs.chunk"}
    /\ MaxVersion \in Nat

VARIABLES
    session,      \* where Client.Run is
    sock,         \* Client.conn: the current socket, or None
    effect,       \* effect[r]: how often, by whom and with what result r was carried out
    docker,       \* version of the container set Docker would list
    changed,      \* a Docker event waits to be pushed (eventsCh)
    logStreams,   \* logs.Service.streams
    logReaders    \* the Docker log readers that are open

agentVars == <<session, sock, effect, docker, changed, logStreams, logReaders>>
engineVars == <<effect, docker, changed>>

Connected == {"registering", "serving"}
NoEffect == [count |-> 0, agent |-> None, ok |-> FALSE]

AgentTypeOK ==
    /\ session \in [Agents -> {"stopped", "waiting"} \cup Connected]
    /\ sock \in [Agents -> Sockets \cup {None}]
    /\ effect \in [Requests -> [count : Nat, agent : Agents \cup {None}, ok : BOOLEAN]]
    /\ docker \in [Agents -> Nat]
    /\ changed \in [Agents -> BOOLEAN]
    /\ logStreams \in [Agents -> SUBSET Streams]
    /\ logReaders \in [Agents -> SUBSET Streams]

AgentInit ==
    /\ session = [a \in Agents |-> "waiting"]
    /\ sock = [a \in Agents |-> None]
    /\ effect = [r \in Requests |-> NoEffect]
    /\ docker = [a \in Agents |-> 1]
    /\ changed = [a \in Agents |-> FALSE]
    /\ logStreams = [a \in Agents |-> {}]
    /\ logReaders = [a \in Agents |-> {}]

---------------------------------------------------------------------------
(* Client.Run and Client.session.                                           *)

(* The backoff is over and the dial succeeds; the first thing written is    *)
(* agent.register.                                                          *)
Dial(a, s) ==
    /\ session[a] = "waiting" /\ owner[s] = None
    /\ owner' = [owner EXCEPT ![s] = a]
    /\ clientEnd' = [clientEnd EXCEPT ![s] = "open"]
    /\ serverEnd' = [serverEnd EXCEPT ![s] = "open"]
    /\ up' = [up EXCEPT ![s] = <<Envelope("agent.register")>>]
    /\ session' = [session EXCEPT ![a] = "registering"]
    /\ sock' = [sock EXCEPT ![a] = s]
    /\ UNCHANGED <<down, engineVars, logStreams, logReaders>>

(* The next message for the agent, which is still able to read it.          *)
Delivered(a, type) ==
    /\ sock[a] # None
    /\ down[sock[a]] # <<>>
    /\ Head(down[sock[a]]).type = type
Take(queues, a) == [queues EXCEPT ![sock[a]] = Tail(@)]

(* waitRegistered returns, and serve starts with a heartbeat.               *)
Registered(a) ==
    /\ session[a] = "registering" /\ Delivered(a, "agent.registered")
    /\ session' = [session EXCEPT ![a] = "serving"]
    /\ down' = Take(down, a)
    /\ up' = Write(up, sock[a], Envelope("agent.heartbeat"))
    /\ UNCHANGED <<owner, clientEnd, serverEnd, sock, engineVars, logStreams, logReaders>>

(* session() returns: every log stream is closed, the connection is         *)
(* forgotten and closed.  end: how the other side may learn of it.          *)
Disconnect(a, next, end) ==
    /\ session' = [session EXCEPT ![a] = next]
    /\ sock' = [sock EXCEPT ![a] = None]
    /\ clientEnd' = [s \in Sockets |-> IF s = sock[a] THEN end ELSE clientEnd[s]]
    /\ down' = [s \in Sockets |-> IF s = sock[a] THEN <<>> ELSE down[s]]
    /\ changed' = [changed EXCEPT ![a] = FALSE]
    /\ logStreams' = [logStreams EXCEPT ![a] = {}]
    /\ logReaders' = [logReaders EXCEPT ![a] = {}]
    /\ UNCHANGED <<owner, serverEnd, up, effect, docker>>

(* A read or a write fails.                                                 *)
SessionFails(a) == session[a] \in Connected /\ Disconnect(a, "waiting", "closed")

(* No acknowledgement within 15 s.                                          *)
RegisterTimeout(a) == session[a] = "registering" /\ Disconnect(a, "waiting", "closed")

(* The process is told to stop, or dies; the system closes its connection.  *)
Stop(a) == session[a] # "stopped" /\ Disconnect(a, "stopped", "closed")

(* The machine loses power or network: nobody tells the server.             *)
Vanish(a) == session[a] \in Connected /\ Disconnect(a, "stopped", "lost")

Start(a) ==
    /\ session[a] = "stopped"
    /\ session' = [session EXCEPT ![a] = "waiting"]
    /\ UNCHANGED <<sock, engineVars, logStreams, logReaders, wireVars>>

---------------------------------------------------------------------------
(* Client.serve: one iteration of the select.                               *)

Serves(a, type) == session[a] = "serving" /\ Delivered(a, type)

(* Bound: at most one unasked report of a kind is on its way; the ticks are *)
(* 30 s and 10 s apart.                                                     *)
InFlight(s, m) == \E i \in DOMAIN up[s] : up[s][i] = m
Report(a, m) ==
    /\ ~InFlight(sock[a], m)
    /\ up' = Write(up, sock[a], m)
    /\ UNCHANGED <<owner, clientEnd, serverEnd, down, session, sock, engineVars,
                   logStreams, logReaders>>

Heartbeat(a) ==
    /\ "agent.heartbeat" \in Pushes /\ session[a] = "serving"
    /\ Report(a, Envelope("agent.heartbeat"))

HostMetrics(a) ==
    /\ "metrics.host" \in Pushes /\ session[a] = "serving"
    /\ Report(a, Envelope("metrics.host"))

Listed(a) == [Envelope("container.listed") EXCEPT !.ver = docker[a]]

(* handleContainerList answers with what Docker lists now, or, when Docker  *)
(* fails, not at all.                                                       *)
HandleContainerList(a) ==
    /\ Serves(a, "container.list")
    /\ down' = Take(down, a)
    /\ up' = Write(up, sock[a], Listed(a)) \/ UNCHANGED up
    /\ UNCHANGED <<owner, clientEnd, serverEnd, session, sock, engineVars, logStreams,
                   logReaders>>

(* The same list, pushed after a Docker event.                              *)
PushContainers(a) ==
    /\ session[a] = "serving" /\ changed[a]
    /\ changed' = [changed EXCEPT ![a] = FALSE]
    /\ up' = Write(up, sock[a], Listed(a)) \/ UNCHANGED up
    /\ UNCHANGED <<owner, clientEnd, serverEnd, down, session, sock, effect, docker,
                   logStreams, logReaders>>

(* The container set of the host changes; the event is missed when no       *)
(* session serves, or while the event stream is being reopened.             *)
ContainersChange(a) ==
    /\ docker[a] < MaxVersion
    /\ docker' = [docker EXCEPT ![a] = @ + 1]
    /\ \/ session[a] = "serving" /\ changed' = [changed EXCEPT ![a] = TRUE]
       \/ UNCHANGED changed
    /\ UNCHANGED <<session, sock, effect, logStreams, logReaders, wireVars>>

(* Carry out r and answer on the socket it came from.                       *)
CarryOut(a, r, ok, answer) ==
    /\ effect' = [effect EXCEPT ![r] = [count |-> @.count + 1, agent |-> a, ok |-> ok]]
    /\ down' = Take(down, a)
    /\ up' = Write(up, sock[a], [About(answer, r) EXCEPT !.ok = ok])
    /\ UNCHANGED <<owner, clientEnd, serverEnd, session, sock, logStreams, logReaders>>

(* handleContainerCommand.  A command that succeeds changes the container   *)
(* set, and Docker emits an event for it.                                   *)
HandleContainerCommand(a) ==
    /\ Serves(a, "container.command")
    /\ \E ok \in BOOLEAN :
          /\ CarryOut(a, Head(down[sock[a]]).req, ok, "container.result")
          /\ docker' = [docker EXCEPT ![a] = IF ok THEN @ + 1 ELSE @]
          /\ \/ ok /\ changed' = [changed EXCEPT ![a] = TRUE]
             \/ UNCHANGED changed

HandleContainerInspect(a) ==
    /\ Serves(a, "container.inspect")
    /\ \E ok \in BOOLEAN : CarryOut(a, Head(down[sock[a]]).req, ok, "container.inspected")
    /\ UNCHANGED <<docker, changed>>

---------------------------------------------------------------------------
(* Log streams.                                                             *)

(* logs.Service.Subscribe: the stream is recorded once Docker opened its    *)
(* log; when Docker refuses, nobody is told.                                *)
HandleLogsSubscribe(a) ==
    /\ Serves(a, "logs.subscribe")
    /\ down' = Take(down, a)
    /\ LET r == Head(down[sock[a]]).req
       IN  \/ /\ logStreams' = [logStreams EXCEPT ![a] = @ \cup {r}]
              /\ logReaders' = [logReaders EXCEPT ![a] = @ \cup {r}]
           \/ /\ logStreams' = [logStreams EXCEPT ![a] = @ \ {r}]
              /\ logReaders' = [logReaders EXCEPT ![a] = @ \ {r}]
    /\ UNCHANGED <<owner, clientEnd, serverEnd, up, session, sock, engineVars>>

HandleLogsUnsubscribe(a) ==
    /\ Serves(a, "logs.unsubscribe")
    /\ down' = Take(down, a)
    /\ LET r == Head(down[sock[a]]).req
       IN  /\ logStreams' = [logStreams EXCEPT ![a] = @ \ {r}]
           /\ logReaders' = [logReaders EXCEPT ![a] = @ \ {r}]
    /\ UNCHANGED <<owner, clientEnd, serverEnd, up, session, sock, engineVars>>

(* Stream.run flushes a batch.                                              *)
EmitLogChunk(a, r) ==
    /\ "logs.chunk" \in Pushes /\ session[a] \in Connected /\ r \in logReaders[a]
    /\ Report(a, About("logs.chunk", r))

(* Stream.run ends by itself (the container stopped, or follow was false):  *)
(* it closes the reader and leaves the stream in the service's map.         *)
StreamEnds(a, r) ==
    /\ r \in logReaders[a]
    /\ logReaders' = [logReaders EXCEPT ![a] = @ \ {r}]
    /\ UNCHANGED <<session, sock, engineVars, logStreams, wireVars>>
===========================================================================
