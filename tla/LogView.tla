------------------------------ MODULE LogView ------------------------------
(***************************************************************************)
(* A container's log from Docker to the screen: the agent's stream with its      *)
(* decoder and batches, the agent's connections, the server's routing of chunks   *)
(* to the response of one log view, and the view in the browser, which may be      *)
(* paused, cleared and reconnected.                                           *)
(*                                                                         *)
(* The container's lines are numbered; a line is its number.  A chunk is the        *)
(* range of lines it carries.  AgentSystem has the same streams among the other     *)
(* traffic of several agents and without their contents.                       *)
(***************************************************************************)
EXTENDS Integers, Sequences, FiniteSetsExt

CONSTANTS
    Requests,     \* bound: log subscriptions, one per connection of the view
    MaxLine,      \* bound: lines the container writes
    MaxSocket,    \* bound: connections of the agent
    LogTail,      \* lines asked for from before the subscription
    Batch,        \* defaultBatchSize
    Keep,         \* MAX_ENTRIES
    None

ASSUME LogViewAssumption ==
    /\ MaxLine \in Nat /\ MaxSocket \in Nat /\ LogTail \in Nat \ {0}
    /\ Batch \in Nat \ {0} /\ Keep \in Nat \ {0}
    /\ None \notin Requests

VARIABLES
    written,   \* lines in the container's log
    stream,    \* stream[r]: the agent's stream: lines decoded, batched, emitted
    conn,      \* Client.conn: the agent's present socket, or 0
    strays,    \* history: requests with a batch on a later connection than their stream's
    up,        \* up[s]: messages from the agent not yet read by the server
    known,     \* known[s]: the socket at the server; "dialled" until register is sent
    route,     \* socketsByUuid[agent], or 0
    down,      \* what is on its way to the agent's present socket
    starting,  \* requests whose startLogStream looks the host up
    subs,      \* logSubscribers
    sse,       \* requests whose response is open on the server
    view       \* the browser's log view

agentVars == <<written, stream, conn, strays>>
wireVars == <<up, known, route, down>>
serverVars == <<starting, subs, sse>>
vars == <<agentVars, wireVars, serverVars, view>>

Sockets == 1..MaxSocket
NoStream == [state |-> "none", read |-> 0, taken |-> 0, sent |-> 0]

(* A goroutine runs its loop: its stream is open, has ended, is being closed by an    *)
(* unsubscribe ("closing"), or was closed with its session ("orphaned").             *)
Running == {"open", "ended", "failed", "closing", "orphaned"}
SocketStates == {"unused", "dialled", "open", "registered", "closed"}

(* view.cleared: the last line that Clear took off the screen, if any.               *)
NoView == [req |-> None, link |-> "off", status |-> "connecting", paused |-> FALSE,
           entries |-> <<>>, buffer |-> <<>>, cleared |-> 0]

LogViewTypeOK ==
    /\ written \in 0..MaxLine
    /\ stream \in [Requests ->
         [state : Running \cup {"none", "gone"},
          read : 0..MaxLine, taken : 0..MaxLine, sent : 0..MaxLine]]
    /\ \A r \in Requests : LET x == stream[r] IN
         /\ x.sent <= x.taken /\ x.taken <= x.read /\ x.read <= written
         /\ x.taken - x.sent < Batch /\ x.read - x.taken <= 2 * Batch
    /\ conn \in Sockets \cup {0} /\ route \in Sockets \cup {0}
    /\ known \in [Sockets -> SocketStates] /\ strays \subseteq Requests
    /\ starting \subseteq Requests /\ subs \subseteq Requests /\ sse \subseteq Requests
    /\ view.status \in {"connecting", "live", "paused", "error"}
    /\ Len(view.entries) <= Keep /\ Len(view.buffer) <= Keep
    /\ view.cleared \in Nat

LogViewInit ==
    /\ written = 0 /\ stream = [r \in Requests |-> NoStream] /\ conn = 0
    /\ strays = {}
    /\ up = [s \in Sockets |-> <<>>] /\ known = [s \in Sockets |-> "unused"]
    /\ route = 0 /\ down = <<>>
    /\ starting = {} /\ subs = {} /\ sse = {}
    /\ view = NoView

---------------------------------------------------------------------------
(* The agent: Stream.run and its decoder.                                     *)

Write == written < MaxLine /\ written' = written + 1
         /\ UNCHANGED <<stream, conn, strays, wireVars, serverVars, view>>

Chunk(r, from, to) == [req |-> r, from |-> from, to |-> to]
Register == Chunk(None, 0, 0)

(* flush: a batch leaves on the connection of the moment, which need not be the one    *)
(* its stream was asked for on, or is lost.                                      *)
Emit(r, x) ==
    \/ (conn = 0 \/ x.sent = x.taken) /\ UNCHANGED <<up, strays>>
    \/ /\ conn # 0 /\ x.sent # x.taken
       /\ up' = [up EXCEPT ![conn] = Append(@, Chunk(r, x.sent + 1, x.taken))]
       /\ strays' = IF x.state = "orphaned" THEN strays \cup {r} ELSE strays
Flushed(x) == [x EXCEPT !.sent = x.taken]

StreamSteps(r, x) ==
    /\ stream' = [stream EXCEPT ![r] = x]
    /\ UNCHANGED <<written, conn, known, route, down, serverVars, view>>

(* The decoder blocks while the channel to the batching loop is full.           *)
Decode(r) ==
    LET x == stream[r]
    IN  /\ x.state = "open" /\ x.read < written /\ x.read - x.taken < 2 * Batch
        /\ StreamSteps(r, [x EXCEPT !.read = @ + 1]) /\ UNCHANGED <<up, strays>>

(* Docker's stream ends when the container has stopped, or breaks.               *)
DockerEnds(r) ==
    LET x == stream[r]
    IN  /\ x.state = "open"
        /\ \/ x.read = written /\ StreamSteps(r, [x EXCEPT !.state = "ended"])
           \/ StreamSteps(r, [x EXCEPT !.state = "failed"])
        /\ UNCHANGED <<up, strays>>

(* Mutant: the batch is sent and kept.                                       *)
TakeEntryKeeps(r) ==
    LET x == [stream[r] EXCEPT !.taken = @ + 1]
    IN  /\ stream[r].state \in Running /\ stream[r].taken < stream[r].read
        /\ IF x.taken - x.sent = Batch
           THEN Emit(r, x) /\ StreamSteps(r, [x EXCEPT !.sent = x.taken - 1])
           ELSE UNCHANGED <<up, strays>> /\ StreamSteps(r, x)

(* The loop takes an entry; a full batch goes at once.  A closing stream may go    *)
(* round the loop a few times more: select picks any case that is ready.          *)
TakeEntry(r) ==
    LET x == [stream[r] EXCEPT !.taken = @ + 1]
    IN  /\ stream[r].state \in Running /\ stream[r].taken < stream[r].read
        /\ IF x.taken - x.sent = Batch
           THEN Emit(r, x) /\ StreamSteps(r, Flushed(x))
           ELSE UNCHANGED <<up, strays>> /\ StreamSteps(r, x)

(* Mutant: only full batches are sent.                                        *)
TickIdle(r) ==
    LET x == stream[r]
    IN  /\ x.state \in Running /\ x.taken - x.sent >= Batch
        /\ Emit(r, x) /\ StreamSteps(r, Flushed(x))

(* The ticker.                                                              *)
Tick(r) ==
    LET x == stream[r]
    IN  /\ x.state \in Running /\ x.sent < x.taken
        /\ Emit(r, x) /\ StreamSteps(r, Flushed(x))

(* The loop ends: after the last entry, or with entries still in the channel.      *)
RunReturns(r) ==
    LET x == stream[r]
    IN  /\ \/ x.state = "ended" /\ x.taken = x.read
           \/ x.state \in {"failed", "closing", "orphaned"}
        /\ Emit(r, x) /\ StreamSteps(r, [Flushed(x) EXCEPT !.state = "gone"])

(* close() by an unsubscribe, which finds the streams of the session only.          *)
Closing(x) ==
    IF x.state \in Running \ {"orphaned"} THEN [x EXCEPT !.state = "closing"] ELSE x

(* A stream begins with the last lines the container has written.                *)
Opened ==
    LET at == IF written > LogTail THEN written - LogTail ELSE 0
    IN  [state |-> "open", read |-> at, taken |-> at, sent |-> at]

(* logs.subscribe, which comes once for a request: Docker opens the log, or nobody  *)
(* is told.  logs.unsubscribe: the stream of that request, if any, is closed.       *)
HandleLogs ==
    /\ conn # 0 /\ down # <<>> /\ down' = Tail(down)
    /\ LET r == Head(down).req
       IN  \/ /\ Head(down).type = "subscribe" /\ stream[r].state = "none"
              /\ \/ stream' = [stream EXCEPT ![r] = Opened]
                 \/ stream' = [stream EXCEPT ![r].state = "gone"]
           \/ /\ Head(down).type = "unsubscribe"
              /\ stream' = [stream EXCEPT ![r] = Closing(@)]
    /\ UNCHANGED <<written, conn, strays, up, known, route, serverVars, view>>

---------------------------------------------------------------------------
(* The agent's connections.                                                  *)

(* The connection becomes the one that batches leave on before it is registered, and  *)
(* whether or not the goroutines of the last session's streams have returned: the      *)
(* wait before it is a random part of the limit, and nothing joins them.             *)
Connect ==
    /\ conn = 0
    /\ \E s \in Sockets :
         /\ known[s] = "unused" /\ \A x \in Sockets : known[x] = "unused" => s <= x
         /\ conn' = s
         /\ known' = [known EXCEPT ![s] = "dialled"]
         /\ up' = [up EXCEPT ![s] = <<>>]
    /\ UNCHANGED <<written, stream, strays, route, down, serverVars, view>>

SendRegister ==
    /\ conn # 0 /\ known[conn] = "dialled"
    /\ known' = [known EXCEPT ![conn] = "open"]
    /\ up' = [up EXCEPT ![conn] = Append(@, Register)]
    /\ UNCHANGED <<agentVars, route, down, serverVars, view>>

Orphaned(x) == IF x.state \in Running THEN [x EXCEPT !.state = "orphaned"] ELSE x

(* session() returns: UnsubscribeAll, then the connection is forgotten.  What was   *)
(* written last may not arrive.                                               *)
SessionEnds ==
    /\ conn # 0 /\ conn' = 0
    /\ stream' = [r \in Requests |-> Orphaned(stream[r])]
    /\ \E n \in 0..Len(up[conn]) : up' = [up EXCEPT ![conn] = SubSeq(@, 1, n)]
    /\ down' = <<>>
    /\ UNCHANGED <<written, strays, known, route, serverVars, view>>

(* handleDisconnect, of a socket that had registered: the route is cleared and the  *)
(* log subscribers of the agent are dropped.  Their responses stay open.            *)
SocketClosed(s) ==
    /\ known[s] \in {"dialled", "open", "registered"} /\ s # conn /\ up[s] = <<>>
    /\ known' = [known EXCEPT ![s] = "closed"]
    /\ IF known[s] = "registered" THEN route' = 0 /\ subs' = {}
       ELSE UNCHANGED <<route, subs>>
    /\ UNCHANGED <<agentVars, up, down, starting, sse, view>>

---------------------------------------------------------------------------
(* The browser: useContainerLogs.                                            *)

Newest(k, s) == SubSeq(s, Max({1, Len(s) - k + 1}), Len(s))
Lines(from, to) == [i \in 1..(to - from + 1) |-> from + i - 1]

(* Mutant: the pause buffer grows without end.                                *)
PushUnbounded(lines) ==
    IF view.paused
    THEN [view EXCEPT !.buffer = @ \o lines]
    ELSE [view EXCEPT !.entries = Newest(Keep, @ \o lines), !.status = "live"]

(* pushEntries.                                                             *)
Push(lines) ==
    IF view.paused
    THEN [view EXCEPT !.buffer = Newest(Keep, @ \o lines)]
    ELSE [view EXCEPT !.entries = Newest(Keep, @ \o lines), !.status = "live"]

Shows(next) == view' = next /\ UNCHANGED <<agentVars, wireVars, serverVars>>
Failed == [view EXCEPT !.link = "done", !.status = "error"]

(* The view opens, or Reconnect is pressed; a pause outlasts that.              *)
Subscribe(r) ==
    /\ r \notin starting \cup sse \cup subs \cup {view.req} /\ stream[r].state = "none"
    /\ \A i \in DOMAIN down : down[i].req # r
    /\ Shows([NoView EXCEPT !.req = r, !.link = "asking", !.paused = view.paused])

(* The click's render and the effect that sets pausedRef run before anything else. *)
TogglePause ==
    /\ view.req # None
    /\ Shows(IF view.paused
             THEN [view EXCEPT !.paused = FALSE, !.status = "live", !.buffer = <<>>,
                               !.entries = Newest(Keep, @ \o view.buffer)]
             ELSE [view EXCEPT !.paused = TRUE, !.status = "paused"])

Clear ==
    LET s == view.entries \o view.buffer
    IN  /\ s # <<>>
        /\ Shows([view EXCEPT !.entries = <<>>, !.buffer = <<>>, !.cleared = s[Len(s)]])

(* The view is left; the request is aborted.                                   *)
Leave == view.req # None /\ Shows(NoView)

(* The response ends, or the network drops it.                                 *)
ResponseEnds == view.link \in {"asking", "open"} /\ Shows(Failed)

---------------------------------------------------------------------------
(* The server.                                                              *)

(* GET /containers/:id/logs: the response opens and startLogStream begins.         *)
StreamLogs ==
    /\ view.link = "asking"
    /\ view' = [view EXCEPT !.link = "open",
                            !.status = IF view.paused THEN "paused" ELSE "live"]
    /\ starting' = starting \cup {view.req} /\ sse' = sse \cup {view.req}
    /\ UNCHANGED <<agentVars, wireVars, subs>>

Tell(type, r) == [type |-> type, req |-> r]

(* Viewed(r): the browser still reads the response of r.                          *)
Viewed(r) == view.req = r /\ view.link = "open"

(* The request goes out on the agent's route; with none the response ends.          *)
StartLogStream(r) ==
    /\ r \in starting /\ starting' = starting \ {r}
    /\ \/ /\ route # 0
          /\ subs' = subs \cup {r} /\ UNCHANGED <<sse, view>>
          /\ down' = IF route = conn THEN Append(down, Tell("subscribe", r)) ELSE down
       \/ /\ route = 0 /\ sse' = sse \ {r} /\ UNCHANGED <<subs, down>>
          /\ view' = IF Viewed(r) THEN Failed ELSE view
    /\ UNCHANGED <<agentVars, up, known, route>>

(* The teardown of a response nobody reads: unsubscribe, if the id is known.         *)
Teardown(r) ==
    /\ r \in sse /\ ~Viewed(r) /\ sse' = sse \ {r}
    /\ IF r \in subs
       THEN /\ subs' = subs \ {r}
            /\ down' = IF route # 0 /\ route = conn
                       THEN Append(down, Tell("unsubscribe", r)) ELSE down
       ELSE UNCHANGED <<subs, down>>
    /\ UNCHANGED <<agentVars, up, known, route, starting, view>>

(* The next message of socket s: a registration, or a chunk for a view.            *)
Receive(s) ==
    /\ up[s] # <<>> /\ up' = [up EXCEPT ![s] = Tail(@)]
    /\ LET m == Head(up[s])
       IN  IF m = Register
           THEN /\ route' = s /\ known' = [known EXCEPT ![s] = "registered"]
                /\ UNCHANGED view
           ELSE /\ view' = IF m.req \in subs \cap sse /\ Viewed(m.req)
                           THEN Push(Lines(m.from, m.to)) ELSE view
                /\ UNCHANGED <<route, known>>
    /\ UNCHANGED <<agentVars, down, serverVars>>

---------------------------------------------------------------------------
StreamStep(r) == Decode(r) \/ DockerEnds(r) \/ TakeEntry(r) \/ Tick(r) \/ RunReturns(r)

LogViewNext ==
    \/ Write \/ HandleLogs \/ Connect \/ SendRegister \/ SessionEnds
    \/ TogglePause \/ Clear \/ Leave \/ ResponseEnds \/ StreamLogs
    \/ \E r \in Requests :
         StreamStep(r) \/ Subscribe(r) \/ StartLogStream(r) \/ Teardown(r)
    \/ \E s \in Sockets : SocketClosed(s) \/ Receive(s)

LogViewSpec == LogViewInit /\ [][LogViewNext]_vars

(* Every goroutine and every handler runs; containers, people and networks do as    *)
(* they like.                                                               *)
LogViewFairSpec ==
    /\ LogViewSpec
    /\ WF_vars(SendRegister) /\ WF_vars(HandleLogs) /\ WF_vars(StreamLogs)
    /\ \A r \in Requests :
         WF_vars(Decode(r)) /\ WF_vars(TakeEntry(r)) /\ WF_vars(Tick(r))
           /\ WF_vars(RunReturns(r)) /\ WF_vars(StartLogStream(r)) /\ WF_vars(Teardown(r))
    /\ \A s \in Sockets : WF_vars(Receive(s)) /\ WF_vars(SocketClosed(s))

---------------------------------------------------------------------------
(* Properties.                                                              *)

Consecutive(s) == \A i \in 1..(Len(s) - 1) : s[i + 1] = s[i] + 1

(* What is on screen is a piece of the container's log: its lines in order, none     *)
(* twice and none left out, across batches, pauses and overflowing buffers; and while  *)
(* the pause buffer has not overflowed, so is the screen with the buffer behind it      *)
(* (useContainerLogs: "buffers entries so nothing is lost while the user reads").      *)
WholePiece ==
    /\ Consecutive(view.entries) /\ Consecutive(view.buffer)
    /\ Len(view.buffer) < Keep => Consecutive(view.entries \o view.buffer)

(* So it is through every reconnection of the view and of the agent, except when a      *)
(* goroutine that outlived its session has sent a batch on the agent's next connection. *)
ViewContiguous == view.req \notin strays => WholePiece

(* Even then no line is shown twice: a stream sends each line once, a view takes the     *)
(* lines of one request, and no chunk is read twice.                               *)
NoLineTwice ==
    LET s == view.entries \o view.buffer
    IN  \A i, j \in 1..Len(s) : s[i] = s[j] => i = j

(* A view that stays with a stream that stays open shows, or holds back while         *)
(* paused, everything the container wrote, to the last line: the view is empty only     *)
(* when that line has been cleared, or when none was ever written.                   *)
ViewFollows ==
    \A r \in Requests :
        <>[](Viewed(r) /\ stream[r].state = "open" /\ r \in subs)
            => <>[](LET s == view.entries \o view.buffer
                    IN  (IF s = <<>> THEN view.cleared ELSE s[Len(s)]) = written)
===========================================================================
