# DockSight in TLA+

Specifications, model-checking instances and machine-checked proofs for DockSight:
the platform server (`src/apps/server`, NestJS over PostgreSQL), the agent that runs
on every managed host (`src/apps/agent`, Go), the web client (`src/apps/web`), the
installer CLI (`src/apps/cli`, Go) and the protocol they share
(`src/packages/protocol`).

Contents: [the system](#1-the-system) · [modules](#2-the-modules) ·
[runs](#3-the-runs) · [fairness](#4-fairness) · [proofs](#5-the-proofs) ·
[behaviours found](#6-behaviours-of-the-code-the-runs-exhibit) ·
[what is not modelled](#7-what-is-not-modelled) · [plan](#8-plan)

## 1. The system

### 1.1 Components

| Component | State it keeps | Operations | Talks to |
|---|---|---|---|
| **Agent gateway** `agents/agents.gateway.ts` | per socket `agentUuid`, `agentId`; maps `socketsByUuid`, `pendingCommands`, `pendingInspects`, `logSubscribers`; one timer per pending call | connect, disconnect, one handler per message type, send a command, inspect, start and stop a log stream, time a call out | agents (WebSocket), agent records, host caches, container API (promises and callbacks) |
| **Agent records** `agents/agents.service.ts`, `prisma/schema.prisma` | table `Agent`: id, unique uuid, status, lastSeen | register (upsert), heartbeat (find, update), markOffline, find, rename, delete | PostgreSQL |
| **Host caches** `container-inventory.service.ts`, `host-metrics.service.ts` | last container list and last CPU/memory sample per host, with an index from the uuid | remember a host, set, read | gateway (writes), host API (reads) |
| **Host API** `hosts/hosts.service.ts` | none | list, read, rename, delete (after seven quiet days) | records, caches, web client (HTTP) |
| **Container API** `containers.controller.ts`, `containers.service.ts` | one SSE subscription per open log view | start/stop/restart/kill/remove/pause, inspect, stream logs | records, gateway, web client (HTTP, SSE) |
| **Accounts** `setup/`, `auth/`, `users/` | table `User`; JWTs | first-admin set-up, login, user management | web client |
| **Agent client** `communication/client.go`, `backoff.go` | current connection, backoff, channels between the goroutines of a session | dial, register, await the acknowledgement, serve (heartbeats, metrics, events, messages), reconnect | gateway, Docker, log service |
| **Agent log service** `logs/service.go`, `stream.go`, `decode.go` | one stream and one Docker log reader per subscription; a batch per stream | subscribe, unsubscribe, batch and emit, close all | client, Docker |
| **Agent shell** `app/`, `identity/`, `config/`, `lifecycle/`, `service/`, `logger/` | configuration and identity files, log file and its rotations, Windows service state | boot, shut down, rotate | operating system, CLI (through the files and the service) |
| **CLI** `cmd/internal/…` | files, containers, recorded version, generated environment | install, update, uninstall, self-install, agent install | GitHub releases, Docker Compose, systemd / SCM |
| **Web session** `stores/auth.ts`, `services/tokenStorage.ts`, `services/api.ts` | per tab: screen, user, cached token; the token in local storage, shared by the tabs | boot, set up, sign in and out, drop a refused token | accounts (HTTP), the other tabs (storage) |
| **Web log view** `hooks/useContainerLogs.ts`, `LogsViewer.tsx` | lines on screen, pause buffer, both capped at 5000 | open, pause, clear, reconnect, leave | container API (SSE) |
| **Web containers page** `HostDetailsPage.tsx`, `ContainerTable.tsx`, `ConfirmProvider.tsx`, `useContainerCommands.ts` | polled list, filter, page, menus, drawer, one busy mark, one confirmation | poll, filter, inspect, give a command, confirm | container API, host API (HTTP) |
| **Web host pages** `HostsPage.tsx`, `MetricsPage.tsx`, `useHostMetrics.ts`, `useRenameHost.ts` | polled list, metrics and their history, rename dialogs | poll, choose a host, rename | host API (HTTP) |
| **Protocol package** `packages/protocol` | none | message types, envelopes | everyone |

### 1.2 How they interact

An agent dials the server and keeps one WebSocket. It registers; the server upserts
its record, answers `agent.registered` and asks for a container list. From then on the
agent beats every 30 s, reports CPU and memory, pushes its container list when Docker
reports a change, and carries out what the server asks. When the socket breaks it dials
again, with a backoff, and starts over: nothing of a session is resumed.

A user's command goes HTTP → `ContainersService` (looks the host's record up) →
gateway (finds the agent's socket, stores a pending entry and a timer, sends) → agent
(Docker) → gateway (resolves the entry) → HTTP. A log view is an SSE response whose
callback is stored in the gateway under a request id the agent tags its chunks with.

### 1.3 What is hard

* **Interleaving at awaits.** Node runs one callback at a time, but
  `handleMessage` is started with `void`: the handlers of one socket, of several sockets
  and of HTTP calls interleave at every database access, and the accesses of two
  handlers commit in any order. A socket can close, and the agent be back on
  another one, between the two halves of a handler.
* **Two views of a connection.** The agent can be registered on a new socket long before
  the server sees the old one close; both carry the same uuid.
* **Late and lost answers.** A timeout races an answer; a send on a closing socket
  writes nothing and says nothing; a disconnect or a restart takes every call with it.
* **Crash and restart.** The maps are lost, the records are not.
* **Failure of one step.** A database error in a handler nobody awaits ends the process.
* **Answers that are old when they arrive.** The pages poll while commands change what is
  polled; requests overtake each other, are dropped for newer ones, fail, or answer for a
  host or a session the user has left.
* **State shared by surfaces.** One busy mark, one confirmation dialog, one cached token and
  one local storage serve several buttons, menus and tabs.
* **Progress.** Every call must end; an agent that stays in session must end up
  reachable whatever was dropped before; an agent that has gone must end up offline.

`PROJECT.json` lists these hazards line by line with the properties that watch them.

### 1.4 What makes each component correct

* Gateway: a call reaches the addressed agent only, at most once; its answer is that
  agent's; a refusal is final; every call ends; a disconnect releases exactly the calls
  it affects; routes follow the live socket.
* Records: one record per uuid with a stable id; status agrees in the end with the
  connection; a record in use is not deleted.
* Caches: what is shown for a host came from that host's agent (not: how long ago).
* Log views: what the agent reads is wanted by an open view, and the reverse.
* Agent client: nothing sent before the acknowledgement is relied on; a session leaves
  nothing behind; slow work does not silence the heartbeat.
* Agent shell, CLI: a crash at any step leaves a state the next run can repair; a run that
  reports success has; a host keeps one identity.
* Accounts and sessions: one first administrator; a tab acts for the account it shows; a
  refused token ends its session.
* Log view on screen: what is displayed is a piece of the container's log, in order, and
  follows it.
* Containers page: a deletion is confirmed for what it deletes; a row is busy only while a
  command is under way; the list a command is reported with is no older than its answer.
* Host pages: a chart is of the host on screen; a saved name stays; a dialog never stays
  locked.

## 2. The modules

```
   Wire ──┬── HostCaches ── AgentGateway ──┐
          │                                ├── AgentSystem ──┬── MCAgentSystem   (TLC)
          └── AgentClient ─────────────────┘     │           └── AgentSystemProofs (TLAPS)
                      INSTANCE CommandContract ──┘                 └── DeliveryProofs (TLAPS)

   PlatformInstaller ──┬── MCPlatformInstaller   (TLC)
                       └── PlatformInstallerProofs   (TLAPS)

   AgentHost ──────────┬── MCAgentHost        (TLC)
                       └── AgentHostProofs    (TLAPS)
   WebSession ─────────┬── MCWebSession       (TLC)
                       └── WebSessionProofs   (TLAPS)
   ContainerPanel ─────┬── MCContainerPanel      (TLC)
                       └── ContainerPanelProofs  (TLAPS)
   LogView ────────────┬── MCLogView          (TLC)
                       └── LogViewProofs      (TLAPS)
   HostPages ──────────┬── MCHostPages        (TLC)
                       └── HostPagesProofs    (TLAPS)
```

`AgentSystem` composes the server with its agents and has every kind of message in it; the
last five specifications each take one end of that system further than it goes, and stand for the
rest of it by what its own properties establish: `LogView` has the contents of a log
stream, `ContainerPanel` and `HostPages` see the server as something that answers a
request some time after it was sent or fails to, `WebSession` sees it as something that
signs and refuses tokens, and `AgentHost` sees the platform as something an agent connects
to or not.

| Module | Models | Correspondence |
|---|---|---|
| `Wire` | the WebSockets and the messages | `owner[s]` who dialled socket `s`; `clientEnd`, `serverEnd` the two ends, which learn of a close at different times; `up`, `down` the two FIFOs. `Send` is `AgentsGateway.send` (writes nothing unless OPEN), `Write` is `Client.write` |
| `HostCaches` | `ContainerInventoryService`, `HostMetricsService` | one operator per method; a list is the version of the container set it shows |
| `AgentGateway` | `AgentsGateway`, `AgentsService`, `deleteHost`, the callers of the gateway | below |
| `AgentClient` | `communication.Client`, `logs.Service`, Docker as the client sees it | one action per iteration of `serve`'s select, per message handler, per way a session ends |
| `AgentSystem` | the composition, its fairness, its properties | a step is a step of the server or of one agent; they share only the sockets |
| `CommandContract` | what a user is promised of a command or an inspect | abstract: `outcome` (what the user knows) and `done` (what happened); `AgentSystem!KeepsContract` is the refinement |
| `MCAgentSystem` | TLC instances | model values, symmetry of agents, sockets and record ids; `OneAwaySpec`, which begins with two registered hosts, one of them away |
| `AgentSystemProofs` | types, routes and waiting calls, what comes first on a connection, whose the caches are, proved | section 5 |
| `DeliveryProofs` | who carries a call out and whose answer it gets; the refinement of `CommandContract`; the agents' log readers, proved | section 5 |
| `PlatformInstaller` | `docksight install` and `docksight update`: `installer.go`, `update.go`, `selfinstall.go`, `env/generate.go`, `filesystem/copy.go`, `compose.go`, `state.go` | below |
| `MCPlatformInstaller` | TLC instances | symmetry of processes and releases |
| `PlatformInstallerProofs` | its four properties, proved | section 5 |
| `AgentHost` | a monitored host: the agent's process and its files, systemd or the Windows SCM, and `docksight agent install`, `update`, `config --set-url`, `start`, `stop`, `restart` | below |
| `WebSession` | first-admin set-up, sign-in and tokens on the server; the tabs of one browser with `stores/auth.ts`, `tokenStorage.ts`, `api.ts` | below |
| `LogView` | `logs/stream.go`, `service.go`, `decode.go`, the gateway's log subscriptions, the SSE response and `useContainerLogs` | below |
| `ContainerPanel` | the containers page of a host: the list's query, `ContainerTable`, `ContainerInspectDrawer`, `useContainerCommands`, `ConfirmProvider` | below |
| `HostPages` | the host list's and the metrics' queries, `HostsPage`, `MetricsPage`, `HostCard`, `RenameHostDialog`, `useHostMetrics`, `useRenameHost` | below |
| `MCAgentHost`, `MCLogView`, `MCWebSession`, `MCContainerPanel`, `MCHostPages` | TLC instances | symmetry of processes, releases, platforms and identities in the first; none in runs with liveness |
| `AgentHostProofs`, `WebSessionProofs`, `LogViewProofs`, `ContainerPanelProofs`, `HostPagesProofs` | the types and every safety and action property of the runs of these modules, proved | section 5 |

**Messages.** The six lifecycle messages share one handler at each end and differ only in
the Docker call they make: they are the one type `container.command`. Payloads are
abstracted to what the properties tell apart: the request a message is about, whether
its outcome is a success, and the version of a container list.

**Handlers split at awaits.** An action of `AgentGateway` is the code between two awaits:

| Code | Actions | State between them |
|---|---|---|
| `handleRegister` | `ReceiveRegister` → `RegisterUpsert` → `RegisterResume` | `regTask[s]` = upsert, resume; `regId[s]` |
| `handleHeartbeat` | `ReceiveHeartbeat` → `HeartbeatFind` → `HeartbeatUpdate` | `hbTask[s]` = find, update |
| `handleDisconnect` | `SocketClosed` → `MarkOffline` | `offTask[s]` |
| `runLifecycleAction`, `inspectContainer`, `streamLogs` | `BeginCall` → `LookupHost` → `SendContainerCommand` / `InspectContainer` / `StartLogStream` | `call[r].state` = lookup, found |
| `deleteHost` | `DeleteHostCheck` → `DeleteHostCommit` | `deleting[a]` |

The other handlers run to their end in one action. `pending` merges `pendingCommands` and
`pendingInspects` (a request is in one of them). A rejected database access in
`handleRegister` or `handleHeartbeat` is an unhandled rejection and is
`ServerLost`; in `markOffline` it is swallowed; in a lookup it fails the call. A server
that starts (`ServerStart`) resets nothing in the database, as `main.ts` does not.

**The installer.** A run is a process of the CLI; several may be active, for nothing
keeps them apart. An action of `PlatformInstaller` is what a run does between two effects
that another run, a kill (`Stop`) or a power loss (`Reboot`) could come between, and
`run[r].pc` is where it is:

| Code | Actions |
|---|---|
| `selfinstall.Install`, `replace` | `Swap`, or `SwapRefused` → `MoveAside` → `SwapAgain` (the staged copy is private until then); `FetchCli` before it in an update, `EnsureOnPath` after it in an install |
| `InstallPlatform` | `LatestRelease` (install) → `Fetch` → per file of the bundle `CreateFile` (`os.Create` truncates) → `WriteFile` or `WriteFileFails` |
| `ensureRuntimeFiles`, `env.Generate` | `GenerateEnv` (`O_EXCL`) → `RenderEnv` (flush) or `RenderEnvFails` (remove) → `ProtectSecret` |
| `openFirewall`, `StartStack` | `OpenFirewall` (install), `ComposeDown` (update) → `ComposeUp` → `WaitReady` |
| `record` | `LoadState` → `SaveState` (rename) |

The host is `file` (the three bundle files that matter, in the order
`filepath.Walk` copies them; a file is of a release, absent, or *torn*: truncated and not
written), `env` (absent, empty or whole), `volume` (the password PostgreSQL made its volume
with), `stack` (the release whose definitions the containers run, the one whose `default.conf`
nginx read, the password in the server's URL), `cli` and `aside` (the binary and `<path>.old`), `host` and
`recorded`. `Started` is what `docker compose up` does of it: it replaces containers whose
definition changed, and nginx's does not change from release to release. A step that
returns an error without an effect is a `Stop`.

The passwords are what the compose file makes of `.env`: a whole one gives both services the
generated password; without it the database gets the default of
`dockersight-installation.yml:16` (`DatabasePassword`) and the server, whose line 69 has no
default, a blank one (`ServerPassword`).

**The agent's host.** `windows` chooses the service manager at the start. `binary`, `config`,
`identity` and `unit` (definition, start at boot, recovery actions) are on disk and survive
everything; each of the files may be *torn*, for `os.WriteFile` truncates before it
writes. `agent` is the process, `run[r].pc` where a CLI process is:

| Code | Actions |
|---|---|
| `App.Run`, `LoadOrCreate`, `Client.Run` | `Boot` → `SaveIdentity` (created, then written) → `Connect`, `Disconnect` |
| the service manager | `Respawn`, `Stopped`; `Crash` and `Reboot` are the world's |
| `Installer.Install` | `Install` or `Update` (which reads the URL first) → `InstallBinary` (one rename, or aside and back on Windows) → `WriteConfig` (truncate, write) → `WriteUnit` (left alone when right) → `ApplyRecovery` (Windows) → `Enable` → `SystemdRestart`, or `ScmRestart` → `Await` → `ScmStart` |
| `verify` | `WaitActive` → `Settle` (five seconds later; `Restarts`, `Logs`, `Reads`) |
| `config --set-url`, `start`, `stop`, `restart` | `SetUrl` → `ReplaceUrl` (rename) → restart; `Service` → `PlainStart`, `PlainStop` or the restart |

`run[r].alone`, `announced` and `meddled` are history, and `saw` is the process id
`IsActive` notes on Windows.

**Sessions.** `tab[t]` is a tab's store (`status`, `user`), its cached token (`"unread"` until
`getToken` first reads local storage), its form and its boot; `stored` is local
storage. `BootStatus` → `BootMe` is `bootstrap`; `CreateAdmin` (check) → `CreateUser`
(insert, after the hash) is `createFirstAdmin`, whose requests in between are
`registering`; `SignIn` → `Login` the sign-in; `Ask` and `Answered` or `Rejected` a
poll with the token it was sent with; `Drops` is `clearToken` and its listener.

**The log view.** Lines are numbers and a chunk is a range of them, so that order, loss and
repetition can be seen. A stream's goroutine is `"closing"` after an unsubscribe and
`"orphaned"` after its session: nothing waits for it, and a batch it still sends goes to the
client's connection of the moment. `stream[r]` counts the lines decoded (`read`), taken off the channel
into the batch (`taken`) and sent (`sent`); `Decode`, `TakeEntry`, `Tick`, `RunReturns` are
the goroutine of the decoder and the cases of `Stream.run`'s select. `Connect`
(dialled, and from then on the client's connection) → `SendRegister`,
`SessionEnds`, `SocketClosed` are the agent's connections; `Subscribe` → `StreamLogs` →
`StartLogStream` a view's opening, `HandleLogs` what the agent makes of `logs.subscribe` and
`logs.unsubscribe`, and `Leave`, `ResponseEnds`, `Teardown`
its end; `Receive` routes a chunk and `Push`, `TogglePause`, `Clear` are the hook.

**The containers page.** `docker` counts its changes (`at`), the server's `inventory` and the
page's `list` are copies of it, and a request under way (`fetches`) is `Nothing` until the
server reads. `Poll`, `Refetch`, `ServerReads`, `ListArrives`, `ListFails` are the query;
`InspectArrives` is the drawer's, and `Settled` what ends with an answer of either. A command goes `ClickRow`, `PickFromMenu`,
`PickFromContextMenu` or `ClickDrawer` (each with the controls it offers and the row it
captured) → `Ask` → `Confirm` or `Cancel` for a deletion → `Execute` → `Answered` or
`Fails` (no answer), with `run[i].pc` and `busyKey`. A refusal by Docker is an answer: HTTP
success with `ok: false`, after which the hook refetches as it does after a success. What it
then `awaits` is the list and, with a drawer open, the drawer's inspect answer, for
`invalidateQueries` matches keys by prefix (`useContainerInspect.ts:8`); only then is the
command reported and the mark taken off.

**The host pages.** `agents` and `samples` are the server's, `view` is all the browser has and
shows. `Settle` is what React makes of a change before the next event: `MetricsPage` picks
a host that is in the list (`Selected`), `useHostMetrics` empties and extends its history
(`Reset`, `Charted`, `Add`), and a rename dialog lives as long as its card is drawn
(`Cards`). A rename goes `Rename` → `Submit` → `UpdateDisplayName` → `Saved` (`Merged`,
`Invalidate`) → `Close`, or `SaveFails`.

**History.** In `PlatformInstaller`, `overlapped` (two runs have been active at once) and
`run[r].alone` (this run has had the host to itself) are read by no guard; nor is `strays` in
`LogView` (requests of which a batch went out on a later connection than their stream's). In
`AgentSystem` three things are recorded for the properties and read by no guard that models
code: `call[r].sock` (the socket a call went out on), `effect[r]` (how often, by whom and
with what result a call was carried out) and `usedIds` (PostgreSQL never gives a `cuid`
twice).

## 3. The runs

All are run from this directory with `tlc -workers 2 -config <run>.cfg <module>.tla`.

| Run | Module | Instance | Properties | States, time |
|---|---|---|---|---|
| `calls` | `MCAgentSystem` | 1 agent, 2 sockets, 1 command, 2 record ids, 1 crash | `TypeOK` `AnswerIsTrue` `RefusedNeverRuns` `NoCallWaitsOnClosedSocket` `NothingDiscarded` `WaitingIsTimed` `KeepsContract` | 1.3 M, 2 min |
| `two_agents` | `MCAgentSystem` | 2 agents, one away; 3 sockets, 3 record ids, 1 command, 1 crash, metrics and lists | `RoutingSound` `CachesBelong` | 1.8 M, 105 s |
| `presence` | `MCAgentSystem` | 1 agent whose machine may vanish, 2 sockets, 1 crash, 1 database fault | `PresenceRepaired` | 195 k, 40 s |
| `calls_end` | `MCAgentSystem` | the same with 1 socket, 1 inspect, 1 log view, metrics and chunks | `NoAbandonedReader` `EveryCallEnds` | 362 k, 100 s |
| `gone_but_online` | `MCAgentSystem` | 1 agent, 1 socket | `GoneIsOffline` is violated | 1 s |
| `installs` | `MCPlatformInstaller` | 2 processes, 2 releases, 3 commands | `InstallerTypeOK` `CredentialsMatch` `EnvNeverRegenerated` `CompletedIsWhole` | 4.4 M, 2 min |
| `agent_host` | `MCAgentHost` | 2 processes, 2 releases, 2 platforms, 2 identities, 2 commands, 1 fault | `AgentHostTypeOK` `OneIdentity` `InstalledIsRunning` `ChangedUrlIsUsed` | 1.5 M, 80 s |
| `agent_returns` | `MCAgentHost` | 1 process, 1 release, 2 commands, 2 faults | `AgentReturns` | 325 k, 25 s |
| `sessions` | `MCWebSession` | 2 tabs, 2 accounts, 2 tokens, 1 lost request | `WebSessionTypeOK` `ShownUserActs` `ExpiredSessionEnds` | 481 k, 80 s |
| `log_view` | `MCLogView` | 1 subscription, 4 lines, 2 connections, batches of 2, a screen of 2 | `LogViewTypeOK` `ViewContiguous` `NoLineTwice` `ViewFollows` | 755 k, 80 s |
| `panel` | `MCContainerPanel` | 2 containers on 2 pages, 2 events | `PanelTypeOK` `PageInRange` `OneQuestion` `BusyIsWorking` `RemovalConfirmed` `FreshWhenDone` `TableCatchesUp` | 832 k, 2.5 min |
| `host_pages` | `MCHostPages` | 2 hosts, 3 samples, a history of 2, 1 rename, 1 event | `HostPagesTypeOK` `ChartIsOfHost` `SavedNameShown` `SaveSettles` | 604 k, 2 min |

What each question is:

* **`calls`** – whatever a reconnect, a crash or a deletion does between the steps of a
  command: an answer is the agent's and true; a 404/503 means nothing ran and nothing
  will; nobody waits on a dead socket or without a timer; nothing precedes
  `agent.registered`; and the calls implement
  `CommandContract` (at most once; refused is never; given up is unknown).
* **`two_agents`** – a call is carried out by the agent of the host it names and by no
  other, and a host's cache holds that host's containers and metrics, while one agent
  serves and the other comes back, hosts are deleted and registered under new ids, and the
  server crashes and starts with empty caches. It begins in `OneAwaySpec`'s state, which `Init`
  reaches in 28 steps, for a run from `Init` is too large to get to a third socket and record.
* **`presence`** – after any stale disconnect, crash or fault, an agent that stays in
  session ends up ONLINE and reachable on its *present* socket: its next
  heartbeat repairs both. This is the property the code relies on instead of checking
  which socket closed.
* **`calls_end`** – every call leaves the states in which its caller waits; and while a
  connection lives, a Docker log reader the agent holds is known to the server or about to
  be released. (The second fails once a view outlives the registration of its socket;
  this run has one connection, see section 6.)
* **`installs`** – whatever is killed, fails, loses power or runs at the same time: a
  complete `.env` is never written again; a database created with the generated password keeps
  the `.env` that has it and never meets a server without it; until two runs overlap, a `.env` that
  was written was written before the database was created, and so serves both; and a run that
  had the host to itself and completes has repaired whatever was left to it. (That no host is
  ever locked out is false: `NeverLockedOut`, section 6.)
* **`agent_host`** – the same question of the agent's host: what a run alone that reports
  success has repaired, on both service managers, is the build, the platform, the
  definition and the process itself; the platform never hears of a second identity; a
  changed URL is in use.
* **`agent_returns`** – nothing but unsound files, or being stopped, keeps an agent from
  being connected again.
* **`sessions`** – a tab sends the token of the account it shows, whatever the other tabs
  of the browser do to the storage they share; a session whose token is refused ends
  without anybody touching the page.
* **`log_view`** – no line is ever shown twice; the screen, and the pause buffer behind it, are
  pieces of the container's log without a gap, though the agent reconnects while goroutines
  of its last session still run, unless one of those sent a batch of this view on the new
  connection (then there may be one: `WholePiece`, section 6); and a view that stays with its
  stream comes to show the last line written, or has had it cleared.
* **`panel`** – no empty page while there are rows; a confirmation answers its own question
  and only that; no busy mark without its command; no command reported, done or refused, with
  a list the server gave before it was answered; and a table that catches up with Docker. (That
  the list shows the command's effect by then is false: `DoneIsVisible`, section 6.)
* **`host_pages`** – no chart of another host's samples; no saved name replaced by
  the older list of a poll under way; no dialog that stays locked.

### Bounds

| Bound | Where | Why it is enough |
|---|---|---|
| `Sockets` (1 to 3) | `Dial` uses each once | the races are between an old and a new connection of one agent, with the other agent's beside them in `two_agents` |
| `Commands`, `Inspects`, `Streams` (one in all, an inspect and a view in `calls_end`) | each request id is used once | calls share no state except the route; two of them interact only through the agent's disconnect, which treats all alike |
| `HostIds` (1 to 3) | a fresh one per new record | one more than hosts lets a host be deleted and come back under another id. Seven days pass (`SevenDaysPass`) only while an id is left, so that a registration is never blocked for want of one |
| `MaxCrashes`, `MaxDbFaults` (0 or 1) | `ServerCrash`, `DbFault` | each crash returns the memory to its initial state |
| `MaxVersion` | `ContainersChange` | versions are only compared |
| `Pushes` | heartbeats in `calls`, `presence`; metrics in `two_agents`; metrics and chunks in `calls_end` | the others change nothing the run's properties read |
| `OneAwaySpec`, `NobodyStops` | `two_agents`: the state it begins in; agents lose their sessions and none is stopped for good | everything before is in `calls` and `presence`; a stopped agent is one that does not come back |
| `InFlight` | one heartbeat, sample or chunk of a kind in a queue | their ticks are 30 s and 10 s apart, and a second one has the effect of the first |
| one `regTask`, `hbTask` per socket | guards of `ReceiveRegister`, `ReceiveHeartbeat` | an agent registers once per socket; a heartbeat still at the database 30 s later is left out |
| `Fragile` | agents whose machine may vanish without closing | in the liveness runs, where it matters |
| `Runs` (2), `MaxCommands` (3) | `Start` | two processes interleave; the third command is the one that finds what the first two left |
| `Releases` (2) | which of them is newer matters nowhere | a host is at one and goes to the other |
| `AgentHost`: `MaxCommands` (2), `MaxFaults` (1 or 2) | `Start`, `Crash`, `Reboot` | the first command leaves any wreck a kill can leave, the second has to repair it; the fault comes before, between or during |
| `AgentHost`: `Ids` (2) | identities `newUUID` returns | a second one is what `OneIdentity` is about |
| `WebSession`: `Tokens` (2), `MaxErrors` (1) | tokens ever signed, requests lost | an old and a new token; the sign-ins of two accounts |
| `LogView`: `MaxLine` (4), `Batch` (2), `Keep` (2), `LogTail` (1) | lines written; `defaultBatchSize`, `MAX_ENTRIES`, the tail | two batches, a screen and a buffer that overflow, a line from before the subscription |
| `LogView`: `Requests` (1), `MaxSocket` (2) | one per connection of the view or of the agent | the view outlives a connection of the agent. A view that reconnects is a new request, and entries are emptied first |
| `ContainerPanel`: `MaxEvents` (2), `Filters`, `Tried` | commands, outside changes and failed polls together; chips and actions the user uses | two commands, or a command with a change or a failure; the actions left out act like one that is in |
| `HostPages`: `MaxSaves`, `MaxEvents` (1), `MaxSamples` (3), `Keep` (2) | renames; outside changes and failures; samples; `HISTORY_LENGTH` | a rename with a change or a failure; a history that overflows. Two renames were explored further without liveness |

Deadlock is checked in `calls`, `two_agents`, `presence`, `calls_end`, `gone_but_online`,
`installs`, `sessions`, `panel` and `host_pages`, where the users and the timers can always do
something. `agent_host`, `agent_returns` and `log_view` may really come to rest: a stopped
agent whose operator does nothing more, a closed view of a container that writes
nothing.

## 4. Fairness

`FairSpec` is `Spec` with weak fairness of what the code or its runtime schedules:

* a message that arrived is handled (`Receive`), database accesses end
  (`Registration`, `HeartbeatTask`, `MarkOffline`, `LookupHost`), the continuation of a
  call runs (`Dispatch`), an armed timer fires (`CallTimeout`): Node's event loop;
* a close by one end is seen by the other (`ClientGone`, `ServerGone`) and emitted
  (`SocketClosed`): TCP — except for a socket whose machine vanished (`"lost"`),
  which nothing on the server detects, since there is neither a ping nor a
  keepalive;
* the agent dials again (`Client.Run` loops for ever), gives up an unacknowledged
  registration (15 s deadline), reads its socket and beats (`serve`'s select);
* the server is started again after it ended (`restart: unless-stopped` in the compose
  file).

Nothing makes users act, machines start or stop, networks break, or the server crash.
Sockets are finite in an instance, so an agent may run out of them: `PresenceRepaired`
speaks of agents that stay in session.

The other modules state theirs the same way:

* `AgentHostFairSpec`: the service manager restarts what it should (`Respawn`), a process
  that was started goes on (`Boot`, `SaveIdentity`), and `Client.Run` dials for ever
  (`Connect`). Nothing of the CLI or the operator.
* `WebSessionFairSpec`: a page that is shown polls (`Ask`; TanStack Query pauses it in a
  hidden tab and goes on when it is shown again) and its requests are answered;
  a boot's requests too. `BootMe` is strongly fair, for a reload starts it again: a user who
  reloads for ever before the answer comes is left out.
* `LogViewFairSpec`: goroutines, the SSE handlers and the message loop run. Nothing of
  containers, people and networks.
* `PanelFairSpec`, `HostPagesFairSpec`: the poll's timer fires, of a page that is shown, and the query's steps follow,
  the agent's report reaches the server (`Push`, panel), a rename's request is answered or
  fails. Nothing makes users act, and nothing keeps requests from failing but the bound.

## 5. The proofs

Checked by `tlapm` on eight modules; every leaf is proved by Z3, Zenon or (temporal steps)
LS4:

| Module | Obligations | Constants it is for |
|---|---|---|
| `AgentSystemProofs`, `DeliveryProofs` | 2311, 2090 | any number of agents, sockets, calls, record ids, crashes and faults, queues of any length |
| `PlatformInstallerProofs` | 1618 | of CLI processes, releases and commands |
| `AgentHostProofs` | 1878 | of CLI processes, releases, platforms, identities, commands and faults, on either service manager |
| `WebSessionProofs` | 406 | of tabs, accounts and tokens |
| `LogViewProofs` | 3096 | of views and connections; a log of any length; any size of batch, screen and tail |
| `ContainerPanelProofs` | 1710 | of containers, commands and outside events; any page size and set of filters |
| `HostPagesProofs` | 1807 | of hosts, samples, renames and events; any length of history |

Every safety and action property that a passing run checks is a theorem here but one,
`NoLineTwice`; what stays with TLC is listed at the end of this section.

Assumptions, each evaluated by TLC in every run: `WireAssumption` (request kinds are
disjoint, `None` is none of the others), `GatewayAssumption` and `ClientAssumption`
(bounds are naturals, `None` is not a record id); `InstallerAssumption` (a release is none
of the names that stand for no or broken content); `AgentHostAssumption` (the same of releases,
platforms and identities), `WebSessionAssumption` (of accounts and tokens),
`ContainerPanelAssumption` (sizes are positive, filters and actions are known ones, `None` is
neither a natural number nor a container), `LogViewAssumption` (sizes are positive, `None` is
no request) and `HostPagesAssumption` (sizes are positive, filters are known ones, `None` is no
natural number, hence no host).

**`TypeCorrect`: `Spec => []TypeOK`.** `TypeOK` is not inductive: an agent that handles
`logs.subscribe` adds the message's request to its log streams, and nothing in `TypeOK`
says that this request is a log view; `handleHostMetrics` indexes by the socket's
agent, and nothing says the socket has one. The inductive invariant `TypeInv` adds
`MessagesNamed` (a message is about a request of its own kind), `SocketsOwned` (a
socket the server has work for was dialled, and an agent's current socket is its own) and
`CallsAddressed` (a call that was begun names an agent and a record). The proof has one
step per action, over lemmas on queues, call records and caches.

**Routing.** `RouteInv` is `TypeInv` with three more parts: `Routes` (the map
`socketsByUuid` and the `agentUuid` of a socket agree, and both name the agent that
dialled it), `WaitingIsTimed`, and `CallsRouted` (the socket of a call that waits speaks for
the agent the call asked, and its close has not been handled). The last is what makes
`handleDisconnect` enough: it rejects by agent, the calls wait by socket, and only
because the two agree is none left behind.

* **`CallsAreTimed`: `Spec => []WaitingIsTimed`** – no call waits without a timer.
* **`DisconnectReleases`: `Spec => []NoCallWaitsOnClosedSocket`** – none waits on a
  socket whose close was handled.

**Delivery.** `DeliveryInv` is `RouteInv` with `CallsDelivered`, which follows a call on
its way: a request in a queue or at an agent was sent, on that socket, to that agent
(`RequestsOnTheirWay`, `AsksPending`); what was carried out had been asked
(`EffectsAsked`); an answer in a queue tells what its sender did (`AnswersOnTheirWay`); an
answer that arrived is true (`AnswerIsTrue`); a subscriber's request was sent
(`SubscribersSent`). It is preserved because a call that was sent stays sent and
keeps its agent and its socket (`CallsStable`), whatever else changes.

* **`CallsReachTheirAgent`: `Spec => []RoutingSound`** – a call is carried out by the agent
  it names, or by nobody.
* **`AnswersAreTrue`: `Spec => []AnswerIsTrue`** – what a user is told happened, happened.
* **`RefusedIsSafeToRepeat`: `Spec => []RefusedNeverRuns`** – a refusal is final.

**New connections.** `OpeningInv` is `RouteInv` with `NewSocketsBlank` (a socket nobody
dialled carries nothing) and, for every agent, `OpeningOf`: while it registers, either
nothing was sent to it and the server does not yet speak of its open socket as this agent's,
or the acknowledgement is first. Everything the server sends goes by `socketsByUuid`, so
`Routes` is what connects "does not speak of it" with "sends nothing on it".

* **`AcknowledgedFirst`: `Spec => []NothingDiscarded`** – `waitRegistered` throws nothing away.

**Caches.** `KeepingInv` adds three parts. `IdsBelong` collects everything in the
server that takes a record id for an agent's (`Refers`: the record, both indexes, both
caches, a socket's `regId` and `agentId`, a call) and says that whatever refers to an id
refers to it as the same agent's, and that the id was given out. `ListsKnown` and
`SnapshotsKnown` say that a list on its way, and one kept, is no newer than what Docker lists.
A step needs only to be shown to refer to nothing new (`RefersKept`), but for the upsert
that makes a record, whose id nothing refers to because it was never given out.

* **`CachesKeepToTheirHost`: `Spec => []CachesBelong`** – no host is shown another's
  containers or metrics.

**Refinement.** **`ImplementsContract`: `Spec => KeepsContract`**. `outcome` is read off
the call's record and `done` off its effect. Under `DeliveryInv` each step of the system
maps to `Begin`, `Refuse`, `Answer`, `Perform` or `GiveUp` of one call, or to
a stutter. Two steps need care: a disconnect gives up several calls at once (the
abstract `GiveUp` takes a set for this reason), and so does the end of the server process.

**Log readers.** **`ReadersAreKnown`: `Spec => []NoAbandonedReader`**. The property speaks of
readers the agent holds and is not inductive: nothing in it says what the messages still on
their way will do to them. `ReadersTracked` (on top of `OpeningInv` and `DeliveryInv`) says
that while an agent's first connection lives, a view the server has as this agent's subscriber
is reachable on the agent's socket, so that it can be stopped; and every other view is
`Released`: if the agent holds a reader for it an unsubscribe is on its way, and behind every
subscribe for it on its way there is one. `ConnectionsHeld` says that a client without a
connection holds no reader, and `SubscribersOwned` that only an agent that ever dialled has
subscribers. With a second connection the property is false (section 6), and the theorem,
as the property does, leaves that agent out.

**The installer.** `InstallerInv` strengthens the four properties of `installs`, all of which
are theorems:

* **`InstallerTypeCorrect`: `InstallerSpec => []InstallerTypeOK`**, with `Targeted`: a run
  that copies a bundle knows which release it is of.
* **`EnvIsWrittenOnce`: `InstallerSpec => EnvNeverRegenerated`**, from `OneWriter`: the run
  that renders the `.env` created it, and no other renders.
* **`CredentialsStay`: `InstallerSpec => []CredentialsMatch`**, from two parts.
  `CredentialsKept` holds whatever overlaps: who has the generated password had it from a whole
  `.env`, which is never written again, and the server has it when the database does.
  `WrittenFirst` holds until two runs overlap: a database has a `.env` before it, though perhaps
  an empty one, so a run that writes one finds no database. It needs `Progressing`: `ComposeUp`
  comes after `GenerateEnv` in the same run, so the `.env` it reads is there; and `OneWriter`.
* **`CompletedRunsAreWhole`: `InstallerSpec => CompletedIsWhole`**, from `Progressing`, which
  says per phase what a run alone has achieved so far (files copied, `.env` in place, host
  prepared, stack started), and from `Sole`: a run that is alone is the only one
  at work, so nobody undoes it.

**The agent's host.** `HostInv` is `AgentHostTypeOK` by parts (`DiskOK`, `AgentOK`,
`AllRunsOK`) with `IdentityKept` and `OthersOK`.

* **`HostTypeCorrect`: `AgentHostSpec => []AgentHostTypeOK`**.
* **`HostIsOne`: `AgentHostSpec => []OneIdentity`**. `OneIdentity` speaks of what was announced
  to the platform, and is not inductive: nothing in it says where the announced identity is
  kept, nor that the agent will look there. `IdentityKept` does. It calls *kept* the places
  the identity may be in (the standard one only, until an operator moves the file) and says
  that the configuration on disk, the running agent and a `set-url` between its read and its
  write name kept places only, and that an agent makes a new identity only while none was
  announced. The proof's hard case is a process killed between `SaveIdentity`'s two halves,
  which leaves a torn file: the agent then stops at every start, rather than make a
  second identity.

The other two speak only of the step with which a run ends, so what they need is what the run
has achieved before it. `AloneInv` says it for every run that has had the host to itself:
`Progress` is `Sole` (no other run is at work, so nobody undoes it) with, for an install or
update, `Laid`, which goes through the phases (the build is in place; the configuration and
its place are; the definition is; the service starts at boot; from the restart on a process that
runs is of that build, and what it has read is what was written; from the first look of
`verify` on the process it noted is still there, or that it is not will show), and for a
`set-url` `Rewritten`: the file has the new URL until the restart.

* **`InstallIsInUse`: `AgentHostSpec => InstalledIsRunning`** – what an install or update that
  reports success was asked for is on disk, and if an agent runs it is of that build and
  platform, and the process `verify` saw at its first look.
* **`NewUrlIsInUse`: `AgentHostSpec => ChangedUrlIsUsed`** – after a `config --set-url` that
  reports success the file has the new URL, the process has yet to read it, and the identity is
  where it was.

**Sessions.** `SessionInv` is `WebSessionTypeOK` with `SignedInTabs`.

* **`SessionTypes`: `WebSessionSpec => []WebSessionTypeOK`**.
* **`TabsActForTheirUser`: `WebSessionSpec => []ShownUserActs`**. That a tab sends the token of
  the account it shows is about its *next* request, and local storage belongs to all tabs.
  `SignedInTabs` says why storage does not matter to it: a tab that shows an account has
  finished its boot, hence has read its token, hence never looks at storage again; and that
  token was signed for this account.

**The containers page.** `CommandInv` carries what a command, the dialog and the busy mark know
of each other: `CommandsShaped` (what a command holds in each phase), `OneAsker` (the dialog is
open exactly while its resolver is held by a command that asks, and only deletions ask),
`ToggledIfOffered`, `OneQuestion` and `BusyIsWorking`.

* **`QuestionsAreOne`: `PanelSpec => []OneQuestion`** – a confirmation has one asker.
* **`BusyRowsWork`: `PanelSpec => []BusyIsWorking`** – a row that is busy has a command under
  way: sent, or answered, even with a refusal, and waiting for the list or the drawer's answer.
  It needs `CommandsShaped` (a command waits exactly while something is left in `awaits`), for
  one answer ends several commands, or takes one of two things from each, and the mark may be
  another command's by then (`ResumedRuns`).
* **`RemovalsAreConfirmed`: `PanelSpec => RemovalConfirmed`** – a deletion is executed only as
  the answer to its own question, and forced only if that question offered it, from `OneAsker`
  and `ToggledIfOffered`: without them an answer could go to the resolver of an earlier
  question, with that question's box.

`PanelInv` adds the lists and who waits for them: `DataOK` and `FetchesOK` (at most one request
for the list counts, and lists at Docker, at the server, on their way and on the page are
ordered by age), `RunsOK` (a command that waits for the list can only get one as new as
its own answer, and one that has its list and waits for the drawer left the page one as new, or an
error), `ShownOK`, and `Budget`, which bounds the number of Docker's changes: each had an
event, and a command whose outcome is open still has its own to spend.

* **`PanelTypes`: `PanelSpec => []PanelTypeOK`**.
* **`DoneIsFresh`: `PanelSpec => FreshWhenDone`** – when an answered command is reported, the list
  on the page is one the server gave after the answer, from `RunsOK`: every refetch drops what
  was under way, and whatever replaces it is newer still.
* **`PagesAreInRange`: `PanelSpec => []PageInRange`** – a table that has rows shows some. It
  needs `RankOnto`: the rows of a filter are numbered without gaps, so the last page that
  `PageCount` allows has a row.

**The log view.** `LogViewInv` follows a line from the container to the screen. `TypeInv` has the
contents of the queues and of the view. `ChunksInv` says of every request: without a connection
its stream is over or orphaned (`Parked`), and a chunk is of a stream that has begun (`Begun`);
and, unless a batch of it went astray, its chunks are on one socket, the present one while the
stream belongs to it, in order and without gaps, and end in the last line sent. `FreshInv`:
nothing precedes a request. `ReachInv`: while a view follows a stream of which nothing went
astray, the first chunk on its way goes on where the view ends, and with none on its way the
view ends where the stream does. `ScreenInv`: of such a view the entries are consecutive, and
the buffer goes on where they end, unless it has overflowed.

* **`LogViewTypes`: `LogViewSpec => []LogViewTypeOK`**, of every configuration.
* **`ScreenIsContiguous`: `LogViewSpec => []ViewContiguous`**, without a hypothesis: goroutines of
  a closed session go on through the reconnection, as nothing in the code stops them, and as long
  as none has sent a batch of the view's request on the new connection the screen is whole. The
  step that needs care is `Connect` while orphans are running: until one sends, the request's
  chunks are still all on the old socket (`OneSocket`); when one does, the request is a stray.

**The host pages.** `HostPagesInv` is `TypeInv` (the server, the requests, what the browser shows;
a dialog only on a card that is drawn), `ChartInv` (samples in the history are of the host of the
page and in the order they were taken, none is newer than the server's, and the history ends in
the figures shown) and `NameInv` (a locked dialog waits for a name of its own host; once the
server has answered it has the name or a newer one, and from the invalidation on so has every
list the page has or may get).

* **`HostPagesTypes`: `HostPagesSpec => []HostPagesTypeOK`**.
* **`ChartOfHost`: `HostPagesSpec => []ChartIsOfHost`** – whatever `Settle` makes of a change.
* **`RenameShows`: `HostPagesSpec => SavedNameShown`** – a dialog that closes on a saved name
  leaves it on the page, or a newer one.

**Only model-checked.** The liveness properties, since fairness and ENABLED are outside the
prover's reach: `PresenceRepaired`, `EveryCallEnds`, `AgentReturns`, `ExpiredSessionEnds`,
`ViewFollows`, `TableCatchesUp`, `SaveSettles`; and `NoLineTwice`, an invariant, which for
strays as well would need the chunks of a request to be tracked on several sockets.
`GoneIsOffline` is violated. No recursive
operator is declared anywhere.

## 6. Behaviours of the code the models exhibit

### Checked

**`gone_but_online`** (`agents.gateway.ts:119`) finds the shortest trace of the specification
that contradicts `docs/architecture.md:260`. A socket that closes during its registration
has no `agentUuid` yet: nothing is undone, and the handler then stores the dead socket and
leaves the record ONLINE. A heartbeat's update that commits after `markOffline` does the same;
so does a machine that vanishes, and, after a server restart, an agent that never comes back.

### Statements the code does not keep, no run checks them

Each is defined in its module under this name; a cfg that names it, with the instance given,
gives the trace.

| Statement | What happens | Instance |
|---|---|---|
| `DisconnectedMeansGone` (`AgentSystem`) | `handleDisconnect` (`agents.gateway.ts:120`) acts on the agent's uuid and not on the socket that closed. The late close of an old socket unroutes the new one, drops its log views, and rejects its calls with "Agent disconnected" although they are carried out; until the next heartbeat (30 s) the agent cannot be reached. `docs/architecture.md:282`: "reconnecting is harmless and repeatable" | `calls` |
| `DeletedWasOffline` (`AgentSystem`) | `deleteHost` (`hosts.service.ts:140`) checks, then deletes by id: a host that came back in between is deleted while ONLINE. `hosts.service.ts:119`: "Cannot be currently ONLINE" | `calls` |
| `NoSubscriberWithoutViewer` (`AgentSystem`) | a log view closed while its host is looked up has no `requestId` to stop (`containers.controller.ts:229`); the stream starts afterwards and nobody ends it. `docs/protocol.md:479` | `calls_end` |
| `SkippedIsInstalled` (`PlatformInstaller`) | an update overwrites the bundle in place and records the release at the end (`installer.go:307`). When it stops half way the record names the old release, so `docksight update --version <old>` answers "Platform already at" and leaves files of both. `--force`, or `install`, repairs it. `state.go:18` | `installs` with 1 process |
| `EnvWrittenAtomically` (`PlatformInstaller`) | `.env` is created in place and flushed at the end of `Generate` (`env/generate.go:48`). A kill in between leaves an empty one, which every later run keeps: the database is created with the compose file's default password, and the server, given an empty one, never becomes ready. `docs/roadmap.md:59`: "Atomic writes for binaries, `.env` and state files" | `installs` with 1 process |
| `NeverLockedOut` (`PlatformInstaller`) | one killed run is enough: `.env` was created and not written, the next run keeps it and starts the stack, the database is created with the default of `dockersight-installation.yml:16` and the server gets a blank password from line 69, for good. Two runs that overlap do it without a kill, or leave a `.env` completed behind the default database. `dockersight-installation.yml:68`: "Must match the postgres service credentials above" | `installs` with 1 process |
| `DoneIsVisible` (`ContainerPanel`) | the agent answers a command without reporting its list (`client.go:635`), which follows with Docker's event: the refetch of a command that worked may read the server's list from before it, and the command is reported, its mark taken off, over the old state of its row until the next poll. No document promises that it waits for the list, but the refetch (`useContainerAction.ts:36`) is there to show what the command did | `panel` |
| `WholePiece` (`LogView`) | a session ends with a chunk still unsent, the agent reconnects at once (`backoff.go:40` is a random part of the limit, from nothing up), and the goroutine of the old stream, which nothing joins, sends its last batch on the new connection (`client.go:191`): the view, if it is still subscribed, shows what follows the lost chunk right behind what preceded it | `log_view` |
| `InstallRestoresRecovery` (`AgentHost`) | a service whose definition is right is left alone before its recovery actions are looked at (`scm_windows.go:121`), so actions an operator cleared stay cleared; the comment at `scm_windows.go:134` says they "should get them back on the next install" | `agent_host` |
| `OneFirstAdmin` (`WebSession`) | `createFirstAdmin` checks, hashes and inserts (`setup.service.ts:38`): two at once with two addresses both succeed | `sessions` |
| `DropsOnlyRejected` (`WebSession`) | a 401 drops the token the tab has now, not the one that was refused (`api.ts:85`): the late answer to a poll of an old session signs a new one out | `sessions` |

### Other behaviours in the models

*Server and agent.*

* A record deleted between a heartbeat's find and its update rejects in a handler nobody
  awaits, and ends the server process (`HeartbeatUpdate`, second disjunct).
* `logs.Service` keeps the entry of a stream that ended by itself (`StreamEnds`) until it
  is unsubscribed.
* A stale disconnect removes the log subscribers of the agent's new connection without
  telling the agent, which keeps its reader open and whose chunks are then dropped; and
  every disconnect leaves the views open and silent (`SocketClosed` in `LogView`), as does
  a log the agent fails to open (`HandleLogs`).

*Platform installer.*

* `install` over a running platform does not take the stack down, so nginx keeps the
  configuration of the release before (`Started`; `CompletedIsWhole` says "after an
  update" for this reason), although `docs/cli.md:116` says that a second run "recreates the
  stack".
* An `update` neither adds the CLI to PATH nor opens the port: after an install that failed
  at the firewall it completes a platform nobody can reach.
* Of two runs at once, the second may find the first one's `.env` half written and start
  the database with it; the first then completes the file, and the services are locked out.
* A kill between the two renames of `replace` leaves no CLI at its path.

*The agent's host.*

* `inspectLogs` reads lines of earlier processes too (`Logs`): an install may report
  "connected" for them, or "not connected" for a failure that is over.
  `InstalledIsRunning` therefore says nothing of `connected`.
* `config.yaml` and `identity.json` are written in place: a kill leaves a torn file, and the
  agent stops at every start until the next install (configuration) or for good (identity).
* An install or update renders the whole of `config.yaml`: an identity file the operator
  moved is forgotten and a new identity made, which is why `OneIdentity` excludes it.
* `agent update` reads the URL before its download and writes it after: a `config --set-url`
  in between is undone. On Windows `config --set-url` writes the URL and then fails, for it
  restarts with `systemctl` (`agent_config.go:43`).
* On Windows a restart killed between stop and start leaves the service stopped; a kill
  between creating the service and its recovery actions leaves it without them for ever
  (`InstallRestoresRecovery` again); `agent stop` of a crashed service reports it stopped
  although its recovery action starts it again.

*Log view on screen.*

* Of a stream that fails, entries still in the channel are dropped (`RunReturns`).
* A goroutine that outlives its session may send its batch on a new connection before the agent has
  registered there (`Connect`, `SendRegister`); the server takes it, for chunks are routed by
  request id alone.
* Resuming sets the status to live also when the response has ended
  (`useContainerLogs.ts:158`).

*Containers page.*

* One busy mark: a second command takes it over and the end of either takes it off, so a row
  may be idle while its command is under way (the converse is `BusyIsWorking`).
* The menus do not look at the busy mark; Start is offered for a paused container, which
  Docker refuses; the context menu keeps, and acts on, the row it was opened on.
* A pointer going down on an item of the context menu closes the menu before the click
  (`ContainerTable.tsx:566`).
* A failed poll replaces the table, which forgets its filter and page (`ListFails`).
* A deletion from the drawer closes whatever drawer is open when it is done (`Settled`).
* With a drawer open every answered command, of whatever row, waits for the inspect request of
  that drawer, a round trip to the agent, before it is reported (`Answered`).

*Host pages.*

* A click beside the rename dialog bubbles through React's tree to the card and opens the
  host, also while a name is being saved (`ClickBeside`); a poll that fails, or takes the host
  off the filter, closes the dialog as well (`Settle`).
* The late answer of an abandoned dialog may put an older name in the list until the refetch
  that follows it (`Merged`); `SavedNameShown` leaves out a host this page sent two names for.

## 7. What is not modelled

* `requestContainerList` has no caller, so `pendingLists` is always empty.
* Inside one session of the agent's client: its goroutines, the capacities of its channels,
  the write mutex and the backoff. `AgentClient` takes what `serve` selects one event at a
  time, so a reader blocked on a full channel and a Docker call that delays a heartbeat
  do not occur in it.
* Wording, DTO validation, password hashing, roles: everyone in `WebSession` and the pages is
  an administrator.
* Docker's own behaviour, beyond success or failure of an operation and the event it
  emits; the operating system's counters (`metrics/collector.go`); the parser of container
  lists; the agent's log file and its rotation.
* Charts, layout, toasts, and the pages drawn from `lib/mock.ts`; health checks; the Redis
  client, which has no user.
* Wall-clock time: that a sample is stale, a poll's period, a token's life are choices.
* In `PlatformInstaller`: what is written is durable (the code calls no `fsync`); download,
  checksum and extraction are one step that succeeds or fails before anything is replaced; a
  stack is started as a whole or not at all; a run that reads a bundle file another run is
  copying sees it empty or complete; docker's making a directory of a missing `default.conf`;
  the time a Windows host with Docker Desktop waits for a sign-in after a reboot
  (`Reboot` brings the containers back at once);
  and the images: the compose file names them `:latest` and `up` pulls only what is missing,
  so "of a release" is said of definitions, not of images.
* In `AgentHost`: what is written is durable (`identity.go:71` calls no `fsync`);
  `agent uninstall` and `agent status`; Docker's ping at boot, which has no
  deadline; a settle window so short that the agent has not read its two files by then.
* In `ContainerPanel` and `HostPages`: a page shows one host's containers, or the host list and
  metrics; other pages' queries are theirs. TanStack Query is external: a refetch or
  invalidation drops the answer of a request under way, a poll joins it (its version 5).
  The samples inside the host list, and invalid names, which are refused before
  anything is sent, are left out; an agent's clock does not go back.

## 8. Plan

Done: the agent's connection with its contract (`AgentSystem`), the platform installer
(`PlatformInstaller`), the agent's host (`AgentHost`), the log view from end to end
(`LogView`), sessions and first-admin set-up (`WebSession`), and the pages with state
(`ContainerPanel`, `HostPages`). What would come next, in order:

1. **`AgentServeLoop`** – the goroutines of a session (`client.go` `serve`): reader, event
   watcher, serve loop, log streams; channel capacities, `writeMu`, shutdown, backoff.
   Theorem: one writer at a time.
2. **`ContainerDiscovery`** – caches on top of `AgentSystem`: an inventory converges to what
   Docker lists although old lists may arrive late and events may be missed.
3. **`RotatingLog`** – rotate and reopen.
4. **Theorems** of these, and of the agent's readers on a second connection: what of
   `NoAbandonedReader` is left when the old socket closes late.
