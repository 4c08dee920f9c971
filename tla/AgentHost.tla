----------------------------- MODULE AgentHost ------------------------------
(***************************************************************************)
(* A monitored host: the agent's process under its service manager (systemd or *)
(* the Windows Service Control Manager), what the agent keeps on disk, and the  *)
(* commands of the docksight CLI that change them: `agent install`, `update`,   *)
(* `config --set-url`, `start`, `stop` and `restart`.                         *)
(*                                                                         *)
(* An action is what a process does between two effects that another process,   *)
(* a kill or a power loss could come between.                                 *)
(***************************************************************************)
EXTENDS Naturals

CONSTANTS
    Runs,         \* processes of the CLI
    Releases,     \* published agent builds
    Urls,         \* platform endpoints, as NormalizeServerURL returns them
    Ids,          \* bound: identities newUUID can return
    MaxCommands,  \* bound: commands ever started
    MaxFaults     \* bound: crashes and reboots of the host or the agent

ASSUME AgentHostAssumption ==
    /\ (Releases \cup Urls \cup Ids) \cap {"none", "absent", "torn", "whole"} = {}
    /\ MaxCommands \in Nat /\ MaxFaults \in Nat

VARIABLES
    windows,    \* the service manager is the SCM
    binary,     \* the build at the agent's path
    config,     \* config.yaml
    identity,   \* identity[p]: the identity file at place p
    unit,       \* the service: its definition, start at boot, recovery actions
    agent,      \* the agent's process
    respawned,  \* systemd's NRestarts is not zero
    log,        \* outcomes in the tail of the log, of this process or before it
    run,        \* run[r]: where the CLI process is
    announced,  \* history: identities the platform has been told
    meddled,    \* history: what the operator has changed by hand
    commands, faults

diskVars == <<binary, config, identity>>
agentVars == <<agent, respawned, log, announced>>
bounds == <<commands, faults>>
vars == <<windows, diskVars, unit, agentVars, run, meddled, bounds>>

(* The path `agent install` writes in config.yaml, and another one.           *)
Places == {"standard", "own"}

Torn(state) == [state |-> state, url |-> "none", place |-> "standard"]
Config(url, place) == [state |-> "whole", url |-> url, place |-> place]

Down(st) == [st |-> st, build |-> "none", url |-> "none", place |-> "standard", id |-> "none"]

(* What the service manager calls active: Type=simple is active once forked,   *)
(* and the Windows handler reports Running before the agent reads anything.    *)
Active == agent.st \in {"forked", "creating", "ready", "online"}

Idle == [pc |-> "idle", cmd |-> "none", v |-> "none", url |-> "none", old |-> "none",
         saw |-> "none", connected |-> FALSE, alone |-> FALSE]

Busy(r) == run[r].pc \notin {"idle", "done"}
At(r, pc) == run[r].pc = pc

AgentHostTypeOK ==
    /\ windows \in BOOLEAN
    /\ binary \in Releases \cup {"none"}
    /\ config \in {Torn("absent"), Torn("torn")} \cup {Config(u, p) : u \in Urls, p \in Places}
    /\ identity \in [Places -> Ids \cup {"absent", "torn"}]
    /\ unit \in [text : {"absent", "torn", "whole"}, boot : BOOLEAN, recovery : BOOLEAN]
    /\ agent \in [st : {"stopped", "crashed", "stopping", "forked", "creating", "ready", "online"},
                  build : Releases \cup {"none"}, url : Urls \cup {"none"}, place : Places,
                  id : Ids \cup {"none"}]
    /\ respawned \in BOOLEAN
    /\ log \subseteq {"ok", "fail"} \X {"now", "before"}
    /\ run \in [Runs -> [pc : {"idle", "done", "binary", "swapped", "configure", "writing",
                               "unit", "defining", "recovery", "enable", "restart", "stopwait",
                               "start", "wait", "settle", "replace", "plainStart",
                               "plainStop", "waitStopped"},
                         cmd : {"none", "install", "update", "seturl", "service"},
                         v : Releases \cup {"none"}, url : Urls \cup {"none"},
                         old : Releases \cup Places \cup {"none"},
                         saw : {"none", "this", "gone"}, connected : BOOLEAN, alone : BOOLEAN]]
    /\ announced \subseteq Ids
    /\ meddled \subseteq {"identity", "recovery"}
    /\ commands \in 0..MaxCommands /\ faults \in 0..MaxFaults

AgentHostInit ==
    /\ windows \in BOOLEAN
    /\ binary = "none" /\ config = Torn("absent")
    /\ identity = [p \in Places |-> "absent"]
    /\ unit = [text |-> "absent", boot |-> FALSE, recovery |-> FALSE]
    /\ agent = Down("stopped") /\ respawned = FALSE /\ log = {}
    /\ run = [r \in Runs |-> Idle]
    /\ announced = {} /\ meddled = {} /\ commands = 0 /\ faults = 0

---------------------------------------------------------------------------
(* The service manager (external) and the agent's boot.                       *)

(* What a CLI process saw of the agent's process is about an earlier one now.   *)
Outdate(runs) == [r \in Runs |-> [runs[r] EXCEPT !.saw = IF @ = "this" THEN "gone" ELSE @]]

Startable == unit.text = "whole" /\ binary # "none"

(* A process of the agent is started, leaving `runs` to the CLI's processes.    *)
Fork(runs) ==
    /\ Startable
    /\ agent' = [Down("forked") EXCEPT !.build = binary]
    /\ log' = {<<l[1], "before">> : l \in log}
    /\ run' = Outdate(runs)
    /\ UNCHANGED announced

(* Restart=always is part of the unit; the SCM keeps its recovery actions apart. *)
Recovers == IF windows THEN unit.recovery ELSE unit.text = "whole"

(* The manager restarts what it did not stop.                                *)
Respawn ==
    /\ agent.st = "crashed" /\ Recovers
    /\ Fork(run) /\ respawned' = TRUE
    /\ UNCHANGED <<windows, diskVars, unit, meddled, bounds>>

Exits(st) ==
    /\ agent' = Down(st)
    /\ UNCHANGED <<respawned, log, announced>>

(* config.Load and identity.LoadOrCreate: a file that is cut short does not parse. *)
ConfigLoads == config.state = "whole"
LoadedIdentity == identity[config.place]

(* An error in either ends the process.  An identity file that does not exist is  *)
(* created first and written second.                                          *)
Boot ==
    /\ agent.st = "forked"
    /\ \/ /\ ~ConfigLoads \/ LoadedIdentity = "torn"
          /\ Exits("crashed") /\ UNCHANGED identity
       \/ /\ ConfigLoads /\ LoadedIdentity \in Ids
          /\ agent' = [agent EXCEPT !.st = "ready", !.url = config.url, !.place = config.place,
                                    !.id = LoadedIdentity]
          /\ UNCHANGED <<respawned, log, announced, identity>>
       \/ /\ ConfigLoads /\ LoadedIdentity = "absent"
          /\ agent' = [agent EXCEPT !.st = "creating", !.url = config.url, !.place = config.place]
          /\ identity' = [identity EXCEPT ![config.place] = "torn"]
          /\ UNCHANGED <<respawned, log, announced>>
    /\ UNCHANGED <<windows, binary, config, unit, run, meddled, bounds>>

(* Mutant: the identity is used whether or not it could be saved.             *)
SaveIdentityOrNot ==
    /\ agent.st = "creating"
    /\ \E id \in Ids \ (announced \cup {identity[p] : p \in Places}) :
         /\ agent' = [agent EXCEPT !.st = "ready", !.id = id]
         /\ identity' = [identity EXCEPT ![agent.place] = "absent"]
    /\ UNCHANGED <<windows, binary, config, unit, respawned, log, announced, run, meddled, bounds>>

SaveIdentity ==
    /\ agent.st = "creating"
    /\ \E id \in Ids \ (announced \cup {identity[p] : p \in Places}) :
         /\ agent' = [agent EXCEPT !.st = "ready", !.id = id]
         /\ identity' = [identity EXCEPT ![agent.place] = id]
    /\ UNCHANGED <<windows, binary, config, unit, respawned, log, announced, run, meddled, bounds>>

(* Mutant: a client that has failed to connect once gives up.                  *)
ConnectOnce ==
    /\ agent.st = "ready" /\ <<"fail", "now">> \notin log
    /\ agent' = [agent EXCEPT !.st = "online"]
    /\ log' = log \cup {<<"ok", "now">>} /\ announced' = announced \cup {agent.id}
    /\ UNCHANGED <<windows, diskVars, unit, respawned, run, meddled, bounds>>

(* The client registers, fails to, or loses its session and tries again.       *)
Connect ==
    /\ agent.st = "ready"
    /\ agent' = [agent EXCEPT !.st = "online"]
    /\ log' = log \cup {<<"ok", "now">>} /\ announced' = announced \cup {agent.id}
    /\ UNCHANGED <<windows, diskVars, unit, respawned, run, meddled, bounds>>

Disconnect ==
    /\ agent.st \in {"ready", "online"}
    /\ agent' = [agent EXCEPT !.st = "ready"]
    /\ log' = log \cup {<<"fail", "now">>}
    /\ UNCHANGED <<windows, diskVars, unit, respawned, announced, run, meddled, bounds>>

Fault == faults < MaxFaults /\ faults' = faults + 1

Crash ==
    /\ Active /\ Fault /\ Exits("crashed")
    /\ UNCHANGED <<windows, diskVars, unit, run, meddled, commands>>

(* Power is lost and comes back: nothing runs but what starts at boot.          *)
Reboot ==
    /\ Fault /\ respawned' = FALSE
    /\ LET none == [r \in Runs |-> IF Busy(r) THEN Idle ELSE run[r]]
       IN  \/ unit.boot /\ Fork(none)
           \/ /\ ~(unit.boot /\ Startable)
              /\ agent' = Down("stopped") /\ run' = none /\ UNCHANGED <<log, announced>>
    /\ UNCHANGED <<windows, diskVars, unit, meddled, commands>>

(* The process that was told to stop has: no recovery action follows.           *)
Stopped ==
    /\ agent.st = "stopping" /\ Exits("stopped")
    /\ UNCHANGED <<windows, diskVars, unit, run, meddled, bounds>>

---------------------------------------------------------------------------
(* The CLI: how a process starts, moves on and ends.                          *)

Start(r, started) ==
    /\ ~Busy(r) /\ commands < MaxCommands
    /\ commands' = commands + 1
    /\ LET others == {o \in Runs \ {r} : Busy(o)}
       IN  run' = [o \in Runs |->
                     IF o = r THEN [started EXCEPT !.alone = (others = {})]
                     ELSE [run[o] EXCEPT !.alone = @ /\ o \notin others]]
    /\ UNCHANGED <<windows, diskVars, unit, agentVars, meddled, faults>>

(* `agent install` for a platform; the release is the latest or the one asked.  *)
Install(r, v, url) ==
    Start(r, [Idle EXCEPT !.pc = "binary", !.cmd = "install", !.v = v, !.url = url])

(* The platform of an existing installation, or no installation.               *)
ReadServerURL == IF config.state = "whole" THEN config.url ELSE "none"

(* Mutant: the URL is used whether or not ReadServerURL found one.              *)
UpdateUnchecked(r, v) ==
    /\ Start(r, [Idle EXCEPT !.pc = "binary", !.cmd = "update", !.v = v, !.url = ReadServerURL])

(* `agent update` takes the platform from config.yaml before it downloads; with *)
(* --url it is an install.                                                    *)
Update(r, v) ==
    /\ ReadServerURL # "none"
    /\ Start(r, [Idle EXCEPT !.pc = "binary", !.cmd = "update", !.v = v, !.url = ReadServerURL])

(* `agent config --set-url` reads the whole file, here for the place of the     *)
(* identity, the setting that matters.                                        *)
SetUrl(r, url) ==
    /\ config.state = "whole"
    /\ Start(r, [Idle EXCEPT !.pc = "replace", !.cmd = "seturl", !.url = url,
                             !.old = config.place])

(* `agent start`, `agent stop` and `agent restart`.                            *)
Service(r, pc) == Start(r, [Idle EXCEPT !.pc = pc, !.cmd = "service"])

GoTo(r, pc) == [run EXCEPT ![r].pc = pc]
Done(r, connected) == [run EXCEPT ![r].pc = "done", ![r].connected = connected]

(* The process is killed, or a step that has changed nothing returns an error.  *)
Stop(r) ==
    /\ Busy(r) /\ run' = [run EXCEPT ![r] = Idle]
    /\ UNCHANGED <<windows, diskVars, unit, agentVars, meddled, bounds>>

(* The operator moves the identity and says so in config.yaml, or clears the    *)
(* recovery actions in the Services console.                                  *)
Meddle ==
    /\ \/ /\ "identity" \notin meddled /\ meddled' = meddled \cup {"identity"}
          /\ config.state = "whole" /\ config.place = "standard" /\ identity["standard"] \in Ids
          /\ config' = [config EXCEPT !.place = "own"]
          /\ identity' = [standard |-> "absent", own |-> identity["standard"]]
          /\ UNCHANGED unit
       \/ /\ "recovery" \notin meddled /\ meddled' = meddled \cup {"recovery"}
          /\ windows /\ unit.recovery /\ unit' = [unit EXCEPT !.recovery = FALSE]
          /\ UNCHANGED <<config, identity>>
    /\ run' = [r \in Runs |-> [run[r] EXCEPT !.alone = @ /\ ~Busy(r)]]
    /\ UNCHANGED <<windows, binary, agentVars, bounds>>

---------------------------------------------------------------------------
(* Phases of Install: binary, configuration, service.                         *)

(* selfinstall.Install: one rename; or, when Windows refuses to replace a        *)
(* running executable, it is moved aside first and put back if that fails.       *)
InstallBinary(r) ==
    /\ \/ /\ At(r, "binary") /\ ~(windows /\ Active)
          /\ binary' = run[r].v /\ run' = GoTo(r, "configure")
       \/ /\ At(r, "binary") /\ windows /\ Active /\ binary' = "none"
          /\ run' = [run EXCEPT ![r].pc = "swapped", ![r].old = binary]
       \/ /\ At(r, "swapped") /\ binary' = run[r].v /\ run' = GoTo(r, "configure")
       \/ /\ At(r, "swapped") /\ binary' = run[r].old /\ run' = [run EXCEPT ![r] = Idle]
    /\ UNCHANGED <<windows, config, identity, unit, agentVars, meddled, bounds>>

(* WriteConfig truncates config.yaml, then writes all of it.                   *)
WriteConfig(r) ==
    /\ \/ At(r, "configure") /\ config' = Torn("torn") /\ run' = GoTo(r, "writing")
       \/ At(r, "writing") /\ config' = Config(run[r].url, "standard") /\ run' = GoTo(r, "unit")
    /\ UNCHANGED <<windows, binary, identity, unit, agentVars, meddled, bounds>>

(* A definition that is already right is left alone, recovery actions included. *)
(* Else it is truncated (created, on Windows, with automatic start), written, and *)
(* on Windows given its recovery actions.                                      *)
UnitUnchanged == unit.text = "whole" /\ (windows => unit.boot)

WriteUnit(r) ==
    /\ \/ At(r, "unit") /\ UnitUnchanged /\ run' = GoTo(r, "enable") /\ UNCHANGED unit
       \/ /\ At(r, "unit") /\ ~UnitUnchanged
          /\ unit' = [unit EXCEPT !.text = "torn", !.boot = @ \/ windows]
          /\ run' = GoTo(r, "defining")
       \/ /\ At(r, "defining") /\ unit' = [unit EXCEPT !.text = "whole"]
          /\ run' = GoTo(r, IF windows THEN "recovery" ELSE "enable")
    /\ UNCHANGED <<windows, diskVars, agentVars, meddled, bounds>>

ApplyRecovery(r) ==
    /\ At(r, "recovery") /\ unit' = [unit EXCEPT !.recovery = TRUE] /\ run' = GoTo(r, "enable")
    /\ UNCHANGED <<windows, diskVars, agentVars, meddled, bounds>>

Enable(r) ==
    /\ At(r, "enable") /\ unit' = [unit EXCEPT !.boot = TRUE] /\ run' = GoTo(r, "restart")
    /\ UNCHANGED <<windows, diskVars, agentVars, meddled, bounds>>

(* Mutant: the file is rendered anew, as WriteConfig does.                     *)
RenderUrl(r) ==
    /\ At(r, "replace") /\ run' = GoTo(r, "restart")
    /\ config' = Config(run[r].url, "standard")
    /\ UNCHANGED <<windows, binary, identity, unit, agentVars, meddled, bounds>>

(* UpdateServerURL renames a staged file over config.yaml.                     *)
ReplaceUrl(r) ==
    /\ At(r, "replace") /\ run' = GoTo(r, "restart")
    /\ config' = Config(run[r].url, run[r].old)
    /\ UNCHANGED <<windows, binary, identity, unit, agentVars, meddled, bounds>>

---------------------------------------------------------------------------
(* The service.                                                              *)

(* `config --set-url` restarts and asks nothing more; the others wait.          *)
Restarted(r) == IF run[r].cmd = "seturl" THEN Done(r, FALSE) ELSE GoTo(r, "wait")

(* Mutant: start, which does nothing to a service that runs.                    *)
SystemdStart(r) ==
    /\ At(r, "restart") /\ ~windows
    /\ \/ Active /\ run' = Restarted(r) /\ UNCHANGED agentVars
       \/ ~Active /\ Fork(Restarted(r)) /\ respawned' = FALSE
    /\ UNCHANGED <<windows, diskVars, unit, meddled, bounds>>

(* systemctl restart is one job of systemd's.                                 *)
SystemdRestart(r) ==
    /\ At(r, "restart") /\ ~windows
    /\ Fork(Restarted(r)) /\ respawned' = FALSE
    /\ UNCHANGED <<windows, diskVars, unit, meddled, bounds>>

(* On Windows the CLI itself stops the service, waits, and starts it.  `config   *)
(* --set-url` has no systemctl to call there.                                 *)
ScmRestart(r) ==
    /\ windows /\ run[r].cmd # "seturl" /\ unit.text # "absent" /\ At(r, "restart")
    /\ \/ /\ Active /\ agent' = [agent EXCEPT !.st = "stopping"] /\ run' = GoTo(r, "stopwait")
       \/ agent.st \in {"stopped", "crashed"} /\ run' = GoTo(r, "start") /\ UNCHANGED agent
    /\ UNCHANGED <<windows, diskVars, unit, respawned, log, announced, meddled, bounds>>

(* The stop is waited for.                                                   *)
Await(r) ==
    /\ At(r, "stopwait") /\ agent.st = "stopped" /\ run' = GoTo(r, "start")
    /\ UNCHANGED <<windows, diskVars, unit, agentVars, meddled, bounds>>

ScmStart(r) ==
    /\ At(r, "start") /\ agent.st \in {"stopped", "crashed"} /\ Fork(GoTo(r, "wait"))
    /\ UNCHANGED <<windows, diskVars, unit, respawned, meddled, bounds>>

(* A service that already runs needs no start.                                 *)
PlainStart(r) ==
    /\ At(r, "plainStart")
    /\ \/ Active /\ run' = GoTo(r, "wait") /\ UNCHANGED agentVars
       \/ /\ agent.st \in {"stopped", "crashed"}
          /\ Fork(GoTo(r, "wait")) /\ respawned' = FALSE
    /\ UNCHANGED <<windows, diskVars, unit, meddled, bounds>>

(* systemd also gives up a pending restart; to the SCM a crashed service is not  *)
(* active, and its recovery action still comes.                                *)
PlainStop(r) ==
    /\ \/ At(r, "plainStop") /\ ~windows /\ Exits("stopped") /\ run' = Done(r, FALSE)
       \/ /\ At(r, "plainStop") /\ windows /\ unit.text # "absent" /\ Active
          /\ agent' = [agent EXCEPT !.st = "stopping"] /\ run' = GoTo(r, "waitStopped")
          /\ UNCHANGED <<respawned, log, announced>>
       \/ /\ windows /\ unit.text # "absent"
          /\ \/ At(r, "plainStop") /\ agent.st \in {"stopped", "crashed"}
             \/ At(r, "waitStopped") /\ agent.st = "stopped"
          /\ run' = Done(r, FALSE) /\ UNCHANGED agentVars
    /\ UNCHANGED <<windows, diskVars, unit, meddled, bounds>>

(* waitActive; on Windows IsActive also notes the process it saw.               *)
WaitActive(r) ==
    /\ At(r, "wait") /\ Active
    /\ run' = IF run[r].cmd = "service" THEN Done(r, FALSE)
              ELSE [run EXCEPT ![r].pc = "settle", ![r].saw = "this"]
    /\ UNCHANGED <<windows, diskVars, unit, agentVars, meddled, bounds>>

(* inspectLogs: one failure in what is read is enough, whoever logged it.         *)
Reads(seen) == (\E l \in seen : l[1] = "ok") /\ ~\E l \in seen : l[1] = "fail"

(* Restarts: systemd's count, or a process other than the one noted before.       *)
Restarts(r) == IF windows THEN run[r].saw = "gone" ELSE respawned

(* Logs: the tail has what this process logged and some of what came before.       *)
Logs == {before \cup {l \in log : l[2] = "now"} :
           before \in SUBSET {l \in log : l[2] = "before"}}

(* The second look, five seconds later: the agent has read its files by then.    *)
Settle(r) ==
    /\ At(r, "settle") /\ agent.st \in {"ready", "online"} /\ ~Restarts(r)
    /\ \E seen \in Logs : run' = Done(r, Reads(seen))
    /\ UNCHANGED <<windows, diskVars, unit, agentVars, meddled, bounds>>

---------------------------------------------------------------------------
Command(r) ==
    \/ \E v \in Releases : Update(r, v) \/ \E url \in Urls : Install(r, v, url)
    \/ \E url \in Urls : SetUrl(r, url)
    \/ \E pc \in {"plainStart", "plainStop", "restart"} : Service(r, pc)

Step(r) ==
    \/ InstallBinary(r) \/ WriteConfig(r) \/ WriteUnit(r) \/ ApplyRecovery(r)
    \/ Enable(r) \/ ReplaceUrl(r) \/ SystemdRestart(r)
    \/ ScmRestart(r) \/ Await(r) \/ ScmStart(r) \/ PlainStart(r) \/ PlainStop(r)
    \/ WaitActive(r) \/ Settle(r)

AgentHostNext ==
    \/ Respawn \/ Boot \/ SaveIdentity \/ Connect \/ Disconnect
    \/ Crash \/ Reboot \/ Stopped \/ Meddle
    \/ \E r \in Runs : Command(r) \/ Step(r) \/ Stop(r)

AgentHostSpec == AgentHostInit /\ [][AgentHostNext]_vars

(* The service manager restarts what it should, a process goes on, and the        *)
(* client keeps dialling.  Nothing is assumed of the CLI or the operator.         *)
AgentHostFairSpec ==
    AgentHostSpec /\ WF_vars(Respawn) /\ WF_vars(Boot) /\ WF_vars(SaveIdentity) /\ WF_vars(Connect)

---------------------------------------------------------------------------
(* Properties.                                                              *)

(* A host has one identity for the platform, whatever is installed, updated,      *)
(* killed, crashed or restarted on it (config.go: "identity.json is never          *)
(* touched"), as long as nobody moves its file: the identity announced is the      *)
(* one in the standard place.                                                 *)
OneIdentity ==
    "identity" \notin meddled => \A id \in announced : identity["standard"] = id

(* The step with which a run that had the host to itself reports success.         *)
Completes(r) == Busy(r) /\ run'[r].pc = "done" /\ run[r].alone

Installing(r) == run[r].cmd \in {"install", "update"}

(* Whatever earlier commands left behind - a torn configuration or definition, no *)
(* binary, an agent that crashes at every start - an install or update that        *)
(* reports success has repaired: the build and the platform asked for are the      *)
(* ones of the process that runs, which has an identity, has been the same one      *)
(* through the settle window, and will be started at boot.                      *)
InstalledIsRunning ==
    [][\A r \in Runs : Completes(r) /\ Installing(r) =>
         /\ binary = run[r].v /\ config = Config(run[r].url, "standard")
         /\ unit.text = "whole" /\ unit.boot
         /\ Active => /\ agent.build = run[r].v /\ agent.url = run[r].url
                      /\ agent.id = identity["standard"] /\ run[r].saw = "this"]_vars

(* A changed URL is in use: once `config --set-url` reports success no process of   *)
(* the agent runs with another platform, and its identity is where it was.         *)
ChangedUrlIsUsed ==
    [][\A r \in Runs : Completes(r) /\ run[r].cmd = "seturl" =>
         /\ config.url = run[r].url /\ config.place = run[r].old
         /\ agent'.st = "forked" /\ identity' = identity]_vars

(* Nothing on disk keeps the agent from running, nor from being restarted.         *)
Sound ==
    /\ Startable /\ Recovers
    /\ ConfigLoads /\ LoadedIdentity # "torn"

(* An agent that should run does: while its files are sound, after a crash, a       *)
(* power loss or a lost session it is connected again, unless it is stopped.       *)
AgentReturns ==
    (Active \/ agent.st = "crashed") /\ Sound
        ~> agent.st = "online" \/ ~Sound \/ agent.st \in {"stopping", "stopped"}

(* scm_windows.go: "an operator who cleared them by hand in the Services console    *)
(* should get them back on the next install".                                  *)
InstallRestoresRecovery ==
    [][\A r \in Runs : Completes(r) /\ Installing(r) /\ "recovery" \in meddled => Recovers]_vars
===========================================================================
