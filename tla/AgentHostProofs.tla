--------------------------- MODULE AgentHostProofs ---------------------------
(***************************************************************************)
(* Proofs about AgentHost, for any number of CLI processes, releases, platforms, *)
(* commands and faults: its type invariant, that a host keeps the identity it     *)
(* told the platform, and that an install, an update or a set-url which had the   *)
(* host to itself is in use when it reports success.                           *)
(*                                                                         *)
(* The identity is kept because, while nobody moves its file, there is one place *)
(* everything speaks of: config.yaml, the process that read it and a set-url     *)
(* that has read it and has still to write it back.  Kept is the places they may  *)
(* name.  A place that has an identity is never written again, so a process       *)
(* creates one only before any was announced.                                 *)
(*                                                                         *)
(* A command that is alone on the host finds, at every place of its program, what *)
(* its earlier steps wrote: nobody else has written since, and what the service     *)
(* manager restarts comes from the same files.  Progress says so, place by place.   *)
(***************************************************************************)
EXTENDS AgentHost, TLAPS

Pcs == {"idle", "done", "binary", "swapped", "configure", "writing", "unit", "defining",
        "recovery", "enable", "restart", "stopwait", "start", "wait", "settle", "replace",
        "plainStart", "plainStop", "waitStopped"}

RunStates ==
    [pc : Pcs, cmd : {"none", "install", "update", "seturl", "service"},
     v : Releases \cup {"none"}, url : Urls \cup {"none"},
     old : Releases \cup Places \cup {"none"},
     saw : {"none", "this", "gone"}, connected : BOOLEAN, alone : BOOLEAN]

AgentStates ==
    [st : {"stopped", "crashed", "stopping", "forked", "creating", "ready", "online"},
     build : Releases \cup {"none"}, url : Urls \cup {"none"}, place : Places,
     id : Ids \cup {"none"}]

ConfigStates == {Torn("absent"), Torn("torn")} \cup {Config(u, p) : u \in Urls, p \in Places}

UnitStates == [text : {"absent", "torn", "whole"}, boot : BOOLEAN, recovery : BOOLEAN]

(* Where the identity may be: until it is moved, in the standard place.           *)
Kept == IF "identity" \in meddled THEN Places ELSE {"standard"}

(* What a process of the CLI keeps between its steps.                           *)
RunOK(q) ==
    /\ q \in RunStates
    /\ q.pc \in {"binary", "swapped", "configure", "writing", "replace"} => q.url \in Urls
    /\ q.pc = "swapped" => q.old \in Releases \cup {"none"}
    /\ q.pc = "replace" => q.cmd = "seturl"
    /\ q.cmd = "seturl" => q.pc \in {"replace", "restart", "done"} /\ q.old \in Kept

AllRunsOK(runs) == runs \in [Runs -> RunStates] /\ \A r \in Runs : RunOK(runs[r])

DiskOK ==
    /\ binary \in Releases \cup {"none"}
    /\ config \in ConfigStates /\ config.place \in Kept
    /\ identity \in [Places -> Ids \cup {"absent", "torn"}]

AgentOK ==
    /\ agent \in AgentStates /\ agent.place \in Kept
    /\ agent.st \in {"ready", "online"} => agent.id \in Ids
    /\ announced \subseteq Ids

(* Until it is moved, a running agent has the identity of the standard place, and  *)
(* no other was announced; one that is creating it finds none there.             *)
IdentityKept ==
    "identity" \notin meddled =>
        /\ agent.st = "creating" => identity["standard"] = "torn"
        /\ agent.st \in {"ready", "online"} => agent.id = identity["standard"]
        /\ announced \subseteq {identity["standard"]}

OthersOK ==
    /\ windows \in BOOLEAN /\ unit \in UnitStates
    /\ respawned \in BOOLEAN /\ log \subseteq {"ok", "fail"} \X {"now", "before"}
    /\ meddled \subseteq {"identity", "recovery"}
    /\ commands \in 0..MaxCommands /\ faults \in 0..MaxFaults

HostInv == DiskOK /\ AgentOK /\ IdentityKept /\ OthersOK /\ AllRunsOK(run)

LEMMA HostTypes == HostInv => AgentHostTypeOK
BY DEF HostInv, DiskOK, AgentOK, OthersOK, AllRunsOK, AgentHostTypeOK, ConfigStates,
       UnitStates, AgentStates, RunStates, Pcs

(* The names of no identity.                                                  *)
LEMMA NoNames == {"none", "absent", "torn"} \cap (Releases \cup Urls \cup Ids) = {}
BY AgentHostAssumption DEF AgentHostAssumption

---------------------------------------------------------------------------
(* The processes of the CLI.                                                  *)

LEMMA IdleOK == RunOK(Idle)
BY DEF RunOK, Idle, RunStates, Pcs

LEMMA OneRun ==
    ASSUME AllRunsOK(run), NEW r \in Runs, NEW q, RunOK(q),
           NEW next, next = [run EXCEPT ![r] = q]
    PROVE  AllRunsOK(next)
BY DEF AllRunsOK, RunOK

LEMMA OutdateOK ==
    ASSUME NEW runs, AllRunsOK(runs)
    PROVE  AllRunsOK(Outdate(runs))
<1>1. ASSUME NEW r \in Runs
      PROVE  RunOK([runs[r] EXCEPT !.saw = IF @ = "this" THEN "gone" ELSE @])
  <2>1. PICK q : q = runs[r] OBVIOUS
  <2>2. RunOK(q) BY <2>1 DEF AllRunsOK
  <2>3. RunOK([q EXCEPT !.saw = IF @ = "this" THEN "gone" ELSE @])
    BY <2>2 DEF RunOK, RunStates
  <2> QED BY <2>1, <2>3
<1> QED BY <1>1 DEF Outdate, AllRunsOK, RunOK

(* The places in a run's program that ask nothing of what it keeps.              *)
LEMMA GoToOK ==
    ASSUME AllRunsOK(run), NEW r \in Runs, NEW pc \in Pcs \ {"swapped", "replace"},
           run[r].cmd = "seturl" => pc \in {"restart", "done"},
           pc \in {"binary", "configure", "writing"} => run[r].url \in Urls
    PROVE  AllRunsOK(GoTo(r, pc))
<1>1. PICK q : q = run[r] OBVIOUS
<1>2. RunOK(q) BY <1>1 DEF AllRunsOK
<1>3. PICK g : g = [q EXCEPT !.pc = pc] OBVIOUS
<1>4. RunOK(g) BY <1>1, <1>2, <1>3 DEF RunOK, RunStates
<1>5. GoTo(r, pc) = [run EXCEPT ![r] = g] BY <1>1, <1>3 DEF GoTo
<1> QED BY <1>4, <1>5, OneRun

LEMMA DoneOK ==
    ASSUME AllRunsOK(run), NEW r \in Runs, NEW connected \in BOOLEAN
    PROVE  AllRunsOK(Done(r, connected))
<1>1. PICK q : q = run[r] OBVIOUS
<1>2. RunOK(q) BY <1>1 DEF AllRunsOK
<1>3. PICK d : d = [q EXCEPT !.pc = "done", !.connected = connected] OBVIOUS
<1>4. d \in RunStates BY <1>2, <1>3 DEF RunOK, RunStates, Pcs
<1>5. d.pc = "done" /\ d.cmd = q.cmd /\ d.old = q.old BY <1>2, <1>3 DEF RunOK, RunStates
<1>6. RunOK(d) BY <1>2, <1>4, <1>5 DEF RunOK
<1>7. Done(r, connected) = [run EXCEPT ![r] = d] BY <1>1, <1>3 DEF Done
<1> QED BY <1>6, <1>7, OneRun

---------------------------------------------------------------------------
LEMMA InitHost == AgentHostInit => HostInv
<1> SUFFICES ASSUME AgentHostInit PROVE HostInv OBVIOUS
<1>1. DiskOK /\ AgentOK /\ IdentityKept
  BY DEF AgentHostInit, DiskOK, AgentOK, IdentityKept, ConfigStates, AgentStates, Torn, Down,
         Kept, Places
<1>2. OthersOK
  <2>1. commands \in 0..MaxCommands /\ faults \in 0..MaxFaults
    BY AgentHostAssumption DEF AgentHostInit, AgentHostAssumption
  <2>2. unit \in UnitStates BY DEF AgentHostInit, UnitStates
  <2>3. windows \in BOOLEAN /\ respawned \in BOOLEAN BY DEF AgentHostInit
  <2>4. log \subseteq {"ok", "fail"} \X {"now", "before"}
          /\ meddled \subseteq {"identity", "recovery"}
    BY DEF AgentHostInit
  <2> QED BY <2>1, <2>2, <2>3, <2>4 DEF OthersOK
<1>3. AllRunsOK(run) BY IdleOK DEF AgentHostInit, AllRunsOK, RunOK
<1> QED BY <1>1, <1>2, <1>3 DEF HostInv

---------------------------------------------------------------------------
(* What the steps have in common.                                             *)

(* While nothing is moved, the places the identity may be stay the same.         *)
LEMMA KeptStays ==
    ASSUME meddled' = meddled
    PROVE  Kept' = Kept /\ (AllRunsOK(run') => AllRunsOK(run)')
BY DEF Kept, AllRunsOK, RunOK

(* A step of the CLI that leaves the agent's process and identity alone.          *)
LEMMA CliStep ==
    ASSUME HostInv, AllRunsOK(run'),
           UNCHANGED <<windows, identity, agentVars, meddled, faults>>,
           binary' \in Releases \cup {"none"}, config' \in ConfigStates,
           config'.place \in Kept, unit' \in UnitStates, commands' \in 0..MaxCommands
    PROVE  HostInv'
<1>1. Kept' = Kept /\ AllRunsOK(run)' BY KeptStays
<1>2. DiskOK' BY <1>1 DEF HostInv, DiskOK, ConfigStates, Config, Torn
<1>3. AgentOK' /\ IdentityKept' BY <1>1 DEF HostInv, AgentOK, IdentityKept, agentVars
<1>4. OthersOK' BY DEF HostInv, OthersOK, agentVars
<1> QED BY <1>1, <1>2, <1>3, <1>4 DEF HostInv

(* A step after which no process of the agent has read its files.                *)
LEMMA ProcessStep ==
    ASSUME HostInv, AllRunsOK(run'), UNCHANGED <<windows, diskVars, unit, announced, meddled>>,
           agent' \in AgentStates, agent'.place \in Kept,
           agent'.st \notin {"creating", "ready", "online"},
           respawned' \in BOOLEAN, log' \subseteq {"ok", "fail"} \X {"now", "before"},
           commands' \in 0..MaxCommands, faults' \in 0..MaxFaults
    PROVE  HostInv'
<1>1. Kept' = Kept /\ AllRunsOK(run)' BY KeptStays
<1>2. DiskOK' BY <1>1 DEF HostInv, DiskOK, diskVars
<1>3. AgentOK' BY <1>1 DEF HostInv, AgentOK
<1>4. IdentityKept' BY DEF HostInv, IdentityKept, diskVars
<1>5. OthersOK' BY DEF HostInv, OthersOK
<1> QED BY <1>1, <1>2, <1>3, <1>4, <1>5 DEF HostInv

LEMMA DownOK ==
    ASSUME NEW st \in {"stopped", "crashed", "stopping", "forked"}, NEW d, d = Down(st)
    PROVE  d \in AgentStates /\ d.st = st /\ d.place = "standard"
BY DEF Down, AgentStates, Places

LEMMA StandardKept == "standard" \in Kept /\ Kept \subseteq Places
BY DEF Kept, Places

LEMMA ForkOK ==
    ASSUME HostInv, NEW runs, AllRunsOK(runs), Fork(runs)
    PROVE  /\ AllRunsOK(run') /\ announced' = announced
           /\ agent' \in AgentStates /\ agent'.place \in Kept /\ agent'.st = "forked"
           /\ log' \subseteq {"ok", "fail"} \X {"now", "before"}
<1>1. PICK d : d = Down("forked") OBVIOUS
<1>2. d \in AgentStates /\ d.st = "forked" /\ d.place = "standard" BY <1>1, DownOK
<1>3. agent' = [d EXCEPT !.build = binary] BY <1>1 DEF Fork
<1>4. binary \in Releases \cup {"none"} BY DEF HostInv, DiskOK
<1>5. agent' \in AgentStates /\ agent'.st = "forked" /\ agent'.place = "standard"
  BY <1>2, <1>3, <1>4 DEF AgentStates
<1>6. log' \subseteq {"ok", "fail"} \X {"now", "before"} BY DEF Fork, HostInv, OthersOK
<1>7. AllRunsOK(run') BY OutdateOK DEF Fork
<1> QED BY <1>5, <1>6, <1>7, StandardKept DEF Fork

LEMMA ExitsOK ==
    ASSUME HostInv, NEW st \in {"stopped", "crashed"}, Exits(st)
    PROVE  /\ UNCHANGED <<respawned, log, announced>>
           /\ agent' \in AgentStates /\ agent'.place \in Kept
           /\ agent'.st \notin {"creating", "ready", "online"}
BY DownOK, StandardKept DEF Exits

(* The types of what a step leaves alone.                                     *)
LEMMA HostParts ==
    ASSUME HostInv
    PROVE  /\ binary \in Releases \cup {"none"} /\ config \in ConfigStates
           /\ config.place \in Kept /\ unit \in UnitStates
           /\ agent \in AgentStates /\ agent.place \in Kept
           /\ respawned \in BOOLEAN /\ log \subseteq {"ok", "fail"} \X {"now", "before"}
           /\ commands \in 0..MaxCommands /\ faults \in 0..MaxFaults
           /\ AllRunsOK(run)
BY DEF HostInv, DiskOK, AgentOK, OthersOK

LEMMA FaultOK == ASSUME HostInv, Fault PROVE faults' \in 0..MaxFaults
BY AgentHostAssumption, HostParts DEF Fault, AgentHostAssumption

---------------------------------------------------------------------------
(* The service manager and the agent's process.                                *)

LEMMA StepRespawn == ASSUME HostInv, Respawn PROVE HostInv'
<1>1. Fork(run) /\ respawned' = TRUE BY DEF Respawn
<1>2. UNCHANGED <<windows, diskVars, unit, meddled, bounds>> BY DEF Respawn
<1>3. /\ AllRunsOK(run') /\ announced' = announced
      /\ agent' \in AgentStates /\ agent'.place \in Kept /\ agent'.st = "forked"
      /\ log' \subseteq {"ok", "fail"} \X {"now", "before"}
  BY <1>1, ForkOK, HostParts
<1> QED BY <1>1, <1>2, <1>3, HostParts, ProcessStep DEF bounds

LEMMA StepCrash == ASSUME HostInv, Crash PROVE HostInv'
BY ExitsOK, FaultOK, HostParts, ProcessStep DEF Crash

LEMMA StepStopped == ASSUME HostInv, Stopped PROVE HostInv'
BY ExitsOK, HostParts, ProcessStep DEF Stopped, bounds

LEMMA StepReboot == ASSUME HostInv, Reboot PROVE HostInv'
<1>1. PICK none : none = [r \in Runs |-> IF Busy(r) THEN Idle ELSE run[r]] OBVIOUS
<1>2. AllRunsOK(none) BY <1>1, HostParts, IdleOK DEF AllRunsOK, RunOK
<1>3. respawned' = FALSE /\ UNCHANGED <<windows, diskVars, unit, meddled, commands>>
        /\ faults' \in 0..MaxFaults
  BY FaultOK DEF Reboot
<1>4. CASE Fork(none)
  <2>1. /\ AllRunsOK(run') /\ announced' = announced
        /\ agent' \in AgentStates /\ agent'.place \in Kept /\ agent'.st = "forked"
        /\ log' \subseteq {"ok", "fail"} \X {"now", "before"}
    BY <1>2, <1>4, ForkOK
  <2> QED BY <1>3, <2>1, HostParts, ProcessStep
<1>5. CASE agent' = Down("stopped") /\ run' = none /\ UNCHANGED <<log, announced>>
  BY <1>2, <1>3, <1>5, DownOK, StandardKept, HostParts, ProcessStep
<1> QED BY <1>1, <1>4, <1>5 DEF Reboot

(* A step of the agent's process that may have an identity.                     *)
LEMMA LiveStep ==
    ASSUME HostInv, UNCHANGED <<windows, binary, config, unit, respawned, run, meddled, bounds>>,
           identity' \in [Places -> Ids \cup {"absent", "torn"}],
           log' \subseteq {"ok", "fail"} \X {"now", "before"},
           agent' \in AgentStates, agent'.place \in Kept, announced' \subseteq Ids,
           agent'.st \in {"ready", "online"} => agent'.id \in Ids,
           IdentityKept'
    PROVE  HostInv'
<1>1. Kept' = Kept /\ AllRunsOK(run)' BY KeptStays, HostParts
<1>2. DiskOK' BY <1>1 DEF HostInv, DiskOK
<1>3. AgentOK' BY <1>1 DEF AgentOK
<1>4. OthersOK' BY DEF HostInv, OthersOK, bounds
<1> QED BY <1>1, <1>2, <1>3, <1>4 DEF HostInv

(* A place that is not the standard one is kept only once the identity was moved.  *)
LEMMA UnmovedPlace ==
    ASSUME HostInv, "identity" \notin meddled
    PROVE  config.place = "standard" /\ agent.place = "standard"
BY HostParts DEF Kept

LEMMA StepBoot == ASSUME HostInv, Boot PROVE HostInv'
<1>1. UNCHANGED <<windows, binary, config, unit, run, meddled, bounds>> BY DEF Boot
<1>2. /\ identity \in [Places -> Ids \cup {"absent", "torn"}] /\ announced \subseteq Ids
      /\ config.place \in Places
  BY StandardKept, HostParts DEF HostInv, DiskOK, AgentOK
<1>3. ConfigLoads => config.url \in Urls
  BY HostParts DEF ConfigLoads, ConfigStates, Torn, Config
<1>4. CASE Exits("crashed") /\ UNCHANGED identity
  BY <1>1, <1>4, ExitsOK, HostParts, ProcessStep DEF diskVars, bounds
<1>5. CASE /\ ConfigLoads /\ LoadedIdentity \in Ids
           /\ agent' = [agent EXCEPT !.st = "ready", !.url = config.url,
                                     !.place = config.place, !.id = LoadedIdentity]
           /\ UNCHANGED <<respawned, log, announced, identity>>
  <2>1. agent' \in AgentStates BY <1>2, <1>3, <1>5, HostParts DEF AgentStates
  <2>2. agent'.st = "ready" /\ agent'.place = config.place
          /\ agent'.id = identity[config.place]
    BY <1>5, HostParts DEF AgentStates, LoadedIdentity
  <2>3. IdentityKept'
    BY <1>1, <1>5, <2>2, UnmovedPlace DEF HostInv, IdentityKept
  <2> QED BY <1>1, <1>2, <1>5, <2>1, <2>2, <2>3, HostParts, LiveStep DEF LoadedIdentity
<1>6. CASE /\ ConfigLoads /\ LoadedIdentity = "absent"
           /\ agent' = [agent EXCEPT !.st = "creating", !.url = config.url,
                                     !.place = config.place]
           /\ identity' = [identity EXCEPT ![config.place] = "torn"]
           /\ UNCHANGED <<respawned, log, announced>>
  <2>1. agent' \in AgentStates BY <1>2, <1>3, <1>6, HostParts DEF AgentStates
  <2>2. agent'.st = "creating" /\ agent'.place = config.place
    BY <1>6, HostParts DEF AgentStates
  <2>3. identity' \in [Places -> Ids \cup {"absent", "torn"}] BY <1>2, <1>6
  <2>4. "identity" \notin meddled => announced = {} /\ identity'["standard"] = "torn"
    BY <1>2, <1>6, UnmovedPlace, NoNames DEF HostInv, IdentityKept, LoadedIdentity
  <2>5. IdentityKept' BY <1>1, <1>6, <2>2, <2>4 DEF IdentityKept
  <2> QED BY <1>1, <1>2, <1>6, <2>1, <2>2, <2>3, <2>5, HostParts, LiveStep
<1> QED BY <1>4, <1>5, <1>6 DEF Boot

LEMMA StepSaveIdentity == ASSUME HostInv, SaveIdentity PROVE HostInv'
<1>1. PICK id \in Ids : /\ agent' = [agent EXCEPT !.st = "ready", !.id = id]
                        /\ identity' = [identity EXCEPT ![agent.place] = id]
  BY DEF SaveIdentity
<1>2. /\ UNCHANGED <<windows, binary, config, unit, respawned, log, announced, run, meddled>>
      /\ UNCHANGED bounds /\ agent.st = "creating"
  BY DEF SaveIdentity
<1>3. /\ identity \in [Places -> Ids \cup {"absent", "torn"}] /\ announced \subseteq Ids
      /\ agent.place \in Places
  BY StandardKept, HostParts DEF HostInv, DiskOK, AgentOK
<1>4. /\ agent' \in AgentStates /\ agent'.st = "ready" /\ agent'.id = id
      /\ agent'.place = agent.place
  BY <1>1, HostParts DEF AgentStates
<1>5. identity' \in [Places -> Ids \cup {"absent", "torn"}] BY <1>1, <1>3
<1>6. "identity" \notin meddled => announced = {} /\ identity'["standard"] = id
  BY <1>1, <1>2, <1>3, UnmovedPlace, NoNames DEF HostInv, IdentityKept
<1>7. IdentityKept' BY <1>2, <1>4, <1>6 DEF IdentityKept
<1> QED BY <1>2, <1>3, <1>4, <1>5, <1>7, HostParts, LiveStep

(* The identity told to the platform is the agent's, and so the standard place's.   *)
LEMMA StepConnect == ASSUME HostInv, Connect PROVE HostInv'
<1>1. /\ UNCHANGED <<windows, diskVars, unit, respawned, run, meddled, bounds>>
      /\ agent.st = "ready" /\ announced' = announced \cup {agent.id}
      /\ log' = log \cup {<<"ok", "now">>}
      /\ agent' = [agent EXCEPT !.st = "online"]
  BY DEF Connect
<1>2. agent.id \in Ids /\ announced \subseteq Ids BY <1>1 DEF HostInv, AgentOK
<1>3. /\ agent' \in AgentStates /\ agent'.st = "online" /\ agent'.id = agent.id
      /\ agent'.place = agent.place
  BY <1>1, HostParts DEF AgentStates
<1>4. IdentityKept' BY <1>1, <1>3 DEF HostInv, IdentityKept, diskVars
<1>5. log' \subseteq {"ok", "fail"} \X {"now", "before"} BY <1>1, HostParts
<1> QED BY <1>1, <1>2, <1>3, <1>4, <1>5, HostParts, LiveStep DEF diskVars, HostInv, DiskOK

LEMMA StepDisconnect == ASSUME HostInv, Disconnect PROVE HostInv'
<1>1. /\ UNCHANGED <<windows, diskVars, unit, respawned, announced, run, meddled, bounds>>
      /\ agent.st \in {"ready", "online"} /\ log' = log \cup {<<"fail", "now">>}
      /\ agent' = [agent EXCEPT !.st = "ready"]
  BY DEF Disconnect
<1>2. agent.id \in Ids /\ announced \subseteq Ids BY <1>1 DEF HostInv, AgentOK
<1>3. /\ agent' \in AgentStates /\ agent'.st = "ready" /\ agent'.id = agent.id
      /\ agent'.place = agent.place
  BY <1>1, HostParts DEF AgentStates
<1>4. IdentityKept' BY <1>1, <1>3 DEF HostInv, IdentityKept, diskVars
<1>5. log' \subseteq {"ok", "fail"} \X {"now", "before"} BY <1>1, HostParts
<1> QED BY <1>1, <1>2, <1>3, <1>4, <1>5, HostParts, LiveStep DEF diskVars, HostInv, DiskOK

---------------------------------------------------------------------------
(* The operator and the CLI's processes.                                       *)

LEMMA AloneOK ==
    ASSUME NEW q, RunOK(q), NEW b \in BOOLEAN, NEW a, a = [q EXCEPT !.alone = b]
    PROVE  RunOK(a)
<1>1. a \in RunStates BY DEF RunOK, RunStates
<1>2. /\ a.pc = q.pc /\ a.cmd = q.cmd /\ a.url = q.url /\ a.old = q.old
  BY DEF RunOK, RunStates
<1> QED BY <1>1, <1>2 DEF RunOK

LEMMA StepMeddle == ASSUME HostInv, Meddle PROVE HostInv'
<1>1. ASSUME NEW r \in Runs PROVE RunOK(run'[r])
  <2>1. PICK q : q = run[r] OBVIOUS
  <2>2. PICK b \in BOOLEAN : b = (q.alone /\ ~Busy(r)) OBVIOUS
  <2>3. run'[r] = [q EXCEPT !.alone = b] BY <2>1, <2>2 DEF Meddle
  <2> QED BY <2>1, <2>2, <2>3, AloneOK, HostParts DEF AllRunsOK
<1>2. AllRunsOK(run') BY <1>1 DEF Meddle, AllRunsOK, RunOK
<1>3. UNCHANGED <<windows, binary, agentVars, bounds>> BY DEF Meddle
<1>4. CASE /\ "identity" \notin meddled /\ meddled' = meddled \cup {"identity"}
           /\ config.state = "whole" /\ identity["standard"] \in Ids
           /\ config' = [config EXCEPT !.place = "own"]
           /\ identity' = [standard |-> "absent", own |-> identity["standard"]]
           /\ UNCHANGED unit
  <2>1. Kept' = Places BY <1>4 DEF Kept
  <2>2. PICK u \in Urls, p \in Places : config = Config(u, p)
    BY <1>4, HostParts DEF ConfigStates, Torn
  <2>3. config' = Config(u, "own") BY <1>4, <2>2 DEF Config
  <2>4. config' \in ConfigStates /\ config'.place = "own"
    BY <2>2, <2>3 DEF ConfigStates, Config, Places
  <2>5. identity' \in [Places -> Ids \cup {"absent", "torn"}] BY <1>4 DEF Places
  <2>6. DiskOK'
    BY <1>3, <2>1, <2>4, <2>5 DEF HostInv, DiskOK, ConfigStates, Config, Torn, Places
  <2>7. AgentOK' BY <1>3, <2>1, StandardKept DEF HostInv, AgentOK, agentVars
  <2>8. IdentityKept' BY <1>4 DEF IdentityKept
  <2>9. OthersOK' BY <1>3, <1>4 DEF HostInv, OthersOK, agentVars, bounds
  <2>10. AllRunsOK(run)' BY <1>2, <2>1, StandardKept DEF AllRunsOK, RunOK
  <2> QED BY <2>6, <2>7, <2>8, <2>9, <2>10 DEF HostInv
<1>5. CASE /\ meddled' = meddled \cup {"recovery"}
           /\ unit' = [unit EXCEPT !.recovery = FALSE] /\ UNCHANGED <<config, identity>>
  <2>1. Kept' = Kept BY <1>5 DEF Kept
  <2>2. DiskOK' BY <1>3, <1>5, <2>1 DEF HostInv, DiskOK
  <2>3. AgentOK' BY <1>3, <2>1 DEF HostInv, AgentOK, agentVars
  <2>4. IdentityKept' BY <1>3, <1>5 DEF HostInv, IdentityKept, agentVars
  <2>5. unit' \in UnitStates BY <1>5, HostParts DEF UnitStates
  <2>6. OthersOK' BY <1>3, <1>5, <2>5 DEF HostInv, OthersOK, agentVars, bounds
  <2>7. AllRunsOK(run)' BY <1>2, <2>1 DEF AllRunsOK, RunOK
  <2> QED BY <2>2, <2>3, <2>4, <2>6, <2>7 DEF HostInv
<1> QED BY <1>4, <1>5 DEF Meddle

(* A command that starts has read what its first step needs.                    *)
LEMMA StepStart ==
    ASSUME HostInv, NEW r \in Runs, NEW started, RunOK(started), Start(r, started)
    PROVE  HostInv'
<1>1. PICK others : others = {o \in Runs \ {r} : Busy(o)} OBVIOUS
<1>2. run' = [o \in Runs |->
                IF o = r THEN [started EXCEPT !.alone = (others = {})]
                ELSE [run[o] EXCEPT !.alone = @ /\ o \notin others]]
  BY <1>1 DEF Start
<1>3. ASSUME NEW o \in Runs PROVE RunOK(run'[o])
  <2>1. CASE o = r
    <3>1. PICK b \in BOOLEAN : b = (others = {}) OBVIOUS
    <3>2. run'[o] = [started EXCEPT !.alone = b] BY <1>2, <2>1, <3>1
    <3> QED BY <3>1, <3>2, AloneOK
  <2>2. CASE o # r
    <3>1. PICK q : q = run[o] OBVIOUS
    <3>2. PICK b \in BOOLEAN : b = (q.alone /\ o \notin others) OBVIOUS
    <3>3. run'[o] = [q EXCEPT !.alone = b] BY <1>2, <2>2, <3>1, <3>2
    <3> QED BY <3>1, <3>2, <3>3, AloneOK, HostParts DEF AllRunsOK
  <2> QED BY <2>1, <2>2
<1>4. AllRunsOK(run') BY <1>2, <1>3 DEF AllRunsOK, RunOK
<1>5. commands' \in 0..MaxCommands
  BY HostParts, AgentHostAssumption DEF Start, AgentHostAssumption
<1>6. UNCHANGED <<windows, diskVars, unit, agentVars, meddled, faults>> BY DEF Start
<1> QED BY <1>4, <1>5, <1>6, CliStep, HostParts DEF diskVars

LEMMA StepCommand == ASSUME HostInv, NEW r \in Runs, Command(r) PROVE HostInv'
<1>1. ASSUME NEW v \in Releases, NEW url \in Urls,
             \/ Start(r, [Idle EXCEPT !.pc = "binary", !.cmd = "install", !.v = v, !.url = url])
             \/ Start(r, [Idle EXCEPT !.pc = "binary", !.cmd = "update", !.v = v, !.url = url])
      PROVE  HostInv'
  <2>1. /\ RunOK([Idle EXCEPT !.pc = "binary", !.cmd = "install", !.v = v, !.url = url])
        /\ RunOK([Idle EXCEPT !.pc = "binary", !.cmd = "update", !.v = v, !.url = url])
    BY DEF RunOK, RunStates, Idle, Pcs
  <2> QED BY <1>1, <2>1, StepStart
<1>2. ASSUME NEW url \in Urls, SetUrl(r, url) PROVE HostInv'
  <2>1. config.place \in Kept /\ config.place \in Places BY HostParts, StandardKept
  <2>2. RunOK([Idle EXCEPT !.pc = "replace", !.cmd = "seturl", !.url = url,
                           !.old = config.place])
    BY <2>1 DEF RunOK, RunStates, Idle, Pcs
  <2> QED BY <1>2, <2>2, StepStart DEF SetUrl
<1>3. ASSUME NEW pc \in {"plainStart", "plainStop", "restart"}, Service(r, pc) PROVE HostInv'
  <2>1. RunOK([Idle EXCEPT !.pc = pc, !.cmd = "service"])
    BY DEF RunOK, RunStates, Idle, Pcs
  <2> QED BY <1>3, <2>1, StepStart DEF Service
<1>4. ReadServerURL # "none" => ReadServerURL \in Urls
  BY HostParts DEF ReadServerURL, ConfigStates, Torn, Config
<1>5. ASSUME NEW v \in Releases, Update(r, v) PROVE HostInv'
  BY <1>1, <1>4, <1>5 DEF Update
<1>6. ASSUME NEW v \in Releases, NEW url \in Urls, Install(r, v, url) PROVE HostInv'
  BY <1>1, <1>6 DEF Install
<1> QED BY <1>2, <1>3, <1>5, <1>6 DEF Command

---------------------------------------------------------------------------
(* The steps of a command.                                                    *)

LEMMA StepStop == ASSUME HostInv, NEW r \in Runs, Stop(r) PROVE HostInv'
<1>1. AllRunsOK(run') BY HostParts, IdleOK, OneRun DEF Stop
<1> QED BY <1>1, CliStep, HostParts DEF Stop, diskVars, bounds

LEMMA StepInstallBinary == ASSUME HostInv, NEW r \in Runs, InstallBinary(r) PROVE HostInv'
<1>1. UNCHANGED <<windows, config, identity, unit, agentVars, meddled, bounds>>
  BY DEF InstallBinary
<1>2. PICK q : q = run[r] OBVIOUS
<1>3. RunOK(q) BY <1>2, HostParts DEF AllRunsOK
<1>4. q.pc \in {"binary", "swapped"} BY <1>2 DEF InstallBinary, At
<1>5. q.cmd # "seturl" /\ q.url \in Urls /\ q.v \in Releases \cup {"none"}
  BY <1>3, <1>4 DEF RunOK, RunStates
<1>6. CASE run' = GoTo(r, "configure") /\ binary' = run[r].v
  <2>1. AllRunsOK(run') BY <1>2, <1>5, <1>6, GoToOK, HostParts DEF Pcs
  <2> QED BY <1>1, <1>2, <1>5, <1>6, <2>1, CliStep, HostParts DEF bounds
<1>7. CASE binary' = "none" /\ run' = [run EXCEPT ![r].pc = "swapped", ![r].old = binary]
  <2>1. PICK s : s = [q EXCEPT !.pc = "swapped", !.old = binary] OBVIOUS
  <2>2. s \in RunStates BY <1>3, <2>1, HostParts DEF RunOK, RunStates, Pcs
  <2>3. s.pc = "swapped" /\ s.old = binary /\ s.cmd = q.cmd /\ s.url = q.url
    BY <1>3, <2>1 DEF RunOK, RunStates
  <2>4. RunOK(s) BY <1>5, <2>2, <2>3, HostParts DEF RunOK
  <2>5. run' = [run EXCEPT ![r] = s] BY <1>2, <1>7, <2>1
  <2>6. AllRunsOK(run') BY <2>4, <2>5, OneRun, HostParts
  <2> QED BY <1>1, <1>7, <2>6, CliStep, HostParts DEF bounds
<1>8. CASE At(r, "swapped") /\ binary' = run[r].old /\ run' = [run EXCEPT ![r] = Idle]
  <2>1. AllRunsOK(run') BY <1>8, IdleOK, OneRun, HostParts
  <2>2. run[r].old \in Releases \cup {"none"} BY <1>2, <1>3, <1>8 DEF RunOK, At
  <2> QED BY <1>1, <1>8, <2>1, <2>2, CliStep, HostParts DEF bounds
<1> QED BY <1>6, <1>7, <1>8 DEF InstallBinary

LEMMA StepWriteConfig == ASSUME HostInv, NEW r \in Runs, WriteConfig(r) PROVE HostInv'
<1>1. UNCHANGED <<windows, binary, identity, unit, agentVars, meddled, bounds>>
  BY DEF WriteConfig
<1>2. run[r].pc \in {"configure", "writing"} BY DEF WriteConfig, At
<1>3. run[r].cmd # "seturl" /\ run[r].url \in Urls
  BY <1>2, HostParts DEF AllRunsOK, RunOK
<1>4. AllRunsOK(run')
  BY <1>3, GoToOK, HostParts DEF WriteConfig, Pcs
<1>5. Torn("torn") \in ConfigStates /\ Torn("torn").place = "standard"
  BY DEF ConfigStates, Torn
<1>6. Config(run[r].url, "standard") \in ConfigStates
        /\ Config(run[r].url, "standard").place = "standard"
  BY <1>3 DEF ConfigStates, Config, Places
<1>7. config' \in ConfigStates /\ config'.place = "standard"
  BY <1>5, <1>6 DEF WriteConfig
<1> QED BY <1>1, <1>4, <1>7, StandardKept, CliStep, HostParts DEF bounds

(* Steps of an install at which the run keeps nothing it still needs.             *)
LEMMA InstallGoes ==
    ASSUME HostInv, NEW r \in Runs, run[r].cmd # "seturl",
           NEW pc \in {"unit", "defining", "recovery", "enable", "restart", "stopwait",
                       "start", "wait", "settle", "waitStopped"}
    PROVE  AllRunsOK(GoTo(r, pc))
BY GoToOK, HostParts DEF Pcs

LEMMA NoSetUrl ==
    ASSUME HostInv, NEW r \in Runs, run[r].pc \notin {"replace", "restart", "done"}
    PROVE  run[r].cmd # "seturl"
BY HostParts DEF AllRunsOK, RunOK

LEMMA StepWriteUnit == ASSUME HostInv, NEW r \in Runs, WriteUnit(r) PROVE HostInv'
<1>1. UNCHANGED <<windows, diskVars, agentVars, meddled, bounds>> BY DEF WriteUnit
<1>2. run[r].cmd # "seturl" BY NoSetUrl DEF WriteUnit, At
<1>3. AllRunsOK(run') BY <1>2, InstallGoes DEF WriteUnit
<1>4. [unit EXCEPT !.text = "whole"] \in UnitStates BY HostParts DEF UnitStates
<1>5. [unit EXCEPT !.text = "torn", !.boot = @ \/ windows] \in UnitStates
  <2>1. PICK b \in BOOLEAN : b = (unit.boot \/ windows) OBVIOUS
  <2>2. [unit EXCEPT !.text = "torn", !.boot = b] \in UnitStates
    BY HostParts DEF UnitStates
  <2> QED BY <2>1, <2>2
<1>6. unit' \in UnitStates BY <1>4, <1>5, HostParts DEF WriteUnit
<1> QED BY <1>1, <1>3, <1>6, CliStep, HostParts DEF diskVars, bounds

LEMMA StepRecovery == ASSUME HostInv, NEW r \in Runs, ApplyRecovery(r) PROVE HostInv'
<1>1. run[r].cmd # "seturl" BY NoSetUrl DEF ApplyRecovery, At
<1>2. AllRunsOK(run') BY <1>1, InstallGoes DEF ApplyRecovery
<1>3. unit' \in UnitStates BY HostParts DEF ApplyRecovery, UnitStates
<1> QED BY <1>2, <1>3, CliStep, HostParts DEF ApplyRecovery, diskVars, bounds

LEMMA StepEnable == ASSUME HostInv, NEW r \in Runs, Enable(r) PROVE HostInv'
<1>1. run[r].cmd # "seturl" BY NoSetUrl DEF Enable, At
<1>2. AllRunsOK(run') BY <1>1, InstallGoes DEF Enable
<1>3. unit' \in UnitStates BY HostParts DEF Enable, UnitStates
<1> QED BY <1>2, <1>3, CliStep, HostParts DEF Enable, diskVars, bounds

(* What set-url writes back is the place it read, still one of those kept.        *)
LEMMA StepReplaceUrl == ASSUME HostInv, NEW r \in Runs, ReplaceUrl(r) PROVE HostInv'
<1>1. run[r].pc = "replace" BY DEF ReplaceUrl, At
<1>2. run[r].url \in Urls /\ run[r].old \in Kept
  BY <1>1, HostParts DEF AllRunsOK, RunOK
<1>3. AllRunsOK(run') BY GoToOK, HostParts DEF ReplaceUrl, Pcs
<1>4. config' \in ConfigStates /\ config'.place \in Kept
  BY <1>2, StandardKept DEF ReplaceUrl, ConfigStates, Config
<1> QED BY <1>3, <1>4, CliStep, HostParts DEF ReplaceUrl, bounds

---------------------------------------------------------------------------
(* The service, as the CLI asks for it.                                       *)

LEMMA RestartedOK ==
    ASSUME HostInv, NEW r \in Runs PROVE AllRunsOK(Restarted(r))
BY InstallGoes, DoneOK, HostParts DEF Restarted

LEMMA StepSystemdRestart ==
    ASSUME HostInv, NEW r \in Runs, SystemdRestart(r) PROVE HostInv'
<1>1. Fork(Restarted(r)) /\ respawned' = FALSE
        /\ UNCHANGED <<windows, diskVars, unit, meddled, bounds>>
  BY DEF SystemdRestart
<1>2. AllRunsOK(Restarted(r)) BY RestartedOK
<1>3. /\ AllRunsOK(run') /\ announced' = announced
      /\ agent' \in AgentStates /\ agent'.place \in Kept /\ agent'.st = "forked"
      /\ log' \subseteq {"ok", "fail"} \X {"now", "before"}
  BY <1>1, <1>2, ForkOK
<1> QED BY <1>1, <1>3, HostParts, ProcessStep DEF bounds

(* The SCM is told to stop the agent's process.                                *)
LEMMA StoppingOK ==
    ASSUME HostInv, agent' = [agent EXCEPT !.st = "stopping"]
    PROVE  agent' \in AgentStates /\ agent'.place \in Kept /\ agent'.st = "stopping"
BY HostParts DEF AgentStates

LEMMA StepScmRestart == ASSUME HostInv, NEW r \in Runs, ScmRestart(r) PROVE HostInv'
<1>1. /\ UNCHANGED <<windows, diskVars, unit, respawned, log, announced, meddled, bounds>>
      /\ run[r].cmd # "seturl"
  BY DEF ScmRestart
<1>2. CASE agent' = [agent EXCEPT !.st = "stopping"] /\ run' = GoTo(r, "stopwait")
  BY <1>1, <1>2, StoppingOK, InstallGoes, HostParts, ProcessStep DEF bounds
<1>3. CASE run' = GoTo(r, "start") /\ UNCHANGED agent
  <2>1. AllRunsOK(run') BY <1>1, <1>3, InstallGoes
  <2> QED BY <1>1, <1>3, <2>1, CliStep, HostParts DEF agentVars, diskVars, bounds
<1> QED BY <1>2, <1>3 DEF ScmRestart

LEMMA StepAwait == ASSUME HostInv, NEW r \in Runs, Await(r) PROVE HostInv'
<1>1. run[r].cmd # "seturl" BY NoSetUrl DEF Await, At
<1>2. AllRunsOK(run') BY <1>1, InstallGoes DEF Await
<1> QED BY <1>2, CliStep, HostParts DEF Await, diskVars, bounds

LEMMA StepScmStart == ASSUME HostInv, NEW r \in Runs, ScmStart(r) PROVE HostInv'
<1>1. run[r].cmd # "seturl" BY NoSetUrl DEF ScmStart, At
<1>2. Fork(GoTo(r, "wait"))
        /\ UNCHANGED <<windows, diskVars, unit, respawned, meddled, bounds>>
  BY DEF ScmStart
<1>3. AllRunsOK(GoTo(r, "wait")) BY <1>1, InstallGoes
<1>4. /\ AllRunsOK(run') /\ announced' = announced
      /\ agent' \in AgentStates /\ agent'.place \in Kept /\ agent'.st = "forked"
      /\ log' \subseteq {"ok", "fail"} \X {"now", "before"}
  BY <1>2, <1>3, ForkOK
<1> QED BY <1>2, <1>4, HostParts, ProcessStep DEF bounds

LEMMA StepPlainStart == ASSUME HostInv, NEW r \in Runs, PlainStart(r) PROVE HostInv'
<1>1. run[r].cmd # "seturl" BY NoSetUrl DEF PlainStart, At
<1>2. AllRunsOK(GoTo(r, "wait")) BY <1>1, InstallGoes
<1>3. UNCHANGED <<windows, diskVars, unit, meddled, bounds>> BY DEF PlainStart
<1>4. CASE run' = GoTo(r, "wait") /\ UNCHANGED agentVars
  BY <1>2, <1>3, <1>4, CliStep, HostParts DEF diskVars, bounds
<1>5. CASE Fork(GoTo(r, "wait")) /\ respawned' = FALSE
  <2>1. /\ AllRunsOK(run') /\ announced' = announced
        /\ agent' \in AgentStates /\ agent'.place \in Kept /\ agent'.st = "forked"
        /\ log' \subseteq {"ok", "fail"} \X {"now", "before"}
    BY <1>2, <1>5, ForkOK
  <2> QED BY <1>3, <1>5, <2>1, HostParts, ProcessStep DEF bounds
<1> QED BY <1>4, <1>5 DEF PlainStart

LEMMA StepPlainStop == ASSUME HostInv, NEW r \in Runs, PlainStop(r) PROVE HostInv'
<1>1. run[r].cmd # "seturl" BY NoSetUrl DEF PlainStop, At
<1>2. UNCHANGED <<windows, diskVars, unit, meddled, bounds>> BY DEF PlainStop
<1>3. AllRunsOK(Done(r, FALSE)) /\ AllRunsOK(GoTo(r, "waitStopped"))
  BY <1>1, InstallGoes, DoneOK, HostParts
<1>4. CASE Exits("stopped") /\ run' = Done(r, FALSE)
  BY <1>2, <1>3, <1>4, ExitsOK, HostParts, ProcessStep DEF bounds
<1>5. CASE /\ agent' = [agent EXCEPT !.st = "stopping"] /\ run' = GoTo(r, "waitStopped")
           /\ UNCHANGED <<respawned, log, announced>>
  BY <1>2, <1>3, <1>5, StoppingOK, HostParts, ProcessStep DEF bounds
<1>6. CASE run' = Done(r, FALSE) /\ UNCHANGED agentVars
  BY <1>2, <1>3, <1>6, CliStep, HostParts DEF diskVars, bounds
<1> QED BY <1>4, <1>5, <1>6 DEF PlainStop

LEMMA StepWaitActive == ASSUME HostInv, NEW r \in Runs, WaitActive(r) PROVE HostInv'
<1>1. PICK q : q = run[r] OBVIOUS
<1>2. RunOK(q) BY <1>1, HostParts DEF AllRunsOK
<1>3. q.cmd # "seturl" BY <1>1, NoSetUrl DEF WaitActive, At
<1>4. PICK s : s = [q EXCEPT !.pc = "settle", !.saw = "this"] OBVIOUS
<1>5. s \in RunStates /\ s.pc = "settle" /\ s.cmd = q.cmd
  BY <1>2, <1>4 DEF RunOK, RunStates, Pcs
<1>6. RunOK(s) BY <1>3, <1>5 DEF RunOK
<1>7. run' = Done(r, FALSE) \/ run' = [run EXCEPT ![r] = s]
  BY <1>1, <1>4 DEF WaitActive
<1>8. AllRunsOK(run') BY <1>6, <1>7, OneRun, DoneOK, HostParts
<1> QED BY <1>8, CliStep, HostParts DEF WaitActive, diskVars, bounds

LEMMA StepSettle == ASSUME HostInv, NEW r \in Runs, Settle(r) PROVE HostInv'
<1>1. PICK seen : run' = Done(r, Reads(seen)) BY DEF Settle
<1>2. Reads(seen) \in BOOLEAN BY DEF Reads
<1>3. AllRunsOK(run') BY <1>1, <1>2, DoneOK, HostParts
<1> QED BY <1>3, CliStep, HostParts DEF Settle, diskVars, bounds

---------------------------------------------------------------------------
LEMMA NextHost == HostInv /\ [AgentHostNext]_vars => HostInv'
<1> SUFFICES ASSUME HostInv, [AgentHostNext]_vars PROVE HostInv' OBVIOUS
<1>1. CASE Respawn \/ Boot \/ SaveIdentity \/ Connect \/ Disconnect \/ Crash \/ Reboot
             \/ Stopped \/ Meddle
  BY <1>1, StepRespawn, StepBoot, StepSaveIdentity, StepConnect, StepDisconnect, StepCrash,
     StepReboot, StepStopped, StepMeddle
<1>2. ASSUME NEW r \in Runs, Step(r) PROVE HostInv'
  BY <1>2, StepInstallBinary, StepWriteConfig, StepWriteUnit, StepRecovery, StepEnable,
     StepReplaceUrl, StepSystemdRestart, StepScmRestart, StepAwait, StepScmStart,
     StepPlainStart, StepPlainStop, StepWaitActive, StepSettle DEF Step
<1>3. ASSUME NEW r \in Runs, Command(r) \/ Stop(r) PROVE HostInv'
  BY <1>3, StepCommand, StepStop
<1>4. CASE UNCHANGED vars
  BY <1>4, CliStep, HostParts DEF vars, diskVars, bounds
<1> QED BY <1>1, <1>2, <1>3, <1>4 DEF AgentHostNext

(* The invariant of the host holds from its first install on: what is on disk, the  *)
(* agent and the CLI's processes have their types, and the identity is kept.        *)
THEOREM HostInvariance == AgentHostSpec => []HostInv
BY InitHost, NextHost, PTL DEF AgentHostSpec

(* Every state of the host, the agent and the CLI's processes has its type, through *)
(* every kill, crash and reboot.                                              *)
THEOREM HostTypeCorrect == AgentHostSpec => []AgentHostTypeOK
BY HostTypes, HostInvariance, PTL

(* A host has told the platform at most one identity, and it is the one on disk,   *)
(* until somebody moves the file.                                             *)
THEOREM HostIsOne == AgentHostSpec => []OneIdentity
<1>1. HostInv => OneIdentity BY DEF HostInv, IdentityKept, OneIdentity
<1> QED BY <1>1, HostInvariance, PTL

---------------------------------------------------------------------------
(* What a command that has the host to itself has done so far.                  *)

(* The places in an install's program, by what is behind it: the binary has been  *)
(* replaced, config.yaml written, the service defined, enabled and restarted.     *)
Looking == {"wait", "settle"}
Enabled == {"restart", "stopwait", "start"} \cup Looking
Defined == {"recovery", "enable"} \cup Enabled
Configured == {"unit", "defining"} \cup Defined
Copied == {"configure", "writing"} \cup Configured

(* The process of the agent, if there is one, is of the build and the platform    *)
(* that were installed.                                                       *)
Serves(r) ==
    /\ Active => agent.build = run[r].v
    /\ agent.st \in {"creating", "ready", "online"} =>
         agent.url = run[r].url /\ agent.place = "standard"
    /\ agent.st \in {"ready", "online"} => agent.id = identity["standard"]

(* The process noted by the first look is the one that runs, or a restart shows.   *)
Noted(r) ==
    /\ run[r].saw \in {"this", "gone"}
    /\ (~windows /\ run[r].saw = "gone") => respawned

Laid(r) ==
    /\ run[r].pc \in {"binary", "swapped"} \cup Copied
    /\ run[r].pc \in Copied => binary = run[r].v
    /\ run[r].pc \in Configured => config = Config(run[r].url, "standard")
    /\ run[r].pc \in Defined => unit.text = "whole"
    /\ run[r].pc \in Enabled => unit.boot
    /\ run[r].pc \in Looking => Serves(r)
    /\ run[r].pc = "settle" => Noted(r)

Rewritten(r) == At(r, "restart") => config = Config(run[r].url, run[r].old)

Sole(r) == \A o \in Runs \ {r} : ~Busy(o)

Progress(r) ==
    /\ Sole(r)
    /\ Installing(r) => Laid(r)
    /\ run[r].cmd = "seturl" => Rewritten(r)

AloneInv == \A r \in Runs : (Busy(r) /\ run[r].alone) => Progress(r)

(* A run as a step leaves it, but for what it saw of the agent's process.         *)
SameRun(p, q) ==
    /\ q.pc = p.pc /\ q.cmd = p.cmd /\ q.v = p.v /\ q.url = p.url /\ q.old = p.old
    /\ q.alone = p.alone

LEMMA GoToIs ==
    ASSUME HostInv, NEW r \in Runs, NEW pc
    PROVE  /\ GoTo(r, pc)[r].pc = pc
           /\ GoTo(r, pc)[r].cmd = run[r].cmd /\ GoTo(r, pc)[r].v = run[r].v
           /\ GoTo(r, pc)[r].url = run[r].url /\ GoTo(r, pc)[r].old = run[r].old
           /\ GoTo(r, pc)[r].saw = run[r].saw /\ GoTo(r, pc)[r].alone = run[r].alone
           /\ \A o \in Runs \ {r} : GoTo(r, pc)[o] = run[o]
BY HostParts DEF AllRunsOK, RunStates, GoTo

LEMMA DoneIs ==
    ASSUME HostInv, NEW r \in Runs, NEW connected \in BOOLEAN
    PROVE  /\ Done(r, connected)[r].pc = "done"
           /\ Done(r, connected)[r].alone = run[r].alone
           /\ \A o \in Runs \ {r} : Done(r, connected)[o] = run[o]
BY HostParts DEF AllRunsOK, RunStates, Done

LEMMA OutdateIs ==
    ASSUME NEW runs \in [Runs -> RunStates], NEW a \in Runs
    PROVE  /\ SameRun(runs[a], Outdate(runs)[a])
           /\ runs[a].saw # "this" => Outdate(runs)[a].saw = runs[a].saw
           /\ runs[a].saw = "this" => Outdate(runs)[a].saw = "gone"
<1>1. PICK q : q = runs[a] OBVIOUS
<1>2. q \in RunStates BY <1>1
<1>3. Outdate(runs)[a] = [q EXCEPT !.saw = IF @ = "this" THEN "gone" ELSE @]
  BY <1>1 DEF Outdate
<1> QED BY <1>1, <1>2, <1>3 DEF RunStates, SameRun

---------------------------------------------------------------------------
(* Steps of the service manager, of the agent and of the operator.              *)

(* A command that is over, or has lost the host to itself, is owed nothing.       *)
LEMMA NobodyAlone ==
    ASSUME \A a \in Runs : Busy(a)' => ~run'[a].alone
    PROVE  AloneInv'
BY DEF AloneInv, Busy

(* A step of another process than the CLI's, which leaves the installation alone.  *)
LEMMA Follows ==
    ASSUME AloneInv, UNCHANGED <<windows, binary, config, unit>>,
           \A a \in Runs : SameRun(run[a], run'[a]),
           \A a \in Runs : (run[a].pc \in Looking /\ Laid(a)) => Serves(a)',
           \A a \in Runs : (run[a].pc = "settle" /\ Laid(a)) => Noted(a)'
    PROVE  AloneInv'
<1> SUFFICES ASSUME NEW a \in Runs, Busy(a)', run'[a].alone PROVE Progress(a)'
  BY DEF AloneInv
<1>1. SameRun(run[a], run'[a]) /\ (\A o \in Runs : Busy(o)' <=> Busy(o))
  BY DEF SameRun, Busy
<1>2. Progress(a) BY <1>1 DEF AloneInv, SameRun
<1>3. Sole(a)' BY <1>1, <1>2 DEF Progress, Sole
<1>4. (run[a].cmd = "seturl" => Rewritten(a))' BY <1>1, <1>2 DEF Progress, Rewritten, At, SameRun
<1>5. ASSUME Installing(a)' PROVE Laid(a)'
  <2>1. Laid(a) BY <1>1, <1>2, <1>5 DEF Progress, Installing, SameRun
  <2>2. run[a].pc \in Looking => Serves(a)' BY <2>1
  <2>3. run[a].pc = "settle" => Noted(a)' BY <2>1
  <2> QED BY <1>1, <2>1, <2>2, <2>3 DEF Laid, SameRun
<1> QED BY <1>3, <1>4, <1>5 DEF Progress

LEMMA AloneRespawn == ASSUME HostInv, AloneInv, Respawn PROVE AloneInv'
<1>1. /\ UNCHANGED <<windows, binary, config, unit>> /\ run' = Outdate(run) /\ respawned' = TRUE
      /\ agent' = [Down("forked") EXCEPT !.build = binary]
  BY DEF Respawn, Fork, diskVars
<1>2. run \in [Runs -> RunStates] BY HostParts DEF AllRunsOK
<1>3. \A a \in Runs : SameRun(run[a], run'[a]) BY <1>1, <1>2, OutdateIs
<1>4. agent'.st = "forked" /\ agent'.build = binary BY <1>1 DEF Down
<1>5. ASSUME NEW a \in Runs, run[a].pc \in Looking, Laid(a) PROVE Serves(a)'
  <2>1. binary = run[a].v BY <1>5 DEF Laid, Copied, Configured, Defined, Enabled
  <2> QED BY <1>3, <1>4, <2>1 DEF Serves, SameRun, Active
<1>6. ASSUME NEW a \in Runs, run[a].pc = "settle", Laid(a) PROVE Noted(a)'
  <2>1. run[a].saw \in {"this", "gone"} BY <1>6 DEF Laid, Noted
  <2>2. run'[a].saw = "gone" BY <1>1, <1>2, <2>1, OutdateIs
  <2> QED BY <1>1, <2>2 DEF Noted
<1> QED BY <1>1, <1>3, <1>5, <1>6, Follows

(* A step that leaves the CLI's processes as they are.                           *)
LEMMA Bystander ==
    ASSUME AloneInv, UNCHANGED <<windows, binary, config, unit, respawned, run>>,
           \A a \in Runs : (run[a].pc \in Looking /\ Laid(a)) => Serves(a)'
    PROVE  AloneInv'
<1>1. \A a \in Runs : SameRun(run[a], run'[a]) BY DEF SameRun
<1>2. \A a \in Runs : (run[a].pc = "settle" /\ Laid(a)) => Noted(a)' BY DEF Laid, Noted
<1> QED BY <1>1, <1>2, Follows

(* A process that is gone, or on its way, serves what is asked.                    *)
LEMMA ExitServes ==
    ASSUME NEW a \in Runs, agent'.st \in {"stopped", "crashed", "stopping"}
    PROVE  Serves(a)'
BY DEF Serves, Active

LEMMA LaidServes ==
    ASSUME NEW a \in Runs, run[a].pc \in Looking, Laid(a)
    PROVE  /\ Serves(a) /\ binary = run[a].v
           /\ config = Config(run[a].url, "standard") /\ config.url = run[a].url
           /\ config.place = "standard"
BY DEF Laid, Copied, Configured, Defined, Enabled, Config

LEMMA AloneExits ==
    ASSUME HostInv, AloneInv, NEW st \in {"stopped", "crashed"}, Exits(st),
           UNCHANGED <<windows, binary, config, unit, run>>
    PROVE  AloneInv'
<1>1. agent'.st = st BY DEF Exits, Down
<1>2. \A a \in Runs : Serves(a)' BY <1>1, ExitServes
<1> QED BY <1>2, Bystander DEF Exits

LEMMA AloneBoot == ASSUME HostInv, AloneInv, Boot PROVE AloneInv'
<1>1. UNCHANGED <<windows, binary, config, unit, run>> /\ agent.st = "forked" BY DEF Boot
<1>2. agent \in AgentStates BY HostParts
<1>3. CASE Exits("crashed") BY <1>1, <1>3, AloneExits
<1>4. CASE /\ agent' = [agent EXCEPT !.st = "ready", !.url = config.url,
                                     !.place = config.place, !.id = LoadedIdentity]
           /\ UNCHANGED <<respawned, identity>>
  <2>1. /\ agent'.st = "ready" /\ agent'.url = config.url /\ agent'.place = config.place
        /\ agent'.id = LoadedIdentity /\ agent'.build = agent.build
    BY <1>2, <1>4 DEF AgentStates
  <2>2. ASSUME NEW a \in Runs, run[a].pc \in Looking, Laid(a) PROVE Serves(a)'
    <3>1. /\ Serves(a) /\ config.url = run[a].url /\ config.place = "standard"
      BY <2>2, LaidServes
    <3>2. agent.build = run[a].v BY <1>1, <3>1 DEF Serves, Active
    <3> QED BY <1>1, <1>4, <2>1, <3>1, <3>2 DEF Serves, LoadedIdentity
  <2> QED BY <1>1, <1>4, <2>2, Bystander
<1>5. CASE /\ agent' = [agent EXCEPT !.st = "creating", !.url = config.url,
                                     !.place = config.place]
           /\ UNCHANGED respawned
  <2>1. /\ agent'.st = "creating" /\ agent'.url = config.url /\ agent'.place = config.place
        /\ agent'.build = agent.build
    BY <1>2, <1>5 DEF AgentStates
  <2>2. ASSUME NEW a \in Runs, run[a].pc \in Looking, Laid(a) PROVE Serves(a)'
    <3>1. /\ Serves(a) /\ config.url = run[a].url /\ config.place = "standard"
      BY <2>2, LaidServes
    <3>2. agent.build = run[a].v BY <1>1, <3>1 DEF Serves, Active
    <3> QED BY <1>1, <2>1, <3>1, <3>2 DEF Serves
  <2> QED BY <1>1, <1>5, <2>2, Bystander
<1> QED BY <1>3, <1>4, <1>5 DEF Boot

LEMMA AloneSaveIdentity == ASSUME HostInv, AloneInv, SaveIdentity PROVE AloneInv'
<1>1. /\ UNCHANGED <<windows, binary, config, unit, respawned, run>> /\ agent.st = "creating"
  BY DEF SaveIdentity
<1>2. PICK id \in Ids : /\ agent' = [agent EXCEPT !.st = "ready", !.id = id]
                        /\ identity' = [identity EXCEPT ![agent.place] = id]
  BY DEF SaveIdentity
<1>3. agent \in AgentStates /\ identity \in [Places -> Ids \cup {"absent", "torn"}]
  BY HostParts DEF HostInv, DiskOK
<1>4. /\ agent'.st = "ready" /\ agent'.url = agent.url /\ agent'.place = agent.place
      /\ agent'.build = agent.build /\ agent'.id = id
  BY <1>2, <1>3 DEF AgentStates
<1>5. agent.place = "standard" => identity'["standard"] = id BY <1>2, <1>3 DEF Places
<1>6. ASSUME NEW a \in Runs, run[a].pc \in Looking, Laid(a) PROVE Serves(a)'
  <2>1. Serves(a) BY <1>6, LaidServes
  <2> QED BY <1>1, <1>4, <1>5, <2>1 DEF Serves, Active
<1> QED BY <1>1, <1>6, Bystander

LEMMA AloneSession == ASSUME HostInv, AloneInv, Connect \/ Disconnect PROVE AloneInv'
<1>1. /\ UNCHANGED <<windows, binary, config, unit, respawned, run, identity>>
      /\ agent.st \in {"ready", "online"}
  BY DEF Connect, Disconnect, diskVars
<1>2. agent' = [agent EXCEPT !.st = "online"] \/ agent' = [agent EXCEPT !.st = "ready"]
  BY DEF Connect, Disconnect
<1>3. agent \in AgentStates BY HostParts
<1>4. /\ agent'.st \in {"ready", "online"} /\ agent'.url = agent.url
      /\ agent'.place = agent.place /\ agent'.build = agent.build /\ agent'.id = agent.id
  BY <1>2, <1>3 DEF AgentStates
<1>5. ASSUME NEW a \in Runs, run[a].pc \in Looking, Laid(a) PROVE Serves(a)'
  <2>1. Serves(a) BY <1>5, LaidServes
  <2> QED BY <1>1, <1>4, <2>1 DEF Serves, Active
<1> QED BY <1>1, <1>5, Bystander

LEMMA AloneReboot == ASSUME HostInv, AloneInv, Reboot PROVE AloneInv'
<1>1. PICK none : none = [r \in Runs |-> IF Busy(r) THEN Idle ELSE run[r]] OBVIOUS
<1>2. none \in [Runs -> RunStates]
  BY <1>1, HostParts, IdleOK DEF AllRunsOK, RunOK
<1>3. run' = none \/ run' = Outdate(none) BY <1>1 DEF Reboot, Fork
<1>4. \A a \in Runs : none[a].pc \in {"idle", "done"} BY <1>1 DEF Busy, Idle
<1>5. \A a \in Runs : run'[a].pc = none[a].pc BY <1>2, <1>3, OutdateIs DEF SameRun
<1> QED BY <1>4, <1>5, NobodyAlone DEF Busy

LEMMA AloneMeddle == ASSUME HostInv, AloneInv, Meddle PROVE AloneInv'
<1>1. ASSUME NEW a \in Runs PROVE Busy(a)' => ~run'[a].alone
  <2>1. PICK q : q = run[a] OBVIOUS
  <2>2. q \in RunStates BY <2>1, HostParts DEF AllRunsOK
  <2>3. PICK b \in BOOLEAN : b = (q.alone /\ ~Busy(a)) BY <2>2 DEF RunStates
  <2>4. run'[a] = [q EXCEPT !.alone = b] BY <2>1, <2>3 DEF Meddle
  <2>5. run'[a].pc = q.pc /\ run'[a].alone = b BY <2>2, <2>4 DEF RunStates
  <2> QED BY <2>1, <2>3, <2>5 DEF Busy
<1> QED BY <1>1, NobodyAlone

---------------------------------------------------------------------------
(* Steps of the CLI.                                                          *)

(* A command that starts: alone only if no other is under way, and then with       *)
(* everything still to do.                                                     *)
LEMMA Starts ==
    ASSUME HostInv, AloneInv, NEW r \in Runs, NEW started, RunOK(started), Start(r, started),
           started.cmd \in {"install", "update"} => started.pc = "binary",
           started.cmd = "seturl" => started.pc = "replace"
    PROVE  AloneInv'
<1>1. PICK others : others = {o \in Runs \ {r} : Busy(o)} OBVIOUS
<1>2. /\ ~Busy(r)
      /\ run' = [o \in Runs |->
                   IF o = r THEN [started EXCEPT !.alone = (others = {})]
                   ELSE [run[o] EXCEPT !.alone = @ /\ o \notin others]]
  BY <1>1 DEF Start
<1>3. /\ run'[r].pc = started.pc /\ run'[r].cmd = started.cmd
      /\ run'[r].alone = (others = {})
  <2>1. PICK b \in BOOLEAN : b = (others = {}) OBVIOUS
  <2>2. run'[r] = [started EXCEPT !.alone = b] BY <1>2, <2>1
  <2>3. started \in RunStates BY DEF RunOK
  <2> QED BY <2>1, <2>2, <2>3 DEF RunStates
<1>4. ASSUME NEW o \in Runs \ {r}
      PROVE  run'[o].pc = run[o].pc /\ (run'[o].alone => o \notin others)
  <2>1. PICK q : q = run[o] OBVIOUS
  <2>2. q \in RunStates BY <2>1, HostParts DEF AllRunsOK
  <2>3. PICK b \in BOOLEAN : b = (q.alone /\ o \notin others) BY <2>2 DEF RunStates
  <2>4. run'[o] = [q EXCEPT !.alone = b] BY <1>2, <2>1, <2>3
  <2>5. run'[o].pc = q.pc /\ run'[o].alone = b BY <2>2, <2>4 DEF RunStates
  <2> QED BY <2>1, <2>3, <2>5
<1> SUFFICES ASSUME NEW a \in Runs, Busy(a)', run'[a].alone PROVE Progress(a)'
  BY DEF AloneInv
<1>5. CASE a # r BY <1>1, <1>4, <1>5 DEF Busy
<1>6. CASE a = r
  <2>1. Sole(a)' BY <1>1, <1>3, <1>4, <1>6 DEF Sole, Busy
  <2>2. (Installing(a) => Laid(a))'
    BY <1>3, <1>6 DEF Installing, Laid, Copied, Configured, Defined, Enabled, Looking
  <2>3. (run[a].cmd = "seturl" => Rewritten(a))' BY <1>3, <1>6 DEF Rewritten, At
  <2> QED BY <2>1, <2>2, <2>3 DEF Progress
<1> QED BY <1>5, <1>6

LEMMA AloneCommand == ASSUME HostInv, AloneInv, NEW r \in Runs, Command(r) PROVE AloneInv'
<1>1. ASSUME NEW v \in Releases, NEW url \in Urls,
             \/ Start(r, [Idle EXCEPT !.pc = "binary", !.cmd = "install", !.v = v, !.url = url])
             \/ Start(r, [Idle EXCEPT !.pc = "binary", !.cmd = "update", !.v = v, !.url = url])
      PROVE  AloneInv'
  <2>1. PICK i, u :
          /\ i = [Idle EXCEPT !.pc = "binary", !.cmd = "install", !.v = v, !.url = url]
          /\ u = [Idle EXCEPT !.pc = "binary", !.cmd = "update", !.v = v, !.url = url]
    OBVIOUS
  <2>2. RunOK(i) /\ RunOK(u) /\ i.cmd = "install" /\ u.cmd = "update"
          /\ i.pc = "binary" /\ u.pc = "binary"
    BY <2>1 DEF RunOK, RunStates, Idle, Pcs
  <2> QED BY <1>1, <2>1, <2>2, Starts
<1>2. ASSUME NEW url \in Urls, SetUrl(r, url) PROVE AloneInv'
  <2>1. config.place \in Kept /\ config.place \in Places BY HostParts, StandardKept
  <2>2. PICK s : s = [Idle EXCEPT !.pc = "replace", !.cmd = "seturl", !.url = url,
                                  !.old = config.place]
    OBVIOUS
  <2>3. RunOK(s) /\ s.cmd = "seturl" /\ s.pc = "replace"
    BY <2>1, <2>2 DEF RunOK, RunStates, Idle, Pcs
  <2> QED BY <1>2, <2>2, <2>3, Starts DEF SetUrl
<1>3. ASSUME NEW pc \in {"plainStart", "plainStop", "restart"}, Service(r, pc) PROVE AloneInv'
  <2>1. PICK s : s = [Idle EXCEPT !.pc = pc, !.cmd = "service"] OBVIOUS
  <2>2. RunOK(s) /\ s.cmd = "service" BY <2>1 DEF RunOK, RunStates, Idle, Pcs
  <2> QED BY <1>3, <2>1, <2>2, Starts DEF Service
<1>4. ReadServerURL # "none" => ReadServerURL \in Urls
  BY HostParts DEF ReadServerURL, ConfigStates, Torn, Config
<1>5. ASSUME NEW v \in Releases, Update(r, v) PROVE AloneInv'
  BY <1>1, <1>4, <1>5 DEF Update
<1>6. ASSUME NEW v \in Releases, NEW url \in Urls, Install(r, v, url) PROVE AloneInv'
  BY <1>1, <1>6 DEF Install
<1> QED BY <1>2, <1>3, <1>5, <1>6 DEF Command

(* A step of one command: no other has the host to itself, so what matters is what *)
(* the command that took it is owed next.                                      *)
LEMMA Acts ==
    ASSUME AloneInv, NEW r \in Runs, Busy(r), run'[r].alone => run[r].alone,
           \A o \in Runs \ {r} : run'[o].pc = run[o].pc /\ run'[o].alone = run[o].alone,
           (Progress(r) /\ run[r].alone /\ Busy(r)' /\ Installing(r)') => Laid(r)',
           (Progress(r) /\ run[r].alone /\ Busy(r)' /\ run'[r].cmd = "seturl") => Rewritten(r)'
    PROVE  AloneInv'
<1> SUFFICES ASSUME NEW a \in Runs, Busy(a)', run'[a].alone PROVE Progress(a)'
  BY DEF AloneInv
<1>1. CASE a # r
  <2>1. Busy(a) /\ run[a].alone BY <1>1 DEF Busy
  <2>2. Sole(a) BY <2>1 DEF AloneInv, Progress
  <2> QED BY <1>1, <2>2 DEF Sole
<1>2. CASE a = r
  <2>1. Progress(r) /\ run[r].alone BY <1>2 DEF AloneInv
  <2>2. Sole(a)' BY <1>2, <2>1 DEF Progress, Sole, Busy
  <2> QED BY <1>2, <2>1, <2>2 DEF Progress
<1> QED BY <1>1, <1>2

(* The command ends, or is killed.                                              *)
LEMMA Ends ==
    ASSUME HostInv, AloneInv, NEW r \in Runs, Busy(r),
           (run' = [run EXCEPT ![r] = Idle]) \/ (\E c \in BOOLEAN : run' = Done(r, c))
    PROVE  AloneInv'
<1>1. run \in [Runs -> RunStates] BY HostParts DEF AllRunsOK
<1>2. run'[r].pc \in {"idle", "done"} /\ (run'[r].alone => run[r].alone)
  BY <1>1, DoneIs DEF Idle
<1>3. \A o \in Runs \ {r} : run'[o].pc = run[o].pc /\ run'[o].alone = run[o].alone
  BY <1>1, DoneIs
<1> QED BY <1>2, <1>3, Acts DEF Busy

(* It goes on.                                                                *)
LEMMA Goes ==
    ASSUME HostInv, AloneInv, NEW r \in Runs, Busy(r), NEW pc, run' = GoTo(r, pc),
           (Laid(r) /\ Installing(r)) => Laid(r)',
           (Rewritten(r) /\ run[r].cmd = "seturl") => Rewritten(r)'
    PROVE  AloneInv'
<1>1. /\ run'[r].cmd = run[r].cmd /\ run'[r].alone = run[r].alone
      /\ \A o \in Runs \ {r} : run'[o] = run[o]
  BY GoToIs
<1> QED BY <1>1, Acts DEF Progress, Installing

LEMMA AloneStop == ASSUME HostInv, AloneInv, NEW r \in Runs, Stop(r) PROVE AloneInv'
BY Ends DEF Stop

LEMMA AloneInstallBinary ==
    ASSUME HostInv, AloneInv, NEW r \in Runs, InstallBinary(r) PROVE AloneInv'
<1>1. UNCHANGED <<windows, config, unit, agent>> /\ run[r].pc \in {"binary", "swapped"}
  BY DEF InstallBinary, At, agentVars
<1>2. Busy(r) /\ run[r].cmd # "seturl" BY <1>1, NoSetUrl DEF Busy
<1>3. CASE run' = GoTo(r, "configure") /\ binary' = run[r].v
  <2>1. run'[r].pc = "configure" /\ run'[r].v = run[r].v BY <1>3, GoToIs
  <2>2. Laid(r)'
    BY <1>3, <2>1 DEF Laid, Copied, Configured, Defined, Enabled, Looking
  <2> QED BY <1>2, <1>3, <2>2, Goes
<1>4. CASE run' = [run EXCEPT ![r].pc = "swapped", ![r].old = binary]
  <2>1. PICK q : q = run[r] OBVIOUS
  <2>2. q \in RunStates /\ run \in [Runs -> RunStates]
    BY <2>1, HostParts DEF AllRunsOK
  <2>3. PICK s : s = [q EXCEPT !.pc = "swapped", !.old = binary] OBVIOUS
  <2>4. s.pc = "swapped" /\ s.cmd = q.cmd /\ s.alone = q.alone BY <2>2, <2>3 DEF RunStates
  <2>5. run' = [run EXCEPT ![r] = s] BY <1>4, <2>1, <2>3
  <2>6. run'[r] = s /\ \A o \in Runs \ {r} : run'[o] = run[o] BY <2>2, <2>5
  <2>7. Laid(r)'
    BY <2>4, <2>6 DEF Laid, Copied, Configured, Defined, Enabled, Looking
  <2> QED BY <1>2, <2>1, <2>4, <2>6, <2>7, Acts
<1>5. CASE run' = [run EXCEPT ![r] = Idle] BY <1>2, <1>5, Ends
<1> QED BY <1>3, <1>4, <1>5 DEF InstallBinary

(* The sets of places, opened.                                                  *)
LEMMA Behind ==
    /\ Copied = {"configure", "writing", "unit", "defining", "recovery", "enable", "restart",
                 "stopwait", "start", "wait", "settle"}
    /\ Configured = {"unit", "defining", "recovery", "enable", "restart", "stopwait", "start",
                     "wait", "settle"}
    /\ Defined = {"recovery", "enable", "restart", "stopwait", "start", "wait", "settle"}
    /\ Enabled = {"restart", "stopwait", "start", "wait", "settle"}
    /\ Looking = {"wait", "settle"}
BY DEF Copied, Configured, Defined, Enabled, Looking

LEMMA AloneWriteConfig ==
    ASSUME HostInv, AloneInv, NEW r \in Runs, WriteConfig(r) PROVE AloneInv'
<1>1. UNCHANGED <<windows, binary, unit, agent>> /\ run[r].pc \in {"configure", "writing"}
  BY DEF WriteConfig, At, agentVars
<1>2. Busy(r) /\ run[r].cmd # "seturl" BY <1>1, NoSetUrl DEF Busy
<1>3. CASE At(r, "configure") /\ run' = GoTo(r, "writing")
  <2>1. run'[r].pc = "writing" /\ run'[r].v = run[r].v BY <1>3, GoToIs
  <2>2. Laid(r) => Laid(r)' BY <1>1, <1>3, <2>1, Behind DEF Laid, At
  <2> QED BY <1>2, <1>3, <2>2, Goes
<1>4. CASE At(r, "writing") /\ run' = GoTo(r, "unit") /\ config' = Config(run[r].url, "standard")
  <2>1. run'[r].pc = "unit" /\ run'[r].v = run[r].v /\ run'[r].url = run[r].url
    BY <1>4, GoToIs
  <2>2. Laid(r) => Laid(r)' BY <1>1, <1>4, <2>1, Behind DEF Laid, At
  <2> QED BY <1>2, <1>4, <2>2, Goes
<1> QED BY <1>3, <1>4 DEF WriteConfig

LEMMA AloneWriteUnit ==
    ASSUME HostInv, AloneInv, NEW r \in Runs, WriteUnit(r) PROVE AloneInv'
<1>1. UNCHANGED <<windows, binary, config, agent>> /\ run[r].pc \in {"unit", "defining"}
  BY DEF WriteUnit, At, agentVars, diskVars
<1>2. Busy(r) /\ run[r].cmd # "seturl" BY <1>1, NoSetUrl DEF Busy
<1>3. unit \in UnitStates BY HostParts
<1>4. ASSUME NEW pc \in {"defining", "recovery", "enable"}, run' = GoTo(r, pc),
             pc # "defining" => unit'.text = "whole"
      PROVE  AloneInv'
  <2>1. run'[r].pc = pc /\ run'[r].v = run[r].v /\ run'[r].url = run[r].url
    BY <1>4, GoToIs
  <2>2. Laid(r) => Laid(r)' BY <1>1, <1>4, <2>1, Behind DEF Laid
  <2> QED BY <1>2, <1>4, <2>2, Goes
<1>5. CASE UnitUnchanged /\ run' = GoTo(r, "enable") /\ UNCHANGED unit
  BY <1>4, <1>5 DEF UnitUnchanged
<1>6. CASE run' = GoTo(r, "defining") BY <1>4, <1>6
<1>7. CASE /\ unit' = [unit EXCEPT !.text = "whole"]
           /\ run' = GoTo(r, IF windows THEN "recovery" ELSE "enable")
  <2>1. unit'.text = "whole" BY <1>3, <1>7 DEF UnitStates
  <2>2. CASE windows BY <1>4, <1>7, <2>1, <2>2
  <2>3. CASE ~windows BY <1>4, <1>7, <2>1, <2>3
  <2> QED BY <2>2, <2>3
<1> QED BY <1>5, <1>6, <1>7 DEF WriteUnit

LEMMA AloneRecovery ==
    ASSUME HostInv, AloneInv, NEW r \in Runs, ApplyRecovery(r) PROVE AloneInv'
<1>1. UNCHANGED <<windows, binary, config, agent>> /\ run[r].pc = "recovery"
        /\ run' = GoTo(r, "enable") /\ unit' = [unit EXCEPT !.recovery = TRUE]
  BY DEF ApplyRecovery, At, agentVars, diskVars
<1>2. Busy(r) /\ run[r].cmd # "seturl" BY <1>1, NoSetUrl DEF Busy
<1>3. unit'.text = unit.text BY <1>1, HostParts DEF UnitStates
<1>4. run'[r].pc = "enable" /\ run'[r].v = run[r].v /\ run'[r].url = run[r].url
  BY <1>1, GoToIs
<1>5. Laid(r) => Laid(r)' BY <1>1, <1>3, <1>4, Behind DEF Laid
<1> QED BY <1>1, <1>2, <1>5, Goes

LEMMA AloneEnable == ASSUME HostInv, AloneInv, NEW r \in Runs, Enable(r) PROVE AloneInv'
<1>1. UNCHANGED <<windows, binary, config, agent>> /\ run[r].pc = "enable"
        /\ run' = GoTo(r, "restart") /\ unit' = [unit EXCEPT !.boot = TRUE]
  BY DEF Enable, At, agentVars, diskVars
<1>2. Busy(r) /\ run[r].cmd # "seturl" BY <1>1, NoSetUrl DEF Busy
<1>3. unit'.text = unit.text /\ unit'.boot BY <1>1, HostParts DEF UnitStates
<1>4. run'[r].pc = "restart" /\ run'[r].v = run[r].v /\ run'[r].url = run[r].url
  BY <1>1, GoToIs
<1>5. Laid(r) => Laid(r)' BY <1>1, <1>3, <1>4, Behind DEF Laid
<1> QED BY <1>1, <1>2, <1>5, Goes

LEMMA AloneReplaceUrl ==
    ASSUME HostInv, AloneInv, NEW r \in Runs, ReplaceUrl(r) PROVE AloneInv'
<1>1. /\ run[r].pc = "replace" /\ run' = GoTo(r, "restart")
      /\ config' = Config(run[r].url, run[r].old)
  BY DEF ReplaceUrl, At
<1>2. Busy(r) /\ run[r].cmd = "seturl" BY <1>1, HostParts DEF AllRunsOK, RunOK, Busy
<1>3. /\ run'[r].pc = "restart" /\ run'[r].url = run[r].url /\ run'[r].old = run[r].old
  BY <1>1, GoToIs
<1>4. Rewritten(r)' BY <1>1, <1>3 DEF Rewritten
<1> QED BY <1>1, <1>2, <1>4, Goes DEF Installing

---------------------------------------------------------------------------
(* The service, as the CLI asks for it.                                       *)

(* The command's own restart: the process that starts is of what it installed.     *)
LEMMA Forks ==
    ASSUME HostInv, AloneInv, NEW r \in Runs, run[r].pc \in {"restart", "start", "plainStart"},
           run[r].cmd # "seturl", Fork(GoTo(r, "wait")), UNCHANGED <<windows, diskVars, unit>>
    PROVE  AloneInv'
<1>1. PICK runs : runs = GoTo(r, "wait") OBVIOUS
<1>2. runs \in [Runs -> RunStates] /\ run' = Outdate(runs)
  BY <1>1, InstallGoes DEF AllRunsOK, Fork
<1>3. \A o \in Runs : SameRun(runs[o], run'[o]) BY <1>2, OutdateIs
<1>4. /\ run'[r].pc = "wait" /\ run'[r].cmd = run[r].cmd /\ run'[r].v = run[r].v
      /\ run'[r].url = run[r].url /\ run'[r].alone = run[r].alone
      /\ \A o \in Runs \ {r} : run'[o].pc = run[o].pc /\ run'[o].alone = run[o].alone
  BY <1>1, <1>3, GoToIs DEF SameRun
<1>5. agent'.st = "forked" /\ agent'.build = binary BY DEF Fork, Down
<1>6. ASSUME Laid(r) PROVE Laid(r)'
  <2>1. Serves(r)' BY <1>4, <1>5, <1>6, Behind DEF Serves, Laid, Active
  <2> QED BY <1>4, <1>6, <2>1, Behind DEF Laid, diskVars
<1>7. Busy(r) BY DEF Busy
<1> QED BY <1>4, <1>6, <1>7, Acts DEF Progress, Installing

LEMMA AloneSystemdRestart ==
    ASSUME HostInv, AloneInv, NEW r \in Runs, SystemdRestart(r) PROVE AloneInv'
<1>1. /\ Fork(Restarted(r)) /\ UNCHANGED <<windows, diskVars, unit>> /\ run[r].pc = "restart"
  BY DEF SystemdRestart, At
<1>2. CASE run[r].cmd # "seturl" BY <1>1, <1>2, Forks DEF Restarted
<1>3. CASE run[r].cmd = "seturl"
  <2>1. PICK runs : runs = Done(r, FALSE) OBVIOUS
  <2>2. runs \in [Runs -> RunStates] /\ run' = Outdate(runs)
    BY <1>1, <1>3, <2>1, DoneOK, HostParts DEF AllRunsOK, Fork, Restarted
  <2>3. \A o \in Runs : SameRun(runs[o], run'[o]) BY <2>2, OutdateIs
  <2>4. /\ run'[r].pc = "done" /\ run'[r].alone = run[r].alone
        /\ \A o \in Runs \ {r} : run'[o].pc = run[o].pc /\ run'[o].alone = run[o].alone
    <3>1. /\ runs[r].pc = "done" /\ runs[r].alone = run[r].alone
          /\ \A o \in Runs \ {r} : runs[o] = run[o]
      BY <2>1, DoneIs
    <3> QED BY <2>3, <3>1 DEF SameRun
  <2> QED BY <1>1, <2>4, Acts DEF Busy
<1> QED BY <1>2, <1>3

(* A step of the CLI between two looks at the service.                           *)
LEMMA Waits ==
    ASSUME HostInv, AloneInv, NEW r \in Runs, run[r].cmd # "seturl",
           run[r].pc \in {"restart", "stopwait", "plainStop"},
           NEW pc \in {"stopwait", "start", "waitStopped"}, run' = GoTo(r, pc),
           pc = "waitStopped" => run[r].pc = "plainStop", UNCHANGED <<windows, diskVars, unit>>
    PROVE  AloneInv'
<1>1. /\ run'[r].pc = pc /\ run'[r].v = run[r].v /\ run'[r].url = run[r].url BY GoToIs
<1>2. Laid(r) => Laid(r)' BY <1>1, Behind DEF Laid, diskVars
<1> QED BY <1>2, Goes DEF Busy

LEMMA AloneScmRestart ==
    ASSUME HostInv, AloneInv, NEW r \in Runs, ScmRestart(r) PROVE AloneInv'
BY Waits DEF ScmRestart, At

LEMMA AloneAwait == ASSUME HostInv, AloneInv, NEW r \in Runs, Await(r) PROVE AloneInv'
<1>1. run[r].cmd # "seturl" BY NoSetUrl DEF Await, At
<1> QED BY <1>1, Waits DEF Await, At

LEMMA AloneScmStart == ASSUME HostInv, AloneInv, NEW r \in Runs, ScmStart(r) PROVE AloneInv'
<1>1. run[r].cmd # "seturl" BY NoSetUrl DEF ScmStart, At
<1> QED BY <1>1, Forks DEF ScmStart, At

LEMMA AlonePlainStart ==
    ASSUME HostInv, AloneInv, NEW r \in Runs, PlainStart(r) PROVE AloneInv'
<1>1. /\ run[r].pc = "plainStart" /\ UNCHANGED <<windows, diskVars, unit>>
  BY DEF PlainStart, At
<1>2. run[r].cmd # "seturl" BY <1>1, NoSetUrl
<1>3. CASE run' = GoTo(r, "wait")
  <2>1. ~Laid(r) BY <1>1, Behind DEF Laid
  <2> QED BY <1>1, <1>2, <1>3, <2>1, Goes DEF Busy
<1>4. CASE Fork(GoTo(r, "wait")) BY <1>1, <1>2, <1>4, Forks
<1> QED BY <1>3, <1>4 DEF PlainStart

LEMMA AlonePlainStop ==
    ASSUME HostInv, AloneInv, NEW r \in Runs, PlainStop(r) PROVE AloneInv'
<1>1. /\ run[r].pc \in {"plainStop", "waitStopped"} /\ UNCHANGED <<windows, diskVars, unit>>
  BY DEF PlainStop, At
<1>2. Busy(r) /\ run[r].cmd # "seturl" BY <1>1, NoSetUrl DEF Busy
<1>3. CASE run' = Done(r, FALSE) BY <1>2, <1>3, Ends
<1>4. CASE At(r, "plainStop") /\ run' = GoTo(r, "waitStopped")
  BY <1>1, <1>2, <1>4, Waits DEF At
<1> QED BY <1>3, <1>4 DEF PlainStop

LEMMA AloneWaitActive ==
    ASSUME HostInv, AloneInv, NEW r \in Runs, WaitActive(r) PROVE AloneInv'
<1>1. run[r].pc = "wait" /\ UNCHANGED <<windows, diskVars, unit, agentVars>>
  BY DEF WaitActive, At
<1>2. Busy(r) /\ run[r].cmd # "seturl" BY <1>1, NoSetUrl DEF Busy
<1>3. CASE run' = Done(r, FALSE) BY <1>2, <1>3, Ends
<1>4. CASE run' = [run EXCEPT ![r].pc = "settle", ![r].saw = "this"]
  <2>1. PICK q : q = run[r] OBVIOUS
  <2>2. q \in RunStates /\ run \in [Runs -> RunStates]
    BY <2>1, HostParts DEF AllRunsOK
  <2>3. PICK s : s = [q EXCEPT !.pc = "settle", !.saw = "this"] OBVIOUS
  <2>4. /\ s.pc = "settle" /\ s.cmd = q.cmd /\ s.alone = q.alone /\ s.v = q.v
        /\ s.url = q.url /\ s.saw = "this"
    BY <2>2, <2>3 DEF RunStates
  <2>5. run' = [run EXCEPT ![r] = s] BY <1>4, <2>1, <2>3
  <2>6. run'[r] = s /\ \A o \in Runs \ {r} : run'[o] = run[o] BY <2>2, <2>5
  <2>7. ASSUME Laid(r) PROVE Laid(r)'
    <3>1. Serves(r)' BY <1>1, <2>1, <2>4, <2>6, <2>7, Behind
      DEF Laid, Serves, Active, diskVars, agentVars
    <3>2. Noted(r)' BY <2>4, <2>6 DEF Noted
    <3> QED BY <1>1, <2>1, <2>4, <2>6, <2>7, <3>1, <3>2, Behind DEF Laid, diskVars
  <2> QED BY <1>2, <2>1, <2>4, <2>6, <2>7, Acts DEF Progress, Installing
<1> QED BY <1>3, <1>4 DEF WaitActive

LEMMA AloneSettle == ASSUME HostInv, AloneInv, NEW r \in Runs, Settle(r) PROVE AloneInv'
<1>1. PICK seen : run' = Done(r, Reads(seen)) BY DEF Settle
<1>2. Reads(seen) \in BOOLEAN BY DEF Reads
<1>3. Busy(r) BY DEF Settle, At, Busy
<1> QED BY <1>1, <1>2, <1>3, Ends

---------------------------------------------------------------------------
LEMMA NextAlone == (HostInv /\ AloneInv) /\ [AgentHostNext]_vars => AloneInv'
<1> SUFFICES ASSUME HostInv, AloneInv, [AgentHostNext]_vars PROVE AloneInv' OBVIOUS
<1>1. CASE Crash \/ Stopped BY <1>1, AloneExits DEF Crash, Stopped, diskVars
<1>2. CASE Respawn \/ Boot \/ SaveIdentity \/ Connect \/ Disconnect \/ Reboot \/ Meddle
  BY <1>2, AloneRespawn, AloneBoot, AloneSaveIdentity, AloneSession, AloneReboot, AloneMeddle
<1>3. ASSUME NEW r \in Runs, Step(r) PROVE AloneInv'
  BY <1>3, AloneInstallBinary, AloneWriteConfig, AloneWriteUnit, AloneRecovery, AloneEnable,
     AloneReplaceUrl, AloneSystemdRestart, AloneScmRestart, AloneAwait, AloneScmStart,
     AlonePlainStart, AlonePlainStop, AloneWaitActive, AloneSettle DEF Step
<1>4. ASSUME NEW r \in Runs, Command(r) \/ Stop(r) PROVE AloneInv'
  BY <1>4, AloneCommand, AloneStop
<1>5. CASE UNCHANGED vars
  BY <1>5 DEF vars, diskVars, agentVars, AloneInv, Progress, Busy, Sole, Installing, Laid,
     Rewritten, At, Serves, Noted, Active
<1> QED BY <1>1, <1>2, <1>3, <1>4, <1>5 DEF AgentHostNext

LEMMA InitAlone == AgentHostInit => AloneInv
BY DEF AgentHostInit, AloneInv, Busy, Idle

(* A run of the CLI that has had the host to itself has, at each of its steps, done  *)
(* what the steps before promise (Installer.Install, verify, config --set-url).      *)
THEOREM AloneInvariance == AgentHostSpec => [](HostInv /\ AloneInv)
BY InitHost, NextHost, InitAlone, NextAlone, PTL DEF AgentHostSpec

---------------------------------------------------------------------------
(* A command reports success only with a step of its own.                        *)
LEMMA Completing ==
    ASSUME HostInv, [AgentHostNext]_vars, NEW r \in Runs, Completes(r)
    PROVE  Settle(r) \/ PlainStop(r) \/ WaitActive(r) \/ SystemdRestart(r)
<1>1. run'[r].pc = "done" /\ Busy(r) /\ run'[r].pc # run[r].pc BY DEF Completes, Busy
<1>2. run \in [Runs -> RunStates] BY HostParts DEF AllRunsOK
<1>3. run' # run BY <1>1
<1>4. ~(Boot \/ SaveIdentity \/ Connect \/ Disconnect \/ Crash \/ Stopped)
  BY <1>3 DEF Boot, SaveIdentity, Connect, Disconnect, Crash, Stopped
<1>5. ~Respawn BY <1>1, <1>2, OutdateIs DEF Respawn, Fork, SameRun
<1>6. ~Reboot
  <2>1. PICK none : none = [o \in Runs |-> IF Busy(o) THEN Idle ELSE run[o]] OBVIOUS
  <2>2. none \in [Runs -> RunStates]
    BY <2>1, HostParts, IdleOK DEF AllRunsOK, RunOK
  <2>3. none[r].pc = "idle" BY <1>1, <2>1 DEF Idle
  <2>4. Reboot => run' = none \/ run' = Outdate(none) BY <2>1 DEF Reboot, Fork
  <2> QED BY <1>1, <2>2, <2>3, <2>4, OutdateIs DEF SameRun
<1>7. ~Meddle
  <2>1. SUFFICES ASSUME Meddle PROVE FALSE OBVIOUS
  <2>2. PICK q : q = run[r] OBVIOUS
  <2>3. q \in RunStates BY <1>2, <2>2
  <2>4. PICK b : b = (q.alone /\ ~Busy(r)) OBVIOUS
  <2>5. run'[r] = [q EXCEPT !.alone = b] BY <2>1, <2>2, <2>4 DEF Meddle
  <2> QED BY <1>1, <2>2, <2>3, <2>5 DEF RunStates
<1>8. PICK o \in Runs : Command(o) \/ Step(o) \/ Stop(o)
  BY <1>3, <1>4, <1>5, <1>6, <1>7 DEF AgentHostNext, vars
<1>9. ASSUME NEW started, Start(o, started) PROVE FALSE
  <2>1. o # r BY <1>1, <1>9 DEF Start
  <2>2. PICK others : others = {p \in Runs \ {o} : Busy(p)} OBVIOUS
  <2>3. PICK q : q = run[r] OBVIOUS
  <2>4. q \in RunStates BY <1>2, <2>3
  <2>5. PICK b : b = (q.alone /\ r \notin others) OBVIOUS
  <2>6. run'[r] = [q EXCEPT !.alone = b] BY <1>9, <2>1, <2>2, <2>3, <2>5 DEF Start
  <2> QED BY <1>1, <2>3, <2>4, <2>6 DEF RunStates
<1>10. ~Command(o) BY <1>9 DEF Command, Update, Install, SetUrl, Service
<1>11. ~Stop(o) BY <1>1, <1>2 DEF Stop, Idle
<1>12. Step(o) BY <1>8, <1>10, <1>11
<1>13. ASSUME NEW pc \in Pcs \ {"done"} PROVE run' # GoTo(o, pc)
  BY <1>1, <1>13, GoToIs
<1>14. ~(InstallBinary(o) \/ WriteConfig(o) \/ WriteUnit(o) \/ ApplyRecovery(o) \/ Enable(o)
           \/ ReplaceUrl(o))
  <2>1. run' # [run EXCEPT ![o].pc = "swapped", ![o].old = binary]
    <3>1. PICK q : q = run[o] OBVIOUS
    <3>2. PICK s : s = [q EXCEPT !.pc = "swapped", !.old = binary] OBVIOUS
    <3>3. s.pc = "swapped" BY <1>2, <3>1, <3>2 DEF RunStates
    <3>4. [run EXCEPT ![o].pc = "swapped", ![o].old = binary] = [run EXCEPT ![o] = s]
      BY <3>1, <3>2
    <3> QED BY <1>1, <1>2, <3>3, <3>4
  <2>2. run' # [run EXCEPT ![o] = Idle] BY <1>1, <1>2 DEF Idle
  <2>3. ~InstallBinary(o) BY <1>13, <2>1, <2>2 DEF InstallBinary, Pcs
  <2>4. ~WriteConfig(o) BY <1>13 DEF WriteConfig, Pcs
  <2>5. ~WriteUnit(o) BY <1>13 DEF WriteUnit, Pcs
  <2> QED BY <1>13, <2>3, <2>4, <2>5 DEF ApplyRecovery, Enable, ReplaceUrl, Pcs
<1>15. ~(ScmRestart(o) \/ Await(o)) BY <1>13 DEF ScmRestart, Await, Pcs
<1>16. ASSUME Fork(GoTo(o, "wait")), run[o].cmd # "seturl" PROVE FALSE
  <2>1. PICK runs : runs = GoTo(o, "wait") OBVIOUS
  <2>2. runs \in [Runs -> RunStates] /\ run' = Outdate(runs)
    BY <1>16, <2>1, InstallGoes DEF AllRunsOK, Fork
  <2>3. run'[r].pc = runs[r].pc BY <2>2, OutdateIs DEF SameRun
  <2> QED BY <1>1, <2>1, <2>3, GoToIs
<1>17. ~(ScmStart(o) \/ PlainStart(o))
  BY <1>13, <1>16, NoSetUrl DEF ScmStart, PlainStart, At, Pcs
<1>18. Settle(o) \/ PlainStop(o) \/ WaitActive(o) \/ SystemdRestart(o)
  BY <1>12, <1>14, <1>15, <1>17 DEF Step
<1>19. o = r
  <2>1. SUFFICES ASSUME o # r PROVE FALSE OBVIOUS
  <2>2. ASSUME NEW c \in BOOLEAN, run' = Done(o, c) PROVE FALSE BY <1>1, <2>1, <2>2, DoneIs
  <2>3. ~Settle(o)
    <3>1. \A seen : Reads(seen) \in BOOLEAN BY DEF Reads
    <3> QED BY <2>2, <3>1 DEF Settle
  <2>4. ~PlainStop(o) BY <1>13, <2>2 DEF PlainStop, Pcs
  <2>5. ~WaitActive(o)
    <3>1. PICK q : q = run[o] OBVIOUS
    <3>2. PICK s : s = [q EXCEPT !.pc = "settle", !.saw = "this"] OBVIOUS
    <3>3. [run EXCEPT ![o].pc = "settle", ![o].saw = "this"] = [run EXCEPT ![o] = s]
      BY <3>1, <3>2
    <3> QED BY <1>1, <1>2, <2>1, <2>2, <3>3 DEF WaitActive
  <2>6. Fork(Restarted(o)) BY <1>18, <2>3, <2>4, <2>5 DEF SystemdRestart
  <2>7. run' = Outdate(Restarted(o)) /\ Restarted(o) \in [Runs -> RunStates]
    BY <2>6, RestartedOK DEF Fork, AllRunsOK
  <2>8. Restarted(o)[r] = run[r]
    <3>1. GoTo(o, "wait")[r] = run[r] BY <1>1, <2>1, GoToIs
    <3>2. Done(o, FALSE)[r] = run[r] BY <1>1, <2>1, DoneIs
    <3> QED BY <3>1, <3>2 DEF Restarted
  <2> QED BY <1>1, <2>7, <2>8, OutdateIs DEF SameRun
<1> QED BY <1>18, <1>19

(* Whatever earlier commands left behind, an install or update that reports success *)
(* has repaired it: what was asked for is on disk and, if an agent runs, is what    *)
(* runs (installer.go and waitActive's second look).                            *)
THEOREM InstallIsInUse == AgentHostSpec => InstalledIsRunning
<1>1. ASSUME HostInv, AloneInv, [AgentHostNext]_vars
      PROVE  [\A r \in Runs : Completes(r) /\ Installing(r) =>
                /\ binary = run[r].v /\ config = Config(run[r].url, "standard")
                /\ unit.text = "whole" /\ unit.boot
                /\ Active => /\ agent.build = run[r].v /\ agent.url = run[r].url
                             /\ agent.id = identity["standard"] /\ run[r].saw = "this"]_vars
  <2> SUFFICES ASSUME NEW r \in Runs, Completes(r), Installing(r)
               PROVE  /\ binary = run[r].v /\ config = Config(run[r].url, "standard")
                      /\ unit.text = "whole" /\ unit.boot
                      /\ Active => /\ agent.build = run[r].v /\ agent.url = run[r].url
                                   /\ agent.id = identity["standard"] /\ run[r].saw = "this"
    OBVIOUS
  <2>1. Laid(r) BY <1>1 DEF Completes, AloneInv, Progress
  <2>2. ~(PlainStop(r) \/ WaitActive(r) \/ SystemdRestart(r))
    <3>1. ~PlainStop(r) BY <2>1, Behind DEF PlainStop, Laid, At
    <3>2. ~WaitActive(r)
      <4>1. PICK q : q = run[r] OBVIOUS
      <4>2. PICK s : s = [q EXCEPT !.pc = "settle", !.saw = "this"] OBVIOUS
      <4>3. q \in RunStates /\ run \in [Runs -> RunStates]
        BY <1>1, <4>1, HostParts DEF AllRunsOK
      <4>4. s.pc = "settle" BY <4>2, <4>3 DEF RunStates
      <4>5. [run EXCEPT ![r].pc = "settle", ![r].saw = "this"] = [run EXCEPT ![r] = s]
        BY <4>1, <4>2
      <4> QED BY <4>3, <4>4, <4>5 DEF WaitActive, Completes, Installing
    <3>3. ~SystemdRestart(r)
      <4>1. SUFFICES ASSUME SystemdRestart(r) PROVE FALSE OBVIOUS
      <4>2. run' = Outdate(GoTo(r, "wait")) /\ run[r].cmd # "seturl"
        BY <4>1 DEF SystemdRestart, Fork, Restarted, Installing
      <4>3. GoTo(r, "wait") \in [Runs -> RunStates] BY <1>1, <4>2, InstallGoes DEF AllRunsOK
      <4> QED BY <1>1, <4>2, <4>3, GoToIs, OutdateIs DEF SameRun, Completes
    <3> QED BY <3>1, <3>2, <3>3
  <2>3. Settle(r) BY <1>1, <2>2, Completing
  <2>4. /\ run[r].pc = "settle" /\ agent.st \in {"ready", "online"} /\ ~Restarts(r)
    BY <2>3 DEF Settle, At
  <2> QED BY <2>1, <2>4, Behind DEF Laid, Serves, Noted, Restarts, Active
<1> QED BY <1>1, AloneInvariance, PTL DEF AgentHostSpec, InstalledIsRunning

(* Once `config --set-url` reports success, a process that has yet to read its files *)
(* is the only one, the file has the new platform, and the identity is where it was. *)
THEOREM NewUrlIsInUse == AgentHostSpec => ChangedUrlIsUsed
<1>1. ASSUME HostInv, AloneInv, [AgentHostNext]_vars
      PROVE  [\A r \in Runs : Completes(r) /\ run[r].cmd = "seturl" =>
                /\ config.url = run[r].url /\ config.place = run[r].old
                /\ agent'.st = "forked" /\ identity' = identity]_vars
  <2> SUFFICES ASSUME NEW r \in Runs, Completes(r), run[r].cmd = "seturl"
               PROVE  /\ config.url = run[r].url /\ config.place = run[r].old
                      /\ agent'.st = "forked" /\ identity' = identity
    OBVIOUS
  <2>1. run[r].pc \in {"replace", "restart"}
    BY <1>1, HostParts DEF AllRunsOK, RunOK, Completes, Busy
  <2>2. SystemdRestart(r)
    BY <1>1, <2>1, Completing DEF Settle, PlainStop, WaitActive, At
  <2>3. Rewritten(r) BY <1>1 DEF Completes, AloneInv, Progress
  <2>4. config = Config(run[r].url, run[r].old) BY <2>2, <2>3 DEF Rewritten, SystemdRestart
  <2>5. agent'.st = "forked" /\ identity' = identity
    BY <2>2 DEF SystemdRestart, Fork, Down, diskVars
  <2> QED BY <2>4, <2>5 DEF Config
<1> QED BY <1>1, AloneInvariance, PTL DEF AgentHostSpec, ChangedUrlIsUsed
===============================================================================
