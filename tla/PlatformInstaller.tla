------------------------- MODULE PlatformInstaller ------------------------
(***************************************************************************)
(* The platform half of the docksight CLI: `docksight install` and            *)
(* `docksight update`, what they leave on the host, and what the next run      *)
(* makes of it when one was killed or failed half way.                        *)
(*                                                                         *)
(* A run is one process of the CLI.  An action is what it does between two     *)
(* effects another process, a kill or a power loss could come between.  Nothing *)
(* in the code keeps two runs apart, so any number may be active.              *)
(***************************************************************************)
EXTENDS Naturals, Sequences

CONSTANTS
    Runs,         \* processes of the CLI
    Releases,     \* published releases
    MaxCommands   \* bound: commands ever started

(* The part of a bundle that matters, in the order filepath.Walk copies it:   *)
(* .env.example, default.conf, dockersight-installation.yml.                  *)
Files == <<"example", "conf", "compose">>
FileNames == {"example", "conf", "compose"}

(* What is not the content of a release: no file; one that was truncated and  *)
(* not written.                                                              *)
Contents == Releases \cup {"absent", "torn"}

ASSUME InstallerAssumption ==
    /\ Releases \cap {"absent", "torn", "none"} = {}
    /\ MaxCommands \in Nat

VARIABLES
    file,        \* file[f]: content of bundle file f in the installation directory
    env,         \* the generated .env
    volume,      \* the password the database volume was created with
    stack,       \* the containers: release of their definitions, nginx's, the server's
                 \* password
    cli,         \* the binary at the path of the CLI: its version
    aside,       \* the binary moved to <path>.old
    host,        \* of PATH entry, protected .env and open port, those in place
    recorded,    \* state.json
    run,         \* run[r]: where the process is
    overlapped,  \* history: two runs have been active at once
    commands     \* commands started

filesVars == <<file, env>>
stackVars == <<volume, stack>>
cliVars == <<cli, aside>>
vars == <<file, env, volume, stack, cli, aside, host, recorded, run, overlapped, commands>>

Versions == Releases \cup {"none"}
Down == [defs |-> "none", conf |-> "absent", creds |-> "none"]

(* A .env is whole, with the passwords generated for it, or empty: created and  *)
(* not written.                                                              *)
EnvStates == {"absent", "empty", "whole"}

(* What the compose file makes of POSTGRES_PASSWORD, which only a whole .env     *)
(* sets: for the database it has a default, for the server's DATABASE_URL none.  *)
DatabasePassword == IF env = "whole" THEN "generated" ELSE "default"
ServerPassword == IF env = "whole" THEN "generated" ELSE "blank"
Passwords == {"none", "default", "blank", "generated"}

Phases ==
    {"idle", "fetchCli", "swap", "moveAside", "swapAgain", "path", "latest", "fetch",
     "copy", "copying", "env", "rendering", "protect", "firewall", "down", "up", "wait",
     "load", "save"}

Idle ==
    [pc |-> "idle", cmd |-> "none", v |-> "none", own |-> "none", wants |-> {}, todo |-> {},
     i |-> 1, seen |-> [cli |-> "none", platform |-> "none"], alone |-> FALSE]

Active(r) == run[r].pc # "idle"
Whole(v) == \A f \in FileNames : file[f] = v

RunTypeOK ==
    run \in [Runs -> [pc : Phases, cmd : {"none", "install", "update"}, v : Versions,
                      own : Versions, wants : SUBSET {"cli", "platform"},
                      todo : SUBSET {"cli", "platform"}, i : 1..Len(Files),
                      seen : [cli : Versions, platform : Versions], alone : BOOLEAN]]

(* Every variable has its type; in particular no run copies past the last     *)
(* file of the bundle.                                                       *)
InstallerTypeOK ==
    /\ file \in [FileNames -> Contents]
    /\ env \in EnvStates /\ volume \in Passwords
    /\ stack \in [defs : Versions, conf : Contents, creds : Passwords]
    /\ cli \in Versions /\ aside \in Versions
    /\ host \subseteq {"path", "secret", "port"}
    /\ recorded \in [cli : Versions, platform : Versions]
    /\ RunTypeOK
    /\ overlapped \in BOOLEAN /\ commands \in 0..MaxCommands

InstallerInit ==
    /\ file = [f \in FileNames |-> "absent"]
    /\ env = "absent" /\ volume = "none"
    /\ stack = Down
    /\ cli = "none" /\ aside = "none"
    /\ host = {}
    /\ recorded = [cli |-> "none", platform |-> "none"]
    /\ run = [r \in Runs |-> Idle]
    /\ overlapped = FALSE
    /\ commands = 0

---------------------------------------------------------------------------
(* Starting and stopping.                                                   *)

Start(r, started) ==
    /\ ~Active(r) /\ commands < MaxCommands
    /\ commands' = commands + 1
    /\ LET others == {o \in Runs \ {r} : Active(o)}
       IN  /\ overlapped' = (overlapped \/ others # {})
           /\ run' = [o \in Runs |->
                        IF o = r THEN [started EXCEPT !.alone = (others = {})]
                        ELSE IF o \in others THEN [run[o] EXCEPT !.alone = FALSE]
                        ELSE run[o]]

(* `docksight install`, by the binary of a release run from anywhere, or by   *)
(* the installed one, which is then not copied onto itself.                   *)
Install(r, own, fromPath) ==
    /\ fromPath => own = cli
    /\ Start(r, [Idle EXCEPT !.pc = IF fromPath THEN "path" ELSE "swap",
                             !.cmd = "install", !.own = own,
                             !.wants = {"cli", "platform"}, !.todo = {"cli", "platform"}])
    /\ UNCHANGED <<filesVars, stackVars, cliVars, host, recorded>>

FirstStep(todo) ==
    IF "cli" \in todo THEN "fetchCli" ELSE IF "platform" \in todo THEN "fetch" ELSE "idle"

(* What update still has to do: what the record says is at v is left alone.   *)
Outdated(wants, v) == {w \in wants : recorded[w] # v}

(* `docksight update` to release v: the record is read once, here.            *)
Update(r, v, wants, force) ==
    /\ LET todo == IF force THEN wants ELSE Outdated(wants, v)
       IN  Start(r, [Idle EXCEPT !.pc = FirstStep(todo), !.cmd = "update", !.v = v,
                                 !.own = v, !.wants = wants, !.todo = todo])
    /\ UNCHANGED <<filesVars, stackVars, cliVars, host, recorded>>

(* Run r goes on to phase `pc`.                                              *)
Goto(r, pc) == run' = [run EXCEPT ![r].pc = pc]
Ends(r) == run' = [run EXCEPT ![r] = Idle]
At(r, pc) == run[r].pc = pc

(* The process is killed, or a step that has changed nothing returns an error. *)
Stop(r) ==
    /\ Active(r) /\ Ends(r)
    /\ UNCHANGED <<filesVars, stackVars, cliVars, host, recorded, overlapped, commands>>

(* The host loses power and comes back: the processes are gone, the containers *)
(* are started again as they were defined, and nginx reads its file anew.      *)
Reboot ==
    /\ run' = [r \in Runs |-> Idle]
    /\ stack' = IF stack = Down THEN Down ELSE [stack EXCEPT !.conf = file["conf"]]
    /\ UNCHANGED <<filesVars, volume, cliVars, host, recorded, overlapped, commands>>

---------------------------------------------------------------------------
(* The CLI binary.                                                          *)

FetchCli(r) ==
    /\ At(r, "fetchCli") /\ Goto(r, "swap")
    /\ UNCHANGED <<filesVars, stackVars, cliVars, host, recorded, overlapped, commands>>

AfterSwap(r) == IF run[r].cmd = "install" THEN "path" ELSE "load"

(* The staged copy is complete and is renamed over the installed binary.      *)
Swap(r) ==
    /\ At(r, "swap") /\ Goto(r, AfterSwap(r))
    /\ cli' = run[r].own
    /\ UNCHANGED <<filesVars, stackVars, aside, host, recorded, overlapped, commands>>

(* The system refuses to rename onto a binary that is open.                   *)
SwapRefused(r) ==
    /\ At(r, "swap") /\ Goto(r, "moveAside")
    /\ UNCHANGED <<filesVars, stackVars, cliVars, host, recorded, overlapped, commands>>

(* os.Remove(previous), then the rename of the installed binary, if there is  *)
(* one and it may be renamed.                                                *)
MoveAside(r) ==
    /\ At(r, "moveAside")
    /\ \/ cli # "none" /\ aside' = cli /\ cli' = "none" /\ Goto(r, "swapAgain")
       \/ aside' = "none" /\ UNCHANGED cli /\ Ends(r)
    /\ UNCHANGED <<filesVars, stackVars, host, recorded, overlapped, commands>>

(* The staged copy takes the free name, and the old binary goes unless it is  *)
(* still running; or it cannot, and the old binary is put back if that works.  *)
SwapAgain(r) ==
    /\ At(r, "swapAgain")
    /\ \/ cli' = run[r].own /\ aside' \in {aside, "none"} /\ Goto(r, AfterSwap(r))
       \/ aside # "none" /\ cli' = aside /\ aside' = "none" /\ Ends(r)
    /\ UNCHANGED <<filesVars, stackVars, host, recorded, overlapped, commands>>

EnsureOnPath(r) ==
    /\ At(r, "path") /\ Goto(r, "latest")
    /\ host' = host \cup {"path"}
    /\ UNCHANGED <<filesVars, stackVars, cliVars, recorded, overlapped, commands>>

---------------------------------------------------------------------------
(* The platform bundle.                                                     *)

LatestRelease(r, v) ==
    /\ At(r, "latest")
    /\ run' = [run EXCEPT ![r].v = v, ![r].pc = "fetch"]
    /\ UNCHANGED <<filesVars, stackVars, cliVars, host, recorded, overlapped, commands>>

(* Download, verify and extract into a private directory; create the          *)
(* installation directories.                                                 *)
Fetch(r) ==
    /\ At(r, "fetch")
    /\ Goto(r, "copy")
    /\ UNCHANGED <<filesVars, stackVars, cliVars, host, recorded, overlapped, commands>>

(* CopyFile truncates the file, then writes it.                               *)
CreateFile(r) ==
    /\ At(r, "copy") /\ Goto(r, "copying")
    /\ file' = [file EXCEPT ![Files[run[r].i]] = "torn"]
    /\ UNCHANGED <<env, stackVars, cliVars, host, recorded, overlapped, commands>>

(* Mutant: the last file is not recognised.                                  *)
CopiedPastTheEnd(r) ==
    IF run[r].i > Len(Files) THEN Goto(r, "env")
    ELSE run' = [run EXCEPT ![r].i = @ + 1, ![r].pc = "copy"]

Copied(r) ==
    IF run[r].i = Len(Files) THEN run' = [run EXCEPT ![r].i = 1, ![r].pc = "env"]
    ELSE run' = [run EXCEPT ![r].i = @ + 1, ![r].pc = "copy"]

WriteFile(r) ==
    /\ At(r, "copying") /\ Copied(r)
    /\ file' = [file EXCEPT ![Files[run[r].i]] = run[r].v]
    /\ UNCHANGED <<env, stackVars, cliVars, host, recorded, overlapped, commands>>

(* A failed write removes the file.                                          *)
WriteFileFails(r) ==
    /\ At(r, "copying") /\ Ends(r)
    /\ file' = [file EXCEPT ![Files[run[r].i]] = "absent"]
    /\ UNCHANGED <<env, stackVars, cliVars, host, recorded, overlapped, commands>>

AfterEnv(r) == IF run[r].cmd = "install" THEN "firewall" ELSE "down"

(* Mutant: the file is created whether or not it exists.                      *)
GenerateEnvAlways(r) ==
    /\ At(r, "env") /\ Goto(r, "rendering") /\ env' = "empty"
    /\ UNCHANGED <<file, stackVars, cliVars, host, recorded, overlapped, commands>>

(* Without a template nothing is generated; an existing .env is kept; else    *)
(* O_EXCL makes this run its only writer.                                     *)
GenerateEnv(r) ==
    /\ At(r, "env")
    /\ \/ file["example"] = "absent" /\ Goto(r, AfterEnv(r)) /\ UNCHANGED env
       \/ file["example"] # "absent" /\ env # "absent" /\ Goto(r, "protect") /\ UNCHANGED env
       \/ file["example"] # "absent" /\ env = "absent" /\ Goto(r, "rendering") /\ env' = "empty"
    /\ UNCHANGED <<file, stackVars, cliVars, host, recorded, overlapped, commands>>

(* The rendered lines are flushed; a template another run is copying is empty. *)
RenderEnv(r) ==
    /\ At(r, "rendering") /\ Goto(r, "protect")
    /\ env' = IF file["example"] \in Releases THEN "whole" ELSE "empty"
    /\ UNCHANGED <<file, stackVars, cliVars, host, recorded, overlapped, commands>>

RenderEnvFails(r) ==
    /\ At(r, "rendering") /\ Ends(r)
    /\ env' = "absent"
    /\ UNCHANGED <<file, stackVars, cliVars, host, recorded, overlapped, commands>>

(* Mutant: a .env that cannot be protected is removed, as one that cannot be   *)
(* written is.                                                               *)
ProtectSecretOrRemove(r) ==
    /\ At(r, "protect")
    /\ \/ Goto(r, AfterEnv(r)) /\ host' = host \cup {"secret"} /\ UNCHANGED env
       \/ Ends(r) /\ env' = "absent" /\ UNCHANGED host
    /\ UNCHANGED <<file, stackVars, cliVars, recorded, overlapped, commands>>

ProtectSecret(r) ==
    /\ At(r, "protect") /\ Goto(r, AfterEnv(r))
    /\ host' = host \cup {"secret"}
    /\ UNCHANGED <<filesVars, stackVars, cliVars, recorded, overlapped, commands>>

OpenFirewall(r) ==
    /\ At(r, "firewall") /\ Goto(r, "up")
    /\ host' = host \cup {"port"}
    /\ UNCHANGED <<filesVars, stackVars, cliVars, recorded, overlapped, commands>>

---------------------------------------------------------------------------
(* The stack.  docker compose reads the compose file and the .env, creates     *)
(* what is missing, and replaces the containers whose definition changed.      *)

(* Mutant: an update starts the stack without taking it down first.           *)
ComposeDownSkipped(r) ==
    /\ At(r, "down") /\ Goto(r, "up")
    /\ UNCHANGED <<filesVars, stackVars, cliVars, host, recorded, overlapped, commands>>

(* Restart first takes the stack down; a down that fails may have done so.     *)
ComposeDown(r) ==
    /\ At(r, "down")
    /\ \/ file["compose"] \in Releases /\ stack' = Down /\ Goto(r, "up")
       \/ stack' \in {stack, Down} /\ Ends(r)
    /\ UNCHANGED <<filesVars, volume, cliVars, host, recorded, overlapped, commands>>

(* nginx's definition does not change from release to release: while it runs   *)
(* it keeps the configuration it read when it was started.                     *)
Started ==
    [defs |-> file["compose"],
     conf |-> IF stack.conf \in Releases THEN stack.conf ELSE file["conf"],
     creds |-> ServerPassword]

(* The database creates its volume on its first start, with the password it is  *)
(* given then and keeps.  An up that fails may have started the containers.      *)
ComposeUp(r) ==
    /\ At(r, "up")
    /\ \/ /\ file["compose"] \in Releases
          /\ stack' = Started
          /\ volume' = IF volume = "none" THEN DatabasePassword ELSE volume
          /\ Goto(r, "wait") \/ Ends(r)
       \/ UNCHANGED stackVars /\ Ends(r)
    /\ UNCHANGED <<filesVars, cliVars, host, recorded, overlapped, commands>>

(* Every container runs and the ones with a health check are healthy: nginx    *)
(* has a configuration, the server has a password and the database takes it.    *)
Ready ==
    /\ stack.defs \in Releases /\ stack.conf \in Releases
    /\ stack.creds = "generated" /\ volume = "generated"

WaitReady(r) ==
    /\ At(r, "wait") /\ Ready /\ Goto(r, "load")
    /\ UNCHANGED <<filesVars, stackVars, cliVars, host, recorded, overlapped, commands>>

---------------------------------------------------------------------------
(* The record.                                                              *)

LoadState(r) ==
    /\ At(r, "load")
    /\ run' = [run EXCEPT ![r].seen = recorded, ![r].pc = "save"]
    /\ UNCHANGED <<filesVars, stackVars, cliVars, host, recorded, overlapped, commands>>

(* The part an update records: the CLI's as soon as that is replaced.         *)
Part(r) == IF "cli" \in run[r].todo THEN "cli" ELSE "platform"

(* Save replaces state.json by a rename, with what was loaded and the change.  *)
SaveState(r) ==
    /\ At(r, "save")
    /\ \/ /\ run[r].cmd = "install"
          /\ recorded' = [cli |-> run[r].own, platform |-> run[r].v]
          /\ Ends(r)
       \/ /\ run[r].cmd = "update"
          /\ recorded' = [run[r].seen EXCEPT ![Part(r)] = run[r].v]
          /\ IF run[r].todo = {"cli", "platform"}
             THEN run' = [run EXCEPT ![r].pc = "fetch", ![r].todo = {"platform"},
                                     ![r].seen = Idle.seen]
             ELSE Ends(r)
    /\ UNCHANGED <<filesVars, stackVars, cliVars, host, overlapped, commands>>

---------------------------------------------------------------------------
Step(r) ==
    \/ FetchCli(r) \/ Swap(r) \/ SwapRefused(r) \/ MoveAside(r) \/ SwapAgain(r)
    \/ EnsureOnPath(r) \/ \E v \in Releases : LatestRelease(r, v)
    \/ Fetch(r) \/ CreateFile(r) \/ WriteFile(r) \/ WriteFileFails(r)
    \/ GenerateEnv(r) \/ RenderEnv(r) \/ RenderEnvFails(r) \/ ProtectSecret(r)
    \/ OpenFirewall(r) \/ ComposeDown(r) \/ ComposeUp(r) \/ WaitReady(r)
    \/ LoadState(r) \/ SaveState(r)

Command(r) ==
    \/ \E own \in Releases, fromPath \in BOOLEAN : Install(r, own, fromPath)
    \/ \E v \in Releases, wants \in {{"cli"}, {"platform"}, {"cli", "platform"}},
          force \in BOOLEAN : Update(r, v, wants, force)

InstallerNext == Reboot \/ \E r \in Runs : Command(r) \/ Step(r) \/ Stop(r)
InstallerSpec == InstallerInit /\ [][InstallerNext]_vars

---------------------------------------------------------------------------
(* Properties.                                                              *)

(* A .env that was completely written is never written or removed again,      *)
(* whatever runs overlap, fail or are killed: env.Generate's O_EXCL, and its    *)
(* removals, which only ever hit the file of the run that is writing it.       *)
EnvNeverRegenerated == [][env = "whole" => env' = "whole"]_vars

(* A database created with the generated password is given a server that has it  *)
(* for good: whatever overlaps, fails or is killed, .env keeps it, and the server *)
(* is never started without it.  And until two runs overlap, a .env that was      *)
(* written serves both: the database was not created before it                  *)
(* (dockersight-installation.yml:68: "Must match the postgres service credentials *)
(* above").                                                                  *)
CredentialsMatch ==
    /\ volume = "generated" => env = "whole" /\ stack.creds # "blank"
    /\ ~overlapped /\ env = "whole" => volume # "default" /\ stack.creds # "blank"

(* NOT so: that the server can always reach its database.  A kill between the      *)
(* creation and the writing of .env leaves it empty, and no later run writes it:   *)
(* the database is created with its default password, the server gets none.  Two   *)
(* runs that overlap do the same without a kill.                               *)
NeverLockedOut == stack # Down => stack.creds = volume

(* The step with which a run that had the host to itself records a platform    *)
(* release.                                                                  *)
Completes(r) ==
    /\ At(r, "save") /\ run[r].alone /\ run'[r].pc = "idle"
    /\ \/ run[r].cmd = "install" /\ recorded' = [cli |-> run[r].own, platform |-> run[r].v]
       \/ run[r].cmd = "update" /\ Part(r) = "platform" /\ recorded'.platform = run[r].v

(* Whatever earlier runs left behind - torn files, a stack half up or down, no *)
(* CLI at its path - a run alone that completes has repaired it: every file is *)
(* of the release recorded, the containers run its definitions and are ready,   *)
(* and after an update (which takes the stack down) nginx has its               *)
(* configuration too.                                                        *)
CompletedIsWhole ==
    [][\A r \in Runs : Completes(r) =>
         /\ Whole(run[r].v) /\ Ready
         /\ stack.defs = run[r].v
         /\ run[r].cmd = "update" => stack.conf = run[r].v
         /\ env = "whole" /\ "secret" \in host
         /\ run[r].cmd = "install" =>
              cli = run[r].own /\ {"path", "port"} \subseteq host]_vars

(* state.go: "PlatformVersion is the release tag of the bundle in the install  *)
(* directory", on which `docksight update` relies when it skips the platform.   *)
SkippedIsInstalled ==
    [][\A r \in Runs :
         /\ ~Active(r) /\ run'[r].cmd = "update" /\ commands' = commands + 1
         /\ "platform" \in run'[r].wants \ run'[r].todo
         /\ \A o \in Runs \ {r} : run'[o] = run[o]
         => Whole(run'[r].v)]_vars

(* Nobody at work, .env is absent or completely written (docs/roadmap.md:       *)
(* "Atomic writes for binaries, `.env` and state files").                     *)
EnvWrittenAtomically == (\A r \in Runs : ~Active(r)) => env \in {"absent", "whole"}
===========================================================================
