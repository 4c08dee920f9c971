---------------------- MODULE PlatformInstallerProofs ---------------------
(***************************************************************************)
(* Proofs about PlatformInstaller, for any number of processes, releases and   *)
(* commands: types, the .env, the credentials, and what a completed run        *)
(* leaves behind.                                                            *)
(***************************************************************************)
EXTENDS PlatformInstaller, TLAPS

---------------------------------------------------------------------------
(* The inductive invariant.                                                 *)

(* A run that copies a bundle knows which release it is of.                   *)
Targeted ==
    \A r \in Runs :
        Active(r) /\ (run[r].cmd # "install" \/ run[r].pc \in {"fetch", "copy", "copying"})
            => run[r].v \in Releases

(* O_EXCL: one run renders the .env, and it is the one that created it.       *)
OneWriter ==
    /\ \A r \in Runs : At(r, "rendering") => env = "empty"
    /\ \A r, o \in Runs : At(r, "rendering") /\ At(o, "rendering") => o = r

(* A run alone is; and until two runs overlap each one is.                    *)
Sole ==
    /\ \A r, o \in Runs : Active(r) /\ run[r].alone /\ Active(o) => o = r
    /\ ~overlapped => \A r \in Runs : Active(r) => run[r].alone

(* What a run alone has achieved when it is at a phase.                       *)
Recording(r) ==
    run[r].pc \in {"load", "save"} /\ (run[r].cmd = "install" \/ Part(r) = "platform")

Starting == {"up", "wait"}
Bundled == {"env", "rendering", "protect", "firewall", "down"} \cup Starting

FilesCopied(r) ==
    /\ run[r].pc \notin {"copy", "copying"} => run[r].i = 1
    /\ run[r].pc \in {"copy", "copying"} =>
        \A j \in 1..3 : j < run[r].i => file[Files[j]] = run[r].v
    /\ run[r].pc \in Bundled \/ Recording(r) => Whole(run[r].v) /\ run[r].v \in Releases

EnvInPlace(r) ==
    /\ run[r].pc \in Bundled \ {"env"} \/ Recording(r) => env # "absent"
    /\ run[r].pc \in Bundled \ {"env", "rendering", "protect"} \/ Recording(r) => "secret" \in host

CliFirst(r) ==
    /\ run[r].cmd # "install" /\ run[r].pc \in {"fetchCli", "swap", "moveAside", "swapAgain"}
        => "cli" \in run[r].todo
    /\ run[r].pc = "firewall" => run[r].cmd = "install"
    /\ run[r].pc = "down" => run[r].cmd # "install"

HostPrepared(r) ==
    run[r].cmd = "install" =>
        /\ run[r].pc \notin {"swap", "moveAside", "swapAgain"} => cli = run[r].own
        /\ run[r].pc \notin {"swap", "moveAside", "swapAgain", "path"} => "path" \in host
        /\ run[r].pc \in Starting \cup {"load", "save"} => "port" \in host

StackStarted(r) ==
    /\ run[r].cmd # "install" /\ run[r].pc = "up" => stack = Down
    /\ run[r].pc = "wait" \/ Recording(r) =>
        /\ stack.defs = run[r].v /\ stack.creds = ServerPassword
        /\ run[r].cmd # "install" => stack.conf = run[r].v
    /\ Recording(r) => Ready

Progress(r) ==
    CliFirst(r) /\ FilesCopied(r) /\ EnvInPlace(r) /\ HostPrepared(r) /\ StackStarted(r)

Progressing == \A r \in Runs : Active(r) /\ run[r].alone => Progress(r)

(* Whoever has the generated password had it from a whole .env, and the server   *)
(* has it when the database does.                                            *)
CredentialsKept ==
    /\ volume = "generated" \/ stack.creds = "generated" => env = "whole"
    /\ volume = "generated" => stack.creds # "blank"

(* Until two runs overlap, what is started is started with the .env there is.    *)
WrittenFirst ==
    ~overlapped =>
        /\ volume # "none" => env # "absent"
        /\ stack.creds # "none" => volume # "none"
        /\ env = "whole" => volume # "default" /\ stack.creds # "blank"
        /\ \A r \in Runs : At(r, "rendering") => volume = "none"

InstallerInv ==
    /\ InstallerTypeOK /\ Targeted /\ OneWriter
    /\ Sole /\ Progressing /\ CredentialsKept /\ WrittenFirst
---------------------------------------------------------------------------
(* Types.                                                                   *)

RunRecords ==
    [pc : Phases, cmd : {"none", "install", "update"}, v : Versions, own : Versions,
     wants : SUBSET {"cli", "platform"}, todo : SUBSET {"cli", "platform"}, i : 1..3,
     seen : [cli : Versions, platform : Versions], alone : BOOLEAN]

LEMMA FileOrder ==
    /\ Len(Files) = 3 /\ Files[1] = "example" /\ Files[2] = "conf" /\ Files[3] = "compose"
    /\ \A i \in 1..3 : Files[i] \in FileNames
    /\ \A i, j \in 1..3 : Files[i] = Files[j] => i = j
    /\ \A f \in FileNames : \E i \in 1..3 : f = Files[i]
BY DEF Files, FileNames

LEMMA RunsTyped == RunTypeOK <=> run \in [Runs -> RunRecords]
BY FileOrder DEF RunTypeOK, RunRecords

LEMMA IdleTyped == Idle \in RunRecords /\ Idle.pc = "idle"
BY DEF Idle, RunRecords, Phases, Versions

LEMMA InitTyped == InstallerInit => InstallerTypeOK /\ Targeted
<1> SUFFICES ASSUME InstallerInit PROVE InstallerTypeOK /\ Targeted
    OBVIOUS
<1>1. RunTypeOK
    BY IdleTyped, RunsTyped DEF InstallerInit
<1>2. file \in [FileNames -> Contents]
    BY DEF InstallerInit, Contents
<1>3. stack \in [defs : Versions, conf : Contents, creds : Passwords]
    BY DEF InstallerInit, Contents, Passwords, Down, Versions
<1>4. recorded \in [cli : Versions, platform : Versions]
    BY DEF InstallerInit, Versions
<1>5. commands \in 0..MaxCommands
    BY InstallerAssumption DEF InstallerInit
<1>6. overlapped \in BOOLEAN
    BY DEF InstallerInit
<1>7. InstallerTypeOK
    BY <1>1, <1>2, <1>3, <1>4, <1>5, <1>6 DEF InstallerInit, InstallerTypeOK, EnvStates,
       Passwords, Versions
<1>8. Targeted
    BY IdleTyped DEF InstallerInit, Targeted, Active
<1> QED
    BY <1>7, <1>8

(* What a step that only moves run r to another phase does to the records.    *)
LEMMA GotoTyped ==
    ASSUME RunTypeOK, NEW r \in Runs, NEW pc \in Phases, Goto(r, pc)
    PROVE  /\ RunTypeOK'
           /\ run'[r] = [run[r] EXCEPT !.pc = pc]
           /\ run'[r].pc = pc /\ run'[r].cmd = run[r].cmd /\ run'[r].v = run[r].v
           /\ run'[r].own = run[r].own /\ run'[r].wants = run[r].wants
           /\ run'[r].todo = run[r].todo /\ run'[r].i = run[r].i
           /\ run'[r].alone = run[r].alone
           /\ \A o \in Runs : o # r => run'[o] = run[o]
<1>1. run \in [Runs -> RunRecords] /\ run[r] \in RunRecords
    BY RunsTyped
<1>2. [run[r] EXCEPT !.pc = pc] \in RunRecords
    BY <1>1 DEF RunRecords
<1>3. run' = [run EXCEPT ![r] = [run[r] EXCEPT !.pc = pc]]
    BY <1>1 DEF Goto
<1>4. run' \in [Runs -> RunRecords]
    BY <1>1, <1>2, <1>3
<1>5. (run \in [Runs -> RunRecords])' => RunTypeOK'
    BY FileOrder DEF RunTypeOK, RunRecords
<1>6. run'[r] = [run[r] EXCEPT !.pc = pc]
    BY <1>1, <1>3
<1>7. \A o \in Runs : o # r => run'[o] = run[o]
    BY <1>1, <1>3
<1> QED
    BY <1>1, <1>4, <1>5, <1>6, <1>7 DEF RunRecords

(* And one that ends it.                                                    *)
LEMMA EndsTyped ==
    ASSUME RunTypeOK, NEW r \in Runs, Ends(r)
    PROVE  /\ RunTypeOK' /\ run'[r] = Idle /\ run'[r].pc = "idle"
           /\ \A o \in Runs : o # r => run'[o] = run[o]
<1>1. run \in [Runs -> RunRecords] /\ run' \in [Runs -> RunRecords]
    BY RunsTyped, IdleTyped DEF Ends
<1> QED
    BY <1>1, IdleTyped, FileOrder DEF Ends, RunTypeOK, RunRecords

(* Every step of a run keeps the types.                                     *)
LEMMA StepTyped ==
    ASSUME InstallerTypeOK, Targeted, NEW r \in Runs, Step(r)
    PROVE  InstallerTypeOK' /\ Targeted'
<1> DEFINE Rest == /\ env \in EnvStates /\ volume \in Passwords
                   /\ cli \in Versions /\ aside \in Versions
                   /\ host \subseteq {"path", "secret", "port"}
<1> DEFINE Kept == /\ UNCHANGED <<overlapped, commands>>
                   /\ file' \in [FileNames -> Contents]
                   /\ stack' \in [defs : Versions, conf : Contents, creds : Passwords]
                   /\ recorded' \in [cli : Versions, platform : Versions]
                   /\ Rest'
<1>0. RunTypeOK /\ run \in [Runs -> RunRecords] /\ run[r] \in RunRecords
    BY RunsTyped DEF InstallerTypeOK
<1>a. ASSUME Kept, RunTypeOK' PROVE InstallerTypeOK'
    BY <1>a DEF InstallerTypeOK
<1>b. ASSUME NEW pc \in Phases, Goto(r, pc),
             run[r].pc # "idle",
             pc \in {"fetch", "copy", "copying"} => run[r].v \in Releases
      PROVE  Targeted'
  <2>1. /\ run'[r].pc = pc /\ run'[r].cmd = run[r].cmd /\ run'[r].v = run[r].v
        /\ \A o \in Runs : o # r => run'[o] = run[o]
    BY <1>b, <1>0, GotoTyped
  <2> QED
    BY <1>b, <2>1 DEF Targeted, Active
<1>c. ASSUME Ends(r) PROVE Targeted'
    BY <1>c, <1>0, EndsTyped DEF Targeted, Active
<1>1. CASE FetchCli(r)
  <2>1. Kept
    BY <1>1, <1>0, FileOrder DEF FetchCli, InstallerTypeOK, filesVars, stackVars, cliVars,
       RunRecords, Contents, EnvStates
  <2>2. "swap" \in Phases /\ Goto(r, "swap") /\ run[r].pc = "fetchCli"
    BY <1>1 DEF FetchCli, At, Phases
  <2>3. "swap" \in {"fetch", "copy", "copying"} => run[r].v \in Releases
    BY <2>2 DEF Targeted, Active
  <2> QED
    BY <2>1, <2>2, <2>3, <1>0, <1>a, <1>b, GotoTyped
<1>2. CASE SwapRefused(r)
  <2>1. Kept
    BY <1>2, <1>0, FileOrder DEF SwapRefused, InstallerTypeOK, filesVars, stackVars,
       cliVars, RunRecords, Contents, EnvStates
  <2>2. "moveAside" \in Phases /\ Goto(r, "moveAside") /\ run[r].pc = "swap"
    BY <1>2 DEF SwapRefused, At, Phases
  <2>3. "moveAside" \in {"fetch", "copy", "copying"} => run[r].v \in Releases
    BY <2>2 DEF Targeted, Active
  <2> QED
    BY <2>1, <2>2, <2>3, <1>0, <1>a, <1>b, GotoTyped
<1>3. CASE EnsureOnPath(r)
  <2>1. Kept
    BY <1>3, <1>0, FileOrder DEF EnsureOnPath, InstallerTypeOK, filesVars, stackVars,
       cliVars, RunRecords, Contents, EnvStates
  <2>2. "latest" \in Phases /\ Goto(r, "latest") /\ run[r].pc = "path"
    BY <1>3 DEF EnsureOnPath, At, Phases
  <2>3. "latest" \in {"fetch", "copy", "copying"} => run[r].v \in Releases
    BY <2>2 DEF Targeted, Active
  <2> QED
    BY <2>1, <2>2, <2>3, <1>0, <1>a, <1>b, GotoTyped
<1>4. CASE Fetch(r)
  <2>1. Kept
    BY <1>4, <1>0, FileOrder DEF Fetch, InstallerTypeOK, filesVars, stackVars, cliVars,
       RunRecords, Contents, EnvStates
  <2>2. "copy" \in Phases /\ Goto(r, "copy") /\ run[r].pc = "fetch"
    BY <1>4 DEF Fetch, At, Phases
  <2>3. "copy" \in {"fetch", "copy", "copying"} => run[r].v \in Releases
    BY <2>2 DEF Targeted, Active
  <2> QED
    BY <2>1, <2>2, <2>3, <1>0, <1>a, <1>b, GotoTyped
<1>5. CASE ProtectSecret(r)
  <2>1. Kept
    BY <1>5, <1>0, FileOrder DEF ProtectSecret, InstallerTypeOK, filesVars, stackVars,
       cliVars, RunRecords, Contents, EnvStates
  <2>2. AfterEnv(r) \in Phases /\ Goto(r, AfterEnv(r)) /\ run[r].pc = "protect"
    BY <1>5 DEF ProtectSecret, At, Phases, AfterEnv
  <2>3. AfterEnv(r) \in {"fetch", "copy", "copying"} => run[r].v \in Releases
    BY <2>2 DEF Targeted, Active, AfterEnv
  <2> QED
    BY <2>1, <2>2, <2>3, <1>0, <1>a, <1>b, GotoTyped
<1>6. CASE OpenFirewall(r)
  <2>1. Kept
    BY <1>6, <1>0, FileOrder DEF OpenFirewall, InstallerTypeOK, filesVars, stackVars,
       cliVars, RunRecords, Contents, EnvStates
  <2>2. "up" \in Phases /\ Goto(r, "up") /\ run[r].pc = "firewall"
    BY <1>6 DEF OpenFirewall, At, Phases
  <2>3. "up" \in {"fetch", "copy", "copying"} => run[r].v \in Releases
    BY <2>2 DEF Targeted, Active
  <2> QED
    BY <2>1, <2>2, <2>3, <1>0, <1>a, <1>b, GotoTyped
<1>7. CASE WaitReady(r)
  <2>1. Kept
    BY <1>7, <1>0, FileOrder DEF WaitReady, InstallerTypeOK, filesVars, stackVars, cliVars,
       RunRecords, Contents, EnvStates
  <2>2. "load" \in Phases /\ Goto(r, "load") /\ run[r].pc = "wait"
    BY <1>7 DEF WaitReady, At, Phases
  <2>3. "load" \in {"fetch", "copy", "copying"} => run[r].v \in Releases
    BY <2>2 DEF Targeted, Active
  <2> QED
    BY <2>1, <2>2, <2>3, <1>0, <1>a, <1>b, GotoTyped
<1>8. CASE Swap(r)
  <2>1. Kept
    BY <1>8, <1>0, FileOrder DEF Swap, InstallerTypeOK, filesVars, stackVars, cliVars,
       RunRecords, Contents, EnvStates
  <2>2. AfterSwap(r) \in Phases /\ Goto(r, AfterSwap(r)) /\ run[r].pc = "swap"
    BY <1>8 DEF Swap, At, Phases, AfterSwap
  <2>3. AfterSwap(r) \in {"fetch", "copy", "copying"} => run[r].v \in Releases
    BY <2>2 DEF Targeted, Active, AfterSwap
  <2> QED
    BY <2>1, <2>2, <2>3, <1>0, <1>a, <1>b, GotoTyped
<1>9. CASE CreateFile(r)
  <2>1. Kept
    BY <1>9, <1>0, FileOrder DEF CreateFile, InstallerTypeOK, filesVars, stackVars, cliVars,
       RunRecords, Contents, EnvStates
  <2>2. "copying" \in Phases /\ Goto(r, "copying") /\ run[r].pc = "copy"
    BY <1>9 DEF CreateFile, At, Phases
  <2>3. "copying" \in {"fetch", "copy", "copying"} => run[r].v \in Releases
    BY <2>2 DEF Targeted, Active
  <2> QED
    BY <2>1, <2>2, <2>3, <1>0, <1>a, <1>b, GotoTyped
<1>10. CASE RenderEnv(r)
  <2>1. Kept
    BY <1>10, <1>0, FileOrder DEF RenderEnv, InstallerTypeOK, filesVars, stackVars, cliVars,
       RunRecords, Contents, EnvStates
  <2>2. "protect" \in Phases /\ Goto(r, "protect") /\ run[r].pc = "rendering"
    BY <1>10 DEF RenderEnv, At, Phases
  <2>3. "protect" \in {"fetch", "copy", "copying"} => run[r].v \in Releases
    BY <2>2 DEF Targeted, Active
  <2> QED
    BY <2>1, <2>2, <2>3, <1>0, <1>a, <1>b, GotoTyped
<1>11. CASE MoveAside(r)
  <2>1. Kept
    BY <1>11, <1>0, FileOrder DEF MoveAside, InstallerTypeOK, filesVars, stackVars, cliVars,
       RunRecords, Contents, EnvStates, Versions
  <2>2. /\ run[r].pc = "moveAside"
        /\ "swapAgain" \in Phases /\ "swapAgain" \notin {"fetch", "copy", "copying"}
    BY <1>11 DEF MoveAside, At, Phases, AfterSwap
  <2>3. Goto(r, "swapAgain") \/ Ends(r)
    BY <1>11 DEF MoveAside
  <2> QED
    BY <2>1, <2>2, <2>3, <1>0, <1>a, <1>b, <1>c, GotoTyped, EndsTyped
<1>12. CASE SwapAgain(r)
  <2>1. Kept
    BY <1>12, <1>0, FileOrder DEF SwapAgain, InstallerTypeOK, filesVars, stackVars, cliVars,
       RunRecords, Contents, EnvStates, Versions, AfterSwap
  <2>2. /\ run[r].pc = "swapAgain"
        /\ AfterSwap(r) \in Phases /\ AfterSwap(r) \notin {"fetch", "copy", "copying"}
    BY <1>12 DEF SwapAgain, At, Phases, AfterSwap
  <2>3. Goto(r, AfterSwap(r)) \/ Ends(r)
    BY <1>12 DEF SwapAgain
  <2> QED
    BY <2>1, <2>2, <2>3, <1>0, <1>a, <1>b, <1>c, GotoTyped, EndsTyped
<1>13. CASE ComposeDown(r)
  <2>1. Kept
    BY <1>13, <1>0, FileOrder DEF ComposeDown, InstallerTypeOK, filesVars, stackVars,
       cliVars, RunRecords, Contents, EnvStates, Passwords, Versions, Down
  <2>2. run[r].pc = "down" /\ "up" \in Phases /\ "up" \notin {"fetch", "copy", "copying"}
    BY <1>13 DEF ComposeDown, At, Phases, AfterSwap
  <2>3. Goto(r, "up") \/ Ends(r)
    BY <1>13 DEF ComposeDown
  <2> QED
    BY <2>1, <2>2, <2>3, <1>0, <1>a, <1>b, <1>c, GotoTyped, EndsTyped
<1>14. CASE ComposeUp(r)
  <2>1. Kept
    BY <1>14, <1>0, FileOrder DEF ComposeUp, InstallerTypeOK, filesVars, stackVars, cliVars,
       RunRecords, Contents, EnvStates, Passwords, Versions, Started,
       DatabasePassword, ServerPassword
  <2>2. run[r].pc = "up" /\ "wait" \in Phases /\ "wait" \notin {"fetch", "copy", "copying"}
    BY <1>14 DEF ComposeUp, At, Phases, AfterSwap
  <2>3. Goto(r, "wait") \/ Ends(r)
    BY <1>14 DEF ComposeUp
  <2> QED
    BY <2>1, <2>2, <2>3, <1>0, <1>a, <1>b, <1>c, GotoTyped, EndsTyped
<1>15. CASE WriteFileFails(r)
  <2>1. Kept
    BY <1>15, <1>0, FileOrder DEF WriteFileFails, InstallerTypeOK, filesVars, stackVars,
       cliVars, RunRecords, Contents, EnvStates, Versions
  <2> QED
    BY <1>15, <2>1, <1>0, <1>a, <1>c, EndsTyped DEF WriteFileFails
<1>16. CASE RenderEnvFails(r)
  <2>1. Kept
    BY <1>16, <1>0, FileOrder DEF RenderEnvFails, InstallerTypeOK, filesVars, stackVars,
       cliVars, RunRecords, Contents, EnvStates, Versions
  <2> QED
    BY <1>16, <2>1, <1>0, <1>a, <1>c, EndsTyped DEF RenderEnvFails
<1>17. CASE GenerateEnv(r)
  <2>1. Kept
    BY <1>17, <1>0, FileOrder DEF GenerateEnv, InstallerTypeOK, filesVars, stackVars,
       cliVars, RunRecords, Contents, EnvStates, Versions
  <2>2. PICK pc \in {AfterEnv(r), "protect", "rendering"} : Goto(r, pc)
    BY <1>17 DEF GenerateEnv
  <2>3. pc \in Phases /\ pc \notin {"fetch", "copy", "copying"} /\ run[r].pc = "env"
    BY <1>17 DEF GenerateEnv, At, AfterEnv, Phases
  <2> QED
    BY <2>1, <2>2, <2>3, <1>0, <1>a, <1>b, GotoTyped
<1>18. CASE WriteFile(r)
  <2>1. run[r].pc = "copying" /\ run[r].v \in Releases
    BY <1>18 DEF WriteFile, At, Targeted, Active
  <2>2. Kept
    BY <1>18, <2>1, <1>0, FileOrder DEF WriteFile, InstallerTypeOK, filesVars, stackVars,
       cliVars, RunRecords, Contents
  <2>3. (run \in [Runs -> RunRecords])' => RunTypeOK'
    BY FileOrder DEF RunTypeOK, RunRecords
  <2>4. PICK i \in 1..3, pc \in {"env", "copy"} : run' = [run EXCEPT ![r].i = i, ![r].pc = pc]
    BY <1>18, <1>0, FileOrder DEF WriteFile, Copied, RunRecords
  <2>5. [run[r] EXCEPT !.i = i, !.pc = pc] \in RunRecords
    BY <1>0 DEF RunRecords, Phases
  <2>6. /\ run' \in [Runs -> RunRecords] /\ run'[r] = [run[r] EXCEPT !.i = i, !.pc = pc]
        /\ \A o \in Runs : o # r => run'[o] = run[o]
    BY <1>0, <2>4, <2>5
  <2>7. run'[r].v = run[r].v
    BY <1>0, <2>6 DEF RunRecords
  <2>8. Targeted'
    BY <2>1, <2>6, <2>7 DEF Targeted, Active
  <2> QED
    BY <2>2, <2>3, <2>6, <2>8, <1>a
<1>19. CASE \E v \in Releases : LatestRelease(r, v)
  <2>1. PICK v \in Releases : LatestRelease(r, v)
    BY <1>19
  <2>2. Kept
    BY <2>1 DEF LatestRelease, InstallerTypeOK, filesVars, stackVars, cliVars
  <2>3. (run \in [Runs -> RunRecords])' => RunTypeOK'
    BY FileOrder DEF RunTypeOK, RunRecords
  <2>5. [run[r] EXCEPT !.v = v, !.pc = "fetch"] \in RunRecords
    BY <1>0 DEF RunRecords, Phases, Versions
  <2>6. /\ run' \in [Runs -> RunRecords] /\ run'[r] = [run[r] EXCEPT !.v = v, !.pc = "fetch"]
        /\ \A o \in Runs : o # r => run'[o] = run[o]
    BY <1>0, <2>1, <2>5 DEF LatestRelease
  <2>7. run'[r].v = v
    BY <1>0, <2>6 DEF RunRecords
  <2>8. Targeted'
    BY <2>6, <2>7 DEF Targeted, Active
  <2> QED
    BY <2>2, <2>3, <2>6, <2>8, <1>a
<1>20. CASE LoadState(r)
  <2>2. Kept
    BY <1>20 DEF LoadState, InstallerTypeOK, filesVars, stackVars, cliVars
  <2>3. (run \in [Runs -> RunRecords])' => RunTypeOK'
    BY FileOrder DEF RunTypeOK, RunRecords
  <2>5. [run[r] EXCEPT !.seen = recorded, !.pc = "save"] \in RunRecords
    BY <1>0 DEF RunRecords, Phases, InstallerTypeOK
  <2>6. /\ run' \in [Runs -> RunRecords]
        /\ run'[r] = [run[r] EXCEPT !.seen = recorded, !.pc = "save"]
        /\ \A o \in Runs : o # r => run'[o] = run[o]
    BY <1>20, <1>0, <2>5 DEF LoadState
  <2>7. /\ run'[r].v = run[r].v /\ run'[r].cmd = run[r].cmd /\ run'[r].pc = "save"
        /\ run[r].pc = "load"
    BY <1>20, <1>0, <2>6 DEF RunRecords, LoadState, At
  <2>8. Targeted'
    BY <2>6, <2>7 DEF Targeted, Active
  <2> QED
    BY <2>2, <2>3, <2>6, <2>8, <1>a
<1>21. CASE SaveState(r)
  <2>1. Kept
    BY <1>21, <1>0 DEF SaveState, Part, InstallerTypeOK, filesVars, stackVars, cliVars,
       RunRecords
  <2>3. (run \in [Runs -> RunRecords])' => RunTypeOK'
    BY FileOrder DEF RunTypeOK, RunRecords
  <2>4. CASE Ends(r)
    BY <2>1, <2>4, <1>0, <1>a, <1>c, EndsTyped
  <2>5. CASE run' = [run EXCEPT ![r].pc = "fetch", ![r].todo = {"platform"}, ![r].seen = Idle.seen]
             /\ run[r].cmd = "update" /\ run[r].pc = "save"
    <3> DEFINE next == [run[r] EXCEPT !.pc = "fetch", !.todo = {"platform"}, !.seen = Idle.seen]
    <3>1. next \in RunRecords
        BY <1>0, IdleTyped DEF RunRecords, Phases
    <3>2. /\ run' \in [Runs -> RunRecords] /\ run'[r] = next
          /\ \A o \in Runs : o # r => run'[o] = run[o]
        BY <1>0, <2>5, <3>1
    <3>3. run'[r].v = run[r].v /\ run'[r].cmd = run[r].cmd /\ run'[r].pc = "fetch"
        BY <1>0, <3>2 DEF RunRecords
    <3>4. Targeted'
        BY <2>5, <3>2, <3>3 DEF Targeted, Active
    <3> QED
        BY <2>1, <2>3, <3>2, <3>4, <1>a
  <2> QED
    BY <1>21, <2>4, <2>5 DEF SaveState, At
<1> QED
    BY <1>1, <1>2, <1>3, <1>4, <1>5, <1>6, <1>7, <1>8, <1>9, <1>10, <1>11, <1>12, <1>13,
       <1>14, <1>15, <1>16, <1>17, <1>18, <1>19, <1>20, <1>21 DEF Step

(* What the start of a command does to the records.                          *)
LEMMA StartTyped ==
    ASSUME RunTypeOK, NEW r \in Runs, NEW first \in RunRecords, Start(r, first)
    PROVE  /\ RunTypeOK'
           /\ ~Active(r) /\ commands' = commands + 1 /\ commands < MaxCommands
           /\ run'[r].pc = first.pc /\ run'[r].cmd = first.cmd /\ run'[r].v = first.v
           /\ run'[r].own = first.own /\ run'[r].i = first.i /\ run'[r].todo = first.todo
           /\ run'[r].alone = (\A o \in Runs \ {r} : ~Active(o))
           /\ \A o \in Runs : o # r /\ ~Active(o) => run'[o] = run[o]
           /\ \A o \in Runs : o # r /\ Active(o) => run'[o] = [run[o] EXCEPT !.alone = FALSE]
           /\ overlapped' = (overlapped \/ ~(\A o \in Runs \ {r} : ~Active(o)))
<1> DEFINE others == {o \in Runs \ {r} : Active(o)}
<1> DEFINE next(o) == IF o = r THEN [first EXCEPT !.alone = (others = {})]
                      ELSE IF o \in others THEN [run[o] EXCEPT !.alone = FALSE]
                      ELSE run[o]
<1>1. run \in [Runs -> RunRecords]
    BY RunsTyped
<1>2. (others = {}) = (\A o \in Runs \ {r} : ~Active(o))
    OBVIOUS
<1>3. /\ run' = [o \in Runs |-> next(o)]
      /\ overlapped' = (overlapped \/ others # {})
      /\ commands' = commands + 1 /\ commands < MaxCommands /\ ~Active(r)
    BY DEF Start
<1>4. [first EXCEPT !.alone = (others = {})] \in RunRecords
    BY DEF RunRecords
<1>5. \A o \in Runs : next(o) \in RunRecords
    BY <1>1, <1>4 DEF RunRecords
<1>6. run' \in [Runs -> RunRecords]
    BY <1>3, <1>5
<1>7. RunTypeOK'
    BY <1>6, FileOrder DEF RunTypeOK, RunRecords
<1>8. run'[r] = [first EXCEPT !.alone = (others = {})]
    BY <1>3
<1>9. /\ run'[r].pc = first.pc /\ run'[r].cmd = first.cmd /\ run'[r].v = first.v
      /\ run'[r].own = first.own /\ run'[r].i = first.i /\ run'[r].todo = first.todo
    BY <1>8 DEF RunRecords
<1>10. run'[r].alone = (others = {})
    BY <1>8 DEF RunRecords
<1>11. \A o \in Runs : o # r /\ ~Active(o) => run'[o] = run[o]
    BY <1>3
<1>12. \A o \in Runs : o # r /\ Active(o) => run'[o] = [run[o] EXCEPT !.alone = FALSE]
    BY <1>3
<1> HIDE DEF others, next
<1> QED
    BY <1>2, <1>3, <1>7, <1>9, <1>10, <1>11, <1>12

(* The record a command starts with.                                         *)
LEMMA Commands ==
    ASSUME NEW r \in Runs, Command(r)
    PROVE  \E first \in RunRecords :
              /\ Start(r, first)
              /\ first.i = 1
              /\ \/ first.cmd = "install" /\ first.pc = "swap"
                 \/ first.cmd = "install" /\ first.pc = "path" /\ cli = first.own
                 \/ /\ first.cmd = "update" /\ first.pc \in {"idle", "fetchCli", "fetch"}
                    /\ first.v \in Releases
                    /\ first.pc = "fetchCli" => "cli" \in first.todo
              /\ UNCHANGED <<file, env, volume, stack, cli, aside, host, recorded>>
<1>1. CASE \E own \in Releases, fromPath \in BOOLEAN : Install(r, own, fromPath)
  <2>1. PICK own \in Releases, fromPath \in BOOLEAN : Install(r, own, fromPath)
    BY <1>1
  <2> DEFINE first == [Idle EXCEPT !.pc = IF fromPath THEN "path" ELSE "swap",
                             !.cmd = "install", !.own = own,
                             !.wants = {"cli", "platform"}, !.todo = {"cli", "platform"}]
  <2>2. first \in RunRecords
    BY IdleTyped DEF RunRecords, Phases, Versions
  <2>3. Start(r, first) /\ (fromPath => own = cli)
        /\ UNCHANGED <<file, env, volume, stack, cli, aside, host, recorded>>
    BY <2>1 DEF Install, filesVars, stackVars, cliVars
  <2>4. /\ first.i = 1 /\ first.cmd = "install" /\ first.own = own
        /\ first.pc = IF fromPath THEN "path" ELSE "swap"
    BY DEF Idle
  <2> QED
    BY <2>2, <2>3, <2>4
<1>2. CASE \E v \in Releases, wants \in {{"cli"}, {"platform"}, {"cli", "platform"}},
              force \in BOOLEAN : Update(r, v, wants, force)
  <2>1. PICK v \in Releases, wants \in {{"cli"}, {"platform"}, {"cli", "platform"}},
              force \in BOOLEAN : Update(r, v, wants, force)
    BY <1>2
  <2> DEFINE todo == IF force THEN wants ELSE Outdated(wants, v)
  <2> DEFINE first == [Idle EXCEPT !.pc = FirstStep(todo), !.cmd = "update", !.v = v,
                                 !.own = v, !.wants = wants, !.todo = todo]
  <2>2. todo \subseteq {"cli", "platform"} /\ wants \subseteq {"cli", "platform"}
    BY DEF Outdated
  <2>3. /\ FirstStep(todo) \in {"idle", "fetchCli", "fetch"}
        /\ FirstStep(todo) = "fetchCli" => "cli" \in todo
    BY DEF FirstStep
  <2>4. first \in RunRecords
    <3>1. FirstStep(todo) \in Phases /\ v \in Versions
        BY <2>3 DEF Phases, Versions
    <3> QED
        BY <2>2, <3>1, IdleTyped DEF RunRecords
  <2>5. Start(r, first) /\ UNCHANGED <<file, env, volume, stack, cli, aside, host, recorded>>
    BY <2>1 DEF Update, filesVars, stackVars, cliVars
  <2>6. /\ first.i = 1 /\ first.cmd = "update" /\ first.v = v /\ first.pc = FirstStep(todo)
        /\ first.todo = todo
    BY DEF Idle
  <2> QED
    BY <2>3, <2>4, <2>5, <2>6
<1> QED
    BY <1>1, <1>2 DEF Command

LEMMA CommandTyped ==
    ASSUME InstallerTypeOK, Targeted, NEW r \in Runs, Command(r)
    PROVE  InstallerTypeOK' /\ Targeted'
<1>1. PICK first \in RunRecords :
              /\ Start(r, first)
              /\ (first.cmd = "install" /\ first.pc \in {"swap", "path"}) \/ first.v \in Releases
              /\ UNCHANGED <<file, env, volume, stack, cli, aside, host, recorded>>
    BY Commands
<1>2. run \in [Runs -> RunRecords] /\ RunTypeOK
    BY RunsTyped DEF InstallerTypeOK
<1>a. commands' = commands + 1 /\ commands < MaxCommands
    BY <1>1, <1>2, StartTyped
<1>b. commands \in 0..MaxCommands
    BY DEF InstallerTypeOK
<1>3. commands' \in 0..MaxCommands
    BY <1>a, <1>b, InstallerAssumption
<1>4. overlapped' \in BOOLEAN /\ RunTypeOK'
    BY <1>1, <1>2, StartTyped
<1>5. InstallerTypeOK'
    BY <1>1, <1>3, <1>4 DEF InstallerTypeOK
<1>6. \A o \in Runs : o # r => run'[o].pc = run[o].pc /\ run'[o].cmd = run[o].cmd
                               /\ run'[o].v = run[o].v
  <2>1. \A o \in Runs : o # r => run'[o] = run[o] \/ run'[o] = [run[o] EXCEPT !.alone = FALSE]
    BY <1>1, <1>2, StartTyped
  <2>2. ASSUME NEW o \in Runs, o # r
        PROVE  run'[o].pc = run[o].pc /\ run'[o].cmd = run[o].cmd /\ run'[o].v = run[o].v
    <3>1. run[o] \in RunRecords
        BY <1>2
    <3>2. run'[o] = run[o] \/ run'[o] = [run[o] EXCEPT !.alone = FALSE]
        BY <2>1, <2>2
    <3> QED
        BY <3>1, <3>2 DEF RunRecords
  <2> QED
    BY <2>2
<1>7. run'[r].pc = first.pc /\ run'[r].cmd = first.cmd /\ run'[r].v = first.v
    BY <1>1, <1>2, StartTyped
<1>8. Targeted'
    BY <1>1, <1>6, <1>7 DEF Targeted, Active
<1> QED
    BY <1>5, <1>8

LEMMA StopTyped ==
    ASSUME InstallerTypeOK, Targeted, NEW r \in Runs, Stop(r)
    PROVE  InstallerTypeOK' /\ Targeted'
<1>1. RunTypeOK' /\ run'[r].pc = "idle" /\ \A o \in Runs : o # r => run'[o] = run[o]
    BY EndsTyped DEF Stop, InstallerTypeOK
<1>2. InstallerTypeOK'
    BY <1>1 DEF Stop, InstallerTypeOK, filesVars, stackVars, cliVars
<1>3. Targeted'
    BY <1>1 DEF Targeted, Active
<1> QED
    BY <1>2, <1>3

LEMMA RebootTyped ==
    ASSUME InstallerTypeOK, Reboot
    PROVE  InstallerTypeOK' /\ Targeted' /\ \A r \in Runs : run'[r].pc = "idle"
<1>1. \A r \in Runs : run'[r] = Idle
    BY DEF Reboot
<1>2. RunTypeOK'
    BY IdleTyped, FileOrder DEF Reboot, RunTypeOK, RunRecords
<1>3. stack' \in [defs : Versions, conf : Contents, creds : Passwords]
    BY DEF Reboot, InstallerTypeOK, Contents, FileNames
<1>4. InstallerTypeOK'
    BY <1>2, <1>3 DEF Reboot, InstallerTypeOK, filesVars, cliVars
<1>5. \A r \in Runs : run'[r].pc = "idle"
    BY <1>1, IdleTyped
<1>6. Targeted'
    BY <1>5 DEF Targeted, Active
<1> QED
    BY <1>4, <1>5, <1>6

LEMMA NextTyped ==
    ASSUME InstallerTypeOK, Targeted, [InstallerNext]_vars
    PROVE  InstallerTypeOK' /\ Targeted'
<1>1. CASE InstallerNext
    BY <1>1, RebootTyped, CommandTyped, StepTyped, StopTyped DEF InstallerNext
<1>2. CASE UNCHANGED vars
    BY <1>2 DEF vars, InstallerTypeOK, RunTypeOK, Targeted, Active
<1> QED
    BY <1>1, <1>2

(* Type correctness.                                                        *)
THEOREM InstallerTypeCorrect == InstallerSpec => []InstallerTypeOK
<1>1. InstallerInit => InstallerTypeOK /\ Targeted
    BY InitTyped
<1>2. (InstallerTypeOK /\ Targeted) /\ [InstallerNext]_vars => (InstallerTypeOK /\ Targeted)'
    BY NextTyped
<1> QED
    BY <1>1, <1>2, PTL DEF InstallerSpec

---------------------------------------------------------------------------
(* One writer of the .env.                                                   *)

(* The ways a step changes the record of its run.                            *)
Moves(r) ==
    \/ Ends(r) \/ \E pc : run' = [run EXCEPT ![r].pc = pc]
    \/ \E i, pc : run' = [run EXCEPT ![r].i = i, ![r].pc = pc]
    \/ \E v, pc : run' = [run EXCEPT ![r].v = v, ![r].pc = pc]
    \/ \E seen, pc : run' = [run EXCEPT ![r].seen = seen, ![r].pc = pc]
    \/ run' = [run EXCEPT ![r].pc = "fetch", ![r].todo = {"platform"}, ![r].seen = Idle.seen]

(* A step moves its own run only.                                            *)
LEMMA StepFrame ==
    ASSUME InstallerTypeOK, NEW r \in Runs, Step(r)
    PROVE  /\ \A o \in Runs : o # r => run'[o] = run[o]
           /\ Active(r) /\ UNCHANGED <<overlapped, commands>>
           /\ run'[r].pc = "idle" \/ run'[r].alone = run[r].alone
<1>0. RunTypeOK /\ run \in [Runs -> RunRecords]
    BY RunsTyped DEF InstallerTypeOK
<1>1. Active(r) /\ UNCHANGED <<overlapped, commands>>
    BY DEF Step, Active, At, FetchCli, Swap, SwapRefused, MoveAside, SwapAgain,
       EnsureOnPath, LatestRelease, Fetch, CreateFile, WriteFile, WriteFileFails,
       GenerateEnv, RenderEnv, RenderEnvFails, ProtectSecret, OpenFirewall, ComposeDown,
       ComposeUp, WaitReady, LoadState, SaveState
<1>2. Moves(r)
  <2>1. CASE FetchCli(r)
    BY <2>1 DEF FetchCli, Moves, Goto
  <2>2. CASE Swap(r)
    BY <2>2 DEF Swap, Moves, Goto
  <2>3. CASE SwapRefused(r)
    BY <2>3 DEF SwapRefused, Moves, Goto
  <2>4. CASE MoveAside(r)
    BY <2>4 DEF MoveAside, Moves, Goto
  <2>5. CASE SwapAgain(r)
    BY <2>5 DEF SwapAgain, Moves, Goto
  <2>6. CASE EnsureOnPath(r)
    BY <2>6 DEF EnsureOnPath, Moves, Goto
  <2>7. CASE Fetch(r)
    BY <2>7 DEF Fetch, Moves, Goto
  <2>8. CASE CreateFile(r)
    BY <2>8 DEF CreateFile, Moves, Goto
  <2>9. CASE WriteFileFails(r)
    BY <2>9 DEF WriteFileFails, Moves, Goto
  <2>10. CASE GenerateEnv(r)
    BY <2>10 DEF GenerateEnv, Moves, Goto
  <2>11. CASE RenderEnv(r)
    BY <2>11 DEF RenderEnv, Moves, Goto
  <2>12. CASE RenderEnvFails(r)
    BY <2>12 DEF RenderEnvFails, Moves, Goto
  <2>13. CASE ProtectSecret(r)
    BY <2>13 DEF ProtectSecret, Moves, Goto
  <2>14. CASE OpenFirewall(r)
    BY <2>14 DEF OpenFirewall, Moves, Goto
  <2>15. CASE ComposeDown(r)
    BY <2>15 DEF ComposeDown, Moves, Goto
  <2>16. CASE ComposeUp(r)
    BY <2>16 DEF ComposeUp, Moves, Goto
  <2>17. CASE WaitReady(r)
    BY <2>17 DEF WaitReady, Moves, Goto
  <2>18. CASE WriteFile(r)
    BY <2>18 DEF WriteFile, Copied, Moves, Goto
  <2>19. CASE \E v \in Releases : LatestRelease(r, v)
    BY <2>19 DEF LatestRelease, Moves
  <2>20. CASE LoadState(r)
    BY <2>20 DEF LoadState, Moves
  <2>21. CASE SaveState(r)
    BY <2>21 DEF SaveState, Moves
  <2> QED
    BY <2>1, <2>2, <2>3, <2>4, <2>5, <2>6, <2>7, <2>8, <2>9, <2>10, <2>11, <2>12, <2>13,
       <2>14, <2>15, <2>16, <2>17, <2>18, <2>19, <2>20, <2>21 DEF Step
<1>3. CASE Ends(r)
    BY <1>0, <1>1, <1>3, EndsTyped
<1>4. CASE ~Ends(r)
  <2>0. run[r] \in RunRecords
    BY <1>0
  <2>a. ASSUME NEW next, run' = [run EXCEPT ![r] = next], next.alone = run[r].alone
        PROVE  run'[r].alone = run[r].alone /\ \A o \in Runs : o # r => run'[o] = run[o]
    BY <1>0, <2>a
  <2>1. CASE \E pc : run' = [run EXCEPT ![r].pc = pc]
    <3>1. PICK pc : run' = [run EXCEPT ![r] = [run[r] EXCEPT !.pc = pc]]
        BY <1>0, <2>1
    <3>2. [run[r] EXCEPT !.pc = pc].alone = run[r].alone
        BY <2>0 DEF RunRecords
    <3> QED
        BY <3>1, <3>2, <2>a, <1>1
  <2>2. CASE \E i, pc : run' = [run EXCEPT ![r].i = i, ![r].pc = pc]
    <3>1. PICK i, pc : run' = [run EXCEPT ![r] = [run[r] EXCEPT !.i = i, !.pc = pc]]
        BY <1>0, <2>2
    <3>2. [run[r] EXCEPT !.i = i, !.pc = pc].alone = run[r].alone
        BY <2>0 DEF RunRecords
    <3> QED
        BY <3>1, <3>2, <2>a, <1>1
  <2>3. CASE \E v, pc : run' = [run EXCEPT ![r].v = v, ![r].pc = pc]
    <3>1. PICK v, pc : run' = [run EXCEPT ![r] = [run[r] EXCEPT !.v = v, !.pc = pc]]
        BY <1>0, <2>3
    <3>2. [run[r] EXCEPT !.v = v, !.pc = pc].alone = run[r].alone
        BY <2>0 DEF RunRecords
    <3> QED
        BY <3>1, <3>2, <2>a, <1>1
  <2>4. CASE \E seen, pc : run' = [run EXCEPT ![r].seen = seen, ![r].pc = pc]
    <3>1. PICK seen, pc : run' = [run EXCEPT ![r] = [run[r] EXCEPT !.seen = seen, !.pc = pc]]
        BY <1>0, <2>4
    <3>2. [run[r] EXCEPT !.seen = seen, !.pc = pc].alone = run[r].alone
        BY <2>0 DEF RunRecords
    <3> QED
        BY <3>1, <3>2, <2>a, <1>1
  <2>5. CASE run' = [run EXCEPT ![r].pc = "fetch", ![r].todo = {"platform"},
                                ![r].seen = Idle.seen]
    <3> DEFINE next == [run[r] EXCEPT !.pc = "fetch", !.todo = {"platform"}, !.seen = Idle.seen]
    <3>1. run' = [run EXCEPT ![r] = next]
        BY <1>0, <2>5
    <3>2. next.alone = run[r].alone
        BY <2>0 DEF RunRecords
    <3> QED
        BY <3>1, <3>2, <2>a, <1>1
  <2> QED
    BY <1>2, <1>4, <2>1, <2>2, <2>3, <2>4, <2>5 DEF Moves
<1> QED
    BY <1>3, <1>4

(* And a command starts its own run, and makes the active ones not alone.     *)
LEMMA CommandFrame ==
    ASSUME InstallerTypeOK, NEW r \in Runs, Command(r)
    PROVE  /\ ~Active(r) /\ UNCHANGED <<file, env, volume, stack, cli, aside, host, recorded>>
           /\ run'[r].pc \in {"idle", "swap", "path", "fetchCli", "fetch"} /\ run'[r].i = 1
           /\ run'[r].cmd = "install" => run'[r].pc \in {"swap", "path"}
           /\ run'[r].pc = "path" => cli = run'[r].own
           /\ run'[r].pc \in {"path", "swap"} => run'[r].cmd = "install"
           /\ run'[r].pc = "fetchCli" => "cli" \in run'[r].todo
           /\ run'[r].alone = (\A o \in Runs \ {r} : ~Active(o))
           /\ overlapped' = (overlapped \/ ~(\A o \in Runs \ {r} : ~Active(o)))
           /\ \A o \in Runs : o # r /\ ~Active(o) => run'[o] = run[o]
           /\ \A o \in Runs : o # r /\ Active(o) => run'[o].pc = run[o].pc /\ run'[o].alone = FALSE
<1>1. PICK first \in RunRecords :
              /\ Start(r, first)
              /\ first.i = 1
              /\ \/ first.cmd = "install" /\ first.pc = "swap"
                 \/ first.cmd = "install" /\ first.pc = "path" /\ cli = first.own
                 \/ /\ first.cmd = "update" /\ first.pc \in {"idle", "fetchCli", "fetch"}
                    /\ first.v \in Releases
                    /\ first.pc = "fetchCli" => "cli" \in first.todo
              /\ UNCHANGED <<file, env, volume, stack, cli, aside, host, recorded>>
    BY Commands
<1>2. run \in [Runs -> RunRecords] /\ RunTypeOK
    BY RunsTyped DEF InstallerTypeOK
<1>3. /\ ~Active(r)
      /\ run'[r].pc = first.pc /\ run'[r].cmd = first.cmd /\ run'[r].own = first.own
      /\ run'[r].i = first.i /\ run'[r].todo = first.todo
    BY <1>1, <1>2, StartTyped
<1>4. /\ run'[r].alone = (\A o \in Runs \ {r} : ~Active(o))
      /\ overlapped' = (overlapped \/ ~(\A o \in Runs \ {r} : ~Active(o)))
      /\ \A o \in Runs : o # r /\ ~Active(o) => run'[o] = run[o]
      /\ \A o \in Runs : o # r /\ Active(o) => run'[o] = [run[o] EXCEPT !.alone = FALSE]
    BY <1>1, <1>2, StartTyped
<1>5. ASSUME NEW o \in Runs, o # r, Active(o)
      PROVE  run'[o].pc = run[o].pc /\ run'[o].alone = FALSE
  <2>1. run[o] \in RunRecords /\ run'[o] = [run[o] EXCEPT !.alone = FALSE]
    BY <1>2, <1>4, <1>5
  <2> QED
    BY <2>1 DEF RunRecords
<1>6. /\ run'[r].pc \in {"idle", "swap", "path", "fetchCli", "fetch"} /\ run'[r].i = 1
      /\ run'[r].cmd = "install" => run'[r].pc \in {"swap", "path"}
      /\ run'[r].pc = "path" => cli = run'[r].own
      /\ run'[r].pc \in {"path", "swap"} => run'[r].cmd = "install"
      /\ run'[r].pc = "fetchCli" => "cli" \in run'[r].todo
      /\ UNCHANGED <<file, env, volume, stack, cli, aside, host, recorded>>
    BY <1>1, <1>3
<1> QED
    BY <1>3, <1>4, <1>5, <1>6

(* Who touches the .env: the run that creates it, and the one that renders it. *)
LEMMA EnvSteps ==
    ASSUME InstallerTypeOK, NEW r \in Runs, Step(r), ~RenderEnv(r), ~RenderEnvFails(r)
    PROVE  \/ env' = env /\ run'[r].pc # "rendering"
           \/ env = "absent" /\ env' = "empty" /\ run'[r].pc = "rendering"
<1>0. RunTypeOK /\ run \in [Runs -> RunRecords]
    BY RunsTyped DEF InstallerTypeOK
<1>g. ASSUME NEW pc \in Phases, Goto(r, pc) PROVE run'[r].pc = pc
    BY <1>0, <1>g, GotoTyped
<1>e. ASSUME Ends(r) PROVE run'[r].pc # "rendering"
    BY <1>0, <1>e, EndsTyped
<1>1. CASE FetchCli(r)
    BY <1>1, <1>g, <1>e DEF FetchCli, Phases, filesVars
<1>2. CASE Swap(r)
    BY <1>2, <1>g, <1>e DEF Swap, AfterSwap, Phases, filesVars
<1>3. CASE SwapRefused(r)
    BY <1>3, <1>g, <1>e DEF SwapRefused, Phases, filesVars
<1>4. CASE MoveAside(r)
    BY <1>4, <1>g, <1>e DEF MoveAside, Phases, filesVars
<1>5. CASE SwapAgain(r)
    BY <1>5, <1>g, <1>e DEF SwapAgain, AfterSwap, Phases, filesVars
<1>6. CASE EnsureOnPath(r)
    BY <1>6, <1>g, <1>e DEF EnsureOnPath, Phases, filesVars
<1>7. CASE Fetch(r)
    BY <1>7, <1>g, <1>e DEF Fetch, Phases, filesVars
<1>8. CASE CreateFile(r)
    BY <1>8, <1>g, <1>e DEF CreateFile, Phases, filesVars
<1>9. CASE WriteFileFails(r)
    BY <1>9, <1>g, <1>e DEF WriteFileFails, Phases, filesVars
<1>10. CASE GenerateEnv(r)
    BY <1>10, <1>g, <1>e DEF GenerateEnv, AfterEnv, Phases, filesVars
<1>11. CASE ProtectSecret(r)
    BY <1>11, <1>g, <1>e DEF ProtectSecret, AfterEnv, Phases, filesVars
<1>12. CASE OpenFirewall(r)
    BY <1>12, <1>g, <1>e DEF OpenFirewall, Phases, filesVars
<1>13. CASE ComposeDown(r)
    BY <1>13, <1>g, <1>e DEF ComposeDown, Phases, filesVars
<1>14. CASE ComposeUp(r)
    BY <1>14, <1>g, <1>e DEF ComposeUp, Phases, filesVars
<1>15. CASE WaitReady(r)
    BY <1>15, <1>g, <1>e DEF WaitReady, Phases, filesVars
<1>16. CASE WriteFile(r)
    BY <1>16, <1>0 DEF WriteFile, Copied, RunRecords, Goto
<1>17. CASE \E v \in Releases : LatestRelease(r, v)
    BY <1>17, <1>0 DEF LatestRelease, RunRecords, filesVars
<1>18. CASE LoadState(r)
    BY <1>18, <1>0 DEF LoadState, RunRecords, filesVars
<1>19. CASE SaveState(r)
    BY <1>19, <1>0, <1>e DEF SaveState, RunRecords, filesVars
<1> QED
    BY <1>1, <1>2, <1>3, <1>4, <1>5, <1>6, <1>7, <1>8, <1>9, <1>10, <1>11, <1>12, <1>13,
       <1>14, <1>15, <1>16, <1>17, <1>18, <1>19 DEF Step

LEMMA WriterStep ==
    ASSUME InstallerTypeOK, OneWriter, [InstallerNext]_vars
    PROVE  OneWriter' /\ (env = "whole" => env' = "whole")
<1>1. ASSUME NEW r \in Runs, Step(r) PROVE OneWriter' /\ (env = "whole" => env' = "whole")
  <2>1. \A o \in Runs : o # r => run'[o] = run[o]
    BY <1>1, StepFrame
  <2>2. CASE RenderEnv(r) \/ RenderEnvFails(r)
    <3>1. run[r].pc = "rendering"
        BY <2>2 DEF RenderEnv, RenderEnvFails, At
    <3>2. run'[r].pc # "rendering"
        BY <2>2, GotoTyped, EndsTyped DEF RenderEnv, RenderEnvFails, Phases, InstallerTypeOK
    <3>3. \A o \in Runs : run'[o].pc # "rendering"
        BY <2>1, <3>1, <3>2 DEF OneWriter, At
    <3> QED
        BY <3>1, <3>3 DEF OneWriter, At
  <2>3. CASE ~RenderEnv(r) /\ ~RenderEnvFails(r)
    BY <1>1, <2>1, <2>3, EnvSteps DEF OneWriter, At
  <2> QED
    BY <2>2, <2>3
<1>2. ASSUME NEW r \in Runs, Command(r) PROVE OneWriter' /\ (env = "whole" => env' = "whole")
  <2>1. \A o \in Runs : run'[o].pc = "rendering" => run[o].pc = "rendering"
    BY <1>2, CommandFrame
  <2>2. env' = env
    BY <1>2, CommandFrame
  <2> QED
    BY <2>1, <2>2 DEF OneWriter, At
<1>3. ASSUME NEW r \in Runs, Stop(r) PROVE OneWriter' /\ (env = "whole" => env' = "whole")
  <2>1. env' = env /\ \A o \in Runs : run'[o].pc = "rendering" => run[o].pc = "rendering"
    BY <1>3, EndsTyped DEF Stop, InstallerTypeOK, filesVars
  <2> QED
    BY <2>1 DEF OneWriter, At
<1>4. ASSUME Reboot PROVE OneWriter' /\ (env = "whole" => env' = "whole")
    BY <1>4, RebootTyped DEF Reboot, filesVars, OneWriter, At
<1>5. CASE UNCHANGED vars
    BY <1>5 DEF vars, OneWriter, At
<1> QED
    BY <1>1, <1>2, <1>3, <1>4, <1>5 DEF InstallerNext

(* However many runs overlap, fail or are killed: a whole .env stays.          *)
THEOREM EnvIsWrittenOnce == InstallerSpec => EnvNeverRegenerated
<1> DEFINE Inv == InstallerTypeOK /\ Targeted /\ OneWriter
<1>1. InstallerInit => Inv
  <2>1. InstallerInit => OneWriter
    BY IdleTyped DEF InstallerInit, OneWriter, At
  <2> QED
    BY <2>1, InitTyped
<1>2. Inv /\ [InstallerNext]_vars => Inv'
    BY NextTyped, WriterStep
<1>3. Inv /\ [InstallerNext]_vars => [env = "whole" => env' = "whole"]_vars
    BY WriterStep
<1> QED
    BY <1>1, <1>2, <1>3, PTL DEF InstallerSpec, EnvNeverRegenerated

---------------------------------------------------------------------------
(* What a run alone has achieved.                                            *)

LEMMA SoleStep ==
    ASSUME InstallerTypeOK, Sole, [InstallerNext]_vars
    PROVE  Sole'
<1>1. ASSUME NEW r \in Runs, Step(r) PROVE Sole'
    BY <1>1, StepFrame DEF Sole, Active
<1>2. ASSUME NEW r \in Runs, Command(r) PROVE Sole'
  <2>1. CASE \A o \in Runs \ {r} : ~Active(o)
    <3>0. \A o \in Runs : o # r /\ ~Active(o) => run'[o] = run[o]
        BY <1>2, CommandFrame
    <3>1. \A o \in Runs : o # r => ~Active(o)'
        BY <2>1, <3>0 DEF Active
    <3>2. run'[r].alone
        BY <1>2, <2>1, CommandFrame
    <3> QED
        BY <3>1, <3>2 DEF Sole, Active
  <2>2. CASE ~(\A o \in Runs \ {r} : ~Active(o))
    <3>1. overlapped' /\ ~run'[r].alone
        BY <1>2, <2>2, CommandFrame
    <3>0. /\ \A o \in Runs : o # r /\ ~Active(o) => run'[o] = run[o]
          /\ \A o \in Runs : o # r /\ Active(o) => run'[o].alone = FALSE
        BY <1>2, CommandFrame
    <3>2. \A o \in Runs : Active(o)' => ~run'[o].alone
        BY <3>0, <3>1 DEF Active
    <3> QED
        BY <3>1, <3>2 DEF Sole, Active
  <2> QED
    BY <2>1, <2>2
<1>3. ASSUME NEW r \in Runs, Stop(r) PROVE Sole'
    BY <1>3, EndsTyped DEF Stop, InstallerTypeOK, Sole, Active
<1>4. ASSUME Reboot PROVE Sole'
    BY <1>4, RebootTyped DEF Reboot, Sole, Active
<1>5. CASE UNCHANGED vars
    BY <1>5 DEF vars, Sole, Active
<1> QED
    BY <1>1, <1>2, <1>3, <1>4, <1>5 DEF InstallerNext

(* The step of a run alone takes it from one phase's achievements to the next. *)
LEMMA StepProgress ==
    ASSUME InstallerTypeOK, Targeted, NEW r \in Runs, Step(r), Progress(r), run'[r].pc # "idle"
    PROVE  Progress(r)'
<1>0. RunTypeOK /\ run \in [Runs -> RunRecords] /\ run[r] \in RunRecords
    BY RunsTyped DEF InstallerTypeOK
<1>g. ASSUME NEW pc \in Phases, Goto(r, pc)
      PROVE  /\ run'[r].pc = pc /\ run'[r].cmd = run[r].cmd /\ run'[r].v = run[r].v
             /\ run'[r].own = run[r].own /\ run'[r].todo = run[r].todo /\ run'[r].i = run[r].i
    BY <1>0, <1>g, GotoTyped
<1>e. ~Ends(r)
    BY <1>0, EndsTyped
<1> USE DEF At
<1> DEFINE Same == /\ run'[r].cmd = run[r].cmd /\ run'[r].v = run[r].v /\ run'[r].own = run[r].own
                   /\ run'[r].todo = run[r].todo /\ run'[r].i = run[r].i
<1> USE DEF Progress, CliFirst, FilesCopied, EnvInPlace, HostPrepared, StackStarted, Recording,
            Bundled, Starting, ServerPassword
<1>1. CASE FetchCli(r)
  <2>1. "swap" \in Phases /\ Goto(r, "swap")
    BY <1>1, <1>e DEF FetchCli, Phases
  <2>2. Same /\ run'[r].pc = "swap" /\ run[r].pc = "fetchCli"
    BY <1>1, <2>1, <1>g DEF FetchCli
  <2>3. UNCHANGED <<file, env, volume, stack, cli, host>>
    BY <1>1, <1>e DEF FetchCli, filesVars, stackVars, cliVars
  <2> QED
    BY <2>2, <2>3, <1>0 DEF Part, Whole, Ready
<1>2. CASE Swap(r)
  <2>1. AfterSwap(r) \in Phases /\ Goto(r, AfterSwap(r))
    BY <1>2, <1>e DEF Swap, Phases, AfterSwap
  <2>2. Same /\ run'[r].pc = AfterSwap(r) /\ run[r].pc = "swap"
    BY <1>2, <2>1, <1>g DEF Swap
  <2>3. UNCHANGED <<file, env, volume, stack, host>> /\ cli' = run[r].own
    BY <1>2, <1>e DEF Swap, filesVars, stackVars, cliVars
  <2> QED
    BY <2>2, <2>3, <1>0 DEF Part, Whole, Ready, AfterSwap
<1>3. CASE SwapRefused(r)
  <2>1. "moveAside" \in Phases /\ Goto(r, "moveAside")
    BY <1>3, <1>e DEF SwapRefused, Phases
  <2>2. Same /\ run'[r].pc = "moveAside" /\ run[r].pc = "swap"
    BY <1>3, <2>1, <1>g DEF SwapRefused
  <2>3. UNCHANGED <<file, env, volume, stack, cli, host>>
    BY <1>3, <1>e DEF SwapRefused, filesVars, stackVars, cliVars
  <2> QED
    BY <2>2, <2>3, <1>0 DEF Part, Whole, Ready
<1>4. CASE MoveAside(r)
  <2>1. "swapAgain" \in Phases /\ Goto(r, "swapAgain")
    BY <1>4, <1>e DEF MoveAside, Phases
  <2>2. Same /\ run'[r].pc = "swapAgain" /\ run[r].pc = "moveAside"
    BY <1>4, <2>1, <1>g DEF MoveAside
  <2>3. UNCHANGED <<file, env, volume, stack, host>>
    BY <1>4, <1>e DEF MoveAside, filesVars, stackVars, cliVars
  <2> QED
    BY <2>2, <2>3, <1>0 DEF Part, Whole, Ready
<1>5. CASE SwapAgain(r)
  <2>1. AfterSwap(r) \in Phases /\ Goto(r, AfterSwap(r))
    BY <1>5, <1>e DEF SwapAgain, Phases, AfterSwap
  <2>2. Same /\ run'[r].pc = AfterSwap(r) /\ run[r].pc = "swapAgain"
    BY <1>5, <2>1, <1>g DEF SwapAgain
  <2>3. UNCHANGED <<file, env, volume, stack, host>> /\ cli' = run[r].own
    BY <1>5, <1>e DEF SwapAgain, filesVars, stackVars, cliVars
  <2> QED
    BY <2>2, <2>3, <1>0 DEF Part, Whole, Ready, AfterSwap
<1>6. CASE EnsureOnPath(r)
  <2>1. "latest" \in Phases /\ Goto(r, "latest")
    BY <1>6, <1>e DEF EnsureOnPath, Phases
  <2>2. Same /\ run'[r].pc = "latest" /\ run[r].pc = "path"
    BY <1>6, <2>1, <1>g DEF EnsureOnPath
  <2>3. UNCHANGED <<file, env, volume, stack, cli>> /\ "path" \in host'
    BY <1>6, <1>e DEF EnsureOnPath, filesVars, stackVars, cliVars
  <2> QED
    BY <2>2, <2>3, <1>0 DEF Part, Whole, Ready
<1>7. CASE Fetch(r)
  <2>1. "copy" \in Phases /\ Goto(r, "copy")
    BY <1>7, <1>e DEF Fetch, Phases
  <2>2. Same /\ run'[r].pc = "copy" /\ run[r].pc = "fetch"
    BY <1>7, <2>1, <1>g DEF Fetch
  <2>3. UNCHANGED <<file, env, volume, stack, cli, host>>
    BY <1>7, <1>e DEF Fetch, filesVars, stackVars, cliVars
  <2> QED
    BY <2>2, <2>3, <1>0 DEF Part, Whole, Ready
<1>8. CASE RenderEnv(r)
  <2>1. "protect" \in Phases /\ Goto(r, "protect")
    BY <1>8, <1>e DEF RenderEnv, Phases
  <2>2. Same /\ run'[r].pc = "protect" /\ run[r].pc = "rendering"
    BY <1>8, <2>1, <1>g DEF RenderEnv
  <2>3. UNCHANGED <<file, volume, stack, cli, host>> /\ env' # "absent"
    BY <1>8, <1>e DEF RenderEnv, filesVars, stackVars, cliVars
  <2> QED
    BY <2>2, <2>3, <1>0 DEF Part, Whole, Ready
<1>9. CASE ProtectSecret(r)
  <2>1. AfterEnv(r) \in Phases /\ Goto(r, AfterEnv(r))
    BY <1>9, <1>e DEF ProtectSecret, Phases, AfterEnv
  <2>2. Same /\ run'[r].pc = AfterEnv(r) /\ run[r].pc = "protect"
    BY <1>9, <2>1, <1>g DEF ProtectSecret
  <2>3. UNCHANGED <<file, env, volume, stack, cli>> /\ "secret" \in host' /\ host \subseteq host'
    BY <1>9, <1>e DEF ProtectSecret, filesVars, stackVars, cliVars
  <2> QED
    BY <2>2, <2>3, <1>0 DEF Part, Whole, Ready, AfterEnv
<1>10. CASE OpenFirewall(r)
  <2>1. "up" \in Phases /\ Goto(r, "up")
    BY <1>10, <1>e DEF OpenFirewall, Phases
  <2>2. Same /\ run'[r].pc = "up" /\ run[r].pc = "firewall"
    BY <1>10, <2>1, <1>g DEF OpenFirewall
  <2>3. UNCHANGED <<file, env, volume, stack, cli>> /\ "port" \in host' /\ host \subseteq host'
    BY <1>10, <1>e DEF OpenFirewall, filesVars, stackVars, cliVars
  <2> QED
    BY <2>2, <2>3, <1>0 DEF Part, Whole, Ready
<1>11. CASE ComposeDown(r)
  <2>1. "up" \in Phases /\ Goto(r, "up")
    BY <1>11, <1>e DEF ComposeDown, Phases
  <2>2. Same /\ run'[r].pc = "up" /\ run[r].pc = "down"
    BY <1>11, <2>1, <1>g DEF ComposeDown
  <2>3. UNCHANGED <<file, env, volume, cli, host>> /\ stack' = Down
    BY <1>11, <1>e DEF ComposeDown, filesVars, stackVars, cliVars
  <2> QED
    BY <2>2, <2>3, <1>0 DEF Part, Whole, Ready
<1>12. CASE WaitReady(r)
  <2>1. "load" \in Phases /\ Goto(r, "load")
    BY <1>12, <1>e DEF WaitReady, Phases
  <2>2. Same /\ run'[r].pc = "load" /\ run[r].pc = "wait"
    BY <1>12, <2>1, <1>g DEF WaitReady
  <2>3. UNCHANGED <<file, env, volume, stack, cli, host>> /\ Ready
    BY <1>12, <1>e DEF WaitReady, filesVars, stackVars, cliVars
  <2> QED
    BY <2>2, <2>3, <1>0 DEF Part, Whole, Ready
<1>13. CASE ComposeUp(r)
  <2>1. "wait" \in Phases /\ Goto(r, "wait")
    BY <1>13, <1>e DEF ComposeUp, Phases
  <2>2. Same /\ run'[r].pc = "wait" /\ run[r].pc = "up"
    BY <1>13, <2>1, <1>g DEF ComposeUp
  <2>3. UNCHANGED <<file, env, cli, host>> /\ stack' = Started
    BY <1>13, <1>e DEF ComposeUp, filesVars, cliVars
  <2>4. /\ stack'.defs = file["compose"] /\ stack'.creds = ServerPassword'
        /\ stack = Down => stack'.conf = file["conf"]
    BY <2>3, InstallerAssumption DEF Started, Down, ServerPassword
  <2>5. file["compose"] = run[r].v /\ file["conf"] = run[r].v
    BY <2>2 DEF Whole, FileNames
  <2> QED
    BY <2>2, <2>3, <2>4, <2>5 DEF Part, Whole, Ready
<1>14. CASE GenerateEnv(r)
  <2>1. run[r].pc = "env" /\ Whole(run[r].v) /\ run[r].v \in Releases
    BY <1>14 DEF GenerateEnv, Progress, FilesCopied, Bundled
  <2>2. file["example"] # "absent"
    BY <2>1, InstallerAssumption DEF Whole, FileNames
  <2>3. PICK pc \in {"protect", "rendering"} : Goto(r, pc)
    BY <1>14, <2>2 DEF GenerateEnv
  <2>4. Same /\ run'[r].pc = pc
    BY <2>3, <1>g DEF Phases
  <2>5. UNCHANGED <<file, volume, stack, cli, host>> /\ env' # "absent"
    BY <1>14, <2>2 DEF GenerateEnv, stackVars, cliVars
  <2> QED
    BY <2>1, <2>4, <2>5 DEF Part, Whole, Ready
<1>15. CASE CreateFile(r)
  <2>1. Same /\ run'[r].pc = "copying" /\ run[r].pc = "copy"
    BY <1>15, <1>g DEF CreateFile, Phases
  <2>2. /\ UNCHANGED <<env, volume, stack, cli, host>>
        /\ file' = [file EXCEPT ![Files[run[r].i]] = "torn"]
    BY <1>15 DEF CreateFile, stackVars, cliVars
  <2>3. run[r].i \in 1..3 /\ file \in [FileNames -> Contents]
    BY <1>0 DEF RunRecords, InstallerTypeOK
  <2>4. \A j \in 1..3 : j < run[r].i => file[Files[j]] = run[r].v
    BY <2>1
  <2>5. \A j \in 1..3 : j < run[r].i => file'[Files[j]] = run[r].v
    BY <2>2, <2>3, <2>4, FileOrder
  <2>6. FilesCopied(r)'
    BY <2>1, <2>5 DEF FilesCopied, Bundled, Starting, Recording
  <2> QED
    BY <2>1, <2>2, <2>6 DEF Progress, CliFirst, EnvInPlace, HostPrepared, StackStarted,
       Recording, Bundled, Starting
<1>16. CASE WriteFile(r)
  <2>1. run[r].i \in 1..3 /\ file \in [FileNames -> Contents]
    BY <1>0 DEF RunRecords, InstallerTypeOK
  <2>2. /\ UNCHANGED <<env, volume, stack, cli, host>>
        /\ file' = [file EXCEPT ![Files[run[r].i]] = run[r].v]
        /\ run[r].pc = "copying"
    BY <1>16 DEF WriteFile, stackVars, cliVars
  <2>3. run[r].v \in Releases
    BY <2>2 DEF Targeted, Active
  <2>4. \A j \in 1..3 : j < run[r].i => file[Files[j]] = run[r].v
    BY <2>2
  <2>5. \A j \in 1..3 : j < run[r].i \/ j = run[r].i => file'[Files[j]] = run[r].v
    BY <2>1, <2>2, <2>4, FileOrder
  <2>6. CASE run[r].i = 3 /\ run' = [run EXCEPT ![r].i = 1, ![r].pc = "env"]
    <3>1. /\ run'[r].pc = "env" /\ run'[r].cmd = run[r].cmd /\ run'[r].v = run[r].v
          /\ run'[r].own = run[r].own /\ run'[r].todo = run[r].todo /\ run'[r].i = 1
        BY <1>0, <2>6 DEF RunRecords
    <3>2. \A f \in FileNames : file'[f] = run[r].v
        BY <2>5, <2>6, FileOrder
    <3>3. FilesCopied(r)'
        BY <3>1, <3>2, <2>3 DEF FilesCopied, Whole
    <3> QED
        BY <3>1, <3>3, <2>2 DEF Progress, CliFirst, EnvInPlace, HostPrepared, StackStarted,
           Recording, Bundled, Starting
  <2>7. CASE run[r].i # 3 /\ run' = [run EXCEPT ![r].i = @ + 1, ![r].pc = "copy"]
    <3>1. /\ run'[r].pc = "copy" /\ run'[r].cmd = run[r].cmd /\ run'[r].v = run[r].v
          /\ run'[r].own = run[r].own /\ run'[r].todo = run[r].todo /\ run'[r].i = run[r].i + 1
        BY <1>0, <2>7 DEF RunRecords
    <3>2. \A j \in 1..3 : j < run'[r].i => file'[Files[j]] = run'[r].v
        BY <2>1, <2>5, <3>1
    <3>3. FilesCopied(r)'
        BY <3>1, <3>2 DEF FilesCopied, Bundled, Starting, Recording
    <3> QED
        BY <3>1, <3>3, <2>2 DEF Progress, CliFirst, EnvInPlace, HostPrepared, StackStarted,
           Recording, Bundled, Starting
  <2> QED
    BY <1>16, <2>6, <2>7, FileOrder DEF WriteFile, Copied, Goto
<1>17. CASE \E v \in Releases : LatestRelease(r, v)
  <2>1. PICK v \in Releases : LatestRelease(r, v)
    BY <1>17
  <2>2. /\ run'[r].pc = "fetch" /\ run'[r].cmd = run[r].cmd /\ run'[r].own = run[r].own
        /\ run'[r].todo = run[r].todo /\ run[r].pc = "latest" /\ run'[r].i = run[r].i
    BY <2>1, <1>0 DEF LatestRelease, RunRecords
  <2>3. UNCHANGED <<file, env, volume, stack, cli, host>>
    BY <2>1 DEF LatestRelease, filesVars, stackVars, cliVars
  <2> QED
    BY <2>2, <2>3 DEF Part, Whole, Ready
<1>18. CASE LoadState(r)
  <2>1. Same /\ run'[r].pc = "save" /\ run[r].pc = "load"
    BY <1>18, <1>0 DEF LoadState, RunRecords
  <2>2. UNCHANGED <<file, env, volume, stack, cli, host>>
    BY <1>18 DEF LoadState, filesVars, stackVars, cliVars
  <2> QED
    BY <2>1, <2>2 DEF Part, Whole, Ready
<1>19. CASE SaveState(r)
  <2>1. run' = [run EXCEPT ![r].pc = "fetch", ![r].todo = {"platform"}, ![r].seen = Idle.seen]
        /\ run[r].cmd = "update"
    BY <1>19, <1>e DEF SaveState
  <2>2. run'[r].pc = "fetch" /\ run'[r].cmd = "update" /\ run'[r].i = run[r].i /\ run[r].pc = "save"
    BY <1>19, <2>1, <1>0 DEF SaveState, RunRecords
  <2> QED
    BY <2>2 DEF Part, Whole, Ready
<1>20. CASE WriteFileFails(r) \/ RenderEnvFails(r)
    BY <1>20, <1>e DEF WriteFileFails, RenderEnvFails
<1> QED
    BY <1>1, <1>2, <1>3, <1>4, <1>5, <1>6, <1>7, <1>8, <1>9, <1>10, <1>11, <1>12, <1>13,
       <1>14, <1>15, <1>16, <1>17, <1>18, <1>19, <1>20 DEF Step

(* What a run alone has achieved stays achieved: nobody else is at work.      *)
LEMMA ProgressStep ==
    ASSUME InstallerTypeOK, Targeted, Sole, Progressing, [InstallerNext]_vars
    PROVE  Progressing'
<1> SUFFICES ASSUME NEW o \in Runs, run'[o].pc # "idle", run'[o].alone PROVE Progress(o)'
    BY DEF Progressing, Active
<1>u. ASSUME UNCHANGED <<file, env, volume, stack, cli, host>>, run'[o] = run[o] PROVE Progress(o)'
  <2>1. Active(o) /\ run[o].alone
    BY <1>u DEF Active
  <2>2. Progress(o)
    BY <2>1 DEF Progressing
  <2> QED
    BY <1>u, <2>2 DEF Progress, CliFirst, FilesCopied, EnvInPlace, HostPrepared,
       StackStarted, Recording, Bundled, Starting, Part, Whole, Ready, ServerPassword
<1>1. ASSUME NEW r \in Runs, Step(r) PROVE Progress(o)'
  <2>1. CASE o = r
    <3>1. Active(r) /\ run[r].alone
        BY <1>1, <2>1, StepFrame
    <3>2. Progress(r)
        BY <3>1 DEF Progressing
    <3> QED
        BY <1>1, <2>1, <3>2, StepProgress
  <2>2. CASE o # r
    <3>1. Active(r) /\ run'[o] = run[o]
        BY <1>1, <2>2, StepFrame
    <3>2. Active(o) /\ run[o].alone
        BY <3>1 DEF Active
    <3> QED
        BY <2>2, <3>1, <3>2 DEF Sole
  <2> QED
    BY <2>1, <2>2
<1>2. ASSUME NEW r \in Runs, Command(r) PROVE Progress(o)'
  <2>1. o = r
    BY <1>2, CommandFrame DEF Active
  <2>2. /\ run'[r].pc \in {"idle", "swap", "path", "fetchCli", "fetch"} /\ run'[r].i = 1
        /\ run'[r].cmd = "install" => run'[r].pc \in {"swap", "path"}
        /\ run'[r].pc = "path" => cli' = run'[r].own
        /\ run'[r].pc \in {"path", "swap"} => run'[r].cmd = "install"
        /\ run'[r].pc = "fetchCli" => "cli" \in run'[r].todo
    BY <1>2, CommandFrame
  <2> QED
    BY <2>1, <2>2 DEF Progress, CliFirst, FilesCopied, EnvInPlace, HostPrepared,
       StackStarted, Recording, Bundled, Starting
<1>3. ASSUME NEW r \in Runs, Stop(r) PROVE Progress(o)'
  <2>1. run'[o] = run[o]
    BY <1>3, EndsTyped DEF Stop, InstallerTypeOK
  <2> QED
    BY <1>3, <2>1, <1>u DEF Stop, filesVars, stackVars, cliVars
<1>4. CASE Reboot
    BY <1>4, RebootTyped
<1>5. CASE UNCHANGED vars
    BY <1>5, <1>u DEF vars
<1> QED
    BY <1>1, <1>2, <1>3, <1>4, <1>5 DEF InstallerNext

(* Which steps touch the stack or the volume, and how.                        *)
LEMMA StackSteps ==
    ASSUME NEW r \in Runs, Step(r)
    PROVE  \/ UNCHANGED <<volume, stack>>
           \/ At(r, "down") /\ UNCHANGED <<env, volume>> /\ stack' = Down
           \/ /\ At(r, "up") /\ UNCHANGED env /\ stack'.creds = ServerPassword
              /\ volume' = IF volume = "none" THEN DatabasePassword ELSE volume
<1>1. CASE ComposeUp(r)
  BY <1>1 DEF ComposeUp, Started, At, filesVars, stackVars
<1>2. CASE ComposeDown(r)
  BY <1>2 DEF ComposeDown, At, filesVars
<1>3. CASE ~ComposeUp(r) /\ ~ComposeDown(r)
  BY <1>3 DEF Step, FetchCli, Swap, SwapRefused, MoveAside, SwapAgain,
     EnsureOnPath, LatestRelease, Fetch, CreateFile, WriteFile, WriteFileFails,
     GenerateEnv, RenderEnv, RenderEnvFails, ProtectSecret, OpenFirewall, WaitReady,
     LoadState, SaveState, stackVars
<1> QED
  BY <1>1, <1>2, <1>3

(* And which touch the .env.                                                 *)
LEMMA EnvChanges ==
    ASSUME InstallerTypeOK, OneWriter, NEW r \in Runs, Step(r)
    PROVE  \/ UNCHANGED env /\ run'[r].pc # "rendering"
           \/ /\ env = "absent" /\ env' = "empty" /\ UNCHANGED <<volume, stack>>
           \/ /\ At(r, "rendering") /\ env = "empty" /\ UNCHANGED <<volume, stack>>
              /\ run'[r].pc # "rendering"
<1>1. CASE RenderEnv(r) \/ RenderEnvFails(r)
  <2>1. At(r, "rendering") /\ UNCHANGED <<volume, stack>> /\ env = "empty"
    BY <1>1 DEF RenderEnv, RenderEnvFails, stackVars, OneWriter
  <2>2. run'[r].pc # "rendering"
    <3>1. RunTypeOK /\ "protect" \in Phases
        BY DEF InstallerTypeOK, Phases
    <3>2. Goto(r, "protect") \/ Ends(r)
        BY <1>1 DEF RenderEnv, RenderEnvFails
    <3> QED
        BY <3>1, <3>2, GotoTyped, EndsTyped
  <2> QED
    BY <2>1, <2>2
<1>2. CASE ~RenderEnv(r) /\ ~RenderEnvFails(r)
  <2>1. \/ env' = env /\ run'[r].pc # "rendering"
        \/ env = "absent" /\ env' = "empty" /\ run'[r].pc = "rendering"
    BY <1>2, EnvSteps
  <2>2. CASE env' = env /\ run'[r].pc # "rendering"
    BY <2>2
  <2>3. CASE env = "absent" /\ env' = "empty" /\ run'[r].pc = "rendering"
    <3>1. UNCHANGED <<volume, stack>>
        BY <2>3, StackSteps
    <3> QED
        BY <2>3, <3>1
  <2> QED
    BY <2>1, <2>2, <2>3
<1> QED
  BY <1>1, <1>2

(* The generated password is used only when .env is whole, and .env stays whole. *)
LEMMA CredentialsStep ==
    ASSUME InstallerTypeOK, OneWriter, CredentialsKept, [InstallerNext]_vars
    PROVE  CredentialsKept'
<1>1. ASSUME NEW r \in Runs, Step(r) PROVE CredentialsKept'
  <2>1. CASE UNCHANGED <<volume, stack>>
    BY <1>1, <2>1, EnvChanges DEF CredentialsKept
  <2>2. CASE At(r, "down") /\ UNCHANGED <<env, volume>> /\ stack' = Down
    BY <2>2 DEF CredentialsKept, Down
  <2>3. CASE /\ At(r, "up") /\ UNCHANGED env /\ stack'.creds = ServerPassword
             /\ volume' = IF volume = "none" THEN DatabasePassword ELSE volume
    BY <2>3 DEF CredentialsKept, DatabasePassword, ServerPassword
  <2> QED
    BY <1>1, <2>1, <2>2, <2>3, StackSteps
<1>2. ASSUME NEW r \in Runs, Command(r) PROVE CredentialsKept'
  BY <1>2, CommandFrame DEF CredentialsKept
<1>3. ASSUME NEW r \in Runs, Stop(r) PROVE CredentialsKept'
  BY <1>3 DEF Stop, CredentialsKept, filesVars, stackVars
<1>4. CASE Reboot
  <2>1. UNCHANGED <<env, volume>>
    BY <1>4 DEF Reboot, filesVars
  <2>2. stack'.creds = stack.creds
    BY <1>4 DEF Reboot, InstallerTypeOK
  <2> QED
    BY <2>1, <2>2 DEF CredentialsKept
<1>5. CASE UNCHANGED vars
  BY <1>5 DEF vars, stackVars, filesVars, CredentialsKept
<1> QED
  BY <1>1, <1>2, <1>3, <1>4, <1>5 DEF InstallerNext

(* Until two runs overlap, the .env is there before the database is, and it is   *)
(* not written once the database has been created without it.                  *)
LEMMA WrittenFirstStep ==
    ASSUME InstallerTypeOK, OneWriter, Sole, Progressing, CredentialsKept, WrittenFirst,
           [InstallerNext]_vars
    PROVE  WrittenFirst'
<1> SUFFICES ASSUME ~overlapped' PROVE WrittenFirst'
    BY DEF WrittenFirst
<1>1. ASSUME NEW r \in Runs, Step(r) PROVE WrittenFirst'
  <2>0. /\ Active(r) /\ ~overlapped
        /\ \A o \in Runs : o # r => run'[o] = run[o]
    BY <1>1, StepFrame
  <2>1. Progress(r) /\ \A o \in Runs : o # r => ~Active(o)
    BY <2>0 DEF Sole, Progressing
  <2>2. \A o \in Runs : o # r => run'[o].pc = "idle"
    BY <2>0, <2>1 DEF Active
  <2>3. /\ volume # "none" => env # "absent"
        /\ stack.creds # "none" => volume # "none"
        /\ env = "whole" => volume # "default" /\ stack.creds # "blank"
        /\ run[r].pc = "rendering" => volume = "none"
    BY <2>0 DEF WrittenFirst, At
  <2>4. \A o \in Runs : run'[o].pc = "rendering" => o = r
    BY <2>2
  <2>5. CASE UNCHANGED <<volume, stack>>
    BY <1>1, <2>3, <2>4, <2>5, EnvChanges DEF WrittenFirst, At
  <2>6. CASE At(r, "down") /\ UNCHANGED <<env, volume>> /\ stack' = Down
    <3>1. run'[r].pc # "rendering"
        BY <1>1, <2>6, EnvChanges DEF At
    <3> QED
        BY <2>3, <2>4, <2>6, <3>1 DEF WrittenFirst, At, Down
  <2>7. CASE /\ At(r, "up") /\ UNCHANGED env /\ stack'.creds = ServerPassword
             /\ volume' = IF volume = "none" THEN DatabasePassword ELSE volume
    <3>1. run'[r].pc # "rendering"
        BY <1>1, <2>7, EnvChanges DEF At
    <3>2. env # "absent"
        BY <2>1, <2>7 DEF Progress, EnvInPlace, Bundled, Starting, At
    <3>3. volume' # "none" /\ (env = "whole" => volume' # "default")
        BY <2>3, <2>7 DEF DatabasePassword
    <3>4. env = "whole" => stack'.creds # "blank"
        BY <2>7 DEF ServerPassword
    <3> QED
        BY <2>4, <2>7, <3>1, <3>2, <3>3, <3>4 DEF WrittenFirst, At
  <2> QED
    BY <1>1, <2>5, <2>6, <2>7, StackSteps
<1>2. ASSUME NEW r \in Runs, Command(r) PROVE WrittenFirst'
  <2>1. ~overlapped /\ UNCHANGED <<env, volume, stack>>
    BY <1>2, CommandFrame
  <2>2. \A o \in Runs : run'[o].pc = "rendering" => run[o].pc = "rendering"
    BY <1>2, CommandFrame
  <2> QED
    BY <2>1, <2>2 DEF WrittenFirst, At
<1>3. ASSUME NEW r \in Runs, Stop(r) PROVE WrittenFirst'
  <2>1. \A o \in Runs : run'[o].pc = "rendering" => run[o].pc = "rendering"
    BY <1>3, EndsTyped DEF Stop, InstallerTypeOK
  <2> QED
    BY <1>3, <2>1 DEF Stop, WrittenFirst, At, filesVars, stackVars
<1>4. CASE Reboot
  <2>1. ~overlapped /\ UNCHANGED <<env, volume>> /\ \A o \in Runs : run'[o].pc = "idle"
    BY <1>4, RebootTyped DEF Reboot, filesVars
  <2>2. stack'.creds = stack.creds
    BY <1>4 DEF Reboot, InstallerTypeOK
  <2> QED
    BY <2>1, <2>2 DEF WrittenFirst, At
<1>5. CASE UNCHANGED vars
    BY <1>5 DEF vars, stackVars, filesVars, WrittenFirst, At
<1> QED
    BY <1>1, <1>2, <1>3, <1>4, <1>5 DEF InstallerNext

LEMMA InvInit == InstallerInit => InstallerInv
<1> SUFFICES ASSUME InstallerInit PROVE InstallerInv
    OBVIOUS
<1>1. \A r \in Runs : run[r].pc = "idle"
    BY IdleTyped DEF InstallerInit
<1>2. OneWriter /\ Sole /\ Progressing
    BY <1>1 DEF OneWriter, Sole, Progressing, Active, At
<1>3. CredentialsKept /\ WrittenFirst
    BY <1>1 DEF CredentialsKept, WrittenFirst, InstallerInit, Down, At
<1> QED
    BY <1>2, <1>3, InitTyped DEF InstallerInv

LEMMA InvStep == InstallerInv /\ [InstallerNext]_vars => InstallerInv'
BY NextTyped, WriterStep, SoleStep, ProgressStep, CredentialsStep, WrittenFirstStep
   DEF InstallerInv

(* A database that has the generated password is never given a server without it: *)
(* whatever overlaps, fails or is killed, .env keeps it.  And until two runs       *)
(* overlap, a .env that was written serves both the database and the server.        *)
THEOREM CredentialsStay == InstallerSpec => []CredentialsMatch
<1>1. InstallerInv => CredentialsMatch
    BY DEF InstallerInv, CredentialsKept, WrittenFirst, CredentialsMatch
<1> QED
    BY <1>1, InvInit, InvStep, PTL DEF InstallerSpec

LEMMA CompletionStep ==
    ASSUME InstallerInv, NEW r \in Runs, Completes(r)
    PROVE  /\ Whole(run[r].v) /\ Ready
           /\ stack.defs = run[r].v
           /\ run[r].cmd = "update" => stack.conf = run[r].v
           /\ env = "whole" /\ "secret" \in host
           /\ run[r].cmd = "install" => cli = run[r].own /\ {"path", "port"} \subseteq host
<1>1. run[r].pc = "save" /\ run[r].alone /\ Recording(r)
    BY DEF Completes, At, Recording
<1>2. Progress(r)
    BY <1>1 DEF InstallerInv, Progressing, Active
<1>3. stack.creds = "generated" /\ Ready
    BY <1>1, <1>2 DEF Progress, StackStarted, Ready
<1>4. Whole(run[r].v) /\ "secret" \in host
    BY <1>1, <1>2 DEF Progress, FilesCopied, EnvInPlace
<1>5. stack.defs = run[r].v /\ env = "whole" /\ (run[r].cmd = "update" => stack.conf = run[r].v)
    BY <1>1, <1>2, <1>3 DEF Progress, StackStarted, InstallerInv, CredentialsKept
<1>6. run[r].cmd = "install" => cli = run[r].own /\ {"path", "port"} \subseteq host
    BY <1>1, <1>2 DEF Progress, HostPrepared
<1> QED
    BY <1>3, <1>4, <1>5, <1>6

(* A run that had the host to itself and completes has made it whole again,    *)
(* whatever the runs before it left behind.                                  *)
THEOREM CompletedRunsAreWhole == InstallerSpec => CompletedIsWhole
<1> DEFINE Done(r) == /\ Whole(run[r].v) /\ Ready
                      /\ stack.defs = run[r].v
                      /\ run[r].cmd = "update" => stack.conf = run[r].v
                      /\ env = "whole" /\ "secret" \in host
                      /\ run[r].cmd = "install" =>
                            cli = run[r].own /\ {"path", "port"} \subseteq host
<1>1. InstallerInv => \A r \in Runs : Completes(r) => Done(r)
    BY CompletionStep
<1>2. InstallerInv /\ [InstallerNext]_vars => [\A r \in Runs : Completes(r) => Done(r)]_vars
    BY <1>1
<1> QED
    BY <1>2, InvInit, InvStep, PTL DEF InstallerSpec, CompletedIsWhole

===========================================================================
