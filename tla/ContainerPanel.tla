--------------------------- MODULE ContainerPanel ---------------------------
(***************************************************************************)
(* The containers page of one host in the browser: the list polled from the      *)
(* server, the table with its filter and pages, the row menus, the context menu  *)
(* and the inspect drawer, the commands an administrator gives from them, and    *)
(* the dialog that confirms a deletion.                                      *)
(*                                                                         *)
(* A container is its place in Docker's list.  A list, at the server or in the     *)
(* browser, is what Docker had and at which of its changes.                     *)
(***************************************************************************)
EXTENDS Integers, Sequences, FiniteSetsExt

CONSTANTS
    NumContainers,
    MaxEvents,    \* bound: commands given, changes of a container from outside the
                  \* page and failed requests for the list, together
    Filters,      \* bound: the chips the user clicks
    Tried,        \* bound: the actions the user picks
    PageSize,     \* PAGE_SIZE
    None

ASSUME ContainerPanelAssumption ==
    /\ NumContainers \in Nat \ {0} /\ PageSize \in Nat \ {0}
    /\ "all" \in Filters /\ Filters \subseteq {"all", "running", "exited", "paused"}
    /\ Tried \subseteq {"start", "stop", "restart", "remove", "pause", "unpause"}
    /\ MaxEvents \in Nat
    /\ None \notin Nat
    /\ None \notin [id : 1..NumContainers, state : {"running", "exited", "paused"}]

VARIABLES
    docker,     \* the host's containers, and how many changes they have had
    inventory,  \* the server's list of the host
    fetches,    \* requests for the list whose answer the page will take
    list,       \* the list the page has, Nothing before the first
    failed,     \* the last request for the list failed: the table is not shown
    events,     \* how many of MaxEvents there have been
    table,      \* ContainerTable: filter, page, the container of its context menu
    drawer,     \* the row whose inspect drawer is open, or None
    details,    \* the inspect answer in the cache for the drawer's container, or None
    run,        \* useContainerCommands: run[i]
    busyKey,
    dialog      \* ConfirmProvider: request, toggled, resolveRef

queryVars == <<inventory, fetches, list, failed, events>>
pageVars == <<table, drawer, details>>
commandVars == <<run, busyKey, dialog>>
vars == <<docker, queryVars, pageVars, commandVars>>

Runs == 1..MaxEvents
Containers == 1..NumContainers
States == {"running", "exited", "paused"}
MaxAt == 1 + MaxEvents
Lists == [at : 1..MaxAt, of : [Containers -> States \cup {"absent"}]]
Nothing == [at |-> 0, of |-> [c \in Containers |-> "absent"]]

(* What a command may wait for: the list, or a container's inspect answer.          *)
TheList == 0
Answers == {TheList} \cup Containers

Row(c, state) == [id |-> c, state |-> state]
Rows == [id : Containers, state : States]
Key(row, action) == [id |-> row.id, action |-> action]

FreshTable == [filter |-> "all", page |-> 1, menu |-> None]
NoDialog == [request |-> None, offers |-> FALSE, toggled |-> FALSE, resolveRef |-> None]
NewRun == [pc |-> "idle", row |-> None, action |-> None, force |-> FALSE,
           fromDrawer |-> FALSE, worked |-> "unknown", since |-> 0, awaits |-> {}]
Ended == [NewRun EXCEPT !.pc = "done"]

PanelTypeOK ==
    /\ docker \in Lists /\ inventory \in Lists /\ list \in Lists \cup {Nothing}
    /\ list.at <= inventory.at /\ inventory.at <= docker.at
    /\ Cardinality(fetches) <= 1 /\ fetches \subseteq Lists \cup {Nothing}
    /\ \A f \in fetches : f.at <= inventory.at /\ (f # Nothing => list.at <= f.at)
    /\ failed \in BOOLEAN /\ events \in 0..MaxEvents
    /\ table.filter \in Filters /\ table.page \in 1..NumContainers
    /\ table.menu \in {None} \cup Rows /\ drawer \in {None} \cup Rows
    /\ details \in {None} \cup States /\ (drawer = None => details = None)
    /\ \A i \in Runs :
         /\ run[i].pc \in {"idle", "asking", "sent", "refreshing", "done"}
         /\ run[i].row \in {None} \cup Rows /\ run[i].action \in {None} \cup Tried
         /\ run[i].pc \in {"asking", "sent", "refreshing"} => run[i].row # None
         /\ run[i].worked \in {"unknown", "yes", "no"} /\ run[i].since <= inventory.at
         /\ run[i].awaits \subseteq Answers /\ (run[i].pc = "refreshing" <=> run[i].awaits # {})
    /\ dialog.request \in {None} \cup Runs /\ dialog.resolveRef \in {None} \cup Runs

PanelInit ==
    /\ docker = [at |-> 1,
                 of |-> [c \in Containers |-> IF c = 1 THEN "running" ELSE "exited"]]
    /\ inventory = docker /\ fetches = {} /\ list = Nothing /\ failed = FALSE /\ events = 0
    /\ table = FreshTable /\ drawer = None /\ details = None
    /\ run = [i \in Runs |-> NewRun] /\ busyKey = None /\ dialog = NoDialog

Event == events < MaxEvents /\ events' = events + 1

---------------------------------------------------------------------------
(* Outside the page: Docker and the agent's reports to the server.               *)

Becomes(c, state) ==
    docker' = IF docker.of[c] = state THEN docker
              ELSE [docker EXCEPT !.at = @ + 1, !.of[c] = state]

DockerChanges(c, state) ==
    /\ docker.of[c] \notin {state, "absent"} /\ Becomes(c, state) /\ Event
    /\ UNCHANGED <<inventory, fetches, list, failed, pageVars, commandVars>>

(* What a command makes of a container, or "refused".                            *)
Effect(state, action, force) ==
    CASE state = "absent"                          -> "refused"
      [] action = "start" /\ state # "paused"      -> "running"
      [] action = "stop"                           -> "exited"
      [] action = "restart"                        -> "running"
      [] action = "pause" /\ state = "running"     -> "paused"
      [] action = "unpause" /\ state = "paused"    -> "running"
      [] action = "remove"
           /\ (force \/ state = "exited")          -> "absent"
      [] OTHER                                     -> "refused"

Push == /\ inventory # docker /\ inventory' = docker
        /\ UNCHANGED <<docker, fetches, list, failed, events, pageVars, commandVars>>

---------------------------------------------------------------------------
(* The query of the list.  Nothing in fetches is one the server has not read.     *)

(* refetchInterval, and the Refresh button, which waits for a request under way.     *)
Poll == fetches = {} /\ fetches' = {Nothing}
        /\ UNCHANGED <<docker, inventory, list, failed, events, pageVars, commandVars>>

(* Mutant: a request already under way serves.                                 *)
RefetchJoins == fetches' = IF fetches = {} THEN {Nothing} ELSE fetches

(* Mutant: a request under way is not dropped.                                  *)
RefetchAdds == fetches' = fetches \cup {Nothing}

(* refetch and invalidateQueries drop the answer of a request under way.           *)
Refetch == fetches' = {Nothing}

ServerReads == Nothing \in fetches /\ fetches' = {inventory}
               /\ UNCHANGED <<docker, inventory, list, failed, events, pageVars, commandVars>>

(* What ends with an answer: the commands that waited for nothing else, and with     *)
(* each the busy mark of whichever command set it.  One that worked asks for the      *)
(* list once more, and closes the drawer after a deletion from it.                  *)
Refreshing == {i \in Runs : run[i].pc = "refreshing"}
Ending(answer) == {i \in Refreshing : run[i].awaits \subseteq {answer}}
Succeeding(answer) == {i \in Ending(answer) : run[i].worked = "yes"}
ClosesDrawer(answer) ==
    \E i \in Succeeding(answer) : run[i].fromDrawer /\ run[i].action = "remove"

Resumed(answer) ==
    [i \in Runs |-> IF i \in Ending(answer) THEN Ended
                    ELSE [run[i] EXCEPT !.awaits = @ \ {answer}]]

(* Mutant: a refusal leaves the busy mark.                                      *)
MarkOfRefused(answer) == IF Succeeding(answer) = {} THEN busyKey ELSE None

MarkAfter(answer) == IF Ending(answer) = {} THEN busyKey ELSE None

Settled(answer, left, shown) ==
    /\ run' = Resumed(answer)
    /\ busyKey' = MarkAfter(answer)
    /\ IF ClosesDrawer(answer) THEN drawer' = None /\ details' = None
       ELSE UNCHANGED drawer /\ details' = shown
    /\ fetches' = IF Succeeding(answer) = {} THEN left ELSE {Nothing}
    /\ UNCHANGED dialog

(* Mutant: an error, once shown, stays.                                        *)
ListArrivesFailed == \E f \in fetches \ {Nothing} :
    /\ list' = f /\ UNCHANGED failed
    /\ Settled(TheList, {}, details)
    /\ UNCHANGED <<docker, inventory, events, table>>

ListArrives == \E f \in fetches \ {Nothing} :
    /\ list' = f /\ failed' = FALSE
    /\ Settled(TheList, {}, details)
    /\ UNCHANGED <<docker, inventory, events, table>>

(* A page with no list shows the error instead of the table, which forgets.        *)
ListFails ==
    /\ fetches # {} /\ Event /\ failed' = TRUE
    /\ table' = FreshTable
    /\ Settled(TheList, {}, details)
    /\ UNCHANGED <<docker, inventory, list>>

---------------------------------------------------------------------------
(* The table.  The drawer and the dialog cover it: what is not a command is done      *)
(* when neither is open.  The pointer closes the context menu, wherever it is.       *)

TableShown == list # Nothing /\ ~failed
Listed == {c \in Containers : list.of[c] # "absent"}
LiveRow(c) == Row(c, list.of[c])

Filtered == {c \in Listed : table.filter \in {"all", list.of[c]}}
PageCount == Max({1, (Cardinality(Filtered) + PageSize - 1) \div PageSize})

(* Mutant: the page asked for, whatever the list has become.                     *)
PageAsked == table.page

CurrentPage == Min({table.page, PageCount})

Rank(c) == Cardinality({d \in Filtered : d <= c})
Visible == {c \in Filtered : (CurrentPage - 1) * PageSize < Rank(c)
                               /\ Rank(c) <= CurrentPage * PageSize}

Uncovered == TableShown /\ drawer = None /\ dialog.request = None
TableSteps(t) ==
    table' = t /\ UNCHANGED <<docker, queryVars, drawer, details, commandVars>>

SetFilter(f) == /\ Uncovered /\ f # table.filter
                /\ TableSteps([FreshTable EXCEPT !.filter = f])
SetPage(p) == /\ Uncovered /\ p # CurrentPage /\ p \in 1..PageCount
              /\ TableSteps([table EXCEPT !.page = p, !.menu = None])

(* The context menu keeps the row it was opened on; dismissing it forgets it.       *)
OpenContextMenu(c) == Uncovered /\ c \in Visible /\ TableSteps([table EXCEPT !.menu = LiveRow(c)])
CloseContextMenu == table.menu # None /\ TableSteps([table EXCEPT !.menu = None])

---------------------------------------------------------------------------
(* The inspect drawer and its query.                                           *)

DrawerSteps(row, shown) ==
    /\ drawer' = row /\ details' = shown
    /\ UNCHANGED <<docker, queryVars, commandVars>>

Inspect(c) == /\ Uncovered /\ c \in Visible /\ DrawerSteps(LiveRow(c), None)
              /\ table' = [table EXCEPT !.menu = None]
CloseDrawer == drawer # None /\ DrawerSteps(None, None) /\ UNCHANGED table

(* The answer to an inspect request, or its failure, which leaves the answer before.    *)
(* The open drawer asks when it opens, on its Refresh button and when a command is      *)
(* answered: an answer may come whenever it is open.  A request that a command waits     *)
(* for goes on when the drawer closes; one that a deletion cancels is released like one  *)
(* that failed.                                                             *)
InspectArrives(c) ==
    LET shows == drawer # None /\ drawer.id = c
        found == IF docker.of[c] = "absent" THEN None ELSE docker.of[c]
    IN  /\ shows \/ \E i \in Runs : c \in run[i].awaits
        /\ \E shown \in IF shows THEN {found, details} ELSE {details} :
             Settled(c, fetches, shown)
        /\ UNCHANGED <<docker, inventory, list, failed, events, table>>

DrawerState == IF details = None THEN drawer.state ELSE details

---------------------------------------------------------------------------
(* Commands.  Which controls offer what: the buttons of a row, its menus, and the  *)
(* drawer's footer.                                                         *)

RowBusy(c) == busyKey # None /\ busyKey.id = c

RowButtons(state) ==
    CASE state = "running" -> {"stop", "restart"}
      [] state = "exited"  -> {"start"}
      [] OTHER             -> {}

MenuItems(state) == {"remove"} \cup
    CASE state = "running" -> {"stop", "restart", "pause"}
      [] state = "paused"  -> {"start", "unpause"}
      [] OTHER             -> {"start"}

(* Docker's inspect, unlike its list, calls a paused container running as well.    *)
DrawerButtons(state) == {"remove"} \cup
    CASE state = "running" -> {"stop", "restart", "pause"}
      [] state = "paused"  -> {"unpause"}
                                \cup (IF details = None THEN {} ELSE {"stop", "restart"})
      [] OTHER             -> {"start"}

(* run up to its first await: a deletion asks, any other command is sent.          *)
Asking(i, r, toggled) ==
    dialog' = [request |-> i, offers |-> r.row.state = "running", toggled |-> toggled,
               resolveRef |-> i]
WithCancelled(i, r) ==
    [j \in Runs |-> IF j = i THEN r
                    ELSE IF j = dialog.resolveRef THEN Ended ELSE run[j]]

(* Mutant: the checkbox keeps what the question before left in it.                 *)
AskToggled(i, r) == run' = WithCancelled(i, r) /\ Asking(i, r, dialog.toggled)

(* Mutant: a question asked over another orphans it.                             *)
AskOver(i, r) == run' = [run EXCEPT ![i] = r] /\ Asking(i, r, FALSE)

Ask(i, r) == run' = WithCancelled(i, r) /\ Asking(i, r, FALSE)

Give(i, row, action, fromDrawer) ==
    LET r(pc) == [NewRun EXCEPT !.pc = pc, !.row = row, !.action = action,
                                !.fromDrawer = fromDrawer]
    IN  /\ run[i].pc = "idle" /\ (i > 1 => run[i - 1].pc # "idle")
        /\ IF action = "remove"
           THEN Ask(i, r("asking")) /\ UNCHANGED busyKey
           ELSE /\ run' = [run EXCEPT ![i] = r("sent")]
                /\ busyKey' = Key(row, action)
                /\ UNCHANGED dialog
        /\ Event
        /\ UNCHANGED <<docker, inventory, fetches, list, failed, drawer, details>>

ClickRow(i, c, action) ==
    /\ TableShown /\ c \in Visible
    /\ action \in RowButtons(LiveRow(c).state) /\ ~RowBusy(c)
    /\ Give(i, LiveRow(c), action, FALSE) /\ table' = [table EXCEPT !.menu = None]

PickFromMenu(i, c, action) ==
    /\ TableShown /\ c \in Visible
    /\ action \in MenuItems(LiveRow(c).state)
    /\ Give(i, LiveRow(c), action, FALSE) /\ table' = [table EXCEPT !.menu = None]

PickFromContextMenu(i, action) ==
    /\ TableShown /\ table.menu # None /\ action \in MenuItems(table.menu.state)
    /\ Give(i, table.menu, action, FALSE)
    /\ table' = [table EXCEPT !.menu = None]

ClickDrawer(i, action) ==
    /\ drawer # None /\ action \in DrawerButtons(DrawerState) /\ ~RowBusy(drawer.id)
    /\ Give(i, drawer, action, TRUE) /\ UNCHANGED table

(* The dialog: its checkbox, Delete, and Cancel, the backdrop or Escape.            *)
Toggle == /\ dialog.request # None /\ dialog.offers
          /\ dialog' = [dialog EXCEPT !.toggled = ~@]
          /\ UNCHANGED <<docker, queryVars, pageVars, run, busyKey>>

Settle(r) ==
    /\ dialog.request # None
    /\ dialog' = [dialog EXCEPT !.request = None, !.resolveRef = None]
    /\ run' = [run EXCEPT ![dialog.resolveRef] = r]
    /\ UNCHANGED <<docker, queryVars, pageVars>>

Asker == run[dialog.resolveRef]

Confirm == /\ Settle([Asker EXCEPT !.pc = "sent", !.force = dialog.toggled])
           /\ busyKey' = Key(Asker.row, "remove")
Cancel == Settle(Ended) /\ UNCHANGED busyKey

(* The server, the agent and Docker, seen from here.                             *)
Execute(i) ==
    LET c == run[i].row.id
        e == Effect(docker.of[c], run[i].action, run[i].force)
    IN  /\ run[i].pc = "sent" /\ run[i].worked = "unknown"
        /\ run' = [run EXCEPT ![i].worked = IF e = "refused" THEN "no" ELSE "yes"]
        /\ IF e = "refused" THEN UNCHANGED docker ELSE Becomes(c, e)
        /\ UNCHANGED <<queryVars, pageVars, busyKey, dialog>>

(* onSuccess, for a refusal too, which is an answer that says so: forget the inspect   *)
(* answer of a deleted container, then ask for the list, and again for what the open    *)
(* drawer shows, whose key the list's begins, and wait for both.                     *)
Answered(i) ==
    LET gone == run[i].action = "remove" /\ run[i].worked = "yes"
        mine == drawer # None /\ drawer.id = run[i].row.id
        again == IF drawer = None \/ (gone /\ mine) THEN {} ELSE {drawer.id}
    IN  /\ run[i].pc = "sent" /\ run[i].worked # "unknown"
        /\ run' = [run EXCEPT ![i].pc = "refreshing", ![i].since = inventory.at,
                              ![i].awaits = {TheList} \cup again]
        /\ Refetch
        /\ details' = IF gone /\ mine THEN None ELSE details
        /\ UNCHANGED <<docker, inventory, list, failed, events, table, drawer, busyKey, dialog>>

(* No answer but an error of the request, which says nothing of what Docker did: at    *)
(* once reported, and nothing asked for again.                                   *)
Fails(i) ==
    /\ run[i].pc = "sent" /\ run' = [run EXCEPT ![i] = Ended]
    /\ busyKey' = None
    /\ UNCHANGED <<docker, queryVars, pageVars, dialog>>

---------------------------------------------------------------------------
Around == \/ Push \/ Poll \/ ServerReads \/ ListArrives \/ ListFails
          \/ \E c \in Containers : InspectArrives(c)
User == \/ \E f \in Filters : SetFilter(f)
        \/ \E p \in Containers : SetPage(p)
        \/ \E c \in Containers : OpenContextMenu(c) \/ Inspect(c)
        \/ CloseContextMenu \/ CloseDrawer
        \/ Toggle \/ Confirm \/ Cancel
Command(i) == \/ \E a \in Tried : \/ PickFromContextMenu(i, a) \/ ClickDrawer(i, a)
                                    \/ \E c \in Containers :
                                         ClickRow(i, c, a) \/ PickFromMenu(i, c, a)
              \/ Execute(i) \/ Answered(i) \/ Fails(i)

PanelNext == \/ \E c \in Containers, s \in States \cup {"absent"} : DockerChanges(c, s)
             \/ Around \/ User
             \/ \E i \in Runs : Command(i)

PanelSpec == PanelInit /\ [][PanelNext]_vars
PanelFairSpec == /\ PanelSpec
                 /\ WF_vars(Push) /\ WF_vars(Poll) /\ WF_vars(ServerReads)
                 /\ WF_vars(ListArrives)

---------------------------------------------------------------------------
(* A table with rows to show never shows an empty page, whatever polls, deletions   *)
(* and filters have done to the list since the page was chosen                    *)
(* (ContainerTable.tsx:108-117).                                             *)
PageInRange == TableShown /\ Filtered # {} => Visible # {}

(* Whoever waits for a confirmation is the one the open dialog asks for, so a click  *)
(* answers that deletion and no other, and no deletion waits for ever               *)
(* (ConfirmProvider.tsx:62: "A second request while one is open would orphan the      *)
(* first promise").                                                         *)
OneQuestion == \A i \in Runs :
    run[i].pc = "asking" <=> dialog.request = i /\ dialog.resolveRef = i

(* The busy mark is of a command that is under way: no row spins, or keeps its       *)
(* buttons, for one that was refused, failed or is done with what it waits for         *)
(* (useContainerAction.ts:27-38, useContainerCommands.ts:74-111).                   *)
BusyIsWorking == busyKey # None => \E i \in Runs :
    run[i].pc \in {"sent", "refreshing"} /\ busyKey = Key(run[i].row, run[i].action)

(* A deletion is sent only on the Delete of its own question, and kills a running    *)
(* container only if that question offered it and its box was checked: not with the   *)
(* box of an earlier question (useContainerCommands.ts:50-72).                     *)
Removes(i) == run'[i].pc = "sent" /\ run[i].pc # "sent" /\ run'[i].action = "remove"
RemovalConfirmed == [][\A i \in Runs : Removes(i) =>
    /\ run[i].pc = "asking" /\ dialog.request = i
    /\ run'[i].force => dialog.offers /\ dialog.toggled]_vars

(* When an answered command is reported, the page's list, if it shows one, is no       *)
(* older than what the server had when the answer came: not that of a poll which was    *)
(* under way then, whatever other commands refetch meanwhile and though the command     *)
(* may go on to wait for the drawer's answer (useContainerAction.ts:36).  It does not    *)
(* say that the list shows what the command did: see DoneIsVisible.                   *)
FreshWhenDone == [][\A i \in Refreshing :
    run'[i].pc = "done" /\ ~failed' => list'.at >= run[i].since]_vars

(* NOT so: that the list a command is reported with shows its effect.  The agent        *)
(* answers a command without reporting the list (client.go:635), so the server, and     *)
(* the page, may have the state before it until the next report.                     *)
DoneIsVisible == [][\A i \in Refreshing :
    run'[i].pc = "done" /\ run[i].worked = "yes" /\ ~failed'
      => list'.of[run[i].row.id] = docker.of[run[i].row.id]]_vars

(* Once Docker is left alone the table ends up showing what it has, after any number   *)
(* of commands, refreshes and failed polls; the agent's report of a change is assumed  *)
(* to reach the server (useContainers.ts:13).                                  *)
TableCatchesUp == <>[](TableShown /\ list = docker)

=============================================================================
