----------------------------- MODULE HostPages -----------------------------
(***************************************************************************)
(* The pages about hosts in the browser: the list polled from the server and     *)
(* shown by the hosts page, the metrics page and the search box; the metrics     *)
(* polled for the host on screen and the short history charted from them; and   *)
(* the dialog that renames a host.                                           *)
(*                                                                         *)
(* A host is its place in the server's list.  A name is how many times the host   *)
(* had been renamed when it was given, a sample the time it was taken.            *)
(***************************************************************************)
EXTENDS Integers, SequencesExt

CONSTANTS
    NumHosts,
    MaxSamples,  \* bound: samples the agents push
    MaxEvents,   \* bound: other changes at the server and failed requests, together
    MaxSaves,    \* bound: names the user sends
    Filters,     \* bound: the chips the user clicks
    Keep,        \* HISTORY_LENGTH
    None

ASSUME HostPagesAssumption ==
    /\ NumHosts \in Nat \ {0} /\ Keep \in Nat \ {0}
    /\ MaxSamples \in Nat /\ MaxEvents \in Nat /\ MaxSaves \in Nat
    /\ "all" \in Filters /\ Filters \subseteq {"all", "online", "offline"}
    /\ None \notin Nat

VARIABLES
    agents,     \* the server's record of each host
    samples,    \* its last sample of each, 0 for none
    now,        \* how many samples there have been, which is the time
    events,     \* how many of MaxEvents there have been
    fetches,    \* the request for the list: None in it until the server reads
    samplings,  \* the hosts with a request for their metrics under way
    save,       \* save[i]: a name sent by useRenameHost
    view        \* what the browser has and shows

vars == <<agents, samples, now, events, fetches, samplings, save, view>>

Hosts == 1..NumHosts
Saves == 1..MaxSaves
Times == 0..MaxSamples
Open == 0        \* a rename dialog with no request under way

Dto == [there : BOOLEAN, name : 0..(MaxEvents + MaxSaves), online : BOOLEAN]
Lists == [Hosts -> Dto]
Gone == [there |-> FALSE, name |-> 0, online |-> FALSE]
Route(at, host) == [at |-> at, host |-> host]
NewSave == [pc |-> "idle", host |-> None, answer |-> None]

Listed(l) == IF l = None THEN {} ELSE {h \in Hosts : l[h].there}

(* HostsPage: the cards it draws.                                             *)
Cards(v) ==
    {h \in Listed(v.list) :
        /\ v.page.at = "hosts" /\ ~v.failed
        /\ v.filter = "all" \/ v.list[h].online = (v.filter = "online")}

HostPagesTypeOK ==
    /\ agents \in Lists /\ samples \in [Hosts -> Times] /\ now \in Times /\ events \in 0..MaxEvents
    /\ Cardinality(fetches) <= 1 /\ fetches \subseteq {None} \cup Lists
    /\ samplings \subseteq Hosts
    /\ \A i \in Saves :
         /\ save[i].pc \in {"idle", "sent", "answered", "refreshing", "refreshed", "done"}
         /\ save[i].host \in {None} \cup Hosts /\ save[i].answer \in {None} \cup Dto
    /\ view.list \in {None} \cup Lists /\ view.failed \in BOOLEAN
    /\ view.metrics \in [Hosts -> Times] /\ view.filter \in Filters
    /\ view.page.at \in {"hosts", "host", "metrics"}
    /\ view.page.host \in {None} \cup Hosts
    /\ Len(view.history) <= Keep
    /\ \A h \in Hosts : /\ view.dialog[h] \in {None, Open} \cup Saves
                        /\ view.dialog[h] # None => h \in Cards(view)

HostPagesInit ==
    /\ agents = [h \in Hosts |-> [there |-> TRUE, name |-> 0, online |-> h = 1]]
    /\ samples = [h \in Hosts |-> 0] /\ now = 0 /\ events = 0 /\ fetches = {} /\ samplings = {}
    /\ save = [i \in Saves |-> NewSave]
    /\ view = [list |-> None, failed |-> FALSE, metrics |-> [h \in Hosts |-> 0],
               page |-> Route("hosts", None), filter |-> "all", history |-> <<>>,
               dialog |-> [h \in Hosts |-> None]]

---------------------------------------------------------------------------
(* What a change of the data or of the route makes of the page: React renders it   *)
(* and runs its effects before the next event.                                 *)

(* MetricsPage: the host picked, or the first when that one is not in the list.     *)
Selected(v) ==
    IF v.page.at # "metrics" \/ v.page.host \in Listed(v.list) THEN v.page
    ELSE Route("metrics", IF Listed(v.list) = {} THEN None ELSE Min(Listed(v.list)))

(* Mutant: the history outlives the host it is of.                              *)
ResetNever(page) == view.history

(* useHostMetrics: an empty history for another host, and on another page.          *)
Reset(page) == IF page = view.page THEN view.history ELSE <<>>

(* Mutant: the history is not cut.                                             *)
AddAll(history, sample) == Append(history, sample)

(* [...previous, sample].slice(-HISTORY_LENGTH)                                  *)
Add(history, sample) ==
    LET all == Append(history, sample)
    IN  SubSeq(all, IF Len(all) > Keep THEN Len(all) - Keep + 1 ELSE 1, Len(all))

(* useHostMetrics: the effect on new data.                                     *)
Charted(history, page, metrics) ==
    IF page.host = None \/ metrics[page.host] = 0 THEN history
    ELSE LET sample == [host |-> page.host, collectedAt |-> metrics[page.host]]
         IN  IF history # <<>> /\ Last(history).collectedAt = sample.collectedAt
             THEN history ELSE Add(history, sample)

Settle(new) ==
    \E v \in {new} : \E page \in {Selected(v)} :
    \E w \in {[v EXCEPT !.page = page,
                        !.filter = IF page.at = "hosts" THEN @ ELSE "all",
                        !.history = Charted(Reset(page), page, v.metrics)]} :
        view' = [w EXCEPT !.dialog = [h \in Hosts |-> IF h \in Cards(w) THEN @[h] ELSE None]]

---------------------------------------------------------------------------
(* The server.                                                              *)

Event == events < MaxEvents /\ events' = events + 1

(* The agent's metrics.host.                                                  *)
Push(h) ==
    /\ agents[h].online /\ now < MaxSamples /\ now' = now + 1
    /\ samples' = [samples EXCEPT ![h] = now']
    /\ UNCHANGED <<agents, events, fetches, samplings, save, view>>

(* AgentsService.updateDisplayName.                                            *)
Renames(h) == agents' = [agents EXCEPT ![h].name = @ + 1]

(* Presence, another administrator's rename or deletion, a restart.               *)
ServerChanges ==
    /\ \/ /\ \E h \in Hosts :
              /\ agents[h].there
              /\ \/ agents' = [agents EXCEPT ![h].online = ~@]
                 \/ Renames(h)
                 \/ ~agents[h].online /\ agents' = [agents EXCEPT ![h] = Gone]
          /\ UNCHANGED samples
       \/ samples' = [h \in Hosts |-> 0] /\ UNCHANGED agents
    /\ Event
    /\ UNCHANGED <<now, fetches, samplings, save, view>>

(* HostsController.updateDisplayName: the answer, None when the host is not known.   *)
UpdateDisplayName(i) ==
    /\ save[i].pc = "sent"
    /\ LET h == save[i].host
       IN  IF agents[h].there
           THEN /\ Renames(h)
                /\ save' = [save EXCEPT ![i].pc = "answered", ![i].answer = agents'[h]]
           ELSE /\ save' = [save EXCEPT ![i].pc = "answered"]
                /\ UNCHANGED agents
    /\ UNCHANGED <<samples, now, events, fetches, samplings, view>>

---------------------------------------------------------------------------
(* The query of the list.                                                     *)

(* refetchInterval, and the Refresh buttons, which wait for a request under way.     *)
Poll == /\ fetches = {} /\ fetches' = {None}
        /\ UNCHANGED <<agents, samples, now, events, samplings, save, view>>

ListHosts == /\ None \in fetches /\ fetches' = {agents}
             /\ UNCHANGED <<agents, samples, now, events, samplings, save, view>>

(* The renames that waited for the list have it, or know that it failed.           *)
ListFetched ==
    save' = [i \in Saves |-> IF save[i].pc = "refreshing"
                             THEN [save[i] EXCEPT !.pc = "refreshed"] ELSE save[i]]

ListArrives ==
    /\ fetches \notin {{}, {None}} /\ fetches' = {} /\ ListFetched
    /\ UNCHANGED <<agents, samples, now, events, samplings>>
    /\ \E l \in fetches : Settle([view EXCEPT !.list = l, !.failed = FALSE])

ListFails ==
    /\ fetches # {} /\ fetches' = {} /\ ListFetched /\ Event
    /\ Settle([view EXCEPT !.failed = TRUE])
    /\ UNCHANGED <<agents, samples, now, samplings>>

---------------------------------------------------------------------------
(* The query of the metrics of the host on screen; one that the user leaves         *)
(* completes all the same.                                                    *)

PollMetrics ==
    /\ view.page.host \notin samplings \cup {None}
    /\ samplings' = samplings \cup {view.page.host}
    /\ UNCHANGED <<agents, samples, now, events, fetches, save, view>>

(* The answer is what the server has, 0 for a sample without figures.               *)
GetMetrics(h) ==
    /\ h \in samplings /\ agents[h].there /\ samplings' = samplings \ {h}
    /\ Settle([view EXCEPT !.metrics[h] = samples[h]])
    /\ UNCHANGED <<agents, samples, now, events, fetches, save>>

(* 404, or no answer.                                                        *)
MetricsFail(h) ==
    /\ h \in samplings /\ samplings' = samplings \ {h}
    /\ IF agents[h].there THEN Event ELSE UNCHANGED events
    /\ UNCHANGED <<agents, samples, now, fetches, save, view>>

---------------------------------------------------------------------------
(* What the user does.                                                       *)

(* A card, its menu and its button; a result of the search box, on any page.         *)
OpenHost(h) ==
    /\ h \in Listed(view.list) /\ Settle([view EXCEPT !.page = Route("host", h)])
    /\ UNCHANGED <<agents, samples, now, events, fetches, samplings, save>>

GoTo(at) ==
    /\ at # view.page.at /\ Settle([view EXCEPT !.page = Route(at, None)])
    /\ UNCHANGED <<agents, samples, now, events, fetches, samplings, save>>

(* HostSelect on the metrics page.                                            *)
PickHost(h) ==
    /\ view.page.at = "metrics" /\ h \in Listed(view.list)
    /\ Settle([view EXCEPT !.page.host = h])
    /\ UNCHANGED <<agents, samples, now, events, fetches, samplings, save>>

Choose(f) ==
    /\ view.page.at = "hosts" /\ f # view.filter /\ Settle([view EXCEPT !.filter = f])
    /\ UNCHANGED <<agents, samples, now, events, fetches, samplings, save>>

(* HostCard's menu.                                                          *)
Rename(h) ==
    /\ h \in Cards(view) /\ view.dialog[h] = None
    /\ Settle([view EXCEPT !.dialog[h] = Open])
    /\ UNCHANGED <<agents, samples, now, events, fetches, samplings, save>>

(* Cancel and Escape, which wait while a request is under way.                    *)
Cancel(h) ==
    /\ view.dialog[h] = Open /\ Settle([view EXCEPT !.dialog[h] = None])
    /\ UNCHANGED <<agents, samples, now, events, fetches, samplings, save>>

(* A click beside the dialog reaches the card under it in React's tree, which      *)
(* opens the host, also while a request is under way.                            *)
ClickBeside(h) ==
    /\ view.dialog[h] # None
    /\ Settle([view EXCEPT !.page = Route("host", h)])
    /\ UNCHANGED <<agents, samples, now, events, fetches, samplings, save>>

(* A name that is valid, sent once: the form is disabled meanwhile.                *)
Submit(h, i) ==
    /\ view.dialog[h] = Open /\ save[i].pc = "idle" /\ \A j \in 1..(i - 1) : save[j].pc # "idle"
    /\ save' = [save EXCEPT ![i] = [NewSave EXCEPT !.pc = "sent", !.host = h]]
    /\ Settle([view EXCEPT !.dialog[h] = i])
    /\ UNCHANGED <<agents, samples, now, events, fetches, samplings>>

---------------------------------------------------------------------------
(* useRenameHost.                                                            *)

(* Mutant: a request already under way serves.                                 *)
InvalidateJoins == fetches' = IF fetches = {} THEN {None} ELSE fetches

(* invalidateQueries drops the answer of a request under way.                      *)
Invalidate == fetches' = {None}

(* setQueryData: the answer in the list, if there is one, over what it had.          *)
Merged(answer, h) ==
    IF h \in Listed(view.list)
    THEN [view EXCEPT !.list[h] = answer, !.failed = FALSE]
    ELSE IF view.list = None THEN view ELSE [view EXCEPT !.failed = FALSE]

(* onSuccess; of the metrics, only a page without a dialog has a query to refetch.  *)
Saved(i) ==
    /\ save[i].pc = "answered" /\ save[i].answer # None
    /\ save' = [save EXCEPT ![i].pc = "refreshing"]
    /\ UNCHANGED <<agents, samples, now, events>>
    /\ Settle(Merged(save[i].answer, save[i].host))
    /\ Invalidate
    /\ samplings' = samplings \cup ({view.page.host} \cap Hosts)

(* Mutant: the dialog stays locked on an error.                                 *)
SaveFailsLocked(i) ==
    /\ save[i].pc \in {"sent", "answered"} /\ Event
    /\ save' = [save EXCEPT ![i].pc = "done"]
    /\ UNCHANGED <<agents, samples, now, fetches, samplings, view>>

(* The dialog shows the error and lets the user try again.                        *)
SaveFails(i) ==
    /\ \/ save[i].pc = "answered" /\ save[i].answer = None /\ UNCHANGED events
       \/ save[i].pc \in {"sent", "answered"} /\ Event
    /\ save' = [save EXCEPT ![i].pc = "done"]
    /\ UNCHANGED <<agents, samples, now, fetches, samplings>>
    /\ Settle([view EXCEPT !.dialog = [h \in Hosts |-> IF @[h] = i THEN Open ELSE @[h]]])

(* Every query that was invalidated has ended: the toast, and the dialog closes.     *)
Close(i) ==
    /\ save[i].pc = "refreshed" /\ save' = [save EXCEPT ![i].pc = "done"]
    /\ UNCHANGED <<agents, samples, now, events, fetches, samplings>>
    /\ Settle([view EXCEPT !.dialog = [h \in Hosts |-> IF @[h] = i THEN None ELSE @[h]]])

---------------------------------------------------------------------------
HostPagesNext ==
    \/ ServerChanges \/ Poll \/ ListHosts \/ ListArrives \/ ListFails \/ PollMetrics
    \/ \E h \in Hosts : \/ Push(h) \/ GetMetrics(h) \/ MetricsFail(h)
                        \/ OpenHost(h) \/ PickHost(h) \/ Rename(h) \/ Cancel(h)
                        \/ ClickBeside(h) \/ \E i \in Saves : Submit(h, i)
    \/ \E at \in {"hosts", "metrics"} : GoTo(at)
    \/ \E f \in Filters : Choose(f)
    \/ \E i \in Saves : UpdateDisplayName(i) \/ Saved(i) \/ SaveFails(i) \/ Close(i)

HostPagesSpec == HostPagesInit /\ [][HostPagesNext]_vars

(* Timers fire, requests are answered or fail.                                 *)
HostPagesFairSpec ==
    /\ HostPagesSpec
    /\ WF_vars(Poll \/ ListHosts \/ ListArrives)
    /\ WF_vars(\E i \in Saves : UpdateDisplayName(i) \/ Saved(i) \/ SaveFails(i) \/ Close(i))

---------------------------------------------------------------------------
(* The charts draw samples of the host on screen only, in the order the agent       *)
(* took them and each once, whatever polls the user left behind by changing hosts   *)
(* and pages (useHostMetrics.ts:33-63).                                        *)
ChartIsOfHost ==
    \A k \in DOMAIN view.history :
        /\ view.history[k].host = view.page.host
        /\ k > 1 => view.history[k - 1].collectedAt < view.history[k].collectedAt

(* When the dialog closes on a name it has saved, the list shows that name or a     *)
(* newer one, even if a poll was under way with the old one when it was saved; or    *)
(* the host is gone, or this page sent it another name (useRenameHost    *)
(* .ts:19-28, RenameHostDialog.tsx:49-58).                                        *)
SavedNameShown ==
    [][\A i \in Saves : \A h \in Hosts :
         Close(i) /\ view.dialog[h] = i /\ view.list[h].there
            /\ (\A j \in Saves \ {i} : save[j].host # h)
         => view.list[h].name >= save[i].answer.name]_vars

(* A dialog that is locked while a name is saved is unlocked, and the page comes    *)
(* to show the hosts as the server has them, however requests failed, were          *)
(* dropped for newer ones or were overtaken (RenameHostDialog.tsx:24-37, 49-62).     *)
SaveSettles ==
    \A h \in Hosts : \A i \in Saves :
        view.dialog[h] = i ~> view.dialog[h] # i /\ view.list = agents
=============================================================================
