--------------------------- MODULE HostPagesProofs ---------------------------
(***************************************************************************)
(* Proofs about HostPages, for any number of hosts, samples, events, saves and   *)
(* chips and any length of the history: its types, that the history charted is   *)
(* of the host on screen and in order, and that a name saved is the name shown.   *)
(*                                                                         *)
(* Whatever changes the view, the same effects run afterwards: Drawn says what    *)
(* Settle makes of a view, and Draws that every step of the page is of that form. *)
(* Types: a name is new at an event or at a save that is answered, so it stays     *)
(* below their number.  The history ends in the figures cached of the host on     *)
(* screen, which the server's are not older than unless it forgot them.  A name    *)
(* saved is the server's from its answer on, and from the invalidation on that of  *)
(* every list that the page has or may still get.                               *)
(***************************************************************************)
EXTENDS HostPages, FiniteSetTheorems, SequenceTheorems, TLAPS

Pcs == {"idle", "sent", "answered", "refreshing", "refreshed", "done"}
SaveStates == [pc : Pcs, host : {None} \cup Hosts, answer : {None} \cup Dto]
Sampled == [host : Hosts, collectedAt : 1..MaxSamples]
Pages == [at : {"hosts", "host", "metrics"}, host : {None} \cup Hosts]
Dialogs == {None, Open} \cup Saves
ViewStates ==
    [list : {None} \cup Lists, failed : BOOLEAN, metrics : [Hosts -> Times], page : Pages,
     filter : Filters, history : Seq(Sampled), dialog : [Hosts -> Dialogs]]

ViewOK(v) == v \in ViewStates /\ Len(v.history) <= Keep

DialogOK(v) == \A h \in Hosts : v.dialog[h] # None => h \in Cards(v)

(* A save knows its host once it is sent, and has an answer only afterwards.      *)
SaveOK(q) ==
    /\ q \in SaveStates
    /\ q.pc = "idle" => q = NewSave
    /\ q.pc # "idle" => q.host \in Hosts
    /\ q.pc \in {"idle", "sent"} => q.answer = None
    /\ q.pc \in {"refreshing", "refreshed"} => q.answer # None

Savings(saves) == {i \in Saves : saves[i].pc \notin {"idle", "sent"}}

ServerOK ==
    /\ agents \in Lists /\ samples \in [Hosts -> Times] /\ now \in Times
    /\ events \in 0..MaxEvents
    /\ \A h \in Hosts : agents[h].name <= events + Cardinality(Savings(save))

RequestsOK ==
    /\ fetches = {} \/ \E l \in {None} \cup Lists : fetches = {l}
    /\ samplings \subseteq Hosts
    /\ save \in [Saves -> SaveStates] /\ \A i \in Saves : SaveOK(save[i])

TypeInv == ServerOK /\ RequestsOK /\ ViewOK(view) /\ DialogOK(view)

---------------------------------------------------------------------------
LEMMA Constants ==
    /\ NumHosts \in Nat \ {0} /\ Keep \in Nat \ {0}
    /\ MaxSamples \in Nat /\ MaxEvents \in Nat /\ MaxSaves \in Nat
    /\ "all" \in Filters /\ None \notin Nat
BY HostPagesAssumption DEF HostPagesAssumption

LEMMA Apart == None \notin Hosts /\ None \notin Saves /\ None # Open /\ Open \notin Saves
BY Constants DEF Hosts, Saves, Open

(* The least of some hosts is one of them: the sets of the hosts up to each are   *)
(* finite, and the strict subsets of finite sets are well founded.                *)
LEMMA MinHost == ASSUME NEW S, S \subseteq Hosts, S # {} PROVE Min(S) \in S
<1>1. S \subseteq Int BY Constants DEF Hosts
<1>2. IsFiniteSet(S)
  <2>1. NumHosts \in Int /\ 1 \in Int BY Constants
  <2>2. IsFiniteSet(Hosts) BY <2>1, FS_Interval DEF Hosts
  <2> QED BY <2>2, FS_Subset
<1> DEFINE UpTo(x) == {y \in S : y <= x}
<1>3. PICK T : T = {UpTo(x) : x \in S} OBVIOUS
<1>4. T \subseteq FiniteSubsetsOf(S)
  BY <1>2, <1>3, FS_Subset DEF FiniteSubsetsOf
<1>5. PICK t \in T : \A u \in T : <<u, t>> \notin StrictSubsetOrdering(S)
  <2>1. IsWellFoundedOn(StrictSubsetOrdering(S), FiniteSubsetsOf(S))
    BY <1>2, FS_StrictSubsetOrderingWellFounded
  <2>2. T # {} BY <1>3
  <2> QED BY <1>4, <2>1, <2>2, WFMin
<1>6. PICK x \in S : t = UpTo(x) BY <1>3, <1>5
<1>7. ASSUME NEW y \in S PROVE x <= y
  <2> SUFFICES ASSUME ~(x <= y) PROVE FALSE OBVIOUS
  <2>1. UpTo(y) \in T BY <1>3
  <2>2. \A z \in S : z <= y => z <= x BY <1>1
  <2>3. x \in t /\ x \notin UpTo(y) BY <1>1, <1>6
  <2>4. <<UpTo(y), t>> \in StrictSubsetOrdering(S)
    BY <2>2, <2>3, <1>1, <1>6 DEF StrictSubsetOrdering
  <2> QED BY <1>5, <2>1, <2>4
<1> QED BY <1>7 DEF Min

(* The page that is drawn.                                                    *)
LEMMA SelectedOK == ASSUME NEW v, ViewOK(v) PROVE Selected(v) \in Pages
<1>1. v.page \in Pages BY DEF ViewOK, ViewStates
<1>2. Listed(v.list) \subseteq Hosts BY DEF Listed
<1>3. Listed(v.list) # {} => Min(Listed(v.list)) \in Hosts BY <1>2, MinHost
<1> QED BY <1>1, <1>3 DEF Selected, Route, Pages

(* The history with one more sample: the newest Keep of them.                   *)
LEMMA Added ==
    ASSUME NEW q \in Seq(Sampled), NEW e \in Sampled
    PROVE  \E d \in 0..Len(q) :
             /\ Add(q, e) \in Seq(Sampled) /\ Len(Add(q, e)) = Len(q) + 1 - d
             /\ Len(Add(q, e)) <= Keep
             /\ \A k \in 1..(Len(q) + 1 - d) : Add(q, e)[k] = Append(q, e)[k + d]
<1>0. Keep \in Nat \ {0} BY Constants
<1>1. PICK a : a = Append(q, e) OBVIOUS
<1>2. a \in Seq(Sampled) /\ Len(a) = Len(q) + 1 BY <1>1
<1>3. PICK n \in Nat : n = Len(q) OBVIOUS
<1>4. PICK d : d = IF n + 1 > Keep THEN n + 1 - Keep ELSE 0 OBVIOUS
<1>5. d \in 0..n /\ n + 1 - d <= Keep BY <1>0, <1>3, <1>4
<1>6. Add(q, e) = SubSeq(a, d + 1, n + 1)
  BY <1>0, <1>1, <1>2, <1>3, <1>4 DEF Add
<1>7. PICK u : u = SubSeq(a, d + 1, n + 1) OBVIOUS
<1>8. d + 1 \in 1..(n + 1) /\ n + 1 \in 1..Len(a) BY <1>2, <1>3, <1>5
<1>9. u \in Seq(Sampled) /\ Len(u) = n + 1 - d /\ \A k \in 1..(n + 1 - d) : u[k] = a[k + d]
  <2>1. u \in Seq(Sampled) BY <1>2, <1>3, <1>5, <1>7
  <2>2. Len(u) = n + 1 - d BY <1>2, <1>3, <1>5, <1>7
  <2>3. ASSUME NEW k \in 1..(n + 1 - d) PROVE u[k] = a[k + d]
    BY <1>2, <1>3, <1>5, <1>7
  <2> QED BY <2>1, <2>2, <2>3
<1> QED BY <1>1, <1>3, <1>5, <1>6, <1>7, <1>9

LEMMA ChartedOK ==
    ASSUME NEW q \in Seq(Sampled), Len(q) <= Keep, NEW page \in Pages,
           NEW metrics \in [Hosts -> Times]
    PROVE  Charted(q, page, metrics) \in Seq(Sampled) /\ Len(Charted(q, page, metrics)) <= Keep
<1>1. CASE page.host = None \/ metrics[page.host] = 0 BY <1>1 DEF Charted
<1>2. CASE ~(page.host = None \/ metrics[page.host] = 0)
  <2>1. PICK e : e = [host |-> page.host, collectedAt |-> metrics[page.host]] OBVIOUS
  <2>2. page.host \in Hosts BY <1>2 DEF Pages
  <2>3. metrics[page.host] \in 1..MaxSamples BY <1>2, <2>2, Constants DEF Times
  <2>4. e \in Sampled BY <2>1, <2>2, <2>3 DEF Sampled
  <2>5. Charted(q, page, metrics) \in {q, Add(q, e)} BY <1>2, <2>1 DEF Charted
  <2> QED BY <2>4, <2>5, Added
<1> QED BY <1>1, <1>2

LEMMA ResetOK ==
    ASSUME ViewOK(view), NEW page
    PROVE  Reset(page) \in Seq(Sampled) /\ Len(Reset(page)) <= Keep
BY Constants DEF Reset, ViewOK, ViewStates

(* What is on screen after a change of the data or of the route.                 *)
Drawn(v) ==
    /\ ViewOK(v) /\ ViewOK(view') /\ DialogOK(view')
    /\ view'.list = v.list /\ view'.metrics = v.metrics
    /\ view'.page = Selected(v)
    /\ view'.history = Charted(Reset(Selected(v)), Selected(v), v.metrics)
    /\ \A h \in Hosts : view'.dialog[h] \in {v.dialog[h], None}

LEMMA Settled == ASSUME ViewOK(view), NEW v, ViewOK(v), Settle(v) PROVE Drawn(v)
<1>1. PICK page : page = Selected(v) OBVIOUS
<1>2. page \in Pages BY <1>1, SelectedOK
<1>3. PICK q : q = Charted(Reset(page), page, v.metrics) OBVIOUS
<1>4. v.metrics \in [Hosts -> Times] BY DEF ViewOK, ViewStates
<1>5. q \in Seq(Sampled) /\ Len(q) <= Keep BY <1>2, <1>3, <1>4, ResetOK, ChartedOK
<1>6. PICK w : w = [v EXCEPT !.page = page,
                             !.filter = IF page.at = "hosts" THEN @ ELSE "all",
                             !.history = q]
  OBVIOUS
<1>7. view' = [w EXCEPT !.dialog = [h \in Hosts |-> IF h \in Cards(w) THEN @[h] ELSE None]]
  <2>1. \E page1 \in {Selected(v)} :
          \E w1 \in {[v EXCEPT !.page = page1,
                        !.filter = IF page1.at = "hosts" THEN @ ELSE "all",
                        !.history = Charted(Reset(page1), page1, v.metrics)]} :
            view' = [w1 EXCEPT !.dialog = [h \in Hosts |-> IF h \in Cards(w1) THEN @[h] ELSE None]]
    BY ZenonT(60) DEF Settle
  <2>2. PICK page1 \in {Selected(v)} :
          \E w1 \in {[v EXCEPT !.page = page1,
                        !.filter = IF page1.at = "hosts" THEN @ ELSE "all",
                        !.history = Charted(Reset(page1), page1, v.metrics)]} :
            view' = [w1 EXCEPT !.dialog = [h \in Hosts |-> IF h \in Cards(w1) THEN @[h] ELSE None]]
    BY <2>1, Zenon
  <2>3. page1 = page BY <1>1
  <2>4. PICK w1 \in {[v EXCEPT !.page = page1,
                        !.filter = IF page1.at = "hosts" THEN @ ELSE "all",
                        !.history = Charted(Reset(page1), page1, v.metrics)]} :
            view' = [w1 EXCEPT !.dialog = [h \in Hosts |-> IF h \in Cards(w1) THEN @[h] ELSE None]]
    BY <2>2, Zenon
  <2>5. w1 = w BY <1>3, <1>6, <2>3
  <2> QED BY <2>4, <2>5
<1>8. /\ w \in ViewStates /\ w.page = page /\ w.history = q /\ w.list = v.list
      /\ w.metrics = v.metrics /\ w.dialog = v.dialog
  BY <1>2, <1>5, <1>6, Constants DEF ViewOK, ViewStates
<1>9. PICK d : d = [h \in Hosts |-> IF h \in Cards(w) THEN w.dialog[h] ELSE None] OBVIOUS
<1>10. view' = [w EXCEPT !.dialog = d] BY <1>7, <1>9
<1>11. w.dialog \in [Hosts -> Dialogs] BY <1>8 DEF ViewStates
<1>12. d \in [Hosts -> Dialogs] BY <1>9, <1>11 DEF Dialogs
<1>13. /\ view' \in ViewStates /\ view'.dialog = d /\ view'.page = w.page
       /\ view'.history = w.history /\ view'.list = w.list /\ view'.metrics = w.metrics
       /\ view'.failed = w.failed /\ view'.filter = w.filter
  BY <1>8, <1>10, <1>12 DEF ViewStates
<1>14. ViewOK(view') BY <1>5, <1>8, <1>13 DEF ViewOK
<1>15. Cards(view') = Cards(w) BY <1>13 DEF Cards
<1>16. DialogOK(view') BY <1>9, <1>13, <1>15 DEF DialogOK
<1>17. \A h \in Hosts : view'.dialog[h] \in {v.dialog[h], None} BY <1>8, <1>9, <1>13
<1> QED BY <1>1, <1>3, <1>8, <1>13, <1>14, <1>16, <1>17 DEF Drawn

---------------------------------------------------------------------------
(* Every change of the view is one of the data, of the route, of the filter or of  *)
(* a dialog, after which the page is drawn.                                     *)
Draws(v) ==
    /\ Drawn(v) /\ v.history = view.history /\ UNCHANGED <<samples, now>>
    /\ \/ v.metrics = view.metrics
       \/ \E h \in Hosts : v.metrics = [view.metrics EXCEPT ![h] = samples[h]]

LEMMA DrawnAfter ==
    ASSUME ViewOK(view), NEW v, ViewOK(v), Settle(v), v.history = view.history,
           UNCHANGED <<samples, now>>,
           \/ v.metrics = view.metrics
           \/ \E h \in Hosts : v.metrics = [view.metrics EXCEPT ![h] = samples[h]]
    PROVE  Draws(v)
BY Settled DEF Draws

LEMMA ListDrawn ==
    ASSUME TypeInv, ListArrives \/ ListFails
    PROVE  \E v : Draws(v) /\ (ListFails \/ v.list \in fetches) /\ (v.list \in fetches \cup {view.list})
                  /\ v.dialog = view.dialog
<1>1. ViewOK(view) /\ RequestsOK BY DEF TypeInv
<1>2. CASE ListArrives
  <2>1. PICK l \in fetches : Settle([view EXCEPT !.list = l, !.failed = FALSE])
    BY <1>2 DEF ListArrives
  <2>2. l \in {None} \cup Lists BY <1>1 DEF RequestsOK
  <2>3. PICK v : v = [view EXCEPT !.list = l, !.failed = FALSE] OBVIOUS
  <2>4. /\ ViewOK(v) /\ v.history = view.history /\ v.metrics = view.metrics /\ v.list = l
        /\ v.dialog = view.dialog
    BY <1>1, <2>2, <2>3 DEF ViewOK, ViewStates
  <2>5. Draws(v) BY <1>1, <1>2, <2>1, <2>3, <2>4, DrawnAfter DEF ListArrives
  <2> QED BY <2>4, <2>5
<1>3. CASE ListFails
  <2>1. PICK v : v = [view EXCEPT !.failed = TRUE] OBVIOUS
  <2>2. /\ ViewOK(v) /\ v.history = view.history /\ v.metrics = view.metrics
        /\ v.list = view.list /\ v.dialog = view.dialog
    BY <1>1, <2>1 DEF ViewOK, ViewStates
  <2>3. Draws(v) BY <1>1, <1>3, <2>1, <2>2, DrawnAfter DEF ListFails
  <2> QED BY <1>3, <2>2, <2>3
<1> QED BY <1>2, <1>3

(* Changes that leave the list, and lock no dialog.                              *)
Quiet(v) ==
    /\ Draws(v) /\ v.list = view.list
    /\ \A h \in Hosts : v.dialog[h] \in {view.dialog[h], None, Open}

LEMMA QuietAfter ==
    ASSUME ViewOK(view), NEW v, ViewOK(v), Settle(v), UNCHANGED <<samples, now>>,
           v.history = view.history, v.metrics = view.metrics, v.list = view.list,
           \A h \in Hosts : v.dialog[h] \in {view.dialog[h], None, Open}
    PROVE  \E q : Quiet(q)
BY DrawnAfter DEF Quiet

LEMMA MetricsQuiet ==
    ASSUME TypeInv, NEW h \in Hosts, GetMetrics(h)
    PROVE  \E v : Quiet(v)
<1>1. PICK v : v = [view EXCEPT !.metrics[h] = samples[h]] OBVIOUS
<1>2. samples[h] \in Times /\ ViewOK(view) BY DEF TypeInv, ServerOK
<1>3. PICK m : m = [view.metrics EXCEPT ![h] = samples[h]] OBVIOUS
<1>4. m \in [Hosts -> Times] BY <1>2, <1>3 DEF ViewOK, ViewStates
<1>5. v = [view EXCEPT !.metrics = m] BY <1>1, <1>3, <1>2 DEF ViewOK, ViewStates
<1>6. /\ ViewOK(v) /\ v.history = view.history /\ v.metrics = m /\ v.list = view.list
      /\ v.dialog = view.dialog
  BY <1>2, <1>4, <1>5 DEF ViewOK, ViewStates
<1>7. Settle(v) /\ UNCHANGED <<samples, now>> BY <1>1 DEF GetMetrics
<1>8. Draws(v) BY <1>2, <1>3, <1>6, <1>7, DrawnAfter
<1> QED BY <1>6, <1>8 DEF Quiet

LEMMA PageQuiet ==
    ASSUME ViewOK(view), NEW page \in Pages, Settle([view EXCEPT !.page = page]),
           UNCHANGED <<samples, now>>
    PROVE  \E v : Quiet(v)
<1>1. PICK v : v = [view EXCEPT !.page = page] OBVIOUS
<1>2. /\ ViewOK(v) /\ v.history = view.history /\ v.metrics = view.metrics
      /\ v.list = view.list /\ v.dialog = view.dialog
  BY <1>1 DEF ViewOK, ViewStates
<1> QED BY <1>1, <1>2, QuietAfter

LEMMA RouteQuiet ==
    ASSUME TypeInv, NEW h \in Hosts, NEW at \in {"hosts", "metrics"},
           OpenHost(h) \/ GoTo(at) \/ PickHost(h) \/ ClickBeside(h)
    PROVE  \E v : Quiet(v)
<1>1. ViewOK(view) BY DEF TypeInv
<1>2. UNCHANGED <<samples, now>> BY DEF OpenHost, GoTo, PickHost, ClickBeside
<1>3. Route("host", h) \in Pages /\ Route(at, None) \in Pages BY DEF Route, Pages
<1>4. CASE OpenHost(h) BY <1>1, <1>2, <1>3, <1>4, PageQuiet DEF OpenHost
<1>5. CASE GoTo(at) BY <1>1, <1>2, <1>3, <1>5, PageQuiet DEF GoTo
<1>6. CASE ClickBeside(h) BY <1>1, <1>2, <1>3, <1>6, PageQuiet DEF ClickBeside
<1>7. CASE PickHost(h)
  <2>1. PICK page : page = [view.page EXCEPT !.host = h] OBVIOUS
  <2>2. page \in Pages BY <1>1, <2>1 DEF ViewOK, ViewStates, Pages
  <2>3. [view EXCEPT !.page.host = h] = [view EXCEPT !.page = page]
    BY <1>1, <2>1 DEF ViewOK, ViewStates
  <2>4. Settle([view EXCEPT !.page = page]) BY <1>7, <2>3 DEF PickHost
  <2> QED BY <1>1, <1>2, <2>2, <2>4, PageQuiet
<1> QED BY <1>4, <1>5, <1>6, <1>7

LEMMA ChooseQuiet ==
    ASSUME TypeInv, NEW f \in Filters, Choose(f)
    PROVE  \E v : Quiet(v)
<1>1. ViewOK(view) BY DEF TypeInv
<1>2. PICK v : v = [view EXCEPT !.filter = f] OBVIOUS
<1>3. /\ ViewOK(v) /\ v.history = view.history /\ v.metrics = view.metrics
      /\ v.list = view.list /\ v.dialog = view.dialog
  BY <1>1, <1>2 DEF ViewOK, ViewStates
<1> QED BY <1>1, <1>2, <1>3, QuietAfter DEF Choose

LEMMA DialogsQuiet ==
    ASSUME ViewOK(view), UNCHANGED <<samples, now>>,
           NEW d \in [Hosts -> Dialogs], \A h \in Hosts : d[h] \in {view.dialog[h], None, Open},
           Settle([view EXCEPT !.dialog = d])
    PROVE  \E v : Quiet(v)
<1>1. PICK v : v = [view EXCEPT !.dialog = d] OBVIOUS
<1>2. /\ ViewOK(v) /\ v.history = view.history /\ v.metrics = view.metrics
      /\ v.list = view.list /\ v.dialog = d
  BY <1>1 DEF ViewOK, ViewStates
<1> QED BY <1>1, <1>2, QuietAfter

LEMMA DialogQuiet ==
    ASSUME TypeInv, NEW h \in Hosts, Rename(h) \/ Cancel(h)
    PROVE  \E v : Quiet(v)
<1>1. ViewOK(view) /\ view.dialog \in [Hosts -> Dialogs] BY DEF TypeInv, ViewOK, ViewStates
<1>2. UNCHANGED <<samples, now>> BY DEF Rename, Cancel
<1>3. PICK x \in {None, Open} : Settle([view EXCEPT !.dialog[h] = x]) BY DEF Rename, Cancel
<1>4. PICK d : d = [view.dialog EXCEPT ![h] = x] OBVIOUS
<1>5. d \in [Hosts -> Dialogs] /\ \A g \in Hosts : d[g] \in {view.dialog[g], None, Open}
  BY <1>1, <1>4 DEF Dialogs
<1>6. [view EXCEPT !.dialog[h] = x] = [view EXCEPT !.dialog = d]
  BY <1>1, <1>4 DEF ViewOK, ViewStates
<1> QED BY <1>1, <1>2, <1>3, <1>5, <1>6, DialogsQuiet

LEMMA EndQuiet ==
    ASSUME TypeInv, NEW i \in Saves, SaveFails(i) \/ Close(i)
    PROVE  \E v : Quiet(v)
<1>1. ViewOK(view) /\ view.dialog \in [Hosts -> Dialogs] BY DEF TypeInv, ViewOK, ViewStates
<1>2. UNCHANGED <<samples, now>> BY DEF SaveFails, Close
<1>3. PICK x \in {None, Open} :
        Settle([view EXCEPT !.dialog = [h \in Hosts |-> IF @[h] = i THEN x ELSE @[h]]])
  BY DEF SaveFails, Close
<1>4. PICK d : d = [h \in Hosts |-> IF view.dialog[h] = i THEN x ELSE view.dialog[h]] OBVIOUS
<1>5. d \in [Hosts -> Dialogs] /\ \A g \in Hosts : d[g] \in {view.dialog[g], None, Open}
  BY <1>1, <1>4 DEF Dialogs
<1>6. Settle([view EXCEPT !.dialog = d]) BY <1>3, <1>4
<1> QED BY <1>1, <1>2, <1>5, <1>6, DialogsQuiet

(* A dialog is locked.                                                        *)
LEMMA SubmitDrawn ==
    ASSUME TypeInv, NEW h \in Hosts, NEW i \in Saves, Submit(h, i)
    PROVE  \E v : Draws(v) /\ v.list = view.list /\ v.dialog = [view.dialog EXCEPT ![h] = i]
<1>1. ViewOK(view) /\ view.dialog \in [Hosts -> Dialogs] BY DEF TypeInv, ViewOK, ViewStates
<1>2. PICK d : d = [view.dialog EXCEPT ![h] = i] OBVIOUS
<1>3. d \in [Hosts -> Dialogs] BY <1>1, <1>2 DEF Dialogs
<1>4. PICK v : v = [view EXCEPT !.dialog = d] OBVIOUS
<1>5. v = [view EXCEPT !.dialog[h] = i] BY <1>1, <1>2, <1>4 DEF ViewOK, ViewStates
<1>6. /\ ViewOK(v) /\ v.history = view.history /\ v.metrics = view.metrics
      /\ v.list = view.list /\ v.dialog = d
  BY <1>1, <1>3, <1>4 DEF ViewOK, ViewStates
<1>7. Draws(v) BY <1>1, <1>5, <1>6, DrawnAfter DEF Submit
<1> QED BY <1>2, <1>6, <1>7

(* The answer is in the list that is shown, where its host is listed.               *)
LEMMA SavedDrawn ==
    ASSUME TypeInv, NEW i \in Saves, Saved(i)
    PROVE  \E v : /\ Draws(v) /\ v.dialog = view.dialog
                  /\ \/ /\ save[i].host \notin Listed(view.list) /\ v.list = view.list
                     \/ /\ view.list \in Lists \ {None}
                        /\ v.list = [view.list EXCEPT ![save[i].host] = save[i].answer]
<1>1. ViewOK(view) /\ SaveOK(save[i]) BY DEF TypeInv, RequestsOK
<1>2. save[i].answer \in Dto BY <1>1 DEF Saved, SaveOK, SaveStates
<1>3. UNCHANGED <<samples, now>> BY DEF Saved
<1>4. PICK h : h = save[i].host OBVIOUS
<1>5. PICK v : v = Merged(save[i].answer, h) OBVIOUS
<1>6. Settle(v) BY <1>4, <1>5 DEF Saved
<1>7. CASE h \in Listed(view.list)
  <2>1. h \in Hosts /\ view.list # None BY <1>7 DEF Listed
  <2>2. view.list \in Lists \ {None} BY <1>1, <2>1 DEF ViewOK, ViewStates
  <2>3. PICK l : l = [view.list EXCEPT ![h] = save[i].answer] OBVIOUS
  <2>4. l \in Lists BY <1>2, <2>1, <2>2, <2>3 DEF Lists
  <2>5. v = [view EXCEPT !.list = l, !.failed = FALSE]
    BY <1>1, <1>5, <1>7, <2>3 DEF Merged, ViewOK, ViewStates
  <2>6. /\ ViewOK(v) /\ v.history = view.history /\ v.metrics = view.metrics
        /\ v.list = l /\ v.dialog = view.dialog
    BY <1>1, <2>4, <2>5 DEF ViewOK, ViewStates
  <2>7. Draws(v) BY <1>1, <1>3, <1>6, <2>6, DrawnAfter
  <2> QED BY <1>4, <2>2, <2>3, <2>6, <2>7
<1>8. CASE h \notin Listed(view.list)
  <2>1. v \in {view, [view EXCEPT !.failed = FALSE]} BY <1>5, <1>8 DEF Merged
  <2>2. /\ ViewOK(v) /\ v.history = view.history /\ v.metrics = view.metrics
        /\ v.list = view.list /\ v.dialog = view.dialog
    BY <1>1, <2>1 DEF ViewOK, ViewStates
  <2>3. Draws(v) BY <1>1, <1>3, <1>6, <2>2, DrawnAfter
  <2> QED BY <1>4, <1>8, <2>2, <2>3
<1> QED BY <1>7, <1>8

(* The steps that do not touch the browser, and the two kinds that only do so.      *)
Away ==
    \/ ServerChanges \/ Poll \/ ListHosts \/ PollMetrics
    \/ \E h \in Hosts : Push(h) \/ MetricsFail(h)
    \/ \E i \in Saves : UpdateDisplayName(i)

UserActs ==
    \/ \E h \in Hosts : OpenHost(h) \/ PickHost(h) \/ Rename(h) \/ Cancel(h) \/ ClickBeside(h)
    \/ \E at \in {"hosts", "metrics"} : GoTo(at)
    \/ \E f \in Filters : Choose(f)

LEMMA AwayUnseen == Away => UNCHANGED view
BY DEF Away, ServerChanges, Poll, ListHosts, PollMetrics, Push, MetricsFail, UpdateDisplayName

LEMMA UserQuiet == ASSUME TypeInv, UserActs PROVE \E v : Quiet(v)
<1>1. 1 \in Hosts BY Constants DEF Hosts
<1> QED BY <1>1, RouteQuiet, DialogQuiet, ChooseQuiet DEF UserActs

LEMMA NextCases ==
    HostPagesNext =>
      \/ Away \/ UserActs \/ ListArrives \/ ListFails
      \/ \E h \in Hosts : GetMetrics(h) \/ \E i \in Saves : Submit(h, i)
      \/ \E i \in Saves : Saved(i) \/ SaveFails(i) \/ Close(i)
BY DEF HostPagesNext, Away, UserActs

LEMMA NextDraws ==
    ASSUME TypeInv, [HostPagesNext]_vars
    PROVE  UNCHANGED view \/ \E v : Draws(v)
<1>1. ASSUME NEW v, Quiet(v) PROVE Draws(v) BY <1>1 DEF Quiet
<1>2. CASE UNCHANGED vars BY <1>2 DEF vars
<1>3. CASE Away BY <1>3, AwayUnseen
<1>4. CASE UserActs BY <1>1, <1>4, UserQuiet
<1>5. CASE ListArrives \/ ListFails BY <1>5, ListDrawn
<1>6. ASSUME NEW h \in Hosts, GetMetrics(h) PROVE \E v : Draws(v) BY <1>1, <1>6, MetricsQuiet
<1>7. ASSUME NEW h \in Hosts, NEW i \in Saves, Submit(h, i) PROVE \E v : Draws(v)
  BY <1>7, SubmitDrawn
<1>8. ASSUME NEW i \in Saves, Saved(i) PROVE \E v : Draws(v) BY <1>8, SavedDrawn
<1>9. ASSUME NEW i \in Saves, SaveFails(i) \/ Close(i) PROVE \E v : Draws(v)
  BY <1>1, <1>9, EndQuiet
<1> QED BY <1>2, <1>3, <1>4, <1>5, <1>6, <1>7, <1>8, <1>9, NextCases

---------------------------------------------------------------------------
(* The names that are sent, and their answers.                                  *)

(* A save keeps its host, and its answer once it has one, which is the server's.     *)
Moves(q, r) ==
    /\ SaveOK(r)
    /\ q.pc = "idle" => r.pc \in {"idle", "sent"}
    /\ q.pc # "idle" => r.pc # "idle" /\ r.host = q.host
    /\ q.pc = "sent" => r.answer \in {None, agents'[q.host]}
    /\ r.pc \in {"refreshing", "refreshed"} => q.pc \in {"answered", "refreshing", "refreshed"}
    /\ q.pc \notin {"idle", "sent"} => r.pc \notin {"idle", "sent"} /\ r.answer = q.answer

LEMMA SavesFinite == IsFiniteSet(Saves) /\ Cardinality(Saves) = MaxSaves
<1>1. MaxSaves \in Nat BY Constants
<1>2. 1 \in Int /\ MaxSaves \in Int BY <1>1
<1>3. IsFiniteSet(Saves) /\ Cardinality(Saves) = (IF 1 > MaxSaves THEN 0 ELSE MaxSaves - 1 + 1)
  BY <1>2, FS_Interval DEF Saves
<1> QED BY <1>1, <1>3

LEMMA SavingsFinite ==
    ASSUME NEW saves
    PROVE  /\ IsFiniteSet(Savings(saves)) /\ Cardinality(Savings(saves)) \in Nat
           /\ Cardinality(Savings(saves)) <= MaxSaves
<1>1. Savings(saves) \in SUBSET Saves BY DEF Savings
<1>2. IsFiniteSet(Savings(saves)) /\ Cardinality(Savings(saves)) <= Cardinality(Saves)
  BY <1>1, SavesFinite, FS_Subset
<1>3. Cardinality(Savings(saves)) \in Nat BY <1>2, FS_CardinalityType
<1> QED BY <1>2, <1>3, SavesFinite

LEMMA SavingsGrow ==
    ASSUME \A i \in Saves : Moves(save[i], save'[i])
    PROVE  Cardinality(Savings(save)) <= Cardinality(Savings(save'))
<1>1. Savings(save) \in SUBSET Savings(save') BY DEF Savings, Moves
<1> QED BY <1>1, SavingsFinite, FS_Subset

LEMMA OneMoves ==
    ASSUME RequestsOK, NEW i \in Saves, NEW r, Moves(save[i], r), save' = [save EXCEPT ![i] = r]
    PROVE  save' \in [Saves -> SaveStates] /\ \A j \in Saves : Moves(save[j], save'[j])
<1>1. r \in SaveStates BY DEF Moves, SaveOK
<1>2. \A j \in Saves : Moves(save[j], save[j]) BY DEF RequestsOK, Moves, SaveOK
<1> QED BY <1>1, <1>2 DEF RequestsOK

LEMMA ListFetchedMoves ==
    ASSUME RequestsOK, ListFetched
    PROVE  save' \in [Saves -> SaveStates] /\ \A j \in Saves : Moves(save[j], save'[j])
<1>1. ASSUME NEW j \in Saves PROVE Moves(save[j], save'[j]) /\ save'[j] \in SaveStates
  <2>1. PICK q : q = save[j] OBVIOUS
  <2>2. SaveOK(q) /\ q \in SaveStates BY <2>1 DEF RequestsOK
  <2>3. PICK r : r = [q EXCEPT !.pc = "refreshed"] OBVIOUS
  <2>4. /\ r \in SaveStates /\ r.pc = "refreshed" /\ r.host = q.host /\ r.answer = q.answer
    BY <2>2, <2>3 DEF SaveStates, Pcs
  <2>5. save'[j] = IF q.pc = "refreshing" THEN r ELSE q BY <2>1, <2>3 DEF ListFetched
  <2> QED BY <2>1, <2>2, <2>4, <2>5 DEF Moves, SaveOK
<1>2. save' = [j \in Saves |-> save'[j]] BY DEF ListFetched
<1> QED BY <1>1, <1>2

LEMMA SubmitMoves ==
    ASSUME RequestsOK, NEW h \in Hosts, NEW i \in Saves, Submit(h, i)
    PROVE  save' \in [Saves -> SaveStates] /\ \A j \in Saves : Moves(save[j], save'[j])
<1>1. PICK r : r = [NewSave EXCEPT !.pc = "sent", !.host = h] OBVIOUS
<1>2. r = [pc |-> "sent", host |-> h, answer |-> None] BY <1>1 DEF NewSave
<1>3. Moves(save[i], r) BY <1>2 DEF Submit, Moves, SaveOK, SaveStates, Pcs
<1> QED BY <1>1, <1>3, OneMoves DEF Submit

(* The answers to a name are those of the server.                               *)
LEMMA AnswerMoves ==
    ASSUME RequestsOK, agents' \in Lists, NEW i \in Saves, UpdateDisplayName(i)
    PROVE  /\ save' \in [Saves -> SaveStates] /\ \A j \in Saves : Moves(save[j], save'[j])
           /\ save'[i].pc = "answered"
<1>1. PICK q : q = save[i] OBVIOUS
<1>2. SaveOK(q) /\ q \in SaveStates /\ q.pc = "sent" BY <1>1 DEF RequestsOK, UpdateDisplayName
<1>3. q.host \in Hosts /\ q.answer = None BY <1>2 DEF SaveOK
<1>4. PICK x \in {None} \cup Dto :
        /\ x \in {None, agents'[q.host]}
        /\ save' = [save EXCEPT ![i].pc = "answered", ![i].answer = x]
  <2>1. CASE agents[q.host].there
    <3>1. agents'[q.host] \in Dto BY <1>3 DEF Lists
    <3> QED BY <1>1, <2>1, <3>1 DEF UpdateDisplayName
  <2>2. CASE ~agents[q.host].there
    <3>1. save' = [save EXCEPT ![i].pc = "answered"] BY <1>1, <2>2 DEF UpdateDisplayName
    <3>2. [save EXCEPT ![i].pc = "answered"] =
            [save EXCEPT ![i].pc = "answered", ![i].answer = None]
      BY <1>1, <1>2, <1>3 DEF SaveStates, RequestsOK
    <3> QED BY <3>1, <3>2
  <2> QED BY <2>1, <2>2
<1>5. PICK r : r = [q EXCEPT !.pc = "answered", !.answer = x] OBVIOUS
<1>6. /\ r \in SaveStates /\ r.pc = "answered" /\ r.host = q.host /\ r.answer = x
  BY <1>2, <1>5 DEF SaveStates, Pcs
<1>7. save' = [save EXCEPT ![i] = r] BY <1>1, <1>4, <1>5 DEF RequestsOK
<1>8. Moves(q, r) BY <1>2, <1>3, <1>4, <1>6 DEF Moves, SaveOK
<1> QED BY <1>1, <1>6, <1>7, <1>8, OneMoves DEF RequestsOK

LEMMA LaterMoves ==
    ASSUME RequestsOK, NEW i \in Saves, Saved(i) \/ SaveFails(i) \/ Close(i)
    PROVE  save' \in [Saves -> SaveStates] /\ \A j \in Saves : Moves(save[j], save'[j])
<1>1. PICK q : q = save[i] OBVIOUS
<1>2. SaveOK(q) /\ q \in SaveStates BY <1>1 DEF RequestsOK
<1>3. PICK pc \in {"refreshing", "done"} :
        /\ save' = [save EXCEPT ![i].pc = pc]
        /\ pc = "refreshing" => q.pc = "answered" /\ q.answer # None
        /\ q.pc # "idle"
  BY <1>1 DEF Saved, SaveFails, Close
<1>4. PICK r : r = [q EXCEPT !.pc = pc] OBVIOUS
<1>5. /\ r \in SaveStates /\ r.pc = pc /\ r.host = q.host /\ r.answer = q.answer
  BY <1>2, <1>4 DEF SaveStates, Pcs
<1>6. save' = [save EXCEPT ![i] = r] BY <1>1, <1>3, <1>4 DEF RequestsOK
<1>7. Moves(q, r) BY <1>2, <1>3, <1>5 DEF Moves, SaveOK
<1> QED BY <1>1, <1>6, <1>7, OneMoves

LEMMA Stays ==
    ASSUME RequestsOK, UNCHANGED save
    PROVE  save' \in [Saves -> SaveStates] /\ \A j \in Saves : Moves(save[j], save'[j])
BY DEF RequestsOK, Moves, SaveOK

LEMMA NextMoves ==
    ASSUME RequestsOK, agents' \in Lists, [HostPagesNext]_vars
    PROVE  save' \in [Saves -> SaveStates] /\ \A j \in Saves : Moves(save[j], save'[j])
<1>1. CASE UNCHANGED vars BY <1>1, Stays DEF vars
<1>2. CASE Away
  <2>1. ASSUME NEW i \in Saves, UpdateDisplayName(i)
        PROVE  save' \in [Saves -> SaveStates] /\ \A j \in Saves : Moves(save[j], save'[j])
    BY <2>1, AnswerMoves
  <2>2. UNCHANGED save \/ \E i \in Saves : UpdateDisplayName(i)
    BY <1>2 DEF Away, ServerChanges, Poll, ListHosts, PollMetrics, Push, MetricsFail
  <2> QED BY <2>1, <2>2, Stays
<1>3. CASE UserActs
  BY <1>3, Stays DEF UserActs, OpenHost, PickHost, Rename, Cancel, ClickBeside, GoTo, Choose
<1>4. CASE ListArrives \/ ListFails BY <1>4, ListFetchedMoves DEF ListArrives, ListFails
<1>5. CASE \E h \in Hosts : GetMetrics(h) BY <1>5, Stays DEF GetMetrics
<1>6. CASE \E h \in Hosts : \E i \in Saves : Submit(h, i) BY <1>6, SubmitMoves
<1>7. CASE \E i \in Saves : Saved(i) \/ SaveFails(i) \/ Close(i) BY <1>7, LaterMoves
<1> QED BY <1>1, <1>2, <1>3, <1>4, <1>5, <1>6, <1>7, NextCases

---------------------------------------------------------------------------
(* The server's records: a name is new at every event or save.                    *)

(* A host that is known was known before, by this name or an older one.            *)
Newer(l, m, h) == m[h].there => l[h].there /\ l[h].name <= m[h].name

LEMMA Renamed ==
    ASSUME agents \in Lists, NEW h \in Hosts, Renames(h), NEW n \in Nat,
           \A g \in Hosts : agents[g].name <= n, n + 1 <= MaxEvents + MaxSaves
    PROVE  /\ agents' \in Lists /\ \A g \in Hosts : agents'[g].name <= n + 1
           /\ \A g \in Hosts : Newer(agents, agents', g)
<1>1. PICK r : r = [agents[h] EXCEPT !.name = @ + 1] OBVIOUS
<1>2. agents[h] \in Dto BY DEF Lists
<1>3. agents[h].name \in Nat /\ agents[h].name <= n BY <1>2, Constants DEF Dto
<1>4. /\ r.there = agents[h].there /\ r.name = agents[h].name + 1 /\ r.online = agents[h].online
      /\ r \in [there : BOOLEAN, name : Nat, online : BOOLEAN]
  BY <1>1, <1>2, <1>3 DEF Dto
<1>5. r.name \in 0..(MaxEvents + MaxSaves) /\ r.name <= n + 1 BY <1>3, <1>4, Constants
<1>6. r \in Dto BY <1>4, <1>5 DEF Dto
<1>7. agents' = [agents EXCEPT ![h] = r] BY <1>1 DEF Renames, Lists
<1>8. agents' \in Lists BY <1>6, <1>7 DEF Lists
<1>9. ASSUME NEW g \in Hosts
      PROVE  agents'[g].name <= n + 1 /\ Newer(agents, agents', g)
  <2>1. CASE g = h BY <1>3, <1>4, <1>5, <1>7, <2>1 DEF Newer, Lists
  <2>2. CASE g # h
    <3>1. agents'[g] = agents[g] BY <1>7, <2>2 DEF Lists
    <3>2. agents[g].name \in Nat
      <4>1. agents[g] \in Dto BY DEF Lists
      <4> QED BY <4>1, Constants DEF Dto
    <3> QED BY <3>1, <3>2 DEF Newer
  <2> QED BY <2>1, <2>2
<1> QED BY <1>8, <1>9

LEMMA SameAgents ==
    ASSUME agents \in Lists, UNCHANGED agents
    PROVE  \A g \in Hosts : Newer(agents, agents', g)
<1>1. ASSUME NEW g \in Hosts PROVE agents[g].name \in Nat
  <2>1. agents[g] \in Dto BY DEF Lists
  <2> QED BY <2>1, Constants DEF Dto
<1> QED BY <1>1 DEF Newer

LEMMA AgentsStep ==
    ASSUME TypeInv, [HostPagesNext]_vars
    PROVE  /\ agents' \in Lists /\ \A g \in Hosts : Newer(agents, agents', g)
           /\ \/ \A g \in Hosts : agents'[g].name <= events + Cardinality(Savings(save))
              \/ /\ \A g \in Hosts : agents'[g].name <= events + Cardinality(Savings(save)) + 1
                 /\ \/ Event
                    \/ UNCHANGED events /\ \E i \in Saves : UpdateDisplayName(i)
<1>1. ServerOK /\ RequestsOK /\ agents \in Lists BY DEF TypeInv, ServerOK
<1>2. PICK c \in Nat : c = Cardinality(Savings(save)) /\ c <= MaxSaves BY SavingsFinite
<1>3. events \in 0..MaxEvents /\ MaxEvents \in Nat /\ MaxSaves \in Nat
  BY <1>1, Constants DEF ServerOK
<1>4. PICK n \in Nat : n = events + c BY <1>2, <1>3
<1>5. \A g \in Hosts : agents[g].name <= n BY <1>1, <1>2, <1>4 DEF ServerOK
<1>6. \A g \in Hosts : agents[g].name \in Nat
  <2>1. \A g \in Hosts : agents[g] \in Dto BY <1>1 DEF Lists
  <2> QED BY <2>1, Constants DEF Dto
<1>7. CASE UNCHANGED agents BY <1>1, <1>2, <1>4, <1>5, <1>7, SameAgents
<1>8. CASE ServerChanges /\ ~UNCHANGED agents
  <2>1. Event /\ events + 1 <= MaxEvents BY <1>3, <1>8 DEF ServerChanges, Event
  <2>2. n + 1 <= MaxEvents + MaxSaves BY <1>2, <1>3, <1>4, <2>1
  <2>3. PICK h \in Hosts : \/ agents' = [agents EXCEPT ![h].online = ~@]
                           \/ Renames(h)
                           \/ agents' = [agents EXCEPT ![h] = Gone]
    BY <1>8 DEF ServerChanges
  <2>4. CASE Renames(h) BY <1>1, <1>2, <1>4, <1>5, <2>1, <2>2, <2>4, Renamed
  <2>5. CASE ~Renames(h)
    <3>1. PICK r : r = [agents[h] EXCEPT !.online = ~@] OBVIOUS
    <3>2. agents[h] \in Dto BY <1>1 DEF Lists
    <3>3. r \in Dto /\ r.there = agents[h].there /\ r.name = agents[h].name
      BY <3>1, <3>2 DEF Dto
    <3>4. Gone \in Dto /\ ~Gone.there /\ Gone.name = 0
      BY Constants DEF Gone, Dto
    <3>5. PICK d \in Dto : /\ agents' = [agents EXCEPT ![h] = d]
                           /\ d.there => d.there = agents[h].there
                           /\ d.name \in {agents[h].name, 0} /\ (d.there => d.name = agents[h].name)
      BY <1>1, <2>3, <2>5, <3>1, <3>3, <3>4 DEF Lists
    <3>6. agents' \in Lists BY <1>1, <3>5 DEF Lists
    <3>7. ASSUME NEW g \in Hosts PROVE agents'[g].name <= n /\ Newer(agents, agents', g)
      <4>1. agents'[g] = IF g = h THEN d ELSE agents[g] BY <1>1, <3>5 DEF Lists
      <4>2. agents[g].name \in Nat /\ agents[h].name \in Nat BY <1>6
      <4> QED BY <1>5, <3>5, <4>1, <4>2 DEF Newer
    <3> QED BY <1>2, <1>4, <3>6, <3>7
  <2> QED BY <2>4, <2>5
<1>9. ASSUME NEW i \in Saves, UpdateDisplayName(i), ~UNCHANGED agents
      PROVE  /\ agents' \in Lists /\ \A g \in Hosts : Newer(agents, agents', g)
             /\ \A g \in Hosts : agents'[g].name <= n + 1
             /\ UNCHANGED events
  <2>1. PICK h : h = save[i].host OBVIOUS
  <2>2. save[i].pc = "sent" /\ SaveOK(save[i]) BY <1>1, <1>9 DEF UpdateDisplayName, RequestsOK
  <2>3. h \in Hosts BY <2>1, <2>2 DEF SaveOK
  <2>4. Renames(h) /\ UNCHANGED events BY <1>9, <2>1 DEF UpdateDisplayName
  <2>5. n + 1 <= MaxEvents + MaxSaves
    <3>1. i \notin Savings(save) BY <2>2 DEF Savings
    <3>2. PICK t : t = Savings(save) \cup {i} OBVIOUS
    <3>3. t \in SUBSET Saves BY <3>2 DEF Savings
    <3>5. Cardinality(t) = c + 1 BY <1>2, <3>1, <3>2, SavingsFinite, FS_AddElement
    <3>6. Cardinality(t) <= MaxSaves BY <3>3, SavesFinite, FS_Subset
    <3> QED BY <1>2, <1>3, <1>4, <3>5, <3>6
  <2> QED BY <1>1, <1>5, <2>3, <2>4, <2>5, Renamed
<1>10. \/ UNCHANGED agents \/ ServerChanges
       \/ \E i \in Saves : UpdateDisplayName(i)
  BY NextCases DEF vars, Away, UserActs, Poll, ListHosts, PollMetrics, Push, MetricsFail, OpenHost,
     PickHost, Rename, Cancel, ClickBeside, GoTo, Choose, ListArrives, ListFails, GetMetrics,
     Submit, Saved, SaveFails, Close
<1> QED BY <1>2, <1>4, <1>7, <1>8, <1>9, <1>10

---------------------------------------------------------------------------
LEMMA EventsStep ==
    ASSUME events \in 0..MaxEvents, [HostPagesNext]_vars
    PROVE  events' \in 0..MaxEvents /\ events' >= events
<1>1. UNCHANGED events \/ Event
  BY NextCases DEF vars, Away, UserActs, ServerChanges, UpdateDisplayName, Poll, ListHosts,
     PollMetrics, Push, MetricsFail, OpenHost, PickHost, Rename, Cancel, ClickBeside, GoTo, Choose,
     ListArrives, ListFails, GetMetrics, Submit, Saved, SaveFails, Close
<1> QED BY <1>1, Constants DEF Event

(* The server's samples are its newest or forgotten, and never newer than now.       *)
SampleStep ==
    \/ UNCHANGED <<samples, now>>
    \/ \E h \in Hosts : /\ now' \in Times /\ now' = now + 1
                        /\ samples' = [samples EXCEPT ![h] = now'] /\ UNCHANGED view
    \/ UNCHANGED <<now, view>> /\ samples' = [h \in Hosts |-> 0]

LEMMA NextSamples ==
    ASSUME now \in Times, [HostPagesNext]_vars
    PROVE  SampleStep
<1>1. ASSUME NEW h \in Hosts, Push(h) PROVE SampleStep
  <2>1. now' \in Times BY <1>1, Constants DEF Push, Times
  <2> QED BY <1>1, <2>1 DEF Push, SampleStep
<1>2. ServerChanges => SampleStep BY DEF ServerChanges, SampleStep
<1>3. UNCHANGED <<samples, now>> \/ ServerChanges \/ \E h \in Hosts : Push(h)
  BY NextCases DEF vars, Away, UserActs, UpdateDisplayName, Poll, ListHosts,
     PollMetrics, MetricsFail, OpenHost, PickHost, Rename, Cancel, ClickBeside, GoTo, Choose,
     ListArrives, ListFails, GetMetrics, Submit, Saved, SaveFails, Close
<1> QED BY <1>1, <1>2, <1>3 DEF SampleStep

LEMMA NextRequests ==
    ASSUME TypeInv, [HostPagesNext]_vars
    PROVE  RequestsOK'
<1>1. RequestsOK /\ agents \in Lists /\ agents' \in Lists BY AgentsStep DEF TypeInv, ServerOK
<1>2. save' \in [Saves -> SaveStates] /\ \A i \in Saves : SaveOK(save'[i])
  BY <1>1, NextMoves DEF Moves
<1>3. fetches' \in {{}, {None}, {agents}, fetches}
  BY NextCases DEF vars, Away, UserActs, ServerChanges, UpdateDisplayName, Poll, ListHosts,
     PollMetrics, Push, MetricsFail, OpenHost, PickHost, Rename, Cancel, ClickBeside, GoTo, Choose,
     ListArrives, ListFails, GetMetrics, Submit, Saved, SaveFails, Close, Invalidate
<1>4. view.page.host \in {None} \cup Hosts BY DEF TypeInv, ViewOK, ViewStates, Pages
<1>5. samplings' \subseteq Hosts
  BY <1>1, <1>4, NextCases DEF RequestsOK, vars, Away, UserActs, ServerChanges, UpdateDisplayName,
     Poll, ListHosts, PollMetrics, Push, MetricsFail, OpenHost, PickHost, Rename, Cancel,
     ClickBeside, GoTo, Choose, ListArrives, ListFails, GetMetrics, Submit, Saved, SaveFails, Close
<1>6. fetches' = {} \/ \E l \in {None} \cup Lists : fetches' = {l}
  BY <1>1, <1>3 DEF RequestsOK
<1> QED BY <1>2, <1>5, <1>6 DEF RequestsOK, SaveOK

LEMMA NextServer ==
    ASSUME TypeInv, [HostPagesNext]_vars
    PROVE  ServerOK'
<1>1. ServerOK /\ RequestsOK BY DEF TypeInv
<1>2. agents' \in Lists BY AgentsStep
<1>3. events' \in 0..MaxEvents /\ events' >= events BY <1>1, EventsStep DEF ServerOK
<1>4. samples' \in [Hosts -> Times] /\ now' \in Times
  <2>1. SampleStep BY <1>1, NextSamples DEF ServerOK
  <2>2. 0 \in Times BY Constants DEF Times
  <2> QED BY <1>1, <2>1, <2>2 DEF SampleStep, ServerOK
<1>5. \A g \in Hosts : agents'[g].name <= events' + Cardinality(Savings(save'))
  <2>1. PICK c \in Nat : c = Cardinality(Savings(save)) BY SavingsFinite
  <2>2. PICK d \in Nat : d = Cardinality(Savings(save')) BY SavingsFinite
  <2>3. \A i \in Saves : Moves(save[i], save'[i]) BY <1>1, <1>2, NextMoves
  <2>4. c <= d BY <2>1, <2>2, <2>3, SavingsGrow
  <2>5. \A g \in Hosts : agents'[g].name \in Nat
    <3>1. \A g \in Hosts : agents'[g] \in Dto BY <1>2 DEF Lists
    <3> QED BY <3>1, Constants DEF Dto
  <2>6. events \in Nat /\ events' \in Nat BY <1>1, <1>3, Constants DEF ServerOK
  <2>7. CASE \A g \in Hosts : agents'[g].name <= events + c
    BY <1>3, <2>2, <2>4, <2>5, <2>6, <2>7
  <2>8. CASE Event /\ \A g \in Hosts : agents'[g].name <= events + c + 1
    <3>1. events' = events + 1 BY <2>8 DEF Event
    <3> QED BY <2>2, <2>4, <2>5, <2>6, <2>8, <3>1
  <2>9. ASSUME NEW i \in Saves, UpdateDisplayName(i),
               \A g \in Hosts : agents'[g].name <= events + c + 1
        PROVE  \A g \in Hosts : agents'[g].name <= events' + d
    <3>1. i \notin Savings(save) BY <2>9 DEF UpdateDisplayName, Savings
    <3>2. i \in Savings(save') BY <1>1, <1>2, <2>9, AnswerMoves DEF Savings
    <3>3. PICK t : t = Savings(save) \cup {i} OBVIOUS
    <3>4. t \in SUBSET Savings(save') BY <2>3, <3>2, <3>3 DEF Savings, Moves
    <3>5. Cardinality(t) = c + 1 BY <2>1, <3>1, <3>3, SavingsFinite, FS_AddElement
    <3>6. Cardinality(t) <= d BY <2>2, <3>4, SavingsFinite, FS_Subset
    <3>7. c + 1 <= d BY <3>5, <3>6
    <3> QED BY <1>3, <2>5, <2>6, <2>9, <3>7
  <2> QED BY <2>1, <2>2, <2>7, <2>8, <2>9, AgentsStep
<1> QED BY <1>2, <1>3, <1>4, <1>5 DEF ServerOK, Savings

LEMMA NextTypes ==
    ASSUME TypeInv, [HostPagesNext]_vars
    PROVE  TypeInv'
<1>1. ServerOK' /\ RequestsOK' BY NextServer, NextRequests
<1>2. ViewOK(view') /\ DialogOK(view')
  <2>1. CASE UNCHANGED view BY <2>1 DEF TypeInv
  <2>2. ASSUME NEW v, Draws(v) PROVE ViewOK(view') /\ DialogOK(view')
    BY <2>2 DEF Draws, Drawn
  <2> QED BY <2>1, <2>2, NextDraws
<1>3. ViewOK(view)' /\ DialogOK(view)'
  BY <1>2 DEF ViewOK, DialogOK, Cards, Listed
<1> QED BY <1>1, <1>3 DEF TypeInv

LEMMA InitTypes == HostPagesInit => TypeInv
<1> SUFFICES ASSUME HostPagesInit PROVE TypeInv OBVIOUS
<1>1. 0 \in Times /\ 0 \in 0..MaxEvents /\ 0 \in 0..(MaxEvents + MaxSaves) BY Constants DEF Times
<1>2. ServerOK
  <2>1. agents \in Lists /\ \A h \in Hosts : agents[h].name = 0
    BY <1>1 DEF HostPagesInit, Lists, Dto
  <2>2. PICK c \in Nat : c = Cardinality(Savings(save)) BY SavingsFinite
  <2>3. events = 0 BY DEF HostPagesInit
  <2>4. \A h \in Hosts : agents[h].name <= events + c BY <2>1, <2>2, <2>3
  <2> QED BY <1>1, <2>1, <2>2, <2>4 DEF HostPagesInit, ServerOK
<1>3. RequestsOK
  <2>1. NewSave \in SaveStates /\ SaveOK(NewSave) BY DEF NewSave, SaveStates, SaveOK, Pcs
  <2> QED BY <2>1 DEF HostPagesInit, RequestsOK
<1>4. ViewOK(view)
  <2>1. Route("hosts", None) \in Pages BY DEF Route, Pages
  <2>2. <<>> \in Seq(Sampled) /\ Len(<<>>) <= Keep BY Constants
  <2>3. [h \in Hosts |-> None] \in [Hosts -> Dialogs] BY DEF Dialogs
  <2> QED BY <1>1, <2>1, <2>2, <2>3, Constants DEF HostPagesInit, ViewOK, ViewStates
<1>5. DialogOK(view) BY DEF HostPagesInit, DialogOK
<1> QED BY <1>2, <1>3, <1>4, <1>5 DEF TypeInv

LEMMA TypesHold == TypeInv => HostPagesTypeOK
<1> SUFFICES ASSUME TypeInv PROVE HostPagesTypeOK OBVIOUS
<1>1. Cardinality(fetches) <= 1 /\ fetches \subseteq {None} \cup Lists
  <2>1. Cardinality({}) = 0 /\ \A l : Cardinality({l}) = 1
    BY FS_EmptySet, FS_Singleton
  <2>2. fetches = {} \/ \E l \in {None} \cup Lists : fetches = {l} BY DEF TypeInv, RequestsOK
  <2>3. CASE fetches = {} BY <2>1, <2>3
  <2>4. ASSUME NEW l \in {None} \cup Lists, fetches = {l}
        PROVE  Cardinality(fetches) <= 1 /\ fetches \subseteq {None} \cup Lists
    <3>1. Cardinality(fetches) = 1 BY <2>1, <2>4
    <3> QED BY <2>4, <3>1
  <2> QED BY <2>2, <2>3, <2>4
<1>2. \A i \in Saves :
         /\ save[i].pc \in {"idle", "sent", "answered", "refreshing", "refreshed", "done"}
         /\ save[i].host \in {None} \cup Hosts /\ save[i].answer \in {None} \cup Dto
  BY DEF TypeInv, RequestsOK, SaveStates, Pcs
<1>3. /\ view.list \in {None} \cup Lists /\ view.failed \in BOOLEAN
      /\ view.metrics \in [Hosts -> Times] /\ view.filter \in Filters
      /\ view.page.at \in {"hosts", "host", "metrics"}
      /\ view.page.host \in {None} \cup Hosts
      /\ Len(view.history) <= Keep
  BY DEF TypeInv, ViewOK, ViewStates, Pages
<1>4. \A h \in Hosts : /\ view.dialog[h] \in {None, Open} \cup Saves
                       /\ view.dialog[h] # None => h \in Cards(view)
  BY DEF TypeInv, ViewOK, DialogOK, ViewStates, Dialogs
<1>5. agents \in Lists /\ samples \in [Hosts -> Times] /\ now \in Times /\ events \in 0..MaxEvents
      /\ samplings \subseteq Hosts
  BY DEF TypeInv, ServerOK, RequestsOK
<1> QED BY <1>1, <1>2, <1>3, <1>4, <1>5 DEF HostPagesTypeOK

---------------------------------------------------------------------------
(* The history charted.                                                      *)

(* Samples of the host of a page, in order, none newer than n.                    *)
Ordered(q, page, n) ==
    /\ page.host = None => q = <<>>
    /\ \A k \in 1..Len(q) : /\ q[k].host = page.host /\ q[k].collectedAt <= n
                            /\ k > 1 => q[k - 1].collectedAt < q[k].collectedAt

(* No figures of a host are newer than the server's, but for those it forgot.       *)
FiguresOK(metrics) ==
    \A h \in Hosts : /\ metrics[h] <= now /\ samples[h] <= now
                     /\ samples[h] # 0 => metrics[h] <= samples[h]

(* The history ends in the figures shown.                                      *)
Ends(q, page, metrics) ==
    page.host # None =>
        /\ metrics[page.host] # 0 => q # <<>> /\ q[Len(q)].collectedAt = metrics[page.host]
        /\ q # <<>> /\ samples[page.host] # 0 => q[Len(q)].collectedAt <= samples[page.host]

ChartInv ==
    /\ FiguresOK(view.metrics)
    /\ Ordered(view.history, view.page, now)
    /\ Ends(view.history, view.page, view.metrics)

LEMMA AddOrdered ==
    ASSUME NEW q \in Seq(Sampled), NEW page \in Pages, NEW n \in Nat, Ordered(q, page, n),
           NEW e \in Sampled, e.host = page.host, e.collectedAt <= n,
           q # <<>> => q[Len(q)].collectedAt < e.collectedAt,
           page.host # None
    PROVE  /\ Ordered(Add(q, e), page, n) /\ Add(q, e) # <<>>
           /\ Add(q, e)[Len(Add(q, e))] = e
<1>1. PICK r : r = Add(q, e) OBVIOUS
<1>2. PICK a : a = Append(q, e) OBVIOUS
<1>3. PICK m \in Nat : m = Len(q) OBVIOUS
<1>4. PICK d \in 0..m : /\ r \in Seq(Sampled) /\ Len(r) = m + 1 - d
                        /\ \A k \in 1..(m + 1 - d) : r[k] = a[k + d]
  <2>1. \E d \in 0..Len(q) :
             /\ Add(q, e) \in Seq(Sampled) /\ Len(Add(q, e)) = Len(q) + 1 - d
             /\ Len(Add(q, e)) <= Keep
             /\ \A k \in 1..(Len(q) + 1 - d) : Add(q, e)[k] = Append(q, e)[k + d]
    BY Added
  <2> QED BY <1>1, <1>2, <1>3, <2>1
<1>5. a \in Seq(Sampled) /\ Len(a) = m + 1 /\ a[m + 1] = e /\ \A k \in 1..m : a[k] = q[k]
  BY <1>2, <1>3
<1>6. ASSUME NEW k \in 1..(m + 1)
      PROVE  /\ a[k].host = page.host /\ a[k].collectedAt <= n
             /\ k > 1 => a[k - 1].collectedAt < a[k].collectedAt
  <2>1. CASE k \in 1..m
    <3>1. a[k] = q[k] BY <1>5, <2>1
    <3>2. k > 1 => k - 1 \in 1..m /\ a[k - 1] = q[k - 1] BY <1>5, <2>1
    <3> QED BY <1>3, <2>1, <3>1, <3>2 DEF Ordered
  <2>2. CASE k = m + 1
    <3>1. a[k] = e BY <1>5, <2>2
    <3>2. k > 1 => k - 1 = m /\ a[k - 1] = q[m] /\ q # <<>> BY <1>3, <1>5, <2>2
    <3> QED BY <1>3, <3>1, <3>2
  <2> QED BY <2>1, <2>2
<1>7. PICK u \in Nat : u = m + 1 - d /\ u >= 1 /\ u + d = m + 1 BY <1>4
<1>8. ASSUME NEW k \in 1..u
      PROVE  /\ r[k].host = page.host /\ r[k].collectedAt <= n
             /\ k > 1 => r[k - 1].collectedAt < r[k].collectedAt
  <2>1. PICK j \in 1..(m + 1) : j = k + d BY <1>4, <1>7
  <2>2. r[k] = a[j] BY <1>4, <1>7, <2>1
  <2>3. k > 1 => j > 1 /\ k - 1 \in 1..u /\ k - 1 + d = j - 1 BY <1>4, <1>7, <2>1
  <2>4. k > 1 => r[k - 1] = a[k - 1 + d] BY <1>4, <1>7, <2>3
  <2>5. k > 1 => r[k - 1] = a[j - 1] BY <2>3, <2>4
  <2> QED BY <1>6, <2>1, <2>2, <2>3, <2>5
<1>9. Len(r) = u BY <1>4, <1>7
<1>10. r # <<>> BY <1>4, <1>7, <1>9
<1>11. r[u] = e
  <2>1. u \in 1..u /\ r[u] = a[u + d] BY <1>4, <1>7
  <2> QED BY <1>5, <1>7, <2>1
<1>12. Ordered(r, page, n) BY <1>8, <1>9 DEF Ordered
<1> QED BY <1>1, <1>9, <1>10, <1>11, <1>12

LEMMA ChartedOrdered ==
    ASSUME NEW q \in Seq(Sampled), NEW page \in Pages, NEW n \in Nat, Ordered(q, page, n),
           NEW metrics \in [Hosts -> Times],
           page.host # None => metrics[page.host] <= n,
           page.host # None /\ q # <<>> /\ metrics[page.host] # 0
             => q[Len(q)].collectedAt <= metrics[page.host],
           NEW r, r = Charted(q, page, metrics)
    PROVE  /\ Ordered(r, page, n)
           /\ page.host # None /\ metrics[page.host] # 0
                => r # <<>> /\ r[Len(r)].collectedAt = metrics[page.host]
           /\ page.host = None \/ metrics[page.host] = 0 => r = q
<1>1. CASE page.host = None \/ metrics[page.host] = 0 BY <1>1 DEF Charted
<1>2. CASE ~(page.host = None \/ metrics[page.host] = 0)
  <2>1. PICK e : e = [host |-> page.host, collectedAt |-> metrics[page.host]] OBVIOUS
  <2>2. page.host \in Hosts BY <1>2 DEF Pages
  <2>3. metrics[page.host] \in 1..MaxSamples BY <1>2, <2>2, Constants DEF Times
  <2>4. e \in Sampled /\ e.host = page.host /\ e.collectedAt = metrics[page.host]
    BY <2>1, <2>2, <2>3 DEF Sampled
  <2>5. CASE q # <<>> /\ q[Len(q)].collectedAt = e.collectedAt
    <3>1. r = q BY <1>2, <2>1, <2>5 DEF Charted, Last
    <3> QED BY <1>2, <2>4, <2>5, <3>1
  <2>6. CASE ~(q # <<>> /\ q[Len(q)].collectedAt = e.collectedAt)
    <3>1. r = Add(q, e) BY <1>2, <2>1, <2>6 DEF Charted, Last
    <3>2. q # <<>> => q[Len(q)].collectedAt < e.collectedAt
      <4>1. ASSUME q # <<>> PROVE q[Len(q)].collectedAt < e.collectedAt
        <5>1. Len(q) \in 1..Len(q) BY <4>1
        <5>2. q[Len(q)] \in Sampled BY <5>1
        <5>3. q[Len(q)].collectedAt \in Int BY <5>2, Constants DEF Sampled
        <5>4. e.collectedAt \in Int BY <2>3, <2>4, Constants
        <5>5. q[Len(q)].collectedAt # e.collectedAt BY <2>6, <4>1
        <5>6. q[Len(q)].collectedAt <= e.collectedAt BY <1>2, <2>4, <4>1
        <5> QED BY <5>3, <5>4, <5>5, <5>6
      <4> QED BY <4>1
    <3>3. e.collectedAt <= n /\ page.host # None BY <1>2, <2>4
    <3> QED BY <1>2, <2>4, <3>1, <3>2, <3>3, AddOrdered
  <2> QED BY <2>5, <2>6
<1> QED BY <1>1, <1>2

LEMMA ChartDrawn ==
    ASSUME TypeInv, ChartInv, NEW v, Draws(v)
    PROVE  ChartInv'
<1>1. PICK page : page = Selected(v) OBVIOUS
<1>2. page \in Pages /\ view'.page = page BY <1>1, SelectedOK DEF Draws, Drawn
<1>3. PICK q : q = Reset(page) OBVIOUS
<1>4. q \in Seq(Sampled) BY <1>3, ResetOK DEF TypeInv
<1>5. PICK r : r = Charted(q, page, v.metrics) OBVIOUS
<1>6. view'.history = r /\ view'.metrics = v.metrics BY <1>1, <1>3, <1>5 DEF Draws, Drawn
<1>7. v.metrics \in [Hosts -> Times] /\ view.metrics \in [Hosts -> Times]
  BY DEF Draws, Drawn, TypeInv, ViewOK, ViewStates
<1>8. UNCHANGED <<samples, now>> BY DEF Draws
<1>9. samples \in [Hosts -> Times] /\ now \in Times BY DEF TypeInv, ServerOK
<1>10. now \in Nat /\ \A h \in Hosts : samples[h] \in Nat /\ v.metrics[h] \in Nat
  BY <1>7, <1>9, Constants DEF Times
<1>11. FiguresOK(v.metrics)
  <2>1. \A h \in Hosts : v.metrics[h] = view.metrics[h] \/ v.metrics[h] = samples[h]
    BY <1>7 DEF Draws
  <2> QED BY <1>10, <2>1 DEF FiguresOK, ChartInv
<1>12. page.host # None => page.host \in Hosts BY <1>2 DEF Pages
<1>13. Ordered(q, page, now)
  <2>1. Ordered(<<>>, page, now) BY DEF Ordered
  <2> QED BY <1>3, <2>1 DEF Reset, ChartInv
<1>14. ASSUME page.host # None, q # <<>>
       PROVE  /\ v.metrics[page.host] # 0 => q[Len(q)].collectedAt <= v.metrics[page.host]
              /\ samples[page.host] # 0 => q[Len(q)].collectedAt <= samples[page.host]
  <2>1. page = view.page /\ q = view.history BY <1>3, <1>14 DEF Reset
  <2>2. Ends(q, page, view.metrics) BY <2>1 DEF ChartInv
  <2>3. v.metrics[page.host] \in {view.metrics[page.host], samples[page.host]}
    BY <1>7, <1>12, <1>14 DEF Draws
  <2>4. v.metrics[page.host] \in Nat BY <1>10, <1>12, <1>14
  <2> QED BY <1>14, <2>2, <2>3, <2>4 DEF Ends
<1>15. /\ Ordered(r, page, now)
       /\ page.host # None /\ v.metrics[page.host] # 0
            => r # <<>> /\ r[Len(r)].collectedAt = v.metrics[page.host]
       /\ page.host = None \/ v.metrics[page.host] = 0 => r = q
  <2>1. page.host # None => v.metrics[page.host] <= now BY <1>11, <1>12 DEF FiguresOK
  <2>2. page.host # None /\ q # <<>> /\ v.metrics[page.host] # 0
          => q[Len(q)].collectedAt <= v.metrics[page.host]
    BY <1>14
  <2> QED BY <1>2, <1>4, <1>5, <1>7, <1>10, <1>13, <2>1, <2>2, ChartedOrdered
<1>16. Ends(r, page, v.metrics)
  <2>1. ASSUME page.host # None
        PROVE  /\ v.metrics[page.host] # 0 => r # <<>> /\ r[Len(r)].collectedAt = v.metrics[page.host]
               /\ r # <<>> /\ samples[page.host] # 0 => r[Len(r)].collectedAt <= samples[page.host]
    <3>1. CASE v.metrics[page.host] # 0
      <4>1. r[Len(r)].collectedAt = v.metrics[page.host] /\ r # <<>> BY <1>15, <2>1, <3>1
      <4>2. samples[page.host] # 0 => v.metrics[page.host] <= samples[page.host]
        BY <1>11, <1>12, <2>1 DEF FiguresOK
      <4> QED BY <4>1, <4>2
    <3>2. CASE v.metrics[page.host] = 0 BY <1>14, <1>15, <2>1, <3>2
    <3> QED BY <3>1, <3>2
  <2> QED BY <2>1 DEF Ends
<1>17. FiguresOK(view.metrics)' BY <1>6, <1>8, <1>11 DEF FiguresOK
<1>18. Ordered(view.history, view.page, now)' BY <1>2, <1>6, <1>8, <1>15 DEF Ordered
<1>19. Ends(view.history, view.page, view.metrics)' BY <1>2, <1>6, <1>8, <1>16 DEF Ends
<1> QED BY <1>17, <1>18, <1>19 DEF ChartInv

(* The server's samples change while the page does not.                           *)
LEMMA ChartSampled ==
    ASSUME TypeInv, ChartInv, SampleStep, UNCHANGED view
    PROVE  ChartInv'
<1>1. samples \in [Hosts -> Times] /\ now \in Times BY DEF TypeInv, ServerOK
<1>2. now \in Nat /\ \A h \in Hosts : samples[h] \in Nat BY <1>1, Constants DEF Times
<1>3. view.metrics \in [Hosts -> Times] /\ view.history \in Seq(Sampled) /\ view.page \in Pages
  BY DEF TypeInv, ViewOK, ViewStates
<1>4. \A h \in Hosts : view.metrics[h] \in Nat BY <1>3, Constants DEF Times
<1>5. now' \in Nat /\ now <= now' BY <1>2 DEF SampleStep
<1>6. \A h \in Hosts : /\ samples'[h] \in {samples[h], now', 0}
                       /\ samples'[h] = now' => samples[h] <= samples'[h]
  BY <1>1, <1>2, <1>5 DEF SampleStep, ChartInv, FiguresOK
<1>7. FiguresOK(view.metrics)'
  <2>1. ASSUME NEW h \in Hosts
        PROVE  /\ view.metrics[h] <= now' /\ samples'[h] <= now'
               /\ samples'[h] # 0 => view.metrics[h] <= samples'[h]
    <3>1. /\ view.metrics[h] <= now /\ samples[h] <= now
          /\ samples[h] # 0 => view.metrics[h] <= samples[h]
      BY DEF ChartInv, FiguresOK
    <3> QED BY <1>2, <1>4, <1>5, <1>6, <3>1
  <2> QED BY <2>1 DEF FiguresOK
<1>8. ASSUME NEW k \in 1..Len(view.history) PROVE view.history[k].collectedAt \in Nat
  <2>1. view.history[k] \in Sampled BY <1>3
  <2> QED BY <2>1, Constants DEF Sampled
<1>9. Ordered(view.history, view.page, now')
  BY <1>2, <1>5, <1>8 DEF ChartInv, Ordered
<1>10. Ordered(view.history, view.page, now)' BY <1>9 DEF Ordered
<1>11. Ends(view.history, view.page, view.metrics)'
  <2>1. ASSUME view.page.host # None, view.history # <<>>, samples'[view.page.host] # 0
        PROVE  view.history[Len(view.history)].collectedAt <= samples'[view.page.host]
    <3>1. view.page.host \in Hosts BY <1>3, <2>1 DEF Pages
    <3>2. PICK h \in Hosts : h = view.page.host BY <3>1
    <3>3. Len(view.history) \in 1..Len(view.history) BY <1>3, <2>1
    <3>4. PICK c \in Nat : c = view.history[Len(view.history)].collectedAt BY <1>8, <3>3
    <3>5. c <= now BY <3>3, <3>4 DEF ChartInv, Ordered
    <3>6. samples[h] # 0 => c <= samples[h] BY <2>1, <3>2, <3>4 DEF ChartInv, Ends
    <3>7. samples'[h] \in {samples[h], now'} BY <1>6, <2>1, <3>2
    <3> QED BY <1>2, <1>5, <2>1, <3>2, <3>4, <3>5, <3>6, <3>7
  <2> QED BY <2>1 DEF Ends, ChartInv
<1> QED BY <1>7, <1>10, <1>11 DEF ChartInv

LEMMA NextChart ==
    ASSUME TypeInv, ChartInv, [HostPagesNext]_vars
    PROVE  ChartInv'
<1>1. SampleStep BY NextSamples DEF TypeInv, ServerOK
<1> QED BY <1>1, NextDraws, ChartDrawn, ChartSampled

LEMMA InitChart == HostPagesInit => ChartInv
<1> SUFFICES ASSUME HostPagesInit PROVE ChartInv OBVIOUS
<1>1. view.history = <<>> /\ view.page.host = None /\ now = 0
  BY DEF HostPagesInit, Route
<1>2. FiguresOK(view.metrics) BY DEF HostPagesInit, FiguresOK
<1> QED BY <1>1, <1>2 DEF ChartInv, Ordered, Ends

LEMMA ChartHolds == TypeInv /\ ChartInv => ChartIsOfHost
<1> SUFFICES ASSUME TypeInv, ChartInv PROVE ChartIsOfHost OBVIOUS
<1>1. view.history \in Seq(Sampled) BY DEF TypeInv, ViewOK, ViewStates
<1>2. DOMAIN view.history = 1..Len(view.history) BY <1>1
<1> QED BY <1>2 DEF ChartInv, Ordered, ChartIsOfHost

---------------------------------------------------------------------------
(* The name saved is the name shown.                                           *)

Shows(l, h, name) == l[h].there => l[h].name >= name

Sole(i) == \A j \in Saves \ {i} : save[j].host # save[i].host

(* From the answer on the server has the name, from the invalidation on also every  *)
(* list that the page has or may get.                                           *)
Named(i) ==
    save[i].answer # None =>
        /\ Shows(agents, save[i].host, save[i].answer.name)
        /\ save[i].pc \in {"refreshing", "refreshed"} =>
             \A l \in (fetches \cup {view.list}) \ {None} :
               Shows(l, save[i].host, save[i].answer.name)

(* A dialog is locked by a name for its host.                                    *)
Locked == \A h \in Hosts : \A i \in Saves : view.dialog[h] = i => save[i].host = h

NameInv == Locked /\ \A i \in Saves : Sole(i) => Named(i)

LEMMA NameIsInt == ASSUME NEW d \in Dto PROVE d.name \in Int
BY Constants DEF Dto

LEMMA SavedOnly ==
    ASSUME RequestsOK, [HostPagesNext]_vars, NEW i \in Saves,
           save[i].pc = "answered", save'[i].pc \in {"refreshing", "refreshed"}
    PROVE  Saved(i)
<1>1. save \in [Saves -> SaveStates] BY DEF RequestsOK
<1>2. save'[i] # save[i] OBVIOUS
<1>3. ~ListFetched BY <1>2 DEF ListFetched
<1>4. ASSUME NEW j \in Saves, NEW r, save' = [save EXCEPT ![j] = r] PROVE j = i
  BY <1>1, <1>2, <1>4
<1>5. ~(\E h \in Hosts : \E j \in Saves : Submit(h, j)) BY <1>4 DEF Submit
<1>6. ~(\E j \in Saves : UpdateDisplayName(j))
  <2>1. ASSUME NEW j \in Saves, UpdateDisplayName(j) PROVE FALSE
    <3>1. j # i BY <2>1 DEF UpdateDisplayName
    <3>2. save'[i] = save[i] BY <1>1, <2>1, <3>1 DEF UpdateDisplayName
    <3> QED BY <1>2, <3>2
  <2> QED BY <2>1
<1>7. ASSUME NEW j \in Saves, SaveFails(j) \/ Close(j) PROVE FALSE
  <2>1. save' = [save EXCEPT ![j].pc = "done"] BY <1>7 DEF SaveFails, Close
  <2>2. save'[i].pc = "done" \/ save'[i] = save[i] BY <1>1, <2>1 DEF SaveStates
  <2> QED BY <1>2, <2>2
<1>8. ASSUME NEW j \in Saves, Saved(j) PROVE Saved(i)
  <2>1. save' = [save EXCEPT ![j].pc = "refreshing"] BY <1>8 DEF Saved
  <2>2. j = i BY <1>1, <1>2, <2>1
  <2> QED BY <1>8, <2>2
<1>9. ~UNCHANGED save BY <1>2
<1> QED
  BY <1>3, <1>5, <1>6, <1>7, <1>8, <1>9, NextCases DEF vars, Away, UserActs, ServerChanges, Poll,
     ListHosts, PollMetrics, Push, MetricsFail, OpenHost, PickHost, Rename, Cancel, ClickBeside,
     GoTo, Choose, ListArrives, ListFails, GetMetrics

(* But for a name that is saved, every list is one there was or the server's.        *)
LEMMA ListsStep ==
    ASSUME TypeInv, [HostPagesNext]_vars, ~\E j \in Saves : Saved(j)
    PROVE  /\ view'.list \in fetches \cup {view.list}
           /\ fetches' \subseteq fetches \cup {None, agents'}
<1>1. fetches' \subseteq fetches \cup {None, agents'}
  BY NextCases DEF vars, Away, UserActs, ServerChanges, UpdateDisplayName, Poll, ListHosts,
     PollMetrics, Push, MetricsFail, OpenHost, PickHost, Rename, Cancel, ClickBeside, GoTo, Choose,
     ListArrives, ListFails, GetMetrics, Submit, SaveFails, Close
<1>2. ASSUME NEW v, Quiet(v) PROVE view'.list = view.list BY <1>2 DEF Quiet, Draws, Drawn
<1>3. view'.list \in fetches \cup {view.list}
  <2>1. CASE UNCHANGED vars BY <2>1 DEF vars
  <2>2. CASE Away BY <2>2, AwayUnseen
  <2>3. CASE UserActs BY <1>2, <2>3, UserQuiet
  <2>4. CASE ListArrives \/ ListFails BY <2>4, ListDrawn DEF Draws, Drawn
  <2>5. CASE \E h \in Hosts : GetMetrics(h) BY <1>2, <2>5, MetricsQuiet
  <2>6. CASE \E h \in Hosts : \E i \in Saves : Submit(h, i)
    BY <2>6, SubmitDrawn DEF Draws, Drawn
  <2>7. CASE \E i \in Saves : SaveFails(i) \/ Close(i) BY <1>2, <2>7, EndQuiet
  <2> QED BY <2>1, <2>2, <2>3, <2>4, <2>5, <2>6, <2>7, NextCases
<1> QED BY <1>1, <1>3

LEMMA SavedStep ==
    ASSUME TypeInv, NEW i \in Saves, Saved(i)
    PROVE  /\ fetches' = {None}
           /\ \/ save[i].host \notin Listed(view.list) /\ view'.list = view.list
              \/ /\ view.list \in Lists \ {None}
                 /\ view'.list = [view.list EXCEPT ![save[i].host] = save[i].answer]
<1>1. fetches' = {None} BY DEF Saved, Invalidate
<1> QED BY <1>1, SavedDrawn DEF Draws, Drawn

LEMMA NextLocked ==
    ASSUME TypeInv, Locked, [HostPagesNext]_vars
    PROVE  Locked'
<1>1. RequestsOK /\ agents' \in Lists BY AgentsStep DEF TypeInv
<1>2. \A i \in Saves : Moves(save[i], save'[i]) BY <1>1, NextMoves
<1>3. ASSUME NEW h \in Hosts, NEW i \in Saves, view.dialog[h] = i PROVE save'[i].host = h
  <2>1. save[i].host = h BY <1>3 DEF Locked
  <2>2. save[i].pc # "idle" BY <1>1, <2>1, Apart DEF RequestsOK, SaveOK, NewSave
  <2> QED BY <1>2, <2>1, <2>2 DEF Moves
<1>4. ASSUME NEW h \in Hosts, view'.dialog[h] \in {view.dialog[h], None, Open},
             NEW i \in Saves, view'.dialog[h] = i
      PROVE  save'[i].host = h
  BY <1>3, <1>4, Apart
<1>5. CASE \E h \in Hosts : \E i \in Saves : Submit(h, i)
  <2>1. PICK g \in Hosts, j \in Saves : Submit(g, j) BY <1>5
  <2>2. PICK v : Draws(v) /\ v.dialog = [view.dialog EXCEPT ![g] = j] BY <2>1, SubmitDrawn
  <2>3. view.dialog \in [Hosts -> Dialogs] BY DEF TypeInv, ViewOK, ViewStates
  <2>4. save'[j].host = g
    <3>1. save \in [Saves -> SaveStates] BY <1>1 DEF RequestsOK
    <3> QED BY <2>1, <3>1 DEF Submit, NewSave
  <2>5. ASSUME NEW h \in Hosts, NEW i \in Saves, view'.dialog[h] = i PROVE save'[i].host = h
    <3>1. view'.dialog[h] = v.dialog[h] BY <2>2, <2>5, Apart DEF Draws, Drawn
    <3>2. CASE h = g BY <2>2, <2>3, <2>4, <2>5, <3>1, <3>2
    <3>3. CASE h # g BY <1>3, <2>2, <2>3, <2>5, <3>1, <3>3
    <3> QED BY <3>2, <3>3
  <2> QED BY <2>5 DEF Locked
<1>6. CASE ~\E h \in Hosts : \E i \in Saves : Submit(h, i)
  <2>1. ASSUME NEW v, Quiet(v)
        PROVE  \A h \in Hosts : view'.dialog[h] \in {view.dialog[h], None, Open}
    BY <2>1 DEF Quiet, Draws, Drawn
  <2>2. ASSUME NEW v, Draws(v), v.dialog = view.dialog
        PROVE  \A h \in Hosts : view'.dialog[h] \in {view.dialog[h], None, Open}
    BY <2>2 DEF Draws, Drawn
  <2>3. \A h \in Hosts : view'.dialog[h] \in {view.dialog[h], None, Open}
    <3>1. CASE UNCHANGED vars BY <3>1 DEF vars
    <3>2. CASE Away BY <3>2, AwayUnseen
    <3>3. CASE UserActs BY <2>1, <3>3, UserQuiet
    <3>4. CASE ListArrives \/ ListFails BY <2>2, <3>4, ListDrawn
    <3>5. CASE \E h \in Hosts : GetMetrics(h) BY <2>1, <3>5, MetricsQuiet
    <3>6. CASE \E i \in Saves : SaveFails(i) \/ Close(i) BY <2>1, <3>6, EndQuiet
    <3>7. CASE \E i \in Saves : Saved(i) BY <2>2, <3>7, SavedDrawn
    <3> QED BY <1>6, <3>1, <3>2, <3>3, <3>4, <3>5, <3>6, <3>7, NextCases
  <2> QED BY <1>4, <2>3 DEF Locked
<1> QED BY <1>5, <1>6

LEMMA NextNamed ==
    ASSUME TypeInv, NameInv, [HostPagesNext]_vars, NEW i \in Saves, Sole(i)'
    PROVE  Named(i)'
<1>1. RequestsOK /\ agents \in Lists /\ agents' \in Lists BY AgentsStep DEF TypeInv, ServerOK
<1>2. \A j \in Saves : Moves(save[j], save'[j]) BY <1>1, NextMoves
<1>3. \A j \in Saves : SaveOK(save[j]) BY <1>1 DEF RequestsOK
<1>4. PICK h : h = save'[i].host OBVIOUS
<1>5. SUFFICES ASSUME save'[i].answer # None
      PROVE  /\ Shows(agents', h, save'[i].answer.name)
             /\ save'[i].pc \in {"refreshing", "refreshed"} =>
                  \A l \in (fetches' \cup {view'.list}) \ {None} :
                    Shows(l, h, save'[i].answer.name)
  BY <1>4 DEF Named, Shows
<1>6. save[i].pc # "idle" /\ save[i].host = h /\ h \in Hosts
  <2>1. save[i].pc # "idle" BY <1>2, <1>5 DEF Moves, SaveOK
  <2> QED BY <1>2, <1>3, <1>4, <2>1 DEF Moves, SaveOK
<1>7. PICK a : a = save'[i].answer OBVIOUS
<1>8. a \in Dto BY <1>2, <1>5, <1>7 DEF Moves, SaveOK, SaveStates
<1>9. a.name \in Int /\ a.name >= a.name BY <1>8, NameIsInt
<1>10. CASE save[i].pc = "sent"
  <2>1. a = agents'[h] /\ save'[i].pc \notin {"refreshing", "refreshed"}
    BY <1>2, <1>5, <1>6, <1>7, <1>10 DEF Moves
  <2> QED BY <1>7, <1>9, <2>1 DEF Shows
<1>11. CASE save[i].pc # "sent"
  <2>1. save[i].answer = a BY <1>2, <1>6, <1>7, <1>11 DEF Moves
  <2>2. Sole(i)
    <3>1. ASSUME NEW j \in Saves \ {i} PROVE save[j].host # h
      <4>1. save'[j].host # h BY <1>4 DEF Sole
      <4>2. save[j].pc = "idle" => save[j].host = None BY <1>3 DEF SaveOK, NewSave
      <4>3. save[j].pc # "idle" => save'[j].host = save[j].host BY <1>2 DEF Moves
      <4> QED BY <1>6, <4>1, <4>2, <4>3, Apart
    <3> QED BY <1>6, <3>1 DEF Sole
  <2>3. /\ Shows(agents, h, a.name)
        /\ save[i].pc \in {"refreshing", "refreshed"} =>
             \A l \in (fetches \cup {view.list}) \ {None} : Shows(l, h, a.name)
    BY <1>5, <1>6, <1>7, <2>1, <2>2 DEF NameInv, Named
  <2>4. Shows(agents', h, a.name)
    <3>1. Newer(agents, agents', h) BY <1>6, AgentsStep
    <3>2. agents[h].name \in Int /\ agents'[h].name \in Int BY <1>1, <1>6, NameIsInt DEF Lists
    <3> QED BY <1>9, <2>3, <3>1, <3>2 DEF Newer, Shows
  <2>5. CASE Saved(i)
    <3>1. fetches' = {None} BY <2>5, SavedStep
    <3>2. view'.list # None => Shows(view'.list, h, a.name)
      <4>1. CASE h \notin Listed(view.list) /\ view'.list = view.list
        BY <1>6, <4>1 DEF Listed, Shows
      <4>2. CASE view.list \in Lists /\ view'.list = [view.list EXCEPT ![h] = a]
        <5>1. view'.list[h] = a BY <1>6, <4>2 DEF Lists
        <5> QED BY <1>9, <5>1 DEF Shows
      <4> QED BY <1>6, <2>1, <2>5, <4>1, <4>2, SavedStep
    <3> QED BY <1>7, <2>4, <3>1, <3>2
  <2>6. ASSUME NEW j \in Saves \ {i}, Saved(j), ~Saved(i)
        PROVE  save'[i].pc \in {"refreshing", "refreshed"} =>
                 \A l \in (fetches' \cup {view'.list}) \ {None} : Shows(l, h, a.name)
    <3> SUFFICES ASSUME save'[i].pc \in {"refreshing", "refreshed"}, view'.list # None
                 PROVE  Shows(view'.list, h, a.name)
      <4>1. fetches' = {None} BY <2>6, SavedStep
      <4> QED BY <4>1
    <3>1. save[i].pc \in {"refreshing", "refreshed"}
      BY <1>1, <1>2, <2>6, SavedOnly DEF Moves
    <3>2. CASE view'.list = view.list BY <2>3, <3>1, <3>2
    <3>3. CASE /\ view.list \in Lists \ {None}
               /\ view'.list = [view.list EXCEPT ![save[j].host] = save[j].answer]
      <4>1. save[j].host # h BY <1>6, <2>2, <2>6 DEF Sole
      <4>2. view'.list[h] = view.list[h] BY <1>6, <3>3, <4>1 DEF Lists
      <4> QED BY <2>3, <3>1, <3>3, <4>2 DEF Shows
    <3> QED BY <2>6, <3>2, <3>3, SavedStep
  <2>7. ASSUME ~\E j \in Saves : Saved(j)
        PROVE  save'[i].pc \in {"refreshing", "refreshed"} =>
                 \A l \in (fetches' \cup {view'.list}) \ {None} : Shows(l, h, a.name)
    <3>1. ASSUME save'[i].pc \in {"refreshing", "refreshed"}
          PROVE  save[i].pc \in {"refreshing", "refreshed"}
      BY <1>1, <1>2, <2>7, <3>1, SavedOnly DEF Moves
    <3>2. fetches' \cup {view'.list} \subseteq fetches \cup {view.list, None, agents'}
      BY <2>7, ListsStep
    <3> QED BY <2>3, <2>4, <3>1, <3>2
  <2> QED BY <1>7, <2>4, <2>5, <2>6, <2>7
<1> QED BY <1>10, <1>11

LEMMA InitNamed == HostPagesInit => NameInv
<1> SUFFICES ASSUME HostPagesInit PROVE NameInv OBVIOUS
<1>1. Locked BY Apart DEF HostPagesInit, Locked
<1>2. \A i \in Saves : save[i].answer = None BY DEF HostPagesInit, NewSave
<1> QED BY <1>1, <1>2 DEF NameInv, Named

---------------------------------------------------------------------------
HostPagesInv == TypeInv /\ ChartInv /\ NameInv

LEMMA HostPagesInvHolds == HostPagesSpec => []HostPagesInv
<1>1. HostPagesInit => HostPagesInv BY InitTypes, InitChart, InitNamed DEF HostPagesInv
<1>2. HostPagesInv /\ [HostPagesNext]_vars => HostPagesInv'
  <2> SUFFICES ASSUME HostPagesInv, [HostPagesNext]_vars PROVE HostPagesInv' OBVIOUS
  <2>1. TypeInv' BY NextTypes DEF HostPagesInv
  <2>2. ChartInv' BY NextChart DEF HostPagesInv
  <2>3. Locked' BY NextLocked DEF HostPagesInv, NameInv
  <2>4. ASSUME NEW i \in Saves, Sole(i)' PROVE Named(i)' BY <2>4, NextNamed DEF HostPagesInv
  <2>5. NameInv' BY <2>3, <2>4 DEF NameInv
  <2> QED BY <2>1, <2>2, <2>5 DEF HostPagesInv
<1> QED BY <1>1, <1>2, PTL DEF HostPagesSpec

(* What the server records, what the browser has cached and what it shows are        *)
(* always well formed, however polls, failures, renames and clicks interleave; a     *)
(* rename dialog is open on a card that is on screen, and the history keeps its       *)
(* bound (useHostMetrics.ts:33-63, HostCard.tsx, MetricsPage.tsx).                   *)
THEOREM HostPagesTypes == HostPagesSpec => []HostPagesTypeOK
<1>1. HostPagesInv => HostPagesTypeOK BY TypesHold DEF HostPagesInv
<1> QED BY <1>1, HostPagesInvHolds, PTL

(* However the user moves between hosts and pages while polls are under way, and     *)
(* however often the server forgets its samples, the charts draw samples of the host  *)
(* on screen only, in the order they were taken, each once (useHostMetrics.ts:33-63).  *)
THEOREM ChartOfHost == HostPagesSpec => []ChartIsOfHost
<1>1. HostPagesInv => ChartIsOfHost BY ChartHolds DEF HostPagesInv
<1> QED BY <1>1, HostPagesInvHolds, PTL

LEMMA CloseNamed ==
    ASSUME HostPagesInv, NEW i \in Saves, NEW h \in Hosts, Close(i), view.dialog[h] = i,
           view.list[h].there, \A j \in Saves \ {i} : save[j].host # h
    PROVE  view.list[h].name >= save[i].answer.name
<1>1. save[i].host = h BY DEF HostPagesInv, NameInv, Locked
<1>2. Sole(i) BY <1>1 DEF Sole
<1>3. save[i].pc = "refreshed" /\ save[i].answer # None
  BY DEF Close, HostPagesInv, TypeInv, RequestsOK, SaveOK
<1>4. view.list # None
  <2>1. h \in Cards(view) BY Apart DEF HostPagesInv, TypeInv, DialogOK
  <2> QED BY <2>1 DEF Cards, Listed
<1>5. Shows(view.list, save[i].host, save[i].answer.name)
  BY <1>2, <1>3, <1>4 DEF HostPagesInv, NameInv, Named
<1> QED BY <1>1, <1>5 DEF Shows

(* When the dialog closes on a name it has saved, the list shows that name or a      *)
(* newer one: the answer is put in the list, a poll with the old name that was under  *)
(* way is dropped, and the server reads the next one after it renamed the host        *)
(* (useRenameHost.ts:19-28, RenameHostDialog.tsx:49-58).                           *)
THEOREM RenameShows == HostPagesSpec => SavedNameShown
<1>1. ASSUME HostPagesInv, [HostPagesNext]_vars
      PROVE  [\A i \in Saves : \A h \in Hosts :
                Close(i) /\ view.dialog[h] = i /\ view.list[h].there
                   /\ (\A j \in Saves \ {i} : save[j].host # h)
                => view.list[h].name >= save[i].answer.name]_vars
  BY <1>1, CloseNamed
<1> QED BY <1>1, HostPagesInvHolds, PTL DEF HostPagesSpec, SavedNameShown
=============================================================================
