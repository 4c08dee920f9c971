------------------------- MODULE ContainerPanelProofs -------------------------
(***************************************************************************)
(* Proofs about ContainerPanel, for any number of containers, commands, filters   *)
(* and lists and any page size.                                              *)
(*                                                                         *)
(* First the commands and the dialog that confirms a deletion: whose question is  *)
(* open, whose row is marked busy, and when a deletion is sent.  What the list,   *)
(* the table and the drawer hold plays no part there: CommandInv speaks of run,   *)
(* busyKey and dialog, and every other step leaves them alone.                   *)
(*                                                                         *)
(* Then the data.  The lists are ordered by age, and a list a waiting command may  *)
(* be answered with is as new as its answer: PanelInv.  Docker has had a change at *)
(* most for each event whose run does not wait any more, which bounds the ages.    *)
(* Last the pages of the table, by the ranks of the rows.                         *)
(***************************************************************************)
EXTENDS ContainerPanel, FiniteSetTheorems, TLAPS

(* The fields of a run and of the dialog, whatever is in them.                  *)
RunShaped(r) ==
    r = [pc |-> r.pc, row |-> r.row, action |-> r.action, force |-> r.force,
         fromDrawer |-> r.fromDrawer, worked |-> r.worked, since |-> r.since,
         awaits |-> r.awaits]

CommandsShaped ==
    /\ run = [i \in Runs |-> run[i]] /\ \A i \in Runs : RunShaped(run[i])
    /\ dialog = [request |-> dialog.request, offers |-> dialog.offers,
                 toggled |-> dialog.toggled, resolveRef |-> dialog.resolveRef]
    /\ dialog.offers \in BOOLEAN /\ dialog.toggled \in BOOLEAN

(* The dialog answers the run it asks for, and only deletions ask.              *)
OneAsker ==
    /\ dialog.request = dialog.resolveRef /\ dialog.request \in {None} \cup Runs
    /\ \A i \in Runs : run[i].pc = "asking" => run[i].action = "remove"

(* A box can be checked only in a question that shows one.                      *)
ToggledIfOffered == dialog.toggled => dialog.offers

CommandInv ==
    CommandsShaped /\ OneAsker /\ ToggledIfOffered /\ OneQuestion /\ BusyIsWorking

(* No run is None.                                                           *)
LEMMA NoneIsNoRun == None \notin Runs
BY ContainerPanelAssumption DEF ContainerPanelAssumption, Runs

LEMMA NewRunShaped == RunShaped(NewRun) /\ NewRun.pc = "idle"
BY DEF RunShaped, NewRun

(* A run that is given, in the state its command begins in.                     *)
Given(pc, row, action, fromDrawer) ==
    [NewRun EXCEPT !.pc = pc, !.row = row, !.action = action, !.fromDrawer = fromDrawer]

LEMMA GivenShaped ==
    ASSUME NEW pc, NEW row, NEW action, NEW fromDrawer,
           NEW r, r = Given(pc, row, action, fromDrawer)
    PROVE  RunShaped(r) /\ r.pc = pc /\ r.row = row /\ r.action = action
<1>1. r = [pc |-> pc, row |-> row, action |-> action, force |-> FALSE,
           fromDrawer |-> fromDrawer, worked |-> "unknown", since |-> 0, awaits |-> {}]
  BY DEF Given, NewRun
<1> QED BY <1>1 DEF RunShaped

(* The steps of a run once it is given, and what each leaves of it.              *)
LEMMA EndsShaped ==
    ASSUME NEW r, RunShaped(r), NEW pc, NEW q, q = [r EXCEPT !.pc = pc]
    PROVE  RunShaped(q) /\ q.pc = pc /\ q.row = r.row /\ q.action = r.action
<1>1. r = [pc |-> r.pc, row |-> r.row, action |-> r.action, force |-> r.force,
           fromDrawer |-> r.fromDrawer, worked |-> r.worked, since |-> r.since,
           awaits |-> r.awaits]
  BY DEF RunShaped
<1>2. q = [pc |-> pc, row |-> r.row, action |-> r.action, force |-> r.force,
           fromDrawer |-> r.fromDrawer, worked |-> r.worked, since |-> r.since,
           awaits |-> r.awaits]
  BY <1>1
<1> QED BY <1>2 DEF RunShaped

(* Carried out.                                                              *)
LEMMA WorkedShaped ==
    ASSUME NEW r, RunShaped(r), NEW worked, NEW q, q = [r EXCEPT !.worked = worked]
    PROVE  RunShaped(q) /\ q.pc = r.pc /\ q.row = r.row /\ q.action = r.action
<1>1. r = [pc |-> r.pc, row |-> r.row, action |-> r.action, force |-> r.force,
           fromDrawer |-> r.fromDrawer, worked |-> r.worked, since |-> r.since,
           awaits |-> r.awaits]
  BY DEF RunShaped
<1>2. q = [pc |-> r.pc, row |-> r.row, action |-> r.action, force |-> r.force,
           fromDrawer |-> r.fromDrawer, worked |-> worked, since |-> r.since,
           awaits |-> r.awaits]
  BY <1>1
<1> QED BY <1>2 DEF RunShaped

(* Answered in part.                                                         *)
LEMMA AwaitsShaped ==
    ASSUME NEW r, RunShaped(r), NEW awaits, NEW q, q = [r EXCEPT !.awaits = awaits]
    PROVE  RunShaped(q) /\ q.pc = r.pc /\ q.row = r.row /\ q.action = r.action
<1>1. r = [pc |-> r.pc, row |-> r.row, action |-> r.action, force |-> r.force,
           fromDrawer |-> r.fromDrawer, worked |-> r.worked, since |-> r.since,
           awaits |-> r.awaits]
  BY DEF RunShaped
<1>2. q = [pc |-> r.pc, row |-> r.row, action |-> r.action, force |-> r.force,
           fromDrawer |-> r.fromDrawer, worked |-> r.worked, since |-> r.since,
           awaits |-> awaits]
  BY <1>1
<1> QED BY <1>2 DEF RunShaped

LEMMA EndedShaped == RunShaped(Ended) /\ Ended.pc = "done"
BY NewRunShaped, EndsShaped DEF Ended

LEMMA InitCommands == PanelInit => CommandInv
<1> SUFFICES ASSUME PanelInit PROVE CommandInv OBVIOUS
<1>1. run = [i \in Runs |-> NewRun] /\ busyKey = None /\ dialog = NoDialog BY DEF PanelInit
<1>2. CommandsShaped BY <1>1, NewRunShaped DEF CommandsShaped, NoDialog
<1>3. OneAsker BY <1>1, NewRunShaped DEF OneAsker, NoDialog
<1>4. ToggledIfOffered BY <1>1 DEF ToggledIfOffered, NoDialog
<1>5. OneQuestion BY <1>1, NewRunShaped, NoneIsNoRun DEF OneQuestion, NoDialog
<1>6. BusyIsWorking BY <1>1 DEF BusyIsWorking
<1> QED BY <1>2, <1>3, <1>4, <1>5, <1>6 DEF CommandInv

---------------------------------------------------------------------------
(* What a step that gives or ends no command must show.                        *)
LEMMA NoCommandSteps ==
    ASSUME CommandInv, UNCHANGED commandVars PROVE CommandInv'
BY DEF CommandInv, CommandsShaped, RunShaped, OneAsker, ToggledIfOffered, OneQuestion,
       BusyIsWorking, commandVars

(* One run goes on, neither into a question nor out of one.                     *)
LEMMA RunSteps ==
    ASSUME CommandInv, NEW i \in Runs, NEW r, RunShaped(r),
           run[i].pc # "asking", r.pc # "asking",
           run' = [run EXCEPT ![i] = r], dialog' = dialog
    PROVE  CommandsShaped' /\ OneAsker' /\ ToggledIfOffered' /\ OneQuestion'
<1>1. run = [j \in Runs |-> run[j]] BY DEF CommandInv, CommandsShaped
<1>2. \A j \in Runs : run'[j] = IF j = i THEN r ELSE run[j] BY <1>1
<1>3. run' = [j \in Runs |-> run'[j]] BY <1>1
<1>4. \A j \in Runs : RunShaped(run'[j])
  BY <1>2 DEF CommandInv, CommandsShaped
<1>5. CommandsShaped' BY <1>3, <1>4 DEF CommandInv, CommandsShaped, RunShaped
<1>6. OneAsker' BY <1>2 DEF CommandInv, OneAsker
<1>7. OneQuestion' BY <1>2 DEF CommandInv, OneQuestion
<1> QED BY <1>5, <1>6, <1>7 DEF CommandInv, ToggledIfOffered

(* What an answer leaves of a run: done with, or waiting for less.               *)
LEMMA ResumedRuns ==
    ASSUME CommandInv, NEW answer, run' = Resumed(answer)
    PROVE  /\ run' = [j \in Runs |-> run'[j]] /\ \A j \in Runs : RunShaped(run'[j])
           /\ \A j \in Ending(answer) : run[j].pc = "refreshing" /\ run'[j] = Ended
           /\ \A j \in Runs \ Ending(answer) :
                /\ run'[j].pc = run[j].pc /\ run'[j].row = run[j].row
                /\ run'[j].action = run[j].action
<1>1. \A j \in Runs : run'[j] = IF j \in Ending(answer) THEN Ended
                                ELSE [run[j] EXCEPT !.awaits = @ \ {answer}]
  BY DEF Resumed
<1>2. \A j \in Ending(answer) : j \in Runs /\ run[j].pc = "refreshing" BY DEF Ending, Refreshing
<1>3. ASSUME NEW j \in Runs, j \notin Ending(answer)
      PROVE  /\ RunShaped(run'[j]) /\ run'[j].pc = run[j].pc /\ run'[j].row = run[j].row
             /\ run'[j].action = run[j].action
  <2>1. PICK r : r = run[j] OBVIOUS
  <2>2. PICK awaits : awaits = r.awaits \ {answer} OBVIOUS
  <2>3. RunShaped(r) BY <2>1 DEF CommandInv, CommandsShaped
  <2>4. run'[j] = [r EXCEPT !.awaits = awaits] BY <1>1, <1>3, <2>1, <2>2
  <2> QED BY <2>1, <2>3, <2>4, AwaitsShaped
<1>4. run' = [j \in Runs |-> run'[j]] BY DEF Resumed
<1> QED BY <1>1, <1>2, <1>3, <1>4, EndedShaped

(* An answer ends the runs that wait for nothing else, and the busy mark with them.   *)
LEMMA SettledKeeps ==
    ASSUME CommandInv, NEW answer, NEW left, NEW shown, Settled(answer, left, shown)
    PROVE  CommandInv'
<1>1. run' = Resumed(answer) /\ dialog' = dialog BY DEF Settled
<1>2. CommandsShaped' BY <1>1, ResumedRuns DEF CommandInv, CommandsShaped, RunShaped
<1>3. \A j \in Runs : /\ run'[j].pc = "asking" <=> run[j].pc = "asking"
                      /\ run'[j].pc = "asking" => run'[j].action = run[j].action
  <2> SUFFICES ASSUME NEW j \in Runs
               PROVE  /\ run'[j].pc = "asking" <=> run[j].pc = "asking"
                      /\ run'[j].pc = "asking" => run'[j].action = run[j].action
    OBVIOUS
  <2>1. CASE j \in Ending(answer) BY <1>1, <2>1, ResumedRuns, EndedShaped
  <2>2. CASE j \notin Ending(answer) BY <1>1, <2>2, ResumedRuns
  <2> QED BY <2>1, <2>2
<1>4. OneAsker' BY <1>1, <1>3 DEF CommandInv, OneAsker
<1>5. OneQuestion' BY <1>1, <1>3 DEF CommandInv, OneQuestion
<1>6. BusyIsWorking'
  <2>1. CASE Ending(answer) = {}
    <3>1. busyKey' = busyKey BY <2>1 DEF Settled, MarkAfter
    <3>2. \A j \in Runs : /\ run'[j].pc = run[j].pc /\ run'[j].row = run[j].row
                          /\ run'[j].action = run[j].action
      BY <1>1, <2>1, ResumedRuns
    <3> QED BY <3>1, <3>2 DEF CommandInv, BusyIsWorking
  <2>2. CASE Ending(answer) # {} BY <2>2 DEF Settled, MarkAfter, BusyIsWorking
  <2> QED BY <2>1, <2>2
<1> QED BY <1>1, <1>2, <1>4, <1>5, <1>6 DEF CommandInv, ToggledIfOffered

---------------------------------------------------------------------------
(* What RemovalConfirmed says of a step, and what most steps show of it: no run    *)
(* comes to be sent with a deletion.                                          *)
Confirmed ==
    \A i \in Runs : Removes(i) =>
        /\ run[i].pc = "asking" /\ dialog.request = i
        /\ run'[i].force => dialog.offers /\ dialog.toggled

LEMMA NothingRemoved ==
    ASSUME \A j \in Runs : run'[j].pc # "sent" \/ run[j].pc = "sent" \/ run'[j].action # "remove"
    PROVE  Confirmed
BY DEF Confirmed, Removes

LEMMA StepNoCommand ==
    ASSUME CommandInv, UNCHANGED commandVars PROVE CommandInv' /\ Confirmed
<1>1. run' = run BY DEF commandVars
<1> QED BY <1>1, NoCommandSteps, NothingRemoved

LEMMA StepSettled ==
    ASSUME CommandInv, NEW answer, NEW left, NEW shown, Settled(answer, left, shown)
    PROVE  CommandInv' /\ Confirmed
<1>1. run' = Resumed(answer) BY DEF Settled
<1>2. \A j \in Runs : run'[j].pc # "sent" \/ run[j].pc = "sent"
  <2> SUFFICES ASSUME NEW j \in Runs PROVE run'[j].pc # "sent" \/ run[j].pc = "sent" OBVIOUS
  <2>1. CASE j \in Ending(answer) BY <1>1, <2>1, ResumedRuns, EndedShaped
  <2>2. CASE j \notin Ending(answer) BY <1>1, <2>2, ResumedRuns
  <2> QED BY <2>1, <2>2
<1> QED BY <1>2, SettledKeeps, NothingRemoved

(* A deletion asks: the run that asked before is cancelled, the box is empty.       *)
LEMMA StepAsk ==
    ASSUME CommandInv, NEW i \in Runs, NEW r, RunShaped(r), run[i].pc = "idle",
           r.pc = "asking", r.action = "remove", Ask(i, r), busyKey' = busyKey
    PROVE  CommandInv' /\ Confirmed
<1>1. \A j \in Runs : run'[j] = IF j = i THEN r
                                ELSE IF j = dialog.resolveRef THEN Ended ELSE run[j]
  BY DEF Ask, WithCancelled
<1>2. dialog' = [request |-> i, offers |-> r.row.state = "running", toggled |-> FALSE,
                 resolveRef |-> i]
  BY DEF Ask, Asking
<1>3. \A j \in Runs : RunShaped(run'[j])
  BY <1>1, EndedShaped DEF CommandInv, CommandsShaped
<1>4. run' = [j \in Runs |-> run'[j]] BY DEF Ask, WithCancelled
<1>5. CommandsShaped' BY <1>2, <1>3, <1>4 DEF CommandsShaped, RunShaped
<1>6. \A j \in Runs : run'[j].pc = "asking" <=> j = i
  BY <1>1, EndedShaped DEF CommandInv, OneQuestion, OneAsker
<1>7. OneAsker' BY <1>1, <1>2, <1>6 DEF OneAsker
<1>8. OneQuestion' BY <1>2, <1>6 DEF OneQuestion
<1>9. ToggledIfOffered' BY <1>2 DEF ToggledIfOffered
<1>10. \A j \in Runs : run[j].pc \in {"sent", "refreshing"} => run'[j] = run[j]
  BY <1>1 DEF CommandInv, OneQuestion, OneAsker
<1>11. BusyIsWorking' BY <1>10 DEF CommandInv, BusyIsWorking
<1>12. \A j \in Runs : run'[j].pc # "sent" \/ run[j].pc = "sent" BY <1>1, EndedShaped
<1> QED BY <1>5, <1>7, <1>8, <1>9, <1>11, <1>12, NothingRemoved DEF CommandInv

LEMMA StepGive ==
    ASSUME CommandInv, NEW i \in Runs, NEW row, NEW action, NEW fromDrawer,
           Give(i, row, action, fromDrawer)
    PROVE  CommandInv' /\ Confirmed
<1>a. PICK asks : asks = Given("asking", row, action, fromDrawer) OBVIOUS
<1>s. PICK sent : sent = Given("sent", row, action, fromDrawer) OBVIOUS
<1>1. run[i].pc = "idle" BY DEF Give
<1>2. CASE action = "remove"
  <2>1. RunShaped(asks) /\ asks.pc = "asking" /\ asks.action = "remove"
    BY <1>2, <1>a, GivenShaped
  <2>2. Ask(i, asks) /\ busyKey' = busyKey BY <1>2, <1>a DEF Give, Given
  <2> QED BY <1>1, <2>1, <2>2, StepAsk
<1>3. CASE action # "remove"
  <2>1. RunShaped(sent) /\ sent.pc = "sent" /\ sent.row = row /\ sent.action = action
    BY <1>s, GivenShaped
  <2>2. run' = [run EXCEPT ![i] = sent] /\ busyKey' = Key(row, action) /\ dialog' = dialog
    BY <1>3, <1>s DEF Give, Given
  <2>3. CommandsShaped' /\ OneAsker' /\ ToggledIfOffered' /\ OneQuestion'
    BY <1>1, <2>1, <2>2, RunSteps
  <2>4. \A j \in Runs : run'[j] = IF j = i THEN sent ELSE run[j]
    BY <2>2 DEF CommandInv, CommandsShaped
  <2>5. BusyIsWorking' BY <2>1, <2>2, <2>4 DEF BusyIsWorking
  <2>6. \A j \in Runs : run[j].pc = "sent" \/ run'[j].pc # "sent" \/ run'[j].action # "remove"
    BY <1>3, <2>1, <2>4
  <2> QED BY <2>3, <2>5, <2>6, NothingRemoved DEF CommandInv
<1> QED BY <1>2, <1>3

(* The dialog's box changes only in a question that shows it.                   *)
LEMMA StepToggle == ASSUME CommandInv, Toggle PROVE CommandInv' /\ Confirmed
<1>1. dialog' = [request |-> dialog.request, offers |-> dialog.offers,
                 toggled |-> ~dialog.toggled, resolveRef |-> dialog.resolveRef]
  BY DEF Toggle, CommandInv, CommandsShaped
<1>2. run' = run /\ busyKey' = busyKey /\ dialog.offers BY DEF Toggle
<1>3. CommandsShaped' BY <1>1, <1>2 DEF CommandInv, CommandsShaped, RunShaped
<1>4. OneAsker' /\ OneQuestion' BY <1>1, <1>2 DEF CommandInv, OneAsker, OneQuestion
<1>5. ToggledIfOffered' BY <1>1, <1>2 DEF ToggledIfOffered
<1>6. BusyIsWorking' BY <1>2 DEF CommandInv, BusyIsWorking
<1> QED BY <1>2, <1>3, <1>4, <1>5, <1>6, NothingRemoved DEF CommandInv

(* An answered question: its run goes on or is done, and no other asks.          *)
LEMMA SettleKeeps ==
    ASSUME CommandInv, NEW r, RunShaped(r), r.pc # "asking", Settle(r)
    PROVE  /\ dialog.request \in Runs /\ run[dialog.request].pc = "asking"
           /\ dialog.resolveRef = dialog.request
           /\ run[dialog.request].action = "remove"
           /\ \A j \in Runs : run'[j] = IF j = dialog.request THEN r ELSE run[j]
           /\ CommandsShaped' /\ OneAsker' /\ ToggledIfOffered' /\ OneQuestion'
<1>1. /\ dialog.request \in Runs /\ dialog.resolveRef = dialog.request
      /\ run[dialog.request].pc = "asking"
      /\ run[dialog.request].action = "remove"
  BY DEF Settle, CommandInv, OneAsker, OneQuestion
<1>2. dialog' = [request |-> None, offers |-> dialog.offers,
                 toggled |-> dialog.toggled, resolveRef |-> None]
  BY DEF Settle, CommandInv, CommandsShaped
<1>3. \A j \in Runs : run'[j] = IF j = dialog.request THEN r ELSE run[j]
  BY <1>1 DEF Settle, CommandInv, CommandsShaped
<1>4. run' = [j \in Runs |-> run'[j]]
  BY <1>1 DEF Settle, CommandInv, CommandsShaped
<1>5. \A j \in Runs : RunShaped(run'[j]) BY <1>3 DEF CommandInv, CommandsShaped
<1>6. CommandsShaped' BY <1>2, <1>4, <1>5 DEF CommandInv, CommandsShaped, RunShaped
<1>7. OneAsker' BY <1>2, <1>3 DEF CommandInv, OneAsker
<1>8. OneQuestion' BY <1>1, <1>2, <1>3, NoneIsNoRun DEF CommandInv, OneQuestion
<1>9. ToggledIfOffered' BY <1>2 DEF CommandInv, ToggledIfOffered
<1> QED BY <1>1, <1>3, <1>6, <1>7, <1>8, <1>9

LEMMA StepCancel == ASSUME CommandInv, Cancel PROVE CommandInv' /\ Confirmed
<1>1. /\ run[dialog.request].pc = "asking"
      /\ \A j \in Runs : run'[j] = IF j = dialog.request THEN Ended ELSE run[j]
      /\ CommandsShaped' /\ OneAsker' /\ ToggledIfOffered' /\ OneQuestion'
  BY EndedShaped, SettleKeeps DEF Cancel
<1>2. busyKey' = busyKey BY DEF Cancel
<1>3. BusyIsWorking' BY <1>1, <1>2 DEF CommandInv, BusyIsWorking
<1>4. \A j \in Runs : run'[j].pc # "sent" \/ run[j].pc = "sent" BY <1>1, EndedShaped
<1> QED BY <1>1, <1>3, <1>4, NothingRemoved DEF CommandInv

(* Delete: the run that asked is sent, with the box of its own question.          *)
LEMMA StepConfirm == ASSUME CommandInv, Confirm PROVE CommandInv' /\ Confirmed
<1>a. PICK a : a = run[dialog.request] OBVIOUS
<1>f. PICK force : force = dialog.toggled OBVIOUS
<1>0. PICK r : r = [a EXCEPT !.pc = "sent", !.force = force] OBVIOUS
<1>1. dialog.resolveRef = dialog.request /\ dialog.request \in Runs
  BY DEF Confirm, Settle, CommandInv, OneAsker
<1>2. RunShaped(a) BY <1>a, <1>1 DEF CommandInv, CommandsShaped
<1>3. Settle(r) /\ busyKey' = Key(a.row, "remove") BY <1>0, <1>1, <1>a, <1>f DEF Confirm, Asker
<1>4. RunShaped(r) /\ r.pc = "sent" /\ r.row = a.row /\ r.action = a.action
      /\ r.force = dialog.toggled
  <2>1. a = [pc |-> a.pc, row |-> a.row, action |-> a.action, force |-> a.force,
             fromDrawer |-> a.fromDrawer, worked |-> a.worked, since |-> a.since,
             awaits |-> a.awaits]
    BY <1>2 DEF RunShaped
  <2>2. r = [pc |-> "sent", row |-> a.row, action |-> a.action, force |-> force,
             fromDrawer |-> a.fromDrawer, worked |-> a.worked, since |-> a.since,
             awaits |-> a.awaits]
    BY <1>0, <2>1
  <2> QED BY <1>f, <2>2 DEF RunShaped
<1>5. /\ a.pc = "asking" /\ a.action = "remove"
      /\ \A j \in Runs : run'[j] = IF j = dialog.request THEN r ELSE run[j]
      /\ CommandsShaped' /\ OneAsker' /\ ToggledIfOffered' /\ OneQuestion'
  BY <1>3, <1>4, <1>a, SettleKeeps
<1>6. BusyIsWorking' BY <1>1, <1>3, <1>4, <1>5 DEF BusyIsWorking
<1>7. Confirmed
  <2> SUFFICES ASSUME NEW j \in Runs, Removes(j)
               PROVE  /\ run[j].pc = "asking" /\ dialog.request = j
                      /\ run'[j].force => dialog.offers /\ dialog.toggled
    BY DEF Confirmed
  <2>1. j = dialog.request BY <1>5 DEF Removes
  <2>2. run'[j].force = dialog.toggled BY <1>4, <1>5, <2>1
  <2>3. dialog.toggled => dialog.offers BY DEF CommandInv, ToggledIfOffered
  <2> QED BY <1>5, <1>a, <2>1, <2>2, <2>3
<1> QED BY <1>5, <1>6, <1>7 DEF CommandInv

---------------------------------------------------------------------------
(* The steps of a command that was sent.                                      *)

LEMMA StepExecute ==
    ASSUME CommandInv, NEW i \in Runs, Execute(i) PROVE CommandInv' /\ Confirmed
<1>1. PICK worked : run' = [run EXCEPT ![i].worked = worked] BY DEF Execute
<1>a. PICK a : a = run[i] OBVIOUS
<1>0. PICK r : r = [a EXCEPT !.worked = worked] OBVIOUS
<1>2. run' = [run EXCEPT ![i] = r] BY <1>0, <1>1, <1>a
<1>3. RunShaped(a) /\ a.pc = "sent" BY <1>a DEF CommandInv, CommandsShaped, Execute
<1>4. RunShaped(r) /\ r.pc = "sent" /\ r.row = a.row /\ r.action = a.action
  BY <1>0, <1>3, WorkedShaped
<1>5. dialog' = dialog /\ busyKey' = busyKey BY DEF Execute
<1>6. CommandsShaped' /\ OneAsker' /\ ToggledIfOffered' /\ OneQuestion'
  BY <1>2, <1>3, <1>4, <1>5, <1>a, RunSteps
<1>7. \A j \in Runs : run'[j] = IF j = i THEN r ELSE run[j]
  BY <1>2 DEF CommandInv, CommandsShaped
<1>8. \A j \in Runs : /\ run'[j].pc = run[j].pc /\ run'[j].row = run[j].row
                      /\ run'[j].action = run[j].action
  BY <1>3, <1>4, <1>7, <1>a
<1>9. BusyIsWorking' BY <1>5, <1>8 DEF CommandInv, BusyIsWorking
<1> QED BY <1>6, <1>8, <1>9, NothingRemoved DEF CommandInv

LEMMA StepAnswered ==
    ASSUME CommandInv, NEW i \in Runs, Answered(i) PROVE CommandInv' /\ Confirmed
<1>a. PICK a : a = run[i] OBVIOUS
<1>f. PICK since : since = inventory.at OBVIOUS
<1>w. PICK awaits : run' = [run EXCEPT ![i].pc = "refreshing", ![i].since = inventory.at,
                                       ![i].awaits = awaits]
  BY DEF Answered
<1>0. PICK r : r = [a EXCEPT !.pc = "refreshing", !.since = since, !.awaits = awaits] OBVIOUS
<1>1. run' = [run EXCEPT ![i] = r] BY <1>0, <1>a, <1>f, <1>w
<1>2. RunShaped(a) /\ a.pc = "sent" BY <1>a DEF CommandInv, CommandsShaped, Answered
<1>3. RunShaped(r) /\ r.pc = "refreshing" /\ r.row = a.row /\ r.action = a.action
  <2>1. a = [pc |-> a.pc, row |-> a.row, action |-> a.action, force |-> a.force,
             fromDrawer |-> a.fromDrawer, worked |-> a.worked, since |-> a.since,
             awaits |-> a.awaits]
    BY <1>2 DEF RunShaped
  <2>2. r = [pc |-> "refreshing", row |-> a.row, action |-> a.action, force |-> a.force,
             fromDrawer |-> a.fromDrawer, worked |-> a.worked, since |-> since,
             awaits |-> awaits]
    BY <1>0, <2>1
  <2> QED BY <2>2 DEF RunShaped
<1>4. dialog' = dialog /\ busyKey' = busyKey BY DEF Answered
<1>5. CommandsShaped' /\ OneAsker' /\ ToggledIfOffered' /\ OneQuestion'
  BY <1>1, <1>2, <1>3, <1>4, <1>a, RunSteps
<1>6. \A j \in Runs : run'[j] = IF j = i THEN r ELSE run[j]
  BY <1>1 DEF CommandInv, CommandsShaped
<1>7. \A j \in Runs :
        /\ run[j].pc \in {"sent", "refreshing"} => run'[j].pc \in {"sent", "refreshing"}
        /\ run'[j].row = run[j].row /\ run'[j].action = run[j].action
  BY <1>3, <1>6, <1>a
<1>8. BusyIsWorking' BY <1>4, <1>7 DEF CommandInv, BusyIsWorking
<1>9. \A j \in Runs : run'[j].pc # "sent" \/ run[j].pc = "sent" BY <1>3, <1>6
<1> QED BY <1>5, <1>8, <1>9, NothingRemoved DEF CommandInv

LEMMA StepFails ==
    ASSUME CommandInv, NEW i \in Runs, Fails(i) PROVE CommandInv' /\ Confirmed
<1>1. run[i].pc = "sent" /\ run' = [run EXCEPT ![i] = Ended] /\ dialog' = dialog
  BY DEF Fails
<1>2. CommandsShaped' /\ OneAsker' /\ ToggledIfOffered' /\ OneQuestion'
  BY <1>1, EndedShaped, RunSteps
<1>3. BusyIsWorking' BY DEF Fails, BusyIsWorking
<1>4. \A j \in Runs : run'[j].pc # "sent" \/ run[j].pc = "sent"
  BY <1>1, EndedShaped DEF CommandInv, CommandsShaped
<1> QED BY <1>2, <1>3, <1>4, NothingRemoved DEF CommandInv

---------------------------------------------------------------------------
LEMMA NextCommands ==
    ASSUME CommandInv, [PanelNext]_vars PROVE CommandInv' /\ Confirmed
<1>1. CASE \E c \in Containers, s \in States \cup {"absent"} : DockerChanges(c, s)
  BY <1>1, StepNoCommand DEF DockerChanges
<1>2. CASE Around
  <2>1. CASE Push \/ Poll \/ ServerReads
    BY <2>1, StepNoCommand DEF Push, Poll, ServerReads
  <2>2. CASE ListArrives \/ ListFails \/ \E c \in Containers : InspectArrives(c)
    BY <2>2, StepSettled DEF ListArrives, ListFails, InspectArrives
  <2> QED BY <1>2, <2>1, <2>2 DEF Around
<1>3. CASE User
  <2>1. CASE \/ \E f \in Filters : SetFilter(f)
             \/ \E p \in Containers : SetPage(p)
             \/ \E c \in Containers : OpenContextMenu(c)
             \/ CloseContextMenu
    BY <2>1, StepNoCommand
    DEF SetFilter, SetPage, OpenContextMenu, CloseContextMenu, TableSteps
  <2>2. CASE (\E c \in Containers : Inspect(c)) \/ CloseDrawer
    BY <2>2, StepNoCommand DEF Inspect, CloseDrawer, DrawerSteps
  <2>3. CASE Toggle BY <2>3, StepToggle
  <2>4. CASE Confirm BY <2>4, StepConfirm
  <2>5. CASE Cancel BY <2>5, StepCancel
  <2> QED BY <1>3, <2>1, <2>2, <2>3, <2>4, <2>5 DEF User
<1>4. ASSUME NEW i \in Runs, Command(i) PROVE CommandInv' /\ Confirmed
  <2>1. CASE \E a \in Tried : \/ PickFromContextMenu(i, a) \/ ClickDrawer(i, a)
                              \/ \E c \in Containers :
                                   ClickRow(i, c, a) \/ PickFromMenu(i, c, a)
    <3>1. \E row, action, fromDrawer : Give(i, row, action, fromDrawer)
      BY <2>1 DEF PickFromContextMenu, ClickDrawer, ClickRow, PickFromMenu
    <3> QED BY <3>1, StepGive
  <2> QED BY <1>4, <2>1, StepExecute, StepAnswered, StepFails DEF Command
<1>5. CASE UNCHANGED vars BY <1>5, StepNoCommand DEF vars
<1> QED BY <1>1, <1>2, <1>3, <1>4, <1>5 DEF PanelNext

(* What a command, the confirmation dialog and the busy mark know of each other      *)
(* agrees throughout (useContainerCommands.ts, ConfirmProvider.tsx).               *)
THEOREM CommandInvariance == PanelSpec => []CommandInv
<1>1. CommandInv /\ [PanelNext]_vars => CommandInv' BY NextCommands
<1> QED BY <1>1, InitCommands, PTL DEF PanelSpec

(* A click on the dialog answers the deletion it asks for, and no deletion waits  *)
(* for a dialog that asks for another, however questions follow one another.       *)
THEOREM QuestionsAreOne == PanelSpec => []OneQuestion
<1>1. CommandInv => OneQuestion BY DEF CommandInv
<1> QED BY <1>1, CommandInvariance, PTL

(* No row is marked busy by a command that has ended.                          *)
THEOREM BusyRowsWork == PanelSpec => []BusyIsWorking
<1>1. CommandInv => BusyIsWorking BY DEF CommandInv
<1> QED BY <1>1, CommandInvariance, PTL

(* A deletion is sent on the Delete of its own question only, and forced only as    *)
(* that question offered and its box said.                                     *)
THEOREM RemovalsAreConfirmed == PanelSpec => RemovalConfirmed
<1>1. CommandInv /\ [PanelNext]_vars => [Confirmed]_vars BY NextCommands
<1>2. [Confirmed]_vars <=>
        [\A i \in Runs : Removes(i) =>
            /\ run[i].pc = "asking" /\ dialog.request = i
            /\ run'[i].force => dialog.offers /\ dialog.toggled]_vars
  BY DEF Confirmed
<1> QED BY <1>1, <1>2, CommandInvariance, PTL DEF PanelSpec, RemovalConfirmed
---------------------------------------------------------------------------
(* The data: lists, rows and the runs' states, for PanelTypeOK.                  *)

RunStates ==
    [pc : {"idle", "asking", "sent", "refreshing", "done"}, row : {None} \cup Rows,
     action : {None} \cup Tried, force : BOOLEAN, fromDrawer : BOOLEAN,
     worked : {"unknown", "yes", "no"}, since : 0..MaxAt,
     awaits : SUBSET Answers]

RunOK(r) ==
    /\ r \in RunStates
    /\ r.pc \in {"asking", "sent", "refreshing"} => r.row # None
    /\ r.pc = "refreshing" <=> r.awaits # {}

(* A run that may still change something at Docker; each had an event of its own.   *)
Waits(r) == r.pc \in {"asking", "sent"} /\ r.worked = "unknown"
Waiting(runs) == {i \in Runs : Waits(runs[i])}

DataOK ==
    /\ docker \in Lists /\ inventory \in Lists /\ list \in Lists \cup {Nothing}
    /\ list.at <= inventory.at /\ inventory.at <= docker.at
    /\ failed \in BOOLEAN /\ events \in 0..MaxEvents

(* Every change of a container is an event, or of a run that waits no more.         *)
Budget == docker.at + Cardinality(Waiting(run)) <= 1 + events

FetchesOK ==
    fetches = {} \/ \E f \in Lists \cup {Nothing} :
        fetches = {f} /\ f.at <= inventory.at /\ (f # Nothing => list.at <= f.at)

ShownOK ==
    /\ table \in [filter : Filters, page : Containers, menu : {None} \cup Rows]
    /\ drawer \in {None} \cup Rows /\ details \in {None} \cup States
    /\ drawer = None => details = None

(* A run that waits can only be answered with a list as new as its own answer; one that  *)
(* has the list already and waits for the drawer left one as new, or an error.         *)
RunsOK ==
    /\ run \in [Runs -> RunStates]
    /\ \A i \in Runs : RunOK(run[i]) /\ run[i].since <= inventory.at
    /\ \A i \in Refreshing :
         /\ \A f \in fetches \ {Nothing} : f.at >= run[i].since
         /\ TheList \in run[i].awaits \/ failed \/ list.at >= run[i].since

PanelInv == CommandInv /\ DataOK /\ Budget /\ FetchesOK /\ ShownOK /\ RunsOK

LEMMA PanelConstants ==
    /\ NumContainers \in Nat \ {0} /\ PageSize \in Nat \ {0} /\ MaxEvents \in Nat
    /\ "all" \in Filters /\ None \notin Nat /\ None \notin Rows
BY ContainerPanelAssumption DEF ContainerPanelAssumption, Rows, Containers, States

LEMMA ListFacts ==
    /\ Nothing \notin Lists /\ Nothing.at = 0
    /\ \A l \in Lists : /\ l.at \in 1..MaxAt /\ l.at \in Nat
                        /\ l.of \in [Containers -> States \cup {"absent"}]
    /\ MaxAt \in Nat
BY PanelConstants DEF Nothing, Lists, MaxAt

LEMMA NewRunOK == RunOK(NewRun) /\ RunOK(Ended) /\ ~Waits(Ended) /\ Ended.pc = "done" /\ Ended.since = 0
<1>1. 0 \in 0..MaxAt BY PanelConstants DEF MaxAt
<1>2. Ended = [pc |-> "done", row |-> None, action |-> None, force |-> FALSE,
               fromDrawer |-> FALSE, worked |-> "unknown", since |-> 0, awaits |-> {}]
  <2>1. NewRun = [pc |-> "idle", row |-> None, action |-> None, force |-> FALSE,
                  fromDrawer |-> FALSE, worked |-> "unknown", since |-> 0, awaits |-> {}]
    BY DEF NewRun
  <2>2. PICK n : n = NewRun OBVIOUS
  <2>3. Ended = [n EXCEPT !.pc = "done"] BY <2>2 DEF Ended
  <2> QED BY <2>1, <2>2, <2>3
<1> QED BY <1>1, <1>2 DEF NewRun, RunOK, RunStates, Waits

(* The rows that the page offers are containers that are there.                   *)
LEMMA LiveRowOK ==
    ASSUME DataOK, NEW c \in Containers, c \in Listed
    PROVE  LiveRow(c) \in Rows
<1>1. list.of \in [Containers -> States \cup {"absent"}]
  BY ListFacts DEF DataOK, Nothing
<1>2. list.of[c] \in States BY <1>1 DEF Listed
<1> QED BY <1>2 DEF LiveRow, Row, Rows

LEMMA VisibleListed == Visible \subseteq Filtered /\ Filtered \subseteq Listed /\ Listed \subseteq Containers
BY DEF Visible, Filtered, Listed

---------------------------------------------------------------------------
(* How many runs wait.                                                        *)

LEMMA WaitingFinite ==
    ASSUME NEW runs
    PROVE  IsFiniteSet(Waiting(runs)) /\ Cardinality(Waiting(runs)) \in Nat
<1>1. 1 \in Int /\ MaxEvents \in Int BY PanelConstants
<1>2. IsFiniteSet(Runs) BY <1>1, FS_Interval DEF Runs
<1>3. Waiting(runs) \in SUBSET Runs BY DEF Waiting
<1> QED BY <1>2, <1>3, FS_Subset, FS_CardinalityType

LEMMA WaitingKept ==
    ASSUME \A j \in Runs : Waits(run'[j]) => Waits(run[j])
    PROVE  Cardinality(Waiting(run')) <= Cardinality(Waiting(run))
<1>1. Waiting(run') \in SUBSET Waiting(run) BY DEF Waiting
<1> QED BY <1>1, WaitingFinite, FS_Subset

LEMMA WaitingMore ==
    ASSUME NEW i \in Runs, \A j \in Runs \ {i} : Waits(run'[j]) => Waits(run[j])
    PROVE  Cardinality(Waiting(run')) <= Cardinality(Waiting(run)) + 1
<1>1. PICK t : t = Waiting(run) \cup {i} OBVIOUS
<1>2. Waiting(run') \in SUBSET t BY <1>1 DEF Waiting
<1>3. PICK m \in Nat : m = Cardinality(Waiting(run)) BY WaitingFinite
<1>4. IsFiniteSet(t) /\ Cardinality(t) \in {m, m + 1}
  BY <1>1, <1>3, WaitingFinite, FS_AddElement
<1>5. Cardinality(Waiting(run')) <= Cardinality(t) BY <1>2, <1>4, FS_Subset
<1>6. PICK k \in Nat : k = Cardinality(Waiting(run')) BY WaitingFinite
<1> QED BY <1>3, <1>4, <1>5, <1>6

LEMMA WaitingLess ==
    ASSUME NEW i \in Runs, Waits(run[i]), ~Waits(run'[i]),
           \A j \in Runs : Waits(run'[j]) => Waits(run[j])
    PROVE  Cardinality(Waiting(run')) + 1 <= Cardinality(Waiting(run))
<1>1. PICK t : t = Waiting(run') \cup {i} OBVIOUS
<1>2. t \in SUBSET Waiting(run) /\ i \notin Waiting(run') BY <1>1 DEF Waiting
<1>3. PICK m \in Nat : m = Cardinality(Waiting(run')) BY WaitingFinite
<1>4. Cardinality(t) = m + 1 BY <1>1, <1>2, <1>3, WaitingFinite, FS_AddElement
<1>5. Cardinality(t) <= Cardinality(Waiting(run)) BY <1>2, WaitingFinite, FS_Subset
<1> QED BY <1>3, <1>4, <1>5

---------------------------------------------------------------------------
(* What the runs do in a step: none waits that did not, unless it is given.         *)
(* The list was answered.                                                       *)
Served == failed' \/ list' \in fetches \ {Nothing}

(* What a step leaves of a run.                                                *)
Keeps(q, r) ==
    /\ RunOK(r) /\ r.since \in {0, q.since, inventory.at}
    /\ r.pc = "refreshing" =>
         \/ fetches' = {Nothing} /\ TheList \in r.awaits
         \/ /\ q.pc = "refreshing" /\ r.since = q.since
            /\ (TheList \in q.awaits => TheList \in r.awaits) \/ Served

(* None is given.                                                             *)
Calm ==
    /\ run' \in [Runs -> RunStates]
    /\ \A j \in Runs : Keeps(run[j], run'[j]) /\ (Waits(run'[j]) => Waits(run[j]))

LEMMA SameCalm == ASSUME RunsOK, UNCHANGED run PROVE Calm
BY DEF RunsOK, Calm, Keeps

LEMMA OneKeeps ==
    ASSUME RunsOK, NEW i \in Runs, NEW r, Keeps(run[i], r), run' = [run EXCEPT ![i] = r]
    PROVE  /\ run' \in [Runs -> RunStates] /\ \A j \in Runs : Keeps(run[j], run'[j])
           /\ run'[i] = r /\ \A j \in Runs \ {i} : run'[j] = run[j]
<1>1. r \in RunStates BY DEF Keeps, RunOK
<1>2. \A j \in Runs : Keeps(run[j], run[j]) BY DEF RunsOK, Keeps
<1> QED BY <1>1, <1>2 DEF RunsOK

LEMMA EndKeeps == ASSUME NEW q PROVE Keeps(q, Ended)
BY NewRunOK DEF Keeps

LEMMA SettledCalm ==
    ASSUME RunsOK, NEW answer, NEW left, NEW shown, Settled(answer, left, shown),
           answer # TheList \/ Served
    PROVE  Calm
<1>1. run' = Resumed(answer) BY DEF Settled
<1>2. ASSUME NEW j \in Runs
      PROVE  /\ run'[j] \in RunStates /\ Keeps(run[j], run'[j])
             /\ Waits(run'[j]) => Waits(run[j])
  <2>1. CASE j \in Ending(answer)
    <3>1. run'[j] = Ended BY <1>1, <2>1 DEF Resumed
    <3> QED BY <3>1, NewRunOK, EndKeeps DEF RunOK
  <2>2. CASE j \notin Ending(answer)
    <3>1. PICK q : q = run[j] OBVIOUS
    <3>2. PICK awaits : awaits = q.awaits \ {answer} OBVIOUS
    <3>3. PICK r : r = [q EXCEPT !.awaits = awaits] OBVIOUS
    <3>4. run'[j] = r BY <1>1, <2>2, <3>1, <3>2, <3>3 DEF Resumed
    <3>5. RunOK(q) BY <3>1 DEF RunsOK
    <3>6. /\ r \in RunStates /\ r.pc = q.pc /\ r.row = q.row /\ r.worked = q.worked
          /\ r.since = q.since /\ r.awaits = q.awaits \ {answer}
      BY <3>2, <3>3, <3>5 DEF RunOK, RunStates
    <3>7. q.pc = "refreshing" => r.awaits # {}
      BY <2>2, <3>1, <3>6 DEF Ending, Refreshing
    <3>8. RunOK(r) BY <3>5, <3>6, <3>7 DEF RunOK
    <3>9. Keeps(q, r) BY <3>6, <3>8 DEF Keeps
    <3> QED BY <3>1, <3>4, <3>6, <3>9 DEF Waits
  <2> QED BY <2>1, <2>2
<1>3. run' = [j \in Runs |-> run'[j]] BY <1>1 DEF Resumed
<1> QED BY <1>2, <1>3 DEF Calm

(* The three steps that do.                                                     *)
LEMMA AnswersCalm ==
    ASSUME RunsOK, ListArrives \/ ListFails \/ \E c \in Containers : InspectArrives(c)
    PROVE  Calm
<1>1. CASE ListArrives
  <2>1. Served /\ Settled(TheList, {}, details) BY <1>1 DEF ListArrives, Served
  <2> QED BY <2>1, SettledCalm
<1>2. CASE ListFails
  <2>1. Served /\ Settled(TheList, {}, details) BY <1>2 DEF ListFails, Served
  <2> QED BY <2>1, SettledCalm
<1>3. ASSUME NEW c \in Containers, InspectArrives(c) PROVE Calm
  <2>1. c # TheList BY PanelConstants DEF Containers, TheList
  <2>2. PICK shown : Settled(c, fetches, shown) BY <1>3 DEF InspectArrives
  <2> QED BY <2>1, <2>2, SettledCalm
<1> QED BY <1>1, <1>2, <1>3

LEMMA FailsCalm == ASSUME RunsOK, NEW i \in Runs, Fails(i) PROVE Calm
<1>1. run' = [run EXCEPT ![i] = Ended] BY DEF Fails
<1> QED BY <1>1, EndKeeps, OneKeeps, NewRunOK DEF Calm

(* The run that asked.                                                        *)
LEMMA AskerFacts ==
    ASSUME CommandInv, RunsOK, dialog.request # None
    PROVE  /\ dialog.resolveRef \in Runs /\ Asker = run[dialog.resolveRef]
           /\ Asker.pc = "asking" /\ RunOK(Asker)
BY DEF CommandInv, OneAsker, OneQuestion, Asker, RunsOK

LEMMA CancelCalm == ASSUME CommandInv, RunsOK, Cancel PROVE Calm
<1>1. dialog.resolveRef \in Runs /\ run' = [run EXCEPT ![dialog.resolveRef] = Ended]
  BY AskerFacts DEF Cancel, Settle
<1> QED BY <1>1, EndKeeps, OneKeeps, NewRunOK DEF Calm

LEMMA ConfirmCalm == ASSUME CommandInv, RunsOK, Confirm PROVE Calm
<1>1. dialog.request # None BY DEF Confirm, Settle
<1>2. PICK a : a = Asker OBVIOUS
<1>3. PICK force \in BOOLEAN : force = dialog.toggled BY DEF CommandInv, CommandsShaped
<1>4. PICK r : r = [a EXCEPT !.pc = "sent", !.force = force] OBVIOUS
<1>5. run' = [run EXCEPT ![dialog.resolveRef] = r]
  BY <1>2, <1>3, <1>4 DEF Confirm, Settle
<1>6. RunOK(a) /\ a.pc = "asking" BY <1>1, <1>2, AskerFacts
<1>7. /\ r \in RunStates /\ r.pc = "sent" /\ r.row = a.row /\ r.worked = a.worked
      /\ r.since = a.since /\ r.awaits = a.awaits
  BY <1>3, <1>4, <1>6 DEF RunOK, RunStates
<1>8. Keeps(a, r) /\ (Waits(r) => Waits(a)) BY <1>6, <1>7 DEF Keeps, RunOK, Waits
<1> QED BY <1>1, <1>2, <1>5, <1>8, AskerFacts, OneKeeps DEF Calm

(* A run is carried out once.                                                  *)
LEMMA ExecuteCalm ==
    ASSUME RunsOK, NEW i \in Runs, Execute(i)
    PROVE  Calm /\ Waits(run[i]) /\ ~Waits(run'[i])
<1>1. PICK a : a = run[i] OBVIOUS
<1>2. RunOK(a) /\ a.pc = "sent" /\ a.worked = "unknown" BY <1>1 DEF RunsOK, Execute
<1>3. PICK worked \in {"no", "yes"} : run' = [run EXCEPT ![i].worked = worked]
  BY DEF Execute
<1>4. PICK r : r = [a EXCEPT !.worked = worked] OBVIOUS
<1>5. run' = [run EXCEPT ![i] = r] BY <1>1, <1>3, <1>4
<1>6. /\ r \in RunStates /\ r.pc = "sent" /\ r.row = a.row /\ r.worked = worked
      /\ r.since = a.since /\ r.awaits = a.awaits
  BY <1>2, <1>4 DEF RunOK, RunStates
<1>7. Keeps(a, r) /\ ~Waits(r) /\ Waits(a) BY <1>2, <1>6 DEF Keeps, RunOK, Waits
<1> QED BY <1>1, <1>5, <1>7, OneKeeps DEF Calm

LEMMA AnsweredCalm ==
    ASSUME DataOK, ShownOK, RunsOK, NEW i \in Runs, Answered(i)
    PROVE  Calm
<1>1. PICK a : a = run[i] OBVIOUS
<1>2. RunOK(a) /\ a.pc = "sent" BY <1>1 DEF RunsOK, Answered
<1>3. PICK since : since = inventory.at OBVIOUS
<1>4. since \in 0..MaxAt BY <1>3, ListFacts DEF DataOK
<1>5. PICK awaits \in SUBSET Answers :
        /\ TheList \in awaits
        /\ run' = [run EXCEPT ![i].pc = "refreshing", ![i].since = inventory.at,
                              ![i].awaits = awaits]
  <2>1. drawer # None => drawer.id \in Containers BY DEF ShownOK, Rows
  <2>2. PICK again \in SUBSET Containers :
          run' = [run EXCEPT ![i].pc = "refreshing", ![i].since = inventory.at,
                            ![i].awaits = {TheList} \cup again]
    BY <2>1 DEF Answered
  <2>3. {TheList} \cup again \in SUBSET Answers BY DEF Answers
  <2> QED BY <2>2, <2>3
<1>6. PICK r : r = [a EXCEPT !.pc = "refreshing", !.since = since, !.awaits = awaits] OBVIOUS
<1>7. run' = [run EXCEPT ![i] = r] BY <1>1, <1>3, <1>5, <1>6
<1>8. /\ r \in RunStates /\ r.pc = "refreshing" /\ r.row = a.row /\ r.since = since
      /\ r.awaits = awaits
  BY <1>2, <1>4, <1>6 DEF RunOK, RunStates
<1>9. fetches' = {Nothing} BY DEF Answered, Refetch
<1>10. Keeps(a, r) /\ ~Waits(r) BY <1>2, <1>3, <1>5, <1>8, <1>9 DEF Keeps, RunOK, Waits
<1> QED BY <1>1, <1>7, <1>10, OneKeeps DEF Calm

(* A command is given: its run may wait now, and that of an older question does not.  *)
LEMMA GiveKeeps ==
    ASSUME CommandInv, RunsOK, NEW i \in Runs, NEW row \in Rows, NEW action \in Tried,
           NEW fromDrawer \in BOOLEAN, Give(i, row, action, fromDrawer)
    PROVE  /\ run' \in [Runs -> RunStates] /\ \A j \in Runs : Keeps(run[j], run'[j])
           /\ \A j \in Runs \ {i} : Waits(run'[j]) => Waits(run[j])
<1>1. ASSUME NEW pc \in {"asking", "sent"}, NEW r, r = Given(pc, row, action, fromDrawer)
      PROVE  Keeps(run[i], r)
  <2>1. r = [pc |-> pc, row |-> row, action |-> action, force |-> FALSE,
             fromDrawer |-> fromDrawer, worked |-> "unknown", since |-> 0, awaits |-> {}]
    BY <1>1 DEF Given, NewRun
  <2>2. 0 \in 0..MaxAt BY ListFacts
  <2>3. r \in RunStates BY <1>1, <2>1, <2>2 DEF RunStates
  <2> QED BY <1>1, <2>1, <2>3, PanelConstants DEF Keeps, RunOK
<1>2. CASE action # "remove"
  <2>1. PICK r : r = Given("sent", row, action, fromDrawer) OBVIOUS
  <2>2. run' = [run EXCEPT ![i] = r] BY <1>2, <2>1 DEF Give, Given
  <2>3. Keeps(run[i], r) BY <1>1, <2>1
  <2> QED BY <2>2, <2>3, OneKeeps
<1>3. CASE action = "remove"
  <2>1. PICK r : r = Given("asking", row, action, fromDrawer) OBVIOUS
  <2>2. run' = WithCancelled(i, r) BY <1>3, <2>1 DEF Give, Given, Ask
  <2>3. Keeps(run[i], r) BY <1>1, <2>1
  <2>4. ASSUME NEW j \in Runs
        PROVE  /\ run'[j] \in RunStates /\ Keeps(run[j], run'[j])
               /\ j # i /\ Waits(run'[j]) => Waits(run[j])
    <3>1. CASE j = i
      <4>1. run'[j] = r BY <2>2, <3>1 DEF WithCancelled
      <4> QED BY <2>3, <3>1, <4>1 DEF Keeps, RunOK
    <3>2. CASE j # i /\ j = dialog.resolveRef
      <4>1. run'[j] = Ended BY <2>2, <3>2 DEF WithCancelled
      <4> QED BY <4>1, NewRunOK, EndKeeps DEF RunOK
    <3>3. CASE j # i /\ j # dialog.resolveRef
      <4>1. run'[j] = run[j] BY <2>2, <3>3 DEF WithCancelled
      <4> QED BY <4>1 DEF RunsOK, Keeps
    <3> QED BY <3>1, <3>2, <3>3
  <2>5. run' = [j \in Runs |-> run'[j]] BY <2>2 DEF WithCancelled
  <2> QED BY <2>4, <2>5
<1> QED BY <1>2, <1>3

---------------------------------------------------------------------------
(* The steps, by what they do to the runs.                                      *)
Gives(i) ==
    \E row \in Rows : \E a \in Tried : \E fromDrawer \in BOOLEAN : Give(i, row, a, fromDrawer)

Quiet ==
    \/ \E c \in Containers, s \in States \cup {"absent"} : DockerChanges(c, s)
    \/ Push \/ Poll \/ ServerReads \/ Toggle
    \/ \E f \in Filters : SetFilter(f)
    \/ \E p \in Containers : SetPage(p)
    \/ \E c \in Containers : OpenContextMenu(c) \/ Inspect(c)
    \/ CloseContextMenu \/ CloseDrawer
    \/ UNCHANGED vars

LEMMA CommandGives ==
    ASSUME DataOK, ShownOK, NEW i \in Runs, NEW a \in Tried,
           \/ PickFromContextMenu(i, a) \/ ClickDrawer(i, a)
           \/ \E c \in Containers : ClickRow(i, c, a) \/ PickFromMenu(i, c, a)
    PROVE  Gives(i)
<1>1. CASE PickFromContextMenu(i, a)
  <2>1. table.menu \in Rows BY <1>1 DEF ShownOK, PickFromContextMenu
  <2> QED BY <1>1, <2>1 DEF PickFromContextMenu, Gives
<1>2. CASE ClickDrawer(i, a)
  <2>1. drawer \in Rows BY <1>2 DEF ShownOK, ClickDrawer
  <2> QED BY <1>2, <2>1 DEF ClickDrawer, Gives
<1>3. ASSUME NEW c \in Containers, ClickRow(i, c, a) \/ PickFromMenu(i, c, a) PROVE Gives(i)
  <2>1. c \in Listed BY <1>3, VisibleListed DEF ClickRow, PickFromMenu
  <2>2. LiveRow(c) \in Rows BY <2>1, LiveRowOK
  <2> QED BY <1>3, <2>2 DEF ClickRow, PickFromMenu, Gives
<1> QED BY <1>1, <1>2, <1>3

LEMMA PanelCases ==
    ASSUME DataOK, ShownOK, [PanelNext]_vars
    PROVE  \/ Quiet \/ ListArrives \/ ListFails \/ Confirm \/ Cancel
           \/ \E c \in Containers : InspectArrives(c)
           \/ \E i \in Runs : Gives(i) \/ Execute(i) \/ Answered(i) \/ Fails(i)
BY CommandGives DEF PanelNext, Around, User, Command, Quiet

LEMMA QuietRuns == Quiet => UNCHANGED run
BY DEF Quiet, vars, commandVars, DockerChanges, Push, Poll, ServerReads, Toggle, SetFilter, SetPage,
       OpenContextMenu, Inspect, CloseContextMenu, CloseDrawer, TableSteps, DrawerSteps

LEMMA QuietCalm == ASSUME RunsOK, Quiet PROVE Calm
BY QuietRuns, SameCalm

LEMMA NextKeeps ==
    ASSUME CommandInv, DataOK, ShownOK, RunsOK, [PanelNext]_vars
    PROVE  run' \in [Runs -> RunStates] /\ \A j \in Runs : Keeps(run[j], run'[j])
<1>1. ASSUME Calm PROVE run' \in [Runs -> RunStates] /\ \A j \in Runs : Keeps(run[j], run'[j])
  BY <1>1 DEF Calm
<1>2. CASE Quiet BY <1>1, <1>2, QuietCalm
<1>3. CASE ListArrives \/ ListFails \/ \E c \in Containers : InspectArrives(c)
  BY <1>1, <1>3, AnswersCalm
<1>4. CASE Confirm BY <1>1, <1>4, ConfirmCalm
<1>5. CASE Cancel BY <1>1, <1>5, CancelCalm
<1>6. ASSUME NEW i \in Runs, Execute(i) \/ Answered(i) \/ Fails(i) PROVE Calm
  BY <1>6, ExecuteCalm, AnsweredCalm, FailsCalm
<1>7. ASSUME NEW i \in Runs, Gives(i)
      PROVE run' \in [Runs -> RunStates] /\ \A j \in Runs : Keeps(run[j], run'[j])
  BY <1>7, GiveKeeps DEF Gives
<1> QED BY <1>1, <1>2, <1>3, <1>4, <1>5, <1>6, <1>7, PanelCases

---------------------------------------------------------------------------
(* Docker, and how many changes it can have had.                                *)

LEMMA BecomesOK ==
    ASSUME docker \in Lists, docker.at + 1 <= MaxAt, NEW c \in Containers,
           NEW state \in States \cup {"absent"}, Becomes(c, state)
    PROVE  docker' \in Lists /\ docker'.at \in {docker.at, docker.at + 1}
<1>1. CASE docker' = docker BY <1>1
<1>2. CASE docker' = [docker EXCEPT !.at = @ + 1, !.of[c] = state]
  <2>1. PICK at : at = docker.at + 1 OBVIOUS
  <2>2. PICK of : of = [docker.of EXCEPT ![c] = state] OBVIOUS
  <2>3. docker.at \in Nat /\ docker.at >= 1 /\ docker.of \in [Containers -> States \cup {"absent"}]
    BY ListFacts
  <2>4. at \in 1..MaxAt BY <2>1, <2>3, ListFacts
  <2>5. of \in [Containers -> States \cup {"absent"}] BY <2>2, <2>3
  <2>6. docker' = [at |-> at, of |-> of] BY <1>2, <2>1, <2>2 DEF Lists
  <2> QED BY <2>1, <2>4, <2>5, <2>6 DEF Lists
<1> QED BY <1>1, <1>2 DEF Becomes

LEMMA EventsStep ==
    ASSUME DataOK, ShownOK, [PanelNext]_vars
    PROVE  /\ UNCHANGED events \/ Event
           /\ events' \in 0..MaxEvents /\ events <= events'
<1>1. UNCHANGED events \/ Event
  BY PanelCases DEF Quiet, Gives, vars, queryVars, DockerChanges, Push, Poll, ServerReads, Toggle,
     SetFilter, SetPage, OpenContextMenu, Inspect, CloseContextMenu, CloseDrawer, InspectArrives,
     TableSteps, DrawerSteps, ListArrives, ListFails, Confirm, Cancel, Settle, Give, Execute,
     Answered, Fails
<1> QED BY <1>1, PanelConstants DEF DataOK, Event

LEMMA DockerStep ==
    ASSUME DataOK, ShownOK, [PanelNext]_vars
    PROVE  \/ UNCHANGED docker
           \/ Event /\ UNCHANGED run /\ \E c \in Containers, s \in States \cup {"absent"} : Becomes(c, s)
           \/ \E i \in Runs : Execute(i)
<1>1. UNCHANGED docker \/ (\E c \in Containers, s \in States \cup {"absent"} : DockerChanges(c, s))
                       \/ (\E i \in Runs : Execute(i))
  BY PanelCases DEF Quiet, Gives, vars, queryVars, Push, Poll, ServerReads, Toggle,
     SetFilter, SetPage, OpenContextMenu, Inspect, CloseContextMenu, CloseDrawer, InspectArrives,
     TableSteps, DrawerSteps, ListArrives, ListFails, Confirm, Cancel, Settle, Give,
     Answered, Fails
<1> QED BY <1>1 DEF DockerChanges, commandVars

LEMMA NextBudget ==
    ASSUME CommandInv, DataOK, ShownOK, RunsOK, Budget, [PanelNext]_vars
    PROVE  docker' \in Lists /\ docker.at <= docker'.at /\ Budget'
<1>1. docker \in Lists /\ docker.at \in Nat BY ListFacts DEF DataOK
<1>2. PICK n \in Nat : n = docker.at BY <1>1
<1>3. PICK w \in Nat : w = Cardinality(Waiting(run)) BY WaitingFinite
<1>4. PICK u \in Nat : u = Cardinality(Waiting(run')) BY WaitingFinite
<1>5. PICK e \in Nat : e = events /\ e <= MaxEvents BY PanelConstants DEF DataOK
<1>6. n + w <= 1 + e BY <1>2, <1>3, <1>5 DEF Budget
<1>7. events' \in Nat /\ e <= events' BY <1>5, EventsStep, PanelConstants
<1>8. (Event => events' = e + 1 /\ e + 1 <= MaxEvents) BY <1>5, PanelConstants DEF Event
<1>9. ASSUME docker' \in Lists, n <= docker'.at, docker'.at + u <= 1 + events'
      PROVE  docker' \in Lists /\ docker.at <= docker'.at /\ Budget'
  BY <1>2, <1>4, <1>9 DEF Budget, Waiting, Waits
<1>10. CASE UNCHANGED docker
  <2>1. CASE u <= w BY <1>1, <1>2, <1>6, <1>7, <1>9, <1>10, <2>1, <1>5
  <2>2. CASE Event /\ u <= w + 1
    <3>1. events' = e + 1 BY <1>8, <2>2
    <3>2. n + u <= 1 + events' BY <1>6, <2>2, <3>1
    <3> QED BY <1>1, <1>2, <1>9, <1>10, <3>2
  <2>3. Calm => u <= w BY <1>3, <1>4, WaitingKept DEF Calm
  <2>4. ASSUME NEW i \in Runs, Gives(i) PROVE Event /\ u <= w + 1
    <3>1. Event BY <2>4 DEF Gives, Give
    <3>2. \A j \in Runs \ {i} : Waits(run'[j]) => Waits(run[j])
      BY <2>4, GiveKeeps DEF Gives
    <3> QED BY <1>3, <1>4, <3>1, <3>2, WaitingMore
  <2>5. Calm \/ \E i \in Runs : Gives(i)
    BY PanelCases, QuietCalm, AnswersCalm, ConfirmCalm, CancelCalm, ExecuteCalm, AnsweredCalm,
       FailsCalm
  <2> QED BY <2>1, <2>2, <2>3, <2>4, <2>5
<1>11. CASE /\ Event /\ UNCHANGED run
            /\ \E c \in Containers, s \in States \cup {"absent"} : Becomes(c, s)
  <2>1. events' = e + 1 /\ e + 1 <= MaxEvents /\ u = w BY <1>3, <1>4, <1>8, <1>11
  <2>2. n + 1 <= MaxAt BY <1>6, <2>1, PanelConstants DEF MaxAt
  <2>3. docker' \in Lists /\ docker'.at \in {n, n + 1} BY <1>1, <1>2, <1>11, <2>2, BecomesOK
  <2>4. n <= docker'.at /\ docker'.at + u <= 1 + events' BY <1>6, <2>1, <2>3
  <2> QED BY <1>9, <2>3, <2>4
<1>12. ASSUME NEW i \in Runs, Execute(i)
       PROVE  docker' \in Lists /\ docker.at <= docker'.at /\ Budget'
  <2>1. u + 1 <= w
    <3>1. Waits(run[i]) /\ ~Waits(run'[i]) /\ \A j \in Runs : Waits(run'[j]) => Waits(run[j])
      BY <1>12, ExecuteCalm DEF Calm
    <3> QED BY <1>3, <1>4, <3>1, WaitingLess
  <2>2. n + 1 <= MaxAt BY <1>5, <1>6, <2>1, PanelConstants DEF MaxAt
  <2>3. docker' \in Lists /\ docker'.at \in {n, n + 1}
    <3>1. CASE UNCHANGED docker BY <1>1, <1>2, <3>1
    <3>2. CASE ~UNCHANGED docker
      <4>1. PICK c : c = run[i].row.id OBVIOUS
      <4>2. run[i].row \in Rows
        BY <1>12 DEF Execute, RunsOK, RunOK, RunStates
      <4>3. c \in Containers BY <4>1, <4>2 DEF Rows
      <4>4. PICK s : s = Effect(docker.of[c], run[i].action, run[i].force) OBVIOUS
      <4>5. s # "refused" /\ Becomes(c, s) BY <1>12, <3>2, <4>1, <4>4 DEF Execute
      <4>6. s \in States \cup {"absent"} BY <4>4, <4>5 DEF Effect, States
      <4> QED BY <1>1, <1>2, <2>2, <4>3, <4>5, <4>6, BecomesOK
    <3> QED BY <3>1, <3>2
  <2>4. n <= docker'.at /\ docker'.at + u <= 1 + events' BY <1>6, <1>7, <2>1, <2>3
  <2> QED BY <1>9, <2>3, <2>4
<1> QED BY <1>10, <1>11, <1>12, DockerStep

---------------------------------------------------------------------------
(* The lists on their way to the page.                                          *)

ListSteps ==
    \/ UNCHANGED <<inventory, list>> /\ fetches' \in {fetches, {}, {Nothing}}
    \/ inventory' = docker /\ UNCHANGED <<list, fetches>>
    \/ UNCHANGED <<inventory, list>> /\ fetches' = {inventory}
    \/ UNCHANGED inventory /\ fetches' \in {{}, {Nothing}} /\ list' \in fetches \ {Nothing}

LEMMA NextLists ==
    ASSUME DataOK, ShownOK, [PanelNext]_vars
    PROVE  ListSteps
<1>1. CASE Quiet
  BY <1>1 DEF Quiet, ListSteps, vars, queryVars, DockerChanges, Push, Poll, ServerReads, Toggle,
     SetFilter, SetPage, OpenContextMenu, Inspect, CloseContextMenu, CloseDrawer, InspectArrives,
     TableSteps, DrawerSteps
<1>2. CASE ListArrives \/ ListFails \/ \E c \in Containers : InspectArrives(c)
  BY <1>2 DEF ListArrives, ListFails, InspectArrives, Settled, ListSteps
<1>3. CASE Confirm \/ Cancel
  BY SMTT(30), <1>3 DEF Confirm, Cancel, Settle, ListSteps, queryVars
<1>4. ASSUME NEW i \in Runs, Gives(i) \/ Execute(i) \/ Answered(i) \/ Fails(i) PROVE ListSteps
  BY ZenonT(30), <1>4 DEF Gives, Give, Execute, Answered, Fails, ListSteps, Refetch, queryVars
<1> QED BY <1>1, <1>2, <1>3, <1>4, PanelCases

(* An error gives way to a list only.                                            *)
LEMMA NextFailed ==
    ASSUME DataOK, ShownOK, [PanelNext]_vars PROVE failed' \in BOOLEAN /\ (UNCHANGED failed \/ Served)
<1>1. CASE UNCHANGED failed BY <1>1 DEF DataOK
<1>2. CASE ListArrives \/ ListFails BY <1>2 DEF ListArrives, ListFails, Served
<1>3. UNCHANGED failed \/ ListArrives \/ ListFails
  BY PanelCases DEF Quiet, Gives, vars, queryVars, DockerChanges, Push, Poll, ServerReads,
     Toggle, SetFilter, SetPage, OpenContextMenu, Inspect, CloseContextMenu, CloseDrawer,
     InspectArrives, TableSteps, DrawerSteps, Confirm, Cancel, Settle, Give, Execute, Answered, Fails
<1> QED BY <1>1, <1>2, <1>3

LEMMA NextData ==
    ASSUME CommandInv, DataOK, FetchesOK, ShownOK, RunsOK, Budget, [PanelNext]_vars
    PROVE  DataOK' /\ FetchesOK' /\ inventory.at <= inventory'.at
<1>1. docker' \in Lists /\ docker.at <= docker'.at BY NextBudget
<1>2. events' \in 0..MaxEvents BY EventsStep
<1>3. failed' \in BOOLEAN BY NextFailed
<1>4. ListSteps BY NextLists
<1>5. /\ docker.at \in Nat /\ docker'.at \in Nat /\ inventory.at \in Nat /\ list.at \in Nat
      /\ list.at <= inventory.at /\ inventory.at <= docker.at
  BY <1>1, ListFacts DEF DataOK
<1>6. ASSUME NEW f \in fetches
      PROVE  /\ f \in Lists \cup {Nothing} /\ f.at \in Nat /\ f.at <= inventory.at
             /\ f # Nothing => list.at <= f.at
  BY ListFacts DEF FetchesOK
<1>7. CASE UNCHANGED <<inventory, list>> /\ fetches' \in {fetches, {}, {Nothing}}
  <2>1. FetchesOK' BY <1>5, <1>7, ListFacts DEF FetchesOK
  <2> QED BY <1>1, <1>2, <1>3, <1>5, <1>7, <2>1 DEF DataOK
<1>8. CASE inventory' = docker /\ UNCHANGED <<list, fetches>>
  <2>1. FetchesOK'
    <3>1. CASE fetches = {} BY <1>8, <3>1 DEF FetchesOK
    <3>2. CASE fetches # {}
      <4>1. PICK f : f \in Lists \cup {Nothing} /\ fetches = {f} BY <3>2 DEF FetchesOK
      <4>2. f.at <= inventory'.at BY <1>5, <1>6, <1>8, <4>1
      <4> QED BY <1>6, <1>8, <4>1, <4>2 DEF FetchesOK
    <3> QED BY <3>1, <3>2
  <2> QED BY <1>1, <1>2, <1>3, <1>5, <1>8, <2>1 DEF DataOK
<1>9. CASE UNCHANGED <<inventory, list>> /\ fetches' = {inventory}
  <2>1. FetchesOK' BY <1>5, <1>9 DEF FetchesOK, DataOK
  <2> QED BY <1>1, <1>2, <1>3, <1>5, <1>9, <2>1 DEF DataOK
<1>10. CASE UNCHANGED inventory /\ fetches' \in {{}, {Nothing}} /\ list' \in fetches \ {Nothing}
  <2>1. FetchesOK' BY <1>5, <1>10, ListFacts DEF FetchesOK
  <2>2. list' \in Lists \cup {Nothing} /\ list'.at <= inventory.at BY <1>6, <1>10
  <2> QED BY <1>1, <1>2, <1>3, <1>5, <1>10, <2>1, <2>2 DEF DataOK
<1> QED BY <1>4, <1>7, <1>8, <1>9, <1>10 DEF ListSteps

LEMMA NextRuns ==
    ASSUME CommandInv, DataOK, FetchesOK, ShownOK, RunsOK, Budget, [PanelNext]_vars
    PROVE  RunsOK'
<1>1. run' \in [Runs -> RunStates] /\ \A j \in Runs : Keeps(run[j], run'[j]) BY NextKeeps
<1>2. inventory.at \in Nat /\ inventory'.at \in Nat /\ inventory.at <= inventory'.at
  BY NextData, ListFacts DEF DataOK
<1>3. ASSUME NEW i \in Runs PROVE RunOK(run'[i]) /\ run'[i].since <= inventory'.at
  <2>1. run[i].since \in Nat /\ run[i].since <= inventory.at
    BY ListFacts DEF RunsOK, RunStates
  <2> QED BY <1>1, <1>2, <2>1 DEF Keeps
<1>4. ASSUME NEW i \in Runs, run'[i].pc = "refreshing"
      PROVE  /\ \A f \in fetches' \ {Nothing} : f.at >= run'[i].since
             /\ TheList \in run'[i].awaits \/ failed' \/ list'.at >= run'[i].since
  <2>1. CASE fetches' = {Nothing} /\ TheList \in run'[i].awaits BY <2>1
  <2>2. CASE /\ run[i].pc = "refreshing" /\ run'[i].since = run[i].since
             /\ (TheList \in run[i].awaits => TheList \in run'[i].awaits) \/ Served
    <3>1. run[i].since \in Nat /\ run[i].since <= inventory.at
      BY ListFacts DEF RunsOK, RunStates
    <3>2. \A f \in fetches \ {Nothing} : f.at >= run[i].since BY <2>2 DEF RunsOK, Refreshing
    <3>3. fetches' \subseteq fetches \cup {inventory, Nothing} BY NextLists DEF ListSteps
    <3>4. inventory.at >= run[i].since BY <1>2, <3>1
    <3>5. Served => failed' \/ list'.at >= run[i].since BY <3>2 DEF Served
    <3>6. ASSUME ~Served, TheList \notin run'[i].awaits
          PROVE  failed' \/ list'.at >= run[i].since
      <4>1. failed' = failed BY <3>6, NextFailed
      <4>2. list' = list BY <3>6, NextLists DEF ListSteps, Served
      <4>3. TheList \notin run[i].awaits BY <2>2, <3>6
      <4>4. failed \/ list.at >= run[i].since BY <2>2, <4>3 DEF RunsOK, Refreshing
      <4> QED BY <4>1, <4>2, <4>4
    <3> QED BY <2>2, <3>2, <3>3, <3>4, <3>5, <3>6
  <2> QED BY <1>1, <1>4, <2>1, <2>2 DEF Keeps
<1> QED BY <1>1, <1>3, <1>4 DEF RunsOK, RunOK, Refreshing

---------------------------------------------------------------------------
(* What the user sees of it.                                                   *)

LEMMA NextShown ==
    ASSUME CommandInv, DataOK, FetchesOK, ShownOK, RunsOK, [PanelNext]_vars
    PROVE  ShownOK'
<1>1. table \in [filter : Filters, page : Containers, menu : {None} \cup Rows]
  BY DEF ShownOK
<1>2. 1 \in Containers /\ "all" \in Filters BY PanelConstants DEF Containers
<1>3. FreshTable \in [filter : Filters, page : Containers, menu : {None} \cup Rows]
  BY <1>2 DEF FreshTable
<1>4. table' \in [filter : Filters, page : Containers, menu : {None} \cup Rows]
  <2>1. ASSUME NEW m \in {None} \cup Rows, table' = [table EXCEPT !.menu = m]
        PROVE  table' \in [filter : Filters, page : Containers, menu : {None} \cup Rows]
    BY <1>1, <2>1
  <2>2. ASSUME NEW c \in Containers, OpenContextMenu(c)
        PROVE  table' \in [filter : Filters, page : Containers, menu : {None} \cup Rows]
    <3>1. LiveRow(c) \in Rows BY <2>2, VisibleListed, LiveRowOK DEF OpenContextMenu
    <3> QED BY <2>1, <2>2, <3>1 DEF OpenContextMenu, TableSteps
  <2>3. ASSUME NEW f \in Filters, SetFilter(f)
        PROVE  table' \in [filter : Filters, page : Containers, menu : {None} \cup Rows]
    BY <1>3, <2>3 DEF SetFilter, TableSteps
  <2>4. ASSUME NEW p \in Containers, SetPage(p)
        PROVE  table' \in [filter : Filters, page : Containers, menu : {None} \cup Rows]
    BY <1>1, <2>4 DEF SetPage, TableSteps
  <2>5. \/ table' \in {table, FreshTable, [table EXCEPT !.menu = None]}
        \/ \E f \in Filters : SetFilter(f)
        \/ \E p \in Containers : SetPage(p)
        \/ \E c \in Containers : OpenContextMenu(c)
    BY DEF PanelNext, Around, User, Command, vars, pageVars, DockerChanges, Push, Poll, ServerReads,
       Toggle, Inspect, CloseContextMenu, CloseDrawer, InspectArrives, TableSteps, ListArrives,
       ListFails, Confirm, Cancel, Settle, Execute, Answered, Fails, PickFromContextMenu,
       ClickDrawer, ClickRow, PickFromMenu
  <2> QED BY <1>1, <1>3, <2>1, <2>2, <2>3, <2>4, <2>5
<1>5. /\ drawer' \in {None} \cup Rows /\ details' \in {None} \cup States
      /\ drawer' = None => details' = None
  <2>1. ASSUME NEW c \in Containers, Inspect(c)
        PROVE  drawer' \in Rows /\ details' = None
    <3>1. LiveRow(c) \in Rows BY <2>1, VisibleListed, LiveRowOK DEF Inspect
    <3> QED BY <2>1, <3>1 DEF Inspect, DrawerSteps
  <2>2. ASSUME NEW c \in Containers, InspectArrives(c)
        PROVE  \/ drawer' = None /\ details' = None
               \/ UNCHANGED drawer /\ drawer # None /\ details' \in States
               \/ UNCHANGED drawer /\ details' \in {details, None}
    <3>1. docker.of[c] \in States \cup {"absent"} BY ListFacts DEF DataOK
    <3>2. PICK shown : /\ Settled(c, fetches, shown)
                       /\ \/ shown = details
                          \/ /\ drawer # None
                             /\ shown = IF docker.of[c] = "absent" THEN None ELSE docker.of[c]
      BY <2>2 DEF InspectArrives
    <3> QED BY <3>1, <3>2 DEF Settled
  <2>3. \/ UNCHANGED drawer /\ details' \in {details, None}
        \/ drawer' = None /\ details' = None
        \/ \E c \in Containers : InspectArrives(c)
        \/ \E c \in Containers : Inspect(c)
    <3>1. CASE Quiet
      BY <3>1 DEF Quiet, vars, pageVars, DockerChanges, Push, Poll, ServerReads, Toggle, SetFilter,
         SetPage, OpenContextMenu, CloseContextMenu, CloseDrawer, TableSteps, DrawerSteps
    <3>2. CASE ListArrives \/ ListFails BY <3>2 DEF ListArrives, ListFails, Settled
    <3>3. CASE Confirm \/ Cancel
      BY SMTT(30), <3>3 DEF Confirm, Cancel, Settle, pageVars
    <3>4. ASSUME NEW i \in Runs, Gives(i) \/ Execute(i) \/ Answered(i) \/ Fails(i)
          PROVE  UNCHANGED drawer /\ details' \in {details, None}
      BY <3>4 DEF Gives, Give, Execute, Answered, Fails, pageVars
    <3> QED BY <3>1, <3>2, <3>3, <3>4, PanelCases
  <2> QED BY <2>1, <2>2, <2>3 DEF ShownOK
<1> QED BY <1>4, <1>5 DEF ShownOK

---------------------------------------------------------------------------
LEMMA InitPanel == PanelInit => PanelInv
<1> SUFFICES ASSUME PanelInit PROVE PanelInv OBVIOUS
<1>1. docker \in Lists /\ docker.at = 1
  <2>1. 1 \in 1..MaxAt BY PanelConstants DEF MaxAt
  <2> QED BY <2>1 DEF PanelInit, Lists, States
<1>2. DataOK
  <2>1. /\ inventory = docker /\ list = Nothing /\ list.at = 0 /\ failed \in BOOLEAN
        /\ events = 0
    BY ListFacts DEF PanelInit
  <2>2. events \in 0..MaxEvents BY <2>1, PanelConstants
  <2> QED BY <1>1, <2>1, <2>2 DEF DataOK
<1>3. FetchesOK BY DEF PanelInit, FetchesOK
<1>4. ShownOK BY PanelConstants DEF PanelInit, ShownOK, FreshTable, Containers
<1>5. \A i \in Runs : run[i] = NewRun BY DEF PanelInit
<1>6. RunsOK
  <2>1. NewRun \in RunStates /\ NewRun.since = 0 /\ NewRun.pc = "idle"
    BY NewRunOK DEF NewRun, RunOK
  <2>2. run \in [Runs -> RunStates] BY <2>1 DEF PanelInit
  <2>3. inventory.at = 1 BY <1>1 DEF PanelInit
  <2> QED BY <1>5, <2>1, <2>2, <2>3, NewRunOK DEF RunsOK, Refreshing
<1>7. Budget
  <2>1. Waiting(run) = {} BY <1>5 DEF Waiting, Waits, NewRun
  <2>2. Cardinality(Waiting(run)) = 0 BY <2>1, FS_EmptySet
  <2>3. events = 0 BY DEF PanelInit
  <2> QED BY <1>1, <2>2, <2>3 DEF Budget
<1> QED BY <1>2, <1>3, <1>4, <1>6, <1>7, InitCommands DEF PanelInv

LEMMA PanelInvHolds == PanelSpec => []PanelInv
<1>1. PanelInv /\ [PanelNext]_vars => PanelInv'
  <2> SUFFICES ASSUME PanelInv, [PanelNext]_vars PROVE PanelInv' OBVIOUS
  <2>1. CommandInv' BY NextCommands DEF PanelInv
  <2>2. Budget' BY NextBudget DEF PanelInv
  <2>3. DataOK' /\ FetchesOK' BY NextData DEF PanelInv
  <2>4. RunsOK' BY NextRuns DEF PanelInv
  <2>5. ShownOK' BY NextShown DEF PanelInv
  <2> QED BY <2>1, <2>2, <2>3, <2>4, <2>5 DEF PanelInv
<1> QED BY <1>1, InitPanel, PTL DEF PanelSpec

LEMMA PanelTypesHold == PanelInv => PanelTypeOK
<1> SUFFICES ASSUME PanelInv PROVE PanelTypeOK OBVIOUS
<1>1. DataOK /\ FetchesOK /\ ShownOK /\ RunsOK BY DEF PanelInv
<1>2. /\ Cardinality(fetches) <= 1 /\ fetches \subseteq Lists \cup {Nothing}
      /\ \A f \in fetches : f.at <= inventory.at /\ (f # Nothing => list.at <= f.at)
  <2>1. CASE fetches = {}
    <3>1. Cardinality(fetches) = 0 BY <2>1, FS_EmptySet
    <3> QED BY <2>1, <3>1
  <2>2. CASE fetches # {}
    <3>1. PICK f : /\ f \in Lists \cup {Nothing} /\ fetches = {f} /\ f.at <= inventory.at
                   /\ f # Nothing => list.at <= f.at
      BY <1>1, <2>2 DEF FetchesOK
    <3>2. Cardinality(fetches) = 1 BY <3>1, FS_Singleton
    <3> QED BY <3>1, <3>2
  <2> QED BY <2>1, <2>2
<1>3. /\ docker \in Lists /\ inventory \in Lists /\ list \in Lists \cup {Nothing}
      /\ list.at <= inventory.at /\ inventory.at <= docker.at
      /\ failed \in BOOLEAN /\ events \in 0..MaxEvents
  BY <1>1 DEF DataOK
<1>4. /\ table.filter \in Filters /\ table.page \in 1..NumContainers
      /\ table.menu \in {None} \cup Rows /\ drawer \in {None} \cup Rows
      /\ details \in {None} \cup States /\ (drawer = None => details = None)
  BY <1>1 DEF ShownOK, Containers
<1>5. \A i \in Runs :
         /\ run[i].pc \in {"idle", "asking", "sent", "refreshing", "done"}
         /\ run[i].row \in {None} \cup Rows /\ run[i].action \in {None} \cup Tried
         /\ run[i].pc \in {"asking", "sent", "refreshing"} => run[i].row # None
         /\ run[i].worked \in {"unknown", "yes", "no"} /\ run[i].since <= inventory.at
         /\ run[i].awaits \subseteq Answers /\ (run[i].pc = "refreshing" <=> run[i].awaits # {})
  BY <1>1 DEF RunsOK, RunOK, RunStates
<1>6. dialog.request \in {None} \cup Runs /\ dialog.resolveRef \in {None} \cup Runs
  BY DEF PanelInv, CommandInv, OneAsker
<1> QED BY <1>2, <1>3, <1>4, <1>5, <1>6 DEF PanelTypeOK

(* Whatever polls, commands, failures and changes at Docker interleave, the lists on  *)
(* the page, on their way and at the server are ordered by age, at most one request   *)
(* for the list counts, menus and the drawer hold rows that were listed, and every    *)
(* command under way knows its row (useContainers.ts, useContainerCommands.ts).       *)
THEOREM PanelTypes == PanelSpec => []PanelTypeOK
BY PanelInvHolds, PanelTypesHold, PTL

(* A run that waits ends by an answer it waited for, and the list by then is as new.    *)
LEMMA AnswerEnds ==
    ASSUME PanelInv, [PanelNext]_vars, NEW i \in Refreshing, run'[i].pc = "done"
    PROVE  ListArrives \/ ListFails \/ \E c \in Containers : InspectArrives(c) /\ i \in Ending(c)
<1>1. CommandInv /\ DataOK /\ ShownOK /\ RunsOK BY DEF PanelInv
<1>2. i \in Runs /\ run[i].pc = "refreshing" BY DEF Refreshing
<1>3. run'[i] # run[i] BY <1>2
<1>4. ~Quiet BY <1>3, QuietRuns
<1>5. dialog.resolveRef # i BY <1>1, <1>2 DEF CommandInv, OneAsker, OneQuestion
<1>6. run \in [Runs -> RunStates] BY <1>1 DEF RunsOK
<1>7. ASSUME NEW r, Settle(r) PROVE FALSE BY <1>3, <1>5, <1>6, <1>7, <1>2 DEF Settle
<1>8. ASSUME NEW j \in Runs, Gives(j) PROVE FALSE
  <2>1. j # i BY <1>2, <1>8 DEF Gives, Give
  <2>2. PICK row, a, fromDrawer : Give(j, row, a, fromDrawer) BY <1>8 DEF Gives
  <2>3. CASE a = "remove"
    <3>1. PICK r : run' = WithCancelled(j, r) BY <2>2, <2>3 DEF Give, Ask
    <3> QED BY <1>2, <1>3, <1>5, <2>1, <3>1 DEF WithCancelled
  <2>4. CASE a # "remove"
    <3>1. PICK r : run' = [run EXCEPT ![j] = r] BY <2>2, <2>4 DEF Give
    <3> QED BY <1>2, <1>3, <1>6, <2>1, <3>1
  <2> QED BY <2>3, <2>4
<1>9. ASSUME NEW j \in Runs, Execute(j) \/ Answered(j) \/ Fails(j) PROVE FALSE
  <2>1. j # i BY <1>2, <1>9 DEF Execute, Answered, Fails
  <2>2. run'[i] = run[i] BY <1>2, <1>6, <1>9, <2>1 DEF Execute, Answered, Fails
  <2> QED BY <1>3, <2>2
<1>10. ASSUME NEW c \in Containers, InspectArrives(c) PROVE i \in Ending(c)
  <2>1. run' = Resumed(c) BY <1>10 DEF InspectArrives, Settled
  <2> QED BY <1>1, <1>2, <2>1, ResumedRuns
<1> QED BY <1>1, <1>4, <1>7, <1>8, <1>9, <1>10, PanelCases DEF Confirm, Cancel

(* When an answered command is reported, a page that shows a list shows one the server   *)
(* read after the answer came, for a request that was under way then was dropped and      *)
(* later lists are newer, also when it is the drawer the command waited for last          *)
(* (useContainerAction.ts:36).                                               *)
THEOREM DoneIsFresh == PanelSpec => FreshWhenDone
<1>1. ASSUME PanelInv, [PanelNext]_vars
      PROVE  [\A i \in Refreshing :
                run'[i].pc = "done" /\ ~failed' => list'.at >= run[i].since]_vars
  <2> SUFFICES ASSUME NEW i \in Refreshing, run'[i].pc = "done", ~failed'
               PROVE  list'.at >= run[i].since
    OBVIOUS
  <2>1. RunsOK BY <1>1 DEF PanelInv
  <2>2. CASE ListArrives
    <3>1. list' \in fetches \ {Nothing} BY <2>2 DEF ListArrives
    <3> QED BY <2>1, <3>1 DEF RunsOK
  <2>3. ASSUME NEW c \in Containers, InspectArrives(c), i \in Ending(c)
        PROVE  list'.at >= run[i].since
    <3>1. list' = list /\ ~failed BY <2>3 DEF InspectArrives
    <3>2. TheList \notin run[i].awaits
      BY <2>3, PanelConstants DEF Ending, Containers, TheList
    <3> QED BY <2>1, <3>1, <3>2 DEF RunsOK
  <2> QED BY <1>1, <2>2, <2>3, AnswerEnds DEF ListFails
<1> QED BY <1>1, PanelInvHolds, PTL DEF PanelSpec, FreshWhenDone

---------------------------------------------------------------------------
(* The pages of the table.                                                     *)

LEMMA MaxPair ==
    ASSUME NEW a \in Int, NEW b \in Int
    PROVE  Max({a, b}) \in {a, b} /\ Max({a, b}) >= a /\ Max({a, b}) >= b
<1>1. \E x \in {a, b} : \A y \in {a, b} : x >= y OBVIOUS
<1> QED BY <1>1 DEF Max

LEMMA MinPair ==
    ASSUME NEW a \in Int, NEW b \in Int
    PROVE  Min({a, b}) \in {a, b} /\ Min({a, b}) <= a /\ Min({a, b}) <= b
<1>1. \E x \in {a, b} : \A y \in {a, b} : x <= y OBVIOUS
<1> QED BY <1>1 DEF Min

(* A finite set of numbers has one of every rank up to its size.                    *)
LEMMA RankOnto ==
    ASSUME NEW S, S \subseteq Nat, IsFiniteSet(S), NEW k \in 1..Cardinality(S)
    PROVE  \E c \in S : Cardinality({d \in S : d <= c}) = k
<1> DEFINE UpTo(c) == {d \in S : d <= c}
<1>1. PICK n \in Nat : n = Cardinality(S) BY FS_CardinalityType
<1>2. PICK f : f = [c \in S |-> Cardinality(UpTo(c))] OBVIOUS
<1>3. ASSUME NEW c \in S
      PROVE  IsFiniteSet(UpTo(c)) /\ Cardinality(UpTo(c)) \in 1..n
  <2>1. UpTo(c) \in SUBSET S /\ c \in UpTo(c) OBVIOUS
  <2>2. IsFiniteSet(UpTo(c)) /\ Cardinality(UpTo(c)) <= n BY <1>1, <2>1, FS_Subset
  <2>3. Cardinality(UpTo(c)) \in Nat BY <2>2, FS_CardinalityType
  <2>4. Cardinality(UpTo(c)) # 0 BY <2>1, <2>2, FS_EmptySet
  <2> QED BY <2>2, <2>3, <2>4
<1>4. ASSUME NEW c \in S, NEW e \in S, c < e PROVE f[c] # f[e]
  <2>1. UpTo(c) \in SUBSET UpTo(e)
    <3>1. \A d \in S : d \in Nat /\ c \in Nat /\ e \in Nat OBVIOUS
    <3>2. \A d \in S : d <= c => d <= e BY <1>4, <3>1
    <3> QED BY <3>2
  <2>2. e \in UpTo(e) /\ e \notin UpTo(c) BY <1>4
  <2>3. Cardinality(UpTo(c)) # Cardinality(UpTo(e)) BY <1>3, <2>1, <2>2, FS_Subset
  <2> QED BY <1>2, <2>3
<1>5. f \in [S -> 1..n] BY <1>2, <1>3
<1>6. \A c, e \in S : f[c] = f[e] => c = e
  <2>1. ASSUME NEW c \in S, NEW e \in S, c # e PROVE f[c] # f[e]
    <3>1. c < e \/ e < c BY <2>1
    <3> QED BY <1>4, <3>1
  <2> QED BY <2>1
<1>7. f \in Injection(S, 1..n) BY <1>5, <1>6 DEF Injection, IsInjective
<1>8. IsFiniteSet(1..n) /\ Cardinality(1..n) = n
  <2>1. 1 \in Int /\ n \in Int OBVIOUS
  <2>2. IsFiniteSet(1..n) /\ Cardinality(1..n) = (IF 1 > n THEN 0 ELSE n - 1 + 1)
    BY <2>1, FS_Interval
  <2> QED BY <2>2
<1>9. f \in Surjection(S, 1..n) BY <1>1, <1>7, <1>8, FS_Injection
<1>10. PICK c \in S : f[c] = k BY <1>1, <1>9 DEF Surjection
<1> QED BY <1>2, <1>10

LEMMA PagesHold == PanelInv => PageInRange
<1> SUFFICES ASSUME PanelInv, Filtered # {} PROVE Visible # {} BY DEF PageInRange
<1>1. Filtered \subseteq Containers BY VisibleListed
<1>2. Filtered \subseteq Nat BY <1>1, PanelConstants DEF Containers
<1>3. IsFiniteSet(Filtered)
  <2>1. 1 \in Int /\ NumContainers \in Int BY PanelConstants
  <2>2. IsFiniteSet(Containers) BY <2>1, FS_Interval DEF Containers
  <2> QED BY <1>1, <2>2, FS_Subset
<1>4. PICK n \in Nat \ {0} : n = Cardinality(Filtered)
  BY <1>3, FS_CardinalityType, FS_EmptySet
<1>5. PICK s \in Nat \ {0} : s = PageSize BY PanelConstants
<1>6. PICK a \in Nat : a = n + s - 1 BY <1>4, <1>5
<1>7. PICK q : q = a \div s OBVIOUS
<1>8. q \in Nat /\ q * s <= a BY <1>5, <1>6, <1>7
<1>9. PICK m \in Nat : m = PageCount /\ m >= 1 /\ (m = 1 \/ m = q)
  <2>1. PageCount = Max({1, q}) BY <1>4, <1>5, <1>6, <1>7 DEF PageCount
  <2>2. Max({1, q}) \in {1, q} /\ Max({1, q}) >= 1 BY <1>8, MaxPair
  <2> QED BY <1>8, <2>1, <2>2
<1>10. (m - 1) * s <= n - 1
  <2>1. CASE m = 1 BY <1>4, <1>5, <2>1
  <2>2. CASE m = q
    <3>1. (m - 1) * s = q * s - s BY <1>5, <1>8, <1>9, <2>2
    <3> QED BY <1>4, <1>5, <1>6, <1>8, <3>1
  <2> QED BY <1>9, <2>1, <2>2
<1>11. PICK p \in Nat : p = CurrentPage /\ 1 <= p /\ p <= m
  <2>1. table.page \in Int /\ table.page >= 1
    BY PanelConstants DEF PanelInv, ShownOK, Containers
  <2>2. CurrentPage = Min({table.page, m}) BY <1>9 DEF CurrentPage
  <2>3. PICK g \in Int : g = table.page /\ g >= 1 BY <2>1
  <2>4. m \in Int BY <1>9
  <2>5. Min({g, m}) \in {g, m} /\ Min({g, m}) <= m BY <2>4, MinPair
  <2> QED BY <1>9, <2>2, <2>3, <2>5
<1>12. PICK k \in Nat : k = (p - 1) * s BY <1>5, <1>11
<1>13. k <= (m - 1) * s BY <1>5, <1>9, <1>11, <1>12
<1>14. k + 1 \in 1..n
  <2>1. PICK j \in Int : j = (m - 1) * s BY <1>5, <1>9
  <2> QED BY <1>4, <1>10, <1>12, <1>13, <2>1
<1>15. PICK c \in Filtered : Rank(c) = k + 1
  BY <1>2, <1>3, <1>4, <1>14, RankOnto DEF Rank
<1>16. k < k + 1 /\ k + 1 <= p * s
  <2>1. p * s = k + s BY <1>5, <1>11, <1>12
  <2> QED BY <1>5, <1>12, <2>1
<1>17. c \in Visible BY <1>5, <1>11, <1>12, <1>15, <1>16 DEF Visible
<1> QED BY <1>17

(* For every page size, number of containers, filter and page chosen before the list  *)
(* shrank, a table that has rows shows some (ContainerTable.tsx:108-117).             *)
THEOREM PagesAreInRange == PanelSpec => []PageInRange
BY PanelInvHolds, PagesHold, PTL
===============================================================================
