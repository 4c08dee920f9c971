-------------------------- MODULE CommandContract -------------------------
(***************************************************************************)
(* What a user is promised about a call that acts on, or inspects, a        *)
(* container of a host: it is carried out at most once; a call refused is   *)
(* never carried out; an answer is the outcome of having carried it out;    *)
(* and a call that is given up (timeout, disconnect, server restart) leaves *)
(* open whether it is, or still will be, carried out.                       *)
(***************************************************************************)
CONSTANT Calls

VARIABLES
    outcome,   \* what the user knows of each call
    done       \* what happened to it on the host

contractVars == <<outcome, done>>

Results  == {"succeeded", "failed"}
Outcomes == {"idle", "open", "refused", "unknown"} \cup Results

ContractTypeOK ==
    /\ outcome \in [Calls -> Outcomes]
    /\ done \in [Calls -> {"no"} \cup Results]

ContractInit ==
    /\ outcome = [r \in Calls |-> "idle"]
    /\ done = [r \in Calls |-> "no"]

Begin(r) ==
    /\ outcome[r] = "idle"
    /\ outcome' = [outcome EXCEPT ![r] = "open"]
    /\ UNCHANGED done

(* Carried out while the user waits, or after the call was given up.        *)
Perform(r, how) ==
    /\ done[r] = "no" /\ outcome[r] \in {"open", "unknown"}
    /\ done' = [done EXCEPT ![r] = how]
    /\ UNCHANGED outcome

Refuse(r) ==
    /\ outcome[r] = "open" /\ done[r] = "no"
    /\ outcome' = [outcome EXCEPT ![r] = "refused"]
    /\ UNCHANGED done

Answer(r) ==
    /\ outcome[r] = "open" /\ done[r] # "no"
    /\ outcome' = [outcome EXCEPT ![r] = done[r]]
    /\ UNCHANGED done

(* One event may end many calls: a disconnect, a restart.                   *)
GiveUp(given) ==
    /\ \A r \in given : outcome[r] = "open"
    /\ outcome' = [r \in Calls |-> IF r \in given THEN "unknown" ELSE outcome[r]]
    /\ UNCHANGED done

ContractNext ==
    \/ \E r \in Calls : Begin(r) \/ Refuse(r) \/ Answer(r)
    \/ \E r \in Calls, how \in Results : Perform(r, how)
    \/ \E given \in SUBSET Calls : GiveUp(given)

ContractSpec == ContractInit /\ [][ContractNext]_contractVars
===========================================================================
