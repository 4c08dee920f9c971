-------------------------- MODULE MCAgentSystem ---------------------------
(* Instances of AgentSystem for TLC.  The cfgs give small sets of model       *)
(* values; agents, sockets and record ids are interchangeable.                *)
EXTENDS AgentSystem, TLC

Symmetry == Permutations(Agents) \cup Permutations(Sockets) \cup Permutations(HostIds)

---------------------------------------------------------------------------
(* Two hosts some time after their registration: the agent of one, away, has lost   *)
(* its connection, the other is serving, and the server keeps a list and a sample   *)
(* of each.  A run that begins here has the reconnection, the deletion, the new     *)
(* record and the crash that a run from Init is too large to reach.               *)
away == CHOOSE a \in Agents : TRUE
here == CHOOSE a \in Agents : a # away
first == CHOOSE s \in Sockets : TRUE
second == CHOOSE s \in Sockets : s # first
one == CHOOSE h \in HostIds : TRUE
two == CHOOSE h \in HostIds : h # one

OneAwayWire ==
    /\ owner = (first :> away @@ second :> here) @@ [s \in Sockets |-> None]
    /\ clientEnd = (first :> "closed" @@ second :> "open") @@ [s \in Sockets |-> "unused"]
    /\ serverEnd = clientEnd
    /\ up = [s \in Sockets |-> <<>>] /\ down = [s \in Sockets |-> <<>>]

OneAwayServer ==
    /\ rows = away :> [id |-> one, status |-> "OFFLINE", recent |-> TRUE]
                @@ here :> [id |-> two, status |-> "ONLINE", recent |-> TRUE]
    /\ usedIds = {one, two}
    /\ serverUp = TRUE /\ crashes = 0 /\ dbFaults = 0
    /\ agentUuid = owner
    /\ agentId = (first :> one @@ second :> two) @@ [s \in Sockets |-> None]
    /\ socketsByUuid = away :> None @@ here :> second
    /\ pending = [r \in Calls |-> None] /\ timers = {}
    /\ logSubscribers = [r \in Streams |-> None]
    /\ call = [r \in Requests |-> NoCall] /\ viewers = {}
    /\ regTask = [s \in Sockets |-> "none"] /\ regId = agentId
    /\ hbTask = [s \in Sockets |-> "none"] /\ offTask = [s \in Sockets |-> FALSE]
    /\ deleting = [a \in Agents |-> None]
    /\ inventoryHost = away :> one @@ here :> two /\ metricsHost = inventoryHost
    /\ inventory = (one :> Snapshot(away, 1) @@ two :> Snapshot(here, 1))
                     @@ [h \in HostIds |-> NoSnapshot]
    /\ metrics = (one :> away @@ two :> here) @@ [h \in HostIds |-> None]

OneAwayAgents ==
    /\ session = away :> "waiting" @@ here :> "serving"
    /\ sock = away :> None @@ here :> second
    /\ effect = [r \in Requests |-> NoEffect]
    /\ docker = [a \in Agents |-> 1] /\ changed = [a \in Agents |-> FALSE]
    /\ logStreams = [a \in Agents |-> {}] /\ logReaders = [a \in Agents |-> {}]

OneAway == OneAwayWire /\ OneAwayServer /\ OneAwayAgents
OneAwaySpec == OneAway /\ [][Next]_vars

(* Bound: agents lose their sessions and dial again; none is stopped.           *)
NobodyStops == \A a \in Agents : session[a] # "stopped"
===========================================================================
