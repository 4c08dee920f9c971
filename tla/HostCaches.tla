---------------------------- MODULE HostCaches ----------------------------
(***************************************************************************)
(* What the server keeps in memory about each host and serves to the        *)
(* dashboard: ContainerInventoryService (the last container list) and        *)
(* HostMetricsService (the last CPU/memory sample).  Both are keyed by the   *)
(* host's record id, with an index from the agent's uuid.  A container list  *)
(* is abstracted to the version of the agent's container set it shows, with  *)
(* 0 for the empty placeholder; a sample to its presence.                    *)
(***************************************************************************)
EXTENDS Wire

CONSTANT HostIds   \* the record ids the database may give out, each once

VARIABLES
    inventoryHost,   \* ContainerInventoryService.hostIdByUuid
    inventory,       \* ContainerInventoryService.byHostId
    metricsHost,     \* HostMetricsService.hostIdByUuid
    metrics          \* HostMetricsService.byHostId

cacheVars == <<inventoryHost, inventory, metricsHost, metrics>>

NoSnapshot == [agent |-> None, ver |-> 0]
Snapshot(a, v) == [agent |-> a, ver |-> v]

CachesTypeOK ==
    /\ inventoryHost \in [Agents -> HostIds \cup {None}]
    /\ inventory \in [HostIds -> [agent : Agents \cup {None}, ver : Nat]]
    /\ metricsHost \in [Agents -> HostIds \cup {None}]
    /\ metrics \in [HostIds -> Agents \cup {None}]

CachesInit ==
    /\ inventoryHost = [a \in Agents |-> None]
    /\ inventory = [h \in HostIds |-> NoSnapshot]
    /\ metricsHost = [a \in Agents |-> None]
    /\ metrics = [h \in HostIds |-> None]

(* A server restart forgets both caches.                                     *)
CachesForgotten ==
    /\ inventoryHost' = [a \in Agents |-> None]
    /\ inventory' = [h \in HostIds |-> NoSnapshot]
    /\ metricsHost' = [a \in Agents |-> None]
    /\ metrics' = [h \in HostIds |-> None]

(* ContainerInventoryService.rememberHost: index the host, keep what it has. *)
InventoryRemember(h, a) ==
    /\ inventoryHost' = [inventoryHost EXCEPT ![a] = h]
    /\ inventory' = [inventory EXCEPT ![h].agent = a]

(* HostMetricsService.rememberHost.                                          *)
MetricsRemember(h, a) == metricsHost' = [metricsHost EXCEPT ![a] = h]

(* ContainerInventoryService.setContainers: the socket's own host id wins    *)
(* over the index; with neither the list is dropped.                         *)
SetContainers(a, v, own) ==
    LET h == IF own # None THEN own ELSE inventoryHost[a]
    IN  IF h = None
        THEN UNCHANGED <<inventoryHost, inventory>>
        ELSE /\ inventory' = [inventory EXCEPT ![h] = Snapshot(a, v)]
             /\ inventoryHost' = [inventoryHost EXCEPT ![a] = h]

(* HostMetricsService.set.                                                   *)
SetMetrics(a, own) ==
    LET h == IF own # None THEN own ELSE metricsHost[a]
    IN  IF h = None
        THEN UNCHANGED <<metricsHost, metrics>>
        ELSE /\ metrics' = [metrics EXCEPT ![h] = a]
             /\ metricsHost' = [metricsHost EXCEPT ![a] = h]
===========================================================================
