CONSTANTS
    Agents = {a1}
    Sockets = {s1}
    Commands = {}
    Inspects = {i1}
    Streams = {r1}
    HostIds = {h1}
    None = None
    MaxCrashes = 1
    MaxDbFaults = 1
    Pushes = {"metrics.host", "logs.chunk"}
    MaxVersion = 1
    Fragile = {a1}
SPECIFICATION FairSpec
INVARIANT NoAbandonedReader
PROPERTY EveryCallEnds
