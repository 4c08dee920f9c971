CONSTANTS
    Agents = {a1, a2}
    Sockets = {s1, s2, s3}
    Commands = {c1}
    Inspects = {}
    Streams = {}
    HostIds = {h1, h2, h3}
    None = None
    MaxCrashes = 1
    MaxDbFaults = 0
    Pushes = {"metrics.host"}
    MaxVersion = 1
    Fragile = {}
SPECIFICATION OneAwaySpec
CONSTRAINT NobodyStops
INVARIANTS RoutingSound CachesBelong
