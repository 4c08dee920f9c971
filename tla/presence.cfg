CONSTANTS
    Agents = {a1}
    Sockets = {s1, s2}
    Commands = {}
    Inspects = {}
    Streams = {}
    HostIds = {h1}
    None = None
    MaxCrashes = 1
    MaxDbFaults = 1
    Pushes = {"agent.heartbeat"}
    MaxVersion = 1
    Fragile = {a1}
SPECIFICATION FairSpec
PROPERTY PresenceRepaired
