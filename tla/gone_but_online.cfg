CONSTANTS
    Agents = {a1}
    Sockets = {s1}
    Commands = {}
    Inspects = {}
    Streams = {}
    HostIds = {h1}
    None = None
    MaxCrashes = 0
    MaxDbFaults = 0
    Pushes = {"agent.heartbeat"}
    MaxVersion = 1
    Fragile = {}
SPECIFICATION FairSpec
PROPERTY GoneIsOffline
