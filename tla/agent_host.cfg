CONSTANTS
    Runs = {r1, r2}
    Releases = {v1, v2}
    Urls = {u1, u2}
    Ids = {i1, i2}
    MaxCommands = 2
    MaxFaults = 1
SPECIFICATION AgentHostSpec
SYMMETRY Symmetry
CHECK_DEADLOCK FALSE
INVARIANTS AgentHostTypeOK OneIdentity
PROPERTIES InstalledIsRunning ChangedUrlIsUsed
