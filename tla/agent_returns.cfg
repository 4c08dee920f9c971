CONSTANTS
    Runs = {r1}
    Releases = {v1}
    Urls = {u1}
    Ids = {i1, i2}
    MaxCommands = 2
    MaxFaults = 2
SPECIFICATION AgentHostFairSpec
CHECK_DEADLOCK FALSE
PROPERTY AgentReturns
