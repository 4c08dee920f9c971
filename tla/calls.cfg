CONSTANTS
    Agents = {a1}
    Sockets = {s1, s2}
    Commands = {c1}
    Inspects = {}
    Streams = {}
    HostIds = {h1, h2}
    None = None
    MaxCrashes = 1
    MaxDbFaults = 0
    Pushes = {"agent.heartbeat"}
    MaxVersion = 1
    Fragile = {}
SPECIFICATION Spec
SYMMETRY Symmetry
INVARIANTS TypeOK AnswerIsTrue RefusedNeverRuns NoCallWaitsOnClosedSocket NothingDiscarded WaitingIsTimed
PROPERTY KeepsContract
