CONSTANTS
    NumHosts = 2
    MaxSamples = 3
    MaxEvents = 1
    MaxSaves = 1
    Filters = {"all", "online"}
    Keep = 2
    None = None
SPECIFICATION HostPagesFairSpec
INVARIANTS HostPagesTypeOK ChartIsOfHost
PROPERTIES SavedNameShown SaveSettles
