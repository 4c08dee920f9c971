CONSTANTS
    NumContainers = 2
    MaxEvents = 2
    Filters = {"all", "running"}
    Tried = {"stop", "remove"}
    PageSize = 1
    None = None
SPECIFICATION PanelFairSpec
INVARIANTS PanelTypeOK PageInRange OneQuestion BusyIsWorking
PROPERTIES RemovalConfirmed FreshWhenDone TableCatchesUp
