CONSTANTS
    Handles = {1, 2}
    Photos = {1, 2}
    History = {}
    Storages = {1, 2}
    Requests = {"page", "new"}
    MayStop = TRUE
    FaultKinds = {"transient", "fatal", "aged"}
    MaxFaults = 1
    MaxAttempts = 2
    PublishedLimit = 1
SPECIFICATION Spec
INVARIANTS
    IngestInv
    NewsOnce
    NoHistory
