CONSTANTS
    Handles = {1, 2}
    Photos = {1, 2}
    History = {}
    Storages = {1}
    Requests = {"list", "new"}
    MayStop = FALSE
    FaultKinds = {}
    MaxFaults = 0
    MaxAttempts = 2
    PublishedLimit = 1
SPECIFICATION Spec
INVARIANTS
    MissedPhotoIsRecovered
