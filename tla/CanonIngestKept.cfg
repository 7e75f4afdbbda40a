CONSTANTS
    Handles = {1, 2}
    Photos = {1, 2}
    History = {}
    Storages = {1}
    Requests = {"list", "new"}
    MayStop = FALSE
    FaultKinds = {"transient"}
    MaxFaults = 1
    MaxAttempts = 2
    PublishedLimit = 1
SPECIFICATION FairSpec
INVARIANTS
    AttendedPhotoIsKept
PROPERTIES
    AttendedPhotoArrives
