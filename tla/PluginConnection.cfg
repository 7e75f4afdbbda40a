CONSTANTS
    Descriptors = {3, 4}
    Instances = {1, 2}
    Devices = {"canon", "sony"}
    Canons = {"canon"}
    Wants <- MCWants
    MaxRequests <- MCRequests
SPECIFICATION Spec
INVARIANTS
    Stages
    NoConnectionLeaks
    CameraDescriptorIsOpen
    UsableIsOpenUnlessConnecting
    AnsweredOnce
    LastEventIsTrue
    GoneDeviceIsDropped
    EngineLeavesNothing
CHECK_DEADLOCK FALSE
