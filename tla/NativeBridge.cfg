CONSTANTS
    Folders = {"root", "a", "b", "c"}
    Names = {"p"}
    Trees <- MCTrees
    Failures <- MCFailures
    MaxDepth = 1
    MaxFolders = 3
    MaxErrors = 2
    Descriptors = {3, 4}
    UsbIds <- MCUsbIds
    Drivers <- MCDrivers
SPECIFICATION FairSpec
INVARIANTS
    IInv
    Balanced
    ConnectAnswerIsTrue
    ScanIsCompleteOrSaysSo
PROPERTIES
    ImplementsApi
    CallEnds
