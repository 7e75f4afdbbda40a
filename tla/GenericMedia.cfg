CONSTANTS
    Files = {"old.jpg", "new.jpg"}
    Folders = {"/", "/dcim"}
    Root = "/"
    FolderOf <- MCFolderOf
    Keys = {"old.jpg", "new.jpg"}
    KeyOf <- MCKeyOf
    History = {"old.jpg"}
    Requests = {"start", "stop", "release", "disconnect", "connect", "page"}
    Pages <- RootPages
    MaxQueue = 2
    MaxFaults = 1
SPECIFICATION FairSpec
INVARIANTS
    IInv
    OnePollChain
    LastRequestWins
PROPERTIES
    OnlyNewFilesAreAnnounced
    NewFileArrives
