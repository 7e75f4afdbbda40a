CONSTANTS
    Files = {"old.jpg", "new.jpg"}
    Folders = {"/", "/dcim"}
    Root = "/"
    FolderOf <- MCFolderOf
    Keys = {"old.jpg", "new.jpg"}
    KeyOf <- MCKeyOf
    History = {"old.jpg"}
    Requests = {"start", "stop", "release", "disconnect", "connect", "page"}
    Pages <- FolderPages
    MaxQueue = 2
    MaxFaults = 0
SPECIFICATION Spec
PROPERTY OnlyNewFilesAreAnnounced
