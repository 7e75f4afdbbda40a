CONSTANTS
    Threads = {t1, t2}
    Dispatcher = disp
    Nobody = nobody
SPECIFICATION FairSpec
INVARIANTS
    ClosedSessionIsQuiet
    IInv
    OneActiveThread
    StoppedMeansStopped
PROPERTIES
    ImplementsReader
    StaleThreadsEnd
    OperationsEnd
