CONSTANTS
    Threads = {t1, t2}
    Dispatcher = disp
    Nobody = nobody
SPECIFICATION CaptureSpec
INVARIANTS
    CaptureIsHeard
