CONSTANTS
    MaxBytes = 5
    BufferSize = 3
    MaxZeroLengthReads = 2
SPECIFICATION FairSpec
CHECK_DEADLOCK FALSE
INVARIANTS
    IInv
    ExactRange
PROPERTIES
    ReadsTheStream
    CallEnds
