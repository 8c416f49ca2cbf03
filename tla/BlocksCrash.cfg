SPECIFICATION Spec
CONSTANTS
    NPROC = 2
    NFILE = 2
    NINODES = 3
    BSIZE = 2
    NDIRECT = 1
    FSSIZE = 17
    BPB = 4
    LOGSIZE = 1
    INODEBLOCKS = 1
    UPROGS = {1}
    MAXOPBLOCKS = 6
    Val = {16}
    Size = {1, 4}
    MaxImage = 5
    MaxCalls = 4
    MaxCrashes = 1
CHECK_DEADLOCK FALSE
INVARIANTS BlocksAreAccounted ContentsAsWritten CrashSafe NoPanic
