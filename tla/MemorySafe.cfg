\* Two processes in a memory that is too small for both to run a program.
SPECIFICATION Spec
CONSTANTS
    NPROC = 2
    NPAGES = 20
    PGSIZE = 2
    KERNBASE = 14
    NPTENTRIES = 3
    KTABLES = 2
    WORD = 2
    Increment <- Increments
    Program <- Programs
    ArgsSize = {1, 3}
    MaxPipes = 2
VIEW View
CHECK_DEADLOCK FALSE
INVARIANTS PageHasOneOwner NoPanic ArgsAreMapped
PROPERTY OthersKeepTheirImage
