SPECIFICATION Spec
CONSTANTS
    Word <- Words
    MAXARGS = 4
    NPROC = 5
    NOFILE = 6
    NFILE = 6
    PIPESIZE = 1
    Name = {"f"}
    Line <- Lines
    MaxLines = 2
CHECK_DEADLOCK FALSE
INVARIANTS ProgramHasThreeFiles NoStrays LineDoesWhatItSays
PROPERTY PromptReturns
