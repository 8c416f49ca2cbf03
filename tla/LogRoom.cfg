\* Two running calls leave no room for a third, and three one-block calls
\* would fill the log area (NLOG - 1 blocks): calls stay one block below
\* MAXOPBLOCKS, contents do not matter, and there is no power loss.
SPECIFICATION FairSpec
CONSTANTS
    Proc = {p1, p2, p3}
    Block = {b1, b2, b3}
    Val = {0}
    InitVal = 0
    Absent = Absent
    NoBlock = NoBlock
    MAXOPBLOCKS = 2
    LOGSIZE = 4
    NLOG = 4
    OPBLOCKS = 1
INVARIANT NoPanic
PROPERTY SleeperWakes
