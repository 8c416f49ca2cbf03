\* Two calls at a time, three home blocks, power loss at every step.
SPECIFICATION Spec
CONSTANTS
    Proc = {p1, p2}
    Block = {b1, b2, b3}
    Val = {0, 1}
    InitVal = 0
    Absent = Absent
    NoBlock = NoBlock
    MAXOPBLOCKS = 4
    LOGSIZE = 8
    NLOG = 8
    OPBLOCKS = 2
SYMMETRY Symmetry
INVARIANTS QuietIsDurable EvictableIsClean
PROPERTY AtomicSpec
