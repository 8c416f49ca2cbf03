\* Three processes, which may have two buffers each, and three blocks that
\* compete for two buffers.  bget() may panic, which stops its process.
SPECIFICATION Spec
CONSTANTS
    Proc = {p1, p2, p3}
    Nobody = Nobody
    Block = {k1, k2, k3}
    NoBlock = NoBlock
    LogBlock = {k1}
    Indirect = {k2}
    Buf = {x1, x2}
    NoBuf = NoBuf
    Val = {0, 1}
    InitVal = 0
    MaxDirty = 1
    DiskErrors = FALSE
SYMMETRY Symmetry
INVARIANTS HolderHasBlock SleepersWillWake NoBufferDeadlock
PROPERTY BlockStoreSpec
CHECK_DEADLOCK FALSE
