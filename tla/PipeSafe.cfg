\* Two writers and two readers share a pipe of two bytes whose counters wrap
\* around after four; readers may be killed.
SPECIFICATION Spec
CONSTANTS
    Writer = {w1, w2}
    Reader = {r1, r2}
    Nobody = Nobody
    Byte = {b0, b1}
    PIPESIZE = 2
    UINT = 4
    MaxN = 3
    Killable = {r1, r2}
SYMMETRY Symmetry
CHECK_DEADLOCK FALSE
INVARIANTS SleepersHaveReason FreedIsUnused
PROPERTY FifoSpec
