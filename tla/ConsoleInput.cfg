\* Two processes read or poll a ring of two characters whose indices wrap
\* around after four; one of them may be killed.
SPECIFICATION Spec
CONSTANTS
    Proc = {p1, p2}
    Nobody = Nobody
    Key = {"NUL", "CR", "EOT", "^U", "BS", "a"}
    INPUT_BUF = 2
    UINT = 4
    MaxKeys = 2
    MaxN = 2
    Killable = {p1, p2}
SYMMETRY Symmetry
INVARIANT SleepersHaveNothing
PROPERTY TtySpec
