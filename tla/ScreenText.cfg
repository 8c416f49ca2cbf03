SPECIFICATION Spec
CONSTANTS
    Proc = {p1, p2}
    WIDTH = 2
    HEIGHT = 3
    WIDTH12 = 4
    WIDTH13 = 4
    BITS = 2
    BYTE = 3
    LOWMEM = 32
    Program <- Programs
    Together <- Overlapping
    Key = {97}
    MaxRuns = 3
    MaxKeys = 2
    MaxKeysTogether = 0
SYMMETRY Symmetry
CHECK_DEADLOCK FALSE
INVARIANTS  NothingLost LegibleAtRest PictureIsDrawn
