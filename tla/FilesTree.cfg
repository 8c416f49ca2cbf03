\* Two processes make four calls on the directories /d and /d/e and a file /x.
SPECIFICATION Spec
CONSTANTS
    Proc = {p1, p2}
    NoProc = NoProc
    NINODES = 6
    NINODE = 6
    NFILE = 2
    NOFILE = 2
    Name = {"d", "e", "x"}
    InRoot = {"x"}
    Nested <- TreeNested
    Calls <- TreeCalls
    MaxCalls = 4
SYMMETRY Symmetry
VIEW View
CHECK_DEADLOCK FALSE
INVARIANTS  ValidIsCurrent RefsAreExact LinksAreExact OnlyIputDeadlocks
