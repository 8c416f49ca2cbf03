\* Two CPUs, four slots: init, a parent, its child and its grandchild.
SPECIFICATION Spec
CONSTANTS
    NPROC = 4
    Cpu = {c1, c2}
    NoCpu = NoCpu
    MaxPid = 4
    KillArgs = {3}
SYMMETRY Symmetry
VIEW View
INVARIANTS StackHasOneCpu TableIsSound SleeperWaits
