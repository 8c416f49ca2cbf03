\* One CPU, three slots, three forks; nobody kills init.
SPECIFICATION FairSpec
CONSTANTS
    NPROC = 3
    Cpu = {c1}
    NoCpu = NoCpu
    MaxPid = 4
    KillArgs = {2, 3}
PROPERTIES KilledExits OrphanReaped
