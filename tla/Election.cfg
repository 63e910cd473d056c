SPECIFICATION FairSpec
CONSTANTS
    Clients = {c1}
    Leaders = {l0, l1, l2}
    Old = {l0}
    Inodes = {1, 2, 3, 4, 5}
    Faults = {"crash", "exit", "slow"}
    MaxFaults = 1
    None = None
INVARIANT TypeOK
INVARIANT PidAgreesWithLock
INVARIANT SingleLeader
PROPERTY ClientIsServed
CHECK_DEADLOCK FALSE
