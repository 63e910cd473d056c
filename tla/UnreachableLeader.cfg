SPECIFICATION Spec
CONSTANTS
    Clients = {c1, c2}
    Leaders = {l1, l2}
    Old = {}
    Inodes = {1, 2, 3, 4}
    Faults = {}
    MaxFaults = 0
    None = None
SYMMETRY MCSymmetry
INVARIANT ServingLeaderIsReachable
CHECK_DEADLOCK FALSE
