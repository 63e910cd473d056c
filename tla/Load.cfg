SPECIFICATION Spec
CONSTANTS
    c1 = c1
    c2 = c2
    Clients = {c1, c2}
    Attached = {}
    Scripts <- MCScripts
    MaxBuffer = 1
    MaxFaults = 1
    NoLine = NoLine
SYMMETRY MCSymmetry
INVARIANT TypeOK
INVARIANT TranscriptInOrder
INVARIANT MissesAreAccounted
INVARIANT GateIsHeld
INVARIANT HeldForALoad
CHECK_DEADLOCK FALSE
