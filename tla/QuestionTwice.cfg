SPECIFICATION Spec
CONSTANTS
    None = None
    Root = Root
    Clients = {c1, c2}
    Loaders = {c1, c2}
    Subagents = {k1}
    Questions = {q1}
    MaxBuffer = 2
    MaxRestarts = 0
INVARIANT QuestionPutOnce
CHECK_DEADLOCK FALSE
