SPECIFICATION Spec
CONSTANTS
    None = None
    Root = Root
    Clients = {c1, c2, c3}
    Loaders = {c1, c2}
    Subagents = {k1}
    Questions = {q1}
    MaxBuffer = 1
    MaxRestarts = 1
SYMMETRY MCSymmetry
INVARIANT TypeOK
INVARIANT LoadedFollowsSubagents
INVARIANT RootIsDriven
INVARIANT SubagentIsDriven
INVARIANT LoadedShowsOpenQuestions
INVARIANT FinishedIsUnrouted
CHECK_DEADLOCK FALSE
