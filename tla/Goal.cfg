SPECIFICATION Spec
CONSTANTS
    None = None
    c1 = c1
    c2 = c2
    OtherTask = OtherTask
    GoalTask = GoalTask
    Clients = {c1}
    Prompts <- MCPrompts
    Kind <- MCKind
    Owner <- MCOwner
    Tasks <- MCTasks
    CompletionId <- MCCompletionId
    Source <- MCSource
    GoalTurnTasks <- MCGoalTurnTasks
    UserPrompts = {u1, u2}
    SecondClients = {}
    FallbackPrompts = {}
    WakePrompts = {}
    CronPrompts = {}
    DrainPrompts = {}
    GoalPrompts = {g1}
    PlanPrompts = {}
    Notifs = {}
    NextPriority = {}
    GoalNotifs = {}
    Commands = {"Prompt", "SendNow", "Goal", "GoalSummaryTurn", "Wait", "Subagent"}
    MAX_PENDING_NOTIFICATIONS = 1
    MaxVersion = 0
    MaxDepth = 1
    MaxOrder = 0
SYMMETRY MCSymmetry
INVARIANT TypeOK
INVARIANT WaitDepthIsLive
INVARIANT QueueNeverStalls
INVARIANT TerminalOnce
INVARIANT EndedTurnsHaveTerminal
INVARIANT SendNowFirst
PROPERTY NoDoubleSpawn
PROPERTY SendNowFifo
CHECK_DEADLOCK FALSE
