SPECIFICATION FairSpec
CONSTANTS
    None = None
    c1 = c1
    c2 = c2
    OtherTask = OtherTask
    GoalTask = GoalTask
    Clients = {c1}
    Prompts <- MCPrompts
    Kind <- MCKind
    Owner <- MCOwner
    Tasks <- MCTasks
    CompletionId <- MCCompletionId
    Source <- MCSource
    GoalTurnTasks <- MCGoalTurnTasks
    UserPrompts = {u1}
    SecondClients = {}
    FallbackPrompts = {f1}
    WakePrompts = {}
    CronPrompts = {}
    DrainPrompts = {}
    GoalPrompts = {}
    PlanPrompts = {}
    Notifs = {}
    NextPriority = {}
    GoalNotifs = {}
    Commands = {"Prompt", "SendNow", "Interject", "Goal", "cancel", "rewind"}
    MAX_PENDING_NOTIFICATIONS = 1
    MaxVersion = 0
    MaxDepth = 1
    MaxOrder = 0
INVARIANT NoOrphanTurn
INVARIANT NoStrandedInterjection
PROPERTY EveryPromptIsAnswered
CHECK_DEADLOCK FALSE
