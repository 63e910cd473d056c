SPECIFICATION Spec
CONSTANTS
    None = None
    c1 = c1
    c2 = c2
    OtherTask = OtherTask
    GoalTask = GoalTask
    Clients = {c1, c2}
    Prompts <- MCPrompts
    Kind <- MCKind
    Owner <- MCOwner
    Tasks <- MCTasks
    CompletionId <- MCCompletionId
    Source <- MCSource
    GoalTurnTasks <- MCGoalTurnTasks
    UserPrompts = {u1, u2}
    SecondClients = {u2}
    FallbackPrompts = {}
    WakePrompts = {}
    CronPrompts = {k1}
    DrainPrompts = {}
    GoalPrompts = {}
    PlanPrompts = {}
    Notifs = {}
    NextPriority = {}
    GoalNotifs = {}
    Commands = {"Prompt", "RemoveQueuedPrompt", "ClearQueue", "ReorderQueue", "EditQueuedPrompt", "InterjectQueuedPrompt"}
    MAX_PENDING_NOTIFICATIONS = 1
    MaxVersion = 1
    MaxDepth = 1
    MaxOrder = 2
INVARIANT PendingIsHeld
INVARIANT MirrorIsFresh
CHECK_DEADLOCK FALSE
