SPECIFICATION Spec
CONSTANTS
    None = None
    c1 = c1
    c2 = c2
    OtherTask = OtherTask
    GoalTask = GoalTask
    Clients = {c1}
    Prompts <- MCPrompts
    Kind <- MCKind
    Owner <- MCOwner
    Tasks <- MCTasks
    CompletionId <- MCCompletionId
    Source <- MCSource
    GoalTurnTasks <- MCGoalTurnTasks
    UserPrompts = {u1}
    SecondClients = {}
    FallbackPrompts = {}
    WakePrompts = {w1}
    CronPrompts = {}
    DrainPrompts = {d1}
    GoalPrompts = {}
    PlanPrompts = {}
    Notifs = {n1, n2}
    NextPriority = {n1}
    GoalNotifs = {n2}
    Commands = {"Prompt", "Wait", "Consume", "InjectNotification", "DropMonitorNotifications", "cancel"}
    MAX_PENDING_NOTIFICATIONS = 1
    MaxVersion = 0
    MaxDepth = 1
    MaxOrder = 0
INVARIANT FrontIsRunning
INVARIANT UserPromptNeverDropped
INVARIANT IdleMeansDrained
PROPERTY NoDrainTurnWhileSuppressed
CHECK_DEADLOCK FALSE
