--------------------------- MODULE MCSessionActor ---------------------------
(***************************************************************************)
(* SessionActor with prompts named by kind.  Each .cfg chooses how many    *)
(* prompts of each kind there are, the commands the environment sends and  *)
(* the bounds.                                                             *)
(***************************************************************************)
EXTENDS SessionActor

CONSTANTS
    UserPrompts, FallbackPrompts, WakePrompts, CronPrompts, DrainPrompts, GoalPrompts,
    PlanPrompts,
    SecondClients,  \* the user prompts of the second client
    c1, c2,         \* the clients
    OtherTask,      \* a task that wakes nobody
    GoalTask,       \* a task started by a goal turn
    GoalNotifs      \* the notifications about it

MCPrompts == UserPrompts \cup FallbackPrompts \cup WakePrompts \cup CronPrompts
                 \cup DrainPrompts \cup GoalPrompts \cup PlanPrompts

MCKind == [p \in MCPrompts |->
    CASE p \in UserPrompts     -> "user"
      [] p \in FallbackPrompts -> "fallback"
      [] p \in WakePrompts     -> "wake"
      [] p \in CronPrompts     -> "cron"
      [] p \in DrainPrompts    -> "drain"
      [] p \in GoalPrompts     -> "goal"
      [] OTHER                 -> "plan"]

MCOwner == [p \in MCPrompts |->
    IF p \notin UserPrompts THEN None ELSE IF p \in SecondClients THEN c2 ELSE c1]

\* A wake prompt stands for the task that it reports.
MCTasks == WakePrompts \cup {OtherTask, GoalTask}
MCGoalTurnTasks == {GoalTask}
MCCompletionId == [p \in MCPrompts |-> IF p \in WakePrompts THEN p ELSE None]
MCSource == [n \in Notifs |-> IF n \in GoalNotifs THEN GoalTask ELSE OtherTask]

\* User prompts of the same client are interchangeable.
MCSymmetry == Permutations(UserPrompts \ SecondClients)
=============================================================================
