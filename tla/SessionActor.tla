---------------------------- MODULE SessionActor ----------------------------
(***************************************************************************)
(* The session actor: one prompt queue, one main loop and the tasks that   *)
(* share its state on a single-threaded LocalSet.                          *)
(*                                                                         *)
(*   - The main loop (run_session) takes one event at a time.  A handler   *)
(*     is a series of critical sections separated by awaits; `todo' holds  *)
(*     the sections still to run, and every other task may step between    *)
(*     two of them.  The loop's select! is biased: a completion is taken   *)
(*     before a command.                                                   *)
(*   - A turn task per promoted prompt (run_task), whose phases are the    *)
(*     points at which it touches shared state.  abort() only marks it;    *)
(*     its guards run when the LocalSet drops the future (TaskDrop).       *)
(*   - The MCP-initialisation task and the plan-approval task, which       *)
(*     promote the queue front on their own.                               *)
(*   - The coordinator's task of each foreground subagent, which raises    *)
(*     the wait depth when it begins, its turn being live or not.          *)
(*                                                                         *)
(* `fate', `terminals' and `history' record what clients and the           *)
(* conversation have observed of each prompt.                              *)
(***************************************************************************)
EXTENDS PromptQueue

CONSTANTS
    Notifs,                     \* background notifications; each is sent at most once
    NextPriority,               \* those with NotificationPriority::Next
    Source,                     \* Source[n]: the task notification n is about
    GoalTurnTasks,              \* goal_turn_task_ids: tasks started by a goal turn
    Commands,                   \* the SessionCommands the environment may send
    MAX_PENDING_NOTIFICATIONS,  \* cap of the two notification buffers (50 in the code)
    MaxVersion,                 \* bound on edits of one row
    MaxDepth,                   \* bound on nested interruptible waits and on subagents
    MaxOrder                    \* bound on the rows named by one reorder

ASSUME SessionConstants ==
    /\ NextPriority \subseteq Notifs
    /\ Source \in [Notifs -> Tasks]
    /\ GoalTurnTasks \subseteq Tasks
    /\ MAX_PENDING_NOTIFICATIONS \in Nat \ {0}
    /\ MaxVersion \in Nat
    /\ MaxDepth \in Nat
    /\ MaxOrder \in Nat

VARIABLES
    \* struct State, behind one mutex
    pending_inputs, running_task, rewindable,
    notifications_suppressed, pending_notifications,
    send_now,                   \* the prompts whose InputItem.send_now is set
    version,                    \* queue_meta.version of each prompt
    \* state shared through other locks and atomics
    current_prompt_id, pending_interjections, monitor_event_buffer,
    is_turn_active, blocking_wait_depth, goal_loop_active, goal_status,
    auto_wake_delivered, reported,
    \* turn tasks
    turn, aborting, completion_rx,
    waits,                      \* BlockingWaitGuards of the turn's tool calls
    \* the subagent coordinator
    spawning,                   \* turns whose foreground spawn it has not handled yet
    subagent_waits,             \* BlockingWaitGuards of its tasks
    \* main loop and helper tasks
    todo, cancel, resume, mcp, stopped,
    \* what the outside has seen
    fate, terminals, history, queue_changed

queueVars == <<pending_inputs, running_task, send_now, version, queue_changed>>
noteVars  == <<notifications_suppressed, pending_notifications, monitor_event_buffer>>
turnVars  == <<turn, aborting, waits, spawning, subagent_waits, is_turn_active,
               blocking_wait_depth, history>>
goalVars  == <<goal_loop_active, goal_status>>
wakeVars  == <<auto_wake_delivered, reported>>
loopVars  == <<todo, cancel, stopped>>
taskVars  == <<resume, mcp>>
vars == <<queueVars, noteVars, turnVars, goalVars, wakeVars, loopVars, taskVars,
          completion_rx, rewindable, current_prompt_id, pending_interjections,
          fate, terminals>>

-----------------------------------------------------------------------------
(* Values *)

\* The phases of a turn task, in the order handle_prompt goes through them.
LivePhases == {"spawned", "active", "indexed", "scoped", "winding"}
Phases == {"none", "done", "dropped"} \cup LivePhases

\* What became of a prompt: its reply, or for an interjection what was done to it.
\* A prompt that is "pending" is still owed an answer.
Fates == {"unsent", "pending", "completed", "cancelled", "rewound", "removed",
          "dropped", "consumed", "merged", "cleared"}

\* The critical sections of the main loop's handlers.
Steps == {"cancelBegin", "cancelTake", "cancelGoal", "cancelAbort", "cancelFinish",
          "unsuppress", "pauseGoal", "pop", "turnEnd", "flush", "start", "drain"}

\* The local variables of cancel_running_task.
CancelFor(why) == [why |-> why, pin |-> None, task |-> None, rewound |-> None, inputs |-> <<>>]
NoCancel == CancelFor("none")
CancelReasons == {"none", "send_now", "cancel", "kill", "rewind"}

MaybePrompt == Prompts \cup {None}
QueueWires == [rows : Seq([id : Prompts, version : Nat]), running : MaybePrompt]
CancelLocals == [why : CancelReasons, pin : MaybePrompt, task : MaybePrompt,
                 rewound : MaybePrompt, inputs : Seq(Prompts)]

-----------------------------------------------------------------------------
(* Helpers *)

\* The main loop is back in select! and no completion is waiting.
Ready == todo = <<>> /\ completion_rx = <<>> /\ ~stopped

\* The next critical section of the handler in progress is s.
At(s) == todo # <<>> /\ Head(todo) = s /\ ~stopped

Ids(P) == {CompletionId[p] : p \in P} \ {None}
Settle(f, P, outcome) == [p \in Prompts |-> IF p \in P THEN outcome ELSE f[p]]
Fresh(k) == {p \in Prompts : Kind[p] = k /\ fate[p] = "unsent"}

\* Turn tasks that still run, and those of them marked by abort().
Live(p) == turn[p] \in LivePhases /\ p \notin aborting

\* Slip: the handle is dropped, which does not abort the task.
AbortNothing(p) == aborting

Abort(p) == IF p # None /\ turn[p] \in LivePhases THEN aborting \cup {p} ELSE aborting

\* Slip: the payload is built before the edit.
BroadcastBefore(q, running) ==
    [rows |-> BuildQueueWire(pending_inputs, running_task, version), running |-> running_task]

\* broadcast_queue_changed: the payload sent to every subscriber.
Broadcast(q, running) ==
    [rows |-> BuildQueueWire(q, running, version), running |-> running]

\* Pushing onto a capped buffer drops the oldest entries.
PushCapped(s, n) ==
    LET t == Append(s, n)
    IN  IF Len(t) > MAX_PENDING_NOTIFICATIONS
        THEN SubSeq(t, Len(t) - MAX_PENDING_NOTIFICATIONS + 1, Len(t)) ELSE t

\* sweep_monitor_buffer_into_pending
SweptNotifications == pending_notifications \o monitor_event_buffer

\* Slip: a cancel no longer holds notifications back.
IdleIgnoringSuppression == running_task = None /\ pending_inputs = <<>>

\* is_session_idle_for_injection
IsSessionIdle ==
    running_task = None /\ pending_inputs = <<>> /\ ~notifications_suppressed

\* Slips: a handler forgets one of its follow-ups.
CompletionWithoutFlush == <<"pop", "turnEnd", "start", "drain">>
CompletionWithoutStart == <<"pop", "turnEnd", "flush", "drain">>
CompletionWithoutDrain == <<"pop", "turnEnd", "flush", "start">>
SendNowWithoutStart(cancels) ==
    IF cancels THEN <<"cancelBegin", "cancelTake", "cancelGoal", "cancelAbort", "cancelFinish",
                      "unsuppress">>
    ELSE <<"start">>

\* The sections that follow each event's first one.
CompletionSteps == <<"pop", "turnEnd", "flush", "start", "drain">>
CancelSteps == <<"cancelBegin", "cancelTake", "cancelGoal", "cancelAbort", "cancelFinish">>
UserCancelSteps == CancelSteps \o <<"pauseGoal", "start">>
SendNowSteps(cancels) ==
    (IF cancels THEN CancelSteps \o <<"unsuppress">> ELSE <<>>) \o <<"start">>

-----------------------------------------------------------------------------
(* Types, by owner of the state *)

QueueType ==
    /\ pending_inputs \in Seq(Prompts)
    /\ running_task \in MaybePrompt
    /\ send_now \in SUBSET Prompts
    /\ version \in [Prompts -> Nat]
    /\ queue_changed \in QueueWires

NoteType ==
    /\ notifications_suppressed \in BOOLEAN
    /\ pending_notifications \in Seq(Notifs)
    /\ monitor_event_buffer \in Seq(Notifs)

TurnType ==
    /\ turn \in [Prompts -> Phases]
    /\ aborting \in SUBSET Prompts
    /\ waits \in [Prompts -> Nat]
    /\ spawning \in SUBSET Prompts /\ subagent_waits \in Nat
    /\ is_turn_active \in BOOLEAN
    /\ blocking_wait_depth \in Nat
    /\ history \in Seq(Prompts)

GoalType ==
    /\ goal_loop_active \in BOOLEAN
    /\ goal_status \in {"none", "active", "paused", "complete"}

WakeType == auto_wake_delivered \in SUBSET Tasks /\ reported \in SUBSET Tasks

LoopType ==
    /\ todo \in Seq(Steps)
    /\ cancel \in CancelLocals
    /\ stopped \in BOOLEAN

TaskType == resume \in {"none", "parked", "start"} /\ mcp \in {"init", "done"}

SharedType ==
    /\ completion_rx \in Seq(Prompts)
    /\ rewindable \in BOOLEAN
    /\ current_prompt_id \in MaybePrompt
    /\ pending_interjections \in Seq(Prompts)

SeenType == fate \in [Prompts -> Fates] /\ terminals \in [Prompts -> Nat]

\* The actor's State and the turn task hold what their Rust types allow: prompts in
\* the queue and the slots, one place in the code per task, counters in range.
TypeOK ==
    /\ QueueType /\ NoteType /\ TurnType /\ GoalType /\ WakeType
    /\ LoopType /\ TaskType /\ SharedType /\ SeenType

Init ==
    /\ pending_inputs = <<>> /\ running_task = None /\ rewindable = FALSE
    /\ notifications_suppressed = FALSE /\ pending_notifications = <<>>
    /\ send_now = {} /\ version = [p \in Prompts |-> 0]
    /\ current_prompt_id = None /\ pending_interjections = <<>>
    /\ monitor_event_buffer = <<>> /\ is_turn_active = FALSE
    /\ blocking_wait_depth = 0 /\ goal_loop_active = FALSE /\ goal_status = "none"
    /\ auto_wake_delivered = {} /\ reported = {}
    /\ turn = [p \in Prompts |-> "none"] /\ aborting = {}
    /\ waits = [p \in Prompts |-> 0] /\ spawning = {} /\ subagent_waits = 0
    /\ completion_rx = <<>>
    /\ todo = <<>> /\ cancel = NoCancel /\ resume = "none"
    /\ mcp = IF "McpInit" \in Commands THEN "init" ELSE "done"
    /\ stopped = FALSE /\ fate = [p \in Prompts |-> "unsent"]
    /\ terminals = [p \in Prompts |-> 0] /\ history = <<>>
    /\ queue_changed = [rows |-> <<>>, running |-> None]

-----------------------------------------------------------------------------
(* Submitting a prompt *)

\* queue_input: the queued synthetic prompts that user prompt p preempts.
\* Only a queued auto-wake arms the sweep; it then takes every synthetic prompt.
Preempted(p) ==
    IF /\ ~IsSynthetic(p)
       /\ \E x \in Range(pending_inputs) : CompletionId[x] # None /\ x # running_task
    THEN Swept(pending_inputs, running_task, {x \in Prompts : IsSynthetic(x)})
    ELSE {}

\* queue_input: p runs next when it asks to, or when it is the first user prompt
\* queued while the turn blocks in an interruptible wait.
GoesNow(p, asked) ==
    /\ ~IsSynthetic(p)
    /\ \/ asked
       \/ /\ running_task # None
          /\ blocking_wait_depth > 0
          /\ ~ \E x \in Range(pending_inputs) : ~IsSynthetic(x) /\ x # running_task

\* queue_input: the caller must cancel the running turn.  A goal turn is not cancelled.
CancelsTurn(now) == now /\ running_task # None /\ ~goal_loop_active

QueueInput(p, asked) ==
    LET kept == Retain(pending_inputs, Prompts \ Preempted(p))
        now  == GoesNow(p, asked)
    IN  /\ pending_inputs' = IF now THEN InsertSendNow(kept, running_task, send_now, p)
                                    ELSE Append(kept, p)
        /\ send_now' = IF now THEN send_now \cup {p} ELSE send_now
        /\ reported' = reported \cup Ids({p})
        /\ auto_wake_delivered' =
               (auto_wake_delivered \cup Ids({p})) \ Ids(Preempted(p))
        /\ fate' = Settle([fate EXCEPT ![p] = "pending"], Preempted(p), "dropped")
        /\ queue_changed' = Broadcast(pending_inputs', running_task)
        /\ UNCHANGED <<running_task, version>>

\* What the main loop does after an edit that may have to interrupt the turn.
ThenRunNext(cancels) ==
    /\ todo' = SendNowSteps(cancels)
    /\ cancel' = IF cancels THEN CancelFor("send_now") ELSE cancel

\* SessionCommand::Prompt from a client ("user"), the pager's scheduler ("cron")
\* or the notification bridge ("wake", which also marks the task delivered).
Prompt(p, asked) ==
    /\ Ready /\ "Prompt" \in Commands
    /\ fate[p] = "unsent" /\ Kind[p] \in {"user", "cron", "wake"}
    /\ asked => Kind[p] = "user" /\ "SendNow" \in Commands
    /\ QueueInput(p, asked)
    /\ notifications_suppressed' = (notifications_suppressed /\ IsSynthetic(p))
    /\ ThenRunNext(CancelsTurn(GoesNow(p, asked)))
    /\ UNCHANGED <<turnVars, goalVars, taskVars, pending_notifications,
                   monitor_event_buffer, stopped, completion_rx, rewindable,
                   current_prompt_id, pending_interjections, terminals>>

\* SessionCommand::Interject: merged by the running turn later on, or its own turn
\* when the pin says that none is running.
Interject(p) ==
    /\ Ready /\ "Interject" \in Commands
    /\ p \in Fresh("fallback")
    /\ fate' = [fate EXCEPT ![p] = "pending"]
    /\ \/ /\ current_prompt_id # None
          /\ pending_interjections' = Append(pending_interjections, p)
          /\ UNCHANGED <<pending_inputs, send_now, todo>>
       \/ /\ current_prompt_id = None
          /\ pending_inputs' = InsertFallback(pending_inputs, running_task, p)
          /\ send_now' = send_now \cup {p}
          /\ todo' = <<"start">>
          /\ UNCHANGED pending_interjections
    /\ UNCHANGED <<noteVars, turnVars, goalVars, wakeVars, taskVars, running_task, version,
                   queue_changed, cancel, stopped, completion_rx, rewindable,
                   current_prompt_id, terminals>>

\* SessionCommand::GoalSummaryTurn
GoalSummaryTurn(p) ==
    /\ Ready /\ "GoalSummaryTurn" \in Commands
    /\ p \in Fresh("goal")
    /\ pending_inputs' = Append(pending_inputs, p)
    /\ fate' = [fate EXCEPT ![p] = "pending"]
    /\ todo' = <<"start">>
    /\ UNCHANGED <<noteVars, turnVars, goalVars, wakeVars, taskVars, running_task, send_now,
                   version, queue_changed, cancel, stopped, completion_rx, rewindable,
                   current_prompt_id, pending_interjections, terminals>>

-----------------------------------------------------------------------------
(* Edits of the shared queue by clients *)

\* is_running_prompt: the in-flight turn is never edited.
IsRunningPrompt(p) == running_task = p

\* The versioned, owner-scoped match of handle_remove_queued_prompt and
\* handle_interject_queued_prompt.
RowMatches(p, v, owner) ==
    /\ p \in Range(pending_inputs) /\ HasQueueMeta(p) /\ ~IsRunningPrompt(p)
    /\ version[p] = v
    /\ owner = None \/ Owner[p] = owner

\* An edit of the queue that leaves every other part of the actor alone.
EditsOnlyTheQueue ==
    UNCHANGED <<noteVars, turnVars, goalVars, wakeVars, taskVars, running_task, stopped,
                completion_rx, rewindable, current_prompt_id, pending_interjections,
                terminals>>

\* handle_remove_queued_prompt
RemoveQueuedPrompt(p, v, owner) ==
    /\ Ready /\ "RemoveQueuedPrompt" \in Commands
    /\ LET removed == IF RowMatches(p, v, owner) THEN {p} ELSE {}
       IN  /\ pending_inputs' = Retain(pending_inputs, Prompts \ removed)
           /\ fate' = Settle(fate, removed, "removed")
    /\ queue_changed' = Broadcast(pending_inputs', running_task)
    /\ EditsOnlyTheQueue /\ UNCHANGED <<send_now, version, todo, cancel>>

\* handle_clear_queue
ClearQueue(owner) ==
    /\ Ready /\ "ClearQueue" \in Commands
    /\ LET cleared == Clearable(pending_inputs, running_task, owner)
       IN  /\ pending_inputs' = Retain(pending_inputs, Prompts \ cleared)
           /\ fate' = Settle(fate, cleared, "removed")
    /\ queue_changed' = Broadcast(pending_inputs', running_task)
    /\ EditsOnlyTheQueue /\ UNCHANGED <<send_now, version, todo, cancel>>

\* handle_reorder_queue
ReorderQueue(order) ==
    /\ Ready /\ "ReorderQueue" \in Commands
    /\ pending_inputs' = Reordered(pending_inputs, running_task, order)
    /\ queue_changed' = Broadcast(pending_inputs', running_task)
    /\ EditsOnlyTheQueue /\ UNCHANGED <<send_now, version, fate, todo, cancel>>

\* handle_edit_queued_prompt.  Other cases return before the broadcast.
EditQueuedPrompt(p) ==
    /\ Ready /\ "EditQueuedPrompt" \in Commands
    /\ p \in Range(pending_inputs) /\ HasQueueMeta(p) /\ ~IsRunningPrompt(p)
    /\ version[p] < MaxVersion
    /\ version' = [version EXCEPT ![p] = @ + 1]
    /\ queue_changed' = [rows |-> BuildQueueWire(pending_inputs, running_task, version'),
                         running |-> running_task]
    /\ EditsOnlyTheQueue /\ UNCHANGED <<pending_inputs, send_now, fate, todo, cancel>>

\* handle_interject_queued_prompt: promote a queued row to run next.
InterjectQueuedPrompt(p, v, owner, edited) ==
    /\ Ready /\ "InterjectQueuedPrompt" \in Commands
    /\ edited => version[p] < MaxVersion
    /\ LET rest == Retain(pending_inputs, Prompts \ {p})
       IN  IF RowMatches(p, v, owner)
           THEN /\ pending_inputs' = InsertSendNow(rest, running_task, send_now, p)
                /\ send_now' = send_now \cup {p}
                /\ version' = IF edited THEN [version EXCEPT ![p] = @ + 1] ELSE version
                /\ ThenRunNext(CancelsTurn(TRUE))
           ELSE /\ ThenRunNext(FALSE)
                /\ UNCHANGED <<pending_inputs, send_now, version>>
    /\ queue_changed' = [rows |-> BuildQueueWire(pending_inputs', running_task, version'),
                         running |-> running_task]
    /\ EditsOnlyTheQueue /\ UNCHANGED fate

-----------------------------------------------------------------------------
(* Promotion of the queue front *)

\* maybe_start_running_task
MaybeStartRunningTask ==
    IF running_task = None /\ pending_inputs # <<>>
    THEN LET p == Head(pending_inputs)
         IN  /\ running_task' = p
             /\ current_prompt_id' = p
             /\ rewindable' = TRUE
             /\ turn' = [turn EXCEPT ![p] = "spawned"]
             /\ queue_changed' = Broadcast(pending_inputs, p)
    ELSE UNCHANGED <<running_task, current_prompt_id, rewindable, turn, queue_changed>>

AfterStart ==
    UNCHANGED <<noteVars, goalVars, wakeVars, pending_inputs, send_now, version, aborting,
                waits, spawning, subagent_waits, is_turn_active, blocking_wait_depth,
                history, cancel, stopped, completion_rx, pending_interjections, fate,
                terminals>>

\* The last section of most handlers.
StartStep ==
    /\ At("start") /\ todo' = Tail(todo)
    /\ MaybeStartRunningTask /\ AfterStart /\ UNCHANGED taskVars

\* The task run_session spawns to initialise MCP tools ends with a promotion.
McpInitialized ==
    /\ mcp = "init" /\ ~stopped /\ mcp' = "done"
    /\ MaybeStartRunningTask /\ AfterStart /\ UNCHANGED <<resume, todo>>

\* SessionCommand::RestorePlanApproval spawns a task that waits for the user.
RestorePlanApproval ==
    /\ Ready /\ "RestorePlanApproval" \in Commands
    /\ resume = "none" /\ resume' = "parked"
    /\ UNCHANGED <<queueVars, noteVars, turnVars, goalVars, wakeVars, loopVars, mcp,
                   completion_rx, rewindable, current_prompt_id, pending_interjections,
                   fate, terminals>>

\* resume_plan_approval, ResumeAction::LeaveOnly or a failed reverse request
PlanAbandoned ==
    /\ resume = "parked" /\ ~stopped /\ resume' = "none"
    /\ UNCHANGED <<queueVars, noteVars, turnVars, goalVars, wakeVars, loopVars, mcp,
                   completion_rx, rewindable, current_prompt_id, pending_interjections,
                   fate, terminals>>

\* start_resume_turn queues a synthetic prompt and then promotes, without the main loop.
PlanResumeQueued(p) ==
    /\ resume = "parked" /\ ~stopped /\ resume' = "start"
    /\ p \in Fresh("plan")
    /\ QueueInput(p, FALSE)
    /\ UNCHANGED <<noteVars, turnVars, goalVars, loopVars, mcp, completion_rx, rewindable,
                   current_prompt_id, pending_interjections, terminals>>

PlanResumeStarted ==
    /\ resume = "start" /\ ~stopped /\ resume' = "none"
    /\ MaybeStartRunningTask /\ AfterStart /\ UNCHANGED <<mcp, todo>>

-----------------------------------------------------------------------------
(* The end of a turn *)

\* Slip: the end of a turn leaves the pin behind.
PinKept(p) == current_prompt_id

\* The pin is released only by the prompt that holds it.
PinWithout(p) == IF current_prompt_id = p THEN None ELSE current_prompt_id

\* Slips: a stale completion is treated like the running turn's.
AlwaysFreesSlot(p, owned) == TRUE
AlwaysEmitsTerminal(owned) == TRUE

\* handle_completion: a stale completion must not free the promoted turn's slot.
FreesSlot(p, owned) == running_task = p \/ owned

\* handle_completion: only the completion that pops the front ends the turn for clients.
EmitsTerminal(owned) == owned

\* The completion arm of the main loop: handle_completion up to the state lock.  The
\* completion in hand stays at the head of completion_rx until its section below.
Completion ==
    /\ todo = <<>> /\ completion_rx # <<>> /\ ~stopped
    /\ LET pin == PinWithout(Head(completion_rx))
       IN  /\ current_prompt_id' = pin
           /\ goal_loop_active' = (goal_loop_active /\ pin # None)
    /\ todo' = CompletionSteps
    /\ UNCHANGED <<queueVars, noteVars, turnVars, wakeVars, taskVars, goal_status, cancel,
                   stopped, completion_rx, rewindable, pending_interjections, fate,
                   terminals>>

\* handle_completion under the state lock, its TurnCompleted, and
\* drain_monitor_buffer_to_pending
PopCompleted ==
    /\ At("pop") /\ todo' = Tail(todo)
    /\ LET p == Head(completion_rx)
           owned == pending_inputs # <<>> /\ Head(pending_inputs) = p
       IN  /\ pending_inputs' = IF owned THEN Tail(pending_inputs) ELSE pending_inputs
           /\ fate' = IF owned THEN [fate EXCEPT ![p] = "completed"] ELSE fate
           /\ running_task' = IF FreesSlot(p, owned) THEN None ELSE running_task
           /\ queue_changed' = IF owned /\ HasQueueMeta(p)
                               THEN Broadcast(pending_inputs', running_task')
                               ELSE queue_changed
           /\ terminals' = IF EmitsTerminal(owned)
                           THEN [terminals EXCEPT ![p] = @ + 1] ELSE terminals
    /\ pending_notifications' = SweptNotifications /\ monitor_event_buffer' = <<>>
    /\ completion_rx' = Tail(completion_rx)
    /\ UNCHANGED <<turnVars, wakeVars, taskVars, goalVars, send_now, version,
                   notifications_suppressed, cancel, stopped, rewindable, current_prompt_id,
                   pending_interjections>>

\* A section that only moves the main loop on, but for what the action says itself.
GoalStep ==
    /\ todo' = Tail(todo)
    /\ UNCHANGED <<noteVars, turnVars, wakeVars, taskVars, running_task, send_now, version,
                   queue_changed, goal_loop_active, cancel, stopped, completion_rx,
                   rewindable, current_prompt_id, pending_interjections, terminals>>

\* handle_turn_end without an active goal, or one it neither continues nor pauses.
TurnEnd ==
    /\ At("turnEnd") /\ GoalStep
    /\ UNCHANGED <<pending_inputs, goal_status, fate>>

\* maybe_queue_goal_continuation: at most one continuation is queued.
TurnEndContinuesGoal(p) ==
    /\ At("turnEnd") /\ goal_status = "active"
    /\ p \in Fresh("goal") /\ \A x \in Range(pending_inputs) : Kind[x] # "goal"
    /\ pending_inputs' = Append(pending_inputs, p)
    /\ fate' = [fate EXCEPT ![p] = "pending"]
    /\ GoalStep /\ UNCHANGED goal_status

\* The back-off and token-budget pauses of handle_turn_end, the infrastructure pause
\* before it, and auto_pause_goal_if_active after a user's cancel.
TurnEndPausesGoal ==
    /\ At("turnEnd") /\ goal_status = "active"
    /\ goal_status' = "paused"
    /\ GoalStep /\ UNCHANGED <<pending_inputs, fate>>

PauseGoal ==
    /\ At("pauseGoal")
    /\ goal_status' = IF goal_status = "active" THEN "paused" ELSE goal_status
    /\ GoalStep /\ UNCHANGED <<pending_inputs, fate>>

\* flush_stranded_interjections
FlushStranded ==
    /\ At("flush") /\ todo' = Tail(todo)
    /\ pending_inputs' = InsertAllFallbacks(pending_inputs, running_task, pending_interjections)
    /\ send_now' = send_now \cup Range(pending_interjections)
    /\ pending_interjections' = <<>>
    /\ UNCHANGED <<noteVars, turnVars, goalVars, wakeVars, taskVars, running_task, version,
                   queue_changed, cancel, stopped, completion_rx, rewindable,
                   current_prompt_id, fate, terminals>>

-----------------------------------------------------------------------------
(* Cancelling the running turn *)

\* SessionCommand::Cancel: an interactive cancel, a subagent teardown that kills
\* background tasks, or a cancel that takes a still pristine prompt back.
Cancel(why) ==
    /\ Ready /\ why \in Commands /\ why \in {"cancel", "kill", "rewind"}
    /\ todo' = UserCancelSteps
    /\ cancel' = CancelFor(why)
    /\ UNCHANGED <<queueVars, noteVars, turnVars, goalVars, wakeVars, taskVars, stopped,
                   completion_rx, rewindable, current_prompt_id, pending_interjections,
                   fate, terminals>>

\* The buffered interjections are cleared and the pin is read before the first await.
CancelBegin ==
    /\ At("cancelBegin") /\ todo' = Tail(todo)
    /\ fate' = Settle(fate, Range(pending_interjections), "cleared")
    /\ pending_interjections' = <<>>
    /\ cancel' = [cancel EXCEPT !.pin = current_prompt_id]
    /\ UNCHANGED <<queueVars, noteVars, turnVars, goalVars, wakeVars, taskVars, stopped,
                   completion_rx, rewindable, current_prompt_id, terminals>>

\* The items a cancel resolves: all of them on teardown, else the front, which is the
\* running turn's slot.
CancelledInputs(why) ==
    IF why = "kill" \/ pending_inputs = <<>> THEN pending_inputs ELSE <<Head(pending_inputs)>>

\* The section of cancel_running_task under the state lock.
CancelTake ==
    /\ At("cancelTake") /\ todo' = Tail(todo)
    /\ LET rewinds == cancel.why = "rewind" /\ rewindable /\ pending_inputs # <<>>
           inputs  == CancelledInputs(cancel.why)
       IN  /\ pending_inputs' = IF rewinds THEN Tail(pending_inputs)
                                ELSE SubSeq(pending_inputs, Len(inputs) + 1, Len(pending_inputs))
           /\ aborting' = IF rewinds THEN Abort(running_task) ELSE aborting
           /\ notifications_suppressed' = ~rewinds
           /\ cancel' = IF rewinds
                        THEN [cancel EXCEPT !.rewound = Head(pending_inputs)]
                        ELSE [cancel EXCEPT !.task = running_task, !.inputs = inputs]
    /\ running_task' = None
    /\ rewindable' = (rewindable /\ cancel.why # "rewind")
    /\ pending_notifications' = IF cancel.why = "kill" THEN <<>> ELSE SweptNotifications
    /\ monitor_event_buffer' = <<>>
    /\ UNCHANGED <<goalVars, wakeVars, taskVars, send_now, version, queue_changed, turn,
                   waits, spawning, subagent_waits, is_turn_active, blocking_wait_depth,
                   history, stopped, completion_rx, current_prompt_id,
                   pending_interjections, fate, terminals>>

\* The goal gate is cleared while the cancelled turn may still run.
CancelGoal ==
    /\ At("cancelGoal") /\ todo' = Tail(todo)
    /\ goal_loop_active' = FALSE
    /\ UNCHANGED <<queueVars, noteVars, turnVars, wakeVars, taskVars, goal_status, cancel,
                   stopped, completion_rx, rewindable, current_prompt_id,
                   pending_interjections, fate, terminals>>

\* Slip: the depth of the aborted turn is left to its guards.
DepthKept == blocking_wait_depth

\* Guards of the aborted turn drop later on; the depth is reset for the next turn.
DepthAfterAbort == 0

CancelAbort ==
    /\ At("cancelAbort") /\ todo' = Tail(todo)
    /\ aborting' = Abort(cancel.task)
    /\ blocking_wait_depth' = DepthAfterAbort
    /\ UNCHANGED <<queueVars, noteVars, goalVars, wakeVars, taskVars, turn, waits,
                   spawning, subagent_waits, is_turn_active, history, cancel, stopped,
                   completion_rx, rewindable, current_prompt_id, pending_interjections,
                   fate, terminals>>

\* Slip: the terminal is keyed on the pin alone.
PinnedPromptId(task, pin) == pin

\* The task that was torn down names the cancelled turn; the pin is the fallback.
CancelledPromptId(task, pin) == IF task # None THEN task ELSE pin

\* The rest of cancel_running_task.  A rewind cuts the last prompt out of the
\* conversation and emits no terminal.
CancelFinish ==
    /\ At("cancelFinish") /\ todo' = Tail(todo)
    /\ current_prompt_id' = None
    /\ cancel' = NoCancel
    /\ LET id == CancelledPromptId(cancel.task, cancel.pin)
       IN  IF cancel.rewound # None
           THEN /\ history' = SubSeq(history, 1, Len(history) - 1)
                /\ fate' = [fate EXCEPT ![cancel.rewound] = "rewound"]
                /\ UNCHANGED <<terminals, auto_wake_delivered>>
           ELSE /\ terminals' = IF id # None THEN [terminals EXCEPT ![id] = @ + 1] ELSE terminals
                /\ auto_wake_delivered' = auto_wake_delivered \ Ids(Range(cancel.inputs))
                /\ fate' = Settle(fate, Range(cancel.inputs), "cancelled")
                /\ UNCHANGED history
    /\ UNCHANGED <<queueVars, noteVars, goalVars, taskVars, turn, aborting, waits,
                   spawning, subagent_waits, is_turn_active, blocking_wait_depth,
                   reported, stopped, completion_rx, rewindable, pending_interjections>>

\* cancel_turn_for_send_now: the user is re-engaged, so drains are allowed again.
Unsuppress ==
    /\ At("unsuppress") /\ todo' = Tail(todo)
    /\ notifications_suppressed' = FALSE
    /\ UNCHANGED <<queueVars, turnVars, goalVars, wakeVars, taskVars, pending_notifications,
                   monitor_event_buffer, cancel, stopped, completion_rx, rewindable,
                   current_prompt_id, pending_interjections, fate, terminals>>

-----------------------------------------------------------------------------
(* Background notifications *)

NotificationStep ==
    UNCHANGED <<goalVars, wakeVars, taskVars, turnVars, queueVars, notifications_suppressed,
                cancel, stopped, completion_rx, rewindable, current_prompt_id,
                pending_interjections, fate, terminals>>

\* SessionCommand::InjectNotification.  Bounds of the model: a notification is not
\* buffered twice, and a drain prompt must be left for the batch it joins.
InjectNotification(n) ==
    /\ Ready /\ "InjectNotification" \in Commands
    /\ n \notin Range(pending_notifications) \cup Range(monitor_event_buffer)
    /\ Fresh("drain") # {}
    /\ IF is_turn_active /\ n \in NextPriority
       THEN /\ monitor_event_buffer' = PushCapped(monitor_event_buffer, n)
            /\ UNCHANGED <<pending_notifications, todo>>
       ELSE /\ pending_notifications' = PushCapped(pending_notifications, n)
            /\ todo' = <<"drain">>
            /\ UNCHANGED monitor_event_buffer
    /\ NotificationStep

\* SessionCommand::DropMonitorNotifications, when a monitor's completion wakes the session
DropMonitorNotifications(t) ==
    /\ Ready /\ "DropMonitorNotifications" \in Commands
    /\ LET others == {n \in Notifs : Source[n] # t}
       IN  /\ pending_notifications' =
                  Retain(pending_notifications, others \cup (Notifs \ NextPriority))
           /\ monitor_event_buffer' = Retain(monitor_event_buffer, others)
    /\ UNCHANGED todo
    /\ NotificationStep

\* split_goal_suppressed: while a goal is active or complete, and for tasks of a goal
\* turn, completions are consumed without a turn.
Surfaced(notes) ==
    IF goal_status \in {"active", "complete"} THEN {}
    ELSE {n \in Range(notes) : Source[n] \notin GoalTurnTasks}

\* drain_notifications_into_turn: all of them become one queued prompt.
DrainIntoTurn ==
    \E p \in Fresh("drain") :
        /\ pending_inputs' = Append(pending_inputs, p)
        /\ fate' = [fate EXCEPT ![p] = "pending"]

\* maybe_drain_notifications
DrainStep ==
    /\ At("drain")
    /\ \/ /\ ~IsSessionIdle
          /\ todo' = Tail(todo)
          /\ UNCHANGED <<pending_inputs, pending_notifications, monitor_event_buffer,
                         reported, fate>>
       \/ /\ IsSessionIdle
          /\ pending_notifications' = <<>> /\ monitor_event_buffer' = <<>>
          /\ reported' = reported \cup {Source[n] : n \in Range(SweptNotifications)}
          /\ \/ /\ Surfaced(SweptNotifications) = {}
                /\ todo' = Tail(todo)
                /\ UNCHANGED <<pending_inputs, fate>>
             \/ /\ Surfaced(SweptNotifications) # {}
                /\ DrainIntoTurn
                /\ todo' = <<"start">> \o Tail(todo)
    /\ UNCHANGED <<turnVars, goalVars, taskVars, running_task, send_now, version,
                   queue_changed, notifications_suppressed, auto_wake_delivered, cancel,
                   stopped, completion_rx, rewindable, current_prompt_id,
                   pending_interjections, terminals>>

-----------------------------------------------------------------------------
(* Turn tasks *)

\* What a step of a turn task leaves to the main loop.
TurnStep ==
    /\ ~stopped
    /\ UNCHANGED <<wakeVars, loopVars, taskVars, running_task, send_now, version,
                   queue_changed, notifications_suppressed, terminals>>

\* handle_prompt begins: TurnActiveGuard::activate.
TurnBegin(p) ==
    /\ Live(p) /\ turn[p] = "spawned"
    /\ turn' = [turn EXCEPT ![p] = "active"]
    /\ is_turn_active' = TRUE
    /\ TurnStep
    /\ UNCHANGED <<goalVars, pending_inputs, pending_notifications, monitor_event_buffer,
                   aborting, waits, spawning, subagent_waits, blocking_wait_depth,
                   history, completion_rx, rewindable, current_prompt_id,
                   pending_interjections, fate>>

\* increment_prompt_index, after the awaits of the turn's preamble
TurnIndex(p) ==
    /\ Live(p) /\ turn[p] = "active"
    /\ turn' = [turn EXCEPT ![p] = "indexed"]
    /\ history' = Append(history, p)
    /\ TurnStep
    /\ UNCHANGED <<goalVars, pending_inputs, pending_notifications, monitor_event_buffer,
                   aborting, waits, spawning, subagent_waits, is_turn_active,
                   blocking_wait_depth, completion_rx, rewindable, current_prompt_id,
                   pending_interjections, fate>>

\* The head of the turn's loop, entered under the scope guard and again for every
\* round of a goal: the goal gate follows the tracker.
TurnRound(p) ==
    /\ Live(p) /\ turn[p] \in {"indexed", "scoped"}
    /\ turn' = [turn EXCEPT ![p] = "scoped"]
    /\ goal_loop_active' = (goal_status = "active")
    /\ TurnStep
    /\ UNCHANGED <<pending_inputs, pending_notifications, monitor_event_buffer,
                   goal_status, aborting, waits, spawning, subagent_waits, is_turn_active,
                   blocking_wait_depth, history, completion_rx, rewindable,
                   current_prompt_id, pending_interjections, fate>>

\* The goal tools and slash commands of a turn change the goal's status.
TurnSetsGoal(p, s) ==
    /\ Live(p) /\ "Goal" \in Commands
    /\ \/ s = "active" /\ turn[p] \in {"active", "scoped"} /\ goal_status \in {"none", "paused"}
       \/ s \in {"paused", "complete"} /\ turn[p] = "scoped" /\ goal_status = "active"
    /\ goal_status' = s
    /\ TurnStep
    /\ UNCHANGED <<turnVars, pending_inputs, pending_notifications, monitor_event_buffer,
                   goal_loop_active, completion_rx, rewindable, current_prompt_id,
                   pending_interjections, fate>>

\* send_update_full: the first outbound event ends the pristine window.
CloseRewindWindow(p) ==
    /\ Live(p) /\ turn[p] # "spawned" /\ rewindable
    /\ rewindable' = FALSE
    /\ TurnStep
    /\ UNCHANGED <<turnVars, goalVars, pending_inputs, pending_notifications,
                   monitor_event_buffer, completion_rx, current_prompt_id,
                   pending_interjections, fate>>

\* drain_pending_interjections
DrainInterjections(p) ==
    /\ Live(p) /\ turn[p] = "scoped" /\ pending_interjections # <<>>
    /\ pending_interjections' = <<>>
    /\ fate' = Settle(fate, Range(pending_interjections), "merged")
    /\ TurnStep
    /\ UNCHANGED <<turnVars, goalVars, pending_inputs, pending_notifications,
                   monitor_event_buffer, completion_rx, rewindable, current_prompt_id>>

\* inject_pending_monitor_events
InjectMonitorEvents(p) ==
    /\ Live(p) /\ turn[p] = "scoped" /\ monitor_event_buffer # <<>>
    /\ monitor_event_buffer' = <<>>
    /\ TurnStep
    /\ UNCHANGED <<turnVars, goalVars, pending_inputs, pending_notifications, completion_rx,
                   rewindable, current_prompt_id, pending_interjections, fate>>

\* Slip: is_none_or for is_some_and.
ConsumedOrUnnamed(t) == {x \in Prompts : CompletionId[x] \in {t, None}}

\* The predicate of drop_pending_items_for_consumed_completions.
ConsumedBy(t) == {x \in Prompts : CompletionId[x] = t}

\* drop_pending_items_for_consumed_completions: a tool result told the model about task t.
ConsumeCompletion(p, t) ==
    /\ Live(p) /\ turn[p] = "scoped" /\ "Consume" \in Commands
    /\ LET gone == Swept(pending_inputs, running_task, ConsumedBy(t))
       IN  /\ pending_inputs' = Retain(pending_inputs, Prompts \ gone)
           /\ fate' = Settle(fate, gone, "consumed")
    /\ pending_notifications' =
           Retain(pending_notifications, {n \in Notifs : Source[n] # t})
    /\ TurnStep
    /\ UNCHANGED <<turnVars, goalVars, monitor_event_buffer, completion_rx, rewindable,
                   current_prompt_id, pending_interjections>>

\* What a step on the wait guards leaves alone.
WaitStep ==
    /\ TurnStep
    /\ UNCHANGED <<goalVars, pending_inputs, pending_notifications, monitor_event_buffer,
                   turn, aborting, is_turn_active, history, completion_rx, rewindable,
                   current_prompt_id, pending_interjections, fate>>

\* BlockingWaitGuard::enter around an interruptible wait of the turn's tool call
WaitEnter(p) ==
    /\ Live(p) /\ turn[p] = "scoped" /\ "Wait" \in Commands
    /\ waits[p] < MaxDepth
    /\ waits' = [waits EXCEPT ![p] = @ + 1]
    /\ blocking_wait_depth' = blocking_wait_depth + 1
    /\ WaitStep
    /\ UNCHANGED <<spawning, subagent_waits>>

\* Slip: a plain decrement.
WrappingDec(n) == n - 1

\* The atomic decrement of the guard stops at zero.
SaturatingDec(n) == IF n = 0 THEN 0 ELSE n - 1

\* BlockingWaitGuard::drop, by a live turn or late by the tool futures of an aborted one
WaitExit(p) ==
    /\ waits[p] > 0
    /\ waits' = [waits EXCEPT ![p] = @ - 1]
    /\ blocking_wait_depth' = SaturatingDec(blocking_wait_depth)
    /\ WaitStep
    /\ UNCHANGED <<spawning, subagent_waits>>

\* A tool call sends SubagentEvent::Spawn for a foreground subagent.
SubagentRequest(p) ==
    /\ Live(p) /\ turn[p] = "scoped" /\ "Subagent" \in Commands
    /\ p \notin spawning /\ subagent_waits < MaxDepth
    /\ spawning' = spawning \cup {p}
    /\ WaitStep
    /\ UNCHANGED <<waits, subagent_waits, blocking_wait_depth>>

\* handle_subagent_request begins, in a task of the coordinator and several awaits
\* later: it enters a guard whether or not the turn that asked still runs.
SubagentEnter(p) ==
    /\ p \in spawning
    /\ spawning' = spawning \ {p}
    /\ subagent_waits' = subagent_waits + 1
    /\ blocking_wait_depth' = blocking_wait_depth + 1
    /\ WaitStep
    /\ UNCHANGED waits

\* The guard is dropped when the subagent is done, moves to the background or finds
\* that the turn has gone.
SubagentExit ==
    /\ subagent_waits > 0
    /\ subagent_waits' = subagent_waits - 1
    /\ blocking_wait_depth' = SaturatingDec(blocking_wait_depth)
    /\ WaitStep
    /\ UNCHANGED <<waits, spawning>>

\* TurnSubagentScopeGuard::drop at the end of the turn's loop
TurnScopeEnd(p) ==
    /\ Live(p) /\ turn[p] = "scoped" /\ waits[p] = 0 /\ p \notin spawning
    /\ turn' = [turn EXCEPT ![p] = "winding"]
    /\ current_prompt_id' = PinWithout(p)
    /\ TurnStep
    /\ UNCHANGED <<goalVars, pending_inputs, pending_notifications, monitor_event_buffer,
                   aborting, waits, spawning, subagent_waits, is_turn_active,
                   blocking_wait_depth, history, completion_rx, rewindable,
                   pending_interjections, fate>>

\* handle_prompt returns, from its end or from one of its early returns, and run_task
\* sends the completion.
TurnFinish(p) ==
    /\ Live(p) /\ turn[p] \in {"active", "indexed", "winding"}
    /\ turn' = [turn EXCEPT ![p] = "done"]
    /\ is_turn_active' = FALSE
    /\ completion_rx' = Append(completion_rx, p)
    /\ TurnStep
    /\ UNCHANGED <<goalVars, pending_inputs, pending_notifications, monitor_event_buffer,
                   aborting, waits, spawning, subagent_waits, blocking_wait_depth,
                   history, rewindable, current_prompt_id, pending_interjections, fate>>

\* The LocalSet drops the future of an aborted turn, and with it the guards it holds.
TaskDrop(p) ==
    /\ p \in aborting
    /\ aborting' = aborting \ {p}
    /\ turn' = [turn EXCEPT ![p] = "dropped"]
    /\ is_turn_active' = (is_turn_active /\ turn[p] = "spawned")
    /\ current_prompt_id' = IF turn[p] = "scoped" THEN PinWithout(p) ELSE current_prompt_id
    /\ TurnStep
    /\ UNCHANGED <<goalVars, pending_inputs, pending_notifications, monitor_event_buffer,
                   waits, spawning, subagent_waits, blocking_wait_depth, history,
                   completion_rx, rewindable, pending_interjections, fate>>

-----------------------------------------------------------------------------
(* SessionCommand::Shutdown: drop_pending_synthetic_items, then the loop returns. *)
Shutdown ==
    /\ Ready /\ "Shutdown" \in Commands
    /\ LET synthetic == {p \in Range(pending_inputs) : IsSynthetic(p)}
       IN  /\ pending_inputs' = Retain(pending_inputs, Prompts \ synthetic)
           /\ fate' = Settle(fate, synthetic, "dropped")
    /\ pending_notifications' = <<>>
    /\ stopped' = TRUE
    /\ UNCHANGED <<turnVars, goalVars, wakeVars, taskVars, running_task, send_now,
                   version, queue_changed, notifications_suppressed, monitor_event_buffer,
                   todo, cancel, completion_rx, rewindable, current_prompt_id,
                   pending_interjections, terminals>>

-----------------------------------------------------------------------------
\* Orders a client may ask for: any arrangement of some of the prompts.  A repeated id
\* ranks at its first place, so lists without repetition are all there is.
Orders == {s \in UNION {[1 .. n -> Prompts] : n \in 0 .. MaxOrder} : IsInjective(s)}

QueueCommand ==
    \/ \E p \in Prompts, owner \in Clients \cup {None}, v \in 0 .. MaxVersion :
           \/ RemoveQueuedPrompt(p, v, owner)
           \/ \E edited \in BOOLEAN : InterjectQueuedPrompt(p, v, owner, edited)
    \/ \E owner \in Clients \cup {None} : ClearQueue(owner)
    \/ \E order \in Orders : ReorderQueue(order)
    \/ \E p \in Prompts : EditQueuedPrompt(p)

Command ==
    \/ \E p \in Prompts, asked \in BOOLEAN : Prompt(p, asked)
    \/ \E p \in Prompts : Interject(p) \/ GoalSummaryTurn(p)
    \/ QueueCommand
    \/ RestorePlanApproval
    \/ \E why \in CancelReasons : Cancel(why)
    \/ \E n \in Notifs : InjectNotification(n)
    \/ \E t \in Tasks : DropMonitorNotifications(t)
    \/ Shutdown

\* The sections a handler in progress goes through, and the completion arm.
MainLoop ==
    \/ Completion \/ PopCompleted
    \/ TurnEnd \/ TurnEndPausesGoal \/ PauseGoal
    \/ \E p \in Prompts : TurnEndContinuesGoal(p)
    \/ FlushStranded \/ StartStep \/ DrainStep
    \/ CancelBegin \/ CancelTake \/ CancelGoal \/ CancelAbort \/ CancelFinish
    \/ Unsuppress

HelperTask ==
    \/ McpInitialized
    \/ PlanAbandoned
    \/ \E p \in Prompts : PlanResumeQueued(p)
    \/ PlanResumeStarted

\* The steps of turn p before and after its loop, and its end when it is aborted.
TurnProgress(p) ==
    \/ TurnBegin(p) \/ TurnIndex(p) \/ TurnFinish(p)
    \/ TaskDrop(p)

Turn(p) ==
    \/ TurnProgress(p)
    \/ TurnRound(p) \/ TurnScopeEnd(p)
    \/ CloseRewindWindow(p) \/ DrainInterjections(p) \/ InjectMonitorEvents(p)
    \/ WaitEnter(p) \/ WaitExit(p)
    \/ SubagentRequest(p) \/ SubagentEnter(p) \/ SubagentExit
    \/ \E s \in {"active", "paused", "complete"} : TurnSetsGoal(p, s)
    \/ \E t \in Tasks : ConsumeCompletion(p, t)

Next == Command \/ MainLoop \/ HelperTask \/ \E p \in Prompts : Turn(p)

Spec == Init /\ [][Next]_vars

\* Fairness.  The runtime keeps polling the actor and its tasks.  Nothing is assumed of
\* clients, nor of a turn in its loop: it may wait for the user or for the model for
\* ever.
Fairness ==
    /\ WF_vars(MainLoop)
    /\ WF_vars(McpInitialized) /\ WF_vars(PlanResumeStarted)
    /\ \A p \in Prompts : WF_vars(TurnProgress(p))

FairSpec == Spec /\ Fairness

-----------------------------------------------------------------------------
(* Properties of the queue *)

\* "The in-flight turn is always pending_inputs.front()" (tasks_cancel.rs): every
\* positional rule of the actor, cancel's resolve-front and the completion's pop
\* among them, relies on it while the loop runs.
FrontIsRunning ==
    ~stopped /\ running_task # None =>
        pending_inputs # <<>> /\ Head(pending_inputs) = running_task

\* A prompt that is owed an answer is held in exactly one place: the queue, the
\* interjection buffer, or the locals of the cancel in progress; and nothing else is.
Held == Range(pending_inputs) \cup Range(pending_interjections)
            \cup Range(cancel.inputs) \cup ({cancel.rewound} \ {None})
PendingIsHeld ==
    ~stopped =>
        /\ {p \in Prompts : fate[p] = "pending"} = Held
        /\ Cardinality(Held) = Len(pending_inputs) + Len(pending_interjections)
                                   + Len(cancel.inputs)
                                   + Cardinality({cancel.rewound} \ {None})

\* A message the user typed is never discarded by a sweep of synthetic prompts: not by
\* a preemption, not for a completion that a tool result has consumed, not at shutdown.
SweptFates == {"dropped", "consumed"}
UserPromptNeverDropped ==
    \A p \in Prompts : fate[p] \in SweptFates => IsSynthetic(p)

\* Whenever the main loop rests, a queued prompt has a turn running in front of it:
\* no handler forgets to promote.
QueueNeverStalls ==
    Ready /\ resume # "start" /\ pending_inputs # <<>> => running_task # None

\* Send-now prompts run before everything that was queued for later, as long as no
\* client reorders the rows.
SendNowFirst ==
    LET q == pending_inputs
        r == RunningSlot(q, running_task)
    IN  \A i, j \in r + 1 .. Len(q) : i < j /\ q[j] \in send_now => q[i] \in send_now

\* Send-now prompts that stack up keep the order they were sent in, whatever else is
\* queued, removed or cancelled meanwhile: a new row goes behind those already there.  (An
\* interjection that no turn merged goes in front of them; it is no row.)
Before(q, x, y) == \E i, j \in DOMAIN q : i < j /\ q[i] = x /\ q[j] = y
SendNowFifo ==
    [][\A x, y \in Range(pending_inputs') \cap send_now' :
           /\ x \in Range(pending_inputs) \cap send_now
           /\ \/ HasQueueMeta(y) /\ y \notin Range(pending_inputs) \cap send_now
              \/ Before(pending_inputs, x, y)
           => Before(pending_inputs', x, y)]_vars

\* Whenever the main loop rests, the rows last broadcast are the rows queued, at their
\* current versions: a client that mirrors them can address each by id and version.
MirrorIsFresh ==
    Ready => queue_changed.rows = BuildQueueWire(pending_inputs, running_task, version)

-----------------------------------------------------------------------------
(* Properties of turns *)

\* A prompt is spawned once, whatever completions and cancels cross each other.
NoDoubleSpawn ==
    [][\A p \in Prompts : turn[p] \notin {"none", "spawned"} => turn'[p] # "spawned"]_vars

\* Every turn task that still runs is the session's running turn or the one the cancel
\* in progress is about to abort: none is left behind.
NoOrphanTurn ==
    \A p \in Prompts : Live(p) => p \in {running_task, cancel.task}

\* The durable TurnCompleted of a prompt is emitted at most once.
TerminalOnce == \A p \in Prompts : terminals[p] <= 1

\* When the main loop rests, every turn that ended has its TurnCompleted, unless its
\* prompt was taken back: a client that replays the session does not wait for ever.
EndedTurnsHaveTerminal ==
    Ready => \A p \in Prompts :
        turn[p] \in {"done", "dropped"} /\ fate[p] # "rewound" => terminals[p] = 1

\* The debug_assert! of cancel_running_task: the pin read before its awaits and the
\* task found under the lock do not name different turns.
PinAgreesAtCancel ==
    At("cancelTake") =>
        cancel.pin = None \/ running_task = None \/ cancel.pin = running_task

\* When the main loop rests with no turn running, no interjection waits for one.
NoStrandedInterjection ==
    Ready /\ running_task = None => pending_interjections = <<>>

\* When the main loop rests, the wait depth counts guards of the running turn's tool
\* calls and of foreground subagents that still hold theirs, and no guard of a turn
\* already cancelled or ended: those were zeroed, and their late drops never leave a
\* count behind.  (A subagent that enters its guard after the cancel of its turn does
\* count: a prompt that is queued then interrupts the next turn.)
RunningWaits == IF running_task = None THEN 0 ELSE waits[running_task]
WaitDepthIsLive ==
    Ready => blocking_wait_depth <= RunningWaits + subagent_waits

-----------------------------------------------------------------------------
(* Properties of notifications *)

\* After a cancel, no notification turn starts before the user is back.
NoDrainTurnWhileSuppressed ==
    [][\A p \in Prompts : Kind[p] = "drain" /\ turn[p] = "none" /\ turn'[p] = "spawned"
           => ~notifications_suppressed]_vars

\* When the main loop rests in an idle session, no notification waits for a drain
\* (but for the rewind cancel, whose handler does not drain).
IdleMeansDrained ==
    Ready /\ running_task = None /\ pending_inputs = <<>> /\ ~notifications_suppressed
        => pending_notifications = <<>>

-----------------------------------------------------------------------------
(* The promise to the senders of prompts *)

Ledger == INSTANCE PromptLedger
    WITH running <- running_task, started <- {p \in Prompts : turn[p] # "none"}

\* The queue, the locks and the cancel protocol implement PromptLedger: no prompt runs
\* twice or beside another, and each is told exactly one outcome that fits.
ImplementsLedger == Ledger!Spec

-----------------------------------------------------------------------------
(* A claim of the code's comments that the code does not keep *)

\* cancel_running_task: "Cut at the rewound turn's user item."
RewindCutsItsOwnTurn ==
    [][\A p \in Range(history) : p \notin Range(history') => p = cancel.rewound]_vars

-----------------------------------------------------------------------------
(* Liveness *)

\* No turn stays in its loop for ever: the user answers it, the model responds, or a
\* cancel aborts it.
InLoop(p) == Live(p) /\ turn[p] = "scoped"
TurnsEnd  == \A p \in Prompts : []<>~InLoop(p)

\* If every turn ends or is cancelled, a queued prompt is answered, or the session is
\* shut down: whatever the order of completions, cancels and promotions, none is left in
\* the queue.
EveryPromptIsAnswered ==
    TurnsEnd => \A p \in Prompts : fate[p] = "pending" ~> fate[p] # "pending" \/ stopped

=============================================================================
