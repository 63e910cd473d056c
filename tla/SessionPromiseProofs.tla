------------------------ MODULE SessionPromiseProofs ------------------------
(***************************************************************************)
(* What the session actor promises, for every set of prompts:              *)
(*   - to the senders of prompts, that it implements PromptLedger;         *)
(*   - to the clients that show the queue, that the rows they were last    *)
(*     told are the rows queued;                                           *)
(*   - to whoever asks for send-now, that the prompt runs next, and those  *)
(*     that stack up in the order they were sent in;                       *)
(*   - to background tasks, that their notifications are drained before    *)
(*     the session rests idle.                                             *)
(* The last three hold under hypotheses on the commands clients give.      *)
(***************************************************************************)
EXTENDS SessionTurnProofs

-----------------------------------------------------------------------------
(* The ledger of prompts *)

\* The prompts a turn was spawned for, as the refinement mapping has it.
Spawned == {p \in Prompts : turn[p] # "none"}

\* The step is one of the ledger, or invisible to it.
LedgerStep == [Ledger!Next]_(Ledger!ledgerVars)

\* Every prompt in P is told the outcome o, and nobody else hears anything.
Tells(P, o) == \A p \in Prompts : fate'[p] = IF p \in P THEN o ELSE fate[p]

-----------------------------------------------------------------------------
(* The steps of the ledger, in terms of the actor's state *)

\* Nothing the ledger shows changes.
LEMMA StillLedger ==
    ASSUME UNCHANGED <<fate, running_task, stopped>>, Spawned' = Spawned
    PROVE  LedgerStep
PROOF
    BY DEF LedgerStep, Ledger!ledgerVars, Spawned

\* Prompts that are owed an answer, as a set the ledger quantifies over
LEMMA OwedLedger ==
    ASSUME NEW P, P \subseteq Prompts, \A p \in P : fate[p] = "pending"
    PROVE  P \in SUBSET Ledger!Pending
PROOF
    BY DEF Ledger!Pending

LEMMA AcceptLedger ==
    ASSUME TypeOK, TypeOK', NEW p \in Prompts, NEW P, P \subseteq Prompts,
           \A x \in P : fate[x] = "pending" /\ turn[x] = "none",
           ~stopped, fate[p] = "unsent",
           \A x \in Prompts : fate'[x] = IF x \in {p} THEN "pending"
                                         ELSE IF x \in P THEN "dropped" ELSE fate[x],
           UNCHANGED <<running_task, stopped>>, Spawned' = Spawned
    PROVE  LedgerStep
PROOF
<1>1. fate \in [Prompts -> Fates] /\ fate' \in [Prompts -> Fates]
    BY DEF TypeOK, SeenType
<1>2. fate' = [Ledger!Told(P, "dropped") EXCEPT ![p] = "pending"]
    BY <1>1 DEF Ledger!Told
<1>3. Ledger!Accept(p, P)
    BY <1>2 DEF Ledger!Accept, Spawned
<1>4. P \in SUBSET Ledger!Pending
    BY OwedLedger
<1> QED
    BY <1>3, <1>4 DEF LedgerStep, Ledger!Next

LEMMA StartLedger ==
    ASSUME NEW p \in Prompts, ~stopped, running_task = None, fate[p] = "pending",
           turn[p] = "none", running_task' = p, Spawned' = Spawned \cup {p},
           UNCHANGED <<fate, stopped>>
    PROVE  LedgerStep
PROOF
<1>1. Ledger!Start(p)
    BY DEF Ledger!Start, Ledger!Pending, Spawned
<1> QED
    BY <1>1 DEF LedgerStep, Ledger!Next

LEMMA CompleteLedger ==
    ASSUME TypeOK, TypeOK', NEW p \in Prompts, ~stopped, running_task = p, fate[p] = "pending",
           Tells({p}, "completed"), running_task' = None, UNCHANGED stopped, Spawned' = Spawned
    PROVE  LedgerStep
PROOF
<1>1. fate' = Ledger!Told({p}, "completed")
    BY DEF Ledger!Told, Tells, TypeOK, SeenType
<1>2. Ledger!Complete(p)
    BY <1>1 DEF Ledger!Complete, Ledger!Pending, Spawned
<1> QED
    BY <1>2 DEF LedgerStep, Ledger!Next

LEMMA ReleaseLedger ==
    ASSUME ~stopped, running_task' = None, UNCHANGED <<fate, stopped>>, Spawned' = Spawned
    PROVE  LedgerStep
PROOF
<1>1. CASE running_task = None
    BY <1>1, StillLedger
<1>2. CASE running_task # None
    <2>1. Ledger!Release
        BY <1>2 DEF Ledger!Release, Spawned
    <2> QED
        BY <2>1 DEF LedgerStep, Ledger!Next
<1> QED
    BY <1>1, <1>2

\* Nobody, or some prompts without the slot, are told an outcome that fits.
LEMMA ResolveLedger ==
    ASSUME TypeOK, TypeOK', NEW P, P \subseteq Prompts, \A p \in P : fate[p] = "pending",
           NEW o, ~stopped, running_task \notin P,
           \/ o \in {"removed", "dropped", "consumed", "merged", "cleared"}
                  /\ \A p \in P : turn[p] = "none"
           \/ o \in {"cancelled", "rewound"}
                  /\ \A p, q \in P : turn[p] # "none" /\ turn[q] # "none" => p = q,
           Tells(P, o), UNCHANGED <<running_task, stopped>>, Spawned' = Spawned
    PROVE  LedgerStep
PROOF
<1>1. fate \in [Prompts -> Fates] /\ fate' \in [Prompts -> Fates]
    BY DEF TypeOK, SeenType
<1>2. CASE P = {}
    <2>1. fate' = fate
        BY <1>1, <1>2 DEF Tells
    <2> QED
        BY <2>1, StillLedger
<1>3. CASE P # {}
    <2>1. fate' = Ledger!Told(P, o)
        BY <1>1 DEF Ledger!Told, Tells
    <2>2. Ledger!Resolve(P, o)
        BY <1>3, <2>1 DEF Ledger!Resolve, Ledger!UnstartedOutcomes, Ledger!InterruptedOutcomes,
                          Spawned
    <2>3. P \in SUBSET Ledger!Pending
        BY OwedLedger
    <2> QED
        BY <2>2, <2>3 DEF LedgerStep, Ledger!Next, Ledger!UnstartedOutcomes,
                          Ledger!InterruptedOutcomes
<1> QED
    BY <1>2, <1>3

LEMMA ShutDownLedger ==
    ASSUME TypeOK, TypeOK', NEW P, P \subseteq Prompts, \A p \in P : fate[p] = "pending",
           ~stopped, stopped' = TRUE, Tells(P, "dropped"), UNCHANGED running_task,
           Spawned' = Spawned
    PROVE  LedgerStep
PROOF
<1>1. fate' = Ledger!Told(P, "dropped")
    BY DEF Ledger!Told, Tells, TypeOK, SeenType
<1>2. Ledger!ShutDown(P)
    BY <1>1 DEF Ledger!ShutDown, Spawned
<1>3. P \in SUBSET Ledger!Pending
    BY OwedLedger
<1> QED
    BY <1>2, <1>3 DEF LedgerStep, Ledger!Next

-----------------------------------------------------------------------------
(* What the invariant says about the prompts a step touches *)

\* A prompt that is queued behind the running one, or buffered, has not run.
LEMMA QueuedNotSpawned ==
    ASSUME TypeOK, Sound
    PROVE  /\ Range(pending_inputs) \subseteq Prompts /\ Range(pending_interjections) \subseteq Prompts
           /\ \A p \in Range(pending_inputs) : fate[p] = "pending"
                                                   /\ (p # running_task => turn[p] = "none")
           /\ \A p \in Range(pending_interjections) : fate[p] = "pending" /\ turn[p] = "none"
                                                          /\ p # running_task
PROOF
<1>1. Range(pending_inputs) \subseteq Prompts /\ Range(pending_interjections) \subseteq Prompts
    BY EmptyRange DEF TypeOK, QueueType, SharedType
<1>2. \A p \in Range(pending_inputs) : fate[p] = "pending" /\ (p # running_task => turn[p] = "none")
    BY <1>1 DEF Sound, Holding, Held, Started
<1>3. \A p \in Range(pending_interjections) : fate[p] = "pending" /\ turn[p] = "none"
    BY <1>1 DEF Sound, Holding, Held, Started
<1>4. running_task # None => turn[running_task] # "none"
    BY DEF Sound, Slot
<1> QED
    BY <1>1, <1>2, <1>3, <1>4, QueueConstants

LEMMA SettleTells ==
    ASSUME NEW P, NEW o, fate' = Settle(fate, P, o)
    PROVE  Tells(P, o)
PROOF
    BY DEF Settle, Tells

-----------------------------------------------------------------------------
(* Commands *)

\* queue_input: the prompt is accepted and may preempt synthetic ones that did not run.
LEMMA QueueInputLedger ==
    ASSUME TypeOK, TypeOK', Sound, ~stopped, NEW p \in Prompts, NEW asked \in BOOLEAN,
           fate[p] = "unsent", QueueInput(p, asked), UNCHANGED <<turn, stopped>>
    PROVE  LedgerStep
PROOF
<1>1. /\ fate' = Settle([fate EXCEPT ![p] = "pending"], Preempted(p), "dropped")
      /\ UNCHANGED running_task
    BY DEF QueueInput
<1>2. Preempted(p) \subseteq Range(pending_inputs) /\ running_task \notin Preempted(p)
    BY DEF Preempted, Swept
<1>3. \A x \in Preempted(p) : x \in Prompts /\ fate[x] = "pending" /\ turn[x] = "none"
    BY <1>2, QueuedNotSpawned
<1>4. \A x \in Prompts : fate'[x] = IF x \in {p} THEN "pending"
                                    ELSE IF x \in Preempted(p) THEN "dropped" ELSE fate[x]
    BY <1>1, <1>3 DEF Settle, TypeOK, SeenType
<1>5. Spawned' = Spawned
    BY DEF Spawned
<1> QED
    BY <1>1, <1>3, <1>4, <1>5, AcceptLedger

\* A prompt is accepted and nothing else happens to the ledger.
LEMMA AcceptOneLedger ==
    ASSUME TypeOK, TypeOK', ~stopped, NEW p \in Prompts, fate[p] = "unsent",
           fate' = [fate EXCEPT ![p] = "pending"], UNCHANGED <<turn, running_task, stopped>>
    PROVE  LedgerStep
PROOF
<1> DEFINE none == {}
<1>1. none \subseteq Prompts /\ \A x : x \notin none
    OBVIOUS
<1> HIDE DEF none
<1>2. \A x \in Prompts : fate'[x] = IF x \in {p} THEN "pending"
                                    ELSE IF x \in none THEN "dropped" ELSE fate[x]
    BY <1>1 DEF TypeOK, SeenType
<1>3. Spawned' = Spawned
    BY DEF Spawned
<1> QED
    BY <1>1, <1>2, <1>3, AcceptLedger

\* Rows that a client removes did not run.
LEMMA QueueCommandLedger ==
    ASSUME TypeOK, TypeOK', Sound, ~stopped, QueueCommand
    PROVE  LedgerStep
PROOF
<1>1. UNCHANGED <<turn, running_task, stopped>> /\ Spawned' = Spawned
    <2>1. EditsOnlyTheQueue
        BY DEF QueueCommand, RemoveQueuedPrompt, ClearQueue, ReorderQueue, EditQueuedPrompt,
               InterjectQueuedPrompt
    <2> QED
        BY <2>1 DEF EditsOnlyTheQueue, turnVars, Spawned
<1>2. ASSUME NEW gone, gone \subseteq Range(pending_inputs), running_task \notin gone,
             fate' = Settle(fate, gone, "removed")
      PROVE  LedgerStep
    <2>1. gone \subseteq Prompts /\ \A x \in gone : fate[x] = "pending" /\ turn[x] = "none"
        BY <1>2, QueuedNotSpawned
    <2>2. Tells(gone, "removed")
        BY <1>2, SettleTells
    <2> QED
        BY <1>1, <1>2, <2>1, <2>2, ResolveLedger
<1>3. ASSUME NEW p \in Prompts, NEW v, NEW owner, RemoveQueuedPrompt(p, v, owner)
      PROVE  LedgerStep
    <2> DEFINE removed == IF RowMatches(p, v, owner) THEN {p} ELSE {}
    <2>1. removed \subseteq Range(pending_inputs) /\ running_task \notin removed
        BY DEF RowMatches, IsRunningPrompt
    <2>2. fate' = Settle(fate, removed, "removed")
        BY <1>3 DEF RemoveQueuedPrompt
    <2> HIDE DEF removed
    <2> QED
        BY <1>2, <2>1, <2>2
<1>4. ASSUME NEW owner, ClearQueue(owner)
      PROVE  LedgerStep
    <2> DEFINE cleared == Clearable(pending_inputs, running_task, owner)
    <2>1. cleared \subseteq Range(pending_inputs) /\ running_task \notin cleared
        BY DEF Clearable, Reorderable
    <2>2. fate' = Settle(fate, cleared, "removed")
        BY <1>4 DEF ClearQueue
    <2> HIDE DEF cleared
    <2> QED
        BY <1>2, <2>1, <2>2
<1>5. CASE UNCHANGED fate
    BY <1>1, <1>5, StillLedger
<1> QED
    BY <1>3, <1>4, <1>5 DEF QueueCommand, ReorderQueue, EditQueuedPrompt, InterjectQueuedPrompt

\* drop_pending_synthetic_items at shutdown
LEMMA ShutdownLedger ==
    ASSUME TypeOK, TypeOK', Sound, Shutdown
    PROVE  LedgerStep
PROOF
<1> DEFINE synthetic == {p \in Range(pending_inputs) : IsSynthetic(p)}
<1>1. /\ ~stopped /\ stopped' = TRUE /\ fate' = Settle(fate, synthetic, "dropped")
      /\ UNCHANGED <<running_task, turn>>
    BY DEF Shutdown, Ready, turnVars
<1>2. synthetic \subseteq Prompts /\ \A x \in synthetic : fate[x] = "pending"
    BY QueuedNotSpawned
<1> HIDE DEF synthetic
<1>3. Tells(synthetic, "dropped") /\ Spawned' = Spawned
    BY <1>1, SettleTells DEF Spawned
<1> QED
    BY <1>1, <1>2, <1>3, ShutDownLedger

LEMMA CommandLedger ==
    ASSUME TypeOK, TypeOK', Sound, Command
    PROVE  LedgerStep
PROOF
<1>1. ~stopped
    BY CommandNeedsLoop
<1>2. ASSUME NEW p \in Prompts, NEW asked \in BOOLEAN, Prompt(p, asked)
      PROVE  LedgerStep
    BY <1>1, <1>2, QueueInputLedger DEF Prompt, turnVars
<1>3. ASSUME NEW p \in Prompts, Interject(p) \/ GoalSummaryTurn(p)
      PROVE  LedgerStep
    BY <1>1, <1>3, AcceptOneLedger DEF Interject, GoalSummaryTurn, Fresh, turnVars
<1>4. CASE \/ RestorePlanApproval
           \/ \E why \in CancelReasons : Cancel(why)
           \/ \E n \in Notifs : InjectNotification(n)
           \/ \E n \in Tasks : DropMonitorNotifications(n)
    <2>1. UNCHANGED <<fate, running_task, stopped, turn>>
        BY <1>4 DEF RestorePlanApproval, Cancel, InjectNotification, DropMonitorNotifications,
                    NotificationStep, queueVars, turnVars, loopVars
    <2> QED
        BY <2>1, StillLedger DEF Spawned
<1> QED
    BY <1>1, <1>2, <1>3, <1>4, QueueCommandLedger, ShutdownLedger DEF Command
-----------------------------------------------------------------------------
(* Promotion *)

\* maybe_start_running_task, wherever it is called from
LEMMA PromotionLedger ==
    ASSUME TypeOK, Sound, ~stopped, MaybeStartRunningTask, UNCHANGED <<fate, stopped>>
    PROVE  LedgerStep
PROOF
<1>1. CASE running_task = None /\ pending_inputs # <<>>
    <2> DEFINE p == Head(pending_inputs)
    <2>1. p \in Prompts /\ fate[p] = "pending" /\ turn[p] = "none"
        BY <1>1, FrontIsFresh
    <2>2. running_task' = p /\ turn' = [turn EXCEPT ![p] = "spawned"]
        BY <1>1 DEF MaybeStartRunningTask
    <2> HIDE DEF p
    <2>3. Spawned' = Spawned \cup {p}
        BY <2>1, <2>2 DEF Spawned, TypeOK, TurnType
    <2> QED
        BY <1>1, <2>1, <2>2, <2>3, StartLedger
<1>2. CASE ~(running_task = None /\ pending_inputs # <<>>)
    <2>1. UNCHANGED <<running_task, turn>>
        BY <1>2 DEF MaybeStartRunningTask
    <2> QED
        BY <2>1, StillLedger DEF Spawned
<1> QED
    BY <1>1, <1>2

LEMMA HelperTaskLedger ==
    ASSUME TypeOK, TypeOK', Sound, HelperTask
    PROVE  LedgerStep
PROOF
<1>1. ~stopped
    BY LoopNeedsLoop
<1>2. CASE McpInitialized \/ PlanResumeStarted
    BY <1>1, <1>2, PromotionLedger DEF McpInitialized, PlanResumeStarted, AfterStart
<1>3. CASE PlanAbandoned
    <2>1. UNCHANGED <<fate, running_task, stopped, turn>>
        BY <1>3 DEF PlanAbandoned, queueVars, turnVars, loopVars
    <2> QED
        BY <2>1, StillLedger DEF Spawned
<1>4. ASSUME NEW p \in Prompts, PlanResumeQueued(p)
      PROVE  LedgerStep
    BY <1>1, <1>4, QueueInputLedger DEF PlanResumeQueued, Fresh, turnVars, loopVars
<1> QED
    BY <1>2, <1>3, <1>4 DEF HelperTask

-----------------------------------------------------------------------------
(* The main loop *)

\* handle_completion completes the running prompt, or finds a stale completion.
LEMMA PopLedger ==
    ASSUME TypeOK, TypeOK', PopHasCompletion, LoopOrdered, FrontIsRunning, Sound, PopCompleted
    PROVE  LedgerStep
PROOF
<1> DEFINE p == Head(completion_rx)
<1>1. ~stopped /\ UNCHANGED <<stopped, turn>>
    BY DEF PopCompleted, At, turnVars
<1>2. Stage = "pop"
    BY SectionStage DEF PopCompleted
<1>3. p \in Prompts /\ p # None /\ turn[p] = "done"
    BY <1>2, PopHead, QueueConstants
<1>4. Spawned' = Spawned
    BY <1>1 DEF Spawned
<1>5. CASE pending_inputs # <<>> /\ Head(pending_inputs) = p
    <2>1. fate' = [fate EXCEPT ![p] = "completed"] /\ running_task' = None
        BY <1>5 DEF PopCompleted, FreesSlot
    <2>2. p \in Range(pending_inputs)
        BY <1>5, EmptyRange DEF TypeOK, QueueType
    <2> HIDE DEF p
    <2>3. fate[p] = "pending" /\ running_task = p
        BY <1>3, <2>2, QueuedNotSpawned
    <2>4. Tells({p}, "completed")
        BY <1>3, <2>1 DEF Tells, TypeOK, SeenType
    <2> QED
        BY <1>1, <1>3, <1>4, <2>1, <2>3, <2>4, CompleteLedger
<1>6. CASE ~(pending_inputs # <<>> /\ Head(pending_inputs) = p)
    <2>1. running_task # p
        BY <1>1, <1>3, <1>6 DEF FrontIsRunning
    <2>2. UNCHANGED <<fate, running_task>>
        BY <1>6, <2>1 DEF PopCompleted, FreesSlot
    <2> QED
        BY <1>1, <1>4, <2>2, StillLedger
<1> QED
    BY <1>5, <1>6

\* The end of cancel_running_task: of the prompts that are told, only the one whose turn
\* was cancelled or taken back has run.
LEMMA CancelFinishLedger ==
    ASSUME TypeOK, TypeOK', LoopOrdered, FrontIsRunning, Sound, CancelFinish
    PROVE  LedgerStep
PROOF
<1>1. /\ ~stopped /\ UNCHANGED <<running_task, stopped, turn>>
      /\ IF cancel.rewound # None THEN fate' = [fate EXCEPT ![cancel.rewound] = "rewound"]
         ELSE fate' = Settle(fate, Range(cancel.inputs), "cancelled")
    BY DEF CancelFinish, At, queueVars
<1>2. Range(cancel.inputs) \subseteq Prompts /\ (cancel.rewound # None => cancel.rewound \in Prompts)
    BY EmptyRange DEF TypeOK, LoopType, CancelLocals, MaybePrompt
<1>3. /\ \A x \in Range(cancel.inputs) : fate[x] = "pending"
      /\ cancel.rewound # None => fate[cancel.rewound] = "pending"
    BY <1>2 DEF Sound, Holding, Held
<1>4. running_task # None => running_task \in Range(pending_inputs)
    BY <1>1, EmptyRange DEF FrontIsRunning, TypeOK, QueueType
<1>5. Spawned' = Spawned
    BY <1>1 DEF Spawned
<1>6. CASE cancel.rewound # None
    <2>1. Tells({cancel.rewound}, "rewound")
        BY <1>1, <1>2, <1>6 DEF Tells, TypeOK, SeenType
    <2>2. running_task \notin {cancel.rewound}
        BY <1>4, <1>6 DEF Sound, Holding
    <2> DEFINE P == {cancel.rewound}
    <2>3. /\ P \subseteq Prompts /\ \A x \in P : fate[x] = "pending"
          /\ \A x, y \in P : turn[x] # "none" /\ turn[y] # "none" => x = y
        BY <1>2, <1>3, <1>6
    <2> HIDE DEF P
    <2> QED
        BY <1>1, <1>5, <2>1, <2>2, <2>3, ResolveLedger DEF P
<1>7. CASE cancel.rewound = None
    <2> DEFINE P == Range(cancel.inputs)
    <2>1. Tells(P, "cancelled")
        BY <1>1, <1>7, SettleTells
    <2>2. running_task \notin P
        BY <1>2, <1>4, QueueConstants DEF Sound, Holding
    <2>3. \A x, y \in P : turn[x] # "none" /\ turn[y] # "none" => x = y
        BY <1>2 DEF Sound, Started
    <2>4. P \subseteq Prompts /\ \A x \in P : fate[x] = "pending"
        BY <1>2, <1>3
    <2> HIDE DEF P
    <2> QED
        BY <1>1, <1>5, <2>1, <2>2, <2>3, <2>4, ResolveLedger
<1> QED
    BY <1>6, <1>7

\* The buffered interjections are told, by a cancel that clears them or by the turn that
\* merges them.
LEMMA BufferLedger ==
    ASSUME TypeOK, TypeOK', Sound, ~stopped, NEW o \in {"cleared", "merged"},
           fate' = Settle(fate, Range(pending_interjections), o),
           UNCHANGED <<running_task, stopped, turn>>
    PROVE  LedgerStep
PROOF
<1> DEFINE P == Range(pending_interjections)
<1>1. /\ P \subseteq Prompts /\ running_task \notin P
      /\ \A x \in P : fate[x] = "pending" /\ turn[x] = "none"
    BY QueuedNotSpawned
<1>2. Tells(P, o) /\ Spawned' = Spawned
    BY SettleTells DEF Spawned
<1> HIDE DEF P
<1> QED
    BY <1>1, <1>2, ResolveLedger

LEMMA MainLoopLedger ==
    ASSUME TypeOK, TypeOK', PopHasCompletion, LoopOrdered, FrontIsRunning, Sound, MainLoop
    PROVE  LedgerStep
PROOF
<1>1. ~stopped
    BY LoopNeedsLoop
<1>2. CASE \/ Completion \/ TurnEnd \/ TurnEndPausesGoal \/ PauseGoal \/ FlushStranded
           \/ CancelGoal \/ CancelAbort \/ Unsuppress
    <2>1. UNCHANGED <<fate, running_task, stopped, turn>>
        BY <1>2 DEF Completion, TurnEnd, TurnEndPausesGoal, PauseGoal, GoalStep, FlushStranded,
                    CancelGoal, CancelAbort, Unsuppress, queueVars, turnVars
    <2> QED
        BY <2>1, StillLedger DEF Spawned
<1>3. ASSUME NEW p \in Prompts, TurnEndContinuesGoal(p)
      PROVE  LedgerStep
    BY <1>1, <1>3, AcceptOneLedger DEF TurnEndContinuesGoal, GoalStep, Fresh, turnVars
<1>4. CASE StartStep
    BY <1>1, <1>4, PromotionLedger DEF StartStep, AfterStart
<1>5. CASE DrainStep
    <2>1. UNCHANGED <<running_task, stopped, turn>>
        BY <1>5 DEF DrainStep, turnVars
    <2>2. UNCHANGED fate \/ \E p \in Prompts : fate[p] = "unsent"
                                                   /\ fate' = [fate EXCEPT ![p] = "pending"]
        BY <1>5 DEF DrainStep, DrainIntoTurn, Fresh
    <2>3. CASE UNCHANGED fate
        BY <2>1, <2>3, StillLedger DEF Spawned
    <2> QED
        BY <1>1, <2>1, <2>2, <2>3, AcceptOneLedger
<1>6. CASE CancelBegin
    <2>1. /\ fate' = Settle(fate, Range(pending_interjections), "cleared")
          /\ UNCHANGED <<running_task, stopped, turn>>
        BY <1>6 DEF CancelBegin, queueVars, turnVars
    <2> QED
        BY <1>1, <2>1, BufferLedger
<1>7. CASE CancelTake
    <2>1. running_task' = None /\ UNCHANGED <<fate, stopped, turn>>
        BY <1>7 DEF CancelTake
    <2> QED
        BY <1>1, <2>1, ReleaseLedger DEF Spawned
<1> QED
    BY <1>2, <1>3, <1>4, <1>5, <1>6, <1>7, PopLedger, CancelFinishLedger DEF MainLoop

-----------------------------------------------------------------------------
(* Turn tasks *)

LEMMA TurnLedger ==
    ASSUME TypeOK, TypeOK', Sound, NEW p \in Prompts, Turn(p)
    PROVE  LedgerStep
PROOF
<1>1. ~stopped /\ UNCHANGED <<running_task, stopped>>
    BY TurnKeepsSlot
<1>2. CASE DrainInterjections(p)
    <2>1. /\ fate' = Settle(fate, Range(pending_interjections), "merged")
          /\ UNCHANGED turn
        BY <1>2 DEF DrainInterjections, turnVars
    <2> QED
        BY <1>1, <2>1, BufferLedger
<1>3. ASSUME NEW t, ConsumeCompletion(p, t)
      PROVE  LedgerStep
    <2> DEFINE gone == Swept(pending_inputs, running_task, ConsumedBy(t))
    <2>1. fate' = Settle(fate, gone, "consumed") /\ UNCHANGED turn
        BY <1>3 DEF ConsumeCompletion, turnVars
    <2>2. gone \subseteq Range(pending_inputs) /\ running_task \notin gone
        BY DEF Swept
    <2> HIDE DEF gone
    <2>3. gone \subseteq Prompts /\ \A x \in gone : fate[x] = "pending" /\ turn[x] = "none"
        BY <2>2, QueuedNotSpawned
    <2>4. Tells(gone, "consumed") /\ Spawned' = Spawned
        BY <2>1, SettleTells DEF Spawned
    <2> QED
        BY <1>1, <2>2, <2>3, <2>4, ResolveLedger
<1>4. CASE \/ CloseRewindWindow(p) \/ InjectMonitorEvents(p) \/ WaitEnter(p) \/ WaitExit(p)
           \/ SubagentRequest(p) \/ SubagentEnter(p) \/ SubagentExit
           \/ \E s : TurnSetsGoal(p, s)
    <2>1. UNCHANGED <<fate, turn>>
        BY <1>4 DEF CloseRewindWindow, InjectMonitorEvents, WaitEnter, WaitExit,
                    SubagentRequest, SubagentEnter, SubagentExit, WaitStep, TurnSetsGoal,
                    turnVars
    <2> QED
        BY <1>1, <2>1, StillLedger DEF Spawned
<1>5. CASE \/ TurnBegin(p) \/ TurnIndex(p) \/ TurnRound(p) \/ TurnScopeEnd(p) \/ TurnFinish(p)
           \/ TaskDrop(p)
    <2>1. /\ UNCHANGED fate /\ turn[p] # "none"
          /\ \E ph : ph # "none" /\ turn' = [turn EXCEPT ![p] = ph]
        <3>1. CASE TaskDrop(p)
            <4>1. p \in aborting
                BY <3>1 DEF TaskDrop
            <4>2. turn[p] \in LivePhases
                BY <4>1 DEF Sound, Slot
            <4> QED
                BY <3>1, <4>2 DEF TaskDrop, LivePhases
        <3>2. CASE ~TaskDrop(p)
            BY <1>5, <3>2 DEF TurnBegin, TurnIndex, TurnRound, TurnScopeEnd, TurnFinish
        <3> QED
            BY <3>1, <3>2
    <2>2. Spawned' = Spawned
        BY <2>1 DEF Spawned, TypeOK, TurnType
    <2> QED
        BY <1>1, <2>1, <2>2, StillLedger
<1> QED
    BY <1>2, <1>3, <1>4, <1>5 DEF Turn, TurnProgress

-----------------------------------------------------------------------------
\* Every step of the actor is a step of the ledger, or invisible to it.
LEMMA NextLedger ==
    ASSUME TypeOK, TypeOK', PopHasCompletion, FrontIsRunning, TurnInv, [Next]_vars
    PROVE  LedgerStep
PROOF
<1>1. CASE Next
    <2>1. ~stopped
        BY <1>1, CommandNeedsLoop, LoopNeedsLoop, TurnKeepsSlot DEF Next
    <2>2. LoopOrdered /\ Sound
        BY <2>1 DEF TurnInv
    <2> QED
        BY <1>1, <2>2, CommandLedger, MainLoopLedger, HelperTaskLedger, TurnLedger DEF Next
<1>2. CASE UNCHANGED vars
    <2>1. UNCHANGED <<fate, running_task, stopped, turn>>
        BY <1>2 DEF vars, queueVars, turnVars, loopVars
    <2> QED
        BY <2>1, StillLedger DEF Spawned
<1> QED
    BY <1>1, <1>2

\* With its queue, its locks and its cancel protocol the session actor does what
\* PromptLedger promises the senders of prompts: one turn at a time, each prompt started
\* at most once and told one outcome, which fits what happened to it.
THEOREM LedgerCorrect == Spec => ImplementsLedger
PROOF
<1>1. Init => Ledger!Init
    BY DEF Init, Ledger!Init
<1>2. TypeOK /\ TypeOK' /\ PopHasCompletion /\ FrontIsRunning /\ TurnInv /\ [Next]_vars
          => LedgerStep
    BY NextLedger
<1> QED
    BY <1>1, <1>2, TurnsCorrect, TypeCorrect, FrontCorrect, PTL
    DEF Spec, ImplementsLedger, Ledger!Spec, LedgerStep

-----------------------------------------------------------------------------
(* How a step changes the queue *)

\* The step tells every client the rows as they are after it.
Shown == queue_changed'.rows = BuildQueueWire(pending_inputs', running_task', version')

\* What a sweep leaves of the queue; the slot of the running turn is exempt.
Sweeps(k, gone) ==
    running_task \notin gone /\ k = Retain(pending_inputs, Prompts \ gone)

MoveNothing == UNCHANGED <<pending_inputs, send_now, running_task, version, queue_changed>>

MoveRow == Shown /\ UNCHANGED <<pending_inputs, send_now, running_task>>

\* The front is promoted.
MovePromote ==
    /\ running_task = None /\ pending_inputs # <<>> /\ running_task' = Head(pending_inputs)
    /\ Shown /\ UNCHANGED <<pending_inputs, send_now>>

\* Queued prompts are taken out, and clients are told if any of them was a row.
MoveRemove ==
    \E gone :
        /\ Sweeps(pending_inputs', gone)
        /\ UNCHANGED <<send_now, running_task, version>>
        /\ Shown \/ (UNCHANGED queue_changed /\ \A x \in gone : ~HasQueueMeta(x))

\* A new prompt goes to the back.
MoveAppend ==
    \E p, k :
        /\ p \in Prompts
        /\ fate[p] = "unsent" /\ pending_inputs' = Append(k, p)
        /\ k = pending_inputs \/ \E gone : Sweeps(k, gone)
        /\ UNCHANGED <<send_now, running_task, version>>
        /\ Shown \/ (UNCHANGED queue_changed /\ k = pending_inputs /\ ~HasQueueMeta(p))

\* A new prompt goes to where it runs next.
MoveInsert ==
    \E p, k, gone :
        /\ p \in Prompts
        /\ fate[p] = "unsent" /\ HasQueueMeta(p) /\ Sweeps(k, gone)
        /\ pending_inputs' = InsertSendNow(k, running_task, send_now, p)
        /\ send_now' = send_now \cup {p}
        /\ Shown /\ UNCHANGED running_task

\* A queued row is promoted.
MovePull ==
    \E p, k :
        /\ p \in Range(pending_inputs)
        /\ "InterjectQueuedPrompt" \in Commands /\ Sweeps(k, {p})
        /\ pending_inputs' = InsertSendNow(k, running_task, send_now, p)
        /\ send_now' = send_now \cup {p}
        /\ Shown /\ UNCHANGED running_task

\* Interjections that no turn will merge become prompts behind the running slot.
MoveFlush ==
    \E s \in Seq(Prompts) :
        /\ IsInjective(s)
        /\ \A x \in Range(s) : Kind[x] = "fallback" /\ x \notin Range(pending_inputs)
        /\ pending_inputs' = Splice(pending_inputs, RunningSlot(pending_inputs, running_task) + 1, s)
        /\ send_now' = send_now \cup Range(s)
        /\ UNCHANGED <<running_task, version, queue_changed>>

\* The front leaves, and with it the running turn.
MovePop ==
    /\ pending_inputs # <<>> /\ pending_inputs' = Tail(pending_inputs)
    /\ running_task \in {None, Head(pending_inputs)} /\ running_task' = None
    /\ UNCHANGED <<send_now, version>>
    /\ \/ Shown
       \/ /\ UNCHANGED queue_changed
          /\ \/ Head(pending_inputs) = running_task \/ ~HasQueueMeta(Head(pending_inputs))
             \/ Stage = "cancelTake"

\* A teardown, or a cancel that finds nothing to cancel, leaves an empty queue.
MoveEmpty ==
    /\ pending_inputs' = <<>> /\ running_task' = None
    /\ pending_inputs # <<>> => cancel.why = "kill"
    /\ UNCHANGED <<send_now, version, queue_changed>>

\* A client arranges the rows anew.
MoveRows == "ReorderQueue" \in Commands /\ Shown /\ UNCHANGED <<send_now, running_task>>

QueueMove ==
    \/ MoveNothing \/ MoveRow \/ MovePromote \/ MoveRemove \/ MoveAppend \/ MoveInsert
    \/ MovePull \/ MoveFlush \/ MovePop \/ MoveEmpty \/ MoveRows

\* Fallbacks are inserted by splicing them in behind the running slot.
LEMMA FallbacksSplice ==
    ASSUME NEW q, NEW running, NEW s
    PROVE  InsertAllFallbacks(q, running, s) = Splice(q, RunningSlot(q, running) + 1, s)
PROOF
<1>1. RunningSlot(q, running) \in {0, 1}
    BY DEF RunningSlot
<1> DEFINE r == RunningSlot(q, running)
<1> HIDE DEF r
<1> DEFINE i == r + 1
<1>2. i - 1 = r
    BY <1>1 DEF r
<1>3. InsertAllFallbacks(q, running, s) = SubSeq(q, 1, r) \o s \o SubSeq(q, i, Len(q))
    BY Zenon DEF InsertAllFallbacks, r
<1> HIDE DEF i
<1>4. Splice(q, i, s) = SubSeq(q, 1, i - 1) \o s \o SubSeq(q, i, Len(q))
    BY Zenon DEF Splice
<1>5. InsertAllFallbacks(q, running, s) = Splice(q, i, s)
    BY <1>2, <1>3, <1>4, Zenon
<1> QED
    BY <1>5, Zenon DEF r, i

LEMMA FallbackSplices ==
    ASSUME NEW q, NEW running, NEW p
    PROVE  InsertFallback(q, running, p) = InsertAllFallbacks(q, running, <<p>>)
PROOF
<1>1. InsertFallback(q, running, p) = Splice(q, RunningSlot(q, running) + 1, <<p>>)
    BY Zenon DEF InsertFallback, InsertAt, Splice
<1> QED
    BY <1>1, FallbacksSplice, Zenon

\* queue_input: a prompt is appended, or inserted to run next.
LEMMA QueueInputMove ==
    ASSUME NEW p \in Prompts, NEW asked \in BOOLEAN, fate[p] = "unsent",
           Kind[p] \in {"user", "cron", "wake", "plan"}, QueueInput(p, asked)
    PROVE  QueueMove
PROOF
<1> DEFINE gone == Preempted(p)  k == Retain(pending_inputs, Prompts \ gone)
<1>1. Sweeps(k, gone)
    BY DEF Sweeps, Preempted, Swept
<1>2. Shown /\ UNCHANGED <<running_task, version>>
    BY DEF QueueInput, Broadcast, Shown
<1>3. CASE GoesNow(p, asked)
    <2>1. HasQueueMeta(p)
        BY <1>3 DEF GoesNow, IsSynthetic, HasQueueMeta
    <2>2. /\ pending_inputs' = InsertSendNow(k, running_task, send_now, p)
          /\ send_now' = send_now \cup {p}
        BY <1>3 DEF QueueInput
    <2> HIDE DEF k, gone
    <2>3. MoveInsert
        BY <1>1, <1>2, <2>1, <2>2 DEF MoveInsert
    <2> QED
        BY <2>3 DEF QueueMove
<1>4. CASE ~GoesNow(p, asked)
    <2>1. pending_inputs' = Append(k, p) /\ send_now' = send_now
        BY <1>4 DEF QueueInput
    <2> HIDE DEF k, gone
    <2>2. MoveAppend
        BY <1>1, <1>2, <2>1, Zenon DEF MoveAppend
    <2> QED
        BY <2>2 DEF QueueMove
<1> QED
    BY <1>3, <1>4

\* A synthetic prompt goes to the back without a broadcast.
LEMMA AppendMove ==
    ASSUME NEW p \in Prompts, fate[p] = "unsent", Kind[p] # "user",
           pending_inputs' = Append(pending_inputs, p),
           UNCHANGED <<send_now, running_task, version, queue_changed>>
    PROVE  QueueMove
PROOF
<1>1. ~HasQueueMeta(p)
    BY DEF HasQueueMeta
<1>2. MoveAppend
    BY <1>1, Zenon DEF MoveAppend
<1> QED
    BY <1>2 DEF QueueMove

\* Fallbacks are inserted behind the running slot.
LEMMA FlushMove ==
    ASSUME NEW s \in Seq(Prompts), IsInjective(s),
           \A x \in Range(s) : Kind[x] = "fallback" /\ x \notin Range(pending_inputs),
           pending_inputs' = InsertAllFallbacks(pending_inputs, running_task, s),
           send_now' = send_now \cup Range(s), UNCHANGED <<running_task, version, queue_changed>>
    PROVE  QueueMove
PROOF
<1>1. pending_inputs' = Splice(pending_inputs, RunningSlot(pending_inputs, running_task) + 1, s)
    BY FallbacksSplice, Zenon
<1>2. MoveFlush
    BY <1>1 DEF MoveFlush
<1> QED
    BY <1>2 DEF QueueMove

LEMMA QueueCommandMove ==
    ASSUME QueueCommand
    PROVE  QueueMove
PROOF
<1>1. ASSUME NEW p, NEW v, NEW owner, RemoveQueuedPrompt(p, v, owner)
      PROVE  QueueMove
    <2> DEFINE gone == IF RowMatches(p, v, owner) THEN {p} ELSE {}
    <2>1. running_task \notin gone
        BY DEF RowMatches, IsRunningPrompt
    <2>2. /\ pending_inputs' = Retain(pending_inputs, Prompts \ gone)
          /\ UNCHANGED <<send_now, running_task, version>> /\ Shown
        BY <1>1 DEF RemoveQueuedPrompt, EditsOnlyTheQueue, Broadcast, Shown
    <2> HIDE DEF gone
    <2>3. MoveRemove
        BY <2>1, <2>2 DEF MoveRemove, Sweeps
    <2> QED
        BY <2>3 DEF QueueMove
<1>2. ASSUME NEW owner, ClearQueue(owner)
      PROVE  QueueMove
    <2> DEFINE gone == Clearable(pending_inputs, running_task, owner)
    <2>1. running_task \notin gone
        BY DEF Clearable, Reorderable
    <2>2. /\ pending_inputs' = Retain(pending_inputs, Prompts \ gone)
          /\ UNCHANGED <<send_now, running_task, version>> /\ Shown
        BY <1>2 DEF ClearQueue, EditsOnlyTheQueue, Broadcast, Shown
    <2> HIDE DEF gone
    <2>3. MoveRemove
        BY <2>1, <2>2 DEF MoveRemove, Sweeps
    <2> QED
        BY <2>3 DEF QueueMove
<1>3. ASSUME NEW order, ReorderQueue(order)
      PROVE  QueueMove
    BY <1>3 DEF ReorderQueue, EditsOnlyTheQueue, Broadcast, Shown, MoveRows, QueueMove
<1>4. ASSUME NEW p, EditQueuedPrompt(p)
      PROVE  QueueMove
    BY <1>4 DEF EditQueuedPrompt, EditsOnlyTheQueue, Shown, MoveRow, QueueMove
<1>5. ASSUME NEW p, NEW v, NEW owner, NEW edited, InterjectQueuedPrompt(p, v, owner, edited)
      PROVE  QueueMove
    <2>1. Shown /\ UNCHANGED running_task /\ "InterjectQueuedPrompt" \in Commands
        BY <1>5 DEF InterjectQueuedPrompt, EditsOnlyTheQueue, Shown
    <2>2. CASE RowMatches(p, v, owner)
        <3> DEFINE k == Retain(pending_inputs, Prompts \ {p})
        <3>1. p \in Range(pending_inputs) /\ Sweeps(k, {p})
            BY <2>2 DEF RowMatches, IsRunningPrompt, Sweeps
        <3>2. /\ pending_inputs' = InsertSendNow(k, running_task, send_now, p)
              /\ send_now' = send_now \cup {p}
            BY <1>5, <2>2 DEF InterjectQueuedPrompt
        <3> HIDE DEF k
        <3>3. MovePull
            BY <2>1, <3>1, <3>2 DEF MovePull
        <3> QED
            BY <3>3 DEF QueueMove
    <2>3. CASE ~RowMatches(p, v, owner)
        BY <1>5, <2>1, <2>3 DEF InterjectQueuedPrompt, MoveRow, QueueMove
    <2> QED
        BY <2>2, <2>3
<1> QED
    BY <1>1, <1>2, <1>3, <1>4, <1>5 DEF QueueCommand

LEMMA CommandMove ==
    ASSUME TypeOK, Sound, Command, ~Shutdown
    PROVE  QueueMove
PROOF
<1>1. ASSUME NEW p \in Prompts, NEW asked \in BOOLEAN, Prompt(p, asked)
      PROVE  QueueMove
    BY <1>1, QueueInputMove DEF Prompt
<1>2. ASSUME NEW p \in Prompts, Interject(p)
      PROVE  QueueMove
    <2>1. CASE current_prompt_id # None
        BY <1>2, <2>1 DEF Interject, MoveNothing, QueueMove
    <2>2. CASE current_prompt_id = None
        <3> DEFINE s == <<p>>
        <3>1. s \in Seq(Prompts) /\ IsInjective(s) /\ Range(s) = {p}
            BY SingletonLists DEF Lists
        <3>2. p \notin Range(pending_inputs) /\ Kind[p] = "fallback"
            BY <1>2, UnsentNotQueued DEF Interject, Fresh, Sound
        <3>3. /\ pending_inputs' = InsertFallback(pending_inputs, running_task, p)
              /\ send_now' = send_now \cup {p} /\ UNCHANGED <<running_task, version, queue_changed>>
            BY <1>2, <2>2 DEF Interject
        <3>4. pending_inputs' = InsertAllFallbacks(pending_inputs, running_task, s)
            BY <3>3, FallbackSplices
        <3> HIDE DEF s
        <3> QED
            BY <3>1, <3>2, <3>3, <3>4, FlushMove
    <2> QED
        BY <2>1, <2>2
<1>3. ASSUME NEW p \in Prompts, GoalSummaryTurn(p)
      PROVE  QueueMove
    BY <1>3, AppendMove DEF GoalSummaryTurn, Fresh
<1>4. CASE \/ RestorePlanApproval \/ \E why \in CancelReasons : Cancel(why)
           \/ \E n \in Notifs : InjectNotification(n)
           \/ \E t \in Tasks : DropMonitorNotifications(t)
    <2>1. MoveNothing
        BY <1>4 DEF RestorePlanApproval, Cancel, InjectNotification, DropMonitorNotifications,
                    NotificationStep, queueVars, MoveNothing
    <2> QED
        BY <2>1 DEF QueueMove
<1> QED
    BY <1>1, <1>2, <1>3, <1>4, QueueCommandMove DEF Command

\* maybe_start_running_task
LEMMA StartMove ==
    ASSUME MaybeStartRunningTask, AfterStart
    PROVE  QueueMove
PROOF
<1>1. CASE running_task = None /\ pending_inputs # <<>>
    BY <1>1 DEF MaybeStartRunningTask, AfterStart, Broadcast, Shown, MovePromote, QueueMove
<1>2. CASE ~(running_task = None /\ pending_inputs # <<>>)
    BY <1>2 DEF MaybeStartRunningTask, AfterStart, MoveNothing, QueueMove
<1> QED
    BY <1>1, <1>2

LEMMA HelperTaskMove ==
    ASSUME TypeOK, HelperTask
    PROVE  QueueMove
PROOF
<1>1. CASE McpInitialized \/ PlanResumeStarted
    BY <1>1, StartMove DEF McpInitialized, PlanResumeStarted
<1>2. CASE PlanAbandoned
    BY <1>2 DEF PlanAbandoned, queueVars, MoveNothing, QueueMove
<1>3. ASSUME NEW p \in Prompts, PlanResumeQueued(p)
      PROVE  QueueMove
    BY <1>3, QueueInputMove DEF PlanResumeQueued, Fresh
<1> QED
    BY <1>1, <1>2, <1>3 DEF HelperTask

LEMMA PopMove ==
    ASSUME TypeOK, FrontIsRunning, PopCompleted
    PROVE  QueueMove
PROOF
<1> DEFINE p == Head(completion_rx)
<1>1. ~stopped /\ UNCHANGED <<send_now, version>>
    BY DEF PopCompleted, At
<1>2. running_task # None => pending_inputs # <<>> /\ Head(pending_inputs) = running_task
    BY <1>1 DEF FrontIsRunning
<1>3. CASE pending_inputs # <<>> /\ Head(pending_inputs) = p
    <2>1. /\ pending_inputs' = Tail(pending_inputs) /\ running_task' = None
          /\ queue_changed' = IF HasQueueMeta(p) THEN Broadcast(pending_inputs', running_task')
                              ELSE queue_changed
        BY <1>3 DEF PopCompleted, FreesSlot
    <2>2. Shown \/ (UNCHANGED queue_changed /\ ~HasQueueMeta(Head(pending_inputs)))
        BY <1>1, <1>3, <2>1 DEF Shown, Broadcast
    <2> QED
        BY <1>1, <1>2, <1>3, <2>1, <2>2 DEF MovePop, QueueMove
<1>4. CASE ~(pending_inputs # <<>> /\ Head(pending_inputs) = p)
    BY <1>1, <1>2, <1>4 DEF PopCompleted, FreesSlot, MoveNothing, QueueMove
<1> QED
    BY <1>3, <1>4

LEMMA CancelTakeMove ==
    ASSUME TypeOK, LoopOrdered, FrontIsRunning, Sound, CancelTake
    PROVE  QueueMove
PROOF
<1>1. /\ UNCHANGED <<send_now, version, queue_changed>> /\ running_task' = None
      /\ Stage = "cancelTake" /\ pending_inputs \in Seq(Prompts)
    BY CancelTakes DEF CancelTake, TypeOK, QueueType
<1>2. running_task # None => pending_inputs # <<>> /\ Head(pending_inputs) = running_task
    BY CancelTakes
<1>3. CASE pending_inputs = <<>>
    <2>1. pending_inputs' = <<>>
        BY <1>3 DEF CancelTake, CancelledInputs
    <2> QED
        BY <1>1, <1>3, <2>1 DEF MoveEmpty, QueueMove
<1>4. CASE pending_inputs # <<>> /\ cancel.why = "kill"
    <2>1. pending_inputs' = <<>>
        BY <1>1, <1>4 DEF CancelTake, CancelledInputs
    <2> QED
        BY <1>1, <1>4, <2>1 DEF MoveEmpty, QueueMove
<1>5. CASE pending_inputs # <<>> /\ cancel.why # "kill"
    <2>1. pending_inputs' = Tail(pending_inputs)
        <3>1. /\ CancelledInputs(cancel.why) = <<Head(pending_inputs)>>
              /\ Len(<<Head(pending_inputs)>>) + 1 = 2
              /\ SubSeq(pending_inputs, 2, Len(pending_inputs)) = Tail(pending_inputs)
            BY <1>1, <1>5 DEF CancelledInputs
        <3> QED
            BY <3>1 DEF CancelTake
    <2> QED
        BY <1>1, <1>2, <1>5, <2>1 DEF MovePop, QueueMove
<1> QED
    BY <1>3, <1>4, <1>5

LEMMA MainLoopMove ==
    ASSUME TypeOK, LoopOrdered, FrontIsRunning, Sound, MainLoop
    PROVE  QueueMove
PROOF
<1>1. CASE \/ Completion \/ TurnEnd \/ TurnEndPausesGoal \/ PauseGoal \/ CancelBegin
           \/ CancelGoal \/ CancelAbort \/ CancelFinish \/ Unsuppress
    <2>1. MoveNothing
        BY <1>1 DEF Completion, TurnEnd, TurnEndPausesGoal, PauseGoal, GoalStep, CancelBegin,
                    CancelGoal, CancelAbort, CancelFinish, Unsuppress, queueVars, MoveNothing
    <2> QED
        BY <2>1 DEF QueueMove
<1>2. ASSUME NEW p \in Prompts, TurnEndContinuesGoal(p)
      PROVE  QueueMove
    BY <1>2, AppendMove DEF TurnEndContinuesGoal, Fresh, GoalStep
<1>3. CASE FlushStranded
    <2>1. /\ pending_interjections \in Seq(Prompts) /\ IsInjective(pending_interjections)
          /\ \A x \in Range(pending_interjections) :
                 Kind[x] = "fallback" /\ x \notin Range(pending_inputs)
        BY DEF TypeOK, SharedType, Sound, Holding, Draining
    <2> QED
        BY <1>3, <2>1, FlushMove DEF FlushStranded
<1>4. CASE StartStep
    BY <1>4, StartMove DEF StartStep
<1>5. CASE DrainStep
    <2>1. UNCHANGED <<send_now, running_task, version, queue_changed>>
        BY <1>5 DEF DrainStep
    <2>2. CASE UNCHANGED pending_inputs
        BY <2>1, <2>2 DEF MoveNothing, QueueMove
    <2>3. CASE DrainIntoTurn
        BY <2>1, <2>3, AppendMove DEF DrainIntoTurn, Fresh
    <2> QED
        BY <1>5, <2>2, <2>3 DEF DrainStep
<1> QED
    BY <1>1, <1>2, <1>3, <1>4, <1>5, PopMove, CancelTakeMove DEF MainLoop

LEMMA TurnMove ==
    ASSUME NEW p \in Prompts, Turn(p)
    PROVE  QueueMove
PROOF
<1>1. UNCHANGED <<running_task, send_now, version, queue_changed>>
    BY TurnKeepsSlot DEF Turn, TurnProgress, TurnStep, TurnBegin, TurnIndex, TurnRound,
           TurnScopeEnd, TurnFinish, TaskDrop, WaitEnter, WaitExit, SubagentRequest,
           SubagentEnter, SubagentExit, WaitStep, CloseRewindWindow, DrainInterjections,
           InjectMonitorEvents, TurnSetsGoal, ConsumeCompletion
<1>2. ASSUME NEW t \in Tasks, ConsumeCompletion(p, t)
      PROVE  QueueMove
    <2> DEFINE gone == Swept(pending_inputs, running_task, ConsumedBy(t))
    <2>1. running_task \notin gone /\ \A x \in gone : x \in Prompts /\ CompletionId[x] # None
        BY QueueConstants DEF Swept, ConsumedBy
    <2>2. \A x \in gone : ~HasQueueMeta(x)
        BY <2>1, QueueConstants DEF HasQueueMeta
    <2>3. pending_inputs' = Retain(pending_inputs, Prompts \ gone)
        BY <1>2 DEF ConsumeCompletion
    <2> HIDE DEF gone
    <2>4. MoveRemove
        BY <1>1, <2>1, <2>2, <2>3 DEF MoveRemove, Sweeps
    <2> QED
        BY <2>4 DEF QueueMove
<1>3. CASE UNCHANGED pending_inputs
    BY <1>1, <1>3 DEF MoveNothing, QueueMove
<1> QED
    BY <1>2, <1>3 DEF Turn, TurnProgress, TurnBegin, TurnIndex, TurnRound, TurnScopeEnd,
                    TurnFinish, TaskDrop, WaitEnter, WaitExit, SubagentRequest, SubagentEnter,
                    SubagentExit, WaitStep, CloseRewindWindow, DrainInterjections,
                    InjectMonitorEvents, TurnSetsGoal

\* Every step of a session that was not shut down is one of these moves.
LEMMA NextMove ==
    ASSUME TypeOK, TurnInv, FrontIsRunning, Next, ~Shutdown
    PROVE  ~stopped /\ QueueMove
PROOF
<1>1. ~stopped
    BY CommandNeedsLoop, LoopNeedsLoop, TurnKeepsSlot DEF Next
<1>2. LoopOrdered /\ Sound
    BY <1>1 DEF TurnInv
<1> QED
    BY <1>1, <1>2, CommandMove, HelperTaskMove, MainLoopMove, TurnMove DEF Next

-----------------------------------------------------------------------------
(* Rows and the running turn *)

\* The stages at which clients' rows are edited, or a cancel finds them.
Resting == {"rest", "drain", "cancelBegin", "cancelTake"}

\* Rows are queued behind a turn, at these stages: what a helper task may have left
\* without one is its own prompt.
RowsHaveATurn ==
    Stage \in Resting /\ running_task = None =>
        \A x \in Range(pending_inputs) : ~HasQueueMeta(x)
RowsInv == ~stopped => RowsHaveATurn

\* A step that takes no turn away and adds no row.
LEMMA RowsKept ==
    ASSUME RowsHaveATurn, Stage' \in Resting => Stage \in Resting,
           running_task' = None => running_task = None,
           \A x \in Range(pending_inputs') : x \in Range(pending_inputs) \/ ~HasQueueMeta(x)
    PROVE  RowsHaveATurn'
PROOF
    BY DEF RowsHaveATurn

\* A new last prompt
LEMMA AppendRange ==
    ASSUME NEW S, NEW q \in Seq(S), NEW e \in S
    PROVE  Range(Append(q, e)) = Range(q) \cup {e}
PROOF
<1> DEFINE r == Append(q, e)
<1>1. /\ Len(q) \in Nat /\ DOMAIN q = 1 .. Len(q) /\ DOMAIN r = 1 .. Len(q) + 1
      /\ r[Len(q) + 1] = e /\ \A i \in 1 .. Len(q) : r[i] = q[i]
    OBVIOUS
<1> HIDE DEF r
<1>2. ASSUME NEW x \in Range(r)
      PROVE  x \in Range(q) \cup {e}
    <2>1. PICK i \in 1 .. Len(q) + 1 : r[i] = x
        BY <1>1 DEF Range
    <2>2. CASE i = Len(q) + 1
        BY <1>1, <2>1, <2>2
    <2>3. CASE i # Len(q) + 1
        <3>1. i \in 1 .. Len(q)
            BY <1>1, <2>1, <2>3
        <3> QED
            BY <1>1, <2>1, <3>1 DEF Range
    <2> QED
        BY <2>2, <2>3
<1>3. ASSUME NEW x \in Range(q)
      PROVE  x \in Range(r)
    <2>1. PICK i \in 1 .. Len(q) : q[i] = x
        BY <1>1, <1>3 DEF Range
    <2>2. i \in DOMAIN r /\ r[i] = x
        BY <1>1, <2>1
    <2> QED
        BY <2>2 DEF Range
<1>4. e \in Range(r)
    BY <1>1 DEF Range
<1> QED
    BY <1>2, <1>3, <1>4 DEF r

LEMMA CommandRows ==
    ASSUME TypeOK, LoopOrdered, Sound, RowsHaveATurn, Command, ~Shutdown
    PROVE  RowsHaveATurn'
PROOF
<1>1. Ready
    BY DEF Command, Prompt, Interject, GoalSummaryTurn, QueueCommand, RemoveQueuedPrompt, ClearQueue,
       ReorderQueue, EditQueuedPrompt, InterjectQueuedPrompt, RestorePlanApproval, Cancel,
       InjectNotification, DropMonitorNotifications
<1>2. Stage = "rest" /\ pending_inputs \in Seq(Prompts)
    BY <1>1, CommandStage DEF TypeOK, QueueType
<1>3. ASSUME NEW c \in BOOLEAN, ThenRunNext(c), c => running_task # None, UNCHANGED running_task
      PROVE  RowsHaveATurn'
    <2>1. todo' = SendNowSteps(c)
        BY <1>3 DEF ThenRunNext
    <2>2. CASE c
        BY <1>3, <2>2 DEF RowsHaveATurn
    <2>3. CASE ~c
        <3>1. todo' = SendNowSteps(FALSE)
            BY <2>1, <2>3
        <3>2. Stage' = "start"
            BY <1>1, <3>1, CommandStage
        <3> QED
            BY <3>2 DEF RowsHaveATurn, Resting
    <2> QED
        BY <2>2, <2>3
<1>4. ASSUME todo' = <<"start">>
      PROVE  RowsHaveATurn'
    <2>1. Stage' = "start"
        BY <1>1, <1>4, CommandStage
    <2> QED
        BY <2>1 DEF RowsHaveATurn, Resting
<1>5. ASSUME UNCHANGED running_task, Range(pending_inputs') \subseteq Range(pending_inputs)
      PROVE  RowsHaveATurn'
    BY <1>2, <1>5, RowsKept DEF Resting
<1>6. ASSUME NEW p \in Prompts, NEW asked \in BOOLEAN, Prompt(p, asked)
      PROVE  RowsHaveATurn'
    <2> DEFINE c == CancelsTurn(GoesNow(p, asked))
    <2>1. c \in BOOLEAN /\ (c => running_task # None)
        BY DEF CancelsTurn
    <2>2. ThenRunNext(c) /\ UNCHANGED running_task
        BY <1>6 DEF Prompt, QueueInput
    <2> HIDE DEF c
    <2> QED
        BY <1>3, <2>1, <2>2
<1>7. ASSUME NEW p \in Prompts, Interject(p) \/ GoalSummaryTurn(p)
      PROVE  RowsHaveATurn'
    <2>1. \/ todo' = <<"start">>
          \/ UNCHANGED <<running_task, pending_inputs>>
        BY <1>7 DEF Interject, GoalSummaryTurn
    <2> QED
        BY <1>4, <1>5, <2>1
<1>8. CASE QueueCommand
    <2>1. ASSUME NEW p, NEW v, NEW owner, RemoveQueuedPrompt(p, v, owner)
          PROVE  RowsHaveATurn'
        <3>1. UNCHANGED running_task /\ \E K : pending_inputs' = Retain(pending_inputs, K)
            BY <2>1 DEF RemoveQueuedPrompt, EditsOnlyTheQueue
        <3>2. Range(pending_inputs') \subseteq Range(pending_inputs)
            BY <1>2, <3>1, RetainType
        <3> QED
            BY <1>5, <3>1, <3>2
    <2>2. ASSUME NEW owner, ClearQueue(owner)
          PROVE  RowsHaveATurn'
        <3>1. UNCHANGED running_task /\ \E K : pending_inputs' = Retain(pending_inputs, K)
            BY <2>2 DEF ClearQueue, EditsOnlyTheQueue
        <3>2. Range(pending_inputs') \subseteq Range(pending_inputs)
            BY <1>2, <3>1, RetainType
        <3> QED
            BY <1>5, <3>1, <3>2
    <2>3. ASSUME NEW order \in Orders, ReorderQueue(order)
          PROVE  RowsHaveATurn'
        <3>1. /\ UNCHANGED running_task
              /\ pending_inputs' = Reordered(pending_inputs, running_task, order)
            BY <2>3 DEF ReorderQueue, EditsOnlyTheQueue
        <3>2. /\ Lists(pending_inputs, Range(pending_inputs))
              /\ order \in Seq(Prompts) /\ IsInjective(order)
            BY OrdersType DEF Sound, Holding, Lists, Orders
        <3>3. Lists(pending_inputs', Range(pending_inputs))
            BY <1>2, <3>1, <3>2, ReorderedLists
        <3> QED
            BY <1>5, <3>1, <3>3 DEF Lists
    <2>4. ASSUME NEW p, EditQueuedPrompt(p)
          PROVE  RowsHaveATurn'
        BY <1>5, <2>4 DEF EditQueuedPrompt, EditsOnlyTheQueue
    <2>5. ASSUME NEW p, NEW v, NEW owner, NEW edited, InterjectQueuedPrompt(p, v, owner, edited)
          PROVE  RowsHaveATurn'
        <3>1. UNCHANGED running_task
            BY <2>5 DEF InterjectQueuedPrompt, EditsOnlyTheQueue
        <3>2. \E c \in BOOLEAN : ThenRunNext(c) /\ (c => running_task # None)
            BY <2>5 DEF InterjectQueuedPrompt, CancelsTurn
        <3> QED
            BY <1>3, <3>1, <3>2
    <2> QED
        BY <1>8, <2>1, <2>2, <2>3, <2>4, <2>5 DEF QueueCommand
<1>9. CASE \/ RestorePlanApproval \/ \E why \in CancelReasons : Cancel(why)
           \/ \E n \in Notifs : InjectNotification(n)
           \/ \E t \in Tasks : DropMonitorNotifications(t)
    <2>1. UNCHANGED <<running_task, pending_inputs>>
        BY <1>9 DEF RestorePlanApproval, Cancel, InjectNotification, DropMonitorNotifications,
                    NotificationStep, queueVars
    <2> QED
        BY <1>5, <2>1
<1> QED
    BY <1>6, <1>7, <1>8, <1>9 DEF Command

\* maybe_start_running_task fills the slot, or there was nothing to promote.
LEMMA StartFills ==
    ASSUME TypeOK, Sound, MaybeStartRunningTask, AfterStart
    PROVE  /\ UNCHANGED pending_inputs
           /\ \/ running_task = None /\ running_task' # None
              \/ UNCHANGED running_task /\ (running_task = None => pending_inputs = <<>>)
PROOF
<1>1. CASE running_task = None /\ pending_inputs # <<>>
    BY <1>1, FrontIsFresh DEF MaybeStartRunningTask, AfterStart
<1>2. CASE ~(running_task = None /\ pending_inputs # <<>>)
    BY <1>2 DEF MaybeStartRunningTask, AfterStart
<1> QED
    BY <1>1, <1>2

LEMMA HelperTaskRows ==
    ASSUME TypeOK, Sound, RowsHaveATurn, HelperTask
    PROVE  RowsHaveATurn'
PROOF
<1>1. UNCHANGED todo
    BY DEF HelperTask, McpInitialized, PlanAbandoned, PlanResumeQueued, PlanResumeStarted, loopVars
<1>2. Stage' = Stage /\ pending_inputs \in Seq(Prompts)
    BY <1>1, SameStage DEF TypeOK, QueueType
<1>3. CASE McpInitialized \/ PlanResumeStarted
    <2>1. MaybeStartRunningTask /\ AfterStart
        BY <1>3 DEF McpInitialized, PlanResumeStarted
    <2> QED
        BY <1>2, <2>1, StartFills, RowsKept
<1>4. CASE PlanAbandoned
    BY <1>2, <1>4, RowsKept DEF PlanAbandoned, queueVars
<1>5. ASSUME NEW p \in Prompts, PlanResumeQueued(p)
      PROVE  RowsHaveATurn'
    <2>1. /\ QueueInput(p, FALSE) /\ UNCHANGED running_task
          /\ IsSynthetic(p) /\ ~HasQueueMeta(p)
        BY <1>5 DEF PlanResumeQueued, QueueInput, Fresh, IsSynthetic, HasQueueMeta
    <2> DEFINE k == Retain(pending_inputs, Prompts \ Preempted(p))
    <2>2. pending_inputs' = Append(k, p)
        BY <2>1 DEF QueueInput, GoesNow
    <2>3. k \in Seq(Prompts) /\ Range(k) \subseteq Range(pending_inputs)
        BY <1>2, RetainType
    <2> HIDE DEF k
    <2>4. Range(pending_inputs') = Range(k) \cup {p}
        BY <2>2, <2>3, AppendRange
    <2> QED
        BY <1>2, <2>1, <2>3, <2>4, RowsKept
<1> QED
    BY <1>3, <1>4, <1>5 DEF HelperTask

LEMMA MainLoopRows ==
    ASSUME TypeOK, LoopOrdered, FrontIsRunning, Sound, RowsHaveATurn, MainLoop
    PROVE  RowsHaveATurn'
PROOF
<1>1. ASSUME Stage' \notin Resting
      PROVE  RowsHaveATurn'
    BY <1>1 DEF RowsHaveATurn
<1>2. CASE Completion
    <2>1. Stage' = "pop"
        BY <1>2, OrderedSteps DEF Completion, Stage
    <2> QED
        BY <1>1, <2>1 DEF Resting
<1>3. ASSUME NEW s \in {"pop", "turnEnd", "pauseGoal", "flush", "cancelTake", "cancelGoal",
                        "cancelAbort", "cancelFinish", "unsuppress"},
             At(s), todo' = Tail(todo)
      PROVE  RowsHaveATurn'
    <2>1. Follows(s, Stage')
        BY <1>3, SectionStage
    <2>2. Stage' \notin Resting
        BY <1>3, <2>1 DEF Follows, Resting
    <2> QED
        BY <1>1, <2>2
<1>4. CASE \/ PopCompleted \/ TurnEnd \/ TurnEndPausesGoal \/ PauseGoal \/ FlushStranded
           \/ CancelTake \/ CancelGoal \/ CancelAbort \/ CancelFinish \/ Unsuppress
           \/ \E p \in Prompts : TurnEndContinuesGoal(p)
    <2>1. \E s \in {"pop", "turnEnd", "pauseGoal", "flush", "cancelTake", "cancelGoal",
                    "cancelAbort", "cancelFinish", "unsuppress"} : At(s) /\ todo' = Tail(todo)
        BY <1>4 DEF PopCompleted, TurnEnd, TurnEndPausesGoal, PauseGoal, FlushStranded, CancelTake,
           CancelGoal, CancelAbort, CancelFinish, Unsuppress, TurnEndContinuesGoal, GoalStep
    <2> QED
        BY <1>3, <2>1
<1>5. CASE CancelBegin
    <2>1. Stage = "cancelBegin" /\ UNCHANGED <<running_task, pending_inputs>>
        BY <1>5, SectionStage DEF CancelBegin, queueVars
    <2> QED
        BY <2>1, RowsKept DEF Resting
<1>6. CASE StartStep
    <2>1. MaybeStartRunningTask /\ AfterStart
        BY <1>6 DEF StartStep
    <2>2. running_task' # None \/ pending_inputs' = <<>>
        BY <2>1, StartFills
    <2>3. Range(<<>>) = {}
        BY EmptyLists DEF Lists
    <2> QED
        BY <2>2, <2>3 DEF RowsHaveATurn
<1>7. CASE DrainStep
    <2>1. Stage = "drain" /\ UNCHANGED running_task /\ pending_inputs \in Seq(Prompts)
        BY <1>7 DEF DrainStep, At, Stage, TypeOK, QueueType
    <2>2. CASE UNCHANGED pending_inputs
        BY <2>1, <2>2, RowsKept DEF Resting
    <2>3. CASE DrainIntoTurn
        <3>1. PICK p \in Prompts : Kind[p] = "drain" /\ pending_inputs' = Append(pending_inputs, p)
            BY <2>3 DEF DrainIntoTurn, Fresh
        <3>2. Range(pending_inputs') = Range(pending_inputs) \cup {p} /\ ~HasQueueMeta(p)
            BY <2>1, <3>1, AppendRange DEF HasQueueMeta
        <3> QED
            BY <2>1, <3>2, RowsKept DEF Resting
    <2> QED
        BY <1>7, <2>2, <2>3 DEF DrainStep
<1> QED
    BY <1>2, <1>4, <1>5, <1>6, <1>7 DEF MainLoop

\* A step of a turn takes prompts out of the queue, if anything.
LEMMA TurnQueue ==
    ASSUME TypeOK, NEW p \in Prompts, Turn(p)
    PROVE  /\ TurnStep /\ Range(pending_inputs') \subseteq Range(pending_inputs)
           /\ UNCHANGED <<pending_inputs, pending_notifications>>
                  \/ \E t \in Tasks : ConsumeCompletion(p, t)
PROOF
<1>1. pending_inputs \in Seq(Prompts)
    BY DEF TypeOK, QueueType
<1>2. ASSUME NEW t, ConsumeCompletion(p, t)
      PROVE  TurnStep /\ Range(pending_inputs') \subseteq Range(pending_inputs)
    <2>1. TurnStep /\ \E K : pending_inputs' = Retain(pending_inputs, K)
        BY <1>2 DEF ConsumeCompletion
    <2> QED
        BY <1>1, <2>1, RetainType
<1>3. CASE ~ \E t \in Tasks : ConsumeCompletion(p, t)
    <2>1. TurnStep /\ UNCHANGED <<pending_inputs, pending_notifications>>
        BY <1>3 DEF Turn, TurnProgress, TurnBegin, TurnIndex, TurnRound, TurnScopeEnd,
                    TurnFinish, TaskDrop, WaitEnter, WaitExit, SubagentRequest, SubagentEnter,
                    SubagentExit, WaitStep, CloseRewindWindow, DrainInterjections,
                    InjectMonitorEvents, TurnSetsGoal
    <2> QED
        BY <2>1
<1> QED
    BY <1>2, <1>3

LEMMA TurnRows ==
    ASSUME TypeOK, RowsHaveATurn, NEW p \in Prompts, Turn(p)
    PROVE  RowsHaveATurn'
PROOF
<1>1. Stage' = Stage /\ UNCHANGED running_task
    BY TurnQueue, TurnStepKeeps
<1> QED
    BY <1>1, TurnQueue, RowsKept

\* Whatever the tasks do between two sections, a client's row never waits without a turn
\* in front of it while the main loop rests, drains or sets out to cancel.
THEOREM RowsCorrect == Spec => []RowsInv
PROOF
<1>1. Init => RowsInv
    <2>1. Range(<<>>) = {}
        BY EmptyLists DEF Lists
    <2> QED
        BY <2>1 DEF Init, RowsInv, RowsHaveATurn
<1>2. ASSUME TypeOK, FrontIsRunning, TurnInv, RowsInv, [Next]_vars
      PROVE  RowsInv'
    <2>1. CASE Shutdown
        BY <2>1 DEF Shutdown, RowsInv
    <2>2. CASE Next /\ ~Shutdown
        <3>1. ~stopped
            BY <1>2, <2>2, NextMove
        <3>2. LoopOrdered /\ Sound /\ RowsHaveATurn
            BY <1>2, <3>1 DEF TurnInv, RowsInv
        <3>3. RowsHaveATurn'
            BY <1>2, <2>2, <3>2, CommandRows, HelperTaskRows, MainLoopRows, TurnRows DEF Next
        <3> QED
            BY <3>3 DEF RowsInv
    <2>3. CASE UNCHANGED vars
        BY <1>2, <2>3 DEF vars, queueVars, loopVars, RowsInv, RowsHaveATurn, Stage
    <2> QED
        BY <1>2, <2>1, <2>2, <2>3
<1>3. TypeOK /\ FrontIsRunning /\ TurnInv /\ RowsInv /\ [Next]_vars => RowsInv'
    BY <1>2
<1> QED
    BY <1>1, <1>3, TypeCorrect, FrontCorrect, TurnsCorrect, PTL DEF Spec

-----------------------------------------------------------------------------
(* Why the loop cancels *)

\* The reason of the cancel in progress is one the environment may give, or the main
\* loop's own.
ReasonIsGiven == cancel.why \in {"none", "send_now"} \cup Commands

\* The locals of cancel_running_task keep their reason until it returns.
LEMMA NextReason ==
    ASSUME TypeOK, ReasonIsGiven, [Next]_vars
    PROVE  ReasonIsGiven'
PROOF
<1> DEFINE Given == {"none", "send_now"} \cup Commands
<1> SUFFICES cancel'.why \in Given
    BY DEF ReasonIsGiven
<1>1. cancel \in CancelLocals /\ cancel.why \in Given
    BY DEF TypeOK, LoopType, ReasonIsGiven
<1>2. \A why : CancelFor(why).why = why
    BY DEF CancelFor
<1>3. ASSUME NEW c, ThenRunNext(c)
      PROVE  cancel'.why \in Given
    BY <1>1, <1>2, <1>3 DEF ThenRunNext
<1>4. CASE Command
    <2>1. ASSUME NEW why, Cancel(why)
          PROVE  cancel'.why \in Given
        BY <1>2, <2>1 DEF Cancel
    <2>2. CASE UNCHANGED cancel
        BY <1>1, <2>2
    <2>3. CASE \/ \E p \in Prompts, asked \in BOOLEAN : Prompt(p, asked)
               \/ \E p, v, owner, edited : InterjectQueuedPrompt(p, v, owner, edited)
        BY <1>3, <2>3 DEF Prompt, InterjectQueuedPrompt
    <2> QED
        BY <1>4, <2>1, <2>2, <2>3 DEF Command, QueueCommand, Interject, GoalSummaryTurn,
           RemoveQueuedPrompt, ClearQueue, ReorderQueue, EditQueuedPrompt, RestorePlanApproval,
           InjectNotification, DropMonitorNotifications, NotificationStep, Shutdown, loopVars
<1>5. CASE MainLoop
    <2>1. CASE CancelBegin
        BY <1>1, <2>1 DEF CancelBegin, CancelLocals
    <2>2. CASE CancelTake
        BY <1>1, <2>2 DEF CancelTake, CancelLocals
    <2>3. CASE CancelFinish
        BY <1>2, <2>3 DEF CancelFinish, NoCancel
    <2>4. CASE UNCHANGED cancel
        BY <1>1, <2>4
    <2> QED
        BY <1>5, <2>1, <2>2, <2>3, <2>4 DEF MainLoop, Completion, PopCompleted, TurnEnd,
           TurnEndPausesGoal, PauseGoal, TurnEndContinuesGoal, GoalStep, FlushStranded, StartStep,
           AfterStart, DrainStep, CancelGoal, CancelAbort, Unsuppress
<1>6. CASE HelperTask
    <2>1. UNCHANGED cancel
        BY <1>6 DEF HelperTask, McpInitialized, PlanAbandoned, PlanResumeQueued, PlanResumeStarted,
           AfterStart, loopVars
    <2> QED
        BY <1>1, <2>1
<1>7. ASSUME NEW p \in Prompts, Turn(p)
      PROVE  cancel'.why \in Given
    BY <1>1, <1>7, TurnQueue, TurnStepKeeps
<1>8. CASE UNCHANGED vars
    BY <1>1, <1>8 DEF vars, loopVars
<1> QED
    BY <1>4, <1>5, <1>6, <1>7, <1>8 DEF Next

LEMMA ReasonCorrect == Spec => []ReasonIsGiven
PROOF
<1>1. Init => ReasonIsGiven
    BY DEF Init, ReasonIsGiven, NoCancel, CancelFor
<1>2. TypeOK /\ ReasonIsGiven /\ [Next]_vars => ReasonIsGiven'
    BY NextReason
<1> QED
    BY <1>1, <1>2, TypeCorrect, PTL DEF Spec

-----------------------------------------------------------------------------
(* The rows that clients mirror *)

\* The rows last broadcast are the rows queued, whatever the main loop is doing.
Mirrored == ~stopped => queue_changed.rows = BuildQueueWire(pending_inputs, running_task, version)

\* The broadcast depends on the rows alone.
LEMMA SameWire ==
    ASSUME NEW q, NEW r, NEW u, NEW w, NEW ver,
           Retain(q, Reorderable(r)) = Retain(u, Reorderable(w))
    PROVE  BuildQueueWire(q, r, ver) = BuildQueueWire(u, w, ver)
PROOF
    BY DEF BuildQueueWire

\* A move that tells nobody leaves the rows as they are.
LEMMA QuietMove ==
    ASSUME TypeOK, FrontIsRunning, Sound, RowsHaveATurn, cancel.why # "kill", ~stopped,
           QueueMove, ~Shown
    PROVE  /\ UNCHANGED <<version, queue_changed>>
           /\ Retain(pending_inputs', Reorderable(running_task'))
                  = Retain(pending_inputs, Reorderable(running_task))
PROOF
<1> DEFINE q == pending_inputs  rows == Reorderable(running_task)
<1>1. q \in Seq(Prompts) /\ Range(q) \subseteq Prompts /\ Lists(q, Range(q))
    BY EmptyRange DEF TypeOK, QueueType, Sound, Holding, Lists
<1>2. \A x : x \in rows <=> x \in Prompts /\ HasQueueMeta(x) /\ x # running_task
    BY DEF Reorderable
<1>3. running_task # None => q # <<>> /\ Head(q) = running_task
    BY DEF FrontIsRunning
<1>4. CASE MoveNothing
    BY <1>4 DEF MoveNothing
<1>5. CASE MoveRemove
    <2>1. PICK gone : /\ Sweeps(pending_inputs', gone) /\ \A x \in gone : ~HasQueueMeta(x)
                      /\ UNCHANGED <<running_task, version, queue_changed>>
        BY <1>5 DEF MoveRemove
    <2>2. pending_inputs' = Retain(q, Prompts \ gone)
        BY <2>1 DEF Sweeps
    <2>3. \A x \in Range(q) : x \in rows => x \in Prompts \ gone
        BY <1>2, <2>1
    <2>4. Retain(Retain(q, Prompts \ gone), rows) = Retain(q, rows)
        <3> HIDE DEF rows
        <3> QED
            BY <1>1, <2>3, RetainTwice
    <2> QED
        BY <2>1, <2>2, <2>4
<1>6. CASE MoveAppend
    <2>1. PICK p \in Prompts : /\ pending_inputs' = Append(q, p) /\ ~HasQueueMeta(p)
                               /\ UNCHANGED <<running_task, version, queue_changed>>
        BY <1>6, Zenon DEF MoveAppend
    <2>2. p \notin rows
        BY <1>2, <2>1
    <2>3. Retain(Append(q, p), rows) = Retain(q, rows)
        <3> HIDE DEF rows
        <3> QED
            BY <1>1, <2>2, RetainAppend, Zenon
    <2> QED
        BY <2>1, <2>3, Zenon
<1>7. CASE MoveFlush
    <2> DEFINE i == RunningSlot(q, running_task) + 1
    <2>1. PICK s \in Seq(Prompts) : /\ pending_inputs' = Splice(q, i, s)
                                    /\ \A x \in Range(s) : Kind[x] = "fallback"
                                    /\ UNCHANGED <<running_task, version, queue_changed>>
        BY <1>7 DEF MoveFlush
    <2>2. Range(s) \cap rows = {}
        BY <1>2, <2>1 DEF HasQueueMeta
    <2>3. i \in 1 .. Len(q) + 1
        BY <1>1, RunningSlotType
    <2>4. Retain(Splice(q, i, s), rows) = Retain(q, rows)
        <3> HIDE DEF rows, i
        <3> QED
            BY <1>1, <2>1, <2>2, <2>3, RetainSplice
    <2> QED
        BY <2>1, <2>4
<1>8. CASE MovePop
    <2>1. /\ q # <<>> /\ pending_inputs' = Tail(q) /\ running_task \in {None, Head(q)}
          /\ running_task' = None /\ UNCHANGED <<version, queue_changed>>
        BY <1>8 DEF MovePop
    <2>2. Head(q) = running_task \/ ~HasQueueMeta(Head(q))
        <3>1. CASE Stage = "cancelTake"
            <4>1. Head(q) \in Range(q)
                BY <1>1, <2>1, EmptyRange
            <4> QED
                BY <2>1, <3>1, <4>1 DEF RowsHaveATurn, Resting
        <3>2. CASE Stage # "cancelTake"
            BY <1>8, <3>2 DEF MovePop
        <3> QED
            BY <3>1, <3>2
    <2>3. Retain(Tail(q), rows) = Retain(q, rows)
        <3>1. Head(q) \notin rows
            BY <1>2, <2>2
        <3> HIDE DEF rows
        <3> QED
            BY <1>1, <2>1, <3>1, RetainTail
    <2>4. Tail(q) \in Seq(Prompts) /\ Range(Tail(q)) = Range(q) \ {Head(q)}
        BY <1>1, <2>1, TailLists DEF Lists
    <2>5. \A x \in Range(Tail(q)) : x \in rows <=> x \in Reorderable(None)
        <3>1. ASSUME NEW x \in Range(Tail(q))
              PROVE  x # running_task /\ x # None
            BY <1>1, <2>1, <2>4, QueueConstants
        <3> QED
            BY <1>2, <3>1 DEF Reorderable
    <2>6. Retain(Tail(q), rows) = Retain(Tail(q), Reorderable(None))
        <3> HIDE DEF rows
        <3> QED
            BY <2>4, <2>5, RetainAgrees
    <2> QED
        BY <2>1, <2>3, <2>6
<1>9. CASE MoveEmpty
    BY <1>3, <1>9 DEF MoveEmpty
<1> QED
    BY <1>4, <1>5, <1>6, <1>7, <1>8, <1>9
    DEF QueueMove, MoveRow, MovePromote, MoveInsert, MovePull, MoveRows

\* The rows a client last heard of are the rows queued, at their versions, whenever the main
\* loop rests, unless a teardown drops the whole queue: every section that changes a row
\* broadcasts it, and those that do not change only what is no row.
THEOREM MirrorCorrect ==
    ASSUME "kill" \notin Commands
    PROVE  Spec => []MirrorIsFresh
PROOF
<1>1. Init => Mirrored
    <2>1. ASSUME NEW K
          PROVE  Retain(<<>>, K) = <<>>
        <3> DEFINE e == <<>>
        <3>1. e \in Seq(Prompts) /\ Range(e) = {}
            BY EmptyLists DEF Lists
        <3> HIDE DEF e
        <3>2. Retain(e, K) \in Seq(Prompts) /\ Range(Retain(e, K)) = {}
            BY <3>1, RetainType
        <3> QED
            BY <3>2, EmptyRange DEF e
    <2>2. BuildQueueWire(<<>>, None, version) = <<>>
        BY <2>1 DEF BuildQueueWire
    <2> QED
        BY <2>2 DEF Init, Mirrored
<1>2. ASSUME TypeOK, FrontIsRunning, TurnInv, RowsInv, ReasonIsGiven, Mirrored, [Next]_vars
      PROVE  Mirrored'
    <2>1. CASE Shutdown
        BY <2>1 DEF Shutdown, Mirrored
    <2>2. CASE Next /\ ~Shutdown
        <3>1. ~stopped /\ QueueMove
            BY <1>2, <2>2, NextMove
        <3>2. CASE Shown
            BY <3>2 DEF Shown, Mirrored
        <3>3. CASE ~Shown
            <4>1. cancel.why # "kill" /\ Sound /\ RowsHaveATurn
                BY <1>2, <3>1 DEF ReasonIsGiven, TurnInv, RowsInv
            <4>2. /\ UNCHANGED <<version, queue_changed>>
                  /\ Retain(pending_inputs', Reorderable(running_task'))
                         = Retain(pending_inputs, Reorderable(running_task))
                BY <1>2, <3>1, <3>3, <4>1, QuietMove
            <4>3. BuildQueueWire(pending_inputs', running_task', version')
                      = BuildQueueWire(pending_inputs, running_task, version)
                BY <4>2, SameWire
            <4> QED
                BY <1>2, <3>1, <4>2, <4>3 DEF Mirrored
        <3> QED
            BY <3>2, <3>3
    <2>3. CASE UNCHANGED vars
        BY <1>2, <2>3 DEF vars, queueVars, loopVars, Mirrored
    <2> QED
        BY <1>2, <2>1, <2>2, <2>3
<1>3. TypeOK /\ FrontIsRunning /\ TurnInv /\ RowsInv /\ ReasonIsGiven /\ Mirrored /\ [Next]_vars
          => Mirrored'
    BY <1>2
<1>4. Mirrored => MirrorIsFresh
    BY DEF Mirrored, MirrorIsFresh, Ready
<1> QED
    BY <1>1, <1>3, <1>4, TypeCorrect, FrontCorrect, TurnsCorrect, RowsCorrect, ReasonCorrect, PTL
    DEF Spec

-----------------------------------------------------------------------------
(* The order of queued prompts *)

\* In a sequence without repetition, Before is a strict order of its members.
LEMMA BeforeOrders ==
    ASSUME NEW S, NEW q \in Seq(S), IsInjective(q), NEW x, NEW y
    PROVE  /\ Before(q, x, y) => x \in Range(q) /\ y \in Range(q) /\ x # y /\ ~Before(q, y, x)
           /\ x \in Range(q) /\ y \in Range(q) /\ x # y => Before(q, x, y) \/ Before(q, y, x)
PROOF
<1>1. \A i \in DOMAIN q : i \in Nat
    OBVIOUS
<1>2. \A i, j \in DOMAIN q : q[i] = q[j] => i = j
    BY DEF IsInjective
<1>3. ASSUME Before(q, x, y)
      PROVE  x \in Range(q) /\ y \in Range(q) /\ x # y /\ ~Before(q, y, x)
    <2>1. PICK i, j \in DOMAIN q : i < j /\ q[i] = x /\ q[j] = y
        BY <1>3 DEF Before
    <2>2. x # y
        BY <1>1, <1>2, <2>1
    <2>3. ASSUME NEW h \in DOMAIN q, NEW k \in DOMAIN q, h < k, q[h] = y, q[k] = x
          PROVE  FALSE
        <3>1. h = j /\ k = i
            BY <1>2, <2>1, <2>3
        <3> QED
            BY <1>1, <2>1, <2>3, <3>1
    <2> QED
        BY <2>1, <2>2, <2>3 DEF Before, Range
<1>4. ASSUME x \in Range(q), y \in Range(q), x # y
      PROVE  Before(q, x, y) \/ Before(q, y, x)
    <2>1. PICK i \in DOMAIN q, j \in DOMAIN q : q[i] = x /\ q[j] = y
        BY <1>4 DEF Range
    <2>2. i < j \/ j < i
        BY <1>1, <1>4, <2>1
    <2> QED
        BY <2>1, <2>2 DEF Before
<1> QED
    BY <1>3, <1>4

\* The members that u has of q, it has in the order they have in q.
KeepsOrder(q, u) == \A x, y \in Range(u) : Before(q, x, y) => Before(u, x, y)

\* ... and then u adds nothing to their order.
LEMMA OrderReflected ==
    ASSUME NEW S, NEW q \in Seq(S), IsInjective(q), NEW u \in Seq(S), IsInjective(u),
           KeepsOrder(q, u), NEW x \in Range(q), NEW y \in Range(q), Before(u, x, y)
    PROVE  Before(q, x, y)
PROOF
<1>1. x # y /\ x \in Range(u) /\ y \in Range(u) /\ ~Before(u, y, x)
    BY BeforeOrders
<1>2. ~Before(q, y, x)
    BY <1>1 DEF KeepsOrder
<1> QED
    BY <1>1, <1>2, BeforeOrders

LEMMA RetainKeepsOrder ==
    ASSUME NEW S, NEW q \in Seq(S), NEW K
    PROVE  KeepsOrder(q, Retain(q, K))
PROOF
<1> DEFINE u == Retain(q, K)  I == Kept(q, K)
<1>1. SUFFICES ASSUME NEW x \in Range(u), NEW y \in Range(u), Before(q, x, y)
               PROVE  Before(u, x, y)
    BY DEF KeepsOrder
<1>2. x \in K /\ y \in K
    BY RetainType
<1>3. PICK i, j \in DOMAIN q : i < j /\ q[i] = x /\ q[j] = y
    BY <1>1 DEF Before
<1>4. i \in I /\ j \in I
    BY <1>2, <1>3 DEF Kept
<1>5. /\ Rank(I, i) \in DOMAIN u /\ u[Rank(I, i)] = x
      /\ Rank(I, j) \in DOMAIN u /\ u[Rank(I, j)] = y
      /\ Rank(I, i) < Rank(I, j)
    BY <1>3, <1>4, RetainIndex
<1> HIDE DEF u, I
<1> QED
    BY <1>5 DEF Before

LEMMA TailKeepsOrder ==
    ASSUME NEW S, NEW q \in Seq(S), q # <<>>, IsInjective(q)
    PROVE  KeepsOrder(q, Tail(q))
PROOF
<1> DEFINE u == Tail(q)
<1>1. /\ Len(q) \in Nat /\ DOMAIN q = 1 .. Len(q) /\ Head(q) = q[1]
      /\ DOMAIN u = 1 .. Len(q) - 1 /\ \A k \in 1 .. Len(q) - 1 : u[k] = q[k + 1]
    OBVIOUS
<1>2. Head(q) \notin Range(u)
    BY TailLists DEF Lists
<1> HIDE DEF u
<1>3. SUFFICES ASSUME NEW x \in Range(u), NEW y \in Range(u), Before(q, x, y)
               PROVE  Before(u, x, y)
    BY DEF KeepsOrder, u
<1>4. PICK i, j \in 1 .. Len(q) : i < j /\ q[i] = x /\ q[j] = y
    BY <1>1, <1>3 DEF Before
<1>5. i # 1
    BY <1>1, <1>2, <1>4
<1>6. /\ i - 1 \in 1 .. Len(q) - 1 /\ j - 1 \in 1 .. Len(q) - 1 /\ i - 1 < j - 1
      /\ (i - 1) + 1 = i /\ (j - 1) + 1 = j
    BY <1>1, <1>4, <1>5
<1>7. u[i - 1] = x /\ u[j - 1] = y
    BY <1>1, <1>4, <1>6
<1> QED
    BY <1>1, <1>6, <1>7 DEF Before

LEMMA AppendKeepsOrder ==
    ASSUME NEW S, NEW q \in Seq(S), NEW e \in S, e \notin Range(q)
    PROVE  /\ KeepsOrder(q, Append(q, e))
           /\ \A x \in Range(q) : Before(Append(q, e), x, e)
PROOF
<1> DEFINE u == Append(q, e)  n == Len(q) + 1
<1>1. /\ Len(q) \in Nat /\ DOMAIN q = 1 .. Len(q) /\ DOMAIN u = 1 .. n
      /\ u[n] = e /\ \A i \in 1 .. Len(q) : u[i] = q[i] /\ i \in 1 .. n /\ i < n
    OBVIOUS
<1>2. n \in DOMAIN u
    BY <1>1
<1> HIDE DEF u, n
<1>3. KeepsOrder(q, u)
    BY <1>1 DEF KeepsOrder, Before
<1>4. \A x \in Range(q) : Before(u, x, e)
    BY <1>1, <1>2 DEF Before, Range
<1> QED
    BY <1>3, <1>4 DEF u

\* A segment keeps the order of the rest, and stands where it was put.
LEMMA SpliceKeepsOrder ==
    ASSUME NEW S, NEW q \in Seq(S), NEW s \in Seq(S), NEW i \in 1 .. Len(q) + 1
    PROVE  /\ KeepsOrder(q, Splice(q, i, s))
           /\ \A x \in Range(s), k \in DOMAIN q :
                  IF k < i THEN Before(Splice(q, i, s), q[k], x)
                           ELSE Before(Splice(q, i, s), x, q[k])
PROOF
<1> DEFINE u == Splice(q, i, s)  n == Len(s)
<1>1. Spliced(u, q, i, s) /\ Len(q) \in Nat /\ n \in Nat /\ DOMAIN q = 1 .. Len(q)
          /\ DOMAIN s = 1 .. n
    BY SpliceAt
<1> HIDE DEF u, n
<1>2. /\ \A k \in DOMAIN q : ShiftedBy(i, n, k) \in DOMAIN u /\ u[ShiftedBy(i, n, k)] = q[k]
      /\ \A k \in 1 .. n : (i - 1) + k \in DOMAIN u /\ u[(i - 1) + k] = s[k]
    BY <1>1 DEF Spliced, n
<1>3. \A h, k \in DOMAIN q : h < k => ShiftedBy(i, n, h) < ShiftedBy(i, n, k)
    BY <1>1 DEF ShiftedBy
<1>4. KeepsOrder(q, u)
    <2>1. ASSUME NEW x, NEW y, Before(q, x, y)
          PROVE  Before(u, x, y)
        <3>1. PICK h, k \in DOMAIN q : h < k /\ q[h] = x /\ q[k] = y
            BY <2>1 DEF Before
        <3>2. /\ ShiftedBy(i, n, h) \in DOMAIN u /\ u[ShiftedBy(i, n, h)] = x
              /\ ShiftedBy(i, n, k) \in DOMAIN u /\ u[ShiftedBy(i, n, k)] = y
              /\ ShiftedBy(i, n, h) < ShiftedBy(i, n, k)
            BY <1>2, <1>3, <3>1
        <3> QED
            BY <3>2 DEF Before
    <2> QED
        BY <2>1 DEF KeepsOrder
<1>5. ASSUME NEW x \in Range(s), NEW k \in DOMAIN q
      PROVE  IF k < i THEN Before(u, q[k], x) ELSE Before(u, x, q[k])
    <2>1. PICK h \in 1 .. n : s[h] = x
        BY <1>1 DEF Range
    <2>2. /\ ShiftedBy(i, n, k) \in DOMAIN u /\ u[ShiftedBy(i, n, k)] = q[k]
          /\ (i - 1) + h \in DOMAIN u /\ u[(i - 1) + h] = x
        BY <1>2, <2>1
    <2>3. IF k < i THEN ShiftedBy(i, n, k) < (i - 1) + h ELSE (i - 1) + h < ShiftedBy(i, n, k)
        BY <1>1, <2>1 DEF ShiftedBy
    <2> QED
        BY <2>2, <2>3 DEF Before
<1> QED
    BY <1>4, <1>5 DEF u

\* Where a send-now prompt is inserted: behind the running slot and the send-now prompts
\* that follow it, in front of the first other one.
LEMMA InsertSendNowAt ==
    ASSUME NEW S, NEW q \in Seq(S), NEW running, NEW sendNow, NEW p \in S
    PROVE  \E m \in RunningSlot(q, running) + 1 .. Len(q) + 1 :
               /\ InsertSendNow(q, running, sendNow, p) = Splice(q, m, <<p>>)
               /\ \A i \in RunningSlot(q, running) + 1 .. m - 1 : q[i] \in sendNow
               /\ m <= Len(q) => q[m] \notin sendNow
PROOF
<1> DEFINE first == RunningSlot(q, running) + 1
           free == {i \in first .. Len(q) + 1 : i = Len(q) + 1 \/ q[i] \notin sendNow}
           m == Min(free)
<1>1. Len(q) \in Nat /\ first \in 1 .. Len(q) + 1
    BY RunningSlotType
<1>2. Len(q) + 1 \in free /\ \A i \in free : i \in Nat
    BY <1>1
<1>3. m \in free /\ \A i \in free : m <= i
    BY <1>2, MinOfNaturals
<1>4. InsertSendNow(q, running, sendNow, p) = InsertAt(q, m, p)
    BY Zenon DEF InsertSendNow
<1>5. InsertAt(q, m, p) = Splice(q, m, <<p>>)
    <2> HIDE DEF m
    <2> QED
        BY Zenon DEF InsertAt, Splice
<1> HIDE DEF m
<1>6. m \in first .. Len(q) + 1 /\ (m <= Len(q) => q[m] \notin sendNow)
    BY <1>1, <1>3
<1>7. ASSUME NEW i \in first .. m - 1
      PROVE  q[i] \in sendNow
    <2>1. i \in first .. Len(q) + 1 /\ i < m
        BY <1>1, <1>6
    <2>2. i \notin free
        BY <1>1, <1>3, <2>1
    <2> QED
        BY <2>1, <2>2
<1> QED
    BY <1>4, <1>5, <1>6, <1>7

-----------------------------------------------------------------------------
(* Send-now prompts *)

\* Nothing stands in front of a send-now prompt but send-now prompts and the running turn.
Ahead(q, running, marked) ==
    \A x, y : Before(q, x, y) /\ y \in marked => x \in marked \cup {running}

\* A prompt is marked when it is sent, or later.
SendNowSent == \A p \in send_now : fate[p] # "unsent"

\* The running turn is in front, if it is queued at all.
Leads(q, running) == running \in Range(q) => AtFront(q, running)

\* In the terms of the property: the slot of the running turn apart, they are first.
LEMMA AheadFirst ==
    ASSUME NEW q \in Seq(Prompts), IsInjective(q), NEW running, NEW marked,
           Ahead(q, running, marked), Leads(q, running),
           NEW i \in RunningSlot(q, running) + 1 .. Len(q),
           NEW j \in RunningSlot(q, running) + 1 .. Len(q), i < j, q[j] \in marked
    PROVE  q[i] \in marked
PROOF
<1>1. Len(q) \in Nat /\ DOMAIN q = 1 .. Len(q) /\ (q # <<>> => Head(q) = q[1])
    OBVIOUS
<1>2. RunningSlot(q, running) \in {0, 1}
    BY RunningSlotType
<1>3. i \in DOMAIN q /\ j \in DOMAIN q /\ i >= RunningSlot(q, running) + 1
    BY <1>1, <1>2
<1>4. Before(q, q[i], q[j])
    BY <1>3 DEF Before
<1>5. q[i] \in marked \cup {running}
    BY <1>4 DEF Ahead
<1>6. ASSUME q[i] = running
      PROVE  FALSE
    <2>1. running \in Range(q) /\ running \in Prompts
        BY <1>3, <1>6, EmptyRange DEF Range
    <2>2. q # <<>> /\ Head(q) = running /\ running # None
        BY <2>1, QueueConstants DEF Leads, AtFront
    <2>3. RunningSlot(q, running) = 1
        BY <2>2 DEF RunningSlot
    <2>4. i # 1 /\ 1 \in DOMAIN q /\ q[1] = q[i]
        BY <1>1, <1>3, <1>6, <2>2, <2>3
    <2> QED
        BY <1>3, <2>4 DEF IsInjective
<1> QED
    BY <1>5, <1>6

\* Taking prompts out keeps send-now prompts ahead.
LEMMA FewerAhead ==
    ASSUME NEW q \in Seq(Prompts), IsInjective(q), NEW u \in Seq(Prompts), IsInjective(u),
           KeepsOrder(q, u), Range(u) \subseteq Range(q), NEW running, NEW marked,
           Ahead(q, running, marked)
    PROVE  Ahead(u, running, marked)
PROOF
<1>1. SUFFICES ASSUME NEW x, NEW y, Before(u, x, y), y \in marked
               PROVE  x \in marked \cup {running}
    BY DEF Ahead
<1>2. x \in Range(q) /\ y \in Range(q)
    BY <1>1, BeforeOrders
<1>3. Before(q, x, y)
    BY <1>1, <1>2, OrderReflected
<1> QED
    BY <1>1, <1>3 DEF Ahead

\* So does a last prompt that is not marked.
LEMMA AppendAhead ==
    ASSUME NEW q \in Seq(Prompts), IsInjective(q), NEW p \in Prompts, p \notin Range(q),
           NEW running, NEW marked, p \notin marked, Ahead(q, running, marked)
    PROVE  Ahead(Append(q, p), running, marked)
PROOF
<1> DEFINE u == Append(q, p)
<1>1. u \in Seq(Prompts) /\ IsInjective(u) /\ Range(u) = Range(q) \cup {p}
    <2>1. Lists(q, Range(q))
        BY DEF Lists
    <2>2. Lists(u, Range(q) \cup {p})
        BY <2>1, AppendLists, Zenon
    <2> QED
        BY <2>2 DEF Lists
<1>2. KeepsOrder(q, u) /\ \A x \in Range(q) : Before(u, x, p)
    BY AppendKeepsOrder, Zenon
<1> HIDE DEF u
<1>3. SUFFICES ASSUME NEW x, NEW y, Before(u, x, y), y \in marked
               PROVE  x \in marked \cup {running}
    BY DEF Ahead, u
<1>4. x \in Range(u) /\ y \in Range(q) /\ ~Before(u, y, x)
    BY <1>1, <1>3, BeforeOrders
<1>5. x \in Range(q)
    BY <1>1, <1>2, <1>4
<1>6. Before(q, x, y)
    BY <1>1, <1>2, <1>3, <1>4, <1>5, OrderReflected
<1> QED
    BY <1>3, <1>6 DEF Ahead

\* So does a segment that becomes marked, put behind marked prompts and the running turn.
LEMMA SpliceAhead ==
    ASSUME NEW q \in Seq(Prompts), IsInjective(q), NEW s \in Seq(Prompts),
           NEW m \in 1 .. Len(q) + 1, NEW u \in Seq(Prompts), u = Splice(q, m, s),
           Lists(u, Range(q) \cup Range(s)),
           NEW running, NEW marked, Ahead(q, running, marked),
           \A i \in DOMAIN q : i < m => q[i] \in marked \cup {running}
    PROVE  Ahead(u, running, marked \cup Range(s))
PROOF
<1>1. IsInjective(u) /\ Range(u) = Range(q) \cup Range(s)
    BY DEF Lists
<1>2. KeepsOrder(q, u)
    BY SpliceKeepsOrder
<1>3. ASSUME NEW x \in Range(s), NEW k \in DOMAIN q, ~(k < m)
      PROVE  Before(u, x, q[k])
    BY <1>3, SpliceKeepsOrder
<1>4. SUFFICES ASSUME NEW x, NEW y, Before(u, x, y), y \in marked \cup Range(s), x \notin Range(s)
               PROVE  x \in marked \cup {running}
    BY DEF Ahead
<1>5. x \in Range(q) /\ y \in Range(u) /\ ~Before(u, y, x)
    BY <1>1, <1>4, BeforeOrders
<1>6. CASE y \in Range(s)
    <2>1. PICK k \in DOMAIN q : q[k] = x
        BY <1>5 DEF Range
    <2>2. k < m
        BY <1>3, <1>5, <1>6, <2>1
    <2> QED
        BY <2>1, <2>2
<1>7. CASE y \notin Range(s)
    <2>1. y \in marked /\ y \in Range(q)
        BY <1>1, <1>4, <1>5, <1>7
    <2>2. Before(q, x, y)
        BY <1>1, <1>2, <1>4, <1>5, <2>1, OrderReflected
    <2> QED
        BY <2>1, <2>2 DEF Ahead
<1> QED
    BY <1>6, <1>7

\* What stands in front of the place of a fallback or of a send-now prompt.
LEMMA SlotIsRunning ==
    ASSUME NEW q \in Seq(Prompts), NEW running, NEW i \in DOMAIN q,
           i < RunningSlot(q, running) + 1
    PROVE  q[i] = running
PROOF
<1>1. i \in Nat /\ i >= 1 /\ RunningSlot(q, running) \in {0, 1}
    BY RunningSlotType
<1>2. i = 1 /\ RunningSlot(q, running) = 1
    BY <1>1
<1>3. q # <<>> /\ Head(q) = running
    BY <1>2, RunningSlotType
<1> QED
    BY <1>2, <1>3

LEMMA InsertSendNowAhead ==
    ASSUME NEW q \in Seq(Prompts), IsInjective(q), NEW p \in Prompts, p \notin Range(q),
           NEW running, NEW marked, Ahead(q, running, marked)
    PROVE  Ahead(InsertSendNow(q, running, marked, p), running, marked \cup {p})
PROOF
<1> DEFINE u == InsertSendNow(q, running, marked, p)  s == <<p>>
           r == RunningSlot(q, running)
<1>1. s \in Seq(Prompts) /\ Range(s) = {p}
    BY SingletonLists DEF Lists
<1>2. Lists(u, Range(q) \cup {p}) /\ u \in Seq(Prompts)
    <2>1. Lists(q, Range(q))
        BY DEF Lists
    <2> QED
        BY <2>1, InsertSendNowLists, InsertSendNowType
<1>3. PICK m \in r + 1 .. Len(q) + 1 :
          u = Splice(q, m, s) /\ \A i \in r + 1 .. m - 1 : q[i] \in marked
    BY InsertSendNowAt
<1>4. r \in {0, 1} /\ Len(q) \in Nat /\ DOMAIN q = 1 .. Len(q)
    BY RunningSlotType
<1>5. m \in 1 .. Len(q) + 1
    BY <1>4
<1>6. ASSUME NEW i \in DOMAIN q, i < m
      PROVE  q[i] \in marked \cup {running}
    <2>1. CASE i < r + 1
        BY <2>1, SlotIsRunning
    <2>2. CASE ~(i < r + 1)
        <3>1. i \in r + 1 .. m - 1
            BY <1>4, <1>5, <1>6, <2>2
        <3> QED
            BY <1>3, <3>1
    <2> QED
        BY <2>1, <2>2
<1> HIDE DEF u, s, r
<1>7. Ahead(u, running, marked \cup Range(s))
    BY <1>1, <1>2, <1>3, <1>5, <1>6, SpliceAhead
<1> QED
    BY <1>1, <1>7 DEF u

-----------------------------------------------------------------------------
(* What a move does to the order *)

\* What a sweep leaves
LEMMA SweepsKeep ==
    ASSUME TypeOK, Holding, NEW k, NEW gone, Sweeps(k, gone)
    PROVE  /\ k \in Seq(Prompts) /\ IsInjective(k) /\ Range(k) = Range(pending_inputs) \ gone
           /\ KeepsOrder(pending_inputs, k)
PROOF
<1>1. pending_inputs \in Seq(Prompts) /\ k = Retain(pending_inputs, Prompts \ gone)
    BY DEF TypeOK, QueueType, Sweeps
<1>2. Lists(k, Range(pending_inputs) \ gone)
    BY <1>1, RetainRest
<1> QED
    BY <1>1, <1>2, RetainType, RetainKeepsOrder DEF Lists

\* Send-now prompts stay ahead of the others, and who becomes marked is in the queue.
LEMMA MoveAhead ==
    ASSUME TypeOK, Sound, ~stopped, FrontIsRunning, QueueMove, "ReorderQueue" \notin Commands,
           SendNowSent, Ahead(pending_inputs, running_task, send_now)
    PROVE  /\ Ahead(pending_inputs', running_task', send_now')
           /\ send_now' \subseteq send_now \cup Range(pending_inputs')
PROOF
<1> DEFINE q == pending_inputs  r == running_task  S == send_now
<1>1. q \in Seq(Prompts) /\ IsInjective(q) /\ Lists(q, Range(q)) /\ Holding
    BY DEF TypeOK, QueueType, Sound, Holding, Lists
<1>2. ASSUME NEW k, NEW gone, Sweeps(k, gone)
      PROVE  /\ k \in Seq(Prompts) /\ IsInjective(k) /\ Range(k) = Range(q) \ gone
             /\ Ahead(k, r, S)
    BY <1>1, <1>2, SweepsKeep, FewerAhead
<1>3. CASE MoveNothing \/ MoveRow
    BY <1>3 DEF MoveNothing, MoveRow
<1>4. CASE MovePromote
    <2>1. UNCHANGED <<pending_inputs, send_now>> /\ r = None
        BY <1>4 DEF MovePromote
    <2>2. \A x, y : Before(q, x, y) => x \in Prompts
        BY <1>1, BeforeOrders, EmptyRange
    <2> QED
        BY <2>1, <2>2, QueueConstants DEF Ahead
<1>5. CASE MoveRemove
    BY <1>2, <1>5 DEF MoveRemove
<1>6. CASE MoveAppend
    <2>1. PICK p, k :
              /\ p \in Prompts
              /\ fate[p] = "unsent" /\ pending_inputs' = Append(k, p)
              /\ k = q \/ \E gone : Sweeps(k, gone)
              /\ UNCHANGED <<send_now, running_task>>
        BY <1>6, Zenon DEF MoveAppend
    <2>2. k \in Seq(Prompts) /\ IsInjective(k) /\ Range(k) \subseteq Range(q) /\ Ahead(k, r, S)
        BY <1>1, <1>2, <2>1
    <2>3. p \in Prompts /\ p \notin Range(k) /\ p \notin S
        BY <1>1, <2>1, <2>2, UnsentNotQueued DEF SendNowSent
    <2>4. Ahead(Append(k, p), r, S)
        BY <2>2, <2>3, AppendAhead, Zenon
    <2> QED
        BY <2>1, <2>4, Zenon
<1>7. ASSUME NEW p \in Prompts, NEW k, NEW gone, Sweeps(k, gone), p \notin Range(k),
             pending_inputs' = InsertSendNow(k, r, S, p), send_now' = S \cup {p},
             UNCHANGED running_task
      PROVE  /\ Ahead(pending_inputs', running_task', send_now')
             /\ send_now' \subseteq S \cup Range(pending_inputs')
    <2>1. k \in Seq(Prompts) /\ IsInjective(k) /\ Ahead(k, r, S)
        BY <1>2, <1>7
    <2>2. Ahead(InsertSendNow(k, r, S, p), r, S \cup {p})
        BY <1>7, <2>1, InsertSendNowAhead
    <2>3. Lists(InsertSendNow(k, r, S, p), Range(k) \cup {p})
        BY <1>7, <2>1, InsertSendNowLists DEF Lists
    <2> QED
        BY <1>7, <2>2, <2>3 DEF Lists
<1>8. CASE MoveInsert
    <2>1. PICK p, k, gone :
              /\ p \in Prompts
              /\ fate[p] = "unsent" /\ Sweeps(k, gone)
              /\ pending_inputs' = InsertSendNow(k, r, S, p) /\ send_now' = S \cup {p}
              /\ UNCHANGED running_task
        BY <1>8 DEF MoveInsert
    <2>2. p \notin Range(k)
        BY <1>1, <1>2, <2>1, UnsentNotQueued
    <2> QED
        BY <1>7, <2>1, <2>2
<1>9. CASE MovePull
    <2>1. PICK p, k :
              /\ p \in Range(q)
              /\ Sweeps(k, {p}) /\ pending_inputs' = InsertSendNow(k, r, S, p)
              /\ send_now' = S \cup {p} /\ UNCHANGED running_task
        BY <1>9 DEF MovePull
    <2>2. p \in Prompts /\ p \notin Range(k)
        BY <1>1, <1>2, <2>1, EmptyRange
    <2> QED
        BY <1>7, <2>1, <2>2
<1>10. CASE MoveFlush
    <2> DEFINE m == RunningSlot(q, r) + 1
    <2>1. PICK s \in Seq(Prompts) :
              /\ IsInjective(s) /\ \A x \in Range(s) : x \notin Range(q)
              /\ pending_inputs' = Splice(q, m, s) /\ send_now' = S \cup Range(s)
              /\ UNCHANGED running_task
        BY <1>10 DEF MoveFlush
    <2>2. m \in 1 .. Len(q) + 1
        BY <1>1, RunningSlotType
    <2>3. /\ Splice(q, m, s) \in Seq(Prompts)
          /\ Lists(Splice(q, m, s), Range(q) \cup Range(s))
        <3>1. InsertAllFallbacks(q, r, s) = Splice(q, m, s)
            BY FallbacksSplice
        <3>2. Lists(InsertAllFallbacks(q, r, s), Range(q) \cup Range(s))
            BY <1>1, <2>1, InsertAllFallbacksLists DEF Lists
        <3> QED
            BY <1>1, <2>1, <2>2, <3>1, <3>2, SpliceAt
    <2>4. \A i \in DOMAIN q : i < m => q[i] \in S \cup {r}
        BY <1>1, SlotIsRunning
    <2> HIDE DEF m
    <2>5. Ahead(Splice(q, m, s), r, S \cup Range(s))
        BY <1>1, <2>1, <2>2, <2>3, <2>4, SpliceAhead
    <2> QED
        BY <2>1, <2>3, <2>5 DEF Lists
<1>11. CASE MovePop
    <2>1. /\ q # <<>> /\ pending_inputs' = Tail(q) /\ r \in {None, Head(q)}
          /\ running_task' = None /\ UNCHANGED send_now
        BY <1>11 DEF MovePop
    <2>2. Tail(q) \in Seq(Prompts) /\ Lists(Tail(q), Range(q) \ {Head(q)})
        BY <1>1, <2>1, TailLists
    <2>3. Ahead(Tail(q), r, S)
        BY <1>1, <2>1, <2>2, TailKeepsOrder, FewerAhead DEF Lists
    <2>4. \A x, y : Before(Tail(q), x, y) => x \in Range(q) \ {Head(q)}
        BY <2>2, BeforeOrders DEF Lists
    <2>5. \A x \in Range(q) \ {Head(q)} : x # r
        BY <1>1, <2>1, EmptyRange, QueueConstants
    <2> QED
        BY <2>1, <2>3, <2>4, <2>5 DEF Ahead
<1>12. CASE MoveEmpty
    <2>1. \A x, y : ~Before(<<>>, x, y)
        BY DEF Before
    <2> QED
        BY <1>12, <2>1 DEF MoveEmpty, Ahead
<1> QED
    BY <1>3, <1>4, <1>5, <1>6, <1>8, <1>9, <1>10, <1>11, <1>12 DEF QueueMove, MoveRows

\* A prompt that was sent stays sent.
LEMMA SentStaysSent ==
    ASSUME TypeOK, TypeOK', PopHasCompletion, FrontIsRunning, TurnInv, [Next]_vars,
           NEW p \in Prompts, fate[p] # "unsent"
    PROVE  fate'[p] # "unsent"
PROOF
<1>1. LedgerStep
    BY NextLedger
<1>2. fate \in [Prompts -> Fates]
    BY DEF TypeOK, SeenType
<1>3. ASSUME NEW P, NEW o, o # "unsent"
      PROVE  Ledger!Told(P, o)[p] # "unsent" /\ DOMAIN Ledger!Told(P, o) = Prompts
    BY <1>2, <1>3 DEF Ledger!Told
<1>4. CASE UNCHANGED fate
    BY <1>4
<1>5. CASE \E P, o : o # "unsent" /\ fate' = Ledger!Told(P, o)
    BY <1>3, <1>5
<1>6. CASE \E P, x : fate' = [Ledger!Told(P, "dropped") EXCEPT ![x] = "pending"]
    BY <1>3, <1>6
<1> QED
    BY <1>1, <1>4, <1>5, <1>6
    DEF LedgerStep, Ledger!ledgerVars, Ledger!Next, Ledger!Start, Ledger!Complete, Ledger!Release,
        Ledger!Accept, Ledger!Resolve, Ledger!ShutDown, Ledger!UnstartedOutcomes,
        Ledger!InterruptedOutcomes

-----------------------------------------------------------------------------
\* Marked prompts were sent and are ahead; a session that was shut down keeps its queue.
SendNowInv ==
    /\ SendNowSent /\ Ahead(pending_inputs, running_task, send_now)
    /\ stopped => SendNowFirst

LEMMA ShutdownAhead ==
    ASSUME TypeOK, TypeOK', Sound, FrontIsRunning, Ahead(pending_inputs, running_task, send_now),
           Shutdown
    PROVE  Ahead(pending_inputs', running_task', send_now') /\ SendNowFirst'
PROOF
<1> DEFINE q == pending_inputs  u == pending_inputs'  r == running_task  S == send_now
           gone == {p \in Range(q) : IsSynthetic(p)}
<1>1. q \in Seq(Prompts) /\ u \in Seq(Prompts) /\ IsInjective(q) /\ Holding
    BY DEF TypeOK, QueueType, Sound, Holding
<1>2. ~stopped /\ u = Retain(q, Prompts \ gone) /\ UNCHANGED <<running_task, send_now>>
    BY DEF Shutdown, Ready
<1> HIDE DEF gone
<1>3. Lists(u, Range(q) \ gone) /\ KeepsOrder(q, u)
    BY <1>1, <1>2, RetainRest, RetainKeepsOrder
<1>4. Ahead(u, r, S)
    BY <1>1, <1>3, FewerAhead DEF Lists
<1>5. Leads(u, r)
    <2>1. ASSUME r \in Range(u)
          PROVE  AtFront(u, r)
        <3>1. r \in Range(q) /\ r \notin gone /\ r \in Prompts
            BY <1>1, <1>3, <2>1, EmptyRange DEF Lists
        <3>2. AtFront(q, r)
            BY <1>2, <3>1, QueueConstants DEF FrontIsRunning, AtFront
        <3> QED
            BY <1>1, <1>2, <3>1, <3>2, RetainFront
    <2> QED
        BY <2>1 DEF Leads
<1>6. ASSUME NEW i \in RunningSlot(u, r) + 1 .. Len(u), NEW j \in RunningSlot(u, r) + 1 .. Len(u),
             i < j, u[j] \in S
      PROVE  u[i] \in S
    BY <1>1, <1>3, <1>4, <1>5, <1>6, AheadFirst DEF Lists
<1> QED
    BY <1>2, <1>4, <1>6 DEF SendNowFirst

\* The main loop returns from no other handler.
LEMMA OnlyShutdownStops ==
    ASSUME Next, ~Shutdown
    PROVE  UNCHANGED stopped
PROOF
<1>1. CASE QueueCommand
    BY <1>1 DEF QueueCommand, RemoveQueuedPrompt, ClearQueue, ReorderQueue, EditQueuedPrompt,
       InterjectQueuedPrompt, EditsOnlyTheQueue
<1>2. CASE Command /\ ~QueueCommand
    BY <1>2 DEF Command, Prompt, Interject, GoalSummaryTurn, RestorePlanApproval, Cancel,
       InjectNotification, DropMonitorNotifications, NotificationStep, loopVars
<1>3. CASE \/ CancelBegin \/ CancelTake \/ CancelGoal \/ CancelAbort \/ CancelFinish \/ Unsuppress
           \/ StartStep \/ DrainStep
    BY <1>3 DEF CancelBegin, CancelTake, CancelGoal, CancelAbort, CancelFinish, Unsuppress, StartStep,
       AfterStart, DrainStep
<1>4. CASE \/ Completion \/ PopCompleted \/ TurnEnd \/ TurnEndPausesGoal \/ PauseGoal
           \/ FlushStranded \/ \E p \in Prompts : TurnEndContinuesGoal(p)
    BY <1>4 DEF Completion, PopCompleted, TurnEnd, TurnEndPausesGoal, PauseGoal,
       TurnEndContinuesGoal, GoalStep, FlushStranded
<1>5. CASE HelperTask
    BY <1>5 DEF HelperTask, McpInitialized, PlanAbandoned, PlanResumeQueued, PlanResumeStarted,
       AfterStart, loopVars
<1> QED
    BY <1>1, <1>2, <1>3, <1>4, <1>5, TurnKeepsSlot DEF Next, MainLoop

LEMMA NextSendNow ==
    ASSUME TypeOK, TypeOK', PopHasCompletion, FrontIsRunning, TurnInv, TurnInv', SendNowInv,
           [Next]_vars, "ReorderQueue" \notin Commands
    PROVE  SendNowInv'
PROOF
<1>1. \A p \in Prompts : fate[p] # "unsent" => fate'[p] # "unsent"
    BY SentStaysSent
<1>2. send_now \subseteq Prompts /\ SendNowSent /\ Ahead(pending_inputs, running_task, send_now)
    BY DEF TypeOK, QueueType, SendNowInv
<1>3. CASE Shutdown
    <2>1. ~stopped /\ UNCHANGED send_now
        BY <1>3 DEF Shutdown, Ready
    <2>2. Sound
        BY <2>1 DEF TurnInv
    <2> QED
        BY <1>1, <1>2, <1>3, <2>1, <2>2, ShutdownAhead DEF SendNowInv, SendNowSent
<1>4. CASE Next /\ ~Shutdown
    <2>1. ~stopped /\ QueueMove
        BY <1>4, NextMove
    <2>2. /\ Ahead(pending_inputs', running_task', send_now')
          /\ send_now' \subseteq send_now \cup Range(pending_inputs')
        BY <1>2, <2>1, MoveAhead DEF TurnInv
    <2>3. ~stopped'
        BY <1>4, <2>1, OnlyShutdownStops
    <2>4. \A p \in Range(pending_inputs') : p \in Prompts /\ fate'[p] = "pending"
        BY <2>3, EmptyRange DEF TypeOK, QueueType, TurnInv, Sound, Holding, Held
    <2>5. SendNowSent'
        BY <1>1, <1>2, <2>2, <2>4 DEF SendNowSent
    <2> QED
        BY <2>2, <2>3, <2>5 DEF SendNowInv
<1>5. CASE UNCHANGED vars
    <2>1. UNCHANGED <<pending_inputs, running_task, send_now, stopped>>
        BY <1>5 DEF vars, queueVars, loopVars
    <2> QED
        BY <1>1, <1>2, <2>1 DEF SendNowInv, SendNowSent, SendNowFirst
<1> QED
    BY <1>3, <1>4, <1>5

LEMMA SendNowCorrect ==
    ASSUME "ReorderQueue" \notin Commands
    PROVE  Spec => []SendNowInv
PROOF
<1>1. Init => SendNowInv
    <2>1. \A x, y : ~Before(<<>>, x, y)
        BY DEF Before
    <2> QED
        BY <2>1 DEF Init, SendNowInv, SendNowSent, Ahead
<1>2. TypeOK /\ TypeOK' /\ PopHasCompletion /\ FrontIsRunning /\ TurnInv /\ TurnInv'
          /\ SendNowInv /\ [Next]_vars => SendNowInv'
    BY NextSendNow
<1> QED
    BY <1>1, <1>2, TypeCorrect, FrontCorrect, TurnsCorrect, PTL DEF Spec

\* Behind the running turn, send-now prompts and flushed interjections come before everything
\* that was queued for later, as long as no client reorders the rows: whatever is swept,
\* preempted, cancelled or queued in between.
THEOREM SendNowFirstCorrect ==
    ASSUME "ReorderQueue" \notin Commands
    PROVE  Spec => []SendNowFirst
PROOF
<1>1. ASSUME TypeOK, FrontIsRunning, TurnInv, SendNowInv
      PROVE  SendNowFirst
    <2> DEFINE q == pending_inputs  r == running_task  S == send_now
    <2>1. CASE stopped
        BY <1>1, <2>1 DEF SendNowInv
    <2>2. CASE ~stopped
        <3>1. q \in Seq(Prompts) /\ IsInjective(q) /\ Ahead(q, r, S)
            BY <1>1, <2>2 DEF TypeOK, QueueType, TurnInv, Sound, Holding, SendNowInv
        <3>2. Leads(q, r)
            BY <1>1, <2>2, <3>1, EmptyRange, QueueConstants DEF Leads, AtFront, FrontIsRunning
        <3>3. ASSUME NEW i \in RunningSlot(q, r) + 1 .. Len(q),
                     NEW j \in RunningSlot(q, r) + 1 .. Len(q), i < j, q[j] \in S
              PROVE  q[i] \in S
            BY <3>1, <3>2, <3>3, AheadFirst
        <3> QED
            BY <3>3 DEF SendNowFirst
    <2> QED
        BY <2>1, <2>2
<1>2. TypeOK /\ FrontIsRunning /\ TurnInv /\ SendNowInv => SendNowFirst
    BY <1>1
<1> QED
    BY <1>2, SendNowCorrect, TypeCorrect, FrontCorrect, TurnsCorrect, PTL

-----------------------------------------------------------------------------
\* A new send-now prompt goes behind every marked one.
LEMMA InsertBehind ==
    ASSUME NEW q \in Seq(Prompts), IsInjective(q), NEW p \in Prompts, NEW running, NEW marked,
           Ahead(q, running, marked), Leads(q, running), NEW x \in Range(q), x \in marked
    PROVE  Before(InsertSendNow(q, running, marked, p), x, p)
PROOF
<1> DEFINE r == RunningSlot(q, running)  s == <<p>>
<1>1. PICK m \in r + 1 .. Len(q) + 1 :
          /\ InsertSendNow(q, running, marked, p) = Splice(q, m, s)
          /\ m <= Len(q) => q[m] \notin marked
    BY InsertSendNowAt
<1>2. /\ r \in {0, 1} /\ Len(q) \in Nat /\ DOMAIN q = 1 .. Len(q)
      /\ s \in Seq(Prompts) /\ Range(s) = {p}
    BY RunningSlotType, SingletonLists DEF Lists
<1>3. PICK k \in DOMAIN q : q[k] = x
    BY DEF Range
<1>4. k < m
    <2>1. SUFFICES ASSUME ~(k < m)
                   PROVE  FALSE
        OBVIOUS
    <2>2. m \in DOMAIN q /\ m <= Len(q) /\ m \in r + 1 .. Len(q) /\ k \in r + 1 .. Len(q)
        BY <1>2, <1>3, <2>1
    <2>3. q[m] \notin marked /\ m < k
        BY <1>1, <1>2, <1>3, <2>1, <2>2
    <2> QED
        BY <1>3, <2>2, <2>3, AheadFirst
<1> HIDE DEF s
<1>5. m \in 1 .. Len(q) + 1 /\ p \in Range(s)
    BY <1>2
<1>6. Before(Splice(q, m, s), q[k], p)
    BY <1>2, <1>3, <1>4, <1>5, SpliceKeepsOrder
<1> QED
    BY <1>1, <1>3, <1>6

\* A move by which no client rearranges the rows keeps the order of what stays queued.
LEMMA MoveKeepsOrder ==
    ASSUME TypeOK, Sound, QueueMove, "ReorderQueue" \notin Commands,
           "InterjectQueuedPrompt" \notin Commands
    PROVE  KeepsOrder(pending_inputs, pending_inputs')
PROOF
<1> DEFINE q == pending_inputs
<1>1. q \in Seq(Prompts) /\ IsInjective(q) /\ Holding
    BY DEF TypeOK, QueueType, Sound, Holding
<1>2. CASE UNCHANGED pending_inputs
    BY <1>2 DEF KeepsOrder
<1>3. CASE MoveRemove
    BY <1>1, <1>3, SweepsKeep DEF MoveRemove
<1>4. ASSUME NEW k, KeepsOrder(q, k), NEW u, KeepsOrder(k, u), NEW p,
             Range(u) \subseteq Range(k) \cup {p}, p \notin Range(q), Range(k) \subseteq Range(q)
      PROVE  KeepsOrder(q, u)
    <2>1. SUFFICES ASSUME NEW x \in Range(u), NEW y \in Range(u), Before(q, x, y)
                   PROVE  Before(u, x, y)
        BY DEF KeepsOrder
    <2>2. x \in Range(q) /\ y \in Range(q)
        BY <1>1, <2>1, BeforeOrders
    <2>3. x \in Range(k) /\ y \in Range(k)
        BY <1>4, <2>1, <2>2
    <2> QED
        BY <1>4, <2>1, <2>3 DEF KeepsOrder
<1>5. CASE MoveAppend
    <2>1. PICK p, k :
              /\ p \in Prompts
              /\ fate[p] = "unsent" /\ pending_inputs' = Append(k, p)
              /\ k = q \/ \E gone : Sweeps(k, gone)
        BY <1>5, Zenon DEF MoveAppend
    <2>2. k \in Seq(Prompts) /\ KeepsOrder(q, k) /\ Range(k) \subseteq Range(q)
        BY <1>1, <2>1, SweepsKeep DEF KeepsOrder
    <2>3. p \in Prompts /\ p \notin Range(q)
        BY <1>1, <2>1, UnsentNotQueued
    <2> DEFINE u == Append(k, p)
    <2>4. KeepsOrder(k, u) /\ Range(u) = Range(k) \cup {p}
        BY <2>2, <2>3, AppendKeepsOrder, AppendRange, Zenon
    <2> HIDE DEF u
    <2>5. KeepsOrder(q, u)
        BY <1>4, <2>2, <2>3, <2>4
    <2> QED
        BY <2>1, <2>5 DEF u
<1>6. CASE MoveInsert
    <2>1. PICK p, k, gone :
              /\ p \in Prompts
              /\ fate[p] = "unsent" /\ Sweeps(k, gone)
              /\ pending_inputs' = InsertSendNow(k, running_task, send_now, p)
        BY <1>6 DEF MoveInsert
    <2>2. /\ k \in Seq(Prompts) /\ KeepsOrder(q, k) /\ Range(k) \subseteq Range(q)
          /\ Lists(k, Range(k))
        BY <1>1, <2>1, SweepsKeep DEF Lists
    <2>3. p \notin Range(q)
        BY <1>1, <2>1, UnsentNotQueued
    <2> DEFINE s == <<p>>
    <2>4. s \in Seq(Prompts)
        BY <2>1
    <2>5. PICK m \in RunningSlot(k, running_task) + 1 .. Len(k) + 1 :
              pending_inputs' = Splice(k, m, s)
        BY <2>1, <2>2, InsertSendNowAt
    <2>6. m \in 1 .. Len(k) + 1
        BY <2>2, RunningSlotType
    <2> HIDE DEF s
    <2>7. KeepsOrder(k, pending_inputs')
        BY <2>2, <2>4, <2>5, <2>6, SpliceKeepsOrder
    <2>8. Lists(pending_inputs', Range(k) \cup {p})
        BY <2>1, <2>2, <2>3, InsertSendNowLists
    <2> QED
        BY <1>4, <2>2, <2>3, <2>7, <2>8 DEF Lists
<1>7. CASE MoveFlush
    <2>1. PICK s \in Seq(Prompts) :
              pending_inputs' = Splice(q, RunningSlot(q, running_task) + 1, s)
        BY <1>7 DEF MoveFlush
    <2>2. RunningSlot(q, running_task) + 1 \in 1 .. Len(q) + 1
        BY <1>1, RunningSlotType
    <2> QED
        BY <1>1, <2>1, <2>2, SpliceKeepsOrder
<1>8. CASE MovePop
    BY <1>1, <1>8, TailKeepsOrder DEF MovePop
<1>9. CASE MoveEmpty
    BY <1>9, EmptyLists DEF MoveEmpty, KeepsOrder, Lists
<1> QED
    BY <1>2, <1>3, <1>5, <1>6, <1>7, <1>8, <1>9
    DEF QueueMove, MoveNothing, MoveRow, MovePromote, MovePull, MoveRows

\* Who is new among the queued send-now rows was inserted by this move.
LEMMA MoveMarks ==
    ASSUME TypeOK, Sound, SendNowSent, QueueMove, "ReorderQueue" \notin Commands,
           "InterjectQueuedPrompt" \notin Commands,
           NEW y \in Range(pending_inputs') \cap send_now', HasQueueMeta(y),
           y \notin Range(pending_inputs) \cap send_now
    PROVE  \E k, gone : /\ Sweeps(k, gone)
                        /\ pending_inputs' = InsertSendNow(k, running_task, send_now, y)
                        /\ y \notin Range(k) /\ y \in Prompts
PROOF
<1> DEFINE q == pending_inputs
<1>1. q \in Seq(Prompts) /\ IsInjective(q) /\ Holding /\ Lists(q, Range(q))
    BY DEF TypeOK, QueueType, Sound, Holding, Lists
<1>2. ASSUME Range(pending_inputs') \subseteq Range(q), UNCHANGED send_now
      PROVE  FALSE
    BY <1>2
<1>3. CASE MoveNothing \/ MoveRow \/ MovePromote
    BY <1>2, <1>3 DEF MoveNothing, MoveRow, MovePromote
<1>4. CASE MoveRemove
    BY <1>1, <1>2, <1>4, SweepsKeep DEF MoveRemove
<1>5. CASE MoveAppend
    <2>1. PICK p, k :
              /\ p \in Prompts
              /\ fate[p] = "unsent" /\ pending_inputs' = Append(k, p) /\ UNCHANGED send_now
              /\ k = q \/ \E gone : Sweeps(k, gone)
        BY <1>5, Zenon DEF MoveAppend
    <2>2. k \in Seq(Prompts) /\ Range(k) \subseteq Range(q)
        BY <1>1, <2>1, SweepsKeep
    <2>3. Range(Append(k, p)) = Range(k) \cup {p}
        BY <2>1, <2>2, AppendRange
    <2>4. p \notin send_now
        BY <2>1 DEF SendNowSent
    <2>5. Range(pending_inputs') \subseteq Range(q) \cup {p}
        BY <2>1, <2>2, <2>3, Zenon
    <2> QED
        BY <2>1, <2>4, <2>5
<1>6. CASE MoveInsert
    <2>1. PICK p, k, gone :
              /\ p \in Prompts
              /\ fate[p] = "unsent" /\ Sweeps(k, gone)
              /\ pending_inputs' = InsertSendNow(k, running_task, send_now, p)
              /\ send_now' = send_now \cup {p}
        BY <1>6 DEF MoveInsert
    <2>2. k \in Seq(Prompts) /\ Range(k) \subseteq Range(q) /\ Lists(k, Range(k))
        BY <1>1, <2>1, SweepsKeep DEF Lists
    <2>3. p \notin Range(q) /\ p \notin send_now
        BY <1>1, <2>1, UnsentNotQueued DEF SendNowSent
    <2>4. Lists(pending_inputs', Range(k) \cup {p})
        BY <2>1, <2>2, <2>3, InsertSendNowLists
    <2>5. y = p
        BY <2>1, <2>2, <2>3, <2>4 DEF Lists
    <2> QED
        BY <2>1, <2>2, <2>3, <2>5
<1>7. CASE MoveFlush
    <2> DEFINE m == RunningSlot(q, running_task) + 1
    <2>1. PICK s \in Seq(Prompts) :
              /\ IsInjective(s) /\ \A x \in Range(s) : Kind[x] = "fallback" /\ x \notin Range(q)
              /\ pending_inputs' = Splice(q, m, s) /\ send_now' = send_now \cup Range(s)
        BY <1>7 DEF MoveFlush
    <2>2. Lists(InsertAllFallbacks(q, running_task, s), Range(q) \cup Range(s))
        BY <1>1, <2>1, InsertAllFallbacksLists DEF Lists
    <2>3. Range(pending_inputs') = Range(q) \cup Range(s)
        BY <2>1, <2>2, FallbacksSplice DEF Lists
    <2>4. y \notin Range(s)
        BY <2>1 DEF HasQueueMeta
    <2> QED
        BY <2>1, <2>3, <2>4
<1>8. CASE MovePop
    <2>1. Range(Tail(q)) \subseteq Range(q)
        BY <1>1, <1>8, TailLists DEF MovePop, Lists
    <2> QED
        BY <1>2, <1>8, <2>1 DEF MovePop
<1>9. CASE MoveEmpty
    BY <1>2, <1>9, EmptyLists DEF MoveEmpty, Lists
<1> QED
    BY <1>3, <1>4, <1>5, <1>6, <1>7, <1>8, <1>9 DEF QueueMove, MovePull, MoveRows

\* Send-now prompts that stack up run in the order they were sent in: what stays queued
\* keeps its order, and a new one goes behind those that are there; as long as no client
\* moves rows around.
THEOREM SendNowFifoCorrect ==
    ASSUME "ReorderQueue" \notin Commands, "InterjectQueuedPrompt" \notin Commands
    PROVE  Spec => SendNowFifo
PROOF
<1> DEFINE Fifo ==
        \A x, y \in Range(pending_inputs') \cap send_now' :
            /\ x \in Range(pending_inputs) \cap send_now
            /\ \/ HasQueueMeta(y) /\ y \notin Range(pending_inputs) \cap send_now
               \/ Before(pending_inputs, x, y)
            => Before(pending_inputs', x, y)
<1>1. ASSUME TypeOK, FrontIsRunning, TurnInv, SendNowInv, Next
      PROVE  Fifo
    <2> DEFINE q == pending_inputs
    <2>1. ~stopped
        BY <1>1, CommandNeedsLoop, LoopNeedsLoop, TurnKeepsSlot DEF Next
    <2>2. Sound /\ Holding /\ q \in Seq(Prompts) /\ Ahead(q, running_task, send_now) /\ SendNowSent
        BY <1>1, <2>1 DEF TypeOK, QueueType, TurnInv, Sound, SendNowInv
    <2>3. CASE Shutdown
        <3>1. UNCHANGED send_now /\ \E K : pending_inputs' = Retain(q, K)
            BY <2>3 DEF Shutdown
        <3>2. KeepsOrder(q, pending_inputs') /\ Range(pending_inputs') \subseteq Range(q)
            BY <2>2, <3>1, RetainKeepsOrder, RetainType
        <3> QED
            BY <3>1, <3>2 DEF KeepsOrder
    <2>4. CASE ~Shutdown
        <3>1. QueueMove
            BY <1>1, <2>4, NextMove
        <3>2. KeepsOrder(q, pending_inputs')
            BY <1>1, <2>2, <3>1, MoveKeepsOrder
        <3>3. ASSUME NEW x \in Range(pending_inputs'), x \in Range(q) \cap send_now,
                     NEW y \in Range(pending_inputs') \cap send_now', HasQueueMeta(y),
                     y \notin Range(q) \cap send_now
              PROVE  Before(pending_inputs', x, y)
            <4>1. PICK k, gone : /\ Sweeps(k, gone) /\ y \notin Range(k) /\ y \in Prompts
                                 /\ pending_inputs' = InsertSendNow(k, running_task, send_now, y)
                BY <1>1, <2>2, <3>1, <3>3, MoveMarks
            <4>2. /\ k \in Seq(Prompts) /\ IsInjective(k) /\ Range(k) = Range(q) \ gone
                  /\ KeepsOrder(q, k)
                BY <1>1, <2>2, <4>1, SweepsKeep
            <4>3. Ahead(k, running_task, send_now)
                BY <2>2, <4>2, FewerAhead DEF Holding
            <4>4. Leads(k, running_task)
                <5>1. ASSUME running_task \in Range(k)
                      PROVE  AtFront(k, running_task)
                    <6>1. running_task \in Prompts /\ running_task \notin gone
                        BY <4>2, <5>1, EmptyRange
                    <6>2. AtFront(q, running_task)
                        BY <1>1, <2>1, <6>1, QueueConstants DEF FrontIsRunning, AtFront
                    <6> QED
                        BY <2>2, <4>1, <6>1, <6>2, RetainFront DEF Sweeps
                <5> QED
                    BY <5>1 DEF Leads
            <4>5. x # y
                BY <3>3
            <4>6. x \in Range(k)
                <5>1. Lists(pending_inputs', Range(k) \cup {y})
                    BY <4>1, <4>2, InsertSendNowLists DEF Lists
                <5> QED
                    BY <3>3, <4>5, <5>1 DEF Lists
            <4> QED
                BY <3>3, <4>1, <4>2, <4>3, <4>4, <4>6, InsertBehind
        <3> QED
            BY <3>2, <3>3 DEF KeepsOrder
    <2> QED
        BY <2>3, <2>4
<1>2. TypeOK /\ FrontIsRunning /\ TurnInv /\ SendNowInv /\ [Next]_vars => [Fifo]_vars
    BY <1>1
<1> HIDE DEF Fifo
<1>3. Spec => [][Fifo]_vars
    BY <1>2, SendNowCorrect, TypeCorrect, FrontCorrect, TurnsCorrect, PTL DEF Spec
<1> QED
    BY <1>3 DEF SendNowFifo, Fifo

-----------------------------------------------------------------------------
(* Notifications and the drain *)

\* The handler in progress will drain.
Drains == "drain" \in Range(todo)

\* An idle session with notifications is one whose handler will drain.
DrainDue == IsSessionIdle /\ pending_notifications # <<>> => Drains

\* The completion arm drains at its end, whatever it sweeps in before.
CompletionDrains == Stage \in {"pop", "turnEnd", "flush"} => Drains

\* A cancel that lifts the suppression at its end does so for a user's prompt, which is
\* queued and is not the turn it cancels.
Reengaged ==
    "unsuppress" \in Range(todo) =>
        \E x \in Range(pending_inputs) :
            /\ ~IsSynthetic(x)
            /\ Stage \in {"cancelBegin", "cancelTake"} =>
                   running_task \notin {None, x} /\ cancel.why = "send_now"

\* Until cancel_running_task returns, the turn it took cannot free a drain.
HeldBack == Taken => notifications_suppressed

DrainParts == DrainDue /\ CompletionDrains /\ Reengaged /\ HeldBack
DrainInv == ~stopped => DrainParts

\* The sections from which no handler comes to lift the suppression.
Late == {"pop", "turnEnd", "flush", "start", "drain", "pauseGoal"}

LEMMA LateSteps ==
    ASSUME NEW s \in Seq(Steps), Ordered(s), s # <<>>, Head(s) \in Late
    PROVE  "unsuppress" \notin Range(s)
PROOF
<1>1. Len(s) \in Nat /\ DOMAIN s = 1 .. Len(s) /\ Head(s) = s[1]
    OBVIOUS
<1> DEFINE T == {i \in 1 .. Len(s) : s[i] \notin Late}
<1>2. ASSUME T # {}
      PROVE  FALSE
    <2>0. \A y \in T : y \in Nat
        BY <1>1
    <2>1. Min(T) \in T /\ \A y \in T : Min(T) <= y
        <3> HIDE DEF T
        <3> QED
            BY <1>2, <2>0, MinOfNaturals
    <2>2. PICK m : m = Min(T)
        OBVIOUS
    <2>3. m \in 1 .. Len(s) /\ s[m] \notin Late /\ \A y \in T : m <= y
        BY <2>1, <2>2
    <2>4. m # 1
        BY <1>1, <2>3
    <2>5. m - 1 \in 1 .. Len(s) /\ m - 1 # Len(s) /\ (m - 1) + 1 = m /\ m - 1 \notin T
        BY <1>1, <2>3, <2>4
    <2>6. s[m - 1] \in Late
        BY <2>5
    <2>7. Follows(s[m - 1], s[m])
        BY <2>5 DEF Ordered, Chain
    <2>8. s[m] \in Late \cup {"rest"}
        BY <2>6, <2>7 DEF Follows, Late
    <2>9. s[m] \in Steps
        BY <1>1, <2>3
    <2> QED
        BY <2>3, <2>8, <2>9 DEF Steps
<1>3. \A i \in 1 .. Len(s) : s[i] \in Late
    BY <1>2
<1> QED
    BY <1>1, <1>3 DEF Range, Late

\* What is scheduled after the first section
LEMMA TailRange ==
    ASSUME NEW S, NEW s \in Seq(S), s # <<>>
    PROVE  /\ Range(Tail(s)) \subseteq Range(s)
           /\ \A x \in Range(s) : x # Head(s) => x \in Range(Tail(s))
           /\ Head(s) \in Range(s)
PROOF
<1> DEFINE t == Tail(s)
<1>1. /\ Len(s) \in Nat /\ DOMAIN s = 1 .. Len(s) /\ Head(s) = s[1] /\ 1 \in DOMAIN s
      /\ DOMAIN t = 1 .. Len(s) - 1 /\ \A k \in 1 .. Len(s) - 1 : t[k] = s[k + 1]
    OBVIOUS
<1> HIDE DEF t
<1>2. \A k \in 1 .. Len(s) - 1 : k + 1 \in DOMAIN s
    BY <1>1
<1>3. ASSUME NEW x \in Range(s), x # Head(s)
      PROVE  x \in Range(t)
    <2>1. PICK i \in 1 .. Len(s) : s[i] = x
        BY <1>1 DEF Range
    <2>2. i - 1 \in 1 .. Len(s) - 1 /\ (i - 1) + 1 = i
        BY <1>1, <1>3, <2>1
    <2>3. i - 1 \in DOMAIN t /\ t[i - 1] = x
        BY <1>1, <2>1, <2>2
    <2> QED
        BY <2>3 DEF Range
<1> QED
    BY <1>1, <1>2, <1>3 DEF Range, t

\* Which handlers drain, and which lift the suppression
LEMMA HandlerSteps ==
    /\ "drain" \in Range(CompletionSteps)
    /\ "unsuppress" \notin Range(UserCancelSteps)
    /\ "drain" \in Range(<<"drain">>) /\ Range(<<>>) = {}
PROOF
<1>1. "drain" \in Range(CompletionSteps)
    <2>1. 5 \in DOMAIN CompletionSteps /\ CompletionSteps[5] = "drain"
        BY DEF CompletionSteps
    <2> QED
        BY <2>1 DEF Range
<1>2. "unsuppress" \notin Range(UserCancelSteps)
    <2> DEFINE c == CancelSteps  t == <<"pauseGoal", "start">>  u == c \o t
    <2>1. c \in Seq(Steps) /\ Len(c) = 5 /\ \A i \in 1 .. 5 : c[i] # "unsuppress"
        BY DEF CancelSteps, Steps
    <2>2. t \in Seq(Steps) /\ Len(t) = 2 /\ \A i \in 1 .. 2 : t[i] # "unsuppress"
        BY DEF Steps
    <2> HIDE DEF c, t
    <2>3. Joined(u, c, t)
        BY <2>1, <2>2, ConcatAt, Zenon
    <2>4. UserCancelSteps = u
        BY DEF UserCancelSteps, c, t
    <2> HIDE DEF u
    <2>5. /\ DOMAIN u = 1 .. 7 /\ \A k \in 1 .. 5 : u[k] # "unsuppress"
          /\ \A k \in 1 .. 2 : u[5 + k] # "unsuppress"
        BY <2>1, <2>2, <2>3 DEF Joined
    <2>6. ASSUME NEW k \in 1 .. 7
          PROVE  u[k] # "unsuppress"
        <3>1. CASE k \in 1 .. 5
            BY <2>5, <3>1
        <3>2. CASE k \notin 1 .. 5
            <4>1. k - 5 \in 1 .. 2 /\ 5 + (k - 5) = k
                BY <3>2
            <4> QED
                BY <2>5, <4>1
        <3> QED
            BY <3>1, <3>2
    <2> QED
        BY <2>4, <2>5, <2>6 DEF Range
<1>3. "drain" \in Range(<<"drain">>) /\ Range(<<>>) = {}
    BY SingletonLists, EmptyLists DEF Lists
<1> QED
    BY <1>1, <1>2, <1>3

\* A step towards a late section, or to rest
LEMMA LateDrains ==
    ASSUME TypeOK', LoopOrdered', Stage' \in Late \cup {"rest"}, DrainDue',
           Stage' \in {"pop", "turnEnd", "flush"} => Drains'
    PROVE  DrainParts'
PROOF
<1>1. "unsuppress" \notin Range(todo')
    <2>1. todo' \in Seq(Steps) /\ Ordered(todo')
        BY DEF TypeOK, LoopType, LoopOrdered
    <2>2. CASE todo' = <<>>
        BY <2>2, HandlerSteps
    <2>3. CASE todo' # <<>>
        <3>1. Head(todo') \in Late
            BY <2>1, <2>3 DEF Stage, Steps
        <3> QED
            BY <2>1, <2>3, <3>1, LateSteps
    <2> QED
        BY <2>2, <2>3
<1>2. ~Taken'
    BY DEF Taken, Late
<1> QED
    BY <1>1, <1>2 DEF DrainParts, CompletionDrains, Reengaged, HeldBack

\* A step that makes no session idle and brings no notification
LEMMA DrainDueKept ==
    ASSUME DrainDue, Drains => Drains', IsSessionIdle' => IsSessionIdle,
           pending_notifications' # <<>> => pending_notifications # <<>>
    PROVE  DrainDue'
PROOF
    BY DEF DrainDue

LEMMA TurnDrains ==
    ASSUME TypeOK, Sound, DrainParts, NEW p \in Prompts, Turn(p)
    PROVE  DrainParts'
PROOF
<1>1. /\ TurnStep /\ Stage' = Stage /\ (Taken' <=> Taken)
      /\ UNCHANGED <<running_task, todo, cancel, notifications_suppressed>>
    BY TurnQueue, TurnStepKeeps
<1>2. CompletionDrains' /\ HeldBack'
    BY <1>1 DEF DrainParts, CompletionDrains, HeldBack, Drains
<1>3. CASE UNCHANGED <<pending_inputs, pending_notifications>>
    BY <1>1, <1>2, <1>3 DEF DrainParts, DrainDue, Reengaged, Drains, IsSessionIdle
<1>4. ASSUME NEW t \in Tasks, ConsumeCompletion(p, t)
      PROVE  DrainParts'
    <2>1. Live(p) /\ pending_inputs \in Seq(Prompts) /\ cancel \in CancelLocals
        BY <1>4 DEF ConsumeCompletion, TypeOK, QueueType, LoopType
    <2>2. running_task # None \/ notifications_suppressed
        <3>1. p = running_task \/ p = cancel.task
            BY <2>1 DEF Sound, Slot
        <3>2. p # None
            BY QueueConstants
        <3>3. cancel.task # None => Taken
            BY DEF Sound, CancelPhase
        <3> QED
            BY <3>1, <3>2, <3>3 DEF DrainParts, HeldBack
    <2>3. DrainDue'
        BY <1>1, <2>2 DEF DrainDue, IsSessionIdle
    <2>4. ASSUME NEW x \in Range(pending_inputs), ~IsSynthetic(x)
          PROVE  x \in Range(pending_inputs')
        <3> DEFINE gone == Swept(pending_inputs, running_task, ConsumedBy(t))
        <3>1. x \in Prompts /\ CompletionId[x] = None
            BY <2>1, <2>4, EmptyRange, QueueConstants DEF IsSynthetic
        <3>2. x \notin gone
            BY <3>1, QueueConstants DEF Swept, ConsumedBy
        <3>3. pending_inputs' = Retain(pending_inputs, Prompts \ gone)
            BY <1>4 DEF ConsumeCompletion
        <3> HIDE DEF gone
        <3> QED
            BY <2>1, <3>1, <3>2, <3>3, RetainType
    <2>5. Reengaged'
        BY <1>1, <2>4 DEF DrainParts, Reengaged
    <2> QED
        BY <1>2, <2>3, <2>5 DEF DrainParts
<1> QED
    BY <1>3, <1>4, TurnQueue

LEMMA HelperTaskDrains ==
    ASSUME TypeOK, Sound, DrainParts, HelperTask
    PROVE  DrainParts'
PROOF
<1>1. UNCHANGED <<todo, cancel, notifications_suppressed, pending_notifications>>
    BY DEF HelperTask, McpInitialized, PlanAbandoned, PlanResumeQueued, PlanResumeStarted,
       AfterStart, loopVars, noteVars
<1>2. Stage' = Stage /\ (Taken' <=> Taken)
    BY <1>1, SameStage
<1>3. CompletionDrains' /\ HeldBack'
    BY <1>1, <1>2 DEF DrainParts, CompletionDrains, HeldBack, Drains
<1>4. CASE McpInitialized \/ PlanResumeStarted
    <2>1. MaybeStartRunningTask /\ AfterStart
        BY <1>4 DEF McpInitialized, PlanResumeStarted
    <2>2. /\ UNCHANGED pending_inputs
          /\ \/ running_task = None /\ running_task' # None
             \/ UNCHANGED running_task
        BY <2>1, StartFills
    <2>3. DrainDue'
        BY <1>1, <2>2 DEF DrainParts, DrainDue, IsSessionIdle, Drains
    <2>4. Reengaged'
        BY <1>1, <1>2, <2>2 DEF DrainParts, Reengaged
    <2> QED
        BY <1>3, <2>3, <2>4 DEF DrainParts
<1>5. CASE PlanAbandoned
    <2>1. UNCHANGED <<pending_inputs, running_task>>
        BY <1>5 DEF PlanAbandoned, queueVars
    <2>2. DrainDue' /\ Reengaged'
        BY <1>1, <1>2, <2>1 DEF DrainParts, DrainDue, IsSessionIdle, Reengaged, Drains
    <2> QED
        BY <1>3, <2>2 DEF DrainParts
<1>6. ASSUME NEW p \in Prompts, PlanResumeQueued(p)
      PROVE  DrainParts'
    <2>1. QueueInput(p, FALSE) /\ UNCHANGED running_task /\ IsSynthetic(p)
        BY <1>6 DEF PlanResumeQueued, QueueInput, Fresh, IsSynthetic
    <2> DEFINE k == Retain(pending_inputs, Prompts \ Preempted(p))
    <2>2. pending_inputs' = Append(k, p)
        BY <2>1 DEF QueueInput, GoesNow
    <2>3. pending_inputs \in Seq(Prompts) /\ Range(pending_inputs) \subseteq Prompts
        BY EmptyRange DEF TypeOK, QueueType
    <2>4. k \in Seq(Prompts) /\ Range(k) = Range(pending_inputs)
        <3>1. Preempted(p) = {}
            BY <2>1 DEF Preempted
        <3>2. k \in Seq(Prompts) /\ Range(k) = Range(pending_inputs) \cap (Prompts \ Preempted(p))
            BY <2>3, RetainType
        <3> QED
            BY <2>3, <3>1, <3>2
    <2> HIDE DEF k
    <2>5. Range(pending_inputs') = Range(pending_inputs) \cup {p} /\ pending_inputs' # <<>>
        BY <2>2, <2>4, AppendRange
    <2>6. DrainDue'
        BY <2>5 DEF DrainDue, IsSessionIdle
    <2>7. Reengaged'
        BY <1>1, <1>2, <2>1, <2>5 DEF DrainParts, Reengaged
    <2> QED
        BY <1>3, <2>6, <2>7 DEF DrainParts
<1> QED
    BY <1>4, <1>5, <1>6 DEF HelperTask

LEMMA SectionsDrain ==
    ASSUME TypeOK, TypeOK', LoopOrdered, LoopOrdered', Sound, DrainParts,
           \/ Completion \/ PopCompleted \/ TurnEnd \/ TurnEndPausesGoal \/ PauseGoal
           \/ FlushStranded \/ StartStep \/ DrainStep \/ Unsuppress
           \/ \E p \in Prompts : TurnEndContinuesGoal(p)
    PROVE  DrainParts'
PROOF
<1>1. ASSUME NEW s, At(s), todo' = Tail(todo)
      PROVE  /\ Stage = s /\ Follows(s, Stage') /\ s \in Range(todo)
             /\ s # "drain" /\ Drains => Drains'
    <2>1. todo \in Seq(Steps) /\ todo # <<>> /\ Head(todo) = s
        BY <1>1 DEF TypeOK, LoopType, At
    <2> QED
        BY <1>1, <2>1, SectionStage, TailRange DEF Drains
<1>2. CASE Completion
    <2>1. todo' = CompletionSteps
        BY <1>2 DEF Completion
    <2>2. Drains' /\ Stage' = "pop"
        BY <2>1, HandlerSteps, OrderedSteps DEF Drains, Stage
    <2> QED
        BY <2>2, LateDrains DEF Late, DrainDue
<1>3. ASSUME NEW s \in {"pop", "turnEnd", "flush"}, At(s), todo' = Tail(todo)
      PROVE  DrainParts'
    <2>1. Stage = s /\ Follows(s, Stage')
        BY <1>1, <1>3
    <2>2. Drains' /\ Stage' \in Late
        BY <1>1, <1>3, <2>1 DEF DrainParts, CompletionDrains, Follows, Late
    <2> QED
        BY <2>2, LateDrains DEF DrainDue
<1>4. CASE \/ PopCompleted \/ TurnEnd \/ TurnEndPausesGoal \/ FlushStranded
           \/ \E p \in Prompts : TurnEndContinuesGoal(p)
    <2>1. \E s \in {"pop", "turnEnd", "flush"} : At(s) /\ todo' = Tail(todo)
        BY <1>4 DEF PopCompleted, TurnEnd, TurnEndPausesGoal, FlushStranded, TurnEndContinuesGoal,
           GoalStep
    <2> QED
        BY <1>3, <2>1
<1>5. CASE PauseGoal
    <2>1. At("pauseGoal") /\ todo' = Tail(todo)
        BY <1>5 DEF PauseGoal, GoalStep
    <2>2. (Drains => Drains') /\ Follows("pauseGoal", Stage')
        BY <1>1, <2>1
    <2>3. Stage' = "start"
        BY <2>2 DEF Follows
    <2>4. UNCHANGED <<running_task, pending_inputs, notifications_suppressed, pending_notifications>>
        BY <1>5 DEF PauseGoal, GoalStep, noteVars
    <2>5. DrainDue'
        BY <2>2, <2>4, DrainDueKept DEF DrainParts, IsSessionIdle
    <2> QED
        BY <2>3, <2>5, LateDrains DEF Late
<1>6. CASE StartStep
    <2>1. /\ At("start") /\ todo' = Tail(todo) /\ MaybeStartRunningTask /\ AfterStart
          /\ UNCHANGED <<notifications_suppressed, pending_notifications>>
        BY <1>6 DEF StartStep, AfterStart, noteVars
    <2>2. (Drains => Drains') /\ Follows("start", Stage')
        BY <1>1, <2>1
    <2>3. Stage' \in {"drain", "rest"}
        BY <2>2 DEF Follows
    <2>4. IsSessionIdle' => IsSessionIdle
        BY <2>1, StartFills DEF IsSessionIdle
    <2>5. DrainDue'
        BY <2>1, <2>2, <2>4, DrainDueKept DEF DrainParts
    <2> QED
        BY <2>3, <2>5, LateDrains DEF Late
<1>7. CASE DrainStep
    <2>1. Stage' \in {"rest", "start"}
        <3>1. CASE todo' = Tail(todo)
            <4>1. Follows("drain", Stage')
                BY <1>1, <1>7, <3>1 DEF DrainStep
            <4> QED
                BY <4>1 DEF Follows
        <3>2. CASE todo' = <<"start">> \o Tail(todo)
            <4>1. todo \in Seq(Steps) /\ todo # <<>>
                BY <1>7 DEF DrainStep, At, TypeOK, LoopType
            <4>2. Tail(todo) \in Seq(Steps) /\ <<"start">> \in Seq(Steps) /\ <<"start">> # <<>>
                BY <4>1, StepsType
            <4>3. todo' # <<>> /\ Head(todo') = Head(<<"start">>)
                BY <3>2, <4>2, ConcatHead, Zenon
            <4> QED
                BY <4>3 DEF Stage
        <3> QED
            BY <1>7, <3>1, <3>2 DEF DrainStep
    <2>2. DrainDue'
        <3>1. CASE IsSessionIdle
            BY <1>7, <3>1 DEF DrainStep, DrainDue
        <3>2. CASE ~IsSessionIdle
            BY <1>7, <3>2 DEF DrainStep, DrainDue, IsSessionIdle
        <3> QED
            BY <3>1, <3>2
    <2> QED
        BY <2>1, <2>2, LateDrains DEF Late
<1>8. CASE Unsuppress
    <2>1. At("unsuppress") /\ todo' = Tail(todo) /\ UNCHANGED pending_inputs
        BY <1>8 DEF Unsuppress, queueVars
    <2>2. "unsuppress" \in Range(todo) /\ Follows("unsuppress", Stage')
        BY <1>1, <2>1
    <2>3. Stage' = "start"
        BY <2>2 DEF Follows
    <2>4. Range(pending_inputs) # {}
        BY <2>2 DEF DrainParts, Reengaged
    <2>5. DrainDue'
        BY <2>1, <2>4, HandlerSteps DEF DrainDue, IsSessionIdle
    <2> QED
        BY <2>3, <2>5, LateDrains DEF Late
<1> QED
    BY <1>2, <1>4, <1>5, <1>6, <1>7, <1>8

\* A cancel that does not take a prompt back holds notifications from when it takes the
\* turn until the handler is through.
LEMMA CancelDrains ==
    ASSUME TypeOK, LoopOrdered, FrontIsRunning, Sound, DrainParts, cancel.why # "rewind",
           CancelBegin \/ CancelTake \/ CancelGoal \/ CancelAbort \/ CancelFinish
    PROVE  DrainParts'
PROOF
<1>1. todo \in Seq(Steps) /\ todo # <<>> /\ todo' = Tail(todo)
    BY DEF TypeOK, LoopType, At, CancelBegin, CancelTake, CancelGoal, CancelAbort, CancelFinish
<1>2. /\ Range(todo') \subseteq Range(todo)
      /\ \A x \in Range(todo) : x # Head(todo) => x \in Range(todo')
    BY <1>1, TailRange
<1>3. ASSUME NEW s, At(s)
      PROVE  Stage = s /\ Head(todo) = s /\ Follows(s, Stage')
    BY <1>1, <1>3, SectionStage DEF At
<1>4. CASE CancelBegin
    <2>1. /\ At("cancelBegin") /\ cancel' = [cancel EXCEPT !.pin = current_prompt_id]
          /\ UNCHANGED <<pending_inputs, running_task, pending_notifications,
                         notifications_suppressed>>
        BY <1>4 DEF CancelBegin, queueVars, noteVars
    <2>2. Stage = "cancelBegin" /\ Head(todo) = "cancelBegin" /\ Stage' = "cancelTake"
        BY <1>3, <2>1 DEF Follows
    <2>3. cancel'.why = cancel.why
        BY <2>1 DEF TypeOK, LoopType, CancelLocals
    <2>4. DrainDue'
        BY <1>2, <2>1, <2>2, DrainDueKept DEF DrainParts, Drains, IsSessionIdle
    <2>5. Reengaged'
        BY <1>2, <2>1, <2>2, <2>3 DEF DrainParts, Reengaged
    <2> QED
        BY <2>2, <2>4, <2>5 DEF DrainParts, CompletionDrains, HeldBack, Taken
<1>5. CASE CancelTake
    <2> DEFINE q == pending_inputs
    <2>1. At("cancelTake") /\ notifications_suppressed' = TRUE
        BY <1>5 DEF CancelTake
    <2>2. Stage = "cancelTake" /\ Stage' = "cancelGoal"
        BY <1>3, <2>1 DEF Follows
    <2>3. DrainDue' /\ CompletionDrains' /\ HeldBack'
        BY <2>1, <2>2 DEF DrainDue, IsSessionIdle, CompletionDrains, HeldBack
    <2>4. ASSUME NEW x \in Range(q), running_task \notin {None, x}, cancel.why = "send_now"
          PROVE  x \in Range(pending_inputs')
        <3>1. q \in Seq(Prompts) /\ q # <<>> /\ Head(q) = running_task
            BY <1>5, <2>1, <2>4 DEF FrontIsRunning, At, TypeOK, QueueType
        <3>2. /\ CancelledInputs(cancel.why) = <<Head(q)>> /\ Len(<<Head(q)>>) + 1 = 2
              /\ SubSeq(q, 2, Len(q)) = Tail(q)
            BY <2>4, <3>1 DEF CancelledInputs
        <3>3. pending_inputs' = Tail(q)
            BY <1>5, <2>4, <3>2 DEF CancelTake
        <3> QED
            BY <2>4, <3>1, <3>3, TailRange
    <2>5. Reengaged'
        BY <1>2, <2>2, <2>4 DEF DrainParts, Reengaged
    <2> QED
        BY <2>3, <2>5 DEF DrainParts
<1>6. CASE CancelGoal \/ CancelAbort \/ CancelFinish
    <2>1. /\ \E s \in {"cancelGoal", "cancelAbort", "cancelFinish"} : At(s)
          /\ UNCHANGED <<pending_inputs, notifications_suppressed>>
        BY <1>6 DEF CancelGoal, CancelAbort, CancelFinish, queueVars, noteVars
    <2>2. Taken /\ Stage' \in {"cancelAbort", "cancelFinish", "pauseGoal", "unsuppress"}
        BY <1>3, <2>1 DEF Follows, Taken
    <2>3. notifications_suppressed'
        BY <2>1, <2>2 DEF DrainParts, HeldBack
    <2>4. Reengaged'
        BY <1>2, <2>1, <2>2 DEF DrainParts, Reengaged
    <2> QED
        BY <2>2, <2>3, <2>4 DEF DrainParts, DrainDue, IsSessionIdle, CompletionDrains, HeldBack
<1> QED
    BY <1>4, <1>5, <1>6

\* A command that interrupts the turn for a queued user prompt, or just has the queue run
LEMMA RunNextDrains ==
    ASSUME TypeOK, TypeOK', LoopOrdered', FrontIsRunning, Ready, DrainParts, NEW c \in BOOLEAN,
           ThenRunNext(c), UNCHANGED running_task, NEW p \in Range(pending_inputs'),
           c => ~IsSynthetic(p) /\ running_task \notin {None, p}
    PROVE  DrainParts'
PROOF
<1>1. pending_inputs' # <<>>
    BY EmptyRange DEF TypeOK, QueueType
<1>2. DrainDue'
    BY <1>1 DEF DrainDue, IsSessionIdle
<1>3. todo' = SendNowSteps(c)
    BY DEF ThenRunNext
<1>4. CASE c
    <2>1. Stage' = "cancelBegin"
        <3>1. todo' = SendNowSteps(TRUE)
            BY <1>3, <1>4
        <3> QED
            BY <3>1, CommandStage
    <2>2. cancel' = CancelFor("send_now")
        BY <1>4 DEF ThenRunNext
    <2>3. cancel'.why = "send_now"
        BY <2>2 DEF CancelFor
    <2>4. Reengaged'
        BY <1>4, <2>3 DEF Reengaged
    <2> QED
        BY <1>2, <2>1, <2>4 DEF DrainParts, CompletionDrains, HeldBack, Taken
<1>5. CASE ~c
    <2>1. Stage' = "start"
        <3>1. todo' = SendNowSteps(FALSE)
            BY <1>3, <1>5
        <3> QED
            BY <3>1, CommandStage
    <2> QED
        BY <1>2, <2>1, LateDrains DEF Late
<1> QED
    BY <1>4, <1>5

\* An edit of rows takes none from a session without a turn: it has none.
LEMMA RemovalDrains ==
    ASSUME TypeOK, TypeOK', LoopOrdered', Ready, RowsHaveATurn, DrainParts, NEW gone,
           \A x \in gone : HasQueueMeta(x), pending_inputs' = Retain(pending_inputs, Prompts \ gone),
           UNCHANGED <<todo, running_task, notifications_suppressed, pending_notifications>>
    PROVE  DrainParts'
PROOF
<1>1. pending_inputs \in Seq(Prompts) /\ Range(pending_inputs) \subseteq Prompts
    BY EmptyRange DEF TypeOK, QueueType
<1>2. Stage = "rest" /\ Stage' = "rest"
    BY CommandStage
<1>3. Range(pending_inputs') = Range(pending_inputs) \cap (Prompts \ gone)
    BY <1>1, RetainType
<1>4. ASSUME IsSessionIdle'
      PROVE  IsSessionIdle
    <2>1. running_task = None /\ pending_inputs' = <<>> /\ ~notifications_suppressed
        BY <1>4 DEF IsSessionIdle
    <2>2. Range(pending_inputs') = {}
        BY <2>1, HandlerSteps
    <2>3. \A x \in Range(pending_inputs) : ~HasQueueMeta(x)
        BY <1>2, <2>1 DEF RowsHaveATurn, Resting
    <2>4. Range(pending_inputs) = {}
        BY <1>1, <1>3, <2>2, <2>3
    <2>5. pending_inputs = <<>>
        BY <1>1, <2>4, EmptyRange
    <2> QED
        BY <2>1, <2>5 DEF IsSessionIdle
<1>5. DrainDue'
    BY <1>4, DrainDueKept DEF DrainParts, Drains
<1> QED
    BY <1>2, <1>5, LateDrains

LEMMA CommandDrains ==
    ASSUME TypeOK, TypeOK', LoopOrdered, LoopOrdered', Sound, FrontIsRunning, RowsHaveATurn,
           DrainParts, Command, ~Shutdown
    PROVE  DrainParts'
PROOF
<1> DEFINE q == pending_inputs
<1>1. Ready
    BY DEF Command, Prompt, Interject, GoalSummaryTurn, QueueCommand, RemoveQueuedPrompt, ClearQueue,
       ReorderQueue, EditQueuedPrompt, InterjectQueuedPrompt, RestorePlanApproval, Cancel,
       InjectNotification, DropMonitorNotifications
<1>2. Stage = "rest" /\ q \in Seq(Prompts) /\ Range(q) \subseteq Prompts /\ Lists(q, Range(q))
    BY <1>1, CommandStage, EmptyRange DEF TypeOK, QueueType, Sound, Holding, Lists
<1>3. ASSUME NEW x \in Prompts, x \notin Range(q)
      PROVE  running_task # x
    BY <1>1, <1>2, <1>3, EmptyRange, QueueConstants DEF FrontIsRunning, Ready
<1>4. ASSUME Stage' \in {"rest", "start"}, UNCHANGED <<notifications_suppressed>>,
             IsSessionIdle' => IsSessionIdle, UNCHANGED pending_notifications
      PROVE  DrainParts'
    <2>1. ~Drains
        BY <1>1, HandlerSteps DEF Ready, Drains
    <2>2. DrainDue'
        BY <1>4, <2>1, DrainDueKept DEF DrainParts
    <2> QED
        BY <1>4, <2>2, LateDrains DEF Late
<1>5. ASSUME NEW p \in Prompts, NEW asked \in BOOLEAN, Prompt(p, asked)
      PROVE  DrainParts'
    <2> DEFINE now == GoesNow(p, asked)  c == CancelsTurn(now)
               k == Retain(q, Prompts \ Preempted(p))
    <2>1. /\ ThenRunNext(c) /\ UNCHANGED running_task /\ fate[p] = "unsent"
          /\ pending_inputs' = IF now THEN InsertSendNow(k, running_task, send_now, p)
                                      ELSE Append(k, p)
        BY <1>5 DEF Prompt, QueueInput
    <2>2. p \notin Range(q)
        BY <2>1, UnsentNotQueued DEF Sound
    <2>3. k \in Seq(Prompts) /\ Range(k) \subseteq Range(q) /\ Lists(k, Range(k))
        <3>1. k \in Seq(Prompts) /\ Range(k) = Range(q) \cap (Prompts \ Preempted(p))
            BY <1>2, RetainType
        <3>2. Lists(k, Range(q) \cap (Prompts \ Preempted(p)))
            BY <1>2, RetainLists
        <3> HIDE DEF k
        <3> QED
            BY <3>1, <3>2
    <2>4. c \in BOOLEAN /\ (c => ~IsSynthetic(p) /\ running_task # None)
        BY DEF CancelsTurn, GoesNow
    <2> HIDE DEF c, k, now
    <2>5. p \in Range(pending_inputs')
        <3>1. CASE now
            BY <2>1, <2>2, <2>3, <3>1, InsertSendNowLists DEF Lists
        <3>2. CASE ~now
            BY <2>1, <2>3, <3>2, AppendRange
        <3> QED
            BY <3>1, <3>2
    <2>6. running_task # p
        BY <1>3, <2>2
    <2> QED
        BY <1>1, <2>1, <2>4, <2>5, <2>6, RunNextDrains
<1>6. ASSUME NEW p \in Prompts, Interject(p)
      PROVE  DrainParts'
    <2>1. CASE current_prompt_id # None
        <3>1. UNCHANGED <<pending_inputs, running_task, todo, notifications_suppressed,
                          pending_notifications>>
            BY <1>6, <2>1 DEF Interject, noteVars
        <3> QED
            BY <1>1, <1>4, <3>1, CommandStage DEF IsSessionIdle
    <2>2. CASE current_prompt_id = None
        <3>1. /\ pending_inputs' = InsertFallback(q, running_task, p) /\ todo' = <<"start">>
              /\ fate[p] = "unsent"
            BY <1>6, <2>2 DEF Interject, Fresh
        <3>2. p \in Range(pending_inputs')
            BY <1>2, <3>1, UnsentNotQueued, InsertFallbackLists DEF Sound, Lists
        <3>3. pending_inputs' # <<>>
            BY <3>2, HandlerSteps
        <3>4. DrainDue' /\ Stage' = "start"
            BY <1>1, <3>1, <3>3, CommandStage DEF DrainDue, IsSessionIdle
        <3> QED
            BY <3>4, LateDrains DEF Late
    <2> QED
        BY <2>1, <2>2
<1>7. ASSUME NEW p \in Prompts, GoalSummaryTurn(p)
      PROVE  DrainParts'
    <2>1. pending_inputs' = Append(q, p) /\ todo' = <<"start">>
        BY <1>7 DEF GoalSummaryTurn
    <2>2. p \in Range(pending_inputs')
        BY <1>2, <2>1, AppendRange
    <2>3. pending_inputs' # <<>>
        BY <2>2, HandlerSteps
    <2>4. DrainDue' /\ Stage' = "start"
        BY <1>1, <2>1, <2>3, CommandStage DEF DrainDue, IsSessionIdle
    <2> QED
        BY <2>4, LateDrains DEF Late
<1>8. CASE QueueCommand
    <2>1. ASSUME NEW p \in Prompts, NEW v, NEW owner, RemoveQueuedPrompt(p, v, owner)
          PROVE  DrainParts'
        <3> DEFINE gone == IF RowMatches(p, v, owner) THEN {p} ELSE {}
        <3>1. /\ pending_inputs' = Retain(q, Prompts \ gone)
              /\ UNCHANGED <<todo, running_task, notifications_suppressed, pending_notifications>>
            BY <2>1 DEF RemoveQueuedPrompt, EditsOnlyTheQueue, noteVars
        <3>2. \A x \in gone : HasQueueMeta(x)
            BY DEF RowMatches
        <3> HIDE DEF gone
        <3> QED
            BY <1>1, <3>1, <3>2, RemovalDrains
    <2>2. ASSUME NEW owner, ClearQueue(owner)
          PROVE  DrainParts'
        <3> DEFINE gone == Clearable(q, running_task, owner)
        <3>1. /\ pending_inputs' = Retain(q, Prompts \ gone)
              /\ UNCHANGED <<todo, running_task, notifications_suppressed, pending_notifications>>
            BY <2>2 DEF ClearQueue, EditsOnlyTheQueue, noteVars
        <3>2. \A x \in gone : HasQueueMeta(x)
            BY DEF Clearable, Reorderable
        <3> HIDE DEF gone
        <3> QED
            BY <1>1, <3>1, <3>2, RemovalDrains
    <2>3. ASSUME NEW order \in Orders, ReorderQueue(order)
          PROVE  DrainParts'
        <3>1. /\ UNCHANGED <<running_task, todo, notifications_suppressed, pending_notifications>>
              /\ pending_inputs' = Reordered(q, running_task, order)
            BY <2>3 DEF ReorderQueue, EditsOnlyTheQueue, noteVars
        <3>2. order \in Seq(Prompts) /\ IsInjective(order)
            BY OrdersType DEF Orders
        <3>3. Range(pending_inputs') = Range(q)
            BY <1>2, <3>1, <3>2, ReorderedLists DEF Lists
        <3>4. pending_inputs' = <<>> => q = <<>>
            BY <1>2, <3>3, HandlerSteps, EmptyRange
        <3> QED
            BY <1>1, <1>4, <3>1, <3>4, CommandStage DEF IsSessionIdle
    <2>4. ASSUME NEW p, EditQueuedPrompt(p)
          PROVE  DrainParts'
        <3>1. UNCHANGED <<pending_inputs, running_task, todo, notifications_suppressed,
                          pending_notifications>>
            BY <2>4 DEF EditQueuedPrompt, EditsOnlyTheQueue, noteVars
        <3> QED
            BY <1>1, <1>4, <3>1, CommandStage DEF IsSessionIdle
    <2>5. ASSUME NEW p \in Prompts, NEW v, NEW owner, NEW edited,
                 InterjectQueuedPrompt(p, v, owner, edited)
          PROVE  DrainParts'
        <3>1. UNCHANGED <<running_task, notifications_suppressed, pending_notifications>>
            BY <2>5 DEF InterjectQueuedPrompt, EditsOnlyTheQueue, noteVars
        <3>2. CASE RowMatches(p, v, owner)
            <4> DEFINE k == Retain(q, Prompts \ {p})  c == CancelsTurn(TRUE)
            <4>1. pending_inputs' = InsertSendNow(k, running_task, send_now, p) /\ ThenRunNext(c)
                BY <2>5, <3>2 DEF InterjectQueuedPrompt
            <4>2. k \in Seq(Prompts) /\ Lists(k, Range(q) \cap (Prompts \ {p}))
                BY <1>2, RetainType, RetainLists
            <4>3. ~IsSynthetic(p) /\ running_task # p
                BY <3>2 DEF RowMatches, HasQueueMeta, IsSynthetic, IsRunningPrompt
            <4>4. c \in BOOLEAN /\ (c => running_task # None)
                BY DEF CancelsTurn
            <4> HIDE DEF k, c
            <4>5. p \in Range(pending_inputs')
                BY <4>1, <4>2, InsertSendNowLists DEF Lists
            <4> QED
                BY <1>1, <3>1, <4>1, <4>3, <4>4, <4>5, RunNextDrains
        <3>3. CASE ~RowMatches(p, v, owner)
            <4>1. UNCHANGED pending_inputs /\ todo' = SendNowSteps(FALSE)
                BY <2>5, <3>3 DEF InterjectQueuedPrompt, ThenRunNext
            <4> QED
                BY <1>1, <1>4, <3>1, <4>1, CommandStage DEF IsSessionIdle
        <3> QED
            BY <3>2, <3>3
    <2> QED
        BY <1>8, <2>1, <2>2, <2>3, <2>4, <2>5 DEF QueueCommand
<1>9. CASE RestorePlanApproval
    <2>1. UNCHANGED <<pending_inputs, running_task, todo, notifications_suppressed,
                      pending_notifications>>
        BY <1>9 DEF RestorePlanApproval, queueVars, noteVars, loopVars
    <2> QED
        BY <1>1, <1>4, <2>1, CommandStage DEF IsSessionIdle
<1>10. ASSUME NEW why, Cancel(why)
       PROVE  DrainParts'
    <2>1. /\ UNCHANGED <<pending_inputs, running_task, notifications_suppressed,
                         pending_notifications>>
          /\ todo' = UserCancelSteps
        BY <1>10 DEF Cancel, queueVars, noteVars
    <2>2. ~Drains
        BY <1>1, HandlerSteps DEF Ready, Drains
    <2>3. DrainDue'
        BY <2>1, <2>2, DrainDueKept DEF DrainParts, IsSessionIdle
    <2>4. Stage' = "cancelBegin" /\ "unsuppress" \notin Range(todo')
        BY <1>1, <2>1, CommandStage, HandlerSteps
    <2> QED
        BY <2>3, <2>4 DEF DrainParts, CompletionDrains, Reengaged, HeldBack, Taken
<1>11. ASSUME NEW n \in Notifs, InjectNotification(n)
       PROVE  DrainParts'
    <2>1. UNCHANGED <<pending_inputs, running_task, notifications_suppressed>>
        BY <1>11 DEF InjectNotification, NotificationStep, queueVars
    <2>2. CASE UNCHANGED <<pending_notifications, todo>>
        BY <1>1, <1>4, <2>1, <2>2, CommandStage DEF IsSessionIdle
    <2>3. CASE todo' = <<"drain">>
        <3>1. Stage' = "drain" /\ Drains'
            BY <1>1, <2>3, CommandStage, HandlerSteps DEF Drains
        <3> QED
            BY <3>1, LateDrains DEF Late, DrainDue
    <2> QED
        BY <1>11, <2>2, <2>3 DEF InjectNotification
<1>12. ASSUME NEW t \in Tasks, DropMonitorNotifications(t)
       PROVE  DrainParts'
    <2>1. /\ UNCHANGED <<pending_inputs, running_task, notifications_suppressed, todo>>
          /\ \E K : pending_notifications' = Retain(pending_notifications, K)
        BY <1>12 DEF DropMonitorNotifications, NotificationStep, queueVars
    <2>2. pending_notifications \in Seq(Notifs) /\ pending_notifications' \in Seq(Notifs)
        BY DEF TypeOK, NoteType
    <2>3. Range(pending_notifications') \subseteq Range(pending_notifications)
        BY <2>1, <2>2, RetainType
    <2>4. pending_notifications' # <<>> => pending_notifications # <<>>
        BY <2>2, <2>3, EmptyRange
    <2>5. DrainDue'
        BY <2>1, <2>4, DrainDueKept DEF DrainParts, Drains, IsSessionIdle
    <2> QED
        BY <1>1, <2>1, <2>5, CommandStage, LateDrains
<1> QED
    BY <1>5, <1>6, <1>7, <1>8, <1>9, <1>10, <1>11, <1>12 DEF Command

LEMMA NextDrains ==
    ASSUME TypeOK, TypeOK', FrontIsRunning, TurnInv, TurnInv', RowsInv, DrainInv,
           cancel.why # "rewind", [Next]_vars
    PROVE  DrainInv'
PROOF
<1>1. CASE Shutdown
    BY <1>1 DEF Shutdown, DrainInv
<1>2. CASE Next /\ ~Shutdown
    <2>1. ~stopped
        BY <1>2, NextMove
    <2>2. LoopOrdered /\ Sound /\ RowsHaveATurn /\ DrainParts
        BY <2>1 DEF TurnInv, RowsInv, DrainInv
    <2>3. CASE stopped'
        BY <2>3 DEF DrainInv
    <2>4. CASE ~stopped'
        <3>1. LoopOrdered'
            BY <2>4 DEF TurnInv
        <3>2. CASE Command
            BY <1>2, <2>2, <3>1, <3>2, CommandDrains DEF DrainInv
        <3>3. CASE HelperTask
            BY <2>2, <3>3, HelperTaskDrains DEF DrainInv
        <3>4. CASE MainLoop
            BY <2>2, <3>1, <3>4, SectionsDrain, CancelDrains DEF MainLoop, DrainInv
        <3>5. ASSUME NEW p \in Prompts, Turn(p)
              PROVE  DrainInv'
            BY <2>2, <3>5, TurnDrains DEF DrainInv
        <3> QED
            BY <1>2, <3>2, <3>3, <3>4, <3>5 DEF Next
    <2> QED
        BY <2>3, <2>4
<1>3. CASE UNCHANGED vars
    <2>1. /\ UNCHANGED <<pending_inputs, running_task, todo, cancel, notifications_suppressed,
                         pending_notifications, stopped>>
          /\ Stage' = Stage /\ (Taken' <=> Taken)
        BY <1>3, SameStage DEF vars, queueVars, loopVars, noteVars
    <2> QED
        BY <2>1 DEF DrainInv, DrainParts, DrainDue, CompletionDrains, Reengaged, HeldBack, Drains,
           IsSessionIdle
<1> QED
    BY <1>1, <1>2, <1>3

\* An idle session at rest has drained its notifications, as long as no client takes a
\* running prompt back: what a turn swept in at its end, a cancel held, or a command brought
\* has been handed to a turn.
THEOREM DrainCorrect ==
    ASSUME "rewind" \notin Commands
    PROVE  Spec => []IdleMeansDrained
PROOF
<1>1. Init => DrainInv
    <2>1. ASSUME Init
          PROVE  DrainInv
        <3>1. todo = <<>> /\ pending_notifications = <<>> /\ Range(todo) = {}
            BY <2>1, HandlerSteps DEF Init
        <3>2. Stage = "rest"
            BY <3>1 DEF Stage
        <3> QED
            BY <3>1, <3>2 DEF DrainInv, DrainParts, DrainDue, CompletionDrains, Reengaged, HeldBack,
               Taken
    <2> QED
        BY <2>1
<1>2. ASSUME TypeOK, TypeOK', FrontIsRunning, TurnInv, TurnInv', RowsInv, ReasonIsGiven, DrainInv,
             [Next]_vars
      PROVE  DrainInv'
    <2>1. cancel.why # "rewind"
        BY <1>2 DEF ReasonIsGiven
    <2> QED
        BY <1>2, <2>1, NextDrains
<1>3. TypeOK /\ TypeOK' /\ FrontIsRunning /\ TurnInv /\ TurnInv' /\ RowsInv /\ ReasonIsGiven
          /\ DrainInv /\ [Next]_vars => DrainInv'
    BY <1>2
<1>4. DrainInv => IdleMeansDrained
    BY HandlerSteps DEF DrainInv, DrainParts, DrainDue, Drains, IsSessionIdle, IdleMeansDrained, Ready
<1> QED
    BY <1>1, <1>3, <1>4, TypeCorrect, FrontCorrect, TurnsCorrect, RowsCorrect, ReasonCorrect, PTL
    DEF Spec
=============================================================================
