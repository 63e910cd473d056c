-------------------------- MODULE SessionTurnProofs --------------------------
(***************************************************************************)
(* Who holds a prompt, which turn it has and what its sender was told, for *)
(* every set of prompts and every choice of commands.  The main loop is    *)
(* seen through the section it runs next (Stage); the parts of the         *)
(* invariant say what holds at which stage, whatever the turn tasks and    *)
(* the helper tasks do between two sections.                               *)
(***************************************************************************)
EXTENDS SessionActorProofs

-----------------------------------------------------------------------------
(* The stages of the main loop *)

\* The section the main loop runs next, or "rest" in select!.
Stage == IF todo = <<>> THEN "rest" ELSE Head(todo)

\* Which section a handler goes through after which.
Follows(s, t) ==
    \/ s = "pop" /\ t = "turnEnd"
    \/ s = "turnEnd" /\ t = "flush"
    \/ s = "flush" /\ t = "start"
    \/ s = "start" /\ t \in {"drain", "rest"}
    \/ s = "drain" /\ t = "rest"
    \/ s = "cancelBegin" /\ t = "cancelTake"
    \/ s = "cancelTake" /\ t = "cancelGoal"
    \/ s = "cancelGoal" /\ t = "cancelAbort"
    \/ s = "cancelAbort" /\ t = "cancelFinish"
    \/ s = "cancelFinish" /\ t \in {"pauseGoal", "unsuppress"}
    \/ s \in {"pauseGoal", "unsuppress"} /\ t = "start"

\* The sections s in order, with e after the last of them.
Chain(s, e) == \A i \in 1 .. Len(s) : Follows(s[i], IF i = Len(s) THEN e ELSE s[i + 1])
Ordered(s) == Chain(s, "rest")

\* What is scheduled is the rest of a handler.
LoopOrdered == Ordered(todo)

\* cancel_running_task has left the state lock and not returned yet.
Taken == Stage \in {"cancelGoal", "cancelAbort", "cancelFinish"}

-----------------------------------------------------------------------------
(* The parts of the invariant *)

\* The locals of a cancel: what it took out of the state, which is the running turn
\* and its prompt, or the prompt it takes back.
CancelPhase ==
    /\ ~Taken => cancel.task = None /\ cancel.inputs = <<>> /\ cancel.rewound = None
    /\ cancel.task # None => cancel.task \in Range(cancel.inputs)
    /\ cancel.rewound # None => cancel.task = None /\ cancel.inputs = <<>>
    /\ Stage = "cancelTake" => cancel.pin \in {None, running_task}
    /\ Taken /\ cancel.task = None /\ cancel.rewound = None => cancel.pin = None

\* The pin names the running turn; a helper task's turn may lose it while a cancel
\* finishes.
Pinned ==
    /\ ~Taken => current_prompt_id \in {None, running_task}
    /\ Stage = "pop" => current_prompt_id # Head(completion_rx)

\* Every prompt that is owed an answer is in one place, once.
Holding ==
    /\ IsInjective(pending_inputs) /\ IsInjective(pending_interjections)
    /\ IsInjective(cancel.inputs)
    /\ Range(pending_inputs) \cap Range(pending_interjections) = {}
    /\ Range(pending_inputs) \cap Range(cancel.inputs) = {}
    /\ Range(pending_interjections) \cap Range(cancel.inputs) = {}
    /\ cancel.rewound \notin Range(pending_inputs) \cup Range(pending_interjections)
    /\ \A p \in Prompts : fate[p] = "pending" <=> p \in Held

\* A prompt that was started is the running one, the one a cancel took, or answered.
Started ==
    /\ \A p \in Prompts : turn[p] # "none" =>
           /\ fate[p] # "unsent" /\ p \notin Range(pending_interjections)
           /\ p \in Range(pending_inputs) => p = running_task
           /\ p \in Range(cancel.inputs) => p = cancel.task
    /\ cancel.task # None => turn[cancel.task] # "none"

\* The slot's turn runs or has sent its completion; other turns that run are about to
\* be aborted.
Slot ==
    /\ running_task # None => turn[running_task] \notin {"none", "dropped"}
                                  /\ running_task \notin aborting
    /\ running_task # None /\ turn[running_task] = "done" => running_task \in Range(completion_rx)
    /\ \A p \in Range(completion_rx) : turn[p] = "done"
    /\ \A p \in aborting : turn[p] \in LivePhases
    /\ \A p \in Prompts : Live(p) =>
           p = running_task \/ (p = cancel.task /\ Stage # "cancelFinish")

\* A turn that was started and runs no more.
Over(p) == turn[p] # "none" /\ ~Live(p)

\* Who has been sent a TurnCompleted.
Terminals ==
    /\ \A p \in Prompts : fate[p] \in {"unsent", "pending"} => terminals[p] = 0
    /\ \A p \in Prompts : terminals[p] <= 1
    /\ \A p \in Prompts : Over(p) =>
           \/ terminals[p] = 1 \/ fate[p] = "rewound"
           \/ p \in {running_task, cancel.task, cancel.rewound}

\* The depth counts guards of the running turn and of foreground subagents, but while a
\* cancel has taken the turn from its slot and not zeroed the depth yet.
Waiting ==
    /\ \A p \in Prompts : waits[p] > 0 => turn[p] \in {"scoped", "dropped"}
    /\ Stage \notin {"cancelGoal", "cancelAbort"} =>
           blocking_wait_depth <= RunningWaits + subagent_waits

\* A queued notification turn is promoted by the very next section.
Draining ==
    /\ \A p \in Range(pending_inputs) : Kind[p] = "drain" /\ turn[p] = "none" =>
           /\ Stage = "start" /\ ~notifications_suppressed
           /\ Head(pending_inputs) = p /\ running_task = None
    /\ \A p \in Range(pending_interjections) : Kind[p] = "fallback"

\* Who promotes a prompt that is queued in front of an empty slot, and who flushes the
\* interjections that no turn will merge.
Promoting ==
    /\ Stage \in {"rest", "drain"} /\ pending_inputs # <<>> /\ running_task = None =>
           resume = "start"
    /\ Stage \notin {"pop", "turnEnd", "flush", "cancelBegin"} /\ running_task = None =>
           pending_interjections = <<>>
    /\ Stage \in {"cancelTake", "cancelGoal", "cancelAbort", "cancelFinish", "pauseGoal",
                  "unsuppress"} => pending_interjections = <<>>

Sound ==
    /\ CancelPhase /\ Pinned /\ Holding /\ Started /\ Slot /\ Terminals
    /\ Waiting /\ Draining /\ Promoting

\* A session that was shut down takes no further step; its queue was swept by then.
TurnInv == LoopOrdered /\ Slot /\ Terminals /\ (~stopped => Sound)

-----------------------------------------------------------------------------
(* Stages *)

\* A handler runs its sections in order.
LEMMA TailStage ==
    ASSUME NEW s \in Seq(Steps), Ordered(s), s # <<>>
    PROVE  /\ Ordered(Tail(s))
           /\ Follows(Head(s), IF Tail(s) = <<>> THEN "rest" ELSE Head(Tail(s)))
PROOF
<1> DEFINE t == Tail(s)
<1>1. /\ Len(s) \in Nat /\ Len(s) > 0 /\ t \in Seq(Steps) /\ Len(t) = Len(s) - 1
      /\ Head(s) = s[1] /\ \A i \in 1 .. Len(t) : t[i] = s[i + 1]
    OBVIOUS
<1>2. Len(s) > 1 => Head(t) = s[2]
    BY <1>1
<1> HIDE DEF t
<1>3. t = <<>> <=> Len(s) = 1
    BY <1>1
<1>4. ASSUME NEW i \in 1 .. Len(t)
      PROVE  Follows(t[i], IF i = Len(t) THEN "rest" ELSE t[i + 1])
    <2>1. i + 1 \in 1 .. Len(s) /\ (i + 1 = Len(s) <=> i = Len(t)) /\ t[i] = s[i + 1]
        BY <1>1
    <2>2. i # Len(t) => t[i + 1] = s[(i + 1) + 1]
        BY <1>1
    <2>3. Follows(s[i + 1], IF i + 1 = Len(s) THEN "rest" ELSE s[(i + 1) + 1])
        BY <2>1 DEF Ordered, Chain
    <2> QED
        BY <2>1, <2>2, <2>3
<1>5. Follows(s[1], IF 1 = Len(s) THEN "rest" ELSE s[1 + 1])
    BY <1>1 DEF Ordered, Chain
<1>6. Ordered(t)
    BY <1>4 DEF Ordered, Chain
<1>7. Follows(Head(s), IF t = <<>> THEN "rest" ELSE Head(t))
    BY <1>1, <1>2, <1>3, <1>5
<1> QED
    BY <1>6, <1>7 DEF t

\* One run of sections after another
LEMMA ChainConcat ==
    ASSUME NEW s \in Seq(Steps), NEW t \in Seq(Steps), NEW e, t # <<>>,
           Chain(s, Head(t)), Chain(t, e)
    PROVE  Chain(s \o t, e)
PROOF
<1>1. /\ Len(s \o t) = Len(s) + Len(t) /\ Len(s) \in Nat /\ Len(t) \in Nat /\ Len(t) > 0
      /\ Head(t) = t[1]
    OBVIOUS
<1>2. \A i \in 1 .. Len(s) : (s \o t)[i] = s[i]
    OBVIOUS
<1>3. \A i \in Len(s) + 1 .. Len(s) + Len(t) : (s \o t)[i] = t[i - Len(s)]
    OBVIOUS
<1>4. ASSUME NEW i \in 1 .. Len(s \o t)
      PROVE  Follows((s \o t)[i], IF i = Len(s \o t) THEN e ELSE (s \o t)[i + 1])
    <2>1. CASE i < Len(s)
        <3>1. i \in 1 .. Len(s) /\ i + 1 \in 1 .. Len(s) /\ i # Len(s) /\ i # Len(s \o t)
            BY <1>1, <2>1
        <3> QED
            BY <1>2, <3>1 DEF Chain
    <2>2. CASE i = Len(s)
        <3>1. /\ i \in 1 .. Len(s) /\ i + 1 \in Len(s) + 1 .. Len(s) + Len(t)
              /\ (i + 1) - Len(s) = 1 /\ i # Len(s \o t)
            BY <1>1, <2>2
        <3> QED
            BY <1>1, <1>2, <1>3, <2>2, <3>1 DEF Chain
    <2>3. CASE i > Len(s)
        <3> DEFINE k == i - Len(s)
        <3>1. /\ k \in 1 .. Len(t) /\ i \in Len(s) + 1 .. Len(s) + Len(t)
              /\ (i = Len(s \o t) <=> k = Len(t)) /\ (i + 1) - Len(s) = k + 1
              /\ i # Len(s \o t) => i + 1 \in Len(s) + 1 .. Len(s) + Len(t)
            BY <1>1, <2>3
        <3>2. (s \o t)[i] = t[k] /\ (i # Len(s \o t) => (s \o t)[i + 1] = t[k + 1])
            BY <1>3, <3>1
        <3> HIDE DEF k
        <3>3. Follows(t[k], IF k = Len(t) THEN e ELSE t[k + 1])
            BY <3>1 DEF Chain
        <3> QED
            BY <3>1, <3>2, <3>3
    <2> QED
        BY <1>1, <2>1, <2>2, <2>3
<1> QED
    BY <1>4 DEF Chain

\* The schedules that handlers start with
LEMMA OrderedSteps ==
    /\ Ordered(CompletionSteps) /\ Head(CompletionSteps) = "pop" /\ CompletionSteps # <<>>
    /\ Ordered(UserCancelSteps) /\ Head(UserCancelSteps) = "cancelBegin" /\ UserCancelSteps # <<>>
    /\ Ordered(SendNowSteps(TRUE)) /\ Head(SendNowSteps(TRUE)) = "cancelBegin"
    /\ SendNowSteps(TRUE) # <<>>
    /\ Ordered(<<"start">>) /\ Head(<<"start">>) = "start" /\ <<"start">> # <<>>
    /\ SendNowSteps(FALSE) = <<"start">>
    /\ Ordered(<<"drain">>) /\ Head(<<"drain">>) = "drain" /\ <<"drain">> # <<>>
    /\ Ordered(<<>>)
PROOF
<1>1. Ordered(CompletionSteps) /\ Head(CompletionSteps) = "pop" /\ CompletionSteps # <<>>
    BY DEF Ordered, Chain, CompletionSteps, Follows
<1>2. /\ CancelSteps \in Seq(Steps) /\ CancelSteps # <<>> /\ Head(CancelSteps) = "cancelBegin"
      /\ Chain(CancelSteps, "pauseGoal") /\ Chain(CancelSteps, "unsuppress")
    <2>1. CancelSteps \in Seq(Steps) /\ CancelSteps # <<>> /\ Head(CancelSteps) = "cancelBegin"
        BY DEF CancelSteps, Steps
    <2> QED
        BY <2>1 DEF CancelSteps, Chain, Follows
<1>3. /\ <<"pauseGoal", "start">> \in Seq(Steps) /\ <<"unsuppress">> \in Seq(Steps)
      /\ <<"start">> \in Seq(Steps)
      /\ Head(<<"pauseGoal", "start">>) = "pauseGoal" /\ Head(<<"unsuppress">>) = "unsuppress"
      /\ <<"pauseGoal", "start">> # <<>> /\ <<"unsuppress">> # <<>>
    BY DEF Steps
<1>4. /\ Chain(<<"pauseGoal", "start">>, "rest") /\ Chain(<<"unsuppress">>, "start")
      /\ Chain(<<"start">>, "rest") /\ Head(<<"start">>) = "start" /\ <<"start">> # <<>>
    BY DEF Chain, Follows
<1>5. Chain(UserCancelSteps, "rest")
    BY <1>2, <1>3, <1>4, ChainConcat DEF UserCancelSteps
<1>6. Head(UserCancelSteps) = "cancelBegin" /\ UserCancelSteps # <<>>
    BY <1>2, <1>3, ConcatHead DEF UserCancelSteps
<1> DEFINE c == CancelSteps \o <<"unsuppress">>
<1>7. c \in Seq(Steps) /\ Chain(c, "start") /\ c # <<>> /\ Head(c) = "cancelBegin"
    <2>1. Chain(c, "start")
        BY <1>2, <1>3, <1>4, ChainConcat
    <2> QED
        BY <1>2, <1>3, <2>1, ConcatHead
<1>8. SendNowSteps(TRUE) = c \o <<"start">>
    BY DEF SendNowSteps
<1> HIDE DEF c
<1>9. Chain(c \o <<"start">>, "rest")
    BY <1>3, <1>4, <1>7, ChainConcat
<1>10. c \o <<"start">> # <<>> /\ Head(c \o <<"start">>) = "cancelBegin"
    BY <1>3, <1>7, ConcatHead
<1>11. SendNowSteps(FALSE) = <<"start">>
    BY DEF SendNowSteps
<1>12. Ordered(<<"drain">>) /\ Head(<<"drain">>) = "drain" /\ <<"drain">> # <<>>
    BY DEF Ordered, Chain, Follows
<1>13. Ordered(<<>>)
    BY DEF Ordered, Chain
<1> QED
    BY <1>1, <1>4, <1>5, <1>6, <1>8, <1>9, <1>10, <1>11, <1>12, <1>13 DEF Ordered

\* A section of the main loop hands over to the next.
LEMMA SectionStage ==
    ASSUME TypeOK, LoopOrdered, NEW s, At(s), todo' = Tail(todo)
    PROVE  LoopOrdered' /\ Stage = s /\ Follows(s, Stage')
PROOF
<1>1. todo \in Seq(Steps) /\ todo # <<>> /\ Head(todo) = s
    BY DEF TypeOK, LoopType, At
<1>2. /\ Ordered(Tail(todo))
      /\ Follows(Head(todo), IF Tail(todo) = <<>> THEN "rest" ELSE Head(Tail(todo)))
    BY <1>1, TailStage DEF LoopOrdered
<1> QED
    BY <1>1, <1>2 DEF LoopOrdered, Stage

\* A command starts its handler from rest.
LEMMA CommandStage ==
    ASSUME Ready
    PROVE  /\ Stage = "rest" /\ ~stopped
           /\ todo' = todo => Stage' = "rest"
           /\ todo' = <<"start">> => LoopOrdered' /\ Stage' = "start"
           /\ todo' = <<"drain">> => LoopOrdered' /\ Stage' = "drain"
           /\ todo' = UserCancelSteps => LoopOrdered' /\ Stage' = "cancelBegin"
           /\ todo' = SendNowSteps(TRUE) => LoopOrdered' /\ Stage' = "cancelBegin"
           /\ todo' = SendNowSteps(FALSE) => LoopOrdered' /\ Stage' = "start"
PROOF
<1>1. Stage = "rest" /\ ~stopped /\ (todo' = todo => Stage' = "rest")
    BY DEF Ready, Stage
<1>2. todo' = <<"start">> => LoopOrdered' /\ Stage' = "start"
    BY OrderedSteps DEF LoopOrdered, Stage
<1>3. todo' = <<"drain">> => LoopOrdered' /\ Stage' = "drain"
    BY OrderedSteps DEF LoopOrdered, Stage
<1>4. todo' = UserCancelSteps => LoopOrdered' /\ Stage' = "cancelBegin"
    BY OrderedSteps DEF LoopOrdered, Stage
<1>5. todo' = SendNowSteps(TRUE) => LoopOrdered' /\ Stage' = "cancelBegin"
    BY OrderedSteps DEF LoopOrdered, Stage
<1>6. todo' = SendNowSteps(FALSE) => LoopOrdered' /\ Stage' = "start"
    BY <1>2, OrderedSteps
<1> QED
    BY <1>1, <1>2, <1>3, <1>4, <1>5, <1>6

\* The main loop is where it was.
LEMMA SameStage ==
    ASSUME todo' = todo
    PROVE  Stage' = Stage /\ (Taken' <=> Taken) /\ (LoopOrdered => LoopOrdered')
PROOF
    BY DEF Stage, Taken, LoopOrdered

-----------------------------------------------------------------------------
(* Parts of the invariant a step does not touch *)

LEMMA CancelKept ==
    ASSUME CancelPhase, cancel' = cancel, running_task' = running_task, Taken' <=> Taken,
           Stage' = "cancelTake" => Stage = "cancelTake"
    PROVE  CancelPhase'
PROOF
    BY DEF CancelPhase

LEMMA PinnedKept ==
    ASSUME Pinned, current_prompt_id' = current_prompt_id, running_task' = running_task,
           Taken => Taken',
           Stage' = "pop" => Stage = "pop" /\ Head(completion_rx') = Head(completion_rx)
    PROVE  Pinned'
PROOF
    BY DEF Pinned

LEMMA HoldingKept ==
    ASSUME Holding, UNCHANGED <<pending_inputs, pending_interjections, fate>>,
           cancel'.inputs = cancel.inputs, cancel'.rewound = cancel.rewound
    PROVE  Holding'
PROOF
    BY DEF Holding, Held

LEMMA StartedKept ==
    ASSUME Started,
           UNCHANGED <<turn, fate, pending_interjections, pending_inputs, running_task>>,
           cancel'.inputs = cancel.inputs, cancel'.task = cancel.task
    PROVE  Started'
PROOF
    BY DEF Started

LEMMA SlotKept ==
    ASSUME Slot, UNCHANGED <<running_task, turn, aborting, completion_rx>>,
           cancel'.task = cancel.task, Stage' = "cancelFinish" => Stage = "cancelFinish"
    PROVE  Slot'
PROOF
    BY DEF Slot, Live

LEMMA TerminalsKept ==
    ASSUME Terminals, UNCHANGED <<fate, terminals, turn, aborting, running_task>>,
           cancel'.task = cancel.task, cancel'.rewound = cancel.rewound
    PROVE  Terminals'
PROOF
    BY DEF Terminals, Over, Live

LEMMA WaitingKept ==
    ASSUME Waiting,
           UNCHANGED <<waits, subagent_waits, turn, blocking_wait_depth, running_task>>,
           Stage \in {"cancelGoal", "cancelAbort"} => Stage' \in {"cancelGoal", "cancelAbort"}
    PROVE  Waiting'
PROOF
    BY DEF Waiting, RunningWaits

LEMMA WaitTypes ==
    ASSUME TypeOK
    PROVE  /\ waits \in [Prompts -> Nat] /\ subagent_waits \in Nat
           /\ blocking_wait_depth \in Nat /\ RunningWaits \in Nat
           /\ running_task # None => running_task \in Prompts
PROOF
    BY DEF TypeOK, TurnType, QueueType, MaybePrompt, RunningWaits

LEMMA DrainingKept ==
    ASSUME Draining,
           UNCHANGED <<pending_inputs, pending_interjections, turn, running_task>>,
           (Stage' = Stage /\ UNCHANGED notifications_suppressed) \/ Stage # "start"
    PROVE  Draining'
PROOF
    BY DEF Draining

LEMMA PromotingKept ==
    ASSUME Promoting, UNCHANGED <<pending_inputs, pending_interjections, running_task,
                                  resume>>,
           Stage' = Stage
    PROVE  Promoting'
PROOF
    BY DEF Promoting

-----------------------------------------------------------------------------
(* Edits of the queue *)

\* The step takes the prompts in gone out of the queue, with outcome o, and accepts
\* those in new, which are new to the session.
Edits(gone, new, o) ==
    /\ gone \subseteq Range(pending_inputs) /\ running_task \notin gone
    /\ new \subseteq {p \in Prompts : fate[p] = "unsent"}
    /\ o \in Fates \ {"unsent", "pending"}
    /\ Lists(pending_inputs', (Range(pending_inputs) \ gone) \cup new)
    /\ \A p \in Prompts :
           fate'[p] = IF p \in new THEN "pending" ELSE IF p \in gone THEN o ELSE fate[p]
    /\ UNCHANGED <<turn, running_task, aborting, terminals, pending_interjections>>
    /\ cancel'.task = cancel.task /\ cancel'.inputs = cancel.inputs
    /\ cancel'.rewound = cancel.rewound

LEMMA EditKeeps ==
    ASSUME TypeOK, Holding, Started, Terminals, NEW gone, NEW new, NEW o, Edits(gone, new, o)
    PROVE  Holding' /\ Started' /\ Terminals'
PROOF
<1>1. /\ Range(pending_inputs') = (Range(pending_inputs) \ gone) \cup new
      /\ IsInjective(pending_inputs')
    BY DEF Edits, Lists
<1>2. ASSUME NEW p \in new
      PROVE  /\ p \in Prompts /\ fate[p] = "unsent" /\ turn[p] = "none" /\ terminals[p] = 0
             /\ p \notin Held
    <2>1. p \in Prompts /\ fate[p] = "unsent"
        BY DEF Edits
    <2> QED
        BY <2>1 DEF Holding, Started, Terminals
<1>3. /\ Range(pending_inputs) \subseteq Prompts /\ Range(pending_interjections) \subseteq Prompts
      /\ Range(cancel.inputs) \subseteq Prompts
    BY DEF TypeOK, QueueType, SharedType, LoopType, CancelLocals, Range
<1>4. \A p \in gone : p \in Prompts /\ p \in Held /\ fate[p] = "pending"
    BY <1>3 DEF Edits, Holding, Held
<1>5. Holding'
    <2>1. Held' = (Held \ gone) \cup new
        BY <1>1 DEF Held, Edits, Holding
    <2>2. \A p \in Prompts : fate'[p] = "pending" <=> p \in Held'
        BY <1>2, <1>4, <2>1 DEF Edits, Holding
    <2>3. /\ Range(pending_inputs') \cap Range(pending_interjections) = {}
          /\ Range(pending_inputs') \cap Range(cancel.inputs) = {}
          /\ cancel.rewound \notin Range(pending_inputs')
        BY <1>1, <1>2, QueueConstants DEF Holding, Held
    <2> QED
        BY <1>1, <2>2, <2>3 DEF Holding, Edits
<1>6. Started'
    BY <1>1, <1>2, <1>4 DEF Started, Edits
<1>7. Terminals'
    BY <1>2, <1>4 DEF Terminals, Over, Live, Edits
<1> QED
    BY <1>5, <1>6, <1>7

\* The queue is empty exactly when it holds nobody.
LEMMA EmptyRange ==
    ASSUME NEW S, NEW s \in Seq(S)
    PROVE  /\ s = <<>> <=> Range(s) = {}
           /\ Range(s) \subseteq S
           /\ s # <<>> => Head(s) \in Range(s)
           /\ Len(s) \in Nat
PROOF
<1>1. Len(s) \in Nat /\ DOMAIN s = 1 .. Len(s) /\ \A i \in DOMAIN s : s[i] \in S
    OBVIOUS
<1>2. ASSUME s # <<>>
      PROVE  1 \in DOMAIN s /\ Head(s) = s[1]
    BY <1>1, <1>2
<1>3. s # <<>> => Head(s) \in Range(s)
    BY <1>2 DEF Range
<1>4. s = <<>> => Range(s) = {}
    BY DEF Range
<1> QED
    BY <1>1, <1>3, <1>4 DEF Range

\* What queue_input does is an edit.
LEMMA QueueInputEdits ==
    ASSUME TypeOK, Holding, NEW p \in Prompts, NEW asked \in BOOLEAN, fate[p] = "unsent",
           QueueInput(p, asked), UNCHANGED <<turn, aborting, terminals,
                                             pending_interjections>>,
           cancel'.task = cancel.task, cancel'.inputs = cancel.inputs,
           cancel'.rewound = cancel.rewound
    PROVE  Edits(Preempted(p), {p}, "dropped")
PROOF
<1> DEFINE q == pending_inputs
           kept == Retain(q, Prompts \ Preempted(p))
           K == Range(q) \cap (Prompts \ Preempted(p))
<1>1. q \in Seq(Prompts) /\ Lists(q, Range(q)) /\ Range(q) \subseteq Prompts
    BY EmptyRange DEF TypeOK, QueueType, Holding, Lists
<1>2. p \notin Range(q)
    BY DEF Holding, Held
<1>3. kept \in Seq(Prompts) /\ Lists(kept, K) /\ p \notin K
    BY <1>1, <1>2, RetainType, RetainLists
<1>4. Lists(Append(kept, p), K \cup {p})
          /\ Lists(InsertSendNow(kept, running_task, send_now, p), K \cup {p})
    BY <1>3, AppendLists, InsertSendNowLists
<1>5. K \cup {p} = (Range(q) \ Preempted(p)) \cup {p}
    BY <1>1
<1>6. Lists(pending_inputs', (Range(q) \ Preempted(p)) \cup {p})
    BY <1>4, <1>5 DEF QueueInput
<1>7. Preempted(p) \subseteq Range(q) /\ running_task \notin Preempted(p)
    BY DEF Preempted, Swept
<1>8. \A x \in Prompts :
          fate'[x] = IF x \in {p} THEN "pending" ELSE IF x \in Preempted(p) THEN "dropped" ELSE fate[x]
    BY <1>2, <1>7 DEF QueueInput, Settle, TypeOK, SeenType
<1> QED
    BY <1>6, <1>7, <1>8 DEF Edits, QueueInput, Fates

\* Prompts that were added to the queue or the interjections, and are no notification
\* turns
LEMMA NoDrainAdded ==
    ASSUME Draining, Stage # "start", UNCHANGED turn, NEW new,
           Range(pending_inputs') \subseteq Range(pending_inputs) \cup new,
           \A p \in new : Kind[p] # "drain",
           \A p \in Range(pending_interjections') : Kind[p] = "fallback"
    PROVE  Draining'
PROOF
    BY DEF Draining

-----------------------------------------------------------------------------
(* Commands *)

\* A command finds no cancel in progress and leaves the turns to the handler it starts.
LEMMA CommandKeeps ==
    ASSUME Sound, Stage = "rest", Stage' \in {"rest", "start", "drain", "cancelBegin"},
           UNCHANGED <<turn, running_task, aborting, completion_rx, waits, subagent_waits,
                       blocking_wait_depth, current_prompt_id>>,
           cancel' = cancel \/ \E why : cancel' = CancelFor(why)
    PROVE  /\ CancelPhase' /\ Pinned' /\ Slot' /\ Waiting'
           /\ cancel'.task = cancel.task /\ cancel'.inputs = cancel.inputs
           /\ cancel'.rewound = cancel.rewound
PROOF
<1>1. ~Taken /\ ~Taken'
    BY DEF Taken
<1>2. cancel.task = None /\ cancel.inputs = <<>> /\ cancel.rewound = None
    BY <1>1 DEF Sound, CancelPhase
<1>3. cancel'.task = None /\ cancel'.inputs = <<>> /\ cancel'.rewound = None
    BY <1>2 DEF CancelFor
<1>4. CancelPhase'
    BY <1>1, <1>3 DEF CancelPhase
<1>5. Pinned'
    BY <1>1 DEF Sound, Pinned
<1>6. Slot'
    BY <1>2, <1>3, SlotKept DEF Sound
<1>7. Waiting'
    BY WaitingKept DEF Sound
<1> QED
    BY <1>2, <1>3, <1>4, <1>5, <1>6, <1>7

\* Commands that start a promotion, or do not fill the queue
LEMMA CommandPromotes ==
    ASSUME Promoting, Stage = "rest",
           UNCHANGED <<pending_interjections, running_task, resume>>,
           \/ Stage' \in {"start", "cancelBegin"}
           \/ Stage' \in {"rest", "drain"} /\ (pending_inputs' # <<>> => pending_inputs # <<>>)
    PROVE  Promoting'
PROOF
    BY DEF Promoting

\* The prompt that a preempting, appending or send-now insert has accepted
LEMMA PromptSound ==
    ASSUME TypeOK, LoopOrdered, Sound, NEW p \in Prompts, NEW asked \in BOOLEAN, Prompt(p, asked)
    PROVE  LoopOrdered' /\ Sound'
PROOF
<1> DEFINE c == CancelsTurn(GoesNow(p, asked))
<1>1. /\ Ready /\ fate[p] = "unsent" /\ Kind[p] # "drain" /\ QueueInput(p, asked)
      /\ c \in BOOLEAN /\ todo' = SendNowSteps(c)
      /\ cancel' = IF c THEN CancelFor("send_now") ELSE cancel
    BY DEF Prompt, ThenRunNext, CancelsTurn
<1> HIDE DEF c
<1>2. Stage = "rest" /\ LoopOrdered' /\ Stage' \in {"start", "cancelBegin"}
    BY <1>1, CommandStage
<1>3. /\ CancelPhase' /\ Pinned' /\ Slot' /\ Waiting'
      /\ cancel'.task = cancel.task /\ cancel'.inputs = cancel.inputs
      /\ cancel'.rewound = cancel.rewound
    <2>1. UNCHANGED <<turn, running_task, aborting, completion_rx, waits, subagent_waits,
                      blocking_wait_depth, current_prompt_id>>
        BY <1>1 DEF Prompt, turnVars, QueueInput
    <2>2. cancel' = cancel \/ \E why : cancel' = CancelFor(why)
        BY <1>1
    <2> QED
        BY <1>2, <2>1, <2>2, CommandKeeps
<1>4. UNCHANGED <<turn, aborting, terminals, pending_interjections, running_task, resume>>
    BY DEF Prompt, turnVars, taskVars, QueueInput
<1>5. Edits(Preempted(p), {p}, "dropped")
    BY <1>1, <1>3, <1>4, QueueInputEdits DEF Sound
<1>6. Holding' /\ Started' /\ Terminals'
    BY <1>5, EditKeeps DEF Sound
<1>7. Draining'
    <2>1. Range(pending_inputs') \subseteq Range(pending_inputs) \cup {p}
        BY <1>5 DEF Edits, Lists
    <2>2. \A x \in Range(pending_interjections') : Kind[x] = "fallback"
        BY <1>4 DEF Sound, Draining
    <2> QED
        BY <1>1, <1>2, <1>4, <2>1, <2>2, NoDrainAdded DEF Sound
<1>8. Promoting'
    BY <1>2, <1>4, CommandPromotes DEF Sound
<1> QED
    BY <1>2, <1>3, <1>6, <1>7, <1>8 DEF Sound

\* An interjection that the running turn will merge
LEMMA InterjectBuffered ==
    ASSUME TypeOK, LoopOrdered, Sound, NEW p \in Prompts, Interject(p), current_prompt_id # None
    PROVE  LoopOrdered' /\ Sound'
PROOF
<1>1. /\ Ready /\ fate[p] = "unsent" /\ Kind[p] = "fallback"
      /\ pending_interjections' = Append(pending_interjections, p)
      /\ fate' = [fate EXCEPT ![p] = "pending"]
      /\ UNCHANGED <<pending_inputs, todo, cancel, turn, running_task, aborting,
                     completion_rx, waits, subagent_waits, blocking_wait_depth,
                     current_prompt_id, terminals, resume>>
    BY DEF Interject, Fresh, turnVars, taskVars
<1>2. Stage = "rest" /\ Stage' = "rest" /\ LoopOrdered'
    BY <1>1, CommandStage, SameStage
<1>3. CancelPhase' /\ Pinned' /\ Slot' /\ Waiting'
    BY <1>1, <1>2, CommandKeeps
<1>4. /\ running_task # None
      /\ cancel.inputs = <<>> /\ cancel.rewound = None /\ cancel.task = None
    BY <1>2 DEF Sound, Pinned, CancelPhase, Taken
<1>5. p \notin Held /\ turn[p] = "none" /\ terminals[p] = 0
    BY <1>1 DEF Sound, Holding, Started, Terminals
<1>6. pending_interjections \in Seq(Prompts) /\ p \notin Range(pending_interjections)
          /\ Lists(pending_interjections, Range(pending_interjections))
    BY <1>5 DEF TypeOK, SharedType, Sound, Holding, Held, Lists
<1>7. Lists(pending_interjections', Range(pending_interjections) \cup {p})
    BY <1>1, <1>6, AppendLists
<1>8. Range(pending_interjections') = Range(pending_interjections) \cup {p}
    BY <1>7 DEF Lists
<1>9. Holding'
    <2>1. Held' = Held \cup {p}
        BY <1>1, <1>8 DEF Held
    <2>2. \A x \in Prompts : fate'[x] = "pending" <=> x \in Held'
        BY <1>1, <2>1 DEF Sound, Holding, TypeOK, SeenType
    <2>3. p \notin Range(pending_inputs) /\ p # cancel.rewound
        BY <1>4, <1>5, QueueConstants DEF Held
    <2>4. Range(cancel.inputs) = {}
        BY <1>4 DEF Range
    <2> QED
        BY <1>1, <1>4, <1>7, <1>8, <2>2, <2>3, <2>4 DEF Sound, Holding, Lists
<1>10. Started'
    BY <1>1, <1>5, <1>8 DEF Sound, Started, TypeOK, SeenType
<1>11. Terminals'
    BY <1>1, <1>5 DEF Sound, Terminals, Over, Live, TypeOK, SeenType
<1>12. Draining'
    BY <1>1, <1>2, <1>8 DEF Sound, Draining
<1>13. Promoting'
    BY <1>1, <1>2, <1>4 DEF Sound, Promoting
<1> QED
    BY <1>2, <1>3, <1>9, <1>10, <1>11, <1>12, <1>13 DEF Sound

\* One new prompt, behind which a promotion follows
LEMMA AcceptSound ==
    ASSUME TypeOK, LoopOrdered, Sound, NEW p \in Prompts, Ready, fate[p] = "unsent",
           Kind[p] # "drain",
           Lists(pending_inputs', Range(pending_inputs) \cup {p}),
           fate' = [fate EXCEPT ![p] = "pending"], todo' = <<"start">>,
           UNCHANGED <<cancel, turn, running_task, aborting, completion_rx, waits,
                       subagent_waits, blocking_wait_depth, current_prompt_id, terminals,
                       resume, pending_interjections>>
    PROVE  LoopOrdered' /\ Sound'
PROOF
<1>1. Stage = "rest" /\ Stage' = "start" /\ LoopOrdered'
    BY CommandStage
<1>2. CancelPhase' /\ Pinned' /\ Slot' /\ Waiting'
    BY <1>1, CommandKeeps
<1>3. Edits({}, {p}, "dropped")
    <2>1. {} \subseteq Range(pending_inputs) /\ running_task \notin {}
        OBVIOUS
    <2>2. (Range(pending_inputs) \ {}) \cup {p} = Range(pending_inputs) \cup {p}
        OBVIOUS
    <2> QED
        BY <2>1, <2>2 DEF Edits, Fates, TypeOK, SeenType
<1>4. Holding' /\ Started' /\ Terminals'
    BY <1>3, EditKeeps DEF Sound
<1>5. Draining'
    <2>1. Range(pending_inputs') \subseteq Range(pending_inputs) \cup {p}
        BY DEF Lists
    <2>2. \A x \in Range(pending_interjections') : Kind[x] = "fallback"
        BY DEF Sound, Draining
    <2> QED
        BY <1>1, <2>1, <2>2, NoDrainAdded DEF Sound
<1>6. Promoting'
    BY <1>1, CommandPromotes DEF Sound
<1> QED
    BY <1>1, <1>2, <1>4, <1>5, <1>6 DEF Sound

\* A prompt that is new to the session is not queued.
LEMMA UnsentNotQueued ==
    ASSUME TypeOK, Holding, NEW p \in Prompts, fate[p] = "unsent"
    PROVE  /\ p \notin Range(pending_inputs) /\ pending_inputs \in Seq(Prompts)
           /\ Lists(pending_inputs, Range(pending_inputs))
PROOF
    BY DEF Holding, Held, Lists, TypeOK, QueueType

\* An interjection with no turn to merge it, and the summary turn of a goal
LEMMA AcceptingSound ==
    ASSUME TypeOK, LoopOrdered, Sound, NEW p \in Prompts,
           (Interject(p) /\ current_prompt_id = None) \/ GoalSummaryTurn(p)
    PROVE  LoopOrdered' /\ Sound'
PROOF
<1>1. /\ Ready /\ fate[p] = "unsent" /\ Kind[p] # "drain"
      /\ fate' = [fate EXCEPT ![p] = "pending"] /\ todo' = <<"start">>
      /\ \/ pending_inputs' = InsertFallback(pending_inputs, running_task, p)
         \/ pending_inputs' = Append(pending_inputs, p)
    BY DEF Interject, GoalSummaryTurn, Fresh
<1>2. UNCHANGED <<cancel, turn, running_task, aborting, completion_rx, waits,
                  subagent_waits, blocking_wait_depth, current_prompt_id, terminals,
                  resume, pending_interjections>>
    BY DEF Interject, GoalSummaryTurn, turnVars, taskVars
<1>3. /\ p \notin Range(pending_inputs) /\ pending_inputs \in Seq(Prompts)
      /\ Lists(pending_inputs, Range(pending_inputs))
    BY <1>1, UnsentNotQueued DEF Sound
<1>4. /\ Lists(InsertFallback(pending_inputs, running_task, p), Range(pending_inputs) \cup {p})
      /\ Lists(Append(pending_inputs, p), Range(pending_inputs) \cup {p})
    BY <1>3, AppendLists, InsertFallbackLists
<1> QED
    BY <1>1, <1>2, <1>4, AcceptSound

\* Edits by clients take rows out, with the outcome "removed", or only move them.
LEMMA RowsSound ==
    ASSUME TypeOK, LoopOrdered, Sound, Ready, EditsOnlyTheQueue, TypeOK',
           NEW gone, gone \subseteq Range(pending_inputs), running_task \notin gone,
           Lists(pending_inputs', Range(pending_inputs) \ gone),
           \A p \in Prompts : fate'[p] = IF p \in gone THEN "removed" ELSE fate[p],
           UNCHANGED <<todo, cancel>> \/ \E c \in BOOLEAN : ThenRunNext(c)
    PROVE  LoopOrdered' /\ Sound'
PROOF
<1>1. Stage = "rest" /\ LoopOrdered' /\ Stage' \in {"rest", "start", "cancelBegin"}
    BY CommandStage, SameStage DEF ThenRunNext
<1>2. UNCHANGED <<turn, running_task, aborting, completion_rx, waits, subagent_waits,
                  blocking_wait_depth, current_prompt_id, terminals, resume,
                  pending_interjections>>
    BY DEF EditsOnlyTheQueue, turnVars, taskVars
<1>3. cancel' = cancel \/ \E why : cancel' = CancelFor(why)
    BY DEF ThenRunNext
<1>4. /\ CancelPhase' /\ Pinned' /\ Slot' /\ Waiting'
      /\ cancel'.task = cancel.task /\ cancel'.inputs = cancel.inputs
      /\ cancel'.rewound = cancel.rewound
    BY <1>1, <1>2, <1>3, CommandKeeps
<1>5. Edits(gone, {}, "removed")
    <2>1. (Range(pending_inputs) \ gone) \cup {} = Range(pending_inputs) \ gone
        OBVIOUS
    <2> QED
        BY <1>2, <1>4, <2>1 DEF Edits, Fates
<1>6. Holding' /\ Started' /\ Terminals'
    BY <1>5, EditKeeps DEF Sound
<1>7. Range(pending_inputs') \subseteq Range(pending_inputs)
    BY DEF Lists
<1>8. Draining'
    <2>1. \A x \in Range(pending_interjections') : Kind[x] = "fallback"
        BY <1>2 DEF Sound, Draining
    <2>2. Range(pending_inputs') \subseteq Range(pending_inputs) \cup {}
        BY <1>7
    <2> QED
        BY <1>1, <1>2, <2>1, <2>2, NoDrainAdded DEF Sound
<1>9. Promoting'
    <2>1. pending_inputs' # <<>> => pending_inputs # <<>>
        BY <1>7, EmptyRange DEF TypeOK, QueueType
    <2> QED
        BY <1>1, <1>2, <2>1, CommandPromotes DEF Sound
<1> QED
    BY <1>1, <1>4, <1>6, <1>8, <1>9 DEF Sound

\* What a retain leaves in the queue
LEMMA RetainRest ==
    ASSUME TypeOK, Holding, NEW gone
    PROVE  Lists(Retain(pending_inputs, Prompts \ gone), Range(pending_inputs) \ gone)
PROOF
<1>1. pending_inputs \in Seq(Prompts) /\ Lists(pending_inputs, Range(pending_inputs))
    BY DEF TypeOK, QueueType, Holding, Lists
<1>2. Range(pending_inputs) \cap (Prompts \ gone) = Range(pending_inputs) \ gone
    BY <1>1, EmptyRange
<1> QED
    BY <1>1, <1>2, RetainLists

LEMMA QueueCommandSound ==
    ASSUME TypeOK, LoopOrdered, Sound, QueueCommand, TypeOK'
    PROVE  LoopOrdered' /\ Sound'
PROOF
<1>1. ASSUME NEW p \in Prompts, NEW v, NEW owner, RemoveQueuedPrompt(p, v, owner)
      PROVE  LoopOrdered' /\ Sound'
    <2> DEFINE removed == IF RowMatches(p, v, owner) THEN {p} ELSE {}
    <2>1. removed \subseteq Range(pending_inputs) /\ running_task \notin removed
        BY DEF RowMatches, IsRunningPrompt
    <2>2. /\ Ready /\ EditsOnlyTheQueue /\ UNCHANGED <<todo, cancel>>
          /\ pending_inputs' = Retain(pending_inputs, Prompts \ removed)
          /\ fate' = Settle(fate, removed, "removed")
        BY <1>1 DEF RemoveQueuedPrompt
    <2> HIDE DEF removed
    <2>3. Lists(pending_inputs', Range(pending_inputs) \ removed)
        BY <2>2, RetainRest DEF Sound
    <2>4. \A x \in Prompts : fate'[x] = IF x \in removed THEN "removed" ELSE fate[x]
        BY <2>2 DEF Settle
    <2> QED
        BY <2>1, <2>2, <2>3, <2>4, RowsSound
<1>2. ASSUME NEW owner, ClearQueue(owner)
      PROVE  LoopOrdered' /\ Sound'
    <2> DEFINE removed == Clearable(pending_inputs, running_task, owner)
    <2>1. removed \subseteq Range(pending_inputs) /\ running_task \notin removed
        BY DEF Clearable, Reorderable
    <2>2. /\ Ready /\ EditsOnlyTheQueue /\ UNCHANGED <<todo, cancel>>
          /\ pending_inputs' = Retain(pending_inputs, Prompts \ removed)
          /\ fate' = Settle(fate, removed, "removed")
        BY <1>2 DEF ClearQueue
    <2> HIDE DEF removed
    <2>3. Lists(pending_inputs', Range(pending_inputs) \ removed)
        BY <2>2, RetainRest DEF Sound
    <2>4. \A x \in Prompts : fate'[x] = IF x \in removed THEN "removed" ELSE fate[x]
        BY <2>2 DEF Settle
    <2> QED
        BY <2>1, <2>2, <2>3, <2>4, RowsSound
<1>3. /\ pending_inputs \in Seq(Prompts) /\ Lists(pending_inputs, Range(pending_inputs))
    BY DEF TypeOK, QueueType, Sound, Holding, Lists
<1> DEFINE none == {}
<1>4. /\ Range(pending_inputs) \ none = Range(pending_inputs)
      /\ none \subseteq Range(pending_inputs) /\ running_task \notin none
      /\ \A x : x \notin none
    OBVIOUS
<1> HIDE DEF none
<1>5. ASSUME NEW order \in Orders, ReorderQueue(order)
      PROVE  LoopOrdered' /\ Sound'
    <2>1. /\ Ready /\ EditsOnlyTheQueue /\ UNCHANGED <<todo, cancel, fate>>
          /\ pending_inputs' = Reordered(pending_inputs, running_task, order)
        BY <1>5 DEF ReorderQueue
    <2>2. order \in Seq(Prompts) /\ IsInjective(order)
        BY OrdersType DEF Orders
    <2>3. Lists(pending_inputs', Range(pending_inputs) \ none)
        BY <1>3, <1>4, <2>1, <2>2, ReorderedLists
    <2>4. \A x \in Prompts : fate'[x] = IF x \in none THEN "removed" ELSE fate[x]
        BY <1>4, <2>1
    <2> QED
        BY <1>4, <2>1, <2>3, <2>4, RowsSound
<1>6. ASSUME NEW p \in Prompts, EditQueuedPrompt(p)
      PROVE  LoopOrdered' /\ Sound'
    <2>1. /\ Ready /\ EditsOnlyTheQueue /\ UNCHANGED <<todo, cancel, fate, pending_inputs>>
        BY <1>6 DEF EditQueuedPrompt
    <2>2. Lists(pending_inputs', Range(pending_inputs) \ none)
        BY <1>3, <1>4, <2>1
    <2>3. \A x \in Prompts : fate'[x] = IF x \in none THEN "removed" ELSE fate[x]
        BY <1>4, <2>1
    <2> QED
        BY <1>4, <2>1, <2>2, <2>3, RowsSound
<1>7. ASSUME NEW p \in Prompts, NEW v, NEW owner, NEW edited \in BOOLEAN,
             InterjectQueuedPrompt(p, v, owner, edited)
      PROVE  LoopOrdered' /\ Sound'
    <2>1. Ready /\ EditsOnlyTheQueue /\ UNCHANGED fate
        BY <1>7 DEF InterjectQueuedPrompt
    <2>2. \E c \in BOOLEAN : ThenRunNext(c)
        BY <1>7 DEF InterjectQueuedPrompt, CancelsTurn
    <2>3. Lists(pending_inputs', Range(pending_inputs) \ none)
        <3>1. CASE RowMatches(p, v, owner)
            <4> DEFINE rest == Retain(pending_inputs, Prompts \ {p})
            <4>1. /\ rest \in Seq(Prompts) /\ Lists(rest, Range(pending_inputs) \ {p})
                  /\ p \notin Range(pending_inputs) \ {p}
                BY <1>3, RetainType, RetainRest DEF Sound
            <4>2. pending_inputs' = InsertSendNow(rest, running_task, send_now, p)
                BY <1>7, <3>1 DEF InterjectQueuedPrompt
            <4> HIDE DEF rest
            <4>3. Lists(pending_inputs', (Range(pending_inputs) \ {p}) \cup {p})
                BY <4>1, <4>2, InsertSendNowLists
            <4>4. (Range(pending_inputs) \ {p}) \cup {p} = Range(pending_inputs) \ none
                BY <1>4, <3>1 DEF RowMatches
            <4> QED
                BY <4>3, <4>4
        <3>2. CASE ~RowMatches(p, v, owner)
            BY <1>3, <1>7, <1>4, <3>2 DEF InterjectQueuedPrompt
        <3> QED
            BY <3>1, <3>2
    <2>4. \A x \in Prompts : fate'[x] = IF x \in none THEN "removed" ELSE fate[x]
        BY <1>4, <2>1
    <2> QED
        BY <1>4, <2>1, <2>2, <2>3, <2>4, RowsSound
<1> QED
    BY <1>1, <1>2, <1>5, <1>6, <1>7 DEF QueueCommand

\* Commands that only schedule something, or change what the invariant does not mention
LEMMA QuietCommandSound ==
    ASSUME TypeOK, LoopOrdered, Sound,
           \/ RestorePlanApproval
           \/ \E why \in CancelReasons : Cancel(why)
           \/ \E n \in Notifs : InjectNotification(n)
           \/ \E n \in Tasks : DropMonitorNotifications(n)
    PROVE  LoopOrdered' /\ Sound'
PROOF
<1>1. /\ Ready
      /\ todo' = todo \/ todo' = <<"drain">> \/ todo' = UserCancelSteps
      /\ cancel' = cancel \/ \E why : cancel' = CancelFor(why)
      /\ resume' = resume \/ resume = "none"
    BY DEF RestorePlanApproval, Cancel, InjectNotification, DropMonitorNotifications,
           NotificationStep, loopVars, taskVars
<1>2. UNCHANGED <<pending_inputs, running_task, turn, aborting, completion_rx, waits,
                  subagent_waits, blocking_wait_depth, current_prompt_id, terminals,
                  pending_interjections, fate>>
    BY DEF RestorePlanApproval, Cancel, InjectNotification, DropMonitorNotifications,
           NotificationStep, queueVars, turnVars
<1>3. Stage = "rest" /\ LoopOrdered' /\ Stage' \in {"rest", "drain", "cancelBegin"}
    BY <1>1, CommandStage, SameStage
<1>4. /\ CancelPhase' /\ Pinned' /\ Slot' /\ Waiting'
      /\ cancel'.task = cancel.task /\ cancel'.inputs = cancel.inputs
      /\ cancel'.rewound = cancel.rewound
    BY <1>1, <1>2, <1>3, CommandKeeps
<1>5. Holding' /\ Started' /\ Terminals'
    BY <1>2, <1>4, HoldingKept, StartedKept, TerminalsKept DEF Sound
<1>6. Draining'
    BY <1>2, <1>3, DrainingKept DEF Sound
<1>7. Promoting'
    BY <1>1, <1>2, <1>3 DEF Sound, Promoting
<1> QED
    BY <1>3, <1>4, <1>5, <1>6, <1>7 DEF Sound

-----------------------------------------------------------------------------
(* Promotion *)

\* The front of the queue is promoted: it was never started before.
LEMMA FrontIsFresh ==
    ASSUME TypeOK, Sound, running_task = None, pending_inputs # <<>>
    PROVE  LET p == Head(pending_inputs) IN
           /\ p \in Prompts /\ p # None /\ p \in Range(pending_inputs)
           /\ turn[p] = "none" /\ fate[p] = "pending" /\ terminals[p] = 0
           /\ p \notin aborting /\ p \notin Range(completion_rx)
           /\ p \notin Range(pending_interjections) /\ p \notin Range(cancel.inputs)
           /\ p # cancel.task
PROOF
<1> DEFINE p == Head(pending_inputs)
<1>1. p \in Range(pending_inputs) /\ p \in Prompts /\ p # None
    BY EmptyRange, QueueConstants DEF TypeOK, QueueType
<1>2. turn[p] = "none"
    BY <1>1 DEF Sound, Started
<1>3. fate[p] = "pending"
    BY <1>1 DEF Sound, Holding, Held
<1>4. terminals[p] = 0
    BY <1>1, <1>3 DEF Sound, Terminals
<1>5. p \notin aborting /\ p \notin Range(completion_rx)
    BY <1>2 DEF Sound, Slot, LivePhases
<1>6. p \notin Range(pending_interjections) /\ p \notin Range(cancel.inputs)
    BY <1>1 DEF Sound, Holding
<1>7. p # cancel.task
    BY <1>1, <1>6 DEF Sound, CancelPhase
<1> QED
    BY <1>1, <1>2, <1>3, <1>4, <1>5, <1>6, <1>7

\* The stage at which the completion in hand names a turn that is done
LEMMA PopHead ==
    ASSUME TypeOK, PopHasCompletion, Sound, Stage = "pop"
    PROVE  /\ completion_rx # <<>> /\ Head(completion_rx) \in Range(completion_rx)
           /\ Head(completion_rx) \in Prompts /\ turn[Head(completion_rx)] = "done"
PROOF
<1>1. todo \in Seq(Steps) /\ todo # <<>> /\ Head(todo) = "pop"
    BY DEF Stage, TypeOK, LoopType
<1>2. completion_rx # <<>>
    BY <1>1 DEF PopHasCompletion
<1>3. Head(completion_rx) \in Range(completion_rx) /\ Range(completion_rx) \subseteq Prompts
    BY <1>2, EmptyRange DEF TypeOK, SharedType
<1> QED
    BY <1>2, <1>3 DEF Sound, Slot

\* maybe_start_running_task promotes the front of the queue.
LEMMA PromotedSound ==
    ASSUME TypeOK, PopHasCompletion, Sound, running_task = None, pending_inputs # <<>>,
           MaybeStartRunningTask, AfterStart,
           (Stage' = Stage /\ (Taken' <=> Taken))
               \/ (Stage = "start" /\ Stage' \in {"drain", "rest"})
    PROVE  Sound'
PROOF
<1> DEFINE p == Head(pending_inputs)
<1>1. /\ p \in Prompts /\ p # None /\ p \in Range(pending_inputs)
      /\ turn[p] = "none" /\ fate[p] = "pending" /\ terminals[p] = 0
      /\ p \notin aborting /\ p \notin Range(completion_rx)
      /\ p \notin Range(pending_interjections) /\ p \notin Range(cancel.inputs)
      /\ p # cancel.task
    BY FrontIsFresh
<1>2. running_task' = p /\ current_prompt_id' = p /\ turn' = [turn EXCEPT ![p] = "spawned"]
    BY DEF MaybeStartRunningTask
<1>3. UNCHANGED <<pending_inputs, aborting, waits, subagent_waits, blocking_wait_depth,
                  cancel, completion_rx, pending_interjections, fate, terminals,
                  notifications_suppressed>>
    BY DEF AfterStart, noteVars
<1>4. turn \in [Prompts -> Phases] /\ waits \in [Prompts -> Nat] /\ blocking_wait_depth \in Nat
    BY DEF TypeOK, TurnType
<1>5. /\ \A x \in Prompts : x # p => turn'[x] = turn[x]
      /\ turn'[p] = "spawned"
    BY <1>1, <1>2, <1>4
<1> HIDE DEF p
<1>6. (Taken' <=> Taken) /\ (Stage' \in {"cancelTake", "pop", "cancelFinish"} => Stage' = Stage)
    BY DEF Taken
<1>7. CancelPhase'
    BY <1>3, <1>6 DEF Sound, CancelPhase
<1>8. Pinned'
    <2>1. Stage = "pop" => p # Head(completion_rx)
        BY <1>1, PopHead
    <2> QED
        BY <1>2, <1>3, <1>6, <2>1 DEF Pinned
<1>9. Holding'
    BY <1>3, HoldingKept DEF Sound
<1>10. Started'
    <2>1. ASSUME NEW x \in Prompts, turn'[x] # "none"
          PROVE  /\ fate[x] # "unsent" /\ x \notin Range(pending_interjections)
                 /\ x \in Range(pending_inputs) => x = p
                 /\ x \in Range(cancel.inputs) => x = cancel.task
        <3>1. CASE x = p
            BY <1>1, <3>1
        <3>2. CASE x # p
            <4>1. turn[x] # "none" /\ x # None
                BY <1>5, <2>1, <3>2, QueueConstants
            <4> QED
                BY <4>1 DEF Sound, Started
        <3> QED
            BY <3>1, <3>2
    <2>2. cancel.task # None => turn'[cancel.task] # "none"
        <3>1. cancel.task # None => cancel.task \in Prompts
            BY DEF TypeOK, LoopType, CancelLocals, MaybePrompt
        <3> QED
            BY <1>1, <1>5, <3>1 DEF Sound, Started
    <2> QED
        BY <1>2, <1>3, <2>1, <2>2 DEF Started
<1>11. Slot'
    <2>1. turn'[p] \notin {"none", "dropped", "done"} /\ p \notin aborting
        BY <1>1, <1>5
    <2>2. Range(completion_rx) \subseteq Prompts /\ aborting \subseteq Prompts
        BY EmptyRange DEF TypeOK, SharedType, TurnType
    <2>3. \A x \in Range(completion_rx) : turn'[x] = "done"
        BY <1>1, <1>5, <2>2 DEF Sound, Slot
    <2>4. \A x \in aborting : turn'[x] \in LivePhases
        BY <1>1, <1>5, <2>2 DEF Sound, Slot
    <2>5. ASSUME NEW x \in Prompts, turn'[x] \in LivePhases, x \notin aborting, x # p
          PROVE  x = cancel.task /\ Stage' # "cancelFinish"
        BY <1>5, <1>6, <2>5, QueueConstants DEF Sound, Slot, Live
    <2> QED
        BY <1>2, <1>3, <2>1, <2>3, <2>4, <2>5 DEF Slot, Live
<1>12. Terminals'
    <2>1. ASSUME NEW x \in Prompts, Over(x)'
          PROVE  \/ terminals[x] = 1 \/ fate[x] = "rewound"
                 \/ x \in {p, cancel.task, cancel.rewound}
        <3>1. CASE x # p
            <4>1. Over(x) /\ x # None
                BY <1>3, <1>5, <2>1, <3>1, QueueConstants DEF Over, Live
            <4> QED
                BY <4>1 DEF Sound, Terminals
        <3> QED
            BY <3>1
    <2> QED
        BY <1>2, <1>3, <2>1 DEF Sound, Terminals
<1>13. Waiting'
    <2>1. \A x \in Prompts : waits[x] > 0 => turn'[x] \in {"scoped", "dropped"}
        BY <1>1, <1>5 DEF Sound, Waiting
    <2>2. Stage' \notin {"cancelGoal", "cancelAbort"} => blocking_wait_depth <= subagent_waits
        <3>1. Stage' \notin {"cancelGoal", "cancelAbort"} => Stage \notin {"cancelGoal", "cancelAbort"}
            OBVIOUS
        <3>2. RunningWaits = 0
            BY DEF RunningWaits
        <3> QED
            BY <3>1, <3>2, WaitTypes DEF Sound, Waiting
    <2>3. RunningWaits' = waits[p] /\ waits[p] \in Nat
        BY <1>1, <1>2, <1>3, <1>4 DEF RunningWaits
    <2>4. Stage' \notin {"cancelGoal", "cancelAbort"} =>
              blocking_wait_depth' <= RunningWaits' + subagent_waits'
        BY <1>3, <2>2, <2>3, WaitTypes
    <2> QED
        BY <1>3, <2>1, <2>4 DEF Waiting
<1>14. Draining'
    BY <1>1, <1>2, <1>3, <1>5, EmptyRange DEF Sound, Draining, TypeOK, QueueType, p
<1>15. Promoting'
    BY <1>1, <1>2, <1>3 DEF Sound, Promoting
<1> QED
    BY <1>7, <1>8, <1>9, <1>10, <1>11, <1>12, <1>13, <1>14, <1>15 DEF Sound

\* A promotion that finds the slot taken, or the queue empty
LEMMA NotPromotedSound ==
    ASSUME TypeOK, Sound, ~(running_task = None /\ pending_inputs # <<>>),
           MaybeStartRunningTask, AfterStart,
           (Stage' = Stage /\ (Taken' <=> Taken))
               \/ (Stage = "start" /\ Stage' \in {"drain", "rest"})
    PROVE  Sound'
PROOF
<1>1. UNCHANGED <<running_task, current_prompt_id, turn, pending_inputs, aborting, waits,
                  subagent_waits, blocking_wait_depth, cancel, completion_rx,
                  pending_interjections, fate, terminals, notifications_suppressed>>
    BY DEF AfterStart, noteVars, MaybeStartRunningTask
<1>2. (Taken' <=> Taken) /\ (Stage' \in {"cancelTake", "pop", "cancelFinish"} => Stage' = Stage)
    BY DEF Taken
<1>3. CancelPhase' /\ Pinned' /\ Slot' /\ Waiting'
    BY <1>1, <1>2, CancelKept, PinnedKept, SlotKept, WaitingKept DEF Sound
<1>4. Holding' /\ Started' /\ Terminals'
    BY <1>1, HoldingKept, StartedKept, TerminalsKept DEF Sound
<1>5. Draining'
    BY <1>1, EmptyRange DEF Sound, Draining, TypeOK, QueueType
<1>6. Promoting'
    BY <1>1 DEF Sound, Promoting
<1> QED
    BY <1>3, <1>4, <1>5, <1>6 DEF Sound

LEMMA StartersSound ==
    ASSUME TypeOK, PopHasCompletion, LoopOrdered, Sound,
           StartStep \/ McpInitialized \/ PlanResumeStarted
    PROVE  LoopOrdered' /\ Sound'
PROOF
<1>1. MaybeStartRunningTask /\ AfterStart
    BY DEF StartStep, McpInitialized, PlanResumeStarted
<1>2. LoopOrdered' /\ ((Stage' = Stage /\ (Taken' <=> Taken))
                           \/ (Stage = "start" /\ Stage' \in {"drain", "rest"}))
    <2>1. CASE StartStep
        BY <2>1, SectionStage DEF StartStep, Follows
    <2>2. CASE McpInitialized \/ PlanResumeStarted
        BY <2>2, SameStage DEF McpInitialized, PlanResumeStarted
    <2> QED
        BY <2>1, <2>2
<1> QED
    BY <1>1, <1>2, PromotedSound, NotPromotedSound

\* resume_plan_approval ends without a turn.
LEMMA PlanAbandonedSound ==
    ASSUME TypeOK, LoopOrdered, Sound, PlanAbandoned
    PROVE  LoopOrdered' /\ Sound'
PROOF
<1>1. UNCHANGED <<running_task, current_prompt_id, turn, pending_inputs, aborting, waits,
                  subagent_waits, blocking_wait_depth, cancel, completion_rx,
                  pending_interjections, fate, terminals, notifications_suppressed, todo>>
    BY DEF PlanAbandoned, queueVars, noteVars, turnVars, loopVars
<1>2. Stage' = Stage /\ (Taken' <=> Taken) /\ LoopOrdered'
    BY <1>1, SameStage
<1>3. CancelPhase' /\ Pinned' /\ Slot' /\ Waiting'
    BY <1>1, <1>2, CancelKept, PinnedKept, SlotKept, WaitingKept DEF Sound
<1>4. Holding' /\ Started' /\ Terminals' /\ Draining'
    BY <1>1, <1>2, HoldingKept, StartedKept, TerminalsKept, DrainingKept DEF Sound
<1>5. Promoting'
    BY <1>1, <1>2 DEF Sound, Promoting, PlanAbandoned
<1> QED
    BY <1>2, <1>3, <1>4, <1>5 DEF Sound

\* start_resume_turn queues its prompt last: a synthetic prompt preempts nothing.
LEMMA PlanResumeQueuedSound ==
    ASSUME TypeOK, LoopOrdered, Sound, NEW p \in Prompts, PlanResumeQueued(p)
    PROVE  LoopOrdered' /\ Sound'
PROOF
<1>1. /\ fate[p] = "unsent" /\ Kind[p] = "plan" /\ QueueInput(p, FALSE) /\ resume' = "start"
      /\ UNCHANGED <<running_task, current_prompt_id, turn, aborting, waits, subagent_waits,
                     blocking_wait_depth, cancel, completion_rx, pending_interjections,
                     terminals, notifications_suppressed, todo>>
    BY DEF PlanResumeQueued, Fresh, noteVars, turnVars, loopVars, QueueInput
<1>2. Stage' = Stage /\ (Taken' <=> Taken) /\ LoopOrdered'
    BY <1>1, SameStage
<1>3. CancelPhase' /\ Pinned' /\ Slot' /\ Waiting'
    BY <1>1, <1>2, CancelKept, PinnedKept, SlotKept, WaitingKept DEF Sound
<1>4. Edits(Preempted(p), {p}, "dropped")
    BY <1>1, QueueInputEdits DEF Sound
<1>5. Holding' /\ Started' /\ Terminals'
    BY <1>4, EditKeeps DEF Sound
<1>6. IsSynthetic(p) /\ Preempted(p) = {} /\ ~GoesNow(p, FALSE)
    BY <1>1 DEF IsSynthetic, Preempted, GoesNow
<1>7. Draining'
    <2> DEFINE kept == Retain(pending_inputs, Prompts \ Preempted(p))
    <2>1. kept \in Seq(Prompts) /\ pending_inputs' = Append(kept, p)
        BY <1>1, <1>6, RetainType DEF QueueInput, TypeOK, QueueType
    <2>2. ASSUME pending_inputs # <<>>
          PROVE  Head(pending_inputs') = Head(pending_inputs)
        <3>1. Head(pending_inputs) \in Prompts \ Preempted(p) /\ pending_inputs \in Seq(Prompts)
            BY <1>6, <2>2 DEF TypeOK, QueueType
        <3>2. kept # <<>> /\ Head(kept) = Head(pending_inputs)
            BY <2>2, <3>1, RetainHead
        <3> HIDE DEF kept
        <3> QED
            BY <2>1, <3>2
    <2>3. Range(pending_inputs') = Range(pending_inputs) \cup {p}
        BY <1>4, <1>6 DEF Edits, Lists
    <2>4. \A x \in Range(pending_inputs) : pending_inputs # <<>>
        BY EmptyRange DEF TypeOK, QueueType
    <2> QED
        BY <1>1, <1>2, <2>2, <2>3, <2>4 DEF Sound, Draining
<1>8. Promoting'
    BY <1>1, <1>2 DEF Sound, Promoting
<1> QED
    BY <1>2, <1>3, <1>5, <1>7, <1>8 DEF Sound

LEMMA HelperTaskSound ==
    ASSUME TypeOK, PopHasCompletion, LoopOrdered, Sound, HelperTask
    PROVE  LoopOrdered' /\ Sound'
PROOF
    BY StartersSound, PlanAbandonedSound, PlanResumeQueuedSound DEF HelperTask

-----------------------------------------------------------------------------
(* The end of a turn *)

\* The completion arm releases the pin of the turn that ended.
LEMMA CompletionSound ==
    ASSUME TypeOK, LoopOrdered, Sound, Completion
    PROVE  LoopOrdered' /\ Sound'
PROOF
<1>1. /\ todo = <<>> /\ todo' = CompletionSteps /\ completion_rx # <<>>
      /\ current_prompt_id' = PinWithout(Head(completion_rx))
      /\ UNCHANGED <<running_task, turn, pending_inputs, aborting, waits, subagent_waits,
                     blocking_wait_depth, cancel, completion_rx, pending_interjections,
                     fate, terminals, resume>>
    BY DEF Completion, queueVars, turnVars, taskVars
<1>2. Stage = "rest" /\ Stage' = "pop" /\ ~Taken /\ ~Taken' /\ LoopOrdered'
    BY <1>1, OrderedSteps DEF Stage, Taken, LoopOrdered
<1>3. Head(completion_rx) \in Prompts /\ Head(completion_rx) # None
    BY <1>1, EmptyRange, QueueConstants DEF TypeOK, SharedType
<1>4. Pinned'
    BY <1>1, <1>2, <1>3 DEF Sound, Pinned, PinWithout
<1>5. CancelPhase' /\ Slot' /\ Waiting'
    BY <1>1, <1>2, CancelKept, SlotKept, WaitingKept DEF Sound
<1>6. Holding' /\ Started' /\ Terminals' /\ Draining'
    BY <1>1, <1>2, HoldingKept, StartedKept, TerminalsKept, DrainingKept DEF Sound
<1>7. Promoting'
    BY <1>2 DEF Promoting
<1> QED
    BY <1>2, <1>4, <1>5, <1>6, <1>7 DEF Sound

\* handle_completion for the turn that owns the front of the queue: it ends here.
LEMMA PopOwnedSound ==
    ASSUME TypeOK, PopHasCompletion, LoopOrdered, Sound, PopCompleted,
           pending_inputs # <<>>, Head(pending_inputs) = Head(completion_rx)
    PROVE  Sound'
PROOF
<1> DEFINE p == Head(completion_rx)
<1>1. Stage = "pop" /\ Stage' = "turnEnd" /\ ~Taken /\ ~Taken'
    BY SectionStage DEF PopCompleted, Follows, Taken
<1>2. /\ completion_rx # <<>> /\ p \in Prompts /\ p # None /\ turn[p] = "done"
      /\ p \in Range(completion_rx)
    BY <1>1, PopHead, QueueConstants
<1>3. /\ pending_inputs' = Tail(pending_inputs) /\ fate' = [fate EXCEPT ![p] = "completed"]
      /\ running_task' = None /\ terminals' = [terminals EXCEPT ![p] = @ + 1]
      /\ completion_rx' = Tail(completion_rx)
    BY DEF PopCompleted, FreesSlot, EmitsTerminal
<1>4. UNCHANGED <<current_prompt_id, turn, aborting, waits, subagent_waits,
                  blocking_wait_depth, cancel, pending_interjections,
                  notifications_suppressed>>
    BY DEF PopCompleted, turnVars
<1>5. pending_inputs \in Seq(Prompts) /\ Lists(pending_inputs, Range(pending_inputs))
    BY DEF TypeOK, QueueType, Sound, Holding, Lists
<1>6. p \in Range(pending_inputs) /\ Lists(pending_inputs', Range(pending_inputs) \ {p})
    BY <1>3, <1>5, TailLists
<1> HIDE DEF p
<1>7. p = running_task /\ fate[p] = "pending" /\ terminals[p] = 0
    <2>1. fate[p] = "pending"
        BY <1>2, <1>6 DEF Sound, Holding, Held
    <2> QED
        BY <1>2, <1>6, <2>1 DEF Sound, Started, Terminals
<1>8. fate'[p] = "completed" /\ \A x \in Prompts : x # p => fate'[x] = fate[x]
    BY <1>2, <1>3 DEF TypeOK, SeenType
<1>9. terminals'[p] = 1 /\ \A x \in Prompts : x # p => terminals'[x] = terminals[x]
    BY <1>2, <1>3, <1>7 DEF TypeOK, SeenType
<1>10. cancel.task = None /\ cancel.inputs = <<>> /\ cancel.rewound = None
    BY <1>1 DEF Sound, CancelPhase
<1>11. CancelPhase'
    BY <1>1, <1>4, <1>10 DEF CancelPhase
<1>12. Pinned'
    BY <1>1, <1>3, <1>4, <1>7 DEF Sound, Pinned, p
<1>13. Holding'
    <2>1. Range(pending_inputs') = Range(pending_inputs) \ {p} /\ IsInjective(pending_inputs')
        BY <1>6 DEF Lists
    <2>2. p \notin Range(pending_interjections) /\ Range(cancel.inputs) = {}
        <3>1. p \notin Range(pending_interjections)
            BY <1>6 DEF Sound, Holding
        <3>2. Range(cancel.inputs) = {}
            BY <1>10 DEF Range
        <3> QED
            BY <3>1, <3>2
    <2>3. Held' = Held \ {p}
        BY <1>4, <1>10, <2>1, <2>2 DEF Held
    <2>4. \A x \in Prompts : fate'[x] = "pending" <=> x \in Held'
        BY <1>8, <2>3 DEF Sound, Holding
    <2> QED
        BY <1>4, <2>1, <2>4 DEF Sound, Holding
<1>14. Started'
    <2>1. Range(pending_inputs') = Range(pending_inputs) \ {p}
        BY <1>6 DEF Lists
    <2> QED
        BY <1>4, <1>7, <1>8, <1>10, <2>1 DEF Sound, Started
<1>15. Slot'
    <2>1. \A x \in Range(completion_rx') : x \in Range(completion_rx)
        <3>1. completion_rx \in Seq(Prompts)
            BY DEF TypeOK, SharedType
        <3> QED
            BY <1>2, <1>3, <3>1 DEF Range
    <2>2. ~Live(p)
        BY <1>2 DEF Live, LivePhases
    <2> QED
        BY <1>1, <1>3, <1>4, <1>7, <2>1, <2>2 DEF Sound, Slot, Live
<1>16. Terminals'
    BY <1>3, <1>4, <1>7, <1>8, <1>9 DEF Sound, Terminals, Over, Live
<1>17. Waiting'
    <2>1. waits[p] \in Nat /\ ~(waits[p] > 0)
        BY <1>2, WaitTypes DEF Sound, Waiting
    <2>2. RunningWaits = 0 /\ RunningWaits' = 0
        BY <1>3, <1>7, <2>1 DEF RunningWaits
    <2>3. blocking_wait_depth <= subagent_waits
        BY <1>1, <2>2, WaitTypes DEF Sound, Waiting
    <2> QED
        BY <1>4, <2>2, <2>3, WaitTypes DEF Sound, Waiting
<1>18. Draining'
    <2>1. Range(pending_inputs') \subseteq Range(pending_inputs)
        BY <1>6 DEF Lists
    <2> QED
        BY <1>1, <1>4, <2>1 DEF Sound, Draining
<1>19. Promoting'
    BY <1>1 DEF Promoting
<1> QED
    BY <1>11, <1>12, <1>13, <1>14, <1>15, <1>16, <1>17, <1>18, <1>19 DEF Sound

\* handle_completion for a turn that a cancel has answered already: nothing but the
\* completion goes.
LEMMA PopStaleSound ==
    ASSUME TypeOK, PopHasCompletion, LoopOrdered, FrontIsRunning, Sound, PopCompleted,
           ~(pending_inputs # <<>> /\ Head(pending_inputs) = Head(completion_rx))
    PROVE  Sound'
PROOF
<1> DEFINE p == Head(completion_rx)
<1>1. Stage = "pop" /\ Stage' = "turnEnd" /\ ~Taken /\ ~Taken' /\ ~stopped
    BY SectionStage DEF PopCompleted, Follows, Taken, At
<1>2. completion_rx # <<>> /\ p \in Prompts /\ p # None
    BY <1>1, PopHead, QueueConstants
<1>3. running_task # p
    BY <1>1, <1>2 DEF FrontIsRunning
<1>4. /\ UNCHANGED <<pending_inputs, fate, running_task, terminals>>
      /\ completion_rx' = Tail(completion_rx)
    BY <1>3 DEF PopCompleted, FreesSlot, EmitsTerminal
<1>5. UNCHANGED <<current_prompt_id, turn, aborting, waits, subagent_waits,
                  blocking_wait_depth, cancel, pending_interjections,
                  notifications_suppressed>>
    BY DEF PopCompleted, turnVars
<1>6. CancelPhase' /\ Pinned' /\ Waiting'
    BY <1>1, <1>4, <1>5, CancelKept, PinnedKept, WaitingKept DEF Sound
<1>7. Holding' /\ Started' /\ Terminals' /\ Draining'
    BY <1>1, <1>4, <1>5, HoldingKept, StartedKept, TerminalsKept, DrainingKept DEF Sound
<1>8. Slot'
    <2>1. completion_rx \in Seq(Prompts)
        BY DEF TypeOK, SharedType
    <2>2. \A x \in Range(completion_rx') : x \in Range(completion_rx)
        BY <1>2, <1>4, <2>1 DEF Range
    <2>3. \A x \in Range(completion_rx) : x # p => x \in Range(completion_rx')
        <3> SUFFICES ASSUME NEW i \in 1 .. Len(completion_rx), completion_rx[i] # p
                     PROVE  completion_rx[i] \in Range(Tail(completion_rx))
            BY <1>4, <2>1 DEF Range
        <3>1. i - 1 \in DOMAIN Tail(completion_rx) /\ Tail(completion_rx)[i - 1] = completion_rx[i]
            BY <1>2, <2>1
        <3> QED
            BY <3>1 DEF Range
    <2> QED
        BY <1>1, <1>3, <1>4, <1>5, <2>2, <2>3 DEF Sound, Slot, Live
<1>9. Promoting'
    BY <1>1 DEF Promoting
<1> QED
    BY <1>6, <1>7, <1>8, <1>9 DEF Sound

LEMMA PopCompletedSound ==
    ASSUME TypeOK, PopHasCompletion, LoopOrdered, FrontIsRunning, Sound, PopCompleted
    PROVE  LoopOrdered' /\ Sound'
PROOF
<1>1. LoopOrdered'
    BY SectionStage DEF PopCompleted
<1> QED
    BY <1>1, PopOwnedSound, PopStaleSound

\* The sections that only concern the goal
LEMMA GoalSectionSound ==
    ASSUME TypeOK, LoopOrdered, Sound, TurnEnd \/ TurnEndPausesGoal \/ PauseGoal
    PROVE  LoopOrdered' /\ Sound'
PROOF
<1>1. (At("turnEnd") \/ At("pauseGoal")) /\ GoalStep /\ UNCHANGED <<pending_inputs, fate>>
    BY DEF TurnEnd, TurnEndPausesGoal, PauseGoal
<1>2. UNCHANGED <<running_task, current_prompt_id, turn, aborting, waits, subagent_waits,
                  blocking_wait_depth, cancel, completion_rx, pending_interjections,
                  terminals, resume>>
    BY <1>1 DEF GoalStep, turnVars, taskVars
<1>3. /\ LoopOrdered'
      /\ (Stage = "turnEnd" /\ Stage' = "flush") \/ (Stage = "pauseGoal" /\ Stage' = "start")
    BY <1>1, SectionStage DEF GoalStep, Follows
<1>4. ~Taken /\ ~Taken'
    BY <1>3 DEF Taken
<1>5. CancelPhase' /\ Pinned' /\ Slot' /\ Waiting'
    BY <1>2, <1>3, <1>4, CancelKept, PinnedKept, SlotKept, WaitingKept DEF Sound
<1>6. Holding' /\ Started' /\ Terminals' /\ Draining'
    BY <1>1, <1>2, <1>3, HoldingKept, StartedKept, TerminalsKept, DrainingKept DEF Sound
<1>7. Promoting'
    BY <1>2, <1>3 DEF Sound, Promoting
<1> QED
    BY <1>3, <1>5, <1>6, <1>7 DEF Sound

\* maybe_queue_goal_continuation
LEMMA TurnEndContinuesGoalSound ==
    ASSUME TypeOK, LoopOrdered, Sound, NEW p \in Prompts, TurnEndContinuesGoal(p)
    PROVE  LoopOrdered' /\ Sound'
PROOF
<1>1. /\ At("turnEnd") /\ GoalStep /\ fate[p] = "unsent" /\ Kind[p] = "goal"
      /\ pending_inputs' = Append(pending_inputs, p) /\ fate' = [fate EXCEPT ![p] = "pending"]
    BY DEF TurnEndContinuesGoal, Fresh
<1>2. UNCHANGED <<running_task, current_prompt_id, turn, aborting, waits, subagent_waits,
                  blocking_wait_depth, cancel, completion_rx, pending_interjections,
                  terminals, resume>>
    BY <1>1 DEF GoalStep, turnVars, taskVars
<1>3. LoopOrdered' /\ Stage = "turnEnd" /\ Stage' = "flush"
    BY <1>1, SectionStage DEF GoalStep, Follows
<1>4. ~Taken /\ ~Taken'
    BY <1>3 DEF Taken
<1>5. CancelPhase' /\ Pinned' /\ Slot' /\ Waiting'
    BY <1>2, <1>3, <1>4, CancelKept, PinnedKept, SlotKept, WaitingKept DEF Sound
<1> DEFINE none == {}
<1>6. /\ none \subseteq Range(pending_inputs) /\ running_task \notin none /\ \A x : x \notin none
      /\ Range(pending_inputs) \ none = Range(pending_inputs)
    OBVIOUS
<1> HIDE DEF none
<1>7. Lists(pending_inputs', Range(pending_inputs) \cup {p})
    <2>1. pending_inputs \in Seq(Prompts) /\ Lists(pending_inputs, Range(pending_inputs))
        BY DEF TypeOK, QueueType, Sound, Holding, Lists
    <2>2. p \notin Range(pending_inputs)
        BY <1>1 DEF Sound, Holding, Held
    <2> QED
        BY <1>1, <2>1, <2>2, AppendLists
<1>8. Edits(none, {p}, "consumed")
    <2>1. \A x \in Prompts : fate'[x] = IF x \in {p} THEN "pending"
                                        ELSE IF x \in none THEN "consumed" ELSE fate[x]
        BY <1>1, <1>6 DEF TypeOK, SeenType
    <2> QED
        BY <1>1, <1>2, <1>6, <1>7, <2>1 DEF Edits, Fates
<1>9. Holding' /\ Started' /\ Terminals'
    BY <1>8, EditKeeps DEF Sound
<1>10. Draining'
    <2>1. Range(pending_inputs') \subseteq Range(pending_inputs) \cup {p}
        BY <1>7 DEF Lists
    <2>2. /\ \A x \in {p} : Kind[x] # "drain"
          /\ \A x \in Range(pending_interjections') : Kind[x] = "fallback"
        BY <1>1, <1>2 DEF Sound, Draining
    <2> QED
        BY <1>2, <1>3, <2>1, <2>2, NoDrainAdded DEF Sound
<1>11. Promoting'
    BY <1>3 DEF Promoting
<1> QED
    BY <1>3, <1>5, <1>9, <1>10, <1>11 DEF Sound

\* flush_stranded_interjections: what no turn will merge any more is queued.
LEMMA FlushStrandedSound ==
    ASSUME TypeOK, LoopOrdered, Sound, FlushStranded
    PROVE  LoopOrdered' /\ Sound'
PROOF
<1>1. /\ At("flush") /\ todo' = Tail(todo) /\ pending_interjections' = <<>>
      /\ pending_inputs' = InsertAllFallbacks(pending_inputs, running_task, pending_interjections)
      /\ UNCHANGED <<running_task, current_prompt_id, turn, aborting, waits, subagent_waits,
                     blocking_wait_depth, cancel, completion_rx, fate, terminals, resume>>
    BY DEF FlushStranded, turnVars, taskVars
<1>2. LoopOrdered' /\ Stage = "flush" /\ Stage' = "start" /\ ~Taken /\ ~Taken'
    BY <1>1, SectionStage DEF Follows, Taken
<1>3. CancelPhase' /\ Pinned' /\ Slot' /\ Waiting' /\ Terminals'
    BY <1>1, <1>2, CancelKept, PinnedKept, SlotKept, WaitingKept, TerminalsKept DEF Sound
<1> DEFINE P == Range(pending_inputs)  Q == Range(pending_interjections)
<1>4. Lists(pending_inputs', P \cup Q)
    <2>1. /\ pending_inputs \in Seq(Prompts) /\ Lists(pending_inputs, P)
          /\ pending_interjections \in Seq(Prompts) /\ Lists(pending_interjections, Q)
          /\ P \cap Q = {}
        BY DEF TypeOK, QueueType, SharedType, Sound, Holding, Lists
    <2> HIDE DEF P, Q
    <2> QED
        BY <1>1, <2>1, InsertAllFallbacksLists, Zenon
<1>5. /\ Range(pending_inputs') = P \cup Q /\ IsInjective(pending_inputs')
      /\ Range(pending_interjections') = {} /\ IsInjective(pending_interjections')
    BY <1>1, <1>4, EmptyLists DEF Lists
<1>6. Holding'
    <2>1. Held' = Held
        BY <1>1, <1>5 DEF Held
    <2> QED
        BY <1>1, <1>5, <2>1 DEF Sound, Holding
<1>7. Started'
    BY <1>1, <1>5 DEF Sound, Started
<1>8. Draining'
    <2>1. /\ Range(pending_inputs') \subseteq P \cup Q /\ \A x \in Q : Kind[x] # "drain"
          /\ \A x \in Range(pending_interjections') : Kind[x] = "fallback"
        BY <1>5 DEF Sound, Draining
    <2> QED
        BY <1>1, <1>2, <2>1, NoDrainAdded DEF Sound
<1>9. Promoting'
    BY <1>1, <1>2 DEF Promoting
<1> QED
    BY <1>2, <1>3, <1>6, <1>7, <1>8, <1>9 DEF Sound

-----------------------------------------------------------------------------
(* Notifications *)

\* maybe_drain_notifications finds nothing to say, or the session busy.
LEMMA NotDrainedSound ==
    ASSUME TypeOK, LoopOrdered, Sound, DrainStep, UNCHANGED <<pending_inputs, fate>>,
           todo' = Tail(todo)
    PROVE  LoopOrdered' /\ Sound'
PROOF
<1>1. UNCHANGED <<running_task, current_prompt_id, turn, aborting, waits, subagent_waits,
                  blocking_wait_depth, cancel, completion_rx, pending_interjections,
                  terminals, resume>>
    BY DEF DrainStep, turnVars, taskVars
<1>2. LoopOrdered' /\ Stage = "drain" /\ Stage' = "rest" /\ ~Taken /\ ~Taken'
    BY SectionStage DEF DrainStep, Follows, Taken
<1>3. CancelPhase' /\ Pinned' /\ Slot' /\ Waiting'
    BY <1>1, <1>2, CancelKept, PinnedKept, SlotKept, WaitingKept DEF Sound
<1>4. Holding' /\ Started' /\ Terminals' /\ Draining'
    BY <1>1, <1>2, HoldingKept, StartedKept, TerminalsKept, DrainingKept DEF Sound
<1>5. Promoting'
    BY <1>1, <1>2 DEF Sound, Promoting
<1> QED
    BY <1>2, <1>3, <1>4, <1>5 DEF Sound

\* drain_notifications_into_turn: the notification turn is alone in the queue.
LEMMA DrainedSound ==
    ASSUME TypeOK, LoopOrdered, Sound, DrainStep, IsSessionIdle,
           DrainIntoTurn, todo' = <<"start">> \o Tail(todo)
    PROVE  LoopOrdered' /\ Sound'
PROOF
<1>1. /\ At("drain")
      /\ UNCHANGED <<running_task, current_prompt_id, turn, aborting, waits, subagent_waits,
                     blocking_wait_depth, cancel, completion_rx, pending_interjections,
                     terminals, resume, notifications_suppressed>>
    BY DEF DrainStep, turnVars, taskVars
<1>2. LoopOrdered' /\ Stage = "drain" /\ Stage' = "start" /\ ~Taken /\ ~Taken'
    <2>1. todo \in Seq(Steps) /\ todo # <<>> /\ Head(todo) = "drain"
        BY <1>1 DEF At, TypeOK, LoopType
    <2>2. Follows("drain", IF Tail(todo) = <<>> THEN "rest" ELSE Head(Tail(todo)))
        BY <2>1, TailStage DEF LoopOrdered
    <2>3. Tail(todo) \in Seq(Steps) /\ (Tail(todo) # <<>> => Head(Tail(todo)) \in Steps)
        BY <2>1
    <2>4. Tail(todo) = <<>>
        BY <2>2, <2>3 DEF Follows, Steps
    <2>5. todo' = <<"start">>
        <3>1. <<"start">> \o <<>> = <<"start">>
            OBVIOUS
        <3> QED
            BY <2>4, <3>1
    <2> QED
        BY <2>1, <2>5, OrderedSteps DEF LoopOrdered, Stage, Taken
<1>3. PICK p \in Prompts : /\ Kind[p] = "drain" /\ fate[p] = "unsent"
                           /\ pending_inputs' = Append(pending_inputs, p)
                           /\ fate' = [fate EXCEPT ![p] = "pending"]
    BY DEF DrainIntoTurn, Fresh
<1>4. running_task = None /\ pending_inputs = <<>> /\ ~notifications_suppressed
    BY DEF IsSessionIdle
<1>5. pending_inputs' = <<p>> /\ Lists(pending_inputs', {p}) /\ Range(pending_inputs) = {}
    <2>1. pending_inputs' = <<p>>
        BY <1>3, <1>4
    <2>2. Range(pending_inputs) = {}
        BY <1>4, EmptyLists DEF Lists
    <2> QED
        BY <2>1, <2>2, SingletonLists
<1>6. CancelPhase' /\ Pinned' /\ Slot' /\ Waiting'
    BY <1>1, <1>2, CancelKept, PinnedKept, SlotKept, WaitingKept DEF Sound
<1> DEFINE none == {}
<1>7. /\ none \subseteq Range(pending_inputs) /\ running_task \notin none /\ \A x : x \notin none
      /\ (Range(pending_inputs) \ none) \cup {p} = {p}
    BY <1>5
<1> HIDE DEF none
<1>8. Edits(none, {p}, "consumed")
    <2>1. \A x \in Prompts : fate'[x] = IF x \in {p} THEN "pending"
                                        ELSE IF x \in none THEN "consumed" ELSE fate[x]
        BY <1>3, <1>7 DEF TypeOK, SeenType
    <2> QED
        BY <1>1, <1>3, <1>5, <1>7, <2>1 DEF Edits, Fates
<1>9. Holding' /\ Started' /\ Terminals'
    BY <1>8, EditKeeps DEF Sound
<1>10. Draining'
    <2>1. Head(pending_inputs') = p /\ Range(pending_inputs') = {p}
        BY <1>5 DEF Lists
    <2> QED
        BY <1>1, <1>2, <1>4, <2>1 DEF Sound, Draining
<1>11. Promoting'
    BY <1>1, <1>2, <1>4 DEF Sound, Promoting
<1> QED
    BY <1>2, <1>6, <1>9, <1>10, <1>11 DEF Sound

LEMMA DrainStepSound ==
    ASSUME TypeOK, LoopOrdered, Sound, DrainStep
    PROVE  LoopOrdered' /\ Sound'
PROOF
<1>1. \/ todo' = Tail(todo) /\ UNCHANGED <<pending_inputs, fate>>
      \/ IsSessionIdle /\ DrainIntoTurn /\ todo' = <<"start">> \o Tail(todo)
    BY DEF DrainStep
<1> QED
    BY <1>1, NotDrainedSound, DrainedSound

-----------------------------------------------------------------------------
(* Cancelling *)

\* The interjections are cleared and the pin is read.
LEMMA CancelBeginSound ==
    ASSUME TypeOK, LoopOrdered, Sound, CancelBegin
    PROVE  LoopOrdered' /\ Sound'
PROOF
<1>1. /\ At("cancelBegin") /\ todo' = Tail(todo) /\ pending_interjections' = <<>>
      /\ fate' = Settle(fate, Range(pending_interjections), "cleared")
      /\ cancel' = [cancel EXCEPT !.pin = current_prompt_id]
      /\ UNCHANGED <<pending_inputs, running_task, current_prompt_id, turn, aborting,
                     waits, subagent_waits, blocking_wait_depth, completion_rx, terminals,
                     resume>>
    BY DEF CancelBegin, queueVars, turnVars, taskVars
<1>2. LoopOrdered' /\ Stage = "cancelBegin" /\ Stage' = "cancelTake" /\ ~Taken /\ ~Taken'
    BY <1>1, SectionStage DEF Follows, Taken
<1>3. /\ cancel'.task = cancel.task /\ cancel'.inputs = cancel.inputs
      /\ cancel'.rewound = cancel.rewound /\ cancel'.pin = current_prompt_id
    BY <1>1 DEF TypeOK, LoopType, CancelLocals
<1>4. CancelPhase'
    BY <1>1, <1>2, <1>3 DEF Sound, CancelPhase, Pinned
<1>5. Pinned' /\ Slot' /\ Waiting'
    BY <1>1, <1>2, <1>3, PinnedKept, SlotKept, WaitingKept DEF Sound
<1> DEFINE I == Range(pending_interjections)
<1>6. /\ \A x \in Prompts : fate'[x] = IF x \in I THEN "cleared" ELSE fate[x]
      /\ I \subseteq Prompts
    BY <1>1, EmptyRange DEF Settle, TypeOK, SharedType
<1>7. Range(pending_interjections') = {} /\ IsInjective(pending_interjections')
    BY <1>1, EmptyLists DEF Lists
<1>8. \A x \in I : fate[x] = "pending"
    BY <1>6 DEF Sound, Holding, Held
<1>9. Holding'
    <2>1. Held' = Held \ I
        BY <1>1, <1>3, <1>7, <1>6, QueueConstants DEF Sound, Holding, Held
    <2>2. \A x \in Prompts : fate'[x] = "pending" <=> x \in Held'
        BY <1>6, <2>1 DEF Sound, Holding
    <2> QED
        BY <1>1, <1>3, <1>7, <2>2 DEF Sound, Holding
<1>10. Started'
    BY <1>1, <1>3, <1>6, <1>7 DEF Sound, Started
<1>11. Terminals'
    BY <1>1, <1>3, <1>6, <1>8 DEF Sound, Terminals, Over, Live
<1>12. Draining'
    BY <1>1, <1>2, <1>7 DEF Sound, Draining
<1>13. Promoting'
    BY <1>1, <1>2 DEF Promoting
<1> QED
    BY <1>2, <1>4, <1>5, <1>9, <1>10, <1>11, <1>12, <1>13 DEF Sound

\* What every cancel finds when it takes the state lock
LEMMA CancelTakes ==
    ASSUME TypeOK, LoopOrdered, FrontIsRunning, Sound, CancelTake
    PROVE  /\ LoopOrdered' /\ Stage = "cancelTake" /\ Stage' = "cancelGoal" /\ ~Taken /\ Taken'
           /\ cancel.task = None /\ cancel.inputs = <<>> /\ cancel.rewound = None
           /\ cancel.pin \in {None, running_task} /\ Range(cancel.inputs) = {}
           /\ pending_interjections = <<>> /\ Range(pending_interjections) = {}
           /\ running_task # None => pending_inputs # <<>> /\ Head(pending_inputs) = running_task
           /\ running_task' = None
           /\ UNCHANGED <<current_prompt_id, turn, waits, subagent_waits,
                          blocking_wait_depth, completion_rx, pending_interjections, fate,
                          terminals, resume>>
PROOF
<1>1. /\ At("cancelTake") /\ todo' = Tail(todo) /\ running_task' = None
      /\ UNCHANGED <<current_prompt_id, turn, waits, subagent_waits, blocking_wait_depth,
                     completion_rx, pending_interjections, fate, terminals, resume>>
    BY DEF CancelTake, taskVars
<1>2. LoopOrdered' /\ Stage = "cancelTake" /\ Stage' = "cancelGoal" /\ ~Taken /\ Taken'
    BY <1>1, SectionStage DEF Follows, Taken
<1>3. /\ cancel.task = None /\ cancel.inputs = <<>> /\ cancel.rewound = None
      /\ cancel.pin \in {None, running_task}
    BY <1>2 DEF Sound, CancelPhase
<1>4. pending_interjections = <<>>
    BY <1>2 DEF Sound, Promoting
<1>5. Range(cancel.inputs) = {} /\ Range(pending_interjections) = {}
    BY <1>3, <1>4, EmptyLists DEF Lists
<1>6. running_task # None => pending_inputs # <<>> /\ Head(pending_inputs) = running_task
    BY <1>1 DEF FrontIsRunning, At
<1> QED
    BY <1>1, <1>2, <1>3, <1>4, <1>5, <1>6

\* Every turn that was started is answered, or was the running one.
LEMMA StartedInQueue ==
    ASSUME TypeOK, Sound, cancel.task = None, NEW x \in Prompts
    PROVE  /\ turn[x] # "none" /\ x \in Range(pending_inputs) => x = running_task
           /\ Live(x) => x = running_task
PROOF
    BY QueueConstants DEF Sound, Started, Slot

\* The cancel takes a pristine prompt back, and its turn is aborted at once.
LEMMA RewindSound ==
    ASSUME TypeOK, LoopOrdered, FrontIsRunning, Sound, CancelTake,
           cancel.why = "rewind" /\ rewindable /\ pending_inputs # <<>>
    PROVE  Sound'
PROOF
<1> DEFINE p == Head(pending_inputs)
<1>1. /\ LoopOrdered' /\ Stage = "cancelTake" /\ Stage' = "cancelGoal" /\ ~Taken /\ Taken'
      /\ cancel.task = None /\ cancel.inputs = <<>> /\ cancel.rewound = None
      /\ Range(cancel.inputs) = {}
      /\ pending_interjections = <<>> /\ Range(pending_interjections) = {}
      /\ running_task # None => p = running_task
      /\ running_task' = None
    BY CancelTakes
<1>2. UNCHANGED <<current_prompt_id, turn, waits, subagent_waits, blocking_wait_depth,
                  completion_rx, pending_interjections, fate, terminals, resume>>
    BY CancelTakes
<1>3. /\ pending_inputs' = Tail(pending_inputs) /\ aborting' = Abort(running_task)
      /\ cancel' = [cancel EXCEPT !.rewound = p]
    BY DEF CancelTake
<1>4. /\ cancel'.task = None /\ cancel'.inputs = <<>> /\ cancel'.rewound = p
      /\ Range(cancel'.inputs) = {}
    <2>1. cancel'.task = None /\ cancel'.inputs = <<>> /\ cancel'.rewound = p
        BY <1>1, <1>3 DEF TypeOK, LoopType, CancelLocals
    <2> QED
        BY <2>1, EmptyLists DEF Lists
<1>5. /\ p \in Range(pending_inputs) /\ Range(pending_inputs') = Range(pending_inputs) \ {p}
      /\ IsInjective(pending_inputs') /\ p \in Prompts /\ p # None
    <2>1. pending_inputs \in Seq(Prompts) /\ Lists(pending_inputs, Range(pending_inputs))
        BY DEF TypeOK, QueueType, Sound, Holding, Lists
    <2>2. p \in Range(pending_inputs) /\ Lists(pending_inputs', Range(pending_inputs) \ {p})
        BY <1>3, <2>1, TailLists
    <2> QED
        BY <2>1, <2>2, EmptyRange, QueueConstants DEF Lists
<1> HIDE DEF p
<1>6. CancelPhase' /\ Pinned'
    BY <1>1, <1>4, <1>5 DEF CancelPhase, Pinned
<1>7. Holding'
    <2>1. Held' = Held
        BY <1>1, <1>2, <1>4, <1>5 DEF Held
    <2>2. IsInjective(cancel'.inputs)
        BY <1>4, EmptyLists DEF Lists
    <2> QED
        BY <1>1, <1>2, <1>4, <1>5, <2>1, <2>2 DEF Sound, Holding
<1>8. Started'
    BY <1>1, <1>2, <1>4, <1>5, StartedInQueue DEF Sound, Started
<1>9. /\ \A x \in aborting' : turn[x] \in LivePhases /\ (x \notin aborting => x = running_task)
      /\ aborting \subseteq aborting'
      /\ running_task # None /\ turn[running_task] \in LivePhases => running_task \in aborting'
    BY <1>3 DEF Abort, Sound, Slot
<1>10. Slot'
    BY <1>1, <1>2, <1>9, StartedInQueue, QueueConstants DEF Sound, Slot, Live
<1>11. Terminals'
    <2>1. ASSUME NEW x \in Prompts, Over(x)'
          PROVE  terminals[x] = 1 \/ fate[x] = "rewound" \/ x = p
        <3>1. x # None
            BY QueueConstants
        <3>2. CASE Over(x)
            BY <1>1, <3>1, <3>2 DEF Sound, Terminals
        <3>3. CASE ~Over(x)
            BY <1>1, <1>2, <1>9, <2>1, <3>1, <3>3 DEF Over, Live
        <3> QED
            BY <3>2, <3>3
    <2> QED
        BY <1>2, <1>4, <2>1 DEF Sound, Terminals
<1>12. Waiting'
    BY <1>1, <1>2 DEF Sound, Waiting
<1>13. Draining'
    BY <1>1, <1>2, <1>5 DEF Sound, Draining
<1>14. Promoting'
    BY <1>1, <1>2 DEF Promoting
<1> QED
    BY <1>6, <1>7, <1>8, <1>10, <1>11, <1>12, <1>13, <1>14 DEF Sound

\* What a cancel resolves and what it leaves queued
LEMMA CancelSplits ==
    ASSUME TypeOK, Sound, NEW why
    PROVE  LET inputs == CancelledInputs(why)
               rest == SubSeq(pending_inputs, Len(inputs) + 1, Len(pending_inputs))
           IN  /\ IsInjective(inputs) /\ IsInjective(rest)
               /\ Range(inputs) \subseteq Range(pending_inputs)
               /\ Range(rest) = Range(pending_inputs) \ Range(inputs)
               /\ pending_inputs # <<>> => Head(pending_inputs) \in Range(inputs)
PROOF
<1> DEFINE q == pending_inputs
           inputs == CancelledInputs(why)
           rest == SubSeq(q, Len(inputs) + 1, Len(q))
<1>1. q \in Seq(Prompts) /\ Lists(q, Range(q)) /\ Len(q) \in Nat
    BY DEF TypeOK, QueueType, Sound, Holding, Lists
<1>2. q # <<>> => Head(q) \in Range(q)
    BY <1>1, EmptyRange
<1>3. CASE why = "kill" \/ q = <<>>
    <2>1. inputs = q
        BY <1>3 DEF CancelledInputs
    <2>2. rest = <<>>
        BY <1>1, <2>1
    <2>3. Range(rest) = {} /\ IsInjective(rest)
        BY <2>2, EmptyLists DEF Lists
    <2> QED
        BY <1>1, <1>2, <2>1, <2>3 DEF Lists
<1>4. CASE ~(why = "kill" \/ q = <<>>)
    <2>1. inputs = <<Head(q)>> /\ q # <<>>
        BY <1>4 DEF CancelledInputs
    <2>2. Lists(inputs, {Head(q)})
        BY <2>1, SingletonLists
    <2>3. rest = Tail(q)
        BY <1>1, <2>1
    <2>4. Lists(rest, Range(q) \ {Head(q)})
        BY <1>1, <2>1, <2>3, TailLists
    <2> QED
        BY <1>2, <2>1, <2>2, <2>4 DEF Lists
<1> QED
    BY <1>3, <1>4

\* The cancel takes the running turn and the prompts it resolves.
LEMMA TakeSound ==
    ASSUME TypeOK, LoopOrdered, FrontIsRunning, Sound, CancelTake,
           ~(cancel.why = "rewind" /\ rewindable /\ pending_inputs # <<>>)
    PROVE  Sound'
PROOF
<1> DEFINE inputs == CancelledInputs(cancel.why)
<1>1. /\ LoopOrdered' /\ Stage = "cancelTake" /\ Stage' = "cancelGoal" /\ ~Taken /\ Taken'
      /\ cancel.task = None /\ cancel.inputs = <<>> /\ cancel.rewound = None
      /\ cancel.pin \in {None, running_task} /\ Range(cancel.inputs) = {}
      /\ pending_interjections = <<>> /\ Range(pending_interjections) = {}
      /\ running_task # None => pending_inputs # <<>> /\ Head(pending_inputs) = running_task
      /\ running_task' = None
    BY CancelTakes
<1>2. UNCHANGED <<current_prompt_id, turn, waits, subagent_waits, blocking_wait_depth,
                  completion_rx, pending_interjections, fate, terminals, resume>>
    BY CancelTakes
<1>3. /\ pending_inputs' = SubSeq(pending_inputs, Len(inputs) + 1, Len(pending_inputs))
      /\ aborting' = aborting
      /\ cancel' = [cancel EXCEPT !.task = running_task, !.inputs = inputs]
    BY DEF CancelTake
<1>4. /\ cancel'.task = running_task /\ cancel'.inputs = inputs
      /\ cancel'.rewound = None /\ cancel'.pin = cancel.pin
    BY <1>1, <1>3 DEF TypeOK, LoopType, CancelLocals
<1>5. /\ IsInjective(inputs) /\ IsInjective(pending_inputs')
      /\ Range(inputs) \subseteq Range(pending_inputs)
      /\ Range(pending_inputs') = Range(pending_inputs) \ Range(inputs)
      /\ pending_inputs # <<>> => Head(pending_inputs) \in Range(inputs)
    BY <1>3, CancelSplits
<1> HIDE DEF inputs
<1>6. CancelPhase' /\ Pinned'
    BY <1>1, <1>4, <1>5 DEF CancelPhase, Pinned
<1>7. Holding'
    <2>1. Held' = Held
        BY <1>1, <1>2, <1>4, <1>5 DEF Held
    <2>2. Range(pending_inputs) \subseteq Prompts
        BY EmptyRange DEF TypeOK, QueueType
    <2> QED
        BY <1>1, <1>2, <1>4, <1>5, <2>1, <2>2, QueueConstants DEF Sound, Holding
<1>8. Started'
    <2>1. running_task # None => turn[running_task] # "none"
        BY DEF Sound, Slot
    <2>2. \A x \in Prompts : x = running_task => x \in Range(inputs)
        BY <1>1, <1>5, QueueConstants
    <2> QED
        BY <1>1, <1>2, <1>4, <1>5, <2>1, <2>2, StartedInQueue DEF Sound, Started
<1>9. Slot'
    BY <1>1, <1>2, <1>3, <1>4, StartedInQueue DEF Sound, Slot, Live
<1>10. Terminals'
    BY <1>1, <1>2, <1>3, <1>4, QueueConstants DEF Sound, Terminals, Over, Live
<1>11. Waiting'
    BY <1>1, <1>2 DEF Sound, Waiting
<1>12. Draining'
    BY <1>1, <1>2, <1>5 DEF Sound, Draining
<1>13. Promoting'
    BY <1>1, <1>2 DEF Promoting
<1> QED
    BY <1>6, <1>7, <1>8, <1>9, <1>10, <1>11, <1>12, <1>13 DEF Sound

LEMMA CancelTakeSound ==
    ASSUME TypeOK, LoopOrdered, FrontIsRunning, Sound, CancelTake
    PROVE  LoopOrdered' /\ Sound'
PROOF
    BY CancelTakes, RewindSound, TakeSound

\* The goal gate is cleared: the cancel still holds what it took.
LEMMA CancelGoalSound ==
    ASSUME TypeOK, LoopOrdered, Sound, CancelGoal
    PROVE  LoopOrdered' /\ Sound'
PROOF
<1>1. /\ At("cancelGoal") /\ todo' = Tail(todo)
      /\ UNCHANGED <<pending_inputs, running_task, current_prompt_id, turn, aborting,
                     waits, subagent_waits, blocking_wait_depth, cancel, completion_rx,
                     pending_interjections, fate, terminals, resume>>
    BY DEF CancelGoal, queueVars, turnVars, taskVars
<1>2. LoopOrdered' /\ Stage = "cancelGoal" /\ Stage' = "cancelAbort" /\ Taken /\ Taken'
    BY <1>1, SectionStage DEF Follows, Taken
<1>3. CancelPhase' /\ Pinned' /\ Slot' /\ Waiting'
    BY <1>1, <1>2, CancelKept, PinnedKept, SlotKept, WaitingKept DEF Sound
<1>4. Holding' /\ Started' /\ Terminals' /\ Draining'
    BY <1>1, <1>2, HoldingKept, StartedKept, TerminalsKept, DrainingKept DEF Sound
<1>5. Promoting'
    BY <1>1, <1>2 DEF Sound, Promoting
<1> QED
    BY <1>2, <1>3, <1>4, <1>5 DEF Sound

\* The task the cancel took is aborted; a turn that a helper task promoted meanwhile
\* is another one.
LEMMA CancelAbortSound ==
    ASSUME TypeOK, LoopOrdered, FrontIsRunning, Sound, CancelAbort
    PROVE  LoopOrdered' /\ Sound'
PROOF
<1>1. /\ At("cancelAbort") /\ todo' = Tail(todo)
      /\ aborting' = Abort(cancel.task) /\ blocking_wait_depth' = 0
      /\ UNCHANGED <<pending_inputs, running_task, current_prompt_id, turn, waits,
                     subagent_waits, cancel, completion_rx, pending_interjections, fate,
                     terminals, resume>>
    BY DEF CancelAbort, DepthAfterAbort, queueVars, taskVars
<1>2. LoopOrdered' /\ Stage = "cancelAbort" /\ Stage' = "cancelFinish" /\ Taken /\ Taken'
    BY <1>1, SectionStage DEF Follows, Taken
<1>3. CancelPhase' /\ Pinned'
    BY <1>1, <1>2, CancelKept, PinnedKept DEF Sound
<1>4. Holding' /\ Started' /\ Draining'
    BY <1>1, <1>2, HoldingKept, StartedKept, DrainingKept DEF Sound
<1>5. running_task # None => running_task # cancel.task
    <2>1. running_task # None => running_task \in Range(pending_inputs)
        BY <1>1, EmptyRange DEF FrontIsRunning, At, TypeOK, QueueType
    <2> QED
        BY <2>1 DEF Sound, Holding, CancelPhase
<1>6. /\ \A x \in aborting' : turn[x] \in LivePhases /\ (x \notin aborting => x = cancel.task)
      /\ aborting \subseteq aborting'
      /\ cancel.task # None /\ turn[cancel.task] \in LivePhases => cancel.task \in aborting'
    BY <1>1 DEF Abort, Sound, Slot
<1>7. Slot'
    <2>1. ASSUME NEW x \in Prompts, Live(x)'
          PROVE  x = running_task
        <3>1. Live(x) /\ x # None
            BY <1>1, <1>6, <2>1, QueueConstants DEF Live
        <3> QED
            BY <1>1, <1>6, <2>1, <3>1 DEF Live, Sound, Slot
    <2> QED
        BY <1>1, <1>5, <1>6, <2>1 DEF Sound, Slot
<1>8. Terminals'
    <2>1. ASSUME NEW x \in Prompts, Over(x)'
          PROVE  Over(x) \/ x = cancel.task
        BY <1>1, <1>6, <2>1 DEF Over, Live
    <2> QED
        BY <1>1, <2>1 DEF Sound, Terminals
<1>9. Waiting'
    <2>1. RunningWaits' = RunningWaits
        BY <1>1 DEF RunningWaits
    <2> QED
        BY <1>1, <2>1, WaitTypes DEF Sound, Waiting
<1>10. Promoting'
    BY <1>1, <1>2 DEF Sound, Promoting
<1> QED
    BY <1>2, <1>3, <1>4, <1>7, <1>8, <1>9, <1>10 DEF Sound

\* The end of a cancel: everyone it took is answered, the turn with a TurnCompleted.
LEMMA CancelFinishSound ==
    ASSUME TypeOK, LoopOrdered, Sound, CancelFinish
    PROVE  LoopOrdered' /\ Sound'
PROOF
<1> DEFINE gone == IF cancel.rewound # None THEN {cancel.rewound} ELSE Range(cancel.inputs)
<1>1. /\ At("cancelFinish") /\ todo' = Tail(todo) /\ current_prompt_id' = None
      /\ cancel' = NoCancel
      /\ UNCHANGED <<pending_inputs, running_task, turn, aborting, waits, subagent_waits,
                     blocking_wait_depth, completion_rx, pending_interjections, resume>>
    BY DEF CancelFinish, queueVars, taskVars
<1>2. /\ LoopOrdered' /\ Stage = "cancelFinish" /\ Stage' \in {"pauseGoal", "unsuppress"}
      /\ Taken /\ ~Taken'
    BY <1>1, SectionStage DEF Follows, Taken
<1>3. /\ cancel'.task = None /\ cancel'.inputs = <<>> /\ cancel'.rewound = None
      /\ Range(cancel'.inputs) = {} /\ IsInjective(cancel'.inputs)
    <2>1. cancel'.task = None /\ cancel'.inputs = <<>> /\ cancel'.rewound = None
        BY <1>1 DEF NoCancel, CancelFor
    <2> QED
        BY <2>1, EmptyLists DEF Lists
<1>4. CancelPhase' /\ Pinned'
    BY <1>1, <1>2, <1>3 DEF CancelPhase, Pinned
<1>5. Range(cancel.inputs) \subseteq Prompts /\ (cancel.rewound # None => cancel.rewound \in Prompts)
    BY EmptyRange DEF TypeOK, LoopType, CancelLocals, MaybePrompt
<1>6. gone \subseteq Prompts /\ \A x \in gone : x \in Held /\ fate[x] = "pending" /\ terminals[x] = 0
    <2>1. gone \subseteq Prompts /\ \A x \in gone : x \in Held
        BY <1>5 DEF Held
    <2> QED
        BY <2>1 DEF Sound, Holding, Terminals
<1>7. \A x \in Prompts : /\ x \notin gone => fate'[x] = fate[x]
                         /\ x \in gone /\ cancel.rewound # None => fate'[x] = "rewound"
                         /\ x \in gone /\ cancel.rewound = None => fate'[x] = "cancelled"
    BY <1>5 DEF CancelFinish, Settle, TypeOK, SeenType
<1>8. Held' = Held \ gone
    <2>1. CASE cancel.rewound # None
        <3>1. cancel.inputs = <<>>
            BY <2>1 DEF Sound, CancelPhase
        <3>2. Range(cancel.inputs) = {}
            BY <3>1, EmptyLists DEF Lists
        <3> QED
            BY <1>1, <1>3, <2>1, <3>2 DEF Sound, Holding, Held
    <2>2. CASE cancel.rewound = None
        BY <1>1, <1>3, <2>2 DEF Sound, Holding, Held
    <2> QED
        BY <2>1, <2>2
<1>9. /\ cancel.task # None => cancel.task \in gone /\ terminals'[cancel.task] = 1
      /\ \A x \in Prompts : x # cancel.task => terminals'[x] = terminals[x]
    <2>1. CASE cancel.rewound # None
        BY <2>1 DEF Sound, CancelPhase, CancelFinish
    <2>2. CASE cancel.rewound = None
        <3>1. terminals' = IF cancel.task # None THEN [terminals EXCEPT ![cancel.task] = @ + 1]
                           ELSE terminals
            BY <1>2, <2>2 DEF CancelFinish, CancelledPromptId, Sound, CancelPhase
        <3>2. cancel.task # None => cancel.task \in gone
            BY <2>2 DEF Sound, CancelPhase
        <3>3. terminals \in [Prompts -> Nat]
            BY DEF TypeOK, SeenType
        <3> QED
            BY <1>6, <3>1, <3>2, <3>3
    <2> QED
        BY <2>1, <2>2
<1> HIDE DEF gone
<1>10. Holding'
    <2>1. \A x \in Prompts : fate'[x] = "pending" <=> x \in Held'
        BY <1>6, <1>7, <1>8 DEF Sound, Holding
    <2>2. None \notin Range(pending_inputs) \cup Range(pending_interjections)
        BY EmptyRange, QueueConstants DEF TypeOK, QueueType, SharedType
    <2> QED
        BY <1>1, <1>3, <2>1, <2>2 DEF Sound, Holding
<1>11. Started'
    BY <1>1, <1>3, <1>6, <1>7 DEF Sound, Started
<1>12. Slot'
    BY <1>1, <1>2, <1>3 DEF Sound, Slot, Live
<1>13. Terminals'
    <2>1. \A x \in Prompts : fate'[x] \in {"unsent", "pending"} => terminals'[x] = 0
        BY <1>6, <1>7, <1>9, QueueConstants DEF Sound, Terminals
    <2>2. \A x \in Prompts : terminals'[x] <= 1
        BY <1>9, QueueConstants DEF Sound, Terminals
    <2>3. ASSUME NEW x \in Prompts, Over(x)'
          PROVE  terminals'[x] = 1 \/ fate'[x] = "rewound" \/ x = running_task
        <3>1. Over(x) /\ x # None
            BY <1>1, <2>3, QueueConstants DEF Over, Live
        <3>2. CASE x = cancel.task
            BY <1>9, <3>1, <3>2
        <3>3. CASE x # cancel.task /\ x = cancel.rewound
            <4>1. x \in gone
                BY <3>1, <3>3 DEF gone
            <4> QED
                BY <1>7, <3>1, <3>3, <4>1
        <3>4. CASE x \notin {cancel.task, cancel.rewound}
            <4>1. terminals[x] = 1 \/ fate[x] = "rewound" \/ x = running_task
                BY <3>1, <3>4 DEF Sound, Terminals
            <4>2. fate[x] = "rewound" => x \notin gone
                BY <1>6
            <4> QED
                BY <1>7, <1>9, <3>4, <4>1, <4>2
        <3> QED
            BY <3>2, <3>3, <3>4
    <2> QED
        BY <1>1, <2>1, <2>2, <2>3 DEF Terminals
<1>14. Waiting'
    BY <1>1, <1>2, WaitingKept DEF Sound
<1>15. Draining'
    BY <1>1, <1>2, DrainingKept DEF Sound
<1>16. Promoting'
    BY <1>1, <1>2 DEF Sound, Promoting
<1> QED
    BY <1>2, <1>4, <1>10, <1>11, <1>12, <1>13, <1>14, <1>15, <1>16 DEF Sound

\* cancel_turn_for_send_now lets notification turns be queued again: none is queued yet.
LEMMA UnsuppressSound ==
    ASSUME TypeOK, LoopOrdered, Sound, Unsuppress
    PROVE  LoopOrdered' /\ Sound'
PROOF
<1>1. /\ At("unsuppress") /\ todo' = Tail(todo)
      /\ UNCHANGED <<pending_inputs, running_task, current_prompt_id, turn, aborting,
                     waits, subagent_waits, blocking_wait_depth, cancel, completion_rx,
                     pending_interjections, fate, terminals, resume>>
    BY DEF Unsuppress, queueVars, turnVars, taskVars
<1>2. LoopOrdered' /\ Stage = "unsuppress" /\ Stage' = "start" /\ ~Taken /\ ~Taken'
    BY <1>1, SectionStage DEF Follows, Taken
<1>3. CancelPhase' /\ Pinned' /\ Slot' /\ Waiting'
    BY <1>1, <1>2, CancelKept, PinnedKept, SlotKept, WaitingKept DEF Sound
<1>4. Holding' /\ Started' /\ Terminals' /\ Draining'
    BY <1>1, <1>2, HoldingKept, StartedKept, TerminalsKept, DrainingKept DEF Sound
<1>5. Promoting'
    BY <1>1, <1>2 DEF Sound, Promoting
<1> QED
    BY <1>2, <1>3, <1>4, <1>5 DEF Sound

\* Every section of the main loop
LEMMA MainLoopSound ==
    ASSUME TypeOK, PopHasCompletion, LoopOrdered, FrontIsRunning, Sound, MainLoop
    PROVE  LoopOrdered' /\ Sound'
PROOF
    BY CompletionSound, PopCompletedSound, GoalSectionSound, TurnEndContinuesGoalSound,
       FlushStrandedSound, StartersSound, DrainStepSound, CancelBeginSound, CancelTakeSound,
       CancelGoalSound, CancelAbortSound, CancelFinishSound, UnsuppressSound DEF MainLoop

-----------------------------------------------------------------------------
(* Turn tasks *)

\* What no step of a turn task touches
LEMMA TurnStepKeeps ==
    ASSUME TurnStep
    PROVE  /\ UNCHANGED <<running_task, terminals, todo, cancel, resume,
                          notifications_suppressed>>
           /\ Stage' = Stage /\ (Taken' <=> Taken) /\ (LoopOrdered => LoopOrdered')
PROOF
    BY SameStage DEF TurnStep, loopVars, taskVars

\* A turn that moves on, or ends and sends its completion.
LEMMA PhaseSound ==
    ASSUME TypeOK, PopHasCompletion, Sound, TurnStep, NEW p \in Prompts, Live(p), NEW ph,
           turn' = [turn EXCEPT ![p] = ph],
           \/ ph \in LivePhases /\ UNCHANGED completion_rx
           \/ ph = "done" /\ completion_rx' = Append(completion_rx, p),
           waits[p] > 0 => ph = "scoped",
           current_prompt_id' \in {current_prompt_id, None},
           UNCHANGED <<pending_inputs, aborting, waits, subagent_waits, blocking_wait_depth,
                       pending_interjections, fate>>
    PROVE  Sound'
PROOF
<1>1. /\ UNCHANGED <<running_task, terminals, cancel, resume, notifications_suppressed>>
      /\ Stage' = Stage /\ (Taken' <=> Taken)
    BY TurnStepKeeps
<1>2. /\ turn'[p] = ph /\ \A x \in Prompts : x # p => turn'[x] = turn[x]
      /\ p # None /\ turn[p] \in LivePhases /\ p \notin aborting
      /\ ph \notin {"none", "dropped"}
    BY QueueConstants DEF TypeOK, TurnType, Live, LivePhases
<1>3. p = running_task \/ p = cancel.task
    BY DEF Sound, Slot
<1>4. CancelPhase' /\ Holding'
    BY <1>1, CancelKept, HoldingKept DEF Sound
<1>5. completion_rx \in Seq(Prompts) /\ Range(completion_rx) \subseteq Prompts
    BY EmptyRange DEF TypeOK, SharedType
<1>6. Pinned'
    <2>1. Stage = "pop" => completion_rx # <<>> /\ Head(completion_rx) # None
        BY PopHead, QueueConstants
    <2>2. completion_rx # <<>> => Head(completion_rx') = Head(completion_rx)
        BY <1>5
    <2> QED
        BY <1>1, <2>1, <2>2 DEF Sound, Pinned
<1>7. Started'
    <2>1. \A x \in Prompts : turn'[x] # "none" => turn[x] # "none"
        BY <1>2 DEF LivePhases
    <2>2. cancel.task # None => turn'[cancel.task] # "none"
        BY <1>2 DEF Sound, Started, TypeOK, LoopType, CancelLocals, MaybePrompt
    <2> QED
        BY <1>1, <2>1, <2>2 DEF Sound, Started
<1>8. Slot'
    <2>1. \A x \in Range(completion_rx) : x \in Prompts /\ x # p /\ x \in Range(completion_rx')
        <3>1. \A x \in Range(completion_rx) : x \in Prompts /\ x # p
            BY <1>2, <1>5 DEF Sound, Slot, LivePhases
        <3>2. \A x \in Range(completion_rx) : x \in Range(completion_rx')
            BY <1>5 DEF Range
        <3> QED
            BY <3>1, <3>2
    <2>2. ph = "done" => p \in Range(completion_rx')
        <3> SUFFICES ASSUME ph = "done"
                     PROVE  p \in Range(completion_rx')
            OBVIOUS
        <3>1. completion_rx' = Append(completion_rx, p)
            BY DEF LivePhases
        <3>2. Len(completion_rx) + 1 \in DOMAIN completion_rx'
                  /\ completion_rx'[Len(completion_rx) + 1] = p
            BY <1>5, <3>1
        <3> QED
            BY <3>2 DEF Range
    <2>3. \A x \in Range(completion_rx') : turn'[x] = "done"
        <3>1. \A x \in Range(completion_rx') : x \in Range(completion_rx) \/ (x = p /\ ph = "done")
            BY <1>5 DEF Range
        <3> QED
            BY <1>2, <2>1, <3>1 DEF Sound, Slot
    <2>4. running_task # None => running_task \in Prompts
        BY DEF TypeOK, QueueType, MaybePrompt
    <2>5. running_task # None => turn'[running_task] \notin {"none", "dropped"}
                                     /\ running_task \notin aborting
        BY <1>2, <2>4 DEF Sound, Slot
    <2>6. running_task # None /\ turn'[running_task] = "done" => running_task \in Range(completion_rx')
        BY <1>2, <2>1, <2>2, <2>4 DEF Sound, Slot
    <2>7. \A x \in aborting : turn'[x] \in LivePhases
        <3>1. aborting \subseteq Prompts
            BY DEF TypeOK, TurnType
        <3> QED
            BY <1>2, <3>1 DEF Sound, Slot
    <2>8. \A x \in Prompts : Live(x)' => Live(x)
        BY <1>2 DEF Live
    <2> QED
        BY <1>1, <2>3, <2>5, <2>6, <2>7, <2>8 DEF Sound, Slot
<1>9. Terminals'
    <2>1. \A x \in Prompts : Over(x)' => Over(x) \/ x = p
        BY <1>2 DEF Over, Live
    <2> QED
        BY <1>1, <1>3, <2>1 DEF Sound, Terminals
<1>10. Waiting'
    <2>1. \A x \in Prompts : waits[x] > 0 => turn'[x] \in {"scoped", "dropped"}
        BY <1>2 DEF Sound, Waiting
    <2> QED
        BY <1>1, <2>1 DEF Sound, Waiting, RunningWaits
<1>11. Draining'
    <2>1. Range(pending_inputs) \subseteq Prompts
        BY EmptyRange DEF TypeOK, QueueType
    <2>2. \A x \in Prompts : turn'[x] = "none" => turn[x] = "none"
        BY <1>2
    <2> QED
        BY <1>1, <2>1, <2>2 DEF Sound, Draining
<1>12. Promoting'
    BY <1>1, PromotingKept DEF Sound
<1> QED
    BY <1>4, <1>6, <1>7, <1>8, <1>9, <1>10, <1>11, <1>12 DEF Sound

\* The phases handle_prompt goes through
LEMMA TurnPhaseSound ==
    ASSUME TypeOK, PopHasCompletion, Sound, NEW p \in Prompts,
           \/ TurnBegin(p) \/ TurnIndex(p) \/ TurnRound(p) \/ TurnScopeEnd(p) \/ TurnFinish(p)
    PROVE  Sound'
PROOF
<1>1. \E ph : /\ turn' = [turn EXCEPT ![p] = ph]
              /\ \/ ph \in LivePhases /\ UNCHANGED completion_rx
                 \/ ph = "done" /\ completion_rx' = Append(completion_rx, p)
              /\ ph = "scoped" \/ waits[p] = 0 \/ turn[p] # "scoped"
    BY DEF TurnBegin, TurnIndex, TurnRound, TurnScopeEnd, TurnFinish, LivePhases
<1>2. /\ TurnStep /\ Live(p) /\ current_prompt_id' \in {current_prompt_id, None}
      /\ UNCHANGED <<pending_inputs, aborting, waits, subagent_waits, blocking_wait_depth,
                     pending_interjections, fate>>
    BY DEF TurnBegin, TurnIndex, TurnRound, TurnScopeEnd, TurnFinish, PinWithout
<1>3. waits[p] > 0 => turn[p] = "scoped" /\ waits[p] # 0
    <2>1. turn[p] # "dropped"
        BY <1>2 DEF Live, LivePhases
    <2>2. waits[p] > 0 => waits[p] # 0
        BY DEF TypeOK, TurnType
    <2> QED
        BY <2>1, <2>2 DEF Sound, Waiting
<1> QED
    BY <1>1, <1>2, <1>3, PhaseSound

\* The LocalSet drops the future of an aborted turn.
LEMMA TaskDropSound ==
    ASSUME TypeOK, PopHasCompletion, Sound, NEW p \in Prompts, TaskDrop(p)
    PROVE  Sound'
PROOF
<1>1. /\ TurnStep /\ p \in aborting /\ aborting' = aborting \ {p}
      /\ turn' = [turn EXCEPT ![p] = "dropped"]
      /\ current_prompt_id' \in {current_prompt_id, None}
      /\ UNCHANGED <<pending_inputs, waits, subagent_waits, blocking_wait_depth,
                     completion_rx, pending_interjections, fate>>
    BY DEF TaskDrop, PinWithout
<1>2. /\ UNCHANGED <<running_task, terminals, cancel, resume, notifications_suppressed>>
      /\ Stage' = Stage /\ (Taken' <=> Taken)
    BY <1>1, TurnStepKeeps
<1>3. /\ turn'[p] = "dropped" /\ \A x \in Prompts : x # p => turn'[x] = turn[x]
      /\ turn[p] \in LivePhases /\ p # running_task
    BY <1>1, QueueConstants DEF TypeOK, TurnType, Sound, Slot
<1>4. CancelPhase' /\ Holding'
    BY <1>1, <1>2, CancelKept, HoldingKept DEF Sound
<1>5. Pinned'
    <2>1. Stage = "pop" => Head(completion_rx) # None
        BY PopHead, QueueConstants
    <2> QED
        BY <1>1, <1>2, <2>1 DEF Sound, Pinned
<1>6. Started'
    <2>1. \A x \in Prompts : turn'[x] # "none" => turn[x] # "none"
        BY <1>3 DEF LivePhases
    <2>2. cancel.task # None => turn'[cancel.task] # "none"
        BY <1>3 DEF Sound, Started, TypeOK, LoopType, CancelLocals, MaybePrompt
    <2> QED
        BY <1>1, <1>2, <2>1, <2>2 DEF Sound, Started
<1>7. Slot'
    <2>1. \A x \in Range(completion_rx) : turn'[x] = "done"
        <3>1. Range(completion_rx) \subseteq Prompts
            BY EmptyRange DEF TypeOK, SharedType
        <3> QED
            BY <1>3, <3>1 DEF Sound, Slot, LivePhases
    <2>2. running_task # None => running_task \in Prompts /\ turn'[running_task] = turn[running_task]
        BY <1>3 DEF TypeOK, QueueType, MaybePrompt
    <2>3. \A x \in aborting' : turn'[x] \in LivePhases
        <3>1. aborting \subseteq Prompts
            BY DEF TypeOK, TurnType
        <3> QED
            BY <1>1, <1>3, <3>1 DEF Sound, Slot
    <2>4. \A x \in Prompts : Live(x)' => Live(x)
        BY <1>1, <1>3 DEF Live, LivePhases
    <2> QED
        BY <1>1, <1>2, <2>1, <2>2, <2>3, <2>4 DEF Sound, Slot
<1>8. Terminals'
    <2>1. \A x \in Prompts : Over(x)' => Over(x)
        BY <1>1, <1>3 DEF Over, Live, LivePhases
    <2> QED
        BY <1>1, <1>2, <2>1 DEF Sound, Terminals
<1>9. Waiting'
    <2>1. \A x \in Prompts : waits[x] > 0 => turn'[x] \in {"scoped", "dropped"}
        BY <1>3 DEF Sound, Waiting
    <2> QED
        BY <1>1, <1>2, <2>1 DEF Sound, Waiting, RunningWaits
<1>10. Draining'
    <2>1. Range(pending_inputs) \subseteq Prompts
        BY EmptyRange DEF TypeOK, QueueType
    <2>2. \A x \in Prompts : turn'[x] = "none" => turn[x] = "none"
        BY <1>3
    <2> QED
        BY <1>1, <1>2, <2>1, <2>2 DEF Sound, Draining
<1>11. Promoting'
    BY <1>1, <1>2, PromotingKept DEF Sound
<1> QED
    BY <1>4, <1>5, <1>6, <1>7, <1>8, <1>9, <1>10, <1>11 DEF Sound

\* Steps of a turn that leave the queue, the slot and the waits alone
LEMMA QuietTurnSound ==
    ASSUME Sound, NEW p \in Prompts,
           CloseRewindWindow(p) \/ InjectMonitorEvents(p) \/ \E s : TurnSetsGoal(p, s)
    PROVE  Sound'
PROOF
<1>1. /\ TurnStep
      /\ UNCHANGED <<pending_inputs, turn, aborting, waits, subagent_waits,
                     blocking_wait_depth, completion_rx, current_prompt_id,
                     pending_interjections, fate>>
    BY DEF CloseRewindWindow, InjectMonitorEvents, TurnSetsGoal, turnVars
<1>2. /\ UNCHANGED <<running_task, terminals, cancel, resume, notifications_suppressed>>
      /\ Stage' = Stage /\ (Taken' <=> Taken)
    BY <1>1, TurnStepKeeps
<1>3. CancelPhase' /\ Pinned' /\ Slot' /\ Waiting'
    BY <1>1, <1>2, CancelKept, PinnedKept, SlotKept, WaitingKept DEF Sound
<1>4. Holding' /\ Started' /\ Terminals' /\ Draining' /\ Promoting'
    BY <1>1, <1>2, HoldingKept, StartedKept, TerminalsKept, DrainingKept, PromotingKept DEF Sound
<1> QED
    BY <1>3, <1>4 DEF Sound

\* drain_pending_interjections: the turn answers for what it merges.
LEMMA DrainInterjectionsSound ==
    ASSUME TypeOK, Sound, NEW p \in Prompts, DrainInterjections(p)
    PROVE  Sound'
PROOF
<1> DEFINE I == Range(pending_interjections)
<1>1. /\ TurnStep /\ pending_interjections' = <<>> /\ fate' = Settle(fate, I, "merged")
      /\ UNCHANGED <<pending_inputs, turn, aborting, waits, subagent_waits,
                     blocking_wait_depth, completion_rx, current_prompt_id>>
    BY DEF DrainInterjections, turnVars
<1>2. /\ UNCHANGED <<running_task, terminals, cancel, resume, notifications_suppressed>>
      /\ Stage' = Stage /\ (Taken' <=> Taken)
    BY <1>1, TurnStepKeeps
<1>3. CancelPhase' /\ Pinned' /\ Slot' /\ Waiting'
    BY <1>1, <1>2, CancelKept, PinnedKept, SlotKept, WaitingKept DEF Sound
<1>4. /\ \A x \in Prompts : fate'[x] = IF x \in I THEN "merged" ELSE fate[x]
      /\ I \subseteq Prompts
    BY <1>1, EmptyRange DEF Settle, TypeOK, SharedType
<1>5. Range(pending_interjections') = {} /\ IsInjective(pending_interjections')
    BY <1>1, EmptyLists DEF Lists
<1>6. \A x \in I : fate[x] = "pending"
    BY <1>4 DEF Sound, Holding, Held
<1>7. Holding'
    <2>1. Held' = Held \ I
        BY <1>1, <1>2, <1>4, <1>5, QueueConstants DEF Sound, Holding, Held
    <2>2. \A x \in Prompts : fate'[x] = "pending" <=> x \in Held'
        BY <1>4, <2>1 DEF Sound, Holding
    <2> QED
        BY <1>1, <1>2, <1>5, <2>2 DEF Sound, Holding
<1>8. Started'
    BY <1>1, <1>2, <1>4, <1>5 DEF Sound, Started
<1>9. Terminals'
    BY <1>1, <1>2, <1>4, <1>6 DEF Sound, Terminals, Over, Live
<1>10. Draining'
    BY <1>1, <1>2, <1>5 DEF Sound, Draining
<1>11. Promoting'
    BY <1>1, <1>2 DEF Sound, Promoting
<1> QED
    BY <1>3, <1>7, <1>8, <1>9, <1>10, <1>11 DEF Sound

\* drop_pending_items_for_consumed_completions: a notification turn names no task, so
\* the sweep leaves it at the front.
LEMMA ConsumeCompletionSound ==
    ASSUME TypeOK, Sound, NEW p \in Prompts, NEW t \in Tasks, ConsumeCompletion(p, t)
    PROVE  Sound'
PROOF
<1> DEFINE gone == Swept(pending_inputs, running_task, ConsumedBy(t))
<1>1. /\ TurnStep /\ pending_inputs' = Retain(pending_inputs, Prompts \ gone)
      /\ fate' = Settle(fate, gone, "consumed")
      /\ UNCHANGED <<turn, aborting, waits, subagent_waits, blocking_wait_depth,
                     completion_rx, current_prompt_id, pending_interjections>>
    BY DEF ConsumeCompletion, turnVars
<1>2. /\ UNCHANGED <<running_task, terminals, cancel, resume, notifications_suppressed>>
      /\ Stage' = Stage /\ (Taken' <=> Taken)
    BY <1>1, TurnStepKeeps
<1>3. CancelPhase' /\ Pinned' /\ Slot' /\ Waiting'
    BY <1>1, <1>2, CancelKept, PinnedKept, SlotKept, WaitingKept DEF Sound
<1>4. /\ gone \subseteq Range(pending_inputs) /\ running_task \notin gone
      /\ \A x \in gone : CompletionId[x] = t
    BY DEF Swept, ConsumedBy
<1>5. \A x \in Prompts : fate'[x] = IF x \in gone THEN "consumed" ELSE fate[x]
    BY <1>1 DEF Settle
<1> HIDE DEF gone
<1>6. Lists(pending_inputs', Range(pending_inputs) \ gone)
    BY <1>1, RetainRest DEF Sound
<1> DEFINE none == {}
<1>7. /\ none \subseteq {x \in Prompts : fate[x] = "unsent"} /\ \A x : x \notin none
      /\ (Range(pending_inputs) \ gone) \cup none = Range(pending_inputs) \ gone
    OBVIOUS
<1> HIDE DEF none
<1>8. Edits(gone, none, "consumed")
    BY <1>1, <1>2, <1>4, <1>5, <1>6, <1>7 DEF Edits, Fates
<1>9. Holding' /\ Started' /\ Terminals'
    BY <1>8, EditKeeps DEF Sound
<1>10. pending_inputs \in Seq(Prompts) /\ Range(pending_inputs) \subseteq Prompts
    BY EmptyRange DEF TypeOK, QueueType
<1>11. Draining'
    <2>1. Range(pending_inputs') \subseteq Range(pending_inputs)
        BY <1>6 DEF Lists
    <2>2. ASSUME NEW x \in Range(pending_inputs), Kind[x] = "drain", turn[x] = "none"
          PROVE  Head(pending_inputs') = x
        <3>1. Head(pending_inputs) = x /\ pending_inputs # <<>> /\ x \in Prompts
            BY <1>10, <2>2, EmptyRange DEF Sound, Draining
        <3>2. x \notin gone
            BY <1>4, <2>2, <3>1, QueueConstants
        <3> QED
            BY <1>1, <1>10, <3>1, <3>2, RetainHead
    <2> QED
        BY <1>1, <1>2, <2>1, <2>2 DEF Sound, Draining
<1>12. Promoting'
    <2>1. pending_inputs' # <<>> => pending_inputs # <<>>
        <3>1. pending_inputs' \in Seq(Prompts) /\ Range(pending_inputs') \subseteq Range(pending_inputs)
            BY <1>1, <1>6, <1>10, RetainType DEF Lists
        <3> QED
            BY <1>10, <3>1, EmptyRange
    <2> QED
        BY <1>1, <1>2, <2>1 DEF Sound, Promoting
<1> QED
    BY <1>3, <1>9, <1>11, <1>12 DEF Sound

\* The guards of tool calls and of foreground subagents: each holder counts at least
\* what it added.
LEMMA WaitSound ==
    ASSUME TypeOK, Sound, NEW p \in Prompts,
           \/ WaitEnter(p) \/ WaitExit(p)
           \/ SubagentRequest(p) \/ SubagentEnter(p) \/ SubagentExit
    PROVE  Sound'
PROOF
<1>1. /\ TurnStep
      /\ UNCHANGED <<pending_inputs, turn, aborting, completion_rx, current_prompt_id,
                     pending_interjections, fate>>
    BY DEF WaitEnter, WaitExit, SubagentRequest, SubagentEnter, SubagentExit, WaitStep
<1>2. /\ UNCHANGED <<running_task, terminals, cancel, resume, notifications_suppressed>>
      /\ Stage' = Stage /\ (Taken' <=> Taken)
    BY <1>1, TurnStepKeeps
<1>3. CancelPhase' /\ Pinned' /\ Slot'
    BY <1>1, <1>2, CancelKept, PinnedKept, SlotKept DEF Sound
<1>4. Holding' /\ Started' /\ Terminals' /\ Draining' /\ Promoting'
    BY <1>1, <1>2, HoldingKept, StartedKept, TerminalsKept, DrainingKept, PromotingKept DEF Sound
<1>5. /\ waits \in [Prompts -> Nat] /\ blocking_wait_depth \in Nat
      /\ subagent_waits \in Nat /\ RunningWaits \in Nat
      /\ running_task # None => running_task \in Prompts
    BY WaitTypes
<1>6. Waiting'
    <2>1. CASE WaitEnter(p)
        <3>1. /\ waits' = [waits EXCEPT ![p] = @ + 1] /\ turn[p] = "scoped" /\ Live(p)
              /\ blocking_wait_depth' = blocking_wait_depth + 1
              /\ subagent_waits' = subagent_waits
            BY <2>1 DEF WaitEnter
        <3>2. \A x \in Prompts : waits'[x] > 0 => turn[x] \in {"scoped", "dropped"}
            BY <1>5, <3>1 DEF Sound, Waiting
        <3>3. ASSUME Stage \notin {"cancelGoal", "cancelAbort"}
              PROVE  running_task = p
            <4>1. p = running_task \/ (p = cancel.task /\ Stage # "cancelFinish")
                BY <3>1 DEF Sound, Slot
            <4>2. Stage # "cancelFinish" => cancel.task = None
                BY <3>3 DEF Sound, CancelPhase, Taken
            <4> QED
                BY <4>1, <4>2, QueueConstants
        <3>4. ASSUME Stage \notin {"cancelGoal", "cancelAbort"}
              PROVE  RunningWaits' = RunningWaits + 1
            BY <1>2, <1>5, <3>1, <3>3, <3>4, QueueConstants DEF RunningWaits
        <3>5. ASSUME Stage \notin {"cancelGoal", "cancelAbort"}
              PROVE  blocking_wait_depth' <= RunningWaits' + subagent_waits'
            <4>1. blocking_wait_depth <= RunningWaits + subagent_waits
                BY <3>5 DEF Sound, Waiting
            <4> QED
                BY <1>5, <3>1, <3>4, <3>5, <4>1
        <3> QED
            BY <1>1, <1>2, <3>2, <3>5 DEF Waiting
    <2>2. CASE WaitExit(p)
        <3>1. /\ waits' = [waits EXCEPT ![p] = @ - 1] /\ waits[p] > 0
              /\ blocking_wait_depth' = SaturatingDec(blocking_wait_depth)
              /\ subagent_waits' = subagent_waits
            BY <2>2 DEF WaitExit
        <3>2. /\ \A x \in Prompts : x # p => waits'[x] = waits[x]
              /\ waits'[p] = waits[p] - 1 /\ waits[p] \in Nat
            BY <1>5, <3>1
        <3>3. \A x \in Prompts : waits'[x] > 0 => turn[x] \in {"scoped", "dropped"}
            BY <1>5, <3>1, <3>2 DEF Sound, Waiting
        <3>4. blocking_wait_depth' = 0 \/ blocking_wait_depth' = blocking_wait_depth - 1
            BY <1>5, <3>1 DEF SaturatingDec
        <3>5. RunningWaits' \in Nat /\ RunningWaits' >= RunningWaits - 1
            BY <1>2, <1>5, <3>1, <3>2 DEF RunningWaits
        <3>6. ASSUME Stage \notin {"cancelGoal", "cancelAbort"}
              PROVE  blocking_wait_depth' <= RunningWaits' + subagent_waits'
            <4>1. blocking_wait_depth <= RunningWaits + subagent_waits
                BY <3>6 DEF Sound, Waiting
            <4> QED
                BY <1>5, <3>1, <3>4, <3>5, <4>1
        <3> QED
            BY <1>1, <1>2, <3>3, <3>6 DEF Waiting
    <2>3. CASE SubagentRequest(p)
        <3>1. UNCHANGED <<waits, subagent_waits, blocking_wait_depth>>
            BY <2>3 DEF SubagentRequest
        <3> QED
            BY <1>1, <1>2, <3>1, WaitingKept DEF Sound
    <2>4. CASE SubagentEnter(p) \/ SubagentExit
        <3>1. /\ waits' = waits
              /\ \/ /\ subagent_waits' = subagent_waits + 1
                    /\ blocking_wait_depth' = blocking_wait_depth + 1
                 \/ /\ subagent_waits' = subagent_waits - 1 /\ subagent_waits > 0
                    /\ blocking_wait_depth' = SaturatingDec(blocking_wait_depth)
            BY <2>4 DEF SubagentEnter, SubagentExit
        <3>2. RunningWaits' = RunningWaits
            BY <1>2, <3>1 DEF RunningWaits
        <3>3. ASSUME Stage \notin {"cancelGoal", "cancelAbort"}
              PROVE  blocking_wait_depth' <= RunningWaits' + subagent_waits'
            <4>1. blocking_wait_depth <= RunningWaits + subagent_waits
                BY <3>3 DEF Sound, Waiting
            <4> QED
                BY <1>5, <3>1, <3>2, <4>1 DEF SaturatingDec
        <3> QED
            BY <1>1, <1>2, <3>1, <3>3 DEF Sound, Waiting
    <2> QED
        BY <2>1, <2>2, <2>3, <2>4
<1> QED
    BY <1>3, <1>4, <1>6 DEF Sound

\* Every step of a turn task
LEMMA TurnSound ==
    ASSUME TypeOK, PopHasCompletion, LoopOrdered, Sound, NEW p \in Prompts, Turn(p)
    PROVE  LoopOrdered' /\ Sound'
PROOF
<1>1. TurnStep
    BY DEF Turn, TurnProgress, TurnBegin, TurnIndex, TurnScopeEnd, TurnFinish, TaskDrop,
           WaitExit, WaitEnter, SubagentRequest, SubagentEnter, SubagentExit, WaitStep,
           TurnRound, CloseRewindWindow, DrainInterjections, InjectMonitorEvents, TurnSetsGoal,
           ConsumeCompletion
<1>2. LoopOrdered'
    BY <1>1, TurnStepKeeps
<1>3. Sound'
    BY TurnPhaseSound, TaskDropSound, QuietTurnSound, DrainInterjectionsSound,
       ConsumeCompletionSound, WaitSound DEF Turn, TurnProgress
<1> QED
    BY <1>2, <1>3

-----------------------------------------------------------------------------
(* The invariant *)

\* Every command that the loop goes on after
LEMMA CommandSound ==
    ASSUME TypeOK, TypeOK', LoopOrdered, Sound, Command, ~Shutdown
    PROVE  LoopOrdered' /\ Sound'
PROOF
<1>1. ASSUME NEW p \in Prompts, Interject(p) \/ GoalSummaryTurn(p)
      PROVE  LoopOrdered' /\ Sound'
    BY <1>1, InterjectBuffered, AcceptingSound
<1> QED
    BY <1>1, PromptSound, QueueCommandSound, QuietCommandSound DEF Command

\* The session is shut down: the turns are left as they are.
LEMMA ShutdownTurns ==
    ASSUME TypeOK, LoopOrdered, Sound, Shutdown
    PROVE  LoopOrdered' /\ Slot' /\ Terminals' /\ stopped'
PROOF
<1> DEFINE synthetic == {p \in Range(pending_inputs) : IsSynthetic(p)}
<1>1. /\ fate' = Settle(fate, synthetic, "dropped") /\ stopped' = TRUE
      /\ UNCHANGED <<todo, turn, running_task, aborting, completion_rx, cancel, terminals>>
    BY DEF Shutdown, turnVars
<1>2. Stage' = Stage /\ LoopOrdered'
    BY <1>1, SameStage
<1>3. \A x \in Prompts : fate'[x] = IF x \in synthetic THEN "dropped" ELSE fate[x]
    BY <1>1 DEF Settle
<1>4. \A x \in Prompts : x \in synthetic => fate[x] = "pending"
    BY DEF Sound, Holding, Held
<1>5. Slot'
    BY <1>1, <1>2, SlotKept DEF Sound
<1>6. Terminals'
    BY <1>1, <1>3, <1>4 DEF Sound, Terminals, Over, Live
<1> QED
    BY <1>1, <1>2, <1>5, <1>6

\* A new session
LEMMA InitTurns == Init => TurnInv
PROOF
<1> SUFFICES ASSUME Init
             PROVE  TurnInv
    OBVIOUS
<1>1. Stage = "rest" /\ ~Taken /\ LoopOrdered
    BY OrderedSteps DEF Init, Stage, Taken, LoopOrdered
<1>2. /\ cancel.task = None /\ cancel.inputs = <<>> /\ cancel.rewound = None
    BY DEF Init, NoCancel, CancelFor
<1>3. /\ Range(cancel.inputs) = {} /\ IsInjective(cancel.inputs)
      /\ Range(pending_inputs) = {} /\ IsInjective(pending_inputs)
      /\ Range(pending_interjections) = {} /\ IsInjective(pending_interjections)
      /\ Range(completion_rx) = {}
    BY <1>2, EmptyLists DEF Init, Lists
<1>4. \A p \in Prompts : /\ fate[p] = "unsent" /\ turn[p] = "none" /\ terminals[p] = 0
                         /\ waits[p] = 0
    BY DEF Init
<1>5. /\ running_task = None /\ current_prompt_id = None /\ aborting = {}
      /\ blocking_wait_depth = 0 /\ subagent_waits = 0
      /\ pending_inputs = <<>> /\ pending_interjections = <<>>
    BY DEF Init
<1>6. CancelPhase /\ Pinned
    BY <1>1, <1>2, <1>5 DEF CancelPhase, Pinned
<1>7. Holding
    BY <1>2, <1>3, <1>4 DEF Holding, Held
<1>8. Started
    BY <1>2, <1>4 DEF Started
<1>9. Slot
    BY <1>3, <1>4, <1>5 DEF Slot, Live, LivePhases
<1>10. Terminals
    BY <1>4 DEF Terminals, Over
<1>11. Waiting
    BY <1>4, <1>5 DEF Waiting, RunningWaits
<1>12. Draining /\ Promoting
    BY <1>3, <1>5 DEF Draining, Promoting
<1> QED
    BY <1>1, <1>6, <1>7, <1>8, <1>9, <1>10, <1>11, <1>12 DEF Sound, TurnInv

\* Every prompt that is owed an answer is in one place, every turn that runs is the
\* session's, every turn that ended was reported once, and what is queued or buffered
\* has a section that takes care of it: whatever commands, turn tasks and helper tasks do
\* between two sections of a handler.
THEOREM TurnsCorrect == Spec => []TurnInv
PROOF
<1>1. ASSUME TypeOK, TypeOK', PopHasCompletion, FrontIsRunning, TurnInv, [Next]_vars
      PROVE  TurnInv'
    <2>1. LoopOrdered /\ Slot /\ Terminals /\ (~stopped => Sound)
        BY <1>1 DEF TurnInv
    <2>2. CASE Shutdown
        <3>1. ~stopped
            BY <2>2 DEF Shutdown, Ready
        <3> QED
            BY <1>1, <2>1, <2>2, <3>1, ShutdownTurns DEF TurnInv
    <2>3. CASE Next /\ ~Shutdown
        <3>1. ~stopped
            BY <2>3, CommandNeedsLoop, LoopNeedsLoop, TurnKeepsSlot DEF Next
        <3>2. LoopOrdered' /\ Sound'
            BY <1>1, <2>1, <2>3, <3>1, CommandSound, MainLoopSound, HelperTaskSound, TurnSound
            DEF Next
        <3> QED
            BY <3>2 DEF TurnInv, Sound
    <2>4. CASE UNCHANGED vars
        <3>1. UNCHANGED <<running_task, current_prompt_id, turn, pending_inputs, aborting,
                          waits, subagent_waits, blocking_wait_depth, cancel,
                          completion_rx, pending_interjections, fate, terminals,
                          notifications_suppressed, todo, stopped, resume>>
            BY <2>4 DEF vars, queueVars, noteVars, turnVars, loopVars, taskVars
        <3>2. Stage' = Stage /\ (Taken' <=> Taken) /\ LoopOrdered'
            BY <2>1, <3>1, SameStage
        <3>3. Slot' /\ Terminals'
            BY <2>1, <3>1, <3>2, SlotKept, TerminalsKept
        <3>4. ASSUME ~stopped
              PROVE  CancelPhase' /\ Pinned' /\ Holding' /\ Started' /\ Waiting' /\ Draining'
                         /\ Promoting'
            BY <2>1, <3>1, <3>2, <3>4, CancelKept, PinnedKept, HoldingKept, StartedKept,
               WaitingKept, DrainingKept, PromotingKept DEF Sound
        <3> QED
            BY <3>1, <3>2, <3>3, <3>4 DEF Sound, TurnInv
    <2> QED
        BY <1>1, <2>2, <2>3, <2>4
<1>2. TypeOK /\ TypeOK' /\ PopHasCompletion /\ FrontIsRunning /\ TurnInv /\ [Next]_vars
          => TurnInv'
    BY <1>1
<1> QED
    BY <1>2, InitTurns, TypeCorrect, FrontCorrect, PTL DEF Spec

-----------------------------------------------------------------------------
(* What it means for turns *)

\* The main loop rests: no cancel is in progress.
LEMMA AtRest ==
    ASSUME TurnInv, Ready
    PROVE  /\ Sound /\ Stage = "rest" /\ completion_rx = <<>>
           /\ cancel.task = None /\ cancel.rewound = None
PROOF
<1>1. Sound /\ Stage = "rest" /\ completion_rx = <<>>
    BY DEF TurnInv, Ready, Stage
<1> QED
    BY <1>1 DEF Sound, CancelPhase, Taken

\* Whatever completions, cancels, rewinds and promotions of helper tasks cross each other,
\* no turn task runs on that neither the session's slot nor the cancel in progress names.
THEOREM OrphanCorrect == Spec => []NoOrphanTurn
PROOF
<1>1. TurnInv => NoOrphanTurn
    BY DEF TurnInv, Slot, NoOrphanTurn
<1> QED
    BY <1>1, TurnsCorrect, PTL

\* The TurnCompleted of a prompt is never emitted twice: not when a completion that was
\* on its way crosses a cancel, nor when a helper task promotes a turn during one.
THEOREM TerminalCorrect == Spec => []TerminalOnce
PROOF
<1>1. TurnInv => TerminalOnce
    BY DEF TurnInv, Terminals, TerminalOnce
<1> QED
    BY <1>1, TurnsCorrect, PTL

\* When the main loop rests, a turn that ended, by itself or dropped after an abort, has
\* had its TurnCompleted, unless its prompt was taken back.
THEOREM EndedCorrect == Spec => []EndedTurnsHaveTerminal
PROOF
<1>1. ASSUME TypeOK, TurnInv, Ready, NEW p \in Prompts, turn[p] \in {"done", "dropped"},
             fate[p] # "rewound"
      PROVE  terminals[p] = 1
    <2>1. Sound /\ completion_rx = <<>> /\ cancel.task = None /\ cancel.rewound = None /\ p # None
        BY <1>1, AtRest, QueueConstants
    <2>2. Over(p)
        BY <1>1 DEF Over, Live, LivePhases
    <2>3. Range(completion_rx) = {}
        BY <2>1, EmptyLists DEF Lists
    <2>4. p # running_task
        BY <1>1, <2>1, <2>3 DEF Sound, Slot
    <2> QED
        BY <1>1, <2>1, <2>2, <2>4 DEF Sound, Terminals
<1>2. TypeOK /\ TurnInv => EndedTurnsHaveTerminal
    BY <1>1 DEF EndedTurnsHaveTerminal
<1> QED
    BY <1>2, TurnsCorrect, TypeCorrect, PTL

\* The debug_assert! of cancel_running_task holds: the pin that was read before the awaits
\* does not name another turn than the task found under the lock.
THEOREM PinCorrect == Spec => []PinAgreesAtCancel
PROOF
<1>1. ASSUME TurnInv, At("cancelTake")
      PROVE  cancel.pin \in {None, running_task}
    <2>1. Sound /\ Stage = "cancelTake"
        BY <1>1 DEF TurnInv, At, Stage
    <2> QED
        BY <2>1 DEF Sound, CancelPhase
<1>2. TurnInv => PinAgreesAtCancel
    BY <1>1 DEF PinAgreesAtCancel
<1> QED
    BY <1>2, TurnsCorrect, PTL

\* When the main loop rests, the wait depth counts guards of the running turn and of
\* foreground subagents, whenever the guards of aborted turns drop and whenever a
\* subagent enters its own.
THEOREM WaitDepthCorrect == Spec => []WaitDepthIsLive
PROOF
<1>1. ASSUME TypeOK, TurnInv, Ready
      PROVE  blocking_wait_depth <= RunningWaits + subagent_waits
    <2>1. Sound /\ Stage = "rest"
        BY <1>1, AtRest
    <2> QED
        BY <2>1 DEF Sound, Waiting
<1>2. TypeOK /\ TurnInv => WaitDepthIsLive
    BY <1>1 DEF WaitDepthIsLive
<1> QED
    BY <1>2, TurnsCorrect, TypeCorrect, PTL

-----------------------------------------------------------------------------
(* What it means for prompts *)

\* Whenever the main loop rests, a queued prompt has a turn in front of it, or the
\* plan-approval task is about to promote it.
THEOREM StallCorrect == Spec => []QueueNeverStalls
PROOF
<1>1. TurnInv => QueueNeverStalls
    BY AtRest DEF QueueNeverStalls, Sound, Promoting
<1> QED
    BY <1>1, TurnsCorrect, PTL

\* When the main loop rests with no turn running, no interjection waits for one.
THEOREM StrandedCorrect == Spec => []NoStrandedInterjection
PROOF
<1>1. TurnInv => NoStrandedInterjection
    BY AtRest DEF NoStrandedInterjection, Sound, Promoting
<1> QED
    BY <1>1, TurnsCorrect, PTL

\* Two finite sets without a common member
LEMMA DisjointCardinality ==
    ASSUME NEW A, NEW B, IsFiniteSet(A), IsFiniteSet(B), A \cap B = {}
    PROVE  IsFiniteSet(A \cup B) /\ Cardinality(A \cup B) = Cardinality(A) + Cardinality(B)
PROOF
<1>1. /\ IsFiniteSet(A \cup B)
      /\ Cardinality(A \cup B) = Cardinality(A) + Cardinality(B) - Cardinality(A \cap B)
    BY FS_Union
<1>2. Cardinality(A \cap B) = 0 /\ Cardinality(A) \in Nat /\ Cardinality(B) \in Nat
    BY FS_EmptySet, FS_CardinalityType
<1> QED
    BY <1>1, <1>2

\* A prompt that is owed an answer is in the queue, the interjection buffer or the locals
\* of the cancel in progress, in one of them only and only once; nothing else is there.
THEOREM HeldCorrect == Spec => []PendingIsHeld
PROOF
<1>1. ASSUME TypeOK, TurnInv, ~stopped
      PROVE  /\ {p \in Prompts : fate[p] = "pending"} = Held
             /\ Cardinality(Held) = Len(pending_inputs) + Len(pending_interjections)
                                        + Len(cancel.inputs)
                                        + Cardinality({cancel.rewound} \ {None})
    <2> DEFINE A == Range(pending_inputs)  B == Range(pending_interjections)
               C == Range(cancel.inputs)  D == {cancel.rewound} \ {None}
    <2>1. Sound
        BY <1>1 DEF TurnInv
    <2>2. /\ pending_inputs \in Seq(Prompts) /\ Lists(pending_inputs, A)
          /\ pending_interjections \in Seq(Prompts) /\ Lists(pending_interjections, B)
          /\ cancel.inputs \in Seq(Prompts) /\ Lists(cancel.inputs, C)
        BY <1>1, <2>1 DEF TypeOK, QueueType, SharedType, LoopType, CancelLocals, Sound, Holding,
                          Lists
    <2>3. A \subseteq Prompts /\ B \subseteq Prompts /\ C \subseteq Prompts /\ D \subseteq Prompts
        <3>1. A \subseteq Prompts /\ B \subseteq Prompts /\ C \subseteq Prompts
            BY <2>2, EmptyRange
        <3>2. D \subseteq Prompts
            BY <1>1 DEF TypeOK, LoopType, CancelLocals, MaybePrompt
        <3> QED
            BY <3>1, <3>2
    <2>4. Held = ((A \cup B) \cup C) \cup D
        BY DEF Held
    <2>5. A \cap B = {} /\ (A \cup B) \cap C = {} /\ ((A \cup B) \cup C) \cap D = {}
        <3>1. A \cap B = {} /\ (A \cup B) \cap C = {} /\ (A \cup B) \cap D = {}
            BY <2>1 DEF Sound, Holding
        <3>2. cancel.rewound # None => C = {}
            <4>1. cancel.rewound # None => cancel.inputs = <<>>
                BY <2>1 DEF Sound, CancelPhase
            <4> QED
                BY <4>1, EmptyLists DEF Lists
        <3> QED
            BY <3>1, <3>2
    <2>6. {p \in Prompts : fate[p] = "pending"} = Held
        BY <2>1, <2>3, <2>4 DEF Sound, Holding
    <2>7. /\ IsFiniteSet(A) /\ Cardinality(A) = Len(pending_inputs)
          /\ IsFiniteSet(B) /\ Cardinality(B) = Len(pending_interjections)
          /\ IsFiniteSet(C) /\ Cardinality(C) = Len(cancel.inputs)
        BY <2>2, ListsCardinality
    <2>8. IsFiniteSet(D)
        <3>1. IsFiniteSet({cancel.rewound})
            BY FS_Singleton
        <3> QED
            BY <3>1, FS_Subset
    <2> HIDE DEF A, B, C, D
    <2>9. IsFiniteSet(A \cup B) /\ Cardinality(A \cup B) = Cardinality(A) + Cardinality(B)
        BY <2>5, <2>7, DisjointCardinality
    <2>10. /\ IsFiniteSet((A \cup B) \cup C)
           /\ Cardinality((A \cup B) \cup C) = Cardinality(A \cup B) + Cardinality(C)
        BY <2>5, <2>7, <2>9, DisjointCardinality
    <2>11. Cardinality(((A \cup B) \cup C) \cup D)
               = Cardinality((A \cup B) \cup C) + Cardinality(D)
        BY <2>5, <2>8, <2>10, DisjointCardinality
    <2>12. Cardinality(Held) = Len(pending_inputs) + Len(pending_interjections)
                                   + Len(cancel.inputs) + Cardinality(D)
        BY <2>4, <2>7, <2>9, <2>10, <2>11
    <2> QED
        BY <2>6, <2>12 DEF D
<1>2. TypeOK /\ TurnInv => PendingIsHeld
    BY <1>1 DEF PendingIsHeld
<1> QED
    BY <1>2, TurnsCorrect, TypeCorrect, PTL

-----------------------------------------------------------------------------
(* Which steps spawn a turn *)

\* Only a promotion does, of the front of the queue into an empty slot.
LEMMA SpawnsFront ==
    ASSUME TypeOK, Next, NEW p \in Prompts, turn[p] # "spawned", turn'[p] = "spawned"
    PROVE  ~stopped /\ running_task = None /\ pending_inputs # <<>> /\ p = Head(pending_inputs)
PROOF
<1>1. ~stopped
    BY CommandNeedsLoop, LoopNeedsLoop, TurnKeepsSlot DEF Next
<1>2. CASE Command
    <2>1. QueueCommand => turn' = turn
        BY DEF QueueCommand, RemoveQueuedPrompt, ClearQueue, ReorderQueue, EditQueuedPrompt,
               InterjectQueuedPrompt, EditsOnlyTheQueue, turnVars
    <2>2. Command /\ ~QueueCommand => turn' = turn
        BY DEF Command, Prompt, Interject, GoalSummaryTurn, RestorePlanApproval, Cancel,
               InjectNotification, DropMonitorNotifications, NotificationStep, Shutdown, turnVars
    <2> QED
        BY <1>2, <2>1, <2>2
<1>3. CASE MaybeStartRunningTask
    <2>1. ASSUME ~(running_task = None /\ pending_inputs # <<>>)
          PROVE  FALSE
        BY <1>3, <2>1 DEF MaybeStartRunningTask
    <2>2. turn' = [turn EXCEPT ![Head(pending_inputs)] = "spawned"]
        BY <1>3, <2>1 DEF MaybeStartRunningTask
    <2>3. p = Head(pending_inputs)
        BY <2>2 DEF TypeOK, TurnType
    <2> QED
        BY <1>1, <2>1, <2>3
<1>4. CASE MainLoop /\ ~StartStep
    <2>1. turn' = turn
        BY <1>4 DEF MainLoop, Completion, PopCompleted, TurnEnd, TurnEndPausesGoal, PauseGoal,
                    TurnEndContinuesGoal, GoalStep, FlushStranded, DrainStep, CancelBegin,
                    CancelTake, CancelGoal, CancelAbort, CancelFinish, Unsuppress, turnVars
    <2> QED
        BY <2>1
<1>5. CASE StartStep \/ HelperTask
    <2>1. turn' = turn \/ MaybeStartRunningTask
        BY <1>5 DEF StartStep, HelperTask, McpInitialized, PlanAbandoned, PlanResumeQueued,
                    PlanResumeStarted, turnVars
    <2> QED
        BY <1>3, <2>1
<1>6. ASSUME NEW x \in Prompts, Turn(x)
      PROVE  FALSE
    <2>1. turn' = turn \/ \E ph : ph # "spawned" /\ turn' = [turn EXCEPT ![x] = ph]
        BY <1>6 DEF Turn, TurnProgress, TurnBegin, TurnIndex, TurnScopeEnd, TurnFinish,
                    TaskDrop, WaitExit, WaitEnter, SubagentRequest, SubagentEnter,
                    SubagentExit, WaitStep, TurnRound, CloseRewindWindow, DrainInterjections,
                    InjectMonitorEvents, TurnSetsGoal, ConsumeCompletion, turnVars
    <2> QED
        BY <2>1 DEF TypeOK, TurnType
<1> QED
    BY <1>2, <1>4, <1>5, <1>6 DEF Next

\* A prompt is spawned once: a completion that comes late, a cancel or a second promoter
\* never makes the queue run it again.
THEOREM SpawnCorrect == Spec => NoDoubleSpawn
PROOF
<1>1. ASSUME TypeOK, TurnInv, Next, NEW p \in Prompts, turn[p] \notin {"none", "spawned"}
      PROVE  turn'[p] # "spawned"
    <2> SUFFICES ASSUME turn'[p] = "spawned"
                 PROVE  FALSE
        OBVIOUS
    <2>1. ~stopped /\ running_task = None /\ pending_inputs # <<>> /\ p = Head(pending_inputs)
        BY <1>1, SpawnsFront
    <2>2. turn[Head(pending_inputs)] = "none"
        BY <1>1, <2>1, FrontIsFresh DEF TurnInv
    <2> QED
        BY <1>1, <2>1, <2>2
<1> DEFINE Once == \A p \in Prompts : turn[p] \notin {"none", "spawned"} => turn'[p] # "spawned"
<1>2. TypeOK /\ TurnInv /\ [Next]_vars => [Once]_vars
    BY <1>1
<1> HIDE DEF Once
<1>3. Spec => [][Once]_vars
    BY <1>2, TurnsCorrect, TypeCorrect, PTL DEF Spec
<1> QED
    BY <1>3 DEF NoDoubleSpawn, Once

\* After a cancel no notification turn starts before the user is back: one that is queued
\* is promoted in the very section that follows, before any cancel.
THEOREM SuppressionCorrect == Spec => NoDrainTurnWhileSuppressed
PROOF
<1>1. ASSUME TypeOK, TurnInv, Next, NEW p \in Prompts, Kind[p] = "drain", turn[p] = "none",
             turn'[p] = "spawned"
      PROVE  ~notifications_suppressed
    <2>1. ~stopped /\ running_task = None /\ pending_inputs # <<>> /\ p = Head(pending_inputs)
        BY <1>1, SpawnsFront
    <2>2. Sound /\ p \in Range(pending_inputs)
        BY <1>1, <2>1, EmptyRange DEF TurnInv, TypeOK, QueueType
    <2> QED
        BY <1>1, <2>2 DEF Sound, Draining
<1> DEFINE Quiet == \A p \in Prompts : Kind[p] = "drain" /\ turn[p] = "none" /\ turn'[p] = "spawned"
                        => ~notifications_suppressed
<1>2. TypeOK /\ TurnInv /\ [Next]_vars => [Quiet]_vars
    BY <1>1
<1> HIDE DEF Quiet
<1>3. Spec => [][Quiet]_vars
    BY <1>2, TurnsCorrect, TypeCorrect, PTL DEF Spec
<1> QED
    BY <1>3 DEF NoDrainTurnWhileSuppressed, Quiet

=============================================================================
