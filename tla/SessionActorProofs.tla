-------------------------- MODULE SessionActorProofs --------------------------
(***************************************************************************)
(* Theorems about SessionActor, for every set of prompts, clients, tasks   *)
(* and notifications, every choice of commands and every bound.            *)
(***************************************************************************)
EXTENDS SessionActor, SubsequenceProofs

-----------------------------------------------------------------------------
(* Insertions into the queue *)

\* queue_input's insertion point lies behind the running slot.
LEMMA InsertSendNowType ==
    ASSUME NEW S, NEW q \in Seq(S), NEW running, NEW sendNow, NEW p \in S
    PROVE  /\ InsertSendNow(q, running, sendNow, p) \in Seq(S)
           /\ RunningSlot(q, running) = 1 =>
                 /\ InsertSendNow(q, running, sendNow, p) # <<>>
                 /\ Head(InsertSendNow(q, running, sendNow, p)) = Head(q)
PROOF
<1> DEFINE first == RunningSlot(q, running) + 1
           free == {i \in first .. Len(q) + 1 : i = Len(q) + 1 \/ q[i] \notin sendNow}
<1>1. Len(q) \in Nat /\ (q # <<>> => Len(q) > 0)
    OBVIOUS
<1>2. first \in 1 .. Len(q) + 1 /\ (RunningSlot(q, running) = 1 => first = 2)
    BY <1>1 DEF RunningSlot
<1>3. Len(q) + 1 \in free /\ \A i \in free : i \in Nat
    BY <1>1, <1>2
<1>4. Min(free) \in free
    BY <1>3, MinOfNaturals
<1>5. Min(free) \in first .. Len(q) + 1
    BY <1>4
<1>6. Min(free) \in 1 .. Len(q) + 1 /\ (RunningSlot(q, running) = 1 => Min(free) > 1)
    BY <1>1, <1>2, <1>5
<1>7. InsertSendNow(q, running, sendNow, p) = InsertAt(q, Min(free), p)
    BY DEF InsertSendNow
<1> QED
    BY <1>6, <1>7, InsertAtType

\* The slot of the running turn is position 1 or absent.
LEMMA RunningSlotType ==
    ASSUME NEW S, NEW q \in Seq(S), NEW running
    PROVE  /\ RunningSlot(q, running) \in {0, 1}
           /\ RunningSlot(q, running) <= Len(q)
           /\ RunningSlot(q, running) = 1 => q # <<>> /\ Head(q) = running
PROOF
    BY DEF RunningSlot

\* A stranded interjection never displaces the running turn.
LEMMA InsertFallbackType ==
    ASSUME NEW S, NEW q \in Seq(S), NEW running, NEW p \in S
    PROVE  /\ InsertFallback(q, running, p) \in Seq(S)
           /\ RunningSlot(q, running) = 1 =>
                 /\ InsertFallback(q, running, p) # <<>>
                 /\ Head(InsertFallback(q, running, p)) = Head(q)
PROOF
<1> DEFINE i == RunningSlot(q, running) + 1
<1>1. i \in 1 .. Len(q) + 1 /\ (RunningSlot(q, running) = 1 => i > 1)
    BY RunningSlotType
<1> QED
    BY <1>1, InsertAtType DEF InsertFallback

\* Nor do several of them.
LEMMA InsertAllFallbacksType ==
    ASSUME NEW S, NEW q \in Seq(S), NEW running, NEW s \in Seq(S)
    PROVE  /\ InsertAllFallbacks(q, running, s) \in Seq(S)
           /\ RunningSlot(q, running) = 1 =>
                 /\ InsertAllFallbacks(q, running, s) # <<>>
                 /\ Head(InsertAllFallbacks(q, running, s)) = Head(q)
PROOF
<1> DEFINE r == RunningSlot(q, running)
           a == SubSeq(q, 1, r)
           c == SubSeq(q, r + 1, Len(q))
<1>1. r \in {0, 1} /\ r <= Len(q) /\ (r = 1 => q # <<>>)
    BY RunningSlotType
<1> HIDE DEF r
<1>2. a \in Seq(S) /\ c \in Seq(S) /\ (r = 1 => a # <<>> /\ Head(a) = Head(q))
    BY <1>1
<1> HIDE DEF a, c
<1>3. a \o s \in Seq(S) /\ (r = 1 => a \o s # <<>> /\ Head(a \o s) = Head(q))
    BY <1>2, ConcatHead
<1>4. InsertAllFallbacks(q, running, s) = (a \o s) \o c
    BY DEF InsertAllFallbacks, a, c, r
<1>5. /\ (a \o s) \o c \in Seq(S)
      /\ r = 1 => (a \o s) \o c # <<>> /\ Head((a \o s) \o c) = Head(q)
    BY <1>2, <1>3, ConcatHead
<1> QED
    BY <1>4, <1>5 DEF r

-----------------------------------------------------------------------------
(* Reorder and the wire *)

\* A reorder puts the running turn, which is no row, first.
LEMMA ReorderedType ==
    ASSUME NEW q \in Seq(Prompts), NEW running, NEW order \in Seq(Prompts)
    PROVE  /\ Reordered(q, running, order) \in Seq(Prompts)
           /\ q # <<>> /\ Head(q) = running =>
                 /\ Reordered(q, running, order) # <<>>
                 /\ Head(Reordered(q, running, order)) = Head(q)
PROOF
<1> DEFINE rows == Reorderable(running)
           a == Retain(q, Prompts \ rows)
           b == Retain(order, rows \cap Range(q))
           c == Retain(q, rows \ Range(order))
<1>1. a \in Seq(Prompts) /\ b \in Seq(Prompts) /\ c \in Seq(Prompts)
    BY RetainType
<1>2. ASSUME q # <<>>, Head(q) = running
      PROVE  a # <<>> /\ Head(a) = Head(q)
    <2>1. Head(q) \in Prompts \ rows
        BY <1>2 DEF Reorderable
    <2> QED
        BY <1>2, <2>1, RetainHead
<1>3. Reordered(q, running, order) = (a \o b) \o c
    BY DEF Reordered
<1> HIDE DEF a, b, c
<1>4. a \o b \in Seq(Prompts) /\ (a # <<>> => a \o b # <<>> /\ Head(a \o b) = Head(a))
    BY <1>1, ConcatHead
<1>5. /\ (a \o b) \o c \in Seq(Prompts)
      /\ a \o b # <<>> => (a \o b) \o c # <<>> /\ Head((a \o b) \o c) = Head(a \o b)
    BY <1>1, <1>4, ConcatHead
<1> QED
    BY <1>2, <1>3, <1>4, <1>5

\* The rows sent to clients are records of a prompt and its version.
LEMMA BuildQueueWireType ==
    ASSUME NEW q \in Seq(Prompts), NEW running, NEW ver \in [Prompts -> Nat]
    PROVE  BuildQueueWire(q, running, ver) \in Seq([id : Prompts, version : Nat])
PROOF
<1> DEFINE rows == Retain(q, Reorderable(running))
<1>1. rows \in Seq(Prompts)
    BY RetainType
<1> HIDE DEF rows
<1> DEFINE R == [id : Prompts, version : Nat]
           row(k) == [id |-> rows[k], version |-> ver[rows[k]]]
           wire == [k \in 1 .. Len(rows) |-> row(k)]
<1>2. \A k \in 1 .. Len(rows) : row(k) \in R
    BY <1>1
<1>3. Len(rows) \in Nat /\ DOMAIN rows = 1 .. Len(rows)
    BY <1>1
<1>4. BuildQueueWire(q, running, ver) = wire
    BY <1>3 DEF BuildQueueWire, rows
<1> HIDE DEF R, row
<1>5. wire \in Seq(R)
    BY <1>2, <1>3
<1> QED
    BY <1>4, <1>5 DEF R

-----------------------------------------------------------------------------
(* Which prompts an edited queue holds *)

\* A send-now prompt or a stranded interjection that is new to the queue
LEMMA InsertSendNowLists ==
    ASSUME NEW S, NEW q \in Seq(S), NEW running, NEW sendNow, NEW p \in S, NEW P,
           Lists(q, P), p \notin P
    PROVE  Lists(InsertSendNow(q, running, sendNow, p), P \cup {p})
PROOF
<1> DEFINE first == RunningSlot(q, running) + 1
           free == {i \in first .. Len(q) + 1 : i = Len(q) + 1 \/ q[i] \notin sendNow}
<1>1. Len(q) \in Nat
    OBVIOUS
<1>2. first \in 1 .. Len(q) + 1
    BY <1>1, RunningSlotType
<1>3. Len(q) + 1 \in free /\ \A i \in free : i \in Nat
    BY <1>1, <1>2
<1>4. Min(free) \in free
    BY <1>3, MinOfNaturals
<1>5. Min(free) \in 1 .. Len(q) + 1
    BY <1>1, <1>2, <1>4
<1>6. InsertSendNow(q, running, sendNow, p) = InsertAt(q, Min(free), p)
    BY DEF InsertSendNow
<1> QED
    BY <1>5, <1>6, InsertAtLists

LEMMA InsertFallbackLists ==
    ASSUME NEW S, NEW q \in Seq(S), NEW running, NEW p \in S, NEW P, Lists(q, P), p \notin P
    PROVE  Lists(InsertFallback(q, running, p), P \cup {p})
PROOF
<1>1. RunningSlot(q, running) + 1 \in 1 .. Len(q) + 1
    BY RunningSlotType
<1> QED
    BY <1>1, InsertAtLists DEF InsertFallback

\* The stranded interjections, none of which is queued
LEMMA InsertAllFallbacksLists ==
    ASSUME NEW S, NEW q \in Seq(S), NEW running, NEW s \in Seq(S), NEW P, NEW Q,
           Lists(q, P), Lists(s, Q), P \cap Q = {}
    PROVE  Lists(InsertAllFallbacks(q, running, s), P \cup Q)
PROOF
<1> DEFINE r == RunningSlot(q, running)
           a == SubSeq(q, 1, r)  c == SubSeq(q, r + 1, Len(q))
           A == {q[k] : k \in 1 .. r}  C == {q[k] : k \in r + 1 .. Len(q)}
<1>1. r + 1 \in 1 .. Len(q) + 1 /\ (r + 1) - 1 = r
    BY RunningSlotType
<1> HIDE DEF r
<1>2. /\ a \in Seq(S) /\ c \in Seq(S) /\ Lists(a, A) /\ Lists(c, C)
      /\ A \cap C = {} /\ A \cup C = P
    <2> DEFINE i == r + 1
    <2>1. i \in 1 .. Len(q) + 1 /\ i - 1 = r /\ IsInjective(q) /\ Range(q) = P
        BY <1>1 DEF Lists
    <2> HIDE DEF i
    <2>2. /\ SubSeq(q, 1, i - 1) \in Seq(S) /\ SubSeq(q, i, Len(q)) \in Seq(S)
          /\ Lists(SubSeq(q, 1, i - 1), {q[k] : k \in 1 .. i - 1})
          /\ Lists(SubSeq(q, i, Len(q)), {q[k] : k \in i .. Len(q)})
          /\ {q[k] : k \in 1 .. i - 1} \cap {q[k] : k \in i .. Len(q)} = {}
          /\ {q[k] : k \in 1 .. i - 1} \cup {q[k] : k \in i .. Len(q)} = Range(q)
        BY <2>1, SplitLists
    <2> QED
        BY <2>1, <2>2 DEF i
<1>3. InsertAllFallbacks(q, running, s) = (a \o s) \o c
    BY DEF InsertAllFallbacks, r
<1> HIDE DEF a, c, A, C
<1>4. a \o s \in Seq(S) /\ A \cap Q = {}
    BY <1>2
<1>5. (A \cup Q) \cap C = {} /\ (A \cup Q) \cup C = P \cup Q
    BY <1>2
<1>6. Lists(a \o s, A \cup Q)
    BY <1>2, <1>4, ConcatLists, Zenon
<1>7. Lists((a \o s) \o c, (A \cup Q) \cup C)
    BY <1>2, <1>4, <1>5, <1>6, ConcatLists, Zenon
<1> QED
    BY <1>3, <1>5, <1>7

\* A reorder loses no prompt and doubles none.
LEMMA ReorderedLists ==
    ASSUME NEW q \in Seq(Prompts), NEW running, NEW order \in Seq(Prompts), NEW P,
           Lists(q, P), IsInjective(order)
    PROVE  Lists(Reordered(q, running, order), P)
PROOF
<1> DEFINE rows == Reorderable(running)
           a == Retain(q, Prompts \ rows)
           b == Retain(order, rows \cap Range(q))
           c == Retain(q, rows \ Range(order))
           A == P \cap (Prompts \ rows)
           B == Range(order) \cap (rows \cap Range(q))
           C == P \cap (rows \ Range(order))
<1>1. a \in Seq(Prompts) /\ b \in Seq(Prompts) /\ c \in Seq(Prompts)
    BY RetainType
<1>2. Lists(order, Range(order)) /\ P = Range(q) /\ P \subseteq Prompts
    BY DEF Lists, Range
<1>3. Lists(a, A) /\ Lists(b, B) /\ Lists(c, C)
    BY <1>2, RetainLists
<1>4. Reordered(q, running, order) = (a \o b) \o c
    BY DEF Reordered
<1>5. A \cap B = {} /\ (A \cup B) \cap C = {} /\ (A \cup B) \cup C = P
    BY <1>2
<1> HIDE DEF a, b, c, A, B, C
<1>6. a \o b \in Seq(Prompts)
    BY <1>1
<1>7. Lists(a \o b, A \cup B)
    BY <1>1, <1>3, <1>5, ConcatLists, Zenon
<1>8. Lists((a \o b) \o c, (A \cup B) \cup C)
    BY <1>1, <1>3, <1>5, <1>6, <1>7, ConcatLists, Zenon
<1> QED
    BY <1>4, <1>5, <1>8

-----------------------------------------------------------------------------
(* Facts about the helpers *)

LEMMA RetainPrompts ==
    \A q \in Seq(Prompts) : \A K : Retain(q, K) \in Seq(Prompts)
PROOF
    BY RetainType

LEMMA RetainNotifs ==
    \A q \in Seq(Notifs) : \A K : Retain(q, K) \in Seq(Notifs)
PROOF
    BY RetainType

\* What broadcast_queue_changed sends is well formed.
LEMMA WireType ==
    ASSUME NEW q \in Seq(Prompts), NEW r \in MaybePrompt, NEW ver \in [Prompts -> Nat]
    PROVE  [rows |-> BuildQueueWire(q, r, ver), running |-> r] \in QueueWires
PROOF
<1>1. BuildQueueWire(q, r, ver) \in Seq([id : Prompts, version : Nat])
    BY BuildQueueWireType
<1> QED
    BY <1>1 DEF QueueWires

LEMMA BroadcastType ==
    ASSUME TypeOK, NEW q \in Seq(Prompts), NEW r \in MaybePrompt
    PROVE  Broadcast(q, r) \in QueueWires
PROOF
    BY WireType DEF Broadcast, TypeOK, QueueType

LEMMA SettleType ==
    ASSUME NEW f \in [Prompts -> Fates], NEW P, NEW o \in Fates
    PROVE  Settle(f, P, o) \in [Prompts -> Fates]
PROOF
    BY DEF Settle

\* A capped buffer stays a sequence.
LEMMA PushCappedType ==
    ASSUME NEW s \in Seq(Notifs), NEW n \in Notifs
    PROVE  PushCapped(s, n) \in Seq(Notifs)
PROOF
<1> DEFINE t == Append(s, n)
<1>1. t \in Seq(Notifs)
    OBVIOUS
<1> HIDE DEF t
<1>2. ASSUME Len(t) > MAX_PENDING_NOTIFICATIONS
      PROVE  SubSeq(t, Len(t) - MAX_PENDING_NOTIFICATIONS + 1, Len(t)) \in Seq(Notifs)
    BY <1>1, <1>2, SessionConstants
<1> QED
    BY <1>1, <1>2 DEF PushCapped, t

\* The follow-ups of each handler are critical sections of the main loop.
LEMMA StepsType ==
    /\ CompletionSteps \in Seq(Steps)
    /\ UserCancelSteps \in Seq(Steps)
    /\ \A c \in BOOLEAN : SendNowSteps(c) \in Seq(Steps)
    /\ <<"start">> \in Seq(Steps) /\ <<"drain">> \in Seq(Steps)
PROOF
<1>1. CancelSteps \in Seq(Steps)
    BY DEF CancelSteps, Steps
<1>2. <<"start">> \in Seq(Steps) /\ <<"drain">> \in Seq(Steps) /\ <<"unsuppress">> \in Seq(Steps)
          /\ <<"pauseGoal", "start">> \in Seq(Steps) /\ <<>> \in Seq(Steps)
    BY DEF Steps
<1>3. CompletionSteps \in Seq(Steps)
    BY DEF CompletionSteps, Steps
<1>4. CancelSteps \o <<"unsuppress">> \in Seq(Steps)
    BY <1>1, <1>2
<1> QED
    BY <1>1, <1>2, <1>3, <1>4 DEF UserCancelSteps, SendNowSteps

\* The locals of a cancel that has just begun.
LEMMA CancelForType ==
    ASSUME NEW why \in CancelReasons
    PROVE  CancelFor(why) \in CancelLocals
PROOF
<1>1. <<>> \in Seq(Prompts)
    OBVIOUS
<1> QED
    BY <1>1 DEF CancelFor, CancelLocals, MaybePrompt

-----------------------------------------------------------------------------
(* Type correctness *)

LEMMA InitType == Init => TypeOK
PROOF
<1> SUFFICES ASSUME Init PROVE TypeOK
    OBVIOUS
<1>1. QueueType
    <2>1. queue_changed.rows \in Seq([id : Prompts, version : Nat])
        BY DEF Init
    <2>2. queue_changed \in QueueWires
        BY <2>1 DEF Init, MaybePrompt, QueueWires
    <2> QED
        BY <2>2 DEF Init, QueueType, MaybePrompt
<1>2. /\ notifications_suppressed \in BOOLEAN /\ is_turn_active \in BOOLEAN
      /\ stopped \in BOOLEAN /\ rewindable \in BOOLEAN /\ goal_loop_active \in BOOLEAN
    BY Zenon DEF Init
<1>3. /\ pending_notifications = <<>> /\ monitor_event_buffer = <<>>
      /\ history = <<>> /\ todo = <<>> /\ completion_rx = <<>> /\ pending_interjections = <<>>
    BY DEF Init
<1>4. NoteType
    BY <1>2, <1>3 DEF NoteType
<1>5. TurnType
    BY <1>2, <1>3 DEF Init, TurnType, Phases
<1>6. GoalType /\ WakeType
    BY <1>2 DEF Init, GoalType, WakeType
<1>7. LoopType
    <2>1. cancel \in CancelLocals
        BY CancelForType DEF Init, NoCancel, CancelReasons
    <2> QED
        BY <1>2, <1>3, <2>1 DEF LoopType
<1>8. TaskType
    BY DEF Init, TaskType
<1>9. SharedType
    BY <1>2, <1>3 DEF Init, SharedType, MaybePrompt
<1>10. SeenType
    BY DEF Init, SeenType, Fates
<1> QED
    BY <1>1, <1>4, <1>5, <1>6, <1>7, <1>8, <1>9, <1>10 DEF TypeOK

\* State an action leaves alone keeps its type.
LEMMA Stutter ==
    ASSUME TypeOK
    PROVE  /\ UNCHANGED queueVars => QueueType'
           /\ UNCHANGED noteVars => NoteType'
           /\ UNCHANGED turnVars => TurnType'
           /\ UNCHANGED goalVars => GoalType'
           /\ UNCHANGED wakeVars => WakeType'
           /\ UNCHANGED loopVars => LoopType'
           /\ UNCHANGED taskVars => TaskType'
PROOF
<1>1. UNCHANGED queueVars => QueueType'
    BY DEF TypeOK, queueVars, QueueType
<1>2. UNCHANGED noteVars => NoteType'
    BY DEF TypeOK, noteVars, NoteType
<1>3. UNCHANGED turnVars => TurnType'
    BY DEF TypeOK, turnVars, TurnType
<1>4. UNCHANGED goalVars => GoalType'
    BY DEF TypeOK, goalVars, GoalType
<1>5. UNCHANGED wakeVars => WakeType'
    BY DEF TypeOK, wakeVars, WakeType
<1>6. UNCHANGED loopVars => LoopType'
    BY DEF TypeOK, loopVars, LoopType
<1>7. UNCHANGED taskVars => TaskType'
    BY DEF TypeOK, taskVars, TaskType
<1> QED
    BY <1>1, <1>2, <1>3, <1>4, <1>5, <1>6, <1>7

\* queue_input
LEMMA QueueInputType ==
    ASSUME TypeOK, NEW p \in Prompts, NEW asked \in BOOLEAN, QueueInput(p, asked)
    PROVE  QueueType' /\ WakeType' /\ fate' \in [Prompts -> Fates]
PROOF
<1> DEFINE kept == Retain(pending_inputs, Prompts \ Preempted(p))
<1>1. kept \in Seq(Prompts)
    BY RetainPrompts DEF TypeOK, QueueType
<1>2. pending_inputs' \in Seq(Prompts)
    <2>1. InsertSendNow(kept, running_task, send_now, p) \in Seq(Prompts)
        BY <1>1, InsertSendNowType
    <2>2. Append(kept, p) \in Seq(Prompts)
        BY <1>1
    <2> QED
        BY <2>1, <2>2 DEF QueueInput
<1>3. queue_changed' \in QueueWires
    BY <1>2, BroadcastType DEF TypeOK, QueueType, QueueInput
<1>4. send_now' \in SUBSET Prompts
    BY DEF TypeOK, QueueType, QueueInput
<1>5. QueueType'
    BY <1>2, <1>3, <1>4 DEF TypeOK, QueueType, QueueInput
<1>6. Ids({p}) \in SUBSET Tasks
    BY QueueConstants DEF Ids
<1>7. WakeType'
    BY <1>6 DEF TypeOK, WakeType, QueueInput
<1>8. fate' \in [Prompts -> Fates]
    <2>1. [fate EXCEPT ![p] = "pending"] \in [Prompts -> Fates]
        BY DEF TypeOK, SeenType, Fates
    <2> QED
        BY <2>1, SettleType DEF QueueInput, Fates
<1> QED
    BY <1>5, <1>7, <1>8

\* What the main loop does after an edit that may interrupt the turn
LEMMA ThenRunNextType ==
    ASSUME TypeOK, NEW c \in BOOLEAN, ThenRunNext(c), UNCHANGED stopped
    PROVE  LoopType'
PROOF
<1>1. todo' \in Seq(Steps)
    BY StepsType DEF ThenRunNext
<1>2. cancel' \in CancelLocals
    BY CancelForType DEF TypeOK, LoopType, ThenRunNext, CancelReasons
<1> QED
    BY <1>1, <1>2 DEF TypeOK, LoopType

LEMMA PromptType ==
    ASSUME TypeOK, NEW p \in Prompts, NEW asked \in BOOLEAN, Prompt(p, asked)
    PROVE  TypeOK'
PROOF
<1>1. QueueInput(p, asked) /\ ThenRunNext(CancelsTurn(GoesNow(p, asked))) /\ UNCHANGED stopped
    BY DEF Prompt
<1>2. QueueType' /\ WakeType' /\ fate' \in [Prompts -> Fates]
    BY <1>1, QueueInputType
<1>3. LoopType'
    <2>1. CancelsTurn(GoesNow(p, asked)) \in BOOLEAN
        BY DEF CancelsTurn
    <2> QED
        BY <1>1, <2>1, ThenRunNextType
<1>4. NoteType'
    BY DEF Prompt, TypeOK, NoteType
<1>5. SharedType' /\ SeenType'
    BY <1>2 DEF Prompt, TypeOK, SharedType, SeenType
<1> QED
    BY <1>2, <1>3, <1>4, <1>5, Stutter DEF Prompt, TypeOK

\* SessionCommand::Interject
LEMMA InterjectType ==
    ASSUME TypeOK, NEW p \in Prompts, Interject(p)
    PROVE  TypeOK'
PROOF
<1>1. InsertFallback(pending_inputs, running_task, p) \in Seq(Prompts)
    BY InsertFallbackType DEF TypeOK, QueueType
<1>2. QueueType'
    BY <1>1 DEF Interject, TypeOK, QueueType
<1>3. SharedType'
    BY DEF Interject, TypeOK, SharedType
<1>4. LoopType'
    <2>1. todo' \in Seq(Steps)
        BY StepsType DEF Interject, TypeOK, LoopType
    <2> QED
        BY <2>1 DEF Interject, TypeOK, LoopType
<1>5. SeenType'
    BY DEF Interject, TypeOK, SeenType, Fates
<1> QED
    BY <1>2, <1>3, <1>4, <1>5, Stutter DEF Interject, TypeOK

\* SessionCommand::GoalSummaryTurn
LEMMA GoalSummaryTurnType ==
    ASSUME TypeOK, NEW p \in Prompts, GoalSummaryTurn(p)
    PROVE  TypeOK'
PROOF
<1>1. QueueType'
    BY DEF GoalSummaryTurn, TypeOK, QueueType
<1>2. LoopType'
    BY DEF GoalSummaryTurn, TypeOK, LoopType, Steps
<1>3. SharedType' /\ SeenType'
    BY DEF GoalSummaryTurn, TypeOK, SharedType, SeenType, Fates
<1> QED
    BY <1>1, <1>2, <1>3, Stutter DEF GoalSummaryTurn, TypeOK

\* The edits of the shared queue leave the rest of the actor alone.
LEMMA EditType ==
    ASSUME TypeOK, EditsOnlyTheQueue
    PROVE  /\ NoteType' /\ TurnType' /\ GoalType' /\ WakeType' /\ TaskType' /\ SharedType'
           /\ fate' \in [Prompts -> Fates] => SeenType'
           /\ UNCHANGED <<todo, cancel>> => LoopType'
PROOF
<1>1. SharedType'
    BY DEF EditsOnlyTheQueue, TypeOK, SharedType
<1>2. fate' \in [Prompts -> Fates] => SeenType'
    BY DEF EditsOnlyTheQueue, TypeOK, SeenType
<1>3. UNCHANGED <<todo, cancel>> => LoopType'
    BY DEF EditsOnlyTheQueue, TypeOK, LoopType
<1> QED
    BY <1>1, <1>2, <1>3, Stutter DEF EditsOnlyTheQueue

\* handle_remove_queued_prompt, handle_clear_queue
LEMMA RemovalType ==
    ASSUME TypeOK,
           \/ \E p \in Prompts : \E v, owner : RemoveQueuedPrompt(p, v, owner)
           \/ \E owner : ClearQueue(owner)
    PROVE  TypeOK'
PROOF
<1>1. PICK gone : /\ pending_inputs' = Retain(pending_inputs, Prompts \ gone)
                  /\ fate' = Settle(fate, gone, "removed")
                  /\ queue_changed' = Broadcast(pending_inputs', running_task)
                  /\ EditsOnlyTheQueue /\ UNCHANGED <<send_now, version, todo, cancel>>
    BY DEF RemoveQueuedPrompt, ClearQueue
<1>2. pending_inputs' \in Seq(Prompts)
    BY <1>1, RetainPrompts DEF TypeOK, QueueType
<1>3. queue_changed' \in QueueWires
    BY <1>1, <1>2, BroadcastType DEF TypeOK, QueueType
<1>4. QueueType'
    BY <1>1, <1>2, <1>3 DEF EditsOnlyTheQueue, TypeOK, QueueType
<1>5. fate' \in [Prompts -> Fates]
    BY <1>1, SettleType DEF TypeOK, SeenType, Fates
<1> QED
    BY <1>1, <1>4, <1>5, EditType DEF TypeOK

\* handle_reorder_queue
LEMMA ReorderType ==
    ASSUME TypeOK, NEW order \in Seq(Prompts), ReorderQueue(order)
    PROVE  TypeOK'
PROOF
<1>1. EditsOnlyTheQueue /\ UNCHANGED <<send_now, version, fate, todo, cancel>>
    BY DEF ReorderQueue
<1>2. pending_inputs' \in Seq(Prompts)
    BY ReorderedType DEF ReorderQueue, TypeOK, QueueType
<1>3. queue_changed' \in QueueWires
    BY <1>2, BroadcastType DEF ReorderQueue, TypeOK, QueueType
<1>4. QueueType'
    BY <1>1, <1>2, <1>3 DEF EditsOnlyTheQueue, TypeOK, QueueType
<1>5. fate' \in [Prompts -> Fates]
    BY <1>1 DEF TypeOK, SeenType
<1> QED
    BY <1>1, <1>4, <1>5, EditType DEF TypeOK

\* handle_edit_queued_prompt
LEMMA EditQueuedType ==
    ASSUME TypeOK, NEW p \in Prompts, EditQueuedPrompt(p)
    PROVE  TypeOK'
PROOF
<1>1. EditsOnlyTheQueue /\ UNCHANGED <<pending_inputs, send_now, fate, todo, cancel>>
    BY DEF EditQueuedPrompt
<1>2. version' \in [Prompts -> Nat]
    BY DEF EditQueuedPrompt, TypeOK, QueueType
<1>3. queue_changed' \in QueueWires
    BY <1>2, WireType DEF EditQueuedPrompt, TypeOK, QueueType
<1>4. QueueType'
    BY <1>1, <1>2, <1>3 DEF EditsOnlyTheQueue, TypeOK, QueueType
<1>5. fate' \in [Prompts -> Fates]
    BY <1>1 DEF TypeOK, SeenType
<1> QED
    BY <1>1, <1>4, <1>5, EditType DEF TypeOK

\* handle_interject_queued_prompt
LEMMA InterjectQueuedType ==
    ASSUME TypeOK, NEW p \in Prompts, NEW v, NEW owner, NEW edited \in BOOLEAN,
           InterjectQueuedPrompt(p, v, owner, edited)
    PROVE  TypeOK'
PROOF
<1> DEFINE rest == Retain(pending_inputs, Prompts \ {p})
<1>1. EditsOnlyTheQueue /\ UNCHANGED fate
    BY DEF InterjectQueuedPrompt
<1>2. pending_inputs' \in Seq(Prompts)
    <2>1. rest \in Seq(Prompts)
        BY RetainPrompts DEF TypeOK, QueueType
    <2>2. InsertSendNow(rest, running_task, send_now, p) \in Seq(Prompts)
        BY <2>1, InsertSendNowType
    <2> QED
        BY <2>2 DEF InterjectQueuedPrompt, TypeOK, QueueType
<1>3. version' \in [Prompts -> Nat]
    <2>1. [version EXCEPT ![p] = @ + 1] \in [Prompts -> Nat]
        BY DEF TypeOK, QueueType
    <2>2. version' = version \/ version' = [version EXCEPT ![p] = @ + 1]
        BY DEF InterjectQueuedPrompt
    <2> QED
        BY <2>1, <2>2 DEF TypeOK, QueueType
<1>4. queue_changed' \in QueueWires
    BY <1>2, <1>3, WireType DEF InterjectQueuedPrompt, TypeOK, QueueType
<1>5. send_now' \in SUBSET Prompts
    BY DEF InterjectQueuedPrompt, TypeOK, QueueType
<1>6. QueueType'
    BY <1>1, <1>2, <1>3, <1>4, <1>5 DEF EditsOnlyTheQueue, TypeOK, QueueType
<1>7. LoopType'
    <2>1. UNCHANGED stopped
        BY <1>1 DEF EditsOnlyTheQueue
    <2>2. \E c \in BOOLEAN : ThenRunNext(c)
        BY DEF InterjectQueuedPrompt, CancelsTurn
    <2> QED
        BY <2>1, <2>2, ThenRunNextType
<1>8. fate' \in [Prompts -> Fates]
    BY <1>1 DEF TypeOK, SeenType
<1> QED
    BY <1>1, <1>6, <1>7, <1>8, EditType DEF TypeOK

\* maybe_start_running_task
LEMMA StartType ==
    ASSUME TypeOK, MaybeStartRunningTask, AfterStart
    PROVE  /\ QueueType' /\ NoteType' /\ TurnType' /\ GoalType' /\ WakeType'
           /\ SharedType' /\ SeenType'
           /\ todo' \in Seq(Steps) => LoopType'
PROOF
<1>1. ASSUME running_task = None /\ pending_inputs # <<>>
      PROVE  QueueType' /\ TurnType' /\ SharedType'
    <2> DEFINE p == Head(pending_inputs)
    <2>1. p \in Prompts /\ p \in MaybePrompt
        BY <1>1 DEF TypeOK, QueueType, MaybePrompt
    <2>2. queue_changed' \in QueueWires
        BY <1>1, <2>1, BroadcastType DEF MaybeStartRunningTask, TypeOK, QueueType
    <2>3. QueueType'
        BY <1>1, <2>1, <2>2 DEF MaybeStartRunningTask, AfterStart, TypeOK, QueueType
    <2>4. turn' \in [Prompts -> Phases]
        BY <1>1, <2>1 DEF MaybeStartRunningTask, TypeOK, TurnType, Phases, LivePhases
    <2>5. TurnType'
        BY <2>4 DEF AfterStart, TypeOK, TurnType
    <2>6. rewindable' \in BOOLEAN
        BY <1>1, Zenon DEF MaybeStartRunningTask
    <2>7. SharedType'
        BY <1>1, <2>1, <2>6 DEF MaybeStartRunningTask, AfterStart, TypeOK, SharedType
    <2> QED
        BY <2>3, <2>5, <2>7
<1>2. ASSUME ~(running_task = None /\ pending_inputs # <<>>)
      PROVE  QueueType' /\ TurnType' /\ SharedType'
    <2>1. UNCHANGED <<running_task, current_prompt_id, rewindable, turn, queue_changed>>
        BY <1>2 DEF MaybeStartRunningTask
    <2>2. QueueType'
        BY <2>1 DEF AfterStart, TypeOK, QueueType
    <2>3. TurnType'
        BY <2>1 DEF AfterStart, TypeOK, TurnType
    <2>4. SharedType'
        BY <2>1 DEF AfterStart, TypeOK, SharedType
    <2> QED
        BY <2>2, <2>3, <2>4
<1>3. SeenType'
    BY DEF AfterStart, TypeOK, SeenType
<1>4. todo' \in Seq(Steps) => LoopType'
    BY DEF AfterStart, TypeOK, LoopType
<1> QED
    BY <1>1, <1>2, <1>3, <1>4, Stutter DEF AfterStart

\* A handler that goes on to its next section keeps a well-typed schedule.
LEMMA TailType ==
    ASSUME TypeOK, todo # <<>>
    PROVE  Tail(todo) \in Seq(Steps)
PROOF
    BY DEF TypeOK, LoopType

LEMMA StartersType ==
    ASSUME TypeOK, StartStep \/ McpInitialized \/ PlanResumeStarted
    PROVE  TypeOK'
PROOF
<1>1. MaybeStartRunningTask /\ AfterStart
    BY DEF StartStep, McpInitialized, PlanResumeStarted
<1>2. todo' \in Seq(Steps)
    BY TailType DEF StartStep, McpInitialized, PlanResumeStarted, At, TypeOK, LoopType
<1>3. TaskType'
    <2>1. CASE StartStep
        BY <2>1, Stutter DEF StartStep
    <2>2. CASE McpInitialized
        BY <2>2 DEF McpInitialized, TypeOK, TaskType
    <2>3. CASE PlanResumeStarted
        BY <2>3 DEF PlanResumeStarted, TypeOK, TaskType
    <2> QED
        BY <2>1, <2>2, <2>3
<1> QED
    BY <1>1, <1>2, <1>3, StartType DEF TypeOK

\* The plan-approval task
LEMMA PlanType ==
    ASSUME TypeOK, RestorePlanApproval \/ PlanAbandoned
    PROVE  TypeOK'
PROOF
<1>1. TaskType'
    BY DEF RestorePlanApproval, PlanAbandoned, TypeOK, TaskType
<1>2. SharedType'
    BY DEF RestorePlanApproval, PlanAbandoned, TypeOK, SharedType
<1>3. SeenType'
    BY DEF RestorePlanApproval, PlanAbandoned, TypeOK, SeenType
<1> QED
    BY <1>1, <1>2, <1>3, Stutter DEF RestorePlanApproval, PlanAbandoned, TypeOK

LEMMA PlanResumeQueuedType ==
    ASSUME TypeOK, NEW p \in Prompts, PlanResumeQueued(p)
    PROVE  TypeOK'
PROOF
<1>1. QueueType' /\ WakeType' /\ fate' \in [Prompts -> Fates]
    BY QueueInputType DEF PlanResumeQueued
<1>2. TaskType'
    BY DEF PlanResumeQueued, TypeOK, TaskType
<1>3. SharedType'
    BY DEF PlanResumeQueued, TypeOK, SharedType
<1>4. SeenType'
    BY <1>1 DEF PlanResumeQueued, TypeOK, SeenType
<1> QED
    BY <1>1, <1>2, <1>3, <1>4, Stutter DEF PlanResumeQueued, TypeOK

-----------------------------------------------------------------------------
(* The end of a turn *)

\* The completion arm
LEMMA CompletionType ==
    ASSUME TypeOK, Completion
    PROVE  TypeOK'
PROOF
<1>1. goal_loop_active' \in BOOLEAN
    BY DEF Completion, TypeOK, GoalType
<1>2. GoalType'
    BY <1>1 DEF Completion, TypeOK, GoalType
<1>3. LoopType'
    BY StepsType DEF Completion, TypeOK, LoopType
<1>4. SharedType'
    BY DEF Completion, TypeOK, SharedType, PinWithout, MaybePrompt
<1>5. SeenType'
    BY DEF Completion, TypeOK, SeenType
<1> QED
    BY <1>2, <1>3, <1>4, <1>5, Stutter DEF Completion, TypeOK

\* The section that pops the completed prompt: `pop' is only ever the first section of
\* a completion's schedule, and the completion is still in the channel.
PopHasCompletion ==
    /\ todo # <<>> /\ Head(todo) = "pop" => completion_rx # <<>>
    /\ \A i \in DOMAIN todo : i > 1 => todo[i] # "pop"

LEMMA PopCompletedType ==
    ASSUME TypeOK, PopHasCompletion, PopCompleted
    PROVE  TypeOK'
PROOF
<1> DEFINE p == Head(completion_rx)
           owned == pending_inputs # <<>> /\ Head(pending_inputs) = p
<1>1. completion_rx # <<>> /\ todo # <<>>
    BY DEF PopHasCompletion, PopCompleted, At
<1>2. p \in Prompts /\ Tail(completion_rx) \in Seq(Prompts)
    BY <1>1 DEF TypeOK, SharedType
<1>3. pending_inputs' \in Seq(Prompts)
    BY DEF PopCompleted, TypeOK, QueueType
<1>4. running_task' \in MaybePrompt
    BY DEF PopCompleted, TypeOK, QueueType, MaybePrompt
<1>5. queue_changed' \in QueueWires
    BY <1>3, <1>4, BroadcastType DEF PopCompleted, TypeOK, QueueType
<1>6. QueueType'
    BY <1>3, <1>4, <1>5 DEF PopCompleted, TypeOK, QueueType
<1>7. NoteType'
    BY DEF PopCompleted, SweptNotifications, TypeOK, NoteType
<1>8. LoopType'
    BY <1>1, TailType DEF PopCompleted, TypeOK, LoopType
<1>9. SharedType'
    BY <1>2 DEF PopCompleted, TypeOK, SharedType
<1>10. SeenType'
    <2>1. [fate EXCEPT ![p] = "completed"] \in [Prompts -> Fates]
        BY DEF TypeOK, SeenType, Fates
    <2>2. [terminals EXCEPT ![p] = @ + 1] \in [Prompts -> Nat]
        BY <1>2 DEF TypeOK, SeenType
    <2>3. fate' \in [Prompts -> Fates]
        BY <2>1 DEF PopCompleted, TypeOK, SeenType
    <2>4. terminals' \in [Prompts -> Nat]
        BY <2>2 DEF PopCompleted, TypeOK, SeenType
    <2> QED
        BY <2>3, <2>4 DEF SeenType
<1> QED
    BY <1>6, <1>7, <1>8, <1>9, <1>10, Stutter DEF PopCompleted, TypeOK

\* handle_turn_end and the pause of a goal
LEMMA TurnEndType ==
    ASSUME TypeOK,
           \/ TurnEnd \/ TurnEndPausesGoal \/ PauseGoal
           \/ \E p \in Prompts : TurnEndContinuesGoal(p)
    PROVE  TypeOK'
PROOF
<1>1. todo # <<>> /\ GoalStep
    BY DEF TurnEnd, TurnEndPausesGoal, PauseGoal, TurnEndContinuesGoal, At
<1>2. goal_status' \in {"none", "active", "paused", "complete"}
    BY DEF TurnEnd, TurnEndPausesGoal, PauseGoal, TurnEndContinuesGoal, TypeOK, GoalType
<1>3. pending_inputs' \in Seq(Prompts)
    <2>1. \A p \in Prompts : Append(pending_inputs, p) \in Seq(Prompts)
        BY DEF TypeOK, QueueType
    <2>2. pending_inputs' = pending_inputs \/ \E p \in Prompts : pending_inputs' = Append(pending_inputs, p)
        BY DEF TurnEnd, TurnEndPausesGoal, PauseGoal, TurnEndContinuesGoal
    <2> QED
        BY <2>1, <2>2 DEF TypeOK, QueueType
<1>4. fate' \in [Prompts -> Fates]
    BY DEF TurnEnd, TurnEndPausesGoal, PauseGoal, TurnEndContinuesGoal, TypeOK, SeenType, Fates
<1>5. QueueType'
    BY <1>1, <1>3 DEF GoalStep, TypeOK, QueueType
<1>6. GoalType'
    BY <1>1, <1>2 DEF GoalStep, TypeOK, GoalType
<1>7. LoopType'
    BY <1>1, TailType DEF GoalStep, TypeOK, LoopType
<1>8. SharedType'
    BY <1>1 DEF GoalStep, TypeOK, SharedType
<1>9. SeenType'
    BY <1>1, <1>4 DEF GoalStep, TypeOK, SeenType
<1> QED
    BY <1>1, <1>5, <1>6, <1>7, <1>8, <1>9, Stutter DEF GoalStep, TypeOK

\* flush_stranded_interjections
LEMMA FlushStrandedType ==
    ASSUME TypeOK, FlushStranded
    PROVE  TypeOK'
PROOF
<1>1. pending_inputs' \in Seq(Prompts)
    BY InsertAllFallbacksType DEF FlushStranded, TypeOK, QueueType, SharedType
<1>2. send_now' \in SUBSET Prompts
    <2>1. \A x \in Range(pending_interjections) : x \in Prompts
        BY DEF TypeOK, SharedType, Range
    <2> QED
        BY <2>1 DEF FlushStranded, TypeOK, QueueType
<1>3. QueueType'
    BY <1>1, <1>2 DEF FlushStranded, TypeOK, QueueType
<1>4. LoopType'
    BY TailType DEF FlushStranded, At, TypeOK, LoopType
<1>5. SharedType'
    BY DEF FlushStranded, TypeOK, SharedType
<1>6. SeenType'
    BY DEF FlushStranded, TypeOK, SeenType
<1> QED
    BY <1>3, <1>4, <1>5, <1>6, Stutter DEF FlushStranded, TypeOK

-----------------------------------------------------------------------------
(* Cancelling the running turn *)

\* SessionCommand::Cancel
LEMMA CancelType ==
    ASSUME TypeOK, NEW why, Cancel(why)
    PROVE  TypeOK'
PROOF
<1>1. cancel' \in CancelLocals
    BY CancelForType DEF Cancel, CancelReasons
<1>2. LoopType'
    BY <1>1, StepsType DEF Cancel, TypeOK, LoopType
<1>3. SharedType'
    BY DEF Cancel, TypeOK, SharedType
<1>4. SeenType'
    BY DEF Cancel, TypeOK, SeenType
<1> QED
    BY <1>2, <1>3, <1>4, Stutter DEF Cancel, TypeOK

\* Each local of a cancel that one of its sections assigns
LEMMA CancelLocalsType ==
    ASSUME NEW c \in CancelLocals, NEW p \in MaybePrompt, NEW q \in Seq(Prompts)
    PROVE  /\ [c EXCEPT !.pin = p] \in CancelLocals
           /\ [c EXCEPT !.rewound = p] \in CancelLocals
           /\ [c EXCEPT !.task = p, !.inputs = q] \in CancelLocals
           /\ c.rewound \in MaybePrompt /\ c.task \in MaybePrompt /\ c.pin \in MaybePrompt
           /\ c.inputs \in Seq(Prompts)
PROOF
    BY DEF CancelLocals

LEMMA CancelBeginType ==
    ASSUME TypeOK, CancelBegin
    PROVE  TypeOK'
PROOF
<1>1. cancel' \in CancelLocals
    BY CancelLocalsType DEF CancelBegin, TypeOK, LoopType, SharedType
<1>2. LoopType'
    BY <1>1, TailType DEF CancelBegin, At, TypeOK, LoopType
<1>3. SharedType'
    BY DEF CancelBegin, TypeOK, SharedType
<1>4. fate' \in [Prompts -> Fates]
    BY SettleType DEF CancelBegin, TypeOK, SeenType, Fates
<1>5. SeenType'
    BY <1>4 DEF CancelBegin, TypeOK, SeenType
<1> QED
    BY <1>2, <1>3, <1>5, Stutter DEF CancelBegin, TypeOK

LEMMA AbortType ==
    ASSUME TypeOK, NEW p \in MaybePrompt
    PROVE  Abort(p) \in SUBSET Prompts
PROOF
    BY DEF Abort, MaybePrompt, TypeOK, TurnType

LEMMA CancelTakeType ==
    ASSUME TypeOK, CancelTake
    PROVE  TypeOK'
PROOF
<1> DEFINE rewinds == cancel.why = "rewind" /\ rewindable /\ pending_inputs # <<>>
           inputs == CancelledInputs(cancel.why)
<1>1. inputs \in Seq(Prompts) /\ Len(inputs) \in Nat
    BY DEF CancelledInputs, TypeOK, QueueType
<1> HIDE DEF inputs
<1>2. pending_inputs' \in Seq(Prompts)
    <2>1. SubSeq(pending_inputs, Len(inputs) + 1, Len(pending_inputs)) \in Seq(Prompts)
        BY <1>1 DEF TypeOK, QueueType
    <2>2. rewinds => Tail(pending_inputs) \in Seq(Prompts)
        BY DEF TypeOK, QueueType
    <2> QED
        BY <2>1, <2>2 DEF CancelTake, inputs
<1>3. QueueType'
    BY <1>2 DEF CancelTake, TypeOK, QueueType, MaybePrompt
<1>4. NoteType'
    <2>1. notifications_suppressed' \in BOOLEAN
        BY DEF CancelTake
    <2> QED
        BY <2>1 DEF CancelTake, SweptNotifications, TypeOK, NoteType
<1>5. aborting' \in SUBSET Prompts
    <2>1. Abort(running_task) \in SUBSET Prompts
        BY AbortType DEF TypeOK, QueueType
    <2> QED
        BY <2>1 DEF CancelTake, TypeOK, TurnType
<1>6. TurnType'
    BY <1>5 DEF CancelTake, TypeOK, TurnType
<1>7. cancel' \in CancelLocals
    <2>1. rewinds => Head(pending_inputs) \in MaybePrompt
        BY DEF TypeOK, QueueType, MaybePrompt
    <2>2. rewinds => [cancel EXCEPT !.rewound = Head(pending_inputs)] \in CancelLocals
        BY <1>1, <2>1, CancelLocalsType DEF TypeOK, LoopType
    <2>3. [cancel EXCEPT !.task = running_task, !.inputs = inputs] \in CancelLocals
        BY <1>1, CancelLocalsType DEF TypeOK, LoopType, QueueType
    <2> QED
        BY <2>2, <2>3 DEF CancelTake, inputs
<1>8. LoopType'
    BY <1>7, TailType DEF CancelTake, At, TypeOK, LoopType
<1>9. SharedType'
    <2>1. rewindable' \in BOOLEAN
        BY DEF CancelTake
    <2> QED
        BY <2>1 DEF CancelTake, TypeOK, SharedType
<1>10. SeenType'
    BY DEF CancelTake, TypeOK, SeenType
<1> QED
    BY <1>3, <1>4, <1>6, <1>8, <1>9, <1>10, Stutter DEF CancelTake, TypeOK

LEMMA CancelGoalType ==
    ASSUME TypeOK, CancelGoal
    PROVE  TypeOK'
PROOF
<1>1. goal_loop_active' \in BOOLEAN
    BY Zenon DEF CancelGoal
<1>2. GoalType'
    BY <1>1 DEF CancelGoal, TypeOK, GoalType
<1>3. LoopType'
    BY TailType DEF CancelGoal, At, TypeOK, LoopType
<1>4. SharedType'
    BY DEF CancelGoal, TypeOK, SharedType
<1>5. SeenType'
    BY DEF CancelGoal, TypeOK, SeenType
<1> QED
    BY <1>2, <1>3, <1>4, <1>5, Stutter DEF CancelGoal, TypeOK

LEMMA CancelAbortType ==
    ASSUME TypeOK, CancelAbort
    PROVE  TypeOK'
PROOF
<1>1. aborting' \in SUBSET Prompts
    BY AbortType DEF CancelAbort, TypeOK, LoopType, CancelLocals
<1>2. TurnType'
    BY <1>1 DEF CancelAbort, DepthAfterAbort, TypeOK, TurnType
<1>3. LoopType'
    BY TailType DEF CancelAbort, At, TypeOK, LoopType
<1>4. SharedType'
    BY DEF CancelAbort, TypeOK, SharedType
<1>5. SeenType'
    BY DEF CancelAbort, TypeOK, SeenType
<1> QED
    BY <1>2, <1>3, <1>4, <1>5, Stutter DEF CancelAbort, TypeOK

LEMMA CancelFinishType ==
    ASSUME TypeOK, CancelFinish
    PROVE  TypeOK'
PROOF
<1>1. cancel.rewound \in MaybePrompt /\ cancel.task \in MaybePrompt /\ cancel.pin \in MaybePrompt
    BY DEF TypeOK, LoopType, CancelLocals
<1>2. cancel' \in CancelLocals
    BY CancelForType DEF CancelFinish, NoCancel, CancelReasons
<1>3. LoopType'
    BY <1>2, TailType DEF CancelFinish, At, TypeOK, LoopType
<1>4. history' \in Seq(Prompts)
    <2>1. history \in Seq(Prompts) /\ SubSeq(history, 1, Len(history) - 1) \in Seq(Prompts)
        BY DEF TypeOK, TurnType
    <2>2. history' = history \/ history' = SubSeq(history, 1, Len(history) - 1)
        BY DEF CancelFinish
    <2> QED
        BY <2>1, <2>2
<1>5. TurnType'
    BY <1>4 DEF CancelFinish, TypeOK, TurnType
<1>6. fate' \in [Prompts -> Fates]
    <2>1. [fate EXCEPT ![cancel.rewound] = "rewound"] \in [Prompts -> Fates]
        BY DEF TypeOK, SeenType, Fates
    <2>2. Settle(fate, Range(cancel.inputs), "cancelled") \in [Prompts -> Fates]
        BY SettleType DEF TypeOK, SeenType, Fates
    <2> QED
        BY <2>1, <2>2 DEF CancelFinish
<1>7. terminals' \in [Prompts -> Nat]
    <2> DEFINE id == CancelledPromptId(cancel.task, cancel.pin)
    <2>1. id \in MaybePrompt
        BY <1>1 DEF CancelledPromptId
    <2>2. id # None => [terminals EXCEPT ![id] = @ + 1] \in [Prompts -> Nat]
        BY <2>1 DEF TypeOK, SeenType, MaybePrompt
    <2>3. terminals \in [Prompts -> Nat]
        BY DEF TypeOK, SeenType
    <2> QED
        BY <2>2, <2>3 DEF CancelFinish
<1>8. WakeType'
    BY DEF CancelFinish, TypeOK, WakeType
<1>9. SharedType'
    BY DEF CancelFinish, TypeOK, SharedType, MaybePrompt
<1>10. SeenType'
    BY <1>6, <1>7 DEF SeenType
<1> QED
    BY <1>3, <1>5, <1>8, <1>9, <1>10, Stutter DEF CancelFinish, TypeOK

LEMMA UnsuppressType ==
    ASSUME TypeOK, Unsuppress
    PROVE  TypeOK'
PROOF
<1>1. notifications_suppressed' \in BOOLEAN
    BY Zenon DEF Unsuppress
<1>2. NoteType'
    BY <1>1 DEF Unsuppress, TypeOK, NoteType
<1>3. LoopType'
    BY TailType DEF Unsuppress, At, TypeOK, LoopType
<1>4. SharedType'
    BY DEF Unsuppress, TypeOK, SharedType
<1>5. SeenType'
    BY DEF Unsuppress, TypeOK, SeenType
<1> QED
    BY <1>2, <1>3, <1>4, <1>5, Stutter DEF Unsuppress, TypeOK

-----------------------------------------------------------------------------
(* Background notifications *)

LEMMA NotificationsType ==
    ASSUME TypeOK,
           \/ \E n \in Notifs : InjectNotification(n)
           \/ \E t : DropMonitorNotifications(t)
    PROVE  TypeOK'
PROOF
<1>1. NotificationStep
    BY DEF InjectNotification, DropMonitorNotifications
<1>2. pending_notifications' \in Seq(Notifs) /\ monitor_event_buffer' \in Seq(Notifs)
    <2>1. \A n \in Notifs : /\ PushCapped(pending_notifications, n) \in Seq(Notifs)
                           /\ PushCapped(monitor_event_buffer, n) \in Seq(Notifs)
        BY PushCappedType DEF TypeOK, NoteType
    <2>2. \A K : Retain(pending_notifications, K) \in Seq(Notifs)
              /\ Retain(monitor_event_buffer, K) \in Seq(Notifs)
        BY RetainNotifs DEF TypeOK, NoteType
    <2>3. CASE \E n \in Notifs : InjectNotification(n)
        BY <2>1, <2>3 DEF InjectNotification, TypeOK, NoteType
    <2>4. CASE \E t : DropMonitorNotifications(t)
        BY <2>2, <2>4 DEF DropMonitorNotifications
    <2> QED
        BY <2>3, <2>4
<1>3. NoteType'
    BY <1>1, <1>2 DEF NotificationStep, TypeOK, NoteType
<1>4. todo' \in Seq(Steps)
    BY StepsType DEF InjectNotification, DropMonitorNotifications, TypeOK, LoopType
<1>5. LoopType'
    BY <1>1, <1>4 DEF NotificationStep, TypeOK, LoopType
<1>6. SharedType'
    BY <1>1 DEF NotificationStep, TypeOK, SharedType
<1>7. SeenType'
    BY <1>1 DEF NotificationStep, TypeOK, SeenType
<1> QED
    BY <1>1, <1>3, <1>5, <1>6, <1>7, Stutter DEF NotificationStep, TypeOK

\* maybe_drain_notifications, drain_notifications_into_turn
LEMMA DrainStepType ==
    ASSUME TypeOK, DrainStep
    PROVE  TypeOK'
PROOF
<1>1. Tail(todo) \in Seq(Steps) /\ <<"start">> \o Tail(todo) \in Seq(Steps)
    BY TailType, StepsType, ConcatHead DEF DrainStep, At
<1>2. todo' \in Seq(Steps)
    BY <1>1 DEF DrainStep
<1>3. pending_inputs' \in Seq(Prompts)
    <2>1. \A p \in Prompts : Append(pending_inputs, p) \in Seq(Prompts)
        BY DEF TypeOK, QueueType
    <2>2. \/ pending_inputs' = pending_inputs
          \/ \E p \in Prompts : pending_inputs' = Append(pending_inputs, p)
        BY DEF DrainStep, DrainIntoTurn, Fresh
    <2> QED
        BY <2>1, <2>2 DEF TypeOK, QueueType
<1>4. fate' \in [Prompts -> Fates]
    <2>1. \A p \in Prompts : [fate EXCEPT ![p] = "pending"] \in [Prompts -> Fates]
        BY DEF TypeOK, SeenType, Fates
    <2>2. fate' = fate \/ \E p \in Prompts : fate' = [fate EXCEPT ![p] = "pending"]
        BY DEF DrainStep, DrainIntoTurn, Fresh
    <2> QED
        BY <2>1, <2>2 DEF TypeOK, SeenType
<1>5. pending_notifications' \in Seq(Notifs) /\ monitor_event_buffer' \in Seq(Notifs)
    <2>1. \/ UNCHANGED <<pending_notifications, monitor_event_buffer>>
          \/ pending_notifications' = <<>> /\ monitor_event_buffer' = <<>>
        BY DEF DrainStep
    <2>2. <<>> \in Seq(Notifs)
        OBVIOUS
    <2> QED
        BY <2>1, <2>2 DEF TypeOK, NoteType
<1>6. reported' \in SUBSET Tasks
    <2>1. \A n \in Range(SweptNotifications) : n \in Notifs
        <3>1. SweptNotifications \in Seq(Notifs)
            BY DEF SweptNotifications, TypeOK, NoteType
        <3> QED
            BY <3>1 DEF Range
    <2>2. \A n \in Range(SweptNotifications) : Source[n] \in Tasks
        BY <2>1, SessionConstants
    <2>3. {Source[n] : n \in Range(SweptNotifications)} \in SUBSET Tasks
        BY <2>2
    <2> QED
        BY <2>3 DEF DrainStep, TypeOK, WakeType
<1>7. QueueType'
    BY <1>3 DEF DrainStep, TypeOK, QueueType
<1>8. NoteType'
    BY <1>5 DEF DrainStep, TypeOK, NoteType
<1>9. WakeType'
    BY <1>6 DEF DrainStep, TypeOK, WakeType
<1>10. LoopType'
    BY <1>2 DEF DrainStep, TypeOK, LoopType
<1>11. SharedType'
    BY DEF DrainStep, TypeOK, SharedType
<1>12. SeenType'
    BY <1>4 DEF DrainStep, TypeOK, SeenType
<1> QED
    BY <1>7, <1>8, <1>9, <1>10, <1>11, <1>12, Stutter DEF DrainStep, TypeOK

-----------------------------------------------------------------------------
(* Turn tasks *)

\* What a turn leaves to the main loop keeps its type.
LEMMA TurnStepType ==
    ASSUME TypeOK, TurnStep
    PROVE  /\ WakeType' /\ LoopType' /\ TaskType'
           /\ pending_inputs' \in Seq(Prompts) => QueueType'
           /\ pending_notifications' \in Seq(Notifs) /\ monitor_event_buffer' \in Seq(Notifs)
                  => NoteType'
           /\ fate' \in [Prompts -> Fates] => SeenType'
PROOF
<1>1. pending_inputs' \in Seq(Prompts) => QueueType'
    BY DEF TurnStep, TypeOK, QueueType
<1>2. pending_notifications' \in Seq(Notifs) /\ monitor_event_buffer' \in Seq(Notifs)
          => NoteType'
    BY DEF TurnStep, TypeOK, NoteType
<1>3. fate' \in [Prompts -> Fates] => SeenType'
    BY DEF TurnStep, TypeOK, SeenType
<1> QED
    BY <1>1, <1>2, <1>3, Stutter DEF TurnStep

\* The steps that touch neither the queue nor the notification buffers
LEMMA PhaseType ==
    ASSUME TypeOK, TurnStep, TurnType', GoalType', SharedType',
           UNCHANGED <<pending_inputs, pending_notifications, monitor_event_buffer, fate>>
    PROVE  TypeOK'
PROOF
<1>1. /\ pending_inputs' \in Seq(Prompts) /\ pending_notifications' \in Seq(Notifs)
      /\ monitor_event_buffer' \in Seq(Notifs) /\ fate' \in [Prompts -> Fates]
    BY DEF TypeOK, QueueType, NoteType, SeenType
<1> QED
    BY <1>1, TurnStepType DEF TypeOK

LEMMA TurnBeginType ==
    ASSUME TypeOK, NEW p \in Prompts, TurnBegin(p)
    PROVE  TypeOK'
PROOF
<1>1. is_turn_active' \in BOOLEAN
    BY Zenon DEF TurnBegin
<1>2. TurnType'
    BY <1>1 DEF TurnBegin, TypeOK, TurnType, Phases, LivePhases
<1>3. SharedType'
    BY DEF TurnBegin, TypeOK, SharedType
<1> QED
    BY <1>2, <1>3, PhaseType, Stutter DEF TurnBegin

LEMMA TurnIndexType ==
    ASSUME TypeOK, NEW p \in Prompts, TurnIndex(p)
    PROVE  TypeOK'
PROOF
<1>1. TurnType'
    BY DEF TurnIndex, TypeOK, TurnType, Phases, LivePhases
<1>2. SharedType'
    BY DEF TurnIndex, TypeOK, SharedType
<1> QED
    BY <1>1, <1>2, PhaseType, Stutter DEF TurnIndex

LEMMA TurnRoundType ==
    ASSUME TypeOK, NEW p \in Prompts, TurnRound(p)
    PROVE  TypeOK'
PROOF
<1>1. TurnType'
    BY DEF TurnRound, TypeOK, TurnType, Phases, LivePhases
<1>2. goal_loop_active' \in BOOLEAN
    BY DEF TurnRound
<1>3. GoalType'
    BY <1>2 DEF TurnRound, TypeOK, GoalType
<1>4. SharedType'
    BY DEF TurnRound, TypeOK, SharedType
<1> QED
    BY <1>1, <1>3, <1>4, PhaseType DEF TurnRound

LEMMA TurnSetsGoalType ==
    ASSUME TypeOK, NEW p \in Prompts, NEW g \in {"active", "paused", "complete"},
           TurnSetsGoal(p, g)
    PROVE  TypeOK'
PROOF
<1>1. GoalType'
    BY DEF TurnSetsGoal, TypeOK, GoalType
<1>2. SharedType'
    BY DEF TurnSetsGoal, TypeOK, SharedType
<1> QED
    BY <1>1, <1>2, PhaseType, Stutter DEF TurnSetsGoal

LEMMA CloseRewindWindowType ==
    ASSUME TypeOK, NEW p \in Prompts, CloseRewindWindow(p)
    PROVE  TypeOK'
PROOF
<1>1. rewindable' \in BOOLEAN
    BY Zenon DEF CloseRewindWindow
<1>2. SharedType'
    BY <1>1 DEF CloseRewindWindow, TypeOK, SharedType
<1> QED
    BY <1>2, PhaseType, Stutter DEF CloseRewindWindow

LEMMA WaitType ==
    ASSUME TypeOK, NEW p \in Prompts,
           \/ WaitEnter(p) \/ WaitExit(p)
           \/ SubagentRequest(p) \/ SubagentEnter(p) \/ SubagentExit
    PROVE  TypeOK'
PROOF
<1>1. waits' \in [Prompts -> Nat]
    BY DEF WaitEnter, WaitExit, SubagentRequest, SubagentEnter, SubagentExit, TypeOK, TurnType
<1>2. blocking_wait_depth' \in Nat
    BY DEF WaitEnter, WaitExit, SubagentRequest, SubagentEnter, SubagentExit, SaturatingDec,
           TypeOK, TurnType
<1>3. spawning' \in SUBSET Prompts /\ subagent_waits' \in Nat
    BY DEF WaitEnter, WaitExit, SubagentRequest, SubagentEnter, SubagentExit, TypeOK, TurnType
<1>4. WaitStep
    BY DEF WaitEnter, WaitExit, SubagentRequest, SubagentEnter, SubagentExit
<1>5. TurnType'
    BY <1>1, <1>2, <1>3, <1>4 DEF WaitStep, TypeOK, TurnType
<1>6. SharedType'
    BY <1>4 DEF WaitStep, TypeOK, SharedType
<1> QED
    BY <1>4, <1>5, <1>6, PhaseType, Stutter DEF WaitStep

LEMMA TurnExitType ==
    ASSUME TypeOK, NEW p \in Prompts, TurnScopeEnd(p) \/ TurnFinish(p) \/ TaskDrop(p)
    PROVE  TypeOK'
PROOF
<1>1. turn' \in [Prompts -> Phases]
    BY DEF TurnScopeEnd, TurnFinish, TaskDrop, TypeOK, TurnType, Phases, LivePhases
<1>2. is_turn_active' \in BOOLEAN
    <2>1. CASE TurnScopeEnd(p)
        BY <2>1 DEF TurnScopeEnd, TypeOK, TurnType
    <2>2. CASE TurnFinish(p)
        BY <2>2, Zenon DEF TurnFinish
    <2>3. CASE TaskDrop(p)
        BY <2>3 DEF TaskDrop
    <2> QED
        BY <2>1, <2>2, <2>3
<1>3. aborting' \in SUBSET Prompts
    BY DEF TurnScopeEnd, TurnFinish, TaskDrop, TypeOK, TurnType
<1>4. TurnType'
    BY <1>1, <1>2, <1>3 DEF TurnScopeEnd, TurnFinish, TaskDrop, TypeOK, TurnType
<1>5. current_prompt_id' \in MaybePrompt
    BY DEF TurnScopeEnd, TurnFinish, TaskDrop, PinWithout, MaybePrompt, TypeOK, SharedType
<1>6. completion_rx' \in Seq(Prompts)
    BY SMTT(20) DEF TurnScopeEnd, TurnFinish, TaskDrop, TypeOK, SharedType
<1>7. SharedType'
    BY <1>5, <1>6 DEF TurnScopeEnd, TurnFinish, TaskDrop, TypeOK, SharedType
<1> QED
    BY <1>4, <1>7, PhaseType, Stutter DEF TurnScopeEnd, TurnFinish, TaskDrop

LEMMA DrainInterjectionsType ==
    ASSUME TypeOK, NEW p \in Prompts, DrainInterjections(p)
    PROVE  TypeOK'
PROOF
<1>1. fate' \in [Prompts -> Fates]
    BY SettleType DEF DrainInterjections, TypeOK, SeenType, Fates
<1>2. SharedType'
    BY DEF DrainInterjections, TypeOK, SharedType
<1>3. /\ pending_inputs' \in Seq(Prompts) /\ pending_notifications' \in Seq(Notifs)
      /\ monitor_event_buffer' \in Seq(Notifs)
    BY DEF DrainInterjections, TypeOK, QueueType, NoteType
<1> QED
    BY <1>1, <1>2, <1>3, TurnStepType, Stutter DEF DrainInterjections, TypeOK

LEMMA InjectMonitorEventsType ==
    ASSUME TypeOK, NEW p \in Prompts, InjectMonitorEvents(p)
    PROVE  TypeOK'
PROOF
<1>1. SharedType'
    BY DEF InjectMonitorEvents, TypeOK, SharedType
<1>2. pending_inputs' \in Seq(Prompts) /\ fate' \in [Prompts -> Fates]
    BY DEF InjectMonitorEvents, TypeOK, QueueType, SeenType
<1>3. pending_notifications' \in Seq(Notifs) /\ monitor_event_buffer' \in Seq(Notifs)
    BY DEF InjectMonitorEvents, TypeOK, NoteType
<1> QED
    BY <1>1, <1>2, <1>3, TurnStepType, Stutter DEF InjectMonitorEvents, TypeOK

LEMMA ConsumeCompletionType ==
    ASSUME TypeOK, NEW p \in Prompts, NEW t, ConsumeCompletion(p, t)
    PROVE  TypeOK'
PROOF
<1>1. pending_inputs' \in Seq(Prompts)
    BY RetainPrompts DEF ConsumeCompletion, TypeOK, QueueType
<1>2. pending_notifications' \in Seq(Notifs) /\ monitor_event_buffer' \in Seq(Notifs)
    BY RetainNotifs DEF ConsumeCompletion, TypeOK, NoteType
<1>3. fate' \in [Prompts -> Fates]
    BY SettleType DEF ConsumeCompletion, TypeOK, SeenType, Fates
<1>4. SharedType'
    BY DEF ConsumeCompletion, TypeOK, SharedType
<1> QED
    BY <1>1, <1>2, <1>3, <1>4, TurnStepType, Stutter DEF ConsumeCompletion, TypeOK

\* SessionCommand::Shutdown
LEMMA ShutdownType ==
    ASSUME TypeOK, Shutdown
    PROVE  TypeOK'
PROOF
<1>1. pending_inputs' \in Seq(Prompts)
    BY RetainPrompts DEF Shutdown, TypeOK, QueueType
<1>2. QueueType'
    BY <1>1 DEF Shutdown, TypeOK, QueueType
<1>3. NoteType'
    BY DEF Shutdown, TypeOK, NoteType
<1>4. stopped' \in BOOLEAN
    BY Zenon DEF Shutdown
<1>5. LoopType'
    BY <1>4 DEF Shutdown, TypeOK, LoopType
<1>6. SharedType'
    BY DEF Shutdown, TypeOK, SharedType
<1>7. fate' \in [Prompts -> Fates]
    BY SettleType DEF Shutdown, TypeOK, SeenType, Fates
<1>8. SeenType'
    BY <1>7 DEF Shutdown, TypeOK, SeenType
<1> QED
    BY <1>2, <1>3, <1>5, <1>6, <1>8, Stutter DEF Shutdown, TypeOK

-----------------------------------------------------------------------------
(* The schedule of a completion *)

\* Schedules that never pop a completion
NoPop(s) == s \in Seq(Steps) /\ \A i \in 1 .. Len(s) : s[i] # "pop"

LEMMA NoPopConcat ==
    ASSUME NEW s, NEW t, NoPop(s), NoPop(t)
    PROVE  NoPop(s \o t)
PROOF
<1>1. s \in Seq(Steps) /\ t \in Seq(Steps)
    BY DEF NoPop
<1>2. s \o t \in Seq(Steps) /\ Len(s \o t) = Len(s) + Len(t)
    BY <1>1
<1>3. ASSUME NEW i \in 1 .. Len(s \o t)
      PROVE  (s \o t)[i] # "pop"
    <2>1. CASE i <= Len(s)
        BY <1>1, <1>2, <2>1 DEF NoPop
    <2>2. CASE i > Len(s)
        <3>1. i - Len(s) \in 1 .. Len(t) /\ (s \o t)[i] = t[i - Len(s)]
            BY <1>1, <1>2, <2>2
        <3> QED
            BY <3>1 DEF NoPop
    <2> QED
        BY <1>1, <1>2, <2>1, <2>2
<1> QED
    BY <1>2, <1>3 DEF NoPop

\* No follow-up of any handler but a completion's own first section is `pop'.
LEMMA StepsHaveNoPop ==
    /\ \A i \in DOMAIN CompletionSteps : i > 1 => CompletionSteps[i] # "pop"
    /\ NoPop(<<"start">>) /\ NoPop(<<"drain">>) /\ NoPop(UserCancelSteps)
    /\ \A c \in BOOLEAN : NoPop(SendNowSteps(c))
PROOF
<1>1. \A i \in DOMAIN CompletionSteps : i > 1 => CompletionSteps[i] # "pop"
    BY DEF CompletionSteps
<1>2. NoPop(CancelSteps)
    <2>1. CancelSteps \in Seq(Steps)
        BY DEF CancelSteps, Steps
    <2> QED
        BY <2>1 DEF NoPop, CancelSteps
<1>3. NoPop(<<"start">>) /\ NoPop(<<"drain">>) /\ NoPop(<<"unsuppress">>)
          /\ NoPop(<<"pauseGoal", "start">>)
    BY DEF NoPop, Steps
<1>4. NoPop(UserCancelSteps)
    BY <1>2, <1>3, NoPopConcat DEF UserCancelSteps
<1>5. NoPop(CancelSteps \o <<"unsuppress">>)
    BY <1>2, <1>3, NoPopConcat
<1>6. NoPop(<<>>)
    BY DEF NoPop
<1>7. NoPop((CancelSteps \o <<"unsuppress">>) \o <<"start">>) /\ NoPop(<<>> \o <<"start">>)
    BY <1>3, <1>5, <1>6, NoPopConcat
<1> QED
    BY <1>1, <1>3, <1>4, <1>7 DEF SendNowSteps

\* What a step may do to the schedule.
LEMMA PopKept ==
    ASSUME TypeOK, PopHasCompletion,
           \/ UNCHANGED <<todo, completion_rx>>
           \/ UNCHANGED todo /\ \E p \in Prompts : completion_rx' = Append(completion_rx, p)
           \/ todo # <<>> /\ todo' = Tail(todo)
           \/ todo # <<>> /\ todo' = <<"start">> \o Tail(todo)
           \/ todo' = CompletionSteps /\ completion_rx # <<>> /\ UNCHANGED completion_rx
           \/ todo' \in {<<"start">>, <<"drain">>, UserCancelSteps}
           \/ \E c \in BOOLEAN : todo' = SendNowSteps(c)
    PROVE  PopHasCompletion'
PROOF
<1> USE DEF PopHasCompletion
<1>1. CASE UNCHANGED <<todo, completion_rx>>
    BY <1>1
<1>2. CASE UNCHANGED todo /\ \E p \in Prompts : completion_rx' = Append(completion_rx, p)
    BY <1>2 DEF TypeOK, SharedType
<1>3. CASE todo # <<>> /\ todo' = Tail(todo)
    BY <1>3 DEF TypeOK, LoopType
<1>4. CASE todo # <<>> /\ todo' = <<"start">> \o Tail(todo)
    BY <1>4 DEF TypeOK, LoopType
<1>5. CASE todo' = CompletionSteps /\ completion_rx # <<>> /\ UNCHANGED completion_rx
    BY <1>5, StepsHaveNoPop
<1>6. CASE todo' \in {<<"start">>, <<"drain">>, UserCancelSteps}
    BY <1>6, StepsHaveNoPop DEF NoPop
<1>7. CASE \E c \in BOOLEAN : todo' = SendNowSteps(c)
    BY <1>7, StepsHaveNoPop DEF NoPop
<1> QED
    BY <1>1, <1>2, <1>3, <1>4, <1>5, <1>6, <1>7

LEMMA CommandPop ==
    ASSUME TypeOK, PopHasCompletion, Command
    PROVE  PopHasCompletion'
PROOF
<1>1. ASSUME NEW p \in Prompts, NEW asked \in BOOLEAN, Prompt(p, asked)
      PROVE  PopHasCompletion'
    <2>1. CancelsTurn(GoesNow(p, asked)) \in BOOLEAN
        BY DEF CancelsTurn
    <2> QED
        BY <1>1, <2>1, PopKept DEF Prompt, ThenRunNext
<1>2. ASSUME NEW p \in Prompts, Interject(p) \/ GoalSummaryTurn(p)
      PROVE  PopHasCompletion'
    BY <1>2, PopKept DEF Interject, GoalSummaryTurn
<1>3. CASE QueueCommand
    <2>1. \/ UNCHANGED <<todo, completion_rx>>
          \/ \E c \in BOOLEAN : todo' = SendNowSteps(c)
        BY <1>3, ZenonT(30) DEF QueueCommand, RemoveQueuedPrompt, ClearQueue, ReorderQueue, EditQueuedPrompt,
                    InterjectQueuedPrompt, EditsOnlyTheQueue, ThenRunNext, CancelsTurn
    <2> QED
        BY <2>1, PopKept
<1>4. CASE RestorePlanApproval
    BY <1>4, PopKept DEF RestorePlanApproval, loopVars
<1>5. ASSUME NEW why, Cancel(why)
      PROVE  PopHasCompletion'
    BY <1>5, PopKept DEF Cancel
<1>6. ASSUME NEW n, InjectNotification(n)
      PROVE  PopHasCompletion'
    BY <1>6, PopKept DEF InjectNotification, NotificationStep
<1>7. ASSUME NEW t, DropMonitorNotifications(t)
      PROVE  PopHasCompletion'
    BY <1>7, PopKept DEF DropMonitorNotifications, NotificationStep
<1>8. CASE Shutdown
    BY <1>8, PopKept DEF Shutdown
<1> QED
    BY <1>1, <1>2, <1>3, <1>4, <1>5, <1>6, <1>7, <1>8 DEF Command

LEMMA MainLoopPop ==
    ASSUME TypeOK, PopHasCompletion, MainLoop
    PROVE  PopHasCompletion'
PROOF
<1>1. CASE Completion
    BY <1>1, PopKept DEF Completion
<1>2. CASE DrainStep
    BY <1>2, PopKept DEF DrainStep, At
<1>3. CASE \/ TurnEnd \/ TurnEndPausesGoal \/ PauseGoal
           \/ \E p \in Prompts : TurnEndContinuesGoal(p)
    BY <1>3, PopKept DEF TurnEnd, TurnEndPausesGoal, PauseGoal, TurnEndContinuesGoal, GoalStep, At
<1>4. CASE PopCompleted \/ FlushStranded \/ StartStep \/ Unsuppress
    BY <1>4, PopKept DEF PopCompleted, FlushStranded, StartStep, Unsuppress, At
<1>5. CASE CancelBegin \/ CancelTake \/ CancelGoal \/ CancelAbort \/ CancelFinish
    BY <1>5, PopKept DEF CancelBegin, CancelTake, CancelGoal, CancelAbort, CancelFinish, At
<1> QED
    BY <1>1, <1>2, <1>3, <1>4, <1>5 DEF MainLoop

LEMMA TaskPop ==
    ASSUME TypeOK, PopHasCompletion, HelperTask \/ \E p \in Prompts : Turn(p)
    PROVE  PopHasCompletion'
PROOF
<1>1. CASE HelperTask
    BY <1>1, PopKept DEF HelperTask, McpInitialized, PlanAbandoned, PlanResumeQueued,
                         PlanResumeStarted, AfterStart, loopVars
<1>2. ASSUME NEW p \in Prompts, Turn(p)
      PROVE  PopHasCompletion'
    <2>1. UNCHANGED todo
        BY <1>2 DEF Turn, TurnProgress, TurnBegin, TurnIndex, TurnScopeEnd, TurnFinish,
                    TaskDrop, WaitExit, WaitEnter, SubagentRequest, SubagentEnter,
                    SubagentExit, WaitStep, TurnRound, CloseRewindWindow, DrainInterjections,
                    InjectMonitorEvents, TurnSetsGoal, ConsumeCompletion, TurnStep, loopVars
    <2>2. completion_rx' = completion_rx \/ completion_rx' = Append(completion_rx, p)
        BY <1>2 DEF Turn, TurnProgress, TurnBegin, TurnIndex, TurnScopeEnd, TurnFinish,
                    TaskDrop, WaitExit, WaitEnter, SubagentRequest, SubagentEnter,
                    SubagentExit, WaitStep, TurnRound, CloseRewindWindow, DrainInterjections,
                    InjectMonitorEvents, TurnSetsGoal, ConsumeCompletion
    <2> QED
        BY <2>1, <2>2, PopKept
<1> QED
    BY <1>1, <1>2

-----------------------------------------------------------------------------
(* Type correctness *)

LEMMA OrdersType == \A order \in Orders : order \in Seq(Prompts)
PROOF
<1>1. \A n \in 0 .. MaxOrder : \A s \in [1 .. n -> Prompts] : s \in Seq(Prompts)
    BY SessionConstants
<1> QED
    BY <1>1 DEF Orders

LEMMA CommandType ==
    ASSUME TypeOK, Command
    PROVE  TypeOK'
PROOF
<1>1. CASE QueueCommand
    <2>1. ASSUME NEW p \in Prompts, NEW owner, NEW v, RemoveQueuedPrompt(p, v, owner)
          PROVE  TypeOK'
        BY <2>1, RemovalType
    <2>2. ASSUME NEW p \in Prompts, NEW owner, NEW v, NEW edited \in BOOLEAN,
                 InterjectQueuedPrompt(p, v, owner, edited)
          PROVE  TypeOK'
        BY <2>2, InterjectQueuedType
    <2>3. ASSUME NEW owner, ClearQueue(owner)
          PROVE  TypeOK'
        BY <2>3, RemovalType
    <2>4. ASSUME NEW order \in Orders, ReorderQueue(order)
          PROVE  TypeOK'
        BY <2>4, OrdersType, ReorderType
    <2>5. ASSUME NEW p \in Prompts, EditQueuedPrompt(p)
          PROVE  TypeOK'
        BY <2>5, EditQueuedType
    <2> QED
        BY <1>1, <2>1, <2>2, <2>3, <2>4, <2>5 DEF QueueCommand
<1>2. ASSUME NEW n \in Notifs, InjectNotification(n)
      PROVE  TypeOK'
    BY <1>2, NotificationsType
<1>3. ASSUME NEW t, DropMonitorNotifications(t)
      PROVE  TypeOK'
    BY <1>3, NotificationsType
<1> QED
    BY <1>1, <1>2, <1>3, PromptType, InterjectType, GoalSummaryTurnType, PlanType, CancelType,
       ShutdownType DEF Command

LEMMA MainLoopType ==
    ASSUME TypeOK, PopHasCompletion, MainLoop
    PROVE  TypeOK'
PROOF
    BY CompletionType, PopCompletedType, TurnEndType, FlushStrandedType, StartersType,
       DrainStepType, CancelBeginType, CancelTakeType, CancelGoalType, CancelAbortType,
       CancelFinishType, UnsuppressType DEF MainLoop

LEMMA HelperTaskType ==
    ASSUME TypeOK, HelperTask
    PROVE  TypeOK'
PROOF
    BY StartersType, PlanType, PlanResumeQueuedType DEF HelperTask

LEMMA TurnTasksType ==
    ASSUME TypeOK, NEW p \in Prompts, Turn(p)
    PROVE  TypeOK'
PROOF
    BY TurnBeginType, TurnIndexType, TurnRoundType, TurnSetsGoalType, CloseRewindWindowType,
       WaitType, TurnExitType, DrainInterjectionsType, InjectMonitorEventsType,
       ConsumeCompletionType DEF Turn, TurnProgress

\* A step that changes nothing keeps the types.
LEMMA StutterType ==
    ASSUME TypeOK, UNCHANGED vars
    PROVE  TypeOK'
PROOF
<1>1. SharedType'
    BY DEF vars, TypeOK, SharedType
<1>2. SeenType'
    BY DEF vars, TypeOK, SeenType
<1> QED
    BY <1>1, <1>2, Stutter DEF vars, TypeOK

\* Every behaviour of the session actor keeps TypeOK, and each completion section finds
\* the completion it was scheduled for: handle_completion never pops an empty channel.
THEOREM TypeCorrect == Spec => []TypeOK /\ []PopHasCompletion
PROOF
<1> DEFINE Inv == TypeOK /\ PopHasCompletion
<1>1. Init => Inv
    <2>1. Init => PopHasCompletion
        BY DEF Init, PopHasCompletion
    <2> QED
        BY <2>1, InitType
<1>2. Inv /\ [Next]_vars => Inv'
    <2> SUFFICES ASSUME TypeOK, PopHasCompletion, [Next]_vars
                 PROVE  TypeOK' /\ PopHasCompletion'
        OBVIOUS
    <2>1. CASE Command
        BY <2>1, CommandType, CommandPop
    <2>2. CASE MainLoop
        BY <2>2, MainLoopType, MainLoopPop
    <2>3. CASE HelperTask
        BY <2>3, HelperTaskType, TaskPop
    <2>4. ASSUME NEW p \in Prompts, Turn(p)
          PROVE  TypeOK' /\ PopHasCompletion'
        BY <2>4, TurnTasksType, TaskPop
    <2>5. CASE UNCHANGED vars
        <3>1. PopHasCompletion'
            BY <2>5, PopKept DEF vars, loopVars
        <3> QED
            BY <2>5, <3>1, StutterType
    <2> QED
        BY <2>1, <2>2, <2>3, <2>4, <2>5 DEF Next
<1> QED
    BY <1>1, <1>2, PTL DEF Spec

-----------------------------------------------------------------------------
(* The front of the queue is the running turn *)

\* What FrontIsRunning asks of a queue q and an occupied slot r.
AtFront(q, r) == q # <<>> /\ Head(q) = r

\* An edit that removes other prompts leaves the running turn in front.
LEMMA RetainFront ==
    ASSUME NEW q \in Seq(Prompts), NEW r, NEW gone, AtFront(q, r), r \notin gone
    PROVE  AtFront(Retain(q, Prompts \ gone), r)
PROOF
<1>1. Head(q) \in Prompts \ gone
    BY DEF AtFront
<1> QED
    BY <1>1, RetainHead DEF AtFront

\* So do an append and the three front inserts.
LEMMA InsertFront ==
    ASSUME NEW q \in Seq(Prompts), NEW r, r # None, AtFront(q, r), NEW p \in Prompts,
           NEW marked, NEW s \in Seq(Prompts)
    PROVE  /\ AtFront(Append(q, p), r)
           /\ AtFront(InsertSendNow(q, r, marked, p), r)
           /\ AtFront(InsertFallback(q, r, p), r)
           /\ AtFront(InsertAllFallbacks(q, r, s), r)
PROOF
<1>1. RunningSlot(q, r) = 1
    BY DEF RunningSlot, AtFront
<1>2. AtFront(Append(q, p), r)
    BY DEF AtFront
<1>3. AtFront(InsertSendNow(q, r, marked, p), r)
    BY <1>1, InsertSendNowType DEF AtFront
<1>4. AtFront(InsertFallback(q, r, p), r)
    BY <1>1, InsertFallbackType DEF AtFront
<1>5. AtFront(InsertAllFallbacks(q, r, s), r)
    BY <1>1, InsertAllFallbacksType DEF AtFront
<1> QED
    BY <1>2, <1>3, <1>4, <1>5

LEMMA QueueInputFront ==
    ASSUME TypeOK, running_task # None, AtFront(pending_inputs, running_task),
           NEW p \in Prompts, NEW asked \in BOOLEAN, QueueInput(p, asked)
    PROVE  AtFront(pending_inputs', running_task')
PROOF
<1> DEFINE kept == Retain(pending_inputs, Prompts \ Preempted(p))
<1>1. running_task \notin Preempted(p)
    BY DEF Preempted, Swept
<1>2. kept \in Seq(Prompts) /\ AtFront(kept, running_task)
    BY <1>1, RetainPrompts, RetainFront DEF TypeOK, QueueType
<1>3. <<>> \in Seq(Prompts)
    OBVIOUS
<1>4. AtFront(Append(kept, p), running_task)
          /\ AtFront(InsertSendNow(kept, running_task, send_now, p), running_task)
    BY <1>2, <1>3, InsertFront
<1>5. UNCHANGED running_task
    BY DEF QueueInput
<1> QED
    BY <1>4, <1>5 DEF QueueInput

\* The promotion puts the front of the queue into the slot.
LEMMA StartFront ==
    ASSUME TypeOK, FrontIsRunning, ~stopped, MaybeStartRunningTask, AfterStart
    PROVE  running_task' # None => AtFront(pending_inputs', running_task')
PROOF
<1>1. CASE running_task = None /\ pending_inputs # <<>>
    BY <1>1 DEF MaybeStartRunningTask, AfterStart, AtFront
<1>2. CASE ~(running_task = None /\ pending_inputs # <<>>)
    BY <1>2 DEF MaybeStartRunningTask, AfterStart, AtFront, FrontIsRunning
<1> QED
    BY <1>1, <1>2

\* A completion pops the front only together with the slot.
LEMMA PopFront ==
    ASSUME TypeOK, FrontIsRunning, ~stopped, PopCompleted
    PROVE  running_task' # None => AtFront(pending_inputs', running_task')
PROOF
<1> DEFINE p == Head(completion_rx)
           owned == pending_inputs # <<>> /\ Head(pending_inputs) = p
<1>1. CASE owned
    BY <1>1 DEF PopCompleted, FreesSlot
<1>2. CASE ~owned
    BY <1>2 DEF PopCompleted, FreesSlot, FrontIsRunning, AtFront
<1> QED
    BY <1>1, <1>2

\* The edits of clients never touch the running turn.
LEMMA QueueCommandFront ==
    ASSUME TypeOK, running_task # None, AtFront(pending_inputs, running_task), QueueCommand
    PROVE  AtFront(pending_inputs', running_task')
PROOF
<1>1. UNCHANGED running_task
    BY DEF QueueCommand, RemoveQueuedPrompt, ClearQueue, ReorderQueue, EditQueuedPrompt,
           InterjectQueuedPrompt, EditsOnlyTheQueue
<1>2. pending_inputs \in Seq(Prompts) /\ <<>> \in Seq(Prompts)
    BY DEF TypeOK, QueueType
<1>3. ASSUME NEW p \in Prompts, NEW v, NEW owner, RemoveQueuedPrompt(p, v, owner)
      PROVE  AtFront(pending_inputs', running_task)
    <2> DEFINE removed == IF RowMatches(p, v, owner) THEN {p} ELSE {}
    <2>1. running_task \notin removed
        BY DEF RowMatches, IsRunningPrompt
    <2>2. pending_inputs' = Retain(pending_inputs, Prompts \ removed)
        BY <1>3 DEF RemoveQueuedPrompt
    <2> QED
        BY <1>2, <2>1, <2>2, RetainFront
<1>4. ASSUME NEW owner, ClearQueue(owner)
      PROVE  AtFront(pending_inputs', running_task)
    <2> DEFINE cleared == Clearable(pending_inputs, running_task, owner)
    <2>1. running_task \notin cleared
        BY DEF Clearable, Reorderable
    <2>2. pending_inputs' = Retain(pending_inputs, Prompts \ cleared)
        BY <1>4 DEF ClearQueue
    <2> QED
        BY <1>2, <2>1, <2>2, RetainFront
<1>5. ASSUME NEW order \in Orders, ReorderQueue(order)
      PROVE  AtFront(pending_inputs', running_task)
    BY <1>2, <1>5, OrdersType, ReorderedType DEF ReorderQueue, AtFront
<1>6. ASSUME NEW p \in Prompts, EditQueuedPrompt(p)
      PROVE  AtFront(pending_inputs', running_task)
    BY <1>6 DEF EditQueuedPrompt
<1>7. ASSUME NEW p \in Prompts, NEW v, NEW owner, NEW edited \in BOOLEAN,
             InterjectQueuedPrompt(p, v, owner, edited)
      PROVE  AtFront(pending_inputs', running_task)
    <2> DEFINE rest == Retain(pending_inputs, Prompts \ {p})
    <2>1. CASE RowMatches(p, v, owner)
        <3>1. running_task \notin {p}
            BY <2>1 DEF RowMatches, IsRunningPrompt
        <3>2. rest \in Seq(Prompts) /\ AtFront(rest, running_task)
            BY <1>2, <3>1, RetainPrompts, RetainFront
        <3>3. AtFront(InsertSendNow(rest, running_task, send_now, p), running_task)
            BY <1>2, <3>2, InsertFront
        <3> QED
            BY <1>7, <2>1, <3>3 DEF InterjectQueuedPrompt
    <2>2. CASE ~RowMatches(p, v, owner)
        BY <1>7, <2>2 DEF InterjectQueuedPrompt
    <2> QED
        BY <2>1, <2>2
<1> QED
    BY <1>1, <1>3, <1>4, <1>5, <1>6, <1>7 DEF QueueCommand

\* The commands, with a turn running
LEMMA CommandFront ==
    ASSUME TypeOK, running_task # None, AtFront(pending_inputs, running_task), Command, ~Shutdown
    PROVE  AtFront(pending_inputs', running_task')
PROOF
<1>1. pending_inputs \in Seq(Prompts) /\ <<>> \in Seq(Prompts)
    BY DEF TypeOK, QueueType
<1>2. ASSUME NEW p \in Prompts, NEW asked \in BOOLEAN, Prompt(p, asked)
      PROVE  AtFront(pending_inputs', running_task')
    BY <1>2, QueueInputFront DEF Prompt
<1>3. ASSUME NEW p \in Prompts, Interject(p)
      PROVE  AtFront(pending_inputs', running_task')
    <2>1. AtFront(InsertFallback(pending_inputs, running_task, p), running_task)
        BY <1>1, InsertFront
    <2> QED
        BY <1>3, <2>1 DEF Interject
<1>4. ASSUME NEW p \in Prompts, GoalSummaryTurn(p)
      PROVE  AtFront(pending_inputs', running_task')
    <2>1. AtFront(Append(pending_inputs, p), running_task)
        BY <1>1, InsertFront
    <2> QED
        BY <1>4, <2>1 DEF GoalSummaryTurn
<1>5. CASE QueueCommand
    BY <1>5, QueueCommandFront
<1>6. CASE RestorePlanApproval \/ \E why \in CancelReasons : Cancel(why)
    BY <1>6 DEF RestorePlanApproval, Cancel, queueVars
<1>7. CASE \/ \E n \in Notifs : InjectNotification(n)
           \/ \E t \in Tasks : DropMonitorNotifications(t)
    BY <1>7 DEF InjectNotification, DropMonitorNotifications, NotificationStep, queueVars
<1> QED
    BY <1>2, <1>3, <1>4, <1>5, <1>6, <1>7 DEF Command

\* Only a promotion fills an empty slot.
LEMMA CommandSlot ==
    ASSUME Command
    PROVE  running_task' = running_task
PROOF
<1>1. CASE QueueCommand
    BY <1>1 DEF QueueCommand, RemoveQueuedPrompt, ClearQueue, ReorderQueue, EditQueuedPrompt,
                InterjectQueuedPrompt, EditsOnlyTheQueue
<1> QED
    BY <1>1 DEF Command, Prompt, QueueInput, Interject, GoalSummaryTurn, RestorePlanApproval, Cancel,
                InjectNotification, DropMonitorNotifications, NotificationStep, Shutdown, queueVars

\* The sections of the main loop, with a turn running before and after
LEMMA MainLoopFront ==
    ASSUME TypeOK, FrontIsRunning, ~stopped, MainLoop
    PROVE  running_task' # None => AtFront(pending_inputs', running_task')
PROOF
<1>1. pending_inputs \in Seq(Prompts) /\ pending_interjections \in Seq(Prompts)
    BY DEF TypeOK, QueueType, SharedType
<1>2. running_task # None => AtFront(pending_inputs, running_task)
    BY DEF FrontIsRunning, AtFront
<1>3. CASE PopCompleted
    BY <1>3, PopFront
<1>4. CASE StartStep
    BY <1>4, StartFront DEF StartStep
<1>5. CASE CancelTake
    BY <1>5 DEF CancelTake
<1>6. CASE FlushStranded
    <2>1. ASSUME running_task # None
          PROVE  AtFront(InsertAllFallbacks(pending_inputs, running_task, pending_interjections),
                         running_task)
        <3>1. running_task \in Prompts
            BY <2>1 DEF TypeOK, QueueType, MaybePrompt
        <3> QED
            BY <1>1, <1>2, <2>1, <3>1, InsertFront
    <2> QED
        BY <1>6, <2>1 DEF FlushStranded
<1>7. ASSUME NEW p \in Prompts, TurnEndContinuesGoal(p)
      PROVE  running_task' # None => AtFront(pending_inputs', running_task')
    <2>1. running_task # None => AtFront(Append(pending_inputs, p), running_task)
        BY <1>1, <1>2, InsertFront
    <2> QED
        BY <1>7, <2>1 DEF TurnEndContinuesGoal, GoalStep
<1>8. CASE DrainStep
    BY <1>2, <1>8 DEF DrainStep, DrainIntoTurn, IsSessionIdle
<1>9. CASE TurnEnd \/ TurnEndPausesGoal \/ PauseGoal
    BY <1>2, <1>9 DEF TurnEnd, TurnEndPausesGoal, PauseGoal, GoalStep
<1>10. CASE Completion \/ CancelBegin \/ CancelGoal \/ CancelAbort \/ CancelFinish \/ Unsuppress
    BY <1>2, <1>10 DEF Completion, CancelBegin, CancelGoal, CancelAbort, CancelFinish, Unsuppress,
                       queueVars
<1> QED
    BY <1>3, <1>4, <1>5, <1>6, <1>7, <1>8, <1>9, <1>10 DEF MainLoop

\* The MCP and plan-approval tasks, which promote beside the main loop
LEMMA HelperTaskFront ==
    ASSUME TypeOK, FrontIsRunning, ~stopped, HelperTask
    PROVE  running_task' # None => AtFront(pending_inputs', running_task')
PROOF
<1>1. running_task # None => AtFront(pending_inputs, running_task)
    BY DEF FrontIsRunning, AtFront
<1>2. CASE McpInitialized \/ PlanResumeStarted
    BY <1>2, StartFront DEF McpInitialized, PlanResumeStarted
<1>3. CASE PlanAbandoned
    BY <1>1, <1>3 DEF PlanAbandoned, queueVars
<1>4. ASSUME NEW p \in Prompts, PlanResumeQueued(p)
      PROVE  running_task' # None => AtFront(pending_inputs', running_task')
    <2>1. QueueInput(p, FALSE) /\ UNCHANGED running_task
        BY <1>4 DEF PlanResumeQueued, QueueInput
    <2> QED
        BY <1>1, <2>1, QueueInputFront
<1> QED
    BY <1>2, <1>3, <1>4 DEF HelperTask

\* Turn tasks, which sweep consumed completions out of the queue
LEMMA TurnFront ==
    ASSUME TypeOK, running_task # None, AtFront(pending_inputs, running_task),
           NEW p \in Prompts, Turn(p)
    PROVE  AtFront(pending_inputs', running_task)
PROOF
<1>1. ASSUME NEW t, ConsumeCompletion(p, t)
      PROVE  AtFront(pending_inputs', running_task)
    <2> DEFINE gone == Swept(pending_inputs, running_task, ConsumedBy(t))
    <2>1. running_task \notin gone
        BY DEF Swept
    <2>2. pending_inputs' = Retain(pending_inputs, Prompts \ gone)
        BY <1>1 DEF ConsumeCompletion
    <2>3. pending_inputs \in Seq(Prompts)
        BY DEF TypeOK, QueueType
    <2> QED
        BY <2>1, <2>2, <2>3, RetainFront
<1>2. CASE \A t \in Tasks : ~ConsumeCompletion(p, t)
    <2>1. pending_inputs' = pending_inputs
        BY <1>2 DEF Turn, TurnProgress, TurnBegin, TurnIndex, TurnScopeEnd, TurnFinish,
                    TaskDrop, WaitExit, WaitEnter, SubagentRequest, SubagentEnter,
                    SubagentExit, WaitStep, TurnRound, CloseRewindWindow, DrainInterjections,
                    InjectMonitorEvents, TurnSetsGoal
    <2> QED
        BY <2>1
<1> QED
    BY <1>1, <1>2

LEMMA TurnKeepsSlot ==
    ASSUME NEW p \in Prompts, Turn(p)
    PROVE  running_task' = running_task /\ stopped' = stopped /\ ~stopped
PROOF
    BY DEF Turn, TurnProgress, TurnBegin, TurnIndex, TurnScopeEnd, TurnFinish, TaskDrop,
           WaitExit, WaitEnter, SubagentRequest, SubagentEnter, SubagentExit, WaitStep,
           TurnRound, CloseRewindWindow, DrainInterjections, InjectMonitorEvents, TurnSetsGoal,
           ConsumeCompletion, TurnStep, loopVars

\* A stopped session takes no command.
LEMMA CommandNeedsLoop ==
    ASSUME Command
    PROVE  ~stopped
PROOF
<1>1. CASE QueueCommand
    BY <1>1 DEF QueueCommand, RemoveQueuedPrompt, ClearQueue, ReorderQueue, EditQueuedPrompt,
                InterjectQueuedPrompt, Ready
<1> QED
    BY <1>1 DEF Command, Prompt, Interject, GoalSummaryTurn, RestorePlanApproval, Cancel,
                InjectNotification, DropMonitorNotifications, Shutdown, Ready

LEMMA LoopNeedsLoop ==
    ASSUME MainLoop \/ HelperTask
    PROVE  ~stopped
PROOF
    BY DEF MainLoop, HelperTask, Completion, PopCompleted, TurnEnd, TurnEndPausesGoal, PauseGoal,
           TurnEndContinuesGoal, FlushStranded, StartStep, DrainStep, CancelBegin, CancelTake,
           CancelGoal, CancelAbort, CancelFinish, Unsuppress, McpInitialized, PlanAbandoned,
           PlanResumeQueued, PlanResumeStarted, At

\* "The in-flight turn is always pending_inputs.front()": for any number of prompts,
\* clients and helper tasks, no edit, sweep, insert, completion, cancel or promotion ever
\* separates the slot from the front of the queue while the session runs.
THEOREM FrontCorrect == Spec => []FrontIsRunning
PROOF
<1>1. Init => FrontIsRunning
    BY DEF Init, FrontIsRunning
<1>2. TypeOK /\ FrontIsRunning /\ [Next]_vars => FrontIsRunning'
    <2> SUFFICES ASSUME TypeOK, FrontIsRunning, [Next]_vars, ~stopped', running_task' # None
                 PROVE  AtFront(pending_inputs', running_task')
        BY DEF FrontIsRunning, AtFront
    <2>1. ~stopped /\ running_task # None => AtFront(pending_inputs, running_task)
        BY DEF FrontIsRunning, AtFront
    <2>2. CASE Command
        <3>1. ~Shutdown
            BY DEF Shutdown
        <3> QED
            BY <2>1, <2>2, <3>1, CommandNeedsLoop, CommandSlot, CommandFront
    <2>3. CASE MainLoop
        BY <2>3, LoopNeedsLoop, MainLoopFront
    <2>4. CASE HelperTask
        BY <2>4, LoopNeedsLoop, HelperTaskFront
    <2>5. ASSUME NEW p \in Prompts, Turn(p)
          PROVE  AtFront(pending_inputs', running_task')
        BY <2>1, <2>5, TurnKeepsSlot, TurnFront
    <2>6. CASE UNCHANGED vars
        BY <2>1, <2>6 DEF vars, queueVars, loopVars
    <2> QED
        BY <2>2, <2>3, <2>4, <2>5, <2>6 DEF Next
<1> QED
    BY <1>1, <1>2, TypeCorrect, PTL DEF Spec

-----------------------------------------------------------------------------
(* What the user typed is never swept away *)

\* Settling prompts with another outcome, or only synthetic ones, drops no user prompt.
LEMMA SettleKeepsUsers ==
    ASSUME NEW f, NEW P, NEW o, NEW p \in Prompts, Settle(f, P, o)[p] \in SweptFates,
           f[p] \in SweptFates => IsSynthetic(p),
           o \notin SweptFates \/ \A x \in P : IsSynthetic(x)
    PROVE  IsSynthetic(p)
PROOF
    BY DEF Settle

LEMMA QueueInputKeepsUsers ==
    ASSUME TypeOK, UserPromptNeverDropped, NEW x \in Prompts, NEW asked \in BOOLEAN,
           QueueInput(x, asked)
    PROVE  UserPromptNeverDropped'
PROOF
<1> DEFINE f == [fate EXCEPT ![x] = "pending"]
<1>1. \A p \in Prompts : f[p] \in SweptFates => IsSynthetic(p)
    BY DEF TypeOK, SeenType, UserPromptNeverDropped, SweptFates
<1>2. \A p \in Preempted(x) : IsSynthetic(p)
    BY DEF Preempted, Swept
<1>3. fate' = Settle(f, Preempted(x), "dropped")
    BY DEF QueueInput
<1> QED
    BY <1>1, <1>2, <1>3, SettleKeepsUsers DEF UserPromptNeverDropped

\* Every other step settles prompts with another outcome, or leaves them alone.
LEMMA OthersKeepUsers ==
    ASSUME TypeOK, UserPromptNeverDropped,
           \/ fate' = fate
           \/ \E x \in Prompts : \E o \in Fates \ SweptFates : fate' = [fate EXCEPT ![x] = o]
           \/ \E P : \E o \in Fates \ SweptFates : fate' = Settle(fate, P, o)
    PROVE  UserPromptNeverDropped'
PROOF
<1>1. CASE fate' = fate
    BY <1>1 DEF UserPromptNeverDropped
<1>2. CASE \E x \in Prompts : \E o \in Fates \ SweptFates : fate' = [fate EXCEPT ![x] = o]
    BY <1>2 DEF TypeOK, SeenType, UserPromptNeverDropped
<1>3. CASE \E P : \E o \in Fates \ SweptFates : fate' = Settle(fate, P, o)
    BY <1>3, SettleKeepsUsers DEF UserPromptNeverDropped
<1> QED
    BY <1>1, <1>2, <1>3

LEMMA CommandKeepsUsers ==
    ASSUME TypeOK, UserPromptNeverDropped, Command
    PROVE  UserPromptNeverDropped'
PROOF
<1> DEFINE Other == Fates \ SweptFates
<1>1. "pending" \in Other /\ "removed" \in Other
    BY DEF Fates, SweptFates
<1>2. ASSUME NEW p \in Prompts, NEW asked \in BOOLEAN, Prompt(p, asked)
      PROVE  UserPromptNeverDropped'
    BY <1>2, QueueInputKeepsUsers DEF Prompt
<1>3. ASSUME NEW p \in Prompts, Interject(p) \/ GoalSummaryTurn(p)
      PROVE  UserPromptNeverDropped'
    BY <1>1, <1>3, OthersKeepUsers DEF Interject, GoalSummaryTurn
<1>4. CASE QueueCommand
    <2>1. fate' = fate \/ \E P : fate' = Settle(fate, P, "removed")
        BY <1>4 DEF QueueCommand, RemoveQueuedPrompt, ClearQueue, ReorderQueue, EditQueuedPrompt,
                    InterjectQueuedPrompt
    <2> QED
        BY <1>1, <2>1, OthersKeepUsers
<1>5. CASE Shutdown
    <2> DEFINE synthetic == {p \in Range(pending_inputs) : IsSynthetic(p)}
    <2>1. fate' = Settle(fate, synthetic, "dropped")
        BY <1>5 DEF Shutdown
    <2> QED
        BY <2>1, SettleKeepsUsers DEF UserPromptNeverDropped
<1>6. CASE \/ RestorePlanApproval \/ \E why \in CancelReasons : Cancel(why)
           \/ \E n \in Notifs : InjectNotification(n)
           \/ \E t \in Tasks : DropMonitorNotifications(t)
    BY <1>6, OthersKeepUsers DEF RestorePlanApproval, Cancel, InjectNotification,
                                 DropMonitorNotifications, NotificationStep
<1> QED
    BY <1>2, <1>3, <1>4, <1>5, <1>6 DEF Command

LEMMA MainLoopKeepsUsers ==
    ASSUME TypeOK, PopHasCompletion, UserPromptNeverDropped, MainLoop
    PROVE  UserPromptNeverDropped'
PROOF
<1> DEFINE Other == Fates \ SweptFates
<1>1. /\ "pending" \in Other /\ "completed" \in Other /\ "cancelled" \in Other
      /\ "rewound" \in Other /\ "cleared" \in Other
    BY DEF Fates, SweptFates
<1>2. CASE PopCompleted
    <2>1. Head(completion_rx) \in Prompts
        BY <1>2 DEF PopCompleted, At, PopHasCompletion, TypeOK, SharedType
    <2>2. fate' = fate \/ fate' = [fate EXCEPT ![Head(completion_rx)] = "completed"]
        BY <1>2 DEF PopCompleted
    <2> QED
        BY <1>1, <2>1, <2>2, OthersKeepUsers
<1>3. CASE CancelBegin
    BY <1>1, <1>3, OthersKeepUsers DEF CancelBegin
<1>4. CASE CancelFinish
    <2>1. cancel.rewound \in MaybePrompt
        BY DEF TypeOK, LoopType, CancelLocals
    <2>2. \/ cancel.rewound \in Prompts /\ fate' = [fate EXCEPT ![cancel.rewound] = "rewound"]
          \/ fate' = Settle(fate, Range(cancel.inputs), "cancelled")
        BY <1>4, <2>1 DEF CancelFinish, MaybePrompt
    <2> QED
        BY <1>1, <2>2, OthersKeepUsers
<1>5. ASSUME NEW p \in Prompts, TurnEndContinuesGoal(p)
      PROVE  UserPromptNeverDropped'
    BY <1>1, <1>5, OthersKeepUsers DEF TurnEndContinuesGoal
<1>6. CASE DrainStep
    <2>1. fate' = fate \/ \E p \in Prompts : fate' = [fate EXCEPT ![p] = "pending"]
        BY <1>6 DEF DrainStep, DrainIntoTurn, Fresh
    <2> QED
        BY <1>1, <2>1, OthersKeepUsers
<1>7. CASE \/ Completion \/ TurnEnd \/ TurnEndPausesGoal \/ PauseGoal \/ FlushStranded
           \/ StartStep \/ CancelTake \/ CancelGoal \/ CancelAbort \/ Unsuppress
    BY <1>7, OthersKeepUsers
       DEF Completion, TurnEnd, TurnEndPausesGoal, PauseGoal, FlushStranded, StartStep, AfterStart,
           CancelTake, CancelGoal, CancelAbort, Unsuppress
<1> QED
    BY <1>2, <1>3, <1>4, <1>5, <1>6, <1>7 DEF MainLoop

LEMMA TaskKeepsUsers ==
    ASSUME TypeOK, UserPromptNeverDropped, HelperTask \/ \E p \in Prompts : Turn(p)
    PROVE  UserPromptNeverDropped'
PROOF
<1>1. CASE McpInitialized \/ PlanAbandoned \/ PlanResumeStarted
    BY <1>1, OthersKeepUsers DEF McpInitialized, PlanAbandoned, PlanResumeStarted, AfterStart
<1>2. ASSUME NEW p \in Prompts, PlanResumeQueued(p)
      PROVE  UserPromptNeverDropped'
    BY <1>2, QueueInputKeepsUsers DEF PlanResumeQueued
<1>3. ASSUME NEW p \in Prompts, Turn(p)
      PROVE  UserPromptNeverDropped'
    <2>1. "merged" \in Fates \ SweptFates
        BY DEF Fates, SweptFates
    <2>2. ASSUME NEW t \in Tasks, ConsumeCompletion(p, t)
          PROVE  UserPromptNeverDropped'
        <3> DEFINE gone == Swept(pending_inputs, running_task, ConsumedBy(t))
        <3>1. \A x \in gone : IsSynthetic(x)
            BY QueueConstants DEF Swept, ConsumedBy, IsSynthetic
        <3>2. fate' = Settle(fate, gone, "consumed")
            BY <2>2 DEF ConsumeCompletion
        <3> QED
            BY <3>1, <3>2, SettleKeepsUsers DEF UserPromptNeverDropped
    <2>3. CASE \A t \in Tasks : ~ConsumeCompletion(p, t)
        <3>1. fate' = fate \/ \E P : fate' = Settle(fate, P, "merged")
            BY <1>3, <2>3
               DEF Turn, TurnProgress, TurnBegin, TurnIndex, TurnScopeEnd, TurnFinish,
                   TaskDrop, WaitExit, WaitEnter, SubagentRequest, SubagentEnter, SubagentExit,
                   WaitStep, TurnRound, CloseRewindWindow, DrainInterjections,
                   InjectMonitorEvents, TurnSetsGoal
        <3> QED
            BY <2>1, <3>1, OthersKeepUsers
    <2> QED
        BY <2>2, <2>3
<1> QED
    BY <1>1, <1>2, <1>3 DEF HelperTask

\* queue_input's preemption, drop_pending_items_for_consumed_completions and
\* drop_pending_synthetic_items discard synthetic prompts only: a message the user typed
\* is answered some other way, in every session.
THEOREM UsersKept == Spec => []UserPromptNeverDropped
PROOF
<1>1. Init => UserPromptNeverDropped
    BY DEF Init, UserPromptNeverDropped, SweptFates
<1>2. TypeOK /\ PopHasCompletion /\ UserPromptNeverDropped /\ [Next]_vars
          => UserPromptNeverDropped'
    <2> SUFFICES ASSUME TypeOK, PopHasCompletion, UserPromptNeverDropped, [Next]_vars
                 PROVE  UserPromptNeverDropped'
        OBVIOUS
    <2>1. CASE UNCHANGED vars
        BY <2>1, OthersKeepUsers DEF vars
    <2> QED
        BY <2>1, CommandKeepsUsers, MainLoopKeepsUsers, TaskKeepsUsers DEF Next
<1> QED
    BY <1>1, <1>2, TypeCorrect, PTL DEF Spec
=============================================================================
