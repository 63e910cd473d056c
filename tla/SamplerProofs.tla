---------------------------- MODULE SamplerProofs ----------------------------
(***************************************************************************)
(* The safety properties of Sampler, for any number of requests, passes    *)
(* and retries.                                                            *)
(*                                                                         *)
(* None of them is inductive.  Whether a late task can charge the budget   *)
(* of a new pass depends on what is in the command channel: the invariant  *)
(* IInv follows a request from its Submit to its end and says that, once   *)
(* no turn waits for it, a Cancel is behind whatever could still start or  *)
(* keep it going, and that a reset follows this Cancel if the next pass    *)
(* has begun (OrphanIsStopped).  So by the time the reset is handled every *)
(* earlier request is stopped, and a stopped request charges at most once: *)
(* for the connection attempt it was in, after which the head of the loop  *)
(* ends it (Charged).  StreamOrder is the same for the event channel:      *)
(* nothing of a request follows its Completed.                             *)
(***************************************************************************)
EXTENDS Sampler, FiniteSetTheorems, TLAPS

\* A command, as Send builds it.
Cmd(op, r) == [op |-> op, req |-> r]

\* A turn that waits, or has waited, has a request.
TurnHasRequest == phase \in {"await", "barrier", "tools"} => cur \in Request

\* Nothing is known yet of the requests to come.
Untouched(r) ==
    /\ task[r] = "none" /\ r \notin token /\ r \notin active
    /\ released[r] = 0
    /\ \A i \in 1 .. Len(cmds) : cmds[i].req # r
    /\ \A i \in 1 .. Len(events) : events[i].req # r

FutureUntouched == \A r \in Request : r > cur => Untouched(r)

\* A request is known to the actor, or its Submit is on its way, once.
Lifecycle ==
    \A r \in Request :
        /\ task[r] = "none" => r \notin token /\ r \notin active
        /\ task[r] # "none" => \A i \in 1 .. Len(cmds) : cmds[i] # Cmd("submit", r)
        /\ reply[r] # "none" => task[r] \in {"done", "joined"}
        /\ task[r] \in Live /\ r \notin token => r \in active
        /\ Awaits(r) => \A i \in 1 .. Len(cmds) : cmds[i] = Cmd("submit", r) => i = Len(cmds)
        /\ \A i, j \in 1 .. Len(cmds) :
               cmds[i] = Cmd("submit", r) /\ cmds[j] = Cmd("submit", r) => i = j

\* The Cancel at i, with a reset behind it once the next pass has begun.
Stop(i, r) ==
    /\ cmds[i] = Cmd("cancel", r)
    /\ phase # "idle" => \E j \in i + 1 .. Len(cmds) : cmds[j] = Cmd("reset", 0)

\* A request that no turn waits for and that runs, or is yet to be started, has
\* its Cancel on the way.
OrphanIsStopped ==
    \A r \in Request : ~Awaits(r) =>
        /\ task[r] \in Live /\ r \notin token => \E i \in 1 .. Len(cmds) : Stop(i, r)
        /\ \A h \in 1 .. Len(cmds) : cmds[h] = Cmd("submit", r) =>
               \E i \in h + 1 .. Len(cmds) : Stop(i, r)

\* The awaited request runs: all that was sent before it has been handled.
AwaitedIsCurrent ==
    \A r \in Request : Awaits(r) /\ task[r] \in Live => ~Pending("reset", 0)

\* The budget is what the operation itself has spent and what requests of
\* earlier turns charged to it: one each, when they left the attempt they were in.
Charged ==
    /\ spent <= MaxRetries
    /\ phase # "idle" /\ Pending("reset", 0) => spent = 0
    /\ phase # "idle" /\ ~Pending("reset", 0) =>
          /\ spent <= budget
          /\ budget <= spent + Cardinality({r \in token : task[r] # "connect"})

\* Completed is the last event of a request, and its barrier is the last one installed.
StreamOrder ==
    /\ slot \in {0, cur}
    /\ \A i \in 1 .. Len(events) : events[i].kind = "completed" =>
          /\ reply[events[i].req] = "ok"
          /\ \A j \in i + 1 .. Len(events) : events[j].req # events[i].req
    /\ cur \in Request => released[cur] <= cur
    /\ cur \in Request /\ released[cur] = cur =>
          /\ reply[cur] = "ok"
          /\ \A i \in 1 .. Len(events) : events[i].req # cur
    /\ phase = "tools" => cur \in late \/ released[cur] # 0

\* The inductive invariant.
IInv == TypeOK /\ TurnHasRequest /\ FutureUntouched /\ Lifecycle /\ OrphanIsStopped
        /\ AwaitedIsCurrent /\ Charged /\ StreamOrder

-----------------------------------------------------------------------------
(* Sequences: what Append and Tail do to the elements. *)

LEMMA AppendAt ==
    ASSUME NEW S, NEW s \in Seq(S), NEW e \in S
    PROVE  /\ Append(s, e) \in Seq(S)
           /\ Len(Append(s, e)) = Len(s) + 1
           /\ \A i \in 1 .. Len(s) : Append(s, e)[i] = s[i]
           /\ Append(s, e)[Len(s) + 1] = e
           /\ Len(s) \in Nat
  OBVIOUS

LEMMA TailAt ==
    ASSUME NEW S, NEW s \in Seq(S), s # <<>>
    PROVE  /\ Tail(s) \in Seq(S)
           /\ Len(s) \in Nat /\ Len(s) >= 1
           /\ Len(Tail(s)) = Len(s) - 1
           /\ \A i \in 1 .. Len(s) - 1 : Tail(s)[i] = s[i + 1]
           /\ Head(s) = s[1] /\ Head(s) \in S
  OBVIOUS

-----------------------------------------------------------------------------
(* The step of a request's task, as the rest of the session sees it. *)

\* The task of r goes to x: what it may have charged, emitted and answered.
TaskDoes(r, x) ==
    /\ task[r] \in Live
    /\ task' = [task EXCEPT ![r] = x]
    /\ UNCHANGED <<cmds, active, token, turnVars, drainVars>>
    /\ IF x = "done" THEN \E y \in Failure \cup {"ok"} : reply' = [reply EXCEPT ![r] = y]
                     ELSE UNCHANGED reply
    /\ x = "connect" => r \notin token
    /\ \/ UNCHANGED <<budget, spent, events>>
       \/ /\ x = "backoff" /\ (r \in token => task[r] = "connect")
          /\ budget < MaxRetries /\ budget' = budget + 1
          /\ spent' = IF Awaits(r) THEN spent + 1 ELSE spent
          /\ UNCHANGED events
       \/ /\ x = "stream" /\ task[r] = "stream" /\ UNCHANGED <<budget, spent>>
          /\ Emit("chunk", r)
       \/ /\ x = "done" /\ r \notin token /\ reply' = [reply EXCEPT ![r] = "ok"]
          /\ budget' = 0
          /\ spent' = IF Awaits(r) THEN 0 ELSE spent
          /\ Emit("completed", r)

\* A step of the task of r, whichever.
AnyTaskStep(r) == TaskStep(r) \/ StreamChunk(r) \/ Connect(r) \/ ConnectFails(r)

LEMMA LoopHeadDoes ==
    ASSUME NEW r \in Request, LoopHead(r), task[r] \in Live,
           UNCHANGED <<cmds, active, token, budget, turnVars, drainVars, events, spent>>
    PROVE  \E x \in {"connect", "stream", "backoff", "done"} : TaskDoes(r, x)
<1> USE DEF turnVars, drainVars, Live, Failure
<1>1. CASE r \in token
  <2>1. TaskDoes(r, "done")
    BY <1>1 DEF LoopHead, Stops, Finish, TaskDoes
  <2> QED BY <2>1
<1>2. CASE r \notin token
  <2>1. TaskDoes(r, "connect")
    BY <1>2 DEF LoopHead, Stops, TaskDoes
  <2> QED BY <2>1
<1> QED BY <1>1, <1>2

LEMMA DecideDoes ==
    ASSUME TypeOK, NEW r \in Request, NEW e \in Error, Decide(r, e),
           task[r] = "connect" \/ (task[r] = "stream" /\ r \notin token),
           UNCHANGED <<cmds, active, token, turnVars, drainVars, events>>
    PROVE  \E x \in {"connect", "stream", "backoff", "done"} : TaskDoes(r, x)
<1> USE DEF turnVars, drainVars, Live, Failure
<1>1. CASE Fail(r, e)
  <2>1. TaskDoes(r, "done")
    BY <1>1 DEF Fail, Finish, Surfaced, TaskDoes
  <2> QED BY <2>1
<1>2. CASE LoopHead(r) /\ UNCHANGED <<budget, limited, spent>>
  BY <1>2, LoopHeadDoes
<1>3. CASE Debit(r) /\ HasRetries
  <2>1. TaskDoes(r, "backoff")
    BY <1>3 DEF Debit, HasRetries, TaskDoes
  <2> QED BY <2>1
<1> QED
  BY <1>1, <1>2, <1>3 DEF Decide

LEMMA TaskStepDoes ==
    ASSUME TypeOK, NEW r \in Request, AnyTaskStep(r)
    PROVE  \E x \in {"connect", "stream", "backoff", "done"} : TaskDoes(r, x)
<1> USE DEF turnVars, drainVars, samplerVars, Live, Failure
<1>1. CASE Begin(r)
  <2>1. CASE Finish(r, "fatal")
    <3>1. TaskDoes(r, "done")
      BY <1>1, <2>1 DEF Begin, Finish, TaskDoes
    <3> QED BY <3>1
  <2> QED BY LoopHeadDoes, <1>1, <2>1 DEF Begin
<1>2. CASE Wake(r)
  BY LoopHeadDoes, <1>2 DEF Wake
<1>3. CASE StreamCancelled(r)
  <2>1. TaskDoes(r, "done")
    BY <1>3 DEF StreamCancelled, Finish, TaskDoes
  <2> QED BY <2>1
<1>4. CASE StreamFails(r)
  <2>1. PICK e \in Error : Decide(r, e)
    BY <1>4 DEF StreamFails
  <2> QED BY <1>4, <2>1, DecideDoes DEF StreamFails
<1>5. CASE StreamDooms(r)
  <2>1. TaskDoes(r, "backoff")
    BY <1>5 DEF StreamDooms, TaskDoes
  <2> QED BY <2>1
<1>6. CASE StreamCompletes(r)
  <2>1. TaskDoes(r, "done")
    BY <1>6 DEF StreamCompletes, Finish, TaskDoes
  <2> QED BY <2>1
<1>7. CASE StreamChunk(r)
  <2>0. task = [task EXCEPT ![r] = "stream"]
    BY <1>7 DEF StreamChunk, TypeOK
  <2>1. TaskDoes(r, "stream")
    BY <1>7, <2>0 DEF StreamChunk, TaskDoes
  <2> QED BY <2>1
<1>8. CASE Connect(r)
  <2>1. TaskDoes(r, "stream")
    BY <1>8 DEF Connect, TaskDoes
  <2> QED BY <2>1
<1>9. CASE ConnectFails(r)
  <2>1. PICK e \in Error : Decide(r, e)
    BY <1>9 DEF ConnectFails
  <2> QED BY <1>9, <2>1, DecideDoes DEF ConnectFails
<1> QED
  BY <1>1, <1>2, <1>3, <1>4, <1>5, <1>6, <1>7, <1>8, <1>9 DEF AnyTaskStep, TaskStep

-----------------------------------------------------------------------------
(* Types. *)

LEMMA SendType ==
    ASSUME cmds \in Seq(Command), NEW op, NEW r, Send(op, r),
           [op |-> op, req |-> r] \in Command
    PROVE  cmds' \in Seq(Command)
  BY AppendAt DEF Send

\* The two halves of TypeOK: what the turn counts, and the rest.
Counts ==
    /\ spent \in Nat
    /\ phase \in {"idle", "ready", "await", "barrier", "tools"}
    /\ passes \in 0 .. Passes /\ cur \in 0 .. Requests /\ auths \in 0 .. AuthMax
    /\ slot \in 0 .. Requests

Tables ==
    /\ cmds \in Seq(Command) /\ events \in Seq(Event)
    /\ active \subseteq Request /\ token \subseteq Request /\ late \subseteq Request
    /\ task \in [Request -> Live \cup {"none", "done", "joined"}]
    /\ budget \in 0 .. MaxRetries
    /\ limited \in [Request -> 0 .. Min(MaxRetries, RateLimitMax)]
    /\ doomed \in [Request -> 0 .. DoomMax]
    /\ images \in [Request -> BOOLEAN]
    /\ streamed \in [Request -> 0 .. MaxChunks]
    /\ reply \in [Request -> Failure \cup {"none", "ok"}]
    /\ released \in [Request -> 0 .. Requests]

LEMMA TypeHalves == TypeOK <=> Counts /\ Tables
  BY DEF TypeOK, Counts, Tables

LEMMA TurnType ==
    ASSUME TypeOK, TurnHasRequest, Turn \/ AbortTurn
    PROVE  TypeOK' /\ TurnHasRequest'
<1> SUFFICES ASSUME Counts, Tables PROVE Counts' /\ Tables' /\ TurnHasRequest'
  BY TypeHalves DEF TypeOK, Counts, Tables
<1>1. CASE StartPass
  <2>1. cmds' \in Seq(Command)
    BY <1>1, SendType DEF StartPass, Command, Tables
  <2>2. Counts' /\ TurnHasRequest'
    BY <1>1, RequestsAssumption, BudgetAssumption DEF StartPass, Counts, TurnHasRequest, drainVars
  <2> QED BY <1>1, <2>1, <2>2 DEF StartPass, Tables, taskVars, drainVars
<1>2. CASE Submit
  <2>0. cur + 1 \in Request
    BY <1>2, RequestsAssumption DEF Submit, Counts, Request
  <2>1. cmds' \in Seq(Command)
    BY <1>2, <2>0, SendType DEF Submit, Command, Tables
  <2>2. Counts' /\ TurnHasRequest'
    BY <1>2, <2>0, RequestsAssumption DEF Submit, Counts, TurnHasRequest, Request
  <2> QED BY <1>2, <2>1, <2>2 DEF Submit, Tables, taskVars
<1>3. CASE TakeResponse
  <2>1. cmds' \in Seq(Command)
    BY <1>3, SendType DEF TakeResponse, Command, Tables, TurnHasRequest
  <2>2. Counts' /\ TurnHasRequest'
    BY <1>3 DEF TakeResponse, Counts, TurnHasRequest, drainVars
  <2> QED BY <1>3, <2>1, <2>2 DEF TakeResponse, Tables, taskVars, drainVars
<1>4. CASE TakeFailure
  <2>1. cmds' \in Seq(Command)
    BY <1>4, SendType DEF TakeFailure, Command, Tables, TurnHasRequest
  <2>2. Counts' /\ TurnHasRequest'
    BY <1>4, RequestsAssumption, BudgetAssumption DEF TakeFailure, Counts, TurnHasRequest
  <2> QED BY <1>4, <2>1, <2>2 DEF TakeFailure, Tables, taskVars
<1>5. CASE PassBarrier
  <2>1. Counts' /\ TurnHasRequest'
    BY <1>5, RequestsAssumption, BudgetAssumption
       DEF PassBarrier, Counts, TurnHasRequest, Request
  <2>2. late' \subseteq Request
    BY <1>5 DEF PassBarrier, Tables, TurnHasRequest
  <2> QED BY <1>5, <2>1, <2>2 DEF PassBarrier, Tables, samplerVars, taskVars
<1>6. CASE FinishTools
  BY <1>6 DEF FinishTools, Counts, Tables, TurnHasRequest, samplerVars, taskVars, drainVars
<1>7. CASE AbortTurn
  <2>1. cmds' \in Seq(Command)
    BY <1>7, SendType DEF AbortTurn, DropGuard, Command, Tables, TurnHasRequest
  <2> QED BY <1>7, <2>1 DEF AbortTurn, Counts, Tables, TurnHasRequest, taskVars, drainVars
<1> QED
  BY <1>1, <1>2, <1>3, <1>4, <1>5, <1>6, <1>7 DEF Turn

LEMMA JoinType ==
    ASSUME TypeOK, TurnHasRequest, NEW r \in Request, Join(r)
    PROVE  TypeOK' /\ TurnHasRequest'
  BY BudgetAssumption, SMTT(20) DEF Join, TypeOK, TurnHasRequest, turnVars, drainVars, Min

LEMMA CommandType ==
    ASSUME TypeOK, TurnHasRequest, HandleCommand
    PROVE  TypeOK' /\ TurnHasRequest'
<1> USE BudgetAssumption DEF turnVars, drainVars
<1>1. cmds' \in Seq(Command) /\ Head(cmds) \in Command
  BY TailAt DEF HandleCommand, TypeOK
<1>2. budget' \in 0 .. MaxRetries
  BY DEF HandleCommand, BudgetAfter, TypeOK
<1>3. /\ active' \subseteq Request /\ token' \subseteq Request
      /\ task' \in [Request -> Live \cup {"none", "done", "joined"}]
  BY <1>1 DEF HandleCommand, TypeOK, Command, Live
<1> QED
  BY <1>1, <1>2, <1>3 DEF HandleCommand, TypeOK, TurnHasRequest

\* The counters of a request stay within their bounds.
LEMMA DecideCounters ==
    ASSUME TypeOK, NEW r \in Request, NEW e \in Error, Decide(r, e)
    PROVE  /\ limited' \in [Request -> 0 .. Min(MaxRetries, RateLimitMax)]
           /\ images' \in [Request -> BOOLEAN]
<1> USE BudgetAssumption
<1>0. /\ limited \in [Request -> 0 .. Min(MaxRetries, RateLimitMax)]
      /\ images \in [Request -> BOOLEAN]
      /\ Min(MaxRetries, RateLimitMax) \in Nat
  BY DEF TypeOK, Min
<1>1. limited' = limited \/ (limited[r] < Min(MaxRetries, RateLimitMax)
                             /\ limited' = [limited EXCEPT ![r] = @ + 1])
  BY DEF Decide, Fail, StripImages
<1>2. images' = images \/ images' = [images EXCEPT ![r] = FALSE]
  BY DEF Decide, Fail, StripImages
<1>3. limited' \in [Request -> 0 .. Min(MaxRetries, RateLimitMax)]
  BY <1>0, <1>1
<1>4. images' \in [Request -> BOOLEAN]
  BY <1>0, <1>2
<1> QED
  BY <1>3, <1>4

LEMMA TaskCounters ==
    ASSUME TypeOK, NEW r \in Request, AnyTaskStep(r)
    PROVE  /\ limited' \in [Request -> 0 .. Min(MaxRetries, RateLimitMax)]
           /\ images' \in [Request -> BOOLEAN]
           /\ doomed' \in [Request -> 0 .. DoomMax]
           /\ streamed' \in [Request -> 0 .. MaxChunks]
<1>1. CASE StreamFails(r) \/ ConnectFails(r)
  BY <1>1, DecideCounters DEF StreamFails, ConnectFails, TypeOK
<1>2. CASE StreamDooms(r)
  <2>1. doomed \in [Request -> 0 .. DoomMax]
    BY DEF TypeOK
  <2>2. doomed' \in [Request -> 0 .. DoomMax]
    BY <1>2, <2>1, BudgetAssumption DEF StreamDooms
  <2> QED BY <1>2, <2>2 DEF StreamDooms, TypeOK
<1>3. CASE StreamChunk(r)
  <2>1. streamed \in [Request -> 0 .. MaxChunks]
    BY DEF TypeOK
  <2>2. streamed' \in [Request -> 0 .. MaxChunks]
    BY <1>3, <2>1, BudgetAssumption DEF StreamChunk
  <2> QED BY <1>3, <2>2 DEF StreamChunk, TypeOK
<1>4. CASE Begin(r) \/ Wake(r) \/ StreamCancelled(r) \/ StreamCompletes(r) \/ Connect(r)
  BY <1>4 DEF Begin, Wake, StreamCancelled, StreamCompletes, Connect, TypeOK
<1> QED BY <1>1, <1>2, <1>3, <1>4 DEF AnyTaskStep, TaskStep

LEMMA TaskType ==
    ASSUME TypeOK, TurnHasRequest, NEW r \in Request, AnyTaskStep(r)
    PROVE  TypeOK' /\ TurnHasRequest'
<1> USE BudgetAssumption DEF turnVars, drainVars
<1>1. PICK x \in {"connect", "stream", "backoff", "done"} : TaskDoes(r, x)
  BY TaskStepDoes
<1>2. events' \in Seq(Event)
  <2>1. [kind |-> "chunk", req |-> r] \in Event /\ [kind |-> "completed", req |-> r] \in Event
    BY DEF Event
  <2>2. events' \in {events, Append(events, [kind |-> "chunk", req |-> r]),
                    Append(events, [kind |-> "completed", req |-> r])}
    BY <1>1 DEF TaskDoes, Emit
  <2>3. events \in Seq(Event)
    BY DEF TypeOK
  <2> QED BY <2>1, <2>2, <2>3, AppendAt
<1>3. budget' \in 0 .. MaxRetries /\ spent' \in Nat
  <2>1. budget \in 0 .. MaxRetries /\ spent \in Nat
    BY DEF TypeOK
  <2>2. /\ budget' = budget \/ budget' = 0 \/ (budget < MaxRetries /\ budget' = budget + 1)
        /\ spent' \in {spent, 0, spent + 1}
    BY <1>1 DEF TaskDoes
  <2> QED BY <2>1, <2>2
<1>4. /\ task' \in [Request -> Live \cup {"none", "done", "joined"}]
      /\ reply' \in [Request -> Failure \cup {"none", "ok"}]
  BY <1>1 DEF TaskDoes, TypeOK, Live
<1>5. UNCHANGED <<cmds, active, token, phase, passes, cur, auths, late, slot, released>>
  BY <1>1 DEF TaskDoes
<1> QED
  BY <1>2, <1>3, <1>4, <1>5, TaskCounters DEF TypeOK, TurnHasRequest

LEMMA DrainType ==
    ASSUME TypeOK, TurnHasRequest, Drain
    PROVE  TypeOK' /\ TurnHasRequest'
<1> USE RequestsAssumption DEF samplerVars, taskVars, turnVars, drainVars
<1>1. events' \in Seq(Event) /\ Head(events) \in Event
  BY TailAt DEF Drain, TypeOK
<1>2. slot' \in 0 .. Requests /\ released' \in [Request -> 0 .. Requests]
  <2>1. slot \in 0 .. Requests /\ released \in [Request -> 0 .. Requests]
    BY DEF TypeOK
  <2>2. Head(events).req \in Request
    BY <1>1 DEF Event
  <2> QED BY <2>1, <2>2, SMTT(20) DEF Drain, Request
<1> QED
  BY <1>1, <1>2 DEF Drain, TypeOK, TurnHasRequest

LEMMA InitType == Init => TypeOK /\ TurnHasRequest
  BY RequestsAssumption, BudgetAssumption
     DEF Init, TypeOK, TurnHasRequest, Min

LEMMA NextCases ==
    Next <=> \/ Turn \/ AbortTurn \/ HandleCommand \/ Drain
             \/ \E r \in Request : Join(r) \/ AnyTaskStep(r)
  BY DEF Next, AnyTaskStep

LEMMA NextType == TypeOK /\ TurnHasRequest /\ [Next]_vars => TypeOK' /\ TurnHasRequest'
<1> SUFFICES ASSUME TypeOK, TurnHasRequest, [Next]_vars PROVE TypeOK' /\ TurnHasRequest'
  OBVIOUS
<1>1. CASE UNCHANGED vars
  BY <1>1 DEF vars, samplerVars, taskVars, turnVars, drainVars, TypeOK, TurnHasRequest
<1> QED
  BY <1>1, NextCases, TurnType, JoinType, CommandType, TaskType, DrainType

\* The sampler's tables, channels and counters keep their types; in particular
\* ConsecutiveRetryBudget never exceeds max_retries.
THEOREM SamplerTypeCorrect == Spec => []TypeOK
<1>1. Spec => [](TypeOK /\ TurnHasRequest)
  BY InitType, NextType, PTL DEF Spec
<1> QED BY <1>1, PTL

-----------------------------------------------------------------------------
(* The protocol between the turn, the actor and the tasks. *)

\* The commands and events of a step, index by index.
Sent(op, r) ==
    /\ Len(cmds') = Len(cmds) + 1
    /\ \A i \in 1 .. Len(cmds) : cmds'[i] = cmds[i]
    /\ cmds'[Len(cmds) + 1] = Cmd(op, r)
    /\ Len(cmds) \in Nat

Taken ==
    /\ Len(cmds) \in Nat /\ Len(cmds) >= 1
    /\ Len(cmds') = Len(cmds) - 1
    /\ \A i \in 1 .. Len(cmds) - 1 : cmds'[i] = cmds[i + 1]
    /\ Head(cmds) = cmds[1] /\ Head(cmds) \in Command

LEMMA SendSent ==
    ASSUME TypeOK, NEW op, NEW r, Send(op, r), Cmd(op, r) \in Command
    PROVE  Sent(op, r)
  BY AppendAt DEF Send, Sent, Cmd, TypeOK

LEMMA HandleTaken == ASSUME TypeOK, HandleCommand PROVE Taken
  BY TailAt DEF HandleCommand, Taken, TypeOK

LEMMA CommandFields ==
    /\ \A r : Cmd("submit", r).op = "submit" /\ Cmd("submit", r).req = r
    /\ \A r : Cmd("cancel", r).op = "cancel" /\ Cmd("cancel", r).req = r
    /\ Cmd("reset", 0).op = "reset" /\ Cmd("reset", 0).req = 0
    /\ \A r \in Request : Cmd("submit", r) \in Command /\ Cmd("cancel", r) \in Command
    /\ Cmd("reset", 0) \in Command
    /\ \A c \in Command : /\ c.op = "submit" => c = Cmd("submit", c.req) /\ c.req \in Request
                          /\ c.op = "cancel" => c = Cmd("cancel", c.req) /\ c.req \in Request
                          /\ c.op = "reset" => c = Cmd("reset", 0)
                          /\ c.op \in {"submit", "cancel", "reset"}
  BY DEF Cmd, Command

\* What the turn sends, for all of its steps.
LEMMA TurnSends ==
    ASSUME TypeOK, TurnHasRequest, Turn \/ AbortTurn
    PROVE  /\ StartPass => Sent("reset", 0)
           /\ Submit => Sent("submit", cur + 1) /\ cur + 1 \in Request
           /\ TakeResponse \/ TakeFailure => Sent("cancel", cur) /\ cur \in Request
           /\ AbortTurn /\ phase = "await" => Sent("cancel", cur) /\ cur \in Request
           /\ AbortTurn /\ phase # "await" => UNCHANGED cmds
<1>1. ASSUME Submit PROVE cur + 1 \in Request
  BY <1>1, RequestsAssumption, TypeHalves DEF Submit, Counts, Request
<1> QED
  BY <1>1, SendSent, CommandFields
     DEF StartPass, Submit, TakeResponse, TakeFailure, AbortTurn, DropGuard, TurnHasRequest

-----------------------------------------------------------------------------
(* FutureUntouched *)

LEMMA TaskFuture ==
    ASSUME TypeOK, FutureUntouched, NEW r \in Request, NEW x, TaskDoes(r, x)
    PROVE  FutureUntouched'
<1> SUFFICES ASSUME NEW q \in Request, q > cur PROVE Untouched(q)'
  BY DEF FutureUntouched, TaskDoes, turnVars
<1>1. Untouched(q) /\ q # r
  BY DEF FutureUntouched, TaskDoes, Untouched, Live
<1>2. events' = events \/ \E k \in {"chunk", "completed"} : Emit(k, r)
  BY DEF TaskDoes
<1>3. \A i \in 1 .. Len(events') : events'[i].req # q
  <2>1. CASE events' = events
    BY <1>1, <2>1 DEF Untouched
  <2>2. CASE \E k \in {"chunk", "completed"} : Emit(k, r)
    <3>1. PICK e \in Event : events' = Append(events, e) /\ e.req = r
      BY <2>2 DEF Emit, Event
    <3>2. events \in Seq(Event)
      BY DEF TypeOK
    <3> QED BY <1>1, <3>1, <3>2, AppendAt DEF Untouched
  <2> QED BY <1>2, <2>1, <2>2
<1>4. task'[q] = task[q]
  BY <1>1 DEF TaskDoes, TypeOK
<1> QED
  BY <1>1, <1>3, <1>4 DEF Untouched, TaskDoes, drainVars

LEMMA TurnFuture ==
    ASSUME TypeOK, TurnHasRequest, FutureUntouched, Turn \/ AbortTurn
    PROVE  FutureUntouched'
<1>0. cur \in Nat
  BY TypeHalves DEF Counts
<1> USE DEF FutureUntouched, Untouched
<1>1. CASE StartPass
  BY <1>1, <1>0, TurnSends, CommandFields DEF StartPass, Sent, taskVars, drainVars, Request
<1>2. CASE Submit
  BY <1>2, <1>0, TurnSends, CommandFields DEF Submit, Sent, taskVars, Request
<1>3. CASE TakeResponse
  BY <1>3, <1>0, TurnSends, CommandFields DEF TakeResponse, Sent, taskVars, drainVars, Request
<1>4. CASE TakeFailure
  BY <1>4, <1>0, TurnSends, CommandFields DEF TakeFailure, Sent, taskVars, Request
<1>5. CASE PassBarrier
  BY <1>5 DEF PassBarrier, samplerVars, taskVars
<1>6. CASE FinishTools
  BY <1>6 DEF FinishTools, samplerVars, taskVars, drainVars
<1>7. CASE AbortTurn
  BY <1>7, <1>0, TurnSends, CommandFields DEF AbortTurn, Sent, taskVars, drainVars, Request
<1> QED
  BY <1>1, <1>2, <1>3, <1>4, <1>5, <1>6, <1>7 DEF Turn

LEMMA CommandFuture ==
    ASSUME TypeOK, FutureUntouched, HandleCommand
    PROVE  FutureUntouched'
<1> SUFFICES ASSUME NEW q \in Request, q > cur PROVE Untouched(q)'
  BY DEF FutureUntouched, HandleCommand, turnVars
<1>1. Untouched(q)
  BY DEF FutureUntouched
<1>2. Taken
  BY HandleTaken
<1>3. Head(cmds).req # q
  BY <1>1, <1>2 DEF Untouched, Taken
<1>4. \A i \in 1 .. Len(cmds') : cmds'[i].req # q
  BY <1>1, <1>2 DEF Untouched, Taken
<1>5. task'[q] = task[q] /\ q \notin token' /\ q \notin active'
  BY <1>1, <1>3 DEF HandleCommand, Untouched, TypeOK
<1> QED
  BY <1>1, <1>4, <1>5 DEF Untouched, HandleCommand, drainVars

LEMMA JoinFuture ==
    ASSUME TypeOK, FutureUntouched, NEW r \in Request, Join(r)
    PROVE  FutureUntouched'
  BY DEF FutureUntouched, Untouched, Join, TypeOK, turnVars, drainVars

LEMMA DrainFuture ==
    ASSUME TypeOK, FutureUntouched, Drain, slot \in {0, cur}
    PROVE  FutureUntouched'
<1> SUFFICES ASSUME NEW q \in Request, q > cur PROVE Untouched(q)'
  BY DEF FutureUntouched, Drain, turnVars
<1>1. Untouched(q)
  BY DEF FutureUntouched
<1>2. events \in Seq(Event) /\ events # <<>> /\ events' = Tail(events)
  BY DEF Drain, TypeOK
<1>3. \A i \in 1 .. Len(events') : events'[i].req # q
  BY <1>1, <1>2, TailAt DEF Untouched
<1>4. q # slot
  BY RequestsAssumption, TypeHalves DEF Request, Counts
<1>5. released'[q] = released[q]
  BY <1>4 DEF Drain, TypeOK, drainVars
<1> QED
  BY <1>1, <1>3, <1>5 DEF Untouched, Drain, samplerVars, taskVars

-----------------------------------------------------------------------------
(* Lifecycle *)

LEMMA TaskLifecycle ==
    ASSUME TypeOK, Lifecycle, NEW r \in Request, NEW x \in {"connect", "stream", "backoff", "done"},
           TaskDoes(r, x)
    PROVE  Lifecycle'
<1> SUFFICES ASSUME NEW q \in Request PROVE Lifecycle!(q)'
  BY DEF Lifecycle
<1>0. UNCHANGED <<cmds, active, token, phase, cur>>
  BY DEF TaskDoes, turnVars
<1>1. CASE q # r
  <2>1. task'[q] = task[q] /\ reply'[q] = reply[q]
    BY <1>1 DEF TaskDoes, TypeOK
  <2> QED BY <1>0, <2>1 DEF Lifecycle, Awaits
<1>2. CASE q = r
  <2>1. task'[r] = x /\ task[r] \in Live
    BY DEF TaskDoes, TypeOK
  <2>2. reply'[r] # "none" => x = "done"
    <3>1. task[r] \notin {"done", "joined"}
      BY <2>1 DEF Live
    <3>2. reply[r] = "none"
      BY <3>1 DEF Lifecycle
    <3> QED BY <3>2 DEF TaskDoes
  <2> QED BY <1>0, <1>2, <2>1, <2>2 DEF Lifecycle, Awaits, Live
<1> QED BY <1>1, <1>2

LEMMA TurnLifecycle ==
    ASSUME TypeOK, TurnHasRequest, FutureUntouched, Lifecycle, Turn \/ AbortTurn
    PROVE  Lifecycle'
<1>0. cur \in Nat /\ Len(cmds) \in Nat
  BY TypeHalves DEF Counts, Tables
<1>1. CASE StartPass
  BY <1>1, <1>0, TurnSends, CommandFields DEF StartPass, Sent, taskVars, Lifecycle, Awaits
<1>2. CASE Submit
  <2> SUFFICES ASSUME NEW q \in Request PROVE Lifecycle!(q)'
    BY DEF Lifecycle
  <2>1. Sent("submit", cur + 1)
    BY <1>2, TurnSends
  <2>2. UNCHANGED <<active, token, task, reply>> /\ cur' = cur + 1
    BY <1>2 DEF Submit, taskVars
  <2>3. CASE q = cur + 1
    <3>1. q > cur
      BY <2>3, <1>0
    <3>2. Untouched(q)
      BY <3>1 DEF FutureUntouched
    <3>3. \A i \in 1 .. Len(cmds') : cmds'[i] = Cmd("submit", q) => i = Len(cmds')
      BY <1>0, <2>1, <3>2, CommandFields DEF Sent, Untouched
    <3> QED BY <2>2, <3>2, <3>3 DEF Untouched, Lifecycle
  <2>4. CASE q # cur + 1
    <3>1. ~Awaits(q)'
      BY <2>2, <2>4 DEF Awaits
    <3>2. task[q] # "none" => \A i \in 1 .. Len(cmds') : cmds'[i] # Cmd("submit", q)
      BY <1>0, <2>1, <2>4, CommandFields DEF Sent, Lifecycle
    <3>3. \A i, j \in 1 .. Len(cmds') :
              cmds'[i] = Cmd("submit", q) /\ cmds'[j] = Cmd("submit", q) => i = j
      BY <1>0, <2>1, <2>4, CommandFields DEF Sent, Lifecycle
    <3> QED BY <2>2, <3>1, <3>2, <3>3 DEF Lifecycle
  <2> QED BY <2>3, <2>4
<1>3. CASE TakeResponse
  BY <1>3, <1>0, TurnSends, CommandFields, SMTT(20) DEF TakeResponse, Sent, taskVars, Lifecycle, Awaits
<1>4. CASE TakeFailure
  <2>1. phase' # "await"
    BY <1>4 DEF TakeFailure
  <2> QED
    BY <1>4, <2>1, <1>0, TurnSends, CommandFields, SMTT(20) DEF TakeFailure, Sent, taskVars, Lifecycle, Awaits
<1>5. CASE PassBarrier
  BY <1>5 DEF PassBarrier, samplerVars, taskVars, Lifecycle, Awaits
<1>6. CASE FinishTools
  <2>1. phase' # "await"
    BY <1>6 DEF FinishTools
  <2> QED BY <1>6, <2>1 DEF FinishTools, samplerVars, taskVars, drainVars, Lifecycle, Awaits
<1>7. CASE AbortTurn
  BY <1>7, <1>0, TurnSends, CommandFields, SMTT(20) DEF AbortTurn, Sent, taskVars, Lifecycle, Awaits
<1> QED
  BY <1>1, <1>2, <1>3, <1>4, <1>5, <1>6, <1>7 DEF Turn

LEMMA CommandLifecycle ==
    ASSUME TypeOK, Lifecycle, HandleCommand
    PROVE  Lifecycle'
<1> SUFFICES ASSUME NEW q \in Request PROVE Lifecycle!(q)'
  BY DEF Lifecycle
<1> DEFINE c == Head(cmds)
<1>0. Taken
  BY HandleTaken
<1>1. UNCHANGED <<reply, phase, cur>>
  BY DEF HandleCommand, turnVars
<1>2. c = cmds[1] /\ c \in Command
  BY <1>0 DEF Taken
<1>3. Awaits(q) => \A i \in 1 .. Len(cmds') : cmds'[i] = Cmd("submit", q) => i = Len(cmds')
  BY <1>0 DEF Taken, Lifecycle
<1>6. \A i, j \in 1 .. Len(cmds') :
          cmds'[i] = Cmd("submit", q) /\ cmds'[j] = Cmd("submit", q) => i = j
  BY <1>0 DEF Taken, Lifecycle
<1>4. CASE c = Cmd("submit", q)
  <2>1. task[q] = "none" /\ reply[q] = "none" /\ q \notin token
    BY <1>0, <1>2, <1>4 DEF Lifecycle, Taken
  <2>2. task'[q] = "new" /\ q \in active' /\ token' = token
    BY <1>4, CommandFields DEF HandleCommand, TypeOK
  <2>3. \A i \in 1 .. Len(cmds') : cmds'[i] # Cmd("submit", q)
    BY <1>0, <1>2, <1>4 DEF Lifecycle, Taken
  <2> QED BY <1>1, <1>3, <1>6, <2>1, <2>2, <2>3 DEF Lifecycle, Awaits, Live
<1>5. CASE c # Cmd("submit", q)
  <2>0. ~(c.op = "submit" /\ c.req = q)
    BY <1>2, <1>5, CommandFields
  <2>1. task'[q] = task[q]
    BY <2>0 DEF HandleCommand, TypeOK
  <2>2. \A i \in 1 .. Len(cmds') : task[q] # "none" => cmds'[i] # Cmd("submit", q)
    BY <1>0 DEF Lifecycle, Taken
  <2>3. /\ q \in token' => q \in token \/ q \in active
        /\ q \in active' => q \in active
        /\ q \in active => q \in active' \/ q \in token'
        /\ q \in token => q \in token'
    BY <1>2, <1>5, CommandFields DEF HandleCommand
  <2> QED BY <1>1, <1>3, <1>6, <2>1, <2>2, <2>3 DEF Lifecycle, Awaits
<1> QED BY <1>4, <1>5

LEMMA JoinLifecycle ==
    ASSUME TypeOK, Lifecycle, NEW r \in Request, Join(r)
    PROVE  Lifecycle'
  BY SMTT(20) DEF Lifecycle, Join, TypeOK, turnVars, Awaits, Live

LEMMA DrainLifecycle == ASSUME Lifecycle, Drain PROVE Lifecycle'
  BY DEF Lifecycle, Drain, samplerVars, taskVars, turnVars, Awaits

-----------------------------------------------------------------------------
(* OrphanIsStopped and AwaitedIsCurrent *)

LEMMA StopShift ==
    ASSUME Taken, UNCHANGED phase, NEW r, NEW i \in 2 .. Len(cmds), Stop(i, r)
    PROVE  i - 1 \in 1 .. Len(cmds') /\ Stop(i - 1, r)'
<1>1. Len(cmds) \in Nat /\ Len(cmds') = Len(cmds) - 1
      /\ \A k \in 1 .. Len(cmds) - 1 : cmds'[k] = cmds[k + 1]
  BY DEF Taken
<1>2. i - 1 \in 1 .. Len(cmds) - 1 /\ (i - 1) + 1 = i
  BY <1>1
<1>3. cmds'[i - 1] = Cmd("cancel", r)
  BY <1>1, <1>2 DEF Stop
<1>4. ASSUME phase # "idle"
      PROVE  \E j \in (i - 1) + 1 .. Len(cmds') : cmds'[j] = Cmd("reset", 0)
  <2>1. PICK j \in i + 1 .. Len(cmds) : cmds[j] = Cmd("reset", 0)
    BY <1>4 DEF Stop
  <2>2. j - 1 \in 1 .. Len(cmds) - 1 /\ (j - 1) + 1 = j /\ j - 1 \in (i - 1) + 1 .. Len(cmds')
    BY <1>1, <2>1
  <2>3. cmds'[j - 1] = Cmd("reset", 0)
    BY <1>1, <2>1, <2>2
  <2> QED BY <2>2, <2>3
<1> QED
  BY <1>1, <1>2, <1>3, <1>4 DEF Stop

LEMMA StopKeeps ==
    ASSUME NEW op, NEW q, Sent(op, q), NEW r, NEW i \in 1 .. Len(cmds), Stop(i, r),
           phase = "idle" => (phase' = "idle" \/ (op = "reset" /\ q = 0))
    PROVE  i \in 1 .. Len(cmds') /\ Stop(i, r)'
<1>1. /\ Len(cmds) \in Nat /\ Len(cmds') = Len(cmds) + 1
      /\ \A k \in 1 .. Len(cmds) : cmds'[k] = cmds[k]
      /\ cmds'[Len(cmds) + 1] = Cmd(op, q)
  BY DEF Sent
<1>2. ASSUME phase' # "idle"
      PROVE  \E j \in i + 1 .. Len(cmds') : cmds'[j] = Cmd("reset", 0)
  <2>1. CASE phase # "idle"
    <3>1. PICK j \in i + 1 .. Len(cmds) : cmds[j] = Cmd("reset", 0)
      BY <2>1 DEF Stop
    <3>2. j \in 1 .. Len(cmds) /\ j \in i + 1 .. Len(cmds')
      BY <1>1, <3>1
    <3> QED BY <1>1, <3>1, <3>2
  <2>2. CASE phase = "idle"
    BY <1>1, <1>2, <2>2
  <2> QED BY <2>1, <2>2
<1> QED
  BY <1>1, <1>2 DEF Stop

\* A request that was stopped before a command was sent is so afterwards.
LEMMA StoppedKeeps ==
    ASSUME NEW op, NEW q, Sent(op, q), NEW r, op # "submit" \/ q # r,
           phase = "idle" => (phase' = "idle" \/ (op = "reset" /\ q = 0)),
           UNCHANGED <<task, token>>, OrphanIsStopped!(r), ~Awaits(r)
    PROVE  OrphanIsStopped!(r)'
<1>0. /\ Len(cmds) \in Nat /\ Len(cmds') = Len(cmds) + 1
      /\ \A k \in 1 .. Len(cmds) : cmds'[k] = cmds[k]
      /\ cmds'[Len(cmds) + 1] = Cmd(op, q)
  BY DEF Sent
<1>1. task'[r] \in Live /\ r \notin token' => \E i \in 1 .. Len(cmds') : Stop(i, r)'
  BY StopKeeps
<1>2. ASSUME NEW h \in 1 .. Len(cmds'), cmds'[h] = Cmd("submit", r)
      PROVE  \E i \in h + 1 .. Len(cmds') : Stop(i, r)'
  <2>1. h # Len(cmds) + 1
    BY <1>0, <1>2 DEF Cmd
  <2>2. h \in 1 .. Len(cmds) /\ cmds[h] = Cmd("submit", r)
    BY <1>0, <1>2, <2>1
  <2>3. PICK i \in h + 1 .. Len(cmds) : Stop(i, r)
    BY <2>2
  <2>4. i \in 1 .. Len(cmds)
    BY <2>3, <1>0
  <2>5. i \in 1 .. Len(cmds') /\ Stop(i, r)'
    BY <2>3, <2>4, StopKeeps
  <2> QED BY <2>3, <2>5
<1> QED BY <1>1, <1>2

LEMMA TaskOrphan ==
    ASSUME TypeOK, OrphanIsStopped, AwaitedIsCurrent, NEW r \in Request,
           NEW x \in {"connect", "stream", "backoff", "done"}, TaskDoes(r, x)
    PROVE  OrphanIsStopped' /\ AwaitedIsCurrent'
<1>1. UNCHANGED <<cmds, token, phase, cur>>
  BY DEF TaskDoes, turnVars
<1>2. \A q \in Request : task'[q] \in Live => task[q] \in Live
  BY DEF TaskDoes, TypeOK
<1>3. \A q, i : Stop(i, q)' <=> Stop(i, q)
  BY <1>1 DEF Stop
<1> QED
  BY <1>1, <1>2, <1>3 DEF OrphanIsStopped, AwaitedIsCurrent, Awaits, Pending

LEMMA TurnOrphan ==
    ASSUME TypeOK, TurnHasRequest, FutureUntouched, Lifecycle, OrphanIsStopped,
           Turn \/ AbortTurn
    PROVE  OrphanIsStopped'
<1> SUFFICES ASSUME NEW r \in Request PROVE OrphanIsStopped!(r)'
  BY DEF OrphanIsStopped
<1>0. Len(cmds) \in Nat /\ OrphanIsStopped!(r) /\ cur \in Nat
  BY TypeHalves DEF OrphanIsStopped, Tables, Counts
<1>1. CASE StartPass
  <2>1. Sent("reset", 0) /\ UNCHANGED <<task, token>> /\ ~Awaits(r)
    BY <1>1, TurnSends DEF StartPass, taskVars, Awaits
  <2> QED BY <1>0, <2>1, StoppedKeeps
<1>2. CASE Submit
  <2>1. Sent("submit", cur + 1) /\ UNCHANGED <<task, token>> /\ ~Awaits(r) /\ phase = "ready"
    BY <1>2, TurnSends DEF Submit, taskVars, Awaits
  <2>2. CASE r # cur + 1
    BY <1>0, <2>1, <2>2, StoppedKeeps
  <2>3. CASE r = cur + 1
    BY <1>2, <2>3 DEF Submit, Awaits
  <2> QED BY <2>2, <2>3
<1>3. CASE TakeResponse \/ TakeFailure
  <2>1. /\ Sent("cancel", cur) /\ UNCHANGED <<task, token>> /\ cur' = cur
        /\ phase = "await" /\ reply[cur] # "none" /\ cur \in Request
    BY <1>3, TurnSends DEF TakeResponse, TakeFailure, taskVars, Failure
  <2>2. CASE r # cur
    <3>1. ~Awaits(r)
      BY <2>2 DEF Awaits
    <3> QED BY <1>0, <2>1, <3>1, StoppedKeeps
  <2>3. CASE r = cur
    <3>1. task[r] \in {"done", "joined"} /\ \A i \in 1 .. Len(cmds) : cmds[i] # Cmd("submit", r)
      BY <2>1, <2>3 DEF Lifecycle
    <3>2. \A i \in 1 .. Len(cmds') : cmds'[i] # Cmd("submit", r)
      BY <1>0, <2>1, <3>1, CommandFields DEF Sent
    <3> QED BY <2>1, <3>1, <3>2 DEF Live
  <2> QED BY <2>2, <2>3
<1>4. CASE PassBarrier \/ FinishTools
  <2>1. UNCHANGED <<cmds, task, token>> /\ phase # "idle" /\ ~Awaits(r)
    BY <1>4 DEF PassBarrier, FinishTools, samplerVars, taskVars, Awaits
  <2>2. \A i : Stop(i, r) => Stop(i, r)'
    BY <2>1 DEF Stop
  <2> QED BY <1>0, <2>1, <2>2
<1>5. CASE AbortTurn
  <2>1. UNCHANGED <<task, token, cur>> /\ phase' = "idle" /\ phase # "idle"
    BY <1>5 DEF AbortTurn, taskVars
  <2>2. CASE phase = "await" /\ r = cur
    <3>1. Sent("cancel", r)
      BY <1>5, <2>2, TurnSends
    <3>2. PICK n \in Nat : n = Len(cmds) + 1
      BY <1>0
    <3>3. n \in 1 .. Len(cmds') /\ Stop(n, r)'
      BY <1>0, <2>1, <3>1, <3>2 DEF Sent, Stop
    <3>4. \A h \in 1 .. Len(cmds') : cmds'[h] = Cmd("submit", r) => n \in h + 1 .. Len(cmds')
      BY <1>0, <3>1, <3>2, CommandFields DEF Sent
    <3> QED BY <3>3, <3>4
  <2>3. CASE phase = "await" /\ r # cur
    <3>1. Sent("cancel", cur) /\ ~Awaits(r)
      BY <1>5, <2>3, TurnSends DEF Awaits
    <3> QED BY <1>0, <2>1, <3>1, StoppedKeeps
  <2>4. CASE phase # "await"
    <3>1. UNCHANGED cmds /\ ~Awaits(r)
      BY <1>5, <2>4, TurnSends DEF Awaits
    <3>2. \A i : Stop(i, r) => Stop(i, r)'
      BY <2>1, <3>1 DEF Stop
    <3> QED BY <1>0, <2>1, <3>1, <3>2
  <2> QED BY <2>2, <2>3, <2>4
<1> QED
  BY <1>1, <1>2, <1>3, <1>4, <1>5 DEF Turn

LEMMA TurnCurrent ==
    ASSUME TypeOK, TurnHasRequest, FutureUntouched, AwaitedIsCurrent, Turn \/ AbortTurn
    PROVE  AwaitedIsCurrent'
<1>1. CASE Submit
  <2>1. UNCHANGED task /\ cur' = cur + 1 /\ cur \in Nat
    BY <1>1, TypeHalves DEF Submit, taskVars, Counts
  <2>2. \A r \in Request : r = cur + 1 => task[r] = "none"
    BY <2>1 DEF FutureUntouched, Untouched
  <2> QED BY <2>1, <2>2 DEF AwaitedIsCurrent, Awaits, Live
<1>2. CASE ~Submit
  <2>1. phase' # "await"
    BY <1>2 DEF Turn, StartPass, TakeResponse, TakeFailure, PassBarrier, FinishTools, AbortTurn
  <2> QED BY <2>1 DEF AwaitedIsCurrent, Awaits
<1> QED BY <1>1, <1>2

LEMMA CommandOrphan ==
    ASSUME TypeOK, Lifecycle, OrphanIsStopped, AwaitedIsCurrent, HandleCommand
    PROVE  OrphanIsStopped' /\ AwaitedIsCurrent'
<1> DEFINE c == Head(cmds)
<1>0. Taken /\ UNCHANGED <<phase, cur>>
  BY HandleTaken DEF HandleCommand, turnVars
<1>1. /\ c = cmds[1] /\ c \in Command
      /\ Len(cmds) \in Nat /\ Len(cmds) >= 1 /\ Len(cmds') = Len(cmds) - 1
      /\ \A i \in 1 .. Len(cmds) - 1 : cmds'[i] = cmds[i + 1]
  BY <1>0 DEF Taken
<1>2. \A r \in Request : c # Cmd("submit", r) => task'[r] = task[r]
  <2>1. \A r \in Request : c # Cmd("submit", r) => ~(c.op = "submit" /\ c.req = r)
    BY <1>1, CommandFields
  <2> QED BY <2>1 DEF HandleCommand, TypeOK
<1>3. ASSUME NEW r \in Request, ~Awaits(r)' PROVE OrphanIsStopped!(r)'
  <2>0. ~Awaits(r) /\ OrphanIsStopped!(r)
    BY <1>0, <1>3 DEF Awaits, OrphanIsStopped
  <2>1. ASSUME task'[r] \in Live, r \notin token'
        PROVE  \E i \in 1 .. Len(cmds') : Stop(i, r)'
    <3>1. \E i \in 2 .. Len(cmds) : Stop(i, r)
      <4>1. CASE c = Cmd("submit", r)
        BY <1>1, <2>0, <4>1
      <4>2. CASE c # Cmd("submit", r)
        <5>1. task[r] \in Live /\ r \notin token
          BY <1>2, <2>1, <4>2 DEF HandleCommand
        <5>2. PICK i \in 1 .. Len(cmds) : Stop(i, r)
          BY <2>0, <5>1
        <5>3. r \in active
          BY <5>1 DEF Lifecycle
        <5>4. c # Cmd("cancel", r)
          BY <2>1, <5>3, CommandFields DEF HandleCommand
        <5> QED BY <1>1, <5>2, <5>4 DEF Stop
      <4> QED BY <4>1, <4>2
    <3> QED BY <1>0, <3>1, StopShift
  <2>2. ASSUME NEW h \in 1 .. Len(cmds'), cmds'[h] = Cmd("submit", r)
        PROVE  \E i \in h + 1 .. Len(cmds') : Stop(i, r)'
    <3>1. h + 1 \in 1 .. Len(cmds) /\ cmds[h + 1] = Cmd("submit", r) /\ h \in Nat
      BY <1>1, <2>2
    <3>2. PICK i \in (h + 1) + 1 .. Len(cmds) : Stop(i, r)
      BY <2>0, <3>1
    <3>3. i \in 2 .. Len(cmds) /\ i - 1 \in h + 1 .. Len(cmds')
      BY <1>1, <3>1, <3>2
    <3>4. Stop(i - 1, r)'
      BY <1>0, <3>2, <3>3, StopShift
    <3> QED BY <3>3, <3>4
  <2> QED BY <2>1, <2>2
<1>4. ASSUME NEW r \in Request, Awaits(r)', task'[r] \in Live PROVE ~Pending("reset", 0)'
  <2>0. Awaits(r)
    BY <1>0, <1>4 DEF Awaits
  <2>1. CASE c = Cmd("submit", r)
    <3>1. Len(cmds) = 1
      BY <1>1, <2>0, <2>1 DEF Lifecycle
    <3> QED BY <1>1, <3>1 DEF Pending
  <2>2. CASE c # Cmd("submit", r)
    <3>1. ~Pending("reset", 0)
      BY <1>2, <1>4, <2>0, <2>2 DEF AwaitedIsCurrent
    <3> QED BY <1>1, <3>1 DEF Pending
  <2> QED BY <2>1, <2>2
<1> QED
  BY <1>3, <1>4 DEF OrphanIsStopped, AwaitedIsCurrent

LEMMA JoinOrphan ==
    ASSUME TypeOK, OrphanIsStopped, AwaitedIsCurrent, NEW r \in Request, Join(r)
    PROVE  OrphanIsStopped' /\ AwaitedIsCurrent'
<1>1. UNCHANGED <<cmds, token, phase, cur>>
  BY DEF Join, turnVars
<1>2. \A q \in Request : task'[q] \in Live => task[q] \in Live
  BY DEF Join, TypeOK, Live
<1>3. \A q, i : Stop(i, q)' <=> Stop(i, q)
  BY <1>1 DEF Stop
<1> QED
  BY <1>1, <1>2, <1>3 DEF OrphanIsStopped, AwaitedIsCurrent, Awaits, Pending

LEMMA DrainOrphan ==
    ASSUME OrphanIsStopped, AwaitedIsCurrent, Drain
    PROVE  OrphanIsStopped' /\ AwaitedIsCurrent'
<1>1. UNCHANGED <<cmds, token, phase, cur, task>>
  BY DEF Drain, samplerVars, taskVars, turnVars
<1> QED
  BY <1>1 DEF OrphanIsStopped, AwaitedIsCurrent, Stop, Awaits, Pending

-----------------------------------------------------------------------------
(* Charged: the budget counts what the operation has spent, and at most one *)
(* retry for each request that was cancelled in a connection attempt.       *)

Stragglers == {r \in token : task[r] # "connect"}

LEMMA StragglersFinite ==
    ASSUME TypeOK
    PROVE  /\ IsFiniteSet(token) /\ IsFiniteSet(Stragglers)
           /\ Cardinality(Stragglers) \in Nat
           /\ Cardinality(Stragglers) <= Cardinality(token)
<1>1. IsFiniteSet(Request)
  BY RequestsAssumption, FS_Interval DEF Request
<1>2. IsFiniteSet(token)
  BY <1>1, FS_Subset DEF TypeOK
<1> QED
  BY <1>2, FS_Subset, FS_CardinalityType DEF Stragglers

LEMMA StragglersGrow ==
    ASSUME TypeOK, TypeOK', Stragglers \subseteq Stragglers'
    PROVE  /\ Cardinality(Stragglers) \in Nat /\ Cardinality(Stragglers') \in Nat
           /\ Cardinality(Stragglers) <= Cardinality(Stragglers')
<1>1. IsFiniteSet(Stragglers)' /\ (Cardinality(Stragglers) \in Nat)'
  BY StragglersFinite, PTL
<1> QED
  BY <1>1, StragglersFinite, FS_Subset

LEMMA OrphanWaitsForReset ==
    ASSUME OrphanIsStopped, TypeOK, NEW r \in Request, task[r] \in Live, r \notin token,
           ~Awaits(r), phase # "idle"
    PROVE  Pending("reset", 0)
<1>0. Len(cmds) \in Nat
  BY DEF TypeOK
<1>1. PICK i \in 1 .. Len(cmds) : Stop(i, r)
  BY DEF OrphanIsStopped
<1>2. PICK j \in i + 1 .. Len(cmds) : cmds[j] = Cmd("reset", 0)
  BY <1>1 DEF Stop
<1>3. j \in 1 .. Len(cmds)
  BY <1>0, <1>1, <1>2
<1> QED
  BY <1>2, <1>3 DEF Pending, Cmd

LEMMA TaskCharged ==
    ASSUME TypeOK, TypeOK', OrphanIsStopped, AwaitedIsCurrent, Charged, NEW r \in Request,
           NEW x \in {"connect", "stream", "backoff", "done"}, TaskDoes(r, x)
    PROVE  Charged'
<1>0. UNCHANGED <<cmds, token, phase, cur>>
  BY DEF TaskDoes, turnVars
<1>1. Pending("reset", 0)' <=> Pending("reset", 0)
  BY <1>0 DEF Pending
<1>2. Stragglers \subseteq Stragglers'
  BY <1>0 DEF Stragglers, TaskDoes, TypeOK
<1>3. /\ Cardinality(Stragglers) \in Nat /\ Cardinality(Stragglers') \in Nat
      /\ Cardinality(Stragglers) <= Cardinality(Stragglers')
  BY <1>2, StragglersGrow
<1>4. /\ budget \in Nat /\ spent \in Nat /\ MaxRetries \in Nat
      /\ task[r] \in Live
  BY BudgetAssumption DEF TypeOK, TaskDoes
<1>5. CASE UNCHANGED <<budget, spent>>
  BY <1>0, <1>1, <1>3, <1>4, <1>5 DEF Charged, Stragglers
<1>6. CASE /\ x = "backoff" /\ (r \in token => task[r] = "connect")
           /\ budget < MaxRetries /\ budget' = budget + 1
           /\ spent' = IF Awaits(r) THEN spent + 1 ELSE spent
  <2>1. CASE Awaits(r)
    <3>1. ~Pending("reset", 0) /\ phase # "idle"
      BY <1>4, <2>1 DEF AwaitedIsCurrent, Awaits
    <3> QED BY <1>0, <1>1, <1>3, <1>4, <1>6, <2>1, <3>1 DEF Charged, Stragglers
  <2>2. CASE ~Awaits(r) /\ (phase = "idle" \/ Pending("reset", 0))
    BY <1>0, <1>1, <1>4, <1>6, <2>2 DEF Charged
  <2>3. CASE ~Awaits(r) /\ phase # "idle" /\ ~Pending("reset", 0)
    <3>1. r \in token /\ task[r] = "connect"
      BY <1>4, <1>6, <2>3, OrphanWaitsForReset
    <3>0. /\ task' = [task EXCEPT ![r] = "backoff"]
          /\ token \subseteq Request /\ token' = token /\ DOMAIN task = Request
      BY <1>0, <1>6 DEF TaskDoes, TypeOK
    <3>2. Stragglers' = Stragglers \cup {r} /\ r \notin Stragglers
      BY <3>0, <3>1 DEF Stragglers
    <3>3. Cardinality(Stragglers') = Cardinality(Stragglers) + 1
      BY <3>2, StragglersFinite, FS_AddElement
    <3> QED BY <1>0, <1>1, <1>3, <1>4, <1>6, <2>3, <3>3 DEF Charged, Stragglers
  <2> QED BY <2>1, <2>2, <2>3
<1>7. CASE /\ r \notin token /\ budget' = 0
           /\ spent' = IF Awaits(r) THEN 0 ELSE spent
  <2>1. CASE Awaits(r)
    BY <1>0, <1>1, <1>3, <1>4, <1>7, <2>1 DEF Charged, Stragglers
  <2>2. CASE ~Awaits(r)
    <3>1. phase # "idle" => Pending("reset", 0)
      BY <1>4, <1>7, <2>2, OrphanWaitsForReset
    <3> QED BY <1>0, <1>1, <1>4, <1>7, <2>2, <3>1 DEF Charged
  <2> QED BY <2>1, <2>2
<1> QED
  BY <1>5, <1>6, <1>7 DEF TaskDoes

LEMMA TurnCharged ==
    ASSUME TypeOK, TurnHasRequest, Charged, Turn \/ AbortTurn
    PROVE  Charged'
<1>0. /\ MaxRetries \in Nat /\ Len(cmds) \in Nat
  BY BudgetAssumption, TypeHalves DEF Tables
<1>1. CASE StartPass
  <2>1. Pending("reset", 0)' /\ spent' = 0
    BY <1>0, <1>1, TurnSends DEF StartPass, Sent, Pending, Cmd
  <2> QED BY <1>0, <2>1 DEF Charged
<1>2. CASE ~StartPass
  <2>1. /\ UNCHANGED <<budget, spent, token, task>>
        /\ phase' # "idle" => phase # "idle"
    BY <1>2 DEF Turn, Submit, TakeResponse, TakeFailure, PassBarrier, FinishTools, AbortTurn,
                samplerVars, taskVars
  <2>2. phase' # "idle" => (Pending("reset", 0)' <=> Pending("reset", 0))
    <3>1. CASE Submit
      BY <1>0, <3>1, TurnSends DEF Sent, Pending, Cmd
    <3>2. CASE TakeResponse \/ TakeFailure
      BY <1>0, <3>2, TurnSends DEF Sent, Pending, Cmd
    <3>3. CASE PassBarrier \/ FinishTools
      BY <3>3 DEF PassBarrier, FinishTools, samplerVars, Pending
    <3>4. CASE AbortTurn
      BY <3>4 DEF AbortTurn
    <3> QED BY <1>2, <3>1, <3>2, <3>3, <3>4 DEF Turn
  <2> QED BY <2>1, <2>2 DEF Charged
<1> QED BY <1>1, <1>2

LEMMA CommandCharged ==
    ASSUME TypeOK, TypeOK', Lifecycle, Charged, HandleCommand
    PROVE  Charged'
<1> DEFINE c == Head(cmds)
<1>0. Taken /\ UNCHANGED <<phase, cur, spent>>
  BY HandleTaken DEF HandleCommand, turnVars
<1>1. /\ c = cmds[1] /\ c \in Command
      /\ Len(cmds) \in Nat /\ Len(cmds) >= 1 /\ Len(cmds') = Len(cmds) - 1
      /\ \A i \in 1 .. Len(cmds) - 1 : cmds'[i] = cmds[i + 1]
  BY <1>0 DEF Taken
<1>2. budget \in Nat /\ spent \in Nat
  BY DEF TypeOK
<1>3. Stragglers \subseteq Stragglers'
  BY DEF HandleCommand, Stragglers, TypeOK
<1>4. /\ Cardinality(Stragglers) \in Nat /\ Cardinality(Stragglers') \in Nat
      /\ Cardinality(Stragglers) <= Cardinality(Stragglers')
  BY <1>3, StragglersGrow
<1>5. CASE c = Cmd("reset", 0)
  <2>1. Pending("reset", 0) /\ budget' = 0
    BY <1>1, <1>5, CommandFields DEF Pending, Cmd, HandleCommand, BudgetAfter
  <2> QED BY <1>0, <1>2, <1>4, <2>1 DEF Charged, Stragglers
<1>6. CASE c # Cmd("reset", 0)
  <2>1. budget' = budget
    BY <1>1, <1>6, CommandFields DEF HandleCommand, BudgetAfter
  <2>2. Pending("reset", 0)' <=> Pending("reset", 0)
    <3>1. ASSUME Pending("reset", 0) PROVE Pending("reset", 0)'
      <4>1. PICK i \in 1 .. Len(cmds) : cmds[i] = Cmd("reset", 0)
        BY <3>1 DEF Pending, Cmd
      <4>2. i - 1 \in 1 .. Len(cmds) - 1 /\ (i - 1) + 1 = i
        BY <1>1, <1>6, <4>1
      <4>3. cmds'[i - 1] = Cmd("reset", 0)
        BY <1>1, <4>1, <4>2
      <4> QED BY <1>1, <4>2, <4>3 DEF Pending, Cmd
    <3>2. ASSUME Pending("reset", 0)' PROVE Pending("reset", 0)
      BY <1>1, <3>2 DEF Pending
    <3> QED BY <3>1, <3>2
  <2> QED BY <1>0, <1>2, <1>4, <2>1, <2>2 DEF Charged, Stragglers
<1> QED BY <1>5, <1>6

LEMMA JoinCharged ==
    ASSUME TypeOK, TypeOK', Charged, NEW r \in Request, Join(r)
    PROVE  Charged'
<1>1. UNCHANGED <<cmds, token, budget, phase, spent>>
  BY DEF Join, turnVars
<1>2. Stragglers' = Stragglers
  BY <1>1 DEF Join, Stragglers, TypeOK
<1> QED
  BY <1>1, <1>2 DEF Charged, Stragglers, Pending

LEMMA DrainCharged == ASSUME Charged, Drain PROVE Charged'
  BY DEF Charged, Drain, samplerVars, taskVars, turnVars, Pending

-----------------------------------------------------------------------------
(* StreamOrder *)

LEMMA TaskStream ==
    ASSUME TypeOK, Lifecycle, StreamOrder, NEW r \in Request,
           NEW x \in {"connect", "stream", "backoff", "done"}, TaskDoes(r, x)
    PROVE  StreamOrder'
<1>0. UNCHANGED <<phase, cur, late, slot, released>>
  BY DEF TaskDoes, turnVars, drainVars
<1>1. reply[r] = "none"
  BY DEF Lifecycle, TaskDoes, Live
<1>2. \A q \in Request : q # r => reply'[q] = reply[q]
  BY DEF TaskDoes, TypeOK
<1>3. events \in Seq(Event) /\ Len(events) \in Nat
  BY DEF TypeOK
<1>4. \A i \in 1 .. Len(events) : events[i].req \in Request
  <2>1. \A i \in 1 .. Len(events) : events[i] \in Event
    BY <1>3
  <2> QED BY <2>1 DEF Event
<1>5. cur \in Request /\ released[cur] = cur => cur # r /\ reply'[cur] = "ok"
  BY <1>1, <1>2 DEF StreamOrder
<1>6. \A i \in 1 .. Len(events) : events[i].kind = "completed" =>
          events[i].req # r /\ reply'[events[i].req] = "ok"
  BY <1>1, <1>2, <1>4 DEF StreamOrder
<1>7. CASE UNCHANGED events
  BY <1>0, <1>5, <1>6, <1>7 DEF StreamOrder
<1>8. CASE \E k \in {"chunk", "completed"} :
              Emit(k, r) /\ (k = "completed" => reply' = [reply EXCEPT ![r] = "ok"])
  <2>1. PICK k \in {"chunk", "completed"} :
              Emit(k, r) /\ (k = "completed" => reply' = [reply EXCEPT ![r] = "ok"])
    BY <1>8
  <2>2. PICK e \in Event : events' = Append(events, e) /\ e.req = r
                           /\ (e.kind = "completed" => reply'[r] = "ok")
    <3>1. [kind |-> k, req |-> r] \in Event
      BY DEF Event
    <3>2. k = "completed" => reply'[r] = "ok"
      BY <2>1 DEF TypeOK
    <3>3. PICK e \in Event : e = [kind |-> k, req |-> r]
      BY <3>1
    <3> QED BY <2>1, <3>2, <3>3 DEF Emit
  <2>3. /\ Len(events') = Len(events) + 1
        /\ \A i \in 1 .. Len(events) : events'[i] = events[i]
        /\ events'[Len(events) + 1] = e
    BY <1>3, <2>2, AppendAt
  <2>4. \A i \in 1 .. Len(events') : events'[i].kind = "completed" =>
          /\ reply'[events'[i].req] = "ok"
          /\ \A j \in i + 1 .. Len(events') : events'[j].req # events'[i].req
    <3> SUFFICES ASSUME NEW i \in 1 .. Len(events'), events'[i].kind = "completed"
                 PROVE  /\ reply'[events'[i].req] = "ok"
                        /\ \A j \in i + 1 .. Len(events') : events'[j].req # events'[i].req
      OBVIOUS
    <3>1. CASE i = Len(events) + 1
      BY <1>3, <2>2, <2>3, <3>1
    <3>2. CASE i \in 1 .. Len(events)
      <4>1. \A j \in i + 1 .. Len(events) : events[j].req # events[i].req
        BY <2>3, <3>2 DEF StreamOrder
      <4> QED BY <1>3, <1>6, <2>2, <2>3, <3>2, <4>1
    <3> QED BY <1>3, <2>3, <3>1, <3>2
  <2>5. cur \in Request /\ released[cur] = cur =>
            \A i \in 1 .. Len(events') : events'[i].req # cur
    BY <1>3, <1>5, <2>2, <2>3 DEF StreamOrder
  <2> QED BY <1>0, <1>5, <2>4, <2>5 DEF StreamOrder
<1> QED BY <1>7, <1>8 DEF TaskDoes

LEMMA TurnStream ==
    ASSUME TypeOK, TurnHasRequest, FutureUntouched, StreamOrder, Turn \/ AbortTurn
    PROVE  StreamOrder'
<1>0. cur \in Nat
  BY TypeHalves DEF Counts
<1>1. CASE Submit
  <2>1. cur + 1 \in Request => released[cur + 1] = 0
    BY <1>0 DEF FutureUntouched, Untouched
  <2> QED
    BY <1>0, <1>1, <2>1 DEF Submit, StreamOrder, taskVars
<1>2. CASE StartPass
  BY <1>2 DEF StartPass, StreamOrder, taskVars, drainVars
<1>3. CASE TakeResponse
  BY <1>3 DEF TakeResponse, StreamOrder, taskVars, drainVars
<1>4. CASE TakeFailure
  BY <1>4 DEF TakeFailure, StreamOrder, taskVars
<1>5. CASE PassBarrier
  BY <1>5 DEF PassBarrier, StreamOrder, taskVars
<1>6. CASE FinishTools
  BY <1>6 DEF FinishTools, StreamOrder, taskVars, drainVars
<1>7. CASE AbortTurn
  BY <1>7 DEF AbortTurn, StreamOrder, taskVars, drainVars
<1> QED
  BY <1>1, <1>2, <1>3, <1>4, <1>5, <1>6, <1>7 DEF Turn

LEMMA CommandStream == ASSUME StreamOrder, HandleCommand PROVE StreamOrder'
  BY DEF StreamOrder, HandleCommand, turnVars, drainVars

LEMMA JoinStream == ASSUME StreamOrder, NEW r \in Request, Join(r) PROVE StreamOrder'
  BY DEF StreamOrder, Join, turnVars, drainVars

LEMMA DrainStream ==
    ASSUME TypeOK, TurnHasRequest, FutureUntouched, StreamOrder, Drain
    PROVE  StreamOrder'
<1>0. UNCHANGED <<phase, cur, late, reply>> /\ cur \in Nat /\ slot \in {0, cur}
  BY TypeHalves DEF Drain, turnVars, taskVars, Counts, StreamOrder
<1>1. /\ Len(events) \in Nat /\ Len(events) >= 1
      /\ Len(events') = Len(events) - 1
      /\ \A i \in 1 .. Len(events) - 1 : events'[i] = events[i + 1]
      /\ Head(events) = events[1] /\ Head(events) \in Event
  BY TailAt DEF Drain, TypeOK
<1>2. \A i \in 1 .. Len(events') : events'[i].kind = "completed" =>
          /\ reply'[events'[i].req] = "ok"
          /\ \A j \in i + 1 .. Len(events') : events'[j].req # events'[i].req
  <2> SUFFICES ASSUME NEW i \in 1 .. Len(events'), events'[i].kind = "completed"
               PROVE  /\ reply'[events'[i].req] = "ok"
                      /\ \A j \in i + 1 .. Len(events') : events'[j].req # events'[i].req
    OBVIOUS
  <2>1. i + 1 \in 1 .. Len(events) /\ events'[i] = events[i + 1]
    BY <1>1
  <2>2. /\ reply[events[i + 1].req] = "ok"
        /\ \A j \in i + 2 .. Len(events) : events[j].req # events[i + 1].req
    BY <2>1 DEF StreamOrder
  <2> QED BY <1>0, <1>1, <2>1, <2>2, SMTT(20)
<1>3. CASE UNCHANGED drainVars
  BY <1>0, <1>1, <1>2, <1>3 DEF StreamOrder, drainVars
<1>4. CASE ~UNCHANGED drainVars
  <2> DEFINE e == Head(events)
  <2>1. /\ e.kind = "completed" /\ slot # 0 /\ slot' = 0
        /\ released' = [released EXCEPT ![slot] = e.req]
    BY <1>4 DEF Drain, Releases
  <2>2. cur \in Request /\ slot = cur
    BY <1>0, <2>1, TypeHalves, RequestsAssumption DEF Counts, Request
  <2>3. e.req \in Request /\ ~(e.req > cur)
    BY <1>1 DEF Event, FutureUntouched, Untouched
  <2>4. released'[cur] = e.req
    BY <2>1, <2>2 DEF TypeOK
  <2>5. e.req <= cur /\ e.req # 0
    BY <1>0, <2>3 DEF Request
  <2>6. e.req = cur => reply[cur] = "ok" /\ \A j \in 2 .. Len(events) : events[j].req # cur
    BY <1>1, <2>1 DEF StreamOrder
  <2>7. e.req = cur => \A i \in 1 .. Len(events') : events'[i].req # cur
    BY <1>1, <2>6
  <2> HIDE DEF e
  <2> QED
    BY <1>0, <1>2, <2>1, <2>4, <2>5, <2>6, <2>7 DEF StreamOrder
<1> QED BY <1>3, <1>4

-----------------------------------------------------------------------------
(* The invariant is inductive, and what follows from it. *)

LEMMA InitIInv == Init => IInv
<1> SUFFICES ASSUME Init PROVE IInv
  OBVIOUS
<1>1. TypeOK /\ TurnHasRequest
  BY InitType
<1>2. FutureUntouched /\ Lifecycle /\ OrphanIsStopped /\ AwaitedIsCurrent
  BY DEF Init, FutureUntouched, Untouched, Lifecycle, OrphanIsStopped, AwaitedIsCurrent,
         Awaits, Live
<1>3. Charged
  BY BudgetAssumption DEF Init, Charged
<1>4. StreamOrder
  BY RequestsAssumption DEF Init, StreamOrder, Request
<1> QED BY <1>1, <1>2, <1>3, <1>4 DEF IInv

LEMMA NextIInv == IInv /\ [Next]_vars => IInv'
<1> SUFFICES ASSUME IInv, [Next]_vars PROVE IInv'
  OBVIOUS
<1>0. TypeOK' /\ TurnHasRequest'
  BY NextType DEF IInv
<1>1. CASE UNCHANGED vars
  BY <1>1 DEF IInv, vars, samplerVars, taskVars, turnVars, drainVars, TypeOK, TurnHasRequest,
              FutureUntouched, Untouched, Lifecycle, OrphanIsStopped, Stop, AwaitedIsCurrent,
              Awaits, Pending, Charged, StreamOrder
<1>2. CASE Turn \/ AbortTurn
  BY <1>0, <1>2, TurnFuture, TurnLifecycle, TurnOrphan, TurnCurrent, TurnCharged, TurnStream
     DEF IInv
<1>3. CASE HandleCommand
  BY <1>0, <1>3, CommandFuture, CommandLifecycle, CommandOrphan, CommandCharged, CommandStream
     DEF IInv
<1>4. CASE Drain
  <2>1. slot \in {0, cur}
    BY DEF IInv, StreamOrder
  <2> QED
    BY <1>0, <1>4, <2>1, DrainFuture, DrainLifecycle, DrainOrphan, DrainCharged, DrainStream
       DEF IInv
<1>5. ASSUME NEW r \in Request, Join(r) PROVE IInv'
  BY <1>0, <1>5, JoinFuture, JoinLifecycle, JoinOrphan, JoinCharged, JoinStream DEF IInv
<1>6. ASSUME NEW r \in Request, AnyTaskStep(r) PROVE IInv'
  <2>1. PICK x \in {"connect", "stream", "backoff", "done"} : TaskDoes(r, x)
    BY <1>6, TaskStepDoes DEF IInv
  <2> QED
    BY <1>0, <2>1, TaskFuture, TaskLifecycle, TaskOrphan, TaskCharged, TaskStream DEF IInv
<1> QED
  BY <1>1, <1>2, <1>3, <1>4, <1>5, <1>6, NextCases

LEMMA Inductive == Spec => []IInv
  BY InitIInv, NextIInv, PTL DEF Spec

\* One logical operation never spends more than max_retries transport retries
\* between two responses (ConsecutiveRetryBudget), whatever the requests of
\* earlier turns, whose tasks may outlive them, charge to or reset of the counter
\* they share with it.
THEOREM RetriesCorrect == Spec => []OperationRetriesBounded
<1>1. IInv => OperationRetriesBounded
  BY DEF IInv, Charged, OperationRetriesBounded
<1> QED BY <1>1, Inductive, PTL

\* "A later user turn starts fresh": once the reset that begins a pass has been
\* handled, the budget holds what the pass itself has spent and at most one
\* retry for each request cancelled under an earlier turn.
THEOREM FreshBudgetCorrect == Spec => []FreshBudget
<1>1. IInv => FreshBudget
  <2> SUFFICES ASSUME IInv, phase # "idle", ~Pending("reset", 0)
               PROVE  budget <= spent + Cardinality(token)
    BY DEF FreshBudget
  <2>1. budget <= spent + Cardinality(Stragglers)
    BY DEF IInv, Charged, Stragglers
  <2>2. spent \in Nat /\ budget \in Nat
    BY TypeHalves, BudgetAssumption DEF IInv, Counts, Tables
  <2>3. /\ Cardinality(Stragglers) \in Nat /\ Cardinality(token) \in Nat
        /\ Cardinality(Stragglers) <= Cardinality(token)
    BY StragglersFinite, FS_CardinalityType DEF IInv
  <2> QED BY <2>1, <2>2, <2>3
<1> QED BY <1>1, Inductive, PTL

\* No request runs on unnoticed: a task that no turn waits for has its token
\* cancelled, or the Cancel that CancelOnDrop sent is in the actor's channel.
THEOREM OrphanCorrect == Spec => []OrphanIsCancelled
<1>1. IInv => OrphanIsCancelled
  BY DEF IInv, OrphanIsStopped, OrphanIsCancelled, Stop, Cmd, Pending
<1> QED BY <1>1, Inductive, PTL

\* The turn-stream barrier: tool calls go out after the text of their response
\* has been shown, except where the barrier timed out or the Completed of an
\* earlier request was taken for the current one's.
THEOREM BarrierCorrect == Spec => []ToolsFollowText
<1>1. IInv => ToolsFollowText
  <2> SUFFICES ASSUME IInv, phase = "tools", cur \notin late,
                      released[cur] \notin 1 .. cur - 1
               PROVE  \A i \in 1 .. Len(events) : events[i].req # cur
    BY DEF ToolsFollowText
  <2>1. cur \in Request /\ released[cur] # 0 /\ released[cur] <= cur
    BY DEF IInv, TurnHasRequest, StreamOrder
  <2>2. cur \in Nat /\ released[cur] \in Nat
    BY <2>1, RequestsAssumption DEF IInv, TypeOK, Request
  <2>3. released[cur] = cur
    BY <2>1, <2>2
  <2> QED BY <2>1, <2>3 DEF IInv, StreamOrder
<1> QED BY <1>1, Inductive, PTL

=============================================================================
