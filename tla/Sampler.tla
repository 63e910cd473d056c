------------------------------ MODULE Sampler ------------------------------
(***************************************************************************)
(* The sampler of a session: its actor, the task of each request with the  *)
(* retry loop, the turn that submits requests and waits for their replies, *)
(* and the drainer that shows the stream to the clients.                   *)
(*                                                                         *)
(* All of them run on the session's single-threaded LocalSet, so a step    *)
(* is what a task does between two awaits.  They meet in two FIFO          *)
(* channels: `cmds', from the turn to the actor, and `events', from the    *)
(* request tasks to the drainer (of which only the streamed ones and       *)
(* Completed are kept: Retrying and Failed are shown and change no state). *)
(* A turn that is cancelled drops its waiting future, which sends Cancel;  *)
(* the request task looks at its token only at the head of its loop and    *)
(* while it streams, so it may live on, in a connection attempt or in a    *)
(* backoff, while the next turn is under way.                              *)
(***************************************************************************)
EXTENDS Integers, Sequences, FiniteSets

CONSTANTS
    Requests,       \* bound: the requests are 1 .. Requests, ids are fresh
    Passes,         \* bound: the conversation passes
    WithImages,     \* the requests that carry images
    MaxRetries,     \* max_retries: the transport retries of an operation
    RateLimitMax,   \* rate_limit_retry_threshold
    DoomMax,        \* doom_loop_recovery.max_retries
    AuthMax,        \* AuthRetrySchedule::MAX_RETRIES
    MaxChunks       \* bound: the events one request streams

ASSUME RequestsAssumption == Requests \in Nat /\ Passes \in Nat
ASSUME ImagesAssumption   == WithImages \subseteq 1 .. Requests
ASSUME BudgetAssumption   == /\ MaxRetries \in Nat
                             /\ RateLimitMax \in Nat
                             /\ DoomMax \in Nat
                             /\ AuthMax \in Nat
                             /\ MaxChunks \in Nat

VARIABLES
    cmds,       \* the actor's command channel
    active,     \* active_requests
    token,      \* the requests whose cancel token is cancelled
    task,       \* where the task of a request stands
    budget,     \* ConsecutiveRetryBudget.retries, shared by all requests
    limited,    \* rate_limit_retry_count of a request
    doomed,     \* doom_retry_count of a request
    images,     \* whether the request still carries images
    streamed,   \* the events it has streamed
    reply,      \* the completion oneshot of a request
    events,     \* the SamplingEvent channel
    phase,      \* what the turn is doing
    passes,     \* the conversation passes begun
    cur,        \* the last request submitted
    auths,      \* AuthRetrySchedule.attempt
    slot,       \* turn_stream_drained: the request it was installed for, or 0
    released,   \* whose Completed released the barrier of a request, or 0
    late,       \* the requests whose barrier timed out
    spent       \* history: retries charged by the current operation's own
                \* requests since it began or last had a response

samplerVars == <<cmds, active, token, budget>>
taskVars    == <<task, limited, doomed, images, streamed, reply>>
turnVars    == <<phase, passes, cur, auths, late>>
drainVars   == <<slot, released>>
vars        == <<samplerVars, taskVars, turnVars, drainVars, events, spent>>

Request == 1 .. Requests

(***************************************************************************)
(* The errors, by what classify_error and handle_sampling_failure make of  *)
(* them: session (auth, encrypted content), image (413, image              *)
(* processing), limited (429), transport (retryable, empty response), body *)
(* (a connection reset that hints at an oversized body), overflow (context *)
(* length), fatal (everything else, the idle timeout included).            *)
(***************************************************************************)
Error == {"session", "image", "limited", "transport", "body", "overflow", "fatal"}

Failure == {"session", "overflow", "fatal", "cancelled"}

Command == [op : {"submit", "cancel"}, req : Request] \cup [op : {"reset"}, req : {0}]
Event   == [kind : {"chunk", "completed"}, req : Request]
Live    == {"new", "connect", "stream", "backoff"}

Min(a, b) == IF a < b THEN a ELSE b

Init ==
    /\ cmds = <<>> /\ events = <<>>
    /\ active = {} /\ token = {} /\ late = {}
    /\ task = [r \in Request |-> "none"]
    /\ budget = 0 /\ spent = 0
    /\ limited = [r \in Request |-> 0]
    /\ doomed = [r \in Request |-> 0]
    /\ images = [r \in Request |-> r \in WithImages]
    /\ streamed = [r \in Request |-> 0]
    /\ reply = [r \in Request |-> "none"]
    /\ phase = "idle" /\ passes = 0 /\ cur = 0 /\ auths = 0
    /\ slot = 0
    /\ released = [r \in Request |-> 0]

-----------------------------------------------------------------------------
(* The turn: process_conversation_turn and run_turn_via_sampler. *)

Send(op, r) == cmds' = Append(cmds, [op |-> op, req |-> r])

Awaits(r) == phase = "await" /\ cur = r

\* process_conversation_turn begins: one logical transport-retry operation.
StartPass ==
    /\ phase = "idle" /\ passes < Passes
    /\ phase' = "ready" /\ passes' = passes + 1 /\ auths' = 0 /\ spent' = 0
    /\ Send("reset", 0)
    /\ UNCHANGED <<active, token, budget, taskVars, cur, late, drainVars, events>>

\* run_turn_via_sampler installs the barrier and submits under a fresh id.
Submit ==
    /\ phase = "ready" /\ cur < Requests
    /\ phase' = "await" /\ cur' = cur + 1
    /\ slot' = cur + 1
    /\ Send("submit", cur + 1)
    /\ UNCHANGED <<active, token, budget, taskVars, passes, auths, late, released, events, spent>>

\* The reply is there.  Leaving submit_and_collect drops its guard, which
\* sends Cancel whatever the reply was.
TakeResponse ==
    /\ phase = "await" /\ reply[cur] = "ok"
    /\ phase' = "barrier"
    /\ Send("cancel", cur)
    /\ UNCHANGED <<active, token, budget, taskVars, passes, cur, auths, late, drainVars,
                   events, spent>>

\* handle_sampling_failure: should_compact_on_error may hold for whatever the
\* provider answered, its metadata giving a window below the estimate; an auth
\* error may be recovered from.  Both resubmit in the same operation; the rest
\* ends the turn.
TakeFailure ==
    /\ phase = "await" /\ reply[cur] \in Failure
    /\ slot' = 0
    /\ Send("cancel", cur)
    /\ \/ phase' = "idle" /\ auths' = auths
       \/ reply[cur] # "cancelled" /\ phase' = "ready" /\ auths' = 0
       \/ /\ reply[cur] \in {"session", "cancelled"} /\ auths < AuthMax
          /\ phase' = "ready" /\ auths' = auths + 1
    /\ UNCHANGED <<active, token, budget, taskVars, passes, cur, late, released, events, spent>>

\* The stream is drained, or five seconds have passed: the tool calls go out.
PassBarrier ==
    /\ phase = "barrier"
    /\ \/ released[cur] # 0 /\ UNCHANGED <<slot, late>>
       \/ released[cur] = 0 /\ slot' = 0 /\ late' = late \cup {cur}
    /\ phase' = "tools" /\ auths' = 0
    /\ UNCHANGED <<samplerVars, taskVars, passes, cur, released, events, spent>>

\* The tool calls are answered: the turn asks the model again or is over.
FinishTools ==
    /\ phase = "tools"
    /\ phase' \in {"ready", "idle"}
    /\ UNCHANGED <<samplerVars, taskVars, passes, cur, auths, late, drainVars, events, spent>>

\* Slip: the guard is not there.
DropNothing == UNCHANGED cmds

\* CancelOnDrop: a future that still waits for its reply tells the actor.
DropGuard == IF phase = "await" THEN Send("cancel", cur) ELSE UNCHANGED cmds

\* The turn's task is aborted.  The barrier's sender stays where it is.
AbortTurn ==
    /\ phase # "idle"
    /\ phase' = "idle"
    /\ DropGuard
    /\ UNCHANGED <<active, token, budget, taskVars, passes, cur, auths, late, drainVars,
                   events, spent>>

-----------------------------------------------------------------------------
(* The actor: SamplerActor::run, a biased select of joins and commands. *)

\* The task has returned, its locals are gone.
Join(r) ==
    /\ task[r] = "done"
    /\ task' = [task EXCEPT ![r] = "joined"]
    /\ active' = active \ {r}
    /\ limited' = [limited EXCEPT ![r] = 0]
    /\ doomed' = [doomed EXCEPT ![r] = 0]
    /\ images' = [images EXCEPT ![r] = FALSE]
    /\ streamed' = [streamed EXCEPT ![r] = 0]
    /\ UNCHANGED <<cmds, token, budget, reply, turnVars, drainVars, events, spent>>

\* Slip: every request starts with a fresh budget.
BudgetAfterSubmit(op) == IF op \in {"reset", "submit"} THEN 0 ELSE budget

\* Only ResetRetryBudget resets the budget: a new request does not.
BudgetAfter(op) == IF op = "reset" THEN 0 ELSE budget

HandleCommand ==
    /\ cmds # <<>> /\ \A r \in Request : task[r] # "done"
    /\ cmds' = Tail(cmds)
    /\ LET c == Head(cmds) IN
       /\ budget' = BudgetAfter(c.op)
       /\ \/ /\ c.op = "submit"
             /\ active' = active \cup {c.req}
             /\ task' = [task EXCEPT ![c.req] = "new"]
             /\ UNCHANGED token
          \/ /\ c.op = "cancel"
             /\ active' = active \ {c.req}
             /\ token' = token \cup ({c.req} \cap active)
             /\ UNCHANGED task
          \/ /\ c.op = "reset"
             /\ UNCHANGED <<active, token, task>>
    /\ UNCHANGED <<limited, doomed, images, streamed, reply, turnVars, drainVars, events, spent>>

-----------------------------------------------------------------------------
(* The request task: run_request_task. *)

Emit(kind, r) == events' = Append(events, [kind |-> kind, req |-> r])

\* The result goes to the oneshot and the task returns.
Finish(r, result) ==
    /\ reply' = [reply EXCEPT ![r] = result]
    /\ task' = [task EXCEPT ![r] = "done"]

\* What handle_sampling_failure tells apart of an error.
Surfaced(e) == IF e \in {"session", "overflow"} THEN e ELSE "fatal"

Fail(r, e) ==
    /\ Finish(r, Surfaced(e))
    /\ UNCHANGED <<budget, limited, images, spent>>

\* Slip: the loop head does not look at the token.
NeverStops(r) == FALSE

\* cancel_token.is_cancelled(), at the head of the retry loop.
Stops(r) == r \in token

\* The head of the retry loop: a cancelled request ends here, another one
\* begins an attempt.
LoopHead(r) ==
    IF Stops(r)
    THEN Finish(r, "cancelled")
    ELSE task' = [task EXCEPT ![r] = "connect"] /\ UNCHANGED reply

\* The task is polled for the first time; a broken configuration ends it.
Begin(r) ==
    /\ task[r] = "new"
    /\ \/ Finish(r, "fatal")
       \/ LoopHead(r)
    /\ UNCHANGED <<samplerVars, limited, doomed, images, streamed, turnVars, drainVars,
                   events, spent>>

\* The backoff is over.
Wake(r) ==
    /\ task[r] = "backoff"
    /\ LoopHead(r)
    /\ UNCHANGED <<samplerVars, limited, doomed, images, streamed, turnVars, drainVars,
                   events, spent>>

\* Slip: off by one.
HasOneMore == budget <= MaxRetries

\* ConsecutiveRetryBudget::consume grants a retry.
HasRetries == budget < MaxRetries

\* It is charged, and the backoff follows.
Debit(r) ==
    /\ budget' = budget + 1
    /\ spent' = IF Awaits(r) THEN spent + 1 ELSE spent
    /\ task' = [task EXCEPT ![r] = "backoff"]
    /\ UNCHANGED reply

\* Slip: only the copy of this attempt is stripped.
KeepImages(r) == images

\* strip_images, of the request that all further attempts clone.
StripImages(r) == [images EXCEPT ![r] = FALSE]

\* apply_retry_decision after classify_error.
Decide(r, e) ==
    \/ /\ e \in {"session", "overflow", "fatal"}
       /\ Fail(r, e)
    \/ /\ e = "image"
       /\ IF images[r]
          THEN /\ images' = StripImages(r)
               /\ LoopHead(r)
               /\ UNCHANGED <<budget, limited, spent>>
          ELSE Fail(r, e)
    \/ /\ e = "limited"
       /\ IF limited[r] < Min(MaxRetries, RateLimitMax) /\ HasRetries
          THEN /\ Debit(r)
               /\ limited' = [limited EXCEPT ![r] = @ + 1]
               /\ UNCHANGED images
          ELSE Fail(r, e)
    \/ /\ e \in {"transport", "body"}
       /\ IF HasRetries
          THEN /\ Debit(r)
               /\ images' = IF e = "body" THEN StripImages(r) ELSE images
               /\ UNCHANGED limited
          ELSE Fail(r, e)

\* run_one_attempt: the provider accepts the request, or does not.  The
\* token is not looked at while this is awaited.
Connect(r) ==
    /\ task[r] = "connect"
    /\ task' = [task EXCEPT ![r] = "stream"]
    /\ UNCHANGED <<samplerVars, limited, doomed, images, streamed, reply,
                   turnVars, drainVars, events, spent>>

ConnectFails(r) ==
    /\ task[r] = "connect"
    /\ \E e \in Error : Decide(r, e)
    /\ UNCHANGED <<cmds, active, token, doomed, streamed, turnVars, drainVars, events>>

\* drive_l2, a biased select: the token comes before the stream.
StreamCancelled(r) ==
    /\ task[r] = "stream" /\ r \in token
    /\ Finish(r, "cancelled")
    /\ UNCHANGED <<samplerVars, limited, doomed, images, streamed, turnVars, drainVars,
                   events, spent>>

StreamChunk(r) ==
    /\ task[r] = "stream" /\ r \notin token
    /\ streamed[r] < MaxChunks
    /\ streamed' = [streamed EXCEPT ![r] = @ + 1]
    /\ Emit("chunk", r)
    /\ UNCHANGED <<samplerVars, task, limited, doomed, images, reply, turnVars, drainVars, spent>>

\* The stream ends in an error: its own, the idle timeout's, an empty or a
\* truncated response.
StreamFails(r) ==
    /\ task[r] = "stream" /\ r \notin token
    /\ \E e \in Error : Decide(r, e)
    /\ UNCHANGED <<cmds, active, token, doomed, streamed, turnVars, drainVars, events>>

\* A confident doom-loop signal, while the resample budget lasts.
StreamDooms(r) ==
    /\ task[r] = "stream" /\ r \notin token
    /\ doomed[r] < DoomMax
    /\ doomed' = [doomed EXCEPT ![r] = @ + 1]
    /\ task' = [task EXCEPT ![r] = "backoff"]
    /\ UNCHANGED <<samplerVars, limited, images, streamed, reply, turnVars, drainVars,
                   events, spent>>

\* A complete response resets the retry budget, whoever asked for it.
StreamCompletes(r) ==
    /\ task[r] = "stream" /\ r \notin token
    /\ budget' = 0
    /\ spent' = IF Awaits(r) THEN 0 ELSE spent
    /\ Emit("completed", r)
    /\ Finish(r, "ok")
    /\ UNCHANGED <<cmds, active, token, limited, doomed, images, streamed, turnVars, drainVars>>

-----------------------------------------------------------------------------
\* Slip: the first event releases the barrier.
ReleasesAny(e) == TRUE

\* The events that release the barrier.
Releases(e) == e.kind = "completed"

\* The drainer: handle_sampling_event.  Completed releases the barrier that
\* is installed, without comparing request ids.
Drain ==
    /\ events # <<>>
    /\ events' = Tail(events)
    /\ IF Releases(Head(events)) /\ slot # 0
       THEN /\ released' = [released EXCEPT ![slot] = Head(events).req]
            /\ slot' = 0
       ELSE UNCHANGED drainVars
    /\ UNCHANGED <<samplerVars, taskVars, turnVars, spent>>

-----------------------------------------------------------------------------
TaskStep(r) == \/ Begin(r) \/ Wake(r) \/ StreamCancelled(r)
               \/ StreamFails(r) \/ StreamDooms(r) \/ StreamCompletes(r)

Turn == StartPass \/ Submit \/ TakeResponse \/ TakeFailure \/ PassBarrier \/ FinishTools

Next ==
    \/ Turn \/ AbortTurn \/ HandleCommand \/ Drain
    \/ \E r \in Request : Join(r) \/ TaskStep(r) \/ StreamChunk(r)
                          \/ Connect(r) \/ ConnectFails(r)

\* Every task of the LocalSet that is ready is polled; timers fire; a stream
\* ends, by the idle timeout at the latest.  Nothing bounds how long a
\* provider may take to answer a request it has accepted the connection of:
\* no fairness for Connect and ConnectFails, and none for what users do.
Fairness ==
    /\ WF_vars(HandleCommand) /\ WF_vars(Drain)
    /\ WF_vars(TakeResponse) /\ WF_vars(TakeFailure) /\ WF_vars(PassBarrier)
    /\ \A r \in Request : WF_vars(Join(r)) /\ WF_vars(TaskStep(r))

Spec == Init /\ [][Next]_vars /\ Fairness
-----------------------------------------------------------------------------
TypeOK ==
    /\ cmds \in Seq(Command) /\ events \in Seq(Event)
    /\ active \subseteq Request /\ token \subseteq Request /\ late \subseteq Request
    /\ task \in [Request -> Live \cup {"none", "done", "joined"}]
    /\ budget \in 0 .. MaxRetries
    /\ spent \in Nat
    /\ limited \in [Request -> 0 .. Min(MaxRetries, RateLimitMax)]
    /\ doomed \in [Request -> 0 .. DoomMax]
    /\ images \in [Request -> BOOLEAN]
    /\ streamed \in [Request -> 0 .. MaxChunks]
    /\ reply \in [Request -> Failure \cup {"none", "ok"}]
    /\ phase \in {"idle", "ready", "await", "barrier", "tools"}
    /\ passes \in 0 .. Passes /\ cur \in 0 .. Requests /\ auths \in 0 .. AuthMax
    /\ slot \in 0 .. Requests
    /\ released \in [Request -> 0 .. Requests]

Pending(op, r) == \E i \in 1 .. Len(cmds) : cmds[i] = [op |-> op, req |-> r]

\* One logical operation - a conversation pass, its auth and compaction
\* resubmissions included - retries at most max_retries times between two
\* responses, although the counter is shared with requests of earlier turns
\* whose late end could reset it.
OperationRetriesBounded == spent <= MaxRetries

\* "A later user turn starts fresh", up to the requests that were cancelled
\* under it: each of those may still fail the connection attempt it was in,
\* and takes one retry of the new turn's budget with it, but no second one.
FreshBudget ==
    phase # "idle" /\ ~Pending("reset", 0)
        => budget <= spent + Cardinality(token)

\* No request runs on unnoticed: the task of a request that no turn waits
\* for has been told to stop, or the Cancel is on its way.
OrphanIsCancelled ==
    \A r \in Request :
        task[r] \in Live => Awaits(r) \/ r \in token \/ Pending("cancel", r)

\* When the tool calls of a response go out, all of its text has been sent to
\* the clients - unless the barrier timed out or was released by the Completed
\* of an earlier request, which the drainer takes for the current one's.
ToolsFollowText ==
    phase = "tools" =>
        \/ cur \in late
        \/ released[cur] \in 1 .. cur - 1
        \/ \A i \in 1 .. Len(events) : events[i].req # cur

\* A request ends, whether its turn waits for it or has gone, and a turn that
\* waits is answered: neither retries nor resampled doom loops nor stripped
\* images go on for ever.  Only a provider that accepts a connection and then
\* says nothing can hold them.
UnderWay(r) == Awaits(r) \/ task[r] \in Live

EveryRequestEnds ==
    \A r \in Request : UnderWay(r) ~> (~UnderWay(r) \/ [](task[r] = "connect"))
=============================================================================
