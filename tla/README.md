# A verification project for the Atelier agent

Atelier is a coding agent written in Rust. Terminal clients (*pagers*) connect to one
*leader* process per user. The leader hosts the agent; the agent hosts sessions; each
session is an actor that owns a conversation, a queue of prompts shared by all attached
clients, and one turn at a time that calls a model, through a *sampler*, and tools. This
directory models the five places where concurrency, failure and ordering meet:

- the **session actor**: queue, turns, cancel, notifications;
- the **sampler**: requests, retries, cancellation, the order of text and tool calls;
- the **election** of the leader through a lock file and a socket;
- the **router** in the leader: subscribers, drivers, subagents, open questions;
- the **load** of a running session: replay of the file against the live stream.

TLC checks them on small instances. TLAPS proves every safety property of all five for all
instances, the session actor's refinement of an abstract specification included; four of
the session actor's are proved under hypotheses on the commands that clients give, each of
which is needed.

Paths are relative to `src/crates/codegen/atelier-shell/src/` unless they start with
another crate's name; `impl/` stands for `session/acp_session_impl/`.

## 1. Inventory

| component | state | operations | interacts through |
|---|---|---|---|
| Session actor (`session/acp_session.rs`, `impl/*`) | `pending_inputs`, `running_task`, pin `current_prompt_id`, rewind window, notification buffers, interjection buffer, wait depth, goal gate, completion sets | `SessionCommand`s, turn completions, helper tasks | command channel, completion channel, one state mutex, several atomics, broadcasts to clients |
| Turn execution (`impl/turn.rs`, `impl/tool_calls.rs`) | phase of the turn, its guards, the stream-drain barrier | begin, index, rounds, tool calls, recovery after errors, end | reads and writes the actor's shared state between awaits; sampler channels |
| Goal orchestrator (`session/goal_*.rs`, `impl/goal*.rs`) | goal status, streaks, budget | start, continue, pause, complete | goal gate, continuation prompts |
| Plan mode (`session/plan_mode.rs`) | plan gate, approval parked on resume | restore, approve, abandon | queues and promotes a prompt outside the main loop |
| Sampler (`atelier-sampler`) | requests in flight, cancel tokens, the shared retry budget, per-request counters | submit, stream, retry, cancel, join | command and event channels, a oneshot per request |
| Leader election (`leader/lock.rs`, `leader/mod.rs`, `agent/app.rs`) | lock file (flock, pid), socket file, processes | connect, spawn, boot, hand over, replace, stop | the file system only |
| Leader router (`leader/server.rs`) | subscribers, drivers, child sessions, loads in flight with their buffers, open questions | attach, request, load, route, disconnect | IPC with clients, one FIFO stream from the agent |
| Session residency (`agent/mvp_agent/*`) | resident sessions, eviction notices | load, idle unload, restart | commands to session actors |
| Session persistence (`session/persistence.rs`) | pending merged line, `updates.jsonl` | append, merge, flush, replay, delta replay | command channel with acknowledged flushes |
| Subagents (`agent/subagent`) | running children, `meta.json` | spawn, finish, reconcile orphans | lines in the parent's file, routes in the leader |
| Chat state (`atelier-chat-state`) | conversation, prompt index, usage | push, truncate, compact | command channel |
| Auth (`auth`) | tokens, refresh in flight | login, refresh, recover | credential file shared by processes |
| Tool hub SDK (`atelier-tool-hub-sdk`) | connections, pending calls, reference counts | connect, call, cancel, reconnect | web socket |
| Workspace (`atelier-workspace`) | worker process, permissions, checkpoints | handshake, restart, ask | pipes, RPC |
| Worktree pool, MCP, compaction, hunk tracker, file watcher, memory, hooks, sandbox, pager, providers, telemetry, configuration | see `PROJECT.json` | | |

### What is hard, and what makes each part correct

**Session actor.** The main loop's handlers await many times. Between two awaits the turn
task runs, and two helper tasks (MCP initialisation, plan approval) promote the queue
front on their own. Cancel reads the pin before its awaits and takes the slot after them;
`queue_input` reads the goal gate and the loop acts on it later; a completion may come
from a turn that was cancelled since. `abort()` only marks a task: its guards run when
the runtime drops the future, possibly after the next turn was promoted. *Correct:* the
running turn is the front of the queue; a prompt runs at most once, alone, and is told one
outcome; its durable terminal is emitted exactly once; nothing a user typed is swept away;
no interjection or notification is left behind; a client's mirror of the queue is fresh
whenever the actor rests; every accepted prompt is answered if the turns before it end.

**Sampler.** The retry budget is one counter for all requests of a session, while a
cancelled request lives on in a connection attempt or a backoff that does not watch the
cancel token. Four kinds of recovery (transport retries, rate limits, doom-loop
resampling, stripped images) loop back to the same head, and the turn recovers once more
on top. The text goes through a drainer that lags behind the reply. *Correct:* retries of
an operation are bounded; a cancelled turn hardly costs the next one; no request runs on
that nobody waits for and nobody cancelled; tool calls follow the text of their response;
every request ends.

**Election.** A path and the file behind it are different things: a process keeps the
inode it opened when the path is unlinked, so `open` and `flock` are two steps, and so
are the unlock and the two unlinks of `LeaderLock`'s `Drop`. Clients and leaders crash,
time out and boot slowly in between. *Correct:* at most one leader serves; the pid in the
lock file can be trusted; a client is connected in the end.

**Router.** Routes of subagents are made by live spawns, replayed spawns and backfills and
undone by live finishes, replayed finishes and reconciliation, while clients come, load
and go, the parent is unloaded and the process restarts. *Correct:* whoever is attached
follows the running subagents and shows the open questions; a session that has clients
has a driver among them; a finished subagent keeps no route.

**Load.** The same update can reach a client live, out of the load's buffer and from the
file, there under the id of a merged line or folded into another update; ids are given out
in one order and updates sent in another; one client's load closes the gate of the whole
session. *Correct:* nothing is shown twice, and nothing against both orders; a client lacks
only what was sent behind the gate after its second flush, what the code's own rules drop
because a higher id was sent first, and what a replay keeps back; the gate opens again and
buffers are released.

## 2. Modules

| module | contents |
|---|---|
| `Subsequences` | filters of sequences (`retain`, `filter`), written so that they can be proved about |
| `PromptQueue` | the pure half of the session actor: sweeps, inserts, reorder, clear, wire rows |
| `SessionActor` | its state, one action per critical section, fairness, properties |
| `PromptLedger` | the abstract promise to the senders of prompts |
| `Sampler` | turn, sampler actor, request tasks and drainer of a session |
| `LeaderElection` | clients, leaders, lock file and socket |
| `LeaderRouter` | the leader's routing tables composed with clients, agent and the root's file |
| `SessionLoad` | session, persistence, `load_session`, leader and pager of one transcript |
| `MCSessionActor`, `MCSampler`, `MCLeaderElection`, `MCLeaderRouter`, `MCSessionLoad` | constants and symmetry; each `.cfg` gives the sizes |
| `SubsequenceProofs` | lemmas about filters: what they keep, in which order |
| `SessionActorProofs` | types of the session actor, the front of its queue, what sweeps may drop |
| `SessionTurnProofs` | who holds a prompt, which turn it has, what its sender was told |
| `SessionPromiseProofs` | `SessionActor` implements `PromptLedger`; the mirrored rows, the order of send-now prompts, the drain of notifications |
| `SamplerProofs`, `LeaderElectionProofs`, `LeaderRouterProofs`, `SessionLoadProofs` | the safety properties of these modules |

Operators whose comment starts with *Slip* are plausible mistakes (a dropped guard, a
forgotten follow-up). No action uses them; each shows that a property notices it.

### `SessionActor`

- A prompt is one `InputItem`. Its origin is `Kind`; `"user"` carries queue metadata,
  `"fallback"` is a stranded interjection, the others are the synthetic origins (`"goal"`
  stands for goal summaries and nudges, `"wake"` for task and subagent completions).
  Texts, images and modes are left out; of a text only its version matters.
- **The main loop** (`impl/run_loop.rs`). A handler is a sequence of critical sections;
  `todo` holds the ones left. `Ready` is the `select!`: it is biased, so a command is
  taken only when no completion waits. Sections are cut exactly at the awaits at which
  another task can observe or change the state involved. The completion in hand stays
  at the head of `completion_rx` until `PopCompleted` handles it.
- **`queue_input`** is `QueueInput`: marks the completion, sweeps preempted synthetic
  prompts, decides whether the prompt goes now, inserts, broadcasts.
- **`cancel_running_task`** is `CancelBegin` (locals before the first await),
  `CancelTake` (the section under the lock), `CancelGoal` (gate), `CancelAbort` (abort
  and depth reset), `CancelFinish` (pin, terminal, rewind, replies). Its local variables
  are the record `cancel`.
- **A turn** is a phase per prompt: `spawned -> active -> indexed -> scoped -> winding ->
  done`, with the steps on shared state taken in `scoped` (drain interjections, inject
  events, consume completions, waits, goal changes). `aborting` holds the tasks marked by
  `abort()`; `TaskDrop` is the drop of the future.
- **The wait depth** counts guards of two kinds: those of the turn's own tool calls
  (`WaitEnter`, `WaitExit`) and one per foreground subagent. A tool call sends the spawn
  (`SubagentRequest`); a task of the coordinator enters the guard when it begins
  (`SubagentEnter`, `agent/subagent/handle_request.rs:66`), without a look at the turn that
  asked, and drops it when the child is done, moves to the background or finds the turn
  gone (`SubagentExit`). So a guard may be entered after the cancel that zeroed the depth
  (`impl/tasks_cancel.rs:491`).
- **Observation.** `fate` is the reply of each prompt, `terminals` the number of durable
  `TurnCompleted` events, `history` the prompts the conversation has recorded,
  `queue_changed` the last broadcast.

The model leaves out the commands of the same loop that touch none of this state (model
switch, compaction, export, memory, recap), the replay buffer, and hooks. A closed
command channel (all handles dropped) is not modelled; `Shutdown` is.

### `Sampler`

All parties run on the session's single-threaded `LocalSet`, so a step is what a task does
between two awaits.

- **The turn** (`impl/turn.rs`). `StartPass` begins a pass of the conversation loop and
  resets the retry budget through the command channel; `Submit` installs the barrier slot
  and submits; `TakeResponse` and `TakeFailure` take the reply (the latter with the turn's
  own recovery: compact after any error of the provider that came with a window below the
  estimate, retry after an authentication error, or end the turn), and leaving the wait
  sends `Cancel`; `PassBarrier` waits for the drainer or for the 5 s timeout; `FinishTools`
  runs the tool calls; `AbortTurn` is a cancelled turn, whose dropped future sends `Cancel`.
- **The actor** (`atelier-sampler/src/actor/mod.rs`). Its `select!` is biased: a finished
  task is joined before the next command is handled.
- **A request task** (`actor/request_task.rs`). `LoopHead` looks at the token; the
  connection attempt (`Connect`, `ConnectFails`) and the backoff (`Wake`) do not; the
  stream does, and prefers it. What an error leads to is `Stops`, `HasRetries` and the
  three counters; the classes of errors are those the code tells apart.
- **The drainer** (`Drain`) shows events in order. A `Completed` releases the barrier that
  is installed at that moment, whichever request it was installed for, as the code does:
  it never compares request ids.

`Retrying` and `Failed` events are shown and change no state, so they are not kept.

### `LeaderElection`

Clients run `connect_or_spawn`, leaders `run_leader`; `pc` says where each is. A lock file
is an inode; `lockPath` is the one `leader.lock` names, `fd` what each process has open,
`locked` and `pid` its flock and content. `sock` is the leader whose socket `leader.sock`
is. Every open, flock, write, unlink, bind and connect is a step of its own. `Crash` is the
death of a leader anywhere (the kernel releases its flock, the files stay), `ClientExit` that
of a client that holds the lock, and a `slow` fault a boot that outlasts the spawner's
timeout. Waits are
polls with a deadline in the code: the model has the poll and the deadline as alternatives
wherever another process can be slow. `torn` records that a lock file was unlinked while
another process had it open, the one event after which two inodes can be locked at once.

### `LeaderRouter`

One root session and its subagents. The agent's messages come through one FIFO stream and
the agent never reads the tables, so sending and routing a message is one step; only the
lines of a replay, sent in one go, are routed one by one, and the agent's next message
waits behind them. `load_session` is split where other requests come between its parts. An
idle unload is two steps, `CheckIdle` and `Unload`, because the code awaits between the
check and the shutdown. `cut` and `meta` are what a reload uses to find subagents that
nobody runs any more. A disconnect hands the driver role on; a restart empties the tables
and keeps the files.

### `SessionLoad`

An update has two names: its place in the order of sending, and its eventId, which it gets
when it is stamped.

- **Sending.** Text, tool calls, their completions and mode updates are stamped as they
  enter `event_tx` (`Enqueue`) and sent when the session actor comes to them
  (`EmitBuffered`). The user's echo, bash output and the mode update of the notification
  bridge are stamped and sent at once (`EmitDirect`), past what waits in the channel. So
  neither the wire nor the file is in the order of the ids. Sending (`Emit`) is to the
  persistence queue and, while the gate is open, to the gateway; an echo may be persisted
  only (`hidden`), and the bridge's mode update does not look at the gate. `Scripts` bounds
  which kinds of update are stamped in which order; when they are sent is left open.
  Debouncing in the `ReplayBuffer` is off, as it is in a pager's session.
- **The file.** The persistence actor merges consecutive text chunks into a line that
  carries the id of its last.
- **`load_session`** closes the gate, flushes, replays the file up to an offset, flushes
  again, replays the rest, opens the gate and answers. A flush is a command, which the
  actor takes only when `event_tx` is empty (its `select!` is biased,
  `impl/run_loop.rs:155`). Each of the two reads has its own `pending_tool_calls`: a tool
  call is withheld until the read comes to its completion, which then carries it (`Folds`);
  an update of a tool call without a final status is not forwarded (`Forwarded`).
- **The leader** buffers live updates for a loading client and, at the response, drops
  those at or below the highest id of the replay (`cutoff`); **the pager** drops a live
  update at or below its `highwater`, and renders replayed lines without it.

Faults are flush timeouts, failing loads and disconnects.

## 3. Runs

Deadlock checking is off everywhere: prompts, requests, updates and faults are bounded, so
a system that has used them up rests for ever, which is what a real idle agent does.

| run | instance | checks | distinct states |
|---|---|---|---|
| `answered` | one user prompt and a stranded interjection; send-now, goal, cancel, rewind; fairness | `NoOrphanTurn`, `NoStrandedInterjection`, `EveryPromptIsAnswered` | 244,000 |
| `preempt` | a user prompt against a queued wake, notifications of both priorities, a drain turn, waits, consumed completions, Ctrl-C | `FrontIsRunning`, `UserPromptNeverDropped`, `IdleMeansDrained`, `NoDrainTurnWhileSuppressed` | 839,000 |
| `queue_edits` | prompts of two clients and a cron prompt, every edit, versions 0..1 | `PendingIsHeld`, `MirrorIsFresh` | 138,000 |
| `goal` | goal turns with continuations and summaries, stacked send-now prompts, waits, a foreground subagent | `TypeOK`, `WaitDepthIsLive`, `QueueNeverStalls`, `TerminalOnce`, `EndedTurnsHaveTerminal`, `SendNowFirst`, `NoDoubleSpawn`, `SendNowFifo` | 722,000 |
| `teardown` | a user prompt and a resumed plan; MCP and plan promotions during cancel, teardown cancel, shutdown | `PinAgreesAtCancel`, `ImplementsLedger` | 341,000 |
| `sampler` | two requests of one turn or two, every class of error, aborted turns, a lagging drainer; fairness | `TypeOK`, `OperationRetriesBounded`, `FreshBudget`, `OrphanIsCancelled`, `ToolsFollowText`, `EveryRequestEnds` | 387,000 |
| `election` | one client, an old leader to replace, two successors, one fault; fairness | `TypeOK`, `PidAgreesWithLock`, `SingleLeader`, `ClientIsServed` | 215,000 |
| `router` | two clients that load and one that prompts, a subagent, a question, one restart | `TypeOK`, `LoadedFollowsSubagents`, `RootIsDriven`, `SubagentIsDriven`, `LoadedShowsOpenQuestions`, `FinishedIsUnrouted` | 563,000 |
| `load` | two clients load while the session sends one of six series of two or three updates, one fault | `TypeOK`, `TranscriptInOrder`, `MissesAreAccounted`, `GateIsHeld`, `HeldForALoad` | 3,440,000 |

The session runs are split by feature because the product of all features is out of reach;
each contains the pairs of actors whose interleavings its properties are about.

**Bounds.**

- Session actor: two or three prompts suffice for the races here: each is between a turn,
  its successor and one more queued prompt. `MAX_PENDING_NOTIFICATIONS` is 50 in the code
  and 1 in the runs, so that the cap is met. `MaxVersion` bounds the edits of a row,
  `MaxDepth` nested waits and subagents, `MaxOrder` the rows a reorder names. A
  notification is injected only while a drain prompt is left for it (`InjectNotification` says so). User prompts of
  one client are interchangeable, so runs without liveness use symmetry.
- Sampler: two requests, in two passes of one turn or in two turns, are a request and the
  straggler before it. `MaxRetries` is 2, the other budgets 1: each is met, and a charge
  too many is seen. The second request has images, so that stripping them meets every
  state the first has left behind.
- Election: one client and one fault keep liveness within reach. Two racing clients, and
  any number of faults, are what the three theorems and the run `unreachable_leader` are
  about. Five inodes are more than the path and the four processes' descriptors ever need
  at once.
- Router: `MAX_SUBAGENT_DEPTH` is 1 in the code. A buffer of one (`MaxBuffer`) overflows
  with the second held message; one restart separates the processes before and after it.
- Load: the gaps are between an update and its successor, or one that overtakes it. The
  six `Scripts` are text that merges, text that an echo or a mode update follows or
  overtakes, a tool call that completes in time or late, one with an unseen echo behind it,
  and output that overtakes a call and text; a buffer of one overflows.

**Scope of the claims.** `IdleMeansDrained` is checked and proved for cancels but not for
rewinds: a rewind cancel ends idle without draining. `MirrorIsFresh` is about sessions
without a teardown cancel, which empties the queue and broadcasts nothing; `SendNowFirst`
and `SendNowFifo` are about sessions without a reorder, with which a client may move any
row, and `SendNowFifo` also without the promotion of a queued row, which sends the row
again. `SendNowFifo` speaks of new rows only: an interjection that no turn merged goes to
the front, before earlier send-now prompts. `ToolsFollowText` exempts
a barrier that timed out or was released by the `Completed` of an earlier request.
`FreshBudget` allows each cancelled straggler to take one retry of the next turn.
`MissesAreAccounted` and `TranscriptInOrder` exempt a client whose buffer overflowed or
whose flush timed out. What a client lacks was sent after its second flush behind a closed
gate; or an update with a higher id was sent before it (`Overtaken`: live, the highwater or
the cutoff may drop it); or it was in the file when the delta was read and both reads kept
it back (`KeptBack`: an update without a final status, or a tool call whose completion was
not in the same read). `TranscriptInOrder` allows two rows in the order of sending, which
is that of the file, or in that of the ids, which the highwater enforces, but none against
both. `WaitDepthIsLive` bounds the depth by the guards that are held; one that a
subagent enters after its turn was cancelled is among them (section 4).
`SingleLeader` exempts what follows an unlink of an open lock file.
`ClientIsServed` exempts a leader whose socket was removed under it (the run
`unreachable_leader`, which nothing in the code repairs) and a client that would need more
leaders than the instance has.
`FinishedIsUnrouted` leaves out two leaks (section 4).

**Fairness.** Nothing is assumed of users.

- Session actor: `WF` of the main loop (the runtime polls the actor), of the MCP task and
  the plan resume once decided, and of a turn's steps before and after its loop; the
  `LocalSet` drops aborted tasks. Nothing makes a turn leave its loop: it may wait for a
  permission, a question or a plan approval, which have no timeout
  (`session/pending_interaction.rs:3`), or for a silent provider. `EveryPromptIsAnswered` is
  therefore conditional: if no turn stays in its loop for ever (`TurnsEnd`: it ends or is
  cancelled), every prompt is answered. Waits are left out of `answered`: a wait may last as
  long as the task it waits for.
- Sampler: `WF` of the actor, the drainer, the request tasks and the turn's waits, with one
  exception: the answer to a connection attempt, since nothing bounds the wait for the
  response headers. `EveryRequestEnds` therefore says that a request ends unless its
  provider stays silent. It also takes a stream to be finite (`MaxChunks`): the idle
  timeout (300 s) is per chunk (`atelier-sampler/src/stream/chat_completions.rs:30`), and a
  provider that sends chunks for ever is stopped only by a cancel.
- Election: `WF` of every process. Each wait is a poll with a deadline, and a client that
  ended with an error tries again.

## 4. Disagreements between comments and code

Each `violation` run states what a comment or doc says; TLC finds the behaviour that breaks
it.

| run | claim | what happens |
|---|---|---|
| `rewind_race` | the rewind cuts at the rewound turn's item | before the prompt is recorded it cuts the previous turn |
| `unreachable_leader` | the socket is removed while holding the lock; a duplicate leader exits cleanly | a duplicate that gives up removes the socket of the leader that serves |
| `question_twice` | a question is broadcast, the first answer wins | a client that loads as it is asked gets it twice, and the pager cancels the copy |

Others are visible in the models, or were met while reading, and have no run:

- *Retry budget* (`impl/turn.rs:1742`: a later turn "starts fresh"). A cancelled request in
  a connection attempt charges the shared counter after the next turn's reset.
  `FreshBudget` bounds the loss.
- *Stream-drain barrier* (`session/acp_session.rs:853`: text precedes tool calls). The
  `Completed` of an aborted request, drained after the next submit, releases that request's
  barrier early; without its exception `ToolsFollowText` fails.
- *Identical stream* (`leader/server.rs:444`: all subscribers render the same stream). A
  client attached all along gets nothing that was emitted while another one's load held the
  gate closed (`agent/mvp_agent/acp_agent.rs:894`). `MissesAreAccounted` bounds the loss.
- *Order of ids* (`impl/updates.rs:187`: a direct send would overtake queued chunks, which
  the client then drops, so mode updates are queued). The user's echo, bash output and the
  bridge's own mode update (`tools/notification_bridge.rs:137`) are still sent directly;
  what they overtake is dropped by the highwater, live, or by the cutoff after a load.
- *Bash output* (`tools/notification_bridge.rs:219`: persisted "so bash output survives
  replay"). It is a tool call update in progress, which no replay forwards
  (`agent/mvp_agent/mod.rs:1451`); what a reload shows is the output in the completion. A
  tool call that is still running, and the one whose completion falls into the delta read,
  lack their call in the replay.
- *Wait depth* (`impl/tasks_cancel.rs:485`: the reset keeps a cancelled turn's guards from
  cancelling the next turn). A subagent's task that begins after the reset raises the depth
  again, until it finds that its turn has gone.
- *Buffer overflow* (`leader/server.rs:41`: only the ordering suffers). The pager's
  highwater drops the buffered updates that arrive late.
- A load that fails after closing the gate leaves it closed until the next load
  (`GateIsHeld` allows it).
- A preempted wake is un-marked in one of the two sets that record its completion
  (`impl/prompt_queue.rs`); a swept cron prompt has a client waiting for it although the
  comment says none does.
- The goal gate is read when a prompt is queued and not again before the cancel, so a turn
  that enters its goal in between is cancelled by a send-now (`impl/prompt_queue.rs:179`
  says a goal turn "never cancels"); and a turn may set the gate again between the cancel's
  clear and the abort.
- `SweptNotifications` appends the monitor buffer to `pending_notifications` without the
  cap (`impl/notification_drain.rs:6`). An interjected row is promoted in the queue, while
  the doc of its handler says that it is moved to the interjections
  (`impl/prompt_queue.rs:415`).
- Routes that leak: a request of a third client between a replayed spawn and its replayed
  finish, and a spawn in the delta replay whose finish the file lacks.
- `is_turn_active` lags behind the slot (`impl/run_loop.rs:386`): an event routed to the
  mid-turn buffer as the turn ends waits for the next one. `drain_old_session_thread` may
  meet a session that is resident again (`agent/mvp_agent/agent_ops.rs:1534`).

## 5. Refinement

`PromptLedger` has no queue, locks or cancel protocol: prompts are accepted, started in a
free slot at most once, completed, released by a cancel and told one outcome that fits.
`SessionActor` implements it with `running <- running_task` and
`started <- {p : turn[p] # "none"}` (`ImplementsLedger`, run `teardown`, theorem
`LedgerCorrect`). The mutant that frees the slot for a stale completion breaks it.

## 6. Proofs

Every theorem is for all values of the constants that satisfy the named assumptions, which
TLC evaluates in every run of the module. Each component has one inductive invariant, a
conjunction of named parts; a proof has one lemma per action, or per group of actions that
leave the same part alone, and in it one step per part the action can disturb. Each
inductive invariant also holds, by TLC, on the instances of its component's passing runs.

### Filters

Filters are written without recursion: `Subsequence` picks the k-th element by its rank
among the kept indices. `SubsequenceProofs` proves from the cardinality theorems that ranks
are onto and increasing, hence that the result is a sequence with exactly the kept elements,
in their order, keeps its head, and is the same for sequences that differ in what is
filtered out. The sweeps of the session actor, the buffers the leader
releases and the pager's high-water filter all use it.

### Session actor: types and queue

All constants are arbitrary but for `QueueConstants` and `SessionConstants`: prompts are a
finite set, `None` is none of the ids, the attribute functions have their types, a prompt
has a completion id exactly when it is a wake, bounds are naturals.

- `TypeCorrect`: `Spec => []TypeOK /\ []PopHasCompletion`. `TypeOK` is not inductive by
  itself: `PopCompleted` takes the head of the completion channel, which is defined only
  because the section `pop` is scheduled by `Completion` alone, as its first section, and
  nothing but `PopCompleted` consumes the channel. `PopHasCompletion` says so: `pop` is
  never behind another section, and when it is next the channel is not empty. `Stutter`
  handles the groups of state an action leaves alone.
- `FrontCorrect`: `Spec => []FrontIsRunning`. Inductive relative to `TypeOK`. The argument
  is about sequences: a filter that keeps the head keeps it first (`RetainHead`), an insert
  behind the running slot leaves the head (`InsertSendNowType`, `InsertFallbackType`,
  `InsertAllFallbacksType`), a reorder puts the pinned part first (`ReorderedType`). Then
  each sweep exempts the running prompt, each edit refuses it, a completion pops the front
  only together with the slot, a cancel empties the slot, and only a promotion, of the
  front, fills it.
- `UsersKept`: `Spec => []UserPromptNeverDropped`. The only steps that settle prompts as
  dropped are `queue_input`'s preemption and shutdown, and as consumed the sweep of
  reported completions; all choose synthetic prompts.

### Session actor: turns

`SessionTurnProofs` sees the main loop through the section it runs next (`Stage`); what
is scheduled is always the rest of one handler (`LoopOrdered`). The invariant is

    TurnInv == LoopOrdered /\ Slot /\ Terminals /\ (~stopped => Sound)
    Sound   == CancelPhase /\ Pinned /\ Holding /\ Started /\ Slot /\ Terminals
               /\ Waiting /\ Draining /\ Promoting

and its parts need each other. `Holding` says where the prompts are that are owed an answer,
and is kept by a cancel only because `CancelPhase` knows what the cancel's locals hold at
each of its sections. `Slot` says that a live turn is the slot's or the one that the cancel
in progress has yet to abort, and that a finished one in the slot has its completion in the
channel; `Terminals` that a turn that is over has been reported unless it is still in one
of these places. `Pinned` excludes the states in which a stale completion would be taken
for the current turn's. `Draining` and `Promoting` say, stage by stage, who is still to
promote a queued prompt or flush an interjection. `Waiting` bounds the wait depth by the
guards of the slot's turn and of subagents, except between the sections of a cancel that
has emptied the slot and not reset the depth yet; a late drop keeps it because it
saturates. After a shutdown the session takes no
step that matters, and only `Slot` and `Terminals` are kept.

- `TurnsCorrect` is `Spec => []TurnInv`. From it: `OrphanCorrect` (`NoOrphanTurn`),
  `TerminalCorrect` (`TerminalOnce`), `EndedCorrect` (`EndedTurnsHaveTerminal`),
  `PinCorrect` (`PinAgreesAtCancel`), `WaitDepthCorrect` (`WaitDepthIsLive`),
  `StallCorrect` (`QueueNeverStalls`), `StrandedCorrect` (`NoStrandedInterjection`) and
  `HeldCorrect` (`PendingIsHeld`, which counts the places with cardinalities).
- Action properties: `SpawnCorrect` (`NoDoubleSpawn`), because a promotion takes the front,
  which `Started` knows not to have run; `SuppressionCorrect` (`NoDrainTurnWhileSuppressed`),
  because `Draining` says that a notification turn is promoted in the section after the one
  that queued it.

### Session actor: promises

`SessionPromiseProofs` builds on `TypeOK`, `FrontIsRunning` and `TurnInv`.

- `LedgerCorrect`: `Spec => ImplementsLedger`. Step simulation: each action is one ledger
  step or leaves `fate`, `running_task`, `stopped` and the started prompts alone. `Holding`
  and `Started` give the guards of the ledger's steps: whoever is told an outcome was owed
  one, and the outcome fits whether a turn was started.

The next three see a step only by what it does to the queue. `NextMove` shows that each step
but `Shutdown` is one of eleven kinds (`QueueMove`: nothing, a row's version, a promotion, a
removal, an append, an insert behind the send-now prompts, a flush of interjections, a pop,
and so on) and whether it broadcasts.

- `MirrorCorrect` (`MirrorIsFresh`), if `"kill"` is not among `Commands`. The invariant
  `Mirrored` is stronger: the last broadcast shows the rows queued in *every* state, not
  just at rest. Most of the proof (`QuietMove`) is that the moves without a broadcast do not
  touch a row. A pop takes the front, which as the running turn was no row;
  continuations, notifications and interjections carry no queue metadata; a filter to rows
  does not see a segment spliced in that holds none (`RetainSplice`).
- `SendNowFirstCorrect` (`SendNowFirst`), if no client reorders rows. `Ahead` says the same
  without positions, so that it survives a queue whose front is gone: whatever is queued
  before a marked prompt is marked itself or the running turn. `SendNowSent`, which comes
  from the ledger, says that a prompt is marked only once sent, so an append never puts a
  marked prompt last.
- `SendNowFifoCorrect` (`SendNowFifo`), if no client reorders or promotes rows. Every move
  preserves the order of what stays (`MoveKeepsOrder`); a row that is newly marked was
  inserted by this step (`MoveMarks`), and by `Ahead` it lands behind all marked ones
  (`InsertBehind`).
- `DrainCorrect` (`IdleMeansDrained`), if `"rewind"` is not among `Commands`.

      DrainInv == ~stopped => DrainDue /\ CompletionDrains /\ Reengaged /\ HeldBack

  `DrainDue`: an idle session with notifications is in a handler that will drain. The parts
  say why each step that makes it idle keeps this: a completion drains at its end
  (`CompletionDrains`); a cancel suppresses notifications from when it takes the turn
  (`HeldBack`); if it lifts the suppression again it does so for a user's prompt that is
  queued and that it did not cancel (`Reengaged`), so the session is not idle. An edit that
  removes rows cannot make the session idle, as a row never waits without a turn while the
  loop rests (`RowsCorrect`, by induction with `TurnInv`).

TLC finds a counterexample to each of the four properties when a command its theorem
excludes is added to the instance of its run.

### Sampler

All that is assumed is `RequestsAssumption`, `ImagesAssumption` and `BudgetAssumption`:
any number of requests and passes, any of them with images, budgets that are naturals.

    IInv == TypeOK /\ TurnHasRequest /\ FutureUntouched /\ Lifecycle /\ OrphanIsStopped
            /\ AwaitedIsCurrent /\ Charged /\ StreamOrder

- `SamplerTypeCorrect`: `TypeOK`.
- `RetriesCorrect` (`OperationRetriesBounded`), `FreshBudgetCorrect` (`FreshBudget`) and
  `OrphanCorrect` (`OrphanIsCancelled`). Whether a straggler can charge the budget of a new
  pass depends on the order of commands in the channel. `OrphanIsStopped`: a request that
  no turn waits for has its Cancel behind anything that could start it, and a reset behind
  that Cancel once the next pass has begun. So by the time the reset is handled every
  earlier request is stopped, and a stopped request charges once at most, for the attempt
  it was in; `Charged` counts these.
- `BarrierCorrect` (`ToolsFollowText`). `StreamOrder`: nothing of a request follows its
  `Completed` in the event channel, so a barrier released by the request's own `Completed`
  has all its text shown.

### Election

`ElectionAssumption` is all that is assumed: any number of clients, leaders, inodes and
faults, at most one old leader. The inductive invariant is

    IInv == TypeOK /\ Descriptors /\ Names /\ PidAgreesWithLock /\ OnePath

- `ElectionTypeCorrect`: `Spec => []TypeOK`; a lock is held through an open descriptor.
- `PidCorrect`: `Spec => []PidAgreesWithLock`. Not inductive alone: that a file naming a
  live leader is locked by it needs to know, at each program point, which descriptor the
  process has and whether it holds its lock (`Descriptors`), and which processes have
  written their pid, and where (`Names`): none before it holds the lock, and a leader that
  holds its lock past that point is named by the file it locked.
- `SingleLeaderCorrect`: `Spec => []SingleLeader`. Two leaders that serve hold two locks;
  a lock has one holder, so they have two inodes open. `OnePath` says that, while `torn` is
  false, every open descriptor is the file the path names, so they are the same inode. The
  unlinks are the steps that could break it, and each either finds no other descriptor on
  the file or sets `torn`.

### Router

`RouterAssumption`: finitely many subagents and questions; clients, restarts and the buffer
limit are arbitrary.

    IInv == TypeOK /\ Channels /\ Attendance /\ RootIsDriven /\ Recorded /\ Routes /\ Asked

- `RouterTypeCorrect`, `RootDrivenCorrect`: `TypeOK`, `RootIsDriven`.
- `FollowsCorrect` (`LoadedFollowsSubagents`), `SubagentDrivenCorrect`
  (`SubagentIsDriven`). `Attendance`: the root's subscribers are the clients that are there,
  so a live spawn reaches all of them. `Recorded`: the file has the spawn of whatever runs,
  and no finish. `Routes` then says that a client that had the replay follows each running
  subagent or has the line that will make it on the wire.
- `UnroutedCorrect` (`FinishedIsUnrouted`). A replayed spawn may set up the route of a
  finished subagent again: `ReplayEnds` and `StaleEnds` say that the replayed finish
  follows on the wire to the same client, or that the reconciliation at the end of that
  load removes it.
- `QuestionsCorrect` (`LoadedShowsOpenQuestions`). `Asked`: the cache is what is open, and
  what a client shows, with its held messages applied, is open too.

### Load

`LoadAssumption`: any clients, any of them attached, any series of updates, any bounds.

    IInv == Types /\ Stamps /\ OnDisk /\ Queued /\ Texts /\ Attendance /\ Stages
            /\ Answered /\ LiveOrder /\ LoadsInOrder /\ Serves /\ Owes /\ GateIsHeld

- `LoadTypeCorrect`, `GateCorrect` (`GateIsHeld`): inductive with the types of the channels.
- `HeldLoadCorrect` (`HeldForALoad`). `Stages` and `Answered`: the response of a load that
  has ended is on the wire, last, until the leader takes it.
- `InOrderCorrect` (`TranscriptInOrder`). Two orders are kept apart. `OnDisk` and `Queued`:
  file, pending line and queue hold every place once and in the order of sending, whatever
  the ids. `Stamps`: ids differ; what went through `event_tx` alone (text, calls,
  completions) is sent in the order of its ids, and whatever still waits in the channel is
  younger than what of these was sent. `Texts`: only text is merged, so a line carries the
  highest id of what it covers. Then `LoadsInOrder`: a loading client shows replayed rows in
  the order of sending, its cutoff is the highest id among them, and the replay lines on the
  wire go on from there. What the response releases has an id above the cutoff, hence above
  all rows shown, and comes in the order of sending; whatever is under way to the client
  afterwards was sent later than all it shows (`Cutover`, `Serves`). That no tool call is
  shown both folded and by itself follows from `Stamps`: a call's completion has the higher
  id, so the cutoff that the completion sets drops the call from the buffer.
- `MissesCorrect` (`MissesAreAccounted`). `Flushed` and `Delta`: all that was sent before
  the second flush is in the file when the delta is read, and each of it is shown, folded,
  on the wire, or kept back by the two reads. `Owes`: each later update is shown, buffered
  or on the wire, was sent behind the gate, or is lost in one of the two ways that the
  property names: it was overtaken, or kept back.

### Model-checked only

- Liveness (`EveryPromptIsAnswered`, `ClientIsServed`, `EveryRequestEnds`): out of the
  prover's reach.
- The violation runs, which are counterexamples.

## 7. Not modelled

- *Session actor:* the commands of the same loop that touch none of the modelled state.
- *Sampler:* `UpdateConfig` and the two queries, which change no state modelled; a duplicate
  request id (ids are random); a task that panics; the actor's shutdown, reached only as
  the runtime is dropped; contents, and the prompt id under which a stale chunk is sent.
- *Election:* the Windows layout with its guard file, the force kill of a leader that does
  not answer, several leaders by web-socket suffix, the limit on a client's reconnects.
- *Router:* the fallback to the last active client, machine-wide broadcasts, the busy
  tracking of pending requests, failed and cursor loads, relay clients.
- *Load:* the extension stream, which has its own highwater in the pager and shares the
  leader's cutoff; updates that are not persisted (available commands, tool call deltas,
  turn-end plan cleanup); tool calls that are complete when they are announced, which are
  forwarded like text; empty chunks, which the persistence actor skips; the merging in the
  replay buffer, for clients that ask for it; cursor reconnects; the reset of event ids by
  a restart; an idle unload during a load.
- *Auth:* every manager the program builds is `AuthManager::new_local`, for which the
  refresh and its lock file are not reached; only tests run them.
- *Permissions and folder trust* are decision tables without concurrency; *compaction*,
  the *hunk tracker*, rendering and text processing depend on contents; *providers,
  telemetry, sandbox, hooks, memory, configuration* are I/O and data transformation. They
  have no protocol for a model checker to explore, and they are most of the repository's
  million lines: the models cover the protocols, which are a small share of them.

## 8. Plan

Done: session actor, election, router, load and sampler, modelled and proved. Next, in this
order:

1. Properties for the hazards that have none: the pin wiped by a late cancel, the goal gate
   read early, the cap exceeded by a sweep, the unload of a session that is in use again.
2. Chat state (prompt index, truncation, tool-call pairing), composed with `SessionActor`
   in place of `history`; tool hub (reconnect with calls in flight); workspace worker
   handshake; worktree pool.

## 9. Running

    tlc -config Goal.cfg MCSessionActor
    tlc -config Sampler.cfg MCSampler
    tlc -config Election.cfg MCLeaderElection
    tlc -config Router.cfg MCLeaderRouter
    tlc -config Load.cfg MCSessionLoad
    tlapm SubsequenceProofs.tla
    tlapm SessionActorProofs.tla
    tlapm SessionTurnProofs.tla
    tlapm SessionPromiseProofs.tla
    tlapm SamplerProofs.tla
    tlapm LeaderElectionProofs.tla
    tlapm LeaderRouterProofs.tla
    tlapm SessionLoadProofs.tla
