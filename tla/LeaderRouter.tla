------------------------------ MODULE LeaderRouter ------------------------------
(***************************************************************************)
(* How the leader routes what the agent sends for one session and its      *)
(* subagents: run_leader_server's tables and the messages that change      *)
(* them.                                                                   *)
(*                                                                         *)
(*   the clients    any request that names the session subscribes its      *)
(*                  sender; session/load also asks for the history         *)
(*   the leader     subscribers and driver per session, the child sessions *)
(*                  of the root, live messages held back during a load,    *)
(*                  the questions that are still open                      *)
(*   the agent      spawns and finishes subagents, asks questions, answers *)
(*                  loads with the root's updates.jsonl, and unloads an    *)
(*                  idle session nobody views; its background subagents    *)
(*                  run on without it                                      *)
(*                                                                         *)
(* The agent's messages reach the leader through one FIFO channel and the  *)
(* agent never reads the leader's tables, so sending a message and routing *)
(* it is one step: whatever clients do meanwhile may as well come first.   *)
(* Only the lines of a replay, sent in one go, are routed one by one, and  *)
(* the agent's next message waits behind them.                             *)
(* MAX_SUBAGENT_DEPTH is 1: the forest child_sessions is one level deep.   *)
(***************************************************************************)
EXTENDS Integers, Sequences, SequencesExt, FiniteSets

CONSTANTS
    Clients,      \* the leader's ClientIds; a reconnect gets a new one
    Loaders,      \* bound: the clients that load the session; the others prompt only
    Root,         \* the session the clients work in
    Subagents,    \* its child sessions
    Questions,    \* tool_call_ids of blocking interaction requests
    MaxBuffer,    \* MAX_BUFFERED_LIVE_PER_LOAD
    MaxRestarts,  \* bound: restarts of the leader's process
    None

ASSUME RouterAssumption ==
    /\ Root \notin Subagents
    /\ None \notin Clients
    /\ Loaders \subseteq Clients
    /\ IsFiniteSet(Subagents) /\ IsFiniteSet(Questions)
    /\ MaxBuffer \in Nat
    /\ MaxRestarts \in Nat

VARIABLES
    conn,       \* "new", "up" or "gone", per client
    subs,       \* session_subscribers; a missing entry is the empty set
    driver,     \* session_driver
    kids,       \* child_sessions of the root
    loading,    \* pending_load_by_req: clients that wait for their response
    buf,        \* load_live_buffer
    cache,      \* interaction_requests of the root
    resident,   \* the agent has the root's session in memory
    evict,      \* evict_sessions notices under way: "sent", or "idle" once checked
    alive,      \* SubagentCoordinator: the subagents that run
    cut,        \* subagents whose parent's actor was shut down since the spawn
    meta,       \* subagents whose meta.json says "running"
    ask,        \* "new", "open" or "closed", per question
    log,        \* the spawned and finished lines of the root's updates.jsonl
    load,       \* how far load_session got, per client
    wire,       \* response_rx: replayed lines the leader has not routed yet
    off,        \* replay_end_offset, per client
    unfinished, \* unfinished_subagents of a load's replay
    modal,      \* the pager's open questions
    routed,     \* history: subagents whose spawn was routed live
    caught,     \* history: finished subagents a request or a delta gave a route
    twice,      \* history: questions a pager got while it already showed them
    degraded,   \* history: clients whose buffer overflowed
    restarts    \* history: restarts so far

leaderVars == <<subs, driver, kids>>
holdVars   == <<loading, buf, modal, twice, degraded>>
loadVars   == <<load, wire, off, unfinished>>
unloadVars == <<resident, evict, cut>>
agentVars  == <<unloadVars, alive, meta, ask, log>>
history    == <<routed, caught, restarts>>
vars == <<conn, leaderVars, holdVars, cache, agentVars, loadVars, history>>

Sessions == {Root} \cup Subagents

Spawned(k)  == [event |-> "spawned", child |-> k]
Finished(k) == [event |-> "finished", child |-> k]
Replayed(c, lines) == [i \in DOMAIN lines |-> [to |-> c, line |-> lines[i]]]
Loads == {"none", "requested", "replay", "delta", "done"}

\* The session runs, its creator has left.
Init ==
    /\ conn = [c \in Clients |-> "new"]
    /\ subs = [s \in Sessions |-> {}] /\ driver = [s \in Sessions |-> None] /\ kids = {}
    /\ loading = {} /\ buf = [c \in Clients |-> <<>>] /\ cache = {}
    /\ resident = TRUE /\ evict = {} /\ alive = {} /\ cut = {} /\ meta = {}
    /\ ask = [q \in Questions |-> "new"] /\ log = <<>>
    /\ load = [c \in Clients |-> "none"] /\ wire = <<>>
    /\ off = [c \in Clients |-> 0] /\ unfinished = [c \in Clients |-> {}]
    /\ modal = [c \in Clients |-> {}]
    /\ routed = {} /\ caught = {} /\ twice = {} /\ degraded = {} /\ restarts = 0

--------------------------------------------------------------------------------
(* Routes. *)

\* Slip: the driver is not inherited.
BackfillWithoutDriver(c, sub, drv) ==
    [subs |-> [s \in Sessions |-> IF s \in kids THEN sub[s] \cup {c} ELSE sub[s]],
     driver |-> drv]

\* backfill_child_routes: a client that joins the root joins every child, and a
\* child without a driver gets the root's.
Backfill(c, sub, drv) ==
    [subs   |-> [s \in Sessions |-> IF s \in kids THEN sub[s] \cup {c} ELSE sub[s]],
     driver |-> [s \in Sessions |-> IF s \in kids /\ drv[s] = None
                                    THEN drv[Root] ELSE drv[s]]]

\* A message of the client names the root: it subscribes, and drives if nobody does.
Join(c) ==
    LET sub == [subs EXCEPT ![Root] = @ \cup {c}]
        drv == [driver EXCEPT ![Root] = IF @ = None THEN c ELSE @]
        r == Backfill(c, sub, drv) IN
    /\ conn[c] \in {"new", "up"}
    /\ conn' = [conn EXCEPT ![c] = "up"]
    /\ subs' = r.subs
    /\ driver' = r.driver
    /\ caught' = caught \cup (kids \ alive)
    /\ UNCHANGED <<kids, routed, restarts>>

\* prune_child_route
Prune(k) ==
    /\ subs' = [subs EXCEPT ![k] = {}]
    /\ driver' = [driver EXCEPT ![k] = None]
    /\ kids' = kids \ {k}

\* SubagentSpawned comes live: the child gets the root's subscribers and driver.
\* Nothing is recorded of a child of a session nobody subscribes to.
RouteSpawned(k) ==
    IF subs[Root] = {}
    THEN UNCHANGED <<leaderVars, routed>>
    ELSE /\ subs' = [subs EXCEPT ![k] = subs[Root]]
         /\ driver' = [driver EXCEPT ![k] = IF driver[Root] = None THEN @ ELSE driver[Root]]
         /\ kids' = kids \cup {k}
         /\ routed' = routed \cup {k}

\* SubagentFinished comes live: to the root's subscribers; if there are none, the
\* child's route goes if nobody holds it.
RouteFinished(k) ==
    IF subs[Root] # {} \/ subs[k] = {} THEN Prune(k) ELSE UNCHANGED leaderVars

\* Slip: a replayed spawn registers known children only.
RegistersKnown(c, k) ==
    /\ subs' = IF k \in kids THEN [subs EXCEPT ![k] = @ \cup {c}] ELSE subs
    /\ UNCHANGED <<driver, kids>>

\* A replayed line, addressed to the loading client: only its own subscription
\* changes. If the client has gone, a finish still prunes a route nobody holds.
Registers(c, k) ==
    /\ kids' = kids \cup {k}
    /\ subs' = [subs EXCEPT ![k] = @ \cup {c}]
    /\ UNCHANGED driver

Unregisters(c, k) ==
    IF subs[k] = {c}
    THEN Prune(k)
    ELSE /\ subs' = [subs EXCEPT ![k] = @ \ {c}]
         /\ UNCHANGED <<driver, kids>>

RouteReplayed(c, line) ==
    LET k == line.child IN
    CASE conn[c] = "up" /\ line.event = "spawned"   -> Registers(c, k)
      [] conn[c] = "up" /\ line.event = "finished"  -> Unregisters(c, k)
      [] conn[c] # "up" /\ line.event = "finished" /\ subs[k] = {} -> Prune(k)
      [] OTHER -> UNCHANGED leaderVars

--------------------------------------------------------------------------------
(* The clients. *)

\* A request other than session/load: a prompt, or what a dashboard asks.
Request(c) ==
    /\ Join(c)
    /\ UNCHANGED <<holdVars, cache, agentVars, loadVars>>

\* session/load: from now on live messages are held back for the client.
RequestLoad(c) ==
    /\ c \in Loaders
    /\ load[c] = "none"
    /\ Join(c)
    /\ loading' = loading \cup {c}
    /\ load' = [load EXCEPT ![c] = "requested"]
    /\ UNCHANGED <<buf, modal, twice, degraded, cache, agentVars, wire, off, unfinished>>

\* Slip: the driver is cleared, not handed over.
HandsOverToNobody(c, d) ==
    \A s \in Sessions :
        d[s] = IF c \notin subs[s] \/ (subs[s] # {c} /\ driver[s] # c) THEN driver[s] ELSE None

\* ServerEvent::Disconnected. The sessions the client viewed lose it; a session
\* it drove goes to any other subscriber; one nobody is left to view keeps neither,
\* and the agent is told.
HandsOver(c, d) ==
    \A s \in Sessions :
        CASE c \notin subs[s] -> d[s] = driver[s]
          [] subs[s] = {c} -> d[s] = None
          [] OTHER -> IF driver[s] = c THEN d[s] \in subs[s] \ {c} ELSE d[s] = driver[s]

Disconnect(c) ==
    /\ conn[c] = "up"
    /\ conn' = [conn EXCEPT ![c] = "gone"]
    /\ subs' = [s \in Sessions |-> subs[s] \ {c}]
    /\ driver' \in {d \in [Sessions -> Clients \cup {None}] : HandsOver(c, d)}
    /\ loading' = loading \ {c}
    /\ buf' = [buf EXCEPT ![c] = <<>>]
    /\ modal' = [modal EXCEPT ![c] = {}]
    /\ degraded' = degraded \ {c}
    /\ evict' = IF subs[Root] = {c} THEN evict \cup {"sent"} ELSE evict
    /\ UNCHANGED <<kids, twice, cache, resident, cut, alive, meta, ask, log, loadVars, history>>

--------------------------------------------------------------------------------
(* Subagents, as the agent runs them. *)

\* The line is on its way to the disk before the message is sent, and a load
\* flushes before it reads.
Spawn(k) ==
    /\ resident /\ wire = <<>>
    /\ Spawned(k) \notin Range(log)
    /\ alive' = alive \cup {k} /\ meta' = meta \cup {k}
    /\ log' = Append(log, Spawned(k))
    /\ RouteSpawned(k)
    /\ UNCHANGED <<conn, holdVars, cache, unloadVars, ask, loadVars, caught, restarts>>

\* emit_subagent_notification: the line goes to the actor that spawned the subagent,
\* and is lost if that one was shut down; the message goes out in any case.
Finish(k) ==
    /\ k \in alive /\ wire = <<>>
    /\ alive' = alive \ {k} /\ meta' = meta \ {k}
    /\ log' = IF k \in cut THEN log ELSE Append(log, Finished(k))
    /\ RouteFinished(k)
    /\ UNCHANGED <<conn, holdVars, cache, unloadVars, ask, loadVars, history>>

--------------------------------------------------------------------------------
(* handle_evict_sessions: a session nobody views is unloaded if it is idle. *)

\* session_has_live_work: an open question means a turn that waits for it, or a
\* parked plan approval. A turn or a queued prompt without a question, or a slow
\* actor, also keeps the session: only the notice goes.
CheckIdle ==
    /\ "sent" \in evict
    /\ \/ /\ \A q \in Questions : ask[q] # "open"
          /\ evict' = (evict \ {"sent"}) \cup {"idle"}
       \/ evict' = evict \ {"sent"}
    /\ UNCHANGED <<conn, leaderVars, holdVars, cache, resident, cut, alive, meta, ask, log,
                    loadVars, history>>

\* Once every session of the notice is checked: nobody looks again whether the
\* session is still idle, or still without a client.
Unload ==
    /\ "idle" \in evict
    /\ evict' = evict \ {"idle"}
    /\ resident' = FALSE
    /\ cut' = cut \cup alive
    /\ UNCHANGED <<conn, leaderVars, holdVars, cache, alive, meta, ask, log, loadVars, history>>

--------------------------------------------------------------------------------
(* Questions: permission, ask_user_question and plan approval requests. *)

Shows(q)   == [show |-> TRUE, id |-> q]
Retracts(q) == [show |-> FALSE, id |-> q]

\* What a pager that shows open shows after the messages ms: the last one about a
\* question decides.
Rendered(open, ms) ==
    {q \in Questions :
        \/ /\ q \in open
           /\ \A j \in DOMAIN ms : ms[j] # Retracts(q)
        \/ \E i \in DOMAIN ms :
              /\ ms[i] = Shows(q)
              /\ \A j \in DOMAIN ms : j > i => ms[j] # Retracts(q)}

\* The questions among ms that the pager gets while it shows them already.
Again(open, ms) ==
    {q \in Questions : \E i \in DOMAIN ms :
        ms[i] = Shows(q) /\ q \in Rendered(open, SubSeq(ms, 1, i - 1))}

\* Slip: the buffer has no limit.
BuffersUnbounded(c) == c \in loading

Buffers(c) == c \in loading /\ Len(buf[c]) < MaxBuffer

\* A live message for the root: buffered for clients that load, sent to the others.
Broadcast(m) ==
    LET to == {c \in subs[Root] : ~Buffers(c)} IN
    /\ buf' = [c \in Clients |-> IF c \in subs[Root] /\ Buffers(c)
                                 THEN Append(buf[c], m) ELSE buf[c]]
    /\ modal' = [c \in Clients |-> IF c \in to THEN Rendered(modal[c], <<m>>) ELSE modal[c]]
    /\ twice' = twice \cup UNION {Again(modal[c], <<m>>) : c \in to}
    /\ degraded' = degraded \cup (to \cap loading)
    /\ UNCHANGED loading

\* The agent asks: the leader keeps the request, whether or not anyone is there.
Ask(q) ==
    /\ resident /\ wire = <<>>
    /\ ask[q] = "new"
    /\ ask' = [ask EXCEPT ![q] = "open"]
    /\ cache' = cache \cup {q}
    /\ Broadcast(Shows(q))
    /\ UNCHANGED <<conn, leaderVars, unloadVars, alive, meta, log, loadVars, history>>

\* Slip: the cache is only cleaned while somebody views the session.
EvictsIfViewed(q) == IF subs[Root] = {} THEN cache ELSE cache \ {q}

\* The first answer, or the end of the turn, drops the agent's guard: the
\* InteractionResolved it broadcasts evicts the request.
Evicts(q) == cache \ {q}
Resolve(q) ==
    /\ ask[q] = "open" /\ wire = <<>>
    /\ ask' = [ask EXCEPT ![q] = "closed"]
    /\ cache' = Evicts(q)
    /\ Broadcast(Retracts(q))
    /\ UNCHANGED <<conn, leaderVars, unloadVars, alive, meta, log, loadVars, history>>

--------------------------------------------------------------------------------
(* MvpAgent::load_session, as far as the routes depend on it. *)

Unfinished(lines) ==
    {k \in Subagents : Spawned(k) \in Range(lines) /\ Finished(k) \notin Range(lines)}

\* replay_session_updates: the file as it is after the first flush.
Replay(c) ==
    /\ load[c] = "requested" /\ wire = <<>>
    /\ load' = [load EXCEPT ![c] = "replay"]
    /\ wire' = Replayed(c, log)
    /\ off' = [off EXCEPT ![c] = Len(log)]
    /\ unfinished' = [unfinished EXCEPT ![c] = Unfinished(log)]
    /\ UNCHANGED <<conn, leaderVars, holdVars, cache, agentVars, history>>

RouteReplay ==
    /\ wire # <<>>
    /\ wire' = Tail(wire)
    /\ RouteReplayed(Head(wire).to, Head(wire).line)
    /\ UNCHANGED <<conn, holdVars, cache, agentVars, load, off, unfinished, history>>

\* replay_session_updates_from_offset_enqueue: what the second flush brought; there
\* is nothing to flush if the session is not in memory.
DeltaReplay(c) ==
    LET delta == IF resident THEN SubSeq(log, off[c] + 1, Len(log)) ELSE <<>> IN
    /\ load[c] = "replay" /\ wire = <<>>
    /\ load' = [load EXCEPT ![c] = "delta"]
    /\ wire' = Replayed(c, delta)
    /\ caught' = caught \cup (Unfinished(delta) \ alive)
    /\ UNCHANGED <<conn, leaderVars, holdVars, cache, agentVars, off, unfinished,
                    routed, restarts>>

\* Slip: only the metadata is consulted.
OrphansOnDisk(c) == meta \ alive

\* reconcile_orphaned_subagents: a subagent that does not run, and whose finish the
\* replay lacks or whose meta.json says it does, is finished, live.
Orphans(c) == (unfinished[c] \cup meta) \ alive

\* The session is in memory again, its orphans are finished, the load is answered:
\* the leader sends what it held back, then the questions that are still open.
Answers(c) == buf[c] \o SetToSeq({Shows(q) : q \in cache})

Respond(c) ==
    LET gone == {k \in Orphans(c) : subs[Root] # {} \/ subs[k] = {}} IN
    /\ load[c] = "delta" /\ wire = <<>>
    /\ load' = [load EXCEPT ![c] = "done"]
    /\ off' = [off EXCEPT ![c] = 0]
    /\ unfinished' = [unfinished EXCEPT ![c] = {}]
    /\ resident' = TRUE
    /\ meta' = meta \ Orphans(c)
    /\ log' = log \o SetToSeq({Finished(k) : k \in Orphans(c)})
    /\ subs' = [s \in Sessions |-> IF s \in gone THEN {} ELSE subs[s]]
    /\ driver' = [s \in Sessions |-> IF s \in gone THEN None ELSE driver[s]]
    /\ kids' = kids \ gone
    /\ IF c \in loading
       THEN /\ loading' = loading \ {c}
            /\ buf' = [buf EXCEPT ![c] = <<>>]
            /\ modal' = [modal EXCEPT ![c] = Rendered(@, Answers(c))]
            /\ twice' = twice \cup Again(modal[c], Answers(c))
       ELSE UNCHANGED <<loading, buf, modal, twice>>
    /\ UNCHANGED <<conn, degraded, cache, evict, cut, alive, ask, wire, history>>

--------------------------------------------------------------------------------
\* The leader's process ends, the agent in it: only the file is left.
Restart ==
    /\ restarts < MaxRestarts
    /\ restarts' = restarts + 1
    /\ conn' = [c \in Clients |-> IF conn[c] = "up" THEN "gone" ELSE conn[c]]
    /\ subs' = [s \in Sessions |-> {}] /\ driver' = [s \in Sessions |-> None] /\ kids' = {}
    /\ loading' = {} /\ buf' = [c \in Clients |-> <<>>] /\ cache' = {}
    /\ resident' = FALSE /\ evict' = {} /\ alive' = {} /\ cut' = {}
    /\ ask' = [q \in Questions |-> IF ask[q] = "open" THEN "closed" ELSE ask[q]]
    /\ load' = [c \in Clients |-> IF load[c] = "none" THEN "none" ELSE "done"]
    /\ wire' = <<>> /\ off' = [c \in Clients |-> 0] /\ unfinished' = [c \in Clients |-> {}]
    /\ modal' = [c \in Clients |-> {}]
    /\ degraded' = {}
    /\ UNCHANGED <<meta, log, routed, caught, twice>>

Client(c) == Request(c) \/ RequestLoad(c) \/ Disconnect(c)
LoadSession(c) == Replay(c) \/ DeltaReplay(c) \/ Respond(c)

Next ==
    \/ \E c \in Clients : Client(c) \/ LoadSession(c)
    \/ \E k \in Subagents : Spawn(k) \/ Finish(k)
    \/ \E q \in Questions : Ask(q) \/ Resolve(q)
    \/ CheckIdle \/ Unload
    \/ RouteReplay
    \/ Restart

Spec == Init /\ [][Next]_vars

--------------------------------------------------------------------------------
(* Properties *)

\* The tables hold what run_leader_server and the agent put in them: only clients
\* that are there subscribe, a buffer has a load and its bound, and every running
\* subagent is on the disk as running.
TypeOK ==
    /\ conn \in [Clients -> {"new", "up", "gone"}]
    /\ subs \in [Sessions -> SUBSET {c \in Clients : conn[c] = "up"}]
    /\ driver \in [Sessions -> Clients \cup {None}]
    /\ kids \subseteq Subagents
    /\ evict \subseteq {"sent", "idle"}
    /\ alive \subseteq meta /\ meta \subseteq Subagents
    /\ loading \subseteq subs[Root]
    /\ \A c \in Clients : Len(buf[c]) <= MaxBuffer /\ (c \notin loading => buf[c] = <<>>)
    /\ cache \subseteq Questions
    /\ ask \in [Questions -> {"new", "open", "closed"}]
    /\ load \in [Clients -> Loads]

Loaded(c) == conn[c] = "up" /\ load[c] = "done"

\* A client whose load is answered follows every subagent that runs, whether it
\* was spawned before the client came, during its load, while nobody was attached
\* or after a restart.
LoadedFollowsSubagents ==
    \A c \in Clients, k \in alive : Loaded(c) => c \in subs[k]

\* The root has a driver exactly as long as it has a subscriber, and the driver is
\* one: requests for the driver alone reach a client that is there.
RootIsDriven ==
    IF subs[Root] = {} THEN driver[Root] = None ELSE driver[Root] \in subs[Root]

\* The same of a running subagent whose spawn was routed live.
SubagentIsDriven ==
    \A k \in alive \cap routed :
        IF subs[k] = {} THEN driver[k] = None ELSE driver[k] \in subs[k]

\* A client whose load is answered shows exactly the open questions: none is
\* missing that was asked before it came, none is left that another one answered.
LoadedShowsOpenQuestions ==
    \A c \in Clients \ degraded : Loaded(c) =>
        modal[c] = {q \in Questions : ask[q] = "open"}

\* When no load is under way, the leader keeps no route of a finished subagent,
\* whether its finish came live, by replay or by reconciliation, and even if the
\* file lacks it because the session was unloaded. Two cases are left out: a request
\* between the replayed spawn and the replayed finish, and a spawn in the delta whose
\* finish the file lacks (load_session reconciles what its first replay saw).
FinishedIsUnrouted ==
    (wire = <<>> /\ \A c \in Clients : load[c] \in {"none", "done"}) =>
        \A k \in Subagents \ (alive \cup caught) : k \notin kids /\ subs[k] = {}

\* A question is put to a client once: the pager answers a question it already
\* shows with Cancelled when it comes again.
QuestionPutOnce == twice = {}
================================================================================
