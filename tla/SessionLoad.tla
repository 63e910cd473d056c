------------------------------ MODULE SessionLoad ------------------------------
(***************************************************************************)
(* How a client that attaches to a running session gets its transcript.    *)
(* Five parties take part, each with its own thread or process:            *)
(*                                                                         *)
(*   the session        stamps an update with the next eventId, on its way *)
(*                      into event_tx or when it is sent past it; sends it *)
(*                      to the persistence queue and, while                *)
(*                      gateway_enabled is set, to the gateway             *)
(*   the persistence    merges consecutive text chunks and appends lines   *)
(*   actor              to updates.jsonl                                   *)
(*   MvpAgent           load_session: close the gate, flush, replay the    *)
(*                      file to the loading client, flush, replay what was *)
(*                      appended since, open the gate, answer; a tool call *)
(*                      is replayed with its completion                    *)
(*   the leader         fans live updates out to the subscribers; holds    *)
(*                      them back for a client whose load is in flight     *)
(*   the pager          renders; drops a live update at or below its       *)
(*                      highwater                                          *)
(*                                                                         *)
(* One session. An update is named by its place p in the order of sending, *)
(* from zero; the places differ from the eventIds, Id(p), because what goes *)
(* past event_tx overtakes what waits in it. A line on disk covers the     *)
(* updates lo..hi it was merged from and carries the eventId of hi.        *)
(***************************************************************************)
EXTENDS Integers, Sequences, SequencesExt, FiniteSets, Subsequences

CONSTANTS
    Clients,    \* the leader's ClientIds; a reconnect gets a new one
    Attached,   \* the clients that saw the session created and subscribe to it
    Scripts,    \* bound: the kinds of the updates the session may stamp, in order
    MaxBuffer,  \* MAX_BUFFERED_LIVE_PER_LOAD
    MaxFaults,  \* bound: flush timeouts, failed loads and disconnects
    NoLine      \* no pending notification in the persistence actor

\* What send_update and enqueue_current_mode_update put into event_tx: text chunks,
\* tool calls, their completions, updates without a final status, and the rest.
Queueable == {"text", "call", "done", "progress", "mode"}

\* What is sent past it: the user echo, the echo that is only persisted, bash output
\* (a ToolCallUpdate in progress) and the mode update of the notification bridge.
Direct == {"echo", "hidden", "progress", "mode"}
Kinds  == Queueable \cup Direct

ASSUME LoadAssumption ==
    /\ Attached \subseteq Clients
    /\ Scripts \subseteq Seq(Kinds)
    /\ MaxBuffer \in Nat
    /\ MaxFaults \in Nat
    /\ NoLine \notin [lo : Nat, hi : Nat, text : BOOLEAN]

NoSeq == -1     \* None of an Option<u64>: zero is a genuine eventId
Notifications == [id : Nat, kind : Kinds, of : Nat \cup {NoSeq}]

VARIABLES
    minted,     \* the process-wide eventId counter: the next id to mint
    events,     \* event_tx: stamped updates the session actor has not sent yet
    sent,       \* history: the updates sent, in order; their payload
    gate,       \* NotificationSender::gateway_enabled
    chan,       \* persistence_tx: updates and FlushAndAck requests
    pend,       \* SessionPersistence::pending_notification
    disk,       \* updates.jsonl
    load,       \* how far load_session got, per client
    acked,      \* the flushes whose FlushAndAck was answered
    off,        \* replay_end_offset, per client
    wire,       \* gateway, ACP stream and response_rx: agent to leader
    conn,       \* "new", "up" or "gone", per client
    subs,       \* session_subscribers of the session
    loading,    \* pending_load_by_req: clients that wait for their response
    buf,        \* load_live_buffer
    cutoff,     \* load_replay_max_seq
    shown,      \* the pager's transcript: the updates it rendered, in order
    folded,     \* the tool calls it rendered as part of their completion
    hw,         \* the pager's last_applied_event_seq
    gated,      \* history: the updates that were not forwarded
    mark,       \* history: updates sent at the second flush of the client's load
    delta,      \* history: lines of the file at the delta replay
    degraded,   \* history: clients whose buffer overflowed or flush timed out
    faults      \* history: faults so far

sessionVars == <<minted, events, sent, gate>>
diskVars    == <<chan, pend, disk, acked>>
agentVars   == <<load, off>>
leaderVars  == <<conn, subs, loading, buf, cutoff>>
pagerVars   == <<shown, folded, hw>>
history     == <<gated, mark, delta, degraded, faults>>
vars == <<sessionVars, diskVars, agentVars, wire, leaderVars, pagerVars, history>>

Count   == Len(sent)
Id(p)   == sent[p + 1].id
Kind(p) == sent[p + 1].kind

Update(p, text)   == [kind |-> "update", lo |-> p, hi |-> p, text |-> text]
FlushAndAck(c, n) == [kind |-> "flush", client |-> c, n |-> n]
Live(p)           == [kind |-> "live", event |-> p]
Targeted(c, l, f) == [kind |-> "replay", client |-> c, lo |-> l.lo, hi |-> l.hi, folds |-> f]
Response(c)       == [kind |-> "response", client |-> c]
Line(u)           == [lo |-> u.lo, hi |-> u.hi, text |-> u.text]

\* The positions of load_session, in order.
Loads == {"none", "requested", "flush1", "wait1", "read", "flush2", "wait2",
          "open", "respond", "done", "failed"}

Init ==
    /\ minted = 0 /\ events = <<>> /\ sent = <<>> /\ gate = TRUE
    /\ chan = <<>> /\ pend = NoLine /\ disk = <<>> /\ acked = {}
    /\ load = [c \in Clients |-> "none"] /\ off = [c \in Clients |-> 0]
    /\ wire = <<>>
    /\ conn = [c \in Clients |-> IF c \in Attached THEN "up" ELSE "new"]
    /\ subs = Attached /\ loading = {}
    /\ buf = [c \in Clients |-> <<>>] /\ cutoff = [c \in Clients |-> NoSeq]
    /\ shown = [c \in Clients |-> <<>>] /\ folded = [c \in Clients |-> {}]
    /\ hw = [c \in Clients |-> NoSeq]
    /\ gated = {} /\ mark = [c \in Clients |-> 0] /\ delta = [c \in Clients |-> 0]
    /\ degraded = {} /\ faults = 0

--------------------------------------------------------------------------------
(* The session actor and the persistence actor. *)

Announced == Range(sent) \cup Range(events)

\* ensure_event_id_meta: the next update takes the next id.
Mints(kind) ==
    /\ \E s \in Scripts :
          /\ minted < Len(s) /\ s[minted + 1] = kind
          /\ \A u \in Announced : s[u.id + 1] = u.kind
    /\ minted' = minted + 1
Stamped(kind, of) == [id |-> minted, kind |-> kind, of |-> of]

\* The tool calls that were announced, and those without a completion so far.
Calls     == {u.id : u \in {v \in Announced : v.kind = "call"}}
OpenCalls == Calls \ {u.of : u \in {v \in Announced : v.kind = "done"}}

\* send_update, enqueue_current_mode_update: stamped now, sent when the session
\* actor comes to it. A completion names its call.
Enqueue(kind, of) ==
    /\ Mints(kind)
    /\ IF kind = "done" THEN of \in OpenCalls ELSE of = NoSeq
    /\ kind = "progress" => Calls # {}
    /\ events' = Append(events, Stamped(kind, of))
    /\ UNCHANGED <<sent, gate, diskVars, agentVars, wire, leaderVars, pagerVars, history>>

\* emit_notification_direct: to the persistence queue always, to the gateway if it
\* is open. The two sends are one step: the line cannot reach the disk before the
\* session thread comes back with the next update or a flush.
Emit(u, open) ==
    /\ sent' = Append(sent, u)
    /\ chan' = Append(chan, Update(Count, u.kind = "text"))
    /\ wire' = IF open THEN Append(wire, Live(Count)) ELSE wire
    /\ gated' = IF open THEN gated ELSE gated \cup {Count}
    /\ UNCHANGED <<gate, pend, disk, acked, agentVars, leaderVars, pagerVars,
                   mark, delta, degraded, faults>>

\* The session actor takes the next update of event_tx.
EmitBuffered ==
    /\ events # <<>>
    /\ events' = Tail(events)
    /\ Emit(Head(events), gate)
    /\ UNCHANGED minted

\* Stamped and sent at once, past what waits in event_tx. The bridge's mode update
\* does not look at the gate.
EmitDirect(kind) ==
    /\ Mints(kind)
    /\ kind = "progress" => Calls # {}
    /\ Emit(Stamped(kind, NoSeq), kind # "hidden" /\ (gate \/ kind = "mode"))
    /\ UNCHANGED events

\* maybe_merge_notification: two text chunks become one line under the eventId
\* of the later one.
Mergeable(p, u) == p # NoLine /\ p.text /\ u.text
Merge(p, u)     == [lo |-> p.lo, hi |-> u.hi, text |-> TRUE]

\* Slip: the merged line keeps the earlier eventId.
FirstId(l) == Id(l.lo)

LineId(l) == Id(l.hi)

\* The persistence actor takes one message of its queue.
PersistUpdate ==
    /\ chan # <<>> /\ Head(chan).kind = "update"
    /\ LET u == Head(chan) IN
       /\ chan' = Tail(chan)
       /\ pend' = IF Mergeable(pend, u) THEN Merge(pend, u) ELSE Line(u)
       /\ disk' = IF Mergeable(pend, u) \/ pend = NoLine THEN disk ELSE Append(disk, pend)
    /\ UNCHANGED <<sessionVars, acked, agentVars, wire, leaderVars, pagerVars, history>>

\* A FlushAndAck is answered on a oneshot: nobody hears it after the timeout.
Awaits(c, n) == load[c] = <<"wait1", "wait2">>[n]

PersistFlush ==
    /\ chan # <<>> /\ Head(chan).kind = "flush"
    /\ chan' = Tail(chan)
    /\ pend' = NoLine
    /\ disk' = IF pend = NoLine THEN disk ELSE Append(disk, pend)
    /\ acked' = acked \cup {f \in {<<Head(chan).client, Head(chan).n>>} : Awaits(f[1], f[2])}
    /\ UNCHANGED <<sessionVars, agentVars, wire, leaderVars, pagerVars, history>>

--------------------------------------------------------------------------------
(* MvpAgent::load_session, one action between two awaits. *)

Fault == faults < MaxFaults /\ faults' = faults + 1
At(c, from, to) == load[c] = from /\ load' = [load EXCEPT ![c] = to]

\* The session is in memory: its gate is closed and a flush is requested.
LoadStart(c) ==
    /\ At(c, "requested", "flush1")
    /\ gate' = FALSE
    /\ UNCHANGED <<minted, events, sent, diskVars, off, wire, leaderVars, pagerVars, history>>

\* The session actor handles FlushComplete: it passes a FlushAndAck on. Its select is
\* biased: commands come after event_tx.
FlushComplete(c) ==
    /\ events = <<>>
    /\ \/ At(c, "flush1", "wait1") /\ chan' = Append(chan, FlushAndAck(c, 1))
       \/ At(c, "flush2", "wait2") /\ chan' = Append(chan, FlushAndAck(c, 2))
    /\ mark' = [mark EXCEPT ![c] = Count]
    /\ UNCHANGED <<sessionVars, pend, disk, acked, off, wire, leaderVars,
                   pagerVars, gated, delta, degraded, faults>>

\* The 5 s of flush_session are over: before the replay that is only logged,
\* after it the delta replay is skipped.
FlushTimeout(c) ==
    /\ Fault
    /\ \/ At(c, "wait1", "read")
       \/ At(c, "wait2", "open")
    /\ acked' = {f \in acked : f[1] # c}
    /\ degraded' = degraded \cup {c}
    /\ UNCHANGED <<sessionVars, chan, pend, disk, off, wire, leaderVars, pagerVars,
                   gated, mark, delta>>

Flushed1(c) ==
    /\ <<c, 1>> \in acked
    /\ acked' = acked \ {<<c, 1>>}
    /\ At(c, "wait1", "read")
    /\ UNCHANGED <<sessionVars, chan, pend, disk, off, wire, leaderVars, pagerVars, history>>

\* load_light or the replay fails: `?' leaves load_session, the gate as it is,
\* and the client gets an error response.
LoadFails(c) ==
    /\ Fault
    /\ At(c, "read", "failed")
    /\ wire' = Append(wire, Response(c))
    /\ degraded' = degraded \cup {c}
    /\ UNCHANGED <<sessionVars, diskVars, off, leaderVars, pagerVars, gated, mark, delta>>

\* forward_raw_replay_line, over the lines of one read. A tool call waits in
\* pending_tool_calls until the read comes to its completion, which carries it; an
\* update without a final status is not forwarded.
Forwarded(lines) == {i \in DOMAIN lines : Kind(lines[i].hi) \notin {"call", "progress"}}
Folds(lines, j) ==
    {lines[i].hi : i \in {k \in 1 .. j - 1 :
        /\ Kind(lines[k].hi) = "call" /\ Kind(lines[j].hi) = "done"
        /\ sent[lines[j].hi + 1].of = Id(lines[k].hi)}}
Replayed(c, lines) ==
    Subsequence([j \in DOMAIN lines |-> Targeted(c, lines[j], Folds(lines, j))],
                Forwarded(lines))

\* replay_session_updates: the file, what is forwarded of it stamped with the
\* client's id.
Replay(c) ==
    /\ At(c, "read", "flush2")
    /\ wire' = wire \o Replayed(c, disk)
    /\ off' = [off EXCEPT ![c] = Len(disk)]
    /\ UNCHANGED <<sessionVars, diskVars, leaderVars, pagerVars, history>>

\* Slip: it starts one line late.
DeltaLinesLate(c) == SubSeq(disk, off[c] + 2, Len(disk))

DeltaLines(c) == SubSeq(disk, off[c] + 1, Len(disk))

\* replay_session_updates_from_offset_enqueue: what was appended since the replay, on
\* its own pending_tool_calls.
DeltaReplay(c) ==
    /\ <<c, 2>> \in acked
    /\ acked' = acked \ {<<c, 2>>}
    /\ At(c, "wait2", "open")
    /\ wire' = wire \o Replayed(c, DeltaLines(c))
    /\ delta' = [delta EXCEPT ![c] = Len(disk)]
    /\ UNCHANGED <<sessionVars, chan, pend, disk, off, leaderVars, pagerVars, gated, mark,
                   degraded, faults>>

\* Slip: the gate opens only when no other load runs.
OpenGateIfAlone(c) ==
    /\ At(c, "open", "respond")
    /\ gate' = (gate \/ \A d \in Clients \ {c} : load[d] \in {"none", "done", "failed"})
    /\ UNCHANGED <<minted, events, sent, diskVars, off, wire, leaderVars, pagerVars, history>>

\* gateway_enabled.store(true): on the agent's thread, while the session's own
\* thread keeps emitting.
OpenGate(c) ==
    /\ At(c, "open", "respond")
    /\ gate' = TRUE
    /\ UNCHANGED <<minted, events, sent, diskVars, off, wire, leaderVars, pagerVars, history>>

Respond(c) ==
    /\ At(c, "respond", "done")
    /\ wire' = Append(wire, Response(c))
    /\ UNCHANGED <<sessionVars, diskVars, off, leaderVars, pagerVars, history>>

--------------------------------------------------------------------------------
(* The leader and the pagers behind it. *)

\* A session/load request passes the leader: the client subscribes and its live
\* updates are held back from now on.
RequestLoad(c) ==
    /\ conn[c] = "new"
    /\ conn' = [conn EXCEPT ![c] = "up"]
    /\ subs' = subs \cup {c}
    /\ loading' = loading \cup {c}
    /\ load' = [load EXCEPT ![c] = "requested"]
    /\ UNCHANGED <<sessionVars, diskVars, off, wire, buf, cutoff, pagerVars, history>>

\* The client goes, and its pager with it; its load, if any, runs on.
Disconnect(c) ==
    /\ conn[c] = "up"
    /\ Fault
    /\ conn' = [conn EXCEPT ![c] = "gone"]
    /\ subs' = subs \ {c}
    /\ loading' = loading \ {c}
    /\ buf' = [buf EXCEPT ![c] = <<>>]
    /\ cutoff' = [cutoff EXCEPT ![c] = NoSeq]
    /\ shown' = [shown EXCEPT ![c] = <<>>]
    /\ folded' = [folded EXCEPT ![c] = {}]
    /\ hw' = [hw EXCEPT ![c] = NoSeq]
    /\ degraded' = degraded \ {c}
    /\ UNCHANGED <<sessionVars, diskVars, agentVars, wire, gated, mark, delta>>

\* A pager's view after the live updates es, one after the other: each raises the
\* highwater, and one whose id is at or below it is dropped.
View(c) == [rows |-> shown[c], last |-> hw[c]]
Fresh(v, es) ==
    {i \in DOMAIN es : Id(es[i]) > v.last /\ \A j \in 1 .. i - 1 : Id(es[j]) < Id(es[i])}
Rendered(v, es) ==
    LET new == Subsequence(es, Fresh(v, es)) IN
    [rows |-> v.rows \o new, last |-> IF new = <<>> THEN v.last ELSE Id(Last(new))]

\* Slip: the buffer has no limit.
BuffersUnbounded(c) == c \in loading

\* A live update: buffered for the clients that load, forwarded to the others,
\* and to a loading client once its buffer is full.
Buffers(c) == c \in loading /\ Len(buf[c]) < MaxBuffer

RouteLive ==
    /\ wire # <<>> /\ Head(wire).kind = "live"
    /\ wire' = Tail(wire)
    /\ LET p == Head(wire).event
           view == [c \in Clients |-> IF c \in subs /\ ~Buffers(c)
                                      THEN Rendered(View(c), <<p>>) ELSE View(c)] IN
       /\ buf' = [c \in Clients |-> IF c \in subs /\ Buffers(c)
                                    THEN Append(buf[c], p) ELSE buf[c]]
       /\ shown' = [c \in Clients |-> view[c].rows]
       /\ hw' = [c \in Clients |-> view[c].last]
       /\ degraded' = degraded \cup {c \in subs \cap loading : ~Buffers(c)}
    /\ UNCHANGED <<sessionVars, diskVars, agentVars, conn, subs, loading, cutoff,
                   folded, gated, mark, delta, faults>>

\* A targeted replay line: to its client only, whose cutoff it raises; dropped if
\* the client has gone. The pager renders replayed lines without the highwater.
RouteReplay ==
    /\ wire # <<>> /\ Head(wire).kind = "replay"
    /\ wire' = Tail(wire)
    /\ LET l == Head(wire)
           c == l.client IN
       IF conn[c] = "up"
       THEN /\ shown' = [shown EXCEPT ![c] = @ \o [i \in 1 .. l.hi - l.lo + 1 |-> l.lo + i - 1]]
            /\ folded' = [folded EXCEPT ![c] = @ \cup l.folds]
            /\ cutoff' = [cutoff EXCEPT ![c] = IF LineId(l) > @ THEN LineId(l) ELSE @]
       ELSE UNCHANGED <<shown, folded, cutoff>>
    /\ UNCHANGED <<sessionVars, diskVars, agentVars, conn, subs, loading, buf, hw, history>>

\* The load's response: the held-back updates are flushed, without those the
\* replay has already delivered.
NotReplayed(c) ==
    Retain(buf[c], {p \in Range(buf[c]) : cutoff[c] = NoSeq \/ Id(p) > cutoff[c]})

\* Slip: only a load that replayed something releases what was held back.
ReleasesIfReplayed(c) == c \in loading /\ cutoff[c] # NoSeq

Releases(c) == c \in loading

RouteResponse ==
    /\ wire # <<>> /\ Head(wire).kind = "response"
    /\ wire' = Tail(wire)
    /\ LET c == Head(wire).client
           view == Rendered(View(c), NotReplayed(c)) IN
       IF Releases(c)
       THEN /\ loading' = loading \ {c}
            /\ buf' = [buf EXCEPT ![c] = <<>>]
            /\ cutoff' = [cutoff EXCEPT ![c] = NoSeq]
            /\ shown' = [shown EXCEPT ![c] = view.rows]
            /\ hw' = [hw EXCEPT ![c] = view.last]
       ELSE UNCHANGED <<loading, buf, cutoff, shown, hw>>
    /\ UNCHANGED <<sessionVars, diskVars, agentVars, conn, subs, folded, history>>

--------------------------------------------------------------------------------
Persist == PersistUpdate \/ PersistFlush
Route == RouteLive \/ RouteReplay \/ RouteResponse
Agent(c) ==
    \/ LoadStart(c) \/ FlushComplete(c) \/ FlushTimeout(c) \/ Flushed1(c)
    \/ LoadFails(c) \/ Replay(c) \/ DeltaReplay(c) \/ OpenGate(c) \/ Respond(c)

Next ==
    \/ \E kind \in Queueable, of \in OpenCalls \cup {NoSeq} : Enqueue(kind, of)
    \/ EmitBuffered
    \/ \E kind \in Direct : EmitDirect(kind)
    \/ Persist
    \/ Route
    \/ \E c \in Clients : Agent(c) \/ RequestLoad(c) \/ Disconnect(c)

Spec == Init /\ [][Next]_vars

--------------------------------------------------------------------------------
(* Properties *)

\* What the session, the file, the leader and the pagers hold: every id minted is sent
\* or waits to be, buffers are within their bound.
TypeOK ==
    /\ minted \in Nat /\ gate \in BOOLEAN
    /\ sent \in Seq(Notifications) /\ events \in Seq(Notifications)
    /\ Count + Len(events) = minted
    /\ \A i \in DOMAIN disk : disk[i] \in [lo : Nat, hi : Nat, text : BOOLEAN]
    /\ pend = NoLine \/ pend \in [lo : Nat, hi : Nat, text : BOOLEAN]
    /\ load \in [Clients -> Loads]
    /\ off \in [Clients -> Nat]
    /\ conn \in [Clients -> {"new", "up", "gone"}]
    /\ subs \subseteq Clients /\ loading \subseteq subs
    /\ folded \in [Clients -> SUBSET Nat]
    /\ \A c \in Clients : Len(buf[c]) <= MaxBuffer /\ (c \notin loading => buf[c] = <<>>)
    /\ cutoff \in [Clients -> Nat \cup {NoSeq}] /\ hw \in [Clients -> Nat \cup {NoSeq}]

\* A pager never renders an update twice, nor two updates against both the order in
\* which they were sent and that of their ids, although the same update may come
\* live, from the buffer and from the replay, alone, in a merged line or, a tool
\* call, folded into its completion: the leader's cutoff and the lines' eventIds
\* agree.
TranscriptInOrder ==
    \A c \in Clients \ degraded :
        /\ \A i, j \in DOMAIN shown[c] : i < j =>
              \/ shown[c][i] < shown[c][j]
              \/ Id(shown[c][i]) < Id(shown[c][j])
        /\ Range(shown[c]) \cap folded[c] = {}

\* The client is attached, its load is answered and nothing is under way to it.
Settled(c) ==
    /\ conn[c] = "up" /\ c \notin loading /\ c \notin degraded
    /\ load[c] \in {"none", "done"}
    /\ wire = <<>>

\* An update that went past event_tx, minted later, was sent earlier.
Overtaken(p) == \E q \in 0 .. p - 1 : Id(p) < Id(q)

\* The first n lines of the file hold the updates before this one.
DiskEnd(n) == IF n = 0 THEN 0 ELSE disk[n].hi + 1

Completes(q, p) == Kind(q) = "done" /\ sent[q + 1].of = Id(p)

\* The client's two reads kept the update back: it had no final status, or it is a
\* tool call whose completion was not in the same read.
KeptBack(c, p) ==
    /\ p < DiskEnd(delta[c])
    /\ \/ Kind(p) = "progress"
       \/ /\ Kind(p) = "call"
          /\ \A q \in 0 .. DiskEnd(delta[c]) - 1 :
                Completes(q, p) => p < DiskEnd(off[c]) /\ DiskEnd(off[c]) <= q

\* What an attached client lacks was sent after the second flush of its load while
\* some load held the gate closed, or was overtaken by an update with a higher id,
\* or was kept back by the replay: everything else is there, through the file or its
\* delta, and nothing that was forwarded in order is lost in the buffer.
MissesAreAccounted ==
    \A c \in Clients : Settled(c) =>
        \A p \in (0 .. Count - 1) \ (Range(shown[c]) \cup folded[c]) :
            \/ p \in gated /\ p >= mark[c]
            \/ Overtaken(p)
            \/ KeptBack(c, p)

\* The gate is closed only on behalf of a load that still runs, or of one that
\* left load_session with an error.
GateIsHeld ==
    ~gate => \E c \in Clients :
                 load[c] \in {"flush1", "wait1", "read", "flush2", "wait2", "open", "failed"}

\* The leader holds updates back only for a load that still runs or whose
\* response is under way: a load that ended otherwise would never release them.
HeldForALoad ==
    \A c \in loading :
        load[c] \in {"none", "done", "failed"} => Response(c) \in Range(wire)
================================================================================
