-------------------------- MODULE SessionLoadProofs --------------------------
(***************************************************************************)
(* Theorems about SessionLoad, for every set of clients, every choice of   *)
(* the attached ones, every set of scripts and every bound.                *)
(*                                                                         *)
(* The inductive invariant IInv accounts for every update.  Ids differ,    *)
(* and those that event_tx carries follow the order of sending (Stamps).   *)
(* The file, the pending line and the persistence queue hold each update   *)
(* once, in order (OnDisk, Queued), and only text is merged (Texts).  A    *)
(* loading client shows written updates in order, its cutoff is the highest *)
(* of their ids, and the replay lines under way go on from there: together *)
(* they are the file up to replay_end_offset, and after the delta replay at *)
(* least up to the second flush, but for what the reads kept back          *)
(* (LoadsInOrder).  Live updates, under way or held back, are in the order *)
(* of sending and newer than all that (LiveOrder, Backlog, Cutover); an    *)
(* update sent since the second flush is on one of these ways unless it was *)
(* gated, kept back, or overtaken and dropped (Owes).                      *)
(***************************************************************************)
EXTENDS SessionLoad, SubsequenceProofs

-----------------------------------------------------------------------------
(* The inductive invariant *)

Places   == 0 .. Count - 1
Lines    == [lo : Nat, hi : Places, text : BOOLEAN]
Updates  == [kind : {"update"}, lo : Nat, hi : Places, text : BOOLEAN]
Flushes  == [kind : {"flush"}, client : Clients, n : {1, 2}]
Messages == [kind : {"live"}, event : Places]
            \cup [kind : {"replay"}, client : Clients, lo : Nat, hi : Places,
                  folds : SUBSET Places]
            \cup [kind : {"response"}, client : Clients]

\* What the queues, the file, the wire, the screens and the histories hold: updates
\* that were sent.
Channels ==
    /\ chan \in Seq(Updates \cup Flushes) /\ disk \in Seq(Lines)
    /\ pend # NoLine => pend \in Lines
    /\ wire \in Seq(Messages)
    /\ buf \in [Clients -> Seq(Places)] /\ shown \in [Clients -> Seq(Places)]
    /\ folded \in [Clients -> SUBSET Places]
    /\ acked \subseteq Clients \X {1, 2} /\ degraded \subseteq Clients
    /\ gated \subseteq Places /\ mark \in [Clients -> Nat] /\ faults \in Nat
    /\ delta \in [Clients -> Nat]

Types == TypeOK /\ Channels

Increasing(s) == \A i, j \in DOMAIN s : i < j => s[i] < s[j]
Covers(l, p)  == l.lo <= p /\ p <= l.hi

\* The kinds that only event_tx carries: their ids are in the order of sending.
Ordered == {"text", "call", "done"}

\* No two updates have the same id; event_tx holds later ids than any update that went
\* through it; a tool call comes before its completion.
Stamps ==
    /\ \A p \in Places : Id(p) < minted
    /\ \A i \in DOMAIN events : events[i].id < minted
    /\ \A p, q \in Places : p < q => Id(p) # Id(q)
    /\ \A p \in Places : \A i \in DOMAIN events : Id(p) # events[i].id
    /\ \A i, j \in DOMAIN events : i < j => events[i].id < events[j].id
    /\ \A p, q \in Places :
          p < q /\ Kind(p) \in Ordered /\ Kind(q) \in Ordered => Id(p) < Id(q)
    /\ \A p \in Places : \A i \in DOMAIN events :
          Kind(p) \in Ordered => Id(p) < events[i].id
    /\ \A u \in Announced : u.kind = "done" => u.of < u.id

\* The update after all the lines of the file, and after the pending line.
Written    == DiskEnd(Len(disk))
Merged     == IF pend = NoLine THEN Written ELSE pend.hi + 1

\* Only text is merged.
Uniform(l) == IF l.text THEN \A p \in l.lo .. l.hi : Kind(p) = "text" ELSE l.lo = l.hi

\* The file holds every update below its end, once and in order; the pending line
\* goes on from there.
InFile ==
    /\ \A i \in DOMAIN disk : disk[i].lo <= disk[i].hi
    /\ \A i, j \in DOMAIN disk : i < j => disk[i].hi < disk[j].lo
    /\ \A i \in DOMAIN disk : \A e \in 0 .. disk[i].hi :
          \E j \in DOMAIN disk : Covers(disk[j], e)

OnDisk ==
    /\ InFile
    /\ pend # NoLine => pend.lo = Written /\ pend.lo <= pend.hi

\* The persistence queue holds the rest, in order.
Queued ==
    /\ Merged <= Count
    /\ \A i \in DOMAIN chan : chan[i].kind = "update" =>
          chan[i].lo = chan[i].hi /\ Merged <= chan[i].hi /\ chan[i].hi < Count
    /\ \A i, j \in DOMAIN chan :
          i < j /\ chan[i].kind = "update" /\ chan[j].kind = "update" => chan[i].hi < chan[j].hi
    /\ \A e \in Merged .. Count - 1 :
          \E i \in DOMAIN chan : chan[i].kind = "update" /\ chan[i].hi = e

Texts ==
    /\ \A i \in DOMAIN disk : Uniform(disk[i])
    /\ pend # NoLine => Uniform(pend)
    /\ \A i \in DOMAIN chan : chan[i].kind = "update" => Uniform(chan[i])

Early   == {"requested", "flush1", "wait1", "read"}     \* before the replay
Between == {"flush2", "wait2"}                          \* after it, before the delta
After   == {"open", "respond", "done"}                  \* after the delta

\* The leader's books agree with how far each load got.
Attendance ==
    \A c \in Clients :
        /\ conn[c] = "up" <=> c \in subs
        /\ conn[c] = "new" => load[c] = "none"
        /\ load[c] = "none" => c \notin loading /\ mark[c] = 0 /\ off[c] = 0 /\ delta[c] = 0
        /\ c \in subs \ loading => load[c] \in {"none", "done", "failed"}
        /\ c \in subs \ degraded => load[c] # "failed"
        /\ load[c] = "none" \/ c \notin subs => folded[c] = {}
        /\ c \notin subs => shown[c] = <<>> /\ hw[c] = NoSeq /\ cutoff[c] = NoSeq
        /\ \A n \in {1, 2} : <<c, n>> \in acked => Awaits(c, n)

ReplayAt(k, c)   == wire[k].kind = "replay" /\ wire[k].client = c
ResponseAt(k, c) == wire[k].kind = "response" /\ wire[k].client = c
LiveAt(k)        == wire[k].kind = "live"
FlushAt(i, c)    == chan[i].kind = "flush" /\ chan[i].client = c /\ chan[i].n = 2

\* What is under way to a client, or for it, belongs to the stage of its load; the
\* response comes last.
Stages ==
    /\ \A c \in Clients : \A k \in DOMAIN wire :
          /\ ReplayAt(k, c) => load[c] \in Between \cup After /\ (c \in subs => c \in loading)
          /\ ResponseAt(k, c) => load[c] \in {"done", "failed"} /\ (c \in subs => c \in loading)
          /\ ResponseAt(k, c) => \A l \in DOMAIN wire :
                k < l => ~ReplayAt(l, c) /\ ~ResponseAt(l, c)
    /\ \A c \in Clients : \A i \in DOMAIN chan :
          FlushAt(i, c) => load[c] \in {"wait2"} \cup After

\* A load that ended has its response under way to the leader that waits for it.
Answered ==
    \A c \in loading : load[c] \in {"none", "done", "failed"} =>
        \E k \in DOMAIN wire : ResponseAt(k, c)

\* Live updates are under way in the order in which they were sent.
LiveOrder ==
    /\ \A k \in DOMAIN wire : LiveAt(k) => wire[k].event < Count
    /\ \A k, l \in DOMAIN wire :
          k < l /\ LiveAt(k) /\ LiveAt(l) => wire[k].event < wire[l].event

Loading == loading \ degraded           \* clients whose load is in order so far
Served  == (subs \ loading) \ degraded  \* and those that get live updates at once

\* What a replay may show as a row, and what it may fold into one.
Row(p)  == p < Written /\ Kind(p) \notin {"call", "progress"}
Fold(p) == p < Written /\ Kind(p) = "call"

\* A loading client shows written updates in order; its cutoff is the highest of their
\* ids and of those folded into them.
Prefix(c) ==
    /\ hw[c] = NoSeq
    /\ Increasing(shown[c])
    /\ \A r \in Range(shown[c]) : Row(r) /\ Id(r) <= cutoff[c]
    /\ \A f \in folded[c] : Fold(f) /\ Id(f) <= cutoff[c]
    /\ cutoff[c] # NoSeq => \E r \in Range(shown[c]) : cutoff[c] = Id(r)
    /\ load[c] \in Early => shown[c] = <<>> /\ folded[c] = {}

\* What is held back for it is older than what is under way.
Backlog(c) ==
    /\ Increasing(buf[c])
    /\ \A b \in Range(buf[c]) : \A k \in DOMAIN wire : LiveAt(k) => b < wire[k].event

\* A line as the replay sends it.
Sendable(l) ==
    /\ l.lo <= l.hi
    /\ \A p \in l.lo .. l.hi : Row(p) /\ Id(p) <= Id(l.hi)
    /\ \A f \in l.folds : Fold(f) /\ Id(f) <= Id(l.hi)

\* The replay lines under way to it go on from what it shows.
Replays(c) ==
    \A k \in DOMAIN wire : ReplayAt(k, c) =>
        /\ Sendable(wire[k])
        /\ \A r \in Range(shown[c]) : r < wire[k].lo
        /\ \A l \in DOMAIN wire : k < l /\ ReplayAt(l, c) => wire[k].hi < wire[l].lo

\* The update is shown or on its way in a replay line.
Got(c, p) ==
    \/ p \in Range(shown[c]) \cup folded[c]
    \/ \E k \in DOMAIN wire : ReplayAt(k, c) /\ (Covers(wire[k], p) \/ p \in wire[k].folds)

\* What a read of the updates from a to b keeps back.
Withheld(a, b, p) ==
    \/ Kind(p) = "progress"
    \/ Kind(p) = "call" /\ \A q \in a .. b - 1 : ~Completes(q, p)

\* All that was replayed comes before e.
Below(c, e) ==
    /\ \A r \in Range(shown[c]) \cup folded[c] : r < e
    /\ \A k \in DOMAIN wire : ReplayAt(k, c) => wire[k].hi < e /\ \A f \in wire[k].folds : f < e

\* Between the two replays the client gets the file up to replay_end_offset.
Offset(c) ==
    load[c] \in Between =>
        /\ off[c] <= Len(disk) /\ Below(c, DiskEnd(off[c]))
        /\ \A p \in 0 .. DiskEnd(off[c]) - 1 :
              Got(c, p) \/ Withheld(0, DiskEnd(off[c]), p)

\* The second flush writes everything that was sent before it ...
Flushed(c) ==
    /\ load[c] = "wait2" =>
          /\ mark[c] <= Count
          /\ \A i, j \in DOMAIN chan :
                i < j /\ FlushAt(i, c) /\ chan[j].kind = "update" => mark[c] <= chan[j].hi
    /\ <<c, 2>> \in acked => mark[c] <= Written

\* ... and the delta replay sends it.
Delta(c) ==
    load[c] \in After =>
        /\ off[c] <= delta[c] /\ delta[c] <= Len(disk)
        /\ mark[c] <= DiskEnd(delta[c]) /\ Below(c, DiskEnd(delta[c]))
        /\ \A p \in 0 .. DiskEnd(delta[c]) - 1 : Got(c, p) \/ KeptBack(c, p)

\* What follows the response on the wire is newer than the replay.
Cutover(c) ==
    \A k, l \in DOMAIN wire : k < l /\ ResponseAt(k, c) /\ LiveAt(l) =>
        DiskEnd(delta[c]) <= wire[l].event

InLoad(c) ==
    Prefix(c) /\ Backlog(c) /\ Replays(c) /\ Offset(c) /\ Flushed(c) /\ Delta(c) /\ Cutover(c)

\* p may stand before q in a transcript.
Before(p, q) == p < q \/ Id(p) < Id(q)
Chronicle(s) == \A i, j \in DOMAIN s : i < j => Before(s[i], s[j])

\* A served client shows updates in order, older than the ones under way, and all
\* that preceded the second flush of its load.
InOrder(c) ==
    /\ Chronicle(shown[c])
    /\ Range(shown[c]) \cap folded[c] = {}
    /\ \A r \in Range(shown[c]) \cup folded[c] : \A k \in DOMAIN wire :
          LiveAt(k) => r < wire[k].event
    /\ hw[c] # NoSeq => \E r \in Range(shown[c]) : hw[c] = Id(r)
    /\ off[c] <= Len(disk) /\ delta[c] <= Len(disk)
    /\ \A p \in 0 .. mark[c] - 1 : p \in Range(shown[c]) \cup folded[c] \/ KeptBack(c, p)

\* An update that the client will not get, and why
Lost(c, p) == Overtaken(p) \/ (load[c] \in After /\ KeptBack(c, p))

\* Where an update sent since is.
Reached(c) == Range(shown[c]) \cup folded[c] \cup Range(buf[c])
Accounted(c) ==
    load[c] \in {"none", "wait2"} \cup After =>
        \A p \in mark[c] .. Count - 1 :
            \/ p \in gated \/ p \in Reached(c) \/ Lost(c, p)
            \/ \E k \in DOMAIN wire : LiveAt(k) /\ wire[k].event = p

LoadsInOrder == \A c \in Loading : InLoad(c)
Serves == \A c \in Served : InOrder(c)
Owes   == \A c \in subs \ degraded : Accounted(c)

IInv ==
    /\ Types /\ Stamps /\ OnDisk /\ Queued /\ Texts
    /\ Attendance /\ Stages /\ Answered /\ LiveOrder
    /\ LoadsInOrder /\ Serves /\ Owes /\ GateIsHeld
-----------------------------------------------------------------------------
(* Sequences *)

\* One sequence behind another, index by index
LEMMA Appended ==
    ASSUME NEW S, NEW s \in Seq(S), NEW t \in Seq(S), NEW r, r = s \o t
    PROVE  /\ r \in Seq(S) /\ Len(s) \in Nat /\ Len(r) = Len(s) + Len(t)
           /\ \A k \in DOMAIN s : k \in DOMAIN r /\ r[k] = s[k] /\ k <= Len(s)
           /\ \A i \in DOMAIN t : Len(s) + i \in DOMAIN r /\ r[Len(s) + i] = t[i]
           /\ \A k \in DOMAIN r : k \in DOMAIN s
                 \/ /\ k \notin DOMAIN s /\ k > Len(s)
                    /\ k - Len(s) \in DOMAIN t /\ r[k] = t[k - Len(s)]
  OBVIOUS

LEMMA AppendedOne ==
    ASSUME NEW S, NEW s \in Seq(S), NEW x \in S, NEW r, r = Append(s, x)
    PROVE  /\ r \in Seq(S) /\ Len(s) \in Nat /\ Len(r) = Len(s) + 1
           /\ \A k \in DOMAIN s : k \in DOMAIN r /\ r[k] = s[k] /\ k <= Len(s)
           /\ Len(r) \in DOMAIN r /\ r[Len(r)] = x /\ Len(r) \notin DOMAIN s
           /\ \A k \in DOMAIN r : k \in DOMAIN s \/ k = Len(r)
  OBVIOUS

\* What is left when the first message was taken
LEMMA Taken ==
    ASSUME NEW S, NEW s \in Seq(S), s # <<>>, NEW r, r = Tail(s)
    PROVE  /\ r \in Seq(S) /\ 1 \in DOMAIN s /\ Head(s) = s[1] /\ Head(s) \in S
           /\ \A k \in DOMAIN r : k \in Nat /\ k + 1 \in DOMAIN s /\ r[k] = s[k + 1]
           /\ \A k \in DOMAIN s : /\ k \in Nat
                                  /\ k = 1 \/ (k - 1 \in DOMAIN r /\ r[k - 1] = s[k])
PROOF
<1>1. Len(s) \in Nat /\ Len(s) > 0 /\ DOMAIN s = 1 .. Len(s) /\ \A k \in DOMAIN s : s[k] \in S
  OBVIOUS
<1>2. r \in Seq(S) /\ Len(r) = Len(s) - 1 /\ DOMAIN r = 1 .. Len(s) - 1
  BY <1>1
<1>3. \A k \in DOMAIN r : r[k] = s[k + 1]
  BY <1>1, <1>2
<1>4. ASSUME NEW k \in DOMAIN s, k # 1
      PROVE  k - 1 \in DOMAIN r /\ r[k - 1] = s[k]
  <2>1. k - 1 \in DOMAIN r /\ (k - 1) + 1 = k
    BY <1>1, <1>2, <1>4
  <2> QED BY <1>3, <2>1
<1>5. Head(s) = s[1]
  BY <1>1
<1>6. \A k \in DOMAIN r : k \in Nat /\ k + 1 \in DOMAIN s
  BY <1>1, <1>2
<1>7. 1 \in DOMAIN s /\ Head(s) \in S /\ \A k \in DOMAIN s : k \in Nat
  BY <1>1, <1>5
<1>8. \A k \in DOMAIN s : k = 1 \/ (k - 1 \in DOMAIN r /\ r[k - 1] = s[k])
  BY <1>4
<1> QED
  BY <1>2, <1>3, <1>5, <1>6, <1>7, <1>8

\* A sequence over a set is one over a larger set.
LEMMA SeqGrows ==
    ASSUME NEW S, NEW T, S \subseteq T, NEW s \in Seq(S)
    PROVE  s \in Seq(T)
  OBVIOUS

-----------------------------------------------------------------------------
(* The pager *)

\* What is known of an update that was sent
LEMMA SentTypes ==
    ASSUME Types
    PROVE  /\ Count \in Nat /\ sent \in Seq(Notifications) /\ Places \subseteq Nat
           /\ \A p \in Places : /\ p < Count /\ p + 1 \in DOMAIN sent
                                /\ sent[p + 1] \in Notifications
                                /\ Id(p) \in Nat /\ Kind(p) \in Kinds
PROOF
<1>1. sent \in Seq(Notifications) /\ Len(sent) \in Nat
  BY DEF Types, TypeOK
<1>2. Count \in Nat /\ Places \subseteq Nat
  BY <1>1 DEF Places, Count
<1>3. \A p \in Places : p < Count /\ p + 1 \in DOMAIN sent
  BY <1>1 DEF Places, Count
<1>4. \A p \in Places : sent[p + 1] \in Notifications
  BY <1>1, <1>3
<1>5. \A u \in Notifications : u.id \in Nat /\ u.kind \in Kinds
  BY DEF Notifications
<1>6. \A p \in Places : Id(p) \in Nat /\ Kind(p) \in Kinds
  BY <1>4, <1>5 DEF Id, Kind
<1> QED BY <1>1, <1>2, <1>3, <1>4, <1>6

Views == [rows : Seq(Places), last : Nat \cup {NoSeq}]

\* Live updates are rendered behind the transcript, in order, and all of them but those
\* that come behind a higher id.
LEMMA RenderedView ==
    ASSUME Types, NEW v \in Views, NEW es \in Seq(Places)
    PROVE  LET w == Rendered(v, es) IN
           /\ w \in Views
           /\ w.last = v.last \/ \E p \in Range(w.rows) : w.last = Id(p)
           /\ \A p \in Range(w.rows) :
                 p \in Range(v.rows) \/ (p \in Range(es) /\ Id(p) > v.last)
           /\ Range(v.rows) \subseteq Range(w.rows)
           /\ /\ Chronicle(v.rows)
              /\ \A r \in Range(v.rows), p \in Range(es) : Before(r, p)
              => Chronicle(w.rows)
           /\ \A i \in DOMAIN es :
                 \/ es[i] \in Range(w.rows) \/ Id(es[i]) <= v.last
                 \/ \E j \in 1 .. i - 1 : Id(es[i]) <= Id(es[j])
PROOF
<1> DEFINE I == Fresh(v, es)  new == Subsequence(es, I)  w == Rendered(v, es)
<1>0. \A p \in Places : Id(p) \in Nat
  BY SentTypes
<1>1. \A j \in I : j \in 1 .. Len(es)
  BY DEF Fresh
<1>2. /\ new \in Seq(Places)
      /\ \A k \in DOMAIN new : \E i \in I : new[k] = es[i]
      /\ \A i \in I : \E k \in DOMAIN new : new[k] = es[i]
      /\ \A k, l \in DOMAIN new : k < l =>
            \E i, j \in I : i < j /\ new[k] = es[i] /\ new[l] = es[j]
  <2> HIDE DEF I
  <2> QED BY <1>1, SubsequenceType
<1>3. \A i \in I : /\ i \in DOMAIN es /\ Id(es[i]) > v.last
                   /\ \A j \in 1 .. i - 1 : Id(es[j]) < Id(es[i])
  BY DEF Fresh
<1>4. \A i \in DOMAIN es : /\ Id(es[i]) > v.last
                           /\ \A j \in 1 .. i - 1 : Id(es[j]) < Id(es[i])
                           => i \in I
  BY DEF Fresh
<1>5. w = [rows |-> v.rows \o new, last |-> IF new = <<>> THEN v.last ELSE Id(Last(new))]
  BY DEF Rendered
<1> HIDE DEF I, new, w
<1>6. Chronicle(new)
  <2> SUFFICES ASSUME NEW k \in DOMAIN new, NEW l \in DOMAIN new, k < l
               PROVE  Before(new[k], new[l])
    BY DEF Chronicle
  <2>1. PICK i \in I, j \in I : i < j /\ new[k] = es[i] /\ new[l] = es[j]
    BY <1>2
  <2>2. i \in 1 .. j - 1
    BY <1>1, <2>1
  <2> QED BY <1>3, <2>1, <2>2 DEF Before
<1>7. v.rows \in Seq(Places) /\ v.last \in Nat \cup {NoSeq}
  BY DEF Views
<1>8. w.rows = v.rows \o new /\ w.last = IF new = <<>> THEN v.last ELSE Id(Last(new))
  BY <1>5
<1>17. new \in Seq(Places)
  BY <1>2
<1>18. \A k \in DOMAIN new : new[k] \in Range(es) /\ Id(new[k]) > v.last
  BY <1>2, <1>3 DEF Range
<1>9. /\ w.rows \in Seq(Places) /\ Len(v.rows) \in Nat /\ Len(w.rows) = Len(v.rows) + Len(new)
      /\ \A k \in DOMAIN v.rows : k \in DOMAIN w.rows /\ w.rows[k] = v.rows[k] /\ k <= Len(v.rows)
      /\ \A i \in DOMAIN new : Len(v.rows) + i \in DOMAIN w.rows /\ w.rows[Len(v.rows) + i] = new[i]
      /\ \A k \in DOMAIN w.rows : k \in DOMAIN v.rows
            \/ /\ k \notin DOMAIN v.rows /\ k > Len(v.rows)
               /\ k - Len(v.rows) \in DOMAIN new /\ w.rows[k] = new[k - Len(v.rows)]
  <2> DEFINE s == v.rows  r == w.rows
  <2>1. s \in Seq(Places) /\ r = s \o new
    BY <1>7, <1>8
  <2> HIDE DEF s, r
  <2>2. /\ r \in Seq(Places) /\ Len(s) \in Nat /\ Len(r) = Len(s) + Len(new)
        /\ \A k \in DOMAIN s : k \in DOMAIN r /\ r[k] = s[k] /\ k <= Len(s)
        /\ \A i \in DOMAIN new : Len(s) + i \in DOMAIN r /\ r[Len(s) + i] = new[i]
        /\ \A k \in DOMAIN r : k \in DOMAIN s
              \/ /\ k \notin DOMAIN s /\ k > Len(s)
                 /\ k - Len(s) \in DOMAIN new /\ r[k] = new[k - Len(s)]
    BY <1>17, <2>1, Appended
  <2> QED BY <2>2 DEF s, r
<1>10. new # <<>> => Last(new) \in Places /\ \E k \in DOMAIN new : Last(new) = new[k]
  BY <1>2 DEF Last
<1>11. w \in Views
  <2>1. new # <<>> => Id(Last(new)) \in Nat
    BY <1>0, <1>10
  <2>2. w.last \in Nat \cup {NoSeq}
    BY <1>7, <1>8, <2>1
  <2> QED BY <1>5, <1>8, <1>9, <2>2 DEF Views
<1>12. w.last = v.last \/ \E p \in Range(w.rows) : w.last = Id(p)
  <2>1. ASSUME new # <<>>
        PROVE  Last(new) \in Range(w.rows)
    <3>1. PICK k \in DOMAIN new : Last(new) = new[k]
      BY <1>10, <2>1
    <3>2. Len(v.rows) + k \in DOMAIN w.rows /\ w.rows[Len(v.rows) + k] = Last(new)
      BY <1>9, <3>1
    <3> QED BY <3>2 DEF Range
  <2> QED BY <1>8, <2>1
<1>13. \A p \in Range(w.rows) : p \in Range(v.rows) \/ (p \in Range(es) /\ Id(p) > v.last)
  <2> SUFFICES ASSUME NEW k \in DOMAIN w.rows
               PROVE  w.rows[k] \in Range(v.rows)
                      \/ (w.rows[k] \in Range(es) /\ Id(w.rows[k]) > v.last)
    BY DEF Range
  <2>1. CASE k \in DOMAIN v.rows
    BY <1>9, <2>1 DEF Range
  <2>2. CASE k - Len(v.rows) \in DOMAIN new /\ w.rows[k] = new[k - Len(v.rows)]
    BY <1>18, <2>2
  <2> QED BY <1>9, <2>1, <2>2
<1>14. Range(v.rows) \subseteq Range(w.rows)
  BY <1>9 DEF Range
<1>15. ASSUME Chronicle(v.rows), \A r \in Range(v.rows), p \in Range(es) : Before(r, p)
       PROVE  Chronicle(w.rows)
  <2> SUFFICES ASSUME NEW k \in DOMAIN w.rows, NEW l \in DOMAIN w.rows, k < l
               PROVE  Before(w.rows[k], w.rows[l])
    BY DEF Chronicle
  <2>0. DOMAIN v.rows = 1 .. Len(v.rows) /\ k \in Nat /\ l \in Nat
    BY <1>7, <1>9, SMTT(20)
  <2>1. CASE l \in DOMAIN v.rows
    <3>1. k \in DOMAIN v.rows
      BY <1>9, <2>0, <2>1
    <3>2. w.rows[k] = v.rows[k] /\ w.rows[l] = v.rows[l]
      BY <1>9, <2>1, <3>1
    <3> QED BY <1>15, <2>1, <3>1, <3>2 DEF Chronicle
  <2>2. CASE l \notin DOMAIN v.rows /\ k \in DOMAIN v.rows
    <3>1. l - Len(v.rows) \in DOMAIN new /\ w.rows[l] = new[l - Len(v.rows)]
      BY <1>9, <2>2
    <3>2. w.rows[l] \in Range(es)
      BY <1>18, <3>1
    <3>3. w.rows[k] \in Range(v.rows)
      BY <1>9, <2>2 DEF Range
    <3> QED BY <1>15, <3>2, <3>3
  <2>3. CASE l \notin DOMAIN v.rows /\ k \notin DOMAIN v.rows
    <3>1. k - Len(v.rows) < l - Len(v.rows)
      BY <1>9, <2>0
    <3> QED BY <1>6, <1>9, <2>3, <3>1 DEF Chronicle
  <2> QED BY <2>1, <2>2, <2>3
<1>16. ASSUME NEW i \in DOMAIN es
       PROVE  \/ es[i] \in Range(w.rows) \/ Id(es[i]) <= v.last
              \/ \E j \in 1 .. i - 1 : Id(es[i]) <= Id(es[j])
  <2>1. \A j \in 1 .. i : Id(es[j]) \in Nat
    BY <1>0
  <2>2. CASE i \in I
    <3>1. PICK k \in DOMAIN new : new[k] = es[i]
      BY <1>2, <2>2
    <3>2. Len(v.rows) + k \in DOMAIN w.rows /\ w.rows[Len(v.rows) + k] = es[i]
      BY <1>9, <3>1
    <3> QED BY <3>2 DEF Range
  <2>3. CASE ~(Id(es[i]) > v.last)
    BY <1>7, <2>1, <2>3 DEF NoSeq
  <2>4. CASE \E j \in 1 .. i - 1 : ~(Id(es[j]) < Id(es[i]))
    <3>1. PICK j \in 1 .. i - 1 : ~(Id(es[j]) < Id(es[i]))
      BY <2>4
    <3>2. Id(es[j]) \in Nat /\ Id(es[i]) \in Nat
      BY <2>1, <3>1
    <3> QED BY <3>1, <3>2
  <2> QED BY <1>4, <2>2, <2>3, <2>4
<1> QED
  BY <1>11, <1>12, <1>13, <1>14, <1>15, <1>16 DEF w

-----------------------------------------------------------------------------
(* Types *)

LEMMA MessageKinds ==
    \A m \in Messages :
        /\ m.kind \in {"live", "replay", "response"}
        /\ m.kind = "live" => m.event \in Places
        /\ m.kind = "replay" => m.client \in Clients /\ m.lo \in Nat /\ m.hi \in Places
                                 /\ m.folds \subseteq Places
        /\ m.kind = "response" => m.client \in Clients
  BY DEF Messages

LEMMA ChanKinds ==
    \A m \in Updates \cup Flushes :
        /\ m.kind \in {"update", "flush"}
        /\ m.kind = "update" => m.lo \in Nat /\ m.hi \in Places /\ m.text \in BOOLEAN
        /\ m.kind = "flush" => m.client \in Clients /\ m.n \in {1, 2}
  BY DEF Updates, Flushes

LEMMA ViewType ==
    ASSUME Types, NEW c \in Clients
    PROVE  View(c) \in Views /\ View(c).rows = shown[c] /\ View(c).last = hw[c]
  BY DEF View, Views, Types, TypeOK, Channels

\* What a live update does to a client.
LEMMA LiveRouted ==
    ASSUME Types, RouteLive
    PROVE  \E e \in Places :
           /\ wire # <<>> /\ wire' = Tail(wire) /\ Head(wire).kind = "live" /\ Head(wire).event = e
           /\ DOMAIN buf' = Clients /\ DOMAIN shown' = Clients /\ DOMAIN hw' = Clients
           /\ \A c \in Clients :
                 /\ buf'[c] = IF c \in subs /\ Buffers(c) THEN Append(buf[c], e) ELSE buf[c]
                 /\ [rows |-> shown'[c], last |-> hw'[c]]
                       = IF c \in subs /\ ~Buffers(c) THEN Rendered(View(c), <<e>>) ELSE View(c)
           /\ degraded' = degraded \cup {c \in subs \cap loading : ~Buffers(c)}
PROOF
<1> DEFINE e == Head(wire).event
           view == [c \in Clients |-> IF c \in subs /\ ~Buffers(c)
                                      THEN Rendered(View(c), <<e>>) ELSE View(c)]
<1>1. /\ wire # <<>> /\ wire' = Tail(wire) /\ Head(wire).kind = "live"
      /\ buf' = [c \in Clients |-> IF c \in subs /\ Buffers(c)
                                   THEN Append(buf[c], e) ELSE buf[c]]
      /\ shown' = [c \in Clients |-> view[c].rows]
      /\ hw' = [c \in Clients |-> view[c].last]
      /\ degraded' = degraded \cup {c \in subs \cap loading : ~Buffers(c)}
  BY DEF RouteLive
<1>2. e \in Places
  <2>1. wire \in Seq(Messages)
    BY DEF Types, Channels
  <2> QED BY <1>1, <2>1, Taken, MessageKinds
<1>3. ASSUME NEW c \in Clients
      PROVE  [rows |-> shown'[c], last |-> hw'[c]] = view[c]
  <2>1. View(c) \in Views
    BY ViewType
  <2>2. <<e>> \in Seq(Places)
    BY <1>2
  <2>3. Rendered(View(c), <<e>>) \in Views
    BY <2>1, <2>2, RenderedView
  <2>4. view[c] \in Views
    BY <2>1, <2>3
  <2> HIDE DEF view
  <2>5. shown'[c] = view[c].rows /\ hw'[c] = view[c].last
    BY <1>1
  <2> QED BY <2>4, <2>5 DEF Views
<1> HIDE DEF e
<1> QED
  BY <1>1, <1>2, <1>3 DEF e

\* What it leaves on the screens.
LEMMA LiveShown ==
    ASSUME Types, RouteLive, NEW c \in Clients
    PROVE  LET e == Head(wire).event IN
           /\ shown'[c] \in Seq(Places) /\ hw'[c] \in Nat \cup {NoSeq}
           /\ c \notin subs \/ Buffers(c) => shown'[c] = shown[c] /\ hw'[c] = hw[c]
           /\ hw'[c] = hw[c] \/ \E p \in Range(shown'[c]) : hw'[c] = Id(p)
           /\ Range(shown'[c]) \subseteq Range(shown[c]) \cup {e}
           /\ Range(shown[c]) \subseteq Range(shown'[c])
           /\ Chronicle(shown[c]) /\ (\A r \in Range(shown[c]) : Before(r, e))
              => Chronicle(shown'[c])
           /\ c \in subs /\ ~Buffers(c) => e \in Range(shown'[c]) \/ Id(e) <= hw[c]
PROOF
<1>1. PICK e \in Places :
         /\ Head(wire).event = e
         /\ [rows |-> shown'[c], last |-> hw'[c]]
               = IF c \in subs /\ ~Buffers(c) THEN Rendered(View(c), <<e>>) ELSE View(c)
  BY LiveRouted
<1>2. View(c) \in Views /\ View(c).rows = shown[c] /\ View(c).last = hw[c]
  BY ViewType
<1> DEFINE v == View(c)  es == <<e>>  w == Rendered(v, es)
<1>3. es \in Seq(Places) /\ DOMAIN es = {1} /\ es[1] = e /\ Range(es) = {e}
  BY DEF Range
<1>4. v \in Views /\ v.rows = shown[c] /\ v.last = hw[c]
  BY <1>2
<1> HIDE DEF v, es, w
<1>5. /\ w \in Views
      /\ w.last = v.last \/ \E p \in Range(w.rows) : w.last = Id(p)
      /\ \A p \in Range(w.rows) :
            p \in Range(v.rows) \/ (p \in Range(es) /\ Id(p) > v.last)
      /\ Range(v.rows) \subseteq Range(w.rows)
      /\ /\ Chronicle(v.rows)
         /\ \A r \in Range(v.rows), p \in Range(es) : Before(r, p)
         => Chronicle(w.rows)
      /\ \A i \in DOMAIN es :
            \/ es[i] \in Range(w.rows) \/ Id(es[i]) <= v.last
            \/ \E j \in 1 .. i - 1 : Id(es[i]) <= Id(es[j])
  BY <1>3, <1>4, RenderedView DEF w
<1>6. CASE c \in subs /\ ~Buffers(c)
  <2>1. [rows |-> shown'[c], last |-> hw'[c]] = w
    BY <1>1, <1>6 DEF w, v, es
  <2>2. shown'[c] = w.rows /\ hw'[c] = w.last
    BY <2>1
  <2>3. /\ w.rows \in Seq(Places) /\ w.last \in Nat \cup {NoSeq}
    BY <1>5 DEF Views
  <2>4. w.last = hw[c] \/ \E p \in Range(w.rows) : w.last = Id(p)
    BY <1>4, <1>5
  <2>5. /\ Range(w.rows) \subseteq Range(shown[c]) \cup {e}
        /\ Range(shown[c]) \subseteq Range(w.rows)
    BY <1>3, <1>4, <1>5
  <2>6. /\ Chronicle(shown[c]) /\ (\A r \in Range(shown[c]) : Before(r, e))
        => Chronicle(w.rows)
    BY <1>3, <1>4, <1>5
  <2>7. e \in Range(w.rows) \/ Id(e) <= hw[c]
    <3>1. \/ es[1] \in Range(w.rows) \/ Id(es[1]) <= v.last
          \/ \E j \in 1 .. 1 - 1 : Id(es[1]) <= Id(es[j])
      BY <1>3, <1>5
    <3>2. 1 .. 1 - 1 = {}
      OBVIOUS
    <3> QED BY <1>3, <1>4, <3>1, <3>2
  <2> QED BY <1>1, <1>6, <2>2, <2>3, <2>4, <2>5, <2>6, <2>7
<1>7. CASE ~(c \in subs /\ ~Buffers(c))
  <2>1. [rows |-> shown'[c], last |-> hw'[c]] = v
    BY <1>1, <1>7 DEF v
  <2>2. shown'[c] = shown[c] /\ hw'[c] = hw[c]
    BY <1>4, <2>1
  <2> QED BY <1>4, <1>7, <2>2 DEF Views
<1> QED BY <1>6, <1>7

\* What a filter leaves of a sequence in order is in order.
LEMMA RetainIncreasing ==
    ASSUME NEW q \in Seq(Nat), NEW K, Increasing(q)
    PROVE  Increasing(Retain(q, K))
PROOF
<1> DEFINE I == Kept(q, K)  r == Retain(q, K)
<1>1. \A j \in I : j \in 1 .. Len(q)
  BY DEF Kept
<1>2. \A k, l \in DOMAIN r : k < l => \E i, j \in I : i < j /\ r[k] = q[i] /\ r[l] = q[j]
  <2> DEFINE t == Subsequence(q, I)
  <2>1. r = t
    BY DEF Retain
  <2> HIDE DEF I, r
  <2>2. \A k, l \in DOMAIN t : k < l => \E i, j \in I : i < j /\ t[k] = q[i] /\ t[l] = q[j]
    BY <1>1, SubsequenceType
  <2> HIDE DEF t
  <2> QED BY <2>1, <2>2
<1> HIDE DEF r, I
<1> SUFFICES ASSUME NEW k \in DOMAIN r, NEW l \in DOMAIN r, k < l
             PROVE  r[k] < r[l]
  BY DEF Increasing, r
<1>3. PICK i \in I, j \in I : i < j /\ r[k] = q[i] /\ r[l] = q[j]
  BY <1>2
<1>4. i \in DOMAIN q /\ j \in DOMAIN q
  BY <1>1
<1> QED
  BY <1>3, <1>4 DEF Increasing

\* Of a sequence in order, an earlier place is a smaller number.
LEMMA EarlierIsLess ==
    ASSUME NEW s \in Seq(Nat), Increasing(s), NEW i \in DOMAIN s, NEW j \in 1 .. i - 1
    PROVE  j \in DOMAIN s /\ s[j] < s[i]
  BY DEF Increasing

\* The held-back updates that the replay did not deliver
Due(c) == {p \in Range(buf[c]) : cutoff[c] = NoSeq \/ Id(p) > cutoff[c]}

\* What the response to a load leaves on the client's screen
LEMMA ResponseShown ==
    ASSUME Types, NEW c \in Clients
    PROVE  LET w == Rendered(View(c), NotReplayed(c)) IN
           /\ w.rows \in Seq(Places) /\ w.last \in Nat \cup {NoSeq}
           /\ w.last = hw[c] \/ \E p \in Range(w.rows) : w.last = Id(p)
           /\ Range(w.rows) \subseteq Range(shown[c]) \cup Due(c)
           /\ Range(shown[c]) \subseteq Range(w.rows)
           /\ Chronicle(shown[c]) /\ (\A r \in Range(shown[c]), p \in Due(c) : Before(r, p))
              => Chronicle(w.rows)
           /\ Increasing(buf[c]) =>
                 \A p \in Due(c) : \/ p \in Range(w.rows) \/ Id(p) <= hw[c]
                                   \/ \E q \in Due(c) : q < p /\ Id(p) <= Id(q)
PROOF
<1> DEFINE v == View(c)  es == NotReplayed(c)  w == Rendered(v, es)
<1>1. v \in Views /\ v.rows = shown[c] /\ v.last = hw[c]
  BY ViewType
<1>2. buf[c] \in Seq(Places)
  BY DEF Types, Channels
<1>3. es = Retain(buf[c], Due(c)) /\ Due(c) \subseteq Range(buf[c])
  BY DEF NotReplayed, Due
<1>4. es \in Seq(Places) /\ Range(es) = Range(buf[c]) \cap Due(c)
  BY <1>2, <1>3, RetainType
<1>5. Range(es) = Due(c)
  BY <1>3, <1>4
<1>6. /\ es \in Seq(Nat)
      /\ Increasing(buf[c]) => Increasing(es)
  <2>1. Places \subseteq Nat
    BY SentTypes
  <2>2. buf[c] \in Seq(Nat) /\ es \in Seq(Nat)
    <3> HIDE DEF es
    <3> QED BY <1>2, <1>4, <2>1, SeqGrows
  <2> QED BY <1>3, <2>2, RetainIncreasing
<1>7. \A j \in DOMAIN es : es[j] \in Due(c)
  BY <1>5 DEF Range
<1> HIDE DEF v, es, w
<1>8. /\ w \in Views
      /\ w.last = v.last \/ \E p \in Range(w.rows) : w.last = Id(p)
      /\ \A p \in Range(w.rows) :
            p \in Range(v.rows) \/ (p \in Range(es) /\ Id(p) > v.last)
      /\ Range(v.rows) \subseteq Range(w.rows)
      /\ /\ Chronicle(v.rows)
         /\ \A r \in Range(v.rows), p \in Range(es) : Before(r, p)
         => Chronicle(w.rows)
      /\ \A i \in DOMAIN es :
            \/ es[i] \in Range(w.rows) \/ Id(es[i]) <= v.last
            \/ \E j \in 1 .. i - 1 : Id(es[i]) <= Id(es[j])
  BY <1>1, <1>4, RenderedView DEF w
<1>9. w.rows \in Seq(Places) /\ w.last \in Nat \cup {NoSeq}
  BY <1>8 DEF Views
<1>10. /\ w.last = hw[c] \/ \E p \in Range(w.rows) : w.last = Id(p)
       /\ Range(w.rows) \subseteq Range(shown[c]) \cup Due(c)
       /\ Range(shown[c]) \subseteq Range(w.rows)
  BY <1>1, <1>5, <1>8
<1>11. /\ Chronicle(shown[c]) /\ (\A r \in Range(shown[c]), p \in Due(c) : Before(r, p))
       => Chronicle(w.rows)
  BY <1>1, <1>5, <1>8
<1>12. ASSUME Increasing(buf[c]), NEW p \in Due(c)
       PROVE  \/ p \in Range(w.rows) \/ Id(p) <= hw[c]
              \/ \E q \in Due(c) : q < p /\ Id(p) <= Id(q)
  <2>1. PICK i \in DOMAIN es : p = es[i]
    BY <1>5 DEF Range
  <2>2. CASE \E j \in 1 .. i - 1 : Id(es[i]) <= Id(es[j])
    <3>1. PICK j \in 1 .. i - 1 : Id(es[i]) <= Id(es[j])
      BY <2>2
    <3>2. j \in DOMAIN es /\ es[j] < es[i]
      BY <1>6, <1>12, <3>1, EarlierIsLess
    <3> QED BY <1>7, <2>1, <3>1, <3>2
  <2> QED BY <1>1, <1>8, <2>1, <2>2
<1> QED
  BY <1>9, <1>10, <1>11, <1>12 DEF w, v, es

LEMMA TypeInit == Init => Types
PROOF
<1> SUFFICES ASSUME Init
             PROVE  Types
  OBVIOUS
<1>1. TypeOK
  BY LoadAssumption DEF Init, TypeOK, Loads, NoSeq, Count
<1>2. Channels
  BY LoadAssumption DEF Init, Channels
<1> QED BY <1>1, <1>2 DEF Types

\* Nothing is sent: the places, the ids and the kinds stay.
LEMMA SameSent ==
    ASSUME UNCHANGED sent
    PROVE  /\ Count' = Count /\ Places' = Places /\ Lines' = Lines /\ Messages' = Messages
           /\ (Updates \cup Flushes)' = Updates \cup Flushes
           /\ \A p : Id(p)' = Id(p) /\ Kind(p)' = Kind(p)
  BY DEF Count, Places, Lines, Messages, Updates, Flushes, Id, Kind

\* What a read sends, line by line
LEMMA ReplayedType ==
    ASSUME NEW c \in Clients, NEW ls \in Seq(Lines)
    PROVE  LET rs == Replayed(c, ls) IN
           /\ rs \in Seq(Messages)
           /\ \A k \in DOMAIN rs : \E j \in Forwarded(ls) : rs[k] = Targeted(c, ls[j], Folds(ls, j))
           /\ \A j \in Forwarded(ls) : \E k \in DOMAIN rs : rs[k] = Targeted(c, ls[j], Folds(ls, j))
           /\ \A k, l \in DOMAIN rs : k < l =>
                 \E i, j \in Forwarded(ls) :
                     /\ i < j /\ rs[k] = Targeted(c, ls[i], Folds(ls, i))
                     /\ rs[l] = Targeted(c, ls[j], Folds(ls, j))
PROOF
<1> DEFINE F(j) == Targeted(c, ls[j], Folds(ls, j))
           q == [j \in DOMAIN ls |-> F(j)]  I == Forwarded(ls)  rs == Replayed(c, ls)
<1>1. DOMAIN ls = 1 .. Len(ls) /\ Len(ls) \in Nat /\ \A i \in DOMAIN ls : ls[i] \in Lines
  OBVIOUS
<1>2. \A j \in DOMAIN ls : Folds(ls, j) \subseteq Places
  <2> SUFFICES ASSUME NEW j \in DOMAIN ls, NEW f \in Folds(ls, j)
               PROVE  f \in Places
    OBVIOUS
  <2>1. PICK i \in 1 .. j - 1 : f = ls[i].hi
    BY DEF Folds
  <2>2. i \in DOMAIN ls
    BY <1>1, <2>1
  <2> QED BY <1>1, <2>1, <2>2 DEF Lines
<1>3. \A j \in DOMAIN ls : F(j) \in Messages
  <2> SUFFICES ASSUME NEW j \in DOMAIN ls
               PROVE  F(j) \in Messages
    OBVIOUS
  <2>1. ls[j].lo \in Nat /\ ls[j].hi \in Places /\ Folds(ls, j) \subseteq Places
    BY <1>1, <1>2 DEF Lines
  <2> QED BY <2>1 DEF Targeted, Messages
<1>4. rs = Subsequence(q, I)
  BY DEF Replayed
<1>5. \A j \in I : j \in 1 .. Len(ls)
  BY DEF Forwarded
<1> HIDE DEF F, I, rs
<1>6. q \in Seq(Messages) /\ Len(q) = Len(ls) /\ \A j \in 1 .. Len(ls) : q[j] = F(j)
  <2> HIDE DEF Messages
  <2> QED BY <1>1, <1>3
<1> HIDE DEF q
<1>7. \A j \in I : j \in 1 .. Len(q) /\ q[j] = F(j)
  BY <1>5, <1>6
<1> DEFINE t == Subsequence(q, I)
<1>8. /\ t \in Seq(Messages)
      /\ \A k \in DOMAIN t : \E i \in I : t[k] = q[i]
      /\ \A i \in I : \E k \in DOMAIN t : t[k] = q[i]
      /\ \A k, l \in DOMAIN t : k < l => \E i, j \in I : i < j /\ t[k] = q[i] /\ t[l] = q[j]
  BY <1>6, <1>7, SubsequenceType
<1> HIDE DEF t
<1>9. rs = t
  BY <1>4 DEF t
<1>10. /\ \A k \in DOMAIN t : \E i \in I : t[k] = F(i)
       /\ \A i \in I : \E k \in DOMAIN t : t[k] = F(i)
       /\ \A k, l \in DOMAIN t : k < l => \E i, j \in I : i < j /\ t[k] = F(i) /\ t[l] = F(j)
  <2>1. ASSUME NEW k \in DOMAIN t
        PROVE  \E i \in I : t[k] = F(i)
    <3>1. PICK i \in I : t[k] = q[i]
      BY <1>8
    <3> QED BY <1>7, <3>1
  <2>2. ASSUME NEW i \in I
        PROVE  \E k \in DOMAIN t : t[k] = F(i)
    <3>1. PICK k \in DOMAIN t : t[k] = q[i]
      BY <1>8
    <3>2. q[i] = F(i)
      BY <1>7
    <3> QED BY <3>1, <3>2
  <2>3. ASSUME NEW k \in DOMAIN t, NEW l \in DOMAIN t, k < l
        PROVE  \E i, j \in I : i < j /\ t[k] = F(i) /\ t[l] = F(j)
    <3>1. PICK i \in I, j \in I : i < j /\ t[k] = q[i] /\ t[l] = q[j]
      BY <1>8, <2>3
    <3>2. t[k] = F(i) /\ t[l] = F(j)
      BY <1>7, <3>1
    <3> QED BY <3>1, <3>2
  <2> QED BY <2>1, <2>2, <2>3
<1>11. /\ rs \in Seq(Messages)
       /\ \A k \in DOMAIN rs : \E i \in I : rs[k] = F(i)
       /\ \A i \in I : \E k \in DOMAIN rs : rs[k] = F(i)
       /\ \A k, l \in DOMAIN rs : k < l => \E i, j \in I : i < j /\ rs[k] = F(i) /\ rs[l] = F(j)
  BY <1>8, <1>9, <1>10
<1> QED BY <1>11 DEF F, I, rs

LEMMA NewMessages ==
    /\ \A e \in Places, text \in BOOLEAN : Update(e, text) \in Updates \cup Flushes
    /\ \A c \in Clients, n \in {1, 2} : FlushAndAck(c, n) \in Updates \cup Flushes
    /\ \A e \in Places : Live(e) \in Messages
    /\ \A c \in Clients : Response(c) \in Messages
PROOF
<1>1. \A e \in Places, text \in BOOLEAN : Update(e, text) \in Updates \cup Flushes
  BY DEF Update, Updates, Places
<1>2. \A c \in Clients, n \in {1, 2} : FlushAndAck(c, n) \in Updates \cup Flushes
  BY DEF FlushAndAck, Flushes
<1>3. \A e \in Places : Live(e) \in Messages
  BY DEF Live, Messages
<1>4. \A c \in Clients : Response(c) \in Messages
  BY DEF Response, Messages
<1> QED BY <1>1, <1>2, <1>3, <1>4

\* Nothing of what Types speaks of changes but what the action names.
LEMMA PersistTypes ==
    ASSUME Types, Persist
    PROVE  Types'
PROOF
<1>0. chan \in Seq(Updates \cup Flushes) /\ disk \in Seq(Lines)
  BY DEF Types, Channels
<1>1. CASE PersistUpdate
  <2> DEFINE u == Head(chan)
  <2>1. chan # <<>> /\ u.kind = "update" /\ chan' = Tail(chan)
    BY <1>1 DEF PersistUpdate
  <2>2. chan' \in Seq(Updates \cup Flushes) /\ u \in Updates \cup Flushes
    BY <1>0, <2>1, Taken
  <2>3. u.lo \in Nat /\ u.hi \in Places /\ u.text \in BOOLEAN
    BY <2>1, <2>2, ChanKinds
  <2>4. pend = NoLine \/ pend \in Lines
    BY DEF Types, Channels
  <2> HIDE DEF u
  <2>5. Line(u) \in Lines /\ (pend # NoLine => Merge(pend, u) \in Lines)
    BY <2>3, <2>4 DEF Line, Merge, Lines
  <2>6. /\ pend' = IF Mergeable(pend, u) THEN Merge(pend, u) ELSE Line(u)
        /\ disk' = IF Mergeable(pend, u) \/ pend = NoLine THEN disk ELSE Append(disk, pend)
    BY <1>1 DEF PersistUpdate, u
  <2>7. pend' \in Lines /\ disk' \in Seq(Lines)
    BY <1>0, <2>4, <2>5, <2>6 DEF Mergeable
  <2>8. \A i \in DOMAIN disk' : disk'[i] \in Lines
    BY <2>7
  <2>9. UNCHANGED <<minted, events, sent, gate, acked, load, off, wire, conn, subs,
                    loading, buf, cutoff, shown, folded, hw, gated, mark, delta, degraded,
                    faults>>
    BY <1>1 DEF PersistUpdate, sessionVars, agentVars, leaderVars, pagerVars, history
  <2>10. disk' \in Seq(Lines') /\ pend' \in Lines' /\ chan' \in Seq((Updates \cup Flushes)')
    BY <2>2, <2>7, <2>9, SameSent
  <2>11. TypeOK'
    BY <2>7, <2>8, <2>9, SentTypes, SameSent DEF Types, TypeOK, Lines
  <2> QED BY <2>9, <2>10, <2>11, SameSent DEF Types, Channels
<1>2. CASE PersistFlush
  <2>1. chan # <<>> /\ Head(chan).kind = "flush" /\ chan' = Tail(chan)
    BY <1>2 DEF PersistFlush
  <2>2. chan' \in Seq(Updates \cup Flushes) /\ Head(chan) \in Updates \cup Flushes
    BY <1>0, <2>1, Taken
  <2>3. Head(chan).client \in Clients /\ Head(chan).n \in {1, 2}
    BY <2>1, <2>2, ChanKinds
  <2>4. pend = NoLine \/ pend \in Lines
    BY DEF Types, Channels
  <2>5. /\ pend' = NoLine
        /\ disk' = IF pend = NoLine THEN disk ELSE Append(disk, pend)
        /\ acked' = acked \cup {f \in {<<Head(chan).client, Head(chan).n>>} : Awaits(f[1], f[2])}
    BY <1>2 DEF PersistFlush
  <2>6. disk' \in Seq(Lines)
    BY <1>0, <2>4, <2>5
  <2>7. acked' \subseteq Clients \X {1, 2}
    BY <2>3, <2>5 DEF Types, Channels
  <2>8. \A i \in DOMAIN disk' : disk'[i] \in Lines
    BY <2>6
  <2>9. UNCHANGED <<minted, events, sent, gate, load, off, wire, conn, subs, loading, buf,
                    cutoff, shown, folded, hw, gated, mark, delta, degraded, faults>>
    BY <1>2 DEF PersistFlush, sessionVars, agentVars, leaderVars, pagerVars, history
  <2>10. disk' \in Seq(Lines') /\ chan' \in Seq((Updates \cup Flushes)')
    BY <2>2, <2>6, <2>9, SameSent
  <2>11. TypeOK'
    BY <2>5, <2>8, <2>9, SentTypes, SameSent DEF Types, TypeOK, Lines
  <2> QED BY <2>5, <2>7, <2>9, <2>10, <2>11, SameSent DEF Types, Channels
<1> QED BY <1>1, <1>2 DEF Persist

\* One more update is sent: the others keep their place, kind and id.
LEMMA EmitGrows ==
    ASSUME Types, NEW u \in Notifications, NEW open \in BOOLEAN, Emit(u, open)
    PROVE  /\ Count' = Count + 1 /\ Places \subseteq Places' /\ Count \in Places'
           /\ Places' = Places \cup {Count} /\ sent' \in Seq(Notifications)
           /\ \A p \in Places : /\ Id(p)' = Id(p) /\ Kind(p)' = Kind(p)
                                /\ sent'[p + 1] = sent[p + 1]
           /\ sent'[Count + 1] = u
           /\ \A p : p = Count => Id(p)' = u.id /\ Kind(p)' = u.kind
           /\ Range(sent') = Range(sent) \cup {u}
PROOF
<1>1. sent \in Seq(Notifications) /\ sent' = Append(sent, u) /\ Count \in Nat
  BY SentTypes DEF Emit
<1>2. Len(sent') = Len(sent) + 1 /\ sent' \in Seq(Notifications) /\ DOMAIN sent' = 1 .. Len(sent) + 1
      /\ DOMAIN sent = 1 .. Len(sent)
  BY <1>1
<1>3. Count' = Count + 1 /\ Places' = 0 .. Count
  BY <1>1, <1>2 DEF Count, Places
<1>4. \A p \in Places : sent'[p + 1] = sent[p + 1]
  BY <1>1 DEF Places, Count
<1>5. sent'[Count + 1] = u
  BY <1>1 DEF Count
<1>6. Places' = Places \cup {Count}
  BY <1>1, <1>3 DEF Places
<1>7. \A p \in Places : Id(p)' = Id(p) /\ Kind(p)' = Kind(p)
  BY <1>4 DEF Id, Kind
<1>8. \A p : p = Count => Id(p)' = u.id /\ Kind(p)' = u.kind
  BY <1>5 DEF Id, Kind
<1>9. Range(sent') = Range(sent) \cup {u}
  <2>1. \A i \in DOMAIN sent : i \in DOMAIN sent' /\ sent'[i] = sent[i]
    BY <1>1
  <2>2. \A i \in DOMAIN sent' : i \in DOMAIN sent \/ i = Len(sent) + 1
    BY <1>2
  <2>3. Len(sent) + 1 \in DOMAIN sent' /\ sent'[Len(sent) + 1] = u
    BY <1>1
  <2> QED BY <2>1, <2>2, <2>3 DEF Range
<1>10. Places \subseteq Places' /\ Count \in Places'
  BY <1>6
<1> QED BY <1>2, <1>3, <1>4, <1>5, <1>6, <1>7, <1>8, <1>9, <1>10

LEMMA SetsGrow ==
    ASSUME Places \subseteq Places'
    PROVE  /\ Lines \subseteq Lines' /\ Messages \subseteq Messages'
           /\ Updates \cup Flushes \subseteq (Updates \cup Flushes)'
PROOF
<1>1. Lines \subseteq Lines' /\ Updates \cup Flushes \subseteq (Updates \cup Flushes)'
  BY DEF Lines, Updates, Flushes
<1>2. Messages \subseteq Messages'
  BY DEF Messages
<1> QED BY <1>1, <1>2

LEMMA EmitTypes ==
    ASSUME Types, NEW u \in Notifications, NEW open \in BOOLEAN, Emit(u, open),
           minted' \in Nat, events' \in Seq(Notifications), Count' + Len(events') = minted'
    PROVE  Types'
PROOF
<1>0. /\ Count \in Places' /\ Places \subseteq Places' /\ sent' \in Seq(Notifications)
      /\ Places' \subseteq Nat
  <2>1. /\ Count \in Places' /\ Places \subseteq Places' /\ sent' \in Seq(Notifications)
        /\ Places' = Places \cup {Count}
    BY EmitGrows
  <2> QED BY <2>1, SentTypes
<1>1. /\ Lines \subseteq Lines' /\ Messages \subseteq Messages'
      /\ Updates \cup Flushes \subseteq (Updates \cup Flushes)'
  BY <1>0, SetsGrow
<1>2. /\ chan' = Append(chan, Update(Count, u.kind = "text"))
      /\ wire' = Append(wire, Live(Count)) \/ wire' = wire
      /\ gated' = gated \/ gated' = gated \cup {Count}
  BY DEF Emit
<1>3. UNCHANGED <<gate, pend, disk, acked, load, off, conn, subs, loading, buf, cutoff,
                  shown, folded, hw, mark, delta, degraded, faults>>
  BY DEF Emit, agentVars, leaderVars, pagerVars
<1>4. chan' \in Seq((Updates \cup Flushes)')
  <2>1. chan \in Seq((Updates \cup Flushes)')
    BY <1>1, SeqGrows DEF Types, Channels
  <2>2. Update(Count, u.kind = "text") \in (Updates \cup Flushes)'
    BY <1>0 DEF Update, Updates
  <2> DEFINE S == (Updates \cup Flushes)'  x == Update(Count, u.kind = "text")
  <2> HIDE DEF S, x
  <2>3. chan \in Seq(S) /\ x \in S /\ chan' = Append(chan, x)
    BY <1>2, <2>1, <2>2 DEF S, x
  <2>4. chan' \in Seq(S)
    BY <2>3, AppendedOne
  <2> QED BY <2>4 DEF S
<1>5. wire' \in Seq(Messages')
  <2>1. wire \in Seq(Messages')
    BY <1>1, SeqGrows DEF Types, Channels
  <2>2. Live(Count) \in Messages'
    BY <1>0 DEF Live, Messages
  <2> DEFINE S == Messages'  x == Live(Count)
  <2> HIDE DEF S, x
  <2>3. wire \in Seq(S) /\ x \in S /\ (wire' = Append(wire, x) \/ wire' = wire)
    BY <1>2, <2>1, <2>2 DEF S, x
  <2>4. wire' \in Seq(S)
    BY <2>3, AppendedOne
  <2> QED BY <2>4 DEF S
<1>6. disk \in Seq(Lines') /\ (pend # NoLine => pend \in Lines')
  BY <1>1, SeqGrows DEF Types, Channels
<1>7. buf \in [Clients -> Seq(Places')] /\ shown \in [Clients -> Seq(Places')]
      /\ folded \in [Clients -> SUBSET Places']
  <2>1. Seq(Places) \subseteq Seq(Places')
    BY <1>0, SeqGrows
  <2>2. buf \in [Clients -> Seq(Places)] /\ shown \in [Clients -> Seq(Places)]
        /\ folded \in [Clients -> SUBSET Places]
    BY DEF Types, Channels
  <2>3. buf \in [Clients -> Seq(Places')] /\ shown \in [Clients -> Seq(Places')]
    BY <2>1, <2>2
  <2>4. folded \in [Clients -> SUBSET Places']
    BY <1>0, <2>2
  <2> QED BY <2>3, <2>4
<1>8. gated' \subseteq Places'
  BY <1>0, <1>2 DEF Types, Channels
<1>9. TypeOK'
  BY <1>0, <1>3 DEF Types, TypeOK
<1>10. Channels'
  BY <1>3, <1>4, <1>5, <1>6, <1>7, <1>8 DEF Types, Channels
<1> QED BY <1>9, <1>10 DEF Types

\* The updates the session stamps
LEMMA StampTypes ==
    ASSUME Types
    PROVE  /\ Calls \subseteq Nat /\ OpenCalls \subseteq Calls /\ Announced \subseteq Notifications
           /\ \A kind \in Kinds, of \in Nat \cup {NoSeq} : Stamped(kind, of) \in Notifications
PROOF
<1>1. sent \in Seq(Notifications) /\ events \in Seq(Notifications) /\ minted \in Nat
  BY DEF Types, TypeOK
<1>2. Announced \subseteq Notifications
  BY <1>1 DEF Announced, Range
<1>3. \A u \in Notifications : u.id \in Nat
  BY DEF Notifications
<1>4. Calls \subseteq Nat
  BY <1>2, <1>3 DEF Calls
<1>5. \A kind \in Kinds, of \in Nat \cup {NoSeq} : Stamped(kind, of) \in Notifications
  BY <1>1 DEF Stamped, Notifications
<1> QED BY <1>2, <1>4, <1>5 DEF OpenCalls

\* What the session does
SessionStep ==
    \/ \E kind \in Queueable, of \in OpenCalls \cup {NoSeq} : Enqueue(kind, of)
    \/ EmitBuffered
    \/ \E kind \in Direct : EmitDirect(kind)

\* It queues an update, sends the first one of event_tx or sends one past it.
Enqueues(u) ==
    /\ minted' = minted + 1 /\ events' = Append(events, u) /\ u.id = minted
    /\ u.kind = "done" => u.of \in Calls
    /\ UNCHANGED <<sent, gate, chan, pend, disk, acked, load, off, wire, conn, subs,
                   loading, buf, cutoff, shown, folded, hw, gated, mark, delta, degraded,
                   faults>>
Sends(u) ==
    \/ /\ events # <<>> /\ u = Head(events) /\ events' = Tail(events) /\ minted' = minted
    \/ /\ u.id = minted /\ minted' = minted + 1 /\ events' = events /\ u.kind \notin Ordered

LEMMA SessionCases ==
    ASSUME Types, SessionStep
    PROVE  \/ \E u \in Notifications : Enqueues(u)
           \/ \E u \in Notifications, open \in BOOLEAN : Emit(u, open) /\ Sends(u)
PROOF
<1>0. events \in Seq(Notifications) /\ gate \in BOOLEAN
  BY DEF Types, TypeOK
<1>1. ASSUME NEW kind \in Queueable, NEW of \in OpenCalls \cup {NoSeq}, Enqueue(kind, of)
      PROVE  \E u \in Notifications : Enqueues(u)
  <2> DEFINE u == Stamped(kind, of)
  <2>1. u \in Notifications
    BY StampTypes DEF Kinds
  <2>2. u.id = minted /\ u.kind = kind /\ u.of = of
    BY DEF Stamped
  <2>3. kind = "done" => of \in Calls
    BY <1>1, StampTypes DEF Enqueue
  <2>4. minted' = minted + 1 /\ events' = Append(events, u)
    BY <1>1 DEF Enqueue, Mints
  <2>5. UNCHANGED <<sent, gate, chan, pend, disk, acked, load, off, wire, conn, subs,
                    loading, buf, cutoff, shown, folded, hw, gated, mark, delta, degraded,
                    faults>>
    BY <1>1 DEF Enqueue, diskVars, agentVars, leaderVars, pagerVars, history
  <2> HIDE DEF u
  <2> QED BY <2>1, <2>2, <2>3, <2>4, <2>5 DEF Enqueues
<1>2. ASSUME EmitBuffered
      PROVE  \E u \in Notifications, open \in BOOLEAN : Emit(u, open) /\ Sends(u)
  <2>1. events # <<>> /\ events' = Tail(events) /\ Emit(Head(events), gate) /\ minted' = minted
    BY <1>2 DEF EmitBuffered
  <2>2. Head(events) \in Notifications
    BY <1>0, <2>1
  <2> QED BY <1>0, <2>1, <2>2 DEF Sends
<1>3. ASSUME NEW kind \in Direct, EmitDirect(kind)
      PROVE  \E u \in Notifications, open \in BOOLEAN : Emit(u, open) /\ Sends(u)
  <2> DEFINE u == Stamped(kind, NoSeq)  open == kind # "hidden" /\ (gate \/ kind = "mode")
  <2>1. u \in Notifications
    BY StampTypes DEF Kinds
  <2>2. u.id = minted /\ u.kind = kind
    BY DEF Stamped
  <2>3. u.kind \notin Ordered
    BY <2>2 DEF Direct, Ordered
  <2>4. minted' = minted + 1 /\ events' = events /\ Emit(u, open)
    BY <1>3 DEF EmitDirect, Mints
  <2>5. open \in BOOLEAN
    BY <1>0
  <2> HIDE DEF u, open
  <2> QED BY <2>1, <2>2, <2>3, <2>4, <2>5 DEF Sends
<1> QED BY <1>1, <1>2, <1>3 DEF SessionStep

LEMMA SessionTypes ==
    ASSUME Types, SessionStep
    PROVE  Types'
PROOF
<1>0. events \in Seq(Notifications) /\ minted \in Nat /\ Count + Len(events) = minted
      /\ Count \in Nat
  BY SentTypes DEF Types, TypeOK
<1>1. ASSUME NEW u \in Notifications, Enqueues(u)
      PROVE  Types'
  <2>1. minted' \in Nat /\ events' \in Seq(Notifications) /\ Len(events') = Len(events) + 1
        /\ minted' = minted + 1 /\ Len(events) \in Nat
    BY <1>0, <1>1 DEF Enqueues
  <2>2. UNCHANGED <<sent, gate, chan, pend, disk, acked, load, off, wire, conn, subs,
                    loading, buf, cutoff, shown, folded, hw, gated, mark, delta, degraded,
                    faults>>
    BY <1>1 DEF Enqueues
  <2>3. Count' + Len(events') = minted' /\ Count' = Count
    BY <1>0, <2>1, <2>2, SameSent
  <2>4. TypeOK'
    BY <2>1, <2>2, <2>3 DEF Types, TypeOK
  <2> QED BY <2>2, <2>4, SameSent DEF Types, Channels
<1>2. ASSUME NEW u \in Notifications, NEW open \in BOOLEAN, Emit(u, open), Sends(u)
      PROVE  Types'
  <2>1. Count' = Count + 1
    BY <1>2, EmitGrows
  <2>2. minted' \in Nat /\ events' \in Seq(Notifications) /\ Count' + Len(events') = minted'
    <3>1. CASE events # <<>> /\ u = Head(events) /\ events' = Tail(events) /\ minted' = minted
      <4>1. events' \in Seq(Notifications) /\ Len(events') = Len(events) - 1 /\ Len(events) \in Nat
        BY <1>0, <3>1
      <4> QED BY <1>0, <2>1, <3>1, <4>1
    <3>2. CASE minted' = minted + 1 /\ events' = events
      <4>1. Len(events) \in Nat
        BY <1>0
      <4> QED BY <1>0, <2>1, <3>2, <4>1
    <3> QED BY <1>2, <3>1, <3>2 DEF Sends
  <2> QED BY <1>2, <2>2, EmitTypes
<1> QED BY <1>1, <1>2, SessionCases


LEMMA AgentTypes ==
    ASSUME Types, NEW c \in Clients, Agent(c)
    PROVE  Types'
PROOF
<1>0. /\ load \in [Clients -> Loads] /\ wire \in Seq(Messages) /\ disk \in Seq(Lines)
      /\ off \in [Clients -> Nat] /\ mark \in [Clients -> Nat] /\ Count \in Nat
      /\ delta \in [Clients -> Nat]
      /\ chan \in Seq(Updates \cup Flushes)
  BY SentTypes DEF Types, TypeOK, Channels
<1>a. acked \subseteq Clients \X {1, 2}
  BY DEF Types, Channels
<1>b. gate \in BOOLEAN
  BY DEF Types, TypeOK
<1>c. degraded \subseteq Clients /\ faults \in Nat
  BY DEF Types, Channels
<1>1. UNCHANGED <<minted, events, sent, pend, disk, conn, subs, loading, buf, cutoff,
                  shown, folded, hw, gated>>
  BY DEF Agent, LoadStart, FlushComplete, FlushTimeout, Flushed1, LoadFails, Replay, DeltaReplay,
         OpenGate, Respond, sessionVars, diskVars, leaderVars, pagerVars, history
<1>2. load' \in [Clients -> Loads]
  BY <1>0 DEF Agent, LoadStart, FlushComplete, FlushTimeout, Flushed1, LoadFails, Replay,
              DeltaReplay, OpenGate, Respond, At, Loads
<1>3. gate' \in BOOLEAN /\ degraded' \subseteq Clients /\ faults' \in Nat
  <2>1. gate' = gate \/ gate' = TRUE \/ gate' = FALSE
    BY DEF Agent, LoadStart, FlushComplete, FlushTimeout, Flushed1, LoadFails, Replay,
           DeltaReplay, OpenGate, Respond, sessionVars
  <2>2. degraded' = degraded \/ degraded' = degraded \cup {c}
    BY DEF Agent, LoadStart, FlushComplete, FlushTimeout, Flushed1, LoadFails, Replay,
           DeltaReplay, OpenGate, Respond, history
  <2>3. faults' = faults \/ faults' = faults + 1
    BY DEF Agent, LoadStart, FlushComplete, FlushTimeout, Flushed1, LoadFails, Replay,
           DeltaReplay, OpenGate, Respond, Fault, history
  <2>4. gate' \in BOOLEAN
    BY <1>b, <2>1
  <2> QED BY <1>c, <2>2, <2>3, <2>4
<1>4. acked' \subseteq Clients \X {1, 2}
  BY <1>a DEF Agent, LoadStart, FlushComplete, FlushTimeout, Flushed1, LoadFails, Replay,
              DeltaReplay, OpenGate, Respond, diskVars
<1>5. off' \in [Clients -> Nat] /\ mark' \in [Clients -> Nat] /\ delta' \in [Clients -> Nat]
  <2>1. off' = off \/ off' = [off EXCEPT ![c] = Len(disk)]
    BY DEF Agent, LoadStart, FlushComplete, FlushTimeout, Flushed1, LoadFails, Replay,
           DeltaReplay, OpenGate, Respond, agentVars
  <2>2. mark' = mark \/ mark' = [mark EXCEPT ![c] = Count]
    BY DEF Agent, LoadStart, FlushComplete, FlushTimeout, Flushed1, LoadFails, Replay,
           DeltaReplay, OpenGate, Respond, history
  <2>3. Len(disk) \in Nat
    BY <1>0
  <2>4. off' \in [Clients -> Nat]
    BY <1>0, <2>1, <2>3
  <2>5. mark' \in [Clients -> Nat]
    BY <1>0, <2>2
  <2>6. delta' = delta \/ delta' = [delta EXCEPT ![c] = Len(disk)]
    BY DEF Agent, LoadStart, FlushComplete, FlushTimeout, Flushed1, LoadFails, Replay,
           DeltaReplay, OpenGate, Respond, history
  <2>7. delta' \in [Clients -> Nat]
    BY <1>0, <2>3, <2>6
  <2> QED BY <2>4, <2>5, <2>7
<1>6. chan' \in Seq(Updates \cup Flushes)
  <2>1. chan' = chan \/ chan' = Append(chan, FlushAndAck(c, 1)) \/ chan' = Append(chan, FlushAndAck(c, 2))
    BY DEF Agent, LoadStart, FlushComplete, FlushTimeout, Flushed1, LoadFails, Replay,
           DeltaReplay, OpenGate, Respond, diskVars
  <2>2. FlushAndAck(c, 1) \in Updates \cup Flushes /\ FlushAndAck(c, 2) \in Updates \cup Flushes
    BY NewMessages
  <2>3. chan \in Seq(Updates \cup Flushes)
    BY <1>0
  <2>4. \A x \in Updates \cup Flushes : Append(chan, x) \in Seq(Updates \cup Flushes)
    BY <2>3, AppendedOne
  <2> QED BY <2>1, <2>2, <2>3, <2>4
<1>7. wire' \in Seq(Messages)
  <2>1. \/ wire' = wire \/ wire' = Append(wire, Response(c))
        \/ wire' = wire \o Replayed(c, disk) \/ wire' = wire \o Replayed(c, DeltaLines(c))
    BY DEF Agent, LoadStart, FlushComplete, FlushTimeout, Flushed1, LoadFails, Replay,
           DeltaReplay, OpenGate, Respond
  <2>2. DeltaLines(c) \in Seq(Lines)
    <3>1. off[c] + 1 \in Nat /\ off[c] + 1 >= 1 /\ Len(disk) \in Nat
      BY <1>0
    <3> QED BY <1>0, <3>1 DEF DeltaLines
  <2>3. Replayed(c, disk) \in Seq(Messages) /\ Replayed(c, DeltaLines(c)) \in Seq(Messages)
    BY <1>0, <2>2, ReplayedType
  <2>4. Response(c) \in Messages
    BY NewMessages
  <2>5. wire \in Seq(Messages)
    BY <1>0
  <2>6. Append(wire, Response(c)) \in Seq(Messages)
    BY <2>4, <2>5, AppendedOne
  <2>7. wire \o Replayed(c, disk) \in Seq(Messages)
    BY <2>3, <2>5
  <2>8. wire \o Replayed(c, DeltaLines(c)) \in Seq(Messages)
    BY <2>3, <2>5
  <2> QED BY <2>1, <2>5, <2>6, <2>7, <2>8
<1>8. TypeOK'
  BY <1>1, <1>2, <1>3, <1>5, SameSent DEF Types, TypeOK
<1> QED BY <1>1, <1>3, <1>4, <1>5, <1>6, <1>7, <1>8, SameSent DEF Types, Channels

LEMMA ClientTypes ==
    ASSUME Types, NEW c \in Clients, RequestLoad(c) \/ Disconnect(c)
    PROVE  Types'
PROOF
<1>0. /\ load \in [Clients -> Loads] /\ conn \in [Clients -> {"new", "up", "gone"}]
      /\ subs \subseteq Clients /\ loading \subseteq subs /\ faults \in Nat
      /\ buf \in [Clients -> Seq(Places)] /\ shown \in [Clients -> Seq(Places)]
      /\ cutoff \in [Clients -> Nat \cup {NoSeq}] /\ hw \in [Clients -> Nat \cup {NoSeq}]
      /\ degraded \subseteq Clients /\ MaxBuffer \in Nat
      /\ folded \in [Clients -> SUBSET Places]
  BY LoadAssumption DEF Types, TypeOK, Channels
<1>1. CASE RequestLoad(c)
  <2>1. /\ conn' \in [Clients -> {"new", "up", "gone"}] /\ load' \in [Clients -> Loads]
        /\ subs' \subseteq Clients /\ loading' \subseteq subs' /\ loading \subseteq loading'
    BY <1>0, <1>1 DEF RequestLoad, Loads
  <2>2. UNCHANGED <<minted, events, sent, gate, chan, pend, disk, acked, off, wire, buf,
                    cutoff, shown, folded, hw, gated, mark, delta, degraded, faults>>
    BY <1>1 DEF RequestLoad, sessionVars, diskVars, pagerVars, history
  <2>3. TypeOK'
    BY <2>1, <2>2, SameSent DEF Types, TypeOK
  <2> QED BY <2>2, <2>3, SameSent DEF Types, Channels
<1>2. CASE Disconnect(c)
  <2>1. /\ conn' \in [Clients -> {"new", "up", "gone"}]
        /\ subs' \subseteq Clients /\ loading' \subseteq subs' /\ faults' \in Nat
        /\ degraded' \subseteq Clients
    BY <1>0, <1>2 DEF Disconnect, Fault
  <2>2. /\ cutoff' \in [Clients -> Nat \cup {NoSeq}] /\ hw' \in [Clients -> Nat \cup {NoSeq}]
        /\ buf' \in [Clients -> Seq(Places)] /\ shown' \in [Clients -> Seq(Places)]
        /\ folded' \in [Clients -> SUBSET Places]
    BY <1>0, <1>2 DEF Disconnect
  <2>3. \A d \in Clients : Len(buf'[d]) <= MaxBuffer /\ (d \notin loading' => buf'[d] = <<>>)
    BY <1>0, <1>2 DEF Disconnect, Types, TypeOK
  <2>4. UNCHANGED <<minted, events, sent, gate, chan, pend, disk, acked, load, off, wire,
                    gated, mark, delta>>
    BY <1>2 DEF Disconnect, sessionVars, diskVars, agentVars
  <2>5. folded' \in [Clients -> SUBSET Nat]
    BY <2>2, SentTypes
  <2>6. TypeOK'
    BY <2>1, <2>2, <2>3, <2>4, <2>5, SameSent DEF Types, TypeOK
  <2> QED BY <2>1, <2>2, <2>4, <2>6, SameSent DEF Types, Channels
<1> QED BY <1>1, <1>2

LEMMA LiveTypes ==
    ASSUME Types, RouteLive
    PROVE  Types'
PROOF
<1>0. /\ wire \in Seq(Messages) /\ buf \in [Clients -> Seq(Places)] /\ MaxBuffer \in Nat
      /\ subs \subseteq Clients /\ loading \subseteq subs /\ degraded \subseteq Clients
  BY LoadAssumption DEF Types, TypeOK, Channels
<1>1. PICK e \in Places :
         /\ wire # <<>> /\ wire' = Tail(wire)
         /\ DOMAIN buf' = Clients /\ DOMAIN shown' = Clients /\ DOMAIN hw' = Clients
         /\ \A c \in Clients :
               buf'[c] = IF c \in subs /\ Buffers(c) THEN Append(buf[c], e) ELSE buf[c]
         /\ degraded' = degraded \cup {c \in subs \cap loading : ~Buffers(c)}
  BY LiveRouted DEF Types
<1>2. wire' \in Seq(Messages)
  BY <1>0, <1>1, Taken
<1>3. \A c \in Clients : shown'[c] \in Seq(Places) /\ hw'[c] \in Nat \cup {NoSeq}
  BY LiveShown DEF Types
<1>4. UNCHANGED <<minted, events, sent, gate, chan, pend, disk, acked, load, off, conn,
                  subs, loading, cutoff, folded, gated, mark, delta, faults>>
  BY DEF RouteLive, sessionVars, diskVars, agentVars
<1>5. shown' = [c \in Clients |-> shown'[c]] /\ hw' = [c \in Clients |-> hw'[c]]
      /\ buf' = [c \in Clients |-> buf'[c]]
  BY DEF RouteLive
<1>6. shown' \in [Clients -> Seq(Places)] /\ hw' \in [Clients -> Nat \cup {NoSeq}]
  BY <1>3, <1>5
<1>7. ASSUME NEW c \in Clients
      PROVE  /\ buf'[c] \in Seq(Places) /\ Len(buf'[c]) <= MaxBuffer
             /\ c \notin loading => buf'[c] = <<>>
  <2>1. /\ buf[c] \in Seq(Places) /\ Len(buf[c]) <= MaxBuffer /\ (c \notin loading => buf[c] = <<>>)
        /\ Len(buf[c]) \in Nat
    BY <1>0 DEF Types, TypeOK
  <2>2. CASE c \in subs /\ Buffers(c)
    <3>1. buf'[c] = Append(buf[c], e) /\ c \in loading /\ Len(buf[c]) < MaxBuffer
      BY <1>1, <2>2 DEF Buffers
    <3> QED BY <1>0, <2>1, <3>1
  <2>3. CASE ~(c \in subs /\ Buffers(c))
    BY <1>1, <2>1, <2>3
  <2> QED BY <2>2, <2>3
<1>8. buf' \in [Clients -> Seq(Places)]
  BY <1>5, <1>7
<1>9. degraded' \subseteq Clients
  BY <1>0, <1>1
<1>10. TypeOK'
  BY <1>4, <1>6, <1>7, SameSent DEF Types, TypeOK
<1> QED BY <1>2, <1>4, <1>6, <1>8, <1>9, <1>10, SameSent DEF Types, Channels

\* The rows of a replay line
LEMMA RowsType ==
    ASSUME NEW lo \in Nat, NEW n \in Nat, NEW hi \in 0 .. n - 1
    PROVE  LET rows == [i \in 1 .. hi - lo + 1 |-> lo + i - 1] IN
           /\ rows \in Seq(0 .. n - 1) /\ Range(rows) = lo .. hi
           /\ Increasing(rows)
PROOF
<1> DEFINE m == IF hi >= lo THEN hi - lo + 1 ELSE 0
           row(i) == lo + i - 1
           rows == [i \in 1 .. hi - lo + 1 |-> lo + i - 1]
<1>1. m \in Nat /\ 1 .. hi - lo + 1 = 1 .. m
  OBVIOUS
<1>2. rows = [i \in 1 .. m |-> row(i)] /\ \A i \in 1 .. m : row(i) \in 0 .. n - 1
  BY <1>1
<1>3. rows \in Seq(0 .. n - 1)
  <2> DEFINE S == 0 .. n - 1
  <2>1. \A i \in 1 .. m : row(i) \in S
    BY <1>2
  <2> HIDE DEF m, rows, row, S
  <2>2. rows \in Seq(S)
    BY <1>1, <1>2, <2>1
  <2> QED BY <2>2 DEF S
<1>4. DOMAIN rows = 1 .. hi - lo + 1 /\ \A i \in 1 .. hi - lo + 1 : rows[i] = lo + i - 1
  OBVIOUS
<1>5. \A p \in lo .. hi : p - lo + 1 \in 1 .. hi - lo + 1 /\ lo + (p - lo + 1) - 1 = p
  OBVIOUS
<1>6. \A i \in 1 .. hi - lo + 1 : lo + i - 1 \in lo .. hi
  OBVIOUS
<1> HIDE DEF rows
<1>7. Range(rows) = lo .. hi
  <2>1. \A p \in Range(rows) : p \in lo .. hi
    BY <1>4, <1>6 DEF Range
  <2>2. ASSUME NEW p \in lo .. hi
        PROVE  p \in Range(rows)
    <3>1. p - lo + 1 \in DOMAIN rows /\ rows[p - lo + 1] = p
      BY <1>4, <1>5
    <3> QED BY <3>1 DEF Range
  <2> QED BY <2>1, <2>2
<1>8. Increasing(rows)
  BY <1>4 DEF Increasing
<1> QED BY <1>3, <1>7, <1>8 DEF rows

LEMMA ReplayTypes ==
    ASSUME Types, RouteReplay
    PROVE  Types'
PROOF
<1> DEFINE l == Head(wire)  c == l.client
           rows == [i \in 1 .. l.hi - l.lo + 1 |-> l.lo + i - 1]
<1>0. /\ wire \in Seq(Messages) /\ shown \in [Clients -> Seq(Places)]
      /\ cutoff \in [Clients -> Nat \cup {NoSeq}] /\ folded \in [Clients -> SUBSET Places]
  BY DEF Types, TypeOK, Channels
<1>1. wire # <<>> /\ l.kind = "replay" /\ wire' = Tail(wire)
  BY DEF RouteReplay
<1>2. wire' \in Seq(Messages) /\ l \in Messages
  BY <1>0, <1>1, Taken
<1>3. c \in Clients /\ l.lo \in Nat /\ l.hi \in Places /\ l.folds \subseteq Places
      /\ LineId(l) \in Nat
  BY <1>1, <1>2, MessageKinds, SentTypes DEF LineId
<1>4. UNCHANGED <<minted, events, sent, gate, chan, pend, disk, acked, load, off, conn,
                  subs, loading, buf, hw, gated, mark, delta, degraded, faults>>
  BY DEF RouteReplay, sessionVars, diskVars, agentVars, history
<1>5. \/ /\ shown' = [shown EXCEPT ![c] = @ \o rows]
         /\ folded' = [folded EXCEPT ![c] = @ \cup l.folds]
         /\ cutoff' = [cutoff EXCEPT ![c] = IF LineId(l) > @ THEN LineId(l) ELSE @]
      \/ UNCHANGED <<shown, folded, cutoff>>
  BY DEF RouteReplay
<1> HIDE DEF l, c
<1>6. rows \in Seq(Places)
  BY <1>3, RowsType, SentTypes DEF Places
<1> HIDE DEF rows
<1>7. shown' \in [Clients -> Seq(Places)]
  <2>1. shown[c] \o rows \in Seq(Places)
    BY <1>0, <1>3, <1>6
  <2>2. shown' = [shown EXCEPT ![c] = shown[c] \o rows] \/ shown' = shown
    BY <1>5
  <2> QED BY <1>0, <1>3, <2>1, <2>2
<1>8. cutoff' \in [Clients -> Nat \cup {NoSeq}]
  BY <1>0, <1>3, <1>5
<1>9. folded' \in [Clients -> SUBSET Places] /\ folded' \in [Clients -> SUBSET Nat]
  <2>1. PICK F : F = folded[c] \cup l.folds
    OBVIOUS
  <2>2. F \in SUBSET Places /\ folded \in [Clients -> SUBSET Places]
    BY <1>0, <1>3, <2>1
  <2>3. folded' = [folded EXCEPT ![c] = F] \/ folded' = folded
    BY <1>5, <2>1
  <2>4. folded' \in [Clients -> SUBSET Places]
    BY <2>2, <2>3
  <2> QED BY <2>4, SentTypes
<1>10. TypeOK'
  BY <1>4, <1>8, <1>9, SameSent DEF Types, TypeOK
<1> QED BY <1>2, <1>4, <1>7, <1>9, <1>10, SameSent DEF Types, Channels

LEMMA ResponseTypes ==
    ASSUME Types, RouteResponse
    PROVE  Types'
PROOF
<1> DEFINE c == Head(wire).client  view == Rendered(View(c), NotReplayed(c))
<1>0. /\ wire \in Seq(Messages) /\ shown \in [Clients -> Seq(Places)]
      /\ cutoff \in [Clients -> Nat \cup {NoSeq}] /\ hw \in [Clients -> Nat \cup {NoSeq}]
      /\ buf \in [Clients -> Seq(Places)] /\ loading \subseteq subs /\ MaxBuffer \in Nat
  BY LoadAssumption DEF Types, TypeOK, Channels
<1>1. wire # <<>> /\ Head(wire).kind = "response" /\ wire' = Tail(wire)
  BY DEF RouteResponse
<1>2. wire' \in Seq(Messages) /\ Head(wire) \in Messages
  BY <1>0, <1>1, Taken
<1>3. c \in Clients
  BY <1>1, <1>2, MessageKinds
<1>4. UNCHANGED <<minted, events, sent, gate, chan, pend, disk, acked, load, off, conn,
                  subs, folded, gated, mark, delta, degraded, faults>>
  BY DEF RouteResponse, sessionVars, diskVars, agentVars, history
<1>5. \/ /\ loading' = loading \ {c} /\ buf' = [buf EXCEPT ![c] = <<>>]
         /\ cutoff' = [cutoff EXCEPT ![c] = NoSeq]
         /\ shown' = [shown EXCEPT ![c] = view.rows] /\ hw' = [hw EXCEPT ![c] = view.last]
      \/ UNCHANGED <<loading, buf, cutoff, shown, hw>>
  BY DEF RouteResponse
<1>6. view.rows \in Seq(Places) /\ view.last \in Nat \cup {NoSeq}
  BY <1>3, ResponseShown DEF Types
<1> HIDE DEF c, view
<1>7. /\ shown' \in [Clients -> Seq(Places)] /\ hw' \in [Clients -> Nat \cup {NoSeq}]
      /\ cutoff' \in [Clients -> Nat \cup {NoSeq}] /\ buf' \in [Clients -> Seq(Places)]
  <2>1. shown' \in [Clients -> Seq(Places)]
    BY <1>0, <1>3, <1>5, <1>6
  <2>2. hw' \in [Clients -> Nat \cup {NoSeq}]
    BY <1>0, <1>3, <1>5, <1>6
  <2>3. cutoff' \in [Clients -> Nat \cup {NoSeq}]
    BY <1>0, <1>3, <1>5
  <2>4. buf' \in [Clients -> Seq(Places)]
    <3>1. <<>> \in Seq(Places)
      OBVIOUS
    <3>2. buf' = [buf EXCEPT ![c] = <<>>] \/ buf' = buf
      BY <1>5
    <3> QED BY <1>0, <1>3, <3>1, <3>2
  <2> QED BY <2>1, <2>2, <2>3, <2>4
<1>8. loading' \subseteq subs
  BY <1>0, <1>5
<1>9. \A d \in Clients : Len(buf'[d]) <= MaxBuffer /\ (d \notin loading' => buf'[d] = <<>>)
  BY <1>0, <1>3, <1>5 DEF Types, TypeOK
<1>10. TypeOK'
  BY <1>4, <1>7, <1>8, <1>9, SameSent DEF Types, TypeOK
<1> QED BY <1>2, <1>4, <1>7, <1>10, SameSent DEF Types, Channels

\* Every step keeps the types.
LEMMA TypeStep == Types /\ [Next]_vars => Types'
PROOF
<1>1. ASSUME Types, UNCHANGED vars
      PROVE  Types'
  <2>1. UNCHANGED sent
    BY <1>1 DEF vars, sessionVars
  <2>2. TypeOK'
    BY <1>1, <2>1, SameSent
    DEF Types, TypeOK, vars, sessionVars, diskVars, agentVars, leaderVars, pagerVars
  <2>3. Channels'
    BY <1>1, <2>1, SameSent
    DEF Types, Channels, vars, diskVars, agentVars, leaderVars, pagerVars, history
  <2> QED BY <2>2, <2>3 DEF Types
<1> QED
  BY <1>1, SessionTypes, PersistTypes, AgentTypes, ClientTypes, LiveTypes, ReplayTypes,
     ResponseTypes
  DEF Next, Route, SessionStep

-----------------------------------------------------------------------------
(* The file and the persistence queue *)

\* What the types say of the file
LEMMA DiskTypes ==
    ASSUME Types
    PROVE  /\ Len(disk) \in Nat /\ DOMAIN disk = 1 .. Len(disk) /\ Count \in Nat
           /\ \A i \in DOMAIN disk : disk[i].lo \in Nat /\ disk[i].hi \in Nat
           /\ \A n \in 0 .. Len(disk) : DiskEnd(n) \in Nat
           /\ Written \in Nat /\ Merged \in Nat
           /\ pend # NoLine => pend.lo \in Nat /\ pend.hi \in Nat
PROOF
<1>1. /\ Len(disk) \in Nat /\ DOMAIN disk = 1 .. Len(disk)
      /\ \A i \in DOMAIN disk : disk[i] \in Lines
  BY DEF Types, Channels
<1>2. \A i \in DOMAIN disk : disk[i].lo \in Nat /\ disk[i].hi \in Nat
  BY <1>1, SentTypes DEF Lines
<1>3. \A n \in 0 .. Len(disk) : DiskEnd(n) \in Nat
  BY <1>1, <1>2 DEF DiskEnd
<1>4. pend # NoLine => pend.lo \in Nat /\ pend.hi \in Nat
  BY SentTypes DEF Types, Channels, Lines
<1>5. Written \in Nat
  BY <1>1, <1>3 DEF Written
<1>6. Count \in Nat
  BY SentTypes
<1> QED
  BY <1>1, <1>2, <1>3, <1>4, <1>5, <1>6 DEF Merged

\* ... of the persistence queue
LEMMA ChanTypes ==
    ASSUME Types
    PROVE  /\ Len(chan) \in Nat /\ DOMAIN chan = 1 .. Len(chan)
           /\ \A i \in DOMAIN chan :
                 /\ chan[i] \in Updates \cup Flushes
                 /\ chan[i].kind = "update" => chan[i].lo \in Nat /\ chan[i].hi \in Nat
                 /\ chan[i].kind = "flush" => chan[i].client \in Clients /\ chan[i].n \in {1, 2}
PROOF
<1>1. chan \in Seq(Updates \cup Flushes)
  BY DEF Types, Channels
<1>2. /\ Len(chan) \in Nat /\ DOMAIN chan = 1 .. Len(chan)
      /\ \A i \in DOMAIN chan : chan[i] \in Updates \cup Flushes
  BY <1>1
<1> QED
  BY <1>2, ChanKinds, SentTypes

\* The file only grows, at its end.
DiskGrows ==
    /\ Len(disk) <= Len(disk') /\ Len(disk') \in Nat
    /\ \A i \in DOMAIN disk : i \in DOMAIN disk' /\ disk'[i] = disk[i]
    /\ \A n \in 0 .. Len(disk) : DiskEnd(n)' = DiskEnd(n)
    /\ Written <= Written' /\ Written' \in Nat

\* The pending line is appended.
LEMMA LineWritten ==
    ASSUME Types, OnDisk, pend # NoLine, disk' = Append(disk, pend)
    PROVE  DiskGrows /\ Written' = pend.hi + 1 /\ InFile'
PROOF
<1>0. /\ Len(disk) \in Nat /\ DOMAIN disk = 1 .. Len(disk)
      /\ \A i \in DOMAIN disk : disk[i].lo \in Nat /\ disk[i].hi \in Nat
      /\ \A n \in 0 .. Len(disk) : DiskEnd(n) \in Nat
      /\ Written \in Nat /\ pend.lo \in Nat /\ pend.hi \in Nat
  BY DiskTypes
<1>1. disk \in Seq(Lines) /\ pend \in Lines
  BY DEF Types, Channels
<1>2. /\ Len(disk') = Len(disk) + 1
      /\ \A k \in DOMAIN disk : k \in DOMAIN disk' /\ disk'[k] = disk[k] /\ k <= Len(disk)
      /\ Len(disk') \in DOMAIN disk' /\ disk'[Len(disk')] = pend /\ Len(disk') \notin DOMAIN disk
      /\ \A k \in DOMAIN disk' : k \in DOMAIN disk \/ k = Len(disk')
  BY <1>1, AppendedOne
<1>3. pend.lo = Written /\ pend.lo <= pend.hi
  BY DEF OnDisk, InFile
<1>4. \A n \in 0 .. Len(disk) : DiskEnd(n)' = DiskEnd(n)
  BY <1>0, <1>2 DEF DiskEnd
<1>5. Written' = pend.hi + 1
  <2>1. Len(disk') # 0
    BY <1>0, <1>2
  <2> QED BY <1>2, <2>1 DEF Written, DiskEnd
<1>6. DiskGrows
  BY <1>0, <1>2, <1>3, <1>4, <1>5 DEF DiskGrows
<1>7. \A i \in DOMAIN disk : disk[i].hi < Written
  <2> SUFFICES ASSUME NEW i \in DOMAIN disk
               PROVE  disk[i].hi < Written
    OBVIOUS
  <2>1. Len(disk) \in DOMAIN disk /\ Written = disk[Len(disk)].hi + 1
    BY <1>0 DEF Written, DiskEnd
  <2>2. CASE i = Len(disk)
    BY <1>0, <2>1, <2>2
  <2>3. CASE i < Len(disk)
    <3>1. disk[i].hi < disk[Len(disk)].lo /\ disk[Len(disk)].lo <= disk[Len(disk)].hi
      BY <2>1, <2>3 DEF OnDisk, InFile
    <3>2. disk[i].hi \in Nat /\ disk[Len(disk)].lo \in Nat /\ disk[Len(disk)].hi \in Nat
      BY <1>0, <2>1
    <3> QED BY <2>1, <3>1, <3>2
  <2> QED BY <1>0, <2>2, <2>3
<1>8. \A i \in DOMAIN disk' : disk'[i].lo <= disk'[i].hi
  <2>1. \A i \in DOMAIN disk : disk[i].lo <= disk[i].hi
    BY DEF OnDisk, InFile
  <2> QED BY <1>2, <1>3, <2>1
<1>9. ASSUME NEW i \in DOMAIN disk', NEW j \in DOMAIN disk', i < j
      PROVE  disk'[i].hi < disk'[j].lo
  <2>1. i \in DOMAIN disk
    BY <1>0, <1>2, <1>9
  <2>2. CASE j \in DOMAIN disk
    <3>1. disk[i].hi < disk[j].lo
      BY <1>9, <2>1, <2>2 DEF OnDisk, InFile
    <3> QED BY <1>2, <2>1, <2>2, <3>1
  <2>3. CASE j = Len(disk')
    BY <1>2, <1>3, <1>7, <2>1, <2>3
  <2> QED BY <1>2, <2>2, <2>3
<1>10. ASSUME NEW i \in DOMAIN disk', NEW e \in 0 .. disk'[i].hi
       PROVE  \E j \in DOMAIN disk' : Covers(disk'[j], e)
  <2>1. CASE i \in DOMAIN disk
    <3>1. PICK j \in DOMAIN disk : Covers(disk[j], e)
      BY <1>2, <2>1 DEF OnDisk, InFile
    <3> QED BY <1>2, <3>1
  <2>2. CASE i = Len(disk') /\ e >= pend.lo
    BY <1>0, <1>2, <2>2 DEF Covers
  <2>3. CASE i = Len(disk') /\ e < pend.lo
    <3>1. Len(disk) \in DOMAIN disk /\ Written = disk[Len(disk)].hi + 1
      BY <1>0, <1>3, <2>3 DEF Written, DiskEnd
    <3>2. e \in 0 .. disk[Len(disk)].hi
      BY <1>0, <1>2, <1>3, <2>3, <3>1
    <3>3. PICK j \in DOMAIN disk : Covers(disk[j], e)
      BY <3>1, <3>2 DEF OnDisk, InFile
    <3> QED BY <1>2, <3>3
  <2>4. e \in Nat
    BY <1>0, <1>2
  <2> QED BY <1>0, <1>2, <2>1, <2>2, <2>3, <2>4
<1>11. InFile'
  BY <1>8, <1>9, <1>10 DEF InFile, Covers
<1> QED
  BY <1>5, <1>6, <1>11

\* The persistence actor takes a message: the file and the queue stay in step.
LEMMA PersistDisk ==
    ASSUME Types, Types', OnDisk, Queued, Persist
    PROVE  /\ OnDisk' /\ Queued' /\ DiskGrows
           /\ PersistFlush => Written' = Merged
PROOF
<1>0. /\ Count \in Nat /\ Written \in Nat /\ Merged \in Nat
      /\ pend # NoLine => pend.lo \in Nat /\ pend.hi \in Nat
      /\ Len(disk) \in Nat
  BY DiskTypes
<1>1. chan \in Seq(Updates \cup Flushes) /\ chan # <<>> /\ chan' = Tail(chan) /\ Count' = Count
  BY SameSent DEF Types, Channels, Persist, PersistUpdate, PersistFlush, sessionVars
<1>2. /\ 1 \in DOMAIN chan /\ Head(chan) = chan[1]
      /\ \A k \in DOMAIN chan' : k \in Nat /\ k + 1 \in DOMAIN chan /\ chan'[k] = chan[k + 1]
      /\ \A k \in DOMAIN chan : /\ k \in Nat
                                /\ k = 1 \/ (k - 1 \in DOMAIN chan' /\ chan'[k - 1] = chan[k])
  BY <1>1, Taken
<1>3. \A i \in DOMAIN chan : chan[i].kind = "update" =>
         /\ chan[i].lo \in Nat /\ chan[i].hi \in Nat
         /\ chan[i].lo = chan[i].hi /\ Merged <= chan[i].hi /\ chan[i].hi < Count
  BY ChanTypes DEF Queued
<1>4. \A i, j \in DOMAIN chan :
         i < j /\ chan[i].kind = "update" /\ chan[j].kind = "update" => chan[i].hi < chan[j].hi
  BY DEF Queued
<1>5. \A e \in Merged .. Count - 1 :
         \E i \in DOMAIN chan : chan[i].kind = "update" /\ chan[i].hi = e
  BY DEF Queued
<1>6. \A i, j \in DOMAIN chan' :
         i < j /\ chan'[i].kind = "update" /\ chan'[j].kind = "update" => chan'[i].hi < chan'[j].hi
  BY <1>2, <1>4
<1>7. /\ DiskGrows /\ disk' = disk => Written' = Written
      /\ UNCHANGED <<disk, pend>> => Merged' = Merged
  BY DEF Merged, Written, DiskEnd
<1>8. disk' = disk => DiskGrows /\ InFile'
  BY <1>0 DEF DiskGrows, Written, DiskEnd, OnDisk, InFile
<1>9. CASE PersistUpdate
  <2> DEFINE u == chan[1]
  <2>1. /\ u.kind = "update"
        /\ pend' = IF Mergeable(pend, u) THEN Merge(pend, u) ELSE Line(u)
        /\ disk' = IF Mergeable(pend, u) \/ pend = NoLine THEN disk ELSE Append(disk, pend)
    BY <1>2, <1>9 DEF PersistUpdate
  <2>2. u.lo \in Nat /\ u.hi \in Nat /\ u.lo = u.hi /\ Merged <= u.hi /\ u.hi < Count
    BY <1>2, <1>3, <2>1
  <2>3. u.hi = Merged
    <3>1. Merged \in Merged .. Count - 1
      BY <1>0, <2>2
    <3>2. PICK i \in DOMAIN chan : chan[i].kind = "update" /\ chan[i].hi = Merged
      BY <1>5, <3>1
    <3>3. i = 1 \/ 1 < i
      BY <1>1
    <3>4. 1 < i => u.hi < Merged
      BY <1>2, <1>4, <2>1, <3>2
    <3> QED BY <1>0, <2>2, <3>2, <3>3, <3>4
  <2> HIDE DEF u
  <2>4. ASSUME Mergeable(pend, u)
        PROVE  OnDisk' /\ DiskGrows
    <3>1. pend # NoLine /\ disk' = disk /\ pend' = [lo |-> pend.lo, hi |-> u.hi, text |-> TRUE]
      BY <2>1, <2>4 DEF Mergeable, Merge
    <3>2. pend'.lo = pend.lo /\ pend'.hi = u.hi
      BY <3>1
    <3>3. pend.lo = Written /\ pend.lo <= pend.hi /\ Merged = pend.hi + 1
      BY <3>1 DEF OnDisk, Merged
    <3>4. Written' = Written
      BY <3>1 DEF Written, DiskEnd
    <3>5. pend'.lo = Written' /\ pend'.lo <= pend'.hi
      BY <1>0, <2>2, <2>3, <3>1, <3>2, <3>3, <3>4
    <3> QED BY <1>8, <3>1, <3>5 DEF OnDisk
  <2>5. ASSUME ~Mergeable(pend, u) /\ pend = NoLine
        PROVE  OnDisk' /\ DiskGrows
    <3>1. disk' = disk /\ pend' = [lo |-> u.lo, hi |-> u.hi, text |-> u.text] /\ Merged = Written
      BY <2>1, <2>5 DEF Line, Merged
    <3>2. pend'.lo = u.lo /\ pend'.hi = u.hi
      BY <3>1
    <3>3. Written' = Written
      BY <3>1 DEF Written, DiskEnd
    <3>4. pend'.lo = Written' /\ pend'.lo <= pend'.hi
      BY <1>0, <2>2, <2>3, <3>1, <3>2, <3>3
    <3> QED BY <1>8, <3>1, <3>4 DEF OnDisk
  <2>6. ASSUME ~Mergeable(pend, u) /\ pend # NoLine
        PROVE  OnDisk' /\ DiskGrows
    <3>1. /\ disk' = Append(disk, pend) /\ pend' = [lo |-> u.lo, hi |-> u.hi, text |-> u.text]
          /\ Merged = pend.hi + 1
      BY <2>1, <2>6 DEF Line, Merged
    <3>2. pend'.lo = u.lo /\ pend'.hi = u.hi
      BY <3>1
    <3>3. DiskGrows /\ Written' = pend.hi + 1 /\ InFile'
      BY <2>6, <3>1, LineWritten
    <3>4. pend'.lo = Written' /\ pend'.lo <= pend'.hi
      BY <2>2, <2>3, <3>1, <3>2, <3>3
    <3> QED BY <3>3, <3>4 DEF OnDisk
  <2>7. pend' # NoLine /\ pend'.hi = u.hi /\ Merged' = u.hi + 1
    <3>1. pend' \in Lines /\ pend'.hi = u.hi
      <4>1. u.text \in BOOLEAN
        BY <1>1, <1>2, <2>1, ChanKinds DEF u
      <4>2. pend = NoLine \/ pend \in Lines
        BY DEF Types, Channels
      <4>3. u.hi \in Places
        BY <1>0, <2>2 DEF Places
      <4> QED BY <2>1, <2>2, <4>1, <4>2, <4>3 DEF Merge, Mergeable, Line, Lines
    <3>2. NoLine \notin Lines
      BY LoadAssumption, SentTypes DEF Lines
    <3> QED BY <3>1, <3>2 DEF Merged
  <2>8. \A i \in DOMAIN chan' : chan'[i].kind = "update" =>
           chan'[i].lo = chan'[i].hi /\ Merged' <= chan'[i].hi /\ chan'[i].hi < Count'
    <3> SUFFICES ASSUME NEW i \in DOMAIN chan', chan'[i].kind = "update"
                 PROVE  chan'[i].lo = chan'[i].hi /\ Merged' <= chan'[i].hi /\ chan'[i].hi < Count'
      OBVIOUS
    <3>1. i + 1 \in DOMAIN chan /\ chan'[i] = chan[i + 1] /\ 1 < i + 1
      BY <1>1, <1>2
    <3>2. u.hi < chan[i + 1].hi
      BY <1>2, <1>4, <2>1, <3>1 DEF u
    <3> QED BY <1>1, <1>3, <2>2, <2>7, <3>1, <3>2
  <2>9. ASSUME NEW e \in Merged' .. Count' - 1
        PROVE  \E i \in DOMAIN chan' : chan'[i].kind = "update" /\ chan'[i].hi = e
    <3>1. e \in Merged .. Count - 1 /\ e > u.hi
      BY <1>0, <1>1, <2>2, <2>3, <2>7
    <3>2. PICK i \in DOMAIN chan : chan[i].kind = "update" /\ chan[i].hi = e
      BY <1>5, <3>1
    <3>3. i # 1
      BY <2>2, <3>1, <3>2 DEF u
    <3> QED BY <1>2, <3>2, <3>3
  <2>10. Merged' <= Count'
    BY <1>0, <1>1, <2>2, <2>7
  <2>11. Queued'
    BY <1>6, <2>8, <2>9, <2>10 DEF Queued
  <2>12. ~PersistFlush
    BY <1>2, <2>1 DEF PersistFlush, u
  <2> QED BY <2>4, <2>5, <2>6, <2>11, <2>12
<1>10. CASE PersistFlush
  <2>1. /\ Head(chan).kind = "flush" /\ pend' = NoLine
        /\ disk' = IF pend = NoLine THEN disk ELSE Append(disk, pend)
    BY <1>10 DEF PersistFlush
  <2>2. Merged' = Written'
    BY <2>1 DEF Merged
  <2>3. ASSUME pend = NoLine
        PROVE  OnDisk' /\ DiskGrows
    <3>1. disk' = disk /\ Written' = Written /\ Merged = Written
      BY <2>1, <2>3 DEF Written, DiskEnd, Merged
    <3> QED BY <1>8, <2>1, <3>1 DEF OnDisk
  <2>4. ASSUME pend # NoLine
        PROVE  OnDisk' /\ DiskGrows
    <3>1. disk' = Append(disk, pend) /\ Merged = pend.hi + 1
      BY <2>1, <2>4 DEF Merged
    <3>2. DiskGrows /\ Written' = pend.hi + 1 /\ InFile'
      BY <2>4, <3>1, LineWritten
    <3> QED BY <2>1, <3>1, <3>2 DEF OnDisk
  <2>5. Written' = Merged
    <3>1. CASE pend = NoLine
      BY <2>1, <3>1 DEF Written, DiskEnd, Merged
    <3>2. CASE pend # NoLine
      BY <2>1, <3>2, LineWritten DEF Merged
    <3> QED BY <3>1, <3>2
  <2>6. \A i \in DOMAIN chan' : chan'[i].kind = "update" =>
           chan'[i].lo = chan'[i].hi /\ Merged' <= chan'[i].hi /\ chan'[i].hi < Count'
    BY <1>1, <1>2, <1>3, <2>2, <2>5
  <2>7. \A e \in Merged' .. Count' - 1 :
           \E i \in DOMAIN chan' : chan'[i].kind = "update" /\ chan'[i].hi = e
    <3> SUFFICES ASSUME NEW e \in Merged .. Count - 1
                 PROVE  \E i \in DOMAIN chan' : chan'[i].kind = "update" /\ chan'[i].hi = e
      BY <1>1, <2>2, <2>5
    <3>1. PICK i \in DOMAIN chan : chan[i].kind = "update" /\ chan[i].hi = e
      BY <1>5
    <3>2. i # 1
      BY <1>2, <2>1, <3>1
    <3> QED BY <1>2, <3>1, <3>2
  <2>8. Merged' <= Count'
    BY <1>1, <2>2, <2>5 DEF Queued
  <2>9. Queued'
    BY <1>6, <2>6, <2>7, <2>8 DEF Queued
  <2> QED BY <2>3, <2>4, <2>5, <2>9
<1> QED BY <1>9, <1>10 DEF Persist

\* Every other step leaves the file alone.
LEMMA FileKept ==
    ASSUME Types, OnDisk, UNCHANGED <<disk, pend>>
    PROVE  OnDisk' /\ DiskGrows /\ Merged' = Merged /\ Written' = Written
PROOF
<1>1. Len(disk) \in Nat /\ Written \in Nat
  BY DiskTypes
<1>2. Written' = Written /\ Merged' = Merged
  BY DEF Written, DiskEnd, Merged
<1>3. InFile'
  BY DEF OnDisk, InFile
<1> QED
  BY <1>1, <1>2, <1>3 DEF OnDisk, DiskGrows, DiskEnd

\* A message joins the persistence queue: the next update, or a flush.
LEMMA QueueGrows ==
    ASSUME Types, OnDisk, Queued, UNCHANGED <<disk, pend>>,
           NEW m, chan' = Append(chan, m),
           \/ m.kind = "update" /\ m.lo = Count /\ m.hi = Count /\ Count' = Count + 1
           \/ m.kind = "flush" /\ Count' = Count
    PROVE  Queued'
PROOF
<1>0. Count \in Nat /\ Merged \in Nat /\ Merged' = Merged
  BY DiskTypes, FileKept
<1>1. DOMAIN chan = 1 .. Len(chan) /\ chan \in Seq(Updates \cup Flushes \cup {m})
  <2>1. chan \in Seq(Updates \cup Flushes)
    BY DEF Types, Channels
  <2>2. chan \in Seq(Updates \cup Flushes \cup {m})
    BY <2>1, SeqGrows
  <2> QED BY <2>1, <2>2
<1>2. /\ Len(chan) \in Nat /\ Len(chan') = Len(chan) + 1
      /\ \A k \in DOMAIN chan : k \in DOMAIN chan' /\ chan'[k] = chan[k] /\ k <= Len(chan)
      /\ Len(chan') \in DOMAIN chan' /\ chan'[Len(chan')] = m /\ Len(chan') \notin DOMAIN chan
      /\ \A k \in DOMAIN chan' : k \in DOMAIN chan \/ k = Len(chan')
  BY <1>1, AppendedOne
<1>3. \A i \in DOMAIN chan : chan[i].kind = "update" =>
         /\ chan[i].lo \in Nat /\ chan[i].hi \in Nat
         /\ chan[i].lo = chan[i].hi /\ Merged <= chan[i].hi /\ chan[i].hi < Count
  BY ChanTypes DEF Queued
<1>4. Merged <= Count
  BY DEF Queued
<1>5. \A i \in DOMAIN chan' : chan'[i].kind = "update" =>
         chan'[i].lo = chan'[i].hi /\ Merged' <= chan'[i].hi /\ chan'[i].hi < Count'
  <2> SUFFICES ASSUME NEW i \in DOMAIN chan', chan'[i].kind = "update"
               PROVE  chan'[i].lo = chan'[i].hi /\ Merged' <= chan'[i].hi /\ chan'[i].hi < Count'
    OBVIOUS
  <2>1. CASE i \in DOMAIN chan
    <3>1. /\ chan'[i] = chan[i] /\ chan[i].hi \in Nat
          /\ chan[i].lo = chan[i].hi /\ Merged <= chan[i].hi /\ chan[i].hi < Count
      BY <1>2, <1>3, <2>1
    <3> QED BY <1>0, <3>1
  <2>2. CASE i = Len(chan')
    BY <1>0, <1>2, <1>4, <2>2
  <2> QED BY <1>2, <2>1, <2>2
<1>6. ASSUME NEW i \in DOMAIN chan', NEW j \in DOMAIN chan', i < j,
             chan'[i].kind = "update", chan'[j].kind = "update"
      PROVE  chan'[i].hi < chan'[j].hi
  <2>1. i \in DOMAIN chan
    BY <1>1, <1>2, <1>6
  <2>2. CASE j \in DOMAIN chan
    <3>1. chan[i].hi < chan[j].hi
      BY <1>2, <1>6, <2>1, <2>2 DEF Queued
    <3> QED BY <1>2, <2>1, <2>2, <3>1
  <2>3. CASE j = Len(chan')
    BY <1>2, <1>3, <1>6, <2>1, <2>3
  <2> QED BY <1>2, <2>2, <2>3
<1>7. ASSUME NEW e \in Merged' .. Count' - 1
      PROVE  \E i \in DOMAIN chan' : chan'[i].kind = "update" /\ chan'[i].hi = e
  <2>1. CASE e \in Merged .. Count - 1
    <3>1. PICK i \in DOMAIN chan : chan[i].kind = "update" /\ chan[i].hi = e
      BY <2>1 DEF Queued
    <3> QED BY <1>2, <3>1
  <2>2. CASE e \notin Merged .. Count - 1
    <3>1. m.kind = "update" /\ m.hi = e
      BY <1>0, <2>2
    <3> QED BY <1>2, <3>1
  <2> QED BY <2>1, <2>2
<1>8. Merged' <= Count'
  BY <1>0, <1>4
<1> QED
  BY <1>5, <1>6, <1>7, <1>8 DEF Queued

LEMMA QueueKept ==
    ASSUME Types, OnDisk, Queued, UNCHANGED <<disk, pend, chan>>, Count' = Count
    PROVE  Queued'
PROOF
<1>1. Merged' = Merged
  BY FileKept
<1> QED
  BY <1>1 DEF Queued

\* Every step keeps the file and the persistence queue in order, and the file grows.
LEMMA DiskStep ==
    ASSUME Types, Types', OnDisk, Queued, [Next]_vars
    PROVE  OnDisk' /\ Queued' /\ DiskGrows
PROOF
<1>1. ASSUME NEW u \in Notifications, NEW open \in BOOLEAN, Emit(u, open)
      PROVE  OnDisk' /\ Queued' /\ DiskGrows
  <2> DEFINE m == Update(Count, u.kind = "text")
  <2>1. Count' = Count + 1
    BY <1>1, EmitGrows
  <2>2. /\ chan' = Append(chan, m) /\ UNCHANGED <<disk, pend>>
        /\ m.kind = "update" /\ m.lo = Count /\ m.hi = Count
    BY <1>1 DEF Emit, Update
  <2> HIDE DEF m
  <2> QED BY <2>1, <2>2, QueueGrows, FileKept
<1>2. ASSUME Persist
      PROVE  OnDisk' /\ Queued' /\ DiskGrows
  BY <1>2, PersistDisk
<1>3. ASSUME NEW c \in Clients, FlushComplete(c)
      PROVE  OnDisk' /\ Queued' /\ DiskGrows
  <2>1. PICK n \in {1, 2} : chan' = Append(chan, FlushAndAck(c, n))
    BY <1>3 DEF FlushComplete
  <2> DEFINE m == FlushAndAck(c, n)
  <2>2. chan' = Append(chan, m) /\ UNCHANGED <<disk, pend, sent>> /\ m.kind = "flush"
    BY <1>3, <2>1 DEF FlushComplete, FlushAndAck, sessionVars
  <2> HIDE DEF m
  <2> QED BY <2>2, QueueGrows, FileKept, SameSent
<1>4. ASSUME UNCHANGED <<disk, pend, chan, sent>>
      PROVE  OnDisk' /\ Queued' /\ DiskGrows
  BY <1>4, QueueKept, FileKept, SameSent
<1>5. ASSUME NEW c \in Clients, Agent(c), ~FlushComplete(c)
      PROVE  UNCHANGED <<disk, pend, chan, sent>>
  BY <1>5 DEF Agent, LoadStart, FlushTimeout, Flushed1, LoadFails, Replay, DeltaReplay,
              OpenGate, Respond, sessionVars, diskVars
<1>6. ASSUME NEW c \in Clients, RequestLoad(c) \/ Disconnect(c)
      PROVE  UNCHANGED <<disk, pend, chan, sent>>
  BY <1>6 DEF RequestLoad, Disconnect, sessionVars, diskVars
<1>7. ASSUME Route
      PROVE  UNCHANGED <<disk, pend, chan, sent>>
  BY <1>7 DEF Route, RouteLive, RouteReplay, RouteResponse, sessionVars, diskVars
<1>8. ASSUME UNCHANGED vars
      PROVE  UNCHANGED <<disk, pend, chan, sent>>
  BY <1>8 DEF vars, sessionVars, diskVars
<1>9. ASSUME NEW u \in Notifications, Enqueues(u)
      PROVE  UNCHANGED <<disk, pend, chan, sent>>
  BY <1>9 DEF Enqueues
<1> QED
  BY <1>1, <1>2, <1>3, <1>4, <1>5, <1>6, <1>7, <1>8, <1>9, SessionCases DEF Next, SessionStep


-----------------------------------------------------------------------------
(* What was sent *)

\* Nothing that was sent changes.
SentGrows ==
    /\ Count <= Count' /\ Count \in Nat /\ Count' \in Nat /\ Places \subseteq Places'
    /\ \A p \in Places : Id(p)' = Id(p) /\ Kind(p)' = Kind(p) /\ sent'[p + 1] = sent[p + 1]

\* Only the session sends.
LEMMA SentCases ==
    ASSUME Types, [Next]_vars
    PROVE  \/ UNCHANGED <<minted, events, sent>>
           \/ \E u \in Notifications : Enqueues(u)
           \/ \E u \in Notifications, open \in BOOLEAN : Emit(u, open) /\ Sends(u)
PROOF
<1>1. ASSUME NEW c \in Clients, Agent(c)
      PROVE  UNCHANGED <<minted, events, sent>>
  BY <1>1 DEF Agent, LoadStart, FlushComplete, FlushTimeout, Flushed1, LoadFails, Replay,
              DeltaReplay, OpenGate, Respond, sessionVars
<1>2. ASSUME NEW c \in Clients, RequestLoad(c) \/ Disconnect(c)
      PROVE  UNCHANGED <<minted, events, sent>>
  BY <1>2 DEF RequestLoad, Disconnect, sessionVars
<1>3. ASSUME Route \/ Persist
      PROVE  UNCHANGED <<minted, events, sent>>
  BY <1>3 DEF Route, RouteLive, RouteReplay, RouteResponse, Persist, PersistUpdate, PersistFlush,
              sessionVars
<1>4. ASSUME UNCHANGED vars
      PROVE  UNCHANGED <<minted, events, sent>>
  BY <1>4 DEF vars, sessionVars
<1> QED
  BY <1>1, <1>2, <1>3, <1>4, SessionCases DEF Next, SessionStep

LEMMA SentStep ==
    ASSUME Types, [Next]_vars
    PROVE  SentGrows
PROOF
<1>0. Count \in Nat
  BY SentTypes
<1>1. ASSUME UNCHANGED sent
      PROVE  SentGrows
  BY <1>0, <1>1, SameSent DEF SentGrows
<1>2. ASSUME NEW u \in Notifications, NEW open \in BOOLEAN, Emit(u, open)
      PROVE  SentGrows
  <2>1. /\ Count' = Count + 1 /\ Places \subseteq Places'
        /\ \A p \in Places : /\ Id(p)' = Id(p) /\ Kind(p)' = Kind(p)
                             /\ sent'[p + 1] = sent[p + 1]
    BY <1>2, EmitGrows
  <2> QED BY <1>0, <2>1 DEF SentGrows
<1> QED
  BY <1>1, <1>2, SentCases DEF Enqueues

\* What waits in event_tx
LEMMA EventTypes ==
    ASSUME Types
    PROVE  /\ events \in Seq(Notifications) /\ minted \in Nat
           /\ Len(events) \in Nat /\ DOMAIN events = 1 .. Len(events)
           /\ \A i \in DOMAIN events : events[i] \in Notifications /\ events[i].id \in Nat
PROOF
<1>1. events \in Seq(Notifications) /\ minted \in Nat
  BY DEF Types, TypeOK
<1>2. \A u \in Notifications : u.id \in Nat
  BY DEF Notifications
<1> QED BY <1>1, <1>2

\* Every update that was announced has an id below the counter.
LEMMA AnnouncedBelow ==
    ASSUME Types, Stamps
    PROVE  \A u \in Announced : u.id < minted
PROOF
<1>0. sent \in Seq(Notifications) /\ Count \in Nat
  BY SentTypes
<1>1. ASSUME NEW u \in Range(sent)
      PROVE  u.id < minted
  <2>1. PICK i \in DOMAIN sent : u = sent[i]
    BY DEF Range
  <2>2. i - 1 \in Places /\ (i - 1) + 1 = i
    BY <1>0, <2>1 DEF Places, Count
  <2>3. Id(i - 1) < minted /\ Id(i - 1) = u.id
    BY <2>1, <2>2 DEF Stamps, Id
  <2> QED BY <2>3
<1>2. ASSUME NEW u \in Range(events)
      PROVE  u.id < minted
  BY DEF Range, Stamps
<1> QED BY <1>1, <1>2 DEF Announced

LEMMA StampsEnqueue ==
    ASSUME Types, Stamps, NEW u \in Notifications, Enqueues(u)
    PROVE  Stamps'
PROOF
<1>0. /\ events \in Seq(Notifications) /\ minted \in Nat
      /\ Len(events) \in Nat /\ DOMAIN events = 1 .. Len(events)
      /\ \A i \in DOMAIN events : events[i] \in Notifications /\ events[i].id \in Nat
      /\ \A p \in Places : Id(p) \in Nat
  BY EventTypes, SentTypes
<1>1. /\ minted' = minted + 1 /\ events' = Append(events, u) /\ u.id = minted
      /\ u.kind = "done" => u.of \in Calls
      /\ UNCHANGED sent
  BY DEF Enqueues
<1>2. Places' = Places /\ \A p : Id(p)' = Id(p) /\ Kind(p)' = Kind(p)
  BY <1>1, SameSent
<1>3. /\ Len(events') = Len(events) + 1
      /\ \A k \in DOMAIN events : k \in DOMAIN events' /\ events'[k] = events[k] /\ k <= Len(events)
      /\ Len(events') \in DOMAIN events' /\ events'[Len(events')] = u
      /\ \A k \in DOMAIN events' : k \in DOMAIN events \/ k = Len(events')
  BY <1>0, <1>1, AppendedOne
<1>4. \A p \in Places : Id(p) < minted
  BY DEF Stamps
<1>5. \A i \in DOMAIN events : events[i].id < minted
  BY DEF Stamps
<1>6. \A p \in Places' : Id(p)' < minted'
  BY <1>0, <1>1, <1>2, <1>4
<1>7. \A i \in DOMAIN events' : events'[i].id < minted'
  BY <1>0, <1>1, <1>3, <1>5
<1>8. \A p, q \in Places' : p < q => Id(p)' # Id(q)'
  BY <1>2 DEF Stamps
<1>9. \A p \in Places' : \A i \in DOMAIN events' : Id(p)' # events'[i].id
  <2>1. \A p \in Places : \A i \in DOMAIN events : Id(p) # events[i].id
    BY DEF Stamps
  <2> QED BY <1>0, <1>1, <1>2, <1>3, <1>4, <2>1
<1>10. ASSUME NEW i \in DOMAIN events', NEW j \in DOMAIN events', i < j
       PROVE  events'[i].id < events'[j].id
  <2>1. i \in DOMAIN events
    BY <1>0, <1>3, <1>10
  <2>2. CASE j \in DOMAIN events
    <3>1. events[i].id < events[j].id
      BY <1>10, <2>1, <2>2 DEF Stamps
    <3> QED BY <1>3, <2>1, <2>2, <3>1
  <2>3. CASE j = Len(events')
    BY <1>1, <1>3, <1>5, <2>1, <2>3
  <2> QED BY <1>3, <2>2, <2>3
<1>11. \A p, q \in Places' :
          p < q /\ Kind(p)' \in Ordered /\ Kind(q)' \in Ordered => Id(p)' < Id(q)'
  BY <1>2 DEF Stamps
<1>12. \A p \in Places' : \A i \in DOMAIN events' :
          Kind(p)' \in Ordered => Id(p)' < events'[i].id
  <2>1. \A p \in Places : \A i \in DOMAIN events :
          Kind(p) \in Ordered => Id(p) < events[i].id
    BY DEF Stamps
  <2> QED BY <1>1, <1>2, <1>3, <1>4, <2>1
<1>13. Announced' = Announced \cup {u}
  <2>1. \A x \in Range(events') : x \in Range(events) \/ x = u
    BY <1>3 DEF Range
  <2>2. Range(events) \subseteq Range(events') /\ u \in Range(events')
    BY <1>3 DEF Range
  <2>3. Range(sent') = Range(sent)
    BY <1>1
  <2> QED BY <2>1, <2>2, <2>3 DEF Announced
<1>14. \A v \in Announced' : v.kind = "done" => v.of < v.id
  <2>1. \A v \in Announced : v.kind = "done" => v.of < v.id
    BY DEF Stamps
  <2>2. \A x \in Calls : x < minted
    BY AnnouncedBelow DEF Calls
  <2> QED BY <1>1, <1>13, <2>1, <2>2
<1> QED
  BY <1>6, <1>7, <1>8, <1>9, <1>10, <1>11, <1>12, <1>14 DEF Stamps

LEMMA StampsSend ==
    ASSUME Types, Stamps, NEW u \in Notifications, NEW open \in BOOLEAN, Emit(u, open), Sends(u)
    PROVE  Stamps'
PROOF
<1>0. /\ events \in Seq(Notifications) /\ minted \in Nat
      /\ Len(events) \in Nat /\ DOMAIN events = 1 .. Len(events)
      /\ \A i \in DOMAIN events : events[i] \in Notifications /\ events[i].id \in Nat
      /\ \A p \in Places : Id(p) \in Nat /\ p < Count /\ p \in Nat
      /\ Count \in Nat /\ u.id \in Nat
  BY EventTypes, SentTypes DEF Notifications
<1>1. /\ Places' = Places \cup {Count}
      /\ \A p \in Places : Id(p)' = Id(p) /\ Kind(p)' = Kind(p)
      /\ \A p : p = Count => Id(p)' = u.id /\ Kind(p)' = u.kind
      /\ Range(sent') = Range(sent) \cup {u}
  BY EmitGrows
<1>2. /\ \A p \in Places : Id(p) < minted
      /\ \A p, q \in Places : p < q => Id(p) # Id(q)
      /\ \A p, q \in Places :
            p < q /\ Kind(p) \in Ordered /\ Kind(q) \in Ordered => Id(p) < Id(q)
  BY DEF Stamps
<1>3. /\ \A i \in DOMAIN events : events[i].id < minted
      /\ \A p \in Places : \A i \in DOMAIN events : Id(p) # events[i].id
      /\ \A p \in Places : \A i \in DOMAIN events : Kind(p) \in Ordered => Id(p) < events[i].id
      /\ \A i, j \in DOMAIN events : i < j => events[i].id < events[j].id
  BY DEF Stamps
\* the update takes a place of its own, behind the ids of its kind
<1>4. /\ u.id < minted' /\ minted <= minted' /\ minted' \in Nat
      /\ \A p \in Places : Id(p) # u.id
      /\ u.kind \in Ordered => \A p \in Places : Kind(p) \in Ordered => Id(p) < u.id
      /\ u.kind = "done" => u.of < u.id
      /\ \A i \in DOMAIN events' : /\ events'[i].id < minted' /\ events'[i].id # u.id
                                   /\ u.kind \in Ordered => u.id < events'[i].id
                                   /\ \E j \in DOMAIN events : events'[i] = events[j]
      /\ \A i, j \in DOMAIN events' : i < j => events'[i].id < events'[j].id
  <2>1. CASE events # <<>> /\ u = Head(events) /\ events' = Tail(events) /\ minted' = minted
    <3>1. /\ 1 \in DOMAIN events /\ u = events[1] /\ events' \in Seq(Notifications)
          /\ \A k \in DOMAIN events' : /\ k \in Nat /\ k + 1 \in DOMAIN events
                                       /\ events'[k] = events[k + 1]
      BY <1>0, <2>1, Taken
    <3>2. \A k \in DOMAIN events' : 1 < k + 1
      BY <1>0, <3>1
    <3>3. \A k \in DOMAIN events' : u.id < events'[k].id
      BY <1>3, <3>1, <3>2
    <3>4. u.id < minted' /\ minted <= minted' /\ minted' \in Nat
      BY <1>0, <1>3, <2>1, <3>1
    <3>5. /\ \A p \in Places : Id(p) # u.id
          /\ \A p \in Places : Kind(p) \in Ordered => Id(p) < u.id
      BY <1>3, <3>1
    <3>6. u.kind = "done" => u.of < u.id
      BY <3>1 DEF Stamps, Announced, Range
    <3>7. ASSUME NEW i \in DOMAIN events'
          PROVE  /\ events'[i].id < minted' /\ events'[i].id # u.id
                 /\ u.id < events'[i].id
                 /\ \E j \in DOMAIN events : events'[i] = events[j]
      <4>1. i + 1 \in DOMAIN events /\ events'[i] = events[i + 1] /\ u.id < events'[i].id
        BY <3>1, <3>3
      <4>2. events[i + 1].id < minted /\ events[i + 1].id \in Nat
        BY <1>0, <1>3, <4>1
      <4> QED BY <1>0, <2>1, <4>1, <4>2
    <3>8. \A i, j \in DOMAIN events' : i < j => events'[i].id < events'[j].id
      BY <1>3, <3>1
    <3> QED BY <3>4, <3>5, <3>6, <3>7, <3>8
  <2>2. CASE u.id = minted /\ minted' = minted + 1 /\ events' = events /\ u.kind \notin Ordered
    <3>1. u.kind # "done"
      BY <2>2 DEF Ordered
    <3>2. u.id < minted' /\ minted <= minted' /\ minted' \in Nat
      BY <1>0, <2>2
    <3>3. \A p \in Places : Id(p) # u.id
      BY <1>0, <1>2, <2>2
    <3>4. \A i \in DOMAIN events : events[i].id < minted' /\ events[i].id # u.id
      BY <1>0, <1>3, <2>2
    <3> QED BY <1>3, <2>2, <3>1, <3>2, <3>3, <3>4
  <2> QED BY <2>1, <2>2 DEF Sends
<1> HIDE DEF Ordered
<1>5. \A p \in Places' : Id(p)' < minted'
  <2>1. \A p \in Places : Id(p) < minted'
    BY <1>0, <1>2, <1>4
  <2> QED BY <1>1, <1>4, <2>1
<1>6. ASSUME NEW p \in Places', NEW q \in Places', p < q
      PROVE  /\ Id(p)' # Id(q)'
             /\ Kind(p)' \in Ordered /\ Kind(q)' \in Ordered => Id(p)' < Id(q)'
  <2>1. p \in Places
    BY <1>0, <1>1, <1>6
  <2>2. CASE q \in Places
    BY <1>1, <1>2, <1>6, <2>1, <2>2
  <2>3. CASE q = Count
    BY <1>1, <1>4, <2>1, <2>3
  <2> QED BY <1>1, <2>2, <2>3
<1>7. ASSUME NEW p \in Places', NEW i \in DOMAIN events'
      PROVE  /\ Id(p)' # events'[i].id
             /\ Kind(p)' \in Ordered => Id(p)' < events'[i].id
  <2>1. PICK j \in DOMAIN events : events'[i] = events[j]
    BY <1>4
  <2>2. CASE p \in Places
    BY <1>1, <1>3, <2>1, <2>2
  <2>3. CASE p = Count
    BY <1>1, <1>4, <2>3
  <2> QED BY <1>1, <2>2, <2>3
<1>8. \A v \in Announced' : v.kind = "done" => v.of < v.id
  <2>1. \A v \in Announced : v.kind = "done" => v.of < v.id
    BY DEF Stamps
  <2>2. Range(events') \subseteq Range(events)
    BY <1>4 DEF Range
  <2>3. Announced' \subseteq Announced \cup {u}
    BY <1>1, <2>2 DEF Announced
  <2> QED BY <1>4, <2>1, <2>3
<1> QED
  BY <1>4, <1>5, <1>6, <1>7, <1>8 DEF Stamps

\* Every step keeps the ids apart.
LEMMA StampsStep ==
    ASSUME Types, Stamps, [Next]_vars
    PROVE  Stamps'
PROOF
<1>1. ASSUME UNCHANGED <<minted, events, sent>>
      PROVE  Stamps'
  <2>1. Places' = Places /\ \A p : Id(p)' = Id(p) /\ Kind(p)' = Kind(p)
    BY <1>1, SameSent
  <2>2. Announced' = Announced
    BY <1>1 DEF Announced
  <2> QED BY <1>1, <2>1, <2>2 DEF Stamps
<1> QED BY <1>1, SentCases, StampsEnqueue, StampsSend

\* The first update of the persistence queue is the one after the pending line.
LEMMA NextQueued ==
    ASSUME Types, Queued, chan # <<>>, Head(chan).kind = "update"
    PROVE  LET u == Head(chan) IN
           /\ u = chan[1] /\ 1 \in DOMAIN chan
           /\ u.lo = Merged /\ u.hi = Merged /\ Merged < Count /\ u.text \in BOOLEAN
PROOF
<1> DEFINE u == Head(chan)
<1>0. Count \in Nat /\ Merged \in Nat
  BY DiskTypes
<1>1. chan \in Seq(Updates \cup Flushes)
  BY DEF Types, Channels
<1>2. 1 \in DOMAIN chan /\ u = chan[1] /\ u \in Updates \cup Flushes
  <2> HIDE DEF Updates, Flushes
  <2> QED BY <1>1
<1> HIDE DEF u
<1>3. u.kind = "update"
  BY DEF u
<1>4. u.lo \in Nat /\ u.hi \in Nat /\ u.text \in BOOLEAN
  BY <1>2, <1>3, ChanKinds, SentTypes
<1>5. u.lo = u.hi /\ Merged <= u.hi /\ u.hi < Count
  BY <1>2, <1>3 DEF Queued
<1>6. Merged \in Merged .. Count - 1
  BY <1>0, <1>4, <1>5
<1>7. PICK i \in DOMAIN chan : chan[i].kind = "update" /\ chan[i].hi = Merged
  BY <1>6 DEF Queued
<1>8. i = 1 \/ 1 < i
  BY <1>1
<1>9. 1 < i => u.hi < Merged
  BY <1>2, <1>3, <1>7 DEF Queued
<1> QED BY <1>0, <1>2, <1>4, <1>5, <1>7, <1>8, <1>9 DEF u

\* What a line is made of stays.
LEMMA UniformKept ==
    ASSUME Types, SentGrows, NEW l, l.lo \in Nat, l.hi \in Places, Uniform(l)
    PROVE  Uniform(l)'
PROOF
<1>1. \A p \in l.lo .. l.hi : p \in Places
  BY SentTypes DEF Places
<1>2. \A p \in l.lo .. l.hi : Kind(p)' = Kind(p)
  BY <1>1 DEF SentGrows
<1> QED BY <1>2 DEF Uniform

LEMMA LineTypes ==
    ASSUME Types
    PROVE  \A i \in DOMAIN disk : disk[i].lo \in Nat /\ disk[i].hi \in Places
PROOF
<1>1. \A i \in DOMAIN disk : disk[i] \in Lines
  <2>1. disk \in Seq(Lines)
    BY DEF Types, Channels
  <2> HIDE DEF Lines
  <2> QED BY <2>1
<1>2. \A l \in Lines : l.lo \in Nat /\ l.hi \in Places
  BY DEF Lines
<1> QED BY <1>1, <1>2

\* Every step merges only text.
LEMMA TextsStep ==
    ASSUME Types, OnDisk, Queued, Texts, [Next]_vars
    PROVE  Texts'
PROOF
<1>0. SentGrows
  BY SentStep
<1>1. /\ \A i \in DOMAIN disk : \A l : l = disk[i] => Uniform(l)'
      /\ pend # NoLine => \A l : l = pend => Uniform(l)'
      /\ \A i \in DOMAIN chan : chan[i].kind = "update" => \A l : l = chan[i] => Uniform(l)'
  <2>1. ASSUME NEW i \in DOMAIN disk, NEW l, l = disk[i]
        PROVE  Uniform(l)'
    <3>1. l.lo \in Nat /\ l.hi \in Places
      BY <2>1, LineTypes
    <3>2. Uniform(l)
      BY <2>1 DEF Texts
    <3> QED BY <1>0, <3>1, <3>2, UniformKept
  <2>2. ASSUME pend # NoLine, NEW l, l = pend
        PROVE  Uniform(l)'
    <3>1. l.lo \in Nat /\ l.hi \in Places
      BY <2>2 DEF Types, Channels, Lines
    <3>2. Uniform(l)
      BY <2>2 DEF Texts
    <3> QED BY <1>0, <3>1, <3>2, UniformKept
  <2>3. ASSUME NEW i \in DOMAIN chan, chan[i].kind = "update", NEW l, l = chan[i]
        PROVE  Uniform(l)'
    <3>1. l.lo \in Nat /\ l.hi \in Places
      BY <2>3, ChanKinds DEF Types, Channels
    <3>2. Uniform(l)
      BY <2>3 DEF Texts
    <3> QED BY <1>0, <3>1, <3>2, UniformKept
  <2> QED BY <2>1, <2>2, <2>3
<1>2. SUFFICES /\ \A i \in DOMAIN disk' : \A l : l = disk'[i] => Uniform(l)'
               /\ pend' # NoLine => \A l : l = pend' => Uniform(l)'
               /\ \A i \in DOMAIN chan' : chan'[i].kind = "update" =>
                     \A l : l = chan'[i] => Uniform(l)'
  BY DEF Texts, Uniform
<1>3. ASSUME NEW u \in Notifications, NEW open \in BOOLEAN, Emit(u, open)
      PROVE  \A i \in DOMAIN chan' : chan'[i].kind = "update" => \A l : l = chan'[i] => Uniform(l)'
  <2> DEFINE m == Update(Count, u.kind = "text")
  <2>1. m.lo = Count /\ m.hi = Count /\ m.text = (u.kind = "text")
    BY DEF Update
  <2>2. \A p : p = Count => Kind(p)' = u.kind
    BY <1>3, EmitGrows
  <2>3. Count \in Nat /\ chan' = Append(chan, m)
    BY <1>3, SentTypes DEF Emit
  <2>4. Count .. Count = {Count}
    BY <2>3
  <2>5. \A l : l = m => Uniform(l)'
    <3> SUFFICES ASSUME NEW l, l = m
                 PROVE  Uniform(l)'
      OBVIOUS
    <3>1. l.lo = Count /\ l.hi = Count /\ l.text = (u.kind = "text")
      BY <2>1
    <3>2. \A p \in l.lo .. l.hi : Kind(p)' = u.kind
      BY <2>2, <2>4, <3>1
    <3>3. Uniform(l)' <=> IF l.text THEN \A p \in l.lo .. l.hi : Kind(p)' = "text" ELSE l.lo = l.hi
      BY DEF Uniform
    <3> QED BY <3>1, <3>2, <3>3
  <2>6. \A k \in DOMAIN chan' : (k \in DOMAIN chan /\ chan'[k] = chan[k]) \/ chan'[k] = m
    <3> DEFINE S == Updates \cup Flushes \cup {m}
    <3>1. chan \in Seq(S) /\ m \in S
      BY SeqGrows DEF Types, Channels
    <3> HIDE DEF m, S
    <3> QED BY <2>3, <3>1, AppendedOne
  <2> HIDE DEF m
  <2> QED BY <1>1, <2>5, <2>6
<1>4. CASE PersistUpdate
  <2> DEFINE u == Head(chan)
  <2>1. /\ chan # <<>> /\ u.kind = "update" /\ chan' = Tail(chan) /\ UNCHANGED sent
        /\ pend' = IF Mergeable(pend, u) THEN Merge(pend, u) ELSE Line(u)
        /\ disk' = IF Mergeable(pend, u) \/ pend = NoLine THEN disk ELSE Append(disk, pend)
    BY <1>4 DEF PersistUpdate, sessionVars
  <2>2. u = chan[1] /\ 1 \in DOMAIN chan /\ u.lo = Merged /\ u.hi = Merged /\ u.text \in BOOLEAN
    BY <2>1, NextQueued
  <2>3. \A p : Kind(p)' = Kind(p)
    BY <2>1, SameSent
  <2>4. \A k \in DOMAIN chan' : k + 1 \in DOMAIN chan /\ chan'[k] = chan[k + 1]
    BY <2>1, Taken DEF Types, Channels
  <2> HIDE DEF u
  <2>5. \A l : l = u => Uniform(l)'
    BY <1>1, <2>1, <2>2
  <2>6. ASSUME Mergeable(pend, u), NEW l, l = Merge(pend, u)
        PROVE  Uniform(l)'
    <3>1. pend # NoLine /\ pend.text /\ u.text
      BY <2>6 DEF Mergeable
    <3>2. l.lo = pend.lo /\ l.hi = u.hi /\ l.text = TRUE
      BY <2>6 DEF Merge
    <3>3. pend.lo \in Nat /\ pend.hi \in Nat /\ u.hi = pend.hi + 1 /\ u.lo = u.hi
      BY <2>2, <3>1, DiskTypes DEF Merged
    <3>4. \A p \in pend.lo .. pend.hi : Kind(p)' = "text"
      BY <1>1, <3>1 DEF Uniform
    <3>5. \A p \in u.lo .. u.hi : Kind(p)' = "text"
      BY <2>5, <3>1 DEF Uniform
    <3>6. \A p \in l.lo .. l.hi : p \in pend.lo .. pend.hi \/ p \in u.lo .. u.hi
      BY <3>2, <3>3
    <3>7. \A p \in l.lo .. l.hi : Kind(p)' = "text"
      BY <3>4, <3>5, <3>6
    <3> QED BY <3>2, <3>7 DEF Uniform
  <2>7. ASSUME NEW l, l = Line(u)
        PROVE  Uniform(l)'
    <3>1. l.lo = u.lo /\ l.hi = u.hi /\ l.text = u.text
      BY <2>7 DEF Line
    <3> QED BY <2>5, <3>1 DEF Uniform
  <2>8. \A i \in DOMAIN disk' : (i \in DOMAIN disk /\ disk'[i] = disk[i])
                                \/ (pend # NoLine /\ disk'[i] = pend)
    <3>1. disk \in Seq(Lines) /\ (pend # NoLine => pend \in Lines)
      BY DEF Types, Channels
    <3>2. CASE disk' = disk
      BY <3>2
    <3>3. CASE pend # NoLine /\ disk' = Append(disk, pend)
      <4> HIDE DEF Lines
      <4> QED BY <3>1, <3>3, AppendedOne
    <3> QED BY <2>1, <3>2, <3>3
  <2>9. \A l : l = pend' => Uniform(l)'
    BY <2>1, <2>6, <2>7
  <2>10. \A i \in DOMAIN disk' : \A l : l = disk'[i] => Uniform(l)'
    BY <1>1, <2>8
  <2>11. \A i \in DOMAIN chan' : chan'[i].kind = "update" => \A l : l = chan'[i] => Uniform(l)'
    BY <1>1, <2>4
  <2> QED BY <2>9, <2>10, <2>11
<1>5. CASE PersistFlush
  <2>1. /\ chan # <<>> /\ chan' = Tail(chan) /\ pend' = NoLine
        /\ disk' = IF pend = NoLine THEN disk ELSE Append(disk, pend)
    BY <1>5 DEF PersistFlush
  <2>2. \A k \in DOMAIN chan' : k + 1 \in DOMAIN chan /\ chan'[k] = chan[k + 1]
    BY <2>1, Taken DEF Types, Channels
  <2>3. \A i \in DOMAIN disk' : (i \in DOMAIN disk /\ disk'[i] = disk[i])
                                \/ (pend # NoLine /\ disk'[i] = pend)
    <3>1. disk \in Seq(Lines) /\ (pend # NoLine => pend \in Lines)
      BY DEF Types, Channels
    <3>2. CASE disk' = disk
      BY <3>2
    <3>3. CASE pend # NoLine /\ disk' = Append(disk, pend)
      <4> HIDE DEF Lines
      <4> QED BY <3>1, <3>3, AppendedOne
    <3> QED BY <2>1, <3>2, <3>3
  <2>4. \A i \in DOMAIN disk' : \A l : l = disk'[i] => Uniform(l)'
    BY <1>1, <2>3
  <2>5. \A i \in DOMAIN chan' : chan'[i].kind = "update" => \A l : l = chan'[i] => Uniform(l)'
    BY <1>1, <2>2
  <2> QED BY <2>1, <2>4, <2>5
<1>6. ASSUME NEW c \in Clients, FlushComplete(c)
      PROVE  \A i \in DOMAIN chan' : chan'[i].kind = "update" => \A l : l = chan'[i] => Uniform(l)'
  <2>1. PICK n \in {1, 2} : chan' = Append(chan, FlushAndAck(c, n))
    BY <1>6 DEF FlushComplete
  <2> DEFINE m == FlushAndAck(c, n)
  <2>2. m.kind = "flush" /\ m \in Updates \cup Flushes /\ chan' = Append(chan, m)
    BY <2>1, NewMessages DEF FlushAndAck
  <2>3. chan \in Seq(Updates \cup Flushes)
    BY DEF Types, Channels
  <2> HIDE DEF m
  <2>4. \A k \in DOMAIN chan' : (k \in DOMAIN chan /\ chan'[k] = chan[k]) \/ chan'[k] = m
    BY <2>2, <2>3, AppendedOne
  <2> QED BY <1>1, <2>2, <2>4
<1>7. UNCHANGED chan => \A i \in DOMAIN chan' : chan'[i].kind = "update" =>
         \A l : l = chan'[i] => Uniform(l)'
  BY <1>1
<1>8. UNCHANGED <<disk, pend>> =>
         /\ \A i \in DOMAIN disk' : \A l : l = disk'[i] => Uniform(l)'
         /\ pend' # NoLine => \A l : l = pend' => Uniform(l)'
  BY <1>1
<1>9. CASE ~Persist
  <2>1. UNCHANGED <<disk, pend>>
    <3>1. ASSUME NEW u \in Notifications, NEW open \in BOOLEAN, Emit(u, open)
          PROVE  UNCHANGED <<disk, pend>>
      BY <3>1 DEF Emit
    <3>2. ASSUME NEW c \in Clients, Agent(c) \/ RequestLoad(c) \/ Disconnect(c)
          PROVE  UNCHANGED <<disk, pend>>
      BY <3>2 DEF Agent, LoadStart, FlushComplete, FlushTimeout, Flushed1, LoadFails, Replay,
                  DeltaReplay, OpenGate, Respond, RequestLoad, Disconnect, diskVars
    <3>3. ASSUME Route \/ UNCHANGED vars
          PROVE  UNCHANGED <<disk, pend>>
      BY <3>3 DEF Route, RouteLive, RouteReplay, RouteResponse, vars, diskVars
    <3> QED BY <1>9, <3>1, <3>2, <3>3, SessionCases DEF Next, SessionStep, Enqueues
  <2>2. \/ UNCHANGED chan
        \/ \E u \in Notifications, open \in BOOLEAN : Emit(u, open)
        \/ \E c \in Clients : FlushComplete(c)
    <3>1. ASSUME NEW c \in Clients, Agent(c) \/ RequestLoad(c) \/ Disconnect(c), ~FlushComplete(c)
          PROVE  UNCHANGED chan
      BY <3>1 DEF Agent, LoadStart, FlushTimeout, Flushed1, LoadFails, Replay,
                  DeltaReplay, OpenGate, Respond, RequestLoad, Disconnect, diskVars
    <3>2. ASSUME Route \/ UNCHANGED vars
          PROVE  UNCHANGED chan
      BY <3>2 DEF Route, RouteLive, RouteReplay, RouteResponse, vars, diskVars
    <3> QED BY <1>9, <3>1, <3>2, SessionCases DEF Next, SessionStep, Enqueues
  <2> QED BY <1>3, <1>6, <1>7, <1>8, <2>1, <2>2
<1> QED BY <1>4, <1>5, <1>9 DEF Persist

\* A merged line is all text, in the order of its ids.
LEMMA LineKinds ==
    ASSUME Types, Stamps, Texts, NEW i \in DOMAIN disk, NEW p \in disk[i].lo .. disk[i].hi
    PROVE  p \in Places /\ Kind(p) = Kind(disk[i].hi) /\ Id(p) <= Id(disk[i].hi)
PROOF
<1> DEFINE lo == disk[i].lo  hi == disk[i].hi
<1>1. lo \in Nat /\ hi \in Places
  BY LineTypes
<1>2. Uniform(disk[i])
  BY DEF Texts
<1>3. p \in Places /\ p \in Nat /\ hi \in Nat /\ p <= hi /\ Id(hi) \in Nat
  BY <1>1, SentTypes DEF Places
<1>4. CASE p = hi
  BY <1>3, <1>4
<1>5. CASE p < hi
  <2>1. \A q \in lo .. hi : Kind(q) = "text"
    BY <1>1, <1>3, <1>5, <1>2 DEF Uniform
  <2>2. Kind(p) = "text" /\ Kind(hi) = "text"
    BY <1>1, <1>3, <2>1
  <2>3. Id(p) < Id(hi)
    BY <1>1, <1>3, <1>5, <2>2 DEF Stamps, Ordered
  <2> QED BY <1>3, <2>2, <2>3, SentTypes
<1> QED BY <1>3, <1>4, <1>5

\* A tool call comes before its completion.
LEMMA CallBeforeDone ==
    ASSUME Types, Stamps, NEW p \in Places, NEW q \in Places, Kind(p) = "call", Completes(q, p)
    PROVE  p < q /\ Id(p) < Id(q)
PROOF
<1>1. Kind(q) = "done" /\ sent[q + 1].of = Id(p)
  BY DEF Completes
<1>2. q + 1 \in DOMAIN sent /\ p \in Nat /\ q \in Nat /\ Id(p) \in Nat /\ Id(q) \in Nat
  BY SentTypes
<1>3. sent[q + 1] \in Announced
  BY <1>2 DEF Announced, Range
<1>4. Id(p) < Id(q)
  BY <1>1, <1>3 DEF Stamps, Id, Kind
<1>5. ~(q < p)
  <2>1. q < p => Id(q) < Id(p)
    BY <1>1 DEF Stamps, Ordered
  <2> QED BY <1>2, <1>4, <2>1
<1>6. p # q
  BY <1>2, <1>4
<1> QED BY <1>2, <1>4, <1>5, <1>6
-----------------------------------------------------------------------------
(* What the steps do to the wire and to the stages *)

\* ... and of the wire
LEMMA WireTypes ==
    ASSUME Types
    PROVE  /\ wire \in Seq(Messages) /\ Len(wire) \in Nat /\ DOMAIN wire = 1 .. Len(wire)
           /\ \A k \in DOMAIN wire :
                 /\ wire[k] \in Messages /\ wire[k].kind \in {"live", "replay", "response"}
                 /\ wire[k].kind = "live" => wire[k].event \in Nat /\ wire[k].event \in Places
                 /\ wire[k].kind = "replay" =>
                       /\ wire[k].client \in Clients /\ wire[k].lo \in Nat
                       /\ wire[k].hi \in Nat /\ wire[k].hi \in Places /\ wire[k].folds \subseteq Places
                 /\ wire[k].kind = "response" => wire[k].client \in Clients
PROOF
<1>1. wire \in Seq(Messages)
  BY DEF Types, Channels
<1>2. /\ Len(wire) \in Nat /\ DOMAIN wire = 1 .. Len(wire)
      /\ \A k \in DOMAIN wire : wire[k] \in Messages
  BY <1>1
<1> QED
  BY <1>1, <1>2, MessageKinds, SentTypes

\* Nothing changes but what waits in event_tx.
Quiet == UNCHANGED <<sent, gate, chan, pend, disk, acked, load, off, wire, conn, subs,
                     loading, buf, cutoff, shown, folded, hw, gated, mark, delta,
                     degraded, faults>>

LEMMA StepCases ==
    ASSUME Types, [Next]_vars
    PROVE  \/ Quiet
           \/ \E u \in Notifications, open \in BOOLEAN : Emit(u, open)
           \/ Persist \/ Route
           \/ \E c \in Clients : Agent(c) \/ RequestLoad(c) \/ Disconnect(c)
PROOF
<1>1. UNCHANGED vars => Quiet
  BY DEF vars, sessionVars, diskVars, agentVars, leaderVars, pagerVars, history, Quiet
<1>2. \A u \in Notifications : Enqueues(u) => Quiet
  BY DEF Enqueues, Quiet
<1> QED BY <1>1, <1>2, SessionCases DEF Next, SessionStep

\* load_session goes on by one position.
Moves == {<<"requested", "flush1">>, <<"flush1", "wait1">>, <<"flush2", "wait2">>,
          <<"wait1", "read">>, <<"wait2", "open">>, <<"read", "failed">>, <<"read", "flush2">>,
          <<"open", "respond">>, <<"respond", "done">>}

\* A step of load_session moves its own client's load on and nothing of the others'.
LEMMA AgentMoves ==
    ASSUME Types, NEW c \in Clients, Agent(c)
    PROVE  /\ \E mv \in Moves : load[c] = mv[1] /\ load' = [load EXCEPT ![c] = mv[2]]
           /\ load[c] \in {"requested", "flush1", "flush2", "wait1", "wait2", "read", "open", "respond"}
           /\ load'[c] \in {"flush1", "wait1", "wait2", "read", "open", "failed", "flush2",
                            "respond", "done"}
           /\ \A d \in Clients : d # c => load'[d] = load[d]
           /\ UNCHANGED <<minted, events, sent, pend, disk, conn, subs, loading, buf,
                          cutoff, shown, folded, hw, gated>>
           /\ degraded \subseteq degraded'
PROOF
<1>1. \E mv \in Moves : load[c] = mv[1] /\ load' = [load EXCEPT ![c] = mv[2]]
  BY DEF Agent, LoadStart, FlushComplete, FlushTimeout, Flushed1, LoadFails, Replay, DeltaReplay,
         OpenGate, Respond, At, Moves
<1>2. load \in [Clients -> Loads]
  BY DEF Types, TypeOK
<1>3. /\ load[c] \in {"requested", "flush1", "flush2", "wait1", "wait2", "read", "open", "respond"}
      /\ load'[c] \in {"flush1", "wait1", "wait2", "read", "open", "failed", "flush2",
                       "respond", "done"}
      /\ \A d \in Clients : d # c => load'[d] = load[d]
  BY <1>1, <1>2 DEF Moves
<1>4. UNCHANGED <<minted, events, sent, pend, disk, conn, subs, loading, buf, cutoff, shown,
                          folded, hw, gated>>
  BY DEF Agent, LoadStart, FlushComplete, FlushTimeout, Flushed1, LoadFails, Replay, DeltaReplay,
         OpenGate, Respond, sessionVars, diskVars, leaderVars, pagerVars, history
<1>5. degraded \subseteq degraded'
  BY DEF Agent, LoadStart, FlushComplete, FlushTimeout, Flushed1, LoadFails, Replay, DeltaReplay,
         OpenGate, Respond, history
<1> QED BY <1>1, <1>3, <1>4, <1>5

\* What it sends is for its client: replay lines, or at last the response.
LEMMA AgentWire ==
    ASSUME Types, NEW c \in Clients, Agent(c)
    PROVE  /\ \A k \in DOMAIN wire : k \in DOMAIN wire' /\ wire'[k] = wire[k] /\ k \in Nat
           /\ \A k \in DOMAIN wire' : k \in DOMAIN wire
                 \/ /\ k \notin DOMAIN wire /\ k \in Nat /\ \A j \in DOMAIN wire : j < k
                    /\ wire'[k].client = c
                    /\ \/ wire'[k].kind = "replay" /\ (Replay(c) \/ DeltaReplay(c))
                       \/ /\ wire'[k].kind = "response" /\ load'[c] \in {"done", "failed"}
                          /\ \A j \in DOMAIN wire' : j <= k
PROOF
<1>0. wire \in Seq(Messages) /\ Len(wire) \in Nat /\ DOMAIN wire = 1 .. Len(wire)
  BY WireTypes
<1>1. CASE wire' = wire
  BY <1>0, <1>1
<1>2. CASE /\ wire' = Append(wire, Response(c))
           /\ load'[c] \in {"done", "failed"}
  <2>1. Response(c) \in Messages /\ Response(c).kind = "response" /\ Response(c).client = c
    BY NewMessages DEF Response
  <2> DEFINE m == Response(c)
  <2> HIDE DEF m
  <2>2. /\ Len(wire') = Len(wire) + 1 /\ wire' \in Seq(Messages)
        /\ \A k \in DOMAIN wire : k \in DOMAIN wire' /\ wire'[k] = wire[k] /\ k <= Len(wire)
        /\ Len(wire') \in DOMAIN wire' /\ wire'[Len(wire')] = m /\ Len(wire') \notin DOMAIN wire
        /\ \A k \in DOMAIN wire' : k \in DOMAIN wire \/ k = Len(wire')
    BY <1>0, <1>2, <2>1, AppendedOne DEF m
  <2>3. m.kind = "response" /\ m.client = c
    BY <2>1 DEF m
  <2> QED BY <1>0, <1>2, <2>2, <2>3
<1>3. ASSUME NEW ls \in Seq(Lines), wire' = wire \o Replayed(c, ls), Replay(c) \/ DeltaReplay(c)
      PROVE  /\ \A k \in DOMAIN wire : k \in DOMAIN wire' /\ wire'[k] = wire[k] /\ k \in Nat
             /\ \A k \in DOMAIN wire' : k \in DOMAIN wire
                   \/ /\ k \notin DOMAIN wire /\ k \in Nat /\ \A j \in DOMAIN wire : j < k
                      /\ wire'[k].client = c /\ wire'[k].kind = "replay"
  <2> DEFINE t == Replayed(c, ls)
  <2>0. /\ t \in Seq(Messages)
        /\ \A i \in DOMAIN t : \E j \in Forwarded(ls) : t[i] = Targeted(c, ls[j], Folds(ls, j))
    BY ReplayedType, Zenon
  <2>1. /\ t \in Seq(Messages)
        /\ \A i \in DOMAIN t : t[i].kind = "replay" /\ t[i].client = c
    <3> HIDE DEF t
    <3> QED BY <2>0 DEF Targeted
  <2> HIDE DEF t
  <2>2. t \in Seq(Messages)
    BY <2>1
  <2>a. wire' = wire \o t /\ wire \in Seq(Messages)
    BY <1>0, <1>3 DEF t
  <2>3. /\ wire' \in Seq(Messages) /\ Len(wire) \in Nat /\ Len(wire') = Len(wire) + Len(t)
        /\ \A k \in DOMAIN wire : k \in DOMAIN wire' /\ wire'[k] = wire[k] /\ k <= Len(wire)
        /\ \A i \in DOMAIN t : Len(wire) + i \in DOMAIN wire' /\ wire'[Len(wire) + i] = t[i]
        /\ \A k \in DOMAIN wire' : k \in DOMAIN wire
              \/ /\ k \notin DOMAIN wire /\ k > Len(wire)
                 /\ k - Len(wire) \in DOMAIN t /\ wire'[k] = t[k - Len(wire)]
    BY <2>2, <2>a, Appended
  <2>4. \A k \in DOMAIN wire' : k \in Nat
    BY <2>3
  <2> QED BY <1>0, <2>1, <2>3, <2>4
<1>4. CASE Replay(c)
  <2>1. disk \in Seq(Lines) /\ wire' = wire \o Replayed(c, disk)
    BY <1>4 DEF Replay, Types, Channels
  <2> QED BY <1>3, <1>4, <2>1
<1>5. CASE DeltaReplay(c)
  <2>1. wire' = wire \o Replayed(c, DeltaLines(c))
    BY <1>5 DEF DeltaReplay
  <2>2. disk \in Seq(Lines) /\ off[c] \in Nat
    BY DEF Types, TypeOK, Channels
  <2>3. DeltaLines(c) \in Seq(Lines)
    BY <2>2 DEF DeltaLines
  <2> QED BY <1>3, <1>5, <2>1, <2>3
<1>6. \/ wire' = wire \/ Replay(c) \/ DeltaReplay(c)
      \/ wire' = Append(wire, Response(c)) /\ load'[c] \in {"done", "failed"}
  <2>1. load \in [Clients -> Loads]
    BY DEF Types, TypeOK
  <2> QED BY <2>1 DEF Agent, LoadStart, FlushComplete, FlushTimeout, Flushed1, LoadFails,
                      OpenGate, Respond, At
<1> QED BY <1>1, <1>2, <1>4, <1>5, <1>6

\* The session sends a live update if its gate is open.
LEMMA EmitWire ==
    ASSUME Types, NEW u \in Notifications, NEW open \in BOOLEAN, Emit(u, open)
    PROVE  /\ \A k \in DOMAIN wire : k \in DOMAIN wire' /\ wire'[k] = wire[k] /\ k \in Nat
           /\ \A k \in DOMAIN wire' : k \in DOMAIN wire
                 \/ /\ k \notin DOMAIN wire /\ k \in Nat /\ \A j \in DOMAIN wire : j < k
                    /\ wire'[k].kind = "live" /\ wire'[k].event = Count
                    /\ \A j \in DOMAIN wire' : j <= k
           /\ Count \in Nat /\ Count' = Count + 1
           /\ Count \in gated' \/ \E k \in DOMAIN wire' : wire'[k].kind = "live" /\ wire'[k].event = Count
           /\ gated \subseteq gated'
PROOF
<1>0. /\ wire \in Seq(Messages) /\ Len(wire) \in Nat /\ DOMAIN wire = 1 .. Len(wire)
      /\ Count \in Nat
  BY WireTypes, DiskTypes
<1>1. Count' = Count + 1 /\ gated \subseteq gated'
  BY EmitGrows DEF Emit
<1>2. CASE ~open
  <2>1. wire' = wire /\ Count \in gated'
    BY <1>2 DEF Emit
  <2> QED BY <1>0, <1>1, <2>1
<1>3. CASE open
  <2> DEFINE m == Live(Count)  S == Messages \cup {m}
  <2>1. wire' = Append(wire, m) /\ m.kind = "live" /\ m.event = Count
    BY <1>3 DEF Emit, Live
  <2>2. wire \in Seq(S) /\ m \in S
    BY <1>0, SeqGrows
  <2> HIDE DEF m, S
  <2>3. /\ Len(wire') = Len(wire) + 1 /\ wire' \in Seq(S)
        /\ \A k \in DOMAIN wire : k \in DOMAIN wire' /\ wire'[k] = wire[k] /\ k <= Len(wire)
        /\ Len(wire') \in DOMAIN wire' /\ wire'[Len(wire')] = m /\ Len(wire') \notin DOMAIN wire
        /\ \A k \in DOMAIN wire' : k \in DOMAIN wire \/ k = Len(wire')
    BY <2>1, <2>2, AppendedOne
  <2> QED BY <1>0, <1>1, <2>1, <2>3
<1> QED BY <1>2, <1>3

\* The leader takes the first message.
LEMMA RouteWire ==
    ASSUME Types, Route
    PROVE  /\ 1 \in DOMAIN wire /\ Head(wire) = wire[1]
           /\ \A k \in DOMAIN wire' : /\ k \in Nat /\ 1 < k + 1
                                      /\ k + 1 \in DOMAIN wire /\ wire'[k] = wire[k + 1]
           /\ \A k \in DOMAIN wire : /\ k \in Nat
                                     /\ k = 1 \/ (k - 1 \in DOMAIN wire' /\ wire'[k - 1] = wire[k])
PROOF
<1>1. wire \in Seq(Messages) /\ wire # <<>> /\ wire' = Tail(wire)
  BY DEF Types, Channels, Route, RouteLive, RouteReplay, RouteResponse
<1>2. /\ 1 \in DOMAIN wire /\ Head(wire) = wire[1]
      /\ \A k \in DOMAIN wire' : k \in Nat /\ k + 1 \in DOMAIN wire /\ wire'[k] = wire[k + 1]
      /\ \A k \in DOMAIN wire : /\ k \in Nat
                                /\ k = 1 \/ (k - 1 \in DOMAIN wire' /\ wire'[k - 1] = wire[k])
  BY <1>1, Taken
<1>3. \A k \in DOMAIN wire' : 1 < k + 1
  <2>1. wire' \in Seq(Messages)
    BY <1>1
  <2> QED BY <2>1
<1> QED BY <1>2, <1>3

\* The response to c's load, if the leader waits for it
LEMMA ResponseRouted ==
    ASSUME Types, RouteResponse
    PROVE  \E c \in Clients :
           /\ ResponseAt(1, c) /\ Head(wire).client = c
           /\ UNCHANGED <<minted, events, sent, gate, chan, pend, disk, acked, load, off,
                          conn, subs, folded, gated, mark, delta, degraded, faults>>
           /\ \A d \in Clients : d # c => /\ buf'[d] = buf[d] /\ cutoff'[d] = cutoff[d]
                                          /\ shown'[d] = shown[d] /\ hw'[d] = hw[d]
           /\ \/ /\ c \in loading /\ loading' = loading \ {c}
                 /\ buf'[c] = <<>> /\ cutoff'[c] = NoSeq
                 /\ shown'[c] = Rendered(View(c), NotReplayed(c)).rows
                 /\ hw'[c] = Rendered(View(c), NotReplayed(c)).last
              \/ c \notin loading /\ UNCHANGED <<loading, buf, cutoff, shown, hw>>
PROOF
<1> DEFINE c == Head(wire).client
<1>1. Head(wire) = wire[1] /\ 1 \in DOMAIN wire
  BY RouteWire DEF Route
<1>2. wire[1].kind = "response"
  BY <1>1 DEF RouteResponse
<1>3. c \in Clients /\ ResponseAt(1, c)
  BY <1>1, <1>2, WireTypes DEF ResponseAt
<1>4. UNCHANGED <<minted, events, sent, gate, chan, pend, disk, acked, load, off, conn,
                  subs, folded, gated, mark, delta, degraded, faults>>
  BY DEF RouteResponse, sessionVars, diskVars, agentVars, history
<1> DEFINE view == Rendered(View(c), NotReplayed(c))
<1>5. \/ /\ c \in loading /\ loading' = loading \ {c} /\ buf' = [buf EXCEPT ![c] = <<>>]
         /\ cutoff' = [cutoff EXCEPT ![c] = NoSeq]
         /\ shown' = [shown EXCEPT ![c] = view.rows] /\ hw' = [hw EXCEPT ![c] = view.last]
      \/ c \notin loading /\ UNCHANGED <<loading, buf, cutoff, shown, hw>>
  BY DEF RouteResponse, Releases
<1>6. /\ DOMAIN buf = Clients /\ DOMAIN cutoff = Clients /\ DOMAIN shown = Clients
      /\ DOMAIN hw = Clients
  BY DEF Types, TypeOK, Channels
<1>a. Head(wire).client = c
  OBVIOUS
<1> HIDE DEF c, view
<1>7. \A d \in Clients : d # c => /\ buf'[d] = buf[d] /\ cutoff'[d] = cutoff[d]
                                  /\ shown'[d] = shown[d] /\ hw'[d] = hw[d]
  BY <1>5, <1>6
<1>8. \/ /\ c \in loading /\ loading' = loading \ {c}
         /\ buf'[c] = <<>> /\ cutoff'[c] = NoSeq
         /\ shown'[c] = view.rows /\ hw'[c] = view.last
      \/ c \notin loading /\ UNCHANGED <<loading, buf, cutoff, shown, hw>>
  BY <1>3, <1>5, <1>6
<1> QED
  BY <1>3, <1>4, <1>7, <1>8, <1>a DEF view

\* A replay line for c, if it is still there
LEMMA ReplayRouted ==
    ASSUME Types, Attendance, RouteReplay
    PROVE  \E c \in Clients :
           /\ ReplayAt(1, c)
           /\ UNCHANGED <<minted, events, sent, gate, chan, pend, disk, acked, load, off,
                          conn, subs, loading, buf, hw, gated, mark, delta, degraded,
                          faults>>
           /\ \A d \in Clients : d # c => /\ cutoff'[d] = cutoff[d] /\ shown'[d] = shown[d]
                                          /\ folded'[d] = folded[d]
           /\ \/ /\ c \in subs
                 /\ shown'[c] = shown[c] \o
                       [i \in 1 .. wire[1].hi - wire[1].lo + 1 |-> wire[1].lo + i - 1]
                 /\ folded'[c] = folded[c] \cup wire[1].folds
                 /\ cutoff'[c] = IF Id(wire[1].hi) > cutoff[c] THEN Id(wire[1].hi) ELSE cutoff[c]
              \/ c \notin subs /\ UNCHANGED <<shown, folded, cutoff>>
PROOF
<1> DEFINE c == wire[1].client
<1>1. Head(wire) = wire[1] /\ 1 \in DOMAIN wire
  BY RouteWire DEF Route
<1>2. wire[1].kind = "replay"
  BY <1>1 DEF RouteReplay
<1>3. c \in Clients /\ ReplayAt(1, c)
  BY <1>1, <1>2, WireTypes DEF ReplayAt
<1>4. UNCHANGED <<minted, events, sent, gate, chan, pend, disk, acked, load, off, conn,
                  subs, loading, buf, hw, gated, mark, delta, degraded, faults>>
  BY DEF RouteReplay, sessionVars, diskVars, agentVars, history
<1>5. conn[c] = "up" <=> c \in subs
  BY <1>3 DEF Attendance
<1>6. IF conn[c] = "up"
      THEN /\ shown' = [shown EXCEPT ![c] = @ \o [i \in 1 .. wire[1].hi - wire[1].lo + 1 |->
                                                     wire[1].lo + i - 1]]
           /\ folded' = [folded EXCEPT ![c] = @ \cup wire[1].folds]
           /\ cutoff' = [cutoff EXCEPT ![c] = IF Id(wire[1].hi) > @ THEN Id(wire[1].hi) ELSE @]
      ELSE UNCHANGED <<shown, folded, cutoff>>
  BY <1>1 DEF RouteReplay, LineId
<1>7. DOMAIN cutoff = Clients /\ DOMAIN shown = Clients /\ DOMAIN folded = Clients
  BY DEF Types, TypeOK, Channels
<1> HIDE DEF c
<1>8. \A d \in Clients : d # c => /\ cutoff'[d] = cutoff[d] /\ shown'[d] = shown[d]
                                  /\ folded'[d] = folded[d]
  BY <1>6, <1>7
<1>9. \/ /\ c \in subs
         /\ shown'[c] = shown[c] \o [i \in 1 .. wire[1].hi - wire[1].lo + 1 |-> wire[1].lo + i - 1]
         /\ folded'[c] = folded[c] \cup wire[1].folds
         /\ cutoff'[c] = IF Id(wire[1].hi) > cutoff[c] THEN Id(wire[1].hi) ELSE cutoff[c]
      \/ c \notin subs /\ UNCHANGED <<shown, folded, cutoff>>
  BY <1>3, <1>5, <1>6, <1>7
<1> QED BY <1>3, <1>4, <1>8, <1>9

-----------------------------------------------------------------------------
(* The leader's books *)

\* The books of one client
Attends(c) ==
    /\ conn[c] = "up" <=> c \in subs
    /\ conn[c] = "new" => load[c] = "none"
    /\ load[c] = "none" => c \notin loading /\ mark[c] = 0 /\ off[c] = 0 /\ delta[c] = 0
    /\ c \in subs \ loading => load[c] \in {"none", "done", "failed"}
    /\ c \in subs \ degraded => load[c] # "failed"
    /\ load[c] = "none" \/ c \notin subs => folded[c] = {}
    /\ c \notin subs => shown[c] = <<>> /\ hw[c] = NoSeq /\ cutoff[c] = NoSeq
    /\ \A n \in {1, 2} : <<c, n>> \in acked => Awaits(c, n)

LEMMA AttendanceSplit == Attendance <=> \A c \in Clients : Attends(c)
  BY DEF Attendance, Attends

LEMMA AttendanceKept ==
    ASSUME Attendance, UNCHANGED <<conn, subs, load, loading, mark, off, delta, shown,
                                   folded, hw, cutoff, acked, degraded>>
    PROVE  Attendance'
  BY DEF Attendance, Awaits

LEMMA AgentAttendance ==
    ASSUME Types, Attendance, NEW c \in Clients, Agent(c)
    PROVE  Attendance'
PROOF
<1>1. /\ load[c] \in {"requested", "flush1", "flush2", "wait1", "wait2", "read", "open", "respond"}
      /\ load'[c] \in {"flush1", "wait1", "wait2", "read", "open", "failed", "flush2",
                       "respond", "done"}
      /\ \A d \in Clients : d # c => load'[d] = load[d]
      /\ UNCHANGED <<conn, subs, loading, cutoff, shown, folded, hw>>
      /\ degraded \subseteq degraded'
  BY AgentMoves
<1>2. \A d \in Clients : d # c => mark'[d] = mark[d] /\ off'[d] = off[d] /\ delta'[d] = delta[d]
  <2>1. mark' = mark \/ mark' = [mark EXCEPT ![c] = Count]
    BY DEF Agent, LoadStart, FlushComplete, FlushTimeout, Flushed1, LoadFails, Replay, DeltaReplay,
           OpenGate, Respond, history
  <2>2. off' = off \/ off' = [off EXCEPT ![c] = Len(disk)]
    BY DEF Agent, LoadStart, FlushComplete, FlushTimeout, Flushed1, LoadFails, Replay, DeltaReplay,
           OpenGate, Respond, agentVars
  <2>3. delta' = delta \/ delta' = [delta EXCEPT ![c] = Len(disk)]
    BY DEF Agent, LoadStart, FlushComplete, FlushTimeout, Flushed1, LoadFails, Replay, DeltaReplay,
           OpenGate, Respond, history
  <2>4. DOMAIN mark = Clients /\ DOMAIN off = Clients /\ DOMAIN delta = Clients
    BY DEF Types, TypeOK, Channels
  <2> QED BY <2>1, <2>2, <2>3, <2>4
<1>3. acked' \subseteq acked
  BY DEF Agent, LoadStart, FlushComplete, FlushTimeout, Flushed1, LoadFails, Replay, DeltaReplay,
         OpenGate, Respond, diskVars
<1>4. ASSUME NEW n \in {1, 2}
      PROVE  <<c, n>> \notin acked'
  <2>1. <<c, n>> \in acked => load[c] = <<"wait1", "wait2">>[n]
    BY DEF Attendance, Awaits
  <2>2. CASE load[c] \notin {"wait1", "wait2"}
    BY <1>3, <2>1, <2>2
  <2>3. CASE load[c] = "wait1"
    <3>1. FlushTimeout(c) \/ Flushed1(c)
      BY <2>3 DEF Agent, LoadStart, FlushComplete, LoadFails, Replay, DeltaReplay,
                  OpenGate, Respond, At
    <3>2. <<c, 1>> \notin acked'
      BY <3>1 DEF FlushTimeout, Flushed1
    <3> QED BY <1>3, <2>1, <2>3, <3>2
  <2>4. CASE load[c] = "wait2"
    <3>1. FlushTimeout(c) \/ DeltaReplay(c)
      BY <2>4 DEF Agent, LoadStart, FlushComplete, Flushed1, LoadFails, Replay,
                  OpenGate, Respond, At
    <3>2. <<c, 2>> \notin acked'
      BY <3>1 DEF FlushTimeout, DeltaReplay
    <3> QED BY <1>3, <2>1, <2>4, <3>2
  <2> QED BY <2>2, <2>3, <2>4
<1>5. load'[c] = "failed" => c \in degraded'
  <2>1. load \in [Clients -> Loads]
    BY DEF Types, TypeOK
  <2> QED BY <2>1 DEF Agent, LoadStart, FlushComplete, FlushTimeout, Flushed1, LoadFails, Replay,
                      DeltaReplay, OpenGate, Respond, At
<1>6. ASSUME NEW d \in Clients, d # c
      PROVE  Attends(d)'
  BY <1>1, <1>2, <1>3, <1>6 DEF Attendance, Attends, Awaits
<1>7. Attends(c)'
  BY <1>1, <1>4, <1>5 DEF Attendance, Attends
<1> QED BY <1>6, <1>7, AttendanceSplit DEF Attendance, Attends

\* Every step keeps the leader's books.
LEMMA AttendanceStep ==
    ASSUME Types, Attendance, Stages, [Next]_vars
    PROVE  Attendance'
PROOF
<1>1. ASSUME NEW u \in Notifications, NEW open \in BOOLEAN, Emit(u, open)
      PROVE  Attendance'
  BY <1>1, AttendanceKept DEF Emit, agentVars, leaderVars, pagerVars
<1>2. CASE PersistUpdate
  BY <1>2, AttendanceKept DEF PersistUpdate, agentVars, leaderVars, pagerVars, history
<1>3. CASE PersistFlush
  <2>1. /\ UNCHANGED <<conn, subs, load, loading, mark, off, delta, shown, folded, hw,
                       cutoff, degraded>>
        /\ acked' = acked \cup {f \in {<<Head(chan).client, Head(chan).n>>} : Awaits(f[1], f[2])}
    BY <1>3 DEF PersistFlush, agentVars, leaderVars, pagerVars, history
  <2>2. \A d \in Clients : \A n \in {1, 2} : <<d, n>> \in acked' => Awaits(d, n)
    BY <2>1 DEF Attendance
  <2>3. \A d \in Clients : \A n \in {1, 2} : (<<d, n>> \in acked => Awaits(d, n))'
    BY <2>1, <2>2 DEF Awaits
  <2>4. \A d \in Clients : Attends(d)
    BY AttendanceSplit
  <2>5. ASSUME NEW d \in Clients
        PROVE  Attends(d)'
    BY <2>1, <2>3, <2>4 DEF Attends
  <2>6. (\A d \in Clients : Attends(d))'
    BY <2>5
  <2> QED BY <2>6 DEF Attendance, Attends
<1>4. ASSUME NEW c \in Clients, RequestLoad(c)
      PROVE  Attendance'
  <2>1. /\ conn[c] = "new" /\ load[c] = "none" /\ c \notin subs /\ folded[c] = {}
        /\ DOMAIN conn = Clients /\ DOMAIN load = Clients
    BY <1>4 DEF RequestLoad, Attendance, Types, TypeOK
  <2>2. /\ conn'[c] = "up" /\ load'[c] = "requested" /\ subs' = subs \cup {c}
        /\ loading' = loading \cup {c}
        /\ \A d \in Clients : d # c => conn'[d] = conn[d] /\ load'[d] = load[d]
        /\ UNCHANGED <<mark, off, delta, shown, folded, hw, cutoff, acked, degraded>>
    BY <1>4, <2>1 DEF RequestLoad, diskVars, pagerVars, history
  <2>3. \A n \in {1, 2} : <<c, n>> \notin acked
    BY <2>1 DEF Attendance, Awaits
  <2>4. Attends(c)'
    BY <2>1, <2>2, <2>3 DEF Attends
  <2>5. \A d \in Clients : d # c => Attends(d)'
    BY <2>2 DEF Attendance, Attends, Awaits
  <2> QED BY <2>4, <2>5, AttendanceSplit DEF Attendance, Attends
<1>5. ASSUME NEW c \in Clients, Disconnect(c)
      PROVE  Attendance'
  <2>1. /\ conn[c] = "up" /\ load[c] \in Loads
        /\ DOMAIN conn = Clients /\ DOMAIN shown = Clients /\ DOMAIN hw = Clients
        /\ DOMAIN cutoff = Clients /\ DOMAIN folded = Clients
    BY <1>5 DEF Disconnect, Types, TypeOK, Channels
  <2>2. /\ conn'[c] = "gone" /\ subs' = subs \ {c} /\ loading' = loading \ {c}
        /\ shown'[c] = <<>> /\ folded'[c] = {} /\ hw'[c] = NoSeq /\ cutoff'[c] = NoSeq
        /\ \A d \in Clients : d # c => /\ conn'[d] = conn[d] /\ shown'[d] = shown[d]
                                       /\ folded'[d] = folded[d]
                                       /\ hw'[d] = hw[d] /\ cutoff'[d] = cutoff[d]
        /\ degraded' = degraded \ {c}
        /\ UNCHANGED <<mark, load, acked, off, delta>>
    BY <1>5, <2>1 DEF Disconnect, diskVars, agentVars
  <2>3. Attends(c)'
    BY <2>1, <2>2 DEF Attendance, Attends, Awaits
  <2>4. \A d \in Clients : d # c => Attends(d)'
    BY <2>2 DEF Attendance, Attends, Awaits
  <2> QED BY <2>3, <2>4, AttendanceSplit DEF Attendance, Attends
<1>6. CASE RouteLive
  <2>1. UNCHANGED <<conn, subs, load, loading, mark, off, delta, cutoff, folded, acked>>
        /\ degraded \subseteq degraded'
    BY <1>6 DEF RouteLive, diskVars, agentVars
  <2>2. \A c \in Clients : c \notin subs => shown'[c] = shown[c] /\ hw'[c] = hw[c]
    BY <1>6, LiveShown DEF Types
  <2> QED BY <2>1, <2>2 DEF Attendance, Awaits
<1>7. CASE RouteReplay
  <2>1. PICK c \in Clients :
           /\ ReplayAt(1, c)
           /\ UNCHANGED <<conn, subs, load, loading, mark, off, delta, hw, acked, degraded>>
           /\ \A d \in Clients : d # c => /\ cutoff'[d] = cutoff[d] /\ shown'[d] = shown[d]
                                          /\ folded'[d] = folded[d]
           /\ c \in subs \/ (c \notin subs /\ UNCHANGED <<shown, folded, cutoff>>)
    BY <1>7, ReplayRouted
  <2>2. load[c] # "none"
    BY <1>7, <2>1, RouteWire DEF Route, Stages, Between, After
  <2>3. Attends(c)'
    BY <2>1, <2>2 DEF Attendance, Attends, Awaits
  <2>4. \A d \in Clients : d # c => Attends(d)'
    BY <2>1 DEF Attendance, Attends, Awaits
  <2> QED BY <2>3, <2>4, AttendanceSplit DEF Attendance, Attends
<1>8. CASE RouteResponse
  <2>1. PICK c \in Clients :
           /\ ResponseAt(1, c)
           /\ UNCHANGED <<conn, subs, load, mark, off, delta, folded, acked, degraded>>
           /\ \A d \in Clients : d # c => /\ cutoff'[d] = cutoff[d]
                                          /\ shown'[d] = shown[d] /\ hw'[d] = hw[d]
           /\ \/ c \in loading /\ loading' = loading \ {c}
              \/ c \notin loading /\ UNCHANGED <<loading, cutoff, shown, hw>>
    BY <1>8, ResponseRouted
  <2>2. load[c] \in {"done", "failed"}
    BY <1>8, <2>1, RouteWire DEF Route, Stages
  <2>3. loading \subseteq subs
    BY DEF Types, TypeOK
  <2>4. Attends(c)'
    BY <2>1, <2>2, <2>3 DEF Attendance, Attends, Awaits
  <2>5. \A d \in Clients : d # c => Attends(d)'
    BY <2>1 DEF Attendance, Attends, Awaits
  <2> QED BY <2>4, <2>5, AttendanceSplit DEF Attendance, Attends
<1>9. CASE Quiet
  BY <1>9, AttendanceKept DEF Quiet
<1> QED
  BY <1>1, <1>2, <1>3, <1>4, <1>5, <1>6, <1>7, <1>8, <1>9, AgentAttendance, StepCases
  DEF Persist, Route

\* Stages speaks of the wire and of the persistence queue.
WireStages ==
    \A c \in Clients : \A k \in DOMAIN wire :
        /\ ReplayAt(k, c) => load[c] \in Between \cup After /\ (c \in subs => c \in loading)
        /\ ResponseAt(k, c) => load[c] \in {"done", "failed"} /\ (c \in subs => c \in loading)
        /\ ResponseAt(k, c) => \A l \in DOMAIN wire :
              k < l => ~ReplayAt(l, c) /\ ~ResponseAt(l, c)
ChanStages ==
    \A c \in Clients : \A i \in DOMAIN chan :
        FlushAt(i, c) => load[c] \in {"wait2"} \cup After

LEMMA StagesSplit == Stages <=> WireStages /\ ChanStages
  BY DEF Stages, WireStages, ChanStages

LEMMA AgentStages ==
    ASSUME Types, Attendance, Stages, NEW c \in Clients, Agent(c)
    PROVE  Stages'
PROOF
<1>1. /\ load[c] \in {"requested", "flush1", "flush2", "wait1", "wait2", "read", "open", "respond"}
      /\ \A d \in Clients : d # c => load'[d] = load[d]
      /\ UNCHANGED <<subs, loading>>
  BY AgentMoves
<1>2. /\ \A k \in DOMAIN wire : k \in DOMAIN wire' /\ wire'[k] = wire[k] /\ k \in Nat
      /\ \A k \in DOMAIN wire' : k \in DOMAIN wire
            \/ /\ k \notin DOMAIN wire /\ k \in Nat /\ \A j \in DOMAIN wire : j < k
               /\ wire'[k].client = c
               /\ \/ wire'[k].kind = "replay" /\ (Replay(c) \/ DeltaReplay(c))
                  \/ /\ wire'[k].kind = "response" /\ load'[c] \in {"done", "failed"}
                     /\ \A j \in DOMAIN wire' : j <= k
  BY AgentWire
<1>3. \A k \in DOMAIN wire : ~ResponseAt(k, c)
  BY <1>1 DEF Stages
<1>4. c \in subs => c \in loading
  BY <1>1 DEF Attendance
<1>5. load \in [Clients -> Loads]
  BY DEF Types, TypeOK
<1>6. load[c] \in Between \cup After => load'[c] \in Between \cup After
  <2>1. PICK mv \in Moves : load[c] = mv[1] /\ load'[c] = mv[2]
    BY <1>5, AgentMoves
  <2> QED BY <2>1 DEF Moves, Between, After
<1>7. Replay(c) \/ DeltaReplay(c) => load'[c] \in Between \cup After
  BY <1>5 DEF Replay, DeltaReplay, At, Between, After
<1>8. WireStages'
  <2> SUFFICES ASSUME NEW d \in Clients, NEW k \in DOMAIN wire'
               PROVE  /\ ReplayAt(k, d)' => load'[d] \in Between \cup After /\ (d \in subs => d \in loading)
                      /\ ResponseAt(k, d)' => /\ load'[d] \in {"done", "failed"}
                                              /\ d \in subs => d \in loading
                      /\ ResponseAt(k, d)' => \A l \in DOMAIN wire' :
                            k < l => ~ReplayAt(l, d)' /\ ~ResponseAt(l, d)'
    BY <1>1 DEF WireStages
  <2>1. ASSUME NEW j \in DOMAIN wire', d # c
        PROVE  /\ ReplayAt(j, d)' => j \in DOMAIN wire /\ ReplayAt(j, d)
               /\ ResponseAt(j, d)' => j \in DOMAIN wire /\ ResponseAt(j, d)
    BY <1>2, <2>1 DEF ReplayAt, ResponseAt
  <2>2. CASE d # c
    BY <1>1, <2>1, <2>2 DEF Stages
  <2>3. CASE d = c /\ k \in DOMAIN wire
    <3>1. ~ResponseAt(k, c)' /\ (ReplayAt(k, c)' => ReplayAt(k, c))
      BY <1>2, <1>3, <2>3 DEF ReplayAt, ResponseAt
    <3> QED BY <1>4, <1>6, <2>3, <3>1 DEF Stages
  <2>4. CASE d = c /\ k \notin DOMAIN wire
    <3>1. /\ ReplayAt(k, c)' => Replay(c) \/ DeltaReplay(c)
          /\ ResponseAt(k, c)' => load'[c] \in {"done", "failed"} /\ \A j \in DOMAIN wire' : j <= k
      BY <1>2, <2>4 DEF ReplayAt, ResponseAt
    <3>2. \A j \in DOMAIN wire' : j \in Nat
      BY <1>2
    <3> QED BY <1>4, <1>7, <2>4, <3>1, <3>2
  <2> QED BY <2>2, <2>3, <2>4
<1>9. ChanStages'
  <2>1. CASE FlushComplete(c)
    <3>1. PICK n \in {1, 2} : /\ chan' = Append(chan, FlushAndAck(c, n))
                              /\ n = 2 => load' = [load EXCEPT ![c] = "wait2"]
      BY <2>1 DEF FlushComplete, At
    <3> DEFINE m == FlushAndAck(c, n)
    <3>2. m \in Updates \cup Flushes /\ m.client = c /\ m.n = n
      BY NewMessages DEF FlushAndAck
    <3> HIDE DEF m
    <3>3. chan \in Seq(Updates \cup Flushes) /\ chan' = Append(chan, m)
      BY <3>1 DEF Types, Channels, m
    <3>4. /\ \A k \in DOMAIN chan : k \in DOMAIN chan' /\ chan'[k] = chan[k]
          /\ chan'[Len(chan')] = m
          /\ \A k \in DOMAIN chan' : k \in DOMAIN chan \/ k = Len(chan')
      BY <3>2, <3>3, AppendedOne
    <3>5. ASSUME NEW d \in Clients, NEW i \in DOMAIN chan', FlushAt(i, d)'
          PROVE  load'[d] \in {"wait2"} \cup After
      <4>1. CASE i \in DOMAIN chan
        <5>1. FlushAt(i, d)
          BY <3>4, <3>5, <4>1 DEF FlushAt
        <5>2. load[d] \in {"wait2"} \cup After
          BY <4>1, <5>1 DEF Stages
        <5>3. load[c] \in {"flush1", "flush2"}
          BY <2>1 DEF FlushComplete, At
        <5> QED BY <1>1, <5>2, <5>3 DEF After
      <4>2. CASE i = Len(chan')
        <5>1. d = c /\ n = 2
          BY <3>2, <3>4, <3>5, <4>2 DEF FlushAt
        <5> QED BY <1>5, <3>1, <5>1
      <4> QED BY <3>4, <4>1, <4>2
    <3> QED BY <3>5 DEF ChanStages
  <2>2. CASE ~FlushComplete(c)
    <3>1. chan' = chan
      BY <2>2 DEF Agent, LoadStart, FlushTimeout, Flushed1, LoadFails, Replay, DeltaReplay,
                  OpenGate, Respond, diskVars
    <3>2. load[c] \in {"wait2"} \cup After => load'[c] \in {"wait2"} \cup After
      <4>1. PICK mv \in Moves : load[c] = mv[1] /\ load'[c] = mv[2]
        BY <1>5, AgentMoves
      <4> QED BY <4>1 DEF Moves, After
    <3> QED BY <1>1, <3>1, <3>2 DEF Stages, ChanStages, FlushAt
  <2> QED BY <2>1, <2>2
<1> QED BY <1>8, <1>9, StagesSplit DEF Stages, WireStages, ChanStages

\* Messages that are for nobody's load join the queues.
LEMMA StagesKept ==
    ASSUME Stages,
           \A c \in Clients : \A k \in DOMAIN wire' :
               ReplayAt(k, c)' \/ ResponseAt(k, c)' => k \in DOMAIN wire /\ wire'[k] = wire[k],
           \A c \in Clients : \A i \in DOMAIN chan' :
               FlushAt(i, c)' => i \in DOMAIN chan /\ chan'[i] = chan[i],
           UNCHANGED <<load, subs, loading>>
    PROVE  Stages'
  BY DEF Stages, ReplayAt, ResponseAt, FlushAt

LEMMA RouteStages ==
    ASSUME Types, Attendance, Stages, Route
    PROVE  Stages'
PROOF
<1>1. /\ 1 \in DOMAIN wire
      /\ \A k \in DOMAIN wire' : /\ k \in Nat /\ 1 < k + 1
                                 /\ k + 1 \in DOMAIN wire /\ wire'[k] = wire[k + 1]
  BY RouteWire
<1>2. UNCHANGED <<chan, load, subs>>
  BY DEF Route, RouteLive, RouteReplay, RouteResponse, diskVars, agentVars
<1>3. ASSUME NEW c \in Clients, NEW k \in DOMAIN wire', ReplayAt(k, c)' \/ ResponseAt(k, c)'
      PROVE  c \in loading => c \in loading'
  <2>1. CASE RouteResponse
    <3>1. PICK d \in Clients : ResponseAt(1, d) /\ (loading' = loading \ {d} \/ loading' = loading)
      BY <2>1, ResponseRouted
    <3>2. ReplayAt(k + 1, c) \/ ResponseAt(k + 1, c)
      BY <1>1, <1>3 DEF ReplayAt, ResponseAt
    <3>3. c # d
      BY <1>1, <3>1, <3>2 DEF Stages
    <3> QED BY <3>1, <3>3
  <2>2. CASE ~RouteResponse
    BY <2>2 DEF Route, RouteLive, RouteReplay
  <2> QED BY <2>1, <2>2
<1>4. WireStages'
  <2> SUFFICES ASSUME NEW c \in Clients, NEW k \in DOMAIN wire'
               PROVE  /\ ReplayAt(k, c)' => /\ load[c] \in Between \cup After
                                            /\ c \in subs => c \in loading'
                      /\ ResponseAt(k, c)' => /\ load[c] \in {"done", "failed"}
                                              /\ c \in subs => c \in loading'
                      /\ ResponseAt(k, c)' => \A l \in DOMAIN wire' :
                            k < l => ~ReplayAt(l, c)' /\ ~ResponseAt(l, c)'
    BY <1>2 DEF WireStages
  <2>1. \A j \in DOMAIN wire' : /\ ReplayAt(j, c)' <=> ReplayAt(j + 1, c)
                                /\ ResponseAt(j, c)' <=> ResponseAt(j + 1, c)
    BY <1>1 DEF ReplayAt, ResponseAt
  <2>2. /\ ReplayAt(k + 1, c) => load[c] \in Between \cup After /\ (c \in subs => c \in loading)
        /\ ResponseAt(k + 1, c) => load[c] \in {"done", "failed"} /\ (c \in subs => c \in loading)
        /\ ResponseAt(k + 1, c) => \A l \in DOMAIN wire :
              k + 1 < l => ~ReplayAt(l, c) /\ ~ResponseAt(l, c)
    BY <1>1 DEF Stages
  <2>3. \A l \in DOMAIN wire' : k < l => k + 1 < l + 1
    BY <1>1
  <2> QED BY <1>1, <1>3, <2>1, <2>2, <2>3
<1>5. ChanStages'
  BY <1>2 DEF Stages, ChanStages, FlushAt
<1> QED BY <1>4, <1>5, StagesSplit DEF Stages, WireStages, ChanStages

\* Every step keeps the messages under way in step with the loads.
LEMMA StagesStep ==
    ASSUME Types, Attendance, Stages, [Next]_vars
    PROVE  Stages'
PROOF
<1>1. ASSUME NEW u \in Notifications, NEW open \in BOOLEAN, Emit(u, open)
      PROVE  Stages'
  <2>1. \A c \in Clients : \A k \in DOMAIN wire' :
           ReplayAt(k, c)' \/ ResponseAt(k, c)' => k \in DOMAIN wire /\ wire'[k] = wire[k]
    BY <1>1, EmitWire DEF ReplayAt, ResponseAt
  <2> DEFINE m == Update(Count, u.kind = "text")  S == Updates \cup Flushes \cup {m}
  <2>2. chan \in Seq(S)
    BY SeqGrows DEF Types, Channels
  <2>3. m \in S /\ m.kind = "update" /\ chan' = Append(chan, m)
    BY <1>1 DEF Emit, Update
  <2> HIDE DEF m, S
  <2>4. /\ \A k \in DOMAIN chan : k \in DOMAIN chan' /\ chan'[k] = chan[k]
        /\ chan'[Len(chan')] = m
        /\ \A k \in DOMAIN chan' : k \in DOMAIN chan \/ k = Len(chan')
    BY <2>2, <2>3, AppendedOne
  <2>5. \A c \in Clients : \A i \in DOMAIN chan' :
           FlushAt(i, c)' => i \in DOMAIN chan /\ chan'[i] = chan[i]
    BY <2>3, <2>4 DEF FlushAt
  <2>6. UNCHANGED <<load, subs, loading>>
    BY <1>1 DEF Emit, agentVars, leaderVars
  <2> QED BY <2>1, <2>5, <2>6, StagesKept
<1>2. CASE Persist
  <2>1. chan \in Seq(Updates \cup Flushes) /\ chan # <<>> /\ chan' = Tail(chan)
    BY <1>2 DEF Types, Channels, Persist, PersistUpdate, PersistFlush
  <2>2. \A k \in DOMAIN chan' : k \in Nat /\ k + 1 \in DOMAIN chan /\ chan'[k] = chan[k + 1]
    BY <2>1, Taken
  <2>3. UNCHANGED <<wire, load, subs, loading>>
    BY <1>2 DEF Persist, PersistUpdate, PersistFlush, agentVars, leaderVars
  <2>4. ChanStages'
    BY <2>2, <2>3 DEF Stages, ChanStages, FlushAt
  <2>5. WireStages'
    BY <2>3 DEF Stages, WireStages, ReplayAt, ResponseAt
  <2> QED BY <2>4, <2>5 DEF Stages, WireStages, ChanStages
<1>3. ASSUME NEW c \in Clients, RequestLoad(c)
      PROVE  Stages'
  <2>1. load[c] = "none" /\ DOMAIN load = Clients
    BY <1>3 DEF RequestLoad, Attendance, Types, TypeOK
  <2>2. /\ \A d \in Clients : d # c => load'[d] = load[d]
        /\ subs' = subs \cup {c} /\ loading' = loading \cup {c} /\ UNCHANGED <<wire, chan>>
    BY <1>3, <2>1 DEF RequestLoad, diskVars
  <2>3. /\ \A k \in DOMAIN wire : ~ReplayAt(k, c) /\ ~ResponseAt(k, c)
        /\ \A i \in DOMAIN chan : ~FlushAt(i, c)
    BY <2>1 DEF Stages, Between, After
  <2> QED BY <2>2, <2>3 DEF Stages, ReplayAt, ResponseAt, FlushAt
<1>4. ASSUME NEW c \in Clients, Disconnect(c)
      PROVE  Stages'
  <2>1. subs' = subs \ {c} /\ loading' = loading \ {c} /\ UNCHANGED <<wire, chan, load>>
    BY <1>4 DEF Disconnect, diskVars, agentVars
  <2> QED BY <2>1 DEF Stages, ReplayAt, ResponseAt, FlushAt
<1>5. CASE Quiet
  <2>1. UNCHANGED <<wire, chan, load, subs, loading>>
    BY <1>5 DEF Quiet
  <2> QED BY <2>1 DEF Stages, ReplayAt, ResponseAt, FlushAt
<1> QED
  BY <1>1, <1>2, <1>3, <1>4, <1>5, AgentStages, RouteStages, StepCases

\* A load never ends without its response.
LEMMA AnsweredStep ==
    ASSUME Types, Attendance, Stages, Answered, [Next]_vars
    PROVE  Answered'
PROOF
<1>1. ASSUME \A k \in DOMAIN wire : k \in DOMAIN wire' /\ wire'[k] = wire[k],
             UNCHANGED <<load, loading>>
      PROVE  Answered'
  BY <1>1 DEF Answered, ResponseAt
<1>2. ASSUME NEW u \in Notifications, NEW open \in BOOLEAN, Emit(u, open)
      PROVE  Answered'
  BY <1>1, <1>2, EmitWire DEF Emit, agentVars, leaderVars
<1>3. ASSUME UNCHANGED <<wire, load, loading>>
      PROVE  Answered'
  BY <1>1, <1>3
<1>4. CASE Persist
  BY <1>3, <1>4 DEF Persist, PersistUpdate, PersistFlush, agentVars, leaderVars
<1>5. ASSUME NEW c \in Clients, Agent(c)
      PROVE  Answered'
  <2>1. /\ \A k \in DOMAIN wire : k \in DOMAIN wire' /\ wire'[k] = wire[k]
        /\ loading' = loading /\ \A d \in Clients : d # c => load'[d] = load[d]
        /\ load'[c] # "none"
    BY <1>5, AgentWire, AgentMoves
  <2>2. load'[c] \in {"done", "failed"} => \E k \in DOMAIN wire' : ResponseAt(k, c)'
    <3> SUFFICES ASSUME load'[c] \in {"done", "failed"}
                 PROVE  \E k \in DOMAIN wire' : ResponseAt(k, c)'
      OBVIOUS
    <3> DEFINE m == Response(c)
    <3>1. wire' = Append(wire, m)
      <4>1. load \in [Clients -> Loads]
        BY DEF Types, TypeOK
      <4> QED BY <1>5, <4>1 DEF Agent, LoadStart, FlushComplete, FlushTimeout, Flushed1, LoadFails,
                                Replay, DeltaReplay, OpenGate, Respond, At
    <3>2. m \in Messages /\ m.kind = "response" /\ m.client = c
      BY NewMessages DEF Response
    <3>3. wire \in Seq(Messages)
      BY WireTypes
    <3> HIDE DEF m
    <3>4. Len(wire') \in DOMAIN wire' /\ wire'[Len(wire')] = m
      BY <3>1, <3>2, <3>3, AppendedOne
    <3> QED BY <3>2, <3>4 DEF ResponseAt
  <2>3. loading \subseteq Clients
    BY DEF Types, TypeOK
  <2> QED BY <2>1, <2>2, <2>3 DEF Answered, ResponseAt
<1>6. ASSUME NEW c \in Clients, RequestLoad(c)
      PROVE  Answered'
  <2>1. loading' = loading \cup {c} /\ wire' = wire /\ load' = [load EXCEPT ![c] = "requested"]
    BY <1>6 DEF RequestLoad
  <2>2. load \in [Clients -> Loads] /\ loading \subseteq Clients
    BY DEF Types, TypeOK
  <2> QED BY <2>1, <2>2 DEF Answered, ResponseAt
<1>7. ASSUME NEW c \in Clients, Disconnect(c)
      PROVE  Answered'
  <2>1. loading' = loading \ {c} /\ UNCHANGED <<wire, load>>
    BY <1>7 DEF Disconnect, agentVars
  <2> QED BY <2>1 DEF Answered, ResponseAt
<1>8. CASE Route
  <2>1. /\ \A k \in DOMAIN wire : /\ k \in Nat
                                  /\ k = 1 \/ (k - 1 \in DOMAIN wire' /\ wire'[k - 1] = wire[k])
        /\ load' = load /\ Head(wire) = wire[1]
    <3>1. load' = load
      BY <1>8 DEF Route, RouteLive, RouteReplay, RouteResponse, agentVars
    <3> QED BY <1>8, <3>1, RouteWire
  <2>2. /\ loading' \subseteq loading
        /\ \A c \in loading' : ~ResponseAt(1, c)
    <3>1. CASE RouteResponse
      <4>1. PICK d \in Clients :
               /\ ResponseAt(1, d)
               /\ loading' = loading \ {d} \/ (d \notin loading /\ loading' = loading)
        BY <3>1, ResponseRouted
      <4> QED BY <4>1 DEF ResponseAt
    <3>2. CASE RouteLive \/ RouteReplay
      <4>1. wire[1].kind # "response" /\ loading' = loading
        BY <2>1, <3>2 DEF RouteLive, RouteReplay
      <4> QED BY <4>1 DEF ResponseAt
    <3> QED BY <1>8, <3>1, <3>2 DEF Route
  <2>3. ASSUME NEW c \in loading', load'[c] \in {"none", "done", "failed"}
        PROVE  \E k \in DOMAIN wire' : ResponseAt(k, c)'
    <3>1. PICK k \in DOMAIN wire : ResponseAt(k, c)
      BY <2>1, <2>2, <2>3 DEF Answered
    <3>2. k # 1
      BY <2>2, <3>1
    <3>3. k - 1 \in DOMAIN wire' /\ wire'[k - 1] = wire[k]
      BY <2>1, <3>2
    <3>4. PICK l \in DOMAIN wire' : wire'[l] = wire[k]
      BY <3>3
    <3> QED BY <3>1, <3>4 DEF ResponseAt
  <2> QED BY <2>3 DEF Answered
<1>9. CASE Quiet
  BY <1>3, <1>9 DEF Quiet
<1> QED
  BY <1>2, <1>4, <1>5, <1>6, <1>7, <1>8, <1>9, StepCases

\* Every step keeps the gate in the hands of a load.
LEMMA GateStep ==
    ASSUME Types, Attendance, GateIsHeld, [Next]_vars
    PROVE  GateIsHeld'
PROOF
<1>0. load \in [Clients -> Loads]
  BY DEF Types, TypeOK
<1>1. ASSUME UNCHANGED <<gate, load>>
      PROVE  GateIsHeld'
  BY <1>1 DEF GateIsHeld
<1>2. ASSUME NEW c \in Clients, Agent(c)
      PROVE  GateIsHeld'
  <2>1. CASE LoadStart(c)
    BY <1>0, <2>1 DEF LoadStart, At, GateIsHeld
  <2>2. CASE OpenGate(c)
    BY <2>2 DEF OpenGate, GateIsHeld
  <2>3. CASE ~LoadStart(c) /\ ~OpenGate(c)
    <3>1. gate' = gate
      BY <1>2, <2>3 DEF Agent, FlushComplete, FlushTimeout, Flushed1, LoadFails, Replay,
                        DeltaReplay, Respond, sessionVars
    <3>2. \/ load'[c] \in {"flush1", "wait1", "read", "flush2", "wait2", "open", "failed"}
          \/ load[c] = "respond"
      BY <1>0, <1>2, <2>3 DEF Agent, FlushComplete, FlushTimeout, Flushed1, LoadFails, Replay,
                              DeltaReplay, Respond, At
    <3>3. \A d \in Clients : d # c => load'[d] = load[d]
      BY <1>2, AgentMoves
    <3> QED BY <3>1, <3>2, <3>3 DEF GateIsHeld
  <2> QED BY <2>1, <2>2, <2>3
<1>3. ASSUME NEW c \in Clients, RequestLoad(c)
      PROVE  GateIsHeld'
  <2>1. /\ load[c] = "none" /\ gate' = gate
        /\ \A d \in Clients : d # c => load'[d] = load[d]
    BY <1>0, <1>3 DEF RequestLoad, sessionVars, Attendance
  <2> QED BY <2>1 DEF GateIsHeld
<1>4. ASSUME NEW c \in Clients, Disconnect(c)
      PROVE  UNCHANGED <<gate, load>>
  BY <1>4 DEF Disconnect, sessionVars, agentVars
<1>5. ASSUME NEW u \in Notifications, NEW open \in BOOLEAN, Emit(u, open)
      PROVE  UNCHANGED <<gate, load>>
  BY <1>5 DEF Emit, agentVars
<1>6. ASSUME Persist \/ Route
      PROVE  UNCHANGED <<gate, load>>
  BY <1>6 DEF Persist, PersistUpdate, PersistFlush, Route, RouteLive, RouteReplay, RouteResponse,
              sessionVars, agentVars
<1>7. ASSUME Quiet
      PROVE  UNCHANGED <<gate, load>>
  BY <1>7 DEF Quiet
<1> QED
  BY <1>1, <1>2, <1>3, <1>4, <1>5, <1>6, <1>7, StepCases

-----------------------------------------------------------------------------
(* The order of the live updates *)

\* What is written was sent.
LEMMA WrittenWasSent ==
    ASSUME Types, OnDisk, Queued
    PROVE  Written <= Count
PROOF
<1>1. Written \in Nat /\ Merged \in Nat /\ Count \in Nat /\ (pend # NoLine => pend.hi \in Nat)
  BY DiskTypes
<1>2. Merged <= Count /\ (pend # NoLine => Written <= pend.hi)
  BY DEF Queued, OnDisk
<1>3. CASE pend = NoLine
  BY <1>2, <1>3 DEF Merged
<1>4. CASE pend # NoLine
  BY <1>1, <1>2, <1>4 DEF Merged
<1> QED BY <1>3, <1>4

\* Every step keeps the live updates in the order of sending.
LEMMA LiveOrderStep ==
    ASSUME Types, LiveOrder, [Next]_vars
    PROVE  LiveOrder'
PROOF
<1>0. /\ \A k \in DOMAIN wire : k \in Nat /\ (LiveAt(k) => wire[k].event \in Nat)
      /\ Count \in Nat
  BY WireTypes, DiskTypes DEF LiveAt
<1>1. ASSUME NEW u \in Notifications, NEW open \in BOOLEAN, Emit(u, open)
      PROVE  LiveOrder'
  <2>1. /\ \A k \in DOMAIN wire : k \in DOMAIN wire' /\ wire'[k] = wire[k] /\ k \in Nat
        /\ \A k \in DOMAIN wire' : k \in DOMAIN wire
              \/ /\ k \notin DOMAIN wire /\ k \in Nat /\ \A j \in DOMAIN wire : j < k
                 /\ wire'[k].event = Count
                 /\ \A j \in DOMAIN wire' : j <= k
        /\ Count' = Count + 1
    BY <1>1, EmitWire
  <2>2. \A k \in DOMAIN wire' : LiveAt(k)' => wire'[k].event < Count'
    BY <1>0, <2>1 DEF LiveOrder, LiveAt
  <2>3. ASSUME NEW k \in DOMAIN wire', NEW l \in DOMAIN wire', k < l, LiveAt(k)', LiveAt(l)'
        PROVE  wire'[k].event < wire'[l].event
    <3>1. k \in DOMAIN wire
      <4>1. SUFFICES ASSUME k \notin DOMAIN wire
                     PROVE  FALSE
        OBVIOUS
      <4>2. l <= k /\ k \in Nat /\ l \in Nat
        BY <2>1, <4>1
      <4> QED BY <2>3, <4>2
    <3>2. CASE l \in DOMAIN wire
      BY <2>1, <2>3, <3>1, <3>2 DEF LiveOrder, LiveAt
    <3>3. CASE l \notin DOMAIN wire
      BY <2>1, <2>3, <3>1, <3>3 DEF LiveOrder, LiveAt
    <3> QED BY <3>2, <3>3
  <2> QED BY <2>2, <2>3 DEF LiveOrder
<1>2. ASSUME wire' = wire /\ Count' = Count
      PROVE  LiveOrder'
  BY <1>2 DEF LiveOrder, LiveAt
<1>3. ASSUME NEW c \in Clients, Agent(c)
      PROVE  LiveOrder'
  <2>1. /\ \A k \in DOMAIN wire' : LiveAt(k)' => k \in DOMAIN wire /\ wire'[k] = wire[k] /\ LiveAt(k)
        /\ Count' = Count
    BY <1>3, AgentWire, AgentMoves, SameSent DEF LiveAt
  <2> QED BY <2>1 DEF LiveOrder
<1>4. CASE Route
  <2>1. \A k \in DOMAIN wire' : k \in Nat /\ k + 1 \in DOMAIN wire /\ wire'[k] = wire[k + 1]
    BY <1>4, RouteWire
  <2>2. Count' = Count
    BY <1>4, SameSent DEF Route, RouteLive, RouteReplay, RouteResponse, sessionVars
  <2>3. \A k \in DOMAIN wire' : LiveAt(k)' <=> LiveAt(k + 1)
    BY <2>1 DEF LiveAt
  <2>4. \A k, l \in DOMAIN wire' : k < l => k + 1 < l + 1
    BY <2>1
  <2> QED BY <2>1, <2>2, <2>3, <2>4 DEF LiveOrder
<1>5. ASSUME Persist \/ Quiet \/ \E c \in Clients : RequestLoad(c) \/ Disconnect(c)
      PROVE  wire' = wire /\ Count' = Count
  <2>1. UNCHANGED <<wire, sent>>
    BY <1>5 DEF Persist, PersistUpdate, PersistFlush, RequestLoad, Disconnect, Quiet, sessionVars
  <2> QED BY <2>1, SameSent
<1> QED
  BY <1>1, <1>2, <1>3, <1>4, <1>5, StepCases

-----------------------------------------------------------------------------

-----------------------------------------------------------------------------
(* What stays true of updates that were sent *)

\* Every read ends within the file, and the file within what was sent.
LEMMA EndsBelow ==
    ASSUME Types, OnDisk, Queued
    PROVE  /\ Written \in Nat /\ Written <= Count /\ Count \in Nat
           /\ \A n \in 0 .. Len(disk) : DiskEnd(n) \in Nat /\ DiskEnd(n) <= Written
PROOF
<1>1. Written \in Nat /\ Written <= Count /\ Count \in Nat
  BY DiskTypes, WrittenWasSent
<1> SUFFICES ASSUME NEW n \in 0 .. Len(disk)
             PROVE  DiskEnd(n) <= Written
  BY <1>1, DiskTypes
<1>2. Len(disk) \in Nat /\ DOMAIN disk = 1 .. Len(disk)
      /\ \A i \in DOMAIN disk : disk[i].lo \in Nat /\ disk[i].hi \in Nat
  BY DiskTypes
<1>3. CASE n = 0
  BY <1>1, <1>3 DEF DiskEnd
<1>4. CASE n = Len(disk)
  BY <1>1, <1>4 DEF Written
<1>5. CASE n # 0 /\ n < Len(disk)
  <2>1. n \in DOMAIN disk /\ Len(disk) \in DOMAIN disk /\ Len(disk) # 0
    BY <1>2, <1>5
  <2>2. disk[n].hi < disk[Len(disk)].lo /\ disk[Len(disk)].lo <= disk[Len(disk)].hi
    BY <1>5, <2>1 DEF OnDisk, InFile
  <2>3. disk[n].hi + 1 <= disk[Len(disk)].hi + 1
    BY <1>2, <2>1, <2>2
  <2> QED BY <1>5, <2>1, <2>3 DEF DiskEnd, Written
<1>6. n = 0 \/ n = Len(disk) \/ (n # 0 /\ n < Len(disk))
  <2>1. PICK m \in Nat : m = Len(disk)
    BY <1>2
  <2>2. n \in 0 .. m
    BY <2>1
  <2>3. n = 0 \/ n = m \/ (n # 0 /\ n < m)
    BY <2>2
  <2> QED BY <2>1, <2>3
<1> QED BY <1>3, <1>4, <1>5, <1>6

\* The kind and the id of an update, and what it may be in a replay
LEMMA RowsKept ==
    ASSUME Types, OnDisk, Queued, SentGrows, DiskGrows
    PROVE  \A p \in Nat :
              /\ p < Written => p \in Places
              /\ p \in Places => Id(p)' = Id(p) /\ Kind(p)' = Kind(p) /\ p \in Places'
              /\ Row(p) => p \in Places /\ Row(p)'
              /\ Fold(p) => p \in Places /\ Fold(p)'
PROOF
<1> SUFFICES ASSUME NEW p \in Nat
             PROVE  /\ p < Written => p \in Places
                    /\ p \in Places => Id(p)' = Id(p) /\ Kind(p)' = Kind(p) /\ p \in Places'
                    /\ Row(p) => p \in Places /\ Row(p)'
                    /\ Fold(p) => p \in Places /\ Fold(p)'
  OBVIOUS
<1>1. p < Written => p \in Places
  BY EndsBelow DEF Places
<1>2. p \in Places => Id(p)' = Id(p) /\ Kind(p)' = Kind(p) /\ p \in Places'
  BY DEF SentGrows
<1>3. p < Written => p < Written'
  BY EndsBelow DEF DiskGrows
<1> QED BY <1>1, <1>2, <1>3 DEF Row, Fold

LEMMA CompletesKept ==
    ASSUME SentGrows, NEW p \in Places, NEW q \in Places
    PROVE  Completes(q, p)' <=> Completes(q, p)
  BY DEF SentGrows, Completes

\* What a read keeps back stays kept back.
LEMMA WithheldKept ==
    ASSUME Types, SentGrows, NEW a \in Nat, NEW b \in Nat, b <= Count, NEW p \in Places,
           Withheld(a, b, p)
    PROVE  Withheld(a, b, p)'
PROOF
<1>1. Kind(p)' = Kind(p)
  BY DEF SentGrows
<1>2. \A q \in a .. b - 1 : q \in Places
  BY SentTypes DEF Places
<1>3. ASSUME Kind(p) = "call", NEW q \in a .. b - 1, Completes(q, p)'
      PROVE  Completes(q, p)
  BY <1>2, <1>3, CompletesKept
<1>4. Kind(p) = "progress" \/ (Kind(p) = "call" /\ \A q \in a .. b - 1 : ~Completes(q, p))
  BY DEF Withheld
<1>5. Kind(p)' = "progress" \/ (Kind(p)' = "call" /\ \A q \in a .. b - 1 : ~Completes(q, p)')
  BY <1>1, <1>3, <1>4
<1> QED BY <1>5 DEF Withheld

\* The reads of a client that does not read
Reads(c) == off[c] <= Len(disk) /\ delta[c] <= Len(disk)

LEMMA EndsKept ==
    ASSUME Types, DiskGrows, NEW c \in Clients
    PROVE  /\ off'[c] = off[c] /\ off[c] <= Len(disk) => DiskEnd(off[c])' = DiskEnd(off[c])
           /\ delta'[c] = delta[c] /\ delta[c] <= Len(disk) => DiskEnd(delta[c])' = DiskEnd(delta[c])
PROOF
<1>1. off[c] \in Nat /\ delta[c] \in Nat /\ Len(disk) \in Nat
  BY DiskTypes DEF Types, TypeOK, Channels
<1>2. \A n \in 0 .. Len(disk) : DiskEnd(n)' = DiskEnd(n)
  BY DEF DiskGrows
<1>3. ASSUME off'[c] = off[c], off[c] <= Len(disk)
      PROVE  DiskEnd(off[c])' = DiskEnd(off[c])
  <2>1. PICK n \in 0 .. Len(disk) : n = off[c]
    BY <1>1, <1>3
  <2>2. DiskEnd(n)' = DiskEnd(n)
    BY <1>2
  <2> QED BY <1>3, <2>1, <2>2 DEF DiskEnd
<1>4. ASSUME delta'[c] = delta[c], delta[c] <= Len(disk)
      PROVE  DiskEnd(delta[c])' = DiskEnd(delta[c])
  <2>1. PICK n \in 0 .. Len(disk) : n = delta[c]
    BY <1>1, <1>4
  <2>2. DiskEnd(n)' = DiskEnd(n)
    BY <1>2
  <2> QED BY <1>4, <2>1, <2>2 DEF DiskEnd
<1> QED BY <1>3, <1>4

LEMMA KeptBackKept ==
    ASSUME Types, OnDisk, Queued, SentGrows, DiskGrows, NEW c \in Clients, Reads(c),
           off'[c] = off[c], delta'[c] = delta[c], NEW p \in Nat, KeptBack(c, p)
    PROVE  KeptBack(c, p)'
PROOF
<1>1. DiskEnd(off[c])' = DiskEnd(off[c]) /\ DiskEnd(delta[c])' = DiskEnd(delta[c])
  BY EndsKept DEF Reads
<1>2. DiskEnd(delta[c]) \in Nat /\ DiskEnd(delta[c]) <= Count
  <2>1. delta[c] \in 0 .. Len(disk)
    BY DiskTypes DEF Reads, Types, Channels
  <2> QED BY <2>1, EndsBelow
<1>3. p \in Places /\ \A q \in 0 .. DiskEnd(delta[c]) - 1 : q \in Places
  BY <1>2, SentTypes DEF KeptBack, Places
<1>4. Kind(p)' = Kind(p) /\ \A q \in 0 .. DiskEnd(delta[c]) - 1 : Completes(q, p)' <=> Completes(q, p)
  BY <1>3, CompletesKept DEF SentGrows
<1> QED BY <1>1, <1>4 DEF KeptBack

LEMMA OvertakenKept ==
    ASSUME Types, SentGrows, NEW p \in Places, Overtaken(p)
    PROVE  Overtaken(p)'
PROOF
<1>1. PICK q \in 0 .. p - 1 : Id(p) < Id(q)
  BY DEF Overtaken
<1>2. q \in Places
  BY SentTypes DEF Places
<1>3. Id(p)' = Id(p) /\ Id(q)' = Id(q)
  BY <1>2 DEF SentGrows
<1> QED BY <1>1, <1>3 DEF Overtaken

LEMMA BeforeKept ==
    ASSUME SentGrows, NEW p \in Places, NEW q \in Places, Before(p, q)
    PROVE  Before(p, q)'
  BY DEF SentGrows, Before

-----------------------------------------------------------------------------
(* A step that leaves c's transcript alone *)

\* The wire moves on by d messages, none of them a replay line for c; what joins it is
\* no replay line for c either, a live update only if it was just sent, and c's
\* response only as the last message.
Moved(c, d) ==
    /\ \A k \in DOMAIN wire : \/ k = d /\ ~ReplayAt(k, c)
                              \/ k - d \in DOMAIN wire' /\ wire'[k - d] = wire[k]
    /\ \A k \in DOMAIN wire' :
          /\ k \in Nat
          /\ \/ k + d \in DOMAIN wire /\ wire'[k] = wire[k + d]
             \/ /\ ~ReplayAt(k, c)'
                /\ ResponseAt(k, c)' => \A j \in DOMAIN wire' : j <= k
                /\ LiveAt(k)' => wire'[k].event = Count /\ Count' = Count + 1

\* What c shows, or has on its way in a replay line, it keeps.
LEMMA MovedGot ==
    ASSUME NEW c \in Clients, NEW d \in {0, 1}, Moved(c, d),
           shown'[c] = shown[c], folded'[c] = folded[c]
    PROVE  \A p : Got(c, p) => Got(c, p)'
PROOF
<1> SUFFICES ASSUME NEW p
             PROVE  Got(c, p) => Got(c, p)'
  OBVIOUS
<1>1. CASE p \in Range(shown[c]) \cup folded[c]
  BY <1>1 DEF Got
<1>2. ASSUME NEW k \in DOMAIN wire, ReplayAt(k, c), Covers(wire[k], p) \/ p \in wire[k].folds
      PROVE  Got(c, p)'
  <2>1. k - d \in DOMAIN wire' /\ wire'[k - d] = wire[k]
    BY <1>2 DEF Moved
  <2>2. ReplayAt(k - d, c)' /\ (Covers(wire'[k - d], p) \/ p \in wire'[k - d].folds)
    BY <1>2, <2>1 DEF ReplayAt
  <2> QED BY <2>1, <2>2 DEF Got, Covers
<1> QED BY <1>1, <1>2 DEF Got

\* The replay lines under way to c were under way before.
LEMMA MovedReplayAt ==
    ASSUME NEW c \in Clients, NEW d \in {0, 1}, Moved(c, d), NEW k \in DOMAIN wire', ReplayAt(k, c)'
    PROVE  k \in Nat /\ k + d \in DOMAIN wire /\ wire'[k] = wire[k + d] /\ ReplayAt(k + d, c)
  BY DEF Moved, ReplayAt

\* A line can still be sent as it is.
LEMMA SendableKept ==
    ASSUME Types, OnDisk, Queued, SentGrows, DiskGrows, NEW l, l.lo \in Nat, l.hi \in Places,
           l.folds \subseteq Places, Sendable(l)
    PROVE  Sendable(l)'
PROOF
<1>1. Places \subseteq Nat
  BY SentTypes
<1>2. Id(l.hi)' = Id(l.hi)
  BY DEF SentGrows
<1>3. \A p \in l.lo .. l.hi : p \in Nat
  BY <1>1
<1>4. \A p \in l.lo .. l.hi : Row(p)' /\ Id(p)' <= Id(l.hi)'
  BY <1>2, <1>3, RowsKept DEF Sendable
<1>5. \A f \in l.folds : Fold(f)' /\ Id(f)' <= Id(l.hi)'
  BY <1>1, <1>2, RowsKept DEF Sendable
<1> QED BY <1>4, <1>5 DEF Sendable

\* What was said of c's replay lines stays true.
LEMMA MovedReplays ==
    ASSUME Types, OnDisk, Queued, SentGrows, DiskGrows, NEW c \in Clients, NEW d \in {0, 1},
           Moved(c, d), shown'[c] = shown[c], Replays(c)
    PROVE  Replays(c)'
PROOF
<1> SUFFICES ASSUME NEW k \in DOMAIN wire', ReplayAt(k, c)'
             PROVE  /\ Sendable(wire[k])'
                    /\ \A r \in Range(shown[c]) : r < wire'[k].lo
                    /\ \A l \in DOMAIN wire' : k < l /\ ReplayAt(l, c)' => wire'[k].hi < wire'[l].lo
  BY DEF Replays
<1>1. k \in Nat /\ k + d \in DOMAIN wire /\ wire'[k] = wire[k + d] /\ ReplayAt(k + d, c)
  BY MovedReplayAt
<1>2. /\ Sendable(wire[k + d]) /\ \A r \in Range(shown[c]) : r < wire[k + d].lo
      /\ \A l \in DOMAIN wire : k + d < l /\ ReplayAt(l, c) => wire[k + d].hi < wire[l].lo
  BY <1>1 DEF Replays
<1>3. wire[k + d].lo \in Nat /\ wire[k + d].hi \in Places /\ wire[k + d].folds \subseteq Places
  BY <1>1, WireTypes DEF ReplayAt
<1>4. PICK l : l = wire[k + d]
  OBVIOUS
<1>5. Sendable(l)'
  BY <1>2, <1>3, <1>4, SendableKept
<1>6. Sendable(wire[k])'
  BY <1>1, <1>4, <1>5
<1>7. ASSUME NEW m \in DOMAIN wire', k < m, ReplayAt(m, c)'
      PROVE  wire'[k].hi < wire'[m].lo
  <2>1. m \in Nat /\ m + d \in DOMAIN wire /\ wire'[m] = wire[m + d] /\ ReplayAt(m + d, c)
    BY <1>7, MovedReplayAt
  <2>2. k + d < m + d
    BY <1>1, <1>7, <2>1
  <2> QED BY <1>1, <1>2, <2>1, <2>2
<1> QED BY <1>1, <1>2, <1>6, <1>7

LEMMA MovedBelow ==
    ASSUME NEW c \in Clients, NEW d \in {0, 1}, Moved(c, d), shown'[c] = shown[c],
           folded'[c] = folded[c], NEW e, Below(c, e)
    PROVE  Below(c, e)'
PROOF
<1>1. \A k \in DOMAIN wire' : ReplayAt(k, c)' =>
         k + d \in DOMAIN wire /\ wire'[k] = wire[k + d] /\ ReplayAt(k + d, c)
  BY MovedReplayAt
<1> QED BY <1>1 DEF Below

\* So does what was said of what follows its response.
LEMMA MovedCutover ==
    ASSUME Types, OnDisk, Queued, DiskGrows, NEW c \in Clients, NEW d \in {0, 1}, Moved(c, d),
           delta'[c] = delta[c], delta[c] <= Len(disk), Cutover(c)
    PROVE  Cutover(c)'
PROOF
<1>1. DiskEnd(delta[c])' = DiskEnd(delta[c])
  BY EndsKept
<1>2. DiskEnd(delta[c]) \in Nat /\ DiskEnd(delta[c]) <= Count
  <2>1. delta[c] \in 0 .. Len(disk)
    BY DiskTypes DEF Types, Channels
  <2> QED BY <2>1, EndsBelow
<1> SUFFICES ASSUME NEW k \in DOMAIN wire', NEW l \in DOMAIN wire',
                    k < l, ResponseAt(k, c)', LiveAt(l)'
             PROVE  DiskEnd(delta[c]) <= wire'[l].event
  BY <1>1 DEF Cutover
<1>3. k \in Nat /\ l \in Nat /\ ~(l <= k) /\ k + d < l + d
  BY DEF Moved
<1>4. k + d \in DOMAIN wire /\ ResponseAt(k + d, c)
  BY <1>3 DEF Moved, ResponseAt
<1>5. CASE l + d \in DOMAIN wire /\ wire'[l] = wire[l + d]
  BY <1>3, <1>4, <1>5 DEF LiveAt, Cutover
<1>6. CASE wire'[l].event = Count
  BY <1>2, <1>6
<1> QED BY <1>5, <1>6 DEF Moved

\* Between the two replays
LEMMA MovedOffset ==
    ASSUME Types, OnDisk, Queued, SentGrows, DiskGrows, NEW c \in Clients, NEW d \in {0, 1},
           Moved(c, d), shown'[c] = shown[c], folded'[c] = folded[c],
           load'[c] \in Between => load[c] \in Between, off'[c] = off[c], Offset(c)
    PROVE  Offset(c)'
PROOF
<1> SUFFICES ASSUME load[c] \in Between
             PROVE  /\ off'[c] <= Len(disk') /\ Below(c, DiskEnd(off[c]))'
                    /\ \A p \in 0 .. DiskEnd(off[c])' - 1 :
                          Got(c, p)' \/ Withheld(0, DiskEnd(off[c]), p)'
  BY DEF Offset
<1>1. /\ off[c] <= Len(disk) /\ Below(c, DiskEnd(off[c]))
      /\ \A p \in 0 .. DiskEnd(off[c]) - 1 : Got(c, p) \/ Withheld(0, DiskEnd(off[c]), p)
  BY DEF Offset
<1>2. off[c] \in Nat /\ off[c] \in 0 .. Len(disk) /\ off'[c] <= Len(disk')
  BY <1>1, DiskTypes DEF Types, TypeOK, DiskGrows
<1>3. DiskEnd(off[c])' = DiskEnd(off[c])
  BY <1>1, EndsKept
<1>4. PICK e : e = DiskEnd(off[c])
  OBVIOUS
<1>5. e \in Nat /\ e <= Count /\ 0 \in Nat
  BY <1>2, <1>4, EndsBelow
<1>6. Below(c, e)'
  BY <1>1, <1>4, MovedBelow
<1>7. ASSUME NEW p \in 0 .. e - 1
      PROVE  Got(c, p)' \/ Withheld(0, e, p)'
  <2>1. p \in Places
    BY <1>5, SentTypes DEF Places
  <2>2. CASE Got(c, p)
    BY <2>2, MovedGot
  <2>3. CASE Withheld(0, e, p)
    BY <1>5, <2>1, <2>3, WithheldKept
  <2> QED BY <1>1, <1>4, <2>2, <2>3
<1>8. Below(c, DiskEnd(off[c]))'
  BY <1>3, <1>4, <1>6
<1>9. \A p \in 0 .. DiskEnd(off[c])' - 1 : Got(c, p)' \/ Withheld(0, DiskEnd(off[c]), p)'
  BY <1>3, <1>4, <1>7
<1> QED BY <1>2, <1>8, <1>9

\* After the delta replay
LEMMA MovedDelta ==
    ASSUME Types, OnDisk, Queued, SentGrows, DiskGrows, NEW c \in Clients, NEW d \in {0, 1},
           Moved(c, d), shown'[c] = shown[c], folded'[c] = folded[c],
           load'[c] \in After => load[c] \in After /\ mark'[c] = mark[c],
           off'[c] = off[c], delta'[c] = delta[c], Delta(c)
    PROVE  Delta(c)'
PROOF
<1> SUFFICES ASSUME load[c] \in After, mark'[c] = mark[c]
             PROVE  /\ off'[c] <= delta'[c] /\ delta'[c] <= Len(disk')
                    /\ mark'[c] <= DiskEnd(delta[c])' /\ Below(c, DiskEnd(delta[c]))'
                    /\ \A p \in 0 .. DiskEnd(delta[c])' - 1 : Got(c, p)' \/ KeptBack(c, p)'
  BY DEF Delta
<1>1. /\ off[c] <= delta[c] /\ delta[c] <= Len(disk)
      /\ mark[c] <= DiskEnd(delta[c]) /\ Below(c, DiskEnd(delta[c]))
      /\ \A p \in 0 .. DiskEnd(delta[c]) - 1 : Got(c, p) \/ KeptBack(c, p)
  BY DEF Delta
<1>2. delta'[c] <= Len(disk') /\ Reads(c)
  <2>1. off[c] \in Nat /\ delta[c] \in Nat
    BY DEF Types, TypeOK, Channels
  <2>2. Len(disk) \in Nat /\ Len(disk') \in Nat /\ Len(disk) <= Len(disk')
    BY DiskTypes DEF DiskGrows
  <2> QED BY <1>1, <2>1, <2>2 DEF Reads
<1>3. DiskEnd(delta[c])' = DiskEnd(delta[c]) /\ DiskEnd(delta[c]) \in Nat
  <2>1. delta[c] \in 0 .. Len(disk)
    BY <1>1, DiskTypes DEF Types, Channels
  <2> QED BY <1>1, <2>1, EndsKept, EndsBelow
<1>4. PICK e : e = DiskEnd(delta[c])
  OBVIOUS
<1>5. Below(c, e)'
  BY <1>1, <1>4, MovedBelow
<1>6. ASSUME NEW p \in 0 .. e - 1
      PROVE  Got(c, p)' \/ KeptBack(c, p)'
  <2>1. p \in Nat
    BY <1>3, <1>4
  <2>2. CASE Got(c, p)
    BY <2>2, MovedGot
  <2>3. CASE KeptBack(c, p)
    BY <1>2, <2>1, <2>3, KeptBackKept
  <2> QED BY <1>1, <1>4, <2>2, <2>3
<1>7. Below(c, DiskEnd(delta[c]))'
  BY <1>3, <1>4, <1>5
<1>8. \A p \in 0 .. DiskEnd(delta[c])' - 1 : Got(c, p)' \/ KeptBack(c, p)'
  BY <1>3, <1>4, <1>6
<1> QED BY <1>1, <1>2, <1>3, <1>7, <1>8

\* The persistence queue moves on by d messages, and no flush of c joins it.
ChanMoved(c, d) ==
    \A i \in DOMAIN chan' :
        /\ i \in Nat
        /\ \/ i + d \in DOMAIN chan /\ chan'[i] = chan[i + d]
           \/ ~FlushAt(i, c)' /\ (chan'[i].kind = "update" => chan'[i].hi = Count)

\* The second flush still has behind it only updates that were sent later.
LEMMA MovedFlushed ==
    ASSUME Types, SentGrows, DiskGrows, NEW c \in Clients, NEW d \in {0, 1}, ChanMoved(c, d),
           load'[c] = load[c], mark'[c] = mark[c],
           <<c, 2>> \in acked' => <<c, 2>> \in acked, Flushed(c)
    PROVE  Flushed(c)'
PROOF
<1>1. /\ Count \in Nat /\ Count' \in Nat /\ Count <= Count' /\ mark[c] \in Nat
      /\ Written \in Nat /\ Written' \in Nat /\ Written <= Written'
  BY DiskTypes DEF SentGrows, DiskGrows, Types, Channels
<1>2. <<c, 2>> \in acked' => mark'[c] <= Written'
  <2> SUFFICES ASSUME <<c, 2>> \in acked
               PROVE  mark[c] <= Written'
    OBVIOUS
  <2>1. mark[c] <= Written
    BY DEF Flushed
  <2> QED BY <1>1, <2>1
<1>3. ASSUME load[c] = "wait2"
      PROVE  mark'[c] <= Count'
  <2>1. mark[c] <= Count
    BY <1>3 DEF Flushed
  <2> QED BY <1>1, <2>1
<1>4. ASSUME load[c] = "wait2", NEW i \in DOMAIN chan', NEW j \in DOMAIN chan', i < j,
             FlushAt(i, c)', chan'[j].kind = "update"
      PROVE  mark'[c] <= chan'[j].hi
  <2>1. i + d \in DOMAIN chan /\ FlushAt(i + d, c) /\ i \in Nat /\ j \in Nat
    BY <1>4 DEF ChanMoved, FlushAt
  <2>2. CASE j + d \in DOMAIN chan /\ chan'[j] = chan[j + d]
    <3>1. i + d < j + d
      BY <1>4, <2>1
    <3>2. chan[j + d].kind = "update"
      BY <1>4, <2>2
    <3>3. mark[c] <= chan[j + d].hi
      BY <1>4, <2>1, <2>2, <3>1, <3>2 DEF Flushed
    <3> QED BY <2>2, <3>3
  <2>3. CASE chan'[j].hi = Count
    BY <1>4, <2>3 DEF Flushed
  <2> QED BY <1>4, <2>2, <2>3 DEF ChanMoved
<1> QED BY <1>2, <1>3, <1>4 DEF Flushed

\* What is held back is still older than what is under way.
LEMMA MovedBacklog ==
    ASSUME Types, NEW c \in Clients, NEW d \in {0, 1}, Moved(c, d), Backlog(c), buf'[c] = buf[c]
    PROVE  Backlog(c)'
PROOF
<1>1. \A b \in Range(buf[c]) : b \in Places /\ b < Count
  <2>1. buf[c] \in Seq(Places)
    BY DEF Types, Channels
  <2>2. \A b \in Range(buf[c]) : b \in Places
    BY <2>1 DEF Range
  <2> QED BY <2>2, SentTypes
<1>2. ASSUME NEW b \in Range(buf[c]), NEW k \in DOMAIN wire', LiveAt(k)'
      PROVE  b < wire'[k].event
  <2>1. CASE k + d \in DOMAIN wire /\ wire'[k] = wire[k + d]
    BY <1>2, <2>1 DEF Backlog, LiveAt
  <2>2. CASE wire'[k].event = Count
    BY <1>1, <1>2, <2>2
  <2> QED BY <1>2, <2>1, <2>2 DEF Moved
<1> QED BY <1>2 DEF Backlog, Increasing

LEMMA RangesKept ==
    ASSUME Types, NEW c \in Clients
    PROVE  /\ Range(shown[c]) \subseteq Places /\ folded[c] \subseteq Places
           /\ Range(buf[c]) \subseteq Places /\ Places \subseteq Nat
PROOF
<1>1. shown[c] \in Seq(Places) /\ folded[c] \subseteq Places /\ buf[c] \in Seq(Places)
  BY DEF Types, Channels
<1>2. Range(shown[c]) \subseteq Places /\ Range(buf[c]) \subseteq Places
  BY <1>1 DEF Range
<1> QED BY <1>1, <1>2, SentTypes

\* A loading client's screen, when the file grows
LEMMA MovedPrefix ==
    ASSUME Types, OnDisk, Queued, SentGrows, DiskGrows, NEW c \in Clients, Prefix(c),
           shown'[c] = shown[c], folded'[c] = folded[c], hw'[c] = hw[c], cutoff'[c] = cutoff[c],
           load'[c] \in Early => load[c] \in Early
    PROVE  Prefix(c)'
PROOF
<1>1. \A r \in Range(shown[c]) \cup folded[c] : r \in Nat /\ r \in Places
  BY RangesKept
<1>2. \A r \in Range(shown[c]) : Row(r)' /\ Id(r)' = Id(r) /\ Id(r) <= cutoff[c]
  BY <1>1, RowsKept DEF Prefix
<1>3. \A f \in folded[c] : Fold(f)' /\ Id(f)' = Id(f) /\ Id(f) <= cutoff[c]
  BY <1>1, RowsKept DEF Prefix
<1>4. cutoff[c] # NoSeq => \E r \in Range(shown[c]) : cutoff[c] = Id(r)'
  BY <1>2 DEF Prefix
<1>5. Increasing(shown[c]) /\ hw[c] = NoSeq /\ (load[c] \in Early => shown[c] = <<>> /\ folded[c] = {})
  BY DEF Prefix
<1>6. /\ \A r \in Range(shown'[c]) : Row(r)' /\ Id(r)' <= cutoff'[c]
      /\ \A f \in folded'[c] : Fold(f)' /\ Id(f)' <= cutoff'[c]
  BY <1>2, <1>3
<1>7. Increasing(shown[c])'
  BY <1>5 DEF Increasing
<1> QED BY <1>4, <1>5, <1>6, <1>7 DEF Prefix

\* Put together: a step that leaves c's transcript alone and, if it moves the load on,
\* sends no replay.
LEMMA MovedLoad ==
    ASSUME Types, OnDisk, Queued, SentGrows, DiskGrows, NEW c \in Clients, InLoad(c),
           Stages', load'[c] # "failed", NEW d \in {0, 1}, Moved(c, d),
           shown'[c] = shown[c], folded'[c] = folded[c], hw'[c] = hw[c], cutoff'[c] = cutoff[c],
           off'[c] = off[c], delta'[c] = delta[c],
           load'[c] \in Early => load[c] \in Early,
           load'[c] \in Between => load[c] \in Between,
           load'[c] \in After => load[c] \in After /\ mark'[c] = mark[c]
    PROVE  /\ Prefix(c)' /\ Replays(c)' /\ Offset(c)' /\ Delta(c)' /\ Cutover(c)'
           /\ buf'[c] = buf[c] => Backlog(c)'
PROOF
<1>1. Prefix(c) /\ Backlog(c) /\ Replays(c) /\ Offset(c) /\ Delta(c) /\ Cutover(c)
  BY DEF InLoad
<1>2. Prefix(c)' /\ Replays(c)' /\ Offset(c)' /\ Delta(c)'
  BY <1>1, MovedPrefix, MovedReplays, MovedOffset, MovedDelta
<1>3. Cutover(c)'
  <2>1. CASE load'[c] \in After
    <3>1. delta[c] <= Len(disk)
      BY <1>1, <2>1 DEF Delta
    <3> QED BY <1>1, <3>1, MovedCutover
  <2>2. CASE load'[c] \notin After
    BY <2>2 DEF Stages, Cutover, After
  <2> QED BY <2>1, <2>2
<1>4. buf'[c] = buf[c] => Backlog(c)'
  BY <1>1, MovedBacklog
<1> QED BY <1>2, <1>3, <1>4

-----------------------------------------------------------------------------
(* The load, step by step *)

\* Only a request starts a load; only its own client's steps end one.
LEMMA LoadingStep ==
    ASSUME Types, [Next]_vars, NEW c \in Loading'
    PROVE  c \in Clients /\ (c \in Loading \/ RequestLoad(c))
PROOF
<1>0. loading \subseteq Clients
  BY DEF Types, TypeOK
<1>1. ASSUME NEW d \in Clients, RequestLoad(d)
      PROVE  c \in Clients /\ (c \in Loading \/ RequestLoad(c))
  <2>1. loading' = loading \cup {d} /\ degraded' = degraded
    BY <1>1 DEF RequestLoad, history
  <2> QED BY <1>0, <1>1, <2>1 DEF Loading
<1>2. ASSUME NEW d \in Clients, Disconnect(d)
      PROVE  c \in Clients /\ (c \in Loading \/ RequestLoad(c))
  <2>1. loading' = loading \ {d} /\ degraded' = degraded \ {d}
    BY <1>2 DEF Disconnect
  <2> QED BY <1>0, <2>1 DEF Loading
<1>3. ASSUME loading' \subseteq loading, degraded \subseteq degraded'
      PROVE  c \in Clients /\ (c \in Loading \/ RequestLoad(c))
  BY <1>0, <1>3 DEF Loading
<1>4. ASSUME NEW d \in Clients, Agent(d)
      PROVE  loading' \subseteq loading /\ degraded \subseteq degraded'
  BY <1>4, AgentMoves
<1>5. ASSUME NEW u \in Notifications, NEW open \in BOOLEAN, Emit(u, open)
      PROVE  loading' \subseteq loading /\ degraded \subseteq degraded'
  BY <1>5 DEF Emit, leaderVars
<1>6. ASSUME Persist \/ RouteLive \/ RouteReplay \/ Quiet
      PROVE  loading' \subseteq loading /\ degraded \subseteq degraded'
  BY <1>6 DEF Persist, PersistUpdate, PersistFlush, RouteLive, RouteReplay, Quiet, leaderVars,
              history
<1>7. ASSUME RouteResponse
      PROVE  loading' \subseteq loading /\ degraded \subseteq degraded'
  <2>1. PICK d \in Clients : /\ degraded' = degraded
                             /\ loading' = loading \ {d} \/ loading' = loading
    BY <1>7, ResponseRouted
  <2> QED BY <2>1
<1> QED
  BY <1>1, <1>2, <1>3, <1>4, <1>5, <1>6, <1>7, StepCases DEF Route

\* A client that asks for the session has seen nothing of it.
LEMMA RequestInLoad ==
    ASSUME Types, OnDisk, Attendance, Stages, NEW c \in Clients, RequestLoad(c)
    PROVE  InLoad(c)'
PROOF
<1>1. /\ conn[c] = "new" /\ load' = [load EXCEPT ![c] = "requested"]
      /\ UNCHANGED <<sent, chan, pend, disk, acked, off, wire, buf, cutoff, shown, folded,
                     hw, mark>>
  BY DEF RequestLoad, sessionVars, diskVars, pagerVars, history
<1>2. /\ load[c] = "none" /\ c \notin subs /\ c \notin loading
      /\ shown[c] = <<>> /\ folded[c] = {} /\ hw[c] = NoSeq /\ cutoff[c] = NoSeq
      /\ <<c, 2>> \notin acked
  BY <1>1 DEF Attendance, Awaits
<1>3. load'[c] = "requested" /\ buf[c] = <<>>
  BY <1>1, <1>2 DEF Types, TypeOK
<1>4. \A k \in DOMAIN wire : ~ReplayAt(k, c) /\ ~ResponseAt(k, c)
  BY <1>2 DEF Stages, Between, After
<1>5. \A k \in DOMAIN wire' : ~ReplayAt(k, c)' /\ ~ResponseAt(k, c)'
  BY <1>1, <1>4 DEF ReplayAt, ResponseAt
<1>7. Prefix(c)'
  <2>1. shown'[c] = <<>> /\ folded'[c] = {} /\ hw'[c] = NoSeq /\ cutoff'[c] = NoSeq
    BY <1>1, <1>2
  <2>2. Range(shown'[c]) = {} /\ Increasing(shown[c])'
    BY <2>1 DEF Range, Increasing
  <2> QED BY <2>1, <2>2 DEF Prefix
<1>8. Backlog(c)'
  <2>1. Range(buf'[c]) = {} /\ Increasing(buf[c])'
    BY <1>1, <1>3 DEF Range, Increasing
  <2> QED BY <2>1 DEF Backlog
<1>9. Replays(c)' /\ Cutover(c)'
  BY <1>5 DEF Replays, Cutover
<1>10. Offset(c)' /\ Delta(c)' /\ Flushed(c)'
  BY <1>1, <1>2, <1>3 DEF Offset, Delta, Flushed, Between, After
<1> QED BY <1>7, <1>8, <1>9, <1>10 DEF InLoad

\* The session sends an update.
LEMMA EmitInLoad ==
    ASSUME Types, OnDisk, Queued, SentGrows, DiskGrows, Stages',
           NEW u \in Notifications, NEW open \in BOOLEAN, Emit(u, open),
           NEW c \in Clients, load'[c] # "failed", InLoad(c)
    PROVE  InLoad(c)'
PROOF
<1>1. /\ UNCHANGED <<load, off, mark, delta, acked, buf, cutoff, shown, folded, hw>>
      /\ Count' = Count + 1 /\ Count \in Nat
  BY EmitWire DEF Emit, agentVars, leaderVars, pagerVars
<1>2. Moved(c, 0)
  <2>1. /\ \A k \in DOMAIN wire : k \in DOMAIN wire' /\ wire'[k] = wire[k] /\ k \in Nat
        /\ \A k \in DOMAIN wire' : k \in DOMAIN wire
              \/ (k \in Nat /\ wire'[k].kind = "live" /\ wire'[k].event = Count)
    BY EmitWire
  <2> QED BY <1>1, <2>1 DEF Moved, ReplayAt, ResponseAt, LiveAt
<1>3. ChanMoved(c, 0)
  <2> DEFINE m == Update(Count, u.kind = "text")
             S == Updates \cup Flushes \cup {m}
  <2>1. chan' = Append(chan, m) /\ m \in S /\ m.kind = "update" /\ m.hi = Count
    BY <1>1 DEF Emit, Update
  <2>2. chan \in Seq(S)
    <3>1. chan \in Seq(Updates \cup Flushes) /\ Updates \cup Flushes \subseteq S
      BY DEF Types, Channels
    <3> HIDE DEF S
    <3> QED BY <3>1, SeqGrows
  <2> HIDE DEF m, S
  <2>3. /\ chan' \in Seq(S)
        /\ \A k \in DOMAIN chan : k \in DOMAIN chan' /\ chan'[k] = chan[k]
        /\ chan'[Len(chan')] = m
        /\ \A k \in DOMAIN chan' : k \in DOMAIN chan \/ k = Len(chan')
    BY <2>1, <2>2, AppendedOne
  <2>4. \A k \in DOMAIN chan' : k \in Nat /\ k + 0 = k
    BY <2>3
  <2> QED BY <2>1, <2>3, <2>4 DEF ChanMoved, FlushAt
<1>4. 0 \in {0, 1} /\ Flushed(c)
  BY DEF InLoad
<1>5. Flushed(c)'
  BY <1>1, <1>3, <1>4, MovedFlushed
<1>6. Prefix(c)' /\ Replays(c)' /\ Offset(c)' /\ Delta(c)' /\ Cutover(c)' /\ Backlog(c)'
  BY <1>1, <1>2, <1>4, MovedLoad
<1> QED BY <1>5, <1>6 DEF InLoad

\* The persistence actor takes a message: if it is the second flush of the load, all
\* that was sent before it is in the file.
LEMMA PersistInLoad ==
    ASSUME Types, Types', OnDisk, Queued, SentGrows, Attendance, Stages',
           Persist, NEW c \in Clients, load'[c] # "failed", InLoad(c)
    PROVE  InLoad(c)'
PROOF
<1>1. /\ UNCHANGED <<sent, load, off, mark, delta, wire, buf, cutoff, shown, folded, hw>>
      /\ chan # <<>> /\ chan' = Tail(chan)
  BY DEF Persist, PersistUpdate, PersistFlush, sessionVars, agentVars, leaderVars, pagerVars, history
<1>2. DiskGrows /\ (PersistFlush => Written' = Merged)
  BY PersistDisk
<1>3. Moved(c, 0)
  <2>1. \A k \in DOMAIN wire : k \in Nat /\ k + 0 = k /\ k - 0 = k
    BY WireTypes
  <2> QED BY <1>1, <2>1 DEF Moved
<1>4. /\ 1 \in DOMAIN chan /\ Head(chan) = chan[1]
      /\ \A k \in DOMAIN chan' : k \in Nat /\ k + 1 \in DOMAIN chan /\ chan'[k] = chan[k + 1]
      /\ \A k \in DOMAIN chan : k \in Nat
  <2>1. chan \in Seq(Updates \cup Flushes)
    BY DEF Types, Channels
  <2> QED BY <1>1, <2>1, Taken
<1>5. ChanMoved(c, 1)
  BY <1>4 DEF ChanMoved
<1>9. Prefix(c)' /\ Replays(c)' /\ Offset(c)' /\ Delta(c)' /\ Cutover(c)' /\ Backlog(c)'
  <2>1. 0 \in {0, 1}
    OBVIOUS
  <2> QED BY <1>1, <1>2, <1>3, <2>1, MovedLoad
<1>6. ASSUME <<c, 2>> \in acked'
      PROVE  <<c, 2>> \in acked \/ (PersistFlush /\ FlushAt(1, c) /\ load[c] = "wait2")
  <2>1. CASE PersistUpdate
    BY <1>6, <2>1 DEF PersistUpdate
  <2>2. CASE PersistFlush
    <3>1. /\ acked' = acked \cup {f \in {<<Head(chan).client, Head(chan).n>>} : Awaits(f[1], f[2])}
          /\ Head(chan).kind = "flush"
      BY <2>2 DEF PersistFlush
    <3>2. <<c, 2>> \in acked \/ (Head(chan).client = c /\ Head(chan).n = 2 /\ Awaits(c, 2))
      BY <1>6, <3>1
    <3> QED BY <1>4, <2>2, <3>1, <3>2 DEF FlushAt, Awaits
  <2> QED BY <2>1, <2>2 DEF Persist
<1>7. CASE <<c, 2>> \in acked' => <<c, 2>> \in acked
  <2>1. 1 \in {0, 1} /\ Flushed(c)
    BY DEF InLoad
  <2>2. Flushed(c)'
    BY <1>1, <1>2, <1>5, <1>7, <2>1, MovedFlushed
  <2> QED BY <1>9, <2>2 DEF InLoad
<1>8. CASE PersistFlush /\ FlushAt(1, c) /\ load[c] = "wait2"
  <2>1. mark[c] <= Written'
    <3>1. /\ mark[c] <= Count
          /\ \A j \in DOMAIN chan : 1 < j /\ chan[j].kind = "update" => mark[c] <= chan[j].hi
      BY <1>4, <1>8 DEF InLoad, Flushed
    <3>2. Merged <= Count /\ \A e \in Merged .. Count - 1 :
             \E i \in DOMAIN chan : chan[i].kind = "update" /\ chan[i].hi = e
      BY DEF Queued
    <3>3. Merged \in Nat /\ Count \in Nat /\ mark[c] \in Nat /\ Written' = Merged
      BY <1>2, <1>8, DiskTypes DEF Types, Channels
    <3>4. ASSUME Merged < mark[c]
          PROVE  FALSE
      <4>1. Merged \in Merged .. Count - 1
        BY <3>1, <3>3, <3>4
      <4>2. PICK i \in DOMAIN chan : chan[i].kind = "update" /\ chan[i].hi = Merged
        BY <3>2, <4>1
      <4>3. i # 1 /\ i \in 1 .. Len(chan) /\ Len(chan) \in Nat
        BY <1>8, <4>2, ChanTypes DEF FlushAt
      <4>4. mark[c] <= Merged
        BY <3>1, <4>2, <4>3
      <4> QED BY <3>3, <3>4, <4>4
    <3> QED BY <3>3, <3>4
  <2>2. Flushed(c)'
    <3>1. mark[c] <= Count /\ Count' = Count
      BY <1>1, <1>8, SameSent DEF InLoad, Flushed
    <3>2. ASSUME NEW i \in DOMAIN chan', NEW j \in DOMAIN chan', i < j, FlushAt(i, c)',
                 chan'[j].kind = "update"
          PROVE  mark[c] <= chan'[j].hi
      <4>1. FlushAt(i + 1, c) /\ i + 1 \in DOMAIN chan /\ j + 1 \in DOMAIN chan /\ i + 1 < j + 1
            /\ chan[j + 1].kind = "update" /\ chan'[j] = chan[j + 1]
        BY <1>4, <3>2 DEF FlushAt
      <4>2. mark[c] <= chan[j + 1].hi
        BY <1>8, <4>1 DEF InLoad, Flushed
      <4> QED BY <4>1, <4>2
    <3> QED BY <1>1, <2>1, <3>1, <3>2 DEF Flushed
  <2> QED BY <1>9, <2>2 DEF InLoad
<1> QED BY <1>6, <1>7, <1>8

\* A step of load_session leaves the reads of the other loads alone.
LEMMA OtherReads ==
    ASSUME Types, NEW d \in Clients, Agent(d), NEW c \in Clients, c # d
    PROVE  off'[c] = off[c] /\ mark'[c] = mark[c] /\ delta'[c] = delta[c] /\ acked' \subseteq acked
PROOF
<1>1. DOMAIN off = Clients /\ DOMAIN mark = Clients /\ DOMAIN delta = Clients
  BY DEF Types, TypeOK, Channels
<1>2. off' = off \/ off' = [off EXCEPT ![d] = Len(disk)]
  BY DEF Agent, LoadStart, FlushComplete, FlushTimeout, Flushed1, LoadFails, Replay, DeltaReplay,
         OpenGate, Respond
<1>3. mark' = mark \/ mark' = [mark EXCEPT ![d] = Count]
  BY DEF Agent, LoadStart, FlushComplete, FlushTimeout, Flushed1, LoadFails, Replay, DeltaReplay,
         OpenGate, Respond, history
<1>4. delta' = delta \/ delta' = [delta EXCEPT ![d] = Len(disk)]
  BY DEF Agent, LoadStart, FlushComplete, FlushTimeout, Flushed1, LoadFails, Replay, DeltaReplay,
         OpenGate, Respond, history
<1>5. acked' \subseteq acked
  BY DEF Agent, LoadStart, FlushComplete, FlushTimeout, Flushed1, LoadFails, Replay, DeltaReplay,
         OpenGate, Respond, diskVars
<1> QED BY <1>1, <1>2, <1>3, <1>5, <1>4

\* What the load of another client does is none of c's business.
LEMMA OtherInLoad ==
    ASSUME Types, OnDisk, Queued, SentGrows, DiskGrows, Stages',
           NEW d \in Clients, Agent(d), NEW c \in Clients, c # d, load'[c] # "failed", InLoad(c)
    PROVE  InLoad(c)'
PROOF
<1>1. UNCHANGED <<sent, buf, cutoff, shown, folded, hw>> /\ load'[c] = load[c]
  BY AgentMoves
<1>2. off'[c] = off[c] /\ mark'[c] = mark[c] /\ delta'[c] = delta[c] /\ acked' \subseteq acked
  BY OtherReads
<1>3. Moved(c, 0)
  <2>1. /\ \A k \in DOMAIN wire : k \in DOMAIN wire' /\ wire'[k] = wire[k] /\ k \in Nat
        /\ \A k \in DOMAIN wire' : k \in DOMAIN wire
              \/ (k \in Nat /\ wire'[k].client = d /\ wire'[k].kind \in {"replay", "response"})
    BY AgentWire
  <2> QED BY <2>1 DEF Moved, ReplayAt, ResponseAt, LiveAt
<1>4. ChanMoved(c, 0)
  <2>1. CASE chan' = chan
    BY <2>1, ChanTypes DEF ChanMoved
  <2>2. ASSUME NEW n \in {1, 2}, chan' = Append(chan, FlushAndAck(d, n))
        PROVE  ChanMoved(c, 0)
    <3> DEFINE m == FlushAndAck(d, n)
    <3>1. m \in Updates \cup Flushes /\ m.kind = "flush" /\ m.client = d
      BY NewMessages DEF FlushAndAck
    <3>2. chan' = Append(chan, m) /\ chan \in Seq(Updates \cup Flushes)
      BY <2>2 DEF Types, Channels
    <3> HIDE DEF m
    <3>3. /\ chan' \in Seq(Updates \cup Flushes)
          /\ \A k \in DOMAIN chan : k \in DOMAIN chan' /\ chan'[k] = chan[k]
          /\ chan'[Len(chan')] = m
          /\ \A k \in DOMAIN chan' : k \in DOMAIN chan \/ k = Len(chan')
      BY <3>1, <3>2, AppendedOne
    <3>4. \A k \in DOMAIN chan' : k \in Nat /\ k + 0 = k
      BY <3>3
    <3> QED BY <3>1, <3>3, <3>4 DEF ChanMoved, FlushAt
  <2>3. chan' = chan \/ \E n \in {1, 2} : chan' = Append(chan, FlushAndAck(d, n))
    BY DEF Agent, LoadStart, FlushComplete, FlushTimeout, Flushed1, LoadFails, Replay, DeltaReplay,
           OpenGate, Respond, diskVars
  <2> QED BY <2>1, <2>2, <2>3
<1>5. 0 \in {0, 1} /\ Flushed(c)
  BY DEF InLoad
<1>6. Flushed(c)'
  BY <1>1, <1>2, <1>4, <1>5, MovedFlushed
<1>7. Prefix(c)' /\ Replays(c)' /\ Offset(c)' /\ Delta(c)' /\ Cutover(c)' /\ Backlog(c)'
  BY <1>1, <1>2, <1>3, <1>5, MovedLoad
<1> QED BY <1>6, <1>7 DEF InLoad

\* The load moves on without a replay; a timeout or a failure would be recorded.
LEMMA OnwardInLoad ==
    ASSUME Types, OnDisk, Queued, SentGrows, DiskGrows, Attendance, Attendance', Stages, Stages',
           NEW c \in Clients, Agent(c), ~Replay(c), ~DeltaReplay(c), c \notin degraded',
           load'[c] # "failed", InLoad(c)
    PROVE  InLoad(c)'
PROOF
<1>0. load \in [Clients -> Loads] /\ mark \in [Clients -> Nat] /\ Count \in Nat
  <2>1. load \in [Clients -> Loads]
    BY DEF Types, TypeOK
  <2>2. mark \in [Clients -> Nat]
    BY DEF Types, Channels
  <2> QED BY <2>1, <2>2, DiskTypes
<1>1. LoadStart(c) \/ FlushComplete(c) \/ Flushed1(c) \/ OpenGate(c) \/ Respond(c)
  BY DEF Agent, FlushTimeout, LoadFails
<1>2. UNCHANGED <<sent, buf, cutoff, shown, folded, hw>> /\ off' = off /\ delta' = delta
  BY <1>1, AgentMoves DEF LoadStart, FlushComplete, Flushed1, OpenGate, Respond, history
<1>3. /\ load'[c] \in Early => load[c] \in Early
      /\ load'[c] \in Between => load[c] \in Between
      /\ load'[c] \in After => load[c] \in After /\ mark'[c] = mark[c]
  BY <1>0, <1>1 DEF LoadStart, FlushComplete, Flushed1, OpenGate, Respond, At, Early, Between,
                    After, history
<1>4. Moved(c, 0)
  <2>1. /\ \A k \in DOMAIN wire : k \in DOMAIN wire' /\ wire'[k] = wire[k] /\ k \in Nat
        /\ \A k \in DOMAIN wire' : k \in DOMAIN wire
              \/ (k \in Nat /\ wire'[k].kind = "response" /\ \A j \in DOMAIN wire' : j <= k)
    BY AgentWire
  <2> QED BY <2>1 DEF Moved, ReplayAt, ResponseAt, LiveAt
<1>5. 0 \in {0, 1}
  OBVIOUS
<1>6. Prefix(c)' /\ Replays(c)' /\ Offset(c)' /\ Delta(c)' /\ Cutover(c)' /\ Backlog(c)'
  BY <1>2, <1>3, <1>4, <1>5, MovedLoad
<1>7. <<c, 2>> \notin acked'
  <2>1. <<c, 2>> \in acked => load[c] = "wait2"
    BY DEF Attendance, Awaits
  <2>2. acked' \subseteq acked /\ load[c] # "wait2"
    BY <1>1 DEF LoadStart, FlushComplete, Flushed1, OpenGate, Respond, At, diskVars
  <2> QED BY <2>1, <2>2
<1>8. ASSUME load'[c] = "wait2"
      PROVE  /\ mark'[c] <= Count'
             /\ \A i, j \in DOMAIN chan' :
                   i < j /\ FlushAt(i, c)' /\ chan'[j].kind = "update" => mark'[c] <= chan'[j].hi
  <2>1. /\ load[c] = "flush2" /\ chan' = Append(chan, FlushAndAck(c, 2))
        /\ mark' = [mark EXCEPT ![c] = Count]
    BY <1>0, <1>1, <1>8 DEF LoadStart, FlushComplete, Flushed1, OpenGate, Respond, At
  <2> DEFINE m == FlushAndAck(c, 2)
  <2>2. m \in Updates \cup Flushes /\ chan' = Append(chan, m) /\ chan \in Seq(Updates \cup Flushes)
    BY <2>1, NewMessages DEF Types, Channels
  <2> HIDE DEF m
  <2>3. /\ Len(chan) \in Nat /\ Len(chan') = Len(chan) + 1
        /\ \A k \in DOMAIN chan : k \in DOMAIN chan' /\ chan'[k] = chan[k] /\ k <= Len(chan)
        /\ \A k \in DOMAIN chan' : k \in DOMAIN chan \/ k = Len(chan')
    BY <2>2, AppendedOne
  <2>4. \A i \in DOMAIN chan : ~FlushAt(i, c)
    BY <2>1 DEF Stages, After
  <2>5. \A i \in DOMAIN chan' : FlushAt(i, c)' => i = Len(chan')
    BY <2>3, <2>4 DEF FlushAt
  <2>6. \A j \in DOMAIN chan' : j <= Len(chan')
    <3>1. \A j \in DOMAIN chan : j \in Nat
      BY <2>2
    <3> QED BY <2>3, <3>1
  <2>7. \A j \in DOMAIN chan' : j \in Nat
    BY <2>2
  <2>8. mark'[c] = Count /\ Count' = Count
    BY <1>0, <1>2, <2>1, SameSent
  <2> QED BY <1>0, <2>5, <2>6, <2>7, <2>8
<1>9. Flushed(c)'
  BY <1>7, <1>8 DEF Flushed
<1> QED BY <1>6, <1>9 DEF InLoad

\* The lines of the file behind the n-th hold what follows it, without a gap.
LEMMA FileFrom ==
    ASSUME Types, OnDisk, NEW n \in 0 .. Len(disk)
    PROVE  /\ \A j \in DOMAIN disk : n < j => DiskEnd(n) <= disk[j].lo
           /\ \A j \in DOMAIN disk : disk[j].lo <= disk[j].hi /\ disk[j].hi < Written
           /\ \A e \in DiskEnd(n) .. Written - 1 : \E j \in DOMAIN disk : n < j /\ Covers(disk[j], e)
PROOF
<1>1. /\ Len(disk) \in Nat /\ DOMAIN disk = 1 .. Len(disk)
      /\ \A i \in DOMAIN disk : disk[i].lo \in Nat /\ disk[i].hi \in Nat
      /\ DiskEnd(n) \in Nat /\ Written \in Nat
  BY DiskTypes
<1>2. /\ \A i \in DOMAIN disk : disk[i].lo <= disk[i].hi
      /\ \A i, j \in DOMAIN disk : i < j => disk[i].hi < disk[j].lo
      /\ \A i \in DOMAIN disk : \A e \in 0 .. disk[i].hi :
            \E j \in DOMAIN disk : Covers(disk[j], e)
  BY DEF OnDisk, InFile
<1>3. ASSUME NEW j \in DOMAIN disk, n < j
      PROVE  DiskEnd(n) <= disk[j].lo
  <2>1. CASE n = 0
    BY <1>1, <2>1 DEF DiskEnd
  <2>2. CASE n # 0
    <3>1. n \in DOMAIN disk /\ disk[n].hi < disk[j].lo /\ DiskEnd(n) = disk[n].hi + 1
      BY <1>1, <1>2, <1>3, <2>2 DEF DiskEnd
    <3> QED BY <1>1, <3>1
  <2> QED BY <2>1, <2>2
<1>4. ASSUME NEW j \in DOMAIN disk
      PROVE  disk[j].hi < Written
  <2>1. Len(disk) \in DOMAIN disk /\ Written = disk[Len(disk)].hi + 1
    BY <1>1 DEF Written, DiskEnd
  <2>2. CASE j = Len(disk)
    BY <1>1, <2>1, <2>2
  <2>3. CASE j # Len(disk)
    <3>1. disk[j].hi < disk[Len(disk)].lo /\ disk[Len(disk)].lo <= disk[Len(disk)].hi
      BY <1>1, <1>2, <2>1, <2>3
    <3> QED BY <1>1, <2>1, <3>1
  <2> QED BY <2>2, <2>3
<1>5. ASSUME NEW e \in DiskEnd(n) .. Written - 1
      PROVE  \E j \in DOMAIN disk : n < j /\ Covers(disk[j], e)
  <2>1. Len(disk) \in DOMAIN disk /\ Written = disk[Len(disk)].hi + 1
    BY <1>1, <1>5 DEF Written, DiskEnd
  <2>2. e \in 0 .. disk[Len(disk)].hi
    BY <1>1, <2>1
  <2>3. PICK j \in DOMAIN disk : Covers(disk[j], e)
    BY <1>2, <2>1, <2>2
  <2>4. ASSUME ~(n < j)
        PROVE  FALSE
    <3>1. n \in DOMAIN disk /\ DiskEnd(n) = disk[n].hi + 1
      BY <1>1, <2>4 DEF DiskEnd
    <3>2. disk[j].hi <= disk[n].hi
      <4>1. CASE j = n
        BY <1>1, <3>1, <4>1
      <4>2. CASE j # n
        <5>1. disk[j].hi < disk[n].lo /\ disk[n].lo <= disk[n].hi
          BY <1>1, <1>2, <2>4, <3>1, <4>2
        <5> QED BY <1>1, <3>1, <5>1
      <4> QED BY <4>1, <4>2
    <3>3. e <= disk[j].hi /\ disk[n].hi + 1 <= e
      BY <1>1, <2>3, <3>1 DEF Covers
    <3> QED BY <1>1, <3>1, <3>2, <3>3
  <2> QED BY <2>3, <2>4
<1> QED BY <1>2, <1>3, <1>4, <1>5

\* A line that is not text is one update.
LEMMA LineSingle ==
    ASSUME Types, Stamps, Texts, NEW i \in DOMAIN disk, NEW p, Covers(disk[i], p), p \in Nat
    PROVE  /\ p \in Places /\ disk[i].hi \in Places /\ disk[i].lo \in Nat
           /\ Kind(p) = Kind(disk[i].hi) /\ Id(p) <= Id(disk[i].hi)
           /\ Kind(p) # "text" => p = disk[i].hi
PROOF
<1>1. disk[i].lo \in Nat /\ disk[i].hi \in Places /\ disk[i].hi \in Nat
  BY LineTypes, SentTypes
<1>2. p \in disk[i].lo .. disk[i].hi
  BY <1>1 DEF Covers
<1>3. p \in Places /\ Kind(p) = Kind(disk[i].hi) /\ Id(p) <= Id(disk[i].hi)
  BY <1>2, LineKinds
<1>4. ASSUME Kind(p) # "text"
      PROVE  p = disk[i].hi
  <2>1. disk[i].lo = disk[i].hi
    BY <1>2, <1>4 DEF Texts, Uniform
  <2> QED BY <1>1, <1>2, <2>1
<1> QED BY <1>1, <1>3, <1>4

\* What a read behind the n-th line sends, in terms of the file
Forwards(n)   == {j \in n + 1 .. Len(disk) : Kind(disk[j].hi) \notin {"call", "progress"}}
FoldsOf(n, j) == {disk[i].hi : i \in {k \in n + 1 .. j - 1 :
                     Kind(disk[k].hi) = "call" /\ Completes(disk[j].hi, disk[k].hi)}}
ReadLine(c, n, j) == Targeted(c, disk[j], FoldsOf(n, j))

LEMMA ReadIndices ==
    ASSUME NEW n \in Nat, NEW m \in Nat, n <= m
    PROVE  /\ \A i \in 1 .. m - n : n + i \in n + 1 .. m
           /\ \A j \in n + 1 .. m : j - n \in 1 .. m - n /\ n + (j - n) = j
           /\ \A j \in 1 .. m - n : /\ \A k \in 1 .. j - 1 : k \in 1 .. m - n /\ n + k \in n + 1 .. n + j - 1
                                    /\ \A k \in n + 1 .. n + j - 1 :
                                          k - n \in 1 .. j - 1 /\ k - n \in 1 .. m - n /\ n + (k - n) = k
  OBVIOUS

LEMMA ReadFolds ==
    ASSUME Types, NEW n \in 0 .. Len(disk), NEW ls, DOMAIN ls = 1 .. Len(disk) - n,
           \A i \in DOMAIN ls : ls[i] = disk[n + i]
    PROVE  /\ \A j \in DOMAIN ls : Folds(ls, j) = FoldsOf(n, n + j)
           /\ \A j \in DOMAIN ls : n + j \in n + 1 .. Len(disk)
           /\ \A j \in DOMAIN ls : j \in Forwarded(ls) <=> n + j \in Forwards(n)
           /\ \A j \in Forwards(n) : j - n \in Forwarded(ls) /\ n + (j - n) = j /\ j - n \in DOMAIN ls
PROOF
<1>0. Len(disk) \in Nat
  BY DiskTypes
<1>1. PICK m \in Nat : m = Len(disk)
  BY <1>0
<1>2. n \in Nat /\ n <= m /\ n \in 0 .. m /\ DOMAIN ls = 1 .. m - n
  BY <1>1
<1>3. /\ \A i \in 1 .. m - n : n + i \in n + 1 .. m
      /\ \A j \in n + 1 .. m : j - n \in 1 .. m - n /\ n + (j - n) = j
      /\ \A j \in 1 .. m - n : /\ \A k \in 1 .. j - 1 : k \in 1 .. m - n /\ n + k \in n + 1 .. n + j - 1
                               /\ \A k \in n + 1 .. n + j - 1 :
                                     k - n \in 1 .. j - 1 /\ k - n \in 1 .. m - n /\ n + (k - n) = k
  BY <1>2, ReadIndices
<1>4. \A j \in DOMAIN ls : n + j \in n + 1 .. m
  BY <1>2, <1>3
<1>5. \A j \in DOMAIN ls : j \in Forwarded(ls) <=> n + j \in Forwards(n)
  BY <1>1, <1>4 DEF Forwarded, Forwards
<1>6. ASSUME NEW j \in Forwards(n)
      PROVE  j - n \in Forwarded(ls) /\ n + (j - n) = j /\ j - n \in DOMAIN ls
  <2>1. j \in n + 1 .. m
    BY <1>1 DEF Forwards
  <2>2. j - n \in DOMAIN ls /\ n + (j - n) = j
    BY <1>2, <1>3, <2>1
  <2> QED BY <1>5, <2>2
<1>7. ASSUME NEW j \in DOMAIN ls
      PROVE  Folds(ls, j) = FoldsOf(n, n + j)
  <2>1. j \in 1 .. m - n /\ ls[j] = disk[n + j]
    BY <1>2
  <2>2. ASSUME NEW f \in Folds(ls, j)
        PROVE  f \in FoldsOf(n, n + j)
    <3>1. PICK k \in 1 .. j - 1 : /\ f = ls[k].hi /\ Kind(ls[k].hi) = "call"
                                  /\ Kind(ls[j].hi) = "done" /\ sent[ls[j].hi + 1].of = Id(ls[k].hi)
      BY <2>2 DEF Folds
    <3>2. k \in DOMAIN ls /\ n + k \in n + 1 .. n + j - 1
      BY <1>2, <1>3, <2>1
    <3>3. PICK i \in n + 1 .. n + j - 1 : i = n + k
      BY <3>2
    <3>4. f = disk[i].hi /\ Kind(disk[i].hi) = "call" /\ Completes(disk[n + j].hi, disk[i].hi)
      BY <2>1, <3>1, <3>2, <3>3 DEF Completes
    <3> DEFINE K == {h \in n + 1 .. n + j - 1 :
                        Kind(disk[h].hi) = "call" /\ Completes(disk[n + j].hi, disk[h].hi)}
    <3>5. i \in K
      BY <3>4
    <3>6. FoldsOf(n, n + j) = {disk[h].hi : h \in K}
      BY DEF FoldsOf
    <3> HIDE DEF K
    <3> QED BY <3>4, <3>5, <3>6
  <2>3. ASSUME NEW f \in FoldsOf(n, n + j)
        PROVE  f \in Folds(ls, j)
    <3>1. PICK k \in n + 1 .. n + j - 1 : /\ f = disk[k].hi /\ Kind(disk[k].hi) = "call"
                                          /\ Completes(disk[n + j].hi, disk[k].hi)
      <4> DEFINE K == {h \in n + 1 .. n + j - 1 :
                          Kind(disk[h].hi) = "call" /\ Completes(disk[n + j].hi, disk[h].hi)}
      <4>1. FoldsOf(n, n + j) = {disk[h].hi : h \in K}
        BY DEF FoldsOf
      <4>2. \A h \in K : /\ h \in n + 1 .. n + j - 1 /\ Kind(disk[h].hi) = "call"
                         /\ Completes(disk[n + j].hi, disk[h].hi)
        OBVIOUS
      <4> HIDE DEF K
      <4>3. PICK h \in K : f = disk[h].hi
        BY <2>3, <4>1
      <4> QED BY <4>2, <4>3
    <3>2. k - n \in 1 .. j - 1 /\ k - n \in DOMAIN ls /\ n + (k - n) = k
      BY <1>2, <1>3, <2>1
    <3>3. ls[k - n] = disk[k]
      BY <3>2
    <3>4. /\ f = ls[k - n].hi /\ Kind(ls[k - n].hi) = "call"
          /\ Kind(ls[j].hi) = "done" /\ sent[ls[j].hi + 1].of = Id(ls[k - n].hi)
      BY <2>1, <3>1, <3>3 DEF Completes
    <3> QED BY <3>2, <3>4 DEF Folds
  <2> QED BY <2>2, <2>3
<1> QED BY <1>1, <1>4, <1>5, <1>6, <1>7

\* The read, line by line
LEMMA ReadLines ==
    ASSUME Types, NEW c \in Clients, NEW n \in 0 .. Len(disk),
           NEW t, t = Replayed(c, SubSeq(disk, n + 1, Len(disk)))
    PROVE  /\ t \in Seq(Messages)
           /\ \A k \in DOMAIN t : \E j \in Forwards(n) : t[k] = ReadLine(c, n, j)
           /\ \A j \in Forwards(n) : \E k \in DOMAIN t : t[k] = ReadLine(c, n, j)
           /\ \A k, l \in DOMAIN t : k < l =>
                 \E i, j \in Forwards(n) : i < j /\ t[k] = ReadLine(c, n, i) /\ t[l] = ReadLine(c, n, j)
PROOF
<1> DEFINE ls == SubSeq(disk, n + 1, Len(disk))
<1>1. /\ Len(disk) \in Nat /\ DOMAIN disk = 1 .. Len(disk) /\ n \in Nat /\ n <= Len(disk)
  BY DiskTypes
<1>2. disk \in Seq(Lines)
  BY DEF Types, Channels
<1>3. /\ ls \in Seq(Lines) /\ DOMAIN ls = 1 .. Len(disk) - n
      /\ \A i \in DOMAIN ls : ls[i] = disk[n + i]
  BY <1>1, <1>2, SMTT(20)
<1>4. t = Replayed(c, ls)
  OBVIOUS
<1> HIDE DEF ls
<1>5. /\ t \in Seq(Messages)
      /\ \A k \in DOMAIN t : \E j \in Forwarded(ls) : t[k] = Targeted(c, ls[j], Folds(ls, j))
      /\ \A j \in Forwarded(ls) : \E k \in DOMAIN t : t[k] = Targeted(c, ls[j], Folds(ls, j))
      /\ \A k, l \in DOMAIN t : k < l =>
            \E i, j \in Forwarded(ls) :
                /\ i < j /\ t[k] = Targeted(c, ls[i], Folds(ls, i))
                /\ t[l] = Targeted(c, ls[j], Folds(ls, j))
  <2>1. ls \in Seq(Lines)
    BY <1>3
  <2> DEFINE r == Replayed(c, ls)
  <2>2. /\ r \in Seq(Messages)
        /\ \A k \in DOMAIN r : \E j \in Forwarded(ls) : r[k] = Targeted(c, ls[j], Folds(ls, j))
        /\ \A j \in Forwarded(ls) : \E k \in DOMAIN r : r[k] = Targeted(c, ls[j], Folds(ls, j))
        /\ \A k, l \in DOMAIN r : k < l =>
              \E i, j \in Forwarded(ls) :
                  /\ i < j /\ r[k] = Targeted(c, ls[i], Folds(ls, i))
                  /\ r[l] = Targeted(c, ls[j], Folds(ls, j))
    BY <2>1, ReplayedType, Zenon
  <2>3. t = r
    BY <1>4
  <2> HIDE DEF r
  <2> QED BY <2>2, <2>3
<1>6. /\ \A j \in DOMAIN ls : Folds(ls, j) = FoldsOf(n, n + j)
      /\ \A j \in DOMAIN ls : n + j \in n + 1 .. Len(disk)
      /\ \A j \in DOMAIN ls : j \in Forwarded(ls) <=> n + j \in Forwards(n)
      /\ \A j \in Forwards(n) : j - n \in Forwarded(ls) /\ n + (j - n) = j /\ j - n \in DOMAIN ls
  BY <1>3, ReadFolds
<1>7. \A j \in Forwarded(ls) : /\ j \in DOMAIN ls /\ n + j \in Forwards(n)
                               /\ Targeted(c, ls[j], Folds(ls, j)) = ReadLine(c, n, n + j)
  <2>1. \A j \in Forwarded(ls) : j \in DOMAIN ls
    BY DEF Forwarded
  <2> QED BY <1>3, <1>6, <2>1 DEF ReadLine
<1>8. \A k \in DOMAIN t : \E j \in Forwards(n) : t[k] = ReadLine(c, n, j)
  BY <1>5, <1>7
<1>9. ASSUME NEW j \in Forwards(n)
      PROVE  \E k \in DOMAIN t : t[k] = ReadLine(c, n, j)
  <2>1. j - n \in Forwarded(ls) /\ n + (j - n) = j
    BY <1>6
  <2>2. Targeted(c, ls[j - n], Folds(ls, j - n)) = ReadLine(c, n, j)
    BY <1>7, <2>1
  <2> QED BY <1>5, <2>1, <2>2
<1>10. ASSUME NEW k \in DOMAIN t, NEW l \in DOMAIN t, k < l
       PROVE  \E i, j \in Forwards(n) : i < j /\ t[k] = ReadLine(c, n, i) /\ t[l] = ReadLine(c, n, j)
  <2>1. PICK i \in Forwarded(ls), j \in Forwarded(ls) :
           /\ i < j /\ t[k] = Targeted(c, ls[i], Folds(ls, i))
           /\ t[l] = Targeted(c, ls[j], Folds(ls, j))
    BY <1>5, <1>10
  <2>2. i \in DOMAIN ls /\ j \in DOMAIN ls
    BY <1>7
  <2>3. i \in Nat /\ j \in Nat
    BY <1>1, <1>3, <2>2
  <2>4. n + i < n + j
    BY <1>1, <2>1, <2>3
  <2>5. /\ n + i \in Forwards(n) /\ n + j \in Forwards(n)
        /\ t[k] = ReadLine(c, n, n + i) /\ t[l] = ReadLine(c, n, n + j)
    BY <1>7, <2>1
  <2> QED BY <2>4, <2>5
<1> QED BY <1>5, <1>8, <1>9, <1>10

\* A line that is sent: it lies in the file behind the n-th, its calls before it.
LEMMA ReadLineSound ==
    ASSUME Types, Stamps, Texts, OnDisk, NEW c \in Clients, NEW n \in 0 .. Len(disk),
           NEW j \in Forwards(n), NEW l, l = ReadLine(c, n, j)
    PROVE  /\ j \in DOMAIN disk /\ l.kind = "replay" /\ l.client = c
           /\ l.lo = disk[j].lo /\ l.hi = disk[j].hi /\ l.folds = FoldsOf(n, j)
           /\ l.lo \in Nat /\ l.hi \in Places /\ l.folds \subseteq Places
           /\ DiskEnd(n) <= l.lo /\ l.hi < Written /\ Sendable(l)
           /\ \A f \in l.folds : f < Written
PROOF
<1>1. /\ Len(disk) \in Nat /\ DOMAIN disk = 1 .. Len(disk) /\ n \in Nat /\ n <= Len(disk)
      /\ DiskEnd(n) \in Nat /\ Written \in Nat
  BY DiskTypes
<1>2. j \in DOMAIN disk /\ n < j /\ Kind(disk[j].hi) \notin {"call", "progress"}
  BY <1>1 DEF Forwards
<1>3. /\ l.kind = "replay" /\ l.client = c
      /\ l.lo = disk[j].lo /\ l.hi = disk[j].hi /\ l.folds = FoldsOf(n, j)
  BY DEF ReadLine, Targeted
<1>4. \A i \in DOMAIN disk : /\ disk[i].lo \in Nat /\ disk[i].hi \in Places
                             /\ disk[i].lo <= disk[i].hi /\ disk[i].hi < Written
  BY LineTypes, FileFrom
<1>5. DiskEnd(n) <= disk[j].lo
  BY <1>2, FileFrom
<1>6. Places \subseteq Nat
  BY SentTypes
<1>7. ASSUME NEW f \in FoldsOf(n, j)
      PROVE  f \in Places /\ f < Written /\ Fold(f) /\ Id(f) <= Id(disk[j].hi)
  <2>1. PICK i \in n + 1 .. j - 1 : /\ f = disk[i].hi /\ Kind(disk[i].hi) = "call"
                                    /\ Completes(disk[j].hi, disk[i].hi)
    BY <1>7 DEF FoldsOf
  <2>2. i \in DOMAIN disk
    BY <1>1, <1>2
  <2>3. f \in Places /\ f < Written /\ Kind(f) = "call" /\ disk[j].hi \in Places
    BY <1>2, <1>4, <2>1, <2>2
  <2>4. Id(f) < Id(disk[j].hi)
    BY <2>1, <2>3, CallBeforeDone
  <2>5. Id(f) \in Nat /\ Id(disk[j].hi) \in Nat
    BY <2>3, SentTypes
  <2> QED BY <2>3, <2>4, <2>5 DEF Fold
<1>8. ASSUME NEW p \in disk[j].lo .. disk[j].hi
      PROVE  Row(p) /\ Id(p) <= Id(disk[j].hi)
  <2>1. disk[j].lo \in Nat /\ disk[j].hi \in Nat /\ disk[j].hi < Written /\ Written \in Nat
    BY <1>1, <1>2, <1>4, <1>6
  <2>2. p < Written
    BY <2>1
  <2>3. Kind(p) = Kind(disk[j].hi) /\ Id(p) <= Id(disk[j].hi)
    BY <1>2, LineKinds
  <2> QED BY <1>2, <2>2, <2>3 DEF Row
<1>9. Sendable(l)
  BY <1>2, <1>3, <1>4, <1>7, <1>8 DEF Sendable
<1> QED BY <1>2, <1>3, <1>4, <1>5, <1>7, <1>9

\* What a read does not send, it keeps back.
LEMMA ReadOrWithheld ==
    ASSUME Types, Stamps, Texts, OnDisk, Queued, NEW n \in 0 .. Len(disk),
           NEW p \in DiskEnd(n) .. Written - 1
    PROVE  \/ \E j \in Forwards(n) : Covers(disk[j], p) \/ p \in FoldsOf(n, j)
           \/ Withheld(DiskEnd(n), Written, p)
PROOF
<1>1. /\ Len(disk) \in Nat /\ DOMAIN disk = 1 .. Len(disk) /\ n \in Nat /\ n <= Len(disk)
      /\ DiskEnd(n) \in Nat /\ Written \in Nat /\ p \in Nat
  BY DiskTypes
<1>2. \A q \in DiskEnd(n) .. Written - 1 : \E j \in DOMAIN disk : n < j /\ Covers(disk[j], q)
  BY FileFrom
<1>3. PICK j \in DOMAIN disk : n < j /\ Covers(disk[j], p)
  BY <1>2
<1>4. p \in Places /\ Kind(p) = Kind(disk[j].hi) /\ (Kind(p) # "text" => p = disk[j].hi)
  BY <1>1, <1>3, LineSingle
<1>5. CASE Kind(p) \notin {"call", "progress"}
  <2>1. j \in n + 1 .. Len(disk)
    BY <1>1, <1>3
  <2>2. j \in Forwards(n)
    BY <1>4, <1>5, <2>1 DEF Forwards
  <2> QED BY <1>3, <2>2
<1>6. CASE Kind(p) = "progress"
  BY <1>6 DEF Withheld
<1>7. CASE Kind(p) = "call"
  <2>1. ASSUME NEW q \in DiskEnd(n) .. Written - 1, Completes(q, p)
        PROVE  \E i \in Forwards(n) : p \in FoldsOf(n, i)
    <3>1. PICK i \in DOMAIN disk : n < i /\ Covers(disk[i], q)
      BY <1>2
    <3>2. q \in Nat /\ Kind(q) = "done"
      BY <1>1, <2>1 DEF Completes
    <3>3. q \in Places /\ Kind(q) = Kind(disk[i].hi) /\ q = disk[i].hi
      BY <3>1, <3>2, LineSingle
    <3>4. p < q /\ p = disk[j].hi
      BY <1>4, <1>7, <2>1, <3>3, CallBeforeDone
    <3>5. j < i
      <4>1. \A a, b \in DOMAIN disk : a < b => disk[a].hi < disk[b].hi
        <5>1. /\ \A a, b \in DOMAIN disk : a < b => disk[a].hi < disk[b].lo
              /\ \A a \in DOMAIN disk : disk[a].lo <= disk[a].hi
          BY DEF OnDisk, InFile
        <5>2. \A a \in DOMAIN disk : disk[a].lo \in Nat /\ disk[a].hi \in Nat
          BY DiskTypes
        <5> QED BY <5>1, <5>2
      <4>2. ~(i < j) /\ i # j
        BY <1>1, <3>2, <3>3, <3>4, <4>1
      <4>3. i \in Nat /\ j \in Nat
        BY <1>1
      <4> QED BY <4>2, <4>3
    <3>6. i \in n + 1 .. Len(disk) /\ j \in n + 1 .. i - 1
      BY <1>1, <1>3, <3>1, <3>5
    <3>7. i \in Forwards(n)
      BY <3>2, <3>3, <3>6 DEF Forwards
    <3> DEFINE K == {k \in n + 1 .. i - 1 :
                        Kind(disk[k].hi) = "call" /\ Completes(disk[i].hi, disk[k].hi)}
    <3>8. j \in K
      BY <1>7, <2>1, <3>3, <3>4, <3>6
    <3>9. FoldsOf(n, i) = {disk[k].hi : k \in K}
      BY DEF FoldsOf
    <3> HIDE DEF K
    <3>10. p \in FoldsOf(n, i)
      BY <3>4, <3>8, <3>9
    <3> QED BY <3>7, <3>10
  <2>2. CASE \A q \in DiskEnd(n) .. Written - 1 : ~Completes(q, p)
    BY <1>7, <2>2 DEF Withheld
  <2> QED BY <2>1, <2>2
<1>8. Kind(p) = "call" \/ Kind(p) = "progress" \/ Kind(p) \notin {"call", "progress"}
  OBVIOUS
<1> QED BY <1>5, <1>6, <1>7, <1>8

SendsFrom(c, n) == wire' = wire \o Replayed(c, SubSeq(disk, n + 1, Len(disk)))

\* The lines behind the n-th are sent to a client that has nothing of them.
LEMMA LinesSent ==
    ASSUME Types, Stamps, Texts, OnDisk, Queued, NEW c \in Clients, NEW n \in 0 .. Len(disk),
           SendsFrom(c, n), UNCHANGED <<sent, disk>>, shown'[c] = shown[c], folded'[c] = folded[c],
           Replays(c), Below(c, DiskEnd(n))
    PROVE  /\ Replays(c)' /\ Below(c, Written)' /\ \A p : Got(c, p) => Got(c, p)'
           /\ \A p \in DiskEnd(n) .. Written - 1 :
                 Got(c, p)' \/ Withheld(DiskEnd(n), Written, p)
PROOF
<1> DEFINE t == Replayed(c, SubSeq(disk, n + 1, Len(disk)))
<1>1. /\ Len(disk) \in Nat /\ DOMAIN disk = 1 .. Len(disk) /\ n \in Nat /\ n <= Len(disk)
      /\ DiskEnd(n) \in Nat /\ Written \in Nat /\ DiskEnd(n) <= Written
  BY DiskTypes, EndsBelow
<1>2. /\ t \in Seq(Messages)
      /\ \A k \in DOMAIN t : \E j \in Forwards(n) : t[k] = ReadLine(c, n, j)
      /\ \A j \in Forwards(n) : \E k \in DOMAIN t : t[k] = ReadLine(c, n, j)
      /\ \A k, l \in DOMAIN t : k < l =>
            \E i, j \in Forwards(n) : i < j /\ t[k] = ReadLine(c, n, i) /\ t[l] = ReadLine(c, n, j)
  BY ReadLines
<1>3. wire \in Seq(Messages) /\ wire' = wire \o t
  BY WireTypes DEF SendsFrom
<1> HIDE DEF t
<1>4. /\ wire' \in Seq(Messages) /\ Len(wire) \in Nat /\ Len(wire') = Len(wire) + Len(t)
      /\ \A k \in DOMAIN wire : k \in DOMAIN wire' /\ wire'[k] = wire[k] /\ k <= Len(wire)
      /\ \A i \in DOMAIN t : Len(wire) + i \in DOMAIN wire' /\ wire'[Len(wire) + i] = t[i]
      /\ \A k \in DOMAIN wire' : k \in DOMAIN wire
            \/ /\ k \notin DOMAIN wire /\ k > Len(wire)
               /\ k - Len(wire) \in DOMAIN t /\ wire'[k] = t[k - Len(wire)]
  <2>1. t \in Seq(Messages)
    BY <1>2
  <2> QED BY <1>3, <2>1, Appended
<1>5. DOMAIN wire = 1 .. Len(wire) /\ \A k \in DOMAIN wire' : k \in Nat
  <2>1. wire' \in Seq(Messages)
    BY <1>4
  <2> QED BY <2>1, WireTypes
\* A message is an old one or a line of the read
<1>6. \A k \in DOMAIN wire' :
         \/ k \in DOMAIN wire /\ wire'[k] = wire[k] /\ k <= Len(wire)
         \/ k > Len(wire) /\ \E j \in Forwards(n) : wire'[k] = ReadLine(c, n, j)
  BY <1>2, <1>4
<1>7. ASSUME NEW j \in Forwards(n)
      PROVE  \E k \in DOMAIN wire' : wire'[k] = ReadLine(c, n, j)
  <2>1. PICK i \in DOMAIN t : t[i] = ReadLine(c, n, j)
    BY <1>2
  <2> QED BY <1>4, <2>1
<1>8. ASSUME NEW k \in DOMAIN wire', NEW l \in DOMAIN wire', k < l, Len(wire) < k
      PROVE  \E i, j \in Forwards(n) : i < j /\ wire'[k] = ReadLine(c, n, i) /\ wire'[l] = ReadLine(c, n, j)
  <2>1. k \notin DOMAIN wire /\ l \notin DOMAIN wire
    BY <1>4, <1>5, <1>8
  <2>2. /\ k - Len(wire) \in DOMAIN t /\ wire'[k] = t[k - Len(wire)]
        /\ l - Len(wire) \in DOMAIN t /\ wire'[l] = t[l - Len(wire)]
    BY <1>4, <2>1
  <2>3. k - Len(wire) < l - Len(wire)
    BY <1>4, <1>5, <1>8
  <2> QED BY <1>2, <2>2, <2>3
<1>9. \A p : Id(p)' = Id(p) /\ Kind(p)' = Kind(p)
  BY SameSent
<1>10. Written' = Written
  BY DEF Written, DiskEnd
<1>11. \A l : Sendable(l) => Sendable(l)'
  BY <1>9, <1>10 DEF Sendable, Row, Fold
\* What the client had, it has
<1>12. ASSUME NEW p, Got(c, p)
       PROVE  Got(c, p)'
  <2>1. CASE p \in Range(shown[c]) \cup folded[c]
    BY <2>1 DEF Got
  <2>2. ASSUME NEW k \in DOMAIN wire, ReplayAt(k, c), Covers(wire[k], p) \/ p \in wire[k].folds
        PROVE  Got(c, p)'
    <3>1. k \in DOMAIN wire' /\ ReplayAt(k, c)' /\ (Covers(wire'[k], p) \/ p \in wire'[k].folds)
      BY <1>4, <2>2 DEF ReplayAt
    <3> QED BY <3>1 DEF Got, Covers
  <2> QED BY <1>12, <2>1, <2>2 DEF Got
\* It gets what the read sends
<1>13. ASSUME NEW p \in DiskEnd(n) .. Written - 1
       PROVE  Got(c, p)' \/ Withheld(DiskEnd(n), Written, p)
  <2>1. ASSUME NEW j \in Forwards(n), Covers(disk[j], p) \/ p \in FoldsOf(n, j)
        PROVE  Got(c, p)'
    <3>1. PICK k \in DOMAIN wire' : wire'[k] = ReadLine(c, n, j)
      BY <1>7
    <3>2. /\ wire'[k].kind = "replay" /\ wire'[k].client = c
          /\ wire'[k].lo = disk[j].lo /\ wire'[k].hi = disk[j].hi /\ wire'[k].folds = FoldsOf(n, j)
      BY <3>1, ReadLineSound
    <3>3. ReplayAt(k, c)' /\ (Covers(wire'[k], p) \/ p \in wire'[k].folds)
      BY <2>1, <3>2 DEF ReplayAt, Covers
    <3> QED BY <3>3 DEF Got, Covers
  <2> QED BY <2>1, ReadOrWithheld
\* The old lines
<1>14. ASSUME NEW k \in DOMAIN wire, ReplayAt(k, c)
       PROVE  /\ wire[k].hi < DiskEnd(n) /\ wire[k].hi \in Nat /\ Sendable(wire[k])
              /\ \A r \in Range(shown[c]) : r < wire[k].lo
              /\ \A f \in wire[k].folds : f < DiskEnd(n) /\ f \in Nat
              /\ \A l \in DOMAIN wire : k < l /\ ReplayAt(l, c) => wire[k].hi < wire[l].lo
  <2>1. wire[k].hi \in Nat /\ wire[k].folds \subseteq Nat
    BY <1>14, WireTypes, SentTypes DEF ReplayAt
  <2> QED BY <1>14, <2>1 DEF Replays, Below
<1>15. \A r \in Range(shown[c]) \cup folded[c] : r \in Nat /\ r < DiskEnd(n)
  BY RangesKept DEF Below
\* The new ones
<1>16. ASSUME NEW k \in DOMAIN wire', NEW j \in Forwards(n), wire'[k] = ReadLine(c, n, j)
       PROVE  /\ Sendable(wire'[k]) /\ DiskEnd(n) <= wire'[k].lo /\ wire'[k].lo \in Nat
              /\ wire'[k].hi < Written /\ \A f \in wire'[k].folds : f < Written
              /\ wire'[k].lo = disk[j].lo /\ wire'[k].hi = disk[j].hi /\ j \in DOMAIN disk
              /\ \A r \in Range(shown[c]) : r < wire'[k].lo
  <2>1. /\ j \in DOMAIN disk /\ wire'[k].lo = disk[j].lo /\ wire'[k].hi = disk[j].hi
        /\ wire'[k].lo \in Nat /\ DiskEnd(n) <= wire'[k].lo /\ wire'[k].hi < Written
        /\ Sendable(wire'[k]) /\ \A f \in wire'[k].folds : f < Written
    BY <1>16, ReadLineSound
  <2>2. \A r \in Range(shown[c]) : r < wire'[k].lo
    BY <1>1, <1>15, <2>1
  <2> QED BY <2>1, <2>2
<1>17. Below(c, Written)'
  <2>1. \A r \in Range(shown[c]) \cup folded[c] : r < Written
    BY <1>1, <1>15
  <2>2. ASSUME NEW k \in DOMAIN wire', ReplayAt(k, c)'
        PROVE  wire'[k].hi < Written /\ \A f \in wire'[k].folds : f < Written
    <3>1. CASE k \in DOMAIN wire /\ wire'[k] = wire[k]
      <4>1. ReplayAt(k, c)
        BY <2>2, <3>1 DEF ReplayAt
      <4>2. /\ wire[k].hi < DiskEnd(n) /\ wire[k].hi \in Nat
            /\ \A f \in wire[k].folds : f < DiskEnd(n) /\ f \in Nat
        BY <1>14, <3>1, <4>1
      <4> QED BY <1>1, <3>1, <4>2
    <3>2. CASE \E j \in Forwards(n) : wire'[k] = ReadLine(c, n, j)
      BY <1>16, <3>2
    <3> QED BY <1>6, <3>1, <3>2
  <2> QED BY <1>10, <2>1, <2>2 DEF Below
<1>18. ASSUME NEW k \in DOMAIN wire', ReplayAt(k, c)'
       PROVE  /\ Sendable(wire'[k]) /\ \A r \in Range(shown[c]) : r < wire'[k].lo
              /\ \A l \in DOMAIN wire' : k < l /\ ReplayAt(l, c)' => wire'[k].hi < wire'[l].lo
  <2>1. CASE k \in DOMAIN wire /\ wire'[k] = wire[k] /\ k <= Len(wire)
    <3>1. ReplayAt(k, c)
      BY <1>18, <2>1 DEF ReplayAt
    <3>2. ASSUME NEW l \in DOMAIN wire', k < l, ReplayAt(l, c)'
          PROVE  wire'[k].hi < wire'[l].lo
      <4>1. CASE l \in DOMAIN wire /\ wire'[l] = wire[l]
        <5>1. ReplayAt(l, c)
          BY <3>2, <4>1 DEF ReplayAt
        <5> QED BY <1>14, <2>1, <3>1, <3>2, <4>1, <5>1
      <4>2. ASSUME NEW j \in Forwards(n), wire'[l] = ReadLine(c, n, j)
            PROVE  wire'[k].hi < wire'[l].lo
        <5>1. DiskEnd(n) <= wire'[l].lo /\ wire'[l].lo \in Nat
          BY <1>16, <4>2
        <5>2. wire'[k].hi < DiskEnd(n) /\ wire'[k].hi \in Nat
          BY <1>14, <2>1, <3>1
        <5> QED BY <1>1, <5>1, <5>2
      <4> QED BY <1>6, <4>1, <4>2
    <3> QED BY <1>14, <2>1, <3>1, <3>2
  <2>2. CASE Len(wire) < k /\ \E j \in Forwards(n) : wire'[k] = ReadLine(c, n, j)
    <3>1. ASSUME NEW l \in DOMAIN wire', k < l
          PROVE  wire'[k].hi < wire'[l].lo
      <4>1. PICK i \in Forwards(n), j \in Forwards(n) :
               i < j /\ wire'[k] = ReadLine(c, n, i) /\ wire'[l] = ReadLine(c, n, j)
        BY <1>8, <2>2, <3>1
      <4>2. /\ i \in DOMAIN disk /\ j \in DOMAIN disk
            /\ wire'[k].hi = disk[i].hi /\ wire'[l].lo = disk[j].lo
        BY <1>16, <4>1
      <4> QED BY <4>1, <4>2 DEF OnDisk, InFile
    <3> QED BY <1>16, <2>2, <3>1
  <2>3. k <= Len(wire) \/ Len(wire) < k
    BY <1>4, <1>5
  <2> QED BY <1>6, <2>1, <2>2
<1>19. Replays(c)'
  <2>1. ASSUME NEW k \in DOMAIN wire', ReplayAt(k, c)'
        PROVE  Sendable(wire[k])'
    <3>1. PICK l : l = wire'[k]
      OBVIOUS
    <3>2. Sendable(l)'
      BY <1>11, <1>18, <2>1, <3>1
    <3> QED BY <3>1, <3>2
  <2> QED BY <1>18, <2>1 DEF Replays
<1> QED BY <1>12, <1>13, <1>17, <1>19

\* What the two reads of a load kept back
LEMMA BothReads ==
    ASSUME Types, Stamps, NEW a \in Nat, NEW b \in Nat, a <= b, b <= Count, NEW p \in 0 .. b - 1,
           (p < a /\ Withheld(0, a, p)) \/ (a <= p /\ Withheld(a, b, p))
    PROVE  \/ Kind(p) = "progress"
           \/ Kind(p) = "call" /\ \A q \in 0 .. b - 1 : Completes(q, p) => p < a /\ a <= q
PROOF
<1>1. p \in Places /\ p \in Nat /\ \A q \in 0 .. b - 1 : q \in Places /\ q \in Nat
  BY SentTypes DEF Places
<1>2. ASSUME Kind(p) = "call", NEW q \in 0 .. b - 1, Completes(q, p)
      PROVE  p < a /\ a <= q
  <2>1. p < q
    BY <1>1, <1>2, CallBeforeDone
  <2>2. CASE p < a /\ Withheld(0, a, p)
    <3>1. ~(q \in 0 .. a - 1)
      BY <1>2, <2>2 DEF Withheld
    <3> QED BY <1>1, <2>2, <3>1
  <2>3. CASE a <= p /\ Withheld(a, b, p)
    <3>1. q \in a .. b - 1
      BY <1>1, <2>1, <2>3
    <3> QED BY <1>2, <2>3, <3>1 DEF Withheld
  <2> QED BY <2>2, <2>3
<1>3. Kind(p) = "progress" \/ Kind(p) = "call"
  BY DEF Withheld
<1> QED BY <1>2, <1>3

\* The replay sends the file, the delta replay what was appended since.
LEMMA ReplayInLoad ==
    ASSUME Types, Stamps, Texts, OnDisk, Queued, SentGrows, DiskGrows, Attendance, Attendance',
           Stages, NEW c \in Clients, Replay(c) \/ DeltaReplay(c), InLoad(c)
    PROVE  InLoad(c)'
PROOF
<1>0. load \in [Clients -> Loads] /\ off \in [Clients -> Nat] /\ delta \in [Clients -> Nat]
  BY DEF Types, TypeOK, Channels
<1>1. /\ UNCHANGED <<sent, chan, pend, disk, mark, buf, cutoff, shown, folded, hw>>
      /\ acked' \subseteq acked
  BY DEF Replay, DeltaReplay, sessionVars, diskVars, leaderVars, pagerVars, history
<1>2. Prefix(c) /\ Backlog(c) /\ Replays(c) /\ Offset(c) /\ Flushed(c)
  BY DEF InLoad
<1>3. load[c] \in {"read", "wait2"} /\ load'[c] \in {"flush2", "open"}
  BY <1>0 DEF Replay, DeltaReplay, At
<1>4. /\ Written' = Written /\ Written \in Nat /\ Len(disk) \in Nat /\ Written <= Count /\ Count \in Nat
      /\ \A n \in 0 .. Len(disk) : DiskEnd(n) \in Nat /\ DiskEnd(n) <= Written
  BY <1>1, FileKept, DiskTypes, EndsBelow
<1>5. Agent(c)
  BY DEF Agent
<1>6. Backlog(c)'
  <2>1. \A k \in DOMAIN wire' : LiveAt(k)' => k \in DOMAIN wire /\ LiveAt(k) /\ wire'[k] = wire[k]
    BY <1>5, AgentWire DEF LiveAt
  <2> QED BY <1>1, <1>2, <2>1 DEF Backlog, Increasing
<1>7. Cutover(c)'
  <2>1. \A k \in DOMAIN wire : ~ResponseAt(k, c)
    BY <1>3 DEF Stages
  <2>2. \A k \in DOMAIN wire' : ~ResponseAt(k, c)'
    BY <1>3, <1>5, <2>1, AgentWire DEF ResponseAt
  <2> QED BY <2>2 DEF Cutover
<1>8. Flushed(c)'
  <2>1. load'[c] # "wait2" /\ <<c, 2>> \notin acked'
    BY <1>3 DEF Attendance, Awaits
  <2> QED BY <2>1 DEF Flushed
<1>9. Prefix(c)'
  <2>1. load'[c] \notin Early
    BY <1>3 DEF Early
  <2> QED BY <1>1, <1>2, <2>1, MovedPrefix
<1>10. \A p : Kind(p)' = Kind(p) /\ \A q : Completes(q, p)' <=> Completes(q, p)
  BY <1>1, SameSent DEF Completes
<1>11. ASSUME Replay(c)
       PROVE  Replays(c)' /\ Offset(c)' /\ Delta(c)'
  <2>1. load[c] = "read" /\ load'[c] = "flush2" /\ off'[c] = Len(disk)
    BY <1>0, <1>11 DEF Replay, At
  <2>2. SendsFrom(c, 0)
    <3>1. disk \in Seq(Lines)
      BY DEF Types, Channels
    <3>2. SubSeq(disk, 0 + 1, Len(disk)) = disk
      BY <3>1
    <3> QED BY <1>11, <3>2 DEF SendsFrom, Replay
  <2>3. Below(c, DiskEnd(0))
    <3>1. Range(shown[c]) = {} /\ folded[c] = {}
      BY <1>2, <2>1 DEF Prefix, Early, Range
    <3>2. \A k \in DOMAIN wire : ~ReplayAt(k, c)
      BY <2>1 DEF Stages, Between, After
    <3> QED BY <3>1, <3>2 DEF Below
  <2>4. DiskEnd(0) = 0
    BY DEF DiskEnd
  <2>5. /\ Replays(c)' /\ Below(c, Written)'
        /\ \A p \in 0 .. Written - 1 : Got(c, p)' \/ Withheld(0, Written, p)
    <3>1. 0 \in 0 .. Len(disk)
      BY <1>4
    <3>2. /\ Replays(c)' /\ Below(c, Written)'
          /\ \A p \in DiskEnd(0) .. Written - 1 : Got(c, p)' \/ Withheld(DiskEnd(0), Written, p)
      BY <1>1, <1>2, <2>2, <2>3, <3>1, LinesSent
    <3> QED BY <2>4, <3>2
  <2>6. DiskEnd(off[c])' = Written
    BY <1>1, <2>1 DEF DiskEnd, Written
  <2>7. PICK w : w = Written
    OBVIOUS
  <2>8. \A p \in 0 .. w - 1 : Got(c, p)' \/ Withheld(0, w, p)'
    BY <1>10, <2>5, <2>7 DEF Withheld
  <2>9. \A p \in 0 .. DiskEnd(off[c])' - 1 : Got(c, p)' \/ Withheld(0, DiskEnd(off[c]), p)'
    BY <2>6, <2>7, <2>8
  <2>10. Below(c, DiskEnd(off[c]))'
    BY <1>4, <2>5, <2>6
  <2>11. off'[c] <= Len(disk')
    BY <1>1, <1>4, <2>1
  <2>12. Offset(c)'
    BY <2>9, <2>10, <2>11 DEF Offset
  <2>13. Delta(c)'
    BY <2>1 DEF Delta, After
  <2> QED BY <2>5, <2>12, <2>13
<1>12. ASSUME DeltaReplay(c)
       PROVE  Replays(c)' /\ Offset(c)' /\ Delta(c)'
  <2>1. /\ load[c] = "wait2" /\ load'[c] = "open" /\ <<c, 2>> \in acked
        /\ off'[c] = off[c] /\ delta'[c] = Len(disk)
    BY <1>0, <1>12 DEF DeltaReplay, At
  <2>2. PICK n \in Nat : n = off[c]
    BY <1>0
  <2>3. /\ n <= Len(disk) /\ Below(c, DiskEnd(n))
        /\ \A p \in 0 .. DiskEnd(n) - 1 : Got(c, p) \/ Withheld(0, DiskEnd(n), p)
    BY <1>2, <2>1, <2>2 DEF Offset, Between
  <2>4. SendsFrom(c, n)
    BY <1>12, <2>2 DEF SendsFrom, DeltaReplay, DeltaLines
  <2>5. n \in 0 .. Len(disk)
    BY <1>4, <2>3
  <2>6. /\ Replays(c)' /\ Below(c, Written)' /\ \A p : Got(c, p) => Got(c, p)'
        /\ \A p \in DiskEnd(n) .. Written - 1 :
              Got(c, p)' \/ Withheld(DiskEnd(n), Written, p)
    BY <1>1, <1>2, <2>3, <2>4, <2>5, LinesSent
  <2>7. mark[c] <= Written /\ mark[c] \in Nat
    BY <1>2, <2>1 DEF Flushed, Types, Channels
  <2>8. PICK w \in Nat, o \in Nat : w = Written /\ o = DiskEnd(n) /\ o <= w /\ w <= Count
    BY <1>4, <2>5
  <2>9. DiskEnd(delta[c])' = w /\ DiskEnd(off[c])' = o
    BY <1>1, <2>1, <2>2, <2>8 DEF DiskEnd, Written
  <2>10. ASSUME NEW p \in 0 .. w - 1
         PROVE  Got(c, p)' \/ KeptBack(c, p)'
    <3>1. \/ Got(c, p)' \/ (p < o /\ Withheld(0, o, p)) \/ (o <= p /\ Withheld(o, w, p))
      <4>1. CASE p < o
        <5>1. p \in 0 .. DiskEnd(n) - 1
          BY <2>8, <4>1
        <5> QED BY <2>3, <2>6, <2>8, <4>1, <5>1
      <4>2. CASE o <= p
        <5>1. p \in DiskEnd(n) .. Written - 1
          BY <2>8, <4>2
        <5> QED BY <2>6, <2>8, <4>2, <5>1
      <4> QED BY <2>8, <4>1, <4>2
    <3>2. CASE (p < o /\ Withheld(0, o, p)) \/ (o <= p /\ Withheld(o, w, p))
      <4>1. \/ Kind(p) = "progress"
            \/ Kind(p) = "call" /\ \A q \in 0 .. w - 1 : Completes(q, p) => p < o /\ o <= q
        BY <2>8, <3>2, BothReads
      <4>2. \/ Kind(p)' = "progress"
            \/ Kind(p)' = "call" /\ \A q \in 0 .. w - 1 : Completes(q, p)' => p < o /\ o <= q
        BY <1>10, <4>1
      <4>3. p < w
        BY <2>8
      <4> QED BY <2>9, <4>2, <4>3 DEF KeptBack
    <3> QED BY <3>1, <3>2
  <2>11. Below(c, DiskEnd(delta[c]))'
    BY <1>4, <2>6, <2>8, <2>9
  <2>12. /\ off'[c] <= delta'[c] /\ delta'[c] <= Len(disk')
         /\ mark'[c] <= DiskEnd(delta[c])'
    BY <1>1, <1>4, <2>1, <2>2, <2>3, <2>7, <2>8, <2>9
  <2>13. \A p \in 0 .. DiskEnd(delta[c])' - 1 : Got(c, p)' \/ KeptBack(c, p)'
    BY <2>9, <2>10
  <2>14. Delta(c)'
    BY <2>11, <2>12, <2>13 DEF Delta
  <2>15. Offset(c)'
    BY <2>1 DEF Offset, Between
  <2> QED BY <2>6, <2>14, <2>15
<1> QED BY <1>6, <1>7, <1>8, <1>9, <1>11, <1>12 DEF InLoad

\* Another client comes or goes, or nothing happens.
LEMMA StillInLoad ==
    ASSUME Types, OnDisk, Queued, SentGrows, DiskGrows, Stages', NEW c \in Clients,
           load'[c] # "failed", InLoad(c),
           \/ \E d \in Clients \ {c} : RequestLoad(d) \/ Disconnect(d)
           \/ Quiet
    PROVE  InLoad(c)'
PROOF
<1>1. /\ UNCHANGED <<sent, wire, chan, acked, off, mark, delta>>
      /\ load'[c] = load[c] /\ buf'[c] = buf[c] /\ cutoff'[c] = cutoff[c]
      /\ shown'[c] = shown[c] /\ folded'[c] = folded[c] /\ hw'[c] = hw[c]
  <2>1. CASE Quiet
    BY <2>1 DEF Quiet
  <2>2. ASSUME NEW d \in Clients \ {c}, RequestLoad(d)
        PROVE  /\ UNCHANGED <<sent, wire, chan, acked, off, mark, delta>>
               /\ load'[c] = load[c] /\ buf'[c] = buf[c] /\ cutoff'[c] = cutoff[c]
               /\ shown'[c] = shown[c] /\ folded'[c] = folded[c] /\ hw'[c] = hw[c]
    <3>1. DOMAIN load = Clients
      BY DEF Types, TypeOK
    <3> QED BY <2>2, <3>1 DEF RequestLoad, sessionVars, diskVars, pagerVars, history
  <2>3. ASSUME NEW d \in Clients \ {c}, Disconnect(d)
        PROVE  /\ UNCHANGED <<sent, wire, chan, acked, off, mark, delta>>
               /\ load'[c] = load[c] /\ buf'[c] = buf[c] /\ cutoff'[c] = cutoff[c]
               /\ shown'[c] = shown[c] /\ folded'[c] = folded[c] /\ hw'[c] = hw[c]
    <3>1. /\ DOMAIN buf = Clients /\ DOMAIN cutoff = Clients /\ DOMAIN shown = Clients
          /\ DOMAIN hw = Clients /\ DOMAIN folded = Clients
      BY DEF Types, TypeOK, Channels
    <3> QED BY <2>3, <3>1 DEF Disconnect, sessionVars, diskVars, agentVars
  <2> QED BY <2>1, <2>2, <2>3
<1>2. Moved(c, 0)
  <2>1. \A k \in DOMAIN wire : k \in Nat /\ k + 0 = k /\ k - 0 = k
    BY WireTypes
  <2> QED BY <1>1, <2>1 DEF Moved
<1>3. ChanMoved(c, 0)
  <2>1. \A i \in DOMAIN chan : i \in Nat /\ i + 0 = i
    BY ChanTypes
  <2> QED BY <1>1, <2>1 DEF ChanMoved
<1>4. 0 \in {0, 1} /\ Flushed(c)
  BY DEF InLoad
<1>5. Flushed(c)'
  BY <1>1, <1>3, <1>4, MovedFlushed
<1>6. Prefix(c)' /\ Replays(c)' /\ Offset(c)' /\ Delta(c)' /\ Cutover(c)' /\ Backlog(c)'
  BY <1>1, <1>2, <1>4, MovedLoad
<1> QED BY <1>5, <1>6 DEF InLoad

\* A message that is no replay line for c passes the leader.
LEMMA PassedMoved ==
    ASSUME Types, Route, NEW c \in Clients, ~ReplayAt(1, c)
    PROVE  Moved(c, 1)
PROOF
<1>1. /\ \A k \in DOMAIN wire' : k \in Nat /\ k + 1 \in DOMAIN wire /\ wire'[k] = wire[k + 1]
      /\ \A k \in DOMAIN wire : k = 1 \/ (k - 1 \in DOMAIN wire' /\ wire'[k - 1] = wire[k])
  BY RouteWire
<1> QED BY <1>1 DEF Moved

\* A live update is held back for a client whose load is in order.
LEMMA LiveBacklog ==
    ASSUME Types, LiveOrder, RouteLive, NEW c \in Clients, Backlog(c),
           buf'[c] = Append(buf[c], wire[1].event)
    PROVE  Backlog(c)'
PROOF
<1>1. /\ 1 \in DOMAIN wire /\ Head(wire) = wire[1]
      /\ \A k \in DOMAIN wire' : /\ k \in Nat /\ 1 < k + 1
                                 /\ k + 1 \in DOMAIN wire /\ wire'[k] = wire[k + 1]
  BY RouteWire DEF Route
<1>2. LiveAt(1)
  BY <1>1 DEF RouteLive, LiveAt
<1>3. PICK e \in Places : e = wire[1].event
  BY <1>1, <1>2, WireTypes DEF LiveAt
<1>4. buf[c] \in Seq(Places) /\ Places \subseteq Nat
  BY SentTypes DEF Types, Channels
<1>5. buf[c] \in Seq(Nat) /\ e \in Nat
  BY <1>4, SeqGrows
<1> DEFINE s == buf[c]  r == buf'[c]
<1>6. s \in Seq(Nat) /\ r = Append(s, e)
  BY <1>3, <1>5
<1>7. /\ \A b \in Range(s) : b < e /\ \A k \in DOMAIN wire : LiveAt(k) => b < wire[k].event
      /\ Increasing(s)
  BY <1>1, <1>2, <1>3 DEF Backlog
<1>8. \A k \in DOMAIN wire' : LiveAt(k)' => LiveAt(k + 1) /\ e < wire'[k].event
  BY <1>1, <1>2, <1>3 DEF LiveOrder, LiveAt
<1> HIDE DEF s, r
<1>9. /\ r \in Seq(Nat) /\ Len(s) \in Nat /\ Len(r) = Len(s) + 1
      /\ \A k \in DOMAIN s : k \in DOMAIN r /\ r[k] = s[k] /\ k <= Len(s)
      /\ Len(r) \in DOMAIN r /\ r[Len(r)] = e /\ Len(r) \notin DOMAIN s
      /\ \A k \in DOMAIN r : k \in DOMAIN s \/ k = Len(r)
  BY <1>5, <1>6, AppendedOne
<1>10. \A b \in Range(r) : b \in Range(s) \/ b = e
  BY <1>9 DEF Range
<1>11. ASSUME NEW b \in Range(r), NEW k \in DOMAIN wire', LiveAt(k)'
       PROVE  b < wire'[k].event
  <2>1. LiveAt(k + 1) /\ e < wire'[k].event /\ k + 1 \in DOMAIN wire /\ wire'[k] = wire[k + 1]
    BY <1>1, <1>8, <1>11
  <2> QED BY <1>7, <1>10, <1>11, <2>1
<1>12. Increasing(r)
  <2> SUFFICES ASSUME NEW i \in DOMAIN r, NEW j \in DOMAIN r, i < j
               PROVE  r[i] < r[j]
    BY DEF Increasing
  <2>1. i \in Nat /\ j \in Nat /\ j <= Len(r)
    BY <1>9
  <2>2. i \in DOMAIN s
    BY <1>9, <2>1
  <2>3. CASE j \in DOMAIN s
    BY <1>7, <1>9, <2>2, <2>3 DEF Increasing
  <2>4. CASE j = Len(r)
    <3>1. r[i] = s[i] /\ s[i] \in Range(s)
      BY <1>9, <2>2 DEF Range
    <3> QED BY <1>7, <1>9, <2>4, <3>1
  <2> QED BY <1>9, <2>3, <2>4
<1> QED BY <1>11, <1>12 DEF Backlog, r, Increasing

\* A message for somebody else passes: a live update, or a replay line or a response
\* for another client.
LEMMA PassedInLoad ==
    ASSUME Types, OnDisk, Queued, SentGrows, DiskGrows, LiveOrder, Attendance, Stages', Route,
           NEW c \in Clients, c \in Loading, c \in Loading', load'[c] # "failed", InLoad(c),
           ~ReplayAt(1, c)
    PROVE  InLoad(c)'
PROOF
<1>1. Moved(c, 1) /\ 1 \in {0, 1} /\ 0 \in {0, 1}
  BY PassedMoved
<1>2. UNCHANGED <<sent, chan, acked, load, off, mark, delta>>
  BY DEF Route, RouteLive, RouteReplay, RouteResponse, sessionVars, diskVars, agentVars, history
<1>3. Flushed(c)'
  <2>1. \A i \in DOMAIN chan : i \in Nat /\ i + 0 = i
    BY ChanTypes
  <2>2. ChanMoved(c, 0) /\ Flushed(c)
    BY <1>2, <2>1 DEF ChanMoved, InLoad
  <2> QED BY <1>1, <1>2, <2>2, MovedFlushed
<1>4. c \in loading /\ c \in loading' /\ c \notin degraded'
  BY DEF Loading
<1>5. CASE RouteLive
  <2>1. cutoff' = cutoff /\ c \in subs /\ degraded' = degraded \cup {d \in subs \cap loading : ~Buffers(d)}
    BY <1>4, <1>5 DEF RouteLive, Types, TypeOK
  <2>2. Buffers(c)
    BY <1>4, <2>1
  <2>3. shown'[c] = shown[c] /\ folded'[c] = folded[c] /\ hw'[c] = hw[c]
    BY <1>5, <2>2, LiveShown DEF RouteLive
  <2>4. buf'[c] = Append(buf[c], wire[1].event)
    <3>1. PICK e \in Places : /\ Head(wire).event = e
                           /\ \A d \in Clients : buf'[d] = IF d \in subs /\ Buffers(d)
                                                           THEN Append(buf[d], e) ELSE buf[d]
      BY <1>5, LiveRouted
    <3>2. Head(wire) = wire[1]
      BY RouteWire
    <3> QED BY <2>1, <2>2, <3>1, <3>2
  <2>5. Backlog(c)'
    BY <1>5, <2>4, LiveBacklog DEF InLoad
  <2>6. Prefix(c)' /\ Replays(c)' /\ Offset(c)' /\ Delta(c)' /\ Cutover(c)'
    BY <1>1, <1>2, <2>1, <2>3, MovedLoad
  <2> QED BY <1>3, <2>5, <2>6 DEF InLoad
<1>6. CASE /\ shown'[c] = shown[c] /\ folded'[c] = folded[c] /\ hw'[c] = hw[c] /\ cutoff'[c] = cutoff[c]
           /\ buf'[c] = buf[c]
  <2>1. Prefix(c)' /\ Replays(c)' /\ Offset(c)' /\ Delta(c)' /\ Cutover(c)' /\ Backlog(c)'
    BY <1>1, <1>2, <1>6, MovedLoad
  <2> QED BY <1>3, <2>1 DEF InLoad
<1>7. ASSUME RouteReplay
      PROVE  /\ shown'[c] = shown[c] /\ folded'[c] = folded[c] /\ hw'[c] = hw[c]
             /\ cutoff'[c] = cutoff[c] /\ buf'[c] = buf[c]
  <2>1. PICK d \in Clients : /\ ReplayAt(1, d) /\ buf' = buf /\ hw' = hw
                             /\ d # c => /\ cutoff'[c] = cutoff[c] /\ shown'[c] = shown[c]
                                         /\ folded'[c] = folded[c]
    BY <1>7, ReplayRouted
  <2>2. d # c
    BY <2>1
  <2> QED BY <2>1, <2>2
<1>8. ASSUME RouteResponse
      PROVE  /\ shown'[c] = shown[c] /\ folded'[c] = folded[c] /\ hw'[c] = hw[c]
             /\ cutoff'[c] = cutoff[c] /\ buf'[c] = buf[c]
  <2>1. PICK d \in Clients : /\ folded' = folded
                             /\ d # c => /\ buf'[c] = buf[c] /\ cutoff'[c] = cutoff[c]
                                         /\ shown'[c] = shown[c] /\ hw'[c] = hw[c]
                             /\ d \in loading => loading' = loading \ {d}
    BY <1>8, ResponseRouted
  <2>2. d # c
    BY <1>4, <2>1
  <2> QED BY <2>1, <2>2
<1> QED BY <1>5, <1>6, <1>7, <1>8 DEF Route

\* One sequence behind another, index by index
Behind(s, t, r) ==
    /\ Len(s) \in Nat /\ Len(r) = Len(s) + Len(t)
    /\ \A k \in DOMAIN s : k \in DOMAIN r /\ r[k] = s[k] /\ k <= Len(s)
    /\ \A i \in DOMAIN t : Len(s) + i \in DOMAIN r /\ r[Len(s) + i] = t[i]
    /\ \A k \in DOMAIN r : k \in DOMAIN s
          \/ /\ k \notin DOMAIN s /\ k > Len(s)
             /\ k - Len(s) \in DOMAIN t /\ r[k] = t[k - Len(s)]

\* A transcript goes on with newer updates.
LEMMA GoesOn ==
    ASSUME NEW S, S \subseteq Nat, NEW s \in Seq(S), NEW t \in Seq(S), Increasing(s), Increasing(t),
           \A q \in Range(s), x \in Range(t) : q < x,
           NEW r \in Seq(S), Behind(s, t, r)
    PROVE  Range(r) = Range(s) \cup Range(t) /\ Increasing(r)
PROOF
<1>1. Range(r) = Range(s) \cup Range(t)
  <2>1. Range(r) \subseteq Range(s) \cup Range(t)
    BY DEF Range, Behind
  <2>2. Range(s) \subseteq Range(r)
    BY DEF Range, Behind
  <2>3. Range(t) \subseteq Range(r)
    BY DEF Range, Behind
  <2> QED BY <2>1, <2>2, <2>3
<1>2. Increasing(r)
  <2> SUFFICES ASSUME NEW i \in DOMAIN r, NEW j \in DOMAIN r, i < j
               PROVE  r[i] < r[j]
    BY DEF Increasing
  <2>1. /\ i \in Nat /\ j \in Nat /\ Len(s) \in Nat
        /\ \A k \in DOMAIN r : k \in DOMAIN s <=> k <= Len(s)
    BY DEF Behind
  <2>2. CASE j \in DOMAIN s
    <3>1. i \in DOMAIN s
      BY <2>1, <2>2
    <3>2. r[i] = s[i] /\ r[j] = s[j]
      BY <2>2, <3>1 DEF Behind
    <3> QED BY <2>2, <3>1, <3>2 DEF Increasing
  <2>3. CASE i \in DOMAIN s /\ j - Len(s) \in DOMAIN t /\ r[j] = t[j - Len(s)]
    <3>1. r[i] \in Range(s) /\ r[j] \in Range(t)
      BY <2>3 DEF Range, Behind
    <3> QED BY <3>1
  <2>4. CASE /\ i - Len(s) \in DOMAIN t /\ r[i] = t[i - Len(s)]
             /\ j - Len(s) \in DOMAIN t /\ r[j] = t[j - Len(s)]
    <3>1. i - Len(s) < j - Len(s)
      BY <2>1
    <3> QED BY <2>4, <3>1 DEF Increasing
  <2>5. \/ j \in DOMAIN s \/ (i \in DOMAIN s /\ j - Len(s) \in DOMAIN t /\ r[j] = t[j - Len(s)])
        \/ /\ i - Len(s) \in DOMAIN t /\ r[i] = t[i - Len(s)]
           /\ j - Len(s) \in DOMAIN t /\ r[j] = t[j - Len(s)]
    BY DEF Behind
  <2> QED BY <2>2, <2>3, <2>4, <2>5
<1> QED BY <1>1, <1>2

LEMMA AppendedRows ==
    ASSUME NEW S, S \subseteq Nat, NEW s \in Seq(S), NEW t \in Seq(S), Increasing(s), Increasing(t),
           \A q \in Range(s), x \in Range(t) : q < x, NEW r, r = s \o t
    PROVE  Range(r) = Range(s) \cup Range(t) /\ Increasing(r)
PROOF
<1>1. r \in Seq(S) /\ Behind(s, t, r)
  BY Appended DEF Behind
<1> QED BY <1>1, GoesOn, Zenon

\* The rows of a line behind a transcript that is older
LEMMA RowsShown ==
    ASSUME Types, NEW s \in Seq(Places), Increasing(s), NEW lo \in Nat, NEW hi \in Places,
           \A q \in Range(s) : q < lo, NEW r,
           r = s \o [i \in 1 .. hi - lo + 1 |-> lo + i - 1]
    PROVE  Range(r) = Range(s) \cup (lo .. hi) /\ Increasing(r)
PROOF
<1> DEFINE t == [i \in 1 .. hi - lo + 1 |-> lo + i - 1]
<1>1. t \in Seq(Places) /\ Range(t) = lo .. hi /\ Increasing(t)
  <2>1. Count \in Nat /\ hi \in 0 .. Count - 1
    BY SentTypes DEF Places
  <2> QED BY <2>1, RowsType DEF Places
<1>2. r = s \o t
  OBVIOUS
<1> HIDE DEF t
<1>3. t \in Seq(Places) /\ Increasing(t)
  BY <1>1
<1>4. Places \subseteq Nat /\ hi \in Nat
  BY SentTypes
<1>5. \A q \in Range(s), x \in Range(t) : q < x
  <2>1. \A q \in Range(s) : q \in Nat /\ q < lo
    <3>1. \A q \in Range(s) : q \in Places
      BY DEF Range
    <3> QED BY <1>4, <3>1
  <2>2. \A x \in Range(t) : x \in Nat /\ lo <= x
    BY <1>1, <1>4
  <2> QED BY <2>1, <2>2
<1>6. Range(r) = Range(s) \cup Range(t) /\ Increasing(r)
  BY <1>2, <1>3, <1>4, <1>5, AppendedRows
<1> QED BY <1>1, <1>6

\* A replay line reaches its client.
LEMMA LineInLoad ==
    ASSUME Types, OnDisk, Queued, SentGrows, DiskGrows, Attendance, Stages, RouteReplay,
           NEW c \in Clients, c \in Loading, InLoad(c), ReplayAt(1, c)
    PROVE  InLoad(c)'
PROOF
<1>1. /\ 1 \in DOMAIN wire
      /\ \A k \in DOMAIN wire' : /\ k \in Nat /\ 1 < k + 1
                                 /\ k + 1 \in DOMAIN wire /\ wire'[k] = wire[k + 1]
      /\ \A k \in DOMAIN wire : /\ k \in Nat
                                /\ k = 1 \/ (k - 1 \in DOMAIN wire' /\ wire'[k - 1] = wire[k])
  BY RouteWire DEF Route
<1>2. Prefix(c) /\ Backlog(c) /\ Replays(c) /\ Offset(c) /\ Flushed(c) /\ Delta(c) /\ Cutover(c)
  BY DEF InLoad
<1>3. c \in subs
  BY DEF Loading, Types, TypeOK
<1>4. /\ UNCHANGED <<sent, chan, pend, disk, acked, load, off, buf, hw, mark, delta>>
      /\ shown'[c] = shown[c] \o [i \in 1 .. wire[1].hi - wire[1].lo + 1 |-> wire[1].lo + i - 1]
      /\ folded'[c] = folded[c] \cup wire[1].folds
      /\ cutoff'[c] = IF Id(wire[1].hi) > cutoff[c] THEN Id(wire[1].hi) ELSE cutoff[c]
  <2>1. PICK d \in Clients :
           /\ ReplayAt(1, d)
           /\ UNCHANGED <<sent, chan, pend, disk, acked, load, off, buf, hw, mark, delta>>
           /\ d \in subs =>
                 /\ shown'[d] = shown[d] \o [i \in 1 .. wire[1].hi - wire[1].lo + 1 |-> wire[1].lo + i - 1]
                 /\ folded'[d] = folded[d] \cup wire[1].folds
                 /\ cutoff'[d] = IF Id(wire[1].hi) > cutoff[d] THEN Id(wire[1].hi) ELSE cutoff[d]
    BY ReplayRouted
  <2>2. d = c
    BY <2>1 DEF ReplayAt
  <2> QED BY <1>3, <2>1, <2>2
<1>5. PICK lo \in Nat, hi \in Places, F \in SUBSET Places :
         lo = wire[1].lo /\ hi = wire[1].hi /\ F = wire[1].folds
  BY <1>1, WireTypes DEF ReplayAt
<1>6. /\ lo <= hi /\ \A r \in Range(shown[c]) : r < lo
      /\ \A p \in lo .. hi : Row(p) /\ Id(p) <= Id(hi)
      /\ \A f \in F : Fold(f) /\ Id(f) <= Id(hi)
      /\ \A k \in DOMAIN wire : 1 < k /\ ReplayAt(k, c) => hi < wire[k].lo
  BY <1>1, <1>2, <1>5 DEF Replays, Sendable
<1>7. shown[c] \in Seq(Places) /\ Increasing(shown[c])
  BY <1>2 DEF Prefix, Types, Channels
<1>8. Range(shown'[c]) = Range(shown[c]) \cup (lo .. hi) /\ Increasing(shown'[c])
  <2> DEFINE s == shown[c]  r == shown'[c]
  <2>1. /\ s \in Seq(Places) /\ Increasing(s) /\ \A q \in Range(s) : q < lo
        /\ r = s \o [i \in 1 .. hi - lo + 1 |-> lo + i - 1]
    BY <1>4, <1>5, <1>6, <1>7
  <2> HIDE DEF s, r
  <2>2. Range(r) = Range(s) \cup (lo .. hi) /\ Increasing(r)
    BY <2>1, RowsShown, ZenonT(30)
  <2> QED BY <2>2 DEF s, r
<1>9. /\ Written' = Written /\ Written \in Nat /\ Places \subseteq Nat /\ hi \in lo .. hi
      /\ \A p : Id(p)' = Id(p) /\ Kind(p)' = Kind(p)
      /\ \A p : Row(p)' <=> Row(p)
      /\ \A p : Fold(p)' <=> Fold(p)
  <2>1. Written' = Written /\ Written \in Nat /\ Places \subseteq Nat
    BY <1>4, FileKept, DiskTypes, SentTypes
  <2>2. \A p : Id(p)' = Id(p) /\ Kind(p)' = Kind(p)
    BY <1>4, SameSent
  <2>3. hi \in lo .. hi
    BY <1>6, <2>1
  <2> QED BY <2>1, <2>2, <2>3 DEF Row, Fold
<1>10. Prefix(c)'
  <2>1. PICK a \in Nat \cup {NoSeq}, b \in Nat, z \in Nat \cup {NoSeq} :
           a = cutoff[c] /\ b = Id(hi) /\ z = (IF b > a THEN b ELSE a) /\ cutoff'[c] = z
    <3>1. Id(hi) \in Nat /\ cutoff[c] \in Nat \cup {NoSeq}
      BY SentTypes DEF Types, TypeOK
    <3>2. cutoff'[c] = (IF Id(hi) > cutoff[c] THEN Id(hi) ELSE cutoff[c])
      BY <1>4, <1>5
    <3> QED BY <3>1, <3>2
  <2>2. a <= z /\ b <= z /\ (z = b \/ z = a)
    BY <2>1 DEF NoSeq
  <2>3. \A r \in Range(shown[c]) \cup folded[c] \cup (lo .. hi) \cup F : Id(r) \in Nat
    <3>1. \A r \in Range(shown[c]) \cup folded[c] \cup F : Id(r) \in Nat
      BY RangesKept, SentTypes
    <3>2. \A r \in lo .. hi : r \in Places
      BY <1>9, SentTypes DEF Places
    <3> QED BY <3>1, <3>2, SentTypes
  <2>4. \A r \in Range(shown[c]) : Row(r) /\ Id(r) <= a
    BY <1>2, <2>1 DEF Prefix
  <2>5. \A f \in folded[c] : Fold(f) /\ Id(f) <= a
    BY <1>2, <2>1 DEF Prefix
  <2>6. z \in Nat \cup {NoSeq} /\ \A x \in Nat : (x <= a \/ x <= b) => x <= z
    BY <2>1, <2>2 DEF NoSeq
  <2>7. ASSUME NEW r \in Range(shown'[c])
        PROVE  Row(r)' /\ Id(r)' <= z
    <3>1. Row(r) /\ (Id(r) <= a \/ Id(r) <= b) /\ Id(r) \in Nat
      BY <1>6, <1>8, <2>1, <2>3, <2>4
    <3> QED BY <1>9, <2>6, <3>1
  <2>8. ASSUME NEW f \in folded'[c]
        PROVE  Fold(f)' /\ Id(f)' <= z
    <3>1. Fold(f) /\ (Id(f) <= a \/ Id(f) <= b) /\ Id(f) \in Nat
      BY <1>4, <1>5, <1>6, <2>1, <2>3, <2>5
    <3> QED BY <1>9, <2>6, <3>1
  <2>9. ASSUME z # NoSeq
        PROVE  \E r \in Range(shown'[c]) : z = Id(r)'
    <3>1. CASE z = b
      BY <1>8, <1>9, <2>1, <3>1
    <3>2. CASE z = a
      <4>1. PICK r \in Range(shown[c]) : a = Id(r)
        BY <1>2, <2>1, <2>9, <3>2 DEF Prefix
      <4> QED BY <1>8, <1>9, <3>2, <4>1
    <3> QED BY <2>2, <3>1, <3>2
  <2>10. load[c] \notin Early
    BY <1>1 DEF Stages, Early, Between, After
  <2>11. hw'[c] = NoSeq /\ load'[c] = load[c]
    BY <1>2, <1>4 DEF Prefix
  <2>12. Increasing(shown[c])'
    BY <1>8 DEF Increasing
  <2> QED BY <2>1, <2>7, <2>8, <2>9, <2>10, <2>11, <2>12 DEF Prefix
<1>11. \A k \in DOMAIN wire' : /\ LiveAt(k)' <=> LiveAt(k + 1)
                               /\ ReplayAt(k, c)' <=> ReplayAt(k + 1, c)
                               /\ ResponseAt(k, c)' <=> ResponseAt(k + 1, c)
  BY <1>1 DEF LiveAt, ReplayAt, ResponseAt
<1>12. Backlog(c)'
  <2>1. Increasing(buf[c])'
    BY <1>2, <1>4 DEF Backlog, Increasing
  <2> QED BY <1>1, <1>2, <1>4, <1>11, <2>1 DEF Backlog
<1>13. ASSUME NEW p \in Nat, Got(c, p)
       PROVE  Got(c, p)'
  <2>1. CASE p \in Range(shown[c]) \cup folded[c]
    BY <1>4, <1>8, <2>1 DEF Got
  <2>2. ASSUME NEW k \in DOMAIN wire, ReplayAt(k, c), Covers(wire[k], p) \/ p \in wire[k].folds
        PROVE  Got(c, p)'
    <3>1. CASE k = 1
      <4>1. p \in lo .. hi \/ p \in F
        BY <1>5, <1>9, <2>2, <3>1 DEF Covers
      <4> QED BY <1>4, <1>5, <1>8, <4>1 DEF Got
    <3>2. CASE k # 1
      <4>1. PICK l \in DOMAIN wire' : wire'[l] = wire[k]
        BY <1>1, <3>2
      <4>2. ReplayAt(l, c)' /\ (Covers(wire'[l], p) \/ p \in wire'[l].folds)
        BY <2>2, <4>1 DEF ReplayAt
      <4> QED BY <4>2 DEF Got, Covers
    <3> QED BY <3>1, <3>2
  <2> QED BY <1>13, <2>1, <2>2 DEF Got
<1>14. ASSUME NEW k \in DOMAIN wire', ReplayAt(k, c)'
       PROVE  /\ Sendable(wire[k])' /\ \A r \in Range(shown'[c]) : r < wire'[k].lo
              /\ \A l \in DOMAIN wire' : k < l /\ ReplayAt(l, c)' => wire'[k].hi < wire'[l].lo
  <2>1. k + 1 \in DOMAIN wire /\ wire'[k] = wire[k + 1] /\ ReplayAt(k + 1, c) /\ 1 < k + 1
    BY <1>1, <1>11, <1>14
  <2>2. wire[k + 1].lo \in Nat
    BY <2>1, WireTypes DEF ReplayAt
  <2>3. /\ Sendable(wire[k + 1]) /\ \A r \in Range(shown[c]) : r < wire[k + 1].lo
        /\ \A l \in DOMAIN wire : k + 1 < l /\ ReplayAt(l, c) => wire[k + 1].hi < wire[l].lo
    BY <1>2, <2>1 DEF Replays
  <2>4. PICK l : l = wire[k + 1]
    OBVIOUS
  <2>5. Sendable(l)'
    BY <1>9, <2>3, <2>4 DEF Sendable
  <2>6. Sendable(wire[k])'
    BY <2>1, <2>4, <2>5
  <2>7. \A r \in Range(shown'[c]) : r < wire'[k].lo
    <3>1. hi < wire[k + 1].lo /\ hi \in Nat
      BY <1>6, <1>9, <2>1
    <3>2. \A r \in lo .. hi : r < wire[k + 1].lo
      BY <2>2, <3>1
    <3> QED BY <1>8, <2>1, <2>3, <3>2
  <2>8. \A m \in DOMAIN wire' : k < m => k + 1 < m + 1
    BY <1>1
  <2>9. \A m \in DOMAIN wire' : k < m /\ ReplayAt(m, c)' => wire'[k].hi < wire'[m].lo
    BY <1>1, <1>11, <2>1, <2>3, <2>8
  <2> QED BY <2>6, <2>7, <2>9
<1>15. Replays(c)'
  BY <1>14 DEF Replays
<1>16. ASSUME NEW e \in Nat, Below(c, e)
       PROVE  Below(c, e)'
  <2>1. hi < e /\ \A f \in F : f < e
    BY <1>1, <1>5, <1>16 DEF Below
  <2>2. \A r \in lo .. hi : r < e
    BY <1>9, <2>1
  <2>3. \A r \in Range(shown'[c]) \cup folded'[c] : r < e
    BY <1>4, <1>5, <1>8, <1>16, <2>1, <2>2 DEF Below
  <2> QED BY <1>1, <1>11, <1>16, <2>3 DEF Below
<1>17. \A n : DiskEnd(n)' = DiskEnd(n)
  BY <1>4 DEF DiskEnd
<1>18. Offset(c)'
  <2> SUFFICES ASSUME load[c] \in Between
               PROVE  /\ off'[c] <= Len(disk') /\ Below(c, DiskEnd(off[c]))'
                      /\ \A p \in 0 .. DiskEnd(off[c])' - 1 :
                            Got(c, p)' \/ Withheld(0, DiskEnd(off[c]), p)'
    BY <1>4 DEF Offset
  <2>1. /\ off[c] <= Len(disk) /\ Below(c, DiskEnd(off[c]))
        /\ \A p \in 0 .. DiskEnd(off[c]) - 1 : Got(c, p) \/ Withheld(0, DiskEnd(off[c]), p)
    BY <1>2 DEF Offset
  <2>2. off[c] \in 0 .. Len(disk)
    BY <2>1, DiskTypes DEF Types, TypeOK
  <2>3. PICK e \in Nat : e = DiskEnd(off[c])
    BY <2>2, EndsBelow
  <2>4. DiskEnd(off[c])' = e
    BY <1>4, <2>3 DEF DiskEnd
  <2>5. \A p : \A q : Completes(q, p)' <=> Completes(q, p)
    BY <1>4, <1>9 DEF Completes
  <2>6. \A p \in 0 .. e - 1 : Got(c, p)' \/ Withheld(0, e, p)'
    <3>1. \A p \in 0 .. e - 1 : p \in Nat /\ (Got(c, p) \/ Withheld(0, e, p))
      BY <2>1, <2>3
    <3>2. \A p : Withheld(0, e, p) => Withheld(0, e, p)'
      BY <1>9, <2>5 DEF Withheld
    <3> QED BY <1>13, <3>1, <3>2
  <2>7. Below(c, DiskEnd(off[c]))'
    BY <1>16, <2>1, <2>3, <2>4
  <2> QED BY <1>4, <2>1, <2>4, <2>6, <2>7
<1>19. Flushed(c)'
  BY <1>2, <1>4, <1>9, SameSent DEF Flushed, FlushAt
<1>20. Delta(c)'
  <2> SUFFICES ASSUME load[c] \in After
               PROVE  /\ off'[c] <= delta'[c] /\ delta'[c] <= Len(disk')
                      /\ mark'[c] <= DiskEnd(delta[c])' /\ Below(c, DiskEnd(delta[c]))'
                      /\ \A p \in 0 .. DiskEnd(delta[c])' - 1 : Got(c, p)' \/ KeptBack(c, p)'
    BY <1>4 DEF Delta
  <2>1. /\ off[c] <= delta[c] /\ delta[c] <= Len(disk)
        /\ mark[c] <= DiskEnd(delta[c]) /\ Below(c, DiskEnd(delta[c]))
        /\ \A p \in 0 .. DiskEnd(delta[c]) - 1 : Got(c, p) \/ KeptBack(c, p)
    BY <1>2 DEF Delta
  <2>2. off[c] \in Nat /\ delta[c] \in Nat /\ Len(disk) \in Nat
    BY DiskTypes DEF Types, TypeOK, Channels
  <2>3. delta[c] \in 0 .. Len(disk) /\ Reads(c)
    BY <2>1, <2>2 DEF Reads
  <2>4. PICK e \in Nat : e = DiskEnd(delta[c])
    BY <2>3, EndsBelow
  <2>5. DiskEnd(delta[c])' = e
    BY <1>4, <2>4 DEF DiskEnd
  <2>6. \A p \in Nat : KeptBack(c, p) => KeptBack(c, p)'
    BY <1>4, <2>3, KeptBackKept
  <2>7. \A p \in 0 .. e - 1 : Got(c, p)' \/ KeptBack(c, p)'
    BY <1>13, <2>1, <2>4, <2>6
  <2>8. Below(c, DiskEnd(delta[c]))'
    BY <1>16, <2>1, <2>4, <2>5
  <2> QED BY <1>4, <2>1, <2>4, <2>5, <2>7, <2>8
<1>21. Cutover(c)'
  <2>1. DiskEnd(delta[c])' = DiskEnd(delta[c])
    BY <1>4 DEF DiskEnd
  <2>2. ASSUME NEW k \in DOMAIN wire', NEW l \in DOMAIN wire', k < l, ResponseAt(k, c)', LiveAt(l)'
        PROVE  DiskEnd(delta[c]) <= wire'[l].event
    <3>1. /\ k + 1 < l + 1 /\ k + 1 \in DOMAIN wire /\ l + 1 \in DOMAIN wire
          /\ ResponseAt(k + 1, c) /\ LiveAt(l + 1) /\ wire'[l] = wire[l + 1]
      BY <1>1, <1>11, <2>2
    <3> QED BY <1>2, <3>1 DEF Cutover
  <2> QED BY <2>1, <2>2 DEF Cutover
<1> QED
  BY <1>10, <1>12, <1>15, <1>18, <1>19, <1>20, <1>21 DEF InLoad

\* Every step keeps every load in order.
LEMMA LoadsStep ==
    ASSUME Types, Types', Stamps, Texts, OnDisk, Queued, SentGrows, DiskGrows, Attendance,
           Attendance', Stages, Stages', LiveOrder, LoadsInOrder, [Next]_vars
    PROVE  LoadsInOrder'
PROOF
<1> SUFFICES ASSUME NEW c \in Loading'
             PROVE  InLoad(c)'
  BY DEF LoadsInOrder
<1>1. c \in Clients /\ (c \in Loading \/ RequestLoad(c))
  BY LoadingStep
<1>2. CASE RequestLoad(c)
  BY <1>1, <1>2, RequestInLoad
<1>3. CASE c \in Loading
  <2>1. InLoad(c) /\ c \notin degraded' /\ c \in loading'
    BY <1>3 DEF LoadsInOrder, Loading
  <2>8. load'[c] # "failed"
    <3>1. c \in subs'
      BY <2>1 DEF Types, TypeOK
    <3> QED BY <1>1, <2>1, <3>1 DEF Attendance
  <2>2. ASSUME NEW u \in Notifications, NEW open \in BOOLEAN, Emit(u, open)
        PROVE  InLoad(c)'
    BY <1>1, <2>1, <2>2, <2>8, EmitInLoad
  <2>3. CASE Persist
    BY <1>1, <2>1, <2>3, <2>8, PersistInLoad
  <2>4. CASE Route
    <3>1. CASE ReplayAt(1, c)
      <4>1. RouteReplay
        <5>1. Head(wire) = wire[1]
          BY <2>4, RouteWire
        <5> QED BY <2>4, <3>1, <5>1 DEF Route, RouteLive, RouteResponse, ReplayAt
      <4> QED BY <1>1, <1>3, <2>1, <3>1, <4>1, LineInLoad
    <3>2. CASE ~ReplayAt(1, c)
      BY <1>1, <1>3, <2>1, <2>4, <2>8, <3>2, PassedInLoad
    <3> QED BY <3>1, <3>2
  <2>5. ASSUME NEW d \in Clients, Agent(d)
        PROVE  InLoad(c)'
    <3>1. CASE d # c
      BY <1>1, <2>1, <2>5, <2>8, <3>1, OtherInLoad
    <3>2. CASE d = c
      <4>1. CASE Replay(c) \/ DeltaReplay(c)
        BY <1>1, <2>1, <4>1, ReplayInLoad
      <4>2. CASE ~(Replay(c) \/ DeltaReplay(c))
        BY <1>1, <2>1, <2>5, <2>8, <3>2, <4>2, OnwardInLoad
      <4> QED BY <4>1, <4>2
    <3> QED BY <3>1, <3>2
  <2>6. ASSUME NEW d \in Clients, RequestLoad(d) \/ Disconnect(d)
        PROVE  InLoad(c)'
    <3>1. CASE d # c
      BY <1>1, <2>1, <2>6, <2>8, <3>1, StillInLoad
    <3>2. CASE d = c
      BY <1>2, <2>1, <2>6, <3>2 DEF Disconnect
    <3> QED BY <3>1, <3>2
  <2>7. CASE Quiet
    BY <1>1, <2>1, <2>7, <2>8, StillInLoad
  <2> QED BY <2>2, <2>3, <2>4, <2>5, <2>6, <2>7, StepCases
<1> QED BY <1>1, <1>2, <1>3

-----------------------------------------------------------------------------
(* The served clients *)

\* A step that leaves the transcript of a served client alone
LEMMA MovedInOrder ==
    ASSUME Types, OnDisk, Queued, SentGrows, DiskGrows, NEW c \in Clients, NEW d \in {0, 1},
           InOrder(c),
           shown'[c] = shown[c], folded'[c] = folded[c], hw'[c] = hw[c], mark'[c] = mark[c],
           off'[c] = off[c], delta'[c] = delta[c],
           \A k \in DOMAIN wire' : LiveAt(k)' =>
              (k + d \in DOMAIN wire /\ wire'[k] = wire[k + d]) \/ wire'[k].event = Count
    PROVE  InOrder(c)'
PROOF
<1>1. /\ Range(shown[c]) \subseteq Places /\ folded[c] \subseteq Places
      /\ \A p \in Places : p \in Nat /\ p < Count
  BY RangesKept, SentTypes
<1>2. Chronicle(shown[c])'
  <2> SUFFICES ASSUME NEW i \in DOMAIN shown[c], NEW j \in DOMAIN shown[c], i < j
               PROVE  Before(shown[c][i], shown[c][j])'
    BY DEF Chronicle
  <2>1. shown[c][i] \in Range(shown[c]) /\ shown[c][j] \in Range(shown[c])
    BY DEF Range
  <2>2. PICK p \in Places, q \in Places : p = shown[c][i] /\ q = shown[c][j]
    BY <1>1, <2>1
  <2>3. Before(p, q)
    BY <2>2 DEF InOrder, Chronicle
  <2>4. Before(p, q)'
    BY <2>3, BeforeKept
  <2> QED BY <2>2, <2>4
<1>3. (Range(shown[c]) \cap folded[c] = {})'
  BY DEF InOrder
<1>4. ASSUME NEW r \in Range(shown[c]) \cup folded[c], NEW k \in DOMAIN wire', LiveAt(k)'
      PROVE  r < wire'[k].event
  <2>1. CASE k + d \in DOMAIN wire /\ wire'[k] = wire[k + d]
    BY <1>4, <2>1 DEF InOrder, LiveAt
  <2>2. CASE wire'[k].event = Count
    BY <1>1, <2>2
  <2> QED BY <1>4, <2>1, <2>2
<1>5. hw[c] # NoSeq => \E r \in Range(shown[c]) : hw[c] = Id(r)'
  <2>1. \A r \in Range(shown[c]) : Id(r)' = Id(r)
    BY <1>1 DEF SentGrows
  <2> QED BY <2>1 DEF InOrder
<1>6. Reads(c) /\ (off[c] <= Len(disk) /\ delta[c] <= Len(disk))'
  <2>1. Len(disk) \in Nat /\ off[c] \in Nat /\ delta[c] \in Nat
    BY DiskTypes DEF Types, TypeOK, Channels
  <2>2. Reads(c)
    BY DEF InOrder, Reads
  <2> QED BY <2>1, <2>2 DEF DiskGrows, Reads
<1>7. ASSUME NEW p \in 0 .. mark[c] - 1
      PROVE  p \in Range(shown[c]) \cup folded[c] \/ KeptBack(c, p)'
  <2>1. p \in Nat
    OBVIOUS
  <2>2. CASE p \in Range(shown[c]) \cup folded[c]
    BY <2>2
  <2>3. CASE KeptBack(c, p)
    BY <1>6, <2>1, <2>3, KeptBackKept
  <2> QED BY <1>7, <2>2, <2>3 DEF InOrder
<1>8. \A r \in (Range(shown[c]) \cup folded[c])' : \A k \in DOMAIN wire' :
         LiveAt(k)' => r < wire'[k].event
  BY <1>4
<1>9. (\A p \in 0 .. mark[c] - 1 : p \in Range(shown[c]) \cup folded[c] \/ KeptBack(c, p))'
  BY <1>7
<1>10. (hw[c] # NoSeq => \E r \in Range(shown[c]) : hw[c] = Id(r))'
  BY <1>5 DEF NoSeq
<1> QED BY <1>2, <1>3, <1>6, <1>8, <1>9, <1>10 DEF InOrder

\* A live update is shown to it at once.
LEMMA LiveInOrder ==
    ASSUME Types, OnDisk, Queued, SentGrows, DiskGrows, LiveOrder, RouteLive, NEW c \in Clients,
           InOrder(c)
    PROVE  InOrder(c)'
PROOF
<1>1. /\ 1 \in DOMAIN wire /\ Head(wire) = wire[1]
      /\ \A k \in DOMAIN wire' : /\ k \in Nat /\ 1 < k + 1
                                 /\ k + 1 \in DOMAIN wire /\ wire'[k] = wire[k + 1]
  BY RouteWire DEF Route
<1>2. LiveAt(1) /\ UNCHANGED <<sent, disk, off, delta, mark, folded>>
  BY <1>1 DEF RouteLive, LiveAt, sessionVars, diskVars, agentVars
<1>3. PICK e \in Places : e = wire[1].event
  BY <1>1, <1>2, WireTypes DEF LiveAt
<1>4. /\ shown'[c] \in Seq(Places)
      /\ hw'[c] = hw[c] \/ \E p \in Range(shown'[c]) : hw'[c] = Id(p)
      /\ Range(shown'[c]) \subseteq Range(shown[c]) \cup {e}
      /\ Range(shown[c]) \subseteq Range(shown'[c])
      /\ Chronicle(shown[c]) /\ (\A r \in Range(shown[c]) : Before(r, e)) => Chronicle(shown'[c])
  BY <1>1, <1>3, LiveShown
<1>5. /\ Chronicle(shown[c]) /\ Range(shown[c]) \cap folded[c] = {}
      /\ \A r \in Range(shown[c]) \cup folded[c] : \A k \in DOMAIN wire :
            LiveAt(k) => r < wire[k].event
      /\ hw[c] # NoSeq => \E r \in Range(shown[c]) : hw[c] = Id(r)
      /\ off[c] <= Len(disk) /\ delta[c] <= Len(disk)
      /\ \A p \in 0 .. mark[c] - 1 : p \in Range(shown[c]) \cup folded[c] \/ KeptBack(c, p)
  BY DEF InOrder
<1>6. \A r \in Range(shown[c]) \cup folded[c] : r < e
  BY <1>1, <1>2, <1>3, <1>5
<1>7. e \notin folded[c]
  <2>1. e \in Nat
    BY SentTypes
  <2> QED BY <1>6, <2>1
<1>8. Chronicle(shown'[c])
  BY <1>4, <1>5, <1>6 DEF Before
<1>9. Chronicle(shown[c])'
  <2>1. \A p : Id(p)' = Id(p)
    BY <1>2, SameSent
  <2> QED BY <1>8, <2>1 DEF Chronicle, Before
<1>10. (Range(shown[c]) \cap folded[c] = {})'
  BY <1>2, <1>4, <1>5, <1>7
<1>11. ASSUME NEW r \in (Range(shown[c]) \cup folded[c])', NEW k \in DOMAIN wire', LiveAt(k)'
       PROVE  r < wire'[k].event
  <2>1. k + 1 \in DOMAIN wire /\ wire'[k] = wire[k + 1] /\ LiveAt(k + 1) /\ 1 < k + 1
    BY <1>1, <1>11 DEF LiveAt
  <2>2. e < wire[k + 1].event
    BY <1>1, <1>2, <1>3, <2>1 DEF LiveOrder
  <2>3. r = e \/ r \in Range(shown[c]) \cup folded[c]
    BY <1>2, <1>4, <1>11
  <2> QED BY <1>5, <2>1, <2>2, <2>3
<1>12. (hw[c] # NoSeq => \E r \in Range(shown[c]) : hw[c] = Id(r))'
  <2>1. \A p : Id(p)' = Id(p)
    BY <1>2, SameSent
  <2> QED BY <1>4, <1>5, <2>1 DEF NoSeq
<1>13. (off[c] <= Len(disk) /\ delta[c] <= Len(disk))'
  BY <1>2, <1>5
<1>14. ASSUME NEW p \in 0 .. mark[c] - 1
       PROVE  p \in Range(shown'[c]) \cup folded'[c] \/ KeptBack(c, p)'
  <2>1. p \in Nat /\ Reads(c) /\ off'[c] = off[c] /\ delta'[c] = delta[c]
    BY <1>2, <1>5 DEF Reads
  <2>2. KeptBack(c, p) => KeptBack(c, p)'
    BY <2>1, KeptBackKept
  <2> QED BY <1>2, <1>4, <1>5, <1>14, <2>2
<1>15. (\A p \in 0 .. mark[c] - 1 : p \in Range(shown[c]) \cup folded[c] \/ KeptBack(c, p))'
  BY <1>2, <1>14
<1> QED BY <1>9, <1>10, <1>11, <1>12, <1>13, <1>15 DEF InOrder

\* Where the updates held back for a client are once its load is answered
Released(c) ==
    \A p \in Range(buf[c]) :
        p \in Range(shown'[c]) \cup folded[c] \/ Overtaken(p) \/ KeptBack(c, p)

\* The response releases what was held back: without what the replay delivered, and
\* before the live updates that follow.
LEMMA ResponseInOrder ==
    ASSUME Types, Stamps, OnDisk, Queued, SentGrows, DiskGrows, Attendance, Stages, RouteResponse,
           NEW c \in Clients, c \in Loading, InLoad(c), ResponseAt(1, c)
    PROVE  InOrder(c)' /\ Range(shown[c]) \subseteq Range(shown'[c]) /\ Released(c)
PROOF
<1>1. /\ 1 \in DOMAIN wire
      /\ \A k \in DOMAIN wire' : /\ k \in Nat /\ 1 < k + 1
                                 /\ k + 1 \in DOMAIN wire /\ wire'[k] = wire[k + 1]
      /\ \A k \in DOMAIN wire : k \in Nat
  BY RouteWire DEF Route
<1>2. Prefix(c) /\ Backlog(c) /\ Delta(c) /\ Cutover(c)
  BY DEF InLoad
<1> DEFINE w == Rendered(View(c), NotReplayed(c))
<1>3. /\ UNCHANGED <<sent, disk, off, delta, mark, folded, load>>
      /\ shown'[c] = w.rows /\ hw'[c] = w.last
  <2>1. PICK d \in Clients :
           /\ ResponseAt(1, d) /\ UNCHANGED <<sent, disk, off, delta, mark, folded, load>>
           /\ d \in loading => /\ shown'[d] = Rendered(View(d), NotReplayed(d)).rows
                               /\ hw'[d] = Rendered(View(d), NotReplayed(d)).last
    BY ResponseRouted
  <2>2. d = c /\ c \in loading
    BY <2>1 DEF ResponseAt, Loading
  <2> QED BY <2>1, <2>2
<1>4. /\ w.rows \in Seq(Places)
      /\ w.last = hw[c] \/ \E p \in Range(w.rows) : w.last = Id(p)
      /\ Range(w.rows) \subseteq Range(shown[c]) \cup Due(c)
      /\ Range(shown[c]) \subseteq Range(w.rows)
      /\ Chronicle(shown[c]) /\ (\A r \in Range(shown[c]), p \in Due(c) : Before(r, p))
         => Chronicle(w.rows)
      /\ Increasing(buf[c]) =>
            \A p \in Due(c) : \/ p \in Range(w.rows) \/ Id(p) <= hw[c]
                              \/ \E q \in Due(c) : q < p /\ Id(p) <= Id(q)
  BY ResponseShown
<1> HIDE DEF w
<1>5. /\ Range(shown[c]) \subseteq Places /\ folded[c] \subseteq Places
      /\ Range(buf[c]) \subseteq Places
      /\ \A p \in Places : p \in Nat /\ Id(p) \in Nat
  BY RangesKept, SentTypes
<1>6. /\ hw[c] = NoSeq /\ Increasing(shown[c])
      /\ \A r \in Range(shown[c]) : Row(r) /\ Id(r) <= cutoff[c]
      /\ \A f \in folded[c] : Fold(f) /\ Id(f) <= cutoff[c]
      /\ cutoff[c] # NoSeq => \E r \in Range(shown[c]) : cutoff[c] = Id(r)
  BY <1>2 DEF Prefix
<1>7. cutoff[c] \in Nat \cup {NoSeq} /\ Due(c) \subseteq Range(buf[c])
  BY DEF Types, TypeOK, Due
<1>8. ASSUME NEW r \in Range(shown[c]) \cup folded[c], NEW p \in Due(c)
      PROVE  Id(r) < Id(p)
  <2>1. Id(r) \in Nat /\ Id(p) \in Nat /\ Id(r) <= cutoff[c]
    BY <1>5, <1>6, <1>7
  <2>2. cutoff[c] # NoSeq
    BY <2>1 DEF NoSeq
  <2>3. Id(p) > cutoff[c]
    BY <2>2 DEF Due
  <2> QED BY <1>7, <2>1, <2>2, <2>3
<1>9. Chronicle(w.rows)
  <2>1. Chronicle(shown[c])
    BY <1>6 DEF Increasing, Chronicle, Before
  <2>2. \A r \in Range(shown[c]), p \in Due(c) : Before(r, p)
    BY <1>8 DEF Before
  <2> QED BY <1>4, <2>1, <2>2
<1>10. Range(w.rows) \cap folded[c] = {}
  <2>1. ASSUME NEW f \in folded[c]
        PROVE  f \notin Range(w.rows)
    <3>1. f \notin Range(shown[c])
      BY <1>6 DEF Row, Fold
    <3>2. f \notin Due(c)
      <4>1. Id(f) \in Nat /\ ~(Id(f) < Id(f))
        BY <1>5
      <4> QED BY <1>8, <4>1
    <3> QED BY <1>4, <3>1, <3>2
  <2> QED BY <2>1
<1>11. load[c] = "done"
  <2>1. load[c] \in {"done", "failed"}
    BY <1>1 DEF Stages
  <2>2. c \in subs \ degraded
    BY DEF Loading, Types, TypeOK
  <2> QED BY <2>1, <2>2 DEF Attendance
<1>12. /\ off[c] <= delta[c] /\ delta[c] <= Len(disk) /\ mark[c] <= DiskEnd(delta[c])
       /\ Below(c, DiskEnd(delta[c]))
       /\ \A p \in 0 .. DiskEnd(delta[c]) - 1 : Got(c, p) \/ KeptBack(c, p)
  BY <1>2, <1>11 DEF Delta, After
<1>13. /\ off[c] \in Nat /\ delta[c] \in Nat /\ Len(disk) \in Nat /\ mark[c] \in Nat
       /\ DiskEnd(delta[c]) \in Nat
  <2>1. off[c] \in Nat /\ delta[c] \in Nat /\ Len(disk) \in Nat /\ mark[c] \in Nat
    BY DiskTypes DEF Types, TypeOK, Channels
  <2>2. delta[c] \in 0 .. Len(disk)
    BY <1>12, <2>1
  <2> QED BY <2>1, <2>2, DiskTypes
<1>14. \A k \in DOMAIN wire : ~ReplayAt(k, c)
  <2>1. DOMAIN wire = 1 .. Len(wire) /\ Len(wire) \in Nat
    BY WireTypes
  <2>2. \A k \in DOMAIN wire : 1 < k => ~ReplayAt(k, c)
    BY <1>1 DEF Stages
  <2>3. ~ReplayAt(1, c)
    BY DEF ReplayAt, ResponseAt
  <2> QED BY <2>1, <2>2, <2>3
<1>15. \A p \in 0 .. DiskEnd(delta[c]) - 1 : p \in Range(shown[c]) \cup folded[c] \/ KeptBack(c, p)
  BY <1>12, <1>14 DEF Got
<1>16. ASSUME NEW r \in Range(w.rows) \cup folded[c], NEW k \in DOMAIN wire', LiveAt(k)'
       PROVE  r < wire'[k].event
  <2>1. k + 1 \in DOMAIN wire /\ wire'[k] = wire[k + 1] /\ LiveAt(k + 1) /\ 1 < k + 1
    BY <1>1, <1>16 DEF LiveAt
  <2>2. PICK e \in Nat : e = wire[k + 1].event
    BY <2>1, WireTypes DEF LiveAt
  <2>3. CASE r \in Range(shown[c]) \cup folded[c]
    <3>1. r < DiskEnd(delta[c]) /\ r \in Nat
      BY <1>5, <1>12, <2>3 DEF Below
    <3>2. DiskEnd(delta[c]) <= e
      BY <1>1, <1>2, <2>1, <2>2 DEF Cutover
    <3> QED BY <1>13, <2>1, <2>2, <3>1, <3>2
  <2>4. CASE r \in Range(buf[c])
    BY <1>2, <2>1, <2>4 DEF Backlog
  <2> QED BY <1>4, <1>7, <1>16, <2>3, <2>4
<1>17. \A p : Id(p)' = Id(p)
  BY <1>3, SameSent
<1>18. InOrder(c)'
  <2>1. Chronicle(shown[c])'
    BY <1>3, <1>9, <1>17 DEF Chronicle, Before
  <2>2. (Range(shown[c]) \cap folded[c] = {})'
    BY <1>3, <1>10
  <2>3. (\A r \in Range(shown[c]) \cup folded[c] : \A k \in DOMAIN wire :
            LiveAt(k) => r < wire[k].event)'
    BY <1>3, <1>16
  <2>4. (hw[c] # NoSeq => \E r \in Range(shown[c]) : hw[c] = Id(r))'
    BY <1>3, <1>4, <1>6, <1>17 DEF NoSeq
  <2>5. off[c] <= Len(disk)
    BY <1>12, <1>13
  <2>6. (off[c] <= Len(disk) /\ delta[c] <= Len(disk))'
    BY <1>3, <1>12, <2>5
  <2>7. ASSUME NEW p \in 0 .. mark[c] - 1
        PROVE  p \in Range(shown'[c]) \cup folded'[c] \/ KeptBack(c, p)'
    <3>1. p \in Nat /\ p \in 0 .. DiskEnd(delta[c]) - 1
      BY <1>12, <1>13
    <3>2. Reads(c) /\ off'[c] = off[c] /\ delta'[c] = delta[c]
      BY <1>3, <1>12, <2>5 DEF Reads
    <3>3. KeptBack(c, p) => KeptBack(c, p)'
      BY <3>1, <3>2, KeptBackKept
    <3> QED BY <1>3, <1>4, <1>15, <3>1, <3>3
  <2>8. (\A p \in 0 .. mark[c] - 1 : p \in Range(shown[c]) \cup folded[c] \/ KeptBack(c, p))'
    BY <1>3, <2>7
  <2> QED BY <2>1, <2>2, <2>3, <2>4, <2>6, <2>8 DEF InOrder
<1>19. ASSUME NEW p \in Range(buf[c])
       PROVE  p \in Range(w.rows) \cup folded[c] \/ Overtaken(p) \/ KeptBack(c, p)
  <2>0. p \in Places /\ p \in Nat /\ Id(p) \in Nat
    BY <1>5
  <2>1. CASE p \in Due(c)
    <3>1. ~(Id(p) <= hw[c])
      BY <1>6, <2>0 DEF NoSeq
    <3>2. p \in Range(w.rows) \/ \E q \in Due(c) : q < p /\ Id(p) <= Id(q)
      BY <1>2, <1>4, <2>1, <3>1 DEF Backlog
    <3>3. ASSUME NEW q \in Due(c), q < p, Id(p) <= Id(q)
          PROVE  Overtaken(p)
      <4>1. q \in Places /\ q \in Nat /\ Id(q) \in Nat
        BY <1>5, <1>7
      <4>2. Id(q) # Id(p)
        BY <2>0, <3>3, <4>1 DEF Stamps
      <4>3. q \in 0 .. p - 1 /\ Id(p) < Id(q)
        BY <2>0, <3>3, <4>1, <4>2
      <4> QED BY <4>3 DEF Overtaken
    <3> QED BY <3>2, <3>3
  <2>2. CASE p \notin Due(c)
    <3>1. cutoff[c] # NoSeq /\ ~(Id(p) > cutoff[c])
      BY <2>2 DEF Due
    <3>2. PICK r \in Range(shown[c]) : cutoff[c] = Id(r)
      BY <1>6, <3>1
    <3>3. r \in Places /\ r \in Nat /\ Id(r) \in Nat /\ Id(p) <= Id(r)
      BY <1>5, <2>0, <3>1, <3>2
    <3>4. CASE r = p
      BY <1>4, <3>4
    <3>5. CASE r < p
      <4>1. Id(r) # Id(p)
        BY <2>0, <3>3, <3>5 DEF Stamps
      <4>2. r \in 0 .. p - 1 /\ Id(p) < Id(r)
        BY <2>0, <3>3, <3>5, <4>1
      <4> QED BY <4>2 DEF Overtaken
    <3>6. CASE p < r
      <4>1. r < DiskEnd(delta[c])
        BY <1>12 DEF Below
      <4>2. p \in 0 .. DiskEnd(delta[c]) - 1
        BY <1>13, <2>0, <3>3, <3>6, <4>1
      <4> QED BY <1>4, <1>15, <4>2
    <3> QED BY <2>0, <3>3, <3>4, <3>5, <3>6
  <2> QED BY <2>1, <2>2
<1>20. Released(c)
  BY <1>3, <1>19 DEF Released
<1> QED BY <1>3, <1>4, <1>18, <1>20

\* Every step keeps the transcripts of the served clients in order.
LEMMA ServesStep ==
    ASSUME Types, Stamps, OnDisk, Queued, SentGrows, DiskGrows, Attendance, Stages, LiveOrder,
           LoadsInOrder, Serves, [Next]_vars
    PROVE  Serves'
PROOF
<1>0. subs \subseteq Clients /\ loading \subseteq subs
  BY DEF Types, TypeOK
<1>1. \A k \in DOMAIN wire : k \in Nat /\ k + 0 = k
  BY WireTypes
<1> DEFINE Alone(c) == /\ shown'[c] = shown[c] /\ folded'[c] = folded[c] /\ hw'[c] = hw[c]
                       /\ mark'[c] = mark[c] /\ off'[c] = off[c] /\ delta'[c] = delta[c]
           WireGrows == \A k \in DOMAIN wire' : LiveAt(k)' =>
                           (k \in DOMAIN wire /\ wire'[k] = wire[k]) \/ wire'[k].event = Count
<1>2. ASSUME NEW c \in Clients, InOrder(c), WireGrows, Alone(c)
      PROVE  InOrder(c)'
  <2>1. \A k \in DOMAIN wire' : LiveAt(k)' =>
           (k + 0 \in DOMAIN wire /\ wire'[k] = wire[k + 0]) \/ wire'[k].event = Count
    BY <1>1, <1>2
  <2>2. 0 \in {0, 1}
    OBVIOUS
  <2> QED BY <1>2, <2>1, <2>2, MovedInOrder
<1>3. ASSUME NEW u \in Notifications, NEW open \in BOOLEAN, Emit(u, open)
      PROVE  Serves'
  <2>1. /\ UNCHANGED <<subs, loading, degraded>> /\ \A c \in Clients : Alone(c)
    BY <1>3 DEF Emit, agentVars, leaderVars, pagerVars
  <2>2. WireGrows
    BY <1>3, EmitWire
  <2> HIDE DEF Alone, WireGrows
  <2> QED BY <1>0, <1>2, <2>1, <2>2 DEF Serves, Served
<1>4. ASSUME Persist \/ Quiet
      PROVE  Serves'
  <2>1. UNCHANGED <<wire, subs, loading, degraded>> /\ \A c \in Clients : Alone(c)
    BY <1>4 DEF Persist, PersistUpdate, PersistFlush, Quiet, agentVars, leaderVars, pagerVars, history
  <2>2. WireGrows
    BY <2>1
  <2> HIDE DEF Alone, WireGrows
  <2> QED BY <1>0, <1>2, <2>1, <2>2 DEF Serves, Served
<1>5. ASSUME NEW d \in Clients, Agent(d)
      PROVE  Serves'
  <2>1. /\ UNCHANGED <<subs, loading, shown, folded, hw>> /\ degraded \subseteq degraded'
        /\ load[d] \in {"requested", "flush1", "flush2", "wait1", "wait2", "read", "open", "respond"}
    BY <1>5, AgentMoves
  <2>2. WireGrows
    BY <1>5, AgentWire DEF LiveAt
  <2>3. \A c \in Clients : c # d => Alone(c)
    BY <1>5, <2>1, OtherReads
  <2>4. d \notin Served
    BY <2>1 DEF Served, Attendance
  <2> HIDE DEF Alone, WireGrows
  <2>5. ASSUME NEW c \in Served'
        PROVE  InOrder(c)'
    <3>1. c \in Served /\ c \in Clients /\ c # d
      BY <1>0, <2>1, <2>4, <2>5 DEF Served
    <3> QED BY <1>2, <2>2, <2>3, <3>1 DEF Serves
  <2> QED BY <2>5 DEF Serves
<1>6. ASSUME NEW d \in Clients, RequestLoad(d)
      PROVE  Serves'
  <2>1. /\ UNCHANGED <<wire, degraded>> /\ \A c \in Clients : Alone(c)
        /\ subs' = subs \cup {d} /\ loading' = loading \cup {d}
    BY <1>6 DEF RequestLoad, pagerVars, history
  <2>2. WireGrows
    BY <2>1
  <2> HIDE DEF Alone, WireGrows
  <2>3. ASSUME NEW c \in Served'
        PROVE  InOrder(c)'
    <3>1. c \in Served /\ c \in Clients
      BY <1>0, <2>1, <2>3 DEF Served
    <3> QED BY <1>2, <2>1, <2>2, <3>1 DEF Serves
  <2> QED BY <2>3 DEF Serves
<1>7. ASSUME NEW d \in Clients, Disconnect(d)
      PROVE  Serves'
  <2>1. /\ UNCHANGED <<wire, off, delta, mark>>
        /\ subs' = subs \ {d} /\ loading' = loading \ {d} /\ degraded' = degraded \ {d}
        /\ shown' = [shown EXCEPT ![d] = <<>>] /\ hw' = [hw EXCEPT ![d] = NoSeq]
        /\ folded' = [folded EXCEPT ![d] = {}]
    BY <1>7 DEF Disconnect, agentVars
  <2>2. DOMAIN shown = Clients /\ DOMAIN hw = Clients /\ DOMAIN folded = Clients
    BY DEF Types, TypeOK, Channels
  <2>3. WireGrows /\ \A c \in Clients : c # d => Alone(c)
    BY <2>1, <2>2
  <2> HIDE DEF Alone, WireGrows
  <2>4. ASSUME NEW c \in Served'
        PROVE  InOrder(c)'
    <3>1. c \in Served /\ c \in Clients /\ c # d
      BY <1>0, <2>1, <2>4 DEF Served
    <3> QED BY <1>2, <2>3, <3>1 DEF Serves
  <2> QED BY <2>4 DEF Serves
<1>8. CASE RouteLive
  <2>1. UNCHANGED <<subs, loading>> /\ degraded \subseteq degraded'
    BY <1>8 DEF RouteLive
  <2>2. Served' \subseteq Served /\ Served \subseteq Clients
    BY <1>0, <2>1 DEF Served
  <2> QED BY <1>8, <2>2, LiveInOrder DEF Serves
<1>9. ASSUME RouteReplay \/ RouteResponse
      PROVE  /\ \A k \in DOMAIN wire' : k + 1 \in DOMAIN wire /\ wire'[k] = wire[k + 1]
             /\ 1 \in DOMAIN wire
  BY <1>9, RouteWire DEF Route
<1>10. ASSUME NEW c \in Clients, InOrder(c), RouteReplay \/ RouteResponse, Alone(c)
       PROVE  InOrder(c)'
  <2>1. 1 \in {0, 1}
    OBVIOUS
  <2> QED BY <1>9, <1>10, <2>1, MovedInOrder
<1>11. CASE RouteReplay
  <2>1. PICK d \in Clients :
           /\ ReplayAt(1, d) /\ UNCHANGED <<subs, loading, hw, mark, off, delta, degraded>>
           /\ \A c \in Clients : c # d => shown'[c] = shown[c] /\ folded'[c] = folded[c]
    BY <1>11, ReplayRouted
  <2>2. d \notin Served
    BY <1>9, <1>11, <2>1 DEF Served, Stages
  <2>3. ASSUME NEW c \in Served'
        PROVE  InOrder(c)'
    <3>1. c \in Served /\ c \in Clients /\ c # d
      BY <1>0, <2>1, <2>2, <2>3 DEF Served
    <3>2. Alone(c)
      BY <2>1, <3>1
    <3> HIDE DEF Alone
    <3> QED BY <1>11, <1>10, <3>1, <3>2 DEF Serves
  <2> QED BY <2>3 DEF Serves
<1>12. CASE RouteResponse
  <2>1. PICK d \in Clients :
           /\ ResponseAt(1, d) /\ UNCHANGED <<subs, folded, mark, off, delta, degraded>>
           /\ \A c \in Clients : c # d => shown'[c] = shown[c] /\ hw'[c] = hw[c]
           /\ \/ d \in loading /\ loading' = loading \ {d}
              \/ d \notin loading /\ UNCHANGED <<loading, shown, hw>>
    BY <1>12, ResponseRouted
  <2>2. ASSUME NEW c \in Served'
        PROVE  InOrder(c)'
    <3>1. c \in Clients
      BY <1>0, <2>1, <2>2 DEF Served
    <3>2. CASE c \in Loading
      <4>1. c = d
        BY <2>1, <2>2, <3>2 DEF Served, Loading
      <4> QED BY <1>12, <2>1, <3>1, <3>2, <4>1, ResponseInOrder DEF LoadsInOrder
    <3>3. CASE c \notin Loading
      <4>1. c \in Served /\ (c = d => d \notin loading)
        BY <2>1, <2>2, <3>3 DEF Served, Loading
      <4>2. Alone(c)
        BY <2>1, <3>1, <4>1
      <4> HIDE DEF Alone
      <4> QED BY <1>12, <1>10, <3>1, <4>1, <4>2 DEF Serves
    <3> QED BY <3>2, <3>3
  <2> QED BY <2>2 DEF Serves
<1> QED
  BY <1>3, <1>4, <1>5, <1>6, <1>7, <1>8, <1>11, <1>12, StepCases DEF Route

-----------------------------------------------------------------------------
(* No update gets lost without a reason *)

\* What the client will not get, it will not get later.
LEMMA LostKept ==
    ASSUME Types, OnDisk, Queued, SentGrows, DiskGrows, NEW c \in Clients,
           load[c] \in After => /\ load'[c] \in After /\ Reads(c)
                                /\ off'[c] = off[c] /\ delta'[c] = delta[c],
           NEW p \in Places, Lost(c, p)
    PROVE  Lost(c, p)'
PROOF
<1>1. CASE Overtaken(p)
  BY <1>1, OvertakenKept DEF Lost
<1>2. CASE load[c] \in After /\ KeptBack(c, p)
  <2>1. p \in Nat
    BY SentTypes
  <2>2. KeptBack(c, p)'
    BY <1>2, <2>1, KeptBackKept
  <2>3. (load[c] \in After)'
    BY <1>2 DEF After
  <2> QED BY <2>2, <2>3 DEF Lost
<1> QED BY <1>1, <1>2 DEF Lost

\* An update stays accounted for while what reached the client stays with it, and the
\* live updates stay under way until they reach it.
LEMMA AccountKept ==
    ASSUME Types, OnDisk, Queued, SentGrows, DiskGrows, NEW c \in Clients, Accounted(c),
           load'[c] \in {"none", "wait2"} \cup After =>
              load[c] \in {"none", "wait2"} \cup After /\ mark'[c] = mark[c],
           load[c] \in After => /\ load'[c] \in After /\ Reads(c)
                                /\ off'[c] = off[c] /\ delta'[c] = delta[c],
           gated \subseteq gated',
           \A p \in Reached(c) : p \in Reached(c)' \/ Lost(c, p),
           \A k \in DOMAIN wire : LiveAt(k) =>
              \/ \E l \in DOMAIN wire' : wire'[l] = wire[k]
              \/ wire[k].event \in Reached(c)' \/ Lost(c, wire[k].event),
           \/ Count' = Count
           \/ /\ Count' = Count + 1
              /\ Count \in gated' \/ \E k \in DOMAIN wire' : LiveAt(k)' /\ wire'[k].event = Count
    PROVE  Accounted(c)'
PROOF
<1>1. Count \in Nat /\ mark[c] \in Nat
  <2>1. mark[c] \in Nat
    BY DEF Types, Channels
  <2> QED BY <2>1, DiskTypes
<1> SUFFICES ASSUME load'[c] \in {"none", "wait2"} \cup After, NEW p \in mark'[c] .. Count' - 1
             PROVE  \/ p \in gated' \/ p \in Reached(c)' \/ Lost(c, p)'
                    \/ \E k \in DOMAIN wire' : LiveAt(k)' /\ wire'[k].event = p
  BY DEF Accounted
<1>2. mark'[c] = mark[c] /\ load[c] \in {"none", "wait2"} \cup After
  OBVIOUS
<1>3. CASE p \in mark[c] .. Count - 1
  <2>1. \/ p \in gated \/ p \in Reached(c) \/ Lost(c, p)
        \/ \E k \in DOMAIN wire : LiveAt(k) /\ wire[k].event = p
    BY <1>2, <1>3 DEF Accounted
  <2>2. p \in Places
    BY <1>1, <1>3 DEF Places
  <2>3. Lost(c, p) => Lost(c, p)'
    BY <2>2, LostKept
  <2>4. ASSUME NEW k \in DOMAIN wire, LiveAt(k), wire[k].event = p
        PROVE  \/ p \in Reached(c)' \/ Lost(c, p)
               \/ \E l \in DOMAIN wire' : LiveAt(l)' /\ wire'[l].event = p
    <3>1. ASSUME NEW l \in DOMAIN wire', wire'[l] = wire[k]
          PROVE  \E m \in DOMAIN wire' : LiveAt(m)' /\ wire'[m].event = p
      BY <2>4, <3>1 DEF LiveAt
    <3> QED BY <2>4, <3>1
  <2> QED BY <2>1, <2>3, <2>4
<1>4. CASE p \notin mark[c] .. Count - 1
  <2>1. Count' = Count + 1 /\ p = Count
    BY <1>1, <1>2, <1>4
  <2> QED BY <1>1, <2>1
<1> QED BY <1>3, <1>4

\* Both reads of a client are behind it, and within the file.
LEMMA ReadsDone ==
    ASSUME Types, LoadsInOrder, Serves, NEW c \in subs \ degraded, load[c] \in After
    PROVE  Reads(c)
PROOF
<1>1. c \in Clients
  BY DEF Types, TypeOK
<1>2. CASE c \in loading
  <2>1. InLoad(c)
    BY <1>2 DEF LoadsInOrder, Loading
  <2>2. off[c] <= delta[c] /\ delta[c] <= Len(disk)
    BY <2>1 DEF InLoad, Delta
  <2>3. off[c] \in Nat /\ delta[c] \in Nat /\ Len(disk) \in Nat
    BY <1>1, DiskTypes DEF Types, TypeOK, Channels
  <2> QED BY <2>2, <2>3 DEF Reads
<1>3. CASE c \notin loading
  BY <1>3 DEF Serves, Served, InOrder, Reads
<1> QED BY <1>2, <1>3

\* Every step keeps every update accounted for.
LEMMA OwesStep ==
    ASSUME Types, Stamps, OnDisk, Queued, SentGrows, DiskGrows, Attendance, Stages, LiveOrder,
           LoadsInOrder, Serves, Owes, [Next]_vars
    PROVE  Owes'
PROOF
<1>0. subs \subseteq Clients /\ loading \subseteq subs /\ DOMAIN load = Clients /\ DOMAIN mark = Clients
  BY DEF Types, TypeOK, Channels
<1> DEFINE Keeps(c) == \A p \in Reached(c) : p \in Reached(c)' \/ Lost(c, p)
           Stays(c) == UNCHANGED <<load[c], mark[c], off[c], delta[c]>>
           WireKept == \A k \in DOMAIN wire : LiveAt(k) => \E l \in DOMAIN wire' : wire'[l] = wire[k]
<1>1. ASSUME NEW c \in subs \ degraded, Stays(c), Keeps(c), gated \subseteq gated',
             \A k \in DOMAIN wire : LiveAt(k) =>
                \/ \E l \in DOMAIN wire' : wire'[l] = wire[k]
                \/ wire[k].event \in Reached(c)' \/ Lost(c, wire[k].event),
             \/ Count' = Count
             \/ /\ Count' = Count + 1
                /\ Count \in gated' \/ \E k \in DOMAIN wire' : LiveAt(k)' /\ wire'[k].event = Count
      PROVE  Accounted(c)'
  <2>1. c \in Clients /\ Accounted(c)
    BY <1>0 DEF Owes
  <2>2. load[c] \in After => Reads(c)
    BY ReadsDone
  <2> QED BY <1>1, <2>1, <2>2, AccountKept
<1>2. ASSUME NEW u \in Notifications, NEW open \in BOOLEAN, Emit(u, open)
      PROVE  Owes'
  <2>1. UNCHANGED <<subs, degraded, shown, folded, buf, load, mark, off, delta>>
    BY <1>2 DEF Emit, agentVars, leaderVars, pagerVars
  <2>2. /\ \A k \in DOMAIN wire : k \in DOMAIN wire' /\ wire'[k] = wire[k]
        /\ Count' = Count + 1 /\ gated \subseteq gated'
        /\ Count \in gated' \/ \E k \in DOMAIN wire' : wire'[k].kind = "live" /\ wire'[k].event = Count
    BY <1>2, EmitWire
  <2>3. \A c \in Clients : Keeps(c) /\ Stays(c)
    BY <2>1 DEF Reached
  <2>4. Count \in gated' \/ \E k \in DOMAIN wire' : LiveAt(k)' /\ wire'[k].event = Count
    BY <2>2 DEF LiveAt
  <2> HIDE DEF Keeps, Stays
  <2>5. ASSUME NEW c \in subs \ degraded
        PROVE  Accounted(c)'
    BY <1>0, <1>1, <2>2, <2>3, <2>4, <2>5
  <2> QED BY <2>1, <2>5 DEF Owes
<1>3. ASSUME Persist \/ Quiet
      PROVE  Owes'
  <2>1. UNCHANGED <<wire, sent, subs, degraded, shown, folded, buf, load, mark, off,
                    delta, gated>>
    BY <1>3 DEF Persist, PersistUpdate, PersistFlush, Quiet, sessionVars, agentVars, leaderVars,
                pagerVars, history
  <2>2. \A c \in Clients : Keeps(c) /\ Stays(c)
    BY <2>1 DEF Reached
  <2>3. Count' = Count /\ gated \subseteq gated'
    BY <2>1, SameSent
  <2> HIDE DEF Keeps, Stays
  <2>4. ASSUME NEW c \in subs \ degraded
        PROVE  Accounted(c)'
    BY <1>0, <1>1, <2>1, <2>2, <2>3, <2>4
  <2> QED BY <2>1, <2>4 DEF Owes
<1>4. ASSUME NEW d \in Clients, Agent(d)
      PROVE  Owes'
  <2>1. /\ UNCHANGED <<sent, subs, shown, folded, buf, gated>> /\ degraded \subseteq degraded'
        /\ \A c \in Clients : c # d => load'[c] = load[c]
    BY <1>4, AgentMoves
  <2>2. \A k \in DOMAIN wire : k \in DOMAIN wire' /\ wire'[k] = wire[k]
    BY <1>4, AgentWire
  <2>3. \A c \in Clients : Keeps(c)
    BY <2>1 DEF Reached
  <2>4. \A c \in Clients : c # d => Stays(c)
    BY <1>4, <2>1, OtherReads
  <2>5. Count' = Count /\ gated \subseteq gated' /\ Count \in Nat
    BY <2>1, SameSent, DiskTypes
  <2>6. /\ load'[d] \in {"none", "wait2"} \cup After =>
              \/ load[d] \in {"none", "wait2"} \cup After /\ mark'[d] = mark[d]
              \/ mark'[d] = Count
        /\ load[d] \in After => load'[d] \in After /\ off'[d] = off[d] /\ delta'[d] = delta[d]
    <3>1. \/ FlushComplete(d) /\ mark' = [mark EXCEPT ![d] = Count]
          \/ ~FlushComplete(d) /\ mark' = mark
      BY <1>4 DEF Agent, LoadStart, FlushComplete, FlushTimeout, Flushed1, LoadFails, Replay,
                  DeltaReplay, OpenGate, Respond, history
    <3>2. ASSUME ~FlushComplete(d), load'[d] \in {"none", "wait2"} \cup After
          PROVE  load[d] \in {"none", "wait2"} \cup After
      BY <1>0, <1>4, <3>2 DEF Agent, LoadStart, FlushTimeout, Flushed1, LoadFails, Replay,
                              DeltaReplay, OpenGate, Respond, At, After
    <3>3. ASSUME load[d] \in After
          PROVE  load'[d] \in After /\ off' = off /\ delta' = delta
      <4>1. OpenGate(d) \/ Respond(d)
        BY <1>4, <3>3 DEF Agent, LoadStart, FlushComplete, FlushTimeout, Flushed1, LoadFails,
                          Replay, DeltaReplay, At, After
      <4> QED BY <1>0, <4>1 DEF OpenGate, Respond, At, After, history
    <3> QED BY <1>0, <3>1, <3>2, <3>3
  <2> HIDE DEF Stays
  <2>7. ASSUME NEW c \in subs' \ degraded'
        PROVE  Accounted(c)'
    <3>1. c \in Clients /\ c \in subs \ degraded /\ Accounted(c)
      BY <1>0, <2>1, <2>7 DEF Owes
    <3>2. CASE c # d
      BY <1>1, <2>2, <2>3, <2>4, <2>5, <3>1, <3>2
    <3>3. CASE c = d /\ mark'[d] = Count
      <4>1. \A e \in mark'[c] .. Count' - 1 : FALSE
        BY <2>5, <3>3
      <4> QED BY <4>1 DEF Accounted
    <3>4. CASE c = d /\ mark'[d] # Count
      <4>1. load[c] \in After => Reads(c)
        BY <3>1, ReadsDone
      <4> QED BY <2>2, <2>3, <2>5, <2>6, <3>1, <3>4, <4>1, AccountKept
    <3> QED BY <3>2, <3>3, <3>4
  <2> QED BY <2>7 DEF Owes
<1>5. ASSUME NEW d \in Clients, RequestLoad(d)
      PROVE  Owes'
  <2>1. /\ UNCHANGED <<wire, sent, degraded, shown, folded, buf, mark, off, delta, gated>>
        /\ subs' = subs \cup {d} /\ load' = [load EXCEPT ![d] = "requested"]
    BY <1>5 DEF RequestLoad, sessionVars, pagerVars, history
  <2>2. \A c \in Clients : Keeps(c)
    BY <2>1 DEF Reached
  <2>3. Count' = Count /\ gated \subseteq gated'
    BY <2>1, SameSent
  <2>4. ASSUME NEW c \in subs' \ degraded'
        PROVE  Accounted(c)'
    <3>1. CASE c # d
      <4>1. c \in subs \ degraded /\ Stays(c) /\ Keeps(c)
        BY <1>0, <2>1, <2>2, <2>4, <3>1
      <4> HIDE DEF Keeps, Stays
      <4> QED BY <1>1, <2>1, <2>3, <4>1
    <3>2. CASE c = d
      BY <1>0, <2>1, <3>2 DEF Accounted, After
    <3> QED BY <3>1, <3>2
  <2> QED BY <2>4 DEF Owes
<1>6. ASSUME NEW d \in Clients, Disconnect(d)
      PROVE  Owes'
  <2>1. /\ UNCHANGED <<wire, sent, load, mark, off, delta, gated>>
        /\ subs' = subs \ {d} /\ degraded' = degraded \ {d}
        /\ shown' = [shown EXCEPT ![d] = <<>>] /\ buf' = [buf EXCEPT ![d] = <<>>]
        /\ folded' = [folded EXCEPT ![d] = {}]
    BY <1>6 DEF Disconnect, sessionVars, agentVars
  <2>2. DOMAIN shown = Clients /\ DOMAIN buf = Clients /\ DOMAIN folded = Clients
    BY DEF Types, TypeOK, Channels
  <2>3. Count' = Count /\ gated \subseteq gated'
    BY <2>1, SameSent
  <2>4. ASSUME NEW c \in subs' \ degraded'
        PROVE  Accounted(c)'
    <3>1. c \in Clients /\ c \in subs \ degraded /\ c # d
      BY <1>0, <2>1, <2>4
    <3>2. Keeps(c) /\ Stays(c)
      BY <2>1, <2>2, <3>1 DEF Reached
    <3> HIDE DEF Keeps, Stays
    <3> QED BY <1>1, <2>1, <2>3, <3>1, <3>2
  <2> QED BY <2>4 DEF Owes
<1>7. ASSUME Route
      PROVE  /\ \A k \in DOMAIN wire : k = 1 \/ \E l \in DOMAIN wire' : wire'[l] = wire[k]
             /\ 1 \in DOMAIN wire /\ Head(wire) = wire[1]
  BY <1>7, RouteWire
<1>8. CASE RouteLive
  <2>1. /\ UNCHANGED <<sent, subs, loading, load, mark, off, delta, gated, folded>>
        /\ degraded' = degraded \cup {c \in subs \cap loading : ~Buffers(c)}
    BY <1>8 DEF RouteLive, sessionVars, agentVars
  <2>2. LiveAt(1)
    BY <1>7, <1>8 DEF Route, RouteLive, LiveAt
  <2>3. PICK e \in Places :
           /\ Head(wire).event = e
           /\ \A c \in Clients : buf'[c] = IF c \in subs /\ Buffers(c) THEN Append(buf[c], e) ELSE buf[c]
    BY <1>8, LiveRouted
  <2>9. Count' = Count /\ gated \subseteq gated' /\ e \in Nat /\ Id(e) \in Nat
    BY <2>1, SameSent, SentTypes
  <2>4. ASSUME NEW c \in subs' \ degraded'
        PROVE  Accounted(c)'
    <3>1. c \in Clients /\ c \in subs \ degraded /\ (c \in loading => Buffers(c))
      BY <1>0, <2>1, <2>4
    <3>2. /\ Range(shown[c]) \subseteq Range(shown'[c])
          /\ c \in subs /\ ~Buffers(c) => e \in Range(shown'[c]) \/ Id(e) <= hw[c]
      BY <1>8, <2>3, <3>1, LiveShown
    <3>3. buf[c] \in Seq(Places) /\ Stays(c)
      BY <2>1, <3>1 DEF Types, Channels
    <3>4. ASSUME Keeps(c), e \in Reached(c)' \/ Lost(c, e)
          PROVE  Accounted(c)'
      <4>1. \A k \in DOMAIN wire : LiveAt(k) =>
               \/ \E l \in DOMAIN wire' : wire'[l] = wire[k]
               \/ wire[k].event \in Reached(c)' \/ Lost(c, wire[k].event)
        BY <1>7, <1>8, <2>3, <3>4 DEF Route
      <4> HIDE DEF Keeps, Stays
      <4> QED BY <1>1, <2>9, <3>1, <3>3, <3>4, <4>1
    <3>5. CASE Buffers(c)
      <4>1. buf'[c] = Append(buf[c], e)
        BY <2>3, <3>1, <3>5
      <4>2. Range(buf[c]) \subseteq Range(buf'[c]) /\ e \in Range(buf'[c])
        <5> DEFINE s == buf[c]  r == buf'[c]
        <5>1. s \in Seq(Places) /\ r = Append(s, e)
          BY <3>3, <4>1
        <5> HIDE DEF s, r
        <5>2. /\ \A k \in DOMAIN s : k \in DOMAIN r /\ r[k] = s[k]
              /\ Len(r) \in DOMAIN r /\ r[Len(r)] = e
          BY <5>1, AppendedOne
        <5>3. Range(s) \subseteq Range(r) /\ e \in Range(r)
          BY <5>2 DEF Range
        <5> QED BY <5>3 DEF s, r
      <4>3. Keeps(c) /\ e \in Reached(c)'
        BY <2>1, <3>2, <4>2 DEF Reached
      <4> QED BY <3>4, <4>3
    <3>6. CASE ~Buffers(c)
      <4>1. c \in Served /\ buf'[c] = buf[c]
        BY <2>3, <3>1, <3>6 DEF Served
      <4>2. Keeps(c)
        BY <2>1, <3>2, <4>1 DEF Reached
      <4>3. CASE e \in Range(shown'[c])
        BY <3>4, <4>2, <4>3 DEF Reached
      <4>4. CASE Id(e) <= hw[c]
        <5>1. InOrder(c)
          BY <4>1 DEF Serves
        <5>2. hw[c] # NoSeq
          BY <2>9, <4>4 DEF NoSeq
        <5>3. PICK r \in Range(shown[c]) : hw[c] = Id(r)
          BY <5>1, <5>2 DEF InOrder
        <5>4. r \in Places /\ r \in Nat /\ Id(r) \in Nat
          BY <3>1, RangesKept, SentTypes
        <5>5. r < e
          BY <1>7, <1>8, <2>2, <2>3, <5>1 DEF Route, InOrder
        <5>6. Id(r) # Id(e)
          BY <5>4, <5>5 DEF Stamps
        <5>7. r \in 0 .. e - 1 /\ Id(e) < Id(r)
          BY <2>9, <4>4, <5>3, <5>4, <5>5, <5>6
        <5>8. Lost(c, e)
          BY <5>7 DEF Overtaken, Lost
        <5> QED BY <3>4, <4>2, <5>8
      <4> QED BY <3>1, <3>2, <3>6, <4>3, <4>4
    <3> QED BY <3>5, <3>6
  <2> QED BY <2>4 DEF Owes
<1>9. ASSUME RouteReplay \/ RouteResponse, NEW c \in subs', c \notin degraded',
             UNCHANGED <<sent, subs, degraded, load, mark, off, delta, gated>>, Keeps(c)
      PROVE  Accounted(c)'
  <2>1. \A k \in DOMAIN wire : LiveAt(k) => \E l \in DOMAIN wire' : wire'[l] = wire[k]
    BY <1>7, <1>9 DEF Route, RouteReplay, RouteResponse, LiveAt
  <2>2. c \in subs \ degraded /\ Stays(c) /\ Count' = Count /\ gated \subseteq gated'
    BY <1>9, SameSent
  <2>3. \A k \in DOMAIN wire : LiveAt(k) =>
           \/ \E l \in DOMAIN wire' : wire'[l] = wire[k]
           \/ wire[k].event \in Reached(c)' \/ Lost(c, wire[k].event)
    BY <2>1
  <2> HIDE DEF Keeps, Stays
  <2> QED BY <1>1, <1>9, <2>2, <2>3, Zenon
<1>10. CASE RouteReplay
  <2>1. PICK d \in Clients :
           /\ UNCHANGED <<sent, subs, degraded, load, mark, off, delta, gated, buf>>
           /\ \A c \in Clients : c # d => shown'[c] = shown[c] /\ folded'[c] = folded[c]
           /\ \/ /\ shown'[d] = shown[d] \o
                       [i \in 1 .. wire[1].hi - wire[1].lo + 1 |-> wire[1].lo + i - 1]
                 /\ folded[d] \subseteq folded'[d]
              \/ UNCHANGED <<shown, folded>>
    BY <1>10, ReplayRouted
  <2>2. Range(shown[d]) \subseteq Range(shown'[d]) /\ folded[d] \subseteq folded'[d]
    <3> DEFINE t == [i \in 1 .. wire[1].hi - wire[1].lo + 1 |-> wire[1].lo + i - 1]
               s == shown[d]  r == shown'[d]
    <3>1. wire[1].lo \in Nat /\ wire[1].hi \in Places
      BY <1>7, <1>10, WireTypes DEF Route, RouteReplay
    <3>2. t \in Seq(Places) /\ s \in Seq(Places) /\ (r = s \/ r = s \o t)
      <4>1. t \in Seq(Places)
        BY <3>1, RowsType, DiskTypes DEF Places
      <4>2. s \in Seq(Places)
        BY DEF Types, Channels
      <4> QED BY <2>1, <4>1, <4>2
    <3> HIDE DEF t, s, r
    <3>3. CASE r = s \o t
      <4>1. \A k \in DOMAIN s : k \in DOMAIN r /\ r[k] = s[k]
        BY <3>2, <3>3, Appended
      <4>2. Range(s) \subseteq Range(r)
        BY <4>1 DEF Range
      <4> QED BY <2>1, <4>2 DEF s, r
    <3>4. CASE r = s
      BY <2>1, <3>4 DEF s, r
    <3> QED BY <3>2, <3>3, <3>4
  <2>3. \A c \in Clients : Keeps(c)
    BY <2>1, <2>2 DEF Reached
  <2> HIDE DEF Keeps
  <2> QED BY <1>0, <1>9, <1>10, <2>1, <2>3 DEF Owes
<1>11. CASE RouteResponse
  <2>1. PICK d \in Clients :
           /\ ResponseAt(1, d)
           /\ UNCHANGED <<sent, subs, degraded, load, mark, off, delta, gated, folded>>
           /\ \A c \in Clients : c # d => buf'[c] = buf[c] /\ shown'[c] = shown[c]
           /\ d \notin loading => UNCHANGED <<buf, shown>>
    BY <1>11, ResponseRouted
  <2>2. ASSUME NEW c \in subs', c \notin degraded'
        PROVE  Keeps(c)
    <3>1. CASE c = d /\ d \in loading
      <4>1. c \in Loading /\ c \in Clients
        BY <2>1, <2>2, <3>1 DEF Loading
      <4>2. /\ Range(shown[c]) \subseteq Range(shown'[c])
            /\ Released(c)
        BY <1>11, <2>1, <3>1, <4>1, ResponseInOrder DEF LoadsInOrder
      <4>3. load[c] \in After
        <5>1. load[c] \in {"done", "failed"}
          BY <1>7, <1>11, <2>1, <3>1 DEF Route, Stages
        <5>2. load[c] # "failed"
          BY <2>1, <2>2, <4>1 DEF Attendance
        <5> QED BY <5>1, <5>2 DEF After
      <4>4. \A p \in Range(buf[c]) : p \in Range(shown'[c]) \cup folded'[c] \/ Lost(c, p)
        BY <2>1, <4>2, <4>3 DEF Released, Lost
      <4> QED BY <2>1, <4>2, <4>4 DEF Reached
    <3>2. CASE ~(c = d /\ d \in loading)
      BY <1>0, <2>1, <2>2, <3>2 DEF Reached
    <3> QED BY <3>1, <3>2
  <2> HIDE DEF Keeps
  <2> QED BY <1>9, <1>11, <2>1, <2>2 DEF Owes
<1> QED
  BY <1>2, <1>3, <1>4, <1>5, <1>6, <1>8, <1>10, <1>11, StepCases DEF Route

-----------------------------------------------------------------------------
(* The theorems *)

\* The invariant holds initially ...
LEMMA InvInit == Init => IInv
PROOF
<1> SUFFICES ASSUME Init
             PROVE  IInv
  OBVIOUS
<1>1. Types
  BY TypeInit
<1>2. /\ minted = 0 /\ events = <<>> /\ sent = <<>>
      /\ gate = TRUE /\ chan = <<>> /\ pend = NoLine /\ disk = <<>> /\ wire = <<>>
      /\ loading = {} /\ degraded = {} /\ subs = Attached /\ acked = {} /\ Attached \subseteq Clients
      /\ \A c \in Clients : /\ load[c] = "none" /\ buf[c] = <<>> /\ shown[c] = <<>>
                            /\ folded[c] = {} /\ off[c] = 0 /\ delta[c] = 0
                            /\ hw[c] = NoSeq /\ cutoff[c] = NoSeq /\ mark[c] = 0
                            /\ conn[c] = IF c \in Attached THEN "up" ELSE "new"
  BY LoadAssumption DEF Init
<1>3. Written = 0 /\ Merged = 0 /\ Count = 0
  BY <1>2 DEF Written, Merged, DiskEnd, Count
<1>4. OnDisk /\ Queued /\ Texts
  BY <1>2, <1>3 DEF OnDisk, InFile, Queued, Texts
<1>5. Places = {} /\ Announced = {}
  <2>1. Places = {}
    BY <1>3 DEF Places
  <2>2. Announced = {}
    BY <1>2 DEF Announced, Range
  <2> QED BY <2>1, <2>2
<1>6. Stamps
  BY <1>2, <1>5 DEF Stamps
<1>7. Attendance /\ Stages /\ Answered /\ LiveOrder /\ GateIsHeld
  BY <1>2 DEF Attendance, Stages, Answered, LiveOrder, GateIsHeld
<1>8. LoadsInOrder
  BY <1>2 DEF LoadsInOrder, Loading
<1>9. Serves
  BY <1>2 DEF Serves, Served, InOrder, Chronicle, Range
<1>10. Owes
  BY <1>2, <1>3 DEF Owes, Accounted
<1> QED BY <1>1, <1>4, <1>6, <1>7, <1>8, <1>9, <1>10 DEF IInv

\* ... every step preserves it ...
LEMMA InvStep == IInv /\ [Next]_vars => IInv'
PROOF
<1> SUFFICES ASSUME IInv, [Next]_vars
             PROVE  IInv'
  OBVIOUS
<1>1. /\ Types /\ Stamps /\ OnDisk /\ Queued /\ Texts /\ Attendance /\ Stages /\ Answered
      /\ LiveOrder /\ LoadsInOrder /\ Serves /\ Owes /\ GateIsHeld
  BY DEF IInv
<1>2. Types'
  BY <1>1, TypeStep
<1>3. OnDisk' /\ Queued' /\ DiskGrows
  BY <1>1, <1>2, DiskStep
<1>4. SentGrows /\ Stamps' /\ Texts'
  BY <1>1, SentStep, StampsStep, TextsStep
<1>5. Attendance'
  BY <1>1, AttendanceStep
<1>6. Stages' /\ Answered' /\ LiveOrder' /\ GateIsHeld'
  BY <1>1, StagesStep, AnsweredStep, LiveOrderStep, GateStep
<1>7. LoadsInOrder'
  BY <1>1, <1>2, <1>3, <1>4, <1>5, <1>6, LoadsStep
<1>8. Serves' /\ Owes'
  BY <1>1, <1>3, <1>4, ServesStep, OwesStep
<1> QED BY <1>2, <1>3, <1>4, <1>5, <1>6, <1>7, <1>8 DEF IInv

\* ... so it always holds.
LEMMA InvHolds == Spec => []IInv
  BY InvInit, InvStep, PTL DEF Spec

\* It implies what the runs check: transcripts are in order,
LEMMA InvInOrder == IInv => TranscriptInOrder
PROOF
<1> SUFFICES ASSUME IInv, NEW c \in Clients \ degraded
             PROVE  /\ \A i, j \in DOMAIN shown[c] : i < j =>
                          \/ shown[c][i] < shown[c][j]
                          \/ Id(shown[c][i]) < Id(shown[c][j])
                    /\ Range(shown[c]) \cap folded[c] = {}
  BY DEF TranscriptInOrder
<1>1. CASE c \in Loading
  <2>1. Prefix(c)
    BY <1>1 DEF IInv, LoadsInOrder, InLoad
  <2>2. Range(shown[c]) \cap folded[c] = {}
    BY <2>1 DEF Prefix, Row, Fold
  <2> QED BY <2>1, <2>2 DEF Prefix, Increasing
<1>2. CASE c \in Served
  BY <1>2 DEF IInv, Serves, InOrder, Chronicle, Before
<1>3. CASE c \notin subs
  <2>1. shown[c] = <<>> /\ folded[c] = {}
    BY <1>3 DEF IInv, Attendance
  <2> QED BY <2>1
<1> QED BY <1>1, <1>2, <1>3 DEF Loading, Served

\* what is missing is accounted for,
LEMMA InvMisses == IInv => MissesAreAccounted
PROOF
<1> SUFFICES ASSUME IInv, NEW c \in Clients, Settled(c), NEW p \in 0 .. Count - 1,
                    p \notin Range(shown[c]) \cup folded[c],
                    ~Overtaken(p), ~KeptBack(c, p)
             PROVE  p \in gated /\ p >= mark[c]
  BY DEF MissesAreAccounted
<1>1. /\ c \in Served /\ c \in subs \ degraded /\ load[c] \in {"none", "done"}
      /\ wire = <<>> /\ c \notin loading
  BY DEF Settled, IInv, Attendance, Served
<1>2. Count \in Nat /\ mark[c] \in Nat
  <2>1. Types
    BY DEF IInv
  <2> QED BY <2>1, DiskTypes DEF Types, Channels
<1>3. p >= mark[c]
  <2>1. \A q \in 0 .. mark[c] - 1 : q \in Range(shown[c]) \cup folded[c] \/ KeptBack(c, q)
    BY <1>1 DEF IInv, Serves, InOrder
  <2> QED BY <1>2, <2>1
<1>4. p \in mark[c] .. Count - 1
  BY <1>2, <1>3
<1>5. Accounted(c) /\ load[c] \in {"none", "wait2"} \cup After
  BY <1>1 DEF IInv, Owes, After
<1>6. \/ p \in gated \/ p \in Reached(c) \/ Lost(c, p)
      \/ \E k \in DOMAIN wire : LiveAt(k) /\ wire[k].event = p
  BY <1>4, <1>5 DEF Accounted
<1>7. buf[c] = <<>>
  BY <1>1 DEF IInv, Types, TypeOK
<1>8. p \notin Reached(c)
  BY <1>7 DEF Reached, Range
<1> QED BY <1>1, <1>3, <1>6, <1>8 DEF Lost

\* and what is held back will be released.
LEMMA InvHeld == IInv => HeldForALoad
PROOF
<1> SUFFICES ASSUME IInv, NEW c \in loading, load[c] \in {"none", "done", "failed"}
             PROVE  Response(c) \in Range(wire)
  BY DEF HeldForALoad
<1>1. PICK k \in DOMAIN wire : ResponseAt(k, c)
  BY DEF IInv, Answered
<1>2. wire[k] \in Messages
  <2>1. Types
    BY DEF IInv
  <2> QED BY <2>1, WireTypes
<1>3. wire[k] \in [kind : {"response"}, client : Clients] /\ wire[k].client = c
  BY <1>1, <1>2 DEF ResponseAt, Messages
<1>4. wire[k] = Response(c)
  BY <1>3 DEF Response
<1> QED BY <1>4 DEF Range

\* Ids, lines and buffers stay within their types and bounds, whatever the session, the
\* persistence actor, the loads, the leader and the pagers do.
THEOREM LoadTypeCorrect == Spec => []TypeOK
PROOF
<1>1. IInv => TypeOK
  BY DEF IInv, Types
<1> QED BY <1>1, InvHolds, PTL

\* No pager ever renders an update twice, nor two against both the order of sending and
\* that of the ids, although what goes past event_tx overtakes what waits in it: the
\* replay, the held-back and the live updates join up at the leader's cutoff.
THEOREM InOrderCorrect == Spec => []TranscriptInOrder
  BY InvHolds, InvInOrder, PTL

\* An attached client lacks only what was sent after the second flush of its load while
\* the gate was closed, what an update with a higher id overtook, and what its two reads
\* kept back.
THEOREM MissesCorrect == Spec => []MissesAreAccounted
  BY InvHolds, InvMisses, PTL

\* gateway_enabled is false only while a load holds it, or after one failed.
THEOREM GateCorrect == Spec => []GateIsHeld
PROOF
<1>1. IInv => GateIsHeld
  BY DEF IInv
<1> QED BY <1>1, InvHolds, PTL

\* The leader holds updates back only for a load that will still be answered.
THEOREM HeldLoadCorrect == Spec => []HeldForALoad
  BY InvHolds, InvHeld, PTL
=============================================================================
