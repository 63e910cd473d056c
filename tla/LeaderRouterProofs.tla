--------------------------- MODULE LeaderRouterProofs ---------------------------
(***************************************************************************)
(* The safety properties of LeaderRouter, for any number of clients,       *)
(* subagents, questions and restarts, any buffer limit.                    *)
(*                                                                         *)
(* The inductive invariant follows three stories through the channels.     *)
(* Attendance: the root's subscribers are the clients that are there, so   *)
(* a spawn is routed live or nobody is there to miss it; a client that     *)
(* comes later has the spawn in its replay (Registered), because the file  *)
(* has the spawn of whatever runs (Recorded).  Routes of finished          *)
(* subagents: a replayed spawn may set one up again, but then the replayed *)
(* finish follows on the wire, or the reconciliation at the end of that    *)
(* load removes it (ReplayEnds, StaleEnds).  Questions: the cache is       *)
(* exactly what is open, and what a loading client shows, with the         *)
(* messages held back for it applied, is open too (Questioned).            *)
(***************************************************************************)
EXTENDS LeaderRouter, FiniteSetTheorems, TLAPS

\* A line of the file, a message for the pager, a replayed line on the wire.
Line == [event : {"spawned", "finished"}, child : Subagents]
Message == [show : BOOLEAN, id : Questions]
Addressed == [to : Clients, line : Line]

\* The types of what TypeOK leaves open.
Channels ==
    /\ log \in Seq(Line) /\ wire \in Seq(Addressed)
    /\ buf \in [Clients -> Seq(Message)]
    /\ unfinished \in [Clients -> SUBSET Subagents]
    /\ off \in [Clients -> Nat]
    /\ modal \in [Clients -> SUBSET Questions]

\* The subscribers of the root are the clients that are there; those of them whose
\* load is under way have a buffer.
Attendance ==
    /\ subs[Root] = {c \in Clients : conn[c] = "up"}
    /\ loading = {c \in Clients : conn[c] = "up" /\ load[c] \in {"requested", "replay", "delta"}}
    /\ \A c \in Clients : conn[c] = "new" => load[c] = "none"
    /\ \A i \in 1 .. Len(wire) : conn[wire[i].to] # "new"

\* What is known of a subagent follows its spawn.
Born ==
    \A k \in Subagents : Spawned(k) \notin Range(log) =>
        /\ k \notin meta /\ k \notin routed /\ Finished(k) \notin Range(log)
        /\ \A c \in Clients : k \notin unfinished[c]

\* The file has the spawn of a subagent before its finish.
LogOrder ==
    \A i, j \in 1 .. Len(log) :
        (log[i].event = "spawned" /\ log[j].event = "finished" /\ log[i].child = log[j].child)
            => i < j

\* Nothing says of a running subagent that it is finished.
AliveIsOpen ==
    \A k \in alive : /\ Finished(k) \notin Range(log)
                     /\ \A i \in 1 .. Len(wire) : wire[i].line # Finished(k)

\* A subagent that was routed live has the root's subscribers.
Followed == \A k \in alive \cap routed : k \in kids /\ subs[k] = subs[Root]

\* A client that has had the replay follows every subagent, or the line is on its way.
Registered ==
    \A c \in Clients, k \in alive : conn[c] = "up" =>
        /\ load[c] = "replay" =>
              \/ c \in subs[k]
              \/ \E i \in 1 .. Len(wire) : wire[i].to = c /\ wire[i].line = Spawned(k)
        /\ load[c] \in {"delta", "done"} => c \in subs[k]

\* The response to the load of c will finish k.
Reconciles(c, k) == load[c] \in {"replay", "delta"} /\ k \in unfinished[c]

\* The finish of k is on the wire to c, behind place i.
FinishAfter(i, c, k) ==
    \E j \in 1 .. Len(wire) : j > i /\ wire[j].to = c /\ wire[j].line = Finished(k)

\* A route that is to go: the replayed finish is on its way to c, or its load finishes k.
Ends(c, k) == FinishAfter(0, c, k) \/ Reconciles(c, k)

\* A replayed spawn of a finished subagent is followed by what ends the route it sets up.
ReplayEnds ==
    \A i \in 1 .. Len(wire), k \in Subagents \ (alive \cup caught) :
        wire[i].line = Spawned(k) =>
            FinishAfter(i, wire[i].to, k) \/ Reconciles(wire[i].to, k)

\* Whoever subscribes to a finished subagent is about to leave it, and the route of
\* one is taken down by a client that still subscribes or has gone.
StaleEnds ==
    \A k \in Subagents \ (alive \cup caught) :
        /\ \A c \in subs[k] : Ends(c, k)
        /\ k \in kids => \E c \in Clients : (c \in subs[k] \/ conn[c] = "gone") /\ Ends(c, k)

\* The questions that wait for an answer.
Open == {q \in Questions : ask[q] = "open"}

\* The cache is what is open; once its buffer is applied a client shows no more.
Questioned ==
    /\ cache = Open
    /\ \A c \in Clients \ degraded : Rendered(modal[c], buf[c]) \subseteq Open
    /\ \A c \in Clients : conn[c] # "up" => modal[c] = {}

\* The file, the routes and the questions.
Recorded == Born /\ LogOrder /\ AliveIsOpen
Routes   == Followed /\ SubagentIsDriven /\ Registered /\ ReplayEnds /\ StaleEnds
Asked    == Questioned /\ LoadedShowsOpenQuestions

\* The inductive invariant.
IInv == TypeOK /\ Channels /\ Attendance /\ RootIsDriven /\ Recorded /\ Routes /\ Asked

--------------------------------------------------------------------------------
(* Sequences and lines. *)

LEMMA AppendAt ==
    ASSUME NEW S, NEW s \in Seq(S), NEW e \in S
    PROVE  /\ Append(s, e) \in Seq(S)
           /\ Len(Append(s, e)) = Len(s) + 1
           /\ \A i \in 1 .. Len(s) : Append(s, e)[i] = s[i]
           /\ Append(s, e)[Len(s) + 1] = e
           /\ Len(s) \in Nat
  OBVIOUS

LEMMA TailAt ==
    ASSUME NEW S, NEW s \in Seq(S), s # <<>>
    PROVE  /\ Tail(s) \in Seq(S)
           /\ Len(s) \in Nat /\ Len(s) >= 1
           /\ Len(Tail(s)) = Len(s) - 1
           /\ \A i \in 1 .. Len(s) - 1 : Tail(s)[i] = s[i + 1]
           /\ Head(s) = s[1] /\ Head(s) \in S
  OBVIOUS

LEMMA ConcatAt ==
    ASSUME NEW S, NEW s \in Seq(S), NEW e \in Seq(S)
    PROVE  /\ s \o e \in Seq(S)
           /\ Len(s) \in Nat /\ Len(e) \in Nat
           /\ Len(s \o e) = Len(s) + Len(e)
           /\ \A i \in 1 .. Len(s) : (s \o e)[i] = s[i]
           /\ \A i \in 1 .. Len(e) : (s \o e)[Len(s) + i] = e[i]
  OBVIOUS

LEMMA RangeAt ==
    ASSUME NEW S, NEW s \in Seq(S)
    PROVE  /\ \A x : x \in Range(s) <=> \E i \in 1 .. Len(s) : s[i] = x
           /\ Len(s) \in Nat
  BY DEF Range

\* SetToSeq lists the elements of a finite set.
LEMMA Listed ==
    ASSUME NEW S, IsFiniteSet(S)
    PROVE  /\ SetToSeq(S) \in Seq(S)
           /\ \A x \in S : \E i \in 1 .. Len(SetToSeq(S)) : SetToSeq(S)[i] = x
<1> DEFINE n == Cardinality(S)
           f == SetToSeq(S)
<1>1. n \in Nat /\ ExistsBijection(1 .. n, S)
  BY FS_CardinalityType
<1>2. PICK b \in Bijection(1 .. n, S) : TRUE
  BY <1>1 DEF ExistsBijection
<1>3. b \in [1 .. n -> S] /\ IsInjective(b)
  BY <1>2 DEF Bijection, Injection, IsInjective
<1>4. f \in [1 .. n -> S] /\ IsInjective(f)
  BY <1>3 DEF SetToSeq
<1>5. f \in Injection(1 .. n, S)
  BY <1>4 DEF Injection
<1>6. Cardinality(1 .. n) = n
  BY <1>1, FS_Interval
<1>7. f \in Surjection(1 .. n, S)
  BY <1>5, <1>6, FS_Injection
<1>8. f \in Seq(S) /\ Len(f) = n
  BY <1>1, <1>4
<1> HIDE DEF f
<1> QED BY <1>1, <1>7, <1>8 DEF Surjection, f

\* The messages and lines that Respond lists.
LEMMA FinishedLines ==
    ASSUME NEW K, K \subseteq Subagents
    PROVE  /\ SetToSeq({Finished(k) : k \in K}) \in Seq(Line)
           /\ \A k \in K : \E i \in 1 .. Len(SetToSeq({Finished(j) : j \in K})) :
                  SetToSeq({Finished(j) : j \in K})[i] = Finished(k)
           /\ \A i \in 1 .. Len(SetToSeq({Finished(j) : j \in K})) :
                  \E k \in K : SetToSeq({Finished(j) : j \in K})[i] = Finished(k)
<1> DEFINE S == {Finished(k) : k \in K}
           f == [k \in K |-> Finished(k)]
<1>1. IsFiniteSet(K)
  BY RouterAssumption, FS_Subset
<1>2. f \in Surjection(K, S)
  BY DEF Surjection
<1>3. IsFiniteSet(S)
  BY <1>1, <1>2, FS_Surjection
<1>4. S \subseteq Line
  BY DEF Line, Finished
<1> HIDE DEF S
<1>5. /\ SetToSeq(S) \in Seq(S)
      /\ \A x \in S : \E i \in 1 .. Len(SetToSeq(S)) : SetToSeq(S)[i] = x
  BY <1>3, Listed
<1>6. SetToSeq(S) \in Seq(Line)
  BY <1>4, <1>5
<1>7. \A i \in 1 .. Len(SetToSeq(S)) : SetToSeq(S)[i] \in S
  BY <1>5
<1> QED BY <1>5, <1>6, <1>7 DEF S

LEMMA ShownMessages ==
    ASSUME NEW Q, Q \subseteq Questions
    PROVE  /\ SetToSeq({Shows(q) : q \in Q}) \in Seq(Message)
           /\ \A q \in Q : \E i \in 1 .. Len(SetToSeq({Shows(j) : j \in Q})) :
                  SetToSeq({Shows(j) : j \in Q})[i] = Shows(q)
           /\ \A i \in 1 .. Len(SetToSeq({Shows(j) : j \in Q})) :
                  \E q \in Q : SetToSeq({Shows(j) : j \in Q})[i] = Shows(q)
<1> DEFINE S == {Shows(q) : q \in Q}
           f == [q \in Q |-> Shows(q)]
<1>1. IsFiniteSet(Q)
  BY RouterAssumption, FS_Subset
<1>2. f \in Surjection(Q, S)
  BY DEF Surjection
<1>3. IsFiniteSet(S)
  BY <1>1, <1>2, FS_Surjection
<1>4. S \subseteq Message
  <2>1. \A q \in Q : Shows(q) \in Message
    BY DEF Message, Shows
  <2> QED BY <2>1
<1> HIDE DEF S
<1>5. /\ SetToSeq(S) \in Seq(S)
      /\ \A x \in S : \E i \in 1 .. Len(SetToSeq(S)) : SetToSeq(S)[i] = x
  BY <1>3, Listed
<1>6. SetToSeq(S) \in Seq(Message)
  BY <1>4, <1>5
<1>7. \A i \in 1 .. Len(SetToSeq(S)) : SetToSeq(S)[i] \in S
  BY <1>5
<1> QED BY <1>5, <1>6, <1>7 DEF S

\* Lines are told apart by their event and their child, messages by what they do.
LEMMA Records ==
    /\ \A k \in Subagents : Spawned(k) \in Line /\ Finished(k) \in Line
    /\ \A k, j : Spawned(k) # Finished(j)
    /\ \A k, j : Spawned(k) = Spawned(j) => k = j
    /\ \A k, j : Finished(k) = Finished(j) => k = j
    /\ \A k : Spawned(k).child = k /\ Finished(k).child = k
    /\ \A k : Spawned(k).event = "spawned" /\ Finished(k).event = "finished"
    /\ \A l \in Line : /\ l.child \in Subagents
                       /\ l.event = "spawned" => l = Spawned(l.child)
                       /\ l.event = "finished" => l = Finished(l.child)
                       /\ l.event \in {"spawned", "finished"}
    /\ \A q \in Questions : Shows(q) \in Message /\ Retracts(q) \in Message
    /\ \A q, p : Shows(q) # Retracts(p)
    /\ \A q, p : Shows(q) = Shows(p) => q = p
    /\ \A q, p : Retracts(q) = Retracts(p) => q = p
  BY DEF Spawned, Finished, Line, Message, Shows, Retracts

\* Every replayed line has an addressee and is a spawn or a finish.
LEMMA WireAt ==
    ASSUME Channels
    PROVE  /\ Len(wire) \in Nat /\ Len(log) \in Nat
           /\ \A i \in 1 .. Len(wire) : wire[i].to \in Clients /\ wire[i].line \in Line
           /\ \A i \in 1 .. Len(log) : log[i] \in Line
<1>1. wire \in Seq(Addressed) /\ log \in Seq(Line)
  BY DEF Channels
<1>2. \A i \in 1 .. Len(wire) : wire[i] \in Addressed
  BY <1>1
<1> QED BY <1>1, <1>2 DEF Addressed

--------------------------------------------------------------------------------
(* What a step that leaves their variables alone keeps. *)

LEMMA RecordedKept ==
    ASSUME Recorded, UNCHANGED <<log, meta, routed, unfinished, alive, wire>>
    PROVE  Recorded'
  BY DEF Recorded, Born, LogOrder, AliveIsOpen

LEMMA RoutesKept ==
    ASSUME Routes,
           UNCHANGED <<conn, subs, driver, kids, alive, routed, wire, load, unfinished, caught>>
    PROVE  Routes'
  BY DEF Routes, Followed, SubagentIsDriven, Registered, ReplayEnds, StaleEnds, Ends,
         FinishAfter, Reconciles

LEMMA AskedKept ==
    ASSUME Asked, UNCHANGED <<cache, ask, modal, buf, degraded>>,
           \A c \in Clients : (Loaded(c)' => Loaded(c)) /\ (conn[c] = "up" => conn'[c] = "up")
    PROVE  Asked'
  BY DEF Asked, Questioned, LoadedShowsOpenQuestions, Open

--------------------------------------------------------------------------------
(* A client joins the root: Request and RequestLoad. *)

\* The routes after Join, session by session.
Joined(c) ==
    /\ conn[c] \in {"new", "up"}
    /\ conn' = [conn EXCEPT ![c] = "up"]
    /\ subs' \in [Sessions -> SUBSET {d \in Clients : conn'[d] = "up"}]
    /\ driver' \in [Sessions -> Clients \cup {None}]
    /\ subs'[Root] = subs[Root] \cup {c}
    /\ driver'[Root] = IF driver[Root] = None THEN c ELSE driver[Root]
    /\ \A k \in kids : /\ subs'[k] = subs[k] \cup {c}
                       /\ driver'[k] = IF driver[k] = None THEN driver'[Root] ELSE driver[k]
    /\ \A k \in Subagents \ kids : subs'[k] = subs[k] /\ driver'[k] = driver[k]
    /\ kids' = kids /\ caught' = caught \cup (kids \ alive)
    /\ UNCHANGED <<buf, modal, twice, degraded, cache, agentVars, wire, off, unfinished,
                   routed, restarts>>

LEMMA JoinDoes ==
    ASSUME TypeOK, NEW c \in Clients, Request(c) \/ RequestLoad(c)
    PROVE  Joined(c)
<1> DEFINE sub == [subs EXCEPT ![Root] = @ \cup {c}]
           drv == [driver EXCEPT ![Root] = IF @ = None THEN c ELSE @]
<1>1. Join(c)
  BY DEF Request, RequestLoad
<1>2. /\ conn[c] \in {"new", "up"} /\ conn' = [conn EXCEPT ![c] = "up"]
      /\ subs' = [s \in Sessions |-> IF s \in kids THEN sub[s] \cup {c} ELSE sub[s]]
      /\ driver' = [s \in Sessions |-> IF s \in kids /\ drv[s] = None
                                       THEN drv[Root] ELSE drv[s]]
      /\ kids' = kids /\ caught' = caught \cup (kids \ alive)
  BY <1>1 DEF Join, Backfill
<1>3. /\ Root \in Sessions /\ Root \notin kids /\ kids \subseteq Sessions
      /\ Subagents \subseteq Sessions /\ Root \notin Subagents
  BY RouterAssumption DEF TypeOK, Sessions
<1>4. /\ conn \in [Clients -> {"new", "up", "gone"}]
      /\ subs \in [Sessions -> SUBSET {d \in Clients : conn[d] = "up"}]
      /\ driver \in [Sessions -> Clients \cup {None}]
  BY DEF TypeOK
<1>5. /\ sub \in [Sessions -> SUBSET Clients] /\ drv \in [Sessions -> Clients \cup {None}]
      /\ sub[Root] = subs[Root] \cup {c}
      /\ drv[Root] = IF driver[Root] = None THEN c ELSE driver[Root]
      /\ \A k \in Subagents : sub[k] = subs[k] /\ drv[k] = driver[k]
  BY <1>3, <1>4
<1>6. driver' \in [Sessions -> Clients \cup {None}]
  BY <1>2, <1>3, <1>5
<1>7. \A d \in Clients : conn[d] = "up" \/ d = c => conn'[d] = "up"
  BY <1>2, <1>4
<1>8. \A s \in Sessions : sub[s] \cup {c} \subseteq {d \in Clients : conn'[d] = "up"}
  BY <1>4, <1>5, <1>7
<1>9. subs' \in [Sessions -> SUBSET {d \in Clients : conn'[d] = "up"}]
  BY <1>2, <1>8
<1>10. /\ subs'[Root] = sub[Root] /\ driver'[Root] = drv[Root]
       /\ \A k \in kids : /\ subs'[k] = sub[k] \cup {c}
                          /\ driver'[k] = IF drv[k] = None THEN drv[Root] ELSE drv[k]
       /\ \A k \in Subagents \ kids : subs'[k] = sub[k] /\ driver'[k] = drv[k]
  BY <1>2, <1>3
<1>11. kids \subseteq Subagents
  BY DEF TypeOK
<1> HIDE DEF sub, drv
<1>12. UNCHANGED <<buf, modal, twice, degraded, cache, agentVars, wire, off, unfinished,
                   routed, restarts>>
  BY <1>1 DEF Request, RequestLoad, Join, holdVars, loadVars
<1> QED
  BY <1>2, <1>5, <1>6, <1>9, <1>10, <1>11, <1>12 DEF Joined

LEMMA JoinTypes ==
    ASSUME TypeOK, Channels, Attendance, RootIsDriven, NEW c \in Clients,
           Request(c) \/ RequestLoad(c)
    PROVE  TypeOK' /\ Channels' /\ Attendance' /\ RootIsDriven'
<1>1. Joined(c)
  BY JoinDoes
<1>2. \/ UNCHANGED <<loading, load>>
      \/ /\ load[c] = "none" /\ loading' = loading \cup {c}
         /\ load' = [load EXCEPT ![c] = "requested"]
  BY DEF Request, RequestLoad, holdVars, loadVars
<1>3. UNCHANGED <<evict, alive, meta, ask, log, wire, buf, unfinished, off, modal, cache, kids>>
  BY <1>1 DEF Joined, agentVars, unloadVars
<1>4. Channels'
  BY <1>3 DEF Channels
<1>5. \A d \in Clients : conn'[d] = IF d = c THEN "up" ELSE conn[d]
  BY <1>1 DEF Joined, TypeOK
<1>6. /\ \A d \in Clients \ {c} : load'[d] = load[d]
      /\ \/ UNCHANGED <<loading, load>>
         \/ load[c] = "none" /\ load'[c] = "requested" /\ loading' = loading \cup {c}
  BY <1>2 DEF TypeOK
<1>7. load' \in [Clients -> Loads]
  BY <1>2 DEF TypeOK, Loads
<1>8. Attendance'
  <2>1. subs'[Root] = {d \in Clients : conn'[d] = "up"}
    BY <1>1, <1>5 DEF Joined, Attendance
  <2>2. loading' = {d \in Clients : conn'[d] = "up" /\ load'[d] \in {"requested", "replay", "delta"}}
    BY <1>1, <1>2, <1>5, <1>6 DEF Joined, Attendance
  <2>3. \A d \in Clients : conn'[d] = "new" => load'[d] = "none"
    BY <1>5, <1>6 DEF Attendance
  <2>4. \A i \in 1 .. Len(wire) : wire[i].to \in Clients
    BY WireAt
  <2>5. \A i \in 1 .. Len(wire') : conn'[wire'[i].to] # "new"
    BY <1>3, <1>5, <2>4 DEF Attendance
  <2> QED BY <2>1, <2>2, <2>3, <2>5 DEF Attendance
<1>9. conn' \in [Clients -> {"new", "up", "gone"}]
  BY <1>1 DEF Joined, TypeOK
<1>10. loading' \subseteq subs'[Root]
  BY <1>8 DEF Attendance
<1>11. \A d \in Clients : Len(buf'[d]) <= MaxBuffer /\ (d \notin loading' => buf'[d] = <<>>)
  BY <1>2, <1>3 DEF TypeOK
<1>12. TypeOK'
  BY <1>1, <1>3, <1>7, <1>9, <1>10, <1>11 DEF TypeOK, Joined
<1>13. RootIsDriven'
  BY <1>1, RouterAssumption DEF RootIsDriven, Joined
<1> QED BY <1>4, <1>8, <1>12, <1>13

LEMMA JoinRoutes ==
    ASSUME TypeOK, Channels, Attendance, RootIsDriven, Routes, NEW c \in Clients,
           Request(c) \/ RequestLoad(c)
    PROVE  Routes'
<1>0. Joined(c)
  BY JoinDoes
<1>1. UNCHANGED <<kids, alive, routed, wire, unfinished>>
  BY <1>0 DEF Joined, agentVars
<1>2. \A d \in Clients \ {c} : load'[d] = load[d] /\ conn'[d] = conn[d]
  BY <1>0 DEF Request, RequestLoad, loadVars, Joined, TypeOK
<1>3. load'[c] # load[c] => load[c] = "none" /\ load'[c] = "requested"
  BY DEF Request, RequestLoad, loadVars, TypeOK
<1>4. alive \subseteq Subagents /\ kids \subseteq Subagents
  BY DEF TypeOK
<1>5. conn[c] \in {"new", "up"} /\ conn'[c] = "up" /\ (conn[c] = "new" => load[c] = "none")
  BY <1>0 DEF Joined, Attendance, TypeOK
<1>6. /\ \A k \in kids : subs'[k] = subs[k] \cup {c}
      /\ \A k \in Subagents \ kids : subs'[k] = subs[k]
      /\ subs'[Root] = subs[Root] \cup {c}
  BY <1>0 DEF Joined
<1>7. Followed'
  BY <1>1, <1>6 DEF Routes, Followed
<1>8. SubagentIsDriven'
  <2> SUFFICES ASSUME NEW k \in alive \cap routed PROVE driver'[k] \in subs'[k]
    BY <1>1, <1>4, <1>6, <1>7 DEF SubagentIsDriven, Routes, Followed
  <2>1. k \in kids /\ subs'[k] = subs'[Root]
    BY <1>1, <1>7 DEF Followed
  <2>2. driver'[k] = IF driver[k] = None THEN driver'[Root] ELSE driver[k]
    BY <1>0, <2>1 DEF Joined
  <2>3. driver'[Root] \in subs'[Root]
    BY <1>0 DEF Joined, RootIsDriven
  <2>4. driver[k] # None => driver[k] \in subs[k]
    BY DEF Routes, SubagentIsDriven
  <2> QED BY <1>6, <2>1, <2>2, <2>3, <2>4
<1>9. Registered'
  <2> SUFFICES ASSUME NEW d \in Clients, NEW k \in alive, conn'[d] = "up",
                      load'[d] \in {"replay", "delta", "done"}
               PROVE  Registered!(d, k)'
    BY <1>1 DEF Registered
  <2>1. conn[d] = "up" /\ load'[d] = load[d]
    BY <1>2, <1>3, <1>5
  <2>2. Registered!(d, k)
    BY DEF Routes, Registered
  <2> QED BY <1>1, <1>4, <1>6, <2>1, <2>2
<1>10. ReplayEnds'
  <2>1. \A d \in Clients, k \in Subagents : Reconciles(d, k) => Reconciles(d, k)'
    BY <1>1, <1>2, <1>3 DEF Reconciles
  <2>2. \A i \in 1 .. Len(wire) : wire[i].to \in Clients
    BY WireAt
  <2>3. caught \subseteq caught'
    BY <1>0 DEF Joined
  <2> QED BY <1>1, <2>1, <2>2, <2>3 DEF Routes, ReplayEnds, FinishAfter
<1>11. StaleEnds'
  <2> SUFFICES ASSUME NEW k \in Subagents \ (alive \cup caught') PROVE StaleEnds!(k)'
    BY <1>1 DEF StaleEnds
  <2>1. k \notin kids /\ k \notin alive /\ k \notin caught
    BY <1>0 DEF Joined
  <2>2. subs'[k] = subs[k] /\ subs[k] \subseteq Clients
    BY <1>6, <2>1 DEF TypeOK, Sessions
  <2>3. \A d \in subs[k] : Ends(d, k)
    BY <2>1 DEF Routes, StaleEnds
  <2>4. \A d \in subs[k] : Ends(d, k)'
    BY <1>1, <1>2, <1>3, <2>2, <2>3 DEF Ends, FinishAfter, Reconciles
  <2> QED BY <1>1, <2>1, <2>2, <2>4
<1> QED BY <1>7, <1>8, <1>9, <1>10, <1>11 DEF Routes

LEMMA JoinAsked ==
    ASSUME TypeOK, Attendance, Asked, NEW c \in Clients, Request(c) \/ RequestLoad(c)
    PROVE  Asked'
<1>1. Joined(c)
  BY JoinDoes
<1>2. UNCHANGED <<cache, ask, modal, buf, degraded>>
  BY <1>1 DEF Joined, agentVars
<1>3. \A d \in Clients : (Loaded(d)' => Loaded(d)) /\ (conn[d] = "up" => conn'[d] = "up")
  BY <1>1 DEF Loaded, Joined, Attendance, TypeOK, Request, RequestLoad, loadVars
<1> QED BY <1>2, <1>3, AskedKept

--------------------------------------------------------------------------------
(* A client leaves. *)

\* A session with subscribers is driven by one of them, one without by nobody.
Driven(s) == IF subs[s] = {} THEN driver[s] = None ELSE driver[s] \in subs[s]

LEMMA HandedOver ==
    ASSUME TypeOK, NEW c \in Clients, Disconnect(c), NEW s \in Sessions
    PROVE  /\ subs'[s] = subs[s] \ {c}
           /\ Driven(s) => Driven(s)'
<1>1. subs'[s] = subs[s] \ {c}
  BY DEF Disconnect
<1>2. HandsOver(c, driver')
  BY DEF Disconnect
<1>3. CASE c \notin subs[s]
  <2>1. driver'[s] = driver[s]
    BY <1>2, <1>3 DEF HandsOver
  <2> QED BY <1>1, <1>3, <2>1 DEF Driven
<1>4. CASE subs[s] = {c}
  <2>1. driver'[s] = None
    BY <1>2, <1>4 DEF HandsOver
  <2> QED BY <1>1, <1>4, <2>1 DEF Driven
<1>5. CASE c \in subs[s] /\ subs[s] # {c}
  <2>1. IF driver[s] = c THEN driver'[s] \in subs[s] \ {c} ELSE driver'[s] = driver[s]
    BY <1>2, <1>5 DEF HandsOver
  <2> QED BY <1>1, <1>5, <2>1 DEF Driven
<1> QED BY <1>3, <1>4, <1>5

LEMMA LeaveTypes ==
    ASSUME TypeOK, Channels, Attendance, RootIsDriven, NEW c \in Clients, Disconnect(c)
    PROVE  TypeOK' /\ Channels' /\ Attendance' /\ RootIsDriven'
<1>0. Root \in Sessions
  BY DEF Sessions
<1>1. UNCHANGED <<kids, cache, alive, meta, ask, log, load, wire, off, unfinished>>
  BY DEF Disconnect, loadVars
<1>2. /\ conn \in [Clients -> {"new", "up", "gone"}] /\ conn[c] = "up"
      /\ conn' = [conn EXCEPT ![c] = "gone"]
  BY DEF Disconnect, TypeOK
<1>3. \A d \in Clients : conn'[d] = IF d = c THEN "gone" ELSE conn[d]
  BY <1>2
<1>4. Channels'
  BY <1>1 DEF Channels, Disconnect
<1>5. Attendance'
  <2>1. subs'[Root] = {d \in Clients : conn'[d] = "up"}
    BY <1>0, <1>2, <1>3, HandedOver DEF Attendance
  <2>2. loading' = {d \in Clients : conn'[d] = "up" /\ load'[d] \in {"requested", "replay", "delta"}}
    BY <1>1, <1>3 DEF Attendance, Disconnect
  <2>3. \A i \in 1 .. Len(wire) : wire[i].to \in Clients
    BY WireAt
  <2> QED BY <1>1, <1>3, <2>1, <2>2, <2>3 DEF Attendance
<1>6. loading' \subseteq subs'[Root]
  BY <1>5 DEF Attendance
<1>7. subs' \in [Sessions -> SUBSET {d \in Clients : conn'[d] = "up"}]
  <2>1. \A s \in Sessions : subs[s] \ {c} \subseteq {d \in Clients : conn'[d] = "up"}
    BY <1>3 DEF TypeOK
  <2>2. subs' = [s \in Sessions |-> subs[s] \ {c}]
    BY DEF Disconnect
  <2> QED BY <2>1, <2>2
<1>8. \A d \in Clients : Len(buf'[d]) <= MaxBuffer /\ (d \notin loading' => buf'[d] = <<>>)
  <2>1. \A d \in Clients : buf'[d] = IF d = c THEN <<>> ELSE buf[d]
    BY DEF Disconnect, Channels
  <2>2. loading' = loading \ {c} /\ MaxBuffer >= 0 /\ Len(<<>>) = 0
    BY RouterAssumption DEF Disconnect
  <2>3. \A d \in Clients : Len(buf[d]) <= MaxBuffer /\ (d \notin loading => buf[d] = <<>>)
    BY DEF TypeOK
  <2> QED BY <2>1, <2>2, <2>3
<1>9. driver' \in [Sessions -> Clients \cup {None}] /\ evict' \subseteq {"sent", "idle"}
  BY DEF Disconnect, TypeOK
<1>10. conn' \in [Clients -> {"new", "up", "gone"}]
  BY <1>2
<1>11. TypeOK'
  BY <1>1, <1>6, <1>7, <1>8, <1>9, <1>10 DEF TypeOK
<1>12. RootIsDriven'
  BY <1>0, HandedOver DEF RootIsDriven, Driven
<1> QED BY <1>4, <1>5, <1>11, <1>12

LEMMA LeaveRoutes ==
    ASSUME TypeOK, Channels, Attendance, Routes, NEW c \in Clients, Disconnect(c)
    PROVE  Routes'
<1>0. Root \in Sessions /\ alive \subseteq Sessions /\ Subagents \subseteq Sessions
  BY DEF Sessions, TypeOK
<1>1. UNCHANGED <<kids, alive, routed, load, wire, unfinished, caught>>
  BY DEF Disconnect, loadVars, history
<1>2. \A d \in Clients : conn'[d] = IF d = c THEN "gone" ELSE conn[d]
  BY DEF Disconnect, TypeOK
<1>3. \A s \in Sessions : subs'[s] = subs[s] \ {c} /\ (Driven(s) => Driven(s)')
  BY HandedOver
<1>4. Followed'
  BY <1>0, <1>1, <1>3 DEF Routes, Followed
<1>5. SubagentIsDriven'
  BY <1>0, <1>1, <1>3 DEF Routes, SubagentIsDriven, Driven
<1>6. Registered'
  BY <1>0, <1>1, <1>2, <1>3 DEF Routes, Registered
<1>7. ReplayEnds'
  BY <1>1 DEF Routes, ReplayEnds, FinishAfter, Reconciles
<1>8. StaleEnds'
  <2> SUFFICES ASSUME NEW k \in Subagents \ (alive \cup caught) PROVE StaleEnds!(k)'
    BY <1>1 DEF StaleEnds
  <2>1. StaleEnds!(k)
    BY DEF Routes, StaleEnds
  <2>2. \A d \in Clients : Ends(d, k)' <=> Ends(d, k)
    BY <1>1 DEF Ends, FinishAfter, Reconciles
  <2>3. subs'[k] = subs[k] \ {c} /\ subs[k] \subseteq Clients
    BY <1>0, <1>3 DEF TypeOK
  <2>4. k \in kids => \E d \in Clients : (d \in subs'[k] \/ conn'[d] = "gone") /\ Ends(d, k)'
    BY <1>2, <2>1, <2>2, <2>3
  <2> QED BY <1>1, <2>1, <2>2, <2>3, <2>4
<1> QED BY <1>4, <1>5, <1>6, <1>7, <1>8 DEF Routes

LEMMA LeaveAsked ==
    ASSUME TypeOK, Channels, Attendance, Asked, NEW c \in Clients, Disconnect(c)
    PROVE  Asked'
<1>1. UNCHANGED <<cache, ask, load>> /\ degraded' = degraded \ {c}
  BY DEF Disconnect, loadVars
<1>2. \A d \in Clients \ {c} : modal'[d] = modal[d] /\ buf'[d] = buf[d] /\ conn'[d] = conn[d]
  BY DEF Disconnect, Channels, TypeOK
<1>3. modal'[c] = {} /\ buf'[c] = <<>> /\ conn'[c] = "gone"
  BY DEF Disconnect, Channels, TypeOK
<1>4. Rendered(modal'[c], buf'[c]) \subseteq {}
  BY <1>3 DEF Rendered
<1>5. \A d \in Clients \ degraded' : Rendered(modal'[d], buf'[d]) \subseteq Open
  BY <1>1, <1>2, <1>4 DEF Asked, Questioned
<1>7. Questioned'
  BY <1>1, <1>2, <1>3, <1>5 DEF Asked, Questioned, Open
<1>8. LoadedShowsOpenQuestions'
  BY <1>1, <1>2, <1>3 DEF Asked, LoadedShowsOpenQuestions, Loaded
<1> QED BY <1>7, <1>8 DEF Asked

--------------------------------------------------------------------------------
(* Questions. *)

\* What a message does to the set of questions a pager shows.
Effect(m, open) == IF m.show THEN open \cup {m.id} ELSE open \ {m.id}

LEMMA RenderedNothing ==
    ASSUME NEW open, open \subseteq Questions
    PROVE  Rendered(open, <<>>) = open
  BY DEF Rendered

LEMMA RenderedMore ==
    ASSUME NEW open, NEW ms \in Seq(Message), NEW m \in Message
    PROVE  Rendered(open, Append(ms, m)) = Effect(m, Rendered(open, ms))
<1> DEFINE n == Len(ms)
           new == Append(ms, m)
<1>1. /\ n \in Nat /\ DOMAIN ms = 1 .. n /\ DOMAIN new = 1 .. n + 1
      /\ \A i \in 1 .. n : new[i] = ms[i]
      /\ new[n + 1] = m
  BY AppendAt
<1>2. \/ m.show /\ m = Shows(m.id)
      \/ ~m.show /\ m = Retracts(m.id)
  BY DEF Message, Shows, Retracts
<1>3. m.id \in Questions
  BY DEF Message
<1> HIDE DEF n, new
<1> SUFFICES ASSUME NEW q \in Questions
             PROVE  q \in Rendered(open, new) <=> q \in Effect(m, Rendered(open, ms))
  BY <1>3 DEF Rendered, Effect, new
<1>4. CASE m = Shows(q)
  <2>1. q \in Effect(m, Rendered(open, ms))
    BY <1>2, <1>4, Records DEF Effect
  <2>2. n + 1 \in DOMAIN new /\ \A j \in DOMAIN new : ~(j > n + 1)
    BY <1>1
  <2> QED BY <1>1, <1>4, <2>1, <2>2 DEF Rendered
<1>5. CASE m = Retracts(q)
  <2>1. q \notin Effect(m, Rendered(open, ms))
    BY <1>2, <1>5, Records DEF Effect
  <2>2. ~ \E i \in DOMAIN new : new[i] = Shows(q) /\ \A j \in DOMAIN new : j > i => new[j] # Retracts(q)
    <3> SUFFICES ASSUME NEW i \in DOMAIN new, new[i] = Shows(q)
                 PROVE  \E j \in DOMAIN new : j > i /\ new[j] = Retracts(q)
      OBVIOUS
    <3>1. i # n + 1
      BY <1>1, <1>5, Records
    <3> QED BY <1>1, <1>5, <3>1
  <2>3. q \notin Rendered(open, new)
    BY <1>1, <1>5, <2>2 DEF Rendered
  <2> QED BY <2>1, <2>3
<1>6. CASE m # Shows(q) /\ m # Retracts(q)
  <2>1. q \in Effect(m, Rendered(open, ms)) <=> q \in Rendered(open, ms)
    BY <1>2, <1>6 DEF Effect
  <2>2. (\A j \in DOMAIN new : new[j] # Retracts(q)) <=> (\A j \in DOMAIN ms : ms[j] # Retracts(q))
    BY <1>1, <1>6
  <2>3. (\E i \in DOMAIN new : new[i] = Shows(q) /\ \A j \in DOMAIN new : j > i => new[j] # Retracts(q))
        <=> (\E i \in DOMAIN ms : ms[i] = Shows(q) /\ \A j \in DOMAIN ms : j > i => ms[j] # Retracts(q))
    BY <1>1, <1>6
  <2> QED BY <2>1, <2>2, <2>3 DEF Rendered
<1> QED BY <1>4, <1>5, <1>6

LEMMA RenderedOne ==
    ASSUME NEW open, open \subseteq Questions, NEW m \in Message
    PROVE  Rendered(open, <<m>>) = Effect(m, open)
<1>1. <<>> \in Seq(Message) /\ <<m>> = Append(<<>>, m)
  OBVIOUS
<1> QED BY <1>1, RenderedMore, RenderedNothing, ZenonT(30)

\* The questions that a load's answer repeats are shown, whatever came before.
LEMMA RenderedAnswers ==
    ASSUME NEW open, NEW ms \in Seq(Message), NEW Q, Q \subseteq Questions,
           Rendered(open, ms) \subseteq Q
    PROVE  Rendered(open, ms \o SetToSeq({Shows(q) : q \in Q})) = Q
<1> DEFINE s == SetToSeq({Shows(q) : q \in Q})
           new == ms \o s
           n == Len(ms)
<1>1. /\ s \in Seq(Message)
      /\ \A q \in Q : \E i \in 1 .. Len(s) : s[i] = Shows(q)
      /\ \A i \in 1 .. Len(s) : \E q \in Q : s[i] = Shows(q)
  BY ShownMessages
<1> HIDE DEF s
<1>2. /\ n \in Nat /\ Len(s) \in Nat /\ DOMAIN ms = 1 .. n /\ DOMAIN new = 1 .. n + Len(s)
      /\ \A i \in 1 .. n : new[i] = ms[i]
      /\ \A i \in 1 .. Len(s) : new[n + i] = s[i]
  BY <1>1, ConcatAt
<1> HIDE DEF n, new
<1>3. \A j \in DOMAIN new : j > n => \E q \in Q : new[j] = Shows(q)
  <2> SUFFICES ASSUME NEW j \in DOMAIN new, j > n PROVE \E q \in Q : new[j] = Shows(q)
    OBVIOUS
  <2>1. j - n \in 1 .. Len(s) /\ j = n + (j - n)
    BY <1>2
  <2>2. new[j] = s[j - n]
    BY <1>2, <2>1
  <2> QED BY <1>1, <2>1, <2>2
<1>4. Rendered(open, new) \subseteq Q
  <2> SUFFICES ASSUME NEW q \in Questions, q \in Rendered(open, new), q \notin Q PROVE FALSE
    BY DEF Rendered
  <2>1. \A j \in DOMAIN new : new[j] = Shows(q) => j \in DOMAIN ms
    BY <1>2, <1>3, Records
  <2>2. \A j \in DOMAIN ms : j \in DOMAIN new /\ new[j] = ms[j]
    BY <1>2
  <2>3. CASE q \in open /\ \A j \in DOMAIN new : new[j] # Retracts(q)
    BY <2>2, <2>3 DEF Rendered
  <2>4. CASE \E i \in DOMAIN new : /\ new[i] = Shows(q)
                                   /\ \A j \in DOMAIN new : j > i => new[j] # Retracts(q)
    BY <2>1, <2>2, <2>4 DEF Rendered
  <2> QED BY <2>3, <2>4 DEF Rendered
<1>5. Q \subseteq Rendered(open, new)
  <2> SUFFICES ASSUME NEW q \in Q PROVE q \in Rendered(open, new)
    OBVIOUS
  <2>1. PICK i \in 1 .. Len(s) : s[i] = Shows(q)
    BY <1>1
  <2>2. n + i \in DOMAIN new /\ new[n + i] = Shows(q)
    BY <1>2, <2>1
  <2>3. \A j \in DOMAIN new : j > n + i => new[j] # Retracts(q)
    BY <1>2, <1>3, Records
  <2> QED BY <2>2, <2>3 DEF Rendered
<1> QED BY <1>4, <1>5 DEF new, s

\* A question is asked or resolved: the message m changes what is open.
Announces(m) ==
    /\ m \in Message /\ Broadcast(m)
    /\ ask' \in [Questions -> {"new", "open", "closed"}]
    /\ Open' = Effect(m, Open) /\ cache' = Effect(m, cache)
    /\ UNCHANGED <<conn, leaderVars, unloadVars, alive, meta, log, loadVars, history>>

LEMMA AskAnnounces ==
    ASSUME TypeOK, NEW q \in Questions, Ask(q) \/ Resolve(q)
    PROVE  \E m : Announces(m)
<1>1. CASE Ask(q)
  <2>1. Open' = Open \cup {q}
    BY <1>1 DEF Ask, Open, TypeOK
  <2>2. Shows(q) \in Message /\ Shows(q).show /\ Shows(q).id = q
    BY DEF Message, Shows
  <2>3. Announces(Shows(q))
    BY <1>1, <2>1, <2>2 DEF Ask, Announces, Effect, TypeOK
  <2> QED BY <2>3
<1>2. CASE Resolve(q)
  <2>1. Open' = Open \ {q}
    BY <1>2 DEF Resolve, Open, TypeOK
  <2>2. Retracts(q) \in Message /\ ~Retracts(q).show /\ Retracts(q).id = q
    BY DEF Message, Retracts
  <2>3. Announces(Retracts(q))
    BY <1>2, <2>1, <2>2 DEF Resolve, Evicts, Announces, Effect, TypeOK
  <2> QED BY <2>3
<1> QED BY <1>1, <1>2

\* The clients that get a message, and the ones it is kept for.
LEMMA BroadcastDoes ==
    ASSUME Channels, NEW m, Announces(m), NEW d \in Clients
    PROVE  /\ d \notin subs[Root] => modal'[d] = modal[d] /\ buf'[d] = buf[d]
           /\ d \in subs[Root] /\ Buffers(d) => modal'[d] = modal[d] /\ buf'[d] = Append(buf[d], m)
           /\ d \in subs[Root] /\ ~Buffers(d) =>
                 /\ modal'[d] = Effect(m, modal[d])
                 /\ buf'[d] = buf[d]
                 /\ d \in loading => d \in degraded'
           /\ degraded \subseteq degraded'
           /\ loading' = loading
<1>1. Rendered(modal[d], <<m>>) = Effect(m, modal[d])
  BY RenderedOne DEF Channels, Announces
<1>2. /\ buf' = [c \in Clients |-> IF c \in subs[Root] /\ Buffers(c)
                                   THEN Append(buf[c], m) ELSE buf[c]]
      /\ modal' = [c \in Clients |-> IF c \in subs[Root] /\ ~Buffers(c)
                                     THEN Rendered(modal[c], <<m>>) ELSE modal[c]]
      /\ degraded' = degraded \cup ({c \in subs[Root] : ~Buffers(c)} \cap loading)
      /\ loading' = loading
  BY DEF Announces, Broadcast
<1> QED BY <1>1, <1>2

LEMMA AskTypes ==
    ASSUME TypeOK, Channels, Attendance, RootIsDriven, NEW q \in Questions, Ask(q) \/ Resolve(q)
    PROVE  TypeOK' /\ Channels' /\ Attendance' /\ RootIsDriven'
<1>1. PICK m : Announces(m)
  BY AskAnnounces
<1>2. m \in Message /\ m.id \in Questions
  BY <1>1 DEF Announces, Message
<1>3. UNCHANGED <<conn, subs, driver, kids, resident, evict, alive, meta, log, load, wire, off,
                  unfinished, loading>>
  BY <1>1 DEF Announces, leaderVars, unloadVars, loadVars, Broadcast
<1>4. \A d \in Clients : /\ buf'[d] \in Seq(Message)
                         /\ Len(buf'[d]) <= MaxBuffer
                         /\ d \notin loading => buf'[d] = <<>>
  <2> SUFFICES ASSUME NEW d \in Clients
               PROVE  /\ buf'[d] \in Seq(Message)
                      /\ Len(buf'[d]) <= MaxBuffer
                      /\ d \notin loading => buf'[d] = <<>>
    OBVIOUS
  <2>1. buf[d] \in Seq(Message) /\ Len(buf[d]) <= MaxBuffer /\ (d \notin loading => buf[d] = <<>>)
    BY DEF Channels, TypeOK
  <2>2. CASE buf'[d] = buf[d]
    BY <2>1, <2>2
  <2>3. CASE buf'[d] = Append(buf[d], m) /\ Buffers(d)
    BY <1>2, <2>1, <2>3, AppendAt, RouterAssumption DEF Buffers
  <2> QED BY <1>1, <2>2, <2>3, BroadcastDoes
<1>5. buf' \in [Clients -> Seq(Message)]
  <2>1. buf' = [d \in Clients |-> buf'[d]]
    BY <1>1 DEF Announces, Broadcast
  <2> QED BY <1>4, <2>1
<1>6. modal' \in [Clients -> SUBSET Questions]
  <2>1. modal' = [d \in Clients |-> modal'[d]]
    BY <1>1 DEF Announces, Broadcast
  <2>2. \A d \in Clients : modal'[d] \subseteq Questions
    <3> SUFFICES ASSUME NEW d \in Clients PROVE modal'[d] \subseteq Questions
      OBVIOUS
    <3>1. modal[d] \subseteq Questions
      BY DEF Channels
    <3>2. modal'[d] = modal[d] \/ modal'[d] = Effect(m, modal[d])
      BY <1>1, BroadcastDoes
    <3> QED BY <1>2, <3>1, <3>2 DEF Effect
  <2> QED BY <2>1, <2>2
<1>7. cache' \subseteq Questions /\ ask' \in [Questions -> {"new", "open", "closed"}]
  BY <1>1, <1>2 DEF Announces, Effect, TypeOK
<1>8. Channels'
  BY <1>3, <1>5, <1>6 DEF Channels
<1>9. TypeOK'
  BY <1>3, <1>4, <1>7 DEF TypeOK
<1>10. Attendance' /\ RootIsDriven'
  BY <1>3 DEF Attendance, RootIsDriven
<1> QED BY <1>8, <1>9, <1>10

LEMMA AskAsked ==
    ASSUME TypeOK, Channels, Attendance, Asked, NEW q \in Questions, Ask(q) \/ Resolve(q)
    PROVE  Asked'
<1>1. PICK m : Announces(m)
  BY AskAnnounces
<1>2. m \in Message
  BY <1>1 DEF Announces
<1>3. UNCHANGED <<conn, subs, load, loading>>
  BY <1>1 DEF Announces, leaderVars, loadVars, Broadcast
<1>4. cache' = Open' /\ Open' = Effect(m, Open)
  BY <1>1 DEF Announces, Asked, Questioned
<1>5. \A S, T : S \subseteq T => Effect(m, S) \subseteq Effect(m, T)
  BY DEF Effect
<1>6. ASSUME NEW d \in Clients, d \notin degraded' PROVE Rendered(modal'[d], buf'[d]) \subseteq Open'
  <2>1. Rendered(modal[d], buf[d]) \subseteq Open
    BY <1>1, <1>6, BroadcastDoes DEF Asked, Questioned
  <2>2. CASE d \in subs[Root] /\ Buffers(d)
    <3>1. modal'[d] = modal[d] /\ buf'[d] = Append(buf[d], m) /\ buf[d] \in Seq(Message)
      BY <1>1, <2>2, BroadcastDoes DEF Channels
    <3>2. Rendered(modal'[d], buf'[d]) = Effect(m, Rendered(modal[d], buf[d]))
      BY <1>2, <3>1, RenderedMore
    <3> QED BY <1>4, <1>5, <2>1, <3>2
  <2>3. CASE d \in subs[Root] /\ ~Buffers(d)
    <3>1. modal'[d] = Effect(m, modal[d]) /\ buf'[d] = buf[d] /\ d \notin loading
      BY <1>1, <1>6, <2>3, BroadcastDoes
    <3>2. buf[d] = <<>> /\ modal[d] \subseteq Questions
      BY <3>1 DEF TypeOK, Channels
    <3>3. modal[d] \subseteq Open
      BY <2>1, <3>2, RenderedNothing
    <3>4. modal'[d] \subseteq Questions
      BY <1>2, <3>1, <3>2 DEF Effect, Message
    <3> QED BY <1>4, <1>5, <3>1, <3>2, <3>3, <3>4, RenderedNothing
  <2>4. CASE d \notin subs[Root]
    <3>1. modal'[d] = modal[d] /\ buf'[d] = buf[d] /\ conn[d] # "up"
      BY <1>1, <2>4, BroadcastDoes DEF Attendance
    <3>2. modal[d] = {} /\ buf[d] = <<>>
      BY <3>1 DEF Asked, Questioned, Attendance, TypeOK
    <3> QED BY <3>1, <3>2 DEF Rendered
  <2> QED BY <2>2, <2>3, <2>4
<1>7. ASSUME NEW d \in Clients, d \notin degraded', Loaded(d)' PROVE modal'[d] = Open'
  <2>1. conn[d] = "up" /\ load[d] = "done" /\ d \in subs[Root] /\ d \notin loading
    BY <1>3, <1>7 DEF Loaded, Attendance
  <2>2. modal[d] = Open
    BY <1>1, <1>7, <2>1, BroadcastDoes DEF Asked, LoadedShowsOpenQuestions, Loaded, Open
  <2>3. modal'[d] = Effect(m, modal[d])
    BY <1>1, <2>1, BroadcastDoes DEF Buffers
  <2> QED BY <1>4, <2>2, <2>3
<1>8. ASSUME NEW d \in Clients, conn'[d] # "up" PROVE modal'[d] = {}
  <2>1. d \notin subs[Root] /\ modal[d] = {}
    BY <1>3, <1>8 DEF Attendance, Asked, Questioned
  <2> QED BY <1>1, <2>1, BroadcastDoes
<1> QED BY <1>4, <1>6, <1>7, <1>8 DEF Asked, Questioned, LoadedShowsOpenQuestions, Open

--------------------------------------------------------------------------------
(* Subagents start and end. *)

LEMMA RangeAppend ==
    ASSUME NEW S, NEW s \in Seq(S), NEW e \in S
    PROVE  Range(Append(s, e)) = Range(s) \cup {e}
<1> DEFINE new == Append(s, e)
<1>1. new \in Seq(S) /\ Len(new) = Len(s) + 1
  BY AppendAt
<1>2. \A x : x \in Range(new) <=> \E i \in 1 .. Len(new) : new[i] = x
  <2> HIDE DEF new
  <2> QED BY <1>1, RangeAt
<1>3. \A x : x \in Range(s) <=> \E i \in 1 .. Len(s) : s[i] = x
  BY RangeAt
<1>4. /\ Len(s) \in Nat /\ Append(s, e)[Len(s) + 1] = e
      /\ \A i \in 1 .. Len(s) : Append(s, e)[i] = s[i]
  BY AppendAt
<1> QED BY <1>1, <1>2, <1>3, <1>4

LEMMA SpawnTypes ==
    ASSUME TypeOK, Channels, Attendance, RootIsDriven, NEW k \in Subagents, Spawn(k)
    PROVE  TypeOK' /\ Channels' /\ Attendance' /\ RootIsDriven'
<1>0. Root \in Sessions /\ k \in Sessions /\ k # Root
  BY RouterAssumption DEF Sessions
<1>1. UNCHANGED <<conn, loading, buf, modal, cache, evict, ask, load, wire, off, unfinished>>
  BY DEF Spawn, holdVars, unloadVars, loadVars
<1>2. /\ subs \in [Sessions -> SUBSET {d \in Clients : conn[d] = "up"}]
      /\ driver \in [Sessions -> Clients \cup {None}]
      /\ kids \subseteq Subagents
  BY DEF TypeOK
<1>3. /\ subs' \in [Sessions -> SUBSET {d \in Clients : conn[d] = "up"}]
      /\ driver' \in [Sessions -> Clients \cup {None}]
      /\ kids' \subseteq Subagents
      /\ subs'[Root] = subs[Root] /\ driver'[Root] = driver[Root]
  BY <1>0, <1>2 DEF Spawn, RouteSpawned, leaderVars
<1>4. log' \in Seq(Line)
  BY Records, AppendAt DEF Spawn, Channels
<1>5. alive' \subseteq meta' /\ meta' \subseteq Subagents
  BY DEF Spawn, TypeOK
<1>6. TypeOK'
  BY <1>1, <1>3, <1>5 DEF TypeOK
<1>7. Channels'
  BY <1>1, <1>4 DEF Channels
<1>8. Attendance' /\ RootIsDriven'
  BY <1>1, <1>3 DEF Attendance, RootIsDriven
<1> QED BY <1>6, <1>7, <1>8

LEMMA SpawnRecorded ==
    ASSUME TypeOK, Channels, Recorded, NEW k \in Subagents, Spawn(k)
    PROVE  Recorded'
<1>1. /\ log' = Append(log, Spawned(k)) /\ Spawned(k) \notin Range(log)
      /\ alive' = alive \cup {k} /\ meta' = meta \cup {k} /\ wire = <<>>
      /\ UNCHANGED <<unfinished, wire>>
  BY DEF Spawn, loadVars
<1>2. routed' \subseteq routed \cup {k}
  BY DEF Spawn, RouteSpawned
<1>3. log \in Seq(Line) /\ Spawned(k) \in Line
  BY Records DEF Channels
<1>4. Range(log') = Range(log) \cup {Spawned(k)}
  BY <1>1, <1>3, RangeAppend
<1>5. k \notin routed /\ Finished(k) \notin Range(log)
  BY <1>1 DEF Recorded, Born
<1>6. Born'
  BY <1>1, <1>2, <1>4, Records DEF Recorded, Born
<1>7. AliveIsOpen'
  BY <1>1, <1>4, <1>5, Records DEF Recorded, AliveIsOpen
<1>8. /\ Len(log) \in Nat /\ Len(log') = Len(log) + 1 /\ log'[Len(log) + 1] = Spawned(k)
      /\ \A i \in 1 .. Len(log) : log'[i] = log[i]
  BY <1>1, <1>3, AppendAt
<1>9. \A j \in 1 .. Len(log) : log[j].event = "finished" => log[j].child # k
  BY <1>3, <1>5, RangeAt, Records, WireAt
<1>10. LogOrder'
  <2> SUFFICES ASSUME NEW i \in 1 .. Len(log'), NEW j \in 1 .. Len(log'),
                      log'[i].event = "spawned", log'[j].event = "finished",
                      log'[i].child = log'[j].child
               PROVE  i < j
    BY DEF LogOrder
  <2>1. j \in 1 .. Len(log) /\ log'[j] = log[j]
    BY <1>8, Records
  <2>2. i \in 1 .. Len(log) /\ log'[i] = log[i]
    BY <1>8, <1>9, <2>1, Records
  <2> QED BY <2>1, <2>2 DEF Recorded, LogOrder
<1> QED BY <1>6, <1>7, <1>10 DEF Recorded

LEMMA SpawnRoutes ==
    ASSUME TypeOK, Channels, Attendance, RootIsDriven, Recorded, Routes,
           NEW k \in Subagents, Spawn(k)
    PROVE  Routes'
<1>0. Root \in Sessions /\ k \in Sessions /\ k # Root /\ Root \notin Subagents
  BY RouterAssumption DEF Sessions
<1>1. /\ alive' = alive \cup {k} /\ wire = <<>>
      /\ UNCHANGED <<conn, load, unfinished, wire, caught>>
  BY DEF Spawn, loadVars
<1>2. k \notin routed /\ k \notin alive /\ alive \subseteq Subagents
  BY DEF Spawn, Recorded, Born, TypeOK
<1>3. ReplayEnds'
  BY <1>1 DEF ReplayEnds
<1>4. \A d, j : Ends(d, j)' <=> Ends(d, j)
  BY <1>1 DEF Ends, FinishAfter, Reconciles
<1>5. CASE subs[Root] = {}
  <2>1. UNCHANGED <<subs, driver, kids, routed>>
    BY <1>5 DEF Spawn, RouteSpawned, leaderVars
  <2>2. alive' \cap routed' = alive \cap routed
    BY <1>1, <1>2, <2>1
  <2>3. Followed' /\ SubagentIsDriven'
    BY <2>1, <2>2 DEF Routes, Followed, SubagentIsDriven
  <2>4. Registered'
    BY <1>1, <1>5 DEF Registered, Attendance
  <2>5. StaleEnds'
    BY <1>1, <1>4, <2>1 DEF Routes, StaleEnds
  <2> QED BY <1>3, <2>3, <2>4, <2>5 DEF Routes
<1>6. CASE subs[Root] # {}
  <2>1. /\ kids' = kids \cup {k} /\ routed' = routed \cup {k}
        /\ subs' = [subs EXCEPT ![k] = subs[Root]]
        /\ driver' = [driver EXCEPT ![k] = IF driver[Root] = None THEN @ ELSE driver[Root]]
    BY <1>6 DEF Spawn, RouteSpawned
  <2>2. driver[Root] \in subs[Root] /\ driver[Root] # None
    BY <1>0, <1>6, RouterAssumption DEF RootIsDriven, TypeOK
  <2>3. /\ subs'[k] = subs[Root] /\ driver'[k] = driver[Root]
        /\ \A s \in Sessions \ {k} : subs'[s] = subs[s] /\ driver'[s] = driver[s]
    BY <1>0, <2>1, <2>2 DEF TypeOK
  <2>4. \A j \in Subagents : j # k => j \in Sessions \ {k}
    BY DEF Sessions
  <2>5. Followed'
    BY <1>0, <1>1, <1>2, <2>1, <2>3, <2>4 DEF Routes, Followed
  <2>6. SubagentIsDriven'
    BY <1>1, <1>2, <1>6, <2>1, <2>2, <2>3, <2>4 DEF Routes, SubagentIsDriven
  <2>7. Registered'
    <3>1. \A d \in Clients : conn[d] = "up" => d \in subs'[k]
      BY <2>3 DEF Attendance
    <3> QED BY <1>1, <1>2, <2>3, <2>4, <3>1 DEF Routes, Registered
  <2>8. StaleEnds'
    BY <1>1, <1>4, <2>1, <2>3, <2>4 DEF Routes, StaleEnds
  <2> QED BY <1>3, <2>5, <2>6, <2>7, <2>8 DEF Routes
<1> QED BY <1>5, <1>6

\* The routes of the subagents K are gone.
Pruned(K) ==
    /\ K \subseteq Subagents
    /\ subs' = [s \in Sessions |-> IF s \in K THEN {} ELSE subs[s]]
    /\ driver' = [s \in Sessions |-> IF s \in K THEN None ELSE driver[s]]
    /\ kids' = kids \ K

LEMMA PruneDoes ==
    ASSUME TypeOK, NEW k \in Subagents, Prune(k)
    PROVE  Pruned({k})
<1>1. k \in Sessions
  BY DEF Sessions
<1>2. /\ subs' = [subs EXCEPT ![k] = {}] /\ driver' = [driver EXCEPT ![k] = None]
      /\ kids' = kids \ {k}
  BY DEF Prune
<1>3. /\ subs = [s \in Sessions |-> subs[s]] /\ driver = [s \in Sessions |-> driver[s]]
  BY DEF TypeOK
<1> QED BY <1>1, <1>2, <1>3 DEF Pruned

LEMMA PrunedTypes ==
    ASSUME TypeOK, NEW K, Pruned(K)
    PROVE  /\ subs' \in [Sessions -> SUBSET {d \in Clients : conn[d] = "up"}]
           /\ driver' \in [Sessions -> Clients \cup {None}]
           /\ kids' \subseteq Subagents
           /\ subs'[Root] = subs[Root] /\ driver'[Root] = driver[Root]
           /\ \A s \in Sessions \ K : subs'[s] = subs[s] /\ driver'[s] = driver[s]
           /\ \A s \in K : subs'[s] = {}
<1>0. Root \in Sessions /\ Root \notin K /\ K \subseteq Sessions
  BY RouterAssumption DEF Sessions, Pruned
<1>1. /\ subs \in [Sessions -> SUBSET {d \in Clients : conn[d] = "up"}]
      /\ driver \in [Sessions -> Clients \cup {None}]
      /\ kids \subseteq Subagents
  BY DEF TypeOK
<1> QED BY <1>0, <1>1 DEF Pruned

LEMMA PrunedRoutes ==
    ASSUME TypeOK, Routes, wire = <<>>, NEW K, Pruned(K),
           UNCHANGED <<conn, routed, wire, caught>>,
           alive' = alive \ K,
           \A d \in Clients : load'[d] = load[d] \/ (load[d] = "delta" /\ load'[d] = "done"),
           \A d \in Clients, k \in Subagents \ (alive \cup K) :
               Reconciles(d, k) => Reconciles(d, k)'
    PROVE  Routes'
<1>0. alive \subseteq Subagents /\ Subagents \subseteq Sessions /\ K \subseteq Subagents
  BY DEF TypeOK, Sessions, Pruned
<1>1. /\ \A s \in Subagents \ K : subs'[s] = subs[s] /\ driver'[s] = driver[s]
      /\ \A s \in K : subs'[s] = {}
      /\ subs'[Root] = subs[Root] /\ kids' = kids \ K
  BY <1>0, PrunedTypes DEF Pruned
<1>2. Followed' /\ SubagentIsDriven'
  BY <1>0, <1>1 DEF Routes, Followed, SubagentIsDriven
<1>3. Registered'
  <2> SUFFICES ASSUME NEW d \in Clients, NEW k \in alive', conn'[d] = "up" PROVE Registered!(d, k)'
    BY DEF Registered
  <2>1. subs'[k] = subs[k] /\ k \in alive
    BY <1>0, <1>1
  <2>2. Registered!(d, k)
    BY <2>1 DEF Routes, Registered
  <2> QED BY <2>1, <2>2
<1>4. ReplayEnds'
  BY DEF ReplayEnds
<1>5. StaleEnds'
  <2> SUFFICES ASSUME NEW k \in Subagents \ (alive' \cup caught') PROVE StaleEnds!(k)'
    BY DEF StaleEnds
  <2>1. CASE k \in K
    BY <1>1, <2>1
  <2>2. CASE k \notin K
    <3>1. StaleEnds!(k) /\ k \notin alive
      BY <2>2 DEF Routes, StaleEnds
    <3>2. \A d \in Clients : Ends(d, k) => Ends(d, k)'
      BY <2>2, <3>1 DEF Ends, FinishAfter
    <3>3. subs[k] \subseteq Clients
      BY <1>0 DEF TypeOK
    <3> QED BY <1>1, <2>2, <3>1, <3>2, <3>3
  <2> QED BY <2>1, <2>2
<1> QED BY <1>2, <1>3, <1>4, <1>5 DEF Routes

LEMMA FinishPrunes ==
    ASSUME TypeOK, Attendance, NEW k \in Subagents, Finish(k)
    PROVE  Pruned({k})
<1>1. subs[Root] # {} \/ subs[k] = {}
  BY DEF TypeOK, Attendance, Sessions
<1> QED BY <1>1, PruneDoes DEF Finish, RouteFinished

LEMMA FinishTypes ==
    ASSUME TypeOK, Channels, Attendance, RootIsDriven, NEW k \in Subagents, Finish(k)
    PROVE  TypeOK' /\ Channels' /\ Attendance' /\ RootIsDriven'
<1>1. UNCHANGED <<conn, loading, buf, modal, cache, evict, ask, load, wire, off, unfinished>>
  BY DEF Finish, holdVars, unloadVars, loadVars
<1>2. /\ subs' \in [Sessions -> SUBSET {d \in Clients : conn[d] = "up"}]
      /\ driver' \in [Sessions -> Clients \cup {None}]
      /\ kids' \subseteq Subagents
      /\ subs'[Root] = subs[Root] /\ driver'[Root] = driver[Root]
  BY FinishPrunes, PrunedTypes
<1>3. log' \in Seq(Line)
  BY Records, AppendAt DEF Finish, Channels
<1>4. alive' \subseteq meta' /\ meta' \subseteq Subagents
  BY DEF Finish, TypeOK
<1>5. TypeOK'
  BY <1>1, <1>2, <1>4 DEF TypeOK
<1>6. Channels'
  BY <1>1, <1>3 DEF Channels
<1>7. Attendance' /\ RootIsDriven'
  BY <1>1, <1>2 DEF Attendance, RootIsDriven
<1> QED BY <1>5, <1>6, <1>7

\* Finishes that are written for subagents that no longer run.
LEMMA FinishesRecorded ==
    ASSUME TypeOK, Channels, Recorded, NEW s \in Seq(Line), log' = log \o s,
           UNCHANGED <<routed, wire>>, alive' \subseteq alive, meta' \subseteq meta,
           \A c \in Clients : unfinished'[c] \subseteq unfinished[c],
           \A i \in 1 .. Len(s) :
               \E k \in Subagents \ alive' : s[i] = Finished(k) /\ Spawned(k) \in Range(log)
    PROVE  Recorded'
<1>1. /\ Len(log) \in Nat /\ Len(s) \in Nat /\ Len(log') = Len(log) + Len(s)
      /\ \A i \in 1 .. Len(log) : log'[i] = log[i]
      /\ \A i \in 1 .. Len(s) : log'[Len(log) + i] = s[i]
      /\ log \in Seq(Line) /\ log' \in Seq(Line)
  BY ConcatAt DEF Channels
<1>2. \A i \in 1 .. Len(log') : i \in 1 .. Len(log) \/
          \E k \in Subagents \ alive' : log'[i] = Finished(k) /\ Spawned(k) \in Range(log)
  <2> SUFFICES ASSUME NEW i \in 1 .. Len(log'), i \notin 1 .. Len(log)
               PROVE  \E k \in Subagents \ alive' : log'[i] = Finished(k) /\ Spawned(k) \in Range(log)
    OBVIOUS
  <2>1. i - Len(log) \in 1 .. Len(s) /\ i = Len(log) + (i - Len(log))
    BY <1>1
  <2>2. log'[i] = s[i - Len(log)]
    BY <1>1, <2>1
  <2> QED BY <2>1, <2>2
<1>3. /\ \A x : x \in Range(log) <=> \E i \in 1 .. Len(log) : log[i] = x
      /\ \A x : x \in Range(log') <=> \E i \in 1 .. Len(log') : log'[i] = x
  <2>1. \A x : x \in Range(log) <=> \E i \in 1 .. Len(log) : log[i] = x
    BY <1>1, RangeAt
  <2>2. \A x : x \in Range(log') <=> \E i \in 1 .. Len(log') : log'[i] = x
    <3>1. PICK new \in Seq(Line) : new = log'
      BY <1>1
    <3>2. \A x : x \in Range(new) <=> \E i \in 1 .. Len(new) : new[i] = x
      BY RangeAt
    <3> QED BY <3>1, <3>2
  <2> QED BY <2>1, <2>2
<1>4. \A i \in 1 .. Len(log) : i \in 1 .. Len(log')
  BY <1>1
<1>5. \A k : Spawned(k) \in Range(log') <=> Spawned(k) \in Range(log)
  BY <1>1, <1>2, <1>3, <1>4, Records
<1>6. \A k : Finished(k) \in Range(log') =>
          Finished(k) \in Range(log) \/ (k \notin alive' /\ Spawned(k) \in Range(log))
  BY <1>1, <1>2, <1>3, Records
<1>7. Born'
  BY <1>5, <1>6 DEF Recorded, Born
<1>8. AliveIsOpen'
  BY <1>6 DEF Recorded, AliveIsOpen
<1>9. LogOrder'
  <2> SUFFICES ASSUME NEW i \in 1 .. Len(log'), NEW j \in 1 .. Len(log'),
                      log'[i].event = "spawned", log'[j].event = "finished",
                      log'[i].child = log'[j].child
               PROVE  i < j
    BY DEF LogOrder
  <2>1. i \in 1 .. Len(log) /\ log'[i] = log[i]
    BY <1>1, <1>2, Records
  <2>2. CASE j \in 1 .. Len(log)
    BY <1>1, <2>1, <2>2 DEF Recorded, LogOrder
  <2>3. CASE j \notin 1 .. Len(log)
    BY <1>1, <2>1, <2>3
  <2> QED BY <2>2, <2>3
<1> QED BY <1>7, <1>8, <1>9 DEF Recorded

LEMMA FinishRecorded ==
    ASSUME TypeOK, Channels, Recorded, NEW k \in Subagents, Finish(k)
    PROVE  Recorded'
<1>1. /\ k \in alive /\ alive' = alive \ {k} /\ meta' = meta \ {k}
      /\ log' = IF k \in cut THEN log ELSE Append(log, Finished(k))
      /\ UNCHANGED <<routed, wire, unfinished>>
  BY DEF Finish, loadVars, history
<1>2. log \in Seq(Line) /\ Finished(k) \in Line
  BY Records DEF Channels
<1>3. Spawned(k) \in Range(log)
  BY <1>1 DEF Recorded, Born, TypeOK
<1>4. CASE k \in cut
  <2>1. PICK s \in Seq(Line) : log' = log \o s /\ Len(s) = 0
    <3>1. <<>> \in Seq(Line) /\ log = log \o <<>> /\ Len(<<>>) = 0
      BY <1>2
    <3> QED BY <1>1, <1>4, <3>1
  <2>2. \A i \in 1 .. Len(s) : FALSE
    BY <2>1
  <2> QED BY <1>1, <2>1, <2>2, FinishesRecorded
<1>5. CASE k \notin cut
  <2>1. /\ <<Finished(k)>> \in Seq(Line) /\ log' = log \o <<Finished(k)>>
        /\ \A i \in 1 .. Len(<<Finished(k)>>) : <<Finished(k)>>[i] = Finished(k)
    BY <1>1, <1>2, <1>5
  <2> QED BY <1>1, <1>3, <2>1, FinishesRecorded
<1> QED BY <1>4, <1>5

LEMMA FinishRoutes ==
    ASSUME TypeOK, Attendance, Routes, NEW k \in Subagents, Finish(k)
    PROVE  Routes'
<1>1. Pruned({k})
  BY FinishPrunes
<1>2. /\ wire = <<>> /\ alive' = alive \ {k}
      /\ UNCHANGED <<conn, routed, wire, caught, load, unfinished>>
  BY DEF Finish, loadVars, history
<1>3. \A d \in Clients, j \in Subagents : Reconciles(d, j) => Reconciles(d, j)'
  BY <1>2 DEF Reconciles
<1> QED BY <1>1, <1>2, <1>3, PrunedRoutes

--------------------------------------------------------------------------------
(* A load reads the file: Replay and DeltaReplay. *)

LEMMA ReplayedAt ==
    ASSUME NEW c \in Clients, NEW lines \in Seq(Line)
    PROVE  /\ Replayed(c, lines) \in Seq(Addressed)
           /\ Len(Replayed(c, lines)) = Len(lines) /\ Len(lines) \in Nat
           /\ \A i \in 1 .. Len(lines) : /\ Replayed(c, lines)[i].to = c
                                         /\ Replayed(c, lines)[i].line = lines[i]
<1>1. Len(lines) \in Nat /\ DOMAIN lines = 1 .. Len(lines)
  OBVIOUS
<1>2. \A i \in 1 .. Len(lines) : [to |-> c, line |-> lines[i]] \in Addressed
  BY DEF Addressed
<1>3. Replayed(c, lines) = [i \in 1 .. Len(lines) |-> [to |-> c, line |-> lines[i]]]
  BY <1>1 DEF Replayed
<1>4. Replayed(c, lines) \in [1 .. Len(lines) -> Addressed]
  BY <1>2, <1>3
<1>5. Replayed(c, lines) \in Seq(Addressed) /\ Len(Replayed(c, lines)) = Len(lines)
  BY <1>1, <1>4
<1> QED BY <1>1, <1>3, <1>5

\* Some lines of the file, from the offset o on.
Excerpt(lines, o) ==
    /\ lines \in Seq(Line) /\ o \in Nat
    /\ \A i \in 1 .. Len(lines) : o + i \in 1 .. Len(log) /\ lines[i] = log[o + i]

\* A spawn in an excerpt is followed by its finish there, or is unfinished in it.
LEMMA ExcerptEnds ==
    ASSUME Channels, Recorded, NEW lines, NEW o, Excerpt(lines, o),
           NEW i \in 1 .. Len(lines), NEW k \in Subagents, lines[i] = Spawned(k)
    PROVE  \/ \E j \in 1 .. Len(lines) : j > i /\ lines[j] = Finished(k)
           \/ k \in Unfinished(lines)
<1>0. lines \in Seq(Line) /\ Len(lines) \in Nat /\ o \in Nat
  BY DEF Excerpt
<1>1. \A x : x \in Range(lines) <=> \E j \in 1 .. Len(lines) : lines[j] = x
  BY <1>0, RangeAt
<1>2. CASE Finished(k) \in Range(lines)
  <2>1. PICK j \in 1 .. Len(lines) : lines[j] = Finished(k)
    BY <1>1, <1>2
  <2>2. /\ o + i \in 1 .. Len(log) /\ log[o + i] = Spawned(k)
        /\ o + j \in 1 .. Len(log) /\ log[o + j] = Finished(k)
    BY <2>1 DEF Excerpt
  <2>3. o + i < o + j
    BY <2>2, Records DEF Recorded, LogOrder
  <2>4. j > i
    BY <1>0, <2>1, <2>3
  <2> QED BY <2>1, <2>4
<1>3. CASE Finished(k) \notin Range(lines)
  BY <1>1, <1>3 DEF Unfinished
<1> QED BY <1>2, <1>3

\* The lines are put on the wire.
LEMMA BatchWire ==
    ASSUME TypeOK, Channels, Attendance, Recorded, NEW c \in Clients, load[c] # "none",
           NEW lines, NEW o, Excerpt(lines, o), wire' = Replayed(c, lines),
           UNCHANGED <<conn, alive, log>>
    PROVE  /\ wire' \in Seq(Addressed)
           /\ Len(wire') = Len(lines) /\ Len(lines) \in Nat
           /\ \A i \in 1 .. Len(lines) : wire'[i].to = c /\ wire'[i].line = lines[i]
           /\ \A i \in 1 .. Len(wire') : conn'[wire'[i].to] # "new"
           /\ AliveIsOpen'
<1>1. lines \in Seq(Line)
  BY DEF Excerpt
<1>2. /\ wire' \in Seq(Addressed)
      /\ Len(wire') = Len(lines) /\ Len(lines) \in Nat
      /\ \A i \in 1 .. Len(lines) : wire'[i].to = c /\ wire'[i].line = lines[i]
  BY <1>1, ReplayedAt
<1>3. conn[c] # "new"
  BY DEF Attendance
<1>4. \A i \in 1 .. Len(lines) : lines[i] \in Range(log)
  BY RangeAt DEF Excerpt, Channels
<1>5. AliveIsOpen'
  BY <1>2, <1>4 DEF Recorded, AliveIsOpen
<1> QED BY <1>2, <1>3, <1>5

LEMMA WholeLog == ASSUME Channels PROVE Excerpt(log, 0) /\ Unfinished(log) \subseteq Subagents
  BY DEF Excerpt, Channels, Unfinished

LEMMA Delta ==
    ASSUME Channels, NEW c \in Clients
    PROVE  \E o : Excerpt(IF resident THEN SubSeq(log, off[c] + 1, Len(log)) ELSE <<>>, o)
<1>1. log \in Seq(Line) /\ Len(log) \in Nat /\ off[c] \in Nat
  BY DEF Channels
<1>2. CASE ~resident \/ off[c] >= Len(log)
  <2>1. (IF resident THEN SubSeq(log, off[c] + 1, Len(log)) ELSE <<>>) = <<>>
    BY <1>1, <1>2
  <2>2. Excerpt(<<>>, 0)
    BY DEF Excerpt
  <2> QED BY <2>1, <2>2
<1>3. CASE resident /\ off[c] < Len(log)
  <2> DEFINE s == SubSeq(log, off[c] + 1, Len(log))
  <2>1. s \in Seq(Line) /\ Len(s) = Len(log) - off[c]
    BY <1>1, <1>3
  <2>2. \A i \in 1 .. Len(s) : s[i] = log[off[c] + i]
    BY <1>1, <1>3, SMTT(20)
  <2> HIDE DEF s
  <2>3. Excerpt(s, off[c])
    BY <1>1, <1>3, <2>1, <2>2 DEF Excerpt
  <2> QED BY <1>3, <2>3 DEF s
<1> QED BY <1>1, <1>2, <1>3

LEMMA ReplayKeeps ==
    ASSUME TypeOK, Channels, Attendance, RootIsDriven, Recorded, Routes, Asked,
           NEW c \in Clients, Replay(c)
    PROVE  /\ TypeOK' /\ Channels' /\ Attendance' /\ RootIsDriven'
           /\ Recorded' /\ Routes' /\ Asked'
<1>0. /\ load[c] = "requested" /\ wire = <<>>
      /\ load' = [load EXCEPT ![c] = "replay"]
      /\ wire' = Replayed(c, log)
      /\ off' = [off EXCEPT ![c] = Len(log)]
      /\ unfinished' = [unfinished EXCEPT ![c] = Unfinished(log)]
      /\ UNCHANGED <<conn, subs, driver, kids, loading, buf, modal, twice, degraded, cache,
                     evict, alive, meta, ask, log, routed, caught>>
  BY DEF Replay, leaderVars, holdVars, agentVars, unloadVars, history
<1>1. Excerpt(log, 0) /\ Unfinished(log) \subseteq Subagents /\ log \in Seq(Line) /\ Len(log) \in Nat
  BY WholeLog DEF Channels
<1>2. /\ wire' \in Seq(Addressed)
      /\ Len(wire') = Len(log)
      /\ \A i \in 1 .. Len(log) : wire'[i].to = c /\ wire'[i].line = log[i]
      /\ \A i \in 1 .. Len(wire') : conn'[wire'[i].to] # "new"
      /\ AliveIsOpen'
  BY <1>0, <1>1, BatchWire
<1>3. /\ load'[c] = "replay" /\ unfinished'[c] = Unfinished(log)
      /\ \A d \in Clients \ {c} : load'[d] = load[d] /\ unfinished'[d] = unfinished[d]
  BY <1>0 DEF TypeOK, Channels
<1>4. TypeOK'
  BY <1>0 DEF TypeOK, Loads
<1>5. Channels'
  BY <1>0, <1>1, <1>2 DEF Channels
<1>6. Attendance' /\ RootIsDriven'
  <2>1. loading' = {d \in Clients : conn'[d] = "up" /\ load'[d] \in {"requested", "replay", "delta"}}
    BY <1>0, <1>3 DEF Attendance
  <2>2. \A d \in Clients : conn'[d] = "new" => load'[d] = "none"
    BY <1>0, <1>3 DEF Attendance
  <2> QED BY <1>0, <1>2, <2>1, <2>2 DEF Attendance, RootIsDriven
<1>7. Recorded'
  <2>1. Born'
    BY <1>0, <1>3 DEF Recorded, Born, Unfinished
  <2> QED BY <1>0, <1>2, <2>1 DEF Recorded, LogOrder
<1>8. Followed' /\ SubagentIsDriven'
  BY <1>0 DEF Routes, Followed, SubagentIsDriven
<1>9. Registered'
  <2> SUFFICES ASSUME NEW d \in Clients, NEW k \in alive, conn[d] = "up"
               PROVE  Registered!(d, k)'
    BY <1>0 DEF Registered
  <2>1. CASE d = c
    <3>1. Spawned(k) \in Range(log)
      BY DEF Recorded, Born, TypeOK
    <3>2. PICK i \in 1 .. Len(log) : log[i] = Spawned(k)
      BY <1>1, <3>1, RangeAt
    <3> QED BY <1>2, <1>3, <2>1, <3>2
  <2>2. CASE d # c
    <3>1. Registered!(d, k)
      BY DEF Routes, Registered
    <3> QED BY <1>0, <1>3, <2>2, <3>1
  <2> QED BY <2>1, <2>2
<1>10. ReplayEnds'
  <2> SUFFICES ASSUME NEW i \in 1 .. Len(wire'), NEW k \in Subagents, wire'[i].line = Spawned(k)
               PROVE  FinishAfter(i, wire[i].to, k)' \/ Reconciles(wire[i].to, k)'
    BY DEF ReplayEnds
  <2>1. i \in 1 .. Len(log) /\ log[i] = Spawned(k) /\ wire'[i].to = c
    BY <1>2
  <2>2. \/ \E j \in 1 .. Len(log) : j > i /\ log[j] = Finished(k)
        \/ k \in Unfinished(log)
    BY <1>1, <2>1, ExcerptEnds
  <2> QED BY <1>2, <1>3, <2>1, <2>2 DEF FinishAfter, Reconciles
<1>11. StaleEnds'
  <2> SUFFICES ASSUME NEW k \in Subagents \ (alive \cup caught) PROVE StaleEnds!(k)'
    BY <1>0 DEF StaleEnds
  <2>1. StaleEnds!(k)
    BY DEF Routes, StaleEnds
  <2>2. \A d \in Clients : Ends(d, k) => Ends(d, k)'
    BY <1>0, <1>3 DEF Ends, FinishAfter, Reconciles
  <2>3. subs[k] \subseteq Clients
    BY DEF TypeOK, Sessions
  <2> QED BY <1>0, <2>1, <2>2, <2>3
<1>12. Asked'
  BY <1>0, <1>3, AskedKept DEF Loaded
<1> QED BY <1>4, <1>5, <1>6, <1>7, <1>8, <1>9, <1>10, <1>11, <1>12 DEF Routes

LEMMA DeltaKeeps ==
    ASSUME TypeOK, Channels, Attendance, RootIsDriven, Recorded, Routes, Asked,
           NEW c \in Clients, DeltaReplay(c)
    PROVE  /\ TypeOK' /\ Channels' /\ Attendance' /\ RootIsDriven'
           /\ Recorded' /\ Routes' /\ Asked'
<1> DEFINE delta == IF resident THEN SubSeq(log, off[c] + 1, Len(log)) ELSE <<>>
<1>0. /\ load[c] = "replay" /\ wire = <<>>
      /\ load' = [load EXCEPT ![c] = "delta"]
      /\ wire' = Replayed(c, delta)
      /\ caught' = caught \cup (Unfinished(delta) \ alive)
      /\ UNCHANGED <<conn, subs, driver, kids, loading, buf, modal, twice, degraded, cache,
                     evict, alive, meta, ask, log, off, unfinished, routed>>
  BY DEF DeltaReplay, leaderVars, holdVars, agentVars, unloadVars
<1>1. PICK o : Excerpt(delta, o)
  BY Delta
<1> HIDE DEF delta
<1>2. /\ wire' \in Seq(Addressed)
      /\ Len(wire') = Len(delta)
      /\ \A i \in 1 .. Len(delta) : wire'[i].to = c /\ wire'[i].line = delta[i]
      /\ \A i \in 1 .. Len(wire') : conn'[wire'[i].to] # "new"
      /\ AliveIsOpen'
  BY <1>0, <1>1, BatchWire
<1>3. /\ load'[c] = "delta"
      /\ \A d \in Clients \ {c} : load'[d] = load[d]
  BY <1>0 DEF TypeOK
<1>4. TypeOK'
  BY <1>0 DEF TypeOK, Loads
<1>5. Channels'
  BY <1>0, <1>2 DEF Channels
<1>6. Attendance' /\ RootIsDriven'
  <2>1. loading' = {d \in Clients : conn'[d] = "up" /\ load'[d] \in {"requested", "replay", "delta"}}
    BY <1>0, <1>3 DEF Attendance
  <2>2. \A d \in Clients : conn'[d] = "new" => load'[d] = "none"
    BY <1>0, <1>3 DEF Attendance
  <2> QED BY <1>0, <1>2, <2>1, <2>2 DEF Attendance, RootIsDriven
<1>7. Recorded'
  BY <1>0, <1>2 DEF Recorded, LogOrder, Born
<1>8. Followed' /\ SubagentIsDriven'
  BY <1>0 DEF Routes, Followed, SubagentIsDriven
<1>9. Registered'
  <2> SUFFICES ASSUME NEW d \in Clients, NEW k \in alive, conn[d] = "up"
               PROVE  Registered!(d, k)'
    BY <1>0 DEF Registered
  <2>1. Registered!(d, k)
    BY DEF Routes, Registered
  <2> QED BY <1>0, <1>3, <2>1
<1>10. ReplayEnds'
  <2> SUFFICES ASSUME NEW i \in 1 .. Len(wire'), NEW k \in Subagents, k \notin alive,
                      k \notin caught', wire'[i].line = Spawned(k)
               PROVE  FinishAfter(i, wire[i].to, k)' \/ Reconciles(wire[i].to, k)'
    BY <1>0 DEF ReplayEnds
  <2>1. i \in 1 .. Len(delta) /\ delta[i] = Spawned(k) /\ wire'[i].to = c
    BY <1>2
  <2>2. \E j \in 1 .. Len(delta) : j > i /\ delta[j] = Finished(k)
    BY <1>0, <1>1, <2>1, ExcerptEnds
  <2> QED BY <1>2, <2>1, <2>2 DEF FinishAfter
<1>11. StaleEnds'
  <2> SUFFICES ASSUME NEW k \in Subagents \ (alive \cup caught) PROVE StaleEnds!(k)'
    BY <1>0 DEF StaleEnds
  <2>1. StaleEnds!(k)
    BY DEF Routes, StaleEnds
  <2>2. \A d \in Clients : Ends(d, k) => Ends(d, k)'
    BY <1>0, <1>3 DEF Ends, FinishAfter, Reconciles
  <2>3. subs[k] \subseteq Clients
    BY DEF TypeOK, Sessions
  <2> QED BY <1>0, <2>1, <2>2, <2>3
<1>12. Asked'
  BY <1>0, <1>3, AskedKept DEF Loaded
<1> QED BY <1>4, <1>5, <1>6, <1>7, <1>8, <1>9, <1>10, <1>11, <1>12 DEF Routes

--------------------------------------------------------------------------------
(* The leader routes one replayed line. *)

\* What the line at the head of the wire does to the routes of its child k.
Routed(c, k) ==
    /\ wire # <<>> /\ c \in Clients /\ k \in Subagents
    /\ wire[1].to = c /\ wire[1].line \in {Spawned(k), Finished(k)}
    /\ \/ wire[1].line = Spawned(k) /\ conn[c] = "up" /\ Registers(c, k)
       \/ wire[1].line = Finished(k) /\ Pruned({k})
       \/ /\ wire[1].line = Finished(k) /\ conn[c] = "up" /\ subs[k] # {c}
          /\ subs' = [subs EXCEPT ![k] = @ \ {c}] /\ UNCHANGED <<driver, kids>>
       \/ /\ conn[c] # "up" /\ (wire[1].line = Finished(k) => subs[k] # {})
          /\ UNCHANGED <<subs, driver, kids>>

LEMMA RouteDoes ==
    ASSUME TypeOK, Channels, RouteReplay
    PROVE  \E c, k : Routed(c, k)
<1> DEFINE c == wire[1].to
           l == wire[1].line
           k == l.child
<1>1. wire # <<>> /\ wire \in Seq(Addressed)
  BY DEF RouteReplay, Channels
<1>2. Head(wire) = wire[1] /\ 1 \in 1 .. Len(wire)
  BY <1>1, TailAt
<1>3. c \in Clients /\ l \in Line
  BY <1>2, WireAt
<1> HIDE DEF c, l
<1>4. k \in Subagents /\ (l.event = "spawned" => l = Spawned(k))
      /\ (l.event = "finished" => l = Finished(k)) /\ l.event \in {"spawned", "finished"}
  BY <1>3, Records
<1>5. RouteReplayed(c, l)
  BY <1>2 DEF RouteReplay, c, l
<1>6. CASE conn[c] = "up" /\ l.event = "spawned"
  <2>1. Registers(c, k)
    BY <1>5, <1>6 DEF RouteReplayed
  <2>2. Routed(c, k)
    BY <1>1, <1>3, <1>4, <1>6, <2>1 DEF Routed, c, l
  <2> QED BY <2>2
<1>7. CASE conn[c] = "up" /\ l.event = "finished"
  <2>1. Unregisters(c, k)
    BY <1>5, <1>7 DEF RouteReplayed
  <2>2. CASE subs[k] = {c}
    <3>1. Pruned({k})
      BY <1>4, <2>1, <2>2, PruneDoes DEF Unregisters
    <3>2. Routed(c, k)
      BY <1>1, <1>3, <1>4, <1>7, <3>1 DEF Routed, c, l
    <3> QED BY <3>2
  <2>3. CASE subs[k] # {c}
    <3>1. Routed(c, k)
      BY <1>1, <1>3, <1>4, <1>7, <2>1, <2>3 DEF Routed, Unregisters, c, l
    <3> QED BY <3>1
  <2> QED BY <2>2, <2>3
<1>8. CASE conn[c] # "up" /\ l.event = "finished" /\ subs[k] = {}
  <2>1. Pruned({k})
    BY <1>4, <1>5, <1>8, PruneDoes DEF RouteReplayed
  <2>2. Routed(c, k)
    BY <1>1, <1>3, <1>4, <1>8, <2>1 DEF Routed, c, l
  <2> QED BY <2>2
<1>9. CASE conn[c] # "up" /\ ~(l.event = "finished" /\ subs[k] = {})
  <2>1. UNCHANGED <<subs, driver, kids>>
    BY <1>5, <1>9 DEF RouteReplayed, leaderVars
  <2>2. l = Finished(k) => l.event = "finished"
    BY Records
  <2>3. Routed(c, k)
    BY <1>1, <1>3, <1>4, <1>9, <2>1, <2>2 DEF Routed, c, l
  <2> QED BY <2>3
<1> QED BY <1>4, <1>6, <1>7, <1>8, <1>9

LEMMA RouteWire ==
    ASSUME TypeOK, Channels, RouteReplay
    PROVE  /\ wire' \in Seq(Addressed)
           /\ Len(wire) \in Nat /\ Len(wire) >= 1 /\ Len(wire') = Len(wire) - 1
           /\ \A i \in 1 .. Len(wire') : i + 1 \in 1 .. Len(wire) /\ wire'[i] = wire[i + 1]
           /\ \A i \in 1 .. Len(wire) : i = 1 \/ (i - 1 \in 1 .. Len(wire') /\ wire'[i - 1] = wire[i])
<1>1. /\ wire' \in Seq(Addressed)
      /\ Len(wire) \in Nat /\ Len(wire) >= 1 /\ Len(wire') = Len(wire) - 1
      /\ \A i \in 1 .. Len(wire) - 1 : wire'[i] = wire[i + 1]
  BY TailAt DEF RouteReplay, Channels
<1> QED BY <1>1

LEMMA RouteTypes ==
    ASSUME TypeOK, Channels, Attendance, RootIsDriven, RouteReplay
    PROVE  TypeOK' /\ Channels' /\ Attendance' /\ RootIsDriven'
<1>1. PICK c, k : Routed(c, k)
  BY RouteDoes
<1>2. k \in Sessions /\ Root \in Sessions /\ k # Root /\ c \in Clients /\ k \in Subagents
  BY <1>1, RouterAssumption DEF Routed, Sessions
<1>3. UNCHANGED <<conn, loading, buf, modal, cache, evict, alive, meta, ask, log, load, off,
                  unfinished>>
  BY DEF RouteReplay, holdVars, agentVars, unloadVars
<1>4. /\ subs \in [Sessions -> SUBSET {d \in Clients : conn[d] = "up"}]
      /\ driver \in [Sessions -> Clients \cup {None}]
      /\ kids \subseteq Subagents
  BY DEF TypeOK
<1>5. /\ subs' \in [Sessions -> SUBSET {d \in Clients : conn[d] = "up"}]
      /\ driver' \in [Sessions -> Clients \cup {None}]
      /\ kids' \subseteq Subagents
      /\ subs'[Root] = subs[Root] /\ driver'[Root] = driver[Root]
  <2>1. CASE Pruned({k})
    BY <2>1, PrunedTypes
  <2>2. CASE conn[c] = "up" /\ Registers(c, k)
    BY <1>2, <1>4, <2>2 DEF Registers
  <2>3. CASE subs' = [subs EXCEPT ![k] = @ \ {c}] /\ UNCHANGED <<driver, kids>>
    BY <1>2, <1>4, <2>3
  <2>4. CASE UNCHANGED <<subs, driver, kids>>
    BY <1>4, <2>4
  <2> QED BY <1>1, <2>1, <2>2, <2>3, <2>4 DEF Routed
<1>6. TypeOK'
  BY <1>3, <1>5 DEF TypeOK
<1>7. Channels'
  BY <1>3, RouteWire DEF Channels
<1>8. \A i \in 1 .. Len(wire') : conn'[wire'[i].to] # "new"
  BY <1>3, RouteWire DEF Attendance
<1>9. Attendance' /\ RootIsDriven'
  BY <1>3, <1>5, <1>8 DEF Attendance, RootIsDriven
<1> QED BY <1>6, <1>7, <1>9

LEMMA RouteRecorded ==
    ASSUME TypeOK, Channels, Recorded, RouteReplay
    PROVE  Recorded'
<1>1. UNCHANGED <<log, meta, routed, unfinished, alive>>
  BY DEF RouteReplay, agentVars, history
<1>2. AliveIsOpen'
  BY <1>1, RouteWire DEF Recorded, AliveIsOpen
<1> QED BY <1>1, <1>2 DEF Recorded, Born, LogOrder

LEMMA RouteRoutes ==
    ASSUME TypeOK, Channels, Attendance, Recorded, Routes, RouteReplay
    PROVE  Routes'
<1>1. PICK c, k : Routed(c, k)
  BY RouteDoes
<1>2. UNCHANGED <<conn, alive, routed, load, unfinished, caught>>
  BY DEF RouteReplay, agentVars, history
<1>3. /\ k \in Sessions /\ Root \in Sessions /\ k # Root /\ c \in Clients /\ k \in Subagents
      /\ Subagents \subseteq Sessions /\ Root \notin Subagents /\ alive \subseteq Subagents
  BY <1>1, RouterAssumption DEF Routed, Sessions, TypeOK
<1>4. /\ 1 \in 1 .. Len(wire) /\ wire[1].to = c
      /\ wire[1].line = Finished(k) => k \notin alive
  BY <1>1, RouteWire DEF Routed, Recorded, AliveIsOpen
<1>5. /\ \A s \in Sessions \ {k} : subs'[s] = subs[s] /\ driver'[s] = driver[s]
      /\ \A j \in Subagents \ {k} : j \in kids' <=> j \in kids
      /\ k \in alive => /\ subs[k] \subseteq subs'[k] /\ driver'[k] = driver[k]
                        /\ k \in kids => k \in kids'
                        /\ subs'[k] \subseteq subs[k] \cup {c}
                        /\ conn[c] # "up" => subs'[k] = subs[k]
                        /\ wire[1].line = Spawned(k) /\ conn[c] = "up" => c \in subs'[k]
  <2>0. subs \in [Sessions -> SUBSET Clients] /\ driver \in [Sessions -> Clients \cup {None}]
    BY DEF TypeOK
  <2>1. CASE wire[1].line = Finished(k) /\ Pruned({k})
    BY <1>4, <2>1, PrunedTypes DEF Pruned
  <2>2. CASE wire[1].line = Spawned(k) /\ conn[c] = "up" /\ Registers(c, k)
    BY <1>3, <2>0, <2>2 DEF Registers
  <2>3. CASE /\ wire[1].line = Finished(k)
             /\ subs' = [subs EXCEPT ![k] = @ \ {c}] /\ UNCHANGED <<driver, kids>>
    BY <1>3, <1>4, <2>0, <2>3
  <2>4. CASE conn[c] # "up" /\ UNCHANGED <<subs, driver, kids>>
    BY <2>4
  <2> QED BY <1>1, <2>1, <2>2, <2>3, <2>4 DEF Routed
<1>6. Followed'
  <2> SUFFICES ASSUME NEW j \in alive \cap routed PROVE j \in kids' /\ subs'[j] = subs'[Root]
    BY <1>2 DEF Followed
  <2>1. j \in kids /\ subs[j] = subs[Root] /\ subs'[Root] = subs[Root] /\ j \in Subagents
    BY <1>3, <1>5 DEF Routes, Followed
  <2>2. CASE j # k
    BY <1>3, <1>5, <2>1, <2>2
  <2>3. CASE j = k
    <3>1. conn[c] = "up" => c \in subs[k]
      BY <1>3, <2>1, <2>3 DEF Attendance
    <3> QED BY <1>5, <2>1, <2>3, <3>1
  <2> QED BY <2>2, <2>3
<1>7. SubagentIsDriven'
  <2> SUFFICES ASSUME NEW j \in alive \cap routed
               PROVE  IF subs'[j] = {} THEN driver'[j] = None ELSE driver'[j] \in subs'[j]
    BY <1>2 DEF SubagentIsDriven
  <2>1. subs'[j] = subs[j]
    BY <1>2, <1>3, <1>5, <1>6 DEF Routes, Followed
  <2>2. driver'[j] = driver[j]
    BY <1>3, <1>5
  <2> QED BY <2>1, <2>2 DEF Routes, SubagentIsDriven
<1>8. Registered'
  <2> SUFFICES ASSUME NEW d \in Clients, NEW j \in alive, conn[d] = "up"
               PROVE  Registered!(d, j)'
    BY <1>2 DEF Registered
  <2>1. Registered!(d, j)
    BY DEF Routes, Registered
  <2>2. d \in subs[j] => d \in subs'[j]
    BY <1>3, <1>5
  <2>3. ASSUME NEW i \in 1 .. Len(wire), wire[i].to = d, wire[i].line = Spawned(j)
        PROVE  \/ d \in subs'[j]
               \/ \E h \in 1 .. Len(wire') : wire'[h].to = d /\ wire'[h].line = Spawned(j)
    <3>1. CASE i = 1
      <4>1. k = j /\ c = d
        BY <1>1, <2>3, <3>1, Records DEF Routed
      <4> QED BY <1>5, <2>3, <3>1, <4>1
    <3>2. CASE i # 1
      BY <2>3, <3>2, RouteWire
    <3> QED BY <3>1, <3>2
  <2> QED BY <1>2, <2>1, <2>2, <2>3
<1>9. \A i \in Nat : \A d, j : FinishAfter(i + 1, d, j) => FinishAfter(i, d, j)'
  <2> SUFFICES ASSUME NEW i \in Nat, NEW d, NEW j, FinishAfter(i + 1, d, j)
               PROVE  FinishAfter(i, d, j)'
    OBVIOUS
  <2>1. PICK h \in 1 .. Len(wire) : h > i + 1 /\ wire[h].to = d /\ wire[h].line = Finished(j)
    BY DEF FinishAfter
  <2>2. h - 1 \in 1 .. Len(wire') /\ wire'[h - 1] = wire[h] /\ h - 1 > i
    BY <2>1, RouteWire
  <2> QED BY <2>1, <2>2 DEF FinishAfter
<1>10. \A d, j : Ends(d, j) /\ ~(d = c /\ wire[1].line = Finished(j)) => Ends(d, j)'
  <2> SUFFICES ASSUME NEW d, NEW j, Ends(d, j), ~(d = c /\ wire[1].line = Finished(j))
               PROVE  Ends(d, j)'
    OBVIOUS
  <2>1. CASE Reconciles(d, j)
    BY <1>2, <2>1 DEF Ends, Reconciles
  <2>2. CASE FinishAfter(0, d, j)
    <3>1. PICK h \in 1 .. Len(wire) : h > 0 /\ wire[h].to = d /\ wire[h].line = Finished(j)
      BY <2>2 DEF FinishAfter
    <3>2. h # 1
      BY <1>4, <3>1
    <3>3. FinishAfter(1, d, j)
      BY <3>1, <3>2 DEF FinishAfter
    <3>4. FinishAfter(0, d, j)'
      BY <1>9, <3>3
    <3> QED BY <3>4 DEF Ends
  <2> QED BY <2>1, <2>2 DEF Ends
<1>11. ReplayEnds'
  <2> SUFFICES ASSUME NEW i \in 1 .. Len(wire'), NEW j \in Subagents \ (alive \cup caught),
                      wire'[i].line = Spawned(j)
               PROVE  FinishAfter(i, wire[i].to, j)' \/ Reconciles(wire[i].to, j)'
    BY <1>2 DEF ReplayEnds
  <2>1. i + 1 \in 1 .. Len(wire) /\ wire'[i] = wire[i + 1] /\ i \in Nat
    BY RouteWire
  <2>2. FinishAfter(i + 1, wire[i + 1].to, j) \/ Reconciles(wire[i + 1].to, j)
    BY <2>1 DEF Routes, ReplayEnds
  <2>3. CASE FinishAfter(i + 1, wire[i + 1].to, j)
    <3>1. PICK d : d = wire[i + 1].to
      OBVIOUS
    <3>2. FinishAfter(i, d, j)'
      BY <1>9, <2>1, <2>3, <3>1
    <3> QED BY <2>1, <3>1, <3>2 DEF FinishAfter
  <2>4. CASE Reconciles(wire[i + 1].to, j)
    BY <1>2, <2>1, <2>4 DEF Reconciles
  <2> QED BY <2>2, <2>3, <2>4
<1>12. StaleEnds'
  <2> SUFFICES ASSUME NEW j \in Subagents \ (alive \cup caught) PROVE StaleEnds!(j)'
    BY <1>2 DEF StaleEnds
  <2>0. StaleEnds!(j)
    BY DEF Routes, StaleEnds
  <2>1. subs[j] \subseteq {d \in Clients : conn[d] = "up"}
    BY <1>3 DEF TypeOK
  <2>2. CASE j # k
    <3>1. subs'[j] = subs[j] /\ (j \in kids' <=> j \in kids)
      BY <1>3, <1>5, <2>2
    <3>2. wire[1].line # Finished(j)
      BY <1>1, <2>2, Records DEF Routed
    <3>3. \A d : Ends(d, j) => Ends(d, j)'
      BY <1>10, <3>2
    <3> QED BY <1>2, <2>0, <3>1, <3>3
  <2>3. CASE j = k /\ wire[1].line = Spawned(k) /\ conn[c] = "up" /\ Registers(c, k)
    <3>1. subs'[k] = subs[k] \cup {c} /\ kids' = kids \cup {k}
      BY <1>3, <2>3 DEF Registers, TypeOK
    <3>2. \A d : Ends(d, k) => Ends(d, k)'
      BY <1>10, <2>3, Records
    <3>3. Ends(c, k)'
      <4>1. FinishAfter(1, c, k) \/ Reconciles(c, k)
        BY <1>4, <2>3 DEF Routes, ReplayEnds
      <4>2. FinishAfter(1, c, k) => FinishAfter(0, c, k)'
        BY <1>9
      <4>3. Reconciles(c, k) => Reconciles(c, k)'
        BY <1>2 DEF Reconciles
      <4> QED BY <4>1, <4>2, <4>3 DEF Ends
    <3> QED BY <1>3, <2>0, <2>3, <3>1, <3>2, <3>3
  <2>4. CASE j = k /\ Pruned({k})
    <3>1. subs'[k] = {} /\ k \notin kids'
      BY <2>4, PrunedTypes DEF Pruned
    <3> QED BY <2>4, <3>1
  <2>5. CASE /\ j = k /\ wire[1].line = Finished(k) /\ conn[c] = "up" /\ subs[k] # {c}
             /\ subs' = [subs EXCEPT ![k] = @ \ {c}] /\ UNCHANGED <<driver, kids>>
    <3>1. subs'[k] = subs[k] \ {c} /\ kids' = kids
      BY <1>3, <2>5 DEF TypeOK
    <3>2. \A d : Ends(d, k) /\ d # c => Ends(d, k)'
      BY <1>10
    <3>3. \A d \in subs'[k] : Ends(d, k)'
      BY <2>0, <2>5, <3>1, <3>2
    <3>4. k \in kids => \E d \in Clients : (d \in subs'[k] \/ conn'[d] = "gone") /\ Ends(d, k)'
      <4> SUFFICES ASSUME k \in kids
                   PROVE  \E d \in Clients : (d \in subs'[k] \/ conn'[d] = "gone") /\ Ends(d, k)'
        OBVIOUS
      <4>1. CASE subs'[k] # {}
        BY <2>1, <2>5, <3>1, <3>3, <4>1
      <4>2. CASE subs'[k] = {}
        <5>1. subs[k] = {}
          BY <2>5, <3>1, <4>2
        <5>2. PICK d \in Clients : conn[d] = "gone" /\ Ends(d, k)
          BY <2>0, <2>5, <5>1
        <5>3. d # c
          BY <2>5, <5>2
        <5> QED BY <1>2, <3>2, <5>2, <5>3
      <4> QED BY <4>1, <4>2
    <3> QED BY <2>5, <3>1, <3>3, <3>4
  <2>6. CASE /\ j = k /\ conn[c] # "up" /\ (wire[1].line = Finished(k) => subs[k] # {})
             /\ UNCHANGED <<subs, driver, kids>>
    <3>1. c \notin subs[k]
      BY <2>1, <2>6
    <3>2. \A d \in subs[k] : Ends(d, k)'
      BY <1>10, <2>0, <2>6, <3>1
    <3>3. CASE wire[1].line = Finished(k)
      <4>1. PICK d \in subs[k] : TRUE
        BY <2>6, <3>3
      <4> QED BY <2>1, <2>6, <3>2, <4>1
    <3>4. CASE wire[1].line # Finished(k)
      <4>1. \A d : Ends(d, k) => Ends(d, k)'
        BY <1>10, <3>4
      <4> QED BY <1>2, <2>0, <2>6, <4>1
    <3> QED BY <3>3, <3>4
  <2> QED BY <1>1, <2>2, <2>3, <2>4, <2>5, <2>6 DEF Routed
<1> QED BY <1>6, <1>7, <1>8, <1>11, <1>12 DEF Routes

--------------------------------------------------------------------------------
(* The load is answered. *)

LEMMA RespondPrunes ==
    ASSUME TypeOK, Channels, Attendance, NEW c \in Clients, Respond(c)
    PROVE  /\ Orphans(c) \subseteq Subagents \ alive
           /\ Pruned(Orphans(c))
<1>1. Orphans(c) \subseteq Subagents \ alive
  BY DEF Orphans, Channels, TypeOK
<1>2. \A k \in Orphans(c) : subs[Root] # {} \/ subs[k] = {}
  BY <1>1 DEF TypeOK, Attendance, Sessions
<1>3. {k \in Orphans(c) : subs[Root] # {} \/ subs[k] = {}} = Orphans(c)
  BY <1>2
<1> QED BY <1>1, <1>3 DEF Respond, Pruned

LEMMA RespondTypes ==
    ASSUME TypeOK, Channels, Attendance, RootIsDriven, NEW c \in Clients, Respond(c)
    PROVE  TypeOK' /\ Channels' /\ Attendance' /\ RootIsDriven'
<1>1. Orphans(c) \subseteq Subagents \ alive /\ Pruned(Orphans(c))
  BY RespondPrunes
<1>2. /\ subs' \in [Sessions -> SUBSET {d \in Clients : conn[d] = "up"}]
      /\ driver' \in [Sessions -> Clients \cup {None}]
      /\ kids' \subseteq Subagents
      /\ subs'[Root] = subs[Root] /\ driver'[Root] = driver[Root]
  BY <1>1, PrunedTypes
<1>3. /\ UNCHANGED <<conn, cache, evict, alive, ask, wire>>
      /\ meta' = meta \ Orphans(c) /\ load[c] = "delta"
      /\ load' = [load EXCEPT ![c] = "done"]
      /\ off' = [off EXCEPT ![c] = 0]
      /\ unfinished' = [unfinished EXCEPT ![c] = {}]
  BY DEF Respond
<1>4. /\ load'[c] = "done" /\ load' \in [Clients -> Loads]
      /\ \A d \in Clients \ {c} : load'[d] = load[d]
  BY <1>3 DEF TypeOK, Loads
<1>5. /\ loading' = loading \ {c}
      /\ \A d \in Clients \ {c} : buf'[d] = buf[d]
      /\ c \notin loading => buf'[c] = buf[c]
      /\ c \in loading => buf'[c] = <<>>
      /\ buf' \in [Clients -> Seq(Message)]
      /\ modal' \in [Clients -> SUBSET Questions]
  <2>1. Rendered(modal[c], Answers(c)) \subseteq Questions /\ <<>> \in Seq(Message)
    BY DEF Rendered
  <2>2. buf \in [Clients -> Seq(Message)] /\ modal \in [Clients -> SUBSET Questions]
    BY DEF Channels
  <2>3. CASE c \in loading
    BY <2>1, <2>2, <2>3 DEF Respond
  <2>4. CASE c \notin loading
    BY <2>2, <2>4 DEF Respond
  <2> QED BY <2>3, <2>4
<1>6. log' \in Seq(Line)
  <2>1. SetToSeq({Finished(k) : k \in Orphans(c)}) \in Seq(Line)
    BY <1>1, FinishedLines
  <2> QED BY <2>1, ConcatAt DEF Respond, Channels
<1>7. Channels'
  BY <1>3, <1>5, <1>6 DEF Channels
<1>8. Attendance' /\ RootIsDriven'
  <2>1. loading' = {d \in Clients : conn'[d] = "up" /\ load'[d] \in {"requested", "replay", "delta"}}
    BY <1>3, <1>4, <1>5 DEF Attendance
  <2>2. \A d \in Clients : conn'[d] = "new" => load'[d] = "none"
    BY <1>3, <1>4 DEF Attendance
  <2> QED BY <1>2, <1>3, <2>1, <2>2 DEF Attendance, RootIsDriven
<1>9. alive' \subseteq meta' /\ meta' \subseteq Subagents
  BY <1>1, <1>3 DEF TypeOK
<1>10. \A d \in Clients : Len(buf'[d]) <= MaxBuffer /\ (d \notin loading' => buf'[d] = <<>>)
  <2>1. \A d \in Clients : Len(buf[d]) <= MaxBuffer /\ (d \notin loading => buf[d] = <<>>)
    BY DEF TypeOK
  <2>2. Len(<<>>) <= MaxBuffer
    BY RouterAssumption
  <2> QED BY <1>5, <2>1, <2>2
<1>11. loading' \subseteq subs'[Root]
  BY <1>2, <1>5 DEF TypeOK
<1>12. TypeOK'
  BY <1>2, <1>3, <1>4, <1>9, <1>10, <1>11 DEF TypeOK
<1> QED BY <1>7, <1>8, <1>12

LEMMA RespondRecorded ==
    ASSUME TypeOK, Channels, Attendance, Recorded, NEW c \in Clients, Respond(c)
    PROVE  Recorded'
<1>1. Orphans(c) \subseteq Subagents \ alive
  BY RespondPrunes
<1> DEFINE s == SetToSeq({Finished(k) : k \in Orphans(c)})
<1>2. /\ log' = log \o s
      /\ UNCHANGED <<alive, wire, routed>> /\ meta' \subseteq meta
      /\ \A d \in Clients : unfinished'[d] \subseteq unfinished[d]
  BY DEF Respond, history, Channels
<1>3. s \in Seq(Line) /\ \A i \in 1 .. Len(s) : \E k \in Orphans(c) : s[i] = Finished(k)
  BY <1>1, FinishedLines
<1>4. \A k \in Orphans(c) : Spawned(k) \in Range(log)
  BY <1>1 DEF Orphans, Recorded, Born
<1> HIDE DEF s
<1>5. \A i \in 1 .. Len(s) :
          \E k \in Subagents \ alive' : s[i] = Finished(k) /\ Spawned(k) \in Range(log)
  BY <1>1, <1>2, <1>3, <1>4
<1> QED BY <1>2, <1>3, <1>5, FinishesRecorded

LEMMA RespondRoutes ==
    ASSUME TypeOK, Channels, Attendance, Routes, NEW c \in Clients, Respond(c)
    PROVE  Routes'
<1>1. Orphans(c) \subseteq Subagents \ alive /\ Pruned(Orphans(c))
  BY RespondPrunes
<1>2. /\ wire = <<>> /\ load[c] = "delta"
      /\ UNCHANGED <<conn, alive, wire, routed, caught>>
  BY DEF Respond, history
<1>3. /\ load'[c] = "done"
      /\ \A d \in Clients \ {c} : load'[d] = load[d] /\ unfinished'[d] = unfinished[d]
  BY DEF Respond, TypeOK, Channels
<1>4. \A d \in Clients, k \in Subagents \ (alive \cup Orphans(c)) :
          Reconciles(d, k) => Reconciles(d, k)'
  BY <1>3 DEF Reconciles, Orphans
<1>5. alive' = alive \ Orphans(c)
  BY <1>1, <1>2
<1> QED BY <1>1, <1>2, <1>3, <1>4, <1>5, PrunedRoutes

LEMMA RespondAsked ==
    ASSUME TypeOK, Channels, Attendance, Asked, NEW c \in Clients, Respond(c)
    PROVE  Asked'
<1>1. /\ UNCHANGED <<conn, degraded, cache, ask>> /\ load[c] = "delta" /\ load'[c] = "done"
      /\ \A d \in Clients \ {c} : load'[d] = load[d]
  BY DEF Respond, TypeOK
<1>2. CASE c \notin loading
  <2>1. conn[c] # "up" /\ UNCHANGED <<buf, modal>>
    BY <1>1, <1>2 DEF Attendance, Respond
  <2> QED BY <1>1, <2>1, AskedKept DEF Loaded
<1>3. CASE c \in loading
  <2>1. /\ conn[c] = "up"
        /\ modal'[c] = Rendered(modal[c], buf[c] \o SetToSeq({Shows(q) : q \in cache}))
        /\ buf'[c] = <<>>
        /\ \A d \in Clients \ {c} : modal'[d] = modal[d] /\ buf'[d] = buf[d]
    BY <1>3 DEF Respond, Answers, Attendance, Channels
  <2>2. cache = Open /\ Open' = Open /\ Open \subseteq Questions
    BY <1>1 DEF Asked, Questioned, Open
  <2>3. c \notin degraded => modal'[c] = Open
    <3>1. buf[c] \in Seq(Message)
      BY DEF Channels
    <3> QED BY <2>1, <2>2, <3>1, RenderedAnswers, ZenonT(30) DEF Asked, Questioned
  <2>4. \A d \in Clients \ degraded : Rendered(modal'[d], buf'[d]) \subseteq Open
    BY <2>1, <2>2, <2>3, RenderedNothing DEF Asked, Questioned
  <2>5. Questioned'
    BY <1>1, <2>1, <2>2, <2>4 DEF Asked, Questioned
  <2>6. LoadedShowsOpenQuestions'
    BY <1>1, <2>1, <2>2, <2>3 DEF Asked, LoadedShowsOpenQuestions, Loaded, Open
  <2> QED BY <2>5, <2>6 DEF Asked
<1> QED BY <1>2, <1>3

--------------------------------------------------------------------------------
(* Restart, Init, and the whole. *)

LEMMA FreshRoutes ==
    ASSUME wire = <<>>, alive = {}, kids = {}, subs = [s \in Sessions |-> {}]
    PROVE  Routes /\ AliveIsOpen
  BY DEF Routes, Followed, SubagentIsDriven, Registered, ReplayEnds, StaleEnds, Sessions,
         AliveIsOpen

LEMMA FreshQuestions ==
    ASSUME cache = {}, modal = [c \in Clients |-> {}], buf = [c \in Clients |-> <<>>],
           \A q \in Questions : ask[q] # "open",
           \A c \in Clients : ~Loaded(c)
    PROVE  Asked
  BY DEF Asked, Questioned, LoadedShowsOpenQuestions, Open, Rendered

LEMMA RestartKeeps ==
    ASSUME TypeOK, Channels, Attendance, Recorded, Restart
    PROVE  /\ TypeOK' /\ Channels' /\ Attendance' /\ RootIsDriven'
           /\ Recorded' /\ Routes' /\ Asked'
<1>0. Root \in Sessions
  BY DEF Sessions
<1>1. /\ conn' = [c \in Clients |-> IF conn[c] = "up" THEN "gone" ELSE conn[c]]
      /\ subs' = [s \in Sessions |-> {}] /\ driver' = [s \in Sessions |-> None] /\ kids' = {}
      /\ loading' = {} /\ buf' = [c \in Clients |-> <<>>] /\ cache' = {}
      /\ evict' = {} /\ alive' = {}
      /\ ask' = [q \in Questions |-> IF ask[q] = "open" THEN "closed" ELSE ask[q]]
      /\ load' = [c \in Clients |-> IF load[c] = "none" THEN "none" ELSE "done"]
      /\ wire' = <<>> /\ off' = [c \in Clients |-> 0]
      /\ unfinished' = [c \in Clients |-> {}]
      /\ modal' = [c \in Clients |-> {}]
      /\ UNCHANGED <<meta, log, routed>>
  BY DEF Restart
<1>2. TypeOK'
  <2>1. Len(<<>>) <= MaxBuffer
    BY RouterAssumption
  <2>2. conn' \in [Clients -> {"new", "up", "gone"}] /\ ask' \in [Questions -> {"new", "open", "closed"}]
    BY <1>1 DEF TypeOK
  <2>3. load' \in [Clients -> Loads]
    BY <1>1 DEF TypeOK, Loads
  <2> QED BY <1>0, <1>1, <2>1, <2>2, <2>3 DEF TypeOK
<1>3. Channels'
  BY <1>1 DEF Channels
<1>4. Attendance' /\ RootIsDriven'
  BY <1>0, <1>1 DEF Attendance, RootIsDriven, TypeOK
<1>5. Routes' /\ AliveIsOpen'
  BY <1>1 DEF Routes, Followed, SubagentIsDriven, Registered, ReplayEnds, StaleEnds, Sessions,
              AliveIsOpen
<1>6. Recorded'
  BY <1>1, <1>5 DEF Recorded, Born, LogOrder
<1>7. /\ \A q \in Questions : ask'[q] # "open"
      /\ \A c \in Clients : ~Loaded(c)'
  BY <1>1 DEF Loaded
<1>8. Asked'
  BY <1>1, <1>7 DEF Asked, Questioned, LoadedShowsOpenQuestions, Open, Rendered
<1> QED BY <1>2, <1>3, <1>4, <1>5, <1>6, <1>8

LEMMA InitIInv == Init => IInv
<1> SUFFICES ASSUME Init PROVE IInv
  OBVIOUS
<1>0. Root \in Sessions
  BY DEF Sessions
<1>1. TypeOK
  BY <1>0, RouterAssumption DEF Init, TypeOK, Loads
<1>2. Channels
  BY DEF Init, Channels
<1>3. Attendance /\ RootIsDriven
  BY <1>0 DEF Init, Attendance, RootIsDriven
<1>4. Routes /\ AliveIsOpen
  BY FreshRoutes DEF Init
<1>5. Born /\ LogOrder
  BY DEF Init, Born, LogOrder, Range
<1>6. Asked
  BY FreshQuestions DEF Init, Loaded
<1> QED BY <1>1, <1>2, <1>3, <1>4, <1>5, <1>6 DEF IInv, Recorded

LEMMA NextIInv == IInv /\ [Next]_vars => IInv'
<1> SUFFICES ASSUME IInv, [Next]_vars PROVE IInv'
  OBVIOUS
<1> USE DEF IInv
<1>1. ASSUME NEW c \in Clients, Request(c) \/ RequestLoad(c) PROVE IInv'
  <2>1. Recorded'
    BY <1>1, JoinDoes, RecordedKept DEF Joined, agentVars
  <2> QED BY <1>1, <2>1, JoinTypes, JoinRoutes, JoinAsked
<1>2. ASSUME NEW c \in Clients, Disconnect(c) PROVE IInv'
  <2>1. Recorded'
    BY <1>2, RecordedKept DEF Disconnect, loadVars, history
  <2> QED BY <1>2, <2>1, LeaveTypes, LeaveRoutes, LeaveAsked
<1>3. ASSUME NEW c \in Clients, Replay(c) PROVE IInv'
  BY <1>3, ReplayKeeps
<1>4. ASSUME NEW c \in Clients, DeltaReplay(c) PROVE IInv'
  BY <1>4, DeltaKeeps
<1>5. ASSUME NEW c \in Clients, Respond(c) PROVE IInv'
  BY <1>5, RespondTypes, RespondRecorded, RespondRoutes, RespondAsked
<1>6. ASSUME NEW k \in Subagents, Spawn(k) PROVE IInv'
  <2>1. Asked'
    BY <1>6, AskedKept DEF Spawn, holdVars, loadVars, Loaded
  <2> QED BY <1>6, <2>1, SpawnTypes, SpawnRecorded, SpawnRoutes
<1>7. ASSUME NEW k \in Subagents, Finish(k) PROVE IInv'
  <2>1. Asked'
    BY <1>7, AskedKept DEF Finish, holdVars, loadVars, Loaded
  <2> QED BY <1>7, <2>1, FinishTypes, FinishRecorded, FinishRoutes
<1>8. ASSUME NEW q \in Questions, Ask(q) \/ Resolve(q) PROVE IInv'
  <2>1. UNCHANGED <<conn, leaderVars, alive, meta, log, loadVars, history>>
    BY <1>8 DEF Ask, Resolve
  <2>2. Recorded'
    BY <2>1, RecordedKept DEF loadVars, history
  <2>3. Routes'
    BY <2>1, RoutesKept DEF leaderVars, loadVars, history
  <2> QED BY <1>8, <2>2, <2>3, AskTypes, AskAsked
<1>9. CASE CheckIdle \/ Unload \/ UNCHANGED vars
  <2>1. /\ UNCHANGED <<conn, leaderVars, holdVars, cache, alive, meta, ask, log, loadVars, history>>
        /\ evict' \subseteq {"sent", "idle"}
    BY <1>9 DEF CheckIdle, Unload, vars, agentVars, unloadVars, TypeOK
  <2>2. Recorded'
    BY <2>1, RecordedKept DEF loadVars, history
  <2>3. Routes'
    BY <2>1, RoutesKept DEF leaderVars, loadVars, history
  <2>4. Asked'
    BY <2>1, AskedKept DEF holdVars, loadVars, Loaded
  <2>5. TypeOK' /\ Channels' /\ Attendance' /\ RootIsDriven'
    BY <2>1 DEF TypeOK, Channels, Attendance, RootIsDriven, leaderVars, holdVars, loadVars
  <2> QED BY <2>2, <2>3, <2>4, <2>5
<1>10. CASE RouteReplay
  <2>1. Asked'
    BY <1>10, AskedKept DEF RouteReplay, holdVars, agentVars, Loaded
  <2> QED BY <1>10, <2>1, RouteTypes, RouteRecorded, RouteRoutes
<1>11. CASE Restart
  BY <1>11, RestartKeeps
<1> QED
  BY <1>1, <1>2, <1>3, <1>4, <1>5, <1>6, <1>7, <1>8, <1>9, <1>10, <1>11
     DEF Next, Client, LoadSession

LEMMA Inductive == Spec => []IInv
  BY InitIInv, NextIInv, PTL DEF Spec

\* The leader's tables and channels hold what belongs in them: only clients that
\* are there subscribe, the buffer of a load keeps MAX_BUFFERED_LIVE_PER_LOAD and
\* goes with it, and every running subagent is on the disk as running.
THEOREM RouterTypeCorrect == Spec => []TypeOK
<1>1. IInv => TypeOK
  BY DEF IInv
<1> QED BY <1>1, Inductive, PTL

\* The root has a driver exactly as long as it has a subscriber, and the driver is
\* one, however clients join, leave and hand over.
THEOREM RootDrivenCorrect == Spec => []RootIsDriven
<1>1. IInv => RootIsDriven
  BY DEF IInv
<1> QED BY <1>1, Inductive, PTL

\* The same of a running subagent whose spawn was routed live, whatever replays
\* register meanwhile.
THEOREM SubagentDrivenCorrect == Spec => []SubagentIsDriven
<1>1. IInv => SubagentIsDriven
  BY DEF IInv, Routes
<1> QED BY <1>1, Inductive, PTL

\* A client whose load is answered follows every running subagent, for any number
\* of clients that load at the same time, subagents, unloads and restarts.
THEOREM FollowsCorrect == Spec => []LoadedFollowsSubagents
<1>1. IInv => LoadedFollowsSubagents
  BY DEF IInv, Routes, Registered, LoadedFollowsSubagents, Loaded
<1> QED BY <1>1, Inductive, PTL

\* A client whose load is answered, and whose buffer did not overflow, shows exactly
\* the open questions: the cache that answers the load and the messages held back
\* for it fit together.
THEOREM QuestionsCorrect == Spec => []LoadedShowsOpenQuestions
<1>1. IInv => LoadedShowsOpenQuestions
  BY DEF IInv, Asked
<1> QED BY <1>1, Inductive, PTL

\* When no load is under way the leader keeps no route of a finished subagent, up
\* to the two cases FinishedIsUnrouted names.
THEOREM UnroutedCorrect == Spec => []FinishedIsUnrouted
<1>1. IInv => FinishedIsUnrouted
  <2> SUFFICES ASSUME IInv, wire = <<>>, \A c \in Clients : load[c] \in {"none", "done"},
                      NEW k \in Subagents \ (alive \cup caught)
               PROVE  k \notin kids /\ subs[k] = {}
    BY DEF FinishedIsUnrouted
  <2>1. \A c \in Clients : ~Ends(c, k)
    BY DEF Ends, FinishAfter, Reconciles
  <2>2. subs[k] \subseteq Clients
    BY DEF IInv, TypeOK, Sessions
  <2> QED BY <2>1, <2>2 DEF IInv, Routes, StaleEnds
<1> QED BY <1>1, Inductive, PTL

================================================================================
