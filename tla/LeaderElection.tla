----------------------------- MODULE LeaderElection -----------------------------
(***************************************************************************)
(* How clients find, spawn and replace the leader process (Unix build).    *)
(*                                                                         *)
(* Clients (connect_or_spawn) and leaders (run_leader) are processes that  *)
(* share two files and nothing else: leader.lock, whose flock elects the   *)
(* spawner and then belongs to the leader, and whose content is the pid of *)
(* the leader; and leader.sock, the socket that clients connect to. A path *)
(* and the file behind it are different things: a process that opened the  *)
(* lock file keeps its inode when the path is unlinked, so `open' and      *)
(* `flock' are two steps, and so are the unlock and the two unlinks of     *)
(* LeaderLock's Drop.                                                      *)
(***************************************************************************)
EXTENDS Integers, FiniteSets

CONSTANTS
    Clients,
    Leaders,    \* bound: leader processes that may ever run
    Old,        \* the leader that serves at first, below the clients' version
    Inodes,     \* enough lock files for one path and all open descriptors
    Faults,     \* \subseteq {"crash", "exit", "slow"}
    MaxFaults,  \* bound
    None

Procs == Clients \cup Leaders

ASSUME ElectionAssumption ==
    /\ Clients \cap Leaders = {}
    /\ Old \subseteq Leaders
    /\ \A l, m \in Old : l = m
    /\ Inodes \subseteq Nat /\ Inodes # {}
    /\ MaxFaults \in Nat
    /\ None \notin Procs /\ None \notin Inodes

VARIABLES
    pc,         \* where each process is
    fd,         \* the lock file each process has open
    lockPath,   \* the inode that leader.lock names
    locked,     \* who holds the flock, per inode
    pid,        \* the content, per inode
    sock,       \* the leader whose socket leader.sock is
    srv,        \* "none", "up" or "down": run_leader_server, per leader
    conn,       \* the leader each client is connected to
    child,      \* the leader each client has spawned last
    torn,       \* history: a lock file was unlinked while others had it open
    faults

files == <<lockPath, locked, pid, sock>>
history == <<torn, faults>>
vars == <<pc, fd, files, srv, conn, child, history>>

ClientSteps == {"start", "open", "trylock", "recheck", "clean", "ready", "release",
                "connect", "wait", "connected", "unlock", "unlink", "unsock"}
LeaderSteps == {"off", "boot", "bootlock", "busy", "bootpid", "rm", "bind", "waitsock",
                "handopen", "handlock", "handpid", "serving", "drain", "stop",
                "unlock", "unlink", "unsock", "gone"}

Init ==
    /\ pc = [p \in Procs |-> IF p \in Clients THEN "start"
                             ELSE IF p \in Old THEN "serving" ELSE "off"]
    /\ LET i == CHOOSE i \in Inodes : TRUE
           running == Old # {}
           l == CHOOSE l \in Old : TRUE IN
       /\ fd = [p \in Procs |-> IF p \in Old THEN i ELSE None]
       /\ lockPath = IF running THEN i ELSE None
       /\ locked = [j \in Inodes |-> IF running /\ j = i THEN l ELSE None]
       /\ pid = [j \in Inodes |-> IF running /\ j = i THEN l ELSE None]
       /\ sock = IF running THEN l ELSE None
    /\ srv = [l \in Leaders |-> IF l \in Old THEN "up" ELSE "none"]
    /\ conn = [c \in Clients |-> None]
    /\ child = [c \in Clients |-> None]
    /\ torn = FALSE
    /\ faults = 0

--------------------------------------------------------------------------------
(* LeaderLock and the file system. *)

At(p, here) == pc[p] = here
Goto(p, there) == pc' = [pc EXCEPT ![p] = there]
Step(p, here, there) == At(p, here) /\ Goto(p, there)

Alive(l) == l # None /\ pc[l] \notin {"off", "gone"}
Holds(p) == fd[p] # None /\ locked[fd[p]] = p
Fault(f) == f \in Faults /\ faults < MaxFaults /\ faults' = faults + 1

\* listener_is_ready: the path exists, whoever bound it.
ListenerIsReady == sock # None
Connectable == ListenerIsReady /\ srv[sock] = "up"

\* read_pid: the content of the file the path names now.
ReadPid == IF lockPath = None THEN None ELSE pid[lockPath]

Unused == {i \in Inodes : i # lockPath /\ \A p \in Procs : fd[p] # i}

\* open_lock_file, with O_CREAT.
OpenLockFile(p) ==
    \/ /\ lockPath # None
       /\ fd' = [fd EXCEPT ![p] = lockPath]
       /\ UNCHANGED <<lockPath, pid>>
    \/ /\ lockPath = None
       /\ \E i \in Unused :
           /\ \A j \in Unused : i <= j
           /\ fd' = [fd EXCEPT ![p] = i]
           /\ lockPath' = i
           /\ pid' = [pid EXCEPT ![i] = None]

\* try_lock_exclusive on the open file.
Lock(p) == locked[fd[p]] = None /\ locked' = [locked EXCEPT ![fd[p]] = p]
Contended(p) == locked[fd[p]] # None
Unlocked(p) == [i \in Inodes |-> IF locked[i] = p THEN None ELSE locked[i]]

\* Slip: closing the descriptor does not unlock.
CloseKeepingLock(p) == fd' = [fd EXCEPT ![p] = None] /\ locked' = locked

Close(p) == fd' = [fd EXCEPT ![p] = None] /\ locked' = Unlocked(p)

\* Slip: the path is opened again to write the pid.
WritePidByPath(l) ==
    pid' = [i \in Inodes |-> IF i = lockPath THEN l ELSE pid[i]]

\* write_pid, through the descriptor.
WritePid(l) == pid' = [pid EXCEPT ![fd[l]] = l]

\* Drop of a LeaderLock that was not released: unlock, then both paths go,
\* whatever they name by then.
DropLock(p, end) ==
    \/ /\ Step(p, "unlock", "unlink")
       /\ Close(p)
       /\ UNCHANGED <<lockPath, pid, sock, torn>>
    \/ /\ Step(p, "unlink", "unsock")
       /\ lockPath' = None
       /\ torn' = (torn \/ \E q \in Procs \ {p} : lockPath # None /\ fd[q] = lockPath)
       /\ UNCHANGED <<fd, locked, pid, sock>>
    \/ /\ Step(p, "unsock", end)
       /\ sock' = None
       /\ UNCHANGED <<fd, lockPath, locked, pid, torn>>

--------------------------------------------------------------------------------
(* connect_or_spawn, run by a client until it is connected; an error is       *)
(* answered by the next attempt of reconnect_with or of the user.             *)

Adopt(c) == Goto(c, "connected") /\ conn' = [conn EXCEPT ![c] = sock]

\* The fast path: a leader that answers and is not too old is adopted.
FastPath(c) ==
    /\ At(c, "start")
    /\ IF Connectable /\ (ReadPid = None \/ Alive(ReadPid)) /\ sock \notin Old
       THEN Adopt(c)
       ELSE Goto(c, "open") /\ UNCHANGED conn
    /\ UNCHANGED <<fd, files, srv, child, history>>

ClientOpen(c) ==
    /\ Step(c, "open", "trylock")
    /\ OpenLockFile(c)
    /\ UNCHANGED <<locked, sock, srv, conn, child, history>>

TryAcquire(c) ==
    /\ At(c, "trylock")
    /\ \/ Lock(c) /\ Goto(c, "recheck") /\ UNCHANGED fd
       \/ Contended(c) /\ Goto(c, "wait") /\ Close(c)
    /\ UNCHANGED <<lockPath, pid, sock, srv, conn, child, history>>

\* request_leader_vacate: the leader accepts one relaunch and drains.
Vacated(l) == [pc EXCEPT ![l] = IF @ = "serving" THEN "drain" ELSE @]

\* With the lock: adopt a leader that a sibling has spawned. One that is below
\* the floor is evicted: asked to leave and its socket reclaimed.
Recheck(c) ==
    /\ At(c, "recheck")
    /\ IF Connectable /\ Alive(ReadPid) /\ sock \notin Old
       THEN Adopt(c) /\ Close(c)
       ELSE /\ pc' = [IF Connectable /\ Alive(ReadPid) THEN Vacated(sock) ELSE pc
                     EXCEPT ![c] = "clean"]
            /\ UNCHANGED <<conn, fd, locked>>
    /\ UNCHANGED <<lockPath, pid, sock, srv, child, history>>

\* cleanup_socket and spawn_leader_subprocess.
CleanupAndSpawn(c) ==
    /\ At(c, "clean")
    /\ sock' = None
    /\ \E l \in Leaders :
        /\ pc[l] = "off"
        /\ pc' = [pc EXCEPT ![c] = "ready", ![l] = "boot"]
        /\ child' = [child EXCEPT ![c] = l]
    /\ UNCHANGED <<fd, lockPath, locked, pid, srv, conn, history>>

\* wait_for_listener_ready: the path is there.
ListenerReady(c) ==
    /\ ListenerIsReady
    /\ Step(c, "ready", "release")
    /\ UNCHANGED <<fd, files, srv, conn, child, history>>

\* ... or its 10 s are over: the leader has died, its socket was removed again,
\* or it is slow.
Booting(l) == pc[l] \in {"boot", "bootlock", "busy", "bootpid", "rm", "bind"}

SpawnTimeout(c) ==
    /\ ~ListenerIsReady
    /\ Step(c, "ready", "unlock")
    /\ IF Booting(child[c]) THEN Fault("slow") ELSE UNCHANGED faults
    /\ UNCHANGED <<fd, files, srv, conn, child, torn>>

\* Slip: release also removes the lock file.
ReleaseAndRemove(c) ==
    /\ Step(c, "release", "connect")
    /\ Close(c)
    /\ lockPath' = None
    /\ UNCHANGED <<pid, sock, srv, conn, child, history>>

\* release: the lock is handed over, the files stay.
Release(c) ==
    /\ Step(c, "release", "connect")
    /\ Close(c)
    /\ UNCHANGED <<lockPath, pid, sock, srv, conn, child, history>>

Connect(c) ==
    /\ At(c, "connect")
    /\ IF Connectable THEN Adopt(c) ELSE Goto(c, "start") /\ UNCHANGED conn
    /\ UNCHANGED <<fd, files, srv, child, history>>

\* Slip: a client that lost the race never tries the lock again.
WaitForSocketOnly(c) ==
    /\ At(c, "wait")
    /\ \/ Connectable /\ sock \notin Old /\ Adopt(c)
       \/ /\ Connectable /\ sock \in Old
          /\ pc' = [Vacated(sock) EXCEPT ![c] = "open"]
          /\ UNCHANGED conn
    /\ UNCHANGED <<fd, files, srv, child, history>>

\* wait_for_socket_connectable: adopt, or ask an old leader to leave
\* and try the lock again; after its 10 s too, unless
\* an attempt has failed, which is an error.
WaitForSocket(c) ==
    /\ At(c, "wait")
    /\ \/ Connectable /\ sock \notin Old /\ Adopt(c)
       \/ /\ Connectable /\ sock \in Old
          /\ pc' = [Vacated(sock) EXCEPT ![c] = "open"]
          /\ UNCHANGED conn
       \/ ~Connectable /\ Goto(c, "open") /\ UNCHANGED conn
       \/ ~Connectable /\ ListenerIsReady /\ Goto(c, "start") /\ UNCHANGED conn
    /\ UNCHANGED <<fd, files, srv, child, history>>

\* A client whose spawn failed drops its lock with the error.
ClientDrop(c) == DropLock(c, "start") /\ UNCHANGED <<srv, conn, child, faults>>

\* The connection is lost.
Disconnected(c) ==
    /\ Step(c, "connected", "start")
    /\ srv[conn[c]] # "up"
    /\ conn' = [conn EXCEPT ![c] = None]
    /\ UNCHANGED <<fd, files, srv, child, history>>

\* The client is killed while it holds the lock: nothing is cleaned up.
ClientExit(c) ==
    /\ Holds(c)
    /\ Fault("exit")
    /\ Goto(c, "start")
    /\ Close(c)
    /\ UNCHANGED <<lockPath, pid, sock, srv, conn, child, torn>>

--------------------------------------------------------------------------------
(* run_leader *)

Boot(l) ==
    /\ Step(l, "boot", "bootlock")
    /\ OpenLockFile(l)
    /\ UNCHANGED <<locked, sock, srv, conn, child, history>>

BootLock(l) ==
    /\ At(l, "bootlock")
    /\ \/ Lock(l) /\ Goto(l, "bootpid") /\ UNCHANGED fd
       \/ Contended(l) /\ Goto(l, "busy") /\ Close(l)
    /\ UNCHANGED <<lockPath, pid, sock, srv, conn, child, history>>

\* The lock was free: this is the leader.
BootPid(l) ==
    /\ Step(l, "bootpid", "rm")
    /\ WritePid(l)
    /\ UNCHANGED <<fd, lockPath, locked, sock, srv, conn, child, history>>

\* The lock is held: with a socket by another leader, without by the spawner.
BailOut(l) ==
    /\ Step(l, "busy", IF ListenerIsReady THEN "gone" ELSE "rm")
    /\ UNCHANGED <<fd, files, srv, conn, child, history>>

\* cleanup_socket, and again in run_leader_server.
RemoveSocket(l) ==
    /\ Step(l, "rm", "bind")
    /\ sock' = None
    /\ UNCHANGED <<fd, lockPath, locked, pid, srv, conn, child, history>>

\* bind fails if somebody else was faster.
Bind(l) ==
    /\ Step(l, "bind", "waitsock")
    /\ IF ListenerIsReady
       THEN srv' = [srv EXCEPT ![l] = "down"] /\ UNCHANGED sock
       ELSE srv' = [srv EXCEPT ![l] = "up"] /\ sock' = l
    /\ UNCHANGED <<fd, lockPath, locked, pid, conn, child, history>>

\* Wait up to 5 s for a socket, then the lock handoff.
SocketReady(l) ==
    /\ ListenerIsReady
    /\ Step(l, "waitsock", IF Holds(l) THEN "serving" ELSE "handopen")
    /\ UNCHANGED <<fd, files, srv, conn, child, history>>

SocketTimeout(l) ==
    /\ ~ListenerIsReady
    /\ Step(l, "waitsock", "stop")
    /\ UNCHANGED <<fd, files, srv, conn, child, history>>

HandoffOpen(l) ==
    /\ Step(l, "handopen", "handlock")
    /\ OpenLockFile(l)
    /\ UNCHANGED <<locked, sock, srv, conn, child, history>>

\* try_acquire_timeout. Its 30 s are over when another leader has the lock for
\* good, or a client that spawns, for 10 s at most, was stalled meanwhile.
HandoffLock(l) ==
    /\ Step(l, "handlock", "handpid")
    /\ Lock(l)
    /\ UNCHANGED <<fd, lockPath, pid, sock, srv, conn, child, history>>

HandoffTimeout(l) ==
    /\ Step(l, "handlock", "stop")
    /\ Contended(l)
    /\ IF locked[fd[l]] \in Clients THEN Fault("slow") ELSE UNCHANGED faults
    /\ UNCHANGED <<fd, files, srv, conn, child, torn>>

HandoffPid(l) ==
    /\ Step(l, "handpid", "serving")
    /\ WritePid(l)
    /\ UNCHANGED <<fd, lockPath, locked, sock, srv, conn, child, history>>

\* A relaunch is due, or run_leader_server has returned.
Shutdown(l) ==
    /\ \/ Step(l, "drain", "stop")
       \/ srv[l] = "down" /\ Step(l, "serving", "stop")
    /\ UNCHANGED <<fd, files, srv, conn, child, history>>

\* The cancelled server removes the path as it ends; when run_leader returns an
\* error the process may be gone before it gets that far.
Stop(l) ==
    /\ Step(l, "stop", IF Holds(l) THEN "unlock" ELSE "gone")
    /\ \/ srv[l] = "up" /\ sock' = None
       \/ (srv[l] = "down" \/ ~Holds(l)) /\ UNCHANGED sock
    /\ srv' = [srv EXCEPT ![l] = "down"]
    /\ IF Holds(l) THEN UNCHANGED <<fd, locked>> ELSE Close(l)
    /\ UNCHANGED <<lockPath, pid, conn, child, history>>

LeaderDrop(l) == DropLock(l, "gone") /\ UNCHANGED <<srv, conn, child, faults>>

Crash(l) ==
    /\ Alive(l)
    /\ Fault("crash")
    /\ Goto(l, "gone")
    /\ Close(l)
    /\ srv' = [srv EXCEPT ![l] = "down"]
    /\ UNCHANGED <<lockPath, pid, sock, conn, child, torn>>

--------------------------------------------------------------------------------
Client(c) ==
    \/ FastPath(c) \/ ClientOpen(c) \/ TryAcquire(c) \/ Recheck(c)
    \/ CleanupAndSpawn(c) \/ ListenerReady(c) \/ SpawnTimeout(c) \/ Release(c)
    \/ Connect(c) \/ WaitForSocket(c) \/ ClientDrop(c) \/ Disconnected(c)

Leader(l) ==
    \/ Boot(l) \/ BootLock(l) \/ BootPid(l) \/ BailOut(l) \/ RemoveSocket(l)
    \/ Bind(l) \/ SocketReady(l) \/ SocketTimeout(l) \/ HandoffOpen(l)
    \/ HandoffLock(l) \/ HandoffTimeout(l) \/ HandoffPid(l) \/ Shutdown(l)
    \/ Stop(l) \/ LeaderDrop(l)

Next ==
    \/ \E c \in Clients : Client(c) \/ ClientExit(c)
    \/ \E l \in Leaders : Leader(l) \/ Crash(l)

Spec == Init /\ [][Next]_vars

\* Every process is scheduled, and each wait of the two programs is a poll with a
\* deadline. A client that got an error tries again.
FairSpec ==
    /\ Spec
    /\ \A c \in Clients : WF_vars(Client(c))
    /\ \A l \in Leaders : WF_vars(Leader(l))

--------------------------------------------------------------------------------
(* Properties *)

\* The lock file's inodes, its holder and every process's place in the code are in
\* range, and a flock is held through an open descriptor.
TypeOK ==
    /\ pc \in [Procs -> ClientSteps \cup LeaderSteps]
    /\ \A c \in Clients : pc[c] \in ClientSteps
    /\ \A l \in Leaders : pc[l] \in LeaderSteps
    /\ fd \in [Procs -> Inodes \cup {None}]
    /\ lockPath \in Inodes \cup {None}
    /\ locked \in [Inodes -> Procs \cup {None}]
    /\ \A i \in Inodes : locked[i] # None => fd[locked[i]] = i
    /\ pid \in [Inodes -> Leaders \cup {None}]
    /\ sock \in Leaders \cup {None}
    /\ srv \in [Leaders -> {"none", "up", "down"}]
    /\ conn \in [Clients -> Leaders \cup {None}]
    /\ child \in [Clients -> Leaders \cup {None}]
    /\ torn \in BOOLEAN
    /\ faults \in 0 .. MaxFaults

Serving(l) == pc[l] \in {"serving", "drain"}

\* The pid that clients read can be relied upon: a leader that serves is named by
\* the lock file it holds, and a lock file that names a live process is held by
\* it, up to the moment between its unlock and its exit.
PidAgreesWithLock ==
    \A l \in Leaders :
        /\ Serving(l) => Holds(l) /\ pid[fd[l]] = l
        /\ \A i \in Inodes : pid[i] = l /\ Alive(l) =>
               locked[i] = l \/ pc[l] \in {"unlink", "unsock"}

\* Two leaders serve at the same time only if a lock file was unlinked while a
\* process had it open.
SingleLeader ==
    ~torn => \A l, m \in Leaders : Serving(l) /\ Serving(m) => l = m

\* The leader that serves is the one clients reach once every other process has
\* come to rest.
ServingLeaderIsReachable ==
    \A l \in Leaders :
        /\ pc[l] = "serving"
        /\ \A m \in Leaders \ {l} : ~Alive(m)
        /\ \A c \in Clients : ~Holds(c) /\ pc[c] \notin {"unlink", "unsock"}
        => sock = l

\* The bound is met: the client would spawn one more leader.
Exhausted(c) == pc[c] = "clean" /\ \A l \in Leaders : pc[l] # "off"

\* A leader in service whose path was removed, or taken over, by another process.
LostSocket(l) == pc[l] = "serving" /\ srv[l] = "up" /\ sock # l

\* connect_or_spawn gets there: whatever crashes, kills and slow boots come in
\* between, a client that looks for a leader is connected to one in the end, by
\* waiting, by taking the lock over or by replacing an old one; unless the files of a
\* running leader are removed under it, which nothing repairs.
ClientIsServed ==
    \A c \in Clients :
        (pc[c] = "start") ~>
            (pc[c] = "connected" \/ Exhausted(c) \/ \E l \in Leaders : LostSocket(l))
================================================================================
