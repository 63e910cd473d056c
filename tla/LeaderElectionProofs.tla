-------------------------- MODULE LeaderElectionProofs --------------------------
(***************************************************************************)
(* Proofs about LeaderElection, for any number of clients and leaders, any *)
(* faults and any bound.                                                   *)
(*                                                                         *)
(* SingleLeader is not inductive: that two leaders cannot serve follows    *)
(* from the flock only if both locked the same inode. OnePath carries that *)
(* fact (no process has another lock file open than the one the path       *)
(* names, until one is unlinked under a process that has it open), and     *)
(* Descriptors says where in its program a process has the file open and   *)
(* where it holds the lock.                                                *)
(***************************************************************************)
EXTENDS LeaderElection, TLAPS

\* Where a process has no lock file open, and where it holds the lock.
Closed(p) == pc[p] \in {"start", "open", "wait", "connect", "connected", "off",
                        "boot", "busy", "handopen", "unlink", "unsock", "gone"}
Holding(l) == pc[l] \in {"bootpid", "handpid", "serving", "drain", "unlock"}
Opened(p) == pc[p] \in {"trylock", "bootlock", "handlock"}
Named(l) == pc[l] \in {"rm", "bind", "waitsock"}

Descriptors ==
    /\ \A p \in Procs : Closed(p) => fd[p] = None
    /\ \A p \in Procs : Opened(p) => fd[p] # None /\ ~Holds(p)
    /\ \A l \in Leaders : Holding(l) => Holds(l)
    /\ \A l \in Leaders : Named(l) => fd[l] = None \/ Holds(l)

\* A leader writes its pid after it has locked and before it serves.
Unnamed(l) == pc[l] \in {"off", "boot", "bootlock", "busy", "bootpid", "handopen",
                         "handlock", "handpid"}

Names ==
    \A l \in Leaders :
        /\ Unnamed(l) => \A i \in Inodes : pid[i] # l
        /\ Named(l) /\ Holds(l) => pid[fd[l]] = l

OnePath == ~torn => \A p \in Procs : fd[p] \in {None, lockPath}

IInv ==
    /\ TypeOK
    /\ Descriptors
    /\ Names
    /\ PidAgreesWithLock
    /\ OnePath

LEMMA InitIInv == Init => IInv
<1> SUFFICES ASSUME Init PROVE IInv
  OBVIOUS
<1> USE ElectionAssumption
<1> DEFINE i0 == CHOOSE i \in Inodes : TRUE
<1> DEFINE l0 == CHOOSE l \in Old : TRUE
<1>a. i0 \in Inodes
  OBVIOUS
<1>b. Old # {} => l0 \in Old /\ l0 \in Leaders
  OBVIOUS
<1>c. /\ pc = [p \in Procs |-> IF p \in Clients THEN "start"
                               ELSE IF p \in Old THEN "serving" ELSE "off"]
      /\ fd = [p \in Procs |-> IF p \in Old THEN i0 ELSE None]
      /\ lockPath = IF Old # {} THEN i0 ELSE None
      /\ locked = [j \in Inodes |-> IF Old # {} /\ j = i0 THEN l0 ELSE None]
      /\ pid = [j \in Inodes |-> IF Old # {} /\ j = i0 THEN l0 ELSE None]
      /\ sock = IF Old # {} THEN l0 ELSE None
      /\ srv = [l \in Leaders |-> IF l \in Old THEN "up" ELSE "none"]
      /\ conn = [c \in Clients |-> None]
      /\ child = [c \in Clients |-> None]
      /\ torn = FALSE
      /\ faults = 0
  BY DEF Init
<1> HIDE DEF i0, l0
<1>1. TypeOK
  <2>1. pc \in [Procs -> ClientSteps \cup LeaderSteps]
    BY <1>c DEF Procs, ClientSteps, LeaderSteps
  <2>2. /\ \A c \in Clients : pc[c] \in ClientSteps
        /\ \A l \in Leaders : pc[l] \in LeaderSteps
    BY <1>c DEF Procs, ClientSteps, LeaderSteps
  <2>3. /\ fd \in [Procs -> Inodes \cup {None}]
        /\ lockPath \in Inodes \cup {None}
        /\ locked \in [Inodes -> Procs \cup {None}]
        /\ pid \in [Inodes -> Leaders \cup {None}]
        /\ sock \in Leaders \cup {None}
    BY <1>a, <1>b, <1>c DEF Procs
  <2>4. \A i \in Inodes : locked[i] # None => fd[locked[i]] = i
    BY <1>a, <1>b, <1>c DEF Procs
  <2>5. /\ srv \in [Leaders -> {"none", "up", "down"}]
        /\ conn \in [Clients -> Leaders \cup {None}]
        /\ child \in [Clients -> Leaders \cup {None}]
        /\ torn \in BOOLEAN
    BY <1>c
  <2>6. faults \in 0 .. MaxFaults
    BY <1>c
  <2> QED
    BY <2>1, <2>2, <2>3, <2>4, <2>5, <2>6 DEF TypeOK
<1>2. Descriptors
  BY <1>a, <1>b, <1>c DEF Descriptors, Closed, Opened, Holding, Named, Holds, Procs
<1>3. Names
  BY <1>a, <1>b, <1>c DEF Names, Unnamed, Named, Procs
<1>4. PidAgreesWithLock
  BY <1>a, <1>b, <1>c DEF PidAgreesWithLock, Serving, Holds, Alive, Procs
<1>5. OnePath
  BY <1>a, <1>b, <1>c DEF OnePath, Procs
<1> QED
  BY <1>1, <1>2, <1>3, <1>4, <1>5 DEF IInv

LEMMA FastPathKeepsIInv == ASSUME IInv, NEW c \in Clients, FastPath(c) PROVE IInv'
<1> USE ElectionAssumption DEF IInv, TypeOK, Procs
<1>1. TypeOK'
  BY DEF FastPath, At, Goto, Adopt, Connectable, ListenerIsReady, files, history,
         ClientSteps, LeaderSteps
<1>2. Descriptors'
  BY DEF FastPath, At, Goto, Adopt, Connectable, ListenerIsReady, files, history,
         Descriptors, Closed, Opened, Holding, Named, Holds, ClientSteps,
         LeaderSteps
<1>3. Names'
  BY DEF FastPath, At, Goto, Adopt, Connectable, ListenerIsReady, files, history,
         Names, Unnamed, Named, Holds, Descriptors, Closed, Opened, Holding,
         PidAgreesWithLock, Serving, Alive, ClientSteps, LeaderSteps
<1>4. PidAgreesWithLock'
  BY DEF FastPath, At, Goto, Adopt, Connectable, ListenerIsReady, files, history,
         PidAgreesWithLock, Serving, Alive, Holds, Descriptors, Closed, Opened,
         Holding, Names, Unnamed, Named, ClientSteps, LeaderSteps
<1>5. OnePath'
  BY DEF FastPath, At, Goto, Adopt, Connectable, ListenerIsReady, files, history,
         OnePath, Descriptors, Closed
<1> QED
  BY <1>1, <1>2, <1>3, <1>4, <1>5

LEMMA ClientOpenKeepsIInv == ASSUME IInv, NEW c \in Clients, ClientOpen(c) PROVE IInv'
<1> USE ElectionAssumption DEF IInv, TypeOK, Procs
<1>1. TypeOK'
  <2>1. CASE lockPath # None
    BY <2>1 DEF ClientOpen, Step, At, Goto, OpenLockFile, Unused, history,
           ClientSteps, LeaderSteps, Descriptors, Closed
  <2>2. CASE lockPath = None
    <3>1. PICK i \in Unused : /\ fd' = [fd EXCEPT ![c] = i]
                             /\ lockPath' = i
                             /\ pid' = [pid EXCEPT ![i] = None]
      BY <2>2 DEF ClientOpen, OpenLockFile
    <3>2. i \in Inodes /\ \A p \in Procs : fd[p] # i
      BY DEF Unused, Procs
    <3> QED
      BY <3>1, <3>2 DEF ClientOpen, Step, At, Goto, history, ClientSteps,
             LeaderSteps, Descriptors, Closed
  <2> QED
    BY <2>1, <2>2 DEF ClientOpen
<1>2. Descriptors'
  <2>1. CASE lockPath # None
    BY <2>1 DEF ClientOpen, Step, At, Goto, OpenLockFile, Unused, history,
           Descriptors, Closed, Opened, Holding, Named, Holds, ClientSteps,
           LeaderSteps
  <2>2. CASE lockPath = None
    BY <2>2 DEF ClientOpen, Step, At, Goto, OpenLockFile, Unused, history,
           Descriptors, Closed, Opened, Holding, Named, Holds, ClientSteps,
           LeaderSteps
  <2> QED
    BY <2>1, <2>2 DEF ClientOpen
<1>3. Names'
  <2>1. CASE lockPath # None
    BY <2>1 DEF ClientOpen, Step, At, Goto, OpenLockFile, Unused, history, Names,
           Unnamed, Named, Holds, Descriptors, Closed, Opened, Holding,
           PidAgreesWithLock, Serving, Alive, ClientSteps, LeaderSteps
  <2>2. CASE lockPath = None
    <3>1. PICK i \in Unused : /\ fd' = [fd EXCEPT ![c] = i]
                             /\ lockPath' = i
                             /\ pid' = [pid EXCEPT ![i] = None]
      BY <2>2 DEF ClientOpen, OpenLockFile
    <3>2. i \in Inodes /\ \A p \in Procs : fd[p] # i
      BY DEF Unused, Procs
    <3> QED
      BY <3>1, <3>2 DEF ClientOpen, Step, At, Goto, history, Names, Unnamed, Named,
             Holds, Descriptors, Closed, Opened, Holding, PidAgreesWithLock,
             Serving, Alive, ClientSteps, LeaderSteps
  <2> QED
    BY <2>1, <2>2 DEF ClientOpen
<1>4. PidAgreesWithLock'
  <2>1. CASE lockPath # None
    BY <2>1 DEF ClientOpen, Step, At, Goto, OpenLockFile, Unused, history,
           PidAgreesWithLock, Serving, Alive, Holds, Descriptors, Closed, Opened,
           Holding, Names, Unnamed, Named, ClientSteps, LeaderSteps
  <2>2. CASE lockPath = None
    <3>1. PICK i \in Unused : /\ fd' = [fd EXCEPT ![c] = i]
                             /\ lockPath' = i
                             /\ pid' = [pid EXCEPT ![i] = None]
      BY <2>2 DEF ClientOpen, OpenLockFile
    <3>2. i \in Inodes /\ \A p \in Procs : fd[p] # i
      BY DEF Unused, Procs
    <3> QED
      BY <3>1, <3>2 DEF ClientOpen, Step, At, Goto, history, PidAgreesWithLock,
             Serving, Alive, Holds, Descriptors, Closed, Opened, Holding, Names,
             Unnamed, Named, ClientSteps, LeaderSteps
  <2> QED
    BY <2>1, <2>2 DEF ClientOpen
<1>5. OnePath'
  <2>1. CASE lockPath # None
    BY <2>1 DEF ClientOpen, Step, At, Goto, OpenLockFile, Unused, history, OnePath,
           Descriptors, Closed
  <2>2. CASE lockPath = None
    BY <2>2 DEF ClientOpen, Step, At, Goto, OpenLockFile, Unused, history, OnePath,
           Descriptors, Closed
  <2> QED
    BY <2>1, <2>2 DEF ClientOpen
<1> QED
  BY <1>1, <1>2, <1>3, <1>4, <1>5

LEMMA TryAcquireKeepsIInv == ASSUME IInv, NEW c \in Clients, TryAcquire(c) PROVE IInv'
<1> USE ElectionAssumption DEF IInv, TypeOK, Procs
<1>1. TypeOK'
  <2>1. CASE Lock(c) /\ Goto(c, "recheck") /\ UNCHANGED fd
    <3>1. (pc \in [Procs -> ClientSteps \cup LeaderSteps])'
      BY <2>1 DEF TryAcquire, At, Goto, Lock, Contended, Close, Unlocked, history,
             ClientSteps, LeaderSteps
    <3>2. ((\A c_1 \in Clients : pc[c_1] \in ClientSteps) /\ (\A l_1 \in Leaders : pc[l_1] \in LeaderSteps))'
      BY <2>1 DEF TryAcquire, At, Goto, Lock, Contended, Close, Unlocked, history,
             ClientSteps, LeaderSteps
    <3>3. (fd \in [Procs -> Inodes \cup {None}] /\ locked \in [Inodes -> Procs \cup {None}])'
      BY <2>1 DEF TryAcquire, At, Goto, Lock, Contended, Close, Unlocked, history,
             ClientSteps, LeaderSteps
    <3>4. (\A i \in Inodes : locked[i] # None => fd[locked[i]] = i)'
      BY <2>1 DEF TryAcquire, At, Goto, Lock, Contended, Close, Unlocked, history,
             ClientSteps, LeaderSteps
    <3>5. (lockPath \in Inodes \cup {None} /\ pid \in [Inodes -> Leaders \cup {None}])'
      BY <2>1 DEF TryAcquire, At, Goto, Lock, Contended, Close, Unlocked, history,
             ClientSteps, LeaderSteps
    <3>6. (sock \in Leaders \cup {None} /\ srv \in [Leaders -> {"none", "up", "down"}])'
      BY <2>1 DEF TryAcquire, At, Goto, Lock, Contended, Close, Unlocked, history,
             ClientSteps, LeaderSteps
    <3>7. (conn \in [Clients -> Leaders \cup {None}] /\ child \in [Clients -> Leaders \cup {None}])'
      BY <2>1 DEF TryAcquire, At, Goto, Lock, Contended, Close, Unlocked, history,
             ClientSteps, LeaderSteps
    <3>8. (torn \in BOOLEAN /\ faults \in 0 .. MaxFaults)'
      BY <2>1 DEF TryAcquire, At, Goto, Lock, Contended, Close, Unlocked, history,
             ClientSteps, LeaderSteps
    <3> QED
      BY <3>1, <3>2, <3>3, <3>4, <3>5, <3>6, <3>7, <3>8 DEF TypeOK
  <2>2. CASE Contended(c) /\ Goto(c, "wait") /\ Close(c)
    BY <2>2 DEF TryAcquire, At, Goto, Lock, Contended, Close, Unlocked, history,
           ClientSteps, LeaderSteps
  <2> QED
    BY <2>1, <2>2 DEF TryAcquire
<1>2. Descriptors'
  <2>1. CASE Lock(c) /\ Goto(c, "recheck") /\ UNCHANGED fd
    <3>1. (\A p \in Procs : Closed(p) => fd[p] = None)'
      BY <2>1 DEF TryAcquire, At, Goto, Lock, Contended, Close, Unlocked, history,
             Descriptors, Closed, Opened, Holding, Named, Holds, ClientSteps,
             LeaderSteps
    <3>2. (\A p \in Procs : Opened(p) => fd[p] # None /\ ~Holds(p))'
      BY <2>1 DEF TryAcquire, At, Goto, Lock, Contended, Close, Unlocked, history,
             Descriptors, Closed, Opened, Holding, Named, Holds, ClientSteps,
             LeaderSteps
    <3>3. (\A l_1 \in Leaders : Holding(l_1) => Holds(l_1))'
      BY <2>1 DEF TryAcquire, At, Goto, Lock, Contended, Close, Unlocked, history,
             Descriptors, Closed, Opened, Holding, Named, Holds, ClientSteps,
             LeaderSteps
    <3>4. (\A l_1 \in Leaders : Named(l_1) => fd[l_1] = None \/ Holds(l_1))'
      BY <2>1 DEF TryAcquire, At, Goto, Lock, Contended, Close, Unlocked, history,
             Descriptors, Closed, Opened, Holding, Named, Holds, ClientSteps,
             LeaderSteps
    <3> QED
      BY <3>1, <3>2, <3>3, <3>4 DEF Descriptors
  <2>2. CASE Contended(c) /\ Goto(c, "wait") /\ Close(c)
    BY <2>2 DEF TryAcquire, At, Goto, Lock, Contended, Close, Unlocked, history,
           Descriptors, Closed, Opened, Holding, Named, Holds, ClientSteps,
           LeaderSteps
  <2> QED
    BY <2>1, <2>2 DEF TryAcquire
<1>3. Names'
  <2>1. CASE Lock(c) /\ Goto(c, "recheck") /\ UNCHANGED fd
    BY <2>1 DEF TryAcquire, At, Goto, Lock, Contended, Close, Unlocked, history,
           Names, Unnamed, Named, Holds, Descriptors, Closed, Opened, Holding,
           PidAgreesWithLock, Serving, Alive, ClientSteps, LeaderSteps
  <2>2. CASE Contended(c) /\ Goto(c, "wait") /\ Close(c)
    BY <2>2 DEF TryAcquire, At, Goto, Lock, Contended, Close, Unlocked, history,
           Names, Unnamed, Named, Holds, Descriptors, Closed, Opened, Holding,
           PidAgreesWithLock, Serving, Alive, ClientSteps, LeaderSteps
  <2> QED
    BY <2>1, <2>2 DEF TryAcquire
<1>4. PidAgreesWithLock'
  <2>1. CASE Lock(c) /\ Goto(c, "recheck") /\ UNCHANGED fd
    BY <2>1 DEF TryAcquire, At, Goto, Lock, Contended, Close, Unlocked, history,
           PidAgreesWithLock, Serving, Alive, Holds, Descriptors, Closed, Opened,
           Holding, Names, Unnamed, Named, ClientSteps, LeaderSteps
  <2>2. CASE Contended(c) /\ Goto(c, "wait") /\ Close(c)
    BY <2>2 DEF TryAcquire, At, Goto, Lock, Contended, Close, Unlocked, history,
           PidAgreesWithLock, Serving, Alive, Holds, Descriptors, Closed, Opened,
           Holding, Names, Unnamed, Named, ClientSteps, LeaderSteps
  <2> QED
    BY <2>1, <2>2 DEF TryAcquire
<1>5. OnePath'
  <2>1. CASE Lock(c) /\ Goto(c, "recheck") /\ UNCHANGED fd
    BY <2>1 DEF TryAcquire, At, Goto, Lock, Contended, Close, Unlocked, history,
           OnePath, Descriptors, Closed
  <2>2. CASE Contended(c) /\ Goto(c, "wait") /\ Close(c)
    BY <2>2 DEF TryAcquire, At, Goto, Lock, Contended, Close, Unlocked, history,
           OnePath, Descriptors, Closed
  <2> QED
    BY <2>1, <2>2 DEF TryAcquire
<1> QED
  BY <1>1, <1>2, <1>3, <1>4, <1>5

LEMMA RecheckKeepsIInv == ASSUME IInv, NEW c \in Clients, Recheck(c) PROVE IInv'
<1> USE ElectionAssumption DEF IInv, TypeOK, Procs
<1>1. TypeOK'
  <2>1. CASE Connectable /\ Alive(ReadPid) /\ sock \notin Old
    <3>1. (pc \in [Procs -> ClientSteps \cup LeaderSteps])'
      BY <2>1 DEF Recheck, At, Goto, Adopt, Close, Unlocked, Vacated, Connectable,
             ListenerIsReady, history, ClientSteps, LeaderSteps
    <3>2. ((\A c_1 \in Clients : pc[c_1] \in ClientSteps) /\ (\A l_1 \in Leaders : pc[l_1] \in LeaderSteps))'
      BY <2>1 DEF Recheck, At, Goto, Adopt, Close, Unlocked, Vacated, Connectable,
             ListenerIsReady, history, ClientSteps, LeaderSteps
    <3>3. (fd \in [Procs -> Inodes \cup {None}] /\ locked \in [Inodes -> Procs \cup {None}])'
      BY <2>1 DEF Recheck, At, Goto, Adopt, Close, Unlocked, Vacated, Connectable,
             ListenerIsReady, history, ClientSteps, LeaderSteps
    <3>4. (\A i \in Inodes : locked[i] # None => fd[locked[i]] = i)'
      BY <2>1 DEF Recheck, At, Goto, Adopt, Close, Unlocked, Vacated, Connectable,
             ListenerIsReady, history, ClientSteps, LeaderSteps
    <3>5. (lockPath \in Inodes \cup {None} /\ pid \in [Inodes -> Leaders \cup {None}])'
      BY <2>1 DEF Recheck, At, Goto, Adopt, Close, Unlocked, Vacated, Connectable,
             ListenerIsReady, history, ClientSteps, LeaderSteps
    <3>6. (sock \in Leaders \cup {None} /\ srv \in [Leaders -> {"none", "up", "down"}])'
      BY <2>1 DEF Recheck, At, Goto, Adopt, Close, Unlocked, Vacated, Connectable,
             ListenerIsReady, history, ClientSteps, LeaderSteps
    <3>7. (conn \in [Clients -> Leaders \cup {None}] /\ child \in [Clients -> Leaders \cup {None}])'
      BY <2>1 DEF Recheck, At, Goto, Adopt, Close, Unlocked, Vacated, Connectable,
             ListenerIsReady, history, ClientSteps, LeaderSteps
    <3>8. (torn \in BOOLEAN /\ faults \in 0 .. MaxFaults)'
      BY <2>1 DEF Recheck, At, Goto, Adopt, Close, Unlocked, Vacated, Connectable,
             ListenerIsReady, history, ClientSteps, LeaderSteps
    <3> QED
      BY <3>1, <3>2, <3>3, <3>4, <3>5, <3>6, <3>7, <3>8 DEF TypeOK
  <2>2. CASE ~(Connectable /\ Alive(ReadPid) /\ sock \notin Old)
    BY <2>2 DEF Recheck, At, Goto, Adopt, Close, Unlocked, Vacated, Connectable,
           ListenerIsReady, history, ClientSteps, LeaderSteps
  <2> QED
    BY <2>1, <2>2 DEF Recheck
<1>2. Descriptors'
  <2>1. CASE Connectable /\ Alive(ReadPid) /\ sock \notin Old
    <3>1. /\ fd' = [fd EXCEPT ![c] = None]
          /\ locked' = [i \in Inodes |-> IF locked[i] = c THEN None ELSE locked[i]]
      BY <2>1 DEF Recheck, At, Goto, Adopt, Close, Unlocked, Vacated, Connectable, ListenerIsReady, history
    <3>2. \A i \in Inodes : locked'[i] # c /\ (locked[i] # c => locked'[i] = locked[i])
      BY <3>1
    <3>3. \A p \in Procs \ {c} : fd'[p] = fd[p] /\ Holds(p)' = Holds(p)
      BY <3>1, <3>2 DEF Holds
    <3> QED
      BY <2>1, <3>1, <3>2, <3>3 DEF Recheck, At, Goto, Adopt, Close, Unlocked,
             Vacated, Connectable, ListenerIsReady, history, Descriptors, Closed,
             Opened, Holding, Named, Holds, ClientSteps, LeaderSteps
  <2>2. CASE ~(Connectable /\ Alive(ReadPid) /\ sock \notin Old)
    BY <2>2 DEF Recheck, At, Goto, Adopt, Close, Unlocked, Vacated, Connectable,
           ListenerIsReady, history, Descriptors, Closed, Opened, Holding, Named,
           Holds, ClientSteps, LeaderSteps
  <2> QED
    BY <2>1, <2>2 DEF Recheck
<1>3. Names'
  <2>1. CASE Connectable /\ Alive(ReadPid) /\ sock \notin Old
    <3>1. /\ fd' = [fd EXCEPT ![c] = None]
          /\ locked' = [i \in Inodes |-> IF locked[i] = c THEN None ELSE locked[i]]
      BY <2>1 DEF Recheck, At, Goto, Adopt, Close, Unlocked, Vacated, Connectable, ListenerIsReady, history
    <3>2. \A i \in Inodes : locked'[i] # c /\ (locked[i] # c => locked'[i] = locked[i])
      BY <3>1
    <3>3. \A p \in Procs \ {c} : fd'[p] = fd[p] /\ Holds(p)' = Holds(p)
      BY <3>1, <3>2 DEF Holds
    <3> QED
      BY <2>1, <3>1, <3>2, <3>3 DEF Recheck, At, Goto, Adopt, Close, Unlocked,
             Vacated, Connectable, ListenerIsReady, history, Names, Unnamed, Named,
             Holds, Descriptors, Closed, Opened, Holding, PidAgreesWithLock,
             Serving, Alive, ClientSteps, LeaderSteps
  <2>2. CASE ~(Connectable /\ Alive(ReadPid) /\ sock \notin Old)
    BY <2>2 DEF Recheck, At, Goto, Adopt, Close, Unlocked, Vacated, Connectable,
           ListenerIsReady, history, Names, Unnamed, Named, Holds, Descriptors,
           Closed, Opened, Holding, PidAgreesWithLock, Serving, Alive, ClientSteps,
           LeaderSteps
  <2> QED
    BY <2>1, <2>2 DEF Recheck
<1>4. PidAgreesWithLock'
  <2>1. CASE Connectable /\ Alive(ReadPid) /\ sock \notin Old
    <3>1. /\ fd' = [fd EXCEPT ![c] = None]
          /\ locked' = [i \in Inodes |-> IF locked[i] = c THEN None ELSE locked[i]]
      BY <2>1 DEF Recheck, At, Goto, Adopt, Close, Unlocked, Vacated, Connectable, ListenerIsReady, history
    <3>2. \A i \in Inodes : locked'[i] # c /\ (locked[i] # c => locked'[i] = locked[i])
      BY <3>1
    <3>3. \A p \in Procs \ {c} : fd'[p] = fd[p] /\ Holds(p)' = Holds(p)
      BY <3>1, <3>2 DEF Holds
    <3> QED
      BY <2>1, <3>1, <3>2, <3>3 DEF Recheck, At, Goto, Adopt, Close, Unlocked,
             Vacated, Connectable, ListenerIsReady, history, PidAgreesWithLock,
             Serving, Alive, Holds, Descriptors, Closed, Opened, Holding, Names,
             Unnamed, Named, ClientSteps, LeaderSteps
  <2>2. CASE ~(Connectable /\ Alive(ReadPid) /\ sock \notin Old)
    BY <2>2 DEF Recheck, At, Goto, Adopt, Close, Unlocked, Vacated, Connectable,
           ListenerIsReady, history, PidAgreesWithLock, Serving, Alive, Holds,
           Descriptors, Closed, Opened, Holding, Names, Unnamed, Named, ClientSteps,
           LeaderSteps
  <2> QED
    BY <2>1, <2>2 DEF Recheck
<1>5. OnePath'
  <2>1. CASE Connectable /\ Alive(ReadPid) /\ sock \notin Old
    BY <2>1 DEF Recheck, At, Goto, Adopt, Close, Unlocked, Vacated, Connectable,
           ListenerIsReady, history, OnePath, Descriptors, Closed
  <2>2. CASE ~(Connectable /\ Alive(ReadPid) /\ sock \notin Old)
    BY <2>2 DEF Recheck, At, Goto, Adopt, Close, Unlocked, Vacated, Connectable,
           ListenerIsReady, history, OnePath, Descriptors, Closed
  <2> QED
    BY <2>1, <2>2 DEF Recheck
<1> QED
  BY <1>1, <1>2, <1>3, <1>4, <1>5

LEMMA CleanupAndSpawnKeepsIInv == ASSUME IInv, NEW c \in Clients, CleanupAndSpawn(c) PROVE IInv'
<1> USE ElectionAssumption DEF IInv, TypeOK, Procs
<1>1. TypeOK'
  BY DEF CleanupAndSpawn, At, history, ClientSteps, LeaderSteps
<1>2. Descriptors'
  BY DEF CleanupAndSpawn, At, history, Descriptors, Closed, Opened, Holding, Named,
         Holds, ClientSteps, LeaderSteps
<1>3. Names'
  BY DEF CleanupAndSpawn, At, history, Names, Unnamed, Named, Holds, Descriptors,
         Closed, Opened, Holding, PidAgreesWithLock, Serving, Alive, ClientSteps,
         LeaderSteps
<1>4. PidAgreesWithLock'
  BY DEF CleanupAndSpawn, At, history, PidAgreesWithLock, Serving, Alive, Holds,
         Descriptors, Closed, Opened, Holding, Names, Unnamed, Named, ClientSteps,
         LeaderSteps
<1>5. OnePath'
  BY DEF CleanupAndSpawn, At, history, OnePath, Descriptors, Closed
<1> QED
  BY <1>1, <1>2, <1>3, <1>4, <1>5

LEMMA ListenerReadyKeepsIInv == ASSUME IInv, NEW c \in Clients, ListenerReady(c) PROVE IInv'
<1> USE ElectionAssumption DEF IInv, TypeOK, Procs
<1>1. TypeOK'
  BY DEF ListenerReady, Step, At, Goto, files, history, ClientSteps, LeaderSteps
<1>2. Descriptors'
  BY DEF ListenerReady, Step, At, Goto, files, history, Descriptors, Closed, Opened,
         Holding, Named, Holds, ClientSteps, LeaderSteps
<1>3. Names'
  BY DEF ListenerReady, Step, At, Goto, files, history, Names, Unnamed, Named,
         Holds, Descriptors, Closed, Opened, Holding, PidAgreesWithLock, Serving,
         Alive, ClientSteps, LeaderSteps
<1>4. PidAgreesWithLock'
  BY DEF ListenerReady, Step, At, Goto, files, history, PidAgreesWithLock, Serving,
         Alive, Holds, Descriptors, Closed, Opened, Holding, Names, Unnamed, Named,
         ClientSteps, LeaderSteps
<1>5. OnePath'
  BY DEF ListenerReady, Step, At, Goto, files, history, OnePath, Descriptors, Closed
<1> QED
  BY <1>1, <1>2, <1>3, <1>4, <1>5

LEMMA SpawnTimeoutKeepsIInv == ASSUME IInv, NEW c \in Clients, SpawnTimeout(c) PROVE IInv'
<1> USE ElectionAssumption DEF IInv, TypeOK, Procs
<1>1. TypeOK'
  BY DEF SpawnTimeout, Booting, Step, At, Goto, Fault, files, ClientSteps,
         LeaderSteps
<1>2. Descriptors'
  BY DEF SpawnTimeout, Booting, Step, At, Goto, Fault, files, Descriptors, Closed,
         Opened, Holding, Named, Holds, ClientSteps, LeaderSteps
<1>3. Names'
  BY DEF SpawnTimeout, Booting, Step, At, Goto, Fault, files, Names, Unnamed, Named,
         Holds, Descriptors, Closed, Opened, Holding, PidAgreesWithLock, Serving,
         Alive, ClientSteps, LeaderSteps
<1>4. PidAgreesWithLock'
  BY DEF SpawnTimeout, Booting, Step, At, Goto, Fault, files, PidAgreesWithLock,
         Serving, Alive, Holds, Descriptors, Closed, Opened, Holding, Names,
         Unnamed, Named, ClientSteps, LeaderSteps
<1>5. OnePath'
  BY DEF SpawnTimeout, Booting, Step, At, Goto, Fault, files, OnePath, Descriptors,
         Closed
<1> QED
  BY <1>1, <1>2, <1>3, <1>4, <1>5

LEMMA ReleaseKeepsIInv == ASSUME IInv, NEW c \in Clients, Release(c) PROVE IInv'
<1> USE ElectionAssumption DEF IInv, TypeOK, Procs
<1>1. TypeOK'
  BY DEF Release, Step, At, Goto, Close, Unlocked, history, ClientSteps, LeaderSteps
<1>2. Descriptors'
  BY DEF Release, Step, At, Goto, Close, Unlocked, history, Descriptors, Closed,
         Opened, Holding, Named, Holds, ClientSteps, LeaderSteps
<1>3. Names'
  BY DEF Release, Step, At, Goto, Close, Unlocked, history, Names, Unnamed, Named,
         Holds, Descriptors, Closed, Opened, Holding, PidAgreesWithLock, Serving,
         Alive, ClientSteps, LeaderSteps
<1>4. PidAgreesWithLock'
  BY DEF Release, Step, At, Goto, Close, Unlocked, history, PidAgreesWithLock,
         Serving, Alive, Holds, Descriptors, Closed, Opened, Holding, Names,
         Unnamed, Named, ClientSteps, LeaderSteps
<1>5. OnePath'
  BY DEF Release, Step, At, Goto, Close, Unlocked, history, OnePath, Descriptors,
         Closed
<1> QED
  BY <1>1, <1>2, <1>3, <1>4, <1>5

LEMMA ConnectKeepsIInv == ASSUME IInv, NEW c \in Clients, Connect(c) PROVE IInv'
<1> USE ElectionAssumption DEF IInv, TypeOK, Procs
<1>1. TypeOK'
  BY DEF Connect, At, Goto, Adopt, Connectable, ListenerIsReady, files, history,
         ClientSteps, LeaderSteps
<1>2. Descriptors'
  BY DEF Connect, At, Goto, Adopt, Connectable, ListenerIsReady, files, history,
         Descriptors, Closed, Opened, Holding, Named, Holds, ClientSteps,
         LeaderSteps
<1>3. Names'
  BY DEF Connect, At, Goto, Adopt, Connectable, ListenerIsReady, files, history,
         Names, Unnamed, Named, Holds, Descriptors, Closed, Opened, Holding,
         PidAgreesWithLock, Serving, Alive, ClientSteps, LeaderSteps
<1>4. PidAgreesWithLock'
  BY DEF Connect, At, Goto, Adopt, Connectable, ListenerIsReady, files, history,
         PidAgreesWithLock, Serving, Alive, Holds, Descriptors, Closed, Opened,
         Holding, Names, Unnamed, Named, ClientSteps, LeaderSteps
<1>5. OnePath'
  BY DEF Connect, At, Goto, Adopt, Connectable, ListenerIsReady, files, history,
         OnePath, Descriptors, Closed
<1> QED
  BY <1>1, <1>2, <1>3, <1>4, <1>5

LEMMA WaitForSocketKeepsIInv == ASSUME IInv, NEW c \in Clients, WaitForSocket(c) PROVE IInv'
<1> USE ElectionAssumption DEF IInv, TypeOK, Procs
<1>1. TypeOK'
  BY DEF WaitForSocket, At, Goto, Adopt, Vacated, Connectable, ListenerIsReady,
         files, history, ClientSteps, LeaderSteps
<1>2. Descriptors'
  BY DEF WaitForSocket, At, Goto, Adopt, Vacated, Connectable, ListenerIsReady,
         files, history, Descriptors, Closed, Opened, Holding, Named, Holds,
         ClientSteps, LeaderSteps
<1>3. Names'
  BY DEF WaitForSocket, At, Goto, Adopt, Vacated, Connectable, ListenerIsReady,
         files, history, Names, Unnamed, Named, Holds, Descriptors, Closed, Opened,
         Holding, PidAgreesWithLock, Serving, Alive, ClientSteps, LeaderSteps
<1>4. PidAgreesWithLock'
  BY DEF WaitForSocket, At, Goto, Adopt, Vacated, Connectable, ListenerIsReady,
         files, history, PidAgreesWithLock, Serving, Alive, Holds, Descriptors,
         Closed, Opened, Holding, Names, Unnamed, Named, ClientSteps, LeaderSteps
<1>5. OnePath'
  BY DEF WaitForSocket, At, Goto, Adopt, Vacated, Connectable, ListenerIsReady,
         files, history, OnePath, Descriptors, Closed
<1> QED
  BY <1>1, <1>2, <1>3, <1>4, <1>5

LEMMA ClientDropKeepsIInv == ASSUME IInv, NEW c \in Clients, ClientDrop(c) PROVE IInv'
<1> USE ElectionAssumption DEF IInv, TypeOK, Procs
<1>1. TypeOK'
  <2>1. CASE Step(c, "unlock", "unlink")
    BY <2>1 DEF ClientDrop, DropLock, Step, At, Goto, Close, Unlocked, ClientSteps,
           LeaderSteps
  <2>2. CASE Step(c, "unlink", "unsock")
    BY <2>2 DEF ClientDrop, DropLock, Step, At, Goto, Close, Unlocked, ClientSteps,
           LeaderSteps
  <2>3. CASE Step(c, "unsock", "start")
    BY <2>3 DEF ClientDrop, DropLock, Step, At, Goto, Close, Unlocked, ClientSteps,
           LeaderSteps
  <2> QED
    BY <2>1, <2>2, <2>3 DEF ClientDrop, DropLock
<1>2. Descriptors'
  <2>1. CASE Step(c, "unlock", "unlink")
    <3>1. /\ fd' = [fd EXCEPT ![c] = None]
          /\ locked' = [i \in Inodes |-> IF locked[i] = c THEN None ELSE locked[i]]
      BY <2>1 DEF ClientDrop, DropLock, Step, At, Goto, Close, Unlocked
    <3>2. \A i \in Inodes : locked'[i] # c /\ (locked[i] # c => locked'[i] = locked[i])
      BY <3>1
    <3>3. \A p \in Procs \ {c} : fd'[p] = fd[p] /\ Holds(p)' = Holds(p)
      BY <3>1, <3>2 DEF Holds
    <3> QED
      BY <2>1, <3>1, <3>2, <3>3 DEF ClientDrop, DropLock, Step, At, Goto, Close,
             Unlocked, Descriptors, Closed, Opened, Holding, Named, Holds,
             ClientSteps, LeaderSteps
  <2>2. CASE Step(c, "unlink", "unsock")
    BY <2>2 DEF ClientDrop, DropLock, Step, At, Goto, Close, Unlocked, Descriptors,
           Closed, Opened, Holding, Named, Holds, ClientSteps, LeaderSteps
  <2>3. CASE Step(c, "unsock", "start")
    BY <2>3 DEF ClientDrop, DropLock, Step, At, Goto, Close, Unlocked, Descriptors,
           Closed, Opened, Holding, Named, Holds, ClientSteps, LeaderSteps
  <2> QED
    BY <2>1, <2>2, <2>3 DEF ClientDrop, DropLock
<1>3. Names'
  <2>1. CASE Step(c, "unlock", "unlink")
    BY <2>1 DEF ClientDrop, DropLock, Step, At, Goto, Close, Unlocked, Names,
           Unnamed, Named, Holds, Descriptors, Closed, Opened, Holding,
           PidAgreesWithLock, Serving, Alive, ClientSteps, LeaderSteps
  <2>2. CASE Step(c, "unlink", "unsock")
    BY <2>2 DEF ClientDrop, DropLock, Step, At, Goto, Close, Unlocked, Names,
           Unnamed, Named, Holds, Descriptors, Closed, Opened, Holding,
           PidAgreesWithLock, Serving, Alive, ClientSteps, LeaderSteps
  <2>3. CASE Step(c, "unsock", "start")
    BY <2>3 DEF ClientDrop, DropLock, Step, At, Goto, Close, Unlocked, Names,
           Unnamed, Named, Holds, Descriptors, Closed, Opened, Holding,
           PidAgreesWithLock, Serving, Alive, ClientSteps, LeaderSteps
  <2> QED
    BY <2>1, <2>2, <2>3 DEF ClientDrop, DropLock
<1>4. PidAgreesWithLock'
  <2>1. CASE Step(c, "unlock", "unlink")
    <3>1. /\ fd' = [fd EXCEPT ![c] = None]
          /\ locked' = [i \in Inodes |-> IF locked[i] = c THEN None ELSE locked[i]]
      BY <2>1 DEF ClientDrop, DropLock, Step, At, Goto, Close, Unlocked
    <3>2. \A i \in Inodes : locked'[i] # c /\ (locked[i] # c => locked'[i] = locked[i])
      BY <3>1
    <3>3. \A p \in Procs \ {c} : fd'[p] = fd[p] /\ Holds(p)' = Holds(p)
      BY <3>1, <3>2 DEF Holds
    <3> QED
      BY <2>1, <3>1, <3>2, <3>3 DEF ClientDrop, DropLock, Step, At, Goto, Close,
             Unlocked, PidAgreesWithLock, Serving, Alive, Holds, Descriptors,
             Closed, Opened, Holding, Names, Unnamed, Named, ClientSteps,
             LeaderSteps
  <2>2. CASE Step(c, "unlink", "unsock")
    BY <2>2 DEF ClientDrop, DropLock, Step, At, Goto, Close, Unlocked,
           PidAgreesWithLock, Serving, Alive, Holds, Descriptors, Closed, Opened,
           Holding, Names, Unnamed, Named, ClientSteps, LeaderSteps
  <2>3. CASE Step(c, "unsock", "start")
    BY <2>3 DEF ClientDrop, DropLock, Step, At, Goto, Close, Unlocked,
           PidAgreesWithLock, Serving, Alive, Holds, Descriptors, Closed, Opened,
           Holding, Names, Unnamed, Named, ClientSteps, LeaderSteps
  <2> QED
    BY <2>1, <2>2, <2>3 DEF ClientDrop, DropLock
<1>5. OnePath'
  <2>1. CASE Step(c, "unlock", "unlink")
    BY <2>1 DEF ClientDrop, DropLock, Step, At, Goto, Close, Unlocked, OnePath,
           Descriptors, Closed
  <2>2. CASE Step(c, "unlink", "unsock")
    BY <2>2 DEF ClientDrop, DropLock, Step, At, Goto, Close, Unlocked, OnePath,
           Descriptors, Closed
  <2>3. CASE Step(c, "unsock", "start")
    BY <2>3 DEF ClientDrop, DropLock, Step, At, Goto, Close, Unlocked, OnePath,
           Descriptors, Closed
  <2> QED
    BY <2>1, <2>2, <2>3 DEF ClientDrop, DropLock
<1> QED
  BY <1>1, <1>2, <1>3, <1>4, <1>5

LEMMA DisconnectedKeepsIInv == ASSUME IInv, NEW c \in Clients, Disconnected(c) PROVE IInv'
<1> USE ElectionAssumption DEF IInv, TypeOK, Procs
<1>1. TypeOK'
  BY DEF Disconnected, Step, At, Goto, files, history, ClientSteps, LeaderSteps
<1>2. Descriptors'
  BY DEF Disconnected, Step, At, Goto, files, history, Descriptors, Closed, Opened,
         Holding, Named, Holds, ClientSteps, LeaderSteps
<1>3. Names'
  BY DEF Disconnected, Step, At, Goto, files, history, Names, Unnamed, Named, Holds,
         Descriptors, Closed, Opened, Holding, PidAgreesWithLock, Serving, Alive,
         ClientSteps, LeaderSteps
<1>4. PidAgreesWithLock'
  BY DEF Disconnected, Step, At, Goto, files, history, PidAgreesWithLock, Serving,
         Alive, Holds, Descriptors, Closed, Opened, Holding, Names, Unnamed, Named,
         ClientSteps, LeaderSteps
<1>5. OnePath'
  BY DEF Disconnected, Step, At, Goto, files, history, OnePath, Descriptors, Closed
<1> QED
  BY <1>1, <1>2, <1>3, <1>4, <1>5

LEMMA ClientExitKeepsIInv == ASSUME IInv, NEW c \in Clients, ClientExit(c) PROVE IInv'
<1> USE ElectionAssumption DEF IInv, TypeOK, Procs
<1>1. TypeOK'
  BY DEF ClientExit, Goto, Close, Unlocked, Fault, ClientSteps, LeaderSteps, Holds
<1>2. Descriptors'
  BY DEF ClientExit, Goto, Close, Unlocked, Fault, Descriptors, Closed, Opened,
         Holding, Named, Holds, ClientSteps, LeaderSteps
<1>3. Names'
  BY DEF ClientExit, Goto, Close, Unlocked, Fault, Names, Unnamed, Named, Holds,
         Descriptors, Closed, Opened, Holding, PidAgreesWithLock, Serving, Alive,
         ClientSteps, LeaderSteps
<1>4. PidAgreesWithLock'
  BY DEF ClientExit, Goto, Close, Unlocked, Fault, PidAgreesWithLock, Serving,
         Alive, Holds, Descriptors, Closed, Opened, Holding, Names, Unnamed, Named,
         ClientSteps, LeaderSteps
<1>5. OnePath'
  BY DEF ClientExit, Goto, Close, Unlocked, Fault, OnePath, Descriptors, Closed,
         Holds
<1> QED
  BY <1>1, <1>2, <1>3, <1>4, <1>5

LEMMA BootKeepsIInv == ASSUME IInv, NEW l \in Leaders, Boot(l) PROVE IInv'
<1> USE ElectionAssumption DEF IInv, TypeOK, Procs
<1>1. TypeOK'
  <2>1. CASE lockPath # None
    BY <2>1 DEF Boot, Step, At, Goto, OpenLockFile, Unused, history, ClientSteps,
           LeaderSteps, Descriptors, Closed
  <2>2. CASE lockPath = None
    <3>1. PICK i \in Unused : /\ fd' = [fd EXCEPT ![l] = i]
                             /\ lockPath' = i
                             /\ pid' = [pid EXCEPT ![i] = None]
      BY <2>2 DEF Boot, OpenLockFile
    <3>2. i \in Inodes /\ \A p \in Procs : fd[p] # i
      BY DEF Unused, Procs
    <3> QED
      BY <3>1, <3>2 DEF Boot, Step, At, Goto, history, ClientSteps, LeaderSteps,
             Descriptors, Closed
  <2> QED
    BY <2>1, <2>2 DEF Boot
<1>2. Descriptors'
  <2>1. CASE lockPath # None
    BY <2>1 DEF Boot, Step, At, Goto, OpenLockFile, Unused, history, Descriptors,
           Closed, Opened, Holding, Named, Holds, ClientSteps, LeaderSteps
  <2>2. CASE lockPath = None
    BY <2>2 DEF Boot, Step, At, Goto, OpenLockFile, Unused, history, Descriptors,
           Closed, Opened, Holding, Named, Holds, ClientSteps, LeaderSteps
  <2> QED
    BY <2>1, <2>2 DEF Boot
<1>3. Names'
  <2>1. CASE lockPath # None
    BY <2>1 DEF Boot, Step, At, Goto, OpenLockFile, Unused, history, Names, Unnamed,
           Named, Holds, Descriptors, Closed, Opened, Holding, PidAgreesWithLock,
           Serving, Alive, ClientSteps, LeaderSteps
  <2>2. CASE lockPath = None
    <3>1. PICK i \in Unused : /\ fd' = [fd EXCEPT ![l] = i]
                             /\ lockPath' = i
                             /\ pid' = [pid EXCEPT ![i] = None]
      BY <2>2 DEF Boot, OpenLockFile
    <3>2. i \in Inodes /\ \A p \in Procs : fd[p] # i
      BY DEF Unused, Procs
    <3> QED
      BY <3>1, <3>2 DEF Boot, Step, At, Goto, history, Names, Unnamed, Named, Holds,
             Descriptors, Closed, Opened, Holding, PidAgreesWithLock, Serving,
             Alive, ClientSteps, LeaderSteps
  <2> QED
    BY <2>1, <2>2 DEF Boot
<1>4. PidAgreesWithLock'
  <2>1. CASE lockPath # None
    BY <2>1 DEF Boot, Step, At, Goto, OpenLockFile, Unused, history,
           PidAgreesWithLock, Serving, Alive, Holds, Descriptors, Closed, Opened,
           Holding, Names, Unnamed, Named, ClientSteps, LeaderSteps
  <2>2. CASE lockPath = None
    <3>1. PICK i \in Unused : /\ fd' = [fd EXCEPT ![l] = i]
                             /\ lockPath' = i
                             /\ pid' = [pid EXCEPT ![i] = None]
      BY <2>2 DEF Boot, OpenLockFile
    <3>2. i \in Inodes /\ \A p \in Procs : fd[p] # i
      BY DEF Unused, Procs
    <3> QED
      BY <3>1, <3>2 DEF Boot, Step, At, Goto, history, PidAgreesWithLock, Serving,
             Alive, Holds, Descriptors, Closed, Opened, Holding, Names, Unnamed,
             Named, ClientSteps, LeaderSteps
  <2> QED
    BY <2>1, <2>2 DEF Boot
<1>5. OnePath'
  <2>1. CASE lockPath # None
    BY <2>1 DEF Boot, Step, At, Goto, OpenLockFile, Unused, history, OnePath,
           Descriptors, Closed
  <2>2. CASE lockPath = None
    BY <2>2 DEF Boot, Step, At, Goto, OpenLockFile, Unused, history, OnePath,
           Descriptors, Closed
  <2> QED
    BY <2>1, <2>2 DEF Boot
<1> QED
  BY <1>1, <1>2, <1>3, <1>4, <1>5

LEMMA BootLockKeepsIInv == ASSUME IInv, NEW l \in Leaders, BootLock(l) PROVE IInv'
<1> USE ElectionAssumption DEF IInv, TypeOK, Procs
<1>1. TypeOK'
  <2>1. CASE Lock(l) /\ Goto(l, "bootpid") /\ UNCHANGED fd
    <3>1. (pc \in [Procs -> ClientSteps \cup LeaderSteps])'
      BY <2>1 DEF BootLock, At, Goto, Lock, Contended, Close, Unlocked, history,
             ClientSteps, LeaderSteps
    <3>2. ((\A c_1 \in Clients : pc[c_1] \in ClientSteps) /\ (\A l_1 \in Leaders : pc[l_1] \in LeaderSteps))'
      BY <2>1 DEF BootLock, At, Goto, Lock, Contended, Close, Unlocked, history,
             ClientSteps, LeaderSteps
    <3>3. (fd \in [Procs -> Inodes \cup {None}] /\ locked \in [Inodes -> Procs \cup {None}])'
      BY <2>1 DEF BootLock, At, Goto, Lock, Contended, Close, Unlocked, history,
             ClientSteps, LeaderSteps
    <3>4. (\A i \in Inodes : locked[i] # None => fd[locked[i]] = i)'
      BY <2>1 DEF BootLock, At, Goto, Lock, Contended, Close, Unlocked, history,
             ClientSteps, LeaderSteps
    <3>5. (lockPath \in Inodes \cup {None} /\ pid \in [Inodes -> Leaders \cup {None}])'
      BY <2>1 DEF BootLock, At, Goto, Lock, Contended, Close, Unlocked, history,
             ClientSteps, LeaderSteps
    <3>6. (sock \in Leaders \cup {None} /\ srv \in [Leaders -> {"none", "up", "down"}])'
      BY <2>1 DEF BootLock, At, Goto, Lock, Contended, Close, Unlocked, history,
             ClientSteps, LeaderSteps
    <3>7. (conn \in [Clients -> Leaders \cup {None}] /\ child \in [Clients -> Leaders \cup {None}])'
      BY <2>1 DEF BootLock, At, Goto, Lock, Contended, Close, Unlocked, history,
             ClientSteps, LeaderSteps
    <3>8. (torn \in BOOLEAN /\ faults \in 0 .. MaxFaults)'
      BY <2>1 DEF BootLock, At, Goto, Lock, Contended, Close, Unlocked, history,
             ClientSteps, LeaderSteps
    <3> QED
      BY <3>1, <3>2, <3>3, <3>4, <3>5, <3>6, <3>7, <3>8 DEF TypeOK
  <2>2. CASE Contended(l) /\ Goto(l, "busy") /\ Close(l)
    BY <2>2 DEF BootLock, At, Goto, Lock, Contended, Close, Unlocked, history,
           ClientSteps, LeaderSteps
  <2> QED
    BY <2>1, <2>2 DEF BootLock
<1>2. Descriptors'
  <2>1. CASE Lock(l) /\ Goto(l, "bootpid") /\ UNCHANGED fd
    <3>1. (\A p \in Procs : Closed(p) => fd[p] = None)'
      BY <2>1 DEF BootLock, At, Goto, Lock, Contended, Close, Unlocked, history,
             Descriptors, Closed, Opened, Holding, Named, Holds, ClientSteps,
             LeaderSteps
    <3>2. (\A p \in Procs : Opened(p) => fd[p] # None /\ ~Holds(p))'
      BY <2>1 DEF BootLock, At, Goto, Lock, Contended, Close, Unlocked, history,
             Descriptors, Closed, Opened, Holding, Named, Holds, ClientSteps,
             LeaderSteps
    <3>3. (\A l_1 \in Leaders : Holding(l_1) => Holds(l_1))'
      BY <2>1 DEF BootLock, At, Goto, Lock, Contended, Close, Unlocked, history,
             Descriptors, Closed, Opened, Holding, Named, Holds, ClientSteps,
             LeaderSteps
    <3>4. (\A l_1 \in Leaders : Named(l_1) => fd[l_1] = None \/ Holds(l_1))'
      BY <2>1 DEF BootLock, At, Goto, Lock, Contended, Close, Unlocked, history,
             Descriptors, Closed, Opened, Holding, Named, Holds, ClientSteps,
             LeaderSteps
    <3> QED
      BY <3>1, <3>2, <3>3, <3>4 DEF Descriptors
  <2>2. CASE Contended(l) /\ Goto(l, "busy") /\ Close(l)
    BY <2>2 DEF BootLock, At, Goto, Lock, Contended, Close, Unlocked, history,
           Descriptors, Closed, Opened, Holding, Named, Holds, ClientSteps,
           LeaderSteps
  <2> QED
    BY <2>1, <2>2 DEF BootLock
<1>3. Names'
  <2>1. CASE Lock(l) /\ Goto(l, "bootpid") /\ UNCHANGED fd
    BY <2>1 DEF BootLock, At, Goto, Lock, Contended, Close, Unlocked, history,
           Names, Unnamed, Named, Holds, Descriptors, Closed, Opened, Holding,
           PidAgreesWithLock, Serving, Alive, ClientSteps, LeaderSteps
  <2>2. CASE Contended(l) /\ Goto(l, "busy") /\ Close(l)
    BY <2>2 DEF BootLock, At, Goto, Lock, Contended, Close, Unlocked, history,
           Names, Unnamed, Named, Holds, Descriptors, Closed, Opened, Holding,
           PidAgreesWithLock, Serving, Alive, ClientSteps, LeaderSteps
  <2> QED
    BY <2>1, <2>2 DEF BootLock
<1>4. PidAgreesWithLock'
  <2>1. CASE Lock(l) /\ Goto(l, "bootpid") /\ UNCHANGED fd
    BY <2>1 DEF BootLock, At, Goto, Lock, Contended, Close, Unlocked, history,
           PidAgreesWithLock, Serving, Alive, Holds, Descriptors, Closed, Opened,
           Holding, Names, Unnamed, Named, ClientSteps, LeaderSteps
  <2>2. CASE Contended(l) /\ Goto(l, "busy") /\ Close(l)
    BY <2>2 DEF BootLock, At, Goto, Lock, Contended, Close, Unlocked, history,
           PidAgreesWithLock, Serving, Alive, Holds, Descriptors, Closed, Opened,
           Holding, Names, Unnamed, Named, ClientSteps, LeaderSteps
  <2> QED
    BY <2>1, <2>2 DEF BootLock
<1>5. OnePath'
  <2>1. CASE Lock(l) /\ Goto(l, "bootpid") /\ UNCHANGED fd
    BY <2>1 DEF BootLock, At, Goto, Lock, Contended, Close, Unlocked, history,
           OnePath, Descriptors, Closed
  <2>2. CASE Contended(l) /\ Goto(l, "busy") /\ Close(l)
    BY <2>2 DEF BootLock, At, Goto, Lock, Contended, Close, Unlocked, history,
           OnePath, Descriptors, Closed
  <2> QED
    BY <2>1, <2>2 DEF BootLock
<1> QED
  BY <1>1, <1>2, <1>3, <1>4, <1>5

LEMMA BootPidKeepsIInv == ASSUME IInv, NEW l \in Leaders, BootPid(l) PROVE IInv'
<1> USE ElectionAssumption DEF IInv, TypeOK, Procs
<1>1. TypeOK'
  BY DEF BootPid, Step, At, Goto, WritePid, history, ClientSteps, LeaderSteps
<1>2. Descriptors'
  BY DEF BootPid, Step, At, Goto, WritePid, history, Descriptors, Closed, Opened,
         Holding, Named, Holds, ClientSteps, LeaderSteps
<1>3. Names'
  BY DEF BootPid, Step, At, Goto, WritePid, history, Names, Unnamed, Named, Holds,
         Descriptors, Closed, Opened, Holding, PidAgreesWithLock, Serving, Alive,
         ClientSteps, LeaderSteps
<1>4. PidAgreesWithLock'
  BY DEF BootPid, Step, At, Goto, WritePid, history, PidAgreesWithLock, Serving,
         Alive, Holds, Descriptors, Closed, Opened, Holding, Names, Unnamed, Named,
         ClientSteps, LeaderSteps
<1>5. OnePath'
  BY DEF BootPid, Step, At, Goto, WritePid, history, OnePath, Descriptors, Closed
<1> QED
  BY <1>1, <1>2, <1>3, <1>4, <1>5

LEMMA BailOutKeepsIInv == ASSUME IInv, NEW l \in Leaders, BailOut(l) PROVE IInv'
<1> USE ElectionAssumption DEF IInv, TypeOK, Procs
<1>1. TypeOK'
  BY DEF BailOut, Step, At, Goto, files, history, ClientSteps, LeaderSteps
<1>2. Descriptors'
  BY DEF BailOut, Step, At, Goto, files, history, Descriptors, Closed, Opened,
         Holding, Named, Holds, ClientSteps, LeaderSteps
<1>3. Names'
  BY DEF BailOut, Step, At, Goto, files, history, Names, Unnamed, Named, Holds,
         Descriptors, Closed, Opened, Holding, PidAgreesWithLock, Serving, Alive,
         ClientSteps, LeaderSteps
<1>4. PidAgreesWithLock'
  BY DEF BailOut, Step, At, Goto, files, history, PidAgreesWithLock, Serving, Alive,
         Holds, Descriptors, Closed, Opened, Holding, Names, Unnamed, Named,
         ClientSteps, LeaderSteps
<1>5. OnePath'
  BY DEF BailOut, Step, At, Goto, files, history, OnePath, Descriptors, Closed
<1> QED
  BY <1>1, <1>2, <1>3, <1>4, <1>5

LEMMA RemoveSocketKeepsIInv == ASSUME IInv, NEW l \in Leaders, RemoveSocket(l) PROVE IInv'
<1> USE ElectionAssumption DEF IInv, TypeOK, Procs
<1>1. TypeOK'
  BY DEF RemoveSocket, Step, At, Goto, history, ClientSteps, LeaderSteps
<1>2. Descriptors'
  BY DEF RemoveSocket, Step, At, Goto, history, Descriptors, Closed, Opened,
         Holding, Named, Holds, ClientSteps, LeaderSteps
<1>3. Names'
  BY DEF RemoveSocket, Step, At, Goto, history, Names, Unnamed, Named, Holds,
         Descriptors, Closed, Opened, Holding, PidAgreesWithLock, Serving, Alive,
         ClientSteps, LeaderSteps
<1>4. PidAgreesWithLock'
  BY DEF RemoveSocket, Step, At, Goto, history, PidAgreesWithLock, Serving, Alive,
         Holds, Descriptors, Closed, Opened, Holding, Names, Unnamed, Named,
         ClientSteps, LeaderSteps
<1>5. OnePath'
  BY DEF RemoveSocket, Step, At, Goto, history, OnePath, Descriptors, Closed
<1> QED
  BY <1>1, <1>2, <1>3, <1>4, <1>5

LEMMA BindKeepsIInv == ASSUME IInv, NEW l \in Leaders, Bind(l) PROVE IInv'
<1> USE ElectionAssumption DEF IInv, TypeOK, Procs
<1>1. TypeOK'
  BY DEF Bind, Step, At, Goto, ListenerIsReady, history, ClientSteps, LeaderSteps
<1>2. Descriptors'
  BY DEF Bind, Step, At, Goto, ListenerIsReady, history, Descriptors, Closed,
         Opened, Holding, Named, Holds, ClientSteps, LeaderSteps
<1>3. Names'
  BY DEF Bind, Step, At, Goto, ListenerIsReady, history, Names, Unnamed, Named,
         Holds, Descriptors, Closed, Opened, Holding, PidAgreesWithLock, Serving,
         Alive, ClientSteps, LeaderSteps
<1>4. PidAgreesWithLock'
  BY DEF Bind, Step, At, Goto, ListenerIsReady, history, PidAgreesWithLock, Serving,
         Alive, Holds, Descriptors, Closed, Opened, Holding, Names, Unnamed, Named,
         ClientSteps, LeaderSteps
<1>5. OnePath'
  BY DEF Bind, Step, At, Goto, ListenerIsReady, history, OnePath, Descriptors,
         Closed
<1> QED
  BY <1>1, <1>2, <1>3, <1>4, <1>5

LEMMA SocketReadyKeepsIInv == ASSUME IInv, NEW l \in Leaders, SocketReady(l) PROVE IInv'
<1> USE ElectionAssumption DEF IInv, TypeOK, Procs
<1>1. TypeOK'
  <2>1. CASE Holds(l)
    BY <2>1 DEF SocketReady, Step, At, Goto, files, history, ClientSteps,
           LeaderSteps, Holds
  <2>2. CASE ~Holds(l)
    BY <2>2 DEF SocketReady, Step, At, Goto, files, history, ClientSteps,
           LeaderSteps, Holds
  <2> QED
    BY <2>1, <2>2 DEF SocketReady
<1>2. Descriptors'
  <2>1. CASE Holds(l)
    BY <2>1 DEF SocketReady, Step, At, Goto, files, history, Descriptors, Closed,
           Opened, Holding, Named, Holds, ClientSteps, LeaderSteps
  <2>2. CASE ~Holds(l)
    BY <2>2 DEF SocketReady, Step, At, Goto, files, history, Descriptors, Closed,
           Opened, Holding, Named, Holds, ClientSteps, LeaderSteps
  <2> QED
    BY <2>1, <2>2 DEF SocketReady
<1>3. Names'
  <2>1. CASE Holds(l)
    BY <2>1 DEF SocketReady, Step, At, Goto, files, history, Names, Unnamed, Named,
           Holds, Descriptors, Closed, Opened, Holding, PidAgreesWithLock, Serving,
           Alive, ClientSteps, LeaderSteps
  <2>2. CASE ~Holds(l)
    BY <2>2 DEF SocketReady, Step, At, Goto, files, history, Names, Unnamed, Named,
           Holds, Descriptors, Closed, Opened, Holding, PidAgreesWithLock, Serving,
           Alive, ClientSteps, LeaderSteps
  <2> QED
    BY <2>1, <2>2 DEF SocketReady
<1>4. PidAgreesWithLock'
  <2>1. CASE Holds(l)
    BY <2>1 DEF SocketReady, Step, At, Goto, files, history, PidAgreesWithLock,
           Serving, Alive, Holds, Descriptors, Closed, Opened, Holding, Names,
           Unnamed, Named, ClientSteps, LeaderSteps
  <2>2. CASE ~Holds(l)
    BY <2>2 DEF SocketReady, Step, At, Goto, files, history, PidAgreesWithLock,
           Serving, Alive, Holds, Descriptors, Closed, Opened, Holding, Names,
           Unnamed, Named, ClientSteps, LeaderSteps
  <2> QED
    BY <2>1, <2>2 DEF SocketReady
<1>5. OnePath'
  <2>1. CASE Holds(l)
    BY <2>1 DEF SocketReady, Step, At, Goto, files, history, OnePath, Descriptors,
           Closed, Holds
  <2>2. CASE ~Holds(l)
    BY <2>2 DEF SocketReady, Step, At, Goto, files, history, OnePath, Descriptors,
           Closed, Holds
  <2> QED
    BY <2>1, <2>2 DEF SocketReady
<1> QED
  BY <1>1, <1>2, <1>3, <1>4, <1>5

LEMMA SocketTimeoutKeepsIInv == ASSUME IInv, NEW l \in Leaders, SocketTimeout(l) PROVE IInv'
<1> USE ElectionAssumption DEF IInv, TypeOK, Procs
<1>1. TypeOK'
  BY DEF SocketTimeout, Step, At, Goto, files, history, ClientSteps, LeaderSteps
<1>2. Descriptors'
  BY DEF SocketTimeout, Step, At, Goto, files, history, Descriptors, Closed, Opened,
         Holding, Named, Holds, ClientSteps, LeaderSteps
<1>3. Names'
  BY DEF SocketTimeout, Step, At, Goto, files, history, Names, Unnamed, Named,
         Holds, Descriptors, Closed, Opened, Holding, PidAgreesWithLock, Serving,
         Alive, ClientSteps, LeaderSteps
<1>4. PidAgreesWithLock'
  BY DEF SocketTimeout, Step, At, Goto, files, history, PidAgreesWithLock, Serving,
         Alive, Holds, Descriptors, Closed, Opened, Holding, Names, Unnamed, Named,
         ClientSteps, LeaderSteps
<1>5. OnePath'
  BY DEF SocketTimeout, Step, At, Goto, files, history, OnePath, Descriptors, Closed
<1> QED
  BY <1>1, <1>2, <1>3, <1>4, <1>5

LEMMA HandoffOpenKeepsIInv == ASSUME IInv, NEW l \in Leaders, HandoffOpen(l) PROVE IInv'
<1> USE ElectionAssumption DEF IInv, TypeOK, Procs
<1>1. TypeOK'
  <2>1. CASE lockPath # None
    BY <2>1 DEF HandoffOpen, Step, At, Goto, OpenLockFile, Unused, history,
           ClientSteps, LeaderSteps, Descriptors, Closed
  <2>2. CASE lockPath = None
    <3>1. PICK i \in Unused : /\ fd' = [fd EXCEPT ![l] = i]
                             /\ lockPath' = i
                             /\ pid' = [pid EXCEPT ![i] = None]
      BY <2>2 DEF HandoffOpen, OpenLockFile
    <3>2. i \in Inodes /\ \A p \in Procs : fd[p] # i
      BY DEF Unused, Procs
    <3> QED
      BY <3>1, <3>2 DEF HandoffOpen, Step, At, Goto, history, ClientSteps,
             LeaderSteps, Descriptors, Closed
  <2> QED
    BY <2>1, <2>2 DEF HandoffOpen
<1>2. Descriptors'
  <2>1. CASE lockPath # None
    BY <2>1 DEF HandoffOpen, Step, At, Goto, OpenLockFile, Unused, history,
           Descriptors, Closed, Opened, Holding, Named, Holds, ClientSteps,
           LeaderSteps
  <2>2. CASE lockPath = None
    BY <2>2 DEF HandoffOpen, Step, At, Goto, OpenLockFile, Unused, history,
           Descriptors, Closed, Opened, Holding, Named, Holds, ClientSteps,
           LeaderSteps
  <2> QED
    BY <2>1, <2>2 DEF HandoffOpen
<1>3. Names'
  <2>1. CASE lockPath # None
    BY <2>1 DEF HandoffOpen, Step, At, Goto, OpenLockFile, Unused, history, Names,
           Unnamed, Named, Holds, Descriptors, Closed, Opened, Holding,
           PidAgreesWithLock, Serving, Alive, ClientSteps, LeaderSteps
  <2>2. CASE lockPath = None
    <3>1. PICK i \in Unused : /\ fd' = [fd EXCEPT ![l] = i]
                             /\ lockPath' = i
                             /\ pid' = [pid EXCEPT ![i] = None]
      BY <2>2 DEF HandoffOpen, OpenLockFile
    <3>2. i \in Inodes /\ \A p \in Procs : fd[p] # i
      BY DEF Unused, Procs
    <3> QED
      BY <3>1, <3>2 DEF HandoffOpen, Step, At, Goto, history, Names, Unnamed, Named,
             Holds, Descriptors, Closed, Opened, Holding, PidAgreesWithLock,
             Serving, Alive, ClientSteps, LeaderSteps
  <2> QED
    BY <2>1, <2>2 DEF HandoffOpen
<1>4. PidAgreesWithLock'
  <2>1. CASE lockPath # None
    BY <2>1 DEF HandoffOpen, Step, At, Goto, OpenLockFile, Unused, history,
           PidAgreesWithLock, Serving, Alive, Holds, Descriptors, Closed, Opened,
           Holding, Names, Unnamed, Named, ClientSteps, LeaderSteps
  <2>2. CASE lockPath = None
    <3>1. PICK i \in Unused : /\ fd' = [fd EXCEPT ![l] = i]
                             /\ lockPath' = i
                             /\ pid' = [pid EXCEPT ![i] = None]
      BY <2>2 DEF HandoffOpen, OpenLockFile
    <3>2. i \in Inodes /\ \A p \in Procs : fd[p] # i
      BY DEF Unused, Procs
    <3> QED
      BY <3>1, <3>2 DEF HandoffOpen, Step, At, Goto, history, PidAgreesWithLock,
             Serving, Alive, Holds, Descriptors, Closed, Opened, Holding, Names,
             Unnamed, Named, ClientSteps, LeaderSteps
  <2> QED
    BY <2>1, <2>2 DEF HandoffOpen
<1>5. OnePath'
  <2>1. CASE lockPath # None
    BY <2>1 DEF HandoffOpen, Step, At, Goto, OpenLockFile, Unused, history, OnePath,
           Descriptors, Closed
  <2>2. CASE lockPath = None
    BY <2>2 DEF HandoffOpen, Step, At, Goto, OpenLockFile, Unused, history, OnePath,
           Descriptors, Closed
  <2> QED
    BY <2>1, <2>2 DEF HandoffOpen
<1> QED
  BY <1>1, <1>2, <1>3, <1>4, <1>5

LEMMA HandoffLockKeepsIInv == ASSUME IInv, NEW l \in Leaders, HandoffLock(l) PROVE IInv'
<1> USE ElectionAssumption DEF IInv, TypeOK, Procs
<1>1. TypeOK'
  BY ZenonT(30) DEF HandoffLock, Step, At, Goto, Lock, history, ClientSteps, LeaderSteps
<1>2. Descriptors'
  BY DEF HandoffLock, Step, At, Goto, Lock, history, Descriptors, Closed, Opened,
         Holding, Named, Holds, ClientSteps, LeaderSteps
<1>3. Names'
  BY DEF HandoffLock, Step, At, Goto, Lock, history, Names, Unnamed, Named, Holds,
         Descriptors, Closed, Opened, Holding, PidAgreesWithLock, Serving, Alive,
         ClientSteps, LeaderSteps
<1>4. PidAgreesWithLock'
  BY DEF HandoffLock, Step, At, Goto, Lock, history, PidAgreesWithLock, Serving,
         Alive, Holds, Descriptors, Closed, Opened, Holding, Names, Unnamed, Named,
         ClientSteps, LeaderSteps
<1>5. OnePath'
  BY DEF HandoffLock, Step, At, Goto, Lock, history, OnePath, Descriptors, Closed
<1> QED
  BY <1>1, <1>2, <1>3, <1>4, <1>5

LEMMA HandoffTimeoutKeepsIInv == ASSUME IInv, NEW l \in Leaders, HandoffTimeout(l) PROVE IInv'
<1> USE ElectionAssumption DEF IInv, TypeOK, Procs
<1>1. TypeOK'
  BY DEF HandoffTimeout, Step, At, Goto, Fault, files, ClientSteps, LeaderSteps
<1>2. Descriptors'
  BY DEF HandoffTimeout, Step, At, Goto, Fault, files, Descriptors, Closed, Opened,
         Holding, Named, Holds, ClientSteps, LeaderSteps
<1>3. Names'
  BY DEF HandoffTimeout, Step, At, Goto, Fault, files, Names, Unnamed, Named, Holds,
         Descriptors, Closed, Opened, Holding, PidAgreesWithLock, Serving, Alive,
         ClientSteps, LeaderSteps
<1>4. PidAgreesWithLock'
  BY DEF HandoffTimeout, Step, At, Goto, Fault, files, PidAgreesWithLock, Serving,
         Alive, Holds, Descriptors, Closed, Opened, Holding, Names, Unnamed, Named,
         ClientSteps, LeaderSteps
<1>5. OnePath'
  BY DEF HandoffTimeout, Step, At, Goto, Fault, files, OnePath, Descriptors, Closed
<1> QED
  BY <1>1, <1>2, <1>3, <1>4, <1>5

LEMMA HandoffPidKeepsIInv == ASSUME IInv, NEW l \in Leaders, HandoffPid(l) PROVE IInv'
<1> USE ElectionAssumption DEF IInv, TypeOK, Procs
<1>1. TypeOK'
  BY DEF HandoffPid, Step, At, Goto, WritePid, history, ClientSteps, LeaderSteps
<1>2. Descriptors'
  BY DEF HandoffPid, Step, At, Goto, WritePid, history, Descriptors, Closed, Opened,
         Holding, Named, Holds, ClientSteps, LeaderSteps
<1>3. Names'
  BY DEF HandoffPid, Step, At, Goto, WritePid, history, Names, Unnamed, Named,
         Holds, Descriptors, Closed, Opened, Holding, PidAgreesWithLock, Serving,
         Alive, ClientSteps, LeaderSteps
<1>4. PidAgreesWithLock'
  BY DEF HandoffPid, Step, At, Goto, WritePid, history, PidAgreesWithLock, Serving,
         Alive, Holds, Descriptors, Closed, Opened, Holding, Names, Unnamed, Named,
         ClientSteps, LeaderSteps
<1>5. OnePath'
  BY DEF HandoffPid, Step, At, Goto, WritePid, history, OnePath, Descriptors, Closed
<1> QED
  BY <1>1, <1>2, <1>3, <1>4, <1>5

LEMMA ShutdownKeepsIInv == ASSUME IInv, NEW l \in Leaders, Shutdown(l) PROVE IInv'
<1> USE ElectionAssumption DEF IInv, TypeOK, Procs
<1>1. TypeOK'
  BY DEF Shutdown, Step, At, Goto, files, history, ClientSteps, LeaderSteps
<1>2. Descriptors'
  BY DEF Shutdown, Step, At, Goto, files, history, Descriptors, Closed, Opened,
         Holding, Named, Holds, ClientSteps, LeaderSteps
<1>3. Names'
  BY DEF Shutdown, Step, At, Goto, files, history, Names, Unnamed, Named, Holds,
         Descriptors, Closed, Opened, Holding, PidAgreesWithLock, Serving, Alive,
         ClientSteps, LeaderSteps
<1>4. PidAgreesWithLock'
  BY DEF Shutdown, Step, At, Goto, files, history, PidAgreesWithLock, Serving,
         Alive, Holds, Descriptors, Closed, Opened, Holding, Names, Unnamed, Named,
         ClientSteps, LeaderSteps
<1>5. OnePath'
  BY DEF Shutdown, Step, At, Goto, files, history, OnePath, Descriptors, Closed
<1> QED
  BY <1>1, <1>2, <1>3, <1>4, <1>5

LEMMA StopKeepsIInv == ASSUME IInv, NEW l \in Leaders, Stop(l) PROVE IInv'
<1> USE ElectionAssumption DEF IInv, TypeOK, Procs
<1>1. TypeOK'
  <2>1. CASE Holds(l)
    BY <2>1 DEF Stop, Step, At, Goto, Close, Unlocked, history, ClientSteps,
           LeaderSteps, Holds
  <2>2. CASE ~Holds(l)
    BY <2>2 DEF Stop, Step, At, Goto, Close, Unlocked, history, ClientSteps,
           LeaderSteps, Holds
  <2> QED
    BY <2>1, <2>2 DEF Stop
<1>2. Descriptors'
  <2>1. CASE Holds(l)
    BY <2>1 DEF Stop, Step, At, Goto, Close, Unlocked, history, Descriptors, Closed,
           Opened, Holding, Named, Holds, ClientSteps, LeaderSteps
  <2>2. CASE ~Holds(l)
    <3>1. /\ fd' = [fd EXCEPT ![l] = None]
          /\ locked' = [i \in Inodes |-> IF locked[i] = l THEN None ELSE locked[i]]
      BY <2>2 DEF Stop, Step, At, Goto, Close, Unlocked, history
    <3>2. \A i \in Inodes : locked'[i] # l /\ (locked[i] # l => locked'[i] = locked[i])
      BY <3>1
    <3>3. \A p \in Procs \ {l} : fd'[p] = fd[p] /\ Holds(p)' = Holds(p)
      BY <3>1, <3>2 DEF Holds
    <3> QED
      BY <2>2, <3>1, <3>2, <3>3 DEF Stop, Step, At, Goto, Close, Unlocked, history,
             Descriptors, Closed, Opened, Holding, Named, Holds, ClientSteps,
             LeaderSteps
  <2> QED
    BY <2>1, <2>2 DEF Stop
<1>3. Names'
  <2>1. CASE Holds(l)
    BY <2>1 DEF Stop, Step, At, Goto, Close, Unlocked, history, Names, Unnamed,
           Named, Holds, Descriptors, Closed, Opened, Holding, PidAgreesWithLock,
           Serving, Alive, ClientSteps, LeaderSteps
  <2>2. CASE ~Holds(l)
    BY <2>2 DEF Stop, Step, At, Goto, Close, Unlocked, history, Names, Unnamed,
           Named, Holds, Descriptors, Closed, Opened, Holding, PidAgreesWithLock,
           Serving, Alive, ClientSteps, LeaderSteps
  <2> QED
    BY <2>1, <2>2 DEF Stop
<1>4. PidAgreesWithLock'
  <2>1. CASE Holds(l)
    BY <2>1 DEF Stop, Step, At, Goto, Close, Unlocked, history, PidAgreesWithLock,
           Serving, Alive, Holds, Descriptors, Closed, Opened, Holding, Names,
           Unnamed, Named, ClientSteps, LeaderSteps
  <2>2. CASE ~Holds(l)
    <3>1. /\ fd' = [fd EXCEPT ![l] = None]
          /\ locked' = [i \in Inodes |-> IF locked[i] = l THEN None ELSE locked[i]]
      BY <2>2 DEF Stop, Step, At, Goto, Close, Unlocked, history
    <3>2. \A i \in Inodes : locked'[i] # l /\ (locked[i] # l => locked'[i] = locked[i])
      BY <3>1
    <3>3. \A p \in Procs \ {l} : fd'[p] = fd[p] /\ Holds(p)' = Holds(p)
      BY <3>1, <3>2 DEF Holds
    <3> QED
      BY <2>2, <3>1, <3>2, <3>3 DEF Stop, Step, At, Goto, Close, Unlocked, history,
             PidAgreesWithLock, Serving, Alive, Holds, Descriptors, Closed, Opened,
             Holding, Names, Unnamed, Named, ClientSteps, LeaderSteps
  <2> QED
    BY <2>1, <2>2 DEF Stop
<1>5. OnePath'
  <2>1. CASE Holds(l)
    BY <2>1 DEF Stop, Step, At, Goto, Close, Unlocked, history, OnePath,
           Descriptors, Closed, Holds
  <2>2. CASE ~Holds(l)
    BY <2>2 DEF Stop, Step, At, Goto, Close, Unlocked, history, OnePath,
           Descriptors, Closed, Holds
  <2> QED
    BY <2>1, <2>2 DEF Stop
<1> QED
  BY <1>1, <1>2, <1>3, <1>4, <1>5

LEMMA LeaderDropKeepsIInv == ASSUME IInv, NEW l \in Leaders, LeaderDrop(l) PROVE IInv'
<1> USE ElectionAssumption DEF IInv, TypeOK, Procs
<1>1. TypeOK'
  <2>1. CASE Step(l, "unlock", "unlink")
    BY <2>1 DEF LeaderDrop, DropLock, Step, At, Goto, Close, Unlocked, ClientSteps,
           LeaderSteps
  <2>2. CASE Step(l, "unlink", "unsock")
    BY <2>2 DEF LeaderDrop, DropLock, Step, At, Goto, Close, Unlocked, ClientSteps,
           LeaderSteps
  <2>3. CASE Step(l, "unsock", "gone")
    BY <2>3 DEF LeaderDrop, DropLock, Step, At, Goto, Close, Unlocked, ClientSteps,
           LeaderSteps
  <2> QED
    BY <2>1, <2>2, <2>3 DEF LeaderDrop, DropLock
<1>2. Descriptors'
  <2>1. CASE Step(l, "unlock", "unlink")
    <3>1. /\ fd' = [fd EXCEPT ![l] = None]
          /\ locked' = [i \in Inodes |-> IF locked[i] = l THEN None ELSE locked[i]]
      BY <2>1 DEF LeaderDrop, DropLock, Step, At, Goto, Close, Unlocked
    <3>2. \A i \in Inodes : locked'[i] # l /\ (locked[i] # l => locked'[i] = locked[i])
      BY <3>1
    <3>3. \A p \in Procs \ {l} : fd'[p] = fd[p] /\ Holds(p)' = Holds(p)
      BY <3>1, <3>2 DEF Holds
    <3> QED
      BY <2>1, <3>1, <3>2, <3>3 DEF LeaderDrop, DropLock, Step, At, Goto, Close,
             Unlocked, Descriptors, Closed, Opened, Holding, Named, Holds,
             ClientSteps, LeaderSteps
  <2>2. CASE Step(l, "unlink", "unsock")
    BY <2>2 DEF LeaderDrop, DropLock, Step, At, Goto, Close, Unlocked, Descriptors,
           Closed, Opened, Holding, Named, Holds, ClientSteps, LeaderSteps
  <2>3. CASE Step(l, "unsock", "gone")
    BY <2>3 DEF LeaderDrop, DropLock, Step, At, Goto, Close, Unlocked, Descriptors,
           Closed, Opened, Holding, Named, Holds, ClientSteps, LeaderSteps
  <2> QED
    BY <2>1, <2>2, <2>3 DEF LeaderDrop, DropLock
<1>3. Names'
  <2>1. CASE Step(l, "unlock", "unlink")
    BY <2>1 DEF LeaderDrop, DropLock, Step, At, Goto, Close, Unlocked, Names,
           Unnamed, Named, Holds, Descriptors, Closed, Opened, Holding,
           PidAgreesWithLock, Serving, Alive, ClientSteps, LeaderSteps
  <2>2. CASE Step(l, "unlink", "unsock")
    BY <2>2 DEF LeaderDrop, DropLock, Step, At, Goto, Close, Unlocked, Names,
           Unnamed, Named, Holds, Descriptors, Closed, Opened, Holding,
           PidAgreesWithLock, Serving, Alive, ClientSteps, LeaderSteps
  <2>3. CASE Step(l, "unsock", "gone")
    BY <2>3 DEF LeaderDrop, DropLock, Step, At, Goto, Close, Unlocked, Names,
           Unnamed, Named, Holds, Descriptors, Closed, Opened, Holding,
           PidAgreesWithLock, Serving, Alive, ClientSteps, LeaderSteps
  <2> QED
    BY <2>1, <2>2, <2>3 DEF LeaderDrop, DropLock
<1>4. PidAgreesWithLock'
  <2>1. CASE Step(l, "unlock", "unlink")
    <3>1. /\ fd' = [fd EXCEPT ![l] = None]
          /\ locked' = [i \in Inodes |-> IF locked[i] = l THEN None ELSE locked[i]]
      BY <2>1 DEF LeaderDrop, DropLock, Step, At, Goto, Close, Unlocked
    <3>2. \A i \in Inodes : locked'[i] # l /\ (locked[i] # l => locked'[i] = locked[i])
      BY <3>1
    <3>3. \A p \in Procs \ {l} : fd'[p] = fd[p] /\ Holds(p)' = Holds(p)
      BY <3>1, <3>2 DEF Holds
    <3> QED
      BY <2>1, <3>1, <3>2, <3>3 DEF LeaderDrop, DropLock, Step, At, Goto, Close,
             Unlocked, PidAgreesWithLock, Serving, Alive, Holds, Descriptors,
             Closed, Opened, Holding, Names, Unnamed, Named, ClientSteps,
             LeaderSteps
  <2>2. CASE Step(l, "unlink", "unsock")
    BY <2>2 DEF LeaderDrop, DropLock, Step, At, Goto, Close, Unlocked,
           PidAgreesWithLock, Serving, Alive, Holds, Descriptors, Closed, Opened,
           Holding, Names, Unnamed, Named, ClientSteps, LeaderSteps
  <2>3. CASE Step(l, "unsock", "gone")
    BY <2>3 DEF LeaderDrop, DropLock, Step, At, Goto, Close, Unlocked,
           PidAgreesWithLock, Serving, Alive, Holds, Descriptors, Closed, Opened,
           Holding, Names, Unnamed, Named, ClientSteps, LeaderSteps
  <2> QED
    BY <2>1, <2>2, <2>3 DEF LeaderDrop, DropLock
<1>5. OnePath'
  <2>1. CASE Step(l, "unlock", "unlink")
    BY <2>1 DEF LeaderDrop, DropLock, Step, At, Goto, Close, Unlocked, OnePath,
           Descriptors, Closed
  <2>2. CASE Step(l, "unlink", "unsock")
    BY <2>2 DEF LeaderDrop, DropLock, Step, At, Goto, Close, Unlocked, OnePath,
           Descriptors, Closed
  <2>3. CASE Step(l, "unsock", "gone")
    BY <2>3 DEF LeaderDrop, DropLock, Step, At, Goto, Close, Unlocked, OnePath,
           Descriptors, Closed
  <2> QED
    BY <2>1, <2>2, <2>3 DEF LeaderDrop, DropLock
<1> QED
  BY <1>1, <1>2, <1>3, <1>4, <1>5

LEMMA CrashKeepsIInv == ASSUME IInv, NEW l \in Leaders, Crash(l) PROVE IInv'
<1> USE ElectionAssumption DEF IInv, TypeOK, Procs
<1>1. TypeOK'
  BY DEF Crash, Goto, Close, Unlocked, Fault, ClientSteps, LeaderSteps
<1>2. Descriptors'
  BY DEF Crash, Goto, Close, Unlocked, Fault, Descriptors, Closed, Opened, Holding,
         Named, Holds, ClientSteps, LeaderSteps
<1>3. Names'
  BY DEF Crash, Goto, Close, Unlocked, Fault, Names, Unnamed, Named, Holds,
         Descriptors, Closed, Opened, Holding, PidAgreesWithLock, Serving, Alive,
         ClientSteps, LeaderSteps
<1>4. PidAgreesWithLock'
  BY DEF Crash, Goto, Close, Unlocked, Fault, PidAgreesWithLock, Serving, Alive,
         Holds, Descriptors, Closed, Opened, Holding, Names, Unnamed, Named,
         ClientSteps, LeaderSteps
<1>5. OnePath'
  BY DEF Crash, Goto, Close, Unlocked, Fault, OnePath, Descriptors, Closed
<1> QED
  BY <1>1, <1>2, <1>3, <1>4, <1>5

LEMMA NextKeepsIInv == IInv /\ [Next]_vars => IInv'
<1> SUFFICES ASSUME IInv, [Next]_vars PROVE IInv'
  OBVIOUS
<1>1. ASSUME NEW c \in Clients, Client(c) \/ ClientExit(c) PROVE IInv'
  BY <1>1, FastPathKeepsIInv, ClientOpenKeepsIInv, TryAcquireKeepsIInv,
         RecheckKeepsIInv, CleanupAndSpawnKeepsIInv, ListenerReadyKeepsIInv,
         SpawnTimeoutKeepsIInv, ReleaseKeepsIInv, ConnectKeepsIInv,
         WaitForSocketKeepsIInv, ClientDropKeepsIInv, DisconnectedKeepsIInv,
         ClientExitKeepsIInv DEF Client
<1>2. ASSUME NEW l \in Leaders, Leader(l) \/ Crash(l) PROVE IInv'
  BY <1>2, BootKeepsIInv, BootLockKeepsIInv, BootPidKeepsIInv, BailOutKeepsIInv,
         RemoveSocketKeepsIInv, BindKeepsIInv, SocketReadyKeepsIInv,
         SocketTimeoutKeepsIInv, HandoffOpenKeepsIInv, HandoffLockKeepsIInv,
         HandoffTimeoutKeepsIInv, HandoffPidKeepsIInv, ShutdownKeepsIInv,
         StopKeepsIInv, LeaderDropKeepsIInv, CrashKeepsIInv DEF Leader
<1>3. CASE UNCHANGED vars
  <2>1. TypeOK'
    BY <1>3 DEF IInv, TypeOK, vars, files, history
  <2>2. Descriptors' /\ Names'
    BY <1>3 DEF IInv, Descriptors, Closed, Opened, Holding, Named, Holds, Names, Unnamed,
                vars, files, history
  <2>3. PidAgreesWithLock' /\ OnePath'
    BY <1>3 DEF IInv, PidAgreesWithLock, OnePath, Serving, Alive, Holds, vars, files, history
  <2> QED
    BY <2>1, <2>2, <2>3 DEF IInv
<1> QED
  BY <1>1, <1>2, <1>3 DEF Next

LEMMA IInvGivesSingleLeader == IInv => SingleLeader
<1> SUFFICES ASSUME IInv, ~torn, NEW l \in Leaders, NEW m \in Leaders,
                    Serving(l), Serving(m)
             PROVE l = m
  BY DEF SingleLeader
<1>1. Holds(l) /\ Holds(m)
  BY DEF IInv, PidAgreesWithLock
<1>2. fd[l] = lockPath /\ fd[m] = lockPath
  BY <1>1 DEF IInv, OnePath, Holds, Procs
<1> QED
  BY <1>1, <1>2 DEF Holds

\* Whatever clients and leaders do, die or are slow to do, a flock is held through
\* an open descriptor and all state keeps its type.
THEOREM ElectionTypeCorrect == Spec => []TypeOK
<1>1. IInv => TypeOK
  BY DEF IInv
<1> QED
  BY <1>1, InitIInv, NextKeepsIInv, PTL DEF Spec

\* The pid in a lock file agrees with the flock on it: try_acquire, write_pid and
\* Drop keep the two in step at every interleaving.
THEOREM PidCorrect == Spec => []PidAgreesWithLock
<1>1. IInv => PidAgreesWithLock
  BY DEF IInv
<1> QED
  BY <1>1, InitIInv, NextKeepsIInv, PTL DEF Spec

\* As long as Drop never unlinks a lock file that somebody else has open, at most
\* one leader serves: the unlink is the only way to lose mutual exclusion.
THEOREM SingleLeaderCorrect == Spec => []SingleLeader
<1> QED
  BY IInvGivesSingleLeader, InitIInv, NextKeepsIInv, PTL DEF Spec
================================================================================
