---------------------------- MODULE PromptLedger ----------------------------
(***************************************************************************)
(* What the session actor promises the senders of prompts, with no queue,  *)
(* no locks and no cancel protocol: at most one turn runs at a time, each  *)
(* accepted prompt is started at most once and receives one outcome, and   *)
(* the outcome fits what happened to it.  SessionActor implements this     *)
(* specification (SessionActor!ImplementsLedger).                          *)
(***************************************************************************)
CONSTANTS Prompts, None

VARIABLES
    fate,       \* what the sender of each prompt has been told
    running,    \* the prompt that owns the turn slot
    started,    \* the prompts a turn was spawned for
    stopped     \* the session has shut down

ledgerVars == <<fate, running, started, stopped>>

\* Outcomes of a prompt that never ran, and of one that may have.
UnstartedOutcomes == {"removed", "dropped", "consumed", "merged", "cleared"}
InterruptedOutcomes == {"cancelled", "rewound"}

Pending == {p \in Prompts : fate[p] = "pending"}
Told(P, outcome) == [p \in Prompts |-> IF p \in P THEN outcome ELSE fate[p]]

Init ==
    /\ fate = [p \in Prompts |-> "unsent"]
    /\ running = None /\ started = {} /\ stopped = FALSE

\* A prompt is accepted; it may push out prompts that did not run.
Accept(p, P) ==
    /\ ~stopped /\ fate[p] = "unsent" /\ P \cap started = {}
    /\ fate' = [Told(P, "dropped") EXCEPT ![p] = "pending"]
    /\ UNCHANGED <<running, started, stopped>>

\* A turn is started, only in a free slot and only once per prompt.
Start(p) ==
    /\ ~stopped /\ running = None /\ p \in Pending \ started
    /\ running' = p /\ started' = started \cup {p}
    /\ UNCHANGED <<fate, stopped>>

\* The running turn ends by itself.
Complete(p) ==
    /\ ~stopped /\ running = p /\ p \in Pending
    /\ fate' = Told({p}, "completed") /\ running' = None
    /\ UNCHANGED <<started, stopped>>

\* A cancel takes the slot; its prompt is told later.
Release ==
    /\ ~stopped /\ running # None /\ running' = None
    /\ UNCHANGED <<fate, started, stopped>>

\* Prompts without the slot are told their outcome; of those that ran, at most one.
Resolve(P, outcome) ==
    /\ ~stopped /\ P # {} /\ running \notin P
    /\ \/ outcome \in UnstartedOutcomes /\ P \cap started = {}
       \/ outcome \in InterruptedOutcomes /\ \A p, q \in P \cap started : p = q
    /\ fate' = Told(P, outcome)
    /\ UNCHANGED <<running, started, stopped>>

\* The session ends; what it drops, it drops for good.
ShutDown(P) ==
    /\ ~stopped /\ stopped' = TRUE
    /\ fate' = Told(P, "dropped")
    /\ UNCHANGED <<running, started>>

Next ==
    \/ \E p \in Prompts : Start(p) \/ Complete(p)
    \/ Release
    \/ \E P \in SUBSET Pending :
           \/ \E p \in Prompts : Accept(p, P)
           \/ \E outcome \in UnstartedOutcomes \cup InterruptedOutcomes : Resolve(P, outcome)
           \/ ShutDown(P)

Spec == Init /\ [][Next]_ledgerVars
=============================================================================
