----------------------------- MODULE PromptQueue -----------------------------
(***************************************************************************)
(* The pure half of the session actor's prompt queue: what each edit of    *)
(* State.pending_inputs does to the sequence of queued prompts.            *)
(*                                                                         *)
(* A prompt stands for one InputItem and is identified by its prompt_id.   *)
(* Of the item's fields only those a branch of the code reads are kept:    *)
(* the origin (Kind), the client it is attributed to (Owner) and the task  *)
(* whose completion it reports (CompletionId).  The send_now flag and the  *)
(* version of the queue metadata change over time and are variables of     *)
(* SessionActor.                                                           *)
(***************************************************************************)
EXTENDS Naturals, Sequences, FiniteSets, FiniteSetsExt, Functions, SequencesExt,
        Subsequences

CONSTANTS
    Prompts,        \* prompt ids; each is submitted at most once
    Clients,        \* client identifiers
    Tasks,          \* ids of background tasks
    None,           \* Rust's Option::None
    Kind,           \* Kind[p]: the origin of prompt p
    Owner,          \* Owner[p]: queue_meta.owner
    CompletionId    \* CompletionId[p]: PromptOrigin::completion_id

\* Where an InputItem comes from.  "user" arrives through SessionCommand::Prompt,
\* "fallback" is a stranded interjection; the rest are the synthetic origins.
Kinds == {"user", "fallback", "wake", "cron", "drain", "goal", "plan"}

ASSUME QueueConstants ==
    /\ IsFiniteSet(Prompts)
    /\ None \notin Prompts \cup Clients \cup Tasks
    /\ Kind \in [Prompts -> Kinds]
    /\ Owner \in [Prompts -> Clients \cup {None}]
    /\ CompletionId \in [Prompts -> Tasks \cup {None}]
    /\ \A p \in Prompts : CompletionId[p] # None <=> Kind[p] = "wake"

-----------------------------------------------------------------------------
(* Attributes of an item *)

\* PromptOrigin::is_synthetic: everything that is not PromptOrigin::User.
IsSynthetic(p) == Kind[p] \notin {"user", "fallback"}

\* Only prompts a client typed carry queue_meta and are rows of the shared queue.
HasQueueMeta(p) == Kind[p] = "user"

-----------------------------------------------------------------------------
(* Edits of pending_inputs *)

\* Slip: the sweep forgets to exempt the running turn's slot.
SweptUnguarded(q, running, D) == Range(q) \cap D

\* State::sweep_pending_inputs: what a sweep with the predicate "in D" removes.
\* The slot of the running turn is exempt.
Swept(q, running, D) == {p \in Range(q) : p \in D /\ p # running}

\* 1 when the front of the queue is the in-flight turn's own slot, else 0.
RunningSlot(q, running) ==
    IF q # <<>> /\ running # None /\ Head(q) = running THEN 1 ELSE 0

\* Slips: a send-now prompt goes to the back of the queue, or in front of earlier ones.
InsertLast(q, running, sendNow, p) == Append(q, p)
InsertFirst(q, running, sendNow, p) == InsertAt(q, RunningSlot(q, running) + 1, p)

\* Insert p to run next: behind the running slot and behind the send-now
\* prompts that follow it without a gap.
InsertSendNow(q, running, sendNow, p) ==
    LET first == RunningSlot(q, running) + 1
        free  == {i \in first .. Len(q) + 1 : i = Len(q) + 1 \/ q[i] \notin sendNow}
    IN  InsertAt(q, Min(free), p)

\* Insert a stranded interjection directly behind the running slot.
InsertFallback(q, running, p) == InsertAt(q, RunningSlot(q, running) + 1, p)

\* flush_stranded_interjections: reversed front inserts keep the order of s.
InsertAllFallbacks(q, running, s) ==
    LET r == RunningSlot(q, running)
    IN  SubSeq(q, 1, r) \o s \o SubSeq(q, r + 1, Len(q))

\* The rows a client may reorder: queued user prompts that are not running.
Reorderable(running) == {p \in Prompts : HasQueueMeta(p) /\ p # running}

\* Slip: rows the client did not name are lost.
ReorderedNamedOnly(q, running, order) ==
    Retain(q, Prompts \ Reorderable(running))
        \o Retain(order, Reorderable(running) \cap Range(q))

\* handle_reorder_queue: everything else first, then the rows named in order,
\* in that order, then the rows it does not name, in their old order.
Reordered(q, running, order) ==
    LET rows  == Reorderable(running)
        named == Range(order)
    IN  Retain(q, Prompts \ rows)
            \o Retain(order, rows \cap Range(q))
            \o Retain(q, rows \ named)

\* handle_clear_queue: the rows a clear scoped to owner removes.
Clearable(q, running, owner) ==
    {p \in Range(q) : /\ p \in Reorderable(running)
                      /\ owner = None \/ Owner[p] = owner}

\* build_queue_wire: the user-visible rows, with their versions.
BuildQueueWire(q, running, version) ==
    LET rows == Retain(q, Reorderable(running))
    IN  [k \in DOMAIN rows |-> [id |-> rows[k], version |-> version[rows[k]]]]
=============================================================================
