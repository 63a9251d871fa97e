---------------------------- MODULE CommandQueue ----------------------------
(***************************************************************************)
(* The unified command queue (utils/messageQueueManager.ts) and what the   *)
(* REPL takes from it between turns (utils/queueProcessor.ts).  A queued   *)
(* command is an entry of its own: a command that is queued again is a new *)
(* object, which remove(), going by reference, does not take for the old.  *)
(***************************************************************************)
EXTENDS Naturals, Sequences, FiniteSets

\* A command is what its sender made of it: slash says that its text starts
\* with '/', agent that it is addressed to a subagent, meta that the system
\* wrote it; via says how it is sent.
KindType == [mode: {"prompt", "bash", "task-notification"},
             priority: {"now", "next", "later"},
             slash: BOOLEAN, meta: BOOLEAN, agent: BOOLEAN,
             via: {"typed", "notified", "incoming"}]
EntryType == [cmd: Nat, copy: Nat, kind: KindType]

\* enqueue() of a text with the default priority
PlainPrompt == [mode |-> "prompt", priority |-> "next", slash |-> FALSE,
                meta |-> FALSE, agent |-> FALSE, via |-> "typed"]
QueuedAgain(e) == [cmd |-> e.cmd, copy |-> e.copy + 1, kind |-> PlainPrompt]

Rank == [now |-> 0, next |-> 1, later |-> 2]
Before(a, b) == Rank[a.kind.priority] < Rank[b.kind.priority]

Entries(q) == {q[i] : i \in DOMAIN q}
MainThread(e) == ~e.kind.agent
Editable(e) == e.kind.mode # "task-notification" /\ ~e.kind.meta

\* peek(isMainThread): the best priority, first in first out within it
Peek(q) ==
    q[CHOOSE i \in DOMAIN q : /\ MainThread(q[i])
                              /\ \A j \in DOMAIN q : MainThread(q[j]) =>
                                    Before(q[i], q[j]) \/ (~Before(q[j], q[i]) /\ i <= j)]

\* What dequeueAllMatching takes together with the command Peek found
JoinsBatch(next, e) == MainThread(e) /\ ~e.kind.slash /\ e.kind.mode = next.kind.mode

Alone(e) == e.kind.slash \/ e.kind.mode = "bash"

\* The entries of q at the places P, in the order of q
Picked(q, P) ==
    LET n == Cardinality(P)
        at == CHOOSE a \in [1..n -> P] :
                  /\ \A i, j \in 1..n : i < j => a[i] < a[j]
                  /\ \A p \in P : \E i \in 1..n : a[i] = p
    IN  [i \in 1..n |-> q[at[i]]]

\* What processQueueIfReady takes, in the order of the queue
Batch(q) ==
    LET next == Peek(q)
    IN  IF Alone(next) THEN <<next>>
        ELSE Picked(q, {i \in DOMAIN q : JoinsBatch(next, q[i])})

\* remove() and the splices of the dequeue functions
Without(q, taken) == Picked(q, {i \in DOMAIN q : q[i] \notin taken})

\* The commands a turn may attach between two rounds of tools: only 'next' and
\* better unless a Sleep ran, never slash commands, never a subagent's, and of
\* these getQueuedCommandAttachments takes prompts and notifications.
MidTurn(q, sleepRan) ==
    Picked(q, {i \in DOMAIN q : /\ MainThread(q[i]) /\ ~Alone(q[i])
                                /\ sleepRan \/ q[i].kind.priority # "later"})
=============================================================================
