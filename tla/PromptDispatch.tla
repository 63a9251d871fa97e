--------------------------- MODULE PromptDispatch ---------------------------
(***************************************************************************)
(* How what the user types, what the system notifies and what teammates    *)
(* send becomes the turns of the REPL: the command queue, the query guard  *)
(* and the runs of executeUserInput and onQuery that contend for it        *)
(* (utils/handlePromptSubmit.ts, screens/REPL.tsx, hooks/useQueueProcessor,*)
(* and the drain between two rounds of tools in query.ts).                 *)
(*                                                                         *)
(* Every action is the code between two awaits that do I/O.  A run that    *)
(* the user cancels goes on until its await returns: its finally blocks    *)
(* run late, beside whatever was started in the meantime.                  *)
(***************************************************************************)
EXTENDS QueryGuard, CommandQueue, FiniteSets

CONSTANTS
    NumCommands,  \* how many commands are sent
    NumRuns,      \* how many runs may be in flight together
    Kinds,        \* the kinds of command that are sent
    MaxCancels,   \* how often the user presses ESC on a running turn
    MaxPops       \* how often the user takes the queue back for editing

ASSUME NumCommandsAssumption == NumCommands \in Nat
ASSUME NumRunsAssumption == NumRuns \in Nat
ASSUME KindsAssumption == Kinds \subseteq KindType
ASSUME MaxCancelsAssumption == MaxCancels \in Nat
ASSUME MaxPopsAssumption == MaxPops \in Nat

Commands == 1..NumCommands
Runs == 1..NumRuns

VARIABLES
    sent,         \* how many commands were sent; command c is the c-th
    queue,        \* commandQueue
    guard,        \* the QueryGuard of the REPL
    phase,        \* where each run is
    cmds,         \* what it was started with
    gen,          \* thisGeneration in onQuery
    aborted,      \* why its abort controller was aborted, or "no"
    snapshot,     \* queuedCommandsSnapshot of its mid-turn drain
    controller,   \* the run whose controller the REPL holds, see below
    seenActive,   \* isQueryActive as of the last render
    queueChanged, \* the queue changed since the last render
    transcript,   \* the commands that reached the conversation, in order
    fate,         \* how a command ended other than in the conversation
    cancels, pops \* the user's interventions so far

runVars == <<phase, cmds, gen, aborted, snapshot>>
uiVars == <<controller, seenActive, queueChanged>>
userVars == <<cancels, pops>>
vars == <<sent, queue, guard, runVars, uiVars, transcript, fate, userVars>>

Phases == {"free", "processing", "querying", "draining"}
Fates == {"pending", "local", "failed", "dropped", "popped", "subagent"}

\* What setAbortController holds besides the controller of a run in flight:
\* nothing (or one that was aborted, to the same effect), or one that was not
\* aborted and whose run ended without clearing it
NoController == 0
Orphan == NumRuns + 1

InFlight == {r \in Runs : phase[r] # "free"}
Querying == {r \in Runs : phase[r] \in {"querying", "draining"}}
NextRun(r) == r \notin InFlight /\ \A s \in Runs : s < r => s \in InFlight

\* handleIncomingPrompt calls onQuery itself, so that such a run has no
\* executeUserInput around it
Direct(r) == cmds[r] # <<>> /\ cmds[r][1].kind.via = "incoming"

Ending(S, how) == [c \in Commands |-> IF c \in S THEN how ELSE fate[c]]
CommandsOf(q) == {e.cmd : e \in Entries(q)}
By(how, q) == [i \in DOMAIN q |-> [entry |-> q[i], by |-> how]]

-----------------------------------------------------------------------------
Init ==
    /\ sent = 0 /\ queue = <<>> /\ guard = NewGuard
    /\ phase = [r \in Runs |-> "free"]
    /\ cmds = [r \in Runs |-> <<>>]
    /\ gen = [r \in Runs |-> 0]
    /\ aborted = [r \in Runs |-> "no"]
    /\ snapshot = [r \in Runs |-> <<>>]
    /\ controller = NoController /\ seenActive = FALSE /\ queueChanged = FALSE
    /\ transcript = <<>> /\ fate = [c \in Commands |-> "pending"]
    /\ cancels = 0 /\ pops = 0

Sends(k, via) == sent < NumCommands /\ k.via = via /\ sent' = sent + 1
NewEntry(k) == [cmd |-> sent + 1, copy |-> 0, kind |-> k]
Enqueue(q) == queue' = queue \o q /\ queueChanged' = TRUE

\* executeUserInput up to its first await: a fresh controller, and the guard
\* is reserved before processUserInput
ExecuteUserInput(r, commands) ==
    /\ NextRun(r)
    /\ phase' = [phase EXCEPT ![r] = "processing"]
    /\ cmds' = [cmds EXCEPT ![r] = commands]
    /\ controller' = r
    /\ guard' = Reserve(guard)
    /\ UNCHANGED <<gen, aborted, snapshot>>

\* Mutant of FreeRun: the slot keeps what the run was started with
FreeRunKeepsInput(r) ==
    /\ phase' = [phase EXCEPT ![r] = "free"]
    /\ gen' = [gen EXCEPT ![r] = 0]
    /\ aborted' = [aborted EXCEPT ![r] = "no"]
    /\ snapshot' = [snapshot EXCEPT ![r] = <<>>]
    /\ UNCHANGED cmds

\* A run is over and its slot is free.  Whether the REPL still holds its
\* controller is up to the caller.
FreeRun(r) ==
    /\ phase' = [phase EXCEPT ![r] = "free"]
    /\ cmds' = [cmds EXCEPT ![r] = <<>>]
    /\ gen' = [gen EXCEPT ![r] = 0]
    /\ aborted' = [aborted EXCEPT ![r] = "no"]
    /\ snapshot' = [snapshot EXCEPT ![r] = <<>>]
LeftBehind(r) ==
    CASE controller # r      -> controller
      [] aborted[r] = "no"   -> Orphan
      [] OTHER               -> NoController

\* abort('interrupt') on the controller the REPL holds
Interrupt ==
    /\ controller \in Runs /\ aborted[controller] = "no"
    /\ aborted' = [aborted EXCEPT ![controller] = "interrupt"]

\* handlePromptSubmit on an idle guard: run the input at once
Submit ==
    \E k \in Kinds, r \in Runs :
        /\ Sends(k, "typed")
        /\ ~IsActive(guard)
        /\ ExecuteUserInput(r, <<NewEntry(k)>>)
        /\ UNCHANGED <<queue, seenActive, queueChanged, transcript, fate, userVars>>

\* handlePromptSubmit on an active guard: queue the input, and interrupt the
\* turn when all its executing tools are interruptible
SubmitQueued ==
    \E k \in Kinds :
        /\ Sends(k, "typed")
        /\ IsActive(guard)
        /\ \/ Interrupt /\ phase[controller] = "querying"
           \/ UNCHANGED aborted
        /\ Enqueue(<<NewEntry(k)>>)
        /\ UNCHANGED <<guard, phase, cmds, gen, snapshot, controller, seenActive,
                       transcript, fate, userVars>>

\* enqueuePendingNotification, or enqueue by a timer or a channel
Notify ==
    \E k \in Kinds :
        /\ Sends(k, "notified")
        /\ Enqueue(<<NewEntry(k)>>)
        /\ UNCHANGED <<guard, runVars, controller, seenActive, transcript, fate,
                       userVars>>

\* handleIncomingPrompt: only when nothing is active and no prompt is queued;
\* otherwise its caller tries again later
IncomingPrompt ==
    \E k \in Kinds, r \in Runs :
        /\ Sends(k, "incoming")
        /\ ~IsActive(guard)
        /\ \A e \in Entries(queue) : e.kind.mode \notin {"prompt", "bash"}
        /\ NextRun(r)
        /\ guard' = TryStart(guard)
        /\ phase' = [phase EXCEPT ![r] = "querying"]
        /\ cmds' = [cmds EXCEPT ![r] = <<NewEntry(k)>>]
        /\ gen' = [gen EXCEPT ![r] = guard'.generation]
        /\ controller' = r
        /\ transcript' = transcript \o By("message", <<NewEntry(k)>>)
        /\ UNCHANGED <<queue, aborted, snapshot, seenActive, queueChanged, fate,
                       userVars>>

\* React re-renders, and the effect of useQueueProcessor finds the REPL idle
\* and something to run.  Its other dependencies change at any time.
RenderStartsRun ==
    \E r \in Runs :
        /\ ~IsActive(guard)
        /\ \E e \in Entries(queue) : MainThread(e)
        /\ ExecuteUserInput(r, Batch(queue))
        /\ queue' = Without(queue, Entries(Batch(queue)))
        /\ queueChanged' = TRUE /\ seenActive' = FALSE
        /\ UNCHANGED <<sent, transcript, fate, userVars>>

\* Mutant of EffectDue: the effect does not depend on the queue
EffectDueOfGuard == IsActive(guard) # seenActive

\* The dependencies of that effect which a lost wake-up could concern
EffectDue == queueChanged \/ IsActive(guard) # seenActive
RenderFindsNothing ==
    /\ EffectDue
    /\ IsActive(guard) \/ \A e \in Entries(queue) : ~MainThread(e)
    /\ queueChanged' = FALSE /\ seenActive' = IsActive(guard)
    /\ UNCHANGED <<sent, queue, guard, runVars, controller, transcript, fate, userVars>>

\* A command of priority 'now' in the queue aborts the turn (REPL.tsx:4099)
InterruptForNow ==
    /\ \E e \in Entries(queue) : e.kind.priority = "now"
    /\ Interrupt
    /\ UNCHANGED <<sent, queue, guard, phase, cmds, gen, snapshot, uiVars, transcript,
                   fate, userVars>>

-----------------------------------------------------------------------------
(* A run goes on.                                                           *)

\* processUserInput produced messages and onQuery gets the guard
StartQuery(r) ==
    /\ phase[r] = "processing"
    /\ CanStart(guard)
    /\ guard' = TryStart(guard)
    /\ phase' = [phase EXCEPT ![r] = "querying"]
    /\ gen' = [gen EXCEPT ![r] = guard'.generation]
    /\ transcript' = transcript \o By("message", cmds[r])
    /\ UNCHANGED <<sent, queue, cmds, aborted, snapshot, uiVars, fate, userVars>>

\* Mutant of Requeue: the texts of a turn that may not start are dropped
RequeueNothing(r) ==
    /\ phase[r] = "processing" /\ ~CanStart(guard)
    /\ FreeRun(r)
    /\ controller' = LeftBehind(r)
    /\ guard' = CancelReservation(guard)
    /\ UNCHANGED <<sent, queue, queueChanged, seenActive, transcript, fate, userVars>>

\* onQuery finds a query running: the texts of the turn are queued again as
\* plain prompts, those of meta messages are not
Requeue(r) ==
    /\ phase[r] = "processing" /\ ~CanStart(guard)
    /\ LET Replayed == Picked(cmds[r], {i \in DOMAIN cmds[r] : ~cmds[r][i].kind.meta})
       IN  /\ Enqueue([i \in DOMAIN Replayed |-> QueuedAgain(Replayed[i])])
           /\ fate' = Ending(CommandsOf(cmds[r]) \ CommandsOf(Replayed), "dropped")
    /\ FreeRun(r)
    /\ controller' = LeftBehind(r)
    /\ guard' = CancelReservation(guard)
    /\ UNCHANGED <<sent, seenActive, transcript, userVars>>

\* A local slash command that leaves no message
LocalCommand(r) ==
    /\ phase[r] = "processing" /\ cmds[r][1].kind.slash
    /\ FreeRun(r)
    /\ controller' = NoController
    /\ guard' = CancelReservation(guard)
    /\ fate' = Ending(CommandsOf(cmds[r]), "local")
    /\ UNCHANGED <<sent, queue, seenActive, queueChanged, transcript, userVars>>

\* processUserInput throws: the whole batch is gone, and the finally block
\* leaves the controller where it is
ProcessingFails(r) ==
    /\ phase[r] = "processing"
    /\ FreeRun(r)
    /\ controller' = LeftBehind(r)
    /\ guard' = CancelReservation(guard)
    /\ fate' = Ending(CommandsOf(cmds[r]), "failed")
    /\ UNCHANGED <<sent, queue, seenActive, queueChanged, transcript, userVars>>

\* Between two rounds of tools query.ts takes a snapshot of the queue and
\* awaits the attachments it makes of it
DrainSnapshot(r) ==
    /\ phase[r] = "querying" /\ aborted[r] = "no"
    /\ \E sleepRan \in BOOLEAN :
          /\ MidTurn(queue, sleepRan) # <<>>
          /\ snapshot' = [snapshot EXCEPT ![r] = MidTurn(queue, sleepRan)]
    /\ phase' = [phase EXCEPT ![r] = "draining"]
    /\ UNCHANGED <<sent, queue, guard, cmds, gen, aborted, uiVars, transcript, fate,
                   userVars>>

\* Mutant of DrainDone: the attached commands stay in the queue
DrainKeepsQueue(r) ==
    /\ phase[r] = "draining"
    /\ transcript' = transcript \o By("attachment", snapshot[r])
    /\ phase' = [phase EXCEPT ![r] = "querying"]
    /\ snapshot' = [snapshot EXCEPT ![r] = <<>>]
    /\ UNCHANGED <<sent, queue, guard, cmds, gen, aborted, uiVars, fate, userVars>>

\* The attachments are yielded and the snapshot is removed from the queue.
\* Making them may fail, which is caught: the commands are removed all the same.
DrainDone(r) ==
    /\ phase[r] = "draining"
    /\ \/ /\ transcript' = transcript \o By("attachment", snapshot[r])
          /\ UNCHANGED fate
       \/ /\ fate' = Ending(CommandsOf(snapshot[r]), "failed")
          /\ UNCHANGED transcript
    /\ queue' = Without(queue, Entries(snapshot[r]))
    /\ queueChanged' = (queueChanged \/ queue' # queue)
    /\ phase' = [phase EXCEPT ![r] = "querying"]
    /\ snapshot' = [snapshot EXCEPT ![r] = <<>>]
    /\ UNCHANGED <<sent, guard, cmds, gen, aborted, controller, seenActive, userVars>>

\* The last message of the user that only meta messages follow
Restorable(k) ==
    /\ transcript[k].by = "message" /\ Editable(transcript[k].entry)
    /\ transcript[k].entry.kind.mode = "prompt"
    /\ \A j \in DOMAIN transcript :
          j > k => transcript[j].by = "message" /\ transcript[j].entry.kind.meta

\* Auto-restore: ESC before any response takes the prompt back into the input
\* and rewinds the conversation to before it
AutoRestore(r, g) ==
    /\ aborted[r] = "user" /\ ~IsActive(g) /\ queue = <<>>
    /\ \E k \in DOMAIN transcript :
          /\ Restorable(k)
          /\ transcript' = SubSeq(transcript, 1, k - 1)
          /\ fate' = [Ending({transcript[j].entry.cmd : j \in {i \in DOMAIN transcript : i > k}},
                             "dropped")
                      EXCEPT ![transcript[k].entry.cmd] = "popped"]

\* The query generator is done, and the finally blocks of onQuery and of
\* executeUserInput run without I/O in between
QueryEnds(r) ==
    /\ phase[r] = "querying"
    /\ LET ended == End(guard, gen[r])
       IN  /\ guard' = IF Direct(r) THEN ended ELSE CancelReservation(ended)
           /\ controller' = IF Owns(guard, gen[r]) THEN NoController ELSE LeftBehind(r)
           /\ AutoRestore(r, ended) \/ UNCHANGED <<transcript, fate>>
    /\ FreeRun(r)
    /\ UNCHANGED <<sent, queue, seenActive, queueChanged, userVars>>

-----------------------------------------------------------------------------
(* The user intervenes.                                                     *)

\* onCancel: ESC while the REPL holds a controller that is not aborted
Cancel ==
    /\ cancels < MaxCancels
    /\ controller # NoController
    /\ controller \in Runs => aborted[controller] = "no"
    /\ cancels' = cancels + 1
    /\ guard' = ForceEnd(guard)
    /\ aborted' = [r \in Runs |-> IF r = controller THEN "user" ELSE aborted[r]]
    /\ controller' = NoController
    /\ UNCHANGED <<sent, queue, phase, cmds, gen, snapshot, seenActive, queueChanged,
                   transcript, fate, pops>>

\* popAllEditable: UP, or ESC with nothing to cancel
PopAllEditable ==
    /\ pops < MaxPops
    /\ LET editable == {e \in Entries(queue) : Editable(e)}
       IN  /\ editable # {}
           /\ queue' = Without(queue, editable)
           /\ fate' = Ending({e.cmd : e \in editable}, "popped")
    /\ queueChanged' = TRUE
    /\ pops' = pops + 1
    /\ UNCHANGED <<sent, guard, runVars, controller, seenActive, transcript, cancels>>

\* A subagent's own query loop takes what is addressed to it, or its command
\* is dropped with the agent
SubagentTakes ==
    \E e \in Entries(queue) :
        /\ e.kind.agent
        /\ queue' = Without(queue, {e})
        /\ queueChanged' = TRUE
        /\ fate' = Ending({e.cmd}, "subagent")
        /\ UNCHANGED <<sent, guard, runVars, controller, seenActive, transcript, userVars>>

RunStep(r) ==
    \/ StartQuery(r) \/ Requeue(r) \/ LocalCommand(r) \/ ProcessingFails(r)
    \/ DrainSnapshot(r) \/ DrainDone(r) \/ QueryEnds(r)
Render == RenderStartsRun \/ RenderFindsNothing
Next ==
    \/ Submit \/ SubmitQueued \/ Notify \/ IncomingPrompt \/ SubagentTakes
    \/ Render \/ InterruptForNow \/ Cancel \/ PopAllEditable
    \/ \E r \in Runs : RunStep(r)

Spec == Init /\ [][Next]_vars

\* React renders what changed, processUserInput and the attachments settle,
\* and every query ends.
Progress(r) ==
    \/ StartQuery(r) \/ Requeue(r) \/ LocalCommand(r) \/ ProcessingFails(r)
    \/ DrainDone(r) \/ QueryEnds(r)
Fairness ==
    /\ WF_vars(EffectDue /\ Render)
    /\ \A r \in Runs : WF_vars(Progress(r))
FairSpec == Spec /\ Fairness

-----------------------------------------------------------------------------
Deliveries == [entry: EntryType, by: {"message", "attachment"}]

\* The variables stay in their ranges; a slot is free exactly when it was
\* started with nothing, since no run starts without a command.
TypeOK ==
    /\ sent \in 0..NumCommands
    /\ queue \in Seq(EntryType)
    /\ guard \in GuardType
    /\ phase \in [Runs -> Phases]
    /\ cmds \in [Runs -> Seq(EntryType)]
    /\ gen \in [Runs -> Nat]
    /\ aborted \in [Runs -> {"no", "interrupt", "user"}]
    /\ snapshot \in [Runs -> Seq(EntryType)]
    /\ controller \in 0..Orphan
    /\ seenActive \in BOOLEAN /\ queueChanged \in BOOLEAN
    /\ transcript \in Seq(Deliveries)
    /\ fate \in [Commands -> Fates]
    /\ cancels \in 0..MaxCancels /\ pops \in 0..MaxPops
    /\ \A r \in Runs : phase[r] = "free" <=> cmds[r] = <<>>

\* The guard is running exactly when one query that has not ended holds its
\* generation, and every other query that goes on was cancelled: its
\* generation is older, so that its end() has no effect (QueryGuard.ts:71-74).
OneOwner ==
    /\ guard.status = "running" <=>
           \E r \in Querying : gen[r] = guard.generation
    /\ \A r \in Querying : gen[r] <= guard.generation
    /\ \A r, s \in Querying : r # s => gen[r] # gen[s]

\* The finally block of a cancelled query never ends the query of a newer turn
StaleEndIsHarmless ==
    [][\A r \in Querying :
          /\ guard.status = "running" /\ gen[r] # guard.generation
          /\ phase'[r] = "free"
          => guard' = guard]_vars

\* As long as the user cancels nothing, at most one run is in flight, the
\* guard is active exactly while it is, and ESC reaches its controller.
UncancelledExclusive ==
    cancels = 0 =>
        /\ \A r, s \in InFlight : r = s
        /\ IsActive(guard) <=> InFlight # {}
        /\ \A r \in InFlight : controller = r

\* A command that was sent is queued, being processed or in the conversation,
\* unless it ended otherwise: no interleaving loses it.  It reaches the
\* conversation once, and by one way only, as long as the user neither cancels
\* a turn nor takes the queue back.
Places(c) ==
    [queued |-> {i \in DOMAIN queue : queue[i].cmd = c},
     running |-> {r \in InFlight \ Querying : c \in CommandsOf(cmds[r])},
     delivered |-> {i \in DOMAIN transcript : transcript[i].entry.cmd = c}]
CommandsKept ==
    \A c \in 1..sent :
        LET queued == Cardinality(Places(c).queued)
            running == Cardinality(Places(c).running)
            delivered == Cardinality(Places(c).delivered)
        IN  /\ fate[c] = "pending" => queued + running + delivered > 0
            /\ cancels = 0 /\ pops = 0 =>
                   queued + running + delivered = IF fate[c] = "pending" THEN 1 ELSE 0

\* A queued command of the main thread does not stay queued for ever
QueueDrains ==
    (\E e \in Entries(queue) : MainThread(e)) ~>
        (\A e \in Entries(queue) : ~MainThread(e))
=============================================================================
