----------------------- MODULE StreamingToolExecutor -----------------------
(***************************************************************************)
(* The executor that runs the tool_use blocks of one model response while  *)
(* the response is still streaming (services/tools/StreamingToolExecutor). *)
(*                                                                         *)
(* The program is single-threaded JavaScript.  What interleaves is the     *)
(* code between two awaits: suspended processQueue loops, the finally      *)
(* callbacks of settled tools, the updates each tool generator delivers,   *)
(* and the query loop that drains results.  Every action below is one such *)
(* uninterrupted piece of code.  A tool does real I/O, so it reports only  *)
(* while the consumer is parked: a consumer that keeps looping through     *)
(* microtasks starves the event loop (Parked below).                       *)
(***************************************************************************)
EXTENDS Naturals, Sequences, FiniteSets

CONSTANTS
    NumTools,   \* how many tool_use blocks the response may carry
    Kinds,      \* the kinds of block the model may emit, see KindType
    Outcomes    \* what a call may report when it ends, a sequence of updates

\* known: a tool of that name exists.  safe: isConcurrencySafe(input).
\* bash: the tool is Bash, whose error cancels its siblings.
\* cancel: interruptBehavior() = 'cancel'.
KindType == [known: BOOLEAN, safe: BOOLEAN, bash: BOOLEAN, cancel: BOOLEAN]

ASSUME NumToolsAssumption == NumTools \in Nat
ASSUME KindsAssumption == Kinds \subseteq KindType

\* "ok" and "err" stand for a message with a tool_result block, "extra" for
\* any other one (attachments of hooks); "synthetic" is the executor's own.
Updates == {"ok", "err", "extra"}
Messages == Updates \cup {"synthetic"}

ASSUME OutcomesAssumption == Outcomes \subseteq Seq(Updates) \ {<<>>}

\* runToolUse reports a tool_result whatever happens (toolExecution.ts:337-490)
HasResult(messages) == \E m \in DOMAIN messages : messages[m] # "extra"
ASSUME AnswersAssumption == \A outcome \in Outcomes : HasResult(outcome)

Tools == 1..NumTools

VARIABLES
    kind,         \* the block the model emits at each position
    added,        \* how many blocks addTool has received
    status,       \* TrackedTool.status, "absent" before addTool
    errored,      \* thisToolErrored of each running tool
    pend,         \* updates a tool has enqueued that collectResults has not read
    results,      \* TrackedTool.results
    progress,     \* tools with unread pendingProgress
    hasErrored,   \* a Bash tool failed
    discarded,    \* discard() was called
    aborted,      \* the query's abort signal: "no", "interrupt" or "user"
    live,         \* tools whose call is still running underneath
    inProgress,   \* inProgressToolUseIDs
    interruptible,\* hasInterruptibleToolInProgress
    context,      \* tools whose context modifiers were applied, in order
    loops,        \* tools k with a processQueue loop suspended right after starting k
    settled,      \* tools whose promise settled and whose finally has not run
    pc,           \* where the query loop is
    at,           \* its position in the loop over this.tools
    emitted       \* tools whose results were handed to the query loop, in order

execVars == <<status, errored, pend, results, live, inProgress, interruptible,
              loops, settled>>
consumerVars == <<pc, at, emitted>>
flagVars == <<hasErrored, discarded, aborted>>
vars == <<kind, added, progress, context, execVars, consumerVars, flagVars>>

Statuses == {"absent", "queued", "executing", "completed", "yielded"}

Executing(st) == {i \in Tools : st[i] = "executing"}
Finished(st, i) == st[i] \in {"completed", "yielded"}

\* Mutant of CanExecute: the tool's own safety is not looked at
CanExecuteBesideSafe(st, i) == \A j \in Executing(st) : kind[j].safe

\* canExecuteTool
CanExecute(st, i) ==
    \/ Executing(st) = {}
    \/ kind[i].safe /\ \A j \in Executing(st) : kind[j].safe

\* Mutant of StartsNext: `continue` instead of `break` at an unsafe tool
StartsNextPastUnsafe(st, p, i) ==
    /\ i >= p /\ st[i] = "queued" /\ CanExecute(st, i)
    /\ \A j \in Tools : p <= j /\ j < i /\ st[j] = "queued" => ~CanExecute(st, j)

\* The tool a processQueue loop entering the list at position p starts next:
\* it passes over a safe tool it may not start, and stops at an unsafe one.
StartsNext(st, p, i) ==
    /\ i >= p /\ st[i] = "queued" /\ CanExecute(st, i)
    /\ \A j \in Tools : p <= j /\ j < i /\ st[j] = "queued" =>
           ~CanExecute(st, j) /\ kind[j].safe

\* Mutant of AbortReason: a failed sibling is not looked at
AbortReasonOfUser(i) ==
    IF discarded THEN "streaming_fallback"
    ELSE IF aborted = "user" \/ (aborted = "interrupt" /\ kind[i].cancel)
         THEN "user_interrupted" ELSE "none"

\* getAbortReason, with "none" for null
AbortReason(i) ==
    IF discarded THEN "streaming_fallback"
    ELSE IF hasErrored THEN "sibling_error"
    ELSE IF aborted = "user" \/ (aborted = "interrupt" /\ kind[i].cancel)
         THEN "user_interrupted" ELSE "none"

\* A call whose next update finds an abort reason is given up, unless it
\* reported an error of its own.  Mutant: whether it did is not looked at.
AbandonsAlways(i) == AbortReason(i) # "none"
Abandons(i) == AbortReason(i) # "none" /\ ~errored[i]

\* updateInterruptibleState
Interruptible(st) ==
    Executing(st) # {} /\ \A i \in Executing(st) : kind[i].cancel

-----------------------------------------------------------------------------
Init ==
    /\ kind \in [Tools -> Kinds]
    /\ added = 0
    /\ status = [i \in Tools |-> "absent"]
    /\ errored = [i \in Tools |-> FALSE]
    /\ pend = [i \in Tools |-> <<>>]
    /\ results = [i \in Tools |-> <<>>]
    /\ progress = {}
    /\ hasErrored = FALSE /\ discarded = FALSE /\ aborted = "no"
    /\ live = {} /\ inProgress = {} /\ interruptible = FALSE
    /\ context = <<>>
    /\ loops = {} /\ settled = {}
    /\ pc = "streaming" /\ at = 0 /\ emitted = <<>>

\* executeTool up to its first await.  A tool whose abort reason is already
\* known gets its synthetic result at once and never runs.
ExecuteTool(st, i) ==
    LET reason == AbortReason(i)
    IN  /\ inProgress' = inProgress \cup {i}
        /\ IF reason = "none"
           THEN /\ status' = [st EXCEPT ![i] = "executing"]
                /\ live' = live \cup {i}
                /\ UNCHANGED results
           ELSE /\ status' = [st EXCEPT ![i] = "completed"]
                /\ results' = [results EXCEPT ![i] = <<"synthetic">>]
                /\ UNCHANGED live
        /\ interruptible' = Interruptible(status')
        /\ UNCHANGED <<errored, pend>>

\* Nothing starts from position p
QueueStalls(st, p) ==
    /\ ~\E i \in Tools : StartsNext(st, p, i)
    /\ status' = st
    /\ UNCHANGED <<errored, pend, results, live, inProgress, interruptible>>

\* A tool that gets its synthetic result at once has settled by then
SettledBy(i) == IF AbortReason(i) = "none" THEN {} ELSE {i}

\* The synchronous part of a fire-and-forget processQueue from position p:
\* start one tool and suspend right after it, or run off the list
RunLoop(st, p, otherLoops, otherSettled) ==
    \/ \E i \in Tools :
          /\ StartsNext(st, p, i)
          /\ ExecuteTool(st, i)
          /\ loops' = otherLoops \cup {i}
          /\ settled' = otherSettled \cup SettledBy(i)
    \/ /\ QueueStalls(st, p)
       /\ loops' = otherLoops /\ settled' = otherSettled

\* Where the query loop stands.  In the parked places it awaits the model
\* stream, its own consumer or Promise.race, so the event loop may turn.
Parked == pc \in {"streaming", "pollHanded", "drainHanded", "waiting", "done"}
Places == {"streaming", "polling", "pollHanded", "remaining", "queue",
           "draining", "drainHanded", "waiting", "done"}

-----------------------------------------------------------------------------
(* The query loop feeds and drains the executor.                           *)

\* addTool for an unknown tool: completed on the spot, no queue run
AddUnknownTool ==
    /\ pc = "streaming" /\ added < NumTools /\ aborted = "no"
    /\ ~kind[added + 1].known
    /\ added' = added + 1
    /\ status' = [status EXCEPT ![added + 1] = "completed"]
    /\ results' = [results EXCEPT ![added + 1] = <<"err">>]
    /\ UNCHANGED <<kind, errored, pend, progress, live, inProgress, interruptible,
                   context, loops, settled, consumerVars, flagVars>>

\* addTool: push and run the queue
AddTool ==
    /\ pc = "streaming" /\ added < NumTools /\ aborted = "no"
    /\ kind[added + 1].known
    /\ added' = added + 1
    /\ RunLoop([status EXCEPT ![added + 1] = "queued"], 1, loops, settled)
    /\ UNCHANGED <<kind, progress, context, consumerVars, flagVars>>

\* query.ts calls getCompletedResults between two stream events
PollResults ==
    /\ pc = "streaming" /\ aborted = "no" /\ ~discarded /\ added > 0
    /\ pc' = "polling" /\ at' = 1
    /\ UNCHANGED <<kind, added, progress, context, execVars, emitted, flagVars>>

\* The stream ended (or was aborted): getRemainingResults
StreamEnds ==
    /\ pc = "streaming" /\ ~discarded
    /\ pc' = "remaining"
    /\ UNCHANGED <<kind, added, progress, context, execVars, at, emitted, flagVars>>

\* Streaming fallback: discard(); nobody reads this executor again
Discard ==
    /\ pc = "streaming"
    /\ discarded' = TRUE
    /\ pc' = "done"
    /\ UNCHANGED <<kind, added, progress, context, execVars, at, emitted,
                   hasErrored, aborted>>

\* hasUnfinishedTools.  Mutant: it asks only whether a tool still runs.
HasExecutingTools == Executing(status) # {}
HasUnfinishedTools == \E i \in 1..added : status[i] # "yielded"

\* The head of the while loop in getRemainingResults: enter processQueue, or
\* do the last getCompletedResults (which finds nothing) and return
RemainingResults ==
    /\ pc = "remaining"
    /\ IF HasUnfinishedTools
       THEN pc' = "queue" /\ at' = 1
       ELSE pc' = "done" /\ at' = 0
    /\ UNCHANGED <<kind, added, progress, context, execVars, emitted, flagVars>>

\* await this.processQueue() inside getRemainingResults
RemainingQueue ==
    /\ pc = "queue"
    /\ \/ \E i \in Tools :
             /\ StartsNext(status, at, i)
             /\ ExecuteTool(status, i)
             /\ settled' = settled \cup SettledBy(i)
             /\ at' = i + 1 /\ pc' = "queue"
       \/ /\ QueueStalls(status, at)
          /\ at' = 1 /\ pc' = "draining"
          /\ UNCHANGED settled
    /\ UNCHANGED <<kind, added, progress, context, loops, emitted, flagVars>>

\* getCompletedResults reaches tool i from position `at`: the tool has
\* progress or a completed result to hand over, nothing before it has, and no
\* unsafe tool that is still executing comes first
Offers(i) == i \in progress \/ status[i] = "completed"
Reaches(i) ==
    /\ i >= at /\ Offers(i)
    /\ \A j \in Tools : at <= j /\ j < i =>
          ~Offers(j) /\ ~(status[j] = "executing" /\ ~kind[j].safe)

Scanning == pc \in {"polling", "draining"}
Hand == IF pc = "polling" THEN "pollHanded" ELSE "drainHanded"

\* Progress is handed over whatever the status, and the scan stays at the tool
YieldProgress(i) ==
    /\ Scanning /\ Reaches(i) /\ i \in progress
    /\ progress' = progress \ {i}
    /\ at' = i /\ pc' = Hand
    /\ UNCHANGED <<kind, added, context, execVars, emitted, flagVars>>

\* The tool is 'yielded' before its messages are handed over
YieldResult(i) ==
    /\ Scanning /\ Reaches(i) /\ i \notin progress
    /\ status' = [status EXCEPT ![i] = "yielded"]
    /\ inProgress' = inProgress \ {i}
    /\ emitted' = Append(emitted, i)
    /\ at' = i + 1 /\ pc' = Hand
    /\ UNCHANGED <<kind, added, progress, context, errored, pend, results, live,
                   interruptible, loops, settled, flagVars>>

\* The query loop took the message and asks for the next one
TakeNext ==
    /\ pc \in {"pollHanded", "drainHanded"}
    /\ pc' = IF pc = "pollHanded" THEN "polling" ELSE "draining"
    /\ UNCHANGED <<kind, added, progress, context, execVars, at, emitted, flagVars>>

\* The scan ends.  While polling, back to the stream; while draining, wait
\* only if something runs and nothing is ready, else loop again.
ScanEnds ==
    /\ Scanning
    /\ ~\E i \in Tools : Reaches(i)
    /\ at' = 0
    /\ pc' = IF pc = "polling" THEN "streaming"
             ELSE IF HasExecutingTools /\ ~\E i \in Tools : Offers(i)
                  THEN "waiting" ELSE "remaining"
    /\ UNCHANGED <<kind, added, progress, context, execVars, emitted, flagVars>>

\* Mutant of Wake: the race is over the progress signal alone
WakeOnProgress ==
    /\ pc = "waiting" /\ progress # {}
    /\ pc' = "remaining"
    /\ UNCHANGED <<kind, added, progress, context, execVars, at, emitted, flagVars>>

\* Promise.race over the executing tools and the progress signal
Wake ==
    /\ pc = "waiting" /\ \E i \in Tools : Offers(i)
    /\ pc' = "remaining"
    /\ UNCHANGED <<kind, added, progress, context, execVars, at, emitted, flagVars>>

-----------------------------------------------------------------------------
(* The tools run underneath.                                               *)

\* Mutant of Complete: updateInterruptibleState is left out
CompleteSilently(i, messages) ==
    /\ results' = [results EXCEPT ![i] = messages]
    /\ pend' = [pend EXCEPT ![i] = <<>>]
    /\ status' = [status EXCEPT ![i] = "completed"]
    /\ settled' = settled \cup {i}
    /\ context' = IF ~kind[i].safe /\ \E m \in DOMAIN messages : messages[m] = "ok"
                  THEN Append(context, i) ELSE context
    /\ UNCHANGED interruptible

\* collectResults leaves its loop: results are stored, the tool completes and
\* an unsafe tool's context modifier is applied
Complete(i, messages) ==
    /\ results' = [results EXCEPT ![i] = messages]
    /\ pend' = [pend EXCEPT ![i] = <<>>]
    /\ status' = [status EXCEPT ![i] = "completed"]
    /\ interruptible' = Interruptible(status')
    /\ settled' = settled \cup {i}
    /\ context' = IF ~kind[i].safe /\ \E m \in DOMAIN messages : messages[m] = "ok"
                  THEN Append(context, i) ELSE context

\* The call reports progress.  collectResults reads it at once: a tool that
\* has an abort reason by now is abandoned, and its call runs on underneath.
ToolProgress(i) ==
    /\ Parked
    /\ status[i] = "executing" /\ i \in live
    /\ IF Abandons(i)
       THEN /\ Complete(i, Append(results[i], "synthetic"))
            /\ UNCHANGED progress
       ELSE /\ progress' = progress \cup {i}
            /\ UNCHANGED <<results, pend, status, interruptible, settled, context>>
    /\ UNCHANGED <<kind, added, errored, live, inProgress, loops, consumerVars,
                   flagVars>>

\* The call ends and enqueues everything it has to report.  A call that fails
\* its validation ends in microtasks, so this does not wait for Parked.
ToolEnds(i) ==
    /\ i \in live
    /\ live' = live \ {i}
    /\ \/ /\ status[i] = "executing"
          /\ \E outcome \in Outcomes : pend' = [pend EXCEPT ![i] = outcome]
       \/ /\ status[i] # "executing"
          /\ UNCHANGED pend
    /\ UNCHANGED <<kind, added, progress, context, status, errored, results,
                   inProgress, interruptible, loops, settled, consumerVars, flagVars>>

\* One turn of the for-await in collectResults on the next enqueued update.
\* The abort of the siblings (siblingAbortController) ends their calls, which
\* ToolEnds may do at any time; it does not bubble up to the query.
HandleUpdate(i) ==
    /\ status[i] = "executing" /\ pend[i] # <<>>
    /\ IF Abandons(i)
       THEN /\ Complete(i, Append(results[i], "synthetic"))
            /\ UNCHANGED <<errored, hasErrored>>
       ELSE LET update == Head(pend[i])
            IN  /\ errored' = [errored EXCEPT ![i] = @ \/ update = "err"]
                /\ hasErrored' = (hasErrored \/ (update = "err" /\ kind[i].bash))
                /\ IF Tail(pend[i]) = <<>>
                   THEN Complete(i, Append(results[i], update))
                   ELSE /\ results' = [results EXCEPT ![i] = Append(@, update)]
                        /\ pend' = [pend EXCEPT ![i] = Tail(@)]
                        /\ UNCHANGED <<status, interruptible, settled, context>>
    /\ UNCHANGED <<kind, added, progress, live, inProgress, loops, consumerVars,
                   discarded, aborted>>

\* promise.finally: a fresh processQueue
Finally(i) ==
    /\ i \in settled
    /\ RunLoop(status, 1, loops, settled \ {i})
    /\ UNCHANGED <<kind, added, progress, context, consumerVars, flagVars>>

\* A processQueue loop resumes after the await behind which it started i
ResumeLoop(i) ==
    /\ i \in loops
    /\ RunLoop(status, i + 1, loops \ {i}, settled)
    /\ UNCHANGED <<kind, added, progress, context, consumerVars, flagVars>>

\* The user rejects the permission dialog of a running call, which aborts the
\* call's own controller (cancelAndAbort).  Its listener aborts the query too,
\* unless the executor was discarded; after a Bash error the controller is
\* aborted already and no listener runs.
RejectPermission(i) ==
    /\ Parked /\ i \in live /\ pc # "done" /\ ~hasErrored /\ ~discarded
    /\ aborted = "no"
    /\ aborted' = "user"
    /\ UNCHANGED <<kind, added, progress, context, execVars, consumerVars,
                   hasErrored, discarded>>

\* The user cancels the query (ESC)
UserAborts ==
    /\ Parked /\ aborted = "no" /\ pc # "done"
    /\ aborted' = "user"
    /\ UNCHANGED <<kind, added, progress, context, execVars, consumerVars,
                   hasErrored, discarded>>

\* The user submits a new prompt: handlePromptSubmit aborts with 'interrupt',
\* and only while every executing tool is interruptible
SubmitInterrupts ==
    /\ Parked /\ aborted = "no" /\ pc # "done" /\ interruptible
    /\ aborted' = "interrupt"
    /\ UNCHANGED <<kind, added, progress, context, execVars, consumerVars,
                   hasErrored, discarded>>

Consumer ==
    \/ RemainingResults \/ RemainingQueue \/ TakeNext \/ ScanEnds \/ Wake
    \/ \E i \in Tools : YieldProgress(i) \/ YieldResult(i)
Stream == AddUnknownTool \/ AddTool \/ PollResults \/ StreamEnds \/ Discard
Runtime(i) == HandleUpdate(i) \/ Finally(i) \/ ResumeLoop(i)
Next ==
    \/ Consumer \/ Stream \/ UserAborts \/ SubmitInterrupts
    \/ \E i \in Tools : Runtime(i) \/ ToolEnds(i) \/ ToolProgress(i)
                       \/ RejectPermission(i)

Spec == Init /\ [][Next]_vars

\* Microtasks always run, the query loop keeps asking, the stream ends, and
\* every call ends whenever the event loop turns.
Fairness ==
    /\ WF_vars(Consumer)
    /\ WF_vars(StreamEnds)
    /\ \A i \in Tools : WF_vars(Runtime(i)) /\ SF_vars(Parked /\ ToolEnds(i))
FairSpec == Spec /\ Fairness

-----------------------------------------------------------------------------
\* The variables stay in their ranges, and the table of tools is filled in the
\* order in which addTool received them.
TypeOK ==
    /\ kind \in [Tools -> KindType]
    /\ added \in 0..NumTools
    /\ status \in [Tools -> Statuses]
    /\ errored \in [Tools -> BOOLEAN]
    /\ pend \in [Tools -> Seq(Updates)]
    /\ results \in [Tools -> Seq(Messages)]
    /\ progress \subseteq Tools
    /\ hasErrored \in BOOLEAN /\ discarded \in BOOLEAN
    /\ aborted \in {"no", "interrupt", "user"}
    /\ live \subseteq Tools /\ inProgress \subseteq Tools
    /\ interruptible \in BOOLEAN
    /\ context \in Seq(Tools) /\ emitted \in Seq(Tools)
    /\ loops \subseteq Tools /\ settled \subseteq Tools
    /\ pc \in Places /\ at \in 0..(NumTools + 1)
    /\ \A i \in Tools : status[i] = "absent" <=> i > added

\* A tool that is not concurrency-safe never runs together with another one
\* (StreamingToolExecutor.ts:37), however the queue loops interleave.
ExclusiveAccess ==
    \A i, j \in Executing(status) : i # j => kind[i].safe /\ kind[j].safe

\* Tools leave the queue in the order they were received, although a loop
\* passes over a safe tool that it may not start.
StartedInOrder ==
    \A i, j \in Tools :
        i < j /\ kind[j].known /\ status[j] \notin {"absent", "queued"}
            => status[i] # "queued"

\* The context modifiers of unsafe tools are applied in the order of the tools
ContextInOrder ==
    \A m, n \in DOMAIN context : m < n => context[m] < context[n]

\* An unsafe tool starts after everything before it finished, and finishes
\* before anything after it starts, and the context modifiers follow suit: the
\* effects of unsafe tools are those of the serial execution.
SerialEffects ==
    /\ \A i, j \in Tools :
        /\ i < j /\ kind[j].known /\ status[j] \notin {"absent", "queued"}
        /\ ~kind[i].safe \/ ~kind[j].safe
        => Finished(status, i)
    /\ ContextInOrder

\* No queue loop leaves a queued tool behind: everything up to the place where
\* a loop is suspended has started, for the fire-and-forget loops and for the
\* one getRemainingResults awaits.  A stale position would lose a tool.
NothingPassedOver ==
    /\ \A k \in loops : \A j \in Tools :
          j <= k => status[j] \notin {"absent", "queued"}
    /\ pc = "queue" => \A j \in Tools : j < at => status[j] # "queued"

\* A tool that reported its own error gets no synthetic result on top of it
\* (StreamingToolExecutor.ts:327), even when it is the Bash tool that set
\* hasErrored and more of its updates are read afterwards.
OneErrorPerTool ==
    \A i \in Tools : \A m, n \in DOMAIN results[i] :
        m < n => ~(results[i][m] = "err" /\ results[i][n] = "synthetic")

\* When the query loop is done with an executor it did not discard, every
\* tool_use it added has been answered with a tool_result, exactly one
\* emission each, no progress was lost, and no tool is left marked in progress.
EveryToolAnswered ==
    pc = "done" /\ ~discarded =>
        /\ Len(emitted) = added
        /\ \A i \in 1..added :
              /\ \E m \in DOMAIN emitted : emitted[m] = i
              /\ HasResult(results[i])
        /\ inProgress = {} /\ progress = {}

\* The flag by which a submitted prompt decides to interrupt is never stale
InterruptibleIsCurrent == interruptible = Interruptible(status)

\* Once a Bash tool failed, the user aborted or the executor was discarded, no
\* call starts any more: queued tools only get synthetic results.
NothingStartsOnceCancelled ==
    [][hasErrored \/ discarded \/ aborted = "user" => live' \subseteq live]_vars

\* The query loop gets through getRemainingResults, whatever fails or is
\* cancelled on the way.  A block of an unknown tool behind an unsafe tool is
\* left out: there DrainEnds does not hold.
UnknownBehindUnsafe == \E i, j \in 1..added : i < j /\ ~kind[i].safe /\ ~kind[j].known
RemainingResultsEnd ==
    pc = "remaining" ~> pc = "done" \/ UnknownBehindUnsafe

\* "Wait for remaining tools and yield their results as they complete"
\* (StreamingToolExecutor.ts:450), for any blocks
DrainEnds == pc = "remaining" ~> pc = "done"
=============================================================================
