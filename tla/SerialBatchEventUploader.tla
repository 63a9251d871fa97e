---------------------- MODULE SerialBatchEventUploader ----------------------
(***************************************************************************)
(* The uploader behind the bridge's transports (cli/transports/            *)
(* SerialBatchEventUploader.ts): a buffer with backpressure, one POST in   *)
(* flight, batches, retries with a pause, flush and close.                 *)
(*                                                                         *)
(* An event is the number of its acceptance.  An action is the code from   *)
(* one suspension to the next; `await send` and the pause of a retry are   *)
(* the only ones that wait for the outside.  An enqueue() that was woken   *)
(* goes on in a microtask: before any timer or answer of the network, but  *)
(* possibly after other code that calls the uploader.                      *)
(***************************************************************************)
EXTENDS Naturals, FiniteSets, SequencesExt

CONSTANTS
    NumCalls,    \* how many enqueue() calls are made
    MaxItems,    \* how many events one of them passes at most
    MaxEvents,   \* how many events all of them pass at most
    NumFlushes,  \* how many flush() calls are made
    MaxBatch,    \* maxBatchSize
    MaxQueue,    \* maxQueueSize
    MaxFailures, \* maxConsecutiveFailures; 0 when it is undefined
    ByteLimit,   \* whether maxBatchBytes is set
    MaxBad,      \* how many events cannot be serialized
    MayClose     \* whether close() is called

ASSUME SizesAssumption ==
    /\ NumCalls \in Nat /\ MaxEvents \in Nat /\ NumFlushes \in Nat /\ MaxBad \in Nat
    /\ MaxBatch \in Nat \ {0} /\ MaxQueue \in Nat \ {0}
    /\ MaxFailures \in Nat
\* A call with more events than the buffer holds waits for ever: the users of
\* the uploader size maxQueueSize accordingly (HybridTransport.ts:80-85)
ASSUME MaxItemsAssumption == MaxItems \in 1..MaxQueue
ASSUME FlagsAssumption == ByteLimit \in BOOLEAN /\ MayClose \in BOOLEAN

Flushes == 1..NumFlushes
Sizes == 1..MaxItems

VARIABLES
    calls,      \* the enqueue() calls in the order they were made
    blocked,    \* backpressureResolvers, by call
    woken,      \* the calls whose promise was resolved
    origin,     \* the call that passed an event
    bad,        \* the events that jsonStringify throws on
    pending,    \* the buffer
    batch,      \* the batch of the POST in flight
    phase,      \* the drain loop: "off", "sending" or "sleeping"
    failures,   \* its consecutive failures, 0 where nothing reads them
    closed,
    flush,      \* the flush() calls
    dropped,    \* droppedBatches
    sent,       \* the events whose POST succeeded, in that order
    lost,       \* the events the uploader gave up
    received    \* the events in the order the server first saw them

callVars == <<calls, blocked, woken>>
loopVars == <<pending, batch, phase, failures>>
settled == <<sent, lost, received, dropped>>
vars == <<callVars, origin, bad, loopVars, closed, flush, settled>>

Events == 1..Len(origin)
Call(n, s) == [size |-> n, state |-> s]
NewFlush == [state |-> "none", due |-> {}, before |-> 0, after |-> 0]

Init ==
    /\ calls = <<>> /\ blocked = <<>> /\ woken = <<>>
    /\ origin = <<>> /\ bad = {}
    /\ pending = <<>> /\ batch = <<>> /\ phase = "off" /\ failures = 0
    /\ closed = FALSE /\ flush = [f \in Flushes |-> NewFlush]
    /\ sent = <<>> /\ lost = {} /\ received = <<>> /\ dropped = 0

-----------------------------------------------------------------------------
(* The drain loop                                                          *)

\* What q holds at the places P, in the order of q: there is one way to number
\* P upwards, so this set has one element
Picked(q, P) ==
    {[i \in 1..Cardinality(P) |-> q[at[i]]] : at \in
        {a \in [1..Cardinality(P) -> P] :
            /\ \A i, j \in 1..Cardinality(P) : i < j => a[i] < a[j]
            /\ \A p \in P : \E i \in 1..Cardinality(P) : a[i] = p}}

\* The places of the first n events of q that can be serialized, or all of them
\* where nothing is serialized to measure it.  (bad': an event may have been
\* pushed in this very step.)
Sendable(q, n) == {i \in 1..n : ~ByteLimit \/ q[i] \notin bad'}
Skipped(q, n) == {q[i] : i \in (1..n) \ Sendable(q, n)}

\* How many events takeBatch may remove from the front of q: up to a full
\* batch, or to the event that would exceed maxBatchBytes
TakeBatch(q) ==
    {n \in 1..Len(q) :
        LET batchSize == Cardinality(Sendable(q, n)) IN
        /\ batchSize <= MaxBatch
        /\ batchSize = MaxBatch => n \in Sendable(q, n)
        /\ batchSize < MaxBatch /\ n < Len(q) =>
            ByteLimit /\ batchSize > 0 /\ q[n + 1] \notin bad'}

\* flush() promises are resolved: by the end of the loop, or by close()
ResolveFlushes ==
    flush' = [f \in Flushes |->
        IF flush[f].state # "waiting" THEN flush[f]
        ELSE [flush[f] EXCEPT
                !.state = IF closed' THEN "released" ELSE "done",
                !.after = dropped']]

\* The finally block of drain, with q left in the buffer
DrainEnds(q) ==
    /\ pending' = q /\ batch' = <<>> /\ phase' = "off" /\ failures' = 0
    /\ IF q = <<>> THEN ResolveFlushes ELSE UNCHANGED flush

\* The head of the loop with q in the buffer: send the next batch or end.
\* `gone` are the events the iteration before gave up.
DrainLoop(q, count, gone) ==
    \/ /\ closed \/ q = <<>>
       /\ DrainEnds(q)
       /\ lost' = lost \cup gone
    \/ /\ ~closed
       /\ \E n \in TakeBatch(q) :
            /\ lost' = lost \cup gone \cup Skipped(q, n)
            /\ \E taken \in Picked(q, Sendable(q, n)) :
                LET rest == SubSeq(q, n + 1, Len(q)) IN
                IF taken = <<>> THEN DrainEnds(rest)
                ELSE /\ pending' = rest /\ batch' = taken
                     /\ phase' = "sending" /\ failures' = count
                     /\ UNCHANGED flush

ReleaseBackpressure == blocked' = <<>> /\ woken' = woken \o blocked

\* The server sees the batch; events it has seen before it knows by their uuid
Receives ==
    \E new \in Picked(batch, {i \in DOMAIN batch : batch[i] \notin Range(received)}) :
        received' = received \o new

\* Mutant of SendSucceeds: callers that wait for space are forgotten
SendSucceedsSilently ==
    /\ phase = "sending" /\ woken = <<>> /\ Range(batch) \cap bad = {}
    /\ sent' = sent \o batch
    /\ Receives
    /\ UNCHANGED <<calls, blocked, woken, origin, bad, closed, dropped>>
    /\ DrainLoop(pending, 0, {})

\* send() resolves
SendSucceeds ==
    /\ phase = "sending" /\ woken = <<>> /\ Range(batch) \cap bad = {}
    /\ sent' = sent \o batch
    /\ Receives
    /\ ReleaseBackpressure
    /\ UNCHANGED <<calls, origin, bad, closed, dropped>>
    /\ DrainLoop(pending, 0, {})

SendFailed ==
    /\ phase = "sending" /\ woken = <<>>
    /\ \/ Receives /\ Range(batch) \cap bad = {}  \* only the answer was lost
       \/ UNCHANGED received
    /\ UNCHANGED <<calls, origin, bad, closed, sent>>

Exhausted == MaxFailures > 0 /\ failures + 1 >= MaxFailures

\* Mutant of Requeue: the failed batch goes to the end of the buffer
RequeueBehind == pending' = pending \o batch
\* The failed batch goes back to the front of the buffer
Requeue == pending' = batch \o pending

\* Mutant of SendFails: the failed batch is not put back
SendFailsForgets ==
    /\ SendFailed /\ ~Exhausted
    /\ batch' = <<>> /\ phase' = "sleeping"
    /\ failures' = IF MaxFailures = 0 THEN 0 ELSE failures + 1
    /\ UNCHANGED <<pending, blocked, woken, flush, dropped, lost>>

\* send() rejects: pause before the batch is sent again
SendFails ==
    /\ SendFailed /\ ~Exhausted
    /\ Requeue
    /\ batch' = <<>> /\ phase' = "sleeping"
    /\ failures' = IF MaxFailures = 0 THEN 0 ELSE failures + 1
    /\ UNCHANGED <<blocked, woken, flush, dropped, lost>>

\* Mutant of BatchDropped: the counter of dropped batches is not increased
BatchDroppedSilently ==
    /\ SendFailed /\ Exhausted
    /\ UNCHANGED dropped
    /\ ReleaseBackpressure
    /\ DrainLoop(pending, 0, Range(batch))

\* send() rejects once too often: the batch is given up
BatchDropped ==
    /\ SendFailed /\ Exhausted
    /\ dropped' = dropped + 1
    /\ ReleaseBackpressure
    /\ DrainLoop(pending, 0, Range(batch))

\* The pause ends by its timer, or because close() resolved it
SleepEnds ==
    /\ phase = "sleeping" /\ woken = <<>>
    /\ UNCHANGED <<callVars, origin, bad, closed, sent, received, dropped>>
    /\ DrainLoop(pending, failures, {})

-----------------------------------------------------------------------------
(* The callers                                                             *)

\* Mutant of Fits: the events of the call itself are not counted
FitsIfNotFull(n) == Len(pending) < MaxQueue
Fits(n) == Len(pending) + n <= MaxQueue

\* The end of enqueue: push n events of call k and start the loop if it is off
Push(k, n) ==
    /\ origin' = origin \o [i \in 1..n |-> k]
    /\ \E B \in SUBSET {Len(origin) + i : i \in 1..n} :
        /\ Cardinality(bad \cup B) <= MaxBad
        /\ bad' = bad \cup B
    /\ UNCHANGED <<closed, sent, received, dropped>>
    /\ LET q == pending \o [i \in 1..n |-> Len(origin) + i] IN
       IF phase = "off"
       THEN DrainLoop(q, 0, {})
       ELSE pending' = q /\ UNCHANGED <<batch, phase, failures, flush, lost>>

Refused == UNCHANGED <<origin, bad, loopVars, closed, flush, settled>>

\* The events of all calls so far
Passed == FoldSeq(LAMBDA c, passed : c.size + passed, 0, calls)

Enqueue ==
    \E n \in Sizes :
        LET k == Len(calls) + 1 IN
        /\ k <= NumCalls
        /\ Passed + n <= MaxEvents
        /\ UNCHANGED woken
        /\ \/ /\ closed
              /\ calls' = Append(calls, Call(n, "refused"))
              /\ UNCHANGED blocked /\ Refused
           \/ /\ ~closed /\ Fits(n)
              /\ calls' = Append(calls, Call(n, "accepted"))
              /\ UNCHANGED blocked /\ Push(k, n)
           \/ /\ ~closed /\ ~Fits(n)
              /\ calls' = Append(calls, Call(n, "blocked"))
              /\ blocked' = Append(blocked, k) /\ Refused

\* A woken call checks again, in the order in which the calls were woken
Retry ==
    /\ woken # <<>>
    /\ woken' = Tail(woken)
    /\ LET k == Head(woken)  n == calls[k].size IN
       \/ /\ closed
          /\ calls' = [calls EXCEPT ![k].state = "refused"]
          /\ UNCHANGED blocked /\ Refused
       \/ /\ ~closed /\ Fits(n)
          /\ calls' = [calls EXCEPT ![k].state = "accepted"]
          /\ UNCHANGED blocked /\ Push(k, n)
       \/ /\ ~closed /\ ~Fits(n)
          /\ blocked' = Append(blocked, k)
          /\ UNCHANGED calls /\ Refused

FlushNow == pending = <<>> /\ phase = "off"

\* flush() up to its promise.  The drain() it calls has nothing to start
\* unless closed, see TypeOK.
Flush ==
    \E f \in Flushes :
        /\ flush[f].state = "none" /\ \A g \in Flushes : g < f => flush[g].state # "none"
        /\ flush' = [flush EXCEPT ![f] =
            [state |-> IF ~FlushNow THEN "waiting" ELSE IF closed THEN "released" ELSE "done",
             due |-> Range(batch \o pending), before |-> dropped, after |-> dropped]]
        /\ UNCHANGED <<callVars, origin, bad, loopVars, closed, settled>>

\* close() empties the buffer; a POST in flight is not recalled
Close ==
    /\ MayClose /\ ~closed /\ closed' = TRUE
    /\ pending' = <<>> /\ lost' = lost \cup Range(pending)
    /\ ReleaseBackpressure
    /\ UNCHANGED <<calls, origin, bad, batch, phase, failures, sent, received, dropped>>
    /\ ResolveFlushes

Next ==
    \/ Enqueue \/ Retry \/ Flush \/ Close
    \/ SendSucceeds \/ SendFails \/ BatchDropped \/ SleepEnds

Spec == Init /\ [][Next]_vars

\* The microtasks and the timer of the pause run; a POST that is repeated for
\* as long as it fails succeeds in the end, or fails often enough
FairSpec ==
    /\ Spec
    /\ WF_vars(Retry) /\ WF_vars(SleepEnds)
    /\ WF_vars(SendSucceeds \/ SendFails \/ BatchDropped)
    /\ SF_vars(SendSucceeds)

-----------------------------------------------------------------------------
(* Properties                                                              *)

\* The variables stay in their ranges: a batch is in flight exactly while the
\* loop sends and is no larger than maxBatchSize, every call that is blocked
\* waits for space or is on its way, and the loop is at work as long as an event
\* or a call waits: nobody waits for a wake-up that nothing will cause.
TypeOK ==
    /\ calls \in Seq([size : Sizes, state : {"blocked", "accepted", "refused"}])
    /\ Len(calls) <= NumCalls
    /\ {blocked, woken, origin} \subseteq Seq(DOMAIN calls)
    /\ Range(blocked \o woken) = {k \in DOMAIN calls : calls[k].state = "blocked"}
    /\ {pending, batch, sent, received} \subseteq Seq(Events)
    /\ bad \subseteq Events /\ lost \subseteq Events
    /\ phase \in {"off", "sending", "sleeping"}
    /\ batch # <<>> <=> phase = "sending"
    /\ Len(batch) <= MaxBatch
    /\ phase = "off" /\ ~closed => pending = <<>> /\ blocked = <<>>
    /\ failures \in 0..MaxFailures /\ dropped \in Nat /\ closed \in BOOLEAN
    /\ flush \in [Flushes -> [state : {"none", "waiting", "done", "released"},
                              due : SUBSET Events, before : Nat, after : Nat]]

InOrder(q) == \A i, j \in DOMAIN q : i < j => q[i] < q[j]

\* Through batches, retries, dropped batches and close(), an accepted event is
\* in exactly one place: sent, in flight, in the buffer, or given up; and what
\* is not given up is sent in the order of acceptance.  Although a POST is
\* repeated whose answer was lost, and a repeated batch may be cut differently,
\* the server sees the events in that order too ("serial ordered", line 4).
EventsKept ==
    LET kept == sent \o batch \o pending
    IN  Range(kept) = Events \ lost /\ InOrder(kept) /\ InOrder(received)

\* flush() resolves when all that was pending at its call is sent or given up
\* (lines 122-124), and a caller that finds droppedBatchCount unchanged knows
\* that no batch was dropped in between (lines 80-82, replBridge.ts:1281-1294).
FlushMeansSent ==
    \A f \in Flushes : flush[f].state = "done" =>
        /\ flush[f].due \subseteq Range(sent) \cup lost
        /\ flush[f].before = flush[f].after => flush[f].due \subseteq Range(sent) \cup bad

\* The memory held is bounded: the buffer by maxQueueSize, and by one batch
\* more when a failed POST put its batch back.
QueueBounded == Len(pending) + Len(batch) <= MaxQueue + MaxBatch

\* The uploader is an outbox: each step accepts, delivers in order, gives up
\* or does nothing an observer sees, and every event is settled in the end; an
\* open one gives up what cannot be serialized, and counts all else it drops.
\* What a failed POST puts back into the buffer of a closed uploader is lost.
Outbox == INSTANCE EventOutbox WITH
    accepted  <- Len(origin),
    delivered <- sent,
    lost      <- lost \cup (IF closed THEN Range(pending) ELSE {}),
    unfit     <- bad,
    losses    <- dropped,
    shut      <- closed
OutboxSpec == Outbox!OutboxSpec

\* Every flush() and every blocked enqueue() returns, or close() has been called,
\* as long as POSTs that are repeated succeed in the end.
CallersReturn ==
    /\ \A f \in Flushes :
        flush[f].state = "waiting" ~> flush[f].state = "done" \/ closed
    /\ \A k \in 1..NumCalls :
        k \in DOMAIN calls ~>
            closed \/ (k \in DOMAIN calls /\ calls[k].state = "accepted")
=============================================================================
