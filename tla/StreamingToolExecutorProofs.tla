-------------------- MODULE StreamingToolExecutorProofs --------------------
(* Proofs about StreamingToolExecutor, for every number of blocks, every    *)
(* mix of kinds and every set of outcomes.                                  *)
EXTENDS StreamingToolExecutor, FiniteSetTheorems, TLAPS

-----------------------------------------------------------------------------
(* Type correctness                                                         *)

\* Starting a tool (executeTool up to its first await) changes only its own row
\* of the status table, and leaves every variable it writes in its type.
LEMMA ExecuteToolType ==
    ASSUME TypeOK, NEW st \in [Tools -> Statuses], NEW i \in Tools,
           ExecuteTool(st, i)
    PROVE  /\ status' \in [Tools -> Statuses]
           /\ \A j \in Tools \ {i} : status'[j] = st[j]
           /\ status'[i] \in {"executing", "completed"}
           /\ results' \in [Tools -> Seq(Messages)]
           /\ errored' = errored /\ pend' = pend
           /\ live' \subseteq Tools /\ inProgress' \subseteq Tools
           /\ interruptible' \in BOOLEAN
<1>1. <<"synthetic">> \in Seq(Messages)
  BY DEF Messages
<1> QED
  BY <1>1 DEF TypeOK, ExecuteTool, Statuses, Interruptible

\* So does the synchronous part of a processQueue loop, which adds no tool
LEMMA RunLoopType ==
    ASSUME TypeOK, NEW st \in [Tools -> Statuses], NEW p,
           NEW otherLoops \in SUBSET Tools, NEW otherSettled \in SUBSET Tools,
           RunLoop(st, p, otherLoops, otherSettled)
    PROVE  /\ status' \in [Tools -> Statuses]
           /\ \A j \in Tools : status'[j] = "absent" <=> st[j] = "absent"
           /\ results' \in [Tools -> Seq(Messages)]
           /\ errored' = errored /\ pend' = pend
           /\ live' \subseteq Tools /\ inProgress' \subseteq Tools
           /\ interruptible' \in BOOLEAN
           /\ loops' \subseteq Tools /\ settled' \subseteq Tools
<1>1. CASE \E i \in Tools :
              /\ StartsNext(st, p, i) /\ ExecuteTool(st, i)
              /\ loops' = otherLoops \cup {i}
              /\ settled' = otherSettled \cup SettledBy(i)
  <2>1. PICK i \in Tools :
              /\ StartsNext(st, p, i) /\ ExecuteTool(st, i)
              /\ loops' = otherLoops \cup {i}
              /\ settled' = otherSettled \cup SettledBy(i)
    BY <1>1
  <2>2. st[i] = "queued"
    BY <2>1 DEF StartsNext
  <2>3. SettledBy(i) \subseteq Tools
    BY DEF SettledBy
  <2> QED
    BY <2>1, <2>2, <2>3, ExecuteToolType
<1>2. CASE QueueStalls(st, p) /\ loops' = otherLoops /\ settled' = otherSettled
  BY <1>2 DEF QueueStalls, TypeOK
<1> QED
  BY <1>1, <1>2 DEF RunLoop

\* So does the end of collectResults
LEMMA CompleteType ==
    ASSUME TypeOK, NEW i \in Tools, status[i] = "executing",
           NEW messages \in Seq(Messages), Complete(i, messages)
    PROVE  /\ status' \in [Tools -> Statuses]
           /\ \A j \in Tools : status'[j] = "absent" <=> status[j] = "absent"
           /\ results' \in [Tools -> Seq(Messages)]
           /\ pend' \in [Tools -> Seq(Updates)]
           /\ interruptible' \in BOOLEAN
           /\ settled' \subseteq Tools
           /\ context' \in Seq(Tools)
<1>1. <<>> \in Seq(Updates)
  OBVIOUS
<1>2. context' \in Seq(Tools)
  BY DEF TypeOK, Complete
<1> QED
  BY <1>1, <1>2 DEF TypeOK, Complete, Statuses, Interruptible

\* The executor as it is constructed has its type
LEMMA TypeInit == Init => TypeOK
<1> SUFFICES ASSUME Init PROVE TypeOK
  OBVIOUS
<1>1. kind \in [Tools -> KindType]
  BY KindsAssumption DEF Init
<1>2. <<>> \in Seq(Updates) /\ <<>> \in Seq(Messages) /\ <<>> \in Seq(Tools)
  OBVIOUS
<1>3. \A i \in Tools : status[i] = "absent" /\ i > added
  BY NumToolsAssumption DEF Init, Tools
<1>4. status \in [Tools -> Statuses] /\ added \in 0..NumTools
      /\ at \in 0..(NumTools + 1) /\ pc \in Places
  BY NumToolsAssumption DEF Init, Statuses, Places
<1>5. errored \in [Tools -> BOOLEAN] /\ pend \in [Tools -> Seq(Updates)]
      /\ results \in [Tools -> Seq(Messages)]
  BY <1>2 DEF Init
<1> QED
  BY <1>1, <1>2, <1>3, <1>4, <1>5 DEF Init, TypeOK

\* Every step of the executor, its tools and the query loop keeps the type
LEMMA TypeNext == TypeOK /\ [Next]_vars => TypeOK'
<1> SUFFICES ASSUME TypeOK, [Next]_vars PROVE TypeOK'
  OBVIOUS
<1> USE NumToolsAssumption
<1>1. CASE AddUnknownTool
  <2>1. <<"err">> \in Seq(Messages)
    BY DEF Messages, Updates
  <2>2. added + 1 \in Tools /\ added' \in 0..NumTools
    BY <1>1 DEF AddUnknownTool, TypeOK, Tools
  <2>3. status' = [status EXCEPT ![added + 1] = "completed"]
    BY <1>1 DEF AddUnknownTool
  <2>4. \A i \in Tools : status'[i] = "absent" <=> i > added'
    BY <1>1, <2>2, <2>3 DEF AddUnknownTool, TypeOK, Tools
  <2> QED
    BY <1>1, <2>1, <2>2, <2>3, <2>4
       DEF AddUnknownTool, TypeOK, Statuses, consumerVars, flagVars
<1>2. CASE AddTool
  <2> DEFINE st == [status EXCEPT ![added + 1] = "queued"]
  <2>1. added + 1 \in Tools /\ added' = added + 1 /\ added' \in 0..NumTools
    BY <1>2 DEF AddTool, TypeOK, Tools
  <2>2. st \in [Tools -> Statuses]
    BY <2>1 DEF TypeOK, Statuses
  <2>3. \A j \in Tools : st[j] = "absent" <=> j > added'
    BY <2>1 DEF TypeOK, Tools
  <2>4. RunLoop(st, 1, loops, settled)
    BY <1>2 DEF AddTool
  <2> HIDE DEF st
  <2>5. /\ status' \in [Tools -> Statuses]
        /\ \A j \in Tools : status'[j] = "absent" <=> st[j] = "absent"
        /\ results' \in [Tools -> Seq(Messages)]
        /\ errored' = errored /\ pend' = pend
        /\ live' \subseteq Tools /\ inProgress' \subseteq Tools
        /\ interruptible' \in BOOLEAN
        /\ loops' \subseteq Tools /\ settled' \subseteq Tools
    BY <2>2, <2>4, RunLoopType DEF TypeOK
  <2> QED
    BY <1>2, <2>1, <2>3, <2>5 DEF AddTool, TypeOK, consumerVars, flagVars
<1>3. CASE PollResults \/ StreamEnds \/ Discard \/ RemainingResults
           \/ TakeNext \/ ScanEnds \/ Wake
  <2>1. CASE PollResults
    BY <1>3, <2>1 DEF PollResults, TypeOK, execVars, flagVars, Places
  <2>2. CASE StreamEnds \/ TakeNext \/ Wake
    BY <2>2 DEF StreamEnds, TakeNext, Wake, TypeOK, execVars, flagVars, Places
  <2>3. CASE Discard
    BY <2>3 DEF Discard, TypeOK, execVars, Places
  <2>4. CASE RemainingResults
    BY <2>4 DEF RemainingResults, TypeOK, execVars, flagVars, Places
  <2>5. CASE ScanEnds
    BY <2>5 DEF ScanEnds, TypeOK, execVars, flagVars, Places
  <2> QED
    BY <1>3, <2>1, <2>2, <2>3, <2>4, <2>5
<1>4. CASE RemainingQueue
  <2>1. CASE \E i \in Tools :
               /\ StartsNext(status, at, i)
               /\ ExecuteTool(status, i)
               /\ settled' = settled \cup SettledBy(i)
               /\ at' = i + 1 /\ pc' = "queue"
    <3>1. PICK i \in Tools :
               /\ StartsNext(status, at, i)
               /\ ExecuteTool(status, i)
               /\ settled' = settled \cup SettledBy(i)
               /\ at' = i + 1 /\ pc' = "queue"
      BY <2>1
    <3>2. status[i] = "queued" /\ SettledBy(i) \subseteq Tools
      BY <3>1 DEF StartsNext, SettledBy
    <3>3. at' \in 0..(NumTools + 1)
      BY <3>1 DEF Tools
    <3>4. status \in [Tools -> Statuses]
      BY DEF TypeOK
    <3> QED
      BY <1>4, <3>1, <3>2, <3>3, <3>4, ExecuteToolType
         DEF RemainingQueue, TypeOK, flagVars, Places
  <2>2. CASE QueueStalls(status, at) /\ at' = 1 /\ pc' = "draining"
             /\ UNCHANGED settled
    BY <1>4, <2>2 DEF RemainingQueue, QueueStalls, TypeOK, flagVars, Places
  <2> QED
    BY <1>4, <2>1, <2>2 DEF RemainingQueue
<1>5. ASSUME NEW i \in Tools, YieldProgress(i)
      PROVE  TypeOK'
  BY <1>5 DEF YieldProgress, TypeOK, execVars, flagVars, Places, Hand, Tools
<1>6. ASSUME NEW i \in Tools, YieldResult(i)
      PROVE  TypeOK'
  <2>1. emitted' \in Seq(Tools)
    BY <1>6 DEF YieldResult, TypeOK
  <2>2. at' \in 0..(NumTools + 1) /\ pc' \in Places
    BY <1>6 DEF YieldResult, Hand, Places, Tools
  <2>3. status[i] = "completed"
    BY <1>6 DEF YieldResult, Reaches, Offers
  <2> QED
    BY <1>6, <2>1, <2>2, <2>3 DEF YieldResult, TypeOK, flagVars, Statuses
<1>7. ASSUME NEW i \in Tools, HandleUpdate(i)
      PROVE  TypeOK'
  <2>1. /\ status[i] = "executing" /\ pend[i] # <<>>
        /\ Head(pend[i]) \in Updates /\ Tail(pend[i]) \in Seq(Updates)
        /\ results[i] \in Seq(Messages)
    BY <1>7 DEF HandleUpdate, TypeOK
  <2>2. /\ Append(results[i], "synthetic") \in Seq(Messages)
        /\ Append(results[i], Head(pend[i])) \in Seq(Messages)
    BY <2>1 DEF Messages
  <2>3. CASE Abandons(i)
    <3>1. Complete(i, Append(results[i], "synthetic")) /\ UNCHANGED <<errored, hasErrored>>
      BY <1>7, <2>3 DEF HandleUpdate
    <3> QED
      BY <1>7, <2>1, <2>2, <3>1, CompleteType DEF HandleUpdate, TypeOK, consumerVars
  <2>4. CASE ~Abandons(i)
    <3>1. errored' \in [Tools -> BOOLEAN] /\ hasErrored' \in BOOLEAN
      BY <1>7, <2>4 DEF HandleUpdate, TypeOK, KindType
    <3>2. CASE Tail(pend[i]) = <<>>
      <4>1. Complete(i, Append(results[i], Head(pend[i])))
        BY <1>7, <2>4, <3>2 DEF HandleUpdate
      <4> QED
        BY <1>7, <2>1, <2>2, <3>1, <4>1, CompleteType
           DEF HandleUpdate, TypeOK, consumerVars
    <3>3. CASE Tail(pend[i]) # <<>>
      BY <1>7, <2>1, <2>2, <2>4, <3>1, <3>3 DEF HandleUpdate, TypeOK, consumerVars
    <3> QED
      BY <3>2, <3>3
  <2> QED
    BY <2>3, <2>4
<1>8. ASSUME NEW i \in Tools, Finally(i)
      PROVE  TypeOK'
  <2>1. RunLoop(status, 1, loops, settled \ {i})
    BY <1>8 DEF Finally
  <2>2. status \in [Tools -> Statuses] /\ loops \subseteq Tools
        /\ settled \ {i} \subseteq Tools
    BY DEF TypeOK
  <2> QED
    BY <1>8, <2>1, <2>2, RunLoopType DEF Finally, TypeOK, consumerVars, flagVars
<1>9. ASSUME NEW i \in Tools, ResumeLoop(i)
      PROVE  TypeOK'
  <2>1. RunLoop(status, i + 1, loops \ {i}, settled)
    BY <1>9 DEF ResumeLoop
  <2>2. status \in [Tools -> Statuses] /\ loops \ {i} \subseteq Tools
        /\ settled \subseteq Tools
    BY DEF TypeOK
  <2> QED
    BY <1>9, <2>1, <2>2, RunLoopType DEF ResumeLoop, TypeOK, consumerVars, flagVars
<1>10. ASSUME NEW i \in Tools, ToolEnds(i)
       PROVE  TypeOK'
  <2>1. pend' \in [Tools -> Seq(Updates)]
    BY <1>10, OutcomesAssumption DEF ToolEnds, TypeOK
  <2> QED
    BY <1>10, <2>1 DEF ToolEnds, TypeOK, consumerVars, flagVars
<1>11. ASSUME NEW i \in Tools, ToolProgress(i)
       PROVE  TypeOK'
  <2>1. status[i] = "executing"
    BY <1>11 DEF ToolProgress
  <2>2. Append(results[i], "synthetic") \in Seq(Messages)
    BY DEF TypeOK, Messages
  <2>3. CASE Abandons(i)
    <3>1. Complete(i, Append(results[i], "synthetic")) /\ UNCHANGED progress
      BY <1>11, <2>3 DEF ToolProgress
    <3> QED
      BY <1>11, <2>1, <2>2, <3>1, CompleteType
         DEF ToolProgress, TypeOK, consumerVars, flagVars
  <2>4. CASE ~Abandons(i)
    BY <1>11, <2>4 DEF ToolProgress, TypeOK, consumerVars, flagVars
  <2> QED
    BY <2>3, <2>4
<1>12. ASSUME NEW i \in Tools, RejectPermission(i)
       PROVE  TypeOK'
  BY <1>12 DEF RejectPermission, TypeOK, execVars, consumerVars
<1>13. CASE UserAborts \/ SubmitInterrupts
  BY <1>13 DEF UserAborts, SubmitInterrupts, TypeOK, execVars, consumerVars
<1>14. CASE UNCHANGED vars
  BY <1>14 DEF vars, TypeOK, execVars, consumerVars, flagVars
<1> QED
  BY <1>1, <1>2, <1>3, <1>4, <1>5, <1>6, <1>7, <1>8, <1>9, <1>10, <1>11,
     <1>12, <1>13, <1>14 DEF Next, Consumer, Stream, Runtime

\* Every variable of the executor keeps its type, and the blocks that were
\* received are exactly a prefix of the positions (addTool only appends).
THEOREM TypeCorrect == Spec => []TypeOK
<1> QED
  BY TypeInit, TypeNext, PTL DEF Spec

-----------------------------------------------------------------------------
(* Order and exclusive access.  The three properties of the status table    *)
(* are stated for any table st, so that they can be followed through the    *)
(* table a queue loop works on.                                             *)

OrderedTable(st) ==
    \A i, j \in Tools :
        i < j /\ kind[j].known /\ st[j] \notin {"absent", "queued"}
            => st[i] # "queued"
SerialTable(st) ==
    \A i, j \in Tools :
        /\ i < j /\ kind[j].known /\ st[j] \notin {"absent", "queued"}
        /\ ~kind[i].safe \/ ~kind[j].safe
        => Finished(st, i)
ExclusiveTable(st) ==
    \A i, j \in Executing(st) : i # j => kind[i].safe /\ kind[j].safe
PrefixTable(st) ==
    /\ \A i, j \in Tools : i < j /\ st[i] = "absent" => st[j] = "absent"
    /\ \A i \in Tools : st[i] \in {"queued", "executing"} => kind[i].known
GoodTable(st) ==
    /\ st \in [Tools -> Statuses]
    /\ OrderedTable(st) /\ SerialTable(st) /\ ExclusiveTable(st) /\ PrefixTable(st)
NoneQueuedBefore(st, p) == \A j \in Tools : j < p => st[j] # "queued"

\* What a queue loop that starts tool i may rely on: everything before i has
\* started, and has finished where i or it is unsafe.
LEMMA StartsNextFacts ==
    ASSUME kind \in [Tools -> KindType], NEW st, GoodTable(st),
           NEW p \in Nat, NoneQueuedBefore(st, p),
           NEW i \in Tools, StartsNext(st, p, i)
    PROVE  /\ st[i] = "queued" /\ kind[i].known
           /\ \A j \in Tools : j < i => st[j] \notin {"absent", "queued"}
           /\ \A j \in Tools : j < i /\ (~kind[i].safe \/ ~kind[j].safe)
                 => Finished(st, j)
           /\ \A j \in Executing(st) : kind[i].safe /\ kind[j].safe
<1> USE NumToolsAssumption DEF Tools
<1>1. st[i] = "queued" /\ CanExecute(st, i) /\ kind[i].known
  BY DEF StartsNext, GoodTable, PrefixTable
<1>2. \A j \in Tools : j < i => st[j] # "queued"
  <2> SUFFICES ASSUME NEW j \in Tools, j < i, st[j] = "queued" PROVE FALSE
    OBVIOUS
  <2>1. p <= j
    BY DEF NoneQueuedBefore
  <2>2. ~CanExecute(st, j) /\ kind[j].safe
    BY <2>1 DEF StartsNext
  <2> QED
    BY <1>1, <2>2 DEF CanExecute
<1>3. \A j \in Tools : j < i => st[j] # "absent"
  BY <1>1 DEF GoodTable, PrefixTable
<1>4. \A j \in Executing(st) : kind[i].safe /\ kind[j].safe
  BY <1>1 DEF CanExecute
<1>5. \A j \in Tools : j < i /\ (~kind[i].safe \/ ~kind[j].safe) => Finished(st, j)
  BY <1>2, <1>3, <1>4 DEF Finished, Executing, GoodTable, Statuses
<1> QED
  BY <1>1, <1>2, <1>3, <1>4, <1>5

\* Starting that tool keeps the table good and leaves nothing queued up to it
LEMMA StartKeepsTable ==
    ASSUME kind \in [Tools -> KindType], NEW st, GoodTable(st),
           NEW p \in Nat, NoneQueuedBefore(st, p),
           NEW i \in Tools, StartsNext(st, p, i),
           NEW started \in {"executing", "completed"}
    PROVE  /\ GoodTable([st EXCEPT ![i] = started])
           /\ NoneQueuedBefore([st EXCEPT ![i] = started], i + 1)
           /\ \A j \in Tools : j <= i =>
                 [st EXCEPT ![i] = started][j] \notin {"absent", "queued"}
<1> USE NumToolsAssumption DEF Tools
<1> DEFINE new == [st EXCEPT ![i] = started]
<1>1. /\ st[i] = "queued" /\ kind[i].known
      /\ \A j \in Tools : j < i => st[j] \notin {"absent", "queued"}
      /\ \A j \in Tools : j < i /\ (~kind[i].safe \/ ~kind[j].safe) => Finished(st, j)
      /\ \A j \in Executing(st) : kind[i].safe /\ kind[j].safe
  BY StartsNextFacts
<1>2. st \in [Tools -> Statuses] /\ new \in [Tools -> Statuses]
  BY DEF GoodTable, Statuses
<1>3. new[i] = started /\ \A j \in Tools \ {i} : new[j] = st[j]
  BY <1>2
<1> HIDE DEF new
<1>4. \A j \in Tools : i < j /\ kind[j].known => st[j] \in {"absent", "queued"}
  BY <1>1 DEF GoodTable, OrderedTable
<1>5. OrderedTable(new)
  BY <1>1, <1>3, <1>4 DEF OrderedTable, GoodTable
<1>6. SerialTable(new)
  <2> SUFFICES ASSUME NEW a \in Tools, NEW b \in Tools,
                      a < b, kind[b].known, new[b] \notin {"absent", "queued"},
                      ~kind[a].safe \/ ~kind[b].safe
               PROVE  Finished(new, a)
    BY DEF SerialTable
  <2>1. CASE b = i
    BY <1>1, <1>3, <2>1 DEF Finished
  <2>2. CASE b # i
    <3>1. a # i
      BY <1>3, <1>4, <2>2
    <3>2. Finished(st, a)
      BY <1>3, <2>2 DEF GoodTable, SerialTable
    <3> QED
      BY <1>3, <3>1, <3>2 DEF Finished
  <2> QED
    BY <2>1, <2>2
<1>7. ExclusiveTable(new)
  BY <1>1, <1>3 DEF ExclusiveTable, GoodTable, Executing
<1>8. PrefixTable(new)
  <2>1. \A a, b \in Tools : a < b /\ new[a] = "absent" => new[b] = "absent"
    BY <1>1, <1>3 DEF PrefixTable, GoodTable
  <2>2. \A a \in Tools : new[a] \in {"queued", "executing"} => kind[a].known
    BY <1>1, <1>3 DEF PrefixTable, GoodTable
  <2> QED
    BY <2>1, <2>2 DEF PrefixTable
<1>9. \A j \in Tools : j <= i => new[j] \notin {"absent", "queued"}
  BY <1>1, <1>3
<1>10. NoneQueuedBefore(new, i + 1)
  BY <1>9 DEF NoneQueuedBefore
<1> QED
  BY <1>2, <1>5, <1>6, <1>7, <1>8, <1>9, <1>10 DEF GoodTable, new

\* The strengthening.  Loops and the query loop leave no queued tool behind,
\* which gives StartsNextFacts its premise; the tools whose context modifiers
\* were applied are unsafe and finished, which keeps a later one behind them.
ContextOfFinished ==
    \A m \in DOMAIN context :
        /\ kind[context[m]].known /\ ~kind[context[m]].safe
        /\ Finished(status, context[m])
IInv == /\ TypeOK /\ GoodTable(status) /\ NothingPassedOver
        /\ ContextOfFinished /\ ContextInOrder

\* A processQueue loop that goes on from a position before which nothing is
\* queued keeps the table good, and its new position has nothing before it.
LEMMA RunLoopKeeps ==
    ASSUME TypeOK, NEW st, GoodTable(st), NEW p \in Nat, NoneQueuedBefore(st, p),
           NEW otherLoops \in SUBSET Tools, NEW otherSettled,
           \A k \in otherLoops : \A j \in Tools :
               j <= k => st[j] \notin {"absent", "queued"},
           RunLoop(st, p, otherLoops, otherSettled)
    PROVE  /\ GoodTable(status')
           /\ \A k \in loops' : \A j \in Tools :
                  j <= k => status'[j] \notin {"absent", "queued"}
           /\ \A j \in Tools : Finished(st, j) => Finished(status', j)
<1> USE NumToolsAssumption
<1>1. CASE \E i \in Tools :
              /\ StartsNext(st, p, i) /\ ExecuteTool(st, i)
              /\ loops' = otherLoops \cup {i}
              /\ settled' = otherSettled \cup SettledBy(i)
  <2>1. PICK i \in Tools :
              /\ StartsNext(st, p, i) /\ ExecuteTool(st, i)
              /\ loops' = otherLoops \cup {i}
    BY <1>1
  <2>2. PICK v \in {"executing", "completed"} : status' = [st EXCEPT ![i] = v]
    BY <2>1 DEF ExecuteTool
  <2>3. /\ GoodTable(status')
        /\ \A j \in Tools : j <= i => status'[j] \notin {"absent", "queued"}
    BY <2>1, <2>2, StartKeepsTable DEF TypeOK
  <2>4. \A j \in Tools \ {i} : status'[j] = st[j]
    BY <2>2 DEF GoodTable
  <2>5. st[i] = "queued"
    BY <2>1 DEF StartsNext
  <2>6. \A j \in Tools : Finished(st, j) => Finished(status', j)
    BY <2>4, <2>5 DEF Finished
  <2>7. \A k \in otherLoops : \A j \in Tools :
              j <= k => status'[j] \notin {"absent", "queued"}
    BY <2>4, <2>5
  <2>8. \A k \in loops' : \A j \in Tools :
              j <= k => status'[j] \notin {"absent", "queued"}
    BY <2>1, <2>3, <2>7
  <2> QED
    BY <2>3, <2>6, <2>8
<1>2. CASE QueueStalls(st, p) /\ loops' = otherLoops /\ settled' = otherSettled
  BY <1>2 DEF QueueStalls
<1> QED
  BY <1>1, <1>2 DEF RunLoop

\* A tool moves on and the queue loops stand still
LEMMA SettleKeeps ==
    ASSUME IInv, NEW i \in Tools, status[i] \in {"executing", "completed"},
           NEW v \in {"completed", "yielded"}, status' = [status EXCEPT ![i] = v],
           loops' = loops, pc' = "queue" => pc = "queue" /\ at' = at
    PROVE  GoodTable(status') /\ NothingPassedOver'
           /\ \A j \in Tools : Finished(status, j) => Finished(status', j)
<1>1. GoodTable(status)
  BY DEF IInv
<1>2. status \in [Tools -> Statuses] /\ status' \in [Tools -> Statuses]
  BY <1>1 DEF GoodTable, Statuses
<1>3. status'[i] = v /\ \A j \in Tools \ {i} : status'[j] = status[j]
  BY <1>2
<1>4. \A j \in Tools :
         /\ status'[j] \in {"absent", "queued"} <=> status[j] \in {"absent", "queued"}
         /\ status'[j] = "queued" <=> status[j] = "queued"
         /\ status'[j] = "absent" <=> status[j] = "absent"
         /\ status'[j] = "executing" => status[j] = "executing"
         /\ Finished(status, j) => Finished(status', j)
  BY <1>3 DEF Finished
<1>5. OrderedTable(status')
  BY <1>1, <1>4 DEF OrderedTable, GoodTable
<1>6. SerialTable(status')
  BY <1>1, <1>4 DEF SerialTable, GoodTable
<1>7. ExclusiveTable(status')
  BY <1>1, <1>4 DEF ExclusiveTable, GoodTable, Executing
<1>8. PrefixTable(status')
  BY <1>1, <1>4 DEF PrefixTable, GoodTable
<1>9. NothingPassedOver'
  BY <1>4 DEF IInv, NothingPassedOver
<1> QED
  BY <1>2, <1>4, <1>5, <1>6, <1>7, <1>8, <1>9 DEF GoodTable

\* A step that applies no context modifier and un-finishes no tool
LEMMA ContextKeeps ==
    ASSUME IInv, UNCHANGED <<kind, context>>,
           \A j \in Tools : Finished(status, j) => Finished(status', j)
    PROVE  ContextOfFinished' /\ ContextInOrder'
<1>1. \A m \in DOMAIN context : context[m] \in Tools
  BY DEF IInv, TypeOK
<1> QED
  BY <1>1 DEF IInv, ContextOfFinished, ContextInOrder, Finished

\* A tool completes: its context modifier is the newest, because everything
\* before an unsafe tool that started has finished and nothing after it started.
LEMMA CompleteKeeps ==
    ASSUME IInv, NEW i \in Tools, status[i] = "executing",
           NEW messages, Complete(i, messages), kind' = kind, loops' = loops,
           pc' = pc, at' = at
    PROVE  GoodTable(status') /\ NothingPassedOver'
           /\ ContextOfFinished' /\ ContextInOrder'
<1> USE NumToolsAssumption
<1>1. status' = [status EXCEPT ![i] = "completed"]
  BY DEF Complete
<1>2. GoodTable(status') /\ NothingPassedOver'
      /\ \A j \in Tools : Finished(status, j) => Finished(status', j)
  BY <1>1, SettleKeeps
<1>3. CASE context' = context
  BY <1>2, <1>3, ContextKeeps
<1>4. CASE context' = Append(context, i) /\ ~kind[i].safe
  <2>1. /\ context \in Seq(Tools) /\ Len(context) \in Nat
        /\ \A m \in DOMAIN context : context[m] \in Tools
        /\ status \in [Tools -> Statuses]
    BY DEF IInv, TypeOK
  <2>2. /\ DOMAIN context' = 1..(Len(context) + 1)
        /\ context'[Len(context) + 1] = i
        /\ \A m \in 1..Len(context) : context'[m] = context[m]
        /\ DOMAIN context = 1..Len(context)
    BY <1>4, <2>1
  <2>3. kind[i].known /\ Finished(status', i)
    BY <1>1, <2>1 DEF IInv, GoodTable, PrefixTable, Finished
  <2>4. \A m \in DOMAIN context : context[m] < i
    <3> SUFFICES ASSUME NEW m \in DOMAIN context, ~(context[m] < i) PROVE FALSE
      OBVIOUS
    <3>1. /\ kind[context[m]].known /\ ~kind[context[m]].safe
          /\ Finished(status, context[m])
      BY DEF IInv, ContextOfFinished
    <3>2. context[m] \in Tools /\ context[m] # i /\ i < context[m]
      BY <2>1, <3>1 DEF Finished, Tools
    <3>3. Finished(status, i)
      BY <3>1, <3>2 DEF IInv, GoodTable, SerialTable, Finished
    <3> QED
      BY <3>3 DEF Finished
  <2>5. ContextInOrder'
    <3> SUFFICES ASSUME NEW m \in DOMAIN context', NEW n \in DOMAIN context', m < n
                 PROVE  context'[m] < context'[n]
      BY DEF ContextInOrder
    <3>1. m \in DOMAIN context
      BY <2>1, <2>2
    <3>2. CASE n = Len(context) + 1
      BY <2>2, <2>4, <3>1, <3>2
    <3>3. CASE n \in DOMAIN context
      BY <2>2, <3>1, <3>3 DEF IInv, ContextInOrder
    <3> QED
      BY <2>1, <2>2, <3>2, <3>3
  <2>6. ContextOfFinished'
    <3> SUFFICES ASSUME NEW m \in DOMAIN context'
                 PROVE  kind[context'[m]].known /\ ~kind[context'[m]].safe
                        /\ Finished(status', context'[m])
      BY DEF ContextOfFinished, Finished
    <3>1. CASE m = Len(context) + 1
      BY <1>4, <2>2, <2>3, <3>1
    <3>2. CASE m \in DOMAIN context
      BY <1>2, <2>1, <2>2, <3>2 DEF IInv, ContextOfFinished
    <3> QED
      BY <2>1, <2>2, <3>1, <3>2
  <2> QED
    BY <1>2, <2>5, <2>6
<1> QED
  BY <1>3, <1>4 DEF Complete

\* The strengthened invariant holds of the executor as it is constructed
LEMMA OrderInit == Init => IInv
<1> SUFFICES ASSUME Init PROVE IInv
  OBVIOUS
<1>1. TypeOK
  BY TypeInit
<1>2. \A i \in Tools : status[i] = "absent"
  BY DEF Init
<1>3. GoodTable(status)
  BY <1>1, <1>2 DEF GoodTable, TypeOK, OrderedTable, SerialTable, ExclusiveTable,
                    PrefixTable, Executing
<1> QED
  BY <1>1, <1>3 DEF Init, IInv, NothingPassedOver, ContextOfFinished, ContextInOrder

\* and every step keeps it: one case per action.
LEMMA OrderNext == IInv /\ [Next]_vars => IInv'
<1> SUFFICES ASSUME IInv, [Next]_vars PROVE IInv'
  OBVIOUS
<1> USE NumToolsAssumption
<1>0. TypeOK /\ TypeOK'
  BY TypeNext DEF IInv
<1>k. kind' = kind
  BY DEF Next, Consumer, Stream, Runtime, vars, AddUnknownTool, AddTool, PollResults,
     StreamEnds, Discard, RemainingResults, RemainingQueue, YieldProgress, YieldResult,
     TakeNext, ScanEnds, Wake, ToolProgress, ToolEnds, HandleUpdate, Finally,
     ResumeLoop, RejectPermission, UserAborts, SubmitInterrupts
<1> SUFFICES GoodTable(status') /\ NothingPassedOver'
             /\ ContextOfFinished' /\ ContextInOrder'
  BY <1>0, <1>k DEF IInv, GoodTable, OrderedTable, SerialTable, ExclusiveTable,
              PrefixTable, Executing, Finished
<1>1. CASE AddUnknownTool
  <2>1. /\ added \in 0..NumTools /\ added + 1 \in Tools
        /\ status[added + 1] = "absent" /\ ~kind[added + 1].known
        /\ status' = [status EXCEPT ![added + 1] = "completed"]
        /\ UNCHANGED <<kind, loops, pc, at, context>> /\ pc = "streaming"
    BY <1>0, <1>1 DEF AddUnknownTool, TypeOK, Tools, consumerVars
  <2>2. /\ status \in [Tools -> Statuses]
        /\ \A j \in Tools : status[j] = "absent" <=> j > added
        /\ \A j \in Tools \ {added + 1} : status'[j] = status[j]
        /\ status'[added + 1] = "completed" /\ status' \in [Tools -> Statuses]
    BY <1>0, <2>1 DEF TypeOK, Statuses
  <2>3. OrderedTable(status')
    BY <2>1, <2>2 DEF IInv, GoodTable, OrderedTable, Tools
  <2>4. SerialTable(status')
    BY <2>1, <2>2 DEF IInv, GoodTable, SerialTable, Tools, Finished
  <2>5. ExclusiveTable(status')
    BY <2>1, <2>2 DEF IInv, GoodTable, ExclusiveTable, Executing
  <2>6. PrefixTable(status')
    BY <2>1, <2>2 DEF IInv, GoodTable, PrefixTable, Tools
  <2>7. NothingPassedOver'
    BY <2>1, <2>2 DEF IInv, NothingPassedOver
  <2>8. \A j \in Tools : Finished(status, j) => Finished(status', j)
    BY <2>2 DEF Finished
  <2> QED
    BY <2>1, <2>2, <2>3, <2>4, <2>5, <2>6, <2>7, <2>8, ContextKeeps DEF GoodTable
<1>2. CASE AddTool
  <2> DEFINE st == [status EXCEPT ![added + 1] = "queued"]
  <2>1. /\ added \in 0..NumTools /\ added + 1 \in Tools
        /\ status[added + 1] = "absent" /\ kind[added + 1].known
        /\ RunLoop(st, 1, loops, settled)
        /\ UNCHANGED <<kind, pc, at, context>> /\ pc = "streaming"
    BY <1>0, <1>2 DEF AddTool, TypeOK, Tools, consumerVars
  <2>2. /\ status \in [Tools -> Statuses]
        /\ \A j \in Tools : status[j] = "absent" <=> j > added
        /\ \A j \in Tools \ {added + 1} : st[j] = status[j]
        /\ st[added + 1] = "queued" /\ st \in [Tools -> Statuses]
    BY <1>0, <2>1 DEF TypeOK, Statuses
  <2> HIDE DEF st
  <2>3. OrderedTable(st)
    BY <2>1, <2>2 DEF IInv, GoodTable, OrderedTable, Tools
  <2>4. SerialTable(st)
    BY <2>1, <2>2 DEF IInv, GoodTable, SerialTable, Tools, Finished
  <2>5. ExclusiveTable(st)
    BY <2>1, <2>2 DEF IInv, GoodTable, ExclusiveTable, Executing
  <2>6. PrefixTable(st)
    BY <2>1, <2>2 DEF IInv, GoodTable, PrefixTable, Tools
  <2>7. GoodTable(st)
    BY <2>2, <2>3, <2>4, <2>5, <2>6 DEF GoodTable
  <2>8. \A k \in loops : \A j \in Tools : j <= k => st[j] \notin {"absent", "queued"}
    BY <2>1, <2>2 DEF IInv, NothingPassedOver
  <2>9. NoneQueuedBefore(st, 1) /\ loops \in SUBSET Tools
    BY <1>0 DEF NoneQueuedBefore, Tools, TypeOK
  <2>10. /\ GoodTable(status')
         /\ \A k \in loops' : \A j \in Tools :
                j <= k => status'[j] \notin {"absent", "queued"}
         /\ \A j \in Tools : Finished(st, j) => Finished(status', j)
    BY <1>0, <2>1, <2>7, <2>8, <2>9, RunLoopKeeps
  <2>11. NothingPassedOver'
    BY <2>1, <2>10 DEF NothingPassedOver
  <2>12. \A j \in Tools : Finished(status, j) => Finished(status', j)
    BY <2>1, <2>2, <2>10 DEF Finished
  <2> QED
    BY <2>1, <2>10, <2>11, <2>12, ContextKeeps
<1>3. CASE /\ UNCHANGED <<kind, status, loops, context>>
           /\ pc' = "queue" => (pc = "queue" /\ at' = at) \/ at' = 1
  <2>1. NothingPassedOver'
    BY <1>3 DEF IInv, NothingPassedOver, Tools
  <2> QED
    BY <1>3, <2>1, ContextKeeps DEF IInv
<1>4. CASE RemainingQueue
  <2>1. UNCHANGED <<kind, context, loops>> /\ pc = "queue"
    BY <1>4 DEF RemainingQueue
  <2>2. NoneQueuedBefore(status, at) /\ at \in Nat
    BY <1>0, <2>1 DEF IInv, NothingPassedOver, NoneQueuedBefore, TypeOK
  <2>3. CASE \E i \in Tools :
               /\ StartsNext(status, at, i) /\ ExecuteTool(status, i)
               /\ settled' = settled \cup SettledBy(i)
               /\ at' = i + 1 /\ pc' = "queue"
    <3>1. PICK i \in Tools : /\ StartsNext(status, at, i) /\ ExecuteTool(status, i)
                             /\ at' = i + 1 /\ pc' = "queue"
      BY <2>3
    <3>2. PICK v \in {"executing", "completed"} : status' = [status EXCEPT ![i] = v]
      BY <3>1 DEF ExecuteTool
    <3>3. /\ GoodTable(status') /\ NoneQueuedBefore(status', i + 1)
          /\ \A j \in Tools : j <= i => status'[j] \notin {"absent", "queued"}
      BY <1>0, <2>2, <3>1, <3>2, StartKeepsTable DEF IInv, TypeOK
    <3>4. /\ \A j \in Tools \ {i} : status'[j] = status[j]
          /\ status[i] = "queued"
      BY <1>0, <3>1, <3>2 DEF TypeOK, StartsNext
    <3>5. NothingPassedOver'
      BY <2>1, <3>1, <3>3, <3>4 DEF IInv, NothingPassedOver, NoneQueuedBefore
    <3>6. \A j \in Tools : Finished(status, j) => Finished(status', j)
      BY <3>4 DEF Finished
    <3> QED
      BY <2>1, <3>3, <3>5, <3>6, ContextKeeps
  <2>4. CASE QueueStalls(status, at) /\ at' = 1 /\ pc' = "draining"
    <3>1. UNCHANGED <<kind, status, loops, context>> /\ pc' # "queue"
      BY <2>1, <2>4 DEF QueueStalls
    <3> QED
      BY <1>3, <3>1
  <2> QED
    BY <1>4, <2>3, <2>4 DEF RemainingQueue
<1>5. ASSUME NEW i \in Tools, YieldResult(i)
      PROVE  GoodTable(status') /\ NothingPassedOver'
             /\ ContextOfFinished' /\ ContextInOrder'
  <2>1. /\ status[i] = "completed" /\ status' = [status EXCEPT ![i] = "yielded"]
        /\ UNCHANGED <<kind, context, loops>> /\ pc' # "queue"
    BY <1>5 DEF YieldResult, Reaches, Offers, Hand
  <2>2. GoodTable(status') /\ NothingPassedOver'
        /\ \A j \in Tools : Finished(status, j) => Finished(status', j)
    BY <2>1, SettleKeeps
  <2> QED
    BY <2>1, <2>2, ContextKeeps
<1>6. ASSUME NEW i \in Tools, HandleUpdate(i) \/ ToolProgress(i)
      PROVE  GoodTable(status') /\ NothingPassedOver'
             /\ ContextOfFinished' /\ ContextInOrder'
  <2>1. status[i] = "executing" /\ UNCHANGED <<kind, loops, pc, at>>
    BY <1>6 DEF HandleUpdate, ToolProgress, consumerVars
  <2>2. (\E messages : Complete(i, messages)) \/ UNCHANGED <<status, context>>
    BY <1>6 DEF HandleUpdate, ToolProgress
  <2>3. CASE \E messages : Complete(i, messages)
    BY <2>1, <2>3, CompleteKeeps
  <2>4. CASE UNCHANGED <<status, context>>
    BY <1>3, <2>1, <2>4
  <2> QED
    BY <2>2, <2>3, <2>4
<1>7. ASSUME NEW i \in Tools, Finally(i) \/ ResumeLoop(i)
      PROVE  GoodTable(status') /\ NothingPassedOver'
             /\ ContextOfFinished' /\ ContextInOrder'
  <2>1. UNCHANGED <<kind, context, pc, at>>
    BY <1>7 DEF Finally, ResumeLoop, consumerVars
  <2>2. \E p \in Nat, rest \in SUBSET loops : \E left :
           NoneQueuedBefore(status, p) /\ RunLoop(status, p, rest, left)
    <3>1. CASE Finally(i)
      <4>1. NoneQueuedBefore(status, 1)
        BY DEF NoneQueuedBefore, Tools
      <4> QED
        BY <3>1, <4>1 DEF Finally
    <3>2. CASE ResumeLoop(i)
      <4>1. NoneQueuedBefore(status, i + 1) /\ i + 1 \in Nat
        BY <3>2 DEF ResumeLoop, NoneQueuedBefore, IInv, NothingPassedOver, Tools
      <4> QED
        BY <3>2, <4>1 DEF ResumeLoop
    <3> QED
      BY <1>7, <3>1, <3>2
  <2>3. PICK p \in Nat, rest \in SUBSET loops :
           \E left : NoneQueuedBefore(status, p) /\ RunLoop(status, p, rest, left)
    BY <2>2
  <2>4. \A k \in rest : \A j \in Tools : j <= k => status[j] \notin {"absent", "queued"}
    BY DEF IInv, NothingPassedOver
  <2>5. rest \in SUBSET Tools
    BY <1>0 DEF TypeOK
  <2>6. /\ GoodTable(status')
        /\ \A k \in loops' : \A j \in Tools :
               j <= k => status'[j] \notin {"absent", "queued"}
        /\ \A j \in Tools : Finished(status, j) => Finished(status', j)
    BY <1>0, <2>3, <2>4, <2>5, RunLoopKeeps DEF IInv
  <2>7. NothingPassedOver'
    <3>1. \A j \in Tools : status'[j] = "queued" => status[j] = "queued"
      <4>1. CASE \E k \in Tools : StartsNext(status, p, k) /\ ExecuteTool(status, k)
        BY <1>0, <4>1 DEF ExecuteTool, TypeOK
      <4>2. CASE QueueStalls(status, p)
        BY <4>2 DEF QueueStalls
      <4> QED
        BY <2>3, <4>1, <4>2 DEF RunLoop
    <3> QED
      BY <2>1, <2>6, <3>1 DEF IInv, NothingPassedOver
  <2> QED
    BY <2>1, <2>6, <2>7, ContextKeeps
<1>8. CASE PollResults \/ StreamEnds \/ Discard \/ RemainingResults
           \/ TakeNext \/ ScanEnds \/ Wake \/ UserAborts \/ SubmitInterrupts
  BY <1>3, <1>8 DEF PollResults, StreamEnds, Discard, RemainingResults, TakeNext,
     ScanEnds, Wake, UserAborts, SubmitInterrupts, execVars, consumerVars
<1>9. ASSUME NEW i \in Tools, YieldProgress(i) \/ ToolEnds(i) \/ RejectPermission(i)
      PROVE  GoodTable(status') /\ NothingPassedOver'
             /\ ContextOfFinished' /\ ContextInOrder'
  BY <1>3, <1>9 DEF YieldProgress, ToolEnds, RejectPermission, Hand, execVars, consumerVars
<1>10. CASE UNCHANGED vars
  BY <1>3, <1>10 DEF vars, execVars, consumerVars
<1> QED
  BY <1>1, <1>2, <1>4, <1>5, <1>6, <1>7, <1>8, <1>9, <1>10
     DEF Next, Consumer, Stream, Runtime

\* Hence it holds always
LEMMA OrderCorrect == Spec => []IInv
<1> QED
  BY OrderInit, OrderNext, PTL DEF Spec

\* Whatever the interleaving of queue loops, finally callbacks and the query
\* loop, a tool that is not concurrency-safe runs alone.
THEOREM ExclusiveAccessCorrect == Spec => []ExclusiveAccess
<1>1. IInv => ExclusiveAccess
  BY DEF IInv, GoodTable, ExclusiveTable, ExclusiveAccess
<1> QED
  BY <1>1, OrderCorrect, PTL

\* Tools leave the queue in the order they were received
THEOREM StartedInOrderCorrect == Spec => []StartedInOrder
<1>1. IInv => StartedInOrder
  BY DEF IInv, GoodTable, OrderedTable, StartedInOrder
<1> QED
  BY <1>1, OrderCorrect, PTL

\* Unsafe tools have the effects of a serial execution
THEOREM SerialEffectsCorrect == Spec => []SerialEffects
<1>1. IInv => SerialEffects
  BY DEF IInv, GoodTable, SerialTable, SerialEffects
<1> QED
  BY <1>1, OrderCorrect, PTL

\* No suspended queue loop holds a position that would lose a queued tool
THEOREM NothingPassedOverCorrect == Spec => []NothingPassedOver
<1>1. IInv => NothingPassedOver
  BY DEF IInv
<1> QED
  BY <1>1, OrderCorrect, PTL

\* The context modifiers of unsafe tools are applied in the order of the tools
THEOREM ContextInOrderCorrect == Spec => []ContextInOrder
<1>1. IInv => ContextInOrder
  BY DEF IInv
<1> QED
  BY <1>1, OrderCorrect, PTL

-----------------------------------------------------------------------------
(* Cancellation                                                             *)

\* After a Bash error, a user abort or a discard no call starts: executeTool
\* is the one place where a call starts, and it asks for the abort reason.
THEOREM NothingStartsOnceCancelledCorrect == Spec => NothingStartsOnceCancelled
<1> DEFINE Cancelled == hasErrored \/ discarded \/ aborted = "user"
           Nothing == Cancelled => live' \subseteq live
<1>1. ASSUME NEW st, NEW i \in Tools, ExecuteTool(st, i) PROVE Nothing
  BY <1>1 DEF ExecuteTool, AbortReason
<1>2. ASSUME NEW st, NEW p, NEW l, NEW s, RunLoop(st, p, l, s) PROVE Nothing
  BY <1>1, <1>2 DEF RunLoop, QueueStalls
<1>3. ASSUME [Next]_vars PROVE Nothing
  <2>1. CASE AddTool \/ RemainingQueue
    BY <1>1, <1>2, <2>1 DEF AddTool, RemainingQueue, QueueStalls
  <2>2. CASE AddUnknownTool \/ PollResults \/ StreamEnds \/ Discard
    BY <2>2 DEF AddUnknownTool, PollResults, StreamEnds, Discard, execVars
  <2>3. CASE RemainingResults \/ TakeNext \/ ScanEnds \/ Wake
    BY <2>3 DEF RemainingResults, TakeNext, ScanEnds, Wake, execVars
  <2>4. CASE UserAborts \/ SubmitInterrupts \/ UNCHANGED vars
    BY <2>4 DEF UserAborts, SubmitInterrupts, vars, execVars
  <2>5. ASSUME NEW i \in Tools, Finally(i) \/ ResumeLoop(i) PROVE Nothing
    BY <1>2, <2>5 DEF Finally, ResumeLoop
  <2>6. ASSUME NEW i \in Tools, YieldProgress(i) \/ YieldResult(i) PROVE Nothing
    BY <2>6 DEF YieldProgress, YieldResult, execVars
  <2>7. ASSUME NEW i \in Tools,
               HandleUpdate(i) \/ ToolProgress(i) \/ ToolEnds(i) \/ RejectPermission(i)
        PROVE  Nothing
    BY <2>7 DEF HandleUpdate, ToolProgress, ToolEnds, RejectPermission, execVars
  <2> QED
    BY <1>3, <2>1, <2>2, <2>3, <2>4, <2>5, <2>6, <2>7
       DEF Next, Consumer, Stream, Runtime
<1> QED
  BY <1>3, PTL DEF Spec, NothingStartsOnceCancelled

\* hasInterruptibleToolInProgress is what the status table says, together with
\* the type invariant.
CurrentInv == TypeOK /\ InterruptibleIsCurrent

\* Every step that changes which tools execute recomputes the flag, and the
\* steps that do not recompute it change no tool from or to 'executing'.
LEMMA InterruptibleNext == CurrentInv /\ [Next]_vars => CurrentInv'
<1> SUFFICES ASSUME CurrentInv, [Next]_vars PROVE CurrentInv'
  OBVIOUS
<1> USE NumToolsAssumption
<1>0. TypeOK /\ TypeOK' /\ InterruptibleIsCurrent
  BY TypeNext DEF CurrentInv
<1> SUFFICES InterruptibleIsCurrent'
  BY <1>0 DEF CurrentInv
<1>1. kind' = kind
  BY DEF Next, Consumer, Stream, Runtime, AddUnknownTool, AddTool, PollResults,
     StreamEnds, Discard, RemainingResults, RemainingQueue, TakeNext, ScanEnds, Wake,
     YieldProgress, YieldResult, HandleUpdate, Finally, ResumeLoop, ToolEnds,
     ToolProgress, RejectPermission, UserAborts, SubmitInterrupts, vars
<1>2. ASSUME interruptible' = Interruptible(status') PROVE InterruptibleIsCurrent'
  BY <1>1, <1>2 DEF InterruptibleIsCurrent, Interruptible, Executing
<1>3. ASSUME interruptible' = interruptible, Executing(status') = Executing(status)
      PROVE  InterruptibleIsCurrent'
  BY <1>0, <1>1, <1>3 DEF InterruptibleIsCurrent, Interruptible, Executing
<1>4. ASSUME NEW st, NEW i \in Tools, ExecuteTool(st, i) PROVE InterruptibleIsCurrent'
  BY <1>2, <1>4 DEF ExecuteTool
<1>5. ASSUME NEW st, NEW p, NEW l, NEW s, RunLoop(st, p, l, s),
             Executing(st) = Executing(status)
      PROVE  InterruptibleIsCurrent'
  BY <1>3, <1>4, <1>5 DEF RunLoop, QueueStalls
<1>6. ASSUME NEW i \in Tools, NEW messages, Complete(i, messages)
      PROVE  InterruptibleIsCurrent'
  BY <1>2, <1>6 DEF Complete
<1>7. CASE AddTool
  <2>1. added + 1 \in Tools /\ status[added + 1] = "absent"
    BY <1>0, <1>7 DEF AddTool, TypeOK, Tools
  <2>2. Executing([status EXCEPT ![added + 1] = "queued"]) = Executing(status)
    BY <1>0, <2>1 DEF Executing, TypeOK
  <2> QED
    BY <1>5, <1>7, <2>2 DEF AddTool
<1>8. CASE AddUnknownTool
  <2>1. added + 1 \in Tools /\ status[added + 1] = "absent"
    BY <1>0, <1>8 DEF AddUnknownTool, TypeOK, Tools
  <2>2. Executing(status') = Executing(status)
    BY <1>0, <1>8, <2>1 DEF Executing, TypeOK, AddUnknownTool
  <2> QED
    BY <1>3, <1>8, <2>2 DEF AddUnknownTool
<1>9. CASE RemainingQueue
  BY <1>3, <1>4, <1>9 DEF RemainingQueue, QueueStalls
<1>10. CASE PollResults \/ StreamEnds \/ Discard
  BY <1>3, <1>10 DEF PollResults, StreamEnds, Discard, execVars
<1>11. CASE RemainingResults \/ TakeNext \/ ScanEnds \/ Wake
  BY <1>3, <1>11 DEF RemainingResults, TakeNext, ScanEnds, Wake, execVars
<1>12. CASE UserAborts \/ SubmitInterrupts \/ UNCHANGED vars
  BY <1>3, <1>12 DEF UserAborts, SubmitInterrupts, vars, execVars
<1>13. ASSUME NEW i \in Tools, Finally(i) \/ ResumeLoop(i)
       PROVE  InterruptibleIsCurrent'
  BY <1>5, <1>13 DEF Finally, ResumeLoop
<1>14. ASSUME NEW i \in Tools, YieldProgress(i) \/ ToolEnds(i) \/ RejectPermission(i)
       PROVE  InterruptibleIsCurrent'
  BY <1>3, <1>14 DEF YieldProgress, ToolEnds, RejectPermission, execVars
<1>15. ASSUME NEW i \in Tools, YieldResult(i) PROVE InterruptibleIsCurrent'
  <2>1. status[i] = "completed"
    BY <1>15 DEF YieldResult, Reaches, Offers
  <2>2. Executing(status') = Executing(status)
    BY <1>0, <1>15, <2>1 DEF Executing, TypeOK, YieldResult
  <2> QED
    BY <1>3, <1>15, <2>2 DEF YieldResult
<1>16. ASSUME NEW i \in Tools, HandleUpdate(i) \/ ToolProgress(i)
       PROVE  InterruptibleIsCurrent'
  BY <1>3, <1>6, <1>16 DEF HandleUpdate, ToolProgress
<1> QED
  BY <1>7, <1>8, <1>9, <1>10, <1>11, <1>12, <1>13, <1>14, <1>15, <1>16
     DEF Next, Consumer, Stream, Runtime

\* A submitted prompt never decides on a stale flag whether to interrupt
THEOREM InterruptibleIsCurrentCorrect == Spec => []InterruptibleIsCurrent
<1>1. Init => CurrentInv
  <2>1. Init => TypeOK
    BY TypeInit
  <2>2. Init => InterruptibleIsCurrent
    BY DEF Init, InterruptibleIsCurrent, Interruptible, Executing
  <2> QED
    BY <2>1, <2>2 DEF CurrentInv
<1>2. CurrentInv => InterruptibleIsCurrent
  BY DEF CurrentInv
<1> QED
  BY <1>1, <1>2, InterruptibleNext, PTL DEF Spec

-----------------------------------------------------------------------------
(* One error per tool                                                       *)

\* A call that still runs has no synthetic result, and has noted every error
\* among its results in thisToolErrored; one that did not start has none.
NotedErrors ==
    \A i \in Tools :
        /\ status[i] \in {"absent", "queued"} => results[i] = <<>>
        /\ status[i] = "executing" => \A m \in DOMAIN results[i] :
               /\ results[i][m] # "synthetic"
               /\ results[i][m] = "err" => errored[i]

OneErrorInv == TypeOK /\ NotedErrors /\ OneErrorPerTool

\* Starting a tool, or giving it its synthetic result at once, keeps both
LEMMA ExecuteToolErrors ==
    ASSUME OneErrorInv, NEW st \in [Tools -> Statuses], NEW i \in Tools,
           st[i] = "queued", results[i] = <<>>, ExecuteTool(st, i),
           \A j \in Tools : st[j] # status[j] => st[j] = "queued" /\ results[j] = <<>>
    PROVE  NotedErrors' /\ OneErrorPerTool'
<1>1. TypeOK /\ NotedErrors /\ OneErrorPerTool
  BY DEF OneErrorInv
<1>2. status' \in [Tools -> Statuses] /\ \A j \in Tools \ {i} : status'[j] = st[j]
  BY <1>1, ExecuteToolType
<1>3. errored' = errored
  BY DEF ExecuteTool
<1>4. \A j \in Tools \ {i} : results'[j] = results[j]
  BY <1>1 DEF ExecuteTool, TypeOK
<1>5. CASE AbortReason(i) = "none"
  <2>1. results' = results /\ status'[i] = "executing"
    BY <1>5 DEF ExecuteTool
  <2> QED
    BY <1>1, <1>2, <1>3, <2>1 DEF NotedErrors, OneErrorPerTool
<1>6. CASE AbortReason(i) # "none"
  <2>1. results'[i] = <<"synthetic">> /\ status'[i] = "completed"
    BY <1>1, <1>6 DEF ExecuteTool, TypeOK
  <2>2. \A m, n \in DOMAIN results'[i] : ~(m < n)
    BY <2>1
  <2> QED
    BY <1>1, <1>2, <1>3, <1>4, <2>1, <2>2 DEF NotedErrors, OneErrorPerTool
<1> QED
  BY <1>5, <1>6

\* A queue loop changes results only through executeTool
LEMMA RunLoopErrors ==
    ASSUME OneErrorInv, NEW st \in [Tools -> Statuses], NEW p, NEW l, NEW s,
           RunLoop(st, p, l, s),
           \A j \in Tools : st[j] # status[j] => st[j] = "queued" /\ results[j] = <<>>
    PROVE  NotedErrors' /\ OneErrorPerTool'
<1>1. TypeOK /\ NotedErrors /\ OneErrorPerTool
  BY DEF OneErrorInv
<1>2. ASSUME NEW i \in Tools, StartsNext(st, p, i), ExecuteTool(st, i)
      PROVE  NotedErrors' /\ OneErrorPerTool'
  <2>1. st[i] = "queued"
    BY <1>2 DEF StartsNext
  <2>2. results[i] = <<>>
    BY <1>1, <2>1 DEF NotedErrors
  <2> QED
    BY <1>2, <2>1, <2>2, ExecuteToolErrors
<1>3. CASE QueueStalls(st, p)
  BY <1>1, <1>3 DEF QueueStalls, NotedErrors, OneErrorPerTool
<1> QED
  BY <1>2, <1>3 DEF RunLoop

\* A running tool completes with one more message, which is an error of its
\* own, or a synthetic result when it has noted no error of its own.
LEMMA CompleteErrors ==
    ASSUME OneErrorInv, NEW i \in Tools, status[i] = "executing",
           NEW message \in Messages, Complete(i, Append(results[i], message)),
           message = "synthetic" => ~errored[i],
           \A j \in Tools \ {i} : errored'[j] = errored[j]
    PROVE  NotedErrors' /\ OneErrorPerTool'
<1>1. TypeOK /\ NotedErrors /\ OneErrorPerTool
  BY DEF OneErrorInv
<1>2. results[i] \in Seq(Messages)
  BY <1>1 DEF TypeOK
<1>3. /\ results'[i] = Append(results[i], message) /\ status'[i] = "completed"
      /\ \A j \in Tools \ {i} : results'[j] = results[j] /\ status'[j] = status[j]
  BY <1>1 DEF Complete, TypeOK
<1>4. \A m, n \in DOMAIN results'[i] :
          m < n => ~(results'[i][m] = "err" /\ results'[i][n] = "synthetic")
  BY <1>1, <1>2, <1>3 DEF NotedErrors, OneErrorPerTool
<1> QED
  BY <1>1, <1>3, <1>4 DEF NotedErrors, OneErrorPerTool

\* Every step keeps the strengthened invariant
LEMMA OneErrorNext == OneErrorInv /\ [Next]_vars => OneErrorInv'
<1> SUFFICES ASSUME OneErrorInv, [Next]_vars PROVE OneErrorInv'
  OBVIOUS
<1> USE NumToolsAssumption
<1>0. TypeOK /\ TypeOK' /\ NotedErrors /\ OneErrorPerTool
  BY TypeNext DEF OneErrorInv
<1> SUFFICES NotedErrors' /\ OneErrorPerTool'
  BY <1>0 DEF OneErrorInv
<1>1. ASSUME UNCHANGED <<status, results, errored>>
      PROVE  NotedErrors' /\ OneErrorPerTool'
  BY <1>0, <1>1 DEF NotedErrors, OneErrorPerTool
<1>2. CASE AddTool
  <2>1. added + 1 \in Tools /\ status[added + 1] = "absent"
    BY <1>0, <1>2 DEF AddTool, TypeOK, Tools
  <2>2. results[added + 1] = <<>>
    BY <1>0, <2>1 DEF NotedErrors
  <2> DEFINE st == [status EXCEPT ![added + 1] = "queued"]
  <2>3. st \in [Tools -> Statuses]
    BY <1>0, <2>1 DEF TypeOK, Statuses
  <2>4. \A j \in Tools : st[j] # status[j] => st[j] = "queued" /\ results[j] = <<>>
    BY <1>0, <2>1, <2>2 DEF TypeOK
  <2>5. RunLoop(st, 1, loops, settled)
    BY <1>2 DEF AddTool
  <2> QED
    BY <2>3, <2>4, <2>5, RunLoopErrors
<1>3. CASE AddUnknownTool
  <2>1. added + 1 \in Tools
    BY <1>0, <1>3 DEF AddUnknownTool, TypeOK, Tools
  <2>2. /\ results'[added + 1] = <<"err">> /\ status'[added + 1] = "completed"
        /\ errored' = errored
        /\ \A j \in Tools \ {added + 1} : results'[j] = results[j] /\ status'[j] = status[j]
    BY <1>0, <1>3, <2>1 DEF AddUnknownTool, TypeOK
  <2> QED
    BY <1>0, <2>1, <2>2 DEF NotedErrors, OneErrorPerTool
<1>4. status \in [Tools -> Statuses]
  BY <1>0 DEF TypeOK
<1>5. CASE RemainingQueue
  <2>1. ASSUME NEW i \in Tools, StartsNext(status, at, i), ExecuteTool(status, i)
        PROVE  NotedErrors' /\ OneErrorPerTool'
    <3>1. status[i] = "queued"
      BY <2>1 DEF StartsNext
    <3>2. results[i] = <<>>
      BY <1>0, <3>1 DEF NotedErrors
    <3> QED
      BY <1>4, <2>1, <3>1, <3>2, ExecuteToolErrors
  <2> QED
    BY <1>1, <1>5, <2>1 DEF RemainingQueue, QueueStalls
<1>6. CASE PollResults \/ StreamEnds \/ Discard
  BY <1>1, <1>6 DEF PollResults, StreamEnds, Discard, execVars
<1>7. CASE RemainingResults \/ TakeNext \/ ScanEnds \/ Wake
  BY <1>1, <1>7 DEF RemainingResults, TakeNext, ScanEnds, Wake, execVars
<1>8. CASE UserAborts \/ SubmitInterrupts \/ UNCHANGED vars
  BY <1>1, <1>8 DEF UserAborts, SubmitInterrupts, vars, execVars
<1>9. ASSUME NEW i \in Tools, Finally(i) \/ ResumeLoop(i)
      PROVE  NotedErrors' /\ OneErrorPerTool'
  BY <1>4, <1>9, RunLoopErrors DEF Finally, ResumeLoop
<1>10. ASSUME NEW i \in Tools, YieldProgress(i) \/ ToolEnds(i) \/ RejectPermission(i)
       PROVE  NotedErrors' /\ OneErrorPerTool'
  BY <1>1, <1>10 DEF YieldProgress, ToolEnds, RejectPermission, execVars
<1>11. ASSUME NEW i \in Tools, YieldResult(i) PROVE NotedErrors' /\ OneErrorPerTool'
  <2>1. /\ status'[i] = "yielded" /\ results' = results /\ errored' = errored
        /\ \A j \in Tools \ {i} : status'[j] = status[j]
    BY <1>0, <1>11 DEF YieldResult, TypeOK
  <2> QED
    BY <1>0, <2>1 DEF NotedErrors, OneErrorPerTool
<1>12. ASSUME NEW i \in Tools, ToolProgress(i) PROVE NotedErrors' /\ OneErrorPerTool'
  <2>1. CASE Abandons(i)
    <3>1. /\ status[i] = "executing" /\ ~errored[i] /\ errored' = errored
          /\ Complete(i, Append(results[i], "synthetic"))
      BY <1>12, <2>1 DEF ToolProgress, Abandons
    <3>2. "synthetic" \in Messages
      BY DEF Messages
    <3> QED
      BY <3>1, <3>2, CompleteErrors
  <2>2. CASE ~Abandons(i)
    BY <1>1, <1>12, <2>2 DEF ToolProgress
  <2> QED
    BY <2>1, <2>2
<1>13. ASSUME NEW i \in Tools, HandleUpdate(i) PROVE NotedErrors' /\ OneErrorPerTool'
  <2>1. status[i] = "executing" /\ pend[i] # <<>>
    BY <1>13 DEF HandleUpdate
  <2>2. CASE Abandons(i)
    <3>1. /\ ~errored[i] /\ errored' = errored
          /\ Complete(i, Append(results[i], "synthetic"))
      BY <1>13, <2>2 DEF HandleUpdate, Abandons
    <3>2. "synthetic" \in Messages
      BY DEF Messages
    <3> QED
      BY <2>1, <3>1, <3>2, CompleteErrors
  <2>3. CASE ~Abandons(i)
    <3> DEFINE update == Head(pend[i])
    <3>1. update \in Updates
      BY <1>0, <2>1 DEF TypeOK
    <3>2. update \in Messages /\ update # "synthetic"
      BY <3>1 DEF Messages, Updates
    <3>3. errored' = [errored EXCEPT ![i] = @ \/ update = "err"]
      BY <1>13, <2>3 DEF HandleUpdate
    <3>4. CASE Tail(pend[i]) = <<>>
      <4>1. Complete(i, Append(results[i], update))
        BY <1>13, <2>3, <3>4 DEF HandleUpdate
      <4>2. \A j \in Tools \ {i} : errored'[j] = errored[j]
        BY <1>0, <3>3 DEF TypeOK
      <4> QED
        BY <2>1, <3>2, <4>1, <4>2, CompleteErrors
    <3>5. CASE Tail(pend[i]) # <<>>
      <4>1. status' = status /\ results' = [results EXCEPT ![i] = Append(@, update)]
        BY <1>13, <2>3, <3>5 DEF HandleUpdate
      <4>2. results[i] \in Seq(Messages)
        BY <1>0 DEF TypeOK
      <4>3. /\ results'[i] = Append(results[i], update)
            /\ update = "err" => errored'[i]
            /\ errored[i] => errored'[i]
            /\ \A j \in Tools \ {i} : results'[j] = results[j] /\ errored'[j] = errored[j]
        BY <1>0, <3>3, <4>1 DEF TypeOK
      <4>4. \A m \in DOMAIN results'[i] :
                /\ results'[i][m] # "synthetic"
                /\ results'[i][m] = "err" => errored'[i]
        BY <1>0, <2>1, <3>2, <4>2, <4>3 DEF NotedErrors
      <4> QED
        BY <1>0, <2>1, <4>1, <4>3, <4>4 DEF NotedErrors, OneErrorPerTool
    <3> QED
      BY <3>4, <3>5
  <2> QED
    BY <2>2, <2>3
<1> QED
  BY <1>2, <1>3, <1>5, <1>6, <1>7, <1>8, <1>9, <1>10, <1>11, <1>12, <1>13
     DEF Next, Consumer, Stream, Runtime

\* A tool that reported its own error gets no synthetic one on top of it,
\* however its updates and the cancellation of its siblings interleave.
THEOREM OneErrorPerToolCorrect == Spec => []OneErrorPerTool
<1>1. Init => OneErrorInv
  <2>1. Init => TypeOK
    BY TypeInit
  <2>2. Init => NotedErrors /\ OneErrorPerTool
    BY DEF Init, NotedErrors, OneErrorPerTool
  <2> QED
    BY <2>1, <2>2 DEF OneErrorInv
<1>2. OneErrorInv => OneErrorPerTool
  BY DEF OneErrorInv
<1> QED
  BY <1>1, <1>2, OneErrorNext, PTL DEF Spec

-----------------------------------------------------------------------------
(* What the query loop was handed                                           *)

Yielded == {i \in Tools : status[i] = "yielded"}

\* The tools that were handed over are the yielded ones, each once
Emission ==
    /\ \A i \in Tools : i \in Yielded <=> \E m \in DOMAIN emitted : emitted[m] = i
    /\ Len(emitted) = Cardinality(Yielded)
\* Only a tool that executes, or waits to be handed over, is marked
MarksAreLive ==
    \A i \in progress \cup inProgress : status[i] \in {"executing", "completed"}
DoneMeansYielded == pc = "done" /\ ~discarded => \A i \in 1..added : i \in Yielded

EmissionInv == TypeOK /\ Emission /\ MarksAreLive /\ DoneMeansYielded

\* A step that hands over nothing keeps what was handed over
LEMMA EmissionKept ==
    ASSUME EmissionInv, emitted' = emitted,
           \A i \in Tools : status'[i] = "yielded" <=> status[i] = "yielded"
    PROVE  Yielded' = Yielded /\ Emission'
<1>1. Yielded' = Yielded
  BY DEF Yielded
<1> QED
  BY <1>1 DEF EmissionInv, Emission

\* What processQueue does from one await to the next
QueueStep(st, p) ==
    (\E i \in Tools : StartsNext(st, p, i) /\ ExecuteTool(st, i)) \/ QueueStalls(st, p)

\* It starts one tool that was queued, or none
LEMMA QueueStarts ==
    ASSUME TypeOK, NEW st \in [Tools -> Statuses], NEW p, QueueStep(st, p)
    PROVE  \/ status' = st /\ inProgress' = inProgress
           \/ \E i \in Tools :
                 /\ st[i] = "queued" /\ status'[i] \in {"executing", "completed"}
                 /\ \A j \in Tools \ {i} : status'[j] = st[j]
                 /\ inProgress' = inProgress \cup {i}
<1>1. ASSUME NEW i \in Tools, StartsNext(st, p, i), ExecuteTool(st, i)
      PROVE  /\ st[i] = "queued" /\ status'[i] \in {"executing", "completed"}
             /\ \A j \in Tools \ {i} : status'[j] = st[j]
             /\ inProgress' = inProgress \cup {i}
  BY <1>1, ExecuteToolType DEF StartsNext, ExecuteTool
<1>2. CASE QueueStalls(st, p)
  BY <1>2 DEF QueueStalls
<1> QED
  BY <1>1, <1>2 DEF QueueStep

\* Over a table that agrees with status except for one block that is queued
\* now, such a step keeps the parts of the invariant
LEMMA QueueEmits ==
    ASSUME EmissionInv, NEW st \in [Tools -> Statuses], NEW p, QueueStep(st, p),
           \A j \in Tools : st[j] # status[j] => status[j] = "absent" /\ st[j] = "queued",
           emitted' = emitted, progress' = progress, discarded' = discarded,
           pc' = "done" => pc = "done" /\ added' = added
    PROVE  Emission' /\ MarksAreLive' /\ DoneMeansYielded'
<1>1. TypeOK /\ progress \subseteq Tools /\ inProgress \subseteq Tools
  BY DEF EmissionInv, TypeOK
<1>2. \A j \in Tools : status'[j] # st[j] =>
          st[j] = "queued" /\ status'[j] \in {"executing", "completed"}
  BY <1>1, QueueStarts
<1>3. \A j \in Tools : status'[j] = "yielded" <=> status[j] = "yielded"
  BY <1>2
<1>4. Yielded' = Yielded /\ Emission'
  BY <1>3, EmissionKept
<1>5. \A j \in Tools : status[j] \in {"executing", "completed"} =>
          status'[j] \in {"executing", "completed"}
  BY <1>2
<1>6. \A j \in inProgress' : j \in inProgress \/ status'[j] \in {"executing", "completed"}
  BY <1>1, QueueStarts
<1>7. MarksAreLive'
  BY <1>1, <1>5, <1>6 DEF EmissionInv, MarksAreLive
<1>8. DoneMeansYielded'
  BY <1>4 DEF EmissionInv, DoneMeansYielded
<1> QED
  BY <1>4, <1>7, <1>8

\* So does a step that only moves an executing tool to completed, or no tool
LEMMA CompletionEmits ==
    ASSUME EmissionInv, TypeOK',
           \A j \in Tools : status'[j] # status[j] =>
               status[j] = "executing" /\ status'[j] = "completed",
           emitted' = emitted, inProgress' = inProgress, added' = added,
           \A j \in progress' : j \in progress \/ status'[j] = "executing",
           pc' = "done" /\ ~discarded' =>
               (pc = "done" /\ ~discarded) \/ \A j \in 1..added : j \in Yielded
    PROVE  Emission' /\ MarksAreLive' /\ DoneMeansYielded'
<1>1. progress \subseteq Tools /\ inProgress \subseteq Tools /\ progress' \subseteq Tools
  BY DEF EmissionInv, TypeOK
<1>2. Yielded' = Yielded /\ Emission'
  BY EmissionKept
<1>3. MarksAreLive'
  BY <1>1 DEF EmissionInv, MarksAreLive
<1>4. DoneMeansYielded'
  BY <1>2 DEF EmissionInv, DoneMeansYielded
<1> QED
  BY <1>2, <1>3, <1>4

\* An unknown tool is completed as it is added, while the stream is open
LEMMA UnknownEmits ==
    ASSUME EmissionInv, TypeOK', AddUnknownTool
    PROVE  Emission' /\ MarksAreLive' /\ DoneMeansYielded'
<1> USE NumToolsAssumption
<1>0. TypeOK
  BY DEF EmissionInv
<1>1. added + 1 \in Tools /\ status[added + 1] = "absent"
  BY <1>0 DEF AddUnknownTool, TypeOK, Tools
<1>2. /\ status'[added + 1] = "completed"
      /\ \A j \in Tools \ {added + 1} : status'[j] = status[j]
  BY <1>0, <1>1 DEF AddUnknownTool, TypeOK
<1>3. Yielded' = Yielded /\ Emission'
  BY <1>1, <1>2, EmissionKept DEF AddUnknownTool, consumerVars
<1>4. MarksAreLive'
  BY <1>0, <1>1, <1>2 DEF EmissionInv, MarksAreLive, AddUnknownTool, TypeOK
<1>5. DoneMeansYielded'
  BY DEF DoneMeansYielded, AddUnknownTool, consumerVars
<1> QED
  BY <1>3, <1>4, <1>5

\* A result is handed over once: the tool was completed and is yielded now
LEMMA YieldEmits ==
    ASSUME EmissionInv, TypeOK', NEW i \in Tools, YieldResult(i)
    PROVE  Emission' /\ MarksAreLive' /\ DoneMeansYielded'
<1>0. TypeOK
  BY DEF EmissionInv
<1>1. status[i] = "completed" /\ i \notin progress
  BY DEF YieldResult, Reaches, Offers
<1>2. status'[i] = "yielded" /\ \A j \in Tools \ {i} : status'[j] = status[j]
  BY <1>0 DEF YieldResult, TypeOK
<1>3. Yielded' = Yielded \cup {i} /\ i \notin Yielded
  BY <1>1, <1>2 DEF Yielded
<1>4. emitted \in Seq(Tools) /\ emitted' = Append(emitted, i)
  BY <1>0 DEF TypeOK, YieldResult
<1>5. \A j \in Tools : j \in Yielded' <=> \E m \in DOMAIN emitted' : emitted'[m] = j
  <2>1. Len(emitted) \in Nat /\ DOMAIN emitted = 1..Len(emitted)
    BY <1>4
  <2>2. /\ DOMAIN emitted' = 1..(Len(emitted) + 1)
        /\ emitted'[Len(emitted) + 1] = i
        /\ \A m \in 1..Len(emitted) : emitted'[m] = emitted[m]
    BY <1>4
  <2>3. \A m : m \in DOMAIN emitted' <=> m \in DOMAIN emitted \/ m = Len(emitted) + 1
    BY <2>1, <2>2
  <2> QED
    BY <1>3, <2>1, <2>2, <2>3 DEF EmissionInv, Emission
<1>6. Len(emitted') = Cardinality(Yielded')
  <2>1. IsFiniteSet(Yielded)
    <3>1. IsFiniteSet(Tools)
      BY NumToolsAssumption, FS_Interval DEF Tools
    <3>2. Yielded \in SUBSET Tools
      BY DEF Yielded
    <3> QED
      BY <3>1, <3>2, FS_Subset
  <2>2. Cardinality(Yielded') = Cardinality(Yielded) + 1
    BY <1>3, <2>1, FS_AddElement
  <2> QED
    BY <1>4, <2>2 DEF EmissionInv, Emission
<1>7. MarksAreLive'
  BY <1>0, <1>1, <1>2 DEF EmissionInv, MarksAreLive, YieldResult, TypeOK
<1>8. DoneMeansYielded'
  BY DEF DoneMeansYielded, YieldResult, Hand
<1> QED
  BY <1>5, <1>6, <1>7, <1>8 DEF Emission

\* Every step keeps it
LEMMA EmissionNext == EmissionInv /\ [Next]_vars => EmissionInv'
<1> SUFFICES ASSUME EmissionInv, [Next]_vars PROVE EmissionInv'
  OBVIOUS
<1> USE NumToolsAssumption
<1>0. TypeOK /\ TypeOK' /\ status \in [Tools -> Statuses]
  BY TypeNext DEF EmissionInv, TypeOK
<1> SUFFICES Emission' /\ MarksAreLive' /\ DoneMeansYielded'
  BY <1>0 DEF EmissionInv
<1>1. ASSUME UNCHANGED <<status, emitted, inProgress, added>>, progress' \subseteq progress,
             pc' = "done" /\ ~discarded' =>
               (pc = "done" /\ ~discarded) \/ \A j \in 1..added : j \in Yielded
      PROVE  Emission' /\ MarksAreLive' /\ DoneMeansYielded'
  BY <1>0, <1>1, CompletionEmits
<1>2. CASE AddTool
  <2>1. added + 1 \in Tools /\ status[added + 1] = "absent"
    BY <1>0, <1>2 DEF AddTool, TypeOK, Tools
  <2> DEFINE st == [status EXCEPT ![added + 1] = "queued"]
  <2>2. /\ st \in [Tools -> Statuses]
        /\ \A j \in Tools : st[j] # status[j] => status[j] = "absent" /\ st[j] = "queued"
    BY <1>0, <2>1 DEF Statuses
  <2>3. QueueStep(st, 1)
    BY <1>2 DEF AddTool, RunLoop, QueueStep
  <2>4. /\ emitted' = emitted /\ progress' = progress /\ discarded' = discarded
        /\ pc' = pc /\ pc # "done"
    BY <1>2 DEF AddTool, consumerVars, flagVars
  <2> QED
    BY <2>2, <2>3, <2>4, QueueEmits
<1>3. ASSUME NEW i \in Tools, Finally(i) \/ ResumeLoop(i)
      PROVE  Emission' /\ MarksAreLive' /\ DoneMeansYielded'
  <2>1. QueueStep(status, 1) \/ QueueStep(status, i + 1)
    BY <1>3 DEF Finally, ResumeLoop, RunLoop, QueueStep
  <2>2. UNCHANGED <<emitted, progress, discarded, pc, added>>
    BY <1>3 DEF Finally, ResumeLoop, consumerVars, flagVars
  <2> QED
    BY <1>0, <2>1, <2>2, QueueEmits
<1>4. CASE RemainingQueue
  <2>1. QueueStep(status, at)
    BY <1>4 DEF RemainingQueue, QueueStep
  <2>2. UNCHANGED <<emitted, progress, discarded, added>> /\ pc' # "done"
    BY <1>4 DEF RemainingQueue, flagVars
  <2> QED
    BY <1>0, <2>1, <2>2, QueueEmits
<1>5. CASE AddUnknownTool
  BY <1>0, <1>5, UnknownEmits
<1>6. ASSUME NEW i \in Tools, YieldResult(i)
      PROVE  Emission' /\ MarksAreLive' /\ DoneMeansYielded'
  BY <1>0, <1>6, YieldEmits
<1>7. ASSUME NEW i \in Tools, ToolProgress(i) \/ HandleUpdate(i)
      PROVE  Emission' /\ MarksAreLive' /\ DoneMeansYielded'
  <2>1. /\ UNCHANGED <<emitted, inProgress, added, pc, discarded>>
        /\ status[i] = "executing"
    BY <1>7 DEF ToolProgress, HandleUpdate, consumerVars, flagVars
  <2>2. status' = status \/ status' = [status EXCEPT ![i] = "completed"]
    BY <1>7 DEF ToolProgress, HandleUpdate, Complete
  <2>3. progress' = progress \/ (progress' = progress \cup {i} /\ status' = status)
    BY <1>7 DEF ToolProgress, HandleUpdate
  <2> QED
    BY <1>0, <2>1, <2>2, <2>3, CompletionEmits
<1>8. CASE RemainingResults
  <2>1. ~HasUnfinishedTools => \A j \in 1..added : j \in Yielded
    BY <1>0 DEF HasUnfinishedTools, Yielded, TypeOK, Tools
  <2> QED
    BY <1>1, <1>8, <2>1 DEF RemainingResults, execVars, flagVars
<1>9. CASE PollResults \/ StreamEnds \/ Discard \/ TakeNext \/ ScanEnds \/ Wake
           \/ UserAborts \/ SubmitInterrupts
  BY <1>1, <1>9 DEF PollResults, StreamEnds, Discard, TakeNext, ScanEnds, Wake,
     UserAborts, SubmitInterrupts, execVars, consumerVars, flagVars
<1>10. ASSUME NEW i \in Tools, YieldProgress(i) \/ ToolEnds(i) \/ RejectPermission(i)
       PROVE  Emission' /\ MarksAreLive' /\ DoneMeansYielded'
  BY <1>1, <1>10 DEF YieldProgress, ToolEnds, RejectPermission, Hand, execVars,
     consumerVars, flagVars
<1>11. CASE UNCHANGED vars
  BY <1>1, <1>11 DEF vars, execVars, consumerVars, flagVars
<1> QED
  BY <1>2, <1>3, <1>4, <1>5, <1>6, <1>7, <1>8, <1>9, <1>10, <1>11
     DEF Next, Consumer, Stream, Runtime

-----------------------------------------------------------------------------
(* What a completed tool has to hand over                                   *)

\* While its call runs a tool has reported nothing; once the call has ended
\* its tool_result is among the results or the updates not yet read; and a
\* completed tool has one, its own or a synthetic one.
Answering ==
    \A i \in Tools :
        /\ status[i] \in {"absent", "queued"} => pend[i] = <<>>
        /\ status[i] = "executing" =>
               \/ i \in live /\ pend[i] = <<>>
               \/ i \notin live /\ pend[i] # <<>>
                  /\ (HasResult(results[i]) \/ HasResult(pend[i]))
        /\ status[i] \in {"completed", "yielded"} => HasResult(results[i])

AnswerInv == TypeOK /\ Answering

\* A message appended keeps a tool_result, and may be one
LEMMA AppendResult ==
    ASSUME NEW messages \in Seq(Messages), NEW message \in Messages,
           HasResult(messages) \/ message # "extra"
    PROVE  HasResult(Append(messages, message))
<1>1. CASE HasResult(messages)
  <2>1. PICK m \in DOMAIN messages : messages[m] # "extra"
    BY <1>1 DEF HasResult
  <2>2. /\ m \in DOMAIN Append(messages, message)
        /\ Append(messages, message)[m] = messages[m]
    OBVIOUS
  <2> QED
    BY <2>1, <2>2 DEF HasResult
<1>2. CASE message # "extra"
  <2>1. /\ Len(messages) + 1 \in DOMAIN Append(messages, message)
        /\ Append(messages, message)[Len(messages) + 1] = message
    OBVIOUS
  <2> QED
    BY <1>2, <2>1 DEF HasResult
<1> QED
  BY <1>1, <1>2

\* Reading an update takes a tool_result or leaves it to be read
LEMMA ReadResult ==
    ASSUME NEW updates \in Seq(Updates), updates # <<>>, HasResult(updates)
    PROVE  Head(updates) # "extra" \/ HasResult(Tail(updates))
<1>1. PICK m \in DOMAIN updates : updates[m] # "extra"
  BY DEF HasResult
<1>2. CASE m = 1
  BY <1>1, <1>2
<1>3. CASE m # 1
  <2>1. m - 1 \in DOMAIN Tail(updates) /\ Tail(updates)[m - 1] = updates[m]
    BY <1>3
  <2> QED
    BY <1>1, <2>1 DEF HasResult
<1> QED
  BY <1>2, <1>3

\* A tool that is started is live, and one that is answered at once completed
LEMMA QueueAnswers ==
    ASSUME AnswerInv, NEW st \in [Tools -> Statuses], NEW p, QueueStep(st, p),
           \A j \in Tools : st[j] # status[j] => status[j] = "absent" /\ st[j] = "queued"
    PROVE  Answering'
<1>0. TypeOK /\ Answering
  BY DEF AnswerInv
<1>1. \A j \in Tools : st[j] \in {"absent", "queued"} => pend[j] = <<>>
  BY <1>0 DEF Answering
<1>2. ASSUME NEW i \in Tools, StartsNext(st, p, i), ExecuteTool(st, i) PROVE Answering'
  <2>1. st[i] = "queued" /\ pend' = pend /\ pend[i] = <<>>
    BY <1>1, <1>2 DEF StartsNext, ExecuteTool
  <2>2. \A j \in Tools \ {i} : status'[j] = st[j]
    BY <1>0, <1>2, ExecuteToolType
  <2>3. CASE AbortReason(i) = "none"
    <3>1. /\ status'[i] = "executing" /\ results' = results /\ live' = live \cup {i}
      BY <1>2, <2>3 DEF ExecuteTool
    <3> QED
      BY <1>0, <1>1, <2>1, <2>2, <3>1 DEF Answering
  <2>4. CASE AbortReason(i) # "none"
    <3>1. /\ status'[i] = "completed" /\ results'[i] = <<"synthetic">> /\ live' = live
          /\ \A j \in Tools \ {i} : results'[j] = results[j]
      BY <1>0, <1>2, <2>4 DEF ExecuteTool, TypeOK
    <3>2. HasResult(results'[i])
      BY <3>1 DEF HasResult
    <3> QED
      BY <1>0, <1>1, <2>1, <2>2, <3>1, <3>2 DEF Answering
  <2> QED
    BY <2>3, <2>4
<1>3. CASE QueueStalls(st, p)
  BY <1>0, <1>1, <1>3 DEF QueueStalls, Answering
<1> QED
  BY <1>2, <1>3 DEF QueueStep

\* A tool completes with a tool_result
LEMMA CompleteAnswers ==
    ASSUME AnswerInv, NEW i \in Tools, NEW message \in Messages,
           Complete(i, Append(results[i], message)), live' = live,
           HasResult(results[i]) \/ message # "extra"
    PROVE  Answering'
<1>0. TypeOK /\ Answering
  BY DEF AnswerInv
<1>1. /\ status'[i] = "completed" /\ results'[i] = Append(results[i], message)
      /\ \A j \in Tools \ {i} : /\ status'[j] = status[j] /\ results'[j] = results[j]
                              /\ pend'[j] = pend[j]
  BY <1>0 DEF Complete, TypeOK
<1>2. HasResult(results'[i])
  BY <1>0, <1>1, AppendResult DEF TypeOK
<1> QED
  BY <1>0, <1>1, <1>2 DEF Answering

\* An update that is read is a tool_result, or leaves one behind
LEMMA UpdateAnswers ==
    ASSUME AnswerInv, NEW i \in Tools, HandleUpdate(i)
    PROVE  Answering'
<1>0. TypeOK /\ Answering /\ results[i] \in Seq(Messages) /\ pend[i] \in Seq(Updates)
  BY DEF AnswerInv, TypeOK
<1>1. /\ status[i] = "executing" /\ pend[i] # <<>> /\ i \notin live /\ live' = live
      /\ HasResult(results[i]) \/ HasResult(pend[i])
  BY <1>0 DEF HandleUpdate, Answering
<1>2. CASE Abandons(i)
  <2>1. "synthetic" \in Messages
    BY DEF Messages
  <2>2. Complete(i, Append(results[i], "synthetic"))
    BY <1>2 DEF HandleUpdate
  <2> QED
    BY <1>1, <2>1, <2>2, CompleteAnswers
<1>3. CASE ~Abandons(i)
  <2> DEFINE update == Head(pend[i])
  <2>1. update \in Updates /\ update \in Messages /\ Tail(pend[i]) \in Seq(Updates)
    BY <1>0, <1>1 DEF Messages
  <2>2. HasResult(results[i]) \/ update # "extra" \/ HasResult(Tail(pend[i]))
    BY <1>0, <1>1, ReadResult
  <2>3. CASE Tail(pend[i]) = <<>>
    <3>1. Complete(i, Append(results[i], update))
      BY <1>3, <2>3 DEF HandleUpdate
    <3>2. ~HasResult(Tail(pend[i]))
      BY <2>3 DEF HasResult
    <3> QED
      BY <1>1, <2>1, <2>2, <3>1, <3>2, CompleteAnswers
  <2>4. CASE Tail(pend[i]) # <<>>
    <3>1. /\ status' = status
          /\ results'[i] = Append(results[i], update) /\ pend'[i] = Tail(pend[i])
          /\ \A j \in Tools \ {i} : results'[j] = results[j] /\ pend'[j] = pend[j]
      BY <1>0, <1>3, <2>4 DEF HandleUpdate, TypeOK
    <3>2. HasResult(results'[i]) \/ HasResult(pend'[i])
      BY <1>0, <2>1, <2>2, <3>1, AppendResult
    <3> QED
      BY <1>0, <1>1, <2>4, <3>1, <3>2 DEF Answering
  <2> QED
    BY <2>3, <2>4
<1> QED
  BY <1>2, <1>3

\* Every step keeps it
LEMMA AnswerNext == AnswerInv /\ [Next]_vars => AnswerInv'
<1> SUFFICES ASSUME AnswerInv, [Next]_vars PROVE AnswerInv'
  OBVIOUS
<1> USE NumToolsAssumption
<1>0. TypeOK /\ TypeOK' /\ Answering /\ status \in [Tools -> Statuses]
  BY TypeNext DEF AnswerInv, TypeOK
<1> SUFFICES Answering'
  BY <1>0 DEF AnswerInv
<1>1. ASSUME UNCHANGED <<status, results, pend, live>> PROVE Answering'
  BY <1>0, <1>1 DEF Answering
<1>2. CASE AddTool
  <2>1. added + 1 \in Tools /\ status[added + 1] = "absent"
    BY <1>0, <1>2 DEF AddTool, TypeOK, Tools
  <2> DEFINE st == [status EXCEPT ![added + 1] = "queued"]
  <2>2. /\ st \in [Tools -> Statuses]
        /\ \A j \in Tools : st[j] # status[j] => status[j] = "absent" /\ st[j] = "queued"
    BY <1>0, <2>1 DEF Statuses
  <2>3. QueueStep(st, 1)
    BY <1>2 DEF AddTool, RunLoop, QueueStep
  <2> QED
    BY <2>2, <2>3, QueueAnswers
<1>3. ASSUME NEW i \in Tools, Finally(i) \/ ResumeLoop(i) PROVE Answering'
  <2>1. QueueStep(status, 1) \/ QueueStep(status, i + 1)
    BY <1>3 DEF Finally, ResumeLoop, RunLoop, QueueStep
  <2> QED
    BY <1>0, <2>1, QueueAnswers
<1>4. CASE RemainingQueue
  <2>1. QueueStep(status, at)
    BY <1>4 DEF RemainingQueue, QueueStep
  <2> QED
    BY <1>0, <2>1, QueueAnswers
<1>5. CASE AddUnknownTool
  <2>1. added + 1 \in Tools
    BY <1>0, <1>5 DEF AddUnknownTool, TypeOK, Tools
  <2>2. /\ results'[added + 1] = <<"err">> /\ status'[added + 1] = "completed"
        /\ pend' = pend /\ live' = live
        /\ \A j \in Tools \ {added + 1} : results'[j] = results[j] /\ status'[j] = status[j]
    BY <1>0, <1>5, <2>1 DEF AddUnknownTool, TypeOK
  <2>3. HasResult(results'[added + 1])
    BY <2>2 DEF HasResult
  <2> QED
    BY <1>0, <2>1, <2>2, <2>3 DEF Answering
<1>6. ASSUME NEW i \in Tools, YieldResult(i) PROVE Answering'
  <2>1. /\ status[i] = "completed" /\ status' = [status EXCEPT ![i] = "yielded"]
        /\ UNCHANGED <<results, pend, live>>
    BY <1>6 DEF YieldResult, Reaches, Offers
  <2> QED
    BY <1>0, <2>1 DEF Answering
<1>7. ASSUME NEW i \in Tools, ToolProgress(i) PROVE Answering'
  <2>1. CASE Abandons(i)
    <3>1. "synthetic" \in Messages
      BY DEF Messages
    <3>2. Complete(i, Append(results[i], "synthetic")) /\ live' = live
      BY <1>7, <2>1 DEF ToolProgress
    <3> QED
      BY <3>1, <3>2, CompleteAnswers
  <2>2. CASE ~Abandons(i)
    BY <1>1, <1>7, <2>2 DEF ToolProgress
  <2> QED
    BY <2>1, <2>2
<1>8. ASSUME NEW i \in Tools, HandleUpdate(i) PROVE Answering'
  BY <1>8, UpdateAnswers
<1>9. ASSUME NEW i \in Tools, ToolEnds(i) PROVE Answering'
  <2>1. live' = live \ {i} /\ UNCHANGED <<status, results>> /\ i \in live
    BY <1>9 DEF ToolEnds
  <2>2. CASE status[i] = "executing"
    <3>1. PICK outcome \in Outcomes : pend' = [pend EXCEPT ![i] = outcome]
      BY <1>9, <2>2 DEF ToolEnds
    <3>2. outcome # <<>> /\ HasResult(outcome)
      BY <3>1, OutcomesAssumption, AnswersAssumption
    <3>3. pend'[i] = outcome /\ \A j \in Tools \ {i} : pend'[j] = pend[j]
      BY <1>0, <3>1 DEF TypeOK
    <3> QED
      BY <1>0, <2>1, <2>2, <3>2, <3>3 DEF Answering
  <2>3. CASE status[i] # "executing"
    <3>1. pend' = pend
      BY <1>9, <2>3 DEF ToolEnds
    <3> QED
      BY <1>0, <2>1, <2>3, <3>1 DEF Answering
  <2> QED
    BY <2>2, <2>3
<1>10. CASE PollResults \/ StreamEnds \/ Discard \/ RemainingResults \/ TakeNext
            \/ ScanEnds \/ Wake \/ UserAborts \/ SubmitInterrupts
  BY <1>1, <1>10 DEF PollResults, StreamEnds, Discard, RemainingResults, TakeNext,
     ScanEnds, Wake, UserAborts, SubmitInterrupts, execVars
<1>11. ASSUME NEW i \in Tools, YieldProgress(i) \/ RejectPermission(i) PROVE Answering'
  BY <1>1, <1>11 DEF YieldProgress, RejectPermission, execVars
<1>12. CASE UNCHANGED vars
  BY <1>1, <1>12 DEF vars, execVars
<1> QED
  BY <1>2, <1>3, <1>4, <1>5, <1>6, <1>7, <1>8, <1>9, <1>10, <1>11, <1>12
     DEF Next, Consumer, Stream, Runtime

-----------------------------------------------------------------------------
\* When the query loop has drained an executor, all that addTool received has
\* been answered, each block once, whatever failed or was cancelled on the way.
THEOREM EveryToolAnsweredCorrect == Spec => []EveryToolAnswered
<1>1. Init => EmissionInv /\ AnswerInv
  <2> SUFFICES ASSUME Init PROVE EmissionInv /\ AnswerInv
    OBVIOUS
  <2>1. TypeOK
    BY TypeInit
  <2>2. Yielded = {}
    BY DEF Init, Yielded
  <2>3. Emission
    BY <2>2, FS_EmptySet DEF Init, Emission
  <2>4. MarksAreLive /\ DoneMeansYielded /\ Answering
    BY DEF Init, MarksAreLive, DoneMeansYielded, Answering
  <2> QED
    BY <2>1, <2>3, <2>4 DEF EmissionInv, AnswerInv
<1>2. EmissionInv /\ AnswerInv => EveryToolAnswered
  <2> SUFFICES ASSUME EmissionInv, AnswerInv, pc = "done", ~discarded
               PROVE  /\ Len(emitted) = added
                      /\ \A i \in 1..added : (\E m \in DOMAIN emitted : emitted[m] = i)
                                             /\ HasResult(results[i])
                      /\ inProgress = {} /\ progress = {}
    BY DEF EveryToolAnswered
  <2>1. TypeOK /\ 1..added \subseteq Tools
    BY NumToolsAssumption DEF EmissionInv, TypeOK, Tools
  <2>2. \A i \in 1..added : i \in Yielded
    BY DEF EmissionInv, DoneMeansYielded
  <2>3. \A i \in Tools : i \in 1..added \/ status[i] = "absent"
    BY <2>1, NumToolsAssumption DEF TypeOK, Tools
  <2>4. Yielded = 1..added
    BY <2>1, <2>2, <2>3 DEF Yielded
  <2>5. Cardinality(1..added) = added
    BY <2>1, NumToolsAssumption, FS_Interval DEF TypeOK
  <2>6. Len(emitted) = added
    BY <2>4, <2>5 DEF EmissionInv, Emission
  <2>7. \A i \in 1..added : (\E m \in DOMAIN emitted : emitted[m] = i)
                            /\ HasResult(results[i])
    BY <2>1, <2>2 DEF EmissionInv, Emission, AnswerInv, Answering, Yielded
  <2>8. progress \cup inProgress = {}
    BY <2>1, <2>2, <2>3 DEF EmissionInv, MarksAreLive, TypeOK, Yielded
  <2> QED
    BY <2>6, <2>7, <2>8
<1> QED
  BY <1>1, <1>2, EmissionNext, AnswerNext, PTL DEF Spec
=============================================================================
