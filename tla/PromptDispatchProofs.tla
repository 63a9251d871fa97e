------------------------ MODULE PromptDispatchProofs ------------------------
(***************************************************************************)
(* Theorems about PromptDispatch for every number of commands, runs and    *)
(* interventions of the user, and every set of kinds.                      *)
(***************************************************************************)
EXTENDS PromptDispatch, FiniteSetTheorems, WellFoundedInduction, TLAPS

\* The part of the type invariant that the guard needs
GuardTypes ==
    /\ guard \in GuardType
    /\ phase \in [Runs -> Phases]
    /\ gen \in [Runs -> Nat]

OwnerInv == GuardTypes /\ OneOwner

\* What the methods of QueryGuard return
LEMMA GuardFacts ==
    ASSUME NEW g \in GuardType, NEW n \in Nat
    PROVE  /\ Reserve(g) \in GuardType /\ Reserve(g).generation = g.generation
           /\ Reserve(g).status = "running" <=> g.status = "running"
           /\ IsActive(Reserve(g))
           /\ CancelReservation(g) \in GuardType
           /\ CancelReservation(g).generation = g.generation
           /\ CancelReservation(g).status = "running" <=> g.status = "running"
           /\ IsActive(CancelReservation(g)) <=> g.status = "running"
           /\ TryStart(g) \in GuardType /\ TryStart(g).status = "running"
           /\ TryStart(g).generation = g.generation + 1
           /\ End(g, n) \in GuardType /\ End(g, n).generation = g.generation
           /\ Owns(g, n) => End(g, n).status = "idle"
           /\ ~Owns(g, n) => End(g, n) = g
           /\ ForceEnd(g) \in GuardType /\ ~IsActive(ForceEnd(g))
           /\ IsActive(g) => ForceEnd(g).generation = g.generation + 1
           /\ ~IsActive(g) => ForceEnd(g) = g
  BY DEF GuardType, Reserve, IsActive, CancelReservation, TryStart, End, Owns, ForceEnd

\* A step that starts, ends and reassigns no query, and moves the guard at
\* most between idle and dispatching, keeps the owner.
LEMMA OwnerKept ==
    ASSUME OwnerInv, guard' \in GuardType, guard'.generation = guard.generation,
           guard'.status = "running" <=> guard.status = "running",
           phase' \in [Runs -> Phases], gen' \in [Runs -> Nat],
           Querying' = Querying, \A r \in Querying : gen'[r] = gen[r]
    PROVE  OwnerInv'
  BY DEF OwnerInv, GuardTypes, OneOwner

\* A run that is not querying starts the query of the next generation
LEMMA OwnerStarts ==
    ASSUME OwnerInv, NEW r \in Runs, r \notin Querying, CanStart(guard),
           guard' = TryStart(guard), phase' = [phase EXCEPT ![r] = "querying"],
           gen' = [gen EXCEPT ![r] = guard'.generation]
    PROVE  OwnerInv'
<1>1. guard \in GuardType /\ guard.generation \in Nat
  BY DEF OwnerInv, GuardTypes, GuardType
<1>2. guard' \in GuardType /\ guard'.status = "running"
      /\ guard'.generation = guard.generation + 1
  BY <1>1, GuardFacts
<1>3. GuardTypes'
  BY <1>1, <1>2 DEF OwnerInv, GuardTypes, Phases
<1>4. Querying' = Querying \cup {r} /\ gen'[r] = guard'.generation
      /\ \A s \in Querying : gen'[s] = gen[s] /\ gen[s] \in Nat
  BY DEF OwnerInv, GuardTypes, Querying
<1>5. \A s \in Querying : gen[s] <= guard.generation
  BY DEF OwnerInv, OneOwner
<1>6. \A s, t \in Querying : s # t => gen[s] # gen[t]
  BY DEF OwnerInv, OneOwner
<1>7. OneOwner'
  BY <1>1, <1>2, <1>4, <1>5, <1>6 DEF OneOwner
<1> QED
  BY <1>3, <1>7 DEF OwnerInv

\* A run that is free or processing ends, or one is started: neither is a query
LEMMA NotQuerying ==
    ASSUME GuardTypes, NEW r \in Runs, r \notin Querying,
           NEW p \in {"free", "processing"}, phase' = [phase EXCEPT ![r] = p]
    PROVE  phase' \in [Runs -> Phases] /\ Querying' = Querying
  BY DEF GuardTypes, Querying, Phases

\* FreeRun of a run that is not querying
LEMMA OwnerFreed ==
    ASSUME OwnerInv, NEW r \in Runs, phase[r] = "processing", FreeRun(r),
           guard' = CancelReservation(guard)
    PROVE  OwnerInv'
<1>1. GuardTypes
  BY DEF OwnerInv
<1>2. phase' \in [Runs -> Phases] /\ Querying' = Querying
  BY <1>1, NotQuerying DEF FreeRun, Querying
<1>3. gen' \in [Runs -> Nat] /\ \A s \in Querying : gen'[s] = gen[s]
  BY <1>1 DEF FreeRun, GuardTypes, Querying
<1> QED
  BY <1>1, <1>2, <1>3, OwnerKept, GuardFacts DEF GuardTypes

\* A query ends.  If it owned the guard nobody does now; if not, whoever did
\* still does.
LEMMA OwnerEnds ==
    ASSUME OwnerInv, NEW r \in Runs, QueryEnds(r)
    PROVE  OwnerInv'
<1> DEFINE ended == End(guard, gen[r])
<1>1. guard \in GuardType /\ guard.generation \in Nat /\ gen[r] \in Nat /\ r \in Querying
  BY DEF OwnerInv, GuardTypes, GuardType, QueryEnds, Querying
<1>2. ended \in GuardType /\ ended.generation = guard.generation
      /\ (Owns(guard, gen[r]) => ended.status = "idle")
      /\ (~Owns(guard, gen[r]) => ended = guard)
  BY <1>1, GuardFacts
<1>3. guard' = ended \/ guard' = CancelReservation(ended)
  BY DEF QueryEnds
<1>4. guard' \in GuardType /\ guard'.generation = guard.generation
      /\ (guard'.status = "running" <=> ended.status = "running")
  BY <1>1, <1>2, <1>3, GuardFacts
<1>5. phase' = [phase EXCEPT ![r] = "free"] /\ gen' = [gen EXCEPT ![r] = 0]
  BY DEF QueryEnds, FreeRun
<1>6. Querying' = Querying \ {r} /\ \A s \in Querying \ {r} : gen'[s] = gen[s]
  BY <1>5 DEF OwnerInv, GuardTypes, Querying
<1>7. GuardTypes'
  BY <1>4, <1>5 DEF OwnerInv, GuardTypes, Phases
<1>8. OneOwner
  BY DEF OwnerInv
<1>9. CASE Owns(guard, gen[r])
  <2>1. guard'.status # "running" /\ gen[r] = guard.generation
    BY <1>2, <1>4, <1>9 DEF Owns
  <2>2. \A s \in Querying \ {r} : gen[s] # guard.generation
    BY <1>1, <1>8, <2>1 DEF OneOwner
  <2> QED
    BY <1>4, <1>6, <1>7, <1>8, <2>1, <2>2 DEF OwnerInv, OneOwner
<1>10. CASE ~Owns(guard, gen[r])
  <2>1. guard'.status = "running" <=> guard.status = "running"
    BY <1>2, <1>4, <1>10
  <2>2. guard.status = "running" => gen[r] # guard.generation
    BY <1>10 DEF Owns
  <2> QED
    BY <1>4, <1>6, <1>7, <1>8, <2>1, <2>2 DEF OwnerInv, OneOwner
<1> QED
  BY <1>9, <1>10

\* ESC: the generation moves past that of every query in flight
LEMMA OwnerCancelled ==
    ASSUME OwnerInv, Cancel
    PROVE  OwnerInv'
<1>1. guard \in GuardType /\ guard.generation \in Nat
  BY DEF OwnerInv, GuardTypes, GuardType
<1>2. guard' \in GuardType /\ ~IsActive(guard')
      /\ (IsActive(guard) => guard'.generation = guard.generation + 1)
      /\ (~IsActive(guard) => guard' = guard)
  BY <1>1, GuardFacts DEF Cancel
<1>3. phase' = phase /\ gen' = gen
  BY DEF Cancel
<1>4. \A s \in Querying : gen[s] \in Nat
  BY DEF OwnerInv, GuardTypes, Querying
<1> QED
  BY <1>1, <1>2, <1>3, <1>4 DEF OwnerInv, GuardTypes, OneOwner, Querying, IsActive

\* executeUserInput takes a free run
LEMMA OwnerExecutes ==
    ASSUME OwnerInv, NEW r \in Runs, NEW commands, ExecuteUserInput(r, commands)
    PROVE  OwnerInv'
<1>1. GuardTypes /\ r \notin Querying
  BY DEF OwnerInv, ExecuteUserInput, NextRun, InFlight, Querying
<1>2. phase' \in [Runs -> Phases] /\ Querying' = Querying
  BY <1>1, NotQuerying DEF ExecuteUserInput
<1> QED
  BY <1>1, <1>2, OwnerKept, GuardFacts DEF ExecuteUserInput, GuardTypes

\* Every step keeps the one owner: one case per action
LEMMA OwnerNext == OwnerInv /\ [Next]_vars => OwnerInv'
<1> SUFFICES ASSUME OwnerInv, [Next]_vars PROVE OwnerInv'
  OBVIOUS
<1>0. GuardTypes
  BY DEF OwnerInv
<1>1. ASSUME UNCHANGED <<guard, phase, gen>> PROVE OwnerInv'
  BY <1>1 DEF OwnerInv, GuardTypes, OneOwner, Querying
<1>2. CASE Submit
  BY <1>2, OwnerExecutes DEF Submit
<1>3. CASE RenderStartsRun
  BY <1>3, OwnerExecutes DEF RenderStartsRun
<1>4. CASE IncomingPrompt
  <2>1. PICK r \in Runs : /\ ~IsActive(guard) /\ NextRun(r)
                          /\ guard' = TryStart(guard)
                          /\ phase' = [phase EXCEPT ![r] = "querying"]
                          /\ gen' = [gen EXCEPT ![r] = guard'.generation]
    BY <1>4 DEF IncomingPrompt
  <2>2. r \notin Querying /\ CanStart(guard)
    BY <2>1 DEF NextRun, InFlight, Querying, CanStart, IsActive
  <2> QED
    BY <2>1, <2>2, OwnerStarts
<1>5. ASSUME NEW r \in Runs, StartQuery(r) PROVE OwnerInv'
  <2>1. r \notin Querying
    BY <1>5 DEF StartQuery, Querying
  <2> QED
    BY <1>5, <2>1, OwnerStarts DEF StartQuery
<1>6. ASSUME NEW r \in Runs, Requeue(r) \/ LocalCommand(r) \/ ProcessingFails(r)
      PROVE  OwnerInv'
  BY <1>6, OwnerFreed DEF Requeue, LocalCommand, ProcessingFails
<1>7. ASSUME NEW r \in Runs, DrainSnapshot(r) \/ DrainDone(r) PROVE OwnerInv'
  <2>1. \E p \in {"querying", "draining"} :
            phase' = [phase EXCEPT ![r] = p] /\ r \in Querying
    BY <1>7 DEF DrainSnapshot, DrainDone, Querying
  <2>2. phase' \in [Runs -> Phases] /\ Querying' = Querying
    BY <1>0, <2>1 DEF GuardTypes, Phases, Querying
  <2>3. guard' = guard /\ gen' = gen
    BY <1>7 DEF DrainSnapshot, DrainDone
  <2> QED
    BY <1>0, <2>2, <2>3, OwnerKept DEF GuardTypes
<1>8. ASSUME NEW r \in Runs, QueryEnds(r) PROVE OwnerInv'
  BY <1>8, OwnerEnds
<1>9. CASE Cancel
  BY <1>9, OwnerCancelled
<1>10. CASE SubmitQueued \/ Notify \/ SubagentTakes \/ RenderFindsNothing
            \/ InterruptForNow \/ PopAllEditable \/ UNCHANGED vars
  BY <1>1, <1>10 DEF SubmitQueued, Notify, SubagentTakes, RenderFindsNothing,
     InterruptForNow, PopAllEditable, vars, runVars
<1> QED
  BY <1>2, <1>3, <1>4, <1>5, <1>6, <1>7, <1>8, <1>9, <1>10 DEF Next, Render, RunStep

\* The REPL starts with an idle guard and no run
LEMMA OwnerInit == Init => OwnerInv
  BY DEF Init, OwnerInv, GuardTypes, OneOwner, NewGuard, GuardType, Querying, Phases

\* Whatever the user cancels and however late the cancelled queries return,
\* the guard is running for exactly one query, the newest one.
THEOREM OneOwnerCorrect == Spec => []OneOwner
<1>1. OwnerInv => OneOwner
  BY DEF OwnerInv
<1> QED
  BY <1>1, OwnerInit, OwnerNext, PTL DEF Spec

-----------------------------------------------------------------------------
\* A cancelled query that ends while a newer one runs leaves the guard alone,
\* because its generation is older.
THEOREM StaleEndIsHarmlessCorrect == Spec => StaleEndIsHarmless
<1> DEFINE Harmless ==
      \A r \in Querying :
          /\ guard.status = "running" /\ gen[r] # guard.generation
          /\ phase'[r] = "free"
          => guard' = guard
<1>1. OwnerInv /\ [Next]_vars => Harmless
  <2> SUFFICES ASSUME OwnerInv, [Next]_vars, NEW r \in Querying,
                      guard.status = "running", gen[r] # guard.generation,
                      phase'[r] = "free"
               PROVE  guard' = guard
    OBVIOUS
  <2>1. /\ phase \in [Runs -> Phases] /\ guard \in GuardType /\ r \in Runs
        /\ phase[r] \in {"querying", "draining"} /\ phase[r] # "free"
    BY DEF OwnerInv, GuardTypes, Querying
  <2>2. \A s \in Runs : gen[s] \in Nat
    BY DEF OwnerInv, GuardTypes
  <2>3. CASE Submit \/ RenderStartsRun \/ IncomingPrompt \/ Cancel
    BY <2>1, <2>3 DEF Submit, RenderStartsRun, IncomingPrompt, Cancel, ExecuteUserInput
  <2>4. ASSUME NEW s \in Runs, StartQuery(s) PROVE guard' = guard
    BY <2>1, <2>4 DEF StartQuery
  <2>5. ASSUME NEW s \in Runs, Requeue(s) \/ LocalCommand(s) \/ ProcessingFails(s)
        PROVE  guard' = guard
    BY <2>5 DEF Requeue, LocalCommand, ProcessingFails, CancelReservation
  <2>6. ASSUME NEW s \in Runs, QueryEnds(s) PROVE guard' = guard
    <3>1. s = r
      BY <2>1, <2>6 DEF QueryEnds, FreeRun
    <3>2. ~Owns(guard, gen[r])
      BY DEF Owns
    <3>3. End(guard, gen[r]) = guard
      BY <3>2 DEF End
    <3> QED
      BY <2>6, <3>1, <3>3 DEF QueryEnds, CancelReservation
  <2>7. ASSUME NEW s \in Runs, DrainSnapshot(s) \/ DrainDone(s) PROVE guard' = guard
    BY <2>7 DEF DrainSnapshot, DrainDone
  <2>8. CASE SubmitQueued \/ Notify \/ SubagentTakes \/ RenderFindsNothing
             \/ InterruptForNow \/ PopAllEditable \/ UNCHANGED vars
    BY <2>8 DEF SubmitQueued, Notify, SubagentTakes, RenderFindsNothing,
       InterruptForNow, PopAllEditable, vars
  <2> QED
    BY <2>3, <2>4, <2>5, <2>6, <2>7, <2>8 DEF Next, Render, RunStep
<1> QED
  BY <1>1, OwnerInit, OwnerNext, PTL DEF Spec, StaleEndIsHarmless

-----------------------------------------------------------------------------
\* A query keeps the guard running.  With the owner this makes
\* UncancelledExclusive inductive: the run that ends is the one that owns it.
QueryHoldsGuard == cancels = 0 => (Querying # {} => guard.status = "running")
UncancelledInv ==
    /\ OwnerInv /\ cancels \in Nat
    /\ UncancelledExclusive
    /\ QueryHoldsGuard

\* What UncancelledExclusive says of a state with one run in flight, and of one
\* with none
LEMMA OneRunInFlight ==
    ASSUME OwnerInv', cancels' = 0, NEW r \in Runs, InFlight' = {r},
           IsActive(guard'), controller' = r,
           Querying' # {} => guard'.status = "running"
    PROVE  UncancelledInv'
  BY DEF UncancelledInv, UncancelledExclusive, QueryHoldsGuard

LEMMA NoRunInFlight ==
    ASSUME OwnerInv', cancels' = 0, InFlight' = {}, ~IsActive(guard')
    PROVE  UncancelledInv'
<1>1. Querying' = {}
  BY DEF Querying, InFlight
<1> QED
  BY <1>1 DEF UncancelledInv, UncancelledExclusive, QueryHoldsGuard

\* As long as nothing is cancelled, a run in flight is the only one
LEMMA TheOneRun ==
    ASSUME UncancelledInv, cancels = 0, NEW r \in Runs, r \in InFlight
    PROVE  /\ InFlight = {r} /\ Querying \subseteq {r}
           /\ IsActive(guard) /\ controller = r
<1>1. InFlight = {r} /\ IsActive(guard) /\ controller = r
  BY DEF UncancelledInv, UncancelledExclusive
<1> QED
  BY <1>1 DEF Querying, InFlight

\* A run that is still processing holds a reservation: nothing else can have
\* started a query
LEMMA ReservedWhileProcessing ==
    ASSUME UncancelledInv, cancels = 0, NEW r \in Runs, phase[r] = "processing"
    PROVE  CanStart(guard) /\ guard.status = "dispatching"
<1>1. r \in InFlight /\ r \notin Querying
  BY DEF InFlight, Querying
<1>2. Querying = {} /\ IsActive(guard)
  BY <1>1, TheOneRun
<1>3. guard.status # "running" /\ guard \in GuardType
  BY <1>2 DEF UncancelledInv, OwnerInv, OneOwner, GuardTypes
<1> QED
  BY <1>2, <1>3 DEF CanStart, IsActive, GuardType

\* A run is started on an idle guard
LEMMA UncancelledExecutes ==
    ASSUME UncancelledInv, cancels' = 0, cancels = 0, ~IsActive(guard), NEW r \in Runs,
           NEW commands, ExecuteUserInput(r, commands)
    PROVE  UncancelledInv'
<1>1. InFlight = {} /\ OwnerInv /\ GuardTypes /\ guard \in GuardType
  BY DEF UncancelledInv, UncancelledExclusive, OwnerInv, GuardTypes
<1>2. OwnerInv'
  BY <1>1, OwnerExecutes
<1>3. InFlight' = {r} /\ Querying' = {}
  BY <1>1 DEF ExecuteUserInput, InFlight, Querying, GuardTypes
<1>4. IsActive(guard') /\ controller' = r
  BY <1>1, GuardFacts DEF ExecuteUserInput
<1> QED
  BY <1>2, <1>3, <1>4, OneRunInFlight

\* The one run ends before its query started
LEMMA UncancelledFreed ==
    ASSUME UncancelledInv, cancels' = 0, cancels = 0, NEW r \in Runs,
           phase[r] = "processing", FreeRun(r), guard' = CancelReservation(guard)
    PROVE  UncancelledInv'
<1>1. OwnerInv /\ GuardTypes /\ guard \in GuardType /\ r \in InFlight
  BY DEF UncancelledInv, OwnerInv, GuardTypes, InFlight
<1>2. OwnerInv'
  BY <1>1, OwnerFreed
<1>3. InFlight = {r}
  BY <1>1, TheOneRun
<1>4. InFlight' = {}
  BY <1>1, <1>3 DEF FreeRun, InFlight, GuardTypes
<1>5. ~IsActive(guard')
  BY <1>1, GuardFacts, ReservedWhileProcessing
<1> QED
  BY <1>2, <1>4, <1>5, NoRunInFlight

\* The one query ends, and it owns the guard
LEMMA UncancelledEnds ==
    ASSUME UncancelledInv, cancels' = 0, cancels = 0, NEW r \in Runs, QueryEnds(r)
    PROVE  UncancelledInv'
<1> DEFINE ended == End(guard, gen[r])
<1>1. OwnerInv /\ GuardTypes /\ guard \in GuardType /\ gen[r] \in Nat
      /\ r \in InFlight /\ r \in Querying
  BY DEF UncancelledInv, OwnerInv, GuardTypes, InFlight, Querying, QueryEnds
<1>2. OwnerInv'
  BY <1>1, OwnerEnds
<1>3. InFlight = {r} /\ Querying \subseteq {r}
  BY <1>1, TheOneRun
<1>4. InFlight' = {}
  BY <1>1, <1>3 DEF QueryEnds, FreeRun, InFlight, GuardTypes
<1>5. guard.status = "running"
  BY <1>1 DEF UncancelledInv, QueryHoldsGuard
<1>6. gen[r] = guard.generation
  BY <1>1, <1>3, <1>5 DEF OwnerInv, OneOwner
<1>7. ended \in GuardType /\ ended.status = "idle"
  BY <1>1, <1>5, <1>6, GuardFacts DEF Owns
<1>8. guard' = ended \/ guard' = CancelReservation(ended)
  BY DEF QueryEnds
<1>9. ~IsActive(guard')
  BY <1>7, <1>8 DEF IsActive, CancelReservation
<1> QED
  BY <1>2, <1>4, <1>9, NoRunInFlight

\* Every step keeps the exclusion until the first cancellation
LEMMA UncancelledNext == UncancelledInv /\ [Next]_vars => UncancelledInv'
<1> SUFFICES ASSUME UncancelledInv, [Next]_vars PROVE UncancelledInv'
  OBVIOUS
<1>1. OwnerInv /\ OwnerInv' /\ GuardTypes /\ cancels \in Nat
  BY OwnerNext DEF UncancelledInv, OwnerInv
<1>2. CASE Cancel
  BY <1>1, <1>2 DEF Cancel, UncancelledInv, UncancelledExclusive, QueryHoldsGuard
<1>3. CASE ~Cancel
  <2>1. cancels' = cancels
    BY <1>3 DEF Next, Render, RunStep, vars, userVars, Submit, SubmitQueued, Notify,
       IncomingPrompt, SubagentTakes, RenderStartsRun, RenderFindsNothing,
       InterruptForNow, PopAllEditable, StartQuery, Requeue, LocalCommand,
       ProcessingFails, DrainSnapshot, DrainDone, QueryEnds
  <2>2. CASE cancels # 0
    BY <1>1, <2>1, <2>2 DEF UncancelledInv, UncancelledExclusive, QueryHoldsGuard
  <2>3. CASE cancels = 0
    <3>1. cancels' = 0
      BY <2>1, <2>3
    <3>2. ASSUME UNCHANGED <<guard, phase, gen, controller>> PROVE UncancelledInv'
      BY <1>1, <2>1, <3>2 DEF UncancelledInv, UncancelledExclusive, QueryHoldsGuard,
         InFlight, Querying
    <3>3. CASE Submit
      BY <2>3, <3>1, <3>3, UncancelledExecutes DEF Submit
    <3>4. CASE RenderStartsRun
      BY <2>3, <3>1, <3>4, UncancelledExecutes DEF RenderStartsRun
    <3>5. CASE IncomingPrompt
      <4>1. PICK r \in Runs : /\ ~IsActive(guard)
                              /\ guard' = TryStart(guard)
                              /\ phase' = [phase EXCEPT ![r] = "querying"]
                              /\ controller' = r
        BY <3>5 DEF IncomingPrompt
      <4>2. InFlight = {} /\ guard \in GuardType
        BY <1>1, <2>3, <4>1 DEF UncancelledInv, UncancelledExclusive, GuardTypes
      <4>3. InFlight' = {r}
        BY <1>1, <4>1, <4>2 DEF InFlight, GuardTypes
      <4>4. guard'.status = "running" /\ IsActive(guard')
        BY <4>1 DEF TryStart, IsActive
      <4> QED
        BY <1>1, <3>1, <4>1, <4>3, <4>4, OneRunInFlight
    <3>6. ASSUME NEW r \in Runs, StartQuery(r) PROVE UncancelledInv'
      <4>1. r \in InFlight
        BY <3>6 DEF StartQuery, InFlight
      <4>2. InFlight = {r} /\ controller = r
        BY <2>3, <4>1, TheOneRun
      <4>3. InFlight' = {r} /\ controller' = r
        BY <1>1, <3>6, <4>2 DEF StartQuery, InFlight, GuardTypes, uiVars
      <4>4. guard'.status = "running" /\ IsActive(guard')
        BY <3>6 DEF StartQuery, TryStart, IsActive
      <4> QED
        BY <1>1, <3>1, <4>3, <4>4, OneRunInFlight
    <3>7. ASSUME NEW r \in Runs, Requeue(r) PROVE UncancelledInv'
      BY <2>3, <3>7, ReservedWhileProcessing DEF Requeue
    <3>8. ASSUME NEW r \in Runs, LocalCommand(r) \/ ProcessingFails(r)
          PROVE  UncancelledInv'
      BY <2>3, <3>1, <3>8, UncancelledFreed DEF LocalCommand, ProcessingFails
    <3>9. ASSUME NEW r \in Runs, DrainSnapshot(r) \/ DrainDone(r)
          PROVE  UncancelledInv'
      <4>1. \E p \in {"querying", "draining"} : phase' = [phase EXCEPT ![r] = p]
        BY <3>9 DEF DrainSnapshot, DrainDone
      <4>2. r \in Querying /\ guard' = guard /\ controller' = controller
        BY <3>9 DEF DrainSnapshot, DrainDone, Querying, uiVars
      <4>3. InFlight' = InFlight /\ Querying' = Querying
        BY <1>1, <4>1, <4>2 DEF InFlight, Querying, GuardTypes
      <4> QED
        BY <1>1, <2>1, <4>2, <4>3 DEF UncancelledInv, UncancelledExclusive, QueryHoldsGuard
    <3>10. ASSUME NEW r \in Runs, QueryEnds(r) PROVE UncancelledInv'
      BY <2>3, <3>1, <3>10, UncancelledEnds
    <3>11. CASE SubmitQueued \/ Notify \/ SubagentTakes \/ RenderFindsNothing
                \/ InterruptForNow \/ PopAllEditable \/ UNCHANGED vars
      BY <3>2, <3>11 DEF SubmitQueued, Notify, SubagentTakes, RenderFindsNothing,
         InterruptForNow, PopAllEditable, vars, runVars, uiVars
    <3> QED
      BY <1>3, <3>3, <3>4, <3>5, <3>6, <3>7, <3>8, <3>9, <3>10, <3>11
         DEF Next, Render, RunStep
  <2> QED
    BY <2>2, <2>3
<1> QED
  BY <1>2, <1>3

\* Nothing is in flight and nothing was cancelled at the start
LEMMA UncancelledInit == Init => UncancelledInv
<1> SUFFICES ASSUME Init PROVE UncancelledInv
  OBVIOUS
<1>1. OwnerInv /\ cancels = 0
  BY OwnerInit DEF Init
<1>2. InFlight = {} /\ Querying = {} /\ ~IsActive(guard)
  BY DEF Init, InFlight, Querying, IsActive, NewGuard
<1> QED
  BY <1>1, <1>2 DEF UncancelledInv, UncancelledExclusive, QueryHoldsGuard

\* Until the user cancels something the guard does what it is there for: one
\* run at a time, and ESC reaches it.
THEOREM UncancelledExclusiveCorrect == Spec => []UncancelledExclusive
<1>1. UncancelledInv => UncancelledExclusive
  BY DEF UncancelledInv
<1> QED
  BY <1>1, UncancelledInit, UncancelledNext, PTL DEF Spec

-----------------------------------------------------------------------------
(* What the operators on the queue return.                                  *)

\* The numberings of the places P, in their order: at[i] is the i-th of them
Numberings(n, P) ==
    {a \in [1..n -> P] : /\ \A i, j \in 1..n : i < j => a[i] < a[j]
                         /\ \A p \in P : \E i \in 1..n : a[i] = p}

\* Every set of naturals with a member has a least one
LEMMA LeastNatural ==
    ASSUME NEW T \in SUBSET Nat, T # {}
    PROVE  \E b \in T : \A c \in T : b <= c
<1>1. PICK b \in T : \A c \in T : ~(<<c, b>> \in OpToRel(<, Nat))
  BY NatLessThanWellFounded, WFMin
<1>2. \A c \in T : ~(c < b)
  BY <1>1 DEF OpToRel
<1>3. b \in Nat /\ \A c \in T : c \in Nat
  OBVIOUS
<1> QED
  BY <1>2, <1>3

\* A finite set of places can be numbered in order.  By induction on an upper
\* bound of the places: take the least bound for which it fails.
LEMMA PlacesCanBeNumbered ==
    ASSUME NEW m \in Nat, NEW Q \in SUBSET (1..m)
    PROVE  Numberings(Cardinality(Q), Q) # {}
<1> DEFINE Bad == {b \in Nat : \E P \in SUBSET (1..b) : Numberings(Cardinality(P), P) = {}}
<1>1. SUFFICES ASSUME Bad # {} PROVE FALSE
  BY <1>1
<1>2. PICK b \in Bad : \A c \in Bad : b <= c
  BY <1>1, LeastNatural
<1>3. PICK P \in SUBSET (1..b) : Numberings(Cardinality(P), P) = {}
  BY <1>2
<1>4. b \in Nat /\ IsFiniteSet(P)
  <2>1. b \in Nat
    BY <1>2
  <2>2. IsFiniteSet(1..b)
    BY <2>1, FS_Interval
  <2> QED
    BY <1>3, <2>1, <2>2, FS_Subset
<1>5. b # 0 /\ b \in P
  <2>1. P # {}
    <3> SUFFICES ASSUME P = {} PROVE FALSE
      OBVIOUS
    <3>1. Cardinality(P) = 0
      BY FS_EmptySet
    <3>2. [i \in 1..0 |-> 0] \in Numberings(0, {})
      BY DEF Numberings
    <3> QED
      BY <1>3, <3>1, <3>2
  <2>2. b # 0
    <3>1. PICK p \in P : TRUE
      BY <2>1
    <3>2. p \in 1..b
      BY <1>3
    <3> QED
      BY <1>4, <3>2
  <2>3. CASE b \notin P
    <3>1. P \in SUBSET (1..(b - 1)) /\ b - 1 \in Nat
      BY <1>3, <1>4, <2>2, <2>3
    <3>2. b - 1 \in Bad
      BY <1>3, <3>1
    <3> QED
      BY <1>2, <1>4, <3>1, <3>2
  <2> QED
    BY <2>2, <2>3
<1> DEFINE R == P \ {b}
           n == Cardinality(R)
<1>6. R \in SUBSET (1..(b - 1)) /\ b - 1 \in Nat /\ IsFiniteSet(R)
  BY <1>3, <1>4, <1>5, FS_Subset
<1>7. n \in Nat /\ Cardinality(P) = n + 1
  BY <1>4, <1>5, <1>6, FS_CardinalityType, FS_RemoveElement
<1>8. Numberings(n, R) # {}
  <2> SUFFICES ASSUME Numberings(n, R) = {} PROVE FALSE
    OBVIOUS
  <2>1. b - 1 \in Bad
    BY <1>6
  <2> QED
    BY <1>2, <1>4, <1>6, <2>1
<1>9. PICK a \in [1..n -> R] : /\ \A i, j \in 1..n : i < j => a[i] < a[j]
                               /\ \A p \in R : \E i \in 1..n : a[i] = p
  BY <1>8 DEF Numberings
<1> DEFINE more == [i \in 1..(n + 1) |-> IF i = n + 1 THEN b ELSE a[i]]
<1> HIDE DEF n
<1>10. more \in [1..(n + 1) -> P]
  BY <1>5, <1>7, <1>9
<1>11. \A i, j \in 1..(n + 1) : i < j => more[i] < more[j]
  <2> SUFFICES ASSUME NEW i \in 1..(n + 1), NEW j \in 1..(n + 1), i < j
               PROVE  more[i] < more[j]
    OBVIOUS
  <2>1. i \in 1..n /\ more[i] = a[i] /\ a[i] \in R
    BY <1>7, <1>9
  <2>2. CASE j = n + 1
    <3>1. more[j] = b
      BY <2>2
    <3>2. a[i] \in 1..(b - 1)
      BY <1>6, <2>1
    <3> QED
      BY <1>4, <2>1, <3>1, <3>2
  <2>3. CASE j # n + 1
    BY <1>7, <1>9, <2>1, <2>3
  <2> QED
    BY <2>2, <2>3
<1>12. \A p \in P : \E i \in 1..(n + 1) : more[i] = p
  <2> SUFFICES ASSUME NEW p \in P PROVE \E i \in 1..(n + 1) : more[i] = p
    OBVIOUS
  <2>1. CASE p = b
    BY <1>7, <2>1
  <2>2. CASE p # b
    <3>1. PICK i \in 1..n : a[i] = p
      BY <1>9, <2>2
    <3>2. i \in 1..(n + 1) /\ i # n + 1
      BY <1>7, <3>1
    <3> QED
      BY <3>1, <3>2
  <2> QED
    BY <2>1, <2>2
<1>13. more \in Numberings(n + 1, P)
  BY <1>10, <1>11, <1>12 DEF Numberings
<1> QED
  BY <1>3, <1>7, <1>13

\* What Picked returns: the entries at the places P, in the order of q
LEMMA PickedFacts ==
    ASSUME NEW S, NEW q \in Seq(S), NEW P \in SUBSET DOMAIN q
    PROVE  /\ Picked(q, P) \in Seq(S)
           /\ Cardinality(P) \in Nat /\ DOMAIN Picked(q, P) = 1..Cardinality(P)
           /\ \E at \in [1..Cardinality(P) -> P] :
                 /\ \A i, j \in 1..Cardinality(P) : i < j => at[i] < at[j]
                 /\ \A p \in P : \E i \in 1..Cardinality(P) : at[i] = p
                 /\ \A i \in 1..Cardinality(P) : Picked(q, P)[i] = q[at[i]]
<1> DEFINE n == Cardinality(P)
           at == CHOOSE a \in [1..n -> P] :
                  /\ \A i, j \in 1..n : i < j => a[i] < a[j]
                  /\ \A p \in P : \E i \in 1..n : a[i] = p
<1>1. Len(q) \in Nat /\ DOMAIN q = 1..Len(q)
  OBVIOUS
<1>2. IsFiniteSet(P) /\ n \in Nat
  <2>1. IsFiniteSet(1..Len(q))
    BY <1>1, FS_Interval
  <2>2. IsFiniteSet(P)
    BY <1>1, <2>1, FS_Subset
  <2> QED
    BY <2>2, FS_CardinalityType
<1>3. Numberings(n, P) # {}
  BY <1>1, PlacesCanBeNumbered
<1>4. \E a \in [1..n -> P] :
                  /\ \A i, j \in 1..n : i < j => a[i] < a[j]
                  /\ \A p \in P : \E i \in 1..n : a[i] = p
  BY <1>3 DEF Numberings
<1>5. /\ at \in [1..n -> P]
      /\ \A i, j \in 1..n : i < j => at[i] < at[j]
      /\ \A p \in P : \E i \in 1..n : at[i] = p
  BY <1>4
<1>6. Picked(q, P) = [i \in 1..n |-> q[at[i]]]
  BY DEF Picked
<1> HIDE DEF n, at
<1>7. \A i \in 1..n : q[at[i]] \in S
  BY <1>1, <1>5
<1>8. Picked(q, P) \in Seq(S)
  BY <1>2, <1>6, <1>7
<1> QED
  BY <1>2, <1>5, <1>6, <1>8 DEF n

\* Each command of the sequence of entries q is in it once
Once(q) == \A i, j \in DOMAIN q : q[i].cmd = q[j].cmd => i = j

LEMMA PickedEntries ==
    ASSUME NEW S, NEW q \in Seq(S), NEW P \in SUBSET DOMAIN q
    PROVE  /\ Entries(Picked(q, P)) = {q[i] : i \in P}
           /\ Once(q) => Once(Picked(q, P))
<1> DEFINE n == Cardinality(P)
           p == Picked(q, P)
<1>1. n \in Nat /\ DOMAIN p = 1..n
  BY PickedFacts
<1>2. PICK at \in [1..n -> P] :
                 /\ \A i, j \in 1..n : i < j => at[i] < at[j]
                 /\ \A x \in P : \E i \in 1..n : at[i] = x
                 /\ \A i \in 1..n : p[i] = q[at[i]]
  BY PickedFacts
<1> HIDE DEF n, p
<1>3. Entries(p) = {q[i] : i \in P}
  <2>1. \A i \in 1..n : p[i] \in {q[x] : x \in P}
    BY <1>2
  <2>2. \A x \in P : \E i \in 1..n : q[x] = p[i]
    BY <1>2
  <2> QED
    BY <1>1, <2>1, <2>2 DEF Entries
<1>4. ASSUME Once(q) PROVE Once(p)
  <2> SUFFICES ASSUME NEW i \in 1..n, NEW j \in 1..n, p[i].cmd = p[j].cmd
               PROVE  i = j
    BY <1>1 DEF Once
  <2>1. at[i] \in DOMAIN q /\ at[j] \in DOMAIN q
    BY <1>2
  <2>2. at[i] = at[j]
    BY <1>2, <1>4, <2>1 DEF Once
  <2>3. i \in Nat /\ j \in Nat /\ at[i] \in Nat /\ at[j] \in Nat
    <3>1. DOMAIN q = 1..Len(q) /\ Len(q) \in Nat
      OBVIOUS
    <3> QED
      BY <1>1, <2>1, <3>1
  <2>4. (i < j => at[i] < at[j]) /\ (j < i => at[j] < at[i])
    BY <1>2
  <2> QED
    BY <2>2, <2>3, <2>4
<1> QED
  BY <1>3, <1>4 DEF p

\* remove() takes nothing else and keeps the order
LEMMA WithoutFacts ==
    ASSUME NEW S, NEW q \in Seq(S), NEW T
    PROVE  /\ Without(q, T) \in Seq(S)
           /\ Entries(Without(q, T)) = Entries(q) \ T
           /\ Once(q) => Once(Without(q, T))
<1> DEFINE P == {i \in DOMAIN q : q[i] \notin T}
<1>1. Without(q, T) = Picked(q, P) /\ P \in SUBSET DOMAIN q
  BY DEF Without
<1>2. {q[i] : i \in P} = Entries(q) \ T
  BY DEF Entries
<1> HIDE DEF P
<1> QED
  BY <1>1, <1>2, PickedFacts, PickedEntries

\* What a turn may attach is queued, and is addressed to the main thread
LEMMA MidTurnFacts ==
    ASSUME NEW q \in Seq(EntryType), NEW sleepRan
    PROVE  /\ MidTurn(q, sleepRan) \in Seq(EntryType)
           /\ \A e \in Entries(MidTurn(q, sleepRan)) : e \in Entries(q) /\ MainThread(e)
           /\ Once(q) => Once(MidTurn(q, sleepRan))
<1> DEFINE P == {i \in DOMAIN q : /\ MainThread(q[i]) /\ ~Alone(q[i])
                                  /\ sleepRan \/ q[i].kind.priority # "later"}
<1>1. MidTurn(q, sleepRan) = Picked(q, P) /\ P \in SUBSET DOMAIN q
  BY DEF MidTurn
<1>2. \A e \in {q[i] : i \in P} : e \in Entries(q) /\ MainThread(e)
  BY DEF Entries
<1> HIDE DEF P
<1> QED
  BY <1>1, <1>2, PickedFacts, PickedEntries

\* peek() finds a command of the main thread if there is one: of those with
\* the least rank, the one with the least index
LEMMA PeekFacts ==
    ASSUME NEW q \in Seq(EntryType), \E e \in Entries(q) : MainThread(e)
    PROVE  \E i \in DOMAIN q : Peek(q) = q[i] /\ MainThread(q[i])
<1> DEFINE M == {i \in DOMAIN q : MainThread(q[i])}
           rank(i) == Rank[q[i].kind.priority]
           Best(i) == /\ MainThread(q[i])
                      /\ \A j \in DOMAIN q : MainThread(q[j]) =>
                            Before(q[i], q[j]) \/ (~Before(q[j], q[i]) /\ i <= j)
<1>1. \A i \in DOMAIN q : i \in Nat /\ rank(i) \in Nat
  <2> SUFFICES ASSUME NEW i \in DOMAIN q PROVE i \in Nat /\ rank(i) \in Nat
    OBVIOUS
  <2>1. q[i] \in EntryType
    OBVIOUS
  <2>2. q[i].kind.priority \in {"now", "next", "later"}
    BY <2>1 DEF EntryType, KindType
  <2> QED
    BY <2>2 DEF Rank
<1>2. \A i, j \in DOMAIN q : Before(q[i], q[j]) <=> rank(i) < rank(j)
  BY DEF Before
<1> HIDE DEF rank
<1>3. M # {}
  BY DEF Entries
<1>4. PICK b \in {rank(i) : i \in M} : \A c \in {rank(i) : i \in M} : b <= c
  BY <1>1, <1>3, LeastNatural
<1>5. PICK i \in {k \in M : rank(k) = b} : \A j \in {k \in M : rank(k) = b} : i <= j
  BY <1>1, <1>4, LeastNatural
<1>6. i \in DOMAIN q /\ Best(i)
  <2>1. i \in DOMAIN q /\ MainThread(q[i]) /\ rank(i) = b
    BY <1>5
  <2>2. ASSUME NEW j \in DOMAIN q, MainThread(q[j])
        PROVE  Before(q[i], q[j]) \/ (~Before(q[j], q[i]) /\ i <= j)
    <3>1. b <= rank(j) /\ (rank(j) = b => i <= j)
      BY <1>4, <1>5, <2>2
    <3>2. rank(i) \in Nat /\ rank(j) \in Nat
      BY <1>1, <2>1
    <3> QED
      BY <1>2, <2>1, <3>1, <3>2
  <2> QED
    BY <2>1, <2>2
<1>7. (CHOOSE k \in DOMAIN q : Best(k)) \in DOMAIN q /\ Best(CHOOSE k \in DOMAIN q : Best(k))
  BY <1>6
<1> QED
  BY <1>7 DEF Peek

\* What processQueueIfReady takes is queued, and it takes something
LEMMA BatchFacts ==
    ASSUME NEW q \in Seq(EntryType), \E e \in Entries(q) : MainThread(e)
    PROVE  /\ Batch(q) \in Seq(EntryType) /\ Batch(q) # <<>>
           /\ Entries(Batch(q)) \subseteq Entries(q)
           /\ Once(q) => Once(Batch(q))
<1>1. PICK k \in DOMAIN q : Peek(q) = q[k] /\ MainThread(q[k])
  BY PeekFacts
<1>2. CASE Alone(Peek(q))
  BY <1>1, <1>2 DEF Batch, Entries, Once
<1>3. CASE ~Alone(Peek(q))
  <2> DEFINE P == {i \in DOMAIN q : JoinsBatch(Peek(q), q[i])}
  <2>1. Batch(q) = Picked(q, P) /\ P \in SUBSET DOMAIN q
    BY <1>3 DEF Batch
  <2>2. k \in P
    BY <1>1, <1>3 DEF JoinsBatch, Alone
  <2>3. {q[i] : i \in P} \subseteq Entries(q) /\ {q[i] : i \in P} # {}
    BY <2>2 DEF Entries
  <2> HIDE DEF P
  <2>4. Entries(Batch(q)) # {} => Batch(q) # <<>>
    BY DEF Entries
  <2> QED
    BY <2>1, <2>3, <2>4, PickedFacts, PickedEntries
<1> QED
  BY <1>2, <1>3

-----------------------------------------------------------------------------
(* Types.                                                                   *)

LEMMA EntryFacts ==
    ASSUME sent \in Nat, NEW k \in Kinds
    PROVE  NewEntry(k) \in EntryType /\ NewEntry(k).cmd = sent + 1
  BY KindsAssumption DEF NewEntry, EntryType

LEMMA AgainFacts ==
    ASSUME NEW e \in EntryType
    PROVE  QueuedAgain(e) \in EntryType /\ QueuedAgain(e).cmd = e.cmd
  BY DEF QueuedAgain, EntryType, PlainPrompt, KindType

LEMMA ByFacts ==
    ASSUME NEW how \in {"message", "attachment"}, NEW q \in Seq(EntryType)
    PROVE  By(how, q) \in Seq(Deliveries) /\ DOMAIN By(how, q) = DOMAIN q
           /\ \A i \in DOMAIN q : By(how, q)[i].entry = q[i]
<1>1. Len(q) \in Nat /\ DOMAIN q = 1..Len(q)
  OBVIOUS
<1>2. \A i \in 1..Len(q) : q[i] \in EntryType /\ [entry |-> q[i], by |-> how] \in Deliveries
  BY <1>1 DEF Deliveries
<1>3. By(how, q) = [i \in 1..Len(q) |-> [entry |-> q[i], by |-> how]]
  BY <1>1 DEF By
<1> QED
  BY <1>1, <1>2, <1>3

LEMMA EndingFacts ==
    ASSUME fate \in [Commands -> Fates], NEW S, NEW how \in Fates
    PROVE  /\ Ending(S, how) \in [Commands -> Fates]
           /\ \A c \in Commands : Ending(S, how)[c] = IF c \in S THEN how ELSE fate[c]
  BY DEF Ending

\* What a run is made of
RunTypes ==
    /\ phase \in [Runs -> Phases]
    /\ cmds \in [Runs -> Seq(EntryType)]
    /\ gen \in [Runs -> Nat]
    /\ aborted \in [Runs -> {"no", "interrupt", "user"}]
    /\ snapshot \in [Runs -> Seq(EntryType)]
    /\ \A r \in Runs : phase[r] = "free" <=> cmds[r] = <<>>

\* The rest of the types
OtherTypes ==
    /\ sent \in 0..NumCommands
    /\ queue \in Seq(EntryType)
    /\ guard \in GuardType
    /\ controller \in 0..Orphan
    /\ seenActive \in BOOLEAN /\ queueChanged \in BOOLEAN
    /\ transcript \in Seq(Deliveries)
    /\ fate \in [Commands -> Fates]
    /\ cancels \in 0..MaxCancels /\ pops \in 0..MaxPops

LEMMA TypeParts == TypeOK <=> RunTypes /\ OtherTypes
  BY DEF TypeOK, RunTypes, OtherTypes

\* A run starts, with something to do; it ends
LEMMA RunStarts ==
    ASSUME TypeOK, NEW r \in Runs, NEW q \in Seq(EntryType), q # <<>>, ExecuteUserInput(r, q)
    PROVE  RunTypes' /\ guard' \in GuardType /\ controller' \in 0..Orphan
<1>1. RunTypes'
  BY DEF TypeOK, RunTypes, ExecuteUserInput, Phases
<1>2. guard' \in GuardType
  BY GuardFacts DEF TypeOK, ExecuteUserInput
<1>3. controller' \in 0..Orphan
  BY NumRunsAssumption DEF ExecuteUserInput, Runs, Orphan
<1> QED
  BY <1>1, <1>2, <1>3

LEMMA RunEnds ==
    ASSUME TypeOK, NEW r \in Runs, FreeRun(r)
    PROVE  RunTypes' /\ LeftBehind(r) \in 0..Orphan /\ NoController \in 0..Orphan
<1>1. RunTypes'
  BY DEF TypeOK, RunTypes, FreeRun, Phases
<1>2. LeftBehind(r) \in 0..Orphan /\ NoController \in 0..Orphan
  BY NumRunsAssumption DEF TypeOK, LeftBehind, Orphan, NoController
<1> QED
  BY <1>1, <1>2

\* Every step keeps the types: one case per action
LEMMA TypesNext == TypeOK /\ [Next]_vars => TypeOK'
<1> SUFFICES ASSUME TypeOK, [Next]_vars PROVE TypeOK'
  OBVIOUS
<1> USE NumCommandsAssumption, NumRunsAssumption, MaxCancelsAssumption, MaxPopsAssumption
<1>0. RunTypes /\ OtherTypes /\ sent \in Nat
  BY TypeParts DEF OtherTypes
<1>1. ASSUME RunTypes', OtherTypes' PROVE TypeOK'
  BY <1>1 DEF TypeOK, RunTypes, OtherTypes
<1>2. ASSUME UNCHANGED runVars PROVE RunTypes'
  BY <1>0, <1>2 DEF RunTypes, runVars
<1>3. ASSUME NEW k \in Kinds
      PROVE  /\ <<NewEntry(k)>> \in Seq(EntryType) /\ <<NewEntry(k)>> # <<>>
             /\ queue \o <<NewEntry(k)>> \in Seq(EntryType)
  BY <1>0, EntryFacts DEF OtherTypes
<1>4. ASSUME NEW k \in Kinds, NEW via, Sends(k, via) PROVE sent' \in 0..NumCommands
  BY <1>0, <1>4 DEF Sends, OtherTypes
<1>5. \A S : \A how \in Fates : Ending(S, how) \in [Commands -> Fates]
  BY <1>0, EndingFacts DEF OtherTypes
<1>6. {"local", "failed", "dropped", "popped", "subagent"} \subseteq Fates
  BY DEF Fates
<1>7. \A T : Without(queue, T) \in Seq(EntryType)
  BY <1>0, WithoutFacts DEF OtherTypes
<1>10. CASE Submit
  <2>1. PICK k \in Kinds, r \in Runs :
            /\ Sends(k, "typed") /\ ExecuteUserInput(r, <<NewEntry(k)>>)
            /\ UNCHANGED <<queue, seenActive, queueChanged, transcript, fate, userVars>>
    BY <1>10 DEF Submit
  <2>2. RunTypes' /\ guard' \in GuardType /\ controller' \in 0..Orphan
    BY <1>3, <2>1, RunStarts
  <2>3. sent' \in 0..NumCommands
    BY <1>4, <2>1
  <2> QED
    BY <1>0, <1>1, <2>1, <2>2, <2>3 DEF OtherTypes, userVars
<1>11. CASE SubmitQueued
  <2>1. PICK k \in Kinds :
            /\ Sends(k, "typed")
            /\ \/ Interrupt \/ UNCHANGED aborted
            /\ Enqueue(<<NewEntry(k)>>)
            /\ UNCHANGED <<guard, phase, cmds, gen, snapshot, controller, seenActive,
                           transcript, fate, userVars>>
    BY <1>11 DEF SubmitQueued
  <2>2. RunTypes'
    BY <1>0, <2>1 DEF RunTypes, Interrupt
  <2>3. sent' \in 0..NumCommands
    BY <1>4, <2>1
  <2> QED
    BY <1>0, <1>1, <1>3, <2>1, <2>2, <2>3 DEF OtherTypes, userVars, Enqueue
<1>12. CASE Notify
  <2>1. PICK k \in Kinds : Sends(k, "notified") /\ Enqueue(<<NewEntry(k)>>)
    BY <1>12 DEF Notify
  <2>2. UNCHANGED <<guard, runVars, controller, seenActive, transcript, fate, userVars>>
    BY <1>12 DEF Notify
  <2>3. sent' \in 0..NumCommands /\ RunTypes'
    BY <1>2, <1>4, <2>1, <2>2
  <2> QED
    BY <1>0, <1>1, <1>3, <2>1, <2>2, <2>3 DEF OtherTypes, userVars, Enqueue
<1>13. CASE IncomingPrompt
  <2>1. PICK k \in Kinds, r \in Runs :
            /\ Sends(k, "incoming")
            /\ guard' = TryStart(guard)
            /\ phase' = [phase EXCEPT ![r] = "querying"]
            /\ cmds' = [cmds EXCEPT ![r] = <<NewEntry(k)>>]
            /\ gen' = [gen EXCEPT ![r] = guard'.generation]
            /\ controller' = r
            /\ transcript' = transcript \o By("message", <<NewEntry(k)>>)
            /\ UNCHANGED <<queue, aborted, snapshot, seenActive, queueChanged, fate, userVars>>
    BY <1>13 DEF IncomingPrompt
  <2>2. guard' \in GuardType /\ guard'.generation \in Nat
    BY <1>0, <2>1 DEF OtherTypes, GuardType, TryStart
  <2>3. RunTypes'
    BY <1>0, <1>3, <2>1, <2>2 DEF RunTypes, Phases
  <2>4. By("message", <<NewEntry(k)>>) \in Seq(Deliveries)
    BY <1>3, ByFacts
  <2>5. transcript' \in Seq(Deliveries)
    BY <1>0, <2>1, <2>4 DEF OtherTypes
  <2>6. sent' \in 0..NumCommands /\ controller' \in 0..Orphan
    BY <1>4, <2>1 DEF Orphan, Runs
  <2> QED
    BY <1>0, <1>1, <2>1, <2>2, <2>3, <2>5, <2>6 DEF OtherTypes, userVars
<1>14. CASE RenderStartsRun
  <2>1. PICK r \in Runs : ExecuteUserInput(r, Batch(queue))
    BY <1>14 DEF RenderStartsRun
  <2>2. Batch(queue) \in Seq(EntryType) /\ Batch(queue) # <<>>
    BY <1>0, <1>14, BatchFacts DEF RenderStartsRun, OtherTypes
  <2>3. RunTypes' /\ guard' \in GuardType /\ controller' \in 0..Orphan
    BY <2>1, <2>2, RunStarts
  <2> QED
    BY <1>0, <1>1, <1>7, <1>14, <2>3 DEF RenderStartsRun, OtherTypes, userVars
<1>15. CASE RenderFindsNothing
  BY <1>0, <1>1, <1>2, <1>15 DEF RenderFindsNothing, OtherTypes, userVars, IsActive
<1>16. CASE InterruptForNow
  <2>1. RunTypes'
    BY <1>0, <1>16 DEF InterruptForNow, Interrupt, RunTypes
  <2> QED
    BY <1>0, <1>1, <1>16, <2>1 DEF InterruptForNow, OtherTypes, uiVars, userVars
<1>17. ASSUME NEW r \in Runs, StartQuery(r) PROVE TypeOK'
  <2>1. guard' \in GuardType /\ guard'.generation \in Nat
    BY <1>0, <1>17 DEF StartQuery, OtherTypes, GuardType, TryStart
  <2>2. RunTypes'
    BY <1>0, <1>17, <2>1 DEF StartQuery, RunTypes, Phases
  <2>3. By("message", cmds[r]) \in Seq(Deliveries)
    BY <1>0, ByFacts DEF RunTypes
  <2>4. transcript' \in Seq(Deliveries)
    BY <1>0, <1>17, <2>3 DEF StartQuery, OtherTypes
  <2> QED
    BY <1>0, <1>1, <1>17, <2>1, <2>2, <2>4 DEF StartQuery, OtherTypes, uiVars, userVars
<1>18. ASSUME NEW r \in Runs, Requeue(r) PROVE TypeOK'
  <2> DEFINE P == {i \in DOMAIN cmds[r] : ~cmds[r][i].kind.meta}
             replayed == Picked(cmds[r], P)
             again == [i \in DOMAIN replayed |-> QueuedAgain(replayed[i])]
  <2>1. FreeRun(r) /\ controller' = LeftBehind(r) /\ guard' = CancelReservation(guard)
        /\ UNCHANGED <<sent, seenActive, transcript, userVars>>
        /\ queue' = queue \o again /\ queueChanged' = TRUE
        /\ fate' = Ending(CommandsOf(cmds[r]) \ CommandsOf(replayed), "dropped")
    BY <1>18 DEF Requeue, Enqueue
  <2>2. cmds[r] \in Seq(EntryType) /\ P \in SUBSET DOMAIN cmds[r]
    BY <1>0 DEF RunTypes
  <2> HIDE DEF P
  <2>3. replayed \in Seq(EntryType)
    BY <2>2, PickedFacts
  <2> HIDE DEF replayed
  <2>4. \A i \in DOMAIN replayed : QueuedAgain(replayed[i]) \in EntryType
    BY <2>3, AgainFacts
  <2>5. DOMAIN replayed = 1..Len(replayed) /\ Len(replayed) \in Nat
    BY <2>3
  <2>6. again \in Seq(EntryType)
    BY <2>4, <2>5
  <2> HIDE DEF again
  <2>7. queue' \in Seq(EntryType)
    BY <1>0, <2>1, <2>6 DEF OtherTypes
  <2>8. RunTypes' /\ controller' \in 0..Orphan /\ guard' \in GuardType
    BY <1>0, <2>1, RunEnds, GuardFacts DEF OtherTypes
  <2>9. fate' \in [Commands -> Fates]
    BY <1>5, <1>6, <2>1
  <2> QED
    BY <1>0, <1>1, <2>1, <2>7, <2>8, <2>9 DEF OtherTypes, userVars
<1>19. ASSUME NEW r \in Runs, LocalCommand(r) \/ ProcessingFails(r) PROVE TypeOK'
  <2>1. RunTypes' /\ controller' \in 0..Orphan
    BY <1>19, RunEnds DEF LocalCommand, ProcessingFails
  <2>2. guard' \in GuardType
    BY <1>0, <1>19, GuardFacts DEF LocalCommand, ProcessingFails, OtherTypes
  <2>3. fate' \in [Commands -> Fates]
    BY <1>5, <1>6, <1>19 DEF LocalCommand, ProcessingFails
  <2> QED
    BY <1>0, <1>1, <1>19, <2>1, <2>2, <2>3
       DEF LocalCommand, ProcessingFails, OtherTypes, userVars
<1>20. ASSUME NEW r \in Runs, DrainSnapshot(r) PROVE TypeOK'
  <2>1. PICK sleepRan \in BOOLEAN :
            snapshot' = [snapshot EXCEPT ![r] = MidTurn(queue, sleepRan)]
    BY <1>20 DEF DrainSnapshot
  <2>2. MidTurn(queue, sleepRan) \in Seq(EntryType)
    BY <1>0, MidTurnFacts DEF OtherTypes
  <2>3. RunTypes'
    BY <1>0, <1>20, <2>1, <2>2 DEF DrainSnapshot, RunTypes, Phases
  <2> QED
    BY <1>0, <1>1, <1>20, <2>3 DEF DrainSnapshot, OtherTypes, uiVars, userVars
<1>21. ASSUME NEW r \in Runs, DrainDone(r) PROVE TypeOK'
  <2>1. RunTypes'
    BY <1>0, <1>21 DEF DrainDone, RunTypes, Phases
  <2>2. By("attachment", snapshot[r]) \in Seq(Deliveries)
    BY <1>0, ByFacts DEF RunTypes
  <2>3. transcript \o By("attachment", snapshot[r]) \in Seq(Deliveries)
    BY <1>0, <2>2 DEF OtherTypes
  <2>4. Ending(CommandsOf(snapshot[r]), "failed") \in [Commands -> Fates]
    BY <1>5, <1>6
  <2>5. transcript' \in Seq(Deliveries) /\ fate' \in [Commands -> Fates]
    BY <1>0, <1>21, <2>3, <2>4 DEF DrainDone, OtherTypes
  <2>6. queue' \in Seq(EntryType) /\ queueChanged' \in BOOLEAN
    BY <1>0, <1>7, <1>21 DEF DrainDone, OtherTypes
  <2> QED
    BY <1>0, <1>1, <1>21, <2>1, <2>5, <2>6 DEF DrainDone, OtherTypes, userVars
<1>22. ASSUME NEW r \in Runs, QueryEnds(r) PROVE TypeOK'
  <2> DEFINE ended == End(guard, gen[r])
  <2>1. /\ guard' = IF Direct(r) THEN ended ELSE CancelReservation(ended)
        /\ controller' \in {NoController, LeftBehind(r)}
        /\ AutoRestore(r, ended) \/ UNCHANGED <<transcript, fate>>
        /\ FreeRun(r)
        /\ UNCHANGED <<sent, queue, seenActive, queueChanged, userVars>>
    BY <1>22 DEF QueryEnds
  <2>2. ended \in GuardType
    <3>1. guard \in GuardType /\ gen[r] \in Nat
      BY <1>0 DEF OtherTypes, RunTypes
    <3> QED
      BY <3>1, GuardFacts
  <2>3. guard' \in GuardType
    BY <2>1, <2>2, GuardFacts
  <2> HIDE DEF ended
  <2>4. RunTypes' /\ controller' \in 0..Orphan
    BY <2>1, RunEnds
  <2>5. transcript' \in Seq(Deliveries) /\ fate' \in [Commands -> Fates]
    <3>1. CASE AutoRestore(r, ended)
      <4>1. PICK k \in DOMAIN transcript :
                /\ transcript' = SubSeq(transcript, 1, k - 1)
                /\ fate' = [Ending({transcript[j].entry.cmd :
                                       j \in {i \in DOMAIN transcript : i > k}}, "dropped")
                            EXCEPT ![transcript[k].entry.cmd] = "popped"]
        BY <3>1 DEF AutoRestore
      <4>2. transcript \in Seq(Deliveries) /\ Len(transcript) \in Nat /\ k \in 1..Len(transcript)
        BY <1>0 DEF OtherTypes
      <4>3. transcript' \in Seq(Deliveries)
        BY <4>1, <4>2
      <4>4. \A S : Ending(S, "dropped") \in [Commands -> Fates]
        BY <1>5, <1>6
      <4> QED
        BY <1>6, <4>1, <4>3, <4>4
    <3> QED
      BY <1>0, <2>1, <3>1 DEF OtherTypes
  <2> QED
    BY <1>0, <1>1, <2>1, <2>3, <2>4, <2>5 DEF OtherTypes, userVars
<1>23. CASE Cancel
  <2>1. RunTypes'
    BY <1>0, <1>23 DEF Cancel, RunTypes
  <2>2. guard' \in GuardType /\ controller' \in 0..Orphan /\ cancels' \in 0..MaxCancels
    BY <1>0, <1>23, GuardFacts DEF Cancel, OtherTypes, Orphan, NoController
  <2> QED
    BY <1>0, <1>1, <1>23, <2>1, <2>2 DEF Cancel, OtherTypes
<1>24. CASE PopAllEditable
  <2>1. queue' \in Seq(EntryType) /\ fate' \in [Commands -> Fates]
    BY <1>5, <1>6, <1>7, <1>24 DEF PopAllEditable
  <2>2. pops' \in 0..MaxPops
    BY <1>0, <1>24 DEF PopAllEditable, OtherTypes
  <2> QED
    BY <1>0, <1>1, <1>2, <1>24, <2>1, <2>2 DEF PopAllEditable, OtherTypes
<1>25. CASE SubagentTakes
  <2>1. queue' \in Seq(EntryType) /\ fate' \in [Commands -> Fates]
    BY <1>5, <1>6, <1>7, <1>25 DEF SubagentTakes
  <2> QED
    BY <1>0, <1>1, <1>2, <1>25, <2>1 DEF SubagentTakes, OtherTypes, userVars
<1>26. CASE UNCHANGED vars
  BY <1>0, <1>1, <1>2, <1>26 DEF vars, OtherTypes, uiVars, userVars
<1> QED
  BY <1>10, <1>11, <1>12, <1>13, <1>14, <1>15, <1>16, <1>17, <1>18, <1>19, <1>20, <1>21,
     <1>22, <1>23, <1>24, <1>25, <1>26 DEF Next, Render, RunStep

\* The REPL starts with the types right
LEMMA TypesInit == Init => TypeOK
<1> SUFFICES ASSUME Init PROVE TypeOK
  OBVIOUS
<1>1. RunTypes
  BY DEF Init, RunTypes, Phases
<1>2. guard \in GuardType /\ fate \in [Commands -> Fates] /\ controller \in 0..Orphan
  BY NumRunsAssumption DEF Init, NewGuard, GuardType, Fates, NoController, Orphan
<1>3. sent \in 0..NumCommands /\ cancels \in 0..MaxCancels /\ pops \in 0..MaxPops
  BY NumCommandsAssumption, MaxCancelsAssumption, MaxPopsAssumption DEF Init
<1>4. queue \in Seq(EntryType) /\ transcript \in Seq(Deliveries)
  BY DEF Init
<1> QED
  BY <1>1, <1>2, <1>3, <1>4, TypeParts DEF Init, OtherTypes

\* The state of the REPL stays in its ranges, and a slot is free exactly when
\* its run was given nothing to do.
THEOREM TypeCorrect == Spec => []TypeOK
  BY TypesInit, TypesNext, PTL DEF Spec

-----------------------------------------------------------------------------
(* No command is lost, and none is doubled.                                 *)

\* Where a command may be
Queued == CommandsOf(queue)
Running == UNION {CommandsOf(cmds[r]) : r \in InFlight \ Querying}
Delivered == {transcript[i].entry.cmd : i \in DOMAIN transcript}

\* A command whose fate is open is in one of the three places
Somewhere ==
    \A c \in 1..sent : fate[c] = "pending" => c \in Queued \cup Running \cup Delivered

\* Until the user cancels a turn or takes the queue back, the places are
\* disjoint, each holds a command once, and only commands whose fate is open.
\* A draining turn holds entries of the queue that nobody else takes, and no
\* turn can be restored into the input.
DeliveredOnce ==
    \A i, j \in DOMAIN transcript : transcript[i].entry.cmd = transcript[j].entry.cmd => i = j
Disjoint ==
    /\ Queued \cap Running = {} /\ Queued \cap Delivered = {} /\ Running \cap Delivered = {}
    /\ Once(queue) /\ DeliveredOnce
    /\ \A r \in Runs : Once(cmds[r])
OnlyPending ==
    /\ \A c \in Queued \cup Running \cup Delivered : c \in 1..sent /\ fate[c] = "pending"
    /\ \A c \in Commands : c > sent => fate[c] = "pending"
DrainsQueue ==
    \A r \in Runs : phase[r] = "draining" =>
        /\ Once(snapshot[r])
        /\ \A e \in Entries(snapshot[r]) : e \in Entries(queue) /\ MainThread(e)
NotRestored == \A r \in Runs : aborted[r] # "user"
Undisturbed == cancels = 0 /\ pops = 0

PlacesInv ==
    /\ Somewhere
    /\ Undisturbed => Disjoint /\ OnlyPending /\ DrainsQueue /\ NotRestored
KeptInv == TypeOK /\ UncancelledInv /\ PlacesInv

\* Sequences of entries, put together and taken apart
LEMMA OneEntry ==
    ASSUME NEW e
    PROVE  Entries(<<e>>) = {e} /\ CommandsOf(<<e>>) = {e.cmd} /\ Once(<<e>>)
<1>1. Entries(<<e>>) = {e}
  BY DEF Entries
<1>2. Once(<<e>>)
  BY DEF Once
<1> QED
  BY <1>1, <1>2 DEF CommandsOf

LEMMA Joined ==
    ASSUME NEW S, NEW q \in Seq(S), NEW p \in Seq(S)
    PROVE  /\ Entries(q \o p) = Entries(q) \cup Entries(p)
           /\ CommandsOf(q \o p) = CommandsOf(q) \cup CommandsOf(p)
           /\ Once(q) /\ Once(p) /\ CommandsOf(q) \cap CommandsOf(p) = {} => Once(q \o p)
<1> DEFINE qp == q \o p
<1>1. /\ Len(q) \in Nat /\ Len(p) \in Nat /\ DOMAIN q = 1..Len(q) /\ DOMAIN p = 1..Len(p)
      /\ DOMAIN qp = 1..(Len(q) + Len(p))
  OBVIOUS
<1>2. \A i \in 1..Len(q) : i \in DOMAIN qp /\ qp[i] = q[i]
  BY <1>1
<1>3. \A i \in 1..Len(p) : Len(q) + i \in DOMAIN qp /\ qp[Len(q) + i] = p[i]
  BY <1>1
<1>4. \A i \in DOMAIN qp : i \in 1..Len(q) \/ (i - Len(q) \in 1..Len(p) /\ qp[i] = p[i - Len(q)])
  BY <1>1
<1> HIDE DEF qp
<1>5. Entries(qp) = Entries(q) \cup Entries(p)
  <2>1. \A i \in DOMAIN qp : qp[i] \in Entries(q) \cup Entries(p)
    BY <1>1, <1>2, <1>4 DEF Entries
  <2>2. \A i \in DOMAIN q : q[i] \in Entries(qp)
    BY <1>1, <1>2 DEF Entries
  <2>3. \A i \in DOMAIN p : p[i] \in Entries(qp)
    BY <1>1, <1>3 DEF Entries
  <2> QED
    BY <2>1, <2>2, <2>3 DEF Entries
<1>6. CommandsOf(qp) = CommandsOf(q) \cup CommandsOf(p)
  BY <1>5 DEF CommandsOf
<1>7. ASSUME Once(q), Once(p), CommandsOf(q) \cap CommandsOf(p) = {}
      PROVE  Once(qp)
  <2>1. \A i \in DOMAIN q : q[i].cmd \in CommandsOf(q)
    BY DEF CommandsOf, Entries
  <2>2. \A i \in DOMAIN p : p[i].cmd \in CommandsOf(p)
    BY DEF CommandsOf, Entries
  <2>3. SUFFICES ASSUME NEW i \in DOMAIN qp, NEW j \in DOMAIN qp, qp[i].cmd = qp[j].cmd
                 PROVE  i = j
    BY DEF Once
  <2>4. i \in Nat /\ j \in Nat
    BY <1>1
  <2>5. CASE i \in 1..Len(q) /\ j \in 1..Len(q)
    BY <1>1, <1>2, <1>7, <2>3, <2>5 DEF Once
  <2>6. CASE i \in 1..Len(q) /\ j \notin 1..Len(q)
    BY <1>1, <1>2, <1>4, <1>7, <2>1, <2>2, <2>3, <2>6
  <2>7. CASE i \notin 1..Len(q) /\ j \in 1..Len(q)
    BY <1>1, <1>2, <1>4, <1>7, <2>1, <2>2, <2>3, <2>7
  <2>8. CASE i \notin 1..Len(q) /\ j \notin 1..Len(q)
    <3>1. i - Len(q) \in DOMAIN p /\ j - Len(q) \in DOMAIN p
          /\ p[i - Len(q)].cmd = p[j - Len(q)].cmd
      BY <1>1, <1>4, <2>3, <2>8
    <3>2. i - Len(q) = j - Len(q)
      BY <1>7, <3>1 DEF Once
    <3> QED
      BY <1>1, <2>4, <3>2
  <2> QED
    BY <2>5, <2>6, <2>7, <2>8
<1> QED
  BY <1>5, <1>6, <1>7 DEF qp

\* What is not taken out of a queue stays, and what is taken is gone
LEMMA TakenOut ==
    ASSUME NEW q \in Seq(EntryType), NEW T
    PROVE  /\ CommandsOf(Without(q, T)) \subseteq CommandsOf(q)
           /\ CommandsOf(q) \subseteq CommandsOf(Without(q, T)) \cup {e.cmd : e \in T}
           /\ Once(q) /\ T \subseteq Entries(q) =>
                  /\ Once(Without(q, T))
                  /\ CommandsOf(Without(q, T)) = CommandsOf(q) \ {e.cmd : e \in T}
<1>1. Entries(Without(q, T)) = Entries(q) \ T /\ (Once(q) => Once(Without(q, T)))
  BY WithoutFacts
<1>2. ASSUME Once(q), NEW d \in Entries(q), NEW e \in Entries(q), d.cmd = e.cmd
      PROVE  d = e
  BY <1>2 DEF Once, Entries
<1>3. CommandsOf(Without(q, T)) \subseteq CommandsOf(q)
  BY <1>1 DEF CommandsOf
<1>4. CommandsOf(q) \subseteq CommandsOf(Without(q, T)) \cup {e.cmd : e \in T}
  BY <1>1 DEF CommandsOf
<1>5. ASSUME Once(q), T \subseteq Entries(q), NEW c \in CommandsOf(Without(q, T))
      PROVE  c \notin {e.cmd : e \in T}
  <2>1. PICK d \in Entries(q) \ T : d.cmd = c
    BY <1>1, <1>5 DEF CommandsOf
  <2> QED
    BY <1>2, <1>5, <2>1
<1> QED
  BY <1>1, <1>3, <1>4, <1>5

\* What is appended to the conversation is delivered
LEMMA Appended ==
    ASSUME TypeOK, NEW how \in {"message", "attachment"}, NEW q \in Seq(EntryType),
           transcript' = transcript \o By(how, q)
    PROVE  /\ Delivered' = Delivered \cup CommandsOf(q)
           /\ DeliveredOnce /\ Once(q) /\ Delivered \cap CommandsOf(q) = {} => DeliveredOnce'
<1> DEFINE b == By(how, q)
<1>1. /\ b \in Seq(Deliveries) /\ DOMAIN b = DOMAIN q
      /\ \A i \in DOMAIN q : b[i].entry = q[i]
  BY ByFacts
<1>2. transcript \in Seq(Deliveries) /\ transcript' = transcript \o b
  BY DEF TypeOK
<1> HIDE DEF b
<1>3. /\ Len(transcript) \in Nat /\ Len(b) \in Nat
      /\ DOMAIN transcript = 1..Len(transcript) /\ DOMAIN q = 1..Len(b)
      /\ DOMAIN transcript' = 1..(Len(transcript) + Len(b))
  BY <1>1, <1>2
<1>4. \A i \in 1..Len(transcript) : i \in DOMAIN transcript' /\ transcript'[i] = transcript[i]
  BY <1>1, <1>2, <1>3
<1>5. \A i \in DOMAIN q : Len(transcript) + i \in DOMAIN transcript'
                          /\ transcript'[Len(transcript) + i].entry = q[i]
  BY <1>1, <1>2, <1>3
<1>6. \A i \in DOMAIN transcript' :
          i \in 1..Len(transcript)
          \/ (i - Len(transcript) \in DOMAIN q /\ transcript'[i].entry = q[i - Len(transcript)])
  BY <1>1, <1>2, <1>3
<1>7. Delivered' = Delivered \cup CommandsOf(q)
  <2>1. \A i \in DOMAIN transcript' : transcript'[i].entry.cmd \in Delivered \cup CommandsOf(q)
    BY <1>3, <1>4, <1>6 DEF Delivered, CommandsOf, Entries
  <2>2. \A i \in DOMAIN transcript : transcript[i].entry.cmd \in Delivered'
    BY <1>3, <1>4 DEF Delivered
  <2>3. \A i \in DOMAIN q : q[i].cmd \in Delivered'
    BY <1>5 DEF Delivered
  <2>4. Delivered' \subseteq Delivered \cup CommandsOf(q)
    <3>1. \A c \in Delivered' : \E i \in DOMAIN transcript' : c = transcript'[i].entry.cmd
      BY DEF Delivered
    <3> QED
      BY <2>1, <3>1
  <2>5. Delivered \subseteq Delivered'
    BY <2>2 DEF Delivered
  <2>6. CommandsOf(q) \subseteq Delivered'
    BY <2>3 DEF CommandsOf, Entries
  <2> QED
    BY <2>4, <2>5, <2>6
<1>8. ASSUME DeliveredOnce, Once(q), Delivered \cap CommandsOf(q) = {}
      PROVE  DeliveredOnce'
  <2>1. SUFFICES ASSUME NEW i \in DOMAIN transcript', NEW j \in DOMAIN transcript',
                        transcript'[i].entry.cmd = transcript'[j].entry.cmd
                 PROVE  i = j
    BY DEF DeliveredOnce
  <2>2. i \in Nat /\ j \in Nat
    BY <1>3
  <2>3. \A k \in DOMAIN transcript : transcript[k].entry.cmd \in Delivered
    BY DEF Delivered
  <2>4. \A k \in DOMAIN q : q[k].cmd \in CommandsOf(q)
    BY DEF CommandsOf, Entries
  <2>5. CASE i \in DOMAIN transcript /\ j \in DOMAIN transcript
    BY <1>3, <1>4, <1>8, <2>1, <2>5 DEF DeliveredOnce
  <2>6. CASE i \in DOMAIN transcript /\ j \notin DOMAIN transcript
    BY <1>3, <1>4, <1>6, <1>8, <2>1, <2>3, <2>4, <2>6
  <2>7. CASE i \notin DOMAIN transcript /\ j \in DOMAIN transcript
    BY <1>3, <1>4, <1>6, <1>8, <2>1, <2>3, <2>4, <2>7
  <2>8. CASE i \notin DOMAIN transcript /\ j \notin DOMAIN transcript
    <3>1. /\ i - Len(transcript) \in DOMAIN q /\ j - Len(transcript) \in DOMAIN q
          /\ q[i - Len(transcript)].cmd = q[j - Len(transcript)].cmd
      BY <1>3, <1>6, <2>1, <2>8
    <3>2. i - Len(transcript) = j - Len(transcript)
      BY <1>8, <3>1 DEF Once
    <3> QED
      BY <1>3, <2>2, <3>2
  <2> QED
    BY <2>5, <2>6, <2>7, <2>8
<1> QED
  BY <1>7, <1>8

\* What the steps need to know of a state that keeps the invariant
LEMMA KeptFacts ==
    ASSUME KeptInv
    PROVE  /\ TypeOK /\ sent \in Nat /\ NumCommands \in Nat /\ sent <= NumCommands
           /\ 1..sent \subseteq Commands /\ sent + 1 \notin 1..sent
           /\ fate \in [Commands -> Fates] /\ queue \in Seq(EntryType)
           /\ cmds \in [Runs -> Seq(EntryType)] /\ snapshot \in [Runs -> Seq(EntryType)]
           /\ phase \in [Runs -> Phases]
           /\ cancels \in Nat /\ pops \in Nat
<1>1. TypeOK /\ NumCommands \in Nat
  BY NumCommandsAssumption DEF KeptInv
<1>2. sent \in 0..NumCommands
  BY <1>1 DEF TypeOK
<1>3. cancels \in 0..MaxCancels /\ pops \in 0..MaxPops
  BY <1>1 DEF TypeOK
<1>4. cancels \in Nat /\ pops \in Nat
  BY <1>3, MaxCancelsAssumption, MaxPopsAssumption
<1>5. /\ fate \in [Commands -> Fates] /\ queue \in Seq(EntryType)
      /\ cmds \in [Runs -> Seq(EntryType)] /\ snapshot \in [Runs -> Seq(EntryType)]
      /\ phase \in [Runs -> Phases]
  BY <1>1 DEF TypeOK
<1> QED
  BY <1>1, <1>2, <1>4, <1>5 DEF Commands

\* What the runs but r are processing
Others(r) ==
    UNION {CommandsOf(cmds[s]) : s \in {t \in Runs \ {r} : phase[t] = "processing"}}

\* What is being processed when one run moves on
LEMMA RunningMoves ==
    ASSUME TypeOK, NEW r \in Runs, NEW p \in Phases, phase' = [phase EXCEPT ![r] = p],
           \A s \in Runs \ {r} : cmds'[s] = cmds[s]
    PROVE  /\ Running = Others(r) \cup (IF phase[r] = "processing" THEN CommandsOf(cmds[r]) ELSE {})
           /\ Running' = Others(r) \cup (IF p = "processing" THEN CommandsOf(cmds'[r]) ELSE {})
<1>1. phase \in [Runs -> Phases]
  BY DEF TypeOK
<1>2. InFlight \ Querying = {s \in Runs : phase[s] = "processing"}
  BY <1>1 DEF InFlight, Querying, Phases
<1>3. phase' \in [Runs -> Phases] /\ phase'[r] = p /\ \A s \in Runs \ {r} : phase'[s] = phase[s]
  BY <1>1
<1>4. (InFlight \ Querying)' = {s \in Runs : phase'[s] = "processing"}
  BY <1>3 DEF InFlight, Querying, Phases
<1>5. \A c : c \in Running <=> \E s \in Runs : phase[s] = "processing" /\ c \in CommandsOf(cmds[s])
  BY <1>2 DEF Running
<1>6. \A c : c \in Running' <=> \E s \in Runs : phase'[s] = "processing" /\ c \in CommandsOf(cmds'[s])
  BY <1>4 DEF Running
<1>7. \A c : c \in Others(r) <=>
             \E s \in Runs \ {r} : phase[s] = "processing" /\ c \in CommandsOf(cmds[s])
  BY DEF Others
<1>8. \A c : c \in Running <=> c \in Others(r) \/ (phase[r] = "processing" /\ c \in CommandsOf(cmds[r]))
  BY <1>5, <1>7
<1>9. \A c : c \in Running' <=> c \in Others(r) \/ (p = "processing" /\ c \in CommandsOf(cmds'[r]))
  BY <1>3, <1>6, <1>7
<1> QED
  BY <1>8, <1>9

LEMMA RunningStays ==
    ASSUME UNCHANGED <<phase, cmds>>
    PROVE  Running' = Running
  BY DEF Running, InFlight, Querying

\* As long as nothing is cancelled, the run in flight processes alone
LEMMA NoOthers ==
    ASSUME KeptInv, cancels = 0, NEW r \in Runs, r \in InFlight
    PROVE  Others(r) = {} /\ \A s \in Runs \ {r} : phase[s] = "free"
<1>1. InFlight = {r}
  BY TheOneRun DEF KeptInv
<1> QED
  BY <1>1 DEF Others, InFlight

\* A command that is sent arrives in one of the places
LEMMA Arrives ==
    ASSUME KeptInv, sent < NumCommands, sent' = sent + 1, fate' = fate, UNCHANGED userVars,
           NEW A, NEW B, NEW C, A \cup B \cup C = {sent + 1},
           A \cap B = {}, A \cap C = {}, B \cap C = {},
           Queued' = Queued \cup A, Running' = Running \cup B, Delivered' = Delivered \cup C
    PROVE  /\ Somewhere'
           /\ Undisturbed' =>
                /\ Undisturbed /\ OnlyPending' /\ sent + 1 \notin Queued \cup Running \cup Delivered
                /\ (Queued \cap Running = {} /\ Queued \cap Delivered = {} /\ Running \cap Delivered = {})'
<1>1. sent \in Nat /\ NumCommands \in Nat /\ sent + 1 \in Commands
  BY KeptFacts DEF Commands
<1>2. 1..(sent + 1) = 1..sent \cup {sent + 1} /\ sent + 1 \notin 1..sent
  BY <1>1
<1>3. Somewhere'
  BY <1>2 DEF KeptInv, PlacesInv, Somewhere
<1>4. ASSUME Undisturbed'
      PROVE  /\ Undisturbed /\ OnlyPending' /\ sent + 1 \notin Queued \cup Running \cup Delivered
             /\ (Queued \cap Running = {} /\ Queued \cap Delivered = {} /\ Running \cap Delivered = {})'
  <2>1. Undisturbed /\ OnlyPending /\ Disjoint
    BY <1>4 DEF Undisturbed, userVars, KeptInv, PlacesInv
  <2>2. sent + 1 \notin Queued \cup Running \cup Delivered
    BY <1>2, <2>1 DEF OnlyPending
  <2>3. fate[sent + 1] = "pending"
    BY <1>1, <2>1 DEF OnlyPending
  <2>4. \A c \in Commands : c > sent + 1 => fate[c] = "pending"
    <3>1. \A c \in Commands : c > sent + 1 => c > sent
      BY <1>1 DEF Commands
    <3> QED
      BY <2>1, <3>1 DEF OnlyPending
  <2>5. OnlyPending'
    BY <1>2, <2>1, <2>3, <2>4 DEF OnlyPending
  <2> QED
    BY <2>1, <2>2, <2>5 DEF Disjoint
<1> QED
  BY <1>3, <1>4

\* Commands move from place to place, and those in G end
LEMMA Moves ==
    ASSUME KeptInv, sent' = sent, NEW G, NEW how, how # "pending",
           \A c \in Commands : fate'[c] = IF c \in G THEN how ELSE fate[c]
    PROVE  /\ Queued \cup Running \cup Delivered \subseteq Queued' \cup Running' \cup Delivered' \cup G
              => Somewhere'
           /\ /\ Undisturbed /\ G \subseteq 1..sent
              /\ Queued' \cup Running' \cup Delivered' \subseteq (Queued \cup Running \cup Delivered) \ G
              => OnlyPending'
<1>1. 1..sent \subseteq Commands /\ sent \in Nat
  BY KeptFacts
<1>2. ASSUME Queued \cup Running \cup Delivered \subseteq Queued' \cup Running' \cup Delivered' \cup G
      PROVE  Somewhere'
  BY <1>1, <1>2 DEF KeptInv, PlacesInv, Somewhere
<1>3. ASSUME Undisturbed, G \subseteq 1..sent,
             Queued' \cup Running' \cup Delivered' \subseteq (Queued \cup Running \cup Delivered) \ G
      PROVE  OnlyPending'
  <2>1. OnlyPending
    BY <1>3 DEF KeptInv, PlacesInv
  <2>2. \A c \in Commands : c > sent => c \notin G
    BY <1>1, <1>3 DEF Commands
  <2>3. \A c \in (Queued \cup Running \cup Delivered)' : c \in 1..sent /\ fate'[c] = "pending"
    BY <1>1, <1>3, <2>1 DEF OnlyPending
  <2>4. \A c \in Commands : c > sent => fate'[c] = "pending"
    BY <2>1, <2>2 DEF OnlyPending
  <2> QED
    BY <2>3, <2>4 DEF OnlyPending
<1> QED
  BY <1>2, <1>3

LEMMA MovesOn ==
    ASSUME KeptInv, sent' = sent, fate' = fate
    PROVE  /\ Queued \cup Running \cup Delivered \subseteq Queued' \cup Running' \cup Delivered'
              => Somewhere'
           /\ /\ Undisturbed
              /\ Queued' \cup Running' \cup Delivered' \subseteq Queued \cup Running \cup Delivered
              => OnlyPending'
<1>1. ASSUME Queued \cup Running \cup Delivered \subseteq Queued' \cup Running' \cup Delivered'
      PROVE  Somewhere'
  BY <1>1 DEF KeptInv, PlacesInv, Somewhere
<1>2. ASSUME Undisturbed,
             Queued' \cup Running' \cup Delivered' \subseteq Queued \cup Running \cup Delivered
      PROVE  OnlyPending'
  BY <1>2 DEF KeptInv, PlacesInv, OnlyPending
<1> QED
  BY <1>1, <1>2

\* The input of the user starts a run
LEMMA PlacesSubmit ==
    ASSUME KeptInv, Submit
    PROVE  PlacesInv'
<1>1. PICK k \in Kinds, r \in Runs :
          /\ Sends(k, "typed") /\ ExecuteUserInput(r, <<NewEntry(k)>>)
          /\ UNCHANGED <<queue, seenActive, queueChanged, transcript, fate, userVars>>
  BY DEF Submit
<1> DEFINE new == <<NewEntry(k)>>
<1>2. CommandsOf(new) = {sent + 1} /\ Once(new)
  <2>1. NewEntry(k) \in EntryType /\ NewEntry(k).cmd = sent + 1
    BY KeptFacts, EntryFacts
  <2> QED
    BY <2>1, OneEntry
<1>3. /\ phase' = [phase EXCEPT ![r] = "processing"] /\ cmds' = [cmds EXCEPT ![r] = new]
      /\ aborted' = aborted /\ snapshot' = snapshot
      /\ sent < NumCommands /\ sent' = sent + 1 /\ fate' = fate /\ UNCHANGED userVars
      /\ queue' = queue /\ transcript' = transcript
      /\ r \notin InFlight
  BY <1>1 DEF Sends, ExecuteUserInput, NextRun
<1> HIDE DEF new
<1>4. /\ phase[r] = "free" /\ TypeOK /\ "processing" \in Phases
      /\ cmds'[r] = new /\ \A s \in Runs \ {r} : cmds'[s] = cmds[s] /\ phase'[s] = phase[s]
      /\ phase'[r] = "processing"
  BY <1>3, KeptFacts DEF InFlight, Phases
<1>5. Running' = Running \cup {sent + 1}
  BY <1>2, <1>3, <1>4, RunningMoves
<1>6. Queued' = Queued \cup {} /\ Delivered' = Delivered \cup {}
  BY <1>3 DEF Queued, Delivered, CommandsOf, Entries
<1>7. /\ Somewhere'
      /\ Undisturbed' =>
           /\ Undisturbed /\ OnlyPending'
           /\ (Queued \cap Running = {} /\ Queued \cap Delivered = {} /\ Running \cap Delivered = {})'
  BY <1>3, <1>5, <1>6, Arrives
<1>8. ASSUME Undisturbed' PROVE Disjoint' /\ OnlyPending' /\ DrainsQueue' /\ NotRestored'
  <2>1. Undisturbed /\ Disjoint /\ DrainsQueue /\ NotRestored
    BY <1>7, <1>8 DEF KeptInv, PlacesInv
  <2>2. Disjoint'
    BY <1>2, <1>3, <1>4, <1>7, <1>8, <2>1 DEF Disjoint, DeliveredOnce
  <2>3. DrainsQueue' /\ NotRestored'
    BY <1>3, <1>4, <2>1 DEF DrainsQueue, NotRestored
  <2> QED
    BY <1>7, <1>8, <2>2, <2>3
<1> QED
  BY <1>7, <1>8 DEF PlacesInv

\* A command is queued
LEMMA PlacesQueued ==
    ASSUME KeptInv, SubmitQueued \/ Notify
    PROVE  PlacesInv'
<1>1. PICK k \in Kinds :
          /\ \E via : Sends(k, via)
          /\ Enqueue(<<NewEntry(k)>>)
          /\ aborted' = aborted \/ Interrupt
          /\ UNCHANGED <<guard, phase, cmds, gen, snapshot, controller, seenActive,
                         transcript, fate, userVars>>
  BY DEF SubmitQueued, Notify, runVars
<1> DEFINE new == <<NewEntry(k)>>
<1>2. CommandsOf(new) = {sent + 1} /\ Once(new) /\ new \in Seq(EntryType)
  <2>1. NewEntry(k) \in EntryType /\ NewEntry(k).cmd = sent + 1
    BY KeptFacts, EntryFacts
  <2> QED
    BY <2>1, OneEntry
<1>3. /\ phase' = phase /\ cmds' = cmds /\ snapshot' = snapshot
      /\ sent < NumCommands /\ sent' = sent + 1 /\ fate' = fate /\ UNCHANGED userVars
      /\ queue' = queue \o new /\ transcript' = transcript
  BY <1>1 DEF Sends, Enqueue
<1> HIDE DEF new
<1>4. Running' = Running \cup {} /\ Delivered' = Delivered \cup {}
  BY <1>3, RunningStays DEF Delivered
<1>5. /\ Entries(queue') = Entries(queue) \cup Entries(new)
      /\ Queued' = Queued \cup {sent + 1}
      /\ Once(queue) /\ sent + 1 \notin Queued => Once(queue')
  BY <1>2, <1>3, Joined, KeptFacts DEF Queued
<1>6. /\ Somewhere'
      /\ Undisturbed' =>
           /\ Undisturbed /\ OnlyPending' /\ sent + 1 \notin Queued \cup Running \cup Delivered
           /\ (Queued \cap Running = {} /\ Queued \cap Delivered = {} /\ Running \cap Delivered = {})'
  BY <1>3, <1>4, <1>5, Arrives
<1>7. ASSUME Undisturbed' PROVE Disjoint' /\ OnlyPending' /\ DrainsQueue' /\ NotRestored'
  <2>1. Undisturbed /\ Disjoint /\ DrainsQueue /\ NotRestored
    BY <1>6, <1>7 DEF KeptInv, PlacesInv
  <2>2. Once(queue') /\ DeliveredOnce' /\ \A r \in Runs : Once(cmds'[r])
    BY <1>3, <1>5, <1>6, <1>7, <2>1 DEF Disjoint, DeliveredOnce
  <2>3. DrainsQueue'
    BY <1>3, <1>5, <2>1 DEF DrainsQueue
  <2>4. NotRestored'
    BY <1>1, <2>1 DEF NotRestored, Interrupt, KeptInv, TypeOK
  <2> QED
    BY <1>6, <1>7, <2>2, <2>3, <2>4 DEF Disjoint
<1> QED
  BY <1>6, <1>7 DEF PlacesInv

\* A teammate's prompt goes straight into the conversation
LEMMA PlacesIncoming ==
    ASSUME KeptInv, IncomingPrompt
    PROVE  PlacesInv'
<1>1. PICK k \in Kinds, r \in Runs :
          /\ Sends(k, "incoming") /\ NextRun(r)
          /\ phase' = [phase EXCEPT ![r] = "querying"]
          /\ cmds' = [cmds EXCEPT ![r] = <<NewEntry(k)>>]
          /\ transcript' = transcript \o By("message", <<NewEntry(k)>>)
          /\ UNCHANGED <<queue, aborted, snapshot, fate, userVars>>
  BY DEF IncomingPrompt
<1> DEFINE new == <<NewEntry(k)>>
<1>2. CommandsOf(new) = {sent + 1} /\ Once(new) /\ new \in Seq(EntryType)
  <2>1. NewEntry(k) \in EntryType /\ NewEntry(k).cmd = sent + 1
    BY KeptFacts, EntryFacts
  <2> QED
    BY <2>1, OneEntry
<1>3. /\ phase' = [phase EXCEPT ![r] = "querying"] /\ cmds' = [cmds EXCEPT ![r] = new]
      /\ aborted' = aborted /\ snapshot' = snapshot
      /\ sent < NumCommands /\ sent' = sent + 1 /\ fate' = fate /\ UNCHANGED userVars
      /\ queue' = queue /\ transcript' = transcript \o By("message", new)
      /\ r \notin InFlight
  BY <1>1 DEF Sends, NextRun
<1> HIDE DEF new
<1>4. /\ phase[r] = "free" /\ TypeOK /\ "querying" \in Phases
      /\ cmds'[r] = new /\ \A s \in Runs \ {r} : cmds'[s] = cmds[s] /\ phase'[s] = phase[s]
      /\ phase'[r] = "querying"
  BY <1>3, KeptFacts DEF InFlight, Phases
<1>5. Running' = Running \cup {}
  BY <1>3, <1>4, RunningMoves
<1>6. Queued' = Queued \cup {}
  BY <1>3 DEF Queued, CommandsOf, Entries
<1>7. Delivered' = Delivered \cup {sent + 1}
      /\ (DeliveredOnce /\ sent + 1 \notin Delivered => DeliveredOnce')
  BY <1>2, <1>3, <1>4, Appended
<1>8. /\ Somewhere'
      /\ Undisturbed' =>
           /\ Undisturbed /\ OnlyPending' /\ sent + 1 \notin Queued \cup Running \cup Delivered
           /\ (Queued \cap Running = {} /\ Queued \cap Delivered = {} /\ Running \cap Delivered = {})'
  BY <1>3, <1>5, <1>6, <1>7, Arrives
<1>9. ASSUME Undisturbed' PROVE Disjoint' /\ OnlyPending' /\ DrainsQueue' /\ NotRestored'
  <2>1. Undisturbed /\ Disjoint /\ DrainsQueue /\ NotRestored
    BY <1>8, <1>9 DEF KeptInv, PlacesInv
  <2>2. Disjoint'
    BY <1>2, <1>3, <1>4, <1>7, <1>8, <1>9, <2>1 DEF Disjoint
  <2>3. DrainsQueue' /\ NotRestored'
    BY <1>3, <1>4, <2>1 DEF DrainsQueue, NotRestored
  <2> QED
    BY <1>8, <1>9, <2>2, <2>3
<1> QED
  BY <1>8, <1>9 DEF PlacesInv

\* The effect of the render takes commands from the queue into a run
LEMMA PlacesRender ==
    ASSUME KeptInv, RenderStartsRun
    PROVE  PlacesInv'
<1>1. PICK r \in Runs : ExecuteUserInput(r, Batch(queue))
  BY DEF RenderStartsRun
<1>2. ~IsActive(guard) /\ (\E e \in Entries(queue) : MainThread(e))
      /\ queue' = Without(queue, Entries(Batch(queue)))
      /\ UNCHANGED <<sent, transcript, fate, userVars>>
  BY DEF RenderStartsRun
<1> DEFINE taken == Batch(queue)
<1>3. Entries(taken) \subseteq Entries(queue) /\ (Once(queue) => Once(taken))
  BY <1>2, BatchFacts, KeptFacts
<1>4. /\ phase' = [phase EXCEPT ![r] = "processing"] /\ cmds' = [cmds EXCEPT ![r] = taken]
      /\ aborted' = aborted /\ snapshot' = snapshot
      /\ queue' = Without(queue, Entries(taken))
      /\ r \notin InFlight
  BY <1>1, <1>2 DEF ExecuteUserInput, NextRun
<1> HIDE DEF taken
<1>5. /\ phase[r] = "free" /\ TypeOK /\ "processing" \in Phases
      /\ cmds'[r] = taken /\ \A s \in Runs \ {r} : cmds'[s] = cmds[s] /\ phase'[s] = phase[s]
      /\ phase'[r] = "processing"
  BY <1>4, KeptFacts DEF InFlight, Phases
<1>6. Running' = Running \cup CommandsOf(taken)
  BY <1>4, <1>5, RunningMoves
<1>7. CommandsOf(taken) = {e.cmd : e \in Entries(taken)} /\ Delivered' = Delivered
  BY <1>2 DEF CommandsOf, Delivered
<1>8. /\ Queued' \subseteq Queued /\ Queued \subseteq Queued' \cup CommandsOf(taken)
      /\ CommandsOf(taken) \subseteq Queued
      /\ Once(queue) => Once(queue') /\ Queued' = Queued \ CommandsOf(taken)
  <2>1. CommandsOf(taken) \subseteq Queued
    BY <1>3 DEF CommandsOf, Queued
  <2> QED
    BY <1>3, <1>4, <1>7, <2>1, TakenOut, KeptFacts DEF Queued
<1>9. /\ Queued \cup Running \cup Delivered \subseteq Queued' \cup Running' \cup Delivered'
      /\ Queued' \cup Running' \cup Delivered' \subseteq Queued \cup Running \cup Delivered
  BY <1>6, <1>7, <1>8
<1>10. Somewhere' /\ (Undisturbed => OnlyPending')
  BY <1>2, <1>9, MovesOn
<1>11. ASSUME Undisturbed' PROVE Disjoint' /\ OnlyPending' /\ DrainsQueue' /\ NotRestored'
  <2>1. Undisturbed /\ Disjoint /\ DrainsQueue /\ NotRestored
    BY <1>2, <1>11 DEF KeptInv, PlacesInv, Undisturbed, userVars
  <2>2. InFlight = {}
    BY <1>2, <2>1 DEF KeptInv, UncancelledInv, UncancelledExclusive, Undisturbed
  <2>3. \A s \in Runs : phase[s] # "draining"
    BY <2>2 DEF InFlight
  <2>4. Queued' \cap Running' = {} /\ Queued' \cap Delivered' = {} /\ Running' \cap Delivered' = {}
    BY <1>6, <1>7, <1>8, <2>1 DEF Disjoint
  <2>5. Once(queue') /\ DeliveredOnce' /\ \A s \in Runs : Once(cmds'[s])
    BY <1>2, <1>3, <1>5, <1>8, <2>1 DEF Disjoint, DeliveredOnce
  <2>6. DrainsQueue' /\ NotRestored'
    BY <1>4, <1>5, <2>1, <2>3 DEF DrainsQueue, NotRestored
  <2> QED
    BY <1>10, <2>1, <2>4, <2>5, <2>6 DEF Disjoint
<1> QED
  BY <1>10, <1>11 DEF PlacesInv

\* What was processed becomes messages
LEMMA PlacesStart ==
    ASSUME KeptInv, NEW r \in Runs, StartQuery(r)
    PROVE  PlacesInv'
<1>1. /\ phase[r] = "processing" /\ phase' = [phase EXCEPT ![r] = "querying"]
      /\ transcript' = transcript \o By("message", cmds[r])
      /\ UNCHANGED <<sent, queue, cmds, aborted, snapshot, fate, userVars>>
  BY DEF StartQuery
<1>2. /\ TypeOK /\ cmds[r] \in Seq(EntryType) /\ "querying" \in Phases
      /\ phase'[r] = "querying" /\ \A s \in Runs \ {r} : phase'[s] = phase[s]
  BY <1>1, KeptFacts DEF Phases
<1>3. Running = Others(r) \cup CommandsOf(cmds[r]) /\ Running' = Others(r)
  BY <1>1, <1>2, RunningMoves
<1>4. Delivered' = Delivered \cup CommandsOf(cmds[r])
      /\ (DeliveredOnce /\ Once(cmds[r]) /\ Delivered \cap CommandsOf(cmds[r]) = {} => DeliveredOnce')
  BY <1>1, <1>2, Appended
<1>5. Queued' = Queued
  BY <1>1 DEF Queued
<1>6. Somewhere' /\ (Undisturbed => OnlyPending')
  <2>1. /\ Queued \cup Running \cup Delivered \subseteq Queued' \cup Running' \cup Delivered'
        /\ Queued' \cup Running' \cup Delivered' \subseteq Queued \cup Running \cup Delivered
    BY <1>3, <1>4, <1>5
  <2> QED
    BY <1>1, <2>1, MovesOn
<1>7. ASSUME Undisturbed' PROVE Disjoint' /\ OnlyPending' /\ DrainsQueue' /\ NotRestored'
  <2>1. Undisturbed /\ Disjoint /\ DrainsQueue /\ NotRestored
    BY <1>1, <1>7 DEF KeptInv, PlacesInv, Undisturbed, userVars
  <2>2. Others(r) = {}
    BY <1>1, <2>1, NoOthers DEF Undisturbed, InFlight
  <2>3. Disjoint'
    BY <1>1, <1>3, <1>4, <1>5, <2>1, <2>2 DEF Disjoint
  <2>4. DrainsQueue' /\ NotRestored'
    BY <1>1, <1>2, <2>1 DEF DrainsQueue, NotRestored
  <2> QED
    BY <1>6, <2>1, <2>3, <2>4
<1> QED
  BY <1>6, <1>7 DEF PlacesInv

\* The run of a batch ends and its commands with it
LEMMA PlacesEnded ==
    ASSUME KeptInv, NEW r \in Runs, LocalCommand(r) \/ ProcessingFails(r)
    PROVE  PlacesInv'
<1>1. /\ phase[r] = "processing" /\ FreeRun(r)
      /\ UNCHANGED <<sent, queue, transcript, userVars>>
  BY DEF LocalCommand, ProcessingFails
<1>2. PICK how \in {"local", "failed"} : fate' = Ending(CommandsOf(cmds[r]), how)
  BY DEF LocalCommand, ProcessingFails
<1>3. how \in Fates /\ how # "pending" /\ fate \in [Commands -> Fates]
  BY KeptFacts DEF Fates
<1>4. \A c \in Commands : fate'[c] = IF c \in CommandsOf(cmds[r]) THEN how ELSE fate[c]
  BY <1>2, <1>3, EndingFacts
<1>5. /\ TypeOK /\ "free" \in Phases /\ phase' = [phase EXCEPT ![r] = "free"]
      /\ cmds' = [cmds EXCEPT ![r] = <<>>] /\ snapshot' = [snapshot EXCEPT ![r] = <<>>]
      /\ aborted' = [aborted EXCEPT ![r] = "no"]
  BY <1>1, KeptFacts DEF Phases, FreeRun
<1>6. /\ \A s \in Runs \ {r} : cmds'[s] = cmds[s] /\ phase'[s] = phase[s]
                               /\ snapshot'[s] = snapshot[s] /\ aborted'[s] = aborted[s]
      /\ cmds'[r] = <<>> /\ phase'[r] = "free" /\ aborted'[r] = "no"
  BY <1>5 DEF TypeOK
<1>7. Running = Others(r) \cup CommandsOf(cmds[r]) /\ Running' = Others(r)
  <2>1. \A s \in Runs \ {r} : cmds'[s] = cmds[s]
    BY <1>6
  <2> QED
    BY <1>1, <1>5, <2>1, RunningMoves
<1>8. Queued' = Queued /\ Delivered' = Delivered
  BY <1>1 DEF Queued, Delivered
<1>9. Somewhere'
  <2>1. Queued \cup Running \cup Delivered
            \subseteq Queued' \cup Running' \cup Delivered' \cup CommandsOf(cmds[r])
    BY <1>7, <1>8
  <2> QED
    BY <1>1, <1>3, <1>4, <2>1, Moves
<1>10. ASSUME Undisturbed' PROVE Disjoint' /\ OnlyPending' /\ DrainsQueue' /\ NotRestored'
  <2>1. Undisturbed /\ Disjoint /\ DrainsQueue /\ NotRestored /\ OnlyPending
    BY <1>1, <1>10 DEF KeptInv, PlacesInv, Undisturbed, userVars
  <2>2. Others(r) = {}
    BY <1>1, <2>1, NoOthers DEF Undisturbed, InFlight
  <2>3. /\ CommandsOf(cmds[r]) \subseteq 1..sent
        /\ Queued' \cup Running' \cup Delivered'
              \subseteq (Queued \cup Running \cup Delivered) \ CommandsOf(cmds[r])
    BY <1>7, <1>8, <2>1, <2>2 DEF Disjoint, OnlyPending
  <2>4. OnlyPending'
    BY <1>1, <1>3, <1>4, <2>1, <2>3, Moves
  <2>5. Once(cmds'[r])
    BY <1>6 DEF Once
  <2>6. Disjoint'
    BY <1>1, <1>6, <1>7, <1>8, <2>1, <2>2, <2>5 DEF Disjoint, DeliveredOnce
  <2>7. DrainsQueue' /\ NotRestored'
    BY <1>1, <1>6, <2>1 DEF DrainsQueue, NotRestored
  <2> QED
    BY <2>4, <2>6, <2>7
<1> QED
  BY <1>9, <1>10 DEF PlacesInv

\* A run that may not start its query queues its commands again.  Nothing of
\* this happens before the first cancellation.
LEMMA PlacesRequeue ==
    ASSUME KeptInv, NEW r \in Runs, Requeue(r)
    PROVE  PlacesInv'
<1> DEFINE P == {i \in DOMAIN cmds[r] : ~cmds[r][i].kind.meta}
           replayed == Picked(cmds[r], P)
           again == [i \in DOMAIN replayed |-> QueuedAgain(replayed[i])]
           G == CommandsOf(cmds[r]) \ CommandsOf(replayed)
<1>1. /\ phase[r] = "processing" /\ ~CanStart(guard) /\ FreeRun(r)
      /\ UNCHANGED <<sent, transcript, userVars>>
      /\ queue' = queue \o again /\ fate' = Ending(G, "dropped")
  BY DEF Requeue, Enqueue
<1>2. cmds[r] \in Seq(EntryType) /\ P \in SUBSET DOMAIN cmds[r] /\ queue \in Seq(EntryType)
  BY KeptFacts
<1> HIDE DEF P
<1>3. replayed \in Seq(EntryType)
  BY <1>2, PickedFacts
<1> HIDE DEF replayed
<1>4. \A i \in DOMAIN replayed : /\ QueuedAgain(replayed[i]) \in EntryType
                                 /\ QueuedAgain(replayed[i]).cmd = replayed[i].cmd
  BY <1>3, AgainFacts
<1>5. DOMAIN replayed = 1..Len(replayed) /\ Len(replayed) \in Nat
  BY <1>3
<1>6. again \in Seq(EntryType) /\ DOMAIN again = DOMAIN replayed
  BY <1>4, <1>5
<1>7. CommandsOf(again) = CommandsOf(replayed)
  <2>1. \A i \in DOMAIN replayed : again[i].cmd = replayed[i].cmd
    BY <1>4
  <2> HIDE DEF again
  <2>2. \A c : c \in CommandsOf(again) <=> \E i \in DOMAIN again : again[i].cmd = c
    BY DEF CommandsOf, Entries
  <2>3. \A c : c \in CommandsOf(replayed) <=> \E i \in DOMAIN replayed : replayed[i].cmd = c
    BY DEF CommandsOf, Entries
  <2> QED
    BY <1>6, <2>1, <2>2, <2>3
<1> HIDE DEF again
<1>8. Queued' = Queued \cup CommandsOf(replayed)
  BY <1>1, <1>2, <1>6, <1>7, Joined DEF Queued
<1> HIDE DEF G
<1>9. \A c \in Commands : fate'[c] = IF c \in G THEN "dropped" ELSE fate[c]
  BY <1>1, KeptFacts, EndingFacts DEF Fates
<1>10. /\ TypeOK /\ "free" \in Phases /\ phase' = [phase EXCEPT ![r] = "free"]
       /\ \A s \in Runs \ {r} : cmds'[s] = cmds[s]
  BY <1>1, KeptFacts DEF Phases, FreeRun
<1>11. Running = Others(r) \cup CommandsOf(cmds[r]) /\ Running' = Others(r)
  BY <1>1, <1>10, RunningMoves
<1>12. Delivered' = Delivered
  BY <1>1 DEF Delivered
<1>13. Queued \cup Running \cup Delivered \subseteq Queued' \cup Running' \cup Delivered' \cup G
  BY <1>8, <1>11, <1>12 DEF G
<1>14. Somewhere'
  BY <1>1, <1>9, <1>13, Moves
<1>15. ~Undisturbed'
  BY <1>1, ReservedWhileProcessing DEF Undisturbed, userVars, KeptInv
<1> QED
  BY <1>14, <1>15 DEF PlacesInv

\* A turn looks at what it may attach; nothing moves yet
LEMMA PlacesSnapshot ==
    ASSUME KeptInv, NEW r \in Runs, DrainSnapshot(r)
    PROVE  PlacesInv'
<1>1. /\ phase[r] = "querying" /\ phase' = [phase EXCEPT ![r] = "draining"]
      /\ UNCHANGED <<sent, queue, cmds, aborted, transcript, fate, userVars>>
  BY DEF DrainSnapshot
<1>2. PICK sleepRan \in BOOLEAN : snapshot' = [snapshot EXCEPT ![r] = MidTurn(queue, sleepRan)]
  BY DEF DrainSnapshot
<1>3. /\ \A e \in Entries(MidTurn(queue, sleepRan)) : e \in Entries(queue) /\ MainThread(e)
      /\ Once(queue) => Once(MidTurn(queue, sleepRan))
  BY KeptFacts, MidTurnFacts
<1>4. /\ TypeOK /\ "draining" \in Phases /\ \A s \in Runs \ {r} : cmds'[s] = cmds[s]
      /\ \A s \in Runs \ {r} : phase'[s] = phase[s] /\ snapshot'[s] = snapshot[s]
      /\ snapshot'[r] = MidTurn(queue, sleepRan)
  BY <1>1, <1>2, KeptFacts DEF Phases
<1>5. Running' = Running
  <2>1. /\ Running = Others(r) \cup {} /\ Running' = Others(r) \cup {}
    BY <1>1, <1>4, RunningMoves
  <2> QED
    BY <2>1
<1>6. Queued' = Queued /\ Delivered' = Delivered
  BY <1>1 DEF Queued, Delivered
<1>7. Somewhere' /\ (Undisturbed => OnlyPending')
  BY <1>1, <1>5, <1>6, MovesOn
<1>8. ASSUME Undisturbed' PROVE Disjoint' /\ OnlyPending' /\ DrainsQueue' /\ NotRestored'
  <2>1. Undisturbed /\ Disjoint /\ DrainsQueue /\ NotRestored
    BY <1>1, <1>8 DEF KeptInv, PlacesInv, Undisturbed, userVars
  <2>2. Disjoint' /\ NotRestored'
    BY <1>1, <1>5, <1>6, <2>1 DEF Disjoint, DeliveredOnce, NotRestored
  <2>3. DrainsQueue'
    <3>1. Once(queue)
      BY <2>1 DEF Disjoint
    <3> QED
      BY <1>1, <1>3, <1>4, <2>1, <3>1 DEF DrainsQueue
  <2> QED
    BY <1>7, <2>1, <2>2, <2>3
<1> QED
  BY <1>7, <1>8 DEF PlacesInv

\* The turn attaches what it saw and takes it from the queue
LEMMA PlacesDrained ==
    ASSUME KeptInv, NEW r \in Runs, DrainDone(r)
    PROVE  PlacesInv'
<1> DEFINE took == snapshot[r]
<1>1. /\ phase[r] = "draining" /\ phase' = [phase EXCEPT ![r] = "querying"]
      /\ snapshot' = [snapshot EXCEPT ![r] = <<>>]
      /\ queue' = Without(queue, Entries(took))
      /\ UNCHANGED <<sent, cmds, aborted, userVars>>
  BY DEF DrainDone
<1>2. \/ transcript' = transcript \o By("attachment", took) /\ fate' = fate
      \/ transcript' = transcript /\ fate' = Ending(CommandsOf(took), "failed")
  BY DEF DrainDone
<1>3. TypeOK /\ took \in Seq(EntryType) /\ queue \in Seq(EntryType)
  BY KeptFacts
<1>4. /\ "querying" \in Phases /\ \A s \in Runs \ {r} : cmds'[s] = cmds[s]
      /\ phase'[r] = "querying"
      /\ \A s \in Runs \ {r} : phase'[s] = phase[s] /\ snapshot'[s] = snapshot[s]
  BY <1>1, KeptFacts DEF Phases
<1>5. Running' = Running
  <2>1. /\ Running = Others(r) \cup {} /\ Running' = Others(r) \cup {}
    BY <1>1, <1>3, <1>4, RunningMoves
  <2> QED
    BY <2>1
<1>6. CommandsOf(took) = {e.cmd : e \in Entries(took)}
  BY DEF CommandsOf
<1>7. /\ Queued' \subseteq Queued /\ Queued \subseteq Queued' \cup CommandsOf(took)
      /\ Once(queue) /\ Entries(took) \subseteq Entries(queue) =>
            Once(queue') /\ Queued' = Queued \ CommandsOf(took)
  BY <1>1, <1>3, <1>6, TakenOut DEF Queued
<1> HIDE DEF took
<1>8. CASE transcript' = transcript \o By("attachment", took) /\ fate' = fate
  <2>1. Delivered' = Delivered \cup CommandsOf(took)
        /\ (DeliveredOnce /\ Once(took) /\ Delivered \cap CommandsOf(took) = {} => DeliveredOnce')
    BY <1>3, <1>8, Appended
  <2>2. Somewhere'
    <3>1. Queued \cup Running \cup Delivered \subseteq Queued' \cup Running' \cup Delivered'
      BY <1>5, <1>7, <2>1
    <3> QED
      BY <1>1, <1>8, <3>1, MovesOn
  <2>3. ASSUME Undisturbed' PROVE Disjoint' /\ OnlyPending' /\ DrainsQueue' /\ NotRestored'
    <3>1. Undisturbed /\ Disjoint /\ DrainsQueue /\ NotRestored
      BY <1>1, <2>3 DEF KeptInv, PlacesInv, Undisturbed, userVars
    <3>2. Once(took) /\ Entries(took) \subseteq Entries(queue)
      BY <1>1, <3>1 DEF DrainsQueue, took
    <3>3. CommandsOf(took) \subseteq Queued
      BY <1>6, <3>2 DEF Queued, CommandsOf
    <3>4. OnlyPending'
      <4>1. Queued' \cup Running' \cup Delivered' \subseteq Queued \cup Running \cup Delivered
        BY <1>5, <1>7, <2>1, <3>3
      <4> QED
        BY <1>1, <1>8, <3>1, <4>1, MovesOn
    <3>5. Once(queue) /\ Once(queue') /\ Queued' = Queued \ CommandsOf(took)
      BY <1>7, <3>1, <3>2 DEF Disjoint
    <3>6. Disjoint'
      BY <1>1, <1>5, <2>1, <3>1, <3>2, <3>3, <3>5 DEF Disjoint
    <3>7. \A s \in Runs : phase'[s] # "draining"
      <4>1. \A s \in Runs \ {r} : phase[s] = "free"
        BY <1>1, <3>1, NoOthers DEF Undisturbed, InFlight
      <4> QED
        BY <1>4, <4>1
    <3>8. DrainsQueue' /\ NotRestored'
      BY <1>1, <3>1, <3>7 DEF DrainsQueue, NotRestored
    <3> QED
      BY <3>4, <3>6, <3>8
  <2> QED
    BY <2>2, <2>3 DEF PlacesInv
<1>9. CASE transcript' = transcript /\ fate' = Ending(CommandsOf(took), "failed")
  <2>1. Delivered' = Delivered
    BY <1>9 DEF Delivered
  <2>2. \A c \in Commands : fate'[c] = IF c \in CommandsOf(took) THEN "failed" ELSE fate[c]
    BY <1>9, KeptFacts, EndingFacts DEF Fates
  <2>3. Somewhere'
    <3>1. Queued \cup Running \cup Delivered
              \subseteq Queued' \cup Running' \cup Delivered' \cup CommandsOf(took)
      BY <1>5, <1>7, <2>1
    <3> QED
      BY <1>1, <2>2, <3>1, Moves
  <2>4. ASSUME Undisturbed' PROVE Disjoint' /\ OnlyPending' /\ DrainsQueue' /\ NotRestored'
    <3>1. Undisturbed /\ Disjoint /\ DrainsQueue /\ NotRestored /\ OnlyPending
      BY <1>1, <2>4 DEF KeptInv, PlacesInv, Undisturbed, userVars
    <3>2. Once(took) /\ Entries(took) \subseteq Entries(queue)
      BY <1>1, <3>1 DEF DrainsQueue, took
    <3>3. CommandsOf(took) \subseteq Queued
      BY <1>6, <3>2 DEF Queued, CommandsOf
    <3>4. Once(queue) /\ Once(queue') /\ Queued' = Queued \ CommandsOf(took)
      BY <1>7, <3>1, <3>2 DEF Disjoint
    <3>5. OnlyPending'
      <4>1. CommandsOf(took) \subseteq 1..sent
        BY <3>1, <3>3 DEF OnlyPending
      <4>2. Queued' \cup Running' \cup Delivered'
                \subseteq (Queued \cup Running \cup Delivered) \ CommandsOf(took)
        BY <1>5, <2>1, <3>1, <3>3, <3>4 DEF Disjoint
      <4> QED
        BY <1>1, <2>2, <3>1, <4>1, <4>2, Moves
    <3>6. Disjoint'
      BY <1>1, <1>5, <1>9, <2>1, <3>1, <3>4 DEF Disjoint, DeliveredOnce
    <3>7. \A s \in Runs : phase'[s] # "draining"
      <4>1. \A s \in Runs \ {r} : phase[s] = "free"
        BY <1>1, <3>1, NoOthers DEF Undisturbed, InFlight
      <4> QED
        BY <1>4, <4>1
    <3>8. DrainsQueue' /\ NotRestored'
      BY <1>1, <3>1, <3>7 DEF DrainsQueue, NotRestored
    <3> QED
      BY <3>5, <3>6, <3>8
  <2> QED
    BY <2>3, <2>4 DEF PlacesInv
<1> QED
  BY <1>2, <1>8, <1>9

\* Nothing moves: the rest of the steps but for the user's
LEMMA PlacesStay ==
    ASSUME KeptInv,
           UNCHANGED <<sent, queue, phase, cmds, snapshot, transcript, fate, userVars>>,
           NotRestored => NotRestored'
    PROVE  PlacesInv'
<1>1. Queued' = Queued /\ Running' = Running /\ Delivered' = Delivered
  BY RunningStays DEF Queued, Delivered
<1>2. Somewhere' /\ (Undisturbed => OnlyPending')
  BY <1>1, MovesOn
<1> QED
  BY <1>1, <1>2 DEF KeptInv, PlacesInv, Undisturbed, userVars, Disjoint, DeliveredOnce, DrainsQueue

\* A query ends.  If the prompt goes back into the input, then because it was
\* cancelled, and what the conversation loses with it has ended.
LEMMA PlacesQueryEnds ==
    ASSUME KeptInv, NEW r \in Runs, QueryEnds(r)
    PROVE  PlacesInv'
<1>1. /\ phase[r] = "querying" /\ FreeRun(r)
      /\ UNCHANGED <<sent, queue, userVars>>
  BY DEF QueryEnds
<1>2. /\ TypeOK /\ "free" \in Phases /\ phase' = [phase EXCEPT ![r] = "free"]
      /\ \A s \in Runs \ {r} : cmds'[s] = cmds[s] /\ phase'[s] = phase[s]
                               /\ snapshot'[s] = snapshot[s] /\ aborted'[s] = aborted[s]
      /\ cmds'[r] = <<>> /\ phase'[r] = "free" /\ aborted'[r] = "no"
  BY <1>1, KeptFacts DEF Phases, FreeRun, TypeOK
<1>3. Running' = Running
  <2>1. \A s \in Runs \ {r} : cmds'[s] = cmds[s]
    BY <1>2
  <2>2. Running = Others(r) \cup {} /\ Running' = Others(r) \cup {}
    BY <1>1, <1>2, <2>1, RunningMoves
  <2> QED
    BY <2>2
<1>4. Queued' = Queued
  BY <1>1 DEF Queued
<1>5. CASE UNCHANGED <<transcript, fate>>
  <2>1. Delivered' = Delivered
    BY <1>5 DEF Delivered
  <2>2. Somewhere' /\ (Undisturbed => OnlyPending')
    BY <1>1, <1>3, <1>4, <1>5, <2>1, MovesOn
  <2>3. ASSUME Undisturbed' PROVE Disjoint' /\ OnlyPending' /\ DrainsQueue' /\ NotRestored'
    <3>1. Undisturbed /\ Disjoint /\ DrainsQueue /\ NotRestored
      BY <1>1, <2>3 DEF KeptInv, PlacesInv, Undisturbed, userVars
    <3>2. Once(cmds'[r])
      BY <1>2 DEF Once
    <3>3. Disjoint'
      BY <1>1, <1>2, <1>3, <1>4, <1>5, <2>1, <3>1, <3>2 DEF Disjoint, DeliveredOnce
    <3>4. DrainsQueue' /\ NotRestored'
      BY <1>1, <1>2, <3>1 DEF DrainsQueue, NotRestored
    <3> QED
      BY <2>2, <3>1, <3>3, <3>4
  <2> QED
    BY <2>2, <2>3 DEF PlacesInv
<1>6. CASE AutoRestore(r, End(guard, gen[r]))
  <2>1. aborted[r] = "user"
    BY <1>6 DEF AutoRestore
  <2>2. PICK k \in DOMAIN transcript :
            /\ transcript' = SubSeq(transcript, 1, k - 1)
            /\ fate' = [Ending({transcript[j].entry.cmd :
                                   j \in {i \in DOMAIN transcript : i > k}}, "dropped")
                        EXCEPT ![transcript[k].entry.cmd] = "popped"]
    BY <1>6 DEF AutoRestore
  <2> DEFINE D == {transcript[j].entry.cmd : j \in {i \in DOMAIN transcript : i > k}}
             x == transcript[k].entry.cmd
  <2>3. /\ transcript \in Seq(Deliveries) /\ Len(transcript) \in Nat
        /\ DOMAIN transcript = 1..Len(transcript) /\ k \in 1..Len(transcript)
    BY <1>2 DEF TypeOK
  <2>4. \A i \in 1..(k - 1) : i \in DOMAIN transcript' /\ transcript'[i] = transcript[i]
    BY <2>2, <2>3
  <2>5. Delivered \subseteq Delivered' \cup D \cup {x}
    <3> SUFFICES ASSUME NEW i \in DOMAIN transcript
                 PROVE  transcript[i].entry.cmd \in Delivered' \cup D \cup {x}
      BY DEF Delivered
    <3>1. CASE i < k
      <4>1. i \in 1..(k - 1)
        BY <2>3, <3>1
      <4> QED
        BY <2>4, <4>1 DEF Delivered
    <3>2. CASE i = k
      BY <3>2
    <3>3. CASE i > k
      BY <3>3
    <3> QED
      BY <2>3, <3>1, <3>2, <3>3
  <2>6. \A c \in Commands : fate'[c] = "pending" => fate[c] = "pending" /\ c \notin D \cup {x}
    <3> HIDE DEF D, x
    <3>1. fate' = [Ending(D, "dropped") EXCEPT ![x] = "popped"]
      BY <2>2 DEF D, x
    <3>2. /\ Ending(D, "dropped") \in [Commands -> Fates]
          /\ \A c \in Commands : Ending(D, "dropped")[c] = IF c \in D THEN "dropped" ELSE fate[c]
      BY KeptFacts, EndingFacts DEF Fates
    <3> QED
      BY <3>1, <3>2
  <2> HIDE DEF D, x
  <2>7. Somewhere'
    <3>1. 1..sent \subseteq Commands /\ sent' = sent
      BY <1>1, KeptFacts
    <3> QED
      BY <1>3, <1>4, <2>5, <2>6, <3>1 DEF KeptInv, PlacesInv, Somewhere
  <2>8. ~Undisturbed'
    BY <1>1, <2>1 DEF KeptInv, PlacesInv, Undisturbed, userVars, NotRestored
  <2> QED
    BY <2>7, <2>8 DEF PlacesInv
<1> QED
  BY <1>5, <1>6 DEF QueryEnds

\* The user cancels a turn, which moves nothing, or takes the queue back
LEMMA PlacesCancel ==
    ASSUME KeptInv, Cancel
    PROVE  PlacesInv'
<1>1. UNCHANGED <<sent, queue, phase, cmds, transcript, fate>> /\ cancels' = cancels + 1
  BY DEF Cancel
<1>2. Queued' = Queued /\ Running' = Running /\ Delivered' = Delivered
  BY <1>1, RunningStays DEF Queued, Delivered
<1>3. Somewhere'
  BY <1>1, <1>2, MovesOn
<1>4. ~Undisturbed'
  BY <1>1, KeptFacts DEF Undisturbed
<1> QED
  BY <1>3, <1>4 DEF PlacesInv

LEMMA PlacesPop ==
    ASSUME KeptInv, PopAllEditable
    PROVE  PlacesInv'
<1> DEFINE T == {e \in Entries(queue) : Editable(e)}
           G == {e.cmd : e \in T}
<1>1. /\ UNCHANGED <<sent, phase, cmds, transcript>> /\ pops' = pops + 1
      /\ queue' = Without(queue, T) /\ fate' = Ending(G, "popped")
  BY DEF PopAllEditable, runVars
<1> HIDE DEF T
<1>2. Queued \subseteq Queued' \cup G
  BY <1>1, TakenOut, KeptFacts DEF Queued
<1>3. Running' = Running /\ Delivered' = Delivered
  BY <1>1, RunningStays DEF Delivered
<1> HIDE DEF G
<1>4. \A c \in Commands : fate'[c] = IF c \in G THEN "popped" ELSE fate[c]
  BY <1>1, KeptFacts, EndingFacts DEF Fates
<1>5. Somewhere'
  <2>1. Queued \cup Running \cup Delivered \subseteq Queued' \cup Running' \cup Delivered' \cup G
    BY <1>2, <1>3
  <2> QED
    BY <1>1, <1>4, <2>1, Moves
<1>6. ~Undisturbed'
  BY <1>1, KeptFacts DEF Undisturbed
<1> QED
  BY <1>5, <1>6 DEF PlacesInv

\* What a subagent takes is not among what a turn of the main thread attaches
LEMMA PlacesSubagent ==
    ASSUME KeptInv, SubagentTakes
    PROVE  PlacesInv'
<1>1. PICK e \in Entries(queue) : /\ e.kind.agent /\ queue' = Without(queue, {e})
                                  /\ fate' = Ending({e.cmd}, "subagent")
  BY DEF SubagentTakes
<1>2. UNCHANGED <<sent, phase, cmds, aborted, snapshot, transcript, userVars>>
  BY DEF SubagentTakes, runVars
<1>3. {d.cmd : d \in {e}} = {e.cmd} /\ {e} \subseteq Entries(queue)
  OBVIOUS
<1>4. /\ Queued' \subseteq Queued /\ Queued \subseteq Queued' \cup {e.cmd}
      /\ Once(queue) => Once(queue') /\ Queued' = Queued \ {e.cmd}
  BY <1>1, <1>3, TakenOut, KeptFacts DEF Queued
<1>5. Running' = Running /\ Delivered' = Delivered
  BY <1>2, RunningStays DEF Delivered
<1>6. \A c \in Commands : fate'[c] = IF c \in {e.cmd} THEN "subagent" ELSE fate[c]
  BY <1>1, KeptFacts, EndingFacts DEF Fates
<1>7. e.cmd \in Queued
  BY DEF Queued, CommandsOf
<1>8. Somewhere'
  <2>1. Queued \cup Running \cup Delivered
            \subseteq Queued' \cup Running' \cup Delivered' \cup {e.cmd}
    BY <1>4, <1>5
  <2> QED
    BY <1>2, <1>6, <2>1, Moves
<1>9. ASSUME Undisturbed' PROVE Disjoint' /\ OnlyPending' /\ DrainsQueue' /\ NotRestored'
  <2>1. Undisturbed /\ Disjoint /\ DrainsQueue /\ NotRestored /\ OnlyPending
    BY <1>2, <1>9 DEF KeptInv, PlacesInv, Undisturbed, userVars
  <2>2. Once(queue') /\ Queued' = Queued \ {e.cmd}
    BY <1>4, <2>1 DEF Disjoint
  <2>3. OnlyPending'
    <3>1. {e.cmd} \subseteq 1..sent
      BY <1>7, <2>1 DEF OnlyPending
    <3>2. Queued' \cup Running' \cup Delivered' \subseteq (Queued \cup Running \cup Delivered) \ {e.cmd}
      BY <1>5, <1>7, <2>1, <2>2 DEF Disjoint
    <3> QED
      BY <1>2, <1>6, <2>1, <3>1, <3>2, Moves
  <2>4. Disjoint'
    BY <1>2, <1>5, <2>1, <2>2 DEF Disjoint, DeliveredOnce
  <2>5. Entries(queue') = Entries(queue) \ {e}
    BY <1>1, WithoutFacts, KeptFacts
  <2>6. ~MainThread(e)
    BY <1>1 DEF MainThread
  <2>7. DrainsQueue' /\ NotRestored'
    BY <1>2, <2>1, <2>5, <2>6 DEF DrainsQueue, NotRestored
  <2> QED
    BY <2>3, <2>4, <2>7
<1> QED
  BY <1>8, <1>9 DEF PlacesInv

\* Every step keeps every command: one case per action
LEMMA KeptNext == KeptInv /\ [Next]_vars => KeptInv'
<1> SUFFICES ASSUME KeptInv, [Next]_vars PROVE PlacesInv'
  BY TypesNext, UncancelledNext DEF KeptInv
<1>1. CASE RenderFindsNothing \/ UNCHANGED vars
  <2>1. UNCHANGED <<sent, queue, phase, cmds, aborted, snapshot, transcript, fate, userVars>>
    BY <1>1 DEF RenderFindsNothing, vars, runVars
  <2> QED
    BY <2>1, PlacesStay DEF NotRestored
<1>2. CASE InterruptForNow
  <2>1. UNCHANGED <<sent, queue, phase, cmds, snapshot, transcript, fate, userVars>>
    BY <1>2 DEF InterruptForNow
  <2>2. NotRestored => NotRestored'
    BY <1>2 DEF InterruptForNow, Interrupt, NotRestored, KeptInv, TypeOK
  <2> QED
    BY <2>1, <2>2, PlacesStay
<1>3. ASSUME NEW r \in Runs, RunStep(r) PROVE PlacesInv'
  BY <1>3, PlacesStart, PlacesRequeue, PlacesEnded, PlacesSnapshot, PlacesDrained,
     PlacesQueryEnds DEF RunStep
<1> QED
  BY <1>1, <1>2, <1>3, PlacesSubmit, PlacesQueued, PlacesIncoming, PlacesRender,
     PlacesCancel, PlacesPop, PlacesSubagent DEF Next, Render

\* Nothing was sent at the start
LEMMA KeptInit == Init => KeptInv
<1> SUFFICES ASSUME Init PROVE PlacesInv
  BY TypesInit, UncancelledInit DEF KeptInv
<1>1. sent = 0 /\ queue = <<>> /\ transcript = <<>> /\ InFlight = {}
  BY DEF Init, InFlight
<1>2. Queued = {} /\ Running = {} /\ Delivered = {}
  BY <1>1 DEF Queued, Running, Delivered, CommandsOf, Entries
<1>3. Somewhere
  BY <1>1 DEF Somewhere
<1>4. Disjoint
  BY <1>1, <1>2 DEF Init, Disjoint, Once, DeliveredOnce
<1>5. OnlyPending /\ DrainsQueue /\ NotRestored
  BY <1>2 DEF Init, OnlyPending, DrainsQueue, NotRestored
<1> QED
  BY <1>3, <1>4, <1>5 DEF PlacesInv

\* How often a command is in a place: at most once if the place holds each
\* command once, and not at all if it is not among those of the place
LEMMA Counted ==
    ASSUME NEW n \in Nat, NEW f, NEW c
    PROVE  LET I == {i \in 1..n : f[i] = c} IN
           /\ Cardinality(I) \in Nat
           /\ I = {} => Cardinality(I) = 0
           /\ I # {} => Cardinality(I) > 0
           /\ I # {} /\ (\A i, j \in 1..n : f[i] = f[j] => i = j) => Cardinality(I) = 1
<1> DEFINE I == {i \in 1..n : f[i] = c}
<1>1. IsFiniteSet(1..n) /\ I \in SUBSET (1..n)
  BY FS_Interval
<1>2. IsFiniteSet(I)
  BY <1>1, FS_Subset
<1>3. Cardinality(I) \in Nat
  BY <1>2, FS_CardinalityType
<1>4. Cardinality(I) = 0 <=> I = {}
  BY <1>2, FS_EmptySet
<1>5. ASSUME I # {}, \A i, j \in 1..n : f[i] = f[j] => i = j
      PROVE  Cardinality(I) = 1
  <2>1. PICK i \in I : I = {i}
    BY <1>5
  <2> QED
    BY <2>1, FS_Singleton
<1> QED
  BY <1>3, <1>4, <1>5

\* Every command that was sent is queued, being processed, in the conversation
\* or ended, whatever is cancelled and taken back in the meantime; and until
\* then it is in one place only, and there once.
THEOREM CommandsKeptCorrect == Spec => []CommandsKept
<1>1. KeptInv => CommandsKept
  <2> SUFFICES ASSUME KeptInv, NEW c \in 1..sent
               PROVE  LET queued == Cardinality(Places(c).queued)
                          running == Cardinality(Places(c).running)
                          delivered == Cardinality(Places(c).delivered)
                      IN  /\ fate[c] = "pending" => queued + running + delivered > 0
                          /\ cancels = 0 /\ pops = 0 =>
                                queued + running + delivered = IF fate[c] = "pending" THEN 1 ELSE 0
    BY DEF CommandsKept
  <2> DEFINE Q == {i \in DOMAIN queue : queue[i].cmd = c}
             R == {r \in InFlight \ Querying : c \in CommandsOf(cmds[r])}
             D == {i \in DOMAIN transcript : transcript[i].entry.cmd = c}
  <2>1. Places(c).queued = Q /\ Places(c).running = R /\ Places(c).delivered = D
    BY DEF Places
  <2>2. /\ Len(queue) \in Nat /\ DOMAIN queue = 1..Len(queue)
        /\ Len(transcript) \in Nat /\ DOMAIN transcript = 1..Len(transcript)
    BY DEF KeptInv, TypeOK
  <2>3. /\ Q = {} <=> c \notin Queued
        /\ R = {} <=> c \notin Running
        /\ D = {} <=> c \notin Delivered
    <3>1. Q = {} <=> c \notin Queued
      BY DEF Queued, CommandsOf, Entries
    <3>2. R = {} <=> c \notin Running
      BY DEF Running
    <3>3. D = {} <=> c \notin Delivered
      BY DEF Delivered
    <3> QED
      BY <3>1, <3>2, <3>3
  <2>4. /\ Cardinality(Q) \in Nat /\ (Q = {} => Cardinality(Q) = 0)
        /\ (Q # {} => Cardinality(Q) > 0)
        /\ (Q # {} /\ Once(queue) => Cardinality(Q) = 1)
    <3> DEFINE n == Len(queue)
               f == [i \in 1..n |-> queue[i].cmd]
    <3>1. n \in Nat /\ Q = {i \in 1..n : f[i] = c}
      BY <2>2
    <3>2. Once(queue) => \A i, j \in 1..n : f[i] = f[j] => i = j
      BY <2>2 DEF Once
    <3> HIDE DEF f, n, Q
    <3> QED
      BY <3>1, <3>2, Counted
  <2>5. /\ Cardinality(D) \in Nat /\ (D = {} => Cardinality(D) = 0)
        /\ (D # {} => Cardinality(D) > 0)
        /\ (D # {} /\ DeliveredOnce => Cardinality(D) = 1)
    <3> DEFINE n == Len(transcript)
               f == [i \in 1..n |-> transcript[i].entry.cmd]
    <3>1. n \in Nat /\ D = {i \in 1..n : f[i] = c}
      BY <2>2
    <3>2. DeliveredOnce => \A i, j \in 1..n : f[i] = f[j] => i = j
      BY <2>2 DEF DeliveredOnce
    <3> HIDE DEF f, n, D
    <3> QED
      BY <3>1, <3>2, Counted
  <2>6. /\ Cardinality(R) \in Nat /\ (R = {} => Cardinality(R) = 0)
        /\ (R # {} => Cardinality(R) > 0)
        /\ (R # {} /\ Undisturbed => Cardinality(R) = 1)
    <3>1. IsFiniteSet(Runs) /\ R \in SUBSET Runs
      BY NumRunsAssumption, FS_Interval DEF Runs, InFlight
    <3>2. IsFiniteSet(R)
      BY <3>1, FS_Subset
    <3>3. Cardinality(R) \in Nat /\ (Cardinality(R) = 0 <=> R = {})
      BY <3>2, FS_CardinalityType, FS_EmptySet
    <3>4. ASSUME R # {}, Undisturbed PROVE Cardinality(R) = 1
      <4>1. PICK r \in R : TRUE
        BY <3>4
      <4>2. InFlight = {r}
        BY <3>1, <3>4, <4>1, TheOneRun DEF KeptInv, Undisturbed
      <4>3. R = {r}
        BY <4>1, <4>2
      <4> QED
        BY <4>3, FS_Singleton
    <3> QED
      BY <3>3, <3>4
  <2> HIDE DEF Q, R, D
  <2>7. ASSUME fate[c] = "pending"
        PROVE  Cardinality(Q) + Cardinality(R) + Cardinality(D) > 0
    <3>1. Q # {} \/ R # {} \/ D # {}
      BY <2>3, <2>7 DEF KeptInv, PlacesInv, Somewhere
    <3> QED
      BY <2>4, <2>5, <2>6, <3>1
  <2>8. ASSUME Undisturbed
        PROVE  Cardinality(Q) + Cardinality(R) + Cardinality(D)
                  = IF fate[c] = "pending" THEN 1 ELSE 0
    <3>1. Disjoint /\ OnlyPending
      BY <2>8 DEF KeptInv, PlacesInv
    <3>2. CASE fate[c] = "pending"
      <4>1. Q # {} \/ R # {} \/ D # {}
        BY <2>3, <3>2 DEF KeptInv, PlacesInv, Somewhere
      <4>2. (Q = {} \/ R = {}) /\ (Q = {} \/ D = {}) /\ (R = {} \/ D = {})
        BY <2>3, <3>1 DEF Disjoint
      <4>3. Once(queue) /\ DeliveredOnce
        BY <3>1 DEF Disjoint
      <4> QED
        BY <2>4, <2>5, <2>6, <2>8, <3>2, <4>1, <4>2, <4>3
    <3>3. CASE fate[c] # "pending"
      <4>1. Q = {} /\ R = {} /\ D = {}
        BY <2>3, <3>1, <3>3 DEF OnlyPending
      <4> QED
        BY <2>4, <2>5, <2>6, <3>3, <4>1
    <3> QED
      BY <3>2, <3>3
  <2> QED
    BY <2>1, <2>7, <2>8 DEF Undisturbed
<1> QED
  BY <1>1, KeptInit, KeptNext, PTL DEF Spec
=============================================================================
