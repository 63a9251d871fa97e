------------------------ MODULE DesktopSessionProofs ------------------------
(***************************************************************************)
(* Proofs about CliProcesses and DesktopSession.  What holds of the        *)
(* processes, whatever the callers of conversationService do, holds of     *)
(* every session of the desktop server, for any number of clients,         *)
(* messages, changes of the model and failures: the server is one of the   *)
(* callers that CliProcesses allows.                                       *)
(***************************************************************************)
EXTENDS DesktopSession, FiniteSetTheorems, TLAPS

-----------------------------------------------------------------------------
(* The processes                                                            *)

\* What numbers processes: those not spawned yet are unborn, a start that has
\* spawned one knows it, and the entry names one that was spawned.
Numbered ==
    /\ \A p \in Procs : p > spawned <=> life[p] = "unborn"
    /\ \A s \in Starts : phase[s] \in {"grace", "drain"} => child[s] \in 1..spawned
    /\ registered \in 0..spawned

TypeInv == ProcTypeOK /\ Numbered

\* The next process is one of Procs.
LEMMA NextProc ==
    ASSUME TypeInv, spawned < MaxProcs
    PROVE  spawned + 1 \in Procs /\ spawned + 1 \in Nat
BY ProcessBounds DEF TypeInv, ProcTypeOK, Procs

LEMMA ProcsNat == /\ \A p \in Procs : p \in Nat /\ p # None
BY ProcessBounds DEF Procs, None

LEMMA NoMessages == <<>> \in Seq(Messages)
OBVIOUS

\* What a spawn writes into the entry.
LEMMA SpawnEntry ==
    ASSUME NEW s \in Starts, Spawn(s)
    PROVE  /\ attached' \in BOOLEAN /\ queue' \in Seq(Messages)
           /\ registered' = spawned + 1 /\ spawned' = spawned + 1
<1>1. attached' = FALSE /\ queue' = <<>> /\ registered' = spawned + 1 /\ spawned' = spawned + 1
  BY DEF Spawn
<1> QED
  BY <1>1, NoMessages

LEMMA TypeInvInit == ProcInit => TypeInv
<1> SUFFICES ASSUME ProcInit PROVE TypeInv
  OBVIOUS
<1>1. ProcTypeOK
  <2>1. registered \in Procs \cup {None} /\ queue \in Seq(Messages) /\ spawned \in 0..MaxProcs
    BY ProcessBounds DEF ProcInit
  <2>2. life \in [Procs -> Lives] /\ conn \in [Procs -> {"none", "open", "lost", "closed"}]
    BY DEF ProcInit, Lives
  <2>3. got \in [Procs -> Seq(Messages)]
    BY DEF ProcInit
  <2>4. phase \in [Starts -> Phases] /\ child \in [Starts -> Procs \cup {None}]
    BY DEF ProcInit, Phases
  <2> QED
    BY <2>1, <2>2, <2>3, <2>4 DEF ProcInit, ProcTypeOK
<1>2. Numbered
  <2>1. \A p \in Procs : p > spawned <=> life[p] = "unborn"
    BY ProcessBounds DEF ProcInit, Procs
  <2>2. \A s \in Starts : phase[s] \notin {"grace", "drain"}
    BY DEF ProcInit
  <2> QED
    BY <2>1, <2>2 DEF ProcInit, Numbered, None
<1> QED
  BY <1>1, <1>2 DEF TypeInv

LEMMA StartStepTypeInv ==
    ASSUME TypeInv, NEW s \in Starts, StartStep(s)
    PROVE  TypeInv'
<1> USE DEF TypeInv, ProcTypeOK, Numbered
<1>1. CASE StartSession(s)
  BY <1>1 DEF StartSession, Goes, entryVars, childVars, Phases
<1>2. CASE Launched(s)
  BY <1>2 DEF Launched, Goes, entryVars, childVars, Phases
<1>3. CASE StartFails(s)
  BY <1>3 DEF StartFails, Goes, entryVars, childVars, Phases
<1>4. CASE Spawn(s)
  <2>0. spawned < MaxProcs /\ spawned + 1 \in Procs /\ spawned \in Nat
    BY <1>4, NextProc, ProcessBounds DEF Spawn
  <2>1. /\ attached' \in BOOLEAN /\ queue' \in Seq(Messages)
        /\ registered' \in Procs /\ registered' = spawned + 1 /\ spawned' = spawned + 1
    BY <1>4, <2>0, SpawnEntry
  <2>7. spawned' \in 0..MaxProcs /\ registered' \in 0..spawned'
    BY <2>0, <2>1, ProcessBounds
  <2>2. life' \in [Procs -> Lives] /\ phase' \in [Starts -> Phases]
    BY <1>4, <2>0 DEF Spawn, Goes, Lives, Phases
  <2>3. child' \in [Starts -> Procs \cup {None}]
    BY <1>4, <2>0 DEF Spawn
  <2>4. overlapped' \in BOOLEAN
    BY <1>4 DEF Spawn
  <2>5. \A p \in Procs : p > spawned' <=> life'[p] = "unborn"
    BY <1>4, <2>0, ProcsNat DEF Spawn
  <2>6. \A t \in Starts : phase'[t] \in {"grace", "drain"} => child'[t] \in 1..spawned'
    BY <1>4, <2>0, ProcessBounds DEF Spawn, Goes
  <2> QED
    BY <1>4, <2>1, <2>2, <2>3, <2>4, <2>5, <2>6, <2>7 DEF Spawn
<1>5. CASE GraceOver(s)
  BY <1>5 DEF GraceOver, Goes, entryVars, childVars, Phases
<1>6. CASE SaveFails(s)
  BY <1>6 DEF SaveFails, Goes, entryVars, childVars, Phases
<1>7. CASE GraceExit(s)
  BY <1>7 DEF GraceExit, Goes, entryVars, childVars, Phases
<1>8. CASE DrainEnds(s) \/ Retry(s)
  <2>1. registered' = None /\ attached' = FALSE /\ queue' = <<>>
    BY <1>8 DEF DrainEnds, Retry, Forget
  <2>2. registered' \in 0..spawned /\ registered' \in Procs \cup {None} /\ queue' \in Seq(Messages)
    BY <2>1, ProcessBounds DEF None
  <2>3. phase' \in [Starts -> Phases] /\ \A t \in Starts : t # s => phase'[t] = phase[t]
    BY <1>8 DEF DrainEnds, Retry, Goes, Phases
  <2>4. phase'[s] \in {"failed", "launch"}
    BY <1>8 DEF DrainEnds, Retry, Goes
  <2>5. UNCHANGED <<childVars, child, deleted, overlapped, late>>
    BY <1>8 DEF DrainEnds, Retry
  <2> QED
    BY <2>1, <2>2, <2>3, <2>4, <2>5 DEF childVars
<1> QED
  BY <1>1, <1>2, <1>3, <1>4, <1>5, <1>6, <1>7, <1>8 DEF StartStep

\* A process changes its state and the entry may be forgotten, nothing else.
LEMMA LifeTypeInv ==
    ASSUME TypeInv, life' \in [Procs -> Lives],
           \A p \in Procs : life'[p] = "unborn" <=> life[p] = "unborn",
           registered' \in {registered, None}, attached' \in BOOLEAN, queue' \in Seq(Messages),
           conn' \in [Procs -> {"none", "open", "lost", "closed"}], got' \in [Procs -> Seq(Messages)],
           deleted' \in BOOLEAN, late' \in SUBSET Starts,
           UNCHANGED <<spawned, startVars, overlapped>>
    PROVE  TypeInv'
<1>1. registered' \in Procs \cup {None} /\ registered' \in 0..spawned
  BY ProcessBounds DEF TypeInv, ProcTypeOK, Numbered, None
<1>2. ProcTypeOK'
  BY <1>1 DEF TypeInv, ProcTypeOK, startVars
<1>3. \A p \in Procs : p > spawned' <=> life'[p] = "unborn"
  BY DEF TypeInv, Numbered
<1>4. \A s \in Starts : phase'[s] \in {"grace", "drain"} => child'[s] \in 1..spawned'
  BY DEF TypeInv, Numbered, startVars
<1>5. Numbered'
  BY <1>1, <1>3, <1>4 DEF Numbered
<1> QED
  BY <1>2, <1>5 DEF TypeInv

LEMMA ForgetTypes ==
    ASSUME Forget
    PROVE  registered' = None /\ attached' \in BOOLEAN /\ queue' \in Seq(Messages)
<1>1. registered' = None /\ attached' = FALSE /\ queue' = <<>>
  BY DEF Forget
<1> QED
  BY <1>1, NoMessages

LEMMA ProcStepTypeInv ==
    ASSUME TypeInv, NEW p \in Procs, ProcStep(p)
    PROVE  TypeInv'
<1>0. /\ ProcTypeOK
      /\ UNCHANGED entryVars => /\ registered' = registered
                                /\ attached' \in BOOLEAN /\ queue' \in Seq(Messages)
  BY DEF TypeInv, ProcTypeOK, entryVars
<1>1. CASE Exit(p)
  <2>1. life' \in [Procs -> Lives] /\ \A q \in Procs : life'[q] = "unborn" <=> life[q] = "unborn"
    BY <1>0, <1>1 DEF Exit, ProcTypeOK, Lives
  <2>2. conn' \in [Procs -> {"none", "open", "lost", "closed"}] /\ got' \in [Procs -> Seq(Messages)]
    BY <1>0, <1>1 DEF Exit, ProcTypeOK
  <2> QED
    BY <1>0, <1>1, <2>1, <2>2, LifeTypeInv DEF Exit, ProcTypeOK
<1>2. CASE HandleExit(p)
  <2>1. life' \in [Procs -> Lives] /\ \A q \in Procs : life'[q] = "unborn" <=> life[q] = "unborn"
    BY <1>0, <1>2 DEF HandleExit, ProcTypeOK, Lives
  <2> QED
    BY <1>0, <1>2, <2>1, LifeTypeInv DEF HandleExit, ProcTypeOK
<1>3. CASE ExitDrained(p)
  <2>1. life' \in [Procs -> Lives] /\ \A q \in Procs : life'[q] = "unborn" <=> life[q] = "unborn"
    BY <1>0, <1>3 DEF ExitDrained, ProcTypeOK, Lives
  <2> QED
    BY <1>0, <1>3, <2>1, LifeTypeInv, ForgetTypes DEF ExitDrained, ProcTypeOK
<1>4. CASE Connects(p)
  <2>0. got[p] \o queue \in Seq(Messages)
    BY <1>0 DEF ProcTypeOK
  <2>1. conn' \in [Procs -> {"none", "open", "lost", "closed"}]
    BY <1>0, <1>4 DEF Connects, ProcTypeOK
  <2>2. attached' \in BOOLEAN /\ queue' \in Seq(Messages)
    <3>1. \/ attached' = TRUE /\ queue' = <<>>
          \/ attached' = attached /\ queue' = queue
      BY <1>4 DEF Connects
    <3> QED
      BY <1>0, <3>1, NoMessages DEF ProcTypeOK
  <2>3. got' \in [Procs -> Seq(Messages)]
    <3> DEFINE all == got[p] \o queue
    <3> HIDE DEF all
    <3>1. got' = [got EXCEPT ![p] = all] \/ got' = got
      BY <1>4 DEF Connects, all
    <3>2. all \in Seq(Messages)
      BY <2>0 DEF all
    <3> QED
      BY <1>0, <3>1, <3>2 DEF ProcTypeOK
  <2> QED
    BY <1>0, <1>4, <2>1, <2>2, <2>3, LifeTypeInv DEF Connects, ProcTypeOK
<1>5. CASE Closed(p)
  <2>1. conn' \in [Procs -> {"none", "open", "lost", "closed"}]
    BY <1>0, <1>5 DEF Closed, ProcTypeOK
  <2> QED
    BY <1>0, <1>5, <2>1, LifeTypeInv DEF Closed, ProcTypeOK
<1>6. CASE Reply(p)
  <2>0. got[p] \in Seq(Messages) /\ got[p] # <<>>
    BY <1>0, <1>6 DEF Reply, ProcTypeOK
  <2>1. Tail(got[p]) \in Seq(Messages)
    BY <2>0
  <2>2. got' \in [Procs -> Seq(Messages)]
    <3> DEFINE rest == Tail(got[p])
    <3> HIDE DEF rest
    <3>1. got' = [got EXCEPT ![p] = rest]
      BY <1>6 DEF Reply, rest
    <3>2. rest \in Seq(Messages)
      BY <2>1 DEF rest
    <3> QED
      BY <1>0, <3>1, <3>2 DEF ProcTypeOK
  <2> QED
    BY <1>0, <1>6, <2>2, LifeTypeInv DEF Reply, ProcTypeOK
<1> QED
  BY <1>1, <1>2, <1>3, <1>4, <1>5, <1>6 DEF ProcStep

\* A signal is sent to the process of the entry.
LEMMA SignalTypes ==
    ASSUME ProcTypeOK,
           life' = [p \in Procs |-> IF p = registered /\ life[p] = "up" THEN "dying" ELSE life[p]]
    PROVE  life' \in [Procs -> Lives] /\ \A q \in Procs : life'[q] = "unborn" <=> life[q] = "unborn"
BY DEF ProcTypeOK, Lives

LEMMA TypeInvStep == TypeInv /\ [ProcNext]_procVars => TypeInv'
<1> SUFFICES ASSUME TypeInv, [ProcNext]_procVars PROVE TypeInv'
  OBVIOUS
<1>0. ProcTypeOK
  BY DEF TypeInv
<1>1. ASSUME NEW m \in Messages, Send(m) PROVE TypeInv'
  <2>0. queue' \in Seq(Messages)
    <3>1. queue' = queue \/ queue' = Append(queue, m)
      BY <1>1 DEF Send
    <3>2. queue \in Seq(Messages)
      BY <1>0 DEF ProcTypeOK
    <3>3. Append(queue, m) \in Seq(Messages)
      BY <3>2, <1>1
    <3> QED
      BY <3>1, <3>2, <3>3
  <2>1. got' \in [Procs -> Seq(Messages)]
    <3> DEFINE after(p) == Append(got[p], m)
               sent(p) == p = registered /\ conn[p] = "open"
    <3> HIDE DEF after, sent
    <3>1. got' = [p \in Procs |-> IF sent(p) THEN after(p) ELSE got[p]] \/ got' = got
      BY <1>1 DEF Send, after, sent
    <3>2. \A p \in Procs : got[p] \in Seq(Messages) /\ after(p) \in Seq(Messages)
      BY <1>0 DEF after, ProcTypeOK
    <3>3. CASE got' = got
      BY <1>0, <3>3 DEF ProcTypeOK
    <3>4. CASE got' = [p \in Procs |-> IF sent(p) THEN after(p) ELSE got[p]]
      BY <3>2, <3>4
    <3> QED
      BY <3>1, <3>3, <3>4
  <2> QED
    BY <1>0, <1>1, <2>0, <2>1, LifeTypeInv DEF Send, ProcTypeOK
<1>2. CASE Stop
  BY <1>0, <1>2, LifeTypeInv, SignalTypes, ForgetTypes DEF Stop, ProcTypeOK
<1>3. CASE MarkDeleted
  BY <1>0, <1>3, LifeTypeInv, SignalTypes, ForgetTypes DEF MarkDeleted, ProcTypeOK
<1>4. CASE Unmark
  BY <1>4 DEF Unmark, TypeInv, Numbered, ProcTypeOK, entryVars, childVars, startVars
<1>5. CASE UNCHANGED procVars
  BY <1>5 DEF procVars, TypeInv, Numbered, ProcTypeOK, entryVars, childVars, startVars
<1> QED
  BY <1>1, <1>2, <1>3, <1>4, <1>5, StartStepTypeInv, ProcStepTypeInv DEF ProcNext

\* The variables stay in their ranges (ProcTypeOK) whatever the callers of
\* startSession, stopSession, sendMessage and markSessionDeleted do.
THEOREM ProcTypeCorrect == ProcSpec => []ProcTypeOK
<1>1. TypeInv => ProcTypeOK
  BY DEF TypeInv
<1> QED
  BY <1>1, TypeInvInit, TypeInvStep, PTL DEF ProcSpec
-----------------------------------------------------------------------------
(* The entry never holds on to a dead process *)

\* NoDeadEntry is inductive once the types are known, except that a process
\* is born when it gets its entry.
LiveEntry ==
    registered # None =>
        /\ life[registered] \notin {"unborn", "dying"}
        /\ life[registered] = "gone" => Starting(registered)

\* A stop, a deletion and the end of a drain leave no entry.
LEMMA NoEntryNoHarm == ASSUME registered' = None PROVE LiveEntry'
BY DEF LiveEntry

\* A start only ever leaves the grace period of a process that has not gone.
LEMMA StartStepLiveEntry ==
    ASSUME TypeInv, LiveEntry, NEW s \in Starts, StartStep(s)
    PROVE  LiveEntry'
<1>0. ProcTypeOK
  BY DEF TypeInv
<1>1. CASE \/ StartSession(s) \/ Launched(s) \/ StartFails(s)
           \/ GraceOver(s) \/ SaveFails(s) \/ GraceExit(s)
  <2>1. UNCHANGED <<registered, life, child>>
    BY <1>1 DEF StartSession, Launched, StartFails, GraceOver, SaveFails, GraceExit, entryVars, childVars
  <2>2. \A t \in Starts : t # s => phase'[t] = phase[t]
    BY <1>0, <1>1 DEF StartSession, Launched, StartFails, GraceOver, SaveFails, GraceExit, Goes, ProcTypeOK
  <2>3. phase[s] = "grace" /\ life[child[s]] = "gone" => phase'[s] = "drain"
    BY <1>0, <1>1 DEF StartSession, Launched, StartFails, GraceOver, SaveFails, GraceExit, Goes, ProcTypeOK
  <2>4. phase[s] # "drain"
    BY <1>1 DEF StartSession, Launched, StartFails, GraceOver, SaveFails, GraceExit
  <2>5. life[registered] = "gone" /\ Starting(registered) => Starting(registered)'
    BY <2>1, <2>2, <2>3, <2>4 DEF Starting
  <2> QED
    BY <2>1, <2>5 DEF LiveEntry
<1>2. CASE Spawn(s)
  <2>1. registered' = spawned + 1 /\ spawned + 1 \in Procs
    BY <1>2, NextProc DEF Spawn
  <2>2. life'[registered'] = "up"
    BY <1>0, <1>2, <2>1 DEF Spawn, ProcTypeOK
  <2> QED
    BY <2>2 DEF LiveEntry
<1>3. CASE DrainEnds(s) \/ Retry(s)
  BY <1>3, NoEntryNoHarm DEF DrainEnds, Retry, Forget
<1> QED
  BY <1>1, <1>2, <1>3 DEF StartStep

LEMMA ProcStepLiveEntry ==
    ASSUME TypeInv, LiveEntry, NEW p \in Procs, ProcStep(p)
    PROVE  LiveEntry'
<1>0. ProcTypeOK
  BY DEF TypeInv
<1>1. CASE Exit(p)
  <2>1. UNCHANGED <<registered, startVars>>
    BY <1>1 DEF Exit, entryVars
  <2>2. CASE registered = p
    BY <1>0, <1>1, <2>1, <2>2 DEF Exit, LiveEntry, ProcTypeOK
  <2>3. CASE registered # p
    <3>1. life'[registered] = life[registered] \/ registered = None
      BY <1>0, <1>1, <2>3 DEF Exit, ProcTypeOK
    <3> QED
      BY <2>1, <3>1 DEF LiveEntry, Starting, startVars
  <2> QED
    BY <2>2, <2>3
<1>2. CASE HandleExit(p)
  <2>1. UNCHANGED <<registered, startVars>>
    BY <1>2 DEF HandleExit, entryVars
  <2>2. CASE registered = p
    <3>1. life'[p] = "draining" \/ (life'[p] = "gone" /\ Starting(p))
      BY <1>0, <1>2, <2>2 DEF HandleExit, ProcTypeOK
    <3> QED
      BY <2>1, <2>2, <3>1 DEF LiveEntry, Starting, startVars
  <2>3. CASE registered # p
    <3>1. life'[registered] = life[registered] \/ registered = None
      BY <1>0, <1>2, <2>3 DEF HandleExit, ProcTypeOK
    <3> QED
      BY <2>1, <3>1 DEF LiveEntry, Starting, startVars
  <2> QED
    BY <2>2, <2>3
<1>3. CASE ExitDrained(p)
  BY <1>3, NoEntryNoHarm DEF ExitDrained, Forget
<1>4. CASE Connects(p) \/ Closed(p) \/ Reply(p)
  <2>1. UNCHANGED <<registered, life, startVars>>
    BY <1>4 DEF Connects, Closed, Reply, entryVars
  <2> QED
    BY <2>1 DEF LiveEntry, Starting, startVars
<1> QED
  BY <1>1, <1>2, <1>3, <1>4 DEF ProcStep

\* The entry never names a process that was stopped, and one whose exit was
\* handled only as long as a start will delete the entry (NoDeadEntry).
THEOREM NoDeadEntryCorrect == ProcSpec => []NoDeadEntry
<1>1. ProcInit => LiveEntry
  BY DEF ProcInit, LiveEntry
<1>2. TypeInv /\ LiveEntry /\ [ProcNext]_procVars => LiveEntry'
  <2> SUFFICES ASSUME TypeInv, LiveEntry, [ProcNext]_procVars PROVE LiveEntry'
    OBVIOUS
  <2>1. ASSUME NEW m \in Messages, Send(m) PROVE LiveEntry'
    BY <2>1 DEF Send, LiveEntry, Starting, startVars
  <2>2. CASE Stop \/ MarkDeleted
    BY <2>2, NoEntryNoHarm DEF Stop, MarkDeleted, Forget
  <2>3. CASE Unmark \/ UNCHANGED procVars
    BY <2>3 DEF Unmark, procVars, entryVars, childVars, startVars, LiveEntry, Starting
  <2> QED
    BY <2>1, <2>2, <2>3, StartStepLiveEntry, ProcStepLiveEntry DEF ProcNext
<1>3. LiveEntry => NoDeadEntry
  BY DEF LiveEntry, NoDeadEntry
<1> QED
  BY <1>1, <1>2, <1>3, TypeInvInit, TypeInvStep, PTL DEF ProcSpec
-----------------------------------------------------------------------------
(* A deleted session stays down *)

\* While the session is deleted, the starts that may still spawn had passed
\* their last check before, and the entry names the process of one of them.
Guarded ==
    deleted =>
        /\ \A s \in Starts : phase[s] = "prepare" => s \in late
        /\ registered # None => \E s \in late : child[s] = registered

LEMMA StartStepGuarded ==
    ASSUME TypeInv, Guarded, NEW s \in Starts, StartStep(s)
    PROVE  Guarded'
<1>0. ProcTypeOK
  BY DEF TypeInv
<1>1. CASE \/ StartSession(s) \/ Launched(s) \/ StartFails(s)
           \/ GraceOver(s) \/ SaveFails(s) \/ GraceExit(s)
  <2>1. UNCHANGED <<registered, child, deleted, late>>
    BY <1>1 DEF StartSession, Launched, StartFails, GraceOver, SaveFails, GraceExit, entryVars
  <2>2. \A t \in Starts : t # s => phase'[t] = phase[t]
    BY <1>0, <1>1 DEF StartSession, Launched, StartFails, GraceOver, SaveFails, GraceExit, Goes, ProcTypeOK
  <2>3. phase'[s] = "prepare" => ~deleted
    BY <1>0, <1>1 DEF StartSession, Launched, StartFails, GraceOver, SaveFails, GraceExit, Goes, ProcTypeOK
  <2> QED
    BY <2>1, <2>2, <2>3 DEF Guarded
<1>2. CASE Spawn(s)
  <2>1. UNCHANGED <<deleted, late>> /\ registered' = spawned + 1
    BY <1>2 DEF Spawn
  <2>2. child'[s] = registered'
    BY <1>0, <1>2 DEF Spawn, ProcTypeOK
  <2>3. \A t \in Starts : phase'[t] = "prepare" => phase[t] = "prepare"
    BY <1>0, <1>2 DEF Spawn, Goes, ProcTypeOK
  <2>4. phase[s] = "prepare"
    BY <1>2 DEF Spawn
  <2> QED
    BY <2>1, <2>2, <2>3, <2>4 DEF Guarded
<1>3. CASE DrainEnds(s) \/ Retry(s)
  <2>1. registered' = None /\ UNCHANGED <<deleted, late>>
    BY <1>3 DEF DrainEnds, Retry, Forget
  <2>2. \A t \in Starts : phase'[t] = "prepare" => phase[t] = "prepare"
    BY <1>0, <1>3 DEF DrainEnds, Retry, Goes, ProcTypeOK
  <2> QED
    BY <2>1, <2>2 DEF Guarded
<1> QED
  BY <1>1, <1>2, <1>3 DEF StartStep

\* A deleted session gets a process only from a start that had passed both
\* checks of startSession before the deletion (DeletedStaysDown).
THEOREM DeletedStaysDownCorrect == ProcSpec => []DeletedStaysDown
<1>1. ProcInit => Guarded
  BY DEF ProcInit, Guarded
<1>2. TypeInv /\ Guarded /\ [ProcNext]_procVars => Guarded'
  <2> SUFFICES ASSUME TypeInv, Guarded, [ProcNext]_procVars PROVE Guarded'
    OBVIOUS
  <2>1. ASSUME NEW p \in Procs, ProcStep(p) PROVE Guarded'
    <3>1. registered' \in {registered, None} /\ UNCHANGED <<phase, child, deleted, late>>
      BY <2>1 DEF ProcStep, Exit, HandleExit, ExitDrained, Connects, Closed, Reply, Forget,
                  entryVars, startVars
    <3> QED
      BY <3>1 DEF Guarded
  <2>2. ASSUME NEW m \in Messages, Send(m) PROVE Guarded'
    BY <2>2 DEF Send, Guarded, startVars
  <2>3. CASE Stop
    BY <2>3 DEF Stop, Forget, Guarded, startVars
  <2>4. CASE MarkDeleted
    BY <2>4 DEF MarkDeleted, Forget, Guarded, startVars
  <2>5. CASE Unmark \/ UNCHANGED procVars
    BY <2>5 DEF Unmark, procVars, entryVars, startVars, Guarded
  <2> QED
    BY <2>1, <2>2, <2>3, <2>4, <2>5, StartStepGuarded DEF ProcNext
<1>3. Guarded => DeletedStaysDown
  BY DEF Guarded, DeletedStaysDown
<1> QED
  BY <1>1, <1>2, <1>3, TypeInvInit, TypeInvStep, PTL DEF ProcSpec
-----------------------------------------------------------------------------
(* No process is left behind *)

\* Unless something has overlapped, a start under way finds no entry but its
\* own, and neither does the end of a drain.
Alone ==
    ~overlapped =>
        /\ \A p \in Procs : life[p] = "up" => registered = p
        /\ \A p \in Procs : life[p] = "draining" => registered \in {None, p}
        /\ \A s \in Starts : phase[s] \in {"launch", "prepare"} => registered = None
        /\ \A s \in Starts : phase[s] \in {"grace", "drain"} => registered \in {None, child[s]}
        /\ \A s \in Starts : phase[s] = "drain" => life[child[s]] = "gone"

\* Once the entry is gone and nothing is up, all is well.
LEMMA NobodyAlone ==
    ASSUME TypeInv, registered' = None, \A p \in Procs : life'[p] # "up",
           \A s \in Starts : phase'[s] = "drain" => life'[child'[s]] = "gone"
    PROVE  Alone'
BY DEF Alone

\* What ends a drain finds nothing up.
LEMMA DrainFindsNothing ==
    ASSUME TypeInv, Alone, ~overlapped, NEW s \in Starts, phase[s] = "drain"
    PROVE  \A p \in Procs : life[p] # "up"
<1> SUFFICES ASSUME NEW p \in Procs, life[p] = "up" PROVE FALSE
  OBVIOUS
<1>1. registered = p /\ registered \in {None, child[s]} /\ life[child[s]] = "gone"
  BY DEF Alone
<1> QED
  BY <1>1, ProcsNat

LEMMA StartStepAlone ==
    ASSUME TypeInv, Alone, NEW s \in Starts, StartStep(s)
    PROVE  Alone'
<1>0. ProcTypeOK
  BY DEF TypeInv
<1> SUFFICES ASSUME ~overlapped' PROVE Alone'
  BY DEF Alone
<1>1. CASE \/ StartSession(s) \/ Launched(s) \/ StartFails(s)
           \/ GraceOver(s) \/ SaveFails(s) \/ GraceExit(s)
  <2>1. UNCHANGED <<registered, life, child, overlapped>>
    BY <1>1 DEF StartSession, Launched, StartFails, GraceOver, SaveFails, GraceExit, entryVars, childVars
  <2>2. \A t \in Starts : t # s => phase'[t] = phase[t]
    BY <1>0, <1>1 DEF StartSession, Launched, StartFails, GraceOver, SaveFails, GraceExit, Goes, ProcTypeOK
  <2>3. phase'[s] \in {"launch", "prepare"} => registered = None \/ phase[s] \in {"launch", "prepare"}
    BY <1>0, <1>1 DEF StartSession, Launched, StartFails, GraceOver, SaveFails, GraceExit, Goes, ProcTypeOK
  <2>4. phase'[s] \in {"grace", "drain"} => phase[s] = "grace" /\ life[child[s]] = "gone"
    BY <1>0, <1>1 DEF StartSession, Launched, StartFails, GraceOver, SaveFails, GraceExit, Goes, ProcTypeOK
  <2> QED
    BY <2>1, <2>2, <2>3, <2>4 DEF Alone
<1>2. CASE Spawn(s)
  <2>1. /\ ~overlapped
        /\ \A t \in Starts \ {s} : ~InFlight(t)
        /\ \A p \in Procs : life[p] # "draining"
    BY <1>2 DEF Spawn
  <2>2. registered = None
    BY <1>2, <2>1 DEF Spawn, Alone
  <2>3. \A p \in Procs : life[p] # "up"
    BY <2>1, <2>2, ProcsNat DEF Alone
  <2>4. registered' = spawned + 1 /\ spawned + 1 \in Procs
    BY <1>2, NextProc DEF Spawn
  <2>5. \A p \in Procs : life'[p] = IF p = spawned + 1 THEN "up" ELSE life[p]
    BY <1>0, <1>2, <2>4 DEF Spawn, ProcTypeOK
  <2>6. child'[s] = registered' /\ phase'[s] = "grace"
    BY <1>0, <1>2 DEF Spawn, Goes, ProcTypeOK
  <2>7. \A t \in Starts \ {s} : phase'[t] \notin {"launch", "prepare", "grace", "drain"}
    BY <1>0, <1>2, <2>1 DEF Spawn, Goes, InFlight, ProcTypeOK
  <2> QED
    BY <2>1, <2>3, <2>4, <2>5, <2>6, <2>7 DEF Alone
<1>3. CASE DrainEnds(s) \/ Retry(s)
  <2>1. /\ registered' = None /\ phase[s] = "drain"
        /\ UNCHANGED <<life, child, overlapped>>
    BY <1>3 DEF DrainEnds, Retry, Forget, childVars
  <2>2. \A p \in Procs : life'[p] # "up"
    BY <2>1, DrainFindsNothing
  <2>3. \A t \in Starts : phase'[t] = "drain" => phase[t] = "drain"
    BY <1>0, <1>3 DEF DrainEnds, Retry, Goes, ProcTypeOK
  <2> QED
    BY <2>1, <2>2, <2>3, NobodyAlone DEF Alone
<1> QED
  BY <1>1, <1>2, <1>3 DEF StartStep

LEMMA ProcStepAlone ==
    ASSUME TypeInv, Alone, NEW p \in Procs, ProcStep(p)
    PROVE  Alone'
<1>0. ProcTypeOK /\ \A s \in Starts : phase[s] = "drain" => child[s] \in Procs
  <2>1. \A s \in Starts : phase[s] = "drain" => child[s] \in Procs \cup {None} /\ child[s] # None
    BY ProcessBounds DEF TypeInv, Numbered, ProcTypeOK, None
  <2> QED
    BY <2>1 DEF TypeInv
<1>1. CASE Exit(p)
  <2>1. UNCHANGED <<registered, phase, child, overlapped>>
    BY <1>1 DEF Exit, entryVars, startVars
  <2>2. life[p] # "gone" /\ \A q \in Procs : life'[q] = IF q = p THEN life'[p] ELSE life[q]
    BY <1>0, <1>1 DEF Exit, ProcTypeOK
  <2>3. life'[p] \in {"exited", "gone"}
    BY <1>0, <1>1 DEF Exit, ProcTypeOK
  <2> QED
    BY <1>0, <2>1, <2>2, <2>3 DEF Alone
<1>2. CASE HandleExit(p)
  <2>1. UNCHANGED <<registered, phase, child, overlapped>>
    BY <1>2 DEF HandleExit, entryVars, startVars
  <2>2. life[p] # "gone" /\ \A q \in Procs : life'[q] = IF q = p THEN life'[p] ELSE life[q]
    BY <1>0, <1>2 DEF HandleExit, ProcTypeOK
  <2>3. life'[p] = "gone" \/ (life'[p] = "draining" /\ registered = p)
    BY <1>0, <1>2 DEF HandleExit, ProcTypeOK
  <2> QED
    BY <1>0, <2>1, <2>2, <2>3 DEF Alone
<1>3. CASE ExitDrained(p)
  <2> SUFFICES ASSUME ~overlapped PROVE Alone'
    BY <1>3 DEF ExitDrained, Alone
  <2>1. registered' = None /\ UNCHANGED <<phase, child>>
    BY <1>3 DEF ExitDrained, Forget, startVars
  <2>2. \A q \in Procs : life'[q] = IF q = p THEN "gone" ELSE life[q]
    BY <1>0, <1>3 DEF ExitDrained, ProcTypeOK
  <2>3. life[p] = "draining" /\ registered \in {None, p}
    BY <1>3 DEF ExitDrained, Alone
  <2>4. \A q \in Procs : life[q] = "up" => registered = q /\ q # p
    BY <2>3 DEF Alone
  <2>5. \A q \in Procs : life'[q] # "up"
    BY <2>2, <2>3, <2>4, ProcsNat
  <2> QED
    BY <1>0, <2>1, <2>2, <2>5, NobodyAlone DEF Alone
<1>4. CASE Connects(p) \/ Closed(p) \/ Reply(p)
  BY <1>4 DEF Connects, Closed, Reply, entryVars, startVars, Alone
<1> QED
  BY <1>1, <1>2, <1>3, <1>4 DEF ProcStep

\* A stop that finds the only process that is up leaves none.
LEMMA SignalAlone ==
    ASSUME TypeInv, Alone, registered' = None, UNCHANGED <<phase, child, overlapped>>,
           life' = [p \in Procs |-> IF p = registered /\ life[p] = "up" THEN "dying" ELSE life[p]]
    PROVE  Alone'
<1> SUFFICES ASSUME ~overlapped PROVE Alone'
  BY DEF Alone
<1>1. \A p \in Procs : life'[p] # "up"
  BY DEF Alone
<1>2. \A s \in Starts : phase[s] = "drain" => child[s] \in Procs
  <2>1. \A s \in Starts : phase[s] = "drain" => child[s] \in Procs \cup {None} /\ child[s] # None
    BY ProcessBounds DEF TypeInv, Numbered, ProcTypeOK, None
  <2> QED
    BY <2>1
<1> QED
  BY <1>1, <1>2, NobodyAlone DEF Alone

LEMMA AloneInit == ProcInit => Alone
BY DEF ProcInit, Alone

LEMMA AloneStep == TypeInv /\ Alone /\ [ProcNext]_procVars => Alone'
<1> SUFFICES ASSUME TypeInv, Alone, [ProcNext]_procVars PROVE Alone'
  OBVIOUS
<1>1. ASSUME NEW m \in Messages, Send(m) PROVE Alone'
  BY <1>1 DEF Send, Alone, startVars
<1>2. CASE Stop \/ MarkDeleted
  BY <1>2, SignalAlone DEF Stop, MarkDeleted, Forget, startVars
<1>3. CASE Unmark \/ UNCHANGED procVars
  BY <1>3 DEF Unmark, procVars, entryVars, childVars, startVars, Alone
<1> QED
  BY <1>1, <1>2, <1>3, StartStepAlone, ProcStepAlone DEF ProcNext

\* Unless starts, or a start and an exit, have overlapped, a process that is up
\* is the one of the entry: stopSession reaches every process (NoOrphan).
THEOREM NoOrphanCorrect == ProcSpec => []NoOrphan
<1>1. Alone => NoOrphan
  BY DEF Alone, NoOrphan
<1> QED
  BY <1>1, AloneInit, AloneStep, TypeInvInit, TypeInvStep, PTL DEF ProcSpec

\* What the callers of conversationService may count on.
LEMMA ProcFacts == ProcSpec => [](TypeInv /\ Alone)
BY AloneInit, AloneStep, TypeInvInit, TypeInvStep, PTL DEF ProcSpec

-----------------------------------------------------------------------------
(* The server                                                               *)

\* A step that leaves the processes alone.
Idles == UNCHANGED procVars

\* Clients that come, go or are disconnected only stop the process.
LEMMA ClientSteps ==
    ASSUME NEW c \in Clients, Connect(c) \/ Disconnect(c)
    PROVE  Idles
BY DEF Connect, Disconnect, Idles

\* The handler of a message calls nothing but startSession and sendMessage.
LEMMA TurnSteps ==
    ASSUME NEW m \in Messages, Receive(m) \/ TurnStep(m)
    PROVE  Idles \/ Send(m)
<1>1. CASE Receive(m)
  BY <1>1 DEF Receive, Idles
<1>2. CASE WaitOver(m)
  BY <1>2 DEF WaitOver, Idles
<1>3. CASE Titled(m)
  BY <1>3 DEF Titled, Idles
<1>4. CASE StartOver(m)
  BY <1>4 DEF StartOver, Idles
<1>5. CASE SendTurn(m)
  BY <1>5 DEF SendTurn, Idles
<1> QED
  BY <1>1, <1>2, <1>3, <1>4, <1>5 DEF TurnStep

LEMMA ChildSteps ==
    ASSUME NEW p \in Procs, ChildStep(p) \/ Crash(p)
    PROVE  ProcStep(p)
BY DEF ChildStep, Crash, ReplyTurn, ExitTold, Dies, ExitSeen, SdkOpens, SdkCloses, ProcStep

LEMMA StartSteps ==
    ASSUME NEW s \in Starts, StartMoves(s)
    PROVE  StartStep(s)
BY DEF StartMoves, StartStep

LEMMA TransitionSteps ==
    ASSUME NEW t \in Transitions,
           SetRuntime(t) \/ Transition(t) \/ TransitionFails(t) \/ Restarted(t)
    PROVE  Idles \/ Stop
BY DEF SetRuntime, Transition, TransitionFails, Restarted, Idles

LEMMA OtherSteps ==
    ASSUME \/ Prewarm \/ PrewarmRead \/ PrewarmOver \/ PrewarmIdle
           \/ CleanupFires \/ StopGeneration \/ ForceKill \/ Clear
           \/ Delete \/ DeleteDone \/ DeleteFails
    PROVE  Idles \/ Stop \/ MarkDeleted \/ Unmark
BY DEF Prewarm, PrewarmRead, PrewarmOver, PrewarmIdle, CleanupFires, StopGeneration, ForceKill,
       Clear, Delete, DeleteDone, DeleteFails, Idles

\* The server uses conversationService as CliProcesses says: every step of a
\* handler, a timer or a socket is a step of it or leaves it alone (ProcSpec).
THEOREM ServerUsesProcesses == Spec => ProcSpec
<1>1. Init => ProcInit
  BY DEF Init
<1>2. [Next]_vars => [ProcNext]_procVars
  <2> SUFFICES ASSUME [Next]_vars PROVE ProcNext \/ UNCHANGED procVars
    OBVIOUS
  <2>1. CASE UNCHANGED vars
    BY <2>1 DEF vars
  <2>2. CASE Next
    BY <2>2, ClientSteps, TurnSteps, ChildSteps, StartSteps, TransitionSteps, OtherSteps
       DEF Next, ProcNext, Idles
  <2> QED
    BY <2>1, <2>2
<1> QED
  BY <1>1, <1>2, PTL DEF Spec, ProcSpec

\* Unless starts overlapped, no CLI process of a session is out of reach of
\* the server (NoOrphan).
THEOREM ServerReachesProcesses == Spec => []NoOrphan
BY ServerUsesProcesses, NoOrphanCorrect, PTL

\* A process that died does not keep the session from being started again
\* (NoDeadEntry).
THEOREM ServerForgetsTheDead == Spec => []NoDeadEntry
BY ServerUsesProcesses, NoDeadEntryCorrect, PTL

\* A session that was deleted stays down but for the starts that had passed
\* their last check (DeletedStaysDown).
THEOREM ServerKeepsDeletedDown == Spec => []DeletedStaysDown
BY ServerUsesProcesses, DeletedStaysDownCorrect, PTL

-----------------------------------------------------------------------------
(* Types                                                                   *)

ServerTypes == ClientTypes /\ StartTypes /\ TransTypes /\ TurnTypes

LEMMA ServerTypesInit == Init => ServerTypes
<1> SUFFICES ASSUME Init PROVE ServerTypes
  OBVIOUS
<1>1. ClientTypes
  <2>1. 0 \in 0..MaxEvents /\ <<>> \in Seq(SUBSET Messages)
    BY DesktopBounds
  <2> QED
    BY <2>1 DEF Init, ClientTypes
<1>2. StartTypes
  <2>1. /\ asked = 0 /\ startup = 0 /\ prewarm = [at |-> "idle", on |-> 0]
        /\ prewarmPending = FALSE /\ prewarmed = FALSE
    BY DEF Init, Idle
  <2>2. 0 \in 0..0
    OBVIOUS
  <2> QED
    BY <2>1, <2>2 DEF StartTypes
<1>3. TransTypes
  <2>1. 0 \in 0..MaxTransitions /\ 0 \in 0..asked
    BY DesktopBounds DEF Init
  <2> QED
    BY <2>1 DEF Init, TransTypes
<1>4. TurnTypes
  BY DEF Init, TurnTypes, Unbound
<1> QED
  BY <1>1, <1>2, <1>3, <1>4 DEF ServerTypes

\* More starts may be asked for, the rest of StartTypes and TransTypes unchanged
LEMMA MoreStarts ==
    ASSUME StartTypes, TransTypes, asked' \in Nat, asked <= asked'
    PROVE  /\ startup \in 0..asked' /\ prewarm.on \in 0..asked'
           /\ \A t \in Transitions : trans[t].awaits \in 0..asked' /\ trans[t].on \in 0..asked'
BY DEF StartTypes, TransTypes

LEMMA EnsureTypes ==
    ASSUME StartTypes, Ensure
    PROVE  /\ asked' \in Nat /\ asked <= asked' /\ startup' \in 0..asked'
           /\ Ensured \in 0..asked'
BY DEF StartTypes, Ensure, Ensured, startupVars

LEMMA BindTypes ==
    ASSUME TurnTypes, NEW C, NEW how \in Messages \cup {NoCallback, Live}, Bind(C, how)
    PROVE  out' \in [Clients -> Messages \cup {NoCallback, Live}]
BY DEF TurnTypes, Bind

LEMMA ReboundTypes ==
    ASSUME TurnTypes, Rebound
    PROVE  out' \in [Clients -> Messages \cup {NoCallback, Live}]
BY DEF TurnTypes, Rebound, Unbound

LEMMA MovesTypes ==
    ASSUME TurnTypes, NEW m \in Messages, NEW on \in Nat,
           NEW at \in {"new", "wait", "title", "start", "settle", "send", "sent", "answered",
                       "unheard", "refused"},
           Moves(m, at, on)
    PROVE  turn' \in [Messages -> [at : {"new", "wait", "title", "start", "settle", "send", "sent",
                                         "answered", "unheard", "refused"}, on : Nat]]
BY DEF TurnTypes, Moves

LEMMA RegisteredNat ==
    ASSUME ProcTypeOK
    PROVE  registered \in Nat
BY ProcessBounds DEF ProcTypeOK, Procs, None

LEMMA ClientTypesKept ==
    ASSUME ServerTypes, Next
    PROVE  ClientTypes'
<1> USE DEF ServerTypes
<1>1. ASSUME Event PROVE events' \in 0..MaxEvents
  BY <1>1, DesktopBounds DEF Event, ClientTypes
<1>2. ASSUME UNCHANGED <<clientVars, deleting>>, Event \/ UNCHANGED events PROVE ClientTypes'
  BY <1>1, <1>2 DEF ClientTypes, clientVars
<1>3. ASSUME NEW c \in Clients, Connect(c) \/ Disconnect(c) PROVE ClientTypes'
  BY <1>1, <1>3 DEF Connect, Disconnect, ClientTypes
<1>4. ASSUME NEW m \in Messages, Receive(m) \/ TurnStep(m) PROVE ClientTypes'
  BY <1>2, <1>4 DEF Receive, TurnStep, WaitOver, Titled, StartOver, SendTurn
<1>5. ASSUME NEW p \in Procs, ChildStep(p) \/ Crash(p) PROVE ClientTypes'
  BY <1>2, <1>5 DEF ChildStep, Crash, ReplyTurn, ExitTold, Dies, ExitSeen, SdkOpens, SdkCloses
<1>6. ASSUME NEW s \in Starts, StartMoves(s) PROVE ClientTypes'
  BY <1>2, <1>6 DEF StartMoves
<1>7. ASSUME NEW t \in Transitions,
             SetRuntime(t) \/ Transition(t) \/ TransitionFails(t) \/ Restarted(t)
      PROVE  ClientTypes'
  BY <1>2, <1>7 DEF SetRuntime, Transition, TransitionFails, Restarted
<1>8. CASE Prewarm \/ PrewarmRead \/ PrewarmOver \/ PrewarmIdle \/ Clear
  BY <1>2, <1>8 DEF Prewarm, PrewarmRead, PrewarmOver, PrewarmIdle, Clear
<1>9. CASE CleanupFires \/ DeleteDone
  BY <1>9 DEF CleanupFires, DeleteDone, ClientTypes
<1>10. CASE StopGeneration
  <2>1. events' \in 0..MaxEvents /\ UNCHANGED <<clients, cleanupTimer, deleting>>
    BY <1>1, <1>10 DEF StopGeneration
  <2>2. stopTimers' \in Seq(SUBSET Messages)
    BY <1>10 DEF StopGeneration, ClientTypes
  <2> QED
    BY <2>1, <2>2 DEF ClientTypes
<1>11. CASE ForceKill
  BY <1>11 DEF ForceKill, ClientTypes
<1>12. CASE Delete \/ DeleteFails
  <2>1. events' \in 0..MaxEvents /\ deleting' \in BOOLEAN
    BY <1>1, <1>12 DEF Delete, DeleteFails
  <2>2. UNCHANGED clientVars
    BY <1>12 DEF Delete, DeleteFails
  <2> QED
    BY <2>1, <2>2 DEF ClientTypes, clientVars
<1> QED
  BY <1>3, <1>4, <1>5, <1>6, <1>7, <1>8, <1>9, <1>10, <1>11, <1>12 DEF Next

\* The starts that are asked for, and who waits for them
LEMMA StartTypesKept ==
    ASSUME ServerTypes, Next
    PROVE  asked' \in Nat /\ asked <= asked' /\ StartTypes'
<1> USE DEF ServerTypes
<1>1. ASSUME UNCHANGED <<startupVars, warmVars>> PROVE asked' \in Nat /\ asked <= asked' /\ StartTypes'
  BY <1>1 DEF StartTypes, startupVars, warmVars
<1>2. ASSUME Ensure \/ UNCHANGED startupVars, prewarm' = prewarm,
             prewarmPending' \in BOOLEAN, prewarmed' \in BOOLEAN
      PROVE  asked' \in Nat /\ asked <= asked' /\ StartTypes'
  <2>1. asked' \in Nat /\ asked <= asked' /\ startup' \in 0..asked'
    BY <1>2, EnsureTypes DEF StartTypes, startupVars
  <2>2. prewarm.on \in 0..asked'
    BY <2>1, MoreStarts
  <2> QED
    BY <1>2, <2>1, <2>2 DEF StartTypes
<1>12. ASSUME asked' = asked, startup' = startup, prewarmPending' \in BOOLEAN,
              prewarmed' \in BOOLEAN,
              prewarm' \in [at : {"idle", "reading", "starting"}, on : 0..asked]
       PROVE  asked' \in Nat /\ asked <= asked' /\ StartTypes'
  BY <1>12 DEF StartTypes
<1>13. ASSUME asked' = asked, startup' = 0, prewarm' = prewarm, prewarmPending' \in BOOLEAN,
              prewarmed' \in BOOLEAN
       PROVE  asked' \in Nat /\ asked <= asked' /\ StartTypes'
  BY <1>13 DEF StartTypes
<1>3. ASSUME NEW c \in Clients, Connect(c) \/ Disconnect(c)
      PROVE  asked' \in Nat /\ asked <= asked' /\ StartTypes'
  BY <1>1, <1>3 DEF Connect, Disconnect
<1>4. ASSUME NEW m \in Messages, Receive(m) \/ TurnStep(m)
      PROVE  asked' \in Nat /\ asked <= asked' /\ StartTypes'
  <2>1. Ensure \/ UNCHANGED startupVars
    BY <1>4 DEF Receive, Proceed, Start, TurnStep, WaitOver, Titled, StartOver, SendTurn
  <2>2. prewarm' = prewarm /\ prewarmPending' \in BOOLEAN /\ prewarmed' \in BOOLEAN
    BY <1>4 DEF Receive, ForgetPrewarm, TurnStep, WaitOver, Titled, StartOver, SendTurn, warmVars,
                StartTypes
  <2> QED
    BY <1>2, <2>1, <2>2
<1>5. ASSUME NEW p \in Procs, ChildStep(p) \/ Crash(p)
      PROVE  asked' \in Nat /\ asked <= asked' /\ StartTypes'
  BY <1>1, <1>5 DEF ChildStep, Crash, ReplyTurn, ExitTold, Dies, ExitSeen, SdkOpens, SdkCloses
<1>6. ASSUME NEW s \in Starts, StartMoves(s)
      PROVE  asked' \in Nat /\ asked <= asked' /\ StartTypes'
  BY <1>6 DEF StartMoves, StartTypes, warmVars
<1>7. ASSUME NEW t \in Transitions,
             SetRuntime(t) \/ Transition(t) \/ TransitionFails(t) \/ Restarted(t)
      PROVE  asked' \in Nat /\ asked <= asked' /\ StartTypes'
  <2>1. asked' \in {asked, asked + 1} /\ startup' = startup /\ UNCHANGED warmVars
    BY <1>7 DEF SetRuntime, Transition, TransitionFails, Restarted, startupVars
  <2>2. asked' \in Nat /\ asked <= asked'
    BY <2>1 DEF StartTypes
  <2>3. startup \in 0..asked' /\ prewarm.on \in 0..asked'
    BY <2>2, MoreStarts
  <2> QED
    BY <2>1, <2>2, <2>3 DEF StartTypes, warmVars
<1>8. CASE Prewarm \/ PrewarmOver \/ PrewarmIdle \/ Clear
  <2>1. asked' = asked /\ startup' = startup
    BY <1>8 DEF Prewarm, PrewarmOver, PrewarmIdle, Clear, startupVars
  <2>2. prewarm' \in {prewarm, Idle, [at |-> "reading", on |-> 0]}
    BY <1>8 DEF Prewarm, PrewarmOver, PrewarmIdle, Clear
  <2>3. prewarmPending \in BOOLEAN /\ prewarmed \in BOOLEAN
    BY DEF StartTypes
  <2>4. prewarmPending' \in BOOLEAN /\ prewarmed' \in BOOLEAN
    BY <1>8, <2>3, Zenon DEF Prewarm, PrewarmOver, PrewarmIdle, Clear, ForgetPrewarm
  <2>5. prewarm' \in [at : {"idle", "reading", "starting"}, on : 0..asked]
    BY <2>2 DEF StartTypes, Idle
  <2> QED
    BY <1>12, <2>1, <2>4, <2>5
<1>9. CASE PrewarmRead
  <2>1. asked' \in Nat /\ asked <= asked' /\ startup' \in 0..asked' /\ Ensured \in 0..asked'
    BY <1>9, EnsureTypes DEF PrewarmRead
  <2>2. prewarm' = [at |-> "starting", on |-> Ensured] /\ prewarmPending' = TRUE
        /\ prewarmed' = prewarmed
    BY <1>9 DEF PrewarmRead
  <2> QED
    BY <2>1, <2>2 DEF StartTypes
<1>10. CASE CleanupFires \/ DeleteDone
  <2>1. CleanUp
    BY <1>10 DEF CleanupFires, DeleteDone
  <2>2. asked' = asked /\ startup' = 0 /\ prewarm' = prewarm
    BY <2>1 DEF CleanUp
  <2>3. prewarmPending' \in BOOLEAN /\ prewarmed' \in BOOLEAN
    BY <2>1, Zenon DEF CleanUp, ForgetPrewarm
  <2> QED
    BY <1>13, <2>2, <2>3
<1>11. CASE StopGeneration \/ ForceKill \/ Delete \/ DeleteFails
  BY <1>1, <1>11 DEF StopGeneration, ForceKill, Delete, DeleteFails
<1> QED
  BY <1>3, <1>4, <1>5, <1>6, <1>7, <1>8, <1>9, <1>10, <1>11 DEF Next

LEMMA TransTypesKept ==
    ASSUME ServerTypes, Next
    PROVE  TransTypes'
<1> DEFINE Ats == {"unused", "queued", "restarting", "done", "failed"}
<1>1. asked' \in Nat /\ asked <= asked' /\ asked \in Nat /\ startup \in 0..asked
  BY StartTypesKept DEF ServerTypes, StartTypes
<1>2. /\ last \in 0..MaxTransitions /\ override \in 0..MaxTransitions
      /\ trans \in [Transitions -> [at : Ats, prev : 0..MaxTransitions, awaits : 0..asked',
                                    on : 0..asked']]
      /\ trans \in [Transitions -> [at : Ats, prev : 0..MaxTransitions, awaits : 0..asked,
                                    on : 0..asked]]
  BY <1>1, MoreStarts DEF ServerTypes, TransTypes
<1>3. \A t \in Transitions : t \in 0..MaxTransitions
  BY DesktopBounds DEF Transitions
<1>4. 0 \in 0..MaxTransitions /\ 0 \in 0..asked'
  BY <1>1, DesktopBounds
<1>5. ASSUME UNCHANGED transVars PROVE TransTypes'
  BY <1>2, <1>5 DEF TransTypes, transVars
<1>6. ASSUME NEW c \in Clients, Connect(c) \/ Disconnect(c) PROVE TransTypes'
  BY <1>5, <1>6 DEF Connect, Disconnect
<1>7. ASSUME NEW m \in Messages, Receive(m) \/ TurnStep(m) PROVE TransTypes'
  BY <1>5, <1>7 DEF Receive, TurnStep, WaitOver, Titled, StartOver, SendTurn
<1>8. ASSUME NEW p \in Procs, ChildStep(p) \/ Crash(p) PROVE TransTypes'
  BY <1>5, <1>8 DEF ChildStep, Crash, ReplyTurn, ExitTold, Dies, ExitSeen, SdkOpens, SdkCloses
<1>9. ASSUME NEW s \in Starts, StartMoves(s) PROVE TransTypes'
  BY <1>5, <1>9 DEF StartMoves
<1>10. ASSUME NEW t \in Transitions, NEW how \in {"done", "failed"}, Finish(t, how),
              override' = override
       PROVE  TransTypes'
  BY <1>2, <1>4, <1>10 DEF Finish, TransTypes
<1>11. ASSUME NEW t \in Transitions, SetRuntime(t) PROVE TransTypes'
  <2>1. override' = t /\ override' \in 0..MaxTransitions
    BY <1>3, <1>11 DEF SetRuntime
  <2>2. last' \in {last, t}
    BY <1>11 DEF SetRuntime, Enqueue
  <2>3. \/ \E s \in {0, startup} :
              trans' = [trans EXCEPT ![t] = [at |-> "queued", prev |-> last, awaits |-> s, on |-> 0]]
        \/ trans' = [trans EXCEPT ![t].at = "done"]
    BY <1>11 DEF SetRuntime, Enqueue
  <2>4. startup \in 0..asked'
    BY <1>1
  <2> QED
    BY <1>2, <1>3, <1>4, <2>1, <2>2, <2>3, <2>4 DEF TransTypes
<1>12. ASSUME NEW t \in Transitions, Transition(t) PROVE TransTypes'
  <2>1. CASE Finish(t, "done")
    BY <1>10, <1>12, <2>1 DEF Transition
  <2>2. CASE ~Finish(t, "done")
    <3>1. /\ trans' = [trans EXCEPT ![t].at = "restarting", ![t].on = asked + 1]
          /\ last' = last /\ override' = override /\ asked' = asked + 1
      BY <1>12, <2>2 DEF Transition
    <3>2. asked + 1 \in 0..asked'
      BY <1>1, <3>1
    <3> QED
      BY <1>2, <3>1, <3>2 DEF TransTypes
  <2> QED
    BY <2>1, <2>2
<1>13. ASSUME NEW t \in Transitions, TransitionFails(t) \/ Restarted(t) PROVE TransTypes'
  BY <1>10, <1>13 DEF TransitionFails, Restarted
<1>14. CASE \/ Prewarm \/ PrewarmRead \/ PrewarmOver \/ PrewarmIdle \/ Clear
            \/ StopGeneration \/ ForceKill \/ Delete \/ DeleteFails
  BY <1>5, <1>14 DEF Prewarm, PrewarmRead, PrewarmOver, PrewarmIdle, Clear, StopGeneration,
                     ForceKill, Delete, DeleteFails
<1>15. CASE CleanupFires \/ DeleteDone
  <2>1. CleanUp
    BY <1>15 DEF CleanupFires, DeleteDone
  <2> QED
    BY <1>2, <1>4, <2>1 DEF CleanUp, TransTypes
<1> QED
  BY <1>6, <1>7, <1>8, <1>9, <1>11, <1>12, <1>13, <1>14, <1>15 DEF Next

LEMMA TurnTypesKept ==
    ASSUME ServerTypes, ProcTypeOK, Next
    PROVE  TurnTypes'
<1> DEFINE Ats == {"new", "wait", "title", "start", "settle", "send", "sent", "answered",
                   "unheard", "refused"}
           TurnOK == turn' \in [Messages -> [at : Ats, on : Nat]]
           OutOK == out' \in [Clients -> Messages \cup {NoCallback, Live}]
<1>1. TurnTypes /\ registered \in Nat /\ last \in Nat
  BY RegisteredNat, DesktopBounds DEF ServerTypes, TransTypes
<1>2. ASSUME UNCHANGED <<turnVars, out>> PROVE TurnTypes'
  BY <1>1, <1>2 DEF TurnTypes, turnVars
<1>3. ASSUME UNCHANGED turnVars, OutOK PROVE TurnTypes'
  BY <1>1, <1>3 DEF TurnTypes, turnVars
<1>4. out' = out => OutOK
  BY <1>1 DEF TurnTypes
<1>5. ASSUME NEW c \in Clients, Connect(c) \/ Disconnect(c) PROVE TurnTypes'
  <2>1. UNCHANGED turnVars
    BY <1>5 DEF Connect, Disconnect
  <2>2. out' = Unbound \/ Bind({c}, Live) \/ Bind({c}, NoCallback)
    BY <1>5 DEF Connect, Disconnect
  <2>3. OutOK
    BY <1>1, <2>2, BindTypes DEF Unbound
  <2> QED
    BY <1>3, <2>1, <2>3
<1>6. ASSUME NEW m \in Messages, Settle(m) PROVE TurnOK /\ OutOK
  BY <1>1, <1>4, <1>6, MovesTypes, BindTypes DEF Settle
<1>7. ASSUME NEW m \in Messages, Start(m) PROVE TurnOK /\ OutOK
  <2>1. Ensured \in Nat
    BY <1>7, EnsureTypes DEF Start, ServerTypes
  <2> QED
    BY <1>1, <1>4, <1>6, <1>7, <2>1, MovesTypes DEF Start
<1>8. ASSUME NEW m \in Messages, Proceed(m) PROVE TurnOK /\ OutOK
  BY <1>1, <1>4, <1>7, <1>8, MovesTypes DEF Proceed
<1>9. ASSUME NEW m \in Messages, Receive(m) PROVE TurnTypes'
  <2>1. TurnOK /\ OutOK
    BY <1>1, <1>4, <1>8, <1>9, MovesTypes DEF Receive
  <2>2. titled' = titled /\ before' \in [Messages -> SUBSET Transitions]
    BY <1>1, <1>9 DEF Receive, TurnTypes
  <2> QED
    BY <1>1, <2>1, <2>2 DEF TurnTypes
<1>10. ASSUME NEW m \in Messages, TurnStep(m) PROVE TurnTypes'
  <2>1. CASE WaitOver(m)
    <3>1. turn[m].at \in Ats
      BY <1>1 DEF TurnTypes
    <3>2. \/ Moves(m, "refused", 0) /\ out' = out
          \/ Moves(m, turn[m].at, last) /\ out' = out
          \/ Proceed(m) \/ Settle(m)
      BY <2>1 DEF WaitOver
    <3>3. TurnOK /\ OutOK
      BY <1>1, <1>4, <1>6, <1>8, <3>1, <3>2, MovesTypes
    <3> QED
      BY <1>1, <2>1, <3>3 DEF WaitOver, TurnTypes
  <2>2. CASE Titled(m)
    BY <1>1, <1>7, <2>2 DEF Titled, TurnTypes
  <2>3. CASE StartOver(m)
    <3>1. TurnOK /\ OutOK
      BY <1>1, <1>4, <1>6, <2>3, MovesTypes DEF StartOver
    <3> QED
      BY <1>1, <2>3, <3>1 DEF StartOver, TurnTypes
  <2>4. CASE SendTurn(m)
    <3>1. TurnOK
      BY <1>1, <2>4, MovesTypes DEF SendTurn
    <3>2. OutOK
      BY <1>1, <1>4, <2>4 DEF SendTurn, TurnTypes
    <3> QED
      BY <1>1, <2>4, <3>1, <3>2 DEF SendTurn, TurnTypes
  <2> QED
    BY <1>10, <2>1, <2>2, <2>3, <2>4 DEF TurnStep
<1>11. ASSUME NEW p \in Procs, ChildStep(p) \/ Crash(p) PROVE TurnTypes'
  <2>1. CASE ReplyTurn(p)
    <3>1. Head(got[p]) \in Messages
      BY <2>1 DEF ReplyTurn, Reply, ProcTypeOK
    <3>2. TurnOK
      BY <1>1, <2>1, <3>1, MovesTypes DEF ReplyTurn
    <3> QED
      BY <1>1, <2>1, <3>2 DEF ReplyTurn, TurnTypes
  <2>2. CASE ExitTold(p)
    <3>1. OutOK
      BY <1>1, <2>2, ReboundTypes DEF ExitTold
    <3>2. TurnOK
      BY <1>1, <2>2 DEF ExitTold, TurnTypes
    <3> QED
      BY <1>1, <2>2, <3>1, <3>2 DEF ExitTold, TurnTypes
  <2>3. CASE Dies(p) \/ ExitSeen(p) \/ SdkOpens(p) \/ SdkCloses(p) \/ Crash(p)
    BY <1>2, <2>3 DEF Crash, Dies, ExitSeen, SdkOpens, SdkCloses
  <2> QED
    BY <1>11, <2>1, <2>2, <2>3 DEF ChildStep
<1>12. ASSUME NEW s \in Starts, StartMoves(s) PROVE TurnTypes'
  BY <1>1, <1>3, <1>12, ReboundTypes DEF StartMoves
<1>13. ASSUME NEW t \in Transitions,
              SetRuntime(t) \/ Transition(t) \/ TransitionFails(t) \/ Restarted(t)
       PROVE  TurnTypes'
  BY <1>1, <1>3, <1>4, <1>13, ReboundTypes DEF SetRuntime, Transition, TransitionFails, Restarted
<1>14. CASE Prewarm \/ PrewarmRead \/ StopGeneration \/ DeleteFails
  BY <1>2, <1>14 DEF Prewarm, PrewarmRead, StopGeneration, DeleteFails
<1>15. CASE PrewarmOver
  <2>1. OutOK
    BY <1>1, <1>4, <1>15 DEF PrewarmOver, Unbound
  <2> QED
    BY <1>3, <1>15, <2>1 DEF PrewarmOver
<1>16. CASE PrewarmIdle \/ ForceKill \/ Delete
  BY <1>1, <1>3, <1>16, ReboundTypes DEF PrewarmIdle, ForceKill, Delete
<1>17. CASE Clear
  <2>1. OutOK
    BY <1>1, <1>17, ReboundTypes DEF Clear
  <2>2. titled' = FALSE /\ turn' = turn /\ before' = before
    BY <1>17 DEF Clear
  <2> QED
    BY <1>1, <2>1, <2>2 DEF TurnTypes
<1>18. CASE CleanupFires \/ DeleteDone
  <2>1. OutOK
    BY <1>1, <1>18, ReboundTypes DEF CleanupFires, DeleteDone, Unbound
  <2>2. titled' = FALSE /\ turn' = turn /\ before' = before
    BY <1>18 DEF CleanupFires, DeleteDone, CleanUp
  <2> QED
    BY <1>1, <2>1, <2>2 DEF TurnTypes
<1> QED
  BY <1>5, <1>9, <1>10, <1>11, <1>12, <1>13, <1>14, <1>15, <1>16, <1>17, <1>18 DEF Next

LEMMA ServerTypesStep == ServerTypes /\ ProcTypeOK /\ [Next]_vars => ServerTypes'
<1> SUFFICES ASSUME ServerTypes, ProcTypeOK, [Next]_vars PROVE ServerTypes'
  OBVIOUS
<1>1. CASE Next
  BY <1>1, ClientTypesKept, StartTypesKept, TransTypesKept, TurnTypesKept DEF ServerTypes
<1>2. CASE UNCHANGED vars
  BY <1>2 DEF vars, clientVars, warmVars, transVars, startupVars, turnVars, ServerTypes,
              ClientTypes, StartTypes, TransTypes, TurnTypes
<1> QED
  BY <1>1, <1>2

\* Every variable of the server keeps its type: nobody waits for a start that
\* was not asked for, and the cleanup timer runs only while no client is
\* connected (handler.ts).
THEOREM TypeCorrect == Spec => []TypeOK
<1>1. Spec => []ProcTypeOK
  BY ServerUsesProcesses, ProcTypeCorrect, PTL
<1>2. ServerTypes /\ ProcTypeOK => TypeOK
  BY DEF ServerTypes, TypeOK
<1> QED
  BY <1>1, <1>2, ServerTypesInit, ServerTypesStep, PTL DEF Spec

-----------------------------------------------------------------------------
(* Starts are shared                                                       *)

Base == ServerTypes /\ TypeInv /\ Alone

\* What the invariants below rest on: the types, and what the processes promise.
LEMMA BaseAlways == Spec => []Base
<1>1. ServerTypes /\ TypeInv /\ Alone => Base
  BY DEF Base
<1>2. TypeInv => ProcTypeOK
  BY DEF TypeInv
<1> QED
  BY <1>1, <1>2, ServerUsesProcesses, ProcFacts, ServerTypesInit, ServerTypesStep, PTL DEF Spec

LEMMA BaseFacts ==
    ASSUME Base
    PROVE  /\ asked \in Nat /\ startup \in 0..asked /\ registered \in Nat
           /\ life \in [Procs -> Lives] /\ phase \in [Starts -> Phases]
           /\ \A s \in Starts : s \in Nat /\ s # 0
           /\ \A p \in Procs : p \in Nat /\ p # None
BY RegisteredNat, ProcsNat, ProcessBounds DEF Base, ServerTypes, StartTypes, TypeInv, ProcTypeOK, Starts

\* As long as starts cannot come to overlap, one start at most is under way, the
\* promise of which is kept, and the exit that drains is that of the entry
Calm == harm \cap {"restart", "dropped", "drain"} = {}
Unasked == \A s \in Starts : s > asked => phase[s] = "unused"
OneStart == \A s \in Starts : s <= asked => s = startup \/ Over(s)
OneExit == \A p \in Procs : life[p] = "draining" => registered = p /\ ~Starting(p)
SharedInv == Unasked /\ (Calm => ~overlapped /\ OneStart /\ OneExit)

\* A step that at most asks for a start
Asks ==
    /\ UNCHANGED <<registered, life, phase, child, overlapped>> /\ harm \subseteq harm'
    /\ Ensure \/ UNCHANGED startupVars

LEMMA AskSteps ==
    ASSUME \/ \E c \in Clients : Connect(c) \/ Disconnect(c)
           \/ \E m \in Messages : Receive(m) \/ TurnStep(m)
           \/ \E p \in Procs : ReplyTurn(p) \/ SdkOpens(p) \/ SdkCloses(p)
           \/ \E t \in Transitions : SetRuntime(t) \/ TransitionFails(t) \/ Restarted(t)
           \/ Prewarm \/ PrewarmRead \/ PrewarmOver \/ StopGeneration \/ DeleteFails
    PROVE  Asks
<1>1. ASSUME NEW c \in Clients, Connect(c) \/ Disconnect(c) PROVE Asks
  BY <1>1 DEF Connect, Disconnect, Asks, procVars, entryVars, childVars, startVars
<1>2. ASSUME NEW m \in Messages, Receive(m) \/ WaitOver(m) \/ Titled(m) \/ StartOver(m) PROVE Asks
  <2>1. UNCHANGED procVars /\ harm' = harm
    BY <1>2 DEF Receive, WaitOver, Titled, StartOver
  <2>2. Ensure \/ UNCHANGED startupVars
    BY <1>2 DEF Receive, WaitOver, Titled, StartOver, Proceed, Start
  <2> QED
    BY <2>1, <2>2 DEF Asks, procVars, entryVars, childVars, startVars
<1>3. ASSUME NEW m \in Messages, SendTurn(m) PROVE Asks
  BY <1>3 DEF SendTurn, Send, Hurt, Asks, procVars, entryVars, childVars, startVars
<1>4. ASSUME NEW p \in Procs, ReplyTurn(p) \/ SdkOpens(p) \/ SdkCloses(p) PROVE Asks
  BY <1>4 DEF ReplyTurn, Reply, SdkOpens, Connects, SdkCloses, Closed, Hurt, Asks, entryVars, startVars
<1>5. ASSUME NEW t \in Transitions, SetRuntime(t) \/ TransitionFails(t) \/ Restarted(t) PROVE Asks
  BY <1>5 DEF SetRuntime, TransitionFails, Restarted, Asks, procVars, entryVars, childVars, startVars
<1>6. CASE Prewarm \/ PrewarmRead \/ PrewarmOver \/ StopGeneration
  BY <1>6 DEF Prewarm, PrewarmRead, PrewarmOver, StopGeneration, Hurt, Asks, procVars, entryVars,
              childVars, startVars
<1>7. CASE DeleteFails
  BY <1>7 DEF DeleteFails, Unmark, Asks, entryVars, childVars, startVars
<1> QED
  BY <1>1, <1>2, <1>3, <1>4, <1>5, <1>6, <1>7 DEF TurnStep

LEMMA SharedAsks ==
    ASSUME Base, SharedInv, Asks
    PROVE  SharedInv'
<1>1. asked \in Nat /\ startup \in 0..asked /\ \A s \in Starts : s \in Nat /\ s # 0
  BY BaseFacts
<1>2. \/ asked' = asked /\ startup' = startup
      \/ startup = 0 /\ asked' = asked + 1 /\ startup' = asked + 1
  BY <1>1 DEF Asks, Ensure, Ensured, startupVars
<1>3. UNCHANGED <<registered, life, phase, child, overlapped>> /\ (Calm' => Calm)
  BY DEF Asks, Calm
<1>4. Unasked'
  BY <1>1, <1>2, <1>3 DEF SharedInv, Unasked
<1>5. ASSUME Calm, OneStart PROVE OneStart'
  BY <1>1, <1>2, <1>3, <1>5 DEF OneStart, Over
<1>6. OneExit => OneExit'
  BY <1>3 DEF OneExit, Starting
<1> QED
  BY <1>3, <1>4, <1>5, <1>6 DEF SharedInv

\* A step that stops the process or forgets a start, and says so
LEMMA SharedStops ==
    ASSUME Base, SharedInv, UNCHANGED <<phase, child, overlapped, asked>>,
           Hurt(Drains) \/ (CleanUp /\ harm \cup Drains \subseteq harm') \/ Hurt({"restart"}),
           startup' = startup \/ CleanUp,
           registered' \in {registered, None},
           \A p \in Procs : life'[p] = life[p] \/ life'[p] = "dying"
    PROVE  SharedInv'
<1>1. Unasked'
  BY DEF SharedInv, Unasked
<1> SUFFICES ASSUME Calm' PROVE ~overlapped' /\ OneStart' /\ OneExit'
  BY <1>1 DEF SharedInv
<1>2. harm \subseteq harm' /\ Calm /\ harm \cup Drains \subseteq harm'
  BY DEF Hurt, CleanUp, Calm
<1>3. startup' = startup
  BY DEF CleanUp, Hurt, Calm
<1>4. OneStart'
  BY <1>2, <1>3 DEF SharedInv, OneStart, Over
<1>5. \A p \in Procs : life[p] # "draining"
  <2> SUFFICES ASSUME NEW p \in Procs, life[p] = "draining" PROVE FALSE
    OBVIOUS
  <2>1. registered = p /\ registered # None
    BY <1>2, BaseFacts DEF SharedInv, OneExit
  <2>2. "drain" \in Drains
    BY <2>1 DEF Drains
  <2> QED
    BY <1>2, <2>2 DEF Calm
<1>6. OneExit'
  BY <1>5 DEF OneExit
<1> QED
  BY <1>2, <1>4, <1>6 DEF SharedInv

LEMMA StopSteps ==
    ASSUME Base, SharedInv, PrewarmIdle \/ ForceKill \/ Clear \/ Delete \/ CleanupFires \/ DeleteDone
    PROVE  SharedInv'
<1>1. ASSUME life' = [p \in Procs |-> IF p = registered /\ life[p] = "up" THEN "dying" ELSE life[p]]
      PROVE  \A p \in Procs : life'[p] = life[p] \/ life'[p] = "dying"
  BY <1>1
<1>2. CASE PrewarmIdle \/ ForceKill \/ Clear \/ Delete
  <2>1. /\ Hurt(Drains) /\ registered' = None /\ UNCHANGED <<phase, child, overlapped, asked, startup>>
        /\ \A p \in Procs : life'[p] = life[p] \/ life'[p] = "dying"
    BY <1>1, <1>2 DEF PrewarmIdle, ForceKill, Clear, Delete, Stop, MarkDeleted, Forget, startVars, startupVars
  <2> QED
    BY <2>1, SharedStops
<1>3. CASE CleanupFires \/ DeleteDone
  <2>1. /\ CleanUp /\ registered' \in {registered, None} /\ UNCHANGED <<phase, child, overlapped, asked>>
        /\ \A p \in Procs : life'[p] = life[p] \/ life'[p] = "dying"
    BY <1>1, <1>3 DEF CleanupFires, DeleteDone, CleanUp, Stop, Forget, procVars, entryVars, childVars, startVars
  <2>2. harm \cup Drains \subseteq harm'
    BY <2>1 DEF CleanUp, Hurt
  <2> QED
    BY <2>1, <2>2, SharedStops
<1> QED
  BY <1>2, <1>3

LEMMA TransitionShared ==
    ASSUME Base, SharedInv, NEW t \in Transitions, Transition(t)
    PROVE  SharedInv'
<1>1. CASE Finish(t, "done") /\ UNCHANGED <<procVars, asked, out, harm>>
  <2>1. Asks
    BY <1>1 DEF Transition, Asks, procVars, entryVars, childVars, startVars, startupVars
  <2> QED
    BY <2>1, SharedAsks
<1>2. CASE Stop /\ asked' = asked + 1 /\ Hurt({"restart"})
  <2>1. phase' = phase /\ "restart" \in harm'
    BY <1>2 DEF Stop, Hurt, startVars
  <2>2. Unasked'
    BY <1>2, <2>1, BaseFacts DEF SharedInv, Unasked
  <2> QED
    BY <2>1, <2>2 DEF SharedInv, Calm
<1> QED
  BY <1>1, <1>2 DEF Transition

\* The exits of processes: only that of the entry drains, and no start is under
\* way then that waits for the process
LEMMA ChildShared ==
    ASSUME Base, SharedInv, NEW p \in Procs, Dies(p) \/ Crash(p) \/ ExitSeen(p) \/ ExitTold(p)
    PROVE  SharedInv'
<1>1. UNCHANGED <<phase, child, overlapped, asked, startup, harm>>
  BY DEF Dies, Crash, ExitSeen, ExitTold, Exit, HandleExit, ExitDrained, startVars, startupVars
<1>2. \A q \in Procs : q # p => life'[q] = life[q]
  BY BaseFacts DEF Dies, Crash, ExitSeen, ExitTold, Exit, HandleExit, ExitDrained
<1>3. Unasked' /\ (Calm' => Calm) /\ (OneStart => OneStart')
  BY <1>1 DEF SharedInv, Unasked, Calm, OneStart, Over
<1>4. ASSUME OneExit PROVE OneExit'
  <2>1. CASE Dies(p) \/ Crash(p)
    <3>1. life'[p] \in {"exited", "gone"} /\ registered' = registered
      BY <2>1, BaseFacts DEF Dies, Crash, Exit, entryVars
    <3> QED
      BY <1>1, <1>2, <1>4, <3>1 DEF OneExit, Starting
  <2>2. CASE ExitSeen(p)
    <3>1. registered' = registered /\ (life'[p] = "draining" => registered = p /\ ~Starting(p))
      BY <2>2, BaseFacts DEF ExitSeen, HandleExit, entryVars
    <3> QED
      BY <1>1, <1>2, <1>4, <3>1 DEF OneExit, Starting
  <2>3. CASE ExitTold(p)
    <3>1. life[p] = "draining" /\ life'[p] = "gone"
      BY <2>3, BaseFacts DEF ExitTold, ExitDrained
    <3>2. \A q \in Procs : q # p => life[q] # "draining"
      BY <1>4, <3>1 DEF OneExit
    <3> QED
      BY <1>2, <3>1, <3>2 DEF OneExit
  <2> QED
    BY <2>1, <2>2, <2>3
<1> QED
  BY <1>1, <1>3, <1>4 DEF SharedInv

\* A start that goes on is the one whose promise is kept: it finds no exit that
\* drains and no other start
LEMMA StartShared ==
    ASSUME Base, SharedInv, NEW s \in Starts, StartMoves(s)
    PROVE  SharedInv'
<1>1. /\ s <= asked /\ asked' = asked /\ harm' = harm /\ StartStep(s)
      /\ startup' = IF startup = s /\ Over(s)' THEN 0 ELSE startup
  BY StartSteps DEF StartMoves
<1>2. /\ phase[s] \in {"unused", "launch", "prepare", "grace", "drain"}
      /\ \A t \in Starts : t # s => phase'[t] = phase[t]
  BY <1>1, BaseFacts DEF StartStep, StartSession, Launched, StartFails, Spawn, GraceOver, SaveFails, GraceExit,
     DrainEnds, Retry, Goes
<1>3. Unasked'
  BY <1>1, <1>2, BaseFacts DEF SharedInv, Unasked
<1> SUFFICES ASSUME Calm PROVE ~overlapped' /\ OneStart' /\ OneExit'
  BY <1>1, <1>3 DEF SharedInv, Calm
<1>4. ~overlapped /\ OneStart /\ OneExit
  BY DEF SharedInv
<1>5. startup = s
  BY <1>1, <1>2, <1>4 DEF OneStart, Over
<1>6. OneStart'
  BY <1>1, <1>2, <1>4, <1>5, BaseFacts DEF OneStart, Over
<1>7. CASE ~Spawn(s)
  <2>1. overlapped' = overlapped /\ life' = life /\ child' = child
    BY <1>1, <1>7 DEF StartStep, StartSession, Launched, StartFails, GraceOver, SaveFails, GraceExit,
       DrainEnds, Retry, childVars
  <2>2. \A p \in Procs : Starting(p)' => Starting(p)
    <3>1. phase'[s] \in {"grace", "drain"} => phase[s] \in {"grace", "drain"}
      BY <1>1, <1>7, BaseFacts DEF StartStep, StartSession, Launched, StartFails, GraceOver, SaveFails,
         GraceExit, DrainEnds, Retry, Goes
    <3> QED
      BY <1>2, <2>1, <3>1 DEF Starting
  <2>3. ASSUME NEW p \in Procs, life[p] = "draining" PROVE registered' = p
    <3>1. registered = p /\ ~Starting(p) /\ p # None
      BY <1>4, <2>3, BaseFacts DEF OneExit
    <3>2. phase[s] # "drain"
      BY <1>4, <3>1 DEF Base, Alone, Starting
    <3>3. registered' = registered
      BY <1>1, <1>7, <3>2 DEF StartStep, StartSession, Launched, StartFails, GraceOver, SaveFails,
         GraceExit, DrainEnds, Retry, entryVars
    <3> QED
      BY <3>1, <3>3
  <2>4. OneExit'
    BY <1>4, <2>1, <2>2, <2>3 DEF OneExit
  <2> QED
    BY <1>4, <1>6, <2>1, <2>4
<1>8. CASE Spawn(s)
  <2>1. registered = None
    BY <1>4, <1>8 DEF Spawn, Base, Alone
  <2>2. \A p \in Procs : life[p] # "draining"
    BY <1>4, <2>1, BaseFacts DEF OneExit
  <2>3. \A t \in Starts \ {s} : ~InFlight(t)
    BY <1>4, <1>5, BaseFacts DEF SharedInv, Unasked, OneStart, Over, InFlight
  <2>4. ~overlapped'
    BY <1>4, <1>8, <2>2, <2>3 DEF Spawn
  <2>5. OneExit'
    BY <1>8, <2>2, BaseFacts DEF OneExit, Spawn
  <2> QED
    BY <1>6, <2>4, <2>5
<1> QED
  BY <1>7, <1>8

LEMMA SharedNext == Base /\ SharedInv /\ [Next]_vars => SharedInv'
<1> SUFFICES ASSUME Base, SharedInv, [Next]_vars PROVE SharedInv'
  OBVIOUS
<1>1. CASE UNCHANGED vars
  <2>1. Asks
    BY <1>1 DEF Asks, vars, procVars, entryVars, childVars, startVars
  <2> QED
    BY <2>1, SharedAsks
<1>2. CASE Next
  BY <1>2, AskSteps, SharedAsks, StopSteps, TransitionShared, ChildShared, StartShared DEF Next, ChildStep
<1> QED
  BY <1>1, <1>2

\* The messages and prewarms of a session share the start of its process
\* (ensureCliSessionStarted): two starts, or a start and an exit, overlap only
\* after a restart, a forgotten promise or a stop amid an exit.
THEOREM StartsAreSharedCorrect == Spec => []StartsAreShared
<1>1. Init => SharedInv
  <2> SUFFICES ASSUME Init PROVE SharedInv
    OBVIOUS
  <2>1. \A s \in Starts : phase[s] = "unused" /\ s \in Nat /\ s # 0
    BY ProcessBounds DEF Init, ProcInit, Starts
  <2>2. ~overlapped /\ asked = 0 /\ \A p \in Procs : life[p] # "draining"
    BY DEF Init, ProcInit
  <2> QED
    BY <2>1, <2>2 DEF SharedInv, Unasked, OneStart, OneExit
<1>2. SharedInv => StartsAreShared
  BY DEF SharedInv, Calm, StartsAreShared
<1> QED
  BY <1>1, <1>2, SharedNext, BaseAlways, PTL DEF Spec

-----------------------------------------------------------------------------
(* Messages on their way                                                   *)

\* What a process has received or is going to receive was sent to it, once, and
\* not answered; a process that has ended has nothing left
Holding == \A p \in Procs : conn[p] = "open" \/ got[p] # <<>> => life[p] \in {"up", "dying"}
SentTo(r, p) == r.at = "sent" /\ r.on = p
Received ==
    \A p \in Procs :
        /\ \A k \in DOMAIN got[p] : SentTo(turn[got[p][k]], p)
        /\ \A j, k \in DOMAIN got[p] : got[p][j] = got[p][k] => j = k
Queued ==
    /\ \A k \in DOMAIN queue : SentTo(turn[queue[k]], registered)
    /\ \A j, k \in DOMAIN queue : queue[j] = queue[k] => j = k
    /\ \A p \in Procs : \A j \in DOMAIN got[p], k \in DOMAIN queue : got[p][j] # queue[k]
HandedInv == Holding /\ Received /\ Queued

LEMMA MessageFacts ==
    ASSUME Base
    PROVE  /\ queue \in Seq(Messages) /\ got \in [Procs -> Seq(Messages)]
           /\ \A p \in Procs : got[p] \in Seq(Messages)
           /\ conn \in [Procs -> {"none", "open", "lost", "closed"}]
           /\ \A k \in DOMAIN queue : queue[k] \in Messages
           /\ \A p \in Procs : \A k \in DOMAIN got[p] : got[p][k] \in Messages
           /\ turn \in [Messages -> [at : {"new", "wait", "title", "start", "settle", "send", "sent",
                                           "answered", "unheard", "refused"}, on : Nat]]
           /\ out \in [Clients -> Messages \cup {NoCallback, Live}]
<1>1. queue \in Seq(Messages) /\ got \in [Procs -> Seq(Messages)]
  BY DEF Base, TypeInv, ProcTypeOK
<1>2. \A k \in DOMAIN queue : queue[k] \in Messages
  BY <1>1
<1>3. ASSUME NEW p \in Procs PROVE got[p] \in Seq(Messages) /\ \A k \in DOMAIN got[p] : got[p][k] \in Messages
  <2>1. got[p] \in Seq(Messages)
    BY <1>1
  <2> QED
    BY <2>1
<1> QED
  BY <1>1, <1>2, <1>3 DEF Base, TypeInv, ProcTypeOK, ServerTypes, TurnTypes

\* A step that hands out no message keeps what was handed out
LEMMA HandedKeeps ==
    ASSUME Base, HandedInv, got' = got,
           queue' = <<>> \/ (queue' = queue /\ registered' = registered),
           \A m \in Messages : turn[m].at = "sent" => turn'[m] = turn[m],
           \A p \in Procs : conn'[p] = "open" => conn[p] = "open",
           \A p \in Procs : life[p] \in {"up", "dying"} => life'[p] \in {"up", "dying"}
    PROVE  HandedInv'
<1>1. Holding'
  BY DEF HandedInv, Holding
<1>2. Received'
  BY MessageFacts DEF HandedInv, Received, SentTo
<1>3. Queued'
  <2>1. CASE queue' = <<>>
    BY <2>1 DEF Queued
  <2>2. CASE queue' = queue /\ registered' = registered
    BY <2>2, MessageFacts DEF HandedInv, Queued, SentTo
  <2> QED
    BY <2>1, <2>2
<1> QED
  BY <1>1, <1>2, <1>3 DEF HandedInv

LEMMA HandedSend ==
    ASSUME Base, HandedInv, NEW m \in Messages, SendTurn(m), registered # None
    PROVE  HandedInv'
<1>1. /\ turn[m].at = "send" /\ Send(m)
      /\ turn' = [turn EXCEPT ![m] = [at |-> "sent", on |-> registered]]
      /\ registered' = registered /\ life' = life /\ conn' = conn
  BY DEF SendTurn, Moves, Send
<1>2. /\ SentTo(turn'[m], registered) /\ ~(\E p : SentTo(turn[m], p))
      /\ \A n \in Messages : n # m => turn'[n] = turn[n]
  BY <1>1, MessageFacts DEF SentTo
<1>3. \A n \in Messages : turn[n].at = "sent" => n # m /\ turn'[n] = turn[n]
  BY <1>1, <1>2
<1>4. CASE attached
  <2>1. /\ queue' = queue
        /\ got' = [p \in Procs |-> IF p = registered /\ conn[p] = "open" THEN Append(got[p], m) ELSE got[p]]
    BY <1>1, <1>4 DEF Send
  <2>2. Holding'
    BY <1>1, <2>1 DEF HandedInv, Holding
  <2>3. ASSUME NEW p \in Procs
        PROVE  /\ \A k \in DOMAIN got'[p] : SentTo(turn'[got'[p][k]], p)
               /\ \A j, k \in DOMAIN got'[p] : got'[p][j] = got'[p][k] => j = k
               /\ \A j \in DOMAIN got'[p], k \in DOMAIN queue : got'[p][j] # queue[k]
    <3>1. /\ got[p] \in Seq(Messages) /\ \A k \in DOMAIN got[p] : got[p][k] \in Messages
          /\ \A k \in DOMAIN got[p] : SentTo(turn[got[p][k]], p)
          /\ \A j, k \in DOMAIN got[p] : got[p][j] = got[p][k] => j = k
          /\ \A j \in DOMAIN got[p], k \in DOMAIN queue : got[p][j] # queue[k]
          /\ \A k \in DOMAIN queue : SentTo(turn[queue[k]], registered)
      BY MessageFacts DEF HandedInv, Received, Queued
    <3>2. \A k \in DOMAIN got[p] : SentTo(turn'[got[p][k]], p) /\ got[p][k] # m
      BY <1>3, <3>1 DEF SentTo
    <3>3. \A k \in DOMAIN queue : queue[k] # m
      BY <1>2, <3>1
    <3>4. CASE got'[p] = got[p]
      BY <3>1, <3>2, <3>4
    <3>5. CASE got'[p] = Append(got[p], m) /\ p = registered
      <4> DEFINE g == got[p]
      <4>1. /\ DOMAIN Append(g, m) = 1..(Len(g) + 1) /\ Len(g) \in Nat /\ DOMAIN g = 1..Len(g)
            /\ Append(g, m)[Len(g) + 1] = m
            /\ \A k \in 1..Len(g) : Append(g, m)[k] = g[k]
        BY <3>1
      <4>2. \A k \in 1..(Len(g) + 1) : k \in 1..Len(g) \/ k = Len(g) + 1
        BY <4>1
      <4> QED
        BY <1>2, <3>1, <3>2, <3>3, <3>5, <4>1, <4>2
    <3> QED
      BY <2>1, <3>4, <3>5
  <2>4. \A k \in DOMAIN queue : SentTo(turn'[queue[k]], registered)
    BY <1>1, <1>3, MessageFacts DEF HandedInv, Queued, SentTo
  <2>5. Received'
    BY <2>3 DEF Received
  <2>6. Queued'
    BY <1>1, <2>1, <2>3, <2>4 DEF HandedInv, Queued, SentTo
  <2> QED
    BY <2>2, <2>5, <2>6 DEF HandedInv
<1>5. CASE ~attached
  <2>1. queue' = Append(queue, m) /\ got' = got
    BY <1>1, <1>5 DEF Send
  <2>2. Holding'
    BY <1>1, <2>1 DEF HandedInv, Holding
  <2>3. Received' /\ \A p \in Procs : \A k \in DOMAIN got[p] : got[p][k] # m
    BY <1>2, <1>3, <2>1, MessageFacts DEF HandedInv, Received, SentTo
  <2>4. \A k \in DOMAIN queue : SentTo(turn'[queue[k]], registered) /\ queue[k] # m
    BY <1>3, MessageFacts DEF HandedInv, Queued, SentTo
  <2>5. /\ DOMAIN queue' = 1..(Len(queue) + 1) /\ Len(queue) \in Nat /\ DOMAIN queue = 1..Len(queue)
        /\ queue'[Len(queue) + 1] = m
        /\ \A k \in 1..Len(queue) : queue'[k] = queue[k]
    BY <2>1, MessageFacts
  <2>6. \A k \in 1..(Len(queue) + 1) : k \in 1..Len(queue) \/ k = Len(queue) + 1
    BY <2>5
  <2>7. \A k \in DOMAIN queue' : SentTo(turn'[queue'[k]], registered)
    BY <1>2, <2>4, <2>5, <2>6
  <2>8. \A j, k \in DOMAIN queue' : queue'[j] = queue'[k] => j = k
    BY <2>4, <2>5, <2>6 DEF HandedInv, Queued
  <2>9. \A p \in Procs : \A j \in DOMAIN got[p], k \in DOMAIN queue' : got[p][j] # queue'[k]
    BY <2>3, <2>5, <2>6 DEF HandedInv, Queued
  <2>10. Queued'
    BY <1>1, <2>1, <2>7, <2>8, <2>9 DEF Queued, SentTo
  <2> QED
    BY <2>2, <2>3, <2>10 DEF HandedInv
<1> QED
  BY <1>4, <1>5

LEMMA TailFacts ==
    ASSUME NEW S, NEW g \in Seq(S), g # <<>>
    PROVE  /\ 1 \in DOMAIN g /\ Head(g) = g[1] /\ Head(g) \in S
           /\ \A k \in DOMAIN Tail(g) : k \in Nat /\ Tail(g)[k] = g[k + 1] /\ k + 1 \in DOMAIN g /\ k + 1 # 1
OBVIOUS

LEMMA HandedReply ==
    ASSUME Base, HandedInv, NEW p \in Procs, ReplyTurn(p)
    PROVE  HandedInv'
<1> DEFINE m == Head(got[p])
<1>1. /\ got[p] # <<>> /\ got[p] \in Seq(Messages) /\ life[p] \in {"up", "dying"}
      /\ got' = [got EXCEPT ![p] = Tail(@)]
      /\ UNCHANGED <<queue, registered, life, conn>>
      /\ \E at : turn' = [turn EXCEPT ![m] = [at |-> at, on |-> 0]]
  BY MessageFacts DEF ReplyTurn, Reply, Moves, entryVars
<1>2. /\ 1 \in DOMAIN got[p] /\ m = got[p][1] /\ m \in Messages
      /\ \A k \in DOMAIN Tail(got[p]) :
           k \in Nat /\ Tail(got[p])[k] = got[p][k + 1] /\ k + 1 \in DOMAIN got[p] /\ k + 1 # 1
  BY <1>1, TailFacts
<1>3. /\ \A q \in Procs : q # p => got'[q] = got[q]
      /\ got'[p] = Tail(got[p])
  BY <1>1, MessageFacts
<1> HIDE DEF m
<1>4. \A n \in Messages : n # m => turn'[n] = turn[n]
  BY <1>1, <1>2, MessageFacts
<1>5. Holding'
  BY <1>1, <1>3 DEF HandedInv, Holding
<1>6. SentTo(turn[m], p)
  BY <1>2 DEF HandedInv, Received
<1>7. ASSUME NEW q \in Procs
      PROVE  /\ \A k \in DOMAIN got'[q] : SentTo(turn'[got'[q][k]], q)
             /\ \A j, k \in DOMAIN got'[q] : got'[q][j] = got'[q][k] => j = k
             /\ \A j \in DOMAIN got'[q], k \in DOMAIN queue : got'[q][j] # queue[k]
  <2>1. CASE q = p
    <3> DEFINE r == Tail(got[p])
    <3>1. \A k \in DOMAIN r : /\ k + 1 \in DOMAIN got[p] /\ r[k] = got[p][k + 1] /\ k \in Nat
                              /\ got[p][k + 1] # m /\ got[p][k + 1] \in Messages
      BY <1>2, MessageFacts DEF HandedInv, Received
    <3> HIDE DEF r
    <3>2. \A k \in DOMAIN r : SentTo(turn'[r[k]], p)
      BY <1>4, <3>1 DEF HandedInv, Received
    <3>3. \A j, k \in DOMAIN r : r[j] = r[k] => j = k
      <4> SUFFICES ASSUME NEW j \in DOMAIN r, NEW k \in DOMAIN r, r[j] = r[k] PROVE j = k
        OBVIOUS
      <4>1. j + 1 = k + 1
        BY <3>1 DEF HandedInv, Received
      <4> QED
        BY <3>1, <4>1
    <3>4. \A j \in DOMAIN r, k \in DOMAIN queue : r[j] # queue[k]
      BY <3>1 DEF HandedInv, Queued
    <3> QED
      BY <1>3, <2>1, <3>2, <3>3, <3>4 DEF r
  <2>2. CASE q # p
    <3>1. got'[q] = got[q]
      BY <1>3, <2>2
    <3>2. \A k \in DOMAIN got[q] : got[q][k] # m /\ got[q][k] \in Messages
      BY <1>6, <2>2, MessageFacts DEF HandedInv, Received, SentTo
    <3> QED
      BY <1>4, <3>1, <3>2 DEF HandedInv, Received, Queued
  <2> QED
    BY <2>1, <2>2
<1>8. Received'
  BY <1>7 DEF Received
<1>9. \A k \in DOMAIN queue : queue[k] # m /\ queue[k] \in Messages
  BY <1>2, MessageFacts DEF HandedInv, Queued
<1>10. Queued'
  BY <1>1, <1>4, <1>7, <1>9 DEF HandedInv, Queued
<1> QED
  BY <1>5, <1>8, <1>10 DEF HandedInv

LEMMA JoinFacts ==
    ASSUME NEW S, NEW g \in Seq(S), NEW q \in Seq(S)
    PROVE  \A k \in DOMAIN (g \o q) :
             \/ k \in DOMAIN g /\ (g \o q)[k] = g[k]
             \/ /\ k \notin DOMAIN g /\ k - Len(g) \in DOMAIN q /\ (g \o q)[k] = q[k - Len(g)]
                /\ k \in Nat /\ Len(g) \in Nat
OBVIOUS

LEMMA HandedConnects ==
    ASSUME Base, HandedInv, NEW p \in Procs, SdkOpens(p)
    PROVE  HandedInv'
<1>1. life[p] = "up" /\ UNCHANGED <<registered, life, turn>>
  BY DEF SdkOpens, Connects, turnVars
<1>2. CASE registered # p
  <2>1. UNCHANGED <<got, queue>> /\ conn' = [conn EXCEPT ![p] = "closed"]
    BY <1>2 DEF SdkOpens, Connects
  <2>2. \A q \in Procs : conn'[q] = "open" => conn[q] = "open"
    BY <2>1, MessageFacts
  <2> QED
    BY <1>1, <2>1, <2>2, HandedKeeps
<1>3. CASE registered = p
  <2>1. /\ got' = [got EXCEPT ![p] = @ \o queue] /\ queue' = <<>>
        /\ conn' = [conn EXCEPT ![p] = "open"]
    BY <1>3 DEF SdkOpens, Connects
  <2>2. \A q \in Procs : q # p => got'[q] = got[q] /\ conn'[q] = conn[q]
    BY <2>1, MessageFacts
  <2>3. got'[p] = got[p] \o queue
    BY <2>1, MessageFacts
  <2>4. Holding'
    BY <1>1, <2>2 DEF HandedInv, Holding
  <2>5. \A k \in DOMAIN got'[p] :
             \/ k \in DOMAIN got[p] /\ got'[p][k] = got[p][k]
             \/ /\ k \notin DOMAIN got[p] /\ k - Len(got[p]) \in DOMAIN queue
                /\ got'[p][k] = queue[k - Len(got[p])] /\ k \in Nat /\ Len(got[p]) \in Nat
    BY <2>3, MessageFacts, JoinFacts
  <2>6. \A k \in DOMAIN got'[p] : SentTo(turn[got'[p][k]], p)
    BY <1>3, <2>5 DEF HandedInv, Received, Queued
  <2>7. \A j, k \in DOMAIN got'[p] : got'[p][j] = got'[p][k] => j = k
    <3> SUFFICES ASSUME NEW j \in DOMAIN got'[p], NEW k \in DOMAIN got'[p], got'[p][j] = got'[p][k]
                 PROVE  j = k
      OBVIOUS
    <3>1. CASE j \in DOMAIN got[p] /\ k \in DOMAIN got[p]
      BY <2>5, <3>1 DEF HandedInv, Received
    <3>2. CASE j \notin DOMAIN got[p] /\ k \notin DOMAIN got[p]
      <4>1. j - Len(got[p]) = k - Len(got[p])
        BY <2>5, <3>2 DEF HandedInv, Queued
      <4> QED
        BY <2>5, <3>2, <4>1
    <3>3. CASE (j \in DOMAIN got[p] /\ k \notin DOMAIN got[p]) \/ (k \in DOMAIN got[p] /\ j \notin DOMAIN got[p])
      BY <2>5, <3>3 DEF HandedInv, Queued
    <3> QED
      BY <3>1, <3>2, <3>3
  <2>8. Received'
    BY <1>1, <2>2, <2>6, <2>7 DEF HandedInv, Received
  <2>9. Queued'
    BY <2>1 DEF Queued
  <2> QED
    BY <2>4, <2>8, <2>9 DEF HandedInv
<1> QED
  BY <1>2, <1>3

LEMMA HandedExit ==
    ASSUME Base, HandedInv, NEW p \in Procs, Dies(p) \/ Crash(p)
    PROVE  HandedInv'
<1>1. /\ UNCHANGED <<registered, queue, turn>> /\ got' = [got EXCEPT ![p] = <<>>]
      /\ conn' = [conn EXCEPT ![p] = IF @ = "open" THEN "lost" ELSE "closed"]
      /\ \E l : life' = [life EXCEPT ![p] = l]
  BY DEF Dies, Crash, Exit, entryVars, turnVars
<1>2. /\ \A q \in Procs : q # p => got'[q] = got[q] /\ conn'[q] = conn[q] /\ life'[q] = life[q]
      /\ got'[p] = <<>> /\ conn'[p] # "open"
  BY <1>1, MessageFacts, BaseFacts
<1>3. Holding'
  BY <1>2 DEF HandedInv, Holding
<1>4. Received'
  BY <1>1, <1>2 DEF HandedInv, Received
<1>5. Queued'
  BY <1>1, <1>2 DEF HandedInv, Queued
<1> QED
  BY <1>3, <1>4, <1>5 DEF HandedInv

LEMMA HandedTold ==
    ASSUME Base, HandedInv, NEW p \in Procs, ExitTold(p)
    PROVE  HandedInv'
<1>1. /\ life[p] = "draining" /\ got' = got /\ conn' = conn /\ queue' = <<>>
      /\ life' = [life EXCEPT ![p] = "gone"]
      /\ \A m \in Messages : turn'[m] = turn[m] \/ turn[m].on = p
  BY DEF ExitTold, ExitDrained, Forget
<1>2. \A q \in Procs : q # p => life'[q] = life[q]
  BY <1>1, BaseFacts
<1>3. got[p] = <<>> /\ conn[p] # "open"
  BY <1>1 DEF HandedInv, Holding
<1>4. Holding'
  BY <1>1, <1>2, <1>3 DEF HandedInv, Holding
<1>5. Received'
  <2>1. \A q \in Procs : \A k \in DOMAIN got[q] : turn'[got[q][k]] = turn[got[q][k]]
    BY <1>1, <1>3, MessageFacts DEF HandedInv, Received, SentTo
  <2> QED
    BY <1>1, <2>1 DEF HandedInv, Received
<1>6. Queued'
  BY <1>1 DEF Queued
<1> QED
  BY <1>4, <1>5, <1>6 DEF HandedInv

\* What the steps of a message up to its sending do: they move that message
\* only, and whoever is ready to send has bound the callbacks of all clients
LEMMA TurnFacts ==
    ASSUME Base, NEW m \in Messages, Receive(m) \/ WaitOver(m) \/ Titled(m) \/ StartOver(m)
    PROVE  /\ \A n \in Messages : n # m => turn'[n] = turn[n]
           /\ turn[m].at \in {"new", "wait", "title", "start", "settle"}
           /\ turn'[m].at \in {"wait", "title", "start", "settle", "send", "refused"}
           /\ \/ out' = out /\ turn'[m].at # "send"
              \/ turn'[m].at = "send" /\ turn'[m].on = registered /\ Bind(clients, m)
<1> DEFINE Outcome ==
             /\ \A n \in Messages : n # m => turn'[n] = turn[n]
             /\ \/ turn'[m].at \in {"wait", "title", "start", "settle", "refused"} /\ out' = out
                \/ turn'[m].at = "send" /\ turn'[m].on = registered /\ Bind(clients, m)
<1>1. ASSUME NEW at \in {"wait", "title", "start", "settle", "refused"}, NEW on,
             Moves(m, at, on), out' = out
      PROVE  Outcome
  BY <1>1, MessageFacts DEF Moves
<1>2. ASSUME Settle(m) PROVE Outcome
  <2>1. CASE last # 0
    BY <1>1, <1>2, <2>1 DEF Settle
  <2>2. CASE last = 0
    BY <1>2, <2>2, MessageFacts DEF Settle, Moves
  <2> QED
    BY <2>1, <2>2
<1>3. ASSUME Start(m) PROVE Outcome
  BY <1>1, <1>2, <1>3 DEF Start
<1>4. ASSUME Proceed(m) PROVE Outcome
  BY <1>1, <1>3, <1>4 DEF Proceed
<1>5. Outcome
  <2>1. CASE Receive(m)
    BY <1>1, <1>4, <2>1 DEF Receive
  <2>2. CASE WaitOver(m)
    <3>1. turn[m].at \in {"wait", "settle"}
      BY <2>2 DEF WaitOver
    <3>2. \/ Moves(m, "refused", 0) /\ out' = out
          \/ Moves(m, turn[m].at, last) /\ out' = out
          \/ Proceed(m) \/ Settle(m)
      BY <2>2 DEF WaitOver
    <3> QED
      BY <1>1, <1>2, <1>4, <3>1, <3>2
  <2>3. CASE Titled(m)
    BY <1>3, <2>3 DEF Titled
  <2>4. CASE StartOver(m)
    BY <1>1, <1>2, <2>4 DEF StartOver
  <2> QED
    BY <2>1, <2>2, <2>3, <2>4
<1>6. turn[m].at \in {"new", "wait", "title", "start", "settle"}
  BY DEF Receive, WaitOver, Titled, StartOver
<1> QED
  BY <1>5, <1>6

LEMMA HandedStarts ==
    ASSUME Base, HandedInv, NEW s \in Starts, StartMoves(s)
    PROVE  HandedInv'
<1>1. StartStep(s) /\ turn' = turn
  BY StartSteps DEF StartMoves, turnVars
<1>2. CASE Spawn(s)
  <2>1. /\ queue' = <<>> /\ got' = got /\ conn' = conn
        /\ life' = [life EXCEPT ![spawned + 1] = "up"]
    BY <1>2 DEF Spawn
  <2>2. \A p \in Procs : life[p] \in {"up", "dying"} => life'[p] \in {"up", "dying"}
    BY <2>1, BaseFacts
  <2> QED
    BY <1>1, <2>1, <2>2, HandedKeeps
<1>3. CASE ~Spawn(s)
  <2>1. /\ queue' = <<>> \/ (queue' = queue /\ registered' = registered)
        /\ UNCHANGED <<got, conn, life>>
    BY <1>1, <1>3 DEF StartStep, StartSession, Launched, StartFails, GraceOver, SaveFails, GraceExit,
       DrainEnds, Retry, Forget, entryVars, childVars
  <2> QED
    BY <1>1, <2>1, HandedKeeps
<1> QED
  BY <1>2, <1>3

LEMMA HandedStops ==
    ASSUME Base, HandedInv, turn' = turn, Stop \/ MarkDeleted
    PROVE  HandedInv'
<1>1. /\ queue' = <<>> /\ UNCHANGED <<got, conn>>
      /\ life' = [p \in Procs |-> IF p = registered /\ life[p] = "up" THEN "dying" ELSE life[p]]
  BY DEF Stop, MarkDeleted, Forget
<1>2. \A p \in Procs : life[p] \in {"up", "dying"} => life'[p] \in {"up", "dying"}
  BY <1>1
<1> QED
  BY <1>1, <1>2, HandedKeeps

LEMMA HandedIdles ==
    ASSUME Base, HandedInv, UNCHANGED procVars \/ Unmark,
           \A m \in Messages : turn[m].at = "sent" => turn'[m] = turn[m]
    PROVE  HandedInv'
BY HandedKeeps DEF Unmark, procVars, entryVars, childVars

LEMMA HandedNext == Base /\ HandedInv /\ [Next]_vars => HandedInv'
<1> SUFFICES ASSUME Base, HandedInv, [Next]_vars PROVE HandedInv'
  OBVIOUS
<1>1. CASE UNCHANGED vars
  BY <1>1, HandedIdles DEF vars, turnVars
<1>2. ASSUME NEW c \in Clients, Connect(c) \/ Disconnect(c) PROVE HandedInv'
  BY <1>2, HandedIdles DEF Connect, Disconnect, turnVars
<1>3. ASSUME NEW m \in Messages, Receive(m) \/ WaitOver(m) \/ Titled(m) \/ StartOver(m) PROVE HandedInv'
  <2>1. UNCHANGED procVars
    BY <1>3 DEF Receive, WaitOver, Titled, StartOver
  <2>2. \A n \in Messages : turn[n].at = "sent" => turn'[n] = turn[n]
    BY <1>3, TurnFacts
  <2> QED
    BY <2>1, <2>2, HandedIdles
<1>4. ASSUME NEW m \in Messages, SendTurn(m), registered = None PROVE HandedInv'
  <2>1. UNCHANGED procVars /\ turn[m].at = "send" /\ turn' = [turn EXCEPT ![m] = [at |-> "refused", on |-> 0]]
    BY <1>4 DEF SendTurn, Moves
  <2>2. \A n \in Messages : turn[n].at = "sent" => turn'[n] = turn[n]
    BY <2>1, MessageFacts
  <2> QED
    BY <2>1, <2>2, HandedIdles
<1>5. ASSUME NEW p \in Procs, ExitSeen(p) PROVE HandedInv'
  <2>1. /\ UNCHANGED <<registered, queue, conn, got, turn>> /\ life[p] = "exited"
        /\ \E l : life' = [life EXCEPT ![p] = l]
    BY <1>5 DEF ExitSeen, HandleExit, entryVars, turnVars
  <2>2. \A q \in Procs : life[q] \in {"up", "dying"} => life'[q] \in {"up", "dying"}
    BY <2>1, BaseFacts
  <2> QED
    BY <2>1, <2>2, HandedKeeps
<1>6. ASSUME NEW p \in Procs, SdkCloses(p) PROVE HandedInv'
  <2>1. UNCHANGED <<registered, queue, life, got, turn>> /\ conn' = [conn EXCEPT ![p] = "closed"]
    BY <1>6 DEF SdkCloses, Closed, turnVars
  <2>2. \A q \in Procs : conn'[q] = "open" => conn[q] = "open"
    BY <2>1, MessageFacts
  <2> QED
    BY <2>1, <2>2, HandedKeeps
<1>7. ASSUME NEW t \in Transitions, SetRuntime(t) \/ Transition(t) \/ TransitionFails(t) \/ Restarted(t)
      PROVE  HandedInv'
  <2>1. turn' = turn /\ (Stop \/ UNCHANGED procVars)
    BY <1>7 DEF SetRuntime, Transition, TransitionFails, Restarted, turnVars
  <2> QED
    BY <2>1, HandedStops, HandedIdles
<1>8. CASE \/ Prewarm \/ PrewarmRead \/ PrewarmOver \/ PrewarmIdle \/ CleanupFires \/ StopGeneration
           \/ ForceKill \/ Clear \/ Delete \/ DeleteDone \/ DeleteFails
  <2>1. turn' = turn /\ (Stop \/ MarkDeleted \/ UNCHANGED procVars \/ Unmark)
    BY <1>8 DEF Prewarm, PrewarmRead, PrewarmOver, PrewarmIdle, CleanupFires, StopGeneration,
       ForceKill, Clear, Delete, DeleteDone, DeleteFails, CleanUp, turnVars
  <2> QED
    BY <2>1, HandedStops, HandedIdles
<1> QED
  BY <1>1, <1>2, <1>3, <1>4, <1>5, <1>6, <1>7, <1>8, HandedSend, HandedReply, HandedConnects, HandedExit,
     HandedTold, HandedStarts DEF Next, TurnStep, ChildStep

LEMMA HandedAlways == Spec => []HandedInv
<1>1. Init => HandedInv
  <2> SUFFICES ASSUME Init PROVE HandedInv
    OBVIOUS
  <2>1. /\ queue = <<>> /\ got = [p \in Procs |-> <<>>] /\ conn = [p \in Procs |-> "none"]
    BY DEF Init, ProcInit
  <2> QED
    BY <2>1 DEF HandedInv, Holding, Received, Queued
<1> QED
  BY <1>1, HandedNext, BaseAlways, PTL DEF Spec

-----------------------------------------------------------------------------
(* Changes of the model before messages                                    *)

Pending(t) == trans[t].at \in {"queued", "restarting"}
Used(t) == trans[t].at # "unused"
Through == {"title", "start", "settle", "send", "sent", "answered", "unheard"}

\* Transitions are used in the order of their numbers
InTurn ==
    /\ \A t, u \in Transitions : u < t /\ Used(t) => Used(u)
    /\ \A m \in Messages : \A t \in before[m] : Used(t)

\* The promise of the session is that of the last transition that is pending,
\* and each one waits for another until it is the first
Chain ==
    /\ last = 0 => \A t \in Transitions : ~Pending(t)
    /\ last # 0 => Pending(last) /\ \A u \in Transitions : Pending(u) => u <= last
    /\ \A t, u \in Transitions :
         Pending(t) /\ Pending(u) /\ u < t =>
           /\ trans[t].at = "queued" /\ trans[t].prev \in Transitions
           /\ Pending(trans[t].prev) /\ u <= trans[t].prev

Awaited == \A m \in Messages : turn[m].at \in Through => \A t \in before[m] : ~Pending(t)
TransInv == InTurn /\ ("cleaned" \notin harm => Chain /\ Awaited)

LEMMA TransFacts ==
    ASSUME Base
    PROVE  /\ \A t \in Transitions : t \in Nat /\ t # 0
           /\ last \in Nat /\ (last # 0 => last \in Transitions)
           /\ \A t \in Transitions : trans[t].at \in {"unused", "queued", "restarting", "done", "failed"}
           /\ trans \in [Transitions -> [at : {"unused", "queued", "restarting", "done", "failed"},
                                         prev : Nat, awaits : Nat, on : Nat]]
           /\ before \in [Messages -> SUBSET Transitions]
<1>1. /\ last \in 0..MaxTransitions /\ asked \in Nat
      /\ trans \in [Transitions -> [at : {"unused", "queued", "restarting", "done", "failed"},
                                    prev : 0..MaxTransitions, awaits : 0..asked, on : 0..asked]]
      /\ before \in [Messages -> SUBSET Transitions]
  BY DEF Base, ServerTypes, TransTypes, TurnTypes, StartTypes
<1> QED
  BY <1>1, DesktopBounds DEF Transitions

\* A step that leaves the transitions alone, and lets no message past them
LEMMA TransKept ==
    ASSUME Base, TransInv, trans' = trans, last' = last, before' = before, harm \subseteq harm',
           \A m \in Messages : turn'[m].at \in Through => turn[m].at \in Through
    PROVE  TransInv'
<1>1. InTurn'
  BY DEF TransInv, InTurn, Used
<1>2. Chain => Chain'
  BY DEF Chain, Pending
<1>3. Awaited => Awaited'
  BY DEF Awaited, Pending
<1> QED
  BY <1>1, <1>2, <1>3 DEF TransInv

\* A message passes when no transition is pending
LEMMA PassedTransitions ==
    ASSUME Base, TransInv, NEW m \in Messages, trans' = trans, last' = last, harm' = harm,
           before' \in [Messages -> SUBSET Transitions],
           \A n \in Messages : n # m => turn'[n] = turn[n] /\ before'[n] = before[n],
           \A t \in before'[m] : Used(t),
           turn'[m].at \in Through => "cleaned" \in harm \/ \A t \in Transitions : ~Pending(t)
    PROVE  TransInv'
<1>1. InTurn'
  BY TransFacts DEF TransInv, InTurn, Used
<1>2. Chain => Chain'
  BY DEF Chain, Pending
<1>3. "cleaned" \notin harm /\ Awaited => Awaited'
  BY TransFacts DEF Awaited, Pending
<1> QED
  BY <1>1, <1>2, <1>3 DEF TransInv

LEMMA TurnPasses ==
    ASSUME Base, TransInv, NEW m \in Messages, Receive(m) \/ WaitOver(m) \/ Titled(m) \/ StartOver(m)
    PROVE  TransInv'
<1>1. /\ trans' = trans /\ last' = last /\ harm' = harm
      /\ \A n \in Messages : n # m => turn'[n] = turn[n]
  BY TurnFacts DEF Receive, WaitOver, Titled, StartOver, transVars
<1>2. ASSUME last = 0, "cleaned" \notin harm PROVE \A t \in Transitions : ~Pending(t)
  BY <1>2 DEF TransInv, Chain
<1>3. CASE Receive(m)
  <2>1. /\ before' = [before EXCEPT ![m] = {t \in Transitions : trans[t].at # "unused" /\ ~Done(t)}]
        /\ last # 0 => turn' = [turn EXCEPT ![m] = [at |-> "wait", on |-> last]]
    BY <1>3 DEF Receive, Moves
  <2>2. /\ before' \in [Messages -> SUBSET Transitions] /\ \A t \in before'[m] : Used(t)
        /\ \A n \in Messages : n # m => before'[n] = before[n]
    BY <2>1, TransFacts DEF Used
  <2>3. last # 0 => turn'[m].at = "wait"
    BY <2>1, MessageFacts
  <2> QED
    BY <1>1, <1>2, <2>2, <2>3, PassedTransitions DEF Through
<1>4. CASE WaitOver(m)
  <2>1. before' = before /\ Done(turn[m].on) /\ turn[m].at \in {"wait", "settle"}
    BY <1>4 DEF WaitOver
  <2>2. CASE turn[m].at = "settle"
    <3>1. \A n \in Messages : turn'[n].at \in Through => turn[n].at \in Through
      BY <1>1, <2>2 DEF Through
    <3> QED
      BY <1>1, <2>1, <3>1, TransKept
  <2>3. CASE turn[m].at = "wait" /\ last \notin {0, turn[m].on}
    <3>1. \/ turn' = [turn EXCEPT ![m] = [at |-> "refused", on |-> 0]]
          \/ turn' = [turn EXCEPT ![m] = [at |-> "wait", on |-> last]]
      BY <1>4, <2>3 DEF WaitOver, Moves
    <3>2. turn'[m].at \notin Through
      BY <3>1, MessageFacts DEF Through
    <3> QED
      BY <1>1, <2>1, <3>2, TransFacts, PassedTransitions DEF TransInv, InTurn
  <2>4. CASE last \in {0, turn[m].on}
    <3>1. "cleaned" \in harm \/ last = 0
      BY <2>1, <2>4, TransFacts DEF TransInv, Chain, Done, Pending
    <3> QED
      BY <1>1, <1>2, <2>1, <3>1, TransFacts, PassedTransitions DEF TransInv, InTurn
  <2> QED
    BY <2>1, <2>2, <2>3, <2>4
<1>5. CASE Titled(m) \/ StartOver(m)
  <2>1. before' = before /\ turn[m].at \in Through
    BY <1>5 DEF Titled, StartOver, Through
  <2>2. \A n \in Messages : turn'[n].at \in Through => turn[n].at \in Through
    BY <1>1, <2>1
  <2> QED
    BY <1>1, <2>1, <2>2, TransKept
<1> QED
  BY <1>3, <1>4, <1>5

\* The first pending transition is through
LEMMA FinishKeeps ==
    ASSUME Base, TransInv, NEW t \in Transitions, NEW how \in {"done", "failed"}, Finish(t, how),
           Pending(t), UNCHANGED <<turn, before>>, harm \subseteq harm',
           "cleaned" \notin harm => \A u \in Transitions : Pending(u) => t <= u
    PROVE  TransInv'
<1>1. /\ \A u \in Transitions : u # t => trans'[u] = trans[u]
      /\ trans'[t].at = how /\ last' = IF last = t THEN 0 ELSE last
  BY TransFacts DEF Finish
<1>2. InTurn'
  BY <1>1, TransFacts DEF TransInv, InTurn, Used, Pending
<1>3. \A u \in Transitions : Pending(u)' <=> Pending(u) /\ u # t
  BY <1>1 DEF Pending
<1> SUFFICES ASSUME "cleaned" \notin harm PROVE Chain' /\ Awaited'
  BY <1>2 DEF TransInv
<1>4. Chain /\ Awaited /\ \A u \in Transitions : Pending(u) => t <= u
  BY DEF TransInv
<1>5. last # 0 /\ last \in Transitions /\ Pending(last) /\ \A u \in Transitions : Pending(u) => u <= last
  BY <1>4, TransFacts DEF Chain
<1>6. CASE last = t
  <2>1. \A u \in Transitions : ~Pending(u)'
    BY <1>3, <1>4, <1>5, <1>6, TransFacts
  <2>2. last' = 0
    BY <1>1, <1>6
  <2> QED
    BY <1>4, <2>1, <2>2, TransFacts DEF Chain, Awaited
<1>7. CASE last # t
  <2>1. last' = last /\ Pending(last)'
    BY <1>1, <1>3, <1>5, <1>7 DEF Pending
  <2>2. ASSUME NEW v \in Transitions, NEW u \in Transitions, Pending(v)', Pending(u)', u < v
        PROVE  /\ trans'[v].at = "queued" /\ trans'[v].prev \in Transitions
               /\ trans'[trans'[v].prev].at \in {"queued", "restarting"} /\ u <= trans'[v].prev
    <3> DEFINE w == trans[v].prev
    <3>1. v # t /\ u # t /\ Pending(v) /\ Pending(u) /\ trans'[v] = trans[v]
      BY <1>1, <1>3, <2>2
    <3>2. trans[v].at = "queued" /\ w \in Transitions /\ Pending(w) /\ u <= w
      BY <1>4, <2>2, <3>1 DEF Chain
    <3>3. t < u
      BY <1>4, <3>1, TransFacts
    <3>4. w # t
      BY <3>2, <3>3, TransFacts
    <3> QED
      BY <1>1, <3>1, <3>2, <3>4 DEF Pending
  <2>3. Chain'
    BY <1>3, <1>5, <2>1, <2>2, TransFacts DEF Chain, Pending
  <2>4. Awaited'
    BY <1>3, <1>4, TransFacts DEF Awaited
  <2> QED
    BY <2>3, <2>4
<1> QED
  BY <1>6, <1>7

\* A transition that runs is the first one
LEMMA FirstRuns ==
    ASSUME Base, TransInv, NEW t \in Transitions,
           trans[t].at = "restarting" \/ (trans[t].at = "queued" /\ Done(trans[t].prev)), "cleaned" \notin harm
    PROVE  \A u \in Transitions : Pending(u) => t <= u
<1> SUFFICES ASSUME NEW u \in Transitions, Pending(u), u < t PROVE FALSE
  BY TransFacts
<1>1. trans[t].at = "queued" /\ trans[t].prev \in Transitions /\ Pending(trans[t].prev)
  BY DEF TransInv, Chain, Pending
<1> QED
  BY <1>1, TransFacts DEF Done, Pending

LEMMA TransitionsKeep ==
    ASSUME Base, TransInv, NEW t \in Transitions,
           SetRuntime(t) \/ Transition(t) \/ TransitionFails(t) \/ Restarted(t)
    PROVE  TransInv'
<1>0. UNCHANGED <<turn, before>> /\ harm \subseteq harm'
  BY DEF SetRuntime, Transition, TransitionFails, Restarted, turnVars, Hurt
<1>1. CASE SetRuntime(t)
  <2>1. /\ trans[t].at = "unused" /\ harm' = harm
        /\ \A u \in Transitions : u < t => Used(u)
    BY <1>1, TransFacts DEF SetRuntime, Used, Transitions
  <2>2. \A u \in Transitions : Used(u) => u < t
    BY <2>1, TransFacts DEF TransInv, InTurn, Used
  <2>3. /\ \A u \in Transitions : u # t => trans'[u] = trans[u]
        /\ \/ /\ trans'[t].at = "queued" /\ trans'[t].prev = last /\ last' = t
           \/ trans'[t].at = "done" /\ last' = last
    BY <1>1, TransFacts DEF SetRuntime, Enqueue
  <2>4. InTurn'
    BY <1>0, <2>1, <2>2, <2>3, TransFacts DEF TransInv, InTurn, Used
  <2>5. ~Pending(t) /\ \A u \in Transitions : Pending(u) => Used(u) /\ u < t
    BY <2>1, <2>2 DEF Pending, Used
  <2>6. Awaited => Awaited'
    <3>1. \A m \in Messages : \A u \in before[m] : u \in Transitions /\ u # t
      BY <2>1, TransFacts DEF TransInv, InTurn, Used
    <3> QED
      BY <1>0, <2>3, <3>1 DEF Awaited, Pending
  <2>7. ASSUME Chain PROVE Chain'
    <3>1. CASE trans'[t].at = "done" /\ last' = last
      <4>1. \A u \in Transitions : Pending(u)' <=> Pending(u)
        BY <2>3, <2>5, <3>1 DEF Pending
      <4>2. \A u \in Transitions : Pending(u) => trans'[u] = trans[u]
        BY <2>3, <2>5
      <4> QED
        BY <2>7, <3>1, <4>1, <4>2, TransFacts DEF Chain, Pending
    <3>2. CASE trans'[t].at = "queued" /\ trans'[t].prev = last /\ last' = t
      <4>1. /\ Pending(t)' /\ last' # 0 /\ last' \in Transitions
            /\ \A u \in Transitions : u # t => (Pending(u)' <=> Pending(u))
        BY <2>3, <3>2, TransFacts DEF Pending
      <4>2. \A u \in Transitions : Pending(u)' => u <= t
        BY <2>5, <4>1, TransFacts
      <4>3. ASSUME NEW v \in Transitions, NEW u \in Transitions, Pending(v)', Pending(u)', u < v
            PROVE  /\ trans'[v].at = "queued" /\ trans'[v].prev \in Transitions
                   /\ trans'[trans'[v].prev].at \in {"queued", "restarting"} /\ u <= trans'[v].prev
        <5>1. u # t /\ Pending(u)
          BY <4>1, <4>2, <4>3, TransFacts
        <5>2. CASE v = t
          <6>1. last # 0 /\ last \in Transitions /\ Pending(last) /\ u <= last
            BY <2>7, <5>1, TransFacts DEF Chain
          <6> QED
            BY <2>3, <2>5, <3>2, <5>2, <6>1 DEF Pending
        <5>3. CASE v # t
          <6>1. /\ trans'[v] = trans[v] /\ trans[v].at = "queued" /\ trans[v].prev \in Transitions
                /\ Pending(trans[v].prev) /\ u <= trans[v].prev
            BY <2>3, <2>7, <4>1, <4>3, <5>1, <5>3 DEF Chain
          <6> QED
            BY <2>3, <2>5, <6>1 DEF Pending
        <5> QED
          BY <5>2, <5>3
      <4> QED
        BY <3>2, <4>1, <4>2, <4>3 DEF Chain, Pending
    <3> QED
      BY <2>3, <3>1, <3>2
  <2> QED
    BY <2>1, <2>4, <2>6, <2>7 DEF TransInv
<1>2. CASE TransitionFails(t) \/ Restarted(t)
  <2>1. /\ \E how \in {"done", "failed"} : Finish(t, how)
        /\ trans[t].at = "restarting" \/ (trans[t].at = "queued" /\ Done(trans[t].prev))
    BY <1>2 DEF TransitionFails, Restarted
  <2> QED
    BY <1>0, <2>1, FirstRuns, FinishKeeps DEF Pending
<1>3. CASE Transition(t)
  <2>1. trans[t].at = "queued" /\ Done(trans[t].prev)
    BY <1>3 DEF Transition
  <2>2. CASE Finish(t, "done")
    BY <1>0, <2>1, <2>2, FirstRuns, FinishKeeps DEF Pending
  <2>3. CASE ~Finish(t, "done")
    <3>1. trans' = [trans EXCEPT ![t].at = "restarting", ![t].on = asked + 1] /\ last' = last
      BY <1>3, <2>3 DEF Transition
    <3>2. /\ \A u \in Transitions : u # t => trans'[u] = trans[u]
          /\ trans'[t].at = "restarting" /\ trans'[t].prev = trans[t].prev
      BY <3>1, TransFacts
    <3>3. \A u \in Transitions : (Pending(u)' <=> Pending(u)) /\ (Used(u)' <=> Used(u))
      BY <2>1, <3>2, TransFacts DEF Pending, Used
    <3>4. InTurn'
      BY <1>0, <3>3, TransFacts DEF TransInv, InTurn
    <3>5. Awaited => Awaited'
      BY <1>0, <3>3, TransFacts DEF Awaited
    <3>6. ASSUME Chain, "cleaned" \notin harm PROVE Chain'
      <4>1. \A u \in Transitions : Pending(u) => t <= u
        BY <2>1, <3>6, FirstRuns
      <4>2. \A v, u \in Transitions : Pending(v) /\ Pending(u) /\ u < v => v # t
        BY <4>1, TransFacts
      <4> QED
        BY <3>1, <3>2, <3>3, <3>6, <4>2, TransFacts DEF Chain, Pending
    <3> QED
      BY <1>0, <3>4, <3>5, <3>6 DEF TransInv
  <2> QED
    BY <2>2, <2>3
<1> QED
  BY <1>1, <1>2, <1>3

\* A cleanup forgets the transitions, and says so
LEMMA CleanUpKeeps ==
    ASSUME Base, TransInv, CleanUp
    PROVE  TransInv'
<1>1. trans' = trans /\ turn' = turn /\ before' = before
  BY DEF CleanUp
<1>2. CASE last # 0
  <2>1. "cleaned" \in harm'
    BY <1>2 DEF CleanUp, Hurt
  <2> QED
    BY <1>1, <2>1 DEF TransInv, InTurn, Used
<1>3. CASE last = 0
  <2>1. last' = last /\ harm \subseteq harm'
    BY <1>3 DEF CleanUp, Hurt
  <2> QED
    BY <1>1, <2>1, TransKept
<1> QED
  BY <1>2, <1>3

LEMMA RepliesPass ==
    ASSUME Base, HandedInv, TransInv, NEW p \in Procs, ReplyTurn(p) \/ ExitTold(p)
    PROVE  TransInv'
<1>1. trans' = trans /\ last' = last /\ before' = before /\ harm' = harm
  BY DEF ReplyTurn, ExitTold, transVars
<1>2. CASE ReplyTurn(p)
  <2> DEFINE m == Head(got[p])
  <2>1. /\ got[p] # <<>> /\ got[p] \in Seq(Messages)
        /\ \E at : turn' = [turn EXCEPT ![m] = [at |-> at, on |-> 0]]
    BY <1>2, MessageFacts DEF ReplyTurn, Reply, Moves
  <2>2. 1 \in DOMAIN got[p] /\ m = got[p][1] /\ m \in Messages
    BY <2>1, TailFacts
  <2>3. turn[m].at = "sent"
    BY <2>2 DEF HandedInv, Received, SentTo
  <2> HIDE DEF m
  <2>4. \A n \in Messages : n # m => turn'[n] = turn[n]
    BY <2>1, <2>2, MessageFacts
  <2>5. \A n \in Messages : turn'[n].at \in Through => turn[n].at \in Through
    BY <2>3, <2>4 DEF Through
  <2> QED
    BY <1>1, <2>5, TransKept
<1>3. CASE ExitTold(p)
  <2>1. \A n \in Messages : turn'[n] = turn[n] \/ turn[n].at = "sent"
    BY <1>3 DEF ExitTold
  <2>2. \A n \in Messages : turn'[n].at \in Through => turn[n].at \in Through
    BY <2>1 DEF Through
  <2> QED
    BY <1>1, <2>2, TransKept
<1> QED
  BY <1>2, <1>3

LEMMA TransNext == Base /\ HandedInv /\ TransInv /\ [Next]_vars => TransInv'
<1> SUFFICES ASSUME Base, HandedInv, TransInv, [Next]_vars PROVE TransInv'
  OBVIOUS
<1>0. ASSUME UNCHANGED <<trans, last, turn, before>>, harm \subseteq harm' PROVE TransInv'
  BY <1>0, TransKept
<1>1. CASE UNCHANGED vars
  BY <1>0, <1>1 DEF vars, transVars, turnVars
<1>2. ASSUME NEW c \in Clients, Connect(c) \/ Disconnect(c) PROVE TransInv'
  BY <1>0, <1>2 DEF Connect, Disconnect, transVars, turnVars
<1>3. ASSUME NEW m \in Messages, SendTurn(m) PROVE TransInv'
  <2>1. trans' = trans /\ last' = last /\ before' = before /\ harm \subseteq harm'
    BY <1>3 DEF SendTurn, transVars, Hurt
  <2>2. turn[m].at = "send" /\ \A n \in Messages : n # m => turn'[n] = turn[n]
    BY <1>3, MessageFacts DEF SendTurn, Moves
  <2>3. \A n \in Messages : turn'[n].at \in Through => turn[n].at \in Through
    BY <2>2 DEF Through
  <2> QED
    BY <2>1, <2>3, TransKept
<1>4. ASSUME NEW p \in Procs, Dies(p) \/ Crash(p) \/ ExitSeen(p) \/ SdkOpens(p) \/ SdkCloses(p)
      PROVE  TransInv'
  BY <1>0, <1>4 DEF Dies, Crash, ExitSeen, SdkOpens, SdkCloses, transVars, turnVars, Hurt
<1>5. ASSUME NEW s \in Starts, StartMoves(s) PROVE TransInv'
  BY <1>0, <1>5 DEF StartMoves, transVars, turnVars
<1>6. CASE \/ Prewarm \/ PrewarmRead \/ PrewarmOver \/ PrewarmIdle \/ StopGeneration
           \/ ForceKill \/ Clear \/ Delete \/ DeleteFails
  BY <1>0, <1>6 DEF Prewarm, PrewarmRead, PrewarmOver, PrewarmIdle, StopGeneration, ForceKill, Clear,
     Delete, DeleteFails, transVars, turnVars, Hurt
<1>7. CASE CleanupFires \/ DeleteDone
  BY <1>7, CleanUpKeeps DEF CleanupFires, DeleteDone
<1> QED
  BY <1>1, <1>2, <1>3, <1>4, <1>5, <1>6, <1>7, TurnPasses, TransitionsKeep, RepliesPass
  DEF Next, TurnStep, ChildStep

\* A message looks for the process only when the changes of the model that were
\* asked for before it are through (waitForRuntimeTransitionBeforeUserTurn):
\* unless a cleanup has forgotten them, none of them is pending from then on.
THEOREM WaitsForRestartCorrect == Spec => []WaitsForRestart
<1>1. Init => TransInv
  <2> SUFFICES ASSUME Init PROVE TransInv
    OBVIOUS
  <2>1. /\ \A t \in Transitions : trans[t].at = "unused"
        /\ last = 0 /\ \A m \in Messages : before[m] = {}
    BY DEF Init
  <2> QED
    BY <2>1 DEF TransInv, InTurn, Used, Chain, Pending, Awaited
<1>2. Base /\ TransInv => WaitsForRestart
  <2> SUFFICES ASSUME Base, TransInv, "cleaned" \notin harm, NEW m \in Messages, turn[m].at \in Through,
                      NEW t \in before[m]
               PROVE  Done(t)
    BY DEF WaitsForRestart, Through
  <2>1. t \in Transitions /\ Used(t) /\ ~Pending(t)
    BY TransFacts DEF TransInv, InTurn, Awaited
  <2> QED
    BY <2>1, TransFacts DEF Done, Used, Pending
<1> QED
  BY <1>1, <1>2, TransNext, BaseAlways, HandedAlways, PTL DEF Spec

-----------------------------------------------------------------------------
(* Prewarmed sessions have no turns                                        *)

Quiet == {"new", "answered", "refused"}
NoTurns == \A m \in Messages : turn[m].at \in Quiet
WarmInv == "raced" \notin harm /\ (prewarmPending \/ prewarmed) => NoTurns

LEMMA WarmKept ==
    ASSUME WarmInv, turn' = turn, harm \subseteq harm',
           prewarmPending' \/ prewarmed' => prewarmPending \/ prewarmed
    PROVE  WarmInv'
BY DEF WarmInv, NoTurns

\* The message a process replies to was sent to it
LEMMA ReplyFacts ==
    ASSUME Base, HandedInv, NEW p \in Procs, ReplyTurn(p)
    PROVE  /\ Head(got[p]) \in Messages /\ SentTo(turn[Head(got[p])], p)
           /\ turn'[Head(got[p])].at \in {"answered", "unheard"}
           /\ turn'[Head(got[p])].at = "unheard" => \A c \in clients : out[c] # Live
           /\ \A n \in Messages : n # Head(got[p]) => turn'[n] = turn[n]
<1> DEFINE m == Head(got[p])
           at == IF \E c \in clients : out[c] = Live THEN "answered" ELSE "unheard"
<1>1. got[p] # <<>> /\ got[p] \in Seq(Messages) /\ turn' = [turn EXCEPT ![m] = [at |-> at, on |-> 0]]
  BY MessageFacts DEF ReplyTurn, Reply, Moves
<1>2. 1 \in DOMAIN got[p] /\ m = got[p][1] /\ m \in Messages
  BY <1>1, TailFacts
<1>3. SentTo(turn[m], p)
  BY <1>2 DEF HandedInv, Received
<1>4. at \in {"answered", "unheard"} /\ (at = "unheard" => \A c \in clients : out[c] # Live)
  OBVIOUS
<1> HIDE DEF m, at
<1>5. turn'[m].at = at /\ \A n \in Messages : n # m => turn'[n] = turn[n]
  BY <1>1, <1>2, MessageFacts
<1> QED
  BY <1>2, <1>3, <1>4, <1>5 DEF m

LEMMA WarmNext == Base /\ HandedInv /\ WarmInv /\ [Next]_vars => WarmInv'
<1> SUFFICES ASSUME Base, HandedInv, WarmInv, [Next]_vars PROVE WarmInv'
  OBVIOUS
<1>1. CASE UNCHANGED vars
  BY <1>1, WarmKept DEF vars, warmVars, turnVars
<1>2. ASSUME NEW c \in Clients, Connect(c) \/ Disconnect(c) PROVE WarmInv'
  BY <1>2, WarmKept DEF Connect, Disconnect, warmVars, turnVars
<1>3. ASSUME NEW m \in Messages, Receive(m) PROVE WarmInv'
  BY <1>3 DEF Receive, ForgetPrewarm, WarmInv
<1>4. ASSUME NEW m \in Messages, WaitOver(m) \/ Titled(m) \/ StartOver(m) \/ SendTurn(m) PROVE WarmInv'
  <2>1. UNCHANGED warmVars /\ harm \subseteq harm' /\ turn[m].at \notin Quiet
    BY <1>4 DEF WaitOver, Titled, StartOver, SendTurn, Quiet, Hurt
  <2> QED
    BY <2>1 DEF WarmInv, NoTurns, warmVars
<1>5. ASSUME NEW p \in Procs, ReplyTurn(p) PROVE WarmInv'
  <2>1. UNCHANGED warmVars /\ harm' = harm /\ \E m \in Messages : turn[m].at \notin Quiet
    BY <1>5, ReplyFacts DEF ReplyTurn, SentTo, Quiet
  <2> QED
    BY <2>1 DEF WarmInv, NoTurns, warmVars
<1>6. ASSUME NEW p \in Procs, ExitTold(p) PROVE WarmInv'
  <2>1. UNCHANGED warmVars /\ harm' = harm /\ \A m \in Messages : turn'[m] = turn[m] \/ turn'[m].at \in Quiet
    BY <1>6 DEF ExitTold, Quiet
  <2> QED
    BY <2>1 DEF WarmInv, NoTurns, warmVars
<1>7. ASSUME NEW p \in Procs, Dies(p) \/ Crash(p) \/ ExitSeen(p) \/ SdkOpens(p) \/ SdkCloses(p)
      PROVE  WarmInv'
  BY <1>7, WarmKept DEF Dies, Crash, ExitSeen, SdkOpens, SdkCloses, warmVars, turnVars, Hurt
<1>8. ASSUME NEW s \in Starts, StartMoves(s) PROVE WarmInv'
  BY <1>8, WarmKept DEF StartMoves, warmVars, turnVars
<1>9. ASSUME NEW t \in Transitions, SetRuntime(t) \/ Transition(t) \/ TransitionFails(t) \/ Restarted(t)
      PROVE  WarmInv'
  BY <1>9, WarmKept DEF SetRuntime, Transition, TransitionFails, Restarted, warmVars, turnVars, Hurt
<1>10. CASE PrewarmRead
  <2>1. turn' = turn /\ ("raced" \notin harm' => NoTurns)
    BY <1>10 DEF PrewarmRead, Hurt, turnVars, NoTurns, Quiet
  <2> QED
    BY <2>1 DEF WarmInv, NoTurns
<1>11. CASE Prewarm \/ StopGeneration \/ ForceKill \/ Delete \/ DeleteFails
  BY <1>11, WarmKept DEF Prewarm, StopGeneration, ForceKill, Delete, DeleteFails, warmVars, turnVars, Hurt
<1>12. CASE PrewarmIdle
  BY <1>12, WarmKept DEF PrewarmIdle, turnVars, Hurt
<1>13. CASE PrewarmOver
  BY <1>13, WarmKept DEF PrewarmOver, turnVars
<1>14. CASE Clear \/ CleanupFires \/ DeleteDone
  BY <1>14 DEF Clear, CleanupFires, DeleteDone, CleanUp, ForgetPrewarm, WarmInv
<1> QED
  BY <1>1, <1>2, <1>3, <1>4, <1>5, <1>6, <1>7, <1>8, <1>9, <1>10, <1>11, <1>12, <1>13, <1>14
  DEF Next, TurnStep, ChildStep

LEMMA WarmAlways == Spec => []WarmInv
<1>1. Init => WarmInv
  BY DEF Init, WarmInv
<1> QED
  BY <1>1, WarmNext, BaseAlways, HandedAlways, PTL DEF Spec

\* The idle timer of a prewarmed session (handlePrewarmSession) kills no turn: a
\* message forgets the prewarm, and unless one has overtaken it while it was
\* reading, a prewarmed session has no turn at all.
THEOREM PrewarmSparesTurnsCorrect == Spec => PrewarmSparesTurns
<1>1. ASSUME WarmInv
      PROVE  [ PrewarmIdle => \/ "raced" \in harm
                              \/ \A m \in Messages : ~(turn[m].at = "sent" /\ turn[m].on = registered) ]_vars
  BY <1>1 DEF PrewarmIdle, WarmInv, NoTurns, Quiet
<1> QED
  BY <1>1, WarmAlways, PTL DEF PrewarmSparesTurns
-----------------------------------------------------------------------------
(* Answers are heard                                                       *)

\* Who is to be told: the callback of a client forwards at once, or will when the
\* message that has muted it is sent
Attends(c) == out[c] = Live \/ (out[c] \in Messages /\ turn[out[c]].at = "send")
Ready(m) == turn[m].at \in {"send", "sent"}
Bound == \A m \in Messages : Ready(m) => turn[m].on \in 0..spawned
Attended == \A m \in Messages : Ready(m) /\ turn[m].on = registered => \A c \in clients : Attends(c)
HeardInv == Bound /\ (harm \cap {"raced", "moved"} = {} /\ registered # None => Attended)

LEMMA HeardFacts ==
    ASSUME Base
    PROVE  /\ registered \in 0..spawned /\ spawned \in Nat
           /\ Live \notin Messages /\ NoCallback \notin Messages /\ clients \subseteq Clients
<1>1. registered \in 0..spawned /\ spawned \in Nat /\ clients \subseteq Clients
  BY ProcessBounds DEF Base, TypeInv, Numbered, ProcTypeOK, ServerTypes, ClientTypes
<1>2. Cardinality(Messages) \in Nat
  BY DesktopBounds, FS_CardinalityType
<1> QED
  BY <1>1, <1>2, DesktopBounds DEF Live, NoCallback

\* The entry goes, or another process takes it
LEMMA HeardAnew ==
    ASSUME Base, HeardInv, spawned' \in Nat, spawned <= spawned',
           registered' = None \/ registered' > spawned,
           \A m \in Messages : Ready(m)' => turn'[m] = turn[m]
    PROVE  HeardInv'
<1>1. \A m \in Messages : Ready(m)' => Ready(m) /\ turn'[m].on = turn[m].on
  BY DEF Ready
<1>2. Bound'
  BY <1>1, HeardFacts DEF HeardInv, Bound
<1>3. registered' # None => Attended'
  BY <1>1, HeardFacts DEF HeardInv, Bound, Attended
<1> QED
  BY <1>2, <1>3 DEF HeardInv

LEMMA HeardKept ==
    ASSUME Base, HeardInv, registered' = registered, spawned' = spawned, turn' = turn, out' = out,
           clients' \subseteq clients, harm \subseteq harm'
    PROVE  HeardInv'
<1>1. Bound'
  BY DEF HeardInv, Bound, Ready
<1>2. Attended => Attended'
  BY DEF Attended, Attends, Ready
<1> QED
  BY <1>1, <1>2 DEF HeardInv

\* Without turns, whom the callbacks are bound to does not matter
LEMMA HeardQuiet ==
    ASSUME WarmInv, HeardInv, prewarmPending \/ prewarmed, turn' = turn, spawned' = spawned, harm' = harm
    PROVE  HeardInv'
<1>1. "raced" \notin harm => NoTurns
  BY DEF WarmInv
<1>2. "raced" \notin harm => \A m \in Messages : ~Ready(m)'
  BY <1>1 DEF NoTurns, Quiet, Ready
<1>3. Bound'
  BY DEF HeardInv, Bound, Ready
<1> QED
  BY <1>2, <1>3 DEF HeardInv, Attended

LEMMA HeardClients ==
    ASSUME Base, WarmInv, HeardInv, NEW c \in Clients, Connect(c) \/ Disconnect(c)
    PROVE  HeardInv'
<1>1. UNCHANGED <<registered, spawned, turn, harm>>
  BY DEF Connect, Disconnect, procVars, entryVars, childVars, turnVars
<1>2. CASE Connect(c) /\ prewarmed
  BY <1>1, <1>2, HeardQuiet
<1>3. Bound'
  BY <1>1 DEF HeardInv, Bound, Ready
<1>4. CASE Connect(c) /\ ~prewarmed
  <2>1. clients' = clients \cup {c} /\ Bind({c}, Live)
    BY <1>4 DEF Connect
  <2>2. registered # None => out'[c] = Live /\ \A d \in clients : d # c => out'[d] = out[d]
    BY <2>1, HeardFacts DEF Bind
  <2>3. registered # None /\ Attended => Attended'
    BY <1>1, <2>1, <2>2 DEF Attended, Attends, Ready
  <2> QED
    BY <1>1, <1>3, <2>3 DEF HeardInv
<1>5. CASE Disconnect(c)
  <2>1. clients' = clients \ {c} /\ Bind({c}, NoCallback)
    BY <1>5 DEF Disconnect
  <2>2. \A d \in clients' : d \in clients /\ out'[d] = out[d]
    BY <2>1, HeardFacts DEF Bind
  <2>3. Attended => Attended'
    BY <1>1, <2>2 DEF Attended, Attends, Ready
  <2> QED
    BY <1>1, <1>3, <2>3 DEF HeardInv
<1> QED
  BY <1>2, <1>4, <1>5

LEMMA HeardTurns ==
    ASSUME Base, HeardInv, NEW m \in Messages, Receive(m) \/ WaitOver(m) \/ Titled(m) \/ StartOver(m)
    PROVE  HeardInv'
<1>1. UNCHANGED <<registered, spawned, clients, harm>>
  BY DEF Receive, WaitOver, Titled, StartOver, procVars, entryVars, childVars, clientVars
<1>2. /\ \A n \in Messages : n # m => turn'[n] = turn[n]
      /\ turn[m].at \notin {"send", "sent"} /\ turn'[m].at # "sent"
      /\ \/ out' = out /\ turn'[m].at # "send"
         \/ turn'[m].at = "send" /\ turn'[m].on = registered /\ Bind(clients, m)
  BY TurnFacts
<1>3. Bound'
  BY <1>1, <1>2, HeardFacts DEF HeardInv, Bound, Ready
<1>4. CASE out' = out /\ turn'[m].at # "send"
  <2>1. \A n \in Messages : Ready(n)' => Ready(n) /\ turn'[n] = turn[n]
    BY <1>2, <1>4 DEF Ready
  <2>2. \A c \in clients : Attends(c) => Attends(c)'
    BY <1>2, <1>4 DEF Attends
  <2>3. Attended => Attended'
    BY <1>1, <2>1, <2>2 DEF Attended
  <2> QED
    BY <1>1, <1>3, <2>3 DEF HeardInv
<1>5. CASE turn'[m].at = "send" /\ Bind(clients, m)
  <2>1. registered # None => \A c \in clients : out'[c] = m
    BY <1>5, HeardFacts DEF Bind
  <2>2. registered # None => Attended'
    BY <1>1, <1>5, <2>1 DEF Attended, Attends
  <2> QED
    BY <1>1, <1>3, <2>2 DEF HeardInv
<1> QED
  BY <1>2, <1>4, <1>5

LEMMA HeardSend ==
    ASSUME Base, HeardInv, NEW m \in Messages, SendTurn(m)
    PROVE  HeardInv'
<1>0. turn[m].at = "send" /\ UNCHANGED <<registered, spawned, clients>>
  BY DEF SendTurn, Send, procVars, entryVars, childVars, clientVars
<1>1. CASE registered = None
  <2>1. turn' = [turn EXCEPT ![m] = [at |-> "refused", on |-> 0]]
    BY <1>1 DEF SendTurn, Moves
  <2>2. \A n \in Messages : Ready(n)' => turn'[n] = turn[n]
    BY <2>1, MessageFacts DEF Ready
  <2> QED
    BY <1>0, <1>1, <2>2, HeardFacts, HeardAnew
<1>2. CASE registered # None
  <2>1. /\ turn' = [turn EXCEPT ![m] = [at |-> "sent", on |-> registered]]
        /\ harm' = harm \cup {w \in {"moved"} : turn[m].on # registered}
        /\ out' = [c \in Clients |-> IF out[c] = m THEN Live ELSE out[c]]
    BY <1>2 DEF SendTurn, Moves, Hurt
  <2>2. /\ turn'[m].at = "sent" /\ turn'[m].on = registered
        /\ \A n \in Messages : n # m => turn'[n] = turn[n]
    BY <2>1, MessageFacts
  <2>3. Bound'
    BY <1>0, <2>2, HeardFacts DEF HeardInv, Bound, Ready
  <2>4. ASSUME harm' \cap {"raced", "moved"} = {} PROVE Attended'
    <3>1. harm \cap {"raced", "moved"} = {} /\ turn[m].on = registered
      BY <2>1, <2>4
    <3>2. \A n \in Messages : Ready(n)' => Ready(n) /\ turn'[n].on = turn[n].on
      BY <1>0, <2>2, <3>1 DEF Ready
    <3>3. \A c \in clients : Attends(c) => Attends(c)'
      BY <2>1, <2>2, HeardFacts DEF Attends
    <3> QED
      BY <1>0, <1>2, <3>1, <3>2, <3>3 DEF HeardInv, Attended
  <2> QED
    BY <2>3, <2>4 DEF HeardInv
<1> QED
  BY <1>1, <1>2

LEMMA HeardReplies ==
    ASSUME Base, HandedInv, HeardInv, NEW p \in Procs, ReplyTurn(p)
    PROVE  HeardInv'
<1> DEFINE m == Head(got[p])
<1>1. UNCHANGED <<registered, spawned, clients, harm, out>>
  BY DEF ReplyTurn, Reply, entryVars, clientVars
<1>2. /\ turn[m].at = "sent" /\ turn'[m].at \in {"answered", "unheard"}
      /\ \A n \in Messages : n # m => turn'[n] = turn[n]
  BY ReplyFacts DEF SentTo
<1> HIDE DEF m
<1>3. \A n \in Messages : Ready(n)' => Ready(n) /\ turn'[n] = turn[n]
  BY <1>2 DEF Ready
<1>4. \A c \in clients : Attends(c) => Attends(c)'
  BY <1>1, <1>2 DEF Attends
<1>5. Bound'
  BY <1>1, <1>3 DEF HeardInv, Bound
<1>6. Attended => Attended'
  BY <1>1, <1>3, <1>4 DEF Attended
<1> QED
  BY <1>1, <1>5, <1>6 DEF HeardInv

LEMMA HeardStarts ==
    ASSUME Base, HeardInv, NEW s \in Starts, StartMoves(s)
    PROVE  HeardInv'
<1>1. StartStep(s) /\ UNCHANGED <<clients, turn, harm>> /\ Rebound
  BY StartSteps DEF StartMoves, turnVars, clientVars
<1>2. CASE Spawn(s)
  <2>1. registered' = spawned + 1 /\ spawned' = spawned + 1
    BY <1>2 DEF Spawn
  <2> QED
    BY <1>1, <2>1, HeardFacts, HeardAnew
<1>3. CASE ~Spawn(s)
  <2>1. registered' \in {registered, None} /\ spawned' = spawned
    BY <1>1, <1>3 DEF StartStep, StartSession, Launched, StartFails, GraceOver, SaveFails, GraceExit,
       DrainEnds, Retry, Forget, entryVars, childVars
  <2>2. CASE registered' = None
    BY <1>1, <2>1, <2>2, HeardFacts, HeardAnew
  <2>3. CASE registered' = registered
    <3>1. out' = out
      BY <1>1, <2>3 DEF Rebound
    <3> QED
      BY <1>1, <2>1, <2>3, <3>1, HeardKept
  <2> QED
    BY <2>1, <2>2, <2>3
<1> QED
  BY <1>2, <1>3

LEMMA HeardNext == Base /\ HandedInv /\ WarmInv /\ HeardInv /\ [Next]_vars => HeardInv'
<1> SUFFICES ASSUME Base, HandedInv, WarmInv, HeardInv, [Next]_vars PROVE HeardInv'
  OBVIOUS
<1>0. ASSUME registered' = None, spawned' = spawned, \A m \in Messages : Ready(m)' => turn'[m] = turn[m]
      PROVE  HeardInv'
  BY <1>0, HeardFacts, HeardAnew
<1>1. CASE UNCHANGED vars
  BY <1>1, HeardKept DEF vars, procVars, entryVars, childVars, clientVars, turnVars
<1>2. ASSUME NEW p \in Procs, ExitTold(p) PROVE HeardInv'
  <2>1. registered' = None /\ spawned' = spawned
    BY <1>2 DEF ExitTold, ExitDrained, Forget
  <2>2. \A m \in Messages : Ready(m)' => turn'[m] = turn[m]
    BY <1>2 DEF ExitTold, Ready
  <2> QED
    BY <1>0, <2>1, <2>2
<1>3. ASSUME NEW p \in Procs, Dies(p) \/ Crash(p) \/ ExitSeen(p) \/ SdkOpens(p) \/ SdkCloses(p)
      PROVE  HeardInv'
  BY <1>3, HeardKept DEF Dies, Crash, ExitSeen, SdkOpens, SdkCloses, Exit, HandleExit, Connects, Closed,
     entryVars, clientVars, turnVars, Hurt
<1>4. ASSUME NEW t \in Transitions, SetRuntime(t) \/ Transition(t) \/ TransitionFails(t) \/ Restarted(t)
      PROVE  HeardInv'
  <2>1. UNCHANGED <<clients, turn>> /\ harm \subseteq harm'
    BY <1>4 DEF SetRuntime, Transition, TransitionFails, Restarted, clientVars, turnVars, Hurt
  <2>2. \/ registered' = None /\ spawned' = spawned
        \/ UNCHANGED <<registered, spawned, out>>
    BY <1>4 DEF SetRuntime, Transition, TransitionFails, Restarted, Stop, Forget, procVars, entryVars, childVars
  <2> QED
    BY <1>0, <2>1, <2>2, HeardKept
<1>5. CASE Prewarm \/ PrewarmRead \/ StopGeneration \/ DeleteFails
  BY <1>5, HeardKept DEF Prewarm, PrewarmRead, StopGeneration, DeleteFails, Unmark, procVars, entryVars,
     childVars, clientVars, turnVars, Hurt
<1>6. CASE PrewarmOver
  <2>1. UNCHANGED <<registered, spawned, clients, turn, harm>> /\ (prewarmPending \/ out' = out)
    BY <1>6 DEF PrewarmOver, procVars, entryVars, childVars, clientVars, turnVars
  <2> QED
    BY <2>1, HeardQuiet, HeardKept
<1>7. CASE PrewarmIdle \/ CleanupFires \/ ForceKill \/ Clear \/ Delete
  <2>1. registered' = None /\ spawned' = spawned /\ turn' = turn
    BY <1>7 DEF PrewarmIdle, CleanupFires, ForceKill, Clear, Delete, CleanUp, Stop, MarkDeleted, Forget, turnVars
  <2> QED
    BY <1>0, <2>1
<1>8. CASE DeleteDone
  <2>1. UNCHANGED <<registered, spawned, turn>> /\ clients' = {}
    BY <1>8 DEF DeleteDone, CleanUp, procVars, entryVars, childVars
  <2>2. Attended'
    BY <2>1 DEF Attended
  <2>3. Bound'
    BY <2>1 DEF HeardInv, Bound, Ready
  <2> QED
    BY <2>2, <2>3 DEF HeardInv
<1> QED
  BY <1>1, <1>2, <1>3, <1>4, <1>5, <1>6, <1>7, <1>8, HeardClients, HeardTurns, HeardSend, HeardReplies, HeardStarts
  DEF Next, TurnStep, ChildStep

LEMMA HeardAlways == Spec => []HeardInv
<1>1. Init => HeardInv
  <2> SUFFICES ASSUME Init PROVE HeardInv
    OBVIOUS
  <2>1. /\ \A m \in Messages : turn[m].at = "new"
        /\ registered = None
    BY DEF Init, ProcInit
  <2> QED
    BY <2>1 DEF HeardInv, Bound, Ready
<1> QED
  BY <1>1, HeardNext, BaseAlways, HandedAlways, WarmAlways, PTL DEF Spec

\* Only the reply of the process it was sent to leaves a message unheard
LEMMA UnheardReply ==
    ASSUME Base, HandedInv, [Next]_vars, NEW m \in Messages, turn[m].at = "sent", turn'[m].at = "unheard"
    PROVE  turn[m].on \in Procs /\ \A c \in clients : out[c] # Live
<1>1. turn' # turn
  OBVIOUS
<1>2. ASSUME NEW n \in Messages, Receive(n) \/ TurnStep(n) PROVE FALSE
  <2>1. CASE Receive(n) \/ WaitOver(n) \/ Titled(n) \/ StartOver(n)
    BY <2>1, TurnFacts
  <2>2. CASE SendTurn(n)
    <3>1. turn[n].at = "send"
      BY <2>2 DEF SendTurn
    <3>2. turn'[m] = turn[m]
      BY <2>2, <3>1, MessageFacts DEF SendTurn, Moves
    <3> QED
      BY <3>2
  <2> QED
    BY <1>2, <2>1, <2>2 DEF TurnStep
<1>3. ASSUME NEW p \in Procs, ReplyTurn(p) PROVE turn[m].on \in Procs /\ \A c \in clients : out[c] # Live
  <2>1. m = Head(got[p])
    BY <1>3, ReplyFacts
  <2> QED
    BY <1>3, <2>1, ReplyFacts DEF SentTo
<1>4. ASSUME NEW p \in Procs, ExitTold(p) PROVE FALSE
  BY <1>4 DEF ExitTold
<1>5. ASSUME NEW p \in Procs, Dies(p) \/ ExitSeen(p) \/ SdkOpens(p) \/ SdkCloses(p) \/ Crash(p) PROVE turn' = turn
  BY <1>5 DEF Dies, ExitSeen, SdkOpens, SdkCloses, Crash, turnVars
<1>6. ASSUME NEW c \in Clients, Connect(c) \/ Disconnect(c) PROVE turn' = turn
  BY <1>6 DEF Connect, Disconnect, turnVars
<1>7. ASSUME NEW s \in Starts, StartMoves(s) PROVE turn' = turn
  BY <1>7 DEF StartMoves, turnVars
<1>8. ASSUME NEW t \in Transitions, SetRuntime(t) \/ Transition(t) \/ TransitionFails(t) \/ Restarted(t)
      PROVE  turn' = turn
  BY <1>8 DEF SetRuntime, Transition, TransitionFails, Restarted, turnVars
<1>9. CASE \/ Prewarm \/ PrewarmRead \/ PrewarmOver \/ PrewarmIdle \/ CleanupFires \/ StopGeneration
           \/ ForceKill \/ Clear \/ Delete \/ DeleteDone \/ DeleteFails \/ UNCHANGED vars
  BY <1>1, <1>9 DEF Prewarm, PrewarmRead, PrewarmOver, PrewarmIdle, CleanupFires, StopGeneration, ForceKill,
     Clear, Delete, DeleteDone, DeleteFails, CleanUp, turnVars, vars
<1> QED
  BY <1>1, <1>2, <1>3, <1>4, <1>5, <1>6, <1>7, <1>8, <1>9 DEF Next, ChildStep

\* The answer of the session's process reaches a client that is connected: its
\* callbacks are bound before a message is sent (bindAllClientSessionOutputs) and
\* stay so, unless another message has muted them, it was sent to another
\* process than they were bound to, or it overtook a prewarm.
THEOREM AnswersAreHeardCorrect == Spec => AnswersAreHeard
<1> DEFINE A == \A m \in Messages :
                  turn[m].at = "sent" /\ turn'[m].at = "unheard" /\ turn[m].on = registered =>
                      \/ clients = {} \/ harm \cap {"raced", "moved"} # {}
                      \/ \E n \in Messages : turn[n].at = "send"
<1>1. Base /\ HandedInv /\ HeardInv /\ [Next]_vars => [A]_vars
  <2> SUFFICES ASSUME Base, HandedInv, HeardInv, [Next]_vars, NEW m \in Messages,
                      turn[m].at = "sent", turn'[m].at = "unheard", turn[m].on = registered,
                      clients # {}, harm \cap {"raced", "moved"} = {}
               PROVE  \E n \in Messages : turn[n].at = "send"
    OBVIOUS
  <2>1. registered # None /\ \A c \in clients : out[c] # Live
    BY UnheardReply, ProcsNat
  <2>2. PICK c \in clients : TRUE
    OBVIOUS
  <2>3. Attends(c)
    BY <2>1 DEF HeardInv, Attended, Ready
  <2> QED
    BY <2>1, <2>3 DEF Attends
<1> QED
  BY <1>1, BaseAlways, HandedAlways, HeardAlways, PTL DEF Spec, AnswersAreHeard
=============================================================================
