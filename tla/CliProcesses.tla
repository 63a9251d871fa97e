---------------------------- MODULE CliProcesses ----------------------------
(***************************************************************************)
(* The CLI processes of one desktop session: the map `sessions` of         *)
(* conversationService.ts, whose entry for the session names one process,  *)
(* the calls of startSession() under way, the exits of processes, and the  *)
(* SDK socket by which a process is reached.  Callers are free to start,   *)
(* stop, send and delete at any time; DesktopSession is the caller the     *)
(* server has.                                                             *)
(*                                                                         *)
(* A process keeps its connection until it exits.  The token in the URL of *)
(* a process is its number.                                                *)
(***************************************************************************)
EXTENDS Naturals, Sequences

CONSTANTS
    Messages,   \* the user messages
    MaxStarts,  \* how many calls of startSession there may be
    MaxProcs    \* how many processes may be spawned

ASSUME ProcessBounds == MaxStarts \in Nat /\ MaxProcs \in Nat

Starts == 1..MaxStarts
Procs == 1..MaxProcs
None == 0

VARIABLES
    registered, \* the process of the session's entry, or None
    attached,   \* the entry has a socket (sdkSocket)
    queue,      \* pendingOutbound of the entry
    spawned,    \* how many processes were spawned
    life,       \* of a process; "exited": handleProcessExit has not run yet,
                \* "draining": it waits for the last output
    conn,       \* its connection; "lost": the close event is still to come
    got,        \* the messages it has received and not answered
    phase,      \* of a call of startSession
    child,      \* the process this call has spawned
    deleted,    \* the session is in deletedSessions
    overlapped, \* a process was spawned while another call had passed its
                \* check for an entry, or while an exit was draining
    late        \* the calls past their last check when the session was deleted

entryVars == <<registered, attached, queue>>
childVars == <<spawned, life, conn, got>>
startVars == <<phase, child>>
procVars == <<entryVars, childVars, startVars, deleted, overlapped, late>>

Lives == {"unborn", "up", "dying", "exited", "draining", "gone"}
Phases == {"unused", "launch", "prepare", "grace", "drain", "ok", "failed"}

ProcInit ==
    /\ registered = None /\ attached = FALSE /\ queue = <<>>
    /\ spawned = 0
    /\ life = [p \in Procs |-> "unborn"]
    /\ conn = [p \in Procs |-> "none"]
    /\ got = [p \in Procs |-> <<>>]
    /\ phase = [s \in Starts |-> "unused"]
    /\ child = [s \in Starts |-> None]
    /\ deleted = FALSE /\ overlapped = FALSE /\ late = {}

\* The entry is deleted, whichever process it names
Forget == registered' = None /\ attached' = FALSE /\ queue' = <<>>

Goes(s, to) == phase' = [phase EXCEPT ![s] = to]
InFlight(s) == phase[s] \in {"launch", "prepare", "grace", "drain"}
Over(s) == phase[s] \in {"ok", "failed"}

\* startupPending of the entry of p
Starting(p) == \E s \in Starts : child[s] = p /\ phase[s] \in {"grace", "drain"}
-----------------------------------------------------------------------------
(* startSession *)

StartSession(s) ==
    /\ phase[s] = "unused"
    /\ Goes(s, IF deleted THEN "failed" ELSE IF registered # None THEN "ok" ELSE "launch")
    /\ UNCHANGED <<entryVars, childVars, child, deleted, overlapped, late>>

\* Mutant of Launched: no second check for a deletion
LaunchedUnchecked(s) ==
    /\ phase[s] = "launch"
    /\ Goes(s, "prepare")
    /\ UNCHANGED <<entryVars, childVars, child, deleted, overlapped, late>>

\* The launch information is read: the second check for a deletion
Launched(s) ==
    /\ phase[s] = "launch"
    /\ Goes(s, IF deleted THEN "failed" ELSE "prepare")
    /\ UNCHANGED <<entryVars, childVars, child, deleted, overlapped, late>>

\* The directory is not there, or preparing it or spawning throws
StartFails(s) ==
    /\ phase[s] \in {"launch", "prepare"}
    /\ Goes(s, "failed")
    /\ UNCHANGED <<entryVars, childVars, child, deleted, overlapped, late>>

\* The new entry replaces any other
Spawn(s) ==
    /\ phase[s] = "prepare" /\ spawned < MaxProcs
    /\ spawned' = spawned + 1
    /\ registered' = spawned + 1 /\ attached' = FALSE /\ queue' = <<>>
    /\ life' = [life EXCEPT ![spawned + 1] = "up"]
    /\ child' = [child EXCEPT ![s] = spawned + 1]
    /\ Goes(s, "grace")
    /\ overlapped' = \/ overlapped
                     \/ \E t \in Starts \ {s} : InFlight(t)
                     \/ \E p \in Procs : life[p] = "draining"
    /\ UNCHANGED <<conn, got, deleted, late>>

\* The process has lived through the grace period
GraceOver(s) ==
    /\ phase[s] = "grace" /\ life[child[s]] # "gone"
    /\ Goes(s, "ok")
    /\ UNCHANGED <<entryVars, childVars, child, deleted, overlapped, late>>

\* It has, but the metadata of the session cannot be written
SaveFails(s) ==
    /\ phase[s] = "grace" /\ life[child[s]] # "gone"
    /\ Goes(s, "failed")
    /\ UNCHANGED <<entryVars, childVars, child, deleted, overlapped, late>>

\* It has not: its last output is awaited
GraceExit(s) ==
    /\ phase[s] = "grace" /\ life[child[s]] = "gone"
    /\ Goes(s, "drain")
    /\ UNCHANGED <<entryVars, childVars, child, deleted, overlapped, late>>

DrainEnds(s) ==
    /\ phase[s] = "drain"
    /\ Forget /\ Goes(s, "failed")
    /\ UNCHANGED <<childVars, child, deleted, overlapped, late>>

\* A stale lock was removed: startSession calls itself
Retry(s) ==
    /\ phase[s] = "drain"
    /\ Forget /\ Goes(s, IF deleted THEN "failed" ELSE "launch")
    /\ UNCHANGED <<childVars, child, deleted, overlapped, late>>
-----------------------------------------------------------------------------
(* The processes and their exits *)

\* The exit of a process that was stopped finds it is not the entry's any more
Exit(p) ==
    /\ life[p] \in {"up", "dying"}
    /\ life' = [life EXCEPT ![p] = IF @ = "up" THEN "exited" ELSE "gone"]
    /\ conn' = [conn EXCEPT ![p] = IF @ = "open" THEN "lost" ELSE "closed"]
    /\ got' = [got EXCEPT ![p] = <<>>]
    /\ UNCHANGED <<entryVars, spawned, startVars, deleted, overlapped, late>>

HandleExit(p) ==
    /\ life[p] = "exited"
    /\ life' = [life EXCEPT ![p] = IF registered = p /\ ~Starting(p) THEN "draining" ELSE "gone"]
    /\ UNCHANGED <<entryVars, spawned, conn, got, startVars, deleted, overlapped, late>>

ExitDrained(p) ==
    /\ life[p] = "draining"
    /\ life' = [life EXCEPT ![p] = "gone"]
    /\ Forget
    /\ UNCHANGED <<spawned, conn, got, startVars, deleted, overlapped, late>>

\* Mutant of Stop: the entry is deleted and no signal sent
StopForgets ==
    /\ Forget
    /\ UNCHANGED <<childVars, startVars, deleted, overlapped, late>>

\* stopSession: the entry goes, the process is sent a signal
Stop ==
    /\ Forget
    /\ life' = [p \in Procs |-> IF p = registered /\ life[p] = "up" THEN "dying" ELSE life[p]]
    /\ UNCHANGED <<spawned, conn, got, startVars, deleted, overlapped, late>>
-----------------------------------------------------------------------------
(* The SDK socket *)

\* Mutant of Connects: what was queued before the connection is not sent
ConnectsDeaf(p) ==
    /\ life[p] = "up" /\ conn[p] = "none"
    /\ IF registered = p
       THEN conn' = [conn EXCEPT ![p] = "open"] /\ attached' = TRUE
       ELSE conn' = [conn EXCEPT ![p] = "closed"] /\ UNCHANGED attached
    /\ UNCHANGED <<registered, queue, spawned, life, got, startVars, deleted, overlapped, late>>

Connects(p) ==
    /\ life[p] = "up" /\ conn[p] = "none"
    /\ IF registered = p
       THEN /\ conn' = [conn EXCEPT ![p] = "open"]
            /\ attached' = TRUE
            /\ got' = [got EXCEPT ![p] = @ \o queue] /\ queue' = <<>>
       ELSE /\ conn' = [conn EXCEPT ![p] = "closed"]
            /\ UNCHANGED <<attached, got, queue>>
    /\ UNCHANGED <<registered, spawned, life, startVars, deleted, overlapped, late>>

\* The close event of any process detaches the entry's socket
Closed(p) ==
    /\ conn[p] = "lost"
    /\ conn' = [conn EXCEPT ![p] = "closed"]
    /\ attached' = FALSE
    /\ UNCHANGED <<registered, queue, spawned, life, got, startVars, deleted, overlapped, late>>

\* sendSdkMessage, when there is an entry
Send(m) ==
    /\ registered # None
    /\ IF attached
       THEN /\ got' = [p \in Procs |-> IF p = registered /\ conn[p] = "open"
                                        THEN Append(got[p], m) ELSE got[p]]
            /\ UNCHANGED queue
       ELSE queue' = Append(queue, m) /\ UNCHANGED got
    /\ UNCHANGED <<registered, attached, spawned, life, conn, startVars, deleted, overlapped, late>>

\* A process ends the turn of the first message it has
Reply(p) ==
    /\ life[p] \in {"up", "dying"} /\ conn[p] = "open" /\ got[p] # <<>>
    /\ got' = [got EXCEPT ![p] = Tail(@)]
    /\ UNCHANGED <<entryVars, spawned, life, conn, startVars, deleted, overlapped, late>>
-----------------------------------------------------------------------------
(* markSessionDeleted and unmarkSessionDeleted *)

MarkDeleted ==
    /\ deleted' = TRUE
    /\ late' = {s \in Starts : phase[s] = "prepare"}
    /\ Forget
    /\ life' = [p \in Procs |-> IF p = registered /\ life[p] = "up" THEN "dying" ELSE life[p]]
    /\ UNCHANGED <<spawned, conn, got, startVars, overlapped>>

Unmark ==
    /\ deleted' = FALSE
    /\ UNCHANGED <<entryVars, childVars, startVars, overlapped, late>>
-----------------------------------------------------------------------------
StartStep(s) ==
    \/ StartSession(s) \/ Launched(s) \/ StartFails(s) \/ Spawn(s)
    \/ GraceOver(s) \/ SaveFails(s) \/ GraceExit(s) \/ DrainEnds(s) \/ Retry(s)

ProcStep(p) ==
    Exit(p) \/ HandleExit(p) \/ ExitDrained(p) \/ Connects(p) \/ Closed(p) \/ Reply(p)

ProcNext ==
    \/ \E s \in Starts : StartStep(s)
    \/ \E p \in Procs : ProcStep(p)
    \/ \E m \in Messages : Send(m)
    \/ Stop \/ MarkDeleted \/ Unmark

ProcSpec == ProcInit /\ [][ProcNext]_procVars
-----------------------------------------------------------------------------
ProcTypeOK ==
    /\ registered \in Procs \cup {None}
    /\ attached \in BOOLEAN
    /\ queue \in Seq(Messages)
    /\ spawned \in 0..MaxProcs
    /\ life \in [Procs -> Lives]
    /\ conn \in [Procs -> {"none", "open", "lost", "closed"}]
    /\ got \in [Procs -> Seq(Messages)]
    /\ phase \in [Starts -> Phases]
    /\ child \in [Starts -> Procs \cup {None}]
    /\ deleted \in BOOLEAN /\ overlapped \in BOOLEAN
    /\ late \in SUBSET Starts

\* Unless two starts, or a start and an exit, have overlapped, a process that
\* runs is the one of the entry: no process is left behind that nobody can
\* stop, whatever is started, stopped, deleted or dies meanwhile.
NoOrphan ==
    ~overlapped => \A p \in Procs : life[p] = "up" => registered = p

\* The entry never names a process that was stopped, and one whose exit was
\* handled only as long as a start will see it and delete the entry: a dead
\* process does not hold the session.
NoDeadEntry ==
    registered # None =>
        /\ life[registered] # "dying"
        /\ life[registered] = "gone" => Starting(registered)

\* A deleted session gets a process only from a start that had passed both
\* checks before the deletion.
DeletedStaysDown ==
    deleted /\ registered # None => \E s \in late : child[s] = registered
=============================================================================
