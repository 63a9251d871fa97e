---------------------------- MODULE SchedulerLock ----------------------------
(***************************************************************************)
(* The lock file .claude/scheduled_tasks.lock with which the sessions of a *)
(* project agree on who drives the cron scheduler (utils/cronTasksLock.ts, *)
(* and its use in utils/cronScheduler.ts).                                 *)
(*                                                                         *)
(* Every access to the file system is a step of its own.  An exclusive     *)
(* create makes an empty file first and writes its body later; a reader in *)
(* between finds no lock in it.  A session may be killed at any step and   *)
(* be resumed with the same id by a process with another PID.              *)
(***************************************************************************)
EXTENDS Naturals, FiniteSets

CONSTANTS
    Sessions,   \* the sessions, by sessionId
    MaxCrashes, \* how many processes are killed
    MaxStops    \* how often a scheduler is stopped

ASSUME NobodyAssumption == "nobody" \notin Sessions
ASSUME BoundsAssumption == MaxCrashes \in Nat /\ MaxStops \in Nat

VARIABLES
    lock,       \* the lock file: Absent, or who created it, and its body
    pid,        \* the process that runs a session, numbered by session
    alive,      \* whether it runs
    stopped,    \* stop() was called on its scheduler
    isOwner,
    pc,         \* where its tryAcquireSchedulerLock is
    releasing,  \* where its releaseSchedulerLock is
    recovered,  \* some session has removed a lock file it took for stale
    crashes, stops

sessionVars == <<alive, stopped, isOwner, pc, releasing>>
vars == <<lock, pid, sessionVars, recovered, crashes, stops>>

Absent == [by |-> "nobody", pid |-> 0, written |-> FALSE]
\* The file s creates: empty, and then with the body {sessionId, pid}
Lock(s, body) == [by |-> s, pid |-> pid[s], written |-> body]
LockType == {Absent} \cup [by : Sessions, pid : Nat, written : BOOLEAN]

\* The file has a body that the schema accepts
Readable == lock.written
Names(s) == Readable /\ lock.by = s
\* The file that s created and still has open is the one in the directory
Mine(s) == lock = Lock(s, FALSE)
\* Mutant of HolderRuns: the PID in the file is not probed
HolderTrusted == TRUE
\* isProcessRunning of the PID in the file
HolderRuns == alive[lock.by] /\ lock.pid = pid[lock.by]

PCs == {"idle", "create", "write", "read", "rewrite", "unlink", "recreate"}

Init ==
    /\ lock = Absent
    /\ pid = [s \in Sessions |-> 0]
    /\ alive = [s \in Sessions |-> TRUE]
    /\ stopped = [s \in Sessions |-> FALSE]
    /\ isOwner = [s \in Sessions |-> FALSE]
    /\ pc = [s \in Sessions |-> "idle"]
    /\ releasing = [s \in Sessions |-> "no"]
    /\ recovered = FALSE /\ crashes = 0 /\ stops = 0

-----------------------------------------------------------------------------
Goto(s, label) == pc' = [pc EXCEPT ![s] = label]
At(s, label) == alive[s] /\ pc[s] = label
Same == UNCHANGED <<pid, alive, stopped, recovered, crashes, stops>>

\* tryAcquireSchedulerLock returned true: become the owner, or give the lock
\* back when stop() came first
Acquired(s) ==
    /\ Goto(s, "idle")
    /\ IF stopped[s]
       THEN releasing' = [releasing EXCEPT ![s] = "read"] /\ UNCHANGED isOwner
       ELSE isOwner' = [isOwner EXCEPT ![s] = TRUE] /\ UNCHANGED releasing
Going(s, label) == Goto(s, label) /\ UNCHANGED <<isOwner, releasing>>

\* enable(), or the probe of a session that does not own the lock
Try(s) ==
    /\ At(s, "idle") /\ ~stopped[s] /\ ~isOwner[s]
    /\ Going(s, "create")
    /\ UNCHANGED lock /\ Same

\* Mutant of Create: the create is not exclusive
CreateOver(s) ==
    /\ At(s, "create")
    /\ lock' = Lock(s, FALSE) /\ Going(s, "write")
    /\ Same

\* tryCreateExclusive: the file is made, or there is one
Create(s) ==
    /\ At(s, "create")
    /\ \/ lock = Absent /\ lock' = Lock(s, FALSE) /\ Going(s, "write")
       \/ lock # Absent /\ Going(s, "read") /\ UNCHANGED lock
    /\ Same

\* The body arrives, in a file that may have been unlinked by then
Write(s) ==
    /\ At(s, "write")
    /\ lock' = IF Mine(s) THEN Lock(s, TRUE) ELSE lock
    /\ Acquired(s)
    /\ Same

\* readLock and what follows from it
Read(s) ==
    /\ At(s, "read")
    /\ \/ /\ Names(s) /\ lock.pid = pid[s]
          /\ Acquired(s)
       \/ /\ Names(s) /\ lock.pid # pid[s]
          /\ Going(s, "rewrite")
       \/ /\ Readable /\ lock.by # s /\ HolderRuns
          /\ Going(s, "idle")
       \/ /\ ~(Readable /\ (lock.by = s \/ HolderRuns))
          /\ Going(s, "unlink")
    /\ UNCHANGED lock /\ Same

\* A resumed session puts its new PID into the file, whatever it is by now
Rewrite(s) ==
    /\ At(s, "rewrite")
    /\ lock' = Lock(s, FALSE)
    /\ Going(s, "write")
    /\ Same

\* The stale file is removed, whatever it is by now
Unlink(s) ==
    /\ At(s, "unlink")
    /\ lock' = Absent /\ recovered' = TRUE
    /\ Going(s, "recreate")
    /\ UNCHANGED <<pid, alive, stopped, crashes, stops>>

\* The exclusive create once more
Recreate(s) ==
    /\ At(s, "recreate")
    /\ \/ lock = Absent /\ lock' = Lock(s, FALSE) /\ Going(s, "write")
       \/ lock # Absent /\ Going(s, "idle") /\ UNCHANGED lock
    /\ Same

\* Mutant of Stop: the owner keeps the lock
StopKeepsLock(s) ==
    /\ alive[s] /\ ~stopped[s] /\ stops < MaxStops
    /\ stopped' = [stopped EXCEPT ![s] = TRUE] /\ stops' = stops + 1
    /\ isOwner' = [isOwner EXCEPT ![s] = FALSE]
    /\ UNCHANGED <<lock, pid, alive, pc, releasing, recovered, crashes>>

\* stop(): the owner releases the lock; an attempt under way goes on
Stop(s) ==
    /\ alive[s] /\ ~stopped[s] /\ stops < MaxStops
    /\ stopped' = [stopped EXCEPT ![s] = TRUE] /\ stops' = stops + 1
    /\ isOwner' = [isOwner EXCEPT ![s] = FALSE]
    /\ releasing' = [releasing EXCEPT ![s] = IF isOwner[s] THEN "read" ELSE @]
    /\ UNCHANGED <<lock, pid, alive, pc, recovered, crashes>>

\* releaseSchedulerLock reads the file and keeps its hands off another's
ReleaseRead(s) ==
    /\ alive[s] /\ releasing[s] = "read"
    /\ releasing' = [releasing EXCEPT ![s] = IF Names(s) THEN "unlink" ELSE "no"]
    /\ UNCHANGED <<lock, isOwner, pc>> /\ Same

ReleaseUnlink(s) ==
    /\ alive[s] /\ releasing[s] = "unlink"
    /\ lock' = Absent
    /\ releasing' = [releasing EXCEPT ![s] = "no"]
    /\ UNCHANGED <<isOwner, pc>> /\ Same

\* The process is killed: the file stays as it is
Crash(s) ==
    /\ alive[s] /\ crashes < MaxCrashes /\ crashes' = crashes + 1
    /\ alive' = [alive EXCEPT ![s] = FALSE]
    /\ isOwner' = [isOwner EXCEPT ![s] = FALSE]
    /\ pc' = [pc EXCEPT ![s] = "idle"]
    /\ releasing' = [releasing EXCEPT ![s] = "no"]
    /\ UNCHANGED <<lock, pid, stopped, recovered, stops>>

\* --resume: the session goes on in a new process
Resume(s) ==
    /\ ~alive[s]
    /\ alive' = [alive EXCEPT ![s] = TRUE]
    /\ pid' = [pid EXCEPT ![s] = @ + 1]
    /\ stopped' = [stopped EXCEPT ![s] = FALSE]
    /\ UNCHANGED <<lock, isOwner, pc, releasing, recovered, crashes, stops>>

Attempt(s) ==
    \/ Try(s) \/ Create(s) \/ Write(s) \/ Read(s) \/ Rewrite(s)
    \/ Unlink(s) \/ Recreate(s)
Release(s) == ReleaseRead(s) \/ ReleaseUnlink(s)

Next ==
    \E s \in Sessions :
        Attempt(s) \/ Release(s) \/ Stop(s) \/ Crash(s) \/ Resume(s)

Spec == Init /\ [][Next]_vars

\* The interval timer probes and the calls of the file system return
FairSpec ==
    Spec /\ \A s \in Sessions : WF_vars(Attempt(s)) /\ WF_vars(Release(s))

-----------------------------------------------------------------------------
(* Properties                                                              *)

\* The variables stay in their ranges.  A session that owns the lock runs, was
\* not stopped and is not acquiring it; one that releases it was stopped, even
\* when stop() came while its attempt was under way (cronScheduler.ts:410-416).
TypeOK ==
    /\ lock \in LockType
    /\ pid \in [Sessions -> Nat]
    /\ alive \in [Sessions -> BOOLEAN] /\ stopped \in [Sessions -> BOOLEAN]
    /\ isOwner \in [Sessions -> BOOLEAN]
    /\ pc \in [Sessions -> PCs]
    /\ releasing \in [Sessions -> {"no", "read", "unlink"}]
    /\ recovered \in BOOLEAN /\ crashes \in 0..MaxCrashes /\ stops \in 0..MaxStops
    /\ \A s \in Sessions :
        /\ isOwner[s] => alive[s] /\ ~stopped[s] /\ pc[s] = "idle"
        /\ pc[s] # "idle" => alive[s]
        /\ releasing[s] # "no" => alive[s] /\ stopped[s] /\ pc[s] = "idle"

Owners == {s \in Sessions : isOwner[s]}

\* The exclusive create alone keeps owners apart: until some session removes a
\* file it takes for stale, there is one owner at most and the file is its
\* own.  (cronTasksLock.ts:104-107)
OneOwnerBeforeRecovery ==
    ~recovered => \A s \in Owners : Names(s) /\ lock.pid = pid[s]

\* A lock that names a running process is not abandoned: its scheduler runs or
\* is about to release it.  Otherwise every session would wait for a session
\* that does not schedule.
NoAbandonedLock ==
    Readable /\ HolderRuns => isOwner[lock.by] \/ releasing[lock.by] # "no"

\* While some session wants to schedule, one does in the end, whoever dies:
\* "If the owner dies (PID no longer running), a passive session takes over"
\* (cronTasksLock.ts:6).
Wants(s) == alive[s] /\ ~stopped[s]
SomebodySchedules ==
    (\E s \in Sessions : Wants(s)) ~> (Owners # {} \/ \A s \in Sessions : ~Wants(s))

\* "Only one should drive the cron scheduler" (cronTasksLock.ts:3-4), and "If
\* two sessions race to recover a stale lock, only one create succeeds" (109).
OneOwner == Cardinality(Owners) <= 1
=============================================================================
