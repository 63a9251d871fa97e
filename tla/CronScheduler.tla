---------------------------- MODULE CronScheduler ----------------------------
(***************************************************************************)
(* The cron scheduler of the CLI sessions of one project: the file         *)
(* .claude/scheduled_tasks.json that tools and schedulers read and rewrite *)
(* (utils/cronTasks.ts), and in every session the copy of it, the schedule *)
(* and the once-a-second check (utils/cronScheduler.ts).                   *)
(*                                                                         *)
(* Time counts fire times: whatever its cron expression, a task whose last *)
(* run (or creation) was at time n is due at n + 1.  A rewrite of the file *)
(* is two steps, since the code awaits the read before it writes.  Of the  *)
(* scheduler lock this module assumes what it is for, one owner at a time; *)
(* SchedulerLock says when that holds.                                     *)
(***************************************************************************)
EXTENDS Naturals, FiniteSets, Functions

CONSTANTS
    Sessions,   \* the sessions of the project; one that starts again is another one
    Recurring,  \* the recurring tasks
    OneShots,   \* the tasks that run once
    Created,    \* the tasks that are not in the file at first
    MaxTime,    \* how many fire times pass
    MaxAge,     \* recurringMaxAgeMs; 0 for no limit
    MaxChanges, \* how many tasks the user adds or deletes
    MaxExits    \* how many sessions end, or are killed

Tasks == Recurring \cup OneShots
Times == 0..MaxTime

ASSUME TasksAssumption == Recurring \cap OneShots = {} /\ Created \subseteq Tasks
ASSUME BoundsAssumption ==
    /\ MaxTime \in Nat /\ MaxAge \in Nat /\ MaxChanges \in Nat /\ MaxExits \in Nat

VARIABLES
    now,
    created,    \* createdAt of a task
    file,       \* the tasks on disk, with lastFiredAt ?? createdAt
    rewrites,   \* the rewrites of the file under way
    running,    \* the scheduler of a session: "off", "loading", "on" or "ended"
    owner,      \* the sessions that own the scheduler lock
    tasks,      \* the copy of the file a session has loaded
    unseen,     \* the file changed since, and the watcher has not told yet
    nextFireAt, inFlight, missedAsked,
    fired,      \* how often a task fired at a time, up to Often
    surfaced,   \* the tasks that were presented as missed
    deleted,    \* the tasks the user deleted
    harm        \* of "cut": a session ended while it had a rewrite under way,
                \* "overlap": a rewrite was written over one it had not read,
                \* "handover": the lock went to a session with an old copy

diskVars == <<created, file, rewrites>>
sessionVars == <<running, owner, tasks, unseen, nextFireAt, inFlight, missedAsked>>
logVars == <<fired, surfaced, deleted>>
vars == <<now, diskVars, sessionVars, logVars, harm>>

Often == 2
Never == MaxTime + 1
NoTasks == [t \in {} |-> 0]
Files == UNION {[S -> Times] : S \in SUBSET Tasks}

\* A rewrite of the file for session s, before and after its read
Rewrite(s, kind, ids, at) ==
    [by |-> s, kind |-> kind, ids |-> ids, at |-> at, read |-> FALSE, content |-> NoTasks]
Has(t) == t \in DOMAIN file
Up(s) == running[s] \in {"loading", "on"}

Init ==
    /\ now = 0
    /\ created = [t \in Tasks |-> IF t \in Created THEN Never ELSE 0]
    /\ file = [t \in Tasks \ Created |-> 0]
    /\ rewrites = {}
    /\ running = [s \in Sessions |-> "off"]
    /\ owner = {}
    /\ tasks = [s \in Sessions |-> NoTasks]
    /\ unseen = {}
    /\ nextFireAt = [s \in Sessions |-> NoTasks]
    /\ inFlight = [s \in Sessions |-> {}]
    /\ missedAsked = [s \in Sessions |-> {}]
    /\ fired = [t \in Tasks |-> [n \in Times |-> 0]]
    /\ surfaced = {} /\ deleted = {}
    /\ harm = {}

Tick ==
    /\ now < MaxTime /\ now' = now + 1
    /\ UNCHANGED <<diskVars, sessionVars, logVars, harm>>

-----------------------------------------------------------------------------
(* The file                                                                *)

Changes == Cardinality(deleted) + Cardinality({t \in Created : created[t] # Never})

\* addCronTask with durable, while its first fire time is within the bound
AddCronTask(t) ==
    /\ t \in Created /\ created[t] = Never /\ Changes < MaxChanges /\ now < MaxTime
    /\ created' = [created EXCEPT ![t] = now]
    /\ \E s \in Sessions :
        /\ Up(s)
        /\ rewrites' = rewrites \cup {Rewrite(s, "add", {t}, now)}
    /\ UNCHANGED <<now, file, sessionVars, logVars, harm>>

\* CronDelete
DeleteCronTask(t) ==
    /\ Changes < MaxChanges /\ t \notin deleted /\ Has(t)
    /\ deleted' = deleted \cup {t}
    /\ \E s \in Sessions :
        /\ Up(s)
        /\ rewrites' = rewrites \cup {Rewrite(s, "delete", {t}, 0)}
    /\ UNCHANGED <<now, created, file, sessionVars, fired, surfaced, harm>>

\* readCronTasks returns
ReadCronTasks(w) ==
    /\ ~w.read
    /\ rewrites' = (rewrites \ {w}) \cup {[w EXCEPT !.read = TRUE, !.content = file]}
    /\ UNCHANGED <<now, created, file, sessionVars, logVars, harm>>

\* What addCronTask, markCronTasksFired or removeCronTasks makes of the file
Edited(w) ==
    CASE w.kind = "add"  -> [t \in DOMAIN w.content \cup w.ids |->
                                IF t \in w.ids THEN w.at ELSE w.content[t]]
      [] w.kind = "mark" -> [t \in DOMAIN w.content |->
                                IF t \in w.ids THEN w.at ELSE w.content[t]]
      [] OTHER           -> Restrict(w.content, DOMAIN w.content \ w.ids)

\* They return early when no task of the file matches
WritesBack(w) == w.kind = "add" \/ w.ids \cap DOMAIN w.content # {}

\* writeCronTasks returns, unless there was nothing to write, and the `finally`
\* of the check that asked for it ends the flight of the tasks
WriteCronTasks(w) ==
    /\ w.read
    /\ rewrites' = rewrites \ {w}
    /\ IF WritesBack(w)
       THEN /\ file' = Edited(w)
            /\ unseen' = unseen \cup {s \in Sessions : Up(s)}
            /\ harm' = harm \cup (IF file = w.content THEN {} ELSE {"overlap"})
       ELSE UNCHANGED <<file, unseen, harm>>
    /\ inFlight' = IF w.kind \in {"mark", "remove"}
                   THEN [inFlight EXCEPT ![w.by] = @ \ w.ids] ELSE inFlight
    /\ UNCHANGED <<now, created, running, owner, tasks, nextFireAt, missedAsked,
                   logVars>>

-----------------------------------------------------------------------------
(* The scheduler of a session                                              *)

\* start() and enable(): try the lock, load the file, watch it
Start(s) ==
    /\ running[s] = "off"
    /\ running' = [running EXCEPT ![s] = "loading"]
    /\ owner' = IF owner = {} THEN {s} ELSE owner
    /\ UNCHANGED <<now, diskVars, tasks, unseen, nextFireAt, inFlight, missedAsked,
                   logVars, harm>>

\* The probe of a passive session finds the lock free
TakeOver(s) ==
    /\ Up(s) /\ owner = {}
    /\ owner' = {s}
    /\ harm' = harm \cup
        (IF tasks[s] # NoTasks /\ s \in unseen THEN {"handover"} ELSE {})
    /\ UNCHANGED <<now, diskVars, running, tasks, unseen, nextFireAt, inFlight,
                   missedAsked, logVars>>

\* findMissedTasks: the run after the creation is in the past
Missed(s) == {t \in DOMAIN file \cap OneShots :
                created[t] + 1 <= now /\ t \notin missedAsked[s]}

\* load(true): surface one-shot tasks whose time has passed, and remove them
InitialLoad(s) ==
    LET missed == Missed(s) IN
    /\ running[s] = "loading"
    /\ running' = [running EXCEPT ![s] = "on"]
    /\ tasks' = [tasks EXCEPT ![s] = file]
    /\ unseen' = unseen \ {s}
    /\ missedAsked' = [missedAsked EXCEPT ![s] = @ \cup missed]
    /\ nextFireAt' = [nextFireAt EXCEPT ![s] =
        [t \in DOMAIN @ \cup missed |-> IF t \in missed THEN Never ELSE @[t]]]
    /\ surfaced' = surfaced \cup missed
    /\ rewrites' = IF missed = {} THEN rewrites
                   ELSE rewrites \cup {Rewrite(s, "missed", missed, 0)}
    /\ UNCHANGED <<now, created, file, owner, inFlight, fired, deleted, harm>>

\* load(false): the watcher reports a change of the file
Reload(s) ==
    /\ Up(s) /\ s \in unseen
    /\ unseen' = unseen \ {s}
    /\ tasks' = [tasks EXCEPT ![s] = file]
    /\ UNCHANGED <<now, diskVars, running, owner, nextFireAt, inFlight, missedAsked,
                   logVars, harm>>

\* Mutants of FirstSight: anchor from the creation, anchor from now
FirstSightFromCreation(s, t) == created[t] + 1
FirstSightNow(s, t) == now + 1
\* When check() first sees a task, it is due after its last run or creation
FirstSight(s, t) == tasks[s][t] + 1
NextOf(s, t) ==
    IF t \in DOMAIN nextFireAt[s] THEN nextFireAt[s][t] ELSE FirstSight(s, t)

\* A recurring task is rescheduled from now
Rescheduled == now + 1

ExpiredAt(t, n) == MaxAge > 0 /\ n >= created[t] + MaxAge
Aged(t) == ExpiredAt(t, now)

\* check() of the owner, while the session is idle (or in assistant mode)
Check(s) ==
    LET seen  == DOMAIN tasks[s]
        idle  == seen \ inFlight[s]
        due   == {t \in idle : now >= NextOf(s, t)}
        again == {t \in due \cap Recurring : ~Aged(t)}
        gone  == due \ again
    IN
    /\ Up(s) /\ s \in owner
    /\ fired' = [t \in Tasks |-> IF t \in due /\ fired[t][now] < Often
                                 THEN [fired[t] EXCEPT ![now] = @ + 1] ELSE fired[t]]
    /\ nextFireAt' = [nextFireAt EXCEPT ![s] =
        [t \in (idle \ gone) \cup (seen \cap inFlight[s] \cap DOMAIN @) |->
            IF t \in again THEN Rescheduled
            ELSE IF t \in idle THEN NextOf(s, t) ELSE @[t]]]
    /\ inFlight' = [inFlight EXCEPT ![s] = @ \cup due]
    /\ rewrites' = rewrites
            \cup {Rewrite(s, "remove", {t}, 0) : t \in gone}
            \cup (IF again = {} THEN {} ELSE {Rewrite(s, "mark", again, now)})
    /\ UNCHANGED <<now, created, file, running, owner, tasks, unseen, missedAsked,
                   surfaced, deleted, harm>>

\* check() of another session looks at no task of the file and forgets theirs
PassiveCheck(s) ==
    /\ Up(s) /\ s \notin owner
    /\ nextFireAt[s] # NoTasks
    /\ nextFireAt' = [nextFireAt EXCEPT ![s] = NoTasks]
    /\ UNCHANGED <<now, diskVars, running, owner, tasks, unseen, inFlight,
                   missedAsked, logVars, harm>>

\* The process ends: what it had not written yet is not written any more.
\* (The lock is released, or recovered by another session's probe.)
Exit(s) ==
    /\ Up(s) /\ Cardinality({u \in Sessions : running[u] = "ended"}) < MaxExits
    /\ running' = [running EXCEPT ![s] = "ended"]
    /\ owner' = owner \ {s}
    /\ tasks' = [tasks EXCEPT ![s] = NoTasks]
    /\ unseen' = unseen \ {s}
    /\ nextFireAt' = [nextFireAt EXCEPT ![s] = NoTasks]
    /\ inFlight' = [inFlight EXCEPT ![s] = {}]
    /\ missedAsked' = [missedAsked EXCEPT ![s] = {}]
    /\ rewrites' = {w \in rewrites : w.by # s}
    /\ harm' = harm \cup (IF \E w \in rewrites : w.by = s THEN {"cut"} ELSE {})
    /\ UNCHANGED <<now, created, file, logVars>>

Session(s) ==
    \/ Start(s) \/ TakeOver(s) \/ InitialLoad(s) \/ Reload(s)
    \/ Check(s) \/ PassiveCheck(s) \/ Exit(s)

\* A rewrite that undoes another one releases the properties; what follows it
\* is outside the bounds
Next ==
  /\ "overlap" \notin harm
  /\ \/ Tick
     \/ \E t \in Tasks : AddCronTask(t) \/ DeleteCronTask(t)
     \/ \E w \in rewrites : ReadCronTasks(w) \/ WriteCronTasks(w)
     \/ \E s \in Sessions : Session(s)

Spec == Init /\ [][Next]_vars

\* Time passes and rewrites end; the watcher of a session reports, and it
\* loads the file and its timers have their turn, the check when it is idle
FairSpec ==
    /\ Spec
    /\ WF_vars(Tick) /\ WF_vars(\E w \in rewrites : ReadCronTasks(w) \/ WriteCronTasks(w))
    /\ \A s \in Sessions :
        WF_vars(Reload(s)) /\ WF_vars(TakeOver(s) \/ InitialLoad(s) \/ Check(s))

-----------------------------------------------------------------------------
(* Properties                                                              *)

Schedules == UNION {[S -> 0..Never] : S \in SUBSET Tasks}
Rewrites == [by : Sessions, kind : {"add", "delete", "mark", "remove", "missed"},
             ids : SUBSET Tasks, at : Times, read : BOOLEAN, content : Files]

DiskTypes ==
    /\ now \in Times /\ created \in [Tasks -> 0..Never] /\ file \in Files
    /\ rewrites \subseteq Rewrites
SessionTypes ==
    /\ running \in [Sessions -> {"off", "loading", "on", "ended"}]
    /\ owner = {} \/ \E s \in Sessions : owner = {s}
    /\ tasks \in [Sessions -> Files] /\ nextFireAt \in [Sessions -> Schedules]
    /\ unseen \subseteq Sessions /\ inFlight \in [Sessions -> SUBSET Tasks]
    /\ missedAsked \in [Sessions -> SUBSET OneShots]
LogTypes ==
    /\ fired \in [Tasks -> [Times -> 0..Often]]
    /\ surfaced \subseteq OneShots /\ deleted \subseteq Tasks
    /\ harm \subseteq {"cut", "overlap", "handover"}
OnlyUp == \A s \in owner \cup unseen \cup {w.by : w \in rewrites} : Up(s)

\* The variables stay in their ranges; one session at most owns the lock, and
\* one that is not up owns nothing, watches nothing and rewrites nothing.
TypeOK == DiskTypes /\ SessionTypes /\ LogTypes /\ OnlyUp

\* A recurring task fires once per fire time, through reloads, other rewrites
\* of the file and restarts of the session: "on next process spawn first-sight
\* computes the SAME newNext we set in-memory" (cronScheduler.ts:259-261).
\* Only a session that ends before lastFiredAt is written, a rewrite that undoes
\* another one and an owner with an old copy may repeat a run.  (The last run
\* of an expired task is that of a one-shot task.)
RecurringOnce ==
    harm = {} =>
        \A t \in Recurring, n \in Times : ExpiredAt(t, n) \/ fired[t][n] <= 1

Released == "overlap" \in harm \/ \A s \in Sessions : ~Up(s)
Runs(t) == {n \in Times : fired[t][n] > 0}

\* While a session runs, a one-shot task in the file is fired or surfaced in
\* the end, and a recurring one keeps firing until it is deleted or, once it
\* has expired, out of the file: no reload, restart or flight of a rewrite
\* makes it forgotten.
NothingForgotten ==
    /\ \A t \in OneShots :
        Has(t) ~> (Runs(t) # {} \/ t \in surfaced \cup deleted \/ Released)
    /\ \A t \in Recurring :
        Has(t) ~> (MaxTime \in Runs(t) \/ t \in deleted \/ (Aged(t) /\ ~Has(t)) \/ Released)

\* inFlight "Prevents double-fire if the interval ticks again before
\* removeCronTasks lands" and "guards against double-fire during the async
\* removeCronTasks + chokidar reload" (cronScheduler.ts:168-169, 333-334): a
\* task that runs once fires once, as long as its removal is not undone.
OneShotFiresOnce ==
    harm = {} => \A t \in OneShots :
        Cardinality(Runs(t)) <= 1 /\ \A n \in Times : fired[t][n] <= 1
=============================================================================
