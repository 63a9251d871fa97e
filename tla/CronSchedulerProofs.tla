------------------------- MODULE CronSchedulerProofs -------------------------
(***************************************************************************)
(* CronScheduler for any number of sessions and tasks: its types, and that *)
(* a recurring task fires once per fire time.                              *)
(*                                                                         *)
(* OnlyUp is part of the types' invariant, and not only of what it says:   *)
(* the step that ends a session keeps the types because the session leaves *)
(* nothing behind that names it.                                           *)
(*                                                                         *)
(* That a task fires once rests on where its last run is kept.  The owner  *)
(* has it in its schedule; when that knows nothing of the task, in its     *)
(* copy of the file; and the file has it, or a mark under way is about to  *)
(* write it (Scheduled).  A session that takes the lock over has no        *)
(* schedule, so what it goes by is the file, and there are no marks then.  *)
(***************************************************************************)
EXTENDS CronScheduler, TLAPS

-----------------------------------------------------------------------------
(* Files and schedules: functions on some of the tasks *)

LEMMA FilesOf ==
    ASSUME NEW S \in SUBSET Tasks, NEW f \in [S -> Times]
    PROVE  f \in Files
BY DEF Files

LEMMA FilesIn ==
    ASSUME NEW f \in Files
    PROVE  /\ DOMAIN f \subseteq Tasks
           /\ f \in [DOMAIN f -> Times]
BY DEF Files

LEMMA SchedulesOf ==
    ASSUME NEW S \in SUBSET Tasks, NEW f \in [S -> 0..Never]
    PROVE  f \in Schedules
BY DEF Schedules

LEMMA SchedulesIn ==
    ASSUME NEW f \in Schedules
    PROVE  /\ DOMAIN f \subseteq Tasks
           /\ f \in [DOMAIN f -> 0..Never]
BY DEF Schedules

LEMMA NothingIsAFile == NoTasks \in Files /\ NoTasks \in Schedules
<1>1. {} \in SUBSET Tasks /\ NoTasks \in [{} -> Times] /\ NoTasks \in [{} -> 0..Never]
  BY DEF NoTasks
<1> QED
  BY <1>1, FilesOf, SchedulesOf

LEMMA TimesInRange ==
    /\ \A n \in Times : n \in 0..Never /\ n + 1 \in 0..Never
    /\ 0 \in Times /\ Never \in 0..Never /\ Never \in Nat
BY BoundsAssumption DEF Times, Never

\* A rewrite that was just asked for
LEMMA NewRewrite ==
    ASSUME NEW s \in Sessions, NEW kind \in {"add", "delete", "mark", "remove", "missed"},
           NEW ids \in SUBSET Tasks, NEW at \in Times
    PROVE  Rewrite(s, kind, ids, at) \in Rewrites /\ Rewrite(s, kind, ids, at).by = s
BY NothingIsAFile DEF Rewrite, Rewrites

\* What a rewrite makes of the file is a file
LEMMA EditedIsAFile ==
    ASSUME NEW w \in Rewrites
    PROVE  Edited(w) \in Files
<1>1. /\ w.content \in Files /\ w.ids \subseteq Tasks /\ w.at \in Times
      /\ w.kind \in {"add", "delete", "mark", "remove", "missed"}
  BY DEF Rewrites
<1>2. DOMAIN w.content \subseteq Tasks /\ w.content \in [DOMAIN w.content -> Times]
  BY <1>1, FilesIn
<1>3. CASE w.kind = "add"
  <2>1. Edited(w) \in [DOMAIN w.content \cup w.ids -> Times]
    BY <1>1, <1>2, <1>3 DEF Edited
  <2> QED
    BY <1>1, <1>2, <2>1, FilesOf
<1>4. CASE w.kind = "mark"
  <2>1. Edited(w) \in [DOMAIN w.content -> Times]
    BY <1>1, <1>2, <1>4 DEF Edited
  <2> QED
    BY <1>2, <2>1, FilesOf
<1>5. CASE w.kind \notin {"add", "mark"}
  <2>1. Edited(w) \in [DOMAIN w.content \ w.ids -> Times]
    BY <1>1, <1>2, <1>5 DEF Edited, Restrict
  <2> QED
    BY <1>2, <2>1, FilesOf
<1> QED
  BY <1>3, <1>4, <1>5

-----------------------------------------------------------------------------
(* The steps *)

LEMMA TypesInit ==
    ASSUME Init
    PROVE  TypeOK
<1>1. DiskTypes
  <2>1. created \in [Tasks -> 0..Never]
    BY TimesInRange DEF Init
  <2>2. file \in Files
    <3>1. file \in [Tasks \ Created -> Times]
      BY TimesInRange DEF Init
    <3> QED
      BY <3>1, FilesOf
  <2> QED
    BY <2>1, <2>2, TimesInRange DEF Init, DiskTypes
<1>2. SessionTypes
  BY NothingIsAFile DEF Init, SessionTypes
<1>3. LogTypes
  BY DEF Init, LogTypes, Often
<1>4. OnlyUp
  BY DEF Init, OnlyUp
<1> QED
  BY <1>1, <1>2, <1>3, <1>4 DEF TypeOK

\* What an asked rewrite, or the removal of one, leaves of OnlyUp
LEMMA StillUp ==
    ASSUME OnlyUp, running' = running,
           \A s \in owner' \cup unseen' : s \in owner \cup unseen \/ Up(s),
           \A w \in rewrites' : (\E v \in rewrites : v.by = w.by) \/ Up(w.by)
    PROVE  OnlyUp'
BY DEF OnlyUp, Up

LEMMA FileSteps ==
    ASSUME TypeOK,
           NEW t \in Tasks, AddCronTask(t) \/ DeleteCronTask(t)
    PROVE  TypeOK'
<1>1. CASE AddCronTask(t)
  <2>1. PICK s \in Sessions : Up(s) /\ rewrites' = rewrites \cup {Rewrite(s, "add", {t}, now)}
    BY <1>1 DEF AddCronTask
  <2>2. /\ UNCHANGED <<now, file, sessionVars, logVars, harm>>
        /\ created' = [created EXCEPT ![t] = now]
    BY <1>1 DEF AddCronTask
  <2>3. now \in Times /\ created \in [Tasks -> 0..Never] /\ rewrites \subseteq Rewrites
    BY DEF TypeOK, DiskTypes
  <2>4. Rewrite(s, "add", {t}, now) \in Rewrites /\ Rewrite(s, "add", {t}, now).by = s
    BY <2>3, NewRewrite
  <2>5. DiskTypes'
    BY <2>1, <2>2, <2>3, <2>4, TimesInRange DEF TypeOK, DiskTypes
  <2>6. OnlyUp'
    BY <2>1, <2>2, <2>4, StillUp DEF TypeOK, sessionVars
  <2> QED
    BY <2>2, <2>5, <2>6 DEF TypeOK, SessionTypes, LogTypes, sessionVars, logVars
<1>2. CASE DeleteCronTask(t)
  <2>1. PICK s \in Sessions : Up(s) /\ rewrites' = rewrites \cup {Rewrite(s, "delete", {t}, 0)}
    BY <1>2 DEF DeleteCronTask
  <2>2. /\ UNCHANGED <<now, created, file, sessionVars, fired, surfaced, harm>>
        /\ deleted' = deleted \cup {t}
    BY <1>2 DEF DeleteCronTask
  <2>3. rewrites \subseteq Rewrites
    BY DEF TypeOK, DiskTypes
  <2>4. Rewrite(s, "delete", {t}, 0) \in Rewrites /\ Rewrite(s, "delete", {t}, 0).by = s
    BY NewRewrite, TimesInRange
  <2>5. DiskTypes'
    BY <2>1, <2>2, <2>3, <2>4 DEF TypeOK, DiskTypes
  <2>6. OnlyUp'
    BY <2>1, <2>2, <2>4, StillUp DEF TypeOK, sessionVars
  <2> QED
    BY <2>2, <2>5, <2>6 DEF TypeOK, SessionTypes, LogTypes, sessionVars
<1> QED
  BY <1>1, <1>2

LEMMA RewriteSteps ==
    ASSUME TypeOK,
           NEW w \in rewrites, ReadCronTasks(w) \/ WriteCronTasks(w)
    PROVE  TypeOK'
<1>1. w \in Rewrites /\ file \in Files /\ rewrites \subseteq Rewrites
  BY DEF TypeOK, DiskTypes
<1>2. CASE ReadCronTasks(w)
  <2>1. UNCHANGED <<now, created, file, sessionVars, logVars, harm>>
    BY <1>2 DEF ReadCronTasks
  <2> DEFINE v == [w EXCEPT !.read = TRUE, !.content = file]
  <2>2. v \in Rewrites /\ v.by = w.by
    BY <1>1 DEF Rewrites
  <2>3. rewrites' = (rewrites \ {w}) \cup {v}
    BY <1>2 DEF ReadCronTasks
  <2>4. DiskTypes'
    BY <1>1, <2>1, <2>2, <2>3 DEF TypeOK, DiskTypes
  <2>5. OnlyUp'
    BY <2>1, <2>2, <2>3, StillUp DEF TypeOK, sessionVars
  <2> QED
    BY <2>1, <2>4, <2>5 DEF TypeOK, SessionTypes, LogTypes, sessionVars, logVars
<1>3. CASE WriteCronTasks(w)
  <2>1. /\ UNCHANGED <<now, created, running, owner, tasks, nextFireAt, missedAsked, logVars>>
        /\ rewrites' = rewrites \ {w}
    BY <1>3 DEF WriteCronTasks
  <2>2. file' \in Files
    BY <1>1, <1>3, EditedIsAFile DEF WriteCronTasks
  <2>3. unseen' \subseteq unseen \cup {s \in Sessions : Up(s)}
    BY <1>3 DEF WriteCronTasks
  <2>4. harm' \subseteq harm \cup {"overlap"}
    BY <1>3 DEF WriteCronTasks
  <2>5. inFlight' \in [Sessions -> SUBSET Tasks]
    <3>1. inFlight \in [Sessions -> SUBSET Tasks]
      BY DEF TypeOK, SessionTypes
    <3>2. inFlight' \in {inFlight, [inFlight EXCEPT ![w.by] = @ \ w.ids]}
      BY <1>3 DEF WriteCronTasks
    <3> QED
      BY <3>1, <3>2
  <2>6. OnlyUp'
    BY <2>1, <2>3, StillUp DEF TypeOK
  <2>7. DiskTypes'
    BY <2>1, <2>2 DEF TypeOK, DiskTypes
  <2>8. SessionTypes'
    BY <2>1, <2>3, <2>5 DEF TypeOK, SessionTypes
  <2>9. LogTypes'
    BY <2>1, <2>4 DEF TypeOK, LogTypes, logVars
  <2> QED
    BY <2>6, <2>7, <2>8, <2>9 DEF TypeOK
<1> QED
  BY <1>2, <1>3

\* The types of a step that leaves the file and the log alone
LEMMA OnlySessions ==
    ASSUME TypeOK, UNCHANGED <<now, diskVars, logVars>>, SessionTypes', OnlyUp',
           harm' \subseteq {"cut", "overlap", "handover"}
    PROVE  TypeOK'
BY DEF TypeOK, DiskTypes, LogTypes, diskVars, logVars

LEMMA StartTypes ==
    ASSUME TypeOK, NEW s \in Sessions, Start(s)
    PROVE  TypeOK'
<1>1. /\ UNCHANGED <<now, diskVars, tasks, unseen, nextFireAt, inFlight, missedAsked, logVars, harm>>
      /\ running[s] = "off" /\ running' = [running EXCEPT ![s] = "loading"]
      /\ owner' \in {owner, {s}}
  BY DEF Start
<1>2. SessionTypes'
  BY <1>1 DEF TypeOK, SessionTypes
<1>3. running \in [Sessions -> {"off", "loading", "on", "ended"}] /\ rewrites' = rewrites
  BY <1>1 DEF TypeOK, SessionTypes, diskVars
<1>4. OnlyUp'
  <2>1. \A u \in Sessions : Up(u) => Up(u)'
    BY <1>1, <1>3 DEF Up
  <2>2. Up(s)'
    BY <1>1, <1>3 DEF Up
  <2> QED
    BY <1>1, <1>3, <2>1, <2>2 DEF TypeOK, OnlyUp, DiskTypes, SessionTypes, Rewrites
<1> QED
  BY <1>1, <1>2, <1>4, OnlySessions DEF TypeOK, LogTypes

LEMMA TakeOverTypes ==
    ASSUME TypeOK, NEW s \in Sessions, TakeOver(s)
    PROVE  TypeOK'
<1>1. /\ UNCHANGED <<now, diskVars, running, tasks, unseen, nextFireAt, inFlight, missedAsked, logVars>>
      /\ Up(s) /\ owner' = {s} /\ harm' \subseteq harm \cup {"handover"}
  BY DEF TakeOver
<1>2. SessionTypes'
  BY <1>1 DEF TypeOK, SessionTypes
<1>3. OnlyUp'
  BY <1>1, StillUp DEF TypeOK, diskVars
<1> QED
  BY <1>1, <1>2, <1>3, OnlySessions DEF TypeOK, LogTypes

LEMMA InitialLoadTypes ==
    ASSUME TypeOK, NEW s \in Sessions, InitialLoad(s)
    PROVE  TypeOK'
<1> DEFINE missed == Missed(s)
<1>1. missed \in SUBSET OneShots /\ missed \in SUBSET Tasks
  BY DEF Missed, Tasks
<1>2. /\ running[s] = "loading" /\ running' = [running EXCEPT ![s] = "on"]
      /\ tasks' = [tasks EXCEPT ![s] = file] /\ unseen' = unseen \ {s}
      /\ missedAsked' = [missedAsked EXCEPT ![s] = @ \cup missed]
      /\ surfaced' = surfaced \cup missed
      /\ rewrites' \subseteq rewrites \cup {Rewrite(s, "missed", missed, 0)}
      /\ UNCHANGED <<now, created, file, owner, inFlight, fired, deleted, harm>>
  BY DEF InitialLoad
<1>3. Rewrite(s, "missed", missed, 0) \in Rewrites /\ Rewrite(s, "missed", missed, 0).by = s
  BY <1>1, NewRewrite, TimesInRange
<1>4. nextFireAt' \in [Sessions -> Schedules]
  <2>1. nextFireAt \in [Sessions -> Schedules]
    BY DEF TypeOK, SessionTypes
  <2> DEFINE old == nextFireAt[s]
             new == [t \in DOMAIN old \cup missed |-> IF t \in missed THEN Never ELSE old[t]]
  <2>2. DOMAIN old \subseteq Tasks /\ old \in [DOMAIN old -> 0..Never]
    BY <2>1, SchedulesIn
  <2>3. new \in [DOMAIN old \cup missed -> 0..Never]
    BY <2>2, TimesInRange
  <2>4. new \in Schedules
    BY <1>1, <2>2, <2>3, SchedulesOf
  <2>5. nextFireAt' = [nextFireAt EXCEPT ![s] = new]
    BY <2>1 DEF InitialLoad
  <2> QED
    BY <2>1, <2>4, <2>5
<1>5. SessionTypes'
  <2>1. missedAsked' \in [Sessions -> SUBSET OneShots]
    BY <1>1, <1>2 DEF TypeOK, SessionTypes
  <2>2. tasks' \in [Sessions -> Files]
    BY <1>2 DEF TypeOK, SessionTypes, DiskTypes
  <2> QED
    BY <1>2, <1>4, <2>1, <2>2 DEF TypeOK, SessionTypes
<1>6. OnlyUp'
  <2>1. running \in [Sessions -> {"off", "loading", "on", "ended"}]
    BY DEF TypeOK, SessionTypes
  <2>2. Up(s)' /\ \A u \in Sessions : Up(u) => Up(u)'
    BY <1>2, <2>1 DEF Up
  <2>3. /\ \A w \in rewrites : w.by \in Sessions
        /\ owner \subseteq Sessions /\ unseen \subseteq Sessions
    BY DEF TypeOK, DiskTypes, SessionTypes, Rewrites
  <2>4. \A w \in rewrites' : w \in rewrites \/ w.by = s
    BY <1>2, <1>3
  <2> QED
    BY <1>2, <2>2, <2>3, <2>4 DEF TypeOK, OnlyUp
<1>7. DiskTypes'
  BY <1>2, <1>3 DEF TypeOK, DiskTypes
<1>8. LogTypes'
  BY <1>1, <1>2 DEF TypeOK, LogTypes
<1> QED
  BY <1>5, <1>6, <1>7, <1>8 DEF TypeOK

LEMMA ReloadTypes ==
    ASSUME TypeOK, NEW s \in Sessions, Reload(s) \/ PassiveCheck(s)
    PROVE  TypeOK'
<1>1. /\ UNCHANGED <<now, diskVars, running, owner, inFlight, missedAsked, logVars, harm>>
      /\ tasks' \in {tasks, [tasks EXCEPT ![s] = file]} /\ unseen' \subseteq unseen
      /\ nextFireAt' \in {nextFireAt, [nextFireAt EXCEPT ![s] = NoTasks]}
  BY DEF Reload, PassiveCheck
<1>2. SessionTypes'
  <2>1. tasks' \in [Sessions -> Files]
    BY <1>1 DEF TypeOK, SessionTypes, DiskTypes
  <2>2. nextFireAt' \in [Sessions -> Schedules]
    BY <1>1, NothingIsAFile DEF TypeOK, SessionTypes
  <2> QED
    BY <1>1, <2>1, <2>2 DEF TypeOK, SessionTypes
<1>3. OnlyUp'
  BY <1>1, StillUp DEF TypeOK, diskVars
<1> QED
  BY <1>1, <1>2, <1>3, OnlySessions DEF TypeOK, LogTypes

LEMMA CheckTypes ==
    ASSUME TypeOK, NEW s \in Sessions, Check(s)
    PROVE  TypeOK'
<1> DEFINE seen  == DOMAIN tasks[s]
           idle  == seen \ inFlight[s]
           due   == {t \in idle : now >= NextOf(s, t)}
           again == {t \in due \cap Recurring : ~Aged(t)}
           gone  == due \ again
           kept  == (idle \ gone) \cup (seen \cap inFlight[s] \cap DOMAIN nextFireAt[s])
           next  == [t \in kept |-> IF t \in again THEN Rescheduled
                                    ELSE IF t \in idle THEN NextOf(s, t)
                                    ELSE nextFireAt[s][t]]
<1>1. /\ tasks \in [Sessions -> Files] /\ nextFireAt \in [Sessions -> Schedules]
      /\ inFlight \in [Sessions -> SUBSET Tasks] /\ now \in Times
      /\ rewrites \subseteq Rewrites /\ fired \in [Tasks -> [Times -> 0..Often]]
  BY DEF TypeOK, DiskTypes, SessionTypes, LogTypes
<1>2. /\ seen \subseteq Tasks /\ tasks[s] \in [seen -> Times]
      /\ nextFireAt[s] \in [DOMAIN nextFireAt[s] -> 0..Never]
  BY <1>1, FilesIn, SchedulesIn
<1>3. /\ Up(s) /\ UNCHANGED <<now, created, file, running, owner, tasks, unseen, missedAsked,
                              surfaced, deleted, harm>>
      /\ fired' = [t \in Tasks |-> IF t \in due /\ fired[t][now] < Often
                                   THEN [fired[t] EXCEPT ![now] = @ + 1] ELSE fired[t]]
      /\ inFlight' = [inFlight EXCEPT ![s] = @ \cup due]
      /\ rewrites' = rewrites \cup {Rewrite(s, "remove", {t}, 0) : t \in gone}
                    \cup (IF again = {} THEN {} ELSE {Rewrite(s, "mark", again, now)})
  BY DEF Check
<1>4. nextFireAt' = [nextFireAt EXCEPT ![s] = next]
  BY <1>1 DEF Check
<1>5. due \subseteq Tasks /\ again \subseteq Tasks /\ gone \subseteq Tasks /\ kept \subseteq seen
  BY <1>2
<1>6. \A t \in seen : NextOf(s, t) \in 0..Never
  BY <1>2, TimesInRange DEF NextOf, FirstSight
<1>7. next \in [kept -> 0..Never]
  <2>1. Rescheduled \in 0..Never
    BY <1>1, TimesInRange DEF Rescheduled
  <2>2. \A t \in kept : t \in idle \/ t \in DOMAIN nextFireAt[s]
    OBVIOUS
  <2>3. \A t \in DOMAIN nextFireAt[s] : nextFireAt[s][t] \in 0..Never
    BY <1>2
  <2>4. \A t \in kept : next[t] \in 0..Never
    BY <1>6, <2>1, <2>2, <2>3
  <2> QED
    BY <2>4
<1>8. next \in Schedules
  BY <1>2, <1>5, <1>7, SchedulesOf
<1>9. SessionTypes'
  <2>1. inFlight' \in [Sessions -> SUBSET Tasks]
    BY <1>1, <1>3, <1>5
  <2>2. nextFireAt' \in [Sessions -> Schedules]
    BY <1>1, <1>4, <1>8
  <2> QED
    BY <1>3, <2>1, <2>2 DEF TypeOK, SessionTypes
<1>10. /\ \A t \in gone : /\ Rewrite(s, "remove", {t}, 0) \in Rewrites
                          /\ Rewrite(s, "remove", {t}, 0).by = s
       /\ Rewrite(s, "mark", again, now) \in Rewrites /\ Rewrite(s, "mark", again, now).by = s
  <2>1. \A t \in gone : {t} \in SUBSET Tasks
    BY <1>5
  <2> QED
    BY <1>1, <1>5, <2>1, NewRewrite, TimesInRange
<1>11. \A w \in rewrites' : w \in Rewrites /\ (w \in rewrites \/ w.by = s)
  BY <1>1, <1>3, <1>10
<1>12. DiskTypes'
  BY <1>3, <1>11 DEF TypeOK, DiskTypes
<1>13. OnlyUp'
  BY <1>3, <1>11, StillUp DEF TypeOK
<1>14. LogTypes'
  <2>1. ASSUME NEW t \in Tasks PROVE fired'[t] \in [Times -> 0..Often]
    <3>1. fired[t] \in [Times -> 0..Often]
      BY <1>1
    <3>2. CASE t \in due /\ fired[t][now] < Often
      <4>1. fired'[t] = [fired[t] EXCEPT ![now] = fired[t][now] + 1]
        BY <1>3, <3>2
      <4>2. fired[t][now] + 1 \in 0..Often
        BY <1>1, <3>1, <3>2 DEF Often
      <4> QED
        BY <3>1, <4>1, <4>2
    <3>3. CASE ~(t \in due /\ fired[t][now] < Often)
      BY <1>3, <3>1, <3>3
    <3> QED
      BY <3>2, <3>3
  <2>2. fired' \in [Tasks -> [Times -> 0..Often]]
    BY <1>3, <2>1
  <2> QED
    BY <1>3, <2>2 DEF TypeOK, LogTypes
<1> QED
  BY <1>9, <1>12, <1>13, <1>14 DEF TypeOK

LEMMA ExitTypes ==
    ASSUME TypeOK, NEW s \in Sessions, Exit(s)
    PROVE  TypeOK'
<1>1. /\ running' = [running EXCEPT ![s] = "ended"] /\ owner' = owner \ {s}
      /\ tasks' = [tasks EXCEPT ![s] = NoTasks] /\ unseen' = unseen \ {s}
      /\ nextFireAt' = [nextFireAt EXCEPT ![s] = NoTasks]
      /\ inFlight' = [inFlight EXCEPT ![s] = {}]
      /\ missedAsked' = [missedAsked EXCEPT ![s] = {}]
      /\ rewrites' = {w \in rewrites : w.by # s}
      /\ harm' \subseteq harm \cup {"cut"}
      /\ UNCHANGED <<now, created, file, logVars>>
  BY DEF Exit
<1>2. SessionTypes'
  <2>1. owner' = {} \/ \E u \in Sessions : owner' = {u}
    BY <1>1 DEF TypeOK, SessionTypes
  <2>2. tasks' \in [Sessions -> Files] /\ nextFireAt' \in [Sessions -> Schedules]
    BY <1>1, NothingIsAFile DEF TypeOK, SessionTypes
  <2> QED
    BY <1>1, <2>1, <2>2 DEF TypeOK, SessionTypes
<1>3. OnlyUp'
  <2>1. running \in [Sessions -> {"off", "loading", "on", "ended"}]
    BY DEF TypeOK, SessionTypes
  <2>2. \A u \in Sessions : u # s /\ Up(u) => Up(u)'
    BY <1>1, <2>1 DEF Up
  <2>3. /\ \A w \in rewrites : w.by \in Sessions
        /\ owner \subseteq Sessions /\ unseen \subseteq Sessions
    BY DEF TypeOK, DiskTypes, SessionTypes, Rewrites
  <2> QED
    BY <1>1, <2>2, <2>3 DEF TypeOK, OnlyUp
<1>4. DiskTypes'
  BY <1>1 DEF TypeOK, DiskTypes
<1>5. LogTypes'
  BY <1>1 DEF TypeOK, LogTypes, logVars
<1> QED
  BY <1>2, <1>3, <1>4, <1>5 DEF TypeOK

LEMMA TypesStep ==
    ASSUME TypeOK, Next
    PROVE  TypeOK'
<1>1. CASE Tick
  <2>1. now' \in Times /\ UNCHANGED <<diskVars, sessionVars, logVars, harm>>
    BY <1>1, BoundsAssumption DEF Tick, TypeOK, DiskTypes, Times
  <2> QED
    BY <2>1 DEF TypeOK, DiskTypes, SessionTypes, LogTypes, OnlyUp, Up, diskVars, sessionVars, logVars
<1>2. CASE \E t \in Tasks : AddCronTask(t) \/ DeleteCronTask(t)
  BY <1>2, FileSteps
<1>3. CASE \E w \in rewrites : ReadCronTasks(w) \/ WriteCronTasks(w)
  BY <1>3, RewriteSteps
<1>4. CASE \E s \in Sessions : Session(s)
  BY <1>4, StartTypes, TakeOverTypes, InitialLoadTypes, ReloadTypes, CheckTypes, ExitTypes
  DEF Session
<1> QED
  BY <1>1, <1>2, <1>3, <1>4 DEF Next

\* Type correctness, of any number of sessions, recurring and one-shot tasks and
\* for any bounds: one session at most owns the lock, the schedule holds times
\* within the bound for tasks only, only one-shot tasks are surfaced as missed,
\* and a session that has ended owns, watches and rewrites nothing.
THEOREM TypeCorrect == Spec => []TypeOK
<1>1. TypeOK /\ UNCHANGED vars => TypeOK'
  BY DEF TypeOK, DiskTypes, SessionTypes, LogTypes, OnlyUp, Up, vars, diskVars, sessionVars, logVars
<1> QED
  BY <1>1, TypesInit, TypesStep, PTL DEF Spec

-----------------------------------------------------------------------------
(* A recurring task fires once                                             *)

\* Not in the file yet, and nobody has seen it: the tool has not created it, or
\* its rewrite is under way
Unborn(t) == created[t] = Never \/ \E w \in rewrites : w.kind = "add" /\ t \in w.ids

\* The rewrites that are to write the last run of a task
MarksOf(t) == {w \in rewrites : w.kind = "mark" /\ t \in w.ids}

\* One rewrite at most adds a task, and before that nothing knows of it
Arrives(t) ==
    /\ \A v, w \in rewrites :
        v.kind = "add" /\ w.kind = "add" /\ t \in v.ids /\ t \in w.ids => v = w
    /\ created[t] = Never => \A w \in rewrites : w.kind = "add" => t \notin w.ids
    /\ Unborn(t) => /\ ~Has(t) /\ MarksOf(t) = {}
                    /\ \A s \in Sessions : t \notin DOMAIN tasks[s]
                    /\ \A n \in Times : fired[t][n] = 0

\* A copy that the watcher has nothing to tell of is the file
CopiesAreSeen(t) ==
    \A s \in Sessions :
        t \in DOMAIN tasks[s] =>
            Up(s) /\ (s \in unseen \/ (Has(t) /\ tasks[s][t] = file[t]))

\* A mark is the owner's, and the only one; its task is in flight until the mark
\* is written, later than all runs so far, and still scheduled by the owner
MarksCover(t) ==
    /\ \A v, w \in MarksOf(t) : v = w
    /\ \A w \in MarksOf(t) :
        /\ w.by \in owner /\ t \in inFlight[w.by]
        /\ \A n \in Times : fired[t][n] > 0 => n <= w.at
        /\ Has(t) => t \in DOMAIN tasks[w.by] /\ (w.read => t \in DOMAIN w.content)
        /\ t \in DOMAIN tasks[w.by] => t \in DOMAIN nextFireAt[w.by]

\* The file tells the last run, or a mark is about to
RunsAreWritten(t) ==
    Has(t) => \A n \in Times : fired[t][n] > 0 => n <= file[t] \/ MarksOf(t) # {}

\* What the owner goes by, its schedule or else its copy, is past all runs
ScheduleIsPast(t) ==
    \A s \in Sessions :
        /\ t \in DOMAIN nextFireAt[s] =>
            s \in owner /\ \A n \in Times : fired[t][n] > 0 => n < nextFireAt[s][t]
        /\ s \in owner /\ t \in DOMAIN tasks[s] \ (DOMAIN nextFireAt[s] \cup inFlight[s]) =>
            \A n \in Times : fired[t][n] > 0 => n <= tasks[s][t]

\* Only an expired task is removed by its run
RemovedIsAged(t) == \A w \in rewrites : w.kind = "remove" => t \notin w.ids

Scheduled(t) ==
    /\ \A n \in Times : fired[t][n] > 0 => n <= now
    /\ \A n \in Times : ExpiredAt(t, n) \/ fired[t][n] <= 1
    /\ Arrives(t) /\ CopiesAreSeen(t)
    /\ ~Aged(t) => /\ MarksCover(t) /\ RunsAreWritten(t) /\ ScheduleIsPast(t)
                   /\ RemovedIsAged(t)

OnceInv == TypeOK /\ (harm = {} => \A t \in Recurring : Scheduled(t))

LEMMA RecurringTypes ==
    ASSUME NEW t \in Recurring
    PROVE  t \in Tasks /\ t \notin OneShots
BY TasksAssumption DEF Tasks

LEMMA RewriteTypes ==
    ASSUME TypeOK, NEW w \in rewrites
    PROVE  /\ w.by \in Sessions /\ w.ids \subseteq Tasks /\ w.at \in Nat /\ w.read \in BOOLEAN
           /\ w.kind \in {"add", "delete", "mark", "remove", "missed"}
           /\ w.content \in Files
BY BoundsAssumption DEF TypeOK, DiskTypes, Rewrites, Times

\* A task that has expired stays so: its creation does not change any more
LEMMA AgedStays ==
    ASSUME TypeOK, NEW t \in Recurring, ~Aged(t)', now' \in Nat, now <= now',
           created'[t] = created[t] \/ created[t] = Never
    PROVE  ~Aged(t)
<1>1. now \in 0..MaxTime /\ created[t] \in 0..Never
  BY RecurringTypes DEF TypeOK, DiskTypes, Times
<1>2. CASE created[t] = Never
  BY <1>1, <1>2, BoundsAssumption DEF Aged, ExpiredAt, Never
<1>3. CASE created'[t] = created[t]
  BY <1>1, <1>3, BoundsAssumption DEF Aged, ExpiredAt, Never
<1> QED
  BY <1>2, <1>3

LEMMA OnceInit ==
    ASSUME Init, NEW t \in Recurring
    PROVE  Scheduled(t)
<1>1. t \in Tasks
  BY RecurringTypes
<1>2. /\ \A n \in Times : fired[t][n] = 0
      /\ \A s \in Sessions : tasks[s] = NoTasks /\ nextFireAt[s] = NoTasks
      /\ rewrites = {} /\ DOMAIN NoTasks = {}
      /\ DOMAIN file = Tasks \ Created
      /\ created[t] = Never => t \in Created
  BY <1>1, BoundsAssumption DEF Init, NoTasks, Never
<1>3. Arrives(t)
  BY <1>2 DEF Arrives, Unborn, Has, MarksOf
<1>4. CopiesAreSeen(t)
  BY <1>2 DEF CopiesAreSeen
<1>5. MarksCover(t) /\ RemovedIsAged(t)
  BY <1>2 DEF MarksCover, MarksOf, RemovedIsAged
<1>6. RunsAreWritten(t) /\ ScheduleIsPast(t)
  BY <1>2 DEF RunsAreWritten, ScheduleIsPast
<1> QED
  BY <1>2, <1>3, <1>4, <1>5, <1>6 DEF Scheduled

LEMMA OnceTick ==
    ASSUME TypeOK, NEW t \in Recurring, Scheduled(t), Tick \/ UNCHANGED vars
    PROVE  Scheduled(t)'
<1>1. /\ UNCHANGED <<diskVars, sessionVars, logVars, harm>>
      /\ now \in Nat /\ now' \in Nat /\ now <= now'
  BY DEF Tick, vars, TypeOK, DiskTypes, Times
<1>2. /\ UNCHANGED <<created, file, rewrites, running, owner, tasks, unseen, nextFireAt,
                     inFlight, fired>>
  BY <1>1 DEF diskVars, sessionVars, logVars
<1>3. \A n \in Times : n \in Nat
  BY DEF Times
<1>4. \A n \in Times : fired'[t][n] > 0 => n <= now'
  BY <1>1, <1>2, <1>3 DEF Scheduled
<1>5. \A n \in Times : ExpiredAt(t, n)' \/ fired'[t][n] <= 1
  BY <1>2 DEF Scheduled, ExpiredAt
<1>6. Arrives(t)' /\ CopiesAreSeen(t)'
  BY <1>2 DEF Scheduled, Arrives, Unborn, MarksOf, Has, CopiesAreSeen, Up
<1>7. ASSUME ~Aged(t)'
      PROVE  MarksCover(t)' /\ RunsAreWritten(t)' /\ ScheduleIsPast(t)' /\ RemovedIsAged(t)'
  <2>1. ~Aged(t)
    BY <1>1, <1>2, <1>7, AgedStays
  <2> QED
    BY <1>2, <2>1 DEF Scheduled, MarksCover, RunsAreWritten, ScheduleIsPast, RemovedIsAged,
      MarksOf, Has
<1> QED
  BY <1>4, <1>5, <1>6, <1>7 DEF Scheduled

\* A rewrite that neither marks nor removes nor adds the task changes nothing for it
LEMMA OtherRewrite ==
    ASSUME TypeOK, NEW t \in Recurring, NEW r,
           r.kind \in {"add", "delete", "missed"}, r.kind = "add" => t \notin r.ids,
           rewrites' \in {rewrites, rewrites \cup {r}}, created'[t] = created[t]
    PROVE  /\ MarksOf(t)' = MarksOf(t) /\ Unborn(t)' = Unborn(t)
           /\ RemovedIsAged(t) => RemovedIsAged(t)'
           /\ Arrives(t) /\ UNCHANGED <<file, fired>>
                /\ (\A s \in Sessions : t \in DOMAIN tasks'[s] => Has(t) \/ t \in DOMAIN tasks[s])
              => Arrives(t)'
<1>1. MarksOf(t)' = MarksOf(t)
  BY DEF MarksOf
<1>2. Unborn(t)' = Unborn(t)
  BY DEF Unborn
<1>3. RemovedIsAged(t) => RemovedIsAged(t)'
  BY DEF RemovedIsAged
<1>4. ASSUME Arrives(t), UNCHANGED <<file, fired>>,
             \A s \in Sessions : t \in DOMAIN tasks'[s] => Has(t) \/ t \in DOMAIN tasks[s]
      PROVE  Arrives(t)'
  <2>1. \A v, w \in rewrites' :
          v.kind = "add" /\ w.kind = "add" /\ t \in v.ids /\ t \in w.ids => v = w
    BY <1>4 DEF Arrives
  <2>2. created'[t] = Never => \A w \in rewrites' : w.kind = "add" => t \notin w.ids
    BY <1>4 DEF Arrives
  <2>3. Has(t)' = Has(t)
    BY <1>4 DEF Has
  <2> QED
    BY <1>1, <1>2, <1>4, <2>1, <2>2, <2>3 DEF Arrives
<1> QED
  BY <1>1, <1>2, <1>3, <1>4

LEMMA OnceOfOther ==
    ASSUME TypeOK, NEW t \in Recurring, Scheduled(t), NEW r,
           r.kind \in {"add", "delete", "missed"}, r.kind = "add" => t \notin r.ids,
           rewrites' \in {rewrites, rewrites \cup {r}}, created'[t] = created[t],
           UNCHANGED <<now, file, running, owner, tasks, unseen, nextFireAt, inFlight, fired>>
    PROVE  Scheduled(t)'
<1>1. /\ MarksOf(t)' = MarksOf(t) /\ Arrives(t)' /\ (RemovedIsAged(t) => RemovedIsAged(t)')
  BY OtherRewrite DEF Scheduled
<1>2. Aged(t)' = Aged(t) /\ \A n \in Times : ExpiredAt(t, n)' = ExpiredAt(t, n)
  BY DEF Aged, ExpiredAt
<1>3. CopiesAreSeen(t)'
  BY DEF Scheduled, CopiesAreSeen, Up, Has
<1>4. ASSUME ~Aged(t)
      PROVE  MarksCover(t)' /\ RunsAreWritten(t)' /\ ScheduleIsPast(t)'
  BY <1>1, <1>4 DEF Scheduled, MarksCover, RunsAreWritten, ScheduleIsPast, Has
<1> QED
  BY <1>1, <1>2, <1>3, <1>4 DEF Scheduled

LEMMA OnceChange ==
    ASSUME TypeOK, NEW t \in Recurring, Scheduled(t),
           NEW u \in Tasks, AddCronTask(u) \/ DeleteCronTask(u)
    PROVE  Scheduled(t)'
<1>1. t \in Tasks /\ created \in [Tasks -> 0..Never]
  BY RecurringTypes DEF TypeOK, DiskTypes
<1>2. UNCHANGED <<now, file, running, owner, tasks, unseen, nextFireAt, inFlight, fired>>
  BY DEF AddCronTask, DeleteCronTask, sessionVars, logVars
<1>3. CASE DeleteCronTask(u)
  <2>1. PICK s \in Sessions : rewrites' = rewrites \cup {Rewrite(s, "delete", {u}, 0)}
    BY <1>3 DEF DeleteCronTask
  <2>2. created' = created /\ Rewrite(s, "delete", {u}, 0).kind = "delete"
    BY <1>3 DEF DeleteCronTask, Rewrite
  <2> QED
    BY <1>2, <2>1, <2>2, OnceOfOther
<1>4. CASE AddCronTask(u)
  <2>1. PICK s \in Sessions : rewrites' = rewrites \cup {Rewrite(s, "add", {u}, now)}
    BY <1>4 DEF AddCronTask
  <2> DEFINE r == Rewrite(s, "add", {u}, now)
  <2>2. r.kind = "add" /\ r.ids = {u} /\ created' = [created EXCEPT ![u] = now] /\ created[u] = Never
    BY <1>4 DEF AddCronTask, Rewrite
  <2>3. CASE u # t
    BY <1>1, <1>2, <2>1, <2>2, <2>3, OnceOfOther
  <2>4. CASE u = t
    <3>1. created[t] = Never /\ created'[t] = now /\ now # Never
      BY <1>1, <2>2, <2>4, BoundsAssumption DEF Never, TypeOK, DiskTypes, Times
    <3>2. ~Aged(t)
      BY <3>1, BoundsAssumption DEF Aged, ExpiredAt, Never, TypeOK, DiskTypes, Times
    <3>3. /\ ~Has(t) /\ MarksOf(t) = {} /\ \A n \in Times : fired[t][n] = 0
          /\ \A w \in rewrites : w.kind = "add" => t \notin w.ids
          /\ \A v \in Sessions : t \notin DOMAIN tasks[v]
      BY <3>1 DEF Scheduled, Arrives, Unborn
    <3>4. MarksOf(t)' = MarksOf(t)
      BY <2>1, <2>2 DEF MarksOf
    <3>5. Arrives(t)'
      <4>1. \A v, w \in rewrites' :
              v.kind = "add" /\ w.kind = "add" /\ t \in v.ids /\ t \in w.ids => v = w
        BY <2>1, <3>3
      <4> QED
        BY <1>2, <3>1, <3>3, <3>4, <4>1 DEF Arrives, Has
    <3>6. CopiesAreSeen(t)'
      BY <1>2, <3>3 DEF CopiesAreSeen
    <3>7. MarksCover(t)' /\ RunsAreWritten(t)' /\ ScheduleIsPast(t)'
      BY <1>2, <3>2, <3>3, <3>4 DEF Scheduled, MarksCover, RunsAreWritten, ScheduleIsPast, Has
    <3>8. RemovedIsAged(t)'
      BY <2>1, <2>2, <3>2 DEF Scheduled, RemovedIsAged
    <3> QED
      BY <1>2, <3>3, <3>5, <3>6, <3>7, <3>8 DEF Scheduled
  <2> QED
    BY <2>3, <2>4
<1> QED
  BY <1>3, <1>4

-----------------------------------------------------------------------------

LEMMA OnceRead ==
    ASSUME TypeOK, NEW t \in Recurring, Scheduled(t),
           NEW w \in rewrites, ReadCronTasks(w)
    PROVE  Scheduled(t)'
<1> DEFINE r == [w EXCEPT !.read = TRUE, !.content = file]
<1>1. w \in Rewrites
  BY DEF TypeOK, DiskTypes
<1>2. r.by = w.by /\ r.kind = w.kind /\ r.ids = w.ids /\ r.at = w.at /\ r.content = file
  BY <1>1 DEF Rewrites
<1>3. /\ rewrites' = (rewrites \ {w}) \cup {r}
      /\ UNCHANGED <<now, created, file, running, owner, tasks, unseen, nextFireAt,
                     inFlight, fired>>
  BY DEF ReadCronTasks, sessionVars, logVars
<1>4. MarksOf(t)' = IF w \in MarksOf(t) THEN (MarksOf(t) \ {w}) \cup {r} ELSE MarksOf(t)
  BY <1>2, <1>3 DEF MarksOf
<1>5. Aged(t)' = Aged(t) /\ \A n \in Times : ExpiredAt(t, n)' = ExpiredAt(t, n)
  BY <1>3 DEF Aged, ExpiredAt
<1>6. Arrives(t)'
  <2>1. Unborn(t)' = Unborn(t)
    BY <1>2, <1>3 DEF Unborn
  <2>2. MarksOf(t) = {} => MarksOf(t)' = {}
    BY <1>4
  <2>3. \A v, u \in rewrites' :
          v.kind = "add" /\ u.kind = "add" /\ t \in v.ids /\ t \in u.ids => v = u
    <3>1. \A v, u \in rewrites :
            v.kind = "add" /\ u.kind = "add" /\ t \in v.ids /\ t \in u.ids => v = u
      BY DEF Scheduled, Arrives
    <3>2. \A v \in rewrites' : v = r \/ (v \in rewrites /\ v # w)
      BY <1>3
    <3> HIDE DEF r
    <3> QED
      BY <1>2, <3>1, <3>2
  <2>4. created'[t] = Never => \A v \in rewrites' : v.kind = "add" => t \notin v.ids
    BY <1>2, <1>3 DEF Scheduled, Arrives
  <2> QED
    BY <1>3, <2>1, <2>2, <2>3, <2>4 DEF Scheduled, Arrives, Has
<1>7. CopiesAreSeen(t)'
  BY <1>3 DEF Scheduled, CopiesAreSeen, Up, Has
<1>8. ASSUME ~Aged(t)
      PROVE  MarksCover(t)' /\ RunsAreWritten(t)' /\ ScheduleIsPast(t)' /\ RemovedIsAged(t)'
  <2>1. MarksCover(t)'
    <3>1. \A v, u \in MarksOf(t)' : v = u
      BY <1>4, <1>8 DEF Scheduled, MarksCover
    <3>2. ASSUME NEW v \in MarksOf(t)'
          PROVE  /\ v.by \in owner /\ t \in inFlight[v.by]
                 /\ \A n \in Times : fired[t][n] > 0 => n <= v.at
                 /\ Has(t) => t \in DOMAIN tasks[v.by] /\ (v.read => t \in DOMAIN v.content)
                 /\ t \in DOMAIN tasks[v.by] => t \in DOMAIN nextFireAt[v.by]
      BY <1>2, <1>4, <1>8, <3>2 DEF Scheduled, MarksCover, Has
    <3> QED
      BY <1>3, <3>1, <3>2 DEF MarksCover, Has
  <2>2. RunsAreWritten(t)' /\ ScheduleIsPast(t)'
    BY <1>3, <1>4, <1>8 DEF Scheduled, RunsAreWritten, ScheduleIsPast, Has
  <2>3. RemovedIsAged(t)'
    BY <1>2, <1>3, <1>8 DEF Scheduled, RemovedIsAged
  <2> QED
    BY <2>1, <2>2, <2>3
<1> QED
  BY <1>3, <1>5, <1>6, <1>7, <1>8 DEF Scheduled

\* What a write leaves of the times in the file, when nothing was overwritten
LEMMA WrittenTimes ==
    ASSUME TypeOK, NEW t \in Recurring, NEW w \in rewrites, WriteCronTasks(w), WritesBack(w),
           harm' = {}
    PROVE  /\ file = w.content /\ file' = Edited(w)
           /\ Has(t)' => Has(t) \/ (w.kind = "add" /\ t \in w.ids)
           /\ Has(t)' /\ w.kind = "mark" => file'[t] = IF t \in w.ids THEN w.at ELSE file[t]
           /\ Has(t)' /\ w.kind # "mark" /\ ~(w.kind = "add" /\ t \in w.ids) => file'[t] = file[t]
<1>1. file' = Edited(w) /\ harm' = harm \cup (IF file = w.content THEN {} ELSE {"overlap"})
  BY DEF WriteCronTasks
<1>2. file = w.content
  BY <1>1
<1>3. CASE w.kind = "add"
  <2>1. file' = [u \in DOMAIN file \cup w.ids |-> IF u \in w.ids THEN w.at ELSE file[u]]
    BY <1>1, <1>2, <1>3 DEF Edited
  <2> QED
    BY <1>1, <1>2, <1>3, <2>1 DEF Has
<1>4. CASE w.kind = "mark"
  <2>1. file' = [u \in DOMAIN file |-> IF u \in w.ids THEN w.at ELSE file[u]]
    BY <1>1, <1>2, <1>4 DEF Edited
  <2> QED
    BY <1>1, <1>2, <1>4, <2>1 DEF Has
<1>5. CASE w.kind \notin {"add", "mark"}
  <2>1. file' = [u \in DOMAIN file \ w.ids |-> file[u]]
    BY <1>1, <1>2, <1>5 DEF Edited, Restrict
  <2> QED
    BY <1>1, <1>2, <1>5, <2>1 DEF Has
<1> QED
  BY <1>3, <1>4, <1>5

LEMMA OnceWrite ==
    ASSUME TypeOK, NEW t \in Recurring, Scheduled(t), harm' = {},
           NEW w \in rewrites, WriteCronTasks(w)
    PROVE  Scheduled(t)'
<1> DEFINE back == WritesBack(w)
           born == w.kind = "add" /\ t \in w.ids
<1>1. /\ UNCHANGED <<now, created, running, owner, tasks, nextFireAt, fired>>
      /\ rewrites' = rewrites \ {w} /\ w.read
      /\ ~back => UNCHANGED <<file, unseen>>
      /\ back => unseen' = unseen \cup {s \in Sessions : Up(s)}
      /\ inFlight' = IF w.kind \in {"mark", "remove"}
                     THEN [inFlight EXCEPT ![w.by] = @ \ w.ids] ELSE inFlight
  BY DEF WriteCronTasks, logVars
<1>2. back => /\ Has(t)' => Has(t) \/ born
              /\ Has(t)' /\ w.kind = "mark" => file'[t] = IF t \in w.ids THEN w.at ELSE file[t]
              /\ Has(t)' /\ w.kind # "mark" /\ ~born => file'[t] = file[t]
  BY WrittenTimes
<1>3. ~back => Has(t)' = Has(t)
  BY <1>1 DEF Has
<1>4. MarksOf(t)' = MarksOf(t) \ {w}
  BY <1>1 DEF MarksOf
<1>5. Aged(t)' = Aged(t) /\ \A n \in Times : ExpiredAt(t, n)' = ExpiredAt(t, n)
  BY <1>1 DEF Aged, ExpiredAt
<1>6. born => /\ MarksOf(t) = {} /\ ~Has(t) /\ \A s \in Sessions : t \notin DOMAIN tasks[s]
              /\ \A n \in Times : fired[t][n] = 0
  BY DEF Scheduled, Arrives, Unborn
<1>7. Arrives(t)'
  <2>1. \A u, v \in rewrites' :
          v.kind = "add" /\ u.kind = "add" /\ t \in v.ids /\ t \in u.ids => v = u
    BY <1>1 DEF Scheduled, Arrives
  <2>2. created'[t] = Never => \A v \in rewrites' : v.kind = "add" => t \notin v.ids
    BY <1>1 DEF Scheduled, Arrives
  <2>3. Unborn(t)' => Unborn(t) /\ ~born
    BY <1>1 DEF Scheduled, Arrives, Unborn
  <2>4. Unborn(t)' => ~Has(t)'
    BY <1>2, <1>3, <2>3 DEF Scheduled, Arrives
  <2> QED
    BY <1>1, <1>4, <2>1, <2>2, <2>3, <2>4 DEF Scheduled, Arrives
<1>8. CopiesAreSeen(t)'
  <2> SUFFICES ASSUME NEW s \in Sessions, t \in DOMAIN tasks[s]
               PROVE  Up(s)' /\ (s \in unseen' \/ (Has(t)' /\ tasks[s][t] = file'[t]))
    BY <1>1 DEF CopiesAreSeen
  <2>1. Up(s)' /\ Up(s) /\ (s \in unseen \/ (Has(t) /\ tasks[s][t] = file[t]))
    BY <1>1 DEF Scheduled, CopiesAreSeen, Up
  <2> QED
    BY <1>1, <1>3, <2>1
<1>9. ASSUME ~Aged(t)
      PROVE  MarksCover(t)' /\ RunsAreWritten(t)' /\ ScheduleIsPast(t)' /\ RemovedIsAged(t)'
  <2>1. MarksCover(t) /\ RunsAreWritten(t) /\ ScheduleIsPast(t) /\ RemovedIsAged(t)
    BY <1>9 DEF Scheduled
  <2>2. /\ w.by \in Sessions /\ w.kind \in {"add", "delete", "mark", "remove", "missed"}
        /\ inFlight \in [Sessions -> SUBSET Tasks]
    BY RewriteTypes DEF TypeOK, SessionTypes
  <2>3. \A s \in Sessions : t \in inFlight[s] =>
          t \in inFlight'[s] \/ (w \in MarksOf(t) /\ w.by = s)
    <3>1. ASSUME NEW s \in Sessions, t \in inFlight[s], t \notin inFlight'[s]
          PROVE  w.kind \in {"mark", "remove"} /\ w.by = s /\ t \in w.ids
      BY <1>1, <2>2, <3>1
    <3> QED
      BY <2>1, <3>1 DEF RemovedIsAged, MarksOf
  <2>4. \A v \in MarksOf(t)' : v \in MarksOf(t) /\ w \notin MarksOf(t)
    BY <1>4, <2>1 DEF MarksCover
  <2>5. MarksCover(t)'
    <3>1. \A v, u \in MarksOf(t)' : v = u
      BY <2>1, <2>4 DEF MarksCover
    <3>2. ASSUME NEW v \in MarksOf(t)'
          PROVE  /\ v.by \in owner /\ t \in inFlight'[v.by]
                 /\ \A n \in Times : fired[t][n] > 0 => n <= v.at
                 /\ Has(t)' => t \in DOMAIN tasks[v.by] /\ (v.read => t \in DOMAIN v.content)
                 /\ t \in DOMAIN tasks[v.by] => t \in DOMAIN nextFireAt[v.by]
      <4>1. v \in MarksOf(t) /\ w \notin MarksOf(t) /\ ~born
        BY <1>6, <2>4
      <4>2. Has(t)' => Has(t)
        BY <1>2, <1>3, <4>1
      <4>3. v.by \in Sessions /\ v.by \in owner /\ t \in inFlight[v.by]
        BY <2>1, <4>1, RewriteTypes DEF MarksCover, MarksOf
      <4>4. t \in inFlight'[v.by]
        BY <2>3, <4>1, <4>3
      <4> QED
        BY <2>1, <4>1, <4>2, <4>3, <4>4 DEF MarksCover
    <3> QED
      BY <1>1, <3>1, <3>2 DEF MarksCover
  <2>6. RunsAreWritten(t)'
    <3> SUFFICES ASSUME Has(t)', NEW n \in Times, fired[t][n] > 0
                 PROVE  n <= file'[t] \/ MarksOf(t)' # {}
      BY <1>1 DEF RunsAreWritten
    <3>1. ~born
      BY <1>6
    <3>2. Has(t)
      BY <1>2, <1>3, <3>1
    <3>3. CASE w \in MarksOf(t)
      <4>1. n <= w.at /\ t \in DOMAIN w.content /\ t \in w.ids /\ w.kind = "mark"
        BY <1>1, <2>1, <3>2, <3>3 DEF MarksCover, MarksOf
      <4>2. back
        BY <4>1 DEF WritesBack
      <4> QED
        BY <1>2, <4>1, <4>2
    <3>4. CASE w \notin MarksOf(t)
      <4>1. file'[t] = file[t]
        BY <1>1, <1>2, <3>1, <3>4 DEF MarksOf
      <4> QED
        BY <1>4, <2>1, <3>2, <3>4, <4>1 DEF RunsAreWritten
    <3> QED
      BY <3>3, <3>4
  <2>7. ScheduleIsPast(t)'
    <3>1. ASSUME NEW s \in Sessions, t \in DOMAIN nextFireAt[s]
          PROVE  s \in owner /\ \A n \in Times : fired[t][n] > 0 => n < nextFireAt[s][t]
      BY <2>1, <3>1 DEF ScheduleIsPast
    <3>2. ASSUME NEW s \in Sessions, s \in owner,
                 t \in DOMAIN tasks[s] \ (DOMAIN nextFireAt[s] \cup inFlight'[s])
          PROVE  \A n \in Times : fired[t][n] > 0 => n <= tasks[s][t]
      <4>1. t \notin inFlight[s]
        BY <2>1, <2>3, <3>2 DEF MarksCover
      <4> QED
        BY <2>1, <3>2, <4>1 DEF ScheduleIsPast
    <3> QED
      BY <1>1, <3>1, <3>2 DEF ScheduleIsPast
  <2>8. RemovedIsAged(t)'
    BY <1>1, <2>1 DEF RemovedIsAged
  <2> QED
    BY <2>5, <2>6, <2>7, <2>8
<1> QED
  BY <1>1, <1>5, <1>7, <1>8, <1>9 DEF Scheduled

-----------------------------------------------------------------------------

\* A step of a session that runs nothing and rewrites nothing
LEMMA QuietStep ==
    ASSUME TypeOK, NEW t \in Recurring, Scheduled(t),
           UNCHANGED <<now, created, file, rewrites, fired, inFlight>>,
           \A s \in Sessions : t \in DOMAIN tasks'[s] => Has(t) \/ t \in DOMAIN tasks[s],
           CopiesAreSeen(t)',
           ~Aged(t) => MarksCover(t)' /\ ScheduleIsPast(t)'
    PROVE  Scheduled(t)'
<1>1. MarksOf(t)' = MarksOf(t) /\ Unborn(t)' = Unborn(t) /\ Has(t)' = Has(t)
  BY DEF MarksOf, Unborn, Has
<1>2. Aged(t)' = Aged(t) /\ \A n \in Times : ExpiredAt(t, n)' = ExpiredAt(t, n)
  BY DEF Aged, ExpiredAt
<1>3. Arrives(t)'
  BY <1>1 DEF Scheduled, Arrives
<1>4. ~Aged(t) => RunsAreWritten(t)' /\ RemovedIsAged(t)'
  BY <1>1 DEF Scheduled, RunsAreWritten, RemovedIsAged
<1> QED
  BY <1>1, <1>2, <1>3, <1>4 DEF Scheduled

LEMMA OnceStart ==
    ASSUME TypeOK, NEW t \in Recurring, Scheduled(t), NEW s \in Sessions, Start(s)
    PROVE  Scheduled(t)'
<1>1. /\ UNCHANGED <<now, created, file, rewrites, tasks, unseen, nextFireAt, inFlight, fired>>
      /\ running[s] = "off" /\ running' = [running EXCEPT ![s] = "loading"]
      /\ owner' = IF owner = {} THEN {s} ELSE owner
  BY DEF Start, diskVars, logVars
<1>2. t \notin DOMAIN tasks[s]
  BY <1>1 DEF Scheduled, CopiesAreSeen, Up
<1>3. running \in [Sessions -> {"off", "loading", "on", "ended"}]
  BY DEF TypeOK, SessionTypes
<1>4. CopiesAreSeen(t)'
  <2>1. \A u \in Sessions : Up(u) => Up(u)'
    BY <1>1, <1>3 DEF Up
  <2> QED
    BY <1>1, <2>1 DEF Scheduled, CopiesAreSeen, Has
<1>5. owner \subseteq owner' /\ \A u \in owner' : u \in owner \/ u = s
  BY <1>1
<1>6. MarksOf(t)' = MarksOf(t) /\ Has(t)' = Has(t)
  BY <1>1 DEF MarksOf, Has
<1>7. ~Aged(t) => MarksCover(t)'
  BY <1>1, <1>5, <1>6 DEF Scheduled, MarksCover
<1>8. ~Aged(t) => ScheduleIsPast(t)'
  BY <1>1, <1>2, <1>5 DEF Scheduled, ScheduleIsPast
<1> QED
  BY <1>1, <1>4, <1>7, <1>8, QuietStep

LEMMA OnceTakeOver ==
    ASSUME TypeOK, NEW t \in Recurring, Scheduled(t), NEW s \in Sessions, TakeOver(s),
           harm' = {}
    PROVE  Scheduled(t)'
<1>1. /\ UNCHANGED <<now, created, file, rewrites, running, tasks, unseen, nextFireAt,
                     inFlight, fired>>
      /\ owner = {} /\ owner' = {s}
      /\ tasks[s] # NoTasks => s \notin unseen
  BY DEF TakeOver, diskVars, logVars
<1>2. t \in DOMAIN tasks[s] => Has(t) /\ tasks[s][t] = file[t]
  <2>1. t \in DOMAIN tasks[s] => tasks[s] # NoTasks
    BY DEF NoTasks
  <2> QED
    BY <1>1, <2>1 DEF Scheduled, CopiesAreSeen
<1>3. CopiesAreSeen(t)'
  BY <1>1 DEF Scheduled, CopiesAreSeen, Up, Has
<1>4. MarksOf(t)' = MarksOf(t)
  BY <1>1 DEF MarksOf
<1>5. ASSUME ~Aged(t)
      PROVE  MarksCover(t)' /\ ScheduleIsPast(t)'
  <2>1. MarksOf(t) = {} /\ \A u \in Sessions : t \notin DOMAIN nextFireAt[u]
    BY <1>1, <1>5 DEF Scheduled, MarksCover, ScheduleIsPast
  <2>2. MarksCover(t)'
    BY <1>4, <2>1 DEF MarksCover
  <2>3. t \in DOMAIN tasks[s] => \A n \in Times : fired[t][n] > 0 => n <= tasks[s][t]
    BY <1>2, <1>5, <2>1 DEF Scheduled, RunsAreWritten
  <2>4. ScheduleIsPast(t)'
    BY <1>1, <2>1, <2>3 DEF ScheduleIsPast
  <2> QED
    BY <2>2, <2>4
<1> QED
  BY <1>1, <1>3, <1>5, QuietStep

\* What the owner loads, of a task it has not scheduled, is past all runs
LEMMA LoadIsPast ==
    ASSUME TypeOK, NEW t \in Recurring, Scheduled(t), ~Aged(t), NEW s \in Sessions,
           s \in owner, Has(t), t \notin inFlight[s]
    PROVE  \A n \in Times : fired[t][n] > 0 => n <= file[t]
<1>1. MarksOf(t) = {}
  <2>1. \A u \in owner : u = s
    BY DEF TypeOK, SessionTypes
  <2> QED
    BY <2>1 DEF Scheduled, MarksCover
<1> QED
  BY <1>1 DEF Scheduled, RunsAreWritten

\* The copy of a session after it has loaded the file
LEMMA LoadedCopy ==
    ASSUME TypeOK, NEW t \in Recurring, Scheduled(t), NEW s \in Sessions, Up(s)',
           UNCHANGED <<file, owner, inFlight, fired>>, MarksOf(t)' = MarksOf(t),
           tasks' = [tasks EXCEPT ![s] = file], unseen' = unseen \ {s},
           \A u \in Sessions : Up(u) => Up(u)',
           \A u \in Sessions : /\ (t \in DOMAIN nextFireAt'[u]) = (t \in DOMAIN nextFireAt[u])
                               /\ t \in DOMAIN nextFireAt[u] => nextFireAt'[u][t] = nextFireAt[u][t]
    PROVE  /\ CopiesAreSeen(t)'
           /\ \A u \in Sessions : t \in DOMAIN tasks'[u] => Has(t) \/ t \in DOMAIN tasks[u]
           /\ ~Aged(t) => MarksCover(t)' /\ ScheduleIsPast(t)'
<1>1. /\ tasks'[s] = file /\ \A u \in Sessions : u # s => tasks'[u] = tasks[u]
      /\ Has(t)' = Has(t)
  BY DEF TypeOK, SessionTypes, Has
<1>2. CopiesAreSeen(t)'
  <2> SUFFICES ASSUME NEW u \in Sessions, t \in DOMAIN tasks'[u]
               PROVE  Up(u)' /\ (u \in unseen' \/ (Has(t)' /\ tasks'[u][t] = file'[t]))
    BY DEF CopiesAreSeen
  <2>1. CASE u = s
    BY <1>1, <2>1 DEF Has
  <2>2. CASE u # s
    BY <1>1, <2>2 DEF Scheduled, CopiesAreSeen
  <2> QED
    BY <2>1, <2>2
<1>3. \A u \in Sessions : t \in DOMAIN tasks'[u] => Has(t) \/ t \in DOMAIN tasks[u]
  BY <1>1 DEF Has
<1>4. ASSUME ~Aged(t)
      PROVE  MarksCover(t)' /\ ScheduleIsPast(t)'
  <2>1. MarksCover(t) /\ ScheduleIsPast(t)
    BY <1>4 DEF Scheduled
  <2>2. MarksCover(t)'
    <3>1. ASSUME NEW w \in MarksOf(t)
          PROVE  /\ Has(t)' => t \in DOMAIN tasks'[w.by]
                 /\ t \in DOMAIN tasks'[w.by] => t \in DOMAIN nextFireAt'[w.by]
      <4>1. w.by \in Sessions
        BY RewriteTypes DEF MarksOf
      <4>2. CASE w.by = s
        BY <1>1, <2>1, <4>1, <4>2 DEF MarksCover, Has
      <4>3. CASE w.by # s
        BY <1>1, <2>1, <4>1, <4>3 DEF MarksCover
      <4> QED
        BY <4>2, <4>3
    <3> QED
      BY <1>1, <2>1, <3>1 DEF MarksCover
  <2>3. ScheduleIsPast(t)'
    <3>1. ASSUME NEW u \in Sessions, u \in owner,
                 t \in DOMAIN tasks'[u] \ (DOMAIN nextFireAt'[u] \cup inFlight[u])
          PROVE  \A n \in Times : fired[t][n] > 0 => n <= tasks'[u][t]
      <4>1. CASE u = s
        BY <1>1, <1>4, <3>1, <4>1, LoadIsPast DEF Has
      <4>2. CASE u # s
        BY <1>1, <2>1, <3>1, <4>2 DEF ScheduleIsPast
      <4> QED
        BY <4>1, <4>2
    <3>2. ASSUME NEW u \in Sessions, t \in DOMAIN nextFireAt'[u]
          PROVE  u \in owner /\ \A n \in Times : fired[t][n] > 0 => n < nextFireAt'[u][t]
      BY <2>1, <3>2 DEF ScheduleIsPast
    <3> QED
      BY <3>1, <3>2 DEF ScheduleIsPast
  <2> QED
    BY <2>2, <2>3
<1> QED
  BY <1>2, <1>3, <1>4

LEMMA OnceReload ==
    ASSUME TypeOK, NEW t \in Recurring, Scheduled(t), NEW s \in Sessions, Reload(s)
    PROVE  Scheduled(t)'
<1>1. /\ UNCHANGED <<now, created, file, rewrites, running, owner, nextFireAt, inFlight, fired>>
      /\ Up(s) /\ unseen' = unseen \ {s} /\ tasks' = [tasks EXCEPT ![s] = file]
  BY DEF Reload, diskVars, logVars
<1>2. MarksOf(t)' = MarksOf(t) /\ \A u \in Sessions : Up(u)' = Up(u)
  BY <1>1 DEF MarksOf, Up
<1>3. /\ CopiesAreSeen(t)'
      /\ \A u \in Sessions : t \in DOMAIN tasks'[u] => Has(t) \/ t \in DOMAIN tasks[u]
      /\ ~Aged(t) => MarksCover(t)' /\ ScheduleIsPast(t)'
  BY <1>1, <1>2, LoadedCopy
<1> QED
  BY <1>1, <1>3, QuietStep

LEMMA OncePassive ==
    ASSUME TypeOK, NEW t \in Recurring, Scheduled(t), NEW s \in Sessions, PassiveCheck(s)
    PROVE  Scheduled(t)'
<1>1. /\ UNCHANGED <<now, created, file, rewrites, running, owner, tasks, unseen, inFlight, fired>>
      /\ s \notin owner /\ nextFireAt' = [nextFireAt EXCEPT ![s] = NoTasks]
  BY DEF PassiveCheck, diskVars, logVars
<1>2. CopiesAreSeen(t)'
  BY <1>1 DEF Scheduled, CopiesAreSeen, Up, Has
<1>3. \A u \in Sessions : nextFireAt'[u] = IF u = s THEN NoTasks ELSE nextFireAt[u]
  BY <1>1 DEF TypeOK, SessionTypes
<1>4. t \notin DOMAIN NoTasks
  BY DEF NoTasks
<1>5. ASSUME ~Aged(t)
      PROVE  MarksCover(t)' /\ ScheduleIsPast(t)'
  <2>1. MarksCover(t) /\ ScheduleIsPast(t)
    BY <1>5 DEF Scheduled
  <2>2. MarksOf(t)' = MarksOf(t) /\ Has(t)' = Has(t)
    BY <1>1 DEF MarksOf, Has
  <2>3. \A w \in MarksOf(t) : w.by \in Sessions /\ w.by # s
    BY <1>1, <2>1, RewriteTypes DEF MarksCover, MarksOf
  <2>4. MarksCover(t)'
    BY <1>1, <1>3, <2>1, <2>2, <2>3 DEF MarksCover
  <2>5. ScheduleIsPast(t)'
    BY <1>1, <1>3, <1>4, <2>1 DEF ScheduleIsPast
  <2> QED
    BY <2>4, <2>5
<1> QED
  BY <1>1, <1>2, <1>5, QuietStep

\* The task after its owner has ended, or another session has
LEMMA OnceExit ==
    ASSUME TypeOK, NEW t \in Recurring, Scheduled(t), NEW s \in Sessions, Exit(s),
           harm' = {}
    PROVE  Scheduled(t)'
<1>1. /\ UNCHANGED <<now, created, file, fired>>
      /\ running' = [running EXCEPT ![s] = "ended"] /\ owner' = owner \ {s}
      /\ tasks' = [tasks EXCEPT ![s] = NoTasks] /\ unseen' = unseen \ {s}
      /\ nextFireAt' = [nextFireAt EXCEPT ![s] = NoTasks]
      /\ inFlight' = [inFlight EXCEPT ![s] = {}]
      /\ rewrites' = {w \in rewrites : w.by # s}
      /\ \A w \in rewrites : w.by # s
  BY DEF Exit, logVars
<1>2. rewrites' = rewrites
  BY <1>1
<1>3. /\ tasks \in [Sessions -> Files] /\ nextFireAt \in [Sessions -> Schedules]
      /\ inFlight \in [Sessions -> SUBSET Tasks]
      /\ running \in [Sessions -> {"off", "loading", "on", "ended"}]
  BY DEF TypeOK, SessionTypes
<1>4. /\ \A u \in Sessions \ {s} :
          /\ tasks'[u] = tasks[u] /\ nextFireAt'[u] = nextFireAt[u]
          /\ inFlight'[u] = inFlight[u] /\ Up(u)' = Up(u)
      /\ t \notin DOMAIN tasks'[s] /\ t \notin DOMAIN nextFireAt'[s]
  <2>1. t \notin DOMAIN NoTasks
    BY DEF NoTasks
  <2> QED
    BY <1>1, <1>3, <2>1 DEF Up
<1>5. /\ MarksOf(t)' = MarksOf(t) /\ Unborn(t)' = Unborn(t) /\ Has(t)' = Has(t)
      /\ Aged(t)' = Aged(t) /\ \A n \in Times : ExpiredAt(t, n)' = ExpiredAt(t, n)
  BY <1>1, <1>2 DEF MarksOf, Unborn, Has, Aged, ExpiredAt
<1>6. Arrives(t)'
  BY <1>1, <1>2, <1>4, <1>5 DEF Scheduled, Arrives
<1>7. CopiesAreSeen(t)'
  BY <1>1, <1>4, <1>5 DEF Scheduled, CopiesAreSeen
<1>8. ASSUME ~Aged(t)
      PROVE  MarksCover(t)' /\ RunsAreWritten(t)' /\ ScheduleIsPast(t)' /\ RemovedIsAged(t)'
  <2>1. MarksCover(t) /\ RunsAreWritten(t) /\ ScheduleIsPast(t) /\ RemovedIsAged(t)
    BY <1>8 DEF Scheduled
  <2>2. \A w \in MarksOf(t) : w.by \in Sessions \ {s}
    BY <1>1, RewriteTypes DEF MarksOf
  <2>3. MarksCover(t)'
    BY <1>1, <1>4, <1>5, <2>1, <2>2 DEF MarksCover
  <2>4. RunsAreWritten(t)' /\ RemovedIsAged(t)'
    BY <1>1, <1>2, <1>5, <2>1 DEF RunsAreWritten, RemovedIsAged
  <2>5. ScheduleIsPast(t)'
    BY <1>1, <1>4, <2>1 DEF ScheduleIsPast
  <2> QED
    BY <2>3, <2>4, <2>5
<1> QED
  BY <1>1, <1>5, <1>6, <1>7, <1>8 DEF Scheduled

LEMMA OnceInitialLoad ==
    ASSUME TypeOK, NEW t \in Recurring, Scheduled(t), NEW s \in Sessions, InitialLoad(s)
    PROVE  Scheduled(t)'
<1> DEFINE missed == Missed(s)
           r == Rewrite(s, "missed", missed, 0)
<1>1. /\ UNCHANGED <<now, created, file, owner, inFlight, fired>>
      /\ running[s] = "loading" /\ running' = [running EXCEPT ![s] = "on"]
      /\ tasks' = [tasks EXCEPT ![s] = file] /\ unseen' = unseen \ {s}
      /\ rewrites' \in {rewrites, rewrites \cup {r}}
  BY DEF InitialLoad
<1>2. r.kind = "missed" /\ t \notin missed
  BY RecurringTypes DEF Rewrite, Missed
<1>3. \A u \in Sessions : /\ (t \in DOMAIN nextFireAt'[u]) = (t \in DOMAIN nextFireAt[u])
                          /\ t \in DOMAIN nextFireAt[u] => nextFireAt'[u][t] = nextFireAt[u][t]
  <2> DEFINE old == nextFireAt[s]
             new == [x \in DOMAIN old \cup missed |-> IF x \in missed THEN Never ELSE old[x]]
  <2>1. nextFireAt \in [Sessions -> Schedules]
    BY DEF TypeOK, SessionTypes
  <2>2. nextFireAt' = [nextFireAt EXCEPT ![s] = new]
    BY <2>1 DEF InitialLoad
  <2>3. (t \in DOMAIN new) = (t \in DOMAIN old) /\ (t \in DOMAIN old => new[t] = old[t])
    BY <1>2
  <2> QED
    BY <2>1, <2>2, <2>3
<1>4. Up(s)' /\ \A u \in Sessions : Up(u) => Up(u)'
  BY <1>1 DEF TypeOK, SessionTypes, Up
<1>5. /\ MarksOf(t)' = MarksOf(t) /\ (RemovedIsAged(t) => RemovedIsAged(t)')
      /\ Arrives(t) /\ UNCHANGED <<file, fired>>
           /\ (\A u \in Sessions : t \in DOMAIN tasks'[u] => Has(t) \/ t \in DOMAIN tasks[u])
         => Arrives(t)'
  BY <1>1, <1>2, OtherRewrite
<1>6. /\ CopiesAreSeen(t)'
      /\ \A u \in Sessions : t \in DOMAIN tasks'[u] => Has(t) \/ t \in DOMAIN tasks[u]
      /\ ~Aged(t) => MarksCover(t)' /\ ScheduleIsPast(t)'
  BY <1>1, <1>3, <1>4, <1>5, LoadedCopy
<1>7. Arrives(t)'
  BY <1>1, <1>5, <1>6 DEF Scheduled
<1>8. Aged(t)' = Aged(t) /\ \A n \in Times : ExpiredAt(t, n)' = ExpiredAt(t, n)
  BY <1>1 DEF Aged, ExpiredAt
<1>9. ~Aged(t) => RunsAreWritten(t)' /\ RemovedIsAged(t)'
  BY <1>1, <1>5 DEF Scheduled, RunsAreWritten, Has
<1> QED
  BY <1>1, <1>6, <1>7, <1>8, <1>9 DEF Scheduled

\* The check of the owner, and what it does for a task that has not expired: it
\* runs the task when that is due, marks it and schedules it again
LEMMA OnceCheck ==
    ASSUME TypeOK, NEW t \in Recurring, Scheduled(t), NEW s \in Sessions, Check(s)
    PROVE  Scheduled(t)'
<1> DEFINE seen  == DOMAIN tasks[s]
           idle  == seen \ inFlight[s]
           due   == {u \in idle : now >= NextOf(s, u)}
           again == {u \in due \cap Recurring : ~Aged(u)}
           gone  == due \ again
           kept  == (idle \ gone) \cup (seen \cap inFlight[s] \cap DOMAIN nextFireAt[s])
           next  == [u \in kept |-> IF u \in again THEN Rescheduled
                                    ELSE IF u \in idle THEN NextOf(s, u)
                                    ELSE nextFireAt[s][u]]
           mark  == Rewrite(s, "mark", again, now)
<1>1. /\ tasks \in [Sessions -> Files] /\ nextFireAt \in [Sessions -> Schedules]
      /\ inFlight \in [Sessions -> SUBSET Tasks] /\ now \in Times
      /\ fired \in [Tasks -> [Times -> 0..Often]] /\ t \in Tasks
  BY RecurringTypes DEF TypeOK, DiskTypes, SessionTypes, LogTypes
<1>2. /\ UNCHANGED <<now, created, file, running, owner, tasks, unseen>> /\ s \in owner
      /\ fired' = [u \in Tasks |-> IF u \in due /\ fired[u][now] < Often
                                   THEN [fired[u] EXCEPT ![now] = @ + 1] ELSE fired[u]]
      /\ inFlight' = [inFlight EXCEPT ![s] = @ \cup due]
      /\ rewrites' = rewrites \cup {Rewrite(s, "remove", {u}, 0) : u \in gone}
                    \cup (IF again = {} THEN {} ELSE {mark})
  BY DEF Check
<1>3. nextFireAt' = [nextFireAt EXCEPT ![s] = next]
  BY <1>1 DEF Check
<1>4. \A u \in owner : u = s
  BY <1>2 DEF TypeOK, SessionTypes
<1>5. /\ t \notin due => fired'[t] = fired[t]
      /\ \A n \in Times : n # now => fired'[t][n] = fired[t][n]
      /\ fired'[t][now] <= fired[t][now] + 1
  BY <1>1, <1>2 DEF Often
<1>6. \A n \in Times : n \in Nat /\ fired[t][n] \in Nat /\ fired'[t][n] \in Nat
  <2>1. fired' \in [Tasks -> [Times -> Nat]]
    <3>1. ASSUME NEW u \in Tasks
          PROVE  fired[u] \in [Times -> Nat] /\ [fired[u] EXCEPT ![now] = @ + 1] \in [Times -> Nat]
      BY <1>1, <3>1 DEF Often
    <3>2. ASSUME NEW u \in Tasks
          PROVE  fired'[u] \in {fired[u], [fired[u] EXCEPT ![now] = @ + 1]}
      BY <1>2, <3>2
    <3>3. ASSUME NEW u \in Tasks PROVE fired'[u] \in [Times -> Nat]
      BY <3>1, <3>2, <3>3
    <3> QED
      BY <1>2, <3>3
  <2>2. fired[t] \in [Times -> Nat] /\ fired'[t] \in [Times -> Nat]
    BY <1>1, <2>1 DEF Often
  <2>3. \A n \in Times : n \in Nat
    BY DEF Times
  <2> QED
    BY <2>2, <2>3
<1>7. \A n \in Times : fired'[t][n] > 0 => fired[t][n] > 0 \/ (n = now /\ t \in due)
  BY <1>5
<1>8. mark.kind = "mark" /\ mark.by = s /\ mark.ids = again /\ mark.at = now /\ ~mark.read
  BY DEF Rewrite
<1>9. \A u \in gone : /\ Rewrite(s, "remove", {u}, 0).kind = "remove"
                      /\ Rewrite(s, "remove", {u}, 0).ids = {u}
  BY DEF Rewrite
<1>10. MarksOf(t)' = IF t \in again THEN MarksOf(t) \cup {mark} ELSE MarksOf(t)
  BY <1>2, <1>8, <1>9 DEF MarksOf
<1>11. Aged(t)' = Aged(t) /\ \A n \in Times : ExpiredAt(t, n)' = ExpiredAt(t, n)
  BY <1>2 DEF Aged, ExpiredAt
<1>12. ~Aged(t) => t \notin gone /\ (t \in due => t \in again)
  OBVIOUS
<1> HIDE DEF mark, gone, again, due, next
<1>13. ASSUME ~Aged(t), t \in idle, NEW n \in Times, fired[t][n] > 0
       PROVE  n < NextOf(s, t)
  <2>1. ScheduleIsPast(t) /\ t \in Tasks /\ tasks[s][t] \in Nat
    <3>1. tasks[s] \in [seen -> Times]
      BY <1>1, FilesIn
    <3> QED
      BY <1>1, <1>13, <3>1 DEF Scheduled, Times
  <2>2. CASE t \in DOMAIN nextFireAt[s]
    BY <1>13, <2>1, <2>2 DEF ScheduleIsPast, NextOf
  <2>3. CASE t \notin DOMAIN nextFireAt[s]
    <3>1. n <= tasks[s][t]
      BY <1>2, <1>13, <2>1, <2>3 DEF ScheduleIsPast
    <3> QED
      BY <1>6, <1>13, <2>1, <2>3, <3>1 DEF NextOf, FirstSight
  <2> QED
    BY <2>2, <2>3
<1>14. ASSUME ~Aged(t), t \in due
       PROVE  fired[t][now] = 0 /\ MarksOf(t) = {}
  <2>1. t \in idle /\ now >= NextOf(s, t)
    BY <1>14 DEF due
  <2>2. fired[t][now] = 0
    <3>1. NextOf(s, t) \in Nat
      <4>1. tasks[s] \in [seen -> Times] /\ nextFireAt[s] \in [DOMAIN nextFireAt[s] -> 0..Never]
        BY <1>1, FilesIn, SchedulesIn
      <4> QED
        BY <2>1, <4>1, TimesInRange DEF NextOf, FirstSight, Times
    <3> QED
      BY <1>1, <1>6, <1>13, <1>14, <2>1, <3>1 DEF Times
  <2>3. MarksOf(t) = {}
    BY <1>4, <1>14, <2>1 DEF Scheduled, MarksCover
  <2> QED
    BY <2>2, <2>3
<1>15. \A n \in Times : fired'[t][n] > 0 => n <= now'
  BY <1>1, <1>2, <1>6, <1>7 DEF Scheduled, Times
<1>16. \A n \in Times : ExpiredAt(t, n)' \/ fired'[t][n] <= 1
  <2> SUFFICES ASSUME NEW n \in Times, ~ExpiredAt(t, n)
               PROVE  fired'[t][n] <= 1
    BY <1>11
  <2>1. fired[t][n] <= 1
    BY DEF Scheduled
  <2>2. CASE n = now /\ t \in due
    BY <1>5, <1>6, <1>14, <2>2 DEF Aged
  <2>3. CASE ~(n = now /\ t \in due)
    BY <1>5, <2>1, <2>3
  <2> QED
    BY <2>2, <2>3
<1>17. Arrives(t)'
  <2>1. \A w \in rewrites' : w.kind = "add" => w \in rewrites
    BY <1>2, <1>8, <1>9
  <2>2. Unborn(t)' => Unborn(t)
    BY <1>2, <2>1 DEF Unborn
  <2>3. Unborn(t) => t \notin due /\ t \notin again
    BY DEF Scheduled, Arrives, due, again
  <2> QED
    BY <1>2, <1>5, <1>10, <2>1, <2>2, <2>3 DEF Scheduled, Arrives, Has
<1>18. CopiesAreSeen(t)'
  BY <1>2 DEF Scheduled, CopiesAreSeen, Up, Has
<1>19. ASSUME ~Aged(t)
       PROVE  MarksCover(t)' /\ RunsAreWritten(t)' /\ ScheduleIsPast(t)' /\ RemovedIsAged(t)'
  <2>1. MarksCover(t) /\ RunsAreWritten(t) /\ ScheduleIsPast(t) /\ RemovedIsAged(t)
    BY <1>19 DEF Scheduled
  <2>2. /\ t \in idle => t \in kept
        /\ t \in seen /\ t \in DOMAIN nextFireAt[s] => t \in kept
        /\ DOMAIN nextFireAt'[s] = kept /\ nextFireAt'[s] = next
        /\ \A u \in Sessions \ {s} : nextFireAt'[u] = nextFireAt[u]
    BY <1>1, <1>3, <1>12, <1>19 DEF next
  <2>3. /\ inFlight'[s] = inFlight[s] \cup due
        /\ \A u \in Sessions \ {s} : inFlight'[u] = inFlight[u]
    BY <1>1, <1>2
  <2>4. t \in due <=> t \in again
    BY <1>12, <1>19 DEF again
  <2>5. MarksCover(t)'
    <3>1. CASE t \in again
      <4>1. MarksOf(t)' = {mark} /\ t \in idle /\ t \in due
        BY <1>10, <1>14, <1>19, <2>4, <3>1 DEF due
      <4>2. \A n \in Times : fired'[t][n] > 0 => n <= mark.at
        BY <1>2, <1>8, <1>15
      <4> QED
        BY <1>2, <1>8, <2>2, <2>3, <4>1, <4>2 DEF MarksCover
    <3>2. CASE t \notin again
      <4>1. MarksOf(t)' = MarksOf(t) /\ fired'[t] = fired[t]
        BY <1>5, <1>10, <2>4, <3>2
      <4>2. \A w \in MarksOf(t) : w.by = s
        BY <1>4, <2>1 DEF MarksCover
      <4> QED
        BY <1>2, <2>1, <2>2, <2>3, <4>1, <4>2 DEF MarksCover, Has
    <3> QED
      BY <3>1, <3>2
  <2>6. RunsAreWritten(t)'
    BY <1>2, <1>5, <1>10, <2>1, <2>4 DEF RunsAreWritten, Has
  <2>7. ScheduleIsPast(t)'
    <3>1. ASSUME t \in kept, NEW n \in Times, fired'[t][n] > 0
          PROVE  n < next[t]
      <4>1. CASE t \in again
        BY <1>1, <1>2, <1>6, <1>15, <3>1, <4>1 DEF next, Rescheduled, Times
      <4>2. CASE t \notin again
        <5>1. fired[t][n] > 0
          BY <1>7, <2>4, <3>1, <4>2
        <5>2. CASE t \in idle
          BY <1>13, <1>19, <3>1, <4>2, <5>1, <5>2 DEF next
        <5>3. CASE t \notin idle
          BY <2>1, <3>1, <4>2, <5>1, <5>3 DEF next, ScheduleIsPast
        <5> QED
          BY <5>2, <5>3
      <4> QED
        BY <4>1, <4>2
    <3>2. \A u \in Sessions \ {s} : u \notin owner /\ t \notin DOMAIN nextFireAt'[u]
      BY <1>4, <2>1, <2>2 DEF ScheduleIsPast
    <3>3. t \notin seen \ (kept \cup inFlight'[s])
      BY <2>2, <2>3
    <3> QED
      BY <1>2, <2>2, <3>1, <3>2, <3>3 DEF ScheduleIsPast
  <2>8. RemovedIsAged(t)'
    <3>1. \A w \in rewrites' : w.kind = "remove" =>
            w \in rewrites \/ \E u \in gone : w = Rewrite(s, "remove", {u}, 0)
      BY <1>2, <1>8
    <3> QED
      BY <1>9, <1>12, <1>19, <2>1, <3>1 DEF RemovedIsAged
  <2> QED
    BY <2>5, <2>6, <2>7, <2>8
<1> QED
  BY <1>11, <1>15, <1>16, <1>17, <1>18, <1>19 DEF Scheduled

LEMMA OnceNext ==
    ASSUME TypeOK, NEW t \in Recurring, Scheduled(t), harm' = {}, Next
    PROVE  Scheduled(t)'
<1>1. CASE Tick
  BY <1>1, OnceTick
<1>2. CASE \E u \in Tasks : AddCronTask(u) \/ DeleteCronTask(u)
  BY <1>2, OnceChange
<1>3. CASE \E w \in rewrites : ReadCronTasks(w) \/ WriteCronTasks(w)
  BY <1>3, OnceRead, OnceWrite
<1>4. CASE \E s \in Sessions : Session(s)
  BY <1>4, OnceStart, OnceTakeOver, OnceInitialLoad, OnceReload, OnceCheck, OncePassive,
    OnceExit DEF Session
<1> QED
  BY <1>1, <1>2, <1>3, <1>4 DEF Next

\* harm is never taken back
LEMMA HarmStays ==
    ASSUME Next \/ UNCHANGED vars
    PROVE  harm \subseteq harm'
<1>1. ASSUME NEW w \in rewrites, WriteCronTasks(w)
      PROVE  harm \subseteq harm'
  BY <1>1 DEF WriteCronTasks
<1> QED
  BY <1>1 DEF Next, vars, Tick, AddCronTask, DeleteCronTask, ReadCronTasks, Session, Start,
    TakeOver, InitialLoad, Reload, Check, PassiveCheck, Exit

\* A recurring task fires once per fire time until it has expired, for any number
\* of sessions and tasks and any bounds, whatever is loaded, rewritten, taken over
\* or restarted in between, as long as no session ended amid a rewrite, no
\* rewrite undid another and no owner took over with an old copy.
THEOREM RecurringOnceCorrect == Spec => []RecurringOnce
<1>1. Init => OnceInv
  BY TypesInit, OnceInit DEF OnceInv
<1>2. OnceInv /\ [Next]_vars => OnceInv'
  <2> SUFFICES ASSUME OnceInv, [Next]_vars
               PROVE  OnceInv'
    OBVIOUS
  <2>1. TypeOK /\ TypeOK'
    <3>1. TypeOK /\ UNCHANGED vars => TypeOK'
      BY DEF TypeOK, DiskTypes, SessionTypes, LogTypes, OnlyUp, Up, vars, diskVars,
        sessionVars, logVars
    <3> QED
      BY <3>1, TypesStep DEF OnceInv
  <2>2. ASSUME harm' = {}, NEW t \in Recurring
        PROVE  Scheduled(t)'
    <3>1. Scheduled(t)
      BY <2>2, HarmStays DEF OnceInv
    <3> QED
      BY <2>1, <2>2, <3>1, OnceNext, OnceTick
  <2> QED
    BY <2>1, <2>2 DEF OnceInv
<1>3. OnceInv => RecurringOnce
  BY DEF OnceInv, Scheduled, RecurringOnce
<1> QED
  BY <1>1, <1>2, <1>3, PTL DEF Spec
=============================================================================
