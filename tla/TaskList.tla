------------------------------ MODULE TaskList ------------------------------
(***************************************************************************)
(* The task list of a team (utils/tasks.ts): one file per task, a file     *)
(* with the highest id of a deleted task, a lock on the list and one per   *)
(* task, and agents in processes of their own that create, claim, update,  *)
(* order and delete tasks, and die.                                        *)
(*                                                                         *)
(* A write is two steps, for writeFile truncates the file first.  The      *)
(* files of a directory that are read one after the other for one decision *)
(* each, are read in one step; the blockers of a claim are not.            *)
(***************************************************************************)
EXTENDS Naturals, FiniteSets, Sequences, FiniteSetsExt, SequencesExt

CONSTANTS
    Agents,
    Teammates,      \* those that have a name, and poll the list for tasks
    Watchers,       \* those that watch the list; the others, as the leader,
                    \* only call the tools
    Nobody,
    TheList,        \* the id of the list, under which all its watchers claim
    NumTasks,       \* how many tasks there are at first
    MaxId,          \* ids run from 1 to MaxId: no task is created after it
    MaxCalls,       \* how many calls there may be but those that take, work on
                    \* and complete a task
    MaxFailures     \* how many times an agent may die, give up waiting for a lock
                    \* or be unable to submit the task it has claimed

ASSUME AgentsAssumption ==
    /\ Teammates \subseteq Agents /\ Watchers \subseteq Agents /\ Teammates \cap Watchers = {}
    /\ Nobody \notin Agents /\ TheList \notin Agents /\ TheList # Nobody
ASSUME TaskBounds ==
    /\ NumTasks \in Nat /\ MaxId \in Nat \ {0} /\ NumTasks <= MaxId
    /\ MaxCalls \in Nat /\ MaxFailures \in Nat

Ids == 1..MaxId
Statuses == {"pending", "in_progress", "completed"}

VARIABLES
    file,       \* the file of a task: absent, torn (truncated) or whole
    mark,       \* the high water mark; truncated it reads as 0
    listLock,   \* the agent that holds the lock of the list
    taskLock,   \* of a task: the agent that holds its lock
    pc,
    call,       \* the variables of the call of an agent:
                \*   work: the updates it still has to make
                \*   seen: the task as it was read under its lock
                \*   todo: the files it still has to read or unlink
                \*   n:    an id, or the highest found so far; with work: the
                \*         task that is claimed, or 0
                \*   next: where to go on when the mark is written
    holds,      \* the task an agent works on, or 0
    issued,     \* the ids that were given out
    deps,       \* <<a, b>>: it was recorded that a blocks b, and both are there
    harm,       \* what has happened so far: "overlap" of a deletion with another
                \* or with a creation, "reused": an id, "stale": a list of
                \* blockers was written that was read before another change,
                \* "taken": by an update that is no claim, from the agent that
                \* works on the task or owns it; a claim was let through to a
                \* task in progress that is nobody's ("unowned") or to one
                \* that a watcher of the list has ("shared"); "torn": a
                \* blocker was read while it was written, "reopened",
                \* "resurrected": a deleted file
    calls, failures

fileVars == <<file, mark>>
lockVars == <<listLock, taskLock>>
ghostVars == <<issued, deps>>
vars == <<fileVars, lockVars, pc, call, holds, ghostVars, harm, calls, failures>>

NoTask == [is |-> "absent", status |-> "pending", owner |-> Nobody, blocks |-> {}, blockedBy |-> {}]
NewTask == [NoTask EXCEPT !.is = "whole"]
Torn == [NoTask EXCEPT !.is = "torn"]
NoCall == [work |-> <<>>, seen |-> NoTask, todo |-> {}, n |-> 0, next |-> "idle"]

Init ==
    /\ file = [i \in Ids |-> IF i <= NumTasks THEN NewTask ELSE NoTask]
    /\ mark = 0
    /\ listLock = Nobody /\ taskLock = [i \in Ids |-> Nobody]
    /\ pc = [p \in Agents |-> "idle"] /\ call = [p \in Agents |-> NoCall]
    /\ holds = [p \in Agents |-> 0]
    /\ issued = 1..NumTasks /\ deps = {} /\ harm = {}
    /\ calls = 0 /\ failures = 0

\* A read that finds no whole task is taken for no task
Whole(i) == file[i].is = "whole"
There(i) == file[i].is # "absent"
Open(i) == Whole(i) /\ file[i].status # "completed"
Highest == Max({0} \cup {i \in Ids : There(i)})

Goes(p, to) == pc' = [pc EXCEPT ![p] = to]
Ends(p) == Goes(p, "idle") /\ call' = [call EXCEPT ![p] = NoCall]
Calls(p) == pc[p] = "idle" /\ calls < MaxCalls /\ calls' = calls + 1
Hurt(S) == harm' = harm \cup S

\* A deletion or a creation is between its reads and its writes
Numbering(p) ==
    pc[p] \in {"highest", "mark", "markfill", "unlink", "resetmark", "readdir", "clear"}
Overlaps(p) == {w \in {"overlap"} : \E q \in Agents \ {p} : Numbering(q)}
-----------------------------------------------------------------------------
(* createTask *)

\* The lock, and the first of the two reads: the names of the files or the mark
Create(p) ==
    /\ Calls(p) /\ listLock = Nobody /\ MaxId \notin issued
    /\ listLock' = p
    /\ \/ Goes(p, "highest") /\ call' = [call EXCEPT ![p].n = Highest, ![p].next = "mark"]
       \/ Goes(p, "highest") /\ call' = [call EXCEPT ![p].n = mark, ![p].next = "files"]
    /\ Hurt(Overlaps(p))
    /\ UNCHANGED <<fileVars, taskLock, holds, ghostVars, failures>>

\* The other read, and the new file is opened
CreateOpens(p) ==
    LET other == IF call[p].next = "mark" THEN mark ELSE Highest
        id == Max({call[p].n, other}) + 1
    IN  /\ pc[p] = "highest"
        /\ file' = [file EXCEPT ![id] = Torn]
        /\ issued' = issued \cup {id} /\ Hurt({w \in {"reused"} : id \in issued})
        /\ Goes(p, "fillnew") /\ call' = [call EXCEPT ![p].n = id]
        /\ UNCHANGED <<mark, lockVars, holds, deps, calls, failures>>

CreateFills(p) ==
    /\ pc[p] = "fillnew"
    /\ file' = [file EXCEPT ![call[p].n] = IF @.is = "absent" THEN @ ELSE NewTask]
    /\ listLock' = Nobody /\ Ends(p)
    /\ UNCHANGED <<mark, taskLock, holds, ghostVars, harm, calls, failures>>
-----------------------------------------------------------------------------
(* deleteTask and resetTaskList *)

\* The mark is read, and written if it is lower
Marks(p, id, then) ==
    IF id > mark
    THEN Goes(p, "mark") /\ call' = [call EXCEPT ![p].n = id, ![p].next = then]
    ELSE Goes(p, then) /\ call' = [call EXCEPT ![p].n = id]

\* Mutant of Delete: the mark is not raised before the file goes
DeleteUnmarked(p, id) ==
    /\ Calls(p) /\ Whole(id)
    /\ Goes(p, "unlink") /\ call' = [call EXCEPT ![p].n = id] /\ Hurt(Overlaps(p))
    /\ UNCHANGED <<fileVars, lockVars, holds, ghostVars, failures>>

Delete(p, id) ==
    /\ Calls(p) /\ Whole(id)
    /\ Marks(p, id, "unlink") /\ Hurt(Overlaps(p))
    /\ UNCHANGED <<fileVars, lockVars, holds, ghostVars, failures>>

MarkOpens(p) ==
    /\ pc[p] = "mark"
    /\ mark' = 0 /\ Goes(p, "markfill")
    /\ UNCHANGED <<file, lockVars, call, holds, ghostVars, harm, calls, failures>>

MarkFills(p) ==
    /\ pc[p] = "markfill"
    /\ mark' = call[p].n /\ Goes(p, call[p].next)
    /\ UNCHANGED <<file, lockVars, call, holds, ghostVars, harm, calls, failures>>

Removes(id) ==
    /\ file' = [file EXCEPT ![id] = NoTask]
    /\ deps' = {d \in deps : id \notin {d[1], d[2]}}

Unlink(p) ==
    /\ pc[p] = "unlink"
    /\ IF There(call[p].n)
       THEN Removes(call[p].n) /\ Goes(p, "list") /\ UNCHANGED call
       ELSE Ends(p) /\ UNCHANGED <<file, deps>>
    /\ UNCHANGED <<mark, lockVars, holds, issued, harm, calls, failures>>

Reset(p) ==
    /\ Calls(p) /\ listLock = Nobody
    /\ listLock' = p
    /\ Goes(p, "resetmark") /\ call' = [call EXCEPT ![p].n = Highest]
    /\ Hurt(Overlaps(p))
    /\ UNCHANGED <<fileVars, taskLock, holds, ghostVars, failures>>

ResetMarks(p) ==
    /\ pc[p] = "resetmark"
    /\ Marks(p, call[p].n, "readdir")
    /\ UNCHANGED <<fileVars, lockVars, holds, ghostVars, harm, calls, failures>>

ResetLists(p) ==
    /\ pc[p] = "readdir"
    /\ call' = [call EXCEPT ![p].todo = {i \in Ids : There(i)}] /\ Goes(p, "clear")
    /\ UNCHANGED <<fileVars, lockVars, holds, ghostVars, harm, calls, failures>>

ResetClears(p) ==
    /\ pc[p] = "clear"
    /\ IF call[p].todo = {}
       THEN listLock' = Nobody /\ Ends(p) /\ UNCHANGED <<file, deps>>
       ELSE \E i \in call[p].todo :
               /\ Removes(i) /\ call' = [call EXCEPT ![p].todo = @ \ {i}]
               /\ UNCHANGED <<listLock, pc>>
    /\ UNCHANGED <<mark, taskLock, holds, issued, harm, calls, failures>>
-----------------------------------------------------------------------------
(* updateTask, called once for each element of the work of a call *)

\* An update: the fields it sets, the blockers it was computed from, and the
\* agent that works on the task from then on, or Nobody
Update(id, set, from, for) == [id |-> id, set |-> set, from |-> from, for |-> for]
Plain(id, set) == Update(id, set, {}, Nobody)
Assign(id, set, for) == Update(id, set, {}, for)

WorksOn(p, ws, n) ==
    IF ws = <<>> THEN Ends(p)
    ELSE Goes(p, "lock") /\ call' = [call EXCEPT ![p] = [NoCall EXCEPT !.work = ws, !.n = n]]
Works(p, ws) == WorksOn(p, ws, 0)

Todo(p) == Head(call[p].work)
NextUpdate(p) == WorksOn(p, Tail(call[p].work), call[p].n)

\* The call throws: a teammate drops the task it was claiming
Throws(p) ==
    /\ Ends(p)
    /\ holds' = [holds EXCEPT ![p] = IF pc[p] = "lock" /\ call[p].n # 0 /\ p \notin Watchers
                                     THEN 0 ELSE @]

\* Mutant of Lock: the task is read and written without its lock
LockNothing(p) ==
    LET id == Todo(p).id IN
    /\ pc[p] = "lock"
    /\ IF Whole(id)
       THEN Goes(p, "write") /\ call' = [call EXCEPT ![p].seen = file[id]]
       ELSE NextUpdate(p)
    /\ UNCHANGED <<fileVars, lockVars, holds, ghostVars, harm, calls, failures>>

\* The lock and the read under it.  The read before it leaves out what is not
\* there, as the one under it does; without the file there is no lock.
Lock(p) ==
    LET id == Todo(p).id IN
    /\ pc[p] = "lock"
    /\ \/ ~Whole(id) /\ NextUpdate(p) /\ UNCHANGED <<taskLock, holds>>
       \/ ~There(id) /\ Throws(p) /\ UNCHANGED taskLock
       \/ /\ Whole(id) /\ taskLock[id] = Nobody
          /\ taskLock' = [taskLock EXCEPT ![id] = p] /\ Goes(p, "write")
          /\ call' = [call EXCEPT ![p].seen = file[id]]
          /\ UNCHANGED holds
    /\ UNCHANGED <<fileVars, listLock, ghostVars, harm, calls, failures>>

Write(p) ==
    LET id == Todo(p).id IN
    /\ pc[p] = "write"
    /\ file' = [file EXCEPT ![id] = Torn] /\ Goes(p, "fill")
    /\ Hurt({w \in {"resurrected"} : ~There(id)})
    /\ UNCHANGED <<mark, lockVars, call, holds, ghostVars, calls, failures>>

\* updateTaskUnsafe: the task that was read, with some fields set
Merged(p) ==
    LET set == Todo(p).set
    IN  [f \in DOMAIN NoTask |-> IF f \in DOMAIN set THEN set[f] ELSE call[p].seen[f]]

\* Whom the update is for works on the task, if free; a claim is released
Granted(p) ==
    LET w == Todo(p) IN
    IF w.for # Nobody
    THEN [holds EXCEPT ![w.for] = IF @ = 0 /\ pc[w.for] # "dead" THEN w.id ELSE @]
    ELSE [holds EXCEPT ![p] = IF "owner" \in DOMAIN w.set /\ call[p].n = w.id /\ @ = w.id
                              THEN 0 ELSE @]

\* The update p makes is that of a claim
Claiming(p) == call[p].n = Todo(p).id /\ Todo(p).for = p

\* An update that is no claim takes the task from another: it sets who has it,
\* or makes it pending and nobody's, while another works on it; or p starts it
\* without becoming the owner, and it has got one since p looked
Takes(p) ==
    LET w == Todo(p)
        Sets(f) == f \in DOMAIN w.set
        owner == call[p].seen.owner
    IN  \/ /\ ~Claiming(p)
           /\ \/ Sets("owner") \/ w.for # Nobody
              \/ Sets("status") /\ w.set.status = "pending" /\ owner = Nobody
           /\ \E a \in Agents \ {w.for} : Granted(p)[a] = w.id
        \/ w.for # Nobody /\ ~Sets("owner") /\ owner \notin {Nobody, w.for}

Fill(p) ==
    LET w == Todo(p)
        Sets(f) == f \in DOMAIN w.set
    IN  /\ pc[p] = "fill"
        /\ file' = [file EXCEPT ![w.id] = IF @.is = "absent" THEN @ ELSE Merged(p)]
        /\ taskLock' = [taskLock EXCEPT ![w.id] = Nobody]
        /\ NextUpdate(p)
        /\ holds' = Granted(p)
        /\ deps' = IF Sets("blockedBy") /\ There(w.id)
                   THEN deps \cup {<<a, w.id>> : a \in {b \in w.set.blockedBy \ w.from : There(b)}}
                   ELSE deps
        /\ Hurt({h \in {"stale"} : Sets("blockedBy") /\ w.from # call[p].seen.blockedBy}
                \cup {h \in {"taken"} : Takes(p)}
                \cup {h \in {"reopened"} : Sets("status") /\ call[p].seen.status = "completed"
                                             /\ w.set.status # "completed"})
        /\ UNCHANGED <<mark, listLock, issued, calls, failures>>

\* deleteTask: the other tasks forget the deleted one
Cascade(p) ==
    LET id == call[p].n
        refers == {i \in Ids : Whole(i) /\ id \in file[i].blocks \cup file[i].blockedBy}
        forget(i) == Update(i, [blocks |-> file[i].blocks \ {id},
                                blockedBy |-> file[i].blockedBy \ {id}], file[i].blockedBy, Nobody)
    IN  /\ pc[p] = "list"
        /\ \E order \in SetToSeqs(refers) : Works(p, [k \in DOMAIN order |-> forget(order[k])])
        /\ UNCHANGED <<fileVars, lockVars, holds, ghostVars, harm, calls, failures>>

(* The calls that update tasks; those that find nothing to change are left out *)

\* blockTask, from one read of both tasks
Block(p, a, b) ==
    LET forth == b \in file[a].blocks
        back == a \in file[b].blockedBy
    IN  /\ Calls(p) /\ a # b /\ Whole(a) /\ Whole(b) /\ ~(forth /\ back)
        /\ Works(p, (IF forth THEN <<>> ELSE <<Plain(a, [blocks |-> file[a].blocks \cup {b}])>>)
                    \o (IF back THEN <<>>
                        ELSE <<Update(b, [blockedBy |-> file[b].blockedBy \cup {a}],
                                        file[b].blockedBy, Nobody)>>))
        /\ UNCHANGED <<fileVars, lockVars, holds, ghostVars, harm, failures>>

\* unassignTeammateTasks, for an agent that was terminated
Unassign(p, q) ==
    LET owned == {i \in Ids : Open(i) /\ file[i].owner = q}
    IN  /\ Calls(p) /\ pc[q] = "dead" /\ owned # {}
        /\ \E order \in SetToSeqs(owned) :
              Works(p, [k \in DOMAIN order |->
                          Plain(order[k], [owner |-> Nobody, status |-> "pending"])])
        /\ UNCHANGED <<fileVars, lockVars, holds, ghostVars, harm, failures>>

\* TaskUpdateTool: a teammate that starts a task nobody owns becomes its owner;
\* a session without a name works on it as well, and leaves it without one
SetStatus(p, id, status) ==
    LET named == p \in Teammates /\ status = "in_progress" /\ file[id].owner = Nobody
        change == status # file[id].status
        worker == IF status = "in_progress" /\ file[id].owner \in {Nobody, p} THEN p ELSE Nobody
    IN  /\ Calls(p) /\ Whole(id)
        /\ \/ named /\ change /\ Works(p, <<Assign(id, [status |-> status, owner |-> p], p)>>)
           \/ named /\ ~change /\ Works(p, <<Assign(id, [owner |-> p], p)>>)
           \/ ~named /\ change /\ Works(p, <<Assign(id, [status |-> status], worker)>>)
        /\ UNCHANGED <<fileVars, lockVars, holds, ghostVars, harm, failures>>

\* TaskUpdateTool: somebody that has a name is made the owner
SetOwner(p, id, owner) ==
    /\ Calls(p) /\ Whole(id) /\ file[id].owner # owner
    /\ Works(p, <<Assign(id, [owner |-> owner], owner)>>)
    /\ UNCHANGED <<fileVars, lockVars, holds, ghostVars, harm, failures>>
-----------------------------------------------------------------------------
(* claimTask, and the work of an agent *)

Claimers == Teammates \cup Watchers

\* The id under which an agent claims
ClaimAs(p) == IF p \in Watchers THEN TheList ELSE p

Available(i) ==
    /\ Whole(i) /\ file[i].status = "pending" /\ file[i].owner = Nobody
    /\ \A b \in file[i].blockedBy : ~Open(b)

\* tryClaimNextTask has found a task
Claim(p) ==
    /\ p \in Claimers /\ pc[p] = "idle" /\ holds[p] = 0
    /\ \E i \in Ids : Available(i) /\ call' = [call EXCEPT ![p].n = i]
    /\ Goes(p, "claim")
    /\ UNCHANGED <<fileVars, lockVars, holds, ghostVars, harm, calls, failures>>

\* A claim is let through: it is not looked at whether the task is in progress,
\* nor which watcher has claimed it
LetThrough(p) ==
    LET task == file[call[p].n] IN
    /\ taskLock' = [taskLock EXCEPT ![call[p].n] = p] /\ Goes(p, "check")
    /\ call' = [call EXCEPT ![p].todo = task.blockedBy]
    /\ Hurt({h \in {"unowned"} : task.owner = Nobody /\ task.status = "in_progress"}
            \cup {h \in {"shared"} : task.owner = TheList})

\* Mutant of ClaimLocks: the owner is not looked at again under the lock
ClaimUnseen(p) ==
    LET id == call[p].n IN
    /\ pc[p] = "claim"
    /\ IF ~Whole(id) THEN Ends(p) /\ UNCHANGED <<taskLock, harm>>
       ELSE taskLock[id] = Nobody /\ LetThrough(p)
    /\ UNCHANGED <<fileVars, listLock, holds, ghostVars, calls, failures>>

\* Mutant of ClaimLocks: the early returns keep the lock
ClaimLeaves(p) ==
    LET id == call[p].n IN
    /\ pc[p] = "claim"
    /\ IF ~Whole(id) THEN Ends(p) /\ UNCHANGED <<taskLock, harm>>
       ELSE /\ taskLock[id] = Nobody
            /\ IF file[id].owner \in {Nobody, ClaimAs(p)} /\ file[id].status # "completed"
               THEN LetThrough(p)
               ELSE taskLock' = [taskLock EXCEPT ![id] = p] /\ Ends(p) /\ UNCHANGED harm
    /\ UNCHANGED <<fileVars, listLock, holds, ghostVars, calls, failures>>

\* The lock and the read under it, or no task is found before
ClaimLocks(p) ==
    LET id == call[p].n IN
    /\ pc[p] = "claim"
    /\ IF ~Whole(id) THEN Ends(p) /\ UNCHANGED <<taskLock, harm>>
       ELSE /\ taskLock[id] = Nobody
            /\ IF file[id].owner \in {Nobody, ClaimAs(p)} /\ file[id].status # "completed"
               THEN LetThrough(p)
               ELSE Ends(p) /\ UNCHANGED <<taskLock, harm>>
    /\ UNCHANGED <<fileVars, listLock, holds, ghostVars, calls, failures>>

\* Mutant of Check: a blocker that is in progress counts as resolved
CheckPending(p) ==
    /\ pc[p] = "check"
    /\ \E b \in call[p].todo :
          IF Open(b) /\ file[b].status = "pending"
          THEN taskLock' = [taskLock EXCEPT ![call[p].n] = Nobody] /\ Ends(p)
          ELSE call' = [call EXCEPT ![p].todo = @ \ {b}] /\ UNCHANGED <<taskLock, pc>>
    /\ UNCHANGED <<fileVars, listLock, holds, ghostVars, harm, calls, failures>>


\* A blocker is read
Check(p) ==
    /\ pc[p] = "check"
    /\ \E b \in call[p].todo :
          IF Open(b)
          THEN /\ taskLock' = [taskLock EXCEPT ![call[p].n] = Nobody] /\ Ends(p)
               /\ UNCHANGED harm
          ELSE /\ call' = [call EXCEPT ![p].todo = @ \ {b}]
               /\ Hurt({w \in {"torn"} : file[b].is = "torn"})
               /\ UNCHANGED <<taskLock, pc>>
    /\ UNCHANGED <<fileVars, listLock, holds, ghostVars, calls, failures>>

\* After the claim a teammate starts the task; a watcher submits it as a prompt,
\* and releases it if it cannot
Started(p, id) == IF p \in Watchers THEN <<>> ELSE <<Plain(id, [status |-> "in_progress"])>>
Released(id) == <<Plain(id, [owner |-> Nobody])>>

\* No blocker is open: the task is read again and written.  It counts as claimed
\* even if it is not there any more.
Take(p) ==
    LET id == call[p].n
        Taken(ws) ==
            IF Whole(id)
            THEN /\ Goes(p, "write")
                 /\ call' = [call EXCEPT ![p] = [NoCall EXCEPT
                               !.work = <<Assign(id, [owner |-> ClaimAs(p)], p)>> \o ws, !.seen = file[id], !.n = id]]
                 /\ UNCHANGED <<taskLock, holds>>
            ELSE /\ taskLock' = [taskLock EXCEPT ![id] = Nobody]
                 /\ holds' = [holds EXCEPT ![p] = id]
                 /\ WorksOn(p, ws, id)
    IN  /\ pc[p] = "check" /\ call[p].todo = {}
        /\ \/ /\ Taken(Started(p, id)) /\ UNCHANGED failures
           \/ /\ p \in Watchers /\ failures < MaxFailures /\ failures' = failures + 1
              /\ Taken(Released(id))
        /\ UNCHANGED <<fileVars, listLock, ghostVars, harm, calls>>

\* The agent has done its task
Complete(p) ==
    /\ pc[p] = "idle" /\ holds[p] # 0
    /\ holds' = [holds EXCEPT ![p] = 0]
    /\ Works(p, IF Open(holds[p]) THEN <<Plain(holds[p], [status |-> "completed"])>> ELSE <<>>)
    /\ UNCHANGED <<fileVars, lockVars, ghostVars, harm, calls, failures>>
-----------------------------------------------------------------------------
(* Failures *)

\* The lock was not free in thirty attempts
GiveUp(p) ==
    /\ failures < MaxFailures /\ failures' = failures + 1
    /\ \/ pc[p] = "lock" /\ There(Todo(p).id) /\ taskLock[Todo(p).id] # Nobody
       \/ pc[p] = "claim" /\ taskLock[call[p].n] # Nobody
    /\ Throws(p)
    /\ UNCHANGED <<fileVars, lockVars, ghostVars, harm, calls>>

\* An agent dies; its locks are stale after ten seconds
Die(p) ==
    /\ failures < MaxFailures /\ failures' = failures + 1
    /\ pc[p] # "dead"
    /\ Goes(p, "dead") /\ call' = [call EXCEPT ![p] = NoCall]
    /\ holds' = [holds EXCEPT ![p] = 0]
    /\ listLock' = IF listLock = p THEN Nobody ELSE listLock
    /\ taskLock' = [i \in Ids |-> IF taskLock[i] = p THEN Nobody ELSE taskLock[i]]
    /\ UNCHANGED <<fileVars, ghostVars, harm, calls>>
-----------------------------------------------------------------------------
\* The steps that go on with a call
Step(p) ==
    \/ CreateOpens(p) \/ CreateFills(p)
    \/ MarkOpens(p) \/ MarkFills(p) \/ Unlink(p) \/ Cascade(p)
    \/ ResetMarks(p) \/ ResetLists(p) \/ ResetClears(p)
    \/ Lock(p) \/ Write(p) \/ Fill(p)
    \/ ClaimLocks(p) \/ Check(p) \/ Take(p)

Next ==
    \E p \in Agents :
        \/ Step(p) \/ Claim(p) \/ Complete(p) \/ Create(p) \/ Reset(p)
        \/ \E id \in Ids : Delete(p, id)
        \/ \E a, b \in Ids : Block(p, a, b)
        \/ \E q \in Agents : Unassign(p, q)
        \/ \E id \in Ids, status \in Statuses : SetStatus(p, id, status)
        \/ \E id \in Ids, owner \in Agents \ Watchers : SetOwner(p, id, owner)
        \/ GiveUp(p) \/ Die(p)

\* Calls go on, and a free agent polls the list; nobody has to complete a task
Fairness ==
    /\ \A p \in Agents : WF_vars(Step(p))
    /\ \A p \in Claimers : WF_vars(Claim(p))

Spec == Init /\ [][Next]_vars /\ Fairness
-----------------------------------------------------------------------------
Task ==
    [is : {"absent", "torn", "whole"}, status : Statuses, owner : Agents \cup {TheList, Nobody},
     blocks : SUBSET Ids, blockedBy : SUBSET Ids]

\* Where a call holds the lock of the list, and of a task
InNumbering(p) ==
    \/ pc[p] \in {"highest", "fillnew", "resetmark", "readdir", "clear"}
    \/ pc[p] \in {"mark", "markfill"} /\ call[p].next = "readdir"
InTask(p, i) ==
    \/ pc[p] = "check" /\ call[p].n = i
    \/ pc[p] \in {"write", "fill"} /\ Todo(p).id = i

\* The values are of their types, and a call holds exactly the locks of the
\* part of the code it is in
TypeOK ==
    /\ file \in [Ids -> Task] /\ mark \in 0..MaxId
    /\ listLock \in Agents \cup {Nobody} /\ taskLock \in [Ids -> Agents \cup {Nobody}]
    /\ holds \in [Agents -> 0..MaxId]
    /\ issued \subseteq Ids /\ deps \subseteq Ids \X Ids
    /\ calls \in 0..MaxCalls /\ failures \in 0..MaxFailures
    /\ \A p \in Agents :
          /\ (listLock = p) <=> InNumbering(p)
          /\ \A i \in Ids : (taskLock[i] = p) <=> InTask(p, i)

\* Two agents do not work on the same task: a claim takes no task from the agent
\* that works on it.  Unless an update that is no claim took the task from that
\* agent; or a claim was let through to a task in progress without an owner, as a
\* session without a name starts it; or to one that another watcher has; or an
\* id was given out twice.
OneWorker ==
    \A p, q \in Agents :
        p # q /\ holds[p] = holds[q] /\ holds[p] # 0 =>
            harm \cap {"taken", "unowned", "shared", "reused"} # {}

\* An id is not given out again, unless a deletion overlapped with another one
\* or with a creation: the mark is written before the file goes, and an agent
\* that dies amid either leaves one of them behind.
IdsAreFresh == "reused" \in harm => "overlap" \in harm

\* A dependency that was recorded is still there when both tasks are, unless a
\* list of blockers was written that had been read before another change, or an
\* id stands for two tasks: no claim or change of status undoes it.
DependenciesKept ==
    \/ harm \cap {"stale", "resurrected", "reused"} # {}
    \/ \A d \in deps : Whole(d[2]) => d[1] \in file[d[2]].blockedBy

\* A task is not claimed while one that blocks it is open, unless that one was
\* being written when it was read, was opened again or came back from deletion.
ClaimsRespectBlockers ==
    [][ \A p \in Agents :
          Take(p) => \/ harm \cap {"torn", "reopened", "resurrected", "reused"} # {}
                     \/ \A b \in file[call[p].n].blockedBy : ~Open(b) ]_vars

=============================================================================
