--------------------------- MODULE TaskListProofs ---------------------------
(***************************************************************************)
(* Theorems about TaskList, for every number of agents, tasks, calls and   *)
(* failures.  Each of the properties excludes what a kind of harm does; so *)
(* does the part of the invariant it rests on.                             *)
(***************************************************************************)
EXTENDS TaskList, FiniteSetTheorems, WellFoundedInduction, TLAPS

Clean(S) == harm \cap S = {}

-----------------------------------------------------------------------------
(* The invariant                                                            *)

PCs == {"idle", "dead", "highest", "fillnew", "mark", "markfill", "unlink", "list",
        "resetmark", "readdir", "clear", "lock", "write", "fill", "claim", "check"}
Holders == Agents \cup {Nobody}
Owners == (Agents \ Watchers) \cup {TheList, Nobody}
OwnerFor(a) == IF a = Nobody THEN Nobody ELSE ClaimAs(a)

\* Tasks, updates and calls when the ids I were given out
Tasks(I) ==
    [is : {"absent", "torn", "whole"}, status : Statuses, owner : Owners,
     blocks : SUBSET Ids, blockedBy : SUBSET I]
Settings(I) ==
    [status : Statuses] \cup [owner : Owners] \cup [status : Statuses, owner : Owners]
    \cup [blocks : SUBSET Ids] \cup [blockedBy : SUBSET I]
    \cup [blocks : SUBSET Ids, blockedBy : SUBSET I]

\* Whom an update is for becomes the owner, or starts the task
Agrees(set, for) ==
    /\ "owner" \in DOMAIN set => set.owner = OwnerFor(for)
    /\ for # Nobody /\ "owner" \notin DOMAIN set =>
         "status" \in DOMAIN set /\ set.status = "in_progress"
Updates(I) ==
    {u \in [id : I, set : Settings(I), from : SUBSET I, for : Holders] : Agrees(u.set, u.for)}
Unassigned(ws) == \A k \in DOMAIN ws : ws[k].for = Nobody

CallRecords(I) ==
    [work : Seq(Updates(I)), seen : Tasks(I), todo : SUBSET Ids, n : I \cup {0},
     next : {"idle", "mark", "files", "unlink", "readdir"}]

\* What a call knows where it stands
CallOK(p) ==
    /\ pc[p] = "highest" => call[p].next \in {"mark", "files"} /\ MaxId \notin issued
    /\ pc[p] \in {"mark", "markfill"} => call[p].next \in {"unlink", "readdir"}
    /\ pc[p] \in {"mark", "markfill", "fillnew", "unlink", "list", "claim", "check"} =>
         call[p].n # 0
    /\ pc[p] \in {"lock", "write", "fill"} => call[p].work # <<>>
    /\ pc[p] \in {"write", "fill"} => call[p].seen.is = "whole"
    /\ pc[p] = "lock" /\ call[p].n # 0 => Unassigned(call[p].work)
    /\ pc[p] \in {"write", "fill"} /\ call[p].n # 0 => Unassigned(Tail(call[p].work))

Types ==
    /\ file \in [Ids -> Tasks(issued)] /\ issued \subseteq Ids
    /\ mark \in issued \cup {0} /\ \A i \in Ids : There(i) => i \in issued
    /\ listLock \in Holders /\ taskLock \in [Ids -> Holders]
    /\ holds \in [Agents -> issued \cup {0}]
    /\ pc \in [Agents -> PCs] /\ call \in [Agents -> CallRecords(issued)]
    /\ calls \in 0..MaxCalls /\ failures \in 0..MaxFailures

Locked ==
    \A p \in Agents :
        /\ (listLock = p) <=> InNumbering(p)
        /\ \A i \in Ids : (taskLock[i] = p) <=> InTask(p, i)

TypeInv == Types /\ Locked /\ \A p \in Agents : CallOK(p)

\* A task that is created is nobody's yet, and the lock of a task protects its file
NewInv ==
    Clean({"reused"}) =>
    /\ \A p \in Agents : pc[p] = "fillnew" =>
         /\ ~Whole(call[p].n)
         /\ \A q \in Agents : holds[q] # call[p].n /\ ~InTask(q, call[p].n)
    /\ \A p \in Agents : pc[p] = "write" /\ Whole(Todo(p).id) => file[Todo(p).id] = call[p].seen
    /\ \A p \in Agents : pc[p] = "fill" => ~Whole(Todo(p).id)

\* No claim that looks at the task takes it from a: a is its owner, or has
\* started it without becoming its owner
Protected(task, a) ==
    task.owner = ClaimAs(a) \/ (task.owner = Nobody /\ task.status # "pending")

Unfair == {"taken", "unowned", "shared", "reused"}

\* Who works on a task is protected by its file, and by what an update has read
\* of it; a claim that holds the lock has nobody else to fear
HoldInv ==
    Clean(Unfair) =>
    /\ \A p, q \in Agents : p # q /\ holds[p] = holds[q] => holds[p] = 0
    /\ \A p \in Agents, i \in Ids : holds[p] = i /\ Whole(i) => Protected(file[i], p)
    /\ \A p, q \in Agents :
         pc[q] \in {"write", "fill"} /\ holds[p] = Todo(q).id =>
             Protected(call[q].seen, p) /\ (Claiming(q) => p = q)
    /\ \A p, q \in Agents : pc[q] = "check" /\ holds[p] = call[q].n => p = q

\* An id that was given out is at most the mark or that of a file
Covered(i, m) == i <= m \/ \E j \in Ids : i <= j /\ There(j)

\* One deletion or creation at a time, and what its reads were good for
FreshInv ==
    Clean({"overlap"}) =>
    /\ Clean({"reused"})
    /\ \A p, q \in Agents : Numbering(p) /\ Numbering(q) => p = q
    /\ \A i \in issued : Covered(i, mark)
    /\ \A p \in Agents :
         /\ pc[p] = "highest" /\ call[p].next = "mark" =>
              \A i \in issued : i <= call[p].n \/ i <= mark
         /\ pc[p] = "highest" /\ call[p].next = "files" =>
              \A i \in issued : Covered(i, call[p].n)
         /\ pc[p] \in {"mark", "markfill"} => There(call[p].n) /\ call[p].n > mark
         /\ pc[p] \in {"mark", "markfill"} /\ call[p].next = "readdir" =>
              \A i \in issued : i <= call[p].n
         /\ pc[p] = "unlink" => call[p].n <= mark
         /\ pc[p] = "resetmark" =>
              /\ call[p].n = 0 \/ There(call[p].n)
              /\ \A i \in issued : i <= call[p].n \/ i <= mark
         /\ pc[p] \in {"readdir", "clear"} => \A i \in issued : i <= mark

\* What an update is going to write still has the dependencies that were
\* recorded: it leaves out only tasks that are gone
DepInv ==
    /\ \A d \in deps : d \in Ids \X Ids /\ There(d[1]) /\ There(d[2])
    /\ Clean({"stale", "resurrected", "reused"}) =>
       /\ \A d \in deps : Whole(d[2]) => d[1] \in file[d[2]].blockedBy
       /\ \A p \in Agents : pc[p] \in {"write", "fill"} =>
            \A d \in deps : d[2] = Todo(p).id => d[1] \in call[p].seen.blockedBy
       /\ \A p \in Agents : pc[p] = "list" => ~There(call[p].n)
       /\ \A p \in Agents : pc[p] = "fillnew" => \A d \in deps : d[2] # call[p].n
       /\ \A p \in Agents : \A k \in DOMAIN call[p].work :
            LET w == call[p].work[k] IN
            "blockedBy" \in DOMAIN w.set =>
                \A b \in w.from \ w.set.blockedBy : ~There(b)

\* A blocker that a claim has read cannot open while the claim goes on
Resolved(b) ==
    /\ ~Open(b)
    /\ \A q \in Agents :
         /\ pc[q] \in {"write", "fill"} /\ Todo(q).id = b =>
              ~There(b) \/ call[q].seen.status = "completed"
         /\ pc[q] = "fillnew" /\ call[q].n = b => ~There(b)

BlockInv ==
    Clean({"torn", "reopened", "resurrected", "reused"}) =>
    \A p \in Agents : pc[p] = "check" =>
        \A b \in file[call[p].n].blockedBy \ call[p].todo : Resolved(b)

-----------------------------------------------------------------------------
(* The highest id                                                           *)

\* The least number principle
LEMMA LeastNat ==
    ASSUME NEW T \in SUBSET Nat, T # {}
    PROVE  \E x \in T : \A y \in T : x <= y
<1>1. PICK R : R = {ss \in Nat \X Nat : ss[1] < ss[2]}
  OBVIOUS
<1>2. IsWellFoundedOn(R, Nat)
  BY <1>1, NatLessThanWellFounded DEF OpToRel
<1>3. PICK x \in T : \A y \in T : ~ (<<y, x>> \in R)
  BY <1>2, WFMin
<1>4. \A y \in T : ~(y < x)
  BY <1>1, <1>3
<1> QED
  BY <1>3, <1>4

LEMMA MaxOfTwo ==
    ASSUME NEW a \in Nat, NEW b \in Nat
    PROVE  Max({a, b}) \in {a, b} /\ Max({a, b}) >= a /\ Max({a,b}) >= b
<1>1. \E x \in {a,b} : \A y \in {a,b} : x >= y
  OBVIOUS
<1> QED BY <1>1 DEF Max

LEMMA MaxOf ==
    ASSUME NEW S \in SUBSET Nat, S # {}, NEW m \in Nat, \A x \in S : x <= m
    PROVE  Max(S) \in S /\ \A x \in S : Max(S) >= x
<1> DEFINE T == {n \in Nat : \A x \in S : x <= n}
<1>1. PICK n \in T : \A y \in T : n <= y
  <2>1. T \in SUBSET Nat /\ m \in T
    OBVIOUS
  <2> HIDE DEF T
  <2> QED BY <2>1, LeastNat
<1>2. n \in S
  <2> SUFFICES ASSUME n \notin S PROVE FALSE
    OBVIOUS
  <2>1. \A x \in S : x <= n - 1
    BY <1>1
  <2>2. n # 0
    <3>1. PICK x \in S : x <= n /\ x # n
      BY <1>1
    <3> QED
      BY <3>1, <1>1
  <2>3. n - 1 \in T
    BY <2>1, <2>2, <1>1
  <2> QED BY <2>3, <1>1
<1>3. \E x \in S : \A y \in S : x >= y
  BY <1>1, <1>2
<1> QED BY <1>3 DEF Max

LEMMA HighestFacts ==
    ASSUME TypeInv
    PROVE  /\ Highest \in issued \cup {0} /\ (Highest # 0 => There(Highest))
           /\ \A i \in Ids : There(i) => i <= Highest
<1> DEFINE S == {0} \cup {i \in Ids : There(i)}
<1>1. S \in SUBSET Nat /\ S # {} /\ MaxId \in Nat /\ \A x \in S : x <= MaxId
  BY TaskBounds DEF Ids
<1>2. Max(S) \in S /\ \A x \in S : Max(S) >= x
  <2> HIDE DEF S
  <2> QED
    BY <1>1, MaxOf
<1>3. Max(S) \in Nat /\ Max(S) = Highest
  BY <1>1, <1>2 DEF Highest
<1>4. \A i \in Ids : There(i) => i \in issued
  BY DEF TypeInv, Types
<1> QED
  BY <1>1, <1>2, <1>3, <1>4 DEF Ids

-----------------------------------------------------------------------------
(* Types                                                                    *)

LEMMA SeqOver ==
    ASSUME NEW S, NEW T, S \subseteq T, NEW q \in Seq(S)
    PROVE  q \in Seq(T)
<1>1. Len(q) \in Nat /\ DOMAIN q = 1..Len(q) /\ \A i \in 1..Len(q) : q[i] \in S
  OBVIOUS
<1>2. \A i \in 1..Len(q) : q[i] \in T
  BY <1>1
<1> QED
  BY <1>1, <1>2

\* What is typed stays typed when another id is given out
LEMMA MoreIds ==
    ASSUME NEW I, NEW J, I \subseteq J
    PROVE  Tasks(I) \subseteq Tasks(J) /\ CallRecords(I) \subseteq CallRecords(J)
<1>1. Tasks(I) \subseteq Tasks(J)
  BY DEF Tasks
<1>2. Settings(I) \subseteq Settings(J)
  BY DEF Settings
<1>3. Updates(I) \subseteq Updates(J)
  BY <1>2 DEF Updates
<1>4. \A q \in Seq(Updates(I)) : q \in Seq(Updates(J))
  BY <1>3, SeqOver
<1> QED
  BY <1>1, <1>4 DEF CallRecords

LEMMA BasicTypes ==
    ASSUME NEW I
    PROVE  /\ NoTask \in Tasks(I) /\ NewTask \in Tasks(I) /\ Torn \in Tasks(I)
           /\ NoTask.is = "absent" /\ NewTask.is = "whole" /\ Torn.is = "torn"
           /\ NewTask.owner = Nobody /\ NewTask.blockedBy = {} /\ NoTask.blockedBy = {}
           /\ NewTask.status = "pending"
           /\ NoCall \in CallRecords(I) /\ NoCall.work = <<>> /\ NoCall.n = 0
           /\ NoCall.seen = NoTask /\ NoCall.todo = {} /\ NoCall.next = "idle"
<1>1. /\ NoTask \in Tasks(I) /\ NewTask \in Tasks(I) /\ Torn \in Tasks(I)
      /\ NoTask.is = "absent" /\ NewTask.is = "whole" /\ Torn.is = "torn"
      /\ NewTask.owner = Nobody /\ NewTask.blockedBy = {} /\ NoTask.blockedBy = {}
      /\ NewTask.status = "pending"
  BY DEF Tasks, NoTask, NewTask, Torn, Statuses, Owners
<1>2. /\ NoCall.work = <<>> /\ NoCall.n = 0
      /\ NoCall.seen = NoTask /\ NoCall.todo = {} /\ NoCall.next = "idle"
  BY DEF NoCall
<1>3. NoCall \in CallRecords(I)
  BY <1>1 DEF NoCall, CallRecords
<1> QED
  BY <1>1, <1>2, <1>3

\* The first of the updates a call still has to make
LEMMA TodoFacts ==
    ASSUME TypeInv, NEW p \in Agents, call[p].work # <<>>
    PROVE  /\ Todo(p) \in Updates(issued) /\ Todo(p).id \in issued /\ Todo(p).id \in Ids
           /\ Todo(p).set \in Settings(issued) /\ Todo(p).from \subseteq issued
           /\ Todo(p).for \in Holders /\ Agrees(Todo(p).set, Todo(p).for)
           /\ Tail(call[p].work) \in Seq(Updates(issued))
<1>1. call[p] \in CallRecords(issued) /\ issued \subseteq Ids
  BY DEF TypeInv, Types
<1>2. call[p].work \in Seq(Updates(issued))
  BY <1>1 DEF CallRecords
<1>3. Head(call[p].work) \in Updates(issued) /\ Tail(call[p].work) \in Seq(Updates(issued))
  BY <1>2
<1> QED
  BY <1>1, <1>3 DEF Todo, Updates

\* What is known of an agent, its place and its call
LEMMA AgentFacts ==
    ASSUME TypeInv, NEW p \in Agents
    PROVE  /\ pc[p] \in PCs /\ call[p] \in CallRecords(issued) /\ CallOK(p)
           /\ call[p].seen \in Tasks(issued) /\ call[p].todo \subseteq Ids
           /\ call[p].n \in issued \cup {0} /\ call[p].work \in Seq(Updates(issued))
           /\ call[p].next \in {"idle", "mark", "files", "unlink", "readdir"}
           /\ holds[p] \in issued \cup {0}
BY DEF TypeInv, Types, CallRecords

\* p goes to s with the call c; the other agents stay where they are
Moves(p, s, c) ==
    /\ pc' = [pc EXCEPT ![p] = s] /\ call' = [call EXCEPT ![p] = c]

\* A step of p keeps the types if it keeps those of what it writes
LEMMA MoveKeeps ==
    ASSUME TypeInv, NEW p \in Agents, NEW s \in PCs, NEW c \in CallRecords(issued'), Moves(p, s, c),
           issued \subseteq issued', issued' \subseteq Ids,
           MaxId \in issued' => MaxId \in issued \/ listLock = p,
           CallOK(p)',
           listLock' \in Holders, taskLock' \in [Ids -> Holders],
           \A q \in Agents \ {p} : (listLock' = q) <=> (listLock = q),
           \A q \in Agents \ {p}, i \in Ids : (taskLock'[i] = q) <=> (taskLock[i] = q),
           (listLock' = p) <=> InNumbering(p)',
           \A i \in Ids : (taskLock'[i] = p) <=> InTask(p, i)',
           file' \in [Ids -> Tasks(issued')],
           \A i \in Ids : There(i)' => i \in issued',
           mark' \in issued' \cup {0}, holds' \in [Agents -> issued' \cup {0}],
           calls' \in 0..MaxCalls, failures' \in 0..MaxFailures
    PROVE  TypeInv'
<1>1. pc \in [Agents -> PCs] /\ call \in [Agents -> CallRecords(issued)]
  BY DEF TypeInv, Types
<1>2. call \in [Agents -> CallRecords(issued')]
  BY <1>1, MoreIds
<1>3. pc' \in [Agents -> PCs] /\ call' \in [Agents -> CallRecords(issued')]
  BY <1>1, <1>2 DEF Moves
<1>4. \A q \in Agents \ {p} : pc'[q] = pc[q] /\ call'[q] = call[q]
  BY <1>1 DEF Moves
<1>5. Types'
  BY <1>3 DEF Types
<1>6. Locked'
  <2>1. ASSUME NEW q \in Agents \ {p} PROVE InNumbering(q)' <=> InNumbering(q)
    BY <1>4 DEF InNumbering
  <2>2. ASSUME NEW q \in Agents \ {p}, NEW i \in Ids PROVE InTask(q, i)' <=> InTask(q, i)
    BY <1>4 DEF InTask, Todo
  <2> QED
    BY <2>1, <2>2 DEF Locked, TypeInv
<1>7. ASSUME NEW q \in Agents \ {p} PROVE CallOK(q)'
  <2>1. pc[q] = "highest" => listLock = q
    BY DEF TypeInv, Locked, InNumbering
  <2>2. pc[q] = "highest" => MaxId \notin issued'
    BY <2>1 DEF TypeInv, CallOK
  <2> QED
    BY <1>4, <2>2 DEF TypeInv, CallOK
<1> QED
  BY <1>5, <1>6, <1>7 DEF TypeInv

LEMMA MoveFacts ==
    ASSUME TypeInv, NEW p \in Agents, NEW s, NEW c, Moves(p, s, c)
    PROVE  /\ pc'[p] = s /\ call'[p] = c
           /\ \A q \in Agents : q # p => pc'[q] = pc[q] /\ call'[q] = call[q]
<1>1. pc \in [Agents -> PCs] /\ call \in [Agents -> CallRecords(issued)]
  BY DEF TypeInv, Types
<1> QED
  BY <1>1 DEF Moves

\* The same for a step that leaves the locks and the ids
LEMMA QuietKeeps ==
    ASSUME TypeInv, NEW p \in Agents, NEW s \in PCs, NEW c \in CallRecords(issued), Moves(p, s, c),
           CallOK(p)', UNCHANGED <<lockVars, issued>>,
           InNumbering(p)' <=> InNumbering(p), \A i \in Ids : InTask(p, i)' <=> InTask(p, i),
           file' \in [Ids -> Tasks(issued)], \A i \in Ids : There(i)' => i \in issued,
           mark' \in issued \cup {0}, holds' \in [Agents -> issued \cup {0}],
           calls' \in 0..MaxCalls, failures' \in 0..MaxFailures
    PROVE  TypeInv'
<1>1. issued' = issued /\ listLock' = listLock /\ taskLock' = taskLock
  BY DEF lockVars
<1>2. Types /\ Locked
  BY DEF TypeInv
<1>3. issued \subseteq Ids /\ listLock \in Holders /\ taskLock \in [Ids -> Holders]
  BY <1>2 DEF Types
<1>4. (listLock = p) <=> InNumbering(p)
  BY <1>2 DEF Locked
<1>5. \A i \in Ids : (taskLock[i] = p) <=> InTask(p, i)
  BY <1>2 DEF Locked
<1> QED
  BY <1>1, <1>3, <1>4, <1>5, MoveKeeps

\* What nothing changes
LEMMA Kept ==
    ASSUME TypeInv
    PROVE  /\ file \in [Ids -> Tasks(issued)] /\ \A i \in Ids : There(i) => i \in issued
           /\ issued \subseteq Ids /\ mark \in issued \cup {0}
           /\ holds \in [Agents -> issued \cup {0}]
           /\ listLock \in Holders /\ taskLock \in [Ids -> Holders]
           /\ calls \in 0..MaxCalls /\ failures \in 0..MaxFailures
           /\ calls < MaxCalls => calls + 1 \in 0..MaxCalls
           /\ failures < MaxFailures => failures + 1 \in 0..MaxFailures
BY TaskBounds DEF TypeInv, Types

\* A call that ends holds no lock
LEMMA EndFacts ==
    ASSUME TypeInv, NEW p \in Agents, Ends(p)
    PROVE  /\ Moves(p, "idle", NoCall) /\ NoCall \in CallRecords(issued) /\ CallOK(p)'
           /\ ~InNumbering(p)' /\ \A i \in Ids : ~InTask(p, i)'
<1>1. Moves(p, "idle", NoCall)
  BY DEF Ends, Goes, Moves
<1>2. pc'[p] = "idle"
  BY <1>1, MoveFacts
<1> QED
  BY <1>1, <1>2, BasicTypes DEF CallOK, InNumbering, InTask

LEMMA UnassignedTail ==
    ASSUME NEW I, NEW ws \in Seq(Updates(I)), ws # <<>>, Unassigned(ws)
    PROVE  Unassigned(Tail(ws)) /\ Head(ws).for = Nobody
<1>1. \A k \in DOMAIN Tail(ws) : Tail(ws)[k] = ws[k + 1] /\ k + 1 \in DOMAIN ws
  OBVIOUS
<1>2. Head(ws) = ws[1] /\ 1 \in DOMAIN ws
  OBVIOUS
<1> QED
  BY <1>1, <1>2 DEF Unassigned

\* A call that has updates to make goes on with the first
LEMMA WorkFacts ==
    ASSUME TypeInv, NEW p \in Agents, NEW ws \in Seq(Updates(issued)), NEW n \in issued \cup {0},
           n = 0 \/ Unassigned(ws), WorksOn(p, ws, n)
    PROVE  \E s \in {"idle", "lock"}, c \in CallRecords(issued) :
              /\ Moves(p, s, c) /\ CallOK(p)'
              /\ s = "idle" => c = NoCall
              /\ s = "lock" => c.work = ws /\ ws # <<>> /\ c.n = n
              /\ ~InNumbering(p)' /\ \A i \in Ids : ~InTask(p, i)'
<1>1. CASE ws = <<>>
  <2>1. Ends(p)
    BY <1>1 DEF WorksOn
  <2> QED
    BY <2>1, EndFacts
<1>2. CASE ws # <<>>
  <2> DEFINE c == [NoCall EXCEPT !.work = ws, !.n = n]
  <2>1. Moves(p, "lock", c)
    BY <1>2 DEF WorksOn, Goes, Moves
  <2>2. c \in CallRecords(issued) /\ c.work = ws /\ c.n = n
    <3>1. NoTask \in Tasks(issued)
      BY BasicTypes
    <3> QED
      BY <3>1 DEF NoCall, CallRecords
  <2> HIDE DEF c
  <2>3. pc'[p] = "lock" /\ call'[p] = c
    BY <2>1, MoveFacts
  <2>4. CallOK(p)' /\ ~InNumbering(p)' /\ \A i \in Ids : ~InTask(p, i)'
    BY <1>2, <2>2, <2>3 DEF CallOK, InNumbering, InTask
  <2> QED
    BY <1>2, <2>1, <2>2, <2>4
<1> QED
  BY <1>1, <1>2

LEMMA CreateTypes ==
    ASSUME TypeInv, NEW p \in Agents, Create(p)
    PROVE  TypeInv'
<1>1. PICK c \in CallRecords(issued) : Moves(p, "highest", c) /\ c.next \in {"mark", "files"}
  <2>1. call[p] \in CallRecords(issued)
    BY AgentFacts
  <2>4. mark \in issued \cup {0}
    BY Kept
  <2>5. Highest \in issued \cup {0}
    BY HighestFacts
  <2>2. CASE call' = [call EXCEPT ![p].n = Highest, ![p].next = "mark"]
    <3> DEFINE c == [call[p] EXCEPT !.n = Highest, !.next = "mark"]
    <3>1. c \in CallRecords(issued) /\ c.next = "mark"
      BY <2>1, <2>5 DEF CallRecords
    <3>2. Moves(p, "highest", c)
      BY <2>2 DEF Create, Goes, Moves
    <3> QED
      BY <3>1, <3>2
  <2>3. CASE call' = [call EXCEPT ![p].n = mark, ![p].next = "files"]
    <3> DEFINE c == [call[p] EXCEPT !.n = mark, !.next = "files"]
    <3>1. c \in CallRecords(issued) /\ c.next = "files"
      BY <2>1, <2>4 DEF CallRecords
    <3>2. Moves(p, "highest", c)
      BY <2>3 DEF Create, Goes, Moves
    <3> QED
      BY <3>1, <3>2
  <2> QED
    BY <2>2, <2>3 DEF Create
<1>2. pc'[p] = "highest" /\ call'[p] = c
  BY <1>1, MoveFacts
<1>3. /\ listLock = Nobody /\ listLock' = p /\ taskLock' = taskLock /\ issued' = issued
      /\ file' = file /\ mark' = mark /\ holds' = holds /\ failures' = failures
      /\ calls < MaxCalls /\ calls' = calls + 1 /\ pc[p] = "idle" /\ MaxId \notin issued
  BY DEF Create, Calls, lockVars, fileVars, ghostVars
<1>4. CallOK(p)' /\ InNumbering(p)' /\ \A i \in Ids : ~InTask(p, i)'
  BY <1>1, <1>2, <1>3 DEF CallOK, InNumbering, InTask
<1>5. \A i \in Ids : taskLock[i] # p
  BY <1>3 DEF TypeInv, Locked, InTask
<1>6. \A i \in Ids : There(i)' => i \in issued
  BY <1>3, Kept DEF There
<1> QED
  BY <1>1, <1>3, <1>4, <1>5, <1>6, Kept, MoveKeeps, AgentsAssumption DEF Holders, PCs

LEMMA CreateOpensTypes ==
    ASSUME TypeInv, NEW p \in Agents, CreateOpens(p)
    PROVE  TypeInv'
<1> DEFINE other == IF call[p].next = "mark" THEN mark ELSE Highest
           id == Max({call[p].n, other}) + 1
<1>1. /\ pc[p] = "highest" /\ file' = [file EXCEPT ![id] = Torn] /\ issued' = issued \cup {id}
      /\ Goes(p, "fillnew") /\ call' = [call EXCEPT ![p].n = id]
      /\ mark' = mark /\ listLock' = listLock /\ taskLock' = taskLock /\ holds' = holds
      /\ calls' = calls /\ failures' = failures
  BY DEF CreateOpens, lockVars
<1>2. id \in Ids
  <2>1. call[p].n \in issued \cup {0} /\ other \in issued \cup {0} /\ MaxId \notin issued
    BY <1>1, AgentFacts, HighestFacts, Kept DEF CallOK
  <2> HIDE DEF other
  <2>2. issued \subseteq 1..MaxId /\ MaxId \in Nat \ {0}
    BY Kept, TaskBounds DEF Ids
  <2>5. \A x \in issued \cup {0} : x \in 0..(MaxId - 1)
    <3> SUFFICES ASSUME NEW x \in issued \cup {0} PROVE x \in 0..(MaxId - 1)
      OBVIOUS
    <3>1. x # MaxId
      BY <2>1, <2>2
    <3>2. x \in 0..MaxId
      BY <2>2
    <3> QED
      BY <2>2, <3>1, <3>2
  <2>3. call[p].n \in 0..(MaxId - 1) /\ other \in 0..(MaxId - 1)
    BY <2>1, <2>5
  <2>4. Max({call[p].n, other}) \in 0..(MaxId - 1)
    BY <2>3, MaxOfTwo, TaskBounds
  <2> QED
    BY <2>4, TaskBounds DEF Ids
<1> HIDE DEF id
<1> DEFINE c == [call[p] EXCEPT !.n = id]
<1>3. Moves(p, "fillnew", c)
  BY <1>1 DEF Moves, Goes
<1>4. c \in CallRecords(issued') /\ c.n = id
  <2>1. call[p] \in CallRecords(issued')
    BY <1>1, AgentFacts, MoreIds
  <2> QED
    BY <1>1, <2>1 DEF CallRecords
<1> HIDE DEF c
<1>5. pc'[p] = "fillnew" /\ call'[p] = c
  BY <1>3, MoveFacts
<1>6. listLock = p /\ \A i \in Ids : taskLock[i] # p
  BY <1>1 DEF TypeInv, Locked, InNumbering, InTask
<1>7. CallOK(p)' /\ InNumbering(p)' /\ \A i \in Ids : ~InTask(p, i)'
  <2>1. id # 0
    BY <1>2, TaskBounds DEF Ids
  <2> QED
    BY <1>4, <1>5, <2>1 DEF CallOK, InNumbering, InTask
<1>8. file' \in [Ids -> Tasks(issued')]
  <2>1. file \in [Ids -> Tasks(issued')] /\ Torn \in Tasks(issued')
    BY <1>1, Kept, MoreIds, BasicTypes
  <2> QED
    BY <1>1, <2>1
<1>9. \A i \in Ids : There(i)' => i \in issued'
  BY <1>1, Kept DEF There
<1>10. issued' \subseteq Ids
  BY <1>1, <1>2, Kept
<1>11. mark' \in issued' \cup {0} /\ holds' \in [Agents -> issued' \cup {0}]
  BY <1>1, Kept
<1> QED
  BY <1>1, <1>3, <1>4, <1>6, <1>7, <1>8, <1>9, <1>10, <1>11, Kept, MoveKeeps DEF PCs

LEMMA CreateFillsTypes ==
    ASSUME TypeInv, NEW p \in Agents, CreateFills(p)
    PROVE  TypeInv'
<1>1. /\ pc[p] = "fillnew" /\ listLock' = Nobody /\ Ends(p)
      /\ file' = [file EXCEPT ![call[p].n] = IF @.is = "absent" THEN @ ELSE NewTask]
      /\ mark' = mark /\ taskLock' = taskLock /\ holds' = holds /\ issued' = issued
      /\ calls' = calls /\ failures' = failures
  BY DEF CreateFills, ghostVars
<1>2. listLock = p /\ \A i \in Ids : taskLock[i] # p
  BY <1>1 DEF TypeInv, Locked, InNumbering, InTask
<1>3. call[p].n \in Ids /\ call[p].n \in issued
  BY <1>1, AgentFacts, Kept DEF CallOK
<1>4. file' \in [Ids -> Tasks(issued)] /\ \A i \in Ids : There(i)' => There(i)
  BY <1>1, <1>3, Kept, BasicTypes DEF There
<1> QED
  BY <1>1, <1>2, <1>4, EndFacts, Kept, MoveKeeps, AgentsAssumption DEF Holders, PCs

\* A call that compares the mark with an id goes on to write it, or past that
LEMMA MarksFacts ==
    ASSUME TypeInv, NEW p \in Agents, NEW id \in issued \cup {0}, NEW then \in {"unlink", "readdir"},
           Marks(p, id, then)
    PROVE  \E s \in {"mark", then}, c \in CallRecords(issued) :
              /\ Moves(p, s, c) /\ c.n = id /\ s = (IF id > mark THEN "mark" ELSE then)
              /\ s = "mark" => c.next = then
<1>1. call[p] \in CallRecords(issued)
  BY AgentFacts
<1>2. CASE id > mark
  <2> DEFINE c == [call[p] EXCEPT !.n = id, !.next = then]
  <2>1. c \in CallRecords(issued) /\ c.n = id /\ c.next = then
    BY <1>1 DEF CallRecords
  <2>2. Moves(p, "mark", c)
    BY <1>2 DEF Marks, Goes, Moves
  <2> HIDE DEF c
  <2> QED
    BY <1>2, <2>1, <2>2
<1>3. CASE ~(id > mark)
  <2> DEFINE c == [call[p] EXCEPT !.n = id]
  <2>1. c \in CallRecords(issued) /\ c.n = id
    BY <1>1 DEF CallRecords
  <2>2. Moves(p, then, c)
    BY <1>3 DEF Marks, Goes, Moves
  <2> HIDE DEF c
  <2> QED
    BY <1>3, <2>1, <2>2
<1> QED
  BY <1>2, <1>3

LEMMA DeleteTypes ==
    ASSUME TypeInv, NEW p \in Agents, NEW id \in Ids, Delete(p, id)
    PROVE  TypeInv'
<1>1. /\ pc[p] = "idle" /\ Whole(id) /\ Marks(p, id, "unlink") /\ calls < MaxCalls
      /\ calls' = calls + 1 /\ file' = file /\ mark' = mark /\ UNCHANGED <<lockVars, issued>>
      /\ holds' = holds /\ failures' = failures
  BY DEF Delete, Calls, fileVars, ghostVars
<1>2. id \in issued
  BY <1>1, Kept DEF Whole, There
<1>3. PICK s \in {"mark", "unlink"}, c \in CallRecords(issued) :
         Moves(p, s, c) /\ c.n = id /\ (s = "mark" => c.next = "unlink")
  BY <1>1, <1>2, MarksFacts
<1>4. pc'[p] = s /\ call'[p] = c
  BY <1>3, MoveFacts
<1>5. CallOK(p)' /\ ~InNumbering(p)' /\ \A i \in Ids : ~InTask(p, i)'
  BY <1>3, <1>4, TaskBounds DEF CallOK, InNumbering, InTask, Ids
<1>6. ~InNumbering(p) /\ \A i \in Ids : ~InTask(p, i)
  BY <1>1 DEF InNumbering, InTask
<1>7. \A i \in Ids : There(i)' => i \in issued
  BY <1>1, Kept DEF There
<1>8. s \in PCs
  BY DEF PCs
<1> QED
  BY <1>1, <1>3, <1>5, <1>6, <1>7, <1>8, Kept, QuietKeeps

LEMMA ResetMarksTypes ==
    ASSUME TypeInv, NEW p \in Agents, ResetMarks(p)
    PROVE  TypeInv'
<1>1. /\ pc[p] = "resetmark" /\ Marks(p, call[p].n, "readdir")
      /\ calls' = calls /\ file' = file /\ mark' = mark /\ UNCHANGED <<lockVars, issued>>
      /\ holds' = holds /\ failures' = failures
  BY DEF ResetMarks, fileVars, ghostVars
<1>2. PICK s \in {"mark", "readdir"}, c \in CallRecords(issued) :
         /\ Moves(p, s, c) /\ c.n = call[p].n /\ (s = "mark" => c.next = "readdir")
         /\ s = (IF call[p].n > mark THEN "mark" ELSE "readdir")
  BY <1>1, AgentFacts, MarksFacts
<1>3. pc'[p] = s /\ call'[p] = c
  BY <1>2, MoveFacts
<1>4. s = "mark" => c.n # 0
  BY <1>2, Kept, TaskBounds DEF Ids
<1>5. CallOK(p)' /\ InNumbering(p)' /\ \A i \in Ids : ~InTask(p, i)'
  BY <1>2, <1>3, <1>4 DEF CallOK, InNumbering, InTask
<1>6. InNumbering(p) /\ \A i \in Ids : ~InTask(p, i)
  BY <1>1 DEF InNumbering, InTask
<1>7. \A i \in Ids : There(i)' => i \in issued
  BY <1>1, Kept DEF There
<1>8. s \in PCs
  BY DEF PCs
<1> QED
  BY <1>1, <1>2, <1>5, <1>6, <1>7, <1>8, Kept, QuietKeeps

LEMMA MarkOpensTypes ==
    ASSUME TypeInv, NEW p \in Agents, MarkOpens(p)
    PROVE  TypeInv'
<1>1. /\ pc[p] = "mark" /\ mark' = 0 /\ call' = call
      /\ calls' = calls /\ file' = file /\ UNCHANGED <<lockVars, issued>>
      /\ holds' = holds /\ failures' = failures
  BY DEF MarkOpens, ghostVars
<1>2. Moves(p, "markfill", call[p])
  BY <1>1, AgentFacts DEF MarkOpens, Goes, Moves, TypeInv, Types
<1>3. pc'[p] = "markfill" /\ call'[p] = call[p]
  BY <1>2, MoveFacts
<1>4. CallOK(p)' /\ (InNumbering(p)' <=> InNumbering(p)) /\ \A i \in Ids : ~InTask(p, i)'
  BY <1>1, <1>3, AgentFacts DEF CallOK, InNumbering, InTask
<1>5. \A i \in Ids : ~InTask(p, i)
  BY <1>1 DEF InTask
<1>6. \A i \in Ids : There(i)' => i \in issued
  BY <1>1, Kept DEF There
<1>7. call[p] \in CallRecords(issued)
  BY AgentFacts
<1> QED
  BY <1>1, <1>2, <1>4, <1>5, <1>6, <1>7, Kept, QuietKeeps DEF PCs

LEMMA MarkFillsTypes ==
    ASSUME TypeInv, NEW p \in Agents, MarkFills(p)
    PROVE  TypeInv'
<1>1. /\ pc[p] = "markfill" /\ mark' = call[p].n /\ call' = call
      /\ calls' = calls /\ file' = file /\ UNCHANGED <<lockVars, issued>>
      /\ holds' = holds /\ failures' = failures
  BY DEF MarkFills, ghostVars
<1> DEFINE s == call[p].next
<1>2. Moves(p, s, call[p])
  BY <1>1 DEF MarkFills, Goes, Moves, TypeInv, Types
<1>3. s \in {"unlink", "readdir"} /\ call[p].n # 0 /\ call[p].n \in issued \cup {0}
  BY <1>1, AgentFacts DEF CallOK
<1> HIDE DEF s
<1>4. pc'[p] = s /\ call'[p] = call[p]
  BY <1>2, MoveFacts
<1>5. CallOK(p)' /\ \A i \in Ids : ~InTask(p, i)'
  BY <1>1, <1>3, <1>4 DEF CallOK, InTask
<1>6. InNumbering(p)' <=> InNumbering(p)
  BY <1>1, <1>3, <1>4 DEF InNumbering, s
<1>7. \A i \in Ids : ~InTask(p, i)
  BY <1>1 DEF InTask
<1>8. \A i \in Ids : There(i)' => i \in issued
  BY <1>1, Kept DEF There
<1>9. call[p] \in CallRecords(issued) /\ s \in PCs
  BY <1>3, AgentFacts DEF PCs
<1> QED
  BY <1>1, <1>2, <1>3, <1>5, <1>6, <1>7, <1>8, <1>9, Kept, QuietKeeps

\* A deletion of a file
LEMMA RemovesFacts ==
    ASSUME TypeInv, NEW id \in Ids, Removes(id)
    PROVE  /\ file' \in [Ids -> Tasks(issued)]
           /\ \A i \in Ids : i # id => file'[i] = file[i]
           /\ ~There(id)' /\ \A i \in Ids : There(i)' => There(i) /\ i # id
BY Kept, BasicTypes DEF Removes, There

LEMMA UnlinkTypes ==
    ASSUME TypeInv, NEW p \in Agents, Unlink(p)
    PROVE  TypeInv'
<1>1. /\ pc[p] = "unlink" /\ mark' = mark /\ UNCHANGED <<lockVars, issued>>
      /\ holds' = holds /\ calls' = calls /\ failures' = failures
  BY DEF Unlink
<1>2. ~InNumbering(p) /\ \A i \in Ids : ~InTask(p, i)
  BY <1>1 DEF InNumbering, InTask
<1>3. call[p] \in CallRecords(issued) /\ call[p].n \in Ids
  BY <1>1, AgentFacts, Kept DEF CallOK
<1>4. CASE There(call[p].n)
  <2>1. Removes(call[p].n) /\ call' = call /\ Moves(p, "list", call[p])
    BY <1>4 DEF Unlink, Goes, Moves, TypeInv, Types
  <2>2. pc'[p] = "list" /\ call'[p] = call[p]
    BY <2>1, MoveFacts
  <2>3. CallOK(p)' /\ ~InNumbering(p)' /\ \A i \in Ids : ~InTask(p, i)'
    BY <1>1, <2>2, AgentFacts DEF CallOK, InNumbering, InTask
  <2>4. file' \in [Ids -> Tasks(issued)] /\ \A i \in Ids : There(i)' => i \in issued
    BY <1>3, <2>1, RemovesFacts, Kept
  <2> QED
    BY <1>1, <1>2, <1>3, <2>1, <2>3, <2>4, Kept, QuietKeeps DEF PCs
<1>5. CASE ~There(call[p].n)
  <2>1. Ends(p) /\ file' = file
    BY <1>5 DEF Unlink
  <2>2. \A i \in Ids : There(i)' => i \in issued
    BY <2>1, Kept DEF There
  <2> QED
    BY <1>1, <1>2, <2>1, <2>2, EndFacts, Kept, QuietKeeps DEF PCs
<1> QED
  BY <1>4, <1>5

LEMMA ResetTypes ==
    ASSUME TypeInv, NEW p \in Agents, Reset(p)
    PROVE  TypeInv'
<1>1. /\ pc[p] = "idle" /\ listLock = Nobody /\ listLock' = p /\ calls < MaxCalls
      /\ calls' = calls + 1 /\ file' = file /\ mark' = mark /\ taskLock' = taskLock
      /\ issued' = issued /\ holds' = holds /\ failures' = failures
  BY DEF Reset, Calls, fileVars, ghostVars
<1> DEFINE c == [call[p] EXCEPT !.n = Highest]
<1>2. Moves(p, "resetmark", c) /\ c \in CallRecords(issued)
  <2>1. Moves(p, "resetmark", c)
    BY DEF Reset, Goes, Moves
  <2>2. call[p] \in CallRecords(issued)
    BY AgentFacts
  <2>3. Highest \in issued \cup {0}
    BY HighestFacts
  <2> QED
    BY <2>1, <2>2, <2>3 DEF CallRecords
<1> HIDE DEF c
<1>3. pc'[p] = "resetmark" /\ call'[p] = c
  BY <1>2, MoveFacts
<1>4. CallOK(p)' /\ InNumbering(p)' /\ \A i \in Ids : ~InTask(p, i)'
  BY <1>3 DEF CallOK, InNumbering, InTask
<1>5. \A i \in Ids : taskLock[i] # p
  BY <1>1 DEF TypeInv, Locked, InTask
<1>6. \A i \in Ids : There(i)' => i \in issued
  BY <1>1, Kept DEF There
<1> QED
  BY <1>1, <1>2, <1>4, <1>5, <1>6, Kept, MoveKeeps, AgentsAssumption DEF Holders, PCs

LEMMA ResetListsTypes ==
    ASSUME TypeInv, NEW p \in Agents, ResetLists(p)
    PROVE  TypeInv'
<1>1. /\ pc[p] = "readdir" /\ mark' = mark /\ UNCHANGED <<lockVars, issued>>
      /\ holds' = holds /\ calls' = calls /\ failures' = failures /\ file' = file
  BY DEF ResetLists, fileVars, ghostVars
<1> DEFINE c == [call[p] EXCEPT !.todo = {i \in Ids : There(i)}]
<1>2. Moves(p, "clear", c) /\ c \in CallRecords(issued)
  <2>1. Moves(p, "clear", c)
    BY DEF ResetLists, Goes, Moves
  <2>2. call[p] \in CallRecords(issued)
    BY AgentFacts
  <2> QED
    BY <2>1, <2>2 DEF CallRecords
<1> HIDE DEF c
<1>3. pc'[p] = "clear" /\ call'[p] = c
  BY <1>2, MoveFacts
<1>4. CallOK(p)' /\ InNumbering(p)' /\ \A i \in Ids : ~InTask(p, i)'
  BY <1>3 DEF CallOK, InNumbering, InTask
<1>5. InNumbering(p) /\ \A i \in Ids : ~InTask(p, i)
  BY <1>1 DEF InNumbering, InTask
<1>6. \A i \in Ids : There(i)' => i \in issued
  BY <1>1, Kept DEF There
<1> QED
  BY <1>1, <1>2, <1>4, <1>5, <1>6, Kept, QuietKeeps DEF PCs

LEMMA ResetClearsTypes ==
    ASSUME TypeInv, NEW p \in Agents, ResetClears(p)
    PROVE  TypeInv'
<1>1. /\ pc[p] = "clear" /\ mark' = mark /\ taskLock' = taskLock /\ issued' = issued
      /\ holds' = holds /\ calls' = calls /\ failures' = failures
  BY DEF ResetClears
<1>2. listLock = p /\ \A i \in Ids : ~InTask(p, i) /\ taskLock[i] # p
  BY <1>1 DEF TypeInv, Locked, InNumbering, InTask
<1>3. CASE call[p].todo = {}
  <2>1. listLock' = Nobody /\ Ends(p) /\ file' = file
    BY <1>3 DEF ResetClears
  <2>2. \A i \in Ids : There(i)' => i \in issued
    BY <2>1, Kept DEF There
  <2> QED
    BY <1>1, <1>2, <2>1, <2>2, EndFacts, Kept, MoveKeeps, AgentsAssumption DEF Holders, PCs
<1>4. CASE call[p].todo # {}
  <2>1. PICK i \in call[p].todo :
           Removes(i) /\ call' = [call EXCEPT ![p].todo = @ \ {i}] /\ UNCHANGED <<listLock, pc>>
    BY <1>4 DEF ResetClears
  <2> DEFINE c == [call[p] EXCEPT !.todo = @ \ {i}]
  <2>2. call[p] \in CallRecords(issued) /\ i \in Ids
    BY AgentFacts
  <2>3. c \in CallRecords(issued)
    BY <2>2 DEF CallRecords
  <2>4. Moves(p, "clear", c)
    BY <1>1, <2>1 DEF Moves, TypeInv, Types
  <2> HIDE DEF c
  <2>5. pc'[p] = "clear" /\ call'[p] = c
    BY <2>4, MoveFacts
  <2>6. CallOK(p)' /\ InNumbering(p)' /\ \A j \in Ids : ~InTask(p, j)'
    BY <2>5 DEF CallOK, InNumbering, InTask
  <2>7. InNumbering(p)
    BY <1>1 DEF InNumbering
  <2>8. file' \in [Ids -> Tasks(issued)] /\ \A j \in Ids : There(j)' => j \in issued
    BY <2>1, <2>2, RemovesFacts, Kept
  <2>9. UNCHANGED <<lockVars, issued>>
    BY <1>1, <2>1 DEF lockVars
  <2> QED
    BY <1>1, <1>2, <2>3, <2>4, <2>6, <2>7, <2>8, <2>9, Kept, QuietKeeps DEF PCs
<1> QED
  BY <1>3, <1>4

\* The lock of a task is released by the agent that has it
LEMMA ReleaseFacts ==
    ASSUME TypeInv, NEW p \in Agents, NEW i \in Ids, InTask(p, i),
           taskLock' = [taskLock EXCEPT ![i] = Nobody]
    PROVE  /\ taskLock' \in [Ids -> Holders] /\ \A j \in Ids : taskLock'[j] # p
           /\ \A q \in Agents \ {p}, j \in Ids : (taskLock'[j] = q) <=> (taskLock[j] = q)
<1>1. taskLock \in [Ids -> Holders] /\ taskLock[i] = p
  BY DEF TypeInv, Types, Locked
<1>2. \A j \in Ids : taskLock[j] = p => j = i
  BY DEF TypeInv, Locked, InTask
<1> QED
  BY <1>1, <1>2, AgentsAssumption DEF Holders

\* The lock of a task is taken by an agent that has none
LEMMA AcquireFacts ==
    ASSUME TypeInv, NEW p \in Agents, NEW i \in Ids, \A j \in Ids : ~InTask(p, j),
           taskLock[i] = Nobody, taskLock' = [taskLock EXCEPT ![i] = p]
    PROVE  /\ taskLock' \in [Ids -> Holders] /\ \A j \in Ids : (taskLock'[j] = p) <=> j = i
           /\ \A q \in Agents \ {p}, j \in Ids : (taskLock'[j] = q) <=> (taskLock[j] = q)
<1>1. taskLock \in [Ids -> Holders] /\ \A j \in Ids : taskLock[j] # p
  BY DEF TypeInv, Types, Locked
<1> QED
  BY <1>1, AgentsAssumption DEF Holders

\* A call that goes on with its work, or ends, and holds no lock, nor held one
LEMMA FreeWorkTypes ==
    ASSUME TypeInv, NEW p \in Agents, NEW ws \in Seq(Updates(issued)), NEW n \in issued \cup {0},
           n = 0 \/ Unassigned(ws), WorksOn(p, ws, n), UNCHANGED <<file, mark, lockVars, issued>>,
           ~InNumbering(p), \A i \in Ids : ~InTask(p, i),
           holds' \in [Agents -> issued \cup {0}],
           calls' \in 0..MaxCalls, failures' \in 0..MaxFailures
    PROVE  TypeInv'
<1>1. PICK s \in {"idle", "lock"}, c \in CallRecords(issued) :
        Moves(p, s, c) /\ CallOK(p)' /\ ~InNumbering(p)' /\ \A i \in Ids : ~InTask(p, i)'
  BY WorkFacts
<1>2. \A i \in Ids : There(i)' => i \in issued
  BY Kept DEF There
<1> QED
  BY <1>1, <1>2, Kept, QuietKeeps DEF PCs

\* A step that ends a call which holds no lock, nor changes a file
LEMMA FreeEndTypes ==
    ASSUME TypeInv, NEW p \in Agents, Ends(p), UNCHANGED <<file, mark, lockVars, issued>>,
           ~InNumbering(p), \A i \in Ids : ~InTask(p, i),
           holds' \in [Agents -> issued \cup {0}],
           calls' \in 0..MaxCalls, failures' \in 0..MaxFailures
    PROVE  TypeInv'
<1>1. \A i \in Ids : There(i)' => i \in issued
  BY Kept DEF There
<1> QED
  BY <1>1, EndFacts, Kept, QuietKeeps DEF PCs

LEMMA ThrowTypes ==
    ASSUME TypeInv, NEW p \in Agents, Throws(p), UNCHANGED <<file, mark, lockVars, issued>>,
           pc[p] \in {"lock", "claim"}, calls' \in 0..MaxCalls, failures' \in 0..MaxFailures
    PROVE  TypeInv'
<1>1. Ends(p) /\ holds' \in [Agents -> issued \cup {0}]
  BY Kept DEF Throws
<1>2. ~InNumbering(p) /\ \A i \in Ids : ~InTask(p, i)
  BY DEF InNumbering, InTask
<1> QED
  BY <1>1, <1>2, FreeEndTypes

LEMMA LockTypes ==
    ASSUME TypeInv, NEW p \in Agents, Lock(p)
    PROVE  TypeInv'
<1> DEFINE id == Todo(p).id
<1>1. /\ pc[p] = "lock" /\ file' = file /\ mark' = mark /\ listLock' = listLock /\ issued' = issued
      /\ calls' = calls /\ failures' = failures
  BY DEF Lock, fileVars, ghostVars
<1>2. call[p].work # <<>>
  BY <1>1, AgentFacts DEF CallOK
<1>3. id \in Ids /\ Tail(call[p].work) \in Seq(Updates(issued)) /\ call[p].n \in issued \cup {0}
  BY <1>2, TodoFacts, AgentFacts
<1>4. ~InNumbering(p) /\ \A i \in Ids : ~InTask(p, i)
  BY <1>1 DEF InNumbering, InTask
<1>5. call[p].n # 0 => Unassigned(call[p].work) /\ Unassigned(Tail(call[p].work))
  BY <1>1, <1>2, AgentFacts, UnassignedTail DEF CallOK
<1>6. CASE NextUpdate(p) /\ UNCHANGED <<taskLock, holds>>
  BY <1>1, <1>3, <1>4, <1>6, <1>5, Kept, FreeWorkTypes DEF NextUpdate, lockVars
<1>7. CASE Throws(p) /\ UNCHANGED taskLock
  BY <1>1, <1>7, Kept, ThrowTypes DEF lockVars
<1>8. CASE /\ Whole(id) /\ taskLock[id] = Nobody
           /\ taskLock' = [taskLock EXCEPT ![id] = p] /\ Goes(p, "write")
           /\ call' = [call EXCEPT ![p].seen = file[id]] /\ UNCHANGED holds
  <2> DEFINE c == [call[p] EXCEPT !.seen = file[id]]
  <2>1. call[p] \in CallRecords(issued) /\ file[id] \in Tasks(issued)
    BY <1>3, AgentFacts, Kept
  <2>2. /\ c \in CallRecords(issued) /\ c.work = call[p].work /\ c.seen.is = "whole"
        /\ c.n = call[p].n
    BY <1>8, <2>1 DEF CallRecords, Whole
  <2>3. Moves(p, "write", c)
    BY <1>8 DEF Moves, Goes
  <2> HIDE DEF c
  <2>4. pc'[p] = "write" /\ call'[p] = c
    BY <2>3, MoveFacts
  <2>5. CallOK(p)' /\ ~InNumbering(p)' /\ \A i \in Ids : InTask(p, i)' <=> i = id
    BY <1>2, <1>5, <2>2, <2>4 DEF CallOK, InNumbering, InTask, Todo
  <2>6. listLock # p
    BY <1>4 DEF TypeInv, Locked
  <2>7. \A i \in Ids : There(i)' => i \in issued
    BY <1>1, Kept DEF There
  <2>8. /\ taskLock' \in [Ids -> Holders] /\ \A j \in Ids : (taskLock'[j] = p) <=> j = id
        /\ \A q \in Agents \ {p}, j \in Ids : (taskLock'[j] = q) <=> (taskLock[j] = q)
    BY <1>3, <1>4, <1>8, AcquireFacts
  <2> HIDE DEF id
  <2> QED
    BY <1>1, <1>8, <2>2, <2>3, <2>5, <2>6, <2>7, <2>8, Kept, MoveKeeps DEF PCs
<1> QED
  BY <1>6, <1>7, <1>8 DEF Lock

LEMMA WriteTypes ==
    ASSUME TypeInv, NEW p \in Agents, Write(p)
    PROVE  TypeInv'
<1> DEFINE id == Todo(p).id
<1>1. /\ pc[p] = "write" /\ file' = [file EXCEPT ![id] = Torn] /\ mark' = mark /\ call' = call
      /\ UNCHANGED <<lockVars, issued>> /\ holds' = holds /\ calls' = calls /\ failures' = failures
  BY DEF Write, ghostVars
<1>2. call[p].work # <<>>
  BY <1>1, AgentFacts DEF CallOK
<1>3. id \in Ids /\ id \in issued
  BY <1>2, TodoFacts
<1>4. Moves(p, "fill", call[p])
  BY <1>1 DEF Write, Moves, Goes, TypeInv, Types
<1>5. pc'[p] = "fill" /\ call'[p] = call[p]
  BY <1>4, MoveFacts
<1>6. CallOK(p)' /\ ~InNumbering(p)' /\ ~InNumbering(p)
  BY <1>1, <1>2, <1>5, AgentFacts DEF CallOK, InNumbering
<1>7. \A i \in Ids : InTask(p, i)' <=> InTask(p, i)
  BY <1>1, <1>5 DEF InTask, Todo
<1>8. file' \in [Ids -> Tasks(issued)] /\ \A i \in Ids : There(i)' => i \in issued
  BY <1>1, <1>3, Kept, BasicTypes DEF There
<1>9. call[p] \in CallRecords(issued)
  BY AgentFacts
<1> QED
  BY <1>1, <1>4, <1>6, <1>7, <1>8, <1>9, Kept, QuietKeeps DEF PCs

\* The fields an update sets
LEMMA SettingsFacts ==
    ASSUME NEW I, NEW s \in Settings(I)
    PROVE  /\ DOMAIN s \subseteq {"status", "owner", "blocks", "blockedBy"}
           /\ "status" \in DOMAIN s => s.status \in Statuses
           /\ "owner" \in DOMAIN s => s.owner \in Owners
           /\ "blocks" \in DOMAIN s => s.blocks \in SUBSET Ids
           /\ "blockedBy" \in DOMAIN s => s.blockedBy \in SUBSET I
BY DEF Settings

\* The task that is written: what the update sets, and else what was read
LEMMA MergedFacts ==
    ASSUME TypeInv, NEW p \in Agents, call[p].work # <<>>
    PROVE  LET set == Todo(p).set  seen == call[p].seen IN
           /\ Merged(p) \in Tasks(issued) /\ Merged(p).is = seen.is
           /\ Merged(p).owner = (IF "owner" \in DOMAIN set THEN set.owner ELSE seen.owner)
           /\ Merged(p).status = (IF "status" \in DOMAIN set THEN set.status ELSE seen.status)
           /\ Merged(p).blockedBy =
                (IF "blockedBy" \in DOMAIN set THEN set.blockedBy ELSE seen.blockedBy)
<1> DEFINE set == Todo(p).set
           seen == call[p].seen
<1>1. set \in Settings(issued) /\ seen \in Tasks(issued)
  BY TodoFacts, AgentFacts
<1>2. /\ DOMAIN set \subseteq {"status", "owner", "blocks", "blockedBy"}
      /\ "status" \in DOMAIN set => set.status \in Statuses
      /\ "owner" \in DOMAIN set => set.owner \in Owners
      /\ "blocks" \in DOMAIN set => set.blocks \in SUBSET Ids
      /\ "blockedBy" \in DOMAIN set => set.blockedBy \in SUBSET issued
  BY <1>1, SettingsFacts
<1>3. Merged(p) = [f \in {"is", "status", "owner", "blocks", "blockedBy"} |->
                     IF f \in DOMAIN set THEN set[f] ELSE seen[f]]
  BY DEF Merged, NoTask
<1> DEFINE m == Merged(p)
<1>4. /\ m = [is |-> m.is, status |-> m.status, owner |-> m.owner,
              blocks |-> m.blocks, blockedBy |-> m.blockedBy]
      /\ m.is = seen.is
      /\ m.owner = (IF "owner" \in DOMAIN set THEN set.owner ELSE seen.owner)
      /\ m.status = (IF "status" \in DOMAIN set THEN set.status ELSE seen.status)
      /\ m.blocks = (IF "blocks" \in DOMAIN set THEN set.blocks ELSE seen.blocks)
      /\ m.blockedBy = (IF "blockedBy" \in DOMAIN set THEN set.blockedBy ELSE seen.blockedBy)
  <2> HIDE DEF set, seen
  <2> QED
    BY <1>2, <1>3
<1> HIDE DEF m, set, seen
<1>5. /\ seen.is \in {"absent", "torn", "whole"} /\ seen.status \in Statuses
      /\ seen.owner \in Owners /\ seen.blocks \in SUBSET Ids /\ seen.blockedBy \in SUBSET issued
  BY <1>1 DEF Tasks
<1>6. m \in Tasks(issued)
  BY <1>2, <1>4, <1>5 DEF Tasks
<1> QED
  BY <1>4, <1>6 DEF m, set, seen

\* Who works on what, when an update has been written
LEMMA GrantedFacts ==
    ASSUME TypeInv, NEW p \in Agents, call[p].work # <<>>
    PROVE  Granted(p) \in [Agents -> issued \cup {0}]
<1>1. /\ Todo(p).for \in Holders /\ Todo(p).id \in issued
      /\ holds \in [Agents -> issued \cup {0}]
  BY TodoFacts, Kept
<1> QED
  BY <1>1 DEF Granted, Holders

LEMMA FillTypes ==
    ASSUME TypeInv, NEW p \in Agents, Fill(p)
    PROVE  TypeInv'
<1> DEFINE id == Todo(p).id
<1>1. /\ pc[p] = "fill" /\ mark' = mark /\ listLock' = listLock /\ issued' = issued
      /\ file' = [file EXCEPT ![id] = IF @.is = "absent" THEN @ ELSE Merged(p)]
      /\ taskLock' = [taskLock EXCEPT ![id] = Nobody] /\ NextUpdate(p) /\ holds' = Granted(p)
      /\ calls' = calls /\ failures' = failures
  BY DEF Fill
<1>2. call[p].work # <<>>
  BY <1>1, AgentFacts DEF CallOK
<1>3. id \in Ids /\ Tail(call[p].work) \in Seq(Updates(issued)) /\ call[p].n \in issued \cup {0}
  BY <1>2, TodoFacts, AgentFacts
<1>4. InTask(p, id) /\ ~InNumbering(p)
  BY <1>1 DEF InNumbering, InTask
<1>5. PICK s \in {"idle", "lock"}, c \in CallRecords(issued) :
        Moves(p, s, c) /\ CallOK(p)' /\ ~InNumbering(p)' /\ \A i \in Ids : ~InTask(p, i)'
  <2>1. WorksOn(p, Tail(call[p].work), call[p].n)
    BY <1>1 DEF NextUpdate
  <2> DEFINE ws == Tail(call[p].work)
             n == call[p].n
  <2>2. /\ ws \in Seq(Updates(issued)) /\ n \in issued \cup {0} /\ WorksOn(p, ws, n)
        /\ n = 0 \/ Unassigned(ws)
    BY <1>1, <1>3, <2>1, AgentFacts DEF CallOK
  <2> HIDE DEF ws, n, id
  <2> QED
    BY <2>2, WorkFacts
<1>6. /\ taskLock' \in [Ids -> Holders] /\ \A j \in Ids : taskLock'[j] # p
      /\ \A q \in Agents \ {p}, j \in Ids : (taskLock'[j] = q) <=> (taskLock[j] = q)
  BY <1>1, <1>3, <1>4, ReleaseFacts
<1>7. listLock # p
  BY <1>4 DEF TypeInv, Locked
<1>8. Merged(p) \in Tasks(issued) /\ Granted(p) \in [Agents -> issued \cup {0}]
  BY <1>2, MergedFacts, GrantedFacts
<1> HIDE DEF id
<1>9. file' \in [Ids -> Tasks(issued)] /\ \A i \in Ids : There(i)' => There(i)
  BY <1>1, <1>3, <1>8, Kept DEF There
<1> QED
  BY <1>1, <1>5, <1>6, <1>7, <1>8, <1>9, Kept, MoveKeeps DEF PCs

\* The files of a directory, in any order
LEMMA OrderFacts ==
    ASSUME NEW S \in SUBSET Ids, NEW order \in SetToSeqs(S)
    PROVE  \E n \in Nat : order \in [1..n -> S]
<1>1. IsFiniteSet(1..MaxId)
  BY FS_Interval, TaskBounds
<1>2. Cardinality(S) \in Nat
  BY <1>1, FS_Subset, FS_CardinalityType DEF Ids
<1> QED
  BY <1>2 DEF SetToSeqs

LEMMA UpdateFacts ==
    ASSUME NEW I, NEW id \in I, NEW set \in Settings(I), NEW from \in SUBSET I,
           NEW for \in Holders, Agrees(set, for)
    PROVE  Update(id, set, from, for) \in Updates(I)
BY DEF Update, Updates

\* An update that assigns the task to nobody, and one that assigns it
LEMMA PlainFacts ==
    ASSUME NEW I, NEW id \in I, NEW set \in Settings(I), "owner" \in DOMAIN set => set.owner = Nobody
    PROVE  Plain(id, set) \in Updates(I)
<1>1. Agrees(set, Nobody)
  BY DEF Agrees, OwnerFor
<1> QED
  BY <1>1, UpdateFacts DEF Plain, Holders

LEMMA AssignFacts ==
    ASSUME NEW I, NEW id \in I, NEW set \in Settings(I), NEW for \in Holders, Agrees(set, for)
    PROVE  Assign(id, set, for) \in Updates(I)
BY UpdateFacts DEF Assign

LEMMA CascadeTypes ==
    ASSUME TypeInv, NEW p \in Agents, Cascade(p)
    PROVE  TypeInv'
<1> DEFINE id == call[p].n
           refers == {i \in Ids : Whole(i) /\ id \in file[i].blocks \cup file[i].blockedBy}
           forget(i) == Update(i, [blocks |-> file[i].blocks \ {id},
                                   blockedBy |-> file[i].blockedBy \ {id}], file[i].blockedBy, Nobody)
<1>1. /\ pc[p] = "list" /\ UNCHANGED <<file, mark, lockVars, issued, holds, calls, failures>>
  BY DEF Cascade, fileVars, ghostVars
<1>2. PICK order \in SetToSeqs(refers) : WorksOn(p, [k \in DOMAIN order |-> forget(order[k])], 0)
  BY DEF Cascade, Works
<1>3. \A i \in refers : forget(i) \in Updates(issued)
  <2> SUFFICES ASSUME NEW i \in refers PROVE forget(i) \in Updates(issued)
    OBVIOUS
  <2>1. i \in issued /\ file[i] \in Tasks(issued)
    BY Kept DEF Whole, There
  <2>2. file[i].blocks \in SUBSET Ids /\ file[i].blockedBy \in SUBSET issued
    BY <2>1 DEF Tasks
  <2>3. [blocks |-> file[i].blocks \ {id}, blockedBy |-> file[i].blockedBy \ {id}] \in Settings(issued)
    BY <2>2 DEF Settings
  <2>4. Agrees([blocks |-> file[i].blocks \ {id}, blockedBy |-> file[i].blockedBy \ {id}], Nobody)
    BY DEF Agrees
  <2> QED
    BY <2>1, <2>2, <2>3, <2>4, UpdateFacts DEF Holders
<1>4. PICK n \in Nat : order \in [1..n -> refers]
  <2>1. refers \in SUBSET Ids
    OBVIOUS
  <2> HIDE DEF refers
  <2> QED
    BY <2>1, OrderFacts
<1>5. [k \in DOMAIN order |-> forget(order[k])] \in Seq(Updates(issued))
  <2> HIDE DEF forget, refers
  <2>1. [k \in DOMAIN order |-> forget(order[k])] \in [1..n -> Updates(issued)]
    BY <1>3, <1>4
  <2> QED
    BY <2>1
<1>6. ~InNumbering(p) /\ \A i \in Ids : ~InTask(p, i)
  BY <1>1 DEF InNumbering, InTask
<1> QED
  BY <1>1, <1>2, <1>5, <1>6, Kept, FreeWorkTypes

LEMMA BlockTypes ==
    ASSUME TypeInv, NEW p \in Agents, NEW a \in Ids, NEW b \in Ids, Block(p, a, b)
    PROVE  TypeInv'
<1> DEFINE forth == b \in file[a].blocks
           back == a \in file[b].blockedBy
           u == Plain(a, [blocks |-> file[a].blocks \cup {b}])
           v == Update(b, [blockedBy |-> file[b].blockedBy \cup {a}], file[b].blockedBy, Nobody)
           ws == (IF forth THEN <<>> ELSE <<u>>) \o (IF back THEN <<>> ELSE <<v>>)
<1>1. /\ pc[p] = "idle" /\ UNCHANGED <<file, mark, lockVars, issued, holds, failures>>
      /\ calls < MaxCalls /\ calls' = calls + 1 /\ Whole(a) /\ Whole(b) /\ WorksOn(p, ws, 0)
  BY DEF Block, Calls, Works, fileVars, ghostVars
<1>2. u \in Updates(issued) /\ v \in Updates(issued)
  <2>1. a \in issued /\ b \in issued /\ file[a] \in Tasks(issued) /\ file[b] \in Tasks(issued)
    BY <1>1, Kept DEF Whole, There
  <2>2. file[a].blocks \in SUBSET Ids /\ file[b].blockedBy \in SUBSET issued
    BY <2>1 DEF Tasks
  <2>3. /\ [blocks |-> file[a].blocks \cup {b}] \in Settings(issued)
        /\ [blockedBy |-> file[b].blockedBy \cup {a}] \in Settings(issued)
    BY <2>1, <2>2 DEF Settings
  <2>4. Agrees([blockedBy |-> file[b].blockedBy \cup {a}], Nobody)
    BY DEF Agrees
  <2>5. "owner" \notin DOMAIN [blocks |-> file[a].blocks \cup {b}]
    OBVIOUS
  <2> QED
    BY <2>1, <2>2, <2>3, <2>4, <2>5, UpdateFacts, PlainFacts DEF Holders
<1>3. ws \in Seq(Updates(issued))
  <2> HIDE DEF u, v, forth, back
  <2> QED
    BY <1>2
<1>4. ~InNumbering(p) /\ \A i \in Ids : ~InTask(p, i)
  BY <1>1 DEF InNumbering, InTask
<1> HIDE DEF ws
<1> QED
  BY <1>1, <1>3, <1>4, Kept, FreeWorkTypes

LEMMA UnassignTypes ==
    ASSUME TypeInv, NEW p \in Agents, NEW q \in Agents, Unassign(p, q)
    PROVE  TypeInv'
<1> DEFINE owned == {i \in Ids : Open(i) /\ file[i].owner = q}
           free == [owner |-> Nobody, status |-> "pending"]
<1>1. /\ pc[p] = "idle" /\ UNCHANGED <<file, mark, lockVars, issued, holds, failures>>
      /\ calls < MaxCalls /\ calls' = calls + 1
  BY DEF Unassign, Calls, fileVars, ghostVars
<1>2. PICK order \in SetToSeqs(owned) : WorksOn(p, [k \in DOMAIN order |-> Plain(order[k], free)], 0)
  BY DEF Unassign, Works
<1>3. \A i \in owned : Plain(i, free) \in Updates(issued)
  <2>1. free \in Settings(issued)
    BY DEF Settings, Statuses, Owners
  <2>2. \A i \in owned : i \in issued
    BY Kept DEF Open, Whole, There
  <2>3. free.owner = Nobody
    OBVIOUS
  <2> HIDE DEF free, owned
  <2> QED
    BY <2>1, <2>2, <2>3, PlainFacts
<1>4. PICK n \in Nat : order \in [1..n -> owned]
  <2>1. owned \in SUBSET Ids
    OBVIOUS
  <2> HIDE DEF owned
  <2> QED
    BY <2>1, OrderFacts
<1>5. [k \in DOMAIN order |-> Plain(order[k], free)] \in Seq(Updates(issued))
  <2> HIDE DEF owned, free
  <2>1. [k \in DOMAIN order |-> Plain(order[k], free)] \in [1..n -> Updates(issued)]
    BY <1>3, <1>4
  <2> QED
    BY <2>1
<1>6. ~InNumbering(p) /\ \A i \in Ids : ~InTask(p, i)
  BY <1>1 DEF InNumbering, InTask
<1> QED
  BY <1>1, <1>2, <1>5, <1>6, Kept, FreeWorkTypes

\* The updates of a session that changes the status of a task
LEMMA SetStatusCases ==
    ASSUME NEW p \in Agents, NEW id \in Ids, NEW status \in Statuses, SetStatus(p, id, status)
    PROVE  \E set \in Settings(issued), for \in Holders :
              /\ Agrees(set, for) /\ "blockedBy" \notin DOMAIN set
              /\ WorksOn(p, <<Assign(id, set, for)>>, 0)
<1> DEFINE worker == IF status = "in_progress" /\ file[id].owner \in {Nobody, p} THEN p ELSE Nobody
<1>1. \/ p \in Teammates /\ Works(p, <<Assign(id, [status |-> status, owner |-> p], p)>>)
      \/ p \in Teammates /\ Works(p, <<Assign(id, [owner |-> p], p)>>)
      \/ Works(p, <<Assign(id, [status |-> status], worker)>>)
  BY DEF SetStatus
<1>2. p \in Teammates => p \in Owners /\ OwnerFor(p) = p
  BY AgentsAssumption DEF Owners, OwnerFor, ClaimAs
<1>3. CASE p \in Teammates /\ Works(p, <<Assign(id, [status |-> status, owner |-> p], p)>>)
  <2> DEFINE set == [status |-> status, owner |-> p]
  <2>1. set \in Settings(issued) /\ Agrees(set, p) /\ "blockedBy" \notin DOMAIN set
    BY <1>2, <1>3 DEF Settings, Agrees
  <2> HIDE DEF set
  <2> QED
    BY <1>3, <2>1 DEF set, Works, Holders
<1>4. CASE p \in Teammates /\ Works(p, <<Assign(id, [owner |-> p], p)>>)
  <2> DEFINE set == [owner |-> p]
  <2>1. set \in Settings(issued) /\ Agrees(set, p) /\ "blockedBy" \notin DOMAIN set
    BY <1>2, <1>4 DEF Settings, Agrees
  <2> HIDE DEF set
  <2> QED
    BY <1>4, <2>1 DEF set, Works, Holders
<1>5. CASE Works(p, <<Assign(id, [status |-> status], worker)>>)
  <2> DEFINE set == [status |-> status]
  <2>1. set \in Settings(issued) /\ Agrees(set, worker) /\ "blockedBy" \notin DOMAIN set
    BY DEF Settings, Agrees
  <2>2. worker \in Holders
    BY DEF Holders
  <2> HIDE DEF set, worker
  <2> QED
    BY <1>5, <2>1, <2>2 DEF set, Works
<1> QED
  BY <1>1, <1>3, <1>4, <1>5

LEMMA SetStatusTypes ==
    ASSUME TypeInv, NEW p \in Agents, NEW id \in Ids, NEW status \in Statuses, SetStatus(p, id, status)
    PROVE  TypeInv'
<1>1. /\ pc[p] = "idle" /\ UNCHANGED <<file, mark, lockVars, issued, holds, failures>>
      /\ calls < MaxCalls /\ calls' = calls + 1 /\ Whole(id)
  BY DEF SetStatus, Calls, fileVars, ghostVars
<1>2. id \in issued
  BY <1>1, Kept DEF Whole, There
<1>3. PICK set \in Settings(issued), for \in Holders :
        Agrees(set, for) /\ WorksOn(p, <<Assign(id, set, for)>>, 0)
  BY SetStatusCases
<1>4. <<Assign(id, set, for)>> \in Seq(Updates(issued))
  <2>1. Assign(id, set, for) \in Updates(issued)
    BY <1>2, <1>3, AssignFacts
  <2> QED
    BY <2>1
<1>5. ~InNumbering(p) /\ \A i \in Ids : ~InTask(p, i)
  BY <1>1 DEF InNumbering, InTask
<1> QED
  BY <1>1, <1>3, <1>4, <1>5, Kept, FreeWorkTypes

LEMMA SetOwnerTypes ==
    ASSUME TypeInv, NEW p \in Agents, NEW id \in Ids, NEW owner \in Agents \ Watchers, SetOwner(p, id, owner)
    PROVE  TypeInv'
<1>1. /\ pc[p] = "idle" /\ UNCHANGED <<file, mark, lockVars, issued, holds, failures>>
      /\ calls < MaxCalls /\ calls' = calls + 1 /\ Whole(id)
  BY DEF SetOwner, Calls, fileVars, ghostVars
<1>2. id \in issued
  BY <1>1, Kept DEF Whole, There
<1>3. WorksOn(p, <<Assign(id, [owner |-> owner], owner)>>, 0)
  BY DEF SetOwner, Works
<1>4. <<Assign(id, [owner |-> owner], owner)>> \in Seq(Updates(issued))
  <2>1. [owner |-> owner] \in Settings(issued) /\ Agrees([owner |-> owner], owner) /\ owner \in Holders
    BY AgentsAssumption DEF Settings, Owners, Agrees, OwnerFor, ClaimAs, Holders
  <2>2. Assign(id, [owner |-> owner], owner) \in Updates(issued)
    BY <1>2, <2>1, AssignFacts
  <2> QED
    BY <2>2
<1>5. ~InNumbering(p) /\ \A i \in Ids : ~InTask(p, i)
  BY <1>1 DEF InNumbering, InTask
<1> QED
  BY <1>1, <1>3, <1>4, <1>5, Kept, FreeWorkTypes

LEMMA ClaimTypes ==
    ASSUME TypeInv, NEW p \in Agents, Claim(p)
    PROVE  TypeInv'
<1>1. pc[p] = "idle" /\ UNCHANGED <<file, mark, lockVars, issued, holds, calls, failures>>
  BY DEF Claim, fileVars, ghostVars
<1>2. PICK i \in Ids : Available(i) /\ call' = [call EXCEPT ![p].n = i]
  BY DEF Claim
<1>3. i \in issued /\ i # 0
  BY <1>2, Kept, TaskBounds DEF Available, Whole, There, Ids
<1> DEFINE c == [call[p] EXCEPT !.n = i]
<1>4. call[p] \in CallRecords(issued)
  BY AgentFacts
<1>5. c \in CallRecords(issued) /\ c.n = i
  BY <1>3, <1>4 DEF CallRecords
<1>6. Moves(p, "claim", c)
  BY <1>2 DEF Claim, Goes, Moves
<1> HIDE DEF c
<1>7. pc'[p] = "claim" /\ call'[p] = c
  BY <1>6, MoveFacts
<1>8. CallOK(p)' /\ ~InNumbering(p)' /\ \A j \in Ids : ~InTask(p, j)'
  BY <1>3, <1>5, <1>7 DEF CallOK, InNumbering, InTask
<1>9. ~InNumbering(p) /\ \A j \in Ids : ~InTask(p, j)
  BY <1>1 DEF InNumbering, InTask
<1>10. \A j \in Ids : There(j)' => j \in issued
  BY <1>1, Kept DEF There
<1> QED
  BY <1>1, <1>5, <1>6, <1>8, <1>9, <1>10, Kept, QuietKeeps DEF PCs

LEMMA ClaimLocksTypes ==
    ASSUME TypeInv, NEW p \in Agents, ClaimLocks(p)
    PROVE  TypeInv'
<1> DEFINE id == call[p].n
<1>1. /\ pc[p] = "claim" /\ file' = file /\ mark' = mark /\ listLock' = listLock /\ issued' = issued
      /\ holds' = holds /\ calls' = calls /\ failures' = failures
  BY DEF ClaimLocks, fileVars, ghostVars
<1>2. ~InNumbering(p) /\ \A i \in Ids : ~InTask(p, i)
  BY <1>1 DEF InNumbering, InTask
<1>3. id \in Ids /\ id # 0
  BY <1>1, AgentFacts, Kept DEF CallOK
<1>4. CASE Ends(p) /\ UNCHANGED taskLock
  BY <1>1, <1>2, <1>4, Kept, FreeEndTypes DEF lockVars
<1>5. CASE /\ taskLock[id] = Nobody
           /\ taskLock' = [taskLock EXCEPT ![id] = p] /\ Goes(p, "check")
           /\ call' = [call EXCEPT ![p].todo = file[id].blockedBy]
  <2> DEFINE c == [call[p] EXCEPT !.todo = file[id].blockedBy]
  <2>1. call[p] \in CallRecords(issued) /\ file[id].blockedBy \subseteq Ids
    BY <1>3, AgentFacts, Kept DEF Tasks
  <2>2. c \in CallRecords(issued) /\ c.n = id
    BY <2>1 DEF CallRecords
  <2>3. Moves(p, "check", c)
    BY <1>5 DEF Moves, Goes
  <2> HIDE DEF c
  <2>4. pc'[p] = "check" /\ call'[p] = c
    BY <2>3, MoveFacts
  <2>5. CallOK(p)' /\ ~InNumbering(p)' /\ \A i \in Ids : InTask(p, i)' <=> i = id
    BY <1>3, <2>2, <2>4 DEF CallOK, InNumbering, InTask
  <2>6. listLock # p
    BY <1>2 DEF TypeInv, Locked
  <2>7. \A i \in Ids : There(i)' => i \in issued
    BY <1>1, Kept DEF There
  <2>8. /\ taskLock' \in [Ids -> Holders] /\ \A j \in Ids : (taskLock'[j] = p) <=> j = id
        /\ \A q \in Agents \ {p}, j \in Ids : (taskLock'[j] = q) <=> (taskLock[j] = q)
    BY <1>2, <1>3, <1>5, AcquireFacts
  <2> HIDE DEF id
  <2> QED
    BY <1>1, <2>2, <2>3, <2>5, <2>6, <2>7, <2>8, Kept, MoveKeeps DEF PCs
<1> QED
  BY <1>4, <1>5 DEF ClaimLocks, LetThrough

LEMMA CheckTypes ==
    ASSUME TypeInv, NEW p \in Agents, Check(p)
    PROVE  TypeInv'
<1>1. /\ pc[p] = "check" /\ file' = file /\ mark' = mark /\ listLock' = listLock /\ issued' = issued
      /\ holds' = holds /\ calls' = calls /\ failures' = failures
  BY DEF Check, fileVars, ghostVars
<1>2. call[p] \in CallRecords(issued) /\ call[p].n \in Ids /\ call[p].n # 0
  BY <1>1, AgentFacts, Kept DEF CallOK
<1>3. ~InNumbering(p) /\ InTask(p, call[p].n) /\ listLock # p
  BY <1>1 DEF InNumbering, InTask, TypeInv, Locked
<1>4. \A i \in Ids : There(i)' => i \in issued
  BY <1>1, Kept DEF There
<1>5. CASE taskLock' = [taskLock EXCEPT ![call[p].n] = Nobody] /\ Ends(p)
  <2>1. /\ taskLock' \in [Ids -> Holders] /\ \A j \in Ids : taskLock'[j] # p
        /\ \A q \in Agents \ {p}, j \in Ids : (taskLock'[j] = q) <=> (taskLock[j] = q)
    BY <1>2, <1>3, <1>5, ReleaseFacts
  <2> QED
    BY <1>1, <1>3, <1>4, <1>5, <2>1, EndFacts, Kept, MoveKeeps DEF PCs
<1>6. CASE \E b \in call[p].todo :
              call' = [call EXCEPT ![p].todo = @ \ {b}] /\ UNCHANGED <<taskLock, pc>>
  <2>1. PICK b \in call[p].todo :
          call' = [call EXCEPT ![p].todo = @ \ {b}] /\ UNCHANGED <<taskLock, pc>>
    BY <1>6
  <2> DEFINE c == [call[p] EXCEPT !.todo = @ \ {b}]
  <2>2. c \in CallRecords(issued) /\ c.n = call[p].n
    BY <1>2 DEF CallRecords
  <2>3. Moves(p, "check", c)
    BY <1>1, <2>1 DEF Moves, TypeInv, Types
  <2> HIDE DEF c
  <2>4. pc'[p] = "check" /\ call'[p] = c
    BY <2>3, MoveFacts
  <2>5. CallOK(p)' /\ ~InNumbering(p)' /\ \A i \in Ids : InTask(p, i)' <=> InTask(p, i)
    BY <1>1, <1>2, <2>2, <2>4 DEF CallOK, InNumbering, InTask
  <2>6. UNCHANGED <<lockVars, issued>>
    BY <1>1, <2>1 DEF lockVars
  <2> QED
    BY <1>1, <1>3, <1>4, <2>2, <2>3, <2>5, <2>6, Kept, QuietKeeps DEF PCs
<1> QED
  BY <1>5, <1>6 DEF Check

\* The updates an agent makes after its claim
LEMMA AfterClaim ==
    ASSUME NEW p \in Agents, NEW id \in issued
    PROVE  /\ Started(p, id) \in Seq(Updates(issued)) /\ Released(id) \in Seq(Updates(issued))
           /\ Unassigned(Started(p, id)) /\ Unassigned(Released(id))
           /\ Assign(id, [owner |-> ClaimAs(p)], p) \in Updates(issued)
<1> DEFINE u == Plain(id, [status |-> "in_progress"])
           v == Plain(id, [owner |-> Nobody])
<1>1. /\ [status |-> "in_progress"] \in Settings(issued) /\ [owner |-> Nobody] \in Settings(issued)
      /\ [owner |-> ClaimAs(p)] \in Settings(issued)
  BY DEF Settings, Statuses, Owners, ClaimAs
<1>2. u \in Updates(issued) /\ v \in Updates(issued) /\ u.for = Nobody /\ v.for = Nobody
  <2>1. u.for = Nobody /\ v.for = Nobody
    BY DEF Plain, Update
  <2> QED
    BY <1>1, <2>1, PlainFacts
<1>3. Agrees([owner |-> ClaimAs(p)], p) /\ p \in Holders
  BY AgentsAssumption DEF Agrees, OwnerFor, Holders
<1>4. Assign(id, [owner |-> ClaimAs(p)], p) \in Updates(issued)
  BY <1>1, <1>3, AssignFacts
<1> HIDE DEF u, v
<1>5. Started(p, id) \in {<<>>, <<u>>} /\ Released(id) = <<v>>
  BY DEF Started, Released, u, v
<1>6. \A k \in DOMAIN <<u>> : <<u>>[k] = u
  OBVIOUS
<1>7. \A k \in DOMAIN <<v>> : <<v>>[k] = v
  OBVIOUS
<1>8. Unassigned(<<>>) /\ Unassigned(<<u>>) /\ Unassigned(<<v>>)
  BY <1>2, <1>6, <1>7 DEF Unassigned
<1>9. <<>> \in Seq(Updates(issued)) /\ <<u>> \in Seq(Updates(issued)) /\ <<v>> \in Seq(Updates(issued))
  BY <1>2
<1> QED
  BY <1>4, <1>5, <1>8, <1>9

\* The two ways a claim is taken
LEMMA TakeCases ==
    ASSUME TypeInv, NEW p \in Agents, Take(p)
    PROVE  LET id == call[p].n IN
           /\ pc[p] = "check" /\ call[p].todo = {} /\ id \in issued /\ id \in Ids /\ id # 0
           /\ file' = file /\ mark' = mark /\ listLock' = listLock /\ issued' = issued
           /\ deps' = deps /\ harm' = harm /\ calls' = calls /\ failures' \in 0..MaxFailures
           /\ \E ws \in {Started(p, id), Released(id)} :
                \/ /\ Whole(id) /\ Goes(p, "write") /\ taskLock' = taskLock /\ holds' = holds
                   /\ call' = [call EXCEPT ![p] = [NoCall EXCEPT
                        !.work = <<Assign(id, [owner |-> ClaimAs(p)], p)>> \o ws, !.seen = file[id], !.n = id]]
                \/ /\ ~Whole(id) /\ taskLock' = [taskLock EXCEPT ![id] = Nobody]
                   /\ holds' = [holds EXCEPT ![p] = id] /\ WorksOn(p, ws, id)
<1>1. pc[p] = "check" /\ call[p].n \in issued /\ call[p].n \in Ids /\ call[p].n # 0
  BY AgentFacts, Kept DEF Take, CallOK
<1>2. failures' \in 0..MaxFailures
  BY Kept DEF Take
<1> QED
  BY <1>1, <1>2 DEF Take, fileVars, ghostVars

LEMMA TakeTypes ==
    ASSUME TypeInv, NEW p \in Agents, Take(p)
    PROVE  TypeInv'
<1> DEFINE id == call[p].n
<1>1. /\ pc[p] = "check" /\ id \in issued /\ id \in Ids /\ id # 0
      /\ file' = file /\ mark' = mark /\ listLock' = listLock /\ issued' = issued
      /\ calls' = calls /\ failures' \in 0..MaxFailures
  BY TakeCases
<1>2. PICK ws \in {Started(p, id), Released(id)} :
        \/ /\ Whole(id) /\ Goes(p, "write") /\ taskLock' = taskLock /\ holds' = holds
           /\ call' = [call EXCEPT ![p] = [NoCall EXCEPT
                !.work = <<Assign(id, [owner |-> ClaimAs(p)], p)>> \o ws, !.seen = file[id], !.n = id]]
        \/ /\ ~Whole(id) /\ taskLock' = [taskLock EXCEPT ![id] = Nobody]
           /\ holds' = [holds EXCEPT ![p] = id] /\ WorksOn(p, ws, id)
  BY TakeCases
<1>3. /\ ws \in Seq(Updates(issued)) /\ Assign(id, [owner |-> ClaimAs(p)], p) \in Updates(issued)
      /\ Unassigned(ws)
  BY <1>1, AfterClaim
<1>4. ~InNumbering(p) /\ InTask(p, id) /\ listLock # p
  BY <1>1 DEF InNumbering, InTask, TypeInv, Locked
<1>5. \A i \in Ids : There(i)' => i \in issued
  BY <1>1, Kept DEF There
<1>6. CASE /\ Whole(id) /\ Goes(p, "write") /\ taskLock' = taskLock /\ holds' = holds
           /\ call' = [call EXCEPT ![p] = [NoCall EXCEPT
                !.work = <<Assign(id, [owner |-> ClaimAs(p)], p)>> \o ws, !.seen = file[id], !.n = id]]
  <2> DEFINE u == Assign(id, [owner |-> ClaimAs(p)], p)
             c == [NoCall EXCEPT !.work = <<u>> \o ws, !.seen = file[id], !.n = id]
  <2>1. u.id = id
    BY DEF Assign, Update
  <2>2. file[id] \in Tasks(issued)
    BY <1>1, Kept
  <2>3. /\ <<u>> \o ws \in Seq(Updates(issued)) /\ <<u>> \o ws # <<>>
        /\ Head(<<u>> \o ws) = u /\ Tail(<<u>> \o ws) = ws
    <3>1. u \in Updates(issued)
      BY <1>3
    <3> HIDE DEF u
    <3>2. <<u>> \in Seq(Updates(issued)) /\ Len(<<u>>) = 1 /\ <<u>>[1] = u
      BY <3>1
    <3>3. <<u>> \o ws \in Seq(Updates(issued)) /\ Len(<<u>> \o ws) = 1 + Len(ws)
      BY <1>3, <3>2
    <3>4. (<<u>> \o ws)[1] = u /\ Len(ws) \in Nat
      BY <1>3, <3>2
    <3> QED
      BY <3>3, <3>4
  <2>4. Moves(p, "write", c)
    BY <1>6 DEF Moves, Goes
  <2>5. c \in CallRecords(issued) /\ c.work = <<u>> \o ws /\ c.seen = file[id]
    <3> DEFINE w == <<u>> \o ws
    <3>1. w \in Seq(Updates(issued))
      BY <2>3
    <3> HIDE DEF w, u
    <3>2. [NoCall EXCEPT !.work = w, !.seen = file[id], !.n = id] \in CallRecords(issued)
      BY <1>1, <2>2, <3>1 DEF NoCall, CallRecords
    <3>3. [NoCall EXCEPT !.work = w, !.seen = file[id], !.n = id].work = w
      BY DEF NoCall
    <3>4. [NoCall EXCEPT !.work = w, !.seen = file[id], !.n = id].seen = file[id]
      BY DEF NoCall
    <3> QED
      BY <3>2, <3>3, <3>4 DEF w
  <2> HIDE DEF c, u
  <2>6. pc'[p] = "write" /\ call'[p] = c
    BY <2>4, MoveFacts
  <2>7. CallOK(p)' /\ ~InNumbering(p)'
    BY <1>3, <1>6, <2>3, <2>5, <2>6 DEF CallOK, InNumbering, Whole
  <2>8. \A i \in Ids : InTask(p, i)' <=> InTask(p, i)
    BY <1>1, <2>1, <2>3, <2>5, <2>6 DEF InTask, Todo
  <2>9. UNCHANGED <<lockVars, issued>>
    BY <1>1, <1>6 DEF lockVars
  <2> QED
    BY <1>1, <1>4, <1>5, <1>6, <2>4, <2>5, <2>7, <2>8, <2>9, Kept, QuietKeeps DEF PCs
<1>7. CASE /\ taskLock' = [taskLock EXCEPT ![id] = Nobody]
           /\ holds' = [holds EXCEPT ![p] = id] /\ WorksOn(p, ws, id)
  <2> HIDE DEF id
  <2>1. PICK s \in {"idle", "lock"}, c \in CallRecords(issued) :
          Moves(p, s, c) /\ CallOK(p)' /\ ~InNumbering(p)' /\ \A i \in Ids : ~InTask(p, i)'
    BY <1>1, <1>3, <1>7, WorkFacts
  <2>2. /\ taskLock' \in [Ids -> Holders] /\ \A j \in Ids : taskLock'[j] # p
        /\ \A q \in Agents \ {p}, j \in Ids : (taskLock'[j] = q) <=> (taskLock[j] = q)
    BY <1>1, <1>4, <1>7, ReleaseFacts
  <2>3. holds' \in [Agents -> issued \cup {0}]
    BY <1>1, <1>7, Kept
  <2> QED
    BY <1>1, <1>4, <1>5, <2>1, <2>2, <2>3, Kept, MoveKeeps DEF PCs
<1> QED
  BY <1>2, <1>6, <1>7

LEMMA CompleteTypes ==
    ASSUME TypeInv, NEW p \in Agents, Complete(p)
    PROVE  TypeInv'
<1> DEFINE u == Plain(holds[p], [status |-> "completed"])
           ws == IF Open(holds[p]) THEN <<u>> ELSE <<>>
<1>1. /\ pc[p] = "idle" /\ holds[p] # 0 /\ holds' = [holds EXCEPT ![p] = 0] /\ WorksOn(p, ws, 0)
      /\ UNCHANGED <<file, mark, lockVars, issued, calls, failures>>
  BY DEF Complete, Works, fileVars, ghostVars
<1>2. holds' \in [Agents -> issued \cup {0}]
  BY <1>1, Kept
<1>3. ws \in Seq(Updates(issued))
  <2>1. holds[p] \in issued
    BY <1>1, AgentFacts
  <2>2. [status |-> "completed"] \in Settings(issued)
    BY DEF Settings, Statuses
  <2>3. u \in Updates(issued)
    BY <2>1, <2>2, PlainFacts
  <2> HIDE DEF u
  <2> QED
    BY <2>3
<1>4. ~InNumbering(p) /\ \A i \in Ids : ~InTask(p, i)
  BY <1>1 DEF InNumbering, InTask
<1> HIDE DEF ws
<1> QED
  BY <1>1, <1>2, <1>3, <1>4, Kept, FreeWorkTypes

LEMMA GiveUpTypes ==
    ASSUME TypeInv, NEW p \in Agents, GiveUp(p)
    PROVE  TypeInv'
<1>1. /\ pc[p] \in {"lock", "claim"} /\ Throws(p) /\ failures' \in 0..MaxFailures
      /\ UNCHANGED <<file, mark, lockVars, issued, calls>>
  BY Kept DEF GiveUp, fileVars, ghostVars
<1> QED
  BY <1>1, Kept, ThrowTypes

LEMMA DieTypes ==
    ASSUME TypeInv, NEW p \in Agents, Die(p)
    PROVE  TypeInv'
<1>1. /\ Moves(p, "dead", NoCall) /\ holds' = [holds EXCEPT ![p] = 0]
      /\ listLock' = (IF listLock = p THEN Nobody ELSE listLock)
      /\ taskLock' = [i \in Ids |-> IF taskLock[i] = p THEN Nobody ELSE taskLock[i]]
      /\ file' = file /\ mark' = mark /\ issued' = issued /\ calls' = calls
      /\ failures < MaxFailures /\ failures' = failures + 1
  BY DEF Die, Goes, Moves, fileVars, ghostVars
<1>2. pc'[p] = "dead"
  BY <1>1, MoveFacts
<1>3. CallOK(p)' /\ ~InNumbering(p)' /\ \A i \in Ids : ~InTask(p, i)'
  BY <1>2 DEF CallOK, InNumbering, InTask
<1>4. /\ listLock' \in Holders /\ listLock' # p
      /\ \A q \in Agents \ {p} : (listLock' = q) <=> (listLock = q)
  BY <1>1, Kept, AgentsAssumption DEF Holders
<1>5. /\ taskLock' \in [Ids -> Holders] /\ \A i \in Ids : taskLock'[i] # p
      /\ \A q \in Agents \ {p}, i \in Ids : (taskLock'[i] = q) <=> (taskLock[i] = q)
  BY <1>1, Kept, AgentsAssumption DEF Holders
<1>6. \A i \in Ids : There(i)' => i \in issued
  BY <1>1, Kept DEF There
<1>7. holds' \in [Agents -> issued \cup {0}]
  BY <1>1, Kept
<1> QED
  BY <1>1, <1>3, <1>4, <1>5, <1>6, <1>7, Kept, BasicTypes, MoveKeeps DEF PCs

LEMMA TypeInit == Init => TypeInv
<1> SUFFICES ASSUME Init PROVE TypeInv
  OBVIOUS
<1>1. issued \subseteq Ids
  BY TaskBounds DEF Init, Ids
<1>2. Types
  <2>1. file \in [Ids -> Tasks(issued)] /\ \A i \in Ids : There(i) => i \in issued
    BY BasicTypes, TaskBounds DEF Init, There, Ids
  <2>2. pc \in [Agents -> PCs] /\ call \in [Agents -> CallRecords(issued)]
    BY BasicTypes DEF Init, PCs
  <2>3. listLock \in Holders /\ taskLock \in [Ids -> Holders]
    BY DEF Init, Holders
  <2> QED
    BY <1>1, <2>1, <2>2, <2>3, TaskBounds DEF Init, Types
<1>3. Locked
  BY AgentsAssumption DEF Init, Locked, InNumbering, InTask
<1>4. \A p \in Agents : CallOK(p)
  BY DEF Init, CallOK
<1> QED
  BY <1>2, <1>3, <1>4 DEF TypeInv

LEMMA TypeNext == TypeInv /\ [Next]_vars => TypeInv'
<1> SUFFICES ASSUME TypeInv, [Next]_vars PROVE TypeInv'
  OBVIOUS
<1>1. CASE UNCHANGED vars
  BY <1>1 DEF vars, fileVars, lockVars, ghostVars, TypeInv, Types, Locked, CallOK, There,
              InNumbering, InTask, Todo
<1>2. ASSUME NEW p \in Agents, Step(p) PROVE TypeInv'
  BY <1>2, CreateOpensTypes, CreateFillsTypes, MarkOpensTypes, MarkFillsTypes, UnlinkTypes,
     CascadeTypes, ResetMarksTypes, ResetListsTypes, ResetClearsTypes, LockTypes, WriteTypes,
     FillTypes, ClaimLocksTypes, CheckTypes, TakeTypes DEF Step
<1> QED
  BY <1>1, <1>2, ClaimTypes, CompleteTypes, CreateTypes, ResetTypes, DeleteTypes, BlockTypes,
     UnassignTypes, SetStatusTypes, SetOwnerTypes, GiveUpTypes, DieTypes DEF Next

-----------------------------------------------------------------------------
(* The steps, as far as the invariants that follow tell them apart          *)

Others(p) == \A q \in Agents : q # p => pc'[q] = pc[q] /\ call'[q] = call[q]
SameTasks == UNCHANGED <<file, holds, issued, deps, harm>>

\* A step that at most deletes files, and enters none of the parts of a call
\* that the invariants speak of
Quiet(p) ==
    /\ Others(p) /\ pc'[p] \notin {"fillnew", "write", "fill", "check"}
    /\ \A i \in Ids : file'[i] \in {file[i], NoTask}
    /\ \A q \in Agents : holds'[q] \in {holds[q], 0}
    /\ issued' = issued /\ harm \subseteq harm'

StartsWrite(p) ==
    LET id == (Todo(p).id)' IN
    /\ Others(p) /\ SameTasks
    /\ pc'[p] = "write" /\ id \in Ids /\ Whole(id) /\ call'[p].seen = file[id]
    /\ Claiming(p)' => pc[p] = "check" /\ call[p].n = id

StartsCheck(p) ==
    LET id == call[p].n IN
    /\ Others(p) /\ UNCHANGED <<file, holds, issued, deps>> /\ harm \subseteq harm'
    /\ pc'[p] = "check" /\ call'[p].n = id /\ call'[p].todo = file[id].blockedBy
    /\ id \in Ids /\ Whole(id)
    /\ Clean({"unowned", "shared"})' => \A a \in Agents : Protected(file[id], a) => a = p

ReadsBlocker(p) ==
    /\ Others(p) /\ UNCHANGED <<file, holds, issued, deps>>
    /\ pc[p] = "check" /\ pc'[p] = "check" /\ call'[p].n = call[p].n
    /\ \E b \in call[p].todo :
          /\ ~Open(b) /\ call'[p].todo = call[p].todo \ {b}
          /\ harm' = harm \cup {w \in {"torn"} : file[b].is = "torn"}

TakesNothing(p) ==
    LET id == call[p].n IN
    /\ Others(p) /\ UNCHANGED <<file, issued, deps, harm>>
    /\ pc[p] = "check" /\ pc'[p] \in {"idle", "lock"} /\ id \in Ids /\ ~Whole(id)
    /\ holds' = [holds EXCEPT ![p] = id]

LEMMA GoesFacts ==
    ASSUME TypeInv, NEW p \in Agents, NEW s, Goes(p, s)
    PROVE  pc'[p] = s /\ \A q \in Agents : q # p => pc'[q] = pc[q]
BY DEF TypeInv, Types, Goes

LEMMA EndMoves ==
    ASSUME TypeInv, NEW p \in Agents, Ends(p)
    PROVE  pc'[p] = "idle" /\ call'[p] = NoCall /\ Others(p)
BY EndFacts, MoveFacts DEF Others

LEMMA WorkMoves ==
    ASSUME TypeInv, NEW p \in Agents, NEW ws, NEW n, WorksOn(p, ws, n)
    PROVE  pc'[p] \in {"idle", "lock"} /\ call'[p].work = ws /\ Others(p)
<1>1. CASE ws = <<>>
  BY <1>1, EndMoves, BasicTypes DEF WorksOn
<1>2. CASE ws # <<>>
  <2> DEFINE c == [NoCall EXCEPT !.work = ws, !.n = n]
  <2>1. Moves(p, "lock", c)
    BY <1>2 DEF WorksOn, Goes, Moves
  <2>2. c.work = ws
    BY DEF NoCall
  <2> HIDE DEF c
  <2> QED
    BY <2>1, <2>2, MoveFacts DEF Others
<1> QED
  BY <1>1, <1>2

\* A step that changes the place and the call of one agent
LEMMA CallMoves ==
    ASSUME TypeInv, NEW p \in Agents, NEW s, NEW c, Goes(p, s), call' = [call EXCEPT ![p] = c]
    PROVE  pc'[p] = s /\ call'[p] = c /\ Others(p)
BY MoveFacts DEF Goes, Moves, Others

LEMMA QuietNumbering ==
    ASSUME TypeInv, NEW p \in Agents,
           Create(p) \/ (\E id \in Ids : Delete(p, id)) \/ MarkOpens(p) \/ MarkFills(p)
           \/ Reset(p) \/ ResetMarks(p) \/ ResetLists(p)
    PROVE  Quiet(p) /\ file' = file /\ deps' = deps /\ call'[p].work = call[p].work /\ pc'[p] # "list"
<1>1. file' = file /\ holds' = holds /\ issued' = issued /\ deps' = deps /\ harm \subseteq harm'
  BY DEF Create, Delete, MarkOpens, MarkFills, Reset, ResetMarks, ResetLists, Hurt, fileVars, ghostVars
<1>2. call \in [Agents -> CallRecords(issued)]
  BY DEF TypeInv, Types
<1> DEFINE Calm(s) == /\ pc'[p] = s /\ \A q \in Agents : q # p => pc'[q] = pc[q]
           SameWork == /\ call'[p].work = call[p].work
                       /\ \A q \in Agents : q # p => call'[q] = call[q]
<1>3. \E s \in PCs \ {"fillnew", "write", "fill", "check", "list"} : Calm(s)
  <2>1. ASSUME NEW s, Goes(p, s) PROVE Calm(s)
    BY <2>1, GoesFacts
  <2> HIDE DEF Calm
  <2>2. pc[p] = "markfill" => call[p].next \in {"unlink", "readdir"}
    BY AgentFacts DEF CallOK
  <2>3. CASE Create(p)
    BY <2>1, <2>3 DEF Create, PCs
  <2>4. CASE \E id \in Ids : Delete(p, id)
    BY <2>1, <2>4 DEF Delete, Marks, PCs
  <2>5. CASE MarkOpens(p) \/ MarkFills(p)
    BY <2>1, <2>2, <2>5 DEF MarkOpens, MarkFills, PCs
  <2>6. CASE Reset(p) \/ ResetMarks(p) \/ ResetLists(p)
    BY <2>1, <2>6 DEF Reset, ResetMarks, ResetLists, Marks, PCs
  <2> QED
    BY <2>3, <2>4, <2>5, <2>6
<1>4. SameWork
  <2>1. ASSUME NEW n, call' = [call EXCEPT ![p].n = n] PROVE SameWork
    BY <1>2, <2>1 DEF CallRecords
  <2>2. ASSUME NEW n, NEW t, call' = [call EXCEPT ![p].n = n, ![p].next = t] PROVE SameWork
    BY <1>2, <2>2 DEF CallRecords
  <2>3. ASSUME NEW id, NEW then, Marks(p, id, then) PROVE SameWork
    <3>1. CASE id > mark
      <4>1. call' = [call EXCEPT ![p].n = id, ![p].next = then]
        BY <2>3, <3>1 DEF Marks
      <4> QED
        BY <1>2, <4>1 DEF CallRecords
    <3>2. CASE ~(id > mark)
      <4>1. call' = [call EXCEPT ![p].n = id]
        BY <2>3, <3>2 DEF Marks
      <4> QED
        BY <1>2, <4>1 DEF CallRecords
    <3> QED
      BY <3>1, <3>2
  <2>4. CASE Create(p)
    <3>1. CASE call' = [call EXCEPT ![p].n = Highest, ![p].next = "mark"]
      BY <1>2, <3>1 DEF CallRecords
    <3>2. CASE call' = [call EXCEPT ![p].n = mark, ![p].next = "files"]
      BY <1>2, <3>2 DEF CallRecords
    <3> QED
      BY <2>4, <3>1, <3>2 DEF Create
  <2>5. CASE \E id \in Ids : Delete(p, id)
    <3>1. PICK id \in Ids : Marks(p, id, "unlink")
      BY <2>5 DEF Delete
    <3> QED
      BY <2>3, <3>1
  <2>6. CASE ResetMarks(p)
    <3>1. Marks(p, call[p].n, "readdir")
      BY <2>6 DEF ResetMarks
    <3> QED
      BY <2>3, <3>1
  <2>7. CASE Reset(p)
    <3>1. call' = [call EXCEPT ![p].n = Highest]
      BY <2>7 DEF Reset
    <3> QED
      BY <1>2, <3>1 DEF CallRecords
  <2>8. CASE ResetLists(p)
    <3>1. call' = [call EXCEPT ![p].todo = {i \in Ids : There(i)}]
      BY <2>8 DEF ResetLists
    <3> QED
      BY <1>2, <3>1 DEF CallRecords
  <2>9. CASE MarkOpens(p) \/ MarkFills(p)
    BY <2>9 DEF MarkOpens, MarkFills
  <2> QED
    BY <2>4, <2>5, <2>6, <2>7, <2>8, <2>9
<1> QED
  BY <1>1, <1>3, <1>4 DEF Quiet, Others

LEMMA QuietRemoving ==
    ASSUME TypeInv, NEW p \in Agents, Unlink(p) \/ ResetClears(p)
    PROVE  /\ Quiet(p) /\ call'[p].work \in {call[p].work, <<>>}
           /\ pc'[p] = "list" => ~There(call[p].n)'
           /\ \/ UNCHANGED <<file, deps>>
              \/ \E i \in Ids : Removes(i)
<1>1. holds' = holds /\ issued' = issued /\ harm' = harm
  BY DEF Unlink, ResetClears
<1>2. CASE Ends(p) /\ file' = file /\ deps' = deps
  <2>1. pc'[p] = "idle" /\ call'[p].work = <<>> /\ Others(p)
    BY <1>2, EndMoves, BasicTypes
  <2> QED
    BY <1>1, <1>2, <2>1 DEF Quiet
<1>3. ASSUME NEW i \in Ids, Removes(i)
      PROVE  ~There(i)' /\ \A j \in Ids : file'[j] \in {file[j], NoTask}
  BY <1>3, Kept, BasicTypes DEF Removes, There
<1>4. CASE pc[p] = "unlink" /\ Removes(call[p].n) /\ Goes(p, "list") /\ call' = call
  <2>1. call[p].n \in Ids
    BY <1>4, AgentFacts, Kept DEF CallOK
  <2>2. pc'[p] = "list" /\ Others(p)
    BY <1>4, GoesFacts DEF Others
  <2>3. ~There(call[p].n)' /\ \A j \in Ids : file'[j] \in {file[j], NoTask}
    BY <1>3, <1>4, <2>1
  <2> QED
    BY <1>1, <1>4, <2>1, <2>2, <2>3 DEF Quiet
<1>5. CASE /\ pc[p] = "clear"
           /\ \E i \in call[p].todo : /\ Removes(i) /\ call' = [call EXCEPT ![p].todo = @ \ {i}]
                                      /\ UNCHANGED <<listLock, pc>>
  <2>1. PICK i \in call[p].todo :
          Removes(i) /\ call' = [call EXCEPT ![p].todo = @ \ {i}] /\ UNCHANGED <<listLock, pc>>
    BY <1>5
  <2>2. i \in Ids /\ call \in [Agents -> CallRecords(issued)]
    BY AgentFacts DEF TypeInv, Types
  <2>3. call'[p].work = call[p].work /\ \A q \in Agents : q # p => call'[q] = call[q]
    BY <2>1, <2>2 DEF CallRecords
  <2> QED
    BY <1>1, <1>3, <1>5, <2>1, <2>2, <2>3 DEF Quiet, Others
<1> QED
  BY <1>2, <1>4, <1>5 DEF Unlink, ResetClears

LEMMA QuietUpdating ==
    ASSUME TypeInv, NEW p \in Agents,
           \/ Cascade(p) \/ Complete(p) \/ Claim(p) \/ GiveUp(p) \/ Die(p)
           \/ \E a, b \in Ids : Block(p, a, b)
           \/ \E q \in Agents : Unassign(p, q)
           \/ \E id \in Ids, status \in Statuses : SetStatus(p, id, status)
           \/ \E id \in Ids, owner \in Agents \ Watchers : SetOwner(p, id, owner)
    PROVE  Quiet(p) /\ file' = file /\ deps' = deps /\ pc'[p] \in {"idle", "lock", "claim", "dead"}
<1>1. /\ file' = file /\ issued' = issued /\ deps' = deps /\ harm' = harm
  BY DEF Cascade, Complete, Claim, GiveUp, Die, Block, Unassign, SetStatus, SetOwner, fileVars, ghostVars
<1>2. \A q \in Agents : holds'[q] \in {holds[q], 0}
  BY Kept DEF Cascade, Complete, Claim, GiveUp, Throws, Die, Block, Unassign, SetStatus, SetOwner
<1>3. pc'[p] \in {"idle", "lock", "claim", "dead"} /\ Others(p)
  <2>1. CASE Claim(p)
    <3>1. PICK i \in Ids : call' = [call EXCEPT ![p] = [call[p] EXCEPT !.n = i]] /\ Goes(p, "claim")
      BY <2>1 DEF Claim
    <3> QED
      BY <3>1, CallMoves
  <2>2. CASE Die(p)
    BY <2>2, CallMoves DEF Die
  <2>3. CASE GiveUp(p)
    BY <2>3, EndMoves DEF GiveUp, Throws
  <2>4. CASE \E ws : WorksOn(p, ws, 0)
    BY <2>4, WorkMoves
  <2> QED
    BY <2>1, <2>2, <2>3, <2>4 DEF Cascade, Complete, Block, Unassign, SetStatus, SetOwner, Works
<1> QED
  BY <1>1, <1>2, <1>3 DEF Quiet

LEMMA LockCases ==
    ASSUME TypeInv, NEW p \in Agents, Lock(p)
    PROVE  /\ file' = file /\ deps' = deps /\ harm' = harm
           /\ \/ Quiet(p) /\ pc'[p] \in {"idle", "lock"} /\ call'[p].work \in {Tail(call[p].work), <<>>}
              \/ StartsWrite(p) /\ call'[p].work = call[p].work
<1> DEFINE id == Todo(p).id
<1>1. pc[p] = "lock" /\ file' = file /\ issued' = issued /\ deps' = deps /\ harm' = harm
  BY DEF Lock, fileVars, ghostVars
<1>2. id \in Ids
  BY <1>1, AgentFacts, TodoFacts DEF CallOK
<1>3. ~Claiming(p)
  <2>1. call[p].work # <<>> /\ call[p].work \in Seq(Updates(issued))
    BY <1>1, AgentFacts DEF CallOK
  <2>2. call[p].n # 0 => Todo(p).for = Nobody
    BY <1>1, <2>1, AgentFacts, UnassignedTail DEF CallOK, Todo
  <2>3. id # 0 /\ p # Nobody
    BY <1>2, TaskBounds, AgentsAssumption DEF Ids
  <2> QED
    BY <2>2, <2>3 DEF Claiming
<1>4. CASE NextUpdate(p) /\ UNCHANGED <<taskLock, holds>>
  <2>1. pc'[p] \in {"idle", "lock"} /\ call'[p].work = Tail(call[p].work) /\ Others(p)
    BY <1>4, WorkMoves DEF NextUpdate
  <2> QED
    BY <1>1, <1>4, <2>1 DEF Quiet
<1>5. CASE Throws(p) /\ UNCHANGED taskLock
  <2>1. pc'[p] = "idle" /\ call'[p].work = <<>> /\ Others(p)
    BY <1>5, EndMoves, BasicTypes DEF Throws
  <2>2. \A q \in Agents : holds'[q] \in {holds[q], 0}
    BY <1>5, Kept DEF Throws
  <2> QED
    BY <1>1, <2>1, <2>2 DEF Quiet
<1>6. CASE /\ Whole(id) /\ Goes(p, "write")
           /\ call' = [call EXCEPT ![p].seen = file[id]] /\ UNCHANGED holds
  <2> DEFINE c == [call[p] EXCEPT !.seen = file[id]]
  <2>1. call[p] \in CallRecords(issued)
    BY AgentFacts
  <2>2. c.work = call[p].work /\ c.seen = file[id] /\ c.n = call[p].n
    BY <2>1 DEF CallRecords
  <2>3. call' = [call EXCEPT ![p] = c]
    BY <1>6
  <2> HIDE DEF c
  <2>4. pc'[p] = "write" /\ call'[p] = c /\ Others(p)
    BY <1>6, <2>3, CallMoves
  <2>5. (Todo(p).id)' = id
    BY <2>2, <2>4 DEF Todo
  <2>6. ~Claiming(p)'
    BY <1>3, <2>2, <2>4 DEF Claiming, Todo
  <2> QED
    BY <1>1, <1>2, <1>6, <1>3, <2>2, <2>4, <2>5, <2>6 DEF StartsWrite, SameTasks
<1> QED
  BY <1>1, <1>4, <1>5, <1>6 DEF Lock

\* A claim that is let through takes the task from nobody
LEMMA LetThroughFacts ==
    ASSUME TypeInv, NEW p \in Agents, NEW i \in Ids, NEW a \in Agents,
           file[i].owner \in {Nobody, ClaimAs(p)}, file[i].status # "completed",
           ~(file[i].owner = Nobody /\ file[i].status = "in_progress"), file[i].owner # TheList,
           Protected(file[i], a)
    PROVE  a = p
<1>1. file[i].status \in Statuses
  BY Kept DEF Tasks
<1>2. file[i].owner = ClaimAs(a)
  BY <1>1 DEF Protected, Statuses
<1>3. a \notin Watchers /\ ClaimAs(a) = a /\ a # Nobody
  BY <1>2, AgentsAssumption DEF ClaimAs
<1> QED
  BY <1>2, <1>3, AgentsAssumption DEF ClaimAs

LEMMA ClaimLocksCases ==
    ASSUME TypeInv, NEW p \in Agents, ClaimLocks(p)
    PROVE  /\ file' = file /\ deps' = deps
           /\ harm' \subseteq harm \cup {"unowned", "shared"}
           /\ \/ Quiet(p) /\ pc'[p] = "idle" /\ call'[p].work = <<>>
              \/ StartsCheck(p) /\ call'[p].work = call[p].work
<1> DEFINE id == call[p].n
           more == {h \in {"unowned"} : file[id].owner = Nobody /\ file[id].status = "in_progress"}
                   \cup {h \in {"shared"} : file[id].owner = TheList}
<1>1. /\ pc[p] = "claim" /\ file' = file /\ issued' = issued /\ deps' = deps
      /\ holds' = holds
  BY DEF ClaimLocks, fileVars, ghostVars
<1>2. id \in Ids
  BY <1>1, AgentFacts, Kept DEF CallOK
<1>3. CASE Ends(p) /\ harm' = harm
  <2>1. pc'[p] = "idle" /\ call'[p].work = <<>> /\ Others(p)
    BY <1>3, EndMoves, BasicTypes
  <2> QED
    BY <1>1, <1>3, <2>1 DEF Quiet
<1>4. CASE /\ Whole(id) /\ Goes(p, "check") /\ harm' = harm \cup more
           /\ file[id].owner \in {Nobody, ClaimAs(p)} /\ file[id].status # "completed"
           /\ call' = [call EXCEPT ![p].todo = file[id].blockedBy]
  <2> DEFINE c == [call[p] EXCEPT !.todo = file[id].blockedBy]
  <2>1. call[p] \in CallRecords(issued)
    BY AgentFacts
  <2>2. c.work = call[p].work /\ c.todo = file[id].blockedBy /\ c.n = id
    BY <2>1 DEF CallRecords
  <2>3. call' = [call EXCEPT ![p] = c]
    BY <1>4
  <2> HIDE DEF c
  <2>4. pc'[p] = "check" /\ call'[p] = c /\ Others(p)
    BY <1>4, <2>3, CallMoves
  <2>5. harm \subseteq harm' /\ harm' \subseteq harm \cup {"unowned", "shared"}
    BY <1>4
  <2>6. Clean({"unowned", "shared"})' => \A a \in Agents : Protected(file[id], a) => a = p
    <3>1. Clean({"unowned", "shared"})' =>
            /\ ~(file[id].owner = Nobody /\ file[id].status = "in_progress")
            /\ file[id].owner # TheList
      BY <1>4 DEF Clean
    <3> QED
      BY <1>2, <1>4, <3>1, LetThroughFacts
  <2> QED
    BY <1>1, <1>2, <1>4, <2>2, <2>4, <2>5, <2>6 DEF StartsCheck
<1> QED
  BY <1>1, <1>3, <1>4 DEF ClaimLocks, LetThrough, Hurt

LEMMA CheckCases ==
    ASSUME TypeInv, NEW p \in Agents, Check(p)
    PROVE  /\ file' = file /\ deps' = deps
           /\ \/ Quiet(p) /\ pc'[p] = "idle" /\ call'[p].work = <<>>
              \/ ReadsBlocker(p) /\ call'[p].work = call[p].work
<1>1. /\ pc[p] = "check" /\ file' = file /\ issued' = issued /\ deps' = deps /\ holds' = holds
  BY DEF Check, fileVars, ghostVars
<1>2. PICK b \in call[p].todo :
        IF Open(b)
        THEN Ends(p) /\ harm' = harm
        ELSE /\ call' = [call EXCEPT ![p].todo = @ \ {b}] /\ pc' = pc
             /\ harm' = harm \cup {w \in {"torn"} : file[b].is = "torn"}
  BY DEF Check, Hurt
<1>3. CASE Open(b)
  <2>1. pc'[p] = "idle" /\ call'[p].work = <<>> /\ Others(p)
    BY <1>2, <1>3, EndMoves, BasicTypes
  <2> QED
    BY <1>1, <1>2, <1>3, <2>1 DEF Quiet
<1>4. CASE ~Open(b)
  <2>1. call \in [Agents -> CallRecords(issued)]
    BY DEF TypeInv, Types
  <2>2. /\ call'[p].work = call[p].work /\ call'[p].n = call[p].n
        /\ call'[p].todo = call[p].todo \ {b}
        /\ \A q \in Agents : q # p => call'[q] = call[q]
    BY <1>2, <1>4, <2>1 DEF CallRecords
  <2> QED
    BY <1>1, <1>2, <1>4, <2>2 DEF ReadsBlocker, Others
<1> QED
  BY <1>3, <1>4

LEMMA TakeSteps ==
    ASSUME TypeInv, NEW p \in Agents, Take(p)
    PROVE  \E ws \in {Started(p, call[p].n), Released(call[p].n)} :
              \/ /\ StartsWrite(p) /\ (Todo(p).id)' = call[p].n
                 /\ call'[p].work = <<Assign(call[p].n, [owner |-> ClaimAs(p)], p)>> \o ws
              \/ TakesNothing(p) /\ call'[p].work = ws
<1> DEFINE id == call[p].n
<1>1. /\ pc[p] = "check" /\ id \in issued /\ id \in Ids
      /\ file' = file /\ issued' = issued /\ deps' = deps /\ harm' = harm
  BY TakeCases
<1>2. PICK ws \in {Started(p, id), Released(id)} :
        \/ /\ Whole(id) /\ Goes(p, "write") /\ taskLock' = taskLock /\ holds' = holds
           /\ call' = [call EXCEPT ![p] = [NoCall EXCEPT
                !.work = <<Assign(id, [owner |-> ClaimAs(p)], p)>> \o ws, !.seen = file[id], !.n = id]]
        \/ /\ ~Whole(id) /\ taskLock' = [taskLock EXCEPT ![id] = Nobody]
           /\ holds' = [holds EXCEPT ![p] = id] /\ WorksOn(p, ws, id)
  BY TakeCases
<1>3. CASE ~Whole(id) /\ holds' = [holds EXCEPT ![p] = id] /\ WorksOn(p, ws, id)
  BY <1>1, <1>3, WorkMoves DEF TakesNothing
<1>4. CASE /\ Whole(id) /\ Goes(p, "write") /\ holds' = holds
           /\ call' = [call EXCEPT ![p] = [NoCall EXCEPT
                !.work = <<Assign(id, [owner |-> ClaimAs(p)], p)>> \o ws, !.seen = file[id], !.n = id]]
  <2> DEFINE u == Assign(id, [owner |-> ClaimAs(p)], p)
             w == <<u>> \o ws
             c == [NoCall EXCEPT !.work = w, !.seen = file[id], !.n = id]
  <2>1. u.id = id
    BY DEF Assign, Update
  <2>2. Head(w) = u
    <3>1. ws \in Seq(Updates(issued)) /\ u \in Updates(issued)
      BY <1>1, AfterClaim
    <3> HIDE DEF u
    <3>2. <<u>> \in Seq(Updates(issued)) /\ Len(<<u>>) = 1 /\ <<u>>[1] = u
      BY <3>1
    <3>3. <<u>> \o ws \in Seq(Updates(issued)) /\ Len(<<u>> \o ws) = 1 + Len(ws)
      BY <3>1, <3>2
    <3>4. (<<u>> \o ws)[1] = u /\ Len(ws) \in Nat
      BY <3>1, <3>2
    <3> QED
      BY <3>3, <3>4
  <2>3. call' = [call EXCEPT ![p] = c]
    BY <1>4
  <2>4. c.work = w /\ c.seen = file[id]
    <3> HIDE DEF w
    <3> QED
      BY DEF NoCall
  <2> HIDE DEF c
  <2>5. pc'[p] = "write" /\ call'[p] = c /\ Others(p)
    BY <1>4, <2>3, CallMoves
  <2>6. (Todo(p).id)' = id
    BY <2>1, <2>2, <2>4, <2>5 DEF Todo
  <2> HIDE DEF w
  <2> QED
    BY <1>1, <1>4, <2>4, <2>5, <2>6 DEF StartsWrite, SameTasks, w
<1> QED
  BY <1>2, <1>3, <1>4

\* What is locked, where an agent is
LEMMA Places ==
    ASSUME TypeInv, NEW r \in Agents
    PROVE  /\ pc[r] \in {"write", "fill"} =>
                /\ Todo(r).id \in Ids /\ Todo(r).id \in issued /\ call[r].seen.is = "whole"
                /\ Todo(r).set \in Settings(issued) /\ Todo(r).from \subseteq issued
                /\ Todo(r).for \in Holders /\ Agrees(Todo(r).set, Todo(r).for)
                /\ InTask(r, Todo(r).id) /\ call[r].work # <<>>
           /\ pc[r] \in {"fillnew", "check", "list"} =>
                call[r].n \in Ids /\ call[r].n \in issued /\ call[r].n # 0
           /\ pc[r] = "check" => InTask(r, call[r].n)
<1>1. call[r].n \in issued \cup {0} /\ issued \subseteq Ids /\ CallOK(r)
  BY AgentFacts, Kept
<1>2. pc[r] \in {"write", "fill"} => call[r].work # <<>> /\ call[r].seen.is = "whole"
  BY <1>1 DEF CallOK
<1>3. call[r].work # <<>> =>
         /\ Todo(r).id \in Ids /\ Todo(r).id \in issued
         /\ Todo(r).set \in Settings(issued) /\ Todo(r).from \subseteq issued
         /\ Todo(r).for \in Holders /\ Agrees(Todo(r).set, Todo(r).for)
  BY TodoFacts
<1>4. pc[r] \in {"fillnew", "check", "list"} => call[r].n # 0
  BY <1>1 DEF CallOK
<1> QED
  BY <1>1, <1>2, <1>3, <1>4 DEF InTask

LEMMA Alone ==
    ASSUME TypeInv, NEW p \in Agents, NEW q \in Agents
    PROVE  /\ \A i \in Ids : InTask(p, i) /\ InTask(q, i) => p = q
           /\ InNumbering(p) /\ InNumbering(q) => p = q
<1>1. \A i \in Ids : (taskLock[i] = p <=> InTask(p, i)) /\ (taskLock[i] = q <=> InTask(q, i))
  BY DEF TypeInv, Locked
<1>2. (listLock = p <=> InNumbering(p)) /\ (listLock = q <=> InNumbering(q))
  BY DEF TypeInv, Locked
<1> QED
  BY <1>1, <1>2

LEMMA OthersFacts ==
    ASSUME NEW p \in Agents, Others(p), NEW q \in Agents, q # p
    PROVE  /\ pc'[q] = pc[q] /\ call'[q] = call[q] /\ Todo(q)' = Todo(q)
           /\ \A i \in Ids : InTask(q, i)' <=> InTask(q, i)
           /\ Claiming(q)' <=> Claiming(q)
BY DEF Others, Todo, InTask, Claiming

LEMMA CreateOpensFacts ==
    ASSUME TypeInv, NEW p \in Agents, CreateOpens(p)
    PROVE  LET id == call'[p].n IN
           /\ Others(p) /\ pc[p] = "highest" /\ pc'[p] = "fillnew" /\ id \in Ids /\ id # 0
           /\ call'[p].work = call[p].work
           /\ id = Max({call[p].n, IF call[p].next = "mark" THEN mark ELSE Highest}) + 1
           /\ file' = [file EXCEPT ![id] = Torn] /\ issued' = issued \cup {id}
           /\ harm' = harm \cup {w \in {"reused"} : id \in issued}
           /\ UNCHANGED <<holds, deps, mark>>
<1> DEFINE id == Max({call[p].n, IF call[p].next = "mark" THEN mark ELSE Highest}) + 1
           c == [call[p] EXCEPT !.n = id]
<1>1. /\ pc[p] = "highest" /\ file' = [file EXCEPT ![id] = Torn] /\ issued' = issued \cup {id}
      /\ Goes(p, "fillnew") /\ call' = [call EXCEPT ![p].n = id] /\ UNCHANGED <<holds, deps, mark>>
      /\ harm' = harm \cup {w \in {"reused"} : id \in issued}
  BY DEF CreateOpens, Hurt
<1>2. id \in Ids /\ id # 0
  <2>1. issued' \subseteq Ids
    BY CreateOpensTypes DEF TypeInv, Types
  <2> QED
    BY <1>1, <2>1, TaskBounds DEF Ids
<1> HIDE DEF id
<1>3. c.n = id /\ c.work = call[p].work
  BY AgentFacts DEF CallRecords
<1>4. call' = [call EXCEPT ![p] = c]
  BY <1>1
<1> HIDE DEF c
<1>5. pc'[p] = "fillnew" /\ call'[p] = c /\ Others(p)
  BY <1>1, <1>4, CallMoves
<1> QED
  BY <1>1, <1>2, <1>3, <1>5 DEF id

LEMMA CreateFillsFacts ==
    ASSUME TypeInv, NEW p \in Agents, CreateFills(p)
    PROVE  LET id == call[p].n IN
           /\ Others(p) /\ pc[p] = "fillnew" /\ pc'[p] = "idle" /\ id \in Ids
           /\ call'[p].work = <<>> /\ UNCHANGED <<holds, deps, mark, issued, harm>>
           /\ file' = [file EXCEPT ![id] = IF @.is = "absent" THEN @ ELSE NewTask]
<1>1. /\ pc[p] = "fillnew" /\ Ends(p) /\ UNCHANGED <<holds, deps, mark, issued, harm>>
      /\ file' = [file EXCEPT ![call[p].n] = IF @.is = "absent" THEN @ ELSE NewTask]
  BY DEF CreateFills, ghostVars
<1>2. call[p].n \in Ids
  BY <1>1, Places
<1>3. pc'[p] = "idle" /\ call'[p].work = <<>> /\ Others(p)
  BY <1>1, EndMoves, BasicTypes
<1> QED
  BY <1>1, <1>2, <1>3

LEMMA WriteFacts ==
    ASSUME TypeInv, NEW p \in Agents, Write(p)
    PROVE  LET id == Todo(p).id IN
           /\ Others(p) /\ pc[p] = "write" /\ pc'[p] = "fill" /\ id \in Ids /\ InTask(p, id)
           /\ call'[p] = call[p] /\ Todo(p)' = Todo(p)
           /\ file' = [file EXCEPT ![id] = Torn] /\ UNCHANGED <<holds, deps, mark, issued>>
           /\ harm' = harm \cup {w \in {"resurrected"} : ~There(id)}
<1>1. /\ pc[p] = "write" /\ Goes(p, "fill") /\ call' = call
      /\ file' = [file EXCEPT ![Todo(p).id] = Torn] /\ UNCHANGED <<holds, deps, mark, issued>>
      /\ harm' = harm \cup {w \in {"resurrected"} : ~There(Todo(p).id)}
  BY DEF Write, Hurt, ghostVars
<1>2. Todo(p).id \in Ids /\ InTask(p, Todo(p).id)
  BY <1>1, Places
<1>3. pc'[p] = "fill" /\ Others(p)
  BY <1>1, GoesFacts DEF Others
<1> QED
  BY <1>1, <1>2, <1>3 DEF Todo

LEMMA FillFacts ==
    ASSUME TypeInv, NEW p \in Agents, Fill(p)
    PROVE  LET id == Todo(p).id IN
           /\ Others(p) /\ pc[p] = "fill" /\ pc'[p] \in {"idle", "lock"}
           /\ id \in Ids /\ id \in issued /\ InTask(p, id) /\ call[p].work # <<>>
           /\ call'[p].work = Tail(call[p].work) /\ holds' = Granted(p)
           /\ file' = [file EXCEPT ![id] = IF @.is = "absent" THEN @ ELSE Merged(p)]
           /\ UNCHANGED <<mark, issued>> /\ harm \subseteq harm'
<1>1. /\ pc[p] = "fill" /\ NextUpdate(p) /\ holds' = Granted(p) /\ UNCHANGED <<mark, issued>>
      /\ file' = [file EXCEPT ![Todo(p).id] = IF @.is = "absent" THEN @ ELSE Merged(p)]
      /\ harm \subseteq harm'
  BY DEF Fill, Hurt
<1>2. Todo(p).id \in Ids /\ Todo(p).id \in issued /\ InTask(p, Todo(p).id) /\ call[p].work # <<>>
  BY <1>1, Places
<1>3. pc'[p] \in {"idle", "lock"} /\ call'[p].work = Tail(call[p].work) /\ Others(p)
  BY <1>1, WorkMoves DEF NextUpdate
<1> QED
  BY <1>1, <1>2, <1>3

-----------------------------------------------------------------------------
(* NewInv                                                                   *)

\* NewInv, for one agent
NewFor(p) ==
    /\ pc[p] = "fillnew" =>
         /\ ~Whole(call[p].n)
         /\ \A q \in Agents : holds[q] # call[p].n /\ ~InTask(q, call[p].n)
    /\ pc[p] = "write" /\ Whole(Todo(p).id) => file[Todo(p).id] = call[p].seen
    /\ pc[p] = "fill" => ~Whole(Todo(p).id)

LEMMA NewByAgent == NewInv <=> (Clean({"reused"}) => \A p \in Agents : NewFor(p))
BY DEF NewInv, NewFor

LEMMA NewByAgentNext == NewInv' <=> (Clean({"reused"})' => \A p \in Agents : NewFor(p)')
BY DEF NewInv, NewFor

\* What a step of p has to leave to an agent that creates or updates a task
LEMMA NewOthers ==
    ASSUME TypeInv, NEW p \in Agents, Others(p), NEW r \in Agents, r # p, NewFor(r),
           \A i \in Ids : pc[r] \in {"write", "fill"} /\ i = Todo(r).id =>
             file'[i] = file[i] \/ file'[i].is # "whole",
           \A i \in Ids : pc[r] = "fillnew" /\ i = call[r].n =>
             /\ file'[i].is # "whole" /\ ~InTask(p, i)'
             /\ \A q \in Agents : holds'[q] # i
    PROVE  NewFor(r)'
<1>1. /\ pc'[r] = pc[r] /\ call'[r] = call[r] /\ Todo(r)' = Todo(r)
  BY OthersFacts
<1>2. CASE pc[r] = "fillnew"
  <2>1. PICK i \in Ids : i = call[r].n
    BY <1>2, Places
  <2>2. file'[i].is # "whole" /\ ~InTask(p, i)' /\ \A q \in Agents : holds'[q] # i
    BY <1>2, <2>1
  <2>3. ASSUME NEW q \in Agents, q # p PROVE ~InTask(q, call[r].n)'
    <3>1. ~InTask(q, i)
      BY <1>2, <2>1 DEF NewFor
    <3>2. ~InTask(q, i)'
      BY <2>3, <3>1, OthersFacts
    <3> QED
      BY <1>1, <2>1, <3>2 DEF InTask
  <2>4. ~InTask(p, call[r].n)'
    BY <1>1, <2>1, <2>2 DEF InTask
  <2>5. \A q \in Agents : ~InTask(q, call[r].n)'
    BY <2>3, <2>4
  <2> QED
    BY <1>1, <1>2, <2>1, <2>2, <2>5 DEF NewFor, Whole
<1>3. CASE pc[r] \in {"write", "fill"}
  <2>1. Todo(r).id \in Ids
    BY <1>3, Places
  <2> QED
    BY <1>1, <1>3, <2>1 DEF NewFor, Whole
<1>4. CASE pc[r] \notin {"fillnew", "write", "fill"}
  BY <1>1, <1>4 DEF NewFor
<1> QED
  BY <1>2, <1>3, <1>4

LEMMA NewQuiet ==
    ASSUME TypeInv, NewInv, NEW p \in Agents, Quiet(p)
    PROVE  NewInv'
<1> SUFFICES ASSUME Clean({"reused"})', NEW r \in Agents PROVE NewFor(r)'
  BY NewByAgentNext
<1>1. Others(p) /\ pc'[p] \notin {"fillnew", "write", "fill", "check"} /\ Clean({"reused"})
  BY DEF Quiet, Clean
<1>2. \A i \in Ids : file'[i] = file[i] \/ file'[i].is # "whole"
  BY BasicTypes DEF Quiet
<1>3. NewFor(r)
  BY <1>1, NewByAgent
<1>4. CASE r = p
  BY <1>1, <1>4 DEF NewFor
<1>5. CASE r # p
  <2>1. ASSUME NEW i \in Ids, pc[r] = "fillnew", i = call[r].n
        PROVE  file'[i].is # "whole" /\ ~InTask(p, i)' /\ \A q \in Agents : holds'[q] # i
    <3>1. i # 0 /\ ~Whole(i) /\ \A q \in Agents : holds[q] # i
      BY <1>3, <2>1, Places DEF NewFor
    <3> QED
      BY <1>1, <1>2, <3>1 DEF Quiet, Whole, InTask
  <2> QED
    BY <1>1, <1>2, <1>3, <1>5, <2>1, NewOthers
<1> QED
  BY <1>4, <1>5

\* A step that changes no file nor who holds what, and locks only what is whole
LEMMA NewReads ==
    ASSUME TypeInv, NewInv, NEW p \in Agents, Others(p), file' = file, holds' = holds, harm \subseteq harm',
           \A i \in Ids : InTask(p, i)' => InTask(p, i) \/ Whole(i),
           NewFor(p)'
    PROVE  NewInv'
<1> SUFFICES ASSUME Clean({"reused"})', NEW r \in Agents, r # p PROVE NewFor(r)'
  BY NewByAgentNext
<1>1. NewFor(r)
  BY NewByAgent DEF Clean
<1>2. ASSUME NEW i \in Ids, pc[r] = "fillnew", i = call[r].n
      PROVE  file'[i].is # "whole" /\ ~InTask(p, i)' /\ \A q \in Agents : holds'[q] # i
  BY <1>1, <1>2 DEF NewFor, Whole
<1> QED
  BY <1>1, <1>2, NewOthers

LEMMA NewStartsWrite ==
    ASSUME TypeInv, NewInv, NEW p \in Agents, StartsWrite(p)
    PROVE  NewInv'
<1>1. /\ Others(p) /\ file' = file /\ holds' = holds /\ harm' = harm
      /\ pc'[p] = "write" /\ Whole((Todo(p).id)') /\ call'[p].seen = file[(Todo(p).id)']
  BY DEF StartsWrite, SameTasks
<1>2. NewFor(p)'
  BY <1>1 DEF NewFor
<1>3. \A i \in Ids : InTask(p, i)' => InTask(p, i) \/ Whole(i)
  BY <1>1 DEF InTask
<1> QED
  BY <1>1, <1>2, <1>3, NewReads

LEMMA NewStartsCheck ==
    ASSUME TypeInv, NewInv, NEW p \in Agents, StartsCheck(p)
    PROVE  NewInv'
<1>1. /\ Others(p) /\ file' = file /\ holds' = holds /\ harm \subseteq harm'
      /\ pc'[p] = "check" /\ call'[p].n = call[p].n /\ Whole(call[p].n)
  BY DEF StartsCheck
<1>2. NewFor(p)'
  BY <1>1 DEF NewFor
<1>3. \A i \in Ids : InTask(p, i)' => InTask(p, i) \/ Whole(i)
  BY <1>1 DEF InTask
<1> QED
  BY <1>1, <1>2, <1>3, NewReads

LEMMA NewReadsBlocker ==
    ASSUME TypeInv, NewInv, NEW p \in Agents, ReadsBlocker(p)
    PROVE  NewInv'
<1>1. /\ Others(p) /\ file' = file /\ holds' = holds /\ harm \subseteq harm'
      /\ pc[p] = "check" /\ pc'[p] = "check" /\ call'[p].n = call[p].n
  BY DEF ReadsBlocker
<1>2. NewFor(p)'
  BY <1>1 DEF NewFor
<1>3. \A i \in Ids : InTask(p, i)' => InTask(p, i) \/ Whole(i)
  BY <1>1 DEF InTask
<1> QED
  BY <1>1, <1>2, <1>3, NewReads

LEMMA NewTakesNothing ==
    ASSUME TypeInv, NewInv, NEW p \in Agents, TakesNothing(p)
    PROVE  NewInv'
<1> SUFFICES ASSUME Clean({"reused"})', NEW r \in Agents PROVE NewFor(r)'
  BY NewByAgentNext
<1>1. /\ Others(p) /\ file' = file /\ harm' = harm /\ pc[p] = "check" /\ pc'[p] \in {"idle", "lock"}
      /\ call[p].n \in Ids /\ holds' = [holds EXCEPT ![p] = call[p].n]
  BY DEF TakesNothing
<1>2. NewFor(r)
  BY <1>1, NewByAgent DEF Clean
<1>3. CASE r = p
  BY <1>1, <1>3 DEF NewFor
<1>4. CASE r # p
  <2>1. ASSUME NEW i \in Ids, pc[r] = "fillnew", i = call[r].n
        PROVE  file'[i].is # "whole" /\ ~InTask(p, i)' /\ \A q \in Agents : holds'[q] # i
    <3>1. ~Whole(i) /\ ~InTask(p, i) /\ \A q \in Agents : holds[q] # i
      BY <1>2, <2>1 DEF NewFor
    <3>2. i # call[p].n
      BY <1>1, <3>1 DEF InTask
    <3>3. \A q \in Agents : holds'[q] # i
      BY <1>1, <3>1, <3>2, Kept
    <3> QED
      BY <1>1, <3>1, <3>3 DEF Whole, InTask
  <2> QED
    BY <1>1, <1>2, <1>4, <2>1, NewOthers
<1> QED
  BY <1>3, <1>4

LEMMA NewCreateOpens ==
    ASSUME TypeInv, NewInv, NEW p \in Agents, CreateOpens(p)
    PROVE  NewInv'
<1> SUFFICES ASSUME Clean({"reused"})', NEW r \in Agents PROVE NewFor(r)'
  BY NewByAgentNext
<1>1. PICK id \in Ids :
      /\ id = call'[p].n /\ Others(p) /\ pc[p] = "highest" /\ pc'[p] = "fillnew" /\ id # 0
      /\ file' = [file EXCEPT ![id] = Torn] /\ issued' = issued \cup {id}
      /\ harm' = harm \cup {w \in {"reused"} : id \in issued} /\ holds' = holds
  BY CreateOpensFacts
<1>2. Clean({"reused"}) /\ id \notin issued
  BY <1>1 DEF Clean
<1>3. \A i \in Ids : i # id => file'[i] = file[i]
  BY <1>1, Kept
<1>4. file'[id].is = "torn"
  BY <1>1, Kept, BasicTypes
<1>5. CASE r = p
  <2>1. \A q \in Agents : holds'[q] # id
    BY <1>1, <1>2, AgentFacts
  <2>2. ASSUME NEW q \in Agents PROVE ~InTask(q, id)'
    <3>1. CASE q = p
      BY <1>1, <3>1 DEF InTask
    <3>2. CASE q # p
      <4>1. ~InTask(q, id)
        BY <1>2, Places, AgentFacts DEF InTask
      <4>2. pc'[q] = pc[q] /\ call'[q] = call[q]
        BY <1>1, <3>2, OthersFacts
      <4> QED
        BY <4>1, <4>2 DEF InTask, Todo
    <3> QED
      BY <3>1, <3>2
  <2> QED
    BY <1>1, <1>4, <1>5, <2>1, <2>2 DEF NewFor, Whole, InTask
<1>6. CASE r # p
  <2>1. NewFor(r)
    BY <1>2, NewByAgent
  <2>2. pc[r] # "fillnew"
    BY <1>1, <1>6, Alone DEF InNumbering
  <2>3. \A i \in Ids : file'[i] = file[i] \/ file'[i].is # "whole"
    BY <1>3, <1>4
  <2> QED
    BY <1>1, <1>6, <2>1, <2>2, <2>3, NewOthers
<1> QED
  BY <1>5, <1>6

LEMMA NewCreateFills ==
    ASSUME TypeInv, NewInv, NEW p \in Agents, CreateFills(p)
    PROVE  NewInv'
<1> SUFFICES ASSUME Clean({"reused"})', NEW r \in Agents PROVE NewFor(r)'
  BY NewByAgentNext
<1> DEFINE id == call[p].n
<1>1. /\ Others(p) /\ pc[p] = "fillnew" /\ pc'[p] = "idle" /\ id \in Ids /\ harm' = harm
      /\ file' = [file EXCEPT ![id] = IF @.is = "absent" THEN @ ELSE NewTask] /\ holds' = holds
  BY CreateFillsFacts
<1>2. Clean({"reused"})
  BY <1>1 DEF Clean
<1>3. CASE r = p
  BY <1>1, <1>3 DEF NewFor
<1>4. CASE r # p
  <2>1. NewFor(r) /\ NewFor(p)
    BY <1>2, NewByAgent
  <2>2. pc[r] # "fillnew"
    BY <1>1, <1>4, Alone DEF InNumbering
  <2>3. ASSUME NEW i \in Ids, pc[r] \in {"write", "fill"}, i = Todo(r).id PROVE file'[i] = file[i]
    <3>1. i # id
      BY <1>1, <2>1, <2>3, Places DEF NewFor
    <3> QED
      BY <1>1, <3>1, Kept
  <2> QED
    BY <1>1, <1>4, <2>1, <2>2, <2>3, NewOthers
<1> QED
  BY <1>3, <1>4

LEMMA NewWrite ==
    ASSUME TypeInv, NewInv, NEW p \in Agents, Write(p)
    PROVE  NewInv'
<1> SUFFICES ASSUME Clean({"reused"})', NEW r \in Agents PROVE NewFor(r)'
  BY NewByAgentNext
<1> DEFINE id == Todo(p).id
<1>1. /\ Others(p) /\ pc[p] = "write" /\ pc'[p] = "fill" /\ id \in Ids /\ InTask(p, id)
      /\ Todo(p)' = Todo(p) /\ file' = [file EXCEPT ![id] = Torn] /\ holds' = holds
      /\ harm \subseteq harm'
  BY WriteFacts
<1>2. Clean({"reused"})
  BY <1>1 DEF Clean
<1>3. \A i \in Ids : file'[i] = (IF i = id THEN Torn ELSE file[i])
  BY <1>1, Kept
<1>4. Torn.is = "torn"
  BY BasicTypes
<1>5. CASE r = p
  BY <1>1, <1>3, <1>4, <1>5 DEF NewFor, Whole
<1>6. CASE r # p
  <2>1. NewFor(r)
    BY <1>2, NewByAgent
  <2>2. ASSUME NEW i \in Ids, pc[r] = "fillnew", i = call[r].n
        PROVE  file'[i].is # "whole" /\ ~InTask(p, i)' /\ \A q \in Agents : holds'[q] # i
    <3>1. ~Whole(i) /\ ~InTask(p, i) /\ \A q \in Agents : holds[q] # i
      BY <2>1, <2>2 DEF NewFor
    <3> QED
      BY <1>1, <1>3, <1>4, <3>1 DEF Whole, InTask
  <2>3. \A i \in Ids : file'[i] = file[i] \/ file'[i].is # "whole"
    BY <1>3, <1>4
  <2> QED
    BY <1>1, <1>6, <2>1, <2>2, <2>3, NewOthers
<1> QED
  BY <1>5, <1>6

\* What an update makes of who holds what
LEMMA GrantedTo ==
    ASSUME TypeInv, NEW p \in Agents, pc[p] = "fill", NEW q \in Agents
    PROVE  /\ Granted(p)[q] \in {holds[q], 0, Todo(p).id}
           /\ Todo(p).for = Nobody => Granted(p)[q] \in {holds[q], 0}
           /\ q # Todo(p).for => Granted(p)[q] \in {holds[q], 0}
<1>1. holds \in [Agents -> issued \cup {0}] /\ Todo(p).for \in Holders
  BY Kept, Places
<1> QED
  BY <1>1 DEF Granted, Holders

LEMMA NewFill ==
    ASSUME TypeInv, NewInv, NEW p \in Agents, Fill(p)
    PROVE  NewInv'
<1> SUFFICES ASSUME Clean({"reused"})', NEW r \in Agents PROVE NewFor(r)'
  BY NewByAgentNext
<1> DEFINE id == Todo(p).id
<1>1. /\ Others(p) /\ pc[p] = "fill" /\ pc'[p] \in {"idle", "lock"} /\ id \in Ids /\ InTask(p, id)
      /\ holds' = Granted(p) /\ harm \subseteq harm'
      /\ file' = [file EXCEPT ![id] = IF @.is = "absent" THEN @ ELSE Merged(p)]
  BY FillFacts
<1>2. Clean({"reused"})
  BY <1>1 DEF Clean
<1>3. \A i \in Ids : i # id => file'[i] = file[i]
  BY <1>1, Kept
<1>4. CASE r = p
  BY <1>1, <1>4 DEF NewFor
<1>5. CASE r # p
  <2>1. NewFor(r)
    BY <1>2, NewByAgent
  <2>2. ASSUME NEW i \in Ids, pc[r] = "fillnew", i = call[r].n
        PROVE  file'[i].is # "whole" /\ ~InTask(p, i)' /\ \A q \in Agents : holds'[q] # i
    <3>1. ~Whole(i) /\ ~InTask(p, i) /\ (\A q \in Agents : holds[q] # i) /\ i # 0
      BY <2>1, <2>2, Places DEF NewFor
    <3>2. i # id
      BY <1>1, <3>1
    <3>3. \A q \in Agents : holds'[q] # i
      BY <1>1, <3>1, <3>2, GrantedTo
    <3> QED
      BY <1>1, <1>3, <3>1, <3>2, <3>3 DEF Whole, InTask
  <2>3. ASSUME NEW i \in Ids, pc[r] \in {"write", "fill"}, i = Todo(r).id PROVE file'[i] = file[i]
    <3>1. i # id
      BY <1>1, <1>5, <2>3, Places, Alone
    <3> QED
      BY <1>3, <3>1
  <2> QED
    BY <1>1, <1>5, <2>1, <2>2, <2>3, NewOthers
<1> QED
  BY <1>4, <1>5

\* Every step is one of these
LEMMA StepCases ==
    ASSUME TypeInv, Next
    PROVE  \E p \in Agents :
              \/ Quiet(p) \/ StartsWrite(p) \/ StartsCheck(p) \/ ReadsBlocker(p) \/ TakesNothing(p)
              \/ CreateOpens(p) \/ CreateFills(p) \/ Write(p) \/ Fill(p)
<1>1. ASSUME NEW p \in Agents, Step(p)
      PROVE  \/ Quiet(p) \/ StartsWrite(p) \/ StartsCheck(p) \/ ReadsBlocker(p) \/ TakesNothing(p)
             \/ CreateOpens(p) \/ CreateFills(p) \/ Write(p) \/ Fill(p)
  BY <1>1, QuietNumbering, QuietRemoving, QuietUpdating, LockCases, ClaimLocksCases, CheckCases,
     TakeSteps DEF Step
<1> QED
  BY <1>1, QuietNumbering, QuietUpdating DEF Next

LEMMA StutterTasks ==
    ASSUME UNCHANGED vars
    PROVE  UNCHANGED <<file, mark, pc, call, holds, issued, deps, harm>>
BY DEF vars, fileVars, lockVars, ghostVars

LEMMA NewNext == TypeInv /\ NewInv /\ [Next]_vars => NewInv'
<1> SUFFICES ASSUME TypeInv, NewInv, [Next]_vars PROVE NewInv'
  OBVIOUS
<1>1. CASE UNCHANGED vars
  BY <1>1, StutterTasks DEF NewInv, Clean, Whole, InTask, Todo
<1>2. CASE Next
  BY <1>2, StepCases, NewQuiet, NewStartsWrite, NewStartsCheck, NewReadsBlocker, NewTakesNothing,
     NewCreateOpens, NewCreateFills, NewWrite, NewFill
<1> QED
  BY <1>1, <1>2

-----------------------------------------------------------------------------
(* HoldInv                                                                  *)

HoldFile ==
    /\ \A p, q \in Agents : p # q /\ holds[p] = holds[q] => holds[p] = 0
    /\ \A p \in Agents, i \in Ids : holds[p] = i /\ Whole(i) => Protected(file[i], p)

HoldCall(q) ==
    /\ pc[q] \in {"write", "fill"} =>
         \A a \in Agents : holds[a] = Todo(q).id =>
            Protected(call[q].seen, a) /\ (Claiming(q) => a = q)
    /\ pc[q] = "check" => \A a \in Agents : holds[a] = call[q].n => a = q

LEMMA HoldByCall ==
    /\ HoldInv <=> (Clean(Unfair) => HoldFile /\ \A q \in Agents : HoldCall(q))
    /\ HoldInv' <=> (Clean(Unfair)' => HoldFile' /\ \A q \in Agents : HoldCall(q)')
BY DEF HoldInv, HoldFile, HoldCall

\* What an agent gets is a task whose lock the step of p had
LEMMA HoldOthers ==
    ASSUME TypeInv, NEW p \in Agents, Others(p), NEW q \in Agents, q # p, HoldCall(q),
           \A a \in Agents : \/ holds'[a] \in {holds[a], 0}
                             \/ holds'[a] \in Ids /\ InTask(p, holds'[a])
    PROVE  HoldCall(q)'
<1>1. /\ pc'[q] = pc[q] /\ call'[q] = call[q] /\ Todo(q)' = Todo(q) /\ (Claiming(q)' <=> Claiming(q))
  BY OthersFacts
<1>2. ASSUME pc[q] \in {"write", "fill"}, NEW a \in Agents, holds'[a] = Todo(q).id
      PROVE  holds[a] = Todo(q).id
  <2>1. Todo(q).id \in Ids /\ InTask(q, Todo(q).id) /\ Todo(q).id # 0
    BY <1>2, Places, TaskBounds DEF Ids
  <2>2. ~InTask(p, Todo(q).id)
    BY <2>1, Alone
  <2> QED
    BY <1>2, <2>1, <2>2
<1>3. ASSUME pc[q] = "check", NEW a \in Agents, holds'[a] = call[q].n
      PROVE  holds[a] = call[q].n
  <2>1. call[q].n \in Ids /\ InTask(q, call[q].n) /\ call[q].n # 0
    BY <1>3, Places
  <2>2. ~InTask(p, call[q].n)
    BY <2>1, Alone
  <2> QED
    BY <1>3, <2>1, <2>2
<1> QED
  BY <1>1, <1>2, <1>3 DEF HoldCall

LEMMA HoldQuiet ==
    ASSUME TypeInv, HoldInv, NEW p \in Agents, Quiet(p)
    PROVE  HoldInv'
<1> SUFFICES ASSUME Clean(Unfair)' PROVE HoldFile' /\ \A q \in Agents : HoldCall(q)'
  BY HoldByCall
<1>1. HoldFile /\ \A q \in Agents : HoldCall(q)
  BY HoldByCall DEF Quiet, Clean
<1>2. /\ Others(p) /\ pc'[p] \notin {"fillnew", "write", "fill", "check"}
      /\ \A a \in Agents : holds'[a] \in {holds[a], 0}
      /\ \A i \in Ids : Whole(i)' => Whole(i) /\ file'[i] = file[i]
  BY BasicTypes DEF Quiet, Whole
<1>3. HoldFile'
  <2>1. \A a, b \in Agents : a # b /\ holds'[a] = holds'[b] => holds'[a] = 0
    BY <1>1, <1>2 DEF HoldFile
  <2>2. \A i \in Ids : i # 0
    BY TaskBounds DEF Ids
  <2>3. ASSUME NEW a \in Agents, NEW i \in Ids, holds'[a] = i, Whole(i)' PROVE Protected(file'[i], a)
    BY <1>1, <1>2, <2>2, <2>3 DEF HoldFile
  <2> QED
    BY <2>1, <2>3 DEF HoldFile
<1>4. HoldCall(p)'
  BY <1>2 DEF HoldCall
<1> QED
  BY <1>1, <1>2, <1>3, <1>4, HoldOthers

\* A step that changes no file nor who holds what
LEMMA HoldReads ==
    ASSUME TypeInv, HoldInv, NEW p \in Agents, Others(p), file' = file, holds' = holds, harm \subseteq harm',
           Clean(Unfair)' /\ HoldFile /\ HoldCall(p) => HoldCall(p)'
    PROVE  HoldInv'
<1> SUFFICES ASSUME Clean(Unfair)' PROVE HoldFile' /\ \A q \in Agents : HoldCall(q)'
  BY HoldByCall
<1>1. HoldFile /\ \A q \in Agents : HoldCall(q)
  BY HoldByCall DEF Clean
<1>2. HoldFile'
  BY <1>1 DEF HoldFile, Whole
<1> QED
  BY <1>1, <1>2, HoldOthers

LEMMA HoldStartsWrite ==
    ASSUME TypeInv, HoldInv, NEW p \in Agents, StartsWrite(p)
    PROVE  HoldInv'
<1>1. /\ Others(p) /\ file' = file /\ holds' = holds /\ harm' = harm
      /\ pc'[p] = "write" /\ (Todo(p).id)' \in Ids /\ Whole((Todo(p).id)')
      /\ call'[p].seen = file[(Todo(p).id)']
      /\ Claiming(p)' => pc[p] = "check" /\ call[p].n = (Todo(p).id)'
  BY DEF StartsWrite, SameTasks
<1>2. HoldFile /\ HoldCall(p) => HoldCall(p)'
  BY <1>1 DEF HoldFile, HoldCall
<1> QED
  BY <1>1, <1>2, HoldReads

LEMMA HoldStartsCheck ==
    ASSUME TypeInv, HoldInv, NEW p \in Agents, StartsCheck(p)
    PROVE  HoldInv'
<1>1. /\ Others(p) /\ file' = file /\ holds' = holds /\ harm \subseteq harm'
      /\ pc'[p] = "check" /\ call'[p].n = call[p].n /\ call[p].n \in Ids /\ Whole(call[p].n)
      /\ Clean({"unowned", "shared"})' => \A a \in Agents : Protected(file[call[p].n], a) => a = p
  BY DEF StartsCheck
<1>2. Clean(Unfair)' /\ HoldFile => HoldCall(p)'
  BY <1>1 DEF HoldFile, HoldCall, Clean, Unfair
<1> QED
  BY <1>1, <1>2, HoldReads

LEMMA HoldReadsBlocker ==
    ASSUME TypeInv, HoldInv, NEW p \in Agents, ReadsBlocker(p)
    PROVE  HoldInv'
<1>1. /\ Others(p) /\ file' = file /\ holds' = holds /\ harm \subseteq harm'
      /\ pc[p] = "check" /\ pc'[p] = "check" /\ call'[p].n = call[p].n
  BY DEF ReadsBlocker
<1>2. HoldCall(p) => HoldCall(p)'
  BY <1>1 DEF HoldCall
<1> QED
  BY <1>1, <1>2, HoldReads

LEMMA HoldTakesNothing ==
    ASSUME TypeInv, HoldInv, NEW p \in Agents, TakesNothing(p)
    PROVE  HoldInv'
<1> SUFFICES ASSUME Clean(Unfair)' PROVE HoldFile' /\ \A q \in Agents : HoldCall(q)'
  BY HoldByCall
<1> DEFINE id == call[p].n
<1>1. /\ Others(p) /\ file' = file /\ harm' = harm /\ pc[p] = "check" /\ pc'[p] \in {"idle", "lock"}
      /\ id \in Ids /\ ~Whole(id) /\ holds' = [holds EXCEPT ![p] = id]
  BY DEF TakesNothing
<1>2. HoldFile /\ \A q \in Agents : HoldCall(q)
  BY <1>1, HoldByCall DEF Clean
<1>3. \A a \in Agents : holds'[a] = (IF a = p THEN id ELSE holds[a])
  BY <1>1, Kept
<1>4. \A a \in Agents : holds[a] = id => a = p
  BY <1>1, <1>2 DEF HoldCall
<1>5. HoldFile'
  <2>1. \A a, b \in Agents : a # b /\ holds'[a] = holds'[b] => holds'[a] = 0
    BY <1>2, <1>3, <1>4 DEF HoldFile
  <2>2. \A a \in Agents, i \in Ids : holds'[a] = i /\ Whole(i)' => Protected(file'[i], a)
    BY <1>1, <1>2, <1>3 DEF HoldFile, Whole
  <2> QED
    BY <2>1, <2>2 DEF HoldFile
<1>6. HoldCall(p)'
  BY <1>1 DEF HoldCall
<1>7. InTask(p, id)
  BY <1>1 DEF InTask
<1> QED
  BY <1>1, <1>2, <1>3, <1>5, <1>6, <1>7, HoldOthers

LEMMA HoldCreateOpens ==
    ASSUME TypeInv, HoldInv, NEW p \in Agents, CreateOpens(p)
    PROVE  HoldInv'
<1> SUFFICES ASSUME Clean(Unfair)' PROVE HoldFile' /\ \A q \in Agents : HoldCall(q)'
  BY HoldByCall
<1>1. PICK id \in Ids :
      /\ id = call'[p].n /\ Others(p) /\ pc'[p] = "fillnew"
      /\ file' = [file EXCEPT ![id] = Torn] /\ holds' = holds /\ harm \subseteq harm'
  BY CreateOpensFacts
<1>2. HoldFile /\ \A q \in Agents : HoldCall(q)
  BY <1>1, HoldByCall DEF Clean
<1>3. \A i \in Ids : Whole(i)' => Whole(i) /\ file'[i] = file[i]
  BY <1>1, Kept, BasicTypes DEF Whole
<1>4. HoldFile'
  BY <1>1, <1>2, <1>3 DEF HoldFile
<1>5. HoldCall(p)'
  BY <1>1 DEF HoldCall
<1> QED
  BY <1>1, <1>2, <1>4, <1>5, HoldOthers

LEMMA HoldCreateFills ==
    ASSUME TypeInv, NewInv, HoldInv, NEW p \in Agents, CreateFills(p)
    PROVE  HoldInv'
<1> SUFFICES ASSUME Clean(Unfair)' PROVE HoldFile' /\ \A q \in Agents : HoldCall(q)'
  BY HoldByCall
<1> DEFINE id == call[p].n
<1>1. /\ Others(p) /\ pc[p] = "fillnew" /\ pc'[p] = "idle" /\ id \in Ids /\ harm' = harm
      /\ file' = [file EXCEPT ![id] = IF @.is = "absent" THEN @ ELSE NewTask] /\ holds' = holds
  BY CreateFillsFacts
<1>2. HoldFile /\ \A q \in Agents : HoldCall(q)
  BY <1>1, HoldByCall DEF Clean
<1>3. \A a \in Agents : holds[a] # id
  <2>1. NewFor(p)
    BY <1>1, NewByAgent DEF Clean, Unfair
  <2> QED
    BY <1>1, <2>1 DEF NewFor
<1>4. \A i \in Ids : i # id => file'[i] = file[i]
  BY <1>1, Kept
<1>5. HoldFile'
  <2>1. \A a, b \in Agents : a # b /\ holds'[a] = holds'[b] => holds'[a] = 0
    BY <1>1, <1>2 DEF HoldFile
  <2>2. \A a \in Agents, i \in Ids : holds'[a] = i /\ Whole(i)' => Protected(file'[i], a)
    BY <1>1, <1>2, <1>3, <1>4 DEF HoldFile, Whole
  <2> QED
    BY <2>1, <2>2 DEF HoldFile
<1>6. HoldCall(p)'
  BY <1>1 DEF HoldCall
<1> QED
  BY <1>1, <1>2, <1>5, <1>6, HoldOthers

LEMMA HoldWrite ==
    ASSUME TypeInv, HoldInv, NEW p \in Agents, Write(p)
    PROVE  HoldInv'
<1> SUFFICES ASSUME Clean(Unfair)' PROVE HoldFile' /\ \A q \in Agents : HoldCall(q)'
  BY HoldByCall
<1> DEFINE id == Todo(p).id
<1>1. /\ Others(p) /\ pc[p] = "write" /\ pc'[p] = "fill" /\ id \in Ids
      /\ call'[p] = call[p] /\ Todo(p)' = Todo(p)
      /\ file' = [file EXCEPT ![id] = Torn] /\ holds' = holds /\ harm \subseteq harm'
  BY WriteFacts
<1>2. HoldFile /\ \A q \in Agents : HoldCall(q)
  BY <1>1, HoldByCall DEF Clean
<1>3. \A i \in Ids : Whole(i)' => Whole(i) /\ file'[i] = file[i]
  BY <1>1, Kept, BasicTypes DEF Whole
<1>4. HoldFile'
  BY <1>1, <1>2, <1>3 DEF HoldFile
<1>5. HoldCall(p)'
  BY <1>1, <1>2 DEF HoldCall, Claiming
<1> QED
  BY <1>1, <1>2, <1>4, <1>5, HoldOthers

\* An update leaves the task protected for who works on it, and nobody else does
LEMMA HoldMerged ==
    ASSUME TypeInv, NEW p \in Agents, Fill(p), HoldCall(p), Clean(Unfair)',
           NEW a \in Agents, Granted(p)[a] = Todo(p).id
    PROVE  /\ Protected(Merged(p), a)
           /\ \A b \in Agents :
                Granted(p)[b] = Todo(p).id => b = a \/ {holds[a], holds[b]} = {Todo(p).id}
<1> DEFINE id == Todo(p).id
           w == Todo(p)
           seen == call[p].seen
           Sets(f) == f \in DOMAIN w.set
<1>1. /\ pc[p] = "fill" /\ id \in Ids /\ id # 0 /\ call[p].work # <<>>
      /\ w.for \in Holders /\ Agrees(w.set, w.for) /\ w.set \in Settings(issued)
      /\ seen.status \in Statuses
  BY FillFacts, Places, AgentFacts, TaskBounds DEF Ids, Tasks
<1>2. /\ Merged(p).owner = (IF Sets("owner") THEN w.set.owner ELSE seen.owner)
      /\ Merged(p).status = (IF Sets("status") THEN w.set.status ELSE seen.status)
  BY <1>1, MergedFacts
<1>3. ~Takes(p)
  BY DEF Fill, Hurt, Clean, Unfair
<1>4. \A b \in Agents : Granted(p)[b] = id => b = w.for \/ holds[b] = id
  BY <1>1, GrantedTo
<1>5. \A b \in Agents : holds[b] = id => Protected(seen, b) /\ (Claiming(p) => b = p)
  BY <1>1 DEF HoldCall
<1>6. ASSUME a = w.for, ~Sets("owner")
      PROVE  Protected(Merged(p), a)
  <2>1. seen.owner \in {Nobody, a} /\ a # Nobody
    BY <1>3, <1>6, AgentsAssumption DEF Takes
  <2>2. Sets("status") /\ w.set.status = "in_progress"
    BY <1>1, <1>6, <2>1 DEF Agrees
  <2>3. seen.owner = a => a = ClaimAs(a)
    <3>1. seen.owner \in Owners
      BY AgentFacts DEF Tasks
    <3> QED
      BY <3>1, AgentsAssumption DEF Owners, ClaimAs
  <2> QED
    BY <1>2, <1>6, <2>1, <2>2, <2>3 DEF Protected
<1>7. CASE Claiming(p)
  <2>1. w.for = p /\ w.for # Nobody
    BY <1>7, AgentsAssumption DEF Claiming
  <2>2. \A b \in Agents : Granted(p)[b] = id => b = p
    BY <1>4, <1>5, <1>7, <2>1
  <2>3. CASE Sets("owner")
    <3>1. Merged(p).owner = ClaimAs(a)
      BY <1>1, <1>2, <2>1, <2>2, <2>3 DEF Agrees, OwnerFor
    <3> QED
      BY <2>2, <3>1 DEF Protected
  <2>4. CASE ~Sets("owner")
    BY <1>6, <2>1, <2>2, <2>4
  <2> QED
    BY <2>2, <2>3, <2>4
<1>8. CASE ~Claiming(p) /\ (Sets("owner") \/ w.for # Nobody)
  <2>1. \A b \in Agents : Granted(p)[b] = id => b = w.for
    BY <1>3, <1>8 DEF Takes
  <2>2. a = w.for /\ a # Nobody
    BY <2>1, AgentsAssumption
  <2>3. CASE Sets("owner")
    BY <1>1, <1>2, <2>1, <2>2, <2>3 DEF Agrees, OwnerFor, Protected
  <2>4. CASE ~Sets("owner")
    BY <1>6, <2>1, <2>2, <2>4
  <2> QED
    BY <2>1, <2>3, <2>4
<1>9. CASE ~Claiming(p) /\ ~Sets("owner") /\ w.for = Nobody
  <2>1. \A b \in Agents : Granted(p)[b] = id => holds[b] = id
    BY <1>4, <1>9, AgentsAssumption
  <2>2. Protected(seen, a)
    BY <1>5, <2>1
  <2>3. ~(Sets("status") /\ w.set.status = "pending" /\ seen.owner = Nobody)
    <3>1. a \in Agents \ {w.for} /\ Granted(p)[a] = w.id
      BY <1>9, AgentsAssumption
    <3> QED
      BY <1>3, <1>9, <3>1 DEF Takes
  <2> QED
    BY <1>2, <1>9, <2>1, <2>2, <2>3 DEF Protected
<1> QED
  BY <1>7, <1>8, <1>9

LEMMA HoldFill ==
    ASSUME TypeInv, HoldInv, NEW p \in Agents, Fill(p)
    PROVE  HoldInv'
<1> SUFFICES ASSUME Clean(Unfair)' PROVE HoldFile' /\ \A q \in Agents : HoldCall(q)'
  BY HoldByCall
<1> DEFINE id == Todo(p).id
<1>1. /\ Others(p) /\ pc[p] = "fill" /\ pc'[p] \in {"idle", "lock"} /\ id \in Ids /\ InTask(p, id)
      /\ call[p].work # <<>> /\ holds' = Granted(p) /\ harm \subseteq harm'
      /\ file' = [file EXCEPT ![id] = IF @.is = "absent" THEN @ ELSE Merged(p)]
  BY FillFacts
<1>2. HoldFile /\ \A q \in Agents : HoldCall(q)
  BY <1>1, HoldByCall DEF Clean
<1>3. \A a \in Agents : holds'[a] \in {holds[a], 0, id}
  BY <1>1, GrantedTo
<1>4. ASSUME NEW a \in Agents, holds'[a] = id
      PROVE  /\ Protected(Merged(p), a)
             /\ \A b \in Agents : holds'[b] = id => b = a \/ {holds[a], holds[b]} = {id}
  BY <1>1, <1>2, <1>4, HoldMerged
<1> HIDE DEF id
<1>5. HoldFile'
  <2>1. \A a, b \in Agents : a # b /\ holds'[a] = holds'[b] => holds'[a] = 0
    BY <1>2, <1>3, <1>4 DEF HoldFile
  <2>2. ASSUME NEW a \in Agents, NEW i \in Ids, holds'[a] = i, Whole(i)' PROVE Protected(file'[i], a)
    <3>1. CASE i = id
      <4>1. file'[id] = Merged(p)
        BY <1>1, <2>2, <3>1, Kept DEF Whole
      <4> QED
        BY <1>4, <2>2, <3>1, <4>1
    <3>2. CASE i # id
      <4>1. file'[i] = file[i] /\ i # 0
        BY <1>1, <3>2, Kept, TaskBounds DEF Ids
      <4>2. holds[a] = i
        BY <1>3, <2>2, <3>2, <4>1
      <4> QED
        BY <1>2, <2>2, <4>1, <4>2 DEF HoldFile, Whole
    <3> QED
      BY <3>1, <3>2
  <2> QED
    BY <2>1, <2>2 DEF HoldFile
<1>6. HoldCall(p)'
  BY <1>1 DEF HoldCall
<1> QED
  BY <1>1, <1>2, <1>3, <1>5, <1>6, HoldOthers

LEMMA HoldNext == TypeInv /\ NewInv /\ HoldInv /\ [Next]_vars => HoldInv'
<1> SUFFICES ASSUME TypeInv, NewInv, HoldInv, [Next]_vars PROVE HoldInv'
  OBVIOUS
<1>1. CASE UNCHANGED vars
  BY <1>1, StutterTasks DEF HoldInv, Clean, Whole, Todo, Claiming
<1>2. CASE Next
  BY <1>2, StepCases, HoldQuiet, HoldStartsWrite, HoldStartsCheck, HoldReadsBlocker,
     HoldTakesNothing, HoldCreateOpens, HoldCreateFills, HoldWrite, HoldFill
<1> QED
  BY <1>1, <1>2

-----------------------------------------------------------------------------
(* BlockInv                                                                 *)

Bad == {"torn", "reopened", "resurrected", "reused"}

BlockFor(p) ==
    pc[p] = "check" => \A b \in file[call[p].n].blockedBy \ call[p].todo : Resolved(b)

LEMMA BlockByAgent ==
    /\ BlockInv <=> (Clean(Bad) => \A p \in Agents : BlockFor(p))
    /\ BlockInv' <=> (Clean(Bad)' => \A p \in Agents : BlockFor(p)')
BY DEF BlockInv, BlockFor, Bad

\* A task that is resolved stays so, when its file opens not, and p does not
\* start to write one that was open
LEMMA StaysResolved ==
    ASSUME TypeInv, NEW p \in Agents, Others(p), NEW b \in Ids, Resolved(b),
           ~Open(b)', There(b)' => There(b),
           pc'[p] \in {"write", "fill"} /\ (Todo(p).id)' = b =>
             ~There(b)' \/ call'[p].seen.status = "completed",
           pc'[p] = "fillnew" /\ call'[p].n = b => ~There(b)'
    PROVE  Resolved(b)'
<1>1. ASSUME NEW q \in Agents, q # p
      PROVE  /\ (pc[q] \in {"write", "fill"} /\ Todo(q).id = b)' =>
                  (~There(b) \/ call[q].seen.status = "completed")'
             /\ (pc[q] = "fillnew" /\ call[q].n = b)' => ~There(b)'
  BY <1>1, OthersFacts DEF Resolved
<1> QED
  BY <1>1 DEF Resolved

LEMMA BlockOthers ==
    ASSUME TypeInv, NEW p \in Agents, Others(p), NEW r \in Agents, r # p, BlockFor(r),
           \A i \in Ids : pc[r] = "check" /\ i = call[r].n =>
             file'[i].blockedBy \subseteq file[i].blockedBy,
           \A b \in Ids : b \in issued /\ Resolved(b) => Resolved(b)'
    PROVE  BlockFor(r)'
<1> SUFFICES ASSUME pc'[r] = "check" PROVE BlockFor(r)'
  BY DEF BlockFor
<1>1. pc[r] = "check" /\ call'[r] = call[r]
  BY OthersFacts
<1>2. PICK i \in Ids : i = call[r].n
  BY <1>1, Places
<1>3. \A b \in file'[i].blockedBy \ call[r].todo : b \in file[i].blockedBy \ call[r].todo
  BY <1>1, <1>2
<1>4. file[i].blockedBy \subseteq issued /\ issued \subseteq Ids
  BY Kept DEF Tasks
<1>5. \A b \in file'[i].blockedBy \ call[r].todo : Resolved(b)'
  BY <1>1, <1>2, <1>3, <1>4 DEF BlockFor
<1> QED
  BY <1>1, <1>2, <1>5 DEF BlockFor

LEMMA BlockQuiet ==
    ASSUME TypeInv, BlockInv, NEW p \in Agents, Quiet(p)
    PROVE  BlockInv'
<1> SUFFICES ASSUME Clean(Bad)', NEW r \in Agents PROVE BlockFor(r)'
  BY BlockByAgent
<1>1. /\ Others(p) /\ pc'[p] \notin {"fillnew", "write", "fill", "check"}
      /\ \A i \in Ids : file'[i] \in {file[i], NoTask}
  BY DEF Quiet
<1>2. BlockFor(r)
  BY BlockByAgent DEF Quiet, Clean
<1>3. NoTask.is = "absent" /\ NoTask.blockedBy = {}
  BY BasicTypes
<1>4. ASSUME NEW b \in Ids, Resolved(b) PROVE Resolved(b)'
  <2>1. ~Open(b)' /\ (There(b)' => There(b))
    BY <1>1, <1>3, <1>4 DEF Resolved, Open, Whole, There
  <2> QED
    BY <1>1, <1>4, <2>1, StaysResolved
<1>5. \A i \in Ids : file'[i].blockedBy \subseteq file[i].blockedBy
  BY <1>1, <1>3
<1>6. BlockFor(p)'
  BY <1>1 DEF BlockFor
<1> QED
  BY <1>1, <1>2, <1>4, <1>5, <1>6, BlockOthers

LEMMA BlockStartsWrite ==
    ASSUME TypeInv, BlockInv, NEW p \in Agents, StartsWrite(p)
    PROVE  BlockInv'
<1> SUFFICES ASSUME Clean(Bad)', NEW r \in Agents PROVE BlockFor(r)'
  BY BlockByAgent
<1>1. /\ Others(p) /\ file' = file /\ harm' = harm
      /\ pc'[p] = "write" /\ Whole((Todo(p).id)') /\ call'[p].seen = file[(Todo(p).id)']
  BY DEF StartsWrite, SameTasks
<1>2. BlockFor(r)
  BY <1>1, BlockByAgent DEF Clean
<1>3. ASSUME NEW b \in Ids, Resolved(b) PROVE Resolved(b)'
  <2>1. ~Open(b)' /\ (There(b)' => There(b))
    BY <1>1, <1>3 DEF Resolved, Open, Whole, There
  <2>2. (Todo(p).id)' = b => call'[p].seen.status = "completed"
    BY <1>1, <1>3 DEF Resolved, Open
  <2> QED
    BY <1>1, <1>3, <2>1, <2>2, StaysResolved
<1>4. BlockFor(p)'
  BY <1>1 DEF BlockFor
<1> QED
  BY <1>1, <1>2, <1>3, <1>4, BlockOthers

LEMMA BlockStartsCheck ==
    ASSUME TypeInv, BlockInv, NEW p \in Agents, StartsCheck(p)
    PROVE  BlockInv'
<1> SUFFICES ASSUME Clean(Bad)', NEW r \in Agents PROVE BlockFor(r)'
  BY BlockByAgent
<1>1. /\ Others(p) /\ file' = file /\ harm \subseteq harm' /\ pc'[p] = "check"
      /\ call'[p].n = call[p].n /\ call'[p].todo = file[call[p].n].blockedBy
  BY DEF StartsCheck
<1>2. BlockFor(r)
  BY <1>1, BlockByAgent DEF Clean
<1>3. ASSUME NEW b \in Ids, Resolved(b) PROVE Resolved(b)'
  <2>1. ~Open(b)' /\ (There(b)' => There(b))
    BY <1>1, <1>3 DEF Resolved, Open, Whole, There
  <2> QED
    BY <1>1, <1>3, <2>1, StaysResolved
<1>4. BlockFor(p)'
  BY <1>1 DEF BlockFor
<1> QED
  BY <1>1, <1>2, <1>3, <1>4, BlockOthers

\* A blocker that was read, whole and not open or not there, is resolved: who
\* is amid writing it has read it under its lock
LEMMA ReadIsResolved ==
    ASSUME TypeInv, \A q \in Agents : NewFor(q), NEW b \in Ids, ~Open(b), file[b].is # "torn"
    PROVE  Resolved(b)
<1>1. file[b].is \in {"absent", "torn", "whole"}
  BY Kept DEF Tasks
<1>2. There(b) => Whole(b) /\ file[b].status = "completed"
  BY <1>1 DEF There, Whole, Open
<1>3. ASSUME NEW q \in Agents, pc[q] \in {"write", "fill"}, Todo(q).id = b, There(b)
      PROVE  call[q].seen.status = "completed"
  BY <1>2, <1>3 DEF NewFor
<1>4. ASSUME NEW q \in Agents, pc[q] = "fillnew", call[q].n = b PROVE ~There(b)
  BY <1>2, <1>4 DEF NewFor
<1> QED
  BY <1>3, <1>4 DEF Resolved

LEMMA BlockReadsBlocker ==
    ASSUME TypeInv, NewInv, BlockInv, NEW p \in Agents, ReadsBlocker(p)
    PROVE  BlockInv'
<1> SUFFICES ASSUME Clean(Bad)', NEW r \in Agents PROVE BlockFor(r)'
  BY BlockByAgent
<1>1. /\ Others(p) /\ file' = file /\ harm \subseteq harm'
      /\ pc[p] = "check" /\ pc'[p] = "check" /\ call'[p].n = call[p].n
  BY DEF ReadsBlocker
<1>2. PICK x \in call[p].todo : /\ ~Open(x) /\ call'[p].todo = call[p].todo \ {x}
                                /\ harm' = harm \cup {w \in {"torn"} : file[x].is = "torn"}
  BY DEF ReadsBlocker
<1>3. (\A q \in Agents : BlockFor(q)) /\ \A q \in Agents : NewFor(q)
  BY <1>1, BlockByAgent, NewByAgent DEF Clean, Bad
<1>4. ASSUME NEW b \in Ids, Resolved(b) PROVE Resolved(b)'
  <2>1. ~Open(b)' /\ (There(b)' => There(b))
    BY <1>1, <1>4 DEF Resolved, Open, Whole, There
  <2> QED
    BY <1>1, <1>4, <2>1, StaysResolved
<1>5. BlockFor(p)'
  <2>1. x \in Ids /\ file[x].is # "torn"
    BY <1>2, AgentFacts DEF Clean, Bad
  <2>2. Resolved(x)
    BY <1>2, <1>3, <2>1, ReadIsResolved
  <2>3. \A b \in file[call[p].n].blockedBy \ call'[p].todo : b \in Ids /\ Resolved(b)
    <3>1. call[p].n \in Ids
      BY <1>1, Places
    <3>2. file[call[p].n].blockedBy \subseteq Ids
      BY <3>1, Kept DEF Tasks
    <3> QED
      BY <1>1, <1>2, <1>3, <2>2, <3>2 DEF BlockFor
  <2>4. \A b \in file[call[p].n].blockedBy \ call'[p].todo : Resolved(b)'
    BY <1>4, <2>3
  <2> QED
    BY <1>1, <2>4 DEF BlockFor
<1> QED
  BY <1>1, <1>3, <1>4, <1>5, BlockOthers

LEMMA BlockTakesNothing ==
    ASSUME TypeInv, BlockInv, NEW p \in Agents, TakesNothing(p)
    PROVE  BlockInv'
<1> SUFFICES ASSUME Clean(Bad)', NEW r \in Agents PROVE BlockFor(r)'
  BY BlockByAgent
<1>1. Others(p) /\ file' = file /\ harm' = harm /\ pc'[p] \in {"idle", "lock"}
  BY DEF TakesNothing
<1>2. BlockFor(r)
  BY <1>1, BlockByAgent DEF Clean
<1>3. ASSUME NEW b \in Ids, Resolved(b) PROVE Resolved(b)'
  <2>1. ~Open(b)' /\ (There(b)' => There(b))
    BY <1>1, <1>3 DEF Resolved, Open, Whole, There
  <2> QED
    BY <1>1, <1>3, <2>1, StaysResolved
<1>4. BlockFor(p)'
  BY <1>1 DEF BlockFor
<1> QED
  BY <1>1, <1>2, <1>3, <1>4, BlockOthers

LEMMA BlockCreateOpens ==
    ASSUME TypeInv, BlockInv, NEW p \in Agents, CreateOpens(p)
    PROVE  BlockInv'
<1> SUFFICES ASSUME Clean(Bad)', NEW r \in Agents PROVE BlockFor(r)'
  BY BlockByAgent
<1>1. PICK id \in Ids :
      /\ id = call'[p].n /\ Others(p) /\ pc'[p] = "fillnew"
      /\ file' = [file EXCEPT ![id] = Torn]
      /\ harm' = harm \cup {w \in {"reused"} : id \in issued}
  BY CreateOpensFacts
<1>2. BlockFor(r) /\ id \notin issued
  BY <1>1, BlockByAgent DEF Clean, Bad
<1>3. \A i \in Ids : i # id => file'[i] = file[i]
  BY <1>1, Kept
<1>4. ASSUME NEW b \in Ids, b \in issued, Resolved(b) PROVE Resolved(b)'
  <2>1. ~Open(b)' /\ (There(b)' => There(b))
    BY <1>2, <1>3, <1>4 DEF Resolved, Open, Whole, There
  <2> QED
    BY <1>1, <1>2, <1>4, <2>1, StaysResolved
<1>5. \A i \in Ids : pc[r] = "check" /\ i = call[r].n => file'[i].blockedBy \subseteq file[i].blockedBy
  BY <1>2, <1>3, Places
<1>6. BlockFor(p)'
  BY <1>1 DEF BlockFor
<1> QED
  BY <1>1, <1>2, <1>4, <1>5, <1>6, BlockOthers

LEMMA BlockCreateFills ==
    ASSUME TypeInv, NewInv, BlockInv, NEW p \in Agents, CreateFills(p)
    PROVE  BlockInv'
<1> SUFFICES ASSUME Clean(Bad)', NEW r \in Agents PROVE BlockFor(r)'
  BY BlockByAgent
<1> DEFINE id == call[p].n
<1>1. /\ Others(p) /\ pc[p] = "fillnew" /\ pc'[p] = "idle" /\ id \in Ids /\ harm' = harm
      /\ file' = [file EXCEPT ![id] = IF @.is = "absent" THEN @ ELSE NewTask]
  BY CreateFillsFacts
<1>2. BlockFor(r) /\ NewFor(p)
  BY <1>1, BlockByAgent, NewByAgent DEF Clean, Bad
<1>3. \A i \in Ids : i # id \/ ~There(i) => file'[i] = file[i]
  BY <1>1, Kept DEF There
<1>4. ASSUME NEW b \in Ids, Resolved(b) PROVE Resolved(b)'
  <2>1. b = id => ~There(b)
    BY <1>1, <1>4 DEF Resolved
  <2>2. ~Open(b)' /\ (There(b)' => There(b))
    BY <1>3, <1>4, <2>1 DEF Resolved, Open, Whole, There
  <2> QED
    BY <1>1, <1>4, <2>2, StaysResolved
<1>5. \A i \in Ids : pc[r] = "check" /\ i = call[r].n => file'[i].blockedBy \subseteq file[i].blockedBy
  BY <1>1, <1>2, <1>3, Places DEF NewFor
<1>6. BlockFor(p)'
  BY <1>1 DEF BlockFor
<1> QED
  BY <1>1, <1>2, <1>4, <1>5, <1>6, BlockOthers

LEMMA BlockWrite ==
    ASSUME TypeInv, BlockInv, NEW p \in Agents, Write(p)
    PROVE  BlockInv'
<1> SUFFICES ASSUME Clean(Bad)', NEW r \in Agents PROVE BlockFor(r)'
  BY BlockByAgent
<1> DEFINE id == Todo(p).id
<1>1. /\ Others(p) /\ pc[p] = "write" /\ pc'[p] = "fill" /\ id \in Ids /\ InTask(p, id)
      /\ call'[p] = call[p] /\ Todo(p)' = Todo(p) /\ file' = [file EXCEPT ![id] = Torn]
      /\ harm' = harm \cup {w \in {"resurrected"} : ~There(id)}
  BY WriteFacts
<1>2. BlockFor(r) /\ There(id)
  BY <1>1, BlockByAgent DEF Clean, Bad
<1>3. \A i \in Ids : file'[i] = (IF i = id THEN Torn ELSE file[i])
  BY <1>1, Kept
<1>4. Torn.is = "torn"
  BY BasicTypes
<1>5. ASSUME NEW b \in Ids, Resolved(b) PROVE Resolved(b)'
  <2>1. ~Open(b)' /\ (There(b)' => There(b))
    BY <1>2, <1>3, <1>4, <1>5 DEF Resolved, Open, Whole, There
  <2>2. b = id => call[p].seen.status = "completed"
    BY <1>1, <1>2, <1>5 DEF Resolved
  <2> QED
    BY <1>1, <1>5, <2>1, <2>2, StaysResolved
<1>6. ASSUME r # p, NEW i \in Ids, pc[r] = "check", i = call[r].n
      PROVE  file'[i].blockedBy \subseteq file[i].blockedBy
  <2>1. i # id
    BY <1>1, <1>6, Places, Alone
  <2> QED
    BY <1>3, <2>1
<1>7. BlockFor(p)'
  BY <1>1 DEF BlockFor
<1> QED
  BY <1>1, <1>2, <1>5, <1>6, <1>7, BlockOthers

LEMMA BlockFill ==
    ASSUME TypeInv, BlockInv, NEW p \in Agents, Fill(p)
    PROVE  BlockInv'
<1> SUFFICES ASSUME Clean(Bad)', NEW r \in Agents PROVE BlockFor(r)'
  BY BlockByAgent
<1> DEFINE id == Todo(p).id
           set == Todo(p).set
<1>1. /\ Others(p) /\ pc[p] = "fill" /\ pc'[p] \in {"idle", "lock"} /\ id \in Ids /\ InTask(p, id)
      /\ call[p].work # <<>> /\ harm \subseteq harm'
      /\ file' = [file EXCEPT ![id] = IF @.is = "absent" THEN @ ELSE Merged(p)]
  BY FillFacts
<1>2. BlockFor(r)
  BY <1>1, BlockByAgent DEF Clean, Bad
<1>3. \A i \in Ids : file'[i] = (IF i = id /\ There(i) THEN Merged(p) ELSE file[i])
  BY <1>1, Kept DEF There
<1>4. call[p].seen.status = "completed" => Merged(p).status = "completed"
  <2>1. Merged(p).status = (IF "status" \in DOMAIN set THEN set.status ELSE call[p].seen.status)
    BY <1>1, MergedFacts
  <2>2. "status" \in DOMAIN set /\ call[p].seen.status = "completed" => set.status = "completed"
    BY DEF Fill, Hurt, Clean, Bad
  <2> QED
    BY <2>1, <2>2
<1>5. ASSUME NEW b \in Ids, Resolved(b) PROVE Resolved(b)'
  <2>1. b = id /\ There(b) => call[p].seen.status = "completed"
    BY <1>1, <1>5 DEF Resolved
  <2>2. There(b)' => There(b)
    BY <1>3 DEF There
  <2>3. ~Open(b)'
    BY <1>3, <1>4, <1>5, <2>1 DEF Resolved, Open, Whole
  <2> QED
    BY <1>1, <1>5, <2>2, <2>3, StaysResolved
<1>6. ASSUME r # p, NEW i \in Ids, pc[r] = "check", i = call[r].n
      PROVE  file'[i].blockedBy \subseteq file[i].blockedBy
  <2>1. i # id
    BY <1>1, <1>6, Places, Alone
  <2> QED
    BY <1>3, <2>1
<1>7. BlockFor(p)'
  BY <1>1 DEF BlockFor
<1> QED
  BY <1>1, <1>2, <1>5, <1>6, <1>7, BlockOthers

LEMMA BlockNext == TypeInv /\ NewInv /\ BlockInv /\ [Next]_vars => BlockInv'
<1> SUFFICES ASSUME TypeInv, NewInv, BlockInv, [Next]_vars PROVE BlockInv'
  OBVIOUS
<1>1. CASE UNCHANGED vars
  BY <1>1, StutterTasks DEF BlockInv, Clean, Resolved, Open, Whole, There, Todo
<1>2. CASE Next
  BY <1>2, StepCases, BlockQuiet, BlockStartsWrite, BlockStartsCheck, BlockReadsBlocker,
     BlockTakesNothing, BlockCreateOpens, BlockCreateFills, BlockWrite, BlockFill
<1> QED
  BY <1>1, <1>2

-----------------------------------------------------------------------------
(* FreshInv                                                                 *)

FreshFor(p) ==
    /\ pc[p] = "highest" /\ call[p].next = "mark" =>
         \A i \in issued : i <= call[p].n \/ i <= mark
    /\ pc[p] = "highest" /\ call[p].next = "files" =>
         \A i \in issued : Covered(i, call[p].n)
    /\ pc[p] \in {"mark", "markfill"} => There(call[p].n) /\ call[p].n > mark
    /\ pc[p] \in {"mark", "markfill"} /\ call[p].next = "readdir" =>
         \A i \in issued : i <= call[p].n
    /\ pc[p] = "unlink" => call[p].n <= mark
    /\ pc[p] = "resetmark" =>
         /\ call[p].n = 0 \/ There(call[p].n)
         /\ \A i \in issued : i <= call[p].n \/ i <= mark
    /\ pc[p] \in {"readdir", "clear"} => \A i \in issued : i <= mark

OneNumbers == \A p, q \in Agents : Numbering(p) /\ Numbering(q) => p = q
AllCovered == \A i \in issued : Covered(i, mark)
Fresh ==
    /\ Clean({"reused"}) /\ OneNumbers /\ AllCovered
    /\ \A p \in Agents : FreshFor(p)

LEMMA FreshByAgent ==
    /\ FreshInv <=> (Clean({"overlap"}) => Fresh)
    /\ FreshInv' <=> (Clean({"overlap"})' => Fresh')
BY DEF FreshInv, Fresh, FreshFor, OneNumbers, AllCovered

LEMMA Idle == ASSUME NEW p \in Agents, ~Numbering(p) PROVE FreshFor(p)
BY DEF Numbering, FreshFor

LEMMA IdleNext == ASSUME NEW p \in Agents, ~Numbering(p)' PROVE FreshFor(p)'
BY DEF Numbering, FreshFor

LEMMA NumberingOthers ==
    ASSUME NEW p \in Agents, Others(p), NEW q \in Agents, q # p
    PROVE  Numbering(q)' <=> Numbering(q)
BY DEF Others, Numbering

\* A step of the one agent that is amid a creation or a deletion, or of one
\* that starts to be
LEMMA FreshAlone ==
    ASSUME TypeInv, Fresh, NEW p \in Agents, Others(p),
           Numbering(p) \/ \A q \in Agents \ {p} : ~Numbering(q),
           Clean({"reused"})', AllCovered', FreshFor(p)'
    PROVE  Fresh'
<1>1. \A q \in Agents \ {p} : ~Numbering(q)'
  BY NumberingOthers DEF Fresh, OneNumbers
<1>2. OneNumbers'
  BY <1>1 DEF OneNumbers
<1>3. \A q \in Agents : FreshFor(q)'
  BY <1>1, IdleNext
<1> QED
  BY <1>2, <1>3 DEF Fresh

\* A step of another agent deletes nothing
LEMMA FreshCalm ==
    ASSUME TypeInv, Fresh, NEW p \in Agents, Others(p), ~Numbering(p), ~Numbering(p)',
           mark' = mark, issued' = issued, "reused" \in harm' => "reused" \in harm,
           \A i \in Ids : There(i) => There(i)'
    PROVE  Fresh'
<1>1. OneNumbers'
  BY NumberingOthers DEF Fresh, OneNumbers
<1>2. \A i, m : Covered(i, m) => Covered(i, m)'
  BY DEF Covered
<1>3. AllCovered'
  BY <1>2 DEF Fresh, AllCovered, Covered
<1>4. FreshFor(p)'
  BY IdleNext
<1>5. ASSUME NEW q \in Agents, q # p PROVE FreshFor(q)'
  <2>1. pc'[q] = pc[q] /\ call'[q] = call[q] /\ FreshFor(q)
    BY <1>5 DEF Others, Fresh
  <2>2. CASE pc[q] \in {"mark", "markfill"}
    <3>1. PICK n \in Ids : n = call[q].n
      BY <2>2, AgentFacts, Kept DEF CallOK
    <3>2. There(n)'
      BY <2>1, <2>2, <3>1 DEF FreshFor, There
    <3> QED
      BY <2>1, <2>2, <3>1, <3>2 DEF FreshFor, There
  <2>3. CASE pc[q] = "highest"
    <3>1. PICK n \in issued \cup {0} : n = call[q].n
      BY AgentFacts
    <3>2. call[q].next = "files" => \A i \in issued : Covered(i, n)'
      BY <1>2, <2>1, <2>3, <3>1 DEF FreshFor, Covered
    <3> QED
      BY <2>1, <2>3, <3>1, <3>2 DEF FreshFor, Covered
  <2>4. CASE pc[q] = "resetmark"
    <3>1. PICK n \in issued \cup {0} : n = call[q].n
      BY AgentFacts
    <3>2. n = 0 \/ There(n)'
      BY <2>1, <2>4, <3>1, Kept DEF FreshFor, There
    <3> QED
      BY <2>1, <2>4, <3>1, <3>2 DEF FreshFor, There
  <2>5. CASE pc[q] \notin {"mark", "markfill", "highest", "resetmark"}
    BY <2>1, <2>5 DEF FreshFor
  <2> QED
    BY <2>2, <2>3, <2>4, <2>5
<1>6. Clean({"reused"})'
  BY DEF Fresh, Clean
<1> QED
  BY <1>1, <1>3, <1>4, <1>5, <1>6 DEF Fresh

Calm(p) ==
    \/ CreateFills(p) \/ Cascade(p) \/ Lock(p) \/ Write(p) \/ Fill(p) \/ ClaimLocks(p) \/ Check(p)
    \/ Take(p) \/ Claim(p) \/ Complete(p) \/ GiveUp(p)
    \/ \E a, b \in Ids : Block(p, a, b)
    \/ \E q \in Agents : Unassign(p, q)
    \/ \E id \in Ids, status \in Statuses : SetStatus(p, id, status)
    \/ \E id \in Ids, owner \in Agents \ Watchers : SetOwner(p, id, owner)

LEMMA CalmSteps ==
    ASSUME TypeInv, NEW p \in Agents, Calm(p)
    PROVE  /\ Others(p) /\ ~Numbering(p) /\ ~Numbering(p)' /\ mark' = mark /\ issued' = issued
           /\ "reused" \in harm' => "reused" \in harm
           /\ \A i \in Ids : There(i) => There(i)'
<1>1. ~Numbering(p) /\ mark' = mark /\ issued' = issued /\ ("reused" \in harm' => "reused" \in harm)
  <2>1. mark' = mark /\ issued' = issued
    BY DEF Calm, CreateFills, Cascade, Lock, Write, Fill, ClaimLocks, Check, Take, Claim, Complete, GiveUp,
           Block, Unassign, SetStatus, SetOwner, fileVars, ghostVars
  <2>2. pc[p] \in {"idle", "fillnew", "list", "lock", "write", "fill", "claim", "check"}
    BY DEF Calm, CreateFills, Cascade, Lock, Write, Fill, ClaimLocks, Check, Take, Claim, Complete, GiveUp,
           Block, Unassign, SetStatus, SetOwner, Calls
  <2>3. CASE harm' = harm
    BY <2>1, <2>2, <2>3 DEF Numbering
  <2>4. CASE Write(p) \/ Fill(p) \/ Check(p) \/ ClaimLocks(p)
    <3>1. "reused" \in harm' => "reused" \in harm
      BY <2>4, ClaimLocksCases DEF Write, Fill, Check, Hurt
    <3> QED
      BY <2>1, <2>2, <3>1 DEF Numbering
  <2> QED
    BY <2>3, <2>4 DEF Calm, CreateFills, Cascade, Lock, Take, Claim, Complete, GiveUp,
                      Block, Unassign, SetStatus, SetOwner
<1>2. CASE CreateFills(p)
  BY <1>1, <1>2, CreateFillsFacts, Kept, BasicTypes DEF Numbering, There
<1>3. CASE Write(p)
  BY <1>1, <1>3, WriteFacts, Kept, BasicTypes DEF Numbering, There
<1>4. CASE Fill(p)
  <2>1. Merged(p).is = "whole"
    BY <1>4, FillFacts, MergedFacts, Places
  <2> QED
    BY <1>1, <1>4, <2>1, FillFacts, Kept DEF Numbering, There
<1>5. CASE Lock(p) \/ ClaimLocks(p) \/ Check(p)
  <2>1. /\ Others(p) /\ file' = file /\ pc'[p] \in {"idle", "lock", "write", "check"}
    BY <1>5, LockCases, ClaimLocksCases, CheckCases
       DEF Quiet, StartsWrite, StartsCheck, ReadsBlocker
  <2> QED
    BY <1>1, <2>1 DEF Numbering, There
<1>6. CASE Take(p)
  <2>1. /\ Others(p) /\ file' = file /\ pc'[p] \in {"idle", "lock", "write"}
    BY <1>6, TakeSteps DEF StartsWrite, SameTasks, TakesNothing
  <2> QED
    BY <1>1, <2>1 DEF Numbering, There
<1>7. CASE \/ Cascade(p) \/ Complete(p) \/ Claim(p) \/ GiveUp(p)
           \/ \E a, b \in Ids : Block(p, a, b)
           \/ \E q \in Agents : Unassign(p, q)
           \/ \E id \in Ids, status \in Statuses : SetStatus(p, id, status)
           \/ \E id \in Ids, owner \in Agents \ Watchers : SetOwner(p, id, owner)
  <2>1. Others(p) /\ file' = file /\ pc'[p] \in {"idle", "lock", "claim", "dead"}
    BY <1>7, QuietUpdating DEF Quiet
  <2> QED
    BY <1>1, <2>1 DEF Numbering, There
<1> QED
  BY <1>2, <1>3, <1>4, <1>5, <1>6, <1>7 DEF Calm

\* An agent that starts a creation or a deletion overlaps with no other
LEMMA StartsAlone ==
    ASSUME NEW p \in Agents, Hurt(Overlaps(p)), Clean({"overlap"})'
    PROVE  /\ \A q \in Agents \ {p} : ~Numbering(q)
           /\ "reused" \in harm' => "reused" \in harm
BY DEF Hurt, Overlaps, Clean

LEMMA FreshCreate ==
    ASSUME TypeInv, Fresh, NEW p \in Agents, Create(p), Clean({"overlap"})'
    PROVE  Fresh'
<1>1. /\ Hurt(Overlaps(p)) /\ file' = file /\ mark' = mark /\ issued' = issued /\ Goes(p, "highest")
      /\ \/ call' = [call EXCEPT ![p].n = Highest, ![p].next = "mark"]
         \/ call' = [call EXCEPT ![p].n = mark, ![p].next = "files"]
  BY DEF Create, fileVars, ghostVars
<1>2. (\A q \in Agents \ {p} : ~Numbering(q)) /\ Clean({"reused"})'
  BY <1>1, StartsAlone DEF Fresh, Clean
<1>3. Others(p) /\ pc'[p] = "highest"
  BY QuietNumbering, <1>1, GoesFacts DEF Quiet
<1>4. \A i, m : Covered(i, m)' <=> Covered(i, m)
  BY <1>1 DEF Covered, There
<1>5. AllCovered'
  BY <1>1 DEF Fresh, AllCovered, Covered, There
<1>6. call[p] \in CallRecords(issued)
  BY AgentFacts
<1>7. FreshFor(p)'
  <2>1. CASE call' = [call EXCEPT ![p].n = Highest, ![p].next = "mark"]
    <3>1. call'[p].n = Highest /\ call'[p].next = "mark"
      BY <1>6, <2>1 DEF CallRecords, TypeInv, Types
    <3>2. ASSUME NEW i \in issued PROVE i <= Highest \/ i <= mark
      <4>1. i <= mark \/ \E j \in Ids : i <= j /\ There(j)
        BY DEF Fresh, AllCovered, Covered
      <4>2. \A j \in Ids : There(j) => j <= Highest
        BY HighestFacts
      <4>3. i \in Nat /\ Ids \subseteq Nat /\ Highest \in Nat
        BY Kept, HighestFacts DEF Ids
      <4> QED
        BY <4>1, <4>2, <4>3
    <3> QED
      BY <1>1, <1>3, <3>1, <3>2 DEF FreshFor
  <2>2. CASE call' = [call EXCEPT ![p].n = mark, ![p].next = "files"]
    <3>1. call'[p].n = mark /\ call'[p].next = "files"
      BY <1>6, <2>2 DEF CallRecords, TypeInv, Types
    <3>2. \A i \in issued' : i <= call'[p].n \/ \E j \in Ids : i <= j /\ There(j)'
      BY <1>1, <3>1 DEF Fresh, AllCovered, Covered, There
    <3> QED
      BY <1>3, <3>1, <3>2 DEF FreshFor, Covered
  <2> QED
    BY <1>1, <2>1, <2>2
<1> QED
  BY <1>2, <1>3, <1>5, <1>7, FreshAlone

LEMMA FreshDelete ==
    ASSUME TypeInv, Fresh, NEW p \in Agents, NEW id \in Ids, Delete(p, id), Clean({"overlap"})'
    PROVE  Fresh'
<1>1. /\ Hurt(Overlaps(p)) /\ file' = file /\ mark' = mark /\ issued' = issued
      /\ Whole(id) /\ Marks(p, id, "unlink")
  BY DEF Delete, fileVars, ghostVars
<1>2. (\A q \in Agents \ {p} : ~Numbering(q)) /\ Clean({"reused"})'
  BY <1>1, StartsAlone DEF Fresh, Clean
<1>3. There(id) /\ id \in issued
  BY <1>1, Kept DEF Whole, There
<1>4. PICK s \in {"mark", "unlink"}, c \in CallRecords(issued) :
         /\ Moves(p, s, c) /\ c.n = id /\ s = (IF id > mark THEN "mark" ELSE "unlink")
         /\ s = "mark" => c.next = "unlink"
  BY <1>1, <1>3, MarksFacts
<1>5. pc'[p] = s /\ call'[p] = c /\ Others(p)
  BY <1>4, MoveFacts DEF Others
<1>6. AllCovered'
  BY <1>1 DEF Fresh, AllCovered, Covered, There
<1>7. mark \in Nat /\ id \in Nat
  BY Kept DEF Ids
<1>8. FreshFor(p)'
  BY <1>1, <1>3, <1>4, <1>5, <1>7 DEF FreshFor, There
<1> QED
  BY <1>2, <1>5, <1>6, <1>8, FreshAlone

LEMMA FreshReset ==
    ASSUME TypeInv, Fresh, NEW p \in Agents, Reset(p), Clean({"overlap"})'
    PROVE  Fresh'
<1>1. /\ Hurt(Overlaps(p)) /\ file' = file /\ mark' = mark /\ issued' = issued
      /\ Goes(p, "resetmark") /\ call' = [call EXCEPT ![p].n = Highest]
  BY DEF Reset, fileVars, ghostVars
<1>2. (\A q \in Agents \ {p} : ~Numbering(q)) /\ Clean({"reused"})'
  BY <1>1, StartsAlone DEF Fresh, Clean
<1>3. Others(p) /\ pc'[p] = "resetmark"
  BY QuietNumbering, <1>1, GoesFacts DEF Quiet
<1>4. AllCovered'
  BY <1>1 DEF Fresh, AllCovered, Covered, There
<1>5. call'[p].n = Highest
  BY <1>1, AgentFacts DEF CallRecords, TypeInv, Types
<1>6. ASSUME NEW i \in issued PROVE i <= Highest \/ i <= mark
  <2>1. i <= mark \/ \E j \in Ids : i <= j /\ There(j)
    BY DEF Fresh, AllCovered, Covered
  <2>2. \A j \in Ids : There(j) => j <= Highest
    BY HighestFacts
  <2>3. i \in Nat /\ Ids \subseteq Nat /\ Highest \in Nat
    BY Kept, HighestFacts DEF Ids
  <2> QED
    BY <2>1, <2>2, <2>3
<1>7. Highest = 0 \/ There(Highest)
  BY HighestFacts
<1>8. FreshFor(p)'
  <2>1. PICK h : h = Highest
    OBVIOUS
  <2> QED
    BY <1>1, <1>3, <1>5, <1>6, <1>7, <2>1 DEF FreshFor, There
<1> QED
  BY <1>2, <1>3, <1>4, <1>8, FreshAlone

LEMMA FreshCreateOpens ==
    ASSUME TypeInv, Fresh, NEW p \in Agents, CreateOpens(p)
    PROVE  Fresh'
<1> DEFINE n == call[p].n
           other == IF call[p].next = "mark" THEN mark ELSE Highest
<1>1. PICK id \in Ids :
      /\ id = call'[p].n /\ Others(p) /\ pc[p] = "highest" /\ pc'[p] = "fillnew"
      /\ id = Max({n, other}) + 1 /\ mark' = mark
      /\ file' = [file EXCEPT ![id] = Torn] /\ issued' = issued \cup {id}
      /\ harm' = harm \cup {w \in {"reused"} : id \in issued}
  BY CreateOpensFacts
<1>2. n \in Nat /\ other \in Nat /\ Ids \subseteq Nat /\ issued \subseteq Nat
  BY AgentFacts, Kept, HighestFacts DEF Ids
<1>3. id > n /\ id > other
  <2> HIDE DEF n, other
  <2> QED
    BY <1>1, <1>2, MaxOfTwo
<1>4. ASSUME NEW i \in issued PROVE i < id
  <2>1. call[p].next \in {"mark", "files"} /\ FreshFor(p)
    BY <1>1, AgentFacts DEF CallOK, Fresh
  <2>2. CASE call[p].next = "mark"
    <3>1. i <= n \/ i <= other
      BY <1>1, <2>1, <2>2 DEF FreshFor
    <3> QED
      BY <1>2, <1>3, <3>1
  <2>3. CASE call[p].next = "files"
    <3>1. i <= n \/ \E j \in Ids : i <= j /\ There(j)
      BY <1>1, <2>1, <2>3 DEF FreshFor, Covered
    <3>2. \A j \in Ids : There(j) => j <= other
      BY <2>3, HighestFacts
    <3> QED
      BY <1>2, <1>3, <3>1, <3>2
  <2> QED
    BY <2>1, <2>2, <2>3
<1>5. id \notin issued
  BY <1>2, <1>4
<1>6. Clean({"reused"})'
  BY <1>1, <1>5 DEF Fresh, Clean
<1>7. \A j \in Ids : There(j) \/ j = id => There(j)'
  BY <1>1, Kept, BasicTypes DEF There
<1>8. AllCovered'
  <2>1. \A i \in issued : i <= mark \/ \E j \in Ids : i <= j /\ There(j)
    BY DEF Fresh, AllCovered, Covered
  <2>2. \A i \in issued' : i <= mark' \/ \E j \in Ids : i <= j /\ There(j)'
    BY <1>1, <1>2, <1>7, <2>1
  <2> QED
    BY <2>2 DEF AllCovered, Covered
<1>9. Numbering(p) /\ ~Numbering(p)'
  BY <1>1 DEF Numbering
<1>10. FreshFor(p)'
  BY <1>9, IdleNext
<1> QED
  BY <1>1, <1>6, <1>8, <1>9, <1>10, FreshAlone

LEMMA FreshMarkOpens ==
    ASSUME TypeInv, Fresh, NEW p \in Agents, MarkOpens(p)
    PROVE  Fresh'
<1>1. /\ pc[p] = "mark" /\ mark' = 0 /\ Goes(p, "markfill") /\ call' = call /\ file' = file
      /\ issued' = issued /\ harm' = harm
  BY DEF MarkOpens, ghostVars
<1>2. pc'[p] = "markfill" /\ Others(p)
  BY <1>1, GoesFacts DEF Others
<1>3. PICK n \in Ids : n = call[p].n
  BY <1>1, AgentFacts, Kept DEF CallOK
<1>4. FreshFor(p) /\ There(n) /\ n > mark /\ n > 0
  BY <1>1, <1>3, TaskBounds DEF Fresh, FreshFor, Ids
<1>5. AllCovered'
  <2>1. \A i \in issued : i <= mark \/ \E j \in Ids : i <= j /\ There(j)
    BY DEF Fresh, AllCovered, Covered
  <2>2. mark \in Nat /\ n \in Nat /\ issued \subseteq Nat
    BY Kept DEF Ids
  <2>3. \A i \in issued : \E j \in Ids : i <= j /\ There(j)
    BY <1>4, <2>1, <2>2
  <2> QED
    BY <1>1, <2>3 DEF AllCovered, Covered, There
<1>6. FreshFor(p)'
  BY <1>1, <1>2, <1>3, <1>4 DEF FreshFor, There
<1>7. Numbering(p) /\ Clean({"reused"})'
  BY <1>1 DEF Numbering, Fresh, Clean
<1> QED
  BY <1>2, <1>5, <1>6, <1>7, FreshAlone

LEMMA FreshMarkFills ==
    ASSUME TypeInv, Fresh, NEW p \in Agents, MarkFills(p)
    PROVE  Fresh'
<1>1. /\ pc[p] = "markfill" /\ mark' = call[p].n /\ Goes(p, call[p].next) /\ call' = call
      /\ file' = file /\ issued' = issued /\ harm' = harm
  BY DEF MarkFills, ghostVars
<1>2. pc'[p] = call[p].next /\ Others(p)
  BY <1>1, GoesFacts DEF Others
<1>3. call[p].next \in {"unlink", "readdir"} /\ call[p].n \in Ids /\ FreshFor(p)
  BY <1>1, AgentFacts, Kept DEF CallOK, Fresh
<1>4. call[p].n > mark
  BY <1>1, <1>3 DEF FreshFor
<1>5. mark \in Nat /\ call[p].n \in Nat /\ issued \subseteq Nat
  BY <1>3, Kept DEF Ids
<1>6. AllCovered'
  <2>1. \A i \in issued : i <= mark \/ \E j \in Ids : i <= j /\ There(j)
    BY DEF Fresh, AllCovered, Covered
  <2>2. \A i \in issued : i <= mark' \/ \E j \in Ids : i <= j /\ There(j)
    BY <1>1, <1>4, <1>5, <2>1
  <2> QED
    BY <1>1, <2>2 DEF AllCovered, Covered, There
<1>7. FreshFor(p)'
  <2>1. call[p].next = "readdir" => \A i \in issued : i <= call[p].n
    BY <1>1, <1>3 DEF FreshFor
  <2> QED
    BY <1>1, <1>2, <1>3, <1>5, <2>1 DEF FreshFor
<1>8. Numbering(p) /\ Clean({"reused"})'
  BY <1>1 DEF Numbering, Fresh, Clean
<1> QED
  BY <1>2, <1>6, <1>7, <1>8, FreshAlone

LEMMA FreshResetMarks ==
    ASSUME TypeInv, Fresh, NEW p \in Agents, ResetMarks(p)
    PROVE  Fresh'
<1> DEFINE n == call[p].n
<1>1. /\ pc[p] = "resetmark" /\ Marks(p, n, "readdir") /\ mark' = mark /\ file' = file
      /\ issued' = issued /\ harm' = harm
  BY DEF ResetMarks, fileVars, ghostVars
<1>2. PICK s \in {"mark", "readdir"}, c \in CallRecords(issued) :
         /\ Moves(p, s, c) /\ c.n = n /\ s = (IF n > mark THEN "mark" ELSE "readdir")
  BY <1>1, AgentFacts, MarksFacts
<1>3. pc'[p] = s /\ call'[p] = c /\ Others(p)
  BY <1>2, MoveFacts DEF Others
<1>4. (n = 0 \/ There(n)) /\ \A i \in issued : i <= n \/ i <= mark
  BY <1>1 DEF Fresh, FreshFor
<1>5. mark \in Nat /\ n \in Nat /\ issued \subseteq Nat
  BY Kept, AgentFacts DEF Ids
<1>6. AllCovered'
  BY <1>1 DEF Fresh, AllCovered, Covered, There
<1>7. FreshFor(p)'
  <2>1. PICK m \in Nat : m = n
    BY <1>5
  <2>2. CASE m > mark
    <3>1. \A i \in issued : i <= m
      BY <1>4, <1>5, <2>1, <2>2
    <3>2. There(m)
      BY <1>4, <1>5, <2>1, <2>2
    <3> QED
      BY <1>1, <1>2, <1>3, <2>1, <2>2, <3>1, <3>2 DEF FreshFor, There
  <2>3. CASE ~(m > mark)
    <3>1. \A i \in issued : i <= mark
      BY <1>4, <1>5, <2>1, <2>3
    <3> QED
      BY <1>1, <1>2, <1>3, <2>1, <2>3, <3>1 DEF FreshFor
  <2> QED
    BY <2>2, <2>3
<1>8. Numbering(p) /\ Clean({"reused"})'
  BY <1>1 DEF Numbering, Fresh, Clean
<1> QED
  BY <1>3, <1>6, <1>7, <1>8, FreshAlone

LEMMA FreshResetLists ==
    ASSUME TypeInv, Fresh, NEW p \in Agents, ResetLists(p)
    PROVE  Fresh'
<1>1. /\ pc[p] = "readdir" /\ Goes(p, "clear") /\ mark' = mark /\ file' = file
      /\ issued' = issued /\ harm' = harm
  BY DEF ResetLists, fileVars, ghostVars
<1>2. pc'[p] = "clear" /\ Others(p)
  BY <1>1, GoesFacts, QuietNumbering DEF Quiet
<1>3. AllCovered'
  BY <1>1 DEF Fresh, AllCovered, Covered, There
<1>4. FreshFor(p)'
  BY <1>1, <1>2 DEF Fresh, FreshFor
<1>5. Numbering(p) /\ Clean({"reused"})'
  BY <1>1 DEF Numbering, Fresh, Clean
<1> QED
  BY <1>2, <1>3, <1>4, <1>5, FreshAlone

LEMMA FreshUnlink ==
    ASSUME TypeInv, Fresh, NEW p \in Agents, Unlink(p)
    PROVE  Fresh'
<1> DEFINE n == call[p].n
<1>1. pc[p] = "unlink" /\ mark' = mark /\ issued' = issued /\ harm' = harm
  BY DEF Unlink
<1>2. Others(p)
  BY QuietRemoving DEF Quiet
<1>3. n \in Ids /\ n <= mark
  BY <1>1, AgentFacts, Kept DEF CallOK, Fresh, FreshFor
<1>4. \A j \in Ids : There(j) /\ j # n => There(j)'
  BY <1>3, RemovesFacts DEF Unlink, There
<1>5. mark \in Nat /\ n \in Nat /\ issued \subseteq Nat /\ Ids \subseteq Nat
  BY <1>3, Kept DEF Ids
<1> HIDE DEF n
<1>6. AllCovered'
  <2>1. \A i \in issued : i <= mark \/ \E j \in Ids : i <= j /\ There(j)
    BY DEF Fresh, AllCovered, Covered
  <2>2. ASSUME NEW i \in issued PROVE i <= mark \/ \E j \in Ids : i <= j /\ There(j)'
    <3>1. CASE i <= mark
      BY <3>1
    <3>2. CASE \E j \in Ids : i <= j /\ There(j)
      <4>1. PICK j \in Ids : i <= j /\ There(j)
        BY <3>2
      <4>2. CASE j = n
        BY <1>3, <1>5, <4>1, <4>2
      <4>3. CASE j # n
        BY <1>4, <4>1, <4>3
      <4> QED
        BY <4>2, <4>3
    <3> QED
      BY <2>1, <3>1, <3>2
  <2> QED
    BY <1>1, <2>2 DEF AllCovered, Covered
<1>7. Numbering(p) /\ Clean({"reused"})'
  BY <1>1 DEF Numbering, Fresh, Clean
<1>8. pc'[p] \in {"list", "idle"}
  BY GoesFacts, EndMoves DEF Unlink
<1>9. FreshFor(p)'
  BY <1>8, IdleNext DEF Numbering
<1> QED
  BY <1>2, <1>6, <1>7, <1>9, FreshAlone

LEMMA FreshResetClears ==
    ASSUME TypeInv, Fresh, NEW p \in Agents, ResetClears(p)
    PROVE  Fresh'
<1>1. pc[p] = "clear" /\ mark' = mark /\ issued' = issued /\ harm' = harm
  BY DEF ResetClears
<1>2. Others(p)
  BY QuietRemoving DEF Quiet
<1>3. \A i \in issued : i <= mark
  BY <1>1 DEF Fresh, FreshFor
<1>4. AllCovered'
  BY <1>1, <1>3 DEF AllCovered, Covered
<1>5. Numbering(p) /\ Clean({"reused"})'
  BY <1>1 DEF Numbering, Fresh, Clean
<1>6. pc'[p] \in {"idle", "clear"}
  BY <1>1, EndMoves DEF ResetClears
<1>7. FreshFor(p)'
  BY <1>1, <1>3, <1>6 DEF FreshFor
<1> QED
  BY <1>2, <1>4, <1>5, <1>7, FreshAlone

LEMMA FreshDie ==
    ASSUME TypeInv, Fresh, NEW p \in Agents, Die(p)
    PROVE  Fresh'
<1>1. mark' = mark /\ issued' = issued /\ harm' = harm /\ file' = file /\ Others(p) /\ pc'[p] = "dead"
  BY QuietUpdating, GoesFacts DEF Die, Quiet, fileVars, ghostVars
<1>2. AllCovered'
  BY <1>1 DEF Fresh, AllCovered, Covered, There
<1>3. ~Numbering(p)' /\ Clean({"reused"})'
  BY <1>1 DEF Numbering, Fresh, Clean
<1>4. FreshFor(p)'
  BY <1>3, IdleNext
<1>5. \A i \in Ids : There(i) => There(i)'
  BY <1>1 DEF There
<1>6. CASE Numbering(p)
  BY <1>1, <1>2, <1>3, <1>4, <1>6, FreshAlone
<1>7. CASE ~Numbering(p)
  BY <1>1, <1>3, <1>5, <1>7, FreshCalm
<1> QED
  BY <1>6, <1>7

LEMMA FreshNext == TypeInv /\ FreshInv /\ [Next]_vars => FreshInv'
<1> SUFFICES ASSUME TypeInv, FreshInv, [Next]_vars, Clean({"overlap"})' PROVE Fresh'
  BY FreshByAgent
<1>1. CASE UNCHANGED vars
  <2>1. UNCHANGED <<file, mark, pc, call, holds, issued, deps, harm>>
    BY <1>1, StutterTasks
  <2>2. Fresh
    BY <2>1, FreshByAgent DEF Clean
  <2> QED
    BY <2>1, <2>2 DEF Fresh, OneNumbers, AllCovered, FreshFor, Numbering, Covered, There, Clean
<1>2. CASE Next
  <2>1. PICK p \in Agents :
          \/ Calm(p) \/ Create(p) \/ (\E id \in Ids : Delete(p, id)) \/ Reset(p) \/ CreateOpens(p)
          \/ MarkOpens(p) \/ MarkFills(p) \/ ResetMarks(p) \/ ResetLists(p) \/ Unlink(p)
          \/ ResetClears(p) \/ Die(p)
    BY <1>2 DEF Next, Step, Calm
  <2>2. harm \subseteq harm'
    BY <1>2, StepCases, CreateOpensFacts, CreateFillsFacts, WriteFacts, FillFacts
       DEF Quiet, StartsWrite, StartsCheck, ReadsBlocker, TakesNothing, SameTasks
  <2>3. Fresh
    BY <2>2, FreshByAgent DEF Clean
  <2>4. CASE Calm(p)
    BY <2>3, <2>4, CalmSteps, FreshCalm
  <2> QED
    BY <2>1, <2>3, <2>4, FreshCreate, FreshDelete, FreshReset, FreshCreateOpens, FreshMarkOpens,
       FreshMarkFills, FreshResetMarks, FreshResetLists, FreshUnlink, FreshResetClears, FreshDie
<1> QED
  BY <1>1, <1>2

-----------------------------------------------------------------------------
(* DepInv                                                                   *)

\* An update leaves out only blockers that are gone
Safe(w) == "blockedBy" \in DOMAIN w.set => \A b \in w.from \ w.set.blockedBy : ~There(b)
SafeWork(ws) == \A k \in DOMAIN ws : Safe(ws[k])

DepReal == \A d \in deps : d \in Ids \X Ids /\ There(d[1]) /\ There(d[2])
DepFile == \A d \in deps : Whole(d[2]) => d[1] \in file[d[2]].blockedBy
DepFor(p) ==
    /\ pc[p] \in {"write", "fill"} => \A d \in deps : d[2] = Todo(p).id => d[1] \in call[p].seen.blockedBy
    /\ pc[p] = "list" => ~There(call[p].n)
    /\ pc[p] = "fillnew" => \A d \in deps : d[2] # call[p].n
    /\ SafeWork(call[p].work)

Astray == {"stale", "resurrected", "reused"}

LEMMA DepByAgent ==
    /\ DepInv <=> DepReal /\ (Clean(Astray) => DepFile /\ \A p \in Agents : DepFor(p))
    /\ DepInv' <=> DepReal' /\ (Clean(Astray)' => DepFile' /\ \A p \in Agents : DepFor(p)')
BY DEF DepInv, DepReal, DepFile, DepFor, SafeWork, Safe, Astray

\* Which dependencies are real, when no file goes
LEMMA RealKept ==
    ASSUME DepReal, deps' = deps, \A i \in Ids : There(i) => There(i)'
    PROVE  DepReal'
<1> SUFFICES ASSUME NEW d \in deps PROVE d \in Ids \X Ids /\ There(d[1])' /\ There(d[2])'
  BY DEF DepReal
<1> QED
  BY DEF DepReal

LEMMA RealRemoved ==
    ASSUME TypeInv, DepReal, NEW i \in Ids, Removes(i)
    PROVE  DepReal'
<1>1. \A j \in Ids : j # i => file'[j] = file[j]
  BY RemovesFacts
<1>2. deps' = {d \in deps : i \notin {d[1], d[2]}}
  BY DEF Removes
<1> SUFFICES ASSUME NEW d \in deps' PROVE d \in Ids \X Ids /\ There(d[1])' /\ There(d[2])'
  BY DEF DepReal
<1> QED
  BY <1>1, <1>2 DEF DepReal, There

LEMMA FillDeps ==
    ASSUME TypeInv, NEW p \in Agents, Fill(p)
    PROVE  LET w == Todo(p) IN
           /\ \A d \in deps : d \in deps'
           /\ \A d \in deps' : d \in deps \/
                /\ d[2] = w.id /\ d[1] \in issued /\ There(d[1]) /\ There(w.id)
                /\ "blockedBy" \in DOMAIN w.set /\ d[1] \in w.set.blockedBy /\ d = <<d[1], d[2]>>
<1> DEFINE w == Todo(p)
           new == {<<a, w.id>> : a \in {b \in w.set.blockedBy \ w.from : There(b)}}
<1>1. deps' = IF "blockedBy" \in DOMAIN w.set /\ There(w.id) THEN deps \cup new ELSE deps
  BY DEF Fill
<1>2. "blockedBy" \in DOMAIN w.set => w.set.blockedBy \subseteq issued
  <2>1. w.set \in Settings(issued)
    BY Places DEF Fill
  <2> HIDE DEF w
  <2> QED
    BY <2>1, SettingsFacts
<1>3. \A d \in new : /\ d[2] = w.id /\ There(d[1]) /\ d[1] \in w.set.blockedBy /\ d = <<d[1], d[2]>>
  OBVIOUS
<1> HIDE DEF new, w
<1> QED
  BY <1>1, <1>2, <1>3 DEF w

LEMMA RealNext ==
    ASSUME TypeInv, DepReal, Next
    PROVE  DepReal'
<1>1. PICK p \in Agents :
          \/ Calm(p) \/ Create(p) \/ (\E id \in Ids : Delete(p, id)) \/ Reset(p) \/ CreateOpens(p)
          \/ MarkOpens(p) \/ MarkFills(p) \/ ResetMarks(p) \/ ResetLists(p) \/ Unlink(p)
          \/ ResetClears(p) \/ Die(p)
  BY DEF Next, Step, Calm
<1>2. CASE Fill(p)
  <2>1. \A i \in Ids : There(i) => There(i)'
    BY <1>2, CalmSteps DEF Calm
  <2>2. Todo(p).id \in Ids /\ issued \subseteq Ids
    BY <1>2, FillFacts, Kept
  <2> SUFFICES ASSUME NEW d \in deps' PROVE d \in Ids \X Ids /\ There(d[1])' /\ There(d[2])'
    BY DEF DepReal
  <2>3. CASE d \in deps
    BY <2>1, <2>3 DEF DepReal
  <2>4. CASE d \notin deps
    <3>1. /\ d[2] = Todo(p).id /\ d[1] \in issued /\ There(d[1]) /\ There(d[2]) /\ d = <<d[1], d[2]>>
      BY <1>2, <2>4, FillDeps
    <3> QED
      BY <2>1, <2>2, <3>1
  <2> QED
    BY <2>3, <2>4
<1>3. CASE Calm(p) /\ deps' = deps
  BY <1>3, CalmSteps, RealKept
<1>4. CASE CreateOpens(p)
  <2>1. \A i \in Ids : There(i) => There(i)'
    BY <1>4, CreateOpensFacts, Kept, BasicTypes DEF There
  <2> QED
    BY <1>4, <2>1, CreateOpensFacts, RealKept
<1>5. CASE Create(p) \/ (\E id \in Ids : Delete(p, id)) \/ Reset(p) \/ MarkOpens(p) \/ MarkFills(p)
           \/ ResetMarks(p) \/ ResetLists(p) \/ Die(p)
  <2>1. file' = file /\ deps' = deps
    BY <1>5, QuietNumbering, QuietUpdating
  <2> QED
    BY <2>1, RealKept DEF There
<1>6. CASE Unlink(p) \/ ResetClears(p)
  <2>1. UNCHANGED <<file, deps>> \/ \E i \in Ids : Removes(i)
    BY <1>6, QuietRemoving
  <2> QED
    BY <2>1, RealKept, RealRemoved DEF There
<1>7. Calm(p) => Fill(p) \/ deps' = deps
  BY DEF Calm, CreateFills, Cascade, Lock, Write, ClaimLocks, Check, Take, Claim, Complete, GiveUp,
         Block, Unassign, SetStatus, SetOwner, ghostVars
<1> QED
  BY <1>1, <1>2, <1>3, <1>4, <1>5, <1>6, <1>7

LEMMA SafeStays ==
    ASSUME TypeInv, NEW ws \in Seq(Updates(issued)), SafeWork(ws),
           \A i \in Ids : There(i)' => There(i) \/ i \notin issued
    PROVE  SafeWork(ws)'
<1> SUFFICES ASSUME NEW k \in DOMAIN ws PROVE Safe(ws[k])'
  BY DEF SafeWork
<1>1. ws[k] \in Updates(issued) /\ Safe(ws[k])
  BY DEF SafeWork
<1>2. ws[k].from \subseteq issued /\ issued \subseteq Ids
  BY <1>1, Kept DEF Updates
<1> QED
  BY <1>1, <1>2 DEF Safe

LEMMA SafeNothing == SafeWork(<<>>)
BY DEF SafeWork

LEMMA SafeTail ==
    ASSUME NEW I, NEW ws \in Seq(Updates(I)), ws # <<>>, SafeWork(ws)
    PROVE  SafeWork(Tail(ws))
<1>1. \A k \in DOMAIN Tail(ws) : Tail(ws)[k] = ws[k + 1] /\ k + 1 \in DOMAIN ws
  OBVIOUS
<1> QED
  BY <1>1 DEF SafeWork

LEMMA SafeAssign ==
    ASSUME NEW id, NEW set, NEW for, "blockedBy" \notin DOMAIN set
    PROVE  Safe(Assign(id, set, for)) /\ SafeWork(<<Assign(id, set, for)>>)
<1>1. Safe(Assign(id, set, for))
  BY DEF Safe, Assign, Update
<1> HIDE DEF Assign
<1>2. \A k \in DOMAIN <<Assign(id, set, for)>> : <<Assign(id, set, for)>>[k] = Assign(id, set, for)
  OBVIOUS
<1> QED
  BY <1>1, <1>2 DEF SafeWork

LEMMA SafePlain ==
    ASSUME NEW id, NEW set, "blockedBy" \notin DOMAIN set
    PROVE  Safe(Plain(id, set)) /\ SafeWork(<<Plain(id, set)>>)
<1>1. Plain(id, set) = Assign(id, set, Nobody)
  BY DEF Plain, Assign
<1> QED
  BY <1>1, SafeAssign

LEMMA SafeAfterClaim ==
    ASSUME NEW p \in Agents, NEW id \in issued, NEW ws \in {Started(p, id), Released(id)}
    PROVE  SafeWork(ws) /\ SafeWork(<<Assign(id, [owner |-> ClaimAs(p)], p)>> \o ws)
<1> DEFINE u == Assign(id, [owner |-> ClaimAs(p)], p)
<1>1. \/ ws = <<>> \/ ws = <<Plain(id, [status |-> "in_progress"])>>
      \/ ws = <<Plain(id, [owner |-> Nobody])>>
  BY DEF Started, Released
<1>2. SafeWork(ws)
  BY <1>1, SafeNothing, SafePlain
<1>3. ws \in Seq(Updates(issued)) /\ u \in Updates(issued) /\ Safe(u)
  BY AfterClaim, SafeAssign
<1> HIDE DEF u
<1>4. \A k \in DOMAIN (<<u>> \o ws) :
         (<<u>> \o ws)[k] = IF k = 1 THEN u ELSE ws[k - 1]
  BY <1>3
<1>5. \A k \in DOMAIN (<<u>> \o ws) : k # 1 => k - 1 \in DOMAIN ws
  BY <1>3
<1>6. SafeWork(<<u>> \o ws)
  BY <1>2, <1>3, <1>4, <1>5 DEF SafeWork
<1> QED
  BY <1>2, <1>6 DEF u

LEMMA SafeCascade ==
    ASSUME TypeInv, NEW p \in Agents, Cascade(p), ~There(call[p].n)
    PROVE  SafeWork(call'[p].work)
<1> DEFINE id == call[p].n
           refers == {i \in Ids : Whole(i) /\ id \in file[i].blocks \cup file[i].blockedBy}
           forget(i) == Update(i, [blocks |-> file[i].blocks \ {id},
                                   blockedBy |-> file[i].blockedBy \ {id}], file[i].blockedBy, Nobody)
<1>1. PICK order \in SetToSeqs(refers) : WorksOn(p, [k \in DOMAIN order |-> forget(order[k])], 0)
  BY DEF Cascade, Works
<1>2. call'[p].work = [k \in DOMAIN order |-> forget(order[k])]
  BY <1>1, WorkMoves
<1>3. \A i : Safe(forget(i))
  BY DEF Safe, Update
<1> HIDE DEF forget
<1> QED
  BY <1>2, <1>3 DEF SafeWork

LEMMA SafeBlock ==
    ASSUME TypeInv, NEW p \in Agents, NEW a \in Ids, NEW b \in Ids, Block(p, a, b)
    PROVE  SafeWork(call'[p].work)
<1> DEFINE forth == b \in file[a].blocks
           back == a \in file[b].blockedBy
           u == Plain(a, [blocks |-> file[a].blocks \cup {b}])
           v == Update(b, [blockedBy |-> file[b].blockedBy \cup {a}], file[b].blockedBy, Nobody)
           ws == (IF forth THEN <<>> ELSE <<u>>) \o (IF back THEN <<>> ELSE <<v>>)
<1>1. WorksOn(p, ws, 0)
  BY DEF Block, Works
<1>2. Safe(u) /\ Safe(v)
  <2>1. Safe(v)
    BY DEF Safe, Update
  <2> QED
    BY <2>1, SafePlain
<1>3. SafeWork(ws)
  <2> HIDE DEF u, v, forth, back
  <2>1. \A k \in DOMAIN ws : ws[k] \in {u, v}
    OBVIOUS
  <2> HIDE DEF ws
  <2> QED
    BY <1>2, <2>1 DEF SafeWork
<1> HIDE DEF ws
<1>4. call'[p].work = ws
  BY <1>1, WorkMoves
<1> QED
  BY <1>3, <1>4

LEMMA SafeUnassign ==
    ASSUME TypeInv, NEW p \in Agents, NEW q \in Agents, Unassign(p, q)
    PROVE  SafeWork(call'[p].work)
<1> DEFINE free == [owner |-> Nobody, status |-> "pending"]
<1>1. PICK order : WorksOn(p, [k \in DOMAIN order |-> Plain(order[k], free)], 0)
  BY DEF Unassign, Works
<1>2. call'[p].work = [k \in DOMAIN order |-> Plain(order[k], free)]
  BY <1>1, WorkMoves
<1>3. \A i : Safe(Plain(i, free))
  BY SafePlain
<1> QED
  BY <1>2, <1>3 DEF SafeWork

LEMMA SafeUpdating ==
    ASSUME TypeInv, NEW p \in Agents, DepFor(p),
           \/ Cascade(p) \/ Complete(p) \/ Claim(p) \/ GiveUp(p) \/ Die(p)
           \/ \E a, b \in Ids : Block(p, a, b)
           \/ \E q \in Agents : Unassign(p, q)
           \/ \E id \in Ids, status \in Statuses : SetStatus(p, id, status)
           \/ \E id \in Ids, owner \in Agents \ Watchers : SetOwner(p, id, owner)
    PROVE  SafeWork(call'[p].work)
<1>1. CASE Cascade(p)
  BY <1>1, SafeCascade DEF DepFor, Cascade
<1>2. CASE Complete(p)
  <2>1. PICK ws \in {<<Plain(holds[p], [status |-> "completed"])>>, <<>>} : WorksOn(p, ws, 0)
    BY <1>2 DEF Complete, Works
  <2> QED
    BY <2>1, WorkMoves, SafePlain, SafeNothing
<1>3. CASE Claim(p)
  <2>1. call'[p].work = call[p].work
    BY <1>3, AgentFacts DEF Claim, CallRecords, TypeInv, Types
  <2> QED
    BY <2>1 DEF DepFor
<1>4. CASE GiveUp(p)
  BY <1>4, EndMoves, BasicTypes, SafeNothing DEF GiveUp, Throws
<1>5. CASE Die(p)
  <2>1. call'[p] = NoCall
    BY <1>5, CallMoves DEF Die
  <2> QED
    BY <2>1, BasicTypes, SafeNothing
<1>6. CASE \E id \in Ids, status \in Statuses : SetStatus(p, id, status)
  <2>1. PICK id \in Ids, status \in Statuses : SetStatus(p, id, status)
    BY <1>6
  <2>2. PICK set, for : "blockedBy" \notin DOMAIN set /\ WorksOn(p, <<Assign(id, set, for)>>, 0)
    BY <2>1, SetStatusCases
  <2> QED
    BY <2>2, WorkMoves, SafeAssign
<1>7. CASE \E id \in Ids, owner \in Agents \ Watchers : SetOwner(p, id, owner)
  <2>1. PICK id \in Ids, owner \in Agents : WorksOn(p, <<Assign(id, [owner |-> owner], owner)>>, 0)
    BY <1>7 DEF SetOwner, Works
  <2>2. "blockedBy" \notin DOMAIN [owner |-> owner]
    OBVIOUS
  <2> QED
    BY <2>1, <2>2, WorkMoves, SafeAssign
<1> QED
  BY <1>1, <1>2, <1>3, <1>4, <1>5, <1>6, <1>7, SafeBlock, SafeUnassign

\* What a step of p has to leave to an agent that is amid a call
LEMMA DepOthers ==
    ASSUME TypeInv, NEW p \in Agents, Others(p), NEW r \in Agents, r # p, DepFor(r),
           \A i \in Ids : There(i)' => There(i) \/ i \notin issued,
           \A d \in deps' : d \in deps
             \/ /\ pc[r] \in {"write", "fill"} => d[2] # Todo(r).id
                /\ pc[r] = "fillnew" => d[2] # call[r].n
    PROVE  DepFor(r)'
<1>1. pc'[r] = pc[r] /\ call'[r] = call[r] /\ Todo(r)' = Todo(r)
  BY OthersFacts
<1>2. pc[r] = "list" => ~There(call[r].n)'
  <2>1. CASE pc[r] = "list"
    <3>1. PICK n \in Ids : n = call[r].n /\ n \in issued /\ ~There(n)
      BY <2>1, Places DEF DepFor
    <3>2. ~There(n)'
      BY <3>1
    <3> QED
      BY <1>1, <3>1, <3>2 DEF There
  <2> QED
    BY <2>1
<1>3. SafeWork(call[r].work)'
  <2>1. call[r].work \in Seq(Updates(issued)) /\ SafeWork(call[r].work)
    BY AgentFacts DEF DepFor
  <2>2. PICK ws \in Seq(Updates(issued)) : ws = call[r].work
    BY <2>1
  <2>3. SafeWork(ws)'
    BY <2>1, <2>2, SafeStays
  <2> QED
    BY <1>1, <2>2, <2>3 DEF SafeWork, Safe
<1>4. pc[r] \in {"write", "fill"} => \A d \in deps' : d[2] = Todo(r).id => d[1] \in call[r].seen.blockedBy
  BY DEF DepFor
<1>5. pc[r] = "fillnew" => \A d \in deps' : d[2] # call[r].n
  BY DEF DepFor
<1> QED
  BY <1>1, <1>2, <1>3, <1>4, <1>5 DEF DepFor

\* The work of p, when it was safe before the step
LEMMA DepWork ==
    ASSUME TypeInv, TypeInv', issued' = issued, NEW p \in Agents, SafeWork(call'[p].work),
           \A i \in Ids : There(i)' => There(i)
    PROVE  SafeWork(call[p].work)'
<1>1. call'[p].work \in Seq(Updates(issued))
  BY AgentFacts DEF TypeInv, Types, CallRecords
<1>2. PICK ws \in Seq(Updates(issued)) : ws = call'[p].work
  BY <1>1
<1>3. SafeWork(ws)
  BY <1>2
<1>4. SafeWork(ws)'
  BY <1>3, SafeStays
<1> QED
  BY <1>2, <1>4 DEF SafeWork, Safe

Deps == DepFile /\ \A q \in Agents : DepFor(q)

LEMMA DepQuiet ==
    ASSUME TypeInv, TypeInv', Deps, NEW p \in Agents, Quiet(p),
           SafeWork(call'[p].work), pc'[p] = "list" => ~There(call[p].n)',
           UNCHANGED <<file, deps>> \/ \E i \in Ids : Removes(i)
    PROVE  Deps'
<1>1. /\ Others(p) /\ issued' = issued /\ pc'[p] \notin {"fillnew", "write", "fill", "check"}
      /\ \A i \in Ids : file'[i] \in {file[i], NoTask}
  BY DEF Quiet
<1>2. \A i \in Ids : There(i)' => There(i)
  BY <1>1, BasicTypes DEF There
<1>3. \A d \in deps' : d \in deps
  BY DEF Removes
<1>4. DepFile'
  <2>1. CASE UNCHANGED <<file, deps>>
    BY <2>1 DEF Deps, DepFile, Whole
  <2>2. CASE \E i \in Ids : Removes(i)
    <3>1. PICK i \in Ids : Removes(i)
      BY <2>2
    <3>2. file' = [file EXCEPT ![i] = NoTask] /\ \A d \in deps' : d \in deps /\ d[2] # i
      BY <3>1 DEF Removes
    <3>3. \A d \in deps' : file'[d[2]] = file[d[2]]
      BY <3>2, Kept
    <3> QED
      BY <3>2, <3>3 DEF Deps, DepFile, Whole
  <2> QED
    BY <2>1, <2>2
<1>5. SafeWork(call[p].work)'
  BY <1>1, <1>2, DepWork
<1>6. DepFor(p)'
  BY <1>1, <1>5 DEF DepFor
<1>7. \A r \in Agents : r # p => DepFor(r)'
  BY <1>1, <1>2, <1>3, DepOthers DEF Deps
<1> QED
  BY <1>4, <1>6, <1>7 DEF Deps

LEMMA DepStartsWrite ==
    ASSUME TypeInv, TypeInv', Deps, NEW p \in Agents, StartsWrite(p), SafeWork(call'[p].work)
    PROVE  Deps'
<1>1. /\ Others(p) /\ file' = file /\ deps' = deps /\ issued' = issued
      /\ pc'[p] = "write" /\ Whole((Todo(p).id)') /\ call'[p].seen = file[(Todo(p).id)']
  BY DEF StartsWrite, SameTasks
<1>2. \A i \in Ids : There(i)' => There(i)
  BY <1>1 DEF There
<1>3. DepFile'
  BY <1>1 DEF Deps, DepFile, Whole
<1>4. SafeWork(call[p].work)'
  BY <1>1, <1>2, DepWork
<1>5. DepFor(p)'
  BY <1>1, <1>4 DEF DepFor, Deps, DepFile
<1>6. \A r \in Agents : r # p => DepFor(r)'
  BY <1>1, <1>2, DepOthers DEF Deps
<1> QED
  BY <1>3, <1>5, <1>6 DEF Deps

\* A step that changes neither a file nor a dependency, in a claim
LEMMA DepClaims ==
    ASSUME TypeInv, TypeInv', Deps, NEW p \in Agents, StartsCheck(p) \/ ReadsBlocker(p) \/ TakesNothing(p),
           SafeWork(call'[p].work)
    PROVE  Deps'
<1>1. /\ Others(p) /\ file' = file /\ deps' = deps /\ issued' = issued
      /\ pc'[p] \in {"check", "idle", "lock"}
  BY DEF StartsCheck, ReadsBlocker, TakesNothing
<1>2. \A i \in Ids : There(i)' => There(i)
  BY <1>1 DEF There
<1>3. DepFile'
  BY <1>1 DEF Deps, DepFile, Whole
<1>4. SafeWork(call[p].work)'
  BY <1>1, <1>2, DepWork
<1>5. DepFor(p)'
  BY <1>1, <1>4 DEF DepFor
<1>6. \A r \in Agents : r # p => DepFor(r)'
  BY <1>1, <1>2, DepOthers DEF Deps
<1> QED
  BY <1>3, <1>5, <1>6 DEF Deps

LEMMA DepCreateOpens ==
    ASSUME TypeInv, DepReal, Deps, NEW p \in Agents, CreateOpens(p), Clean(Astray)'
    PROVE  Deps'
<1>1. PICK id \in Ids :
      /\ id = call'[p].n /\ Others(p) /\ pc'[p] = "fillnew" /\ call'[p].work = call[p].work
      /\ file' = [file EXCEPT ![id] = Torn] /\ deps' = deps
      /\ harm' = harm \cup {w \in {"reused"} : id \in issued}
  BY CreateOpensFacts
<1>2. id \notin issued
  BY <1>1 DEF Clean, Astray
<1>3. \A i \in Ids : i # id => file'[i] = file[i]
  BY <1>1, Kept
<1>4. \A i \in Ids : There(i)' => There(i) \/ i \notin issued
  BY <1>2, <1>3 DEF There
<1>5. \A d \in deps : d[2] \in Ids /\ d[2] # id
  BY <1>2, Kept DEF DepReal
<1>6. DepFile'
  BY <1>1, <1>3, <1>5 DEF Deps, DepFile, Whole
<1>7. SafeWork(call[p].work)'
  <2>1. PICK ws \in Seq(Updates(issued)) : ws = call[p].work /\ SafeWork(ws)
    BY AgentFacts DEF Deps, DepFor
  <2>2. SafeWork(ws)'
    BY <1>4, <2>1, SafeStays
  <2> QED
    BY <1>1, <2>1, <2>2 DEF SafeWork, Safe
<1>8. DepFor(p)'
  BY <1>1, <1>5, <1>7 DEF DepFor
<1>9. \A r \in Agents : r # p => DepFor(r)'
  BY <1>1, <1>4, DepOthers DEF Deps
<1> QED
  BY <1>6, <1>8, <1>9 DEF Deps

LEMMA DepCreateFills ==
    ASSUME TypeInv, DepReal, Deps, NEW p \in Agents, CreateFills(p)
    PROVE  Deps'
<1> DEFINE id == call[p].n
<1>1. /\ Others(p) /\ pc[p] = "fillnew" /\ pc'[p] = "idle" /\ id \in Ids
      /\ call'[p].work = <<>> /\ deps' = deps
      /\ file' = [file EXCEPT ![id] = IF @.is = "absent" THEN @ ELSE NewTask]
  BY CreateFillsFacts
<1>2. \A i \in Ids : There(i)' => There(i)
  BY <1>1, Kept DEF There
<1>3. \A d \in deps : d[2] \in Ids /\ d[2] # id
  BY <1>1 DEF Deps, DepFor, DepReal
<1>4. \A i \in Ids : i # id => file'[i] = file[i]
  BY <1>1, Kept
<1>5. DepFile'
  BY <1>1, <1>3, <1>4 DEF Deps, DepFile, Whole
<1>6. SafeWork(call[p].work)'
  BY <1>1 DEF SafeWork
<1>7. DepFor(p)'
  BY <1>1, <1>6 DEF DepFor
<1>8. \A r \in Agents : r # p => DepFor(r)'
  BY <1>1, <1>2, DepOthers DEF Deps
<1> QED
  BY <1>5, <1>7, <1>8 DEF Deps

LEMMA DepWrite ==
    ASSUME TypeInv, TypeInv', DepReal, Deps, NEW p \in Agents, Write(p), Clean(Astray)'
    PROVE  Deps'
<1> DEFINE id == Todo(p).id
<1>1. /\ Others(p) /\ pc[p] = "write" /\ pc'[p] = "fill" /\ id \in Ids /\ issued' = issued
      /\ call'[p] = call[p] /\ Todo(p)' = Todo(p) /\ deps' = deps
      /\ file' = [file EXCEPT ![id] = Torn]
      /\ harm' = harm \cup {w \in {"resurrected"} : ~There(id)}
  BY WriteFacts
<1>2. There(id)
  BY <1>1 DEF Clean, Astray
<1>3. \A i \in Ids : file'[i] = (IF i = id THEN Torn ELSE file[i])
  BY <1>1, Kept
<1>4. \A i \in Ids : There(i)' => There(i)
  BY <1>2, <1>3 DEF There
<1>5. DepFile'
  <2>1. \A d \in deps : d[2] \in Ids
    BY DEF DepReal
  <2>2. Torn.is = "torn"
    BY BasicTypes
  <2> QED
    BY <1>1, <1>3, <2>1, <2>2 DEF Deps, DepFile, Whole
<1>6. SafeWork(call[p].work)'
  <2>1. SafeWork(call'[p].work)
    BY <1>1 DEF Deps, DepFor
  <2> QED
    BY <1>1, <1>4, <2>1, DepWork
<1>7. DepFor(p)'
  BY <1>1, <1>6 DEF DepFor, Deps
<1>8. \A r \in Agents : r # p => DepFor(r)'
  BY <1>1, <1>4, DepOthers DEF Deps
<1> QED
  BY <1>5, <1>7, <1>8 DEF Deps

LEMMA DepFill ==
    ASSUME TypeInv, TypeInv', DepReal, Deps, \A q \in Agents : NewFor(q),
           NEW p \in Agents, Fill(p), Clean(Astray)'
    PROVE  Deps'
<1> DEFINE id == Todo(p).id
           set == Todo(p).set
           from == Todo(p).from
<1>1. /\ Others(p) /\ pc[p] = "fill" /\ pc'[p] \in {"idle", "lock"} /\ id \in Ids /\ InTask(p, id)
      /\ call[p].work # <<>> /\ call'[p].work = Tail(call[p].work) /\ issued' = issued
      /\ file' = [file EXCEPT ![id] = IF @.is = "absent" THEN @ ELSE Merged(p)]
  BY FillFacts
<1>2. \A i \in Ids : file'[i] = (IF i = id /\ There(i) THEN Merged(p) ELSE file[i])
  BY <1>1, Kept DEF There
<1>3. \A i \in Ids : There(i)' => There(i)
  BY <1>2 DEF There
<1>4. \A d \in deps' : d \in deps \/ /\ d[2] = id /\ There(id) /\ d[1] \in set.blockedBy
                                     /\ "blockedBy" \in DOMAIN set
  BY FillDeps
<1>5. Merged(p).blockedBy = (IF "blockedBy" \in DOMAIN set THEN set.blockedBy ELSE call[p].seen.blockedBy)
  BY <1>1, MergedFacts
<1>6. "blockedBy" \in DOMAIN set => from = call[p].seen.blockedBy
  BY DEF Fill, Hurt, Clean, Astray
<1>7. call[p].work \in Seq(Updates(issued)) /\ DepFor(p)
  BY AgentFacts DEF Deps
<1>8. Safe(Todo(p))
  <2>1. SafeWork(call[p].work)
    BY <1>7 DEF DepFor
  <2>2. 1 \in DOMAIN call[p].work /\ Head(call[p].work) = call[p].work[1]
    BY <1>1, <1>7
  <2>3. Safe(call[p].work[1])
    BY <2>1, <2>2 DEF SafeWork
  <2> QED
    BY <2>2, <2>3 DEF Todo
<1>9. ASSUME NEW d \in deps', d[2] = id, There(id) PROVE d[1] \in Merged(p).blockedBy
  <2>1. CASE "blockedBy" \in DOMAIN set
    <3>1. CASE d \in deps
      <4>1. d[1] \in call[p].seen.blockedBy /\ There(d[1])
        BY <1>1, <1>7, <1>9, <3>1 DEF DepFor, DepReal
      <4>2. d[1] \in from
        BY <1>6, <2>1, <4>1
      <4>3. d[1] \in set.blockedBy
        BY <1>8, <2>1, <4>1, <4>2 DEF Safe
      <4> QED
        BY <1>5, <2>1, <4>3
    <3>2. CASE d \notin deps
      BY <1>4, <1>5, <2>1, <3>2
    <3> QED
      BY <3>1, <3>2
  <2>2. CASE "blockedBy" \notin DOMAIN set
    BY <1>1, <1>4, <1>5, <1>7, <1>9, <2>2 DEF DepFor
  <2> QED
    BY <2>1, <2>2
<1> HIDE DEF id, set, from
<1>10. DepFile'
  <2> SUFFICES ASSUME NEW d \in deps', Whole(d[2])' PROVE d[1] \in file'[d[2]].blockedBy
    BY DEF DepFile
  <2>1. d[2] \in Ids
    BY <1>1, <1>4 DEF DepReal
  <2>2. There(d[2])
    BY <1>3, <2>1 DEF Whole, There
  <2>3. CASE d[2] = id
    BY <1>2, <1>9, <2>1, <2>2, <2>3
  <2>4. CASE d[2] # id
    <3>1. file'[d[2]] = file[d[2]] /\ d \in deps
      BY <1>2, <1>4, <2>1, <2>4
    <3> QED
      BY <3>1 DEF Deps, DepFile, Whole
  <2> QED
    BY <2>3, <2>4
<1>11. SafeWork(call[p].work)'
  <2>1. SafeWork(Tail(call[p].work))
    BY <1>1, <1>7, SafeTail DEF DepFor
  <2> QED
    BY <1>1, <1>3, <2>1, DepWork
<1>12. DepFor(p)'
  BY <1>1, <1>11 DEF DepFor
<1>13. ASSUME NEW r \in Agents, r # p PROVE DepFor(r)'
  <2>1. pc[r] \in {"write", "fill"} => id # Todo(r).id
    BY <1>1, <1>13, Places, Alone
  <2>2. pc[r] = "fillnew" => id # call[r].n
    BY <1>1 DEF NewFor
  <2>3. \A d \in deps' : d \in deps
             \/ /\ pc[r] \in {"write", "fill"} => d[2] # Todo(r).id
                /\ pc[r] = "fillnew" => d[2] # call[r].n
    BY <1>4, <2>1, <2>2
  <2> QED
    BY <1>1, <1>3, <1>13, <2>3, DepOthers DEF Deps
<1> QED
  BY <1>10, <1>12, <1>13 DEF Deps

\* The calls that number tasks, remove and update them
LEMMA DepCalls ==
    ASSUME TypeInv, TypeInv', Deps, NEW p \in Agents,
           \/ Create(p) \/ (\E id \in Ids : Delete(p, id)) \/ MarkOpens(p) \/ MarkFills(p)
           \/ Reset(p) \/ ResetMarks(p) \/ ResetLists(p)
           \/ Unlink(p) \/ ResetClears(p)
           \/ Cascade(p) \/ Complete(p) \/ Claim(p) \/ GiveUp(p) \/ Die(p)
           \/ \E a, b \in Ids : Block(p, a, b)
           \/ \E q \in Agents : Unassign(p, q)
           \/ \E id \in Ids, status \in Statuses : SetStatus(p, id, status)
           \/ \E id \in Ids, owner \in Agents \ Watchers : SetOwner(p, id, owner)
    PROVE  Deps'
<1>1. DepFor(p) /\ SafeWork(call[p].work)
  BY DEF Deps, DepFor
<1>2. CASE \/ Create(p) \/ (\E id \in Ids : Delete(p, id)) \/ MarkOpens(p) \/ MarkFills(p)
           \/ Reset(p) \/ ResetMarks(p) \/ ResetLists(p)
  <2>1. /\ Quiet(p) /\ UNCHANGED <<file, deps>> /\ call'[p].work = call[p].work /\ pc'[p] # "list"
    BY <1>2, QuietNumbering
  <2> QED
    BY <1>1, <2>1, DepQuiet
<1>3. CASE Unlink(p) \/ ResetClears(p)
  <2>1. /\ Quiet(p) /\ call'[p].work \in {call[p].work, <<>>}
        /\ pc'[p] = "list" => ~There(call[p].n)'
        /\ UNCHANGED <<file, deps>> \/ \E i \in Ids : Removes(i)
    BY <1>3, QuietRemoving
  <2>2. SafeWork(call'[p].work)
    BY <1>1, <2>1, SafeNothing
  <2> QED
    BY <2>1, <2>2, DepQuiet
<1>4. CASE \/ Cascade(p) \/ Complete(p) \/ Claim(p) \/ GiveUp(p) \/ Die(p)
           \/ \E a, b \in Ids : Block(p, a, b)
           \/ \E q \in Agents : Unassign(p, q)
           \/ \E id \in Ids, status \in Statuses : SetStatus(p, id, status)
           \/ \E id \in Ids, owner \in Agents \ Watchers : SetOwner(p, id, owner)
  <2>1. Quiet(p) /\ UNCHANGED <<file, deps>> /\ pc'[p] \in {"idle", "lock", "claim", "dead"}
    BY <1>4, QuietUpdating
  <2>2. SafeWork(call'[p].work)
    BY <1>1, <1>4, SafeUpdating
  <2> QED
    BY <2>1, <2>2, DepQuiet
<1> QED
  BY <1>2, <1>3, <1>4

\* The steps that read under a lock
LEMMA DepReads ==
    ASSUME TypeInv, TypeInv', Deps, NEW p \in Agents, Lock(p) \/ ClaimLocks(p) \/ Check(p) \/ Take(p)
    PROVE  Deps'
<1>1. SafeWork(call[p].work)
  BY DEF Deps, DepFor
<1>2. ASSUME Quiet(p), file' = file, deps' = deps, SafeWork(call'[p].work),
             pc'[p] \in {"idle", "lock"}
      PROVE  Deps'
  BY <1>2, DepQuiet
<1>3. CASE Lock(p)
  <2>1. call[p].work # <<>> /\ call[p].work \in Seq(Updates(issued))
    BY <1>3, AgentFacts DEF CallOK, Lock
  <2>2. SafeWork(Tail(call[p].work))
    BY <1>1, <2>1, SafeTail
  <2> QED
    BY <1>1, <1>2, <1>3, <2>2, LockCases, SafeNothing, DepStartsWrite
<1>4. CASE ClaimLocks(p)
  BY <1>1, <1>2, <1>4, ClaimLocksCases, SafeNothing, DepClaims
<1>5. CASE Check(p)
  BY <1>1, <1>2, <1>5, CheckCases, SafeNothing, DepClaims
<1>6. CASE Take(p)
  <2>1. PICK ws \in {Started(p, call[p].n), Released(call[p].n)} :
              \/ /\ StartsWrite(p) /\ call'[p].work = <<Assign(call[p].n, [owner |-> ClaimAs(p)], p)>> \o ws
              \/ TakesNothing(p) /\ call'[p].work = ws
    BY <1>6, TakeSteps
  <2>2. SafeWork(ws) /\ SafeWork(<<Assign(call[p].n, [owner |-> ClaimAs(p)], p)>> \o ws)
    BY <1>6, <2>1, TakeCases, SafeAfterClaim
  <2> QED
    BY <2>1, <2>2, DepStartsWrite, DepClaims
<1> QED
  BY <1>3, <1>4, <1>5, <1>6

LEMMA DepNext == TypeInv /\ NewInv /\ DepInv /\ [Next]_vars => DepInv'
<1> SUFFICES ASSUME TypeInv, NewInv, DepInv, [Next]_vars PROVE DepInv'
  OBVIOUS
<1>1. CASE UNCHANGED vars
  BY <1>1, StutterTasks DEF DepInv, Clean, Whole, There, Todo
<1>2. CASE Next
  <2>1. DepReal /\ DepReal' /\ TypeInv'
    BY <1>2, RealNext, TypeNext, DepByAgent
  <2>2. harm \subseteq harm'
    BY <1>2, StepCases, CreateOpensFacts, CreateFillsFacts, WriteFacts, FillFacts
       DEF Quiet, StartsWrite, StartsCheck, ReadsBlocker, TakesNothing, SameTasks
  <2> SUFFICES ASSUME Clean(Astray)' PROVE Deps'
    BY <2>1, DepByAgent DEF Deps
  <2>3. Deps /\ \A q \in Agents : NewFor(q)
    BY <2>2, DepByAgent, NewByAgent DEF Deps, Clean, Astray
  <2>4. PICK p \in Agents :
          \/ CreateOpens(p) \/ CreateFills(p) \/ Write(p) \/ Fill(p)
          \/ Lock(p) \/ ClaimLocks(p) \/ Check(p) \/ Take(p)
          \/ \/ Create(p) \/ (\E id \in Ids : Delete(p, id)) \/ MarkOpens(p) \/ MarkFills(p)
             \/ Reset(p) \/ ResetMarks(p) \/ ResetLists(p)
             \/ Unlink(p) \/ ResetClears(p)
             \/ Cascade(p) \/ Complete(p) \/ Claim(p) \/ GiveUp(p) \/ Die(p)
             \/ \E a, b \in Ids : Block(p, a, b)
             \/ \E q \in Agents : Unassign(p, q)
             \/ \E id \in Ids, status \in Statuses : SetStatus(p, id, status)
             \/ \E id \in Ids, owner \in Agents \ Watchers : SetOwner(p, id, owner)
    BY <1>2 DEF Next, Step
  <2> QED
    BY <2>1, <2>3, <2>4, DepCalls, DepReads, DepCreateOpens, DepCreateFills, DepWrite, DepFill
<1> QED
  BY <1>1, <1>2

-----------------------------------------------------------------------------
(* The theorems                                                             *)

LEMMA StartFacts ==
    ASSUME Init
    PROVE  /\ file \in [Ids -> {NewTask, NoTask}] /\ (\A i \in Ids : i <= NumTasks => There(i))
           /\ \A p \in Agents : pc[p] = "idle" /\ call[p] = NoCall /\ holds[p] = 0
           /\ issued = 1..NumTasks /\ issued \subseteq Ids /\ deps = {} /\ harm = {} /\ mark = 0
<1>1. file \in [Ids -> {NewTask, NoTask}] /\ \A i \in Ids : i <= NumTasks => file[i] = NewTask
  BY DEF Init
<1>2. issued \subseteq Ids
  BY TaskBounds DEF Init, Ids
<1> QED
  BY <1>1, <1>2, BasicTypes DEF Init, There

LEMMA InvInit == Init => NewInv /\ HoldInv /\ FreshInv /\ DepInv /\ BlockInv
<1> SUFFICES ASSUME Init PROVE NewInv /\ HoldInv /\ FreshInv /\ DepInv /\ BlockInv
  OBVIOUS
<1>1. NewInv
  BY StartFacts DEF NewInv
<1>2. HoldInv
  <2>1. ASSUME NEW p \in Agents, NEW i \in Ids, holds[p] = i PROVE FALSE
    BY <2>1, StartFacts, TaskBounds DEF Ids
  <2> QED
    BY <2>1, StartFacts DEF HoldInv
<1>3. FreshInv
  <2>1. AllCovered
    <3> SUFFICES ASSUME NEW i \in issued PROVE Covered(i, mark)
      BY DEF AllCovered
    <3>1. i \in Ids /\ i <= NumTasks /\ i <= i
      BY StartFacts, TaskBounds
    <3> QED
      BY <3>1, StartFacts DEF Covered
  <2>2. \A p \in Agents : ~Numbering(p)
    BY StartFacts DEF Numbering
  <2>3. Clean({"reused"})
    BY StartFacts DEF Clean
  <2> QED
    BY <2>1, <2>2, <2>3, Idle, FreshByAgent DEF Fresh, OneNumbers
<1>4. DepInv
  <2>1. \A p \in Agents : call[p].work = <<>> /\ pc[p] = "idle"
    BY StartFacts, BasicTypes
  <2> QED
    BY <2>1, StartFacts DEF DepInv
<1>5. BlockInv
  BY StartFacts DEF BlockInv
<1> QED
  BY <1>1, <1>2, <1>3, <1>4, <1>5

Inv == TypeInv /\ NewInv /\ HoldInv /\ FreshInv /\ DepInv /\ BlockInv

\* The invariant of the task list: the calls of all agents hold the locks of the
\* part of the code they are in, and what they read under them is still so when
\* they write, as far as no harm of the kind each part excludes has happened.
THEOREM Invariant == Spec => []Inv
<1>1. Init => Inv
  BY TypeInit, InvInit DEF Inv
<1>2. Inv /\ [Next]_vars => Inv'
  BY TypeNext, NewNext, HoldNext, FreshNext, DepNext, BlockNext DEF Inv
<1> QED
  BY <1>1, <1>2, PTL DEF Spec

LEMMA InvTypes == Inv => TypeOK
<1> SUFFICES ASSUME Inv PROVE TypeOK
  OBVIOUS
<1>1. TypeInv /\ DepReal
  BY DepByAgent DEF Inv
<1>2. Tasks(issued) \subseteq Task
  BY <1>1 DEF Tasks, Task, Owners, TypeInv, Types
<1>3. file \in [Ids -> Task]
  BY <1>1, <1>2 DEF TypeInv, Types
<1>4. issued \subseteq Ids /\ mark \in issued \cup {0} /\ holds \in [Agents -> issued \cup {0}]
  BY <1>1 DEF TypeInv, Types
<1>5. issued \cup {0} \subseteq 0..MaxId
  BY <1>4, TaskBounds DEF Ids
<1>6. mark \in 0..MaxId /\ holds \in [Agents -> 0..MaxId]
  BY <1>4, <1>5
<1>7. deps \subseteq Ids \X Ids
  BY <1>1 DEF DepReal
<1>8. /\ listLock \in Agents \cup {Nobody} /\ taskLock \in [Ids -> Agents \cup {Nobody}]
      /\ calls \in 0..MaxCalls /\ failures \in 0..MaxFailures
  BY <1>1 DEF TypeInv, Types, Holders
<1>9. \A p \in Agents : /\ (listLock = p) <=> InNumbering(p)
                        /\ \A i \in Ids : (taskLock[i] = p) <=> InTask(p, i)
  BY <1>1 DEF TypeInv, Locked
<1> QED
  BY <1>3, <1>4, <1>6, <1>7, <1>8, <1>9 DEF TypeOK

\* Type correctness, and the locks: whatever agents do and whoever dies, the lock
\* of the list and that of a task are held by exactly the call that is in the part
\* of the code they protect (withTaskListLock and the locks of updateTask and claimTask).
THEOREM TypeCorrect == Spec => []TypeOK
BY Invariant, InvTypes, PTL

\* Two agents work on one task only if an update that is no claim took it from the
\* agent at work; or claimTask let a claim through to a task in progress without an
\* owner, or to one that a watcher has, under whose id all watchers claim; or its id
\* was given out twice.  Every other claim finds that nobody works on the task.
THEOREM OneWorkerCorrect == Spec => []OneWorker
<1>1. Inv => OneWorker
  BY DEF Inv, HoldInv, OneWorker, Clean, Unfair
<1> QED
  BY <1>1, Invariant, PTL

\* createTask gives out an id again only if a deletion overlapped with another one
\* or with a creation; no death of an agent is enough.
THEOREM IdsAreFreshCorrect == Spec => []IdsAreFresh
<1>1. Inv => IdsAreFresh
  BY DEF Inv, FreshInv, IdsAreFresh, Clean
<1> QED
  BY <1>1, Invariant, PTL

\* A dependency that blockTask recorded is lost only by a write of a list of
\* blockers that had been read before another change, or when an id stands for
\* two tasks: no claim, no change of status or owner and no cascade undoes it.
THEOREM DependenciesKeptCorrect == Spec => []DependenciesKept
<1>1. Inv => DependenciesKept
  BY DEF Inv, DepInv, DependenciesKept, Clean
<1> QED
  BY <1>1, Invariant, PTL

\* claimTask grants a task only when no task that blocks it is open, unless one
\* of them was read amid a write, was opened again or came back from deletion,
\* although it reads the blockers one after the other and the others go on.
THEOREM ClaimsRespectBlockersCorrect == Spec => ClaimsRespectBlockers
<1> DEFINE Heeded ==
      \A p \in Agents :
          Take(p) => \/ harm \cap Bad # {}
                     \/ \A b \in file[call[p].n].blockedBy : ~Open(b)
<1>1. Inv => Heeded
  <2> SUFFICES ASSUME Inv, NEW p \in Agents, Take(p), harm \cap Bad = {},
                      NEW b \in file[call[p].n].blockedBy
               PROVE  ~Open(b)
    OBVIOUS
  <2>1. pc[p] = "check" /\ call[p].todo = {}
    BY DEF Take
  <2>2. Resolved(b)
    BY <2>1 DEF Inv, BlockInv, Clean, Bad
  <2> QED
    BY <2>2 DEF Resolved
<1>2. Inv /\ [Next]_vars => [Heeded]_vars
  BY <1>1
<1> QED
  BY <1>2, Invariant, PTL DEF Spec, ClaimsRespectBlockers, Bad
=============================================================================
