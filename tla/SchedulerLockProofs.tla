-------------------------- MODULE SchedulerLockProofs --------------------------
(***************************************************************************)
(* Proofs about the scheduler lock, for any number of sessions, crashes    *)
(* and stops.                                                              *)
(***************************************************************************)
EXTENDS SchedulerLock, TLAPS

\* The variables stay in their ranges (TypeOK), which includes that stop()
\* is not overtaken by an attempt to acquire the lock that was under way.
THEOREM TypeCorrect == Spec => []TypeOK
<1> USE NobodyAssumption, BoundsAssumption
<1>1. Init => TypeOK
  <2> SUFFICES ASSUME Init PROVE TypeOK
    OBVIOUS
  <2>1. lock \in LockType /\ recovered \in BOOLEAN
    BY DEF Init, LockType
  <2>2. crashes \in 0..MaxCrashes /\ stops \in 0..MaxStops
    BY DEF Init
  <2>3. /\ pid \in [Sessions -> Nat]
        /\ alive \in [Sessions -> BOOLEAN] /\ stopped \in [Sessions -> BOOLEAN]
        /\ isOwner \in [Sessions -> BOOLEAN] /\ pc \in [Sessions -> PCs]
        /\ releasing \in [Sessions -> {"no", "read", "unlink"}]
    BY DEF Init, PCs
  <2> QED
    BY <2>1, <2>2, <2>3 DEF Init, TypeOK
<1>2. TypeOK /\ [Next]_vars => TypeOK'
  <2> SUFFICES ASSUME TypeOK, [Next]_vars PROVE TypeOK'
    OBVIOUS
  <2> USE DEF TypeOK, LockType, PCs, Lock, Going, Goto, Same, At, Acquired
  <2>1. CASE UNCHANGED vars
    BY <2>1 DEF vars, sessionVars
  <2>2. ASSUME NEW s \in Sessions, Try(s) PROVE TypeOK'
    BY <2>2 DEF Try
  <2>3. ASSUME NEW s \in Sessions, Create(s) PROVE TypeOK'
    <3>0. Lock(s, FALSE) \in LockType
      OBVIOUS
    <3>1. lock' \in LockType
      BY <2>3, <3>0, Zenon DEF Create
    <3>2. /\ isOwner' \in [Sessions -> BOOLEAN] /\ pc' \in [Sessions -> PCs]
          /\ releasing' \in [Sessions -> {"no", "read", "unlink"}]
      BY <2>3 DEF Create
    <3>3. (\A t \in Sessions :
            /\ isOwner[t] => alive[t] /\ ~stopped[t] /\ pc[t] = "idle"
            /\ pc[t] # "idle" => alive[t]
            /\ releasing[t] # "no" => alive[t] /\ stopped[t] /\ pc[t] = "idle")'
      BY <2>3 DEF Create
    <3> QED
      BY <2>3, <3>1, <3>2, <3>3 DEF Create
  <2>4. ASSUME NEW s \in Sessions, Write(s) PROVE TypeOK'
    BY <2>4 DEF Write, Mine
  <2>5. ASSUME NEW s \in Sessions, Read(s) PROVE TypeOK'
    <3>1. lock' \in LockType
      BY <2>5 DEF Read
    <3>2. /\ isOwner' \in [Sessions -> BOOLEAN] /\ pc' \in [Sessions -> PCs]
          /\ releasing' \in [Sessions -> {"no", "read", "unlink"}]
      BY <2>5 DEF Read
    <3>3. (\A t \in Sessions :
            /\ isOwner[t] => alive[t] /\ ~stopped[t] /\ pc[t] = "idle"
            /\ pc[t] # "idle" => alive[t]
            /\ releasing[t] # "no" => alive[t] /\ stopped[t] /\ pc[t] = "idle")'
      BY <2>5 DEF Read
    <3> QED
      BY <2>5, <3>1, <3>2, <3>3 DEF Read
  <2>6. ASSUME NEW s \in Sessions, Rewrite(s) PROVE TypeOK'
    BY <2>6 DEF Rewrite
  <2>7. ASSUME NEW s \in Sessions, Unlink(s) PROVE TypeOK'
    BY <2>7 DEF Unlink
  <2>8. ASSUME NEW s \in Sessions, Recreate(s) PROVE TypeOK'
    <3>0. Lock(s, FALSE) \in LockType
      OBVIOUS
    <3>1. lock' \in LockType
      BY <2>8, <3>0, Zenon DEF Recreate
    <3>2. /\ isOwner' \in [Sessions -> BOOLEAN] /\ pc' \in [Sessions -> PCs]
          /\ releasing' \in [Sessions -> {"no", "read", "unlink"}]
      BY <2>8 DEF Recreate
    <3>3. (\A t \in Sessions :
            /\ isOwner[t] => alive[t] /\ ~stopped[t] /\ pc[t] = "idle"
            /\ pc[t] # "idle" => alive[t]
            /\ releasing[t] # "no" => alive[t] /\ stopped[t] /\ pc[t] = "idle")'
      BY <2>8 DEF Recreate
    <3> QED
      BY <2>8, <3>1, <3>2, <3>3 DEF Recreate
  <2>9. ASSUME NEW s \in Sessions, Release(s) PROVE TypeOK'
    BY <2>9 DEF Release, ReleaseRead, ReleaseUnlink
  <2>10. ASSUME NEW s \in Sessions, Stop(s) PROVE TypeOK'
    BY <2>10 DEF Stop
  <2>11. ASSUME NEW s \in Sessions, Crash(s) PROVE TypeOK'
    BY <2>11 DEF Crash
  <2>12. ASSUME NEW s \in Sessions, Resume(s) PROVE TypeOK'
    BY <2>12 DEF Resume
  <2> QED
    BY <2>1, <2>2, <2>3, <2>4, <2>5, <2>6, <2>7, <2>8, <2>9, <2>10, <2>11, <2>12
       DEF Next, Attempt
<1> QED
  BY <1>1, <1>2, PTL DEF Spec
-----------------------------------------------------------------------------
\* Until a lock file is recovered, whoever acquires, owns or gives back the
\* lock has the file to itself.
Exclusive ==
    ~recovered => \A s \in Sessions :
        /\ isOwner[s] => lock = Lock(s, TRUE)
        /\ pc[s] = "write" => lock = Lock(s, FALSE)
        /\ pc[s] = "rewrite" => lock.by = s
        /\ pc[s] # "recreate"
        /\ releasing[s] # "no" => lock = Lock(s, TRUE)

\* Before any recovery there is one owner at most, and the lock is its own
\* (OneOwnerBeforeRecovery).
THEOREM OneOwnerBeforeRecoveryCorrect == Spec => []OneOwnerBeforeRecovery
<1> USE NobodyAssumption
<1>1. Init => Exclusive
  BY DEF Init, Exclusive
<1>2. TypeOK /\ TypeOK' /\ Exclusive /\ [Next]_vars => Exclusive'
  <2> SUFFICES ASSUME TypeOK, TypeOK', Exclusive, [Next]_vars, ~recovered'
               PROVE  Exclusive'
    BY DEF Exclusive
  <2> USE DEF Lock, Going, Goto, Same, At, Acquired
  <2>0. /\ pid \in [Sessions -> Nat] /\ alive \in [Sessions -> BOOLEAN]
        /\ isOwner \in [Sessions -> BOOLEAN] /\ pc \in [Sessions -> PCs]
        /\ stopped \in [Sessions -> BOOLEAN]
        /\ releasing \in [Sessions -> {"no", "read", "unlink"}]
        /\ \A t \in Sessions :
            /\ isOwner[t] => alive[t] /\ ~stopped[t] /\ pc[t] = "idle"
            /\ pc[t] # "idle" => alive[t]
            /\ releasing[t] # "no" => alive[t] /\ stopped[t] /\ pc[t] = "idle"
    BY DEF TypeOK
  <2>a. lock.written => lock = [by |-> lock.by, pid |-> lock.pid, written |-> TRUE]
    BY DEF TypeOK, LockType, Absent
  <2>b. ASSUME ~recovered, NEW t \in Sessions, NEW u \in Sessions,
               \/ isOwner[t] \/ pc[t] \in {"write", "rewrite"} \/ releasing[t] # "no",
               \/ isOwner[u] \/ pc[u] \in {"write", "rewrite"} \/ releasing[u] # "no"
        PROVE  t = u
    <3>1. lock.by = t
      BY <2>b DEF Exclusive
    <3>2. lock.by = u
      BY <2>b DEF Exclusive
    <3> QED
      BY <3>1, <3>2
  <2>1. CASE UNCHANGED vars
    BY <2>1 DEF vars, sessionVars, Exclusive
  <2>2. ASSUME NEW s \in Sessions, Try(s) PROVE Exclusive'
    BY <2>0, <2>2 DEF Try, Exclusive
  <2>3. ASSUME NEW s \in Sessions, Create(s) PROVE Exclusive'
    BY <2>0, <2>3 DEF Create, Exclusive, Absent
  <2>4. ASSUME NEW s \in Sessions, Write(s) PROVE Exclusive'
    <3>1. ~recovered /\ lock = Lock(s, FALSE) /\ lock' = Lock(s, TRUE) /\ pid' = pid
      BY <2>4 DEF Write, Mine, Exclusive
    <3>2. \A t \in Sessions \ {s} :
            ~isOwner[t] /\ pc[t] \notin {"write", "rewrite"} /\ releasing[t] = "no"
      BY <2>b, <2>4, <3>1 DEF Write
    <3>3. \A t \in Sessions \ {s} :
            isOwner'[t] = isOwner[t] /\ pc'[t] = pc[t] /\ releasing'[t] = releasing[t]
      BY <2>0, <2>4 DEF Write
    <3>4. pc'[s] = "idle"
      BY <2>0, <2>4 DEF Write
    <3> QED
      BY <3>1, <3>2, <3>3, <3>4 DEF Exclusive
  <2>5. ASSUME NEW s \in Sessions, Read(s) PROVE Exclusive'
    <3>1. ~recovered /\ lock' = lock /\ pid' = pid
      BY <2>5 DEF Read
    <3>2. \A t \in Sessions \ {s} :
            isOwner'[t] = isOwner[t] /\ pc'[t] = pc[t] /\ releasing'[t] = releasing[t]
      BY <2>0, <2>5 DEF Read
    <3>3. pc'[s] \in {"idle", "rewrite", "unlink"} /\ ~isOwner[s] /\ releasing[s] = "no"
      BY <2>0, <2>5 DEF Read
    <3>4. isOwner'[s] \/ releasing'[s] # "no" => lock = Lock(s, TRUE)
      BY <2>0, <2>a, <2>5, <3>3 DEF Read, Names, Readable
    <3>5. pc'[s] = "rewrite" => lock.by = s
      BY <2>0, <2>5 DEF Read, Names, Readable
    <3> QED
      BY <3>1, <3>2, <3>3, <3>4, <3>5 DEF Exclusive
  <2>6. ASSUME NEW s \in Sessions, Rewrite(s) PROVE Exclusive'
    <3>1. ~recovered /\ lock' = Lock(s, FALSE) /\ pid' = pid /\ pc'[s] = "write"
      BY <2>0, <2>6 DEF Rewrite
    <3>2. \A t \in Sessions \ {s} :
            ~isOwner[t] /\ pc[t] \notin {"write", "rewrite"} /\ releasing[t] = "no"
      BY <2>b, <2>6, <3>1 DEF Rewrite
    <3>3. \A t \in Sessions \ {s} :
            isOwner'[t] = isOwner[t] /\ pc'[t] = pc[t] /\ releasing'[t] = releasing[t]
      BY <2>0, <2>6 DEF Rewrite
    <3>4. ~isOwner'[s] /\ releasing'[s] = "no"
      BY <2>0, <2>6 DEF Rewrite
    <3> QED
      BY <3>1, <3>2, <3>3, <3>4 DEF Exclusive
  <2>7. ASSUME NEW s \in Sessions, Unlink(s) PROVE Exclusive'
    BY <2>7 DEF Unlink
  <2>8. ASSUME NEW s \in Sessions, Recreate(s) PROVE Exclusive'
    BY <2>8 DEF Recreate, Exclusive
  <2>9. ASSUME NEW s \in Sessions, ReleaseRead(s) PROVE Exclusive'
    BY <2>0, <2>9 DEF ReleaseRead, Exclusive, Names, Readable
  <2>10. ASSUME NEW s \in Sessions, ReleaseUnlink(s) PROVE Exclusive'
    BY <2>0, <2>10 DEF ReleaseUnlink, Exclusive
  <2>11. ASSUME NEW s \in Sessions, Stop(s) PROVE Exclusive'
    BY <2>0, <2>11 DEF Stop, Exclusive
  <2>12. ASSUME NEW s \in Sessions, Crash(s) PROVE Exclusive'
    BY <2>0, <2>12 DEF Crash, Exclusive
  <2>13. ASSUME NEW s \in Sessions, Resume(s) PROVE Exclusive'
    BY <2>0, <2>13 DEF Resume, Exclusive
  <2> QED
    BY <2>1, <2>2, <2>3, <2>4, <2>5, <2>6, <2>7, <2>8, <2>9, <2>10, <2>11,
       <2>12, <2>13 DEF Next, Attempt, Release
<1>3. Exclusive => OneOwnerBeforeRecovery
  BY DEF Exclusive, OneOwnerBeforeRecovery, Owners, Names, Readable, Lock
<1> QED
  BY <1>1, <1>2, <1>3, TypeCorrect, PTL DEF Spec

-----------------------------------------------------------------------------
\* A lock file never names a process that is yet to start.
NotOfTheFuture == lock.by \in Sessions => lock.pid <= pid[lock.by]

LEMMA NotOfTheFutureCorrect == Spec => []NotOfTheFuture
<1> USE NobodyAssumption DEF NotOfTheFuture
<1>1. Init => NotOfTheFuture
  BY DEF Init, Absent
<1>2. TypeOK /\ NotOfTheFuture /\ [Next]_vars => NotOfTheFuture'
  <2> SUFFICES ASSUME TypeOK, NotOfTheFuture, [Next]_vars PROVE NotOfTheFuture'
    OBVIOUS
  <2> USE DEF Lock, Going, Goto, Same, At
  <2>0. /\ pid \in [Sessions -> Nat]
        /\ lock.by \in Sessions => lock.pid \in Nat
    BY DEF TypeOK, LockType, Absent
  <2>1. CASE UNCHANGED vars
    BY <2>1 DEF vars, sessionVars
  <2>2. ASSUME NEW s \in Sessions, pid' = pid, lock' \in {lock, Absent, Lock(s, TRUE), Lock(s, FALSE)}
        PROVE  NotOfTheFuture'
    BY <2>0, <2>2 DEF Absent
  <2>3. ASSUME NEW s \in Sessions, Attempt(s) PROVE NotOfTheFuture'
    BY <2>2, <2>3 DEF Attempt, Try, Create, Write, Read, Rewrite, Unlink, Recreate
  <2>4. ASSUME NEW s \in Sessions, Release(s) PROVE NotOfTheFuture'
    BY <2>2, <2>4 DEF Release, ReleaseRead, ReleaseUnlink
  <2>5. ASSUME NEW s \in Sessions, Stop(s) \/ Crash(s) PROVE NotOfTheFuture'
    BY <2>2, <2>5 DEF Stop, Crash
  <2>6. ASSUME NEW s \in Sessions, Resume(s) PROVE NotOfTheFuture'
    BY <2>0, <2>6 DEF Resume
  <2> QED
    BY <2>1, <2>3, <2>4, <2>5, <2>6 DEF Next
<1> QED
  BY <1>1, <1>2, TypeCorrect, PTL DEF Spec

\* A lock that names a running process is in use or about to be released
\* (NoAbandonedLock).
THEOREM NoAbandonedLockCorrect == Spec => []NoAbandonedLock
<1> USE NobodyAssumption DEF NoAbandonedLock, Readable, HolderRuns
<1>1. Init => NoAbandonedLock
  BY DEF Init, Absent
<1>2. TypeOK /\ NotOfTheFuture /\ NoAbandonedLock /\ [Next]_vars => NoAbandonedLock'
  <2> SUFFICES ASSUME TypeOK, NotOfTheFuture, NoAbandonedLock, [Next]_vars
               PROVE  NoAbandonedLock'
    OBVIOUS
  <2> USE DEF Lock, Going, Goto, Same, At, Acquired
  <2>0. /\ pid \in [Sessions -> Nat] /\ alive \in [Sessions -> BOOLEAN]
        /\ isOwner \in [Sessions -> BOOLEAN] /\ pc \in [Sessions -> PCs]
        /\ stopped \in [Sessions -> BOOLEAN]
        /\ releasing \in [Sessions -> {"no", "read", "unlink"}]
        /\ \A t \in Sessions :
            /\ isOwner[t] => alive[t] /\ ~stopped[t] /\ pc[t] = "idle"
            /\ pc[t] # "idle" => alive[t]
            /\ releasing[t] # "no" => alive[t] /\ stopped[t] /\ pc[t] = "idle"
    BY DEF TypeOK
  <2>a. lock.written => lock.by \in Sessions /\ lock.pid \in Nat
    BY DEF TypeOK, LockType, Absent
  <2>1. CASE UNCHANGED vars
    BY <2>1 DEF vars, sessionVars
  <2>2. ASSUME NEW s \in Sessions, Try(s) PROVE NoAbandonedLock'
    BY <2>0, <2>2 DEF Try
  <2>3. ASSUME NEW s \in Sessions, Create(s) PROVE NoAbandonedLock'
    BY <2>0, <2>3 DEF Create, Absent
  <2>4. ASSUME NEW s \in Sessions, Write(s) PROVE NoAbandonedLock'
    BY <2>0, <2>a, <2>4 DEF Write, Mine
  <2>5. ASSUME NEW s \in Sessions, Read(s) PROVE NoAbandonedLock'
    BY <2>0, <2>a, <2>5 DEF Read, Names
  <2>6. ASSUME NEW s \in Sessions, Rewrite(s) PROVE NoAbandonedLock'
    BY <2>0, <2>6 DEF Rewrite
  <2>7. ASSUME NEW s \in Sessions, Unlink(s) PROVE NoAbandonedLock'
    BY <2>7 DEF Unlink, Absent
  <2>8. ASSUME NEW s \in Sessions, Recreate(s) PROVE NoAbandonedLock'
    BY <2>0, <2>8 DEF Recreate, Absent
  <2>9. ASSUME NEW s \in Sessions, ReleaseRead(s) PROVE NoAbandonedLock'
    BY <2>0, <2>a, <2>9 DEF ReleaseRead, Names
  <2>10. ASSUME NEW s \in Sessions, ReleaseUnlink(s) PROVE NoAbandonedLock'
    BY <2>10 DEF ReleaseUnlink, Absent
  <2>11. ASSUME NEW s \in Sessions, Stop(s) PROVE NoAbandonedLock'
    BY <2>0, <2>a, <2>11 DEF Stop
  <2>12. ASSUME NEW s \in Sessions, Crash(s) PROVE NoAbandonedLock'
    BY <2>0, <2>a, <2>12 DEF Crash
  <2>13. ASSUME NEW s \in Sessions, Resume(s) PROVE NoAbandonedLock'
    <3>1. lock' = lock /\ isOwner' = isOwner /\ releasing' = releasing
      BY <2>13 DEF Resume
    <3>2. CASE lock.by = s /\ lock.written
      <4>1. pid'[s] = pid[s] + 1
        BY <2>0, <2>13 DEF Resume
      <4> QED
        BY <3>1, <3>2, <4>1, <2>0, <2>a DEF NotOfTheFuture
    <3>3. CASE lock.by # s \/ ~lock.written
      BY <2>0, <2>a, <2>13, <3>1, <3>3 DEF Resume
    <3> QED
      BY <3>2, <3>3
  <2> QED
    BY <2>1, <2>2, <2>3, <2>4, <2>5, <2>6, <2>7, <2>8, <2>9, <2>10, <2>11,
       <2>12, <2>13 DEF Next, Attempt, Release
<1> QED
  BY <1>1, <1>2, TypeCorrect, NotOfTheFutureCorrect, PTL DEF Spec
================================================================================
