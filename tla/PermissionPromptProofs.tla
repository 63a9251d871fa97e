----------------------- MODULE PermissionPromptProofs -----------------------
(***************************************************************************)
(* Theorems about PermissionPrompt for any number of requests.             *)
(*                                                                         *)
(* The argument for the dialogs is that the screen shows the first of the  *)
(* queue or a request that has left it: requests are numbered as they are  *)
(* pushed, a push never gets a number below one in the queue, and so the   *)
(* key that answers a queued request drops that request and no other.      *)
(***************************************************************************)
EXTENDS PermissionPrompt, FiniteSetTheorems, TLAPS

\* No request has a number that a later push could be given
Numbered ==
    /\ \A r \in Requests : place[r] <= Cardinality({s \in Requests : place[s] > 0})
    /\ \A r, s \in queue : place[r] = place[s] => r = s

\* Every part of the queue has a first request
Ordered ==
    \A S \in SUBSET queue : S # {} => \E r \in S : \A s \in S : place[r] <= place[s]

\* The dialog on the screen is the first of the queue, or gone from it
ShownIsHead ==
    /\ shown # Nobody => place[shown] > 0
    /\ shown \in queue => \A s \in queue : place[shown] <= place[s]

\* Only requests that were decided are shown as approved
Ticked == \A r \in checkmark : stage[r] = "settled"

IInv ==
    /\ TypeOK /\ Ticked /\ Numbered /\ Ordered /\ ShownIsHead
    /\ NothingLingers /\ DialogIsFloor /\ AbortEndsWaits

\* Head is what its definition says whenever there is something in the queue
LEMMA HeadFacts ==
    ASSUME IInv, queue # {}
    PROVE  /\ Head \in queue /\ \A s \in queue : place[Head] <= place[s]
           /\ shown \in queue => Head = shown
<1>1. queue \subseteq Requests /\ place \in [Requests -> Nat]
  BY DEF IInv, TypeOK
<1>2. \E r \in queue : \A s \in queue : place[r] <= place[s]
  BY DEF IInv, Ordered
<1>3. Head \in queue /\ \A s \in queue : place[Head] <= place[s]
  BY <1>2 DEF Head
<1>4. ASSUME shown \in queue PROVE Head = shown
  <2>1. place[shown] <= place[Head] /\ place[Head] <= place[shown]
    BY <1>3, <1>4 DEF IInv, ShownIsHead
  <2>2. place[shown] = place[Head]
    BY <1>1, <1>3, <1>4, <2>1
  <2> QED
    BY <1>3, <1>4, <2>2 DEF IInv, Numbered
<1> QED
  BY <1>3, <1>4

-----------------------------------------------------------------------------
(* What a step does to the order of the queue                              *)

\* Requests only leave the queue
LEMMA QueueShrinks ==
    ASSUME IInv, queue' \subseteq queue, place' = place, shown' = shown
    PROVE  Numbered' /\ Ordered' /\ ShownIsHead'
<1>1. Numbered'
  BY DEF IInv, Numbered
<1>2. Ordered'
  BY DEF IInv, Ordered
<1>3. ShownIsHead'
  BY DEF IInv, ShownIsHead
<1> QED
  BY <1>1, <1>2, <1>3

LEMMA QueueRendered ==
    ASSUME IInv, Render
    PROVE  Numbered' /\ Ordered' /\ ShownIsHead'
<1>1. queue' = queue /\ place' = place /\ shown' = Head
  BY DEF Render
<1>2. Numbered' /\ Ordered'
  BY <1>1 DEF IInv, Numbered, Ordered
<1>3. CASE queue = {}
  BY <1>1, <1>2, <1>3 DEF ShownIsHead, Head
<1>4. CASE queue # {}
  <2>1. Head \in queue /\ \A s \in queue : place[Head] <= place[s]
    BY <1>4, HeadFacts
  <2> QED
    BY <1>1, <1>2, <2>1 DEF IInv, TypeOK, ShownIsHead
<1> QED
  BY <1>2, <1>3, <1>4

\* A request is pushed behind all others
LEMMA QueueGrows ==
    ASSUME IInv, NEW r \in Requests, stage[r] \in {"checking", "automated"}, OpenDialog(r)
    PROVE  /\ Numbered' /\ Ordered' /\ ShownIsHead'
           /\ place' \in [Requests -> Nat] /\ place'[r] > 0
           /\ \A s \in Requests \ {r} : place'[s] = place[s]
<1> DEFINE Pushed == {s \in Requests : place[s] > 0}
           n == Cardinality(Pushed)
<1>1. place \in [Requests -> Nat] /\ queue \subseteq Requests /\ shown \in Requests \cup {Nobody}
      /\ place[r] = 0 /\ r \notin queue
  BY DEF IInv, TypeOK
<1>2. IsFiniteSet(Pushed) /\ n \in Nat
  BY RequestsAssumption, FS_Subset, FS_CardinalityType
<1>3. place' = [place EXCEPT ![r] = n + 1] /\ queue' = queue \cup {r} /\ shown' = shown
  BY DEF OpenDialog
<1>4. place' \in [Requests -> Nat] /\ place'[r] = n + 1
      /\ \A s \in Requests \ {r} : place'[s] = place[s]
  BY <1>1, <1>2, <1>3
<1>5. {s \in Requests : place'[s] > 0} = Pushed \cup {r}
  BY <1>1, <1>2, <1>4
<1>6. Cardinality({s \in Requests : place'[s] > 0}) = n + 1
  <2>1. r \notin Pushed
    BY <1>1
  <2>2. Cardinality(Pushed \cup {r}) = n + 1
    BY <1>2, <2>1, FS_AddElement
  <2> QED
    BY <1>5, <2>2
<1>7. \A s \in Requests : place[s] <= n
  BY DEF IInv, Numbered
<1>8. \A s \in queue : s # r /\ place'[s] = place[s] /\ place[s] \in Nat /\ place[s] <= n
  BY <1>1, <1>4, <1>7
<1>9. Numbered'
  <2>1. \A s \in Requests : place'[s] <= n + 1
    BY <1>1, <1>2, <1>4, <1>7
  <2>2. ASSUME NEW s \in queue', NEW t \in queue', place'[s] = place'[t] PROVE s = t
    <3>1. CASE s = r \/ t = r
      BY <1>2, <1>3, <1>4, <1>8, <2>2, <3>1
    <3>2. CASE s # r /\ t # r
      BY <1>3, <1>8, <2>2, <3>2 DEF IInv, Numbered
    <3> QED
      BY <3>1, <3>2
  <2> QED
    BY <1>6, <2>1, <2>2 DEF Numbered
<1>10. Ordered'
  <2> SUFFICES ASSUME NEW S \in SUBSET queue', S # {}
               PROVE  \E s \in S : \A t \in S : place'[s] <= place'[t]
    BY DEF Ordered
  <2>1. CASE S = {r}
    BY <1>2, <1>4, <2>1
  <2>2. CASE S # {r}
    <3>1. S \ {r} \in SUBSET queue /\ S \ {r} # {}
      BY <1>3, <2>2
    <3>2. PICK s \in S \ {r} : \A t \in S \ {r} : place[s] <= place[t]
      BY <3>1 DEF IInv, Ordered
    <3>3. \A t \in S : place'[s] <= place'[t]
      BY <1>2, <1>4, <1>8, <3>1, <3>2
    <3> QED
      BY <3>2, <3>3
  <2> QED
    BY <2>1, <2>2
<1>11. ShownIsHead'
  <2>1. shown # Nobody => shown # r /\ place'[shown] > 0
    BY <1>1, <1>4 DEF IInv, ShownIsHead
  <2>2. ASSUME shown \in queue', NEW s \in queue' PROVE place'[shown] <= place'[s]
    <3>1. shown \in queue
      BY <1>1, <1>3, <2>1, <2>2, NobodyAssumption
    <3> QED
      BY <1>2, <1>3, <1>4, <1>8, <2>2, <3>1 DEF IInv, ShownIsHead
  <2> QED
    BY <1>3, <2>1, <2>2 DEF ShownIsHead
<1> QED
  BY <1>2, <1>4, <1>9, <1>10, <1>11

-----------------------------------------------------------------------------
(* What a decision does                                                    *)

\* The other effects of a decision settle requests at the leader, and remove
\* dialogs of settled requests only.
LEMMA EffectFacts ==
    ASSUME IInv, NEW effect, NEW st \in [Requests -> Stages],
           NEW q \in SUBSET queue, NEW ch \in SUBSET channel,
           \A r \in Requests : st[r] \in {stage[r], "settled"},
           Effect(effect, st, q, ch), deaf' = deaf
    PROVE  /\ stage' \in [Requests -> Stages]
           /\ \A r \in Requests :
                 stage'[r] = st[r] \/ (stage[r] = "leader" /\ stage'[r] = "settled")
           /\ aborted' \in BOOLEAN /\ recheckDue' \in BOOLEAN
           /\ channel' \subseteq ch /\ checkmark' \subseteq checkmark
           /\ queue' \subseteq q /\ q \ checkmark \subseteq queue'
           /\ \A r \in queue' : r \in checkmark => r \in checkmark'
           /\ AbortEndsWaits'
<1>1. aborted \in BOOLEAN /\ recheckDue \in BOOLEAN
  BY DEF IInv, TypeOK
<1>2. CASE effect = "abort" /\ ~aborted
  <2>1. stage' = [r \in Requests |-> IF st[r] = "leader" THEN "settled" ELSE st[r]]
        /\ aborted' = TRUE /\ recheckDue' = (recheckDue \/ effect = "persist")
        /\ channel' = {} /\ queue' = q \ checkmark /\ checkmark' = {}
    BY <1>2 DEF Effect
  <2>2. \A r \in Requests : st[r] = "leader" => stage[r] = "leader"
    BY Zenon
  <2>3. stage' \in [Requests -> Stages]
    BY <2>1 DEF Stages
  <2> QED
    BY <1>1, <2>1, <2>2, <2>3 DEF AbortEndsWaits
<1>3. CASE ~(effect = "abort" /\ ~aborted)
  <2>1. stage' = st /\ aborted' = aborted /\ recheckDue' = (recheckDue \/ effect = "persist")
        /\ channel' = ch /\ queue' = q /\ checkmark' = checkmark
    BY <1>1, <1>3 DEF Effect
  <2>2. AbortEndsWaits'
    BY <2>1 DEF IInv, AbortEndsWaits
  <2> QED
    BY <1>1, <2>1, <2>2
<1> QED
  BY <1>2, <1>3

\* A step that settles some requests, each with its prompt, its subscription and
\* its dialog gone, and otherwise removes from the queue what is not open.
LEMMA Decision ==
    ASSUME IInv, NEW effect, NEW st \in [Requests -> Stages],
           NEW q \in SUBSET queue, NEW ch \in SUBSET channel,
           \A r \in Requests : st[r] \in {stage[r], "settled"},
           Effect(effect, st, q, ch),
           UNCHANGED <<mode, place, shown, deaf>>, held' \in BOOLEAN,
           remote' \subseteq remote, replies' \subseteq replies, hooks' \subseteq hooks,
           classifier' \subseteq classifier, rechecking' \subseteq rechecking,
           \A r \in Requests : st[r] = "settled" /\ stage[r] # "settled" =>
               r \notin remote' /\ r \notin ch /\ r \notin q,
           harm \subseteq harm', harm' \subseteq {"cleared", "stale"},
           harm' = {} => \A r \in Requests : st[r] = "open" => r \in q
    PROVE  IInv'
<1>1. /\ stage' \in [Requests -> Stages]
      /\ \A r \in Requests :
                 stage'[r] = st[r] \/ (stage[r] = "leader" /\ stage'[r] = "settled")
      /\ aborted' \in BOOLEAN /\ recheckDue' \in BOOLEAN
      /\ channel' \subseteq ch /\ checkmark' \subseteq checkmark
      /\ queue' \subseteq q /\ q \ checkmark \subseteq queue'
      /\ \A r \in queue' : r \in checkmark => r \in checkmark'
      /\ AbortEndsWaits'
  BY EffectFacts
<1>2. Numbered' /\ Ordered' /\ ShownIsHead'
  BY <1>1, QueueShrinks
<1>3. \A r \in Requests :
          /\ stage[r] = "settled" => stage'[r] = "settled"
          /\ stage[r] = "open" => stage'[r] \in {"open", "settled"}
          /\ stage[r] = "leader" => stage'[r] \in {"leader", "settled"}
          /\ stage'[r] = "open" => st[r] = "open" /\ stage[r] = "open"
          /\ stage'[r] = "settled" /\ stage[r] # "settled" =>
                 st[r] = "settled" \/ stage[r] = "leader"
  BY <1>1 DEF Stages
<1>4. TypeOK'
  <2> DEFINE Sets == {queue, remote, replies, channel, hooks, classifier, checkmark, rechecking}
  <2>1. /\ queue' \subseteq queue /\ channel' \subseteq channel
    BY <1>1
  <2>2. \A S \in Sets : \A r \in S :
            r \in Requests /\ stage[r] \in {"open", "settled"} /\ place[r] > 0
    BY DEF IInv, TypeOK
  <2>3. \A S \in Sets : \A r \in S :
            r \in Requests /\ stage'[r] \in {"open", "settled"} /\ place'[r] > 0
    BY <1>3, <2>2
  <2>4. \A S \in {queue', remote', replies', channel', hooks', classifier', checkmark',
                  rechecking'} : \E T \in Sets : S \subseteq T
    BY <1>1, <2>1
  <2>5. \A S \in {queue', remote', replies', channel', hooks', classifier', checkmark',
                  rechecking'} : \A r \in S :
            r \in Requests /\ stage'[r] \in {"open", "settled"} /\ place'[r] > 0
    BY <2>3, <2>4
  <2>6. \A r \in Requests : place'[r] > 0 => stage'[r] \in {"open", "settled"}
    BY <1>3 DEF IInv, TypeOK
  <2>7. \A r \in deaf' : r \in Requests /\ stage'[r] \in {"leader", "settled"}
    BY <1>3 DEF IInv, TypeOK
  <2> QED
    BY <1>1, <2>5, <2>6, <2>7 DEF IInv, TypeOK
<1>5. Ticked'
  BY <1>1, <1>3 DEF IInv, Ticked, TypeOK
<1>6. NothingLingers'
  <2> SUFFICES ASSUME NEW r \in Requests, stage'[r] = "settled"
               PROVE  r \notin remote' /\ r \notin channel' /\ (r \in queue' => r \in checkmark')
    BY DEF NothingLingers
  <2>1. CASE stage[r] = "settled"
    BY <1>1, <2>1 DEF IInv, NothingLingers
  <2>2. CASE st[r] = "settled" /\ stage[r] # "settled"
    BY <1>1, <2>2
  <2>3. CASE stage[r] = "leader"
    <3>1. r \notin remote /\ r \notin channel /\ r \notin queue
      BY <2>3 DEF IInv, TypeOK
    <3> QED
      BY <1>1, <3>1
  <2> QED
    BY <1>3, <2>1, <2>2, <2>3
<1>7. DialogIsFloor'
  <2> SUFFICES ASSUME harm' = {}, NEW r \in Requests, stage'[r] = "open"
               PROVE  r \in queue'
    BY DEF DialogIsFloor, Open
  <2>1. st[r] = "open" /\ r \in q /\ stage[r] = "open"
    BY <1>3
  <2>2. r \notin checkmark
    BY <2>1 DEF IInv, Ticked
  <2> QED
    BY <1>1, <2>1, <2>2
<1> QED
  BY <1>1, <1>2, <1>4, <1>5, <1>6, <1>7 DEF IInv

-----------------------------------------------------------------------------
(* Every step keeps the invariant                                          *)

LEMMA SettledFacts ==
    ASSUME IInv, NEW r \in Requests
    PROVE  /\ Settled(r) \in [Requests -> Stages]
           /\ Settled(r)[r] = "settled"
           /\ \A s \in Requests : s # r => Settled(r)[s] = stage[s]
           /\ \A s \in Requests : Settled(r)[s] \in {stage[s], "settled"}
           /\ stage \in [Requests -> Stages]
           /\ queue \subseteq Requests
           /\ held \in BOOLEAN /\ harm \subseteq {"cleared", "stale"}
BY DEF IInv, TypeOK, Settled, Stages

\* A request that is settled before its dialog is in no queue
LEMMA ReturnsKeeps ==
    ASSUME IInv, NEW r \in Requests, NEW effect, Returns(r, effect),
           stage[r] \in {"new", "checking", "automated", "leader"}
    PROVE  IInv'
<1> DEFINE st == Settled(r)
<1>1. Effect(effect, st, queue, channel) /\ UNCHANGED <<mode, place, shown, deaf>>
      /\ held' \in BOOLEAN /\ harm' = harm /\ remote' = remote /\ replies' = replies
      /\ hooks' = hooks /\ classifier' = classifier /\ rechecking' = rechecking
  BY SettledFacts DEF Returns
<1>2. r \notin remote /\ r \notin channel /\ r \notin queue
  BY DEF IInv, TypeOK
<1>3. harm' = {} => \A s \in Requests : st[s] = "open" => s \in queue
  BY <1>1, SettledFacts DEF IInv, DialogIsFloor, Open
<1> HIDE DEF st
<1> QED
  BY <1>1, <1>2, <1>3, SettledFacts, Decision DEF st

LEMMA MovesKeeps ==
    ASSUME IInv, NEW r \in Requests, NEW to \in {"checking", "automated"}, Moves(r, to),
           stage[r] \in {"new", "checking"}, UNCHANGED deaf
    PROVE  IInv'
<1>1. UNCHANGED <<mode, dialogVars, raceVars, aborted, held, harm, deaf>>
      /\ stage' = [stage EXCEPT ![r] = to]
  BY DEF Moves
<1>2. TypeOK' /\ Ticked'
  BY <1>1 DEF IInv, TypeOK, Ticked, dialogVars, raceVars, Stages
<1>3. Numbered' /\ Ordered' /\ ShownIsHead'
  BY <1>1, QueueShrinks DEF dialogVars
<1>4. NothingLingers' /\ DialogIsFloor' /\ AbortEndsWaits'
  BY <1>1 DEF IInv, TypeOK, NothingLingers, DialogIsFloor, Open, AbortEndsWaits, dialogVars,
              raceVars
<1> QED
  BY <1>2, <1>3, <1>4 DEF IInv

LEMMA OpenKeeps ==
    ASSUME IInv, NEW r \in Requests, stage[r] \in {"checking", "automated"}, OpenDialog(r)
    PROVE  IInv'
<1>1. /\ Numbered' /\ Ordered' /\ ShownIsHead'
      /\ place' \in [Requests -> Nat] /\ place'[r] > 0
      /\ \A s \in Requests \ {r} : place'[s] = place[s]
  BY QueueGrows
<1>2. /\ stage' = [stage EXCEPT ![r] = "open"] /\ queue' = queue \cup {r}
      /\ remote' \subseteq remote \cup {r} /\ channel' \subseteq channel \cup {r}
      /\ hooks' \subseteq hooks \cup {r} /\ classifier' \subseteq classifier \cup {r}
      /\ UNCHANGED <<mode, shown, checkmark, replies, recheckDue, rechecking, aborted,
                     held, deaf, harm>>
  BY DEF OpenDialog, turnVars
<1>3. stage' \in [Requests -> Stages] /\ stage'[r] = "open"
      /\ \A s \in Requests \ {r} : stage'[s] = stage[s]
  BY <1>2 DEF IInv, TypeOK, Stages
<1>4. TypeOK'
  <2> DEFINE Sets == {queue, remote, replies, channel, hooks, classifier, checkmark, rechecking}
  <2>1. \A S \in Sets : \A s \in S :
            s \in Requests /\ stage[s] \in {"open", "settled"} /\ place[s] > 0
    BY DEF IInv, TypeOK
  <2>2. \A S \in Sets : \A s \in S \cup {r} :
            s \in Requests /\ stage'[s] \in {"open", "settled"} /\ place'[s] > 0
    BY <1>1, <1>3, <2>1
  <2>3. \A S \in {queue', remote', replies', channel', hooks', classifier', checkmark',
                  rechecking'} : \E T \in Sets : S \subseteq T \cup {r}
    BY <1>2
  <2>4. \A S \in {queue', remote', replies', channel', hooks', classifier', checkmark',
                  rechecking'} : \A s \in S :
            s \in Requests /\ stage'[s] \in {"open", "settled"} /\ place'[s] > 0
    BY <2>2, <2>3
  <2>5. \A s \in Requests : place'[s] > 0 => stage'[s] \in {"open", "settled"}
    BY <1>1, <1>3 DEF IInv, TypeOK
  <2>6. \A s \in deaf' : s \in Requests /\ stage'[s] \in {"leader", "settled"}
    BY <1>2, <1>3 DEF IInv, TypeOK
  <2> QED
    BY <1>1, <1>2, <1>3, <2>4, <2>5, <2>6 DEF IInv, TypeOK
<1>5. Ticked'
  BY <1>2, <1>3 DEF IInv, Ticked, TypeOK
<1>6. NothingLingers'
  BY <1>2, <1>3 DEF IInv, NothingLingers
<1>7. DialogIsFloor' /\ AbortEndsWaits'
  BY <1>2, <1>3 DEF IInv, DialogIsFloor, Open, AbortEndsWaits
<1> QED
  BY <1>1, <1>4, <1>5, <1>6, <1>7 DEF IInv

\* A swarm worker asks its leader
LEMMA LeaderKeeps ==
    ASSUME IInv, NEW r \in Requests, stage[r] = "automated", Moves(r, "leader"),
           deaf' = IF aborted THEN deaf \cup {r} ELSE deaf
    PROVE  IInv'
<1>1. UNCHANGED <<mode, dialogVars, raceVars, aborted, held, harm>>
      /\ stage' = [stage EXCEPT ![r] = "leader"]
  BY DEF Moves
<1>2. TypeOK' /\ Ticked'
  BY <1>1 DEF IInv, TypeOK, Ticked, dialogVars, raceVars, Stages
<1>3. Numbered' /\ Ordered' /\ ShownIsHead'
  BY <1>1, QueueShrinks DEF dialogVars
<1>4. NothingLingers' /\ DialogIsFloor' /\ AbortEndsWaits'
  BY <1>1 DEF IInv, TypeOK, NothingLingers, DialogIsFloor, Open, AbortEndsWaits, dialogVars,
              raceVars
<1> QED
  BY <1>2, <1>3, <1>4 DEF IInv

LEMMA PrepareKeeps ==
    ASSUME IInv, NEW r \in Requests, Prepare(r) \/ LeaderAnswers(r)
    PROVE  IInv'
<1>1. CASE Ask(r)
  BY <1>1, ReturnsKeeps, MovesKeeps DEF Ask
<1>2. CASE Checked(r)
  BY <1>2, ReturnsKeeps, MovesKeeps, OpenKeeps DEF Checked
<1>3. CASE Automated(r)
  BY <1>3, ReturnsKeeps DEF Automated
<1>4. CASE Undecided(r)
  BY <1>4, ReturnsKeeps, LeaderKeeps, OpenKeeps DEF Undecided
<1>5. CASE LeaderAnswers(r)
  BY <1>5, ReturnsKeeps DEF LeaderAnswers
<1> QED
  BY <1>1, <1>2, <1>3, <1>4, <1>5 DEF Prepare

\* A racer that claims an open request takes its dialog with it
LEMMA WinsKeeps ==
    ASSUME IInv, NEW r \in Requests, NEW effect, NEW q \in SUBSET queue, Open(r),
           Wins(r, effect, q), r \notin q,
           UNCHANGED <<mode, place, shown, deaf>>, held' \in BOOLEAN,
           replies' \subseteq replies, hooks' \subseteq hooks,
           classifier' \subseteq classifier, rechecking' \subseteq rechecking,
           harm \subseteq harm', harm' \subseteq {"cleared", "stale"},
           harm' = {} => \A s \in Requests : s # r /\ Open(s) => s \in q
    PROVE  IInv'
<1> DEFINE st == Settled(r)
           ch == channel \ {r}
<1>1. Effect(effect, st, q, ch) /\ remote' = remote \ {r}
  BY DEF Wins
<1>2. \A s \in Requests : st[s] = "settled" /\ stage[s] # "settled" =>
          s \notin remote' /\ s \notin ch /\ s \notin q
  BY <1>1, SettledFacts
<1>3. harm' = {} => \A s \in Requests : st[s] = "open" => s \in q
  BY SettledFacts DEF Open
<1>4. st \in [Requests -> Stages] /\ \A s \in Requests : st[s] \in {stage[s], "settled"}
  BY SettledFacts
<1>5. ch \in SUBSET channel /\ remote' \subseteq remote
  BY <1>1
<1> HIDE DEF st, ch
<1> QED
  BY <1>1, <1>2, <1>3, <1>4, <1>5, Decision

\* One that comes too late removes no dialog of an open request
LEMMA LosesKeeps ==
    ASSUME IInv, NEW effect, NEW q \in SUBSET queue, Loses(effect, q),
           UNCHANGED <<mode, place, shown, deaf>>, held' \in BOOLEAN,
           replies' \subseteq replies, hooks' \subseteq hooks,
           classifier' \subseteq classifier, rechecking' \subseteq rechecking,
           harm \subseteq harm', harm' \subseteq {"cleared", "stale"},
           harm' = {} => \A s \in Requests : Open(s) => s \in q
    PROVE  IInv'
<1>1. Effect(effect, stage, q, channel) /\ remote' = remote
  BY DEF Loses
<1>2. stage \in [Requests -> Stages]
  BY DEF IInv, TypeOK
<1>3. harm' = {} => \A s \in Requests : stage[s] = "open" => s \in q
  BY DEF Open
<1> QED
  BY <1>1, <1>2, <1>3, Decision

\* As long as nobody was harmed, the open requests are in the queue
LEMMA OpenQueued ==
    ASSUME IInv
    PROVE  /\ held \in BOOLEAN /\ harm \subseteq {"cleared", "stale"}
           /\ harm = {} => \A s \in Requests : Open(s) => s \in queue
BY DEF IInv, TypeOK, DialogIsFloor

LEMMA UserAnswersKeeps ==
    ASSUME IInv, NEW r \in Requests, UserAnswers(r)
    PROVE  IInv'
<1> DEFINE q == queue \ {Head}
<1>1. /\ shown = r /\ UNCHANGED <<mode, place, shown, deaf>> /\ held' \in BOOLEAN
      /\ replies' = replies /\ hooks' = hooks /\ classifier' = classifier
      /\ rechecking' = rechecking
      /\ harm' = harm \cup {h \in {"stale"} : Head # r /\ \E s \in queue : s = Head /\ Open(s)}
  BY OpenQueued DEF UserAnswers, Rest
<1>2. harm \subseteq harm' /\ harm' \subseteq {"cleared", "stale"}
  BY <1>1, OpenQueued
<1>3. q \in SUBSET queue /\ r \notin q
  BY <1>1, HeadFacts
<1>4. ASSUME harm' = {}, NEW s \in Requests, Open(s), s # r PROVE s \in q
  <2>1. harm = {} /\ s \in queue
    BY <1>1, <1>4, OpenQueued
  <2>2. s # Head
    BY <1>1, <1>4, <2>1
  <2> QED
    BY <2>1, <2>2
<1>5. CASE Open(r)
  <2>1. PICK effect \in Effects : Wins(r, effect, q)
    BY <1>5 DEF UserAnswers
  <2> HIDE DEF q
  <2> QED
    BY <1>1, <1>2, <1>3, <1>4, <1>5, <2>1, WinsKeeps
<1>6. CASE ~Open(r)
  <2>1. Loses("none", q)
    BY <1>6 DEF UserAnswers
  <2>2. harm' = {} => \A s \in Requests : Open(s) => s \in q
    BY <1>4, <1>6
  <2> HIDE DEF q
  <2> QED
    BY <1>1, <1>2, <1>3, <2>1, <2>2, LosesKeeps
<1> QED
  BY <1>5, <1>6

\* The other racers take their own dialog
LEMMA RacersKeep ==
    ASSUME IInv, NEW r \in Requests,
           BridgeResponse(r) \/ ChannelAnswers(r) \/ HookDecides(r) \/ Recheck(r)
    PROVE  IInv'
<1> DEFINE q == queue \ {r}
<1>1. /\ UNCHANGED <<mode, place, shown, deaf, harm>> /\ held' \in BOOLEAN
      /\ replies' \subseteq replies /\ hooks' \subseteq hooks
      /\ classifier' = classifier /\ rechecking' \subseteq rechecking
  BY OpenQueued DEF BridgeResponse, ChannelAnswers, HookDecides, Recheck, Rest
<1>2. \/ Open(r) /\ \E effect : Wins(r, effect, q)
      \/ \E effect : Loses(effect, queue)
  BY DEF BridgeResponse, ChannelAnswers, HookDecides, Recheck
<1>3. harm' \subseteq {"cleared", "stale"}
      /\ (harm' = {} => \A s \in Requests : Open(s) => s \in queue)
      /\ (harm' = {} => \A s \in Requests : s # r /\ Open(s) => s \in q)
  BY <1>1, OpenQueued
<1>4. q \in SUBSET queue /\ r \notin q
  OBVIOUS
<1> HIDE DEF q
<1>5. CASE Open(r) /\ \E effect : Wins(r, effect, q)
  BY <1>1, <1>3, <1>4, <1>5, WinsKeeps
<1>6. CASE \E effect : Loses(effect, queue)
  BY <1>1, <1>3, <1>6, LosesKeeps
<1> QED
  BY <1>2, <1>5, <1>6

LEMMA CancelKeeps ==
    ASSUME IInv, Cancel
    PROVE  IInv'
<1> DEFINE Cleared == {h \in {"cleared"} : \E r \in queue : Open(r) /\ r # shown}
<1>1. /\ UNCHANGED <<mode, place, deaf, shown, replies, hooks, classifier, rechecking>>
      /\ held' \in BOOLEAN /\ harm' = harm \cup Cleared
  BY DEF Cancel
<1>2. harm \subseteq harm' /\ harm' \subseteq {"cleared", "stale"}
  BY <1>1, OpenQueued
<1>3. ASSUME harm' = {}, NEW s \in Requests, Open(s) PROVE s = shown
  <2>1. harm = {} /\ s \in queue
    BY <1>1, <1>3, OpenQueued
  <2> QED
    BY <1>1, <1>3, <2>1
<1>4. Nobody \notin Requests /\ {} \in SUBSET queue /\ shown \in Requests \cup {Nobody}
  BY NobodyAssumption DEF IInv, TypeOK
<1> HIDE DEF Cleared
<1>5. CASE shown # Nobody /\ Open(shown) /\ Wins(shown, "abort", {})
  <2>1. shown \in Requests /\ shown \notin {}
    BY <1>4, <1>5
  <2>2. harm' = {} => \A s \in Requests : s # shown /\ Open(s) => s \in {}
    BY <1>3
  <2> QED
    BY <1>1, <1>2, <1>4, <1>5, <2>1, <2>2, WinsKeeps
<1>6. CASE (Loses("abort", {}) /\ shown = Nobody) \/ (Loses("none", {}) /\ ~Open(shown))
  <2>1. harm' = {} => \A s \in Requests : Open(s) => s \in {}
    BY <1>3, <1>4, <1>6
  <2> QED
    BY <1>1, <1>2, <1>4, <1>6, <2>1, LosesKeeps
<1>7. \/ shown # Nobody /\ Open(shown) /\ Wins(shown, "abort", {})
      \/ shown # Nobody /\ ~Open(shown) /\ Loses("none", {})
      \/ shown = Nobody /\ Loses("abort", {})
  BY Zenon DEF Cancel
<1> QED
  BY <1>5, <1>6, <1>7

LEMMA TurnAbortsKeeps ==
    ASSUME IInv, TurnAborts
    PROVE  IInv'
<1>1. /\ UNCHANGED <<mode, place, shown, deaf, harm, replies, hooks, classifier, rechecking>>
      /\ held' \in BOOLEAN /\ Loses("abort", queue)
  BY OpenQueued DEF TurnAborts, Rest
<1> QED
  BY <1>1, OpenQueued, LosesKeeps

\* Steps that decide nothing
LEMMA ScreenKeeps ==
    ASSUME IInv,
           Render \/ ModeChanges \/ RecheckQueue \/ \E r \in Requests : RemoteAnswers(r)
    PROVE  IInv'
<1>1. /\ UNCHANGED <<mode, stage, queue, place, checkmark, channel, hooks, classifier,
                     aborted, held, deaf, harm>>
      /\ remote' \subseteq remote /\ replies' \subseteq replies \cup remote
      /\ rechecking' \subseteq rechecking \cup queue
      /\ recheckDue' \in {recheckDue, TRUE, FALSE}
  BY DEF Render, ModeChanges, RecheckQueue, RemoteAnswers, raceVars, turnVars, dialogVars
<1>2. shown' \in Requests \cup {Nobody} /\ Numbered' /\ Ordered' /\ ShownIsHead'
  <2>1. CASE Render
    <3>1. Head \in Requests \cup {Nobody}
      BY HeadFacts DEF Head, IInv, TypeOK
    <3> QED
      BY <2>1, <3>1, QueueRendered DEF Render
  <2>2. CASE ~Render
    <3>1. shown' = shown
      BY <2>2 DEF ModeChanges, RecheckQueue, RemoteAnswers, dialogVars
    <3> QED
      BY <1>1, <3>1, QueueShrinks DEF IInv, TypeOK
  <2> QED
    BY <2>1, <2>2
<1>3. TypeOK'
  BY <1>1, <1>2 DEF IInv, TypeOK
<1>4. Ticked' /\ NothingLingers' /\ DialogIsFloor' /\ AbortEndsWaits'
  BY <1>1 DEF IInv, Ticked, NothingLingers, DialogIsFloor, Open, AbortEndsWaits
<1> QED
  BY <1>2, <1>3, <1>4 DEF IInv

LEMMA CheckmarkKeeps ==
    ASSUME IInv, NEW r \in Requests, ClassifierDecides(r) \/ CheckmarkOver(r)
    PROVE  IInv'
<1>1. /\ UNCHANGED <<mode, place, shown, replies, hooks, recheckDue, rechecking, aborted,
                     held, deaf, harm>>
      /\ queue' \subseteq queue /\ remote' \subseteq remote /\ channel' \subseteq channel
      /\ classifier' \subseteq classifier
  BY DEF ClassifierDecides, CheckmarkOver, raceVars, turnVars
<1>2. Numbered' /\ Ordered' /\ ShownIsHead'
  BY <1>1, QueueShrinks
<1>3. CASE stage' = stage /\ checkmark' \subseteq checkmark /\ queue \ queue' \subseteq checkmark
           /\ \A s \in queue' : s \in checkmark => s \in checkmark'
  BY <1>1, <1>2, <1>3 DEF IInv, TypeOK, Ticked, NothingLingers, DialogIsFloor, Open,
                          AbortEndsWaits
<1>4. CASE /\ Open(r) /\ stage' = Settled(r) /\ checkmark' = checkmark \cup {r}
           /\ queue' = queue /\ r \in classifier
           /\ remote' = remote \ {r} /\ channel' = channel \ {r}
  <2>1. /\ stage' \in [Requests -> Stages] /\ stage'[r] = "settled"
        /\ \A s \in Requests : s # r => stage'[s] = stage[s]
    BY <1>4, SettledFacts
  <2>2. TypeOK'
    <3>1. \A s \in Requests : stage[s] \in {"open", "settled"} => stage'[s] \in {"open", "settled"}
      BY <2>1
    <3>2. \A s \in Requests : stage[s] \in {"leader", "settled"} => stage'[s] \in {"leader", "settled"}
      BY <1>4, <2>1 DEF Open
    <3>3. r \in Requests /\ place[r] > 0
      BY <1>4 DEF IInv, TypeOK
    <3> QED
      BY <1>1, <1>4, <2>1, <3>1, <3>2, <3>3 DEF IInv, TypeOK
  <2>3. Ticked' /\ NothingLingers' /\ DialogIsFloor' /\ AbortEndsWaits'
    BY <1>1, <1>4, <2>1 DEF IInv, Ticked, NothingLingers, DialogIsFloor, Open, AbortEndsWaits,
                            TypeOK
  <2> QED
    BY <1>2, <2>2, <2>3 DEF IInv
<1> QED
  BY <1>3, <1>4 DEF ClassifierDecides, CheckmarkOver, raceVars

LEMMA NextKeeps ==
    ASSUME IInv, Next
    PROVE  IInv'
<1>1. CASE \E r \in Requests : Prepare(r) \/ LeaderAnswers(r)
  BY <1>1, PrepareKeeps
<1>2. CASE \E r \in Requests : Race(r)
  BY <1>2, UserAnswersKeeps, RacersKeep, ScreenKeeps, CheckmarkKeeps DEF Race
<1>3. CASE ModeChanges \/ RecheckQueue \/ Render
  BY <1>3, ScreenKeeps
<1>4. CASE Cancel \/ TurnAborts
  BY <1>4, CancelKeeps, TurnAbortsKeeps
<1> QED
  BY <1>1, <1>2, <1>3, <1>4 DEF Next

LEMMA StutterKeeps ==
    ASSUME IInv, UNCHANGED vars
    PROVE  IInv'
BY DEF vars, dialogVars, raceVars, turnVars, IInv, TypeOK, Ticked, Numbered, Ordered,
       ShownIsHead, NothingLingers, DialogIsFloor, Open, AbortEndsWaits

LEMMA InitHolds ==
    ASSUME Init
    PROVE  IInv
<1>1. Numbered
  <2>1. {s \in Requests : place[s] > 0} = {} /\ queue = {}
    BY DEF Init
  <2> QED
    BY <2>1, FS_EmptySet DEF Init, Numbered
<1>2. Ticked /\ Ordered /\ ShownIsHead
  BY NobodyAssumption DEF Init, Ticked, Ordered, ShownIsHead
<1>3. TypeOK
  <2>1. \A S \in {queue, remote, replies, channel, hooks, classifier, checkmark, rechecking} :
            S = {}
    BY DEF Init
  <2>2. stage \in [Requests -> Stages] /\ place \in [Requests -> Nat]
    BY DEF Init, Stages
  <2>3. \A r \in Requests : ~(place[r] > 0)
    BY DEF Init
  <2> QED
    BY <2>1, <2>2, <2>3 DEF Init, TypeOK
<1>4. NothingLingers /\ DialogIsFloor /\ AbortEndsWaits
  BY DEF Init, NothingLingers, DialogIsFloor, Open, AbortEndsWaits
<1> QED
  BY <1>1, <1>2, <1>3, <1>4 DEF IInv

-----------------------------------------------------------------------------

\* The inductive invariant holds in every behaviour of the requests of a turn
THEOREM InvariantHolds == Spec => []IInv
<1>1. Init => IInv
  BY InitHolds
<1>2. IInv /\ [Next]_vars => IInv'
  BY NextKeeps, StutterKeeps
<1> QED
  BY <1>1, <1>2, PTL DEF Spec

\* A request is in the queue, at claude.ai, in a channel or raced for only once
\* its dialog was queued, however many requests there are.
THEOREM TypeCorrect == Spec => []TypeOK
<1>1. IInv => TypeOK
  BY DEF IInv
<1> QED
  BY <1>1, InvariantHolds, PTL

\* Whoever decides a request (interactiveHandler.ts), no prompt, subscription or
\* dialog of it is left behind.
THEOREM NothingLingersCorrect == Spec => []NothingLingers
<1>1. IInv => NothingLingers
  BY DEF IInv
<1> QED
  BY <1>1, InvariantHolds, PTL

\* As long as no key reached an outdated dialog and no cancellation emptied the
\* queue under other requests (REPL.tsx), every open request has its dialog.
THEOREM DialogIsFloorCorrect == Spec => []DialogIsFloor
<1>1. IInv => DialogIsFloor
  BY DEF IInv
<1> QED
  BY <1>1, InvariantHolds, PTL

\* The abort of a turn ends its waits for the leader, but for those that began
\* after it (swarmWorkerHandler.ts).
THEOREM AbortEndsWaitsCorrect == Spec => []AbortEndsWaits
<1>1. IInv => AbortEndsWaits
  BY DEF IInv
<1> QED
  BY <1>1, InvariantHolds, PTL
=============================================================================
