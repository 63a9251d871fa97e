-------------------------- MODULE PermissionPrompt --------------------------
(***************************************************************************)
(* The requests for permission of one turn (hooks/useCanUseTool.tsx and    *)
(* hooks/toolPermission): the checks before a dialog, and then the race of *)
(* the user, claude.ai over the bridge, a channel, hooks, the classifier   *)
(* and rechecks for each of them, while the turn may be aborted.           *)
(*                                                                         *)
(* An action is the code from one await that does I/O to the next.  Queue  *)
(* updates take effect at once, the screen follows with the next render:   *)
(* a key may still reach a dialog whose request has left the queue.        *)
(***************************************************************************)
EXTENDS Naturals, FiniteSets

CONSTANTS
    Requests,   \* the calls of tools that ask
    Nobody      \* no dialog is on the screen

ASSUME NobodyAssumption == Nobody \notin Requests
ASSUME RequestsAssumption == IsFiniteSet(Requests)

VARIABLES
    mode,       \* who runs the turn: the main agent, a coordinator's or a swarm worker
    stage,      \* how far a request is
    queue,      \* toolUseConfirmQueue, as a set ordered by
    place,      \* the number of its push
    shown,      \* the request whose dialog was last rendered
    remote,     \* the requests claude.ai shows a prompt for
    replies,    \* its answers on their way
    channel,    \* the requests an answer from a channel is waited for
    hooks,      \* those whose hooks run beside the dialog
    classifier, \* those whose classifier does
    checkmark,  \* those shown as approved until a timer removes them
    recheckDue, \* the setImmediate of setToolPermissionContext
    rechecking, \* the requests whose permissions are being checked anew
    aborted,    \* the signal of the turn
    held,       \* the REPL holds its controller
    deaf,       \* requests sent to the leader after the abort
    harm        \* ways in which a request lost its dialog: "cleared" by a
                \* cancellation that aborts another one, "stale": by a key
                \* on a dialog that was no longer the first of the queue

dialogVars == <<queue, place, shown, checkmark>>
raceVars == <<remote, replies, channel, hooks, classifier, recheckDue, rechecking>>
turnVars == <<aborted, held, deaf>>
vars == <<mode, stage, dialogVars, raceVars, turnVars, harm>>

Stages == {"new", "checking", "automated", "leader", "open", "settled"}
Effects == {"none", "persist", "abort"}

Open(r) == stage[r] = "open"
Head == IF queue = {} THEN Nobody
        ELSE CHOOSE r \in queue : \A s \in queue : place[r] <= place[s]

Init ==
    /\ mode \in {"main", "coordinator", "worker"}
    /\ stage = [r \in Requests |-> "new"]
    /\ queue = {} /\ place = [r \in Requests |-> 0] /\ shown = Nobody
    /\ remote = {} /\ replies = {} /\ channel = {}
    /\ hooks = {} /\ classifier = {} /\ checkmark = {}
    /\ recheckDue = FALSE /\ rechecking = {}
    /\ aborted = FALSE /\ held = TRUE /\ deaf = {} /\ harm = {}

-----------------------------------------------------------------------------
(* What a decision does *)

\* Mutant of Effect: the leader's answer is waited for nevertheless
EffectKeepsWaiting(effect, st, q, ch) ==
    LET fires == effect = "abort" /\ ~aborted IN
    /\ aborted' = (aborted \/ effect = "abort")
    /\ recheckDue' = (recheckDue \/ effect = "persist")
    /\ stage' = st
    /\ channel' = IF fires THEN {} ELSE ch
    /\ queue' = IF fires THEN q \ checkmark ELSE q
    /\ checkmark' = IF fires THEN {} ELSE checkmark

\* Its effect on the turn: rules are stored, which has every queued request
\* rechecked, or the turn is aborted, whose listeners cancel what the leader
\* was asked, unsubscribe the channel and remove the checkmarks.
Effect(effect, st, q, ch) ==
    LET fires == effect = "abort" /\ ~aborted IN
    /\ aborted' = (aborted \/ effect = "abort")
    /\ recheckDue' = (recheckDue \/ effect = "persist")
    /\ stage' = IF fires THEN [r \in Requests |->
                                  IF st[r] = "leader" THEN "settled" ELSE st[r]]
                ELSE st
    /\ channel' = IF fires THEN {} ELSE ch
    /\ queue' = IF fires THEN q \ checkmark ELSE q
    /\ checkmark' = IF fires THEN {} ELSE checkmark

Settled(r) == [stage EXCEPT ![r] = "settled"]

\* A racer that claims r withdraws the prompt of claude.ai and the subscription
Wins(r, effect, q) ==
    /\ Effect(effect, Settled(r), q, channel \ {r})
    /\ remote' = remote \ {r}
Loses(effect, q) == Effect(effect, stage, q, channel) /\ UNCHANGED remote

Rest == UNCHANGED <<mode, place, held, deaf>>
-----------------------------------------------------------------------------
(* Before the dialog *)

\* A request that is settled without one
Returns(r, effect) ==
    /\ Effect(effect, Settled(r), queue, channel)
    /\ UNCHANGED <<mode, place, shown, remote, replies, hooks, classifier, rechecking,
                   held, deaf, harm>>

Moves(r, to) ==
    /\ stage' = [stage EXCEPT ![r] = to]
    /\ UNCHANGED <<mode, dialogVars, raceVars, aborted, held, harm>>

Ask(r) ==
    /\ stage[r] = "new"
    /\ \/ aborted /\ Returns(r, "abort")
       \/ ~aborted /\ Moves(r, "checking") /\ UNCHANGED deaf

\* handleInteractivePermission: the dialog is queued and the other racers
\* start, as far as there are any; a coordinator's hooks have already run
OpenDialog(r) ==
    /\ stage' = [stage EXCEPT ![r] = "open"]
    /\ queue' = queue \cup {r}
    /\ place' = [place EXCEPT ![r] = Cardinality({s \in Requests : place[s] > 0}) + 1]
    /\ remote' \in {remote, remote \cup {r}}
    /\ channel' \in {channel, channel \cup {r}}
    /\ IF mode = "main"
       THEN hooks' = hooks \cup {r} /\ classifier' \in {classifier, classifier \cup {r}}
       ELSE UNCHANGED <<hooks, classifier>>
    /\ UNCHANGED <<mode, shown, checkmark, replies, recheckDue, rechecking, turnVars, harm>>

\* hasPermissionsToUseTool returns, or throws
Checked(r) ==
    /\ stage[r] = "checking"
    /\ \/ Returns(r, IF aborted THEN "abort" ELSE "none")
       \/ Returns(r, "abort")
       \/ ~aborted /\ Moves(r, "automated") /\ UNCHANGED deaf
       \/ ~aborted /\ mode = "main" /\ OpenDialog(r)

\* Hooks and classifier of a coordinator's worker, the classifier of a swarm
\* worker, or the head start of the classifier have decided
Automated(r) ==
    /\ stage[r] = "automated"
    /\ \E effect \in Effects :
          /\ effect # "none" => mode = "coordinator"
          /\ Returns(r, effect)

\* They have not.  A swarm worker does not look at the signal before it asks
\* the leader, and a listener of a signal that has fired is never called.
Undecided(r) ==
    /\ stage[r] = "automated"
    /\ \/ /\ mode = "worker"
          /\ Moves(r, "leader")
          /\ deaf' = IF aborted THEN deaf \cup {r} ELSE deaf
       \/ mode # "worker" /\ aborted /\ Returns(r, "abort")
       \/ mode # "worker" /\ ~aborted /\ OpenDialog(r)

LeaderAnswers(r) ==
    /\ stage[r] = "leader"
    /\ \E effect \in Effects : Returns(r, effect)

-----------------------------------------------------------------------------
(* The race *)

\* Mutant of UserAnswers: the dialog does not leave the queue
UserAnswersStays(r) ==
    /\ shown = r /\ r \notin checkmark
    /\ IF Open(r) THEN \E effect \in Effects : Wins(r, effect, queue)
                  ELSE Loses("none", queue)
    /\ Rest /\ UNCHANGED <<shown, replies, hooks, classifier, rechecking, harm>>

\* A key in the dialog on the screen: it answers its request, if that is still
\* open, and drops the first of the queue, whichever that is by now
UserAnswers(r) ==
    /\ shown = r /\ r \notin checkmark
    /\ IF Open(r) THEN \E effect \in Effects : Wins(r, effect, queue \ {Head})
                  ELSE Loses("none", queue \ {Head})
    /\ harm' = harm \cup {h \in {"stale"} : Head # r /\ \E s \in queue : s = Head /\ Open(s)}
    /\ Rest /\ UNCHANGED <<shown, replies, hooks, classifier, rechecking>>

\* The user of claude.ai answers, and the answer arrives.  Its handler was
\* unsubscribed if the turn has been aborted.
RemoteAnswers(r) ==
    /\ r \in remote
    /\ remote' = remote \ {r} /\ replies' = replies \cup {r}
    /\ UNCHANGED <<mode, stage, dialogVars, channel, hooks, classifier, recheckDue, rechecking,
                   turnVars, harm>>
BridgeResponse(r) ==
    /\ r \in replies /\ replies' = replies \ {r}
    /\ IF Open(r) /\ ~aborted THEN \E effect \in Effects : Wins(r, effect, queue \ {r})
                              ELSE Loses("none", queue)
    /\ Rest /\ UNCHANGED <<shown, hooks, classifier, rechecking, harm>>

ChannelAnswers(r) ==
    /\ r \in channel /\ Open(r)
    /\ Wins(r, "none", queue \ {r})
    /\ Rest /\ UNCHANGED <<shown, replies, hooks, classifier, rechecking, harm>>

\* Mutant of HookDecides: the first dialog goes instead of its own
HookDecidesHead(r) ==
    /\ r \in hooks /\ hooks' = hooks \ {r}
    /\ \/ \E effect \in Effects :
             IF Open(r) THEN Wins(r, effect, queue \ {Head}) ELSE Loses(effect, queue)
       \/ Loses("none", queue)
    /\ Rest /\ UNCHANGED <<shown, replies, classifier, rechecking, harm>>

\* The hooks decide, or have no opinion.  The rules they store and the turn
\* they abort are done before they claim the request.
HookDecides(r) ==
    /\ r \in hooks /\ hooks' = hooks \ {r}
    /\ \/ \E effect \in Effects :
             IF Open(r) THEN Wins(r, effect, queue \ {r}) ELSE Loses(effect, queue)
       \/ Loses("none", queue)
    /\ Rest /\ UNCHANGED <<shown, replies, classifier, rechecking, harm>>

\* The classifier approves, unless the user has touched the dialog, and leaves
\* a checkmark in its place; or it does not
ClassifierDecides(r) ==
    /\ r \in classifier /\ classifier' = classifier \ {r}
    /\ \/ /\ Open(r)
          /\ stage' = Settled(r) /\ checkmark' = checkmark \cup {r}
          /\ remote' = remote \ {r} /\ channel' = channel \ {r}
       \/ UNCHANGED <<stage, checkmark, remote, channel>>
    /\ UNCHANGED <<mode, queue, place, shown, replies, hooks, recheckDue, rechecking,
                   turnVars, harm>>

\* Its timer, or ESC
CheckmarkOver(r) ==
    /\ r \in checkmark
    /\ checkmark' = checkmark \ {r} /\ queue' = queue \ {r}
    /\ UNCHANGED <<mode, stage, place, shown, raceVars, turnVars, harm>>

\* The mode of permissions changes, here or from claude.ai
ModeChanges ==
    /\ ~recheckDue /\ recheckDue' = TRUE
    /\ UNCHANGED <<mode, stage, dialogVars, remote, replies, channel, hooks, classifier,
                   rechecking, turnVars, harm>>

RecheckQueue ==
    /\ recheckDue /\ recheckDue' = FALSE
    /\ rechecking' = rechecking \cup {r \in queue : Open(r)}
    /\ UNCHANGED <<mode, stage, dialogVars, remote, replies, channel, hooks, classifier,
                   turnVars, harm>>

\* Mutant of Recheck: claude.ai is not told
RecheckSilently(r) ==
    /\ r \in rechecking /\ rechecking' = rechecking \ {r}
    /\ \/ Open(r) /\ Effect("none", Settled(r), queue \ {r}, channel \ {r}) /\ UNCHANGED remote
       \/ Loses("none", queue)
    /\ Rest /\ UNCHANGED <<shown, replies, hooks, classifier, harm>>

\* The rules allow the call by now, or they still do not
Recheck(r) ==
    /\ r \in rechecking /\ rechecking' = rechecking \ {r}
    /\ \/ Open(r) /\ Wins(r, "none", queue \ {r})
       \/ Loses("none", queue)
    /\ Rest /\ UNCHANGED <<shown, replies, hooks, classifier, harm>>

-----------------------------------------------------------------------------
(* The turn is aborted *)

\* handleCancel and onCancel: the queue is emptied; the request on the screen
\* is aborted, or the turn when no dialog has been rendered
Cancel ==
    /\ held /\ held' = FALSE /\ ~aborted
    /\ \/ shown # Nobody /\ Open(shown) /\ Wins(shown, "abort", {})
       \/ shown # Nobody /\ ~Open(shown) /\ Loses("none", {})
       \/ shown = Nobody /\ Loses("abort", {})
    /\ harm' = harm \cup {h \in {"cleared"} : \E r \in queue : Open(r) /\ r # shown}
    /\ UNCHANGED <<mode, place, deaf, shown, replies, hooks, classifier, rechecking>>

\* Somebody else aborts the turn: a command of priority 'now', or the failure
\* of a sibling
TurnAborts ==
    /\ ~aborted /\ Loses("abort", queue)
    /\ Rest /\ UNCHANGED <<shown, replies, hooks, classifier, rechecking, harm>>

Render ==
    /\ shown # Head /\ shown' = Head
    /\ UNCHANGED <<mode, stage, queue, place, checkmark, raceVars, turnVars, harm>>

Prepare(r) == Ask(r) \/ Checked(r) \/ Automated(r) \/ Undecided(r)
Race(r) ==
    \/ UserAnswers(r) \/ RemoteAnswers(r) \/ BridgeResponse(r) \/ ChannelAnswers(r)
    \/ HookDecides(r) \/ ClassifierDecides(r) \/ CheckmarkOver(r) \/ Recheck(r)
Next ==
    \/ \E r \in Requests : Prepare(r) \/ LeaderAnswers(r) \/ Race(r)
    \/ ModeChanges \/ RecheckQueue \/ Cancel \/ TurnAborts \/ Render

Spec == Init /\ [][Next]_vars

\* Checks return, timers fire, React renders, and the user answers the dialog
\* on the screen.  Nobody else must answer: not claude.ai, a channel, a hook or
\* the classifier.
Fairness ==
    /\ WF_vars(Render)
    /\ \A r \in Requests :
          /\ WF_vars(Checked(r) \/ Automated(r) \/ Undecided(r))
          /\ WF_vars(CheckmarkOver(r)) /\ WF_vars(UserAnswers(r))
FairSpec == Spec /\ Fairness

-----------------------------------------------------------------------------
(* Properties *)

\* The variables stay in their ranges; a request is in the queue, at claude.ai,
\* in a channel or raced for only once its dialog was queued.
TypeOK ==
    /\ mode \in {"main", "coordinator", "worker"}
    /\ stage \in [Requests -> Stages]
    /\ place \in [Requests -> Nat]
    /\ shown \in Requests \cup {Nobody}
    /\ \A S \in {queue, remote, replies, channel, hooks, classifier, checkmark, rechecking} :
          \A r \in S : r \in Requests /\ stage[r] \in {"open", "settled"} /\ place[r] > 0
    /\ \A r \in Requests : place[r] > 0 => stage[r] \in {"open", "settled"}
    /\ \A r \in deaf : r \in Requests /\ stage[r] \in {"leader", "settled"}
    /\ aborted \in BOOLEAN /\ held \in BOOLEAN /\ recheckDue \in BOOLEAN
    /\ harm \subseteq {"cleared", "stale"}

\* Whoever decides a request, no prompt for it is left at claude.ai ("the web
\* UI shows a stale prompt for a tool that's already executing",
\* interactiveHandler.ts:218-220), no channel is listened to, and no dialog
\* stays in the queue but the checkmark whose timer runs ("must drop the
\* cosmetic dialog or it blocks the next queued item", 504-505).
NothingLingers ==
    \A r \in Requests : stage[r] = "settled" =>
        /\ r \notin remote /\ r \notin channel
        /\ r \in queue => r \in checkmark

\* "the local dialog is always there as the floor" (interactiveHandler.ts:315):
\* as long as a request is open the user can answer it, whatever becomes of
\* the other racers and of the requests before it.
DialogIsFloor ==
    harm = {} => \A r \in Requests : Open(r) => r \in queue

\* The abort of a turn ends its waits for the leader, so that it "does not hang"
\* (swarmWorkerHandler.ts:136), but for requests that were sent after it.
AbortEndsWaits == aborted => \A r \in Requests : stage[r] = "leader" => r \in deaf

\* The turn does not hang on its questions: each is settled once it was asked,
\* even if only the user answers.
RequestsSettle ==
    \A r \in Requests :
        stage[r] \in {"checking", "open"} ~> stage[r] \in {"settled", "leader"} \/ harm # {}
=============================================================================
