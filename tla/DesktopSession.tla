--------------------------- MODULE DesktopSession ---------------------------
(***************************************************************************)
(* One session of the desktop server (server/ws/handler.ts): the clients   *)
(* that watch it, their messages, prewarming, changes of the model, stops, *)
(* clearing and deletion, all at work on the processes of CliProcesses.    *)
(* The handlers are asynchronous and interleave at every await.            *)
(***************************************************************************)
EXTENDS CliProcesses, FiniteSets

CONSTANTS
    Clients,        \* the WebSocket clients
    MaxTransitions, \* how many changes of the model there may be
    MaxEvents       \* how many messages, other requests, departures of clients,
                    \* crashes and failures there may be in all

Transitions == 1..MaxTransitions

\* The messages are numbered in the order of their arrival; every start is asked
\* for because of one event
ASSUME DesktopBounds ==
    /\ MaxTransitions \in Nat /\ MaxEvents \in 0..MaxStarts
    /\ IsFiniteSet(Messages) /\ Messages = 1..Cardinality(Messages)

VARIABLES
    clients,        \* those connected
    cleanupTimer,   \* the timer of the last disconnect is armed
    stopTimers,     \* the timers of stop_generation, with the messages that had
                    \* arrived by then
    asked,          \* how many starts were asked for
    startup,        \* sessionStartupPromises: the start it stands for, or 0
    prewarm,        \* handlePrewarmSession: [at, on: the start it waits for]
    prewarmPending, prewarmed,
    last,           \* runtimeTransitionPromises: the last transition, or 0
    override,       \* the transition runtimeOverrides is of
    trans,          \* of a transition: [at, prev, awaits, on]
    titled,         \* sessionTitleState knows the session
    turn,           \* handleUserMessage: [at, on]
    before,         \* the transitions that were unfinished when it arrived
    out,            \* the callback of a client in the entry: NoCallback, Live,
                    \* or muted until that message is sent
    deleting,       \* the request to delete the session is under way
    events,
    harm            \* the ways in which starts may come to overlap, so far:
                    \* "restart", "dropped" (a startup promise), "drain" (a stop
                    \* amid an exit); "cleaned": transitions were forgotten;
                    \* "detached": a socket was, by the end of another one;
                    \* "moved": a message was sent to another process than the
                    \* one the callbacks were bound to;
                    \* "raced": a message overtook a prewarm that was reading

clientVars == <<clients, cleanupTimer, stopTimers>>
warmVars == <<prewarm, prewarmPending, prewarmed>>
transVars == <<last, override, trans>>
startupVars == <<asked, startup>>
turnVars == <<titled, turn, before>>
vars == <<procVars, clientVars, warmVars, transVars, startupVars, turnVars, out,
          deleting, events, harm>>

NoCallback == 0
Live == Cardinality(Messages) + 1
Unbound == [c \in Clients |-> NoCallback]
Idle == [at |-> "idle", on |-> 0]

Init ==
    /\ ProcInit
    /\ clients = {} /\ cleanupTimer = FALSE /\ stopTimers = <<>>
    /\ asked = 0 /\ startup = 0
    /\ prewarm = Idle /\ prewarmPending = FALSE /\ prewarmed = FALSE
    /\ last = 0 /\ override = 0
    /\ trans = [t \in Transitions |-> [at |-> "unused", prev |-> 0, awaits |-> 0, on |-> 0]]
    /\ titled = FALSE
    /\ turn = [m \in Messages |-> [at |-> "new", on |-> 0]]
    /\ before = [m \in Messages |-> {}]
    /\ out = Unbound
    /\ deleting = FALSE /\ events = 0 /\ harm = {}

Event == events < MaxEvents /\ events' = events + 1
Hurt(S) == harm' = harm \cup S

\* A stop amid an exit: what was waiting for it goes on all the same
Drains == {w \in {"drain"} : registered # None /\ life[registered] = "draining"}
Ended(s) == s # 0 => Over(s)
Done(t) == t # 0 => trans[t].at \in {"done", "failed"}

Bind(C, how) == out' = [c \in Clients |-> IF c \in C /\ registered # None THEN how ELSE out[c]]
Rebound == out' = IF registered' = registered THEN out ELSE Unbound

ForgetPrewarm == prewarmPending' = FALSE /\ prewarmed' = FALSE
-----------------------------------------------------------------------------
(* Clients come and go *)

\* Mutant of Connect: a client that comes back is not bound to the output
ConnectUnbound(c) ==
    /\ c \notin clients
    /\ clients' = clients \cup {c} /\ cleanupTimer' = FALSE
    /\ UNCHANGED <<procVars, stopTimers, warmVars, transVars, startupVars, turnVars,
                   out, deleting, events, harm>>

Connect(c) ==
    /\ c \notin clients
    /\ clients' = clients \cup {c} /\ cleanupTimer' = FALSE
    /\ IF prewarmed THEN out' = Unbound ELSE Bind({c}, Live)
    /\ UNCHANGED <<procVars, stopTimers, warmVars, transVars, startupVars, turnVars,
                   deleting, events, harm>>

Disconnect(c) ==
    /\ Event /\ c \in clients
    /\ clients' = clients \ {c} /\ cleanupTimer' = (clients' = {})
    /\ Bind({c}, NoCallback)
    /\ UNCHANGED <<procVars, stopTimers, warmVars, transVars, startupVars, turnVars, deleting, harm>>

\* cleanupSessionRuntimeState: promises are forgotten, not awaited
CleanUp ==
    /\ startup' = 0 /\ last' = 0 /\ override' = 0 /\ titled' = FALSE /\ ForgetPrewarm
    /\ Hurt({w \in {"dropped"} : startup # 0} \cup {w \in {"cleaned"} : last # 0} \cup Drains)
    /\ UNCHANGED <<asked, prewarm, trans, turn, before>>

CleanupFires ==
    /\ cleanupTimer
    /\ cleanupTimer' = FALSE
    /\ Stop /\ Rebound /\ CleanUp
    /\ UNCHANGED <<clients, stopTimers, deleting, events>>
-----------------------------------------------------------------------------
(* A user message *)

Moves(m, at, on) == turn' = [turn EXCEPT ![m] = [at |-> at, on |-> on]]

\* Once no transition is pending, the callbacks of all clients are bound, and
\* muted, and the content is built
Settle(m) ==
    IF last # 0 THEN Moves(m, "settle", last) /\ UNCHANGED out
    ELSE Moves(m, "send", registered) /\ Bind(clients, m)

\* Mutant of Ensured: the promise of a start under way is not looked up
EnsuredAlone == IF registered # None THEN 0 ELSE asked + 1

\* ensureCliSessionStarted: the start its caller waits for
Ensured == IF startup # 0 THEN startup ELSE IF registered # None THEN 0 ELSE asked + 1
Ensure ==
    IF Ensured = 0 THEN UNCHANGED startupVars
    ELSE startup' = Ensured /\ asked' = IF Ensured > asked THEN Ensured ELSE asked

Start(m) ==
    /\ Ensure
    /\ IF Ensured = 0 THEN Settle(m) ELSE Moves(m, "start", Ensured) /\ UNCHANGED out

\* The first message asks for the title of the session
Proceed(m) ==
    IF titled THEN Start(m)
    ELSE Moves(m, "title", 0) /\ UNCHANGED <<startupVars, out>>

\* Mutant of Receive: a pending change of the model is not waited for
ReceiveAtOnce(m) ==
    /\ Event
    /\ turn[m].at = "new" /\ clients # {} /\ \A n \in 1..(m - 1) : turn[n].at # "new"
    /\ ForgetPrewarm
    /\ before' = [before EXCEPT ![m] = {t \in Transitions : trans[t].at # "unused" /\ ~Done(t)}]
    /\ Proceed(m)
    /\ UNCHANGED <<procVars, clientVars, prewarm, transVars, titled, deleting, harm>>

\* Mutant of Receive: the session stays marked as prewarmed
ReceiveKeepsPrewarm(m) ==
    /\ Event
    /\ turn[m].at = "new" /\ clients # {} /\ \A n \in 1..(m - 1) : turn[n].at # "new"
    /\ before' = [before EXCEPT ![m] = {t \in Transitions : trans[t].at # "unused" /\ ~Done(t)}]
    /\ IF last = 0 THEN Proceed(m)
       ELSE Moves(m, "wait", last) /\ UNCHANGED <<startupVars, out>>
    /\ UNCHANGED <<procVars, clientVars, warmVars, transVars, titled, deleting, harm>>

Receive(m) ==
    /\ Event
    /\ turn[m].at = "new" /\ clients # {} /\ \A n \in 1..(m - 1) : turn[n].at # "new"
    /\ ForgetPrewarm
    /\ before' = [before EXCEPT ![m] = {t \in Transitions : trans[t].at # "unused" /\ ~Done(t)}]
    /\ IF last = 0 THEN Proceed(m)
       ELSE Moves(m, "wait", last) /\ UNCHANGED <<startupVars, out>>
    /\ UNCHANGED <<procVars, clientVars, prewarm, transVars, titled, deleting, harm>>

\* waitForRuntimeTransitionBeforeUserTurn
WaitOver(m) ==
    /\ turn[m].at \in {"wait", "settle"} /\ Done(turn[m].on)
    /\ IF trans[turn[m].on].at = "failed"
       THEN Moves(m, "refused", 0) /\ UNCHANGED <<startupVars, out>>
       ELSE IF last \notin {0, turn[m].on}
       THEN Moves(m, turn[m].at, last) /\ UNCHANGED <<startupVars, out>>
       ELSE IF turn[m].at = "wait" THEN Proceed(m)
       ELSE Settle(m) /\ UNCHANGED startupVars
    /\ UNCHANGED <<procVars, clientVars, warmVars, transVars, titled, before, deleting, events, harm>>

Titled(m) ==
    /\ turn[m].at = "title"
    /\ titled' = TRUE /\ Start(m)
    /\ UNCHANGED <<procVars, clientVars, warmVars, transVars, before, deleting, events, harm>>

StartOver(m) ==
    /\ turn[m].at = "start" /\ Over(turn[m].on)
    /\ IF phase[turn[m].on] = "failed" THEN Moves(m, "refused", 0) /\ UNCHANGED out
       ELSE Settle(m)
    /\ UNCHANGED <<procVars, clientVars, warmVars, transVars, startupVars, titled, before,
                   deleting, events, harm>>

\* The content is built
SendTurn(m) ==
    /\ turn[m].at = "send"
    /\ IF registered = None
       THEN Moves(m, "refused", 0) /\ UNCHANGED <<procVars, out, harm>>
       ELSE /\ Send(m) /\ Moves(m, "sent", registered)
            /\ Hurt({w \in {"moved"} : turn[m].on # registered})
            /\ out' = [c \in Clients |-> IF out[c] = m THEN Live ELSE out[c]]
    /\ UNCHANGED <<clientVars, warmVars, transVars, startupVars, titled, before, deleting, events>>
-----------------------------------------------------------------------------
(* The processes *)

\* The reply of any process goes to the callbacks of the entry
ReplyTurn(p) ==
    /\ Reply(p)
    /\ Moves(Head(got[p]), IF \E c \in clients : out[c] = Live THEN "answered" ELSE "unheard", 0)
    /\ UNCHANGED <<clientVars, warmVars, transVars, startupVars, titled, before, out,
                   deleting, events, harm>>

\* The end of a process is a result that even a muted callback forwards; the
\* callbacks of an entry that is gone by then are not followed
ExitTold(p) ==
    /\ ExitDrained(p)
    /\ turn' = [m \in Messages |->
                  IF /\ turn[m].at = "sent" /\ turn[m].on = p /\ registered = p
                     /\ \E c \in clients : out[c] # NoCallback
                  THEN [at |-> "answered", on |-> 0] ELSE turn[m]]
    /\ Rebound
    /\ UNCHANGED <<clientVars, warmVars, transVars, startupVars, titled, before,
                   deleting, events, harm>>

Dies(p) ==
    /\ life[p] = "dying" /\ Exit(p) /\ UNCHANGED events
    /\ UNCHANGED <<clientVars, warmVars, transVars, startupVars, turnVars, out, deleting, harm>>

Crash(p) ==
    /\ life[p] = "up" /\ Event /\ Exit(p)
    /\ UNCHANGED <<clientVars, warmVars, transVars, startupVars, turnVars, out, deleting, harm>>

ExitSeen(p) ==
    /\ HandleExit(p)
    /\ UNCHANGED <<clientVars, warmVars, transVars, startupVars, turnVars, out, deleting, events, harm>>

SdkOpens(p) ==
    /\ Connects(p)
    /\ UNCHANGED <<clientVars, warmVars, transVars, startupVars, turnVars, out, deleting, events, harm>>

SdkCloses(p) ==
    /\ Closed(p)
    /\ Hurt({w \in {"detached"} : attached /\ registered # p})
    /\ UNCHANGED <<clientVars, warmVars, transVars, startupVars, turnVars, out, deleting, events>>

\* A step of a start; its promise is forgotten when it ends
StartMoves(s) ==
    /\ s <= asked
    /\ \/ /\ StartSession(s) \/ Launched(s) \/ Spawn(s) \/ GraceOver(s) \/ GraceExit(s) \/ DrainEnds(s)
          /\ UNCHANGED events
       \/ (StartFails(s) \/ SaveFails(s) \/ Retry(s)) /\ Event
    /\ startup' = IF startup = s /\ Over(s)' THEN 0 ELSE startup
    /\ Rebound
    /\ UNCHANGED <<clientVars, warmVars, transVars, asked, turnVars, deleting, harm>>
-----------------------------------------------------------------------------
(* set_runtime_config and its transitions *)

\* enqueueRuntimeTransition of t, which first waits for start s
Enqueue(t, s) ==
    /\ trans' = [trans EXCEPT ![t] = [at |-> "queued", prev |-> last, awaits |-> s, on |-> 0]]
    /\ last' = t

SetRuntime(t) ==
    /\ Event /\ clients # {}
    /\ trans[t].at = "unused" /\ \A u \in 1..(t - 1) : trans[u].at # "unused"
    /\ override' = t
    /\ IF registered # None THEN Enqueue(t, 0)
       ELSE IF startup # 0 THEN Enqueue(t, startup)
       ELSE trans' = [trans EXCEPT ![t].at = "done"] /\ UNCHANGED last
    /\ UNCHANGED <<procVars, clientVars, warmVars, startupVars, turnVars, out, deleting, harm>>

Finish(t, how) ==
    /\ trans' = [trans EXCEPT ![t] = [at |-> how, prev |-> 0, awaits |-> 0, on |-> 0]]
    /\ last' = IF last = t THEN 0 ELSE last

\* A transition restarts the process, unless it waited for a start and was
\* overtaken or has nothing to restart
Transition(t) ==
    /\ trans[t].at = "queued" /\ Done(trans[t].prev) /\ Ended(trans[t].awaits)
    /\ IF trans[t].awaits # 0 /\ (override # t \/ registered = None)
       THEN Finish(t, "done") /\ UNCHANGED <<procVars, asked, out, harm>>
       ELSE /\ Stop /\ Rebound /\ asked' = asked + 1 /\ Hurt({"restart"})
            /\ trans' = [trans EXCEPT ![t].at = "restarting", ![t].on = asked + 1]
            /\ UNCHANGED last
    /\ UNCHANGED <<clientVars, warmVars, override, startup, turnVars, deleting, events>>

\* The configuration cannot be saved
TransitionFails(t) ==
    /\ Event
    /\ trans[t].at = "queued" /\ Done(trans[t].prev)
    /\ Finish(t, "failed")
    /\ UNCHANGED <<procVars, clientVars, warmVars, override, startupVars, turnVars, out, deleting, harm>>

Restarted(t) ==
    /\ trans[t].at = "restarting" /\ Over(trans[t].on)
    /\ Finish(t, "done")
    /\ UNCHANGED <<procVars, clientVars, warmVars, override, startupVars, turnVars, out,
                   deleting, events, harm>>
-----------------------------------------------------------------------------
(* Prewarming *)

Prewarm ==
    /\ Event /\ clients # {}
    /\ prewarm.at = "idle" /\ registered = None /\ startup = 0
    /\ prewarm' = [at |-> "reading", on |-> 0]
    /\ UNCHANGED <<procVars, clientVars, prewarmPending, prewarmed, transVars,
                   startupVars, turnVars, out, deleting, harm>>

PrewarmRead ==
    /\ prewarm.at = "reading"
    /\ prewarmPending' = TRUE
    /\ Ensure /\ prewarm' = [at |-> "starting", on |-> Ensured]
    /\ Hurt({w \in {"raced"} : \E m \in Messages : turn[m].at \notin {"new", "answered", "refused"}})
    /\ UNCHANGED <<procVars, clientVars, prewarmed, transVars, turnVars, out, deleting, events>>

PrewarmOver ==
    /\ prewarm.at = "starting" /\ Ended(prewarm.on)
    /\ prewarm' = Idle /\ prewarmPending' = FALSE
    /\ IF prewarmPending /\ (prewarm.on = 0 \/ phase[prewarm.on] = "ok")
       THEN out' = Unbound /\ prewarmed' = TRUE
       ELSE UNCHANGED <<out, prewarmed>>
    /\ UNCHANGED <<procVars, clientVars, transVars, startupVars, turnVars, deleting, events, harm>>

\* The idle timer of a prewarmed session
PrewarmIdle ==
    /\ prewarmed /\ prewarmed' = FALSE
    /\ Stop /\ Rebound /\ Hurt(Drains)
    /\ UNCHANGED <<clientVars, prewarm, prewarmPending, transVars, startupVars, turnVars,
                   deleting, events>>
-----------------------------------------------------------------------------
(* Stopping, clearing and deleting *)

StopGeneration ==
    /\ Event /\ clients # {}
    /\ stopTimers' = IF registered = None THEN stopTimers
                     ELSE Append(stopTimers, {m \in Messages : turn[m].at # "new"})
    /\ UNCHANGED <<procVars, clients, cleanupTimer, warmVars, transVars, startupVars,
                   turnVars, out, deleting, harm>>

ForceKill ==
    /\ stopTimers # <<>> /\ stopTimers' = Tail(stopTimers)
    /\ Stop /\ Rebound /\ Hurt(Drains)
    /\ UNCHANGED <<clients, cleanupTimer, warmVars, transVars, startupVars, turnVars,
                   deleting, events>>

\* handleDesktopClearCommand
Clear ==
    /\ Event /\ clients # {}
    /\ ForgetPrewarm /\ titled' = FALSE
    /\ Stop /\ Rebound /\ Hurt(Drains)
    /\ UNCHANGED <<clientVars, prewarm, transVars, startupVars, turn, before, deleting>>

Delete ==
    /\ Event /\ ~deleted
    /\ MarkDeleted /\ Rebound /\ deleting' = TRUE /\ Hurt(Drains)
    /\ UNCHANGED <<clientVars, warmVars, transVars, startupVars, turnVars>>

\* closeSessionConnection
DeleteDone ==
    /\ deleting /\ deleting' = FALSE
    /\ CleanUp
    /\ out' = Unbound
    /\ clients' = {} /\ cleanupTimer' = FALSE
    /\ UNCHANGED <<procVars, stopTimers, events>>

DeleteFails ==
    /\ Event /\ deleting /\ deleting' = FALSE
    /\ Unmark
    /\ UNCHANGED <<clientVars, warmVars, transVars, startupVars, turnVars, out, harm>>
-----------------------------------------------------------------------------
TurnStep(m) == WaitOver(m) \/ Titled(m) \/ StartOver(m) \/ SendTurn(m)
ChildStep(p) == ReplyTurn(p) \/ ExitTold(p) \/ Dies(p) \/ ExitSeen(p) \/ SdkOpens(p) \/ SdkCloses(p)

Next ==
    \/ \E c \in Clients : Connect(c) \/ Disconnect(c)
    \/ \E m \in Messages : Receive(m) \/ TurnStep(m)
    \/ \E p \in Procs : ChildStep(p) \/ Crash(p)
    \/ \E s \in Starts : StartMoves(s)
    \/ \E t \in Transitions :
          SetRuntime(t) \/ Transition(t) \/ TransitionFails(t) \/ Restarted(t)
    \/ Prewarm \/ PrewarmRead \/ PrewarmOver \/ PrewarmIdle
    \/ CleanupFires \/ StopGeneration \/ ForceKill \/ Clear
    \/ Delete \/ DeleteDone \/ DeleteFails

\* Promises settle, files are read, processes that were told to exit do so and
\* the others answer; no client has to come, send or leave.
Fairness ==
    /\ \A m \in Messages : WF_vars(TurnStep(m))
    /\ \A p \in Procs : WF_vars(ChildStep(p))
    /\ \A s \in Starts : WF_vars(StartMoves(s))
    /\ \A t \in Transitions : WF_vars(Transition(t) \/ Restarted(t))

Spec == Init /\ [][Next]_vars /\ Fairness
-----------------------------------------------------------------------------
ClientTypes ==
    /\ clients \subseteq Clients
    /\ cleanupTimer \in BOOLEAN /\ (cleanupTimer => clients = {})
    /\ stopTimers \in Seq(SUBSET Messages)
    /\ deleting \in BOOLEAN /\ events \in 0..MaxEvents
StartTypes ==
    /\ asked \in Nat /\ startup \in 0..asked
    /\ prewarm \in [at : {"idle", "reading", "starting"}, on : 0..asked]
    /\ prewarmPending \in BOOLEAN /\ prewarmed \in BOOLEAN
TransTypes ==
    /\ last \in 0..MaxTransitions /\ override \in 0..MaxTransitions
    /\ trans \in [Transitions -> [at : {"unused", "queued", "restarting", "done", "failed"},
                                  prev : 0..MaxTransitions, awaits : 0..asked, on : 0..asked]]
TurnTypes ==
    /\ titled \in BOOLEAN
    /\ turn \in [Messages -> [at : {"new", "wait", "title", "start", "settle", "send", "sent",
                                    "answered", "unheard", "refused"}, on : Nat]]
    /\ before \in [Messages -> SUBSET Transitions]
    /\ out \in [Clients -> Messages \cup {NoCallback, Live}]

\* The values are of their types: nobody waits for a start that was not asked
\* for, and the cleanup timer runs only while no client is connected.
TypeOK == ProcTypeOK /\ ClientTypes /\ StartTypes /\ TransTypes /\ TurnTypes

\* Messages and prewarms share a start: two starts, or a start and an exit,
\* overlap only where a transition restarted the process, a cleanup forgot the
\* promise of a start under way, or a stop hit a process whose exit is draining.
StartsAreShared == overlapped => harm \cap {"restart", "dropped", "drain"} # {}

\* A message is not sent to a process that is about to be replaced: the changes
\* of the model asked for before it arrived are through when it looks for the
\* process, unless a cleanup has forgotten them.
WaitsForRestart ==
    \A m \in Messages :
        turn[m].at \in {"title", "start", "settle", "send", "sent", "answered", "unheard"} =>
            "cleaned" \in harm \/ \A t \in before[m] : Done(t)

\* The idle timer of a prewarmed session does not kill a turn, unless the
\* message overtook the prewarm while that was reading.
PrewarmSparesTurns ==
    [][ PrewarmIdle => \/ "raced" \in harm
                       \/ \A m \in Messages : ~(turn[m].at = "sent" /\ turn[m].on = registered)
      ]_vars

\* The answer of the session's process reaches a client, unless nobody is
\* connected, another message has muted the callbacks meanwhile, or the message
\* overtook a prewarm.
AnswersAreHeard ==
    [][ \A m \in Messages :
          turn[m].at = "sent" /\ turn'[m].at = "unheard" /\ turn[m].on = registered =>
              \/ clients = {} \/ harm \cap {"raced", "moved"} # {}
              \/ \E n \in Messages : turn[n].at = "send"
      ]_vars

\* Every message comes to an end: it is refused, answered, or its process is
\* stopped; unless a socket was detached by another one's end, or starts
\* overlapped.
TurnEnds ==
    \A m \in Messages :
        turn[m].at # "new" ~>
            \/ turn[m].at \in {"answered", "unheard", "refused"}
            \/ turn[m].at = "sent" /\ turn[m].on # registered
            \/ "detached" \in harm \/ overlapped
=============================================================================
