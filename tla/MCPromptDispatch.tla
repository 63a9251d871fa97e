-------------------------- MODULE MCPromptDispatch --------------------------
(* Instances of PromptDispatch for TLC: the kinds of commands.              *)
EXTENDS PromptDispatch

Kind(mode, priority, via) ==
    [mode |-> mode, priority |-> priority, slash |-> FALSE, meta |-> FALSE,
     agent |-> FALSE, via |-> via]

Prompt      == Kind("prompt", "next", "typed")
BashCommand == Kind("bash", "next", "typed")
Slash       == [Prompt EXCEPT !.slash = TRUE]
\* a prompt of the cron scheduler (hooks/useScheduledTasks.ts)
CronPrompt  == [Kind("prompt", "later", "notified") EXCEPT !.meta = TRUE]
Urgent      == Kind("prompt", "now", "notified")
TaskDone    == Kind("task-notification", "later", "notified")
AgentNote   == [TaskDone EXCEPT !.agent = TRUE]
Teammate    == Kind("prompt", "next", "incoming")

AllKinds    == {Prompt, BashCommand, Slash, CronPrompt, Urgent, TaskDone,
                AgentNote, Teammate}
\* Without the notification that is like a subagent's but for its addressee
SomeKinds   == AllKinds \ {TaskDone}
=============================================================================
