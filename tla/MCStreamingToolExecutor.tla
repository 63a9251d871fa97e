---------------------- MODULE MCStreamingToolExecutor ----------------------
(* Instances of StreamingToolExecutor for TLC: the kinds of blocks.         *)
EXTENDS StreamingToolExecutor

Read     == [known |-> TRUE,  safe |-> TRUE,  bash |-> FALSE, cancel |-> FALSE]
SafeBash == [known |-> TRUE,  safe |-> TRUE,  bash |-> TRUE,  cancel |-> FALSE]
Bash     == [known |-> TRUE,  safe |-> FALSE, bash |-> TRUE,  cancel |-> FALSE]
Sleep    == [known |-> TRUE,  safe |-> TRUE,  bash |-> FALSE, cancel |-> TRUE]
Unknown  == [known |-> FALSE, safe |-> TRUE,  bash |-> FALSE, cancel |-> FALSE]

AllKinds   == {SafeBash, Bash, Sleep, Unknown}
TwoKinds   == {Read, Bash}

\* Exactly one tool_result, before or after the messages of hooks
AllOutcomes  == {<<"err", "extra">>, <<"extra", "ok">>}
BareOutcomes == {<<"ok">>, <<"err">>}
=============================================================================
