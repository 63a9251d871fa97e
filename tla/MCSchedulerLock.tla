--------------------------- MODULE MCSchedulerLock ---------------------------
(* Instances of SchedulerLock for TLC.                                       *)
EXTENDS SchedulerLock
CONSTANTS a, b, c
TwoSessions == {a, b}
ThreeSessions == {a, b, c}
=============================================================================
