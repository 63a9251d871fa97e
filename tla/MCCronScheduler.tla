--------------------------- MODULE MCCronScheduler ---------------------------
(* Instances of CronScheduler for TLC: sessions and tasks as model values.  *)
EXTENDS CronScheduler
CONSTANTS a, b, hourly, once
OneSession == {a}
TwoSessions == {a, b}
=============================================================================
