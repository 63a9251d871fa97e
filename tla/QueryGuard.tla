----------------------------- MODULE QueryGuard -----------------------------
(***************************************************************************)
(* The state machine of the query lifecycle (utils/QueryGuard.ts).  Its    *)
(* methods are synchronous and callers chain several of them without an    *)
(* await in between, so they are functions from guard to guard.            *)
(***************************************************************************)
EXTENDS Naturals

GuardType == [status: {"idle", "dispatching", "running"}, generation: Nat]
NewGuard == [status |-> "idle", generation |-> 0]

IsActive(g) == g.status # "idle"

\* Mutant of Reserve: the guard is not taken before the query starts
ReserveNothing(g) == g

\* idle -> dispatching; a guard that is taken is left as it is
Reserve(g) == IF g.status = "idle" THEN [g EXCEPT !.status = "dispatching"] ELSE g

\* dispatching -> idle
CancelReservation(g) ==
    IF g.status = "dispatching" THEN [g EXCEPT !.status = "idle"] ELSE g

\* idle, dispatching -> running, under a new generation; TryStart is asked
\* only of a guard that CanStart
CanStart(g) == g.status # "running"
TryStart(g) == [status |-> "running", generation |-> g.generation + 1]

\* Mutant of Owns: end() does not look at the generation
OwnsAny(g, generation) == g.status = "running"

\* running -> idle, for the query that owns the guard
Owns(g, generation) == g.status = "running" /\ g.generation = generation
End(g, generation) ==
    IF Owns(g, generation) THEN [g EXCEPT !.status = "idle"] ELSE g

\* whatever -> idle; the generation moves on, so a stale End has no effect
ForceEnd(g) ==
    IF IsActive(g) THEN [status |-> "idle", generation |-> g.generation + 1] ELSE g
=============================================================================
