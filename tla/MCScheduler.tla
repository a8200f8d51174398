----------------------------- MODULE MCScheduler -----------------------------
(* The scheduler alone, for the run about missed schedules. *)
EXTENDS Scheduler

EveryTick == [n \in Names |-> 1]
=============================================================================
