----------------------------- MODULE MCScheduler -----------------------------
(* Two tasks, and a clock that passes two occurrences of each. *)
EXTENDS Scheduler

CONSTANTS t1, t2

MCTask == {t1, t2}
==============================================================================
