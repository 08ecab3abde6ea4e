---------------------------- MODULE MCHostWorkers ----------------------------
(* Two agents on two ports, and a third process beside theirs. *)
EXTENDS HostWorkers

CONSTANTS a1, a2, p1, p2, p3

MCAgent == {a1, a2}
MCProc == {p1, p2, p3}
MCPort == 1..2
==============================================================================
