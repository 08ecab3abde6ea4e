--------------------------- MODULE MCSessionManager ---------------------------
(* Three calls on two scopes with one slot and two worker processes; one call *)
(* asks for sudo. *)
EXTENDS SessionManager
CONSTANTS c1, c2, c3, s1, s2, w1, w2
MCCaller == {c1, c2, c3}
MCSudoCaller == {c3}
MCScope == {s1, s2}
MCWorker == {w1, w2}
==============================================================================
