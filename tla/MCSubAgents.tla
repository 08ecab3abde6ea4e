------------------------------ MODULE MCSubAgents ------------------------------
(***************************************************************************)
(* A conversation in sudo mode and one slot; two runs, each a blocking     *)
(* copy of its parent or a background run with a session key, which may    *)
(* start each other and share name and key; one continuation of a dispatch.*)
(***************************************************************************)
EXTENDS SubAgents

CONSTANTS c1, k1, n1, p1, p2

MCChat == {c1}
MCSudoChat == {c1}
MCKey == {k1}
MCRun == 1..2
MCReport == <<p1, p2>>
MCArgs ==
  { [key |-> Nothing, self |-> TRUE, background |-> FALSE, name |-> n1],
    [key |-> k1, self |-> FALSE, background |-> TRUE, name |-> n1] }
MCName == {n1}
MCScope == MCChat \cup MCKey \cup MCRun
MCCaller == MCChat \cup MCRun \cup {p1, p2}
==============================================================================
