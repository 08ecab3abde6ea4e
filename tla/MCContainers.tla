----------------------------- MODULE MCContainers -----------------------------
(* Two agents with two ports, and a third provision while two are in use. *)
EXTENDS ContainerManager, TLC

CONSTANTS a1, a2, i1, i2, i3

MCKey == {a1, a2}
MCId == {i1, i2, i3}
MCPort == 1..2
MCSymmetry == Permutations(MCKey) \cup Permutations(MCId)
==============================================================================
