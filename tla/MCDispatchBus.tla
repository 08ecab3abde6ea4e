----------------------------- MODULE MCDispatchBus -----------------------------
(* One scope; as many ids as two messages and a retry can be in use at once. *)
EXTENDS DispatchBus
MCCid == 1..4
MCFewerCid == 1..3
==============================================================================
