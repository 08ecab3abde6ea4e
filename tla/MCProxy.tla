------------------------------- MODULE MCProxy -------------------------------
(* One token, one key, and one reference that every request carries twice. *)
EXTENDS Proxy

CONSTANTS t1, r1, k1, o1, o2

MCScope == {<<t1, k1>>}
MCStoreScope == {<<t1, k1>>}
MCRefKey == [r \in {r1} |-> k1]
MCContents == {<<r1, r1>>}
==============================================================================
