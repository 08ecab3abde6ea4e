------------------------------- MODULE MCPeers -------------------------------
(* One conversation, one fresh session, a principal and a session elsewhere that the *)
(* person may have allowed to start sessions.  The principal writes to the fresh      *)
(* session, the one elsewhere to the conversation.                                    *)
EXTENDS Peers

CONSTANTS s1, f1, k1, r1

MCSession == {s1}
MCFresh == {f1}
MCPrincipal == {k1}
MCRemote == {r1}
MCEarlier == {<<r1, Start>>}
MCReach == ({f1, r1} \X {s1}) \cup ({s1, k1} \X {f1}) \cup ({s1} \X {Any})
==============================================================================
