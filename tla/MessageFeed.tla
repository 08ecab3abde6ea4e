------------------------------ MODULE MessageFeed ------------------------------
(***************************************************************************)
(* What a worker session promises its sender: a message that arrives is    *)
(* queued, and is read by the agent in the end, once.  Only a crash of the *)
(* agent's CLI, or the end of the session, may lose a queued message or    *)
(* have one read again.                                                    *)
(***************************************************************************)
EXTENDS Naturals

CONSTANT Cid

VARIABLES status,   \* status[c]: where the message is
          crashes   \* crashes so far

feedVars == <<status, crashes>>

Init == status = [c \in Cid |-> "away"] /\ crashes = 0

Arrive(c) ==
  /\ status[c] = "away"
  /\ status' = [status EXCEPT ![c] = "queued"]
  /\ UNCHANGED crashes

\* The agent reads some queued messages together.
Read(S) ==
  /\ S # {} /\ \A c \in S : status[c] = "queued"
  /\ status' = [c \in Cid |-> IF c \in S THEN "read" ELSE status[c]]
  /\ UNCHANGED crashes

\* Messages that were queued are lost (those of them that had been read once
\* stay read), messages that were read are queued again; messages still away
\* are not touched.
Crash ==
  /\ crashes' = crashes + 1
  /\ status' \in [Cid -> {"away", "queued", "read", "lost"}]
  /\ \A c \in Cid :
       \/ status'[c] = status[c]
       \/ status[c] = "queued" /\ status'[c] \in {"lost", "read"}
       \/ status[c] = "read" /\ status'[c] = "queued"

Next ==
  \/ \E c \in Cid : Arrive(c)
  \/ \E S \in SUBSET Cid : Read(S)
  \/ Crash

Fairness == \A c \in Cid : WF_feedVars(\E S \in SUBSET Cid : c \in S /\ Read(S))

Spec == Init /\ [][Next]_feedVars /\ Fairness
==============================================================================
