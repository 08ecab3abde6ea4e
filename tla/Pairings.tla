------------------------------- MODULE Pairings -------------------------------
(***************************************************************************)
(* The pairing store (packages/orchestrator/src/peer-pairings.ts): which   *)
(* sender from outside may write to which session.  Decisions are rows of  *)
(* a table; the mark of a question under way is in memory only.            *)
(*                                                                         *)
(* Time is abstract: an allow in force that is not used for an hour        *)
(* becomes "lapsed", a deny that is over becomes "none".  A lapsed row is  *)
(* still there: using the pair makes it an allow in force again.           *)
(***************************************************************************)
CONSTANTS Principal,   \* agents outside the orchestrator, with a token
          Remote,      \* sessions on other controllers
          Session,     \* the conversations there are
          Fresh,       \* names of the sessions that starts create
          Start,       \* the "scope" of a remote sender's starts
          PreApproved, \* pairs the configuration allows
          Earlier      \* pairs that may have been allowed before the first boot modelled

Outsider == Principal \cup Remote

Local == Session \cup Fresh

Pair == (Outsider \X Local) \cup (Remote \X {Start})

ASSUME SendersAssumption == Principal \cap Remote = {}
ASSUME ScopesAssumption == Session \cap Fresh = {} /\ Start \notin Local
ASSUME PreApprovedAssumption == PreApproved \subseteq Principal \X Session
ASSUME EarlierAssumption == Earlier \subseteq (Outsider \X Session) \cup (Remote \X {Start})

VARIABLES
  rows,    \* rows[pair]: the stored decision
  pending  \* the pairs a person is being asked about

Row == {"none", "allow", "lapsed", "deny"}

\* Mutant: the stored decision is looked at before the question under way.
KindRowFirst(pair) ==
  CASE pair \in PreApproved -> "allowed"
    [] rows[pair] = "deny" -> "denied"
    [] rows[pair] = "allow" -> "allowed"
    [] pair \in pending -> "pending"
    [] OTHER -> "new"

\* state()
Kind(pair) ==
  CASE pair \in PreApproved -> "allowed"
    [] pair \in pending -> "pending"
    [] rows[pair] = "allow" -> "allowed"
    [] rows[pair] = "deny" -> "denied"
    [] OTHER -> "new"

\* begin()
Begin(pair) == rows' = rows /\ pending' = pending \cup {pair}

\* decide()
Decide(pair, allowed) ==
  /\ rows' = [rows EXCEPT ![pair] = IF allowed THEN "allow" ELSE "deny"]
  /\ pending' = pending \ {pair}

\* Mutant: the mark is left behind.
KeepsMark(pair) == rows' = rows /\ pending' = pending

\* cancel()
Cancel(pair) == rows' = rows /\ pending' = pending \ {pair}

Touched(pair) == [rows EXCEPT ![pair] = IF @ = "lapsed" THEN "allow" ELSE @]

\* touch()
Touch(pair) == rows' = Touched(pair) /\ pending' = pending

\* revoke(), of a decision in force that the configuration does not make.
Revoke(pair) ==
  /\ rows[pair] \in {"allow", "deny"}
  /\ pair \notin PreApproved
  /\ rows' = [rows EXCEPT ![pair] = "none"]
  /\ pending' = pending

\* An hour without use, or the end of a deny's 24 hours.
Lapse(pair) ==
  /\ rows[pair] \in {"allow", "deny"}
  /\ rows' = [rows EXCEPT ![pair] = IF @ = "allow" THEN "lapsed" ELSE "none"]
  /\ pending' = pending

KeepsPairings == UNCHANGED <<rows, pending>>

\* The table is read from disk; nobody has been asked yet.
PairingsInit ==
  /\ \E stored \in SUBSET Earlier :
       rows = [pair \in Pair |-> IF pair \in stored THEN "allow" ELSE "none"]
  /\ pending = {}
==============================================================================
