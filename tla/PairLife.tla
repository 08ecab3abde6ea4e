------------------------------- MODULE PairLife -------------------------------
(***************************************************************************)
(* What the pairing store promises of a pair, a sender from outside the    *)
(* controller and a session it writes to: the person is asked at most once *)
(* at a time, every question ends, a refusal stands until it has run its   *)
(* time or is withdrawn, and leave that was given is never turned into a   *)
(* refusal or a question behind the person's back.                         *)
(***************************************************************************)
CONSTANT Pair

VARIABLE kind

Kinds == {"new", "pending", "allowed", "denied"}

\* What may become of each kind in one step.
After == [ new     |-> {"new", "pending", "allowed"},
           pending |-> Kinds,
           allowed |-> {"allowed", "new"},
           denied  |-> {"denied", "new"} ]

Init == kind \in [Pair -> {"new", "allowed"}]

Next ==
  /\ kind' \in [Pair -> Kinds]
  /\ \A pair \in Pair : kind'[pair] \in After[kind[pair]]

Ends(pair) == kind[pair] = "pending" ~> kind[pair] # "pending"

Spec == Init /\ [][Next]_kind /\ \A pair \in Pair : Ends(pair)
==============================================================================
