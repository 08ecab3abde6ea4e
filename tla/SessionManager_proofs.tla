------------------------- MODULE SessionManager_proofs -------------------------
(***************************************************************************)
(* The open sessions and the slots they take: the concurrency gate, the    *)
(* session lifecycle, and the sub-agents that wait for slots their parents *)
(* hold, for every number of scopes, calls, slots, restarts and runs.      *)
(*                                                                         *)
(* The gate.  What acquire() and release() preserve for every queue.       *)
(*                                                                         *)
(* Sessions.  No property is inductive alone.  A slot keeps an owner only  *)
(* because a waiter woken for a scope is a call of that scope              *)
(* (QueueMatches); a live session keeps its token only because neither a   *)
(* creation nor a clean-up under way has its name (LiveOwnsItsName,        *)
(* CreatingRegistered, ClosingIsGone); a process runs one loop per scope   *)
(* because its scope table names each of its loops (LoopsNamed).           *)
(*                                                                         *)
(* Sub-agents.  A call is at the gate once (Once), for a grant would       *)
(* otherwise leave it in the queue; a report is dispatched on a call that  *)
(* is not at the gate because none is made before the run is over          *)
(* (ToldOfEnds); a name keeps leading to the newest run because every      *)
(* earlier run was started before it (Begun) and a name is forgotten with  *)
(* whatever run has it (Named).                                            *)
(***************************************************************************)
EXTENDS SessionManager, SubAgents, FiniteSetTheorems, SequenceTheorems,
        WellFoundedInduction, TLAPS

------------------------------------------------------------------------------
(* The gate *)

(* The gate between two calls: within its limit, and nobody waits for a slot *)
(* that is free. *)
GateOK(g) ==
  /\ g \in Gate
  /\ IsFiniteSet(g.active)
  /\ Cardinality(g.active) <= MaxConcurrent
  /\ g.queue # <<>> => Cardinality(g.active) = MaxConcurrent

\* A new gate is open and within its limit.
LEMMA OpenGateOK == GateOK(OpenGate)
<1>1. OpenGate \in Gate
  BY DEF OpenGate, Gate
<1>2. IsFiniteSet(OpenGate.active) /\ Cardinality(OpenGate.active) = 0
  BY FS_EmptySet DEF OpenGate
<1>3. OpenGate.queue = <<>>
  BY DEF OpenGate
<1> QED
  BY <1>1, <1>2, <1>3, SlotsAssumption DEF GateOK

\* A set of naturals that is not empty has a least element.
LEMMA LeastNatural ==
  ASSUME NEW T \in SUBSET Nat, T # {}
  PROVE  \E x \in T : \A y \in T : x <= y
<1> DEFINE R == {p \in Nat \X Nat : p[1] < p[2]}
<1>1. IsWellFoundedOn(R, Nat)
  BY NatLessThanWellFounded DEF OpToRel
<1>2. PICK x \in T : \A y \in T : ~ (<<y, x>> \in R)
  BY <1>1, WFMin
<1>3. ASSUME NEW y \in T
      PROVE  x <= y
  <2>1. x \in Nat /\ y \in Nat /\ <<y, x>> \notin R
    BY <1>2
  <2> QED
    BY <2>1
<1> QED
  BY <1>3

\* The scopes and callers of a prefix of the queue.
LEMMA PrefixScopes ==
  ASSUME NEW q \in Seq(Waiter), NEW n \in 0..Len(q)
  PROVE  /\ FirstScopes(q, n) \subseteq Scope
         /\ FirstCallers(q, n) \subseteq Caller
         /\ IsFiniteSet(FirstScopes(q, n))
<1>1. \A i \in 1..n : q[i] \in Waiter
  OBVIOUS
<1>2. FirstScopes(q, n) \subseteq Scope /\ FirstCallers(q, n) \subseteq Caller
  BY <1>1 DEF FirstScopes, FirstCallers, Waiter
<1>3. IsFiniteSet(1..n)
  BY FS_Interval
<1> DEFINE f == [i \in 1..n |-> q[i].scope]
<1>4. f \in Surjection(1..n, FirstScopes(q, n))
  BY DEF Surjection, FirstScopes
<1>5. IsFiniteSet(FirstScopes(q, n))
  BY <1>3, <1>4, FS_Surjection
<1> QED
  BY <1>2, <1>5

\* release() wakes a definite number of waiters: its loop stops, and where
\* Woken says.
LEMMA WokenStops ==
  ASSUME NEW active, NEW q \in Seq(Waiter)
  PROVE  /\ Woken(active, q) \in 0..Len(q)
         /\ StopsAfter(active, q, Woken(active, q))
<1> DEFINE T == {n \in 0..Len(q) : n = Len(q)
                                   \/ ~HasRoom(active \cup FirstScopes(q, n))}
<1>1. T \in SUBSET Nat /\ T # {}
  <2>1. Len(q) \in T
    OBVIOUS
  <2> QED
    BY <2>1
<1>2. PICK n \in T : \A m \in T : n <= m
  BY <1>1, LeastNatural
<1>3. \A k \in 0..(n - 1) : HasRoom(active \cup FirstScopes(q, k))
  <2> SUFFICES ASSUME NEW k \in 0..(n - 1)
               PROVE  HasRoom(active \cup FirstScopes(q, k))
    OBVIOUS
  <2>1. k \notin T /\ k \in 0..Len(q)
    BY <1>2
  <2> QED
    BY <2>1
<1>4. n \in 0..Len(q) /\ StopsAfter(active, q, n)
  BY <1>2, <1>3 DEF StopsAfter
<1> QED
  BY <1>4 DEF Woken

\* acquire() keeps the gate within its limit and its queue for a full gate.
LEMMA AcquireKeepsGate ==
  ASSUME NEW g, GateOK(g), NEW c \in Caller, NEW s \in Scope
  PROVE  GateOK(Acquire(g, c, s))
<1> DEFINE h == Acquire(g, c, s)
<1>0. /\ g \in Gate
      /\ IsFiniteSet(g.active)
      /\ Cardinality(g.active) \in Nat
      /\ Cardinality(g.active) <= MaxConcurrent
      /\ g.queue # <<>> => Cardinality(g.active) = MaxConcurrent
  BY FS_CardinalityType DEF GateOK
<1>1. CASE s \in g.active \/ HasRoom(g.active)
  <2>1. h = [g EXCEPT !.active = @ \cup {s}, !.granted = @ \cup {c}]
    BY <1>1 DEF Acquire
  <2>2. h \in Gate /\ h.active = g.active \cup {s} /\ h.queue = g.queue
    BY <2>1, <1>0 DEF Gate
  <2>3. /\ IsFiniteSet(h.active)
        /\ Cardinality(h.active) =
             IF s \in g.active THEN Cardinality(g.active) ELSE Cardinality(g.active) + 1
    <3>1. /\ IsFiniteSet(g.active \cup {s})
          /\ Cardinality(g.active \cup {s}) =
               IF s \in g.active THEN Cardinality(g.active)
                                ELSE Cardinality(g.active) + 1
      BY <1>0, FS_AddElement
    <3> QED
      BY <3>1, <2>2
  <2>4. h.queue # <<>> => Cardinality(h.active) = MaxConcurrent
    BY <2>2, <2>3, <1>0, <1>1, SlotsAssumption DEF HasRoom
  <2>5. Cardinality(h.active) <= MaxConcurrent
    BY <2>3, <1>0, <1>1, SlotsAssumption DEF HasRoom
  <2> QED
    BY <2>2, <2>3, <2>4, <2>5 DEF GateOK
<1>2. CASE ~(s \in g.active \/ HasRoom(g.active))
  <2>1. h = [g EXCEPT !.queue = Append(@, [scope |-> s, caller |-> c])]
    BY <1>2 DEF Acquire
  <2>2. h \in Gate /\ h.active = g.active
    <3>1. [scope |-> s, caller |-> c] \in Waiter
      BY DEF Waiter
    <3>2. g.queue \in Seq(Waiter)
      BY <1>0 DEF Gate
    <3>3. Append(g.queue, [scope |-> s, caller |-> c]) \in Seq(Waiter)
      BY <3>1, <3>2, AppendProperties
    <3> QED
      BY <2>1, <3>3, <1>0 DEF Gate
  <2>3. Cardinality(g.active) = MaxConcurrent
    BY <1>0, <1>2, SlotsAssumption DEF HasRoom
  <2> QED
    BY <2>2, <2>3, <1>0, SlotsAssumption DEF GateOK
<1> QED
  BY <1>1, <1>2

\* release() keeps the gate within its limit and stops waking waiters only
\* when the gate is full or nobody waits.
LEMMA ReleaseKeepsGate ==
  ASSUME NEW g, GateOK(g), NEW s \in Scope
  PROVE  GateOK(Release(g, s))
<1> DEFINE q == g.queue
           rest == g.active \ {s}
           n == Woken(rest, q)
           h == Release(g, s)
<1>0. /\ g.active \subseteq Scope /\ g.granted \subseteq Caller
      /\ q \in Seq(Waiter)
      /\ IsFiniteSet(g.active)
      /\ Cardinality(g.active) \in Nat
      /\ Cardinality(g.active) <= MaxConcurrent
  BY FS_CardinalityType DEF GateOK, Gate
<1>1. n \in 0..Len(q) /\ StopsAfter(rest, q, n)
  BY <1>0, WokenStops
<1>2. /\ FirstScopes(q, n) \subseteq Scope
      /\ FirstCallers(q, n) \subseteq Caller
      /\ IsFiniteSet(FirstScopes(q, n))
  BY <1>0, <1>1, PrefixScopes
<1>3. /\ h.active = rest \cup FirstScopes(q, n)
      /\ h.queue = SubSeq(q, n + 1, Len(q))
      /\ h.granted = g.granted \cup FirstCallers(q, n)
      /\ h = [active |-> h.active, queue |-> h.queue, granted |-> h.granted]
  BY DEF Release
<1>4. h.queue \in Seq(Waiter)
  <2>1. Len(q) \in Int /\ n + 1 \in Int
    BY <1>0, <1>1, LenProperties
  <2>2. \A i \in (n + 1)..Len(q) : q[i] \in Waiter
    BY <2>1, <1>0, <1>1
  <2> HIDE DEF n, q
  <2> DEFINE a == n + 1
             b == Len(q)
  <2>3. a \in Int /\ b \in Int /\ \A i \in a..b : q[i] \in Waiter
    BY <2>1, <2>2
  <2> HIDE DEF a, b
  <2>4. SubSeq(q, a, b) \in Seq(Waiter)
    BY <2>3, SubSeqProperties
  <2> QED
    BY <2>4, <1>3 DEF a, b
<1>5. h \in Gate
  BY <1>0, <1>2, <1>3, <1>4 DEF Gate
<1>6. /\ IsFiniteSet(rest)
      /\ Cardinality(rest) \in Nat
      /\ Cardinality(rest) <= MaxConcurrent
  BY <1>0, FS_RemoveElement, FS_CardinalityType, FS_Subset, SlotsAssumption
<1>7. IsFiniteSet(h.active) /\ Cardinality(h.active) \in Nat
  <2>1. IsFiniteSet(rest \cup FirstScopes(q, n))
    BY <1>2, <1>6, FS_Union
  <2> QED
    BY <1>3, <2>1, FS_CardinalityType
<1>8. Cardinality(h.active) <= MaxConcurrent
  <2>1. CASE n = 0
    <3>1. h.active = rest
      BY <2>1, <1>3 DEF FirstScopes
    <3> QED
      BY <3>1, <1>6
  <2>2. CASE n # 0
    <3> DEFINE before == rest \cup FirstScopes(q, n - 1)
    <3>1. n - 1 \in 0..(n - 1) /\ n - 1 \in 0..Len(q)
      BY <2>2, <1>1
    <3>2. HasRoom(before)
      BY <3>1, <1>1 DEF StopsAfter
    <3>3. IsFiniteSet(FirstScopes(q, n - 1))
      BY <3>1, <1>0, PrefixScopes
    <3>4. IsFiniteSet(before) /\ Cardinality(before) \in Nat
      BY <3>3, <1>6, FS_Union, FS_CardinalityType
    <3>5. FirstScopes(q, n) = FirstScopes(q, n - 1) \cup {q[n].scope}
      <4>1. 1..n = (1..(n - 1)) \cup {n}
        BY <2>2, <1>1
      <4> QED
        BY <4>1 DEF FirstScopes
    <3>6. h.active = before \cup {q[n].scope}
      BY <3>5, <1>3
    <3>7. Cardinality(h.active) <= Cardinality(before) + 1
      <4> HIDE DEF before
      <4>1. Cardinality(before \cup {q[n].scope}) =
              IF q[n].scope \in before THEN Cardinality(before)
                                      ELSE Cardinality(before) + 1
        BY <3>4, FS_AddElement
      <4>2. Cardinality(before \cup {q[n].scope}) <= Cardinality(before) + 1
        BY <4>1, <3>4
      <4> QED
        BY <4>2, <3>6
    <3> QED
      BY <3>2, <3>4, <3>7, <1>7, SlotsAssumption DEF HasRoom
  <2> QED
    BY <2>1, <2>2
<1>9. h.queue # <<>> => Cardinality(h.active) = MaxConcurrent
  <2> SUFFICES ASSUME h.queue # <<>>
               PROVE  Cardinality(h.active) = MaxConcurrent
    OBVIOUS
  <2>1. n # Len(q)
    <3> SUFFICES ASSUME n = Len(q)
                 PROVE  h.queue = <<>>
      OBVIOUS
    <3>1. Len(q) \in Int /\ n + 1 \in Int /\ Len(q) < n + 1
      BY <1>0, <1>1, LenProperties
    <3>2. SubSeq(q, n + 1, Len(q)) = <<>>
      BY <3>1, SubSeqEmpty
    <3> QED
      BY <3>2, <1>3
  <2>2. ~HasRoom(h.active)
    BY <2>1, <1>1, <1>3 DEF StopsAfter
  <2> QED
    BY <2>2, <1>7, <1>8, SlotsAssumption DEF HasRoom
<1> QED
  BY <1>5, <1>7, <1>8, <1>9 DEF GateOK

\* Who holds a slot after release(): those who held one, except the released
\* scope, and waiters of the queue that have been woken.
LEMMA ReleaseHolders ==
  ASSUME NEW g, g \in Gate, NEW s \in Scope, NEW t \in Release(g, s).active
  PROVE  \/ t \in g.active /\ t # s
         \/ \E i \in 1..Len(g.queue) : /\ g.queue[i].scope = t
                                       /\ g.queue[i].caller \in Release(g, s).granted
<1> DEFINE n == Woken(g.active \ {s}, g.queue)
<1>1. g.queue \in Seq(Waiter)
  BY DEF Gate
<1>2. n \in 0..Len(g.queue)
  BY <1>1, WokenStops
<1>3. CASE t \in g.active \ {s}
  BY <1>3
<1>4. CASE t \notin g.active \ {s}
  <2>1. t \in FirstScopes(g.queue, n)
    BY <1>4 DEF Release
  <2>2. PICK i \in 1..n : t = g.queue[i].scope
    BY <2>1 DEF FirstScopes
  <2>3. g.queue[i].caller \in Release(g, s).granted
    BY <2>2 DEF Release, FirstCallers
  <2>4. i \in 1..Len(g.queue)
    BY <1>1, <1>2, <2>2
  <2> QED
    BY <2>2, <2>3, <2>4
<1> QED
  BY <1>3, <1>4

\* release() takes nobody's grant back, and who still waits waited before.
LEMMA ReleaseWaiters ==
  ASSUME NEW g, g \in Gate, NEW s \in Scope
  PROVE  /\ g.granted \subseteq Release(g, s).granted
         /\ \A j \in 1..Len(Release(g, s).queue) :
              \E i \in 1..Len(g.queue) : Release(g, s).queue[j] = g.queue[i]
<1> DEFINE n == Woken(g.active \ {s}, g.queue)
<1>1. g.queue \in Seq(Waiter)
  BY DEF Gate
<1>2. n \in 0..Len(g.queue)
  BY <1>1, WokenStops
<1>3. Release(g, s).queue = SubSeq(g.queue, n + 1, Len(g.queue))
  BY DEF Release
<1>4. ASSUME NEW j \in 1..Len(Release(g, s).queue)
      PROVE  \E i \in 1..Len(g.queue) : Release(g, s).queue[j] = g.queue[i]
  <2>1. Len(g.queue) \in Nat
    BY <1>1, LenProperties
  <2> HIDE DEF n
  <2>2. Len(Release(g, s).queue) = Len(g.queue) - n
    BY <1>1, <1>2, <1>3, <2>1
  <2>3. j + n \in 1..Len(g.queue)
    BY <1>2, <2>1, <2>2
  <2>4. Release(g, s).queue[j] = g.queue[j + n]
    BY <1>1, <1>2, <1>3, <2>1, <2>2
  <2> QED
    BY <2>3, <2>4
<1>5. g.granted \subseteq Release(g, s).granted
  BY DEF Release
<1> QED
  BY <1>4, <1>5

------------------------------------------------------------------------------
(* Sessions: what the proofs need beside the properties *)

Matches(g, f) ==
  \A i \in 1..Len(g.queue) : f[g.queue[i].caller] = g.queue[i].scope

\* The scope of each call; no step changes it.
ScopeOf == [c \in Caller |-> calls[c].scope]

QueueMatches == Matches(gate, ScopeOf)

LiveOwnsItsName ==
  \A s \in Scope :
    Live(s) => /\ calls[sessions[s]].stage = "ready"
               /\ sessions[s] \notin closing

CreatingRegistered ==
  \A c \in Caller :
    calls[c].stage \in {"preparing", "posting", "accepted"} => c \in callbacks

ClosingIsGone == \A c \in closing : calls[c].stage = "ready"

\* A session that may be sent has a process to be sent to.
SentSomewhere ==
  \A c \in Caller :
    calls[c].stage \in {"preparing", "posting", "accepted", "abandoned"}
      => workerUrl[c] \in Worker

\* The stages of a call whose session may have a loop.
Taken == {"accepted", "ready", "failed"}

LoopsNamed ==
  \A c \in loops :
    /\ calls[c].stage \in Taken
    /\ workerUrl[c] \in Worker
    /\ scopeOwner[workerUrl[c]][calls[c].scope] = c

------------------------------------------------------------------------------
(* What the steps have in common *)

\* Moving a call changes that call's stage and no call's scope.
LEMMA MovedCalls ==
  ASSUME TypeOK, NEW c \in Caller, NEW st \in Stage, calls' = Moved(c, st)
  PROVE  /\ calls' \in [Caller -> [stage : Stage, scope : Scope]]
         /\ \A d \in Caller : calls'[d].scope = calls[d].scope
         /\ \A d \in Caller : d # c => calls'[d].stage = calls[d].stage
         /\ calls'[c].stage = st
BY DEF TypeOK, Moved

\* The gate releases a slot: the waiters it wakes are calls of the scopes
\* they get a slot for.
LEMMA ReleaseOwned ==
  ASSUME NEW g, GateOK(g), NEW f, Matches(g, f), NEW s \in Scope
  PROVE  /\ GateOK(Release(g, s))
         /\ Matches(Release(g, s), f)
         /\ g.granted \subseteq Release(g, s).granted
         /\ \A t \in Release(g, s).active :
              \/ t \in g.active /\ t # s
              \/ \E d \in Caller : f[d] = t /\ d \in Release(g, s).granted
<1>1. g \in Gate
  BY DEF GateOK
<1>2. GateOK(Release(g, s))
  BY ReleaseKeepsGate
<1>3. /\ g.granted \subseteq Release(g, s).granted
      /\ \A j \in 1..Len(Release(g, s).queue) :
           \E i \in 1..Len(g.queue) : Release(g, s).queue[j] = g.queue[i]
  BY <1>1, ReleaseWaiters
<1>4. Matches(Release(g, s), f)
  BY <1>3 DEF Matches
<1>5. ASSUME NEW t \in Release(g, s).active
      PROVE  \/ t \in g.active /\ t # s
             \/ \E d \in Caller : f[d] = t /\ d \in Release(g, s).granted
  <2>1. CASE \E i \in 1..Len(g.queue) : /\ g.queue[i].scope = t
                                        /\ g.queue[i].caller \in Release(g, s).granted
    <3>1. PICK i \in 1..Len(g.queue) : /\ g.queue[i].scope = t
                                       /\ g.queue[i].caller \in Release(g, s).granted
      BY <2>1
    <3>2. g.queue[i].caller \in Caller
      <4>1. g.queue \in Seq(Waiter)
        BY <1>1 DEF Gate
      <4>2. g.queue[i] \in Waiter
        BY <4>1
      <4> QED
        BY <4>2 DEF Waiter
    <3>3. f[g.queue[i].caller] = t
      BY <3>1 DEF Matches
    <3> QED
      BY <3>1, <3>2, <3>3
  <2> QED
    BY <1>1, <2>1, ReleaseHolders
<1> QED
  BY <1>2, <1>3, <1>4, <1>5

\* acquire(): the call of the scope gets the slot or waits for it.
LEMMA AcquireOwned ==
  ASSUME NEW g, GateOK(g), NEW f, Matches(g, f), NEW c \in Caller,
         NEW s \in Scope, f[c] = s
  PROVE  /\ GateOK(Acquire(g, c, s))
         /\ Matches(Acquire(g, c, s), f)
         /\ g.granted \subseteq Acquire(g, c, s).granted
         /\ \A t \in Acquire(g, c, s).active :
              t \in g.active \/ (t = s /\ c \in Acquire(g, c, s).granted)
<1> DEFINE h == Acquire(g, c, s)
           w == [scope |-> s, caller |-> c]
<1>1. g \in Gate
  BY DEF GateOK
<1>2. GateOK(h)
  BY AcquireKeepsGate
<1>3. CASE s \in g.active \/ HasRoom(g.active)
  <2>1. h = [g EXCEPT !.active = @ \cup {s}, !.granted = @ \cup {c}]
    BY <1>3 DEF Acquire
  <2>2. /\ h.active = g.active \cup {s}
        /\ h.queue = g.queue
        /\ h.granted = g.granted \cup {c}
    BY <2>1, <1>1 DEF Gate
  <2>3. Matches(h, f)
    BY <2>2 DEF Matches
  <2> QED
    BY <1>2, <2>2, <2>3
<1>4. CASE ~(s \in g.active \/ HasRoom(g.active))
  <2>1. h = [g EXCEPT !.queue = Append(@, w)]
    BY <1>4 DEF Acquire
  <2>2. h.active = g.active /\ h.queue = Append(g.queue, w) /\ h.granted = g.granted
    BY <2>1, <1>1 DEF Gate
  <2>3. g.queue \in Seq(Waiter) /\ w \in Waiter
    BY <1>1 DEF Gate, Waiter
  <2>4. Len(h.queue) = Len(g.queue) + 1 /\ Len(g.queue) \in Nat
    BY <2>2, <2>3, AppendProperties, LenProperties
  <2>5. ASSUME NEW i \in 1..Len(h.queue)
        PROVE  f[h.queue[i].caller] = h.queue[i].scope
    <3>1. CASE i \in 1..Len(g.queue)
      <4>1. h.queue[i] = g.queue[i]
        BY <3>1, <2>2, <2>3, AppendProperties
      <4> QED
        BY <3>1, <4>1 DEF Matches
    <3>2. CASE i = Len(g.queue) + 1
      <4>1. h.queue[i] = w
        BY <3>2, <2>2, <2>3, AppendProperties
      <4> QED
        BY <4>1
    <3> QED
      BY <3>1, <3>2, <2>4
  <2>6. Matches(h, f)
    BY <2>5 DEF Matches
  <2> QED
    BY <1>2, <2>2, <2>6
<1> QED
  BY <1>3, <1>4

------------------------------------------------------------------------------
(* Type correctness; the gate's part of it comes from GateStep. *)

\* Every step keeps every variable but the gate in its type.
LEMMA TypeStep ==
  ASSUME TypeOK, [Next]_vars, gate' \in Gate
  PROVE  TypeOK'
<1> USE DEF Stage, workers
<1>1. ASSUME NEW c \in Caller, ReuseSession(c)
      PROVE  TypeOK'
  <2>1. calls[c].scope \in Scope
    BY DEF TypeOK
  <2>2. sessions[calls[c].scope] \in Caller
    BY <1>1, <2>1 DEF ReuseSession, Live, TypeOK
  <2>3. calls' \in [Caller -> [stage : Stage, scope : Scope]]
    BY <1>1, MovedCalls DEF ReuseSession
  <2> QED
    BY <1>1, <2>2, <2>3 DEF ReuseSession, TypeOK
<1>2. ASSUME NEW c \in Caller, RefuseOtherMode(c)
      PROVE  TypeOK'
  BY <1>2, MovedCalls DEF RefuseOtherMode, TypeOK
<1>3. ASSUME NEW c \in Caller, RequestSession(c)
      PROVE  TypeOK'
  BY <1>3, MovedCalls DEF RequestSession, TypeOK
<1>4. ASSUME NEW c \in Caller, StartWorker(c)
      PROVE  TypeOK'
  BY <1>4, MovedCalls DEF StartWorker, TypeOK
<1>5. ASSUME NEW c \in Caller, StartFailed(c)
      PROVE  TypeOK'
  BY <1>5, MovedCalls DEF StartFailed, TypeOK
<1>6. ASSUME NEW c \in Caller, RegisterCallback(c)
      PROVE  TypeOK'
  BY <1>6, MovedCalls DEF RegisterCallback, TypeOK
<1>7. ASSUME NEW c \in Caller, HandoverFailed(c)
      PROVE  TypeOK'
  BY <1>7, MovedCalls DEF HandoverFailed, TypeOK
<1>8. ASSUME NEW c \in Caller, SendPost(c)
      PROVE  TypeOK'
  BY <1>8, MovedCalls DEF SendPost, TypeOK
<1>9. ASSUME NEW c \in Caller, AcceptPost(c)
      PROVE  TypeOK'
  BY <1>9, MovedCalls DEF AcceptPost, StartLoop, TypeOK
<1>10. ASSUME NEW c \in Caller, AcceptLate(c)
       PROVE  TypeOK'
  BY <1>10, MovedCalls DEF AcceptLate, StartLoop, TypeOK
<1>11. ASSUME NEW c \in Caller, PostFailed(c)
       PROVE  TypeOK'
  BY <1>11, MovedCalls DEF PostFailed, TypeOK
<1>12. ASSUME NEW c \in Caller, SessionCreated(c)
       PROVE  TypeOK'
  BY <1>12, MovedCalls DEF SessionCreated, TypeOK
<1>13. ASSUME NEW scopes \in SUBSET Scope, NEW fired, BeginClose(scopes, fired)
       PROVE  TypeOK'
  <2>1. { sessions[s] : s \in { t \in scopes : Live(t) } } \subseteq Caller
    BY DEF Live, TypeOK
  <2> QED
    BY <1>13, <2>1 DEF BeginClose, TypeOK
<1>14. ASSUME NEW c \in Caller, DeleteArrives(c)
       PROVE  TypeOK'
  BY <1>14 DEF DeleteArrives, TypeOK
<1>15. ASSUME NEW c \in Caller, CloseSettled(c)
       PROVE  TypeOK'
  BY <1>15 DEF CloseSettled, TypeOK
<1>16. ASSUME OrchestratorRestarts
       PROVE  TypeOK'
  <2>1. calls' \in [Caller -> [stage : Stage, scope : Scope]]
    BY <1>16 DEF OrchestratorRestarts, TypeOK
  <2> QED
    BY <1>16, <2>1, RestartsAssumption DEF OrchestratorRestarts, TypeOK
<1>17. ASSUME UNCHANGED vars
       PROVE  TypeOK'
  BY <1>17 DEF vars, TypeOK
<1>18. ASSUME NEW w \in Worker, WorkerRestarts(w)
       PROVE  TypeOK'
  BY <1>18, RestartsAssumption DEF WorkerRestarts, NoSessions, TypeOK
<1>19. \A c \in Caller : IdleTimerFires(c) => BeginClose({calls[c].scope}, {c})
                                               /\ {calls[c].scope} \in SUBSET Scope
  BY DEF IdleTimerFires, TypeOK
<1> QED
  BY <1>1, <1>2, <1>3, <1>4, <1>5, <1>6, <1>7, <1>8, <1>9, <1>10, <1>11,
     <1>12, <1>13, <1>14, <1>15, <1>16, <1>17, <1>18, <1>19
     DEF Next, Ensure, Launch, Create, CloseSession, CloseAll

------------------------------------------------------------------------------
(* The gate keeps its limit, and its slots their owners. *)

GateKept == GateOK(gate) /\ QueueMatches /\ NoSlotLeak

\* The owners of a scope's slot that are not a granted call.
Holder(s) ==
  \/ \E c \in Caller : /\ calls[c].scope = s
                       /\ calls[c].stage \in Creating \/ c \in closing
  \/ Live(s)

\* A step that leaves the gate alone need only keep owners.
LEMMA SameGateKept ==
  ASSUME GateKept, gate' = gate, ScopeOf' = ScopeOf,
         \A s \in Scope : HasOwner(s) => HasOwner(s)'
  PROVE  GateKept'
<1>1. gate.active \subseteq Scope
  BY DEF GateKept, GateOK, Gate
<1>2. GateOK(gate)' /\ QueueMatches'
  BY DEF GateKept, GateOK, Gate, QueueMatches, Matches
<1>3. NoSlotLeak'
  BY <1>1 DEF GateKept, NoSlotLeak
<1> QED
  BY <1>2, <1>3 DEF GateKept

\* A step that gives back the slot of one scope, once or twice, may take the
\* owner of that scope away and no other.
LEMMA ReleasedGateKept ==
  ASSUME TypeOK, GateKept, NEW s \in Scope, ScopeOf' = ScopeOf,
         gate' = Release(gate, s) \/ gate' = Release(Release(gate, s), s),
         \A t \in Scope : t # s /\ Holder(t) => Holder(t)'
  PROVE  GateKept'
<1> DEFINE h == Release(gate, s)
<1>1. GateOK(gate) /\ Matches(gate, ScopeOf)
  BY DEF GateKept, QueueMatches
<1>2. /\ GateOK(h) /\ Matches(h, ScopeOf)
      /\ gate.granted \subseteq h.granted
      /\ \A t \in h.active : \/ t \in gate.active /\ t # s
                             \/ \E d \in Caller : ScopeOf[d] = t /\ d \in h.granted
  BY <1>1, ReleaseOwned
<1> HIDE DEF h
<1>3. /\ GateOK(Release(h, s)) /\ Matches(Release(h, s), ScopeOf)
      /\ h.granted \subseteq Release(h, s).granted
      /\ \A t \in Release(h, s).active :
           \/ t \in h.active /\ t # s
           \/ \E d \in Caller : ScopeOf[d] = t /\ d \in Release(h, s).granted
  BY <1>2, ReleaseOwned
<1>4. /\ GateOK(gate') /\ Matches(gate', ScopeOf)
      /\ gate.granted \subseteq gate'.granted
      /\ \A t \in gate'.active :
           \/ t \in gate.active /\ t # s
           \/ \E d \in Caller : ScopeOf[d] = t /\ d \in gate'.granted
  <2>1. CASE gate' = h
    BY <2>1, <1>2
  <2>2. CASE gate' = Release(h, s)
    BY <2>2, <1>2, <1>3
  <2> QED
    BY <2>1, <2>2 DEF h
<1>5. GateOK(gate)' /\ QueueMatches'
  BY <1>4 DEF GateOK, Gate, QueueMatches, Matches
<1>6. \A d \in Caller : calls'[d].scope = calls[d].scope
  <2>1. \A d \in Caller : ScopeOf[d] = calls[d].scope /\ ScopeOf'[d] = calls'[d].scope
    BY DEF ScopeOf
  <2> QED
    BY <2>1
<1>7. ASSUME NEW t \in gate'.active
      PROVE  HasOwner(t)'
  <2>1. CASE \E d \in Caller : ScopeOf[d] = t /\ d \in gate'.granted
    BY <2>1, <1>6 DEF ScopeOf, HasOwner
  <2>2. CASE t \in gate.active /\ t # s
    <3>1. t \in Scope /\ HasOwner(t)
      BY <2>2, <1>1 DEF GateKept, NoSlotLeak, GateOK, Gate
    <3>2. CASE Holder(t)
      <4>1. Holder(t)'
        BY <2>2, <3>1, <3>2
      <4> QED
        BY <4>1 DEF Holder, HasOwner, Live
    <3>3. CASE \E d \in Caller : calls[d].scope = t /\ d \in gate.granted
      BY <3>3, <1>4, <1>6 DEF HasOwner
    <3> QED
      BY <3>1, <3>2, <3>3 DEF HasOwner, Holder
  <2> QED
    BY <1>4, <2>1, <2>2
<1>8. NoSlotLeak'
  BY <1>7 DEF NoSlotLeak
<1> QED
  BY <1>5, <1>8 DEF GateKept

\* Every step keeps the gate within its limit, its queue for a full gate,
\* and an owner for each slot.
LEMMA GateStep ==
  ASSUME TypeOK, GateKept, LiveSessionIntact, [Next]_vars
  PROVE  GateKept'
<1> USE DEF Stage, workers
<1>1. ASSUME NEW c \in Caller, ReuseSession(c)
      PROVE  GateKept'
  <2>1. gate' = gate /\ ScopeOf' = ScopeOf
    BY <1>1, MovedCalls DEF ReuseSession, ScopeOf
  <2>2. ASSUME NEW s \in Scope, HasOwner(s)
        PROVE  HasOwner(s)'
    BY <1>1, <2>2, MovedCalls DEF ReuseSession, HasOwner, Live, Creating
  <2> QED
    BY <2>1, <2>2, SameGateKept
<1>2. ASSUME NEW c \in Caller, RefuseOtherMode(c)
      PROVE  GateKept'
  <2>1. gate' = gate /\ ScopeOf' = ScopeOf
    BY <1>2, MovedCalls DEF RefuseOtherMode, ScopeOf
  <2>2. ASSUME NEW s \in Scope, HasOwner(s)
        PROVE  HasOwner(s)'
    BY <1>2, <2>2, MovedCalls DEF RefuseOtherMode, HasOwner, Live, Creating
  <2> QED
    BY <2>1, <2>2, SameGateKept
<1>3. ASSUME NEW c \in Caller, RequestSession(c)
      PROVE  GateKept'
  <2> DEFINE s == calls[c].scope
  <2>1. s \in Scope /\ ScopeOf[c] = s
    BY DEF TypeOK, ScopeOf
  <2>2. /\ gate' = Acquire(gate, c, s)
        /\ ScopeOf' = ScopeOf
        /\ \A d \in Caller : calls'[d].scope = calls[d].scope
    BY <1>3, MovedCalls DEF RequestSession, ScopeOf
  <2>3. /\ GateOK(gate') /\ Matches(gate', ScopeOf)
        /\ gate.granted \subseteq gate'.granted
        /\ \A t \in gate'.active : t \in gate.active \/ (t = s /\ c \in gate'.granted)
    BY <2>1, <2>2, AcquireOwned DEF GateKept, QueueMatches
  <2>4. ASSUME NEW t \in gate'.active
        PROVE  HasOwner(t)'
    <3>1. CASE t = s /\ c \in gate'.granted
      BY <3>1, <2>2 DEF HasOwner
    <3>2. CASE t \in gate.active
      <4>1. HasOwner(t)
        BY <3>2 DEF GateKept, NoSlotLeak
      <4> QED
        BY <4>1, <1>3, <2>2, <2>3, MovedCalls
           DEF RequestSession, HasOwner, Live, Creating
    <3> QED
      BY <3>1, <3>2, <2>3
  <2>5. NoSlotLeak'
    BY <2>4 DEF NoSlotLeak
  <2>6. GateOK(gate)' /\ QueueMatches'
    BY <2>2, <2>3 DEF GateOK, Gate, QueueMatches, Matches
  <2> QED
    BY <2>5, <2>6 DEF GateKept
<1>4. ASSUME NEW c \in Caller, StartWorker(c)
      PROVE  GateKept'
  <2>1. /\ gate.active = gate'.active /\ gate.queue = gate'.queue
        /\ gate'.granted = gate.granted \ {c}
        /\ gate' \in Gate
    BY <1>4 DEF StartWorker, Resume, GateKept, GateOK, Gate
  <2>2. ScopeOf' = ScopeOf
    BY <1>4, MovedCalls DEF StartWorker, ScopeOf
  <2>3. GateOK(gate)' /\ QueueMatches'
    BY <2>1, <2>2 DEF GateKept, GateOK, QueueMatches, Matches
  <2>4. ASSUME NEW t \in gate'.active
        PROVE  HasOwner(t)'
    <3>1. HasOwner(t)
      BY <2>1 DEF GateKept, NoSlotLeak
    <3> QED
      BY <3>1, <1>4, <2>1, MovedCalls DEF StartWorker, HasOwner, Live, Creating
  <2>5. NoSlotLeak'
    BY <2>4 DEF NoSlotLeak
  <2> QED
    BY <2>3, <2>5 DEF GateKept
<1>5. ASSUME NEW c \in Caller, StartFailed(c)
      PROVE  GateKept'
  <2> DEFINE s == calls[c].scope
  <2>1. s \in Scope
    BY DEF TypeOK
  <2>2. /\ gate' = Release(gate, s) \/ gate' = Release(Release(gate, s), s)
        /\ ScopeOf' = ScopeOf
    BY <1>5, MovedCalls DEF StartFailed, ScopeOf
  <2>3. ASSUME NEW t \in Scope, t # s, Holder(t)
        PROVE  Holder(t)'
    BY <1>5, <2>3, MovedCalls DEF StartFailed, Holder, Live, Creating
  <2> QED
    BY <2>1, <2>2, <2>3, ReleasedGateKept
<1>6. ASSUME NEW c \in Caller, RegisterCallback(c)
      PROVE  GateKept'
  <2>1. gate' = gate /\ ScopeOf' = ScopeOf
    BY <1>6, MovedCalls DEF RegisterCallback, ScopeOf
  <2>2. ASSUME NEW s \in Scope, HasOwner(s)
        PROVE  HasOwner(s)'
    BY <1>6, <2>2, MovedCalls DEF RegisterCallback, HasOwner, Live, Creating
  <2> QED
    BY <2>1, <2>2, SameGateKept
<1>7. ASSUME NEW c \in Caller, HandoverFailed(c)
      PROVE  GateKept'
  <2> DEFINE s == calls[c].scope
  <2>1. s \in Scope
    BY DEF TypeOK
  <2>2. /\ gate' = Release(gate, s) \/ gate' = Release(Release(gate, s), s)
        /\ ScopeOf' = ScopeOf
    BY <1>7, MovedCalls DEF HandoverFailed, ScopeOf
  <2>3. ASSUME NEW t \in Scope, t # s, Holder(t)
        PROVE  Holder(t)'
    BY <1>7, <2>3, MovedCalls DEF HandoverFailed, Holder, Live, Creating
  <2> QED
    BY <2>1, <2>2, <2>3, ReleasedGateKept
<1>8. ASSUME NEW c \in Caller, SendPost(c)
      PROVE  GateKept'
  <2>1. gate' = gate /\ ScopeOf' = ScopeOf
    BY <1>8, MovedCalls DEF SendPost, ScopeOf
  <2>2. ASSUME NEW s \in Scope, HasOwner(s)
        PROVE  HasOwner(s)'
    BY <1>8, <2>2, MovedCalls DEF SendPost, HasOwner, Live, Creating
  <2> QED
    BY <2>1, <2>2, SameGateKept
<1>9. ASSUME NEW c \in Caller, AcceptPost(c)
      PROVE  GateKept'
  <2>1. gate' = gate /\ ScopeOf' = ScopeOf
    BY <1>9, MovedCalls DEF AcceptPost, ScopeOf, StartLoop
  <2>2. ASSUME NEW s \in Scope, HasOwner(s)
        PROVE  HasOwner(s)'
    BY <1>9, <2>2, MovedCalls DEF AcceptPost, HasOwner, Live, Creating, StartLoop
  <2> QED
    BY <2>1, <2>2, SameGateKept
<1>10. ASSUME NEW c \in Caller, AcceptLate(c)
      PROVE  GateKept'
  <2>1. gate' = gate /\ ScopeOf' = ScopeOf
    BY <1>10, MovedCalls DEF AcceptLate, ScopeOf, StartLoop
  <2>2. ASSUME NEW s \in Scope, HasOwner(s)
        PROVE  HasOwner(s)'
    BY <1>10, <2>2, MovedCalls DEF AcceptLate, HasOwner, Live, Creating, StartLoop
  <2> QED
    BY <2>1, <2>2, SameGateKept
<1>11. ASSUME NEW c \in Caller, PostFailed(c)
      PROVE  GateKept'
  <2> DEFINE s == calls[c].scope
  <2>1. s \in Scope
    BY DEF TypeOK
  <2>2. /\ gate' = Release(gate, s) \/ gate' = Release(Release(gate, s), s)
        /\ ScopeOf' = ScopeOf
    BY <1>11, MovedCalls DEF PostFailed, ScopeOf
  <2>3. ASSUME NEW t \in Scope, t # s, Holder(t)
        PROVE  Holder(t)'
    BY <1>11, <2>3, MovedCalls DEF PostFailed, Holder, Live, Creating
  <2> QED
    BY <2>1, <2>2, <2>3, ReleasedGateKept
<1>12. ASSUME NEW c \in Caller, SessionCreated(c)
      PROVE  GateKept'
  <2>1. gate' = gate /\ ScopeOf' = ScopeOf
    BY <1>12, MovedCalls DEF SessionCreated, ScopeOf
  <2>2. ASSUME NEW s \in Scope, HasOwner(s)
        PROVE  HasOwner(s)'
    <3>1. /\ \A d \in Caller : calls'[d].scope = calls[d].scope
          /\ \A d \in Caller : d # c => calls'[d].stage = calls[d].stage
          /\ calls[c].scope \in Scope
      BY <1>12, MovedCalls DEF SessionCreated, TypeOK
    <3>2. CASE s = calls[c].scope
      BY <1>12, <3>1, <3>2, NoneAssumption DEF SessionCreated, HasOwner, Live, TypeOK
    <3>3. CASE s # calls[c].scope
      BY <1>12, <2>2, <3>1, <3>3 DEF SessionCreated, HasOwner, Live, TypeOK
    <3> QED
      BY <3>2, <3>3
  <2> QED
    BY <2>1, <2>2, SameGateKept
<1>13. ASSUME NEW scopes \in SUBSET Scope, NEW fired, BeginClose(scopes, fired)
       PROVE  GateKept'
  <2>1. gate' = gate /\ ScopeOf' = ScopeOf /\ calls' = calls
    BY <1>13 DEF BeginClose, ScopeOf
  <2>2. ASSUME NEW s \in Scope, HasOwner(s)
        PROVE  HasOwner(s)'
    <3>1. CASE s \in scopes /\ Live(s)
      <4>1. sessions[s] \in closing'
        BY <1>13, <3>1 DEF BeginClose
      <4>2. sessions[s] \in Caller /\ calls[sessions[s]].scope = s
        BY <3>1 DEF LiveSessionIntact, Live, TypeOK
      <4> QED
        BY <4>1, <4>2, <2>1 DEF HasOwner
    <3>2. CASE s \notin scopes /\ Live(s)
      BY <1>13, <3>2 DEF BeginClose, HasOwner, Live
    <3>3. CASE ~Live(s)
      BY <1>13, <2>1, <2>2, <3>3 DEF BeginClose, HasOwner
    <3> QED
      BY <3>1, <3>2, <3>3
  <2> QED
    BY <2>1, <2>2, SameGateKept
<1>14. ASSUME NEW c \in Caller, DeleteArrives(c)
       PROVE  GateKept'
  <2>1. gate' = gate /\ ScopeOf' = ScopeOf
    BY <1>14 DEF DeleteArrives, ScopeOf
  <2>2. \A s \in Scope : HasOwner(s) => HasOwner(s)'
    BY <1>14 DEF DeleteArrives, HasOwner, Live
  <2> QED
    BY <2>1, <2>2, SameGateKept
<1>15. ASSUME NEW c \in Caller, CloseSettled(c)
      PROVE  GateKept'
  <2> DEFINE s == calls[c].scope
  <2>1. s \in Scope
    BY DEF TypeOK
  <2>2. /\ gate' = Release(gate, s) \/ gate' = Release(Release(gate, s), s)
        /\ ScopeOf' = ScopeOf
    BY <1>15, MovedCalls DEF CloseSettled, ScopeOf
  <2>3. ASSUME NEW t \in Scope, t # s, Holder(t)
        PROVE  Holder(t)'
    BY <1>15, <2>3, MovedCalls DEF CloseSettled, Holder, Live, Creating
  <2> QED
    BY <2>1, <2>2, <2>3, ReleasedGateKept
<1>16. ASSUME OrchestratorRestarts
       PROVE  GateKept'
  <2>1. gate' = OpenGate
    BY <1>16 DEF OrchestratorRestarts
  <2>2. GateOK(gate)' /\ QueueMatches' /\ NoSlotLeak'
    BY <2>1, OpenGateOK
       DEF OpenGate, GateOK, Gate, QueueMatches, Matches, NoSlotLeak
  <2> QED
    BY <2>2 DEF GateKept
<1>17. ASSUME UNCHANGED vars
       PROVE  GateKept'
  <2>1. gate' = gate /\ ScopeOf' = ScopeOf
    BY <1>17 DEF vars, ScopeOf
  <2>2. \A s \in Scope : HasOwner(s) => HasOwner(s)'
    BY <1>17 DEF vars, HasOwner, Live
  <2> QED
    BY <2>1, <2>2, SameGateKept
<1>18. ASSUME NEW w \in Worker, WorkerRestarts(w)
       PROVE  GateKept'
  <2>1. gate' = gate /\ ScopeOf' = ScopeOf
    BY <1>18 DEF WorkerRestarts, ScopeOf
  <2>2. \A s \in Scope : HasOwner(s) => HasOwner(s)'
    BY <1>18 DEF WorkerRestarts, HasOwner, Live
  <2> QED
    BY <2>1, <2>2, SameGateKept
<1>19. \A c \in Caller : IdleTimerFires(c) => BeginClose({calls[c].scope}, {c})
                                               /\ {calls[c].scope} \in SUBSET Scope
  BY DEF IdleTimerFires, TypeOK
<1> QED
  BY <1>1, <1>2, <1>3, <1>4, <1>5, <1>6, <1>7, <1>8, <1>9, <1>10, <1>11,
     <1>12, <1>13, <1>14, <1>15, <1>16, <1>17, <1>18, <1>19
     DEF Next, Ensure, Launch, Create, CloseSession, CloseAll

------------------------------------------------------------------------------
(* Live sessions keep their token, timer and name. *)

LiveKept ==
  LiveSessionIntact /\ LiveOwnsItsName /\ CreatingRegistered /\ ClosingIsGone

\* A creation, a failure or a settled close touches the token of its own
\* session only, and that session is not live.
LEMMA LiveStep ==
  ASSUME TypeOK, LiveKept, [Next]_vars
  PROVE  LiveKept'
<1> USE DEF Stage, workers, LiveKept, LiveSessionIntact, LiveOwnsItsName,
            CreatingRegistered, ClosingIsGone, Live
<1>0. ASSUME NEW c \in Caller, NEW st \in Stage,
             calls' = Moved(c, st), calls[c].stage # "ready",
             UNCHANGED <<sessions, closing>>,
             idleTimers \subseteq idleTimers', callbacks \ {c} \subseteq callbacks',
             st \in {"preparing", "posting", "accepted"} => c \in callbacks'
      PROVE  LiveKept'
  <2>1. /\ \A d \in Caller : calls'[d].scope = calls[d].scope
        /\ \A d \in Caller : d # c => calls'[d].stage = calls[d].stage
        /\ calls'[c].stage = st
    BY <1>0, MovedCalls
  <2>2. \A s \in Scope : Live(s) => sessions[s] \in Caller /\ sessions[s] # c
    BY <1>0 DEF TypeOK
  <2>3. LiveSessionIntact'
    BY <1>0, <2>1, <2>2
  <2>4. LiveOwnsItsName'
    BY <1>0, <2>1, <2>2
  <2>5. CreatingRegistered'
    <3> SUFFICES ASSUME NEW d \in Caller,
                        calls'[d].stage \in {"preparing", "posting", "accepted"}
                 PROVE  d \in callbacks'
      OBVIOUS
    <3>1. CASE d = c
      BY <1>0, <2>1, <3>1
    <3>2. CASE d # c
      BY <1>0, <2>1, <3>2
    <3> QED
      BY <3>1, <3>2
  <2>6. ClosingIsGone'
    BY <1>0, <2>1 DEF TypeOK
  <2> QED
    BY <2>3, <2>4, <2>5, <2>6
<1>1. ASSUME NEW c \in Caller, ReuseSession(c)
      PROVE  LiveKept'
  BY <1>1, <1>0 DEF ReuseSession
<1>2. ASSUME NEW c \in Caller, RefuseOtherMode(c)
      PROVE  LiveKept'
  BY <1>2, <1>0 DEF RefuseOtherMode
<1>3. ASSUME NEW c \in Caller, RequestSession(c)
      PROVE  LiveKept'
  BY <1>3, <1>0 DEF RequestSession
<1>4. ASSUME NEW c \in Caller, StartWorker(c)
      PROVE  LiveKept'
  BY <1>4, <1>0 DEF StartWorker
<1>5. ASSUME NEW c \in Caller, StartFailed(c)
      PROVE  LiveKept'
  BY <1>5, <1>0 DEF StartFailed
<1>6. ASSUME NEW c \in Caller, RegisterCallback(c)
      PROVE  LiveKept'
  BY <1>6, <1>0 DEF RegisterCallback
<1>7. ASSUME NEW c \in Caller, HandoverFailed(c)
      PROVE  LiveKept'
  BY <1>7, <1>0 DEF HandoverFailed
<1>8. ASSUME NEW c \in Caller, SendPost(c)
      PROVE  LiveKept'
  BY <1>8, <1>0 DEF SendPost
<1>9. ASSUME NEW c \in Caller, AcceptPost(c)
      PROVE  LiveKept'
  BY <1>9, <1>0 DEF AcceptPost, StartLoop
<1>10. ASSUME NEW c \in Caller, AcceptLate(c)
      PROVE  LiveKept'
  BY <1>10, <1>0 DEF AcceptLate, StartLoop
<1>11. ASSUME NEW c \in Caller, PostFailed(c)
      PROVE  LiveKept'
  BY <1>11, <1>0 DEF PostFailed
<1>12. ASSUME NEW c \in Caller, SessionCreated(c)
       PROVE  LiveKept'
  <2> DEFINE s == calls[c].scope
  <2>1. /\ \A d \in Caller : calls'[d].scope = calls[d].scope
        /\ \A d \in Caller : d # c => calls'[d].stage = calls[d].stage
        /\ calls'[c].stage = "ready"
    BY <1>12, MovedCalls DEF SessionCreated
  <2>2. /\ calls[c].stage = "accepted" /\ s \in Scope
        /\ sessions' = [sessions EXCEPT ![s] = c]
        /\ idleTimers' = idleTimers \cup {c}
        /\ callbacks' = callbacks /\ closing' = closing
    BY <1>12 DEF SessionCreated, TypeOK
  <2>3. sessions'[s] = c /\ \A t \in Scope : t # s => sessions'[t] = sessions[t]
    BY <2>2 DEF TypeOK
  <2>4. c \in callbacks /\ c \notin closing
    BY <2>2
  <2>5. \A t \in Scope : t # s /\ sessions[t] # None => sessions[t] \in Caller /\ sessions[t] # c
    BY <2>2 DEF TypeOK
  <2> HIDE DEF s
  <2>6. LiveSessionIntact'
    BY <2>1, <2>2, <2>3, <2>4, <2>5 DEF s
  <2>7. LiveOwnsItsName'
    BY <2>1, <2>2, <2>3, <2>4, <2>5
  <2>8. CreatingRegistered' /\ ClosingIsGone'
    BY <2>1, <2>2 DEF TypeOK
  <2> QED
    BY <2>6, <2>7, <2>8
<1>13. ASSUME NEW scopes \in SUBSET Scope, NEW fired \in SUBSET Caller,
              \A d \in fired : calls[d].scope \in scopes,
              BeginClose(scopes, fired)
       PROVE  LiveKept'
  <2> DEFINE gone == { sessions[s] : s \in { t \in scopes : Live(t) } }
  <2>1. /\ sessions' = [s \in Scope |-> IF s \in scopes THEN None ELSE sessions[s]]
        /\ idleTimers' = idleTimers \ (gone \cup fired)
        /\ closing' = closing \cup gone
        /\ calls' = calls /\ callbacks' = callbacks
    BY <1>13 DEF BeginClose
  <2>2. \A s \in Scope : sessions'[s] # None => s \notin scopes /\ sessions'[s] = sessions[s]
    BY <2>1
  <2>3. \A d \in gone : calls[d].stage = "ready" /\ calls[d].scope \in scopes
    OBVIOUS
  <2>4. \A s \in Scope : sessions'[s] # None => sessions[s] \notin gone \cup fired
    BY <1>13, <2>2, <2>3
  <2> HIDE DEF gone
  <2> QED
    BY <2>1, <2>2, <2>3, <2>4
<1>14. ASSUME NEW c \in Caller, DeleteArrives(c)
       PROVE  LiveKept'
  BY <1>14 DEF DeleteArrives
<1>15. ASSUME NEW c \in Caller, CloseSettled(c)
       PROVE  LiveKept'
  BY <1>15 DEF CloseSettled, TypeOK
<1>16. ASSUME OrchestratorRestarts
       PROVE  LiveKept'
  BY <1>16 DEF OrchestratorRestarts, TypeOK
<1>17. ASSUME UNCHANGED vars
       PROVE  LiveKept'
  BY <1>17 DEF vars
<1>18. ASSUME NEW w \in Worker, WorkerRestarts(w)
       PROVE  LiveKept'
  BY <1>18 DEF WorkerRestarts
<1>19. \A c \in Caller : IdleTimerFires(c) =>
         /\ BeginClose({calls[c].scope}, {c})
         /\ {calls[c].scope} \in SUBSET Scope /\ {c} \in SUBSET Caller
         /\ \A d \in {c} : calls[d].scope \in {calls[c].scope}
  BY DEF IdleTimerFires, TypeOK
<1>20. \A scopes \in SUBSET Scope : BeginClose(scopes, {}) => LiveKept'
  BY <1>13
<1> QED
  BY <1>1, <1>2, <1>3, <1>4, <1>5, <1>6, <1>7, <1>8, <1>9, <1>10, <1>11,
     <1>12, <1>13, <1>14, <1>15, <1>16, <1>17, <1>18, <1>19, <1>20
     DEF Next, Ensure, Launch, Create, CloseSession, CloseAll

------------------------------------------------------------------------------
(* A worker process runs one loop per scope. *)

\* A session that is sent has been given a process.
LEMMA SentStep ==
  ASSUME TypeOK, SentSomewhere, [Next]_vars
  PROVE  SentSomewhere'
<1> USE DEF Stage, workers, SentSomewhere
<1>1. ASSUME NEW c \in Caller, NEW st \in Stage, calls' = Moved(c, st),
             workerUrl' = workerUrl,
             st \in {"preparing", "posting", "accepted", "abandoned"}
               => workerUrl[c] \in Worker
      PROVE  SentSomewhere'
  BY <1>1, MovedCalls
<1>2. ASSUME NEW c \in Caller, RegisterCallback(c)
      PROVE  SentSomewhere'
  BY <1>2, MovedCalls DEF RegisterCallback, TypeOK
<1>3. ASSUME OrchestratorRestarts
      PROVE  SentSomewhere'
  BY <1>3 DEF OrchestratorRestarts, TypeOK
<1>4. ASSUME UNCHANGED <<calls, workerUrl>>
      PROVE  SentSomewhere'
  BY <1>4
<1>5. ASSUME NEW c \in Caller,
             Ensure(c) \/ Launch(c) \/ Create(c) \/ AcceptLate(c)
      PROVE  SentSomewhere'
  <2>1. ASSUME Ensure(c)
        PROVE  SentSomewhere'
    BY <1>1, <2>1 DEF Ensure, ReuseSession, RefuseOtherMode, RequestSession
  <2>2. ASSUME Launch(c)
        PROVE  SentSomewhere'
    BY <1>1, <1>2, <2>2 DEF Launch, StartFailed, HandoverFailed, SendPost
  <2>3. ASSUME Create(c)
        PROVE  SentSomewhere'
    BY <1>1, <2>3 DEF Create, StartWorker, AcceptPost, StartLoop, PostFailed, SessionCreated
  <2>4. ASSUME AcceptLate(c)
        PROVE  SentSomewhere'
    BY <1>1, <2>4 DEF AcceptLate, StartLoop
  <2> QED
    BY <1>5, <2>1, <2>2, <2>3, <2>4
<1> QED
  BY <1>3, <1>4, <1>5
     DEF Next, IdleTimerFires, DeleteArrives, CloseSettled, CloseSession,
         CloseAll, BeginClose, WorkerRestarts, vars

\* A new loop takes the scope's entry of its process's table from the loop it
\* evicts; a DELETE clears the entries of the loop it stops.  A session that is
\* given a process has no loop yet.
LEMMA LoopStep ==
  ASSUME TypeOK, SentSomewhere, LoopsNamed, [Next]_vars
  PROVE  LoopsNamed'
<1> USE DEF Stage, workers, LoopsNamed, Taken
<1>1. ASSUME NEW c \in Caller, NEW st \in Stage, calls' = Moved(c, st),
             calls[c].stage \in Taken => st \in Taken,
             \A d \in loops : workerUrl'[d] = workerUrl[d],
             UNCHANGED <<loops, scopeOwner>>
      PROVE  LoopsNamed'
  <2>1. /\ \A d \in Caller : calls'[d].scope = calls[d].scope
        /\ \A d \in Caller : d # c => calls'[d].stage = calls[d].stage
        /\ calls'[c].stage = st
    BY <1>1, MovedCalls
  <2>2. loops \subseteq Caller
    BY DEF TypeOK
  <2>3. \A d \in loops : calls'[d].stage \in Taken
    BY <1>1, <2>1, <2>2
  <2> QED
    BY <1>1, <2>1, <2>2, <2>3
<1>2. ASSUME NEW c \in Caller, calls[c].stage \in {"posting", "abandoned"},
             NEW st \in Taken, calls' = Moved(c, st),
             StartLoop(c, calls[c].scope)
      PROVE  LoopsNamed'
  <2> DEFINE w == workerUrl[c]
             s == calls[c].scope
  <2>1. /\ w \in Worker /\ s \in Scope /\ c \notin loops
        /\ loops' = (loops \ {scopeOwner[w][s]}) \cup {c}
        /\ scopeOwner' = [scopeOwner EXCEPT ![w][s] = c]
        /\ workerUrl' = workerUrl
    BY <1>2 DEF StartLoop, SentSomewhere, TypeOK
  <2>2. /\ \A d \in Caller : calls'[d].scope = calls[d].scope
        /\ \A d \in Caller : d # c => calls'[d].stage = calls[d].stage
        /\ calls'[c].stage = st
    BY <1>2, MovedCalls
  <2>3. /\ scopeOwner'[w][s] = c
        /\ \A v \in Worker, t \in Scope :
             v # w \/ t # s => scopeOwner'[v][t] = scopeOwner[v][t]
    BY <2>1 DEF TypeOK
  <2>4. ASSUME NEW d \in loops', d # c
        PROVE  /\ calls'[d].stage \in Taken
               /\ workerUrl'[d] \in Worker
               /\ scopeOwner'[workerUrl'[d]][calls'[d].scope] = d
    <3>1. /\ d \in loops /\ d \in Caller /\ d # scopeOwner[w][s]
          /\ calls[d].scope \in Scope
      BY <2>1, <2>4 DEF TypeOK
    <3>2. workerUrl[d] # w \/ calls[d].scope # s
      BY <3>1
    <3> HIDE DEF w, s
    <3> QED
      BY <2>1, <2>2, <2>3, <2>4, <3>1, <3>2
  <2> QED
    BY <2>1, <2>2, <2>3, <2>4
<1>3. ASSUME NEW c \in Caller, DeleteArrives(c)
      PROVE  LoopsNamed'
  <2> DEFINE w == workerUrl[c]
             left == [s \in Scope |->
                        IF scopeOwner[w][s] = c THEN None ELSE scopeOwner[w][s]]
  <2>1. /\ c \in loops /\ loops' = loops \ {c} /\ w \in Worker
        /\ scopeOwner' = [scopeOwner EXCEPT ![w] = left]
        /\ workerUrl' = workerUrl /\ calls' = calls
    BY <1>3 DEF DeleteArrives, TypeOK
  <2>2. /\ scopeOwner'[w] = left
        /\ \A v \in Worker : v # w => scopeOwner'[v] = scopeOwner[v]
    BY <2>1 DEF TypeOK
  <2>3. ASSUME NEW d \in loops'
        PROVE  scopeOwner'[workerUrl[d]][calls[d].scope] = d
    <3>1. d \in loops /\ d # c /\ calls[d].scope \in Scope /\ workerUrl[d] \in Worker
      BY <2>1 DEF TypeOK
    <3>2. scopeOwner[workerUrl[d]][calls[d].scope] = d
      BY <3>1
    <3>3. CASE workerUrl[d] = w
      BY <2>2, <3>1, <3>2, <3>3
    <3>4. CASE workerUrl[d] # w
      BY <2>2, <3>1, <3>2, <3>4
    <3> QED
      BY <3>3, <3>4
  <2> QED
    BY <2>1, <2>3
<1>4. ASSUME OrchestratorRestarts
      PROVE  LoopsNamed'
  <2>1. \A d \in Caller : calls'[d].scope = calls[d].scope
    BY <1>4 DEF OrchestratorRestarts, TypeOK
  <2>2. \A d \in Caller : calls[d].stage \in Taken => calls'[d].stage \in Taken
    BY <1>4 DEF OrchestratorRestarts, TypeOK
  <2>3. loops' = loops /\ scopeOwner' = scopeOwner /\ workerUrl' = workerUrl
    BY <1>4 DEF OrchestratorRestarts
  <2>4. loops \subseteq Caller
    BY DEF TypeOK
  <2> QED
    BY <2>1, <2>2, <2>3, <2>4
<1>5. ASSUME NEW w \in Worker, WorkerRestarts(w)
      PROVE  LoopsNamed'
  BY <1>5 DEF WorkerRestarts, TypeOK
<1>6. ASSUME UNCHANGED <<calls, workerUrl, loops, scopeOwner>>
      PROVE  LoopsNamed'
  BY <1>6
<1>7. ASSUME NEW c \in Caller, RegisterCallback(c)
      PROVE  LoopsNamed'
  <2>1. c \notin loops
    BY <1>7 DEF RegisterCallback
  <2>2. \A d \in loops : workerUrl'[d] = workerUrl[d]
    BY <1>7, <2>1 DEF RegisterCallback, TypeOK
  <2> QED
    BY <1>1, <1>7, <2>2 DEF RegisterCallback
<1>8. ASSUME NEW c \in Caller, Ensure(c) \/ Launch(c) \/ Create(c)
      PROVE  LoopsNamed'
  <2>1. CASE Ensure(c)
    BY <1>1, <2>1 DEF Ensure, ReuseSession, RefuseOtherMode, RequestSession
  <2>2. CASE Launch(c)
    BY <1>1, <1>7, <2>2 DEF Launch, StartFailed, HandoverFailed, SendPost
  <2>3. CASE Create(c)
    <3>1. CASE AcceptPost(c)
      BY <1>2, <3>1 DEF AcceptPost
    <3>2. CASE PostFailed(c)
      BY <1>1, <3>2 DEF PostFailed
    <3>3. CASE StartWorker(c) \/ SessionCreated(c)
      BY <1>1, <3>3 DEF StartWorker, SessionCreated
    <3> QED
      BY <2>3, <3>1, <3>2, <3>3 DEF Create
  <2> QED
    BY <1>8, <2>1, <2>2, <2>3
<1>9. ASSUME NEW c \in Caller, AcceptLate(c)
      PROVE  LoopsNamed'
  BY <1>2, <1>9 DEF AcceptLate
<1> QED
  BY <1>3, <1>4, <1>5, <1>6, <1>8, <1>9
     DEF Next, IdleTimerFires, CloseSettled, CloseSession,
         CloseAll, BeginClose, vars

------------------------------------------------------------------------------
(* The inductive invariant and what it gives *)

IInv == TypeOK /\ GateKept /\ LiveKept /\ SentSomewhere /\ LoopsNamed

\* The invariant holds at the start: no slot, session or loop exists.
LEMMA IInvInit == Init => IInv
<1> SUFFICES ASSUME Init
             PROVE  IInv
  OBVIOUS
<1>1. TypeOK
  <2>1. gate \in Gate
    BY OpenGateOK DEF Init, GateOK
  <2> QED
    BY <2>1, RestartsAssumption DEF Init, NoSessions, TypeOK, Stage
<1>2. GateKept
  BY OpenGateOK
     DEF Init, OpenGate, GateKept, QueueMatches, Matches, NoSlotLeak
<1>3. LiveKept /\ SentSomewhere /\ LoopsNamed
  BY DEF Init, SentSomewhere, LiveKept, LiveSessionIntact, LiveOwnsItsName,
         CreatingRegistered, ClosingIsGone, LoopsNamed, Live
<1> QED
  BY <1>1, <1>2, <1>3 DEF IInv

\* Every step keeps it.
LEMMA IInvStep == IInv /\ [Next]_vars => IInv'
<1> SUFFICES ASSUME IInv, [Next]_vars
             PROVE  IInv'
  OBVIOUS
<1>1. GateKept'
  BY GateStep DEF IInv, LiveKept
<1>2. gate' \in Gate
  BY <1>1 DEF GateKept, GateOK
<1>3. TypeOK' /\ LiveKept' /\ SentSomewhere' /\ LoopsNamed'
  BY <1>2, TypeStep, LiveStep, SentStep, LoopStep DEF IInv
<1> QED
  BY <1>1, <1>3 DEF IInv

\* The invariant holds in every reachable state.
THEOREM Invariance == Spec => []IInv
BY IInvInit, IInvStep, PTL DEF Spec

\* Type correctness of the session lifecycle.
THEOREM TypeCorrect == Spec => []TypeOK
<1>1. IInv => TypeOK
  BY DEF IInv
<1> QED
  BY <1>1, Invariance, PTL

\* The gate's limit holds for every number of slots: ConcurrencyGate's
\* acquire() and release(), called twice by a failed POST too.
THEOREM GateWithinLimit == Spec => []SlotLimit
<1>1. IInv => SlotLimit
  BY DEF IInv, GateKept, GateOK, SlotLimit
<1> QED
  BY <1>1, Invariance, PTL

\* Nobody waits for a slot that is free.
THEOREM WaitersOnlyWhenFull == Spec => []NoIdleSlot
<1>1. IInv => NoIdleSlot
  BY DEF IInv, GateKept, GateOK, NoIdleSlot
<1> QED
  BY <1>1, Invariance, PTL

\* Every slot has somebody to give it back: a creation, a live session or a
\* close under way, however they overlap.
THEOREM SlotsHaveOwners == Spec => []NoSlotLeak
<1>1. IInv => NoSlotLeak
  BY DEF IInv, GateKept
<1> QED
  BY <1>1, Invariance, PTL

\* A live session keeps its callback token and its idle timer.
THEOREM LiveSessionsIntact == Spec => []LiveSessionIntact
<1>1. IInv => LiveSessionIntact
  BY DEF IInv, LiveKept
<1> QED
  BY <1>1, Invariance, PTL

\* A worker process never runs two loops for one scope, whichever processes the
\* sessions of the scope are sent to.
THEOREM OneLoop == Spec => []OneLoopPerScope
<1>1. IInv => OneLoopPerScope
  BY DEF IInv, LoopsNamed, OneLoopPerScope
<1> QED
  BY <1>1, Invariance, PTL

------------------------------------------------------------------------------
(* Sub-agents: who waits at the gate *)

Queued(g) == FirstCallers(g.queue, Len(g.queue))

Awaited(g) == g.granted \cup Queued(g)

\* A call waits once: at one place of the queue, or granted.
Once(g) ==
  /\ \A i, j \in 1..Len(g.queue) : g.queue[i].caller = g.queue[j].caller => i = j
  /\ Queued(g) \cap g.granted = {}

\* A call that does not wait enters the gate, and waits there once.
LEMMA AcquireOnce ==
  ASSUME NEW g, GateOK(g), Once(g), NEW c \in Caller, c \notin Awaited(g),
         NEW s \in Scope
  PROVE  /\ GateOK(Acquire(g, c, s)) /\ Once(Acquire(g, c, s))
         /\ Awaited(Acquire(g, c, s)) = Awaited(g) \cup {c}
<1> DEFINE h == Acquire(g, c, s)
           w == [scope |-> s, caller |-> c]
<1>1. g \in Gate /\ g.queue \in Seq(Waiter)
  BY DEF GateOK, Gate
<1>2. GateOK(h)
  BY AcquireKeepsGate
<1>3. CASE s \in g.active \/ HasRoom(g.active)
  <2>1. h = [g EXCEPT !.active = @ \cup {s}, !.granted = @ \cup {c}]
    BY <1>3 DEF Acquire
  <2>2. h.queue = g.queue /\ h.granted = g.granted \cup {c}
    BY <2>1, <1>1 DEF Gate
  <2>3. Once(h) /\ Awaited(h) = Awaited(g) \cup {c}
    BY <2>2 DEF Once, Awaited, Queued
  <2> QED
    BY <1>2, <2>3
<1>4. CASE ~(s \in g.active \/ HasRoom(g.active))
  <2>1. h = [g EXCEPT !.queue = Append(@, w)]
    BY <1>4 DEF Acquire
  <2>2. h.queue = Append(g.queue, w) /\ h.granted = g.granted
    BY <2>1, <1>1 DEF Gate
  <2>3. /\ Len(h.queue) = Len(g.queue) + 1 /\ Len(g.queue) \in Nat
        /\ \A i \in 1..Len(g.queue) : h.queue[i] = g.queue[i]
        /\ h.queue[Len(g.queue) + 1] = w
    BY <2>2, <1>1, AppendProperties, LenProperties DEF Waiter
  <2>4. Queued(h) = Queued(g) \cup {c}
    <3>1. 1..Len(h.queue) = (1..Len(g.queue)) \cup {Len(g.queue) + 1}
      BY <2>3
    <3>2. h.queue[Len(g.queue) + 1].caller = c
      BY <2>3
    <3> HIDE DEF h, w
    <3>3. Queued(h) = { h.queue[i].caller : i \in 1..Len(g.queue) } \cup {c}
      BY <3>1, <3>2 DEF Queued, FirstCallers
    <3> QED
      BY <2>3, <3>3 DEF Queued, FirstCallers
  <2>5. \A i \in 1..Len(g.queue) : g.queue[i].caller # c
    BY DEF Awaited, Queued, FirstCallers
  <2>6. \A i, j \in 1..Len(h.queue) : h.queue[i].caller = h.queue[j].caller => i = j
    <3> SUFFICES ASSUME NEW i \in 1..Len(h.queue), NEW j \in 1..Len(h.queue),
                        h.queue[i].caller = h.queue[j].caller
                 PROVE  i = j
      OBVIOUS
    <3>1. h.queue[Len(g.queue) + 1].caller = c
      BY <2>3
    <3>2. \/ i \in 1..Len(g.queue) /\ j \in 1..Len(g.queue)
          \/ i = Len(g.queue) + 1 /\ j \in 1..Len(g.queue)
          \/ i \in 1..Len(g.queue) /\ j = Len(g.queue) + 1
          \/ i = j
      BY <2>3
    <3> HIDE DEF h
    <3> QED
      BY <2>3, <2>5, <3>1, <3>2 DEF Once
  <2>7. Once(h) /\ Awaited(h) = Awaited(g) \cup {c}
    BY <2>2, <2>4, <2>6 DEF Once, Awaited
  <2> QED
    BY <1>2, <2>7
<1> QED
  BY <1>3, <1>4

\* release() makes calls granted that were queued, and loses none.
LEMMA ReleaseOnce ==
  ASSUME NEW g, GateOK(g), Once(g), NEW s \in Scope
  PROVE  /\ GateOK(Release(g, s)) /\ Once(Release(g, s))
         /\ Awaited(Release(g, s)) = Awaited(g)
<1> DEFINE h == Release(g, s)
           n == Woken(g.active \ {s}, g.queue)
           l == Len(g.queue)
<1>1. g \in Gate /\ g.queue \in Seq(Waiter)
  BY DEF GateOK, Gate
<1>2. n \in 0..l /\ l \in Nat
  BY <1>1, WokenStops, LenProperties
<1>3. /\ h.queue = SubSeq(g.queue, n + 1, l)
      /\ h.granted = g.granted \cup FirstCallers(g.queue, n)
  BY DEF Release
<1> HIDE DEF n
<1>4. Len(h.queue) = l - n /\ \A i \in 1..(l - n) : h.queue[i] = g.queue[n + i]
  BY <1>1, <1>2, <1>3
<1>5. GateOK(h)
  BY ReleaseKeepsGate
<1> HIDE DEF h, l
<1>6. Queued(h) = { g.queue[i].caller : i \in (n + 1)..l }
  <2>1. ASSUME NEW i \in (n + 1)..l
        PROVE  g.queue[i].caller \in Queued(h)
    <3>1. i - n \in 1..Len(h.queue) /\ h.queue[i - n] = g.queue[i]
      BY <1>2, <1>4
    <3> QED
      BY <3>1 DEF Queued, FirstCallers
  <2>2. ASSUME NEW j \in 1..Len(h.queue)
        PROVE  \E i \in (n + 1)..l : h.queue[j].caller = g.queue[i].caller
    <3>1. n + j \in (n + 1)..l /\ h.queue[j] = g.queue[n + j]
      BY <1>2, <1>4
    <3> QED
      BY <3>1
  <2> DEFINE last == { g.queue[i].caller : i \in (n + 1)..l }
  <2>3. ASSUME NEW x \in Queued(h)
        PROVE  x \in last
    <3>1. PICK j \in 1..Len(h.queue) : x = h.queue[j].caller
      BY DEF Queued, FirstCallers
    <3> QED
      BY <2>2, <3>1
  <2>4. ASSUME NEW x \in last
        PROVE  x \in Queued(h)
    BY <2>1
  <2> QED
    BY <2>3, <2>4
<1>7. Queued(g) = FirstCallers(g.queue, n) \cup Queued(h)
  <2>1. 1..l = (1..n) \cup ((n + 1)..l)
    BY <1>2
  <2> QED
    BY <2>1, <1>6 DEF Queued, FirstCallers, l
<1>8. FirstCallers(g.queue, n) \cap Queued(h) = {}
  <2>1. \A i \in 1..n : \A j \in (n + 1)..l : g.queue[i].caller # g.queue[j].caller
    BY <1>2 DEF Once, l
  <2> QED
    BY <2>1, <1>6 DEF FirstCallers
<1>9. \A i, j \in 1..Len(h.queue) : h.queue[i].caller = h.queue[j].caller => i = j
  <2> SUFFICES ASSUME NEW i \in 1..Len(h.queue), NEW j \in 1..Len(h.queue),
                      h.queue[i].caller = h.queue[j].caller
               PROVE  i = j
    OBVIOUS
  <2>1. n + i \in 1..l /\ n + j \in 1..l
    BY <1>2, <1>4
  <2>2. g.queue[n + i].caller = g.queue[n + j].caller
    BY <1>4
  <2>3. n + i = n + j
    BY <2>1, <2>2 DEF Once, l
  <2> QED
    BY <2>3, <1>2, <1>4
<1>10. Once(h) /\ Awaited(h) = Awaited(g)
  BY <1>3, <1>7, <1>8, <1>9 DEF Once, Awaited
<1> QED
  BY <1>5, <1>10 DEF h

\* The continuation of a granted call takes it from the gate.
LEMMA ResumeOnce ==
  ASSUME NEW g, GateOK(g), Once(g), NEW c \in g.granted
  PROVE  /\ GateOK(Resume(g, c)) /\ Once(Resume(g, c))
         /\ Awaited(Resume(g, c)) = Awaited(g) \ {c}
<1>1. g \in Gate
  BY DEF GateOK
<1>2. /\ Resume(g, c) \in Gate
      /\ Resume(g, c).active = g.active
      /\ Resume(g, c).queue = g.queue
      /\ Resume(g, c).granted = g.granted \ {c}
  BY <1>1 DEF Resume, Gate
<1>3. GateOK(Resume(g, c))
  BY <1>2 DEF GateOK
<1>4. Once(Resume(g, c)) /\ Awaited(Resume(g, c)) = Awaited(g) \ {c}
  BY <1>2 DEF Once, Awaited, Queued
<1> QED
  BY <1>3, <1>4

------------------------------------------------------------------------------
(* Where the calls stand *)

\* The gate and the calls agree: a call is at the gate exactly while it is
\* queued or granted there, and a call that was made has a scope.
CallsKept(g, cs) ==
  /\ GateOK(g) /\ Once(g)
  /\ cs \in [Caller -> Call]
  /\ \A d \in Caller : cs[d].st = "gate" <=> d \in Awaited(g)
  /\ \A d \in Caller : cs[d].st # "unused" => cs[d].scope \in Scope

\* A call that waits is one of the calls.
LEMMA AwaitedCalls ==
  ASSUME NEW g, GateOK(g)
  PROVE  Awaited(g) \subseteq Caller
<1>1. g.queue \in Seq(Waiter) /\ g.granted \subseteq Caller
  BY DEF GateOK, Gate
<1>2. Len(g.queue) \in 0..Len(g.queue)
  BY <1>1, LenProperties
<1> QED
  BY <1>1, <1>2, PrefixScopes DEF Awaited, Queued

\* A scope is in sudo mode or not.
LEMMA ModeOfMode == \A s : ModeOf(s) \in Mode
BY DEF ModeOf, Mode

\* A new call of a scope is a call.
LEMMA NewCall ==
  ASSUME NEW s \in Scope, NEW mode \in Mode
  PROVE  /\ New(s, mode) \in Call
         /\ New(s, mode).scope = s
         /\ \A b \in BOOLEAN : /\ [New(s, mode) EXCEPT !.bad = b] \in Call
                              /\ [New(s, mode) EXCEPT !.bad = b].scope = s
<1>1. Unused \in Call
  BY ContinueAssumption DEF Unused, Call, Mode
<1>2. New(s, mode) \in Call /\ New(s, mode).scope = s
  BY <1>1 DEF New, Call
<1>3. ASSUME NEW b \in BOOLEAN
      PROVE  /\ [New(s, mode) EXCEPT !.bad = b] \in Call
             /\ [New(s, mode) EXCEPT !.bad = b].scope = s
  BY <1>2 DEF Call
<1> QED
  BY <1>2, <1>3

\* A call that does not wait at the gate and is made, or made again, waits
\* there, is published or has failed; no other call moves.
LEMMA SendKept ==
  ASSUME NEW cs, CallsKept(slots, cs), NEW d \in Caller, cs[d].st # "gate",
         NEW call \in Call, call.scope \in Scope, NEW lv, Send(d, call, cs, lv)
  PROVE  /\ CallsKept(slots', sends')
         /\ sends'[d].st \in {"gate", "pending", "answered", "threw"}
         /\ \A e \in Caller : e # d => sends'[e] = cs[e]
<1> DEFINE s == call.scope
           stage == IF lv[s] = "none" THEN "gate"
                    ELSE IF lv[s] = call.mode THEN "pending" ELSE Fails(call)
<1>1. /\ sends' = [cs EXCEPT ![d] = [call EXCEPT !.st = stage]]
      /\ slots' = IF stage = "gate" THEN Acquire(slots, d, s) ELSE slots
  BY DEF Send
<1>2. stage \in {"gate", "pending", "answered", "threw"}
  BY DEF Fails
<1> HIDE DEF stage
<1>3. [call EXCEPT !.st = stage] \in Call
  BY <1>2 DEF Call
<1>4. /\ sends' \in [Caller -> Call]
      /\ sends'[d].st = stage /\ sends'[d].scope = s
      /\ \A e \in Caller : e # d => sends'[e] = cs[e]
  BY <1>1, <1>3 DEF CallsKept, Call
<1>5. GateOK(slots) /\ Once(slots) /\ d \notin Awaited(slots)
  BY DEF CallsKept
<1>6. CASE stage = "gate"
  <2>1. slots' = Acquire(slots, d, s)
    BY <1>1, <1>6
  <2>2. GateOK(slots') /\ Once(slots') /\ Awaited(slots') = Awaited(slots) \cup {d}
    BY <1>5, <2>1, AcquireOnce
  <2>3. CallsKept(slots', sends')
    BY <1>4, <1>6, <2>2 DEF CallsKept
  <2> QED
    BY <1>2, <1>4, <2>3
<1>7. CASE stage # "gate"
  <2>1. slots' = slots
    BY <1>1, <1>7
  <2>2. CallsKept(slots', sends')
    BY <1>4, <1>5, <1>7, <2>1 DEF CallsKept
  <2> QED
    BY <1>2, <1>4, <2>2
<1> QED
  BY <1>6, <1>7

\* A call that does not wait at the gate moves to a stage that is not the
\* gate's.
LEMMA MoveKept ==
  ASSUME NEW g, NEW cs, CallsKept(g, cs), NEW d \in Caller,
         cs[d].st \notin {"gate", "unused"},
         NEW mv \in [Caller -> Call], mv[d].st # "gate", mv[d].scope = cs[d].scope,
         \A e \in Caller : e # d => mv[e] = cs[e]
  PROVE  CallsKept(g, mv)
BY DEF CallsKept

\* A granted call leaves the gate, whatever becomes of it.
LEMMA LeavesGate ==
  ASSUME NEW g, NEW cs, CallsKept(g, cs), NEW d \in Caller, cs[d].st = "gate",
         NEW h, GateOK(h), Once(h), Awaited(h) = Awaited(g) \ {d},
         NEW mv \in [Caller -> Call], mv[d].st # "gate", mv[d].scope = cs[d].scope,
         \A e \in Caller : e # d => mv[e] = cs[e]
  PROVE  CallsKept(h, mv)
BY DEF CallsKept

------------------------------------------------------------------------------
(* The inductive invariant *)

\* A started run has a parent and a scope, and was started in its turn.
Begun ==
  \A r \in Started :
    /\ runs[r].parent \in Scope /\ runs[r].scope \in Scope
    /\ \A q \in Run : q < r => q \in Started

\* A run that was not started has made no call.
Idle == \A r \in Run : r \notin Started => sends[r].st = "unused"

\* A parent is told of a run that is over.
ToldOfEnds ==
  \A r \in Run : sends[Report[r]].st # "unused" => sends[r].st = "over"

\* Nobody waits for a run in the background.
NoneWaits ==
  \A s \in Scope : \A r \in waits[s] : r \in Started /\ ~runs[r].background

\* A name leads to a registered run that has it, and that took it last.
Named ==
  \A n \in Name : names[n] # Nothing =>
    /\ runs[names[n]].registered /\ runs[names[n]].name = n
    /\ \A r \in Registered : runs[r].name = n => r <= names[n]

AgentsInv ==
  /\ AgentsTypeOK /\ CallsKept(slots, sends)
  /\ Begun /\ Idle /\ ToldOfEnds /\ NoneWaits /\ Named

\* The calls of conversations, runs and reports are calls of the gate, and
\* a report is not mistaken for another call.
LEMMA CallNames ==
  /\ Chat \subseteq Caller /\ Run \subseteq Caller
  /\ \A r \in Run : Report[r] \in Caller /\ Report[r] \notin Run
  /\ \A c \in Chat : c \notin Run /\ \A r \in Run : c # Report[r]
  /\ \A q, r \in Run : Report[q] = Report[r] => q = r
BY CallsAssumption, ReportsAssumption, ScopesAssumption

\* The calls at the gate, said as AgentsTypeOK says it.
LEMMA CallsAtGate ==
  ASSUME NEW g, NEW cs, CallsKept(g, cs)
  PROVE  { d \in Caller : cs[d].st = "gate" }
           = g.granted \cup FirstCallers(g.queue, Len(g.queue))
<1>1. Awaited(g) \subseteq Caller
  BY AwaitedCalls DEF CallsKept
<1>2. Awaited(g) = g.granted \cup FirstCallers(g.queue, Len(g.queue))
  BY DEF Awaited, Queued
<1>3. { d \in Caller : cs[d].st = "gate" } = Awaited(g)
  BY <1>1 DEF CallsKept
<1> QED
  BY <1>2, <1>3

\* A step that starts no run, forgets none and ends none keeps the invariant.
LEMMA QuietStep ==
  ASSUME AgentsInv, runs' = runs, names' = names, CallsKept(slots', sends'),
         \A r \in Run :
           /\ sends[r].st = "unused" => sends'[r].st = "unused"
           /\ sends[r].st = "over" <=> sends'[r].st = "over"
           /\ sends[Report[r]].st = "unused" => sends'[Report[r]].st = "unused",
         live' \in [Scope -> Mode \cup {"none"}], closes' \in [Scope -> Nat],
         stopping' \subseteq Started, waits' \in [Scope -> SUBSET Run],
         \A s \in Scope : \A r \in waits'[s] : r \in waits[s] /\ live'[s] # "none"
  PROVE  AgentsInv'
<1>1. Started' = Started /\ Registered' = Registered
  BY DEF Started, Registered
<1>2. slots' \in Gate /\ sends' \in [Caller -> Call]
  BY DEF CallsKept, GateOK
<1>3. { d \in Caller : sends'[d].st = "gate" }
        = slots'.granted \cup FirstCallers(slots'.queue, Len(slots'.queue))
  BY CallsAtGate
<1>4. \A s \in Scope : \A r \in waits'[s] : live'[s] # "none" /\ sends'[r].st # "over"
  BY DEF AgentsInv, AgentsTypeOK
<1>5. AgentsTypeOK'
  BY <1>1, <1>2, <1>3, <1>4 DEF AgentsInv, AgentsTypeOK
<1>6. CallsKept(slots, sends)'
  OBVIOUS
<1>7. Begun' /\ Named'
  BY <1>1 DEF AgentsInv, Begun, Named
<1>8. Idle' /\ ToldOfEnds'
  BY <1>1 DEF AgentsInv, Idle, ToldOfEnds
<1>9. NoneWaits'
  BY <1>1 DEF AgentsInv, NoneWaits
<1> QED
  BY <1>5, <1>6, <1>7, <1>8, <1>9 DEF AgentsInv

\* What of the state has its type, by name.
LEMMA AgentsTypes ==
  ASSUME AgentsInv
  PROVE  /\ live \in [Scope -> Mode \cup {"none"}]
         /\ closes \in [Scope -> Nat]
         /\ sends \in [Caller -> Call]
         /\ waits \in [Scope -> SUBSET Run]
         /\ stopping \subseteq Started
         /\ \A s \in Scope : waits[s] # {} => live[s] # "none"
         /\ CallsKept(slots, sends)
BY DEF AgentsInv, AgentsTypeOK

\* A step that moves one call, which has been made and is not over, and only
\* that call.
LEMMA CallMoves ==
  ASSUME AgentsInv, NEW d \in Caller,
         sends[d].st \notin {"unused", "over"}, sends'[d].st # "over",
         \A e \in Caller : e # d => sends'[e] = sends[e],
         CallsKept(slots', sends'),
         UNCHANGED <<closes, runs, names, waits, stopping>>,
         live' \in [Scope -> Mode \cup {"none"}],
         \A s \in Scope : live[s] # "none" => live'[s] # "none"
  PROVE  AgentsInv'
<1>1. \A r \in Run :
        /\ sends[r].st = "unused" => sends'[r].st = "unused"
        /\ sends[r].st = "over" <=> sends'[r].st = "over"
        /\ sends[Report[r]].st = "unused" => sends'[Report[r]].st = "unused"
  BY CallNames
<1>2. \A s \in Scope : \A r \in waits'[s] : r \in waits[s] /\ live'[s] # "none"
  BY AgentsTypes
<1> QED
  BY <1>1, <1>2, AgentsTypes, QuietStep

\* A person writes: only the call of the conversation moves.
LEMMA PersonSendsKept ==
  ASSUME AgentsInv, NEW c \in Chat, PersonSends(c)
  PROVE  AgentsInv'
<1>1. c \in Caller /\ c \in Scope
  BY CallNames, ScopesAssumption
<1>2. sends[c].st = "unused" /\ Send(c, New(c, ModeOf(c)), sends, live)
  BY DEF PersonSends
<1>3. New(c, ModeOf(c)) \in Call /\ New(c, ModeOf(c)).scope = c
  BY <1>1, ModeOfMode, NewCall
<1>4. CallsKept(slots', sends') /\ \A e \in Caller : e # c => sends'[e] = sends[e]
  BY <1>1, <1>2, <1>3, AgentsTypes, SendKept
<1>5. \A r \in Run : sends'[r] = sends[r] /\ sends'[Report[r]] = sends[Report[r]]
  BY <1>4, CallNames
<1>6. UNCHANGED <<live, closes, runs, names, waits, stopping>>
  BY DEF PersonSends
<1> QED
  BY <1>4, <1>5, <1>6, AgentsTypes, QuietStep

\* A granted call is at the gate, and has a scope.
LEMMA GrantedCall ==
  ASSUME AgentsInv, NEW d \in slots.granted
  PROVE  /\ d \in Caller /\ sends[d].st = "gate" /\ sends[d].scope \in Scope
         /\ sends[d].mode \in Mode
<1>1. d \in Awaited(slots)
  BY DEF Awaited
<1>2. d \in Caller
  BY <1>1, AwaitedCalls, AgentsTypes DEF CallsKept
<1>3. sends[d].st = "gate" /\ sends[d].scope \in Scope
  BY <1>1, <1>2, AgentsTypes DEF CallsKept
<1> QED
  BY <1>2, <1>3, AgentsTypes DEF Call

\* A granted call opens the session of its scope, and is published.
LEMMA OpensKept ==
  ASSUME AgentsInv, NEW d \in Caller, Opens(d)
  PROVE  AgentsInv'
<1>1. /\ d \in slots.granted /\ slots' = Resume(slots, d)
      /\ live' = [live EXCEPT ![sends[d].scope] = sends[d].mode]
      /\ sends' = [sends EXCEPT ![d].st = "pending"]
      /\ UNCHANGED <<closes, runs, names, waits, stopping>>
  BY DEF Opens
<1>2. sends[d].st = "gate" /\ sends[d].scope \in Scope /\ sends[d].mode \in Mode
  BY <1>1, GrantedCall
<1>3. GateOK(slots') /\ Once(slots') /\ Awaited(slots') = Awaited(slots) \ {d}
  BY <1>1, ResumeOnce, AgentsTypes DEF CallsKept
<1>4. /\ CallsKept(slots', sends') /\ sends'[d].st = "pending"
      /\ \A e \in Caller : e # d => sends'[e] = sends[e]
  <2>1. sends \in [Caller -> Call] /\ CallsKept(slots, sends)
    BY AgentsTypes
  <2>2. /\ sends' \in [Caller -> Call] /\ sends'[d].st = "pending"
        /\ sends'[d].scope = sends[d].scope
        /\ \A e \in Caller : e # d => sends'[e] = sends[e]
    BY <1>1, <2>1 DEF Call
  <2> QED
    BY <1>2, <1>3, <2>1, <2>2, LeavesGate
<1>5. live' \in [Scope -> Mode \cup {"none"}]
  BY <1>1, <1>2, AgentsTypes
<1>6. \A s \in Scope : live[s] # "none" => live'[s] # "none"
  BY <1>1, <1>2, AgentsTypes DEF Mode
<1> QED
  BY <1>1, <1>2, <1>4, <1>5, <1>6, CallMoves

\* A granted call fails, and its slot goes to those who wait.
LEMMA OpenFailsKept ==
  ASSUME AgentsInv, NEW d \in Caller, OpenFails(d)
  PROVE  AgentsInv'
<1> DEFINE st == Fails(sends[d])
<1>1. /\ d \in slots.granted /\ slots' = Release(Resume(slots, d), sends[d].scope)
      /\ sends' = [sends EXCEPT ![d].st = st]
      /\ UNCHANGED <<live, closes, runs, names, waits, stopping>>
  BY DEF OpenFails
<1>2. sends[d].st = "gate" /\ sends[d].scope \in Scope
  BY <1>1, GrantedCall
<1>3. /\ GateOK(Resume(slots, d)) /\ Once(Resume(slots, d))
      /\ Awaited(Resume(slots, d)) = Awaited(slots) \ {d}
  BY <1>1, ResumeOnce, AgentsTypes DEF CallsKept
<1>4. GateOK(slots') /\ Once(slots') /\ Awaited(slots') = Awaited(slots) \ {d}
  BY <1>1, <1>2, <1>3, ReleaseOnce
<1>5. st \in {"answered", "threw"}
  BY DEF Fails
<1> HIDE DEF st
<1>6. /\ CallsKept(slots', sends') /\ sends'[d].st = st
      /\ \A e \in Caller : e # d => sends'[e] = sends[e]
  <2>1. sends \in [Caller -> Call] /\ CallsKept(slots, sends)
    BY AgentsTypes
  <2>2. /\ sends' \in [Caller -> Call] /\ sends'[d].st = st
        /\ sends'[d].scope = sends[d].scope
        /\ \A e \in Caller : e # d => sends'[e] = sends[e]
    BY <1>1, <1>5, <2>1 DEF Call
  <2> QED
    BY <1>2, <1>4, <1>5, <2>1, <2>2, LeavesGate
<1> QED
  BY <1>1, <1>2, <1>5, <1>6, AgentsTypes, CallMoves

\* A result ends no call: what follows it does.
LEMMA TurnEndsKept ==
  ASSUME AgentsInv, NEW s \in Scope, TurnEnds(s)
  PROVE  AgentsInv'
<1>1. /\ sends' = [d \in Caller |->
           IF sends[d].st = "pending" /\ sends[d].scope = s
             THEN [sends[d] EXCEPT !.st = "answered"] ELSE sends[d]]
      /\ UNCHANGED <<slots, live, closes, runs, names, waits, stopping>>
  BY DEF TurnEnds
<1>2. sends \in [Caller -> Call] /\ CallsKept(slots, sends)
  BY AgentsTypes
<1>3. ASSUME NEW d \in Caller
      PROVE  /\ sends'[d] \in Call /\ sends'[d].scope = sends[d].scope
             /\ \/ sends'[d].st = sends[d].st
                \/ sends[d].st = "pending" /\ sends'[d].st = "answered"
  BY <1>1, <1>2 DEF Call
<1>4. sends' \in [Caller -> Call]
  BY <1>1, <1>3
<1>5. CallsKept(slots', sends')
  BY <1>1, <1>2, <1>3, <1>4 DEF CallsKept
<1>6. \A r \in Run :
        /\ sends[r].st = "unused" => sends'[r].st = "unused"
        /\ sends[r].st = "over" <=> sends'[r].st = "over"
        /\ sends[Report[r]].st = "unused" => sends'[Report[r]].st = "unused"
  BY <1>3, CallNames
<1> QED
  BY <1>1, <1>5, <1>6, AgentsTypes, QuietStep

\* A call that is made again is not one that waits at the gate.
LEMMA TimesOutKept ==
  ASSUME AgentsInv, NEW d \in Caller, TimesOut(d)
  PROVE  AgentsInv'
<1> DEFINE again == [sends[d] EXCEPT !.retries = @ + 1]
           over  == IsSubagent(sends[d].scope) \/ sends[d].retries = MaxContinue
<1>1. /\ sends[d].st = "pending"
      /\ over => sends' = [sends EXCEPT ![d].st = "answered"] /\ slots' = slots
      /\ ~over => Send(d, again, sends, live)
      /\ UNCHANGED <<live, closes, runs, names, waits, stopping>>
  BY DEF TimesOut
<1>2. sends \in [Caller -> Call] /\ CallsKept(slots, sends)
  BY AgentsTypes
<1>3. CASE over
  <2>1. /\ sends' \in [Caller -> Call] /\ sends'[d].st = "answered"
        /\ sends'[d].scope = sends[d].scope
        /\ \A e \in Caller : e # d => sends'[e] = sends[e]
    BY <1>1, <1>2, <1>3 DEF Call
  <2>2. CallsKept(slots', sends')
    BY <1>1, <1>2, <1>3, <2>1, MoveKept
  <2> QED
    BY <1>1, <2>1, <2>2, AgentsTypes, CallMoves
<1>4. CASE ~over
  <2>1. sends[d].scope \in Scope
    BY <1>1, <1>2 DEF CallsKept
  <2>2. sends[d].retries \in 0..MaxContinue /\ sends[d].retries # MaxContinue
    BY <1>2, <1>4 DEF Call
  <2>3. again \in Call /\ again.scope \in Scope
    BY <1>2, <2>1, <2>2, ContinueAssumption DEF Call
  <2> HIDE DEF again
  <2>4. /\ CallsKept(slots', sends')
        /\ sends'[d].st \in {"gate", "pending", "answered", "threw"}
        /\ \A e \in Caller : e # d => sends'[e] = sends[e]
    BY <1>1, <1>2, <1>4, <2>3, SendKept
  <2> QED
    BY <1>1, <2>4, AgentsTypes, CallMoves
<1> QED
  BY <1>3, <1>4

\* A close takes the session out of the table.
LEMMA CloseKept ==
  ASSUME AgentsInv, NEW s \in Scope, Close(s)
  PROVE  /\ live' \in [Scope -> Mode \cup {"none"}]
         /\ closes' \in [Scope -> Nat]
         /\ \A t \in Scope : t # s => live'[t] = live[t]
<1>1. live \in [Scope -> Mode \cup {"none"}] /\ closes \in [Scope -> Nat]
  BY AgentsTypes
<1> QED
  BY <1>1 DEF Close

\* The agent that goes waits for nothing.
LEMMA IdleClosesKept ==
  ASSUME AgentsInv, NEW s \in Scope, IdleCloses(s)
  PROVE  AgentsInv'
<1>1. /\ Close(s) /\ waits' = [waits EXCEPT ![s] = {}]
      /\ UNCHANGED <<slots, sends, runs, names, stopping>>
  BY DEF IdleCloses
<1>2. /\ waits' \in [Scope -> SUBSET Run]
      /\ \A t \in Scope : \A r \in waits'[t] : t # s /\ r \in waits[t]
  BY <1>1, AgentsTypes
<1>3. \A t \in Scope : \A r \in waits'[t] : r \in waits[t] /\ live'[t] # "none"
  BY <1>1, <1>2, AgentsTypes, CloseKept
<1> QED
  BY <1>1, <1>2, <1>3, AgentsTypes, CloseKept, QuietStep

\* A late release of a slot moves calls from the queue to the granted only.
LEMMA ClosedKept ==
  ASSUME AgentsInv, NEW s \in Scope, Closed(s)
  PROVE  AgentsInv'
<1>1. /\ closes[s] > 0 /\ closes' = [closes EXCEPT ![s] = @ - 1]
      /\ slots' = Release(slots, s)
      /\ UNCHANGED <<live, sends, runs, names, waits, stopping>>
  BY DEF Closed
<1>2. CallsKept(slots, sends)
  BY AgentsTypes
<1>3. GateOK(slots') /\ Once(slots') /\ Awaited(slots') = Awaited(slots)
  BY <1>1, <1>2, ReleaseOnce DEF CallsKept
<1>4. CallsKept(slots', sends')
  BY <1>1, <1>2, <1>3 DEF CallsKept
<1>5. closes' \in [Scope -> Nat]
  BY <1>1, AgentsTypes
<1> QED
  BY <1>1, <1>4, <1>5, AgentsTypes, QuietStep

\* A start given up is one wait less.
LEMMA GivesUpKept ==
  ASSUME AgentsInv, NEW s \in Scope, NEW r \in Run, GivesUp(s, r)
  PROVE  AgentsInv'
<1>1. /\ waits' = [waits EXCEPT ![s] = @ \ {r}]
      /\ UNCHANGED <<slots, live, closes, sends, runs, names, stopping>>
  BY DEF GivesUp
<1>2. waits' \in [Scope -> SUBSET Run] /\ \A t \in Scope : waits'[t] \subseteq waits[t]
  BY <1>1, AgentsTypes
<1> QED
  BY <1>1, <1>2, AgentsTypes, QuietStep

\* A run that is stopped has been started.
LEMMA StopAskedKept ==
  ASSUME AgentsInv, NEW r \in Run, StopAsked(r)
  PROVE  AgentsInv'
<1>1. /\ runs[r].registered /\ stopping' = stopping \cup {r}
      /\ UNCHANGED <<slots, live, closes, sends, runs, names, waits>>
  BY DEF StopAsked
<1>2. r \in Started
  BY <1>1 DEF Started, NoRun
<1> QED
  BY <1>1, <1>2, AgentsTypes, QuietStep

\* A message or a report ends: no run does.
LEMMA EndsKept ==
  ASSUME AgentsInv, NEW d \in Caller, Ends(d)
  PROVE  AgentsInv'
<1>1. /\ d \notin Run /\ sends[d].st \in {"answered", "threw"}
      /\ sends' = [sends EXCEPT ![d].st = "over"]
      /\ UNCHANGED <<slots, live, closes, runs, names, waits, stopping>>
  BY DEF Ends, Over
<1>2. sends \in [Caller -> Call] /\ CallsKept(slots, sends)
  BY AgentsTypes
<1>3. /\ sends' \in [Caller -> Call] /\ sends'[d].st = "over"
      /\ sends'[d].scope = sends[d].scope
      /\ \A e \in Caller : e # d => sends'[e] = sends[e]
  BY <1>1, <1>2 DEF Call
<1>4. CallsKept(slots', sends')
  <2>1. sends[d].st \notin {"gate", "unused"} /\ sends'[d].st # "gate"
    BY <1>1, <1>3
  <2>2. CallsKept(slots, sends')
    BY <1>2, <1>3, <2>1, MoveKept
  <2> QED
    BY <1>1, <2>2
<1>5. \A r \in Run :
        /\ sends'[r] = sends[r]
        /\ sends[Report[r]].st = "unused" => sends'[Report[r]].st = "unused"
  BY <1>1, <1>3, CallNames
<1> QED
  BY <1>1, <1>4, <1>5, AgentsTypes, QuietStep

------------------------------------------------------------------------------
(* The steps that start a run or forget one *)

\* Forgetting a run leaves every run but that one as it was, and that one
\* started.
LEMMA ForgottenRuns ==
  ASSUME AgentsInv, NEW r \in Started, Forgets(r)
  PROVE  /\ runs' \in [Run -> AgentRun]
         /\ runs'[r] = [runs[r] EXCEPT !.registered = FALSE]
         /\ \A q \in Run : /\ q # r => runs'[q] = runs[q]
                           /\ runs'[q].parent = runs[q].parent
                           /\ runs'[q].scope = runs[q].scope
                           /\ runs'[q].name = runs[q].name
                           /\ runs'[q].background = runs[q].background
         /\ Started' = Started /\ Registered' = Registered \ {r}
<1>1. /\ runs \in [Run -> AgentRun] /\ r \in Run
      /\ runs[r].parent \in Scope
  BY DEF AgentsInv, AgentsTypeOK, Begun, Started
<1>2. runs' = [runs EXCEPT ![r].registered = FALSE]
  BY DEF Forgets
<1>3. /\ runs' \in [Run -> AgentRun]
      /\ runs'[r] = [runs[r] EXCEPT !.registered = FALSE]
      /\ \A q \in Run : q # r => runs'[q] = runs[q]
  BY <1>1, <1>2 DEF AgentRun
<1>4. /\ runs'[r].parent = runs[r].parent /\ runs'[r].scope = runs[r].scope
      /\ runs'[r].name = runs[r].name /\ runs'[r].background = runs[r].background
      /\ ~runs'[r].registered
  BY <1>1, <1>3 DEF AgentRun
<1>5. runs'[r] # NoRun
  BY <1>1, <1>4, NothingAssumption DEF NoRun
<1>6. Started' = Started
  BY <1>3, <1>5 DEF Started
<1>7. Registered' = Registered \ {r}
  BY <1>3, <1>4 DEF Registered
<1> QED
  BY <1>3, <1>4, <1>6, <1>7

\* A step that forgets a run, clears its scope's waits and ends no start that
\* is waited for keeps the invariant.
LEMMA ForgetsKept ==
  ASSUME AgentsInv, NEW r \in Started, Forgets(r),
         CallsKept(slots', sends'), ToldOfEnds', stopping' \subseteq stopping,
         waits' \in [Scope -> SUBSET Run],
         \A s \in Scope : \A q \in waits'[s] :
           q \in waits[s] /\ s # runs[r].scope /\ sends'[q].st # "over",
         \A q \in Run : sends[q].st = "unused" => sends'[q].st = "unused"
  PROVE  AgentsInv'
<1>1. /\ runs' \in [Run -> AgentRun]
      /\ \A q \in Run : /\ q # r => runs'[q] = runs[q]
                        /\ runs'[q].parent = runs[q].parent
                        /\ runs'[q].scope = runs[q].scope
                        /\ runs'[q].name = runs[q].name
                        /\ runs'[q].background = runs[q].background
      /\ Started' = Started /\ Registered' = Registered \ {r}
  BY ForgottenRuns
<1>2. /\ r \in Run /\ runs[r].scope \in Scope /\ Close(runs[r].scope)
      /\ names' = [n \in Name |-> IF n = runs[r].name THEN Nothing ELSE names[n]]
      /\ names \in [Name -> Run \cup {Nothing}]
  BY DEF AgentsInv, AgentsTypeOK, Begun, Started, Forgets
<1>3. /\ live' \in [Scope -> Mode \cup {"none"}] /\ closes' \in [Scope -> Nat]
      /\ \A t \in Scope : t # runs[r].scope => live'[t] = live[t]
  BY <1>2, CloseKept
<1>4. names' \in [Name -> Run \cup {Nothing}]
  BY <1>2
<1>5. slots' \in Gate /\ sends' \in [Caller -> Call]
  BY DEF CallsKept, GateOK
<1>6. { d \in Caller : sends'[d].st = "gate" }
        = slots'.granted \cup FirstCallers(slots'.queue, Len(slots'.queue))
  BY CallsAtGate
<1>7. \A s \in Scope : \A q \in waits'[s] : live'[s] # "none" /\ sends'[q].st # "over"
  BY <1>3, AgentsTypes
<1>8. stopping' \subseteq Started'
  BY <1>1, AgentsTypes
<1>9. AgentsTypeOK'
  BY <1>1, <1>3, <1>4, <1>5, <1>6, <1>7, <1>8 DEF AgentsTypeOK
<1>10. Begun' /\ Idle' /\ NoneWaits'
  <2>1. Started \subseteq Run
    BY DEF Started
  <2>2. Begun'
    BY <1>1, <2>1 DEF AgentsInv, Begun
  <2>3. Idle'
    BY <1>1 DEF AgentsInv, Idle
  <2>4. NoneWaits'
    BY <1>1, <2>1 DEF AgentsInv, NoneWaits
  <2> QED
    BY <2>2, <2>3, <2>4
<1>11. Named'
  <2> SUFFICES ASSUME NEW n \in Name, names'[n] # Nothing
               PROVE  /\ runs'[names'[n]].registered /\ runs'[names'[n]].name = n
                      /\ \A q \in Registered' : runs'[q].name = n => q <= names'[n]
    BY DEF Named
  <2>1. n # runs[r].name /\ names'[n] = names[n]
    BY <1>2
  <2>2. /\ runs[names[n]].registered /\ runs[names[n]].name = n
        /\ \A q \in Registered : runs[q].name = n => q <= names[n]
    BY <2>1 DEF AgentsInv, Named
  <2>3. names[n] \in Run /\ names[n] # r
    BY <1>2, <2>1, <2>2
  <2>4. runs'[names[n]] = runs[names[n]]
    BY <1>1, <2>3
  <2>5. \A q \in Registered' : q \in Registered /\ runs'[q].name = runs[q].name
    BY <1>1 DEF Registered
  <2> QED
    BY <2>1, <2>2, <2>4, <2>5
<1>12. CallsKept(slots, sends)'
  OBVIOUS
<1> QED
  BY <1>9, <1>10, <1>11, <1>12 DEF AgentsInv

\* A run whose call was made has been started, and nobody was told of its
\* end before it was over.
LEMMA MadeCall ==
  ASSUME AgentsInv, NEW r \in Run, sends[r].st # "unused"
  PROVE  /\ r \in Started /\ runs[r].scope \in Scope /\ runs[r].parent \in Scope
         /\ sends[r].st # "over" => sends[Report[r]].st = "unused"
BY DEF AgentsInv, Idle, Begun, ToldOfEnds

\* A blocking start returns: nobody waits for it any more.
LEMMA ReturnsKept ==
  ASSUME AgentsInv, NEW r \in Run, Returns(r)
  PROVE  AgentsInv'
<1>1. /\ sends[r].st \in {"answered", "threw"} /\ Forgets(r)
      /\ sends' = [sends EXCEPT ![r].st = "over"]
      /\ waits' = [s \in Scope |-> IF s = runs[r].scope THEN {} ELSE waits[s] \ {r}]
      /\ UNCHANGED <<slots, stopping>>
  BY DEF Returns, Over, Answered
<1>2. sends \in [Caller -> Call] /\ CallsKept(slots, sends) /\ r \in Caller
  BY AgentsTypes, CallNames
<1>3. /\ sends' \in [Caller -> Call] /\ sends'[r].st = "over"
      /\ sends'[r].scope = sends[r].scope
      /\ \A e \in Caller : e # r => sends'[e] = sends[e]
  BY <1>1, <1>2 DEF Call
<1>4. CallsKept(slots', sends')
  <2>1. sends[r].st \notin {"gate", "unused"} /\ sends'[r].st # "gate"
    BY <1>1, <1>3
  <2>2. CallsKept(slots, sends')
    BY <1>2, <1>3, <2>1, MoveKept
  <2> QED
    BY <1>1, <2>2
<1>5. r \in Started
  BY <1>1, MadeCall
<1>6. ToldOfEnds'
  BY <1>3, CallNames DEF AgentsInv, ToldOfEnds
<1>7. waits' \in [Scope -> SUBSET Run]
  BY <1>1, AgentsTypes
<1>8. \A s \in Scope : \A q \in waits'[s] :
        q \in waits[s] /\ s # runs[r].scope /\ q # r
  BY <1>1
<1>9. \A s \in Scope : \A q \in waits'[s] : sends'[q].st # "over"
  BY <1>3, <1>7, <1>8, CallNames DEF AgentsInv, AgentsTypeOK
<1>10. \A q \in Run : sends[q].st = "unused" => sends'[q].st = "unused"
  BY <1>1, <1>3, CallNames
<1> QED
  BY <1>1, <1>4, <1>5, <1>6, <1>7, <1>8, <1>9, <1>10, ForgetsKept

\* A stop forgets the run and ends no call.
LEMMA StopsKept ==
  ASSUME AgentsInv, NEW r \in Run, Stops(r)
  PROVE  AgentsInv'
<1>1. /\ r \in stopping /\ stopping' = stopping \ {r} /\ Forgets(r)
      /\ waits' = [waits EXCEPT ![runs[r].scope] = {}]
      /\ UNCHANGED <<slots, sends>>
  BY DEF Stops
<1>2. r \in Started
  BY <1>1, AgentsTypes
<1>3. ToldOfEnds' /\ CallsKept(slots', sends')
  BY <1>1 DEF AgentsInv, ToldOfEnds
<1>4. waits' \in [Scope -> SUBSET Run]
  BY <1>1, AgentsTypes
<1>5. \A s \in Scope : \A q \in waits'[s] : q \in waits[s] /\ s # runs[r].scope
  BY <1>1, AgentsTypes
<1>6. \A s \in Scope : \A q \in waits'[s] : sends'[q].st # "over"
  BY <1>1, <1>5 DEF AgentsInv, AgentsTypeOK
<1> QED
  BY <1>1, <1>2, <1>3, <1>4, <1>5, <1>6, ForgetsKept

\* The text for a parent is dispatched once, over the calls cs.
LEMMA InjectsKept ==
  ASSUME AgentsInv, NEW r \in Started, NEW cs, CallsKept(slots, cs),
         cs[Report[r]].st # "gate", NEW bad \in BOOLEAN, Injects(r, cs, bad)
  PROVE  /\ CallsKept(slots', sends')
         /\ \A e \in Caller : e # Report[r] => sends'[e] = cs[e]
<1> DEFINE call == [New(runs[r].parent, "everyday") EXCEPT !.bad = bad]
<1>1. Send(Report[r], call, cs, live')
  BY DEF Injects
<1>2. runs[r].parent \in Scope /\ r \in Run
  BY DEF AgentsInv, Begun, Started
<1>3. Report[r] \in Caller
  BY <1>2, CallNames
<1>4. call \in Call /\ call.scope \in Scope
  BY <1>2, NewCall DEF Mode
<1> HIDE DEF call
<1> QED
  BY <1>1, <1>3, <1>4, SendKept

\* A background run ends: nobody waited for it, and its parent is told once it is
\* over.
LEMMA ReportsKept ==
  ASSUME AgentsInv, NEW r \in Run, Reports(r)
  PROVE  AgentsInv'
<1> DEFINE cs == Over(r)
           bad == sends[r].st = "threw"
<1>1. /\ sends[r].st \in {"answered", "threw"} /\ runs[r].background /\ Forgets(r)
      /\ waits' = [waits EXCEPT ![runs[r].scope] = {}]
      /\ Injects(r, cs, bad) /\ stopping' = stopping
  BY DEF Reports
<1>2. sends \in [Caller -> Call] /\ CallsKept(slots, sends) /\ r \in Caller
  BY AgentsTypes, CallNames
<1>3. /\ cs \in [Caller -> Call] /\ cs[r].st = "over"
      /\ cs[r].scope = sends[r].scope
      /\ \A e \in Caller : e # r => cs[e] = sends[e]
  BY <1>2 DEF Call, Over
<1> HIDE DEF cs
<1>4. CallsKept(slots, cs)
  BY <1>1, <1>2, <1>3, MoveKept
<1>5. r \in Started /\ sends[Report[r]].st = "unused"
  BY <1>1, MadeCall
<1>6. cs[Report[r]].st # "gate"
  BY <1>3, <1>5, CallNames
<1>7. bad \in BOOLEAN
  OBVIOUS
<1> HIDE DEF bad
<1>8. /\ CallsKept(slots', sends')
      /\ \A e \in Caller : e # Report[r] => sends'[e] = cs[e]
  BY <1>1, <1>4, <1>5, <1>6, <1>7, InjectsKept
<1>9. /\ sends'[r].st = "over"
      /\ \A q \in Run : q # r => /\ sends'[q] = sends[q]
                                 /\ sends'[Report[q]] = sends[Report[q]]
  BY <1>3, <1>8, CallNames
<1>10. ToldOfEnds'
  BY <1>9 DEF AgentsInv, ToldOfEnds
<1>11. waits' \in [Scope -> SUBSET Run]
  BY <1>1, AgentsTypes
<1>12. \A s \in Scope : \A q \in waits'[s] : q \in waits[s] /\ s # runs[r].scope
  BY <1>1, AgentsTypes
<1>13. \A s \in Scope : \A q \in waits'[s] : q \in Run /\ q # r
  BY <1>1, <1>11, <1>12 DEF AgentsInv, NoneWaits
<1>14. \A s \in Scope : \A q \in waits'[s] : sends'[q].st # "over"
  BY <1>9, <1>12, <1>13 DEF AgentsInv, AgentsTypeOK
<1>15. \A q \in Run : sends[q].st = "unused" => sends'[q].st = "unused"
  BY <1>1, <1>9
<1> QED
  BY <1>1, <1>5, <1>8, <1>10, <1>11, <1>12, <1>14, <1>15, ForgetsKept

\* The second report is made on a call that failed, of a run that is over.
LEMMA ReportFailsKept ==
  ASSUME AgentsInv, NEW r \in Run, ReportFails(r)
  PROVE  AgentsInv'
<1>1. /\ sends[Report[r]].st = "threw" /\ Forgets(r)
      /\ waits' = [waits EXCEPT ![runs[r].scope] = {}]
      /\ Injects(r, sends, TRUE) /\ stopping' = stopping
  BY DEF ReportFails
<1>2. CallsKept(slots, sends)
  BY AgentsTypes
<1>3. sends[r].st = "over"
  BY <1>1 DEF AgentsInv, ToldOfEnds
<1>4. r \in Started
  BY <1>3, MadeCall
<1>5. /\ CallsKept(slots', sends')
      /\ \A e \in Caller : e # Report[r] => sends'[e] = sends[e]
  BY <1>1, <1>2, <1>4, InjectsKept
<1>6. ASSUME NEW q \in Run
      PROVE  sends'[q] = sends[q] /\ (q # r => sends'[Report[q]] = sends[Report[q]])
  BY <1>5, CallNames
<1>7. ToldOfEnds'
  <2> SUFFICES ASSUME NEW q \in Run, sends'[Report[q]].st # "unused"
               PROVE  sends'[q].st = "over"
    BY DEF ToldOfEnds
  <2>1. CASE q = r
    BY <1>3, <1>6, <2>1
  <2>2. CASE q # r
    BY <1>6, <2>2 DEF AgentsInv, ToldOfEnds
  <2> QED
    BY <2>1, <2>2
<1>8. waits' \in [Scope -> SUBSET Run]
  BY <1>1, AgentsTypes
<1>9. \A s \in Scope : \A q \in waits'[s] : q \in waits[s] /\ s # runs[r].scope
  BY <1>1, AgentsTypes
<1>10. \A s \in Scope : \A q \in waits'[s] : sends'[q].st # "over"
  <2> SUFFICES ASSUME NEW s \in Scope, NEW q \in waits'[s]
               PROVE  sends'[q].st # "over"
    OBVIOUS
  <2>1. q \in Run /\ sends[q].st # "over"
    BY <1>8, <1>9 DEF AgentsInv, AgentsTypeOK
  <2> QED
    BY <1>6, <2>1
<1>11. \A q \in Run : sends[q].st = "unused" => sends'[q].st = "unused"
  BY <1>6
<1> QED
  BY <1>1, <1>4, <1>5, <1>7, <1>8, <1>9, <1>10, <1>11, ForgetsKept

\* A run is started after every other, takes its name from them, and has made no
\* call before.
LEMMA StartsKept ==
  ASSUME AgentsInv, NEW s \in Scope, NEW r \in Run, NEW a \in Args, Starts(s, r, a)
  PROVE  AgentsInv'
<1> DEFINE scope == IF a.key = Nothing THEN r ELSE a.key
           run == [registered |-> TRUE, parent |-> s, scope |-> scope, self |-> a.self,
                   background |-> a.background, name |-> a.name]
<1>1. /\ live[s] # "none" /\ runs[r] = NoRun /\ \A q \in Run : q < r => q \in Started
      /\ runs' = [runs EXCEPT ![r] = run]
      /\ names' = IF a.name = Nothing THEN names ELSE [names EXCEPT ![a.name] = r]
      /\ Send(r, New(scope, "everyday"), sends, live)
      /\ waits' = IF a.background THEN waits ELSE [waits EXCEPT ![s] = @ \cup {r}]
      /\ UNCHANGED <<live, closes, stopping>>
  BY DEF Starts, Awaits
<1>2. /\ runs \in [Run -> AgentRun] /\ names \in [Name -> Run \cup {Nothing}]
      /\ sends \in [Caller -> Call] /\ CallsKept(slots, sends)
      /\ waits \in [Scope -> SUBSET Run]
  BY DEF AgentsInv, AgentsTypeOK
<1>3. /\ a.key \in Key \cup {Nothing} /\ a.self \in BOOLEAN /\ a.background \in BOOLEAN
      /\ a.name \in Name \cup {Nothing}
  BY ArgsAssumption
<1>4. scope \in Scope
  BY <1>3, ScopesAssumption
<1> HIDE DEF scope
<1>5. run \in AgentRun /\ run # NoRun
  BY <1>3, <1>4, NothingAssumption DEF AgentRun, NoRun
<1>6. run.registered /\ run.parent = s /\ run.scope = scope /\ run.name = a.name
      /\ run.background = a.background
  OBVIOUS
<1> HIDE DEF run
<1>7. /\ runs' \in [Run -> AgentRun] /\ runs'[r] = run
      /\ \A q \in Run : q # r => runs'[q] = runs[q]
  BY <1>1, <1>2, <1>5
<1>8. /\ r \notin Started /\ Started' = Started \cup {r}
      /\ Registered' = Registered \cup {r} /\ Started \subseteq Run
      /\ Registered \subseteq Started
  BY <1>1, <1>5, <1>6, <1>7 DEF Started, Registered, NoRun
<1>9. sends[r].st = "unused" /\ sends[Report[r]].st = "unused"
  BY <1>8 DEF AgentsInv, Idle, ToldOfEnds
<1>10. /\ CallsKept(slots', sends')
       /\ sends'[r].st \in {"gate", "pending", "answered", "threw"}
       /\ \A e \in Caller : e # r => sends'[e] = sends[e]
  <2>1. New(scope, "everyday") \in Call /\ New(scope, "everyday").scope \in Scope
    BY <1>4, NewCall DEF Mode
  <2> QED
    BY <1>1, <1>2, <1>9, <2>1, CallNames, SendKept
<1>11. /\ waits' \in [Scope -> SUBSET Run]
       /\ \A t \in Scope : \A q \in waits'[t] :
            q \in waits[t] \/ (q = r /\ t = s /\ ~a.background)
  BY <1>1, <1>2
<1>12. AgentsTypeOK'
  <2>1. names' \in [Name -> Run \cup {Nothing}]
    BY <1>1, <1>2, <1>3
  <2>2. slots' \in Gate /\ sends' \in [Caller -> Call]
    BY <1>10 DEF CallsKept, GateOK
  <2>3. { d \in Caller : sends'[d].st = "gate" }
          = slots'.granted \cup FirstCallers(slots'.queue, Len(slots'.queue))
    BY <1>10, CallsAtGate
  <2>4. ASSUME NEW t \in Scope, NEW q \in waits'[t]
        PROVE  live'[t] # "none" /\ sends'[q].st # "over"
    <3>1. CASE q = r /\ t = s
      BY <1>1, <1>10, <3>1
    <3>2. CASE q \in waits[t] /\ q # r
      <4>1. live[t] # "none" /\ sends[q].st # "over" /\ q \in Run
        BY <1>2, <3>2 DEF AgentsInv, AgentsTypeOK
      <4> QED
        BY <1>1, <1>10, <3>2, <4>1, CallNames
    <3>3. CASE q \in waits[t] /\ q = r
      BY <1>8, <3>3 DEF AgentsInv, NoneWaits
    <3> QED
      BY <1>11, <3>1, <3>2, <3>3
  <2>5. live' \in [Scope -> Mode \cup {"none"}] /\ closes' \in [Scope -> Nat]
    BY <1>1, AgentsTypes
  <2>6. stopping' \subseteq Started'
    BY <1>1, <1>8, AgentsTypes
  <2> QED
    BY <1>7, <1>11, <2>1, <2>2, <2>3, <2>4, <2>5, <2>6 DEF AgentsTypeOK
<1>13. Begun'
  <2>1. \A q \in Started : runs'[q] = runs[q]
    BY <1>7, <1>8
  <2> QED
    BY <1>1, <1>4, <1>6, <1>7, <1>8, <2>1 DEF AgentsInv, Begun
<1>14. Idle' /\ ToldOfEnds'
  <2>1. \A q \in Run : /\ q # r => sends'[q] = sends[q]
                      /\ sends'[Report[q]] = sends[Report[q]]
    BY <1>10, CallNames
  <2>2. Idle'
    BY <1>8, <2>1 DEF AgentsInv, Idle
  <2>3. ToldOfEnds'
    BY <1>9, <2>1 DEF AgentsInv, ToldOfEnds
  <2> QED
    BY <2>2, <2>3
<1>15. NoneWaits'
  <2> SUFFICES ASSUME NEW t \in Scope, NEW q \in waits'[t]
               PROVE  q \in Started' /\ ~runs'[q].background
    BY DEF NoneWaits
  <2>1. CASE q \in waits[t]
    <3>1. q \in Started /\ ~runs[q].background
      BY <2>1 DEF AgentsInv, NoneWaits
    <3> QED
      BY <1>7, <1>8, <3>1
  <2>2. CASE q = r /\ ~a.background
    BY <1>6, <1>7, <1>8, <2>2
  <2> QED
    BY <1>11, <2>1, <2>2
<1>16. Named'
  <2> SUFFICES ASSUME NEW n \in Name, names'[n] # Nothing
               PROVE  /\ runs'[names'[n]].registered /\ runs'[names'[n]].name = n
                      /\ \A q \in Registered' : runs'[q].name = n => q <= names'[n]
    BY DEF Named
  <2>1. \A q \in Started : q <= r
    <3> SUFFICES ASSUME NEW q \in Started
                 PROVE  q <= r
      OBVIOUS
    <3>1. q \in Nat /\ r \in Nat /\ q \in Run
      BY <1>8, RunsAssumption
    <3>2. ~(r < q)
      BY <1>8 DEF AgentsInv, Begun
    <3> QED
      BY <3>1, <3>2
  <2>2. CASE n = a.name
    <3>1. names'[n] = r
      BY <1>1, <1>2, <2>2, NothingAssumption
    <3>2. \A q \in Registered' : q <= r
      BY <1>8, <2>1, RunsAssumption
    <3> QED
      BY <1>6, <1>7, <2>2, <3>1, <3>2
  <2>3. CASE n # a.name
    <3>1. names'[n] = names[n]
      BY <1>1, <1>2, <2>3
    <3>2. /\ runs[names[n]].registered /\ runs[names[n]].name = n
          /\ \A q \in Registered : runs[q].name = n => q <= names[n]
      BY <3>1 DEF AgentsInv, Named
    <3>3. names[n] \in Run /\ names[n] # r
      BY <1>1, <1>2, <3>1, <3>2 DEF NoRun
    <3>4. \A q \in Registered' : runs'[q].name = n => q \in Registered /\ runs[q].name = n
      BY <1>6, <1>7, <1>8, <2>3
    <3> QED
      BY <1>7, <3>1, <3>2, <3>3, <3>4
  <2> QED
    BY <2>2, <2>3
<1>17. CallsKept(slots, sends)'
  BY <1>10
<1> QED
  BY <1>12, <1>13, <1>14, <1>15, <1>16, <1>17 DEF AgentsInv

------------------------------------------------------------------------------
(* The invariant and the properties *)

\* No run, no call and an open gate.
LEMMA AgentsInvInit == AgentsInit => AgentsInv
<1> SUFFICES ASSUME AgentsInit PROVE AgentsInv
  OBVIOUS
<1>1. Unused \in Call /\ Unused.st = "unused"
  BY ContinueAssumption DEF Unused, Call, Mode
<1>2. NoRun \in AgentRun /\ ~NoRun.registered
  BY DEF NoRun, AgentRun
<1>3. GateOK(slots) /\ Once(slots) /\ Awaited(slots) = {}
  <2>1. GateOK(OpenGate)
    BY OpenGateOK
  <2>2. Len(OpenGate.queue) = 0 /\ OpenGate.granted = {}
    BY DEF OpenGate
  <2>3. Queued(OpenGate) = {}
    BY <2>2 DEF Queued, FirstCallers
  <2> QED
    BY <2>1, <2>2, <2>3 DEF AgentsInit, Once, Awaited
<1>4. sends \in [Caller -> Call] /\ \A d \in Caller : sends[d].st = "unused"
  BY <1>1 DEF AgentsInit
<1>5. CallsKept(slots, sends)
  BY <1>3, <1>4 DEF CallsKept
<1>6. runs \in [Run -> AgentRun] /\ Started = {} /\ Registered = {}
  BY <1>2 DEF AgentsInit, Started, Registered
<1>7. { d \in Caller : sends[d].st = "gate" }
        = slots.granted \cup FirstCallers(slots.queue, Len(slots.queue))
  BY <1>5, CallsAtGate
<1>8. slots \in Gate
  BY <1>3 DEF GateOK
<1>9. AgentsTypeOK
  BY <1>4, <1>6, <1>7, <1>8 DEF AgentsInit, AgentsTypeOK
<1>10. Begun /\ Idle /\ ToldOfEnds /\ NoneWaits /\ Named
  BY <1>4, <1>6, CallNames DEF AgentsInit, Begun, Idle, ToldOfEnds, NoneWaits, Named
<1> QED
  BY <1>5, <1>9, <1>10 DEF AgentsInv

\* Every step keeps the invariant: one case per action.
LEMMA AgentsInvStep == AgentsInv /\ [AgentsNext]_agentsVars => AgentsInv'
<1> SUFFICES ASSUME AgentsInv, [AgentsNext]_agentsVars PROVE AgentsInv'
  OBVIOUS
<1>1. CASE Calls
  <2>1. ASSUME NEW c \in Chat, PersonSends(c) PROVE AgentsInv'
    BY <2>1, PersonSendsKept
  <2>2. ASSUME NEW s \in Scope, NEW r \in Run, NEW a \in Args, Starts(s, r, a)
        PROVE  AgentsInv'
    BY <2>2, StartsKept
  <2>3. ASSUME NEW r \in Run, StopAsked(r) PROVE AgentsInv'
    BY <2>3, StopAskedKept
  <2>4. ASSUME NEW s \in Scope, TurnEnds(s) PROVE AgentsInv'
    BY <2>4, TurnEndsKept
  <2> QED
    BY <1>1, <2>1, <2>2, <2>3, <2>4 DEF Calls
<1>2. ASSUME NEW d \in Caller, Continues(d) PROVE AgentsInv'
  BY <1>2, ReturnsKept, ReportsKept, ReportFailsKept, EndsKept DEF Continues
<1>3. ASSUME NEW d \in Caller, Lapses(d) PROVE AgentsInv'
  BY <1>3, TimesOutKept DEF Lapses
<1>4. ASSUME NEW d \in Caller, Resumes(d) PROVE AgentsInv'
  BY <1>4, OpensKept, OpenFailsKept DEF Resumes
<1>5. ASSUME NEW s \in Scope, Settles(s) PROVE AgentsInv'
  BY <1>5, ClosedKept DEF Settles
<1>6. ASSUME NEW s \in Scope, Fires(s) PROVE AgentsInv'
  BY <1>6, IdleClosesKept DEF Fires
<1>7. ASSUME NEW r \in Run, GoesOn(r) PROVE AgentsInv'
  BY <1>7, StopsKept, GivesUpKept DEF GoesOn
<1>8. CASE UNCHANGED agentsVars
  BY <1>8 DEF agentsVars, AgentsInv, AgentsTypeOK, CallsKept, Begun, Idle,
              ToldOfEnds, NoneWaits, Named, Started, Registered
<1> QED
  BY <1>1, <1>2, <1>3, <1>4, <1>5, <1>6, <1>7, <1>8 DEF AgentsNext

\* The inductive invariant of the sub-agents holds of every behaviour.
THEOREM AgentsInvariance == AgentsSpec => []AgentsInv
<1> QED
  BY AgentsInvInit, AgentsInvStep, PTL DEF AgentsSpec

\* Type correctness, with what it says beyond types: the gate's queue and the
\* calls agree (agent-mcp.ts's starts wait in ensureSession() exactly while they
\* are queued or granted), and an agent that waits for a start has a session.
THEOREM AgentsTyped == AgentsSpec => []AgentsTypeOK
<1>1. AgentsInv => AgentsTypeOK
  BY DEF AgentsInv
<1> QED
  BY <1>1, AgentsInvariance, PTL

\* A name an agent gave leads to a run that is registered, and to the last that
\* took it, though ends are handled twice and stops race them (agent-mcp.ts).
THEOREM NamesLead == AgentsSpec => []NamesLive
<1>1. AgentsInv => NamesLive
  <2> SUFFICES ASSUME AgentsInv, NEW n \in Name, names[n] # Nothing
               PROVE  /\ Reached(n) # Nothing
                      /\ \A r \in Registered : runs[r].name = n => r <= Reached(n)
    BY DEF NamesLive
  <2>1. /\ runs[names[n]].registered
        /\ \A r \in Registered : runs[r].name = n => r <= names[n]
    BY DEF AgentsInv, Named
  <2>2. Reached(n) = names[n]
    BY <2>1 DEF Reached
  <2> QED
    BY <2>1, <2>2
<1> QED
  BY <1>1, AgentsInvariance, PTL

------------------------------------------------------------------------------
(* Sub-agents: whom a waiting call waits for *)

\* Each slot that is taken has a session that is open, a close that will
\* release it, or a call that has been granted it; and a waiter that is woken
\* is a call of the scope it gets the slot for.
Held(g, lv, cl, cs) ==
  /\ Matches(g, [d \in Caller |-> cs[d].scope])
  /\ \A s \in g.active : \/ lv[s] # "none" \/ cl[s] > 0
                        \/ \E d \in g.granted : cs[d].scope = s

SlotsHeld == Held(slots, live, closes, sends)

\* The holders of slots stay holders when the gate is left alone, the calls at
\* it keep their scopes, and no session goes but by a close.
LEMMA HeldStays ==
  ASSUME NEW g, NEW cs, NEW ds, CallsKept(g, cs),
         NEW lv, NEW cl, Held(g, lv, cl, cs),
         \A d \in Caller : cs[d].st = "gate" => ds[d].scope = cs[d].scope,
         NEW lw, NEW cm,
         \A s \in Scope : lv[s] # "none" \/ cl[s] > 0 => lw[s] # "none" \/ cm[s] > 0
  PROVE  Held(g, lw, cm, ds)
<1>1. /\ g.active \subseteq Scope /\ g.granted \subseteq Caller
      /\ g.queue \in Seq(Waiter)
  BY DEF CallsKept, GateOK, Gate
<1>2. ASSUME NEW i \in 1..Len(g.queue)
      PROVE  g.queue[i].caller \in Caller /\ g.queue[i].caller \in Queued(g)
  <2>1. g.queue[i] \in Waiter
    BY <1>1
  <2>2. g.queue[i].caller \in FirstCallers(g.queue, Len(g.queue))
    BY DEF FirstCallers
  <2> QED
    BY <2>1, <2>2 DEF Queued, Waiter
<1>3. \A d \in Caller : d \in g.granted \/ d \in Queued(g) => ds[d].scope = cs[d].scope
  BY DEF CallsKept, Awaited
<1>4. Matches(g, [d \in Caller |-> ds[d].scope])
  <2> SUFFICES ASSUME NEW i \in 1..Len(g.queue)
               PROVE  ds[g.queue[i].caller].scope = g.queue[i].scope
    BY <1>2 DEF Matches
  <2>1. cs[g.queue[i].caller].scope = g.queue[i].scope
    BY <1>2 DEF Held, Matches
  <2> QED
    BY <1>2, <1>3, <2>1
<1>5. ASSUME NEW s \in g.active
      PROVE  lw[s] # "none" \/ cm[s] > 0 \/ \E d \in g.granted : ds[d].scope = s
  <2>1. lv[s] # "none" \/ cl[s] > 0 \/ \E d \in g.granted : cs[d].scope = s
    BY DEF Held
  <2> QED
    BY <1>1, <1>3, <2>1
<1> QED
  BY <1>4, <1>5 DEF Held

\* A call that is made, or made again, is granted a slot or waits for one of
\* its own scope.
LEMMA SendHeld ==
  ASSUME NEW cs, CallsKept(slots, cs), NEW d \in Caller, cs[d].st # "gate",
         NEW call \in Call, call.scope \in Scope, NEW lv, NEW cl,
         Held(slots, lv, cl, cs), NEW lw, Send(d, call, cs, lw)
  PROVE  Held(slots', lv, cl, sends')
<1> DEFINE s == call.scope
           stage == IF lw[s] = "none" THEN "gate"
                    ELSE IF lw[s] = call.mode THEN "pending" ELSE Fails(call)
           f == [e \in Caller |-> sends'[e].scope]
<1>1. /\ sends' = [cs EXCEPT ![d] = [call EXCEPT !.st = stage]]
      /\ slots' = IF stage = "gate" THEN Acquire(slots, d, s) ELSE slots
  BY DEF Send
<1> HIDE DEF stage
<1>2. sends'[d].scope = s /\ \A e \in Caller : e # d => sends'[e] = cs[e]
  BY <1>1 DEF CallsKept, Call
<1>3. \A e \in Caller : cs[e].st = "gate" => sends'[e].scope = cs[e].scope
  BY <1>2
<1>4. Held(slots, lv, cl, sends')
  BY <1>3, HeldStays
<1>5. CASE slots' = slots
  BY <1>4, <1>5
<1>6. CASE slots' = Acquire(slots, d, s)
  <2>1. GateOK(slots) /\ Matches(slots, f) /\ f[d] = s
    BY <1>2, <1>4 DEF CallsKept, Held
  <2> HIDE DEF f
  <2>2. /\ Matches(slots', f)
        /\ slots.granted \subseteq slots'.granted
        /\ \A t \in slots'.active : t \in slots.active \/ (t = s /\ d \in slots'.granted)
    BY <1>6, <2>1, AcquireOwned
  <2>3. \A t \in slots'.active : \/ lv[t] # "none" \/ cl[t] > 0
                                \/ \E e \in slots'.granted : sends'[e].scope = t
    BY <1>2, <1>4, <2>2 DEF Held
  <2> QED
    BY <2>2, <2>3 DEF Held, f
<1> QED
  BY <1>1, <1>5, <1>6

\* A slot that is released goes to a call of the scope that gets it, and every
\* other stays with its holder.
LEMMA ReleaseHeld ==
  ASSUME NEW g, GateOK(g), NEW cs, NEW s \in Scope, NEW lv, NEW cl, NEW cm,
         Matches(g, [d \in Caller |-> cs[d].scope]),
         \A t \in g.active \ {s} : \/ lv[t] # "none" \/ cl[t] > 0
                                  \/ \E d \in g.granted : cs[d].scope = t,
         \A t \in Scope : t # s /\ cl[t] > 0 => cm[t] > 0
  PROVE  Held(Release(g, s), lv, cm, cs)
<1> DEFINE f == [d \in Caller |-> cs[d].scope]
           h == Release(g, s)
<1>1. Matches(g, f)
  OBVIOUS
<1>2. \A d \in Caller : f[d] = cs[d].scope
  OBVIOUS
<1> HIDE DEF f
<1>3. /\ Matches(h, f) /\ g.granted \subseteq h.granted
      /\ \A t \in h.active : \/ t \in g.active /\ t # s
                            \/ \E d \in Caller : f[d] = t /\ d \in h.granted
  BY <1>1, ReleaseOwned
<1>4. g.active \subseteq Scope
  BY DEF GateOK, Gate
<1> HIDE DEF h
<1>5. \A t \in h.active : \/ lv[t] # "none" \/ cm[t] > 0
                         \/ \E d \in h.granted : cs[d].scope = t
  BY <1>2, <1>3, <1>4
<1> QED
  BY <1>3, <1>5 DEF Held, f, h

\* A close leaves the slot to its end, and every other slot as it was.
LEMMA ClosedHolders ==
  ASSUME AgentsInv, NEW s \in Scope, Close(s)
  PROVE  \A t \in Scope :
           live[t] # "none" \/ closes[t] > 0 => live'[t] # "none" \/ closes'[t] > 0
<1>1. live \in [Scope -> Mode \cup {"none"}] /\ closes \in [Scope -> Nat]
  BY AgentsTypes
<1>2. closes'[s] = IF live[s] = "none" THEN closes[s] ELSE closes[s] + 1
  BY <1>1 DEF Close
<1>3. \A t \in Scope : t # s => live'[t] = live[t] /\ closes'[t] = closes[t]
  BY <1>1 DEF Close
<1>4. closes[s] \in Nat
  BY <1>1
<1>5. live[s] # "none" \/ closes[s] > 0 => closes'[s] > 0
  BY <1>2, <1>4
<1> QED
  BY <1>3, <1>5

\* A step that leaves the gate alone, and the scopes of the calls at it, and
\* loses no session but by a close.
LEMMA HoldersStay ==
  ASSUME AgentsInv, SlotsHeld, slots' = slots,
         \A d \in Caller : sends[d].st = "gate" => sends'[d].scope = sends[d].scope,
         \A s \in Scope : live[s] # "none" \/ closes[s] > 0
                            => live'[s] # "none" \/ closes'[s] > 0
  PROVE  SlotsHeld'
<1>1. CallsKept(slots, sends) /\ Held(slots, live, closes, sends)
  BY AgentsTypes DEF SlotsHeld
<1>2. Held(slots, live', closes', sends')
  BY <1>1, HeldStays
<1> QED
  BY <1>2 DEF SlotsHeld

\* A call that is over keeps its scope.
LEMMA OverScopes ==
  ASSUME AgentsInv, NEW d \in Caller
  PROVE  \A e \in Caller : Over(d)[e].scope = sends[e].scope
<1>1. sends \in [Caller -> Call]
  BY AgentsTypes
<1> QED
  BY <1>1 DEF Over, Call

\* The end of a run closes its scope, and the text for its parent may wait for
\* a slot of the parent's.
LEMMA InjectsHeld ==
  ASSUME AgentsInv, SlotsHeld, NEW r \in Started, Forgets(r),
         NEW cs, CallsKept(slots, cs), cs[Report[r]].st # "gate",
         \A d \in Caller : cs[d].scope = sends[d].scope,
         NEW bad \in BOOLEAN, Injects(r, cs, bad)
  PROVE  SlotsHeld'
<1> DEFINE call == [New(runs[r].parent, "everyday") EXCEPT !.bad = bad]
<1>1. /\ r \in Run /\ runs[r].parent \in Scope /\ runs[r].scope \in Scope
      /\ Close(runs[r].scope)
  BY DEF AgentsInv, Begun, Started, Forgets
<1>2. Send(Report[r], call, cs, live') /\ Report[r] \in Caller
  BY <1>1, CallNames DEF Injects
<1>3. call \in Call /\ call.scope \in Scope
  BY <1>1, NewCall DEF Mode
<1> HIDE DEF call
<1>4. CallsKept(slots, sends) /\ Held(slots, live, closes, sends)
  BY AgentsTypes DEF SlotsHeld
<1>5. Held(slots, live', closes', cs)
  BY <1>1, <1>4, ClosedHolders, HeldStays
<1>6. Held(slots', live', closes', sends')
  BY <1>2, <1>3, <1>5, SendHeld
<1> QED
  BY <1>6 DEF SlotsHeld

\* A call that is made while no session moves.
LEMMA SendHolds ==
  ASSUME AgentsInv, SlotsHeld, NEW d \in Caller, sends[d].st # "gate",
         NEW call \in Call, call.scope \in Scope, Send(d, call, sends, live),
         live' = live, closes' = closes
  PROVE  SlotsHeld'
<1>1. CallsKept(slots, sends) /\ Held(slots, live, closes, sends)
  BY AgentsTypes DEF SlotsHeld
<1>2. Held(slots', live, closes, sends')
  BY <1>1, SendHeld
<1> QED
  BY <1>2 DEF SlotsHeld

\* The call that was granted the slot is succeeded by the session it opens.
LEMMA OpensHeld ==
  ASSUME AgentsInv, SlotsHeld, NEW d \in Caller, Opens(d)
  PROVE  SlotsHeld'
<1>1. /\ d \in slots.granted /\ slots' = Resume(slots, d)
      /\ live' = [live EXCEPT ![sends[d].scope] = sends[d].mode]
      /\ sends' = [sends EXCEPT ![d].st = "pending"] /\ closes' = closes
  BY DEF Opens
<1>2. sends[d].scope \in Scope /\ sends[d].mode \in Mode
  BY <1>1, GrantedCall
<1>3. /\ live \in [Scope -> Mode \cup {"none"}] /\ sends \in [Caller -> Call]
      /\ slots \in Gate
  BY AgentsTypes DEF CallsKept, GateOK
<1>4. /\ slots'.active = slots.active /\ slots'.queue = slots.queue
      /\ slots'.granted = slots.granted \ {d}
  BY <1>1, <1>3 DEF Resume, Gate
<1>5. \A e \in Caller : sends'[e].scope = sends[e].scope
  BY <1>1, <1>3 DEF Call
<1>6. Matches(slots', [e \in Caller |-> sends'[e].scope])
  <2>1. [e \in Caller |-> sends'[e].scope] = [e \in Caller |-> sends[e].scope]
    BY <1>5
  <2> QED
    BY <1>4, <2>1 DEF SlotsHeld, Held, Matches
<1>7. ASSUME NEW s \in slots'.active
      PROVE  \/ live'[s] # "none" \/ closes'[s] > 0
             \/ \E e \in slots'.granted : sends'[e].scope = s
  <2>1. s \in Scope
    BY <1>3, <1>4 DEF Gate
  <2>2. live'[sends[d].scope] # "none"
    BY <1>1, <1>2, <1>3 DEF Mode
  <2>3. CASE s # sends[d].scope
    <3>1. live'[s] = live[s]
      BY <1>1, <1>3, <2>1, <2>3
    <3>2. PICK e : \/ live[s] # "none" \/ closes[s] > 0
                   \/ e \in slots.granted /\ sends[e].scope = s
      BY <1>4 DEF SlotsHeld, Held
    <3>3. e \in slots.granted /\ sends[e].scope = s
            => e \in slots'.granted /\ sends'[e].scope = s
      BY <1>3, <1>4, <1>5, <2>3 DEF Gate
    <3> QED
      BY <1>1, <3>1, <3>2, <3>3
  <2> QED
    BY <2>2, <2>3
<1> QED
  BY <1>6, <1>7 DEF SlotsHeld, Held

\* The slot of a call that failed is given back.
LEMMA OpenFailsHeld ==
  ASSUME AgentsInv, SlotsHeld, NEW d \in Caller, OpenFails(d)
  PROVE  SlotsHeld'
<1> DEFINE g == Resume(slots, d)
<1>1. /\ d \in slots.granted /\ slots' = Release(g, sends[d].scope)
      /\ sends' = [sends EXCEPT ![d].st = Fails(sends[d])]
      /\ live' = live /\ closes' = closes
  BY DEF OpenFails
<1>2. sends[d].scope \in Scope
  BY <1>1, GrantedCall
<1>3. sends \in [Caller -> Call] /\ slots \in Gate /\ GateOK(g)
  BY <1>1, ResumeOnce, AgentsTypes DEF CallsKept, GateOK
<1>4. /\ g.active = slots.active /\ g.queue = slots.queue
      /\ g.granted = slots.granted \ {d} /\ slots.granted \subseteq Caller
  BY <1>3 DEF Resume, Gate
<1> HIDE DEF g
<1>5. \A e \in Caller : sends'[e].scope = sends[e].scope
  BY <1>1, <1>3 DEF Call
<1>6. Matches(g, [e \in Caller |-> sends'[e].scope])
  <2>1. [e \in Caller |-> sends'[e].scope] = [e \in Caller |-> sends[e].scope]
    BY <1>5
  <2> QED
    BY <1>4, <2>1 DEF SlotsHeld, Held, Matches
<1>7. ASSUME NEW s \in g.active \ {sends[d].scope}
      PROVE  \/ live'[s] # "none" \/ closes'[s] > 0
             \/ \E e \in g.granted : sends'[e].scope = s
  <2>1. PICK e : \/ live[s] # "none" \/ closes[s] > 0
                 \/ e \in slots.granted /\ sends[e].scope = s
    BY <1>4 DEF SlotsHeld, Held
  <2>2. e \in slots.granted /\ sends[e].scope = s
          => e \in g.granted /\ sends'[e].scope = s
    BY <1>4, <1>5
  <2> QED
    BY <1>1, <2>1, <2>2
<1>8. \A t \in Scope : t # sends[d].scope /\ closes'[t] > 0 => closes'[t] > 0
  OBVIOUS
<1>9. Held(Release(g, sends[d].scope), live', closes', sends')
  BY <1>2, <1>3, <1>6, <1>7, <1>8, ReleaseHeld
<1> QED
  BY <1>1, <1>9 DEF SlotsHeld

\* A close ends: the slot is given back, to a later session of the scope too.
LEMMA ClosedHeld ==
  ASSUME AgentsInv, SlotsHeld, NEW s \in Scope, Closed(s)
  PROVE  SlotsHeld'
<1>1. /\ closes' = [closes EXCEPT ![s] = @ - 1] /\ slots' = Release(slots, s)
      /\ live' = live /\ sends' = sends
  BY DEF Closed
<1>2. GateOK(slots) /\ Held(slots, live, closes, sends)
  BY AgentsTypes DEF SlotsHeld, CallsKept
<1>3. \A t \in Scope : t # s /\ closes[t] > 0 => closes'[t] > 0
  BY <1>1, AgentsTypes
<1>4. Held(Release(slots, s), live, closes', sends)
  <2>1. /\ Matches(slots, [d \in Caller |-> sends[d].scope])
        /\ \A t \in slots.active \ {s} : \/ live[t] # "none" \/ closes[t] > 0
                                         \/ \E d \in slots.granted : sends[d].scope = t
    BY <1>2 DEF Held
  <2> QED
    BY <1>2, <1>3, <2>1, ReleaseHeld
<1> QED
  BY <1>1, <1>4 DEF SlotsHeld

\* Calls are made by persons, by agents and by timers.
LEMMA MadeHeld ==
  ASSUME AgentsInv, SlotsHeld
  PROVE  /\ \A c \in Chat : PersonSends(c) => SlotsHeld'
         /\ \A s \in Scope, r \in Run, a \in Args : Starts(s, r, a) => SlotsHeld'
         /\ \A d \in Caller : TimesOut(d) => SlotsHeld'
<1>1. ASSUME NEW c \in Chat, PersonSends(c) PROVE SlotsHeld'
  <2>1. c \in Caller /\ c \in Scope
    BY CallNames, ScopesAssumption
  <2>2. New(c, ModeOf(c)) \in Call /\ New(c, ModeOf(c)).scope = c
    BY <2>1, ModeOfMode, NewCall
  <2>3. /\ sends[c].st = "unused" /\ Send(c, New(c, ModeOf(c)), sends, live)
        /\ live' = live /\ closes' = closes
    BY <1>1 DEF PersonSends
  <2> QED
    BY <2>1, <2>2, <2>3, SendHolds
<1>2. ASSUME NEW s \in Scope, NEW r \in Run, NEW a \in Args, Starts(s, r, a)
      PROVE  SlotsHeld'
  <2> DEFINE scope == IF a.key = Nothing THEN r ELSE a.key
  <2>1. /\ Send(r, New(scope, "everyday"), sends, live) /\ runs[r] = NoRun
        /\ live' = live /\ closes' = closes
    BY <1>2 DEF Starts
  <2>2. scope \in Scope
    BY ArgsAssumption, ScopesAssumption
  <2> HIDE DEF scope
  <2>3. New(scope, "everyday") \in Call /\ New(scope, "everyday").scope = scope
    BY <2>2, NewCall DEF Mode
  <2>4. sends[r].st = "unused" /\ r \in Caller
    BY <2>1, CallNames DEF AgentsInv, Idle, Started
  <2> QED
    BY <2>1, <2>2, <2>3, <2>4, SendHolds
<1>3. ASSUME NEW d \in Caller, TimesOut(d) PROVE SlotsHeld'
  <2> DEFINE again == [sends[d] EXCEPT !.retries = @ + 1]
             over  == IsSubagent(sends[d].scope) \/ sends[d].retries = MaxContinue
  <2>1. /\ sends[d].st = "pending" /\ live' = live /\ closes' = closes
        /\ over => sends' = [sends EXCEPT ![d].st = "answered"] /\ slots' = slots
        /\ ~over => Send(d, again, sends, live)
    BY <1>3 DEF TimesOut
  <2>2. sends \in [Caller -> Call] /\ CallsKept(slots, sends)
    BY AgentsTypes
  <2>3. CASE over
    <3>1. slots' = slots /\ \A e \in Caller : sends'[e].scope = sends[e].scope
      BY <2>1, <2>2, <2>3 DEF Call
    <3> QED
      BY <2>1, <3>1, HoldersStay
  <2>4. CASE ~over
    <3>1. sends[d].scope \in Scope
      BY <2>1, <2>2 DEF CallsKept
    <3>2. sends[d].retries \in 0..MaxContinue /\ sends[d].retries # MaxContinue
      BY <2>2, <2>4 DEF Call
    <3>3. again \in Call /\ again.scope \in Scope
      BY <2>2, <3>1, <3>2, ContinueAssumption DEF Call
    <3> HIDE DEF again
    <3> QED
      BY <2>1, <2>4, <3>3, SendHolds
  <2> QED
    BY <2>3, <2>4
<1> QED
  BY <1>1, <1>2, <1>3

\* Calls end, and runs with them.
LEMMA EndedHeld ==
  ASSUME AgentsInv, SlotsHeld, NEW d \in Caller, Continues(d)
  PROVE  SlotsHeld'
<1>1. ASSUME NEW r \in Run, Returns(r) PROVE SlotsHeld'
  <2>1. /\ sends[r].st \in {"answered", "threw"} /\ Forgets(r)
        /\ sends' = Over(r) /\ slots' = slots
    BY <1>1 DEF Returns
  <2>2. runs[r].scope \in Scope /\ Close(runs[r].scope) /\ r \in Caller
    BY <2>1, MadeCall, CallNames DEF Forgets
  <2> QED
    BY <2>1, <2>2, OverScopes, ClosedHolders, HoldersStay
<1>2. ASSUME NEW r \in Run, Reports(r) PROVE SlotsHeld'
  <2> DEFINE bad == sends[r].st = "threw"
  <2>1. /\ sends[r].st \in {"answered", "threw"} /\ Forgets(r)
        /\ Injects(r, Over(r), bad)
    BY <1>2 DEF Reports
  <2>2. r \in Started /\ sends[Report[r]].st = "unused" /\ r \in Caller
    BY <2>1, MadeCall, CallNames
  <2>3. sends \in [Caller -> Call] /\ CallsKept(slots, sends)
    BY AgentsTypes
  <2>4. /\ Over(r) \in [Caller -> Call] /\ Over(r)[r].st = "over"
        /\ Over(r)[r].scope = sends[r].scope
        /\ \A e \in Caller : e # r => Over(r)[e] = sends[e]
    BY <2>2, <2>3 DEF Over, Call
  <2>5. CallsKept(slots, Over(r))
    <3>1. sends[r].st \notin {"gate", "unused"} /\ Over(r)[r].st # "gate"
      BY <2>1, <2>4
    <3> QED
      BY <2>2, <2>3, <2>4, <3>1, MoveKept
  <2>6. Over(r)[Report[r]].st # "gate"
    BY <2>2, <2>4, CallNames
  <2>7. bad \in BOOLEAN
    OBVIOUS
  <2> HIDE DEF bad
  <2> QED
    BY <2>1, <2>2, <2>5, <2>6, <2>7, OverScopes, InjectsHeld
<1>3. ASSUME NEW r \in Run, ReportFails(r) PROVE SlotsHeld'
  <2>1. sends[Report[r]].st = "threw" /\ Forgets(r) /\ Injects(r, sends, TRUE)
    BY <1>3 DEF ReportFails
  <2>2. sends[r].st = "over" /\ CallsKept(slots, sends)
    BY <2>1, AgentsTypes DEF AgentsInv, ToldOfEnds
  <2>3. r \in Started
    BY <2>2, MadeCall
  <2> QED
    BY <2>1, <2>2, <2>3, InjectsHeld
<1>4. CASE Ends(d)
  <2>1. sends' = Over(d) /\ slots' = slots /\ live' = live /\ closes' = closes
    BY <1>4 DEF Ends
  <2> QED
    BY <2>1, OverScopes, HoldersStay
<1> QED
  BY <1>1, <1>2, <1>3, <1>4 DEF Continues

\* The other steps leave the gate and its calls alone.
LEMMA LeftHeld ==
  ASSUME AgentsInv, SlotsHeld
  PROVE  /\ \A s \in Scope : TurnEnds(s) => SlotsHeld'
         /\ \A s \in Scope : IdleCloses(s) => SlotsHeld'
         /\ \A r \in Run : StopAsked(r) \/ Stops(r) => SlotsHeld'
         /\ \A s \in Scope, r \in Run : GivesUp(s, r) => SlotsHeld'
         /\ UNCHANGED agentsVars => SlotsHeld'
<1>1. ASSUME NEW s \in Scope, TurnEnds(s) PROVE SlotsHeld'
  <2>1. \A d \in Caller : sends'[d].scope = sends[d].scope
    BY <1>1, AgentsTypes DEF TurnEnds, Call
  <2>2. slots' = slots /\ live' = live /\ closes' = closes
    BY <1>1 DEF TurnEnds
  <2> QED
    BY <2>1, <2>2, HoldersStay
<1>2. ASSUME NEW s \in Scope, IdleCloses(s) PROVE SlotsHeld'
  <2>1. Close(s) /\ slots' = slots /\ sends' = sends
    BY <1>2 DEF IdleCloses
  <2> QED
    BY <2>1, ClosedHolders, HoldersStay
<1>3. ASSUME NEW r \in Run, Stops(r) PROVE SlotsHeld'
  <2>1. Forgets(r) /\ slots' = slots /\ sends' = sends /\ r \in stopping
    BY <1>3 DEF Stops
  <2>2. runs[r].scope \in Scope /\ Close(runs[r].scope)
    BY <2>1, AgentsTypes DEF AgentsInv, Begun, Forgets
  <2> QED
    BY <2>1, <2>2, ClosedHolders, HoldersStay
<1>4. ASSUME UNCHANGED <<slots, live, closes, sends>> PROVE SlotsHeld'
  BY <1>4, HoldersStay
<1> QED
  BY <1>1, <1>2, <1>3, <1>4 DEF StopAsked, GivesUp, agentsVars

\* Every taken slot has somebody who will release it: whatever waits at the gate
\* (ensureSession() of session-manager.ts, for a start of agent-mcp.ts too)
\* waits for an open session, whose idle timer is set, for a close under way or
\* for a call that was granted and goes on.  No slot leaks when closes, starts,
\* stops and timeouts of one scope overlap, though a close may release the slot
\* of a session that came after it.
THEOREM SlotsHaveHolders == AgentsSpec => []SlotsHeld
<1>1. AgentsInit => SlotsHeld
  <2> SUFFICES ASSUME AgentsInit PROVE SlotsHeld
    OBVIOUS
  <2>1. slots.active = {} /\ Len(slots.queue) = 0
    BY DEF AgentsInit, OpenGate
  <2> QED
    BY <2>1 DEF SlotsHeld, Held, Matches
<1>2. AgentsInv /\ SlotsHeld /\ [AgentsNext]_agentsVars => SlotsHeld'
  <2> SUFFICES ASSUME AgentsInv, SlotsHeld, [AgentsNext]_agentsVars PROVE SlotsHeld'
    OBVIOUS
  <2>1. CASE Calls
    BY <2>1, MadeHeld, LeftHeld DEF Calls
  <2>2. ASSUME NEW d \in Caller, Continues(d) \/ Lapses(d) \/ Resumes(d)
        PROVE  SlotsHeld'
    BY <2>2, EndedHeld, MadeHeld, OpensHeld, OpenFailsHeld DEF Lapses, Resumes
  <2>3. ASSUME NEW s \in Scope, Settles(s) \/ Fires(s) PROVE SlotsHeld'
    BY <2>3, ClosedHeld, LeftHeld DEF Settles, Fires
  <2>4. ASSUME NEW r \in Run, GoesOn(r) PROVE SlotsHeld'
    BY <2>4, LeftHeld DEF GoesOn
  <2>5. CASE UNCHANGED agentsVars
    BY <2>5, LeftHeld
  <2> QED
    BY <2>1, <2>2, <2>3, <2>4, <2>5 DEF AgentsNext
<1> QED
  BY <1>1, <1>2, AgentsInvariance, PTL DEF AgentsSpec

==============================================================================
