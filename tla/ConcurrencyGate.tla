--------------------------- MODULE ConcurrencyGate ---------------------------
(***************************************************************************)
(* The global concurrency gate of the orchestrator                         *)
(* (packages/orchestrator/src/bus/concurrency-gate.ts).                    *)
(*                                                                         *)
(* A gate is a value: the scopes that hold a slot (activeScopes), the FIFO *)
(* of blocked acquire() calls (waitQueue), and the callers whose acquire() *)
(* promise has resolved but whose continuation has not run yet (granted).  *)
(* JavaScript runs acquire() and release() to completion, so each is one   *)
(* function from gate to gate.                                             *)
(***************************************************************************)
EXTENDS Naturals, Sequences, FiniteSets

CONSTANTS Scope,          \* conversation scopes
          Caller,         \* calls of acquire()
          MaxConcurrent   \* the number of slots

ASSUME SlotsAssumption == MaxConcurrent \in Nat \ {0}

Waiter == [scope : Scope, caller : Caller]

Gate == [active : SUBSET Scope, queue : Seq(Waiter), granted : SUBSET Caller]

OpenGate == [active |-> {}, queue |-> <<>>, granted |-> {}]

\* Mutant: one scope too many.
HasRoomForOneMore(active) == Cardinality(active) <= MaxConcurrent

HasRoom(active) == Cardinality(active) < MaxConcurrent

\* A scope that holds a slot enters again at once, a new one enters while
\* there is room, and otherwise the call waits.
Acquire(g, c, s) ==
  IF s \in g.active \/ HasRoom(g.active)
    THEN [g EXCEPT !.active = @ \cup {s}, !.granted = @ \cup {c}]
    ELSE [g EXCEPT !.queue = Append(@, [scope |-> s, caller |-> c])]

FirstScopes(queue, n) == { queue[i].scope : i \in 1..n }

FirstCallers(queue, n) == { queue[i].caller : i \in 1..n }

\* The while loop of release() stops after n waiters: there was room before
\* each of them, and then no room or no waiter is left.  Two waiters of one
\* scope share a slot, so n may exceed the room there was.
StopsAfter(active, queue, n) ==
  /\ \A k \in 0..(n - 1) : HasRoom(active \cup FirstScopes(queue, k))
  /\ n = Len(queue) \/ ~HasRoom(active \cup FirstScopes(queue, n))

Woken(active, queue) ==
  CHOOSE n \in 0..Len(queue) : StopsAfter(active, queue, n)

\* Mutant: the slot is dropped and nobody is woken.
ReleaseWakingNobody(g, s) == [g EXCEPT !.active = @ \ {s}]

\* release() drops the scope's slot, whoever took it, and wakes waiters.
Release(g, s) ==
  LET rest == g.active \ {s}
      n    == Woken(rest, g.queue)
  IN  [active  |-> rest \cup FirstScopes(g.queue, n),
       queue   |-> SubSeq(g.queue, n + 1, Len(g.queue)),
       granted |-> g.granted \cup FirstCallers(g.queue, n)]

\* The caller's continuation after `await gate.acquire(scope)` runs.
Resume(g, c) == [g EXCEPT !.granted = @ \ {c}]
==============================================================================
