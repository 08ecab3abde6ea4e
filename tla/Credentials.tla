----------------------------- MODULE Credentials -----------------------------
(***************************************************************************)
(* The proxy's way to its vault (packages/proxy/src/shared/credentials.ts): *)
(* reads and stores are commands of the provider, run under a session that *)
(* a sign-in command gives.  Values that were read are cached.             *)
(*                                                                         *)
(* What was read is fresh until its key changes in the vault, then stale.  *)
(* A command takes effect at one moment and exits later; one that fails    *)
(* has no effect.                                                          *)
(***************************************************************************)
EXTENDS Integers, FiniteSets

CONSTANTS Op,  \* commands run at a time, one for each caller
          Key

NoValue == "none"
NoOp == "none"
Failed == "failed"

ASSUME OpAssumption == NoOp \notin Op /\ Failed \notin Op

VARIABLES
  cache,    \* cache[k]: the cached value; one whose time is over is none
  session,  \* the provider's session token: none, one that is good, one that ran out
  promise,  \* the sign-in that callers join: that of this operation, or one that failed
  signing,  \* the operations whose sign-in is under way
  ops       \* ops[o]: the operation

vaultVars == <<cache, session, promise, signing, ops>>

Idle == [cmd |-> "none"]

Value == {"fresh", "stale"}

\* "try" is 2 once the command was refused and is run again.  It is "doomed" when it runs
\* without a session that is good.
Running(cmd, k) == [cmd |-> cmd, key |-> k, stage |-> "signing", on |-> NoOp,
                    try |-> 1, value |-> NoValue]

VaultTypeOK ==
  /\ cache \in [Key -> Value \cup {NoValue}]
  /\ session \in {"none", "good", "old"}
  /\ promise \in Op \cup {NoOp, Failed}
  /\ signing \subseteq Op
  /\ promise \in Op => promise \in signing
  /\ \A o \in Op : ops[o] = Idle \/
       /\ ops[o].cmd \in {"read", "update", "write"}
       /\ ops[o].key \in Key
       /\ ops[o].stage \in {"signing", "running", "doomed", "acted", "failed"}
       /\ ops[o].on \in Op \cup {NoOp}
       /\ ops[o].try \in 1..2
       /\ ops[o].value \in Value \cup {NoValue}
       /\ (ops[o].stage = "signing") = (ops[o].on # NoOp)
       /\ ops[o].stage = "signing" => ops[o].on \in signing

VaultInit ==
  /\ cache = [k \in Key |-> NoValue]
  /\ session = "none"
  /\ promise = NoOp
  /\ signing = {}
  /\ ops = [o \in Op |-> Idle]

\* The command is spawned.
Spawned(op, token) ==
  [op EXCEPT !.on = NoOp, !.stage = IF token = "good" THEN "running" ELSE "doomed"]

\* ensureSession(), with what follows in execProviderCommand(): without a session the
\* first try runs all the same, the second fails.
Unsigned(op) == IF op.try = 1 THEN Spawned(op, "none") ELSE [op EXCEPT !.stage = "failed", !.on = NoOp]

\* "kept" and "joined" are the session and the sign-in there are.
Ensures(o, op, kept, joined) ==
  \/ /\ kept # "none"
     /\ ops' = [ops EXCEPT ![o] = Spawned(op, kept)]
     /\ session' = kept /\ promise' = joined /\ signing' = signing
  \/ /\ kept = "none" /\ joined # NoOp
     /\ ops' = [ops EXCEPT ![o] = IF joined = Failed THEN Unsigned(op)
                                  ELSE [op EXCEPT !.stage = "signing", !.on = joined]]
     /\ session' = kept /\ promise' = joined /\ signing' = signing
  \/ /\ kept = "none" /\ joined = NoOp
     /\ ops' = [ops EXCEPT ![o] = [op EXCEPT !.stage = "signing", !.on = o]]
     /\ session' = kept /\ promise' = o
     /\ signing' = signing \cup {o}

\* A caller reads a key that is not cached, or stores one: update, then write if that fails.
Begins(o, cmd, k) ==
  /\ ops[o] = Idle
  /\ Ensures(o, Running(cmd, k), session, promise)
  /\ cache' = cache

\* Mutant: the promise of a sign-in that ended is kept.
SignInEndsKept(o) ==
  /\ o \in signing
  /\ signing' = signing \ {o}
  /\ session' = "good" /\ promise' = promise
  /\ ops' = [p \in Op |-> IF ops[p] # Idle /\ ops[p].on = o THEN Spawned(ops[p], "good") ELSE ops[p]]
  /\ cache' = cache

\* Mutant: a sign-in that is not the one kept any more wakes nobody.
SignInEndsIfKept(o) ==
  /\ o \in signing
  /\ signing' = signing \ {o}
  /\ session' = "good" /\ promise' = NoOp
  /\ ops' = [p \in Op |-> IF promise = o /\ ops[p] # Idle /\ ops[p].on = o
                          THEN Spawned(ops[p], "good") ELSE ops[p]]
  /\ cache' = cache

\* The sign-in gives a token: the session, for whoever joined.  A newer sign-in is not
\* joined any more.
SignInEnds(o) ==
  /\ o \in signing
  /\ signing' = signing \ {o}
  /\ session' = "good" /\ promise' = NoOp
  /\ ops' = [p \in Op |-> IF ops[p] # Idle /\ ops[p].on = o THEN Spawned(ops[p], "good") ELSE ops[p]]
  /\ cache' = cache

\* It fails, and is kept: whoever joins it later fails at once.
SignInFails(o) ==
  /\ o \in signing
  /\ signing' = signing \ {o}
  /\ promise' = IF promise = o THEN Failed ELSE promise
  /\ ops' = [p \in Op |-> IF ops[p] # Idle /\ ops[p].on = o THEN Unsigned(ops[p]) ELSE ops[p]]
  /\ UNCHANGED <<cache, session>>

\* The provider forgets the session; commands that run are served.
SessionRunsOut ==
  /\ session = "good"
  /\ session' = "old"
  /\ UNCHANGED <<cache, promise, signing, ops>>

\* The key changes in the vault: what was read is stale.
Aged(value) == IF value = "fresh" THEN "stale" ELSE value

Changed(k) == [p \in Op |-> IF ops[p] # Idle /\ ops[p].key = k
                            THEN [ops[p] EXCEPT !.value = Aged(@)] ELSE ops[p]]

\* The command takes effect.
Acts(o) ==
  /\ ops[o] # Idle /\ ops[o].stage = "running"
  /\ LET k == ops[o].key IN
     \/ /\ ops[o].cmd = "read"
        /\ ops' = [ops EXCEPT ![o].stage = "acted", ![o].value = "fresh"]
        /\ cache' = cache
     \/ /\ ops[o].cmd # "read"
        /\ ops' = [Changed(k) EXCEPT ![o].stage = "acted"]
        /\ cache' = [cache EXCEPT ![k] = Aged(@)]
  /\ UNCHANGED <<session, promise, signing>>

\* It fails in words that look like a refusal of its session, a good one too: the
\* session is dropped, and signed in again it runs once more.
Refused(o) ==
  /\ ops[o] # Idle /\ ops[o].stage \in {"running", "doomed"} /\ ops[o].try = 1
  /\ Ensures(o, [ops[o] EXCEPT !.try = 2], "none", NoOp)
  /\ cache' = cache

\* It failed in other words, or a second time: with or without a session.
HasFailed(o) ==
  ops[o] # Idle /\ ops[o].stage \in {"running", "doomed", "failed"}

\* An update that failed becomes a write.
UpdateFails(o) ==
  /\ HasFailed(o) /\ ops[o].cmd = "update"
  /\ Ensures(o, Running("write", ops[o].key), session, promise)
  /\ cache' = cache

\* The command exits: what was read is cached, what was stored is not cached any more, and
\* the caller goes on.
Returns(o) ==
  /\ ops[o] # Idle /\ ops[o].stage = "acted"
  /\ cache' = [cache EXCEPT ![ops[o].key] = ops[o].value]
  /\ ops' = [ops EXCEPT ![o] = Idle]
  /\ UNCHANGED <<session, promise, signing>>

Throws(o) ==
  /\ HasFailed(o) /\ ops[o].cmd # "update"
  /\ ops' = [ops EXCEPT ![o] = Idle]
  /\ UNCHANGED <<cache, session, promise, signing>>

\* cache_ttl is over, or POST cache/invalidate.
CacheEnds(k) ==
  /\ cache[k] # NoValue
  /\ cache' = [cache EXCEPT ![k] = NoValue]
  /\ UNCHANGED <<session, promise, signing, ops>>

\* proxy.yaml is reloaded: a key reads from elsewhere, and nothing stays cached.
Reloads(k) ==
  /\ ops' = Changed(k)
  /\ cache' = [j \in Key |-> NoValue]
  /\ UNCHANGED <<session, promise, signing>>

\* The proxy stops and starts.
VaultRestart ==
  /\ cache' = [k \in Key |-> NoValue]
  /\ session' = "none" /\ promise' = NoOp
  /\ signing' = {}
  /\ ops' = [o \in Op |-> Idle]

VaultSteps(o) ==
  \/ SignInEnds(o) \/ SignInFails(o) \/ Acts(o) \/ Refused(o) \/ UpdateFails(o)
==============================================================================
