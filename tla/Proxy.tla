-------------------------------- MODULE Proxy --------------------------------
(***************************************************************************)
(* The credential proxy (packages/proxy): agents get a gateway token, and  *)
(* with it reference tokens that stand for credentials.  A request that    *)
(* goes out through the proxy has its references replaced, each once.      *)
(*                                                                         *)
(* Requests, and gateway calls that read or store, run at the same time,   *)
(* each as one operation of Credentials at a time.  Network traffic, TLS   *)
(* and what is rewritten for the model's API are left out.                 *)
(***************************************************************************)
EXTENDS Credentials, Sequences

CONSTANTS Token, Ref,
          Scope,      \* <<token, key>>: may be read with it
          StoreScope, \* <<token, key>>: may be stored with it
          RefKey,     \* RefKey[r]: the key that a reference stands for
          RouteKey,   \* the key of the routes, that of http and of ssh
          Contents    \* the references in a request, its headers' before its body's

ASSUME ScopeAssumption == Scope \subseteq Token \X Key /\ StoreScope \subseteq Token \X Key
ASSUME KeysAssumption == RefKey \in [Ref -> Key] /\ RouteKey \in Key
ASSUME ContentsAssumption == Contents \subseteq Seq(Ref)

VARIABLES
  held,    \* the tokens in memory
  file,    \* the tokens in gateway-tokens.json
  saved,   \* whether the last change of the tokens reached the file
  issued,  \* the tokens there have been
  expired, \* those whose time is over
  refs,    \* refs[r]: whether it can be used, and the token it was issued under
  reqs,    \* reqs[o]: what the operation's caller is doing
  uses     \* uses[r]: how often the reference was replaced by its credential

tokenVars == <<held, file, saved, issued, expired>>

vars == <<tokenVars, refs, reqs, uses, vaultVars>>

NoRequest == [stage |-> "none"]

NoRef == [state |-> "unissued", token |-> NoOp]

\* Used, or too old: it is the same to a caller, whether it was swept or not.
DeadRef == [state |-> "dead", token |-> NoOp]

TypeOK ==
  /\ VaultTypeOK
  /\ held \subseteq issued /\ file \subseteq issued /\ expired \subseteq issued
  /\ issued \subseteq Token
  /\ saved \in BOOLEAN
  /\ refs \in [Ref -> [state : {"unissued", "live", "dead"}, token : issued \cup {NoOp}]]
  /\ uses \in [Ref -> Nat]
  /\ \A o \in Op : /\ reqs[o].stage \in {"none", "gateway", "route", "rewrite"}
                   /\ reqs[o].stage \in {"none", "rewrite"} \/ ops[o] # Idle
                   /\ reqs[o] # NoRequest => reqs[o].todo \in Seq(Ref)

Init ==
  /\ VaultInit
  /\ held = {} /\ file = {} /\ saved = TRUE /\ issued = {} /\ expired = {}
  /\ refs = [r \in Ref |-> NoRef]
  /\ reqs = [o \in Op |-> NoRequest]
  /\ uses = [r \in Ref |-> 0]

KeepsVault == UNCHANGED vaultVars
KeepsRequests == UNCHANGED <<refs, reqs, uses>>

Valid(t) == t \in held /\ t \notin expired

MayRead(t, k) == Valid(t) /\ <<t, k>> \in Scope

MayStore(t, k) == Valid(t) /\ <<t, k>> \in StoreScope

\* persist(): the file is replaced by the tokens in force, or the write fails.
Persists(now) ==
  /\ held' = now
  /\ \/ file' = now \ expired /\ saved' = TRUE
     \/ file' = file /\ saved' = FALSE
  /\ UNCHANGED <<issued, expired>>

\* issueToken()
Enters(t) ==
  /\ held' = held \cup {t} /\ issued' = issued \cup {t}
  /\ \/ file' = (held \cup {t}) \ expired /\ saved' = TRUE
     \/ file' = file /\ saved' = FALSE
  /\ UNCHANGED expired

\* validateToken(), of a token that is not valid: it is dropped if its time is over.
Drops(t) ==
  IF t \in held THEN Persists(held \ {t}) ELSE UNCHANGED tokenVars

------------------------------------------------------------------------------
(* The gateway *)

\* POST /token, when the orchestrator starts a session.
Issue(t) ==
  /\ t \notin issued
  /\ Enters(t)
  /\ KeepsRequests /\ KeepsVault

\* Mutant: the token is revoked in memory only.
RevokeInMemory(t) ==
  /\ t \in held
  /\ held' = held \ {t}
  /\ UNCHANGED <<file, saved, issued, expired>>
  /\ KeepsRequests /\ KeepsVault

\* DELETE /token
Revoke(t) ==
  /\ t \in held
  /\ Persists(held \ {t})
  /\ KeepsRequests /\ KeepsVault

\* Any call with a token whose time is over.
CallsExpired(t) ==
  /\ t \in held \cap expired
  /\ Drops(t)
  /\ KeepsRequests /\ KeepsVault

\* GET /gateway/ref
IssueRef(t, r) ==
  /\ MayRead(t, RefKey[r])
  /\ refs[r] = NoRef
  /\ refs' = [refs EXCEPT ![r] = [state |-> "live", token |-> t]]
  /\ UNCHANGED <<tokenVars, reqs, uses>> /\ KeepsVault

Calls(o, stage, todo) == reqs' = [reqs EXCEPT ![o] = [stage |-> stage, todo |-> todo]]

\* GET /gateway/reveal of a key that is not cached, and POST ssh-exec likewise.
Reveals(o, t, k) ==
  /\ reqs[o] = NoRequest
  /\ MayRead(t, k)
  /\ cache[k] = NoValue
  /\ Begins(o, "read", k)
  /\ Calls(o, "gateway", <<>>)
  /\ UNCHANGED <<tokenVars, refs, uses>>

\* POST /gateway/store
Stores(o, t, k) ==
  /\ reqs[o] = NoRequest
  /\ MayStore(t, k)
  /\ Begins(o, "update", k)
  /\ Calls(o, "gateway", <<>>)
  /\ UNCHANGED <<tokenVars, refs, uses>>

Ends(o) == reqs' = [reqs EXCEPT ![o] = NoRequest]

\* A gateway call, or a tunnel, has what it waited for, or an error.
GatewayEnds(o) ==
  /\ reqs[o].stage = "gateway"
  /\ Returns(o) \/ Throws(o)
  /\ Ends(o)
  /\ UNCHANGED <<tokenVars, refs, uses>>

------------------------------------------------------------------------------
(* Requests that go out *)

\* One that the policy allows, on a route or on none.  A cached credential is injected
\* at once; another is read.
Arrives(o) ==
  /\ reqs[o] = NoRequest
  /\ \E content \in Contents :
       \/ Calls(o, "rewrite", content) /\ KeepsVault
       \/ /\ cache[RouteKey] = NoValue
          /\ Begins(o, "read", RouteKey)
          /\ Calls(o, "route", content)
  /\ UNCHANGED <<tokenVars, refs, uses>>

Injects(o) ==
  /\ reqs[o].stage = "route"
  /\ Returns(o)
  /\ Calls(o, "rewrite", reqs[o].todo)
  /\ UNCHANGED <<tokenVars, refs, uses>>

Spends(r) == [refs EXCEPT ![r] = DeadRef]

Skips(o) == Calls(o, "rewrite", Tail(reqs[o].todo))

Replaces(o, r) == Skips(o) /\ uses' = [uses EXCEPT ![r] = @ + 1]

\* A reference that is not known, was used, or is too old stays as it is.
Ignores(o) ==
  /\ reqs[o].stage = "rewrite" /\ ops[o] = Idle /\ reqs[o].todo # <<>>
  /\ refs[Head(reqs[o].todo)].state # "live"
  /\ Skips(o)
  /\ UNCHANGED <<tokenVars, refs, uses>> /\ KeepsVault

\* Nor is one replaced whose token is no longer valid; it is used up.
Voids(o) ==
  /\ reqs[o].stage = "rewrite" /\ ops[o] = Idle /\ reqs[o].todo # <<>>
  /\ LET r == Head(reqs[o].todo) IN
     /\ refs[r].state = "live" /\ ~Valid(refs[r].token)
     /\ refs' = Spends(r)
     /\ Drops(refs[r].token)
  /\ Skips(o)
  /\ UNCHANGED uses /\ KeepsVault

\* Mutant: the reference is used up when its credential is there.
ReplacesLate(o) ==
  /\ reqs[o].stage = "rewrite" /\ reqs[o].todo # <<>>
  /\ LET r == Head(reqs[o].todo) IN
     /\ refs[r].state = "live" /\ Valid(refs[r].token)
     /\ \/ ops[o] = Idle /\ cache[RefKey[r]] # NoValue /\ Replaces(o, r) /\ refs' = Spends(r) /\ KeepsVault
        \/ cache[RefKey[r]] = NoValue /\ Begins(o, "read", RefKey[r]) /\ UNCHANGED <<reqs, refs, uses>>
  /\ UNCHANGED tokenVars

\* consumeRef(), before the credential is read.
Consumes(o) ==
  /\ reqs[o].stage = "rewrite" /\ ops[o] = Idle /\ reqs[o].todo # <<>>
  /\ LET r == Head(reqs[o].todo) IN
     /\ refs[r].state = "live" /\ Valid(refs[r].token)
     /\ refs' = Spends(r)
     /\ \/ cache[RefKey[r]] # NoValue /\ Replaces(o, r) /\ KeepsVault
        \/ cache[RefKey[r]] = NoValue /\ Begins(o, "read", RefKey[r]) /\ UNCHANGED <<reqs, uses>>
  /\ UNCHANGED tokenVars

\* The credential is there.
Rewrites(o) ==
  /\ reqs[o].stage = "rewrite" /\ reqs[o].todo # <<>>
  /\ Returns(o)
  /\ Replaces(o, Head(reqs[o].todo))
  /\ UNCHANGED <<tokenVars, refs>>

\* It cannot be read: 502.  The references taken so far are used up.
RequestFails(o) ==
  /\ reqs[o].stage \in {"route", "rewrite"}
  /\ Throws(o)
  /\ Ends(o)
  /\ UNCHANGED <<tokenVars, refs, uses>>

\* It goes out; what is rewritten for the model's API is none of the vault's.
Sends(o) ==
  /\ reqs[o].stage = "rewrite" /\ ops[o] = Idle /\ reqs[o].todo = <<>>
  /\ Ends(o)
  /\ UNCHANGED <<tokenVars, refs, uses>> /\ KeepsVault

\* An SSH tunnel to a host the policy allows: it is connected with the route's
\* credential, or refused if there is none.
Tunnels(o) ==
  /\ reqs[o] = NoRequest
  /\ cache[RouteKey] = NoValue
  /\ Begins(o, "read", RouteKey)
  /\ Calls(o, "gateway", <<>>)
  /\ UNCHANGED <<tokenVars, refs, uses>>

------------------------------------------------------------------------------
(* Time, and a restart *)

TokenExpires(t) ==
  /\ t \in issued \ expired
  /\ expired' = expired \cup {t}
  /\ UNCHANGED <<held, file, saved, issued>> /\ KeepsRequests /\ KeepsVault

RefExpires(r) ==
  /\ refs[r].state = "live"
  /\ refs' = Spends(r)
  /\ UNCHANGED <<tokenVars, reqs, uses>> /\ KeepsVault

\* initTokenStore(): tokens outlive the process, references do not.
Restart ==
  /\ held' = file \ expired
  /\ UNCHANGED <<file, saved, issued, expired, uses>>
  /\ refs' = [r \in Ref |-> IF refs[r] = NoRef THEN NoRef ELSE DeadRef]
  /\ reqs' = [o \in Op |-> NoRequest]
  /\ VaultRestart

Alone == UNCHANGED <<tokenVars, refs, reqs, uses>>

OpSteps(o) == VaultSteps(o) /\ Alone

RequestSteps(o) ==
  GatewayEnds(o) \/ Injects(o) \/ Ignores(o) \/ Voids(o) \/ Consumes(o) \/ Rewrites(o)
    \/ RequestFails(o) \/ Sends(o)

Next ==
  \/ \E t \in Token : Issue(t) \/ Revoke(t) \/ CallsExpired(t) \/ TokenExpires(t)
  \/ \E t \in Token, r \in Ref : IssueRef(t, r)
  \/ \E o \in Op, t \in Token, k \in Key : Reveals(o, t, k) \/ Stores(o, t, k)
  \/ \E o \in Op : Arrives(o) \/ Tunnels(o) \/ RequestSteps(o) \/ OpSteps(o)
  \/ \E r \in Ref : RefExpires(r)
  \/ \E k \in Key : (CacheEnds(k) \/ Reloads(k)) /\ Alone
  \/ (SessionRunsOut /\ Alone) \/ Restart

\* The provider's commands and sign-ins end, which is assumed of the provider, as
\* execShell() sets no timeout, and what waits for them goes on.
Fairness == \A o \in Op : WF_vars(OpSteps(o)) /\ WF_vars(RequestSteps(o))

Spec == Init /\ [][Next]_vars /\ Fairness
------------------------------------------------------------------------------
(* "Tokens are one-time-use" (body-rewriter.ts): however many requests carry a reference
   and whatever they wait for, its credential goes out at most once. *)
OneUse == \A r \in Ref : uses[r] <= 1

(* revokeToken() and initTokenStore() (tokens.ts): a token is accepted anew when it is
   issued, and after a restart only if it was accepted before, unless the file could not
   be written since: what was revoked or ran out does not come back. *)
NeverBack == [][\A t \in Token : t \in held' \ held => t \notin issued \/ ~saved]_vars

(* ensureSession() (credentials.ts), "Concurrent callers share the same in-flight promise",
   and sign-ins that are dropped while callers wait for them: every request and every
   gateway call comes to an end. *)
RequestsEnd == \A o \in Op : reqs[o] # NoRequest ~> reqs[o] = NoRequest
==============================================================================
