----------------------------- MODULE Proxy_proofs -----------------------------
(***************************************************************************)
(* For any operations, tokens, keys, references and contents of requests:  *)
(* every state of Proxy is well typed, a reference is replaced by its      *)
(* credential at most once, and a token that was dropped comes back only   *)
(* where the file could not be written.                                    *)
(***************************************************************************)
EXTENDS Proxy, TLAPS

Command == {"read", "update", "write"}

Stage == {"signing", "running", "doomed", "acted", "failed"}

OpRecord == [cmd : Command, key : Key, stage : Stage, on : Op \cup {NoOp}, try : 1..2,
             value : Value \cup {NoValue}]

\* An operation that waits for a sign-in, and only such a one, is on it.
SignsOn(op, signs) ==
  /\ (op.stage = "signing") = (op.on # NoOp)
  /\ op.stage = "signing" => op.on \in signs

VaultOK ==
  /\ cache \in [Key -> Value \cup {NoValue}]
  /\ session \in {"none", "good", "old"}
  /\ promise \in Op \cup {NoOp, Failed}
  /\ signing \subseteq Op
  /\ promise \in Op => promise \in signing
  /\ ops \in [Op -> OpRecord \cup {Idle}]
  /\ \A o \in Op : ops[o] # Idle => SignsOn(ops[o], signing)

\* The operations under way.
Busy == {o \in Op : ops[o] # Idle}

------------------------------------------------------------------------------
(* The vault: Busy says what the requests need to know of it. *)

\* An operation is not Idle.
LEMMA OpIsNotIdle == \A op \in OpRecord : op # Idle /\ op.cmd # "none"
BY DEF OpRecord, Command, Idle

LEMMA VaultTypes == VaultOK => VaultTypeOK
<1> SUFFICES ASSUME VaultOK PROVE VaultTypeOK
  OBVIOUS
<1>1. ASSUME NEW o \in Op, ops[o] # Idle
      PROVE  /\ ops[o].cmd \in {"read", "update", "write"}
             /\ ops[o].key \in Key
             /\ ops[o].stage \in {"signing", "running", "doomed", "acted", "failed"}
             /\ ops[o].on \in Op \cup {NoOp}
             /\ ops[o].try \in 1..2
             /\ ops[o].value \in Value \cup {NoValue}
             /\ (ops[o].stage = "signing") = (ops[o].on # NoOp)
             /\ ops[o].stage = "signing" => ops[o].on \in signing
  <2>1. ops[o] \in OpRecord /\ SignsOn(ops[o], signing)
    BY <1>1 DEF VaultOK
  <2> QED BY <2>1 DEF OpRecord, SignsOn, Command, Stage
<1> QED BY <1>1 DEF VaultOK, VaultTypeOK

\* A command that is spawned, or fails for want of a session, waits for no sign-in.
LEMMA SpawnedForm ==
  ASSUME NEW op \in OpRecord, NEW token
  PROVE  /\ Spawned(op, token) \in OpRecord
         /\ \A signs : SignsOn(Spawned(op, token), signs)
BY DEF OpRecord, Spawned, SignsOn, Stage

LEMMA UnsignedForm ==
  ASSUME NEW op \in OpRecord
  PROVE  /\ Unsigned(op) \in OpRecord
         /\ \A signs : SignsOn(Unsigned(op), signs)
<1>1. CASE op.try = 1
  BY <1>1, SpawnedForm DEF Unsigned
<1>2. CASE op.try # 1
  BY <1>2 DEF Unsigned, OpRecord, SignsOn, Stage
<1> QED BY <1>1, <1>2

\* An operation that joins a sign-in.
LEMMA JoinedForm ==
  ASSUME NEW op \in OpRecord, NEW s \in Op
  PROVE  /\ [op EXCEPT !.stage = "signing", !.on = s] \in OpRecord
         /\ \A signs : s \in signs => SignsOn([op EXCEPT !.stage = "signing", !.on = s], signs)
BY OpAssumption DEF OpRecord, SignsOn, Stage

\* One operation changes and signs on to what is there; sign-ins may be added.
LEMMA OneChanges ==
  ASSUME VaultOK, NEW o \in Op, NEW op \in OpRecord, ops' = [ops EXCEPT ![o] = op],
         signing \subseteq signing', SignsOn(op, signing')
  PROVE  /\ ops' \in [Op -> OpRecord \cup {Idle}]
         /\ \A p \in Op : ops'[p] # Idle => SignsOn(ops'[p], signing')
         /\ Busy' = Busy \cup {o}
<1>1. ops' \in [Op -> OpRecord \cup {Idle}] /\ ops'[o] = op /\ \A p \in Op : p # o => ops'[p] = ops[p]
  BY DEF VaultOK
<1>2. \A p \in Op : ops'[p] # Idle => SignsOn(ops'[p], signing')
  BY <1>1 DEF VaultOK, SignsOn
<1>3. op # Idle
  BY OpIsNotIdle
<1> QED BY <1>1, <1>2, <1>3 DEF Busy

\* ensureSession(), for an operation about to run a command.
LEMMA EnsuresKeeps ==
  ASSUME VaultOK, NEW o \in Op, NEW op \in OpRecord,
         NEW kept \in {"none", "good", "old"}, NEW joined \in Op \cup {NoOp, Failed},
         joined \in Op => joined \in signing,
         Ensures(o, op, kept, joined), cache' = cache
  PROVE  VaultOK' /\ Busy' = Busy \cup {o}
<1>1. /\ cache' \in [Key -> Value \cup {NoValue}]
      /\ session' \in {"none", "good", "old"} /\ promise' \in Op \cup {NoOp, Failed}
      /\ signing' \subseteq Op /\ signing \subseteq signing'
      /\ promise' \in Op => promise' \in signing'
  BY DEF Ensures, VaultOK
<1>2. \E new \in OpRecord : ops' = [ops EXCEPT ![o] = new] /\ SignsOn(new, signing')
  <2>1. CASE kept # "none"
    BY <2>1, SpawnedForm DEF Ensures
  <2>2. CASE kept = "none" /\ joined = Failed
    BY <2>2, UnsignedForm DEF Ensures, NoOp, Failed
  <2>3. CASE kept = "none" /\ joined \in Op
    <3>1. joined # NoOp /\ joined # Failed
      BY <2>3, OpAssumption
    <3> QED BY <2>3, <3>1, JoinedForm DEF Ensures
  <2>4. CASE kept = "none" /\ joined = NoOp
    BY <2>4, JoinedForm DEF Ensures
  <2> QED BY <2>1, <2>2, <2>3, <2>4
<1> QED BY <1>1, <1>2, OneChanges DEF VaultOK

LEMMA BeginsKeeps ==
  ASSUME VaultOK, NEW o \in Op, NEW cmd \in Command, NEW k \in Key, Begins(o, cmd, k)
  PROVE  VaultOK' /\ o \notin Busy /\ Busy' = Busy \cup {o}
<1>1. Running(cmd, k) \in OpRecord
  BY DEF Running, OpRecord, Stage, NoValue
<1> QED BY <1>1, EnsuresKeeps DEF Begins, VaultOK, Busy

\* Nobody is busy who was not, and nobody stops being so.
LEMMA OthersKeep ==
  ASSUME VaultOK, ops' \in [Op -> OpRecord \cup {Idle}],
         \A p \in Op : ops'[p] = Idle <=> ops[p] = Idle
  PROVE  Busy' = Busy
BY DEF Busy

\* A sign-in that ends, either way, releases those who are on it.
LEMMA SignInKeeps ==
  ASSUME VaultOK, NEW o \in Op, SignInEnds(o) \/ SignInFails(o)
  PROVE  VaultOK' /\ Busy' = Busy
<1>1. /\ cache' \in [Key -> Value \cup {NoValue}]
      /\ session' \in {"none", "good", "old"} /\ promise' \in Op \cup {NoOp, Failed}
      /\ signing' = signing \ {o} /\ signing' \subseteq Op
      /\ promise' \in Op => promise' \in signing'
  BY OpAssumption DEF VaultOK, SignInEnds, SignInFails
<1>2. ASSUME NEW p \in Op
      PROVE  /\ ops'[p] \in OpRecord \cup {Idle}
             /\ ops'[p] = Idle <=> ops[p] = Idle
             /\ ops'[p] # Idle => SignsOn(ops'[p], signing')
  <2>1. CASE ops[p] # Idle /\ ops[p].on = o
    <3>1. ops[p] \in OpRecord
      BY <2>1 DEF VaultOK
    <3>2. ops'[p] = Spawned(ops[p], "good") \/ ops'[p] = Unsigned(ops[p])
      BY <2>1 DEF SignInEnds, SignInFails
    <3> QED BY <2>1, <3>1, <3>2, SpawnedForm, UnsignedForm, OpIsNotIdle
  <2>2. CASE ~(ops[p] # Idle /\ ops[p].on = o)
    <3>1. ops'[p] = ops[p]
      BY <2>2 DEF SignInEnds, SignInFails
    <3>2. ops[p] # Idle => SignsOn(ops[p], signing')
      BY <1>1, <2>2 DEF VaultOK, SignsOn
    <3> QED BY <3>1, <3>2 DEF VaultOK
  <2> QED BY <2>1, <2>2
<1>3. ops' \in [Op -> OpRecord \cup {Idle}]
  BY <1>2 DEF SignInEnds, SignInFails
<1> QED BY <1>1, <1>2, <1>3, OthersKeep DEF VaultOK

\* What was read gets old: the form of the operations stays.
LEMMA ChangedForm ==
  ASSUME VaultOK, NEW k
  PROVE  /\ Changed(k) \in [Op -> OpRecord \cup {Idle}]
         /\ \A p \in Op : /\ Changed(k)[p] = Idle <=> ops[p] = Idle
                          /\ ops[p] # Idle => /\ Changed(k)[p].stage = ops[p].stage
                                               /\ Changed(k)[p].on = ops[p].on
                                               /\ Changed(k)[p] \in OpRecord
<1>1. ASSUME NEW p \in Op
      PROVE  /\ Changed(k)[p] \in OpRecord \cup {Idle}
             /\ Changed(k)[p] = Idle <=> ops[p] = Idle
             /\ ops[p] # Idle => /\ Changed(k)[p].stage = ops[p].stage
                                  /\ Changed(k)[p].on = ops[p].on
                                  /\ Changed(k)[p] \in OpRecord
  <2>1. CASE ops[p] # Idle /\ ops[p].key = k
    <3>1. ops[p] \in OpRecord
      BY <2>1 DEF VaultOK
    <3>2. PICK new : new = [ops[p] EXCEPT !.value = Aged(ops[p].value)]
      OBVIOUS
    <3>3. new \in OpRecord /\ new.stage = ops[p].stage /\ new.on = ops[p].on
      BY <3>1, <3>2 DEF OpRecord, Aged, Value
    <3>4. Changed(k)[p] = new
      BY <2>1, <3>2 DEF Changed
    <3> QED BY <2>1, <3>3, <3>4, OpIsNotIdle
  <2>2. CASE ~(ops[p] # Idle /\ ops[p].key = k)
    BY <2>2 DEF Changed, VaultOK
  <2> QED BY <2>1, <2>2
<1>2. Changed(k) = [p \in Op |-> Changed(k)[p]]
  BY DEF Changed
<1> QED BY <1>1, <1>2

\* A command takes effect.
LEMMA ActsKeeps ==
  ASSUME VaultOK, NEW o \in Op, Acts(o)
  PROVE  VaultOK' /\ Busy' = Busy
<1>1. ops[o] \in OpRecord /\ ops[o] # Idle /\ ops[o].stage = "running" /\ ops[o].on = NoOp
  BY DEF Acts, VaultOK, SignsOn
<1>2. CASE ops[o].cmd = "read"
  <2>1. PICK new : new = [ops[o] EXCEPT !.stage = "acted", !.value = "fresh"]
    OBVIOUS
  <2>2. new \in OpRecord /\ \A signs : SignsOn(new, signs)
    BY <1>1, <2>1 DEF OpRecord, Stage, Value, SignsOn
  <2>3. ops' = [ops EXCEPT ![o] = new]
    BY <1>1, <1>2, <2>1 DEF Acts, VaultOK
  <2>4. /\ ops' \in [Op -> OpRecord \cup {Idle}] /\ Busy' = Busy \cup {o}
        /\ \A p \in Op : ops'[p] # Idle => SignsOn(ops'[p], signing')
    BY <2>2, <2>3, OneChanges DEF Acts
  <2> QED BY <1>1, <1>2, <2>4 DEF Acts, VaultOK, Busy
<1>3. CASE ops[o].cmd # "read"
  <2>1. PICK k : k = ops[o].key /\ k \in Key
    BY <1>1 DEF OpRecord
  <2>2. Changed(k)[o] \in OpRecord /\ Changed(k)[o].on = NoOp
    BY <1>1, ChangedForm
  <2>3. PICK new : new = [Changed(k)[o] EXCEPT !.stage = "acted"]
    OBVIOUS
  <2>4. new \in OpRecord /\ \A signs : SignsOn(new, signs)
    BY <2>2, <2>3 DEF OpRecord, Stage, SignsOn
  <2>5. /\ ops' = [Changed(k) EXCEPT ![o] = new]
        /\ cache' = [cache EXCEPT ![k] = Aged(cache[k])]
        /\ UNCHANGED <<session, promise, signing>>
    BY <1>3, <2>1, <2>3, ChangedForm DEF Acts
  <2>6. ops' \in [Op -> OpRecord \cup {Idle}]
    BY <2>4, <2>5, ChangedForm
  <2>7. \A p \in Op : /\ ops'[p] = Idle <=> ops[p] = Idle
                      /\ ops'[p] # Idle => SignsOn(ops'[p], signing')
    BY <1>1, <2>4, <2>5, ChangedForm, OpIsNotIdle DEF VaultOK, SignsOn
  <2>8. cache' \in [Key -> Value \cup {NoValue}]
    BY <2>1, <2>5 DEF VaultOK, Aged, Value
  <2> QED BY <2>5, <2>6, <2>7, <2>8, OthersKeep DEF VaultOK
<1> QED BY <1>2, <1>3

\* An operation goes on within itself.
LEMMA VaultStepKeeps ==
  ASSUME VaultOK, NEW o \in Op, VaultSteps(o)
  PROVE  VaultOK' /\ Busy' = Busy
<1>1. ASSUME Refused(o) PROVE VaultOK' /\ Busy' = Busy
  <2>1. ops[o] \in OpRecord /\ o \in Busy
    BY <1>1 DEF Refused, VaultOK, Busy
  <2>2. PICK new : new = [ops[o] EXCEPT !.try = 2]
    OBVIOUS
  <2>3. new \in OpRecord
    BY <2>1, <2>2 DEF OpRecord
  <2>4. Ensures(o, new, "none", NoOp) /\ cache' = cache /\ NoOp \notin Op
    BY <1>1, <2>2, OpAssumption DEF Refused
  <2> QED BY <2>1, <2>3, <2>4, EnsuresKeeps
<1>2. ASSUME UpdateFails(o) PROVE VaultOK' /\ Busy' = Busy
  <2>1. ops[o] \in OpRecord /\ o \in Busy
    BY <1>2 DEF UpdateFails, HasFailed, VaultOK, Busy
  <2>2. Running("write", ops[o].key) \in OpRecord
    BY <2>1 DEF Running, OpRecord, Stage, Command
  <2>3. Ensures(o, Running("write", ops[o].key), session, promise) /\ cache' = cache
    BY <1>2 DEF UpdateFails
  <2>4. /\ session \in {"none", "good", "old"} /\ promise \in Op \cup {NoOp, Failed}
        /\ promise \in Op => promise \in signing
    BY DEF VaultOK
  <2> QED BY <2>1, <2>2, <2>3, <2>4, EnsuresKeeps
<1> QED BY <1>1, <1>2, SignInKeeps, ActsKeeps DEF VaultSteps

\* The command exits.
LEMMA ExitKeeps ==
  ASSUME VaultOK, NEW o \in Op, Returns(o) \/ Throws(o)
  PROVE  VaultOK' /\ o \in Busy /\ Busy' = Busy \ {o}
<1>1. ops[o] \in OpRecord /\ ops[o] # Idle
  BY DEF Returns, Throws, HasFailed, VaultOK
<1>2. /\ ops' = [ops EXCEPT ![o] = Idle] /\ UNCHANGED <<session, promise, signing>>
      /\ cache' \in [Key -> Value \cup {NoValue}]
  BY <1>1 DEF Returns, Throws, VaultOK, OpRecord
<1> QED BY <1>1, <1>2 DEF VaultOK, Busy, SignsOn

\* What happens to the vault from outside.
LEMMA OutsideKeeps ==
  ASSUME VaultOK, SessionRunsOut \/ \E k \in Key : CacheEnds(k) \/ Reloads(k)
  PROVE  VaultOK' /\ Busy' = Busy
<1>1. ASSUME SessionRunsOut \/ \E k \in Key : CacheEnds(k) PROVE VaultOK' /\ Busy' = Busy
  BY <1>1 DEF SessionRunsOut, CacheEnds, VaultOK, Busy, SignsOn
<1>2. ASSUME NEW k \in Key, Reloads(k) PROVE VaultOK' /\ Busy' = Busy
  <2>1. ops' = Changed(k) /\ UNCHANGED <<session, promise, signing>>
        /\ cache' \in [Key -> Value \cup {NoValue}]
    BY <1>2 DEF Reloads
  <2>2. \A p \in Op : ops'[p] # Idle => SignsOn(ops'[p], signing')
    BY <2>1, ChangedForm DEF VaultOK, SignsOn
  <2> QED BY <2>1, <2>2, ChangedForm, OthersKeep DEF VaultOK
<1> QED BY <1>1, <1>2

LEMMA VaultStarts == VaultInit => VaultOK /\ Busy = {}
BY OpAssumption DEF VaultInit, VaultOK, Busy

LEMMA VaultRestarts == VaultRestart => VaultOK' /\ Busy' = {}
BY OpAssumption DEF VaultRestart, VaultOK, Busy

------------------------------------------------------------------------------
(* The invariant *)

ReqRecord == [stage : {"gateway", "route", "rewrite"}, todo : Seq(Ref)]

\* Only a rewrite goes on without an operation under way; while one is, it is that
\* of the next reference.
ReqsOK ==
  /\ reqs \in [Op -> ReqRecord \cup {NoRequest}]
  /\ \A o \in Busy : /\ reqs[o] # NoRequest
                     /\ reqs[o].stage = "rewrite" => reqs[o].todo # <<>>
  /\ \A o \in Op : reqs[o].stage \in {"gateway", "route"} => o \in Busy

TokensOK ==
  /\ held \subseteq issued /\ file \subseteq issued /\ expired \subseteq issued
  /\ issued \subseteq Token
  /\ saved \in BOOLEAN
  /\ refs \in [Ref -> [state : {"unissued", "live", "dead"}, token : issued \cup {NoOp}]]
  /\ uses \in [Ref -> Nat]

\* What is in the file and still good is in memory, unless the last write failed.
FileFollows == saved => file \ expired \subseteq held

\* The operation reads the credential of a reference that it has used up.
Awaits(o, r) == o \in Busy /\ reqs[o].stage = "rewrite" /\ Head(reqs[o].todo) = r

\* A reference is replaced once, by the one operation that awaited its credential
\* when it was used up.
Unspent ==
  \A r \in Ref :
    /\ uses[r] <= 1
    /\ refs[r].state # "dead" => uses[r] = 0 /\ \A o \in Op : ~Awaits(o, r)
    /\ \A o \in Op : Awaits(o, r) => uses[r] = 0 /\ \A p \in Op : Awaits(p, r) => p = o

IInv == VaultOK /\ ReqsOK /\ TokensOK /\ FileFollows /\ Unspent

LEMMA Types == IInv => TypeOK
<1> SUFFICES ASSUME IInv PROVE TypeOK
  OBVIOUS
<1>1. ASSUME NEW o \in Op
      PROVE  /\ reqs[o].stage \in {"none", "gateway", "route", "rewrite"}
             /\ reqs[o].stage \in {"none", "rewrite"} \/ ops[o] # Idle
             /\ reqs[o] # NoRequest => reqs[o].todo \in Seq(Ref)
  <2>1. reqs[o] \in ReqRecord \cup {NoRequest}
    BY DEF IInv, ReqsOK
  <2> QED BY <2>1 DEF ReqRecord, NoRequest, IInv, ReqsOK, Busy
<1> QED BY <1>1, VaultTypes DEF IInv, TypeOK, TokensOK

LEMMA InitHolds == Init => IInv
<1> SUFFICES ASSUME Init PROVE IInv
  OBVIOUS
<1>1. VaultOK /\ Busy = {}
  BY VaultStarts DEF Init
<1>2. ReqsOK
  BY <1>1 DEF Init, ReqsOK, NoRequest
<1>3. TokensOK /\ FileFollows
  BY DEF Init, TokensOK, FileFollows, NoRef
<1>4. Unspent
  BY <1>1 DEF Init, Unspent, Awaits
<1> QED BY <1>1, <1>2, <1>3, <1>4 DEF IInv

------------------------------------------------------------------------------
(* The steps *)

\* Nothing is used up, and nobody awaits what he did not.
LEMMA SpendsNothing ==
  ASSUME IInv, UNCHANGED <<refs, uses>>,
         \A o \in Op, r \in Ref : Awaits(o, r)' => Awaits(o, r)
  PROVE  Unspent'
BY DEF IInv, Unspent

\* Requests go on as they are while the vault does.
LEMMA VaultAlone ==
  ASSUME IInv, VaultOK', Busy' = Busy, UNCHANGED <<tokenVars, refs, reqs, uses>>
  PROVE  IInv'
<1>1. ReqsOK'
  BY DEF IInv, ReqsOK
<1>2. TokensOK' /\ FileFollows'
  BY DEF IInv, TokensOK, FileFollows, tokenVars
<1>3. Unspent'
  BY SpendsNothing DEF Awaits
<1> QED BY <1>1, <1>2, <1>3 DEF IInv

LEMMA VaultKept ==
  ASSUME IInv, KeepsVault
  PROVE  VaultOK' /\ Busy' = Busy
BY DEF IInv, KeepsVault, vaultVars, VaultOK, Busy, SignsOn

\* Tokens come and go: no request is touched.
LEMMA TokenSteps ==
  ASSUME IInv, NEW t \in Token,
         Issue(t) \/ Revoke(t) \/ CallsExpired(t) \/ TokenExpires(t)
  PROVE  IInv'
<1>1. /\ VaultOK' /\ Busy' = Busy /\ UNCHANGED <<refs, reqs, uses>>
  BY VaultKept DEF Issue, Revoke, CallsExpired, TokenExpires, KeepsRequests
<1>2. ReqsOK' /\ Unspent'
  BY <1>1, SpendsNothing DEF IInv, ReqsOK, Awaits
<1>3. TokensOK' /\ FileFollows'
  <2>1. CASE Issue(t)
    BY <2>1 DEF Issue, Enters, KeepsRequests, IInv, TokensOK, FileFollows
  <2>2. CASE Revoke(t) \/ CallsExpired(t)
    <3>1. Persists(held \ {t})
      BY <2>2 DEF Revoke, CallsExpired, Drops
    <3> QED BY <1>1, <3>1 DEF Persists, IInv, TokensOK, FileFollows
  <2>3. CASE TokenExpires(t)
    BY <2>3 DEF TokenExpires, KeepsRequests, IInv, TokensOK, FileFollows
  <2> QED BY <2>1, <2>2, <2>3
<1> QED BY <1>1, <1>2, <1>3 DEF IInv

\* Dropping a token that is not valid.
LEMMA DropsKeeps ==
  ASSUME IInv, NEW t, Drops(t)
  PROVE  /\ issued' = issued /\ held' \subseteq held
         /\ TokensOK /\ FileFollows'
         /\ held' \subseteq issued' /\ file' \subseteq issued' /\ expired' \subseteq issued'
         /\ saved' \in BOOLEAN
BY DEF Drops, Persists, IInv, TokensOK, FileFollows, tokenVars

\* A reference is issued, or gets too old.
LEMMA RefSteps ==
  ASSUME IInv, NEW r \in Ref, (\E t \in Token : IssueRef(t, r)) \/ RefExpires(r)
  PROVE  IInv'
<1>1. /\ VaultOK' /\ Busy' = Busy /\ UNCHANGED <<held, file, saved, issued, expired, reqs, uses>>
  BY VaultKept DEF IssueRef, RefExpires, tokenVars
<1>2. \E new \in [state : {"live", "dead"}, token : issued \cup {NoOp}] :
        refs[r].state # "dead" /\ refs' = [refs EXCEPT ![r] = new]
  <2>1. ASSUME NEW t \in Token, IssueRef(t, r)
        PROVE  /\ [state |-> "live", token |-> t] \in [state : {"live", "dead"}, token : issued \cup {NoOp}]
               /\ refs[r].state # "dead" /\ refs' = [refs EXCEPT ![r] = [state |-> "live", token |-> t]]
    BY <2>1 DEF IssueRef, NoRef, MayRead, Valid, IInv, TokensOK
  <2>2. ASSUME RefExpires(r)
        PROVE  /\ DeadRef \in [state : {"live", "dead"}, token : issued \cup {NoOp}]
               /\ refs[r].state # "dead" /\ refs' = [refs EXCEPT ![r] = DeadRef]
    BY <2>2 DEF RefExpires, Spends, DeadRef
  <2> QED BY <2>1, <2>2
<1>3. refs' \in [Ref -> [state : {"unissued", "live", "dead"}, token : issued \cup {NoOp}]]
      /\ refs[r].state # "dead" /\ \A q \in Ref : q # r => refs'[q] = refs[q]
  BY <1>2 DEF IInv, TokensOK
<1>4. ReqsOK' /\ TokensOK' /\ FileFollows'
  BY <1>1, <1>3 DEF IInv, ReqsOK, TokensOK, FileFollows
<1>5. \A o \in Op, q \in Ref : Awaits(o, q)' = Awaits(o, q)
  BY <1>1 DEF Awaits
<1>6. Unspent'
  BY <1>1, <1>3, <1>5 DEF IInv, Unspent
<1> QED BY <1>1, <1>4, <1>6 DEF IInv

\* A request, or a gateway call, begins to wait for a command.
LEMMA BeginSteps ==
  ASSUME IInv, NEW o \in Op, NEW cmd \in Command, NEW k \in Key, Begins(o, cmd, k),
         NEW stage \in {"gateway", "route"}, NEW todo \in Seq(Ref), Calls(o, stage, todo),
         UNCHANGED <<tokenVars, refs, uses>>
  PROVE  IInv'
<1>1. VaultOK' /\ Busy' = Busy \cup {o}
  BY BeginsKeeps DEF IInv
<1>2. PICK q : q = [stage |-> stage, todo |-> todo]
  OBVIOUS
<1>3. q \in ReqRecord /\ q # NoRequest /\ q.stage \in {"gateway", "route"}
  BY <1>2 DEF ReqRecord, NoRequest
<1>4. /\ reqs' \in [Op -> ReqRecord \cup {NoRequest}] /\ reqs'[o] = q
      /\ \A p \in Op : p # o => reqs'[p] = reqs[p]
  <2>1. reqs' = [reqs EXCEPT ![o] = q]
    BY <1>2 DEF Calls
  <2> QED BY <1>3, <2>1 DEF IInv, ReqsOK
<1>5. ReqsOK'
  <2>1. \A p \in Busy' : /\ reqs'[p] # NoRequest
                         /\ reqs'[p].stage = "rewrite" => reqs'[p].todo # <<>>
    <3> SUFFICES ASSUME NEW p \in Busy'
                 PROVE  /\ reqs'[p] # NoRequest
                        /\ reqs'[p].stage = "rewrite" => reqs'[p].todo # <<>>
      OBVIOUS
    <3>1. CASE p = o
      BY <1>3, <1>4, <3>1
    <3>2. CASE p # o
      <4>1. p \in Busy /\ p \in Op
        BY <1>1, <3>2 DEF Busy
      <4> QED BY <1>4, <3>2, <4>1 DEF IInv, ReqsOK
    <3> QED BY <3>1, <3>2
  <2>2. ASSUME NEW p \in Op, reqs'[p].stage \in {"gateway", "route"} PROVE p \in Busy'
    BY <1>1, <1>4, <2>2 DEF IInv, ReqsOK
  <2> QED BY <1>4, <2>1, <2>2 DEF ReqsOK
<1>6. TokensOK' /\ FileFollows'
  BY DEF IInv, TokensOK, FileFollows, tokenVars
<1>7. \A p \in Op, r \in Ref : Awaits(p, r)' => Awaits(p, r)
  BY <1>1, <1>3, <1>4 DEF Awaits
<1> QED BY <1>1, <1>5, <1>6, <1>7, SpendsNothing DEF IInv

\* What a request without an operation becomes: nothing, or a rewrite.
LEMMA RestForm ==
  ASSUME IInv, NEW o \in Op, NEW q \in ReqRecord \cup {NoRequest}, q.stage \in {"none", "rewrite"},
         reqs' = [reqs EXCEPT ![o] = q], Busy' = Busy \ {o}
  PROVE  /\ ReqsOK'
         /\ \A p \in Op, r \in Ref : Awaits(p, r)' <=> Awaits(p, r) /\ p # o
<1>1. /\ reqs' \in [Op -> ReqRecord \cup {NoRequest}] /\ reqs'[o] = q
      /\ \A p \in Op : p # o => reqs'[p] = reqs[p]
  BY DEF IInv, ReqsOK
<1>2. ReqsOK'
  BY <1>1 DEF IInv, ReqsOK
<1> QED BY <1>1, <1>2 DEF Awaits

\* The wait is over, without a reference: the caller goes on or is told.
LEMMA RestSteps ==
  ASSUME IInv, NEW o \in Op, NEW q \in ReqRecord \cup {NoRequest}, q.stage \in {"none", "rewrite"},
         reqs' = [reqs EXCEPT ![o] = q], VaultOK', Busy' = Busy \ {o},
         UNCHANGED <<tokenVars, refs, uses>>
  PROVE  IInv'
<1>1. TokensOK' /\ FileFollows'
  BY DEF IInv, TokensOK, FileFollows, tokenVars
<1> QED BY <1>1, RestForm, SpendsNothing DEF IInv

LEMMA NoRequestForm == NoRequest.stage = "none"
BY DEF NoRequest

\* The references in a request, and those after the next.
LEMMA TodoForm ==
  ASSUME IInv, NEW o \in Op, reqs[o].stage = "rewrite"
  PROVE  /\ reqs[o].todo \in Seq(Ref)
         /\ reqs[o].todo # <<>> => /\ Head(reqs[o].todo) \in Ref
                                  /\ [stage |-> "rewrite", todo |-> Tail(reqs[o].todo)] \in ReqRecord
<1>1. reqs[o] \in ReqRecord
  BY DEF IInv, ReqsOK, NoRequest
<1> QED BY <1>1 DEF ReqRecord

\* The steps that end a wait or a request, or pass over a reference.
LEMMA EndSteps ==
  ASSUME IInv, NEW o \in Op,
         GatewayEnds(o) \/ Injects(o) \/ Ignores(o) \/ RequestFails(o) \/ Sends(o)
  PROVE  IInv'
<1>1. CASE GatewayEnds(o) \/ RequestFails(o)
  <2>1. /\ reqs' = [reqs EXCEPT ![o] = NoRequest] /\ UNCHANGED <<tokenVars, refs, uses>>
        /\ Returns(o) \/ Throws(o)
    BY <1>1 DEF GatewayEnds, RequestFails, Ends
  <2> QED BY <2>1, ExitKeeps, RestSteps, NoRequestForm DEF IInv
<1>2. CASE Injects(o)
  <2>1. PICK q : q = [stage |-> "rewrite", todo |-> reqs[o].todo]
    OBVIOUS
  <2>2. q \in ReqRecord /\ q.stage = "rewrite"
    BY <1>2, <2>1 DEF Injects, IInv, ReqsOK, ReqRecord, NoRequest
  <2>3. reqs' = [reqs EXCEPT ![o] = q] /\ UNCHANGED <<tokenVars, refs, uses>> /\ Returns(o)
    BY <1>2, <2>1 DEF Injects, Calls
  <2> QED BY <2>2, <2>3, ExitKeeps, RestSteps DEF IInv
<1>3. CASE Ignores(o)
  <2>1. PICK q : q = [stage |-> "rewrite", todo |-> Tail(reqs[o].todo)]
    OBVIOUS
  <2>2. q \in ReqRecord /\ q.stage = "rewrite"
    BY <1>3, <2>1, TodoForm DEF Ignores
  <2>3. reqs' = [reqs EXCEPT ![o] = q] /\ UNCHANGED <<tokenVars, refs, uses>> /\ KeepsVault /\ o \notin Busy
    BY <1>3, <2>1 DEF Ignores, Skips, Calls, Busy
  <2>4. VaultOK' /\ Busy' = Busy \ {o}
    BY <2>3, VaultKept
  <2> QED BY <2>2, <2>3, <2>4, RestSteps
<1>4. CASE Sends(o)
  <2>1. /\ reqs' = [reqs EXCEPT ![o] = NoRequest] /\ UNCHANGED <<tokenVars, refs, uses>>
        /\ KeepsVault /\ o \notin Busy
    BY <1>4 DEF Sends, Ends, Busy
  <2>2. VaultOK' /\ Busy' = Busy \ {o}
    BY <2>1, VaultKept
  <2> QED BY <2>1, <2>2, RestSteps, NoRequestForm
<1> QED BY <1>1, <1>2, <1>3, <1>4

\* A reference whose token is no longer valid is used up, and left as it is.
LEMMA VoidSteps ==
  ASSUME IInv, NEW o \in Op, Voids(o)
  PROVE  IInv'
<1>1. PICK r : r = Head(reqs[o].todo)
  OBVIOUS
<1>2. PICK q : q = [stage |-> "rewrite", todo |-> Tail(reqs[o].todo)]
  OBVIOUS
<1>3. r \in Ref /\ q \in ReqRecord /\ q.stage = "rewrite"
  BY <1>1, <1>2, TodoForm DEF Voids
<1>4. /\ reqs' = [reqs EXCEPT ![o] = q] /\ refs' = [refs EXCEPT ![r] = DeadRef]
      /\ uses' = uses /\ refs[r].state = "live" /\ Drops(refs[r].token)
  BY <1>1, <1>2 DEF Voids, Skips, Calls, Spends
<1>5. VaultOK' /\ Busy' = Busy \ {o}
  BY VaultKept DEF Voids, Busy
<1>6. ReqsOK' /\ \A p \in Op, x \in Ref : Awaits(p, x)' => Awaits(p, x)
  BY <1>3, <1>4, <1>5, RestForm
<1>7. /\ refs' \in [Ref -> [state : {"unissued", "live", "dead"}, token : issued \cup {NoOp}]]
      /\ refs'[r].state = "dead" /\ \A x \in Ref : x # r => refs'[x] = refs[x]
  BY <1>3, <1>4 DEF DeadRef, IInv, TokensOK
<1>8. TokensOK' /\ FileFollows'
  BY <1>4, <1>7, DropsKeeps DEF TokensOK
<1>9. Unspent'
  BY <1>3, <1>4, <1>6, <1>7 DEF IInv, Unspent
<1> QED BY <1>5, <1>6, <1>8, <1>9 DEF IInv

\* A reference is used up: replaced at once, or as soon as its credential is read.
LEMMA ConsumeSteps ==
  ASSUME IInv, NEW o \in Op, Consumes(o)
  PROVE  IInv'
<1>1. PICK r : r = Head(reqs[o].todo)
  OBVIOUS
<1>2. PICK q : q = [stage |-> "rewrite", todo |-> Tail(reqs[o].todo)]
  OBVIOUS
<1>3. /\ r \in Ref /\ q \in ReqRecord /\ q.stage = "rewrite"
      /\ reqs[o].stage = "rewrite" /\ reqs[o].todo # <<>> /\ o \notin Busy
  BY <1>1, <1>2, TodoForm DEF Consumes, Busy
<1>4. /\ refs' = [refs EXCEPT ![r] = DeadRef] /\ refs[r].state = "live"
      /\ UNCHANGED <<held, file, saved, issued, expired>>
  BY <1>1 DEF Consumes, Spends, tokenVars
<1>5. /\ refs' \in [Ref -> [state : {"unissued", "live", "dead"}, token : issued \cup {NoOp}]]
      /\ refs'[r].state = "dead" /\ \A x \in Ref : x # r => refs'[x] = refs[x]
  BY <1>3, <1>4 DEF DeadRef, IInv, TokensOK
<1>6. FileFollows'
  BY <1>4 DEF IInv, FileFollows
<1>7. uses[r] = 0 /\ \A p \in Op : ~Awaits(p, r)
  BY <1>3, <1>4 DEF IInv, Unspent
<1>8. CASE Replaces(o, r) /\ KeepsVault
  <2>1. reqs' = [reqs EXCEPT ![o] = q] /\ uses' = [uses EXCEPT ![r] = uses[r] + 1]
    BY <1>2, <1>8 DEF Replaces, Skips, Calls
  <2>2. VaultOK' /\ Busy' = Busy \ {o}
    BY <1>3, <1>8, VaultKept
  <2>3. ReqsOK' /\ \A p \in Op, x \in Ref : Awaits(p, x)' => Awaits(p, x)
    BY <1>3, <2>1, <2>2, RestForm
  <2>4. uses' \in [Ref -> Nat] /\ uses'[r] = 1 /\ \A x \in Ref : x # r => uses'[x] = uses[x]
    BY <1>3, <1>7, <2>1 DEF IInv, TokensOK
  <2>5. TokensOK'
    BY <1>4, <1>5, <2>4 DEF IInv, TokensOK
  <2>6. Unspent'
    BY <1>3, <1>5, <1>7, <2>3, <2>4 DEF IInv, Unspent
  <2> QED BY <1>6, <2>2, <2>3, <2>5, <2>6 DEF IInv
<1>9. CASE Begins(o, "read", RefKey[r]) /\ UNCHANGED <<reqs, uses>>
  <2>1. VaultOK' /\ Busy' = Busy \cup {o}
    BY <1>3, <1>9, BeginsKeeps, KeysAssumption DEF IInv, Command
  <2>2. ReqsOK'
    BY <1>3, <1>9, <2>1, NoRequestForm DEF IInv, ReqsOK
  <2>3. TokensOK'
    BY <1>4, <1>5, <1>9 DEF IInv, TokensOK
  <2>4. \A p \in Op, x \in Ref : Awaits(p, x)' => Awaits(p, x) \/ (p = o /\ x = r)
    BY <1>1, <1>9, <2>1 DEF Awaits
  <2>5. Unspent'
    BY <1>3, <1>5, <1>7, <1>9, <2>4 DEF IInv, Unspent
  <2> QED BY <1>6, <2>1, <2>2, <2>3, <2>5 DEF IInv
<1> QED BY <1>1, <1>8, <1>9 DEF Consumes

\* The credential is there, and the reference is replaced.
LEMMA RewriteSteps ==
  ASSUME IInv, NEW o \in Op, Rewrites(o)
  PROVE  IInv'
<1>1. PICK r : r = Head(reqs[o].todo)
  OBVIOUS
<1>2. PICK q : q = [stage |-> "rewrite", todo |-> Tail(reqs[o].todo)]
  OBVIOUS
<1>3. r \in Ref /\ q \in ReqRecord /\ q.stage = "rewrite"
  BY <1>1, <1>2, TodoForm DEF Rewrites
<1>4. /\ reqs' = [reqs EXCEPT ![o] = q] /\ uses' = [uses EXCEPT ![r] = uses[r] + 1]
      /\ UNCHANGED <<held, file, saved, issued, expired, refs>>
  BY <1>1, <1>2 DEF Rewrites, Replaces, Skips, Calls, tokenVars
<1>5. VaultOK' /\ o \in Busy /\ Busy' = Busy \ {o}
  BY ExitKeeps DEF Rewrites, IInv
<1>6. Awaits(o, r)
  BY <1>1, <1>5 DEF Awaits, Rewrites
<1>7. /\ uses[r] = 0 /\ refs[r].state = "dead" /\ \A p \in Op : Awaits(p, r) => p = o
  BY <1>3, <1>6 DEF IInv, Unspent
<1>8. ReqsOK' /\ \A p \in Op, x \in Ref : Awaits(p, x)' => Awaits(p, x) /\ p # o
  BY <1>3, <1>4, <1>5, RestForm
<1>9. uses' \in [Ref -> Nat] /\ uses'[r] = 1 /\ \A x \in Ref : x # r => uses'[x] = uses[x]
  BY <1>3, <1>4, <1>7 DEF IInv, TokensOK
<1>10. TokensOK' /\ FileFollows'
  BY <1>4, <1>9 DEF IInv, TokensOK, FileFollows
<1>11. Unspent'
  BY <1>3, <1>4, <1>7, <1>8, <1>9 DEF IInv, Unspent
<1> QED BY <1>5, <1>8, <1>10, <1>11 DEF IInv

\* A call to the gateway that waits for a command.
LEMMA WaitSteps ==
  ASSUME IInv, NEW o \in Op, NEW t \in Token, NEW k \in Key,
         Reveals(o, t, k) \/ Stores(o, t, k)
  PROVE  IInv'
<1>1. <<>> \in Seq(Ref) /\ "read" \in Command /\ "update" \in Command
  BY DEF Command
<1>2. /\ Calls(o, "gateway", <<>>) /\ UNCHANGED <<tokenVars, refs, uses>>
      /\ \E j \in Key, cmd \in Command : Begins(o, cmd, j)
  BY <1>1 DEF Reveals, Stores
<1> QED BY <1>1, <1>2, BeginSteps

\* A request comes in.
LEMMA ArriveSteps ==
  ASSUME IInv, NEW o \in Op, Arrives(o)
  PROVE  IInv'
<1>1. PICK content \in Contents :
        \/ Calls(o, "rewrite", content) /\ KeepsVault
        \/ Begins(o, "read", RouteKey) /\ Calls(o, "route", content)
  BY DEF Arrives
<1>2. content \in Seq(Ref) /\ UNCHANGED <<tokenVars, refs, uses>> /\ o \notin Busy
  BY <1>1, ContentsAssumption DEF Arrives, IInv, ReqsOK
<1>3. CASE Calls(o, "rewrite", content) /\ KeepsVault
  <2>1. PICK q : q = [stage |-> "rewrite", todo |-> content]
    OBVIOUS
  <2>2. q \in ReqRecord /\ q.stage = "rewrite"
    BY <1>2, <2>1 DEF ReqRecord
  <2>3. reqs' = [reqs EXCEPT ![o] = q]
    BY <1>3, <2>1 DEF Calls
  <2>4. VaultOK' /\ Busy' = Busy \ {o}
    BY <1>2, <1>3, VaultKept
  <2> QED BY <1>2, <2>2, <2>3, <2>4, RestSteps
<1>4. CASE Begins(o, "read", RouteKey) /\ Calls(o, "route", content)
  BY <1>2, <1>4, BeginSteps, KeysAssumption DEF Command
<1> QED BY <1>1, <1>3, <1>4

\* Tokens are read from the file; references are gone, and so are the requests.
LEMMA RestartStep ==
  ASSUME IInv, Restart
  PROVE  IInv'
<1>1. VaultOK' /\ Busy' = {}
  BY VaultRestarts DEF Restart
<1>2. ReqsOK'
  BY <1>1 DEF Restart, ReqsOK, NoRequest
<1>3. TokensOK' /\ FileFollows'
  <2>1. NoRef \in [state : {"unissued", "live", "dead"}, token : issued \cup {NoOp}]
        /\ DeadRef \in [state : {"unissued", "live", "dead"}, token : issued \cup {NoOp}]
    BY DEF NoRef, DeadRef
  <2> QED BY <2>1 DEF Restart, IInv, TokensOK, FileFollows
<1>4. \A r \in Ref : refs'[r].state # "dead" => refs[r].state # "dead"
  BY DEF Restart, NoRef, DeadRef
<1>5. Unspent'
  BY <1>1, <1>4 DEF Restart, IInv, Unspent, Awaits
<1> QED BY <1>1, <1>2, <1>3, <1>5 DEF IInv

LEMMA StepHolds == IInv /\ [Next]_vars => IInv'
<1> SUFFICES ASSUME IInv, [Next]_vars PROVE IInv'
  OBVIOUS
<1>1. ASSUME NEW t \in Token, Issue(t) \/ Revoke(t) \/ CallsExpired(t) \/ TokenExpires(t)
      PROVE  IInv'
  BY <1>1, TokenSteps
<1>2. ASSUME NEW r \in Ref, (\E t \in Token : IssueRef(t, r)) \/ RefExpires(r)
      PROVE  IInv'
  BY <1>2, RefSteps
<1>3. ASSUME NEW o \in Op, NEW t \in Token, NEW k \in Key, Reveals(o, t, k) \/ Stores(o, t, k)
      PROVE  IInv'
  BY <1>3, WaitSteps
<1>4. ASSUME NEW o \in Op, Arrives(o) PROVE IInv'
  BY <1>4, ArriveSteps
<1>5. ASSUME NEW o \in Op, Tunnels(o) PROVE IInv'
  <2>1. /\ Calls(o, "gateway", <<>>) /\ UNCHANGED <<tokenVars, refs, uses>>
        /\ Begins(o, "read", RouteKey)
    BY <1>5 DEF Tunnels
  <2>2. <<>> \in Seq(Ref) /\ "read" \in Command
    BY DEF Command
  <2> QED BY <2>1, <2>2, BeginSteps, KeysAssumption
<1>6. ASSUME NEW o \in Op, RequestSteps(o) PROVE IInv'
  BY <1>6, EndSteps, VoidSteps, ConsumeSteps, RewriteSteps DEF RequestSteps
<1>7. ASSUME NEW o \in Op, OpSteps(o) PROVE IInv'
  BY <1>7, VaultStepKeeps, VaultAlone DEF OpSteps, Alone, IInv
<1>8. ASSUME SessionRunsOut \/ \E k \in Key : CacheEnds(k) \/ Reloads(k), Alone PROVE IInv'
  BY <1>8, OutsideKeeps, VaultAlone DEF Alone, IInv
<1>9. CASE Restart
  BY <1>9, RestartStep
<1>10. CASE UNCHANGED vars
  BY <1>10, VaultKept, VaultAlone DEF vars, KeepsVault
<1> QED BY <1>1, <1>2, <1>3, <1>4, <1>5, <1>6, <1>7, <1>8, <1>9, <1>10 DEF Next

------------------------------------------------------------------------------
(* The theorems *)

\* The state of the proxy and of its vault is always as IInv says.
THEOREM Invariance == Spec => []IInv
BY InitHolds, StepHolds, PTL DEF Spec

\* Every state is well typed: an operation that waits for a sign-in waits for one under
\* way, and no request waits for a command that is not (credentials.ts, proxy.ts).
THEOREM TypeCorrect == Spec => []TypeOK
BY Invariance, Types, PTL

\* A reference is replaced by its credential at most once, whatever the requests that
\* carry it wait for: consumeRef() comes before the read (body-rewriter.ts).
THEOREM UsedOnce == Spec => []OneUse
<1>1. IInv => OneUse
  BY DEF IInv, Unspent, OneUse
<1> QED BY Invariance, <1>1, PTL

\* A token that was revoked, or ran out, is accepted again only after a restart that
\* found it in a file that could not be written (tokens.ts).
THEOREM StaysRevoked == Spec => NeverBack
<1> DEFINE Back == \A t \in Token : t \in held' \ held => t \notin issued \/ ~saved
<1>1. IInv /\ [Next]_vars => [Back]_vars
  <2> SUFFICES ASSUME IInv, Next, NEW t \in Token, t \in held' \ held
               PROVE  t \notin issued \/ ~saved
    OBVIOUS
  <2>1. CASE \E u \in Token : Issue(u)
    BY <2>1 DEF Issue, Enters
  <2>2. CASE Restart
    BY <2>2 DEF Restart, IInv, FileFollows
  <2>3. CASE held' \subseteq held
    BY <2>3
  <2>4. (\E u \in Token : Issue(u)) \/ Restart \/ held' \subseteq held
    <3>1. ASSUME NEW u \in Token, Revoke(u) \/ CallsExpired(u) \/ TokenExpires(u)
          PROVE  held' \subseteq held
      BY <3>1 DEF Revoke, CallsExpired, TokenExpires, Drops, Persists
    <3>2. ASSUME NEW u \in Token, NEW r \in Ref, IssueRef(u, r) PROVE held' = held
      BY <3>2 DEF IssueRef, tokenVars
    <3>3. ASSUME NEW o \in Op, NEW u \in Token, NEW k \in Key, Reveals(o, u, k) \/ Stores(o, u, k)
          PROVE  held' = held
      BY <3>3 DEF Reveals, Stores, tokenVars
    <3>4. ASSUME NEW o \in Op, Arrives(o) \/ Tunnels(o) \/ OpSteps(o) PROVE held' = held
      BY <3>4 DEF Arrives, Tunnels, OpSteps, Alone, tokenVars
    <3>5. ASSUME NEW o \in Op, RequestSteps(o) PROVE held' \subseteq held
      BY <3>5 DEF RequestSteps, GatewayEnds, Injects, Ignores, Voids, Consumes, Rewrites,
                  RequestFails, Sends, Drops, Persists, tokenVars
    <3>6. ASSUME NEW r \in Ref, RefExpires(r) PROVE held' = held
      BY <3>6 DEF RefExpires, tokenVars
    <3>7. ASSUME Alone PROVE held' = held
      BY <3>7 DEF Alone, tokenVars
    <3> QED BY <3>1, <3>2, <3>3, <3>4, <3>5, <3>6, <3>7 DEF Next
  <2> QED BY <2>1, <2>2, <2>3, <2>4
<1>2. [][Back]_vars => NeverBack
  BY PTL DEF NeverBack
<1> QED BY Invariance, <1>1, <1>2, PTL DEF Spec
==============================================================================
