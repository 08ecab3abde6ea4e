----------------------------- MODULE Peers_proofs -----------------------------
(***************************************************************************)
(* For any senders, sessions, limits and reach: every state of Peers is    *)
(* well typed, a pair is marked exactly while one question about it is     *)
(* open, and every step of a pair is one that PairLife allows.             *)
(***************************************************************************)
EXTENDS Peers, TLAPS

StartAsk(ask) == ask.pair[2] = Start

\* A held message is for the session of its pair; a held start is for the
\* session it created, which no other question is for.
AsksFormed ==
  \A ask \in asks :
    /\ StartAsk(ask) => ask.to \in Fresh
    /\ ~StartAsk(ask) => ask.pair[2] = ask.to

StartsDiffer ==
  \A a, b \in asks : StartAsk(a) /\ StartAsk(b) /\ a.to = b.to => a = b

\* A fresh session that nobody has written to, or asked to write to.
Untouched(f) ==
  /\ \A turn \in turns : turn.to # f
  /\ \A ask \in asks : ask.pair[2] # f
  /\ \A o \in Outsider : rows[<<o, f>>] = "none"
  /\ \A note \in outbound : note[1] # f

\* A name not yet given, or given to a start that waits for its answer.
Unborn(f) ==
  \/ scopes[f] = "unmade"
  \/ \E ask \in asks : StartAsk(ask) /\ ask.to = f

UnbornUntouched == \A f \in Fresh : Unborn(f) => Untouched(f)

IInv == TypeOK /\ MarkIsQuestion /\ AsksFormed /\ StartsDiffer /\ UnbornUntouched

------------------------------------------------------------------------------
(* Facts about states *)

\* The sender and the receiver of a pair.
LEMMA PairParts ==
  ASSUME NEW pair \in Pair
  PROVE  /\ pair = <<pair[1], pair[2]>>
         /\ pair[1] \in Outsider
         /\ pair[2] \in Local \cup {Start}
         /\ pair[2] = Start => pair[1] \in Remote
<1>1. CASE pair \in Outsider \X Local
  <2>1. PICK o \in Outsider, s \in Local : pair = <<o, s>>
    BY <1>1
  <2> QED BY <2>1, ScopesAssumption DEF Local
<1>2. CASE pair \in Remote \X {Start}
  <2>1. PICK r \in Remote : pair = <<r, Start>>
    BY <1>2
  <2> QED BY <2>1 DEF Outsider
<1> QED BY <1>1, <1>2 DEF Pair

\* A sender from outside and a session are a pair; so are a remote sender and Start.
LEMMA PairOf ==
  /\ \A o \in Outsider, s \in Local : <<o, s>> \in Pair
  /\ \A r \in Remote : <<r, Start>> \in Pair
BY DEF Pair

LEMMA FreshIsApart == \A f \in Fresh : f \in Local /\ f \notin Session /\ f # Start
BY ScopesAssumption DEF Local

\* An unborn session is not known.
LEMMA UnbornUnknown ==
  ASSUME IInv, NEW f \in Fresh, Unborn(f)
  PROVE  ~Known(f)
<1>1. scopes[f] # "used"
  BY DEF Unborn, StartAsk, IInv, MarkIsQuestion
<1>2. \A turn \in turns : turn.to # f
  BY DEF IInv, UnbornUntouched, Untouched
<1> QED BY <1>1, <1>2, FreshIsApart DEF Known

\* The session of a question that is not a start's is not unborn.
LEMMA AskedIsBorn ==
  ASSUME IInv, NEW ask \in asks, NEW f \in Fresh, Unborn(f), ask.to = f
  PROVE  StartAsk(ask)
<1>1. ask.pair[2] # f
  BY DEF IInv, UnbornUntouched, Untouched
<1> QED BY <1>1 DEF IInv, AsksFormed

\* A question about a pair is what its mark means.
LEMMA MarkedIsAsked ==
  ASSUME IInv
  PROVE  \A pair \in Pair : pair \in pending <=> \E ask \in asks : ask.pair = pair
BY DEF IInv, MarkIsQuestion

\* The pairs of an unborn session are new.
LEMMA UnbornIsNew ==
  ASSUME IInv, NEW f \in Fresh, Unborn(f), NEW o \in Outsider
  PROVE  <<o, f>> \in Pair /\ <<o, f>> \notin pending
         /\ rows[<<o, f>>] = "none" /\ Kind(<<o, f>>) = "new"
<1>1. <<o, f>> \in Pair /\ <<o, f>> \notin PreApproved
  BY PairOf, FreshIsApart, PreApprovedAssumption
<1>2. Untouched(f)
  BY DEF IInv, UnbornUntouched
<1>3. <<o, f>> \notin pending
  BY <1>1, <1>2, MarkedIsAsked DEF Untouched
<1>4. rows[<<o, f>>] = "none"
  BY <1>2 DEF Untouched
<1> QED BY <1>1, <1>3, <1>4 DEF Kind

\* The pair of a question, and that of its sender and its session.
LEMMA AskParts ==
  ASSUME IInv, NEW ask \in asks
  PROVE  /\ ask \in Ask /\ ask.pair \in Pair /\ ask.to \in Local /\ ask.hops \in Hops
         /\ Outside(ask) \in Outsider
         /\ <<Outside(ask), ask.to>> \in Pair
         /\ ~StartAsk(ask) => <<Outside(ask), ask.to>> = ask.pair
<1>1. ask \in Ask /\ ask.pair \in Pair /\ ask.to \in Local /\ ask.hops \in Hops
  BY DEF IInv, TypeOK, Ask
<1>2. Outside(ask) \in Outsider
  BY <1>1, PairParts DEF Outside
<1>3. ask.pair = <<Outside(ask), ask.pair[2]>>
  BY <1>1, PairParts DEF Outside
<1>4. ~StartAsk(ask) => <<Outside(ask), ask.to>> = ask.pair
  BY <1>3 DEF IInv, AsksFormed
<1> QED BY <1>1, <1>2, <1>4, PairOf

------------------------------------------------------------------------------
(* Three ways a step keeps the invariant *)

\* The questions stay.
LEMMA AsksStay ==
  ASSUME IInv, TypeOK', UNCHANGED <<asks, pending>>,
         \A f \in Fresh : scopes'[f] = "unmade" => scopes[f] = "unmade",
         \A ask \in asks : StartAsk(ask) => scopes'[ask.to] = scopes[ask.to],
         \A f \in Fresh : Unborn(f) /\ Unborn(f)' => Untouched(f)'
  PROVE  IInv'
<1>1. MarkIsQuestion'
  BY DEF IInv, MarkIsQuestion, StartAsk
<1>2. AsksFormed' /\ StartsDiffer'
  BY DEF IInv, AsksFormed, StartsDiffer, StartAsk
<1>3. \A f \in Fresh : Unborn(f)' => Unborn(f)
  BY DEF Unborn, StartAsk
<1>4. UnbornUntouched'
  BY <1>3 DEF UnbornUntouched
<1> QED BY <1>1, <1>2, <1>4 DEF IInv

\* A question is over, and so is its mark.
LEMMA AskOver ==
  ASSUME IInv, TypeOK', NEW ask \in asks, asks' = asks \ {ask}, pending' = pending \ {ask.pair},
         \A f \in Fresh : scopes'[f] = "unmade" => scopes[f] = "unmade",
         \A b \in asks : StartAsk(b) /\ b # ask => scopes'[b.to] = scopes[b.to],
         \A f \in Fresh : Unborn(f) /\ Unborn(f)' => Untouched(f)'
  PROVE  IInv'
<1>1. pending' = {b.pair : b \in asks'}
  BY DEF IInv, MarkIsQuestion
<1>2. /\ \A a, b \in asks' : a.pair = b.pair => a = b
      /\ \A b \in asks' : b.pair[2] = Start => scopes'[b.to] = "bound"
  BY DEF IInv, MarkIsQuestion, StartAsk
<1>3. AsksFormed' /\ StartsDiffer'
  BY DEF IInv, AsksFormed, StartsDiffer, StartAsk
<1>4. \A f \in Fresh : Unborn(f)' => Unborn(f)
  BY DEF Unborn, StartAsk
<1>5. UnbornUntouched'
  BY <1>4 DEF UnbornUntouched
<1> QED BY <1>1, <1>2, <1>3, <1>5 DEF IInv, MarkIsQuestion

\* A question about a new pair begins.
LEMMA AskBegins ==
  ASSUME IInv, TypeOK', NEW ask \in Ask, Kind(ask.pair) = "new", Begin(ask.pair),
         asks' = asks \cup {ask}, UNCHANGED <<outbound, turns>>,
         \/ /\ ~StartAsk(ask) /\ ask.pair[2] = ask.to
            /\ scopes' = scopes /\ Known(ask.to)
         \/ /\ StartAsk(ask) /\ ask.to \in Fresh
            /\ scopes[ask.to] = "unmade" /\ scopes' = [scopes EXCEPT ![ask.to] = "bound"]
  PROVE  IInv'
<1>1. ask.pair \in Pair /\ ask.pair \notin pending /\ rows' = rows /\ pending' = pending \cup {ask.pair}
  BY DEF Ask, Begin, Kind
<1>2. \A b \in asks : b.pair # ask.pair
  BY <1>1, MarkedIsAsked
<1>3. \A b \in asks : StartAsk(b) => scopes[b.to] = "bound" /\ b.to \in Fresh
  BY DEF IInv, MarkIsQuestion, AsksFormed, StartAsk
<1>4. \A b \in asks : StartAsk(b) => scopes'[b.to] = "bound" /\ (StartAsk(ask) => b.to # ask.to)
  BY <1>3 DEF IInv, TypeOK
<1>5. StartAsk(ask) => scopes'[ask.to] = "bound"
  BY DEF IInv, TypeOK
<1>6. /\ pending' = {b.pair : b \in asks'}
      /\ \A a, b \in asks' : a.pair = b.pair => a = b
      /\ \A b \in asks' : b.pair[2] = Start => scopes'[b.to] = "bound"
  BY <1>1, <1>2, <1>4, <1>5 DEF IInv, MarkIsQuestion, StartAsk
<1>7. AsksFormed' /\ StartsDiffer'
  BY <1>4 DEF IInv, AsksFormed, StartsDiffer, StartAsk
<1>8. ASSUME NEW f \in Fresh, Unborn(f)' PROVE Untouched(f)'
  <2>1. Unborn(f)
    BY <1>8 DEF Unborn, StartAsk, IInv, TypeOK
  <2>2. Untouched(f)
    BY <2>1 DEF IInv, UnbornUntouched
  <2>3. ask.pair[2] # f
    BY <2>1, UnbornUnknown, FreshIsApart DEF StartAsk
  <2> QED BY <1>1, <2>2, <2>3 DEF Untouched
<1>9. UnbornUntouched'
  BY <1>8 DEF UnbornUntouched
<1> QED BY <1>6, <1>7, <1>9 DEF IInv, MarkIsQuestion

------------------------------------------------------------------------------
(* The store: what each operation makes of a pair *)

\* One step of a pair that PairLife allows.
Goes(pair) ==
  \/ Kind(pair)' = Kind(pair)
  \/ Kind(pair) = "pending"
  \/ Kind(pair) = "new" /\ Kind(pair)' \in {"pending", "allowed"}
  \/ Kind(pair) \in {"allowed", "denied"} /\ Kind(pair)' = "new"

AllGo == \A pair \in Pair : Goes(pair)

\* state() gives one of the kinds.
LEMMA KindIsKind == \A pair : Kind(pair) \in Life!Kinds
BY DEF Kind, Life!Kinds

\* Pairs that go so make a step of PairLife.
LEMMA GoingIsLife ==
  ASSUME AllGo
  PROVE  [Life!Next]_([pair \in Pair |-> Kind(pair)])
<1>1. \A pair \in Pair : Kind(pair)' \in Life!Kinds /\ Kind(pair) \in Life!Kinds
  <2>1. \A pair : Kind(pair)' \in Life!Kinds
    BY DEF Kind, Life!Kinds
  <2> QED BY <2>1, KindIsKind
<1>2. \A pair \in Pair : Kind(pair)' \in Life!After[Kind(pair)]
  <2>1. /\ Life!After["new"] = {"new", "pending", "allowed"}
        /\ Life!After["pending"] = Life!Kinds
        /\ Life!After["allowed"] = {"allowed", "new"}
        /\ Life!After["denied"] = {"denied", "new"}
    BY DEF Life!After
  <2> QED BY <1>1, <2>1 DEF AllGo, Goes, Life!Kinds
<1> QED BY <1>1, <1>2 DEF Life!Next

\* touch(): an allow that lapsed is in force again.
LEMMA TouchGoes ==
  ASSUME IInv, NEW p \in Pair, Touch(p)
  PROVE  AllGo
BY DEF IInv, TypeOK, Touch, Touched, AllGo, Goes, Kind

\* decide(), of leave for a new pair.
LEMMA AllowGoes ==
  ASSUME IInv, NEW p \in Pair, Kind(p) = "new", Decide(p, TRUE)
  PROVE  AllGo
BY DEF IInv, TypeOK, Decide, AllGo, Goes, Kind

\* openReverse(), in its three cases.
LEMMA ReverseCases ==
  ASSUME NEW r \in Remote, NEW s \in Local, OpensReverse(r, s)
  PROVE  \/ Kind(<<r, s>>) = "allowed" /\ Touch(<<r, s>>)
         \/ Kind(<<r, s>>) = "new" /\ Decide(<<r, s>>, TRUE)
         \/ KeepsPairings
BY DEF OpensReverse

\* What is not changed.
LEMMA KeptGoes ==
  ASSUME KeepsPairings
  PROVE  AllGo
BY DEF KeepsPairings, AllGo, Goes, Kind

\* The other side's answer opens the way back.
LEMMA ReverseGoes ==
  ASSUME IInv, NEW r \in Remote, NEW s \in Local, OpensReverse(r, s)
  PROVE  AllGo /\ pending' = pending
<1>1. <<r, s>> \in Pair
  BY PairOf DEF Outsider
<1>2. CASE Kind(<<r, s>>) = "allowed" /\ Touch(<<r, s>>)
  BY <1>1, <1>2, TouchGoes DEF Touch
<1>3. CASE Kind(<<r, s>>) = "new" /\ Decide(<<r, s>>, TRUE)
  <2>1. pending' = pending
    BY <1>3 DEF Decide, Kind
  <2> QED BY <1>1, <1>3, <2>1, AllowGoes
<1>4. CASE KeepsPairings
  BY <1>4, KeptGoes DEF KeepsPairings
<1> QED BY <1>2, <1>3, <1>4, ReverseCases

\* begin(), of a new pair.
LEMMA BeginGoes ==
  ASSUME IInv, NEW p \in Pair, Kind(p) = "new", Begin(p)
  PROVE  AllGo
BY DEF Begin, AllGo, Goes, Kind

------------------------------------------------------------------------------
(* The steps *)

\* An unborn session stays untouched by what does not concern it.
LEMMA StaysUntouched ==
  ASSUME IInv, NEW f \in Fresh, Unborn(f), asks' \subseteq asks,
         \A turn \in turns' : turn \in turns \/ turn.to # f,
         \A note \in outbound' : note \in outbound \/ note[1] # f,
         \A o \in Outsider : rows'[<<o, f>>] = rows[<<o, f>>]
  PROVE  Untouched(f)'
<1>1. Untouched(f)
  BY DEF IInv, UnbornUntouched
<1> QED BY <1>1 DEF Untouched

\* Touching a pair leaves an unborn session's rows alone.
LEMMA TouchKeepsNone ==
  ASSUME IInv, NEW p \in Pair, Touch(p), NEW f \in Fresh, Unborn(f)
  PROVE  \A o \in Outsider : rows'[<<o, f>>] = rows[<<o, f>>]
BY UnbornIsNew DEF IInv, TypeOK, Touch, Touched

\* So does opening the way back to a session that is not unborn.
LEMMA ReverseKeepsNone ==
  ASSUME IInv, NEW r \in Remote, NEW s \in Local, OpensReverse(r, s),
         NEW f \in Fresh, Unborn(f), f # s
  PROVE  \A o \in Outsider : rows'[<<o, f>>] = rows[<<o, f>>]
<1>1. <<r, s>> \in Pair
  BY PairOf DEF Outsider
<1>2. CASE Touch(<<r, s>>)
  BY <1>1, <1>2, TouchKeepsNone
<1>3. CASE Decide(<<r, s>>, TRUE)
  <2>1. \A o \in Outsider : <<o, f>> # <<r, s>> /\ <<o, f>> \in Pair
    BY UnbornIsNew
  <2> QED BY <1>1, <1>3, <2>1 DEF Decide, IInv, TypeOK
<1>4. CASE KeepsPairings
  BY <1>4 DEF KeepsPairings
<1> QED BY <1>2, <1>3, <1>4, ReverseCases

\* The types of what the store's operations leave.
LEMMA StoreTypes ==
  ASSUME IInv, NEW p \in Pair,
         Touch(p) \/ Begin(p) \/ Decide(p, TRUE) \/ Decide(p, FALSE) \/ Cancel(p)
           \/ KeepsPairings \/ Revoke(p) \/ Lapse(p)
  PROVE  rows' \in [Pair -> Row] /\ pending' \subseteq Pair
<1>1. rows \in [Pair -> Row] /\ pending \subseteq Pair
  BY DEF IInv, TypeOK
<1> QED BY <1>1 DEF Touch, Touched, Begin, Decide, Cancel, KeepsPairings, Revoke, Lapse, Row

LEMMA ReverseTypes ==
  ASSUME IInv, NEW r \in Remote, NEW s \in Local, OpensReverse(r, s)
  PROVE  /\ rows' \in [Pair -> Row] /\ pending' \subseteq Pair
         /\ AllGo /\ pending' = pending
<1>1. <<r, s>> \in Pair
  BY PairOf DEF Outsider
<1>2. rows' \in [Pair -> Row] /\ pending' \subseteq Pair
  BY <1>1, ReverseCases, StoreTypes
<1> QED BY <1>2, ReverseGoes

\* A message delivered is a turn.
LEMMA DeliveryTypes ==
  ASSUME IInv, NEW t \in Local, NEW hops, Delivers(t, hops)
  PROVE  /\ turns' \subseteq Turn
         /\ \A turn \in turns' : turn \in turns \/ turn.to = t
BY DEF IInv, TypeOK, Delivers, Turn

\* What sessions send to sessions here, and start here.
LEMMA LocalSteps ==
  ASSUME IInv, NEW s \in Local,
         (\E t \in Local : SendLocal(s, t)) \/ (\E f \in Fresh : StartLocal(s, f))
  PROVE  IInv' /\ AllGo
<1>1. ASSUME NEW t \in Local, SendLocal(s, t) PROVE IInv'
  <2>1. /\ Known(t)
        /\ turns' \subseteq Turn
        /\ \A turn \in turns' : turn \in turns \/ turn.to = t
        /\ UNCHANGED <<rows, pending, asks, inbound, outbound, scopes>>
    BY <1>1, DeliveryTypes DEF SendLocal, Names, KeepsPairings
  <2>2. TypeOK'
    BY <2>1 DEF IInv, TypeOK
  <2>3. \A f \in Fresh : Unborn(f) => Untouched(f)'
    BY <2>1, UnbornUnknown, StaysUntouched
  <2> QED BY <2>1, <2>2, <2>3, AsksStay
<1>2. ASSUME NEW g \in Fresh, StartLocal(s, g) PROVE IInv'
  <2>1. /\ g \in Local /\ scopes[g] = "unmade" /\ scopes' = [scopes EXCEPT ![g] = "bound"]
        /\ turns' \subseteq Turn
        /\ \A turn \in turns' : turn \in turns \/ turn.to = g
        /\ UNCHANGED <<rows, pending, asks, inbound, outbound>>
    BY <1>2, FreshIsApart, DeliveryTypes DEF StartLocal, Creates, KeepsPairings
  <2>2. TypeOK'
    BY <2>1 DEF IInv, TypeOK
  <2>3. \A ask \in asks : StartAsk(ask) => ask.to # g
    BY <2>1 DEF IInv, MarkIsQuestion, StartAsk
  <2>4. \A f \in Fresh : scopes'[f] = "unmade" => scopes[f] = "unmade" /\ f # g
    BY <2>1 DEF IInv, TypeOK
  <2>5. \A f \in Fresh : Unborn(f)' => f # g
    BY <2>1, <2>3, <2>4 DEF Unborn, StartAsk
  <2>6. \A f \in Fresh : Unborn(f) /\ Unborn(f)' => Untouched(f)'
    BY <2>1, <2>5, StaysUntouched
  <2>7. \A ask \in asks : StartAsk(ask) => scopes'[ask.to] = scopes[ask.to]
    BY <2>1, <2>3 DEF IInv, TypeOK, AsksFormed
  <2> QED BY <2>1, <2>2, <2>4, <2>6, <2>7, AsksStay
<1>3. AllGo
  BY KeptGoes DEF SendLocal, StartLocal
<1> QED BY <1>1, <1>2, <1>3

\* Steps that leave questions, turns and scopes alone: replies to principals,
\* calls of other controllers and what comes of them.
LEMMA CallSteps ==
  ASSUME IInv, NEW s \in Local,
         \/ \E k \in Principal : ReplyToPrincipal(s, k)
         \/ \E to \in Remote \cup {Any} : CallRemote(s, to)
         \/ \E r \in Remote : RemoteTook(s, r) \/ RemoteStarted(s, r)
  PROVE  IInv' /\ AllGo
<1> SUFFICES ASSUME /\ rows' \in [Pair -> Row] /\ pending' = pending
                    /\ UNCHANGED <<asks, inbound, turns, scopes>>
                    /\ outbound' \subseteq outbound \cup ({s} \X (Remote \cup {Any}))
                    /\ \A f \in Fresh : Unborn(f) =>
                         /\ \A o \in Outsider : rows'[<<o, f>>] = rows[<<o, f>>]
                         /\ \A note \in outbound' : note \in outbound \/ note[1] # f
                    /\ AllGo
             PROVE  IInv' /\ AllGo
  <2>1. ASSUME NEW k \in Principal, ReplyToPrincipal(s, k)
        PROVE  /\ rows' \in [Pair -> Row] /\ pending' = pending
               /\ UNCHANGED <<asks, inbound, turns, scopes, outbound>>
               /\ \A f \in Fresh : Unborn(f) => \A o \in Outsider : rows'[<<o, f>>] = rows[<<o, f>>]
               /\ AllGo
    <3>1. <<k, s>> \in Pair /\ Touch(<<k, s>>)
      BY <2>1, PairOf DEF ReplyToPrincipal, Outsider
    <3> QED BY <2>1, <3>1, StoreTypes, TouchKeepsNone, TouchGoes DEF ReplyToPrincipal, Touch
  <2>2. ASSUME NEW to \in Remote \cup {Any}, CallRemote(s, to)
        PROVE  /\ rows' \in [Pair -> Row] /\ pending' = pending /\ rows' = rows
               /\ UNCHANGED <<asks, inbound, turns, scopes>>
               /\ outbound' \subseteq outbound \cup ({s} \X (Remote \cup {Any}))
               /\ \A f \in Fresh : Unborn(f) => \A note \in outbound' : note \in outbound \/ note[1] # f
               /\ AllGo
    BY <2>2, UnbornUnknown, KeptGoes DEF CallRemote, KeepsPairings, IInv, TypeOK
  <2>3. ASSUME NEW f \in Fresh, Unborn(f), NEW x, <<s, x>> \in outbound PROVE f # s
    BY <2>3 DEF IInv, UnbornUntouched, Untouched
  <2>4. ASSUME NEW r \in Remote, RemoteTook(s, r) \/ RemoteStarted(s, r)
        PROVE  /\ rows' \in [Pair -> Row] /\ pending' = pending
               /\ UNCHANGED <<asks, inbound, turns, scopes>>
               /\ outbound' \subseteq outbound \cup ({s} \X (Remote \cup {Any}))
               /\ \A f \in Fresh : Unborn(f) =>
                    /\ \A o \in Outsider : rows'[<<o, f>>] = rows[<<o, f>>]
                    /\ \A note \in outbound' : note \in outbound \/ note[1] # f
               /\ AllGo
    <3>1. /\ OpensReverse(r, s)
          /\ \A f \in Fresh : Unborn(f) => f # s
      BY <2>3, <2>4 DEF RemoteTook, RemoteStarted
    <3>2. /\ outbound' \subseteq outbound \cup {<<s, r>>}
          /\ UNCHANGED <<asks, inbound, turns, scopes>>
      BY <2>4 DEF RemoteTook, RemoteStarted
    <3> QED BY <3>1, <3>2, ReverseTypes, ReverseKeepsNone
  <2> QED BY <2>1, <2>2, <2>4
<1>1. TypeOK'
  BY DEF IInv, TypeOK
<1>2. \A f \in Fresh : Unborn(f) => Untouched(f)'
  BY StaysUntouched
<1> QED BY <1>1, <1>2, AsksStay

\* A message from outside is delivered, as the pair is allowed.
LEMMA AllowedSends ==
  ASSUME IInv, NEW o \in Outsider, NEW t \in Local, NEW hops,
         Names(o, t), Touch(<<o, t>>), NotesInbound(t, o), Delivers(t, hops),
         UNCHANGED <<asks, outbound, scopes>>
  PROVE  IInv' /\ AllGo
<1>1. <<o, t>> \in Pair
  BY PairOf
<1>2. rows' \in [Pair -> Row] /\ pending' = pending
  BY <1>1, StoreTypes DEF Touch
<1>3. /\ turns' \subseteq Turn
      /\ \A turn \in turns' : turn \in turns \/ turn.to = t
  BY DeliveryTypes
<1>4. TypeOK'
  BY <1>2, <1>3 DEF IInv, TypeOK, NotesInbound
<1>5. \A f \in Fresh : Unborn(f) => f # t
  BY UnbornUnknown DEF Names
<1>6. \A f \in Fresh : Unborn(f) => Untouched(f)'
  BY <1>1, <1>3, <1>5, TouchKeepsNone, StaysUntouched
<1> QED BY <1>1, <1>2, <1>4, <1>6, AsksStay, TouchGoes

\* A notice opens the way back, and is a turn.
LEMMA NoticeSteps ==
  ASSUME IInv, NEW r \in Remote, NEW t \in Local, NEW outcome, RemoteNotice(r, t, outcome)
  PROVE  IInv' /\ AllGo
<1>1. \A f \in Fresh : Unborn(f) => f # t
  BY UnbornUnknown DEF RemoteNotice, Names
<1>2. /\ rows' \in [Pair -> Row] /\ pending' = pending /\ AllGo
      /\ \A f \in Fresh : Unborn(f) => \A o \in Outsider : rows'[<<o, f>>] = rows[<<o, f>>]
      /\ outbound' \subseteq outbound \cup {<<t, r>>}
  <2>1. CASE outcome = "allowed"
    BY <1>1, <2>1, ReverseTypes, ReverseKeepsNone DEF RemoteNotice
  <2>2. CASE outcome # "allowed"
    BY <2>2, KeptGoes DEF RemoteNotice, KeepsPairings, IInv, TypeOK
  <2> QED BY <2>1, <2>2
<1>3. /\ turns' \subseteq Turn
      /\ \A turn \in turns' : turn \in turns \/ turn.to = t
      /\ UNCHANGED <<asks, inbound, scopes>>
  BY DeliveryTypes DEF RemoteNotice
<1>4. TypeOK'
  BY <1>2, <1>3 DEF IInv, TypeOK
<1>5. \A f \in Fresh : Unborn(f) => Untouched(f)'
  BY <1>1, <1>2, <1>3, StaysUntouched
<1> QED BY <1>2, <1>3, <1>4, <1>5, AsksStay

\* A question begins, for a message or for a start.
LEMMA HeldSteps ==
  ASSUME IInv, NEW ask \in Ask, Kind(ask.pair) = "new", Begin(ask.pair),
         asks' = asks \cup {ask}, UNCHANGED <<inbound, outbound, turns>>,
         \/ /\ ~StartAsk(ask) /\ ask.pair[2] = ask.to
            /\ scopes' = scopes /\ Known(ask.to)
         \/ /\ StartAsk(ask) /\ ask.to \in Fresh /\ Creates(ask.to)
  PROVE  IInv' /\ AllGo
<1>1. ask.pair \in Pair
  BY DEF Ask
<1>2. TypeOK'
  BY <1>1 DEF Begin, Creates, IInv, TypeOK
<1> QED BY <1>1, <1>2, AskBegins, BeginGoes DEF Creates

\* A sender from outside starts a session, and is paired with it.
LEMMA OutsideStarts ==
  ASSUME IInv, NEW o \in Outsider, NEW g \in Fresh, NEW hops, Creates(g), NotesInbound(g, o),
         Delivers(g, hops), UNCHANGED <<asks, outbound>>,
         pending' = pending \ {<<o, g>>},
         NEW touched \in [Pair -> Row],
         \A p \in Pair : touched[p] = rows[p] \/ (rows[p] = "lapsed" /\ touched[p] = "allow"),
         rows' = [touched EXCEPT ![<<o, g>>] = "allow"]
  PROVE  IInv' /\ AllGo
<1>1. g \in Local /\ Unborn(g) /\ scopes[g] = "unmade" /\ scopes' = [scopes EXCEPT ![g] = "bound"]
  BY FreshIsApart DEF Creates, Unborn
<1>2. <<o, g>> \in Pair /\ Kind(<<o, g>>) = "new" /\ pending' = pending
  BY <1>1, UnbornIsNew
<1>3. /\ turns' \subseteq Turn
      /\ \A turn \in turns' : turn \in turns \/ turn.to = g
  BY <1>1, DeliveryTypes
<1>4. TypeOK'
  BY <1>1, <1>2, <1>3 DEF IInv, TypeOK, NotesInbound, Row
<1>5. \A ask \in asks : StartAsk(ask) => ask.to # g /\ ask.to \in Fresh
  BY <1>1 DEF IInv, MarkIsQuestion, AsksFormed, StartAsk
<1>6. \A f \in Fresh : scopes'[f] = "unmade" => scopes[f] = "unmade" /\ f # g
  BY <1>1 DEF IInv, TypeOK
<1>7. \A ask \in asks : StartAsk(ask) => scopes'[ask.to] = scopes[ask.to]
  BY <1>1, <1>5 DEF IInv, TypeOK
<1>8. \A f \in Fresh : Unborn(f)' => f # g
  BY <1>5, <1>6 DEF Unborn, StartAsk
<1>9. ASSUME NEW f \in Fresh, Unborn(f), Unborn(f)' PROVE Untouched(f)'
  <2>1. \A q \in Outsider : <<q, f>> \in Pair /\ rows[<<q, f>>] = "none" /\ <<q, f>> # <<o, g>>
    BY <1>8, <1>9, UnbornIsNew
  <2>2. \A q \in Outsider : rows'[<<q, f>>] = rows[<<q, f>>]
    BY <2>1
  <2> QED BY <1>3, <1>8, <1>9, <2>2, StaysUntouched
<1>10. IInv'
  BY <1>2, <1>4, <1>6, <1>7, <1>9, AsksStay
<1>11. AllGo
  <2> SUFFICES ASSUME NEW p \in Pair PROVE Goes(p)
    BY DEF AllGo
  <2>1. CASE p = <<o, g>>
    BY <1>2, <2>1 DEF Goes, Kind
  <2>2. CASE p # <<o, g>>
    <3>1. rows'[p] = touched[p]
      BY <2>2
    <3> QED BY <1>2, <3>1 DEF Goes, Kind
  <2> QED BY <2>1, <2>2
<1> QED BY <1>10, <1>11

\* The person allows what was held.
LEMMA AllowSteps ==
  ASSUME IInv, NEW ask \in asks, AskAllowed(ask)
  PROVE  IInv' /\ AllGo
<1> DEFINE back == <<Outside(ask), ask.to>>
<1>1. /\ ask.pair \in Pair /\ ask.to \in Local /\ Outside(ask) \in Outsider /\ back \in Pair
      /\ ~StartAsk(ask) => back = ask.pair
  BY AskParts
<1>2. StartAsk(ask) => ask.to \in Fresh /\ Unborn(ask.to)
  BY DEF IInv, AsksFormed, Unborn
<1>3. StartAsk(ask) => back \notin pending /\ Kind(back) = "new"
  BY <1>1, <1>2, UnbornIsNew
<1>4. pending' = pending \ {ask.pair}
  BY <1>1, <1>3 DEF AskAllowed
<1>5. \A p \in Pair : rows'[p] = IF p \in {ask.pair, back} THEN "allow" ELSE rows[p]
  BY <1>1 DEF AskAllowed, IInv, TypeOK
<1>6. /\ turns' \subseteq Turn
      /\ \A turn \in turns' : turn \in turns \/ turn.to = ask.to
      /\ asks' = asks \ {ask} /\ UNCHANGED <<outbound, scopes>>
  BY <1>1, DeliveryTypes DEF AskAllowed
<1>7. TypeOK'
  BY <1>1, <1>4, <1>6 DEF AskAllowed, NotesInbound, IInv, TypeOK, Row
<1>8. ASSUME NEW f \in Fresh, Unborn(f), Unborn(f)' PROVE f # ask.to /\ f # ask.pair[2]
  <2>1. f # ask.pair[2]
    BY <1>8 DEF IInv, UnbornUntouched, Untouched
  <2>2. ASSUME StartAsk(ask), f = ask.to PROVE FALSE
    <3>1. scopes[f] = "bound"
      BY <2>2 DEF IInv, MarkIsQuestion, StartAsk
    <3>2. PICK b \in asks : StartAsk(b) /\ b.to = f /\ b # ask
      BY <1>6, <1>8, <3>1 DEF Unborn, StartAsk
    <3> QED BY <2>2, <3>2 DEF IInv, StartsDiffer
  <2> QED BY <2>1, <2>2 DEF IInv, AsksFormed
<1>9. ASSUME NEW f \in Fresh, Unborn(f), Unborn(f)' PROVE Untouched(f)'
  <2>1. \A o \in Outsider : <<o, f>> \in Pair /\ <<o, f>> # back /\ <<o, f>> # ask.pair
    BY <1>1, <1>8, <1>9, UnbornIsNew
  <2>2. \A o \in Outsider : rows'[<<o, f>>] = rows[<<o, f>>]
    BY <1>5, <2>1
  <2> QED BY <1>6, <1>8, <1>9, <2>2, StaysUntouched
<1>10. IInv'
  BY <1>4, <1>6, <1>7, <1>9, AskOver
<1>11. AllGo
  <2> SUFFICES ASSUME NEW p \in Pair PROVE Goes(p)
    BY DEF AllGo
  <2>1. CASE p = ask.pair
    <3>1. p \in pending
      BY <1>1, <2>1, MarkedIsAsked
    <3> QED BY <1>4, <1>5, <2>1, <3>1 DEF Goes, Kind
  <2>2. CASE p # ask.pair /\ p = back
    BY <1>1, <1>3, <1>4, <1>5, <2>2 DEF Goes, Kind
  <2>3. CASE p \notin {ask.pair, back}
    BY <1>4, <1>5, <2>3 DEF Goes, Kind
  <2> QED BY <2>1, <2>2, <2>3
<1> QED BY <1>10, <1>11

\* The person denies, or nobody answers.
LEMMA RefuseSteps ==
  ASSUME IInv, NEW ask \in asks, AskDenied(ask) \/ AskEnds(ask)
  PROVE  IInv' /\ AllGo
<1>1. /\ ask.pair \in Pair /\ ask.to \in Local /\ ask.pair \in pending
      /\ ~StartAsk(ask) => <<Outside(ask), ask.to>> = ask.pair
  BY AskParts, MarkedIsAsked
<1>2. /\ pending' = pending \ {ask.pair} /\ asks' = asks \ {ask}
      /\ rows' \in [Pair -> Row]
      /\ \A p \in Pair : p # ask.pair => rows'[p] = rows[p]
      /\ UNCHANGED <<inbound, outbound, turns>> /\ Drops(ask.to)
  BY <1>1 DEF AskDenied, AskEnds, Decide, Cancel, IInv, TypeOK, Row
<1>3. /\ scopes' \in [Fresh -> {"unmade", "bound", "used", "dropped"}]
      /\ \A f \in Fresh : scopes'[f] # "dropped" \/ f # ask.to => scopes'[f] = scopes[f]
      /\ \A f \in Fresh : f # ask.to => scopes'[f] = scopes[f]
  BY <1>2 DEF Drops, IInv, TypeOK
<1>4. TypeOK'
  BY <1>2, <1>3 DEF IInv, TypeOK
<1>5. \A f \in Fresh : scopes'[f] = "unmade" => scopes[f] = "unmade"
  BY <1>3
<1>6. ASSUME NEW b \in asks, StartAsk(b), b # ask PROVE scopes'[b.to] = scopes[b.to]
  <2>1. b.to \in Fresh /\ Unborn(b.to)
    BY <1>6 DEF IInv, AsksFormed, Unborn
  <2>2. b.to # ask.to
    BY <1>6, <2>1, AskedIsBorn DEF IInv, StartsDiffer
  <2> QED BY <1>3, <2>1, <2>2
<1>7. ASSUME NEW f \in Fresh, Unborn(f) PROVE Untouched(f)'
  <2>1. f # ask.pair[2]
    BY <1>7 DEF IInv, UnbornUntouched, Untouched
  <2>2. \A o \in Outsider : <<o, f>> \in Pair /\ <<o, f>> # ask.pair
    BY <1>7, <2>1, UnbornIsNew
  <2> QED BY <1>2, <1>7, <2>2, StaysUntouched
<1>8. IInv'
  BY <1>2, <1>4, <1>5, <1>6, <1>7, AskOver
<1>9. AllGo
  BY <1>1, <1>2 DEF AllGo, Goes, Kind
<1> QED BY <1>8, <1>9

\* Ends of turns, and time: questions stay.
LEMMA QuietSteps ==
  ASSUME IInv,
         \/ \E turn \in turns : TurnRan(turn) \/ TurnFailed(turn)
         \/ \E pair \in Pair : Forget(pair) \/ PairLapses(pair)
         \/ WindowCloses
  PROVE  IInv' /\ AllGo
<1>1. ASSUME NEW turn \in turns, TurnRan(turn) \/ TurnFailed(turn)
      PROVE  IInv' /\ AllGo
  <2>1. turn \in Turn /\ turns' = turns \ {turn}
        /\ UNCHANGED <<rows, pending, asks, inbound, outbound>>
    BY <1>1 DEF TurnRan, TurnFailed, KeepsPairings, IInv, TypeOK
  <2>2. TypeOK'
    BY <1>1, <2>1 DEF TurnRan, TurnFailed, IInv, TypeOK
  <2>3. \A f \in Fresh : Unborn(f) => f # turn.to
    BY DEF IInv, UnbornUntouched, Untouched
  <2>4. \A f \in Fresh : scopes'[f] = scopes[f] \/ (f = turn.to /\ scopes'[f] = "used")
    BY <1>1 DEF TurnRan, TurnFailed, IInv, TypeOK
  <2>5. \A ask \in asks : StartAsk(ask) => scopes'[ask.to] = scopes[ask.to]
    BY <2>3, <2>4 DEF IInv, AsksFormed, Unborn
  <2>6. \A f \in Fresh : Unborn(f) => Untouched(f)'
    BY <2>1, StaysUntouched
  <2>7. AllGo
    BY <2>1, KeptGoes DEF KeepsPairings
  <2> QED BY <2>1, <2>2, <2>4, <2>5, <2>6, <2>7, AsksStay
<1>2. ASSUME NEW pair \in Pair, Forget(pair) \/ PairLapses(pair)
      PROVE  IInv' /\ AllGo
  <2>1. /\ rows[pair] \in {"allow", "deny"} /\ pending' = pending
        /\ UNCHANGED <<asks, inbound, outbound, turns, scopes>>
        /\ rows' \in [Pair -> Row]
        /\ \A p \in Pair : p # pair => rows'[p] = rows[p]
    BY <1>2 DEF Forget, PairLapses, Revoke, Lapse, IInv, TypeOK, Row
  <2>2. TypeOK'
    BY <2>1 DEF IInv, TypeOK
  <2>3. \A f \in Fresh : Unborn(f) => Untouched(f)'
    <3> SUFFICES ASSUME NEW f \in Fresh, Unborn(f) PROVE Untouched(f)'
      OBVIOUS
    <3>1. \A o \in Outsider : <<o, f>> \in Pair /\ <<o, f>> # pair
      BY <2>1, UnbornIsNew
    <3>2. \A o \in Outsider : rows'[<<o, f>>] = rows[<<o, f>>]
      BY <2>1, <3>1
    <3> QED BY <2>1, <3>2, StaysUntouched
  <2>4. AllGo
    <3> SUFFICES ASSUME NEW p \in Pair PROVE Goes(p)
      BY DEF AllGo
    <3>1. CASE p # pair
      BY <2>1, <3>1 DEF Goes, Kind
    <3>2. CASE p = pair
      BY <1>2, <2>1, <3>2 DEF Goes, Kind, Forget, PairLapses, Revoke, Lapse, IInv, TypeOK
    <3> QED BY <3>1, <3>2
  <2> QED BY <2>1, <2>2, <2>3, <2>4, AsksStay
<1>3. ASSUME WindowCloses PROVE IInv' /\ AllGo
  <2>1. /\ inbound' \subseteq inbound /\ outbound' \subseteq outbound
        /\ UNCHANGED <<rows, pending, asks, turns, scopes>>
    BY <1>3 DEF WindowCloses, KeepsPairings
  <2>2. TypeOK'
    BY <2>1 DEF IInv, TypeOK
  <2>3. \A f \in Fresh : Unborn(f) => Untouched(f)'
    BY <2>1, StaysUntouched
  <2>4. AllGo
    BY <2>1, KeptGoes DEF KeepsPairings
  <2> QED BY <2>1, <2>2, <2>3, <2>4, AsksStay
<1> QED BY <1>1, <1>2, <1>3

\* A restart forgets every question, with its mark.
LEMMA RestartStep ==
  ASSUME IInv, Restart
  PROVE  IInv' /\ AllGo
<1>1. /\ pending' = {} /\ asks' = {} /\ inbound' = {} /\ outbound' = {} /\ turns' = {}
      /\ rows' = rows /\ scopes' = scopes
  BY DEF Restart
<1>2. TypeOK'
  BY <1>1 DEF IInv, TypeOK
<1>3. MarkIsQuestion' /\ AsksFormed' /\ StartsDiffer'
  BY <1>1 DEF MarkIsQuestion, AsksFormed, StartsDiffer
<1>4. ASSUME NEW f \in Fresh, Unborn(f)' PROVE Untouched(f)'
  <2>1. Unborn(f)
    BY <1>1, <1>4 DEF Unborn
  <2> QED BY <1>1, <2>1 DEF Untouched, IInv, UnbornUntouched
<1>5. UnbornUntouched'
  BY <1>4 DEF UnbornUntouched
<1>6. AllGo
  BY <1>1 DEF AllGo, Goes, Kind
<1> QED BY <1>2, <1>3, <1>5, <1>6 DEF IInv

\* What principals do.
LEMMA PrincipalSteps ==
  ASSUME IInv, NEW k \in Principal,
         \/ \E t \in Local : PrincipalSends(k, t) \/ PrincipalHeld(k, t)
         \/ \E f \in Fresh : PrincipalStarts(k, f)
  PROVE  IInv' /\ AllGo
<1>1. k \in Outsider
  BY DEF Outsider
<1>2. ASSUME NEW t \in Local, PrincipalSends(k, t) PROVE IInv' /\ AllGo
  BY <1>1, <1>2, AllowedSends DEF PrincipalSends
<1>3. ASSUME NEW t \in Local, PrincipalHeld(k, t) PROVE IInv' /\ AllGo
  <2>1. PICK a : a = [pair |-> <<k, t>>, to |-> t, hops |-> 1]
    OBVIOUS
  <2>2. a \in Ask
    <3>1. 1 \in Hops
      BY BoundsAssumption DEF Hops
    <3> QED BY <1>1, <2>1, <3>1, PairOf DEF Ask
  <2>3. ~StartAsk(a)
    BY <2>1, ScopesAssumption DEF StartAsk
  <2> QED BY <1>3, <2>1, <2>2, <2>3, HeldSteps DEF PrincipalHeld, Names
<1>4. ASSUME NEW f \in Fresh, PrincipalStarts(k, f) PROVE IInv' /\ AllGo
  <2>1. rows \in [Pair -> Row]
    BY DEF IInv, TypeOK
  <2>2. /\ pending' = pending \ {<<k, f>>} /\ rows' = [rows EXCEPT ![<<k, f>>] = "allow"]
    BY <1>4 DEF PrincipalStarts, Decide
  <2> QED BY <1>1, <1>4, <2>1, <2>2, OutsideStarts DEF PrincipalStarts
<1> QED BY <1>2, <1>3, <1>4

\* What sessions on other controllers do.
LEMMA RemoteSteps ==
  ASSUME IInv, NEW r \in Remote, NEW hops \in RemoteHops,
         \/ \E t \in Local : RemoteSends(r, t, hops) \/ RemoteHeld(r, t, hops)
         \/ \E f \in Fresh : RemoteStarts(r, f, hops) \/ RemoteStartHeld(r, f, hops)
  PROVE  IInv' /\ AllGo
<1>1. r \in Outsider /\ hops \in Hops /\ <<r, Start>> \in Pair
  BY PairOf, HopsAssumption DEF Outsider, Hops
<1>2. ASSUME NEW t \in Local, RemoteSends(r, t, hops) PROVE IInv' /\ AllGo
  BY <1>1, <1>2, AllowedSends DEF RemoteSends
<1>3. ASSUME NEW t \in Local, RemoteHeld(r, t, hops) PROVE IInv' /\ AllGo
  <2>1. PICK a : a = [pair |-> <<r, t>>, to |-> t, hops |-> hops]
    OBVIOUS
  <2>2. a \in Ask
    BY <1>1, <2>1, PairOf DEF Ask
  <2>3. ~StartAsk(a)
    BY <2>1, ScopesAssumption DEF StartAsk
  <2> QED BY <1>3, <2>1, <2>2, <2>3, HeldSteps DEF RemoteHeld, Names
<1>4. ASSUME NEW f \in Fresh, RemoteStarts(r, f, hops) PROVE IInv' /\ AllGo
  <2>1. PICK touched : touched = Touched(<<r, Start>>)
    OBVIOUS
  <2>2. /\ touched \in [Pair -> Row]
        /\ \A p \in Pair : touched[p] = rows[p] \/ (rows[p] = "lapsed" /\ touched[p] = "allow")
    BY <1>1, <2>1 DEF Touched, Row, IInv, TypeOK
  <2> QED BY <1>1, <1>4, <2>1, <2>2, OutsideStarts DEF RemoteStarts
<1>5. ASSUME NEW f \in Fresh, RemoteStartHeld(r, f, hops) PROVE IInv' /\ AllGo
  <2>1. PICK a : a = [pair |-> <<r, Start>>, to |-> f, hops |-> hops]
    OBVIOUS
  <2>2. a \in Ask /\ StartAsk(a)
    BY <1>1, <2>1, FreshIsApart DEF Ask, StartAsk
  <2> QED BY <1>5, <2>1, <2>2, HeldSteps DEF RemoteStartHeld
<1> QED BY <1>2, <1>3, <1>4, <1>5

\* Every step keeps the invariant, and moves each pair as PairLife allows.
LEMMA StepHolds ==
  ASSUME IInv, [Next]_vars
  PROVE  IInv' /\ AllGo
<1>1. ASSUME NEW ask \in asks, Answer(ask) PROVE IInv' /\ AllGo
  BY <1>1, AllowSteps, RefuseSteps DEF Answer
<1>2. ASSUME UNCHANGED vars PROVE IInv' /\ AllGo
  <2>1. IInv'
    BY <1>2 DEF vars, IInv, TypeOK, MarkIsQuestion, AsksFormed, StartsDiffer, UnbornUntouched,
       Untouched, Unborn, StartAsk
  <2> QED BY <1>2, <2>1, KeptGoes DEF vars, KeepsPairings
<1> QED
  BY <1>1, <1>2, LocalSteps, CallSteps, PrincipalSteps, RemoteSteps, NoticeSteps, QuietSteps,
     RestartStep DEF Next

------------------------------------------------------------------------------
(* Theorems *)

LEMMA InitHolds == Init => IInv
<1> SUFFICES ASSUME Init PROVE IInv
  OBVIOUS
<1>1. TypeOK
  BY DEF Init, PairingsInit, TypeOK, Row
<1>2. MarkIsQuestion /\ AsksFormed /\ StartsDiffer
  BY DEF Init, PairingsInit, MarkIsQuestion, AsksFormed, StartsDiffer
<1>3. UnbornUntouched
  <2> SUFFICES ASSUME NEW f \in Fresh, NEW o \in Outsider
               PROVE  rows[<<o, f>>] = "none"
    BY DEF Init, UnbornUntouched, Untouched
  <2>1. <<o, f>> \in Pair /\ <<o, f>> \notin Earlier
    BY FreshIsApart, PairOf, EarlierAssumption
  <2> QED BY <2>1 DEF Init, PairingsInit
<1> QED BY <1>1, <1>2, <1>3 DEF IInv

\* The inductive invariant of peers: marks and questions agree, and a session that waits
\* for the person's answer to its start has no message, note or decision yet.
THEOREM Invariance == Spec => []IInv
BY InitHolds, StepHolds, PTL DEF Spec

\* Every state is well typed.
THEOREM TypeCorrect == Spec => []TypeOK
<1>1. IInv => TypeOK
  BY DEF IInv
<1> QED BY <1>1, Invariance, PTL

\* A pair is marked as being asked about exactly while one question about it is open
\* (begin, cancel and decide in peer-pairings.ts, as peers.ts calls them).
THEOREM MarksAreQuestions == Spec => []MarkIsQuestion
<1>1. IInv => MarkIsQuestion
  BY DEF IInv
<1> QED BY <1>1, Invariance, PTL

\* What the pairs of Peers are in PairLife.
Kindred == [pair \in Pair |-> Kind(pair)]

\* The safety half of PairsLive: the pairs start as PairLife says, and no step makes of one
\* what it may not become: leave never turns into a refusal or a question, and a refusal
\* ends only by time or by being withdrawn.
THEOREM PairsKeepLife == Spec => Life!Init /\ [][Life!Next]_Kindred
<1>1. Init => Life!Init
  BY DEF Init, PairingsInit, Life!Init, Kind
<1>2. IInv /\ [Next]_vars => [Life!Next]_Kindred
  BY StepHolds, GoingIsLife DEF Kindred
<1> QED BY <1>1, <1>2, Invariance, PTL DEF Spec
==============================================================================
