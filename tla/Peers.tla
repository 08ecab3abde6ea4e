-------------------------------- MODULE Peers --------------------------------
(***************************************************************************)
(* Messages between sessions (packages/orchestrator/src/peers.ts): a       *)
(* session writes to another one here, to a session on another controller, *)
(* or back to a sender from outside.  Senders from outside are principals  *)
(* (with a token and an inbox) and sessions on other controllers.  What    *)
(* they write first is held until the person answers.                      *)
(*                                                                         *)
(* A step is what a handler does between two awaits that wait for          *)
(* something.  Those between reading a pair's state and acting on it       *)
(* (wrap(), the label of a fresh session) find their values at hand: only  *)
(* microtasks may run there, and no other handler is taken to be among     *)
(* them.  The other controllers are the environment.  All senders and sessions belong to    *)
(* one person, whose visibility is Reach; a refusal (rate limit, a name    *)
(* that matches nothing, a size) changes nothing that is kept here, so it  *)
(* is no step.                                                             *)
(***************************************************************************)
EXTENDS Pairings, Naturals, FiniteSets

CONSTANTS Reach,     \* <<sender, session>>: may see it, and use its agent
          HopLimit,  \* PEER_HOP_LIMIT
          RemoteHops, \* the hops that remote senders state
          MaxTurns,  \* bound on a session's peer turns under way at once
          Any        \* in outbound: any session of the host (a start)

ASSUME BoundsAssumption == /\ HopLimit \in Nat \ {0}
                            /\ MaxTurns \in Nat
ASSUME ReachAssumption == Reach \subseteq (Local \cup Outsider) \X (Local \cup Remote \cup {Any})
ASSUME HopsAssumption == RemoteHops \subseteq 1..HopLimit
ASSUME AnyAssumption == Any \notin Remote

VARIABLES
  asks,      \* the messages that wait for an answer, with the pair asked about
  inbound,   \* <<session, outsider>>: wrote to it, and may be replied to
  outbound,  \* <<session, remote or Any>>: the notices the session takes
  turns,     \* peer messages delivered, whose turn has not ended
  scopes     \* scopes[f]: what became of the name of a fresh session

vars == <<rows, pending, asks, inbound, outbound, turns, scopes>>

Hops == 1..HopLimit

Turn == [to : Local, hops : Hops]

Ask == [pair : Pair, to : Local, hops : Hops]

TypeOK ==
  /\ rows \in [Pair -> Row]
  /\ pending \subseteq Pair
  /\ asks \subseteq Ask
  /\ inbound \subseteq Local \X Outsider
  /\ outbound \subseteq Local \X (Remote \cup {Any})
  /\ turns \subseteq Turn
  /\ scopes \in [Fresh -> {"unmade", "bound", "used", "dropped"}]

Init ==
  /\ PairingsInit
  /\ asks = {}
  /\ inbound = {}
  /\ outbound = {}
  /\ turns = {}
  /\ scopes = [f \in Fresh |-> "unmade"]

------------------------------------------------------------------------------
(* What the handlers share *)

\* knownScopes(): stored sessions, and sessions that are live.
Known(s) ==
  \/ s \in Session
  \/ s \in Fresh /\ scopes[s] = "used"
  \/ \E turn \in turns : turn.to = s

\* The hops behind the turn in which a session calls a tool: 0 in a person's turn.
TurnHops(s) == {0} \cup {turn.hops : turn \in {u \in turns : u.to = s}}

\* Mutant: the limit is looked at where a person's turn sends only.
DeliversFurther(to, hops) ==
  /\ hops - 1 \in Hops \/ hops = 1
  /\ Cardinality({turn \in turns : turn.to = to}) < MaxTurns
  /\ turns' = turns \cup {[to |-> to, hops |-> hops]}

\* send(): a turn in the target, one hop further.
Delivers(to, hops) ==
  /\ hops \in Hops
  /\ Cardinality({turn \in turns : turn.to = to}) < MaxTurns
  /\ turns' = turns \cup {[to |-> to, hops |-> hops]}

\* noteInbound()
NotesInbound(s, o) == inbound' = inbound \cup {<<s, o>>}

\* openReverse(): the other side took the message.  A question under way and a
\* deny here stand.
OpensReverse(r, s) ==
  CASE Kind(<<r, s>>) = "allowed" -> Touch(<<r, s>>)
    [] Kind(<<r, s>>) = "new" -> Decide(<<r, s>>, TRUE)
    [] OTHER -> KeepsPairings

\* resolve(), visible(), localTarget(): the sessions a sender may name.
Names(o, t) == Known(t) /\ <<o, t>> \in Reach

\* remoteCaller(): a session of a host of the person whose link it is, and hops within
\* the limit.
Admitted(r, hops) == r \in Remote /\ hops \in Hops

\* createPeerScope()
Creates(f) == scopes[f] = "unmade" /\ scopes' = [scopes EXCEPT ![f] = "bound"]

\* dropPeerScope(), which leaves a scope with a session alone.
Drops(s) ==
  scopes' = IF s \in Fresh /\ ~Known(s) THEN [scopes EXCEPT ![s] = "dropped"] ELSE scopes

------------------------------------------------------------------------------
(* What sessions here do *)

\* sendTool() to a session on this controller.
SendLocal(s, t) ==
  /\ s # t /\ Known(s) /\ Names(s, t)
  /\ \E hops \in TurnHops(s) : Delivers(t, hops + 1)
  /\ KeepsPairings
  /\ UNCHANGED <<asks, inbound, outbound, scopes>>

\* sendTool() to a principal: the pair's idle clock starts again, the message waits in
\* the inbox.  The pair's state is not looked at.
ReplyToPrincipal(s, k) ==
  /\ Known(s) /\ <<s, k>> \in inbound
  /\ \E hops \in TurnHops(s) : hops + 1 \in Hops
  /\ Touch(<<k, s>>)
  /\ UNCHANGED <<asks, inbound, outbound, turns, scopes>>

\* startTool() on this host: a session of the same person, with the message as its
\* first turn.
StartLocal(s, f) ==
  /\ Known(s)
  /\ Creates(f)
  /\ \E hops \in TurnHops(s) : Delivers(f, hops + 1)
  /\ KeepsPairings
  /\ UNCHANGED <<asks, inbound, outbound>>

\* sendRemote() up to its await, and startRemote() likewise (to = Any).  Whether a call
\* is under way is not kept: the session may call again, which changes nothing here, so
\* an answer may come as long as the note of a call is there.
CallRemote(s, to) ==
  /\ Known(s)
  /\ <<s, to>> \in Reach \/ <<s, to>> \in inbound
  /\ \E hops \in TurnHops(s) : hops + 1 \in Hops
  /\ outbound' = outbound \cup {<<s, to>>}
  /\ KeepsPairings
  /\ UNCHANGED <<asks, inbound, turns, scopes>>

\* The message was delivered or queued there.  Held there, refused or unreachable, it
\* leaves nothing more here.
RemoteTook(s, r) ==
  /\ <<s, r>> \in outbound
  /\ OpensReverse(r, s)
  /\ UNCHANGED <<asks, inbound, outbound, turns, scopes>>

\* A session r was started there.
RemoteStarted(s, r) ==
  /\ <<s, Any>> \in outbound
  /\ outbound' = outbound \cup {<<s, r>>}
  /\ OpensReverse(r, s)
  /\ UNCHANGED <<asks, inbound, turns, scopes>>

------------------------------------------------------------------------------
(* What principals do *)

\* sendAsPrincipal(), allowed: the message is delivered.
PrincipalSends(k, t) ==
  /\ Names(k, t)
  /\ Kind(<<k, t>>) = "allowed"
  /\ Touch(<<k, t>>)
  /\ NotesInbound(t, k)
  /\ Delivers(t, 1)
  /\ UNCHANGED <<asks, outbound, scopes>>

\* sendAsPrincipal(), new: the message is held and the person asked.
PrincipalHeld(k, t) ==
  /\ Names(k, t)
  /\ Kind(<<k, t>>) = "new"
  /\ Begin(<<k, t>>)
  /\ asks' = asks \cup {[pair |-> <<k, t>>, to |-> t, hops |-> 1]}
  /\ UNCHANGED <<inbound, outbound, turns, scopes>>

\* startTool(): a principal's own session is paired with it from the start.
PrincipalStarts(k, f) ==
  /\ Creates(f)
  /\ Decide(<<k, f>>, TRUE)
  /\ NotesInbound(f, k)
  /\ Delivers(f, 1)
  /\ UNCHANGED <<asks, outbound>>

------------------------------------------------------------------------------
(* What sessions on other controllers do *)

\* remoteInbound(), allowed.
RemoteSends(r, t, hops) ==
  /\ Admitted(r, hops) /\ Names(r, t)
  /\ Kind(<<r, t>>) = "allowed"
  /\ Touch(<<r, t>>)
  /\ NotesInbound(t, r)
  /\ Delivers(t, hops)
  /\ UNCHANGED <<asks, outbound, scopes>>

\* remoteInbound(), new.
RemoteHeld(r, t, hops) ==
  /\ Admitted(r, hops) /\ Names(r, t)
  /\ Kind(<<r, t>>) = "new"
  /\ Begin(<<r, t>>)
  /\ asks' = asks \cup {[pair |-> <<r, t>>, to |-> t, hops |-> hops]}
  /\ UNCHANGED <<inbound, outbound, turns, scopes>>

\* remoteStart(), when an allow covers the sender's starts.
RemoteStarts(r, f, hops) ==
  /\ Admitted(r, hops)
  /\ Kind(<<r, Start>>) = "allowed"
  /\ Creates(f)
  /\ rows' = [Touched(<<r, Start>>) EXCEPT ![<<r, f>>] = "allow"]
  /\ pending' = pending \ {<<r, f>>}
  /\ NotesInbound(f, r)
  /\ Delivers(f, hops)
  /\ UNCHANGED <<asks, outbound>>

\* remoteStart(), new: the session's scope is created before the person is asked.
RemoteStartHeld(r, f, hops) ==
  /\ Admitted(r, hops)
  /\ Kind(<<r, Start>>) = "new"
  /\ Creates(f)
  /\ Begin(<<r, Start>>)
  /\ asks' = asks \cup {[pair |-> <<r, Start>>, to |-> f, hops |-> hops]}
  /\ UNCHANGED <<inbound, outbound, turns>>

\* remoteNotice(): only for a session that wrote there, and it runs as a turn.  "allowed"
\* opens the conversation the other way.
RemoteNotice(r, t, outcome) ==
  /\ Names(r, t)
  /\ <<t, r>> \in outbound \/ <<t, Any>> \in outbound
  /\ IF outcome = "allowed"
     THEN OpensReverse(r, t) /\ outbound' = outbound \cup {<<t, r>>}
     ELSE KeepsPairings /\ outbound' = outbound
  /\ Delivers(t, 1)
  /\ UNCHANGED <<asks, inbound, scopes>>

------------------------------------------------------------------------------
(* Answers, ends of turns, time, a restart *)

Outside(ask) == ask.pair[1]

\* The person allows: the held message is delivered.  A start's session is paired with
\* the one that asked for it.
AskAllowed(ask) ==
  /\ pending' = pending \ {ask.pair, <<Outside(ask), ask.to>>}
  /\ rows' = [rows EXCEPT ![ask.pair] = "allow", ![<<Outside(ask), ask.to>>] = "allow"]
  /\ asks' = asks \ {ask}
  /\ NotesInbound(ask.to, Outside(ask))
  /\ Delivers(ask.to, ask.hops)
  /\ UNCHANGED <<outbound, scopes>>

\* The person denies: the pair is refused for a day.
AskDenied(ask) ==
  /\ Decide(ask.pair, FALSE)
  /\ asks' = asks \ {ask}
  /\ Drops(ask.to)
  /\ UNCHANGED <<inbound, outbound, turns>>

\* No answer in time, nowhere to ask, or asking failed.
AskEnds(ask) ==
  /\ Cancel(ask.pair)
  /\ asks' = asks \ {ask}
  /\ Drops(ask.to)
  /\ UNCHANGED <<inbound, outbound, turns>>

TurnRan(turn) ==
  /\ turns' = turns \ {turn}
  /\ scopes' = IF turn.to \in Fresh THEN [scopes EXCEPT ![turn.to] = "used"] ELSE scopes
  /\ KeepsPairings
  /\ UNCHANGED <<asks, inbound, outbound>>

\* Dropped, or its delivery failed: nothing was stored.
TurnFailed(turn) ==
  /\ turns' = turns \ {turn}
  /\ KeepsPairings
  /\ UNCHANGED <<asks, inbound, outbound, scopes>>

\* forgetConversation()
Forget(pair) ==
  /\ Revoke(pair)
  /\ UNCHANGED <<asks, inbound, outbound, turns, scopes>>

PairLapses(pair) ==
  /\ Lapse(pair)
  /\ UNCHANGED <<asks, inbound, outbound, turns, scopes>>

\* The 24 hours of a reply, or of the notices a session takes, are over.
WindowCloses ==
  /\ \/ \E note \in inbound : inbound' = inbound \ {note} /\ outbound' = outbound
     \/ \E note \in outbound : outbound' = outbound \ {note} /\ inbound' = inbound
  /\ KeepsPairings
  /\ UNCHANGED <<asks, turns, scopes>>

\* What is stored is left: decisions, sessions, and the bindings of fresh ones.
Restart ==
  /\ pending' = {}
  /\ asks' = {}
  /\ inbound' = {}
  /\ outbound' = {}
  /\ turns' = {}
  /\ UNCHANGED <<rows, scopes>>

Answer(ask) == AskAllowed(ask) \/ AskDenied(ask) \/ AskEnds(ask)

Next ==
  \/ \E s, t \in Local : SendLocal(s, t)
  \/ \E s \in Local, k \in Principal : ReplyToPrincipal(s, k)
  \/ \E s \in Local, f \in Fresh : StartLocal(s, f)
  \/ \E s \in Local, to \in Remote \cup {Any} : CallRemote(s, to)
  \/ \E s \in Local, r \in Remote : RemoteTook(s, r) \/ RemoteStarted(s, r)
  \/ \E k \in Principal, t \in Local : PrincipalSends(k, t) \/ PrincipalHeld(k, t)
  \/ \E k \in Principal, f \in Fresh : PrincipalStarts(k, f)
  \/ \E r \in Remote, t \in Local, hops \in RemoteHops :
       RemoteSends(r, t, hops) \/ RemoteHeld(r, t, hops)
  \/ \E r \in Remote, f \in Fresh, hops \in RemoteHops :
       RemoteStarts(r, f, hops) \/ RemoteStartHeld(r, f, hops)
  \/ \E r \in Remote, t \in Local, outcome \in {"allowed", "other"} : RemoteNotice(r, t, outcome)
  \/ \E ask \in asks : Answer(ask)
  \/ \E turn \in turns : TurnRan(turn) \/ TurnFailed(turn)
  \/ \E pair \in Pair : Forget(pair) \/ PairLapses(pair)
  \/ WindowCloses
  \/ Restart

\* The person answers, or the ask's timer ends it.
Answered(pair) == \E ask \in asks : ask.pair = pair /\ AskEnds(ask)

Spec == Init /\ [][Next]_vars /\ \A pair \in Pair : WF_vars(Answered(pair))

------------------------------------------------------------------------------
(* A pair is marked as being asked about exactly while one question about it is
   open: a mark without a question would refuse the sender until a restart, two
   questions would let the later answer undo the earlier.  A start that waits has
   its scope bound, with no session in it yet (remoteInbound, remoteStart,
   sendAsPrincipal in peers.ts; begin, cancel and decide in peer-pairings.ts). *)
MarkIsQuestion ==
  /\ pending = {ask.pair : ask \in asks}
  /\ \A a, b \in asks : a.pair = b.pair => a = b
  /\ \A ask \in asks : ask.pair[2] = Start => scopes[ask.to] = "bound"

(* Whatever is sent, answered, revoked, lost to a restart or forgotten by the hour,
   every pair goes the way the store promises (PairLife): a refusal stands until it
   has run its time or is withdrawn, leave given never turns into a refusal or a
   question, and a question that is open ends. *)
Life == INSTANCE PairLife WITH kind <- [pair \in Pair |-> Kind(pair)]

PairsLive == Life!Spec
==============================================================================
