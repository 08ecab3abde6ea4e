------------------------------ MODULE DispatchBus ------------------------------
(***************************************************************************)
(* One conversation scope, end to end: the orchestrator's bridge           *)
(* (packages/orchestrator/src/bus/orchestrator-bridge.ts), the Redis       *)
(* channels between it and the worker, and the worker's loop (WorkerLoop). *)
(*                                                                         *)
(* A message is dispatched by attempts.  An attempt is one dispatch() with *)
(* its correlation id; a retry is another attempt that answers the same    *)
(* caller.  Ids are reused once nothing refers to them.  A session is      *)
(* named after the attempt that created it.  The messages are people's:    *)
(* what peers send, and the scope's busy state they wait on, is not here;   *)
(* nor are background tasks and results with files (WorkerSession).        *)
(***************************************************************************)
EXTENDS WorkerLoop, FiniteSets

CONSTANTS Msg,          \* messages people send
          Nudge,        \* the text "continue"
          MaxContinue,  \* MAX_AUTO_CONTINUE
          MaxMishaps,   \* bound on restarts, switches, closes and failures
          Transcripts   \* what the scope's recorded transcript may be at first

ASSUME MessagesAssumption == None \notin Msg /\ Nudge \notin Msg
ASSUME BoundsAssumption == MaxContinue \in Nat /\ MaxMishaps \in Nat
ASSUME TranscriptsAssumption == Transcripts \subseteq Resume
ASSUME PoolAssumption == Cid \subseteq Nat /\ IsFiniteSet(Cid) /\ Session = Cid

VARIABLES
  attempts,    \* attempts[c]: pending dispatches and what they carry
  outcome,     \* outcome[m]: what the sender of m got
  wire,        \* stockade:msg:{scope}, published and not delivered
  session,     \* the scope's live session
  closings,    \* awaited clean-ups, and what each goes on to do
  saved,       \* the transcript sessions.db names for the scope
  mode,        \* is the scope in sudo mode?
  held,        \* texts a mode switch cut off (interrupted)
  resuming,   \* the timer that dispatches them is set
  ready,       \* a worker:ready signal is on its way
  mishaps      \* restarts, switches, closes and failures so far

bridgeVars == <<attempts, outcome, session, closings, saved, mode, held,
                resuming>>
vars == <<loopVars, bridgeVars, wire, ready, mishaps>>

Text == Msg \cup {Nudge}

Attempt == [st : {"creating", "pending", "over"}, for : Msg \cup {None},
            text : SUBSET Text, retries : 0..MaxContinue, sudo : BOOLEAN,
            fresh : BOOLEAN]

Outcome == {"unsent", "waiting", "replied", "empty", "error", "interrupted"}

LiveSession == [id : Session, sudo : BOOLEAN]

\* sid: the session being deleted; retry: the attempts to dispatch again;
\* new: the message that waits for it, as the dispatch it will be.
Closing == [sid : Session \cup {None},
            then : {"nothing", "resume", "send", "retry", "close", "retryFresh"},
            retry : SUBSET Cid, new : Attempt]

TypeOK ==
  /\ LoopTypeOK
  /\ attempts \in [Cid -> Attempt]
  /\ outcome \in [Msg -> Outcome]
  /\ wire \in Seq(Cid)
  /\ session \in LiveSession \cup {None}
  /\ \A k \in closings : k \in Closing
  /\ saved \in Resume
  /\ held \subseteq Text
  /\ {mode, resuming, ready} \subseteq BOOLEAN
  /\ mishaps \in 0..MaxMishaps

Blank == [st |-> "over", for |-> None, text |-> {}, retries |-> 0,
          sudo |-> FALSE, fresh |-> FALSE]

Init ==
  /\ loop = NoLoop /\ events = <<>> /\ uploads = {}
  /\ attempts = [c \in Cid |-> Blank]
  /\ outcome = [m \in Msg |-> "unsent"]
  /\ wire = <<>> /\ session = None /\ closings = {}
  /\ saved \in Transcripts
  /\ mode = FALSE /\ held = {} /\ resuming = FALSE
  /\ ready = FALSE
  /\ mishaps = 0

Mishap == mishaps < MaxMishaps /\ mishaps' = mishaps + 1

------------------------------------------------------------------------------
(* sendAndWait and dispatch *)

SessionId == IF session = None THEN None ELSE session.id

\* A live session is of the other mode.
Mismatch(sudo) == IF session = None THEN FALSE ELSE session.sudo # sudo

Pending == { c \in Cid : attempts[c].st = "pending" }

\* The ids something still refers to.
InUse ==
  { c \in Cid : attempts[c].st # "over" }
    \cup ToSet(wire) \cup { events[i].cid : i \in DOMAIN events }
    \cup { e.cid : e \in uploads } \cup Unread
    \cup loop.pending \cup loop.afterReply
    \cup {loop.sid, loop.current, loop.replyCid}
    \cup UNION { k.retry \cup {k.sid} : k \in closings } \cup {SessionId}

\* The numbers of a finite set in their order (the provers' library has SortSeq
\* without its definition).
InOrder(S) ==
  CHOOSE s \in [1..Cardinality(S) -> S] : \A i, j \in DOMAIN s : i < j => s[i] < s[j]

FreeIds == InOrder(Cid \ InUse)

\* The callers the attempts of a set answer get an outcome, if they wait.
Settled(out, cs, o) ==
  [m \in Msg |-> IF out[m] = "waiting" /\ \E c \in cs : attempts[c].for = m
                   THEN o ELSE out[m]]

Over(cs) == [c \in Cid |-> IF c \in cs THEN [attempts[c] EXCEPT !.st = "over"]
                                       ELSE attempts[c]]

\* publishMessage(): whoever subscribes to the scope's channel will get them.
PublishMessages(cs) == wire' = wire \o cs

\* A transcript id is upserted in sessions.db.
SetSessionId(transcript) == saved' = transcript

\* New attempts, in the order of batch.  The first takes along what a switch
\* cut off.  With a live session they are published at once, unless their
\* mode is not the session's (ensureSession throws, their callers get an
\* error); without one each creates a session of its own.
Dispatch(batch, as, out) ==
  LET carried == IF batch = <<>> THEN batch
                 ELSE [batch EXCEPT ![1].text = @ \cup held]
      ids == [i \in DOMAIN batch |-> FreeIds[i]]
      Refused(i) == Mismatch(carried[i].sudo)
      stage(i) == IF session = None THEN "creating"
                  ELSE IF Refused(i) THEN "over" ELSE "pending"
      sent == InOrder({ ids[i] : i \in { j \in DOMAIN ids : stage(j) = "pending" } })
  IN  /\ Len(batch) <= Len(FreeIds)
      /\ attempts' = [c \in Cid |->
           IF c \in ToSet(ids)
             THEN LET i == CHOOSE j \in DOMAIN ids : ids[j] = c
                  IN  [carried[i] EXCEPT !.st = stage(i)]
             ELSE as[c]]
      /\ PublishMessages(sent)
      /\ outcome' = [m \in Msg |->
           IF out[m] = "waiting"
                /\ \E i \in DOMAIN ids : Refused(i) /\ carried[i].for = m
             THEN "error" ELSE out[m]]
      /\ held' = IF batch = <<>> THEN held ELSE {}

\* The dispatch of a new message, in the scope's mode.
First(m) == [Blank EXCEPT !.for = m, !.text = {m}, !.sudo = mode]

\* A person sends a message, the session's mode being the scope's.
Send(m) ==
  /\ outcome[m] = "unsent"
  /\ ~Mismatch(mode)
  /\ Dispatch(<<First(m)>>, attempts, [outcome EXCEPT ![m] = "waiting"])
  /\ UNCHANGED <<loopVars, session, closings, saved, mode, resuming,
                 ready, mishaps>>

\* createSession has run for the attempt: the worker has a new loop for the
\* scope and evicts the old one, the map names the new session, and the
\* attempt's message is published.
SessionCreated(c) ==
  LET a == attempts[c] IN
  /\ a.st = "creating"
  /\ session' = [id |-> c, sudo |-> a.sudo]
  /\ loop' = NewLoop(c, IF a.fresh THEN "none" ELSE saved)
  /\ attempts' = [attempts EXCEPT ![c].st = "pending"]
  /\ PublishMessages(<<c>>)
  /\ UNCHANGED <<events, uploads, outcome, closings, saved, mode, held,
                 resuming, ready, mishaps>>

CreateFailed(c) ==
  /\ attempts[c].st = "creating"
  /\ Mishap
  /\ attempts' = Over({c})
  /\ outcome' = Settled(outcome, {c}, "error")
  /\ UNCHANGED <<loopVars, wire, session, closings, saved, mode, held,
                 resuming, ready>>

\* The dispatch timeout: a live session is nudged, otherwise the message is
\* sent again; after MaxContinue retries the caller gets an error.
Timeout(c) ==
  LET a == attempts[c]
      text == IF session = None THEN a.text ELSE {Nudge} IN
  /\ a.st = "pending"
  /\ IF a.retries < MaxContinue
       THEN Dispatch(<<[a EXCEPT !.text = text, !.retries = @ + 1]>>,
                     Over({c}), outcome)
       ELSE /\ attempts' = Over({c})
            /\ outcome' = Settled(outcome, {c}, "error")
            /\ UNCHANGED <<wire, held>>
  /\ UNCHANGED <<loopVars, session, closings, saved, mode, resuming,
                 ready, mishaps>>

------------------------------------------------------------------------------
(* Closing *)

\* closeSession(): the session leaves the map, the clean-up is awaited.
BeginClose(then, retry, new) ==
  /\ session' = None
  /\ closings' = closings \cup
       {[sid |-> SessionId, then |-> then, retry |-> retry, new |-> new]}

\* The idle timer closes the session.
CloseSession ==
  /\ session # None
  /\ Mishap
  /\ BeginClose("nothing", {}, Blank)
  /\ UNCHANGED <<loopVars, attempts, outcome, wire, saved, mode, held,
                 resuming, ready>>

\* Mutant: the dispatches a switch cut off are not settled.
HoldUnansweredUnsettled(out) ==
  /\ attempts' = Over(Pending)
  /\ outcome' = out
  /\ held' = held \cup UNION { attempts[c].text : c \in Pending }

\* holdUnanswered: the pending dispatches are settled, their texts kept.
HoldUnanswered(out) ==
  /\ attempts' = Over(Pending)
  /\ outcome' = Settled(out, Pending, "interrupted")
  /\ held' = held \cup UNION { attempts[c].text : c \in Pending }

\* Mutant: nothing dispatches what the switch cut off.
SudoSwitchWithoutResume ==
  /\ Mishap
  /\ mode' = ~mode
  /\ HoldUnanswered(outcome)
  /\ BeginClose("nothing", {}, Blank)
  /\ UNCHANGED <<loopVars, wire, saved, resuming, ready>>

\* /sudo: the scope's mode flips, its session closes, and what the switch
\* cut off is dispatched afterwards.
SudoSwitch ==
  /\ Mishap
  /\ mode' = ~mode
  /\ HoldUnanswered(outcome)
  /\ BeginClose("resume", {}, Blank)
  /\ UNCHANGED <<loopVars, wire, saved, resuming, ready>>

\* Sudo mode runs out; its session stays until the next message.
SudoExpires ==
  /\ mode
  /\ mode' = FALSE
  /\ UNCHANGED <<loopVars, attempts, outcome, wire, session, closings, saved,
                 held, resuming, ready, mishaps>>

\* A message finds a session of the other mode: it waits until that session
\* is closed, and will carry what was cut off.
SwitchForMessage(m) ==
  /\ outcome[m] = "unsent"
  /\ Mismatch(mode)
  /\ HoldUnanswered([outcome EXCEPT ![m] = "waiting"])
  /\ BeginClose("send", {}, First(m))
  /\ UNCHANGED <<loopVars, wire, saved, mode, resuming, ready,
                 mishaps>>

\* The worker's DELETE handler: the closed session's loop ends.
DeleteArrives(k) ==
  /\ k \in closings /\ k.sid # None /\ loop.sid = k.sid
  /\ Abort
  /\ UNCHANGED <<bridgeVars, wire, ready, mishaps>>

\* The attempts a closing retries, in order, as new ones: a restart or stale
\* retry starts counting its timeouts again, and nothing asks whether the
\* attempt has been answered or retried meanwhile.
Retries(k) ==
  LET old == InOrder(k.retry) IN
  [i \in DOMAIN old |->
     [attempts[old[i]] EXCEPT !.retries = 0,
                              !.fresh = @ \/ k.then = "retryFresh"]]

\* An awaited clean-up has settled, and what follows it runs.
CloseSettled(k) ==
  /\ k \in closings
  /\ k.then # "close"
  /\ closings' = closings \ {k}
  /\ CASE k.then = "resume" -> Dispatch(<<>>, attempts, outcome)
       [] k.then = "send"   -> Dispatch(<<k.new>>, attempts, outcome)
       [] OTHER             -> Dispatch(Retries(k), Over(k.retry), outcome)
  /\ resuming' = (resuming \/ (k.then = "resume" /\ held # {}))
  /\ UNCHANGED <<loopVars, session, saved, mode, ready, mishaps>>

\* The stale session has been told to reset, and is closed.
ResetSent(k) ==
  /\ k \in closings
  /\ k.then = "close"
  /\ session' = None
  /\ closings' = (closings \ {k}) \cup
       {[k EXCEPT !.sid = SessionId, !.then = "retryFresh"]}
  /\ UNCHANGED <<loopVars, attempts, outcome, wire, saved, mode, held, resuming,
                 ready, mishaps>>

\* Mutant: with no live session there is nothing to resume.
ResumeInterruptedIfLive ==
  /\ resuming
  /\ resuming' = FALSE
  /\ Dispatch(IF held = {} \/ session = None THEN <<>>
              ELSE <<[Blank EXCEPT !.sudo = mode]>>, attempts, outcome)
  /\ UNCHANGED <<loopVars, session, closings, saved, mode, ready, mishaps>>

\* resumeInterrupted, when its timer fires.
ResumeInterrupted ==
  /\ resuming
  /\ resuming' = FALSE
  /\ Dispatch(IF held = {} THEN <<>> ELSE <<[Blank EXCEPT !.sudo = mode]>>,
              attempts, outcome)
  /\ UNCHANGED <<loopVars, session, closings, saved, mode, ready, mishaps>>

------------------------------------------------------------------------------
(* The worker process *)

\* Redis delivers the next message to whatever loop is subscribed.
Deliver ==
  /\ wire # <<>>
  /\ wire' = Tail(wire)
  /\ IF loop.sid = None THEN UNCHANGED loopVars ELSE MessageHandler(Head(wire))
  /\ UNCHANGED <<bridgeVars, ready, mishaps>>

ReadItem == CliRead(Head(loop.unread)) /\ UNCHANGED <<bridgeVars, wire, ready, mishaps>>

WorkerStep ==
  /\ \/ StartQuery \/ CliIdle \/ QueryEnds \/ StaleSession
     \/ Result(ResultEvent) /\ uploads' = uploads
  /\ UNCHANGED <<bridgeVars, wire, ready, mishaps>>

CliCrash ==
  /\ Mishap
  /\ SilentEnd \/ QueryThrows
  /\ UNCHANGED <<bridgeVars, wire, ready>>

\* The worker process dies and comes up again.
WorkerRestart ==
  /\ loop.sid # None
  /\ Mishap
  /\ loop' = NoLoop /\ uploads' = {}
  /\ ready' = TRUE
  /\ UNCHANGED <<bridgeVars, events, wire>>

\* handleWorkerRestart: a live session of that worker is stale.
HandleReady ==
  /\ ready
  /\ ready' = FALSE
  /\ IF session = None THEN UNCHANGED <<session, closings>>
                       ELSE BeginClose("retry", Pending, Blank)
  /\ UNCHANGED <<loopVars, attempts, outcome, wire, saved, mode, held,
                 resuming, mishaps>>

------------------------------------------------------------------------------
(* handleWorkerEvent *)

\* Mutant: a scope that has a recorded transcript keeps it.
HandleTurnFirstOnly ==
  /\ saved' = IF session # None /\ saved = "none" THEN "good" ELSE saved
  /\ UNCHANGED <<attempts, outcome, closings>>

\* The session's transcript id arrives with the first turn.
HandleTurn ==
  /\ SetSessionId(IF session = None THEN saved ELSE "good")
  /\ UNCHANGED <<attempts, outcome, closings>>

\* Mutant: the dispatches a result coalesces are dropped unresolved.
HandleResultForgetting(c, o) ==
  /\ IF c \in Pending
       THEN attempts' = Over(Pending) /\ outcome' = Settled(outcome, {c}, o)
       ELSE UNCHANGED <<attempts, outcome>>
  /\ UNCHANGED <<closings, saved>>

\* The result resolves the dispatch it names, and with an empty text every
\* other pending dispatch of the scope; a result no dispatch waits for, and
\* a follow-up, resolves nothing.
HandleResult(c, o) ==
  /\ IF c \in Pending
       THEN /\ attempts' = Over(Pending)
            /\ outcome' = Settled(Settled(outcome, {c}, o), Pending, "empty")
       ELSE UNCHANGED <<attempts, outcome>>
  /\ UNCHANGED <<closings, saved>>

HandleError(c) ==
  /\ attempts' = Over({c} \cap Pending)
  /\ outcome' = Settled(outcome, {c} \cap Pending, "error")
  /\ UNCHANGED <<closings, saved>>

\* The session's transcript is gone: it is told so, closed, and the message
\* retried without one.
HandleStale(c) ==
  /\ closings' = IF c \notin Pending THEN closings
                 ELSE closings \cup {[sid |-> None, then |-> "close",
                                      retry |-> {c}, new |-> Blank]}
  /\ UNCHANGED <<attempts, outcome, saved>>

HandleEvent ==
  /\ events # <<>>
  /\ events' = Tail(events)
  /\ LET e == Head(events) IN
       \/ e.kind = "turn" /\ HandleTurn
       \/ e.kind = "result" /\ HandleResult(e.cid, "replied")
       \/ e.kind \in {"empty", "followup"} /\ HandleResult(e.cid, "empty")
       \/ e.kind = "error" /\ HandleError(e.cid)
       \/ e.kind = "stale" /\ HandleStale(e.cid)
  /\ UNCHANGED <<loop, uploads, wire, session, mode, held, resuming, ready,
                 mishaps>>

Next ==
  \/ \E m \in Msg : Send(m) \/ SwitchForMessage(m)
  \/ \E c \in Cid : SessionCreated(c) \/ CreateFailed(c) \/ Timeout(c)
  \/ CloseSession \/ SudoSwitch \/ SudoExpires \/ ResumeInterrupted
  \/ \E k \in closings : DeleteArrives(k) \/ ResetSent(k) \/ CloseSettled(k)
  \/ Deliver \/ ReadItem \/ WorkerStep \/ CliCrash
  \/ WorkerRestart \/ HandleReady \/ HandleEvent

\* The orchestrator's timers fire (a turn starts a dispatch's anew, and a
\* query's turns are limited by max_turns), and what a close awaits settles,
\* each request by a timeout of its own.  Nothing is assumed of the worker, its
\* CLI, or Redis, nor of a creation: the wait at the gate and the commands of
\* Docker have no timeout, and a dispatch's timer is armed only after them.
Fairness ==
  /\ \A c \in Cid : WF_vars(Timeout(c))
  /\ WF_vars(\E k \in closings : ResetSent(k) \/ CloseSettled(k))
  /\ WF_vars(ResumeInterrupted)

Spec == Init /\ [][Next]_vars /\ Fairness

------------------------------------------------------------------------------
(* Properties *)

\* Each creation of a session ends, well or not.  The code does not see to it:
\* a call may wait at the gate, or for a command of Docker, for ever.
CreationsEnd == \A c \in Cid : []<>(attempts[c].st # "creating")

\* Every message sent is settled, if the creations of sessions end: its caller
\* gets a reply or an error, or is told it was cut off, whatever restarts,
\* switches, closes and failures do, and although a worker may never answer.
Settles ==
  CreationsEnd =>
    \A m \in Msg : (outcome[m] = "waiting") ~> (outcome[m] # "waiting")

\* While the caller of a message waits, somebody is due to answer it: one of
\* its attempts is in flight, or waits for a session to close.
NoCallerForgotten ==
  \A m \in Msg : outcome[m] = "waiting" =>
    \/ \E c \in Cid : attempts[c].st # "over" /\ attempts[c].for = m
    \/ \E k \in closings : k.new.for = m

\* What a mode switch cut off has a dispatch coming that takes it along.
HeldHasCarrier ==
  held # {} => resuming \/ \E k \in closings : k.then \in {"resume", "send"}

\* A live session whose scope's recorded transcript was lost has recorded
\* its own as soon as the orchestrator has heard of it: the scope does not
\* resume the dead one again.
SavedHeals ==
  session # None /\ loop.sid = SessionId /\ loop.resume = "good" /\ events = <<>>
    => saved = "good"

\* Nor is it held forever.
HeldResumed == (held # {}) ~> (held = {})
==============================================================================
