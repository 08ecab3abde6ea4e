--------------------------- MODULE WorkerLoop_proofs ---------------------------
(***************************************************************************)
(* The worker's loop alone with any sender (WorkerSession), and with the   *)
(* bridge (DispatchBus): both are made of the steps of WorkerLoop.         *)
(***************************************************************************)
EXTENDS WorkerSession, DispatchBus, FiniteSetTheorems, SequenceTheorems,
        WellFoundedInduction, TLAPS

\* An event that is published joins those nobody has taken.
LEMMA EmitKeepsType ==
  ASSUME LoopTypeOK, NEW kind, NEW c, [kind |-> kind, cid |-> c] \in Event, Emit(kind, c)
  PROVE  events' \in Seq(Event) /\ Len(events') <= MaxEvents + 1
BY EventsAssumption DEF LoopTypeOK, Emit

\* A new loop, and what the next round of one keeps of it.
LEMMA NewLoopTyped ==
  ASSUME NEW s \in Session \cup {None}, NEW r \in Resume
  PROVE  NewLoop(s, r) \in Loop
BY DEF NewLoop, Loop

LEMMA QueryingTyped ==
  ASSUME loop \in Loop, NEW prompt \in SUBSET Cid, NEW c \in Cid \cup {None}
  PROVE  Querying(prompt, c) \in Loop
<1> DEFINE new == NewLoop(loop.sid, loop.resume)
<1>1. new \in Loop
  BY NewLoopTyped DEF Loop
<1>2. <<prompt>> \in Seq(SUBSET Cid)
  OBVIOUS
<1> HIDE DEF new
<1>3. [new EXCEPT !.running = TRUE, !.unread = <<prompt>>, !.current = c, !.replyCid = c,
                  !.replied = FALSE] \in Loop
  BY <1>1, <1>2 DEF Loop
<1> QED
  BY <1>3 DEF Querying, new

LEMMA WaitingTyped ==
  ASSUME loop \in Loop
  PROVE  Waiting \in Loop
<1> DEFINE new == NewLoop(loop.sid, loop.resume)
<1>1. new \in Loop
  BY NewLoopTyped DEF Loop
<1> HIDE DEF new
<1>3. [new EXCEPT !.pending = loop.pending, !.current = loop.current,
     !.replyCid = loop.replyCid] \in Loop
  BY <1>1 DEF Loop
<1> QED
  BY <1>3 DEF Waiting, new

LEMMA FinishedTyped ==
  ASSUME loop \in Loop, NEW failed \in BOOLEAN
  PROVE  Finished(failed) \in Loop
<1>2. loop.afterReply \in SUBSET Cid /\ loop.replyCid \in Cid \cup {None}
  BY DEF Loop
<1> QED
  BY WaitingTyped, <1>2, QueryingTyped DEF Finished

LEMMA MessageKeepsType ==
  ASSUME LoopTypeOK, NEW c \in Cid, MessageHandler(c)
  PROVE  LoopTypeOK'
<1>1. loop \in Loop /\ loop.unread \in Seq(SUBSET Cid) /\ loop.afterReply \in SUBSET Cid
  BY DEF LoopTypeOK, Loop
<1>2. Pushed(c) \in Seq(SUBSET Cid)
  BY <1>1 DEF Pushed
<1>3. {c} \in SUBSET Cid
  OBVIOUS
<1> HIDE DEF Pushed
<1>4. CASE ~loop.running
  <2>1. loop' = [loop EXCEPT !.current = c, !.pending = @ \cup {c}]
    BY <1>4 DEF MessageHandler
  <2>2. loop' \in Loop
    BY <2>1, <1>1 DEF Loop
  <2> QED
    BY <2>2 DEF MessageHandler, LoopTypeOK
<1>5. CASE loop.running /\ loop.replied
  <2>1. loop' = [loop EXCEPT !.current = c, !.unread = Pushed(c),
                           !.replyCid = c, !.replied = FALSE, !.afterReply = {c}]
    BY <1>5 DEF MessageHandler
  <2>2. loop' \in Loop
    BY <2>1, <1>1, <1>2, <1>3 DEF Loop
  <2> QED
    BY <2>2 DEF MessageHandler, LoopTypeOK
<1>6. CASE loop.running /\ ~loop.replied
  <2>1. loop' = [loop EXCEPT !.current = c, !.unread = Pushed(c), !.afterReply = @ \cup {c}]
    BY <1>6 DEF MessageHandler
  <2>2. loop' \in Loop
    BY <2>1, <1>1, <1>2, <1>3 DEF Loop
  <2> QED
    BY <2>2 DEF MessageHandler, LoopTypeOK
<1> QED
  BY <1>4, <1>5, <1>6

LEMMA StartKeepsType ==
  ASSUME LoopTypeOK, StartQuery
  PROVE  LoopTypeOK'
<1>1. loop \in Loop /\ loop.pending \in SUBSET Cid /\ loop.current \in Cid \cup {None}
  BY DEF LoopTypeOK, Loop
<1>2. Querying(loop.pending, loop.current) \in Loop
  BY <1>1, QueryingTyped
<1> QED
  BY <1>2 DEF StartQuery, LoopTypeOK

LEMMA ReadKeepsType ==
  ASSUME LoopTypeOK, NEW item, CliRead(item)
  PROVE  LoopTypeOK'
<1>1. loop \in Loop /\ loop.unread \in Seq(SUBSET Cid) /\ loop.unread # <<>>
  BY DEF LoopTypeOK, Loop, CliRead
<1>2. Taken \in Seq(SUBSET Cid)
  BY <1>1 DEF Taken
<1>3. loop' \in Loop
  BY <1>1, <1>2 DEF Loop, CliRead, Resume
<1>4. [kind |-> "turn", cid |-> None] \in Event
  BY DEF Event
<1> QED
  BY <1>3, <1>4, EmitKeepsType DEF CliRead, LoopTypeOK

LEMMA TasksKeepType ==
  ASSUME LoopTypeOK, TaskStarts \/ TaskEnds
  PROVE  LoopTypeOK'
<1>1. loop' \in Loop
  <2>1. \/ loop' = [loop EXCEPT !.tasks = TRUE, !.idle = FALSE]
        \/ loop' = [loop EXCEPT !.tasks = FALSE, !.inTurn = TRUE, !.idle = FALSE]
    BY DEF TaskStarts, TaskEnds
  <2> QED
    BY <2>1 DEF LoopTypeOK, Loop
<1>2. CASE TaskStarts
  <2>1. [kind |-> "tasks", cid |-> None] \in Event
    BY DEF Event
  <2> QED
    BY <1>1, <1>2, <2>1, EmitKeepsType DEF TaskStarts, LoopTypeOK
<1>3. CASE TaskEnds
  <2> DEFINE no == [kind |-> "noTasks", cid |-> None]
             turn == [kind |-> "turn", cid |-> None]
  <2>1. no \in Event /\ turn \in Event
    BY DEF Event
  <2>2. events' = events \o (IF loop.inTurn THEN <<no>> ELSE <<no, turn>>)
    BY <1>3 DEF TaskEnds
  <2>3. Len(events) < MaxEvents /\ events \in Seq(Event) /\ Len(events) \in Nat
    BY <1>3 DEF TaskEnds, LoopTypeOK
  <2> HIDE DEF no, turn
  <2>4. events' \in Seq(Event) /\ Len(events') <= Len(events) + 2
    BY <2>1, <2>2, <2>3
  <2> QED
    BY <1>1, <1>3, <2>3, <2>4, EventsAssumption DEF TaskEnds, LoopTypeOK
<1> QED
  BY <1>2, <1>3

LEMMA ResultKeepsType ==
  ASSUME LoopTypeOK, Result(ResultEvent)
  PROVE  LoopTypeOK'
<1>1. loop \in Loop /\ loop.replyCid \in Cid \cup {None}
  BY DEF LoopTypeOK, Loop
<1>2. loop' \in Loop
  BY <1>1 DEF Loop, Result
<1>3. /\ ResultEvent \in Event
      /\ ResultEvent = [kind |-> ResultEvent.kind, cid |-> ResultEvent.cid]
  BY <1>1 DEF ResultEvent, Event
<1> QED
  BY <1>2, <1>3, EmitKeepsType DEF Result, LoopTypeOK

LEMMA PublishKeepsType ==
  ASSUME LoopTypeOK, NEW e, PublishFiles(e)
  PROVE  LoopTypeOK'
<1>1. e \in Event
  BY DEF PublishFiles, LoopTypeOK
<1>2. [kind |-> e.kind, cid |-> e.cid] \in Event
  BY <1>1 DEF Event
<1> QED
  BY <1>2, EmitKeepsType DEF PublishFiles, LoopTypeOK

LEMMA IdleKeepsType ==
  ASSUME LoopTypeOK, CliIdle
  PROVE  LoopTypeOK'
BY DEF LoopTypeOK, Loop, CliIdle

LEMMA EndKeepsType ==
  ASSUME LoopTypeOK, QueryEnds \/ SilentEnd \/ QueryThrows \/ StaleSession
  PROVE  LoopTypeOK'
<1>1. /\ loop.replyCid \in Cid \cup {None}
      /\ Finished(TRUE) \in Loop /\ Finished(FALSE) \in Loop
  BY FinishedTyped DEF LoopTypeOK, Loop
<1>2. /\ [kind |-> "empty", cid |-> loop.replyCid] \in Event
      /\ [kind |-> "error", cid |-> loop.replyCid] \in Event
      /\ [kind |-> "stale", cid |-> loop.replyCid] \in Event
  BY <1>1 DEF Event
<1>3. CASE QueryEnds
  BY <1>1, <1>3 DEF QueryEnds, LoopTypeOK
<1>4. CASE SilentEnd
  BY <1>1, <1>2, <1>4, EmitKeepsType DEF SilentEnd, LoopTypeOK
<1>5. CASE QueryThrows
  BY <1>1, <1>2, <1>5, EmitKeepsType DEF QueryThrows, LoopTypeOK
<1>6. CASE StaleSession
  BY <1>1, <1>2, <1>6, EmitKeepsType DEF StaleSession, LoopTypeOK
<1> QED
  BY <1>3, <1>4, <1>5, <1>6

LEMMA AbortKeepsType ==
  ASSUME LoopTypeOK, Abort
  PROVE  LoopTypeOK'
BY NewLoopTyped DEF LoopTypeOK, Abort, NoLoop, Resume

------------------------------------------------------------------------------
(* The worker session: its types, and one answer for each message *)

\* A sender's step and a subscriber's keep the types too.
LEMMA SessionKeepsType ==
  ASSUME SessionTypeOK, [SessionNext]_sessionVars
  PROVE  SessionTypeOK'
<1> USE DEF SessionTypeOK
<1>1. CountTold => told' \in [Cid -> Nat]
  BY DEF CountTold
<1>2. CASE \E c \in Cid : Receive(c)
  <2> PICK c \in Cid : Receive(c)
    BY <1>2
  <2> QED
    BY MessageKeepsType DEF Receive
<1>3. CASE ReadNext
  <2>1. CliRead(Head(loop.unread)) /\ UNCHANGED <<received, told, crashes>>
    BY <1>3 DEF ReadNext, Takes
  <2>2. reads' \in [Cid -> Nat]
    BY <1>3 DEF ReadNext, Takes
  <2> QED
    BY <2>1, <2>2, ReadKeepsType
<1>4. CASE Reply
  BY <1>1, <1>4, ResultKeepsType DEF Reply, Answer
<1>5. CASE \E e \in uploads : PublishResult(e)
  BY <1>1, <1>5, PublishKeepsType DEF PublishResult
<1>6. CASE Quiet
  BY <1>6, StartKeepsType, TasksKeepType, IdleKeepsType, EndKeepsType DEF Quiet
<1>7. CASE CrashStep
  BY <1>1, <1>7, EndKeepsType, AbortKeepsType DEF CrashStep
<1>8. CASE FailStale
  BY <1>8, EndKeepsType DEF FailStale
<1>9. CASE Consume
  <2>1. events \in Seq(Event) /\ events # <<>> /\ events' = Tail(events)
    BY <1>9 DEF Consume, LoopTypeOK
  <2>2. events' \in Seq(Event) /\ Len(events') <= Len(events)
    BY <2>1
  <2>3. Len(events) \in Nat /\ Len(events') \in Nat
    BY <2>1, <2>2
  <2> QED
    BY <1>9, <2>2, <2>3, EventsAssumption DEF Consume, LoopTypeOK
<1>10. CASE UNCHANGED sessionVars
  BY <1>10 DEF sessionVars, LoopTypeOK
<1> QED
  BY <1>2, <1>3, <1>4, <1>5, <1>6, <1>7, <1>8, <1>9, <1>10 DEF SessionNext

LEMMA SessionStartsTyped ==
  ASSUME SessionInit
  PROVE  SessionTypeOK
<1>1. loop \in Loop
  BY NewLoopTyped DEF SessionInit
<1>2. events \in Seq(Event) /\ Len(events) <= MaxEvents + 1
  BY EventsAssumption DEF SessionInit
<1> QED
  BY <1>1, <1>2 DEF SessionInit, SessionTypeOK, LoopTypeOK

\* The worker's session keeps its types, for every set of messages and every
\* bound: the loop is one state machine, whoever sends and whoever listens.
THEOREM SessionTypes == SessionSpec => []SessionTypeOK
BY SessionStartsTyped, SessionKeepsType, PTL DEF SessionSpec

\* A message no result has named, nor will once its files have been read.
Unanswered(c) == told[c] = 0 /\ \A e \in uploads : e.cid # c

(* Where messages wait: for the next query, or pushed into the one that runs, *)
(* each in one item only. *)
Places ==
  /\ loop.running => loop.pending = {}
  /\ ~loop.running => loop.unread = <<>>
  /\ \A i \in DOMAIN loop.unread : loop.unread[i] # {}
  /\ \A i, j \in DOMAIN loop.unread : i # j => loop.unread[i] \cap loop.unread[j] = {}

Known ==
  /\ loop.pending \cup Unread \cup loop.afterReply \subseteq received
  /\ \A c \in Cid \ received : reads[c] = 0 /\ Unanswered(c)

(* What came after the reply has been read or waits to be; between two turns *)
(* it is exactly what waits.                                                 *)
AfterReply ==
  /\ loop.running /\ loop.replied => loop.afterReply = {}
  /\ \A c \in loop.afterReply \ Unread : reads[c] > 0
  /\ loop.idle => Unread \subseteq loop.afterReply /\ ~loop.inTurn
  /\ loop.answered /\ ~loop.inTurn => loop.afterReply \subseteq Unread

(* Whatever a result may still name, none has named. *)
ToAnswer ==
  /\ loop.pending # {} => loop.current \in loop.pending
  /\ \A c \in loop.pending : Unanswered(c)
  /\ loop.running /\ ~loop.replied =>
       loop.replyCid \in received /\ Unanswered(loop.replyCid)
  /\ loop.running /\ ~loop.answered => ~loop.replied

Uploads ==
  \A e \in uploads : \/ e.kind = "result" /\ e.cid \in Cid /\ told[e.cid] = 0
                     \/ e.kind = "followup" /\ e.cid = None

SessionInv ==
  SessionTypeOK /\ Places /\ Known /\ AfterReply /\ ToAnswer /\ Uploads /\ AnsweredOnce

\* What the types say of the loop's fields.
LEMMA LoopFields ==
  ASSUME LoopTypeOK
  PROVE  /\ loop \in Loop
         /\ loop.pending \subseteq Cid /\ loop.afterReply \subseteq Cid
         /\ loop.current \in Cid \cup {None} /\ loop.replyCid \in Cid \cup {None}
         /\ loop.unread \in Seq(SUBSET Cid) /\ Unread \subseteq Cid
         /\ {loop.running, loop.replied, loop.answered, loop.inTurn, loop.idle,
             loop.tasks} \subseteq BOOLEAN
         /\ loop.sid \in Session \cup {None} /\ loop.resume \in Resume
         /\ events \in Seq(Event)
BY DEF LoopTypeOK, Loop, Unread

LEMMA QueryingFields ==
  ASSUME NEW p, NEW c, loop' = Querying(p, c)
  PROVE  /\ loop'.running /\ loop'.pending = {} /\ loop'.unread = <<p>> /\ Unread' = p
         /\ loop'.current = c /\ loop'.replyCid = c /\ ~loop'.replied /\ loop'.afterReply = {}
         /\ ~loop'.answered /\ ~loop'.inTurn /\ ~loop'.idle
         /\ loop'.sid = loop.sid /\ loop'.resume = loop.resume
<1>1. /\ loop'.running /\ loop'.pending = {} /\ loop'.unread = <<p>>
      /\ loop'.current = c /\ loop'.replyCid = c /\ ~loop'.replied /\ loop'.afterReply = {}
      /\ ~loop'.answered /\ ~loop'.inTurn /\ ~loop'.idle
      /\ loop'.sid = loop.sid /\ loop'.resume = loop.resume
  BY DEF Querying, NewLoop
<1>2. DOMAIN loop'.unread = {1} /\ loop'.unread[1] = p
  BY <1>1
<1> QED
  BY <1>1, <1>2 DEF Unread

LEMMA WaitingFields ==
  ASSUME loop' = Waiting
  PROVE  /\ ~loop'.running /\ loop'.pending = loop.pending /\ loop'.unread = <<>> /\ Unread' = {}
         /\ loop'.current = loop.current /\ loop'.replyCid = loop.replyCid
         /\ loop'.replied /\ loop'.afterReply = {}
         /\ ~loop'.answered /\ ~loop'.inTurn /\ ~loop'.idle
         /\ loop'.sid = loop.sid /\ loop'.resume = loop.resume
<1>1. /\ ~loop'.running /\ loop'.pending = loop.pending /\ loop'.unread = <<>>
      /\ loop'.current = loop.current /\ loop'.replyCid = loop.replyCid
      /\ loop'.replied /\ loop'.afterReply = {}
      /\ ~loop'.answered /\ ~loop'.inTurn /\ ~loop'.idle
      /\ loop'.sid = loop.sid /\ loop'.resume = loop.resume
  BY DEF Waiting, NewLoop
<1>2. DOMAIN loop'.unread = {}
  BY <1>1
<1> QED
  BY <1>1, <1>2 DEF Unread

LEMMA NoLoopFields ==
  ASSUME NEW s, NEW r, loop' = NewLoop(s, r)
  PROVE  /\ ~loop'.running /\ loop'.pending = {} /\ loop'.unread = <<>> /\ Unread' = {}
         /\ loop'.current = None /\ loop'.replyCid = None
         /\ loop'.replied /\ loop'.afterReply = {}
         /\ ~loop'.answered /\ ~loop'.inTurn /\ ~loop'.idle
         /\ loop'.sid = s /\ loop'.resume = r
<1>1. /\ ~loop'.running /\ loop'.pending = {} /\ loop'.unread = <<>>
      /\ loop'.current = None /\ loop'.replyCid = None
      /\ loop'.replied /\ loop'.afterReply = {}
      /\ ~loop'.answered /\ ~loop'.inTurn /\ ~loop'.idle
      /\ loop'.sid = s /\ loop'.resume = r
  BY DEF NewLoop
<1>2. DOMAIN loop'.unread = {}
  BY <1>1
<1> QED
  BY <1>1, <1>2 DEF Unread

\* What a step that publishes an event tells: its message, when it is a result.
LEMMA Tally ==
  ASSUME events \in Seq(Event), NEW kind, NEW c, [kind |-> kind, cid |-> c] \in Event,
         Emit(kind, c), CountTold
  PROVE  told' = [d \in Cid |-> IF d = c /\ kind \in {"result", "empty"} THEN told[d] + 1
                                                                        ELSE told[d]]
<1>1. /\ Len(events') = Len(events) + 1 /\ Len(events) \in Nat
      /\ events'[Len(events) + 1] = [kind |-> kind, cid |-> c]
  BY DEF Emit
<1>2. (Len(events) + 1)..Len(events') = {Len(events) + 1}
  BY <1>1
<1>3. ASSUME NEW d \in Cid
      PROVE  Naming(d) # {} <=> d = c /\ kind \in {"result", "empty"}
  BY <1>1, <1>2 DEF Naming
<1> QED
  BY <1>3 DEF CountTold

LEMMA NothingTold ==
  ASSUME told \in [Cid -> Nat], events \in Seq(Event), events' = events, CountTold
  PROVE  told' = told
<1>1. (Len(events) + 1)..Len(events') = {}
  BY LenProperties
<1>2. ASSUME NEW d \in Cid
      PROVE  Naming(d) = {}
  BY <1>1 DEF Naming
<1> QED
  BY <1>2 DEF CountTold

\* A pushed message waits after the others, in an item of its own.
LEMMA PushedFields ==
  ASSUME loop.unread \in Seq(SUBSET Cid), NEW c, loop'.unread = Pushed(c)
  PROVE  /\ DOMAIN loop'.unread = 1..Len(loop.unread) + 1 /\ Len(loop.unread) \in Nat
         /\ loop'.unread[Len(loop.unread) + 1] = {c}
         /\ \A i \in DOMAIN loop.unread : loop'.unread[i] = loop.unread[i]
         /\ DOMAIN loop.unread = 1..Len(loop.unread)
         /\ Unread' = Unread \cup {c}
<1>1. /\ DOMAIN loop'.unread = 1..Len(loop.unread) + 1 /\ Len(loop.unread) \in Nat
      /\ loop'.unread[Len(loop.unread) + 1] = {c}
      /\ \A i \in DOMAIN loop.unread : loop'.unread[i] = loop.unread[i]
      /\ DOMAIN loop.unread = 1..Len(loop.unread)
  BY DEF Pushed
<1>2. DOMAIN loop'.unread = DOMAIN loop.unread \cup {Len(loop.unread) + 1}
  BY <1>1
<1> QED
  BY <1>1, <1>2 DEF Unread

LEMMA ReceiveKeepsSession ==
  ASSUME SessionInv, NEW c \in Cid, Receive(c)
  PROVE  SessionInv'
<1>1. /\ SessionTypeOK' /\ LoopTypeOK /\ c \notin received /\ MessageHandler(c)
      /\ received' = received \cup {c} /\ reads' = reads /\ told' = told
      /\ uploads' = uploads
  BY SessionKeepsType DEF SessionInv, SessionTypeOK, Receive, SessionNext, MessageHandler
<1>2. Unanswered(c) /\ reads[c] = 0 /\ c \notin loop.pending \cup Unread \cup loop.afterReply
  BY <1>1 DEF SessionInv, Known
<1>3. Uploads' /\ AnsweredOnce'
  BY <1>1 DEF SessionInv, Uploads, AnsweredOnce
<1>4. \A d : Unanswered(d)' <=> Unanswered(d)
  BY <1>1 DEF Unanswered
<1>5. CASE ~loop.running
  <2>1. loop' = [loop EXCEPT !.current = c, !.pending = @ \cup {c}]
    BY <1>1, <1>5 DEF MessageHandler
  <2>2. /\ loop'.current = c /\ loop'.pending = loop.pending \cup {c}
        /\ loop'.unread = loop.unread /\ Unread' = Unread /\ ~loop'.running
        /\ loop'.afterReply = loop.afterReply /\ loop'.answered = loop.answered
        /\ loop'.inTurn = loop.inTurn /\ loop'.idle = loop.idle
    BY <1>1, <1>5, <2>1, LoopFields DEF Loop, Unread
  <2> QED
    BY <1>1, <1>2, <1>3, <1>4, <1>5, <2>2
       DEF SessionInv, Places, Known, AfterReply, ToAnswer
<1>6. CASE loop.running
  <2>1. /\ loop'.current = c /\ loop'.unread = Pushed(c) /\ loop'.running
        /\ loop'.pending = loop.pending /\ ~loop'.replied /\ loop'.answered = loop.answered
        /\ loop'.inTurn = loop.inTurn /\ loop'.idle = loop.idle
        /\ loop.replied => loop'.replyCid = c /\ loop'.afterReply = {c}
        /\ ~loop.replied => /\ loop'.replyCid = loop.replyCid
                            /\ loop'.afterReply = loop.afterReply \cup {c}
    BY <1>1, <1>6, LoopFields DEF Loop, MessageHandler
  <2>2. loop'.afterReply = loop.afterReply \cup {c}
    BY <1>6, <2>1 DEF SessionInv, AfterReply
  <2>3. /\ DOMAIN loop'.unread = 1..Len(loop.unread) + 1 /\ Len(loop.unread) \in Nat
        /\ loop'.unread[Len(loop.unread) + 1] = {c}
        /\ \A i \in DOMAIN loop.unread : loop'.unread[i] = loop.unread[i]
        /\ DOMAIN loop.unread = 1..Len(loop.unread)
        /\ Unread' = Unread \cup {c}
    BY <1>1, <2>1, LoopFields, PushedFields
  <2>4. \A i \in DOMAIN loop.unread : c \notin loop.unread[i]
    BY <1>2 DEF Unread
  <2>5. Places'
    <3>1. ASSUME NEW i \in DOMAIN loop'.unread
          PROVE  \/ i \in DOMAIN loop.unread /\ loop'.unread[i] = loop.unread[i]
                 \/ i = Len(loop.unread) + 1 /\ loop'.unread[i] = {c}
      BY <2>3
    <3> QED
      BY <1>6, <2>1, <2>4, <3>1 DEF SessionInv, Places
  <2>6. Known' /\ AfterReply'
    BY <1>1, <1>2, <1>4, <2>1, <2>2, <2>3 DEF SessionInv, Known, AfterReply
  <2>7. ToAnswer'
    BY <1>1, <1>2, <1>4, <1>6, <2>1 DEF SessionInv, Places, ToAnswer
  <2> QED
    BY <1>1, <1>3, <2>5, <2>6, <2>7 DEF SessionInv
<1> QED
  BY <1>1, <1>5, <1>6, LoopFields

\* The item that is taken leaves the queue.
LEMMA TakenFields ==
  ASSUME loop.unread \in Seq(SUBSET Cid), loop.unread # <<>>, loop'.unread = Taken, Places
  PROVE  /\ \A i \in DOMAIN loop'.unread :
              i + 1 \in DOMAIN loop.unread /\ loop'.unread[i] = loop.unread[i + 1]
         /\ Unread' = Unread \ Head(loop.unread)
         /\ Head(loop.unread) \subseteq Unread /\ Head(loop.unread) # {}
         /\ \A i, j \in DOMAIN loop'.unread : i # j <=> i + 1 # j + 1
<1>1. /\ Len(loop.unread) \in Nat \ {0} /\ DOMAIN loop.unread = 1..Len(loop.unread)
      /\ Len(loop'.unread) = Len(loop.unread) - 1
      /\ DOMAIN loop'.unread = 1..Len(loop.unread) - 1
      /\ \A i \in 1..Len(loop.unread) - 1 : loop'.unread[i] = loop.unread[i + 1]
      /\ Head(loop.unread) = loop.unread[1]
  BY DEF Taken
<1>2. \A i \in DOMAIN loop.unread : i # 1 => i - 1 \in DOMAIN loop'.unread
                                             /\ loop'.unread[i - 1] = loop.unread[i]
  BY <1>1
<1>3. \A i \in DOMAIN loop'.unread :
              i + 1 \in DOMAIN loop.unread /\ loop'.unread[i] = loop.unread[i + 1]
              /\ i + 1 # 1
  BY <1>1
<1>4. 1 \in DOMAIN loop.unread
  BY <1>1
<1>5. Unread' \subseteq Unread \ Head(loop.unread)
  <2>1. ASSUME NEW c \in Unread'
        PROVE  c \in Unread /\ c \notin loop.unread[1]
    <3>1. PICK i \in DOMAIN loop'.unread : c \in loop'.unread[i]
      BY DEF Unread
    <3>2. i + 1 \in DOMAIN loop.unread /\ c \in loop.unread[i + 1] /\ i + 1 # 1
      BY <1>3, <3>1
    <3>3. loop.unread[i + 1] \cap loop.unread[1] = {}
      BY <1>4, <3>2 DEF Places
    <3> QED
      BY <3>2, <3>3 DEF Unread
  <2> QED
    BY <1>1, <2>1
<1>6. Unread \ Head(loop.unread) \subseteq Unread'
  BY <1>1, <1>2 DEF Unread
<1>7. Head(loop.unread) \subseteq Unread /\ Head(loop.unread) # {}
  BY <1>1, <1>4 DEF Unread, Places
<1>8. \A i, j \in DOMAIN loop'.unread : i # j <=> i + 1 # j + 1
  BY <1>1
<1> QED
  BY <1>3, <1>5, <1>6, <1>7, <1>8

LEMMA ReadKeepsSession ==
  ASSUME SessionInv, ReadNext
  PROVE  SessionInv'
<1> DEFINE item == Head(loop.unread)
<1>1. /\ SessionTypeOK' /\ LoopTypeOK /\ CliRead(item) /\ loop.unread # <<>>
      /\ received' = received /\ told' = told /\ uploads' = uploads
      /\ reads' = [c \in Cid |-> IF c \in item THEN reads[c] + 1 ELSE reads[c]]
      /\ reads \in [Cid -> Nat]
  BY SessionKeepsType DEF SessionInv, SessionTypeOK, ReadNext, Takes, SessionNext, CliRead
<1>2. /\ loop'.unread = Taken /\ loop'.inTurn /\ ~loop'.idle /\ loop.running /\ loop'.running
      /\ loop'.pending = loop.pending /\ loop'.current = loop.current
      /\ loop'.replied = loop.replied /\ loop'.replyCid = loop.replyCid
      /\ loop'.afterReply = loop.afterReply /\ loop'.answered = loop.answered
  BY <1>1, LoopFields DEF Loop, CliRead
<1>3. /\ \A i \in DOMAIN loop'.unread :
              i + 1 \in DOMAIN loop.unread /\ loop'.unread[i] = loop.unread[i + 1]
      /\ Unread' = Unread \ item /\ item \subseteq Unread /\ item # {}
      /\ \A i, j \in DOMAIN loop'.unread : i # j <=> i + 1 # j + 1
  BY <1>1, <1>2, LoopFields, TakenFields DEF SessionInv
<1>4. \A d : Unanswered(d)' <=> Unanswered(d)
  BY <1>1 DEF Unanswered
<1> HIDE DEF item
<1>5. Places'
  BY <1>2, <1>3 DEF SessionInv, Places
<1>6. Known'
  BY <1>1, <1>2, <1>3, <1>4 DEF SessionInv, Known
<1>7. AfterReply'
  <2>1. ASSUME NEW c \in loop'.afterReply \ Unread'
        PROVE  reads'[c] > 0
    <3>1. c \in Cid /\ (c \in item \/ reads[c] > 0) /\ reads[c] \in Nat
      BY <1>1, <1>2, <1>3, LoopFields DEF SessionInv, AfterReply
    <3> QED
      BY <1>1, <3>1
  <2> QED
    BY <1>2, <2>1 DEF SessionInv, AfterReply
<1>8. ToAnswer' /\ Uploads' /\ AnsweredOnce'
  BY <1>1, <1>2, <1>4 DEF SessionInv, ToAnswer, Uploads, AnsweredOnce
<1> QED
  BY <1>1, <1>5, <1>6, <1>7, <1>8 DEF SessionInv

\* A result names the message it answers, at once or when its files are read.
LEMMA ReplyKeepsSession ==
  ASSUME SessionInv, Reply
  PROVE  SessionInv'
<1> DEFINE e == ResultEvent
<1>1. /\ SessionTypeOK' /\ LoopTypeOK /\ Result(e) /\ CountTold
      /\ received' = received /\ reads' = reads /\ told \in [Cid -> Nat]
  BY SessionKeepsType DEF SessionInv, SessionTypeOK, Reply, Answer, SessionNext
<1>2. /\ loop.running /\ loop'.running /\ loop'.replied /\ loop'.answered
      /\ ~loop'.inTurn /\ loop'.afterReply = {} /\ loop'.unread = loop.unread
      /\ Unread' = Unread /\ loop'.idle = loop.idle /\ ~loop.idle
      /\ loop'.pending = loop.pending /\ loop.pending = {}
  BY <1>1, LoopFields DEF Loop, Result, Unread, SessionInv, Places, AfterReply
<1>3. /\ e = [kind |-> e.kind, cid |-> e.cid] /\ e \in Event
      /\ \/ e.kind = "followup" /\ e.cid = None
         \/ e.kind = "result" /\ e.cid = loop.replyCid /\ ~loop.replied
  BY <1>1, LoopFields DEF ResultEvent, Event
<1>4. e.kind = "result" => e.cid \in received /\ e.cid \in Cid /\ Unanswered(e.cid)
  BY <1>2, <1>3 DEF SessionInv, ToAnswer, SessionTypeOK
<1> HIDE DEF e
<1>5. CASE Emit(e.kind, e.cid) /\ uploads' = uploads
  <2>1. told' = [d \in Cid |-> IF d = e.cid /\ e.kind \in {"result", "empty"}
                                 THEN told[d] + 1 ELSE told[d]]
    BY <1>1, <1>3, <1>5, LoopFields, Tally
  <2>2. ASSUME NEW d \in Cid
        PROVE  \/ told'[d] = told[d]
               \/ told'[d] = 1 /\ told[d] = 0 /\ d = e.cid /\ e.kind = "result"
    BY <1>3, <1>4, <2>1 DEF Unanswered
  <2>3. Places' /\ AfterReply' /\ ToAnswer'
    BY <1>1, <1>2 DEF SessionInv, Places, AfterReply, ToAnswer
  <2>4. Known'
    BY <1>1, <1>2, <1>4, <1>5, <2>2 DEF SessionInv, Known, Unanswered
  <2>5. Uploads'
    BY <1>4, <1>5, <2>2 DEF SessionInv, Uploads, Unanswered
  <2>6. AnsweredOnce'
    BY <2>2 DEF SessionInv, AnsweredOnce
  <2> QED
    BY <1>1, <2>3, <2>4, <2>5, <2>6 DEF SessionInv
<1>6. CASE uploads' = uploads \cup {e} /\ events' = events
  <2>1. told' = told
    BY <1>1, <1>6, LoopFields, NothingTold
  <2>2. Places' /\ AfterReply' /\ ToAnswer'
    BY <1>1, <1>2 DEF SessionInv, Places, AfterReply, ToAnswer
  <2>3. Known'
    BY <1>1, <1>2, <1>3, <1>4, <1>6, <2>1, NoneAssumption DEF SessionInv, Known, Unanswered
  <2>4. Uploads' /\ AnsweredOnce'
    BY <1>3, <1>4, <1>6, <2>1 DEF SessionInv, Uploads, AnsweredOnce, Unanswered
  <2> QED
    BY <1>1, <2>2, <2>3, <2>4 DEF SessionInv
<1> QED
  BY <1>1, <1>5, <1>6 DEF Result

LEMMA PublishKeepsSession ==
  ASSUME SessionInv, NEW e \in uploads, PublishResult(e)
  PROVE  SessionInv'
<1>1. /\ SessionTypeOK' /\ LoopTypeOK /\ CountTold /\ Emit(e.kind, e.cid)
      /\ uploads' = uploads \ {e} /\ loop' = loop
      /\ received' = received /\ reads' = reads /\ told \in [Cid -> Nat]
      /\ uploads \subseteq Event
  BY SessionKeepsType
     DEF SessionInv, SessionTypeOK, LoopTypeOK, PublishResult, PublishFiles, SessionNext
<1>2. e = [kind |-> e.kind, cid |-> e.cid] /\ e \in Event
  BY <1>1 DEF Event
<1>3. told' = [d \in Cid |-> IF d = e.cid /\ e.kind \in {"result", "empty"}
                               THEN told[d] + 1 ELSE told[d]]
  BY <1>1, <1>2, LoopFields, Tally
<1>4. \/ e.kind = "result" /\ e.cid \in Cid /\ told[e.cid] = 0
      \/ e.kind = "followup" /\ e.cid = None
  BY DEF SessionInv, Uploads
<1>5. ASSUME NEW d \in Cid
      PROVE  \/ told'[d] = told[d]
             \/ told'[d] = 1 /\ told[d] = 0 /\ d = e.cid /\ e.kind = "result"
  BY <1>3, <1>4
<1>6. \A d \in Cid : Unanswered(d) => Unanswered(d)'
  BY <1>1, <1>5 DEF Unanswered
<1>7. Unread' = Unread /\ received \subseteq Cid /\ loop.pending \subseteq Cid
  BY <1>1, LoopFields DEF Unread, SessionInv, SessionTypeOK
<1>8. Places' /\ Known' /\ AfterReply' /\ ToAnswer'
  BY <1>1, <1>6, <1>7 DEF SessionInv, Places, Known, AfterReply, ToAnswer
<1>9. \A f \in uploads' : f.kind = "result" => f.cid # e.cid \/ e.kind = "followup"
  BY <1>1, <1>4 DEF Event
<1>10. Uploads'
  BY <1>1, <1>5, <1>9 DEF SessionInv, Uploads
<1>11. AnsweredOnce'
  BY <1>5 DEF SessionInv, AnsweredOnce
<1> QED
  BY <1>1, <1>8, <1>10, <1>11 DEF SessionInv

\* A query ends: what came after the reply is the next one's prompt, or no
\* query runs.
LEMMA FinishedFields ==
  ASSUME NEW failed, loop' = Finished(failed), Places, loop.running
  PROVE  \/ /\ loop'.running /\ loop'.unread = <<loop.afterReply>>
            /\ Unread' = loop.afterReply /\ loop.afterReply # {} /\ ~failed
            /\ loop'.pending = {} /\ loop'.current = loop.replyCid
            /\ loop'.replyCid = loop.replyCid /\ ~loop.replied /\ ~loop'.replied
            /\ loop'.afterReply = {} /\ ~loop'.answered /\ ~loop'.inTurn /\ ~loop'.idle
         \/ /\ ~loop'.running /\ loop'.unread = <<>> /\ Unread' = {}
            /\ failed \/ loop.replied \/ loop.afterReply = {}
            /\ loop'.pending = {} /\ loop'.afterReply = {}
            /\ ~loop'.answered /\ ~loop'.inTurn /\ ~loop'.idle
BY QueryingFields, WaitingFields DEF Finished, Places

LEMMA FinishedKeepsSession ==
  ASSUME SessionInv, NEW failed, loop' = Finished(failed), loop.running,
         received' = received, reads' = reads, uploads' = uploads,
         told' = told \/ failed
  PROVE  Places' /\ AfterReply' /\ ToAnswer' /\ (told' = told => Known')
<1>1. Places' /\ AfterReply'
  BY FinishedFields DEF SessionInv, Places, AfterReply
<1>2. ToAnswer'
  BY FinishedFields DEF SessionInv, ToAnswer, Unanswered
<1>3. told' = told => Known'
  BY FinishedFields DEF SessionInv, Known, Unanswered
<1> QED
  BY <1>1, <1>2, <1>3

LEMMA QuietKeepsSession ==
  ASSUME SessionInv, Quiet
  PROVE  SessionInv'
<1>1. /\ SessionTypeOK' /\ LoopTypeOK /\ uploads' = uploads
      /\ received' = received /\ reads' = reads /\ told' = told
  BY SessionKeepsType
     DEF SessionInv, SessionTypeOK, Quiet, SessionNext, StartQuery, TaskStarts, TaskEnds,
         CliIdle, QueryEnds
<1>2. Uploads' /\ AnsweredOnce'
  BY <1>1 DEF SessionInv, Uploads, AnsweredOnce
<1>3. \A d : Unanswered(d)' <=> Unanswered(d)
  BY <1>1 DEF Unanswered
<1>4. CASE StartQuery
  <2>1. loop' = Querying(loop.pending, loop.current) /\ ~loop.running /\ loop.pending # {}
    BY <1>4 DEF StartQuery
  <2>2. loop.current \in loop.pending /\ loop.pending \subseteq received
    BY <2>1 DEF SessionInv, ToAnswer, Known
  <2>3. Places' /\ AfterReply' /\ ToAnswer' /\ Known'
    BY <1>1, <1>3, <2>1, <2>2, QueryingFields
       DEF SessionInv, Places, AfterReply, ToAnswer, Known
  <2> QED
    BY <1>1, <1>2, <2>3 DEF SessionInv
<1>5. CASE TaskStarts \/ TaskEnds \/ CliIdle
  <2> DEFINE Kept == /\ loop'.running = loop.running /\ loop'.pending = loop.pending
        /\ loop'.unread = loop.unread
        /\ loop'.afterReply = loop.afterReply /\ loop'.replied = loop.replied
        /\ loop'.replyCid = loop.replyCid /\ loop'.current = loop.current
        /\ loop'.answered = loop.answered
  <2>0. Kept
    <3>1. \/ loop' = [loop EXCEPT !.tasks = TRUE, !.idle = FALSE]
          \/ loop' = [loop EXCEPT !.tasks = FALSE, !.inTurn = TRUE, !.idle = FALSE]
          \/ loop' = [loop EXCEPT !.idle = TRUE]
      BY <1>5 DEF TaskStarts, TaskEnds, CliIdle
    <3> QED
      BY <1>1, <3>1, LoopFields DEF Loop
  <2>1. Kept /\ Unread' = Unread
    BY <2>0 DEF Unread
  <2>2. \/ ~loop'.idle /\ loop'.inTurn
        \/ loop'.idle /\ ~loop'.inTurn /\ loop.unread = <<>> /\ loop.answered /\ ~loop.inTurn
    BY <1>1, <1>5, LoopFields DEF Loop, Unread, TaskStarts, TaskEnds, CliIdle
  <2>3. loop.unread = <<>> => Unread = {}
    BY DEF Unread
  <2>4. Places' /\ AfterReply' /\ ToAnswer' /\ Known'
    BY <1>1, <1>3, <2>1, <2>2, <2>3 DEF SessionInv, Places, AfterReply, ToAnswer, Known
  <2> QED
    BY <1>1, <1>2, <2>4 DEF SessionInv
<1>6. CASE QueryEnds
  BY <1>1, <1>2, <1>6, FinishedKeepsSession DEF QueryEnds, WaitOver, SessionInv
<1> QED
  BY <1>4, <1>5, <1>6 DEF Quiet

LEMMA CrashKeepsSession ==
  ASSUME SessionInv, CrashStep \/ FailStale
  PROVE  SessionInv'
<1>1. /\ SessionTypeOK' /\ LoopTypeOK /\ uploads' = uploads /\ told \in [Cid -> Nat]
      /\ received' = received /\ reads' = reads
  BY SessionKeepsType
     DEF SessionInv, SessionTypeOK, CrashStep, FailStale, SessionNext, SilentEnd, QueryThrows,
         StaleSession, Abort
<1>2. told' = told => Uploads' /\ AnsweredOnce'
  BY <1>1 DEF SessionInv, Uploads, AnsweredOnce
<1>3. CASE CrashStep /\ Abort
  <2>1. told' = told
    BY <1>1, <1>3, LoopFields, NothingTold DEF CrashStep, Abort
  <2>2. Places' /\ AfterReply' /\ ToAnswer' /\ Known'
    BY <1>1, <1>3, <2>1, NoLoopFields
       DEF Abort, NoLoop, SessionInv, Places, AfterReply, ToAnswer, Known, Unanswered
  <2> QED
    BY <1>1, <1>2, <2>1, <2>2 DEF SessionInv
<1>4. CASE CrashStep /\ SilentEnd /\ loop.answered
  <2>1. told' = told
    BY <1>1, <1>4, LoopFields, NothingTold DEF CrashStep, SilentEnd
  <2> QED
    BY <1>1, <1>2, <1>4, <2>1, FinishedKeepsSession DEF SilentEnd, SessionInv
<1>5. CASE CrashStep /\ SilentEnd /\ ~loop.answered
  <2> DEFINE c == loop.replyCid
  <2>1. /\ loop.running /\ ~loop.replied /\ loop' = Finished(TRUE) /\ Emit("empty", c)
        /\ c \in received /\ c \in Cid /\ Unanswered(c)
    BY <1>5 DEF SilentEnd, SessionInv, ToAnswer, SessionTypeOK
  <2>2. [kind |-> "empty", cid |-> c] \in Event
    BY <2>1 DEF Event
  <2>3. told' = [d \in Cid |-> IF d = c THEN told[d] + 1 ELSE told[d]]
    BY <1>1, <1>5, <2>1, <2>2, LoopFields, Tally DEF CrashStep
  <2>4. \A d \in Cid : IF d = c THEN told[d] = 0 /\ told'[d] = 1 ELSE told'[d] = told[d]
    BY <2>1, <2>3 DEF Unanswered
  <2> HIDE DEF c
  <2>5. Places' /\ AfterReply' /\ ToAnswer'
    BY <1>1, <2>1, FinishedKeepsSession
  <2>6. Known'
    BY <1>1, <2>1, <2>4, FinishedFields DEF SessionInv, Known, Unanswered
  <2>7. Uploads' /\ AnsweredOnce'
    BY <1>1, <2>1, <2>4 DEF SessionInv, Uploads, AnsweredOnce, Unanswered
  <2> QED
    BY <1>1, <2>5, <2>6, <2>7 DEF SessionInv
<1>6. CASE CrashStep /\ QueryThrows
  <2>1. [kind |-> "error", cid |-> loop.replyCid] \in Event
    BY <1>1, LoopFields DEF Event
  <2>2. told' = [d \in Cid |-> told[d]]
    BY <1>1, <1>6, <2>1, LoopFields, Tally DEF CrashStep, QueryThrows
  <2>3. told' = told
    BY <1>1, <2>2
  <2> QED
    BY <1>1, <1>2, <1>6, <2>3, FinishedKeepsSession DEF QueryThrows, SessionInv
<1>7. CASE FailStale
  BY <1>1, <1>2, <1>7, FinishedKeepsSession DEF FailStale, StaleSession, SessionInv
<1> QED
  BY <1>3, <1>4, <1>5, <1>6, <1>7 DEF CrashStep

LEMMA SessionInductive ==
  ASSUME SessionInv, [SessionNext]_sessionVars
  PROVE  SessionInv'
<1>1. CASE Consume \/ UNCHANGED sessionVars
  <2>1. /\ SessionTypeOK' /\ loop' = loop /\ uploads' = uploads /\ received' = received
        /\ reads' = reads /\ told' = told
    BY <1>1, SessionKeepsType DEF SessionInv, Consume, sessionVars
  <2> QED
    BY <2>1 DEF SessionInv, Places, Known, AfterReply, ToAnswer, Uploads, AnsweredOnce,
                Unanswered, Unread
<1> QED
  BY <1>1, ReceiveKeepsSession, ReadKeepsSession, ReplyKeepsSession, PublishKeepsSession,
     QuietKeepsSession, CrashKeepsSession DEF SessionNext

LEMMA SessionStarts ==
  ASSUME SessionInit
  PROVE  SessionInv
<1>1. PICK s \in Session, r \in Resume : loop = NewLoop(s, r)
  BY DEF SessionInit
<1>2. /\ ~loop.running /\ loop.pending = {} /\ loop.unread = <<>>
      /\ loop.replied /\ loop.afterReply = {}
      /\ ~loop.answered /\ ~loop.inTurn /\ ~loop.idle
  BY <1>1 DEF NewLoop
<1>3. DOMAIN loop.unread = {} /\ Unread = {}
  BY <1>2 DEF Unread
<1> QED
  BY <1>2, <1>3, SessionStartsTyped
     DEF SessionInit, SessionInv, Places, Known, AfterReply, ToAnswer, Uploads, AnsweredOnce,
         Unanswered

\* A message gets one result at most, however often its query is begun again,
\* whenever its files have been read, and however often the CLI dies.
THEOREM EachAnsweredOnce == SessionSpec => []AnsweredOnce
<1>1. SessionInv => AnsweredOnce
  BY DEF SessionInv
<1> QED
  BY <1>1, SessionStarts, SessionInductive, PTL DEF SessionSpec

------------------------------------------------------------------------------
(* The loop keeps the steps of MessageFeed *)

\* Where the feed sees a message.
StatusFacts ==
  /\ Status \in [Cid -> {"away", "queued", "read", "lost"}]
  /\ \A c \in Cid :
       /\ Status[c] = "queued" <=> c \in loop.pending \cup Unread
       /\ Status[c] = "read" <=> c \notin loop.pending \cup Unread /\ reads[c] > 0
       /\ Status[c] = "lost" <=> c \notin loop.pending \cup Unread /\ reads[c] = 0
                                 /\ c \in received
       /\ Status[c] = "away" <=> c \notin loop.pending \cup Unread /\ reads[c] = 0
                                 /\ c \notin received

LEMMA StatusOf == SessionTypeOK => StatusFacts
<1> SUFFICES ASSUME SessionTypeOK PROVE StatusFacts
  OBVIOUS
<1> DEFINE S(c) == IF c \in loop.pending \cup Unread THEN "queued"
                   ELSE IF reads[c] > 0 THEN "read"
                   ELSE IF c \in received THEN "lost" ELSE "away"
<1>1. \A c \in Cid : reads[c] \in Nat
  BY DEF SessionTypeOK
<1>2. ASSUME NEW c \in Cid
      PROVE  Status[c] = S(c)
  <2>1. CASE c \in loop.pending \cup Unread
    BY <2>1 DEF Status
  <2>2. CASE c \notin loop.pending \cup Unread /\ reads[c] > 0
    BY <2>2 DEF Status
  <2>3. CASE c \notin loop.pending \cup Unread /\ reads[c] = 0
    BY <2>3 DEF Status
  <2> QED
    BY <1>1, <2>1, <2>2, <2>3
<1>3. Status = [c \in Cid |-> S(c)]
  <2> DEFINE F(c) == CASE c \in loop.pending \cup Unread -> "queued"
       [] c \notin loop.pending \cup Unread /\ reads[c] > 0 -> "read"
       [] c \notin loop.pending \cup Unread /\ reads[c] = 0 ->
            IF c \in received THEN "lost" ELSE "away"
  <2>1. Status = [c \in Cid |-> F(c)]
    BY DEF Status
  <2> HIDE DEF F, S
  <2>2. \A c \in Cid : F(c) = S(c)
    BY <1>2, <2>1
  <2> QED
    BY <2>1, <2>2
<1> QED
  BY <1>1, <1>2, <1>3 DEF StatusFacts

LEMMA StatusOfNext == SessionTypeOK' => StatusFacts'
BY StatusOf, PTL

LEMMA StatusStays ==
  ASSUME SessionTypeOK, SessionTypeOK', reads' = reads, received' = received,
         loop'.pending \cup Unread' = loop.pending \cup Unread
  PROVE  Status' = Status
<1>1. ASSUME NEW c \in Cid
      PROVE  Status'[c] = Status[c]
  <2>1. (c \in loop'.pending \cup Unread') <=> (c \in loop.pending \cup Unread)
    OBVIOUS
  <2> QED
    BY <2>1, StatusOf, StatusOfNext DEF StatusFacts, SessionTypeOK
<1> QED
  BY <1>1, StatusOf, StatusOfNext DEF StatusFacts

LEMMA ReceiveKeepsFeed ==
  ASSUME SessionInv, SessionInv', NEW c \in Cid, Receive(c)
  PROVE  Feed!Arrive(c)
<1>1. /\ LoopTypeOK /\ SessionTypeOK /\ SessionTypeOK' /\ c \notin received
      /\ MessageHandler(c) /\ received' = received \cup {c} /\ reads' = reads
      /\ crashes' = crashes
  BY DEF SessionInv, SessionTypeOK, Receive
<1>2. loop'.pending \cup Unread' = loop.pending \cup Unread \cup {c}
  <2>1. CASE ~loop.running
    BY <1>1, <2>1, LoopFields DEF Loop, MessageHandler, Unread
  <2>2. CASE loop.running
    <3>1. loop'.unread = Pushed(c) /\ loop'.pending = loop.pending
      BY <1>1, <2>2, LoopFields DEF Loop, MessageHandler
    <3> QED
      BY <1>1, <3>1, LoopFields, PushedFields
  <2> QED
    BY <2>1, <2>2
<1>3. c \notin loop.pending \cup Unread /\ reads[c] = 0
  BY <1>1 DEF SessionInv, Known
<1>4. Status[c] = "away" /\ Status'[c] = "queued"
  BY <1>1, <1>2, <1>3, StatusOf, StatusOfNext DEF StatusFacts
<1>5. ASSUME NEW d \in Cid, d # c
      PROVE  Status'[d] = Status[d]
  BY <1>1, <1>2, <1>5, StatusOf, StatusOfNext DEF StatusFacts
<1>6. /\ Status \in [Cid -> {"away", "queued", "read", "lost"}]
      /\ Status' \in [Cid -> {"away", "queued", "read", "lost"}]
  BY <1>1, StatusOf, StatusOfNext DEF StatusFacts
<1>7. Status' = [Status EXCEPT ![c] = "queued"]
  BY <1>4, <1>5, <1>6
<1> QED
  BY <1>1, <1>4, <1>7 DEF Feed!Arrive

LEMMA ReadKeepsFeed ==
  ASSUME SessionInv, SessionInv', ReadNext
  PROVE  \E S \in SUBSET Cid : Feed!Read(S)
<1> DEFINE item == Head(loop.unread)
<1>1. /\ SessionTypeOK /\ SessionTypeOK' /\ LoopTypeOK /\ CliRead(item) /\ loop.unread # <<>>
      /\ received' = received /\ crashes' = crashes
      /\ reads' = [c \in Cid |-> IF c \in item THEN reads[c] + 1 ELSE reads[c]]
      /\ \A c \in Cid : reads[c] \in Nat
  BY DEF SessionInv, SessionTypeOK, ReadNext, Takes
<1>2. loop'.unread = Taken /\ loop'.pending = {} /\ loop.pending = {}
  BY <1>1, LoopFields DEF Loop, CliRead, SessionInv, Places
<1>3. Unread' = Unread \ item /\ item \subseteq Unread /\ item # {} /\ item \subseteq Cid
  BY <1>1, <1>2, LoopFields, TakenFields DEF SessionInv
<1> HIDE DEF item
<1>4. ASSUME NEW c \in item
      PROVE  Status[c] = "queued" /\ Status'[c] = "read"
  <2>1. reads'[c] > 0 /\ c \in Cid
    BY <1>1, <1>3
  <2> QED
    BY <1>1, <1>2, <1>3, <2>1, StatusOf, StatusOfNext DEF StatusFacts
<1>5. ASSUME NEW c \in Cid \ item
      PROVE  Status'[c] = Status[c]
  <2>1. reads'[c] = reads[c]
    BY <1>1
  <2> QED
    BY <1>1, <1>2, <1>3, <2>1, StatusOf, StatusOfNext DEF StatusFacts
<1>6. Status' = [c \in Cid |-> IF c \in item THEN "read" ELSE Status[c]]
  BY <1>1, <1>4, <1>5, StatusOf, StatusOfNext DEF StatusFacts
<1> QED
  BY <1>1, <1>3, <1>4, <1>6 DEF Feed!Read

\* A query that ends without a crash has read all it was given, but for what
\* the next one is given.
LEMMA QuietKeepsFeed ==
  ASSUME SessionInv, SessionInv', Quiet
  PROVE  Status' = Status /\ crashes' = crashes
<1>1. /\ SessionTypeOK /\ SessionTypeOK' /\ LoopTypeOK
      /\ reads' = reads /\ received' = received /\ crashes' = crashes
  BY DEF SessionInv, SessionTypeOK, Quiet
<1>2. CASE StartQuery
  <2>1. loop.unread = <<>> /\ loop' = Querying(loop.pending, loop.current)
    BY <1>2 DEF StartQuery, SessionInv, Places
  <2>2. Unread = {}
    BY <2>1 DEF Unread
  <2> QED
    BY <1>1, <2>1, <2>2, QueryingFields, StatusStays
<1>3. CASE TaskStarts \/ TaskEnds \/ CliIdle
  <2>1. \/ loop' = [loop EXCEPT !.tasks = TRUE, !.idle = FALSE]
        \/ loop' = [loop EXCEPT !.tasks = FALSE, !.inTurn = TRUE, !.idle = FALSE]
        \/ loop' = [loop EXCEPT !.idle = TRUE]
    BY <1>3 DEF TaskStarts, TaskEnds, CliIdle
  <2>2. loop'.pending = loop.pending /\ loop'.unread = loop.unread
    BY <1>1, <2>1, LoopFields DEF Loop
  <2> QED
    BY <1>1, <2>2, StatusStays DEF Unread
<1>4. CASE QueryEnds
  <2>1. /\ loop.running /\ loop.answered /\ ~loop.inTurn /\ loop' = Finished(FALSE)
        /\ loop.idle \/ Unread \subseteq loop.afterReply
    BY <1>4 DEF QueryEnds, WaitOver
  <2>2. Unread = loop.afterReply /\ loop.pending = {}
    BY <2>1 DEF SessionInv, AfterReply, Places
  <2>3. loop'.pending \cup Unread' = Unread
    BY <2>1, <2>2, FinishedFields DEF SessionInv, AfterReply
  <2> QED
    BY <1>1, <2>2, <2>3, StatusStays
<1> QED
  BY <1>1, <1>2, <1>3, <1>4 DEF Quiet

LEMMA CrashKeepsFeed ==
  ASSUME SessionInv, SessionInv', CrashStep \/ FailStale
  PROVE  Feed!Crash
<1>1. /\ SessionTypeOK /\ SessionTypeOK' /\ LoopTypeOK
      /\ received' = received /\ reads' = reads /\ crashes' = crashes + 1
      /\ \A c \in Cid : reads[c] \in Nat
  BY DEF SessionInv, SessionTypeOK, CrashStep, FailStale
<1>2. \/ loop' = NoLoop
      \/ loop.running /\ \E failed \in BOOLEAN : loop' = Finished(failed)
  BY DEF CrashStep, FailStale, SilentEnd, QueryThrows, StaleSession, Abort
<1>3. loop'.pending = {} /\ Unread' \in {{}, loop.afterReply}
  BY <1>2, NoLoopFields, FinishedFields DEF NoLoop, SessionInv
<1>4. loop.pending \cup Unread \cup loop.afterReply \subseteq received
  BY DEF SessionInv, Known
<1>5. \A c \in loop.afterReply \ Unread : reads[c] > 0
  BY DEF SessionInv, AfterReply
<1>6. ASSUME NEW c \in Cid
      PROVE  \/ Status'[c] = Status[c]
             \/ Status[c] = "queued" /\ Status'[c] \in {"lost", "read"}
             \/ Status[c] = "read" /\ Status'[c] = "queued"
  <2>1. /\ reads[c] \in Nat /\ reads'[c] = reads[c]
        /\ c \in Unread' => c \in loop.afterReply
        /\ c \in received' <=> c \in received
    BY <1>1, <1>3
  <2>2. CASE c \in loop.pending \cup Unread
    <3>1. Status[c] = "queued" /\ c \in received
      BY <1>1, <1>4, <2>2, StatusOf, StatusOfNext DEF StatusFacts
    <3>2. Status'[c] \in {"queued", "lost", "read"}
      BY <1>1, <2>1, <3>1, StatusOf, StatusOfNext DEF StatusFacts
    <3> QED
      BY <3>1, <3>2
  <2>3. CASE c \notin loop.pending \cup Unread /\ c \in Unread'
    <3>1. reads[c] > 0
      BY <1>5, <2>1, <2>3
    <3> QED
      BY <1>1, <2>3, <3>1, StatusOf, StatusOfNext DEF StatusFacts
  <2>4. CASE c \notin loop.pending \cup Unread /\ c \notin Unread'
    BY <1>1, <1>3, <2>1, <2>4, StatusOf, StatusOfNext DEF StatusFacts
  <2> QED
    BY <2>2, <2>3, <2>4
<1>7. Status' \in [Cid -> {"away", "queued", "read", "lost"}]
  BY <1>1, StatusOf, StatusOfNext DEF StatusFacts
<1> QED
  BY <1>1, <1>6, <1>7 DEF Feed!Crash

LEMMA StepKeepsFeed ==
  ASSUME SessionInv, SessionInv', [SessionNext]_sessionVars
  PROVE  [Feed!Next]_(Feed!feedVars)
<1>1. CASE \E c \in Cid : Receive(c)
  BY <1>1, ReceiveKeepsFeed DEF Feed!Next
<1>2. CASE ReadNext
  BY <1>2, ReadKeepsFeed DEF Feed!Next
<1>3. CASE Reply \/ \E e \in uploads : PublishResult(e)
  <2>1. /\ SessionTypeOK /\ SessionTypeOK' /\ LoopTypeOK
        /\ reads' = reads /\ received' = received /\ crashes' = crashes
        /\ Result(ResultEvent) \/ loop' = loop
    BY <1>3 DEF SessionInv, SessionTypeOK, Reply, Answer, PublishResult, PublishFiles
  <2>2. loop'.pending = loop.pending /\ loop'.unread = loop.unread
    BY <2>1, LoopFields DEF Loop, Result
  <2> QED
    BY <2>1, <2>2, StatusStays DEF Unread, Feed!feedVars
<1>4. CASE Quiet
  BY <1>4, QuietKeepsFeed DEF Feed!feedVars
<1>5. CASE CrashStep \/ FailStale
  BY <1>5, CrashKeepsFeed DEF Feed!Next
<1>6. CASE Consume \/ UNCHANGED sessionVars
  <2>1. /\ SessionTypeOK /\ SessionTypeOK' /\ loop' = loop
        /\ reads' = reads /\ received' = received /\ crashes' = crashes
    BY <1>6 DEF SessionInv, Consume, sessionVars
  <2> QED
    BY <2>1, StatusStays DEF Unread, Feed!feedVars
<1> QED
  BY <1>1, <1>2, <1>3, <1>4, <1>5, <1>6 DEF SessionNext

LEMMA StartKeepsFeed ==
  ASSUME SessionInit, SessionInv
  PROVE  Feed!Init
<1>1. loop.pending = {} /\ Unread = {} /\ received = {} /\ crashes = 0 /\ SessionTypeOK
      /\ reads = [c \in Cid |-> 0]
  BY DEF SessionInit, SessionInv, NewLoop, Unread
<1>2. \A c \in Cid : Status[c] = "away"
  BY <1>1, StatusOf, StatusOfNext DEF StatusFacts
<1>3. Status = [c \in Cid |-> "away"]
  BY <1>1, <1>2, StatusOf, StatusOfNext DEF StatusFacts
<1> QED
  BY <1>1, <1>3 DEF Feed!Init

\* The safety half of the refinement KeepsFeed (TLC checks its liveness):
\* without a crash no message is lost, dropped between two queries, or read a
\* second time, whatever the tasks, follow-ups and late messages.
THEOREM FeedKept == SessionSpec => Feed!Init /\ [][Feed!Next]_(Feed!feedVars)
BY SessionStarts, SessionInductive, StartKeepsFeed, StepKeepsFeed, PTL DEF SessionSpec

------------------------------------------------------------------------------
(* The numbers of a finite set in their order *)

\* A set of naturals that is not empty has a least element.
LEMMA LeastNumber ==
  ASSUME NEW T \in SUBSET Nat, T # {}
  PROVE  \E x \in T : \A y \in T : x <= y
<1> DEFINE R == {p \in Nat \X Nat : p[1] < p[2]}
<1>1. IsWellFoundedOn(R, Nat)
  BY NatLessThanWellFounded DEF OpToRel
<1>2. PICK x \in T : \A y \in T : ~ (<<y, x>> \in R)
  BY <1>1, WFMin
<1>3. ASSUME NEW y \in T
      PROVE  x <= y
  <2>1. x \in Nat /\ y \in Nat /\ <<y, x>> \notin R
    BY <1>2
  <2> QED
    BY <2>1
<1> QED
  BY <1>3

Increasing(s, n) == \A i, j \in 1..n : i < j => s[i] < s[j]

\* Every finite set of numbers can be put in order: of the sizes at which some
\* set could not, there would be a least.
LEMMA OrderExists ==
  ASSUME NEW S \in SUBSET Nat, IsFiniteSet(S)
  PROVE  \E s \in [1..Cardinality(S) -> S] : Increasing(s, Cardinality(S))
<1> DEFINE Ordered(A) == \E s \in [1..Cardinality(A) -> A] : Increasing(s, Cardinality(A))
           T == {n \in Nat : \E A \in SUBSET Nat :
                               IsFiniteSet(A) /\ Cardinality(A) = n /\ ~Ordered(A)}
<1>1. SUFFICES ASSUME T # {} PROVE FALSE
  <2>1. Cardinality(S) \in Nat
    BY FS_CardinalityType
  <2> QED
    BY <1>1, <2>1
<1>2. PICK n \in T : \A m \in T : n <= m
  BY <1>1, LeastNumber
<1>3. PICK A \in SUBSET Nat : IsFiniteSet(A) /\ Cardinality(A) = n /\ ~Ordered(A)
  BY <1>2
<1>4. CASE n = 0
  <2>1. A = {} /\ 1..Cardinality(A) = {}
    BY <1>3, <1>4, FS_EmptySet
  <2> DEFINE s == [i \in {} |-> i]
  <2>2. s \in [1..Cardinality(A) -> A] /\ Increasing(s, Cardinality(A))
    BY <2>1 DEF Increasing
  <2> QED
    BY <1>3, <2>2
<1>5. CASE n # 0
  <2>1. A # {}
    BY <1>3, <1>5, FS_EmptySet
  <2>2. PICK x \in A : \A y \in A : x <= y
    BY <2>1, LeastNumber
  <2> DEFINE B == A \ {x}
  <2>3. B \in SUBSET Nat /\ IsFiniteSet(B) /\ Cardinality(B) = n - 1 /\ n \in Nat
    BY <1>2, <1>3, FS_RemoveElement
  <2>4. Ordered(B)
    <3>1. n - 1 \notin T /\ n - 1 \in Nat
      BY <1>2, <1>5, <2>3
    <3> QED
      BY <2>3, <3>1
  <2>5. PICK t \in [1..n-1 -> B] : Increasing(t, n - 1)
    BY <2>3, <2>4
  <2> DEFINE s == [i \in 1..n |-> IF i = 1 THEN x ELSE t[i - 1]]
  <2>6. ASSUME NEW i \in 1..n
        PROVE  /\ i = 1 => s[i] = x
               /\ i # 1 => i - 1 \in 1..n-1 /\ s[i] = t[i - 1] /\ s[i] \in A /\ x < s[i]
    <3>1. i # 1 => i - 1 \in 1..n-1
      BY <2>3
    <3>2. i # 1 => t[i - 1] \in A /\ x < t[i - 1]
      <4>1. ASSUME NEW y \in B
            PROVE  y \in A /\ x < y
        <5>1. y \in A /\ y # x /\ x <= y /\ x \in Nat /\ y \in Nat
          BY <1>3, <2>2, <4>1
        <5> QED
          BY <5>1
      <4> HIDE DEF B
      <4> QED
        BY <2>5, <3>1, <4>1
    <3> QED
      BY <3>1, <3>2
  <2> HIDE DEF s
  <2>7. s \in [1..n -> A]
    <3>1. \A i \in 1..n : s[i] \in A
      BY <2>6
    <3> QED
      BY <3>1 DEF s
  <2>8. ASSUME NEW i \in 1..n, NEW j \in 1..n, i < j
        PROVE  s[i] < s[j]
    <3>1. j # 1
      BY <2>3, <2>8
    <3>2. CASE i = 1
      BY <2>6, <3>1, <3>2
    <3>3. CASE i # 1
      <4>1. i - 1 < j - 1
        BY <2>3, <2>8
      <4>2. t[i - 1] < t[j - 1]
        BY <2>5, <2>6, <3>1, <3>3, <4>1 DEF Increasing
      <4> QED
        BY <2>6, <3>1, <3>3, <4>2
    <3> QED
      BY <3>2, <3>3
  <2> QED
    BY <1>3, <2>7, <2>8 DEF Increasing
<1> QED
  BY <1>4, <1>5

\* What InOrder lists: every number of the set, once.
LEMMA InOrderLists ==
  ASSUME NEW S \in SUBSET Cid
  PROVE  /\ InOrder(S) \in Seq(S)
         /\ \A i, j \in DOMAIN InOrder(S) : InOrder(S)[i] = InOrder(S)[j] => i = j
         /\ \A x \in S : \E i \in DOMAIN InOrder(S) : InOrder(S)[i] = x
<1> DEFINE n == Cardinality(S)
           s == InOrder(S)
<1>1. S \subseteq Nat /\ IsFiniteSet(S) /\ n \in Nat
  BY PoolAssumption, FS_Subset, FS_CardinalityType
<1>2. \E t \in [1..n -> S] : \A i, j \in DOMAIN t : i < j => t[i] < t[j]
  BY <1>1, OrderExists DEF Increasing
<1>3. s \in [1..n -> S] /\ \A i, j \in DOMAIN s : i < j => s[i] < s[j]
  BY <1>2 DEF InOrder
<1> HIDE DEF s, n
<1>4. \A i, j \in 1..n : s[i] = s[j] => i = j
  <2>1. ASSUME NEW i \in 1..n, NEW j \in 1..n, i # j
        PROVE  s[i] # s[j]
    <3>1. i < j \/ j < i
      BY <1>1, <2>1
    <3>2. s[i] < s[j] \/ s[j] < s[i]
      BY <1>3, <3>1
    <3>3. s[i] \in Nat /\ s[j] \in Nat
      BY <1>1, <1>3
    <3> QED
      BY <3>2, <3>3
  <2> QED
    BY <2>1
<1>5. s \in Surjection(1..n, S)
  <2>1. s \in Injection(1..n, S)
    BY <1>3, <1>4 DEF Injection, IsInjective
  <2>2. Cardinality(1..n) = n
    BY <1>1, FS_Interval
  <2> QED
    BY <1>1, <2>1, <2>2, FS_Injection DEF n
<1>6. s \in Seq(S) /\ DOMAIN s = 1..n
  BY <1>1, <1>3
<1>7. \A x \in S : \E i \in DOMAIN s : s[i] = x
  BY <1>5, <1>6 DEF Surjection
<1> QED
  BY <1>4, <1>6, <1>7 DEF s

------------------------------------------------------------------------------
(* The bridge: what a dispatch does, whoever calls it *)

\* An attempt that takes along what a switch cut off.
LEMMA CarriedTyped ==
  ASSUME NEW batch \in Seq(Attempt), batch # <<>>, held \subseteq Text
  PROVE  /\ [batch EXCEPT ![1].text = @ \cup held] \in Seq(Attempt)
         /\ DOMAIN [batch EXCEPT ![1].text = @ \cup held] = DOMAIN batch
         /\ \A i \in DOMAIN batch :
              /\ [batch EXCEPT ![1].text = @ \cup held][i].for = batch[i].for
              /\ [batch EXCEPT ![1].text = @ \cup held][i].sudo = batch[i].sudo
<1> DEFINE first == [batch[1] EXCEPT !.text = @ \cup held]
           carried == [batch EXCEPT ![1] = first]
<1>1. 1 \in DOMAIN batch /\ batch[1] \in Attempt /\ DOMAIN batch = 1..Len(batch)
  OBVIOUS
<1>2. /\ first \in Attempt /\ first.for = batch[1].for /\ first.sudo = batch[1].sudo
  BY <1>1 DEF Attempt
<1>3. carried = [batch EXCEPT ![1].text = @ \cup held]
  BY <1>1
<1> HIDE DEF first
<1>4. carried \in Seq(Attempt) /\ DOMAIN carried = DOMAIN batch
  BY <1>1, <1>2
<1>5. \A i \in DOMAIN batch : carried[i] = IF i = 1 THEN first ELSE batch[i]
  BY <1>1
<1>6. \A i \in DOMAIN batch : carried[i].for = batch[i].for /\ carried[i].sudo = batch[i].sudo
  BY <1>2, <1>5
<1> HIDE DEF carried
<1> QED
  BY <1>3, <1>4, <1>6

\* What the callers of new attempts get when those are refused.
Refusals(out, batch) ==
  [m \in Msg |-> IF out[m] = "waiting"
                    /\ \E i \in DOMAIN batch : Mismatch(batch[i].sudo) /\ batch[i].for = m
                    THEN "error" ELSE out[m]]

\* New attempts are under ids nobody uses, one each, and answer whom they are
\* for; the others are as the dispatch found them.
NewAttempts(batch, as) ==
  \E ids \in [DOMAIN batch -> Cid \ InUse] :
    /\ \A i, j \in DOMAIN batch : ids[i] = ids[j] => i = j
    /\ \A i \in DOMAIN batch :
         /\ attempts'[ids[i]].for = batch[i].for
         /\ attempts'[ids[i]].st = "over" => Mismatch(batch[i].sudo)
    /\ \A c \in Cid : (\A i \in DOMAIN batch : ids[i] # c) => attempts'[c] = as[c]

LEMMA DispatchFacts ==
  ASSUME held \subseteq Text, wire \in Seq(Cid), NEW batch \in Seq(Attempt),
         NEW as \in [Cid -> Attempt], NEW out, Dispatch(batch, as, out)
  PROVE  /\ NewAttempts(batch, as)
         /\ attempts' \in [Cid -> Attempt]
         /\ wire' \in Seq(Cid)
         /\ outcome' = Refusals(out, batch)
         /\ held' = IF batch = <<>> THEN held ELSE {}
<1> DEFINE carried == IF batch = <<>> THEN batch
                      ELSE [batch EXCEPT ![1].text = @ \cup held]
           ids == [i \in DOMAIN batch |-> FreeIds[i]]
           Refused(i) == Mismatch(carried[i].sudo)
           stage(i) == IF session = None THEN "creating"
                       ELSE IF Refused(i) THEN "over" ELSE "pending"
           S == { ids[i] : i \in { j \in DOMAIN ids : stage(j) = "pending" } }
           index(c) == CHOOSE j \in DOMAIN ids : ids[j] = c
<1>1. /\ Len(batch) <= Len(FreeIds)
      /\ attempts' = [c \in Cid |-> IF c \in ToSet(ids)
                        THEN [carried[index(c)] EXCEPT !.st = stage(index(c))] ELSE as[c]]
      /\ wire' = wire \o InOrder(S)
      /\ outcome' = [m \in Msg |->
           IF out[m] = "waiting" /\ \E i \in DOMAIN ids : Refused(i) /\ carried[i].for = m
             THEN "error" ELSE out[m]]
      /\ held' = IF batch = <<>> THEN held ELSE {}
  BY DEF Dispatch, PublishMessages
<1>2. /\ carried \in Seq(Attempt) /\ DOMAIN carried = DOMAIN batch
      /\ \A i \in DOMAIN batch : carried[i].for = batch[i].for /\ carried[i].sudo = batch[i].sudo
  BY CarriedTyped
<1>3. /\ DOMAIN ids = DOMAIN batch /\ ids \in [DOMAIN batch -> Cid \ InUse]
      /\ \A i, j \in DOMAIN batch : ids[i] = ids[j] => i = j
  <2>1. /\ FreeIds \in Seq(Cid \ InUse)
        /\ \A i, j \in DOMAIN FreeIds : FreeIds[i] = FreeIds[j] => i = j
    BY InOrderLists DEF FreeIds
  <2>2. DOMAIN batch \subseteq DOMAIN FreeIds
    BY <1>1, <2>1
  <2>3. \A i \in DOMAIN FreeIds : FreeIds[i] \in Cid \ InUse
    BY <2>1
  <2> QED
    BY <2>1, <2>2, <2>3
<1> HIDE DEF ids, carried
<1>4. ToSet(ids) = {ids[i] : i \in DOMAIN batch}
  BY <1>3 DEF ToSet
<1>5. ASSUME NEW i \in DOMAIN batch
      PROVE  ids[i] \in ToSet(ids) /\ index(ids[i]) = i
  BY <1>3, <1>4
<1>6. \A i \in DOMAIN batch : stage(i) \in {"creating", "pending", "over"}
                              /\ (stage(i) = "over" => Mismatch(batch[i].sudo))
  BY <1>2
<1>7. \A i \in DOMAIN batch : Refused(i) <=> Mismatch(batch[i].sudo)
  BY <1>2
<1> HIDE DEF stage, Refused, index
<1>8. \A i \in DOMAIN batch : attempts'[ids[i]] = [carried[i] EXCEPT !.st = stage(i)]
  BY <1>1, <1>3, <1>5
<1>9. ASSUME NEW i \in DOMAIN batch
      PROVE  /\ [carried[i] EXCEPT !.st = stage(i)] \in Attempt
             /\ attempts'[ids[i]].for = batch[i].for
             /\ attempts'[ids[i]].st = stage(i)
  <2>1. carried[i] \in Attempt
    BY <1>2
  <2> QED
    BY <1>2, <1>6, <1>8, <2>1 DEF Attempt
<1>10. ASSUME NEW c \in Cid, \A i \in DOMAIN batch : ids[i] # c
       PROVE  attempts'[c] = as[c]
  BY <1>1, <1>4, <1>10
<1>11. attempts' \in [Cid -> Attempt]
  <2>1. ASSUME NEW c \in Cid
        PROVE  attempts'[c] \in Attempt
    <3>1. CASE \E i \in DOMAIN batch : ids[i] = c
      BY <1>8, <1>9, <3>1
    <3>2. CASE \A i \in DOMAIN batch : ids[i] # c
      BY <1>10, <3>2
    <3> QED
      BY <3>1, <3>2
  <2>2. attempts' = [c \in Cid |-> attempts'[c]]
    BY <1>1
  <2> QED
    BY <2>1, <2>2
<1>12. wire' \in Seq(Cid)
  <2>1. S \in SUBSET Cid
    BY <1>3
  <2> HIDE DEF S
  <2>2. InOrder(S) \in Seq(S)
    BY <2>1, InOrderLists
  <2>3. InOrder(S) \in Seq(Cid)
    BY <2>1, <2>2
  <2> QED
    BY <1>1, <2>3
<1>13. outcome' = Refusals(out, batch)
  BY <1>1, <1>2, <1>3, <1>7 DEF Refusals
<1>14. NewAttempts(batch, as)
  BY <1>3, <1>6, <1>9, <1>10 DEF NewAttempts
<1> QED
  BY <1>1, <1>11, <1>12, <1>13, <1>14

LEMMA RetriesFacts ==
  ASSUME TypeOK, NEW k \in closings
  PROVE  /\ Retries(k) \in Seq(Attempt)
         /\ \A c \in k.retry : \E i \in DOMAIN Retries(k) : Retries(k)[i].for = attempts[c].for
<1> DEFINE old == InOrder(k.retry)
           again(c) == [attempts[c] EXCEPT !.retries = 0, !.fresh = @ \/ k.then = "retryFresh"]
<1>1. k.retry \in SUBSET Cid /\ attempts \in [Cid -> Attempt]
  BY DEF TypeOK, Closing
<1>2. old \in Seq(k.retry) /\ \A c \in k.retry : \E i \in DOMAIN old : old[i] = c
  BY <1>1, InOrderLists
<1> HIDE DEF old
<1>3. ASSUME NEW c \in k.retry
      PROVE  again(c) \in Attempt /\ again(c).for = attempts[c].for
  <2>1. attempts[c] \in Attempt /\ 0 \in 0..MaxContinue
    BY <1>1, BoundsAssumption
  <2> QED
    BY <2>1 DEF Attempt
<1>4. Retries(k) = [i \in DOMAIN old |-> again(old[i])]
  BY DEF Retries, old
<1> HIDE DEF again
<1>5. Retries(k) \in Seq(Attempt) /\ DOMAIN Retries(k) = DOMAIN old
  <2>1. DOMAIN old = 1..Len(old) /\ Len(old) \in Nat /\ \A i \in 1..Len(old) : old[i] \in k.retry
    BY <1>2
  <2>2. Retries(k) \in [1..Len(old) -> Attempt]
    BY <1>3, <1>4, <2>1
  <2> QED
    BY <2>1, <2>2
<1>6. \A i \in DOMAIN old : old[i] \in k.retry
  BY <1>2
<1>7. \A i \in DOMAIN old : Retries(k)[i] = again(old[i])
  BY <1>4
<1> QED
  BY <1>2, <1>3, <1>5, <1>6, <1>7

\* Ending attempts and settling callers.
LEMMA OverTyped ==
  ASSUME attempts \in [Cid -> Attempt], NEW cs
  PROVE  /\ Over(cs) \in [Cid -> Attempt]
         /\ \A c \in Cid : /\ Over(cs)[c].for = attempts[c].for
                           /\ c \notin cs => Over(cs)[c] = attempts[c]
BY DEF Over, Attempt

LEMMA SettledTyped ==
  ASSUME NEW out \in [Msg -> Outcome], NEW cs, NEW o \in Outcome
  PROVE  Settled(out, cs, o) \in [Msg -> Outcome]
BY DEF Settled

LEMMA BlankTyped ==
  /\ Blank \in Attempt /\ Blank.for = None
  /\ \A m \in Msg : mode \in BOOLEAN =>
       First(m) \in Attempt /\ First(m).for = m /\ First(m).sudo = mode
<1>1. Blank \in Attempt /\ Blank.for = None
  BY BoundsAssumption DEF Blank, Attempt
<1>2. ASSUME NEW m \in Msg, mode \in BOOLEAN
      PROVE  First(m) \in Attempt /\ First(m).for = m /\ First(m).sudo = mode
  <2>1. {m} \in SUBSET Text
    BY DEF Text
  <2> HIDE DEF Blank
  <2> QED
    BY <1>1, <1>2, <2>1 DEF First, Attempt
<1> QED
  BY <1>1, <1>2

LEMMA BeginCloseTyped ==
  ASSUME TypeOK, NEW retry \in SUBSET Cid, NEW new \in Attempt,
         NEW then \in {"nothing", "resume", "send", "retry", "close", "retryFresh"},
         BeginClose(then, retry, new)
  PROVE  session' = None /\ \A k \in closings' : k \in Closing
<1>1. SessionId \in Session \cup {None}
  BY DEF SessionId, TypeOK, LiveSession
<1> QED
  BY <1>1 DEF BeginClose, TypeOK, Closing

LEMMA HoldTyped ==
  ASSUME TypeOK, NEW out \in [Msg -> Outcome], HoldUnanswered(out)
  PROVE  attempts' \in [Cid -> Attempt] /\ outcome' \in [Msg -> Outcome] /\ held' \subseteq Text
<1>1. \A c \in Cid : attempts[c].text \subseteq Text
  BY DEF TypeOK, Attempt
<1>2. held' \subseteq Text
  BY <1>1 DEF HoldUnanswered, TypeOK, Pending
<1> QED
  BY <1>2, OverTyped, SettledTyped DEF HoldUnanswered, TypeOK, Outcome

LEMMA DispatchTyped ==
  ASSUME TypeOK, NEW batch \in Seq(Attempt), NEW as \in [Cid -> Attempt],
         NEW out \in [Msg -> Outcome], Dispatch(batch, as, out)
  PROVE  /\ attempts' \in [Cid -> Attempt] /\ wire' \in Seq(Cid)
         /\ outcome' \in [Msg -> Outcome] /\ held' \subseteq Text
<1>1. held \subseteq Text /\ wire \in Seq(Cid)
  BY DEF TypeOK
<1>2. /\ attempts' \in [Cid -> Attempt] /\ wire' \in Seq(Cid)
      /\ outcome' = Refusals(out, batch)
      /\ held' = IF batch = <<>> THEN held ELSE {}
  BY <1>1, DispatchFacts
<1> QED
  BY <1>1, <1>2 DEF Outcome, Refusals

\* A step of the worker alone.
LEMMA WorkerKeepsTypes ==
  ASSUME TypeOK, LoopTypeOK', UNCHANGED bridgeVars,
         wire' = wire \/ (wire # <<>> /\ wire' = Tail(wire)), ready' \in BOOLEAN,
         mishaps' = mishaps \/ Mishap
  PROVE  TypeOK'
<1>1. wire' \in Seq(Cid)
  BY DEF TypeOK
<1>2. mishaps' \in 0..MaxMishaps
  BY BoundsAssumption DEF TypeOK, Mishap
<1> QED
  BY <1>1, <1>2 DEF TypeOK, bridgeVars

\* Dispatches: of a message, of what was cut off, and again after a timeout.
LEMMA DispatchesKeepTypes ==
  ASSUME TypeOK,
         (\E m \in Msg : Send(m)) \/ (\E c \in Cid : Timeout(c)) \/ ResumeInterrupted
  PROVE  TypeOK'
<1>1. LoopTypeOK' /\ session' = session /\ closings' = closings /\ saved' = saved
      /\ mode' = mode /\ ready' = ready /\ mishaps' = mishaps /\ resuming' \in BOOLEAN
  BY DEF TypeOK, Send, Timeout, ResumeInterrupted, LoopTypeOK, loopVars
<1>2. /\ attempts \in [Cid -> Attempt] /\ outcome \in [Msg -> Outcome] /\ mode \in BOOLEAN
      /\ held \subseteq Text /\ wire \in Seq(Cid)
  BY DEF TypeOK
<1>3. SUFFICES /\ attempts' \in [Cid -> Attempt] /\ wire' \in Seq(Cid)
               /\ outcome' \in [Msg -> Outcome] /\ held' \subseteq Text
  BY <1>1 DEF TypeOK, LiveSession
<1>4. CASE \E m \in Msg : Send(m)
  <2>1. PICK m \in Msg : Send(m)
    BY <1>4
  <2>2. First(m) \in Attempt
    BY <1>2, BlankTyped
  <2>3. <<First(m)>> \in Seq(Attempt)
    BY <2>2
  <2>4. [outcome EXCEPT ![m] = "waiting"] \in [Msg -> Outcome]
    BY <1>2 DEF Outcome
  <2> QED
    BY <1>2, <2>1, <2>3, <2>4, DispatchTyped DEF Send
<1>5. CASE \E c \in Cid : Timeout(c)
  <2>1. PICK c \in Cid : Timeout(c)
    BY <1>5
  <2> DEFINE a == attempts[c]
             text == IF session = None THEN a.text ELSE {Nudge}
             again == [a EXCEPT !.text = text, !.retries = @ + 1]
  <2>2. CASE a.retries < MaxContinue
    <3>1. a \in Attempt /\ text \subseteq Text
      BY <1>2 DEF Attempt, Text
    <3>2. a.retries + 1 \in 0..MaxContinue
      BY <2>2, <3>1, BoundsAssumption DEF Attempt
    <3> HIDE DEF a, text
    <3>4. again \in Attempt
      BY <3>1, <3>2 DEF Attempt
    <3> HIDE DEF again
    <3>3. <<again>> \in Seq(Attempt)
      BY <3>4
    <3>5. Dispatch(<<again>>, Over({c}), outcome)
      BY <2>1, <2>2 DEF Timeout, again, a, text
    <3> QED
      BY <1>2, <3>3, <3>5, DispatchTyped, OverTyped
  <2>3. CASE ~(a.retries < MaxContinue)
    <3>1. attempts' = Over({c}) /\ outcome' = Settled(outcome, {c}, "error")
          /\ wire' = wire /\ held' = held
      BY <2>1, <2>3 DEF Timeout
    <3> QED
      BY <1>2, <3>1, OverTyped, SettledTyped DEF Outcome
  <2> QED
    BY <2>2, <2>3
<1>6. CASE ResumeInterrupted
  <2> DEFINE continued == [Blank EXCEPT !.sudo = mode]
             batch == IF held = {} THEN <<>> ELSE <<continued>>
  <2>1. continued \in Attempt
    BY <1>2, BlankTyped DEF Attempt
  <2> HIDE DEF continued
  <2>2. batch \in Seq(Attempt)
    BY <2>1
  <2>3. Dispatch(batch, attempts, outcome)
    BY <1>6 DEF ResumeInterrupted, continued
  <2> QED
    BY <1>2, <2>2, <2>3, DispatchTyped
<1> QED
  BY <1>4, <1>5, <1>6

\* A session is created, or cannot be.
LEMMA CreationKeepsTypes ==
  ASSUME TypeOK, NEW c \in Cid, SessionCreated(c) \/ CreateFailed(c)
  PROVE  TypeOK'
<1>1. CASE SessionCreated(c)
  <2>1. NewLoop(c, IF attempts[c].fresh THEN "none" ELSE saved) \in Loop
    <3>1. c \in Session \cup {None} /\ (IF attempts[c].fresh THEN "none" ELSE saved) \in Resume
      BY PoolAssumption DEF TypeOK, Resume
    <3> QED
      BY <3>1, NewLoopTyped
  <2>2. LoopTypeOK'
    BY <1>1, <2>1 DEF SessionCreated, TypeOK, LoopTypeOK
  <2>3. attempts[c] \in Attempt
    BY DEF TypeOK
  <2>4. [attempts[c] EXCEPT !.st = "pending"] \in Attempt /\ attempts[c].sudo \in BOOLEAN
    BY <2>3 DEF Attempt
  <2>5. attempts' \in [Cid -> Attempt]
    <3>1. attempts' = [attempts EXCEPT ![c] = [attempts[c] EXCEPT !.st = "pending"]]
      BY <1>1 DEF SessionCreated
    <3> QED
      BY <2>4, <3>1 DEF TypeOK
  <2>6. session' \in LiveSession
    BY <1>1, <2>4, PoolAssumption DEF SessionCreated, LiveSession
  <2>7. wire' \in Seq(Cid)
    BY <1>1 DEF SessionCreated, PublishMessages, TypeOK
  <2> QED
    BY <1>1, <2>2, <2>5, <2>6, <2>7 DEF SessionCreated, TypeOK
<1>2. CASE CreateFailed(c)
  <2>1. attempts' \in [Cid -> Attempt] /\ outcome' \in [Msg -> Outcome]
    BY <1>2, OverTyped, SettledTyped DEF CreateFailed, TypeOK, Outcome
  <2>2. mishaps' \in 0..MaxMishaps
    BY <1>2, BoundsAssumption DEF CreateFailed, Mishap, TypeOK
  <2> QED
    BY <1>2, <2>1, <2>2 DEF CreateFailed, TypeOK, LoopTypeOK, loopVars
<1> QED
  BY <1>1, <1>2

\* A session closes: by itself, in a switch, for a message, after a restart.
LEMMA ClosesKeepTypes ==
  ASSUME TypeOK,
         \/ CloseSession \/ SudoSwitch \/ HandleReady
         \/ \E m \in Msg : SwitchForMessage(m)
  PROVE  TypeOK'
<1>1. Blank \in Attempt /\ Pending \in SUBSET Cid /\ {} \in SUBSET Cid
  BY BlankTyped DEF Pending
<1>2. CASE CloseSession
  <2>1. mishaps' \in 0..MaxMishaps
    BY <1>2, BoundsAssumption DEF CloseSession, Mishap, TypeOK
  <2>2. session' = None /\ \A k \in closings' : k \in Closing
    BY <1>1, <1>2, BeginCloseTyped DEF CloseSession
  <2> QED
    BY <1>2, <2>1, <2>2 DEF CloseSession, TypeOK, LoopTypeOK, loopVars
<1>3. CASE SudoSwitch
  <2>1. mishaps' \in 0..MaxMishaps
    BY <1>3, BoundsAssumption DEF SudoSwitch, Mishap, TypeOK
  <2>2. session' = None /\ \A k \in closings' : k \in Closing
    BY <1>1, <1>3, BeginCloseTyped DEF SudoSwitch
  <2>3. attempts' \in [Cid -> Attempt] /\ outcome' \in [Msg -> Outcome] /\ held' \subseteq Text
    BY <1>3, HoldTyped DEF SudoSwitch, TypeOK
  <2> QED
    BY <1>3, <2>1, <2>2, <2>3 DEF SudoSwitch, TypeOK, LoopTypeOK, loopVars
<1>4. CASE HandleReady
  <2>1. session' \in LiveSession \cup {None} /\ \A k \in closings' : k \in Closing
    BY <1>1, <1>4, BeginCloseTyped DEF HandleReady, TypeOK
  <2> QED
    BY <1>4, <2>1 DEF HandleReady, TypeOK, LoopTypeOK, loopVars
<1>5. CASE \E m \in Msg : SwitchForMessage(m)
  <2>1. PICK m \in Msg : SwitchForMessage(m)
    BY <1>5
  <2>2. First(m) \in Attempt /\ [outcome EXCEPT ![m] = "waiting"] \in [Msg -> Outcome]
    BY BlankTyped DEF TypeOK, Outcome
  <2>3. session' = None /\ \A k \in closings' : k \in Closing
    BY <1>1, <2>1, <2>2, BeginCloseTyped DEF SwitchForMessage
  <2>4. attempts' \in [Cid -> Attempt] /\ outcome' \in [Msg -> Outcome] /\ held' \subseteq Text
    BY <2>1, <2>2, HoldTyped DEF SwitchForMessage
  <2> QED
    BY <2>1, <2>3, <2>4 DEF SwitchForMessage, TypeOK, LoopTypeOK, loopVars
<1> QED
  BY <1>2, <1>3, <1>4, <1>5

\* What follows a clean-up.
LEMMA SettledKeepsTypes ==
  ASSUME TypeOK, NEW k \in closings, CloseSettled(k) \/ ResetSent(k)
  PROVE  TypeOK'
<1>1. /\ k \in Closing /\ attempts \in [Cid -> Attempt] /\ outcome \in [Msg -> Outcome]
      /\ LoopTypeOK /\ held \subseteq Text
  BY DEF TypeOK
<1>2. CASE CloseSettled(k)
  <2>1. /\ k.new \in Attempt /\ <<>> \in Seq(Attempt) /\ Retries(k) \in Seq(Attempt)
        /\ Over(k.retry) \in [Cid -> Attempt]
    BY <1>1, RetriesFacts, OverTyped DEF Closing
  <2>2. <<k.new>> \in Seq(Attempt)
    BY <2>1
  <2>3. \/ Dispatch(<<>>, attempts, outcome) \/ Dispatch(<<k.new>>, attempts, outcome)
        \/ Dispatch(Retries(k), Over(k.retry), outcome)
    BY <1>2 DEF CloseSettled
  <2>4. /\ attempts' \in [Cid -> Attempt] /\ wire' \in Seq(Cid)
        /\ outcome' \in [Msg -> Outcome] /\ held' \subseteq Text
    BY <1>1, <2>1, <2>2, <2>3, DispatchTyped
  <2>5. LoopTypeOK' /\ closings' \subseteq closings /\ resuming' \in BOOLEAN
    BY <1>1, <1>2 DEF CloseSettled, LoopTypeOK, loopVars, TypeOK
  <2> QED
    BY <1>2, <2>4, <2>5 DEF CloseSettled, TypeOK
<1>3. CASE ResetSent(k)
  <2>1. SessionId \in Session \cup {None}
    BY DEF SessionId, TypeOK, LiveSession
  <2>2. [k EXCEPT !.sid = SessionId, !.then = "retryFresh"] \in Closing
    BY <1>1, <2>1 DEF Closing
  <2>3. \A j \in closings' : j \in Closing
    BY <1>3, <2>2 DEF ResetSent, TypeOK
  <2> QED
    BY <1>3, <2>3 DEF ResetSent, TypeOK, LoopTypeOK, loopVars
<1> QED
  BY <1>2, <1>3

\* The worker's steps.
LEMMA WorkerSideKeepsTypes ==
  ASSUME TypeOK,
         \/ \E k \in closings : DeleteArrives(k)
         \/ Deliver \/ ReadItem \/ WorkerStep \/ CliCrash \/ WorkerRestart
  PROVE  TypeOK'
<1>1. LoopTypeOK /\ ready \in BOOLEAN /\ wire \in Seq(Cid)
  BY DEF TypeOK
<1>2. CASE \E k \in closings : DeleteArrives(k)
  BY <1>1, <1>2, AbortKeepsType, WorkerKeepsTypes DEF DeleteArrives
<1>3. CASE Deliver
  <2>1. Head(wire) \in Cid
    BY <1>1, <1>3 DEF Deliver
  <2>2. LoopTypeOK'
    BY <1>1, <1>3, <2>1, MessageKeepsType DEF Deliver, LoopTypeOK, loopVars
  <2> QED
    BY <1>1, <1>3, <2>2, WorkerKeepsTypes DEF Deliver
<1>4. CASE ReadItem
  BY <1>1, <1>4, ReadKeepsType, WorkerKeepsTypes DEF ReadItem
<1>5. CASE WorkerStep
  BY <1>1, <1>5, StartKeepsType, IdleKeepsType, EndKeepsType, ResultKeepsType, WorkerKeepsTypes
     DEF WorkerStep
<1>6. CASE CliCrash
  BY <1>1, <1>6, EndKeepsType, WorkerKeepsTypes DEF CliCrash
<1>7. CASE WorkerRestart
  <2>1. NoLoop \in Loop
    BY NewLoopTyped DEF NoLoop, Resume
  <2>2. LoopTypeOK'
    BY <1>1, <1>7, <2>1 DEF WorkerRestart, LoopTypeOK
  <2> QED
    BY <1>1, <1>7, <2>2, WorkerKeepsTypes DEF WorkerRestart
<1> QED
  BY <1>2, <1>3, <1>4, <1>5, <1>6, <1>7

\* Events.
LEMMA HandlersKeepTypes ==
  ASSUME TypeOK, HandleEvent
  PROVE  TypeOK'
<1> DEFINE e == Head(events)
<1>1. /\ events \in Seq(Event) /\ events # <<>> /\ events' = Tail(events)
      /\ attempts \in [Cid -> Attempt] /\ outcome \in [Msg -> Outcome] /\ LoopTypeOK
  BY DEF HandleEvent, TypeOK, LoopTypeOK
<1>2. LoopTypeOK'
  <2>1. /\ events' \in Seq(Event) /\ Len(events') <= Len(events)
        /\ Len(events) \in Nat /\ Len(events') \in Nat
    BY <1>1
  <2> QED
    BY <1>1, <2>1, EventsAssumption DEF HandleEvent, LoopTypeOK
<1>3. attempts' \in [Cid -> Attempt]
  BY <1>1, OverTyped
     DEF HandleEvent, HandleTurn, HandleResult, HandleError, HandleStale
<1>4. outcome' \in [Msg -> Outcome]
  <2>1. ASSUME NEW cs, NEW ds, NEW o \in Outcome, NEW n \in Outcome
        PROVE  /\ Settled(outcome, cs, o) \in [Msg -> Outcome]
               /\ Settled(Settled(outcome, cs, o), ds, n) \in [Msg -> Outcome]
    BY <1>1, SettledTyped
  <2>2. "replied" \in Outcome /\ "empty" \in Outcome /\ "error" \in Outcome
    BY DEF Outcome
  <2>3. CASE HandleTurn \/ HandleStale(e.cid)
    BY <1>1, <2>3 DEF HandleTurn, HandleStale
  <2>4. CASE HandleResult(e.cid, "replied") \/ HandleResult(e.cid, "empty")
    <3>1. PICK o \in {"replied", "empty"} : HandleResult(e.cid, o)
      BY <2>4
    <3>2. Settled(Settled(outcome, {e.cid}, o), Pending, "empty") \in [Msg -> Outcome]
      BY <2>1, <2>2
    <3> QED
      BY <1>1, <3>1, <3>2 DEF HandleResult
  <2>5. CASE HandleError(e.cid)
    BY <1>1, <2>1, <2>2, <2>5 DEF HandleError
  <2> QED
    BY <2>3, <2>4, <2>5 DEF HandleEvent
<1>5. \A k \in closings' : k \in Closing
  <2>1. CASE HandleStale(e.cid) /\ e.cid \in Pending
    <3>1. {e.cid} \in SUBSET Cid /\ Blank \in Attempt
      BY <2>1, BlankTyped DEF Pending
    <3>2. [sid |-> None, then |-> "close", retry |-> {e.cid}, new |-> Blank] \in Closing
      BY <3>1 DEF Closing
    <3> QED
      BY <2>1, <3>2 DEF HandleStale, TypeOK
  <2>2. CASE closings' = closings
    BY <2>2 DEF TypeOK
  <2> QED
    BY <2>1, <2>2 DEF HandleEvent, HandleTurn, HandleResult, HandleError, HandleStale
<1>6. saved' \in Resume
  BY DEF HandleEvent, HandleTurn, SetSessionId, HandleResult, HandleError, HandleStale, TypeOK,
         Resume
<1> QED
  BY <1>2, <1>3, <1>4, <1>5, <1>6 DEF HandleEvent, TypeOK

LEMMA BusKeepsTypes ==
  ASSUME TypeOK, [Next]_vars
  PROVE  TypeOK'
<1>1. CASE SudoExpires
  BY <1>1 DEF SudoExpires, TypeOK, LoopTypeOK, loopVars
<1>2. CASE UNCHANGED vars
  BY <1>2 DEF vars, bridgeVars, TypeOK, LoopTypeOK, loopVars
<1> QED
  BY <1>1, <1>2, DispatchesKeepTypes, CreationKeepsTypes, ClosesKeepTypes, SettledKeepsTypes,
     WorkerSideKeepsTypes, HandlersKeepTypes DEF Next

LEMMA BusStartsTyped ==
  ASSUME Init
  PROVE  TypeOK
<1>1. NoLoop \in Loop /\ Blank \in Attempt
  BY NewLoopTyped, BlankTyped DEF NoLoop, Resume
<1>2. LoopTypeOK
  BY <1>1, EventsAssumption DEF Init, LoopTypeOK
<1> HIDE DEF Blank
<1>3. attempts \in [Cid -> Attempt] /\ outcome \in [Msg -> Outcome] /\ wire \in Seq(Cid)
  BY <1>1 DEF Init, Outcome
<1>4. /\ saved \in Resume /\ closings = {} /\ held = {} /\ session = None
      /\ mode = FALSE /\ resuming = FALSE /\ ready = FALSE /\ mishaps \in 0..MaxMishaps
  BY BoundsAssumption, TranscriptsAssumption DEF Init
<1> QED
  BY <1>2, <1>3, <1>4 DEF TypeOK

\* The bridge, the channels and the worker keep their types together, for
\* every set of messages and ids, and every number of retries and mishaps.
THEOREM BusTypes == Spec => []TypeOK
BY BusStartsTyped, BusKeepsTypes, PTL DEF Spec

------------------------------------------------------------------------------
(* What a mode switch cut off *)

LEMMA DispatchTakesHeld ==
  ASSUME NEW batch, NEW as, NEW out, Dispatch(batch, as, out)
  PROVE  held' = IF batch = <<>> THEN held ELSE {}
BY DEF Dispatch

Carrier(k) == k.then \in {"resume", "send"}

LEMMA HeldInductive ==
  ASSUME HeldHasCarrier, [Next]_vars
  PROVE  HeldHasCarrier'
<1>1. CASE held' = {}
  BY <1>1 DEF HeldHasCarrier
<1>2. CASE held' = held /\ resuming' = resuming /\ closings \subseteq closings'
  BY <1>2 DEF HeldHasCarrier
<1>3. CASE \E k \in closings' : Carrier(k)
  BY <1>3 DEF HeldHasCarrier, Carrier
<1>4. CASE \E m \in Msg : Send(m)
  <2>1. PICK m \in Msg : Send(m)
    BY <1>4
  <2>2. Dispatch(<<First(m)>>, attempts, [outcome EXCEPT ![m] = "waiting"])
    BY <2>1 DEF Send
  <2>3. held' = {}
    BY <2>2, DispatchTakesHeld
  <2> QED
    BY <1>1, <2>3
<1>5. CASE (\E m \in Msg : SwitchForMessage(m)) \/ SudoSwitch
  <2>1. ASSUME NEW then, NEW retry, NEW new, BeginClose(then, retry, new),
               then \in {"resume", "send"}
        PROVE  \E k \in closings' : Carrier(k)
    <3> DEFINE k == [sid |-> SessionId, then |-> then, retry |-> retry, new |-> new]
    <3>1. k \in closings'
      BY <2>1 DEF BeginClose
    <3>2. Carrier(k)
      BY <2>1 DEF Carrier
    <3> QED
      BY <3>1, <3>2
  <2>2. CASE SudoSwitch
    BY <1>3, <2>1, <2>2 DEF SudoSwitch
  <2>3. CASE \E m \in Msg : SwitchForMessage(m)
    BY <1>3, <2>1, <2>3 DEF SwitchForMessage
  <2> QED
    BY <1>5, <2>2, <2>3
<1>6. CASE \E c \in Cid : Timeout(c)
  <2>1. PICK c \in Cid : Timeout(c)
    BY <1>6
  <2>2. held' = {} \/ held' = held
    BY <2>1, DispatchTakesHeld DEF Timeout
  <2> QED
    BY <1>1, <1>2, <2>1, <2>2 DEF Timeout
<1>7. CASE (\E c \in Cid : SessionCreated(c) \/ CreateFailed(c)) \/ SudoExpires
  BY <1>2, <1>7 DEF SessionCreated, CreateFailed, SudoExpires
<1>8. CASE CloseSession \/ HandleReady
  BY <1>2, <1>8 DEF CloseSession, HandleReady, BeginClose
<1>9. CASE ResumeInterrupted
  <2>1. held' = {}
    BY <1>9, DispatchTakesHeld DEF ResumeInterrupted
  <2> QED
    BY <1>1, <2>1
<1>10. CASE \E k \in closings : CloseSettled(k)
  <2>1. PICK k \in closings : CloseSettled(k)
    BY <1>10
  <2>2. /\ closings' = closings \ {k}
        /\ resuming' = (resuming \/ (k.then = "resume" /\ held # {}))
        /\ k.then = "send" => held' = {}
        /\ held' = held \/ held' = {}
    BY <2>1, DispatchTakesHeld DEF CloseSettled
  <2> QED
    BY <1>1, <2>2 DEF HeldHasCarrier
<1>11. CASE \E k \in closings : ResetSent(k)
  <2>1. PICK k \in closings : ResetSent(k)
    BY <1>11
  <2>2. held' = held /\ resuming' = resuming /\ closings \ {k} \subseteq closings'
        /\ ~Carrier(k)
    BY <2>1 DEF ResetSent, Carrier
  <2> QED
    BY <2>2 DEF HeldHasCarrier, Carrier
<1>12. CASE \/ \E k \in closings : DeleteArrives(k)
            \/ Deliver \/ ReadItem \/ WorkerStep \/ CliCrash \/ WorkerRestart \/ UNCHANGED vars
  BY <1>2, <1>12
     DEF DeleteArrives, Deliver, ReadItem, WorkerStep, CliCrash, WorkerRestart, bridgeVars, vars
<1>13. CASE HandleEvent
  BY <1>2, <1>13 DEF HandleEvent, HandleTurn, HandleResult, HandleError, HandleStale
<1> QED
  BY <1>4, <1>5, <1>6, <1>7, <1>8, <1>9, <1>10, <1>11, <1>12, <1>13 DEF Next

\* What a mode switch cut off is never left without a dispatch due to take it
\* along, however switches, restarts, retries and closes interleave.
THEOREM HeldIsCarried == Spec => []HeldHasCarrier
<1>1. Init => HeldHasCarrier
  BY DEF Init, HeldHasCarrier
<1> QED
  BY <1>1, HeldInductive, PTL DEF Spec

------------------------------------------------------------------------------
(* The recorded transcript *)

\* A session that goes on with a transcript of its own has it recorded, or its
\* first turn is still to be heard of.
TurnTold ==
  session # None /\ loop.sid = SessionId /\ loop.resume = "good"
    => saved = "good" \/ \E i \in DOMAIN events : events[i].kind = "turn"

\* The loop's own steps keep its session, and its transcript but for a first
\* turn; what they publish comes after what is there.
LEMMA LoopKeepsTranscript ==
  ASSUME LoopTypeOK,
         \/ StartQuery \/ CliIdle \/ QueryEnds \/ StaleSession \/ Result(ResultEvent)
         \/ SilentEnd \/ QueryThrows \/ \E c \in Cid : MessageHandler(c)
  PROVE  /\ loop'.sid = loop.sid /\ loop'.resume = loop.resume
         /\ \A i \in DOMAIN events : i \in DOMAIN events' /\ events'[i] = events[i]
<1>1. loop \in Loop /\ events \in Seq(Event)
  BY DEF LoopTypeOK
<1>2. \A i \in DOMAIN events : i \in DOMAIN events' /\ events'[i] = events[i]
  <2>1. events' = events \/ \E kind, c : Emit(kind, c)
    BY DEF StartQuery, CliIdle, QueryEnds, StaleSession, Result, SilentEnd, QueryThrows,
           MessageHandler
  <2>2. ASSUME NEW kind, NEW c, Emit(kind, c)
        PROVE  \A i \in DOMAIN events : i \in DOMAIN events' /\ events'[i] = events[i]
    BY <1>1, <2>2 DEF Emit
  <2> QED
    BY <2>1, <2>2
<1>3. CASE StartQuery
  BY <1>3, QueryingFields DEF StartQuery
<1>4. CASE QueryEnds \/ StaleSession \/ SilentEnd \/ QueryThrows
  <2>1. \E failed \in BOOLEAN : loop' = Finished(failed)
    BY <1>4 DEF QueryEnds, StaleSession, SilentEnd, QueryThrows
  <2> QED
    BY <1>2, <2>1, QueryingFields, WaitingFields DEF Finished
<1>5. CASE CliIdle
  BY <1>1, <1>2, <1>5 DEF CliIdle, Loop
<1>6. CASE Result(ResultEvent)
  BY <1>1, <1>2, <1>6 DEF Result, Loop
<1>7. CASE \E c \in Cid : MessageHandler(c)
  BY <1>1, <1>2, <1>7 DEF MessageHandler, Loop
<1> QED
  BY <1>2, <1>3, <1>4, <1>5, <1>6, <1>7

LEMMA TranscriptInductive ==
  ASSUME TypeOK, TurnTold, [Next]_vars
  PROVE  TurnTold'
<1>1. LoopTypeOK /\ loop \in Loop /\ events \in Seq(Event)
  BY DEF TypeOK, LoopTypeOK
<1>2. CASE session' = None
  BY <1>2 DEF TurnTold
<1>3. CASE /\ loop'.sid = loop.sid /\ loop'.resume = loop.resume
           /\ session' = session /\ saved' = saved
           /\ \A i \in DOMAIN events : i \in DOMAIN events' /\ events'[i] = events[i]
  BY <1>3 DEF TurnTold, SessionId
<1>4. CASE loop' = NoLoop
  BY <1>4 DEF NoLoop, NewLoop, TurnTold
<1>5. CASE /\ loop' = loop /\ events' = events /\ session' = session /\ saved' = saved
  BY <1>3, <1>5
<1>6. CASE (\E m \in Msg : Send(m)) \/ (\E c \in Cid : CreateFailed(c) \/ Timeout(c))
  BY <1>5, <1>6 DEF Send, CreateFailed, Timeout, loopVars
<1>7. CASE SudoExpires \/ ResumeInterrupted \/ (\E k \in closings : CloseSettled(k))
           \/ UNCHANGED vars
  BY <1>5, <1>7 DEF SudoExpires, ResumeInterrupted, CloseSettled, loopVars, vars, bridgeVars
<1>8. CASE (\E m \in Msg : SwitchForMessage(m)) \/ CloseSession \/ SudoSwitch
           \/ (\E k \in closings : ResetSent(k))
  BY <1>2, <1>8 DEF SwitchForMessage, CloseSession, SudoSwitch, ResetSent, BeginClose
<1>9. CASE HandleReady
  BY <1>2, <1>5, <1>9 DEF HandleReady, BeginClose, loopVars
<1>10. CASE \E c \in Cid : SessionCreated(c)
  <2>1. PICK c \in Cid : SessionCreated(c)
    BY <1>10
  <2>2. loop'.resume \in {"none", saved} /\ saved' = saved
    BY <2>1 DEF SessionCreated, NewLoop
  <2> QED
    BY <2>2 DEF TurnTold
<1>11. CASE (\E k \in closings : DeleteArrives(k)) \/ WorkerRestart
  BY <1>4, <1>11 DEF DeleteArrives, Abort, WorkerRestart
<1>12. CASE ReadItem
  <2>1. events' = Append(events, [kind |-> "turn", cid |-> None])
    BY <1>12 DEF ReadItem, CliRead, Emit
  <2>2. Len(events) + 1 \in DOMAIN events' /\ events'[Len(events) + 1].kind = "turn"
    BY <1>1, <2>1
  <2> QED
    BY <2>2 DEF TurnTold
<1>13. CASE WorkerStep \/ CliCrash
  BY <1>1, <1>3, <1>13, LoopKeepsTranscript DEF WorkerStep, CliCrash, bridgeVars
<1>14. CASE Deliver
  <2>1. wire \in Seq(Cid) /\ wire # <<>> /\ session' = session /\ saved' = saved
    BY <1>14 DEF Deliver, TypeOK, bridgeVars
  <2>2. Head(wire) \in Cid
    BY <2>1
  <2>3. CASE UNCHANGED loopVars
    BY <1>5, <2>1, <2>3 DEF loopVars
  <2>4. CASE MessageHandler(Head(wire))
    BY <1>1, <1>3, <2>1, <2>2, <2>4, LoopKeepsTranscript
  <2> QED
    BY <1>14, <2>3, <2>4 DEF Deliver
<1>15. CASE HandleEvent
  <2>1. /\ events # <<>> /\ events' = Tail(events) /\ loop' = loop /\ session' = session
    BY <1>15 DEF HandleEvent
  <2>2. CASE Head(events).kind = "turn"
    <3>1. saved' = IF session = None THEN saved ELSE "good"
      BY <1>15, <2>2 DEF HandleEvent, HandleTurn, SetSessionId
    <3> QED
      BY <2>1, <3>1 DEF TurnTold
  <2>3. CASE Head(events).kind # "turn"
    <3>1. saved' = saved
      BY <1>15, <2>3 DEF HandleEvent, HandleResult, HandleError, HandleStale
    <3>2. ASSUME NEW i \in DOMAIN events, events[i].kind = "turn"
          PROVE  i - 1 \in DOMAIN events' /\ events'[i - 1].kind = "turn"
      <4>1. i # 1 /\ i \in 1..Len(events) /\ Len(events) \in Nat
        BY <1>1, <2>1, <2>3, <3>2
      <4> QED
        BY <1>1, <2>1, <3>2, <4>1
    <3> QED
      BY <2>1, <3>1, <3>2 DEF TurnTold, SessionId
  <2> QED
    BY <2>2, <2>3
<1> QED
  BY <1>6, <1>7, <1>8, <1>9, <1>10, <1>11, <1>12, <1>13, <1>14, <1>15 DEF Next

\* A live session that goes on with a transcript of its own has it recorded
\* once the orchestrator has heard all it said: the scope does not go back to
\* the transcript the CLI lost.
THEOREM TranscriptHeals == Spec => []SavedHeals
<1>1. Init => TurnTold
  BY DEF Init, TurnTold
<1>2. TypeOK /\ TurnTold => SavedHeals
  BY DEF TurnTold, SavedHeals
<1> QED
  BY <1>1, <1>2, BusTypes, TranscriptInductive, PTL DEF Spec

------------------------------------------------------------------------------
(* No caller is forgotten *)

InFlight(m) == \E c \in Cid : attempts[c].st # "over" /\ attempts[c].for = m

Due(m) == InFlight(m) \/ \E k \in closings : k.new.for = m

(* Only a clean-up a message waits for carries one. *)
CarryOnlySends == \A k \in closings : k.then # "send" => k.new.for = None

Callers == TypeOK /\ CarryOnlySends /\ NoCallerForgotten

\* A dispatch leaves nobody behind: whom a new attempt is for has that attempt
\* or an error, and an attempt in flight that it does not end stays.
LEMMA DispatchKeepsCallers ==
  ASSUME TypeOK, NEW batch \in Seq(Attempt), NEW as \in [Cid -> Attempt], NEW out,
         Dispatch(batch, as, out), NEW m \in Msg, outcome'[m] = "waiting",
         \/ \E i \in DOMAIN batch : batch[i].for = m
         \/ \E c \in Cid : /\ attempts[c].st # "over" /\ as[c].st # "over"
                           /\ as[c].for = m
  PROVE  InFlight(m)' /\ out[m] = "waiting"
<1>1. held \subseteq Text /\ wire \in Seq(Cid)
  BY DEF TypeOK
<1>2. outcome' = Refusals(out, batch)
  BY <1>1, DispatchFacts
<1>3. PICK ids \in [DOMAIN batch -> Cid \ InUse] :
              /\ \A i, j \in DOMAIN batch : ids[i] = ids[j] => i = j
              /\ \A i \in DOMAIN batch :
                   /\ attempts'[ids[i]].for = batch[i].for
                   /\ attempts'[ids[i]].st = "over" => Mismatch(batch[i].sudo)
              /\ \A c \in Cid : (\A i \in DOMAIN batch : ids[i] # c) => attempts'[c] = as[c]
  <2>1. NewAttempts(batch, as)
    BY <1>1, DispatchFacts
  <2> QED
    BY <2>1 DEF NewAttempts
<1>4. out[m] = "waiting"
  BY <1>2 DEF Refusals
<1>5. CASE \E i \in DOMAIN batch : batch[i].for = m
  <2>1. PICK i \in DOMAIN batch : batch[i].for = m
    BY <1>5
  <2>2. ~Mismatch(batch[i].sudo)
    BY <1>2, <1>4, <2>1 DEF Refusals
  <2>3. ids[i] \in Cid /\ attempts'[ids[i]].st # "over" /\ attempts'[ids[i]].for = m
    BY <1>3, <2>1, <2>2
  <2> QED
    BY <1>4, <2>3 DEF InFlight
<1>6. CASE \E c \in Cid : attempts[c].st # "over" /\ as[c].st # "over" /\ as[c].for = m
  <2>1. PICK c \in Cid : attempts[c].st # "over" /\ as[c].st # "over" /\ as[c].for = m
    BY <1>6
  <2>2. c \in InUse
    BY <2>1 DEF InUse
  <2>3. attempts'[c] = as[c]
    <3>1. \A i \in DOMAIN batch : ids[i] \in Cid \ InUse
      OBVIOUS
    <3> QED
      BY <1>3, <2>2, <3>1
  <2> QED
    BY <1>4, <2>1, <2>3 DEF InFlight
<1> QED
  BY <1>5, <1>6

\* Attempts that end settle the callers they are for.
LEMMA SettlingKeepsCallers ==
  ASSUME TypeOK, NEW cs, NEW o, o # "waiting", NEW out \in [Msg -> Outcome],
         attempts' = Over(cs), NEW m \in Msg, Settled(out, cs, o)[m] = "waiting"
  PROVE  out[m] = "waiting" /\ (InFlight(m) => InFlight(m)')
<1>1. out[m] = "waiting" /\ ~ \E c \in cs : attempts[c].for = m
  BY DEF Settled
<1>2. \A c \in Cid : c \notin cs => attempts'[c] = attempts[c]
  BY OverTyped DEF TypeOK
<1> QED
  BY <1>1, <1>2 DEF InFlight

LEMMA DispatchesKeepCallers ==
  ASSUME Callers, NEW m \in Msg, outcome'[m] = "waiting",
         (\E n \in Msg : Send(n)) \/ (\E c \in Cid : Timeout(c)) \/ ResumeInterrupted
  PROVE  Due(m)'
<1>1. /\ attempts \in [Cid -> Attempt] /\ outcome \in [Msg -> Outcome] /\ mode \in BOOLEAN
      /\ outcome[m] = "waiting" => Due(m) /\ TypeOK
      /\ closings' = closings /\ session' = session
  BY DEF Callers, TypeOK, NoCallerForgotten, Due, InFlight, Send, Timeout, ResumeInterrupted
<1>2. SUFFICES ASSUME ~ \E k \in closings : k.new.for = m
               PROVE  InFlight(m)'
  BY <1>1 DEF Due
<1>3. CASE \E n \in Msg : Send(n)
  <2>1. PICK n \in Msg : Send(n)
    BY <1>3
  <2> DEFINE out == [outcome EXCEPT ![n] = "waiting"]
             batch == <<First(n)>>
  <2>2. Dispatch(batch, attempts, out) /\ TypeOK
    BY <2>1 DEF Send, Callers
  <2>3. First(n) \in Attempt /\ First(n).for = n
    BY <1>1, BlankTyped
  <2>4. batch \in Seq(Attempt) /\ DOMAIN batch = {1} /\ batch[1].for = n
    BY <2>3
  <2>5. CASE n = m
    BY <1>1, <2>2, <2>4, <2>5, DispatchKeepsCallers
  <2>6. CASE n # m
    <3>1. outcome' = Refusals(out, batch)
      BY <1>1, <2>2, <2>4, DispatchFacts DEF TypeOK
    <3>2. outcome[m] = "waiting"
      BY <1>1, <2>6, <3>1 DEF Refusals
    <3>3. InFlight(m)
      BY <1>1, <1>2, <3>2 DEF Due
    <3> HIDE DEF batch, out
    <3> QED
      BY <1>1, <2>2, <2>4, <3>3, DispatchKeepsCallers DEF InFlight
  <2> QED
    BY <2>5, <2>6
<1>4. CASE \E c \in Cid : Timeout(c)
  <2>1. PICK c \in Cid : Timeout(c)
    BY <1>4
  <2> DEFINE a == attempts[c]
             text == IF session = None THEN a.text ELSE {Nudge}
             again == [a EXCEPT !.text = text, !.retries = @ + 1]
  <2>2. CASE a.retries < MaxContinue
    <3>1. a \in Attempt /\ text \subseteq Text
      BY <1>1 DEF Attempt, Text
    <3>2. a.retries + 1 \in 0..MaxContinue
      BY <2>2, <3>1, BoundsAssumption DEF Attempt
    <3>3. Dispatch(<<again>>, Over({c}), outcome)
      BY <2>1, <2>2 DEF Timeout
    <3> HIDE DEF a, text
    <3>4. again \in Attempt /\ again.for = a.for
      BY <3>1, <3>2 DEF Attempt
    <3> HIDE DEF again
    <3>5. <<again>> \in Seq(Attempt) /\ DOMAIN <<again>> = {1} /\ <<again>>[1].for = a.for
      BY <3>4
    <3>6. /\ Over({c}) \in [Cid -> Attempt] /\ TypeOK
          /\ \A d \in Cid : d # c => Over({c})[d] = attempts[d]
      BY <1>1, OverTyped DEF Callers
    <3>7. outcome[m] = "waiting"
      <4>1. outcome' = Refusals(outcome, <<again>>)
        BY <3>3, <3>5, <3>6, DispatchFacts DEF TypeOK
      <4> QED
        BY <4>1 DEF Refusals
    <3>8. PICK d \in Cid : attempts[d].st # "over" /\ attempts[d].for = m
      BY <1>1, <1>2, <3>7 DEF Due, InFlight
    <3>9. CASE d = c
      BY <3>3, <3>5, <3>6, <3>8, <3>9, DispatchKeepsCallers DEF a
    <3>10. CASE d # c
      BY <3>3, <3>5, <3>6, <3>8, <3>10, DispatchKeepsCallers
    <3> QED
      BY <3>9, <3>10
  <2>3. CASE ~(a.retries < MaxContinue)
    <3>1. attempts' = Over({c}) /\ outcome' = Settled(outcome, {c}, "error")
      BY <2>1, <2>3 DEF Timeout
    <3>2. Settled(outcome, {c}, "error")[m] = "waiting" /\ TypeOK
      BY <3>1 DEF Callers
    <3>3. outcome[m] = "waiting" /\ (InFlight(m) => InFlight(m)')
      BY <1>1, <3>1, <3>2, SettlingKeepsCallers
    <3> QED
      BY <1>1, <1>2, <3>3 DEF Due
  <2> QED
    BY <2>2, <2>3
<1>5. CASE ResumeInterrupted
  <2> DEFINE continued == [Blank EXCEPT !.sudo = mode]
             batch == IF held = {} THEN <<>> ELSE <<continued>>
  <2>1. continued \in Attempt
    BY <1>1, BlankTyped DEF Attempt
  <2>2. Dispatch(batch, attempts, outcome)
    BY <1>5 DEF ResumeInterrupted
  <2> HIDE DEF continued
  <2>3. batch \in Seq(Attempt)
    BY <2>1
  <2> HIDE DEF batch
  <2>4. outcome[m] = "waiting"
    <3>1. outcome' = Refusals(outcome, batch)
      BY <1>1, <2>2, <2>3, DispatchFacts DEF Callers, TypeOK
    <3> QED
      BY <3>1 DEF Refusals
  <2>5. InFlight(m)
    BY <1>1, <1>2, <2>4 DEF Due
  <2> QED
    BY <1>1, <2>2, <2>3, <2>5, DispatchKeepsCallers DEF Callers, InFlight
<1> QED
  BY <1>3, <1>4, <1>5

\* What follows a clean-up sends the message that waited for it, or the
\* attempts it ended, again.
LEMMA CleanUpKeepsCallers ==
  ASSUME Callers, NEW k \in closings, CloseSettled(k) \/ ResetSent(k),
         NEW m \in Msg, outcome'[m] = "waiting"
  PROVE  Due(m)'
<1>1. /\ TypeOK /\ attempts \in [Cid -> Attempt] /\ outcome \in [Msg -> Outcome]
      /\ k \in Closing /\ m # None
      /\ outcome[m] = "waiting" => Due(m)
      /\ \A j \in closings : j.then # "send" => j.new.for # m
  BY MessagesAssumption DEF Callers, TypeOK, NoCallerForgotten, Due, InFlight, CarryOnlySends
<1>2. CASE CloseSettled(k)
  <2> DEFINE batch == IF k.then = "resume" THEN <<>>
                      ELSE IF k.then = "send" THEN <<k.new>> ELSE Retries(k)
             as == IF k.then \in {"resume", "send"} THEN attempts ELSE Over(k.retry)
  <2>1. Dispatch(batch, as, outcome) /\ closings' = closings \ {k}
    <3>1. CASE k.then = "resume"
      BY <1>2, <3>1 DEF CloseSettled
    <3>2. CASE k.then = "send"
      BY <1>2, <3>2 DEF CloseSettled
    <3>3. CASE k.then \notin {"resume", "send"}
      BY <1>2, <3>3 DEF CloseSettled
    <3> QED
      BY <3>1, <3>2, <3>3
  <2>2. /\ k.new \in Attempt /\ <<>> \in Seq(Attempt) /\ Retries(k) \in Seq(Attempt)
        /\ Over(k.retry) \in [Cid -> Attempt]
        /\ \A c \in k.retry : \E i \in DOMAIN Retries(k) : Retries(k)[i].for = attempts[c].for
        /\ \A c \in Cid : Over(k.retry)[c].for = attempts[c].for
                          /\ (c \notin k.retry => Over(k.retry)[c] = attempts[c])
    BY <1>1, RetriesFacts, OverTyped DEF Closing
  <2>3. <<k.new>> \in Seq(Attempt) /\ DOMAIN <<k.new>> = {1} /\ <<k.new>>[1] = k.new
    BY <2>2
  <2>4. batch \in Seq(Attempt) /\ as \in [Cid -> Attempt]
    BY <1>1, <2>2, <2>3
  <2>5. k.then = "send" => DOMAIN batch = {1} /\ batch[1] = k.new
    BY <2>3
  <2>6. k.then \notin {"resume", "send"} => batch = Retries(k) /\ as = Over(k.retry)
    OBVIOUS
  <2>7. k.then \in {"resume", "send"} => as = attempts
    OBVIOUS
  <2> HIDE DEF batch, as
  <2>8. outcome[m] = "waiting"
    <3>1. outcome' = Refusals(outcome, batch)
      BY <1>1, <2>1, <2>4, DispatchFacts DEF TypeOK
    <3> QED
      BY <3>1 DEF Refusals
  <2>9. CASE \E j \in closings : j.new.for = m
    <3>1. PICK j \in closings : j.new.for = m
      BY <2>9
    <3>2. CASE j = k
      <4>1. k.then = "send" /\ batch[1].for = m /\ 1 \in DOMAIN batch
        BY <1>1, <2>5, <3>1, <3>2
      <4> QED
        BY <1>1, <2>1, <2>4, <4>1, DispatchKeepsCallers DEF Due
    <3>3. CASE j # k
      BY <2>1, <3>1, <3>3 DEF Due
    <3> QED
      BY <3>2, <3>3
  <2>10. CASE InFlight(m)
    <3>1. PICK c \in Cid : attempts[c].st # "over" /\ attempts[c].for = m
      BY <2>10 DEF InFlight
    <3>2. CASE k.then \notin {"resume", "send"} /\ c \in k.retry
      <4>1. \E i \in DOMAIN batch : batch[i].for = m
        BY <2>2, <2>6, <3>1, <3>2
      <4> QED
        BY <1>1, <2>1, <2>4, <4>1, DispatchKeepsCallers DEF Due
    <3>3. CASE k.then \in {"resume", "send"} \/ c \notin k.retry
      <4>1. as[c] = attempts[c]
        BY <2>2, <2>6, <2>7, <3>3
      <4>2. \E d \in Cid : attempts[d].st # "over" /\ as[d].st # "over" /\ as[d].for = m
        BY <3>1, <4>1
      <4>3. InFlight(m)'
        BY <1>1, <2>1, <2>4, <4>2, DispatchKeepsCallers
      <4> QED
        BY <4>3 DEF Due
    <3> QED
      BY <3>2, <3>3
  <2> QED
    BY <1>1, <2>8, <2>9, <2>10 DEF Due
<1>3. CASE ResetSent(k)
  <2>1. attempts' = attempts /\ outcome' = outcome /\ k.then = "close"
        /\ closings \ {k} \subseteq closings'
    BY <1>3 DEF ResetSent
  <2>2. \A j \in closings : j.new.for = m => j \in closings'
    BY <1>1, <2>1
  <2> QED
    BY <1>1, <2>1, <2>2 DEF Due, InFlight
<1> QED
  BY <1>2, <1>3

\* Closes and switches: who is cut off is told so, the message that asks for
\* the switch waits for the clean-up.
LEMMA ClosesKeepCallers ==
  ASSUME Callers, NEW m \in Msg, outcome'[m] = "waiting",
         \/ CloseSession \/ SudoSwitch \/ HandleReady
         \/ \E n \in Msg : SwitchForMessage(n)
  PROVE  Due(m)'
<1>1. /\ TypeOK /\ outcome \in [Msg -> Outcome] /\ mode \in BOOLEAN
      /\ outcome[m] = "waiting" => Due(m)
      /\ closings \subseteq closings'
  BY DEF Callers, TypeOK, NoCallerForgotten, Due, InFlight, CloseSession, SudoSwitch, HandleReady,
         SwitchForMessage, BeginClose
<1>2. SUFFICES ASSUME ~ \E k \in closings : k.new.for = m
               PROVE  Due(m)'
  BY <1>1 DEF Due
<1>3. CASE CloseSession \/ HandleReady
  BY <1>1, <1>2, <1>3 DEF CloseSession, HandleReady, Due, InFlight
<1>4. ASSUME NEW out \in [Msg -> Outcome], HoldUnanswered(out)
      PROVE  out[m] = "waiting" /\ (InFlight(m) => InFlight(m)')
  <2>1. attempts' = Over(Pending) /\ outcome' = Settled(out, Pending, "interrupted")
    BY <1>4 DEF HoldUnanswered
  <2>2. Settled(out, Pending, "interrupted")[m] = "waiting"
    BY <2>1
  <2> QED
    BY <1>1, <1>4, <2>1, <2>2, SettlingKeepsCallers
<1>5. CASE SudoSwitch
  BY <1>1, <1>2, <1>4, <1>5 DEF SudoSwitch, Due
<1>6. CASE \E n \in Msg : SwitchForMessage(n)
  <2>1. PICK n \in Msg : SwitchForMessage(n)
    BY <1>6
  <2> DEFINE out == [outcome EXCEPT ![n] = "waiting"]
             k == [sid |-> SessionId, then |-> "send", retry |-> {}, new |-> First(n)]
  <2>2. HoldUnanswered(out) /\ k \in closings' /\ out \in [Msg -> Outcome]
    BY <1>1, <2>1 DEF SwitchForMessage, BeginClose, Outcome
  <2>3. CASE n = m
    <3>1. k.new.for = m
      BY <1>1, <2>3, BlankTyped
    <3> QED
      BY <2>2, <3>1 DEF Due
  <2>4. CASE n # m
    <3>1. out[m] = outcome[m]
      BY <1>1, <2>4
    <3> HIDE DEF out
    <3>2. outcome[m] = "waiting" /\ (InFlight(m) => InFlight(m)')
      BY <1>4, <2>2, <3>1
    <3> QED
      BY <1>1, <1>2, <3>2 DEF Due
  <2> QED
    BY <2>3, <2>4
<1> QED
  BY <1>3, <1>5, <1>6

LEMMA EventsKeepCallers ==
  ASSUME Callers, NEW m \in Msg, outcome'[m] = "waiting", HandleEvent
  PROVE  Due(m)'
<1> DEFINE e == Head(events)
<1>1. /\ TypeOK /\ outcome \in [Msg -> Outcome]
      /\ outcome[m] = "waiting" => Due(m)
      /\ closings \subseteq closings'
  BY DEF Callers, TypeOK, NoCallerForgotten, Due, InFlight, HandleEvent, HandleTurn, HandleResult,
         HandleError, HandleStale
<1>2. SUFFICES outcome[m] = "waiting" /\ (InFlight(m) => InFlight(m)')
  BY <1>1 DEF Due
<1>3. CASE attempts' = attempts /\ outcome' = outcome
  BY <1>3 DEF InFlight
<1>4. CASE HandleError(e.cid)
  <2>1. /\ attempts' = Over({e.cid} \cap Pending)
        /\ Settled(outcome, {e.cid} \cap Pending, "error")[m] = "waiting"
    BY <1>4 DEF HandleError
  <2> QED
    BY <1>1, <2>1, SettlingKeepsCallers
<1>5. CASE \E o \in {"replied", "empty"} : HandleResult(e.cid, o) /\ e.cid \in Pending
  <2>1. PICK o \in {"replied", "empty"} : HandleResult(e.cid, o) /\ e.cid \in Pending
    BY <1>5
  <2> DEFINE out == Settled(outcome, {e.cid}, o)
  <2>2. out \in [Msg -> Outcome] /\ (out[m] = "waiting" => outcome[m] = "waiting")
    BY <1>1, <2>1 DEF Settled, Outcome
  <2>3. attempts' = Over(Pending) /\ Settled(out, Pending, "empty")[m] = "waiting"
    BY <2>1 DEF HandleResult
  <2> HIDE DEF out
  <2> QED
    BY <1>1, <2>2, <2>3, SettlingKeepsCallers
<1> QED
  BY <1>3, <1>4, <1>5 DEF HandleEvent, HandleTurn, HandleResult, HandleStale

LEMMA CreationKeepsCallers ==
  ASSUME Callers, NEW m \in Msg, outcome'[m] = "waiting", NEW c \in Cid,
         SessionCreated(c) \/ CreateFailed(c)
  PROVE  Due(m)'
<1>1. /\ TypeOK /\ attempts \in [Cid -> Attempt] /\ outcome \in [Msg -> Outcome]
      /\ outcome[m] = "waiting" => Due(m)
      /\ closings' = closings
  BY DEF Callers, TypeOK, NoCallerForgotten, Due, InFlight, SessionCreated, CreateFailed
<1>2. CASE SessionCreated(c)
  <2>1. outcome' = outcome /\ attempts' = [attempts EXCEPT ![c].st = "pending"]
    BY <1>2 DEF SessionCreated
  <2>2. \A d \in Cid : /\ attempts'[d].for = attempts[d].for
                       /\ attempts[d].st # "over" => attempts'[d].st # "over"
    BY <1>1, <2>1 DEF Attempt
  <2> QED
    BY <1>1, <2>1, <2>2 DEF Due, InFlight
<1>3. CASE CreateFailed(c)
  <2>1. attempts' = Over({c}) /\ Settled(outcome, {c}, "error")[m] = "waiting"
    BY <1>3 DEF CreateFailed
  <2>2. outcome[m] = "waiting" /\ (InFlight(m) => InFlight(m)')
    BY <1>1, <2>1, SettlingKeepsCallers
  <2> QED
    BY <1>1, <2>2 DEF Due
<1> QED
  BY <1>2, <1>3

LEMMA CarryOnlySendsStays ==
  ASSUME TypeOK, CarryOnlySends, [Next]_vars
  PROVE  CarryOnlySends'
<1>1. CASE closings' \subseteq closings
  BY <1>1 DEF CarryOnlySends
<1>2. ASSUME NEW then, NEW retry, NEW new, BeginClose(then, retry, new),
             then = "send" \/ new.for = None
      PROVE  CarryOnlySends'
  BY <1>2 DEF BeginClose, CarryOnlySends
<1>3. Blank.for = None
  BY BlankTyped
<1>4. CASE CloseSession \/ SudoSwitch \/ HandleReady \/ \E m \in Msg : SwitchForMessage(m)
  BY <1>1, <1>2, <1>3, <1>4 DEF CloseSession, SudoSwitch, HandleReady, SwitchForMessage
<1>5. CASE \E k \in closings : ResetSent(k)
  <2>1. PICK k \in closings : ResetSent(k)
    BY <1>5
  <2>2. k \in Closing /\ k.new.for = None
    BY <2>1 DEF TypeOK, ResetSent, CarryOnlySends
  <2>3. [k EXCEPT !.sid = SessionId, !.then = "retryFresh"].new.for = None
    BY <2>2 DEF Closing
  <2> QED
    BY <2>1, <2>3 DEF ResetSent, CarryOnlySends
<1>6. CASE HandleEvent
  BY <1>3, <1>6
     DEF HandleEvent, HandleTurn, HandleResult, HandleError, HandleStale, CarryOnlySends
<1>7. CASE \E k \in closings : CloseSettled(k) \/ DeleteArrives(k)
  BY <1>1, <1>7 DEF CloseSettled, DeleteArrives, bridgeVars
<1>8. CASE \/ \E m \in Msg : Send(m)
           \/ \E c \in Cid : SessionCreated(c) \/ CreateFailed(c) \/ Timeout(c)
           \/ SudoExpires \/ ResumeInterrupted \/ Deliver \/ ReadItem \/ WorkerStep
           \/ CliCrash \/ WorkerRestart \/ UNCHANGED vars
  BY <1>1, <1>8
     DEF Send, SessionCreated, CreateFailed, Timeout, SudoExpires, ResumeInterrupted, Deliver,
         ReadItem, WorkerStep, CliCrash, WorkerRestart, bridgeVars, vars
<1> QED
  BY <1>4, <1>5, <1>6, <1>7, <1>8 DEF Next

LEMMA CallersInductive ==
  ASSUME Callers, [Next]_vars
  PROVE  Callers'
<1>1. TypeOK' /\ CarryOnlySends'
  BY BusKeepsTypes, CarryOnlySendsStays DEF Callers
<1>2. ASSUME NEW m \in Msg, outcome'[m] = "waiting"
      PROVE  Due(m)'
  <2>1. CASE attempts' = attempts /\ outcome' = outcome /\ closings' = closings
    BY <1>2, <2>1 DEF Callers, NoCallerForgotten, Due, InFlight
  <2>2. CASE \/ SudoExpires \/ (\E k \in closings : DeleteArrives(k)) \/ Deliver \/ ReadItem
             \/ WorkerStep \/ CliCrash \/ WorkerRestart \/ UNCHANGED vars
    BY <2>1, <2>2
       DEF SudoExpires, DeleteArrives, Deliver, ReadItem, WorkerStep, CliCrash, WorkerRestart,
           bridgeVars, vars
  <2> QED
    BY <1>2, <2>2, DispatchesKeepCallers, CleanUpKeepsCallers, ClosesKeepCallers,
       EventsKeepCallers, CreationKeepsCallers DEF Next
<1>3. NoCallerForgotten'
  BY <1>2 DEF NoCallerForgotten, Due, InFlight
<1> QED
  BY <1>1, <1>3 DEF Callers

\* Every caller who waits has an attempt in flight, or a clean-up that will
\* make one, through retries, restarts, stale sessions and mode switches.
THEOREM CallersRemembered == Spec => []NoCallerForgotten
<1>1. Init => Callers
  BY BusStartsTyped DEF Init, Callers, CarryOnlySends, NoCallerForgotten
<1>2. Callers => NoCallerForgotten
  BY DEF Callers
<1> QED
  BY <1>1, <1>2, CallersInductive, PTL DEF Spec
==============================================================================
