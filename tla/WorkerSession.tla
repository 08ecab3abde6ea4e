----------------------------- MODULE WorkerSession -----------------------------
(***************************************************************************)
(* One worker session from its start to its end: WorkerLoop with a sender  *)
(* that sends each message once, at any time, and a subscriber that takes  *)
(* the events.  reads, told, received and crashes only remember.           *)
(***************************************************************************)
EXTENDS WorkerLoop

CONSTANT MaxCrashes   \* bound on crashes of the CLI and the end of the session

ASSUME MaxCrashesAssumption == MaxCrashes \in Nat
ASSUME NumberedAssumption == Cid \subseteq Nat

VARIABLES
  received,  \* the messages the loop has received
  reads,     \* reads[c]: how often the agent read message c
  told,      \* told[c]: how many results, empty ones included, name c
  crashes

sessionVars == <<loop, events, uploads, received, reads, told, crashes>>

\* The event an Emit of this step appends, if it names a message.
Naming(c) == { i \in (Len(events) + 1)..Len(events') :
                 events'[i].cid = c /\ events'[i].kind \in {"result", "empty"} }

CountTold ==
  told' = [c \in Cid |-> IF Naming(c) # {} THEN told[c] + 1 ELSE told[c]]

SessionInit ==
  /\ \E r \in Resume, s \in Session : loop = NewLoop(s, r)
  /\ events = <<>> /\ uploads = {}
  /\ received = {}
  /\ reads = [c \in Cid |-> 0]
  /\ told = [c \in Cid |-> 0]
  /\ crashes = 0

\* Messages are numbered in the order they arrive.
Receive(c) ==
  /\ c \notin received
  /\ \A d \in Cid : d < c => d \in received
  /\ MessageHandler(c)
  /\ received' = received \cup {c}
  /\ UNCHANGED <<reads, told, crashes>>

Takes(item) ==
  /\ CliRead(item)
  /\ reads' = [c \in Cid |-> IF c \in item THEN reads[c] + 1 ELSE reads[c]]
  /\ UNCHANGED <<received, told, crashes>>

Answer(e) == Result(e) /\ CountTold /\ UNCHANGED <<received, reads, crashes>>

PublishResult(e) ==
  PublishFiles(e) /\ CountTold /\ UNCHANGED <<received, reads, crashes>>

Quiet ==
  /\ StartQuery \/ TaskStarts \/ TaskEnds \/ CliIdle \/ QueryEnds
  /\ UNCHANGED <<received, reads, told, crashes>>

CrashStep ==
  /\ crashes < MaxCrashes
  /\ SilentEnd \/ QueryThrows \/ Abort
  /\ crashes' = crashes + 1
  /\ CountTold
  /\ UNCHANGED <<received, reads>>

\* A session that resumes a lost transcript fails at each query.
FailStale ==
  /\ StaleSession
  /\ crashes' = crashes + 1
  /\ UNCHANGED <<received, reads, told>>

\* The orchestrator takes the next event.
Consume ==
  /\ events # <<>>
  /\ events' = Tail(events)
  /\ UNCHANGED <<loop, uploads, received, reads, told, crashes>>

ReadNext == loop.unread # <<>> /\ Takes(Head(loop.unread))

Reply == Answer(ResultEvent)

SessionNext ==
  \/ \E c \in Cid : Receive(c)
  \/ ReadNext
  \/ Reply
  \/ \E e \in uploads : PublishResult(e)
  \/ Quiet
  \/ CrashStep
  \/ FailStale
  \/ Consume

\* The loop's own continuations run and the CLI takes input and finishes its
\* turns; publishing never blocks in the code, so what the bound on events
\* holds up for a while happens (strong fairness).  A session that cannot
\* resume its transcript fails.  Nobody need send, start tasks or crash.
SessionFairness ==
  /\ WF_sessionVars(StartQuery /\ UNCHANGED <<received, reads, told, crashes>>)
  /\ SF_sessionVars(ReadNext)
  /\ SF_sessionVars(Reply)
  /\ SF_sessionVars(FailStale)
  /\ \A c \in Cid : SF_sessionVars(PublishResult([kind |-> "result", cid |-> c]))
  /\ WF_sessionVars(Consume)

SessionSpec == SessionInit /\ [][SessionNext]_sessionVars /\ SessionFairness

------------------------------------------------------------------------------
(* Properties *)

SessionTypeOK ==
  /\ LoopTypeOK
  /\ received \subseteq Cid
  /\ reads \in [Cid -> Nat]
  /\ told \in [Cid -> Nat]
  /\ crashes \in Nat

\* A correlation id gets at most one result, through requeued messages,
\* follow-ups, crashes and results published late.
AnsweredOnce == \A c \in Cid : told[c] <= 1

\* A reply is owed for a message: the loop works on it under its id.
Owed(c) == loop.running /\ ~loop.replied /\ loop.replyCid = c

\* Whoever the running query answers gets an answer, unless the CLI or the
\* session ends first.
ReplyComes ==
  \A c \in Cid : Owed(c) ~> (told[c] > 0 \/ crashes > 0)

\* Where a message is, as the promise to the sender sees it.
Status ==
  [c \in Cid |->
     CASE c \in loop.pending \cup Unread -> "queued"
       [] c \notin loop.pending \cup Unread /\ reads[c] > 0 -> "read"
       [] c \notin loop.pending \cup Unread /\ reads[c] = 0 ->
            IF c \in received THEN "lost" ELSE "away"]

Feed == INSTANCE MessageFeed WITH status <- Status

\* The loop keeps the promise of MessageFeed: no message is lost or read
\* twice without a crash, and what is queued is read in the end.
KeepsFeed == Feed!Spec
==============================================================================
