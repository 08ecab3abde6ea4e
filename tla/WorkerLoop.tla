------------------------------ MODULE WorkerLoop ------------------------------
(***************************************************************************)
(* The message loop of one worker session                                  *)
(* (packages/worker/src/session.ts, runPersistentLoop) and the query it    *)
(* runs (packages/worker/src/agent.ts, runAgentSession).                   *)
(*                                                                         *)
(* A message is its correlation id.  The CLI behind the query is external: *)
(* it takes what was pushed when it likes, ends turns, starts and ends     *)
(* background tasks, reports idle, and may die.  The loop reacts.          *)
(* The module has the loop's actions and no environment: WorkerSession     *)
(* closes it with any sender, DispatchBus with the orchestrator's bridge.  *)
(***************************************************************************)
EXTENDS Naturals, Sequences, SequencesExt

CONSTANTS Cid,        \* correlation ids
          Session,    \* worker session ids
          None,       \* no session, no correlation
          MaxEvents   \* bound on published events nobody has taken yet

ASSUME NoneAssumption == None \notin Cid /\ None \notin Session
ASSUME EventsAssumption == MaxEvents \in Nat

VARIABLES
  loop,      \* the loop subscribed to the scope's channel
  events,    \* stockade:evt:{scope}, published and not yet handled
  uploads    \* results whose files are still being read

loopVars == <<loop, events, uploads>>

\* Transcript the next query resumes: none, one the CLI has, one it has lost.
Resume == {"none", "good", "dead"}

Event ==
  [kind : {"turn", "tasks", "noTasks", "result", "empty", "followup", "error",
           "stale"},
   cid  : Cid \cup {None}]

(* pending, current: pendingMessages, currentCorrelationId.  running: a      *)
(* query runs; unread: what was pushed into its channel and not taken (the   *)
(* first item is the merged prompt); replyCid, replied, afterReply as in the *)
(* code.  answered, inTurn, idle, tasks: runAgentSession's replied, inTurn,  *)
(* cliIdle, liveTasks > 0. *)
Loop ==
  [sid : Session \cup {None}, resume : Resume,
   pending : SUBSET Cid, current : Cid \cup {None},
   running : BOOLEAN, unread : Seq(SUBSET Cid),
   replyCid : Cid \cup {None}, replied : BOOLEAN, afterReply : SUBSET Cid,
   answered : BOOLEAN, inTurn : BOOLEAN, idle : BOOLEAN, tasks : BOOLEAN]

NewLoop(s, resume) ==
  [sid |-> s, resume |-> resume, pending |-> {}, current |-> None,
   running |-> FALSE, unread |-> <<>>, replyCid |-> None, replied |-> TRUE,
   afterReply |-> {}, answered |-> FALSE, inTurn |-> FALSE, idle |-> FALSE,
   tasks |-> FALSE]

NoLoop == NewLoop(None, "none")

LoopTypeOK ==
  /\ loop \in Loop
  /\ events \in Seq(Event) /\ Len(events) <= MaxEvents + 1
  /\ uploads \subseteq Event

Unread == UNION { loop.unread[i] : i \in DOMAIN loop.unread }

\* The query's channel: what is pushed waits for the CLI to take it.
Pushed(c) == Append(loop.unread, {c})

Taken == Tail(loop.unread)

\* Publishing never blocks in the code; the model waits for the orchestrator
\* when it is MaxEvents behind.
Emit(kind, c) ==
  /\ Len(events) < MaxEvents
  /\ events' = Append(events, [kind |-> kind, cid |-> c])

------------------------------------------------------------------------------
\* A message reaches the subscribed loop.  During a query it is pushed into
\* the running turn, and after the reply it is what the next result answers.
MessageHandler(c) ==
  /\ loop.sid # None
  /\ loop' =
       IF ~loop.running
         THEN [loop EXCEPT !.current = c, !.pending = @ \cup {c}]
       ELSE IF loop.replied
         THEN [loop EXCEPT !.current = c, !.unread = Pushed(c),
                           !.replyCid = c, !.replied = FALSE, !.afterReply = {c}]
       ELSE [loop EXCEPT !.current = c, !.unread = Pushed(c),
                         !.afterReply = @ \cup {c}]
  /\ UNCHANGED <<events, uploads>>

\* A query whose prompt is the given messages, answered under the id c.
Querying(prompt, c) ==
  [NewLoop(loop.sid, loop.resume) EXCEPT
     !.running = TRUE, !.unread = <<prompt>>, !.current = c, !.replyCid = c,
     !.replied = FALSE]

\* All pending messages become one prompt, answered under the last one's id.
StartQuery ==
  /\ loop.sid # None /\ ~loop.running /\ loop.pending # {}
  /\ loop' = Querying(loop.pending, loop.current)
  /\ UNCHANGED <<events, uploads>>

\* The CLI takes the next pushed item, at the start of a turn or between two
\* tool calls, and the model's call is reported.
CliRead(item) ==
  /\ loop.running /\ loop.resume # "dead"
  /\ loop.unread # <<>> /\ item = Head(loop.unread)
  /\ loop' = [loop EXCEPT !.unread = Taken, !.resume = "good",
                          !.inTurn = TRUE, !.idle = FALSE]
  /\ Emit("turn", None)
  /\ UNCHANGED uploads

TaskStarts ==
  /\ loop.running /\ loop.inTurn /\ ~loop.tasks
  /\ loop' = [loop EXCEPT !.tasks = TRUE, !.idle = FALSE]
  /\ Emit("tasks", None)
  /\ UNCHANGED uploads

\* A background task ends, and wakes the model unless it is at work.
TaskEnds ==
  /\ loop.running /\ loop.tasks
  /\ loop' = [loop EXCEPT !.tasks = FALSE, !.inTurn = TRUE, !.idle = FALSE]
  /\ Len(events) < MaxEvents
  /\ events' = events \o
       IF loop.inTurn THEN <<[kind |-> "noTasks", cid |-> None]>>
       ELSE <<[kind |-> "noTasks", cid |-> None], [kind |-> "turn", cid |-> None]>>
  /\ UNCHANGED uploads

\* Mutant: a result of a kind the bridge does not know.
ResultEventUnknown ==
  [kind |-> IF loop.replied THEN "followup" ELSE "reply", cid |-> loop.replyCid]

\* Mutant: a result answers the last message received.
ResultEventLast ==
  IF loop.replied THEN [kind |-> "followup", cid |-> None]
                  ELSE [kind |-> "result", cid |-> loop.current]

\* Which message a result answers: nobody's once the reply has gone out.
ResultEvent ==
  IF loop.replied THEN [kind |-> "followup", cid |-> None]
                  ELSE [kind |-> "result", cid |-> loop.replyCid]

\* Mutant: the reply is not noted as given.
ResultUnnoted(answer) ==
  /\ loop.running /\ loop.inTurn
  /\ answer = ResultEvent
  /\ loop' = [loop EXCEPT !.inTurn = FALSE, !.answered = TRUE, !.afterReply = {}]
  /\ \/ Emit(answer.kind, answer.cid) /\ UNCHANGED uploads
     \/ uploads' = uploads \cup {answer} /\ UNCHANGED events

\* A turn ends.  A result with files is published when they have been read.
Result(answer) ==
  /\ loop.running /\ loop.inTurn
  /\ answer = ResultEvent
  /\ loop' = [loop EXCEPT !.inTurn = FALSE, !.answered = TRUE,
                          !.replied = TRUE, !.afterReply = {}]
  /\ \/ Emit(answer.kind, answer.cid) /\ UNCHANGED uploads
     \/ uploads' = uploads \cup {answer} /\ UNCHANGED events

PublishFiles(e) ==
  /\ e \in uploads
  /\ uploads' = uploads \ {e}
  /\ Emit(e.kind, e.cid)
  /\ UNCHANGED loop

\* The CLI reports idle once its queue has drained.
CliIdle ==
  /\ loop.running /\ loop.answered /\ ~loop.inTurn /\ ~loop.idle
  /\ loop.unread = <<>>
  /\ loop' = [loop EXCEPT !.idle = TRUE]
  /\ UNCHANGED <<events, uploads>>

------------------------------------------------------------------------------
(* The end of a query *)

\* No query runs and none is due.
Waiting ==
  [NewLoop(loop.sid, loop.resume) EXCEPT
     !.pending = loop.pending, !.current = loop.current,
     !.replyCid = loop.replyCid]

\* Mutant: a message that arrived after the reply is not carried over.
FinishedDropping(failed) == Waiting

\* The finally block and the loop's next round: what arrived after the reply
\* and got no result is the next query's prompt, at once, under replyCid.
Finished(failed) ==
  IF ~loop.replied /\ ~failed /\ loop.afterReply # {}
    THEN Querying(loop.afterReply, loop.replyCid)
    ELSE Waiting

\* The wait after the reply is over: two quiet seconds after an idle report
\* with no task left, or the long waits, in which the CLI has started on
\* whatever it had before its last result.
WaitOver ==
  /\ loop.running /\ loop.answered /\ ~loop.inTurn
  /\ \/ loop.idle /\ ~loop.tasks
     \/ Unread \subseteq loop.afterReply

QueryEnds ==
  /\ WaitOver
  /\ loop' = Finished(FALSE)
  /\ UNCHANGED <<events, uploads>>

\* The CLI's stream ends by itself: before the first reply that is an empty
\* reply, later the query just ends.
SilentEnd ==
  /\ loop.running /\ loop.resume # "dead"
  /\ IF loop.answered
       THEN /\ loop' = Finished(FALSE)
            /\ UNCHANGED events
       ELSE /\ loop' = Finished(TRUE)
            /\ Emit("empty", loop.replyCid)
  /\ UNCHANGED uploads

\* The stream throws: an error for replyCid, and nothing is carried over.
QueryThrows ==
  /\ loop.running /\ loop.resume # "dead"
  /\ loop' = Finished(TRUE)
  /\ Emit("error", loop.replyCid)
  /\ UNCHANGED uploads

\* The CLI does not have the transcript the query resumes.
StaleSession ==
  /\ loop.running /\ loop.resume = "dead"
  /\ loop' = Finished(FALSE)
  /\ Emit("stale", loop.replyCid)
  /\ UNCHANGED uploads

\* DELETE, eviction by a newer session, or the death of the worker process:
\* the loop goes, whatever it was doing, and answers nobody.
Abort ==
  /\ loop.sid # None
  /\ loop' = NoLoop
  /\ UNCHANGED <<events, uploads>>
==============================================================================
