------------------------------ MODULE Approvals ------------------------------
(***************************************************************************)
(* Approvals: the hub that keeps them                                      *)
(* (packages/orchestrator/src/controller-approvals.ts), the two places     *)
(* where they are answered, the app and a Discord channel                  *)
(* (channels/discord.ts), and the app's event stream, which learns of them *)
(* in turn (controller.ts, api/controller-routes.ts).                      *)
(*                                                                         *)
(* An approval in the app is answered by the app or by its timer.  One in  *)
(* Discord is a message with buttons, shown in the app for reading.  Names *)
(* of approvals are used again once nothing refers to them.                *)
(***************************************************************************)
EXTENDS Integers, Sequences, FiniteSets, SequencesExt

CONSTANTS Id

VARIABLES
  asks,    \* asks[i]: the approval's place and stage, and the answer being given
  pending, \* the hub's approvals
  posts,   \* Discord messages with buttons, oldest first
  stream,  \* the app's event stream
  replay,  \* the approvals a new stream found waiting
  queue,   \* approval events on their way to the stream, in the hub's order
  shown    \* the approvals the app shows

approvalVars == <<asks, pending, posts, stream, replay, queue, shown>>

Answer == {"allow", "deny", "unanswered"}

NoAsk == [place |-> "none", stage |-> "none", answer |-> "unanswered"]

\* "posting": the Discord message is being sent.  "closing": it was answered or its
\* time is over, and the message is being edited.
ApprovalTypeOK ==
  /\ asks \in [Id -> [place  : {"none", "app", "discord", "question"},
                      stage  : {"none", "posting", "waiting", "closing"},
                      answer : Answer]]
  /\ pending \subseteq Id
  /\ posts \in Seq(Id)
  /\ stream \in {"closed", "listing", "open"}
  /\ replay \subseteq Id
  /\ queue \in Seq([type : {"approval", "decision"}, id : Id, answer : Answer])
  /\ shown \subseteq Id

ApprovalInit ==
  /\ asks = [i \in Id |-> NoAsk]
  /\ pending = {}
  /\ posts = <<>>
  /\ stream = "closed"
  /\ replay = {}
  /\ queue = <<>>
  /\ shown = {}

Mentions(i) == \E n \in DOMAIN queue : queue[n].id = i

Unused(i) ==
  /\ asks[i] = NoAsk
  /\ ~Mentions(i)
  /\ i \notin pending \cup shown \cup replay \cup Range(posts)

\* emit(), and the controller's listener: an event goes to the streams open now.
Emits(type, i, answer) ==
  queue' = IF stream = "closed" THEN queue
           ELSE Append(queue, [type |-> type, id |-> i, answer |-> answer])

\* wait() and mirror(): the approval is entered and announced.
Raises(i, place) ==
  /\ asks' = [asks EXCEPT ![i] = [place  |-> place,
                                  stage  |-> IF place = "app" THEN "waiting" ELSE "posting",
                                  answer |-> "unanswered"]]
  /\ pending' = pending \cup {i}
  /\ Emits("approval", i, "unanswered")
  /\ UNCHANGED <<posts, stream, replay, shown>>

\* settle(): whoever is first ends the approval; what it says to the app is allow or deny.
Settles(i, answer) ==
  /\ asks' = [asks EXCEPT ![i] = NoAsk]
  /\ pending' = pending \ {i}
  /\ Emits("decision", i, IF answer = "allow" THEN "allow" ELSE "deny")
  /\ UNCHANGED <<stream, replay, shown>>

------------------------------------------------------------------------------
(* The app *)

\* decide() or the timer.  The app may decide an approval that it has not been told of.
AppAnswers(i, answer) ==
  /\ asks[i].place = "app" /\ i \in pending
  /\ Settles(i, answer)
  /\ UNCHANGED posts

\* GET /controller/events: subscribed, and the approvals waiting now listed.
Connects ==
  /\ stream = "closed"
  /\ stream' = "listing"
  /\ replay' = pending
  /\ UNCHANGED <<asks, pending, posts, queue, shown>>

\* Mutant: what was answered while the list was made is sent with the rest.
ReplaysAll ==
  /\ stream = "listing"
  /\ stream' = "open"
  /\ shown' = shown \cup replay
  /\ replay' = {}
  /\ UNCHANGED <<asks, pending, posts, queue>>

\* pendingApprovals(): those answered while it ran are dropped, the rest are sent.
Replays ==
  /\ stream = "listing"
  /\ stream' = "open"
  /\ shown' = shown \cup (replay \cap pending)
  /\ replay' = {}
  /\ UNCHANGED <<asks, pending, posts, queue>>

\* The stream ends; events on their way to it go nowhere.
Disconnects ==
  /\ stream # "closed"
  /\ stream' = "closed"
  /\ replay' = {}
  /\ shown' = {}
  /\ queue' = <<>>
  /\ UNCHANGED <<asks, pending, posts>>

\* forwardApproval(), one at a time.
Forwards ==
  /\ queue # <<>>
  /\ queue' = Tail(queue)
  /\ LET event == Head(queue) IN
     shown' = IF event.type = "approval" THEN shown \cup {event.id} ELSE shown \ {event.id}
  /\ UNCHANGED <<asks, pending, posts, stream, replay>>

------------------------------------------------------------------------------
(* Discord: askDecision() of the channel *)

Closing(i, answer) ==
  asks' = [asks EXCEPT ![i] = [@ EXCEPT !.stage = "closing", !.answer = answer]]

\* The clean-up after a failure or a timeout edits the newest message with buttons, when
\* it is among the channel's last five.
CleansUp ==
  posts' \in {posts, IF posts = <<>> THEN posts ELSE Front(posts)}

KeepsApp == UNCHANGED <<pending, stream, replay, queue, shown>>

Posted(i) ==
  /\ asks[i].place = "discord" /\ asks[i].stage = "posting"
  /\ asks' = [asks EXCEPT ![i].stage = "waiting"]
  /\ posts' = Append(posts, i)
  /\ KeepsApp

\* Mutant: a message that cannot be sent leaves its approval waiting for it.
PostFailsQuietly(i) ==
  /\ asks[i].place = "discord" /\ asks[i].stage = "posting"
  /\ asks' = asks
  /\ CleansUp
  /\ KeepsApp

PostFails(i) ==
  /\ asks[i].place = "discord" /\ asks[i].stage = "posting"
  /\ Closing(i, "unanswered")
  /\ CleansUp
  /\ KeepsApp

\* An approver presses a button, and the message is edited.
Presses(i, answer) ==
  /\ asks[i].place = "discord" /\ asks[i].stage = "waiting"
  /\ i \in Range(posts)
  /\ Closing(i, answer)
  /\ posts' = Remove(posts, i)
  /\ KeepsApp

\* Ten minutes without an answer, or the edit after the answer failed.
TimesOut(i) ==
  /\ asks[i].place = "discord" /\ asks[i].stage = "waiting"
  /\ Closing(i, "unanswered")
  /\ CleansUp
  /\ KeepsApp

\* askQuestions() of the channel: the asker picks, types, or lets the time run out; the
\* question's own message is edited.
QuestionEnds(i, answer) ==
  /\ asks[i].place = "question" /\ asks[i].stage = "posting"
  /\ Closing(i, answer)
  /\ UNCHANGED posts
  /\ KeepsApp

\* A message that nothing waits on sinks below the last five, or is not looked at again.
ScrollsOut ==
  \E n \in DOMAIN posts :
    /\ asks[posts[n]] = NoAsk
    /\ posts' = RemoveAt(posts, n)
    /\ UNCHANGED <<asks, pending, stream, replay, queue, shown>>

\* The answer reaches the mirror, which settles it in the hub.
DiscordAnswers(i, answer) ==
  /\ asks[i].stage = "closing" /\ asks[i].answer = answer
  /\ Settles(i, answer)
  /\ UNCHANGED posts

\* Nothing of an approval outlives the process.  Its Discord message does, with buttons
\* that do nothing; those are left out.
ApprovalRestart ==
  /\ asks' = [i \in Id |-> NoAsk]
  /\ pending' = {}
  /\ stream' = "closed"
  /\ replay' = {}
  /\ queue' = <<>>
  /\ shown' = {}
  /\ posts' = <<>>
==============================================================================
