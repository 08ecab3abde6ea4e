------------------------------ MODULE ToolCalls ------------------------------
(***************************************************************************)
(* An agent's tool calls: the worker's hook asks the orchestrator before   *)
(* each (packages/worker/src/agent.ts, packages/orchestrator/src/api/      *)
(* server.ts), which goes by the rules (Permissions) and, where they say   *)
(* "ask", by a risk review and a person's answer (Approvals).              *)
(*                                                                         *)
(* A worker waits a limited time for the orchestrator, which goes on       *)
(* reviewing and asking without it.  A host command is asked for twice:    *)
(* before the call, and again by the route that runs it.                   *)
(***************************************************************************)
EXTENDS Approvals, Permissions

CONSTANTS Call,       \* calls under way at a time
          Invocation, \* what may be called: [tool, parts]
          Policies,   \* the agents' policies, see PolicyOK
          HostTool,   \* the tool that runs a command on the host
          Question    \* the tool that asks the person something

VARIABLES calls,  \* calls[c]: the call, where it stands, and what allowed it
          policy  \* the policy of the agent that calls

vars == <<calls, policy, approvalVars>>

PolicyOK(p) == /\ DOMAIN p = {"person", "rules", "gate", "threshold", "defers", "place"}
               /\ {p.gate, p.defers} \subseteq BOOLEAN /\ p.threshold \in Risk
               /\ IsPerson(p.person)
               /\ p.place \in {"none", "app", "discord"}
               /\ p.rules = NoRules \/ p.rules \in Seq(Rule)

ASSUME IdAssumption == Id \subseteq Nat \ {0}  \* numbered, so that the least free one is taken
ASSUME PoliciesAssumption == \A p \in Policies : PolicyOK(p)
ASSUME InvocationAssumption ==
  \A v \in Invocation : v.tool \in Tool /\ v.parts \in Seq(Part) /\ v.parts # <<>>

NoId == 0

NoCall == [stage |-> "none"]

\* "by" is the route that asks: the hook, the SDK's own mode, or the host command's route.
\* "leave" is what last allowed the call.
TypeOK ==
  /\ ApprovalTypeOK
  /\ policy \in Policies
  /\ \A c \in Call : calls[c] = NoCall \/
       /\ [tool |-> calls[c].tool, parts |-> calls[c].parts] \in Invocation
       /\ calls[c].stage \in {"review", "asked", "mode", "host", "ran"}
       /\ calls[c].by \in {"hook", "mode", "host"}
       /\ calls[c].leave \in {"none", "rules", "mode", "review", "person"}
       /\ calls[c].id \in Id \cup {NoId}
       /\ calls[c].waits \in BOOLEAN
       /\ (calls[c].stage = "asked") = (calls[c].id \in Id)

Init ==
  /\ ApprovalInit
  /\ policy \in Policies
  /\ calls = [c \in Call |-> NoCall]

KeepsApprovals == UNCHANGED approvalVars

Goes(c, call) == calls' = [calls EXCEPT ![c] = call]

\* A call that is refused is over.
Refused(c) == Goes(c, NoCall)

\* The call was allowed.  Unless the worker gave up, it runs; a host command is first
\* put to its own route, which does not know whether the worker still waits.
Proceeds(c, call, leave) ==
  LET on == [call EXCEPT !.leave = leave, !.id = NoId]
  IN  CASE call.by = "host" -> Goes(c, [on EXCEPT !.stage = "ran"])
        [] call.by # "host" /\ ~call.waits -> Refused(c)
        [] OTHER -> Goes(c, [on EXCEPT !.stage = IF call.tool = HostTool THEN "host" ELSE "ran"])

AsksPerson(call) == call.tool = Question /\ call.by = "mode"

\* The channel's askUser() or askQuestions().
RaisesFor(c, call) ==
  \E i \in Id :
    /\ Unused(i) /\ \A j \in Id : j < i => ~Unused(j)
    /\ Raises(i, IF AsksPerson(call) /\ policy.place = "discord" THEN "question" ELSE policy.place)
    /\ Goes(c, [call EXCEPT !.stage = "asked", !.id = i])

\* askApproval(): nobody to ask, the review first, or a person at once.
Asks(c, call) ==
  \/ policy.place = "none" /\ Refused(c) /\ KeepsApprovals
  \/ /\ policy.place # "none" /\ policy.gate /\ ~AsksPerson(call)
     /\ Goes(c, [call EXCEPT !.stage = "review"])
     /\ KeepsApprovals
  \/ /\ policy.place # "none" /\ (~policy.gate \/ AsksPerson(call))
     /\ RaisesFor(c, call)

Says(call, defers) ==
  Hook(policy.person, Effective(policy.rules, policy.gate), call.tool, call.parts, defers)

\* The PreToolUse hook.
PreToolUse(c) ==
  /\ calls[c] = NoCall
  /\ \E v \in Invocation :
       LET call == [tool |-> v.tool, parts |-> v.parts, stage |-> "mode", by |-> "hook",
                    leave |-> "none", id |-> NoId, waits |-> TRUE]
           says == Says(call, policy.defers)
       IN  \/ says = "allow" /\ Proceeds(c, call, "rules") /\ KeepsApprovals
           \/ says = "deny" /\ Refused(c) /\ KeepsApprovals
           \/ says = "defer" /\ Goes(c, call) /\ KeepsApprovals
           \/ says = "ask" /\ Asks(c, call)
  /\ UNCHANGED policy

\* The SDK's own mode decides, or asks.
ModeDecides(c) ==
  /\ calls[c].stage = "mode"
  /\ \/ Proceeds(c, calls[c], "mode")
     \/ Refused(c)
  /\ KeepsApprovals /\ UNCHANGED policy

CanUseTool(c) ==
  /\ calls[c].stage = "mode"
  /\ Asks(c, [calls[c] EXCEPT !.by = "mode"])
  /\ UNCHANGED policy

\* POST host-bash: the rules decide again, and the agent's mode has no say.
HostBash(c) ==
  /\ calls[c].stage = "host"
  /\ LET call == [calls[c] EXCEPT !.by = "host", !.leave = "none"]
         says == Says(call, FALSE)
     IN  \/ says = "allow" /\ Proceeds(c, call, "rules") /\ KeepsApprovals
         \/ says = "deny" /\ Refused(c) /\ KeepsApprovals
         \/ says = "ask" /\ Asks(c, call)
  /\ UNCHANGED policy

\* buildGatedAskApproval(): one that fails counts as Medium.
Reviewed(c) ==
  /\ calls[c].stage = "review"
  /\ \E risk \in Risk :
       \/ /\ AutoApproved(risk, policy.threshold)
          /\ Proceeds(c, calls[c], "review")
          /\ KeepsApprovals
       \/ ~AutoApproved(risk, policy.threshold) /\ RaisesFor(c, calls[c])
  /\ UNCHANGED policy

\* What was asked is answered: the call goes on, or is refused.
Resumes(i, answer) ==
  \E c \in Call :
    /\ calls[c].stage = "asked" /\ calls[c].id = i
    /\ IF answer = "allow" THEN Proceeds(c, calls[c], "person") ELSE Refused(c)
    /\ UNCHANGED policy

PersonDecides(i) == \E answer \in {"allow", "deny"} : AppAnswers(i, answer) /\ Resumes(i, answer)

AppTimesOut(i) == AppAnswers(i, "unanswered") /\ Resumes(i, "unanswered")

ChannelAnswers(i) == \E answer \in Answer : DiscordAnswers(i, answer) /\ Resumes(i, answer)

\* The worker's request times out: the agent is told that the call failed.
GivesUp(c) ==
  /\ calls[c].stage \in {"review", "asked"} /\ calls[c].waits
  /\ Goes(c, [calls[c] EXCEPT !.waits = FALSE])
  /\ KeepsApprovals /\ UNCHANGED policy

\* runHostCommand(): the command ends, or is killed when its time is over.
CommandEnds(c) ==
  /\ calls[c].stage = "ran" /\ calls[c].by = "host"
  /\ Goes(c, NoCall)
  /\ KeepsApprovals /\ UNCHANGED policy

\* Another tool ends in the worker.
Ends(c) ==
  /\ calls[c].stage = "ran" /\ calls[c].by # "host"
  /\ Goes(c, NoCall)
  /\ KeepsApprovals /\ UNCHANGED policy

Restart ==
  /\ ApprovalRestart
  /\ calls' = [c \in Call |-> NoCall]
  /\ UNCHANGED policy

\* The actions of Approvals that no call waits for.
Stream == /\ Connects \/ Replays \/ Disconnects \/ Forwards
          /\ UNCHANGED <<calls, policy>>

PostEnds(i) == (Posted(i) \/ PostFails(i)) /\ UNCHANGED <<calls, policy>>

Buttons(i) == (\E answer \in {"allow", "deny"} : Presses(i, answer)) /\ UNCHANGED <<calls, policy>>

ButtonsTimeOut(i) == TimesOut(i) /\ UNCHANGED <<calls, policy>>

Asked(i) == (\E answer \in Answer : QuestionEnds(i, answer)) /\ UNCHANGED <<calls, policy>>

Sinks == ScrollsOut /\ UNCHANGED <<calls, policy>>

CallNext(c) == \/ PreToolUse(c) \/ ModeDecides(c) \/ CanUseTool(c) \/ HostBash(c)
               \/ Reviewed(c) \/ GivesUp(c) \/ CommandEnds(c) \/ Ends(c)

Timers(i) == AppTimesOut(i) \/ ChannelAnswers(i) \/ PostEnds(i) \/ ButtonsTimeOut(i) \/ Asked(i)

Next ==
  \/ \E c \in Call : CallNext(c)
  \/ \E i \in Id : PersonDecides(i) \/ Buttons(i) \/ Timers(i)
  \/ Stream \/ Sinks \/ Restart

\* Timers fire, Discord's calls return or fail, and events are forwarded.  No review and no
\* person is assumed to answer.
Fairness == /\ \A i \in Id : /\ WF_vars(AppTimesOut(i)) /\ WF_vars(ChannelAnswers(i))
                             /\ WF_vars(PostEnds(i)) /\ WF_vars(ButtonsTimeOut(i))
                             /\ WF_vars(Asked(i))
            /\ WF_vars(Stream)

Spec == Init /\ [][Next]_vars /\ Fairness
------------------------------------------------------------------------------
(* What the rules mean, said of each part of the call by itself. *)

Decides(n, action, tool, part) ==
  /\ policy.rules[n].action = action
  /\ RuleMatches(policy.rules[n], tool, part)
  /\ \A k \in 1..(n - 1) : ~RuleMatches(policy.rules[k], tool, part)

Forbids(tool, part) == \E n \in DOMAIN policy.rules : Decides(n, "deny", tool, part)
Permits(tool, part) == \E n \in DOMAIN policy.rules : Decides(n, "allow", tool, part)

\* Mentioned by buildPreToolUseHook() ("Both layers must allow for the tool invocation to
\* proceed") and host-bash ("we re-evaluate the rule"): whatever way a call took, past reviews,
\* answers and the worker's giving up, nothing ran that a person's deny or an agent's rule
\* forbids, and what some part needs leave for ran by a person's answer or a review's, given
\* for the last route it took.
RunsAllowed ==
  \A c \in Call :
    (calls[c].stage = "ran" /\ calls[c].tool \notin Core) =>
      /\ policy.person.known
      /\ ~UserDenies(policy.person, calls[c].tool, calls[c].parts)
      /\ policy.rules = NoRules /\ policy.gate => calls[c].leave \in {"person", "review"}
      /\ policy.rules # NoRules => \A n \in DOMAIN calls[c].parts :
           LET part == calls[c].parts[n] IN
           /\ ~Forbids(calls[c].tool, part)
           /\ ~Permits(calls[c].tool, part) => calls[c].leave \in {"person", "review"}

\* The app's event stream (controller.ts: "a decision never overtakes its approval", "a
\* replay never follows its decision"): what it shows is what waits, but for the events on
\* their way to it, in spite of approvals raised and settled while it connects.
Coming(type, i) == \E n \in DOMAIN queue : queue[n].type = type /\ queue[n].id = i

ClientsAgree ==
  stream = "open" => \A i \in Id :
    /\ i \in shown /\ i \notin pending => Coming("decision", i)
    /\ i \in pending /\ i \notin shown => Coming("approval", i)

\* ASK_TIMEOUT_MS and the hub's timer: whatever a call waits for a person to answer is
\* answered or given up at last, in the app and in a channel that fails to send or edit.
AsksEnd == \A i \in Id : asks[i] # NoAsk ~> asks[i] = NoAsk
==============================================================================
