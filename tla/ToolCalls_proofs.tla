--------------------------- MODULE ToolCalls_proofs ---------------------------
(***************************************************************************)
(* For any calls, approvals, policies and invocations: what runs was       *)
(* allowed by every layer it passed, and what the app shows is what waits, *)
(* but for the events on their way.                                        *)
(***************************************************************************)
EXTENDS ToolCalls, WellFoundedInduction, TLAPS

(* What the rules say *)

\* A non-empty set of numbers has a least one.
LEMMA LeastNumber ==
  ASSUME NEW T \in SUBSET Nat, T # {}
  PROVE  \E x \in T : \A y \in T : x <= y
<1> DEFINE Less == OpToRel(<, Nat)
<1>1. PICK x \in T : \A y \in T : ~(<<y, x>> \in Less)
  BY NatLessThanWellFounded, WFMin
<1>2. \A y \in T : ~(y < x)
  BY <1>1 DEF OpToRel
<1> QED BY <1>2

\* Rule n is the first that matches.
IsFirst(rules, n, tool, part) ==
  /\ n \in DOMAIN rules
  /\ RuleMatches(rules[n], tool, part)
  /\ \A k \in 1..(n - 1) : ~RuleMatches(rules[k], tool, part)

LEMMA OneIsFirst ==
  ASSUME NEW rules \in Seq(Rule), NEW tool, NEW part, NEW n, NEW m,
         IsFirst(rules, n, tool, part), IsFirst(rules, m, tool, part)
  PROVE  n = m
<1>1. n \in 1..Len(rules) /\ m \in 1..Len(rules)
  BY DEF IsFirst
<1>2. ~(n < m) /\ ~(m < n)
  BY <1>1 DEF IsFirst
<1> QED BY <1>1, <1>2

\* FirstMatch is "ask", where no rule matches, or what the first that does says.
LEMMA FirstMatchIsFirst ==
  ASSUME NEW rules \in Seq(Rule), NEW tool, NEW part
  PROVE  \/ /\ FirstMatch(rules, tool, part) = "ask"
            /\ \A n \in DOMAIN rules : ~RuleMatches(rules[n], tool, part)
         \/ \E n \in DOMAIN rules : /\ IsFirst(rules, n, tool, part)
                                    /\ FirstMatch(rules, tool, part) = rules[n].action
<1> DEFINE hits == {i \in DOMAIN rules : RuleMatches(rules[i], tool, part)}
<1>1. CASE hits = {}
  BY <1>1 DEF FirstMatch
<1>2. CASE hits # {}
  <2>1. hits \subseteq 1..Len(rules) /\ hits \in SUBSET Nat
    OBVIOUS
  <2>2. \E i \in hits : \A j \in hits : i <= j
    BY <1>2, <2>1, LeastNumber
  <2>3. PICK n : n = CHOOSE i \in hits : \A j \in hits : i <= j
    OBVIOUS
  <2>4. n \in hits /\ \A j \in hits : n <= j
    BY <2>2, <2>3
  <2>5. IsFirst(rules, n, tool, part)
    BY <2>1, <2>4 DEF IsFirst
  <2>6. FirstMatch(rules, tool, part) = rules[n].action
    BY <1>2, <2>3 DEF FirstMatch
  <2> QED BY <2>4, <2>5, <2>6
<1> QED BY <1>1, <1>2

\* An agent without rules that is reviewed asks about everything.
LEMMA AskAllAsks ==
  ASSUME NEW tool, NEW part
  PROVE  FirstMatch(AskAll, tool, part) = "ask"
<1> DEFINE hits == {i \in DOMAIN AskAll : RuleMatches(AskAll[i], tool, part)}
<1>1. DOMAIN AskAll = {1} /\ AskAll[1].action = "ask"
  BY DEF AskAll
<1>2. CASE hits = {}
  BY <1>2 DEF FirstMatch
<1>3. CASE hits # {}
  <2>1. hits = {1}
    BY <1>1, <1>3
  <2>2. (CHOOSE i \in hits : \A j \in hits : i <= j) = 1
    BY <2>1
  <2> QED BY <1>1, <1>3, <2>2 DEF FirstMatch
<1> QED BY <1>2, <1>3

\* What the layers have to say of a call before anybody is asked, and what they say when
\* nobody has to be.
Cleared(tool, parts) ==
  tool \notin Core =>
    /\ policy.person.known
    /\ ~UserDenies(policy.person, tool, parts)
    /\ policy.rules # NoRules => \A n \in DOMAIN parts : ~Forbids(tool, parts[n])

Free(tool, parts) ==
  tool \notin Core =>
    /\ ~(policy.rules = NoRules /\ policy.gate)
    /\ policy.rules # NoRules => \A n \in DOMAIN parts : Permits(tool, parts[n])

\* FirstMatch and what the rules mean agree.
LEMMA FirstMatchMeans ==
  ASSUME policy.rules \in Seq(Rule), NEW tool, NEW part
  PROVE  /\ FirstMatch(policy.rules, tool, part) \in Action
         /\ FirstMatch(policy.rules, tool, part) # "deny" => ~Forbids(tool, part)
         /\ FirstMatch(policy.rules, tool, part) = "allow" => Permits(tool, part)
<1>1. CASE \A n \in DOMAIN policy.rules : ~RuleMatches(policy.rules[n], tool, part)
  <2>1. ~\E n \in DOMAIN policy.rules : IsFirst(policy.rules, n, tool, part)
    BY <1>1 DEF IsFirst
  <2>2. FirstMatch(policy.rules, tool, part) = "ask"
    BY <2>1, FirstMatchIsFirst
  <2> QED BY <1>1, <2>2 DEF Forbids, Decides, Action
<1>2. ASSUME NEW n \in DOMAIN policy.rules, IsFirst(policy.rules, n, tool, part),
             FirstMatch(policy.rules, tool, part) = policy.rules[n].action
      PROVE  /\ FirstMatch(policy.rules, tool, part) \in Action
             /\ FirstMatch(policy.rules, tool, part) # "deny" => ~Forbids(tool, part)
             /\ FirstMatch(policy.rules, tool, part) = "allow" => Permits(tool, part)
  <2>1. policy.rules[n] \in Rule
    OBVIOUS
  <2>2. ASSUME NEW m \in DOMAIN policy.rules, Decides(m, "deny", tool, part)
        PROVE  policy.rules[n].action = "deny"
    <3>1. IsFirst(policy.rules, m, tool, part)
      BY <2>2 DEF IsFirst, Decides
    <3>2. m = n
      BY <1>2, <3>1, OneIsFirst
    <3> QED BY <2>2, <3>2 DEF Decides
  <2>3. policy.rules[n].action = "allow" => Permits(tool, part)
    BY <1>2 DEF Permits, Decides, IsFirst
  <2> QED BY <1>2, <2>1, <2>2, <2>3 DEF Rule, Forbids
<1> QED BY <1>1, <1>2, FirstMatchIsFirst

\* The most restrictive part decides.
LEMMA EvaluateMeans ==
  ASSUME policy.rules = NoRules \/ policy.rules \in Seq(Rule),
         NEW tool, NEW parts \in Seq(Part), parts # <<>>
  PROVE  LET says == Evaluate(Effective(policy.rules, policy.gate), tool, parts)
         IN  /\ says # "deny" /\ policy.rules # NoRules =>
                                  \A n \in DOMAIN parts : ~Forbids(tool, parts[n])
             /\ says = "allow" =>
                  /\ ~(policy.rules = NoRules /\ policy.gate)
                  /\ policy.rules # NoRules => \A n \in DOMAIN parts : Permits(tool, parts[n])
<1>1. CASE policy.rules = NoRules /\ policy.gate
  <2>1. Effective(policy.rules, policy.gate) = AskAll
    BY <1>1 DEF Effective
  <2>2. {FirstMatch(AskAll, tool, parts[i]) : i \in DOMAIN parts} = {"ask"}
    <3>1. 1 \in DOMAIN parts
      OBVIOUS
    <3> QED BY <3>1, AskAllAsks
  <2>3. Evaluate(AskAll, tool, parts) = "ask"
    BY <2>2, NoRulesAssumption DEF Evaluate
  <2> QED BY <1>1, <2>1, <2>3
<1>2. CASE policy.rules = NoRules /\ ~policy.gate
  BY <1>2
<1>3. CASE policy.rules # NoRules
  <2> DEFINE says == {FirstMatch(policy.rules, tool, parts[i]) : i \in DOMAIN parts}
  <2>1. Effective(policy.rules, policy.gate) = policy.rules
    BY <1>3 DEF Effective
  <2>2. /\ Evaluate(policy.rules, tool, parts) # "deny" => "deny" \notin says
        /\ Evaluate(policy.rules, tool, parts) = "allow" => "deny" \notin says /\ "ask" \notin says
    BY <1>3 DEF Evaluate
  <2>3. \A i \in DOMAIN parts :
          /\ FirstMatch(policy.rules, tool, parts[i]) \in Action
          /\ FirstMatch(policy.rules, tool, parts[i]) # "deny" => ~Forbids(tool, parts[i])
          /\ FirstMatch(policy.rules, tool, parts[i]) = "allow" => Permits(tool, parts[i])
    BY <1>3, FirstMatchMeans
  <2> QED BY <1>3, <2>1, <2>2, <2>3 DEF Action
<1> QED BY <1>1, <1>2, <1>3

\* What the hook and the host command's route let through.
LEMMA SaysMeans ==
  ASSUME policy \in Policies, NEW call, call.parts \in Seq(Part), call.parts # <<>>,
         NEW defers \in BOOLEAN
  PROVE  /\ Says(call, defers) # "deny" => Cleared(call.tool, call.parts)
         /\ Says(call, defers) \in {"allow", "defer"} => Free(call.tool, call.parts)
<1>1. policy.rules = NoRules \/ policy.rules \in Seq(Rule)
  BY PoliciesAssumption DEF PolicyOK
<1>2. policy.person.known \in BOOLEAN
  BY PoliciesAssumption DEF PolicyOK, IsPerson
<1>3. PICK says : says = Evaluate(Effective(policy.rules, policy.gate), call.tool, call.parts)
  OBVIOUS
<1>4. CASE call.tool \in Core
  BY <1>4 DEF Cleared, Free
<1>5. CASE call.tool \notin Core /\ Says(call, defers) # "deny"
  <2>1. policy.person.known /\ ~UserDenies(policy.person, call.tool, call.parts)
    BY <1>2, <1>5 DEF Says, Hook
  <2>2. Says(call, defers) = IF says = "allow" /\ defers THEN "defer" ELSE says
    BY <1>3, <1>5, <2>1 DEF Says, Hook
  <2>3. /\ says # "deny"
        /\ Says(call, defers) \in {"allow", "defer"} => says = "allow" \/ says = "defer"
    BY <1>5, <2>2
  <2>4. says # "defer"
    BY <1>3 DEF Evaluate
  <2> QED BY <1>1, <1>3, <2>1, <2>3, <2>4, EvaluateMeans DEF Cleared, Free
<1> QED BY <1>4, <1>5

------------------------------------------------------------------------------
(* The calls *)

CallRecord ==
  [tool : Tool, parts : Seq(Part) \ {<<>>}, stage : {"review", "asked", "mode", "host", "ran"},
   by : {"hook", "mode", "host"}, leave : {"none", "rules", "mode", "review", "person"},
   id : Id \cup {NoId}, waits : BOOLEAN]

\* Whatever waits for leave is forbidden by nobody, and what has none yet, or has that
\* of the rules alone, needs none.  A host command before its route is asked is exempt.
CallOK(call) ==
  call # NoCall =>
    /\ call.stage # "host" => Cleared(call.tool, call.parts)
    /\ call.stage = "mode" => Free(call.tool, call.parts)
    /\ call.stage = "ran" /\ call.leave \notin {"person", "review"} => Free(call.tool, call.parts)

CallsOK ==
  /\ policy \in Policies
  /\ calls \in [Call -> CallRecord \cup {NoCall}]
  /\ \A c \in Call : CallOK(calls[c])

\* The call goes where it may.
GoesWell(c) ==
  \E call \in CallRecord \cup {NoCall} : CallOK(call) /\ calls' = [calls EXCEPT ![c] = call]

LEMMA NoCallStage == NoCall.stage = "none"
BY DEF NoCall

LEMMA CallForm ==
  ASSUME CallsOK, NEW c \in Call, calls[c].stage # "none"
  PROVE  calls[c] \in CallRecord /\ calls[c] # NoCall
BY NoCallStage DEF CallsOK

LEMMA GoesWellKeeps ==
  ASSUME CallsOK, NEW c \in Call, GoesWell(c), policy' = policy
  PROVE  CallsOK'
<1>1. PICK call \in CallRecord \cup {NoCall} : CallOK(call) /\ calls' = [calls EXCEPT ![c] = call]
  BY DEF GoesWell
<1>2. calls' \in [Call -> CallRecord \cup {NoCall}]
  BY <1>1 DEF CallsOK
<1>3. \A d \in Call : CallOK(calls'[d])
  BY <1>1 DEF CallsOK
<1>4. \A d \in Call : CallOK(calls[d])'
  BY <1>3 DEF CallOK, Cleared, Free, Forbids, Permits, Decides
<1> QED BY <1>2, <1>4 DEF CallsOK

LEMMA RefusedWell ==
  ASSUME NEW c \in Call, Refused(c)
  PROVE  GoesWell(c)
BY DEF Refused, Goes, GoesWell, CallOK

\* A call that was allowed.
LEMMA ProceedsWell ==
  ASSUME NEW c \in Call, NEW call \in CallRecord,
         NEW leave \in {"rules", "mode", "review", "person"},
         Cleared(call.tool, call.parts),
         leave \notin {"person", "review"} => Free(call.tool, call.parts),
         Proceeds(c, call, leave)
  PROVE  GoesWell(c)
<1>1. PICK ran, host : /\ ran = [call EXCEPT !.leave = leave, !.id = NoId, !.stage = "ran"]
                       /\ host = [call EXCEPT !.leave = leave, !.id = NoId, !.stage = "host"]
  OBVIOUS
<1>2. ran \in CallRecord /\ host \in CallRecord
  BY <1>1 DEF CallRecord
<1>3. CallOK(ran) /\ CallOK(host)
  BY <1>1 DEF CallOK, CallRecord
<1>4. Goes(c, ran) \/ Goes(c, host) \/ Refused(c)
  BY <1>1 DEF Proceeds
<1> QED BY <1>2, <1>3, <1>4, RefusedWell DEF Goes, GoesWell

\* A person is asked.
LEMMA RaisesWell ==
  ASSUME NEW c \in Call, NEW call \in CallRecord, Cleared(call.tool, call.parts),
         RaisesFor(c, call)
  PROVE  GoesWell(c)
<1>1. PICK i \in Id : Goes(c, [call EXCEPT !.stage = "asked", !.id = i])
  BY DEF RaisesFor
<1>2. PICK asked : asked = [call EXCEPT !.stage = "asked", !.id = i]
  OBVIOUS
<1>3. asked \in CallRecord /\ CallOK(asked)
  BY <1>2 DEF CallRecord, CallOK
<1> QED BY <1>1, <1>2, <1>3 DEF Goes, GoesWell

LEMMA AsksWell ==
  ASSUME NEW c \in Call, NEW call \in CallRecord, Cleared(call.tool, call.parts),
         Asks(c, call)
  PROVE  GoesWell(c)
<1>1. CASE Goes(c, [call EXCEPT !.stage = "review"])
  <2>1. PICK review : review = [call EXCEPT !.stage = "review"]
    OBVIOUS
  <2>2. review \in CallRecord /\ CallOK(review)
    BY <2>1 DEF CallRecord, CallOK
  <2> QED BY <1>1, <2>1, <2>2 DEF Goes, GoesWell
<1> QED BY <1>1, RefusedWell, RaisesWell DEF Asks

\* What is asked of the rules, for a call they are asked about.
LEMMA RulesWell ==
  ASSUME policy \in Policies, NEW c \in Call, NEW call \in CallRecord, NEW defers \in BOOLEAN,
         \/ Says(call, defers) = "allow" /\ Proceeds(c, call, "rules")
         \/ Says(call, defers) = "deny" /\ Refused(c)
         \/ Says(call, defers) = "defer" /\ call.stage = "mode" /\ Goes(c, call)
         \/ Says(call, defers) = "ask" /\ Asks(c, call)
  PROVE  GoesWell(c)
<1>1. call.parts \in Seq(Part) /\ call.parts # <<>>
  BY DEF CallRecord
<1>2. /\ Says(call, defers) # "deny" => Cleared(call.tool, call.parts)
      /\ Says(call, defers) \in {"allow", "defer"} => Free(call.tool, call.parts)
  BY <1>1, SaysMeans
<1>3. ASSUME Says(call, defers) = "defer", call.stage = "mode", Goes(c, call) PROVE GoesWell(c)
  BY <1>2, <1>3 DEF GoesWell, Goes, CallOK
<1> QED BY <1>2, <1>3, ProceedsWell, RefusedWell, AsksWell

\* The steps of a call.
LEMMA CallSteps ==
  ASSUME CallsOK, NEW c \in Call, CallNext(c)
  PROVE  GoesWell(c) /\ policy' = policy
<1>1. CASE PreToolUse(c)
  <2> DEFINE call(v) == [tool |-> v.tool, parts |-> v.parts, stage |-> "mode", by |-> "hook",
                         leave |-> "none", id |-> NoId, waits |-> TRUE]
  <2>1. PICK v \in Invocation :
          \/ Says(call(v), policy.defers) = "allow" /\ Proceeds(c, call(v), "rules")
          \/ Says(call(v), policy.defers) = "deny" /\ Refused(c)
          \/ Says(call(v), policy.defers) = "defer" /\ Goes(c, call(v))
          \/ Says(call(v), policy.defers) = "ask" /\ Asks(c, call(v))
    BY <1>1 DEF PreToolUse
  <2>2. call(v) \in CallRecord /\ call(v).stage = "mode"
    BY InvocationAssumption DEF CallRecord
  <2>3. policy \in Policies /\ policy.defers \in BOOLEAN
    BY PoliciesAssumption DEF CallsOK, PolicyOK
  <2> HIDE DEF call
  <2> QED BY <1>1, <2>1, <2>2, <2>3, RulesWell DEF PreToolUse
<1>2. CASE ModeDecides(c)
  <2>1. calls[c] \in CallRecord /\ calls[c] # NoCall /\ CallOK(calls[c]) /\ calls[c].stage = "mode"
    BY <1>2, CallForm DEF ModeDecides, CallsOK
  <2> QED BY <1>2, <2>1, ProceedsWell, RefusedWell DEF ModeDecides, CallOK
<1>3. CASE CanUseTool(c)
  <2>1. calls[c] \in CallRecord /\ calls[c] # NoCall /\ CallOK(calls[c]) /\ calls[c].stage = "mode"
    BY <1>3, CallForm DEF CanUseTool, CallsOK
  <2>2. PICK call : call = [calls[c] EXCEPT !.by = "mode"]
    OBVIOUS
  <2>3. call \in CallRecord /\ Cleared(call.tool, call.parts)
    BY <2>1, <2>2 DEF CallRecord, CallOK
  <2> QED BY <1>3, <2>2, <2>3, AsksWell DEF CanUseTool
<1>4. CASE HostBash(c)
  <2>1. calls[c] \in CallRecord
    BY <1>4, CallForm DEF HostBash
  <2>2. PICK call : call = [calls[c] EXCEPT !.by = "host", !.leave = "none"]
    OBVIOUS
  <2>3. call \in CallRecord
    BY <2>1, <2>2 DEF CallRecord
  <2>4. \/ Says(call, FALSE) = "allow" /\ Proceeds(c, call, "rules")
        \/ Says(call, FALSE) = "deny" /\ Refused(c)
        \/ Says(call, FALSE) = "ask" /\ Asks(c, call)
    BY <1>4, <2>2 DEF HostBash
  <2> QED BY <1>4, <2>3, <2>4, RulesWell DEF HostBash, CallsOK
<1>5. CASE Reviewed(c)
  <2>1. calls[c] \in CallRecord /\ calls[c] # NoCall /\ CallOK(calls[c]) /\ calls[c].stage = "review"
    BY <1>5, CallForm DEF Reviewed, CallsOK
  <2>2. Proceeds(c, calls[c], "review") \/ RaisesFor(c, calls[c])
    BY <1>5 DEF Reviewed
  <2> QED BY <1>5, <2>1, <2>2, ProceedsWell, RaisesWell DEF Reviewed, CallOK
<1>6. CASE GivesUp(c)
  <2>1. calls[c] \in CallRecord /\ calls[c] # NoCall /\ CallOK(calls[c])
        /\ calls[c].stage \in {"review", "asked"}
    BY <1>6, CallForm DEF GivesUp, CallsOK
  <2>2. PICK call : call = [calls[c] EXCEPT !.waits = FALSE]
    OBVIOUS
  <2>3. call \in CallRecord /\ CallOK(call)
    BY <2>1, <2>2 DEF CallRecord, CallOK
  <2> QED BY <1>6, <2>2, <2>3 DEF GivesUp, Goes, GoesWell
<1>7. CASE CommandEnds(c) \/ Ends(c)
  BY <1>7, RefusedWell DEF CommandEnds, Ends, Refused
<1> QED BY <1>1, <1>2, <1>3, <1>4, <1>5, <1>6, <1>7 DEF CallNext

\* What waited for an answer has it.
LEMMA ResumesWell ==
  ASSUME CallsOK, NEW i, NEW answer, Resumes(i, answer)
  PROVE  CallsOK'
<1>1. PICK c \in Call :
        /\ calls[c].stage = "asked"
        /\ Proceeds(c, calls[c], "person") \/ Refused(c)
        /\ policy' = policy
  BY DEF Resumes
<1>2. calls[c] \in CallRecord /\ calls[c] # NoCall /\ CallOK(calls[c])
  BY <1>1, CallForm DEF CallsOK
<1> QED BY <1>1, <1>2, ProceedsWell, RefusedWell, GoesWellKeeps DEF CallOK

LEMMA CallsAlone ==
  ASSUME CallsOK, UNCHANGED <<calls, policy>>
  PROVE  CallsOK'
BY DEF CallsOK, CallOK, Cleared, Free, Forbids, Permits, Decides

LEMMA CallsKeep ==
  ASSUME CallsOK, [Next]_vars
  PROVE  CallsOK'
<1>1. ASSUME NEW c \in Call, CallNext(c) PROVE CallsOK'
  BY <1>1, CallSteps, GoesWellKeeps
<1>2. ASSUME NEW i \in Id, PersonDecides(i) \/ AppTimesOut(i) \/ ChannelAnswers(i) PROVE CallsOK'
  BY <1>2, ResumesWell DEF PersonDecides, AppTimesOut, ChannelAnswers
<1>3. ASSUME NEW i \in Id, Buttons(i) \/ PostEnds(i) \/ ButtonsTimeOut(i) \/ Asked(i) PROVE CallsOK'
  BY <1>3, CallsAlone DEF Buttons, PostEnds, ButtonsTimeOut, Asked
<1>4. CASE Stream \/ Sinks \/ UNCHANGED vars
  BY <1>4, CallsAlone DEF Stream, Sinks, vars
<1>5. CASE Restart
  <2>1. calls' = [c \in Call |-> NoCall] /\ policy' = policy
    BY <1>5 DEF Restart
  <2> QED BY <2>1 DEF CallsOK, CallOK
<1> QED BY <1>1, <1>2, <1>3, <1>4, <1>5 DEF Next, Timers

------------------------------------------------------------------------------
(* The app's stream *)

Event == [type : {"approval", "decision"}, id : Id, answer : Answer]

\* An approval's event comes before its decision's.
InOrder ==
  \A m, n \in DOMAIN queue :
    queue[m].id = queue[n].id /\ queue[m].type = "decision" /\ queue[n].type = "approval" => n < m

\* What waits is shown, about to be listed or on its way; what does not and is shown, or
\* on its way, has its decision behind it.
Agreed ==
  \A i \in Id :
    /\ i \in pending => /\ ~Coming("decision", i)
                        /\ i \in shown \cup replay \/ Coming("approval", i)
    /\ i \notin pending /\ (i \in shown \/ Coming("approval", i)) => Coming("decision", i)

StreamOK ==
  /\ stream \in {"closed", "listing", "open"}
  /\ queue \in Seq(Event)
  /\ InOrder
  /\ stream = "closed" => queue = <<>> /\ shown = {}
  /\ stream # "closed" => Agreed
  /\ stream # "listing" => replay = {}

appVars == <<pending, stream, replay, queue, shown>>

LEMMA StreamAlone ==
  ASSUME StreamOK, UNCHANGED appVars
  PROVE  StreamOK'
BY DEF StreamOK, appVars, InOrder, Agreed, Coming

\* What the queue holds after an event is added, or forwarded.
LEMMA Added ==
  ASSUME StreamOK, NEW e \in Event, queue' = Append(queue, e),
         e.type = "approval" => ~Mentions(e.id)
  PROVE  /\ queue' \in Seq(Event) /\ InOrder'
         /\ \A type, i : Coming(type, i)' <=> Coming(type, i) \/ (e.type = type /\ e.id = i)
<1>1. queue \in Seq(Event) /\ Len(queue') = Len(queue) + 1
      /\ \A n \in 1..Len(queue) : queue'[n] = queue[n]
  BY DEF StreamOK
<1>2. queue' \in Seq(Event) /\ DOMAIN queue' = 1..(Len(queue) + 1) /\ queue'[Len(queue) + 1] = e
  BY <1>1
<1>3. \A type, i : Coming(type, i)' <=> Coming(type, i) \/ (e.type = type /\ e.id = i)
  <2> SUFFICES ASSUME NEW type, NEW i
               PROVE  Coming(type, i)' <=> Coming(type, i) \/ (e.type = type /\ e.id = i)
    OBVIOUS
  <2>1. DOMAIN queue = 1..Len(queue)
    BY <1>1
  <2>2. \A n \in DOMAIN queue' : n \in DOMAIN queue \/ n = Len(queue) + 1
    BY <1>1, <1>2
  <2>3. Len(queue) + 1 \in DOMAIN queue' /\ DOMAIN queue \subseteq DOMAIN queue'
    BY <1>1, <1>2
  <2> QED BY <1>1, <1>2, <2>1, <2>2, <2>3 DEF Coming
<1>4. InOrder'
  <2> SUFFICES ASSUME NEW m \in DOMAIN queue', NEW n \in DOMAIN queue',
                      queue'[m].id = queue'[n].id,
                      queue'[m].type = "decision", queue'[n].type = "approval"
               PROVE  n < m
    BY DEF InOrder
  <2>1. CASE n = Len(queue) + 1
    <3>1. m \in 1..Len(queue)
      BY <1>2, <2>1
    <3>2. queue[m].id = e.id
      BY <1>1, <1>2, <2>1, <3>1
    <3> QED BY <1>2, <2>1, <3>1, <3>2 DEF Mentions
  <2>2. CASE n # Len(queue) + 1
    BY <1>1, <1>2, <2>2 DEF InOrder, StreamOK
  <2> QED BY <2>1, <2>2
<1> QED BY <1>2, <1>3, <1>4

LEMMA Forwarded ==
  ASSUME StreamOK, queue # <<>>, queue' = Tail(queue), NEW e, e = Head(queue)
  PROVE  /\ e \in Event
         /\ queue' \in Seq(Event) /\ InOrder'
         /\ \A type, i : Coming(type, i) <=>
                           Coming(type, i)' \/ (e.type = type /\ e.id = i)
         /\ e.type = "decision" => ~Coming("approval", e.id)'
<1>1. /\ queue \in Seq(Event) /\ Len(queue) >= 1 /\ Len(queue) \in Nat
      /\ e = queue[1] /\ e \in Event
      /\ queue' \in Seq(Event) /\ DOMAIN queue' = 1..(Len(queue) - 1)
      /\ \A n \in 1..(Len(queue) - 1) : queue'[n] = queue[n + 1]
  BY DEF StreamOK
<1>2. InOrder'
  <2> SUFFICES ASSUME NEW m \in DOMAIN queue', NEW n \in DOMAIN queue',
                      queue'[m].id = queue'[n].id,
                      queue'[m].type = "decision", queue'[n].type = "approval"
               PROVE  n < m
    BY DEF InOrder
  <2>1. n + 1 < m + 1
    BY <1>1 DEF InOrder, StreamOK
  <2> QED BY <1>1, <2>1
<1>3. ASSUME NEW type, NEW i
      PROVE  Coming(type, i) <=> Coming(type, i)' \/ (e.type = type /\ e.id = i)
  <2>1. ASSUME Coming(type, i)
        PROVE  Coming(type, i)' \/ (e.type = type /\ e.id = i)
    <3>1. PICK n \in DOMAIN queue : queue[n].type = type /\ queue[n].id = i
      BY <2>1 DEF Coming
    <3>2. CASE n # 1
      <4>1. n - 1 \in DOMAIN queue' /\ queue'[n - 1] = queue[n]
        BY <1>1, <3>2
      <4> QED BY <3>1, <4>1 DEF Coming
    <3> QED BY <1>1, <3>1, <3>2
  <2>2. ASSUME Coming(type, i)' PROVE Coming(type, i)
    <3>1. PICK n \in DOMAIN queue' : queue'[n].type = type /\ queue'[n].id = i
      BY <2>2 DEF Coming
    <3>2. n + 1 \in DOMAIN queue /\ queue'[n] = queue[n + 1]
      BY <1>1
    <3> QED BY <3>1, <3>2 DEF Coming
  <2>3. 1 \in DOMAIN queue
    BY <1>1
  <2> QED BY <1>1, <2>1, <2>2, <2>3 DEF Coming
<1>4. ASSUME e.type = "decision" PROVE ~Coming("approval", e.id)'
  <2> SUFFICES ASSUME NEW n \in DOMAIN queue', queue'[n].type = "approval",
                      queue'[n].id = e.id
               PROVE  FALSE
    BY DEF Coming
  <2>1. n + 1 \in DOMAIN queue /\ 1 \in DOMAIN queue /\ queue[n + 1] = queue'[n]
    BY <1>1
  <2>2. n + 1 < 1
    BY <1>1, <1>4, <2>1 DEF InOrder, StreamOK
  <2> QED BY <1>1, <2>2
<1> QED BY <1>1, <1>2, <1>3, <1>4

\* An approval is raised under a name that is not used.
LEMMA RaisesStream ==
  ASSUME StreamOK, NEW i \in Id, Unused(i), NEW place, Raises(i, place)
  PROVE  StreamOK'
<1>1. pending' = pending \cup {i} /\ UNCHANGED <<stream, replay, shown>>
      /\ i \notin pending /\ i \notin shown /\ i \notin replay /\ ~Mentions(i)
  BY DEF Raises, Unused
<1>2. CASE stream = "closed"
  BY <1>1, <1>2 DEF Raises, Emits, StreamOK, InOrder
<1>3. CASE stream # "closed"
  <2>1. PICK e : e = [type |-> "approval", id |-> i, answer |-> "unanswered"]
    OBVIOUS
  <2>2. e \in Event /\ queue' = Append(queue, e)
    BY <1>3, <2>1 DEF Raises, Emits, Event, Answer
  <2>3. /\ queue' \in Seq(Event) /\ InOrder'
        /\ \A type, j : Coming(type, j)' <=> Coming(type, j) \/ (e.type = type /\ e.id = j)
    BY <1>1, <2>1, <2>2, Added
  <2>4. \A type : ~Coming(type, i)
    BY <1>1 DEF Coming, Mentions
  <2>5. Agreed'
    BY <1>1, <1>3, <2>1, <2>3, <2>4 DEF Agreed, StreamOK
  <2> QED BY <1>1, <1>3, <2>3, <2>5 DEF StreamOK
<1> QED BY <1>2, <1>3

\* One is settled.
LEMMA SettlesStream ==
  ASSUME StreamOK, NEW i \in Id, NEW answer, Settles(i, answer)
  PROVE  StreamOK'
<1>1. pending' = pending \ {i} /\ UNCHANGED <<stream, replay, shown>>
  BY DEF Settles
<1>2. CASE stream = "closed"
  BY <1>1, <1>2 DEF Settles, Emits, StreamOK, InOrder
<1>3. CASE stream # "closed"
  <2>1. PICK e : e = [type |-> "decision", id |-> i,
                      answer |-> IF answer = "allow" THEN "allow" ELSE "deny"]
    OBVIOUS
  <2>2. e \in Event /\ e.type = "decision" /\ e.id = i /\ queue' = Append(queue, e)
    BY <1>3, <2>1 DEF Settles, Emits, Event, Answer
  <2>3. /\ queue' \in Seq(Event) /\ InOrder'
        /\ \A type, j : Coming(type, j)' <=> Coming(type, j) \/ (e.type = type /\ e.id = j)
    BY <2>2, Added
  <2>4. Agreed'
    BY <1>1, <1>3, <2>2, <2>3 DEF Agreed, StreamOK
  <2> QED BY <1>1, <1>3, <2>3, <2>4 DEF StreamOK
<1> QED BY <1>2, <1>3

\* The stream comes and goes.
LEMMA StreamSteps ==
  ASSUME StreamOK, Connects \/ Replays \/ Disconnects \/ Forwards
  PROVE  StreamOK'
<1>1. CASE Connects
  <2>1. /\ queue' = <<>> /\ DOMAIN queue' = {} /\ shown' = {}
        /\ pending' = pending /\ replay' = pending /\ stream' = "listing"
    BY <1>1 DEF Connects, StreamOK
  <2>2. \A type, i : ~Coming(type, i)'
    BY <2>1 DEF Coming
  <2>3. InOrder' /\ queue' \in Seq(Event)
    BY <2>1 DEF InOrder
  <2>4. Agreed'
    BY <2>1, <2>2 DEF Agreed
  <2> QED BY <2>1, <2>3, <2>4 DEF StreamOK
<1>2. CASE Replays
  <2>1. \A type, i : Coming(type, i)' <=> Coming(type, i)
    BY <1>2 DEF Replays, Coming
  <2> QED BY <1>2, <2>1 DEF Replays, StreamOK, InOrder, Agreed
<1>3. CASE Disconnects
  BY <1>3 DEF Disconnects, StreamOK, InOrder
<1>4. CASE Forwards
  <2>1. stream # "closed" /\ UNCHANGED <<pending, stream, replay>>
    BY <1>4 DEF Forwards, StreamOK
  <2>2. PICK e : e = Head(queue)
    OBVIOUS
  <2>3. /\ e \in Event /\ queue' \in Seq(Event) /\ InOrder'
        /\ \A type, i : Coming(type, i) <=> Coming(type, i)' \/ (e.type = type /\ e.id = i)
        /\ e.type = "decision" => ~Coming("approval", e.id)'
    BY <1>4, <2>2, Forwarded DEF Forwards
  <2>4. shown' = IF e.type = "approval" THEN shown \cup {e.id} ELSE shown \ {e.id}
    BY <1>4, <2>2 DEF Forwards
  <2>5. e.type = "approval" \/ e.type = "decision"
    BY <2>3 DEF Event
  <2>6. Agreed'
    BY <2>1, <2>3, <2>4, <2>5 DEF Agreed, StreamOK
  <2> QED BY <2>1, <2>3, <2>6 DEF StreamOK
<1> QED BY <1>1, <1>2, <1>3, <1>4

LEMMA StreamKeeps ==
  ASSUME StreamOK, [Next]_vars
  PROVE  StreamOK'
<1>1. ASSUME NEW c \in Call, CallNext(c) PROVE StreamOK'
  <2>1. KeepsApprovals \/ \E call : Asks(c, call) \/ RaisesFor(c, call)
    BY <1>1 DEF CallNext, PreToolUse, ModeDecides, CanUseTool, HostBash, Reviewed, GivesUp,
                CommandEnds, Ends
  <2>2. KeepsApprovals \/ \E call : RaisesFor(c, call)
    BY <2>1 DEF Asks
  <2>3. KeepsApprovals \/ \E i \in Id : \E place : Unused(i) /\ Raises(i, place)
    BY <2>2 DEF RaisesFor
  <2> QED BY <2>3, StreamAlone, RaisesStream DEF KeepsApprovals, approvalVars, appVars
<1>2. ASSUME NEW i \in Id, PersonDecides(i) \/ AppTimesOut(i) \/ ChannelAnswers(i) PROVE StreamOK'
  <2>1. \E answer : Settles(i, answer)
    BY <1>2 DEF PersonDecides, AppTimesOut, ChannelAnswers, AppAnswers, DiscordAnswers
  <2> QED BY <2>1, SettlesStream
<1>3. ASSUME NEW i \in Id, Buttons(i) \/ PostEnds(i) \/ ButtonsTimeOut(i) \/ Asked(i) PROVE StreamOK'
  BY <1>3, StreamAlone DEF Buttons, PostEnds, ButtonsTimeOut, Asked, Presses, Posted, PostFails,
                           TimesOut, QuestionEnds, KeepsApp, appVars
<1>4. CASE Stream
  BY <1>4, StreamSteps DEF Stream
<1>5. CASE Sinks \/ UNCHANGED vars
  BY <1>5, StreamAlone DEF Sinks, ScrollsOut, vars, approvalVars, appVars
<1>6. CASE Restart
  BY <1>6 DEF Restart, ApprovalRestart, StreamOK, InOrder
<1> QED BY <1>1, <1>2, <1>3, <1>4, <1>5, <1>6 DEF Next, Timers

------------------------------------------------------------------------------
(* The theorems *)

IInv == CallsOK /\ StreamOK

\* Calls and the app's stream are always as IInv says.
THEOREM Invariance == Spec => []IInv
<1>1. Init => IInv
  <2>1. Init => CallsOK
    BY DEF Init, CallsOK, CallOK
  <2>2. Init => StreamOK
    BY DEF Init, ApprovalInit, StreamOK, InOrder
  <2> QED BY <2>1, <2>2 DEF IInv
<1>2. IInv /\ [Next]_vars => IInv'
  BY CallsKeep, StreamKeeps DEF IInv
<1> QED BY <1>1, <1>2, PTL DEF Spec

\* No tool but a core one runs that a person's deny or an agent's rule forbids, or without
\* the leave that some part of it needs, whatever way the call took (buildPreToolUseHook()
\* in agent.ts, host-bash in server.ts).
THEOREM RunsAreAllowed == Spec => []RunsAllowed
<1>1. IInv => RunsAllowed
  <2> SUFFICES ASSUME IInv, NEW c \in Call, calls[c].stage = "ran", calls[c].tool \notin Core
               PROVE  /\ policy.person.known
                      /\ ~UserDenies(policy.person, calls[c].tool, calls[c].parts)
                      /\ policy.rules = NoRules /\ policy.gate => calls[c].leave \in {"person", "review"}
                      /\ policy.rules # NoRules => \A n \in DOMAIN calls[c].parts :
                           LET part == calls[c].parts[n] IN
                           /\ ~Forbids(calls[c].tool, part)
                           /\ ~Permits(calls[c].tool, part) => calls[c].leave \in {"person", "review"}
    BY DEF RunsAllowed
  <2>1. calls[c] # NoCall /\ CallOK(calls[c])
    BY NoCallStage DEF IInv, CallsOK
  <2> QED BY <2>1 DEF CallOK, Cleared, Free
<1> QED BY <1>1, Invariance, PTL

\* What the app shows is what waits, but for the events on their way to it (controller.ts).
THEOREM AppAgrees == Spec => []ClientsAgree
<1>1. IInv => ClientsAgree
  BY DEF IInv, StreamOK, Agreed, ClientsAgree
<1> QED BY <1>1, Invariance, PTL
==============================================================================
