------------------------------- MODULE SubAgents -------------------------------
(***************************************************************************)
(* Sub-agents: the tools start and stop of an agent, as the orchestrator   *)
(* carries them out (packages/orchestrator/src/agent-mcp.ts), over the     *)
(* bridge's sendAndWait, its dispatch timer, the sessions' idle timers and *)
(* the gate that bounds the open sessions.                                 *)
(*                                                                         *)
(* A call of sendAndWait is named by what it carries: a conversation for   *)
(* the message of its person, a run for the run's task, Report[r] for the  *)
(* text that tells the parent of background run r how it ended.  Time is   *)
(* not counted: an agent may be silent for as long as any timer needs, and *)
(* a timer may fire whenever it is set.                                    *)
(***************************************************************************)
EXTENDS ConcurrencyGate

CONSTANTS Chat,         \* scopes of conversations
          SudoChat,     \* those in sudo mode
          Key,          \* scopes named by the session argument of start
          Run,          \* runs, numbered in the order of their start
          Report,       \* the calls that report on background runs
          Name,         \* names an agent may give a run
          Args,         \* the arguments a start may have
          MaxContinue,  \* MAX_AUTO_CONTINUE
          Nothing

ASSUME RunsAssumption == Run \subseteq Nat /\ SudoChat \subseteq Chat
ASSUME ScopesAssumption == Scope = Chat \cup Key \cup Run /\ Chat \cap Run = {}
ASSUME NothingAssumption == Nothing \notin Scope \cup Name
ASSUME CallsAssumption == Caller = Chat \cup Run \cup { Report[r] : r \in Run }
ASSUME ReportsAssumption ==
  \A q, r \in Run : Report[q] \notin Chat \cup Run /\ (q # r => Report[q] # Report[r])
ASSUME ArgsAssumption ==
  Args \subseteq [key : Key \cup {Nothing}, self : BOOLEAN, background : BOOLEAN,
                 name : Name \cup {Nothing}]
ASSUME ContinueAssumption == MaxContinue \in Nat

VARIABLES
  slots,     \* the concurrency gate
  live,      \* live[s]: the open session of s, sudo, everyday or none
  closes,    \* closes[s]: closes of s that have not released their slot
  sends,     \* sends[d]: the dispatches and where they are
  runs,      \* runs[r]: what is known of run r, and whether it is registered
  names,     \* names[n]: the run registered under the name n
  waits,     \* waits[s]: the starts the agent of s waits for
  stopping   \* stops that await the publication of their abort

agentsVars == <<slots, live, closes, sends, runs, names, waits, stopping>>

Mode == {"sudo", "everyday"}

Call == [st : {"unused", "gate", "pending", "answered", "threw", "over"},
         scope : Scope \cup {Nothing}, mode : Mode, retries : 0..MaxContinue,
         bad : BOOLEAN]

AgentRun == [registered : BOOLEAN, parent : Scope \cup {Nothing},
             scope : Scope \cup {Nothing}, self : BOOLEAN, background : BOOLEAN,
             name : Name \cup {Nothing}]

Unused == [st |-> "unused", scope |-> Nothing, mode |-> "everyday", retries |-> 0,
           bad |-> FALSE]

NoRun == [registered |-> FALSE, parent |-> Nothing, scope |-> Nothing, self |-> FALSE,
          background |-> FALSE, name |-> Nothing]

Started == { r \in Run : runs[r] # NoRun }

Registered == { r \in Run : runs[r].registered }

\* The state has its type.  Beyond it: a call waits at the gate exactly while
\* it is in the gate's queue or granted, an agent that waits has an open
\* session, and a start it waits for has not returned.
AgentsTypeOK ==
  /\ slots \in Gate
  /\ live \in [Scope -> Mode \cup {"none"}]
  /\ closes \in [Scope -> Nat]
  /\ sends \in [Caller -> Call]
  /\ runs \in [Run -> AgentRun]
  /\ names \in [Name -> Run \cup {Nothing}]
  /\ waits \in [Scope -> SUBSET Run]
  /\ stopping \subseteq Started
  /\ { d \in Caller : sends[d].st = "gate" }
       = slots.granted \cup FirstCallers(slots.queue, Len(slots.queue))
  /\ \A s \in Scope : \A r \in waits[s] :
       live[s] # "none" /\ sends[r].st # "over"

AgentsInit ==
  /\ slots = OpenGate
  /\ live = [s \in Scope |-> "none"]
  /\ closes = [s \in Scope |-> 0]
  /\ sends = [d \in Caller |-> Unused]
  /\ runs = [r \in Run |-> NoRun]
  /\ names = [n \in Name |-> Nothing]
  /\ waits = [s \in Scope |-> {}]
  /\ stopping = {}

------------------------------------------------------------------------------
(* sendAndWait *)

ModeOf(s) == IF s \in SudoChat THEN "sudo" ELSE "everyday"

\* The scopes whose dispatches are failed, and never continued, by their timer.
IsSubagent(s) == s \in Key \/ (s \in Run /\ ~runs[s].self)

\* A dispatch that is a continuation ends with an error text, a first one
\* throws.
Fails(call) == IF call.retries > 0 THEN "answered" ELSE "threw"

\* A dispatch to a scope without a session waits at the gate, with one of its
\* own mode it is published, with one of the other mode it fails.  The calls
\* and the open sessions are cs and lv by then.
Send(d, call, cs, lv) ==
  LET s     == call.scope
      stage == IF lv[s] = "none" THEN "gate"
               ELSE IF lv[s] = call.mode THEN "pending" ELSE Fails(call)
  IN  /\ sends' = [cs EXCEPT ![d] = [call EXCEPT !.st = stage]]
      /\ slots' = IF stage = "gate" THEN Acquire(slots, d, s) ELSE slots

New(s, mode) == [Unused EXCEPT !.scope = s, !.mode = mode]

\* A person writes in a conversation.
PersonSends(c) ==
  /\ sends[c].st = "unused"
  /\ Send(c, New(c, ModeOf(c)), sends, live)
  /\ UNCHANGED <<live, closes, runs, names, waits, stopping>>

\* The slot is granted, and the session created and used.
Opens(d) ==
  /\ d \in slots.granted
  /\ slots' = Resume(slots, d)
  /\ live' = [live EXCEPT ![sends[d].scope] = sends[d].mode]
  /\ sends' = [sends EXCEPT ![d].st = "pending"]
  /\ UNCHANGED <<closes, runs, names, waits, stopping>>

\* Mutant: the call is left as it was.
OpenFailsSilently(d) ==
  /\ d \in slots.granted
  /\ slots' = Release(Resume(slots, d), sends[d].scope)
  /\ UNCHANGED <<live, closes, sends, runs, names, waits, stopping>>

\* The session cannot be created: the slot is released, the call fails.
OpenFails(d) ==
  /\ d \in slots.granted
  /\ slots' = Release(Resume(slots, d), sends[d].scope)
  /\ sends' = [sends EXCEPT ![d].st = Fails(sends[d])]
  /\ UNCHANGED <<live, closes, runs, names, waits, stopping>>

\* A result answers every pending dispatch of the scope.
TurnEnds(s) ==
  /\ live[s] # "none" /\ waits[s] = {}
  /\ \E d \in Caller : sends[d].st = "pending" /\ sends[d].scope = s
  /\ sends' = [d \in Caller |->
       IF sends[d].st = "pending" /\ sends[d].scope = s
         THEN [sends[d] EXCEPT !.st = "answered"] ELSE sends[d]]
  /\ UNCHANGED <<slots, live, closes, runs, names, waits, stopping>>

\* Mutant: a silent sub-agent is told to abort, and its dispatch is kept.
TimesOutKeepingSubagents(d) ==
  /\ sends[d].st = "pending" /\ ~IsSubagent(sends[d].scope)
  /\ LET again == [sends[d] EXCEPT !.retries = @ + 1]
     IN  IF sends[d].retries = MaxContinue
           THEN /\ sends' = [sends EXCEPT ![d].st = "answered"]
                /\ UNCHANGED slots
           ELSE Send(d, again, sends, live)
  /\ UNCHANGED <<live, closes, runs, names, waits, stopping>>

\* The dispatch timer fires: a sub-agent's dispatch ends with an error as its
\* text, any other is dispatched again ("continue", or the message itself
\* when the session is gone) until it was continued MaxContinue times.
TimesOut(d) ==
  /\ sends[d].st = "pending"
  /\ LET again == [sends[d] EXCEPT !.retries = @ + 1]
     IN  IF IsSubagent(sends[d].scope) \/ sends[d].retries = MaxContinue
           THEN /\ sends' = [sends EXCEPT ![d].st = "answered"]
                /\ UNCHANGED slots
           ELSE Send(d, again, sends, live)
  /\ UNCHANGED <<live, closes, runs, names, waits, stopping>>

------------------------------------------------------------------------------
(* closeSession *)

\* The session leaves the table at once, and its agent, waiting or not, goes.
Close(s) ==
  /\ live' = [live EXCEPT ![s] = "none"]
  /\ closes' = [closes EXCEPT ![s] = IF live[s] = "none" THEN @ ELSE @ + 1]

\* Nothing restarts the idle timer while the agent is silent, as it is while
\* it waits for a sub-agent.
IdleCloses(s) ==
  /\ live[s] # "none"
  /\ Close(s)
  /\ waits' = [waits EXCEPT ![s] = {}]
  /\ UNCHANGED <<slots, sends, runs, names, stopping>>

\* What the close awaited has settled.
Closed(s) ==
  /\ closes[s] > 0
  /\ closes' = [closes EXCEPT ![s] = @ - 1]
  /\ slots' = Release(slots, s)
  /\ UNCHANGED <<live, sends, runs, names, waits, stopping>>

------------------------------------------------------------------------------
(* start *)

\* The tool waits for the answer, which comes at once for a run in the
\* background.
Awaits(s, r, a) ==
  waits' = IF a.background THEN waits ELSE [waits EXCEPT ![s] = @ \cup {r}]

\* The agent of s starts run r, the next one, in a scope named by a session
\* key or in one of its own, as a copy of itself or as another agent.
Starts(s, r, a) ==
  LET scope == IF a.key = Nothing THEN r ELSE a.key
  IN  /\ live[s] # "none"
      /\ runs[r] = NoRun /\ \A q \in Run : q < r => q \in Started
      /\ runs' = [runs EXCEPT ![r] =
           [registered |-> TRUE, parent |-> s, scope |-> scope, self |-> a.self,
            background |-> a.background, name |-> a.name]]
      /\ names' = IF a.name = Nothing THEN names ELSE [names EXCEPT ![a.name] = r]
      /\ Send(r, New(scope, "everyday"), sends, live)
      /\ Awaits(s, r, a)
      /\ UNCHANGED <<live, closes, stopping>>

\* The tool's HTTP request to start has a timeout of its own.
GivesUp(s, r) ==
  /\ r \in waits[s]
  /\ waits' = [waits EXCEPT ![s] = @ \ {r}]
  /\ UNCHANGED <<slots, live, closes, sends, runs, names, stopping>>

\* Mutant: the name stays.
ForgetsKeepingName(r) ==
  /\ runs' = [runs EXCEPT ![r].registered = FALSE]
  /\ UNCHANGED names
  /\ Close(runs[r].scope)

\* The run leaves both tables, with its name though another run may have
\* taken it, and the session of its scope is closed, whoever works there.
Forgets(r) ==
  /\ runs' = [runs EXCEPT ![r].registered = FALSE]
  /\ names' = [n \in Name |-> IF n = runs[r].name THEN Nothing ELSE names[n]]
  /\ Close(runs[r].scope)

Over(d) == [sends EXCEPT ![d].st = "over"]

\* The start is answered; its run's own agent waits for nothing any more.
Answered(r) ==
  [s \in Scope |-> IF s = runs[r].scope THEN {} ELSE waits[s] \ {r}]

\* A blocking start returns, and its parent's agent goes on.
Returns(r) ==
  /\ sends[r].st \in {"answered", "threw"} /\ ~runs[r].background
  /\ Forgets(r)
  /\ sends' = Over(r)
  /\ waits' = Answered(r)
  /\ UNCHANGED <<slots, stopping>>

\* A text for the parent's agent is dispatched, as everyday work.
Injects(r, cs, bad) ==
  Send(Report[r], [New(runs[r].parent, "everyday") EXCEPT !.bad = bad], cs, live')

\* A background run ends: its parent is sent the result or the error.
Reports(r) ==
  /\ sends[r].st \in {"answered", "threw"} /\ runs[r].background
  /\ Forgets(r)
  /\ waits' = [waits EXCEPT ![runs[r].scope] = {}]
  /\ Injects(r, Over(r), sends[r].st = "threw")
  /\ UNCHANGED <<stopping>>

\* The parent cannot be sent the result: the run is forgotten once more, and
\* the failure is sent instead.
ReportFails(r) ==
  /\ sends[Report[r]].st = "threw" /\ ~sends[Report[r]].bad
  /\ Forgets(r)
  /\ waits' = [waits EXCEPT ![runs[r].scope] = {}]
  /\ Injects(r, sends, TRUE)
  /\ UNCHANGED <<stopping>>

\* A person's message has its answer, a text for a parent its own (it is
\* posted) or none: nothing comes of a failure that cannot be told.
Ends(d) ==
  /\ d \notin Run
  /\ \/ sends[d].st = "answered"
     \/ sends[d].st = "threw" /\ (d \in Chat \/ sends[d].bad)
  /\ sends' = Over(d)
  /\ UNCHANGED <<slots, live, closes, runs, names, waits, stopping>>

------------------------------------------------------------------------------
(* stop and message *)

\* The parent's agent stops a run whose number it was given.
StopAsked(r) ==
  /\ runs[r].registered /\ runs[r].background
  /\ live[runs[r].parent] # "none"
  /\ stopping' = stopping \cup {r}
  /\ UNCHANGED <<slots, live, closes, sends, runs, names, waits>>

\* The abort is published, which no worker heeds, and the run is forgotten,
\* though it may have ended since.
Stops(r) ==
  /\ r \in stopping
  /\ stopping' = stopping \ {r}
  /\ Forgets(r)
  /\ waits' = [waits EXCEPT ![runs[r].scope] = {}]
  /\ UNCHANGED <<slots, sends>>

\* The run a message to the name n is published for (the message is tracked
\* by nothing, and changes no state here).
Reached(n) ==
  IF names[n] = Nothing THEN Nothing
  ELSE IF runs[names[n]].registered THEN names[n] ELSE Nothing

------------------------------------------------------------------------------
\* What follows a call that is over runs before anything else does.
Due == { d \in Caller : sends[d].st \in {"answered", "threw"} }

Continues(d) ==
  \/ d \in Run /\ (Returns(d) \/ Reports(d))
  \/ \E r \in Run : d = Report[r] /\ ReportFails(r)
  \/ Ends(d)

Calls ==
  /\ Due = {}
  /\ \/ \E c \in Chat : PersonSends(c)
     \/ \E s \in Scope, r \in Run, a \in Args : Starts(s, r, a)
     \/ \E r \in Run : StopAsked(r)
     \/ \E s \in Scope : TurnEnds(s)

Settles(s) == Due = {} /\ Closed(s)

Fires(s) == Due = {} /\ IdleCloses(s)

Lapses(d) == Due = {} /\ TimesOut(d)

Resumes(d) == Due = {} /\ (Opens(d) \/ OpenFails(d))

GoesOn(r) ==
  Due = {} /\ (Stops(r) \/ \E s \in Scope : GivesUp(s, r))

AgentsNext ==
  \/ Calls
  \/ \E d \in Caller : Continues(d) \/ Lapses(d) \/ Resumes(d)
  \/ \E s \in Scope : Settles(s) \/ Fires(s)
  \/ \E r \in Run : GoesOn(r)

\* Promises and timers are served.  No agent is assumed to end a turn, and no
\* worker to give up a start.  That a call which was granted a slot goes on
\* (Resumes) is an assumption on Docker, whose commands have no timeout.
AgentsFairness ==
  /\ \A d \in Caller : WF_agentsVars(Continues(d)) /\ WF_agentsVars(Lapses(d))
                       /\ WF_agentsVars(Resumes(d))
  /\ \A s \in Scope : WF_agentsVars(Settles(s)) /\ WF_agentsVars(Fires(s))

AgentsSpec == AgentsInit /\ [][AgentsNext]_agentsVars /\ AgentsFairness

------------------------------------------------------------------------------
(* A name leads to the run that took it last, and never to one that is     *)
(* over, in spite of runs that share a name, of stops that race an end and *)
(* of ends that are handled twice.                                         *)
NamesLive ==
  \A n \in Name : names[n] # Nothing =>
    /\ Reached(n) # Nothing
    /\ \A r \in Registered : runs[r].name = n => r <= Reached(n)

(* Every start ends, though each open session, that of a parent that waits *)
(* for it included, holds one of the slots the run's session needs, and    *)
(* though no agent ever ends its turn.                                     *)
StartsEnd ==
  \A r \in Run : sends[r].st \in {"gate", "pending"} ~> sends[r].st = "over"
==============================================================================
