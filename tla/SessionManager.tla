---------------------------- MODULE SessionManager ----------------------------
(***************************************************************************)
(* The orchestrator's session lifecycle                                    *)
(* (packages/orchestrator/src/bus/session-manager.ts) with the concurrency *)
(* gate it draws slots from, the registry of callback tokens it writes,    *)
(* and the scope tables of the worker processes that serve its sessions    *)
(* (packages/worker/src/server.ts).                                        *)
(*                                                                         *)
(* A caller is one ensureSession() call.  The session a caller creates is  *)
(* named after the caller, and so are that session's callback token, idle  *)
(* timer and worker loop.  A step of the model is what the code does       *)
(* between two awaits.  A worker process is what answers at a URL; each    *)
(* has a scope table of its own.  Which process a session goes to is left  *)
(* open here (HostWorkers and ContainerManager say what ensure() gives):   *)
(* the sessions of a scope may go to one process after another, while the  *)
(* earlier ones run on.  The tokens of the credential proxy are left out.  *)
(***************************************************************************)
EXTENDS ConcurrencyGate

CONSTANTS None,         \* no session
          SudoCaller,   \* the callers whose dispatch asks for a sudo session
          Worker,       \* worker processes
          MaxRestarts   \* bound on process restarts

ASSUME SudoAssumption == SudoCaller \subseteq Caller
ASSUME NoneAssumption == None \notin Caller
ASSUME RestartsAssumption == MaxRestarts \in Nat

VARIABLES
  gate,          \* the ConcurrencyGate
  calls,         \* calls[c]: where the ensureSession() call c stands
  sessions,      \* sessions[s]: the live session of scope s (the sessions map)
  callbacks,     \* callback tokens the orchestrator's API accepts
  idleTimers,    \* sessions whose idle timer is armed
  closing,       \* sessions closeSession() is awaiting the clean-up of
  workerUrl,     \* workerUrl[c]: the process that c's session was sent to
  loops,         \* worker sessions whose message loop runs
  scopeOwner,    \* scopeOwner[w][s]: the scopeToSessionId of process w
  restarts       \* orchestrator and worker restarts so far

workers == <<workerUrl, loops, scopeOwner, restarts>>
vars == <<gate, calls, sessions, callbacks, idleTimers, closing, workers>>

\* Where a call stands: not made, awaiting the gate, the worker, the
\* preparation of the request, the POST (before and after the worker took
\* it), or over; "abandoned" is over with the POST still on its way.
Stage == {"idle", "acquiring", "starting", "preparing", "posting", "accepted",
          "ready", "failed", "abandoned"}

\* A call that is past the gate and has not set or given up its session.
Creating == {"starting", "preparing", "posting", "accepted"}

TypeOK ==
  /\ gate \in Gate
  /\ calls \in [Caller -> [stage : Stage, scope : Scope]]
  /\ sessions \in [Scope -> Caller \cup {None}]
  /\ callbacks \subseteq Caller
  /\ idleTimers \subseteq Caller
  /\ closing \subseteq Caller
  /\ workerUrl \in [Caller -> Worker \cup {None}]
  /\ loops \subseteq Caller
  /\ scopeOwner \in [Worker -> [Scope -> Caller \cup {None}]]
  /\ restarts \in 0..MaxRestarts

\* The scope table of a process that has just started.
NoSessions == [s \in Scope |-> None]

Init ==
  /\ gate = OpenGate
  /\ calls \in [Caller -> [stage : {"idle"}, scope : Scope]]
  /\ sessions = [s \in Scope |-> None]
  /\ callbacks = {}
  /\ idleTimers = {}
  /\ closing = {}
  /\ workerUrl = [c \in Caller |-> None]
  /\ loops = {}
  /\ scopeOwner = [w \in Worker |-> NoSessions]
  /\ restarts = 0

------------------------------------------------------------------------------
(* ensureSession *)

Moved(c, stage) == [calls EXCEPT ![c].stage = stage]

SameMode(c, d) == c \in SudoCaller <=> d \in SudoCaller

Live(s) == sessions[s] # None

\* The scope has a live session of the caller's mode: its idle timer starts
\* over and the caller gets it.
ReuseSession(c) ==
  LET s == calls[c].scope IN
  /\ calls[c].stage = "idle"
  /\ Live(s)
  /\ SameMode(c, sessions[s])
  /\ idleTimers' = idleTimers \cup {sessions[s]}
  /\ calls' = Moved(c, "ready")
  /\ UNCHANGED <<gate, sessions, callbacks, closing, workers>>

\* A sudo dispatch never rides an everyday session, nor the other way round.
RefuseOtherMode(c) ==
  LET s == calls[c].scope IN
  /\ calls[c].stage = "idle"
  /\ Live(s)
  /\ ~SameMode(c, sessions[s])
  /\ calls' = Moved(c, "failed")
  /\ UNCHANGED <<gate, sessions, callbacks, idleTimers, closing, workers>>

\* No live session: createSession() asks the gate for a slot.  Nothing marks
\* the scope as having a creation under way.
RequestSession(c) ==
  LET s == calls[c].scope IN
  /\ calls[c].stage = "idle"
  /\ ~Live(s)
  /\ gate' = Acquire(gate, c, s)
  /\ calls' = Moved(c, "acquiring")
  /\ UNCHANGED <<sessions, callbacks, idleTimers, closing, workers>>

------------------------------------------------------------------------------
(* createSession, after the gate *)

StartWorker(c) ==
  /\ calls[c].stage = "acquiring"
  /\ c \in gate.granted
  /\ gate' = Resume(gate, c)
  /\ calls' = Moved(c, "starting")
  /\ UNCHANGED <<sessions, callbacks, idleTimers, closing, workers>>

\* Mutant: the outer catch forgets the release.
StartFailedKeepingSlot(c) ==
  /\ calls[c].stage = "starting"
  /\ calls' = Moved(c, "failed")
  /\ UNCHANGED <<gate, sessions, callbacks, idleTimers, closing, workers>>

\* The worker did not come up (or the workspace did not resolve): one release.
StartFailed(c) ==
  /\ calls[c].stage = "starting"
  /\ gate' = Release(gate, calls[c].scope)
  /\ calls' = Moved(c, "failed")
  /\ UNCHANGED <<sessions, callbacks, idleTimers, closing, workers>>

\* A worker is up: the agent's own, which may have been started anew beside one
\* that missed a health check or outlived an orchestrator, or for an inline child
\* the parent's, while that has one.  The session goes to this process whatever
\* becomes of it.  The callback token is registered before the session exists,
\* then the proxy token and the transcript hand-over are awaited.
RegisterCallback(c) ==
  /\ calls[c].stage = "starting"
  /\ \E w \in Worker : workerUrl' = [workerUrl EXCEPT ![c] = w]
  /\ callbacks' = callbacks \cup {c}
  /\ calls' = Moved(c, "preparing")
  /\ UNCHANGED <<gate, sessions, idleTimers, closing, loops, scopeOwner,
                 restarts>>

HandoverFailed(c) ==
  /\ calls[c].stage = "preparing"
  /\ callbacks' = callbacks \ {c}
  /\ gate' = Release(gate, calls[c].scope)
  /\ calls' = Moved(c, "failed")
  /\ UNCHANGED <<sessions, idleTimers, closing, workers>>

SendPost(c) ==
  /\ calls[c].stage = "preparing"
  /\ calls' = Moved(c, "posting")
  /\ UNCHANGED <<gate, sessions, callbacks, idleTimers, closing, workers>>

\* Mutant: the scope table holds scopes, not worker sessions.
StartLoopMisfiled(c, s) ==
  LET w == workerUrl[c] IN
  /\ loops' = (loops \ {scopeOwner[w][s]}) \cup {c}
  /\ scopeOwner' = [scopeOwner EXCEPT ![w][s] = s]
  /\ UNCHANGED <<gate, sessions, callbacks, idleTimers, closing, workerUrl,
                 restarts>>

\* Mutant: the superseded loop is not evicted.
StartLoopBeside(c, s) ==
  LET w == workerUrl[c] IN
  /\ loops' = loops \cup {c}
  /\ scopeOwner' = [scopeOwner EXCEPT ![w][s] = c]
  /\ UNCHANGED <<gate, sessions, callbacks, idleTimers, closing, workerUrl,
                 restarts>>

\* Worker: POST /sessions evicts the loop its scope table names, if it still
\* runs, and starts a loop for the new session.  A loop of the scope in another
\* process is not in that table, and runs on.
StartLoop(c, s) ==
  LET w == workerUrl[c] IN
  /\ loops' = (loops \ {scopeOwner[w][s]}) \cup {c}
  /\ scopeOwner' = [scopeOwner EXCEPT ![w][s] = c]
  /\ UNCHANGED <<gate, sessions, callbacks, idleTimers, closing, workerUrl,
                 restarts>>

AcceptPost(c) ==
  /\ calls[c].stage = "posting"
  /\ StartLoop(c, calls[c].scope)
  /\ calls' = Moved(c, "accepted")

\* The worker takes a POST whose sender has given up on it.
AcceptLate(c) ==
  /\ calls[c].stage = "abandoned"
  /\ StartLoop(c, calls[c].scope)
  /\ calls' = Moved(c, "failed")

\* The POST was refused, or its answer did not come in time, before or after
\* the worker took it.  Both the inner and the outer catch release the slot,
\* in one go.
PostFailed(c) ==
  LET s == calls[c].scope IN
  /\ \/ calls[c].stage \in {"posting", "accepted"} /\ calls' = Moved(c, "failed")
     \/ calls[c].stage = "posting" /\ calls' = Moved(c, "abandoned")
  /\ callbacks' = callbacks \ {c}
  /\ gate' = Release(Release(gate, s), s)
  /\ UNCHANGED <<sessions, idleTimers, closing, workers>>

\* The session goes into the map, over whatever the map holds for the scope.
SessionCreated(c) ==
  LET s == calls[c].scope IN
  /\ calls[c].stage = "accepted"
  /\ sessions' = [sessions EXCEPT ![s] = c]
  /\ idleTimers' = idleTimers \cup {c}
  /\ calls' = Moved(c, "ready")
  /\ UNCHANGED <<gate, callbacks, closing, workers>>

------------------------------------------------------------------------------
(* closeSession *)

\* The synchronous part of closeSession(), for each scope of a set: the
\* sessions leave the map and their timers stop, the slots stay taken.
BeginClose(scopes, fired) ==
  LET gone == { sessions[s] : s \in { t \in scopes : Live(t) } } IN
  /\ sessions' = [s \in Scope |-> IF s \in scopes THEN None ELSE sessions[s]]
  /\ idleTimers' = idleTimers \ (gone \cup fired)
  /\ closing' = closing \cup gone
  /\ UNCHANGED <<gate, calls, callbacks, workers>>

\* The bridge, the sub-agent tools, the scheduler or a sudo switch closes the
\* scope's session.
CloseSession(s) == Live(s) /\ BeginClose({s}, {})

\* The idle timer was armed for a session but closes by scope: whatever
\* session the scope has by then.
IdleTimerFires(c) ==
  /\ c \in idleTimers
  /\ BeginClose({calls[c].scope}, {c})

\* Shutdown closes every live session at once.
CloseAll == (\E s \in Scope : Live(s)) /\ BeginClose(Scope, {})

\* Worker: DELETE /sessions/:id aborts that session's loop.
DeleteArrives(c) ==
  LET w == workerUrl[c] IN
  /\ c \in closing
  /\ c \in loops
  /\ loops' = loops \ {c}
  /\ scopeOwner' = [scopeOwner EXCEPT ![w] = [s \in Scope |->
                      IF @[s] = c THEN None ELSE @[s]]]
  /\ UNCHANGED <<gate, calls, sessions, callbacks, idleTimers, closing,
                 workerUrl, restarts>>

\* Mutant: the callback tokens of the scope go, whoever's they are.
CloseSettledByScope(c) ==
  /\ c \in closing
  /\ closing' = closing \ {c}
  /\ callbacks' = { d \in callbacks : calls[d].scope # calls[c].scope }
  /\ gate' = Release(gate, calls[c].scope)
  /\ UNCHANGED <<calls, sessions, idleTimers, workers>>

\* Mutant: a closed session keeps its slot.
CloseSettledKeepingSlot(c) ==
  /\ c \in closing
  /\ closing' = closing \ {c}
  /\ callbacks' = callbacks \ {c}
  /\ UNCHANGED <<gate, calls, sessions, idleTimers, workers>>

\* The clean-up requests have all settled; the DELETE may have failed.
CloseSettled(c) ==
  /\ c \in closing
  /\ closing' = closing \ {c}
  /\ callbacks' = callbacks \ {c}
  /\ gate' = Release(gate, calls[c].scope)
  /\ UNCHANGED <<calls, sessions, idleTimers, workers>>

------------------------------------------------------------------------------
\* The orchestrator process dies and comes back with empty memory; worker
\* processes and their loops survive it.
OrchestratorRestarts ==
  /\ restarts < MaxRestarts
  /\ restarts' = restarts + 1
  /\ gate' = OpenGate
  /\ calls' = [c \in Caller |-> [calls[c] EXCEPT !.stage =
                 CASE @ = "idle" -> "idle"
                   [] @ \in {"posting", "abandoned"} -> "abandoned"
                   [] OTHER -> "failed"]]
  /\ sessions' = [s \in Scope |-> None]
  /\ callbacks' = {}
  /\ idleTimers' = {}
  /\ closing' = {}
  /\ UNCHANGED <<workerUrl, loops, scopeOwner>>

\* A worker process dies and comes back with empty tables.
WorkerRestarts(w) ==
  /\ restarts < MaxRestarts
  /\ restarts' = restarts + 1
  /\ loops' = { c \in loops : workerUrl[c] # w }
  /\ scopeOwner' = [scopeOwner EXCEPT ![w] = NoSessions]
  /\ UNCHANGED <<gate, calls, sessions, callbacks, idleTimers, closing,
                 workerUrl>>

Ensure(c) == ReuseSession(c) \/ RefuseOtherMode(c) \/ RequestSession(c)

\* The steps of a creation that await Docker, the start of a host process or the
\* hand-over of a transcript; none of these has a timeout (docker.ts execCommand,
\* run-as.ts).
Launch(c) ==
  StartFailed(c) \/ RegisterCallback(c) \/ HandoverFailed(c) \/ SendPost(c)

\* The steps that await nothing, or the POST, which is given ten seconds.
Create(c) ==
  StartWorker(c) \/ AcceptPost(c) \/ PostFailed(c) \/ SessionCreated(c)

Next ==
  \/ \E c \in Caller :
       Ensure(c) \/ Launch(c) \/ Create(c) \/ AcceptLate(c)
         \/ IdleTimerFires(c) \/ DeleteArrives(c) \/ CloseSettled(c)
  \/ \E s \in Scope : CloseSession(s)
  \/ CloseAll
  \/ OrchestratorRestarts
  \/ \E w \in Worker : WorkerRestarts(w)

\* Continuations run, timers fire, and the requests of a POST and of a close
\* settle: each of those has a timeout.  Nothing obliges a worker to come up
\* (Launch), nor anybody to send a message, to close or to restart anything.
Fairness ==
  \A c \in Caller :
    WF_vars(Create(c)) /\ WF_vars(IdleTimerFires(c)) /\ WF_vars(CloseSettled(c))

Spec == Init /\ [][Next]_vars /\ Fairness

------------------------------------------------------------------------------
(* Properties *)

\* The gate never hands out more slots than it has, whatever the order of
\* creations, failures (two releases) and closes.
SlotLimit == Cardinality(gate.active) <= MaxConcurrent

\* No call waits at the gate while a slot is free: a release lost between a
\* failure and a close would leave one free for ever.
NoIdleSlot == gate.queue # <<>> => Cardinality(gate.active) = MaxConcurrent

\* Somebody will give the slot of scope s back: a creation under way, a live
\* session, or a close under way.
HasOwner(s) ==
  \/ \E c \in Caller :
       /\ calls[c].scope = s
       /\ calls[c].stage \in Creating \/ c \in gate.granted \/ c \in closing
  \/ Live(s)

\* No slot leaks: every scope that holds one has somebody to give it back,
\* through overlapping creations and closes of the same scope.
NoSlotLeak == \A s \in gate.active : HasOwner(s)

\* A live session can answer its worker's callbacks (its token is known) and
\* will be closed when idle (its own timer is armed), although creations that
\* were overwritten, failed or closed clear tokens and timers of the scope.
LiveSessionIntact ==
  \A s \in Scope :
    Live(s) => /\ sessions[s] \in callbacks
               /\ sessions[s] \in idleTimers
               /\ calls[sessions[s]].scope = s

\* A worker process has one loop for a scope: however creations overlap, POSTs
\* come late and the orchestrator restarts, a session sent to a process leaves no
\* other loop of the scope in it.  Loops of one scope in two processes are not
\* excluded; a scope whose sessions all went to one process has one.
OneLoopPerScope ==
  \A c, d \in loops :
    calls[c].scope = calls[d].scope /\ workerUrl[c] = workerUrl[d] => c = d

\* Each creation that awaits a worker gets one or fails, in the end.  The code
\* does not see to it: a docker command may hang for ever.
LaunchesEnd ==
  \A c \in Caller : []<>(calls[c].stage \notin {"starting", "preparing"})

\* A call blocked at the gate gets its slot, if the launches of workers end:
\* slots come back when sessions go idle, creations fail or sessions are closed.
WaiterServed ==
  LaunchesEnd =>
    \A c \in Caller :
      (calls[c].stage = "acquiring") ~> (calls[c].stage # "acquiring")

\* concurrency-gate.ts:2 "global concurrency limiter for active agent
\* sessions": no more live sessions than slots.
SessionLimit == Cardinality({ s \in Scope : Live(s) }) <= MaxConcurrent
==============================================================================
