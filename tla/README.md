# Stockade in TLA+

Specifications, model-checking configurations and proofs for the parts of
stockade that keep conversations going and agents within their rules: the
orchestrator's session lifecycle, the message bus, the loop of a worker session,
the scheduler, the workers on the host and in containers, messages between
sessions, sub-agents, tool calls with their approvals, and the credential proxy.
Paths below are relative to `src/packages/`.

## The system

Stockade connects people (Discord, a terminal, an app) and other agents to
Claude sessions.  An *orchestrator* process routes each message by its *scope*
(one conversation) to a *session*; a *worker* process (on the host or in a
container) runs one message loop per session, and each loop runs *queries*: a
CLI process that takes messages and yields turns and results.  The two
processes talk over HTTP (create and delete a session, callbacks) and over Redis
channels (messages to a scope, events from it, "worker ready").

| Component | State it keeps | Operations | Interacts with |
|---|---|---|---|
| Concurrency gate `orchestrator/src/bus/concurrency-gate.ts` | scopes with a slot, queue of blocked calls | acquire, release | called by the session manager |
| Session manager `bus/session-manager.ts` | sessions by scope, their idle timers | ensure, create, close, close all, touch, reset | gate, callback registry, worker over HTTP, sessions.db |
| Callback registry `api/sessions.ts` | tokens and who they stand for | create, update, delete | read by every worker callback |
| Bridge `bus/orchestrator-bridge.ts` | pending dispatches, held texts, busy marks | sendAndWait, timeouts, worker events, restarts | session manager, event bus, channels |
| Event bus `bus/event-bus.ts`, `worker/src/redis-bridge.ts` | subscriptions | publish, subscribe | Redis |
| Worker session table `worker/src/server.ts` | loops by session, session by scope | POST, DELETE, eviction | session manager, loops |
| Worker loop `worker/src/session.ts`, `agent.ts`, `channel.ts` | pending messages, the running query, what its next result answers | message, query, result, requeue, abort | CLI, event bus |
| Sudo mode `sudo.ts`, `index.ts` | scopes in sudo mode | on, off, expiry | bridge, session manager |
| Containers `containers/` | containers by agent, their clean-ups, ports | ensure, teardown, shutdown, adopt, remove orphans | session manager, Docker, the proxy's tokens |
| Host workers `workers/host.ts` | processes by agent, ports | ensure, health, stop | session manager |
| Dispatch queue `containers/queue.ts` | queues by agent | enqueue, stop | nothing: the gate and the bridge replaced it |
| Scheduler `scheduler/` | tasks and runs in SQLite | poll, claim, run, edit | bridge |
| Peers `peers.ts`, `peer-pairings.ts`, `peer-remote.ts` | pairings, questions under way, reply windows, bindings of fresh sessions | send, start, reply, notice, answer, revoke | bridge, approvals, other controllers |
| Sub-agents `agent-mcp.ts`, `dispatcher.ts` | runs by id, runs by name | start, stop, message | bridge, session manager |
| Approvals `controller-approvals.ts`, `controller.ts`, `channels/discord.ts` | approvals under way, Discord messages with buttons, what the app shows | ask, answer, mirror, time out, replay | channels, app |
| Permissions `permissions.ts`, `rbac.ts`, `gatekeeper.ts` | rules of agents and people | decide, review | tool calls, through `api/server.ts` and the worker's hooks |
| Credential proxy `proxy/src/` | tokens and their file, references, the provider's session, cached values | issue, revoke, read, store, rewrite | sandboxed workers, the provider's commands |
| Session history and bindings `sessions.ts`, `session-history.ts`, `scope-bindings.ts` | rows | record, bind, drop | bridge, peers |
| Channels `channels/` | threads, prompts | receive, post, ask | bridge, approvals |
| HTTP API and configuration `api/`, `config.ts` | none of their own | routes | everything |
| Transcript clean-up and run-as | files | rewrite | sudo mode |

What is hard in it: JavaScript runs a step between two `await`s without
interruption, and everything else interleaves.  Two dispatches of a scope create
a session at the same time; a close settles after the scope has a new session; a
request times out after the other side has acted on it; a result is published
while a message for the same scope is on its way; a worker or the orchestrator
restarts with the other one still running; a mode switch cuts a turn off; a
health check fails while the exit of the process it asked is on its way; a worker
stops waiting for an answer that is given later; the person answers a question
while a restart forgets it; a parent holds the slot that its child waits for.  There
are no acknowledgements on the Redis channels: a message published while nobody
is subscribed is gone, and timeouts and retries make up for it.

Correct means, by component: the gate never gives out more slots than it has,
never keeps a caller waiting beside a free slot, and gets every slot back; a live
session has a known callback token and an armed timer; a worker process has one loop
for a scope; a message given to a loop is read once unless something crashes, and answered at
most once; every sender is settled; what a switch cuts off is dispatched again;
a request for an agent reaches that agent; no tool runs that the rules forbid, or
without the leave they ask for; a person is asked once about a pair, and the answer
stands; the app shows the questions that wait; a reference is exchanged once and a
revoked token stays revoked; every sub-agent's start ends.

## The modules

| Module | Models | Notes |
|---|---|---|
| `ConcurrencyGate` | `concurrency-gate.ts` | a gate is a value; `Acquire` and `Release` are functions |
| `SessionManager` | `session-manager.ts`, `api/sessions.ts`, `server.ts` | extends the gate; several scopes and callers |
| `SessionManager_proofs` | | theorems about the gate and both of its users: the session manager and `SubAgents` |
| `MessageFeed` | | the abstract specification of a worker session |
| `WorkerLoop` | `session.ts`, `agent.ts`, `channel.ts` | the loop's actions, without an environment |
| `WorkerSession` | `WorkerLoop` with any sender | implements `MessageFeed` |
| `DispatchBus` | `orchestrator-bridge.ts`, `sudo.ts`, the switch in `index.ts`, composed with `WorkerLoop` | one scope, end to end |
| `WorkerLoop_proofs` | | theorems about the loop in both of its compositions, `WorkerSession` and `DispatchBus` |
| `Scheduler` | `scheduler/`, the task routes of `api/server.ts` | stands alone: a run is an opaque wait |
| `Scheduler_proofs` | | theorems |
| `ContainerManager` | `containers/manager.ts`, `ports.ts`, `provision.ts`, the shutdown in `index.ts` | stands alone |
| `ContainerManager_proofs` | | theorems |
| `HostWorkers` | `workers/host.ts`, `containers/ports.ts`, the shutdown in `index.ts` | stands alone |
| `HostWorkers_proofs` | | theorems |
| `PairLife` | | the abstract specification of a pairing |
| `Pairings` | `peer-pairings.ts` | the store: rows, and questions under way |
| `Peers` | `peers.ts`, `peer-remote.ts`, the peer routes | extends the store; implements `PairLife` |
| `Peers_proofs` | | theorems |
| `Permissions` | `permissions.ts`, `rbac.ts`, `gatekeeper.ts` | operators only |
| `Approvals` | `controller-approvals.ts`, `controller.ts`, Discord's `askDecision` and `askQuestions` | actions, without those who ask |
| `ToolCalls` | the hooks of `worker/src/agent.ts`, the permission routes of `api/server.ts` | composes `Approvals` and `Permissions` |
| `ToolCalls_proofs` | | theorems |
| `Credentials` | `proxy/src/shared/credentials.ts` | the provider's session and commands, the cache |
| `Proxy` | `proxy/src/gateway/`, `http/proxy.ts`, `http/body-rewriter.ts` | composed with `Credentials` |
| `Proxy_proofs` | | theorems |
| `SubAgents` | `agent-mcp.ts`, over timers of the bridge and of sessions | extends the gate |
| `MCSessionManager`, `MCWorkerSession`, `MCDispatchBus`, `MCScheduler`, `MCContainers`, `MCHostWorkers`, `MCPeers`, `MCToolCalls`, `MCProxy`, `MCSubAgents` | | instances for TLC |

**SessionManager.**  `calls[c].stage` is the `await` at which one
`ensureSession` call stands; the session the call makes bears its name, and so do
the session's token (`callbacks`), timer (`idleTimers`) and loop (`loops`).
`sessions` is the manager's map, `scopeOwner[w]` the `scopeToSessionId` of worker
process `w`, `workerUrl` the process a call's session was sent to.  Which process
that is, `RegisterCallback` leaves open, as what `ensure()` gives depends on a health
check, on what outlived a crash and, for an inline child, on whether its parent has a
worker: a scope's sessions may go from one running process to another.
Each action is the code between two awaits: `PostFailed` releases the slot twice
because the inner and the outer `catch` of `createSession` both do;
`IdleTimerFires` closes whatever session the scope has; `CloseSettled` releases
the slot by scope after the clean-up.  A POST may be taken by the worker after
its sender gave up (`AcceptLate`), and the orchestrator or a worker process may
restart and find the others as they were.

**WorkerLoop.**  One record, `loop`, holds the variables of `runPersistentLoop`
and `runAgentSession` (the comment above `Loop` names them).  `unread` is what
was pushed into the running query's channel and not taken by the CLI.  The CLI is
external: it reads items, ends turns, starts and ends background tasks, reports
idle, ends and fails when it likes.  `Finished` is the `finally` block together
with the next round of the loop, which takes requeued messages at once.

**DispatchBus.**  `attempts` is the map of pending dispatches; a retry is a new
attempt that answers the same sender.  A `closing` is an awaited `closeSession`
with what its caller does next (dispatch held texts, send a message, retry).
`wire` and `events` are the two Redis channels.  `saved` is the transcript
`sessions.db` names for the scope, `held` the texts a switch cut off.

**Scheduler.**  `tasks` is the table `scheduled_tasks`, cut down to status, kind
and next run; `running` holds the runs whose `executeTask` is pending, each with
the row as it was claimed (its `anchor` is the old next run); `fired` records
what was started.  `CheckDueTasks` is a whole poll: it has no await, so the
re-check of each task's status never sees anything else than the query did.
`EndRun` is the code after the await, for a run that succeeded or failed.
Interval and cron tasks are both a grid of occurrences; that cron reads the
clock again and intervals step from the anchor comes to the same point.  What a
run does (a dispatch through the bridge, a message to the channel) and the run
log are left out, and so is a task created for a time zone other than the
configured one, whose first occurrence is off the later grid.

**ContainerManager.**  `jobs[k].stage` is the `await` at which the one `ensure()`
of a key stands (the others wait for it).  `containers`, `cleanups` and
`allocated` are the manager's maps and port allocator, lost when the process
ends; `docker` and `tokens` are what Docker and the credential proxy keep.  An id
is one provision: its token and the container made with it.  Every call of Docker
or the proxy may fail: `TornDown` goes on whatever Docker said, `CreateFailed`
gives port and token back, `StartFailed` gives nothing back.  A shutdown is one
action per container, and calls of `ensure()` go on during it; `Boot`, `Adopt`,
`Skip` and `RemoveOrphans` are `cleanupOrphans`.  `"adrift"` marks a token whose
revocation only a lost process knew of; `survivors` remembers containers that a
removal failed to remove, or that were made while all were being removed.

**HostWorkers.**  `workers` is the table of `host.ts`, `starts` the calls of
`ensure()` that await a first health answer (the calls for one agent share one),
`probe` the entry whose answer `checkHealth` awaits, `procs` what the operating
system knows.  `EnsureStarts` is the stretch from the port to the table's entry,
`HealthOK` and `HealthTimesOut` its two ends, `ExitSeen` the exit handler, which
runs some time after `Exits`.  A health request asks whoever listens on the port,
which is the point: `host.ts:4` says each worker runs on a port of its own.  Two
ghosts name the two ways in which the code departs from that: `lent` holds processes
whose port was given back while they ran, `lost` ports of children that were
replaced before their exit was seen.  A crash leaves the children running and
forgets their ports.

**Peers.**  `Pairings` holds a row per pair (sender from outside, session or the
right to start one) and `pending`, the marks of questions under way, which live in
memory.  `asks` holds the messages that wait for the answer, each with the
session it is for; `inbound` and `outbound` are the windows of 24 hours in which a
session may reply or takes notices; `turns` the peer messages being worked on, with
the hops behind them (`TurnHops` is what a further send starts from); `scopes` what
became of the name of a fresh session.  Reading a pair's state and marking it asked
about is one step: the awaits between the two (peers.ts:589, 649 and 650) find their
values at hand and give way to microtasks only, among which no other handler is taken
to be.  A send that is refused
changes nothing and is no step.  Left out: inboxes of principals and their polls,
rate limits, the wait for a scope in sudo mode in `deliver`, failures of the notices,
more than one person.  That a call to another controller is under way is implied by
`outbound`.

**Permissions, Approvals, ToolCalls.**  A pattern is the set of what it matches and
a shell line a sequence of commands, so the operators of `Permissions` are the
chains of decisions with the spelling left out.  `asks[i]` in `Approvals` is where
an approval stands: in the app, in Discord (sent, waited for, closing) or as a
question.  `pending` is the hub's map, `queue` the chain of promises on which
`forwardApproval` runs, `replay` what a new stream listed.  A failed or timed out
Discord message is cleaned up by its place in the channel (`CleansUp`), as the code
does.  In `ToolCalls`, `calls[c]` is a call with its stage: before the hook, in
review, asked about, at the second check, run.  `GivesUp` is a timeout of the worker
(10 minutes in the hook, 11 in `canUseTool`, 125 seconds for a host command), after
which the orchestrator goes on: a host command may still run by the route that
was asked.  A host command passes the rules twice.  A call that was refused is over
at once.

**Credentials, Proxy.**  `ops[o]` is the provider command of one caller; a command
takes effect when it runs and exits later.  `promise` is the shared sign-in, `signing`
the operations whose sign-in runs.  `reqs[o]` is what the caller does with the value:
a gateway call, the injection of a route's credential, or the replacement of the
references `todo` in a request.  `held` and `file` are the tokens in memory and in
`gateway-tokens.json`; a write that fails is only warned about (`saved`).  Commands
that fail are taken to have no effect and the provider to have a sign-in command.  A
failed command is signed in again and run once more if its words look like a refusal
(`Refused`), also under a session that is good, or is over at once (`HasFailed`).  Patterns of scopes, network
policy, certificates and bytes are left out; so is a CONNECT tunnel that keeps the
routes of its start.

**SubAgents.**  `sends[d]` is one `sendAndWait` (at the gate, pending with its timer,
answered, failed), `runs` and `names` the two tables of `agent-mcp.ts`, `waits[s]` the
starts that the agent of `s` awaits, `live` the sessions by scope, `stopping` the stops
between lookup and clean-up, `slots` the gate.  What follows the end of a call runs before anything
else (`Due`).  `Reports` and `ReportFails` are the two handlers of a background run's
end, which clean up once more when the parent cannot be told.  Left out: `message`,
which changes no state (`Reached` is its lookup), the checks of who may start whom, a
publish that fails, and restarts of workers, which `DispatchBus` has.

What is abstracted in `DispatchBus`: message texts are sets of names (a merged prompt is the
union), results carry only what they answer, time is the order of steps, and the
credential proxy's tokens, busy marks, notes to the agent, peers' messages,
sub-agents' own timeouts, streaming of partial text and the orchestrator's
shutdown are left out of `DispatchBus`.  There a session is created in one step
(its interior is the business of `SessionManager`), and a message that finds the
other mode closes that session in the step in which it looked; the awaits before
that look-up in the Discord adapter are not there.

## The runs

| Run | Bounds | Shows |
|---|---|---|
| `session_manager` | 3 callers, 2 scopes, 1 slot, 2 worker processes, 1 restart; one caller asks for sudo | `SlotLimit`, `NoIdleSlot`, `NoSlotLeak`, `LiveSessionIntact`, `OneLoopPerScope`, and, with fairness and if launches end, `WaiterServed` |
| `session_limit` | same | refutes "global concurrency limiter for active agent sessions" |
| `worker_session` | 3 messages, 2 crashes, 1 event in flight | `AnsweredOnce`, `ReplyComes`, and that the loop implements `MessageFeed` (`KeepsFeed`) |
| `dispatch_bus` | 2 messages, 4 correlation ids, 1 mishap, no timeout retry | `NoCallerForgotten`, `HeldHasCarrier`, `HeldResumed`, and, if creations end, `Settles` |
| `stale_session` | 1 message, 3 ids, 1 timeout retry, the recorded transcript lost | `SavedHeals` |
| `scheduler` | 2 tasks, period 2, a clock of 5, 1 crash | `FiredOnce`, `OnceSettles` |
| `containers` | 2 agents, 2 ports, 3 provisions at a time | `PortsHeld`, `TokenKept`, `NoTokenLeak` |
| `host_workers` | 2 agents, 2 ports, 3 processes | `OwnAnswers`, `NoPortLost`, and, with fairness, `DeadFound` |
| `peers` | a conversation, a fresh session, a principal, a session elsewhere; hop limit 2, 1 peer turn per session | `MarkIsQuestion`, and that the pairs implement `PairLife` (`PairsLive`) |
| `tool_calls` | 2 calls, 2 approvals, 6 policies | `RunsAllowed`, `ClientsAgree`, and, with fairness, `AsksEnd` |
| `proxy` | 2 operations, 1 token, 1 key, 1 reference carried twice | `OneUse`, `NeverBack`, and, with fairness, `RequestsEnd` |
| `sub_agents` | 1 conversation in sudo mode, 1 slot, 2 runs, 1 continuation | `NamesLive`, and, with fairness, `StartsEnd` |

Why the bounds suffice.  Two scopes on one slot make each wait for the other;
three callers are two overlapping creations of one scope and a waiter, or a
creation, its replacement and a close that settles late.  Two worker processes are a
scope's old one and its new one.  The proofs drop these bounds.  Three messages to a loop are one being answered, one injected, and one
that arrives after the reply.  Two messages to the bus are a carrier and a
carried; one mishap of any kind is combined with every interleaving of the two.
`MaxEvents` (events published and not handled) makes the loop wait where the code
would go on; the code never blocks there, which is why the fairness of
`WorkerSession` is strong for the actions that publish.  `Cid` is a pool: an id is
used again when nothing refers to it, and a dispatch that finds the pool empty
waits, which the code's never do.  Mishaps (`MaxMishaps`) and crashes
(`MaxCrashes`), restarts (`MaxRestarts`) and retries (`MaxContinue`, the code's
`MAX_AUTO_CONTINUE`) are capped.  A clock of five with a period of two gives
each task two occurrences and a moment between them, so that a run can end before,
at or after the next one, claimed or not; a crash falls between any two of these
steps.  Two agents on two ports compete for both; a third provision is one made
while a failed one is still in the proxy's or Docker's memory, and provisions are
used again when nothing refers to them, so that crashes and boots need no cap.
Agents and provisions are symmetric (the run checks invariants only).

Two agents of `HostWorkers` on two ports, with a third process, are the
least in which a child that was replaced, its replacement and a stranger on one of
their ports exist at a time.  In `Peers` each kind of session and sender occurs once, so
that every handler has a caller and a target; a hop limit of 2 is the least at
which one message may lead to another and that one may not; `MaxTurns` caps the peer
turns of a session, `RemoteHops` what another controller may state.  `Reach` says who
writes to whom: the principal to the fresh session, the remote session to the
conversation; `Earlier` lets the remote's starts have been allowed before, so that one
may begin without a question.  Two tool calls
with two approvals overlap in the hub, the queue of events and the Discord channel, and
a name is used again when nothing refers to it.  The six policies are an
unknown person, a guest with one command, the gatekeeper alone, rules with deny, allow
and ask, a deny for one part, and a worker's own mode; each takes another path through
the checks.  A request that carries a reference twice meets itself, and another one that
carries it.  One slot with two runs is where a parent starves its child; a chain
of three is two such pairs.

Deadlock is not checked: when every message has been sent and settled, the system
rests, and a worker, a proxy or an approval that nobody uses does too.

### Fairness

* `SessionManager`: the continuation of a call that gets its slot, the POST and the
  requests of a close (each has a timeout), and idle timers.  The launch of a worker
  is not fair: a `docker` command (containers/docker.ts:12) and the hand-over of a
  transcript have no timeout, and one that hangs keeps its slot for ever.  So
  `WaiterServed` says what it assumes: `LaunchesEnd`, that no call stays in a launch.
  A timer that is armed again and again would never fire; the calls are finitely
  many, so the weak fairness of a timer is what remains when they are over.  Nothing
  makes anybody send or close.
* `WorkerSession`: the loop's own continuations, and a CLI that takes input and
  ends its turns; `ReplyComes` is conditional on there being no crash.
* `DispatchBus`: the orchestrator's timers and the requests of a close only.  A
  dispatch's timer starts over with each turn of the worker, but the turns of a query
  are limited (`max_turns`), so it fires in the end.  Nothing is assumed of worker, CLI
  or Redis: `Settles` holds though a worker may never answer.  The timer is armed
  only after `ensureSession` (orchestrator-bridge.ts:188, 206), and neither the wait
  at the gate nor Docker is bounded: a sender whose creation hangs waits for ever,
  with no timer.  `Settles` says what it assumes: `CreationsEnd`.
* `HostWorkers`: exit events arrive, every probe ends (it has a timeout of 3 seconds),
  and the monitor asks about a worker that is alive again and again: strong fairness,
  because it does so every 30 seconds whatever else the worker's entry went through.
* `Peers`: a question ends, as the ask behind it has a timer; nobody has to answer.
* `ToolCalls`: the approvals' timers, the returns of Discord's calls, and the forwarding
  of events.  A review has no timeout, so none is assumed to end; `AsksEnd` does not
  need it.
* `Proxy`: the provider's commands end, and what waits for them goes on.  The code sets
  no timeout on a command, so the first is an assumption on the provider: a command
  that hangs holds its request, and a sign-in that hangs holds all of them.
* `SubAgents`: continuations, dispatch timers, opens, closes and idle timers.  No agent
  is assumed to end a turn: it is the idle timers that free the slots of parents
  that wait, and the dispatch timers that end the starts.  That a call which was
  granted a slot opens its session or fails is an assumption, as Docker has no timeout.
* `ContainerManager`: none; it has only safety properties.
* `Scheduler`: polls, because the loop re-arms its timer whatever a poll threw,
  and the ends of runs, because the bridge settles every dispatch (`Settles`), which
  assumes that the creations of sessions end.
  Time need not pass.  `OnceSettles` excepts a crash: after one, a one-off task
  that was claimed stays active with no next run, and never runs.

## What the runs found

One run is there to refute: `session_limit` shows that the promise of "global
concurrency limiter for active agent sessions" is not kept.  Slots are released by scope.  In the
shortest trace two calls create a session of one scope together, on one slot; the
first goes live, the worker of the second does not come up, and its catch
(session-manager.ts:611) releases the scope's slot, which is by now the live
session's.  A call for another scope gets it, and there are two sessions on one slot
(`SessionLimit`).  A close that settles late, after its scope has a new session, frees
that session's slot in the same way (session-manager.ts:198).  The gate's own
count is right all the same (`SlotLimit`).

The models show more that the code does and a comment or a reader may not expect.
The properties were stated so that they hold beside it; counterexamples of the
stronger statements led to these remarks.

* Two first messages of a scope create two sessions, though session-manager.ts:5
  says one is; the live one is intact, and a worker process keeps one loop.
* Nothing evicts a scope's loop in another process (server.ts:81 is per process): when
  its next session goes elsewhere while the old process runs on, as after a failed
  health check or a crash, both loops answer.  `OneLoopPerScope` is per process.
* The reply to a message that arrives while a follow-up is ending may be that
  follow-up (session.ts:183, against the comment at 166).
* Held texts are taken before it is sure that the dispatch goes out
  (orchestrator-bridge.ts:113): if it fails, they are lost.
* A result settles messages that never reached the worker
  (orchestrator-bridge.ts:520, against the comment at 515); their own replies are then
  dropped.
* The end of a run writes the next run anew (scheduler.ts:61).  If an occurrence came
  due during the run and no poll has claimed it yet, it is skipped; one that was
  started is never started again (`FiredOnce`).
* A container whose start or health check failed keeps its name and port
  (manager.ts:151), and every later attempt for the agent is refused, where the
  diagram in docs/architecture.md has a retry.
* A clean exit revokes tokens by key after awaiting Docker: a container made for
  that key meanwhile loses its token, is not removed, and the next boot may hand
  it out.  `TokenKept` excepts these containers, the `survivors`.
* The port of a host worker is given back when a health check fails and again when
  the process exits.  A worker that was only slow still listens there, and an agent
  started meanwhile on the same port fails to bind while its health request is
  answered by the other agent's worker: `OwnAnswers` names these cases.  A child that
  never gets healthy is overwritten by the next attempt and keeps its port
  (`NoPortLost`).
* An allow of a principal that has run out by an hour of silence comes back into force
  when the session replies to it, as the reply touches the row that lapsed.
* Discord's clean-up after a timeout edits the newest message with buttons among
  the channel's last five (discord.ts:1040), which may be that of another approval;
  that one then waits for its timer.
* A host command whose worker gave up waiting may still run once its question is
  answered.
* A value that was being read while its key is stored anew, or while the configuration
  is reloaded, is put into the cache after the cache was emptied
  (credentials.ts:36), and served until its time is over.
* A failed sign-in stays the shared promise until a command fails in the way the code
  takes for an expired session; a reference is used up before its credential is
  read, so a failed read loses it; a request that carries it in a header and in its
  body has the second left as it was.
* A background run's result is lost when the parent is in sudo mode by then
  (agent-mcp.ts:112): the report is sent as everyday work, fails, and so does the
  report of the failure.
* A stop of a run that still waits at the gate closes nothing, and the run begins
  later; a stopped run in the background is still reported, as a timeout; of two runs
  with one session key, the first to end closes the session of the other.  The abort that a
  stop publishes is not heeded by any worker (worker/src/index.ts:48).

## What is proved

Every invariant and action property that a passing run checks is also a theorem, for
every value of the constants that satisfies their named assumptions.

**Sessions.**  `SessionManager_proofs` proves, for any sets of scopes, callers and worker processes, any
number of slots above zero and any number of restarts, that every state satisfies
`TypeOK`, `SlotLimit`, `NoIdleSlot`, `NoSlotLeak`, `LiveSessionIntact` and
`OneLoopPerScope`.  Assumptions: `SlotsAssumption`, `SudoAssumption`,
`NoneAssumption`, `RestartsAssumption`, all named in the modules that declare the
constants.

None of the properties is inductive.  The invariant `IInv` adds

* to the gate: its holders are a finite set within the limit, and the queue is
  empty unless all slots are taken (`GateOK`), and each waiter in the queue is a call of the scope it waits for (`QueueMatches`);
  without that a woken waiter would give its slot's scope no owner;
* to `LiveSessionIntact`: a live session's call is over and no close of it is
  under way (`LiveOwnsItsName`), a creation past registration has its token
  (`CreatingRegistered`), and only finished calls are being closed
  (`ClosingIsGone`); without these a late failure or clean-up could clear the
  live session's token;
* to `OneLoopPerScope`: each loop runs in the process its session was sent to, whose
  scope table names it (`LoopsNamed`), and a session that may be sent has a process
  (`SentSomewhere`).

The first lemmas of the module say what `Acquire` and `Release` preserve
and return.  `Release` wakes a number of waiters chosen by `Woken`; that it
exists is the least-number argument of `LeastNatural` and `WokenStops`.  The step
lemmas (`TypeStep`, `GateStep`, `LiveStep`, `SentStep`, `LoopStep`) split on the actions.

**Sub-agents.**  The same module proves `AgentsTypeOK` and `NamesLive` for any
conversations, keys, runs, names, arguments, slots and continuations, on the same
lemmas about the gate.  `AgentsTypeOK` says more than types (the calls and the gate
agree on who waits), so a step needs to know that a call waits there once (`Once`):
if a granted call stood in the queue as well, its continuation would leave it there.
A report must not be sent on a call that waits, and none is made before its run is
over (`ToldOfEnds`).  Nobody awaits a run in the background (`NoneWaits`), so the end
of one leaves no agent waiting for it.  `NamesLive` is inductive once it says that the
run a name leads to has that name (`Named`) and that runs are started in their order
(`Begun`).  Assumptions: those on constants in `SubAgents`, of which `ScopesAssumption`
takes no conversation for a run and `NothingAssumption` keeps `Nothing` apart from
scopes and names.
`SlotsHaveHolders` adds the part of `StartsEnd` that needs no fairness: each slot that
is taken belongs to an open session, whose idle timer is set, to a close that has not
released it yet, or to a call that was granted it and goes on (`SlotsHeld`).  With
`GateOK`, which keeps the queue empty while there is room, a call that waits has
somebody to wait for in every state.  A close may release the slot of a later session
of its scope, so the converse, that each open session holds a slot, is false.

**The worker's loop.**  `WorkerLoop_proofs` proves of `WorkerSession`, for any messages,
bounds and crashes, `SessionTypeOK`, `AnsweredOnce` and the safety half of the
refinement of `MessageFeed` (`FeedKept`: the session starts as the feed does, and each
step is one of the feed's steps or a stutter).  The invariant is `SessionInv`.  That no
id gets a second result needs to know what may still be named: only a message that
came (`Known`), the one a running query owes its reply to, what waits for the next
query (`ToAnswer`), and what a late upload names (`Uploads`), none of which a result has
named yet.  The steps of the feed need to know where messages are: in one place
each (`Places`), and, of those that came after the reply, that they have been read or
wait in the channel (`AfterReply`), so that a query which ends in the ordinary way
carries over exactly what was not read, and its end is no step of the feed.

**The bus.**  Of `DispatchBus`, the module proves `TypeOK`, `HeldHasCarrier`, `SavedHeals`
and `NoCallerForgotten` for any messages and any finite pool of ids, with
`MessagesAssumption`, `BoundsAssumption`, `TranscriptsAssumption`, `PoolAssumption`,
`NoneAssumption` and `EventsAssumption`.  A dispatch takes its ids from the pool in
their order (`InOrder`), so the proofs first show that a finite set of numbers has one
(`OrderExists`, `InOrderLists`) and what follows for a dispatch and a closing's retries:
each new attempt has an id of its own that nothing in flight has (`DispatchFacts`,
`RetriesFacts`).  `NoCallerForgotten` rests on that (`DispatchKeepsCallers`) and on
`CarryOnlySends`: only a closing that dispatches a message afterwards carries one.
`SavedHeals` is about the moment at which no event is under way; `TurnTold`
says of every other one that the loop's first turn is still to be heard of.

**The scheduler.**  `Scheduler_proofs` proves `TypeOK` and `FiredOnce` for any tasks, period, clock
and number of crashes, from `PeriodAssumption`, `NoneAssumption` and
`BoundsAssumption`.  `FiredOnce` alone is not inductive; `FiredBefore` says why it
holds: what was started lies in the past and before the next run, and both
writers of a next run write a moment to come (`NextIsToCome`, from the fact on
division `DivisionPasses`), a run that ends late included, since its anchor has
passed (`RunsStarted`).

**Containers.**  `ContainerManager_proofs` proves `TypeOK`, `PortsHeld`, `TokenKept` and
`NoTokenLeak` for any agents, ports and provisions, from `NoneAssumption`, in two
layers.  `IInv` strengthens `PortsHeld`: what an `await` of `ensure()` remembers
still agrees with the map and with Docker (`JobsFormed`, `JobsOwn`, `Mapped`), a
provision under way has a name nothing else has (`Fresh`), and a boot finds what
it listed (`Found`); without `JobsOwn` a teardown could release another agent's
port.  `TInv` adds that a stored clean-up is that of the key's container
(`CleanupsMatch`), what a clean exit will revoke (`TodoMatch`), and that only a
container that was to be removed has a revoked token (`RevokedLast`).

**Host workers.**  `HostWorkers_proofs` proves `TypeOK`, `OwnAnswers` and `NoPortLost` for any agents,
ports and processes, from `NoneAssumption` (`PortAssumption` gives the ports an order,
which the proofs do not need).  `IInv` says on which ports two running
processes can meet (`Exclusive`), that the allocator knows the port of a running
process unless it was given back (`Known`), that the table has the port a process was
started on (`OnPort`), that what is alive has a child (`Entered`), and to whom each
allocated port belongs (`Owned`).  Without `Known` a start could take a port in
use; without `OnPort` an exit would give back another port than the entry's.

**Peers.**  `Peers_proofs` proves, for any senders, sessions, hop and turn limits and reach, `TypeOK`,
`MarkIsQuestion` and the safety half of the refinement of `PairLife`
(`PairsKeepLife`: the pairs start as it says, and each step is one of its steps or a
stutter; its liveness half stays with TLC).  Assumptions: `BoundsAssumption`,
`SendersAssumption`, `ScopesAssumption`, `PreApprovedAssumption`, `EarlierAssumption`
and `HopsAssumption`.  An answer to a start opens the pair of its sender with a session
that has just come to be, and that pair must be new, or two questions could be open
about it.  So `IInv` adds that a question of a start is for a fresh session no other one
is for (`AsksFormed`, `StartsDiffer`), and that a name not given, or held for a start
that waits, has no message, note, decision or question yet (`UnbornUntouched`).

**The proxy.**  `Proxy_proofs` proves `TypeOK`, `OneUse` and `NeverBack` for any operations, tokens, keys,
references and contents of requests, from `OpAssumption`, `KeysAssumption` and
`ContentsAssumption`.  `IInv` says that an operation waits for a sign-in that is under way
(`VaultOK`), which requests have an operation under way (`ReqsOK`), that of a live
reference nothing was used and nobody awaits the credential, and that a used one is
awaited by one request at most, which has not replaced it yet (`Unspent`); and that
what the file holds and is still good is in memory unless the last write failed
(`FileFollows`), which is what a restart reads.

**Tool calls.**  `ToolCalls_proofs` proves `RunsAllowed` and `ClientsAgree` for any calls, approvals,
invocations and policies, from `PoliciesAssumption`, `InvocationAssumption` and
`NoRulesAssumption`.  The first rests on lemmas about the operators of `Permissions`:
the first rule that matches decides (`FirstMatchIsFirst`, `FirstMatchMeans`), the most
restrictive part does (`EvaluateMeans`), and the hook lets through what they let
(`SaysMeans`).  The invariant says of each call that waits what these have cleared it
of, and that one which waits for the worker's own mode needs nobody's leave
(`CallOK`).  For the app, `StreamOK` adds the approvals a new stream is about to be sent
and the order of an approval's events in the queue (`InOrder`); without it a late
"approval" could be shown after its decision was.

Only model-checked: the liveness properties `WaiterServed`, `ReplyComes`, `Settles`,
`HeldResumed`, `OnceSettles`, `DeadFound`, `AsksEnd`, `RequestsEnd` and `StartsEnd`
(fairness and `ENABLED` are beyond the prover), and the fairness that the refinements
`KeepsFeed` and `PairsLive` promise beside their steps.

## The plan

Done: every module above, checked by TLC, with theorems for all their safety
properties and for the steps of both refinements.  Next, in this order:

1. Proofs: action properties that no run states yet, such as that a message once read
   is read again only after a crash; that each `sendAndWait` is given one outcome.
2. The busy marks of the bridge and the wait of a peer's message for a scope in sudo
   mode, in `DispatchBus`.

## Not modelled

* The `DispatchQueue` of `containers/queue.ts`: the gate and the bridge replaced it, only
  `validate.ts` makes one.  `restart`, `teardownScope`, `cleanupIdle` and
  `rebuildContainer` of the container manager, and `restart` of the host workers: nothing
  calls them.
* The one-shot dispatch of `dispatcher.ts` and the one-shot SSE mode of the worker, which
  keep no state between messages.
* Messages, commands and threads of Discord and the terminal, transcripts and their
  clean-up, history and its search, files and run-as: I/O and layout.
* TLS, certificates, network policy and SSH plumbing of the proxy; mounts, images,
  volumes and environments of containers; the reading of configuration.
