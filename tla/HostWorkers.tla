----------------------------- MODULE HostWorkers -----------------------------
(***************************************************************************)
(* The worker processes of agents that run on the host                     *)
(* (packages/orchestrator/src/workers/host.ts): ensure(), the exit         *)
(* handler, the health monitor, the shutdown, and a crash of the           *)
(* orchestrator, which leaves its children running.                        *)
(*                                                                         *)
(* A step is what the code does between two awaits, or what the operating  *)
(* system does to a process.  A process that exits and the orchestrator's  *)
(* exit handler are two steps: a health check may fail in between.  A      *)
(* health check asks whoever listens on the port.  restart() is never      *)
(* called by the orchestrator; environments and logs are left out.         *)
(***************************************************************************)
EXTENDS Integers, FiniteSets

CONSTANTS Agent,
          Port,   \* the port range
          Proc,   \* names of processes; used again when nothing refers to one
          None

ASSUME PortAssumption == Port \subseteq Int
ASSUME NoneAssumption == None \notin Proc \cup Port

VARIABLES
  phase,      \* the orchestrator
  workers,    \* workers[a]: the table's entry of a: child, port, alive
  starts,     \* starts[a]: the child whose health the one start of a awaits
  probe,      \* the entry whose health the monitor awaits
  allocated,  \* the port allocator
  doomed,     \* the processes a shutdown waits for
  procs,      \* procs[p]: what the operating system knows of p
  lent,       \* ghost: running processes whose port was released
  lost        \* ghost: ports of children replaced before their exit was seen

vars == <<phase, workers, starts, probe, allocated, doomed, procs, lent, lost>>

\* A child and the port it was started on.
Child == [proc : Proc, port : Port]

Nobody == [proc |-> None, port |-> None]

\* "exited": the exit handler has yet to run.  "gone": it has.
State == {"starting", "listening", "exited", "gone"}

TypeOK ==
  /\ phase \in {"down", "up", "stopping"}
  /\ workers \in [Agent -> [child : Child \cup {Nobody}, alive : BOOLEAN]]
  /\ starts \in [Agent -> Child \cup {Nobody}]
  /\ probe \in [agent : Agent, child : Child] \cup {None}
  /\ allocated \subseteq Port
  /\ doomed \subseteq Proc
  /\ procs \in [Proc -> [port : Port \cup {None}, state : State]]
  /\ lent \subseteq Proc
  /\ lost \subseteq Port

NoWorker == [child |-> Nobody, alive |-> FALSE]

NotRunning == [port |-> None, state |-> "gone"]

Running(p) == procs[p].state \in {"starting", "listening"}

\* Whoever a request to the port reaches.
Listening(n) == {p \in Proc : procs[p].state = "listening" /\ procs[p].port = n}

InTable(p) == \E a \in Agent : workers[a].child.proc = p

Unused(p) ==
  /\ procs[p].state = "gone"
  /\ ~InTable(p)
  /\ \A a \in Agent : starts[a].proc # p
  /\ probe # None => probe.child.proc # p
  /\ p \notin doomed

\* PortAllocator.release, and what it means for those who use the port.
Releases(ports) ==
  /\ allocated' = allocated \ ports
  /\ lent' = lent \cup {p \in Proc : Running(p) /\ procs[p].port \in ports}
  /\ lost' = lost \ ports

KeepsPorts == UNCHANGED <<allocated, lent, lost>>

Becomes(p, state) == procs' = [procs EXCEPT ![p].state = state]

Forgets ==
  /\ workers' = [a \in Agent |-> NoWorker]
  /\ starts' = [a \in Agent |-> Nobody]
  /\ probe' = None
  /\ allocated' = {}
  /\ doomed' = {}
  /\ lost' = {}

Init ==
  /\ phase = "down"
  /\ workers = [a \in Agent |-> NoWorker]
  /\ starts = [a \in Agent |-> Nobody]
  /\ probe = None
  /\ allocated = {}
  /\ doomed = {}
  /\ procs = [p \in Proc |-> NotRunning]
  /\ lent = {}
  /\ lost = {}

------------------------------------------------------------------------------
(* ensure() *)

\* Mutant: the ports given out are not looked at.
LowestPort(n) == n \in Port /\ \A m \in Port : n <= m

LowestFree(n) == n \in Port \ allocated /\ \A m \in Port \ allocated : n <= m

NewProc == CHOOSE p \in Proc : Unused(p)

\* No worker that is alive and no start to share: take a port, spawn, enter the
\* child in the table.  An entry that is there is overwritten, whatever its
\* process does.  With no port left ensure() throws.
EnsureStarts(a) ==
  /\ phase # "down"
  /\ ~workers[a].alive
  /\ starts[a] = Nobody
  /\ \E p \in Proc : Unused(p)
  /\ \E n \in Port :
       /\ LowestFree(n)
       /\ allocated' = allocated \cup {n}
       /\ procs' = [procs EXCEPT ![NewProc] = [port |-> n, state |-> "starting"]]
       /\ LET child == [proc |-> NewProc, port |-> n] IN
          /\ workers' = [workers EXCEPT ![a] = [child |-> child, alive |-> FALSE]]
          /\ starts' = [starts EXCEPT ![a] = child]
  /\ lost' = LET old == workers[a].child IN
             lost \cup {n \in allocated : n = old.port /\ procs[old.proc].state # "gone"}
  /\ UNCHANGED <<phase, probe, doomed, lent>>

\* Mutant: the child is entered without its port.
HealthOKWithoutPort(a) ==
  /\ starts[a] # Nobody
  /\ Listening(starts[a].port) # {}
  /\ workers' = [workers EXCEPT ![a] = [child |-> starts[a].proc, alive |-> TRUE]]
  /\ starts' = [starts EXCEPT ![a] = Nobody]
  /\ KeepsPorts
  /\ UNCHANGED <<phase, probe, doomed, procs>>

\* waitForHealth got an answer on the port.  The start marks its own entry alive,
\* which a shutdown may have taken out of the table.
HealthOK(a) ==
  /\ starts[a] # Nobody
  /\ Listening(starts[a].port) # {}
  /\ workers' = IF workers[a].child = starts[a] THEN [workers EXCEPT ![a].alive = TRUE]
                                               ELSE workers
  /\ starts' = [starts EXCEPT ![a] = Nobody]
  /\ KeepsPorts
  /\ UNCHANGED <<phase, probe, doomed, procs>>

\* Nobody answered for 15 seconds: ensure() throws.  The entry stays, not alive.
HealthTimesOut(a) ==
  /\ starts[a] # Nobody
  /\ starts' = [starts EXCEPT ![a] = Nobody]
  /\ KeepsPorts
  /\ UNCHANGED <<phase, workers, probe, doomed, procs>>

------------------------------------------------------------------------------
(* Processes *)

\* The worker listens.  If the port is taken it cannot, and exits.
Binds(p) ==
  /\ procs[p].state = "starting"
  /\ Listening(procs[p].port) = {}
  /\ Becomes(p, "listening")
  /\ KeepsPorts
  /\ UNCHANGED <<phase, workers, starts, probe, doomed>>

Exits(p) ==
  /\ Running(p)
  /\ Becomes(p, "exited")
  /\ lent' = lent \ {p}
  /\ UNCHANGED <<phase, workers, starts, probe, allocated, doomed, lost>>

\* Mutant: a child that exits keeps its port.
ExitSeenKeepingPort(p) ==
  /\ procs[p].state = "exited"
  /\ procs' = [procs EXCEPT ![p] = NotRunning]
  /\ doomed' = doomed \ {p}
  /\ workers' = [a \in Agent |-> IF workers[a].child.proc = p
                                 THEN [workers[a] EXCEPT !.alive = FALSE]
                                 ELSE workers[a]]
  /\ KeepsPorts
  /\ UNCHANGED <<phase, starts, probe>>

\* The exit event: only the child that is still in the table gives its port
\* back.  A shutdown that waits for the child sees it too.
ExitSeen(p) ==
  /\ procs[p].state = "exited"
  /\ procs' = [procs EXCEPT ![p] = NotRunning]
  /\ doomed' = doomed \ {p}
  /\ workers' = [a \in Agent |-> IF workers[a].child.proc = p
                                 THEN [workers[a] EXCEPT !.alive = FALSE]
                                 ELSE workers[a]]
  /\ Releases(IF InTable(p) THEN {procs[p].port} ELSE {})
  /\ UNCHANGED <<phase, starts, probe>>

------------------------------------------------------------------------------
(* checkHealth(), every 30 seconds: the workers that are alive, one by one *)

Probes(a) ==
  /\ phase = "up"
  /\ probe = None
  /\ workers[a].alive
  /\ probe' = [agent |-> a, child |-> workers[a].child]
  /\ KeepsPorts
  /\ UNCHANGED <<phase, workers, starts, doomed, procs>>

ProbeOK ==
  /\ probe # None
  /\ Listening(probe.child.port) # {}
  /\ probe' = None
  /\ KeepsPorts
  /\ UNCHANGED <<phase, workers, starts, doomed, procs>>

\* Mutant: only an answer that is not OK counts, and silence does not.
ProbeFailsSilently ==
  /\ probe # None
  /\ probe' = None
  /\ KeepsPorts
  /\ UNCHANGED <<phase, workers, starts, doomed, procs>>

\* No answer within 3 seconds, or no listener: the entry that was asked about is
\* marked dead and its port released, without looking at the table again.
ProbeFails ==
  /\ probe # None
  /\ probe' = None
  /\ workers' = IF workers[probe.agent].child = probe.child
                THEN [workers EXCEPT ![probe.agent].alive = FALSE]
                ELSE workers
  /\ Releases({probe.child.port})
  /\ UNCHANGED <<phase, starts, doomed, procs>>

------------------------------------------------------------------------------
(* The orchestrator *)

Boot ==
  /\ phase = "down"
  /\ phase' = "up"
  /\ KeepsPorts
  /\ UNCHANGED <<workers, starts, probe, doomed, procs>>

\* shutdownAll(): every entry leaves the table and gives its port back, every
\* child gets SIGTERM, and SIGKILL after 5 seconds.  Calls of ensure() may follow.
Shutdown ==
  /\ phase = "up"
  /\ phase' = "stopping"
  /\ workers' = [a \in Agent |-> NoWorker]
  /\ doomed' = {p \in Proc : InTable(p) /\ procs[p].state # "gone"}
  /\ Releases({workers[a].child.port : a \in Agent} \ {None})
  /\ UNCHANGED <<starts, probe, procs>>

\* process.exit: the maps are gone, and so are the exit handlers.
ShutdownEnds ==
  /\ phase = "stopping"
  /\ doomed = {}
  /\ phase' = "down"
  /\ Forgets
  /\ procs' = [p \in Proc |-> IF Running(p) THEN procs[p] ELSE NotRunning]
  /\ lent' = {p \in Proc : Running(p)}

Crash ==
  /\ phase # "down"
  /\ phase' = "down"
  /\ Forgets
  /\ procs' = [p \in Proc |-> IF Running(p) THEN procs[p] ELSE NotRunning]
  /\ lent' = {p \in Proc : Running(p)}

Next ==
  \/ \E a \in Agent :
       \/ EnsureStarts(a)
       \/ HealthOK(a)
       \/ HealthTimesOut(a)
       \/ Probes(a)
  \/ \E p \in Proc : Binds(p) \/ Exits(p) \/ ExitSeen(p)
  \/ ProbeOK
  \/ ProbeFails
  \/ Boot
  \/ Shutdown
  \/ ShutdownEnds
  \/ Crash

\* The exit event comes.  The monitor asks about each worker again and again, and
\* every probe has an end.
Fairness ==
  /\ \A p \in Proc : WF_vars(ExitSeen(p))
  /\ \A a \in Agent : SF_vars(Probes(a))
  /\ WF_vars(ProbeOK \/ ProbeFails)

Spec == Init /\ [][Next]_vars /\ Fairness

------------------------------------------------------------------------------
(* Properties *)

Url(a) == workers[a].child.port

Own(a) == workers[a].child.proc

\* A request for an agent (session-manager.ts posts to the URL ensure() gave it)
\* reaches another process than the agent's own only in two cases: the port of one
\* of the two was released while it ran (by a failed health check, a second release,
\* or the end of the orchestrator that started it), or the agent's own process has
\* exited and its start took the other's answer for its own.
OwnAnswers ==
  \A a \in Agent : workers[a].alive =>
    \A p \in Listening(Url(a)) \ {Own(a)} :
      p \in lent \/ Own(a) \in lent \/ ~Running(Own(a))

\* A port is taken for good only by a child that was replaced before its exit was
\* seen: every other port that is allocated is that of an agent's entry.
NoPortLost == allocated \subseteq lost \cup {Url(a) : a \in Agent}

\* The worker that an agent is sent to is called alive, and nobody answers there.
Silent(a) ==
  /\ phase = "up"
  /\ workers[a].alive
  /\ Listening(Url(a)) = {}

\* The monitor and the exit handlers find a dead worker: while the monitor runs, no
\* agent is sent to a silent port for ever.
DeadFound == \A a \in Agent : Silent(a) ~> ~Silent(a)
==============================================================================
