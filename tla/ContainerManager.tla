--------------------------- MODULE ContainerManager ---------------------------
(***************************************************************************)
(* The containers of sandboxed agents                                      *)
(* (packages/orchestrator/src/containers/manager.ts): ensure(), the two    *)
(* ways to shut down, a crash, and what the next orchestrator does with    *)
(* the containers it finds.  Docker keeps the containers, the credential   *)
(* proxy keeps their tokens, the manager's maps and ports are lost with    *)
(* the process.                                                            *)
(*                                                                         *)
(* An id names one provision: the token it was issued and the container it *)
(* leads to.  A step is what the code does between two awaits; image       *)
(* builds, volumes and environments are left out.  restart(), teardown of  *)
(* a scope and of idle containers are never called by the orchestrator.    *)
(***************************************************************************)
EXTENDS Integers

CONSTANTS Key,    \* agents: each has one container
          Port,   \* the port range
          Id,     \* names of provisions; used again when nothing refers to one
          None    \* no container

ASSUME PortAssumption == Port \subseteq Int
ASSUME NoneAssumption == None \notin Id

VARIABLES
  phase,       \* the orchestrator: down, booting, up, stopping (and how)
  containers,  \* containers[k]: the container ensure() hands out for k
  cleanups,    \* cleanups[k]: whose token the stored clean-up of k revokes
  allocated,   \* the port allocator
  jobs,        \* jobs[k]: where the ensure() of k stands
  docker,      \* docker[i]: the container of provision i
  tokens,      \* tokens[i]: what the proxy knows of the token of i
  todo,        \* entries a boot has yet to look at, or a shutdown to stop
  survivors    \* containers that a removal left, or that came while all were removed

vars == <<phase, containers, cleanups, allocated, jobs, docker, tokens, todo,
          survivors>>

Phase == {"down", "booting", "up", "stopping", "removing"}

\* The await at which ensureImpl stands: nothing under way, the health check of
\* the container that is there, its teardown, the image, provisionContainer,
\* docker create, docker start, the health check of the new container.
Stage == {"idle", "checking", "teardown", "image", "provision", "create",
          "start", "health"}

\* The id is the container being torn down or the provision being made.
Job == [stage : Stage, id : Id \cup {None}, port : Port \cup {None}]

Idle == [stage |-> "idle", id |-> None, port |-> None]

NoContainer == [state |-> "absent", key |-> None, port |-> None]

Container == [state : {"created", "running", "exited"}, key : Key, port : Port]
             \cup {NoContainer}

Entry == [key : Key, id : Id, port : Port]

\* "adrift": valid, and no running orchestrator will revoke it.
Token == {"unknown", "valid", "adrift", "revoked"}

TypeOK ==
  /\ phase \in Phase
  /\ containers \in [Key -> Id \cup {None}]
  /\ cleanups \in [Key -> Id \cup {None}]
  /\ allocated \subseteq Port
  /\ jobs \in [Key -> Job]
  /\ docker \in [Id -> Container]
  /\ tokens \in [Id -> Token]
  /\ todo \subseteq Entry
  /\ survivors \subseteq Id

\* An orchestrator that has nothing in memory.
Forgets ==
  /\ containers' = [k \in Key |-> None]
  /\ cleanups' = [k \in Key |-> None]
  /\ allocated' = {}
  /\ jobs' = [k \in Key |-> Idle]

Init ==
  /\ phase = "down"
  /\ containers = [k \in Key |-> None]
  /\ cleanups = [k \in Key |-> None]
  /\ allocated = {}
  /\ jobs = [k \in Key |-> Idle]
  /\ docker = [i \in Id |-> NoContainer]
  /\ tokens = [i \in Id |-> "unknown"]
  /\ todo = {}
  /\ survivors = {}

At(stage, id, port) == [stage |-> stage, id |-> id, port |-> port]

Moved(k, stage) == [jobs EXCEPT ![k].stage = stage]

Ended(k) == [jobs EXCEPT ![k] = Idle]

Exists(i) == docker[i] # NoContainer

\* Docker refuses a second container of one name, and a second one that
\* publishes a port.
NameTaken(k) == \E i \in Id : docker[i].key = k

PortTaken(p) == \E i \in Id : docker[i].state = "running" /\ docker[i].port = p

InUse(i) ==
  \/ Exists(i)
  \/ tokens[i] \in {"valid", "adrift"}
  \/ \E k \in Key : i \in {containers[k], cleanups[k], jobs[k].id}
  \/ \E e \in todo : e.id = i

Stopped(i) ==
  IF docker[i].state = "running" THEN [docker EXCEPT ![i].state = "exited"] ELSE docker

\* docker stop and docker rm; either may fail, and the code goes on.
Removes(i) ==
  \/ /\ docker' = [docker EXCEPT ![i] = NoContainer]
     /\ survivors' = survivors \ {i}
  \/ /\ docker' \in {docker, Stopped(i)}
     /\ survivors' = survivors \cup (IF Exists(i) THEN {i} ELSE {})

\* A clean-up asks the proxy to revoke the token; when the proxy does not
\* answer, nobody asks again.
Revoked(known, i, answered) ==
  IF i # None /\ known[i] = "valid"
    THEN [known EXCEPT ![i] = IF answered THEN "revoked" ELSE "adrift"]
    ELSE known

------------------------------------------------------------------------------
(* ensure: one call per key works, the others wait for its outcome *)

Ensure(k) ==
  /\ phase \in {"up", "stopping", "removing"}
  /\ jobs[k] = Idle
  /\ LET i == containers[k] IN
     jobs' = [jobs EXCEPT ![k] = IF i = None THEN At("image", None, None)
                                 ELSE At("checking", i, docker[i].port)]
  /\ UNCHANGED <<phase, containers, cleanups, allocated, docker, tokens, todo, survivors>>

\* The container there is answers: it is handed out.
CheckedAlive(k) ==
  /\ jobs[k].stage = "checking"
  /\ docker[jobs[k].id].state = "running"
  /\ jobs' = Ended(k)
  /\ UNCHANGED <<phase, containers, cleanups, allocated, docker, tokens, todo, survivors>>

\* It does not answer, dead or only slow.
CheckFailed(k) ==
  /\ jobs[k].stage = "checking"
  /\ jobs' = Moved(k, "teardown")
  /\ UNCHANGED <<phase, containers, cleanups, allocated, docker, tokens, todo, survivors>>

\* The container is stopped and removed, or Docker fails and it stays; its port,
\* its place in the map and its token are given up either way.
TornDown(k) ==
  LET i == jobs[k].id IN
  /\ jobs[k].stage = "teardown"
  /\ Removes(i)
  /\ allocated' = allocated \ {jobs[k].port}
  /\ containers' = [containers EXCEPT ![k] = None]
  /\ cleanups' = [cleanups EXCEPT ![k] = None]
  /\ \E answered \in BOOLEAN : tokens' = Revoked(tokens, cleanups[k], answered)
  /\ jobs' = [jobs EXCEPT ![k] = At("image", None, None)]
  /\ UNCHANGED <<phase, todo>>

\* The image is there: the lowest free port is taken.
TakePort(k) ==
  /\ jobs[k].stage = "image"
  /\ \E p \in Port \ allocated :
       /\ \A q \in Port \ allocated : p <= q
       /\ allocated' = allocated \cup {p}
       /\ jobs' = [jobs EXCEPT ![k] = At("provision", None, p)]
  /\ UNCHANGED <<phase, containers, cleanups, docker, tokens, todo, survivors>>

\* The image cannot be built, or no port is free.
NoImageOrPort(k) ==
  /\ jobs[k].stage = "image"
  /\ jobs' = Ended(k)
  /\ UNCHANGED <<phase, containers, cleanups, allocated, docker, tokens, todo, survivors>>

\* A token is issued, unless the proxy is down; the clean-up is stored, over the
\* one of an earlier start that failed.
Provisioned(k) ==
  /\ jobs[k].stage = "provision"
  /\ \E i \in Id :
       /\ ~ InUse(i)
       /\ \E token \in {"valid", "unknown"} : tokens' = [tokens EXCEPT ![i] = token]
       /\ cleanups' = [cleanups EXCEPT ![k] = i]
       /\ jobs' = [jobs EXCEPT ![k] = At("create", i, jobs[k].port)]
  /\ UNCHANGED <<phase, containers, allocated, docker, todo, survivors>>

ProvisionFailed(k) ==
  /\ jobs[k].stage = "provision"
  /\ allocated' = allocated \ {jobs[k].port}
  /\ jobs' = Ended(k)
  /\ UNCHANGED <<phase, containers, cleanups, docker, tokens, todo, survivors>>

\* createContainer(): docker create, under the agent's name, with its port.
WithContainer(k) ==
  [docker EXCEPT ![jobs[k].id] =
     [state |-> "created", key |-> k, port |-> jobs[k].port]]

Created(k) ==
  /\ jobs[k].stage = "create"
  /\ ~ NameTaken(k)
  /\ docker' = WithContainer(k)
  /\ jobs' = Moved(k, "start")
  /\ survivors' = IF phase = "removing" THEN survivors \cup {jobs[k].id} ELSE survivors
  /\ UNCHANGED <<phase, containers, cleanups, allocated, tokens, todo>>

\* Mutant: only the port is given back.
CreateFailedKeepingToken(k) ==
  /\ jobs[k].stage = "create"
  /\ allocated' = allocated \ {jobs[k].port}
  /\ jobs' = Ended(k)
  /\ UNCHANGED <<phase, containers, cleanups, docker, tokens, todo, survivors>>

\* The name is taken, or Docker fails: port and token are given back.
CreateFailed(k) ==
  /\ jobs[k].stage = "create"
  /\ allocated' = allocated \ {jobs[k].port}
  /\ cleanups' = [cleanups EXCEPT ![k] = None]
  /\ \E answered \in BOOLEAN : tokens' = Revoked(tokens, jobs[k].id, answered)
  /\ jobs' = Ended(k)
  /\ UNCHANGED <<phase, containers, docker, todo, survivors>>

Started(k) ==
  /\ jobs[k].stage = "start"
  /\ docker[jobs[k].id].state = "created"
  /\ ~ PortTaken(jobs[k].port)
  /\ docker' = [docker EXCEPT ![jobs[k].id].state = "running"]
  /\ jobs' = Moved(k, "health")
  /\ UNCHANGED <<phase, containers, cleanups, allocated, tokens, todo, survivors>>

\* Mutant: the map gets the port.
HealthyByPort(k) ==
  /\ jobs[k].stage = "health"
  /\ docker[jobs[k].id].state = "running"
  /\ containers' = [containers EXCEPT ![k] = jobs[k].port]
  /\ jobs' = Ended(k)
  /\ UNCHANGED <<phase, cleanups, allocated, docker, tokens, todo, survivors>>

\* The container answers in time: it is entered in the map and handed out.
Healthy(k) ==
  /\ jobs[k].stage = "health"
  /\ docker[jobs[k].id].state = "running"
  /\ containers' = [containers EXCEPT ![k] = jobs[k].id]
  /\ jobs' = Ended(k)
  /\ UNCHANGED <<phase, cleanups, allocated, docker, tokens, todo, survivors>>

\* The port is taken or Docker fails; or the container does not answer in time.
\* Either way the call fails and gives nothing back.
StartFailed(k) ==
  /\ jobs[k].stage \in {"start", "health"}
  /\ jobs' = Ended(k)
  /\ UNCHANGED <<phase, containers, cleanups, allocated, docker, tokens, todo, survivors>>

------------------------------------------------------------------------------
(* Shutdown, crash and boot *)

\* listContainers(): docker ps -a, of the containers the labels say are ours.
EntryOf(i) == [key |-> docker[i].key, id |-> i, port |-> docker[i].port]

ListContainers == { EntryOf(i) : i \in { j \in Id : Exists(j) } }

\* Both ways to shut down begin with the entries of the map.  Calls of ensure()
\* go on meanwhile.
Shutdown(how) ==
  /\ phase = "up"
  /\ phase' = how
  /\ todo' = { [key |-> k, id |-> containers[k], port |-> docker[containers[k]].port] :
                 k \in { l \in Key : containers[l] # None } }
  /\ UNCHANGED <<containers, cleanups, allocated, jobs, docker, tokens, survivors>>

\* Mutant: a restart revokes the tokens of the containers it stops.
StopOnlyRevoking(e) ==
  /\ phase = "stopping" /\ e \in todo
  /\ todo' = todo \ {e}
  /\ docker' \in {docker, Stopped(e.id)}
  /\ tokens' = Revoked(tokens, e.id, TRUE)
  /\ UNCHANGED <<phase, containers, cleanups, allocated, jobs, survivors>>

\* A restart stops the containers, and keeps them and their tokens.
StopOnly(e) ==
  /\ phase = "stopping" /\ e \in todo
  /\ todo' = todo \ {e}
  /\ docker' \in {docker, Stopped(e.id)}
  /\ UNCHANGED <<phase, containers, cleanups, allocated, jobs, tokens, survivors>>

\* A clean exit removes the containers and runs the clean-ups of their keys.
StopAndRemove(e) ==
  /\ phase = "removing" /\ e \in todo
  /\ todo' = todo \ {e}
  /\ Removes(e.id)
  /\ allocated' = allocated \ {e.port}
  /\ cleanups' = [cleanups EXCEPT ![e.key] = None]
  /\ \E answered \in BOOLEAN : tokens' = Revoked(tokens, cleanups[e.key], answered)
  /\ UNCHANGED <<phase, containers, jobs>>

\* The process ends: after a shutdown, or at any moment.  What it knew is gone,
\* and the tokens it would have revoked are adrift.
Ends ==
  /\ phase' = "down"
  /\ Forgets
  /\ todo' = {}
  /\ tokens' = [i \in Id |-> IF tokens[i] = "valid" THEN "adrift" ELSE tokens[i]]
  /\ UNCHANGED <<docker, survivors>>

Exit ==
  /\ phase \in {"stopping", "removing"} /\ todo = {}
  /\ Ends

Crash ==
  /\ phase # "down"
  /\ Ends

\* The next orchestrator looks at each container it finds.
Boot ==
  /\ phase = "down"
  /\ phase' = "booting"
  /\ todo' = ListContainers
  /\ UNCHANGED <<containers, cleanups, allocated, jobs, docker, tokens, survivors>>

\* Mutant: an adopted container's port is not reserved.
AdoptUnreserved(e) ==
  /\ phase = "booting" /\ e \in todo
  /\ containers[e.key] = None /\ e.port \notin allocated
  /\ \/ docker[e.id].state = "running"
     \/ docker[e.id].state = "exited" /\ ~ PortTaken(e.port)
  /\ docker' = [docker EXCEPT ![e.id].state = "running"]
  /\ containers' = [containers EXCEPT ![e.key] = e.id]
  /\ todo' = todo \ {e}
  /\ UNCHANGED <<phase, cleanups, allocated, jobs, tokens, survivors>>

\* It runs, or is started, and answers: it is entered in the map.  The clean-up
\* of its token went with the process that made it.
Adopt(e) ==
  /\ phase = "booting" /\ e \in todo
  /\ containers[e.key] = None /\ e.port \notin allocated
  /\ \/ docker[e.id].state = "running"
     \/ docker[e.id].state = "exited" /\ ~ PortTaken(e.port)
  /\ docker' = [docker EXCEPT ![e.id].state = "running"]
  /\ allocated' = allocated \cup {e.port}
  /\ containers' = [containers EXCEPT ![e.key] = e.id]
  /\ todo' = todo \ {e}
  /\ UNCHANGED <<phase, cleanups, jobs, tokens, survivors>>

\* Its image is old, its key or port is taken, or it does not answer; by then it
\* may have been started.
Skip(e) ==
  /\ phase = "booting" /\ e \in todo
  /\ todo' = todo \ {e}
  /\ docker' = docker
     \/ /\ containers[e.key] = None /\ e.port \notin allocated
        /\ docker[e.id].state = "exited" /\ ~ PortTaken(e.port)
        /\ docker' = [docker EXCEPT ![e.id].state = "running"]
  /\ UNCHANGED <<phase, containers, cleanups, allocated, jobs, tokens, survivors>>

\* Then what was not adopted is removed, as far as Docker obeys.
RemoveOrphans ==
  LET orphans == { i \in Id : Exists(i) /\ containers[docker[i].key] = None } IN
  /\ phase = "booting" /\ todo = {}
  /\ phase' = "up"
  /\ \E removed \in SUBSET orphans :
       docker' = [i \in Id |-> IF i \in removed THEN NoContainer ELSE docker[i]]
  /\ survivors' = { i \in survivors : docker'[i] # NoContainer }
  /\ UNCHANGED <<containers, cleanups, allocated, jobs, tokens, todo>>

\* A container's worker, or Docker, dies.
Dies(i) ==
  /\ docker[i].state = "running"
  /\ docker' = Stopped(i)
  /\ UNCHANGED <<phase, containers, cleanups, allocated, jobs, tokens, todo, survivors>>

\* The proxy forgets the token of a container that is gone, at the end of its
\* time to live.
Expires(i) ==
  /\ tokens[i] = "adrift" /\ ~ Exists(i)
  /\ tokens' = [tokens EXCEPT ![i] = "unknown"]
  /\ UNCHANGED <<phase, containers, cleanups, allocated, jobs, docker, todo, survivors>>

Next ==
  \/ \E k \in Key :
       \/ Ensure(k) \/ CheckedAlive(k) \/ CheckFailed(k) \/ TornDown(k)
       \/ TakePort(k) \/ NoImageOrPort(k) \/ Provisioned(k) \/ ProvisionFailed(k)
       \/ Created(k) \/ CreateFailed(k) \/ Started(k) \/ Healthy(k) \/ StartFailed(k)
  \/ \E how \in {"stopping", "removing"} : Shutdown(how)
  \/ \E e \in todo : StopOnly(e) \/ StopAndRemove(e) \/ Adopt(e) \/ Skip(e)
  \/ Exit \/ Crash \/ Boot \/ RemoveOrphans
  \/ \E i \in Id : Dies(i) \/ Expires(i)

Spec == Init /\ [][Next]_vars

------------------------------------------------------------------------------
(* Properties *)

\* What each key has of a port: its container's, or the one of its ensure().
Holds(k, p) ==
  \/ containers[k] # None /\ docker[containers[k]].port = p
  \/ jobs[k].stage \in {"provision", "create", "start", "health"} /\ jobs[k].port = p

\* Until the containers are removed for good, no two agents have one port, and a
\* port an agent has is not free.
PortsHeld ==
  phase # "removing" =>
    \A p \in Port, k, l \in Key :
      Holds(k, p) => p \in allocated /\ (Holds(l, p) => k = l)

\* A container that is handed out has not lost its token (index.ts:1203, "container
\* env tokens stay valid"), unless a removal left it or raced with its creation.
TokenKept ==
  phase # "removing" =>
    \A k \in Key : containers[k] \notin survivors \cup {None} =>
                  tokens[containers[k]] # "revoked"

\* A token an orchestrator is to revoke belongs to a container or to an ensure().
NoTokenLeak ==
  \A i \in Id :
    tokens[i] = "valid" => Exists(i) \/ \E k \in Key : jobs[k].id = i
==============================================================================
