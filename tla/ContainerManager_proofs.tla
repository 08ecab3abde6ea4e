------------------------ MODULE ContainerManager_proofs ------------------------
(***************************************************************************)
(* The ports and the tokens of containers, for any number of agents, ports *)
(* and provisions, and whatever Docker, the proxy, shutdowns and crashes   *)
(* do.  IInv is about ports, and TInv, on top of it, about tokens.         *)
(***************************************************************************)
EXTENDS ContainerManager, TLAPS

Making == {"image", "provision", "create", "start", "health"}

Looking == {"checking", "teardown"}

\* What an await of ensure() knows: a teardown is of the container in the map, a
\* new container is made only while the map has none, and on a port.
JobsFormed ==
  \A k \in Key :
    /\ jobs[k].stage \in Making => containers[k] = None
    /\ jobs[k].stage \in Looking => containers[k] # None /\ jobs[k].id = containers[k]
    /\ jobs[k].stage \in {"provision", "create", "start", "health"} => jobs[k].port \in Port
    /\ jobs[k].stage \in {"create", "start", "health"} => jobs[k].id \in Id
    /\ jobs[k].stage \in {"idle", "image", "provision"} => jobs[k].id = None

\* Nothing is under way before the boot is over, and nothing is known before it.
Quiet ==
  /\ phase \in {"down", "booting"} => \A k \in Key : jobs[k] = Idle
  /\ phase = "down" => \A k \in Key : containers[k] = None

\* The container of k, with its port, is there.
Owns(k, i, p) == Exists(i) /\ docker[i].key = k /\ docker[i].port = p

Mapped ==
  phase # "removing" =>
    \A k \in Key : containers[k] # None =>
      Owns(k, containers[k], docker[containers[k]].port)

\* The ports the teardowns and starts under way name are their containers'.
JobsOwn ==
  phase # "removing" =>
    \A k \in Key :
      /\ jobs[k].stage \in Looking => jobs[k].port = docker[containers[k]].port
      /\ jobs[k].stage \in {"start", "health"} => Owns(k, jobs[k].id, jobs[k].port)

Creating == {"create", "start", "health"}

\* A provision under way has a name nothing else has, and a container since it
\* was created.
Fresh ==
  \A k \in Key : jobs[k].stage \in Creating =>
    /\ Exists(jobs[k].id) <=> jobs[k].stage # "create"
    /\ \A l \in Key : /\ containers[l] # jobs[k].id
                      /\ jobs[l].stage \in Creating /\ jobs[l].id = jobs[k].id => k = l
    /\ \A e \in todo : e.id # jobs[k].id

\* What a boot has yet to look at is still as it was found.
Found ==
  phase = "booting" => \A e \in todo : Owns(e.key, e.id, e.port)

IInv == TypeOK /\ JobsFormed /\ Quiet /\ Mapped /\ JobsOwn /\ Fresh /\ Found /\ PortsHeld

------------------------------------------------------------------------------
\* Nothing runs, is known or is under way at first.
LEMMA InitInvariant == Init => IInv
BY DEF Init, IInv, TypeOK, JobsFormed, Quiet, Mapped, JobsOwn, Fresh, Found, PortsHeld,
       Holds, Idle, NoContainer, Container, Phase, Job, Stage, Entry, Token, Making,
       Looking, Creating, Owns

\* Steps that only move a call from one await to another, or end it.
LEMMA ChecksKeepInvariant ==
  ASSUME IInv, NEW k \in Key,
         Ensure(k) \/ CheckedAlive(k) \/ CheckFailed(k) \/ NoImageOrPort(k) \/ StartFailed(k)
  PROVE  IInv'
<1> USE DEF IInv
<1>1. UNCHANGED <<phase, containers, cleanups, allocated, docker, tokens, todo, survivors>>
  BY DEF Ensure, CheckedAlive, CheckFailed, NoImageOrPort, StartFailed
<1>2. PICK job \in Job :
        /\ jobs' = [jobs EXCEPT ![k] = job]
        /\ \/ job = Idle /\ phase \notin {"down", "booting"}
           \/ /\ job.stage = "image" /\ job.id = None /\ containers[k] = None
              /\ phase \notin {"down", "booting"}
           \/ /\ job.stage \in Looking /\ containers[k] # None /\ job.id = containers[k]
              /\ phase \notin {"down", "booting"}
              /\ phase # "removing" => job.port = docker[containers[k]].port
  BY DEF Ensure, CheckedAlive, CheckFailed, NoImageOrPort, StartFailed, TypeOK, JobsFormed,
         JobsOwn, Quiet, Looking, Making, Job, Stage, Idle, At, Moved, Ended, Container, NoContainer
<1> QED
  BY <1>1, <1>2 DEF TypeOK, JobsFormed, Quiet, Mapped, JobsOwn, Fresh, Found, PortsHeld,
       Holds, Idle, Making, Looking, Creating, Owns, Exists

\* A teardown gives up the container of the map, with its port: nobody else has it.
LEMMA TeardownKeepsInvariant ==
  ASSUME IInv, NEW k \in Key, TornDown(k)
  PROVE  IInv'
<1> USE DEF IInv
<1> DEFINE i == jobs[k].id
<1>1. i = containers[k] /\ i \in Id /\ phase \notin {"down", "booting"}
  BY DEF TornDown, JobsFormed, Looking, TypeOK, Quiet, Idle
<1>2. /\ jobs' = [jobs EXCEPT ![k] = At("image", None, None)]
      /\ containers' = [containers EXCEPT ![k] = None]
      /\ allocated' = allocated \ {jobs[k].port}
      /\ phase' = phase /\ todo' = todo
  BY DEF TornDown
<1>3. /\ docker' \in [Id -> Container]
      /\ \A j \in Id \ {i} : docker'[j] = docker[j]
      /\ docker'[i].state # "absent" => Exists(i)
  BY <1>1 DEF TornDown, Removes, TypeOK, Container, NoContainer, Stopped, Exists
<1>4. TypeOK'
  BY <1>1, <1>2, <1>3 DEF TornDown, TypeOK, Removes, Revoked, Job, Stage, At, Token, Exists
<1>5. JobsFormed' /\ Quiet' /\ Found'
  BY <1>1, <1>2 DEF TypeOK, JobsFormed, Quiet, Found, At, Making, Looking
<1>6. \A l \in Key \ {k} :
        /\ phase # "removing" => containers[l] # i
        /\ jobs[l].stage \in Creating => jobs[l].id # i
  <2>1. \A l \in Key \ {k} : jobs[l].stage \in Creating => jobs[l].id # i
    BY <1>1 DEF Fresh
  <2>2. containers[k] # None
    BY DEF TornDown, JobsFormed, Looking
  <2>3. phase # "removing" => \A l \in Key \ {k} : containers[l] # i
    BY <1>1, <2>2 DEF Mapped, Owns
  <2> QED
    BY <2>1, <2>3
<1> HIDE DEF i
<1>7. /\ jobs'[k].stage = "image" /\ containers'[k] = None
      /\ \A l \in Key \ {k} : jobs'[l] = jobs[l] /\ containers'[l] = containers[l]
  BY <1>2 DEF TypeOK, At
<1>8. ASSUME NEW l \in Key \ {k}
      PROVE  /\ phase # "removing" /\ containers[l] # None =>
                  docker'[containers[l]] = docker[containers[l]]
             /\ jobs[l].stage \in Creating =>
                  jobs[l].id \in Id /\ docker'[jobs[l].id] = docker[jobs[l].id]
  <2>1. /\ containers[l] # None => containers[l] \in Id
        /\ jobs[l].stage \in Creating => jobs[l].id \in Id
    BY DEF TypeOK, JobsFormed, Creating
  <2> QED
    BY <1>3, <1>6, <2>1
<1>9. Mapped' /\ JobsOwn' /\ Fresh'
  <2>1. Mapped'
    BY <1>2, <1>7, <1>8 DEF Mapped, Owns, Exists
  <2>2. JobsOwn'
    BY <1>2, <1>7, <1>8 DEF JobsFormed, JobsOwn, Owns, Exists, Looking, Creating
  <2>3. Fresh'
    <3> SUFFICES ASSUME NEW l \in Key \ {k}, jobs[l].stage \in Creating
                 PROVE  /\ Exists(jobs[l].id)' <=> jobs[l].stage # "create"
                        /\ \A m \in Key :
                             /\ containers'[m] # jobs[l].id
                             /\ jobs'[m].stage \in Creating /\ jobs'[m].id = jobs[l].id => l = m
                        /\ \A e \in todo : e.id # jobs[l].id
      BY <1>2, <1>7 DEF Fresh, Exists, Creating
    <3>1. jobs[l].id # None
      BY <1>8, NoneAssumption
    <3> QED
      BY <1>7, <1>8, <3>1 DEF Fresh, Exists, Creating
  <2> QED
    BY <2>1, <2>2, <2>3
<1>10. PortsHeld'
  <2>1. phase # "removing" =>
          \A l \in Key, p \in Port : Holds(l, p)' => l # k /\ Holds(l, p)
    BY <1>2, <1>7, <1>8 DEF Holds, JobsFormed, Making
  <2>2. phase # "removing" => Holds(k, jobs[k].port)
    BY <1>1 DEF TornDown, JobsFormed, JobsOwn, Looking, Holds
  <2> QED
    BY <1>2, <2>1, <2>2 DEF PortsHeld
<1> QED
  BY <1>4, <1>5, <1>9, <1>10

\* The port that is taken is free: nobody has it.
LEMMA PortKeepsInvariant ==
  ASSUME IInv, NEW k \in Key, TakePort(k) \/ Provisioned(k) \/ ProvisionFailed(k)
  PROVE  IInv'
<1> USE DEF IInv
<1>1. CASE TakePort(k)
  BY <1>1 DEF TakePort, TypeOK, JobsFormed, Quiet, Mapped, JobsOwn, Fresh, Found, PortsHeld,
       Holds, Idle, Making, Looking, Creating, Owns, Exists, At, Job, Stage
<1>2. CASE Provisioned(k)
  BY <1>2 DEF Provisioned, TypeOK, JobsFormed, Quiet, Mapped, JobsOwn, Fresh, Found, PortsHeld,
       Holds, Idle, Making, Looking, Creating, Owns, Exists, At, Job, Stage, Token, InUse
<1>3. CASE ProvisionFailed(k)
  BY <1>3 DEF ProvisionFailed, TypeOK, JobsFormed, Quiet, Mapped, JobsOwn, Fresh, Found, PortsHeld,
       Holds, Idle, Making, Looking, Creating, Owns, Exists, Ended, Job, Stage
<1> QED
  BY <1>1, <1>2, <1>3

\* A container that is created and answers brings its port into the map.
LEMMA CreationKeepsInvariant ==
  ASSUME IInv, NEW k \in Key,
         Created(k) \/ CreateFailed(k) \/ Started(k) \/ Healthy(k)
  PROVE  IInv'
<1> USE DEF IInv
<1>1. CASE Created(k)
  BY <1>1 DEF Created, WithContainer, TypeOK, JobsFormed, Quiet, Mapped, JobsOwn, Fresh, Found, PortsHeld,
       Holds, Idle, Making, Looking, Creating, Owns, Exists, Moved,
       Job, Stage, Container, NoContainer
<1>2. CASE CreateFailed(k)
  BY <1>2 DEF CreateFailed, TypeOK, JobsFormed, Quiet, Mapped, JobsOwn, Fresh, Found, PortsHeld,
       Holds, Idle, Making, Looking, Creating, Owns, Exists, Ended, Job, Stage, Token, Revoked
<1>3. CASE Started(k)
  BY <1>3 DEF Started, TypeOK, JobsFormed, Quiet, Mapped, JobsOwn, Fresh, Found, PortsHeld,
       Holds, Idle, Making, Looking, Creating, Owns, Exists, Moved,
       Job, Stage, Container, NoContainer
<1>4. CASE Healthy(k)
  BY <1>4 DEF Healthy, TypeOK, JobsFormed, Quiet, Mapped, JobsOwn, Fresh, Found, PortsHeld,
       Holds, Idle, Making, Looking, Creating, Owns, Exists, Ended, Job, Stage
<1> QED
  BY <1>1, <1>2, <1>3, <1>4
------------------------------------------------------------------------------
\* A shutdown notes the containers of the map; an end forgets everything.
LEMMA ShutdownKeepsInvariant ==
  ASSUME IInv, Exit \/ Crash \/ \E how \in {"stopping", "removing"} : Shutdown(how)
  PROVE  IInv'
<1> USE DEF IInv
<1>1. CASE Ends
  BY <1>1 DEF Ends, Forgets, TypeOK, JobsFormed, Quiet, Mapped, JobsOwn, Fresh, Found, PortsHeld,
       Holds, Idle, Making, Looking, Creating, Phase, Job, Stage, Token, Entry
<1>2. ASSUME NEW how \in {"stopping", "removing"}, Shutdown(how)
      PROVE  IInv'
  <2>1. todo' \subseteq Entry
    BY <1>2 DEF Shutdown, TypeOK, Mapped, Owns, Exists, Entry, Container, NoContainer
  <2>2. TypeOK'
    BY <1>2, <2>1 DEF Shutdown, TypeOK, Phase
  <2> QED
    BY <1>2, <2>2 DEF Shutdown, TypeOK, JobsFormed, Quiet, Mapped, JobsOwn, Fresh, Found,
         PortsHeld, Holds, Owns, Exists
<1> QED
  BY <1>1, <1>2 DEF Exit, Crash

\* Containers that are only stopped keep their ports; nothing is claimed of a removal.
LEMMA StopKeepsInvariant ==
  ASSUME IInv, NEW e \in todo, StopOnly(e) \/ StopAndRemove(e)
  PROVE  IInv'
<1> USE DEF IInv
<1>1. CASE StopOnly(e)
  <2>1. /\ docker' \in [Id -> Container]
        /\ \A j \in Id : /\ docker'[j] # NoContainer <=> docker[j] # NoContainer
                         /\ docker'[j].key = docker[j].key
                         /\ docker'[j].port = docker[j].port
    BY <1>1 DEF StopOnly, TypeOK, Stopped, Entry, Container, NoContainer
  <2>2. UNCHANGED <<phase, containers, cleanups, allocated, jobs, tokens, survivors>>
        /\ todo' \subseteq todo
    BY <1>1 DEF StopOnly
  <2>3. phase = "stopping"
    BY <1>1 DEF StopOnly
  <2> QED
    BY <2>1, <2>2, <2>3 DEF TypeOK, JobsFormed, Quiet, Mapped, JobsOwn, Fresh, Found, PortsHeld,
       Holds, Making, Looking, Creating, Owns, Exists
<1>2. CASE StopAndRemove(e)
  BY <1>2 DEF StopAndRemove, Removes, Revoked, TypeOK, JobsFormed, Quiet, Mapped, JobsOwn, Fresh,
       Found, PortsHeld, Making, Looking, Creating, Exists, Stopped, Entry, Container,
       NoContainer, Token
<1> QED
  BY <1>1, <1>2

\* A boot notes what it finds, and removes nothing the map has.
LEMMA BootKeepsInvariant ==
  ASSUME IInv, Boot \/ RemoveOrphans
  PROVE  IInv'
<1> USE DEF IInv
<1>1. CASE Boot
  BY <1>1 DEF Boot, ListContainers, EntryOf, TypeOK, JobsFormed, Quiet, Mapped, JobsOwn, Fresh, Found, PortsHeld,
       Holds, Idle, Making, Looking, Creating, Owns, Exists, Entry, Phase, Container, NoContainer
<1>2. CASE RemoveOrphans
  BY <1>2 DEF RemoveOrphans, TypeOK, JobsFormed, Quiet, Mapped, JobsOwn, Fresh, Found, PortsHeld,
       Holds, Idle, Making, Looking, Creating, Owns, Exists, Phase, Container, NoContainer
<1> QED
  BY <1>1, <1>2

\* A container is adopted on a port that is free, and reserves it.
LEMMA AdoptionKeepsInvariant ==
  ASSUME IInv, NEW e \in todo, Adopt(e) \/ Skip(e)
  PROVE  IInv'
<1> USE DEF IInv
<1>1. CASE Adopt(e)
  BY <1>1 DEF Adopt, TypeOK, JobsFormed, Quiet, Mapped, JobsOwn, Fresh, Found, PortsHeld,
       Holds, Idle, Making, Looking, Creating, Owns, Exists, Entry, Container, NoContainer
<1>2. CASE Skip(e)
  <2>1. /\ docker' \in [Id -> Container]
        /\ \A j \in Id : /\ Exists(j) => docker'[j] # NoContainer
                          /\ docker'[j].key = docker[j].key
                          /\ docker'[j].port = docker[j].port
    BY <1>2 DEF Skip, TypeOK, Entry, Container, NoContainer, Exists
  <2>2. UNCHANGED <<phase, containers, cleanups, allocated, jobs, tokens, survivors>>
        /\ todo' \subseteq todo
    BY <1>2 DEF Skip
  <2>3. phase = "booting"
    BY <1>2 DEF Skip
  <2> QED
    BY <2>1, <2>2, <2>3 DEF TypeOK, JobsFormed, Quiet, Mapped, JobsOwn, Fresh, Found,
         PortsHeld, Holds, Idle, Making, Looking, Creating, Owns, Exists, Entry
<1> QED
  BY <1>1, <1>2

\* A container that dies stays with its port.
LEMMA DeathKeepsInvariant ==
  ASSUME IInv, NEW i \in Id, Dies(i) \/ Expires(i)
  PROVE  IInv'
<1> USE DEF IInv
<1>1. CASE Dies(i)
  BY <1>1 DEF Dies, Stopped, TypeOK, JobsFormed, Quiet, Mapped, JobsOwn, Fresh, Found, PortsHeld,
       Holds, Making, Looking, Creating, Owns, Exists, Container, NoContainer
<1>2. CASE Expires(i)
  BY <1>2 DEF Expires, TypeOK, JobsFormed, Quiet, Mapped, JobsOwn, Fresh, Found, PortsHeld,
       Holds, Owns, Exists, Token
<1> QED
  BY <1>1, <1>2

\* Every step keeps the invariant of the ports.
LEMMA StepInvariant == IInv /\ [Next]_vars => IInv'
<1> SUFFICES ASSUME IInv, [Next]_vars PROVE IInv'
  OBVIOUS
<1>1. CASE UNCHANGED vars
  BY <1>1 DEF vars, IInv, TypeOK, JobsFormed, Quiet, Mapped, JobsOwn, Fresh, Found, PortsHeld,
       Holds, Owns, Exists
<1>2. CASE Next
  BY <1>2, ChecksKeepInvariant, TeardownKeepsInvariant, PortKeepsInvariant,
     CreationKeepsInvariant, ShutdownKeepsInvariant, StopKeepsInvariant, BootKeepsInvariant,
     AdoptionKeepsInvariant, DeathKeepsInvariant DEF Next
<1> QED
  BY <1>1, <1>2

------------------------------------------------------------------------------
\* IInv is an inductive invariant of the container manager.
THEOREM Invariance == Spec => []IInv
<1>1. Init => IInv
  BY InitInvariant
<1>2. IInv /\ [Next]_vars => IInv'
  BY StepInvariant
<1> QED
  BY <1>1, <1>2, PTL DEF Spec

\* Every state is well typed.
THEOREM TypeCorrect == Spec => []TypeOK
<1>1. IInv => TypeOK
  BY DEF IInv
<1> QED
  BY <1>1, Invariance, PTL

\* No two agents have one port, and no agent's port is free to be taken
\* (manager.ts:85, 101, 141, 200, 456), until a clean exit removes the containers.
THEOREM PortsExclusive == Spec => []PortsHeld
<1>1. IInv => PortsHeld
  BY DEF IInv
<1> QED
  BY <1>1, Invariance, PTL

------------------------------------------------------------------------------
(* Tokens *)

\* The clean-up that is stored for a key is its container's, and the one that
\* revokes the container's token is stored while the token is valid.
CleanupsMatch ==
  \A k \in Key :
    /\ containers[k] # None =>
         /\ cleanups[k] \in {None, containers[k]}
         /\ tokens[containers[k]] = "valid" => cleanups[k] = containers[k]
    /\ jobs[k].stage \in Creating =>
         /\ cleanups[k] \in {None, jobs[k].id}
         /\ tokens[jobs[k].id] = "valid" => cleanups[k] = jobs[k].id

\* An orchestrator that boots knows no clean-up and is to revoke nothing.
NothingToRevoke ==
  phase \in {"down", "booting"} =>
    /\ \A k \in Key : cleanups[k] = None
    /\ \A i \in Id : tokens[i] # "valid"

\* A container to be removed keeps its place in the map until its token is revoked,
\* and the clean-up run for it is its own, or that of a container made since.
TodoMatch ==
  phase = "removing" =>
    \A e \in todo :
      /\ tokens[e.id] = "valid" => containers[e.key] = e.id
      /\ cleanups[e.key] \notin {None, e.id} =>
           cleanups[e.key] \in survivors \/ ~ Exists(cleanups[e.key])

\* Only a container that a removal left, or raced with, has lost its token.
RevokedLast ==
  /\ \A i \in Id : Exists(i) /\ i \notin survivors => tokens[i] # "revoked"
  /\ phase # "removing" =>
       \A k \in Key : jobs[k].stage = "create" => tokens[jobs[k].id] # "revoked"

TInv == IInv /\ CleanupsMatch /\ NothingToRevoke /\ TodoMatch /\ RevokedLast /\ NoTokenLeak

\* No token is issued at first.
LEMMA InitTokens == Init => TInv
BY InitInvariant DEF Init, TInv, CleanupsMatch, NothingToRevoke, TodoMatch, RevokedLast,
   NoTokenLeak, Idle, Creating, Exists, NoContainer

\* A call that moves on or ends forgets no token but that of a container that is there.
LEMMA ChecksKeepTokens ==
  ASSUME TInv, NEW k \in Key,
         \/ Ensure(k) \/ CheckedAlive(k) \/ CheckFailed(k) \/ NoImageOrPort(k)
         \/ TakePort(k) \/ ProvisionFailed(k) \/ StartFailed(k)
  PROVE  TInv'
<1> USE DEF TInv
<1>1. IInv'
  BY StepInvariant DEF Next
<1>2. UNCHANGED <<phase, containers, cleanups, docker, tokens, todo, survivors>>
  BY DEF Ensure, CheckedAlive, CheckFailed, NoImageOrPort, TakePort, ProvisionFailed, StartFailed
<1>3. /\ jobs[k].id = None \/ Exists(jobs[k].id) \/ jobs'[k].id = jobs[k].id
      /\ jobs'[k].stage \notin Creating
      /\ \A l \in Key \ {k} : jobs'[l] = jobs[l]
  <2>1. jobs[k].stage \in Stage /\ jobs \in [Key -> Job]
    BY DEF IInv, TypeOK, Job
  <2>2. CASE Ensure(k) \/ NoImageOrPort(k) \/ TakePort(k) \/ ProvisionFailed(k)
    BY <2>1, <2>2 DEF IInv, JobsFormed, Ensure, NoImageOrPort, TakePort, ProvisionFailed, Idle, At,
         Ended, Creating
  <2>3. CASE CheckedAlive(k)
    BY <2>1, <2>3 DEF CheckedAlive, Exists, NoContainer, Idle, Ended, Creating
  <2>4. CASE CheckFailed(k)
    BY <2>1, <2>4 DEF CheckFailed, Moved, Creating, Job
  <2>5. CASE StartFailed(k)
    BY <2>1, <2>5 DEF IInv, Fresh, StartFailed, Idle, Ended, Creating
  <2> QED
    BY <2>2, <2>3, <2>4, <2>5
<1>4. NoTokenLeak'
  BY <1>2, <1>3, NoneAssumption DEF NoTokenLeak, Exists
<1>5. CleanupsMatch' /\ RevokedLast'
  BY <1>2, <1>3 DEF CleanupsMatch, RevokedLast, Creating, Exists
<1>6. NothingToRevoke' /\ TodoMatch'
  BY <1>2 DEF NothingToRevoke, TodoMatch, Exists
<1> QED
  BY <1>1, <1>4, <1>5, <1>6

\* A teardown revokes the token of the container it removes.
LEMMA TeardownKeepsTokens ==
  ASSUME TInv, NEW k \in Key, TornDown(k)
  PROVE  TInv'
<1> USE DEF TInv
<1> DEFINE i == jobs[k].id
           c == cleanups[k]
<1>1. IInv'
  BY StepInvariant DEF Next
<1>2. /\ i \in Id /\ containers[k] = i /\ phase \notin {"down", "booting"}
      /\ c \in {None, i} /\ (tokens[i] = "valid" => c = i)
  BY NoneAssumption DEF TornDown, IInv, TypeOK, JobsFormed, Quiet, Looking, Idle, CleanupsMatch
<1>3. /\ phase' = phase /\ todo' = todo
      /\ jobs'[k] = At("image", None, None) /\ containers'[k] = None /\ cleanups'[k] = None
      /\ \A l \in Key \ {k} : /\ jobs'[l] = jobs[l]
                              /\ containers'[l] = containers[l]
                              /\ cleanups'[l] = cleanups[l]
  BY DEF TornDown, IInv, TypeOK
<1>4. /\ \A j \in Id \ {i} : tokens'[j] = tokens[j] /\ docker'[j] = docker[j]
      /\ tokens'[i] # "valid"
      /\ survivors' \ {i} = survivors \ {i}
      /\ docker'[i] # NoContainer => Exists(i) /\ i \in survivors'
  BY <1>2, NoneAssumption
     DEF TornDown, Removes, Revoked, Stopped, Exists, IInv, TypeOK, Container, NoContainer
<1>5. \A l \in Key : jobs[l].stage \in Creating => jobs[l].id \in Id \ {i}
  BY <1>2 DEF IInv, JobsFormed, Fresh, Creating
<1> HIDE DEF i, c
<1>6. CleanupsMatch'
  <2> SUFFICES ASSUME NEW l \in Key \ {k}
               PROVE  /\ containers[l] # None =>
                           /\ cleanups[l] \in {None, containers[l]}
                           /\ tokens'[containers[l]] = "valid" => cleanups[l] = containers[l]
                      /\ jobs[l].stage \in Creating =>
                           /\ cleanups[l] \in {None, jobs[l].id}
                           /\ tokens'[jobs[l].id] = "valid" => cleanups[l] = jobs[l].id
    BY <1>3 DEF CleanupsMatch, Creating, At
  <2>1. containers[l] # None => containers[l] \in Id
    BY DEF IInv, TypeOK
  <2> QED
    BY <1>4, <1>5, <2>1 DEF CleanupsMatch
<1>7. NothingToRevoke'
  BY <1>2, <1>3 DEF NothingToRevoke
<1>8. TodoMatch'
  <2> SUFFICES ASSUME phase = "removing", NEW e \in todo
               PROVE  /\ tokens'[e.id] = "valid" => containers'[e.key] = e.id
                      /\ cleanups'[e.key] \notin {None, e.id} =>
                           \/ cleanups'[e.key] \in survivors'
                           \/ docker'[cleanups'[e.key]] = NoContainer
    BY <1>3 DEF TodoMatch, Exists
  <2>1. e.id \in Id /\ e.key \in Key /\ cleanups[e.key] \in Id \cup {None}
    BY DEF IInv, TypeOK, Entry
  <2>2. tokens'[e.id] = "valid" => e.id # i /\ containers[e.key] = e.id
    BY <1>4, <2>1 DEF TodoMatch
  <2> QED
    BY <1>2, <1>3, <1>4, <2>1, <2>2 DEF TodoMatch, Exists
<1>9. RevokedLast'
  BY <1>3, <1>4, <1>5 DEF RevokedLast, Exists, Creating, At
<1>10. NoTokenLeak'
  BY <1>3, <1>4 DEF NoTokenLeak, Exists, i
<1> QED
  BY <1>1, <1>6, <1>7, <1>8, <1>9, <1>10

\* A provision has a name that nothing else has.
LEMMA ProvisionKeepsTokens ==
  ASSUME TInv, NEW k \in Key, Provisioned(k)
  PROVE  TInv'
<1> USE DEF TInv
<1>1. IInv'
  BY StepInvariant DEF Next
<1>2. PICK i \in Id :
        /\ ~ InUse(i)
        /\ \E token \in {"valid", "unknown"} : tokens' = [tokens EXCEPT ![i] = token]
        /\ cleanups' = [cleanups EXCEPT ![k] = i]
        /\ jobs' = [jobs EXCEPT ![k] = At("create", i, jobs[k].port)]
  BY DEF Provisioned
<1>3. UNCHANGED <<phase, containers, docker, todo, survivors>>
  BY DEF Provisioned
<1>4. /\ jobs[k].id = None /\ containers[k] = None /\ phase \notin {"down", "booting"}
      /\ jobs[k].stage = "provision"
  BY DEF Provisioned, IInv, JobsFormed, Quiet, Idle, Making
<1>5. /\ jobs'[k].stage = "create" /\ jobs'[k].id = i /\ cleanups'[k] = i
      /\ \A l \in Key \ {k} : jobs'[l] = jobs[l] /\ cleanups'[l] = cleanups[l]
      /\ \A j \in Id \ {i} : tokens'[j] = tokens[j]
      /\ tokens'[i] # "revoked"
  BY <1>2 DEF IInv, TypeOK, At
<1>6. /\ ~ Exists(i) /\ tokens[i] # "valid"
      /\ \A l \in Key : containers[l] # i /\ cleanups[l] # i /\ jobs[l].id # i
      /\ \A e \in todo : e.id # i
  BY <1>2 DEF InUse
<1>7. CleanupsMatch'
  <2> SUFFICES ASSUME NEW l \in Key \ {k}
               PROVE  /\ containers[l] # None =>
                           /\ cleanups[l] \in {None, containers[l]}
                           /\ tokens'[containers[l]] = "valid" => cleanups[l] = containers[l]
                      /\ jobs[l].stage \in Creating =>
                           /\ cleanups[l] \in {None, jobs[l].id}
                           /\ tokens'[jobs[l].id] = "valid" => cleanups[l] = jobs[l].id
    BY <1>3, <1>4, <1>5 DEF CleanupsMatch
  <2>1. /\ containers[l] # None => containers[l] \in Id
        /\ jobs[l].stage \in Creating => jobs[l].id \in Id
    BY DEF IInv, TypeOK, JobsFormed, Creating
  <2> QED
    BY <1>5, <1>6, <2>1 DEF CleanupsMatch
<1>8. NothingToRevoke'
  BY <1>3, <1>4 DEF NothingToRevoke
<1>9. TodoMatch'
  <2>1. \A e \in todo : e.id \in Id \ {i} /\ e.key \in Key
    BY <1>6 DEF IInv, TypeOK, Entry
  <2> QED
    BY <1>3, <1>5, <1>6, <2>1 DEF TodoMatch, Exists
<1>10. RevokedLast'
  <2>1. \A l \in Key : jobs[l].stage = "create" => jobs[l].id \in Id
    BY DEF IInv, JobsFormed
  <2> QED
    BY <1>3, <1>5, <1>6, <2>1 DEF RevokedLast, Exists
<1>11. NoTokenLeak'
  BY <1>3, <1>4, <1>5, NoneAssumption DEF NoTokenLeak, Exists
<1> QED
  BY <1>1, <1>7, <1>8, <1>9, <1>10, <1>11

\* A new container's clean-up is stored before the container is in the map.
LEMMA CreationKeepsTokens ==
  ASSUME TInv, NEW k \in Key,
         Created(k) \/ CreateFailed(k) \/ Started(k) \/ Healthy(k)
  PROVE  TInv'
<1> USE DEF TInv
<1>0. IInv'
  BY StepInvariant DEF Next
<1>1. CASE Created(k)
  BY <1>0, <1>1, NoneAssumption
     DEF Created, WithContainer, IInv, TypeOK, JobsFormed, Fresh, CleanupsMatch, NothingToRevoke, TodoMatch,
       RevokedLast, NoTokenLeak, Creating, Making, Moved, Job, Stage, Exists, NoContainer
<1>2. CASE CreateFailed(k)
  BY <1>0, <1>2, NoneAssumption
     DEF CreateFailed, Revoked, IInv, TypeOK, JobsFormed, Fresh, CleanupsMatch, NothingToRevoke,
       TodoMatch, RevokedLast, NoTokenLeak, Creating, Making, Ended, Idle, Job, Stage, Exists, Token
<1>3. CASE Started(k)
  BY <1>0, <1>3, NoneAssumption
     DEF Started, IInv, TypeOK, JobsFormed, Fresh, CleanupsMatch, NothingToRevoke, TodoMatch,
       RevokedLast, NoTokenLeak, Creating, Making, Moved, Job, Stage, Exists, Container, NoContainer
<1>4. CASE Healthy(k)
  <2>1. /\ UNCHANGED <<phase, cleanups, docker, tokens, todo, survivors>>
        /\ jobs'[k] = Idle /\ containers'[k] = jobs[k].id
        /\ \A l \in Key \ {k} : jobs'[l] = jobs[l] /\ containers'[l] = containers[l]
    BY <1>4 DEF Healthy, IInv, TypeOK, Ended
  <2>2. jobs[k].stage = "health" /\ Exists(jobs[k].id) /\ containers[k] = None
    BY <1>4 DEF Healthy, Exists, NoContainer, IInv, JobsFormed, Making
  <2>3. CleanupsMatch' /\ RevokedLast' /\ NothingToRevoke' /\ NoTokenLeak'
    BY <2>1, <2>2 DEF CleanupsMatch, RevokedLast, NothingToRevoke, NoTokenLeak, Exists,
         Creating, Idle
  <2>4. TodoMatch'
    <3>1. \A e \in todo : e.id \in Id /\ e.key \in Key
      BY DEF IInv, TypeOK, Entry
    <3> QED
      BY <2>1, <2>2, <3>1, NoneAssumption DEF TodoMatch, Exists
  <2> QED
    BY <1>0, <2>3, <2>4
<1> QED
  BY <1>1, <1>2, <1>3, <1>4

\* A shutdown begins with the containers of the map; an end leaves nothing to revoke.
LEMMA ShutdownKeepsTokens ==
  ASSUME TInv, Exit \/ Crash \/ \E how \in {"stopping", "removing"} : Shutdown(how)
  PROVE  TInv'
<1> USE DEF TInv
<1>1. IInv'
  BY StepInvariant DEF Next
<1>2. CASE Ends
  <2>1. \A i \in Id : /\ tokens'[i] # "valid"
                      /\ tokens'[i] = "revoked" => tokens[i] = "revoked"
    BY <1>2 DEF Ends, IInv, TypeOK
  <2> QED
    BY <1>1, <1>2, <2>1 DEF Ends, Forgets, Idle, Creating, CleanupsMatch, NothingToRevoke,
         TodoMatch, RevokedLast, NoTokenLeak, Exists
<1>3. ASSUME NEW how \in {"stopping", "removing"}, Shutdown(how)
      PROVE  TInv'
  <2>1. UNCHANGED <<containers, cleanups, allocated, jobs, docker, tokens, survivors>>
        /\ phase = "up" /\ phase' = how
    BY <1>3 DEF Shutdown
  <2>2. \A e \in todo' : /\ e.key \in Key /\ containers[e.key] # None
                         /\ e.id = containers[e.key]
    BY <1>3 DEF Shutdown
  <2>3. TodoMatch'
    BY <2>1, <2>2 DEF TodoMatch, CleanupsMatch
  <2> QED
    BY <1>1, <2>1, <2>3 DEF CleanupsMatch, NothingToRevoke, RevokedLast, NoTokenLeak, Exists
<1> QED
  BY <1>2, <1>3 DEF Exit, Crash

\* A restart keeps the tokens; a clean exit revokes those of what it removes.
LEMMA StopKeepsTokens ==
  ASSUME TInv, NEW e \in todo, StopOnly(e) \/ StopAndRemove(e)
  PROVE  TInv'
<1> USE DEF TInv
<1>1. IInv'
  BY StepInvariant DEF Next
<1>2. e.id \in Id /\ e.key \in Key
  BY DEF IInv, TypeOK, Entry
<1>3. CASE StopOnly(e)
  <2>1. /\ UNCHANGED <<phase, containers, cleanups, jobs, tokens, survivors>>
        /\ phase = "stopping"
    BY <1>3 DEF StopOnly
  <2>2. \A j \in Id : docker'[j] # NoContainer <=> Exists(j)
    BY <1>2, <1>3 DEF StopOnly, IInv, TypeOK, Stopped, Container, NoContainer, Exists
  <2> QED
    BY <1>1, <2>1, <2>2 DEF CleanupsMatch, NothingToRevoke, TodoMatch, RevokedLast, NoTokenLeak,
         Exists
<1>4. CASE StopAndRemove(e)
  <2> DEFINE c == cleanups[e.key]
  <2>1. /\ phase = "removing" /\ UNCHANGED <<phase, containers, jobs>>
        /\ todo' \subseteq todo
        /\ cleanups'[e.key] = None
        /\ \A l \in Key \ {e.key} : cleanups'[l] = cleanups[l]
    BY <1>2, <1>4 DEF StopAndRemove, IInv, TypeOK
  <2>2. /\ \A j \in Id : tokens'[j] = tokens[j] \/ (j = c /\ tokens'[j] # "valid")
        /\ c # None => c \in Id /\ tokens'[c] # "valid"
    BY <1>2, <1>4, NoneAssumption DEF StopAndRemove, Revoked, IInv, TypeOK
  <2>3. /\ \A j \in Id \ {e.id} : docker'[j] = docker[j] /\ (j \in survivors <=> j \in survivors')
        /\ docker'[e.id] # NoContainer => Exists(e.id) /\ e.id \in survivors'
    BY <1>2, <1>4 DEF StopAndRemove, Removes, Stopped, Exists, IInv, TypeOK, Container, NoContainer
  <2>4. tokens'[e.id] # "valid"
    BY <1>2, <2>1, <2>2, NoneAssumption DEF TodoMatch, CleanupsMatch
  <2>5. c \notin {None, e.id} => c \in survivors \/ ~ Exists(c)
    BY <2>1 DEF TodoMatch
  <2> HIDE DEF c
  <2>6. CleanupsMatch'
    <3> SUFFICES ASSUME NEW l \in Key
                 PROVE  /\ containers[l] # None =>
                             /\ cleanups'[l] \in {None, containers[l]}
                             /\ tokens'[containers[l]] = "valid" => cleanups'[l] = containers[l]
                        /\ jobs[l].stage \in Creating =>
                             /\ cleanups'[l] \in {None, jobs[l].id}
                             /\ tokens'[jobs[l].id] = "valid" => cleanups'[l] = jobs[l].id
      BY <2>1 DEF CleanupsMatch
    <3>1. /\ containers[l] # None => containers[l] \in Id
          /\ jobs[l].stage \in Creating => jobs[l].id \in Id
      BY DEF IInv, TypeOK, JobsFormed, Creating
    <3> QED
      BY <1>2, <2>1, <2>2, <3>1 DEF CleanupsMatch, c
  <2>7. TodoMatch'
    <3> SUFFICES ASSUME NEW f \in todo
                 PROVE  /\ tokens'[f.id] = "valid" => containers[f.key] = f.id
                        /\ cleanups'[f.key] \notin {None, f.id} =>
                             \/ cleanups'[f.key] \in survivors'
                             \/ docker'[cleanups'[f.key]] = NoContainer
      BY <2>1 DEF TodoMatch, Exists
    <3>1. f.id \in Id /\ f.key \in Key /\ cleanups[f.key] \in Id \cup {None}
      BY DEF IInv, TypeOK, Entry
    <3>2. tokens'[f.id] = "valid" => tokens[f.id] = "valid"
      BY <2>2, <3>1
    <3> QED
      BY <2>1, <2>3, <3>1, <3>2 DEF TodoMatch, Exists
  <2>8. RevokedLast'
    BY <2>1, <2>2, <2>3, <2>5, NoneAssumption DEF RevokedLast, Exists
  <2>9. NoTokenLeak'
    BY <2>1, <2>2, <2>3, <2>4 DEF NoTokenLeak, Exists
  <2> QED
    BY <1>1, <2>1, <2>6, <2>7, <2>8, <2>9 DEF NothingToRevoke
<1> QED
  BY <1>3, <1>4

\* Nothing is revoked while an orchestrator boots.
LEMMA BootKeepsTokens ==
  ASSUME TInv, Boot \/ RemoveOrphans \/ \E e \in todo : Adopt(e) \/ Skip(e)
  PROVE  TInv'
<1> USE DEF TInv
<1>1. IInv'
  BY StepInvariant DEF Next
<1>2. /\ phase \in {"down", "booting"} /\ phase' \in {"booting", "up"}
      /\ UNCHANGED <<cleanups, jobs, tokens>>
  BY DEF Boot, ListContainers, RemoveOrphans, Adopt, Skip
<1>3. \A i \in Id : docker'[i] # NoContainer /\ i \notin survivors' =>
                      Exists(i) /\ i \notin survivors
  <2>1. CASE RemoveOrphans
    BY <2>1 DEF RemoveOrphans, Exists, IInv, TypeOK
  <2>2. CASE Boot
    BY <2>2 DEF Boot, ListContainers, EntryOf, Exists
  <2>3. ASSUME NEW e \in todo, Adopt(e) \/ Skip(e)
        PROVE  survivors' = survivors /\ \A i \in Id : docker'[i] # NoContainer => Exists(i)
    BY <2>3 DEF Adopt, Skip, Exists, NoContainer, IInv, TypeOK
  <2> QED
    BY <2>1, <2>2, <2>3
<1>4. /\ \A k \in Key : cleanups[k] = None /\ jobs[k] = Idle
      /\ \A i \in Id : tokens[i] # "valid"
  BY <1>2 DEF NothingToRevoke, IInv, Quiet
<1>5. CleanupsMatch'
  <2>1. \A k \in Key : containers'[k] # None => containers'[k] \in Id
    BY <1>1 DEF IInv, TypeOK
  <2> QED
    BY <1>2, <1>4, <2>1 DEF CleanupsMatch, Idle, Creating
<1> QED
  BY <1>1, <1>2, <1>3, <1>4, <1>5
     DEF NothingToRevoke, TodoMatch, RevokedLast, NoTokenLeak, Idle, Exists

\* The proxy forgets only what nobody is to revoke.
LEMMA DeathKeepsTokens ==
  ASSUME TInv, NEW i \in Id, Dies(i) \/ Expires(i)
  PROVE  TInv'
<1> USE DEF TInv
<1>1. IInv'
  BY StepInvariant DEF Next
<1>2. /\ UNCHANGED <<phase, containers, cleanups, jobs, todo, survivors>>
      /\ \A j \in Id : docker'[j] # NoContainer <=> Exists(j)
      /\ \A j \in Id : tokens'[j] = tokens[j] \/ (tokens[j] = "adrift" /\ tokens'[j] = "unknown")
  BY DEF Dies, Expires, Stopped, Exists, NoContainer, IInv, TypeOK
<1>3. /\ \A k \in Key : /\ containers[k] # None => containers[k] \in Id
                        /\ cleanups[k] \in Id \cup {None}
                        /\ jobs[k].stage \in Creating => jobs[k].id \in Id
      /\ \A e \in todo : e.id \in Id /\ e.key \in Key
  BY DEF IInv, TypeOK, JobsFormed, Creating, Entry
<1>4. CleanupsMatch'
  BY <1>2, <1>3 DEF CleanupsMatch
<1>5. TodoMatch'
  BY <1>2, <1>3 DEF TodoMatch, Exists
<1> QED
  BY <1>1, <1>2, <1>3, <1>4, <1>5 DEF NothingToRevoke, RevokedLast, NoTokenLeak, Exists, Creating

\* Every step keeps the invariant of the tokens.
LEMMA StepTokens == TInv /\ [Next]_vars => TInv'
<1> SUFFICES ASSUME TInv, [Next]_vars PROVE TInv'
  OBVIOUS
<1>1. CASE UNCHANGED vars
  <2>1. IInv'
    BY StepInvariant DEF TInv
  <2> QED
    BY <1>1, <2>1 DEF vars, TInv, CleanupsMatch, NothingToRevoke, TodoMatch, RevokedLast,
         NoTokenLeak, Exists
<1>2. CASE Next
  BY <1>2, ChecksKeepTokens, TeardownKeepsTokens, ProvisionKeepsTokens, CreationKeepsTokens,
     ShutdownKeepsTokens, StopKeepsTokens, BootKeepsTokens, DeathKeepsTokens DEF Next
<1> QED
  BY <1>1, <1>2

\* TInv is an inductive invariant of the container manager.
THEOREM TokenInvariance == Spec => []TInv
<1>1. Init => TInv
  BY InitTokens
<1>2. TInv /\ [Next]_vars => TInv'
  BY StepTokens
<1> QED
  BY <1>1, <1>2, PTL DEF Spec

\* A container that is handed out has not lost its token (index.ts:1203), unless a
\* removal left it or raced with its creation.
THEOREM TokensKept == Spec => []TokenKept
<1>1. TInv => TokenKept
  BY DEF TInv, IInv, TypeOK, Mapped, Owns, RevokedLast, TokenKept
<1> QED
  BY <1>1, TokenInvariance, PTL

\* A token an orchestrator is to revoke belongs to a container or to a call of
\* ensure() (manager.ts:106, 142, 213, 268).
THEOREM TokensOwned == Spec => []NoTokenLeak
<1>1. TInv => NoTokenLeak
  BY DEF TInv
<1> QED
  BY <1>1, TokenInvariance, PTL
==============================================================================
