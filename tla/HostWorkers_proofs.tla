-------------------------- MODULE HostWorkers_proofs --------------------------
(***************************************************************************)
(* For any agents, ports and processes: every state of HostWorkers is well *)
(* typed, a request reaches a stranger only where OwnAnswers says so, and  *)
(* no port is lost but those of replaced children.                         *)
(***************************************************************************)
EXTENDS HostWorkers, TLAPS

\* Two running processes whose ports were not released have different ports.
Exclusive ==
  \A p, q \in Proc :
    Running(p) /\ Running(q) /\ p \notin lent /\ q \notin lent /\ p # q
      => procs[p].port # procs[q].port

\* The allocator knows the port of a running process, unless it was released.
Known ==
  \A p \in Proc : Running(p) /\ p \notin lent => procs[p].port \in allocated

\* The table has the port that the process of the entry was started on.
OnPort ==
  \A a \in Agent :
    workers[a].child \in Child /\ procs[workers[a].child.proc].state # "gone"
      => procs[workers[a].child.proc].port = workers[a].child.port

\* An entry that is alive has a child.
Entered == \A a \in Agent : workers[a].alive => workers[a].child \in Child

\* A port that is allocated is lost, or that of an entry whose exit will release it.
Owned ==
  \A n \in allocated :
    n \in lost \/ \E a \in Agent : /\ workers[a].child \in Child
                                   /\ workers[a].child.port = n
                                   /\ procs[workers[a].child.proc].state # "gone"

IInv == TypeOK /\ Exclusive /\ Known /\ OnPort /\ Entered /\ Owned

\* The child that a start takes is new to the table (NewProc).
LEMMA NewIsUnused ==
  ASSUME \E p \in Proc : Unused(p)
  PROVE  /\ NewProc \in Proc
         /\ procs[NewProc].state = "gone"
         /\ \A a \in Agent : workers[a].child.proc # NewProc
BY DEF NewProc, Unused, InTable

\* Nobody is no child.
LEMMA NobodyIsNoChild == Nobody \notin Child
BY NoneAssumption DEF Nobody, Child

\* The first state.
LEMMA InitHolds == Init => IInv
<1> SUFFICES ASSUME Init PROVE IInv
  OBVIOUS
<1>1. TypeOK
  BY DEF Init, TypeOK, NoWorker, NotRunning, State
<1>2. \A p \in Proc : ~Running(p)
  BY DEF Init, NotRunning, Running
<1>3. \A a \in Agent : workers[a].child \notin Child /\ ~workers[a].alive
  BY NobodyIsNoChild DEF Init, NoWorker
<1>4. Exclusive /\ Known
  BY <1>2 DEF Exclusive, Known
<1>5. OnPort /\ Entered /\ Owned
  BY <1>3 DEF Init, OnPort, Entered, Owned
<1> QED BY <1>1, <1>4, <1>5 DEF IInv

\* What a start does to the invariant (EnsureStarts).
LEMMA StartStep ==
  ASSUME IInv, NEW a \in Agent, EnsureStarts(a)
  PROVE  IInv'
<1> DEFINE new == NewProc
<1> PICK n \in Port :
      /\ LowestFree(n)
      /\ allocated' = allocated \cup {n}
      /\ procs' = [procs EXCEPT ![new] = [port |-> n, state |-> "starting"]]
      /\ workers' = [workers EXCEPT ![a] = [child |-> [proc |-> new, port |-> n], alive |-> FALSE]]
      /\ starts' = [starts EXCEPT ![a] = [proc |-> new, port |-> n]]
  BY DEF EnsureStarts
<1>1. /\ new \in Proc /\ procs[new].state = "gone"
      /\ \A b \in Agent : workers[b].child.proc # new
  BY NewIsUnused DEF EnsureStarts
<1>2. n \notin allocated
  BY DEF LowestFree
<1>3. lost' = lost \cup {m \in allocated : m = workers[a].child.port
                                            /\ procs[workers[a].child.proc].state # "gone"}
  BY DEF EnsureStarts
<1>4. UNCHANGED <<phase, probe, doomed, lent>>
  BY DEF EnsureStarts
<1> HIDE DEF new
<1>5. [proc |-> new, port |-> n] \in Child
  BY <1>1 DEF Child
<1>6. TypeOK'
  BY <1>1, <1>3, <1>4, <1>5 DEF IInv, TypeOK, State
<1>7. \A p \in Proc : p # new => procs'[p] = procs[p]
  BY DEF IInv, TypeOK
<1>8. procs'[new] = [port |-> n, state |-> "starting"]
  BY <1>1 DEF IInv, TypeOK
<1>9. \A p \in Proc : p # new => Running(p)' = Running(p)
  BY <1>7 DEF Running
<1>10. \A p \in Proc : p # new /\ Running(p) /\ p \notin lent => procs[p].port # n
  BY <1>2 DEF IInv, Known
<1>11. Exclusive'
  BY <1>4, <1>7, <1>8, <1>9, <1>10 DEF IInv, Exclusive
<1>12. Known'
  BY <1>4, <1>7, <1>8, <1>9 DEF IInv, Known
<1>13. \A b \in Agent : b # a => workers'[b] = workers[b]
  BY DEF IInv, TypeOK
<1>14. workers'[a] = [child |-> [proc |-> new, port |-> n], alive |-> FALSE]
  BY DEF IInv, TypeOK
<1>15. \A b \in Agent : b # a /\ workers[b].child \in Child =>
         procs'[workers[b].child.proc] = procs[workers[b].child.proc]
  BY <1>1, <1>7 DEF Child
<1>16. OnPort'
  BY <1>8, <1>13, <1>14, <1>15 DEF IInv, OnPort
<1>17. Entered'
  BY <1>13, <1>14 DEF IInv, Entered
<1>18. ASSUME NEW m \in allocated'
       PROVE  m \in lost' \/ \E b \in Agent : /\ workers'[b].child \in Child
                                              /\ workers'[b].child.port = m
                                              /\ procs'[workers'[b].child.proc].state # "gone"
  <2>1. CASE m = n
    BY <1>5, <1>8, <1>14, <2>1
  <2>2. CASE m # n
    <3>1. m \in allocated
      BY <2>2
    <3>2. CASE m \in lost
      BY <1>3, <3>2
    <3>3. ASSUME NEW b \in Agent, workers[b].child \in Child, workers[b].child.port = m,
                 procs[workers[b].child.proc].state # "gone"
          PROVE  m \in lost' \/ \E c \in Agent : /\ workers'[c].child \in Child
                                                 /\ workers'[c].child.port = m
                                                 /\ procs'[workers'[c].child.proc].state # "gone"
      <4>1. CASE b = a
        BY <1>3, <3>1, <3>3, <4>1
      <4>2. CASE b # a
        BY <1>13, <1>15, <3>3, <4>2
      <4> QED BY <4>1, <4>2
    <3> QED BY <3>1, <3>2, <3>3 DEF IInv, Owned
  <2> QED BY <2>1, <2>2
<1>19. Owned'
  BY <1>18 DEF Owned
<1> QED BY <1>6, <1>11, <1>12, <1>16, <1>17, <1>19 DEF IInv

\* Giving ports back (Releases) while the processes stay as they are, and an
\* entry loses nothing but its life.
LEMMA ReleaseStep ==
  ASSUME IInv, TypeOK', NEW ports, Releases(ports), UNCHANGED procs,
         \A a \in Agent : /\ workers'[a].child = workers[a].child
                          /\ workers'[a].alive => workers[a].alive
  PROVE  IInv'
<1>1. /\ \A p \in Proc : Running(p)' = Running(p)
      /\ allocated' = allocated \ ports
      /\ lent' = lent \cup {p \in Proc : Running(p) /\ procs[p].port \in ports}
      /\ lost' = lost \ ports
  BY DEF Releases, Running
<1>2. Exclusive'
  BY <1>1 DEF IInv, Exclusive
<1>3. Known'
  BY <1>1 DEF IInv, Known
<1>4. OnPort' /\ Entered'
  BY DEF IInv, OnPort, Entered
<1>5. Owned'
  BY <1>1 DEF IInv, Owned
<1> QED BY <1>2, <1>3, <1>4, <1>5 DEF IInv

\* A step that leaves the processes and the ports alone, and makes alive only an
\* entry with a child.
LEMMA TableStep ==
  ASSUME IInv, TypeOK', KeepsPorts, UNCHANGED procs,
         \A a \in Agent : /\ workers'[a].child = workers[a].child
                          /\ workers'[a].alive => workers[a].child \in Child
  PROVE  IInv'
<1>1. \A p \in Proc : Running(p)' = Running(p)
  BY DEF Running
<1>2. Exclusive' /\ Known'
  BY <1>1 DEF IInv, Exclusive, Known, KeepsPorts
<1>3. OnPort' /\ Entered' /\ Owned'
  BY DEF IInv, OnPort, Entered, Owned, KeepsPorts
<1> QED BY <1>2, <1>3 DEF IInv

\* A process starts to listen, or exits (Binds, Exits).
LEMMA ProcessStep ==
  ASSUME IInv, NEW p \in Proc, Binds(p) \/ Exits(p)
  PROVE  IInv'
<1>1. /\ procs[p].state # "gone"
      /\ \E s \in State \ {"gone"} : procs' = [procs EXCEPT ![p].state = s]
      /\ UNCHANGED <<phase, workers, starts, probe, allocated, doomed, lost>>
  BY DEF Binds, Exits, Becomes, Running, State, KeepsPorts
<1>2. PICK s \in State \ {"gone"} : procs' = [procs EXCEPT ![p].state = s]
  BY <1>1
<1>3. /\ \A q \in Proc : /\ procs'[q].port = procs[q].port
                         /\ procs[q].state # "gone" => procs'[q].state # "gone"
                         /\ q # p => procs'[q] = procs[q]
      /\ procs'[p].state = s
  BY <1>1, <1>2 DEF IInv, TypeOK, State
<1>4. lent' \subseteq lent /\ lent \ lent' \subseteq {p}
  BY DEF Binds, Exits, KeepsPorts
<1>5. \A q \in Proc : Running(q)' /\ q \notin lent' => Running(q) /\ q \notin lent
  <2>1. CASE Binds(p)
    BY <1>3, <2>1 DEF Binds, Running, KeepsPorts
  <2>2. CASE Exits(p)
    <3>1. ~Running(p)' /\ lent' = lent \ {p}
      BY <2>2 DEF Exits, Becomes, Running, IInv, TypeOK
    <3> QED BY <1>3, <3>1 DEF Running
  <2> QED BY <2>1, <2>2
<1>6. TypeOK'
  BY <1>1, <1>2, <1>4 DEF IInv, TypeOK
<1>7. Exclusive' /\ Known'
  BY <1>1, <1>3, <1>5 DEF IInv, Exclusive, Known
<1>8. \A a \in Agent : workers[a].child \in Child => workers[a].child.proc \in Proc
  BY DEF Child
<1>9. OnPort'
  <2>1. ASSUME NEW a \in Agent, workers[a].child \in Child,
               procs'[workers[a].child.proc].state # "gone"
        PROVE  procs[workers[a].child.proc].state # "gone"
    BY <1>1, <1>3, <1>8, <2>1
  <2> QED BY <1>1, <1>3, <1>8, <2>1 DEF IInv, OnPort
<1>10. Entered'
  BY <1>1 DEF IInv, Entered
<1>11. Owned'
  BY <1>1, <1>3, <1>8 DEF IInv, Owned
<1> QED BY <1>6, <1>7, <1>9, <1>10, <1>11 DEF IInv

\* The exit of a process is seen, and its port released if it is in the table
\* (ExitSeen).
LEMMA ExitStep ==
  ASSUME IInv, NEW p \in Proc, ExitSeen(p)
  PROVE  IInv'
<1> DEFINE ports == IF InTable(p) THEN {procs[p].port} ELSE {}
<1>1. /\ procs[p].state = "exited"
      /\ procs' = [procs EXCEPT ![p] = NotRunning]
      /\ doomed' = doomed \ {p}
      /\ UNCHANGED <<phase, starts, probe>>
      /\ allocated' = allocated \ ports
      /\ lent' = lent \cup {q \in Proc : Running(q) /\ procs[q].port \in ports}
      /\ lost' = lost \ ports
  BY DEF ExitSeen, Releases
<1>2. \A a \in Agent : /\ workers'[a].child = workers[a].child
                       /\ workers'[a].alive => workers[a].alive
                       /\ workers'[a] \in [child : Child \cup {Nobody}, alive : BOOLEAN]
  BY DEF ExitSeen, IInv, TypeOK
<1>3. workers' \in [Agent -> [child : Child \cup {Nobody}, alive : BOOLEAN]]
  BY <1>2 DEF ExitSeen
<1>4. TypeOK'
  BY <1>1, <1>3 DEF IInv, TypeOK, NotRunning, State
<1>5. /\ \A q \in Proc : q # p => procs'[q] = procs[q]
      /\ procs'[p].state = "gone"
  BY <1>1 DEF IInv, TypeOK, NotRunning
<1>6. \A q \in Proc : Running(q)' => Running(q) /\ q # p
  BY <1>5 DEF Running
<1>7. Exclusive' /\ Known'
  BY <1>1, <1>5, <1>6 DEF IInv, Exclusive, Known
<1>8. OnPort'
  BY <1>2, <1>5 DEF IInv, OnPort, Child
<1>9. Entered'
  BY <1>2 DEF IInv, Entered
<1>10. ASSUME NEW n \in allocated'
       PROVE  n \in lost' \/ \E a \in Agent : /\ workers'[a].child \in Child
                                              /\ workers'[a].child.port = n
                                              /\ procs'[workers'[a].child.proc].state # "gone"
  <2>1. n \in allocated /\ n \notin ports
    BY <1>1
  <2>2. CASE n \in lost
    BY <1>1, <2>1, <2>2
  <2>3. ASSUME NEW a \in Agent, workers[a].child \in Child, workers[a].child.port = n,
               procs[workers[a].child.proc].state # "gone"
        PROVE  procs'[workers[a].child.proc].state # "gone"
    <3>1. CASE workers[a].child.proc = p
      <4>1. procs[p].port = n
        BY <2>3, <3>1 DEF IInv, OnPort
      <4>2. InTable(p)
        BY <3>1 DEF InTable
      <4> QED BY <2>1, <4>1, <4>2
    <3>2. CASE workers[a].child.proc # p
      BY <1>5, <2>3, <3>2 DEF Child
    <3> QED BY <3>1, <3>2
  <2> QED BY <1>2, <2>1, <2>2, <2>3 DEF IInv, Owned
<1>11. Owned'
  BY <1>10 DEF Owned
<1> QED BY <1>4, <1>7, <1>8, <1>9, <1>11 DEF IInv

\* A shutdown empties the table and gives back what it held (Shutdown).
LEMMA ShutdownStep ==
  ASSUME IInv, Shutdown
  PROVE  IInv'
<1> DEFINE ports == {workers[a].child.port : a \in Agent} \ {None}
<1>1. /\ workers' = [a \in Agent |-> NoWorker]
      /\ doomed' \subseteq Proc
      /\ phase' = "stopping"
      /\ UNCHANGED <<starts, probe, procs>>
      /\ allocated' = allocated \ ports
      /\ lent' = lent \cup {p \in Proc : Running(p) /\ procs[p].port \in ports}
      /\ lost' = lost \ ports
  BY DEF Shutdown, Releases
<1>2. TypeOK'
  BY <1>1 DEF IInv, TypeOK, NoWorker
<1>3. \A p \in Proc : Running(p)' = Running(p)
  BY <1>1 DEF Running
<1>4. Exclusive' /\ Known'
  BY <1>1, <1>3 DEF IInv, Exclusive, Known
<1>5. OnPort' /\ Entered'
  BY <1>1, NobodyIsNoChild DEF OnPort, Entered, NoWorker
<1>6. ASSUME NEW n \in allocated'
      PROVE  n \in lost'
  <2>1. n \in allocated /\ n \notin ports /\ n \in Port
    BY <1>1 DEF IInv, TypeOK
  <2>2. \A a \in Agent : workers[a].child.port # n
    BY <2>1, NoneAssumption
  <2> QED BY <1>1, <2>1, <2>2 DEF IInv, Owned
<1>7. Owned'
  BY <1>6 DEF Owned
<1> QED BY <1>2, <1>4, <1>5, <1>7 DEF IInv

\* The orchestrator's end forgets everything, and every port of a running process
\* is free for others (ShutdownEnds, Crash).
LEMMA EndStep ==
  ASSUME IInv, ShutdownEnds \/ Crash
  PROVE  IInv'
<1>1. /\ phase' = "down" /\ Forgets
      /\ procs' = [p \in Proc |-> IF Running(p) THEN procs[p] ELSE NotRunning]
      /\ lent' = {p \in Proc : Running(p)}
  BY DEF ShutdownEnds, Crash
<1>2. TypeOK'
  BY <1>1 DEF IInv, TypeOK, Forgets, NoWorker, NotRunning, State
<1>3. \A p \in Proc : Running(p)' => p \in lent'
  BY <1>1 DEF Running, NotRunning
<1>4. Exclusive' /\ Known'
  BY <1>3 DEF Exclusive, Known
<1>5. OnPort' /\ Entered' /\ Owned'
  BY <1>1, NobodyIsNoChild DEF OnPort, Entered, Owned, Forgets, NoWorker
<1> QED BY <1>2, <1>4, <1>5 DEF IInv

\* Every step keeps the invariant.
LEMMA StepHolds == IInv /\ [Next]_vars => IInv'
<1> SUFFICES ASSUME IInv, [Next]_vars PROVE IInv'
  OBVIOUS
<1>1. ASSUME NEW a \in Agent, EnsureStarts(a) PROVE IInv'
  BY <1>1, StartStep
<1>2. ASSUME NEW a \in Agent, HealthOK(a) PROVE IInv'
  <2>1. TypeOK'
    BY <1>2 DEF HealthOK, KeepsPorts, IInv, TypeOK
  <2>2. starts[a] \in Child
    BY <1>2 DEF HealthOK, IInv, TypeOK
  <2>3. \A b \in Agent : /\ workers'[b].child = workers[b].child
                         /\ workers'[b].alive => workers[b].child \in Child
    BY <1>2, <2>2 DEF HealthOK, IInv, TypeOK, Entered
  <2> QED BY <1>2, <2>1, <2>3, TableStep DEF HealthOK
<1>3. ASSUME NEW a \in Agent, HealthTimesOut(a) \/ Probes(a) PROVE IInv'
  <2>1. TypeOK'
    BY <1>3, NobodyIsNoChild DEF HealthTimesOut, Probes, KeepsPorts, IInv, TypeOK, Entered
  <2> QED BY <1>3, <2>1, TableStep DEF HealthTimesOut, Probes, IInv, Entered
<1>4. ASSUME NEW p \in Proc, Binds(p) \/ Exits(p) PROVE IInv'
  BY <1>4, ProcessStep
<1>5. ASSUME NEW p \in Proc, ExitSeen(p) PROVE IInv'
  BY <1>5, ExitStep
<1>6. ASSUME ProbeOK \/ Boot PROVE IInv'
  <2>1. TypeOK'
    BY <1>6 DEF ProbeOK, Boot, KeepsPorts, IInv, TypeOK
  <2> QED BY <1>6, <2>1, TableStep DEF ProbeOK, Boot, IInv, Entered
<1>7. ASSUME ProbeFails PROVE IInv'
  <2>1. TypeOK'
    BY <1>7 DEF ProbeFails, Releases, IInv, TypeOK
  <2>2. \A b \in Agent : /\ workers'[b].child = workers[b].child
                         /\ workers'[b].alive => workers[b].alive
    BY <1>7 DEF ProbeFails, IInv, TypeOK
  <2> QED BY <1>7, <2>1, <2>2, ReleaseStep DEF ProbeFails
<1>8. ASSUME Shutdown PROVE IInv'
  BY <1>8, ShutdownStep
<1>9. ASSUME ShutdownEnds \/ Crash PROVE IInv'
  BY <1>9, EndStep
<1>10. ASSUME UNCHANGED vars PROVE IInv'
  BY <1>10 DEF vars, IInv, TypeOK, Exclusive, Known, OnPort, Entered, Owned, Running
<1> QED
  BY <1>1, <1>2, <1>3, <1>4, <1>5, <1>6, <1>7, <1>8, <1>9, <1>10 DEF Next

\* The inductive invariant of the host workers: the allocator, the table and the
\* processes agree on every port that was not released too early.
THEOREM Invariance == Spec => []IInv
BY InitHolds, StepHolds, PTL DEF Spec

\* Every state is well typed.
THEOREM TypeCorrect == Spec => []TypeOK
<1>1. IInv => TypeOK
  BY DEF IInv
<1> QED BY <1>1, Invariance, PTL

\* A request for an agent reaches another process than its own only after one of
\* the two had its port released while it ran, or after its own has exited.
THEOREM AnswersOwn == Spec => []OwnAnswers
<1>1. IInv => OwnAnswers
  <2> SUFFICES ASSUME IInv, NEW a \in Agent, workers[a].alive,
                      NEW p \in Listening(Url(a)) \ {Own(a)},
                      Own(a) \notin lent, Running(Own(a))
               PROVE  p \in lent
    BY DEF OwnAnswers
  <2>1. workers[a].child \in Child /\ Own(a) \in Proc
    BY DEF IInv, Entered, Own, Child
  <2>2. procs[Own(a)].port = Url(a)
    BY <2>1 DEF IInv, OnPort, Own, Url, Running
  <2>3. Running(p) /\ p \in Proc /\ procs[p].port = Url(a) /\ p # Own(a)
    BY DEF Listening, Running
  <2> QED BY <2>1, <2>2, <2>3 DEF IInv, Exclusive
<1> QED BY <1>1, Invariance, PTL

\* A port that is allocated is that of an agent's entry, or of a child that was
\* replaced before its exit was seen.
THEOREM PortsNotLost == Spec => []NoPortLost
<1>1. IInv => NoPortLost
  BY DEF IInv, Owned, NoPortLost, Url
<1> QED BY <1>1, Invariance, PTL
===============================================================================
