--------------------------- MODULE Scheduler_proofs ---------------------------
(***************************************************************************)
(* No occurrence of a task is started twice, for any number of tasks,      *)
(* period, clock and crashes.  FiredOnce is not inductive: what matters is *)
(* that the next run is always later than all that was started, because    *)
(* both writers of next_run, the claim and the end of a run, write a       *)
(* moment that is still to come.                                           *)
(***************************************************************************)
EXTENDS Scheduler, TLAPS

\* What was started lies in the past, before the next run; and a task that
\* does not exist yet was never started.
FiredBefore ==
  \A t \in Task :
    /\ \A o \in fired[t] : o <= now /\ (tasks[t].next # None => o < tasks[t].next)
    /\ tasks[t].status = "absent" => fired[t] = {}

RunsStarted == \A r \in running : r.anchor <= now

IInv == TypeOK /\ FiredBefore /\ RunsStarted

\* Rounding down to the grid and going one step on passes the moment itself.
LEMMA DivisionPasses ==
  ASSUME NEW d \in Nat, NEW p \in Nat \ {0}
  PROVE  /\ d \div p \in Nat
         /\ d < (d \div p + 1) * p
<1>1. d \div p \in Nat /\ d % p \in 0..(p - 1)
  OBVIOUS
<1>2. d = p * (d \div p) + (d % p)
  OBVIOUS
<1> DEFINE q == d \div p
<1>3. (q + 1) * p = p * q + p
  BY <1>1
<1> QED
  BY <1>1, <1>2, <1>3

\* The next run after an anchor that has passed is still to come.
LEMMA NextIsToCome ==
  ASSUME now \in Nat,
         NEW type \in {"once", "recurring"}, NEW anchor \in Nat, anchor <= now
  PROVE  LET next == ComputeNextRun(type, anchor)
         IN  next = None \/ (next \in Nat /\ now < next)
<1> DEFINE d == now - anchor
           step == (d \div Period + 1) * Period
<1>1. d \in Nat
  OBVIOUS
<1>2. Period \in Nat \ {0}
  BY PeriodAssumption
<1>3. d \div Period \in Nat /\ d < step
  BY <1>1, <1>2, DivisionPasses
<1>4. step \in Nat
  BY <1>2, <1>3
<1>5. anchor + step \in Nat /\ now < anchor + step
  BY <1>1, <1>3, <1>4
<1> QED
  BY <1>5 DEF ComputeNextRun

------------------------------------------------------------------------------
\* No task, run or occurrence at first.
LEMMA InitInvariant == Init => IInv
<1> SUFFICES ASSUME Init PROVE IInv
  OBVIOUS
<1>1. TypeOK
  BY BoundsAssumption DEF Init, TypeOK, Row, Status, Run
<1>2. FiredBefore
  BY DEF Init, FiredBefore
<1>3. RunsStarted
  BY DEF Init, RunsStarted
<1> QED
  BY <1>1, <1>2, <1>3 DEF IInv

\* The API's own steps: a task that is created was never started.
LEMMA EditsKeepInvariant ==
  ASSUME IInv, NEW t \in Task,
         \/ Create(t) \/ DeleteTask(t)
         \/ \E status \in {"active", "paused"} : SetStatus(t, status)
  PROVE  IInv'
<1> USE DEF IInv
<1>1. CASE Create(t)
  <2>1. PICK type \in {"once", "recurring"} : \E first \in InitialNextRuns(type) :
          tasks' = [tasks EXCEPT ![t] = NewTask(type, first)]
    BY <1>1 DEF Create
  <2>2. PICK first \in InitialNextRuns(type) : tasks' = [tasks EXCEPT ![t] = NewTask(type, first)]
    BY <2>1
  <2>7. first \in Nat
    BY BoundsAssumption, PeriodAssumption DEF InitialNextRuns, TypeOK
  <2>3. tasks' \in [Task -> Row]
    BY <2>2, <2>7 DEF TypeOK, Row, Status, NewTask
  <2>4. TypeOK'
    BY <1>1, <2>3 DEF Create, TypeOK
  <2>5. fired[t] = {}
    BY <1>1 DEF Create, FiredBefore
  <2>6. FiredBefore'
    BY <1>1, <2>2, <2>5 DEF Create, TypeOK, FiredBefore, NewTask
  <2> QED
    BY <1>1, <2>4, <2>6 DEF Create, RunsStarted
<1>2. ASSUME NEW status \in {"active", "paused", "deleted"},
             tasks[t].status # "absent",
             tasks' = [tasks EXCEPT ![t].status = status],
             UNCHANGED <<now, running, fired, crashes>>
      PROVE  IInv'
  <2>1. TypeOK'
    BY <1>2 DEF TypeOK, Row, Status
  <2>2. FiredBefore'
    BY <1>2 DEF TypeOK, FiredBefore, Row
  <2> QED
    BY <1>2, <2>1, <2>2 DEF RunsStarted
<1>3. CASE DeleteTask(t)
  BY <1>2, <1>3 DEF DeleteTask
<1>4. CASE \E status \in {"active", "paused"} : SetStatus(t, status)
  BY <1>2, <1>4 DEF SetStatus, UpdateTask
<1> QED
  BY <1>1, <1>3, <1>4

\* A poll starts what is due, and each claim moves the next run into the future.
LEMMA PollKeepsInvariant ==
  ASSUME IInv, CheckDueTasks
  PROVE  IInv'
<1> USE DEF IInv
<1> DEFINE due == { t \in Task : Due(t) }
           after(t) == ComputeNextRun(tasks[t].type, tasks[t].next)
<1>1. \A t \in due : /\ tasks[t] \in Row
                     /\ tasks[t].next \in Nat /\ tasks[t].next <= now
                     /\ tasks[t].status = "active"
  BY DEF TypeOK, Row, Due
<1>2. now \in Nat
  BY BoundsAssumption DEF TypeOK
<1>3. \A t \in due : after(t) = None \/ (after(t) \in Nat /\ now < after(t))
  BY <1>1, <1>2, NextIsToCome DEF Row
<1>4. tasks' = [t \in Task |-> IF t \in due THEN [tasks[t] EXCEPT !.next = after(t)]
                                            ELSE tasks[t]]
  BY DEF CheckDueTasks, UpdateTask
<1>5. fired' = [t \in Task |-> IF t \in due THEN fired[t] \cup {tasks[t].next}
                                            ELSE fired[t]]
  BY DEF CheckDueTasks
<1>6. running' = running \cup { Claim(t) : t \in due } /\ UNCHANGED <<now, crashes>>
  BY DEF CheckDueTasks
<1> HIDE DEF after
<1>7. TypeOK'
  <2>1. tasks' \in [Task -> Row]
    BY <1>1, <1>3, <1>4 DEF TypeOK, Row
  <2>2. fired' \in [Task -> SUBSET Nat]
    BY <1>1, <1>5 DEF TypeOK
  <2>3. \A t \in due : Claim(t) \in Run
    BY <1>1 DEF Claim, Run, Row
  <2> QED
    BY <1>6, <2>1, <2>2, <2>3 DEF TypeOK
<1>8. ASSUME NEW t \in Task
      PROVE  /\ \A o \in fired'[t] : /\ o <= now
                                     /\ tasks'[t].next # None => o < tasks'[t].next
             /\ tasks'[t].status = "absent" => fired'[t] = {}
  <2>1. CASE t \in due
    <3>1. fired'[t] = fired[t] \cup {tasks[t].next} /\ fired[t] \subseteq Nat
      BY <1>5, <2>1 DEF TypeOK
    <3>2. tasks'[t].next = after(t) /\ tasks'[t].status = "active"
      BY <1>1, <1>4, <2>1 DEF Row
    <3>3. \A o \in fired'[t] : o \in Nat /\ o <= now
      BY <1>1, <2>1, <3>1 DEF FiredBefore
    <3> QED
      BY <1>2, <1>3, <2>1, <3>2, <3>3
  <2>2. CASE t \notin due
    BY <1>4, <1>5, <2>2 DEF FiredBefore
  <2> QED
    BY <2>1, <2>2
<1>9. FiredBefore'
  BY <1>6, <1>8 DEF FiredBefore
<1>10. RunsStarted'
  BY <1>1, <1>6 DEF RunsStarted, Claim
<1> QED
  BY <1>7, <1>9, <1>10

\* The end of a run starts nothing and writes a moment that is still to come,
\* however late it ends and whatever was started meanwhile.
LEMMA EndKeepsInvariant ==
  ASSUME IInv, NEW r \in running, EndRun(r)
  PROVE  IInv'
<1> USE DEF IInv
<1> DEFINE next == ComputeNextRun(r.type, r.anchor)
<1>1. /\ r.task \in Task /\ r.anchor \in Nat /\ r.anchor <= now
      /\ r.type \in {"once", "recurring"} /\ now \in Nat
  BY BoundsAssumption DEF TypeOK, Run, RunsStarted
<1>2. next = None \/ (next \in Nat /\ now < next)
  BY <1>1, NextIsToCome
<1> DEFINE ended == [tasks[r.task] EXCEPT !.next = next,
                                          !.status = IF next = None THEN "completed" ELSE @]
<1>3. tasks' = tasks \/ tasks' = [tasks EXCEPT ![r.task] = ended]
  BY <1>1 DEF EndRun, AfterRun, TypeOK
<1> HIDE DEF next
<1>4. tasks[r.task] \in Row
  BY <1>1 DEF TypeOK
<1>5. ended \in Row /\ ended.next = next
  BY <1>2, <1>4 DEF Row, Status
<1>6. ended.status = "absent" => tasks[r.task].status = "absent"
  BY <1>4 DEF Row
<1> HIDE DEF ended
<1>7. running' \subseteq running /\ UNCHANGED <<now, fired, crashes>>
  BY DEF EndRun
<1>8. TypeOK'
  BY <1>3, <1>5, <1>7 DEF TypeOK
<1>9. FiredBefore'
  <2> SUFFICES ASSUME NEW t \in Task
               PROVE  /\ \A o \in fired[t] : /\ o <= now
                                            /\ tasks'[t].next # None => o < tasks'[t].next
                      /\ tasks'[t].status = "absent" => fired[t] = {}
    BY <1>7 DEF FiredBefore
  <2>1. CASE tasks'[t] = tasks[t]
    BY <2>1 DEF FiredBefore
  <2>2. CASE t = r.task /\ tasks'[t] = ended
    <3>1. \A o \in fired[t] : o \in Nat /\ o <= now
      BY DEF TypeOK, FiredBefore
    <3> QED
      BY <1>1, <1>2, <1>5, <1>6, <2>2, <3>1 DEF FiredBefore
  <2>3. tasks'[t] = tasks[t] \/ (t = r.task /\ tasks'[t] = ended)
    BY <1>3 DEF TypeOK
  <2> QED
    BY <2>1, <2>2, <2>3
<1>10. RunsStarted'
  BY <1>7 DEF RunsStarted
<1> QED
  BY <1>8, <1>9, <1>10

\* Time passes, and nothing that lies in the past is in the future again.
LEMMA TickKeepsInvariant ==
  ASSUME IInv, Tick
  PROVE  IInv'
<1> USE DEF IInv
<1>1. now \in Nat /\ now' = now + 1 /\ now' \in 0..MaxTime
  BY BoundsAssumption DEF Tick, TypeOK
<1>2. UNCHANGED <<tasks, running, fired, crashes>>
  BY DEF Tick
<1>3. TypeOK'
  BY <1>1, <1>2 DEF TypeOK
<1>4. \A t \in Task : fired[t] \subseteq Nat
  BY DEF TypeOK
<1>5. FiredBefore'
  BY <1>1, <1>2, <1>4 DEF FiredBefore
<1>6. RunsStarted'
  BY <1>1, <1>2 DEF RunsStarted, TypeOK, Run
<1> QED
  BY <1>3, <1>5, <1>6

\* A crash loses the runs and keeps the rows.
LEMMA CrashKeepsInvariant ==
  ASSUME IInv, Crash
  PROVE  IInv'
BY BoundsAssumption DEF IInv, Crash, TypeOK, FiredBefore, RunsStarted

LEMMA StepInvariant == IInv /\ [Next]_vars => IInv'
<1> SUFFICES ASSUME IInv, [Next]_vars PROVE IInv'
  OBVIOUS
<1>1. ASSUME NEW t \in Task,
             \/ Create(t) \/ DeleteTask(t)
             \/ \E status \in {"active", "paused"} : SetStatus(t, status)
      PROVE  IInv'
  BY <1>1, EditsKeepInvariant
<1>2. CASE CheckDueTasks
  BY <1>2, PollKeepsInvariant
<1>3. ASSUME NEW r \in running, EndRun(r)
      PROVE  IInv'
  BY <1>3, EndKeepsInvariant
<1>4. CASE Tick
  BY <1>4, TickKeepsInvariant
<1>5. CASE Crash
  BY <1>5, CrashKeepsInvariant
<1>6. CASE UNCHANGED vars
  BY <1>6 DEF vars, IInv, TypeOK, FiredBefore, RunsStarted
<1> QED
  BY <1>1, <1>2, <1>3, <1>4, <1>5, <1>6 DEF Next

------------------------------------------------------------------------------
\* IInv is an inductive invariant of the scheduler.
THEOREM Invariance == Spec => []IInv
<1>1. Init => IInv
  BY InitInvariant
<1>2. IInv /\ [Next]_vars => IInv'
  BY StepInvariant
<1> QED
  BY <1>1, <1>2, PTL DEF Spec

\* Every state is well typed.
THEOREM TypeCorrect == Spec => []TypeOK
<1>1. IInv => TypeOK
  BY DEF IInv
<1> QED
  BY <1>1, Invariance, PTL

\* No occurrence of a task is started twice (scheduler.ts:84-90): what a task
\* is due for next is later than all that was started before.
THEOREM StartsOnce == Spec => []FiredOnce
<1>1. IInv => FiredOnce
  <2> SUFFICES ASSUME IInv, NEW t \in Task, tasks[t].next \in fired[t]
               PROVE  FALSE
    BY DEF FiredOnce
  <2>1. tasks[t].next \in Nat /\ tasks[t].next # None
    BY NoneAssumption DEF IInv, TypeOK
  <2>2. tasks[t].next < tasks[t].next
    BY <2>1 DEF IInv, FiredBefore
  <2> QED
    BY <2>1, <2>2
<1> QED
  BY <1>1, Invariance, PTL
==============================================================================
