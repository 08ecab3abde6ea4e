------------------------------ MODULE Scheduler ------------------------------
(***************************************************************************)
(* Scheduled tasks (packages/orchestrator/src/scheduler): the poll that    *)
(* claims what is due and starts it, the end of a run, what an agent does  *)
(* to a task through the callback API (api/server.ts), and an orchestrator *)
(* that dies while the tasks stay in SQLite.                               *)
(*                                                                         *)
(* Interval and cron tasks run at the points of a grid, Period apart; the  *)
(* fallback for a malformed interval is left out, as the API refuses to    *)
(* create one.  A run is the task as it was claimed: its anchor is the     *)
(* next_run it was claimed at.                                             *)
(***************************************************************************)
EXTENDS Integers

CONSTANTS Task,        \* task ids
          None,        \* next_run is NULL
          Period,      \* the time between two occurrences of a task
          MaxTime,     \* bound on the clock
          MaxCrashes   \* bound on the orchestrator's deaths

ASSUME PeriodAssumption == Period \in Nat \ {0}
ASSUME NoneAssumption == None \notin Nat
ASSUME BoundsAssumption == MaxTime \in Nat /\ MaxCrashes \in Nat

VARIABLES
  now,       \* Date.now()
  tasks,     \* tasks[t]: the row of t in scheduled_tasks
  running,   \* runs under way
  fired,     \* fired[t]: the occurrences of t that were started
  crashes    \* deaths of the orchestrator so far

vars == <<now, tasks, running, fired, crashes>>

Status == {"absent", "active", "paused", "completed", "deleted"}

Row == [status : Status, type : {"once", "recurring"}, next : Nat \cup {None}]

Run == [task : Task, anchor : Nat, type : {"once", "recurring"}]

TypeOK ==
  /\ now \in 0..MaxTime
  /\ tasks \in [Task -> Row]
  /\ running \subseteq Run
  /\ fired \in [Task -> SUBSET Nat]
  /\ crashes \in 0..MaxCrashes

Init ==
  /\ now = 0
  /\ tasks = [t \in Task |-> [status |-> "absent", type |-> "once", next |-> None]]
  /\ running = {}
  /\ fired = [t \in Task |-> {}]
  /\ crashes = 0

------------------------------------------------------------------------------
\* Mutant: the missed occurrences are not skipped.
ComputeNextRunUnskipped(type, anchor) ==
  IF type = "once" THEN None ELSE anchor + Period

\* The first point of the grid after now; a one-off task has none.
ComputeNextRun(type, anchor) ==
  IF type = "once" THEN None
                   ELSE anchor + ((now - anchor) \div Period + 1) * Period

\* Where a new task may start: a one-off task at a given moment, past or to come,
\* another within a period from now.
InitialNextRuns(type) ==
  IF type = "once" THEN 0..(MaxTime + Period) ELSE (now + 1)..(now + Period)

NewTask(type, first) == [status |-> "active", type |-> type, next |-> first]

\* A row with one of its columns written.
UpdateTask(row, column, value) == [row EXCEPT ![column] = value]

\* A row after a run: without a next run the task is completed, else its status stays.
AfterRun(row, next) ==
  [row EXCEPT !.next = next, !.status = IF next = None THEN "completed" ELSE @]

Create(t) ==
  /\ tasks[t].status = "absent"
  /\ \E type \in {"once", "recurring"} : \E first \in InitialNextRuns(type) :
       tasks' = [tasks EXCEPT ![t] = NewTask(type, first)]
  /\ UNCHANGED <<now, running, fired, crashes>>

\* Pause and resume, whatever the status was.
SetStatus(t, status) ==
  /\ tasks[t].status \notin {"absent", "deleted", status}
  /\ tasks' = [tasks EXCEPT ![t] = UpdateTask(@, "status", status)]
  /\ UNCHANGED <<now, running, fired, crashes>>

DeleteTask(t) ==
  /\ tasks[t].status \notin {"absent", "deleted"}
  /\ tasks' = [tasks EXCEPT ![t].status = "deleted"]
  /\ UNCHANGED <<now, running, fired, crashes>>

Due(t) ==
  /\ tasks[t].status = "active"
  /\ tasks[t].next # None
  /\ tasks[t].next <= now

Claim(t) == [task |-> t, anchor |-> tasks[t].next, type |-> tasks[t].type]

\* Mutant: due tasks are started and keep their next run until they end.
CheckDueTasksUnclaimed ==
  LET due == { t \in Task : Due(t) } IN
  /\ due # {}
  /\ running' = running \cup { Claim(t) : t \in due }
  /\ fired' = [t \in Task |-> IF t \in due THEN fired[t] \cup {tasks[t].next}
                                           ELSE fired[t]]
  /\ UNCHANGED <<now, tasks, crashes>>

\* Mutant: a claimed task gets a status the schema does not know.
CheckDueTasksMarking ==
  LET due == { t \in Task : Due(t) } IN
  /\ due # {}
  /\ tasks' = [t \in Task |-> IF t \in due THEN [tasks[t] EXCEPT !.status = "running"]
                                           ELSE tasks[t]]
  /\ running' = running \cup { Claim(t) : t \in due }
  /\ UNCHANGED <<now, fired, crashes>>

\* One poll, in one step: each due task is claimed by advancing its next_run,
\* and its run is started.
CheckDueTasks ==
  LET due == { t \in Task : Due(t) } IN
  /\ due # {}
  /\ tasks' = [t \in Task |->
       IF t \in due
         THEN UpdateTask(tasks[t], "next", ComputeNextRun(tasks[t].type, tasks[t].next))
         ELSE tasks[t]]
  /\ running' = running \cup { Claim(t) : t \in due }
  /\ fired' = [t \in Task |-> IF t \in due THEN fired[t] \cup {tasks[t].next}
                                           ELSE fired[t]]
  /\ UNCHANGED <<now, crashes>>

\* Mutant: a one-off task is left active.
EndRunActive(r) ==
  /\ r \in running
  /\ running' = running \ {r}
  /\ tasks' = IF tasks[r.task].status = "deleted" THEN tasks
              ELSE [tasks EXCEPT ![r.task].next = ComputeNextRun(r.type, r.anchor)]
  /\ UNCHANGED <<now, fired, crashes>>

\* A run ends, well or badly: the row, if it is still there, gets the next run
\* after the run's own anchor, and a task without one is completed.
EndRun(r) ==
  /\ r \in running
  /\ running' = running \ {r}
  /\ tasks' = IF tasks[r.task].status = "deleted" THEN tasks
              ELSE [tasks EXCEPT ![r.task] = AfterRun(@, ComputeNextRun(r.type, r.anchor))]
  /\ UNCHANGED <<now, fired, crashes>>

Tick ==
  /\ now < MaxTime
  /\ now' = now + 1
  /\ UNCHANGED <<tasks, running, fired, crashes>>

\* The orchestrator dies and starts again: the runs are gone, the rows stay.
Crash ==
  /\ crashes < MaxCrashes
  /\ crashes' = crashes + 1
  /\ running' = {}
  /\ UNCHANGED <<now, tasks, fired>>

Next ==
  \/ \E t \in Task :
       \/ Create(t) \/ DeleteTask(t)
       \/ \E status \in {"active", "paused"} : SetStatus(t, status)
  \/ CheckDueTasks
  \/ \E r \in running : EndRun(r)
  \/ Tick
  \/ Crash

\* The loop polls, and a run ends.  The second is an assumption: the bridge settles
\* a dispatch if its session's creation ends (DispatchBus, Settles), and nothing
\* bounds that.
Fairness ==
  /\ WF_vars(CheckDueTasks)
  /\ \A t \in Task, a \in 0..MaxTime, y \in {"once", "recurring"} :
       WF_vars(EndRun([task |-> t, anchor |-> a, type |-> y]))

Spec == Init /\ [][Next]_vars /\ Fairness

------------------------------------------------------------------------------
(* Properties *)

\* No occurrence of a task is started twice (scheduler.ts:84-88): what a task
\* is due for next was not started before, whatever the claims of polls, runs
\* that end late and overlap, pauses, resumptions and crashes did to the row.
FiredOnce == \A t \in Task : tasks[t].next \notin fired[t]

\* A one-off task that is due is completed in the end, unless somebody pauses
\* or deletes it or the orchestrator dies.
OnceSettles ==
  \A t \in Task :
    (Due(t) /\ tasks[t].type = "once")
      ~> (tasks[t].status # "active" \/ crashes > 0)
==============================================================================
