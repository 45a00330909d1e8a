----------------------- MODULE ScheduledTasksProofs -----------------------
(***************************************************************************)
(* Proofs about BackgroundTasks, for any number of tasks, workers,         *)
(* claimers, registries and faults; and about ScheduledTasks, which        *)
(* extends it, for any number of schedulers and schedules besides, and any *)
(* cron tables.  The queue keeps its inductive invariant IInv among        *)
(* schedulers: to it, they are one more way to enqueue.                    *)
(***************************************************************************)
EXTENDS ScheduledTasks, TLAPS, FiniteSetTheorems, WellFoundedInduction

-----------------------------------------------------------------------------
(* The queue alone: BackgroundTasks.                                       *)

\* A session has a row exactly where its loop has one, and the row is in the
\* table; a session that calls claim_task is only ever between its statements.
PlacesAgree ==
  /\ \A s \in Sessions :
       IF pc[s] \in {"update"} \cup Holding THEN task[s] \in table
                                           ELSE task[s] = NoTask
  /\ \A c \in Claimers : pc[c] \in {"select", "update"}

\* A row lock is held by one session; a worker's row lock is on an unlocked
\* row, a claimed row has `locked` set; claim_task's row is still pending.
LocksAgree ==
  /\ \A s, r \in Sessions :
       pc[s] = "update" /\ pc[r] = "update" /\ task[s] = task[r] => s = r
  /\ \A w \in Workers :
       /\ pc[w] = "update" => ~queued_tasks[task[w]].locked
       /\ pc[w] \in Holding => queued_tasks[task[w]].locked
  /\ \A c \in Claimers :
       pc[c] = "update" => queued_tasks[task[c]].status = "pending"

\* How often the handler of a row was started, by where the row is.
RunsAgree ==
  /\ \A t \in Tasks : t \notin table => runs[t] = 0
  /\ \A t \in table : ~queued_tasks[t].locked => runs[t] = 0
  /\ \A w \in Workers :
       /\ pc[w] = "lookup" => runs[task[w]] = 0
       /\ pc[w] \in {"run"} \cup Finished => runs[task[w]] = 1
       /\ pc[w] = "exited" => outcome[task[w]] = "panic"
       /\ pc[w] = "completed" => outcome[task[w]] \in {"ok", "err"}
       /\ pc[w] \in Holding => queued_tasks[task[w]].status \notin Finished
  /\ \A t \in made \ table : queued_tasks[t].status = "pending" /\ ~queued_tasks[t].locked

\* The inductive invariant.
IInv == /\ TypeOK /\ PlacesAgree /\ LocksAgree /\ RunsAgree
        /\ ExclusiveClaim /\ AtMostOnce /\ FinishedIsOver

---------------------------------------------------------------------------
\* The initial state satisfies the invariant.
LEMMA InitInv == Init => IInv
  BY ConstantsAssumption
  DEF Init, IInv, TypeOK, PlacesAgree, LocksAgree, RunsAgree, ExclusiveClaim,
      AtMostOnce, FinishedIsOver, Places, Holding, Finished, Outcomes, Sessions

\* Claiming a row sets its column `locked` and leaves every other column and
\* row alone.
LEMMA LockEffect ==
  ASSUME TypeOK, NEW t \in table, Lock(t)
  PROVE  /\ queued_tasks' \in [made -> QueuedTask]
         /\ queued_tasks'[t].locked
         /\ queued_tasks'[t].status = queued_tasks[t].status
         /\ \A u \in made \ {t} : queued_tasks'[u] = queued_tasks[u]
<1>1. queued_tasks[t] \in QueuedTask /\ t \in made /\ t \in Tasks
  BY DEF TypeOK
<1>2. [queued_tasks[t] EXCEPT !.locked = TRUE] \in QueuedTask
  BY <1>1 DEF QueuedTask
<1>3. queued_tasks' = [queued_tasks EXCEPT ![t] = [queued_tasks[t] EXCEPT !.locked = TRUE]]
  BY DEF Lock
<1>4. queued_tasks'[t] = [queued_tasks[t] EXCEPT !.locked = TRUE]
  BY <1>1, <1>3 DEF TypeOK
<1>5. queued_tasks' \in [made -> QueuedTask]
  BY <1>2, <1>3 DEF TypeOK
<1>6. \A u \in made \ {t} : queued_tasks'[u] = queued_tasks[u]
  BY <1>1, <1>3 DEF TypeOK
<1>7. queued_tasks'[t].locked /\ queued_tasks'[t].status = queued_tasks[t].status
  BY <1>1, <1>4 DEF QueuedTask
<1> QED
  BY <1>5, <1>6, <1>7

\* Every step preserves the invariant.
LEMMA StepInv == IInv /\ [Next]_vars => IInv'
<1> SUFFICES ASSUME IInv, [Next]_vars PROVE IInv'
  OBVIOUS
<1> USE ConstantsAssumption
    DEF IInv, TypeOK, PlacesAgree, LocksAgree, RunsAgree, ExclusiveClaim,
        AtMostOnce, FinishedIsOver, Places, Holding, Finished, Outcomes,
        Sessions, QueuedTask, TaskStatus, workerVars, history, Fault, Goto
<1>1. ASSUME NEW t \in Tasks, NEW f \in Functions, Build(t, f) PROVE IInv'
  <2>1. PICK clock \in Readings : New(t, f, clock)
    BY <1>1 DEF Build
  <2>2. clock \in 0..MaxTime
    BY DEF Readings
  <2> QED BY <1>1, <2>1, <2>2 DEF Build, New
<1>2. ASSUME NEW t \in Tasks, Insert(t) PROVE IInv'
  BY <1>2 DEF Insert
<1>3. CASE Tick
  BY <1>3 DEF Tick
<1>4. ASSUME NEW w \in Workers, GetNextSelect(w) PROVE IInv'
  <2>1. CASE \E t \in Oldest(Unlocked) : Goto(w, "update", t)
    <3>1. PICK t \in Oldest(Unlocked) : Goto(w, "update", t)
      BY <2>1
    <3>2. /\ t \in table /\ ~queued_tasks[t].locked
          /\ \A s \in Sessions : ~(pc[s] = "update" /\ task[s] = t)
      BY <3>1 DEF Oldest, Unlocked, RowLocked
    <3>3. UNCHANGED <<now, made, table, queued_tasks, history, faults>>
      BY <1>4 DEF GetNextSelect
    <3>4. TypeOK' /\ PlacesAgree'
      BY <1>4, <3>1, <3>2, <3>3 DEF GetNextSelect
    <3>5. LocksAgree' /\ RunsAgree'
      BY <1>4, <3>1, <3>2, <3>3 DEF GetNextSelect
    <3>6. ExclusiveClaim' /\ AtMostOnce' /\ FinishedIsOver'
      BY <1>4, <3>1, <3>2, <3>3 DEF GetNextSelect
    <3> QED BY <3>4, <3>5, <3>6
  <2>2. CASE Unlocked = {} /\ Goto(w, "asleep", NoTask)
    BY <1>4, <2>2 DEF GetNextSelect
  <2> QED BY <1>4, <2>1, <2>2 DEF GetNextSelect
<1>5. ASSUME NEW w \in Workers, GetNextCommit(w) PROVE IInv'
  <2>1. TypeOK' /\ table' = table /\ task'[w] = task[w] /\ task[w] \in table
    <3>1. task[w] \in table /\ Lock(task[w])
      BY <1>5 DEF GetNextCommit
    <3>2. queued_tasks' \in [made -> QueuedTask]
      BY <3>1, LockEffect
    <3> QED BY <1>5, <3>1, <3>2 DEF GetNextCommit
  <2>2. PlacesAgree'
    BY <1>5 DEF GetNextCommit, Lock
  <2>3. LocksAgree'
    BY <1>5, <2>1 DEF GetNextCommit, Lock
  <2>4. RunsAgree'
    BY <1>5, <2>1 DEF GetNextCommit, Lock
  <2>5. (ExclusiveClaim /\ AtMostOnce /\ FinishedIsOver)'
    BY <1>5, <2>1 DEF GetNextCommit, Lock
  <2> QED BY <2>1, <2>2, <2>3, <2>4, <2>5
<1>6. ASSUME NEW w \in Workers, GetNextLost(w) PROVE IInv'
  <2>1. TypeOK' /\ table' = table /\ task'[w] = NoTask /\ task[w] \in table
    <3>1. task[w] \in table /\ Lock(task[w])
      BY <1>6 DEF GetNextLost
    <3>2. queued_tasks' \in [made -> QueuedTask]
      BY <3>1, LockEffect
    <3> QED BY <1>6, <3>1, <3>2 DEF GetNextLost
  <2>2. PlacesAgree'
    BY <1>6 DEF GetNextLost, Lock
  <2>3. LocksAgree'
    BY <1>6, <2>1 DEF GetNextLost, Lock
  <2>4. RunsAgree'
    BY <1>6, <2>1 DEF GetNextLost, Lock
  <2>5. (ExclusiveClaim /\ AtMostOnce /\ FinishedIsOver)'
    BY <1>6, <2>1 DEF GetNextLost, Lock
  <2> QED BY <2>1, <2>2, <2>3, <2>4, <2>5
<1>7. ASSUME NEW w \in Workers, GetNextRollback(w) PROVE IInv'
  BY <1>7 DEF GetNextRollback
<1>8. ASSUME NEW w \in Workers, Lookup(w) PROVE IInv'
  <2>1. TypeOK' /\ table' = table /\ task[w] \in table
    BY <1>8 DEF Lookup
  <2>2. PlacesAgree'
    BY <1>8 DEF Lookup
  <2>3. LocksAgree'
    BY <1>8, <2>1 DEF Lookup
  <2>4. RunsAgree'
    BY <1>8, <2>1 DEF Lookup
  <2>5. ExclusiveClaim' /\ AtMostOnce'
    BY <1>8, <2>1 DEF Lookup
  <2>6. FinishedIsOver'
    <3>1. \A t \in table : queued_tasks[t].status \in Finished => task[w] # t /\ t # NoTask
      BY <2>1
    <3> QED BY <1>8, <2>1, <3>1 DEF Lookup
  <2> QED BY <2>1, <2>2, <2>3, <2>4, <2>5, <2>6
<1>9. ASSUME NEW w \in Workers, NEW r \in Outcomes \ {"none"}, HandlerEnds(w, r) PROVE IInv'
  BY <1>9 DEF HandlerEnds
<1>10. ASSUME NEW w \in Workers, Mark(w) PROVE IInv'
  <2>1. /\ task[w] \in table /\ queued_tasks[task[w]] \in QueuedTask /\ task[w] # NoTask
        /\ queued_tasks[task[w]].locked /\ runs[task[w]] = 1
    BY <1>10 DEF Mark
  <2>2. \A s \in Sessions \ {w} : task[s] # task[w]
    BY <1>10, <2>1 DEF Mark, RowLocked
  <2>3. TypeOK' /\ PlacesAgree'
    BY <1>10, <2>1 DEF Mark
  <2>4. LocksAgree' /\ RunsAgree'
    BY <1>10, <2>1, <2>2 DEF Mark
  <2>5. ExclusiveClaim' /\ AtMostOnce'
    BY <1>10, <2>1 DEF Mark
  <2>6. FinishedIsOver'
    BY <1>10, <2>1, <2>2 DEF Mark
  <2> QED BY <2>3, <2>4, <2>5, <2>6
<1>11. ASSUME NEW w \in Workers, MarkFails(w) PROVE IInv'
  BY <1>11 DEF MarkFails
<1>12. ASSUME NEW w \in Workers, Wake(w) PROVE IInv'
  BY <1>12 DEF Wake
<1>13. ASSUME NEW w \in Workers, Crash(w) PROVE IInv'
  BY <1>13 DEF Crash
<1>14. ASSUME NEW w \in Workers, Restart(w) PROVE IInv'
  BY <1>14 DEF Restart
<1>15. ASSUME NEW c \in Claimers, NEW f \in Functions, ClaimTaskSelect(c, f) PROVE IInv'
  BY <1>15 DEF ClaimTaskSelect, Oldest, PendingOf, RowLocked
<1>16. ASSUME NEW c \in Claimers, ClaimTaskCommit(c) PROVE IInv'
  BY <1>16 DEF ClaimTaskCommit
<1>17. CASE UNCHANGED vars
  BY <1>17 DEF vars
<1>18. QED
  BY <1>1, <1>2, <1>3, <1>4, <1>5, <1>6, <1>7, <1>8, <1>9, <1>10, <1>11, <1>12,
     <1>13, <1>14, <1>15, <1>16, <1>17
  DEF Next, Enqueue, WorkerStep, WorkerFault, ClaimTask

---------------------------------------------------------------------------
LEMMA InductiveInv == Spec => []IInv
<1>1. Init => IInv
  BY InitInv
<1>2. IInv /\ [Next]_vars => IInv'
  BY StepInv
<1> QED
  BY <1>1, <1>2, PTL DEF Spec

\* The variables keep their types.
THEOREM TypeCorrect == Spec => []TypeOK
<1>1. IInv => TypeOK
  BY DEF IInv
<1> QED BY <1>1, InductiveInv, PTL

\* get_next_task never leaves two workers with the same row in hand.
THEOREM Exclusive == Spec => []ExclusiveClaim
<1>1. IInv => ExclusiveClaim
  BY DEF IInv
<1> QED BY <1>1, InductiveInv, PTL

\* worker_cycle starts the handler of a row at most once, whatever faults occur.
THEOREM RunAtMostOnce == Spec => []AtMostOnce
<1>1. IInv => AtMostOnce
  BY DEF IInv
<1> QED BY <1>1, InductiveInv, PTL

\* A final status is written by mark_* alone, after the one run of the row and
\* as that run's thread was joined, and no session has the row from then on.
THEOREM FinishedForGood == Spec => []FinishedIsOver
<1>1. IInv => FinishedIsOver
  BY DEF IInv
<1> QED BY <1>1, InductiveInv, PTL

\* Neither mark_* nor claim_task overwrites a final status.
THEOREM FinalStatusKept == Spec => FinalStatusStable
<1>1. IInv /\ [Next]_vars =>
        [\A t \in table : queued_tasks[t].status \in Finished =>
           queued_tasks'[t].status = queued_tasks[t].status]_vars
  <2> SUFFICES ASSUME IInv, [Next]_vars, NEW t \in table,
                      queued_tasks[t].status \in Finished
               PROVE  queued_tasks'[t].status = queued_tasks[t].status
    OBVIOUS
  <2> USE ConstantsAssumption
      DEF IInv, TypeOK, PlacesAgree, LocksAgree, RunsAgree, Holding, Finished,
          Sessions, QueuedTask, workerVars, history
  <2>1. ASSUME NEW u \in Tasks, NEW f \in Functions, Build(u, f)
        PROVE  queued_tasks'[t].status = queued_tasks[t].status
    BY <2>1 DEF Build, New
  <2>2. ASSUME NEW w \in Workers, GetNextCommit(w) \/ GetNextLost(w)
        PROVE  queued_tasks'[t].status = queued_tasks[t].status
    <3>1. task[w] \in table /\ Lock(task[w])
      BY <2>2 DEF GetNextCommit, GetNextLost
    <3> QED BY <3>1, LockEffect
  <2>3. ASSUME NEW w \in Workers, Mark(w)
        PROVE  queued_tasks'[t].status = queued_tasks[t].status
    BY <2>3 DEF Mark
  <2>4. ASSUME NEW c \in Claimers, ClaimTaskCommit(c)
        PROVE  queued_tasks'[t].status = queued_tasks[t].status
    BY <2>4 DEF ClaimTaskCommit
  <2>5. CASE UNCHANGED queued_tasks
    BY <2>5
  <2> QED
    BY <2>1, <2>2, <2>3, <2>4, <2>5
    DEF Next, Enqueue, WorkerStep, WorkerFault, ClaimTask, vars, Insert, Tick,
        GetNextSelect, GetNextRollback, Lookup, HandlerEnds, MarkFails, Wake,
        Crash, Restart, ClaimTaskSelect
<1> QED BY <1>1, InductiveInv, PTL DEF Spec, FinalStatusStable

---------------------------------------------------------------------------
\* Without a fault every step keeps each claimed row finished or in hand.
LEMMA StepNoLoss == IInv /\ NoSilentLoss /\ [Next]_vars => NoSilentLoss'
<1> DEFINE Kept(t) == \/ queued_tasks[t].status \in Finished
                      \/ \E w \in Workers : task[w] = t /\ pc[w] \in Holding
<1> SUFFICES ASSUME IInv, NoSilentLoss, [Next]_vars, faults' = 0, NEW t \in table',
                    queued_tasks'[t].locked, Registered(t)'
             PROVE  Kept(t)'
  BY DEF NoSilentLoss
<1>0. table \subseteq made /\ queued_tasks \in [made -> QueuedTask]
      /\ task \in [Sessions -> Tasks \cup {NoTask}] /\ pc \in [Sessions -> Places]
      /\ faults \in Nat
  BY ConstantsAssumption DEF IInv, TypeOK
<1>1. ASSUME faults = 0, t \in table, UNCHANGED queued_tasks,
             \A w \in Workers : task[w] = t /\ pc[w] \in Holding
                                  => task'[w] = t /\ pc'[w] \in Holding
      PROVE  Kept(t)'
  BY <1>1 DEF NoSilentLoss, Registered
<1>2. ASSUME NEW u \in Tasks, NEW f \in Functions, Build(u, f) PROVE Kept(t)'
  <2>1. t \in table /\ queued_tasks'[t] = queued_tasks[t]
        /\ UNCHANGED <<pc, task>> /\ faults = 0
    BY <1>0, <1>2 DEF Build, New, workerVars
  <2> QED BY <2>1 DEF NoSilentLoss, Registered
<1>3. ASSUME NEW u \in Tasks, Insert(u) PROVE Kept(t)'
  <2>1. t \in table
    BY <1>3 DEF Insert, IInv, RunsAgree
  <2> QED BY <1>1, <1>3, <2>1 DEF Insert, workerVars
<1>4. ASSUME NEW w \in Workers,
             GetNextSelect(w) \/ Wake(w) \/ Restart(w)
      PROVE  Kept(t)'
  <2>1. /\ faults = 0 /\ t \in table /\ UNCHANGED queued_tasks /\ pc[w] \notin Holding
        /\ \A v \in Workers \ {w} : task'[v] = task[v] /\ pc'[v] = pc[v]
    BY <1>0, <1>4 DEF GetNextSelect, Wake, Restart, Goto, Holding, Finished, Sessions
  <2> QED BY <1>1, <2>1
<1>5. ASSUME NEW w \in Workers, GetNextCommit(w) PROVE Kept(t)'
  <2>1. /\ task[w] \in table /\ Lock(task[w]) /\ faults = 0 /\ t \in table
        /\ task'[w] = task[w] /\ pc'[w] = "lookup"
        /\ \A v \in Workers \ {w} : task'[v] = task[v] /\ pc'[v] = pc[v]
        /\ pc[w] \notin Holding
    BY <1>0, <1>5 DEF GetNextCommit, IInv, PlacesAgree, Goto, Sessions, Holding, Finished
  <2>2. CASE t = task[w]
    BY <2>1, <2>2 DEF Holding
  <2>3. CASE t # task[w]
    <3>1. queued_tasks'[t] = queued_tasks[t]
      BY <1>0, <2>1, <2>3, LockEffect DEF IInv
    <3> QED BY <2>1, <3>1 DEF NoSilentLoss, Registered
  <2> QED BY <2>2, <2>3
<1>6. ASSUME NEW w \in Workers, Lookup(w) PROVE Kept(t)'
  <2>1. /\ faults = 0 /\ t \in table /\ UNCHANGED queued_tasks
        /\ \A v \in Workers \ {w} : task'[v] = task[v] /\ pc'[v] = pc[v]
    BY <1>0, <1>6 DEF Lookup, Goto, Sessions
  <2>2. t = task[w] => task'[w] = t /\ pc'[w] = "run"
    BY <1>0, <1>6, <2>1 DEF Lookup, Goto, Sessions, Registered
  <2> QED BY <1>1, <2>1, <2>2 DEF Holding
<1>7. ASSUME NEW w \in Workers, NEW r \in Outcomes, HandlerEnds(w, r) PROVE Kept(t)'
  <2>1. /\ faults = 0 /\ t \in table /\ UNCHANGED queued_tasks
        /\ task' = task /\ pc'[w] \in Finished
        /\ \A v \in Workers \ {w} : pc'[v] = pc[v]
    BY <1>0, <1>7 DEF HandlerEnds, Goto, Sessions, Finished
  <2> QED BY <1>1, <2>1 DEF Holding
<1>8. ASSUME NEW w \in Workers, Mark(w) PROVE Kept(t)'
  <2>1. /\ faults = 0 /\ t \in table /\ pc[w] \in Finished /\ task[w] \in table
        /\ queued_tasks' = [queued_tasks EXCEPT ![task[w]] =
                              [queued_tasks[task[w]] EXCEPT !.status = pc[w]]]
        /\ \A v \in Workers \ {w} : task'[v] = task[v] /\ pc'[v] = pc[v]
    BY <1>0, <1>8 DEF Mark, Goto, Sessions, history, IInv, PlacesAgree, Holding
  <2>2. t = task[w] => queued_tasks'[t].status \in Finished
    BY <1>0, <2>1 DEF QueuedTask
  <2>3. t # task[w] => queued_tasks'[t] = queued_tasks[t]
    BY <1>0, <2>1
  <2> QED BY <2>1, <2>2, <2>3 DEF NoSilentLoss, Registered
<1>9. ASSUME NEW w \in Workers,
             GetNextLost(w) \/ GetNextRollback(w) \/ MarkFails(w) \/ Crash(w)
      PROVE  FALSE
  BY <1>0, <1>9 DEF GetNextLost, GetNextRollback, MarkFails, Crash, Fault
<1>10. ASSUME NEW c \in Claimers, NEW f \in Functions, ClaimTaskSelect(c, f)
       PROVE  Kept(t)'
  <2>1. /\ faults = 0 /\ t \in table /\ UNCHANGED queued_tasks
        /\ \A v \in Workers : task'[v] = task[v] /\ pc'[v] = pc[v]
    BY <1>0, <1>10, ConstantsAssumption DEF ClaimTaskSelect, Goto, Sessions
  <2> QED BY <1>1, <2>1
<1>11. ASSUME NEW c \in Claimers, ClaimTaskCommit(c) PROVE Kept(t)'
  <2>1. /\ faults = 0 /\ t \in table /\ task[c] \in table
        /\ queued_tasks[task[c]].status = "pending"
        /\ queued_tasks' = [queued_tasks EXCEPT ![task[c]] =
                              [queued_tasks[task[c]] EXCEPT !.status = "in_progress"]]
        /\ \A v \in Workers : task'[v] = task[v] /\ pc'[v] = pc[v]
    BY <1>0, <1>11, ConstantsAssumption
    DEF ClaimTaskCommit, Goto, Sessions, IInv, PlacesAgree, LocksAgree
  <2>2. /\ queued_tasks'[t].locked = queued_tasks[t].locked
        /\ queued_tasks'[t].function_name = queued_tasks[t].function_name
        /\ queued_tasks[t].status \in Finished => queued_tasks'[t].status \in Finished
    BY <1>0, <2>1 DEF QueuedTask, Finished
  <2> QED BY <2>1, <2>2 DEF NoSilentLoss, Registered
<1>12. CASE UNCHANGED vars \/ Tick
  <2>1. UNCHANGED <<queued_tasks, pc, task, table, faults>>
    BY <1>12 DEF vars, Tick, workerVars
  <2> QED BY <1>1, <2>1
<1> HIDE DEF Kept
<1> QED
  BY <1>2, <1>3, <1>4, <1>5, <1>6, <1>7, <1>8, <1>9, <1>10, <1>11, <1>12
  DEF Next, Enqueue, WorkerStep, WorkerFault, ClaimTask

\* worker_cycle loses no claimed row of a registered name unless a fault occurs.
THEOREM NothingLost == Spec => []NoSilentLoss
<1>1. Init => NoSilentLoss
  BY DEF Init, NoSilentLoss
<1>2. IInv /\ NoSilentLoss /\ [Next]_vars => NoSilentLoss'
  BY StepNoLoss
<1> QED
  BY <1>1, <1>2, InductiveInv, PTL DEF Spec

-----------------------------------------------------------------------------
(* The queue, its workers and claim_task implement the at-most-once board  *)
(* of TaskBoard, and only faults strand a task.                            *)

Job == [t \in Tasks |-> StageOf(t)]

\* A step that changes the stage of t alone updates the board at t alone.
LEMMA OneMoves ==
  ASSUME NEW t \in Tasks, NEW from, NEW to,
         StageOf(t) = from, StageOf(t)' = to,
         \A u \in Tasks \ {t} : StageOf(u)' = StageOf(u)
  PROVE  Job[t] = from /\ Job' = [Job EXCEPT ![t] = to]
<1>1. Job[t] = from
  BY DEF Job
<1>2. Job' = [u \in Tasks |-> StageOf(u)']
  BY DEF Job
<1>3. [Job EXCEPT ![t] = to] = [u \in Tasks |-> IF u = t THEN to ELSE StageOf(u)]
  BY DEF Job
<1>4. [u \in Tasks |-> StageOf(u)'] = [u \in Tasks |-> IF u = t THEN to ELSE StageOf(u)]
  OBVIOUS
<1> QED
  BY <1>1, <1>2, <1>3, <1>4

\* A step that changes no stage leaves the board alone.
LEMMA NoneMoves ==
  ASSUME \A u \in Tasks : StageOf(u)' = StageOf(u)
  PROVE  Job' = Job
<1>1. Job' = [u \in Tasks |-> StageOf(u)']
  BY DEF Job
<1>2. [u \in Tasks |-> StageOf(u)'] = [u \in Tasks |-> StageOf(u)]
  OBVIOUS
<1> QED BY <1>1, <1>2 DEF Job

LEMMA InitBoard == Init => Board!Init
  BY DEF Init, Board!Init, StageOf

\* t moves from one stage to another and no other task does.
Moves(t, from, to) ==
  /\ StageOf(t) = from /\ StageOf(t)' = to
  /\ \A u \in Tasks \ {t} : StageOf(u)' = StageOf(u)

\* The moves TaskBoard allows.
Allowed(from, to) ==
  \/ <<from, to>> \in {<<"absent", "waiting">>, <<"waiting", "taken">>,
                       <<"taken", "running">>, <<"running", "ended">>}
  \/ from = "ended" /\ to \in {"completed", "exited"}
  \/ from \in {"waiting", "taken", "running", "ended"} /\ to = "dropped"

LEMMA BoardMove ==
  ASSUME NEW t \in Tasks, NEW from, NEW to, Moves(t, from, to), Allowed(from, to)
  PROVE  Board!Next
<1>1. Job[t] = from /\ Job' = [Job EXCEPT ![t] = to]
  BY OneMoves DEF Moves
<1>2. Board!Move(t, from, to)
  BY <1>1, Zenon DEF Board!Move, Job
<1> QED
  BY <1>2 DEF Allowed, Board!Next, Board!Post, Board!Take, Board!Start, Board!End,
              Board!Record, Board!Drop

---------------------------------------------------------------------------
(* How a worker's step changes what is held *)

\* When worker w, which has a row, goes on to another point of its loop with or
\* without that row, only what is held of that row changes.
LEMMA HeldAfter ==
  ASSUME IInv, NEW w \in Workers, pc[w] \in {"update"} \cup Holding,
         NEW place \in Places, NEW t2 \in {task[w], NoTask}, Goto(w, place, t2),
         t2 = NoTask <=> place \notin Holding
  PROVE  /\ task[w] \in table
         /\ \A u \in Tasks \ {task[w]}, p \in Holding : HeldAt(u, p)' = HeldAt(u, p)
         /\ \A p \in Holding : HeldAt(task[w], p) = (pc[w] = p)
         /\ \A t \in Tasks, p \in Holding : t = task[w] => HeldAt(t, p)' = (place = p)
<1>1. /\ task[w] \in table /\ task[w] \in Tasks /\ task[w] # NoTask
      /\ \A v \in Workers \ {w} : task[v] # task[w]
  BY ConstantsAssumption DEF IInv, TypeOK, PlacesAgree, ExclusiveClaim, Sessions
<1>2. \A v \in Workers \ {w} : task'[v] = task[v] /\ pc'[v] = pc[v]
  BY DEF Goto, IInv, TypeOK, Sessions
<1>3. pc'[w] = place /\ task'[w] = t2
  BY DEF Goto, IInv, TypeOK, Sessions
<1>4. \A u \in Tasks \ {task[w]}, p \in Holding : HeldAt(u, p)' = HeldAt(u, p)
  BY <1>1, <1>2, <1>3, ConstantsAssumption DEF HeldAt
<1>5. \A p \in Holding : HeldAt(task[w], p) = (pc[w] = p)
  BY <1>1 DEF HeldAt
<1>6. \A t \in Tasks, p \in Holding : t = task[w] => HeldAt(t, p)' = (place = p)
  BY <1>1, <1>2, <1>3 DEF HeldAt
<1> QED
  BY <1>1, <1>4, <1>5, <1>6

\* A session that has no claimed row in hand, before or after, holds nothing.
LEMMA HeldSame ==
  ASSUME IInv, NEW s \in Sessions, s \in Workers => pc[s] \notin Holding,
         NEW place \in Places \ Holding, NEW t2, Goto(s, place, t2)
  PROVE  \A u \in Tasks, p \in Holding : HeldAt(u, p)' = HeldAt(u, p)
<1>1. \A v \in Workers : /\ v # s => task'[v] = task[v] /\ pc'[v] = pc[v]
                         /\ v = s => pc[v] \notin Holding /\ pc'[v] \notin Holding
  BY DEF Goto, IInv, TypeOK, Sessions
<1>2. ASSUME NEW u \in Tasks, NEW p \in Holding PROVE HeldAt(u, p)' <=> HeldAt(u, p)
  BY <1>1 DEF HeldAt
<1>3. ASSUME NEW u \in Tasks, NEW p \in Holding
      PROVE  HeldAt(u, p) \in BOOLEAN /\ HeldAt(u, p)' \in BOOLEAN
  BY Zenon DEF HeldAt
<1> QED
  BY <1>2, <1>3

\* The stage of a task depends on its row and on who holds it.
LEMMA SameStage ==
  ASSUME NEW u, (u \in table') <=> (u \in table),
         u \in table => /\ queued_tasks'[u].locked = queued_tasks[u].locked
                       /\ \/ queued_tasks'[u].status = queued_tasks[u].status
                          \/ /\ queued_tasks[u].status \notin Finished
                             /\ queued_tasks'[u].status \notin Finished,
         u \in table => \A p \in Holding : HeldAt(u, p)' = HeldAt(u, p)
  PROVE  StageOf(u)' = StageOf(u)
<1>1. CASE u \notin table
  BY <1>1 DEF StageOf
<1>2. CASE u \in table
  <2>1. /\ HeldAt(u, "lookup")' = HeldAt(u, "lookup")
        /\ HeldAt(u, "run")' = HeldAt(u, "run")
        /\ HeldAt(u, "completed")' = HeldAt(u, "completed")
        /\ HeldAt(u, "exited")' = HeldAt(u, "exited")
    BY <1>2 DEF Holding, Finished
  <2> QED
    BY <1>2, <2>1 DEF StageOf
<1> QED BY <1>1, <1>2

\* The stage of a claimed, unfinished row whose holder is at place p.
PlaceStage(p) == IF p = "lookup" THEN "taken"
                 ELSE IF p = "run" THEN "running"
                 ELSE IF p \in Finished THEN "ended" ELSE "dropped"

\* A worker that has claimed a row goes on, and writes nothing to the table.
LEMMA HolderMoves ==
  ASSUME IInv, NEW w \in Workers, NEW t \in Tasks, t = task[w], pc[w] \in Holding, NEW place \in Places,
         NEW t2 \in {task[w], NoTask}, Goto(w, place, t2),
         t2 = NoTask <=> place \notin Holding,
         UNCHANGED <<table, queued_tasks>>
  PROVE  Moves(t, PlaceStage(pc[w]), PlaceStage(place))
<1>1. /\ t \in table
      /\ \A u \in Tasks \ {t}, p \in Holding : HeldAt(u, p)' = HeldAt(u, p)
      /\ \A p \in Holding : HeldAt(t, p) = (pc[w] = p)
      /\ \A p \in Holding : HeldAt(t, p)' = (place = p)
  BY HeldAfter
<1>2. /\ queued_tasks[t].locked
      /\ queued_tasks[t].status \notin Finished
  BY <1>1 DEF IInv, TypeOK, LocksAgree, RunsAgree
<1>3. \A u \in Tasks \ {t} : StageOf(u)' = StageOf(u)
  BY <1>1, SameStage
<1>4. StageOf(t) = PlaceStage(pc[w])
  BY <1>1, <1>2 DEF StageOf, PlaceStage, Holding, Finished
<1>5. StageOf(t)' = PlaceStage(place)
  BY <1>1, <1>2 DEF StageOf, PlaceStage, Holding, Finished
<1> QED
  BY <1>2, <1>3, <1>4, <1>5 DEF Moves

\* get_next_task's UPDATE commits, and the worker sees the row or does not.
LEMMA ClaimMoves ==
  ASSUME IInv, NEW w \in Workers, NEW t \in Tasks, t = task[w], pc[w] = "update", Lock(t), UNCHANGED table,
         NEW place \in {"lookup", "select"}, NEW t2 \in {task[w], NoTask},
         Goto(w, place, t2), t2 = NoTask <=> place \notin Holding
  PROVE  Moves(t, "waiting", PlaceStage(place))
<1>1. /\ t \in table
      /\ \A u \in Tasks \ {t}, p \in Holding : HeldAt(u, p)' = HeldAt(u, p)
      /\ \A p \in Holding : HeldAt(t, p)' = (place = p)
  BY HeldAfter DEF Places
<1>2. /\ ~queued_tasks[t].locked /\ table \subseteq made
      /\ queued_tasks[t].status \notin Finished
  BY <1>1 DEF IInv, TypeOK, LocksAgree, FinishedIsOver
<1>3. /\ queued_tasks'[t].locked
      /\ queued_tasks'[t].status = queued_tasks[t].status
      /\ \A u \in made \ {t} : queued_tasks'[u] = queued_tasks[u]
  BY <1>1, LockEffect DEF IInv
<1>4. \A u \in Tasks \ {t} : StageOf(u)' = StageOf(u)
  BY <1>1, <1>2, <1>3, SameStage
<1>5. StageOf(t) = "waiting"
  BY <1>1, <1>2 DEF StageOf
<1>6. StageOf(t)' = PlaceStage(place)
  BY <1>1, <1>2, <1>3 DEF StageOf, PlaceStage, Holding, Finished
<1> QED
  BY <1>2, <1>4, <1>5, <1>6 DEF Moves

\* mark_background_task_as_* records how the run ended.
LEMMA MarkMoves ==
  ASSUME IInv, NEW w \in Workers, NEW t \in Tasks, t = task[w], Mark(w)
  PROVE  Moves(t, "ended", pc[w])
<1>1. /\ t \in table /\ pc[w] \in Finished
      /\ \A u \in Tasks \ {t}, p \in Holding : HeldAt(u, p)' = HeldAt(u, p)
      /\ \A p \in Holding : HeldAt(t, p) = (pc[w] = p)
  BY HeldAfter DEF Mark, Holding, Finished, Places
<1>2. /\ queued_tasks[t].locked /\ t \in made
      /\ queued_tasks[t].status \notin Finished /\ table \subseteq made
      /\ queued_tasks \in [made -> QueuedTask]
  BY <1>1 DEF IInv, TypeOK, LocksAgree, RunsAgree, Holding
<1>3. /\ queued_tasks' = [queued_tasks EXCEPT ![t] = [queued_tasks[t] EXCEPT !.status = pc[w]]]
      /\ table' = table
  BY DEF Mark
<1>4. /\ \A u \in made \ {t} : queued_tasks'[u] = queued_tasks[u]
      /\ queued_tasks'[t] = [queued_tasks[t] EXCEPT !.status = pc[w]]
  BY <1>2, <1>3
<1>5. queued_tasks'[t].locked /\ queued_tasks'[t].status = pc[w]
  BY <1>2, <1>4 DEF QueuedTask
<1>6. \A u \in Tasks \ {t} : StageOf(u)' = StageOf(u)
  BY <1>1, <1>2, <1>3, <1>4, SameStage
<1>7. StageOf(t) = "ended"
  BY <1>1, <1>2 DEF StageOf, Holding, Finished
<1>8. StageOf(t)' = pc[w]
  BY <1>1, <1>3, <1>5 DEF StageOf
<1> QED
  BY <1>2, <1>6, <1>7, <1>8 DEF Moves

---------------------------------------------------------------------------
LEMMA StepBoard == IInv /\ [Next]_vars => [Board!Next]_Job
<1> SUFFICES ASSUME IInv, [Next]_vars PROVE Board!Next \/ Job' = Job
  BY DEF Job
<1>0. ASSUME UNCHANGED <<table, queued_tasks>>,
             \A u \in Tasks, p \in Holding : HeldAt(u, p)' = HeldAt(u, p)
      PROVE  Job' = Job
  BY <1>0, SameStage, NoneMoves
<1>1. ASSUME NEW t \in Tasks, NEW f \in Functions, Build(t, f) PROVE Job' = Job
  <2>1. /\ UNCHANGED <<table, pc, task>>
        /\ \A u \in table : queued_tasks'[u] = queued_tasks[u]
    BY <1>1 DEF Build, New, workerVars, IInv, TypeOK
  <2>2. \A u \in Tasks, p \in Holding : HeldAt(u, p)' = HeldAt(u, p)
    BY <2>1 DEF HeldAt
  <2> QED
    BY <2>1, <2>2, SameStage, NoneMoves
<1>2. ASSUME NEW t \in Tasks, Insert(t) PROVE Board!Next
  <2>1. /\ t \in made \ table /\ table' = table \cup {t}
        /\ UNCHANGED <<queued_tasks, pc, task>>
    BY <1>2 DEF Insert, workerVars
  <2>2. \A u \in Tasks, p \in Holding : HeldAt(u, p)' = HeldAt(u, p)
    BY <2>1 DEF HeldAt
  <2>3. \A u \in Tasks \ {t} : StageOf(u)' = StageOf(u)
    BY <2>1, <2>2, SameStage
  <2>4. StageOf(t) = "absent" /\ StageOf(t)' = "waiting"
    BY <2>1 DEF StageOf, IInv, RunsAgree
  <2> QED
    BY <2>3, <2>4, BoardMove DEF Moves, Allowed
<1>3. ASSUME NEW w \in Workers,
             GetNextSelect(w) \/ GetNextRollback(w) \/ Wake(w) \/ Restart(w)
      PROVE  Job' = Job
  <2>1. /\ UNCHANGED <<table, queued_tasks>> /\ pc[w] \notin Holding
        /\ \E place \in Places \ Holding, t2 \in Tasks \cup {NoTask} : Goto(w, place, t2)
    BY <1>3 DEF GetNextSelect, GetNextRollback, Wake, Restart, Places, Holding,
                Finished, Oldest, Unlocked, IInv, TypeOK
  <2>2. \A u \in Tasks, p \in Holding : HeldAt(u, p)' = HeldAt(u, p)
    BY <2>1, HeldSame DEF Sessions
  <2> QED
    BY <2>1, <2>2, <1>0
<1>4. ASSUME NEW w \in Workers, GetNextCommit(w) \/ GetNextLost(w) PROVE Board!Next
  <2>1. PICK t \in Tasks : t = task[w]
    BY <1>4 DEF GetNextCommit, GetNextLost, IInv, TypeOK, PlacesAgree, Sessions
  <2>2. \E place \in {"lookup", "select"} : Moves(t, "waiting", PlaceStage(place))
    <3>1. CASE GetNextCommit(w)
      BY <3>1, <2>1, ConstantsAssumption, ClaimMoves DEF GetNextCommit, Holding
    <3>2. CASE GetNextLost(w)
      BY <3>2, <2>1, ConstantsAssumption, ClaimMoves DEF GetNextLost, Holding, Finished
    <3> QED BY <1>4, <3>1, <3>2
  <2> QED
    BY <2>1, <2>2, BoardMove DEF PlaceStage, Allowed, Finished
<1>5. ASSUME NEW w \in Workers, pc[w] \in Holding,
             Lookup(w) \/ (\E r \in Outcomes : HandlerEnds(w, r)) \/ MarkFails(w) \/ Crash(w)
      PROVE  Board!Next
  <2>1. PICK t \in Tasks : t = task[w] /\ t # NoTask
    BY <1>5, ConstantsAssumption DEF IInv, TypeOK, PlacesAgree, Sessions
  <2>2. CASE Lookup(w)
    <3>1. \E place \in {"run", "select"} : Moves(t, PlaceStage("lookup"), PlaceStage(place))
      BY <2>1, <2>2, HolderMoves, <1>5 DEF Lookup, Holding, Finished, Places
    <3> QED BY <2>1, <3>1, BoardMove DEF PlaceStage, Allowed, Finished
  <2>3. ASSUME NEW r \in Outcomes, HandlerEnds(w, r) PROVE Board!Next
    <3>1. \E place \in Finished : Moves(t, PlaceStage("run"), PlaceStage(place))
      BY <2>1, <2>3, HolderMoves, <1>5 DEF HandlerEnds, Holding, Finished, Places
    <3> QED BY <2>1, <3>1, BoardMove DEF PlaceStage, Allowed, Finished
  <2>4. CASE MarkFails(w) \/ Crash(w)
    <3>1. \E place \in {"select", "down"} : Moves(t, PlaceStage(pc[w]), PlaceStage(place))
      BY <2>1, <2>4, HolderMoves, <1>5 DEF MarkFails, Crash, Holding, Finished, Places
    <3>2. PlaceStage(pc[w]) \in {"taken", "running", "ended"}
      BY <1>5 DEF PlaceStage, Holding
    <3> QED BY <2>1, <3>1, <3>2, BoardMove DEF PlaceStage, Allowed, Finished
  <2> QED BY <1>5, <2>2, <2>3, <2>4
<1>6. ASSUME NEW w \in Workers, Mark(w) PROVE Board!Next
  <2>1. PICK t \in Tasks : t = task[w]
    BY <1>6 DEF Mark, IInv, TypeOK, PlacesAgree, Sessions, Holding
  <2>2. pc[w] \in Finished
    BY <1>6 DEF Mark
  <2> QED
    BY <1>6, <2>1, <2>2, MarkMoves, BoardMove DEF Allowed, Finished
<1>7. ASSUME NEW w \in Workers, pc[w] \notin Holding, Crash(w) PROVE Job' = Job
  BY <1>7, <1>0, HeldSame DEF Crash, Places, Holding, Finished, Sessions
<1>8. ASSUME NEW c \in Claimers, NEW f \in Functions, ClaimTaskSelect(c, f)
      PROVE  Job' = Job
  <2>1. /\ UNCHANGED <<table, queued_tasks>> /\ c \notin Workers
        /\ \E t \in Tasks : Goto(c, "update", t)
    BY <1>8, ConstantsAssumption DEF ClaimTaskSelect, Oldest, PendingOf, IInv, TypeOK
  <2> QED
    BY <2>1, <1>0, HeldSame DEF Sessions, Places, Holding, Finished
<1>9. ASSUME NEW c \in Claimers, ClaimTaskCommit(c) PROVE Job' = Job
  <2>1. /\ UNCHANGED table /\ c \notin Workers /\ c \in Sessions
        /\ Goto(c, "select", NoTask) /\ task[c] \in made
        /\ queued_tasks[task[c]].status = "pending" /\ table \subseteq made
        /\ queued_tasks \in [made -> QueuedTask]
        /\ queued_tasks' = [queued_tasks EXCEPT ![task[c]] =
                             [queued_tasks[task[c]] EXCEPT !.status = "in_progress"]]
    BY <1>9, ConstantsAssumption
    DEF ClaimTaskCommit, IInv, TypeOK, PlacesAgree, LocksAgree, Sessions
  <2>2. \A u \in Tasks, p \in Holding : HeldAt(u, p)' = HeldAt(u, p)
    BY <2>1, HeldSame DEF Places, Holding, Finished
  <2>3. /\ \A u \in made \ {task[c]} : queued_tasks'[u] = queued_tasks[u]
        /\ queued_tasks'[task[c]] = [queued_tasks[task[c]] EXCEPT !.status = "in_progress"]
    BY <2>1
  <2>4. /\ queued_tasks'[task[c]].locked = queued_tasks[task[c]].locked
        /\ queued_tasks'[task[c]].status = "in_progress"
    BY <2>1, <2>3 DEF QueuedTask
  <2> QED
    BY <2>1, <2>2, <2>3, <2>4, SameStage, NoneMoves DEF Finished
<1>10. CASE UNCHANGED vars \/ Tick
  <2>1. UNCHANGED <<table, queued_tasks, pc, task>>
    BY <1>10 DEF vars, Tick, workerVars
  <2> QED
    BY <2>1, <1>0 DEF HeldAt
<1> QED
  <2>1. \A w \in Workers : 
        Lookup(w) \/ (\E r \in Outcomes : HandlerEnds(w, r)) \/ MarkFails(w)
          => pc[w] \in Holding
    BY DEF Lookup, HandlerEnds, MarkFails, Holding
  <2> QED
    BY <1>1, <1>2, <1>3, <1>4, <1>5, <1>6, <1>7, <1>8, <1>9, <1>10, <2>1
    DEF Next, Enqueue, WorkerStep, WorkerFault, ClaimTask

\* Every behaviour of the queue is one of the at-most-once board.
THEOREM Refinement == Spec => ImplementsTaskBoard
  BY InitBoard, StepBoard, InductiveInv, PTL DEF Spec, ImplementsTaskBoard, Board!Spec, Job

-----------------------------------------------------------------------------
(* The queue among schedulers: ScheduledTasks.                             *)

RowDraft  == [kind : {"row"}, row : Row]
PostDraft == [kind : {"post"}, claim : Claim, task : Tasks, next : Times]

\* What each process holds, by where it is.
SRecords ==
  /\ draft \in [Schedulers -> {NoDraft} \cup RowDraft \cup PostDraft]
  /\ batch \in [Schedulers -> SUBSET Claim]
  /\ DOMAIN origin \subseteq table
  /\ \A i \in Schedulers :
       /\ spc[i] = "insert" => draft[i] \in RowDraft
       /\ spc[i] = "commit" => draft[i] \in PostDraft /\ draft[i].task \in made \ table
       /\ batch[i] # {} => spc[i] \in {"claim", "post", "commit"}
       /\ todo[i] # {} => spc[i] \in {"register", "insert"}
  /\ \A i, j \in Schedulers :
       spc[i] = "commit" /\ spc[j] = "commit" /\ draft[i].task = draft[j].task => i = j

\* x is a firing of f, if it is one at all.
IsFiring(f, x) == x # Never => x \in Cron[f]

\* The firing x of f comes after the firing y, unless a process read its clock as
\* short of y when the database's had reached it.
After(f, x, y) == x # Never => y < x \/ y \in behind[f]

\* What is claimed or was posted is due, and what is posted has a cron string.
ClocksAgree ==
  /\ \A i \in Schedulers :
       /\ \A c \in batch[i] : c.time_scheduled <= now
       /\ spc[i] = "commit" =>
            LET d == draft[i]
            IN  /\ d.claim.time_scheduled <= now
                /\ d.claim.function_name \notin BadCron
                /\ IsFiring(d.claim.function_name, d.next)
  /\ \A t \in DOMAIN origin : origin[t].instant <= now

\* The times of the rows, and of what will be a row or was one, are firings of
\* their own schedules, and a post moves its row on.
FiringsAgree ==
  /\ \A n \in DOMAIN scheduled_tasks :
       IsFiring(scheduled_tasks[n].function_name, scheduled_tasks[n].time_scheduled)
  /\ \A t \in DOMAIN origin : origin[t].instant \in Cron[origin[t].function_name]
  /\ \A i \in Schedulers :
       /\ spc[i] = "insert" =>
            /\ IsFiring(draft[i].row.function_name, draft[i].row.time_scheduled)
            /\ ~draft[i].row.locked
       /\ spc[i] = "commit" =>
            After(draft[i].claim.function_name, draft[i].next, draft[i].claim.time_scheduled)

\* A row on which a claim holds a row lock is one claim's, as it was selected.
ClaimsAgree ==
  /\ \A i \in Schedulers : spc[i] = "claim" =>
       \A c \in batch[i] : /\ c.id \in DOMAIN scheduled_tasks /\ c = ClaimOf(c.id)
                           /\ ~scheduled_tasks[c.id].locked
  /\ \A i, j \in Schedulers : spc[i] = "claim" /\ spc[j] = "claim" =>
       \A c \in batch[i], d \in batch[j] : c.id = d.id => i = j

Registering(i) == spc[i] \in {"register", "insert"}

\* One process registers each schedule once.
RegisteredOnce ==
  /\ \A i, j \in Schedulers : Registering(i) /\ Registering(j) => i = j
  /\ \A n, m \in DOMAIN scheduled_tasks :
       scheduled_tasks[n].function_name = scheduled_tasks[m].function_name => n = m
  /\ \A i \in Schedulers, n \in DOMAIN scheduled_tasks :
       /\ scheduled_tasks[n].function_name \notin todo[i]
       /\ spc[i] = "insert" => scheduled_tasks[n].function_name # draft[i].row.function_name
  /\ \A i \in Schedulers : spc[i] = "insert" => draft[i].row.function_name \notin todo[i]

\* c is the row it was made of, but for the lock.
OfRow(c) == /\ c.id \in DOMAIN scheduled_tasks /\ c = ClaimOf(c.id)
            /\ scheduled_tasks[c.id].locked

\* A claimed row is with one scheduler, and still what it was.
FlightsAgree ==
  /\ \A i \in Schedulers :
       /\ spc[i] \in {"post", "commit"} => \A c \in batch[i] : OfRow(c)
       /\ spc[i] = "commit" => /\ OfRow(draft[i].claim)
                               /\ draft[i].claim \notin batch[i]
  /\ \A i, j \in Schedulers, n \in DOMAIN scheduled_tasks :
       InFlight(i, n) /\ InFlight(j, n) => i = j

\* What was posted for f is before its next firing.
PostedBefore(f, x) ==
  \A t \in DOMAIN origin : origin[t].function_name = f => After(f, x, origin[t].instant)

PostsAgree ==
  /\ \A n \in DOMAIN scheduled_tasks :
       PostedBefore(scheduled_tasks[n].function_name, scheduled_tasks[n].time_scheduled)
  /\ \A i \in Schedulers :
       /\ spc[i] = "insert" =>
            PostedBefore(draft[i].row.function_name, draft[i].row.time_scheduled)
       /\ spc[i] = "commit" =>
            PostedBefore(draft[i].claim.function_name, draft[i].next)

\* Without a fault, a locked schedule is with a scheduler, or its cron is bad.
NoStranded ==
  faults = 0 => \A n \in DOMAIN scheduled_tasks :
    scheduled_tasks[n].locked => \/ scheduled_tasks[n].function_name \in BadCron
                                 \/ \E i \in Schedulers : InFlight(i, n)

\* The part of the invariant that holds as long as no migration ran beside a live
\* process.
Orderly == /\ RegisteredOnce /\ FiringsAgree /\ FlightsAgree
           /\ PostsAgree /\ OncePerFiring /\ NoStranded

\* The inductive invariant.
SInv == /\ IInv /\ STypeOK /\ SRecords /\ ClocksAgree /\ ClaimsAgree
        /\ ~overlapped => Orderly

---------------------------------------------------------------------------
\* A set of natural numbers that is not empty has a least element.
LEMMA LeastNumber ==
  ASSUME NEW S \in SUBSET Nat, S # {}
  PROVE  \E n \in S : \A m \in S : n <= m
<1> DEFINE R == OpToRel(<, Nat)
<1>1. IsWellFoundedOn(R, Nat)
  BY NatLessThanWellFounded
<1>2. \A x, y \in Nat : <<x, y>> \in R <=> x < y
  BY DEF OpToRel
<1> HIDE DEF R
<1>3. PICK n \in S : \A m \in S : ~(<<m, n>> \in R)
  BY <1>1, WFMin
<1>4. \A m \in S : n <= m
  <2> SUFFICES ASSUME NEW m \in S PROVE n <= m
    OBVIOUS
  <2>1. n \in Nat /\ m \in Nat /\ ~(m < n)
    BY <1>2, <1>3
  <2> QED BY <2>1
<1> QED BY <1>4

\* The next firing of a schedule is one of its instants, later than the clock's
\* reading, and there is none between the two.
LEMMA UpcomingIsNext ==
  ASSUME NEW f \in Functions, NEW clock \in Nat
  PROVE  /\ Upcoming(f, clock) \in Times
         /\ Upcoming(f, clock) # Never =>
              /\ Upcoming(f, clock) \in Nat /\ Upcoming(f, clock) \in Cron[f]
              /\ clock < Upcoming(f, clock)
              /\ \A y \in Cron[f] : y > clock => Upcoming(f, clock) <= y
<1> DEFINE later == {x \in Cron[f] : x > clock}
           least == CHOOSE x \in later : \A y \in later : x <= y
<1>1. later \subseteq Nat
  BY ScheduleAssumption
<1>2. CASE later = {}
  BY <1>2 DEF Upcoming, Times
<1>3. CASE later # {}
  <2>1. \E x \in later : \A y \in later : x <= y
    BY <1>1, <1>3, LeastNumber
  <2>2. least \in later /\ \A y \in later : least <= y
    BY <2>1
  <2>3. Upcoming(f, clock) = least
    BY <1>3 DEF Upcoming
  <2>4. least \in Nat /\ least \in Cron[f] /\ clock < least
    BY <1>1, <2>2
  <2>5. \A y \in Cron[f] : y > clock => least <= y
    BY <2>2
  <2> HIDE DEF least
  <2> QED BY <2>3, <2>4, <2>5 DEF Times
<1> QED BY <1>2, <1>3

\* What a step of a scheduler does to the place it is at.
LEMMA AtEffect ==
  ASSUME STypeOK, NEW i \in Schedulers, NEW from, NEW to \in Spots, At(i, from, to)
  PROVE  /\ spc[i] = from /\ spc'[i] = to /\ spc' \in [Schedulers -> Spots]
         /\ \A j \in Schedulers \ {i} : spc'[j] = spc[j]
  BY DEF STypeOK, At

\* The queue does not look at `faults`.
LEMMA FaultsOnly ==
  ASSUME IInv, UNCHANGED queueVars, faults' \in 0..MaxFaults
  PROVE  IInv'
  BY DEF queueVars, workerVars, history, IInv, TypeOK, PlacesAgree, LocksAgree, RunsAgree,
         ExclusiveClaim, AtMostOnce, FinishedIsOver

\* The queue's own steps leave the set of posted tasks alone, and the clock does
\* not go back.
LEMMA QueueStepEffect ==
  ASSUME SInv, QueueStep
  PROVE  /\ [Next]_vars /\ UNCHANGED <<made, table>> /\ faults <= faults'
         /\ now <= now' /\ now \in Nat /\ now' \in Nat
<1>1. [Next]_vars
  BY DEF QueueStep, Next
<1>2. UNCHANGED <<made, table>> /\ faults <= faults' /\ (now' = now \/ now' = now + 1)
  <2>1. faults \in Nat
    BY ConstantsAssumption DEF SInv, IInv, TypeOK
  <2>2. CASE Tick
    BY <2>1, <2>2 DEF Tick
  <2>3. ASSUME NEW w \in Workers, WorkerStep(w) PROVE UNCHANGED <<made, table, faults, now>>
    BY <2>3 DEF WorkerStep, GetNextSelect, GetNextCommit, Lookup, HandlerEnds, Mark, Wake, Restart
  <2>4. ASSUME NEW w \in Workers, WorkerFault(w)
        PROVE  UNCHANGED <<made, table, now>> /\ faults' = faults + 1
    BY <2>4 DEF WorkerFault, GetNextLost, GetNextRollback, MarkFails, Crash, Fault
  <2>5. ASSUME NEW c \in Claimers, ClaimTask(c) PROVE UNCHANGED <<made, table, faults, now>>
    BY <2>5 DEF ClaimTask, ClaimTaskSelect, ClaimTaskCommit
  <2> QED BY <2>1, <2>2, <2>3, <2>4, <2>5 DEF QueueStep
<1>3. now \in Nat
  BY ConstantsAssumption DEF SInv, STypeOK, TypeOK
<1> QED BY <1>1, <1>2, <1>3

\* A step of a scheduler is nothing to the queue, or it builds or inserts a task.
LEMMA QueueInv == ASSUME SInv, SNext PROVE IInv'
<1> USE ConstantsAssumption
<1>1. CASE QueueStep
  BY <1>1, QueueStepEffect, StepInv DEF SInv
<1>2. ASSUME NEW i \in Schedulers, NEW t \in Tasks, PostBegin(i, t) PROVE IInv'
  <2>1. PICK c \in batch[i], clock \in Readings : New(t, c.function_name, clock)
    BY <1>2 DEF PostBegin
  <2>2. c.function_name \in Functions
    BY DEF SInv, STypeOK, Claim
  <2>3. Build(t, c.function_name)
    BY <1>2, <2>1 DEF PostBegin, Build, New
  <2>4. Next
    BY <2>2, <2>3 DEF Next, Enqueue
  <2> QED BY <2>4, StepInv DEF SInv
<1>3. ASSUME NEW i \in Schedulers, PostCommit(i) PROVE IInv'
  <2>1. draft[i].task \in made \ table
    BY <1>3 DEF PostCommit, At, SInv, STypeOK
  <2>2. Insert(draft[i].task)
    BY <1>3, <2>1 DEF PostCommit, Insert
  <2>3. draft[i].task \in Tasks
    BY <2>1 DEF SInv, IInv, TypeOK
  <2>4. Next
    BY <2>2, <2>3 DEF Next, Enqueue
  <2> QED BY <2>4, StepInv DEF SInv
<1>4. CASE UNCHANGED queueVars /\ (UNCHANGED faults \/ Fault)
  <2>1. faults' \in 0..MaxFaults
    BY <1>4 DEF SInv, IInv, TypeOK, Fault
  <2> QED BY <1>4, <2>1, FaultsOnly DEF SInv
<1> QED
  BY <1>1, <1>2, <1>3, <1>4
  DEF SNext, SchedulerStep, SchedulerFault, Migrate, Join, Register, InsertSchedule,
      StartScheduler, ClaimSelect, ClaimCommit, ClaimLost, ClaimFails, SkipBadCron, PostFails,
      Sleep, WakeScheduler, CrashScheduler

\* The initial state satisfies the invariant.
LEMMA SInitInv == SInit => SInv
<1> SUFFICES ASSUME SInit PROVE SInv
  OBVIOUS
<1> USE ScheduleAssumption, ConstantsAssumption
<1>1. IInv
  BY InitInv DEF SInit
<1>2. scheduled_tasks = <<>> /\ DOMAIN scheduled_tasks = {} /\ DOMAIN origin = {}
  BY DEF SInit
<1>3. STypeOK
  <2>1. TypeOK
    BY <1>1 DEF IInv
  <2>2. behind \in [Functions -> SUBSET Nat] /\ nextId \in Nat \ {0}
    BY DEF SInit
  <2>3. overlapped \in BOOLEAN
    BY Zenon DEF SInit
  <2>4. spc \in [Schedulers -> Spots] /\ todo \in [Schedulers -> SUBSET Functions]
    BY DEF SInit, Spots
  <2>5. \A i \in Schedulers : batch[i] = {} /\ spc[i] = "down"
    BY DEF SInit
  <2> QED BY <1>2, <2>1, <2>2, <2>3, <2>4, <2>5 DEF STypeOK
<1>4. SRecords /\ ClocksAgree /\ ClaimsAgree
  BY <1>2 DEF SInit, SRecords, ClocksAgree, ClaimsAgree
<1>5. RegisteredOnce /\ FiringsAgree /\ FlightsAgree /\ PostsAgree /\ OncePerFiring /\ NoStranded
  BY <1>2 DEF SInit, RegisteredOnce, Registering, FiringsAgree, FlightsAgree, PostsAgree,
              OncePerFiring, NoStranded
<1> QED BY <1>1, <1>3, <1>4, <1>5 DEF SInv, Orderly

---------------------------------------------------------------------------
\* Firings that come after others still do: `behind` only grows.
LEMMA AfterKept ==
  ASSUME NEW f \in Functions, NEW x, NEW y, After(f, x, y), behind[f] \subseteq behind'[f]
  PROVE  After(f, x, y)'
  BY DEF After

LEMMA PostedKept ==
  ASSUME NEW f \in Functions, NEW x, PostedBefore(f, x), UNCHANGED origin,
         behind[f] \subseteq behind'[f]
  PROVE  PostedBefore(f, x)'
  BY DEF PostedBefore, After

\* The next firing computed from a reading of a process's clock comes after every
\* one the database's clock has reached.
LEMMA ReadEffect ==
  ASSUME STypeOK, NEW f \in Functions, NEW clock \in Readings, Read(f, clock)
  PROVE  /\ Upcoming(f, clock) \in Times /\ IsFiring(f, Upcoming(f, clock))
         /\ behind' \in [Functions -> SUBSET Nat]
         /\ \A g \in Functions : behind[g] \subseteq behind'[g]
         /\ \A y \in Cron[f] : y <= now => After(f, Upcoming(f, clock), y)'
<1> DEFINE passed == {x \in Cron[f] : clock < x /\ x <= now}
           x == Upcoming(f, clock)
<1>1. clock \in Nat /\ Cron[f] \subseteq Nat
  BY ConstantsAssumption, ScheduleAssumption DEF Readings
<1>2. /\ x \in Times
      /\ x # Never => x \in Nat /\ x \in Cron[f] /\ clock < x
  BY <1>1, UpcomingIsNext
<1>3. behind' = [behind EXCEPT ![f] = behind[f] \cup passed] /\ behind \in [Functions -> SUBSET Nat]
  BY DEF Read, STypeOK
<1>4. passed \in SUBSET Nat
  BY <1>1
<1>5. \A y \in Cron[f] : y <= now => y <= clock \/ y \in passed
  BY <1>1
<1> HIDE DEF passed, x
<1>6. behind' \in [Functions -> SUBSET Nat] /\ behind'[f] = behind[f] \cup passed
  BY <1>3, <1>4
<1>7. \A g \in Functions : behind[g] \subseteq behind'[g]
  BY <1>3, <1>6
<1>8. ASSUME NEW y \in Cron[f], y <= now PROVE x # Never => y < x \/ y \in behind'[f]
  <2>1. CASE y <= clock
    BY <1>1, <1>2, <2>1
  <2>2. CASE y \in passed
    BY <1>6, <2>2
  <2> QED BY <1>5, <1>8, <2>1, <2>2
<1> QED BY <1>2, <1>6, <1>7, <1>8 DEF x, IsFiring, After

\* A step of the queue preserves the invariant.
LEMMA QueueStepInv == ASSUME SInv, IInv', QueueStep PROVE SInv'
<1>1. /\ UNCHANGED <<made, table>> /\ faults <= faults' /\ now <= now' /\ now \in Nat /\ now' \in Nat
  BY QueueStepEffect
<1>2. /\ UNCHANGED <<scheduled_tasks, nextId, spc, todo, draft, batch, origin, behind>>
      /\ faults \in Nat /\ faults' \in Nat
  BY ConstantsAssumption DEF QueueStep, scheduleVars, loopVars, SInv, IInv, TypeOK
<1>3. overlapped' = overlapped
  BY Zenon DEF QueueStep, scheduleVars
<1>4. STypeOK'
  BY <1>1, <1>2, <1>3 DEF SInv, STypeOK, IInv
<1>5. SRecords' /\ ClaimsAgree'
  BY <1>1, <1>2 DEF SInv, SRecords, ClaimsAgree, ClaimOf
<1>6. ClocksAgree'
  <2>1. \A i \in Schedulers : \A c \in batch[i] : c.time_scheduled <= now'
    BY <1>1 DEF SInv, STypeOK, Claim, ClocksAgree
  <2>2. ASSUME NEW i \in Schedulers, spc[i] = "commit"
        PROVE  draft[i].claim.time_scheduled <= now'
    <3>1. draft[i].claim \in Claim
      BY <2>2 DEF SInv, SRecords, PostDraft
    <3> QED BY <1>1, <2>2, <3>1 DEF SInv, ClocksAgree, Claim
  <2>3. \A t \in DOMAIN origin : origin[t].instant <= now'
    BY <1>1 DEF SInv, STypeOK, Firing, ClocksAgree
  <2> QED BY <1>2, <2>1, <2>2, <2>3 DEF SInv, ClocksAgree, IsFiring
<1>7. ASSUME Orderly PROVE Orderly'
  <2>1. RegisteredOnce' /\ FlightsAgree' /\ PostsAgree' /\ OncePerFiring'
    BY <1>2, <1>3, <1>7
    DEF Orderly, RegisteredOnce, Registering, FlightsAgree, OfRow, ClaimOf, InFlight, PostsAgree,
        PostedBefore, After, OncePerFiring, SameFiring
  <2>2. FiringsAgree'
    BY <1>2, <1>7 DEF Orderly, FiringsAgree, IsFiring, After
  <2>3. NoStranded'
    BY <1>1, <1>2, <1>7 DEF Orderly, NoStranded, InFlight
  <2> QED BY <2>1, <2>2, <2>3 DEF Orderly
<1> QED BY <1>3, <1>4, <1>5, <1>6, <1>7 DEF SInv

\* A step of a scheduler that ends with nothing in hand, none of it a claimed
\* row, or by a fault.
LEMMA QuietInv ==
  ASSUME SInv, IInv', NEW i \in Schedulers, NEW to \in {"down", "poll", "asleep"},
         spc' = [spc EXCEPT ![i] = to],
         todo' = [todo EXCEPT ![i] = {}],
         batch' = [batch EXCEPT ![i] = {}],
         draft' = draft \/ draft' = [draft EXCEPT ![i] = NoDraft],
         UNCHANGED <<now, made, table, scheduled_tasks, nextId, origin, behind>>,
         overlapped' = overlapped,
         \/ faults' = faults /\ \A n \in DOMAIN scheduled_tasks : ~InFlight(i, n)
         \/ faults' = faults + 1
  PROVE  SInv'
<1>1. /\ spc' \in [Schedulers -> Spots] /\ spc'[i] = to
      /\ batch' \in [Schedulers -> SUBSET Claim] /\ batch'[i] = {}
      /\ todo' \in [Schedulers -> SUBSET Functions] /\ todo'[i] = {}
      /\ draft' \in [Schedulers -> {NoDraft} \cup RowDraft \cup PostDraft]
      /\ \A j \in Schedulers \ {i} : /\ spc'[j] = spc[j] /\ batch'[j] = batch[j]
                                     /\ todo'[j] = todo[j] /\ draft'[j] = draft[j]
  BY DEF SInv, STypeOK, SRecords, Spots
<1>2. STypeOK'
  BY <1>1 DEF SInv, STypeOK, IInv
<1>3. SRecords'
  BY <1>1 DEF SInv, SRecords
<1>4. ClocksAgree'
  BY <1>1 DEF SInv, ClocksAgree, IsFiring, After
<1>5. ClaimsAgree'
  BY <1>1 DEF SInv, ClaimsAgree, ClaimOf
<1>6. ASSUME Orderly PROVE Orderly'
  <2>1. RegisteredOnce'
    BY <1>1, <1>6 DEF Orderly, RegisteredOnce, Registering
  <2>2. FiringsAgree'
    BY <1>1, <1>6 DEF Orderly, FiringsAgree, IsFiring, After
  <2>3. \A n : ~InFlight(i, n)'
    BY <1>1 DEF InFlight
  <2>4. \A j \in Schedulers \ {i} : \A n : InFlight(j, n)' = InFlight(j, n)
    BY <1>1 DEF InFlight
  <2>5. FlightsAgree'
    BY <1>1, <1>6, <2>3, <2>4 DEF Orderly, FlightsAgree, OfRow, ClaimOf
  <2>6. PostsAgree'
    BY <1>1, <1>6 DEF Orderly, PostsAgree, PostedBefore, After
  <2>7. OncePerFiring'
    BY <1>6 DEF Orderly, OncePerFiring, SameFiring
  <2>8. NoStranded'
    <3>1. faults \in Nat
      BY ConstantsAssumption DEF SInv, IInv, TypeOK
    <3>2. CASE faults' = faults + 1
      BY <3>1, <3>2 DEF NoStranded
    <3>3. CASE faults' = faults /\ \A n \in DOMAIN scheduled_tasks : ~InFlight(i, n)
      BY <1>6, <2>4, <3>3 DEF Orderly, NoStranded
    <3> QED BY <3>2, <3>3
  <2> QED BY <2>1, <2>2, <2>5, <2>6, <2>7, <2>8 DEF Orderly
<1> QED BY <1>2, <1>3, <1>4, <1>5, <1>6 DEF SInv

\* The quiet steps of a scheduler.
LEMMA QuietStepsInv ==
  ASSUME SInv, IInv', NEW i \in Schedulers,
         \/ Join(i) \/ StartScheduler(i) \/ Sleep(i) \/ WakeScheduler(i)
         \/ ClaimFails(i) \/ CrashScheduler(i)
  PROVE  SInv'
<1>1. /\ todo \in [Schedulers -> SUBSET Functions] /\ batch \in [Schedulers -> SUBSET Claim]
      /\ batch[i] # {} => spc[i] \in {"claim", "post", "commit"}
      /\ todo[i] # {} => spc[i] \in {"register", "insert"}
  BY DEF SInv, STypeOK, SRecords
<1>2. overlapped' = overlapped
  BY Zenon DEF Join, StartScheduler, Sleep, WakeScheduler, ClaimFails, CrashScheduler
<1>3. ASSUME Join(i) \/ StartScheduler(i) \/ Sleep(i) \/ WakeScheduler(i) PROVE SInv'
  <2>1. PICK to \in {"down", "poll", "asleep"} : spc' = [spc EXCEPT ![i] = to]
    BY <1>3 DEF Join, StartScheduler, Sleep, WakeScheduler, At
  <2>2. /\ UNCHANGED <<queueVars, faults, scheduled_tasks, nextId, todo, draft, batch, origin, behind>>
        /\ todo[i] = {} /\ batch[i] = {}
    BY <1>1, <1>3 DEF Join, StartScheduler, Sleep, WakeScheduler, At
  <2>3. todo' = [todo EXCEPT ![i] = {}] /\ batch' = [batch EXCEPT ![i] = {}]
    BY <1>1, <2>2
  <2>4. \A n : ~InFlight(i, n)
    BY <1>3, <2>2 DEF InFlight, Join, StartScheduler, Sleep, WakeScheduler, At
  <2>5. UNCHANGED <<now, made, table>>
    BY <2>2 DEF queueVars
  <2> QED BY <1>2, <2>1, <2>2, <2>3, <2>4, <2>5, QuietInv
<1>4. CASE ClaimFails(i)
  <2>1. todo[i] = {}
    BY <1>1, <1>4 DEF ClaimFails, At
  <2>2. todo' = [todo EXCEPT ![i] = {}]
    BY <1>1, <1>4, <2>1 DEF ClaimFails
  <2>3. /\ UNCHANGED <<now, made, table, scheduled_tasks, nextId, origin, behind, draft>>
        /\ spc' = [spc EXCEPT ![i] = "asleep"] /\ batch' = [batch EXCEPT ![i] = {}]
        /\ faults' = faults + 1
    BY <1>4 DEF ClaimFails, At, Fault, queueVars
  <2> QED BY <1>2, <2>2, <2>3, QuietInv
<1>5. CASE CrashScheduler(i)
  <2>1. /\ UNCHANGED <<now, made, table, scheduled_tasks, nextId, origin, behind>>
        /\ spc' = [spc EXCEPT ![i] = "down"] /\ batch' = [batch EXCEPT ![i] = {}]
        /\ todo' = [todo EXCEPT ![i] = {}] /\ draft' = [draft EXCEPT ![i] = NoDraft]
        /\ faults' = faults + 1
    BY <1>5 DEF CrashScheduler, Fault, queueVars
  <2> QED BY <1>2, <2>1, QuietInv
<1> QED BY <1>3, <1>4, <1>5

\* A migration that runs beside no live process leaves nothing of the old table.
LEMMA MigrateInv ==
  ASSUME SInv, IInv', NEW i \in Schedulers, Migrate(i) PROVE SInv'
<1>1. /\ spc' \in [Schedulers -> Spots] /\ spc[i] = "down" /\ spc'[i] = "register"
      /\ \A j \in Schedulers \ {i} : spc'[j] = spc[j]
      /\ \A j \in Schedulers : spc'[j] # "claim"
  BY DEF Migrate, At, SInv, STypeOK, Spots
<1>2. /\ UNCHANGED <<now, made, table, faults, draft, batch, origin, behind>>
      /\ DOMAIN scheduled_tasks' = {} /\ nextId' = 1
      /\ todo' = [todo EXCEPT ![i] = Functions]
  BY DEF Migrate, queueVars
<1>3. overlapped' \in BOOLEAN /\ (overlapped => overlapped')
  BY Zenon DEF Migrate, SInv, STypeOK
<1>4. ASSUME ~overlapped' PROVE ~overlapped /\ \A j \in Schedulers \ {i} : spc[j] = "down"
  BY <1>4, Zenon DEF Migrate
<1>5. todo' \in [Schedulers -> SUBSET Functions] /\ \A j \in Schedulers \ {i} : todo'[j] = todo[j]
  BY <1>2 DEF SInv, STypeOK
<1>6. STypeOK'
  BY <1>1, <1>2, <1>3, <1>5 DEF SInv, STypeOK, IInv
<1>7. SRecords'
  BY <1>1, <1>2, <1>5 DEF SInv, SRecords
<1>8. ClocksAgree' /\ ClaimsAgree'
  BY <1>1, <1>2 DEF SInv, ClocksAgree, ClaimsAgree, IsFiring, After
<1>9. ASSUME ~overlapped' PROVE Orderly'
  <2>1. ~overlapped /\ (\A j \in Schedulers \ {i} : spc'[j] = "down")
    BY <1>1, <1>4, <1>9
  <2>2. RegisteredOnce' /\ FiringsAgree' /\ FlightsAgree' /\ PostsAgree' /\ NoStranded'
    BY <1>1, <1>2, <2>1
    DEF RegisteredOnce, Registering, FiringsAgree, FlightsAgree, PostsAgree, NoStranded, SInv, Orderly
  <2>3. OncePerFiring'
    BY <1>2, <2>1 DEF SInv, Orderly, OncePerFiring, SameFiring
  <2> QED BY <2>2, <2>3 DEF Orderly
<1> QED BY <1>6, <1>7, <1>8, <1>9 DEF SInv

\* A schedule is built with its next firing, which comes after all that was posted.
LEMMA RegisterInv ==
  ASSUME SInv, IInv', NEW i \in Schedulers, NEW f \in Functions, NEW clock \in Readings,
         Register(i, f, clock)
  PROVE  SInv'
<1> DEFINE first == Upcoming(f, clock)
           row == [function_name |-> f, time_scheduled |-> first, locked |-> FALSE]
<1>1. /\ UNCHANGED <<now, made, table, faults, scheduled_tasks, nextId, batch, origin>>
      /\ f \in todo[i] /\ todo' = [todo EXCEPT ![i] = @ \ {f}]
      /\ spc[i] = "register" /\ Read(f, clock)
  BY DEF Register, At, queueVars
<1>2. overlapped' = overlapped
  BY Zenon DEF Register
<1>3. /\ todo' \in [Schedulers -> SUBSET Functions] /\ todo'[i] = todo[i] \ {f}
      /\ \A j \in Schedulers \ {i} : todo'[j] = todo[j]
  BY <1>1 DEF SInv, STypeOK
<1>4. /\ first \in Times /\ IsFiring(f, first)
      /\ behind' \in [Functions -> SUBSET Nat]
      /\ \A g \in Functions : behind[g] \subseteq behind'[g]
      /\ \A y \in Cron[f] : y <= now => After(f, first, y)'
  BY <1>1, ReadEffect DEF SInv
<1> HIDE DEF first
\* What is kept as the reading is noted.
<1>5. ASSUME Orderly
      PROVE  /\ \A n \in DOMAIN scheduled_tasks :
                  PostedBefore(scheduled_tasks[n].function_name, scheduled_tasks[n].time_scheduled)'
             /\ \A j \in Schedulers :
                  /\ spc[j] = "insert" =>
                       PostedBefore(draft[j].row.function_name, draft[j].row.time_scheduled)
                  /\ spc[j] = "commit" =>
                       LET d == draft[j]
                           g == d.claim.function_name
                       IN  /\ g \in Functions
                           /\ PostedBefore(g, d.next) /\ After(g, d.next, d.claim.time_scheduled)
             /\ OncePerFiring'
  <2>1. \A n \in DOMAIN scheduled_tasks :
          PostedBefore(scheduled_tasks[n].function_name, scheduled_tasks[n].time_scheduled)'
    BY <1>1, <1>4, <1>5, PostedKept DEF Orderly, PostsAgree, SInv, STypeOK, Row
  <2>2. \A j \in Schedulers : spc[j] = "commit" => draft[j].claim.function_name \in Functions
    BY DEF SInv, STypeOK, Claim
  <2>3. OncePerFiring'
    BY <1>1, <1>2, <1>4, <1>5 DEF Orderly, OncePerFiring, SameFiring, SInv, STypeOK, Firing
  <2> QED BY <1>5, <2>1, <2>2, <2>3 DEF Orderly, PostsAgree, FiringsAgree
<1>6. \A g \in Functions : \A x : PostedBefore(g, x) => PostedBefore(g, x)'
  BY <1>1, <1>4, PostedKept
<1>7. \A g \in Functions : \A x, y : After(g, x, y) => After(g, x, y)'
  BY <1>4, AfterKept
<1>8. \A j \in Schedulers : spc[j] = "insert" => draft[j].row.function_name \in Functions
  BY DEF SInv, STypeOK, Row
<1>9. CASE first = Never
  <2>1. UNCHANGED <<spc, draft>>
    BY <1>9 DEF Register, At, SInv, STypeOK, first
  <2>2. STypeOK'
    BY <1>1, <1>2, <1>3, <1>4, <2>1 DEF SInv, STypeOK, IInv
  <2>3. SRecords'
    BY <1>1, <1>3, <2>1 DEF SInv, SRecords
  <2>4. ClocksAgree' /\ ClaimsAgree'
    BY <1>1, <2>1 DEF SInv, ClocksAgree, ClaimsAgree, ClaimOf, IsFiring
  <2>5. ASSUME Orderly PROVE Orderly'
    <3>1. RegisteredOnce'
      BY <1>1, <1>3, <2>1, <2>5 DEF Orderly, RegisteredOnce, Registering
    <3>2. FlightsAgree' /\ NoStranded'
      BY <1>1, <1>2, <2>1, <2>5 DEF Orderly, FlightsAgree, InFlight, OfRow, ClaimOf, NoStranded
    <3>3. \A j \in Schedulers : spc[j] = "commit" =>
            After(draft[j].claim.function_name, draft[j].next, draft[j].claim.time_scheduled)'
      BY <1>1, <1>5, <1>7, <2>1, <2>5 DEF After
    <3>4. FiringsAgree'
      BY <1>1, <2>1, <2>5, <3>3 DEF Orderly, FiringsAgree, IsFiring, After
    <3>5. \A j \in Schedulers :
            /\ spc[j] = "insert" =>
                 PostedBefore(draft[j].row.function_name, draft[j].row.time_scheduled)'
            /\ spc[j] = "commit" =>
                 PostedBefore(draft[j].claim.function_name, draft[j].next)'
      BY <1>5, <1>6, <1>8, <2>1, <2>5 DEF PostedBefore, After
    <3>6. PostsAgree'
      BY <1>1, <1>5, <2>1, <2>5, <3>5 DEF PostsAgree, PostedBefore, After
    <3> QED BY <1>5, <2>5, <3>1, <3>2, <3>4, <3>6 DEF Orderly
  <2> QED BY <1>2, <2>2, <2>3, <2>4, <2>5 DEF SInv
<1>10. CASE first # Never
  <2>1. row \in Row /\ row.function_name = f /\ row.time_scheduled = first /\ ~row.locked
    BY <1>4 DEF Row
  <2> DEFINE d == [kind |-> "row", row |-> row]
  <2>2. d \in RowDraft /\ d.row = row
    BY <2>1 DEF RowDraft
  <2>3. At(i, "register", "insert") /\ draft' = [draft EXCEPT ![i] = d]
    BY <1>10 DEF Register, first
  <2> HIDE DEF row, d
  <2>4. /\ spc' \in [Schedulers -> Spots] /\ spc'[i] = "insert"
        /\ \A j \in Schedulers \ {i} : spc'[j] = spc[j]
    BY <2>3, AtEffect DEF SInv, Spots
  <2>5. /\ draft' \in [Schedulers -> {NoDraft} \cup RowDraft \cup PostDraft] /\ draft'[i] = d
        /\ \A j \in Schedulers \ {i} : draft'[j] = draft[j]
    BY <2>2, <2>3 DEF SInv, SRecords
  <2>6. STypeOK'
    BY <1>1, <1>2, <1>3, <1>4, <2>1, <2>2, <2>4, <2>5 DEF SInv, STypeOK, IInv
  <2>7. SRecords'
    BY <1>1, <1>3, <2>2, <2>4, <2>5 DEF SInv, SRecords
  <2>8. ClocksAgree' /\ ClaimsAgree'
    BY <1>1, <2>4, <2>5 DEF SInv, ClocksAgree, ClaimsAgree, ClaimOf, IsFiring
  <2>9. ASSUME Orderly PROVE Orderly'
    <3>1. RegisteredOnce'
      <4>1. \A n \in DOMAIN scheduled_tasks : scheduled_tasks[n].function_name # f
        BY <1>1, <2>9 DEF Orderly, RegisteredOnce
      <4> QED BY <1>1, <1>3, <2>1, <2>2, <2>4, <2>5, <2>9, <4>1
              DEF Orderly, RegisteredOnce, Registering
    <3>2. \A j \in Schedulers, n \in DOMAIN scheduled_tasks : InFlight(j, n)' = InFlight(j, n)
      BY <1>1, <2>4, <2>5 DEF InFlight
    <3>3. FlightsAgree' /\ NoStranded'
      BY <1>1, <2>4, <2>5, <2>9, <3>2
      DEF Orderly, FlightsAgree, OfRow, ClaimOf, NoStranded
    <3>4. PostedBefore(f, first)'
      BY <1>1, <1>4, <2>9 DEF Orderly, FiringsAgree, SInv, ClocksAgree, PostedBefore, After
    <3>5. FiringsAgree'
      <4>1. ASSUME NEW j \in Schedulers, spc'[j] = "commit"
            PROVE  After(draft[j].claim.function_name, draft[j].next,
                         draft[j].claim.time_scheduled)'
        <5>1. spc[j] = "commit" /\ draft'[j] = draft[j]
          BY <2>4, <2>5, <4>1
        <5> QED BY <1>5, <1>7, <2>9, <5>1 DEF After
      <4> QED BY <1>1, <1>4, <2>1, <2>2, <2>4, <2>5, <2>9, <4>1
              DEF Orderly, FiringsAgree, IsFiring, After
    <3>6. PostsAgree'
      <4>1. ASSUME NEW j \in Schedulers, j # i
            PROVE  /\ spc'[j] = "insert" =>
                        PostedBefore(draft[j].row.function_name, draft[j].row.time_scheduled)'
                   /\ spc'[j] = "commit" =>
                        PostedBefore(draft[j].claim.function_name, draft[j].next)'
        <5>1. spc'[j] = spc[j] /\ draft'[j] = draft[j]
          BY <2>4, <2>5, <4>1
        <5> QED BY <1>5, <1>6, <1>8, <2>9, <5>1 DEF PostedBefore, After
      <4> QED BY <1>1, <1>5, <2>1, <2>2, <2>4, <2>5, <2>9, <3>4, <4>1
              DEF PostsAgree, PostedBefore, After
    <3> QED BY <1>5, <2>9, <3>1, <3>3, <3>5, <3>6 DEF Orderly
  <2> QED BY <1>2, <2>6, <2>7, <2>8, <2>9 DEF SInv
<1> QED BY <1>9, <1>10

\* The new row has an id no row has had since the table was made.
LEMMA InsertScheduleInv ==
  ASSUME SInv, IInv', NEW i \in Schedulers, InsertSchedule(i) PROVE SInv'
<1>1. /\ UNCHANGED <<now, made, table, faults, todo, batch, origin, behind>>
      /\ nextId' = nextId + 1 /\ draft' = [draft EXCEPT ![i] = NoDraft]
      /\ DOMAIN scheduled_tasks' = DOMAIN scheduled_tasks \cup {nextId}
      /\ scheduled_tasks'[nextId] = draft[i].row
      /\ \A n \in DOMAIN scheduled_tasks : n # nextId => scheduled_tasks'[n] = scheduled_tasks[n]
      /\ spc[i] = "insert" /\ At(i, "insert", "register")
  BY DEF InsertSchedule, At, queueVars
<1>2. overlapped' = overlapped
  BY Zenon DEF InsertSchedule
<1>3. nextId \in Nat \ {0} /\ nextId \notin DOMAIN scheduled_tasks
  BY DEF SInv, STypeOK
<1>4. \A n \in DOMAIN scheduled_tasks : scheduled_tasks'[n] = scheduled_tasks[n]
  BY <1>1, <1>3
<1>5. /\ spc' \in [Schedulers -> Spots] /\ spc'[i] = "register"
      /\ \A j \in Schedulers \ {i} : spc'[j] = spc[j]
  BY <1>1, AtEffect DEF SInv, Spots
<1>6. /\ draft' \in [Schedulers -> {NoDraft} \cup RowDraft \cup PostDraft] /\ draft'[i] = NoDraft
      /\ \A j \in Schedulers \ {i} : draft'[j] = draft[j]
  BY <1>1 DEF SInv, SRecords
<1>7. STypeOK'
  <2>1. DOMAIN scheduled_tasks' \subseteq 1..(nextId' - 1) /\ nextId' \in Nat \ {0}
    BY <1>1, <1>3 DEF SInv, STypeOK
  <2>2. \A n \in DOMAIN scheduled_tasks' : scheduled_tasks'[n] \in Row
    BY <1>1, <1>4 DEF SInv, STypeOK
  <2>3. overlapped' \in BOOLEAN
    BY <1>2, Zenon DEF SInv, STypeOK
  <2> QED BY <1>1, <1>5, <1>6, <2>1, <2>2, <2>3 DEF SInv, STypeOK, IInv
<1>8. SRecords'
  BY <1>1, <1>5, <1>6 DEF SInv, SRecords
<1>9. ClocksAgree'
  BY <1>1, <1>5, <1>6 DEF SInv, ClocksAgree, IsFiring, After
<1>10. ClaimsAgree'
  BY <1>1, <1>4, <1>5 DEF SInv, ClaimsAgree, ClaimOf
<1>11. ASSUME Orderly PROVE Orderly'
  <2>1. RegisteredOnce'
    <3>1. \A n \in DOMAIN scheduled_tasks :
            scheduled_tasks[n].function_name # draft[i].row.function_name
      BY <1>1, <1>11 DEF Orderly, RegisteredOnce
    <3>2. \A j \in Schedulers \ {i} : ~Registering(j)
      BY <1>1, <1>11 DEF Orderly, RegisteredOnce, Registering
    <3>3. \A j \in Schedulers \ {i} : todo[j] = {}
      BY <3>2 DEF Registering, SInv, SRecords
    <3>4. draft[i].row.function_name \notin todo[i]
      BY <1>1, <1>11 DEF Orderly, RegisteredOnce
    <3>5. \A n, m \in DOMAIN scheduled_tasks' :
            scheduled_tasks'[n].function_name = scheduled_tasks'[m].function_name => n = m
      BY <1>1, <1>4, <1>11, <3>1 DEF Orderly, RegisteredOnce
    <3>6. \A j \in Schedulers, n \in DOMAIN scheduled_tasks' :
            scheduled_tasks'[n].function_name \notin todo'[j]
      BY <1>1, <1>4, <1>11, <3>3, <3>4 DEF Orderly, RegisteredOnce
    <3> QED BY <1>5, <1>6, <3>2, <3>5, <3>6 DEF RegisteredOnce, Registering
  <2>2. FiringsAgree'
    BY <1>1, <1>4, <1>5, <1>6, <1>11 DEF Orderly, FiringsAgree, IsFiring, After
  <2>3. ~draft[i].row.locked
    BY <1>1, <1>11 DEF Orderly, FiringsAgree
  <2>4. \A j \in Schedulers : \A n : InFlight(j, n)' = InFlight(j, n)
    BY <1>1, <1>5, <1>6 DEF InFlight
  <2>5. \A j \in Schedulers : \A n : InFlight(j, n) => n \in DOMAIN scheduled_tasks
    BY <1>11 DEF Orderly, FlightsAgree, InFlight, OfRow
  <2>6. FlightsAgree'
    <3>1. \A c : OfRow(c) => OfRow(c)'
      BY <1>1, <1>4 DEF OfRow, ClaimOf
    <3>2. \A j \in Schedulers :
            /\ spc'[j] \in {"post", "commit"} => \A c \in batch'[j] : OfRow(c)'
            /\ spc'[j] = "commit" => OfRow(draft[j].claim)' /\ draft'[j].claim \notin batch'[j]
      BY <1>1, <1>5, <1>6, <1>11, <3>1 DEF Orderly, FlightsAgree
    <3>3. \A j, k \in Schedulers : \A n : InFlight(j, n) /\ InFlight(k, n) => j = k
      BY <1>11, <2>5 DEF Orderly, FlightsAgree
    <3> QED BY <2>4, <3>2, <3>3 DEF FlightsAgree
  <2>7. PostsAgree'
    <3>1. \A f, x : PostedBefore(f, x)' = PostedBefore(f, x)
      BY <1>1 DEF PostedBefore, After
    <3> QED BY <1>1, <1>4, <1>5, <1>6, <1>11, <3>1 DEF Orderly, PostsAgree
  <2>8. OncePerFiring'
    BY <1>1, <1>2, <1>11 DEF Orderly, OncePerFiring, SameFiring
  <2>9. NoStranded'
    BY <1>1, <1>4, <1>11, <2>3, <2>4 DEF Orderly, NoStranded
  <2> QED BY <2>1, <2>2, <2>6, <2>7, <2>8, <2>9 DEF Orderly
<1> QED BY <1>2, <1>7, <1>8, <1>9, <1>10, <1>11 DEF SInv

---------------------------------------------------------------------------
\* A claim selects rows on which no other claim holds a row lock.
LEMMA ClaimSelectInv ==
  ASSUME SInv, IInv', NEW i \in Schedulers, ClaimSelect(i) PROVE SInv'
<1> DEFINE claims == {ClaimOf(n) : n \in Due}
<1>1. /\ UNCHANGED <<now, made, table, faults, scheduled_tasks, nextId, todo, draft, origin, behind>>
      /\ batch' = [batch EXCEPT ![i] = claims]
      /\ spc[i] = "poll" /\ At(i, "poll", "claim")
  BY DEF ClaimSelect, At, queueVars
<1>2. overlapped' = overlapped
  BY Zenon DEF ClaimSelect
<1>3. ASSUME NEW n \in Due
      PROVE  /\ n \in DOMAIN scheduled_tasks /\ ~scheduled_tasks[n].locked
             /\ ClaimOf(n) \in Claim /\ ClaimOf(n).id = n /\ ClaimOf(n).time_scheduled <= now
             /\ n \notin SchedulesRowLocked
  BY DEF Due, ClaimOf, Claim, SInv, STypeOK, Row, Times
<1>4. \A c \in claims : /\ c.id \in Due /\ c = ClaimOf(c.id) /\ c \in Claim
                        /\ c.time_scheduled <= now
  BY <1>3
<1> HIDE DEF claims
<1>5. /\ spc' \in [Schedulers -> Spots] /\ spc'[i] = "claim"
      /\ \A j \in Schedulers \ {i} : spc'[j] = spc[j]
  BY <1>1, AtEffect DEF SInv, Spots
<1>6. /\ batch' \in [Schedulers -> SUBSET Claim] /\ batch'[i] = claims
      /\ \A j \in Schedulers \ {i} : batch'[j] = batch[j]
  BY <1>1, <1>4 DEF SInv, SRecords
<1>7. STypeOK'
  BY <1>1, <1>2, <1>5, <1>6 DEF SInv, STypeOK, IInv
<1>8. SRecords'
  BY <1>1, <1>5, <1>6 DEF SInv, SRecords
<1>9. ClocksAgree'
  BY <1>1, <1>4, <1>5, <1>6 DEF SInv, ClocksAgree, IsFiring, After
<1>10. ClaimsAgree'
  <2>1. \A j \in Schedulers : spc[j] = "claim" =>
          \A c \in claims, e \in batch[j] : c.id # e.id
    BY <1>3, <1>4 DEF SchedulesRowLocked
  <2>2. \A j \in Schedulers : spc'[j] = "claim" =>
          \A c \in batch'[j] : /\ c.id \in DOMAIN scheduled_tasks /\ c = ClaimOf(c.id)
                               /\ ~scheduled_tasks[c.id].locked
    BY <1>3, <1>4, <1>5, <1>6 DEF SInv, ClaimsAgree
  <2>3. \A j, k \in Schedulers : spc'[j] = "claim" /\ spc'[k] = "claim" =>
          \A c \in batch'[j], d \in batch'[k] : c.id = d.id => j = k
    <3> SUFFICES ASSUME NEW j \in Schedulers, NEW k \in Schedulers,
                        spc'[j] = "claim", spc'[k] = "claim",
                        NEW c \in batch'[j], NEW d \in batch'[k], c.id = d.id, j # k
                 PROVE  FALSE
      OBVIOUS
    <3>1. CASE j = i
      BY <1>5, <1>6, <2>1, <3>1
    <3>2. CASE k = i
      BY <1>5, <1>6, <2>1, <3>2
    <3>3. CASE j # i /\ k # i
      BY <1>5, <1>6, <3>3 DEF SInv, ClaimsAgree
    <3> QED BY <3>1, <3>2, <3>3
  <2> QED BY <1>1, <2>2, <2>3 DEF ClaimsAgree, ClaimOf
<1>11. ASSUME Orderly PROVE Orderly'
  <2>1. \A j \in Schedulers : \A n : InFlight(j, n)' = InFlight(j, n)
    BY <1>1, <1>5, <1>6 DEF InFlight
  <2>2. FlightsAgree' /\ NoStranded'
    BY <1>1, <1>5, <1>6, <1>11, <2>1 DEF Orderly, FlightsAgree, OfRow, ClaimOf, NoStranded
  <2>3. RegisteredOnce' /\ FiringsAgree'
    BY <1>1, <1>5, <1>11 DEF Orderly, RegisteredOnce, Registering, FiringsAgree, IsFiring, After
  <2>4. PostsAgree' /\ OncePerFiring'
    BY <1>1, <1>2, <1>5, <1>11
    DEF Orderly, PostsAgree, PostedBefore, After, OncePerFiring, SameFiring
  <2> QED BY <2>2, <2>3, <2>4 DEF Orderly
<1> QED BY <1>2, <1>7, <1>8, <1>9, <1>10, <1>11 DEF SInv

\* A claim's UPDATE locks the rows it selected and changes nothing else.
LEMMA LockRowsEffect ==
  ASSUME SInv, NEW i \in Schedulers, spc[i] = "claim", LockRows(batch[i])
  PROVE  /\ DOMAIN scheduled_tasks' = DOMAIN scheduled_tasks
         /\ \A n \in DOMAIN scheduled_tasks :
              /\ scheduled_tasks'[n] \in Row
              /\ scheduled_tasks'[n].function_name = scheduled_tasks[n].function_name
              /\ scheduled_tasks'[n].time_scheduled = scheduled_tasks[n].time_scheduled
              /\ scheduled_tasks'[n].locked <=>
                   scheduled_tasks[n].locked \/ \E c \in batch[i] : c.id = n
<1>1. DOMAIN scheduled_tasks' = DOMAIN scheduled_tasks
  BY DEF LockRows
<1> SUFFICES ASSUME NEW n \in DOMAIN scheduled_tasks
    PROVE  /\ scheduled_tasks'[n] \in Row
           /\ scheduled_tasks'[n].function_name = scheduled_tasks[n].function_name
           /\ scheduled_tasks'[n].time_scheduled = scheduled_tasks[n].time_scheduled
           /\ scheduled_tasks'[n].locked <=>
                scheduled_tasks[n].locked \/ \E c \in batch[i] : c.id = n
  BY <1>1
<1>2. scheduled_tasks[n] \in Row
  BY DEF SInv, STypeOK
<1>3. CASE \E c \in batch[i] : c.id = n
  <2>1. scheduled_tasks'[n] = [scheduled_tasks[n] EXCEPT !.locked = TRUE]
    BY <1>3 DEF LockRows
  <2> QED BY <1>2, <1>3, <2>1 DEF Row
<1>4. CASE ~\E c \in batch[i] : c.id = n
  <2>1. scheduled_tasks'[n] = scheduled_tasks[n]
    BY <1>4 DEF LockRows
  <2> QED BY <1>2, <1>4, <2>1
<1> QED BY <1>3, <1>4

\* A claim commits, and its rows are with the scheduler or lost with the reply.
LEMMA ClaimEndsInv ==
  ASSUME SInv, IInv', NEW i \in Schedulers, ClaimCommit(i) \/ ClaimLost(i) PROVE SInv'
<1>1. /\ UNCHANGED <<now, made, table, nextId, todo, draft, origin, behind>>
      /\ spc[i] = "claim" /\ LockRows(batch[i])
  BY DEF ClaimCommit, ClaimLost, At, queueVars
<1>2. overlapped' = overlapped
  BY Zenon DEF ClaimCommit, ClaimLost
<1>3. PICK to \in {"post", "asleep"} : /\ At(i, "claim", to)
                                       /\ to = "post" => UNCHANGED <<faults, batch>>
                                       /\ to = "asleep" => /\ batch' = [batch EXCEPT ![i] = {}]
                                                           /\ faults' = faults + 1
  BY DEF ClaimCommit, ClaimLost, Fault
<1>4. /\ spc' \in [Schedulers -> Spots] /\ spc'[i] = to
      /\ \A j \in Schedulers \ {i} : spc'[j] = spc[j]
  BY <1>3, AtEffect DEF SInv, Spots
<1>5. /\ batch' \in [Schedulers -> SUBSET Claim] /\ batch'[i] \subseteq batch[i]
      /\ to = "asleep" => batch'[i] = {}
      /\ \A j \in Schedulers \ {i} : batch'[j] = batch[j]
  BY <1>3 DEF SInv, SRecords
<1> DEFINE mine(n) == \E c \in batch[i] : c.id = n
<1>6. /\ DOMAIN scheduled_tasks' = DOMAIN scheduled_tasks
      /\ \A n \in DOMAIN scheduled_tasks :
           /\ scheduled_tasks'[n] \in Row
           /\ scheduled_tasks'[n].function_name = scheduled_tasks[n].function_name
           /\ scheduled_tasks'[n].time_scheduled = scheduled_tasks[n].time_scheduled
           /\ scheduled_tasks'[n].locked <=> scheduled_tasks[n].locked \/ mine(n)
  BY <1>1, LockRowsEffect
<1>7. \A n \in DOMAIN scheduled_tasks : ClaimOf(n)' = ClaimOf(n)
  BY <1>6 DEF ClaimOf
<1>8. /\ \A c \in batch[i] : /\ c.id \in DOMAIN scheduled_tasks /\ c = ClaimOf(c.id)
                             /\ ~scheduled_tasks[c.id].locked /\ mine(c.id)
      /\ \A j \in Schedulers \ {i} : spc[j] = "claim" => \A c \in batch[j] : ~mine(c.id)
  BY <1>1 DEF SInv, ClaimsAgree
<1> HIDE DEF mine
<1>9. STypeOK'
  <2>1. DOMAIN scheduled_tasks' \subseteq 1..(nextId' - 1) /\ nextId' \in Nat \ {0}
    BY <1>1, <1>6 DEF SInv, STypeOK
  <2>2. overlapped' \in BOOLEAN
    BY <1>2, Zenon DEF SInv, STypeOK
  <2> QED BY <1>1, <1>4, <1>5, <1>6, <2>1, <2>2 DEF SInv, STypeOK, IInv
<1>10. SRecords'
  BY <1>1, <1>4, <1>5 DEF SInv, SRecords
<1>11. ClocksAgree'
  BY <1>1, <1>4, <1>5 DEF SInv, ClocksAgree, IsFiring, After
<1>12. ClaimsAgree'
  <2>1. \A j \in Schedulers : spc'[j] = "claim" => j # i /\ spc[j] = "claim" /\ batch'[j] = batch[j]
    BY <1>4, <1>5
  <2>2. ASSUME NEW j \in Schedulers, spc'[j] = "claim", NEW c \in batch'[j]
        PROVE  /\ c.id \in DOMAIN scheduled_tasks' /\ c = ClaimOf(c.id)'
               /\ ~scheduled_tasks'[c.id].locked
    <3>1. /\ c.id \in DOMAIN scheduled_tasks /\ c = ClaimOf(c.id)
          /\ ~scheduled_tasks[c.id].locked /\ ~mine(c.id)
      BY <1>8, <2>1, <2>2 DEF SInv, ClaimsAgree
    <3> QED BY <1>6, <1>7, <3>1
  <2> QED BY <2>1, <2>2 DEF SInv, ClaimsAgree
<1>13. ASSUME Orderly PROVE Orderly'
  <2>1. RegisteredOnce'
    BY <1>1, <1>4, <1>6, <1>13 DEF Orderly, RegisteredOnce, Registering
  <2>2. FiringsAgree'
    BY <1>1, <1>4, <1>6, <1>13 DEF Orderly, FiringsAgree, IsFiring, After
  <2>3. \A c : OfRow(c) => OfRow(c)' /\ ~mine(c.id)
    <3>1. \A c \in batch[i] : ~scheduled_tasks[c.id].locked
      BY <1>8
    <3> QED BY <1>6, <1>7, <3>1 DEF OfRow, mine
  <2>4. \A c \in batch[i] : OfRow(c)'
    BY <1>6, <1>7, <1>8 DEF OfRow
  <2>5. /\ \A j \in Schedulers \ {i} : \A n : InFlight(j, n)' = InFlight(j, n)
        /\ \A n : ~InFlight(i, n) /\ (InFlight(i, n)' => mine(n))
        /\ to = "post" => \A n : mine(n) => InFlight(i, n)'
    BY <1>1, <1>3, <1>4, <1>5 DEF InFlight, mine
  <2>6. \A j \in Schedulers : \A n : InFlight(j, n) => n \in DOMAIN scheduled_tasks /\ ~mine(n)
    BY <1>13, <2>3 DEF Orderly, FlightsAgree, InFlight, OfRow
  <2>7. FlightsAgree'
    <3>1. \A j \in Schedulers :
            /\ spc'[j] \in {"post", "commit"} => \A c \in batch'[j] : OfRow(c)'
            /\ spc'[j] = "commit" => OfRow(draft[j].claim)' /\ draft'[j].claim \notin batch'[j]
      BY <1>1, <1>4, <1>5, <1>13, <2>3, <2>4 DEF Orderly, FlightsAgree
    <3>2. \A j, k \in Schedulers : \A n : InFlight(j, n)' /\ InFlight(k, n)' => j = k
      BY <1>13, <2>5, <2>6 DEF Orderly, FlightsAgree
    <3> QED BY <1>1, <3>1, <3>2 DEF FlightsAgree
  <2>8. PostsAgree'
    <3>1. \A f, x : PostedBefore(f, x)' = PostedBefore(f, x)
      BY <1>1 DEF PostedBefore, After
    <3> QED BY <1>1, <1>4, <1>6, <1>13, <3>1 DEF Orderly, PostsAgree
  <2>9. OncePerFiring'
    BY <1>1, <1>2, <1>13 DEF Orderly, OncePerFiring, SameFiring
  <2>10. NoStranded'
    <3>1. faults \in Nat
      BY ConstantsAssumption DEF SInv, IInv, TypeOK
    <3>2. CASE to = "asleep"
      BY <1>3, <3>1, <3>2 DEF NoStranded
    <3>3. CASE to = "post"
      BY <1>3, <1>6, <1>13, <2>5, <3>3 DEF Orderly, NoStranded
    <3> QED BY <3>2, <3>3
  <2> QED BY <2>1, <2>2, <2>7, <2>8, <2>9, <2>10 DEF Orderly
<1> QED BY <1>2, <1>9, <1>10, <1>11, <1>12, <1>13 DEF SInv

---------------------------------------------------------------------------
\* A row whose cron string is bad is left behind locked.
LEMMA SkipBadCronInv ==
  ASSUME SInv, IInv', NEW i \in Schedulers, SkipBadCron(i) PROVE SInv'
<1>1. PICK c \in batch[i] : c.function_name \in BadCron /\ Leave(i, c)
  BY DEF SkipBadCron
<1>2. /\ UNCHANGED <<now, made, table, faults, scheduled_tasks, nextId, todo, draft, origin, behind>>
      /\ spc[i] = "post" /\ spc' = spc
  BY DEF SkipBadCron, At, queueVars, SInv, STypeOK
<1>3. overlapped' = overlapped
  BY Zenon DEF SkipBadCron
<1>4. /\ batch' \in [Schedulers -> SUBSET Claim] /\ batch'[i] = batch[i] \ {c}
      /\ \A j \in Schedulers \ {i} : batch'[j] = batch[j]
  BY <1>1 DEF Leave, SInv, SRecords
<1>5. STypeOK'
  BY <1>2, <1>3, <1>4 DEF SInv, STypeOK, IInv
<1>6. SRecords'
  BY <1>2, <1>4 DEF SInv, SRecords
<1>7. ClocksAgree'
  BY <1>2, <1>4 DEF SInv, ClocksAgree, IsFiring, After
<1>8. ClaimsAgree'
  BY <1>2, <1>4 DEF SInv, ClaimsAgree, ClaimOf
<1>9. ASSUME Orderly PROVE Orderly'
  <2>1. /\ \A j \in Schedulers \ {i} : \A n : InFlight(j, n)' = InFlight(j, n)
        /\ \A n : InFlight(i, n)' => InFlight(i, n)
        /\ \A n : InFlight(i, n) => n = c.id \/ InFlight(i, n)'
    BY <1>2, <1>4 DEF InFlight
  <2>2. FlightsAgree'
    BY <1>2, <1>4, <1>9, <2>1 DEF Orderly, FlightsAgree, OfRow, ClaimOf
  <2>3. OfRow(c)
    BY <1>2, <1>9 DEF Orderly, FlightsAgree
  <2>4. NoStranded'
    BY <1>1, <1>2, <1>9, <2>1, <2>3 DEF Orderly, NoStranded, OfRow, ClaimOf
  <2>5. RegisteredOnce' /\ FiringsAgree'
    BY <1>2, <1>9 DEF Orderly, RegisteredOnce, Registering, FiringsAgree, IsFiring, After
  <2>6. PostsAgree' /\ OncePerFiring'
    BY <1>2, <1>3, <1>9
    DEF Orderly, PostsAgree, PostedBefore, After, OncePerFiring, SameFiring
  <2> QED BY <2>2, <2>4, <2>5, <2>6 DEF Orderly
<1> QED BY <1>3, <1>5, <1>6, <1>7, <1>8, <1>9 DEF SInv

\* The next firing comes after the claimed one and after all that was posted.
LEMMA PostBeginInv ==
  ASSUME SInv, IInv', NEW i \in Schedulers, NEW t \in Tasks, PostBegin(i, t) PROVE SInv'
<1> USE ConstantsAssumption, ScheduleAssumption
<1>1. PICK c \in batch[i], clock \in Readings :
        /\ c.function_name \notin BadCron
        /\ Leave(i, c)
        /\ Read(c.function_name, clock)
        /\ New(t, c.function_name, clock)
        /\ draft' = [draft EXCEPT ![i] =
             [kind |-> "post", claim |-> c, task |-> t,
              next |-> Upcoming(c.function_name, clock)]]
  BY DEF PostBegin
<1> DEFINE f == c.function_name
           d == [kind |-> "post", claim |-> c, task |-> t,
                 next |-> Upcoming(c.function_name, clock)]
<1>2. /\ UNCHANGED <<now, table, faults, scheduled_tasks, nextId, todo, origin>>
      /\ spc[i] = "post" /\ At(i, "post", "commit")
  BY DEF PostBegin, At
<1>3. overlapped' = overlapped
  BY Zenon DEF PostBegin
<1>4. t \notin made /\ made' = made \cup {t} /\ table \subseteq made
  BY <1>1 DEF New, SInv, IInv, TypeOK
<1>5. c \in Claim /\ f \in Functions /\ c.time_scheduled \in Nat
  BY DEF SInv, STypeOK, Claim
<1>6. /\ d.next \in Times /\ IsFiring(f, d.next)
      /\ behind' \in [Functions -> SUBSET Nat]
      /\ \A g \in Functions : behind[g] \subseteq behind'[g]
      /\ \A y \in Cron[f] : y <= now => After(f, Upcoming(f, clock), y)'
  BY <1>1, <1>5, ReadEffect DEF SInv
<1>7. \A y \in Cron[f] : y <= now /\ d.next # Never => y < d.next \/ y \in behind'[f]
  BY <1>6 DEF After
<1>8. d \in PostDraft /\ d.claim = c /\ d.task = t
  BY <1>5, <1>6 DEF PostDraft
<1>9. draft' = [draft EXCEPT ![i] = d]
  BY <1>1
<1> HIDE DEF d
<1>10. /\ spc' \in [Schedulers -> Spots] /\ spc'[i] = "commit"
       /\ \A j \in Schedulers \ {i} : spc'[j] = spc[j]
  BY <1>2, AtEffect DEF SInv, Spots
<1>11. /\ draft' \in [Schedulers -> {NoDraft} \cup RowDraft \cup PostDraft] /\ draft'[i] = d
       /\ \A j \in Schedulers \ {i} : draft'[j] = draft[j]
  BY <1>8, <1>9 DEF SInv, SRecords
<1>12. /\ batch' \in [Schedulers -> SUBSET Claim] /\ batch'[i] = batch[i] \ {c}
       /\ \A j \in Schedulers \ {i} : batch'[j] = batch[j]
  BY <1>1 DEF Leave, SInv, SRecords
<1>13. STypeOK'
  BY <1>2, <1>3, <1>4, <1>5, <1>6, <1>8, <1>10, <1>11, <1>12 DEF SInv, STypeOK, IInv
<1>14. SRecords'
  <2>1. \A j \in Schedulers \ {i} : spc[j] = "commit" => draft[j].task # t
    BY <1>4 DEF SInv, SRecords
  <2> QED BY <1>2, <1>4, <1>8, <1>10, <1>11, <1>12, <2>1 DEF SInv, SRecords
<1>15. ClocksAgree'
  <2>1. c.time_scheduled <= now
    BY DEF SInv, ClocksAgree
  <2> QED BY <1>1, <1>2, <1>5, <1>6, <1>8, <1>10, <1>11, <1>12, <2>1
          DEF SInv, ClocksAgree, IsFiring
<1>16. ClaimsAgree'
  BY <1>2, <1>10, <1>12 DEF SInv, ClaimsAgree, ClaimOf
<1>17. ASSUME Orderly PROVE Orderly'
  <2>1. OfRow(c)
    BY <1>2, <1>17 DEF Orderly, FlightsAgree
  <2>2. c.time_scheduled \in Cron[f] /\ c.time_scheduled <= now
    <3>1. IsFiring(f, c.time_scheduled) /\ c.time_scheduled # Never
      BY <1>5, <1>17, <2>1 DEF OfRow, ClaimOf, Orderly, FiringsAgree
    <3> QED BY <3>1 DEF IsFiring, SInv, ClocksAgree
  <2>3. \A j \in Schedulers \ {i} : spc[j] = "commit" => draft[j].claim.function_name \in Functions
    BY DEF SInv, STypeOK, Claim
  <2>4. FiringsAgree'
    <3>1. ASSUME NEW j \in Schedulers, spc'[j] = "commit"
          PROVE  After(draft[j].claim.function_name, draft[j].next,
                       draft[j].claim.time_scheduled)'
      <4>1. CASE j = i
        BY <1>7, <1>8, <1>11, <2>2, <4>1 DEF After
      <4>2. CASE j # i
        BY <1>6, <1>10, <1>11, <1>17, <2>3, <3>1, <4>2 DEF Orderly, FiringsAgree, After
      <4> QED BY <4>1, <4>2
    <3> QED BY <1>2, <1>10, <1>11, <1>17, <3>1 DEF Orderly, FiringsAgree, IsFiring
  <2>5. RegisteredOnce'
    BY <1>2, <1>10, <1>11, <1>17 DEF Orderly, RegisteredOnce, Registering
  <2>6. \A j \in Schedulers : \A n : InFlight(j, n)' = InFlight(j, n)
    BY <1>2, <1>8, <1>10, <1>11, <1>12 DEF InFlight
  <2>7. FlightsAgree'
    <3>1. \A e : OfRow(e)' = OfRow(e)
      BY <1>2 DEF OfRow, ClaimOf
    <3>2. ASSUME NEW j \in Schedulers
          PROVE  /\ spc'[j] \in {"post", "commit"} => \A e \in batch'[j] : OfRow(e)
                 /\ spc'[j] = "commit" => OfRow(draft'[j].claim) /\ draft'[j].claim \notin batch'[j]
      <4>1. CASE j = i
        BY <1>2, <1>8, <1>11, <1>12, <1>17, <2>1, <4>1 DEF Orderly, FlightsAgree
      <4>2. CASE j # i
        BY <1>10, <1>11, <1>12, <1>17, <4>2 DEF Orderly, FlightsAgree
      <4> QED BY <4>1, <4>2
    <3>3. \A j, k \in Schedulers, n \in DOMAIN scheduled_tasks :
            InFlight(j, n)' /\ InFlight(k, n)' => j = k
      BY <1>17, <2>6 DEF Orderly, FlightsAgree
    <3>4. \A j \in Schedulers :
            /\ spc'[j] \in {"post", "commit"} => \A e \in batch'[j] : OfRow(e)'
            /\ spc'[j] = "commit" => /\ OfRow(draft[j].claim)'
                                    /\ draft'[j].claim \notin batch'[j]
      <4>1. \A j \in Schedulers : OfRow(draft[j].claim)' = OfRow(draft'[j].claim)
        BY <1>2 DEF OfRow, ClaimOf
      <4> QED BY <3>1, <3>2, <4>1
    <3> QED BY <1>2, <3>3, <3>4 DEF FlightsAgree
  <2>8. NoStranded'
    BY <1>2, <1>17, <2>6 DEF Orderly, NoStranded
  <2>9. PostsAgree'
    <3>1. \A g \in Functions : \A x : PostedBefore(g, x) => PostedBefore(g, x)'
      BY <1>2, <1>6, PostedKept
    <3>2. ASSUME NEW n \in DOMAIN scheduled_tasks
          PROVE  PostedBefore(scheduled_tasks[n].function_name, scheduled_tasks[n].time_scheduled)'
      <4>1. scheduled_tasks[n].function_name \in Functions
        BY DEF SInv, STypeOK, Row
      <4> QED BY <1>2, <1>17, <3>1, <4>1 DEF Orderly, PostsAgree
    <3>3. ASSUME NEW j \in Schedulers, spc'[j] = "insert"
          PROVE  PostedBefore(draft[j].row.function_name, draft[j].row.time_scheduled)'
      <4>1. j # i /\ spc[j] = "insert" /\ draft'[j] = draft[j]
        BY <1>10, <1>11, <3>3
      <4>2. draft[j].row.function_name \in Functions
        BY <4>1 DEF SInv, STypeOK, Row
      <4> QED BY <1>17, <3>1, <4>1, <4>2 DEF Orderly, PostsAgree
    <3>4. ASSUME NEW j \in Schedulers, spc'[j] = "commit"
          PROVE  PostedBefore(draft[j].claim.function_name, draft[j].next)'
      <4>1. CASE j = i
        <5>1. \A u \in DOMAIN origin : origin[u].function_name = f =>
                origin[u].instant \in Cron[f] /\ origin[u].instant <= now
          BY <1>17 DEF Orderly, FiringsAgree, SInv, ClocksAgree
        <5> QED BY <1>2, <1>7, <1>8, <1>11, <4>1, <5>1 DEF PostedBefore, After
      <4>2. CASE j # i
        <5>1. spc[j] = "commit" /\ draft'[j] = draft[j]
          BY <1>10, <1>11, <3>4, <4>2
        <5> QED BY <1>17, <2>3, <3>1, <4>2, <5>1 DEF Orderly, PostsAgree
      <4> QED BY <4>1, <4>2
    <3> QED BY <1>2, <3>2, <3>3, <3>4 DEF PostsAgree
  <2>10. OncePerFiring'
    BY <1>2, <1>3, <1>6, <1>17 DEF Orderly, OncePerFiring, SameFiring, SInv, STypeOK, Firing
  <2> QED BY <2>4, <2>5, <2>7, <2>8, <2>9, <2>10 DEF Orderly
<1> QED BY <1>3, <1>13, <1>14, <1>15, <1>16, <1>17 DEF SInv

\* A post that is rolled back leaves its row locked.
LEMMA PostFailsInv ==
  ASSUME SInv, IInv', NEW i \in Schedulers, PostFails(i) PROVE SInv'
<1>1. /\ UNCHANGED <<now, made, table, scheduled_tasks, nextId, todo, batch, origin, behind>>
      /\ draft' = [draft EXCEPT ![i] = NoDraft] /\ faults' = faults + 1
      /\ spc[i] = "commit" /\ At(i, "commit", "post")
  BY DEF PostFails, At, Fault, queueVars
<1>2. overlapped' = overlapped
  BY Zenon DEF PostFails
<1>3. /\ spc' \in [Schedulers -> Spots] /\ spc'[i] = "post"
      /\ \A j \in Schedulers \ {i} : spc'[j] = spc[j]
  BY <1>1, AtEffect DEF SInv, Spots
<1>4. /\ draft' \in [Schedulers -> {NoDraft} \cup RowDraft \cup PostDraft] /\ draft'[i] = NoDraft
      /\ \A j \in Schedulers \ {i} : draft'[j] = draft[j]
  BY <1>1 DEF SInv, SRecords
<1>5. STypeOK'
  BY <1>1, <1>2, <1>3, <1>4 DEF SInv, STypeOK, IInv
<1>6. SRecords'
  BY <1>1, <1>3, <1>4 DEF SInv, SRecords
<1>7. ClocksAgree'
  BY <1>1, <1>3, <1>4 DEF SInv, ClocksAgree, IsFiring, After
<1>8. ClaimsAgree'
  BY <1>1, <1>3 DEF SInv, ClaimsAgree, ClaimOf
<1>9. ASSUME Orderly PROVE Orderly'
  <2>1. /\ \A j \in Schedulers \ {i} : \A n : InFlight(j, n)' = InFlight(j, n)
        /\ \A n : InFlight(i, n)' => InFlight(i, n)
    BY <1>1, <1>3, <1>4 DEF InFlight
  <2>2. FlightsAgree'
    <3>1. \A e : OfRow(e)' = OfRow(e)
      BY <1>1 DEF OfRow, ClaimOf
    <3>2. \A j \in Schedulers :
            /\ spc'[j] \in {"post", "commit"} => \A e \in batch'[j] : OfRow(e)'
            /\ spc'[j] = "commit" => draft'[j].claim \notin batch'[j]
      BY <1>1, <1>3, <1>4, <1>9, <3>1 DEF Orderly, FlightsAgree
    <3>3. \A j \in Schedulers : spc'[j] = "commit" => OfRow(draft[j].claim)'
      BY <1>1, <1>3, <1>4, <1>9 DEF Orderly, FlightsAgree, OfRow, ClaimOf
    <3>4. \A j, k \in Schedulers, n \in DOMAIN scheduled_tasks :
            InFlight(j, n)' /\ InFlight(k, n)' => j = k
      BY <1>9, <2>1 DEF Orderly, FlightsAgree
    <3> QED BY <1>1, <3>2, <3>3, <3>4 DEF FlightsAgree
  <2>3. NoStranded'
    <3>1. faults \in Nat
      BY ConstantsAssumption DEF SInv, IInv, TypeOK
    <3> QED BY <1>1, <3>1 DEF NoStranded
  <2>4. RegisteredOnce' /\ FiringsAgree'
    BY <1>1, <1>3, <1>4, <1>9 DEF Orderly, RegisteredOnce, Registering, FiringsAgree, IsFiring, After
  <2>5. PostsAgree' /\ OncePerFiring'
    BY <1>1, <1>2, <1>3, <1>4, <1>9
    DEF Orderly, PostsAgree, PostedBefore, After, OncePerFiring, SameFiring
  <2> QED BY <2>2, <2>3, <2>4, <2>5 DEF Orderly
<1> QED BY <1>2, <1>5, <1>6, <1>7, <1>8, <1>9 DEF SInv

\* A post that commits moves its row on, unlocks it, and notes the firing.
LEMMA PostCommitEffect ==
  ASSUME SInv, NEW i \in Schedulers, PostCommit(i)
  PROVE  LET d == draft[i]
             n == d.claim.id
         IN  /\ d \in PostDraft /\ d.claim \in Claim /\ d.next \in Times
             /\ d.task \in made \ table /\ d.task \notin DOMAIN origin
             /\ n \notin SchedulesRowLocked
             /\ DOMAIN scheduled_tasks' = DOMAIN scheduled_tasks
             /\ \A m \in DOMAIN scheduled_tasks \ {n} : scheduled_tasks'[m] = scheduled_tasks[m]
             /\ n \in DOMAIN scheduled_tasks =>
                  /\ scheduled_tasks'[n] \in Row
                  /\ scheduled_tasks'[n].function_name = scheduled_tasks[n].function_name
                  /\ scheduled_tasks'[n].time_scheduled = d.next /\ ~scheduled_tasks'[n].locked
             /\ DOMAIN origin' = DOMAIN origin \cup {d.task}
             /\ \A t \in DOMAIN origin : origin'[t] = origin[t]
             /\ origin'[d.task] = [function_name |-> d.claim.function_name,
                                   instant |-> d.claim.time_scheduled]
             /\ origin'[d.task] \in Firing
<1> DEFINE d == draft[i]
           n == d.claim.id
           firing == [function_name |-> d.claim.function_name,
                      instant |-> d.claim.time_scheduled]
<1>1. /\ d \in PostDraft /\ d.claim \in Claim /\ d.next \in Times
      /\ d.task \in made \ table
  BY DEF PostCommit, At, SInv, SRecords, PostDraft
<1>2. d.task \notin DOMAIN origin
  BY <1>1 DEF SInv, SRecords
<1>3. n \notin SchedulesRowLocked
  BY DEF PostCommit
<1>4. scheduled_tasks' =
        IF n \in DOMAIN scheduled_tasks
        THEN [scheduled_tasks EXCEPT ![n].time_scheduled = d.next, ![n].locked = FALSE]
        ELSE scheduled_tasks
  BY DEF PostCommit
<1>5. origin' = [t \in DOMAIN origin \cup {d.task} |-> IF t = d.task THEN firing ELSE origin[t]]
  BY DEF PostCommit
<1>6. firing \in Firing
  BY <1>1 DEF Claim, Firing
<1> HIDE DEF d, firing
<1>7. /\ DOMAIN scheduled_tasks' = DOMAIN scheduled_tasks
      /\ \A m \in DOMAIN scheduled_tasks \ {n} : scheduled_tasks'[m] = scheduled_tasks[m]
  BY <1>4
<1>8. ASSUME n \in DOMAIN scheduled_tasks
      PROVE  /\ scheduled_tasks'[n] \in Row
             /\ scheduled_tasks'[n].function_name = scheduled_tasks[n].function_name
             /\ scheduled_tasks'[n].time_scheduled = d.next /\ ~scheduled_tasks'[n].locked
  <2>1. scheduled_tasks[n] \in Row
    BY <1>8 DEF SInv, STypeOK
  <2>2. scheduled_tasks'[n] = [scheduled_tasks[n] EXCEPT !.time_scheduled = d.next, !.locked = FALSE]
    BY <1>4, <1>8
  <2> QED BY <1>1, <2>1, <2>2 DEF Row
<1>9. /\ DOMAIN origin' = DOMAIN origin \cup {d.task} /\ origin'[d.task] = firing
      /\ \A t \in DOMAIN origin : origin'[t] = origin[t]
  BY <1>2, <1>5
<1> QED BY <1>1, <1>2, <1>3, <1>6, <1>7, <1>8, <1>9 DEF d, firing

LEMMA PostCommitInv ==
  ASSUME SInv, IInv', NEW i \in Schedulers, PostCommit(i) PROVE SInv'
<1> DEFINE d == draft[i]
           n == d.claim.id
<1>1. /\ UNCHANGED <<now, made, faults, nextId, todo, batch, behind>>
      /\ draft' = [draft EXCEPT ![i] = NoDraft] /\ table' = table \cup {d.task}
      /\ spc[i] = "commit" /\ At(i, "commit", "post")
  BY DEF PostCommit, At
<1>2. overlapped' = overlapped
  BY Zenon DEF PostCommit
<1>3. /\ spc' \in [Schedulers -> Spots] /\ spc'[i] = "post"
      /\ \A j \in Schedulers \ {i} : spc'[j] = spc[j]
  BY <1>1, AtEffect DEF SInv, Spots
<1>4. /\ draft' \in [Schedulers -> {NoDraft} \cup RowDraft \cup PostDraft] /\ draft'[i] = NoDraft
      /\ \A j \in Schedulers \ {i} : draft'[j] = draft[j]
  BY <1>1 DEF SInv, SRecords
<1>5. /\ d \in PostDraft /\ d.claim \in Claim /\ d.next \in Times
      /\ d.task \in made \ table /\ d.task \notin DOMAIN origin
      /\ n \notin SchedulesRowLocked
  BY PostCommitEffect
<1>6. /\ DOMAIN scheduled_tasks' = DOMAIN scheduled_tasks
      /\ \A m \in DOMAIN scheduled_tasks \ {n} : scheduled_tasks'[m] = scheduled_tasks[m]
      /\ n \in DOMAIN scheduled_tasks =>
           /\ scheduled_tasks'[n] \in Row
           /\ scheduled_tasks'[n].function_name = scheduled_tasks[n].function_name
           /\ scheduled_tasks'[n].time_scheduled = d.next /\ ~scheduled_tasks'[n].locked
  BY PostCommitEffect
<1>7. /\ DOMAIN origin' = DOMAIN origin \cup {d.task}
      /\ \A t \in DOMAIN origin : origin'[t] = origin[t]
      /\ origin'[d.task].function_name = d.claim.function_name
      /\ origin'[d.task].instant = d.claim.time_scheduled
      /\ origin'[d.task] \in Firing
  <2>1. /\ DOMAIN origin' = DOMAIN origin \cup {d.task}
        /\ \A t \in DOMAIN origin : origin'[t] = origin[t]
        /\ origin'[d.task] \in Firing
        /\ origin'[d.task] = [function_name |-> d.claim.function_name,
                             instant |-> d.claim.time_scheduled]
    BY PostCommitEffect
  <2> QED BY <2>1
<1>8. \A j \in Schedulers \ {i} : spc[j] = "commit" => draft[j].task # d.task
  BY <1>1 DEF SInv, SRecords
<1>9. d.claim.time_scheduled <= now /\ IsFiring(d.claim.function_name, d.next)
  BY <1>1 DEF SInv, ClocksAgree
<1> HIDE DEF d
<1>10. STypeOK'
  <2>1. DOMAIN scheduled_tasks' \subseteq 1..(nextId' - 1) /\ nextId' \in Nat \ {0}
    BY <1>1, <1>6 DEF SInv, STypeOK
  <2>2. \A m \in DOMAIN scheduled_tasks' : scheduled_tasks'[m] \in Row
    BY <1>6 DEF SInv, STypeOK
  <2>3. DOMAIN origin' \subseteq made' /\ \A t \in DOMAIN origin' : origin'[t] \in Firing
    BY <1>1, <1>5, <1>7 DEF SInv, STypeOK
  <2>4. \A j \in Schedulers :
          /\ spc'[j] = "insert" => draft'[j].row \in Row
          /\ spc'[j] = "commit" => draft'[j].claim \in Claim /\ draft'[j].task \in made' \ table'
    BY <1>1, <1>3, <1>4, <1>8 DEF SInv, STypeOK
  <2>5. overlapped' \in BOOLEAN
    BY <1>2, Zenon DEF SInv, STypeOK
  <2> QED BY <1>1, <1>3, <2>1, <2>2, <2>3, <2>4, <2>5 DEF SInv, STypeOK, IInv
<1>11. SRecords'
  BY <1>1, <1>3, <1>4, <1>7, <1>8 DEF SInv, SRecords
<1>12. ClocksAgree'
  <2>1. \A t \in DOMAIN origin' : origin'[t].instant <= now'
    BY <1>1, <1>7, <1>9 DEF SInv, ClocksAgree
  <2> QED BY <1>1, <1>3, <1>4, <2>1 DEF SInv, ClocksAgree, IsFiring, After
<1>13. ClaimsAgree'
  <2>1. \A j \in Schedulers : spc[j] = "claim" => \A c \in batch[j] : c.id # n
    BY <1>5 DEF SchedulesRowLocked
  <2> QED BY <1>1, <1>3, <1>6, <2>1 DEF SInv, ClaimsAgree, ClaimOf
<1>14. ASSUME Orderly PROVE Orderly'
  <2>1. OfRow(d.claim) /\ d.claim \notin batch[i] /\ n \in DOMAIN scheduled_tasks
    BY <1>1, <1>14 DEF Orderly, FlightsAgree, OfRow, d
  <2>2. /\ scheduled_tasks[n].function_name = d.claim.function_name
        /\ scheduled_tasks[n].time_scheduled = d.claim.time_scheduled
        /\ d.claim.time_scheduled \in Nat /\ d.claim.time_scheduled # Never
    BY <1>5, <2>1, ScheduleAssumption DEF OfRow, ClaimOf, Claim
  <2>3. /\ After(d.claim.function_name, d.next, d.claim.time_scheduled)
        /\ PostedBefore(d.claim.function_name, d.next)
        /\ d.claim.time_scheduled \in Cron[d.claim.function_name]
    <3>1. IsFiring(d.claim.function_name, d.claim.time_scheduled)
      BY <1>14, <2>1, <2>2 DEF Orderly, FiringsAgree
    <3> QED BY <1>1, <1>14, <2>2, <3>1 DEF Orderly, FiringsAgree, PostsAgree, IsFiring, d
  <2>4. \A m \in DOMAIN scheduled_tasks :
          scheduled_tasks'[m].function_name = scheduled_tasks[m].function_name
    BY <1>6
  <2>5. RegisteredOnce'
    BY <1>1, <1>3, <1>4, <1>6, <1>14, <2>4 DEF Orderly, RegisteredOnce, Registering
  <2>6. FiringsAgree'
    <3>1. \A m \in DOMAIN scheduled_tasks' :
            IsFiring(scheduled_tasks'[m].function_name, scheduled_tasks'[m].time_scheduled)
      BY <1>6, <1>9, <1>14, <2>2, <2>4 DEF Orderly, FiringsAgree
    <3>2. \A t \in DOMAIN origin' : origin'[t].instant \in Cron[origin'[t].function_name]
      BY <1>7, <1>14, <2>3 DEF Orderly, FiringsAgree
    <3>3. \A j \in Schedulers : spc'[j] \in {"insert", "commit"} =>
            spc'[j] = spc[j] /\ draft'[j] = draft[j]
      BY <1>3, <1>4
    <3> QED BY <1>1, <1>14, <3>1, <3>2, <3>3 DEF Orderly, FiringsAgree, IsFiring, After
  <2>7. /\ \A j \in Schedulers \ {i} : \A m : InFlight(j, m)' = InFlight(j, m)
        /\ InFlight(i, n) /\ \A m : InFlight(i, m)' => InFlight(i, m)
        /\ \A m : InFlight(i, m) => m = n \/ InFlight(i, m)'
    BY <1>1, <1>3, <1>4 DEF InFlight, d
  <2>8. \A c \in batch[i] : OfRow(c) /\ c.id # n
    BY <1>1, <1>14, <2>1 DEF Orderly, FlightsAgree, OfRow
  <2>9. FlightsAgree'
    <3>1. \A c : OfRow(c) /\ c.id # n => OfRow(c)'
      BY <1>6 DEF OfRow, ClaimOf
    <3>2. \A j \in Schedulers \ {i} :
            /\ spc[j] \in {"post", "commit"} => \A c \in batch[j] : c.id # n
            /\ spc[j] = "commit" => draft[j].claim.id # n
      BY <1>14, <2>1, <2>7 DEF Orderly, FlightsAgree, InFlight
    <3>3. ASSUME NEW j \in Schedulers
          PROVE  /\ spc'[j] \in {"post", "commit"} => \A c \in batch[j] : OfRow(c)'
                 /\ spc'[j] = "commit" => OfRow(draft[j].claim)' /\ draft'[j].claim \notin batch[j]
      <4>1. CASE j = i
        BY <1>3, <2>8, <3>1, <4>1
      <4>2. CASE j # i
        <5>1. spc'[j] = spc[j] /\ draft'[j] = draft[j]
          BY <1>3, <1>4, <4>2
        <5>2. spc[j] = "commit" =>
                OfRow(draft'[j].claim) /\ draft'[j].claim.id # n /\ draft[j].claim \notin batch[j]
          BY <1>14, <3>2, <4>2, <5>1 DEF Orderly, FlightsAgree
        <5>3. spc[j] \in {"post", "commit"} => \A c \in batch[j] : OfRow(c) /\ c.id # n
          BY <1>14, <3>2, <4>2 DEF Orderly, FlightsAgree
        <5>4. spc[j] = "commit" => OfRow(draft[j].claim)'
          BY <1>6, <5>2 DEF OfRow, ClaimOf
        <5> QED BY <3>1, <5>1, <5>2, <5>3, <5>4
      <4> QED BY <4>1, <4>2
    <3>4. \A j, k \in Schedulers, m \in DOMAIN scheduled_tasks :
            InFlight(j, m)' /\ InFlight(k, m)' => j = k
      BY <1>14, <2>7 DEF Orderly, FlightsAgree
    <3> QED BY <1>1, <1>6, <3>3, <3>4 DEF FlightsAgree
  <2>10. PostedBefore(d.claim.function_name, d.claim.time_scheduled)
    BY <1>14, <2>1, <2>2 DEF Orderly, PostsAgree
  <2>11. d.claim.time_scheduled \in Nat /\ \A t \in DOMAIN origin : origin[t].instant \in Nat
    BY <2>2 DEF SInv, STypeOK, Firing
  <2>12. PostsAgree'
    <3>1. \A f, x, y : After(f, x, y)' = After(f, x, y)
      BY <1>1 DEF After
    <3>2. \A f, x : f # d.claim.function_name /\ PostedBefore(f, x) => PostedBefore(f, x)'
      BY <1>1, <1>7 DEF PostedBefore, After
    <3>3. ASSUME NEW m \in DOMAIN scheduled_tasks, m = n
          PROVE  PostedBefore(scheduled_tasks[m].function_name, scheduled_tasks[m].time_scheduled)'
      <4>1. /\ scheduled_tasks'[m].function_name = d.claim.function_name
            /\ scheduled_tasks'[m].time_scheduled = d.next
        BY <1>6, <2>1, <2>2, <3>3
      <4> HIDE DEF n
      <4>2. ASSUME NEW t \in DOMAIN origin', origin'[t].function_name = d.claim.function_name
            PROVE  After(d.claim.function_name, d.next, origin'[t].instant)
        <5>1. CASE t \in DOMAIN origin
          BY <1>7, <2>3, <4>2, <5>1 DEF PostedBefore
        <5>2. CASE t = d.task
          BY <1>7, <2>3, <4>2, <5>2
        <5> QED BY <1>7, <4>2, <5>1, <5>2
      <4> QED BY <1>1, <4>1, <4>2 DEF PostedBefore, After
    <3>4. ASSUME NEW m \in DOMAIN scheduled_tasks, m # n
          PROVE  PostedBefore(scheduled_tasks[m].function_name, scheduled_tasks[m].time_scheduled)'
      <4>1. scheduled_tasks[m].function_name # d.claim.function_name
        BY <1>14, <2>1, <2>2, <3>4 DEF Orderly, RegisteredOnce
      <4>2. PostedBefore(scheduled_tasks[m].function_name, scheduled_tasks[m].time_scheduled)
        BY <1>14 DEF Orderly, PostsAgree
      <4>3. scheduled_tasks'[m] = scheduled_tasks[m]
        BY <1>6, <3>4
      <4> QED BY <3>2, <4>1, <4>2, <4>3
    <3>5. ASSUME NEW j \in Schedulers, spc'[j] = "insert"
          PROVE  PostedBefore(draft[j].row.function_name, draft[j].row.time_scheduled)'
      <4>1. spc[j] = "insert" /\ draft'[j] = draft[j]
        BY <1>3, <1>4, <3>5
      <4>2. /\ draft[j].row.function_name # d.claim.function_name
            /\ PostedBefore(draft[j].row.function_name, draft[j].row.time_scheduled)
        BY <1>14, <2>1, <2>2, <4>1 DEF Orderly, RegisteredOnce, PostsAgree
      <4> QED BY <3>2, <4>1, <4>2
    <3>6. ASSUME NEW j \in Schedulers, spc'[j] = "commit"
          PROVE  PostedBefore(draft[j].claim.function_name, draft[j].next)'
      <4>1. j # i /\ spc[j] = "commit" /\ draft'[j] = draft[j]
        BY <1>3, <1>4, <3>6
      <4>2. OfRow(draft[j].claim) /\ InFlight(j, draft[j].claim.id)
        BY <1>14, <4>1 DEF Orderly, FlightsAgree, InFlight
      <4>3. draft[j].claim.id # n
        BY <1>14, <2>1, <2>7, <4>1, <4>2 DEF Orderly, FlightsAgree
      <4>4. scheduled_tasks[draft[j].claim.id].function_name = draft[j].claim.function_name
        BY <4>2 DEF OfRow, ClaimOf
      <4>5. draft[j].claim.function_name # d.claim.function_name
        BY <1>14, <2>1, <2>2, <4>2, <4>3, <4>4 DEF Orderly, RegisteredOnce, OfRow
      <4>6. PostedBefore(draft[j].claim.function_name, draft[j].next)
        BY <1>14, <4>1 DEF Orderly, PostsAgree
      <4> QED BY <3>2, <4>1, <4>5, <4>6
    <3> QED BY <1>6, <3>3, <3>4, <3>5, <3>6 DEF PostsAgree
  <2>13. OncePerFiring'
    <3>1. ASSUME NEW t \in DOMAIN origin, origin[t].function_name = d.claim.function_name,
                 origin[t].instant = d.claim.time_scheduled
          PROVE  d.claim.time_scheduled \in behind[d.claim.function_name]
      BY <2>2, <2>10, <2>11, <3>1 DEF PostedBefore, After
    <3>2. ASSUME ~overlapped, NEW t \in DOMAIN origin', NEW u \in DOMAIN origin',
                 t # u, SameFiring(t, u)'
          PROVE  origin'[t].instant \in behind[origin'[t].function_name]
      <4>1. CASE t \in DOMAIN origin /\ u \in DOMAIN origin
        BY <1>7, <1>14, <3>2, <4>1 DEF Orderly, OncePerFiring, SameFiring
      <4>2. CASE t = d.task
        BY <1>7, <3>1, <3>2, <4>2 DEF SameFiring
      <4>3. CASE u = d.task
        BY <1>7, <3>1, <3>2, <4>3 DEF SameFiring
      <4> QED BY <1>7, <4>1, <4>2, <4>3
    <3> QED BY <1>1, <1>2, <3>2 DEF OncePerFiring
  <2>14. NoStranded'
    BY <1>1, <1>6, <1>14, <2>1, <2>4, <2>7 DEF Orderly, NoStranded
  <2> QED BY <2>5, <2>6, <2>9, <2>12, <2>13, <2>14 DEF Orderly
<1> QED BY <1>2, <1>10, <1>11, <1>12, <1>13, <1>14 DEF SInv

---------------------------------------------------------------------------
\* Every step preserves the invariant.
LEMMA SStepInv == SInv /\ [SNext]_allVars => SInv'
<1> SUFFICES ASSUME SInv, [SNext]_allVars PROVE SInv'
  OBVIOUS
<1>1. CASE UNCHANGED allVars
  <2>1. /\ UNCHANGED <<now, made, table, queued_tasks, pc, task, runs, outcome, faults>>
        /\ UNCHANGED <<scheduled_tasks, nextId, spc, todo, draft, batch, origin, behind>>
    BY <1>1 DEF allVars, vars, scheduleVars, loopVars, workerVars, history
  <2>2. overlapped' = overlapped
    BY <1>1, Zenon DEF allVars, scheduleVars
  <2>3. IInv'
    BY <1>1, StepInv DEF SInv, allVars
  <2>4. STypeOK' /\ SRecords' /\ ClocksAgree' /\ ClaimsAgree'
    BY <2>1, <2>2, <2>3
    DEF SInv, IInv, STypeOK, SRecords, ClocksAgree, ClaimsAgree, ClaimOf, IsFiring, After
  <2>5. Orderly => Orderly'
    BY <2>1, <2>2
    DEF Orderly, RegisteredOnce, Registering, FiringsAgree, IsFiring, After, FlightsAgree,
        InFlight, OfRow, ClaimOf, PostsAgree, PostedBefore, After, OncePerFiring, SameFiring,
        NoStranded
  <2> QED BY <2>2, <2>3, <2>4, <2>5 DEF SInv
<1>2. CASE SNext
  <2>1. IInv'
    BY <1>2, QueueInv
  <2>2. CASE QueueStep
    BY <2>1, <2>2, QueueStepInv
  <2>3. ASSUME NEW i \in Schedulers, SchedulerStep(i) PROVE SInv'
    BY <2>1, <2>3, QuietStepsInv, MigrateInv, RegisterInv, InsertScheduleInv, ClaimSelectInv,
       ClaimEndsInv, SkipBadCronInv, PostBeginInv, PostCommitInv
    DEF SchedulerStep
  <2>4. ASSUME NEW i \in Schedulers, SchedulerFault(i) PROVE SInv'
    BY <2>1, <2>4, QuietStepsInv, ClaimEndsInv, PostFailsInv DEF SchedulerFault
  <2> QED BY <1>2, <2>2, <2>3, <2>4 DEF SNext
<1> QED BY <1>1, <1>2

\* The invariant holds in every reachable state.
LEMMA SInductiveInv == SSpec => []SInv
<1> QED BY SInitInv, SStepInv, PTL DEF SSpec

\* The scheduler's variables and the queue's keep their types, whatever crashes,
\* failed claims, rolled-back posts and migrations come between.
THEOREM STypeCorrect == SSpec => []STypeOK
<1>1. SInv => STypeOK
  BY DEF SInv
<1> QED BY <1>1, SInductiveInv, PTL

\* claim_due_scheduled_tasks and post_scheduled_task see to it that one firing of
\* a schedule is posted once, unless some process computes the next one from a
\* clock that has not reached it.
THEOREM Once == SSpec => []OncePerFiring
<1>1. SInv => OncePerFiring
  BY Zenon DEF SInv, Orderly, OncePerFiring
<1> QED BY <1>1, SInductiveInv, PTL

\* At most one scheduler is posting a given schedule, and without a fault a
\* locked one is being posted or has a bad cron string.
THEOREM NotStuck == SSpec => []NoStuckSchedule
<1>1. SInv => NoStuckSchedule
  <2> SUFFICES ASSUME SInv, faults = 0, ~overlapped, NEW n \in DOMAIN scheduled_tasks
      PROVE  /\ Cardinality({i \in Schedulers : InFlight(i, n)}) <= 1
             /\ scheduled_tasks[n].locked =>
                  \/ scheduled_tasks[n].function_name \in BadCron
                  \/ \E i \in Schedulers : InFlight(i, n)
    BY DEF NoStuckSchedule
  <2>1. FlightsAgree /\ NoStranded
    BY Zenon DEF SInv, Orderly
  <2> DEFINE S == {i \in Schedulers : InFlight(i, n)}
  <2>2. \A i, j \in S : i = j
    BY <2>1 DEF FlightsAgree
  <2>3. Cardinality(S) <= 1
    <3>1. CASE S = {}
      BY <3>1, FS_EmptySet
    <3>2. CASE S # {}
      <4>1. PICK i \in S : TRUE
        BY <3>2
      <4>2. S = {i}
        BY <2>2, <4>1
      <4>3. Cardinality({i}) = 1
        BY FS_Singleton
      <4> QED BY <4>2, <4>3
    <3> QED BY <3>1, <3>2
  <2> QED BY <2>1, <2>3 DEF NoStranded
<1> QED BY <1>1, SInductiveInv, PTL

---------------------------------------------------------------------------
\* What a step may do to a row that is there before and after it.
Advance(n) ==
  ~overlapped' /\ scheduled_tasks[n] # scheduled_tasks'[n] =>
    \/ /\ scheduled_tasks'[n] = [scheduled_tasks[n] EXCEPT !.locked = TRUE]
       /\ scheduled_tasks[n].time_scheduled <= now
    \/ /\ scheduled_tasks[n].locked /\ ~scheduled_tasks'[n].locked
       /\ \/ scheduled_tasks'[n].time_scheduled = Never
          \/ scheduled_tasks'[n].time_scheduled > scheduled_tasks[n].time_scheduled
          \/ scheduled_tasks[n].time_scheduled \in behind[scheduled_tasks[n].function_name]

\* A claim changes due rows, and only their lock.
LEMMA ClaimAdvances ==
  ASSUME SInv, NEW i \in Schedulers, ClaimCommit(i) \/ ClaimLost(i),
         NEW n \in DOMAIN scheduled_tasks
  PROVE  Advance(n)
<1>1. spc[i] = "claim" /\ LockRows(batch[i])
  BY DEF ClaimCommit, ClaimLost, At
<1>2. CASE ~\E c \in batch[i] : c.id = n
  BY <1>1, <1>2 DEF LockRows, Advance
<1>3. CASE \E c \in batch[i] : c.id = n
  <2>1. PICK c \in batch[i] : c.id = n
    BY <1>3
  <2>2. c = ClaimOf(n) /\ c.time_scheduled <= now
    BY <1>1, <2>1 DEF SInv, ClaimsAgree, ClocksAgree
  <2>3. scheduled_tasks[n].time_scheduled <= now
    BY <2>2 DEF ClaimOf
  <2>4. scheduled_tasks'[n] = [scheduled_tasks[n] EXCEPT !.locked = TRUE]
    BY <1>1, <1>3 DEF LockRows
  <2> QED BY <2>3, <2>4 DEF Advance
<1> QED BY <1>2, <1>3

\* A post that commits changes the row it has claimed, which is locked, and
\* moves it to a later firing.
LEMMA PostAdvances ==
  ASSUME SInv, NEW i \in Schedulers, PostCommit(i), NEW n \in DOMAIN scheduled_tasks
  PROVE  Advance(n)
<1> DEFINE d == draft[i]
<1>1. spc[i] = "commit"
  BY DEF PostCommit, At
<1>2. CASE n # d.claim.id
  <2>1. scheduled_tasks'[n] = scheduled_tasks[n]
    BY <1>2, PostCommitEffect
  <2> QED BY <2>1 DEF Advance
<1>3. CASE n = d.claim.id
  <2>1. d.claim \in Claim /\ d.next \in Times
    BY PostCommitEffect
  <2>2. scheduled_tasks'[n].time_scheduled = d.next /\ ~scheduled_tasks'[n].locked
    BY <1>3, PostCommitEffect
  <2>3. ASSUME ~overlapped'
        PROVE  /\ scheduled_tasks[n].locked
               /\ \/ d.next = Never
                  \/ d.next > scheduled_tasks[n].time_scheduled
                  \/ scheduled_tasks[n].time_scheduled \in behind[scheduled_tasks[n].function_name]
    <3>1. Orderly
      BY <2>3, Zenon DEF PostCommit, SInv
    <3>2. OfRow(d.claim)
      BY <1>1, <3>1 DEF Orderly, FlightsAgree
    <3>3. /\ scheduled_tasks[n].locked
          /\ scheduled_tasks[n].time_scheduled = d.claim.time_scheduled
          /\ scheduled_tasks[n].function_name = d.claim.function_name
      BY <1>3, <3>2 DEF OfRow, ClaimOf
    <3>4. After(d.claim.function_name, d.next, d.claim.time_scheduled)
      BY <1>1, <3>1 DEF Orderly, FiringsAgree
    <3>5. d.claim.time_scheduled \in Nat
      BY <2>1 DEF Claim
    <3> HIDE DEF d
    <3> QED BY <2>1, <3>3, <3>4, <3>5, ScheduleAssumption DEF Times, After
  <2> QED BY <2>2, <2>3 DEF Advance
<1> QED BY <1>2, <1>3

\* A row is unlocked only by post_scheduled_task, which moves it to a later firing
\* unless it was computed from a clock short of the row's own.
THEOREM Advances == SSpec => ScheduleAdvances
<1>1. ASSUME SInv, [SNext]_allVars, NEW n \in DOMAIN scheduled_tasks \cap DOMAIN scheduled_tasks'
      PROVE  Advance(n)
  <2>1. CASE UNCHANGED scheduled_tasks
    BY <2>1 DEF Advance
  <2>2. ASSUME NEW i \in Schedulers, Migrate(i) PROVE FALSE
    BY <1>1, <2>2 DEF Migrate
  <2>3. ASSUME NEW i \in Schedulers, InsertSchedule(i) PROVE Advance(n)
    <3>1. n # nextId
      BY <1>1 DEF SInv, STypeOK
    <3>2. scheduled_tasks'[n] = scheduled_tasks[n]
      BY <1>1, <2>3, <3>1 DEF InsertSchedule
    <3> QED BY <3>2 DEF Advance
  <2>4. ASSUME NEW i \in Schedulers, ClaimCommit(i) \/ ClaimLost(i) PROVE Advance(n)
    BY <1>1, <2>4, ClaimAdvances
  <2>5. ASSUME NEW i \in Schedulers, PostCommit(i) PROVE Advance(n)
    BY <1>1, <2>5, PostAdvances
  <2>6. ASSUME NEW i \in Schedulers,
               SchedulerStep(i) \/ SchedulerFault(i), ~UNCHANGED scheduled_tasks
        PROVE  \/ Migrate(i) \/ InsertSchedule(i) \/ ClaimCommit(i) \/ ClaimLost(i)
               \/ PostCommit(i)
    BY <2>6
    DEF SchedulerStep, SchedulerFault, Join, Register, StartScheduler, ClaimSelect, ClaimFails,
        SkipBadCron, PostBegin, PostFails, Sleep, WakeScheduler, CrashScheduler
  <2> QED BY <1>1, <2>1, <2>2, <2>3, <2>4, <2>5, <2>6
          DEF SNext, QueueStep, allVars, scheduleVars
<1>2. SInv /\ [SNext]_allVars =>
        [\A n \in DOMAIN scheduled_tasks \cap DOMAIN scheduled_tasks' :
           ~overlapped' /\ scheduled_tasks[n] # scheduled_tasks'[n] =>
             \/ /\ scheduled_tasks'[n] = [scheduled_tasks[n] EXCEPT !.locked = TRUE]
                /\ scheduled_tasks[n].time_scheduled <= now
             \/ /\ scheduled_tasks[n].locked /\ ~scheduled_tasks'[n].locked
                /\ \/ scheduled_tasks'[n].time_scheduled = Never
                   \/ scheduled_tasks'[n].time_scheduled > scheduled_tasks[n].time_scheduled
                   \/ scheduled_tasks[n].time_scheduled \in behind[scheduled_tasks[n].function_name]
        ]_allVars
  BY <1>1, Zenon DEF Advance
<1> QED BY <1>2, SInductiveInv, PTL DEF SSpec, ScheduleAdvances

\* The queue keeps its own promises when the schedulers feed it: no row is in
\* two workers' hands, no handler is started twice, and what is finished is over.
THEOREM QueueKeptSafe == SSpec => [](ExclusiveClaim /\ AtMostOnce /\ FinishedIsOver)
<1>1. SInv => ExclusiveClaim /\ AtMostOnce /\ FinishedIsOver
  BY DEF SInv, IInv
<1> QED BY <1>1, SInductiveInv, PTL
=============================================================================
