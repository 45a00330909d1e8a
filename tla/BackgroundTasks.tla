------------------------- MODULE BackgroundTasks -------------------------
(***************************************************************************)
(* The background-task queue of saps: the table saps.queued_tasks, the     *)
(* enqueue functions the #[background_task] macro generates, the workers   *)
(* of WorkerPool, and the two stored procedures that hand out rows.        *)
(*                                                                         *)
(* A worker talks to Postgres.  A call to saps.get_next_task() is a        *)
(* transaction of two statements: SELECT ... FOR UPDATE SKIP LOCKED takes  *)
(* a row lock, UPDATE sets the column `locked` and the commit releases the *)
(* row lock.  The two are separate steps here, so that other sessions, a   *)
(* crash or a lost connection come between them.                           *)
(*                                                                         *)
(* A failed poll that touched no row (worker_cycle's first `continue`)     *)
(* changes nothing and is a stuttering step.                               *)
(***************************************************************************)
EXTENDS Naturals, FiniteSets

CONSTANTS
  Tasks,       \* the UUIDs QueuedTask::new draws
  Functions,   \* the names stamped into function_name
  Workers,     \* the worker_cycle loops, of one process or of several
  Claimers,    \* database sessions that call saps.claim_task directly
  Registry,    \* Registry[w]: the names in TASK_REGISTRY of w's build
  NoTask,      \* "this session holds no row"
  MaxTime,     \* bound on the clocks
  MaxSkew,     \* bound on how far a process's clock is from the database's
  MaxFaults    \* bound on crashes, lost replies and failed updates

ASSUME ConstantsAssumption ==
  /\ NoTask \notin Tasks
  /\ Workers \cap Claimers = {}
  /\ Registry \in [Workers -> SUBSET Functions]
  /\ MaxTime \in Nat
  /\ MaxSkew \in Nat
  /\ MaxFaults \in Nat

VARIABLES
  now,           \* the database's clock
  made,          \* tasks built in memory by QueuedTask::new
  table,         \* tasks whose INSERT has committed
  queued_tasks,  \* the columns of every task that was built
  pc,            \* where each session is in its loop
  task,          \* the row each session holds (row lock, or claimed)
  runs,          \* history: how often the handler of a task was started
  outcome,       \* history: how the last run of a task ended
  faults         \* faults so far

workerVars == <<pc, task>>
history    == <<runs, outcome>>
vars == <<now, made, table, queued_tasks, workerVars, history, faults>>

Sessions == Workers \cup Claimers
Finished == {"completed", "exited"}
TaskStatus == {"pending", "in_progress"} \cup Finished
QueuedTask == [function_name : Functions, status : TaskStatus,
               time_posted : 0..MaxTime, locked : BOOLEAN]
Outcomes == {"none", "ok", "err", "panic"}

\* "select": about to poll; "update": row lock held, UPDATE not yet committed;
\* "lookup", "run": between claim and outcome; "completed", "exited": about
\* to write that status; "asleep": sleep(interval); "down": process not running.
Places == {"select", "update", "lookup", "run", "asleep", "down"} \cup Finished

\* The loop points at which a worker has a claimed task in hand.
Holding == {"lookup", "run"} \cup Finished

TypeOK ==
  /\ now \in 0..MaxTime
  /\ made \subseteq Tasks
  /\ table \subseteq made
  /\ queued_tasks \in [made -> QueuedTask]
  /\ pc \in [Sessions -> Places]
  /\ task \in [Sessions -> Tasks \cup {NoTask}]
  /\ runs \in [Tasks -> Nat]
  /\ outcome \in [Tasks -> Outcomes]
  /\ faults \in 0..MaxFaults

---------------------------------------------------------------------------
(* Helpers *)

\* Rows on which some session's open transaction holds a row lock.
RowLocked == {task[s] : s \in {x \in Sessions : pc[x] = "update"}}

\* The rows of S a SELECT ... ORDER BY time_posted LIMIT 1 may return.
Oldest(S) == {t \in S : \A u \in S :
                queued_tasks[t].time_posted <= queued_tasks[u].time_posted}

\* Faulty: SKIP LOCKED and FOR UPDATE are dropped from the SELECT.
UnlockedNoRowLock == {t \in table : ~queued_tasks[t].locked}
\* Faulty: the SELECT asks for status = 'pending' as well.
UnlockedPending == {t \in table \ RowLocked :
                      ~queued_tasks[t].locked /\ queued_tasks[t].status = "pending"}
\* Faulty: claim_task's SELECT does not ask for a pending row.
PendingOfAnyStatus(f) == {t \in table \ RowLocked : queued_tasks[t].function_name = f}

\* What get_next_task's SELECT sees, and what claim_task(f)'s SELECT sees.
Unlocked   == {t \in table \ RowLocked : ~queued_tasks[t].locked}
PendingOf(f) == {t \in table \ RowLocked :
                   /\ queued_tasks[t].status = "pending"
                   /\ queued_tasks[t].function_name = f}

Goto(s, place, t) ==
  /\ pc'   = [pc EXCEPT ![s] = place]
  /\ task' = [task EXCEPT ![s] = t]

Fault == faults < MaxFaults /\ faults' = faults + 1

\* chrono::Utc::now(): what a process may read off its own host's clock, which
\* is behind or ahead of the database's.
Readings == {x \in 0..MaxTime : x <= now + MaxSkew /\ now <= x + MaxSkew}

Init ==
  /\ now = 0
  /\ made = {} /\ table = {}
  /\ queued_tasks = [t \in {} |-> 0]
  /\ pc = [s \in Sessions |-> "select"]
  /\ task = [s \in Sessions |-> NoTask]
  /\ runs = [t \in Tasks |-> 0]
  /\ outcome = [t \in Tasks |-> "none"]
  /\ faults = 0

---------------------------------------------------------------------------
(* Enqueueing *)

\* Faulty: the status is written in a spelling from_row does not know.
NewMisspelt(t, f, clock) ==
  /\ t \in Tasks \ made
  /\ made' = made \cup {t}
  /\ queued_tasks' = [u \in made \cup {t} |->
        IF u = t THEN [function_name |-> f, status |-> "queued",
                       time_posted |-> clock, locked |-> FALSE]
        ELSE queued_tasks[u]]

\* QueuedTask::new: a fresh id, status pending, unlocked, stamped with the clock
\* of the process that makes it.
New(t, f, clock) ==
  /\ t \in Tasks \ made
  /\ made' = made \cup {t}
  /\ queued_tasks' = [u \in made \cup {t} |->
        IF u = t THEN [function_name |-> f, status |-> "pending",
                       time_posted |-> clock, locked |-> FALSE]
        ELSE queued_tasks[u]]

\* The enqueue function builds the row; its INSERT is a later await.
Build(t, f) ==
  /\ \E clock \in Readings : New(t, f, clock)
  /\ UNCHANGED <<now, table, workerVars, history, faults>>

\* insert_background_task commits.  (A failed one leaves t out for ever.)
Insert(t) ==
  /\ t \in made \ table
  /\ table' = table \cup {t}
  /\ UNCHANGED <<now, made, queued_tasks, workerVars, history, faults>>

Tick ==
  /\ now < MaxTime
  /\ now' = now + 1
  /\ UNCHANGED <<made, table, queued_tasks, workerVars, history, faults>>

---------------------------------------------------------------------------
(* saps.get_next_task() as a worker calls it *)

GetNextSelect(w) ==
  /\ pc[w] = "select"
  /\ \/ \E t \in Oldest(Unlocked) : Goto(w, "update", t)
     \/ Unlocked = {} /\ Goto(w, "asleep", NoTask)
  /\ UNCHANGED <<now, made, table, queued_tasks, history, faults>>

\* Faulty: the UPDATE leaves the column `locked` alone.
LockForgotten(t) == UNCHANGED queued_tasks

Lock(t) == queued_tasks' = [queued_tasks EXCEPT ![t].locked = TRUE]

\* UPDATE ... SET locked = TRUE commits and the row reaches the worker.
GetNextCommit(w) ==
  /\ pc[w] = "update"
  /\ Lock(task[w])
  /\ Goto(w, "lookup", task[w])
  /\ UNCHANGED <<now, made, table, history, faults>>

\* The commit happened, but the worker sees an error: the reply is lost, or
\* from_row rejects it.  The worker polls again; the row stays locked.
GetNextLost(w) ==
  /\ pc[w] = "update"
  /\ Fault
  /\ Lock(task[w])
  /\ Goto(w, "select", NoTask)
  /\ UNCHANGED <<now, made, table, runs, outcome>>

\* The transaction is rolled back: row lock gone, column untouched.
GetNextRollback(w) ==
  /\ pc[w] = "update"
  /\ Fault
  /\ Goto(w, "select", NoTask)
  /\ UNCHANGED <<now, made, table, queued_tasks, history>>

---------------------------------------------------------------------------
(* The rest of worker_cycle *)

\* Find the handler by name and start it on a blocking thread; a name that
\* is not registered is logged and dropped, the row stays as it is.
Lookup(w) ==
  /\ pc[w] = "lookup"
  /\ IF queued_tasks[task[w]].function_name \in Registry[w]
     THEN /\ Goto(w, "run", task[w])
          /\ runs' = [runs EXCEPT ![task[w]] = @ + 1]
     ELSE /\ Goto(w, "select", NoTask)
          /\ UNCHANGED runs
  /\ UNCHANGED <<now, made, table, queued_tasks, outcome, faults>>

\* Faulty: a panic is recorded like a normal end.
HandlerEndsUnseen(w, r) ==
  /\ pc[w] = "run"
  /\ outcome' = [outcome EXCEPT ![task[w]] = r]
  /\ Goto(w, "completed", task[w])
  /\ UNCHANGED <<now, made, table, queued_tasks, runs, faults>>

\* The handler ends.  JoinHandle::await yields Err only for a panic: a handler
\* that returns Err(SapsError) is Ok(Err(..)) and takes the `Ok(_)` arm.
HandlerEnds(w, r) ==
  /\ pc[w] = "run"
  /\ outcome' = [outcome EXCEPT ![task[w]] = r]
  /\ Goto(w, IF r = "panic" THEN "exited" ELSE "completed", task[w])
  /\ UNCHANGED <<now, made, table, queued_tasks, runs, faults>>

\* Faulty: only completed tasks are marked.
MarkCompletedOnly(w) ==
  /\ pc[w] \in Finished
  /\ queued_tasks' = IF pc[w] = "completed"
                     THEN [queued_tasks EXCEPT ![task[w]].status = pc[w]]
                     ELSE queued_tasks
  /\ Goto(w, "select", NoTask)
  /\ UNCHANGED <<now, made, table, history, faults>>

\* Faulty: marking a task also resets `locked`.
MarkUnlocks(w) ==
  /\ pc[w] \in Finished
  /\ task[w] \notin RowLocked
  /\ queued_tasks' = [queued_tasks EXCEPT ![task[w]].status = pc[w],
                                         ![task[w]].locked = FALSE]
  /\ Goto(w, "select", NoTask)
  /\ UNCHANGED <<now, made, table, history, faults>>

\* mark_background_task_as_completed / _as_exited: an UPDATE by id alone,
\* which waits while another session holds the row lock.
Mark(w) ==
  /\ pc[w] \in Finished
  /\ task[w] \notin RowLocked
  /\ queued_tasks' = [queued_tasks EXCEPT ![task[w]].status = pc[w]]
  /\ Goto(w, "select", NoTask)
  /\ UNCHANGED <<now, made, table, history, faults>>

\* The update fails and `let _ =` drops the error.
MarkFails(w) ==
  /\ pc[w] \in Finished
  /\ Fault
  /\ Goto(w, "select", NoTask)
  /\ UNCHANGED <<now, made, table, queued_tasks, history>>

Wake(w) ==
  /\ pc[w] = "asleep"
  /\ Goto(w, "select", NoTask)
  /\ UNCHANGED <<now, made, table, queued_tasks, history, faults>>

\* The worker's process dies; Postgres rolls back its open transaction.
Crash(w) ==
  /\ pc[w] # "down"
  /\ Fault
  /\ Goto(w, "down", NoTask)
  /\ UNCHANGED <<now, made, table, queued_tasks, history>>

\* init_workers of the next process.
Restart(w) ==
  /\ pc[w] = "down"
  /\ Goto(w, "select", NoTask)
  /\ UNCHANGED <<now, made, table, queued_tasks, history, faults>>

---------------------------------------------------------------------------
(* saps.claim_task(p_function_name), created by the same migration *)

ClaimTaskSelect(c, f) ==
  /\ pc[c] = "select"
  /\ \E t \in Oldest(PendingOf(f)) : Goto(c, "update", t)
  /\ UNCHANGED <<now, made, table, queued_tasks, history, faults>>

ClaimTaskCommit(c) ==
  /\ pc[c] = "update"
  /\ queued_tasks' = [queued_tasks EXCEPT ![task[c]].status = "in_progress"]
  /\ Goto(c, "select", NoTask)
  /\ UNCHANGED <<now, made, table, history, faults>>

---------------------------------------------------------------------------
WorkerStep(w) ==
  \/ GetNextSelect(w) \/ GetNextCommit(w)
  \/ Lookup(w) \/ (\E r \in Outcomes \ {"none"} : HandlerEnds(w, r))
  \/ Mark(w) \/ Wake(w) \/ Restart(w)

WorkerFault(w) ==
  GetNextLost(w) \/ GetNextRollback(w) \/ MarkFails(w) \/ Crash(w)

Enqueue ==
  \/ \E t \in Tasks, f \in Functions : Build(t, f)
  \/ \E t \in Tasks : Insert(t)

ClaimTask(c) == (\E f \in Functions : ClaimTaskSelect(c, f)) \/ ClaimTaskCommit(c)

Next ==
  \/ Enqueue
  \/ Tick
  \/ \E w \in Workers : WorkerStep(w) \/ WorkerFault(w)
  \/ \E c \in Claimers : ClaimTask(c)

Spec == Init /\ [][Next]_vars

\* Tokio polls every worker, Postgres answers, handlers end, a dead process is
\* started again, and a session that opened claim_task's transaction ends it.
\* Nothing obliges anyone to enqueue.
Fairness ==
  /\ \A w \in Workers : WF_vars(WorkerStep(w))
  /\ \A c \in Claimers : WF_vars(ClaimTaskCommit(c))

FairSpec == Spec /\ Fairness

---------------------------------------------------------------------------
(* Properties *)

\* No two workers ever have the same row in hand, whether they have only its
\* row lock or have claimed it: the promise of get_next_task's SKIP LOCKED.
ExclusiveClaim ==
  \A v, w \in Workers : task[v] = task[w] /\ task[v] # NoTask => v = w

\* A handler is started at most once per enqueued task, whatever crashes,
\* lost replies and failed updates happen on the way.
AtMostOnce == \A t \in Tasks : runs[t] <= 1

\* A final status is final: it is written after the one run of the row has
\* ended, no session has the row in hand then, and none is offered it again.
\* It records how the handler's thread was joined and not whether the task
\* succeeded: `exited` is a panic, `completed` a handler that returned, and one
\* that returned Err is among these.
FinishedIsOver ==
  \A t \in table : queued_tasks[t].status \in Finished =>
    /\ queued_tasks[t].locked
    /\ runs[t] = 1
    /\ \A s \in Sessions : task[s] # t
    /\ queued_tasks[t].status = "exited"    => outcome[t] = "panic"
    /\ queued_tasks[t].status = "completed" => outcome[t] \in {"ok", "err"}

Registered(t) == \A w \in Workers : queued_tasks[t].function_name \in Registry[w]

\* A locked row without a final status is in some worker's hands, unless a
\* fault or an unregistered name has stranded it: nothing else loses a task.
NoSilentLoss ==
  faults = 0 =>
    \A t \in table :
      queued_tasks[t].locked /\ Registered(t) =>
        \/ queued_tasks[t].status \in Finished
        \/ \E w \in Workers : task[w] = t /\ pc[w] \in Holding

\* Once a row is marked its status never changes, although the UPDATEs of
\* mark_* and claim_task would overwrite any earlier one.
FinalStatusStable ==
  [][\A t \in table : queued_tasks[t].status \in Finished =>
       queued_tasks'[t].status = queued_tasks[t].status]_vars

\* Every inserted row is claimed sooner or later: no newer row and no fault of
\* another worker keeps it waiting for ever.
EveryRowClaimed == \A t \in Tasks : (t \in table) ~> (t \in table /\ queued_tasks[t].locked)

\* Without faults every row whose name is registered ends with a final status.
EveryRowFinishes ==
  \A t \in Tasks : (t \in table /\ Registered(t)) ~>
    (t \in table /\ (queued_tasks[t].status \in Finished \/ faults > 0))

\* Some worker has t in hand at this point of its loop.
HeldAt(t, place) == \E w \in Workers : task[w] = t /\ pc[w] = place

\* The stage of a task, as the application sees it.
StageOf(t) ==
  IF t \notin table THEN "absent"
  ELSE IF ~queued_tasks[t].locked THEN "waiting"
  ELSE IF queued_tasks[t].status \in Finished THEN queued_tasks[t].status
  ELSE IF HeldAt(t, "lookup") THEN "taken"
  ELSE IF HeldAt(t, "run") THEN "running"
  ELSE IF HeldAt(t, "completed") \/ HeldAt(t, "exited") THEN "ended"
  ELSE "dropped"

\* The queue, its workers and claim_task together implement at-most-once
\* delivery: every step of theirs is a step of TaskBoard or invisible there.
Board == INSTANCE TaskBoard WITH job <- [t \in Tasks |-> StageOf(t)]
ImplementsTaskBoard == Board!Spec
============================================================================
