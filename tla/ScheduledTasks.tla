-------------------------- MODULE ScheduledTasks --------------------------
(***************************************************************************)
(* The scheduler of saps: the table saps.scheduled_tasks, its migration,   *)
(* register_scheduled_task, and scheduler_cycle, which claims every due    *)
(* row and posts each to the queue of BackgroundTasks.                     *)
(*                                                                         *)
(* An application process may migrate (the table is dropped and made       *)
(* again), registers its schedules and then runs the scheduler's loop; it  *)
(* may crash anywhere and start over.  Several processes share the table.  *)
(* The clock `now` is the database's: it decides which rows are due.  The  *)
(* next firing of a schedule is computed from the clock of the process     *)
(* that registers or posts it, and every process has its own.              *)
(*                                                                         *)
(* Here the queue is fed by the schedulers alone.                          *)
(***************************************************************************)
EXTENDS BackgroundTasks

CONSTANTS
  Schedulers,  \* the application processes that run scheduler_cycle
  Migrators,   \* those that run the migration and register at their start
  Cron,        \* Cron[f]: the instants at which the schedule of f fires
  BadCron,     \* names whose row holds a cron string that does not parse
  Never        \* the NULL of the column time_scheduled

ASSUME ScheduleAssumption ==
  /\ Migrators \subseteq Schedulers
  /\ BadCron \subseteq Functions
  /\ Cron \in [Functions -> SUBSET Nat]
  /\ Never \notin Nat

VARIABLES
  scheduled_tasks,  \* the rows, by their SERIAL id
  nextId,           \* the next value of the SERIAL
  spc,              \* where each process is
  todo,             \* the schedules it has yet to register
  draft,            \* the row it has built and not yet written
  batch,            \* the claimed rows it has yet to post
  origin,           \* history: the firing each posted task stands for
  behind,           \* history: firings the database's clock had reached when
                    \* a process, to compute the next, read its own as earlier
  overlapped        \* history: a migration ran beside another live process

queueVars == <<now, made, table, queued_tasks, workerVars, history>>
loopVars  == <<spc, todo, draft, batch>>
scheduleVars == <<scheduled_tasks, nextId, loopVars, origin, behind, overlapped>>
allVars == <<vars, scheduleVars>>

Times  == Nat \cup {Never}
Row    == [function_name : Functions, time_scheduled : Times, locked : BOOLEAN]
Claim  == [id : Nat, function_name : Functions, time_scheduled : Nat]
Firing == [function_name : Functions, instant : Nat]
NoDraft == [kind |-> "none"]

\* "register": starting up; "insert": schedule built, INSERT to come;
\* "poll": about to claim; "claim": row locks held, UPDATE not committed;
\* "post": going through the batch; "commit": about to commit one post.
Spots == {"down", "register", "insert", "poll", "claim", "post", "commit", "asleep"}

STypeOK ==
  /\ TypeOK
  /\ DOMAIN scheduled_tasks \subseteq 1..(nextId - 1)
  /\ \A n \in DOMAIN scheduled_tasks : scheduled_tasks[n] \in Row
  /\ nextId \in Nat \ {0}
  /\ spc \in [Schedulers -> Spots]
  /\ todo \in [Schedulers -> SUBSET Functions]
  /\ \A i \in Schedulers :
       /\ batch[i] \subseteq Claim
       /\ spc[i] = "insert" => draft[i].row \in Row
       /\ spc[i] = "commit" => draft[i].claim \in Claim /\ draft[i].task \in made \ table
  /\ DOMAIN origin \subseteq made
  /\ \A t \in DOMAIN origin : origin[t] \in Firing
  /\ behind \in [Functions -> SUBSET Nat]
  /\ overlapped \in BOOLEAN

---------------------------------------------------------------------------
(* Helpers *)

\* Faulty: a firing at the very instant the clock shows counts as upcoming.
UpcomingOrNow(f, clock) ==
  LET later == {x \in Cron[f] : x >= clock}
  IN  IF later = {} THEN Never ELSE CHOOSE x \in later : \A y \in later : x <= y

\* schedule.upcoming(Utc).next(): the first firing after the clock's reading.
Upcoming(f, clock) ==
  LET later == {x \in Cron[f] : x > clock}
  IN  IF later = {} THEN Never ELSE CHOOSE x \in later : \A y \in later : x <= y

\* Rows on which a claim's open transaction holds a row lock.
SchedulesRowLocked == UNION {{c.id : c \in batch[i]} : i \in {j \in Schedulers : spc[j] = "claim"}}

\* The rows claim_due_scheduled_tasks' SELECT returns.
Due == {n \in DOMAIN scheduled_tasks \ SchedulesRowLocked :
          /\ ~scheduled_tasks[n].locked
          /\ scheduled_tasks[n].time_scheduled # Never
          /\ scheduled_tasks[n].time_scheduled <= now}

ClaimOf(n) == [id |-> n, function_name |-> scheduled_tasks[n].function_name,
               time_scheduled |-> scheduled_tasks[n].time_scheduled]

\* The next firing of f is computed from this reading.
Read(f, clock) ==
  behind' = [behind EXCEPT ![f] = @ \cup {x \in Cron[f] : clock < x /\ x <= now}]

At(i, from, to) == spc[i] = from /\ spc' = [spc EXCEPT ![i] = to]
Leave(i, c) == batch' = [batch EXCEPT ![i] = @ \ {c}]

SInit ==
  /\ Init
  /\ scheduled_tasks = <<>> /\ nextId = 1
  /\ spc = [i \in Schedulers |-> "down"]
  /\ todo = [i \in Schedulers |-> {}]
  /\ draft = [i \in Schedulers |-> NoDraft]
  /\ batch = [i \in Schedulers |-> {}]
  /\ origin = [t \in {} |-> 0]
  /\ behind = [f \in Functions |-> {}]
  /\ overlapped = FALSE

---------------------------------------------------------------------------
(* Start of an application process *)

\* generate_migration_sql, one implicit transaction: DROP TABLE waits until
\* no other transaction is using the table; the SERIAL starts at 1 again.
Migrate(i) ==
  /\ i \in Migrators
  /\ At(i, "down", "register")
  /\ \A j \in Schedulers : spc[j] # "claim"
  /\ scheduled_tasks' = <<>> /\ nextId' = 1
  /\ todo' = [todo EXCEPT ![i] = Functions]
  /\ overlapped' = (overlapped \/ \E j \in Schedulers \ {i} : spc[j] # "down")
  /\ UNCHANGED <<queueVars, faults, draft, batch, origin, behind>>

\* A process that shares the table without migrating.
Join(i) ==
  /\ i \notin Migrators
  /\ At(i, "down", "poll")
  /\ UNCHANGED <<queueVars, faults, scheduled_tasks, nextId, todo, draft, batch, origin,
                 behind, overlapped>>

\* ScheduledTask::new: the first firing is computed before the INSERT is
\* awaited; a schedule without one is refused.  (A row whose cron string does
\* not parse gets in by insert_scheduled_task, which does not look at it.)
Register(i, f, clock) ==
  /\ f \in todo[i]
  /\ todo' = [todo EXCEPT ![i] = @ \ {f}]
  /\ Read(f, clock)
  /\ LET first == Upcoming(f, clock)
     IN  IF first = Never
         THEN At(i, "register", "register") /\ UNCHANGED draft
         ELSE /\ At(i, "register", "insert")
              /\ draft' = [draft EXCEPT ![i] =
                   [kind |-> "row",
                    row |-> [function_name |-> f, time_scheduled |-> first, locked |-> FALSE]]]
  /\ UNCHANGED <<queueVars, faults, scheduled_tasks, nextId, batch, origin, overlapped>>

\* Faulty: the id is read but not drawn, so that the next row has it as well.
InsertScheduleSameId(i) ==
  /\ At(i, "insert", "register")
  /\ scheduled_tasks' = [n \in DOMAIN scheduled_tasks \cup {nextId} |->
                           IF n = nextId THEN draft[i].row ELSE scheduled_tasks[n]]
  /\ draft' = [draft EXCEPT ![i] = NoDraft]
  /\ UNCHANGED <<queueVars, faults, nextId, todo, batch, origin, behind, overlapped>>

\* insert_scheduled_task; the row's id is drawn from the SERIAL.
InsertSchedule(i) ==
  /\ At(i, "insert", "register")
  /\ scheduled_tasks' = [n \in DOMAIN scheduled_tasks \cup {nextId} |->
                           IF n = nextId THEN draft[i].row ELSE scheduled_tasks[n]]
  /\ nextId' = nextId + 1
  /\ draft' = [draft EXCEPT ![i] = NoDraft]
  /\ UNCHANGED <<queueVars, faults, todo, batch, origin, behind, overlapped>>

\* SchedulerActor::init
StartScheduler(i) ==
  /\ todo[i] = {}
  /\ At(i, "register", "poll")
  /\ UNCHANGED <<queueVars, faults, scheduled_tasks, nextId, todo, draft, batch, origin,
                 behind, overlapped>>

---------------------------------------------------------------------------
(* saps.claim_due_scheduled_tasks() as scheduler_cycle calls it *)

ClaimSelect(i) ==
  /\ At(i, "poll", "claim")
  /\ batch' = [batch EXCEPT ![i] = {ClaimOf(n) : n \in Due}]
  /\ UNCHANGED <<queueVars, faults, scheduled_tasks, nextId, todo, draft, origin, behind,
                 overlapped>>

LockRows(claims) ==
  scheduled_tasks' = [n \in DOMAIN scheduled_tasks |->
    IF \E c \in claims : c.id = n THEN [scheduled_tasks[n] EXCEPT !.locked = TRUE]
                                  ELSE scheduled_tasks[n]]

ClaimCommit(i) ==
  /\ At(i, "claim", "post")
  /\ LockRows(batch[i])
  /\ UNCHANGED <<queueVars, faults, nextId, todo, draft, batch, origin, behind, overlapped>>

\* The rows are claimed, but the reply is lost or one row fails from_row: the
\* whole batch is dropped and the scheduler sleeps.
ClaimLost(i) ==
  /\ Fault
  /\ At(i, "claim", "asleep")
  /\ LockRows(batch[i])
  /\ batch' = [batch EXCEPT ![i] = {}]
  /\ UNCHANGED <<queueVars, nextId, todo, draft, origin, behind, overlapped>>

ClaimFails(i) ==
  /\ Fault
  /\ At(i, "claim", "asleep")
  /\ batch' = [batch EXCEPT ![i] = {}]
  /\ UNCHANGED <<queueVars, scheduled_tasks, nextId, todo, draft, origin, behind, overlapped>>

---------------------------------------------------------------------------
(* The rest of scheduler_cycle *)

\* Faulty: a bad cron string ends the loop over the batch.
SkipBadCronAndRest(i) ==
  /\ spc[i] = "post" /\ UNCHANGED spc
  /\ \E c \in batch[i] : c.function_name \in BadCron
  /\ batch' = [batch EXCEPT ![i] = {}]
  /\ UNCHANGED <<queueVars, faults, scheduled_tasks, nextId, todo, draft, origin, behind,
                 overlapped>>

\* "scheduler bad cron": the row stays locked.
SkipBadCron(i) ==
  /\ At(i, "post", "post")
  /\ \E c \in batch[i] : c.function_name \in BadCron /\ Leave(i, c)
  /\ UNCHANGED <<queueVars, faults, scheduled_tasks, nextId, todo, draft, origin, behind,
                 overlapped>>

\* The next firing is computed from the process's clock, which stamps the task
\* as well, then the transaction begins.
PostBegin(i, t) ==
  /\ At(i, "post", "commit")
  /\ \E c \in batch[i], clock \in Readings :
       /\ c.function_name \notin BadCron
       /\ Leave(i, c)
       /\ Read(c.function_name, clock)
       /\ New(t, c.function_name, clock)
       /\ draft' = [draft EXCEPT ![i] =
            [kind |-> "post", claim |-> c, task |-> t,
             next |-> Upcoming(c.function_name, clock)]]
  /\ UNCHANGED <<now, table, workerVars, history, faults, scheduled_tasks, nextId, todo,
                 origin, overlapped>>

\* Faulty: the schedule is moved on, but stays locked.
PostCommitKeepsLock(i) ==
  /\ At(i, "commit", "post")
  /\ LET d == draft[i]
     IN  /\ table' = table \cup {d.task}
         /\ scheduled_tasks' =
              IF d.claim.id \in DOMAIN scheduled_tasks
              THEN [scheduled_tasks EXCEPT ![d.claim.id].time_scheduled = d.next]
              ELSE scheduled_tasks
         /\ origin' = [t \in DOMAIN origin \cup {d.task} |->
              IF t = d.task THEN [function_name |-> d.claim.function_name,
                                  instant |-> d.claim.time_scheduled]
                            ELSE origin[t]]
  /\ draft' = [draft EXCEPT ![i] = NoDraft]
  /\ UNCHANGED <<now, made, queued_tasks, workerVars, history, faults, nextId, todo, batch,
                 behind, overlapped>>

\* post_scheduled_task commits both its writes.  The UPDATE is by id alone: it
\* waits for a row lock, and touches nothing when there is no such row.
PostCommit(i) ==
  /\ At(i, "commit", "post")
  /\ LET d == draft[i]
         n == d.claim.id
     IN  /\ n \notin SchedulesRowLocked
         /\ table' = table \cup {d.task}
         /\ scheduled_tasks' =
              IF n \in DOMAIN scheduled_tasks
              THEN [scheduled_tasks EXCEPT ![n].time_scheduled = d.next, ![n].locked = FALSE]
              ELSE scheduled_tasks
         /\ origin' = [t \in DOMAIN origin \cup {d.task} |->
              IF t = d.task THEN [function_name |-> d.claim.function_name,
                                  instant |-> d.claim.time_scheduled]
                            ELSE origin[t]]
  /\ draft' = [draft EXCEPT ![i] = NoDraft]
  /\ UNCHANGED <<now, made, queued_tasks, workerVars, history, faults, nextId, todo, batch,
                 behind, overlapped>>

\* Faulty: the two writes are two transactions and the second one fails, the
\* row being released as after a success.
PostFailsHalfway(i) ==
  /\ Fault
  /\ At(i, "commit", "post")
  /\ LET d == draft[i]
     IN  /\ table' = table \cup {d.task}
         /\ scheduled_tasks' =
              IF d.claim.id \in DOMAIN scheduled_tasks
              THEN [scheduled_tasks EXCEPT ![d.claim.id].locked = FALSE]
              ELSE scheduled_tasks
         /\ origin' = [t \in DOMAIN origin \cup {d.task} |->
              IF t = d.task THEN [function_name |-> d.claim.function_name,
                                  instant |-> d.claim.time_scheduled]
                            ELSE origin[t]]
  /\ draft' = [draft EXCEPT ![i] = NoDraft]
  /\ UNCHANGED <<now, made, queued_tasks, workerVars, history, nextId, todo, batch,
                 behind, overlapped>>

\* The transaction is rolled back; the row stays locked.
PostFails(i) ==
  /\ Fault
  /\ At(i, "commit", "post")
  /\ draft' = [draft EXCEPT ![i] = NoDraft]
  /\ UNCHANGED <<queueVars, scheduled_tasks, nextId, todo, batch, origin, behind, overlapped>>

Sleep(i) ==
  /\ batch[i] = {}
  /\ At(i, "post", "asleep")
  /\ UNCHANGED <<queueVars, faults, scheduled_tasks, nextId, todo, draft, batch, origin,
                 behind, overlapped>>

WakeScheduler(i) ==
  /\ At(i, "asleep", "poll")
  /\ UNCHANGED <<queueVars, faults, scheduled_tasks, nextId, todo, draft, batch, origin,
                 behind, overlapped>>

\* The process dies; open transactions are rolled back.
CrashScheduler(i) ==
  /\ Fault
  /\ spc[i] # "down"
  /\ spc' = [spc EXCEPT ![i] = "down"]
  /\ todo' = [todo EXCEPT ![i] = {}]
  /\ draft' = [draft EXCEPT ![i] = NoDraft]
  /\ batch' = [batch EXCEPT ![i] = {}]
  /\ UNCHANGED <<queueVars, scheduled_tasks, nextId, origin, behind, overlapped>>

---------------------------------------------------------------------------
SchedulerStep(i) ==
  \/ Migrate(i) \/ Join(i)
  \/ (\E f \in Functions, clock \in Readings : Register(i, f, clock)) \/ InsertSchedule(i) \/ StartScheduler(i)
  \/ ClaimSelect(i) \/ ClaimCommit(i)
  \/ SkipBadCron(i) \/ (\E t \in Tasks : PostBegin(i, t)) \/ PostCommit(i)
  \/ Sleep(i) \/ WakeScheduler(i)

SchedulerFault(i) ==
  ClaimLost(i) \/ ClaimFails(i) \/ PostFails(i) \/ CrashScheduler(i)

\* The steps of the queue itself.
QueueStep ==
  /\ \/ Tick
     \/ \E w \in Workers : WorkerStep(w) \/ WorkerFault(w)
     \/ \E c \in Claimers : ClaimTask(c)
  /\ UNCHANGED scheduleVars

SNext ==
  \/ QueueStep
  \/ \E i \in Schedulers : SchedulerStep(i) \/ SchedulerFault(i)

SSpec == SInit /\ [][SNext]_allVars

\* Tokio polls the scheduler and the workers, Postgres answers, handlers end,
\* and a dead process is started again.
SFairness ==
  /\ \A i \in Schedulers : WF_allVars(SchedulerStep(i))
  /\ \A w \in Workers : WF_allVars(WorkerStep(w) /\ UNCHANGED scheduleVars)

SFairSpec == SSpec /\ SFairness

---------------------------------------------------------------------------
(* Properties *)

SameFiring(t, u) ==
  /\ origin[t].function_name = origin[u].function_name
  /\ origin[t].instant = origin[u].instant

\* One firing of a schedule is posted to the queue once, across crashes,
\* failed posts, several schedulers with clocks of their own and restarts that
\* migrate.  Two things post it again: a process that computed the next firing
\* while its clock was still short of this one, which the database's clock had
\* reached, and a migration that dropped the table under a live scheduler.
OncePerFiring ==
  ~overlapped =>
    \A t, u \in DOMAIN origin : t # u /\ SameFiring(t, u) =>
      origin[t].instant \in behind[origin[t].function_name]

InFlight(i, n) ==
  \/ spc[i] = "post" /\ \E c \in batch[i] : c.id = n
  \/ spc[i] = "commit" /\ (draft[i].claim.id = n \/ \E c \in batch[i] : c.id = n)

\* A locked schedule is being posted by exactly one scheduler, unless its cron
\* string is bad; only a fault or an overlapping migration strands it.
NoStuckSchedule ==
  faults = 0 /\ ~overlapped =>
    \A n \in DOMAIN scheduled_tasks :
      /\ Cardinality({i \in Schedulers : InFlight(i, n)}) <= 1
      /\ scheduled_tasks[n].locked =>
           \/ scheduled_tasks[n].function_name \in BadCron
           \/ \E i \in Schedulers : InFlight(i, n)

\* A row is unlocked only by the post that sets its firing time, and the new
\* time is a later one, unless the scheduler computed it from a clock short of
\* the old one; until then nothing but the lock of a due row changes.
ScheduleAdvances ==
  [][\A n \in DOMAIN scheduled_tasks \cap DOMAIN scheduled_tasks' :
       ~overlapped' /\ scheduled_tasks[n] # scheduled_tasks'[n] =>
         \/ /\ scheduled_tasks'[n] = [scheduled_tasks[n] EXCEPT !.locked = TRUE]
            /\ scheduled_tasks[n].time_scheduled <= now
         \/ /\ scheduled_tasks[n].locked /\ ~scheduled_tasks'[n].locked
            /\ \/ scheduled_tasks'[n].time_scheduled = Never
               \/ scheduled_tasks'[n].time_scheduled > scheduled_tasks[n].time_scheduled
               \/ scheduled_tasks[n].time_scheduled \in behind[scheduled_tasks[n].function_name]
    ]_allVars

\* A due firing is posted, picked up and ends with a final status, unless a
\* fault intervenes or a name is not registered with the workers.
EveryFiringRuns ==
  \A f \in Functions \ BadCron, x \in 1..MaxTime :
    (\E n \in Due : /\ scheduled_tasks[n].function_name = f
                    /\ scheduled_tasks[n].time_scheduled = x)
    ~> \/ faults > 0
       \/ \E t \in DOMAIN origin :
            /\ origin[t].function_name = f /\ origin[t].instant = x
            /\ queued_tasks[t].status \in Finished \/ ~Registered(t)
==========================================================================
