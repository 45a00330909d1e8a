------------------------ MODULE MCScheduledTasks ------------------------
(* Finite instances of ScheduledTasks: f fires at 1 and 2, g at 2, and    *)
(* the row of h holds a cron string that does not parse.                  *)
EXTENDS ScheduledTasks, TLC

CONSTANTS t1, t2, t3, t4, t5, f, g, h, a, b, w1

CronFG == (f :> {1, 2}) @@ (g :> {2})
CronFH == (f :> {1, 2}) @@ (h :> {1})
NoWorkers == [w \in {} |-> {}]
OneWorker == w1 :> {f}
TaskSymmetry == Permutations(Tasks)
==========================================================================
