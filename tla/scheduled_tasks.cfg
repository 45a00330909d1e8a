SPECIFICATION SSpec
CONSTANTS
  t1 = t1
  t2 = t2
  t3 = t3
  t4 = t4
  t5 = t5
  f = f
  g = g
  h = h
  a = a
  b = b
  w1 = w1
  NoTask = NoTask
  Never = Never
  Tasks = {t1, t2, t3}
  Functions = {f, g}
  Cron <- CronFG
  BadCron = {}
  Schedulers = {a, b}
  Migrators = {a}
  Workers = {}
  Registry <- NoWorkers
  Claimers = {}
  MaxTime = 2
  MaxFaults = 1
  MaxSkew = 2
SYMMETRY TaskSymmetry
INVARIANTS STypeOK OncePerFiring NoStuckSchedule
PROPERTY ScheduleAdvances
CHECK_DEADLOCK FALSE
