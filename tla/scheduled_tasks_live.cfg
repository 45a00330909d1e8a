SPECIFICATION SFairSpec
CONSTANTS
  t1 = t1
  t2 = t2
  t3 = t3
  t4 = t4
  t5 = t5
  f = f
  g = g
  h = h
  a = a
  b = b
  w1 = w1
  NoTask = NoTask
  Never = Never
  Tasks = {t1, t2, t3}
  Functions = {f, h}
  Cron <- CronFH
  BadCron = {h}
  Schedulers = {a}
  Migrators = {a}
  Workers = {w1}
  Registry <- OneWorker
  Claimers = {}
  MaxTime = 2
  MaxFaults = 1
  MaxSkew = 0
PROPERTY EveryFiringRuns
