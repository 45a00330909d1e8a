SPECIFICATION FairSpec
CONSTANTS
  t1 = t1
  t2 = t2
  t3 = t3
  f = f
  g = g
  w1 = w1
  w2 = w2
  c1 = c1
  NoTask = NoTask
  Tasks = {t1, t2}
  Functions = {f, g}
  Workers = {w1, w2}
  Claimers = {c1}
  Registry <- MCRegistry
  MaxTime = 1
  MaxSkew = 1
  MaxFaults = 2
INVARIANTS TypeOK ExclusiveClaim AtMostOnce FinishedIsOver NoSilentLoss
PROPERTIES FinalStatusStable ImplementsTaskBoard EveryRowClaimed EveryRowFinishes
