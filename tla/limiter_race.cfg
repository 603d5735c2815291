SPECIFICATION Spec
CONSTANTS
  t1 = t1  t2 = t2  t3 = t3
  Threads <- MCTwoThreads
  PerMinute = 2
  PerDay = 3
  Minute = 1
  Day = 3
  MaxTime = 4
INVARIANTS QuotaRespected
