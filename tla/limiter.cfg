SPECIFICATION Spec
CONSTANTS
  t1 = t1  t2 = t2  t3 = t3
  Threads <- MCThreads
  PerMinute = 1
  PerDay = 3
  Minute = 1
  Day = 2
  MaxTime = 2
INVARIANTS TypeOK RoomIsBounded QuotaUpToThreads CountedInBoth
PROPERTIES RefusedWhenFull
SYMMETRY Symmetry
