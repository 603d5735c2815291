SPECIFICATION Spec
CONSTANTS
  t1 = t1  t2 = t2
  Threads <- MCThreads
  Retention = 1
  Faults = TRUE
  MaxRequests = 3
  MaxTime = 3
INVARIANTS TypeOK YoungRecordsSurvive CountedIsRecorded ScrapeIsConsistent AccessOnce
SYMMETRY Symmetry
