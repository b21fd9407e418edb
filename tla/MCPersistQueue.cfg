SPECIFICATION FairSpec
CONSTANTS
  j1 = j1
  j2 = j2
  t1 = t1
  t2 = t2
  c1 = c1
  c2 = c2
  Jobs <- MCJobs
  Threads <- MCThreads
  Callers <- MCCallers
  MaxWorkers = 1
  MaxQueueSize = 2
  NoJob = NoJob
  Sentinel = Sentinel
INVARIANTS OnePlace RowsMatchOutcome WorkersOutliveSentinels
PROPERTIES AcceptedIsSettled PersistNowReturns
CHECK_DEADLOCK FALSE
