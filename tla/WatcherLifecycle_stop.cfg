\* The smallest instance in which a stop can find the worker busy.
CONSTANTS
  Callers = {main}
  NoCaller = NoCaller
  MaxWorkers = 1
  MaxBatch = 1
  MaxFiles = 1
  MaxLog = 1
SPECIFICATION FairSpec
PROPERTY StopReturns
CHECK_DEADLOCK FALSE
