\* One calling thread, as in the program, where commands run on the main thread.
CONSTANTS
  Callers = {main}
  NoCaller = NoCaller
  MaxWorkers = 3
  MaxBatch = 2
  MaxFiles = 2
  MaxLog = 1
SPECIFICATION FairSpec
PROPERTIES
  CallReturns
  StoppedKeyIsPurged
CHECK_DEADLOCK FALSE
