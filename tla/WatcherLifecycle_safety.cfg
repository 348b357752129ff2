\* Three calling threads, three sessions, a log shorter than a session.
CONSTANTS
  Callers = {c1, c2, c3}
  NoCaller = NoCaller
  MaxWorkers = 3
  MaxBatch = 2
  MaxFiles = 3
  MaxLog = 2
SPECIFICATION Spec
SYMMETRY CallerSymmetry
INVARIANTS
  TypeOK
  OneWorkerAtATime
  AuditTrailIsOfThisSession
  StatusIsHonest
  NoOrphanWorker
PROPERTIES
  ImplementsSessions
CHECK_DEADLOCK FALSE
