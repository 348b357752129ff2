\* The watcher keeps the sources; encryptions fail and the process restarts.
CONSTANTS
  Files = {f1, f2}
  NoFile = NoFile
  Sizes = {small, large}
  NoSize = NoSize
  Shred = FALSE
  MaxWrites = 3
  Faults = {"encrypt", "crash"}
  MaxFaults = 2
SPECIFICATION FairSpec
INVARIANTS
  TypeOK
  FingerprintMeansEncrypted
PROPERTIES
  SettlesSealed
