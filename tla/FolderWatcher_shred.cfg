\* The watcher shreds the sources; everything may fail.
CONSTANTS
  Files = {f1, f2}
  NoFile = NoFile
  Sizes = {small, large}
  NoSize = NoSize
  Shred = TRUE
  MaxWrites = 3
  Faults = {"encrypt", "rename", "shred", "crash"}
  MaxFaults = 2
SPECIFICATION FairSpec
INVARIANTS
  NothingLostUnnoticed
  RemainsNotSealed
PROPERTIES
  SettlesEmpty
  ContainersOnlyAdvance
