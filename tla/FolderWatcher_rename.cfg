\* Renames of finished containers may fail.
CONSTANTS
  Files = {f1, f2}
  NoFile = NoFile
  Sizes = {small, large}
  NoSize = NoSize
  Shred = FALSE
  MaxWrites = 1
  Faults = {"rename"}
  MaxFaults = 1
SPECIFICATION Spec
INVARIANTS
  FingerprintMeansEncrypted
