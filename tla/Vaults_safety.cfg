\* Two chosen files of the same name and one in a folder; everything may fail.
CONSTANTS
  a = a
  b = b
  c = c
CONSTANTS
  Files = {a, b, c}
  Nested = {c}
  Gone = Gone
  Link = Link
  NoVault = NoVault
  Torn = Torn
  NoContent = NoContent
  Place <- PlaceOf
  Selections <- TwoChoices
  Before <- OlderVault
  Sizes = {1, 2}
  Header = 1
  Limit = 5
  Margin = 2
  MaxChanges = 1
  MaxCreates = 1
  MaxOpens = 2
  MaxPending = 2
  Faults = {"keyfile", "encrypt", "rename", "copy", "remove", "extract", "crash"}
  MaxFaults = 2
SPECIFICATION Spec
INVARIANTS
  TypeOK
  CommittedVaultOpens
  NoRemains
  LockedMeansClosed
  DistinctFilesExtracted
CHECK_DEADLOCK FALSE
