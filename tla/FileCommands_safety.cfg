\* Two commands, at once or one after the other, while others write and delete.
CONSTANTS
  Jobs = {j1, j2}
  Names <- DocNames
  Shared = {"doc", "doc.w", "doc.w (1)"}
  NoName = NoName
  NoFile = NoFile
  Requests <- AllRequests
  NoRequest = NoRequest
  ContainerOf <- DocContainers
  Siblings <- DocSiblings
  Before <- DocAndOldContainer
  Settings = {TRUE, FALSE}
  MaxWrites = 3
  Faults = {"create", "keyfile", "transform", "rename", "unlink", "shred", "crash"}
  MaxFaults = 1
SYMMETRY JobSymmetry
SPECIFICATION Spec
INVARIANTS
  TypeOK
  NothingLost
  NeverTorn
  NoRemnants
PROPERTIES
  NoSilentOverwriteAlone
\* Each command is called once, then everything stops.
CHECK_DEADLOCK FALSE
