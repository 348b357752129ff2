\* Two files of the same recorded path, one other; two backups, one restoration.
CONSTANTS
  f = f
  g = g
  h = h
  m = m
  Files = {f, g, h, m}
  Ignored = {m}
  Path <- PathOf
  Keys = {k1, k2}
  Absent = Absent
  Part = Part
  Other = Other
  NoManifest = NoManifest
  MaxWrites = 1
  MaxBackups = 2
  MaxRestores = 1
  Faults = {"list", "call", "damage", "crash"}
  MaxFaults = 1
SPECIFICATION Spec
SYMMETRY KeySymmetry
INVARIANTS
  RestoredIsOneBackup
  GoodBackupRestores
  ManifestMeansContainers
  OneTargetInDoubt
CHECK_DEADLOCK FALSE
