\* Pools of two and four slots, keyfiles that are longer than a pool.
CONSTANTS
  LegacySize = 8
  FullSize = 16
  MaxRead = 5
  BlockSize = 2
  Passwords <- SomePasswords
  Contents <- SomeContents
  MaxKeyfiles = 2
  MaxSize = 6
SPECIFICATION Spec
INVARIANTS
  TypeOK
  InBounds
  PoolIsSum
  PasswordsToldApart
CHECK_DEADLOCK FALSE
