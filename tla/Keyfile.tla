-------------------------------- MODULE Keyfile --------------------------------
(***************************************************************************)
(* Keyfiles (crypto/keyfile.rs): a password and keyfiles are mixed into an *)
(* effective password, one byte of a keyfile after the other, and          *)
(* a new keyfile is made of random bytes with the user's entropy folded in *)
(* and saved.  Each behaviour is one of the two.                           *)
(*                                                                         *)
(* A byte is a number, a checksum the set of its bits that are 1, so that  *)
(* XOR is the symmetric difference.  Random bytes and digests are left     *)
(* out: what counts is which of them go where, and how often.              *)
(***************************************************************************)
EXTENDS Integers, Sequences

CONSTANTS LegacySize,  \* KEYFILE_POOL_LEGACY_SIZE
          FullSize,    \* KEYFILE_POOL_SIZE
          MaxRead,     \* KEYFILE_MAX_READ_LEN
          BlockSize,   \* size of a digest
          Passwords,   \* passwords, sequences of bytes
          Contents,    \* what keyfiles may hold
          MaxKeyfiles, \* bound: keyfiles at once
          MaxSize      \* bound: the size of a new keyfile

Byte == 0 .. 255
Word == SUBSET (0 .. 31)

ASSUME PoolAssumption == /\ LegacySize \in Nat \ {0} /\ LegacySize % 4 = 0
                         /\ FullSize \in Nat \ {0} /\ FullSize % 4 = 0
ASSUME LimitsAssumption == /\ MaxRead \in Nat \ {0}
                           /\ BlockSize \in Nat \ {0}
                           /\ MaxKeyfiles \in Nat
                           /\ MaxSize \in Nat
ASSUME InputsAssumption == Passwords \subseteq Seq(Byte) /\ Contents \subseteq Seq(Byte)

-----------------------------------------------------------------------------
(* The running checksum.                                                    *)

a ^^ b == (a \ b) \cup (b \ a)
Bits(byte) == {i \in 0 .. 7 : (byte \div (2 ^ i)) % 2 = 1}
ShiftRight(word, n) == {i - n : i \in word \ (0 .. n - 1)}

\* 0xEDB88320
Polynomial == {31, 30, 29, 27, 26, 24, 23, 21, 20, 19, 15, 9, 8, 5}

Round(word) == IF 0 \in word THEN Polynomial ^^ ShiftRight(word, 1) ELSE ShiftRight(word, 1)
TwoRounds(word) == Round(Round(word))
EightRounds(word) == TwoRounds(TwoRounds(TwoRounds(TwoRounds(word))))

CrcTable == [index \in SUBSET (0 .. 7) |-> EightRounds(index)]
CrcStep(word, byte) == CrcTable[(word ^^ Bits(byte)) \cap (0 .. 7)] ^^ ShiftRight(word, 8)

CrcStart == 0 .. 31

\* The byte of a word from bit "low" on.
Bit(word, i) == IF i \in word THEN 1 ELSE 0
Lane(word, low) ==
  Bit(word, low) + 2 * Bit(word, low + 1) + 4 * Bit(word, low + 2) + 8 * Bit(word, low + 3)
    + 16 * Bit(word, low + 4) + 32 * Bit(word, low + 5) + 64 * Bit(word, low + 6)
    + 128 * Bit(word, low + 7)

-----------------------------------------------------------------------------
(* The pool and the effective password.                                     *)

PoolSize(length) == IF length <= LegacySize THEN LegacySize ELSE FullSize
NoBytes(size) == [i \in 0 .. size - 1 |-> 0]

\* The four bytes of the checksum are added to the pool from "at" on.
MixedWide(bytes, at, word) ==   \* mutant: the sums do not wrap
  [i \in DOMAIN bytes |->
     IF i \in at .. at + 3 THEN bytes[i] + Lane(word, 24 - 8 * (i - at)) ELSE bytes[i]]
Mixed(bytes, at, word) ==
  [i \in DOMAIN bytes |->
     IF i \in at .. at + 3 THEN (bytes[i] + Lane(word, 24 - 8 * (i - at))) % 256 ELSE bytes[i]]

Longer(m, n) == IF m < n THEN n ELSE m

PoolLength(pwd) == PoolSize(Len(pwd))   \* mutant
EffectiveLength(pwd) == Longer(Len(pwd), PoolSize(Len(pwd)))

\* The pool is added to the password, which zeros make as long as the pool.
Effective(pwd, bytes) ==
  [i \in 1 .. EffectiveLength(pwd) |->
     ((IF i <= Len(pwd) THEN pwd[i] ELSE 0)
        + (IF i <= PoolSize(Len(pwd)) THEN bytes[i - 1] ELSE 0)) % 256]

VARIABLES
  stage,      \* where apply_keyfile_paths or generate_keyfile is
  password,   \* password
  keyfiles,   \* what the chosen keyfiles hold
  number,     \* the keyfile that is read or mixed
  position,   \* bytes of it that have been mixed
  crc,        \* crc
  write_pos,  \* write_pos
  pool,       \* pool
  effective,  \* what the caller gets
  size,       \* size_bytes
  offset,     \* offset
  folds,      \* how often each byte of the new keyfile has been folded
  saved       \* what the name of the new keyfile leads to

applyVars == <<password, keyfiles, number, position, crc, write_pos, pool, effective>>
generateVars == <<size, offset, folds, saved>>
vars == <<stage, applyVars, generateVars>>

Stages == {"read", "mix", "done", "refused", "generate", "fold", "save", "write"}
OurPool == PoolSize(Len(password))

TypeOK ==
  /\ stage \in Stages
  /\ password \in Passwords
  /\ keyfiles \in Seq(Contents)
  /\ number \in Nat
  /\ position \in Nat
  /\ crc \in Word
  /\ write_pos \in Nat
  /\ pool \in [0 .. OurPool - 1 -> Byte]
  /\ effective \in Seq(Byte)
  /\ size \in Nat
  /\ offset \in 0 .. size
  /\ folds \in [0 .. size - 1 -> Nat]
  /\ saved \in {"nothing", "old", "part", "new"}

Init ==
  /\ stage \in {"read", "generate"}
  /\ IF stage = "read"
     THEN /\ password \in Passwords
          /\ \E n \in 0 .. MaxKeyfiles : keyfiles \in [1 .. n -> Contents]
          /\ size = 0 /\ saved = "nothing"
     ELSE /\ password \in Passwords /\ keyfiles = <<>>
          /\ size \in 0 .. MaxSize
          /\ saved \in {"nothing", "old"}
  /\ number = 1 /\ position = 0
  /\ crc = CrcStart /\ write_pos = 0
  /\ pool = NoBytes(OurPool)
  /\ effective = <<>>
  /\ offset = 0 /\ folds = NoBytes(size)

-----------------------------------------------------------------------------
(* apply_keyfile_paths: all keyfiles are read before any is mixed.          *)

Goto(s) == stage' = s

WithoutKeyfiles ==
  /\ stage = "read" /\ keyfiles = <<>>
  /\ effective' = password
  /\ Goto("done")
  /\ UNCHANGED <<password, keyfiles, number, position, crc, write_pos, pool, generateVars>>

\* At most MaxRead bytes are read, and there must be one.
Reads ==
  /\ stage = "read" /\ number <= Len(keyfiles)
  /\ keyfiles[number] # <<>>
  /\ number' = number + 1
  /\ UNCHANGED <<stage, password, keyfiles, position, crc, write_pos, pool, effective, generateVars>>

\* An empty keyfile, or one that cannot be opened or read.
Refuses ==
  /\ stage = "read" /\ number <= Len(keyfiles)
  /\ Goto("refused")
  /\ UNCHANGED <<applyVars, generateVars>>

StartsMixing ==
  /\ stage = "read" /\ number = Len(keyfiles) + 1 /\ keyfiles # <<>>
  /\ number' = 1
  /\ Goto("mix")
  /\ UNCHANGED <<password, keyfiles, position, crc, write_pos, pool, effective, generateVars>>

Shorter(m, n) == IF m < n THEN m ELSE n
Length(k) == Shorter(Len(keyfiles[k]), MaxRead)

\* The position goes back to the start at the end of the pool.
WrapsLate(slot) == IF slot + 4 > OurPool THEN 0 ELSE slot + 4   \* mutant
After(slot) == IF slot + 4 >= OurPool THEN 0 ELSE slot + 4

\* One round of the loop of process_keyfile_buf.
MixesByte ==
  /\ stage = "mix" /\ number <= Len(keyfiles)
  /\ position < Length(number)
  /\ crc' = CrcStep(crc, keyfiles[number][position + 1])
  /\ pool' = Mixed(pool, write_pos, crc')
  /\ write_pos' = After(write_pos)
  /\ position' = position + 1
  /\ UNCHANGED <<stage, password, keyfiles, number, effective, generateVars>>

NextKeepsPosition ==   \* mutant
  /\ stage = "mix" /\ number <= Len(keyfiles)
  /\ position = Length(number)
  /\ number' = number + 1
  /\ position' = 0 /\ crc' = CrcStart
  /\ UNCHANGED <<stage, password, keyfiles, pool, write_pos, effective, generateVars>>

\* Checksum and position start again with the next keyfile, the pool does not.
NextKeyfile ==
  /\ stage = "mix" /\ number <= Len(keyfiles)
  /\ position = Length(number)
  /\ number' = number + 1
  /\ position' = 0 /\ crc' = CrcStart /\ write_pos' = 0
  /\ UNCHANGED <<stage, password, keyfiles, pool, effective, generateVars>>

Applies ==
  /\ stage = "mix" /\ number = Len(keyfiles) + 1
  /\ effective' = Effective(password, pool)
  /\ Goto("done")
  /\ UNCHANGED <<password, keyfiles, number, position, crc, write_pos, pool, generateVars>>

-----------------------------------------------------------------------------
(* generate_keyfile, and how its callers save the result.                   *)

RefusesSize ==
  /\ stage = "generate"
  /\ size = 0 \/ size > MaxRead
  /\ Goto("refused")
  /\ UNCHANGED <<applyVars, generateVars>>

\* The command line has no entropy to fold in.
Fills ==
  /\ stage = "generate"
  /\ size \in 1 .. MaxRead
  /\ stage' \in {"fold", "save"}
  /\ UNCHANGED <<applyVars, generateVars>>

Further(n) == offset + n

\* One digest, of which the last may be longer than what is left.
Folds ==
  /\ stage = "fold" /\ offset < size
  /\ LET n == Shorter(size - offset, BlockSize)
     IN  /\ folds' = [i \in 0 .. size - 1 |->
                        IF i \in offset .. offset + n - 1 THEN folds[i] + 1 ELSE folds[i]]
         /\ offset' = Further(n)
  /\ UNCHANGED <<stage, applyVars, size, saved>>

Folded ==
  /\ stage = "fold" /\ offset = size
  /\ Goto("save")
  /\ UNCHANGED <<applyVars, generateVars>>

\* The name is truncated in place, then written; either may fail.
Truncates ==
  /\ stage = "save"
  /\ saved' = "part"
  /\ Goto("write")
  /\ UNCHANGED <<applyVars, size, offset, folds>>

Saves ==
  /\ stage = "write"
  /\ saved' = "new"
  /\ Goto("done")
  /\ UNCHANGED <<applyVars, size, offset, folds>>

SaveFails ==
  /\ stage \in {"save", "write"}
  /\ Goto("refused")
  /\ UNCHANGED <<applyVars, generateVars>>

-----------------------------------------------------------------------------
ApplyStep == \/ WithoutKeyfiles \/ Reads \/ Refuses \/ StartsMixing
             \/ MixesByte \/ NextKeyfile \/ Applies
GenerateStep == \/ RefusesSize \/ Fills \/ Folds \/ Folded
                \/ Truncates \/ Saves \/ SaveFails

Next == ApplyStep \/ GenerateStep

Spec == Init /\ [][Next]_vars

-----------------------------------------------------------------------------
(* Properties.                                                              *)

\* write_pos stays on a slot of four bytes inside the pool, so no index of
\* process_keyfile_buf is out of bounds (only debug builds assert it).
InBounds == write_pos % 4 = 0 /\ write_pos + 3 < OurPool

\* The checksum after the first n bytes, bit by bit and without the table.
SerialCrc(file) ==
  LET after[n \in Nat] == IF n = 0 THEN CrcStart ELSE EightRounds(after[n - 1] ^^ Bits(file[n]))
  IN  after

\* The n-th byte of a keyfile adds to the bytes of its slot, each its byte of
\* the checksum.
Adds(file, poolSize, i, n) ==
  IF (n - 1) % (poolSize \div 4) = i \div 4 THEN Lane(SerialCrc(file)[n], 24 - 8 * (i % 4)) ELSE 0

\* What the first n bytes of a keyfile add at index i of the pool, and what all
\* bytes that are read of the first k keyfiles add.
FileSum(file, poolSize, i) ==
  LET sum[n \in Nat] == IF n = 0 THEN 0 ELSE sum[n - 1] + Adds(file, poolSize, i, n)
  IN  sum
Total(files, poolSize, i) ==
  LET total[k \in 0 .. Len(files)] ==
        IF k = 0 THEN 0
        ELSE total[k - 1] + FileSum(files[k], poolSize, i)[Shorter(Len(files[k]), MaxRead)]
  IN  total

\* The pool is the one VeraCrypt computes: at each of its bytes it holds the sum
\* of what the keyfiles' own checksums say, however long they are.
PoolIsSum ==
  stage = "done" /\ keyfiles # <<>> =>
    \A i \in 0 .. OurPool - 1 : pool[i] = Total(keyfiles, OurPool, i)[Len(keyfiles)] % 256

\* For users whose passwords hold no zero byte: with the same keyfiles, another
\* password never gives the same effective password, whichever pool it takes.
Text == {q \in Seq(Byte) : \A i \in 1 .. Len(q) : q[i] # 0}

PasswordsToldApart ==
  stage = "done" /\ keyfiles # <<>> /\ password \in Text =>
    \A q \in Passwords \cap Text : q # password =>
      IF PoolSize(Len(q)) = OurPool
      THEN Effective(q, pool) # effective
      ELSE EffectiveLength(q) # Len(effective)

\* A keyfile with entropy has every byte folded exactly once.
FoldedOnce ==
  /\ stage = "fold" => \A i \in 0 .. size - 1 : folds[i] = (IF i < offset THEN 1 ELSE 0)
  /\ stage \in {"save", "write"} /\ offset > 0 => \A i \in 0 .. size - 1 : folds[i] = 1
=============================================================================
