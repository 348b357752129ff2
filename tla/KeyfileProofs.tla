----------------------------- MODULE KeyfileProofs -----------------------------
(***************************************************************************)
(* Theorems about Keyfile, for all sizes of the pools and of what is read, *)
(* all passwords and all keyfiles.                                         *)
(***************************************************************************)
EXTENDS Keyfile, FiniteSetTheorems, FunctionTheorems, WellFoundedInduction, TLAPS

-----------------------------------------------------------------------------
(* The operators.                                                           *)

\* Sums of bytes wrap, and adding the same byte keeps different bytes apart.
LEMMA AddByte ==
  \A b \in Nat : \A m \in Byte : (m + b) % 256 \in Byte
  BY DEF Byte

LEMMA AddInjective ==
  \A b \in Byte : \A m, n \in Byte : m # n => (m + b) % 256 # (n + b) % 256
  BY DEF Byte

LEMMA XorWord == \A v, w \in Word : v ^^ w \in Word
  BY DEF Word, ^^

LEMMA ShiftWord == \A w \in Word, n \in {1, 8} : ShiftRight(w, n) \in Word
  BY DEF Word, ShiftRight

LEMMA RoundWord == \A w \in Word : Round(w) \in Word
<1>1. Polynomial \in Word
  BY DEF Polynomial, Word
<1> QED
  BY <1>1, XorWord, ShiftWord DEF Round

LEMMA EightRoundsWord == \A w \in Word : EightRounds(w) \in Word
<1>1. \A w \in Word : TwoRounds(w) \in Word
  BY RoundWord DEF TwoRounds
<1> QED
  BY <1>1 DEF EightRounds

\* One step of the checksum looks up the table at one of its indices.
LEMMA CrcStepWord ==
  ASSUME NEW w \in Word, NEW b \in Byte
  PROVE  CrcStep(w, b) \in Word
<1> DEFINE index == (w ^^ Bits(b)) \cap (0 .. 7)
<1>1. index \in SUBSET (0 .. 7)
  OBVIOUS
<1>2. index \in Word
  BY <1>1 DEF Word
<1>3. CrcTable[index] = EightRounds(index)
  BY <1>1 DEF CrcTable
<1>4. CrcTable[index] \in Word
  BY <1>2, <1>3, EightRoundsWord
<1> QED
  BY <1>4, XorWord, ShiftWord DEF CrcStep

LEMMA LaneNat == \A w, low : low \in Nat => Lane(w, low) \in Nat
<1>1. \A w, i : Bit(w, i) \in {0, 1}
  BY DEF Bit
<1> QED
  BY <1>1 DEF Lane

LEMMA PoolSizes ==
  \A n \in Nat : PoolSize(n) \in Nat /\ PoolSize(n) > 0 /\ PoolSize(n) % 4 = 0
  BY PoolAssumption DEF PoolSize

LEMMA MixedPool ==
  ASSUME NEW n \in Nat, NEW bytes \in [0 .. n - 1 -> Byte], NEW at \in Nat, NEW w
  PROVE  Mixed(bytes, at, w) \in [0 .. n - 1 -> Byte]
<1>1. ASSUME NEW i \in 0 .. n - 1, i \in at .. at + 3
      PROVE  (bytes[i] + Lane(w, 24 - 8 * (i - at))) % 256 \in Byte
  <2>1. i - at \in {0, 1, 2, 3}
    BY <1>1
  <2>2. 24 - 8 * (i - at) \in Nat
    BY <2>1
  <2> QED
    BY <2>2, LaneNat, AddByte
<1> QED
  BY <1>1 DEF Mixed

\* The slots of a pool: each next one is inside it, too.
LEMMA NextSlot ==
  ASSUME NEW bound \in Nat, bound % 4 = 0, NEW slot \in Nat, slot % 4 = 0,
         slot + 4 < bound
  PROVE  (slot + 4) % 4 = 0 /\ slot + 7 < bound
  OBVIOUS

LEMMA FirstSlot ==
  ASSUME NEW bound \in Nat, bound > 0, bound % 4 = 0
  PROVE  3 < bound
  OBVIOUS

\* The effective password is a sequence of bytes, as long as announced.
LEMMA EffectiveType ==
  ASSUME NEW pwd \in Seq(Byte), NEW bytes \in [0 .. PoolSize(Len(pwd)) - 1 -> Byte]
  PROVE  /\ EffectiveLength(pwd) \in Nat
         /\ Effective(pwd, bytes) \in Seq(Byte)
         /\ Len(Effective(pwd, bytes)) = EffectiveLength(pwd)
<1>1. EffectiveLength(pwd) \in Nat
  BY PoolSizes DEF EffectiveLength, Longer
<1> DEFINE Of(i) == ((IF i <= Len(pwd) THEN pwd[i] ELSE 0)
                       + (IF i <= PoolSize(Len(pwd)) THEN bytes[i - 1] ELSE 0)) % 256
<1>2. ASSUME NEW i \in 1 .. EffectiveLength(pwd)
      PROVE  Of(i) \in Byte
  <2>0. 0 \in Byte /\ Byte \subseteq Nat
    BY DEF Byte
  <2>1. (IF i <= Len(pwd) THEN pwd[i] ELSE 0) \in Byte
    BY <1>1, <2>0
  <2>2. (IF i <= PoolSize(Len(pwd)) THEN bytes[i - 1] ELSE 0) \in Byte
    <3>1. PoolSize(Len(pwd)) \in Nat
      BY PoolSizes
    <3>2. ASSUME i <= PoolSize(Len(pwd)) PROVE bytes[i - 1] \in Byte
      BY <1>1, <3>1, <3>2
    <3> QED
      BY <2>0, <3>2
  <2>3. (IF i <= PoolSize(Len(pwd)) THEN bytes[i - 1] ELSE 0) \in Nat
    BY <2>0, <2>2, Zenon
  <2> QED
    BY <2>1, <2>3, AddByte
<1>3. Effective(pwd, bytes) = [i \in 1 .. EffectiveLength(pwd) |-> Of(i)]
  BY DEF Effective
<1> QED
  BY <1>1, <1>2, <1>3

-----------------------------------------------------------------------------
(* The checksum: the table saves eight rounds per byte.                     *)

LEMMA XorAlgebra ==
  \A u, v, w : /\ u ^^ v = v ^^ u
               /\ (u ^^ v) ^^ w = u ^^ (v ^^ w)
               /\ u ^^ u = {}
               /\ u ^^ {} = u
  BY DEF ^^

LEMMA ShiftXor ==
  ASSUME NEW u \in SUBSET Nat, NEW v \in SUBSET Nat, NEW n \in Nat
  PROVE  ShiftRight(u ^^ v, n) = ShiftRight(u, n) ^^ ShiftRight(v, n)
<1>1. ASSUME NEW w \in SUBSET Nat, NEW k
      PROVE  k \in ShiftRight(w, n) <=> k \in Nat /\ k + n \in w
  <2>1. ASSUME k \in ShiftRight(w, n) PROVE k \in Nat /\ k + n \in w
    BY <2>1 DEF ShiftRight
  <2>2. ASSUME k \in Nat, k + n \in w PROVE k \in ShiftRight(w, n)
    <3>1. k + n \in w \ (0 .. n - 1) /\ k = (k + n) - n
      BY <2>2
    <3> QED
      BY <3>1 DEF ShiftRight
  <2> QED
    BY <2>1, <2>2
<1>2. u ^^ v \in SUBSET Nat
  BY DEF ^^
<1>3. ASSUME NEW k
      PROVE  k \in ShiftRight(u ^^ v, n) <=> k \in ShiftRight(u, n) ^^ ShiftRight(v, n)
  <2>1. k + n \in u ^^ v <=> (k + n \in u /\ k + n \notin v) \/ (k + n \in v /\ k + n \notin u)
    BY DEF ^^
  <2>2. k \in ShiftRight(u, n) ^^ ShiftRight(v, n) <=>
          \/ k \in ShiftRight(u, n) /\ k \notin ShiftRight(v, n)
          \/ k \in ShiftRight(v, n) /\ k \notin ShiftRight(u, n)
    BY DEF ^^
  <2> QED
    BY <1>1, <1>2, <2>1, <2>2
<1> QED
  BY <1>3

LEMMA RoundNumbers == \A w \in SUBSET Nat : Round(w) \in SUBSET Nat
<1>1. \A w \in SUBSET Nat : ShiftRight(w, 1) \in SUBSET Nat
  BY DEF ShiftRight
<1>2. Polynomial \in SUBSET Nat
  BY DEF Polynomial
<1> QED
  BY <1>1, <1>2 DEF Round, ^^

\* Rounds are linear: the polynomial is added as often as bits fall out.
LEMMA RoundXor ==
  ASSUME NEW u \in SUBSET Nat, NEW v \in SUBSET Nat
  PROVE  Round(u ^^ v) = Round(u) ^^ Round(v)
<1> DEFINE s == ShiftRight(u, 1)
           t == ShiftRight(v, 1)
<1>1. ShiftRight(u ^^ v, 1) = s ^^ t
  BY ShiftXor
<1>2. 0 \in u ^^ v <=> (0 \in u /\ 0 \notin v) \/ (0 \in v /\ 0 \notin u)
  BY DEF ^^
<1> HIDE DEF s, t
<1>3. Round(u) = IF 0 \in u THEN Polynomial ^^ s ELSE s
  BY DEF Round, s
<1>4. Round(v) = IF 0 \in v THEN Polynomial ^^ t ELSE t
  BY DEF Round, t
<1>5. Round(u ^^ v) = IF 0 \in u ^^ v THEN Polynomial ^^ (s ^^ t) ELSE s ^^ t
  BY <1>1 DEF Round
<1>6. /\ Polynomial ^^ (s ^^ t) = (Polynomial ^^ s) ^^ t
      /\ Polynomial ^^ (s ^^ t) = s ^^ (Polynomial ^^ t)
      /\ s ^^ t = (Polynomial ^^ s) ^^ (Polynomial ^^ t)
  <2> HIDE DEF Polynomial
  <2> QED
    BY DEF ^^
<1> QED
  BY <1>2, <1>3, <1>4, <1>5, <1>6

LEMMA EightRoundsXor ==
  ASSUME NEW u \in SUBSET Nat, NEW v \in SUBSET Nat
  PROVE  EightRounds(u ^^ v) = EightRounds(u) ^^ EightRounds(v)
<1>1. ASSUME NEW p \in SUBSET Nat, NEW q \in SUBSET Nat
      PROVE  /\ TwoRounds(p) \in SUBSET Nat
             /\ TwoRounds(p ^^ q) = TwoRounds(p) ^^ TwoRounds(q)
  BY RoundNumbers, RoundXor DEF TwoRounds
<1>2. ASSUME NEW p \in SUBSET Nat, NEW q \in SUBSET Nat
      PROVE  /\ TwoRounds(TwoRounds(p)) \in SUBSET Nat
             /\ TwoRounds(TwoRounds(p ^^ q)) = TwoRounds(TwoRounds(p)) ^^ TwoRounds(TwoRounds(q))
  BY <1>1
<1> QED
  BY <1>2 DEF EightRounds

\* The upper bits only move down, for no bit of theirs reaches the end.
LEMMA UpperBitsMove ==
  ASSUME NEW w \in SUBSET Nat, w \cap (0 .. 7) = {}
  PROVE  EightRounds(w) = ShiftRight(w, 8)
<1>1. ASSUME NEW n \in 0 .. 7
      PROVE  Round(ShiftRight(w, n)) = ShiftRight(w, n + 1)
  <2>1. 0 \notin ShiftRight(w, n)
    BY DEF ShiftRight
  <2>2. ASSUME NEW k PROVE k \in ShiftRight(ShiftRight(w, n), 1) <=> k \in ShiftRight(w, n + 1)
    <3>1. k \in ShiftRight(w, n + 1) <=> k \in Nat /\ k + (n + 1) \in w
      <4>1. ASSUME k \in Nat, k + (n + 1) \in w PROVE k \in ShiftRight(w, n + 1)
        <5>1. k + (n + 1) \in w \ (0 .. (n + 1) - 1) /\ k = (k + (n + 1)) - (n + 1)
          BY <4>1
        <5> QED
          BY <5>1 DEF ShiftRight
      <4>2. ASSUME k \in ShiftRight(w, n + 1) PROVE k \in Nat /\ k + (n + 1) \in w
        BY <4>2 DEF ShiftRight
      <4> QED
        BY <4>1, <4>2
    <3>2. k + 1 \in ShiftRight(w, n) <=> k + 1 \in Nat /\ (k + 1) + n \in w
      <4>1. ASSUME k + 1 \in Nat, (k + 1) + n \in w PROVE k + 1 \in ShiftRight(w, n)
        <5>1. (k + 1) + n \in w \ (0 .. n - 1) /\ k + 1 = ((k + 1) + n) - n
          BY <4>1
        <5> QED
          BY <5>1 DEF ShiftRight
      <4>2. ASSUME k + 1 \in ShiftRight(w, n) PROVE k + 1 \in Nat /\ (k + 1) + n \in w
        BY <4>2 DEF ShiftRight
      <4> QED
        BY <4>1, <4>2
    <3>3. k \in ShiftRight(ShiftRight(w, n), 1) <=> k \in Nat /\ k + 1 \in ShiftRight(w, n)
      <4>0. ShiftRight(w, n) \in SUBSET Nat
        BY DEF ShiftRight
      <4>1. ASSUME k \in Nat, k + 1 \in ShiftRight(w, n)
            PROVE  k \in ShiftRight(ShiftRight(w, n), 1)
        <5>1. k + 1 \in ShiftRight(w, n) \ (0 .. 1 - 1) /\ k = (k + 1) - 1
          BY <4>1
        <5> DEFINE W == ShiftRight(w, n)
        <5> HIDE DEF W
        <5>2. k \in {i - 1 : i \in W \ (0 .. 1 - 1)}
          BY <5>1 DEF W
        <5> QED
          BY <5>2 DEF ShiftRight, W
      <4>2. ASSUME k \in ShiftRight(ShiftRight(w, n), 1)
            PROVE  k \in Nat /\ k + 1 \in ShiftRight(w, n)
        <5> DEFINE W == ShiftRight(w, n)
        <5>1. W \in SUBSET Nat /\ k \in ShiftRight(W, 1)
          BY <4>0, <4>2
        <5> HIDE DEF W
        <5>2. k \in Nat /\ k + 1 \in W
          BY <5>1 DEF ShiftRight
        <5> QED
          BY <5>2 DEF W
      <4> QED
        BY <4>1, <4>2
    <3> QED
      BY <3>1, <3>2, <3>3
  <2> QED
    BY <2>1, <2>2 DEF Round
<1>2. ShiftRight(w, 0) = w
  <2>1. w \ (0 .. 0 - 1) = w /\ \A i \in w : i - 0 = i
    OBVIOUS
  <2> QED
    BY <2>1 DEF ShiftRight
<1>3. TwoRounds(w) = ShiftRight(w, 2)
  BY <1>1, <1>2 DEF TwoRounds
<1>4. /\ TwoRounds(ShiftRight(w, 2)) = ShiftRight(w, 4)
      /\ TwoRounds(ShiftRight(w, 4)) = ShiftRight(w, 6)
      /\ TwoRounds(ShiftRight(w, 6)) = ShiftRight(w, 8)
  BY <1>1 DEF TwoRounds
<1> QED
  BY <1>3, <1>4 DEF EightRounds

\* The step that looks up CRC_TABLE takes the checksum where eight rounds of the
\* division take it bit by bit, for all 2^32 checksums and every byte.
THEOREM TableIsSerial ==
  ASSUME NEW w \in Word, NEW byte
  PROVE  CrcStep(w, byte) = EightRounds(w ^^ Bits(byte))
<1> DEFINE x == w ^^ Bits(byte)
           low == x \cap (0 .. 7)
           high == x \ (0 .. 7)
<1>1. Bits(byte) \subseteq 0 .. 7
  BY DEF Bits
<1>2. w \in SUBSET Nat
  BY DEF Word
<1>3. x \in SUBSET Nat /\ low \in SUBSET Nat /\ high \in SUBSET Nat
  <2>1. \A u, v \in SUBSET Nat : u ^^ v \in SUBSET Nat
    BY DEF ^^
  <2>2. x \in SUBSET Nat
    <3>1. Bits(byte) \in SUBSET Nat
      BY <1>1
    <3> QED
      BY <1>2, <2>1, <3>1
  <2> QED
    BY <2>2
<1>4. x = low ^^ high /\ high \cap (0 .. 7) = {}
  BY DEF ^^
<1>5. high = w \ (0 .. 7)
  BY <1>1 DEF ^^
<1>6. ShiftRight(high, 8) = ShiftRight(w, 8)
  <2>1. high \ (0 .. 8 - 1) = w \ (0 .. 8 - 1)
    BY <1>5
  <2> HIDE DEF high
  <2> QED
    BY <2>1 DEF ShiftRight
<1>7. CrcTable[low] = EightRounds(low)
  BY DEF CrcTable
<1>8. EightRounds(x) = EightRounds(low) ^^ EightRounds(high)
  <2> HIDE DEF x, low, high
  <2> QED
    BY <1>3, <1>4, EightRoundsXor
<1>9. EightRounds(high) = ShiftRight(high, 8)
  BY <1>3, <1>4, UpperBitsMove
<1>10. CrcStep(w, byte) = CrcTable[low] ^^ ShiftRight(w, 8)
  BY DEF CrcStep
<1> QED
  BY <1>6, <1>7, <1>8, <1>9, <1>10

-----------------------------------------------------------------------------
(* Induction, with sets for the properties.                                 *)

LEMMA LeastNumber ==
  ASSUME NEW T, T \subseteq Nat, T # {}
  PROVE  \E x \in T : \A y \in T : x <= y
<1> DEFINE Less == OpToRel(<, Nat)
<1>1. \A x, y \in Nat : <<y, x>> \in Less <=> y < x
  BY DEF OpToRel
<1>2. IsWellFoundedOn(Less, Nat)
  BY NatLessThanWellFounded
<1> HIDE DEF Less
<1>3. PICK x \in T : \A y \in T : <<y, x>> \notin Less
  BY <1>2, WFMin
<1>4. x \in Nat /\ \A y \in T : y \in Nat /\ ~(y < x)
  BY <1>1, <1>3
<1> QED
  BY <1>3, <1>4

LEMMA SetInduction ==
  ASSUME NEW S, 0 \in S, \A n \in Nat : n \in S => n + 1 \in S
  PROVE  Nat \subseteq S
<1> SUFFICES ASSUME Nat \ S # {} PROVE FALSE
  OBVIOUS
<1>1. PICK x \in Nat \ S : \A y \in Nat \ S : x <= y
  BY LeastNumber
<1>2. x - 1 \in Nat /\ x - 1 \in S
  BY <1>1
<1>3. (x - 1) + 1 \in S
  BY <1>2
<1> QED
  BY <1>1, <1>3

Follows(f, S, base, step) ==
  f \in [Nat -> S] /\ f[0] = base /\ \A n \in Nat : f[n + 1] = step[<<n, f[n]>>]

\* A function on the numbers may be defined by what each value makes of the
\* one before.
LEMMA Recursion ==
  ASSUME NEW S, NEW base \in S, NEW step \in [Nat \X S -> S]
  PROVE  \E f : Follows(f, S, base, step)
<1> DEFINE Good(h, n) == /\ h \in [0 .. n -> S] /\ h[0] = base
                         /\ \A i \in 0 .. n - 1 : h[i + 1] = step[<<i, h[i]>>]
<1>1. ASSUME NEW n \in Nat, \E h : Good(h, n) PROVE \E h : Good(h, n + 1)
  <2>1. PICK h : Good(h, n)
    BY <1>1
  <2> DEFINE value(i) == IF i <= n THEN h[i] ELSE step[<<n, h[n]>>]
             g == [i \in 0 .. n + 1 |-> value(i)]
  <2>2. step[<<n, h[n]>>] \in S
    BY <2>1
  <2>3. \A i \in 0 .. n + 1 : value(i) \in S
    BY <2>1, <2>2
  <2>4. value(0) = base
    BY <2>1
  <2>5. ASSUME NEW i \in 0 .. n PROVE value(i + 1) = step[<<i, value(i)>>]
    BY <2>1
  <2> HIDE DEF value
  <2>6. g \in [0 .. n + 1 -> S] /\ g[0] = base
    BY <2>3, <2>4
  <2>7. \A i \in 0 .. (n + 1) - 1 : g[i + 1] = step[<<i, g[i]>>]
    BY <2>5
  <2> HIDE DEF g
  <2>8. Good(g, n + 1)
    BY <2>6, <2>7
  <2> QED
    BY <2>8
<1>2. \E h : Good(h, 0)
  <2>1. Good([i \in 0 .. 0 |-> base], 0)
    OBVIOUS
  <2> QED
    BY <2>1
<1> HIDE DEF Good
<1>3. ASSUME NEW n \in Nat PROVE \E h : Good(h, n)
  <2> DEFINE T == {k \in Nat : \E h : Good(h, k)}
  <2>1. 0 \in T /\ \A k \in Nat : k \in T => k + 1 \in T
    BY <1>1, <1>2
  <2> HIDE DEF T
  <2>2. Nat \subseteq T
    BY <2>1, SetInduction
  <2> QED
    BY <2>2 DEF T
<1>4. ASSUME NEW n \in Nat, NEW m \in n .. n + 1, NEW g, NEW h, Good(g, n), Good(h, m)
      PROVE  \A i \in 0 .. n : g[i] = h[i]
  <2> DEFINE T == {k \in Nat : k <= n => g[k] = h[k]}
  <2>1. 0 \in T
    BY <1>4 DEF Good
  <2>2. ASSUME NEW k \in T PROVE k + 1 \in T
    <3>1. CASE k + 1 <= n
      <4>1. k \in 0 .. n - 1 /\ k \in 0 .. m - 1 /\ g[k] = h[k]
        BY <2>2, <3>1
      <4>2. g[k + 1] = step[<<k, g[k]>>] /\ h[k + 1] = step[<<k, h[k]>>]
        BY <1>4, <4>1 DEF Good
      <4> QED
        BY <2>2, <4>1, <4>2
    <3> QED
      BY <2>2, <3>1
  <2> HIDE DEF T
  <2>3. Nat \subseteq T
    BY <2>1, <2>2, SetInduction
  <2> QED
    BY <2>3 DEF T
<1> DEFINE Part(n) == CHOOSE h : Good(h, n)
           F == [n \in Nat |-> Part(n)[n]]
<1>5. ASSUME NEW n \in Nat PROVE Good(Part(n), n)
  BY <1>3
<1> HIDE DEF Part
<1>6. F \in [Nat -> S] /\ F[0] = base
  BY <1>5 DEF Good
<1>7. ASSUME NEW n \in Nat PROVE F[n + 1] = step[<<n, F[n]>>]
  <2>1. Good(Part(n), n) /\ Good(Part(n + 1), n + 1)
    BY <1>5
  <2>2. \A i \in 0 .. n : Part(n)[i] = Part(n + 1)[i]
    BY <2>1, <1>4
  <2>3. Part(n + 1)[n + 1] = step[<<n, Part(n + 1)[n]>>]
    BY <2>1 DEF Good
  <2> QED
    BY <2>2, <2>3
<1>8. Follows(F, S, base, step)
  BY <1>6, <1>7 DEF Follows
<1> QED
  BY <1>8

-----------------------------------------------------------------------------
(* What the recursive definitions compute.                                  *)

LEMMA SerialCrcSteps ==
  ASSUME NEW file
  PROVE  /\ SerialCrc(file)[0] = CrcStart
         /\ \A n \in Nat : /\ SerialCrc(file)[n] \in Word
                           /\ SerialCrc(file)[n + 1] =
                                EightRounds(SerialCrc(file)[n] ^^ Bits(file[n + 1]))
<1> DEFINE Step(w, n) == EightRounds(w ^^ Bits(file[n]))
           step == [p \in Nat \X Word |-> Step(p[2], p[1] + 1)]
<1>1. CrcStart \in Word
  BY DEF CrcStart, Word
<1>2. \A w \in Word : \A n : Step(w, n) \in Word
  <2>1. \A byte : Bits(byte) \in Word
    BY DEF Bits, Word
  <2> QED
    BY <2>1, XorWord, EightRoundsWord
<1> HIDE DEF Step
<1>3. step \in [Nat \X Word -> Word]
  BY <1>2
<1>9. \A n \in Nat : \A w \in Word : step[<<n, w>>] = Step(w, n + 1)
  OBVIOUS
<1> HIDE DEF step
<1>10. PICK f : Follows(f, Word, CrcStart, step)
  BY <1>1, <1>3, Recursion
<1>4. f \in [Nat -> Word] /\ f[0] = CrcStart /\ \A n \in Nat : f[n + 1] = step[<<n, f[n]>>]
  BY <1>10 DEF Follows
<1>5. f = [n \in Nat |-> IF n = 0 THEN CrcStart ELSE Step(f[n - 1], n)]
  <2>0. f = [n \in Nat |-> f[n]]
    BY <1>4
  <2>1. ASSUME NEW n \in Nat PROVE f[n] = IF n = 0 THEN CrcStart ELSE Step(f[n - 1], n)
    <3>1. CASE n # 0
      <4>1. n - 1 \in Nat /\ (n - 1) + 1 = n
        BY <3>1
      <4>2. f[n] = step[<<n - 1, f[n - 1]>>]
        BY <1>4, <4>1
      <4> QED
        BY <1>4, <1>9, <3>1, <4>1, <4>2
    <3> QED
      BY <1>4, <3>1
  <2> QED
    BY <2>0, <2>1, Zenon
<1> DEFINE h == SerialCrc(file)
<1>6. h = [n \in Nat |-> IF n = 0 THEN CrcStart ELSE Step(h[n - 1], n)]
  BY <1>5 DEF SerialCrc, Step
<1> HIDE DEF h
<1>7. h[0] = CrcStart /\ \A n \in Nat : h[n + 1] = Step(h[n], n + 1)
  BY <1>6
<1>8. ASSUME NEW n \in Nat PROVE h[n] \in Word
  <2> DEFINE T == {k \in Nat : h[k] \in Word}
  <2>1. 0 \in T /\ \A k \in Nat : k \in T => k + 1 \in T
    BY <1>1, <1>2, <1>7
  <2> HIDE DEF T
  <2>2. Nat \subseteq T
    BY <2>1, SetInduction
  <2> QED
    BY <2>2 DEF T
<1> QED
  BY <1>7, <1>8 DEF h, Step

\* Sums: at each number the one before and what is added there.
LEMMA Sums ==
  ASSUME NEW term \in [Nat -> Nat]
  PROVE  \E f \in [Nat -> Nat] :
           f = [n \in Nat |-> IF n = 0 THEN 0 ELSE f[n - 1] + term[n]]
<1> DEFINE step == [p \in Nat \X Nat |-> p[2] + term[p[1] + 1]]
<1>1. step \in [Nat \X Nat -> Nat]
  OBVIOUS
<1>4. \A n, v \in Nat : step[<<n, v>>] = v + term[n + 1]
  OBVIOUS
<1> HIDE DEF step
<1>5. 0 \in Nat
  OBVIOUS
<1>6. PICK f : Follows(f, Nat, 0, step)
  BY <1>1, <1>5, Recursion
<1>2. f \in [Nat -> Nat] /\ f[0] = 0 /\ \A n \in Nat : f[n + 1] = step[<<n, f[n]>>]
  BY <1>6 DEF Follows
<1>3. ASSUME NEW n \in Nat PROVE f[n] = IF n = 0 THEN 0 ELSE f[n - 1] + term[n]
  <2>1. CASE n # 0
    <3>1. n - 1 \in Nat /\ (n - 1) + 1 = n
      BY <2>1
    <3>2. f[n] = step[<<n - 1, f[n - 1]>>]
      BY <1>2, <3>1
    <3> QED
      BY <1>2, <1>4, <2>1, <3>1, <3>2
  <2> QED
    BY <1>2, <2>1
<1>7. f = [n \in Nat |-> f[n]]
  BY <1>2
<1>8. f = [n \in Nat |-> IF n = 0 THEN 0 ELSE f[n - 1] + term[n]]
  BY <1>3, <1>7, Zenon
<1> QED
  BY <1>2, <1>8

LEMMA SumSteps ==
  ASSUME NEW f, NEW term \in [Nat -> Nat],
         f = [n \in Nat |-> IF n = 0 THEN 0 ELSE f[n - 1] + term[n]]
  PROVE  f[0] = 0 /\ \A n \in Nat : f[n] \in Nat /\ f[n + 1] = f[n] + term[n + 1]
<1>1. f[0] = 0 /\ \A n \in Nat : f[n + 1] = f[n] + term[n + 1]
  OBVIOUS
<1> DEFINE T == {k \in Nat : f[k] \in Nat}
<1>2. 0 \in T /\ \A k \in Nat : k \in T => k + 1 \in T
  BY <1>1
<1> HIDE DEF T
<1>3. Nat \subseteq T
  BY <1>2, SetInduction
<1> QED
  BY <1>1, <1>3 DEF T

LEMMA AddsNat ==
  ASSUME NEW file, NEW poolSize, NEW i \in Nat, NEW n
  PROVE  Adds(file, poolSize, i, n) \in Nat
<1>1. 24 - 8 * (i % 4) \in Nat
  BY DEF Adds
<1> QED
  BY <1>1, LaneNat DEF Adds

LEMMA FileSumSteps ==
  ASSUME NEW file, NEW poolSize, NEW i \in Nat
  PROVE  /\ FileSum(file, poolSize, i)[0] = 0
         /\ \A n \in Nat : /\ FileSum(file, poolSize, i)[n] \in Nat
                           /\ FileSum(file, poolSize, i)[n + 1] =
                                FileSum(file, poolSize, i)[n] + Adds(file, poolSize, i, n + 1)
<1> DEFINE term == [n \in Nat |-> Adds(file, poolSize, i, n)]
           h == FileSum(file, poolSize, i)
<1>1. term \in [Nat -> Nat] /\ \A n \in Nat : term[n] = Adds(file, poolSize, i, n)
  BY AddsNat
<1> HIDE DEF term
<1>2. PICK f : f = [n \in Nat |-> IF n = 0 THEN 0 ELSE f[n - 1] + term[n]]
  BY <1>1, Sums
<1>3. f = [n \in Nat |-> IF n = 0 THEN 0 ELSE f[n - 1] + Adds(file, poolSize, i, n)]
  BY <1>1, <1>2
<1>4. h = [n \in Nat |-> IF n = 0 THEN 0 ELSE h[n - 1] + Adds(file, poolSize, i, n)]
  BY <1>3 DEF FileSum
<1> HIDE DEF h
<1>5. h = [n \in Nat |-> IF n = 0 THEN 0 ELSE h[n - 1] + term[n]]
  BY <1>1, <1>4
<1>6. h[0] = 0 /\ \A n \in Nat : h[n] \in Nat /\ h[n + 1] = h[n] + term[n + 1]
  BY <1>1, <1>5, SumSteps
<1> QED
  BY <1>1, <1>6 DEF h

Read(file) == Shorter(Len(file), MaxRead)

LEMMA TotalSteps ==
  ASSUME NEW files, Len(files) \in Nat,
         \A k \in 1 .. Len(files) : files[k] \in Seq(Byte),
         NEW poolSize, NEW i \in Nat
  PROVE  /\ Total(files, poolSize, i)[0] = 0
         /\ \A k \in 0 .. Len(files) : Total(files, poolSize, i)[k] \in Nat
         /\ \A k \in 1 .. Len(files) : Total(files, poolSize, i)[k] =
              Total(files, poolSize, i)[k - 1]
                + FileSum(files[k], poolSize, i)[Read(files[k])]
<1> DEFINE m == Len(files)
           adds(k) == FileSum(files[k], poolSize, i)[Read(files[k])]
           bounded(k) == IF k \in 1 .. m THEN adds(k) ELSE 0
           term == [k \in Nat |-> bounded(k)]
           h == Total(files, poolSize, i)
<1>1. ASSUME NEW k \in 1 .. m PROVE adds(k) \in Nat
  <2>1. Read(files[k]) \in Nat
    BY LimitsAssumption DEF Read, Shorter
  <2> QED
    BY <2>1, FileSumSteps
<1>10. m \in Nat
  OBVIOUS
<1>2. h = CHOOSE g : g = [k \in 0 .. m |-> IF k = 0 THEN 0 ELSE g[k - 1] + adds(k)]
  BY DEF Total, Read
<1> HIDE DEF h, adds, m
<1> USE <1>10
<1>3. term \in [Nat -> Nat] /\ \A k \in 1 .. m : term[k] = adds(k)
  BY <1>1
<1> HIDE DEF term
<1>4. PICK f \in [Nat -> Nat] : f = [n \in Nat |-> IF n = 0 THEN 0 ELSE f[n - 1] + term[n]]
  BY <1>3, Sums
<1>5. f[0] = 0 /\ \A n \in Nat : f[n] \in Nat /\ f[n + 1] = f[n] + term[n + 1]
  BY <1>3, <1>4, SumSteps
<1> DEFINE g == [k \in 0 .. m |-> f[k]]
<1>6. g = [k \in 0 .. m |-> IF k = 0 THEN 0 ELSE g[k - 1] + adds(k)]
  <2>1. ASSUME NEW k \in 0 .. m, k # 0 PROVE g[k] = g[k - 1] + adds(k)
    <3>1. k - 1 \in Nat /\ k - 1 \in 0 .. m /\ (k - 1) + 1 = k /\ k \in 1 .. m
      BY <2>1
    <3> QED
      BY <1>3, <1>5, <3>1
  <2>2. g[0] = 0
    BY <1>5
  <2> QED
    BY <2>1, <2>2
<1> HIDE DEF g
<1>7. h = [k \in 0 .. m |-> IF k = 0 THEN 0 ELSE h[k - 1] + adds(k)]
  BY <1>2, <1>6
<1>8. h[0] = 0 /\ \A k \in 1 .. m : h[k] = h[k - 1] + adds(k)
  <2>1. \A k \in 0 .. m : h[k] = IF k = 0 THEN 0 ELSE h[k - 1] + adds(k)
    BY <1>7, Zenon
  <2>2. 0 \in 0 .. m /\ \A k \in 1 .. m : k \in 0 .. m /\ k # 0
    OBVIOUS
  <2> QED
    BY <2>1, <2>2
<1>9. ASSUME NEW k \in 0 .. m PROVE h[k] \in Nat
  <2> DEFINE T == {n \in Nat : n <= m => h[n] \in Nat}
  <2>1. 0 \in T
    BY <1>8
  <2>2. ASSUME NEW n \in T PROVE n + 1 \in T
    <3>1. CASE n + 1 <= m
      <4>1. n + 1 \in 1 .. m /\ (n + 1) - 1 = n
        BY <2>2, <3>1
      <4>2. h[n + 1] = h[n] + adds(n + 1)
        BY <1>8, <4>1
      <4>5. adds(n + 1) \in Nat
        BY <1>1, <4>1
      <4>3. h[n] \in Nat
        BY <2>2, <3>1
      <4>6. \A x, y \in Nat : x + y \in Nat
        OBVIOUS
      <4>4. h[n + 1] \in Nat
        BY <4>2, <4>3, <4>5, <4>6, Zenon
      <4> QED
        BY <2>2, <4>4
    <3> QED
      BY <2>2, <3>1
  <2> HIDE DEF T
  <2>3. Nat \subseteq T
    BY <2>1, <2>2, SetInduction
  <2> QED
    BY <2>3 DEF T
<1> QED
  BY <1>8, <1>9 DEF h, adds, m

\* Division with remainder by what may be any number.
LEMMA Remainder ==
  ASSUME NEW d \in Nat \ {0}, NEW q \in Nat, NEW r \in 0 .. d - 1
  PROVE  (q * d + r) % d = r
OBVIOUS

LEMMA NextRemainder ==
  ASSUME NEW d \in Nat \ {0}, NEW n \in Nat
  PROVE  /\ n % d \in 0 .. d - 1
         /\ 0 % d = 0
         /\ (n + 1) % d = IF (n % d) + 1 = d THEN 0 ELSE (n % d) + 1
<1> DEFINE q == n \div d
           r == n % d
<1>1. n = q * d + r
  OBVIOUS
<1>2. q \in Nat /\ r \in 0 .. d - 1
  OBVIOUS
<1>3. 0 % d = 0
  OBVIOUS
<1> HIDE DEF q, r
<1>4. CASE r + 1 = d
  <2>1. n + 1 = (q + 1) * d + 0
    BY <1>1, <1>2, <1>4
  <2>2. q + 1 \in Nat /\ 0 \in 0 .. d - 1
    BY <1>2
  <2>3. (n + 1) % d = 0
    BY <2>1, <2>2, Remainder
  <2> QED
    BY <1>2, <1>3, <1>4, <2>3 DEF r
<1>5. CASE r + 1 # d
  <2>1. n + 1 = q * d + (r + 1)
    BY <1>1, <1>2
  <2>2. r + 1 \in 0 .. d - 1
    BY <1>2, <1>5
  <2>3. (n + 1) % d = r + 1
    BY <1>2, <2>1, <2>2, Remainder
  <2> QED
    BY <1>2, <1>3, <1>5, <2>3 DEF r
<1> QED
  BY <1>4, <1>5

-----------------------------------------------------------------------------
(* The inductive invariant.                                                 *)

\* The keyfiles are counted from 1.
NumberInv == number >= 1

\* The effective password is made of the password and the pool as they are.
EffectiveInv ==
  stage = "done" /\ keyfiles # <<>> => effective = Effective(password, pool)

\* Nothing is folded before the buffer is filled, and then from left to right.
FoldInv ==
  /\ stage = "generate" => offset = 0
  /\ stage \in {"generate", "fold"} =>
       \A i \in 0 .. size - 1 : folds[i] = (IF i < offset THEN 1 ELSE 0)
  /\ stage \in {"save", "write"} /\ offset > 0 => \A i \in 0 .. size - 1 : folds[i] = 1

\* What makes a new keyfile mixes none.
NewInv == stage \in {"generate", "fold", "save", "write"} => keyfiles = <<>>

IInv == TypeOK /\ InBounds /\ NumberInv /\ EffectiveInv /\ FoldInv /\ NewInv

LEMMA OurPoolSize == TypeOK => OurPool \in Nat /\ OurPool > 0 /\ OurPool % 4 = 0
<1>1. TypeOK => Len(password) \in Nat
  BY InputsAssumption DEF TypeOK
<1> QED
  BY <1>1, PoolSizes DEF OurPool

LEMMA InitIInv == Init => IInv
<1> SUFFICES ASSUME Init PROVE IInv
  OBVIOUS
<1>1. password \in Passwords /\ Len(password) \in Nat
  BY InputsAssumption DEF Init
<1>2. OurPool \in Nat /\ OurPool > 0 /\ OurPool % 4 = 0
  BY <1>1, PoolSizes DEF OurPool
<1>3. keyfiles \in Seq(Contents)
  <2>1. ASSUME NEW n \in Nat, keyfiles \in [1 .. n -> Contents] PROVE keyfiles \in Seq(Contents)
    BY <2>1
  <2>2. CASE stage = "read"
    BY <2>1, <2>2, LimitsAssumption DEF Init
  <2>3. CASE stage # "read"
    BY <2>3 DEF Init
  <2> QED
    BY <2>2, <2>3
<1>4. size \in Nat
  BY LimitsAssumption DEF Init
<1>5. pool \in [0 .. OurPool - 1 -> Byte]
  BY DEF Init, NoBytes, Byte
<1>6. folds \in [0 .. size - 1 -> Nat] /\ \A i \in 0 .. size - 1 : folds[i] = 0
  BY DEF Init, NoBytes
<1>7. crc \in Word
  BY DEF Init, CrcStart, Word
<1>8. TypeOK
  <2>1. stage \in Stages /\ saved \in {"nothing", "old", "part", "new"}
    BY DEF Init, Stages
  <2>2. number \in Nat /\ position \in Nat /\ write_pos \in Nat /\ effective \in Seq(Byte)
    BY DEF Init
  <2>3. offset \in 0 .. size
    BY <1>4 DEF Init
  <2> QED
    BY <1>1, <1>3, <1>4, <1>5, <1>6, <1>7, <2>1, <2>2, <2>3 DEF TypeOK
<1>9. InBounds
  BY <1>2, FirstSlot DEF Init, InBounds
<1>10. NumberInv /\ EffectiveInv
  BY DEF Init, NumberInv, EffectiveInv
<1>12. NewInv
  BY DEF Init, NewInv
<1>11. FoldInv
  BY <1>6, <1>4 DEF Init, FoldInv
<1> QED
  BY <1>8, <1>9, <1>10, <1>11, <1>12 DEF IInv

-----------------------------------------------------------------------------
(* What one action may disturb is shown of that action alone.               *)

LEMMA MixesByteIInv == IInv /\ MixesByte => IInv'
<1> SUFFICES ASSUME IInv, MixesByte PROVE IInv'
  OBVIOUS
<1> USE DEF IInv
<1>1. OurPool \in Nat /\ OurPool > 0 /\ OurPool % 4 = 0
  BY OurPoolSize
<1>2. OurPool' = OurPool
  BY DEF MixesByte, OurPool
<1>3. keyfiles[number][position + 1] \in Byte
  <2>1. keyfiles[number] \in Seq(Byte)
    BY InputsAssumption DEF MixesByte, TypeOK, NumberInv
  <2>2. position + 1 \in 1 .. Len(keyfiles[number])
    BY <2>1, LimitsAssumption DEF MixesByte, TypeOK, Length, Shorter
  <2> QED
    BY <2>1, <2>2
<1>4. crc' \in Word
  BY <1>3, CrcStepWord DEF MixesByte, TypeOK
<1>5. pool' \in [0 .. OurPool' - 1 -> Byte]
  BY <1>1, <1>2, MixedPool DEF MixesByte, TypeOK
<1>6. write_pos' \in Nat /\ InBounds'
  <2>1. write_pos \in Nat /\ write_pos % 4 = 0 /\ write_pos' = After(write_pos)
    BY DEF MixesByte, TypeOK, InBounds
  <2>2. CASE write_pos + 4 < OurPool
    <3>1. write_pos' = write_pos + 4
      BY <2>1, <2>2, <1>1 DEF After
    <3> QED
      BY <1>1, <1>2, <2>1, <2>2, <3>1, NextSlot DEF InBounds
  <2>3. CASE ~(write_pos + 4 < OurPool)
    <3>1. write_pos' = 0
      BY <2>1, <2>3, <1>1 DEF After
    <3> QED
      BY <1>1, <1>2, <3>1, FirstSlot DEF InBounds
  <2> QED
    BY <2>2, <2>3
<1>7. TypeOK'
  BY <1>4, <1>5, <1>6 DEF MixesByte, TypeOK, generateVars
<1>8. NumberInv' /\ EffectiveInv' /\ FoldInv' /\ NewInv'
  BY DEF MixesByte, NumberInv, EffectiveInv, FoldInv, NewInv, generateVars
<1> QED
  BY <1>6, <1>7, <1>8

LEMMA FoldsIInv == IInv /\ Folds => IInv'
<1> SUFFICES ASSUME IInv, Folds PROVE IInv'
  OBVIOUS
<1> USE DEF IInv
<1> DEFINE n == Shorter(size - offset, BlockSize)
<1>1. /\ n \in Nat /\ n >= 1 /\ offset + n <= size
      /\ offset \in Nat /\ size \in Nat /\ offset' = offset + n
  BY LimitsAssumption DEF Folds, TypeOK, Shorter, Further
<1>2. \A i \in 0 .. size - 1 :
        folds'[i] = IF i \in offset .. offset + n - 1 THEN folds[i] + 1 ELSE folds[i]
  BY DEF Folds
<1>3. folds' \in [0 .. size - 1 -> Nat]
  BY DEF Folds, TypeOK
<1>4. \A i \in 0 .. size - 1 : folds'[i] = (IF i < offset' THEN 1 ELSE 0)
  <2>1. \A i \in 0 .. size - 1 : folds[i] = (IF i < offset THEN 1 ELSE 0)
    BY DEF FoldInv, Folds
  <2> HIDE DEF n
  <2> QED
    BY <1>1, <1>2, <2>1
<1>5. TypeOK'
  <2>1. offset' \in 0 .. size
    BY <1>1
  <2> QED
    BY <1>3, <2>1 DEF Folds, TypeOK, applyVars, OurPool
<1>6. FoldInv'
  BY <1>4 DEF Folds, FoldInv
<1>7. InBounds' /\ NumberInv' /\ EffectiveInv' /\ NewInv'
  BY DEF Folds, InBounds, NumberInv, EffectiveInv, NewInv, applyVars, OurPool
<1> QED
  BY <1>5, <1>6, <1>7

LEMMA AppliesIInv == IInv /\ Applies => IInv'
<1> SUFFICES ASSUME IInv, Applies PROVE IInv'
  OBVIOUS
<1> USE DEF IInv
<1>1. effective' \in Seq(Byte)
  BY EffectiveType, InputsAssumption DEF Applies, TypeOK, OurPool
<1>2. TypeOK'
  BY <1>1 DEF Applies, TypeOK, Goto, Stages, generateVars, OurPool
<1>3. InBounds' /\ NumberInv' /\ EffectiveInv' /\ FoldInv' /\ NewInv'
  BY DEF Applies, InBounds, NumberInv, EffectiveInv, FoldInv, NewInv, Goto, generateVars, OurPool
<1> QED
  BY <1>2, <1>3

\* Steps that read keyfiles or go from one to the next.
ReadStep == WithoutKeyfiles \/ Reads \/ Refuses \/ StartsMixing \/ NextKeyfile

LEMMA ReadStepIInv == IInv /\ ReadStep => IInv'
<1> SUFFICES ASSUME IInv, ReadStep PROVE IInv'
  OBVIOUS
<1> USE DEF IInv
<1>1. OurPool' = OurPool /\ OurPool \in Nat /\ OurPool > 0 /\ OurPool % 4 = 0
  BY OurPoolSize DEF ReadStep, WithoutKeyfiles, Reads, Refuses, StartsMixing, NextKeyfile,
     applyVars, OurPool
<1>2. TypeOK'
  <2>1. crc' \in Word
    BY DEF ReadStep, WithoutKeyfiles, Reads, Refuses, StartsMixing, NextKeyfile,
       applyVars, TypeOK, CrcStart, Word
  <2>2. effective' \in Seq(Byte)
    BY InputsAssumption DEF ReadStep, WithoutKeyfiles, Reads, Refuses, StartsMixing,
       NextKeyfile, applyVars, TypeOK
  <2>3. stage' \in Stages
    BY DEF ReadStep, WithoutKeyfiles, Reads, Refuses, StartsMixing, NextKeyfile,
       TypeOK, Goto, Stages
  <2>4. number' \in Nat /\ position' \in Nat /\ write_pos' \in Nat
    BY DEF ReadStep, WithoutKeyfiles, Reads, Refuses, StartsMixing, NextKeyfile,
       applyVars, TypeOK
  <2>5. UNCHANGED <<password, keyfiles, pool, generateVars>>
    BY DEF ReadStep, WithoutKeyfiles, Reads, Refuses, StartsMixing, NextKeyfile, applyVars
  <2> QED
    BY <1>1, <2>1, <2>2, <2>3, <2>4, <2>5 DEF generateVars, TypeOK
<1>3. InBounds'
  BY <1>1, FirstSlot DEF ReadStep, WithoutKeyfiles, Reads, Refuses, StartsMixing,
     NextKeyfile, applyVars, InBounds
<1>4. NumberInv' /\ EffectiveInv' /\ FoldInv' /\ NewInv'
  BY DEF ReadStep, WithoutKeyfiles, Reads, Refuses, StartsMixing, NextKeyfile,
     applyVars, generateVars, TypeOK, NumberInv, EffectiveInv, FoldInv, NewInv, Goto
<1> QED
  BY <1>2, <1>3, <1>4

\* Steps of a new keyfile other than folding.
NewStep == RefusesSize \/ Fills \/ Folded \/ Truncates \/ Saves \/ SaveFails

LEMMA NewStepIInv == IInv /\ NewStep => IInv'
<1> SUFFICES ASSUME IInv, NewStep PROVE IInv'
  OBVIOUS
<1> USE DEF IInv
<1>1. UNCHANGED <<applyVars, size, offset, folds>>
  BY DEF NewStep, RefusesSize, Fills, Folded, Truncates, Saves, SaveFails, generateVars
<1>2. TypeOK'
  <2>1. stage' \in Stages
    BY DEF NewStep, RefusesSize, Fills, Folded, Truncates, Saves, SaveFails, Goto, Stages
  <2>2. saved' \in {"nothing", "old", "part", "new"}
    BY DEF NewStep, RefusesSize, Fills, Folded, Truncates, Saves, SaveFails, generateVars, TypeOK
  <2> QED
    BY <1>1, <2>1, <2>2 DEF applyVars, TypeOK, OurPool
<1>3. InBounds' /\ NumberInv'
  BY <1>1 DEF applyVars, InBounds, NumberInv, OurPool
<1>4. FoldInv'
  BY <1>1 DEF NewStep, RefusesSize, Fills, Folded, Truncates, Saves, SaveFails,
     TypeOK, FoldInv, Goto
<1>5. keyfiles = <<>>
  BY DEF NewStep, RefusesSize, Fills, Folded, Truncates, Saves, SaveFails, NewInv
<1>6. EffectiveInv' /\ NewInv'
  BY <1>1, <1>5 DEF applyVars, EffectiveInv, NewInv
<1> QED
  BY <1>2, <1>3, <1>4, <1>6

LEMMA NextIInv == IInv /\ [Next]_vars => IInv'
<1> SUFFICES ASSUME IInv, [Next]_vars PROVE IInv'
  OBVIOUS
<1>1. CASE ReadStep
  BY <1>1, ReadStepIInv
<1>2. CASE MixesByte
  BY <1>2, MixesByteIInv
<1>3. CASE Applies
  BY <1>3, AppliesIInv
<1>4. CASE NewStep
  BY <1>4, NewStepIInv
<1>5. CASE Folds
  BY <1>5, FoldsIInv
<1>6. CASE UNCHANGED vars
  BY <1>6 DEF vars, applyVars, generateVars, IInv, TypeOK, InBounds, NumberInv,
     EffectiveInv, FoldInv, NewInv, OurPool
<1> QED
  BY <1>1, <1>2, <1>3, <1>4, <1>5, <1>6
  DEF Next, ApplyStep, GenerateStep, ReadStep, NewStep

-----------------------------------------------------------------------------
(* The theorems.                                                            *)

\* The inductive invariant holds in every reachable state.
THEOREM Invariance == Spec => []IInv
<1>1. Init => IInv
  BY InitIInv
<1>2. IInv /\ [Next]_vars => IInv'
  BY NextIInv
<1> QED
  BY <1>1, <1>2, PTL DEF Spec

\* Every variable keeps its type: bytes stay bytes, and the pool its size.
THEOREM TypeCorrect == Spec => []TypeOK
<1>1. IInv => TypeOK
  BY DEF IInv
<1> QED
  BY <1>1, Invariance, PTL

\* No index of process_keyfile_buf is out of the pool, whatever its size is and
\* however long the keyfiles are.
THEOREM AlwaysInBounds == Spec => []InBounds
<1>1. IInv => InBounds
  BY DEF IInv
<1> QED
  BY <1>1, Invariance, PTL

\* A new keyfile has every byte folded exactly once, whatever its length and
\* that of a digest are.
THEOREM OnceFolded == Spec => []FoldedOnce
<1>1. IInv => FoldedOnce
  BY DEF IInv, FoldInv, FoldedOnce
<1> QED
  BY <1>1, Invariance, PTL

-----------------------------------------------------------------------------
(* Passwords are told apart.                                                *)

\* Where both have a byte, or one ends, equal bytes of the pool are added to
\* different ones.
LEMMA DifferAt ==
  ASSUME NEW p \in Seq(Byte), NEW q \in Seq(Byte),
         NEW bytes \in [0 .. PoolSize(Len(p)) - 1 -> Byte],
         PoolSize(Len(q)) = PoolSize(Len(p)),
         EffectiveLength(p) = EffectiveLength(q),
         NEW i \in 1 .. EffectiveLength(p),
         (IF i <= Len(p) THEN p[i] ELSE 0) # (IF i <= Len(q) THEN q[i] ELSE 0)
  PROVE  Effective(q, bytes) # Effective(p, bytes)
<1>0. 0 \in Byte
  BY DEF Byte
<1> DEFINE b == IF i <= PoolSize(Len(p)) THEN bytes[i - 1] ELSE 0
           m == IF i <= Len(p) THEN p[i] ELSE 0
           n == IF i <= Len(q) THEN q[i] ELSE 0
<1>1. EffectiveLength(p) \in Nat
  BY EffectiveType
<1>2. i \in Nat /\ i >= 1
  BY <1>1
<1>3. b \in Byte
  <2>1. ASSUME i <= PoolSize(Len(p)) PROVE bytes[i - 1] \in Byte
    <3>1. PoolSize(Len(p)) \in Nat
      BY PoolSizes
    <3> QED
      BY <1>2, <2>1, <3>1
  <2> QED
    BY <1>0, <2>1
<1>4. m \in Byte
  BY <1>0, <1>2
<1>5. n \in Byte
  BY <1>0, <1>2
<1>6. Effective(p, bytes)[i] = (m + b) % 256
  BY DEF Effective
<1>7. Effective(q, bytes)[i] = (n + b) % 256
  BY DEF Effective
<1> HIDE DEF b, m, n
<1>8. (n + b) % 256 # (m + b) % 256
  <2>1. n # m
    BY DEF m, n
  <2> QED
    BY <1>3, <1>4, <1>5, <2>1, AddInjective
<1> QED
  BY <1>6, <1>7, <1>8

LEMMA SomewhereDifferent ==
  ASSUME NEW p \in Text, NEW q \in Text, p # q,
         PoolSize(Len(q)) = PoolSize(Len(p)),
         EffectiveLength(p) = EffectiveLength(q)
  PROVE  \E i \in 1 .. EffectiveLength(p) :
           (IF i <= Len(p) THEN p[i] ELSE 0) # (IF i <= Len(q) THEN q[i] ELSE 0)
<1>1. /\ p \in Seq(Byte) /\ Len(p) \in Nat /\ \A i \in 1 .. Len(p) : p[i] # 0
      /\ q \in Seq(Byte) /\ Len(q) \in Nat /\ \A i \in 1 .. Len(q) : q[i] # 0
  BY DEF Text
<1>2. /\ EffectiveLength(p) \in Nat
      /\ Len(p) <= EffectiveLength(p) /\ Len(q) <= EffectiveLength(p)
  <2>1. \A m, n \in Nat : Longer(m, n) \in Nat /\ m <= Longer(m, n)
    BY DEF Longer
  <2>2. PoolSize(Len(p)) \in Nat /\ PoolSize(Len(q)) \in Nat
    BY <1>1, PoolSizes
  <2>3. EffectiveLength(p) \in Nat /\ Len(p) <= EffectiveLength(p)
    BY <1>1, <2>1, <2>2 DEF EffectiveLength
  <2>4. Len(q) <= EffectiveLength(q)
    BY <1>1, <2>1, <2>2 DEF EffectiveLength
  <2> QED
    BY <2>3, <2>4
<1>3. CASE Len(p) = Len(q)
  <2>1. PICK i \in 1 .. Len(p) : p[i] # q[i]
    BY <1>1, <1>3
  <2>2. i \in 1 .. EffectiveLength(p) /\ i <= Len(p) /\ i <= Len(q)
    BY <1>1, <1>2, <1>3
  <2> QED
    BY <2>1, <2>2
<1>4. CASE Len(q) < Len(p)
  <2>1. /\ Len(p) \in 1 .. EffectiveLength(p) /\ ~(Len(p) <= Len(q))
        /\ Len(p) <= Len(p) /\ p[Len(p)] # 0
    BY <1>1, <1>2, <1>4
  <2> QED
    BY <2>1
<1>5. CASE Len(p) < Len(q)
  <2>1. /\ Len(q) \in 1 .. EffectiveLength(p) /\ ~(Len(q) <= Len(p))
        /\ Len(q) <= Len(q) /\ q[Len(q)] # 0
    BY <1>1, <1>2, <1>5
  <2> QED
    BY <2>1
<1> QED
  BY <1>1, <1>3, <1>4, <1>5

\* The two pools give effective passwords of different lengths.
LEMMA PoolsToldApart ==
  \A m, n \in Nat : PoolSize(m) # PoolSize(n) =>
    Longer(m, PoolSize(m)) # Longer(n, PoolSize(n))
  BY PoolAssumption DEF PoolSize, Longer

\* With the same keyfiles another password never gives the same effective
\* password, whatever both pools and the keyfiles are, if no password holds a
\* zero byte.
THEOREM PasswordsDiffer == Spec => []PasswordsToldApart
<1>1. IInv => PasswordsToldApart
  <2> SUFFICES ASSUME IInv, stage = "done", keyfiles # <<>>, password \in Text,
                      NEW q \in Passwords \cap Text, q # password
               PROVE  IF PoolSize(Len(q)) = OurPool
                      THEN Effective(q, pool) # effective
                      ELSE EffectiveLength(q) # Len(effective)
    BY DEF PasswordsToldApart
  <2>1. /\ password \in Seq(Byte) /\ q \in Seq(Byte)
        /\ pool \in [0 .. PoolSize(Len(password)) - 1 -> Byte]
    BY DEF Text, IInv, TypeOK, OurPool
  <2>2. effective = Effective(password, pool)
    BY DEF IInv, EffectiveInv
  <2>3. Len(effective) = EffectiveLength(password)
    BY <2>1, <2>2, EffectiveType
  <2>4. CASE PoolSize(Len(q)) # OurPool
    <3>1. EffectiveLength(q) # EffectiveLength(password)
      BY <2>1, <2>4, PoolsToldApart DEF EffectiveLength, OurPool
    <3> QED
      BY <2>3, <2>4, <3>1
  <2>5. CASE PoolSize(Len(q)) = OurPool
    <3>1. PoolSize(Len(q)) = PoolSize(Len(password))
      BY <2>5 DEF OurPool
    <3>2. CASE EffectiveLength(q) = EffectiveLength(password)
      <4>1. \E i \in 1 .. EffectiveLength(password) :
              (IF i <= Len(password) THEN password[i] ELSE 0) # (IF i <= Len(q) THEN q[i] ELSE 0)
        BY <3>1, <3>2, SomewhereDifferent
      <4>2. Effective(q, pool) # Effective(password, pool)
        BY <2>1, <3>1, <3>2, <4>1, DifferAt
      <4> QED
        BY <2>2, <2>5, <4>2
    <3>3. CASE EffectiveLength(q) # EffectiveLength(password)
      <4>1. Len(Effective(q, pool)) = EffectiveLength(q)
        <5>1. pool \in [0 .. PoolSize(Len(q)) - 1 -> Byte]
          BY <2>1, <3>1
        <5> QED
          BY <2>1, <5>1, EffectiveType
      <4> QED
        BY <2>3, <2>5, <3>3, <4>1
    <3> QED
      BY <3>2, <3>3
  <2> QED
    BY <2>4, <2>5
<1> QED
  BY <1>1, Invariance, PTL

-----------------------------------------------------------------------------
(* The pool is the sum of what the keyfiles' checksums say.                  *)

\* What has been mixed into index i of the pool: all of the keyfiles before,
\* and of this one the bytes up to the position.
SoFar(i) ==
  Total(keyfiles, OurPool, i)[number - 1]
    + (IF number <= Len(keyfiles) THEN FileSum(keyfiles[number], OurPool, i)[position] ELSE 0)

\* Nothing is mixed before all keyfiles are read.
StartInv ==
  stage = "read" =>
    /\ position = 0 /\ crc = CrcStart /\ write_pos = 0
    /\ \A i \in 0 .. OurPool - 1 : pool[i] = 0

\* The checksum is that of the bytes up to the position, write_pos follows from
\* the position, and the pool holds what has been mixed.
MixInv ==
  stage = "mix" =>
    /\ number <= Len(keyfiles) + 1
    /\ IF number <= Len(keyfiles)
       THEN position <= Length(number) /\ crc = SerialCrc(keyfiles[number])[position]
       ELSE position = 0
    /\ write_pos = 4 * (position % (OurPool \div 4))
    /\ \A i \in 0 .. OurPool - 1 : pool[i] = SoFar(i) % 256

PoolInv == StartInv /\ MixInv /\ PoolIsSum

LEMMA SumOfBytes ==
  ASSUME NEW s \in Nat, NEW t \in Nat
  PROVE  ((s % 256) + t) % 256 = (s + t) % 256
  OBVIOUS

\* The four indices of a slot.
LEMMA SlotOf ==
  ASSUME NEW i \in Nat, NEW slot \in Nat
  PROVE  /\ i \in 4 * slot .. 4 * slot + 3 <=> i \div 4 = slot
         /\ i \div 4 = slot => i - 4 * slot = i % 4
  OBVIOUS

LEMMA Quarter ==
  ASSUME NEW n \in Nat, n > 0, n % 4 = 0
  PROVE  n \div 4 \in Nat \ {0} /\ n = 4 * (n \div 4)
  OBVIOUS

\* The keyfiles are sequences of bytes, so that the sums are defined.
LEMMA KeyfilesSum ==
  ASSUME TypeOK, NEW i \in Nat
  PROVE  /\ Total(keyfiles, OurPool, i)[0] = 0
         /\ \A k \in 0 .. Len(keyfiles) : Total(keyfiles, OurPool, i)[k] \in Nat
         /\ \A k \in 1 .. Len(keyfiles) :
              Total(keyfiles, OurPool, i)[k] =
                Total(keyfiles, OurPool, i)[k - 1]
                  + FileSum(keyfiles[k], OurPool, i)[Length(k)]
<1>1. Len(keyfiles) \in Nat /\ \A k \in 1 .. Len(keyfiles) : keyfiles[k] \in Seq(Byte)
  BY InputsAssumption DEF TypeOK
<1>2. \A k : Length(k) = Read(keyfiles[k])
  BY DEF Length, Read
<1> QED
  BY <1>1, <1>2, TotalSteps

LEMMA MixesBytePool == IInv /\ PoolInv /\ MixesByte => PoolInv'
<1> SUFFICES ASSUME IInv, PoolInv, MixesByte PROVE PoolInv'
  OBVIOUS
<1> DEFINE file == keyfiles[number]
           lanes == OurPool \div 4
           slot == position % lanes
           added(i) == Adds(file, OurPool, i, position + 1)
<1>1. TypeOK /\ InBounds /\ NumberInv
  BY DEF IInv
<1>2. OurPool \in Nat /\ OurPool > 0 /\ OurPool % 4 = 0
  BY <1>1, OurPoolSize
<1>3. lanes \in Nat \ {0} /\ OurPool = 4 * lanes
  BY <1>2, Quarter
<1>4. /\ stage = "mix" /\ number \in Nat /\ position \in Nat /\ Len(keyfiles) \in Nat
      /\ number >= 1 /\ number <= Len(keyfiles) /\ position < Length(number)
      /\ Length(number) \in Nat
  <2>1. keyfiles[number] \in Seq(Byte)
    BY <1>1, InputsAssumption DEF MixesByte, TypeOK, NumberInv
  <2> QED
    BY <1>1, <2>1, LimitsAssumption DEF MixesByte, TypeOK, NumberInv, Length, Shorter
<1>5. /\ crc = SerialCrc(file)[position] /\ write_pos = 4 * slot
      /\ \A i \in 0 .. OurPool - 1 :
           pool[i] = (Total(keyfiles, OurPool, i)[number - 1]
                        + FileSum(file, OurPool, i)[position]) % 256
  BY <1>4 DEF PoolInv, MixInv, SoFar
<1>6. /\ position' = position + 1 /\ UNCHANGED <<stage, password, keyfiles, number>>
      /\ OurPool' = OurPool
      /\ pool' = Mixed(pool, write_pos, crc')
  BY DEF MixesByte, OurPool
<1>7. crc' = SerialCrc(file)[position + 1]
  <2>1. crc \in Word
    BY <1>1 DEF TypeOK
  <2>2. crc' = EightRounds(crc ^^ Bits(file[position + 1]))
    BY <2>1, TableIsSerial DEF MixesByte
  <2> QED
    BY <1>4, <1>5, <2>2, SerialCrcSteps
<1>8. write_pos' = 4 * ((position + 1) % lanes)
  <2>1. slot \in 0 .. lanes - 1
    BY <1>3, <1>4, NextRemainder
  <2>2. (position + 1) % lanes = IF slot + 1 = lanes THEN 0 ELSE slot + 1
    BY <1>3, <1>4, NextRemainder
  <2>3. write_pos' = IF write_pos + 4 >= OurPool THEN 0 ELSE write_pos + 4
    BY DEF MixesByte, After
  <2> HIDE DEF slot, lanes
  <2>4. CASE slot + 1 = lanes
    BY <1>3, <1>5, <2>1, <2>2, <2>3, <2>4
  <2>5. CASE slot + 1 # lanes
    BY <1>3, <1>5, <2>1, <2>2, <2>3, <2>5
  <2> QED
    BY <2>4, <2>5
<1>9. ASSUME NEW i \in 0 .. OurPool - 1
      PROVE  pool'[i] = (Total(keyfiles, OurPool, i)[number - 1]
                           + FileSum(file, OurPool, i)[position + 1]) % 256
  <2> DEFINE s == Total(keyfiles, OurPool, i)[number - 1] + FileSum(file, OurPool, i)[position]
  <2>1. i \in Nat /\ slot \in Nat
    BY <1>2, <1>3, <1>4, NextRemainder
  <2>2. added(i) \in Nat
    BY <2>1, AddsNat
  <2>3. s \in Nat
    <3>1. Total(keyfiles, OurPool, i)[number - 1] \in Nat
      BY <1>1, <1>4, <2>1, KeyfilesSum
    <3>2. FileSum(file, OurPool, i)[position] \in Nat
      BY <1>4, <2>1, FileSumSteps
    <3> QED
      BY <3>1, <3>2
  <2>4. Total(keyfiles, OurPool, i)[number - 1] + FileSum(file, OurPool, i)[position + 1]
          = s + added(i)
    <3>1. Total(keyfiles, OurPool, i)[number - 1] \in Nat
      BY <1>1, <1>4, <2>1, KeyfilesSum
    <3>2. /\ FileSum(file, OurPool, i)[position] \in Nat
          /\ FileSum(file, OurPool, i)[position + 1] = FileSum(file, OurPool, i)[position] + added(i)
      BY <1>4, <2>1, FileSumSteps
    <3> HIDE DEF added
    <3> QED
      BY <2>2, <3>1, <3>2
  <2>5. pool'[i] = (pool[i] + added(i)) % 256
    <3>0. i \in DOMAIN pool
      BY <1>1 DEF TypeOK
    <3>1. pool'[i] = IF i \in write_pos .. write_pos + 3
                     THEN (pool[i] + Lane(crc', 24 - 8 * (i - write_pos))) % 256
                     ELSE pool[i]
      BY <1>6, <3>0 DEF Mixed
    <3>2. added(i) = IF slot = i \div 4 THEN Lane(crc', 24 - 8 * (i % 4)) ELSE 0
      <4>1. (position + 1) - 1 = position
        BY <1>4
      <4> QED
        BY <1>7, <4>1 DEF Adds
    <3>3. pool[i] \in Byte
      BY <1>1 DEF TypeOK
    <3>4. i \in write_pos .. write_pos + 3 <=> i \div 4 = slot
      BY <1>5, <2>1, SlotOf
    <3>5. CASE i \div 4 = slot
      <4>1. i - write_pos = i % 4
        BY <1>5, <2>1, <3>5, SlotOf
      <4> HIDE DEF slot, added
      <4> QED
        BY <3>1, <3>2, <3>4, <3>5, <4>1
    <3>6. CASE i \div 4 # slot
      <4> HIDE DEF slot, added
      <4>1. pool'[i] = pool[i] /\ added(i) = 0
        BY <3>1, <3>2, <3>4, <3>6
      <4>2. \A b \in Byte : (b + 0) % 256 = b
        BY DEF Byte
      <4> QED
        BY <3>3, <4>1, <4>2
    <3> QED
      BY <3>5, <3>6
  <2>6. pool[i] = s % 256
    BY <1>5
  <2> HIDE DEF s, added
  <2>7. ((s % 256) + added(i)) % 256 = (s + added(i)) % 256
    BY <2>2, <2>3, SumOfBytes
  <2> QED
    BY <2>4, <2>5, <2>6, <2>7
<1>10. MixInv'
  <2>1. position + 1 <= Length(number)
    BY <1>4
  <2>2. Length(number)' = Length(number)
    BY <1>6 DEF Length
  <2>3. \A i \in 0 .. OurPool - 1 : SoFar(i)' =
          Total(keyfiles, OurPool, i)[number - 1] + FileSum(file, OurPool, i)[position + 1]
    BY <1>4, <1>6 DEF SoFar
  <2> QED
    BY <1>4, <1>6, <1>7, <1>8, <1>9, <2>1, <2>2, <2>3 DEF MixInv
<1>11. StartInv' /\ PoolIsSum'
  BY <1>4, <1>6 DEF StartInv, PoolIsSum
<1> QED
  BY <1>10, <1>11 DEF PoolInv

LEMMA StartsMixingPool == IInv /\ PoolInv /\ StartsMixing => PoolInv'
<1> SUFFICES ASSUME IInv, PoolInv, StartsMixing PROVE PoolInv'
  OBVIOUS
<1>1. TypeOK
  BY DEF IInv
<1>2. /\ number' = 1 /\ stage' = "mix" /\ keyfiles # <<>>
      /\ UNCHANGED <<password, keyfiles, position, crc, write_pos, pool>>
      /\ OurPool' = OurPool
  BY DEF StartsMixing, Goto, OurPool
<1>3. /\ position = 0 /\ crc = CrcStart /\ write_pos = 0
      /\ \A i \in 0 .. OurPool - 1 : pool[i] = 0
  BY DEF StartsMixing, PoolInv, StartInv
<1>4. Len(keyfiles) \in Nat \ {0}
  BY <1>1, <1>2 DEF TypeOK
<1>5. Length(1) \in Nat
  <2>1. keyfiles[1] \in Seq(Byte)
    BY <1>1, <1>4, InputsAssumption DEF TypeOK
  <2> QED
    BY <2>1, LimitsAssumption DEF Length, Shorter
<1>6. write_pos' = 4 * (position' % (OurPool' \div 4))
  <2>1. OurPool \div 4 \in Nat \ {0}
    BY <1>1, OurPoolSize, Quarter
  <2>2. 0 % (OurPool \div 4) = 0
    BY <2>1, NextRemainder
  <2> QED
    BY <1>2, <1>3, <2>2
<1>7. ASSUME NEW i \in 0 .. OurPool - 1 PROVE pool'[i] = SoFar(i)' % 256
  <2>1. i \in Nat
    BY <1>1, OurPoolSize
  <2>2. Total(keyfiles, OurPool, i)[0] = 0
    BY <1>1, <2>1, KeyfilesSum
  <2>3. FileSum(keyfiles[1], OurPool, i)[0] = 0
    BY <2>1, FileSumSteps
  <2>4. SoFar(i)' = 0
    BY <1>2, <1>3, <1>4, <2>2, <2>3 DEF SoFar
  <2> QED
    BY <1>2, <1>3, <2>4
<1>8. MixInv'
  <2>1. crc' = SerialCrc(keyfiles[1])[0]
    BY <1>2, <1>3, SerialCrcSteps
  <2>2. Length(1)' = Length(1)
    BY <1>2 DEF Length
  <2> QED
    BY <1>2, <1>3, <1>4, <1>5, <1>6, <1>7, <2>1, <2>2 DEF MixInv
<1>9. StartInv' /\ PoolIsSum'
  BY <1>2 DEF StartInv, PoolIsSum
<1> QED
  BY <1>8, <1>9 DEF PoolInv

LEMMA NextKeyfilePool == IInv /\ PoolInv /\ NextKeyfile => PoolInv'
<1> SUFFICES ASSUME IInv, PoolInv, NextKeyfile PROVE PoolInv'
  OBVIOUS
<1>1. TypeOK /\ NumberInv
  BY DEF IInv
<1>2. /\ number' = number + 1 /\ position' = 0 /\ crc' = CrcStart /\ write_pos' = 0
      /\ position = Length(number) /\ number <= Len(keyfiles) /\ stage = "mix"
      /\ UNCHANGED <<stage, password, keyfiles, pool>>
      /\ OurPool' = OurPool
  BY DEF NextKeyfile, OurPool
<1>3. number \in Nat /\ number >= 1 /\ Len(keyfiles) \in Nat
  BY <1>1 DEF TypeOK, NumberInv
<1>4. ASSUME NEW k \in 1 .. Len(keyfiles) PROVE Length(k) \in Nat
  <2>1. keyfiles[k] \in Seq(Byte)
    BY <1>1, <1>4, InputsAssumption DEF TypeOK
  <2> QED
    BY <2>1, LimitsAssumption DEF Length, Shorter
<1>5. write_pos' = 4 * (position' % (OurPool' \div 4))
  <2>1. OurPool \div 4 \in Nat \ {0}
    BY <1>1, OurPoolSize, Quarter
  <2>2. 0 % (OurPool \div 4) = 0
    BY <2>1, NextRemainder
  <2> QED
    BY <1>2, <2>2
<1>6. ASSUME NEW i \in 0 .. OurPool - 1 PROVE pool'[i] = SoFar(i)' % 256
  <2>1. i \in Nat
    BY <1>1, OurPoolSize
  <2>2. Total(keyfiles, OurPool, i)[number] =
          Total(keyfiles, OurPool, i)[number - 1] + FileSum(keyfiles[number], OurPool, i)[position]
    BY <1>1, <1>2, <1>3, <2>1, KeyfilesSum
  <2>3. Total(keyfiles, OurPool, i)[number] \in Nat
    BY <1>1, <1>2, <1>3, <2>1, KeyfilesSum
  <2>4. FileSum(keyfiles[number + 1], OurPool, i)[0] = 0
    BY <2>1, FileSumSteps
  <2>5. SoFar(i)' = Total(keyfiles, OurPool, i)[number]
    <3>1. (number + 1) - 1 = number
      BY <1>3
    <3>2. SoFar(i)' = Total(keyfiles, OurPool, i)[number]
             + (IF number + 1 <= Len(keyfiles)
                THEN FileSum(keyfiles[number + 1], OurPool, i)[0] ELSE 0)
      BY <1>2, <3>1 DEF SoFar
    <3> QED
      BY <2>3, <2>4, <3>2
  <2>6. SoFar(i) = Total(keyfiles, OurPool, i)[number]
    BY <1>2, <2>2 DEF SoFar
  <2>7. pool[i] = SoFar(i) % 256
    BY <1>2 DEF PoolInv, MixInv
  <2> QED
    BY <1>2, <2>5, <2>6, <2>7
<1>7. MixInv'
  <2>1. crc' = SerialCrc(keyfiles[number'])[0]
    BY <1>2, SerialCrcSteps
  <2>2. \A k : Length(k)' = Length(k)
    BY <1>2 DEF Length
  <2>3. number' <= Len(keyfiles) + 1
    BY <1>2, <1>3
  <2>4. number' <= Len(keyfiles) => 0 <= Length(number')
    BY <1>2, <1>3, <1>4
  <2> QED
    BY <1>2, <1>5, <1>6, <2>1, <2>2, <2>3, <2>4 DEF MixInv
<1>8. StartInv' /\ PoolIsSum'
  BY <1>2 DEF StartInv, PoolIsSum
<1> QED
  BY <1>7, <1>8 DEF PoolInv

LEMMA AppliesPool == IInv /\ PoolInv /\ Applies => PoolInv'
<1> SUFFICES ASSUME IInv, PoolInv, Applies PROVE PoolInv'
  OBVIOUS
<1>1. TypeOK
  BY DEF IInv
<1>2. /\ stage = "mix" /\ stage' = "done" /\ number = Len(keyfiles) + 1
      /\ UNCHANGED <<password, keyfiles, pool>> /\ OurPool' = OurPool
  BY DEF Applies, Goto, OurPool
<1>3. Len(keyfiles) \in Nat
  BY <1>1 DEF TypeOK
<1>4. ASSUME NEW i \in 0 .. OurPool - 1
      PROVE  pool[i] = Total(keyfiles, OurPool, i)[Len(keyfiles)] % 256
  <2>1. i \in Nat
    BY <1>1, OurPoolSize
  <2>2. Total(keyfiles, OurPool, i)[Len(keyfiles)] \in Nat
    BY <1>1, <1>3, <2>1, KeyfilesSum
  <2>3. SoFar(i) = Total(keyfiles, OurPool, i)[Len(keyfiles)]
    <3>1. ~(number <= Len(keyfiles)) /\ number - 1 = Len(keyfiles)
      BY <1>2, <1>3
    <3>2. SoFar(i) = Total(keyfiles, OurPool, i)[Len(keyfiles)] + 0
      BY <3>1 DEF SoFar
    <3> QED
      BY <2>2, <3>2
  <2> QED
    BY <1>2, <2>3 DEF PoolInv, MixInv
<1>5. PoolIsSum'
  BY <1>2, <1>4 DEF PoolIsSum
<1>6. StartInv' /\ MixInv'
  BY <1>2 DEF StartInv, MixInv
<1> QED
  BY <1>5, <1>6 DEF PoolInv

\* The other steps of the mixing either only read or end it.
LEMMA OtherPool == PoolInv /\ (Reads \/ Refuses \/ WithoutKeyfiles) => PoolInv'
<1> SUFFICES ASSUME PoolInv, Reads \/ Refuses \/ WithoutKeyfiles PROVE PoolInv'
  OBVIOUS
<1>1. /\ UNCHANGED <<password, keyfiles, position, crc, write_pos, pool>>
      /\ OurPool' = OurPool /\ stage = "read"
  BY DEF Reads, Refuses, WithoutKeyfiles, applyVars, OurPool
<1>2. stage' = "read" \/ stage' = "refused" \/ (stage' = "done" /\ keyfiles = <<>>)
  BY DEF Reads, Refuses, WithoutKeyfiles, Goto
<1>3. StartInv'
  BY <1>1 DEF PoolInv, StartInv
<1>4. MixInv' /\ PoolIsSum'
  BY <1>1, <1>2 DEF MixInv, PoolIsSum
<1> QED
  BY <1>3, <1>4 DEF PoolInv

LEMMA GeneratePool == IInv /\ PoolInv /\ GenerateStep => PoolInv'
<1> SUFFICES ASSUME IInv, PoolInv, GenerateStep PROVE PoolInv'
  OBVIOUS
<1>1. stage' \in {"refused", "fold", "save", "write", "done"} /\ keyfiles' = keyfiles
  BY DEF GenerateStep, RefusesSize, Fills, Folds, Folded, Truncates, Saves, SaveFails,
     Goto, applyVars
<1>2. keyfiles = <<>>
  BY DEF GenerateStep, RefusesSize, Fills, Folds, Folded, Truncates, Saves, SaveFails,
     IInv, NewInv
<1> QED
  BY <1>1, <1>2 DEF PoolInv, StartInv, MixInv, PoolIsSum

LEMMA NextPool == IInv /\ PoolInv /\ [Next]_vars => PoolInv'
<1> SUFFICES ASSUME IInv, PoolInv, [Next]_vars PROVE PoolInv'
  OBVIOUS
<1>1. CASE UNCHANGED vars
  <2>1. UNCHANGED <<stage, applyVars>>
    BY <1>1 DEF vars
  <2> QED
    BY <2>1 DEF applyVars, PoolInv, StartInv, MixInv, PoolIsSum, SoFar, Length, OurPool
<1>2. CASE MixesByte
  BY <1>2, MixesBytePool
<1>3. CASE StartsMixing
  BY <1>3, StartsMixingPool
<1>4. CASE NextKeyfile
  BY <1>4, NextKeyfilePool
<1>5. CASE Applies
  BY <1>5, AppliesPool
<1>6. CASE GenerateStep
  BY <1>6, GeneratePool
<1>7. CASE Reads \/ Refuses \/ WithoutKeyfiles
  BY <1>7, OtherPool
<1> QED
  BY <1>1, <1>2, <1>3, <1>4, <1>5, <1>6, <1>7 DEF Next, ApplyStep

\* The pool ends as the sum of the keyfiles' own checksums, whatever the size
\* of the pool, the number of keyfiles and their lengths are.
THEOREM PoolSumsUp == Spec => []PoolIsSum
<1>1. Init => PoolInv
  <2> SUFFICES ASSUME Init PROVE PoolInv
    OBVIOUS
  <2>1. position = 0 /\ crc = CrcStart /\ write_pos = 0 /\ stage \in {"read", "generate"}
    BY DEF Init
  <2>2. \A i \in 0 .. OurPool - 1 : pool[i] = 0
    BY DEF Init, NoBytes
  <2> QED
    BY <2>1, <2>2 DEF PoolInv, StartInv, MixInv, PoolIsSum
<1>2. IInv /\ PoolInv /\ [Next]_vars => PoolInv'
  BY NextPool
<1>3. PoolInv => PoolIsSum
  BY DEF PoolInv
<1> QED
  BY <1>1, <1>2, <1>3, Invariance, PTL DEF Spec

-----------------------------------------------------------------------------
(* The order of the keyfiles.                                               *)

\* A sum counts the cells of a table whose k-th row has term[k] of them.
Cells(term, k) == {cell \in (1 .. k) \X (Nat \ {0}) : cell[2] <= term[cell[1]]}

LEMMA RowOfCells ==
  ASSUME NEW k \in Nat, NEW v \in Nat
  PROVE  /\ IsFiniteSet({k} \X (1 .. v))
         /\ Cardinality({k} \X (1 .. v)) = v
<1> DEFINE f == [c \in 1 .. v |-> <<k, c>>]
<1>1. f \in Bijection(1 .. v, {k} \X (1 .. v))
  <2>1. f \in [1 .. v -> {k} \X (1 .. v)]
    OBVIOUS
  <2>2. \A c, d \in 1 .. v : f[c] = f[d] => c = d
    OBVIOUS
  <2>3. \A p \in {k} \X (1 .. v) : \E c \in 1 .. v : f[c] = p
    <3> SUFFICES ASSUME NEW p \in {k} \X (1 .. v) PROVE \E c \in 1 .. v : f[c] = p
      OBVIOUS
    <3>1. p[2] \in 1 .. v /\ p = <<k, p[2]>>
      OBVIOUS
    <3>2. f[p[2]] = p
      BY <3>1
    <3> QED
      BY <3>1, <3>2
  <2> HIDE DEF f
  <2> QED
    BY <2>1, <2>2, <2>3, Fun_IsBij
<1>2. ExistsBijection(1 .. v, {k} \X (1 .. v))
  BY <1>1 DEF ExistsBijection
<1>3. IsFiniteSet(1 .. v) /\ Cardinality(1 .. v) = v
  BY FS_Interval
<1> QED
  BY <1>2, <1>3, FS_Bijection

LEMMA SumCountsCells ==
  ASSUME NEW m \in Nat, NEW term \in [1 .. m -> Nat], NEW f, f[0] = 0,
         \A k \in 1 .. m : f[k] = f[k - 1] + term[k]
  PROVE  IsFiniteSet(Cells(term, m)) /\ f[m] = Cardinality(Cells(term, m))
<1> DEFINE T == {k \in Nat : k <= m =>
                   IsFiniteSet(Cells(term, k)) /\ f[k] = Cardinality(Cells(term, k))}
<1>1. 0 \in T
  <2>1. Cells(term, 0) = {}
    BY DEF Cells
  <2> QED
    BY <2>1, FS_EmptySet
<1>2. ASSUME NEW k \in T PROVE k + 1 \in T
  <2>0. k \in Nat
    BY <1>2
  <2>1. CASE k + 1 <= m
    <3> DEFINE row == {k + 1} \X (1 .. term[k + 1])
               rest == Cells(term, k)
    <3>1. IsFiniteSet(rest) /\ f[k] = Cardinality(rest)
      BY <1>2, <2>1
    <3>2. k + 1 \in 1 .. m /\ term[k + 1] \in Nat
      BY <2>0, <2>1
    <3>3. IsFiniteSet(row) /\ Cardinality(row) = term[k + 1]
      <4>1. k + 1 \in Nat
        BY <2>0
      <4> QED
        BY <3>2, <4>1, RowOfCells
    <3>4. rest \cap row = {}
      BY <2>0 DEF Cells
    <3>5. Cells(term, k + 1) = rest \cup row
      <4>1. ASSUME NEW cell \in Cells(term, k + 1) PROVE cell \in rest \cup row
        <5>1. cell = <<cell[1], cell[2]>> /\ cell[1] \in 1 .. k + 1 /\ cell[2] \in Nat \ {0}
              /\ cell[2] <= term[cell[1]]
          BY <4>1 DEF Cells
        <5>2. CASE cell[1] = k + 1
          <6>1. cell[2] \in 1 .. term[k + 1]
            BY <3>2, <5>1, <5>2
          <6> QED
            BY <5>1, <5>2, <6>1
        <5>3. CASE cell[1] # k + 1
          <6>1. cell[1] \in 1 .. k
            BY <2>0, <5>1, <5>3
          <6> QED
            BY <5>1, <6>1 DEF Cells
        <5> QED
          BY <5>2, <5>3
      <4>2. ASSUME NEW cell \in rest PROVE cell \in Cells(term, k + 1)
        BY <2>0, <4>2 DEF Cells
      <4>3. ASSUME NEW cell \in row PROVE cell \in Cells(term, k + 1)
        <5>1. cell[1] = k + 1 /\ cell[2] \in 1 .. term[k + 1] /\ cell = <<cell[1], cell[2]>>
          OBVIOUS
        <5>2. cell[2] \in Nat \ {0} /\ cell[2] <= term[k + 1] /\ cell[1] \in 1 .. k + 1
          BY <2>0, <3>2, <5>1
        <5> QED
          BY <5>1, <5>2 DEF Cells
      <4> QED
        BY <4>1, <4>2, <4>3
    <3> HIDE DEF rest, row
    <3>6. /\ IsFiniteSet(rest \cup row)
          /\ Cardinality(rest \cup row) = Cardinality(rest) + Cardinality(row) - 0
      <4>1. Cardinality(rest \cap row) = 0
        BY <3>4, FS_EmptySet
      <4> QED
        BY <3>1, <3>3, <4>1, FS_Union
    <3>7. f[k + 1] = f[k] + term[k + 1]
      BY <2>0, <3>2
    <3>8. Cardinality(rest) \in Nat
      BY <3>1, FS_CardinalityType
    <3>9. f[k + 1] = Cardinality(rest \cup row)
      BY <3>1, <3>2, <3>3, <3>6, <3>7, <3>8
    <3>10. IsFiniteSet(Cells(term, k + 1)) /\ f[k + 1] = Cardinality(Cells(term, k + 1))
      BY <3>5, <3>6, <3>9
    <3> QED
      BY <2>0, <3>10
  <2> QED
    BY <2>0, <2>1
<1> HIDE DEF T
<1>3. Nat \subseteq T
  BY <1>1, <1>2, SetInduction
<1> QED
  BY <1>3 DEF T

\* Rows in another order have as many cells.
LEMMA RowsReordered ==
  ASSUME NEW m \in Nat, NEW term \in [1 .. m -> Nat], NEW p \in Bijection(1 .. m, 1 .. m),
         NEW other \in [1 .. m -> Nat], \A k \in 1 .. m : other[k] = term[p[k]],
         IsFiniteSet(Cells(other, m))
  PROVE  Cardinality(Cells(term, m)) = Cardinality(Cells(other, m))
<1> DEFINE f == [cell \in Cells(other, m) |-> <<p[cell[1]], cell[2]>>]
<1>1. /\ p \in [1 .. m -> 1 .. m]
      /\ \A j, k \in 1 .. m : p[j] = p[k] => j = k
      /\ \A k \in 1 .. m : \E j \in 1 .. m : p[j] = k
  <2>1. p \in [1 .. m -> 1 .. m]
    BY Fun_BijectionProperties
  <2>2. \A j, k \in 1 .. m : p[j] = p[k] => j = k
    BY DEF Bijection, Injection, IsInjective
  <2>3. \A k \in 1 .. m : \E j \in 1 .. m : p[j] = k
    BY DEF Bijection, Surjection
  <2> QED
    BY <2>1, <2>2, <2>3
<1>2. \A t : \A cell \in Cells(t, m) :
        /\ cell = <<cell[1], cell[2]>> /\ cell[1] \in 1 .. m /\ cell[2] \in Nat \ {0}
        /\ cell[2] <= t[cell[1]]
  BY DEF Cells
<1>3. \A t : \A k \in 1 .. m : \A c \in Nat \ {0} : c <= t[k] => <<k, c>> \in Cells(t, m)
  BY DEF Cells
<1>4. f \in [Cells(other, m) -> Cells(term, m)]
  <2>1. ASSUME NEW cell \in Cells(other, m) PROVE <<p[cell[1]], cell[2]>> \in Cells(term, m)
    <3>1. cell[1] \in 1 .. m /\ cell[2] \in Nat \ {0} /\ cell[2] <= term[p[cell[1]]]
      BY <1>2
    <3> QED
      BY <1>1, <1>3, <3>1
  <2> QED
    BY <2>1
<1>5. ASSUME NEW a \in Cells(other, m), NEW b \in Cells(other, m), f[a] = f[b] PROVE a = b
  <2>1. p[a[1]] = p[b[1]] /\ a[2] = b[2]
    BY <1>5
  <2>2. a[1] = b[1]
    BY <1>1, <1>2, <2>1
  <2> QED
    BY <1>2, <2>1, <2>2
<1>6. ASSUME NEW b \in Cells(term, m) PROVE \E a \in Cells(other, m) : f[a] = b
  <2>1. b = <<b[1], b[2]>> /\ b[1] \in 1 .. m /\ b[2] \in Nat \ {0} /\ b[2] <= term[b[1]]
    BY <1>2
  <2>2. PICK j \in 1 .. m : p[j] = b[1]
    BY <1>1, <2>1
  <2>3. <<j, b[2]>> \in Cells(other, m)
    BY <1>3, <2>1, <2>2
  <2>4. f[<<j, b[2]>>] = b
    BY <2>1, <2>2, <2>3
  <2> QED
    BY <2>3, <2>4
<1> HIDE DEF f
<1>7. f \in Bijection(Cells(other, m), Cells(term, m))
  BY <1>4, <1>5, <1>6, Fun_IsBij
<1>8. ExistsBijection(Cells(other, m), Cells(term, m))
  BY <1>7 DEF ExistsBijection
<1> QED
  BY <1>8, FS_Bijection

Reordered(files) ==
  {[k \in 1 .. Len(files) |-> files[p[k]]] : p \in Bijection(1 .. Len(files), 1 .. Len(files))}

LEMMA TotalReordered ==
  ASSUME NEW files, NEW m \in Nat, Len(files) = m,
         \A k \in 1 .. m : files[k] \in Seq(Byte),
         NEW others \in Reordered(files), NEW poolSize, NEW i \in Nat
  PROVE  Total(others, poolSize, i)[m] = Total(files, poolSize, i)[m]
<1>1. PICK p \in Bijection(1 .. m, 1 .. m) : others = [k \in 1 .. m |-> files[p[k]]]
  BY DEF Reordered
<1>2. p \in [1 .. m -> 1 .. m]
  BY <1>1, Fun_BijectionProperties
<1>3. Len(others) = m /\ \A k \in 1 .. m : others[k] = files[p[k]] /\ others[k] \in Seq(Byte)
  BY <1>1, <1>2
<1> DEFINE adds(file) == FileSum(file, poolSize, i)[Read(file)]
           term == [k \in 1 .. m |-> adds(files[k])]
           other == [k \in 1 .. m |-> adds(others[k])]
           f == Total(files, poolSize, i)
           g == Total(others, poolSize, i)
<1>4. ASSUME NEW file \in Seq(Byte) PROVE adds(file) \in Nat
  <2>1. Read(file) \in Nat
    BY LimitsAssumption DEF Read, Shorter
  <2> QED
    BY <2>1, FileSumSteps
<1>13. /\ Total(files, poolSize, i)[0] = 0
       /\ \A k \in 1 .. m : Total(files, poolSize, i)[k] =
            Total(files, poolSize, i)[k - 1] + FileSum(files[k], poolSize, i)[Read(files[k])]
  BY TotalSteps
<1>14. /\ Total(others, poolSize, i)[0] = 0
       /\ \A k \in 1 .. m : Total(others, poolSize, i)[k] =
            Total(others, poolSize, i)[k - 1] + FileSum(others[k], poolSize, i)[Read(others[k])]
  <2>1. Len(others) \in Nat /\ \A k \in 1 .. Len(others) : others[k] \in Seq(Byte)
    BY <1>3
  <2>2. /\ Total(others, poolSize, i)[0] = 0
        /\ \A k \in 1 .. Len(others) : Total(others, poolSize, i)[k] =
             Total(others, poolSize, i)[k - 1] + FileSum(others[k], poolSize, i)[Read(others[k])]
    BY <2>1, TotalSteps
  <2> QED
    BY <1>3, <2>2
<1>5. f[0] = 0 /\ \A k \in 1 .. m : f[k] = f[k - 1] + adds(files[k])
  BY <1>13
<1>6. g[0] = 0 /\ \A k \in 1 .. m : g[k] = g[k - 1] + adds(others[k])
  BY <1>14
<1> HIDE DEF f, g, adds
<1>7. term \in [1 .. m -> Nat] /\ other \in [1 .. m -> Nat]
  BY <1>3, <1>4
<1>8. \A k \in 1 .. m : other[k] = term[p[k]]
  BY <1>2, <1>3
<1>9. \A k \in 1 .. m : f[k] = f[k - 1] + term[k] /\ g[k] = g[k - 1] + other[k]
  BY <1>5, <1>6
<1> HIDE DEF term, other
<1>10. f[m] = Cardinality(Cells(term, m))
  BY <1>5, <1>7, <1>9, SumCountsCells
<1>11. IsFiniteSet(Cells(other, m)) /\ g[m] = Cardinality(Cells(other, m))
  BY <1>6, <1>7, <1>9, SumCountsCells
<1>12. Cardinality(Cells(term, m)) = Cardinality(Cells(other, m))
  BY <1>1, <1>7, <1>8, <1>11, RowsReordered
<1> QED
  BY <1>10, <1>11, <1>12 DEF f, g

\* The order in which the keyfiles are chosen does not matter: in every other
\* order they add up to the same pool.
THEOREM OrderDoesNotMatter ==
  Spec => [](stage = "done" /\ keyfiles # <<>> =>
               \A files \in Reordered(keyfiles) : \A i \in 0 .. OurPool - 1 :
                 pool[i] = Total(files, OurPool, i)[Len(files)] % 256)
<1> DEFINE AnyOrder == stage = "done" /\ keyfiles # <<>> =>
                         \A files \in Reordered(keyfiles) : \A i \in 0 .. OurPool - 1 :
                           pool[i] = Total(files, OurPool, i)[Len(files)] % 256
<1>1. TypeOK /\ PoolIsSum => AnyOrder
  <2> SUFFICES ASSUME TypeOK, PoolIsSum, stage = "done", keyfiles # <<>>,
                      NEW files \in Reordered(keyfiles), NEW i \in 0 .. OurPool - 1
               PROVE  pool[i] = Total(files, OurPool, i)[Len(files)] % 256
    OBVIOUS
  <2>1. Len(keyfiles) \in Nat /\ \A k \in 1 .. Len(keyfiles) : keyfiles[k] \in Seq(Byte)
    BY InputsAssumption DEF TypeOK
  <2>2. i \in Nat
    BY OurPoolSize
  <2>3. Len(files) = Len(keyfiles)
    BY <2>1 DEF Reordered
  <2>4. Total(files, OurPool, i)[Len(keyfiles)] = Total(keyfiles, OurPool, i)[Len(keyfiles)]
    BY <2>1, <2>2, TotalReordered
  <2> QED
    BY <2>3, <2>4 DEF PoolIsSum
<1> HIDE DEF AnyOrder
<1>2. Spec => []AnyOrder
  BY <1>1, TypeCorrect, PoolSumsUp, PTL
<1> QED
  BY <1>2 DEF AnyOrder
=============================================================================
