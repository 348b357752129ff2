------------------------- MODULE WraithStreamProofs -------------------------
(***************************************************************************)
(* Proofs about WraithStream, for every size of chunk and source and every *)
(* number of faults.                                                       *)
(***************************************************************************)
EXTENDS WraithStream, SequenceTheorems, TLAPS

-----------------------------------------------------------------------------
(* Pieces of the source.                                                    *)

\* A piece of the source is a sequence of positions, as long as it should be.
LEMMA BytesLength ==
  ASSUME NEW lo \in Nat, NEW hi \in Nat, lo <= hi
  PROVE  /\ Bytes(lo, hi) \in Seq(Nat)
         /\ Len(Bytes(lo, hi)) = hi - lo
BY DEF Bytes

\* The piece from a position to itself is empty.
LEMMA BytesEmpty ==
  ASSUME NEW lo \in Nat
  PROVE  Bytes(lo, lo) = << >>
<1>1. Bytes(lo, lo) \in Seq(Nat) /\ Len(Bytes(lo, lo)) = 0
  BY BytesLength
<1> QED  BY <1>1

\* Adjacent pieces concatenate.
LEMMA BytesConcat ==
  ASSUME NEW lo \in Nat, NEW mid \in Nat, NEW hi \in Nat, lo <= mid, mid <= hi
  PROVE  Bytes(lo, mid) \o Bytes(mid, hi) = Bytes(lo, hi)
<1> DEFINE left  == Bytes(lo, mid)
           right == Bytes(mid, hi)
           whole == Bytes(lo, hi)
<1>0. lo <= hi
  OBVIOUS
<1>1. left \in Seq(Nat) /\ right \in Seq(Nat) /\ whole \in Seq(Nat)
  <2>1. left \in Seq(Nat)
    BY BytesLength
  <2>2. right \in Seq(Nat)
    BY BytesLength
  <2>3. whole \in Seq(Nat)
    BY <1>0, BytesLength
  <2> QED  BY <2>1, <2>2, <2>3
<1>2. Len(left) = mid - lo /\ Len(right) = hi - mid /\ Len(whole) = hi - lo
  <2>1. Len(left) = mid - lo
    BY BytesLength
  <2>2. Len(right) = hi - mid
    BY BytesLength
  <2>3. Len(whole) = hi - lo
    BY <1>0, BytesLength
  <2> QED  BY <2>1, <2>2, <2>3
<1>3. /\ \A i \in 1 .. mid - lo : left[i] = lo + i
      /\ \A i \in 1 .. hi - mid : right[i] = mid + i
      /\ \A i \in 1 .. hi - lo : whole[i] = lo + i
  BY DEF Bytes
<1> HIDE DEF left, right, whole
<1>4. /\ left \o right \in Seq(Nat)
      /\ Len(left \o right) = Len(left) + Len(right)
      /\ \A i \in 1 .. Len(left) + Len(right) :
           (left \o right)[i] = IF i <= Len(left) THEN left[i] ELSE right[i - Len(left)]
  BY <1>1, ConcatProperties
<1>5. Len(left \o right) = Len(whole)
  BY <1>2, <1>4
<1>6. ASSUME NEW i \in 1 .. Len(left \o right)
      PROVE  (left \o right)[i] = whole[i]
  <2>1. CASE i <= mid - lo
    BY <1>2, <1>3, <1>4, <2>1
  <2>2. CASE ~(i <= mid - lo)
    <3>1. i - Len(left) \in 1 .. hi - mid
      BY <1>2, <1>4, <2>2
    <3>2. (left \o right)[i] = right[i - Len(left)]
      BY <1>2, <1>4, <2>2
    <3>3. right[i - Len(left)] = mid + (i - Len(left))
      BY <1>3, <3>1
    <3>4. whole[i] = lo + i
      BY <1>2, <1>3, <1>4
    <3> QED  BY <1>2, <3>2, <3>3, <3>4
  <2> QED  BY <2>1, <2>2
<1>7. left \o right = whole
  <2> HIDE DEF left
  <2> QED  BY <1>1, <1>4, <1>5, <1>6, SeqEqual
<1> QED  BY <1>7 DEF left, right, whole

\* Where chunks begin and end.
LEMMA ChunkEnds ==
  ASSUME NEW i \in Nat
  PROVE  /\ i * ChunkSize \in Nat
         /\ (i + 1) * ChunkSize = i * ChunkSize + ChunkSize
         /\ ChunkSize \in Nat /\ ChunkSize > 0
BY ChunkSizeAssumption

\* What the writer makes are records.
LEMMA RecordTypes ==
  /\ Header \in Record
  /\ \A i \in Nat, final \in BOOLEAN, bytes \in Seq(Nat) : Chunk(i, final, bytes) \in Record
  /\ \A i \in Nat, bytes \in Seq(Nat) : Manifest(i, bytes) \in Record
<1>1. Header \in Record
  BY EmptySeq DEF Header, Record
<1>2. \A i \in Nat, final \in BOOLEAN, bytes \in Seq(Nat) : Chunk(i, final, bytes) \in Record
  BY DEF Chunk, Record
<1>3. \A i \in Nat, bytes \in Seq(Nat) : Manifest(i, bytes) \in Record
  BY DEF Manifest, Record
<1> QED  BY <1>1, <1>2, <1>3

-----------------------------------------------------------------------------
(* The shape of what has been written.                                      *)

\* The buffer holds what was read and not sealed yet.
LEMMA Buffered ==
  ASSUME TypeOK, WriterInv, writerPC = "fill"
  PROVE  /\ Len(written) \in Nat \ {0}
         /\ ChunkIndex \in Nat
         /\ ChunkIndex * ChunkSize \in Nat
         /\ taken - n = ChunkIndex * ChunkSize
         /\ n <= taken
         /\ taken \in Nat /\ n \in Nat
<1>1. Len(written) \in Nat \ {0} /\ taken \in Nat /\ n \in Nat
  BY EmptySeq, ChunkSizeAssumption, BoundsAssumption DEF TypeOK, WriterInv
<1>2. ChunkIndex \in Nat
  BY <1>1 DEF ChunkIndex
<1>3. ChunkIndex * ChunkSize \in Nat
  BY <1>2, ChunkEnds
<1>4. taken = ChunkIndex * ChunkSize + n
  BY DEF WriterInv, ChunkIndex
<1> QED  BY <1>1, <1>2, <1>3, <1>4

\* Sealing keeps the types, and adds one record and the bytes in it.
LEMMA Sealing ==
  ASSUME TypeOK, WriterInv, writerPC = "fill",
         NEW final \in BOOLEAN, Seals(final)
  PROVE  /\ written' \in Seq(Record)
         /\ Len(written') = Len(written) + 1
         /\ \A i \in 1 .. Len(written) : written'[i] = written[i]
         /\ written'[Len(written) + 1] =
              Chunk(ChunkIndex, final, Bytes(ChunkIndex * ChunkSize, taken))
         /\ hashed' \in Seq(Nat)
         /\ hashed' = Bytes(0, taken)
<1>1. /\ taken \in Nat /\ n \in Nat /\ n <= taken /\ ChunkIndex \in Nat
      /\ taken - n = ChunkIndex * ChunkSize /\ taken - n \in Nat
  BY Buffered
<1>2. Bytes(taken - n, taken) \in Seq(Nat)
  BY <1>1, BytesLength
<1>3. Chunk(ChunkIndex, final, Bytes(taken - n, taken)) \in Record
  BY <1>1, <1>2, RecordTypes
<1>4. written \in Seq(Record)
  BY DEF TypeOK
<1>5. written' = Append(written, Chunk(ChunkIndex, final, Bytes(taken - n, taken)))
  BY DEF Seals
<1>6. hashed' = Bytes(0, taken)
  <2>1. hashed' = Bytes(0, taken - n) \o Bytes(taken - n, taken)
    BY DEF Seals, WriterInv
  <2>2. 0 <= taken - n /\ taken - n <= taken /\ 0 \in Nat
    BY <1>1
  <2>3. Bytes(0, taken - n) \o Bytes(taken - n, taken) = Bytes(0, taken)
    <3> DEFINE mid == taken - n
    <3>1. mid \in Nat /\ 0 <= mid /\ mid <= taken /\ taken \in Nat
      BY <1>1, <2>2
    <3> HIDE DEF mid
    <3>2. Bytes(0, mid) \o Bytes(mid, taken) = Bytes(0, taken)
      BY <3>1, BytesConcat
    <3> QED  BY <3>2 DEF mid
  <2> QED  BY <2>1, <2>3
<1>7. hashed' \in Seq(Nat)
  BY <1>1, <1>6, BytesLength
<1> QED  BY <1>1, <1>3, <1>4, <1>5, <1>6, <1>7, AppendProperties

\* The records of a finished container, one by one.
LEMMA WrittenShape ==
  ASSUME TypeOK, WriterInv, writerPC = "done"
  PROVE  /\ Len(written) \in Nat /\ Len(written) >= 3
         /\ written[1] = Header
         /\ \A j \in 2 .. Len(written) - 2 : written[j] = FullChunk(j - 2)
         /\ written[Len(written) - 1] =
              Chunk(Len(written) - 3, TRUE, Bytes((Len(written) - 3) * ChunkSize, taken))
         /\ (Len(written) - 3) * ChunkSize <= taken
         /\ taken <= (Len(written) - 2) * ChunkSize
         /\ written[Len(written)] = Manifest(Len(written) - 2, hashed)
         /\ hashed = Bytes(0, taken)
         /\ taken \in Nat
<1>1. Len(written) \in Nat /\ taken \in Nat
  BY BoundsAssumption DEF TypeOK
<1>2. AllChunks(Len(written) - 1)
  BY DEF WriterInv
<1>3. Len(written) - 1 >= 2 /\ Len(written) - 1 - 2 = Len(written) - 3
      /\ Len(written) - 1 - 1 = Len(written) - 2
  BY <1>1, <1>2 DEF AllChunks
<1>4. written[1] = Header /\ hashed = Bytes(0, taken)
      /\ written[Len(written)] = Manifest(Len(written) - 2, hashed)
  BY DEF WriterInv
<1>5. /\ FullUpTo(Len(written) - 2)
      /\ written[Len(written) - 1] =
           Chunk(Len(written) - 3, TRUE, Bytes((Len(written) - 3) * ChunkSize, taken))
      /\ (Len(written) - 3) * ChunkSize <= taken
      /\ taken <= (Len(written) - 2) * ChunkSize
  BY <1>2, <1>3 DEF AllChunks
<1> QED  BY <1>1, <1>3, <1>4, <1>5 DEF FullUpTo

\* What kind of record is where, and under what it was sealed.
LEMMA WrittenKinds ==
  ASSUME TypeOK, WriterInv, writerPC = "done"
  PROVE  /\ written[1].kind = "header"
         /\ \A j \in 2 .. Len(written) - 1 : /\ written[j].kind = "chunk"
                                             /\ written[j].index = j - 2
                                             /\ written[j].aad[1] = j - 2
                                             /\ written[j].aad[2] = written[j].final
                                             /\ written[j].sealed = "own"
         /\ \A j \in 2 .. Len(written) - 2 : written[j].final = FALSE
         /\ written[Len(written) - 1].final = TRUE
         /\ written[Len(written)].kind = "manifest"
<1>1. Len(written) \in Nat /\ Len(written) >= 3
  BY WrittenShape
<1>2. written[1].kind = "header"
  BY WrittenShape DEF Header
<1>3. written[Len(written)].kind = "manifest"
  BY WrittenShape DEF Manifest
<1>4. ASSUME NEW j \in 2 .. Len(written) - 2
      PROVE  /\ written[j].kind = "chunk" /\ written[j].index = j - 2
             /\ written[j].aad[1] = j - 2 /\ written[j].aad[2] = written[j].final
             /\ written[j].final = FALSE
             /\ written[j].sealed = "own"
  <2> DEFINE record == written[j]
             index  == j - 2
             bytes  == Bytes((j - 2) * ChunkSize, (j - 2 + 1) * ChunkSize)
  <2>1. record = FullChunk(j - 2)
    BY WrittenShape
  <2>2. record = Chunk(index, FALSE, bytes)
    BY <2>1 DEF FullChunk
  <2> HIDE DEF record, index, bytes
  <2>3. record.kind = "chunk" /\ record.index = index /\ record.sealed = "own"
    BY <2>2 DEF Chunk
  <2>4. record.final = FALSE
    BY <2>2 DEF Chunk
  <2>5. record.aad[1] = index /\ record.aad[2] = record.final
    BY <2>2 DEF Chunk
  <2> QED  BY <2>3, <2>4, <2>5 DEF record, index
<1>5. ASSUME NEW j, j = Len(written) - 1
      PROVE  /\ written[j].kind = "chunk" /\ written[j].index = j - 2
             /\ written[j].aad[1] = j - 2 /\ written[j].aad[2] = written[j].final
             /\ written[j].final = TRUE
             /\ written[j].sealed = "own"
  <2> DEFINE record == written[j]
             index  == j - 2
             bytes  == Bytes((Len(written) - 3) * ChunkSize, taken)
  <2>1. j - 2 = Len(written) - 3
    BY <1>1, <1>5
  <2>2. record = Chunk(index, TRUE, bytes)
    BY <1>5, <2>1, WrittenShape
  <2> HIDE DEF record, index, bytes
  <2>3. record.kind = "chunk" /\ record.index = index /\ record.sealed = "own"
    BY <2>2 DEF Chunk
  <2>4. record.final = TRUE
    BY <2>2 DEF Chunk
  <2>5. record.aad[1] = index /\ record.aad[2] = record.final
    BY <2>2 DEF Chunk
  <2> QED  BY <2>3, <2>4, <2>5 DEF record, index
<1>6. ASSUME NEW j \in 2 .. Len(written) - 1
      PROVE  j \in 2 .. Len(written) - 2 \/ j = Len(written) - 1
  BY <1>1
<1>7. \A j \in 2 .. Len(written) - 1 : /\ written[j].kind = "chunk"
                                       /\ written[j].index = j - 2
                                       /\ written[j].aad[1] = j - 2
                                       /\ written[j].aad[2] = written[j].final
                                       /\ written[j].sealed = "own"
  BY <1>4, <1>5, <1>6
<1>8. Len(written) - 1 \in 2 .. Len(written) - 1
  BY <1>1
<1> QED  BY <1>2, <1>3, <1>4, <1>5, <1>7, <1>8

-----------------------------------------------------------------------------
(* Types.                                                                   *)

\* Records that storage lost, repeated, reordered or damaged are still records.
LEMMA DamagedRecords ==
  ASSUME TypeOK, Damages
  PROVE  /\ stored' \in Seq(Record)
         /\ Len(stored') = Len(stored)
         /\ faults' \in 0 .. MaxFaults
         /\ reserved' \in {"zero", "other"}
<1>1. stored \in Seq(Record) /\ faults \in Nat /\ MaxFaults \in Nat /\ faults <= MaxFaults
      /\ Len(written) \in Nat
  BY BoundsAssumption DEF TypeOK
<1>2. faults' \in 0 .. MaxFaults
  <2>1. faults < MaxFaults /\ faults' = faults + 1
    BY DEF Damages
  <2> QED  BY <1>1, <2>1
<1>3. reserved' \in {"zero", "other"}
  BY DEF Damages, TypeOK
<1>4. ASSUME NEW i \in DOMAIN stored, NEW r \in Record, stored' = [stored EXCEPT ![i] = r]
      PROVE  stored' \in Seq(Record) /\ Len(stored') = Len(stored)
  BY <1>1, <1>4, ExceptSeq
<1>5. ASSUME NEW i \in DOMAIN stored
      PROVE  stored[i] \in Record
  BY <1>1, ElementOfSeq
<1>6. ASSUME NEW i \in DOMAIN stored, stored' = [stored EXCEPT ![i].sealed = "foreign"]
      PROVE  stored' \in Seq(Record) /\ Len(stored') = Len(stored)
  <2> DEFINE r == [stored[i] EXCEPT !.sealed = "foreign"]
  <2>1. r \in Record
    BY <1>5 DEF Record
  <2>2. stored' = [stored EXCEPT ![i] = r]
    BY <1>6
  <2> HIDE DEF r
  <2> QED  BY <1>4, <2>1, <2>2
<1>7. ASSUME NEW i \in DOMAIN stored, NEW index \in 0 .. Len(written), NEW final \in BOOLEAN,
             stored' = [stored EXCEPT ![i].index = index, ![i].final = final]
      PROVE  stored' \in Seq(Record) /\ Len(stored') = Len(stored)
  <2> DEFINE r == [stored[i] EXCEPT !.index = index, !.final = final]
  <2>0. index \in Nat
    BY <1>1
  <2>1. r \in Record
    BY <1>5, <2>0 DEF Record
  <2>2. stored' = [stored EXCEPT ![i] = r]
    <3>1. Len(stored) \in Nat /\ DOMAIN stored = 1 .. Len(stored)
      BY <1>1
    <3> QED  BY <1>7, <3>1
  <2> HIDE DEF r
  <2> QED  BY <1>4, <2>1, <2>2
<1>8. stored' = stored => stored' \in Seq(Record) /\ Len(stored') = Len(stored)
  BY <1>1
<1> QED  BY <1>2, <1>3, <1>6, <1>7, <1>8 DEF Damages

\* Storage gives back records of the container, as many as it likes.
LEMMA RearrangedRecords ==
  ASSUME TypeOK, Rearranges
  PROVE  /\ stored' \in Seq(Record)
         /\ \A i \in DOMAIN stored' : \E j \in DOMAIN written : stored'[i] = written[j]
<1>1. written \in Seq(Record)
  BY DEF TypeOK
<1>0. PICK len \in 0 .. Len(written) + 1 : \E origin \in [1 .. len -> DOMAIN written] :
        stored' = [i \in 1 .. len |-> written[origin[i]]]
  BY DEF Rearranges
<1>2. PICK origin \in [1 .. len -> DOMAIN written] :
        stored' = [i \in 1 .. len |-> written[origin[i]]]
  BY <1>0
<1>3. len \in Nat
  BY <1>1, <1>0
<1>4. \A i \in 1 .. len : origin[i] \in DOMAIN written /\ written[origin[i]] \in Record
  BY <1>1, <1>2, ElementOfSeq
<1>5. stored' \in Seq(Record)
  BY <1>2, <1>3, <1>4
<1>6. \A i \in DOMAIN stored' : \E j \in DOMAIN written : stored'[i] = written[j]
  BY <1>2, <1>4
<1> QED  BY <1>5, <1>6

\* A record that opens was written with its index and mark, has bytes of the
\* source, and is there.
LEMMA OpenedRecord ==
  ASSUME TypeOK, NEW kind, Opens(kind)
  PROVE  /\ pos \in Nat /\ pos + 1 \in DOMAIN stored /\ pos + 1 <= Len(stored)
         /\ stored[pos + 1] \in Record
         /\ stored[pos + 1].bytes \in Seq(Nat)
         /\ stored[pos + 1].index \in Nat
         /\ stored[pos + 1].final \in BOOLEAN
         /\ stored[pos + 1].kind = kind
         /\ stored[pos + 1].sealed = "own"
         /\ stored[pos + 1].aad = <<stored[pos + 1].index, stored[pos + 1].final>>
<1>1. pos \in Nat /\ stored \in Seq(Record) /\ pos < Len(stored) /\ Len(stored) \in Nat
  BY DEF TypeOK, Opens
<1>2. pos + 1 \in 1 .. Len(stored)
  BY <1>1
<1>3. stored[pos + 1] \in Record
  BY <1>1, <1>2, ElementOfSeq
<1>4. /\ stored[pos + 1].bytes \in Seq(Nat)
      /\ stored[pos + 1].index \in Nat
      /\ stored[pos + 1].final \in BOOLEAN
  BY <1>3 DEF Record
<1> QED  BY <1>1, <1>2, <1>3, <1>4 DEF Opens

\* Every action keeps the types.
LEMMA TypeStep ==
  ASSUME TypeOK, WriterInv, [Next]_vars
  PROVE  TypeOK'
<1> USE DEF TypeOK
<1>0. /\ taken \in Nat /\ source \in Nat /\ n \in Nat /\ Len(written) \in Nat
      /\ ChunkSize \in Nat \ {0} /\ MaxSource \in Nat /\ n <= ChunkSize /\ source <= MaxSource
      /\ taken <= MaxSource
  BY ChunkSizeAssumption, BoundsAssumption
<1>1. CASE SourceGrows
  BY <1>0, <1>1 DEF SourceGrows, storageVars, readerVars
<1>2. CASE WritesHeader
  <2>1. written' \in Seq(Record)
    <3>1. written' = <<Header>> /\ Header \in Record
      BY <1>2, RecordTypes DEF WritesHeader
    <3> QED  BY <3>1
  <2> QED  BY <1>2, <2>1 DEF WritesHeader, storageVars, readerVars
<1>3. CASE Reads
  <2>1. PICK k \in 1 .. Room : taken + k <= source /\ taken' = taken + k /\ n' = n + k
    BY <1>3 DEF Reads
  <2>2. taken' \in 0 .. MaxSource /\ n' \in 0 .. ChunkSize
    BY <1>0, <2>1 DEF Room
  <2> QED  BY <1>3, <2>2 DEF Reads, storageVars, readerVars
<1>4. CASE SealsFullChunk
  <2>1. writerPC = "fill" /\ Seals(FALSE)
    BY <1>4 DEF SealsFullChunk
  <2>2. written' \in Seq(Record) /\ hashed' \in Seq(Nat)
    BY <2>1, Sealing
  <2>3. taken' \in 0 .. MaxSource /\ n' \in 0 .. ChunkSize
    BY <1>0, <1>4 DEF SealsFullChunk, Carried
  <2> QED  BY <1>4, <2>2, <2>3 DEF SealsFullChunk, storageVars, readerVars
<1>5. CASE SealsLastChunk
  <2>1. writerPC = "fill" /\ Seals(TRUE)
    BY <1>5 DEF SealsLastChunk
  <2>2. written' \in Seq(Record) /\ hashed' \in Seq(Nat)
    BY <2>1, Sealing
  <2>3. n' \in 0 .. ChunkSize
    BY <1>0, <1>5 DEF SealsLastChunk
  <2> QED  BY <1>5, <2>2, <2>3 DEF SealsLastChunk, storageVars, readerVars
<1>6. CASE WritesManifest
  <2>1. written' = Append(written, Manifest(Len(written) - 1, hashed))
    BY <1>6 DEF WritesManifest, ChunkCount, ChunkIndex
  <2>2. Len(written) - 1 \in Nat
    BY <1>0, <1>6, EmptySeq DEF WritesManifest, WriterInv
  <2>3. Manifest(Len(written) - 1, hashed) \in Record
    BY <2>2, RecordTypes
  <2>4. written' \in Seq(Record)
    BY <2>1, <2>3
  <2> QED  BY <1>6, <2>4 DEF WritesManifest, readerVars
<1>7. CASE WriterFails
  BY <1>7 DEF WriterFails, storageVars, readerVars
<1>8. CASE Rearranges
  BY <1>8, RearrangedRecords DEF Rearranges, writerVars, readerVars
<1>9. CASE Damages
  BY <1>9, DamagedRecords DEF Damages, writerVars, readerVars
<1>10. CASE Starts
  BY <1>10 DEF Starts, writerVars, storageVars
<1>11. CASE OpensEnvelope
  BY <1>11 DEF OpensEnvelope, writerVars, storageVars
<1>12. CASE ReleasesChunk
  <2>1. Opens("chunk")
    BY <1>12 DEF ReleasesChunk, ChunkIsGood
  <2>2. stored[pos + 1].bytes \in Seq(Nat)
    BY <2>1, OpenedRecord
  <2>3. plain' \in Seq(Nat)
    BY <1>12, <2>2, ConcatProperties DEF ReleasesChunk
  <2> QED  BY <1>12, <2>3 DEF ReleasesChunk, writerVars, storageVars
<1>13. CASE ChecksManifest
  BY <1>13 DEF ChecksManifest, writerVars, storageVars
<1>14. CASE Accepts
  BY <1>14 DEF Accepts, writerVars, storageVars
<1>15. CASE Rejects
  BY <1>15 DEF Rejects, writerVars, storageVars
<1>16. CASE UNCHANGED vars
  BY <1>16 DEF vars, writerVars, storageVars, readerVars
<1> QED
  BY <1>1, <1>2, <1>3, <1>4, <1>5, <1>6, <1>7, <1>8, <1>9, <1>10, <1>11, <1>12, <1>13, <1>14,
     <1>15, <1>16 DEF Next, WriterStep, ReaderStep

-----------------------------------------------------------------------------
(* The writer's invariant.                                                  *)

\* Sealing a full buffer leaves only full chunks, with one byte read ahead.
LEMMA WriterInvFull ==
  ASSUME TypeOK, WriterInv, SealsFullChunk
  PROVE  WriterInv'
<1> DEFINE ci == ChunkIndex
<1>1. /\ writerPC = "fill" /\ n = ChunkSize /\ taken < source /\ Seals(FALSE)
      /\ taken' = taken + 1 /\ n' = 1 /\ writerPC' = "fill" /\ source' = source
  BY DEF SealsFullChunk, Carried
<1>2. /\ Len(written) \in Nat /\ Len(written) >= 1 /\ ci \in Nat /\ ci = Len(written) - 1
      /\ ci * ChunkSize \in Nat /\ taken - n = ci * ChunkSize
      /\ taken \in Nat /\ source \in Nat /\ ChunkSize \in Nat
  BY <1>1, Buffered, ChunkEnds, BoundsAssumption DEF TypeOK, ChunkIndex
<1>3. (ci + 1) * ChunkSize = ci * ChunkSize + ChunkSize
  BY <1>2, ChunkEnds
<1>4. taken = (ci + 1) * ChunkSize
  BY <1>1, <1>2, <1>3
<1>5. /\ Len(written') = Len(written) + 1
      /\ \A i \in 1 .. Len(written) : written'[i] = written[i]
      /\ written'[Len(written) + 1] = Chunk(ci, FALSE, Bytes(ci * ChunkSize, taken))
      /\ hashed' = Bytes(0, taken)
      /\ written' \in Seq(Record)
  BY <1>1, Sealing
<1>6. written'[Len(written) + 1] = FullChunk(ci)
  BY <1>4, <1>5 DEF FullChunk
<1> HIDE DEF ci
<1>7. FullUpTo(Len(written))'
  <2> SUFFICES ASSUME NEW i \in 2 .. Len(written')
               PROVE  written'[i] = FullChunk(i - 2)
    BY DEF FullUpTo, FullChunk, Chunk, Bytes
  <2>1. CASE i <= Len(written)
    BY <1>1, <1>2, <1>5, <2>1 DEF WriterInv, FullUpTo
  <2>2. CASE i = Len(written) + 1
    <3>1. i - 2 = ci
      BY <1>2, <2>2
    <3> QED  BY <1>6, <2>2, <3>1
  <2> QED  BY <1>2, <1>5, <2>1, <2>2
<1>8. written' # << >>
  BY <1>2, <1>5
<1>9. written'[1] = Header
  BY <1>1, <1>2, <1>5 DEF WriterInv
<1>10. taken' = (Len(written') - 1) * ChunkSize + n'
  <2>1. Len(written') - 1 = ci + 1
    BY <1>2, <1>5
  <2> QED  BY <1>1, <1>4, <2>1
<1>11. taken' - n' = taken
  BY <1>1, <1>2
<1>12. hashed' = Bytes(0, taken' - n')
  BY <1>5, <1>11
<1>13. taken' <= source'
  BY <1>1, <1>2
<1>14. WriterInv' <=> /\ taken' <= source'
                      /\ written' # << >>
                      /\ written'[1] = Header
                      /\ FullUpTo(Len(written))'
                      /\ taken' = (Len(written') - 1) * ChunkSize + n'
                      /\ hashed' = Bytes(0, taken' - n')
                      /\ n' = 0 => Len(written') = 1
  <2> HIDE DEF FullUpTo, AllChunks
  <2> QED  BY <1>1 DEF WriterInv, Header, Bytes
<1> QED  BY <1>1, <1>7, <1>8, <1>9, <1>10, <1>12, <1>13, <1>14

\* Sealing the last of the source leaves all of its chunks.
LEMMA WriterInvLast ==
  ASSUME TypeOK, WriterInv, SealsLastChunk
  PROVE  WriterInv'
<1> DEFINE ci == ChunkIndex
<1>1. /\ writerPC = "fill" /\ taken = source /\ Seals(TRUE)
      /\ taken' = taken /\ n' = 0 /\ writerPC' = "manifest" /\ source' = source
  BY DEF SealsLastChunk, EndOfSource
<1>2. /\ Len(written) \in Nat /\ Len(written) >= 1 /\ ci \in Nat /\ ci = Len(written) - 1
      /\ ci * ChunkSize \in Nat /\ taken - n = ci * ChunkSize
      /\ taken \in Nat /\ n \in Nat /\ n <= ChunkSize /\ source \in Nat /\ ChunkSize \in Nat
  BY <1>1, Buffered, ChunkEnds, BoundsAssumption DEF TypeOK, ChunkIndex
<1>3. (ci + 1) * ChunkSize = ci * ChunkSize + ChunkSize
  BY <1>2, ChunkEnds
<1>4. ci * ChunkSize <= taken /\ taken <= (ci + 1) * ChunkSize
  BY <1>2, <1>3
<1>5. ci * ChunkSize = taken => taken = 0
  <2> SUFFICES ASSUME ci * ChunkSize = taken
               PROVE  taken = 0
    OBVIOUS
  <2>1. n = 0
    BY <1>2
  <2>2. Len(written) = 1
    BY <1>1, <2>1 DEF WriterInv
  <2>3. ci = 0
    BY <1>2, <2>2
  <2>4. 0 * ChunkSize = 0
    BY <1>2
  <2> HIDE DEF ci
  <2> QED  BY <2>3, <2>4
<1>6. /\ Len(written') = Len(written) + 1
      /\ \A i \in 1 .. Len(written) : written'[i] = written[i]
      /\ written'[Len(written) + 1] = Chunk(ci, TRUE, Bytes(ci * ChunkSize, taken))
      /\ hashed' = Bytes(0, taken)
      /\ written' \in Seq(Record)
  BY <1>1, Sealing
<1> HIDE DEF ci
<1>7. Len(written') - 2 = ci /\ Len(written') - 1 = ci + 1 /\ Len(written') >= 2
  BY <1>2, <1>6
<1>8. \A i \in 2 .. Len(written') - 1 : written'[i] = FullChunk(i - 2)
  BY <1>1, <1>2, <1>6 DEF WriterInv, FullUpTo
<1>9. written'[Len(written')] = Chunk(Len(written') - 2, TRUE,
                                      Bytes((Len(written') - 2) * ChunkSize, taken))
  BY <1>6, <1>7
<1>10. AllChunks(Len(written))'
  <2>1. AllChunks(Len(written))' <=>
          /\ Len(written') >= 2
          /\ \A i \in 2 .. Len(written') - 1 : written'[i] = FullChunk(i - 2)
          /\ written'[Len(written')] = Chunk(Len(written') - 2, TRUE,
                                             Bytes((Len(written') - 2) * ChunkSize, taken'))
          /\ (Len(written') - 2) * ChunkSize <= taken'
          /\ taken' <= (Len(written') - 1) * ChunkSize
          /\ (Len(written') - 2) * ChunkSize = taken' => taken' = 0
    BY DEF AllChunks, FullUpTo, FullChunk, Chunk, Bytes
  <2> QED  BY <1>1, <1>4, <1>5, <1>7, <1>8, <1>9, <2>1
<1>11. written' # << >>
  BY <1>2, <1>6
<1>12. written'[1] = Header
  BY <1>1, <1>2, <1>6 DEF WriterInv
<1>13. WriterInv' <=> /\ taken' <= source'
                      /\ written' # << >>
                      /\ written'[1] = Header
                      /\ hashed' = Bytes(0, taken')
                      /\ AllChunks(Len(written))'
  BY <1>1 DEF WriterInv, Header, Bytes
<1> QED  BY <1>1, <1>2, <1>6, <1>10, <1>11, <1>12, <1>13

\* The manifest completes the container.
LEMMA WriterInvManifest ==
  ASSUME TypeOK, WriterInv, WritesManifest
  PROVE  WriterInv'
<1>1. /\ writerPC = "manifest" /\ writerPC' = "done" /\ taken' = taken /\ source' = source
      /\ hashed' = hashed
      /\ written' = Append(written, Manifest(Len(written) - 1, hashed))
  BY DEF WritesManifest, ChunkCount, ChunkIndex
<1>2. written \in Seq(Record) /\ hashed \in Seq(Nat) /\ Len(written) \in Nat
  BY DEF TypeOK
<1>3. AllChunks(Len(written)) /\ written[1] = Header /\ hashed = Bytes(0, taken)
      /\ taken <= source
  BY <1>1 DEF WriterInv
<1>4. Len(written) >= 2
  BY <1>3 DEF AllChunks
<1>5. Manifest(Len(written) - 1, hashed) \in Record
  BY <1>2, <1>4, RecordTypes
<1>6. /\ Len(written') = Len(written) + 1
      /\ \A i \in 1 .. Len(written) : written'[i] = written[i]
      /\ written'[Len(written) + 1] = Manifest(Len(written) - 1, hashed)
  BY <1>1, <1>2, <1>5, AppendProperties
<1>7. Len(written') - 1 = Len(written) /\ Len(written') - 2 = Len(written) - 1
  BY <1>2, <1>6
<1>8. AllChunks(Len(written) - 1)'
  <2>1. AllChunks(Len(written) - 1)' <=>
          /\ Len(written') - 1 >= 2
          /\ \A i \in 2 .. Len(written') - 1 - 1 : written'[i] = FullChunk(i - 2)
          /\ written'[Len(written') - 1] =
               Chunk(Len(written') - 1 - 2, TRUE,
                     Bytes((Len(written') - 1 - 2) * ChunkSize, taken'))
          /\ (Len(written') - 1 - 2) * ChunkSize <= taken'
          /\ taken' <= (Len(written') - 1 - 1) * ChunkSize
          /\ (Len(written') - 1 - 2) * ChunkSize = taken' => taken' = 0
    BY DEF AllChunks, FullUpTo, FullChunk, Chunk, Bytes
  <2>2. \A i \in 2 .. Len(written) - 1 : written'[i] = FullChunk(i - 2)
    <3>1. \A i \in 2 .. Len(written) - 1 : written[i] = FullChunk(i - 2)
      BY <1>3 DEF AllChunks, FullUpTo
    <3>2. \A i \in 2 .. Len(written) - 1 : written'[i] = written[i]
      BY <1>2, <1>6
    <3> QED  BY <3>1, <3>2
  <2>3. written'[Len(written)] = written[Len(written)]
    BY <1>2, <1>4, <1>6
  <2> QED  BY <1>1, <1>3, <1>4, <1>7, <2>1, <2>2, <2>3 DEF AllChunks
<1>9. written' # << >>
  BY <1>2, <1>6
<1>10. written'[1] = Header
  BY <1>2, <1>3, <1>4, <1>6
<1>11. written'[Len(written')] = Manifest(Len(written') - 2, hashed')
  BY <1>1, <1>6, <1>7
<1>12. WriterInv' <=> /\ taken' <= source'
                      /\ written' # << >>
                      /\ written'[1] = Header
                      /\ hashed' = Bytes(0, taken')
                      /\ AllChunks(Len(written) - 1)'
                      /\ written'[Len(written')] = Manifest(Len(written') - 2, hashed')
  BY <1>1 DEF WriterInv, Header, Bytes, Manifest
<1> QED  BY <1>1, <1>3, <1>8, <1>9, <1>10, <1>11, <1>12

\* Every action keeps the writer's invariant.
LEMMA WriterInvStep ==
  ASSUME TypeOK, WriterInv, [Next]_vars
  PROVE  WriterInv'
<1>0. /\ taken \in Nat /\ source \in Nat /\ n \in Nat /\ Len(written) \in Nat
      /\ taken <= source /\ ChunkSize \in Nat /\ written \in Seq(Record)
  BY ChunkSizeAssumption, BoundsAssumption DEF TypeOK, WriterInv
<1>1. CASE SourceGrows
  <2>1. taken <= source'
    BY <1>0, <1>1 DEF SourceGrows
  <2>2. writerPC \in {"header", "fill"} /\ UNCHANGED <<taken, n, hashed, written, writerPC>>
    BY <1>1 DEF SourceGrows
  <2> QED  BY <2>1, <2>2 DEF WriterInv, FullUpTo, FullChunk, Chunk, Header, Bytes
<1>2. CASE WritesHeader
  <2>1. /\ taken = 0 /\ n = 0 /\ hashed = << >>
        /\ written' = <<Header>> /\ writerPC' = "fill"
        /\ UNCHANGED <<source, taken, n, hashed>>
    BY <1>2 DEF WritesHeader, WriterInv
  <2>2. Len(written') = 1 /\ written'[1] = Header /\ written' # << >>
    BY <2>1
  <2>3. hashed' = Bytes(0, taken' - n')
    <3>1. taken' - n' = 0
      BY <2>1
    <3> QED  BY <2>1, <3>1, BytesEmpty
  <2>4. taken' = (Len(written') - 1) * ChunkSize + n'
    <3>1. 0 * ChunkSize = 0
      BY <1>0
    <3>2. Len(written') - 1 = 0
      BY <2>2
    <3> QED  BY <2>1, <3>1, <3>2
  <2>5. \A i \in 2 .. Len(written') : written'[i] = FullChunk(i - 2)
    BY <2>2
  <2>6. WriterInv' <=> /\ taken' <= source'
                       /\ written' # << >>
                       /\ written'[1] = Header
                       /\ \A i \in 2 .. Len(written') : written'[i] = FullChunk(i - 2)
                       /\ taken' = (Len(written') - 1) * ChunkSize + n'
                       /\ hashed' = Bytes(0, taken' - n')
                       /\ n' = 0 => Len(written') = 1
    BY <2>1 DEF WriterInv, FullUpTo, FullChunk, Chunk, Header, Bytes
  <2> QED  BY <1>0, <2>1, <2>2, <2>3, <2>4, <2>5, <2>6
<1>3. CASE Reads
  <2>1. PICK k \in 1 .. Room : taken + k <= source /\ taken' = taken + k /\ n' = n + k
    BY <1>3 DEF Reads
  <2>2. writerPC = "fill" /\ UNCHANGED <<source, hashed, written, writerPC>>
    BY <1>3 DEF Reads
  <2>3. k \in Nat /\ k >= 1
    BY <1>0, <2>1 DEF Room
  <2>4. taken' - n' = taken - n /\ n' # 0 /\ taken' <= source'
    BY <1>0, <2>1, <2>2, <2>3
  <2>5. taken' = (Len(written) - 1) * ChunkSize + n'
    <3> DEFINE base == (Len(written) - 1) * ChunkSize
    <3>1. taken = base + n
      BY <2>2 DEF WriterInv
    <3>2. base \in Int
      BY <1>0
    <3> HIDE DEF base
    <3>3. taken' = base + n'
      BY <1>0, <2>1, <2>3, <3>1, <3>2
    <3> QED  BY <3>3 DEF base
  <2>6. WriterInv' <=> /\ taken' <= source'
                       /\ written # << >>
                       /\ written[1] = Header
                       /\ FullUpTo(Len(written))
                       /\ taken' = (Len(written) - 1) * ChunkSize + n'
                       /\ hashed = Bytes(0, taken' - n')
                       /\ n' = 0 => Len(written) = 1
    BY <2>2 DEF WriterInv, FullUpTo, FullChunk, Chunk, Header, Bytes
  <2>7. /\ written # << >> /\ written[1] = Header /\ FullUpTo(Len(written))
        /\ hashed = Bytes(0, taken - n)
    BY <2>2 DEF WriterInv
  <2> QED  BY <2>4, <2>5, <2>6, <2>7
<1>4. CASE SealsFullChunk
  BY <1>4, WriterInvFull
<1>5. CASE SealsLastChunk
  BY <1>5, WriterInvLast
<1>6. CASE WritesManifest
  BY <1>6, WriterInvManifest
<1>7. CASE WriterFails
  <2>1. writerPC' = "failed" /\ UNCHANGED <<source, taken>>
    BY <1>7 DEF WriterFails
  <2> QED  BY <1>0, <2>1 DEF WriterInv
<1>8. CASE UNCHANGED writerVars
  BY <1>8 DEF writerVars, WriterInv, AllChunks, FullUpTo, FullChunk, Chunk, Header, Manifest, Bytes
<1>9. Rearranges \/ Damages \/ ReaderStep \/ UNCHANGED vars => UNCHANGED writerVars
  BY DEF Rearranges, Damages, ReaderStep, Starts, OpensEnvelope, ReleasesChunk, ChecksManifest,
         Accepts, Rejects, vars
<1> QED
  BY <1>1, <1>2, <1>3, <1>4, <1>5, <1>6, <1>7, <1>8, <1>9 DEF Next, WriterStep

-----------------------------------------------------------------------------
(* What storage can make the reader take for genuine.                       *)

\* Every action keeps the storage's invariant.
LEMMA StorageInvStep ==
  ASSUME TypeOK, StorageInv, [Next]_vars
  PROVE  StorageInv'
<1> DEFINE From(r, w) == /\ r.kind = w.kind /\ r.bytes = w.bytes /\ r.aad = w.aad
                         /\ r.kind # "chunk" => r = w
<1>1. ASSUME writerPC' # "done", stored' = << >>, readerPC' = "idle"
      PROVE  StorageInv'
  BY <1>1 DEF StorageInv
<1>2. ASSUME NEW i \in DOMAIN stored, stored[i].sealed = "own"
      PROVE  \E j \in DOMAIN written : From(stored[i], written[j])
  BY <1>2 DEF StorageInv
<1>3. ASSUME writerPC' = "done",
             \A i \in DOMAIN stored' : stored'[i].sealed = "own" =>
               \E j \in DOMAIN written' : From(stored'[i], written'[j])
      PROVE  StorageInv'
  BY <1>3 DEF StorageInv
<1>4. CASE SourceGrows
  BY <1>4, <1>1 DEF SourceGrows, StorageInv, storageVars, readerVars
<1>5. CASE WritesHeader
  BY <1>5, <1>1 DEF WritesHeader, StorageInv, storageVars, readerVars
<1>6. CASE Reads
  BY <1>6, <1>1 DEF Reads, StorageInv, storageVars, readerVars
<1>7. CASE SealsFullChunk
  BY <1>7, <1>1 DEF SealsFullChunk, StorageInv, storageVars, readerVars
<1>8. CASE SealsLastChunk
  BY <1>8, <1>1 DEF SealsLastChunk, StorageInv, storageVars, readerVars
<1>9. CASE WritesManifest
  <2>1. writerPC' = "done" /\ stored' = written'
    BY <1>9 DEF WritesManifest
  <2>2. \A i \in DOMAIN stored' : From(stored'[i], written'[i])
    BY <2>1
  <2> HIDE DEF From
  <2> QED  BY <1>3, <2>1, <2>2
<1>10. CASE WriterFails
  BY <1>10, <1>1 DEF WriterFails, StorageInv, storageVars, readerVars
<1>11. CASE Rearranges
  <2>1. writerPC' = "done" /\ written' = written
    BY <1>11 DEF Rearranges, writerVars
  <2>2. \A i \in DOMAIN stored' : \E j \in DOMAIN written : stored'[i] = written[j]
    BY <1>11, RearrangedRecords
  <2>3. \A i \in DOMAIN stored' : \E j \in DOMAIN written' : From(stored'[i], written'[j])
    BY <2>1, <2>2
  <2> HIDE DEF From
  <2> QED  BY <1>3, <2>1, <2>3
<1>12. CASE Damages
  <2>1. writerPC' = "done" /\ written' = written
    BY <1>12 DEF Damages, writerVars
  <2>2. stored \in Seq(Record)
    BY DEF TypeOK
  <2>3. ASSUME NEW k \in DOMAIN stored, stored' = [stored EXCEPT ![k].sealed = "foreign"],
               NEW i \in DOMAIN stored', stored'[i].sealed = "own"
        PROVE  i \in DOMAIN stored /\ stored'[i] = stored[i]
    <3>1. i \in DOMAIN stored
      BY <2>3
    <3>2. stored[k] \in Record
      BY <2>2, ElementOfSeq
    <3>3. i # k
      <4> SUFFICES ASSUME i = k
                   PROVE  FALSE
        OBVIOUS
      <4>1. stored'[k] = [stored[k] EXCEPT !.sealed = "foreign"]
        BY <2>3
      <4>2. stored'[k].sealed = "foreign"
        BY <3>2, <4>1 DEF Record
      <4> QED  BY <2>3, <4>2
    <3> QED  BY <2>3, <3>1, <3>3
  <2>4. ASSUME NEW k \in DOMAIN stored, stored[k].kind = "chunk", NEW index, NEW final,
               stored' = [stored EXCEPT ![k].index = index, ![k].final = final],
               NEW i \in DOMAIN stored'
        PROVE  /\ i \in DOMAIN stored
               /\ \/ stored'[i] = stored[i]
                  \/ /\ stored'[i].kind = "chunk" /\ stored[i].kind = "chunk"
                     /\ stored'[i].bytes = stored[i].bytes /\ stored'[i].aad = stored[i].aad
                     /\ stored'[i].sealed = stored[i].sealed
    <3>1. i \in DOMAIN stored
      BY <2>4
    <3>2. stored[k] \in Record
      BY <2>2, ElementOfSeq
    <3>3. CASE i = k
      <4>1. stored'[k] = [stored[k] EXCEPT !.index = index, !.final = final]
        BY <2>4
      <4> DEFINE old == stored[k]
                 new == stored'[k]
      <4>2. old \in Record /\ new = [old EXCEPT !.index = index, !.final = final]
            /\ old.kind = "chunk"
        BY <2>4, <3>2, <4>1
      <4> HIDE DEF old, new
      <4>3. new.kind = old.kind /\ new.bytes = old.bytes /\ new.aad = old.aad
            /\ new.sealed = old.sealed
        BY <4>2 DEF Record
      <4> QED  BY <3>1, <3>3, <4>2, <4>3 DEF old, new
    <3>4. CASE i # k
      BY <2>4, <3>1, <3>4
    <3> QED  BY <3>3, <3>4
  <2>5. ASSUME NEW i \in DOMAIN stored', stored'[i].sealed = "own"
        PROVE  /\ i \in DOMAIN stored /\ stored[i].sealed = "own"
               /\ \/ stored'[i] = stored[i]
                  \/ /\ stored'[i].kind = "chunk" /\ stored[i].kind = "chunk"
                     /\ stored'[i].bytes = stored[i].bytes /\ stored'[i].aad = stored[i].aad
    <3>1. CASE \E k \in DOMAIN stored : stored' = [stored EXCEPT ![k].sealed = "foreign"]
      <4>1. i \in DOMAIN stored /\ stored'[i] = stored[i]
        BY <2>3, <2>5, <3>1
      <4> QED  BY <2>5, <4>1
    <3>2. CASE \E k \in DOMAIN stored : /\ stored[k].kind = "chunk"
                                       /\ \E index \in 0 .. Len(written), final \in BOOLEAN :
                                            stored' = [stored EXCEPT ![k].index = index,
                                                                     ![k].final = final]
      <4>1. /\ i \in DOMAIN stored
            /\ \/ stored'[i] = stored[i]
               \/ /\ stored'[i].kind = "chunk" /\ stored[i].kind = "chunk"
                  /\ stored'[i].bytes = stored[i].bytes /\ stored'[i].aad = stored[i].aad
                  /\ stored'[i].sealed = stored[i].sealed
        <5>1. PICK k \in DOMAIN stored :
                /\ stored[k].kind = "chunk"
                /\ \E index \in 0 .. Len(written), final \in BOOLEAN :
                     stored' = [stored EXCEPT ![k].index = index, ![k].final = final]
          BY <3>2
        <5>2. PICK index \in 0 .. Len(written), final \in BOOLEAN :
                stored' = [stored EXCEPT ![k].index = index, ![k].final = final]
          BY <5>1
        <5> QED  BY <2>4, <2>5, <5>1, <5>2
      <4> QED  BY <2>5, <4>1
    <3>3. CASE stored' = stored
      BY <2>5, <3>3
    <3> QED  BY <1>12, <3>1, <3>2, <3>3 DEF Damages
  <2>6. ASSUME NEW i \in DOMAIN stored', stored'[i].sealed = "own"
        PROVE  \E j \in DOMAIN written' : From(stored'[i], written'[j])
    <3>1. PICK j \in DOMAIN written : From(stored[i], written[j])
      BY <1>2, <2>5, <2>6
    <3>2. From(stored'[i], written[j])
      BY <2>5, <2>6, <3>1
    <3> QED  BY <2>1, <3>2
  <2> HIDE DEF From
  <2> QED  BY <1>3, <2>1, <2>6
<1>13. CASE ReaderStep
  <2>1. writerPC = "done" /\ UNCHANGED <<writerPC, written, stored>>
    BY <1>13 DEF ReaderStep, Starts, OpensEnvelope, ReleasesChunk, ChecksManifest, Accepts,
                 Rejects, StorageInv, writerVars, storageVars
  <2> QED  BY <2>1 DEF StorageInv
<1>14. CASE UNCHANGED vars
  BY <1>14 DEF vars, writerVars, storageVars, readerVars, StorageInv
<1> QED
  BY <1>4, <1>5, <1>6, <1>7, <1>8, <1>9, <1>10, <1>11, <1>12, <1>13, <1>14 DEF Next, WriterStep

\* A record that opens as a header is the header of the container.
LEMMA HeaderFound ==
  ASSUME TypeOK, WriterInv, StorageInv, writerPC = "done", Opens("header")
  PROVE  stored[pos + 1] = written[1]
<1>1. pos + 1 \in DOMAIN stored /\ stored[pos + 1].sealed = "own"
      /\ stored[pos + 1].kind = "header"
  BY OpenedRecord
<1>2. PICK j \in DOMAIN written : stored[pos + 1] = written[j]
  BY <1>1 DEF StorageInv
<1>3. Len(written) \in Nat /\ Len(written) >= 3 /\ j \in 1 .. Len(written)
  <2>1. written \in Seq(Record)
    BY DEF TypeOK
  <2>2. Len(written) \in Nat /\ Len(written) >= 3
    BY WrittenShape
  <2> QED  BY <2>1, <2>2
<1>4. \A i \in 2 .. Len(written) - 1 : written[i].kind = "chunk"
  BY WrittenKinds
<1>5. written[Len(written)].kind = "manifest"
  BY WrittenKinds
<1>6. written[j].kind = "header"
  BY <1>1, <1>2
<1>7. j = 1
  BY <1>3, <1>4, <1>5, <1>6
<1> QED  BY <1>2, <1>7

\* A record that opens as a manifest is the manifest of the container.
LEMMA ManifestFound ==
  ASSUME TypeOK, WriterInv, StorageInv, writerPC = "done", Opens("manifest")
  PROVE  stored[pos + 1] = written[Len(written)]
<1>1. pos + 1 \in DOMAIN stored /\ stored[pos + 1].sealed = "own"
      /\ stored[pos + 1].kind = "manifest"
  BY OpenedRecord
<1>2. PICK j \in DOMAIN written : stored[pos + 1] = written[j]
  BY <1>1 DEF StorageInv
<1>3. Len(written) \in Nat /\ Len(written) >= 3 /\ j \in 1 .. Len(written)
  <2>1. written \in Seq(Record)
    BY DEF TypeOK
  <2>2. Len(written) \in Nat /\ Len(written) >= 3
    BY WrittenShape
  <2> QED  BY <2>1, <2>2
<1>4. \A i \in 2 .. Len(written) - 1 : written[i].kind = "chunk"
  BY WrittenKinds
<1>5. written[1].kind = "header"
  BY WrittenKinds
<1>6. written[j].kind = "manifest"
  BY <1>1, <1>2
<1>7. j = Len(written)
  BY <1>3, <1>4, <1>5, <1>6
<1> QED  BY <1>2, <1>7

\* A record that opens as the expected chunk is that chunk of the container.
LEMMA ChunkFound ==
  ASSUME TypeOK, WriterInv, StorageInv, writerPC = "done", ChunkIsGood
  PROVE  /\ expected \in Nat
         /\ expected + 2 \in 2 .. Len(written) - 1
         /\ stored[pos + 1] = written[expected + 2]
<1> DEFINE record == stored[pos + 1]
<1>1. /\ pos + 1 \in DOMAIN stored /\ record \in Record
      /\ record.sealed = "own" /\ record.kind = "chunk"
      /\ record.aad = <<record.index, record.final>>
  BY OpenedRecord DEF ChunkIsGood
<1>2. record.index = expected
  BY DEF ChunkIsGood
<1>3. PICK j \in DOMAIN written : /\ record.kind = written[j].kind
                                  /\ record.bytes = written[j].bytes
                                  /\ record.aad = written[j].aad
  BY <1>1 DEF StorageInv
<1>4. Len(written) \in Nat /\ Len(written) >= 3 /\ j \in 1 .. Len(written)
      /\ expected \in Nat /\ written[j] \in Record
  <2>1. written \in Seq(Record) /\ expected \in Nat
    BY DEF TypeOK
  <2>2. Len(written) \in Nat /\ Len(written) >= 3
    BY WrittenShape
  <2>3. j \in 1 .. Len(written)
    BY <2>1
  <2>4. written[j] \in Record
    BY <2>1, <2>3, ElementOfSeq
  <2> QED  BY <2>1, <2>2, <2>3, <2>4
<1>5. written[1].kind = "header" /\ written[Len(written)].kind = "manifest"
  BY WrittenKinds
<1>6. j \in 2 .. Len(written) - 1
  <2>1. j # 1 /\ j # Len(written)
    BY <1>1, <1>3, <1>5
  <2> QED  BY <1>4, <2>1
<1>7. /\ written[j].kind = "chunk" /\ written[j].index = j - 2 /\ written[j].sealed = "own"
      /\ written[j].aad[1] = j - 2 /\ written[j].aad[2] = written[j].final
  BY <1>6, WrittenKinds
<1> HIDE DEF record
<1>8. record.aad[1] = record.index /\ record.aad[2] = record.final
  BY <1>1
<1>9. record.index = j - 2
  BY <1>3, <1>7, <1>8
<1>10. record.final = written[j].final
  BY <1>3, <1>7, <1>8
<1>11. j = expected + 2
  BY <1>2, <1>4, <1>6, <1>9
<1>12. record = written[j]
  <2> DEFINE other == written[j]
  <2>1. record \in Record /\ other \in Record
    BY <1>1, <1>4
  <2>2. /\ record.kind = other.kind /\ record.index = other.index
        /\ record.final = other.final /\ record.bytes = other.bytes
        /\ record.sealed = other.sealed /\ record.aad = other.aad
    BY <1>1, <1>3, <1>7, <1>9, <1>10
  <2> HIDE DEF other
  <2>3. record = other
    BY <2>1, <2>2 DEF Record
  <2> QED  BY <2>3 DEF other
<1> QED  BY <1>4, <1>6, <1>11, <1>12 DEF record

-----------------------------------------------------------------------------
(* The reader's invariant.                                                  *)

\* More chunks are more bytes.
LEMMA ChunksMonotonic ==
  ASSUME NEW a \in Nat, NEW b \in Nat, a <= b
  PROVE  a * ChunkSize \in Nat /\ b * ChunkSize \in Nat /\ a * ChunkSize <= b * ChunkSize
<1>1. ChunkSize \in Nat
  BY ChunkSizeAssumption
<1>2. PICK d \in Nat : b = a + d
  <2>1. b - a \in Nat /\ b = a + (b - a)
    OBVIOUS
  <2> QED  BY <2>1
<1>3. b * ChunkSize = a * ChunkSize + d * ChunkSize
  BY <1>1, <1>2
<1>4. a * ChunkSize \in Nat /\ d * ChunkSize \in Nat
  BY <1>1
<1> QED  BY <1>3, <1>4

\* The chunk that the reader is given next carries on where the last one ended.
LEMMA ChunkReleased ==
  ASSUME TypeOK, WriterInv, StorageInv, ReaderInv, ReleasesChunk
  PROVE  /\ writerPC = "done" /\ readerPC = "chunks"
         /\ expected \in Nat /\ pos = expected + 1 /\ pos + 1 = expected + 2
         /\ pos + 1 \in 2 .. Len(written) - 1 /\ pos + 1 <= Len(stored)
         /\ stored[pos + 1] = written[pos + 1]
         /\ stored[pos + 1].final = FALSE =>
              /\ pos + 1 <= Len(written) - 2
              /\ plain' = Bytes(0, (expected + 1) * ChunkSize)
              /\ (expected + 1) * ChunkSize \in Nat
              /\ (expected + 1) * ChunkSize <= taken
         /\ stored[pos + 1].final # FALSE => /\ pos + 1 = Len(written) - 1
                                             /\ plain' = Bytes(0, taken)
<1>1. readerPC = "chunks" /\ ChunkIsGood /\ plain' = plain \o stored[pos + 1].bytes
  BY DEF ReleasesChunk
<1>2. writerPC = "done"
  BY <1>1 DEF StorageInv
<1>3. expected \in Nat /\ expected + 2 \in 2 .. Len(written) - 1
      /\ stored[pos + 1] = written[expected + 2]
  BY <1>1, <1>2, ChunkFound
<1>4. pos = expected + 1 /\ plain = Bytes(0, expected * ChunkSize)
  BY <1>1 DEF ReaderInv
<1>5. pos + 1 = expected + 2 /\ expected + 2 - 2 = expected
  BY <1>3, <1>4
<1>6. pos + 1 <= Len(stored)
  BY <1>1, OpenedRecord DEF ChunkIsGood
<1>7. Len(written) \in Nat /\ taken \in Nat /\ (Len(written) - 3) * ChunkSize <= taken
  BY <1>2, WrittenShape
<1> DEFINE begin == expected * ChunkSize
<1>8. begin \in Nat /\ (expected + 1) * ChunkSize = begin + ChunkSize
      /\ (expected + 1) * ChunkSize \in Nat /\ ChunkSize \in Nat
  <2>1. begin \in Nat /\ (expected + 1) * ChunkSize = begin + ChunkSize /\ ChunkSize \in Nat
    BY <1>3, ChunkEnds
  <2> HIDE DEF begin
  <2> QED  BY <2>1
<1>9. CASE expected + 2 <= Len(written) - 2
  <2>1. expected + 2 \in 2 .. Len(written) - 2
    BY <1>3, <1>7, <1>9
  <2>2. written[expected + 2] = FullChunk(expected)
    <3> DEFINE j == expected + 2
    <3>1. j \in 2 .. Len(written) - 2 /\ j - 2 = expected
      BY <1>3, <2>1
    <3> HIDE DEF j
    <3>2. written[j] = FullChunk(j - 2)
      BY <1>2, <3>1, WrittenShape
    <3>3. written[j] = FullChunk(expected)
      BY <3>1, <3>2
    <3> QED  BY <3>3 DEF j
  <2> DEFINE end   == (expected + 1) * ChunkSize
             bytes == Bytes(begin, end)
  <2>3. written[expected + 2] = Chunk(expected, FALSE, bytes)
    BY <2>2 DEF FullChunk
  <2>4. begin <= end /\ end \in Nat
    BY <1>8
  <2>5. end <= taken
    <3>1. expected + 1 <= Len(written) - 3 /\ expected + 1 \in Nat /\ Len(written) - 3 \in Nat
      BY <1>3, <1>7, <1>9
    <3>2. end <= (Len(written) - 3) * ChunkSize /\ (Len(written) - 3) * ChunkSize \in Nat
      BY <3>1, ChunksMonotonic
    <3> HIDE DEF end
    <3> QED  BY <1>7, <2>4, <3>2
  <2>6. Bytes(0, begin) \o bytes = Bytes(0, end)
    <3>1. begin \in Nat /\ end \in Nat /\ 0 <= begin /\ begin <= end
      BY <1>8, <2>4
    <3> HIDE DEF begin, end
    <3> QED  BY <3>1, BytesConcat
  <2> HIDE DEF bytes, begin
  <2>7. written[expected + 2].bytes = bytes
    BY <2>3 DEF Chunk
  <2>8. written[expected + 2].final = FALSE
    BY <2>3 DEF Chunk
  <2>9. plain' = Bytes(0, end)
    BY <1>1, <1>3, <1>4, <2>6, <2>7 DEF begin
  <2> QED  BY <1>1, <1>2, <1>3, <1>4, <1>5, <1>6, <1>9, <2>4, <2>5, <2>8, <2>9
<1>10. CASE ~(expected + 2 <= Len(written) - 2)
  <2>1. expected + 2 = Len(written) - 1 /\ Len(written) - 3 = expected
    BY <1>3, <1>7, <1>10
  <2> DEFINE bytes == Bytes(begin, taken)
  <2>2. written[expected + 2] = Chunk(expected, TRUE, bytes)
    BY <1>2, <2>1, WrittenShape
  <2>3. begin <= taken
    BY <1>7, <2>1
  <2>4. Bytes(0, begin) \o bytes = Bytes(0, taken)
    <3>1. begin \in Nat /\ taken \in Nat /\ 0 <= begin /\ begin <= taken
      BY <1>7, <1>8, <2>3
    <3> HIDE DEF begin
    <3> QED  BY <3>1, BytesConcat
  <2> HIDE DEF bytes, begin
  <2>5. written[expected + 2].bytes = bytes
    BY <2>2 DEF Chunk
  <2>6. written[expected + 2].final = TRUE
    BY <2>2 DEF Chunk
  <2>7. plain' = Bytes(0, taken)
    BY <1>1, <1>3, <1>4, <2>4, <2>5 DEF begin
  <2> QED  BY <1>1, <1>2, <1>3, <1>4, <1>5, <1>6, <2>1, <2>6, <2>7
<1> QED  BY <1>9, <1>10

\* What the reader released before is kept, and what it releases next follows.
LEMMA ReaderInvReleases ==
  ASSUME TypeOK, WriterInv, StorageInv, ReaderInv, ReleasedInOrder, ReleasesChunk
  PROVE  ReaderInv' /\ ReleasedInOrder'
<1>1. /\ pos' = pos + 1 /\ expected' = expected + 1
      /\ UNCHANGED <<written, writerPC, stored, password, taken>>
      /\ readerPC' = IF stored[pos + 1].final THEN "manifest" ELSE "chunks"
  BY DEF ReleasesChunk, writerVars, storageVars
<1>2. /\ writerPC = "done" /\ readerPC = "chunks"
      /\ expected \in Nat /\ pos = expected + 1 /\ pos + 1 = expected + 2
      /\ pos + 1 \in 2 .. Len(written) - 1 /\ pos + 1 <= Len(stored)
      /\ stored[pos + 1] = written[pos + 1]
  BY ChunkReleased
<1>3. pos \in Nat /\ Len(written) \in Nat /\ Len(stored) \in Nat /\ taken \in Nat
  BY BoundsAssumption DEF TypeOK
<1>4. password = "right" /\ \A i \in 1 .. pos : stored[i] = written[i]
  BY <1>2 DEF ReaderInv
<1>5. pos' <= Len(stored) /\ pos' <= Len(written)
  BY <1>1, <1>2, <1>3
<1>6. \A i \in 1 .. pos' : stored[i] = written[i]
  BY <1>1, <1>2, <1>3, <1>4
<1>7. stored[pos + 1].final \in BOOLEAN
  BY OpenedRecord DEF ReleasesChunk, ChunkIsGood
<1>8. CASE stored[pos + 1].final = FALSE
  <2>1. readerPC' = "chunks"
    BY <1>1, <1>8
  <2>2. /\ pos + 1 <= Len(written) - 2
        /\ plain' = Bytes(0, (expected + 1) * ChunkSize)
        /\ (expected + 1) * ChunkSize \in Nat
        /\ (expected + 1) * ChunkSize <= taken
    BY <1>8, ChunkReleased
  <2>3. pos' = expected' + 1 /\ pos' <= Len(written) - 2
        /\ plain' = Bytes(0, expected' * ChunkSize)
    BY <1>1, <1>2, <2>2
  <2>4. ReaderInv'
    BY <1>1, <1>4, <1>5, <1>6, <2>1, <2>3 DEF ReaderInv, Bytes
  <2>5. Len(plain') = (expected + 1) * ChunkSize
    <3> DEFINE end == (expected + 1) * ChunkSize
    <3>1. end \in Nat /\ 0 <= end /\ plain' = Bytes(0, end)
      BY <2>2
    <3> HIDE DEF end
    <3>2. Len(Bytes(0, end)) = end - 0
      BY <3>1, BytesLength
    <3>3. Len(plain') = end
      BY <3>1, <3>2
    <3> QED  BY <3>3 DEF end
  <2>6. plain' = Bytes(0, Len(plain')) /\ Len(plain') <= taken'
    BY <1>1, <2>2, <2>5
  <2>7. ReleasedInOrder'
    BY <2>6 DEF ReleasedInOrder, Bytes
  <2> QED  BY <2>4, <2>7
<1>9. CASE stored[pos + 1].final = TRUE
  <2>1. readerPC' = "manifest"
    BY <1>1, <1>9
  <2>2. pos + 1 = Len(written) - 1 /\ plain' = Bytes(0, taken)
    BY <1>9, ChunkReleased
  <2>3. pos' = Len(written') - 1 /\ expected' = pos' - 1
    BY <1>1, <1>2, <2>2
  <2>4. ReaderInv'
    BY <1>1, <1>4, <1>5, <1>6, <2>1, <2>2, <2>3 DEF ReaderInv, Bytes
  <2>5. Len(plain') = taken
    <3>1. Len(Bytes(0, taken)) = taken - 0
      BY <1>3, BytesLength
    <3> QED  BY <1>3, <2>2, <3>1
  <2>6. plain' = Bytes(0, Len(plain')) /\ Len(plain') <= taken'
    BY <1>1, <1>3, <2>2, <2>5
  <2>7. ReleasedInOrder'
    BY <2>6 DEF ReleasedInOrder, Bytes
  <2> QED  BY <2>4, <2>7
<1> QED  BY <1>7, <1>8, <1>9

\* Every action keeps the reader's invariant and the order of what was released.
LEMMA ReaderInvStep ==
  ASSUME TypeOK, WriterInv, StorageInv, ReaderInv, ReleasedInOrder, [Next]_vars
  PROVE  ReaderInv' /\ ReleasedInOrder'
<1>0. pos \in Nat /\ taken \in Nat /\ Len(written) \in Nat /\ Len(stored) \in Nat
  BY BoundsAssumption DEF TypeOK
<1>1. ASSUME readerPC = "idle", UNCHANGED readerVars, taken' \in Nat
      PROVE  ReaderInv' /\ ReleasedInOrder'
  <2>1. pos' = 0 /\ expected' = 0 /\ plain' = << >> /\ readerPC' = "idle"
    BY <1>1 DEF ReaderInv, readerVars
  <2>2. Len(stored') \in Nat /\ Len(written') \in Nat
    <3>1. TypeOK'
      BY TypeStep
    <3>2. stored' \in Seq(Record') /\ written' \in Seq(Record')
      BY <3>1 DEF TypeOK
    <3> QED  BY <3>2
  <2>3. ReaderInv'
    BY <2>1, <2>2 DEF ReaderInv
  <2>4. plain' = Bytes(0, Len(plain')) /\ Len(plain') <= taken'
    <3>1. Len(plain') = 0
      BY <2>1
    <3> QED  BY <1>1, <2>1, <3>1, BytesEmpty
  <2> QED  BY <2>3, <2>4 DEF ReleasedInOrder, Bytes
<1>2. CASE SourceGrows \/ WriterStep \/ WriterFails
  <2>1. writerPC # "done" /\ UNCHANGED readerVars
    BY <1>2 DEF SourceGrows, WriterStep, WriterFails, WritesHeader, Reads, SealsFullChunk,
                SealsLastChunk, WritesManifest, readerVars
  <2>2. readerPC = "idle"
    BY <2>1 DEF StorageInv
  <2>3. taken' \in Nat
    <3>1. TypeOK'
      BY TypeStep
    <3> QED  BY <3>1, BoundsAssumption DEF TypeOK
  <2> QED  BY <1>1, <2>1, <2>2, <2>3
<1>3. CASE Rearranges
  BY <1>0, <1>1, <1>3 DEF Rearranges, writerVars
<1>4. CASE Damages
  BY <1>0, <1>1, <1>4 DEF Damages, writerVars
<1>5. CASE Starts
  BY <1>5 DEF Starts, ReaderInv, ReleasedInOrder, writerVars, storageVars, Bytes
<1>6. CASE OpensEnvelope
  <2>1. /\ readerPC = "header" /\ readerPC' = "chunks" /\ pos' = pos + 1
        /\ UNCHANGED <<written, writerPC, stored, password, taken, expected, plain>>
        /\ Opens("header") /\ password = "right"
    BY <1>6 DEF OpensEnvelope, HeaderIsGood, writerVars, storageVars
  <2>2. pos = 0 /\ expected = 0 /\ plain = << >>
    BY <2>1 DEF ReaderInv
  <2>3. writerPC = "done"
    BY <2>1 DEF StorageInv
  <2>4. stored[1] = written[1] /\ 1 <= Len(stored)
    BY <2>1, <2>2, <2>3, HeaderFound, OpenedRecord
  <2>5. Len(written) >= 3
    BY <2>3, WrittenShape
  <2>6. plain = Bytes(0, 0 * ChunkSize)
    <3>1. 0 * ChunkSize = 0
      BY ChunkSizeAssumption
    <3> QED  BY <2>2, <3>1, BytesEmpty
  <2>7. pos' = 1
    BY <2>1, <2>2
  <2>8. \A i \in 1 .. pos' : stored[i] = written[i]
    BY <2>4, <2>7
  <2>9. ReaderInv'
    BY <1>0, <2>1, <2>2, <2>4, <2>5, <2>6, <2>7, <2>8 DEF ReaderInv, Bytes
  <2>10. ReleasedInOrder'
    BY <2>1 DEF ReleasedInOrder, Bytes
  <2> QED  BY <2>9, <2>10
<1>7. CASE ReleasesChunk
  BY <1>7, ReaderInvReleases
<1>8. CASE ChecksManifest
  <2>1. /\ readerPC = "manifest" /\ readerPC' = "end" /\ pos' = pos + 1
        /\ UNCHANGED <<written, writerPC, stored, password, taken, expected, plain>>
        /\ Opens("manifest")
    BY <1>8 DEF ChecksManifest, ManifestIsGood, writerVars, storageVars
  <2>2. writerPC = "done"
    BY <2>1 DEF StorageInv
  <2>3. pos = Len(written) - 1 /\ plain = Bytes(0, taken) /\ password = "right"
    BY <2>1 DEF ReaderInv
  <2>4. stored[pos + 1] = written[Len(written)] /\ pos + 1 <= Len(stored)
    BY <2>1, <2>2, ManifestFound, OpenedRecord
  <2>5. pos' = Len(written)
    BY <1>0, <2>1, <2>3
  <2>6. \A i \in 1 .. pos : stored[i] = written[i]
    BY DEF ReaderInv
  <2>7. \A i \in 1 .. pos' : stored[i] = written[i]
    BY <1>0, <2>1, <2>3, <2>4, <2>6
  <2>8. ReaderInv'
    BY <1>0, <2>1, <2>3, <2>4, <2>5, <2>7 DEF ReaderInv, Bytes
  <2>9. ReleasedInOrder'
    BY <2>1 DEF ReleasedInOrder, Bytes
  <2> QED  BY <2>8, <2>9
<1>9. CASE Accepts
  BY <1>9 DEF Accepts, NothingFollows, ReaderInv, ReleasedInOrder, writerVars, storageVars, Bytes
<1>10. CASE Rejects
  BY <1>10 DEF Rejects, ReaderInv, ReleasedInOrder, writerVars, storageVars, Bytes
<1>11. CASE UNCHANGED vars
  BY <1>11 DEF vars, writerVars, storageVars, readerVars, ReaderInv, ReleasedInOrder, Bytes
<1> QED
  BY <1>2, <1>3, <1>4, <1>5, <1>6, <1>7, <1>8, <1>9, <1>10, <1>11 DEF Next, ReaderStep

-----------------------------------------------------------------------------
(* The checks of a container that came back as it was written.              *)

\* None of its checks fails.
LEMMA WholeIsGood ==
  ASSUME TypeOK, WriterInv, StorageInv, ReaderInv,
         writerPC = "done", stored = written, password = "right"
  PROVE  /\ readerPC = "header" => HeaderIsGood
         /\ readerPC = "chunks" => ChunkIsGood
         /\ readerPC = "manifest" => ManifestIsGood
         /\ readerPC = "end" => NothingFollows
<1>1. Len(written) \in Nat /\ Len(written) >= 3 /\ pos \in Nat /\ expected \in Nat
  <2>1. Len(written) \in Nat /\ Len(written) >= 3
    BY WrittenShape
  <2> QED  BY <2>1 DEF TypeOK
<1>2. CASE readerPC = "header"
  <2>1. pos = 0
    BY <1>2 DEF ReaderInv
  <2>2. pos < Len(stored) /\ stored[pos + 1] = Header
    BY <1>1, <2>1, WrittenShape
  <2>3. Opens("header")
    <3> DEFINE r == stored[pos + 1]
    <3>1. r = Header
      BY <2>2
    <3> HIDE DEF r
    <3>2. r.kind = "header" /\ r.sealed = "own"
      BY <3>1 DEF Header
    <3>3. r.aad = <<r.index, r.final>>
      BY <3>1 DEF Header
    <3> QED  BY <2>2, <3>2, <3>3 DEF r, Opens
  <2> QED  BY <1>2, <2>3 DEF HeaderIsGood
<1>3. CASE readerPC = "chunks"
  <2>1. pos = expected + 1 /\ pos <= Len(written) - 2
    BY <1>3 DEF ReaderInv
  <2> DEFINE j == pos + 1
  <2>2. j \in 2 .. Len(written) - 1 /\ j - 2 = expected /\ j \in 1 .. Len(written)
    BY <1>1, <2>1
  <2>3. written[j] \in Record
    BY <2>2, ElementOfSeq DEF TypeOK
  <2> HIDE DEF j
  <2>4. /\ written[j].kind = "chunk" /\ written[j].index = expected
        /\ written[j].sealed = "own"
        /\ written[j].aad[1] = written[j].index /\ written[j].aad[2] = written[j].final
    BY <2>2, WrittenKinds
  <2>5. written[j].aad = <<written[j].index, written[j].final>>
    BY <2>3, <2>4 DEF Record
  <2>6. pos < Len(stored)
    BY <1>1, <2>1
  <2> QED  BY <1>3, <2>4, <2>5, <2>6 DEF j, ChunkIsGood, Opens
<1>4. CASE readerPC = "manifest"
  <2>1. pos = Len(written) - 1 /\ expected = pos - 1 /\ plain = Bytes(0, taken)
    BY <1>4 DEF ReaderInv
  <2>2. pos + 1 = Len(written) /\ expected = Len(written) - 2 /\ pos < Len(stored)
    BY <1>1, <2>1
  <2>3. stored[pos + 1] = Manifest(expected, plain)
    BY <2>1, <2>2, WrittenShape
  <2>4. Opens("manifest") /\ stored[pos + 1].index = expected /\ stored[pos + 1].bytes = plain
    <3> DEFINE r == stored[pos + 1]
    <3>1. r = Manifest(expected, plain)
      BY <2>3
    <3> HIDE DEF r
    <3>2. r.kind = "manifest" /\ r.sealed = "own" /\ r.index = expected /\ r.bytes = plain
      BY <3>1 DEF Manifest
    <3>3. r.aad = <<r.index, r.final>>
      BY <3>1 DEF Manifest
    <3> QED  BY <2>2, <3>2, <3>3 DEF r, Opens
  <2> QED  BY <1>4, <2>4 DEF ManifestIsGood
<1>5. CASE readerPC = "end"
  BY <1>5 DEF ReaderInv, NothingFollows
<1> QED  BY <1>2, <1>3, <1>4, <1>5

\* A check that fails is not a false alarm.
LEMMA NoFalseAlarmStep ==
  ASSUME TypeOK, WriterInv, StorageInv, ReaderInv, NoFalseAlarm, [Next]_vars
  PROVE  NoFalseAlarm'
<1>1. CASE Rejects
  <2>1. writerPC = "done" /\ UNCHANGED <<written, stored, password>>
    BY <1>1 DEF Rejects, StorageInv, writerVars, storageVars
  <2>2. ~(stored = written /\ password = "right")
    BY <1>1, <2>1, WholeIsGood DEF Rejects
  <2>3. password \in {"right", "wrong"}
    BY DEF TypeOK
  <2> QED  BY <2>1, <2>2, <2>3 DEF NoFalseAlarm
<1>2. CASE SourceGrows \/ WriterStep \/ WriterFails
  <2>1. writerPC # "done" /\ readerPC' = readerPC
    BY <1>2 DEF SourceGrows, WriterStep, WriterFails, WritesHeader, Reads, SealsFullChunk,
                SealsLastChunk, WritesManifest, readerVars
  <2>2. readerPC = "idle"
    BY <2>1 DEF StorageInv
  <2> QED  BY <2>1, <2>2 DEF NoFalseAlarm
<1>3. CASE Rearranges \/ Damages
  <2>1. readerPC' = "idle"
    BY <1>3 DEF Rearranges, Damages, readerVars
  <2> QED  BY <2>1 DEF NoFalseAlarm
<1>4. CASE Starts \/ OpensEnvelope \/ ReleasesChunk \/ ChecksManifest \/ Accepts
  <2>1. readerPC' # "rejected"
    BY <1>4 DEF Starts, OpensEnvelope, ReleasesChunk, ChecksManifest, Accepts
  <2> QED  BY <2>1 DEF NoFalseAlarm
<1>5. CASE UNCHANGED vars
  BY <1>5 DEF vars, writerVars, storageVars, readerVars, NoFalseAlarm
<1> QED  BY <1>1, <1>2, <1>3, <1>4, <1>5 DEF Next, ReaderStep

-----------------------------------------------------------------------------
(* The theorems.                                                            *)

\* The inductive invariant holds: what was written is the source in chunks, what
\* storage can pass off as genuine was written under the same index and mark, and
\* what the reader has used is what was written.
THEOREM Invariance == Spec => []IInv
<1>1. Init => IInv
  <2> SUFFICES ASSUME Init
               PROVE  IInv
    OBVIOUS
  <2> USE DEF Init
  <2>1. TypeOK
    BY ChunkSizeAssumption, BoundsAssumption, EmptySeq DEF TypeOK
  <2>2. taken <= source
    BY BoundsAssumption
  <2>3. WriterInv
    BY <2>2 DEF WriterInv
  <2>4. StorageInv
    BY DEF StorageInv
  <2>5. ReaderInv
    BY DEF ReaderInv
  <2>6. ReleasedInOrder
    <3>1. Len(plain) = 0
      OBVIOUS
    <3> QED  BY <3>1, BytesEmpty DEF ReleasedInOrder
  <2>7. NoFalseAlarm
    BY DEF NoFalseAlarm
  <2> QED  BY <2>1, <2>3, <2>4, <2>5, <2>6, <2>7 DEF IInv
<1>2. IInv /\ [Next]_vars => IInv'
  <2> SUFFICES ASSUME IInv, [Next]_vars
               PROVE  IInv'
    OBVIOUS
  <2>1. /\ TypeOK /\ WriterInv /\ StorageInv /\ ReaderInv /\ ReleasedInOrder
        /\ NoFalseAlarm
    BY DEF IInv
  <2>2. TypeOK'
    BY <2>1, TypeStep
  <2>3. WriterInv'
    BY <2>1, WriterInvStep
  <2>4. StorageInv'
    BY <2>1, StorageInvStep
  <2>5. ReaderInv' /\ ReleasedInOrder'
    BY <2>1, ReaderInvStep
  <2>6. NoFalseAlarm'
    BY <2>1, NoFalseAlarmStep
  <2> QED  BY <2>2, <2>3, <2>4, <2>5, <2>6 DEF IInv
<1> QED  BY <1>1, <1>2, PTL DEF Spec

\* Every variable keeps its type: no read runs over the chunk buffer.
THEOREM TypeCorrect == Spec => []TypeOK
<1>1. IInv => TypeOK
  BY DEF IInv
<1> QED  BY <1>1, Invariance, PTL

\* However the container was damaged, the caller is given the first bytes of the
\* source, in order, and nothing else.
THEOREM AlwaysInOrder == Spec => []ReleasedInOrder
<1>1. IInv => ReleasedInOrder
  BY DEF IInv
<1> QED  BY <1>1, Invariance, PTL

\* A container that came back as it was written opens under its password.
THEOREM NeverFalseAlarm == Spec => []NoFalseAlarm
<1>1. IInv => NoFalseAlarm
  BY DEF IInv
<1> QED  BY <1>1, Invariance, PTL

\* An accepted container is the one that was written, and all of it was released.
LEMMA Accepted ==
  ASSUME IInv
  PROVE  AcceptedMeansIntact
<1> SUFFICES ASSUME readerPC = "accepted"
             PROVE  stored = written /\ Len(plain) = taken
  BY DEF AcceptedMeansIntact
<1>1. /\ pos = Len(written) /\ pos = Len(stored) /\ plain = Bytes(0, taken)
      /\ \A i \in 1 .. pos : stored[i] = written[i]
  BY DEF IInv, ReaderInv
<1>2. stored \in Seq(Record) /\ written \in Seq(Record) /\ taken \in Nat
  BY BoundsAssumption DEF IInv, TypeOK
<1>3. Len(stored) = Len(written) /\ \A i \in 1 .. Len(stored) : stored[i] = written[i]
  BY <1>1
<1>4. stored = written
  BY <1>2, <1>3, SeqEqual
<1>5. Len(plain) = taken
  BY <1>1, <1>2, BytesLength
<1> QED  BY <1>4, <1>5

\* A container is accepted only whole, in order and with nothing after it.
THEOREM AcceptedOnlyIntact == Spec => []AcceptedMeansIntact
<1>1. IInv => AcceptedMeansIntact
  BY Accepted
<1> QED  BY <1>1, Invariance, PTL

-----------------------------------------------------------------------------
(* The container implements an authentic transfer.                          *)

\* Sealing sends the bytes of the buffer, if there are any.
LEMMA SealingSends ==
  ASSUME IInv, writerPC = "fill", NEW final \in BOOLEAN, Seals(final),
         UNCHANGED <<stored, password, readerPC, plain>>, writerPC' # "done"
  PROVE  [Transfer!TNext]_Transfer!tVars
<1>1. TypeOK /\ WriterInv
  BY DEF IInv
<1>2. taken \in Nat /\ n \in Nat /\ n <= taken
  BY <1>1, Buffered
<1>3. hashed = Bytes(0, taken - n) /\ hashed' = Bytes(0, taken)
  BY <1>1, Sealing DEF WriterInv
<1>4. Len(hashed') = taken
  BY <1>2, <1>3, BytesLength
<1>5. Len(hashed) = taken - n
  <2> DEFINE mid == taken - n
  <2>1. mid \in Nat /\ 0 <= mid /\ hashed = Bytes(0, mid)
    BY <1>2, <1>3
  <2> HIDE DEF mid
  <2>2. Len(hashed) = mid
    BY <2>1, BytesLength
  <2> QED  BY <2>2 DEF mid
<1>6. CASE n = 0
  <2>1. Len(hashed') = Len(hashed)
    BY <1>2, <1>4, <1>5, <1>6
  <2> QED  BY <2>1 DEF Transfer!tVars
<1>7. CASE n # 0
  <2>1. Len(hashed') \in Nat /\ Len(hashed') > Len(hashed)
    BY <1>2, <1>4, <1>5, <1>7
  <2>2. Transfer!Send
    BY <2>1 DEF Transfer!Send
  <2> QED  BY <2>2 DEF Transfer!TNext
<1> QED  BY <1>6, <1>7

\* Every step of the container is a step of the transfer, or none.
LEMMA TransferStep ==
  ASSUME IInv, [Next]_vars
  PROVE  [Transfer!TNext]_Transfer!tVars
<1>0. TypeOK /\ WriterInv /\ StorageInv /\ ReaderInv /\ ReleasedInOrder /\ NoFalseAlarm
  BY DEF IInv
<1>1. CASE SourceGrows \/ WritesHeader \/ Reads \/ WriterFails
  <2>1. /\ writerPC # "done" /\ writerPC' # "done"
        /\ UNCHANGED <<hashed, stored, password, readerPC, plain>>
    BY <1>1 DEF SourceGrows, WritesHeader, Reads, WriterFails, storageVars, readerVars
  <2> QED  BY <2>1 DEF Transfer!tVars
<1>2. CASE SealsFullChunk
  BY <1>2, SealingSends DEF SealsFullChunk, storageVars, readerVars
<1>3. CASE SealsLastChunk
  BY <1>3, SealingSends DEF SealsLastChunk, storageVars, readerVars
<1>4. CASE WritesManifest
  <2>1. /\ writerPC # "done" /\ writerPC' = "done" /\ stored' = written'
        /\ UNCHANGED <<hashed, password, readerPC, plain>>
    BY <1>4 DEF WritesManifest, readerVars
  <2>2. Transfer!Close
    BY <2>1 DEF Transfer!Close
  <2> QED  BY <2>2 DEF Transfer!TNext
<1>5. CASE Rearranges \/ Damages
  <2>1. /\ writerPC = "done" /\ readerPC = "idle"
        /\ UNCHANGED <<hashed, writerPC, password, readerPC, plain>>
    BY <1>5 DEF Rearranges, Damages, writerVars, readerVars
  <2>2. plain = << >>
    BY <1>0, <2>1 DEF ReaderInv
  <2>3. Transfer!Damage
    BY <2>1, <2>2 DEF Transfer!Damage
  <2> QED  BY <2>3 DEF Transfer!TNext
<1>6. CASE Starts \/ OpensEnvelope \/ ChecksManifest
  <2>1. /\ readerPC \notin {"accepted", "rejected"} /\ readerPC' \notin {"accepted", "rejected"}
        /\ UNCHANGED <<hashed, writerPC, written, stored, password, plain>>
    BY <1>6 DEF Starts, OpensEnvelope, ChecksManifest, writerVars, storageVars
  <2> QED  BY <2>1 DEF Transfer!tVars
<1>7. CASE ReleasesChunk
  <2>1. /\ readerPC = "chunks" /\ readerPC' \notin {"accepted", "rejected"}
        /\ UNCHANGED <<hashed, writerPC, written, stored, password, taken>>
    BY <1>7 DEF ReleasesChunk, writerVars, storageVars
  <2>2. writerPC = "done"
    BY <1>0, <2>1 DEF StorageInv
  <2>3. plain \in Seq(Nat) /\ stored[pos + 1].bytes \in Seq(Nat)
        /\ plain' = plain \o stored[pos + 1].bytes
    BY <1>0, <1>7, OpenedRecord DEF TypeOK, ReleasesChunk, ChunkIsGood
  <2>4. Len(hashed) = taken
    <3>1. taken \in Nat /\ hashed = Bytes(0, taken)
      BY <1>0, <2>2, WrittenShape
    <3> QED  BY <3>1, BytesLength
  <2>5. plain' = Bytes(0, Len(plain')) /\ Len(plain') <= taken
    BY <1>0, <1>7, <2>1, ReaderInvReleases DEF ReleasedInOrder, Bytes
  <2>6. CASE stored[pos + 1].bytes = << >>
    <3>1. plain' = plain
      BY <2>3, <2>6
    <3> QED  BY <2>1, <3>1 DEF Transfer!tVars
  <2>7. CASE stored[pos + 1].bytes # << >>
    <3>1. Len(plain') > Len(plain)
      BY <2>3, <2>7
    <3>2. Len(plain') \in Nat
      BY <2>3
    <3>3. plain' = [i \in 1 .. Len(plain') |-> i]
      BY <2>5, <3>2 DEF Bytes
    <3>4. Transfer!Deliver
      BY <2>1, <2>2, <2>4, <2>5, <3>1, <3>3 DEF Transfer!Deliver
    <3> QED  BY <3>4 DEF Transfer!TNext
  <2> QED  BY <2>6, <2>7
<1>8. CASE Accepts
  <2>1. /\ readerPC = "end" /\ readerPC' = "accepted" /\ pos = Len(stored)
        /\ UNCHANGED <<hashed, writerPC, written, stored, password, plain>>
    BY <1>8 DEF Accepts, NothingFollows, writerVars, storageVars
  <2>2. writerPC = "done"
    BY <1>0, <2>1 DEF StorageInv
  <2>4. /\ pos = Len(written) /\ plain = Bytes(0, taken) /\ password = "right"
        /\ \A i \in 1 .. pos : stored[i] = written[i]
    BY <1>0, <2>1 DEF ReaderInv
  <2>5. stored = written
    <3>1. stored \in Seq(Record) /\ written \in Seq(Record)
      BY <1>0 DEF TypeOK
    <3>2. Len(stored) = Len(written) /\ \A i \in 1 .. Len(stored) : stored[i] = written[i]
      BY <2>1, <2>4
    <3> QED  BY <3>1, <3>2, SeqEqual
  <2>6. plain = hashed
    BY <1>0, <2>2, <2>4, WrittenShape
  <2>7. Transfer!Accept
    BY <2>1, <2>2, <2>4, <2>5, <2>6 DEF Transfer!Accept
  <2> QED  BY <2>7 DEF Transfer!TNext
<1>9. CASE Rejects
  <2>1. /\ readerPC \notin {"idle", "accepted", "rejected"} /\ readerPC' = "rejected"
        /\ UNCHANGED <<hashed, writerPC, written, stored, password, plain>>
    BY <1>9 DEF Rejects, writerVars, storageVars
  <2>2. writerPC = "done"
    BY <1>0, <2>1 DEF StorageInv
  <2>3. ~(stored = written /\ password = "right")
    BY <1>0, <1>9, <2>2, WholeIsGood DEF Rejects
  <2>4. Transfer!Reject
    BY <2>1, <2>2, <2>3 DEF Transfer!Reject
  <2> QED  BY <2>4 DEF Transfer!TNext
<1>10. CASE UNCHANGED vars
  BY <1>10 DEF vars, writerVars, storageVars, readerVars, Transfer!tVars
<1> QED
  BY <1>1, <1>2, <1>3, <1>4, <1>5, <1>6, <1>7, <1>8, <1>9, <1>10
     DEF Next, WriterStep, ReaderStep

\* A container is an authentic transfer of its source, for every size of chunk and
\* source and every number of faults.
THEOREM Implementation == Spec => ImplementsTransfer
<1>1. Init => Transfer!TInit
  BY DEF Init, Transfer!TInit
<1>2. IInv /\ [Next]_vars => [Transfer!TNext]_Transfer!tVars
  BY TransferStep
<1> QED  BY <1>1, <1>2, Invariance, PTL DEF Spec, ImplementsTransfer, Transfer!TSpec

-----------------------------------------------------------------------------
(* The shape of a container.                                                *)

\* The quotient of a division whose remainder is known.
LEMMA Quotient ==
  ASSUME NEW q \in Int, NEW b \in Nat \ {0}, NEW r \in 0 .. b - 1
  PROVE  (q * b + r) \div b = q
BY SMTT(30)

\* There are as many chunks as were announced.
LEMMA ChunksAnnounced ==
  ASSUME TypeOK, WriterInv, writerPC = "done"
  PROVE  Len(written) - 2 = TotalChunks(taken)
<1> DEFINE q == Len(written) - 3
           begin == q * ChunkSize
<1>1. Len(written) \in Nat /\ Len(written) >= 3 /\ taken \in Nat
      /\ begin <= taken /\ taken <= (Len(written) - 2) * ChunkSize
  BY WrittenShape
<1>2. q \in Nat /\ Len(written) - 2 = q + 1
  BY <1>1
<1>3. begin = taken => taken = 0
  <2>1. AllChunks(Len(written) - 1)
    BY DEF WriterInv
  <2>2. Len(written) - 1 - 2 = q
    BY <1>1
  <2>3. (Len(written) - 1 - 2) * ChunkSize = taken => taken = 0
    BY <2>1 DEF AllChunks
  <2> QED  BY <2>2, <2>3
<1> HIDE DEF q
<1>4. begin \in Nat /\ (q + 1) * ChunkSize = begin + ChunkSize
      /\ ChunkSize \in Nat /\ ChunkSize > 0
  BY <1>2, ChunkEnds
<1>5. taken <= begin + ChunkSize
  BY <1>1, <1>2, <1>4
<1>6. CASE taken = 0
  <2>1. q = 0
    <3> SUFFICES ASSUME q >= 1
                 PROVE  FALSE
      BY <1>2
    <3>1. 1 * ChunkSize <= begin
      BY <1>2, ChunksMonotonic
    <3> HIDE DEF begin
    <3> QED  BY <1>1, <1>4, <1>6, <3>1
  <2> QED  BY <1>2, <1>6, <2>1 DEF TotalChunks
<1>7. CASE taken # 0
  <2> DEFINE rest == taken - begin - 1
  <2>1. rest \in 0 .. ChunkSize - 1 /\ taken + ChunkSize - 1 = begin + ChunkSize + rest
    <3> HIDE DEF begin
    <3> QED  BY <1>1, <1>3, <1>4, <1>5, <1>7
  <2> HIDE DEF rest
  <2>2. taken + ChunkSize - 1 = (q + 1) * ChunkSize + rest
    BY <1>4, <2>1
  <2>3. ((q + 1) * ChunkSize + rest) \div ChunkSize = q + 1
    BY <1>2, <1>4, <2>1, Quotient
  <2> QED  BY <1>2, <1>7, <2>2, <2>3 DEF TotalChunks
<1> QED  BY <1>6, <1>7

\* The invariant gives every chunk of a container.
LEMMA Shaped ==
  ASSUME IInv
  PROVE  ContainerShape
<1> DEFINE chunks == SubSeq(written, 2, Len(written) - 1)
<1> SUFFICES ASSUME writerPC = "done"
             PROVE  /\ hashed = Bytes(0, taken)
                    /\ Len(chunks) = TotalChunks(taken)
                    /\ \A i \in 1 .. Len(chunks) :
                         /\ chunks[i].index = i - 1
                         /\ chunks[i].final = (i = Len(chunks))
                         /\ chunks[i].bytes =
                              Bytes((i - 1) * ChunkSize,
                                    IF chunks[i].final THEN taken ELSE i * ChunkSize)
  BY DEF ContainerShape
<1>1. TypeOK /\ WriterInv
  BY DEF IInv
<1>2. Len(written) \in Nat /\ Len(written) >= 3 /\ written \in Seq(Record)
      /\ hashed = Bytes(0, taken)
  BY <1>1, WrittenShape DEF TypeOK
<1>3. Len(chunks) = Len(written) - 2
  BY <1>2
<1>4. \A i \in 1 .. Len(written) - 2 : chunks[i] = written[i + 1]
  BY <1>2
<1> HIDE DEF chunks
<1>5. Len(chunks) = TotalChunks(taken)
  BY <1>1, <1>3, ChunksAnnounced
<1>6. ASSUME NEW i \in 1 .. Len(chunks), i # Len(chunks)
      PROVE  /\ chunks[i].index = i - 1 /\ chunks[i].final = FALSE
             /\ chunks[i].bytes = Bytes((i - 1) * ChunkSize, i * ChunkSize)
  <2> DEFINE j == i + 1
  <2>1. /\ j \in 2 .. Len(written) - 2 /\ j - 2 = i - 1 /\ i - 1 + 1 = i
        /\ chunks[i] = written[j]
    BY <1>2, <1>3, <1>4, <1>6
  <2> HIDE DEF j
  <2>2. written[j] = FullChunk(j - 2)
    BY <1>1, <2>1, WrittenShape
  <2> DEFINE bytes == Bytes((i - 1) * ChunkSize, i * ChunkSize)
             record == chunks[i]
             index  == i - 1
  <2>3. FullChunk(i - 1) = Chunk(i - 1, FALSE, bytes)
    <3> DEFINE m == i - 1
    <3>1. FullChunk(m) = Chunk(m, FALSE, Bytes(m * ChunkSize, (m + 1) * ChunkSize))
      BY DEF FullChunk
    <3>2. m + 1 = i
      BY <1>3, <1>2
    <3> QED  BY <3>1, <3>2
  <2>4. record = Chunk(index, FALSE, bytes)
    BY <2>1, <2>2, <2>3
  <2> HIDE DEF bytes, record, index
  <2>5. record.index = index /\ record.bytes = bytes
    BY <2>4 DEF Chunk
  <2>6. record.final = FALSE
    BY <2>4 DEF Chunk
  <2> QED  BY <2>5, <2>6 DEF bytes, record, index
<1>7. ASSUME NEW i, i = Len(chunks)
      PROVE  /\ chunks[i].index = i - 1 /\ chunks[i].final = TRUE
             /\ chunks[i].bytes = Bytes((i - 1) * ChunkSize, taken)
  <2>1. Len(written) - 3 = i - 1 /\ chunks[i] = written[Len(written) - 1]
    <3>1. i \in 1 .. Len(written) - 2 /\ i + 1 = Len(written) - 1
      BY <1>2, <1>3, <1>7
    <3> QED  BY <1>2, <1>4, <3>1
  <2> DEFINE bytes == Bytes((i - 1) * ChunkSize, taken)
             record == chunks[i]
             index  == i - 1
  <2>2. record = Chunk(index, TRUE, bytes)
    BY <1>1, <2>1, WrittenShape
  <2> HIDE DEF bytes, record, index
  <2>3. record.index = index /\ record.bytes = bytes
    BY <2>2 DEF Chunk
  <2>4. record.final = TRUE
    BY <2>2 DEF Chunk
  <2> QED  BY <2>3, <2>4 DEF bytes, record, index
<1>8. ASSUME NEW i \in 1 .. Len(chunks)
      PROVE  /\ chunks[i].index = i - 1
             /\ chunks[i].final = (i = Len(chunks))
             /\ chunks[i].bytes = Bytes((i - 1) * ChunkSize,
                                        IF chunks[i].final THEN taken ELSE i * ChunkSize)
  <2>1. CASE i = Len(chunks)
    <3>1. chunks[i].final = TRUE /\ chunks[i].index = i - 1
          /\ chunks[i].bytes = Bytes((i - 1) * ChunkSize, taken)
      BY <1>7, <2>1
    <3>2. chunks[i].final = (i = Len(chunks))
      BY <2>1, <3>1
    <3>3. (IF chunks[i].final THEN taken ELSE i * ChunkSize) = taken
      BY <3>1
    <3> QED  BY <3>1, <3>2, <3>3
  <2>2. CASE i # Len(chunks)
    <3>1. chunks[i].final = FALSE /\ chunks[i].index = i - 1
          /\ chunks[i].bytes = Bytes((i - 1) * ChunkSize, i * ChunkSize)
      BY <1>6, <2>2
    <3>2. chunks[i].final = (i = Len(chunks))
      BY <2>2, <3>1
    <3>3. (IF chunks[i].final THEN taken ELSE i * ChunkSize) = i * ChunkSize
      BY <3>1
    <3> QED  BY <3>1, <3>2, <3>3
  <2> QED  BY <2>1, <2>2
<1> QED  BY <1>2, <1>5, <1>8

\* However the source was read and even if it grew meanwhile, a container has all
\* that was read, in full chunks but for the last, as many as were announced.
THEOREM AlwaysShaped == Spec => []ContainerShape
<1>1. IInv => ContainerShape
  BY Shaped
<1> QED  BY <1>1, Invariance, PTL

-----------------------------------------------------------------------------
(* Both functions come to an end.                                           *)

\* What encrypt_stream still has before it, in a source that grows no more: the
\* bytes it has not read, and its way to the end.
WriterLeft == (source - taken) + (IF writerPC = "header" THEN 3
                                  ELSE IF writerPC = "fill" THEN 2
                                  ELSE IF writerPC = "manifest" THEN 1
                                  ELSE 0)

\* What decrypt_stream still has before it: the records it has not used, and its
\* way to the end.
ReaderLeft == (Len(stored) - pos) + (IF readerPC = "header" THEN 4
                                     ELSE IF readerPC = "chunks" THEN 3
                                     ELSE IF readerPC = "manifest" THEN 2
                                     ELSE IF readerPC = "end" THEN 1
                                     ELSE 0)

CallsNear ==
  /\ WriterStep => WriterLeft \in Nat /\ WriterLeft' \in Nat /\ WriterLeft' < WriterLeft
  /\ readerPC # "idle" /\ ReaderStep =>
       ReaderLeft \in Nat /\ ReaderLeft' \in Nat /\ ReaderLeft' < ReaderLeft
CallsEnd == [][CallsNear]_vars

\* A step of encrypt_stream uses a byte of the source or moves on for good.
LEMMA WriterNears ==
  ASSUME TypeOK, taken <= source, WriterStep
  PROVE  WriterLeft \in Nat /\ WriterLeft' \in Nat /\ WriterLeft' < WriterLeft
<1> USE ChunkSizeAssumption, BoundsAssumption DEF TypeOK, WriterLeft
<1>1. CASE WritesHeader
  BY <1>1 DEF WritesHeader
<1>2. CASE Reads
  <2>1. PICK k \in 1 .. Room : taken + k <= source /\ taken' = taken + k
    BY <1>2 DEF Reads
  <2>2. k \in Nat \ {0}
    BY <2>1 DEF Room
  <2>3. writerPC' = writerPC /\ source' = source
    BY <1>2 DEF Reads
  <2> QED
    BY <2>1, <2>2, <2>3
<1>3. CASE SealsFullChunk
  BY <1>3 DEF SealsFullChunk
<1>4. CASE SealsLastChunk
  BY <1>4 DEF SealsLastChunk
<1>5. CASE WritesManifest
  BY <1>5 DEF WritesManifest
<1> QED
  BY <1>1, <1>2, <1>3, <1>4, <1>5 DEF WriterStep

\* A step of decrypt_stream uses a record or moves on for good.
LEMMA ReaderNears ==
  ASSUME TypeOK, pos <= Len(stored), readerPC # "idle", ReaderStep
  PROVE  ReaderLeft \in Nat /\ ReaderLeft' \in Nat /\ ReaderLeft' < ReaderLeft
<1> DEFINE records == Len(stored)
<1>1. records \in Nat /\ pos \in Nat /\ pos <= records
  BY DEF TypeOK
<1>2. stored' = stored
  BY DEF ReaderStep, Starts, OpensEnvelope, ReleasesChunk, ChecksManifest,
     Accepts, Rejects, storageVars
<1>3. ReaderLeft = (records - pos) + (IF readerPC = "header" THEN 4
                                      ELSE IF readerPC = "chunks" THEN 3
                                      ELSE IF readerPC = "manifest" THEN 2
                                      ELSE IF readerPC = "end" THEN 1
                                      ELSE 0)
  BY DEF ReaderLeft
<1>4. ReaderLeft' = (records - pos') + (IF readerPC' = "header" THEN 4
                                        ELSE IF readerPC' = "chunks" THEN 3
                                        ELSE IF readerPC' = "manifest" THEN 2
                                        ELSE IF readerPC' = "end" THEN 1
                                        ELSE 0)
  BY <1>2 DEF ReaderLeft
<1> HIDE DEF records
<1>5. CASE OpensEnvelope
  <2>1. pos' = pos + 1 /\ readerPC = "header" /\ readerPC' = "chunks" /\ pos < records
    BY <1>5 DEF OpensEnvelope, HeaderIsGood, Opens, records
  <2> QED
    BY <1>1, <1>3, <1>4, <2>1
<1>6. CASE ReleasesChunk
  <2>1. /\ pos' = pos + 1 /\ readerPC = "chunks" /\ pos < records
        /\ readerPC' \in {"chunks", "manifest"}
    BY <1>6 DEF ReleasesChunk, ChunkIsGood, Opens, records
  <2> QED
    BY <1>1, <1>3, <1>4, <2>1
<1>7. CASE ChecksManifest
  <2>1. pos' = pos + 1 /\ readerPC = "manifest" /\ readerPC' = "end" /\ pos < records
    BY <1>7 DEF ChecksManifest, ManifestIsGood, Opens, records
  <2> QED
    BY <1>1, <1>3, <1>4, <2>1
<1>8. CASE Accepts
  <2>1. pos' = pos /\ readerPC = "end" /\ readerPC' = "accepted"
    BY <1>8 DEF Accepts
  <2> QED
    BY <1>1, <1>3, <1>4, <2>1
<1>9. CASE Rejects
  <2>1. /\ pos' = pos /\ readerPC \in {"header", "chunks", "manifest", "end"}
        /\ readerPC' = "rejected"
    BY <1>9 DEF Rejects
  <2> QED
    BY <1>1, <1>3, <1>4, <2>1
<1> QED
  BY <1>5, <1>6, <1>7, <1>8, <1>9 DEF ReaderStep, Starts

\* Every step of both functions brings them nearer to their end, for sources and
\* containers of any length, whatever storage has made of the container.
THEOREM CallsComeToAnEnd == Spec => CallsEnd
<1>1. IInv /\ [Next]_vars => [CallsNear]_vars
  <2>1. IInv => TypeOK /\ taken <= source /\ pos <= Len(stored)
    BY DEF IInv, WriterInv, ReaderInv
  <2> QED
    BY <2>1, WriterNears, ReaderNears DEF CallsNear
<1> QED
  BY <1>1, Invariance, PTL DEF Spec, CallsEnd
=============================================================================
