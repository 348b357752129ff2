---------------------------- MODULE WraithStream ----------------------------
(***************************************************************************)
(* encrypt_stream and decrypt_stream of wraith/: the chunks of a WRAITH    *)
(* container, written from a source that delivers its bytes in pieces of   *)
(* any size and may still grow, kept by a storage that may lose, repeat,   *)
(* reorder or damage records, and read back.                               *)
(*                                                                         *)
(* A byte is its position in the source.  A record is what is written in   *)
(* one piece: the header with its key envelope, a chunk, the manifest.     *)
(* Authenticated encryption is ideal: "own" marks what was sealed with the *)
(* keys of this container, and opens only under the associated data it was *)
(* sealed with; everything else, a record of another container included,   *)
(* is "foreign" and opens under none.                                      *)
(***************************************************************************)
EXTENDS Naturals, Sequences

CONSTANTS ChunkSize,  \* options.chunk_size
          MaxSource,  \* bound: bytes of the source
          MaxFaults   \* bound: records damaged in storage

ASSUME ChunkSizeAssumption == ChunkSize \in Nat \ {0}
ASSUME BoundsAssumption == MaxSource \in Nat /\ MaxFaults \in Nat

VARIABLES
  source,   \* bytes the source has
  taken,    \* bytes read from it, the one read ahead included
  n,        \* bytes in chunk_buf
  hashed,   \* bytes put into the running hash
  written,  \* records written
  writerPC,
  stored,   \* the records as storage gives them back
  reserved, \* bytes 76 .. 79 of the header in storage: "zero", or "other"
  faults,   \* records damaged so far
  password, \* the password given to decrypt_stream: "right" or "wrong"
  readerPC,
  pos,      \* records the reader has used
  expected, \* expected_chunk_index
  plain     \* bytes given to the caller's writer

writerVars == <<source, taken, n, hashed, written, writerPC>>
storageVars == <<stored, reserved, faults>>
readerVars == <<password, readerPC, pos, expected, plain>>
vars == <<writerVars, storageVars, readerVars>>

\* The bytes lo + 1 .. hi of the source.
Bytes(lo, hi) == [i \in 1 .. hi - lo |-> lo + i]

Header == [kind |-> "header", index |-> 0, final |-> FALSE, bytes |-> << >>,
           sealed |-> "own", aad |-> <<0, FALSE>>]

\* A chunk is sealed under its index and its place, first to last.
Chunk(index, final, bytes) ==
  [kind |-> "chunk", index |-> index, final |-> final, bytes |-> bytes,
   sealed |-> "own", aad |-> <<index, final>>]

\* The manifest holds the number of chunks, and the hash and number of bytes.
Manifest(chunks, bytes) ==
  [kind |-> "manifest", index |-> chunks, final |-> TRUE, bytes |-> bytes,
   sealed |-> "own", aad |-> <<chunks, TRUE>>]

Record == [kind : {"header", "chunk", "manifest"}, index : Nat, final : BOOLEAN,
           bytes : Seq(Nat), sealed : {"own", "foreign"}, aad : Nat \X BOOLEAN]

TypeOK ==
  /\ source \in 0 .. MaxSource
  /\ taken \in 0 .. MaxSource
  /\ n \in 0 .. ChunkSize
  /\ hashed \in Seq(Nat)
  /\ written \in Seq(Record)
  /\ writerPC \in {"header", "fill", "manifest", "done", "failed"}
  /\ stored \in Seq(Record)
  /\ reserved \in {"zero", "other"}
  /\ faults \in 0 .. MaxFaults
  /\ password \in {"right", "wrong"}
  /\ readerPC \in {"idle", "header", "chunks", "manifest", "end", "accepted", "rejected"}
  /\ pos \in Nat
  /\ expected \in Nat
  /\ plain \in Seq(Nat)

Init ==
  /\ source \in 0 .. MaxSource
  /\ taken = 0
  /\ n = 0
  /\ hashed = << >>
  /\ written = << >>
  /\ writerPC = "header"
  /\ stored = << >>
  /\ reserved = "zero"
  /\ faults = 0
  /\ password \in {"right", "wrong"}
  /\ readerPC = "idle"
  /\ pos = 0
  /\ expected = 0
  /\ plain = << >>

-----------------------------------------------------------------------------
(* The writer.                                                              *)

\* Another program appends to the file that is being encrypted.
SourceGrows ==
  /\ writerPC \in {"header", "fill"}
  /\ source < MaxSource
  /\ source' = source + 1
  /\ UNCHANGED <<taken, n, hashed, written, writerPC, storageVars, readerVars>>

WritesHeader ==
  /\ writerPC = "header"
  /\ written' = <<Header>>
  /\ writerPC' = "fill"
  /\ UNCHANGED <<source, taken, n, hashed, storageVars, readerVars>>

\* One read into what is left of the chunk buffer, which may be short.
WholeBuffer == ChunkSize   \* mutant
Room == ChunkSize - n
Reads ==
  /\ writerPC = "fill"
  /\ \E k \in 1 .. Room :
       /\ taken + k <= source
       /\ taken' = taken + k
       /\ n' = n + k
  /\ UNCHANGED <<source, hashed, written, writerPC, storageVars, readerVars>>

\* chunk_index: the header is the only record that is not a chunk so far.
ChunkIndex == Len(written) - 1

Seals(final) ==
  LET buffered == Bytes(taken - n, taken)
  IN  /\ written' = Append(written, Chunk(ChunkIndex, final, buffered))
      /\ hashed' = hashed \o buffered

\* The buffer is full and the probe finds another byte, which is the first one
\* of the next chunk.
Lost == 0   \* mutant
Carried == 1
SealsUnprobed ==   \* mutant
  /\ writerPC = "fill"
  /\ n = ChunkSize
  /\ Seals(FALSE)
  /\ n' = 0
  /\ UNCHANGED <<source, taken, writerPC, storageVars, readerVars>>
SealsFullChunk ==
  /\ writerPC = "fill"
  /\ n = ChunkSize
  /\ taken < source
  /\ Seals(FALSE)
  /\ taken' = taken + 1
  /\ n' = Carried
  /\ UNCHANGED <<source, writerPC, storageVars, readerVars>>

\* The source has ended, found by a read into the buffer or by the probe.
EndOfShortChunk == taken = source /\ n < ChunkSize   \* mutant
EndOfSource == taken = source
SealsLastChunk ==
  /\ writerPC = "fill"
  /\ EndOfSource
  /\ Seals(TRUE)
  /\ n' = 0
  /\ writerPC' = "manifest"
  /\ UNCHANGED <<source, taken, storageVars, readerVars>>

\* The manifest counts the chunks and bytes that were sealed, not those that
\* were announced; with it the container is complete and handed to storage.
LastIndex == ChunkIndex - 1   \* mutant
ChunkCount == ChunkIndex
WritesManifest ==
  /\ writerPC = "manifest"
  /\ written' = Append(written, Manifest(ChunkCount, hashed))
  /\ stored' = written'
  /\ writerPC' = "done"
  /\ UNCHANGED <<source, taken, n, hashed, reserved, faults, readerVars>>

\* A read of the source or a write of the container fails: the caller discards it.
WriterFails ==
  /\ writerPC \in {"header", "fill", "manifest"}
  /\ writerPC' = "failed"
  /\ UNCHANGED <<source, taken, n, hashed, written, storageVars, readerVars>>

WriterStep == WritesHeader \/ Reads \/ SealsFullChunk \/ SealsLastChunk \/ WritesManifest

-----------------------------------------------------------------------------
(* Storage.                                                                 *)

\* Records are lost, repeated and reordered.
Rearranges ==
  /\ writerPC = "done" /\ readerPC = "idle" /\ stored = written
  /\ \E len \in 0 .. Len(written) + 1 : \E origin \in [1 .. len -> DOMAIN written] :
       stored' = [i \in 1 .. len |-> written[origin[i]]]
  /\ UNCHANGED <<writerVars, reserved, faults, readerVars>>

\* A record is damaged or exchanged for one of another container, or the index
\* or the last-chunk mark of a chunk, which are not encrypted, are altered; or
\* only the last four bytes of the header are.
Damages ==
  /\ writerPC = "done" /\ readerPC = "idle" /\ faults < MaxFaults
  /\ \/ /\ \E i \in DOMAIN stored :
             \/ stored' = [stored EXCEPT ![i].sealed = "foreign"]
             \/ /\ stored[i].kind = "chunk"
                /\ \E index \in 0 .. Len(written), final \in BOOLEAN :
                     stored' = [stored EXCEPT ![i].index = index, ![i].final = final]
        /\ reserved' = reserved
     \/ /\ reserved' = "other"
        /\ stored' = stored
  /\ faults' = faults + 1
  /\ UNCHANGED <<writerVars, readerVars>>

-----------------------------------------------------------------------------
(* The reader.                                                              *)

Starts ==
  /\ writerPC = "done"
  /\ readerPC = "idle"
  /\ readerPC' = "header"
  /\ UNCHANGED <<writerVars, storageVars, password, pos, expected, plain>>

\* The record that the reader finds next opens as one of this kind.
Opens(kind) == /\ pos < Len(stored)
               /\ stored[pos + 1].kind = kind
               /\ stored[pos + 1].sealed = "own"
               /\ stored[pos + 1].aad = <<stored[pos + 1].index, stored[pos + 1].final>>

\* The header is made again from its fields to open the key envelope, which
\* leaves out the reserved bytes.
HeaderIsGood == Opens("header") /\ password = "right"

AnyChunk == Opens("chunk")   \* mutant
ChunkIsGood == Opens("chunk") /\ stored[pos + 1].index = expected

ManifestIsGood == /\ Opens("manifest")
                  /\ stored[pos + 1].index = expected
                  /\ stored[pos + 1].bytes = plain

NoCheck == TRUE   \* mutant
NothingFollows == pos = Len(stored)

OpensEnvelope ==
  /\ readerPC = "header"
  /\ HeaderIsGood
  /\ pos' = pos + 1
  /\ readerPC' = "chunks"
  /\ UNCHANGED <<writerVars, storageVars, password, expected, plain>>

\* The bytes of a chunk go to the caller as soon as the chunk is authenticated.
ReleasesChunk ==
  /\ readerPC = "chunks"
  /\ ChunkIsGood
  /\ plain' = plain \o stored[pos + 1].bytes
  /\ pos' = pos + 1
  /\ expected' = expected + 1
  /\ readerPC' = IF stored[pos + 1].final THEN "manifest" ELSE "chunks"
  /\ UNCHANGED <<writerVars, storageVars, password>>

ChecksManifest ==
  /\ readerPC = "manifest"
  /\ ManifestIsGood
  /\ pos' = pos + 1
  /\ readerPC' = "end"
  /\ UNCHANGED <<writerVars, storageVars, password, expected, plain>>

Accepts ==
  /\ readerPC = "end"
  /\ NothingFollows
  /\ readerPC' = "accepted"
  /\ UNCHANGED <<writerVars, storageVars, password, pos, expected, plain>>

\* Any check that fails ends the reading with an error.
Rejects ==
  /\ \/ readerPC = "header" /\ ~HeaderIsGood
     \/ readerPC = "chunks" /\ ~ChunkIsGood
     \/ readerPC = "manifest" /\ ~ManifestIsGood
     \/ readerPC = "end" /\ ~NothingFollows
  /\ readerPC' = "rejected"
  /\ UNCHANGED <<writerVars, storageVars, password, pos, expected, plain>>

ReaderStep == Starts \/ OpensEnvelope \/ ReleasesChunk \/ ChecksManifest \/ Accepts \/ Rejects

Next == \/ SourceGrows \/ WriterStep \/ WriterFails
        \/ Rearranges \/ Damages
        \/ ReaderStep

Spec == Init /\ [][Next]_vars

\* encrypt_stream and decrypt_stream run on once they are called.
FairSpec == Spec /\ WF_vars(WriterStep) /\ WF_vars(readerPC # "idle" /\ ReaderStep)

-----------------------------------------------------------------------------
\* The number of chunks announced for a file of that size.
TotalChunks(size) == IF size = 0 THEN 1 ELSE (size + ChunkSize - 1) \div ChunkSize

\* A finished container has the bytes of its source, each once and in order,
\* in full chunks but for the last, which alone is marked as the last and is
\* empty for an empty source only; and as many chunks as were announced.
ContainerShape ==
  writerPC = "done" =>
    LET chunks == SubSeq(written, 2, Len(written) - 1)
    IN  /\ hashed = Bytes(0, taken)
        /\ Len(chunks) = TotalChunks(taken)
        /\ \A i \in 1 .. Len(chunks) :
             /\ chunks[i].index = i - 1
             /\ chunks[i].final = (i = Len(chunks))
             /\ chunks[i].bytes = Bytes((i - 1) * ChunkSize,
                                        IF chunks[i].final THEN taken ELSE i * ChunkSize)

\* Whatever storage did, and long before the manifest is checked, the caller has
\* got the first bytes of the source, in order and nothing else.
ReleasedInOrder == plain = Bytes(0, Len(plain)) /\ Len(plain) <= taken

\* A container is accepted only as it was written, whole, and with nothing after,
\* the reserved bytes of its header apart.
AcceptedMeansIntact == readerPC = "accepted" => stored = written /\ Len(plain) = taken

\* A container that came back as it was written is never refused.
NoFalseAlarm == readerPC = "rejected" => stored # written \/ password = "wrong"

\* Both functions return: a source that ends, whatever its length, is encrypted or
\* the attempt fails, and whatever comes back from storage is accepted or refused.
CallsReturn ==
  /\ <>(writerPC \in {"done", "failed"})
  /\ (readerPC # "idle") ~> (readerPC \in {"accepted", "rejected"})

\* decryptor.rs:95 and AUDIT.md:16: a header with any byte altered does not open.
\* This does not hold: the reserved bytes do not count.
AnyHeaderByteCounts == readerPC \notin {"idle", "header", "rejected"} => reserved = "zero"

-----------------------------------------------------------------------------
(* The inductive invariant behind the properties above.                     *)

\* The i-th chunk of a container, when it is full and not the last.
FullChunk(i) == Chunk(i, FALSE, Bytes(i * ChunkSize, (i + 1) * ChunkSize))

FullUpTo(len) == \A i \in 2 .. len : written[i] = FullChunk(i - 2)

\* The first len records are the header and all the chunks of the source, the
\* last one with what was left for it.
AllChunks(len) ==
  /\ len >= 2
  /\ FullUpTo(len - 1)
  /\ written[len] = Chunk(len - 2, TRUE, Bytes((len - 2) * ChunkSize, taken))
  /\ (len - 2) * ChunkSize <= taken
  /\ taken <= (len - 1) * ChunkSize
  /\ (len - 2) * ChunkSize = taken => taken = 0

\* What is in the buffer is what follows the bytes sealed so far; it is not
\* empty after the first chunk, because of the byte read ahead.
WriterInv ==
  /\ taken <= source
  /\ writerPC = "header" => taken = 0 /\ n = 0 /\ hashed = << >> /\ written = << >>
  /\ writerPC = "fill" =>
       /\ written # << >>
       /\ written[1] = Header
       /\ FullUpTo(Len(written))
       /\ taken = (Len(written) - 1) * ChunkSize + n
       /\ hashed = Bytes(0, taken - n)
       /\ n = 0 => Len(written) = 1
  /\ writerPC \in {"manifest", "done"} =>
       /\ written # << >>
       /\ written[1] = Header
       /\ hashed = Bytes(0, taken)
       /\ AllChunks(IF writerPC = "done" THEN Len(written) - 1 ELSE Len(written))
  /\ writerPC = "done" => written[Len(written)] = Manifest(Len(written) - 2, hashed)

\* Whatever in storage opens under some associated data was written under it.
StorageInv ==
  /\ writerPC # "done" => stored = << >> /\ readerPC = "idle"
  /\ \A i \in DOMAIN stored : stored[i].sealed = "own" =>
       \E j \in DOMAIN written : /\ stored[i].kind = written[j].kind
                                 /\ stored[i].bytes = written[j].bytes
                                 /\ stored[i].aad = written[j].aad
                                 /\ stored[i].kind # "chunk" => stored[i] = written[j]

\* The records that the reader has used are those that were written.
ReaderInv ==
  /\ pos <= Len(stored) /\ pos <= Len(written)
  /\ \A i \in 1 .. pos : stored[i] = written[i]
  /\ readerPC \in {"idle", "header"} => pos = 0 /\ expected = 0 /\ plain = << >>
  /\ readerPC \notin {"idle", "header", "rejected"} => password = "right"
  /\ readerPC = "chunks" => /\ pos = expected + 1
                            /\ pos <= Len(written) - 2
                            /\ plain = Bytes(0, expected * ChunkSize)
  /\ readerPC = "manifest" => pos = Len(written) - 1 /\ expected = pos - 1
  /\ readerPC \in {"end", "accepted"} => pos = Len(written)
  /\ readerPC \in {"manifest", "end", "accepted"} => plain = Bytes(0, taken)
  /\ readerPC = "accepted" => pos = Len(stored)

IInv == /\ TypeOK
        /\ WriterInv
        /\ StorageInv
        /\ ReaderInv
        /\ ReleasedInOrder
        /\ NoFalseAlarm

-----------------------------------------------------------------------------
\* The container implements an authentic transfer.
Transfer == INSTANCE AuthenticTransfer
              WITH sent <- Len(hashed),
                   closed <- writerPC = "done",
                   intact <- /\ writerPC = "done" => stored = written
                             /\ password = "right",
                   delivered <- plain,
                   verdict <- IF readerPC \in {"accepted", "rejected"} THEN readerPC ELSE "none"
ImplementsTransfer == Transfer!TSpec
=============================================================================
