------------------------------ MODULE BackupProofs ------------------------------
(***************************************************************************)
(* Theorems about Backup, for all files, paths and keys, and however many  *)
(* backups and restorations there are.  Every property has an invariant of *)
(* its own above the types of the variables.                               *)
(***************************************************************************)
EXTENDS Backup, FiniteSetTheorems, TLAPS

\* Where a backup is under way, and where a restoration.
Sealing == {"hash", "create", "seal", "sealManifest"}
Restoring == {"target", "decrypt", "verify"}

-----------------------------------------------------------------------------
(* Types.                                                                   *)

Sealable == Files \ Ignored

\* What a step works on is there.
FileInv ==
  /\ pc = "idle" => entries = <<>>
  /\ pc \in {"hash", "create", "seal", "sealManifest"} => ~good
  /\ pc \in {"create", "seal"} => files # <<>>
  /\ pc = "sealManifest" => files = <<>>
  /\ pc \in {"decrypt", "verify"} => entries # <<>>

TypeInv == TypeOK /\ files \in Seq(Sealable) /\ FileInv

LEMMA PathType == \A f \in Sealable : Path[f] \in Paths
  BY DEF Sealable, Paths

LEMMA Typed ==
  TypeInv => /\ Versions \subseteq Nat /\ 0 \in Versions
             /\ Absent \notin Versions /\ Part \notin Versions
  BY BoundsAssumption, MarkersAssumption DEF Versions

\* What is left of a sequence, and a longer one.
LEMMA HeadTail ==
  ASSUME NEW S, NEW q \in Seq(S), q # <<>>
  PROVE  Head(q) \in S /\ Tail(q) \in Seq(S) /\ Len(q) \in Nat /\ Len(q) > 0
  OBVIOUS

LEMMA Appended ==
  ASSUME NEW S, NEW q \in Seq(S), NEW e \in S
  PROVE  /\ Append(q, e) \in Seq(S)
         /\ DOMAIN Append(q, e) = DOMAIN q \cup {Len(q) + 1}
         /\ \A i \in DOMAIN q : Append(q, e)[i] = q[i]
         /\ Append(q, e)[Len(q) + 1] = e
  OBVIOUS

LEMMA InTail ==
  ASSUME NEW S, NEW q \in Seq(S), q # <<>>
  PROVE  /\ 1 \in DOMAIN q /\ Head(q) = q[1]
         /\ \A i \in DOMAIN q : i # 1 => i - 1 \in DOMAIN Tail(q) /\ Tail(q)[i - 1] = q[i]
         /\ \A i \in DOMAIN Tail(q) : i + 1 \in DOMAIN q /\ Tail(q)[i] = q[i + 1]
  OBVIOUS

\* The files are listed in some order, none is missing and none comes twice.
LEMMA ListedSeq ==
  ASSUME NEW L \in SUBSET Sealable, NEW q \in SetToSeqs(L)
  PROVE  q \in Seq(L) /\ \A f \in L : \E i \in DOMAIN q : q[i] = f
<1>1. IsFiniteSet(L)
  BY FilesAssumption, FS_Subset DEF Sealable
<1>2. Cardinality(L) \in Nat
  BY <1>1, FS_CardinalityType
<1> DEFINE D == 1 .. Cardinality(L)
<1>3. q \in [D -> L] /\ \A i, j \in D : i # j => q[i] # q[j]
  BY DEF SetToSeqs
<1>4. q \in Seq(L)
  BY <1>2, <1>3
<1>5. IsFiniteSet(D) /\ Cardinality(D) = Cardinality(L)
  BY <1>2, FS_Interval
<1>6. q \in Injection(D, L)
  BY <1>3 DEF Injection, IsInjective
<1>7. q \in Surjection(D, L)
  BY <1>1, <1>5, <1>6, FS_Injection
<1> QED
  BY <1>4, <1>7 DEF Surjection

LEMMA InitTypeInv == Init => TypeInv
<1> SUFFICES ASSUME Init PROVE TypeInv
  OBVIOUS
<1>1. 0 \in Versions /\ {MaxWrites, MaxBackups, MaxRestores} \subseteq Nat
  BY BoundsAssumption DEF Versions
<1>2. src \in [Files -> Versions \cup {Absent}] /\ origin = src
  BY <1>1 DEF Init
<1>3. out \in [Paths -> Targets] /\ before = out
  BY DEF Init, Targets
<1>4. box \in [Paths -> Containers \cup {Absent, Part}]
  BY DEF Init
<1>5. {complete, quiet, good} \subseteq BOOLEAN
  BY DEF Init
<1>6. files \in Seq(Files) /\ files \in Seq(Sealable) /\ entries \in Seq(Entries)
  BY DEF Init
<1>7. writes = 0 /\ backups = 0 /\ restores = 0 /\ failed \subseteq Faults
  BY DEF Init
<1> QED
  BY <1>1, <1>2, <1>3, <1>4, <1>5, <1>6, <1>7 DEF Init, TypeInv, TypeOK, Stages, FileInv

\* Whatever returns, or changes no more than where it is and how often what
\* failed, keeps the types.
LEMMA FaultType ==
  ASSUME TypeInv, NEW kind, Fault(kind)
  PROVE  failed' \subseteq Faults /\ UNCHANGED <<writes, backups, restores>>
  BY DEF Fault, TypeInv, TypeOK

LEMMA ReturnType ==
  ASSUME TypeInv, Return
  PROVE  /\ pc' \in Stages /\ FileInv' /\ files' \in Seq(Sealable) /\ files' \in Seq(Files)
         /\ digest' \in Versions /\ seen' \in Versions /\ entries' \in Seq(Entries)
  BY Typed DEF Return, Goto, Stages, FileInv

LEMMA FileType ==
  TypeInv /\ files # <<>> => File \in Sealable /\ File \in Files
  BY HeadTail DEF File, Sealable, TypeInv

LEMMA EntryType ==
  TypeInv /\ entries # <<>> =>
    Entry \in Entries /\ Entry.path \in Paths /\ Entry.version \in Versions
<1>1. TypeInv /\ entries # <<>> => Entry \in Entries
  BY HeadTail DEF Entry, TypeInv, TypeOK
<1>2. \A e \in Entries : e.path \in Paths /\ e.version \in Versions
  BY DEF Entries
<1> QED
  BY <1>1, <1>2

\* A step of a backup.
LEMMA SealingType == TypeInv /\ BackupStep => TypeInv'
<1> SUFFICES ASSUME TypeInv, BackupStep PROVE TypeInv'
  OBVIOUS
<1> USE DEF TypeInv, FileInv
<1>1. ASSUME NEW L \in SUBSET Listed, Starts(L), failed' \subseteq Faults,
             backups' \in 0 .. MaxBackups, UNCHANGED <<writes, restores>>
      PROVE  TypeInv'
  <2>1. L \in SUBSET Sealable
    BY DEF Listed, Sealable
  <2>2. files' \in Seq(L)
    BY <1>1, <2>1, ListedSeq DEF Starts
  <2>3. files' \in Seq(Sealable) /\ files' \in Seq(Files)
    BY <2>1, <2>2 DEF Sealable
  <2>4. quiet' \in BOOLEAN /\ good' \in BOOLEAN
    BY <1>1 DEF Starts
  <2>5. pc' \in Stages /\ key' \in Keys /\ origin' = src
    BY <1>1 DEF Starts, Goto, Stages
  <2> QED
    BY <1>1, <2>3, <2>4, <2>5 DEF Starts, Goto, TypeOK, diskVars
<1>2. CASE StartsBackup
  <2>1. backups' \in 0 .. MaxBackups
    BY <1>2, BoundsAssumption DEF StartsBackup, TypeOK
  <2> QED
    BY <1>1, <1>2, <2>1 DEF StartsBackup, TypeOK
<1>3. CASE PassesOver
  <2>1. failed' \subseteq Faults /\ UNCHANGED <<writes, backups, restores>>
    BY <1>3, FaultType DEF PassesOver
  <2>2. PICK f \in Listed : Starts(Listed \ {f})
    BY <1>3 DEF PassesOver
  <2> QED
    BY <1>1, <2>1, <2>2 DEF TypeOK
<1>4. CASE Hashes
  <2>2. digest' \in Versions
    BY <1>4, FileType DEF Hashes, CanRead, TypeOK
  <2> QED
    BY <1>4, <2>2 DEF Hashes, KeepsDisk, TypeOK, Goto, Stages, diskVars, historyVars, boundVars
<1>5. CASE FileVanished
  BY <1>5, ReturnType DEF FileVanished, KeepsDisk, TypeOK, diskVars, historyVars, boundVars
<1>6. CASE CreatesContainer
  <2>1. seen' \in Versions /\ box' \in [Paths -> Containers \cup {Absent, Part}]
    BY <1>6, FileType DEF CreatesContainer, TypeOK
  <2>2. pc' \in Stages
    BY <1>6 DEF CreatesContainer, Goto, Stages
  <2> QED
    BY <1>6, <2>1, <2>2 DEF CreatesContainer, TypeOK, Goto, Stages, boundVars
<1>7. CASE Seals
  <2>1. box' \in [Paths -> Containers \cup {Absent, Part}]
    <3>1. PICK v \in {seen, src[File]} \ {Absent} :
            box' = [box EXCEPT ![Path[File]] = [version |-> v, key |-> key]]
      BY <1>7 DEF Seals
    <3>2. v \in Versions
      BY <1>7, FileType DEF Seals, TypeOK
    <3>3. [version |-> v, key |-> key] \in Containers
      BY <3>2 DEF Containers, TypeOK
    <3> QED
      BY <3>1, <3>3 DEF TypeOK
  <2>2. [path |-> Path[File], version |-> digest] \in Entries
    BY <1>7, FileType, PathType DEF Seals, Entries, TypeOK
  <2>3. entries' \in Seq(Entries)
    BY <1>7, <2>2, Appended DEF Seals, TypeOK
  <2>4. files' \in Seq(Sealable) /\ files' \in Seq(Files)
    BY <1>7, HeadTail DEF Seals, TypeOK
  <2>5. pc' \in Stages /\ digest' \in Versions /\ seen' \in Versions
    BY <1>7, Typed DEF Seals, Goto, Stages
  <2> QED
    BY <1>7, <2>1, <2>3, <2>4, <2>5 DEF Seals, Goto, TypeOK, boundVars, historyVars
<1>8. CASE CreatesManifest
  BY <1>8 DEF CreatesManifest, TypeOK, Goto, Stages, boundVars
<1>9. CASE SealsManifest
  <2>1. manifest' \in Manifests
    BY <1>9 DEF SealsManifest, Manifests, TypeOK
  <2>2. good' \in BOOLEAN
    BY <1>9 DEF SealsManifest, TypeOK
  <2> QED
    BY <1>9, <2>1, <2>2, ReturnType DEF SealsManifest, TypeOK, boundVars
<1> QED
  BY <1>2, <1>3, <1>4, <1>5, <1>6, <1>7, <1>8, <1>9 DEF BackupStep

\* A step of a restoration.
LEMMA RestoringType == TypeInv /\ RestoreStep => TypeInv'
<1> SUFFICES ASSUME TypeInv, RestoreStep PROVE TypeInv'
  OBVIOUS
<1> USE DEF TypeInv, FileInv
<1>0. entries # <<>> => Entry.path \in Paths /\ Entry.version \in Versions
  BY EntryType
<1>1. CASE StartsRestore
  <2>1. manifest \in Manifests
    BY <1>1 DEF StartsRestore, Readable, TypeOK
  <2>2. entries' \in Seq(Entries) /\ used' \in Manifests
    BY <1>1, <2>1 DEF StartsRestore, Manifests
  <2>3. restores' \in 0 .. MaxRestores
    BY <1>1, BoundsAssumption DEF StartsRestore, TypeOK
  <2>4. pc' \in Stages /\ complete' \in BOOLEAN
    BY <1>1 DEF StartsRestore, Goto, Stages
  <2> QED
    BY <1>1, <2>2, <2>3, <2>4 DEF StartsRestore, TypeOK, Goto, diskVars
<1>2. CASE ContainerMissing \/ DecryptionFails
  BY <1>2, ReturnType DEF ContainerMissing, DecryptionFails, KeepsDisk, TypeOK, diskVars,
     historyVars, boundVars
<1>3. CASE CreatesTarget
  <2>1. out' \in [Paths -> Targets]
    BY <1>3, <1>0 DEF CreatesTarget, TypeOK, Targets
  <2>2. pc' \in Stages
    BY <1>3 DEF CreatesTarget, Goto, Stages
  <2> QED
    BY <1>3, <2>1, <2>2 DEF CreatesTarget, Goto, TypeOK, historyVars, boundVars
<1>4. CASE Decrypts
  <2>1. box[Entry.path] \in Containers
    BY <1>4, <1>0 DEF Decrypts, Readable, TypeOK
  <2>2. box[Entry.path].version \in Targets
    BY <2>1 DEF Containers, Targets
  <2>3. out' \in [Paths -> Targets]
    BY <1>4, <1>0, <2>2 DEF Decrypts, TypeOK
  <2>4. pc' \in Stages
    BY <1>4 DEF Decrypts, Goto, Stages
  <2> QED
    BY <1>4, <2>3, <2>4 DEF Decrypts, Goto, TypeOK, historyVars, boundVars
<1>5. CASE Verifies
  <2>1. entries' \in Seq(Entries)
    BY <1>5, HeadTail DEF Verifies, TypeOK
  <2>2. pc' \in Stages
    BY <1>5 DEF Verifies, Goto, Stages
  <2> QED
    BY <1>5, <2>1, <2>2 DEF Verifies, Goto, KeepsDisk, TypeOK, diskVars, historyVars, boundVars
<1>6. CASE VerificationFails
  <2>1. out' \in [Paths -> Targets]
    BY <1>6, <1>0 DEF VerificationFails, Removed, TypeOK, Targets
  <2> QED
    BY <1>6, <2>1, ReturnType DEF VerificationFails, TypeOK, historyVars, boundVars
<1>7. CASE Succeeds
  <2>1. complete' \in BOOLEAN
    BY <1>7 DEF Succeeds
  <2> QED
    BY <1>7, <2>1, ReturnType DEF Succeeds, TypeOK, diskVars, boundVars
<1> QED
  BY <1>1, <1>2, <1>3, <1>4, <1>5, <1>6, <1>7 DEF RestoreStep

LEMMA NextTypeInv == TypeInv /\ [Next]_vars => TypeInv'
<1> SUFFICES ASSUME TypeInv, [Next]_vars PROVE TypeInv'
  OBVIOUS
<1>1. CASE BackupStep
  BY <1>1, SealingType
<1>2. CASE RestoreStep
  BY <1>2, RestoringType
<1>3. CASE CallFails \/ Crash
  <2>1. failed' \subseteq Faults /\ UNCHANGED <<writes, backups, restores>>
    BY <1>3, FaultType DEF CallFails, Crash
  <2>2. Return /\ UNCHANGED <<key, diskVars, historyVars>>
    BY <1>3 DEF CallFails, Crash, KeepsDisk
  <2> QED
    BY <2>1, <2>2, ReturnType DEF TypeInv, TypeOK, diskVars, historyVars
<1>4. ASSUME NEW f \in Files, Write(f) PROVE TypeInv'
  <2>1. writes' \in 0 .. MaxWrites /\ writes' \in Versions
    BY <1>4, BoundsAssumption DEF Write, TypeInv, TypeOK, Versions
  <2>2. src' \in [Files -> Versions \cup {Absent}]
    BY <1>4, <2>1 DEF Write, TypeInv, TypeOK
  <2>3. quiet' \in BOOLEAN
    BY <1>4 DEF Write
  <2> QED
    BY <1>4, <2>1, <2>2, <2>3 DEF Write, TypeInv, TypeOK, FileInv, workVars
<1>5. ASSUME NEW p \in Paths, Damage(p) PROVE TypeInv'
  <2>1. failed' \subseteq Faults /\ UNCHANGED <<writes, backups, restores>>
    BY <1>5, FaultType DEF Damage
  <2>2. box' \in [Paths -> Containers \cup {Absent, Part}]
    BY <1>5 DEF Damage, TypeInv, TypeOK
  <2>3. good' \in BOOLEAN /\ quiet' \in BOOLEAN
    BY <1>5 DEF Damage
  <2> QED
    BY <1>5, <2>1, <2>2, <2>3 DEF Damage, TypeInv, TypeOK, FileInv, workVars
<1>6. CASE UNCHANGED vars
  BY <1>6 DEF vars, diskVars, workVars, boundVars, historyVars, TypeInv, TypeOK, FileInv
<1> QED
  BY <1>1, <1>2, <1>3, <1>4, <1>5, <1>6 DEF Next

\* Every variable keeps its type.
THEOREM TypeCorrect == Spec => []TypeOK
<1>1. Init => TypeInv
  BY InitTypeInv
<1>2. TypeInv /\ [Next]_vars => TypeInv'
  BY NextTypeInv
<1>3. TypeInv => TypeOK
  BY DEF TypeInv
<1> QED
  BY <1>1, <1>2, <1>3, PTL DEF Spec

-----------------------------------------------------------------------------
(* The containers of a manifest.                                            *)

Made(list) == \A i \in DOMAIN list : box[list[i].path] # Absent

MeansInv ==
  "damage" \notin failed =>
    /\ manifest \in Manifests => Made(manifest.entries)
    /\ pc \in Sealing => Made(entries)

\* Only other programs take a container away.
LEMMA BoxKept ==
  ASSUME TypeInv, [Next]_vars, "damage" \notin failed'
  PROVE  "damage" \notin failed /\ \A p \in Paths : box[p] # Absent => box'[p] # Absent
<1>1. "damage" \notin failed /\ \A p \in Paths : ~Damage(p)
  <2>1. failed \subseteq failed'
    BY DEF Next, vars, boundVars, BackupStep, StartsBackup, PassesOver, Hashes, FileVanished,
       CreatesContainer, Seals, CreatesManifest, SealsManifest, RestoreStep, StartsRestore,
       ContainerMissing, CreatesTarget, Decrypts, DecryptionFails, Verifies,
       VerificationFails, Succeeds, CallFails, Crash, Write, Damage, Fault
  <2>2. \A p \in Paths : Damage(p) => "damage" \in failed'
    BY DEF Damage, Fault
  <2> QED
    BY <2>1, <2>2
<1>2. CASE CreatesContainer
  <2>1. Part # Absent /\ box' = [box EXCEPT ![Path[File]] = Part]
    BY <1>2, MarkersAssumption DEF CreatesContainer
  <2> QED
    BY <1>1, <2>1 DEF TypeInv, TypeOK
<1>3. CASE Seals
  <2>1. PICK v \in {seen, src[File]} \ {Absent} :
          box' = [box EXCEPT ![Path[File]] = [version |-> v, key |-> key]]
    BY <1>3 DEF Seals
  <2>2. v \in Versions
    BY <1>3, <2>1, FileType DEF Seals, TypeInv, TypeOK, FileInv
  <2>3. [version |-> v, key |-> key] \in Containers
    BY <2>2 DEF Containers, TypeInv, TypeOK
  <2>4. [version |-> v, key |-> key] # Absent
    BY <2>3, MarkersAssumption
  <2> QED
    BY <1>1, <2>1, <2>4 DEF TypeInv, TypeOK
<1>4. CASE ~CreatesContainer /\ ~Seals
  <2>1. box' = box
    BY <1>1, <1>4 DEF Next, vars, diskVars, BackupStep, StartsBackup, PassesOver, Starts,
       Hashes, FileVanished, CreatesManifest, SealsManifest, RestoreStep, StartsRestore,
       ContainerMissing, CreatesTarget, Decrypts, DecryptionFails, Verifies,
       VerificationFails, Succeeds, CallFails, Crash, Write, KeepsDisk
  <2> QED
    BY <1>1, <2>1
<1> QED
  BY <1>2, <1>3, <1>4

LEMMA NextMeansInv == TypeInv /\ MeansInv /\ [Next]_vars => MeansInv'
<1> SUFFICES ASSUME TypeInv, MeansInv, [Next]_vars, "damage" \notin failed'
             PROVE  /\ manifest' \in Manifests => Made(manifest.entries)'
                    /\ pc' \in Sealing => Made(entries)'
  BY DEF MeansInv
<1>0. /\ "damage" \notin failed
      /\ \A p \in Paths : box[p] # Absent => box'[p] # Absent
      /\ manifest \in Manifests => Made(manifest.entries)
      /\ pc \in Sealing => Made(entries)
  BY BoxKept DEF MeansInv
<1>1. \A list \in Seq(Entries) : Made(list) => \A i \in DOMAIN list : box'[list[i].path] # Absent
  <2> SUFFICES ASSUME NEW list \in Seq(Entries), Made(list), NEW i \in DOMAIN list
               PROVE  box'[list[i].path] # Absent
    OBVIOUS
  <2>1. list[i] \in Entries
    OBVIOUS
  <2>2. list[i].path \in Paths
    BY <2>1 DEF Entries
  <2> QED
    BY <1>0, <2>2 DEF Made
<1>2. entries \in Seq(Entries) /\ (manifest \in Manifests => manifest.entries \in Seq(Entries))
  BY DEF TypeInv, TypeOK, Manifests
<1>3. manifest \in Manifests /\ manifest' = manifest => Made(manifest.entries)'
  BY <1>0, <1>1, <1>2 DEF Made
<1>4. pc \in Sealing /\ entries' = entries => Made(entries)'
  BY <1>0, <1>1, <1>2 DEF Made
<1>5. entries' = <<>> => Made(entries)'
  BY DEF Made
<1>6. CASE StartsBackup \/ PassesOver
  <2>1. entries' = <<>> /\ manifest' = manifest
    BY <1>6 DEF StartsBackup, PassesOver, Starts, diskVars, TypeInv, FileInv
  <2> QED
    BY <1>3, <1>5, <2>1
<1>7. CASE Hashes \/ CreatesContainer
  <2>1. pc \in Sealing /\ entries' = entries /\ manifest' = manifest
    BY <1>7 DEF Hashes, CreatesContainer, KeepsDisk, diskVars, Sealing
  <2> QED
    BY <1>3, <1>4, <2>1
<1>8. CASE Seals
  <2>0. pc \in Sealing /\ manifest' = manifest
    BY <1>8 DEF Seals, Sealing
  <2> DEFINE e == [path |-> Path[File], version |-> digest]
  <2>1. e \in Entries /\ e.path \in Paths /\ e.path = Path[File]
    BY <1>8, FileType, PathType DEF Seals, Entries, TypeInv, TypeOK, FileInv
  <2>2. entries' = Append(entries, e)
    BY <1>8 DEF Seals
  <2>3. box'[e.path] # Absent
    <3>1. PICK v \in {seen, src[File]} \ {Absent} :
            box' = [box EXCEPT ![Path[File]] = [version |-> v, key |-> key]]
      BY <1>8 DEF Seals
    <3>2. v \in Versions
      BY <1>8, <3>1, FileType DEF Seals, TypeInv, TypeOK, FileInv
    <3>3. [version |-> v, key |-> key] \in Containers
      BY <3>2 DEF Containers, TypeInv, TypeOK
    <3>4. [version |-> v, key |-> key] # Absent
      BY <3>3, MarkersAssumption
    <3> QED
      BY <2>1, <3>1, <3>4 DEF TypeInv, TypeOK
  <2> HIDE DEF e
  <2>4. \A i \in DOMAIN entries' :
          \/ i \in DOMAIN entries /\ entries'[i] = entries[i]
          \/ entries'[i] = e
    BY <1>2, <2>1, <2>2, Appended
  <2>5. Made(entries)'
    BY <1>0, <1>1, <1>2, <2>0, <2>3, <2>4 DEF Made
  <2> QED
    BY <1>3, <2>0, <2>5
<1>9. CASE CreatesManifest
  <2>1. pc \in Sealing /\ entries' = entries /\ manifest' = Part
    BY <1>9 DEF CreatesManifest, Sealing
  <2> QED
    BY <1>4, <2>1, MarkersAssumption
<1>10. CASE SealsManifest
  <2>1. /\ pc \in Sealing /\ pc' \notin Sealing /\ box' = box
        /\ manifest' = [entries |-> entries, key |-> key]
    BY <1>10 DEF SealsManifest, Return, Goto, Sealing
  <2> QED
    BY <1>0, <2>1 DEF Made
<1>11. CASE FileVanished \/ RestoreStep \/ CallFails \/ Crash
  <2>1. pc' \notin Sealing /\ manifest' = manifest
    BY <1>11 DEF FileVanished, RestoreStep, StartsRestore, ContainerMissing, CreatesTarget,
       Decrypts, DecryptionFails, Verifies, VerificationFails, Succeeds, CallFails, Crash,
       KeepsDisk, diskVars, Return, Goto, Sealing
  <2> QED
    BY <1>3, <2>1
<1>12. CASE (\E f \in Files : Write(f)) \/ (\E p \in Paths : Damage(p)) \/ UNCHANGED vars
  <2>1. pc' = pc /\ entries' = entries /\ manifest' = manifest
    BY <1>12 DEF Write, Damage, vars, diskVars, workVars
  <2> QED
    BY <1>3, <1>4, <2>1
<1> QED
  BY <1>6, <1>7, <1>8, <1>9, <1>10, <1>11, <1>12 DEF Next, BackupStep

\* The containers a manifest speaks of exist, whatever backup was cut off since,
\* unless one is taken away: however many files, backups and failures there are.
THEOREM ContainersExist == Spec => []ManifestMeansContainers
<1>1. Init => TypeInv /\ MeansInv
  BY InitTypeInv, MarkersAssumption DEF Init, MeansInv, Sealing, Made
<1>2. TypeInv /\ MeansInv /\ [Next]_vars => (TypeInv /\ MeansInv)'
  BY NextTypeInv, NextMeansInv
<1>3. MeansInv => ManifestMeansContainers
  BY DEF MeansInv, ManifestMeansContainers, Made
<1> QED
  BY <1>1, <1>2, <1>3, PTL DEF Spec

-----------------------------------------------------------------------------
(* What a restoration has put back.                                         *)

Done == Len(used.entries) - Len(entries)

\* What is still to be restored is the rest of the manifest; what is done is as
\* the manifest says, except for a path that is written once more, and no
\* container could make it otherwise.
RestInv ==
  /\ used \in Manifests
  /\ Done \in Nat
  /\ \A i \in 1 .. Len(entries) : entries[i] = used.entries[i + Done]

Agrees(e) == Readable(box[e.path], key) => box[e.path].version = e.version

DoneInv ==
  /\ \A i \in 1 .. Done :
       /\ Agrees(used.entries[i])
       /\ \/ out[used.entries[i].path] = used.entries[i].version
          \/ pc = "decrypt" /\ used.entries[i].path = Entry.path
  /\ pc = "verify" /\ Readable(box[Entry.path], key) =>
       box[Entry.path].version = out[Entry.path]

RestoreInv ==
  /\ pc \in Restoring => ~complete /\ RestInv /\ DoneInv
  /\ RestoredIsOneBackup

\* Whatever leaves the destination alone, and is no step of a restoration,
\* leaves it restored.
LEMMA StaysRestored ==
  RestoreInv /\ UNCHANGED <<out, used, complete>> => RestoredIsOneBackup'
  BY DEF RestoreInv, RestoredIsOneBackup

LEMMA NotComplete == ~complete' => RestoredIsOneBackup'
  BY DEF RestoredIsOneBackup

\* A container that is damaged cannot be read.
LEMMA DamagedUnreadable ==
  ASSUME TypeInv, NEW p \in Paths, Damage(p), NEW q \in Paths, Readable(box'[q], key)
  PROVE  box'[q] = box[q]
  BY DEF Damage, Readable, TypeInv, TypeOK

\* The entry at hand is the next one of the manifest.
LEMMA EntryAt ==
  ASSUME TypeInv, RestInv, entries # <<>>
  PROVE  /\ Done + 1 \in DOMAIN used.entries /\ Entry = used.entries[Done + 1]
         /\ Entry \in Entries /\ Entry.path \in Paths
<1>1. Len(entries) \in Nat /\ Len(entries) >= 1 /\ Entry = entries[1]
  BY InTail DEF Entry, TypeInv, TypeOK
<1>2. used.entries \in Seq(Entries) /\ Len(used.entries) \in Nat
  BY DEF RestInv, Manifests
<1>3. Entry = used.entries[Done + 1]
  BY <1>1, <1>2 DEF RestInv
<1>4. Done + 1 \in DOMAIN used.entries
  BY <1>1, <1>2 DEF RestInv, Done
<1> QED
  BY <1>3, <1>4, EntryType

LEMMA DoneType ==
  ASSUME RestInv, NEW i \in 1 .. Done, Len(entries) \in Nat
  PROVE  /\ i \in DOMAIN used.entries /\ used.entries[i] \in Entries
         /\ used.entries[i].path \in Paths /\ used.entries[i].version \in Versions
<1>1. used.entries \in Seq(Entries) /\ Len(used.entries) \in Nat
  BY DEF RestInv, Manifests
<1>2. i \in DOMAIN used.entries
  BY <1>1 DEF RestInv, Done
<1>3. used.entries[i] \in Entries
  BY <1>1, <1>2
<1> QED
  BY <1>2, <1>3 DEF Entries

LEMMA RestoreStepInv == TypeInv /\ RestoreInv /\ RestoreStep => RestoreInv'
<1> SUFFICES ASSUME TypeInv, RestoreInv, RestoreStep PROVE RestoreInv'
  OBVIOUS
<1>0. Len(entries) \in Nat
  BY DEF TypeInv, TypeOK
<1>1. CASE StartsRestore
  <2>1. manifest \in Manifests
    BY <1>1 DEF StartsRestore, Readable, TypeInv, TypeOK
  <2>2. /\ used' = manifest /\ entries' = manifest.entries /\ ~complete' /\ pc' = "target"
        /\ Len(manifest.entries) \in Nat
    BY <1>1, <2>1 DEF StartsRestore, Goto, Manifests
  <2>3. Done' = 0
    BY <2>2 DEF Done
  <2>4. RestInv'
    BY <2>1, <2>2, <2>3 DEF RestInv
  <2>5. DoneInv'
    BY <2>2, <2>3 DEF DoneInv
  <2> QED
    BY <2>2, <2>4, <2>5, NotComplete DEF RestoreInv
<1>2. CASE ContainerMissing \/ DecryptionFails
  <2>1. pc' = "idle" /\ UNCHANGED <<out, used, complete>>
    BY <1>2 DEF ContainerMissing, DecryptionFails, Return, Goto, KeepsDisk, diskVars, historyVars
  <2> QED
    BY <2>1, StaysRestored DEF RestoreInv, Restoring
<1>3. CASE CreatesTarget
  <2>1. /\ ~complete /\ RestInv /\ DoneInv /\ entries # <<>>
        /\ pc = "target" /\ pc' = "decrypt"
        /\ out' = [out EXCEPT ![Entry.path] = Part]
        /\ UNCHANGED <<box, key, entries, used, complete>>
    BY <1>3 DEF CreatesTarget, Goto, historyVars, RestoreInv, Restoring
  <2>2. RestInv' /\ Done' = Done /\ Entry' = Entry
    BY <2>1 DEF RestInv, Done, Entry
  <2>3. ASSUME NEW i \in 1 .. Done
        PROVE  /\ Agrees(used.entries[i])'
               /\ \/ out'[used.entries[i].path] = used.entries[i].version
                  \/ used.entries[i].path = Entry.path
    <3>1. used.entries[i].path \in Paths
      BY <1>0, <2>1, DoneType
    <3> QED
      BY <2>1, <3>1 DEF DoneInv, Agrees, TypeInv, TypeOK
  <2>4. DoneInv'
    BY <2>1, <2>2, <2>3 DEF DoneInv
  <2> QED
    BY <2>1, <2>2, <2>4, NotComplete DEF RestoreInv
<1>4. CASE Decrypts
  <2>1. /\ ~complete /\ RestInv /\ DoneInv /\ entries # <<>>
        /\ pc = "decrypt" /\ pc' = "verify" /\ Readable(box[Entry.path], key)
        /\ out' = [out EXCEPT ![Entry.path] = box[Entry.path].version]
        /\ UNCHANGED <<box, key, entries, used, complete>>
    BY <1>4 DEF Decrypts, Goto, historyVars, RestoreInv, Restoring, TypeInv, FileInv
  <2>2. RestInv' /\ Done' = Done /\ Entry' = Entry
    BY <2>1 DEF RestInv, Done, Entry
  <2>3. Entry.path \in Paths
    BY <2>1, EntryAt
  <2>4. ASSUME NEW i \in 1 .. Done
        PROVE  /\ Agrees(used.entries[i])'
               /\ out'[used.entries[i].path] = used.entries[i].version
    <3>1. used.entries[i].path \in Paths
      BY <1>0, <2>1, DoneType
    <3>2. Agrees(used.entries[i]) /\ Agrees(used.entries[i])'
      BY <2>1 DEF DoneInv, Agrees
    <3>3. CASE used.entries[i].path = Entry.path
      BY <2>1, <2>3, <3>2, <3>3 DEF Agrees, TypeInv, TypeOK
    <3>4. CASE used.entries[i].path # Entry.path
      BY <2>1, <2>3, <3>1, <3>2, <3>4 DEF DoneInv, TypeInv, TypeOK
    <3> QED
      BY <3>2, <3>3, <3>4
  <2>5. out'[Entry.path] = box[Entry.path].version
    BY <2>1, <2>3 DEF TypeInv, TypeOK
  <2>6. DoneInv'
    BY <2>1, <2>2, <2>4, <2>5 DEF DoneInv
  <2> QED
    BY <2>1, <2>2, <2>6, NotComplete DEF RestoreInv
<1>5. CASE Verifies
  <2>1. /\ ~complete /\ RestInv /\ DoneInv /\ entries # <<>>
        /\ pc = "verify" /\ pc' = "target" /\ out[Entry.path] = Entry.version
        /\ entries' = Tail(entries)
        /\ UNCHANGED <<box, out, key, used, complete>>
    BY <1>5 DEF Verifies, Matches, Goto, KeepsDisk, diskVars, historyVars, RestoreInv,
       Restoring, TypeInv, FileInv
  <2>2. /\ Done + 1 \in DOMAIN used.entries /\ Entry = used.entries[Done + 1]
        /\ Entry.path \in Paths
    BY <2>1, EntryAt
  <2>3. /\ used.entries \in Seq(Entries) /\ Len(used.entries) \in Nat /\ entries \in Seq(Entries)
        /\ Done \in Nat
    BY <2>1 DEF RestInv, Manifests, TypeInv, TypeOK
  <2>4. Len(entries') = Len(entries) - 1 /\ Len(entries) >= 1
    BY <1>0, <2>1, <2>3
  <2>5. Done' = Done + 1
    BY <1>0, <2>1, <2>3, <2>4 DEF Done
  <2>6. RestInv'
    <3> SUFFICES ASSUME NEW i \in 1 .. Len(entries')
                 PROVE  entries'[i] = used.entries[i + (Done + 1)]
      BY <2>1, <2>3, <2>5 DEF RestInv
    <3>1. i \in Nat /\ i + 1 \in 1 .. Len(entries)
      BY <1>0, <2>4
    <3>2. entries'[i] = entries[i + 1]
      BY <2>1, <2>3, <2>4, <3>1
    <3>3. entries[i + 1] = used.entries[(i + 1) + Done]
      BY <2>1, <3>1 DEF RestInv
    <3>4. (i + 1) + Done = i + (Done + 1)
      BY <2>3, <3>1
    <3> QED
      BY <3>2, <3>3, <3>4
  <2>7. ASSUME NEW i \in 1 .. Done + 1
        PROVE  /\ Agrees(used.entries[i])'
               /\ out'[used.entries[i].path] = used.entries[i].version
    <3>1. CASE i = Done + 1
      BY <2>1, <2>2, <3>1 DEF DoneInv, Agrees
    <3>2. CASE i # Done + 1
      <4>1. i \in 1 .. Done
        BY <2>3, <3>2
      <4> QED
        BY <2>1, <4>1 DEF DoneInv, Agrees
    <3> QED
      BY <3>1, <3>2
  <2>8. DoneInv'
    BY <2>1, <2>5, <2>7 DEF DoneInv
  <2> QED
    BY <2>1, <2>6, <2>8, NotComplete DEF RestoreInv
<1>6. CASE VerificationFails
  <2>1. pc = "verify" /\ pc' = "idle" /\ complete' = complete
    BY <1>6 DEF VerificationFails, Return, Goto, historyVars
  <2> QED
    BY <2>1, NotComplete DEF RestoreInv, Restoring
<1>7. CASE Succeeds
  <2>1. /\ RestInv /\ DoneInv /\ entries = <<>> /\ pc = "target" /\ pc' = "idle"
        /\ UNCHANGED <<out, used>>
    BY <1>7 DEF Succeeds, Return, Goto, diskVars, RestoreInv, Restoring
  <2>2. used.entries \in Seq(Entries) /\ Done = Len(used.entries)
    BY <2>1 DEF RestInv, Manifests, Done
  <2>3. \A i \in DOMAIN used.entries : out[used.entries[i].path] = used.entries[i].version
    BY <2>1, <2>2 DEF DoneInv
  <2>4. RestoredIsOneBackup'
    BY <2>1, <2>3 DEF RestoredIsOneBackup
  <2> QED
    BY <2>1, <2>4 DEF RestoreInv, Restoring
<1> QED
  BY <1>1, <1>2, <1>3, <1>4, <1>5, <1>6, <1>7 DEF RestoreStep

LEMMA NextRestoreInv == TypeInv /\ RestoreInv /\ [Next]_vars => RestoreInv'
<1> SUFFICES ASSUME TypeInv, RestoreInv, [Next]_vars PROVE RestoreInv'
  OBVIOUS
<1>1. CASE RestoreStep
  BY <1>1, RestoreStepInv
<1>2. CASE BackupStep \/ CallFails \/ Crash
  <2>1. pc' \notin Restoring /\ UNCHANGED <<out, used, complete>>
    BY <1>2 DEF BackupStep, StartsBackup, PassesOver, Starts, Hashes, FileVanished,
       CreatesContainer, Seals, CreatesManifest, SealsManifest, CallFails, Crash,
       KeepsDisk, diskVars, historyVars, Return, Goto, Restoring
  <2> QED
    BY <2>1, StaysRestored DEF RestoreInv
<1>3. CASE (\E f \in Files : Write(f)) \/ UNCHANGED vars
  <2>1. UNCHANGED <<box, out, pc, key, entries, used, complete>>
    BY <1>3 DEF Write, vars, diskVars, workVars, historyVars
  <2> QED
    BY <2>1, StaysRestored DEF RestoreInv, RestInv, DoneInv, Done, Agrees, Readable, Entry
<1>4. ASSUME NEW p \in Paths, Damage(p) PROVE RestoreInv'
  <2>1. UNCHANGED <<out, pc, key, entries, used, complete>>
    BY <1>4 DEF Damage, workVars
  <2>2. Done' = Done /\ Entry' = Entry /\ (RestInv => RestInv')
    BY <2>1 DEF Done, Entry, RestInv
  <2>3. ASSUME pc \in Restoring PROVE DoneInv'
    <3>1. RestInv /\ DoneInv
      BY <2>3 DEF RestoreInv
    <3>2. ASSUME NEW i \in 1 .. Done PROVE Agrees(used.entries[i])'
      <4>1. used.entries[i].path \in Paths
        BY <3>1, DoneType DEF TypeInv, TypeOK
      <4> QED
        BY <1>4, <2>1, <3>1, <4>1, DamagedUnreadable DEF DoneInv, Agrees
    <3>3. pc = "verify" /\ Readable(box'[Entry.path], key) => box'[Entry.path].version = out[Entry.path]
      <4>1. pc = "verify" => Entry.path \in Paths
        BY EntryType DEF TypeInv, FileInv
      <4> QED
        BY <1>4, <3>1, <4>1, DamagedUnreadable DEF DoneInv
    <3> QED
      BY <2>1, <2>2, <3>1, <3>2, <3>3 DEF DoneInv
  <2> QED
    BY <2>1, <2>2, <2>3, StaysRestored DEF RestoreInv
<1> QED
  BY <1>1, <1>2, <1>3, <1>4 DEF Next

\* A restoration that succeeds has put back what one backup found, each file as
\* its digest says, although containers of several backups may be mixed and may
\* be damaged meanwhile - for all paths, shared or not, and all lengths.
THEOREM RestoresOneBackup == Spec => []RestoredIsOneBackup
<1>1. Init => TypeInv /\ RestoreInv
  BY InitTypeInv, StaysRestored DEF Init, RestoreInv, Restoring, RestoredIsOneBackup
<1>2. TypeInv /\ RestoreInv /\ [Next]_vars => (TypeInv /\ RestoreInv)'
  BY NextTypeInv, NextRestoreInv
<1>3. RestoreInv => RestoredIsOneBackup
  BY DEF RestoreInv
<1> QED
  BY <1>1, <1>2, <1>3, PTL DEF Spec

-----------------------------------------------------------------------------
(* What a restoration leaves.                                               *)

Promise(p) == {used.entries[i].version :
                 i \in {j \in DOMAIN used.entries : used.entries[j].path = p}}
Settled(p) == out[p] \in {before[p]} \cup Promise(p)
Unhurt == failed \cap {"call", "crash"} = {}

DoubtInv ==
  used # NoManifest =>
    /\ pc \in Restoring => \A p \in Paths :
         Settled(p) \/ (pc \in {"decrypt", "verify"} /\ p = Entry.path)
    /\ pc = "decrypt" => out[Entry.path] = Part
    /\ pc \notin Restoring => \E q : \A p \in Paths :
         Settled(p) \/ (p = q /\ (Unhurt => out[p] \in {Absent, Part}))

LEMMA SameSettled ==
  ASSUME UNCHANGED <<used, before>>, NEW p, out'[p] = out[p]
  PROVE  Settled(p)' <=> Settled(p)
  BY DEF Settled, Promise

LEMMA RestoreStepDoubt == TypeInv /\ RestoreInv /\ DoubtInv /\ RestoreStep => DoubtInv'
<1> SUFFICES ASSUME TypeInv, RestoreInv, DoubtInv, RestoreStep PROVE DoubtInv'
  OBVIOUS
<1>1. CASE StartsRestore
  <2>1. before' = out /\ out' = out /\ pc' = "target"
    BY <1>1 DEF StartsRestore, diskVars, Goto
  <2>2. \A p \in Paths : Settled(p)'
    BY <2>1 DEF Settled
  <2> QED
    BY <2>1, <2>2 DEF DoubtInv, Restoring
<1>2. ASSUME pc \in Restoring
      PROVE  RestInv /\ used # NoManifest
  BY <1>2, MarkersAssumption DEF RestoreInv, RestInv
<1>3. CASE ContainerMissing \/ DecryptionFails
  <2>1. /\ pc \in {"target", "decrypt"} /\ pc' = "idle"
        /\ UNCHANGED <<out, used, before, failed>>
    BY <1>3 DEF ContainerMissing, DecryptionFails, Return, Goto, KeepsDisk, diskVars,
       historyVars, boundVars
  <2>2. /\ \A p \in Paths : Settled(p) \/ (pc = "decrypt" /\ p = Entry.path)
        /\ pc = "decrypt" => out[Entry.path] = Part
    BY <1>2, <2>1 DEF DoubtInv, Restoring
  <2>3. \A p \in Paths : Settled(p)' \/ (p = Entry.path /\ out'[p] \in {Absent, Part})
    BY <2>1, <2>2, SameSettled
  <2> QED
    BY <2>1, <2>3 DEF DoubtInv, Restoring
<1>4. CASE CreatesTarget
  <2>1. /\ pc = "target" /\ pc' = "decrypt" /\ entries # <<>>
        /\ out' = [out EXCEPT ![Entry.path] = Part]
        /\ UNCHANGED <<used, before, entries>>
    BY <1>4 DEF CreatesTarget, Goto, historyVars
  <2>2. Entry.path \in Paths /\ Entry' = Entry
    BY <2>1, EntryType DEF Entry
  <2>3. \A p \in Paths : Settled(p)
    BY <1>2, <2>1 DEF DoubtInv, Restoring
  <2>4. \A p \in Paths : p # Entry.path => Settled(p)'
    BY <2>1, <2>3, SameSettled DEF TypeInv, TypeOK
  <2>5. out'[Entry.path] = Part
    BY <2>1, <2>2 DEF TypeInv, TypeOK
  <2> QED
    BY <2>1, <2>2, <2>4, <2>5 DEF DoubtInv, Restoring
<1>5. CASE Decrypts
  <2>1. /\ pc = "decrypt" /\ pc' = "verify"
        /\ out' = [out EXCEPT ![Entry.path] = box[Entry.path].version]
        /\ UNCHANGED <<used, before, entries>>
    BY <1>5 DEF Decrypts, Goto, historyVars
  <2>2. Entry' = Entry
    BY <2>1 DEF Entry
  <2>3. \A p \in Paths : Settled(p) \/ p = Entry.path
    BY <1>2, <2>1 DEF DoubtInv, Restoring
  <2>4. \A p \in Paths : p # Entry.path => Settled(p)'
    BY <2>1, <2>3, SameSettled DEF TypeInv, TypeOK
  <2> QED
    BY <2>1, <2>2, <2>4 DEF DoubtInv, Restoring
<1>6. CASE Verifies
  <2>1. /\ pc = "verify" /\ pc' = "target" /\ entries # <<>> /\ out[Entry.path] = Entry.version
        /\ UNCHANGED <<out, used, before>>
    BY <1>6 DEF Verifies, Matches, Goto, KeepsDisk, diskVars, historyVars, TypeInv, FileInv
  <2>2. \A p \in Paths : Settled(p) \/ p = Entry.path
    BY <1>2, <2>1 DEF DoubtInv, Restoring
  <2>3. Entry.version \in Promise(Entry.path)
    BY <1>2, <2>1, EntryAt DEF Promise, Restoring
  <2>4. \A p \in Paths : Settled(p)
    BY <2>1, <2>2, <2>3 DEF Settled
  <2>5. \A p \in Paths : Settled(p)'
    BY <2>1, <2>4, SameSettled
  <2> QED
    BY <2>1, <2>5 DEF DoubtInv, Restoring
<1>7. CASE VerificationFails
  <2>1. /\ pc = "verify" /\ pc' = "idle" /\ entries # <<>>
        /\ out' = [out EXCEPT ![Entry.path] = Absent]
        /\ UNCHANGED <<used, before>>
    BY <1>7 DEF VerificationFails, Removed, Return, Goto, historyVars, TypeInv, FileInv
  <2>2. \A p \in Paths : Settled(p) \/ p = Entry.path
    BY <1>2, <2>1 DEF DoubtInv, Restoring
  <2>3. \A p \in Paths : p # Entry.path => Settled(p)'
    BY <2>1, <2>2, SameSettled DEF TypeInv, TypeOK
  <2>4. Entry.path \in Paths /\ out'[Entry.path] = Absent
    BY <2>1, EntryType DEF TypeInv, TypeOK
  <2> QED
    BY <2>1, <2>3, <2>4 DEF DoubtInv, Restoring
<1>8. CASE Succeeds
  <2>1. pc = "target" /\ pc' = "idle" /\ UNCHANGED <<out, used, before>>
    BY <1>8 DEF Succeeds, Return, Goto, diskVars
  <2>2. \A p \in Paths : Settled(p)
    BY <1>2, <2>1 DEF DoubtInv, Restoring
  <2>3. \A p \in Paths : Settled(p)'
    BY <2>1, <2>2, SameSettled
  <2> QED
    BY <2>1, <2>3 DEF DoubtInv, Restoring
<1> QED
  BY <1>1, <1>3, <1>4, <1>5, <1>6, <1>7, <1>8 DEF RestoreStep

\* What is in doubt stays so if nothing is restored.
LEMMA StaysInDoubt ==
  ASSUME DoubtInv, UNCHANGED <<out, used, before>>, failed \subseteq failed',
         pc \notin Restoring, pc' \notin Restoring
  PROVE  DoubtInv'
<1> SUFFICES ASSUME used # NoManifest PROVE DoubtInv'
  BY DEF DoubtInv
<1>1. PICK q : \A p \in Paths :
        Settled(p) \/ (p = q /\ (Unhurt => out[p] \in {Absent, Part}))
  BY DEF DoubtInv
<1>2. Unhurt' => Unhurt
  BY DEF Unhurt
<1>3. \A p \in Paths :
        Settled(p)' \/ (p = q /\ (Unhurt' => out'[p] \in {Absent, Part}))
  BY <1>1, <1>2, SameSettled
<1> QED
  BY <1>3 DEF DoubtInv, Restoring

LEMMA NextDoubtInv == TypeInv /\ RestoreInv /\ DoubtInv /\ [Next]_vars => DoubtInv'
<1> SUFFICES ASSUME TypeInv, RestoreInv, DoubtInv, [Next]_vars PROVE DoubtInv'
  OBVIOUS
<1>1. CASE RestoreStep
  BY <1>1, RestoreStepDoubt
<1>2. CASE BackupStep
  <2>1. /\ UNCHANGED <<out, used, before>> /\ failed \subseteq failed'
        /\ pc \notin Restoring /\ pc' \notin Restoring
    BY <1>2 DEF BackupStep, StartsBackup, PassesOver, Starts, Fault, Hashes, FileVanished,
       CreatesContainer, Seals, CreatesManifest, SealsManifest, KeepsDisk, diskVars,
       historyVars, boundVars, Return, Goto, Restoring
  <2> QED
    BY <2>1, StaysInDoubt
<1>3. CASE CallFails \/ Crash
  <2>1. /\ UNCHANGED <<out, used, before>> /\ failed \subseteq failed' /\ pc' = "idle"
        /\ ~Unhurt'
    BY <1>3 DEF CallFails, Crash, Fault, KeepsDisk, diskVars, historyVars, Return, Goto, Unhurt
  <2>2. CASE pc \notin Restoring
    BY <2>1, <2>2, StaysInDoubt DEF Restoring
  <2>3. CASE pc \in Restoring
    <3> SUFFICES ASSUME used # NoManifest PROVE DoubtInv'
      BY <2>1 DEF DoubtInv
    <3>1. \A p \in Paths : Settled(p) \/ p = Entry.path
      BY <2>3 DEF DoubtInv
    <3>2. \A p \in Paths : Settled(p)' \/ p = Entry.path
      BY <2>1, <3>1, SameSettled
    <3> QED
      BY <2>1, <3>2 DEF DoubtInv, Restoring
  <2> QED
    BY <2>2, <2>3
<1>4. CASE (\E f \in Files : Write(f)) \/ (\E p \in Paths : Damage(p)) \/ UNCHANGED vars
  <2>1. /\ UNCHANGED <<out, used, before, pc, entries>> /\ failed \subseteq failed'
    BY <1>4 DEF Write, Damage, Fault, vars, diskVars, workVars, historyVars, boundVars
  <2>2. CASE pc \notin Restoring
    BY <2>1, <2>2, StaysInDoubt
  <2>3. CASE pc \in Restoring
    <3>1. Entry' = Entry /\ \A p \in Paths : Settled(p)' <=> Settled(p)
      BY <2>1, SameSettled DEF Entry
    <3> QED
      BY <2>1, <2>3, <3>1 DEF DoubtInv
  <2> QED
    BY <2>2, <2>3
<1> QED
  BY <1>1, <1>2, <1>3, <1>4 DEF Next

\* What a restoration leaves, successful or not: every file as it was before or
\* as the manifest says, but for one, which is cut off or missing, or unverified
\* if the process ended or the check could not be made - however many files
\* there are and wherever it stopped.
THEOREM OneInDoubt == Spec => []OneTargetInDoubt
<1>1. Init => TypeInv /\ RestoreInv /\ DoubtInv
  BY InitTypeInv DEF Init, RestoreInv, Restoring, RestoredIsOneBackup, DoubtInv
<1>2. TypeInv /\ RestoreInv /\ DoubtInv /\ [Next]_vars => (TypeInv /\ RestoreInv /\ DoubtInv)'
  BY NextTypeInv, NextRestoreInv, NextDoubtInv
<1>3. DoubtInv => OneTargetInDoubt
  <2> DEFINE InDoubt == {p \in Paths : out[p] \notin {before[p]} \cup Promise(p)}
  <2> SUFFICES ASSUME DoubtInv, used # NoManifest
               PROVE  /\ Cardinality(InDoubt) <= 1
                      /\ pc = "idle" /\ failed \cap {"call", "crash"} = {} =>
                           \A p \in InDoubt : out[p] \in {Absent, Part}
    BY DEF OneTargetInDoubt, Promise
  <2>1. \E q : InDoubt \subseteq {q}
    <3>1. CASE pc \in Restoring
      BY <3>1 DEF DoubtInv, Settled
    <3>2. CASE pc \notin Restoring
      BY <3>2 DEF DoubtInv, Settled
    <3> QED
      BY <3>1, <3>2
  <2>2. Cardinality(InDoubt) <= 1
    <3>1. PICK q : InDoubt \subseteq {q}
      BY <2>1
    <3>2. IsFiniteSet({q}) /\ Cardinality({q}) = 1
      BY FS_Singleton
    <3> HIDE DEF InDoubt
    <3> QED
      BY <3>1, <3>2, FS_Subset
  <2>3. ASSUME pc = "idle", Unhurt, NEW p \in InDoubt PROVE out[p] \in {Absent, Part}
    BY <2>3 DEF DoubtInv, Settled, Restoring
  <2> QED
    BY <2>2, <2>3 DEF Unhurt
<1> QED
  BY <1>1, <1>2, <1>3, PTL DEF Spec

-----------------------------------------------------------------------------
(* What a backup holds.                                                     *)

Present(f) == f \in Sealable /\ origin[f] # Absent
Alone(f) == Present(f) /\ \A g \in Sealable : Present(g) /\ Path[g] = Path[f] => g = f
Coming(f) == \E i \in DOMAIN files : files[i] = f
WrittenDown(f) == \E i \in DOMAIN entries : entries[i].path = Path[f]

\* Every file is still to come or written down; what is written down of a file
\* whose path no other has, and its container, are as it was.
HoldsInv ==
  pc \in Sealing /\ quiet =>
    /\ src = origin
    /\ pc \in {"create", "seal"} => digest = origin[File]
    /\ pc = "seal" => seen = origin[File]
    /\ \A f \in Sealable : Present(f) => Coming(f) \/ WrittenDown(f)
    /\ \A f \in Sealable : Alone(f) =>
         /\ \A i \in DOMAIN entries : entries[i].path = Path[f] => entries[i].version = origin[f]
         /\ Coming(f) \/ box[Path[f]] = [version |-> origin[f], key |-> key]

GoodInv == HoldsInv /\ GoodBackupRestores

LEMMA StaysGood ==
  GoodBackupRestores /\ UNCHANGED <<box, manifest, origin, good>> => GoodBackupRestores'
  BY DEF GoodBackupRestores

LEMMA NotGood == ~good' => GoodBackupRestores'
  BY DEF GoodBackupRestores

LEMMA SealingGood == TypeInv /\ GoodInv /\ BackupStep => GoodInv'
<1> SUFFICES ASSUME TypeInv, GoodInv, BackupStep PROVE GoodInv'
  OBVIOUS
<1>1. ASSUME NEW L \in SUBSET Listed, Starts(L) PROVE GoodInv'
  <2>1. /\ ~good' /\ origin' = src /\ pc' = "hash" /\ entries' = <<>>
        /\ UNCHANGED <<src, box>> /\ quiet' = (L = Listed)
    BY <1>1 DEF Starts, Goto, diskVars, TypeInv, FileInv
  <2>2. L \in SUBSET Sealable
    BY DEF Listed, Sealable
  <2>3. ASSUME quiet', NEW f \in Sealable, Present(f)' PROVE Coming(f)'
    <3>1. f \in L
      BY <2>1, <2>3 DEF Present, Listed, Sealable
    <3> QED
      BY <1>1, <2>2, <3>1, ListedSeq DEF Starts, Coming
  <2>4. HoldsInv'
    BY <2>1, <2>3 DEF HoldsInv, Alone
  <2> QED
    BY <2>1, <2>4, NotGood DEF GoodInv
<1>2. CASE StartsBackup
  BY <1>1, <1>2 DEF StartsBackup
<1>3. CASE PassesOver
  <2>1. PICK f \in Listed : Starts(Listed \ {f})
    BY <1>3 DEF PassesOver
  <2> QED
    BY <1>1, <2>1
<1>4. CASE Hashes
  <2>1. /\ pc = "hash" /\ pc' = "create" /\ digest' = src[File]
        /\ UNCHANGED <<diskVars, historyVars, key, files, entries>>
    BY <1>4 DEF Hashes, Goto, KeepsDisk
  <2>2. HoldsInv'
    BY <2>1 DEF GoodInv, HoldsInv, Sealing, diskVars, historyVars, File, Present, Alone,
       Coming, WrittenDown
  <2> QED
    BY <2>1, <2>2, StaysGood DEF GoodInv, diskVars, historyVars
<1>5. CASE FileVanished
  <2>1. pc' = "idle" /\ UNCHANGED <<box, manifest, origin, good>>
    BY <1>5 DEF FileVanished, Return, Goto, KeepsDisk, diskVars, historyVars
  <2> QED
    BY <2>1, StaysGood DEF GoodInv, HoldsInv, Sealing
<1>6. CASE CreatesContainer
  <2>1. /\ pc = "create" /\ pc' = "seal" /\ files # <<>> /\ src[File] # Absent
        /\ seen' = src[File] /\ box' = [box EXCEPT ![Path[File]] = Part] /\ ~good'
        /\ UNCHANGED <<src, origin, quiet, key, files, entries, digest>>
    BY <1>6 DEF CreatesContainer, Goto, TypeInv, FileInv
  <2> SUFFICES ASSUME quiet PROVE HoldsInv'
    BY <2>1, NotGood DEF GoodInv, HoldsInv
  <2>2. File \in Sealable /\ File' = File /\ Coming(File)
    <3>1. File = files[1] /\ 1 \in DOMAIN files
      BY <2>1, InTail DEF File, TypeInv
    <3> QED
      BY <2>1, <3>1, FileType DEF File, Coming
  <2>3. /\ src = origin /\ digest = origin[File]
        /\ \A f \in Sealable : Present(f) => Coming(f) \/ WrittenDown(f)
        /\ \A f \in Sealable : Alone(f) =>
             /\ \A i \in DOMAIN entries : entries[i].path = Path[f] => entries[i].version = origin[f]
             /\ Coming(f) \/ box[Path[f]] = [version |-> origin[f], key |-> key]
    BY <2>1 DEF GoodInv, HoldsInv, Sealing
  <2>4. /\ \A f : Present(f)' <=> Present(f)
        /\ \A f : Alone(f)' <=> Alone(f)
        /\ \A f : (Coming(f)' <=> Coming(f)) /\ (WrittenDown(f)' <=> WrittenDown(f))
    BY <2>1 DEF Present, Alone, Coming, WrittenDown
  <2>5. ASSUME NEW f \in Sealable, Alone(f)
        PROVE  Coming(f) \/ box'[Path[f]] = [version |-> origin[f], key |-> key]
    <3>1. Present(File)
      BY <2>1, <2>2, <2>3 DEF Present
    <3>2. CASE Path[File] = Path[f]
      <4>1. f = File
        BY <2>2, <2>5, <3>1, <3>2 DEF Alone
      <4> QED
        BY <2>2, <4>1
    <3>3. CASE Path[File] # Path[f]
      BY <2>1, <2>3, <2>5, <3>3, PathType DEF TypeInv, TypeOK
    <3> QED
      BY <3>2, <3>3
  <2> QED
    BY <2>1, <2>2, <2>3, <2>4, <2>5 DEF HoldsInv
<1>7. CASE Seals
  <2> DEFINE e == [path |-> Path[File], version |-> digest]
  <2>1. /\ pc = "seal" /\ pc' = "hash" /\ files # <<>>
        /\ entries' = Append(entries, e) /\ files' = Tail(files)
        /\ UNCHANGED <<src, origin, quiet, good, manifest, key>>
    BY <1>7 DEF Seals, Goto, historyVars, TypeInv, FileInv
  <2>0. File \in Sealable /\ File \in Files /\ e \in Entries
    BY <2>1, FileType, PathType DEF Entries, TypeInv, TypeOK
  <2>2. PICK v \in {seen, src[File]} \ {Absent} :
          box' = [box EXCEPT ![Path[File]] = [version |-> v, key |-> key]]
    BY <1>7 DEF Seals
  <2>3. ~good
    BY <2>1 DEF TypeInv, FileInv
  <2>4. /\ \A i \in DOMAIN entries' :
             (i \in DOMAIN entries /\ entries'[i] = entries[i]) \/ entries'[i] = e
        /\ \A i \in DOMAIN entries : i \in DOMAIN entries' /\ entries'[i] = entries[i]
        /\ \E i \in DOMAIN entries' : entries'[i] = e
    <3>1. entries \in Seq(Entries)
      BY DEF TypeInv, TypeOK
    <3> HIDE DEF e
    <3> QED
      BY <2>0, <2>1, <3>1, Appended
  <2>5. \A f : Coming(f) => f = File \/ Coming(f)'
    <3> SUFFICES ASSUME NEW f, Coming(f), f # File PROVE Coming(f)'
      OBVIOUS
    <3>1. PICK i \in DOMAIN files : files[i] = f
      BY DEF Coming
    <3>2. i # 1
      BY <2>1, <3>1, InTail DEF File, TypeInv
    <3>3. i - 1 \in DOMAIN files' /\ files'[i - 1] = f
      BY <2>1, <3>1, <3>2, InTail DEF TypeInv
    <3> QED
      BY <3>3 DEF Coming
  <2> SUFFICES ASSUME quiet PROVE HoldsInv'
    BY <2>1, <2>3, NotGood DEF GoodInv, HoldsInv
  <2>6. /\ src = origin /\ digest = origin[File] /\ v = origin[File]
        /\ \A f \in Sealable : Present(f) => Coming(f) \/ WrittenDown(f)
        /\ \A f \in Sealable : Alone(f) =>
             /\ \A i \in DOMAIN entries : entries[i].path = Path[f] => entries[i].version = origin[f]
             /\ Coming(f) \/ box[Path[f]] = [version |-> origin[f], key |-> key]
    BY <2>1, <2>2 DEF GoodInv, HoldsInv, Sealing
  <2>7. Present(File)
    BY <2>0, <2>2, <2>6 DEF Present
  <2>8. (\A f : Present(f)' <=> Present(f)) /\ (\A f : Alone(f)' <=> Alone(f))
    BY <2>1 DEF Present, Alone
  <2>9. ASSUME NEW f \in Sealable, Present(f) PROVE Coming(f)' \/ WrittenDown(f)'
    <3>1. e.path = Path[File]
      OBVIOUS
    <3> HIDE DEF e
    <3> QED
      BY <2>4, <2>5, <2>6, <2>9, <3>1 DEF WrittenDown
  <2>10. ASSUME NEW f \in Sealable, Alone(f)
         PROVE  /\ \A i \in DOMAIN entries' :
                      entries'[i].path = Path[f] => entries'[i].version = origin[f]
                /\ Coming(f)' \/ box'[Path[f]] = [version |-> origin[f], key |-> key]
    <3>1. Path[File] = Path[f] => f = File
      BY <2>0, <2>7, <2>10 DEF Alone
    <3>2. ASSUME NEW i \in DOMAIN entries', entries'[i].path = Path[f]
          PROVE  entries'[i].version = origin[f]
      <4>1. CASE i \in DOMAIN entries /\ entries'[i] = entries[i]
        BY <2>6, <2>10, <3>2, <4>1
      <4>2. CASE entries'[i] = e
        BY <2>6, <3>1, <3>2, <4>2
      <4> QED
        BY <2>4, <4>1, <4>2
    <3>3. CASE f = File
      BY <2>0, <2>2, <2>6, <3>2, <3>3, PathType DEF TypeInv, TypeOK
    <3>4. CASE f # File
      <4>1. box'[Path[f]] = box[Path[f]]
        BY <2>2, <3>1, <3>4, PathType DEF TypeInv, TypeOK
      <4> QED
        BY <2>5, <2>6, <2>10, <3>2, <3>4, <4>1
    <3> QED
      BY <3>2, <3>3, <3>4
  <2> QED
    BY <2>1, <2>6, <2>8, <2>9, <2>10 DEF HoldsInv
<1>8. CASE CreatesManifest
  <2>1. /\ pc = "hash" /\ pc' = "sealManifest" /\ ~good'
        /\ UNCHANGED <<src, origin, box, quiet, key, files, entries>>
    BY <1>8 DEF CreatesManifest, Goto
  <2>2. HoldsInv'
    BY <2>1 DEF GoodInv, HoldsInv, Sealing, Present, Alone, Coming, WrittenDown
  <2> QED
    BY <2>1, <2>2, NotGood DEF GoodInv
<1>9. CASE SealsManifest
  <2>1. /\ pc = "sealManifest" /\ pc' = "idle" /\ files = <<>> /\ good' = quiet
        /\ manifest' = [entries |-> entries, key |-> key]
        /\ UNCHANGED <<origin, box>>
    BY <1>9 DEF SealsManifest, Return, Goto, TypeInv, FileInv
  <2>2. manifest' \in Manifests /\ manifest'.entries = entries /\ manifest'.key = key
    BY <2>1 DEF Manifests, TypeInv, TypeOK
  <2> SUFFICES ASSUME quiet PROVE GoodBackupRestores'
    BY <2>1, NotGood DEF GoodInv, HoldsInv, Sealing
  <2>3. \A f : ~Coming(f)
    BY <2>1 DEF Coming
  <2>4. /\ \A f \in Sealable : Present(f) => WrittenDown(f)
        /\ \A f \in Sealable : Alone(f) =>
             /\ \A i \in DOMAIN entries : entries[i].path = Path[f] => entries[i].version = origin[f]
             /\ box[Path[f]] = [version |-> origin[f], key |-> key]
    BY <2>1, <2>3 DEF GoodInv, HoldsInv, Sealing
  <2> QED
    BY <2>1, <2>2, <2>4 DEF GoodBackupRestores, Present, Alone, WrittenDown, Sealable
<1> QED
  BY <1>2, <1>3, <1>4, <1>5, <1>6, <1>7, <1>8, <1>9 DEF BackupStep

LEMMA NextGoodInv == TypeInv /\ GoodInv /\ [Next]_vars => GoodInv'
<1> SUFFICES ASSUME TypeInv, GoodInv, [Next]_vars PROVE GoodInv'
  OBVIOUS
<1>1. CASE BackupStep
  BY <1>1, SealingGood
<1>2. CASE RestoreStep \/ CallFails \/ Crash
  <2>1. pc' \notin Sealing /\ UNCHANGED <<box, manifest, origin, good>>
    BY <1>2 DEF RestoreStep, StartsRestore, ContainerMissing, CreatesTarget, Decrypts,
       DecryptionFails, Verifies, VerificationFails, Succeeds, CallFails, Crash, KeepsDisk,
       diskVars, historyVars, Return, Goto, Sealing
  <2> QED
    BY <2>1, StaysGood DEF GoodInv, HoldsInv
<1>3. CASE \E f \in Files : Write(f)
  <2>1. ~quiet' /\ UNCHANGED <<box, manifest, origin, good>>
    BY <1>3 DEF Write
  <2> QED
    BY <2>1, StaysGood DEF GoodInv, HoldsInv
<1>4. CASE \E p \in Paths : Damage(p)
  <2>1. ~quiet' /\ ~good'
    BY <1>4 DEF Damage
  <2> QED
    BY <2>1, NotGood DEF GoodInv, HoldsInv
<1>5. CASE UNCHANGED vars
  <2>1. HoldsInv'
    BY <1>5 DEF vars, diskVars, workVars, historyVars, GoodInv, HoldsInv, Present, Alone,
       Coming, WrittenDown, File
  <2> QED
    BY <1>5, <2>1, StaysGood DEF vars, diskVars, historyVars, GoodInv
<1> QED
  BY <1>1, <1>2, <1>3, <1>4, <1>5 DEF Next

\* A backup that returned without an error, from a folder that was listed in full
\* and not written to, holds every file of it and can be restored while it lies
\* untouched: for all folders, and whatever backups it was made over.
THEOREM GoodBackups == Spec => []GoodBackupRestores
<1>1. Init => TypeInv /\ GoodInv
  BY InitTypeInv DEF Init, GoodInv, HoldsInv, Sealing, GoodBackupRestores
<1>2. TypeInv /\ GoodInv /\ [Next]_vars => (TypeInv /\ GoodInv)'
  BY NextTypeInv, NextGoodInv
<1>3. GoodInv => GoodBackupRestores
  BY DEF GoodInv
<1> QED
  BY <1>1, <1>2, <1>3, PTL DEF Spec
=============================================================================
