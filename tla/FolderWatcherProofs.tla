------------------------ MODULE FolderWatcherProofs ------------------------
(***************************************************************************)
(* The two safety properties of FolderWatcher, what becomes of containers  *)
(* that are written again, and the end of every poll, proved for any set   *)
(* of files, any number of writes and any number of faults.                *)
(***************************************************************************)
EXTENDS FolderWatcher, FiniteSetTheorems, TLAPS

\* Every step keeps the variables in their types.
LEMMA TypeStep ==
  ASSUME TypeOK, JobInv,
         [Next]_vars
  PROVE  TypeOK'
<1> USE FilesAssumption, SizesAssumption, BoundsAssumption, ConfigAssumption
       DEF TypeOK, Absent, Remains, Writes, JobInv, Handling, diskVars,
       memoryVars, jobVars, historyVars, boundVars, EncryptedAt, NotProcessed,
       Unprocessed, Mark
<1>1. ASSUME NEW f \in Files, Write(f) PROVE TypeOK'
  BY <1>1 DEF Write
<1>2. ASSUME NEW f \in Files, Delete(f) PROVE TypeOK'
  BY <1>2 DEF Delete
<1>3. CASE Polls
  BY <1>3 DEF Polls
<1>4. ASSUME NEW f \in Files, PassesOver(f) PROVE TypeOK'
  BY <1>4 DEF PassesOver
<1>5. ASSUME NEW f \in Files, Notes(f) PROVE TypeOK'
  BY <1>5 DEF Notes, ToBeEncrypted
<1>6. ASSUME NEW f \in Files, Takes(f) PROVE TypeOK'
  BY <1>6 DEF Takes, ToBeEncrypted
<1>7. CASE Encrypts
  BY <1>7 DEF Encrypts
<1>8. CASE FailsToEncrypt
  BY <1>8 DEF FailsToEncrypt, Fault, Drops
<1>9. CASE Commits
  BY <1>9 DEF Commits
<1>10. CASE FailsToCommit
  BY <1>10 DEF FailsToCommit, Fault
<1>11. CASE Keeps
  BY <1>11 DEF Keeps
<1>12. CASE Overwrites
  BY <1>12 DEF Overwrites, Wipe
<1>13. CASE CannotOverwrite
  BY <1>13 DEF CannotOverwrite, Fault
<1>14. CASE Unlinks
  BY <1>14 DEF Unlinks, Wipe
<1>15. CASE FailsToUnlink
  BY <1>15 DEF FailsToUnlink, Fault
<1>16. CASE Records
  BY <1>16 DEF Records, Drops
<1>17. CASE EndsPoll
  BY <1>17 DEF EndsPoll
<1>18. CASE Crash
  BY <1>18 DEF Crash, Fault
<1>19. CASE UNCHANGED vars
  BY <1>19 DEF vars
<1> QED
  BY <1>1, <1>2, <1>3, <1>4, <1>5, <1>6, <1>7, <1>8, <1>9, <1>10, <1>11,
     <1>12, <1>13, <1>14, <1>15, <1>16, <1>17, <1>18, <1>19 DEF Next,
     WorkerStep

\* A write gets a number that nothing refers to yet.
LEMMA OrderStep ==
  ASSUME TypeOK, JobInv, OrderInv,
         [Next]_vars
  PROVE  OrderInv'
<1> USE FilesAssumption, SizesAssumption, BoundsAssumption, ConfigAssumption
       DEF TypeOK, Absent, Remains, Writes, OrderInv, JobInv, Handling,
       diskVars, memoryVars, jobVars, historyVars, boundVars, EncryptedAt,
       NotProcessed, Unprocessed, Mark
<1>1. ASSUME NEW f \in Files, Write(f) PROVE OrderInv'
  BY <1>1 DEF Write
<1>2. ASSUME NEW f \in Files, Delete(f) PROVE OrderInv'
  BY <1>2 DEF Delete
<1>3. CASE Polls
  BY <1>3 DEF Polls
<1>4. ASSUME NEW f \in Files, PassesOver(f) PROVE OrderInv'
  BY <1>4 DEF PassesOver
<1>5. ASSUME NEW f \in Files, Notes(f) PROVE OrderInv'
  BY <1>5 DEF Notes, ToBeEncrypted
<1>6. ASSUME NEW f \in Files, Takes(f) PROVE OrderInv'
  BY <1>6 DEF Takes, ToBeEncrypted
<1>7. CASE Encrypts
  BY <1>7 DEF Encrypts
<1>8. CASE FailsToEncrypt
  BY <1>8 DEF FailsToEncrypt, Fault, Drops
<1>9. CASE Commits
  BY <1>9 DEF Commits
<1>10. CASE FailsToCommit
  BY <1>10 DEF FailsToCommit, Fault
<1>11. CASE Keeps
  BY <1>11 DEF Keeps
<1>12. CASE Overwrites
  BY <1>12 DEF Overwrites, Wipe
<1>13. CASE CannotOverwrite
  BY <1>13 DEF CannotOverwrite, Fault
<1>14. CASE Unlinks
  BY <1>14 DEF Unlinks, Wipe
<1>15. CASE FailsToUnlink
  BY <1>15 DEF FailsToUnlink, Fault
<1>16. CASE Records
  BY <1>16 DEF Records, Drops
<1>17. CASE EndsPoll
  BY <1>17 DEF EndsPoll
<1>18. CASE Crash
  BY <1>18 DEF Crash, Fault
<1>19. CASE UNCHANGED vars
  BY <1>19 DEF vars
<1> QED
  BY <1>1, <1>2, <1>3, <1>4, <1>5, <1>6, <1>7, <1>8, <1>9, <1>10, <1>11,
     <1>12, <1>13, <1>14, <1>15, <1>16, <1>17, <1>18, <1>19 DEF Next,
     WorkerStep

\* A file is handled from when it is found stable until it is reported.
LEMMA JobStep ==
  ASSUME TypeOK, JobInv,
         [Next]_vars
  PROVE  JobInv'
<1> USE FilesAssumption, SizesAssumption, BoundsAssumption, ConfigAssumption
       DEF TypeOK, Absent, Remains, Writes, JobInv, Handling, diskVars,
       memoryVars, jobVars, historyVars, boundVars, EncryptedAt, NotProcessed,
       Unprocessed, Mark
<1>1. ASSUME NEW f \in Files, Write(f) PROVE JobInv'
  BY <1>1 DEF Write
<1>2. ASSUME NEW f \in Files, Delete(f) PROVE JobInv'
  BY <1>2 DEF Delete
<1>3. CASE Polls
  BY <1>3 DEF Polls
<1>4. ASSUME NEW f \in Files, PassesOver(f) PROVE JobInv'
  BY <1>4 DEF PassesOver
<1>5. ASSUME NEW f \in Files, Notes(f) PROVE JobInv'
  BY <1>5 DEF Notes, ToBeEncrypted
<1>6. ASSUME NEW f \in Files, Takes(f) PROVE JobInv'
  BY <1>6 DEF Takes, ToBeEncrypted
<1>7. CASE Encrypts
  BY <1>7 DEF Encrypts
<1>8. CASE FailsToEncrypt
  BY <1>8 DEF FailsToEncrypt, Fault, Drops
<1>9. CASE Commits
  BY <1>9 DEF Commits
<1>10. CASE FailsToCommit
  BY <1>10 DEF FailsToCommit, Fault
<1>11. CASE Keeps
  BY <1>11 DEF Keeps
<1>12. CASE Overwrites
  BY <1>12 DEF Overwrites, Wipe
<1>13. CASE CannotOverwrite
  BY <1>13 DEF CannotOverwrite, Fault
<1>14. CASE Unlinks
  BY <1>14 DEF Unlinks, Wipe
<1>15. CASE FailsToUnlink
  BY <1>15 DEF FailsToUnlink, Fault
<1>16. CASE Records
  BY <1>16 DEF Records, Drops
<1>17. CASE EndsPoll
  BY <1>17 DEF EndsPoll
<1>18. CASE Crash
  BY <1>18 DEF Crash, Fault
<1>19. CASE UNCHANGED vars
  BY <1>19 DEF vars
<1> QED
  BY <1>1, <1>2, <1>3, <1>4, <1>5, <1>6, <1>7, <1>8, <1>9, <1>10, <1>11,
     <1>12, <1>13, <1>14, <1>15, <1>16, <1>17, <1>18, <1>19 DEF Next,
     WorkerStep

\* Keeping and shredding do not mix.
LEMMA ModeStep ==
  ASSUME TypeOK, JobInv, ModeInv,
         [Next]_vars
  PROVE  ModeInv'
<1> USE FilesAssumption, SizesAssumption, BoundsAssumption, ConfigAssumption
       DEF TypeOK, Absent, Remains, Writes, ModeInv, JobInv, Handling,
       diskVars, memoryVars, jobVars, historyVars, boundVars, EncryptedAt,
       NotProcessed, Unprocessed, Mark
<1>1. ASSUME NEW f \in Files, Write(f) PROVE ModeInv'
  BY <1>1 DEF Write
<1>2. ASSUME NEW f \in Files, Delete(f) PROVE ModeInv'
  BY <1>2 DEF Delete
<1>3. CASE Polls
  BY <1>3 DEF Polls
<1>4. ASSUME NEW f \in Files, PassesOver(f) PROVE ModeInv'
  BY <1>4 DEF PassesOver
<1>5. ASSUME NEW f \in Files, Notes(f) PROVE ModeInv'
  BY <1>5 DEF Notes, ToBeEncrypted
<1>6. ASSUME NEW f \in Files, Takes(f) PROVE ModeInv'
  BY <1>6 DEF Takes, ToBeEncrypted
<1>7. CASE Encrypts
  BY <1>7 DEF Encrypts
<1>8. CASE FailsToEncrypt
  BY <1>8 DEF FailsToEncrypt, Fault, Drops
<1>9. CASE Commits
  BY <1>9 DEF Commits
<1>10. CASE FailsToCommit
  BY <1>10 DEF FailsToCommit, Fault
<1>11. CASE Keeps
  BY <1>11 DEF Keeps
<1>12. CASE Overwrites
  BY <1>12 DEF Overwrites, Wipe
<1>13. CASE CannotOverwrite
  BY <1>13 DEF CannotOverwrite, Fault
<1>14. CASE Unlinks
  BY <1>14 DEF Unlinks, Wipe
<1>15. CASE FailsToUnlink
  BY <1>15 DEF FailsToUnlink, Fault
<1>16. CASE Records
  BY <1>16 DEF Records, Drops
<1>17. CASE EndsPoll
  BY <1>17 DEF EndsPoll
<1>18. CASE Crash
  BY <1>18 DEF Crash, Fault
<1>19. CASE UNCHANGED vars
  BY <1>19 DEF vars
<1> QED
  BY <1>1, <1>2, <1>3, <1>4, <1>5, <1>6, <1>7, <1>8, <1>9, <1>10, <1>11,
     <1>12, <1>13, <1>14, <1>15, <1>16, <1>17, <1>18, <1>19 DEF Next,
     WorkerStep

\* What was found stable and is still there is what gets sealed.
LEMMA SealStep ==
  ASSUME TypeOK, OrderInv, JobInv, ModeInv, SealInv,
         [Next]_vars
  PROVE  SealInv'
<1> USE FilesAssumption, SizesAssumption, BoundsAssumption, ConfigAssumption
       DEF TypeOK, Absent, Remains, Writes, OrderInv, ModeInv, JobInv,
       Handling, SealInv, diskVars, memoryVars, jobVars, historyVars,
       boundVars, EncryptedAt, NotProcessed, Unprocessed, Mark
<1>1. ASSUME NEW f \in Files, Write(f) PROVE SealInv'
  BY <1>1 DEF Write
<1>2. ASSUME NEW f \in Files, Delete(f) PROVE SealInv'
  BY <1>2 DEF Delete
<1>3. CASE Polls
  BY <1>3 DEF Polls
<1>4. ASSUME NEW f \in Files, PassesOver(f) PROVE SealInv'
  BY <1>4 DEF PassesOver
<1>5. ASSUME NEW f \in Files, Notes(f) PROVE SealInv'
  BY <1>5 DEF Notes, ToBeEncrypted
<1>6. ASSUME NEW f \in Files, Takes(f) PROVE SealInv'
  BY <1>6 DEF Takes, ToBeEncrypted
<1>7. CASE Encrypts
  BY <1>7 DEF Encrypts
<1>8. CASE FailsToEncrypt
  BY <1>8 DEF FailsToEncrypt, Fault, Drops
<1>9. CASE Commits
  BY <1>9 DEF Commits
<1>10. CASE FailsToCommit
  BY <1>10 DEF FailsToCommit, Fault
<1>11. CASE Keeps
  BY <1>11 DEF Keeps
<1>12. CASE Overwrites
  BY <1>12 DEF Overwrites, Wipe
<1>13. CASE CannotOverwrite
  BY <1>13 DEF CannotOverwrite, Fault
<1>14. CASE Unlinks
  BY <1>14 DEF Unlinks, Wipe
<1>15. CASE FailsToUnlink
  BY <1>15 DEF FailsToUnlink, Fault
<1>16. CASE Records
  BY <1>16 DEF Records, Drops
<1>17. CASE EndsPoll
  BY <1>17 DEF EndsPoll
<1>18. CASE Crash
  BY <1>18 DEF Crash, Fault
<1>19. CASE UNCHANGED vars
  BY <1>19 DEF vars
<1> QED
  BY <1>1, <1>2, <1>3, <1>4, <1>5, <1>6, <1>7, <1>8, <1>9, <1>10, <1>11,
     <1>12, <1>13, <1>14, <1>15, <1>16, <1>17, <1>18, <1>19 DEF Next,
     WorkerStep

\* What is about to be destroyed stays sealed, or excused.
LEMMA WipeStep ==
  ASSUME TypeOK, JobInv, WipeInv,
         [Next]_vars
  PROVE  WipeInv'
<1> USE FilesAssumption, SizesAssumption, BoundsAssumption, ConfigAssumption
       DEF TypeOK, Absent, Remains, Writes, JobInv, Handling, WipeInv,
       diskVars, memoryVars, jobVars, historyVars, boundVars, EncryptedAt,
       NotProcessed, Unprocessed, Mark
<1>1. ASSUME NEW f \in Files, Write(f) PROVE WipeInv'
  BY <1>1 DEF Write
<1>2. ASSUME NEW f \in Files, Delete(f) PROVE WipeInv'
  BY <1>2 DEF Delete
<1>3. CASE Polls
  BY <1>3 DEF Polls
<1>4. ASSUME NEW f \in Files, PassesOver(f) PROVE WipeInv'
  BY <1>4 DEF PassesOver
<1>5. ASSUME NEW f \in Files, Notes(f) PROVE WipeInv'
  BY <1>5 DEF Notes, ToBeEncrypted
<1>6. ASSUME NEW f \in Files, Takes(f) PROVE WipeInv'
  BY <1>6 DEF Takes, ToBeEncrypted
<1>7. CASE Encrypts
  BY <1>7 DEF Encrypts
<1>8. CASE FailsToEncrypt
  BY <1>8 DEF FailsToEncrypt, Fault, Drops
<1>9. CASE Commits
  BY <1>9 DEF Commits
<1>10. CASE FailsToCommit
  BY <1>10 DEF FailsToCommit, Fault
<1>11. CASE Keeps
  BY <1>11 DEF Keeps
<1>12. CASE Overwrites
  BY <1>12 DEF Overwrites, Wipe
<1>13. CASE CannotOverwrite
  BY <1>13 DEF CannotOverwrite, Fault
<1>14. CASE Unlinks
  BY <1>14 DEF Unlinks, Wipe
<1>15. CASE FailsToUnlink
  BY <1>15 DEF FailsToUnlink, Fault
<1>16. CASE Records
  BY <1>16 DEF Records, Drops
<1>17. CASE EndsPoll
  BY <1>17 DEF EndsPoll
<1>18. CASE Crash
  BY <1>18 DEF Crash, Fault
<1>19. CASE UNCHANGED vars
  BY <1>19 DEF vars
<1> QED
  BY <1>1, <1>2, <1>3, <1>4, <1>5, <1>6, <1>7, <1>8, <1>9, <1>10, <1>11,
     <1>12, <1>13, <1>14, <1>15, <1>16, <1>17, <1>18, <1>19 DEF Next,
     WorkerStep

\* A fingerprint that matches names the sealed content.
LEMMA FingerprintStep ==
  ASSUME TypeOK, OrderInv, JobInv, ModeInv, SealInv, "rename" \notin Faults, FingerprintMeansEncrypted,
         [Next]_vars
  PROVE  FingerprintMeansEncrypted'
<1> USE FilesAssumption, SizesAssumption, BoundsAssumption, ConfigAssumption
       DEF TypeOK, Absent, Remains, Writes, OrderInv, ModeInv, JobInv,
       Handling, SealInv, FingerprintMeansEncrypted, diskVars, memoryVars,
       jobVars, historyVars, boundVars, EncryptedAt, NotProcessed,
       Unprocessed, Mark
<1>1. ASSUME NEW f \in Files, Write(f) PROVE FingerprintMeansEncrypted'
  BY <1>1 DEF Write
<1>2. ASSUME NEW f \in Files, Delete(f) PROVE FingerprintMeansEncrypted'
  BY <1>2 DEF Delete
<1>3. CASE Polls
  BY <1>3 DEF Polls
<1>4. ASSUME NEW f \in Files, PassesOver(f) PROVE FingerprintMeansEncrypted'
  BY <1>4 DEF PassesOver
<1>5. ASSUME NEW f \in Files, Notes(f) PROVE FingerprintMeansEncrypted'
  BY <1>5 DEF Notes, ToBeEncrypted
<1>6. ASSUME NEW f \in Files, Takes(f) PROVE FingerprintMeansEncrypted'
  BY <1>6 DEF Takes, ToBeEncrypted
<1>7. CASE Encrypts
  BY <1>7 DEF Encrypts
<1>8. CASE FailsToEncrypt
  BY <1>8 DEF FailsToEncrypt, Fault, Drops
<1>9. CASE Commits
  BY <1>9 DEF Commits
<1>10. CASE FailsToCommit
  BY <1>10 DEF FailsToCommit, Fault
<1>11. CASE Keeps
  BY <1>11 DEF Keeps
<1>12. CASE Overwrites
  BY <1>12 DEF Overwrites, Wipe
<1>13. CASE CannotOverwrite
  BY <1>13 DEF CannotOverwrite, Fault
<1>14. CASE Unlinks
  BY <1>14 DEF Unlinks, Wipe
<1>15. CASE FailsToUnlink
  BY <1>15 DEF FailsToUnlink, Fault
<1>16. CASE Records
  BY <1>16 DEF Records, Drops
<1>17. CASE EndsPoll
  BY <1>17 DEF EndsPoll
<1>18. CASE Crash
  BY <1>18 DEF Crash, Fault
<1>19. CASE UNCHANGED vars
  BY <1>19 DEF vars
<1> QED
  BY <1>1, <1>2, <1>3, <1>4, <1>5, <1>6, <1>7, <1>8, <1>9, <1>10, <1>11,
     <1>12, <1>13, <1>14, <1>15, <1>16, <1>17, <1>18, <1>19 DEF Next,
     WorkerStep

\* Only what is sealed, or excused, is destroyed.
LEMMA LossStep ==
  ASSUME TypeOK, JobInv, WipeInv, NothingLostUnnoticed,
         [Next]_vars
  PROVE  NothingLostUnnoticed'
<1> USE FilesAssumption, SizesAssumption, BoundsAssumption, ConfigAssumption
       DEF TypeOK, Absent, Remains, Writes, JobInv, Handling, WipeInv,
       NothingLostUnnoticed, diskVars, memoryVars, jobVars, historyVars,
       boundVars, EncryptedAt, NotProcessed, Unprocessed, Mark
<1>1. ASSUME NEW f \in Files, Write(f) PROVE NothingLostUnnoticed'
  BY <1>1 DEF Write
<1>2. ASSUME NEW f \in Files, Delete(f) PROVE NothingLostUnnoticed'
  BY <1>2 DEF Delete
<1>3. CASE Polls
  BY <1>3 DEF Polls
<1>4. ASSUME NEW f \in Files, PassesOver(f) PROVE NothingLostUnnoticed'
  BY <1>4 DEF PassesOver
<1>5. ASSUME NEW f \in Files, Notes(f) PROVE NothingLostUnnoticed'
  BY <1>5 DEF Notes, ToBeEncrypted
<1>6. ASSUME NEW f \in Files, Takes(f) PROVE NothingLostUnnoticed'
  BY <1>6 DEF Takes, ToBeEncrypted
<1>7. CASE Encrypts
  BY <1>7 DEF Encrypts
<1>8. CASE FailsToEncrypt
  BY <1>8 DEF FailsToEncrypt, Fault, Drops
<1>9. CASE Commits
  BY <1>9 DEF Commits
<1>10. CASE FailsToCommit
  BY <1>10 DEF FailsToCommit, Fault
<1>11. CASE Keeps
  BY <1>11 DEF Keeps
<1>12. CASE Overwrites
  BY <1>12 DEF Overwrites, Wipe
<1>13. CASE CannotOverwrite
  BY <1>13 DEF CannotOverwrite, Fault
<1>14. CASE Unlinks
  BY <1>14 DEF Unlinks, Wipe
<1>15. CASE FailsToUnlink
  BY <1>15 DEF FailsToUnlink, Fault
<1>16. CASE Records
  BY <1>16 DEF Records, Drops
<1>17. CASE EndsPoll
  BY <1>17 DEF EndsPoll
<1>18. CASE Crash
  BY <1>18 DEF Crash, Fault
<1>19. CASE UNCHANGED vars
  BY <1>19 DEF vars
<1> QED
  BY <1>1, <1>2, <1>3, <1>4, <1>5, <1>6, <1>7, <1>8, <1>9, <1>10, <1>11,
     <1>12, <1>13, <1>14, <1>15, <1>16, <1>17, <1>18, <1>19 DEF Next,
     WorkerStep

\* The inductive invariant holds initially.
LEMMA InitIInv == Init => IInv
<1> SUFFICES ASSUME Init PROVE IInv
  OBVIOUS
<1> USE FilesAssumption, SizesAssumption, BoundsAssumption, ConfigAssumption
        DEF Init, Absent, Remains, Writes
<1>1. TypeOK
  BY DEF TypeOK
<1>2. OrderInv /\ JobInv /\ ModeInv
  BY DEF OrderInv, JobInv, ModeInv, Handling
<1>3. SealInv /\ WipeInv
  BY DEF SealInv, WipeInv
<1>4. FingerprintMeansEncrypted /\ NothingLostUnnoticed
  BY DEF FingerprintMeansEncrypted, NothingLostUnnoticed
<1> QED
  BY <1>1, <1>2, <1>3, <1>4 DEF IInv

\* The inductive invariant is kept by every step.
LEMMA NextIInv == IInv /\ [Next]_vars => IInv'
<1> SUFFICES ASSUME IInv, [Next]_vars PROVE IInv'
  OBVIOUS
<1>1. TypeOK' /\ OrderInv' /\ JobInv' /\ ModeInv'
  BY TypeStep, OrderStep, JobStep, ModeStep DEF IInv
<1>2. SealInv' /\ WipeInv' /\ NothingLostUnnoticed'
  BY SealStep, WipeStep, LossStep DEF IInv
<1>3. ASSUME "rename" \notin Faults PROVE FingerprintMeansEncrypted'
  BY <1>3, FingerprintStep DEF IInv
<1> QED
  BY <1>1, <1>2, <1>3 DEF IInv

\* The inductive invariant holds in every reachable state.
THEOREM Invariance == Spec => []IInv
<1> QED
  BY InitIInv, NextIInv, PTL DEF Spec

\* Every variable of the worker keeps its type.
THEOREM TypeCorrect == Spec => []TypeOK
<1>1. IInv => TypeOK
  BY DEF IInv
<1> QED
  BY <1>1, Invariance, PTL

\* As long as renames work, a file the watcher considers done is in its container
\* with exactly its present content, however writes, deletions, failed encryptions
\* and restarts interleave with its steps.
THEOREM FingerprintsAreSound ==
  ASSUME "rename" \notin Faults
  PROVE  Spec => []FingerprintMeansEncrypted
<1>1. IInv => FingerprintMeansEncrypted
  BY DEF IInv
<1> QED
  BY <1>1, Invariance, PTL

\* Nothing the watcher destroys is lost, except by a failed rename or a late write.
THEOREM LossesAreExcused == Spec => []NothingLostUnnoticed
<1>1. IInv => NothingLostUnnoticed
  BY DEF IInv
<1> QED
  BY <1>1, Invariance, PTL

-----------------------------------------------------------------------------
(* What becomes of a container that is written again.                       *)

\* No container is ahead of its file, nor of what is about to be sealed in it.
AdvanceInv ==
  /\ \A f \in Files : container[f] \in Writes =>
       /\ container[f] <= writes
       /\ file[f] \in Writes => container[f] <= file[f]
  /\ pc = "commit" /\ read \in Writes =>
       /\ read <= writes
       /\ file[current] \in Writes => read <= file[current]
       /\ container[current] \in Writes => container[current] <= read

\* Every step keeps the containers behind their files.
LEMMA AdvanceStep ==
  ASSUME TypeOK, OrderInv, JobInv, AdvanceInv,
         [Next]_vars
  PROVE  AdvanceInv'
<1> USE FilesAssumption, SizesAssumption, BoundsAssumption, ConfigAssumption
       DEF TypeOK, Absent, Remains, Writes, OrderInv, JobInv, AdvanceInv,
       Handling, diskVars,
       memoryVars, jobVars, historyVars, boundVars, EncryptedAt, NotProcessed,
       Unprocessed, Mark
<1>1. ASSUME NEW f \in Files, Write(f) PROVE AdvanceInv'
  BY <1>1 DEF Write
<1>2. ASSUME NEW f \in Files, Delete(f) PROVE AdvanceInv'
  BY <1>2 DEF Delete
<1>3. CASE Polls
  BY <1>3 DEF Polls
<1>4. ASSUME NEW f \in Files, PassesOver(f) PROVE AdvanceInv'
  BY <1>4 DEF PassesOver
<1>5. ASSUME NEW f \in Files, Notes(f) PROVE AdvanceInv'
  BY <1>5 DEF Notes, ToBeEncrypted
<1>6. ASSUME NEW f \in Files, Takes(f) PROVE AdvanceInv'
  BY <1>6 DEF Takes, ToBeEncrypted
<1>7. CASE Encrypts
  BY <1>7 DEF Encrypts
<1>8. CASE FailsToEncrypt
  BY <1>8 DEF FailsToEncrypt, Fault, Drops
<1>9. CASE Commits
  BY <1>9 DEF Commits
<1>10. CASE FailsToCommit
  BY <1>10 DEF FailsToCommit, Fault
<1>11. CASE Keeps
  BY <1>11 DEF Keeps
<1>12. CASE Overwrites
  BY <1>12 DEF Overwrites, Wipe
<1>13. CASE CannotOverwrite
  BY <1>13 DEF CannotOverwrite, Fault
<1>14. CASE Unlinks
  BY <1>14 DEF Unlinks, Wipe
<1>15. CASE FailsToUnlink
  BY <1>15 DEF FailsToUnlink, Fault
<1>16. CASE Records
  BY <1>16 DEF Records, Drops
<1>17. CASE EndsPoll
  BY <1>17 DEF EndsPoll
<1>18. CASE Crash
  BY <1>18 DEF Crash, Fault
<1>19. CASE UNCHANGED vars
  BY <1>19 DEF vars
<1> QED
  BY <1>1, <1>2, <1>3, <1>4, <1>5, <1>6, <1>7, <1>8, <1>9, <1>10, <1>11,
     <1>12, <1>13, <1>14, <1>15, <1>16, <1>17, <1>18, <1>19 DEF Next,
     WorkerStep

\* A container goes from one state of its file to a later one, never back, however
\* often the file is written, deleted and written again, and whatever fails.
THEOREM ContainersAdvance == Spec => ContainersOnlyAdvance
<1>1. Init => AdvanceInv
  BY BoundsAssumption DEF Init, AdvanceInv, Writes, Absent
<1>2. IInv /\ AdvanceInv /\ [Next]_vars => AdvanceInv'
  BY AdvanceStep DEF IInv
<1>3. TypeOK /\ JobInv /\ AdvanceInv /\ [Next]_vars => [OnlyAdvances]_vars
  <2> SUFFICES ASSUME TypeOK, JobInv, AdvanceInv, Next, NEW f \in Files,
                      container'[f] # container[f], container[f] # Remains,
                      container'[f] # Remains
               PROVE  container'[f] > container[f]
    BY DEF OnlyAdvances
  <2>1. Commits
    BY DEF Next, Write, Delete, WorkerStep, Polls, PassesOver, Notes, Takes,
       Encrypts, FailsToEncrypt, FailsToCommit, Keeps, Overwrites,
       CannotOverwrite, Unlinks, FailsToUnlink, Records, EndsPoll, Crash,
       diskVars
  <2>2. pc = "commit" /\ container' = [container EXCEPT ![current] = read]
    BY <2>1 DEF Commits
  <2>3. f = current /\ container'[f] = read /\ read # Absent
    BY <2>2 DEF TypeOK, JobInv
  <2>4. read \in Writes /\ container[f] \in {Absent} \cup Writes
    BY <2>3 DEF TypeOK
  <2> QED
    BY <2>2, <2>3, <2>4, BoundsAssumption DEF AdvanceInv, Absent, Writes
<1> QED
  BY <1>1, <1>2, <1>3, Invariance, PTL DEF IInv, Spec, ContainersOnlyAdvance

\* As long as nothing has failed, what shredding leaves of a file is only there
\* until the next step of the worker removes it, and is never read.
RemainsInv ==
  faults = 0 =>
    /\ \A f \in Files : file[f] = Remains => pc = "unlink" /\ current = f
    /\ seen # Remains
    /\ read # Remains
    /\ \A f \in Files : container[f] # Remains

\* A worker for which nothing fails leaves no remains behind.
LEMMA RemainsStep ==
  ASSUME TypeOK, JobInv, RemainsInv,
         [Next]_vars
  PROVE  RemainsInv'
<1> USE FilesAssumption, SizesAssumption, BoundsAssumption, ConfigAssumption
       DEF TypeOK, Absent, Remains, Writes, JobInv, RemainsInv,
       Handling, diskVars,
       memoryVars, jobVars, historyVars, boundVars, EncryptedAt, NotProcessed,
       Unprocessed, Mark
<1>1. ASSUME NEW f \in Files, Write(f) PROVE RemainsInv'
  BY <1>1 DEF Write
<1>2. ASSUME NEW f \in Files, Delete(f) PROVE RemainsInv'
  BY <1>2 DEF Delete
<1>3. CASE Polls
  BY <1>3 DEF Polls
<1>4. ASSUME NEW f \in Files, PassesOver(f) PROVE RemainsInv'
  BY <1>4 DEF PassesOver
<1>5. ASSUME NEW f \in Files, Notes(f) PROVE RemainsInv'
  BY <1>5 DEF Notes, ToBeEncrypted
<1>6. ASSUME NEW f \in Files, Takes(f) PROVE RemainsInv'
  BY <1>6 DEF Takes, ToBeEncrypted
<1>7. CASE Encrypts
  BY <1>7 DEF Encrypts
<1>8. CASE FailsToEncrypt
  BY <1>8 DEF FailsToEncrypt, Fault, Drops
<1>9. CASE Commits
  BY <1>9 DEF Commits
<1>10. CASE FailsToCommit
  BY <1>10 DEF FailsToCommit, Fault
<1>11. CASE Keeps
  BY <1>11 DEF Keeps
<1>12. CASE Overwrites
  BY <1>12 DEF Overwrites, Wipe
<1>13. CASE CannotOverwrite
  BY <1>13 DEF CannotOverwrite, Fault
<1>14. CASE Unlinks
  BY <1>14 DEF Unlinks, Wipe
<1>15. CASE FailsToUnlink
  BY <1>15 DEF FailsToUnlink, Fault
<1>16. CASE Records
  BY <1>16 DEF Records, Drops
<1>17. CASE EndsPoll
  BY <1>17 DEF EndsPoll
<1>18. CASE Crash
  BY <1>18 DEF Crash, Fault
<1>19. CASE UNCHANGED vars
  BY <1>19 DEF vars
<1> QED
  BY <1>1, <1>2, <1>3, <1>4, <1>5, <1>6, <1>7, <1>8, <1>9, <1>10, <1>11,
     <1>12, <1>13, <1>14, <1>15, <1>16, <1>17, <1>18, <1>19 DEF Next,
     WorkerStep

\* Remains of a shredded file are sealed in a container only after a removal has
\* failed or the process has ended between shredding and removal.
THEOREM RemainsNeedAFault == Spec => []RemainsNotSealed
<1>1. Init => RemainsInv
  BY BoundsAssumption DEF Init, RemainsInv, Remains, Absent
<1>2. IInv /\ RemainsInv /\ [Next]_vars => RemainsInv'
  BY RemainsStep DEF IInv
<1>3. RemainsInv => RemainsNotSealed
  BY DEF RemainsInv, RemainsNotSealed
<1> QED
  BY <1>1, <1>2, <1>3, Invariance, PTL DEF Spec

-----------------------------------------------------------------------------
(* Every poll comes to an end.                                              *)

\* What the worker still has to do for the file it handles, and to end its poll.
JobLeft == IF pc = "open" THEN 6
           ELSE IF pc = "commit" THEN 5
           ELSE IF pc = "dispose" THEN 4
           ELSE IF pc = "unlink" THEN 3
           ELSE IF pc = "record" THEN 2
           ELSE IF pc = "scan" THEN 1
           ELSE 0

\* ... and for the files it has not looked at yet.
PollLeft == 7 * Cardinality(visit) + JobLeft

\* A step of a worker that is in a poll brings the poll nearer to its end, and
\* other programs do not keep it longer.
PollNears ==
  /\ PollLeft \in Nat /\ PollLeft' \in Nat
  /\ pc # "sleep" /\ WorkerStep => PollLeft' < PollLeft
  /\ (\E f \in Files : Write(f) \/ Delete(f)) => PollLeft' = PollLeft
PollsEnd == [][PollNears]_vars

\* Looking at a file takes it off the list for good.
LEMMA VisitShrinks ==
  ASSUME IsFiniteSet(Files), TypeOK, NEW f \in visit, visit' = visit \ {f}
  PROVE  Cardinality(visit') = Cardinality(visit) - 1
<1>1. IsFiniteSet(visit)
  BY FS_Subset DEF TypeOK
<1> QED
  BY <1>1, FS_RemoveElement

LEMMA PollStep ==
  ASSUME IsFiniteSet(Files), TypeOK, TypeOK',
         pc # "sleep", WorkerStep
  PROVE  PollLeft' < PollLeft
<1> DEFINE left == Cardinality(visit)
<1>1. left \in Nat /\ left' \in Nat
  <2>1. IsFiniteSet(visit) /\ IsFiniteSet(visit')
    BY FS_Subset DEF TypeOK
  <2> QED
    BY <2>1, FS_CardinalityType
<1>2. PollLeft = 7 * left + JobLeft /\ PollLeft' = 7 * left' + JobLeft'
  BY DEF PollLeft
<1>3. ASSUME NEW f \in Files, PassesOver(f) \/ Notes(f) \/ Takes(f)
      PROVE  PollLeft' < PollLeft
  <2>1. /\ f \in visit /\ visit' = visit \ {f}
        /\ pc = "scan" /\ pc' \in {"scan", "open"}
    BY <1>3 DEF PassesOver, Notes, Takes, ToBeEncrypted
  <2>2. left' = left - 1
    BY <2>1, VisitShrinks
  <2> HIDE DEF left
  <2> QED
    BY <1>1, <1>2, <2>1, <2>2 DEF JobLeft
<1>4. JobLeft \in Nat /\ JobLeft' \in Nat
  BY DEF JobLeft
<1>5. ASSUME visit' = visit, JobLeft' < JobLeft
      PROVE  PollLeft' < PollLeft
  <2>1. left' = left
    BY <1>5
  <2>2. \A a, b, c \in Nat : b < c => 7 * a + b < 7 * a + c
    OBVIOUS
  <2> HIDE DEF left
  <2> QED
    BY <1>1, <1>2, <1>4, <1>5, <2>1, <2>2
<1>6. ~Polls
  BY DEF Polls
<1>7. CASE EndsPoll
  BY <1>5, <1>7 DEF EndsPoll, JobLeft
<1>8. CASE Encrypts
  BY <1>5, <1>8 DEF Encrypts, JobLeft
<1>9. CASE FailsToEncrypt
  BY <1>5, <1>9 DEF FailsToEncrypt, Drops, JobLeft
<1>10. CASE Commits \/ FailsToCommit
  BY <1>5, <1>10 DEF Commits, FailsToCommit, JobLeft
<1>11. CASE Keeps \/ Overwrites \/ CannotOverwrite
  BY <1>5, <1>11 DEF Keeps, Overwrites, CannotOverwrite, JobLeft
<1>12. CASE Unlinks \/ FailsToUnlink
  BY <1>5, <1>12 DEF Unlinks, FailsToUnlink, JobLeft
<1>13. CASE Records
  BY <1>5, <1>13 DEF Records, Drops, JobLeft
<1> QED
  BY <1>3, <1>6, <1>7, <1>8, <1>9, <1>10, <1>11, <1>12, <1>13 DEF WorkerStep

\* In a folder of finitely many files a poll ends after as many steps of the worker
\* as are left for it, however often the files are written meanwhile: between two
\* looks at the stop flag lies a bounded number of files.
THEOREM PollsComeToAnEnd ==
  ASSUME IsFiniteSet(Files)
  PROVE  Spec => PollsEnd
<1>1. ASSUME TypeOK, TypeOK' PROVE PollLeft \in Nat /\ PollLeft' \in Nat
  <2>1. IsFiniteSet(visit) /\ IsFiniteSet(visit')
    BY <1>1, FS_Subset DEF TypeOK
  <2>2. Cardinality(visit) \in Nat /\ Cardinality(visit') \in Nat
    BY <2>1, FS_CardinalityType
  <2>3. JobLeft \in Nat /\ JobLeft' \in Nat
    BY DEF JobLeft
  <2> QED
    BY <2>2, <2>3 DEF PollLeft
<1>2. ASSUME NEW f \in Files, Write(f) \/ Delete(f) PROVE PollLeft' = PollLeft
  BY <1>2 DEF Write, Delete, PollLeft, JobLeft
<1>3. TypeOK /\ TypeOK' /\ [Next]_vars => [PollNears]_vars
  BY <1>1, <1>2, PollStep DEF PollNears
<1> QED
  BY <1>3, TypeCorrect, PTL DEF Spec, PollsEnd
============================================================================
