---------------------------- MODULE FolderWatcher ----------------------------
(***************************************************************************)
(* What one worker of the folder watcher does to the files of the watched  *)
(* folder (watcher/mod.rs, the polling loop), while other programs write   *)
(* and delete the same files, and while renames, removals, encryptions and *)
(* the process itself may fail.                                            *)
(*                                                                         *)
(* A file's content is the number of the write that produced it, and the   *)
(* same number is its modification time: two writes never share one.       *)
(* Files is the set of names that pass should_process_file; the container  *)
(* of a file has one fixed name, computed from the file's.                 *)
(***************************************************************************)
EXTENDS Naturals, FiniteSets

CONSTANTS Files,      \* names the watcher accepts
          NoFile,     \* no file is being handled
          Sizes,      \* sizes a file may have
          NoSize,     \* size of an absent file
          Shred,      \* config.shred_source
          MaxWrites,  \* bound: writes by other programs
          Faults,     \* which of "encrypt", "rename", "shred", "crash" may happen
          MaxFaults   \* bound: faults in a behaviour

ASSUME FilesAssumption == NoFile \notin Files
ASSUME ConfigAssumption == Shred \in BOOLEAN
ASSUME SizesAssumption == NoSize \notin Sizes
ASSUME BoundsAssumption == MaxWrites \in Nat /\ MaxFaults \in Nat

Absent == 0                   \* no such file, no such container
Writes == 1 .. MaxWrites
Remains == MaxWrites + 1      \* what shredding leaves of a file until it is removed

VARIABLES
  file,       \* content of each file
  size,       \* its size
  container,  \* content sealed in the container of each file
  candidates, \* file_candidates: the size each file had when last polled
  fingerprints, \* processed_fingerprints: the write each file was encrypted at
  pc,         \* where the worker is
  visit,      \* files of the current poll still to look at
  current,    \* the file being handled
  seen,       \* its modification time when it was found stable
  read,       \* the content that was encrypted
  writes,     \* writes so far
  faults,     \* faults so far
  wiped,      \* history: contents the watcher destroyed in the folder
  archived,   \* history: contents that were sealed in a container
  excused     \* history: contents exposed to a failed rename or a late write

diskVars == <<file, size, container>>
memoryVars == <<candidates, fingerprints>>
jobVars == <<current, seen, read>>
historyVars == <<wiped, archived, excused>>
boundVars == <<writes, faults>>
vars == <<diskVars, memoryVars, pc, visit, jobVars, historyVars, boundVars>>

TypeOK ==
  /\ file \in [Files -> {Absent, Remains} \cup Writes]
  /\ size \in [Files -> Sizes \cup {NoSize}]
  /\ container \in [Files -> {Absent, Remains} \cup Writes]
  /\ candidates \in [Files -> Sizes \cup {NoSize}]
  /\ fingerprints \in [Files -> {Absent, Remains} \cup Writes]
  /\ pc \in {"sleep", "scan", "open", "commit", "dispose", "unlink", "record"}
  /\ visit \subseteq Files
  /\ current \in Files \cup {NoFile}
  /\ seen \in {Absent, Remains} \cup Writes
  /\ read \in {Absent, Remains} \cup Writes
  /\ writes \in 0 .. MaxWrites
  /\ faults \in 0 .. MaxFaults
  /\ wiped \in [Files -> SUBSET Writes]
  /\ archived \in [Files -> SUBSET ({Remains} \cup Writes)]
  /\ excused \in [Files -> SUBSET ({Remains} \cup Writes)]

Init ==
  /\ file = [f \in Files |-> Absent]
  /\ size = [f \in Files |-> NoSize]
  /\ container = [f \in Files |-> Absent]
  /\ candidates = [f \in Files |-> NoSize]
  /\ fingerprints = [f \in Files |-> Absent]
  /\ pc = "sleep"
  /\ visit = {}
  /\ current = NoFile
  /\ seen = Absent
  /\ read = Absent
  /\ writes = 0
  /\ faults = 0
  /\ wiped = [f \in Files |-> {}]
  /\ archived = [f \in Files |-> {}]
  /\ excused = [f \in Files |-> {}]

Fault(kind) == /\ kind \in Faults
               /\ faults < MaxFaults
               /\ faults' = faults + 1
               /\ UNCHANGED writes

-----------------------------------------------------------------------------
(* Other programs.                                                          *)

\* A write that arrives after the watcher has read the file, and before it is
\* done with it, is a late one: it is wiped together with what was read.
Write(f) ==
  /\ writes < MaxWrites
  /\ writes' = writes + 1
  /\ file' = [file EXCEPT ![f] = writes']
  /\ \E s \in Sizes : size' = [size EXCEPT ![f] = s]
  /\ excused' = IF current = f /\ pc \in {"commit", "dispose", "unlink"}
                  THEN [excused EXCEPT ![f] = @ \cup {writes'}]
                  ELSE excused
  /\ UNCHANGED <<container, memoryVars, pc, visit, jobVars, wiped, archived, faults>>

Delete(f) ==
  /\ file[f] # Absent
  /\ file' = [file EXCEPT ![f] = Absent]
  /\ size' = [size EXCEPT ![f] = NoSize]
  /\ UNCHANGED <<container, memoryVars, pc, visit, jobVars, historyVars, boundVars>>

-----------------------------------------------------------------------------
(* The worker.                                                              *)

Polls ==
  /\ pc = "sleep"
  /\ visit' = {f \in Files : file[f] # Absent}
  /\ pc' = "scan"
  /\ UNCHANGED <<diskVars, memoryVars, jobVars, historyVars, boundVars>>

\* The file has disappeared since it was listed, or is the one that was
\* encrypted before.
PassesOver(f) ==
  /\ pc = "scan"
  /\ f \in visit
  /\ file[f] = Absent \/ fingerprints[f] = file[f]
  /\ visit' = visit \ {f}
  /\ UNCHANGED <<diskVars, memoryVars, pc, jobVars, historyVars, boundVars>>

ToBeEncrypted(f) == /\ pc = "scan"
                    /\ f \in visit
                    /\ file[f] # Absent
                    /\ fingerprints[f] # file[f]

\* What is remembered of a candidate until the next poll.
MarkTime(f) == file[f]   \* mutant: the modification time
Mark(f) == size[f]

\* The size is new, or has changed since the last poll: wait for the next one.
Notes(f) ==
  /\ ToBeEncrypted(f)
  /\ candidates[f] # Mark(f)
  /\ candidates' = [candidates EXCEPT ![f] = Mark(f)]
  /\ visit' = visit \ {f}
  /\ UNCHANGED <<diskVars, fingerprints, pc, jobVars, historyVars, boundVars>>

\* The size is that of an earlier poll, which is more than 500 ms ago.
Takes(f) ==
  /\ ToBeEncrypted(f)
  /\ candidates[f] = Mark(f)
  /\ current' = f
  /\ seen' = file[f]
  /\ visit' = visit \ {f}
  /\ pc' = "open"
  /\ UNCHANGED <<diskVars, memoryVars, read, historyVars, boundVars>>

\* The worker is done with the current file and goes back to its poll.
Drops == /\ candidates' = [candidates EXCEPT ![current] = NoSize]
         /\ current' = NoFile
         /\ seen' = Absent
         /\ read' = Absent
         /\ pc' = "scan"

\* The source is read into a temporary file next to the container.
Encrypts ==
  /\ pc = "open"
  /\ file[current] # Absent
  /\ read' = file[current]
  /\ pc' = "commit"
  /\ UNCHANGED <<diskVars, memoryVars, visit, current, seen, historyVars, boundVars>>

\* Mutant: the outcome of encrypt_stream is not looked at, and what there is of the
\* temporary file is committed.
FailsUnnoticed ==
  /\ pc = "open"
  /\ IF file[current] = Absent THEN UNCHANGED boundVars ELSE Fault("encrypt")
  /\ pc' = "commit"
  /\ UNCHANGED <<diskVars, memoryVars, visit, jobVars, historyVars>>

\* Fingerprints after a failed encryption.
ProcessedAnyway == [fingerprints EXCEPT ![current] = seen]   \* mutant
NotProcessed == fingerprints

\* The source cannot be opened, or encrypt_stream fails and the temporary file
\* is removed.
FailsToEncrypt ==
  /\ pc = "open"
  /\ IF file[current] = Absent THEN UNCHANGED boundVars ELSE Fault("encrypt")
  /\ fingerprints' = NotProcessed
  /\ Drops
  /\ UNCHANGED <<diskVars, visit, historyVars>>

Commits ==
  /\ pc = "commit"
  /\ container' = [container EXCEPT ![current] = read]
  /\ archived' = [archived EXCEPT ![current] = @ \cup {read}]
  /\ pc' = "dispose"
  /\ UNCHANGED <<file, size, memoryVars, visit, jobVars, wiped, excused, boundVars>>

\* The result of fs::rename is ignored: the worker goes on as if it had worked.
FailsToCommit ==
  /\ pc = "commit"
  /\ Fault("rename")
  /\ excused' = [excused EXCEPT ![current] = @ \cup {read}]
  /\ pc' = "dispose"
  /\ UNCHANGED <<diskVars, memoryVars, visit, jobVars, wiped, archived>>

\* The modification time that is remembered with the fingerprint.
EncryptedNow == file[current]   \* mutant: read again after the encryption
EncryptedAt == seen

\* The source stays, and is not encrypted again until it is modified: what is
\* remembered is the modification time from before the encryption.
Keeps ==
  /\ ~Shred
  /\ pc = "dispose"
  /\ fingerprints' = [fingerprints EXCEPT ![current] = EncryptedAt]
  /\ pc' = "record"
  /\ UNCHANGED <<diskVars, candidates, visit, jobVars, historyVars, boundVars>>

Wipe(f) == wiped' = [wiped EXCEPT ![f] = @ \cup ({file[f]} \cap Writes)]

\* Mutant: shredding ends with the last pass, and nobody removes the file.
OverwritesOnly ==
  /\ Shred
  /\ pc = "dispose"
  /\ file[current] # Absent
  /\ Wipe(current)
  /\ file' = [file EXCEPT ![current] = Remains]
  /\ \E s \in Sizes : size' = [size EXCEPT ![current] = s]
  /\ pc' = "record"
  /\ UNCHANGED <<container, memoryVars, visit, jobVars, archived, excused, boundVars>>

\* The passes of shred_file_with_mode and its truncation, in place.
Overwrites ==
  /\ Shred
  /\ pc = "dispose"
  /\ file[current] # Absent
  /\ Wipe(current)
  /\ file' = [file EXCEPT ![current] = Remains]
  /\ \E s \in Sizes : size' = [size EXCEPT ![current] = s]
  /\ pc' = "unlink"
  /\ UNCHANGED <<container, memoryVars, visit, jobVars, archived, excused, boundVars>>

\* Shredding ends without an overwrite: the file is gone, or cannot be opened
\* for writing; what is left to do is the removal that follows in any case.
CannotOverwrite ==
  /\ Shred
  /\ pc = "dispose"
  /\ IF file[current] = Absent THEN UNCHANGED boundVars ELSE Fault("shred")
  /\ pc' = "unlink"
  /\ UNCHANGED <<diskVars, memoryVars, visit, jobVars, historyVars>>

\* Fingerprints after a removal, whether it worked or not.
StillProcessed == [fingerprints EXCEPT ![current] = seen]   \* mutant
Unprocessed == [fingerprints EXCEPT ![current] = Absent]

\* The removal by shred_file_with_mode, or the one after it.
Unlinks ==
  /\ pc = "unlink"
  /\ Wipe(current)
  /\ file' = [file EXCEPT ![current] = Absent]
  /\ size' = [size EXCEPT ![current] = NoSize]
  /\ fingerprints' = Unprocessed
  /\ pc' = "record"
  /\ UNCHANGED <<container, candidates, visit, jobVars, archived, excused, boundVars>>

FailsToUnlink ==
  /\ pc = "unlink"
  /\ file[current] # Absent
  /\ Fault("shred")
  /\ fingerprints' = Unprocessed
  /\ pc' = "record"
  /\ UNCHANGED <<diskVars, candidates, visit, jobVars, historyVars>>

\* The report of WatcherLifecycle, after which the candidate is forgotten.
Records ==
  /\ pc = "record"
  /\ Drops
  /\ UNCHANGED <<diskVars, fingerprints, visit, historyVars, boundVars>>

\* Files that no longer exist are forgotten, then the worker sleeps.
EndsPoll ==
  /\ pc = "scan"
  /\ visit = {}
  /\ candidates' = [f \in Files |-> IF file[f] = Absent THEN NoSize ELSE candidates[f]]
  /\ fingerprints' = [f \in Files |-> IF file[f] = Absent THEN Absent ELSE fingerprints[f]]
  /\ pc' = "sleep"
  /\ UNCHANGED <<diskVars, visit, jobVars, historyVars, boundVars>>

\* The process ends at any point and the watcher is started again: what the
\* worker knew is lost, what is on disk stays.
Crash ==
  /\ Fault("crash")
  /\ candidates' = [f \in Files |-> NoSize]
  /\ fingerprints' = [f \in Files |-> Absent]
  /\ pc' = "sleep"
  /\ visit' = {}
  /\ current' = NoFile
  /\ seen' = Absent
  /\ read' = Absent
  /\ UNCHANGED <<diskVars, historyVars>>

WorkerStep == \/ Polls \/ EndsPoll
              \/ \E f \in Files : PassesOver(f) \/ Notes(f) \/ Takes(f)
              \/ Encrypts \/ FailsToEncrypt
              \/ Commits \/ FailsToCommit
              \/ Keeps \/ Overwrites \/ CannotOverwrite \/ Unlinks \/ FailsToUnlink
              \/ Records

Next == \/ \E f \in Files : Write(f) \/ Delete(f)
        \/ WorkerStep
        \/ Crash

Spec == Init /\ [][Next]_vars

\* The thread of the worker is scheduled; other programs and faults owe nothing.
FairSpec == Spec /\ WF_vars(WorkerStep)

-----------------------------------------------------------------------------
\* A file that the watcher takes for encrypted and unmodified is in its
\* container with exactly its present content, whatever was written to it while
\* it was being encrypted.
FingerprintMeansEncrypted ==
  \A f \in Files : file[f] # Absent /\ fingerprints[f] = file[f] => container[f] = file[f]

\* What the watcher destroyed in the folder had been sealed in a container
\* before, unless the rename failed or it was written behind the watcher's back.
NothingLostUnnoticed == \A f \in Files : wiped[f] \subseteq archived[f] \cup excused[f]

\* A container that is replaced is replaced with a later state of its file, never
\* with an older one, whatever fails; what shredding leaves of a file is the one
\* exception.
OnlyAdvances ==
  \A f \in Files :
    container'[f] # container[f] => \/ container[f] = Remains
                                    \/ container'[f] = Remains
                                    \/ container'[f] > container[f]
ContainersOnlyAdvance == [][OnlyAdvances]_vars

\* ... and that one needs a fault: a removal that failed, or a restart between
\* shredding and removal.
RemainsNotSealed == faults = 0 => \A f \in Files : container[f] # Remains

\* A container that exists is never replaced (README: existing files are never
\* overwritten when the destination is not chosen explicitly).
\* This does not hold: a name that is used again replaces its container.
ContainersAreKept ==
  [][\A f \in Files : container[f] # Absent => container'[f] = container[f]]_vars

-----------------------------------------------------------------------------
(* The inductive invariant behind the two safety properties above.          *)

Handling == {"open", "commit", "dispose", "unlink", "record"}

\* Numbers are given to writes in order, so a number seen before is never that of
\* a later write.
OrderInv ==
  /\ \A f \in Files : file[f] \in Writes => file[f] <= writes
  /\ \A f \in Files : fingerprints[f] \in Writes => fingerprints[f] <= writes
  /\ seen \in Writes => seen <= writes

\* A file is handled from the moment it is found stable until it is reported.
JobInv == /\ pc \in Handling <=> current # NoFile
          /\ pc \in Handling => seen # Absent
          /\ pc \in {"commit", "dispose"} => read # Absent

\* A watcher that shreds remembers no fingerprint, one that keeps destroys nothing.
ModeInv == /\ Shred => fingerprints = [f \in Files |-> Absent]
           /\ ~Shred => \A f \in Files : file[f] # Remains
           /\ ~Shred => pc # "unlink"

\* If the file being handled is still the one that was found stable, then that
\* is what was encrypted, and what its container holds once it is committed.
SealInv ==
  /\ pc \in {"open", "commit", "dispose"} /\ file[current] # Absent =>
       fingerprints[current] # file[current]
  /\ pc \in {"commit", "dispose"} /\ file[current] = seen => read = seen
  /\ pc = "dispose" /\ "rename" \notin Faults => container[current] = read

\* What the watcher is about to destroy is sealed, or excused.
WipeInv ==
  /\ pc \in {"commit", "dispose"} /\ file[current] \in Writes =>
       file[current] \in {read} \cup excused[current]
  /\ pc = "dispose" => read \in archived[current] \cup excused[current]
  /\ pc = "unlink" /\ file[current] \in Writes =>
       file[current] \in archived[current] \cup excused[current]

IInv == /\ TypeOK
        /\ OrderInv
        /\ JobInv
        /\ ModeInv
        /\ SealInv
        /\ WipeInv
        /\ "rename" \notin Faults => FingerprintMeansEncrypted
        /\ NothingLostUnnoticed

-----------------------------------------------------------------------------
\* Once the other programs and the faults have come to rest, so does the
\* watcher, with every file sealed as it is in its container.
SettlesSealed ==
  <>[](/\ current = NoFile
       /\ \A f \in Files : file[f] # Absent => container[f] = file[f])

\* ... and, when it shreds, with no file left in the folder.
SettlesEmpty == <>[](\A f \in Files : file[f] = Absent)
=============================================================================
