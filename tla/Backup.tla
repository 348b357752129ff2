-------------------------------- MODULE Backup --------------------------------
(***************************************************************************)
(* create_backup_archive and restore_backup_archive (backup/mod.rs): a     *)
(* folder is sealed file by file into containers whose names are made from *)
(* the paths of the files, with a manifest at the end; a backup into the   *)
(* same place writes the same containers again.  Restoring follows the     *)
(* manifest.  The commands run one after the other on the main thread;     *)
(* other programs write to the folder, calls fail and the process ends.    *)
(*                                                                         *)
(* A content is the number of the write that made it, and its digest is    *)
(* the same number.  Reading a file is one step.                           *)
(***************************************************************************)
EXTENDS Naturals, Sequences, FiniteSets, SequencesExt

CONSTANTS Files,       \* regular files that the folder may hold
          Ignored,     \* those with the name of a manifest
          Path,        \* the relative path written down for each other file
          Keys,        \* the keys that credentials lead to
          Absent,      \* no file
          Part,        \* the beginning of what was to be written
          Other,       \* what the destination of a restoration held before
          NoManifest,  \* nothing was to be restored
          MaxWrites,   \* bound: writes by other programs
          MaxBackups,  \* bound: backups
          MaxRestores, \* bound: restorations
          Faults,      \* what may fail, each once
          MaxFaults    \* bound: failures in a behaviour

Paths == {Path[f] : f \in Files \ Ignored}
Versions == 0 .. MaxWrites
Containers == [version : Versions, key : Keys]
Entries == [path : Paths, version : Versions]
Manifests == [entries : Seq(Entries), key : Keys]

ASSUME FilesAssumption == /\ IsFiniteSet(Files)
                          /\ Ignored \subseteq Files
                          /\ Path \in [Files \ Ignored -> Paths]
ASSUME MarkersAssumption ==
  /\ {Absent, Part, Other} \cap Versions = {}
  /\ Absent # Part /\ Absent # Other /\ Part # Other
  /\ \A m \in {Absent, Part} : m \notin Containers /\ m \notin Manifests
  /\ NoManifest \notin Manifests
ASSUME BoundsAssumption == {MaxWrites, MaxBackups, MaxRestores, MaxFaults} \subseteq Nat

VARIABLES
  src,       \* what the folder holds
  box,       \* the containers, by the path their name is made from
  manifest,  \* backup_manifest.wraith
  out,       \* the destination of restorations
  pc,        \* where the command is
  key,       \* effective_key
  files,     \* all_files, those still to be sealed
  digest,    \* sha256_hash
  seen,      \* what the source held when it was opened
  entries,   \* written down so far, or still to be restored
  before,    \* history: the destination when the restoration began
  used,      \* history: the manifest that restoration follows
  complete,  \* history: it has succeeded
  origin,    \* history: the folder when the backup began
  quiet,     \* history: all of it was listed, and not written to since
  good,      \* history: so it was for the last backup, and nothing touched since
  writes, backups, restores, failed

diskVars == <<src, box, manifest, out>>
workVars == <<pc, key, files, digest, seen, entries>>
boundVars == <<writes, backups, restores, failed>>
historyVars == <<before, used, complete, origin, quiet, good>>
vars == <<diskVars, workVars, boundVars, historyVars>>

Stages == {"idle", "hash", "create", "seal", "sealManifest",
           "target", "decrypt", "verify"}
Targets == Versions \cup {Absent, Part, Other}

TypeOK ==
  /\ src \in [Files -> Versions \cup {Absent}]
  /\ box \in [Paths -> Containers \cup {Absent, Part}]
  /\ manifest \in Manifests \cup {Absent, Part}
  /\ out \in [Paths -> Targets]
  /\ pc \in Stages
  /\ key \in Keys
  /\ files \in Seq(Files)
  /\ {digest, seen} \subseteq Versions
  /\ entries \in Seq(Entries)
  /\ before \in [Paths -> Targets]
  /\ used \in Manifests \cup {NoManifest}
  /\ origin \in [Files -> Versions \cup {Absent}]
  /\ {complete, quiet, good} \subseteq BOOLEAN
  /\ writes \in 0 .. MaxWrites
  /\ backups \in 0 .. MaxBackups
  /\ restores \in 0 .. MaxRestores
  /\ failed \subseteq Faults

Init ==
  /\ src \in [Files -> {0, Absent}]
  /\ box = [p \in Paths |-> Absent]
  /\ manifest = Absent
  /\ \E t \in {Other, Absent} : out = [p \in Paths |-> t]
  /\ pc = "idle" /\ key \in Keys
  /\ files = <<>> /\ digest = 0 /\ seen = 0 /\ entries = <<>>
  /\ before = out
  /\ used = NoManifest /\ complete = FALSE
  /\ origin = src
  /\ quiet = FALSE /\ good = FALSE
  /\ writes = 0 /\ backups = 0 /\ restores = 0 /\ failed = {}

Goto(stage) == pc' = stage
Return == Goto("idle") /\ files' = <<>> /\ digest' = 0 /\ seen' = 0 /\ entries' = <<>>

Fault(kind) == /\ kind \in Faults \ failed
               /\ Cardinality(failed) < MaxFaults
               /\ failed' = failed \cup {kind}
               /\ UNCHANGED <<writes, backups, restores>>

-----------------------------------------------------------------------------
(* Other programs write to the folder and remove files from it; a container *)
(* is lost or damaged.                                                      *)

Write(f) ==
  /\ writes < MaxWrites
  /\ writes' = writes + 1
  /\ src' \in {[src EXCEPT ![f] = v] : v \in {writes', Absent}}
  /\ quiet' = FALSE
  /\ UNCHANGED <<box, manifest, out, workVars, backups, restores, failed,
                 before, used, complete, origin, good>>

Damage(p) ==
  /\ Fault("damage")
  /\ box[p] # Absent
  /\ box' \in {[box EXCEPT ![p] = c] : c \in {Absent, Part}}
  /\ good' = FALSE
  /\ quiet' = FALSE
  /\ UNCHANGED <<src, manifest, out, workVars, before, used, complete, origin>>

-----------------------------------------------------------------------------
(* create_backup_archive.                                                   *)

File == Head(files)
KeepsDisk == UNCHANGED <<diskVars, historyVars>>

CanRead(f) == src[f] # Absent

\* Files named like a manifest are ignored wherever they are.  An entry of a
\* directory that cannot be read is passed over without an error.
NotYetSealed ==   \* mutant: what has a container already is left out
  {f \in Files \ Ignored : src[f] # Absent /\ box[Path[f]] = Absent}
Listed == {f \in Files \ Ignored : src[f] # Absent}

Starts(listed) ==
  /\ pc = "idle"
  /\ files' \in SetToSeqs(listed)
  /\ key' \in Keys
  /\ Goto("hash")
  /\ origin' = src
  /\ quiet' = (listed = Listed) /\ good' = FALSE
  /\ UNCHANGED <<diskVars, digest, seen, entries, before, used, complete>>

StartsBackup == /\ backups < MaxBackups
                /\ backups' = backups + 1
                /\ Starts(Listed)
                /\ UNCHANGED <<writes, restores, failed>>

PassesOver == /\ Fault("list")
              /\ \E f \in Listed : Starts(Listed \ {f})

Hashes ==
  /\ pc = "hash" /\ files # <<>>
  /\ CanRead(File)
  /\ digest' = src[File]
  /\ Goto("create")
  /\ UNCHANGED <<key, files, seen, entries, boundVars>>
  /\ KeepsDisk

SkipsVanished ==   \* mutant: the loop goes on, with an entry
  /\ pc \in {"hash", "create"} /\ files # <<>>
  /\ src[File] = Absent
  /\ entries' = Append(entries, [path |-> Path[File], version |-> digest])
  /\ files' = Tail(files)
  /\ Goto("hash")
  /\ UNCHANGED <<key, digest, seen, boundVars>>
  /\ KeepsDisk

FileVanished ==
  /\ pc \in {"hash", "create"} /\ files # <<>>
  /\ src[File] = Absent
  /\ Return
  /\ UNCHANGED <<key, boundVars>>
  /\ KeepsDisk

\* The source is opened, then the container is created or truncated.
CreatesContainer ==
  /\ pc = "create"
  /\ src[File] # Absent
  /\ seen' = src[File]
  /\ box' = [box EXCEPT ![Path[File]] = Part]
  /\ good' = FALSE
  /\ Goto("seal")
  /\ UNCHANGED <<src, manifest, out, key, files, digest, entries, boundVars,
                 before, used, complete, origin, quiet>>

\* A file that was replaced after it was opened is read as it was, one that was
\* written to in place as it is.
Seals ==
  /\ pc = "seal"
  /\ \E v \in {seen, src[File]} \ {Absent} :
       box' = [box EXCEPT ![Path[File]] = [version |-> v, key |-> key]]
  /\ entries' = Append(entries, [path |-> Path[File], version |-> digest])
  /\ files' = Tail(files)
  /\ digest' = 0 /\ seen' = 0
  /\ Goto("hash")
  /\ UNCHANGED <<src, manifest, out, key, boundVars, historyVars>>

CreatesManifest ==
  /\ pc = "hash" /\ files = <<>>
  /\ manifest' = Part
  /\ good' = FALSE
  /\ Goto("sealManifest")
  /\ UNCHANGED <<src, box, out, key, files, digest, seen, entries, boundVars,
                 before, used, complete, origin, quiet>>

SealsManifest ==
  /\ pc = "sealManifest"
  /\ manifest' = [entries |-> entries, key |-> key]
  /\ good' = quiet
  /\ Return
  /\ UNCHANGED <<src, box, out, key, boundVars, before, used, complete, origin, quiet>>

\* A call to the operating system fails: the command returns at once and leaves
\* what it has written.
CallFails ==
  /\ pc # "idle"
  /\ Fault("call")
  /\ Return
  /\ UNCHANGED key
  /\ KeepsDisk

-----------------------------------------------------------------------------
(* restore_backup_archive.                                                  *)

Entry == Head(entries)
Readable(content, k) == content \notin {Absent, Part} /\ content.key = k

StartsRestore ==
  /\ pc = "idle"
  /\ restores < MaxRestores
  /\ restores' = restores + 1
  /\ key' \in Keys
  /\ Readable(manifest, key')
  /\ entries' = manifest.entries
  /\ before' = out /\ used' = manifest /\ complete' = FALSE
  /\ Goto("target")
  /\ UNCHANGED <<diskVars, files, digest, seen, writes, backups, failed,
                 origin, quiet, good>>

ContainerMissing ==
  /\ pc = "target" /\ entries # <<>>
  /\ box[Entry.path] = Absent
  /\ Return
  /\ UNCHANGED <<key, boundVars>>
  /\ KeepsDisk

\* The target is created or truncated before anything is decrypted.
CreatesTarget ==
  /\ pc = "target" /\ entries # <<>>
  /\ box[Entry.path] # Absent
  /\ out' = [out EXCEPT ![Entry.path] = Part]
  /\ Goto("decrypt")
  /\ UNCHANGED <<src, box, manifest, key, files, digest, seen, entries, boundVars,
                 historyVars>>

Decrypts ==
  /\ pc = "decrypt"
  /\ Readable(box[Entry.path], key)
  /\ out' = [out EXCEPT ![Entry.path] = box[Entry.path].version]
  /\ Goto("verify")
  /\ UNCHANGED <<src, box, manifest, key, files, digest, seen, entries, boundVars,
                 historyVars>>

\* Damaged, cut off, or sealed with another key.
DecryptionFails ==
  /\ pc = "decrypt"
  /\ ~Readable(box[Entry.path], key)
  /\ Return
  /\ UNCHANGED <<key, boundVars>>
  /\ KeepsDisk

AnyContent == TRUE   \* mutant
Matches == out[Entry.path] = Entry.version

Verifies ==
  /\ pc = "verify"
  /\ Matches
  /\ entries' = Tail(entries)
  /\ Goto("target")
  /\ UNCHANGED <<key, files, digest, seen, boundVars>>
  /\ KeepsDisk

\* The target is removed.
LeftBehind == out   \* mutant
Removed == [out EXCEPT ![Entry.path] = Absent]

VerificationFails ==
  /\ pc = "verify"
  /\ ~Matches
  /\ out' = Removed
  /\ Return
  /\ UNCHANGED <<src, box, manifest, key, boundVars, historyVars>>

Succeeds ==
  /\ pc = "target" /\ entries = <<>>
  /\ complete' = TRUE
  /\ Return
  /\ UNCHANGED <<diskVars, key, boundVars, before, used, origin, quiet, good>>

-----------------------------------------------------------------------------
\* The process ends, wherever it is.
Crash ==
  /\ pc # "idle"
  /\ Fault("crash")
  /\ Return
  /\ UNCHANGED key
  /\ KeepsDisk

BackupStep ==
  \/ StartsBackup \/ PassesOver \/ Hashes \/ FileVanished \/ CreatesContainer
  \/ Seals \/ CreatesManifest \/ SealsManifest

RestoreStep ==
  \/ StartsRestore \/ ContainerMissing \/ CreatesTarget \/ Decrypts
  \/ DecryptionFails \/ Verifies \/ VerificationFails \/ Succeeds

Next ==
  \/ BackupStep \/ RestoreStep \/ CallFails \/ Crash
  \/ \E f \in Files : Write(f)
  \/ \E p \in Paths : Damage(p)

Spec == Init /\ [][Next]_vars

-----------------------------------------------------------------------------
(* Properties.                                                              *)

\* A restoration that succeeds has put back what one backup found, each file
\* as its digest says, although containers of several backups may be mixed.
RestoredIsOneBackup ==
  complete => \A i \in DOMAIN used.entries : out[used.entries[i].path] = used.entries[i].version

\* A backup that returned without an error, from a folder that was listed in
\* full and not written to, holds every file of it, and nothing keeps it from
\* being restored while it lies untouched.
GoodBackupRestores ==
  good =>
    /\ manifest \in Manifests
    /\ \A f \in Files \ Ignored : origin[f] # Absent =>
         /\ \E i \in DOMAIN manifest.entries : manifest.entries[i].path = Path[f]
         /\ (\A g \in Files \ Ignored : origin[g] # Absent /\ Path[g] = Path[f] => g = f) =>
              /\ box[Path[f]] = [version |-> origin[f], key |-> manifest.key]
              /\ \A i \in DOMAIN manifest.entries :
                   manifest.entries[i].path = Path[f] => manifest.entries[i].version = origin[f]

\* The manifest is written last, so the containers it speaks of exist, whatever
\* backup was cut off since - unless one is taken away.
ManifestMeansContainers ==
  manifest \in Manifests /\ "damage" \notin failed =>
    \A i \in DOMAIN manifest.entries : box[manifest.entries[i].path] # Absent

\* What a restoration leaves, successful or not: at each path what was there
\* before or what the manifest says, but for one file, which is cut off or
\* missing, or unverified if the process ended or the check could not be made.
OneTargetInDoubt ==
  LET Promised(p) == {used.entries[i].version :
                        i \in {j \in DOMAIN used.entries : used.entries[j].path = p}}
      InDoubt == {p \in Paths : out[p] \notin {before[p]} \cup Promised(p)}
  IN  used # NoManifest =>
        /\ Cardinality(InDoubt) <= 1
        /\ pc = "idle" /\ failed \cap {"call", "crash"} = {} =>
             \A p \in InDoubt : out[p] \in {Absent, Part}
=============================================================================
