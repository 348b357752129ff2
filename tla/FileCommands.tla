----------------------------- MODULE FileCommands -----------------------------
(***************************************************************************)
(* encrypt_file_cmd, decrypt_file_cmd and shred_file_cmd in one directory  *)
(* (commands/mod.rs, the command line calls the same functions): several   *)
(* commands of several processes, other programs that write and delete     *)
(* there, and failures of the calls to the operating system.               *)
(*                                                                         *)
(* The directory maps names to inodes and inodes have contents, because a  *)
(* command reads from an inode it opened, overwrites one in place, and     *)
(* renames and removes by name.  A content is known by its origin, the     *)
(* number of the write that made it, and the names that encryptions have   *)
(* stored in manifests on the way: a container of a container has two.     *)
(***************************************************************************)
EXTENDS Naturals, Sequences, FiniteSets

CONSTANTS Jobs,        \* commands, each called once
          Names,       \* file names
          Shared,      \* those that other programs use as well
          NoName,      \* no name, no destination chosen
          NoFile,      \* no inode
          Requests,    \* what a command may be called with
          NoRequest,   \* a command not called yet
          ContainerOf, \* default name of the container of each name
          Siblings,    \* what unique_output_path tries for a name, in order
          Before,      \* the contents of the directory at the start
          Settings,    \* which values alone may have
          MaxWrites,   \* bound: number of the last write by another program
          Faults,      \* what may fail
          MaxFaults    \* bound: failures in a behaviour, each of another kind,
                       \* without those that follow a failed rename

Origins == 0 .. MaxWrites + 1
Contents == [origin : Origins, names : Seq(Names)]
Plain(v) == [origin |-> v, names |-> <<>>]
Blank == Plain(0)               \* a file that was created or truncated
Wiped == Plain(MaxWrites + 1)   \* what shredding leaves of a file

Inodes == ({"write"} \X (1 .. MaxWrites)) \cup ({"temp", "copy"} \X Jobs)
Temp(j) == <<"temp", j>>     \* the temporary file of a command
Copy(j) == <<"copy", j>>     \* what fs::copy creates

ASSUME NamesAssumption == NoName \notin Names /\ Shared \subseteq Names
ASSUME NoFileAssumption == NoFile \notin Inodes
ASSUME FiniteAssumption == IsFiniteSet(Jobs) /\ IsFiniteSet(Names)
ASSUME RequestsAssumption ==
  /\ Requests \subseteq [op : {"encrypt", "decrypt", "shred"}, input : Names,
                         output : Names \cup {NoName}, shred : BOOLEAN]
  /\ NoRequest \notin Requests
ASSUME OutputsAssumption ==
  /\ \A r \in Requests : r.op = "encrypt" => ContainerOf[r.input] \in Names
  /\ \A n \in Names : Siblings[n] \in Seq(Names) /\ Siblings[n] # <<>>

\* The directory has been filled by the first writes.
Filled == DOMAIN Before
ASSUME BeforeAssumption ==
  /\ Filled \subseteq Names
  /\ Before \in [Filled -> Contents]
  /\ \E k \in 0 .. MaxWrites : {Before[n].origin : n \in Filled} = 1 .. k
  /\ \A n, m \in Filled : Before[n].origin = Before[m].origin => n = m
ASSUME BoundsAssumption == /\ MaxWrites \in Nat
                           /\ MaxFaults \in Nat
                           /\ Settings \subseteq BOOLEAN

VARIABLES
  alone,   \* one command at a time, others write only in between
  dir,     \* the inode each name leads to
  data,    \* the content of each inode
  temps,   \* commands whose temporary file has a name
  pc,      \* where each command is
  req,     \* what it was called with
  out,     \* out_p
  fd,      \* the inode of in_file
  read,    \* what was encrypted or decrypted
  writes,  \* the last write
  failed,  \* what has failed so far
  asked,   \* history: origins a user or another program has destroyed
  raced    \* history: origins destroyed because others worked meanwhile

diskVars == <<dir, data, temps>>
jobVars == <<req, out, fd, read>>
boundVars == <<alone, writes, failed>>
historyVars == <<asked, raced>>
vars == <<diskVars, pc, jobVars, boundVars, historyVars>>

Resting == {"idle", "done", "failed", "crashed"}
Stages == {"open", "create", "keyfile", "transform", "cleanup", "name", "commit",
           "copy", "fill", "stat", "shred", "unlink"}

TypeOK ==
  /\ alone \in BOOLEAN
  /\ dir \in [Names -> Inodes \cup {NoFile}]
  /\ data \in [Inodes -> Contents]
  /\ temps \subseteq Jobs
  /\ pc \in [Jobs -> Resting \cup Stages]
  /\ req \in [Jobs -> Requests \cup {NoRequest}]
  /\ out \in [Jobs -> Names \cup {NoName}]
  /\ fd \in [Jobs -> Inodes \cup {NoFile}]
  /\ read \in [Jobs -> Contents]
  /\ writes \in 0 .. MaxWrites
  /\ failed \subseteq Faults
  /\ asked \subseteq Origins
  /\ raced \subseteq Origins

Exists(n) == dir[n] # NoFile
Content(n) == data[dir[n]]

\* What goes with a file that is destroyed: what it holds, and what is being
\* copied into it.
OriginsAt(n) == {Content(n).origin}
                  \cup {read[j].origin : j \in {k \in Jobs : pc[k] = "fill" /\ fd[k] = dir[n]}}

Init ==
  /\ alone \in Settings
  /\ dir = [n \in Names |-> IF n \in Filled THEN <<"write", Before[n].origin>> ELSE NoFile]
  /\ data = [i \in Inodes |->
               IF \E n \in Names : dir[n] = i
               THEN Before[CHOOSE n \in Names : dir[n] = i] ELSE Blank]
  /\ temps = {}
  /\ pc = [j \in Jobs |-> "idle"]
  /\ req = [j \in Jobs |-> NoRequest]
  /\ out = [j \in Jobs |-> NoName]
  /\ fd = [j \in Jobs |-> NoFile]
  /\ read = [j \in Jobs |-> Blank]
  /\ writes \in 0 .. MaxWrites
  /\ {Before[n].origin : n \in Filled} = 1 .. writes
  /\ failed = {}
  /\ asked = {}
  /\ raced = {}

Goto(j, stage) == pc' = [pc EXCEPT ![j] = stage]

Fault(kind) == /\ kind \in Faults \ failed
               /\ Cardinality(failed) < MaxFaults
               /\ failed' = failed \cup {kind}
               /\ UNCHANGED <<alone, writes>>

Quiet == \A j \in Jobs : pc[j] \in Resting

-----------------------------------------------------------------------------
(* Other programs.                                                          *)

\* A file is created, or its content replaced in place.
Write(n) ==
  /\ alone => Quiet
  /\ writes < MaxWrites
  /\ writes' = writes + 1
  /\ LET i == IF Exists(n) THEN dir[n] ELSE <<"write", writes'>>
     IN  /\ dir' = [dir EXCEPT ![n] = i]
         /\ data' = [data EXCEPT ![i] = Plain(writes')]
  /\ asked' = IF Exists(n) THEN asked \cup OriginsAt(n) ELSE asked
  /\ UNCHANGED <<temps, pc, jobVars, alone, failed, raced>>

Delete(n) ==
  /\ alone => Quiet
  /\ Exists(n)
  /\ dir' = [dir EXCEPT ![n] = NoFile]
  /\ asked' = asked \cup OriginsAt(n)
  /\ UNCHANGED <<data, temps, pc, jobVars, boundVars, raced>>

-----------------------------------------------------------------------------
(* From the call to the temporary file.                                     *)

\* The name as it is, the first of "name (1)", "name (2)" ... that does not
\* exist, or else one with a random number.
AsDesired(n) == n   \* mutant
UniqueOutputPath(n) ==
  LET s == Siblings[n]
      free == {i \in 1 .. Len(s) : ~Exists(s[i])}
  IN  IF free = {} THEN s[Len(s)] ELSE s[CHOOSE i \in free : \A k \in free : i <= k]

Destination(r, desired) == IF r.output # NoName THEN r.output ELSE UniqueOutputPath(desired)

\* The input exists. Encryption knows its destination now, decryption later.
Called(j, r) ==
  /\ pc[j] = "idle"
  /\ alone => Quiet
  /\ req' = [req EXCEPT ![j] = r]
  /\ IF ~Exists(r.input) THEN Goto(j, "failed") /\ UNCHANGED out
     ELSE /\ Goto(j, IF r.op = "shred" THEN "shred" ELSE "open")
          /\ out' = IF r.op = "encrypt"
                    THEN [out EXCEPT ![j] = Destination(r, ContainerOf[r.input])]
                    ELSE out
  /\ UNCHANGED <<diskVars, fd, read, boundVars, historyVars>>

Opens(j) ==
  /\ pc[j] = "open"
  /\ fd' = [fd EXCEPT ![j] = dir[req[j].input]]
  /\ Goto(j, IF Exists(req[j].input) THEN "create" ELSE "failed")
  /\ UNCHANGED <<diskVars, req, out, read, boundVars, historyVars>>

\* Mutant: the destination itself is created, or truncated.
CreatesOutput(j) ==
  /\ pc[j] = "create"
  /\ dir' = IF out[j] = NoName THEN dir ELSE [dir EXCEPT ![out[j]] = Temp(j)]
  /\ temps' = temps \cup {j}
  /\ Goto(j, "keyfile")
  /\ UNCHANGED <<data, jobVars, boundVars, historyVars>>

\* create_new with a random suffix: a file of its own, empty.
CreatesTemp(j) ==
  /\ pc[j] = "create"
  /\ temps' = temps \cup {j}
  /\ Goto(j, "keyfile")
  /\ UNCHANGED <<dir, data, jobVars, boundVars, historyVars>>

FailsToCreate(j) ==
  /\ pc[j] = "create"
  /\ Fault("create")
  /\ Goto(j, "failed")
  /\ UNCHANGED <<diskVars, jobVars, historyVars>>

AppliesKeyfiles(j) ==
  /\ pc[j] = "keyfile"
  /\ Goto(j, "transform")
  /\ UNCHANGED <<diskVars, jobVars, boundVars, historyVars>>

\* The ? of apply_keyfile_paths returns without a clean-up.
KeyfileFails(j) ==
  /\ pc[j] = "keyfile"
  /\ Fault("keyfile")
  /\ Goto(j, "failed")
  /\ UNCHANGED <<diskVars, jobVars, historyVars>>

\* What the command makes of a content; a container holds a name.
IsContainer(c) == c.names # <<>>
ResultNamedByOutput(r, c) ==   \* mutant: the name stored is the destination's
  [c EXCEPT !.names = IF r.op = "encrypt" THEN Append(@, r.output) ELSE SubSeq(@, 1, Len(@) - 1)]
Result(r, c) ==
  [c EXCEPT !.names = IF r.op = "encrypt" THEN Append(@, r.input) ELSE SubSeq(@, 1, Len(@) - 1)]
StoredName(c) == c.names[Len(c.names)]

\* encrypt_stream or decrypt_stream, and sync_all.
Transforms(j) ==
  /\ pc[j] = "transform"
  /\ LET c == data[fd[j]]
     IN  /\ req[j].op = "decrypt" => IsContainer(c)
         /\ data' = [data EXCEPT ![Temp(j)] = Result(req[j], c)]
         /\ read' = [read EXCEPT ![j] = c]
  /\ Goto(j, IF req[j].op = "decrypt" THEN "name" ELSE "commit")
  /\ UNCHANGED <<dir, temps, req, out, fd, boundVars, historyVars>>

EarlyReturn == "failed"   \* mutant
AfterFailure == "cleanup"

\* Something that is not a container is refused at its header; any other
\* failure may come after everything has been written.
TransformFails(j) ==
  /\ pc[j] = "transform"
  /\ LET c == data[fd[j]]
     IN  IF req[j].op = "decrypt" /\ ~IsContainer(c) THEN UNCHANGED <<data, boundVars>>
         ELSE /\ Fault("transform")
              /\ data' = [data EXCEPT ![Temp(j)] = Result(req[j], c)]
  /\ Goto(j, AfterFailure)
  /\ UNCHANGED <<dir, temps, jobVars, historyVars>>

\* The temporary file is shredded, and the command returns its error.
CleansUp(j) ==
  /\ pc[j] = "cleanup"
  /\ temps' = temps \ {j}
  /\ data' = [data EXCEPT ![Temp(j)] = Wiped]
  /\ Goto(j, "failed")
  /\ UNCHANGED <<dir, jobVars, boundVars, historyVars>>

\* ... if that works: the result is ignored.
FailsToCleanUp(j) ==
  /\ pc[j] = "cleanup"
  /\ Fault("unlink")
  /\ Goto(j, "failed")
  /\ UNCHANGED <<diskVars, jobVars, historyVars>>

\* Decryption: the name in the manifest, in the directory of the container.
ChoosesName(j) ==
  /\ pc[j] = "name"
  /\ out' = [out EXCEPT ![j] = Destination(req[j], StoredName(read[j]))]
  /\ Goto(j, "commit")
  /\ UNCHANGED <<diskVars, req, fd, read, boundVars, historyVars>>

-----------------------------------------------------------------------------
(* commit_file_atomic.                                                      *)

\* Who answers for what is at the destination now.
Replaces(j) ==
  LET lost == IF Exists(out[j]) THEN OriginsAt(out[j]) ELSE {}
  IN  IF req[j].output # NoName
      THEN asked' = asked \cup lost /\ UNCHANGED raced
      ELSE raced' = raced \cup lost /\ UNCHANGED asked

AfterCommit(j) == IF req[j].op = "encrypt" THEN "stat"
                  ELSE IF req[j].shred THEN "shred" ELSE "done"

CommitsByRename(j) ==
  /\ pc[j] = "commit"
  /\ dir' = [dir EXCEPT ![out[j]] = Temp(j)]
  /\ temps' = temps \ {j}
  /\ Replaces(j)
  /\ Goto(j, AfterCommit(j))
  /\ UNCHANGED <<data, jobVars, boundVars>>

\* Mutant: the outcome of the rename is not looked at.
RenameFailsUnnoticed(j) ==
  /\ pc[j] = "commit"
  /\ Fault("rename")
  /\ Goto(j, AfterCommit(j))
  /\ UNCHANGED <<diskVars, jobVars, historyVars>>

RenameFails(j) ==
  /\ pc[j] = "commit"
  /\ Fault("rename")
  /\ Goto(j, "copy")
  /\ UNCHANGED <<diskVars, jobVars, historyVars>>

\* fs::copy creates the destination, or truncates it in place; in_file has been
\* closed, and fd is now the destination's.
CopyStarts(j) ==
  /\ pc[j] = "copy"
  /\ LET i == IF Exists(out[j]) THEN dir[out[j]] ELSE Copy(j)
     IN  /\ dir' = [dir EXCEPT ![out[j]] = i]
         /\ data' = [data EXCEPT ![i] = Blank]
         /\ fd' = [fd EXCEPT ![j] = i]
  /\ Replaces(j)
  /\ Goto(j, "fill")
  /\ UNCHANGED <<temps, req, out, read, boundVars>>

\* The copy is complete, and the temporary file is removed, or stays. What
\* somebody has written to the destination since it was truncated is gone.
CopyEnds(j) ==
  /\ pc[j] = "fill"
  /\ raced' = raced \cup {data[fd[j]].origin}
  /\ data' = [data EXCEPT ![fd[j]] = data[Temp(j)]]
  /\ \/ temps' = temps \ {j} /\ UNCHANGED boundVars
     \/ /\ "unlink" \in Faults
        /\ failed' = failed \cup {"unlink"}
        /\ UNCHANGED <<alone, writes, temps>>
  /\ Goto(j, AfterCommit(j))
  /\ UNCHANGED <<dir, jobVars, asked>>

\* The copy, the last resort after a failed rename, may always fail, before or
\* after it has touched the destination.
CopyFails(j) ==
  /\ pc[j] \in {"copy", "fill"}
  /\ Goto(j, AfterFailure)
  /\ UNCHANGED <<diskVars, jobVars, boundVars, historyVars>>

\* Encryption looks at the size of its container; somebody may have removed it.
Stats(j) ==
  /\ pc[j] = "stat"
  /\ Goto(j, IF ~Exists(out[j]) THEN "failed" ELSE IF req[j].shred THEN "shred" ELSE "done")
  /\ UNCHANGED <<diskVars, jobVars, boundVars, historyVars>>

-----------------------------------------------------------------------------
(* shred_file_with_mode on the input.                                       *)

\* Who answers for what is found under the name of the input: the user, when it
\* is to be shredded or was chosen as the destination, nobody, when it is what
\* the command expects there, and else whoever has changed it meanwhile.
Destroys(j, expected) ==
  LET here == OriginsAt(req[j].input)
  IN  IF req[j].op = "shred" \/ out[j] = req[j].input
      THEN asked' = asked \cup here /\ UNCHANGED raced
      ELSE raced' = raced \cup (here \ {expected.origin}) /\ UNCHANGED asked

Overwrites(j) ==
  /\ pc[j] = "shred"
  /\ Exists(req[j].input)
  /\ Destroys(j, read[j])
  /\ data' = [data EXCEPT ![dir[req[j].input]] = Wiped]
  /\ Goto(j, "unlink")
  /\ UNCHANGED <<dir, temps, jobVars, boundVars>>

\* The file is gone, or cannot be opened: the command fails. A failure between the
\* first pass and the removal is Overwrites and then FailsToUnlink.
FailsToOverwrite(j) ==
  /\ pc[j] = "shred"
  /\ IF Exists(req[j].input) THEN Fault("shred") ELSE UNCHANGED boundVars
  /\ Goto(j, "failed")
  /\ UNCHANGED <<diskVars, jobVars, historyVars>>

\* Renamed three times and removed, whatever is under the name by now.
Unlinks(j) ==
  /\ pc[j] = "unlink"
  /\ Exists(req[j].input)
  /\ Destroys(j, Wiped)
  /\ dir' = [dir EXCEPT ![req[j].input] = NoFile]
  /\ Goto(j, "done")
  /\ UNCHANGED <<data, temps, jobVars, boundVars>>

FailsToUnlink(j) ==
  /\ pc[j] = "unlink"
  /\ IF Exists(req[j].input) THEN Fault("shred") ELSE UNCHANGED boundVars
  /\ Goto(j, "failed")
  /\ UNCHANGED <<diskVars, jobVars, historyVars>>

\* The process ends; its temporary file stays.
Crash(j) ==
  /\ pc[j] \in Stages
  /\ Fault("crash")
  /\ Goto(j, "crashed")
  /\ UNCHANGED <<diskVars, jobVars, historyVars>>

JobStep(j) == \/ \E r \in Requests : Called(j, r)
              \/ Opens(j) \/ CreatesTemp(j) \/ FailsToCreate(j)
              \/ AppliesKeyfiles(j) \/ KeyfileFails(j)
              \/ Transforms(j) \/ TransformFails(j) \/ CleansUp(j) \/ FailsToCleanUp(j)
              \/ ChoosesName(j)
              \/ CommitsByRename(j) \/ RenameFails(j)
              \/ CopyStarts(j) \/ CopyEnds(j) \/ CopyFails(j)
              \/ Stats(j)
              \/ Overwrites(j) \/ FailsToOverwrite(j) \/ Unlinks(j) \/ FailsToUnlink(j)

Next == \/ \E n \in Shared : Write(n) \/ Delete(n)
        \/ \E j \in Jobs : JobStep(j) \/ Crash(j)

Spec == Init /\ [][Next]_vars

-----------------------------------------------------------------------------
Kept == {Content(n).origin : n \in {m \in Names : Exists(m)}}

\* Whatever was written is still in some file of the directory, as it was or in
\* a container, unless a user or another program destroyed it or, when commands
\* do not run one after the other by themselves, others worked on the same names
\* at the same time: no failure and no crash of a command loses anything.
NothingLost == 1 .. writes \subseteq Kept \cup asked \cup (IF alone THEN {} ELSE raced)

\* A command that was not given a destination and commits replaces no file.
ReplacesNothing ==
  \A j \in Jobs :
    pc[j] \in {"commit", "copy"} /\ pc'[j] \notin {"copy", "cleanup", "crashed", pc[j]}
      /\ req[j].output = NoName
    => ~Exists(out[j])

\* README: when no explicit destination is chosen, existing files are never
\* overwritten.  Two commands at once do overwrite: this does not hold.
NoSilentOverwrite == [][ReplacesNothing]_vars

\* They are not as long as commands run one after the other.
NoSilentOverwriteAlone == [][alone => ReplacesNothing]_vars

\* Nobody ever sees an incomplete file under a name that a command has chosen
\* or was given, whenever it fails, as long as renames work.
NeverTorn == "rename" \notin failed => \A n \in Names : Exists(n) => Content(n) # Blank

Returned(j) == pc[j] \in {"done", "failed"}

\* A command that has returned leaves no temporary file, as long as files can be
\* removed - but for one without anything in it, if a keyfile could not be read.
NoRemnants == "unlink" \notin failed =>
  \A j \in temps : Returned(j) => data[Temp(j)] = Blank /\ "keyfile" \in failed

\* A command that has returned leaves no temporary file (AUDIT: the temporary
\* file is shredded on any failure).  This does not hold either: a keyfile that
\* cannot be read leaves one, though an empty one.
NoTemporaryFiles == \A j \in temps : ~Returned(j)
=============================================================================
