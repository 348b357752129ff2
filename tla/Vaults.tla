-------------------------------- MODULE Vaults --------------------------------
(***************************************************************************)
(* Vaults: create_vault, open_vault, the extractions and close_vault       *)
(* (vault/mod.rs) behind their commands, together with the page that calls *)
(* them.  The commands run one after the other on the main thread, in the  *)
(* order of the calls.  What interleaves with them is the user, who clicks *)
(* while earlier calls are under way, and other programs, which change the *)
(* chosen files while a vault is made.                                     *)
(*                                                                         *)
(* There is one vault file.  Entries of folders themselves, modification   *)
(* times and contents are left out: the size of a file stands for its      *)
(* content.  What a request carries besides a session is chosen when the   *)
(* request is handled.                                                     *)
(***************************************************************************)
EXTENDS Naturals, Sequences, FiniteSets, SequencesExt

CONSTANTS Files,       \* the files users choose, directly or by their folder
          Nested,      \* those chosen by way of their folder
          Place,       \* the path of each file in the archive
          Selections,     \* the sequences of files that users choose
          Gone, Link,  \* no file; a symbolic link or a special file
          NoVault,     \* nothing has the name of the vault
          Torn,        \* the part of a container that a copy has written
          NoContent,   \* a session that is not open, nothing extracted
          Sizes,       \* the sizes of files
          Before,      \* what the vault's name may lead to at the start
          Header,      \* what an entry adds to the size of its file
          Limit,       \* MAX_VAULT_PLAINTEXT_SIZE
          Margin,      \* VAULT_TAR_OVERHEAD_MARGIN
          MaxChanges,  \* bound: changes of the files by other programs
          MaxCreates,  \* bound: creations
          MaxOpens,    \* bound: sessions
          MaxPending,  \* bound: calls the page has not heard of again
          Faults,      \* what may fail, each once
          MaxFaults    \* bound: failures in a behaviour

Types == {"file", "link"}
Entries == [file : Files, type : Types, size : Sizes \cup {0}]
Archives == Seq(Entries)
Sessions == 1 .. MaxOpens
NoSession == 0

PackedSize(archive) == FoldSeq(LAMBDA e, n : n + e.size + Header, 0, archive)

\* Where the entries are that a session lists: links and special files are not shown.
UpToLink(archive) ==   \* mutant: the first link ends the loop
  {i \in DOMAIN archive : \A k \in 1 .. i : archive[k].type = "file"}
Extractable(archive) == {i \in DOMAIN archive : archive[i].type = "file"}
PathOf(entry) == Place[entry.file]

ASSUME FilesAssumption == /\ Nested \subseteq Files
                          /\ Place \in [Files -> {Place[f] : f \in Files}]
                          /\ Selections \subseteq Seq(Files) \ {<<>>}
ASSUME SizesAssumption == /\ Sizes \subseteq Nat
                          /\ {Header, Limit, Margin} \subseteq Nat
                          /\ Margin <= Limit
                          /\ Gone \notin Sizes /\ Link \notin Sizes
ASSUME VaultAssumption ==
  /\ {NoVault, Torn, NoContent} \cap Archives = {} /\ Torn # NoVault
  /\ Before \subseteq Archives \cup {NoVault}
  /\ \A content \in Before \cap Archives : PackedSize(content) <= Limit
ASSUME BoundsAssumption == {MaxChanges, MaxCreates, MaxOpens, MaxPending, MaxFaults} \subseteq Nat

VARIABLES
  disk,       \* the size of each file, or what is there instead
  vault,      \* what the name of the vault leads to
  temps,      \* number of temporary containers on the disk
  pc,         \* where create_vault is
  sources,    \* what it was called with
  next,       \* the source it comes to
  total,      \* what it has counted
  packed,     \* tar_buf
  sessions,   \* VAULT_SESSIONS: the archive of each session
  opened,     \* sessions opened so far
  dest,       \* the extracted entry at each path of the destination
  requests,   \* calls the backend has not handled
  answers,    \* answers the page has not seen, without those it ignores
  shown,      \* currentVaultSession
  unpacked,   \* history: the archive last extracted, with nothing since
  impatient,  \* history: a vault was asked for while another was on its way
  changes, creates, failed

createVars == <<pc, sources, next, total, packed>>
pageVars == <<requests, answers, shown, impatient>>
sessionVars == <<sessions, opened, dest, unpacked>>
boundVars == <<changes, creates, failed>>
vars == <<disk, vault, temps, createVars, pageVars, sessionVars, boundVars>>

Stages == {"idle", "validate", "pack", "seal", "encrypt", "commit", "copy", "remove"}
Messages == ({"create", "open"} \X {NoSession}) \cup ({"close", "extract", "extractAll"} \X Sessions)
Places == {Place[f] : f \in Files}
Empty == [p \in Places |-> NoContent]

TypeOK ==
  /\ disk \in [Files -> Sizes \cup {Gone, Link}]
  /\ vault \in Archives \cup {NoVault, Torn}
  /\ temps \in 0 .. MaxCreates
  /\ pc \in Stages
  /\ sources \in Selections \cup {<<>>}
  /\ next \in 0 .. Len(sources) + 1
  /\ total \in Nat
  /\ packed \in Archives
  /\ sessions \in [Sessions -> Archives \cup {NoContent}]
  /\ opened \in 0 .. MaxOpens
  /\ dest \in [Places -> Entries \cup {NoContent}]
  /\ requests \in Seq(Messages)
  /\ answers \in Seq({"opened", "closed"} \X Sessions)
  /\ shown \in Sessions \cup {NoSession}
  /\ unpacked \in Archives \cup {NoContent}
  /\ impatient \in BOOLEAN
  /\ changes \in 0 .. MaxChanges
  /\ creates \in 0 .. MaxCreates
  /\ failed \subseteq Faults

Init ==
  /\ disk \in [Files -> Sizes \cup {Link}]
  /\ vault \in Before
  /\ temps = 0
  /\ pc = "idle" /\ sources = <<>> /\ next = 0 /\ total = 0 /\ packed = <<>>
  /\ sessions = [s \in Sessions |-> NoContent]
  /\ opened = 0
  /\ dest = Empty
  /\ requests = <<>> /\ answers = <<>>
  /\ shown = NoSession
  /\ unpacked = NoContent
  /\ impatient = FALSE
  /\ changes = 0 /\ creates = 0 /\ failed = {}

Fault(kind) == /\ kind \in Faults \ failed
               /\ Cardinality(failed) < MaxFaults
               /\ failed' = failed \cup {kind}
               /\ UNCHANGED <<changes, creates>>

-----------------------------------------------------------------------------
(* Other programs.  What is inside a folder may become a link; a file that  *)
(* was chosen itself and becomes one is followed, like a file of another    *)
(* size.                                                                    *)

Change(f) ==
  /\ changes < MaxChanges
  /\ changes' = changes + 1
  /\ \E d \in Sizes \cup {Gone} \cup (IF f \in Nested THEN {Link} ELSE {}) :
        /\ d # disk[f]
        /\ disk' = [disk EXCEPT ![f] = d]
  /\ UNCHANGED <<vault, temps, createVars, pageVars, sessionVars, creates, failed>>

-----------------------------------------------------------------------------
(* The page.  The buttons stay enabled while a call is under way; creating  *)
(* and opening can be reached when no session is shown, the rest when one   *)
(* is.                                                                      *)

Call(op, s) == /\ Len(requests) + Len(answers) < MaxPending
               /\ requests' = Append(requests, <<op, s>>)
               /\ UNCHANGED <<disk, vault, temps, createVars, sessionVars, answers, shown, boundVars>>

ClickCreate == /\ shown = NoSession
               /\ Call("create", NoSession)
               /\ UNCHANGED impatient

OpenUnderWay == \/ \E i \in DOMAIN requests : requests[i][1] = "open"
                \/ \E i \in DOMAIN answers : answers[i][1] = "opened"

ClickOpen == /\ shown = NoSession
             /\ Call("open", NoSession)
             /\ impatient' = (impatient \/ OpenUnderWay)

\* Locking, and the two ways of extracting, name the session that is shown.
ClickInSession == /\ shown # NoSession
                  /\ \E op \in {"close", "extract", "extractAll"} : Call(op, shown)
                  /\ UNCHANGED impatient

\* The continuation of the call whose answer is the next.  A closed session is
\* forgotten, and so is any other that is shown by then.
Shows(answer) == IF answer[1] = "opened" THEN answer[2] ELSE NoSession

Receive ==
  /\ answers # <<>>
  /\ answers' = Tail(answers)
  /\ shown' = Shows(Head(answers))
  /\ UNCHANGED <<disk, vault, temps, createVars, sessionVars, requests, impatient, boundVars>>

Handles(op) == /\ pc = "idle"
               /\ requests # <<>>
               /\ Head(requests)[1] = op
               /\ requests' = Tail(requests)
               /\ UNCHANGED <<shown, impatient>>
Of == Head(requests)[2]

-----------------------------------------------------------------------------
(* create_vault.                                                            *)

Goto(stage) == pc' = stage
ReturnMidway ==   \* mutant: the position is not reset
  Goto("idle") /\ sources' = <<>> /\ packed' = <<>> /\ UNCHANGED <<next, total>>
Return == Goto("idle") /\ sources' = <<>> /\ next' = 0 /\ total' = 0 /\ packed' = <<>>
OnlyCreates == UNCHANGED <<disk, pageVars, sessionVars>>
Source == sources[next]

\* Without credentials or without sources the command returns at once; those
\* calls change nothing and are left out.
Creates ==
  /\ Handles("create")
  /\ creates < MaxCreates
  /\ creates' = creates + 1
  /\ sources' \in Selections
  /\ next' = Len(sources')
  /\ Goto("validate")
  /\ UNCHANGED <<disk, vault, temps, total, packed, sessionVars, answers, changes, failed>>

\* The last path that was found is looked at first.
Counts ==
  /\ pc = "validate" /\ next > 0
  /\ disk[Source] \in Sizes
  /\ total + disk[Source] <= Limit - Margin
  /\ total' = total + disk[Source]
  /\ next' = next - 1
  /\ UNCHANGED <<vault, temps, pc, sources, packed, boundVars>>
  /\ OnlyCreates

\* A file that was removed before its folder was listed is not missed.
NotListed ==
  /\ Source \in Nested
  /\ disk[Source] = Gone
  /\ UNCHANGED <<vault, temps, pc, sources, total, packed, boundVars>>
  /\ OnlyCreates

CountsNothing == pc = "validate" /\ next > 0 /\ next' = next - 1 /\ NotListed

Refuses ==
  /\ pc = "validate" /\ next > 0
  /\ \/ disk[Source] \in {Gone, Link}
     \/ disk[Source] \in Sizes /\ total + disk[Source] > Limit - Margin
  /\ Return
  /\ UNCHANGED <<vault, temps, boundVars>>
  /\ OnlyCreates

StartsPacking ==
  /\ pc = "validate" /\ next = 0
  /\ next' = 1
  /\ Goto("pack")
  /\ UNCHANGED <<vault, temps, sources, total, packed, boundVars>>
  /\ OnlyCreates

\* A link inside a folder is archived as a link.
EntryOf(f) == IF disk[f] = Link THEN [file |-> f, type |-> "link", size |-> 0]
              ELSE [file |-> f, type |-> "file", size |-> disk[f]]

Packs ==
  /\ pc = "pack" /\ next <= Len(sources)
  /\ disk[Source] # Gone
  /\ packed' = Append(packed, EntryOf(Source))
  /\ next' = next + 1
  /\ UNCHANGED <<vault, temps, pc, sources, total, boundVars>>
  /\ OnlyCreates

PacksNothing == pc = "pack" /\ next <= Len(sources) /\ next' = next + 1 /\ NotListed

PackFails ==
  /\ pc = "pack" /\ next <= Len(sources)
  /\ disk[Source] = Gone
  /\ Return
  /\ UNCHANGED <<vault, temps, boundVars>>
  /\ OnlyCreates

\* The archive is measured again: the files may have grown.
AnySize == TRUE   \* mutant
WithinLimit == PackedSize(packed) <= Limit

Measures ==
  /\ pc = "pack" /\ next > Len(sources)
  /\ IF WithinLimit
     THEN Goto("seal") /\ UNCHANGED <<sources, next, total, packed>>
     ELSE Return
  /\ UNCHANGED <<vault, temps, boundVars>>
  /\ OnlyCreates

CreatesTemp ==
  /\ pc = "seal"
  /\ temps' = temps + 1
  /\ Goto("encrypt")
  /\ UNCHANGED <<vault, sources, next, total, packed, boundVars>>
  /\ OnlyCreates

\* A keyfile cannot be read, or the temporary container cannot be created.
KeyfileFails ==
  /\ pc = "seal"
  /\ Fault("keyfile")
  /\ Return
  /\ UNCHANGED <<vault, temps>>
  /\ OnlyCreates

Encrypts ==
  /\ pc = "encrypt"
  /\ Goto("commit")
  /\ UNCHANGED <<vault, temps, sources, next, total, packed, boundVars>>
  /\ OnlyCreates

\* Encrypting or synchronising fails, or the vault's name is a link by now.
ReturnsAtOnce ==   \* mutant: the temporary container is left alone
  /\ pc \in {"encrypt", "commit"}
  /\ Fault("encrypt")
  /\ Return
  /\ UNCHANGED <<vault, temps>>
  /\ OnlyCreates
GivesUp ==
  /\ pc \in {"encrypt", "commit"}
  /\ Fault("encrypt")
  /\ Goto("remove")
  /\ UNCHANGED <<vault, temps, sources, next, total, packed>>
  /\ OnlyCreates

Renames ==
  /\ pc = "commit"
  /\ vault' = packed
  /\ temps' = temps - 1
  /\ Return
  /\ UNCHANGED boundVars
  /\ OnlyCreates

\* fs::copy truncates the vault, unless it cannot even open it.
RenameFails ==
  /\ pc = "commit"
  /\ Fault("rename")
  /\ Goto("copy")
  /\ vault' \in {vault, Torn}
  /\ UNCHANGED <<temps, sources, next, total, packed>>
  /\ OnlyCreates

Copies ==
  /\ pc = "copy"
  /\ vault' = packed
  /\ Goto("remove")
  /\ UNCHANGED <<temps, sources, next, total, packed, boundVars>>
  /\ OnlyCreates

CopyFails ==
  /\ pc = "copy"
  /\ Fault("copy")
  /\ Return
  /\ UNCHANGED <<vault, temps>>
  /\ OnlyCreates

\* The temporary container is removed after a failure and after a copy; whether
\* that succeeds changes nothing in what the command returns.
Removes ==
  /\ pc = "remove"
  /\ temps' = temps - 1
  /\ Return
  /\ UNCHANGED <<vault, boundVars>>
  /\ OnlyCreates

RemoveFails ==
  /\ pc = "remove"
  /\ Fault("remove")
  /\ Return
  /\ UNCHANGED <<vault, temps>>
  /\ OnlyCreates

-----------------------------------------------------------------------------
(* Sessions.                                                                *)

\* What the bounded writer, the tag of the container and the stored name admit.
Opens(content) == content \in Archives /\ PackedSize(content) <= Limit

\* A session under a random identifier, which no other has.
OpensVault ==
  /\ Handles("open")
  /\ Opens(vault)
  /\ opened < MaxOpens
  /\ opened' = opened + 1
  /\ sessions' = [sessions EXCEPT ![opened'] = vault]
  /\ answers' = Append(answers, <<"opened", opened'>>)
  /\ UNCHANGED <<disk, vault, temps, createVars, dest, unpacked, boundVars>>

\* No vault, one that is damaged, or other credentials.
FailsToOpen ==
  /\ Handles("open")
  /\ UNCHANGED <<disk, vault, temps, createVars, sessionVars, answers, boundVars>>

\* The session is taken out of the table, and its buffer wiped.
OnlyLookedUp(s) == sessions   \* mutant
Without(s) == [sessions EXCEPT ![s] = NoContent]

\* Whether the session is found or not, the page goes on in the same way.
ClosesVault ==
  /\ Handles("close")
  /\ sessions' = Without(Of)
  /\ answers' = Append(answers, <<"closed", Of>>)
  /\ UNCHANGED <<disk, vault, temps, createVars, opened, dest, unpacked, boundVars>>

\* Entries are written one after the other, a later one over an earlier one.
\* Users choose an empty folder each time.
Written(archive) ==
  [p \in Places |->
     LET there == {i \in Extractable(archive) : PathOf(archive[i]) = p}
     IN  IF there = {} THEN NoContent
         ELSE archive[CHOOSE i \in there : \A k \in there : k <= i]]

\* extract_all_vault: everything, or what precedes an entry that cannot be
\* written, of which a part may be there; that part is left out.
ExtractsAll ==
  /\ Handles("extractAll")
  /\ sessions[Of] # NoContent
  /\ dest' = Written(sessions[Of])
  /\ unpacked' = sessions[Of]
  /\ UNCHANGED <<disk, vault, temps, createVars, sessions, opened, answers, boundVars>>

FailsToExtractAll ==
  /\ Handles("extractAll")
  /\ sessions[Of] # NoContent
  /\ Fault("extract")
  /\ \E n \in 0 .. Len(sessions[Of]) - 1 : dest' = Written(SubSeq(sessions[Of], 1, n))
  /\ unpacked' = NoContent
  /\ UNCHANGED <<disk, vault, temps, createVars, sessions, opened, answers>>

\* extract_vault_entry: the first entry with the path, if it is a file.
FirstAt(archive, p) ==
  LET there == {i \in DOMAIN archive : PathOf(archive[i]) = p}
  IN  archive[CHOOSE i \in there : \A k \in there : i <= k]

ExtractsEntry ==
  /\ Handles("extract")
  /\ sessions[Of] # NoContent
  /\ \E i \in Extractable(sessions[Of]) :
       LET entry == FirstAt(sessions[Of], PathOf(sessions[Of][i]))
       IN  /\ entry.type = "file"
           /\ dest' = [Empty EXCEPT ![PathOf(entry)] = entry]
  /\ unpacked' = NoContent
  /\ UNCHANGED <<disk, vault, temps, createVars, sessions, opened, answers, boundVars>>

\* The session was closed, the entry is a link, or writing fails.
FailsToExtract ==
  /\ Handles("extract") \/ (Handles("extractAll") /\ sessions[Of] = NoContent)
  /\ UNCHANGED <<disk, vault, temps, createVars, sessionVars, answers, boundVars>>

\* The sessions and the page go with the process.  The user starts it again.
Crash ==
  /\ Fault("crash")
  /\ Return
  /\ sessions' = [s \in Sessions |-> NoContent]
  /\ requests' = <<>> /\ answers' = <<>>
  /\ shown' = NoSession
  /\ UNCHANGED <<disk, vault, temps, opened, dest, unpacked, impatient>>

-----------------------------------------------------------------------------
CreateStep ==
  \/ Creates \/ Counts \/ CountsNothing \/ Refuses \/ StartsPacking
  \/ Packs \/ PacksNothing \/ PackFails \/ Measures
  \/ CreatesTemp \/ KeyfileFails \/ Encrypts \/ GivesUp
  \/ Renames \/ RenameFails \/ Copies \/ CopyFails \/ Removes \/ RemoveFails

SessionStep ==
  \/ OpensVault \/ FailsToOpen \/ ClosesVault \/ ExtractsAll \/ FailsToExtractAll
  \/ ExtractsEntry \/ FailsToExtract

PageStep == ClickCreate \/ ClickOpen \/ ClickInSession \/ Receive

Next == PageStep \/ CreateStep \/ SessionStep \/ (\E f \in Files : Change(f)) \/ Crash

Spec == Init /\ [][Next]_vars

-----------------------------------------------------------------------------
(* Properties.                                                              *)

\* Whatever other programs do to the files meanwhile, a vault that create_vault
\* has committed is within the limit up to which open_vault decrypts.
CommittedVaultOpens == vault \in Archives => Opens(vault)

\* A container in parts has the vault's name only after a rename that failed,
\* and a temporary container outlives its creation only if the process ended, or
\* the copy failed, or the removal itself did: no other failure leaves one.
Leaving == {"crash", "copy", "remove"}
NoRemains ==
  /\ vault = Torn => "rename" \in failed
  /\ temps <= Cardinality(failed \cap Leaving)
                + (IF pc \in {"encrypt", "commit", "copy", "remove"} THEN 1 ELSE 0)

\* When the page shows that no vault is open and no answer is outstanding, no
\* decrypted archive is in memory - as long as the user has always waited for
\* one vault to open before asking for it again.
LockedMeansClosed ==
  shown = NoSession /\ ~OpenUnderWay /\ ~impatient =>
    \A s \in Sessions : sessions[s] = NoContent

\* "Extracts all entries from an open vault session into the destination
\* directory": each of its files is at its path afterwards.
EveryFileExtracted ==
  unpacked # NoContent =>
    \A i \in DOMAIN unpacked :
      unpacked[i].type = "file" => dest[PathOf(unpacked[i])] = unpacked[i]

\* So it is when no two entries have the same path.
DistinctFilesExtracted ==
  (unpacked # NoContent /\ \A i, j \in DOMAIN unpacked :
     PathOf(unpacked[i]) = PathOf(unpacked[j]) => i = j)
  => EveryFileExtracted
=============================================================================
