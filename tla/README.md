# MirageX in TLA+

MirageX (`src/`) is a desktop and command-line program that encrypts files into
WRAITH containers. This directory holds TLA+ models of the parts of it that
change state, the TLC configurations that check them on small instances, and
theorems about them that TLAPS has proved for every instance.

All line numbers refer to the Rust sources in `src/src/` unless a path says
otherwise. `PROJECT.json` maps every definition to its lines.

## 1. The system

| Component | State | Operations | Talks to |
|---|---|---|---|
| **Folder watcher** `watcher/mod.rs` | global `WATCHER_MANAGER` (mutex, worker handle, status, audit log); per worker: stop flag, key, `file_candidates`, `processed_fingerprints` | `start_folder_watcher`, `stop_folder_watcher`, `get_watcher_status`, `export_watcher_audit_log`, the worker thread's polling loop | container stream, shredder, keyfiles, UI panel (which polls the status) |
| **Single-file commands** `commands/mod.rs` | one temporary file per call, the directory | `encrypt_file_cmd`, `decrypt_file_cmd`, `shred_file_cmd`, `unique_output_path`, `commit_file_atomic` | container stream, shredder, keyfiles; called by the UI and by `cli.rs` |
| **Container stream** `wraith/` | the position in the stream, the lookahead byte, the running hash | `encrypt_stream`, `decrypt_stream`, header and manifest, `inspect_container` | cryptographic primitives |
| **Vaults** `vault/mod.rs` | global `VAULT_SESSIONS` (mutex, decrypted archives in memory) | `create_vault`, `open_vault`, `extract_vault_entry`, `extract_all_vault`, `close_vault`, `list_vault_entries` | container stream, keyfiles, UI panel |
| **Backup** `backup/mod.rs` | source, destination and restore directories, manifest | `create_backup_archive`, `restore_backup_archive` | container stream, keyfiles |
| **Keyfiles** `crypto/keyfile.rs` | pool, checksum and write position of one call | `process_keyfile_buf`, `apply_keyfiles`, `generate_keyfile` | all commands |
| **Command line** `cli.rs` | the words of the command line | `run_cli`, one handler per command | commands, start-up |
| **Start-up** `main.rs`, `commands/mod.rs` | `INITIAL_FILE`; a running instance | `main`, single-instance callback, `get_initial_file_cmd` | command line, UI |
| **Storage, shredder** `storage/` | the file system | `save_stream`, `shred_file_with_mode`, `delete_file`, `stat` | everything that shreds |
| **Primitives** `crypto/{aead,kdf,kem}.rs` | none | wrappers of external libraries | container stream |
| **Updater, previews, MIME** | none | I/O | UI |
| **Web UI** `src/ui/app.js` | vault panel, watcher panel, selected file | event handlers, a status poll every two seconds | every command |

What is hard about it, and what makes each part correct:

* **Folder watcher.** Commands, worker threads and programs that write to the
  watched folder interleave; the worker is stopped by a flag it reads rarely and
  joined by a caller that holds the mutex the worker needs. Correct means: one
  worker at a time, none that nobody can stop, a status and an audit trail that
  are true, a key that is wiped; and on the disk: no file taken for encrypted
  that is not, no content destroyed that is in no container.
* **Single-file commands.** Several processes work in one directory and names
  are chosen long before they are used; each step may fail after a temporary
  file exists. Correct means: a destination is complete or untouched, nothing is
  overwritten unasked, a source is destroyed only when its content is safe, no
  plaintext is left in temporary files.
* **Container stream.** The last chunk is found by looking one byte ahead; the
  reader must refuse everything but exactly the stream that was written.
* **Vaults.** Files grow between the moment they are measured and the moment they
  are packed; sessions hold plaintext until they are closed, and the page that has
  to close them forgets a session when it shows another. Correct means: what is
  committed can be opened again, and a locked page means a wiped memory.
* **Backup.** Many files, no temporary files: a backup over a previous one mixes
  the containers of both, perhaps under two keys, and a failure anywhere leaves
  the mixture. Correct means: what is restored is what one backup found, or the
  restoration is refused.
* **Keyfiles.** Positions wrap at the end of a pool whose size depends on the
  password, bytes wrap at 256. Correct means: no index out of bounds, the pool that
  VeraCrypt computes, and different keys for different passwords.
* **Command line and start-up.** Options are found one word after the other, the
  password by a search of its own; a file may be opened by this process or by one
  that is running. Correct means: the command that is called is the one that was
  meant, and the file arrives under the right heading.

The full list of hazards, each at its line with the properties that watch over
it, is in `PROJECT.json`.

## 2. Modules

| Module | Models | Abstract specification | Proofs |
|---|---|---|---|
| `WatcherLifecycle` | threads, mutex, flags, keys and status of the folder watcher | `WatchSessions` | `WatcherLifecycleProofs` |
| `FolderWatcher` | the worker's polling loop on the files of the folder | | `FolderWatcherProofs` |
| `WraithStream` | the chunks of a container: written, stored with faults, read | `AuthenticTransfer` | `WraithStreamProofs` |
| `FileCommands` | encrypt, decrypt and shred commands in one directory, with every failure | | `FileCommandsProofs` |
| `Vaults` | making a vault while its files change; sessions and the page that opens and closes them | | `VaultsProofs` |
| `Backup` | backups into one place, and restorations, step by step with failures and crashes | | `BackupProofs` |
| `Keyfile` | checksum, pool and effective password byte by byte; making and saving a keyfile | the sum of all checksums (`PoolIsSum`) | `KeyfileProofs` |
| `Launch` | from the command line to the call of a command or the page of the application | | `LaunchProofs` |
| `MC...` | instances for TLC | | |

Components meet in the models as they do in the code: `FileCommands` contains the
shredder's two steps, `Vaults` its command and the page that calls it, `Launch` the
command line, the start and the page that takes the file. What one component uses
of another beyond that is a result: a container that opens or does not
(`WraithStream` says why that is sound), credentials that lead to a key or fail
(`Keyfile`).

### WatcherLifecycle

One process per calling thread (`Callers`) and one per worker generation
(`Workers`, numbered as they are spawned).

| Variable | Code |
|---|---|
| `mutex` | who holds `WATCHER_MANAGER` across steps |
| `handle`, `active`, `autoLocked`, `processed`, `auditLog` | `WatcherManager.handle` and `.status` |
| `stopSignal[w]` | the `AtomicBool` created for worker `w` |
| `key[w]` | the worker's `effective_key`: none, live, zeroized |
| `todo[w]` | candidates of its current poll it has not looked at |
| `made[w]`, `reported[w]` | containers made; containers entered in the status |
| `callerPC`, `joining`, `lastResult`, `workerPC` | control |

`start_folder_watcher` is `Call`, `StartTakesHandle` (lock, take the handle, set
its flag), `StartJoins` (join), then `StartFails` (keyfile error, early return)
or `StartSpawns` and `StartPublishes`; the mutex is held throughout.
`stop_folder_watcher` is `StopTakesHandle`, `StopPublishes`. A worker runs
`SeesStop | TimesOut; PublishesAutoLock | Collects; (SkipsCandidate |
EncryptsCandidate; Records)*; EndsPoll; WakesUp`, then `Exits`.

Abstractions: a critical section that contains no blocking call is one step;
the inactivity timeout may fire at any head of the loop, which covers every
configured duration and the activity that postpones it; which candidates are
encrypted and why is the business of `FolderWatcher`; no panic happens inside a
critical section, so the mutex is never poisoned; the flag's relaxed load and
store are atomic. Notifications and the wording of events are left out.
`export_watcher_audit_log` formats a copy of the status and is covered by what
is said of every reader of the status.

### FolderWatcher

One worker, the files of its folder, and the programs that write and delete
there. `Files` are names that pass `should_process_file`; the container of a
name is fixed (its name is a function of the file's), so it is indexed by the
file. A content is the number of the write that made it, and so is its
modification time.

| Variable | Code |
|---|---|
| `file`, `size`, `container` | the directory |
| `candidates`, `fingerprints` | `file_candidates`, `processed_fingerprints` |
| `visit`, `current`, `seen`, `read`, `pc` | the loop's progress, the file's metadata from before the encryption, what was encrypted |
| `wiped`, `archived`, `excused` | history: what the worker destroyed, what was ever sealed, what a failed rename or a late write exposed |

The names of the actions follow the loop: `Polls`, `PassesOver`, `Notes` (first
sighting or a new size), `Takes` (stable), `Encrypts` or `FailsToEncrypt`,
`Commits` or `FailsToCommit` (the ignored result of the rename), `Keeps`, or
`Overwrites`/`CannotOverwrite` and `Unlinks`/`FailsToUnlink` when the source is
shredded, `Records`, `EndsPoll`. `Crash` is the end of the process at any point
and a new start of the watcher.

Abstractions: two writes have different modification times (a file system with
fine-grained times); a file is read as a whole; two polls are further apart than
the 500 ms a size must be stable; temporary files left by a crash are not
followed; an orderly restart looks to the folder like `Crash` during the sleep.

### WraithStream

A byte is its position in the source, a record is what is written in one piece:
header with key envelope, chunk, manifest.

| Variable | Code |
|---|---|
| `source`, `taken` | the input, and how far `reader.read` has got |
| `n` | `n`, the bytes in `chunk_buf` |
| `hashed` | what went into `sha256_hasher` and `total_bytes_read` |
| `written` | the records written; `chunk_index` is how many of them are chunks |
| `stored`, `reserved`, `faults` | what storage gives back |
| `readerPC`, `pos`, `expected`, `plain` | `decrypt_stream`: progress, `expected_chunk_index`, bytes given to the caller |

`encrypt_stream` is `WritesHeader`, then `Reads` (each may be short) and
`SealsFullChunk` (full buffer, and the probe found a byte: it is carried over)
until `SealsLastChunk` (a read or the probe found the end), then `WritesManifest`;
`WriterFails` is any `?`. `SourceGrows` is another program appending to the input.
`decrypt_stream` is `Starts`, `OpensEnvelope`, `ReleasesChunk`*,
`ChecksManifest`, `Accepts`, or `Rejects` at the first check that fails.

Abstractions: authenticated encryption is ideal (what opens was sealed with this
key under this associated data), the hash and the length in the manifest are the
bytes themselves, and the bytes of a record are damaged together; a damaged
ML-KEM ciphertext, which in the code is noticed at the first chunk, is noticed at
the header. What is not abstracted is which bytes of the header are authenticated:
`reserved` stands for the last four. The bounds of lengths and Argon2 parameters
in the header are left out.

`AuthenticTransfer` is the promise: the reader gets the first bytes of the source,
and the verdict says whether it has them all and the container is unharmed.

### FileCommands

One process per command (`Jobs`), each called once with one of `Requests`. The
directory is a map from names to inodes, because a command reads the inode it
opened, overwrites in place the one it finds by name, and renames and removes by
name; others may have put another inode there by then.

| Variable | Code |
|---|---|
| `dir`, `data`, `temps` | the directory, the contents of its inodes, which temporary files have a name |
| `req`, `out`, `fd`, `read` | the arguments, `out_p`, the inode of `in_file` (of the destination during `fs::copy`), what the stream has read |
| `pc` | the statement that comes next; `done` is `Ok`, `failed` is `Err` |
| `alone`, `failed` | chosen at the start: commands run one after the other; what has failed |
| `asked`, `raced` | history: contents destroyed by a user or another program, and in a race for a name |

`encrypt_file_cmd` and `decrypt_file_cmd` are `Called` (encryption asks
`unique_output_path` here, decryption in `ChoosesName`, after the stream), `Opens`,
`CreatesTemp`, `AppliesKeyfiles`, `Transforms`, then `commit_file_atomic`:
`CommitsByRename`, or `RenameFails`, `CopyStarts`, `CopyEnds`; then `Stats`
(encryption only), `Overwrites`, `Unlinks`. `shred_file_cmd` is `Called` and the last
two. Each has its failures, `CleansUp` is the shredding of the temporary file, and
`Crash` the end of the process anywhere.

Abstractions: a file is read as a whole, at one moment of the stream; a content is
the write it comes from and the names put around it; an output is in the same
directory as its input; the three random renames of the shredder and the removal
are one step; symbolic links, which are refused, do not exist; the name
"with a random number" after 9999 attempts is the last of a few siblings, and the
instance has more of these than it can use up.

### Vaults

One backend thread handles the calls of one page in their order; what interleaves
is the user, who clicks while calls are under way, and other programs, which change
the chosen files while a vault is made.

| Variable | Code |
|---|---|
| `disk` | the chosen files: a size, nothing, or a link |
| `vault`, `temps` | what the vault's name leads to; temporary containers |
| `pc`, `sources`, `next`, `total`, `packed` | `create_vault`: its arguments, the loops of `validate_source_paths` and of the packing, the measured size, `tar_buf` |
| `sessions`, `opened` | `VAULT_SESSIONS` |
| `dest` | the directory of an extraction |
| `requests`, `answers`, `shown` | calls and answers under way, `currentVaultSession` |
| `unpacked`, `impatient` | history: what was extracted last; a vault was asked for while another was on its way |

`create_vault` is `Creates`, then the measuring loop (`Counts`, `CountsNothing`,
`Refuses`), the packing loop (`StartsPacking`, `Packs`, `PacksNothing`, `PackFails`),
`Measures` (the second check of the limit), `CreatesTemp` or `KeyfileFails`,
`Encrypts`, and `Renames`, or `RenameFails`, `Copies`, `CopyFails`. After a failure
(`GivesUp`) and after a copy the temporary container is removed, which is a step of its
own, `Removes` or `RemoveFails`: the code ignores its result (vault/mod.rs:308, 313,
322, 333). Sessions are `OpensVault`, `ClosesVault`, `ExtractsAll`,
`ExtractsEntry` and their failures; the page `ClickCreate`, `ClickOpen`,
`ClickInSession`, `Receive`. `Crash` takes sessions and page away.

Abstractions: the size of a file stands for its content; entries of folders
themselves and modification times are left out; a vault that opens is one whose
size is within the limit, which is what `LimitedWriter` and the container's own
checks come to; one vault file.

### Backup

The commands run one after the other; between any two of their steps other
programs write to the folder, a call may fail, a container may be lost or damaged,
the process may end.

| Variable | Code |
|---|---|
| `src`, `box`, `manifest`, `out` | source directory, containers by recorded path, `backup_manifest.wraith`, destination of restorations |
| `pc`, `key`, `files`, `digest`, `seen`, `entries` | the command: `effective_key`, `all_files`, `sha256_hash`, the opened source, `entries` (still to be restored, in a restoration) |
| `before`, `used`, `complete`, `origin`, `quiet`, `good` | history: the destination and the manifest when a restoration began, its success; the folder when a backup began, whether it was listed in full and left alone |

`create_backup_archive` is `StartsBackup` (or `PassesOver`, an entry that cannot be
listed), `Hashes`, `CreatesContainer`, `Seals` for each file, `CreatesManifest`,
`SealsManifest`; `restore_backup_archive` is `StartsRestore`, `CreatesTarget`,
`Decrypts`, `Verifies` or `VerificationFails` for each entry, `Succeeds`, with
`ContainerMissing` and `DecryptionFails`. `CallFails` is any `?`, `Crash` the end of
the process; both leave what has been written.

Abstractions: a content is the number of the write that made it, and its digest is
the same number; a file is read in one step (digest and encryption are two); the
name of a container, a SHA-256 hash of the recorded path in the code, is the recorded
path itself, so two files with one recorded path share a container as they do there.

### Keyfile

Each behaviour is one call of `apply_keyfile_paths` or `generate_keyfile`.
`number`, `position`, `crc`, `write_pos`, `pool` are the variables of
`process_keyfile_buf`; `MixesByte` is one round of its loop, `NextKeyfile` its next
call, `Applies` the adding of the pool to the password. `size`, `offset`, `folds`
belong to the folding of the user's entropy (`Folds`); `Truncates`, `Saves`,
`SaveFails` are how both callers save the result. A byte is a number below 256, a
checksum the set of its bits, so that XOR is a symmetric difference and the table
is computed as in the code. Random bytes and digests are left out: which bytes are
folded how often is what counts. What the pool should be is stated
beside it as a sum (`Total`) of checksums in their serial definition (`SerialCrc`).
`MCKeyfile` checks the checksum against the value that the tests of `keyfile.rs` use,
as an assumption that TLC evaluates.

### Launch

Each behaviour is one start, or one file that the system hands to the application.
`args` are the words of the command line, with those erased that `get_password` erases;
`at`, `options`, `flags` the handler's loop; `initial` is `INITIAL_FILE`; `page` and `shown`
belong to the page that counts, which is that of the running instance if there is one
(`other`); `url` is the file that is handed over, `handed` that it was. `TakesValue`,
`TakesFlag`, `PassesOver`, `Scanned` are the loop, `PasswordFromArgs` and `PasswordTyped`
`get_password`, `OpensWindow` the cases in which `run_cli` leaves the start to `main`,
`Forwards` the single-instance callback, `HandsOver` the event `RunEvent::Opened` of
macOS, `PageLoads` the listeners of `setupTauriNativeEvents`, `PageAsks`
`checkInitialFilePayload` with `get_initial_file_cmd`.

An option holds what the handler passes on, not the word it was given (`Reads`): a value
of `--pqc` other than 1024 counts as 768 (cli.rs:226); a number that cannot be read leaves
the size of a keyfile as it was (152), makes three passes of those of `shred` (399) and
leaves the others to the command (235, 248). `Default` is what a handler passes on without
the option, `Presumed` what a command does that is told nothing. Which words can be read as
which number is a constant (`Numbers`); in the instance 300 is a chunk size and a keyfile
size, but no count of passes, which has eight bits. The two spellings of an option are one
word; options whose value influences nothing that is modelled are left out.

## 3. Runs

| Run | Bounds | Shows |
|---|---|---|
| `lifecycle_safety` | 3 threads, 3 workers, polls of 2 candidates, 3 containers per worker, log of 2 | one worker at a time, none that nobody can stop, a true status and audit trail, and the refinement of `WatchSessions` |
| `lifecycle_live` | 1 thread, polls of 2, log of 1 | every call returns and every stopped key is wiped, unless a join waits for a worker that waits for the mutex |
| `lifecycle_stop` | 1 thread, 1 worker | (violation) `stop_folder_watcher` may never return |
| `watcher_keep` | 2 files, 3 writes, sources kept; failed encryptions, crashes | fingerprints are sound; the folder settles with every file sealed |
| `watcher_shred` | the same, sources shredded; every fault | nothing is lost unnoticed, containers never go back, remains are sealed only after a fault; the folder settles empty |
| `watcher_rename` | one failed rename | (violation) a fingerprint without a container |
| `stream_safety` | chunks of 2 bytes, sources of 0 to 4, any rearrangement, one damaged record | shape of the container, honest verdict, refinement of `AuthenticTransfer`; writer and reader always end |
| `commands_safety` | 2 commands, 8 names of which other programs use 3, 3 contents, one failure of any call | nothing is lost or torn, no temporary file stays but an empty one after a keyfile error; alone, a command replaces nothing unasked |
| `vault_safety` | 3 files of 2 sizes, of which 2 have one name, limit 5, 1 change, 1 creation, 2 sessions, 2 calls under way, 2 of 7 kinds of failure | what is committed opens, remains have a cause, a locked page means a wiped memory, files of different paths are all extracted |
| `backup_safety` | 4 files, of which 2 have one recorded path and 1 is named like a manifest, 2 keys, 1 write, 2 backups, 1 restoration, 1 failure of 4 kinds | what is restored is of one backup, a good backup restores in full, a manifest speaks of containers that exist, one target in doubt |
| `keyfile_pool` | pools of 8 and 16 bytes, passwords of 0 to 18 bytes, 2 keyfiles, at most 5 bytes read | the pool is the sum of all checksums in whatever order, indices stay in bounds, passwords are told apart |
| `launch_safety` | every command line of up to 4 words, for some commands 5 or 6, after the input over the words of each command, every start by one or two words, 2 files that the system may hand over | a command is called as it was meant; an opened file arrives under its heading |

Why the bounds are enough. Three workers give a worker that is being replaced
while the one before has ended in each possible way; three threads give two that
wait for the mutex while a third holds it (the program itself calls from fewer);
three containers with a log of two make the log drop an entry; polls of two
candidates leave one to do after a stop. In `FolderWatcher` two sizes tell a
stable file from an unstable one, and the number of writes lets a file be
written before, during and after its encryption. In `WraithStream` sources of 0 to
4 bytes in chunks of 2 give the empty, the partial and the full last chunk, alone
and after others; a rearrangement picks any sequence of the container's records,
one longer than it at most. In `FileCommands` two commands with the same
input, the same output, or one working on what the other makes, are all the pairs
there are; one write by another program can come between any two of their steps.
In `Vaults` a limit of 5 with a margin of 2 lets two small files pass the
measuring, and the growth of one of them exceed the limit when it is packed; two
calls under way with two sessions are what it takes to forget a session or to
close another than the one that is shown; two failures give the rename and the
copy, or the removal, after it. In `Backup` two backups with two keys and a failure in the second
leave every mixture of containers, and a write between digest and encryption one
that its manifest disowns. In `Keyfile` the passwords lie on both sides of the
size at which the pool changes, a keyfile is longer than what is read, and five
bytes are more slots than the smaller pool has. The proofs remove the bounds for
the safety properties named in section 5.

Fairness. Weak fairness of each caller inside a call and of each worker: the
operating system schedules threads that can run. A caller is not obliged to
call, the mutex is not fair (`std::sync::Mutex` promises nothing), other
programs and faults owe nothing. The liveness run of `WatcherLifecycle` has one
calling thread, because the program's commands are synchronous and run on one
thread; with several, an unfair mutex could starve one of them, which is not a
question about this code. `encrypt_stream` and `decrypt_stream` are straight loops:
once called, they run on. Deadlock is checked except in the runs of
`WatcherLifecycle`, where the join deadlock described below is a state the program
can reach and stay in, and in those of `WraithStream`, `FileCommands`, `Vaults`,
`Backup`, `Keyfile` and `Launch`, where everything stops when each call of the
instance has been made.

## 4. What the checks found

Two findings have a run each:

1. **A stop can hang** (`lifecycle_stop`). `stop_folder_watcher` joins the worker
   with the mutex held (487-493); a worker that has a container to report (417) or
   an auto-lock to publish (299) waits for that mutex for ever, and so does every
   later status poll. `start_folder_watcher` does the same (260-265).
   `CallReturns` and `StoppedKeyIsPurged` show that it is the only way to hang;
   `HangLasts` and `OnlyThisHang` prove for any number of threads that it lasts for
   ever, and that nothing else keeps the mutex from being released.
2. **A failed rename passes for success** (`watcher_rename`, line 382): the
   fingerprint is recorded, the entry written, the source destroyed.

The others are properties that are stated in the modules, marked there as not
holding, and that TLC refutes with the instance given here, or consequences that
can be read off a definition:

3. **The reserved bytes of the header are not authenticated**
   (`WraithStream!AnyHeaderByteCounts`, wraith/header.rs:112): the associated data is
   made again from the parsed fields, so altering bytes 76 to 79 goes unnoticed,
   though decryptor.rs:95 and `AUDIT.md:16` say that any altered byte of the header
   fails. Nothing depends on these bytes; everything else of a container is covered
   (`AcceptedMeansIntact`). `ChunkSize = 2`, `MaxSource = 1`, `MaxFaults = 1`.
4. **A default destination can be overwritten** (`FileCommands!NoSilentOverwrite`):
   the free name is looked up before the encryption (commands/mod.rs:535) or the
   commit (757) and renamed over later (473), though `README.md:192` says that
   existing files are never overwritten. One command at a time never does, as long as
   a free name is left (`NoSilentOverwriteAlone`, proved as `ChosenNamesAreFree`).
   `NothingLost` excuses what such a race destroys (`raced`), so that no run watches
   over races. Two commands, `DefaultRequests`, `Settings = {FALSE}`, `MaxWrites = 2`,
   no faults.
5. **A temporary file stays after a keyfile error** (`FileCommands!NoTemporaryFiles`,
   commands/mod.rs:591 and 715), though `AUDIT.md:19` says that it is shredded on any
   failure. It is empty, and the only one: `NoRemnants` shows that no other is ever
   left by a command that returns and could remove its file. One command, `Settings =
   {TRUE}`, `Faults = {"keyfile"}`, `MaxFaults = 1`.
6. **A password that looks like a flag is one** (`Launch!PasswordIsNoFlag`), though
   the help calls the word after `-p` the password (cli.rs:83) and `--shred` the
   request to wipe the source (89). `-p --shred` makes `--shred` the password
   (cli.rs:107-118) and a request to shred the source as well (207-255, where `-p` is
   passed over alone). `CalledAsMeant` says what holds: every word that is not the
   value of an option of the handler's own counts, `-p` being none. The instance of
   `launch_safety` has the case.
7. **A container may be replaced** (`FolderWatcher!ContainersAreKept`,
   watcher/mod.rs:358), though README.md:192 says existing files are never overwritten:
   a name is used again after its source was shredded. Two files, `Shred = TRUE`,
   two writes, no faults. What replaces it is always a later state of a file of that
   name (`ContainersOnlyAdvance`), the remains of item 8 apart.
8. **Remains of a half-shredded source are sealed over its container.** When a
   source was overwritten but can be removed neither by the shredder nor by the line
   after it (401), its fingerprint is dropped and the remains are a new candidate:
   in the model `Overwrites`, `FailsToUnlink`, two polls, `Commits`. A restart between
   the two does the same. It takes such a fault (`RemainsNotSealed`).
9. **Destination and source may be the same file.** A command that shreds and was
   given its source as destination commits over it and then shreds the result.
   `NothingLost` counts this as asked for.
10. **Files of the same name are extracted over each other**
    (`Vaults!EveryFileExtracted`): sources are packed under their last name only
    (vault/mod.rs:223-236), so two chosen files of one name share a path, and
    `extract_all_vault` (509) leaves the later one, though its comment says that it
    extracts all entries. `Sizes = {1}`, no changes or faults, `MaxOpens = 1`,
    `MaxPending = 1`. `DistinctFilesExtracted` is what holds.
11. **An impatient user leaves a decrypted vault behind.** `LockedMeansClosed` needs
    its condition: the button that opens stays enabled while a vault is being
    opened, a second click opens a second session, the page forgets the first
    (`src/ui/app.js`:1275), and after the second was closed it says "Bóveda bloqueada y
    memoria zeroizada" (1292) while the first stays decrypted in memory with nothing
    left that could close it. Without `~impatient` TLC shows this in the instance of
    `vault_safety`.
12. **A backup passes over what it cannot list** (backup/mod.rs:74, `.flatten()`) and
    still ends well (`PassesOver`), and `a\b` and `a/b` are one recorded path (120), so
    that their containers overwrite each other. `GoodBackupRestores` is about folders
    without either.
13. **A file opened in a running instance may not arrive.** The event is lost when
    the page does not listen yet (main.rs:118; `lost` in `Launch`), as is that for the file
    with which macOS starts the application, when it comes before the page has loaded
    (main.rs:187): nothing keeps it for `get_initial_file_cmd`. A relative
    name is looked up in the directory of the running instance, since `_cwd` is
    ignored (main.rs:72, 95). `OpenedArrives` is about full names and pages that
    listen. Without a running instance `--gui-inspect`, which the installed desktop entry
    and context menus pass (commands/mod.rs:993), is an unknown command (cli.rs:59).
14. **A number that cannot be read is dropped without a word**: `keyfile generate k -s x`
    makes 64 bytes (cli.rs:152), `shred f --passes 300` runs three passes (399). In
    `CalledAsMeant` such a value counts as none, or leaves the one before it.
15. **A new keyfile replaces an old one.** Without a name it is written to
    `miragex.key` in place (cli.rs:145, 170), existing or not: `Truncates` and
    `SaveFails` leave neither the old nor the new one, although README.md:192
    promises that without an explicit destination nothing is overwritten.

## 5. Proofs

Checked with `tlapm` on the eight modules named `...Proofs`.

* `WatcherLifecycleProofs!Invariance` : `Spec => []IInv`, for any set of callers
  and any bounds. `IInv` says who may hold the mutex (`MutexInv`), that the handle
  is empty while it is held and names the last worker otherwise (`HandleInv`), that
  a live worker is the last one spawned and somebody answers for it - the handle,
  the start about to store it, or the caller joining it (`SupervisedInv`), and how
  key, report counters, flags, status and log follow the worker's control
  (`KeyInv`, `ReportInv`, `UnstoppedInv`, `StatusInv`, `ActiveInv`, `LogInv`). The
  strengthening is needed because the safety properties talk about moments when
  the mutex is free, and what makes them true then is what the holder did while it
  was not. From it: `TypeCorrect`, `SingleWorker`, `NoOrphan`, `AuditTrail`,
  `NothingUnreported`, `InactiveIsQuiet`, `ActiveIsWatched`, both joined in
  `HonestStatus`, the action property `StopIsBounded`, and `Implementation`: the
  threads implement `WatchSessions`. Three more say of hanging and ending what can be
  said without fairness: no step leads out of the join deadlock, and in it no call
  returns, the status does not change and the worker keeps its key (`HangLasts`);
  whoever holds the mutex otherwise has a next step of its own or joins a worker that
  was told to stop and needs no mutex (`OnlyThisHang`, which needs to know besides
  `IInv` that only spawned workers are joined); and each step of such a worker lowers
  the number of steps it has left (`ToldWorkersEnd`).
* `FolderWatcherProofs`: `IInv` relates what was read, sealed and seen at each
  point of the job (`SealInv`, `WipeInv`) given that writes are numbered in order
  (`OrderInv`). From it `TypeCorrect`, `FingerprintsAreSound` (for instances
  without failed renames; the run `watcher_rename` shows why) and
  `LossesAreExcused`. `AdvanceInv` adds that no container is ahead of its file nor of
  what is about to be sealed in it: `ContainersAdvance`. `RemainsInv` says that before
  the first fault the remains of a shredded file exist only until the worker's next
  step, and that nobody has read them: `RemainsNeedAFault`. `PollsComeToAnEnd`: every
  step of the worker within a poll lowers what is left of it, seven for each file not
  looked at yet and at most six for the one in hand, and other programs do not raise
  it; it assumes that the folder is finite.
* `WraithStreamProofs`: `IInv` says that the buffer holds what follows the bytes
  sealed so far and is empty only before the first of them (`WriterInv`: this is
  where the byte read ahead matters), that whatever opens in storage was sealed by
  the writer under the same index and mark (`StorageInv`), and that the records the
  reader has used are those that were written, one by one (`ReaderInv`). The reader's
  part is not inductive without the storage's, since only the latter says what a
  record that opens can be. From it `TypeCorrect`, `AlwaysShaped`, `AlwaysInOrder`,
  `AcceptedOnlyIntact`, `NeverFalseAlarm` and `Implementation`: a container is an
  authentic transfer, for every chunk size, source and number of faults.
  `CallsComeToAnEnd`: every step of the writer uses a byte of the source and every step
  of the reader a record, or they move on for good.
* `VaultsProofs`: four inductive invariants. `PackInv` says that from the second
  measuring on what is packed is within the limit, and that what bears the vault's
  name is, too: `EveryVaultOpens`. `RemainsInv` adds to `NoRemains` that a command
  between the creation and the end of a temporary container has one, without which
  removing it could not be counted: `NothingElseRemains`, by the cardinality of the
  failures so far. `PageInv` is about a patient user: at most one vault is on its way
  and none is shown meanwhile (`OneOpening`, which needs to say where in the queues of
  calls and answers it may be), and a session in memory is shown or about to be
  (`KnownSession`): `LockedIsClosed`. `RestInv` has the other variables: no more
  temporary containers than creations, and after an extraction its directory is what
  `Written` makes of the archive. The four give `TypeCorrect`, and `DistinctFilesArrive`,
  since the last entry with a path, which is what stays there, is the only one when
  paths are distinct.
* `BackupProofs`: `TypeInv` is type correctness with what each stage has in hand;
  `MeansInv` that what is written down has a container (`ContainersExist`);
  `RestoreInv` that the entries still to be restored are the end of the manifest
  that is followed, and that what was restored before agrees with any container
  that opens under this key - which is why a path that occurs twice cannot be
  overwritten by another content (`RestoresOneBackup`); `DoubtInv` that all but the
  present target are settled (`OneInDoubt`); `GoodInv` that in a quiet folder every
  file is still to come or written down as it was (`GoodBackups`).
* `KeyfileProofs`: lemmas about the checksum (words stay words), sums of bytes
  (they wrap and keep different bytes apart) and the slots of a pool; the invariant
  keeps the position on a slot of the pool (`AlwaysInBounds`), the result what the pool and
  the password say (`PasswordsDiffer`) and what is folded left of the offset
  (`OnceFolded`). `TableIsSerial`: shifting is linear over exclusive or (`ShiftXor`,
  `RoundXor`), so a step by the table is eight shifts of the serial definition.
  `PoolSumsUp` rests on `PoolInv`: the pool is the sum of the keyfiles that are done and
  of the bytes mixed in from the present one (`SoFar`), and the checksum is the serial
  one of those bytes. `OrderDoesNotMatter`: the sum counts cells, one for each keyfile,
  byte and lane, and to reorder keyfiles is a bijection of cells.
* `FileCommandsProofs`, for any number of commands: `TypeInv` gives every command
  the inodes it may work on at each statement (`TypeCorrect`). `TornInv` says that
  while no rename has failed only temporary files nobody can reach are empty
  (`NoTornFile`). `RemnantInv` says that a temporary file is hidden - no name but its
  own leads to it and no command has it open - and blank until the stream has filled
  it, so that nobody else can put anything into it (`NoRemnantsStay`). `LossInv` counts: of
  every content nobody has destroyed on purpose or in a race, more files hold it than
  there are commands that have delivered it and may now shred their input (`Counted`).
  Saying only that some file holds it is not inductive: two commands could each rely
  on the input of the other. The count stands on no two names leading to one inode, on
  a temporary file holding what was read, and on names and commands being finite
  (`FiniteAssumption`): `NothingIsLost`, for commands that run at once. `AloneInv` is
  about commands that run one after the other: only one is under way, what its
  variables name is there, and the name it has chosen is still free, which takes
  that a free name was left to choose (`NamesLeft`). From it `ChosenNamesAreFree` and
  `NothingIsLostAlone`, where no loss is excused by a race. `NamesNeverRunOut` says when
  that condition holds of every behaviour: each name has more alternatives than other
  programs and the commands can ever make files (`EnoughNames`). In the code these are
  9999 names and one with a random number.
* `LaunchProofs`: in the loop over the words each option has the value of its last
  occurrence among the words passed (`Found`) and each flag is set if it is among them
  (`FoundFlag`). That needs an invariant about where the loop stands: never on a value.
  Which words are values is defined without the loop (`IsValue`: the odd places of a run
  of option words and the one after it), and `NextValue` says that a word is a value just
  when the word before it is an option and not itself a value: `CallsAreMeant`, for
  command lines of any length. `ArrivalInv` says what the page shows at each stage of
  an opened file, forwarded, handed over or asked for: `OpenedFilesArrive`. It uses the facts of
  `WordsAssumption` about full names and the words that stand for an action.

The assumptions are the named ASSUMEs of the modules: bounds are natural numbers,
the log keeps at least one entry, pools are multiples of four bytes, the "no such
thing" constants are outside the sets they complete. TLC evaluates them in the runs.

The type invariants of `Backup`, `Launch` and `WraithStream` have no run of their
own: `TypeCorrect` of each proof module covers their instances. Two theorems state their
condition in their statement, because the code can fail it: `ChosenNamesAreFree` and
`NothingIsLostAlone` (`NamesLeft`). `PollsComeToAnEnd` and `NamesNeverRunOut` state theirs
because no other theorem needs it.

How data is dealt with. The induction theorems of the library take an operator as a
parameter, which the provers cannot instantiate. Sums, checksums and the like are
therefore recursive functions here, whose equations are derived (`Recursion`), and
induction is carried out over the set of arguments for which a fact holds
(`SetInduction`); both come from the well-foundedness of the naturals. Where a formula
over positions says the same as a fold (`Vaults!Written`, `Vaults!Extractable`), it is
used instead.

Only model-checked: liveness and everything under fairness (`CallReturns`,
`StoppedKeyIsPurged`, `SettlesSealed`, `SettlesEmpty`, `CallsReturn`, `StopReturns`),
because the prover has neither fairness nor ENABLED. Of the first two and the last but
one the part that needs neither is proved, as said above: that each step leads nearer
to the end.

## 6. Not modelled

* Cryptographic primitives: no state, no control but error propagation.
* `inspect_container`, the updater, previews, registration of file types and
  context menus, dialogs, benchmarks: I/O and formatting, nothing is changed that
  another step reads.
* Which names the watcher accepts (`should_process_file`, `collect_watch_files`):
  a filter on strings, whose interesting part is their spelling; `FolderWatcher` is
  about the files it accepts.
* The bounds of the fields of a header: comparisons with constants, one after the
  other, that a unit test reaches each.
* `save_stream` and the memory adapter, which no command uses; the random names the
  shredder gives a file before it removes it (one step with the removal).
* The watcher panel's polling: what it misses is presentation, the status it polls
  is `WatcherLifecycle`'s.
* Vendored and generated files.

## 7. Plan

| Module | Question | Proofs |
|---|---|---|
| `Shredder` | does a shredding that fails half-way leave the file under a name that can be found? | invariant |
| `FileCommandsProofs`, `BackupProofs` | does every command end? | a number of steps left that each step lowers, as in `WraithStreamProofs` |
| `FolderWatcherProofs` | does the polling loop do to its candidates what `WatcherLifecycle` takes for granted? | a refinement of one worker of `WatcherLifecycle` |
