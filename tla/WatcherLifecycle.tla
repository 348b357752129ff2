-------------------------- MODULE WatcherLifecycle --------------------------
(***************************************************************************)
(* Starting, stopping, auto-locking and observing the folder watcher of    *)
(* watcher/mod.rs: the threads that call start_folder_watcher,             *)
(* stop_folder_watcher and get_watcher_status, the global mutex            *)
(* WATCHER_MANAGER, and the worker threads that start_folder_watcher       *)
(* spawns, each with its own stop flag and its own copy of the key.        *)
(*                                                                         *)
(* The files are abstracted here: a candidate of a poll either yields a    *)
(* container or does not (FolderWatcher models which and why).  A worker   *)
(* takes the mutex only around assignments that cannot block, so taking    *)
(* it, assigning and releasing it is one step; a caller holds it across    *)
(* the join of the previous worker, so a caller's call has several steps.  *)
(***************************************************************************)
EXTENDS Naturals, Sequences

CONSTANTS Callers,    \* threads that call the watcher's functions
          NoCaller,   \* owner of the mutex when it is free
          MaxWorkers, \* bound: worker threads spawned
          MaxBatch,   \* bound: candidates of one poll
          MaxFiles,   \* bound: containers one worker makes
          MaxLog      \* entries the audit log keeps (1000 in the code)

ASSUME NoCallerAssumption == NoCaller \notin Callers
ASSUME BoundsAssumption == /\ MaxWorkers \in Nat
                           /\ MaxBatch \in Nat
                           /\ MaxFiles \in Nat
                           /\ MaxLog \in Nat \ {0}

Workers == 1 .. MaxWorkers   \* the n-th spawned worker thread is n
NoWorker == 0

VARIABLES
  mutex,      \* owner of WATCHER_MANAGER
  handle,     \* manager.handle: the worker to stop and join, or NoWorker
  active,     \* status.is_active
  autoLocked, \* status.auto_locked
  processed,  \* status.processed_count
  auditLog,   \* status.audit_log, entries [worker, nth]
  callerPC,   \* where each caller is
  joining,    \* the worker a caller took from the handle and joins
  lastResult, \* outcome of the last start or stop that finished
  spawned,    \* worker threads spawned so far
  workerPC,   \* where each worker is
  stopSignal, \* the stop flag of each worker
  key,        \* effective_key of each worker
  todo,       \* candidates left in the current poll of each worker
  made,       \* containers each worker has made
  reported    \* containers each worker has entered in the status

managerVars == <<handle, active, autoLocked, processed, auditLog>>
callerVars == <<callerPC, joining, lastResult>>
workerVars == <<spawned, workerPC, stopSignal, key, todo, made, reported>>
vars == <<mutex, managerVars, callerVars, workerVars>>

\* What a worker that does not report leaves alone.
others == <<mutex, managerVars, callerVars, spawned, stopSignal>>

Entry == [worker : Workers, nth : 1 .. MaxFiles]

TypeOK ==
  /\ mutex \in Callers \cup {NoCaller}
  /\ handle \in Workers \cup {NoWorker}
  /\ active \in BOOLEAN
  /\ autoLocked \in BOOLEAN
  /\ processed \in Nat
  /\ auditLog \in Seq(Entry)
  /\ callerPC \in [Callers -> {"idle", "start", "stop", "status", "startJoin",
                               "startKey", "startPublish", "stopJoin"}]
  /\ joining \in [Callers -> Workers \cup {NoWorker}]
  /\ lastResult \in {"none", "started", "keyfileError", "stopped"}
  /\ spawned \in 0 .. MaxWorkers
  /\ workerPC \in [Workers -> {"unborn", "loop", "scan", "record", "autoLock",
                               "sleep", "exit", "dead"}]
  /\ stopSignal \in [Workers -> BOOLEAN]
  /\ key \in [Workers -> {"none", "live", "zeroized"}]
  /\ todo \in [Workers -> 0 .. MaxBatch]
  /\ made \in [Workers -> 0 .. MaxFiles]
  /\ reported \in [Workers -> 0 .. MaxFiles]

Init ==
  /\ mutex = NoCaller
  /\ handle = NoWorker
  /\ active = FALSE
  /\ autoLocked = FALSE
  /\ processed = 0
  /\ auditLog = << >>
  /\ callerPC = [c \in Callers |-> "idle"]
  /\ joining = [c \in Callers |-> NoWorker]
  /\ lastResult = "none"
  /\ spawned = 0
  /\ workerPC = [w \in Workers |-> "unborn"]
  /\ stopSignal = [w \in Workers |-> FALSE]
  /\ key = [w \in Workers |-> "none"]
  /\ todo = [w \in Workers |-> 0]
  /\ made = [w \in Workers |-> 0]
  /\ reported = [w \in Workers |-> 0]

-----------------------------------------------------------------------------
(* The callers.  A start with a missing directory or no secret returns      *)
(* before the mutex and changes nothing: it has no action.                  *)

Goto(c, pc) == callerPC' = [callerPC EXCEPT ![c] = pc]

Finish(c, result) == /\ Goto(c, "idle")
                     /\ joining' = [joining EXCEPT ![c] = NoWorker]
                     /\ lastResult' = result
                     /\ mutex' = NoCaller

Call(c) ==
  /\ callerPC[c] = "idle"
  /\ \E function \in {"start", "stop", "status"} : Goto(c, function)
  /\ UNCHANGED <<mutex, managerVars, joining, lastResult, workerVars>>

\* The stop flags once the worker in the handle has been told to stop.
NobodyTold == stopSignal   \* mutant
HandleTold == [w \in Workers |-> stopSignal[w] \/ w = handle]

\* The mutex is taken, the handle is taken, the worker in it is told to stop.
\* The caller goes to "wait" to join that worker, or to "go" if there is none.
TakeHandle(c, wait, go) ==
  /\ mutex = NoCaller
  /\ mutex' = c
  /\ joining' = [joining EXCEPT ![c] = handle]
  /\ handle' = NoWorker
  /\ stopSignal' = HandleTold
  /\ Goto(c, IF handle = NoWorker THEN go ELSE wait)
  /\ UNCHANGED <<active, autoLocked, processed, auditLog, lastResult,
                 spawned, workerPC, key, todo, made, reported>>

\* JoinHandle::join returns when the thread has ended.
NotJoined(c) == joining[c] \in Workers   \* mutant
Joined(c) == joining[c] \in Workers => workerPC[joining[c]] = "dead"

StartTakesHandle(c) == callerPC[c] = "start" /\ TakeHandle(c, "startJoin", "startKey")

StartJoins(c) ==
  /\ callerPC[c] = "startJoin"
  /\ Joined(c)
  /\ Goto(c, "startKey")
  /\ UNCHANGED <<mutex, managerVars, joining, lastResult, workerVars>>

\* apply_keyfile_paths fails: the early return releases the mutex and leaves
\* the status as it was, though the previous worker is already gone.
StartFails(c) ==
  /\ callerPC[c] = "startKey"
  /\ Finish(c, "keyfileError")
  /\ UNCHANGED <<managerVars, workerVars>>

StartSpawns(c) ==
  /\ callerPC[c] = "startKey"
  /\ spawned < MaxWorkers
  /\ spawned' = spawned + 1
  /\ workerPC' = [workerPC EXCEPT ![spawned'] = "loop"]
  /\ key' = [key EXCEPT ![spawned'] = "live"]
  /\ Goto(c, "startPublish")
  /\ UNCHANGED <<mutex, managerVars, joining, lastResult,
                 stopSignal, todo, made, reported>>

StartPublishes(c) ==
  /\ callerPC[c] = "startPublish"
  /\ handle' = spawned
  /\ active' = TRUE
  /\ autoLocked' = FALSE
  /\ processed' = 0
  /\ auditLog' = << >>
  /\ Finish(c, "started")
  /\ UNCHANGED workerVars

StopTakesHandle(c) == callerPC[c] = "stop" /\ TakeHandle(c, "stopJoin", "stopJoin")

StopPublishes(c) ==
  /\ callerPC[c] = "stopJoin"
  /\ Joined(c)
  /\ active' = FALSE
  /\ Finish(c, "stopped")
  /\ UNCHANGED <<handle, autoLocked, processed, auditLog, workerVars>>

\* get_watcher_status: a copy of the status, made under the mutex.
StatusReturns(c) ==
  /\ callerPC[c] = "status"
  /\ mutex = NoCaller
  /\ Goto(c, "idle")
  /\ UNCHANGED <<mutex, managerVars, joining, lastResult, workerVars>>

CallerStep(c) == \/ StartTakesHandle(c) \/ StartJoins(c)
                 \/ StartFails(c) \/ StartSpawns(c) \/ StartPublishes(c)
                 \/ StopTakesHandle(c) \/ StopPublishes(c)
                 \/ StatusReturns(c)

-----------------------------------------------------------------------------
(* A worker thread.  The stop flag is read at the head of the polling loop  *)
(* and while sleeping, never between two candidates of a poll.              *)

WorkerGoto(w, pc) == workerPC' = [workerPC EXCEPT ![w] = pc]

\* The loop condition, evaluated with the worker at the head of its loop.
NeverTold(w) == w \in Workers   \* mutant
NotTold(w) == ~stopSignal[w]

\* effective_key.zeroize().
KeyKept(w) == key   \* mutant
KeyWiped(w) == [key EXCEPT ![w] = "zeroized"]

\* The poll still has a candidate.
CandidateOrNone(w) == todo[w] >= 0   \* mutant
Candidate(w) == todo[w] > 0

SeesStop(w) ==
  /\ workerPC[w] = "loop"
  /\ ~NotTold(w)
  /\ WorkerGoto(w, "exit")
  /\ UNCHANGED <<others, key, todo, made, reported>>

\* The inactivity timeout has elapsed: the key is wiped before the status says so.
TimesOut(w) ==
  /\ workerPC[w] = "loop"
  /\ NotTold(w)
  /\ key' = KeyWiped(w)
  /\ WorkerGoto(w, "autoLock")
  /\ UNCHANGED <<others, todo, made, reported>>

PublishesAutoLock(w) ==
  /\ workerPC[w] = "autoLock"
  /\ mutex = NoCaller
  /\ active' = FALSE
  /\ autoLocked' = TRUE
  /\ WorkerGoto(w, "exit")
  /\ UNCHANGED <<mutex, handle, processed, auditLog, callerVars, spawned,
                 stopSignal, key, todo, made, reported>>

Collects(w) ==
  /\ workerPC[w] = "loop"
  /\ NotTold(w)
  /\ \E n \in 0 .. MaxBatch : todo' = [todo EXCEPT ![w] = n]
  /\ WorkerGoto(w, "scan")
  /\ UNCHANGED <<others, key, made, reported>>

\* A candidate that is filtered out, unchanged, not stable yet, or whose
\* encryption fails.
SkipsCandidate(w) ==
  /\ workerPC[w] = "scan"
  /\ Candidate(w)
  /\ todo' = [todo EXCEPT ![w] = @ - 1]
  /\ UNCHANGED <<others, workerPC, key, made, reported>>

EncryptsCandidate(w) ==
  /\ workerPC[w] = "scan"
  /\ Candidate(w)
  /\ made[w] < MaxFiles
  /\ todo' = [todo EXCEPT ![w] = @ - 1]
  /\ made' = [made EXCEPT ![w] = @ + 1]
  /\ WorkerGoto(w, "record")
  /\ UNCHANGED <<others, key, reported>>

\* Mutant: a full log rejects the newest entry instead of dropping the oldest.
LogRejecting(log, entry) == IF Len(log) < MaxLog THEN Append(log, entry) ELSE log

\* The audit log drops its oldest entry when it grows past its capacity.
LogWith(log, entry) ==
  LET longer == Append(log, entry)
  IN  IF Len(longer) > MaxLog THEN Tail(longer) ELSE longer

\* Mutant: a report is skipped when the mutex is busy (try_lock).
RecordsIfFree(w) ==
  /\ workerPC[w] = "record"
  /\ IF mutex = NoCaller
       THEN /\ processed' = processed + 1
            /\ auditLog' = LogWith(auditLog, [worker |-> w, nth |-> made[w]])
            /\ reported' = [reported EXCEPT ![w] = @ + 1]
       ELSE UNCHANGED <<processed, auditLog, reported>>
  /\ WorkerGoto(w, "scan")
  /\ UNCHANGED <<mutex, handle, active, autoLocked, callerVars, spawned,
                 stopSignal, key, todo, made>>

Records(w) ==
  /\ workerPC[w] = "record"
  /\ mutex = NoCaller
  /\ processed' = processed + 1
  /\ auditLog' = LogWith(auditLog, [worker |-> w, nth |-> made[w]])
  /\ reported' = [reported EXCEPT ![w] = @ + 1]
  /\ WorkerGoto(w, "scan")
  /\ UNCHANGED <<mutex, handle, active, autoLocked, callerVars, spawned,
                 stopSignal, key, todo, made>>

EndsPoll(w) ==
  /\ workerPC[w] = "scan"
  /\ todo[w] = 0
  /\ WorkerGoto(w, "sleep")
  /\ UNCHANGED <<others, key, todo, made, reported>>

WakesUp(w) ==
  /\ workerPC[w] = "sleep"
  /\ WorkerGoto(w, "loop")
  /\ UNCHANGED <<others, key, todo, made, reported>>

Exits(w) ==
  /\ workerPC[w] = "exit"
  /\ key' = KeyWiped(w)
  /\ WorkerGoto(w, "dead")
  /\ UNCHANGED <<others, todo, made, reported>>

WorkerStep(w) == \/ SeesStop(w) \/ TimesOut(w) \/ PublishesAutoLock(w)
                 \/ Collects(w) \/ SkipsCandidate(w) \/ EncryptsCandidate(w)
                 \/ Records(w) \/ EndsPoll(w) \/ WakesUp(w) \/ Exits(w)

-----------------------------------------------------------------------------
Next == \/ \E c \in Callers : Call(c) \/ CallerStep(c)
        \/ \E w \in Workers : WorkerStep(w)

Spec == Init /\ [][Next]_vars

\* A call that has begun and a thread that is not blocked keep running; nobody
\* is obliged to make a call, and the mutex is not fair to those who wait.
Fairness == /\ \A c \in Callers : WF_vars(CallerStep(c))
            /\ \A w \in Workers : WF_vars(WorkerStep(w))

FairSpec == Spec /\ Fairness

-----------------------------------------------------------------------------
Alive(w) == workerPC[w] \notin {"unborn", "dead"}

\* At most one worker thread exists at any time, restarts included: start
\* joins the previous worker before it spawns the next one.
OneWorkerAtATime == \A v, w \in Workers : Alive(v) /\ Alive(w) => v = w

\* A log of n reports of worker s, of which it keeps the newest MaxLog in order.
TrailOf(log, s, n) ==
  /\ Len(log) = IF n < MaxLog THEN n ELSE MaxLog
  /\ \A i \in 1 .. Len(log) : log[i] = [worker |-> s, nth |-> n - Len(log) + i]

LogMatchesSession ==
  /\ processed = IF spawned = NoWorker THEN 0 ELSE reported[spawned]
  /\ TrailOf(auditLog, spawned, processed)

\* Whoever reads the status sees only entries of the session in it, the newest
\* MaxLog of them in the order they were made, and a counter that has counted
\* every container that was reported, those dropped from the log included.
AuditTrailIsOfThisSession == mutex = NoCaller => LogMatchesSession

\* No container escapes the audit trail: a worker that has ended, by a stop, a
\* restart or an auto-lock, has reported every container it made.
EveryContainerReported ==
  \A w \in Workers : workerPC[w] \in {"exit", "dead"} => reported[w] = made[w]

\* Whoever reads "inactive" or "auto-locked" knows that no thread encrypts
\* any more and, when auto-locked, that no copy of the key is left in memory.
InactiveMeansQuiet ==
  mutex = NoCaller =>
    /\ ~active => \A w \in Workers : workerPC[w] \in {"unborn", "exit", "dead"}
    /\ autoLocked => \A w \in Workers : key[w] # "live"

\* Whoever reads "active" knows that a worker watches the folder, holding the
\* key, or is about to report its auto-lock; the one exception is a restart
\* whose keyfile could not be read after the previous worker had been stopped.
ActiveMeansWatched ==
  mutex = NoCaller /\ active =>
    \/ /\ handle # NoWorker
       /\ Alive(handle)
       /\ key[handle] = "live" \/ workerPC[handle] = "autoLock"
    \/ lastResult = "keyfileError" /\ \A w \in Workers : ~Alive(w)

\* Both: what a status says of the watcher is so when it is read.
StatusIsHonest == InactiveMeansQuiet /\ ActiveMeansWatched

\* Only a worker that is still watched over can be running: one whose stop flag
\* nobody can set any more would hold the key for ever.
NoOrphanWorker ==
  \A w \in Workers :
    Alive(w) => \/ handle = w
                \/ stopSignal[w]
                \/ \E c \in Callers : callerPC[c] = "startPublish" /\ w = spawned

\* A worker that has been told to stop makes no more containers than it has
\* candidates left in its current poll, and none at all once its key is wiped.
WorkBounded ==
  \A w \in Workers :
    /\ stopSignal[w] => made'[w] + todo'[w] <= made[w] + todo[w]
    /\ key[w] = "zeroized" => made'[w] = made[w]
StopBoundsWork == [][WorkBounded]_vars

-----------------------------------------------------------------------------
(* The inductive invariant behind the properties above.                     *)

Holding == {"startJoin", "startKey", "startPublish", "stopJoin"}

\* A worker that has neither ended nor is on its way out.
Working == {"loop", "scan", "record", "sleep"}

\* The holder of the mutex has spawned a worker and not stored it yet.
Publishing == mutex \in Callers /\ callerPC[mutex] = "startPublish"

\* The mutex is held by the one caller that is between its lock and its return.
MutexInv == \A c \in Callers : mutex = c <=> callerPC[c] \in Holding

\* The handle is empty while a caller holds the mutex, and names the last
\* worker spawned otherwise; workers are spawned in order.
HandleInv == /\ mutex # NoCaller => handle = NoWorker
             /\ handle # NoWorker => handle = spawned
             /\ \A w \in Workers : workerPC[w] = "unborn" <=> w > spawned
             /\ Publishing => spawned > 0

\* A live worker is the last one spawned and somebody answers for it: the
\* handle, the start that is about to store it there, or the caller joining it.
SupervisedInv ==
  \A w \in Workers : Alive(w) =>
    /\ w = spawned
    /\ \/ handle = w
       \/ Publishing
       \/ /\ mutex \in Callers
          /\ callerPC[mutex] \in {"startJoin", "stopJoin"}
          /\ joining[mutex] = w
          /\ stopSignal[w]

\* The key of a worker is in memory exactly while it may encrypt.
KeyInv == \A w \in Workers :
            /\ workerPC[w] = "unborn" => key[w] = "none"
            /\ workerPC[w] \in Working => key[w] = "live"
            /\ workerPC[w] \in {"autoLock", "dead"} => key[w] = "zeroized"

\* A worker has at most one container it has not reported yet.
ReportInv == \A w \in Workers :
               /\ made[w] = IF workerPC[w] = "record" THEN reported[w] + 1
                                                      ELSE reported[w]
               /\ workerPC[w] = "unborn" => made[w] = 0

\* What the status says of the worker, a start that is about to rewrite the
\* status excepted.
StatusInv == \/ Publishing
             \/ /\ ~active => \A w \in Workers : workerPC[w] \notin Working \cup {"autoLock"}
                /\ autoLocked => \A w \in Workers : key[w] # "live"

\* Nobody has told the worker in the handle, or the one about to be stored
\* there, to stop; the latter has not reported anything yet.
UnstoppedInv ==
  /\ \A w \in Workers : stopSignal[w] => /\ w <= spawned
                                         /\ handle # w
                                         /\ Publishing => w # spawned
  /\ Publishing => /\ workerPC[spawned] \in Working \cup {"autoLock"}
                   /\ reported[spawned] = 0

\* An active status has an unlocked worker behind it, or a failed restart.
ActiveInv ==
  mutex = NoCaller /\ active =>
    \/ handle # NoWorker /\ workerPC[handle] \in Working \cup {"autoLock"}
    \/ lastResult = "keyfileError" /\ \A w \in Workers : ~Alive(w)

\* The status and the worker agree on what has been reported.
LogInv == Publishing \/ LogMatchesSession

IInv == /\ TypeOK
        /\ MutexInv
        /\ HandleInv
        /\ SupervisedInv
        /\ KeyInv
        /\ ReportInv
        /\ UnstoppedInv
        /\ StatusInv
        /\ ActiveInv
        /\ LogInv

-----------------------------------------------------------------------------
\* The folder watcher implements sessions that never overlap and never end with
\* a container unreported.
Sessions == INSTANCE WatchSessions
              WITH Sessions <- Workers, running <- {w \in Workers : Alive(w)}
ImplementsSessions == Sessions!SSpec

-----------------------------------------------------------------------------
\* A caller joins, with the mutex in its hands, a worker that needs the mutex.
JoinDeadlock == \E c \in Callers :
                  /\ callerPC[c] \in {"startJoin", "stopJoin"}
                  /\ joining[c] \in Workers
                  /\ workerPC[joining[c]] \in {"record", "autoLock"}

\* Every call returns, except when the mutex is held to join a worker that is
\* waiting for the mutex: there is no other way to hang.
CallReturns == \A c \in Callers :
  callerPC[c] # "idle" ~> callerPC[c] = "idle" \/ JoinDeadlock

\* The key of a worker that has been told to stop is wiped from memory, with
\* the same exception.
StoppedKeyIsPurged == \A w \in Workers :
  stopSignal[w] ~> key[w] = "zeroized" \/ JoinDeadlock

\* stop_folder_watcher returns ("Watcher should stop cleanly").
StopReturns == \A c \in Callers : callerPC[c] = "stopJoin" ~> callerPC[c] = "idle"
=============================================================================
