----------------------- MODULE WatcherLifecycleProofs -----------------------
(***************************************************************************)
(* The safety properties of WatcherLifecycle, proved for any number of     *)
(* callers and workers and any capacity of the log.  Each conjunct of the  *)
(* inductive invariant IInv has a lemma that says which other conjuncts    *)
(* its preservation needs, with one step per action; the theorems follow   *)
(* from the conjunction.  The last section is about the one way to hang.   *)
(***************************************************************************)
EXTENDS WatcherLifecycle, TLAPS

\* The audit log after one more entry: the entry is last, the others keep their
\* order, and exactly the oldest one is gone when the log was full.
LEMMA LogWithEntry ==
  ASSUME NEW S, NEW log \in Seq(S), NEW e \in S, Len(log) <= MaxLog
  PROVE  /\ LogWith(log, e) \in Seq(S)
         /\ Len(LogWith(log, e)) = IF Len(log) < MaxLog THEN Len(log) + 1
                                                        ELSE MaxLog
         /\ \A i \in 1 .. Len(LogWith(log, e)) :
              LogWith(log, e)[i] = IF i = Len(LogWith(log, e)) THEN e
                                   ELSE log[Len(log) + 1 - Len(LogWith(log, e)) + i]
<1> USE BoundsAssumption
<1> DEFINE longer == Append(log, e)
<1>1. /\ longer \in Seq(S)
      /\ Len(longer) = Len(log) + 1
      /\ \A i \in 1 .. Len(longer) :
           longer[i] = IF i = Len(longer) THEN e ELSE log[i]
  OBVIOUS
<1>2. CASE Len(log) < MaxLog
  <2>1. LogWith(log, e) = longer
    BY <1>1, <1>2 DEF LogWith
  <2> QED
    BY <1>1, <1>2, <2>1
<1>3. CASE Len(log) = MaxLog
  <2>1. LogWith(log, e) = Tail(longer)
    BY <1>1, <1>3 DEF LogWith
  <2>2. longer # << >>
    BY <1>1
  <2>3. /\ Tail(longer) \in Seq(S)
        /\ Len(Tail(longer)) = MaxLog
        /\ \A i \in 1 .. MaxLog : Tail(longer)[i] = longer[i + 1]
    BY <1>1, <1>3, <2>2
  <2>4. \A i \in 1 .. MaxLog : longer[i + 1] = IF i = MaxLog THEN e ELSE log[i + 1]
    BY <1>1, <1>3
  <2>5. \A i \in 1 .. MaxLog : LogWith(log, e)[i] = IF i = MaxLog THEN e
                                                    ELSE log[i + 1]
    BY <2>1, <2>3, <2>4
  <2>6. Len(LogWith(log, e)) = MaxLog /\ ~(Len(log) < MaxLog)
    BY <1>3, <2>1, <2>3
  <2>7. \A i \in 1 .. MaxLog : Len(log) + 1 - MaxLog + i = i + 1
    BY <1>3
  <2> HIDE DEF longer
  <2> QED
    BY <2>1, <2>3, <2>5, <2>6, <2>7
<1> QED
  BY <1>2, <1>3

\* One more report of the same worker keeps the log a trail of its newest reports.
LEMMA TrailGrows ==
  ASSUME NEW S, NEW log \in Seq(S), NEW s, NEW n \in Nat, TrailOf(log, s, n),
         [worker |-> s, nth |-> n + 1] \in S
  PROVE  /\ LogWith(log, [worker |-> s, nth |-> n + 1]) \in Seq(S)
         /\ TrailOf(LogWith(log, [worker |-> s, nth |-> n + 1]), s, n + 1)
<1> USE BoundsAssumption
<1> DEFINE e == [worker |-> s, nth |-> n + 1]
           longer == LogWith(log, e)
<1>1. /\ Len(log) = IF n < MaxLog THEN n ELSE MaxLog
      /\ \A i \in 1 .. Len(log) : log[i] = [worker |-> s, nth |-> n - Len(log) + i]
  BY DEF TrailOf
<1>2. Len(log) \in Nat /\ Len(log) <= MaxLog
  BY <1>1
<1>3. /\ longer \in Seq(S)
      /\ Len(longer) = IF Len(log) < MaxLog THEN Len(log) + 1 ELSE MaxLog
      /\ \A i \in 1 .. Len(longer) :
           longer[i] = IF i = Len(longer) THEN e ELSE log[Len(log) + 1 - Len(longer) + i]
  BY <1>2, LogWithEntry
<1> HIDE DEF longer
<1>4. Len(longer) = IF n + 1 < MaxLog THEN n + 1 ELSE MaxLog
  BY <1>1, <1>3
<1>5. ASSUME NEW i \in 1 .. Len(longer)
      PROVE  longer[i] = [worker |-> s, nth |-> (n + 1) - Len(longer) + i]
  <2>1. CASE i = Len(longer)
    <3>1. (n + 1) - Len(longer) + i = n + 1
      BY <1>4, <2>1
    <3> QED
      BY <1>3, <2>1, <3>1
  <2>2. CASE i # Len(longer)
    <3> DEFINE j == Len(log) + 1 - Len(longer) + i
    <3>1. j \in 1 .. Len(log)
      BY <1>2, <1>3, <2>2
    <3>2. longer[i] = log[j]
      BY <1>3, <2>2
    <3>3. log[j] = [worker |-> s, nth |-> n - Len(log) + j]
      BY <1>1, <3>1
    <3>4. n - Len(log) + j = (n + 1) - Len(longer) + i
      BY <1>2, <1>3
    <3> QED
      BY <3>2, <3>3, <3>4
  <2> QED
    BY <2>1, <2>2
<1> QED
  BY <1>3, <1>4, <1>5 DEF TrailOf, longer


\* Every step keeps the variables in their types.
LEMMA TypeStep ==
  ASSUME TypeOK, ReportInv, SupervisedInv, LogInv,
         [Next]_vars
  PROVE  TypeOK'
<1> USE NoCallerAssumption, BoundsAssumption DEF TypeOK, Workers, NoWorker,
       Entry, managerVars, callerVars, workerVars, others, HandleTold,
       NotTold, KeyWiped, Candidate
<1>1. ASSUME NEW c \in Callers, Call(c) PROVE TypeOK'
  BY <1>1 DEF Call, Goto
<1>2. ASSUME NEW c \in Callers, StartTakesHandle(c) PROVE TypeOK'
  BY <1>2 DEF StartTakesHandle, TakeHandle, Goto
<1>3. ASSUME NEW c \in Callers, StartJoins(c) PROVE TypeOK'
  BY <1>3 DEF StartJoins, Goto, Joined
<1>4. ASSUME NEW c \in Callers, StartFails(c) PROVE TypeOK'
  BY <1>4 DEF StartFails, Finish, Goto
<1>5. ASSUME NEW c \in Callers, StartSpawns(c) PROVE TypeOK'
  <2>1. spawned' \in Workers
    BY <1>5 DEF StartSpawns
  <2>2. /\ workerPC' = [workerPC EXCEPT ![spawned'] = "loop"]
        /\ key' = [key EXCEPT ![spawned'] = "live"]
        /\ callerPC' = [callerPC EXCEPT ![c] = "startPublish"]
        /\ UNCHANGED <<mutex, handle, active, autoLocked, processed, auditLog,
                       joining, lastResult, stopSignal, todo, made, reported>>
    BY <1>5 DEF StartSpawns, Goto
  <2>3. workerPC' \in [Workers -> {"unborn", "loop", "scan", "record", "autoLock",
                                  "sleep", "exit", "dead"}]
    BY <2>1, <2>2
  <2>4. key' \in [Workers -> {"none", "live", "zeroized"}]
    BY <2>1, <2>2
  <2>5. spawned' \in 0 .. MaxWorkers
    BY <2>1
  <2>6. callerPC' \in [Callers -> {"idle", "start", "stop", "status", "startJoin",
                                   "startKey", "startPublish", "stopJoin"}]
    BY <2>2
  <2> QED
    BY <2>2, <2>3, <2>4, <2>5, <2>6
<1>6. ASSUME NEW c \in Callers, StartPublishes(c) PROVE TypeOK'
  <2>1. spawned \in Workers \cup {NoWorker} /\ << >> \in Seq(Entry)
    OBVIOUS
  <2> QED
    BY <1>6, <2>1 DEF StartPublishes, Finish, Goto
<1>7. ASSUME NEW c \in Callers, StopTakesHandle(c) PROVE TypeOK'
  BY <1>7 DEF StopTakesHandle, TakeHandle, Goto
<1>8. ASSUME NEW c \in Callers, StopPublishes(c) PROVE TypeOK'
  BY <1>8 DEF StopPublishes, Finish, Goto, Joined
<1>9. ASSUME NEW c \in Callers, StatusReturns(c) PROVE TypeOK'
  BY <1>9 DEF StatusReturns, Goto
<1>10. ASSUME NEW w \in Workers, SeesStop(w) PROVE TypeOK'
  BY <1>10 DEF SeesStop, WorkerGoto
<1>11. ASSUME NEW w \in Workers, TimesOut(w) PROVE TypeOK'
  BY <1>11 DEF TimesOut, WorkerGoto
<1>12. ASSUME NEW w \in Workers, PublishesAutoLock(w) PROVE TypeOK'
  BY <1>12 DEF PublishesAutoLock, WorkerGoto
<1>13. ASSUME NEW w \in Workers, Collects(w) PROVE TypeOK'
  BY <1>13 DEF Collects, WorkerGoto
<1>14. ASSUME NEW w \in Workers, SkipsCandidate(w) PROVE TypeOK'
  <2>1. todo'[w] \in 0 .. MaxBatch
    BY <1>14 DEF SkipsCandidate
  <2> QED
    BY <1>14, <2>1 DEF SkipsCandidate
<1>15. ASSUME NEW w \in Workers, EncryptsCandidate(w) PROVE TypeOK'
  <2>1. todo'[w] \in 0 .. MaxBatch /\ made'[w] \in 0 .. MaxFiles
    BY <1>15 DEF EncryptsCandidate
  <2> QED
    BY <1>15, <2>1 DEF EncryptsCandidate, WorkerGoto
<1>16. ASSUME NEW w \in Workers, Records(w) PROVE TypeOK'
  <2>1. made[w] = reported[w] + 1 /\ Len(auditLog) <= MaxLog
    BY <1>16 DEF Records, ReportInv, LogInv, LogMatchesSession, TrailOf, Publishing
  <2>2. [worker |-> w, nth |-> made[w]] \in Entry
    BY <2>1
  <2>3. auditLog' \in Seq(Entry)
    BY <1>16, <2>1, <2>2, LogWithEntry DEF Records
  <2>4. processed' \in Nat /\ reported' \in [Workers -> 0 .. MaxFiles]
    BY <1>16, <2>1 DEF Records
  <2> QED
    BY <1>16, <2>3, <2>4 DEF Records, WorkerGoto
<1>17. ASSUME NEW w \in Workers, EndsPoll(w) PROVE TypeOK'
  BY <1>17 DEF EndsPoll, WorkerGoto
<1>18. ASSUME NEW w \in Workers, WakesUp(w) PROVE TypeOK'
  BY <1>18 DEF WakesUp, WorkerGoto
<1>19. ASSUME NEW w \in Workers, Exits(w) PROVE TypeOK'
  BY <1>19 DEF Exits, WorkerGoto
<1>20. CASE UNCHANGED vars
  BY <1>20 DEF vars
<1> QED
  BY <1>1, <1>2, <1>3, <1>4, <1>5, <1>6, <1>7, <1>8, <1>9, <1>10, <1>11,
     <1>12, <1>13, <1>14, <1>15, <1>16, <1>17, <1>18, <1>19, <1>20 DEF Next,
     CallerStep, WorkerStep

\* The mutex is held by the caller that is inside its critical section.
LEMMA MutexStep ==
  ASSUME TypeOK, MutexInv,
         [Next]_vars
  PROVE  MutexInv'
<1> USE NoCallerAssumption DEF TypeOK, MutexInv, Holding, managerVars,
       callerVars, workerVars, others, HandleTold, NotTold, KeyWiped,
       Candidate
<1>1. ASSUME NEW c \in Callers, Call(c) PROVE MutexInv'
  BY <1>1 DEF Call, Goto
<1>2. ASSUME NEW c \in Callers, StartTakesHandle(c) PROVE MutexInv'
  BY <1>2 DEF StartTakesHandle, TakeHandle, Goto
<1>3. ASSUME NEW c \in Callers, StartJoins(c) PROVE MutexInv'
  BY <1>3 DEF StartJoins, Goto, Joined
<1>4. ASSUME NEW c \in Callers, StartFails(c) PROVE MutexInv'
  BY <1>4 DEF StartFails, Finish, Goto
<1>5. ASSUME NEW c \in Callers, StartSpawns(c) PROVE MutexInv'
  BY <1>5 DEF StartSpawns, Goto
<1>6. ASSUME NEW c \in Callers, StartPublishes(c) PROVE MutexInv'
  BY <1>6 DEF StartPublishes, Finish, Goto
<1>7. ASSUME NEW c \in Callers, StopTakesHandle(c) PROVE MutexInv'
  BY <1>7 DEF StopTakesHandle, TakeHandle, Goto
<1>8. ASSUME NEW c \in Callers, StopPublishes(c) PROVE MutexInv'
  BY <1>8 DEF StopPublishes, Finish, Goto, Joined
<1>9. ASSUME NEW c \in Callers, StatusReturns(c) PROVE MutexInv'
  BY <1>9 DEF StatusReturns, Goto
<1>10. ASSUME NEW w \in Workers, SeesStop(w) PROVE MutexInv'
  BY <1>10 DEF SeesStop, WorkerGoto
<1>11. ASSUME NEW w \in Workers, TimesOut(w) PROVE MutexInv'
  BY <1>11 DEF TimesOut, WorkerGoto
<1>12. ASSUME NEW w \in Workers, PublishesAutoLock(w) PROVE MutexInv'
  BY <1>12 DEF PublishesAutoLock, WorkerGoto
<1>13. ASSUME NEW w \in Workers, Collects(w) PROVE MutexInv'
  BY <1>13 DEF Collects, WorkerGoto
<1>14. ASSUME NEW w \in Workers, SkipsCandidate(w) PROVE MutexInv'
  BY <1>14 DEF SkipsCandidate
<1>15. ASSUME NEW w \in Workers, EncryptsCandidate(w) PROVE MutexInv'
  BY <1>15 DEF EncryptsCandidate, WorkerGoto
<1>16. ASSUME NEW w \in Workers, Records(w) PROVE MutexInv'
  BY <1>16 DEF Records, WorkerGoto
<1>17. ASSUME NEW w \in Workers, EndsPoll(w) PROVE MutexInv'
  BY <1>17 DEF EndsPoll, WorkerGoto
<1>18. ASSUME NEW w \in Workers, WakesUp(w) PROVE MutexInv'
  BY <1>18 DEF WakesUp, WorkerGoto
<1>19. ASSUME NEW w \in Workers, Exits(w) PROVE MutexInv'
  BY <1>19 DEF Exits, WorkerGoto
<1>20. CASE UNCHANGED vars
  BY <1>20 DEF vars
<1> QED
  BY <1>1, <1>2, <1>3, <1>4, <1>5, <1>6, <1>7, <1>8, <1>9, <1>10, <1>11,
     <1>12, <1>13, <1>14, <1>15, <1>16, <1>17, <1>18, <1>19, <1>20 DEF Next,
     CallerStep, WorkerStep

\* The handle names the last worker spawned, or nobody.
LEMMA HandleStep ==
  ASSUME TypeOK, MutexInv, HandleInv,
         [Next]_vars
  PROVE  HandleInv'
<1> USE NoCallerAssumption, BoundsAssumption DEF TypeOK, MutexInv, Holding,
       HandleInv, Publishing, Workers, NoWorker, managerVars, callerVars,
       workerVars, others, HandleTold, NotTold, KeyWiped, Candidate
<1>1. ASSUME NEW c \in Callers, Call(c) PROVE HandleInv'
  BY <1>1 DEF Call, Goto
<1>2. ASSUME NEW c \in Callers, StartTakesHandle(c) PROVE HandleInv'
  BY <1>2 DEF StartTakesHandle, TakeHandle, Goto
<1>3. ASSUME NEW c \in Callers, StartJoins(c) PROVE HandleInv'
  BY <1>3 DEF StartJoins, Goto, Joined
<1>4. ASSUME NEW c \in Callers, StartFails(c) PROVE HandleInv'
  BY <1>4 DEF StartFails, Finish, Goto
<1>5. ASSUME NEW c \in Callers, StartSpawns(c) PROVE HandleInv'
  BY <1>5 DEF StartSpawns, Goto
<1>6. ASSUME NEW c \in Callers, StartPublishes(c) PROVE HandleInv'
  BY <1>6 DEF StartPublishes, Finish, Goto
<1>7. ASSUME NEW c \in Callers, StopTakesHandle(c) PROVE HandleInv'
  BY <1>7 DEF StopTakesHandle, TakeHandle, Goto
<1>8. ASSUME NEW c \in Callers, StopPublishes(c) PROVE HandleInv'
  BY <1>8 DEF StopPublishes, Finish, Goto, Joined
<1>9. ASSUME NEW c \in Callers, StatusReturns(c) PROVE HandleInv'
  BY <1>9 DEF StatusReturns, Goto
<1>10. ASSUME NEW w \in Workers, SeesStop(w) PROVE HandleInv'
  BY <1>10 DEF SeesStop, WorkerGoto
<1>11. ASSUME NEW w \in Workers, TimesOut(w) PROVE HandleInv'
  BY <1>11 DEF TimesOut, WorkerGoto
<1>12. ASSUME NEW w \in Workers, PublishesAutoLock(w) PROVE HandleInv'
  BY <1>12 DEF PublishesAutoLock, WorkerGoto
<1>13. ASSUME NEW w \in Workers, Collects(w) PROVE HandleInv'
  BY <1>13 DEF Collects, WorkerGoto
<1>14. ASSUME NEW w \in Workers, SkipsCandidate(w) PROVE HandleInv'
  BY <1>14 DEF SkipsCandidate
<1>15. ASSUME NEW w \in Workers, EncryptsCandidate(w) PROVE HandleInv'
  BY <1>15 DEF EncryptsCandidate, WorkerGoto
<1>16. ASSUME NEW w \in Workers, Records(w) PROVE HandleInv'
  BY <1>16 DEF Records, WorkerGoto
<1>17. ASSUME NEW w \in Workers, EndsPoll(w) PROVE HandleInv'
  BY <1>17 DEF EndsPoll, WorkerGoto
<1>18. ASSUME NEW w \in Workers, WakesUp(w) PROVE HandleInv'
  BY <1>18 DEF WakesUp, WorkerGoto
<1>19. ASSUME NEW w \in Workers, Exits(w) PROVE HandleInv'
  BY <1>19 DEF Exits, WorkerGoto
<1>20. CASE UNCHANGED vars
  BY <1>20 DEF vars
<1> QED
  BY <1>1, <1>2, <1>3, <1>4, <1>5, <1>6, <1>7, <1>8, <1>9, <1>10, <1>11,
     <1>12, <1>13, <1>14, <1>15, <1>16, <1>17, <1>18, <1>19, <1>20 DEF Next,
     CallerStep, WorkerStep

\* A worker that only changes its program counter, and was alive, stays answered for.
LEMMA SupervisedGoto ==
  ASSUME TypeOK, SupervisedInv, NEW w \in Workers, NEW pc, WorkerGoto(w, pc), Alive(w),
         UNCHANGED <<mutex, handle, callerPC, joining, spawned, stopSignal>>
  PROVE  SupervisedInv'
<1>1. ASSUME NEW v \in Workers, Alive(v)' PROVE Alive(v)
  <2>1. CASE v = w
    BY <2>1
  <2>2. CASE v # w
    BY <1>1, <2>2 DEF WorkerGoto, TypeOK, Alive
  <2> QED
    BY <2>1, <2>2
<1>2. Publishing' = Publishing
  BY DEF Publishing
<1> QED
  BY <1>1, <1>2 DEF SupervisedInv

\* Somebody answers for every live worker. A start spawns only when the handle
\* was empty or its worker has been joined, hence when no worker is alive.
LEMMA SupervisedStep ==
  ASSUME TypeOK, MutexInv, HandleInv, SupervisedInv,
         [Next]_vars
  PROVE  SupervisedInv'
<1> USE NoCallerAssumption, BoundsAssumption DEF TypeOK, MutexInv, Holding,
       HandleInv, Publishing, Workers, NoWorker, SupervisedInv, Alive,
       managerVars, callerVars, workerVars, others, HandleTold, NotTold,
       KeyWiped, Candidate
<1>1. ASSUME NEW c \in Callers, Call(c) PROVE SupervisedInv'
  BY <1>1 DEF Call, Goto
<1>2. ASSUME NEW c \in Callers, StartTakesHandle(c) PROVE SupervisedInv'
  <2>1. /\ mutex = NoCaller /\ mutex' = c
        /\ joining' = [joining EXCEPT ![c] = handle]
        /\ stopSignal' = [w \in Workers |-> stopSignal[w] \/ w = handle]
        /\ handle # NoWorker => callerPC' = [callerPC EXCEPT ![c] = "startJoin"]
        /\ UNCHANGED <<spawned, workerPC>>
    BY <1>2 DEF StartTakesHandle, TakeHandle, Goto
  <2>2. ASSUME NEW w \in Workers, Alive(w)
        PROVE  w = spawned /\ handle = w
    BY <2>1, <2>2
  <2>3. ASSUME NEW w \in Workers, Alive(w)'
        PROVE  /\ w = spawned'
               /\ callerPC'[mutex'] \in {"startJoin", "stopJoin"}
               /\ joining'[mutex'] = w /\ stopSignal'[w]
    <3>1. w = spawned /\ handle = w
      BY <2>1, <2>2, <2>3
    <3>2. callerPC'[c] \in {"startJoin", "stopJoin"}
      BY <2>1, <3>1
    <3>3. joining'[c] = w /\ stopSignal'[w]
      BY <2>1, <3>1
    <3> QED
      BY <2>1, <3>1, <3>2, <3>3
  <2> QED
    BY <2>1, <2>3
<1>3. ASSUME NEW c \in Callers, StartJoins(c) PROVE SupervisedInv'
  BY <1>3 DEF StartJoins, Goto, Joined
<1>4. ASSUME NEW c \in Callers, StartFails(c) PROVE SupervisedInv'
  BY <1>4 DEF StartFails, Finish, Goto
<1>5. ASSUME NEW c \in Callers, StartSpawns(c) PROVE SupervisedInv'
  BY <1>5 DEF StartSpawns, Goto
<1>6. ASSUME NEW c \in Callers, StartPublishes(c) PROVE SupervisedInv'
  BY <1>6 DEF StartPublishes, Finish, Goto
<1>7. ASSUME NEW c \in Callers, StopTakesHandle(c) PROVE SupervisedInv'
  <2>1. /\ mutex = NoCaller /\ mutex' = c
        /\ joining' = [joining EXCEPT ![c] = handle]
        /\ stopSignal' = [w \in Workers |-> stopSignal[w] \/ w = handle]
        /\ handle # NoWorker => callerPC' = [callerPC EXCEPT ![c] = "stopJoin"]
        /\ UNCHANGED <<spawned, workerPC>>
    BY <1>7 DEF StopTakesHandle, TakeHandle, Goto
  <2>2. ASSUME NEW w \in Workers, Alive(w)
        PROVE  w = spawned /\ handle = w
    BY <2>1, <2>2
  <2>3. ASSUME NEW w \in Workers, Alive(w)'
        PROVE  /\ w = spawned'
               /\ callerPC'[mutex'] \in {"startJoin", "stopJoin"}
               /\ joining'[mutex'] = w /\ stopSignal'[w]
    <3>1. w = spawned /\ handle = w
      BY <2>1, <2>2, <2>3
    <3>2. callerPC'[c] \in {"startJoin", "stopJoin"}
      BY <2>1, <3>1
    <3>3. joining'[c] = w /\ stopSignal'[w]
      BY <2>1, <3>1
    <3> QED
      BY <2>1, <3>1, <3>2, <3>3
  <2> QED
    BY <2>1, <2>3
<1>8. ASSUME NEW c \in Callers, StopPublishes(c) PROVE SupervisedInv'
  BY <1>8 DEF StopPublishes, Finish, Goto, Joined
<1>9. ASSUME NEW c \in Callers, StatusReturns(c) PROVE SupervisedInv'
  BY <1>9 DEF StatusReturns, Goto
<1>10. ASSUME NEW w \in Workers, SeesStop(w) PROVE SupervisedInv'
  <2>1. /\ WorkerGoto(w, "exit") /\ Alive(w)
        /\ UNCHANGED <<mutex, handle, callerPC, joining, spawned, stopSignal>>
    BY <1>10 DEF SeesStop
  <2> QED
    BY <2>1, SupervisedGoto
<1>11. ASSUME NEW w \in Workers, TimesOut(w) PROVE SupervisedInv'
  <2>1. /\ WorkerGoto(w, "autoLock") /\ Alive(w)
        /\ UNCHANGED <<mutex, handle, callerPC, joining, spawned, stopSignal>>
    BY <1>11 DEF TimesOut
  <2> QED
    BY <2>1, SupervisedGoto
<1>12. ASSUME NEW w \in Workers, PublishesAutoLock(w) PROVE SupervisedInv'
  <2>1. /\ WorkerGoto(w, "exit") /\ Alive(w)
        /\ UNCHANGED <<mutex, handle, callerPC, joining, spawned, stopSignal>>
    BY <1>12 DEF PublishesAutoLock
  <2> QED
    BY <2>1, SupervisedGoto
<1>13. ASSUME NEW w \in Workers, Collects(w) PROVE SupervisedInv'
  <2>1. /\ WorkerGoto(w, "scan") /\ Alive(w)
        /\ UNCHANGED <<mutex, handle, callerPC, joining, spawned, stopSignal>>
    BY <1>13 DEF Collects
  <2> QED
    BY <2>1, SupervisedGoto
<1>14. ASSUME NEW w \in Workers, SkipsCandidate(w) PROVE SupervisedInv'
  BY <1>14 DEF SkipsCandidate
<1>15. ASSUME NEW w \in Workers, EncryptsCandidate(w) PROVE SupervisedInv'
  <2>1. /\ WorkerGoto(w, "record") /\ Alive(w)
        /\ UNCHANGED <<mutex, handle, callerPC, joining, spawned, stopSignal>>
    BY <1>15 DEF EncryptsCandidate
  <2> QED
    BY <2>1, SupervisedGoto
<1>16. ASSUME NEW w \in Workers, Records(w) PROVE SupervisedInv'
  <2>1. /\ WorkerGoto(w, "scan") /\ Alive(w)
        /\ UNCHANGED <<mutex, handle, callerPC, joining, spawned, stopSignal>>
    BY <1>16 DEF Records
  <2> QED
    BY <2>1, SupervisedGoto
<1>17. ASSUME NEW w \in Workers, EndsPoll(w) PROVE SupervisedInv'
  <2>1. /\ WorkerGoto(w, "sleep") /\ Alive(w)
        /\ UNCHANGED <<mutex, handle, callerPC, joining, spawned, stopSignal>>
    BY <1>17 DEF EndsPoll
  <2> QED
    BY <2>1, SupervisedGoto
<1>18. ASSUME NEW w \in Workers, WakesUp(w) PROVE SupervisedInv'
  <2>1. /\ WorkerGoto(w, "loop") /\ Alive(w)
        /\ UNCHANGED <<mutex, handle, callerPC, joining, spawned, stopSignal>>
    BY <1>18 DEF WakesUp
  <2> QED
    BY <2>1, SupervisedGoto
<1>19. ASSUME NEW w \in Workers, Exits(w) PROVE SupervisedInv'
  <2>1. /\ WorkerGoto(w, "dead") /\ Alive(w)
        /\ UNCHANGED <<mutex, handle, callerPC, joining, spawned, stopSignal>>
    BY <1>19 DEF Exits
  <2> QED
    BY <2>1, SupervisedGoto
<1>20. CASE UNCHANGED vars
  BY <1>20 DEF vars
<1> QED
  BY <1>1, <1>2, <1>3, <1>4, <1>5, <1>6, <1>7, <1>8, <1>9, <1>10, <1>11,
     <1>12, <1>13, <1>14, <1>15, <1>16, <1>17, <1>18, <1>19, <1>20 DEF Next,
     CallerStep, WorkerStep

\* A worker holds the key exactly while it may encrypt.
LEMMA KeyStep ==
  ASSUME TypeOK, HandleInv, KeyInv,
         [Next]_vars
  PROVE  KeyInv'
<1> USE NoCallerAssumption, BoundsAssumption DEF TypeOK, KeyInv, Working,
       HandleInv, Workers, managerVars, callerVars, workerVars, others,
       HandleTold, NotTold, KeyWiped, Candidate
<1>1. ASSUME NEW c \in Callers, Call(c) PROVE KeyInv'
  BY <1>1 DEF Call, Goto
<1>2. ASSUME NEW c \in Callers, StartTakesHandle(c) PROVE KeyInv'
  BY <1>2 DEF StartTakesHandle, TakeHandle, Goto
<1>3. ASSUME NEW c \in Callers, StartJoins(c) PROVE KeyInv'
  BY <1>3 DEF StartJoins, Goto, Joined
<1>4. ASSUME NEW c \in Callers, StartFails(c) PROVE KeyInv'
  BY <1>4 DEF StartFails, Finish, Goto
<1>5. ASSUME NEW c \in Callers, StartSpawns(c) PROVE KeyInv'
  BY <1>5 DEF StartSpawns, Goto
<1>6. ASSUME NEW c \in Callers, StartPublishes(c) PROVE KeyInv'
  BY <1>6 DEF StartPublishes, Finish, Goto
<1>7. ASSUME NEW c \in Callers, StopTakesHandle(c) PROVE KeyInv'
  BY <1>7 DEF StopTakesHandle, TakeHandle, Goto
<1>8. ASSUME NEW c \in Callers, StopPublishes(c) PROVE KeyInv'
  BY <1>8 DEF StopPublishes, Finish, Goto, Joined
<1>9. ASSUME NEW c \in Callers, StatusReturns(c) PROVE KeyInv'
  BY <1>9 DEF StatusReturns, Goto
<1>10. ASSUME NEW w \in Workers, SeesStop(w) PROVE KeyInv'
  BY <1>10 DEF SeesStop, WorkerGoto
<1>11. ASSUME NEW w \in Workers, TimesOut(w) PROVE KeyInv'
  BY <1>11 DEF TimesOut, WorkerGoto
<1>12. ASSUME NEW w \in Workers, PublishesAutoLock(w) PROVE KeyInv'
  BY <1>12 DEF PublishesAutoLock, WorkerGoto
<1>13. ASSUME NEW w \in Workers, Collects(w) PROVE KeyInv'
  BY <1>13 DEF Collects, WorkerGoto
<1>14. ASSUME NEW w \in Workers, SkipsCandidate(w) PROVE KeyInv'
  BY <1>14 DEF SkipsCandidate
<1>15. ASSUME NEW w \in Workers, EncryptsCandidate(w) PROVE KeyInv'
  BY <1>15 DEF EncryptsCandidate, WorkerGoto
<1>16. ASSUME NEW w \in Workers, Records(w) PROVE KeyInv'
  BY <1>16 DEF Records, WorkerGoto
<1>17. ASSUME NEW w \in Workers, EndsPoll(w) PROVE KeyInv'
  BY <1>17 DEF EndsPoll, WorkerGoto
<1>18. ASSUME NEW w \in Workers, WakesUp(w) PROVE KeyInv'
  BY <1>18 DEF WakesUp, WorkerGoto
<1>19. ASSUME NEW w \in Workers, Exits(w) PROVE KeyInv'
  BY <1>19 DEF Exits, WorkerGoto
<1>20. CASE UNCHANGED vars
  BY <1>20 DEF vars
<1> QED
  BY <1>1, <1>2, <1>3, <1>4, <1>5, <1>6, <1>7, <1>8, <1>9, <1>10, <1>11,
     <1>12, <1>13, <1>14, <1>15, <1>16, <1>17, <1>18, <1>19, <1>20 DEF Next,
     CallerStep, WorkerStep

\* A worker is at most one report behind its containers.
LEMMA ReportStep ==
  ASSUME TypeOK, HandleInv, ReportInv,
         [Next]_vars
  PROVE  ReportInv'
<1> USE NoCallerAssumption, BoundsAssumption DEF TypeOK, ReportInv, HandleInv,
       Workers, managerVars, callerVars, workerVars, others, HandleTold,
       NotTold, KeyWiped, Candidate
<1>1. ASSUME NEW c \in Callers, Call(c) PROVE ReportInv'
  BY <1>1 DEF Call, Goto
<1>2. ASSUME NEW c \in Callers, StartTakesHandle(c) PROVE ReportInv'
  BY <1>2 DEF StartTakesHandle, TakeHandle, Goto
<1>3. ASSUME NEW c \in Callers, StartJoins(c) PROVE ReportInv'
  BY <1>3 DEF StartJoins, Goto, Joined
<1>4. ASSUME NEW c \in Callers, StartFails(c) PROVE ReportInv'
  BY <1>4 DEF StartFails, Finish, Goto
<1>5. ASSUME NEW c \in Callers, StartSpawns(c) PROVE ReportInv'
  BY <1>5 DEF StartSpawns, Goto
<1>6. ASSUME NEW c \in Callers, StartPublishes(c) PROVE ReportInv'
  BY <1>6 DEF StartPublishes, Finish, Goto
<1>7. ASSUME NEW c \in Callers, StopTakesHandle(c) PROVE ReportInv'
  BY <1>7 DEF StopTakesHandle, TakeHandle, Goto
<1>8. ASSUME NEW c \in Callers, StopPublishes(c) PROVE ReportInv'
  BY <1>8 DEF StopPublishes, Finish, Goto, Joined
<1>9. ASSUME NEW c \in Callers, StatusReturns(c) PROVE ReportInv'
  BY <1>9 DEF StatusReturns, Goto
<1>10. ASSUME NEW w \in Workers, SeesStop(w) PROVE ReportInv'
  BY <1>10 DEF SeesStop, WorkerGoto
<1>11. ASSUME NEW w \in Workers, TimesOut(w) PROVE ReportInv'
  BY <1>11 DEF TimesOut, WorkerGoto
<1>12. ASSUME NEW w \in Workers, PublishesAutoLock(w) PROVE ReportInv'
  BY <1>12 DEF PublishesAutoLock, WorkerGoto
<1>13. ASSUME NEW w \in Workers, Collects(w) PROVE ReportInv'
  BY <1>13 DEF Collects, WorkerGoto
<1>14. ASSUME NEW w \in Workers, SkipsCandidate(w) PROVE ReportInv'
  BY <1>14 DEF SkipsCandidate
<1>15. ASSUME NEW w \in Workers, EncryptsCandidate(w) PROVE ReportInv'
  BY <1>15 DEF EncryptsCandidate, WorkerGoto
<1>16. ASSUME NEW w \in Workers, Records(w) PROVE ReportInv'
  BY <1>16 DEF Records, WorkerGoto
<1>17. ASSUME NEW w \in Workers, EndsPoll(w) PROVE ReportInv'
  BY <1>17 DEF EndsPoll, WorkerGoto
<1>18. ASSUME NEW w \in Workers, WakesUp(w) PROVE ReportInv'
  BY <1>18 DEF WakesUp, WorkerGoto
<1>19. ASSUME NEW w \in Workers, Exits(w) PROVE ReportInv'
  BY <1>19 DEF Exits, WorkerGoto
<1>20. CASE UNCHANGED vars
  BY <1>20 DEF vars
<1> QED
  BY <1>1, <1>2, <1>3, <1>4, <1>5, <1>6, <1>7, <1>8, <1>9, <1>10, <1>11,
     <1>12, <1>13, <1>14, <1>15, <1>16, <1>17, <1>18, <1>19, <1>20 DEF Next,
     CallerStep, WorkerStep

\* A worker that only changes its program counter keeps UnstoppedInv, unless it
\* leaves the loop while it is about to be stored in the handle.
LEMMA UnstoppedGoto ==
  ASSUME TypeOK, UnstoppedInv, NEW w \in Workers, NEW pc, WorkerGoto(w, pc),
         UNCHANGED <<mutex, handle, callerPC, spawned, stopSignal, reported>>,
         pc \in Working \cup {"autoLock"} \/ ~Publishing \/ w # spawned
  PROVE  UnstoppedInv'
<1>1. Publishing' = Publishing
  BY DEF Publishing
<1>2. ASSUME Publishing PROVE workerPC'[spawned] \in Working \cup {"autoLock"}
  <2>1. workerPC[spawned] \in Working \cup {"autoLock"}
    BY <1>2 DEF UnstoppedInv
  <2>2. CASE spawned = w
    <3>1. workerPC'[w] = pc
      BY DEF WorkerGoto, TypeOK
    <3> QED
      BY <1>2, <2>2, <3>1
  <2>3. CASE spawned # w
    <3>1. workerPC'[spawned] = workerPC[spawned]
      BY <2>3 DEF WorkerGoto, TypeOK
    <3> QED
      BY <2>1, <3>1
  <2> QED
    BY <2>2, <2>3
<1> QED
  BY <1>1, <1>2 DEF UnstoppedInv

\* Nobody stops the worker that is in the handle or about to get there: the
\* caller that sets a stop flag empties the handle in the same critical
\* section.
LEMMA UnstoppedStep ==
  ASSUME TypeOK, MutexInv, HandleInv, ReportInv, UnstoppedInv,
         [Next]_vars
  PROVE  UnstoppedInv'
<1> USE NoCallerAssumption, BoundsAssumption DEF TypeOK, MutexInv, Holding,
       HandleInv, Publishing, Workers, NoWorker, UnstoppedInv, Working,
       ReportInv, managerVars, callerVars, workerVars, others, HandleTold,
       NotTold, KeyWiped, Candidate
<1>1. ASSUME NEW c \in Callers, Call(c) PROVE UnstoppedInv'
  BY <1>1 DEF Call, Goto
<1>2. ASSUME NEW c \in Callers, StartTakesHandle(c) PROVE UnstoppedInv'
  BY <1>2 DEF StartTakesHandle, TakeHandle, Goto
<1>3. ASSUME NEW c \in Callers, StartJoins(c) PROVE UnstoppedInv'
  BY <1>3 DEF StartJoins, Goto, Joined
<1>4. ASSUME NEW c \in Callers, StartFails(c) PROVE UnstoppedInv'
  BY <1>4 DEF StartFails, Finish, Goto
<1>5. ASSUME NEW c \in Callers, StartSpawns(c) PROVE UnstoppedInv'
  BY <1>5 DEF StartSpawns, Goto
<1>6. ASSUME NEW c \in Callers, StartPublishes(c) PROVE UnstoppedInv'
  BY <1>6 DEF StartPublishes, Finish, Goto
<1>7. ASSUME NEW c \in Callers, StopTakesHandle(c) PROVE UnstoppedInv'
  BY <1>7 DEF StopTakesHandle, TakeHandle, Goto
<1>8. ASSUME NEW c \in Callers, StopPublishes(c) PROVE UnstoppedInv'
  BY <1>8 DEF StopPublishes, Finish, Goto, Joined
<1>9. ASSUME NEW c \in Callers, StatusReturns(c) PROVE UnstoppedInv'
  BY <1>9 DEF StatusReturns, Goto
<1>10. ASSUME NEW w \in Workers, SeesStop(w) PROVE UnstoppedInv'
  <2>1. WorkerGoto(w, "exit") /\ UNCHANGED <<mutex, handle, callerPC, spawned, stopSignal, reported>>
    BY <1>10 DEF SeesStop
  <2>2. ~Publishing \/ w # spawned
    BY <1>10 DEF SeesStop
  <2> QED
    BY <2>1, <2>2, UnstoppedGoto
<1>11. ASSUME NEW w \in Workers, TimesOut(w) PROVE UnstoppedInv'
  <2>1. WorkerGoto(w, "autoLock") /\ UNCHANGED <<mutex, handle, callerPC, spawned, stopSignal, reported>>
    BY <1>11 DEF TimesOut
  <2>2. "autoLock" \in Working \cup {"autoLock"}
    BY DEF Working
  <2> QED
    BY <2>1, <2>2, UnstoppedGoto
<1>12. ASSUME NEW w \in Workers, PublishesAutoLock(w) PROVE UnstoppedInv'
  <2>1. WorkerGoto(w, "exit") /\ UNCHANGED <<mutex, handle, callerPC, spawned, stopSignal, reported>>
    BY <1>12 DEF PublishesAutoLock
  <2>2. ~Publishing \/ w # spawned
    BY <1>12 DEF PublishesAutoLock
  <2> QED
    BY <2>1, <2>2, UnstoppedGoto
<1>13. ASSUME NEW w \in Workers, Collects(w) PROVE UnstoppedInv'
  <2>1. WorkerGoto(w, "scan") /\ UNCHANGED <<mutex, handle, callerPC, spawned, stopSignal, reported>>
    BY <1>13 DEF Collects
  <2>2. "scan" \in Working \cup {"autoLock"}
    BY DEF Working
  <2> QED
    BY <2>1, <2>2, UnstoppedGoto
<1>14. ASSUME NEW w \in Workers, SkipsCandidate(w) PROVE UnstoppedInv'
  BY <1>14 DEF SkipsCandidate
<1>15. ASSUME NEW w \in Workers, EncryptsCandidate(w) PROVE UnstoppedInv'
  <2>1. WorkerGoto(w, "record") /\ UNCHANGED <<mutex, handle, callerPC, spawned, stopSignal, reported>>
    BY <1>15 DEF EncryptsCandidate
  <2>2. "record" \in Working \cup {"autoLock"}
    BY DEF Working
  <2> QED
    BY <2>1, <2>2, UnstoppedGoto
<1>16. ASSUME NEW w \in Workers, Records(w) PROVE UnstoppedInv'
  BY <1>16 DEF Records, WorkerGoto
<1>17. ASSUME NEW w \in Workers, EndsPoll(w) PROVE UnstoppedInv'
  <2>1. WorkerGoto(w, "sleep") /\ UNCHANGED <<mutex, handle, callerPC, spawned, stopSignal, reported>>
    BY <1>17 DEF EndsPoll
  <2>2. "sleep" \in Working \cup {"autoLock"}
    BY DEF Working
  <2> QED
    BY <2>1, <2>2, UnstoppedGoto
<1>18. ASSUME NEW w \in Workers, WakesUp(w) PROVE UnstoppedInv'
  <2>1. WorkerGoto(w, "loop") /\ UNCHANGED <<mutex, handle, callerPC, spawned, stopSignal, reported>>
    BY <1>18 DEF WakesUp
  <2>2. "loop" \in Working \cup {"autoLock"}
    BY DEF Working
  <2> QED
    BY <2>1, <2>2, UnstoppedGoto
<1>19. ASSUME NEW w \in Workers, Exits(w) PROVE UnstoppedInv'
  <2>1. WorkerGoto(w, "dead") /\ UNCHANGED <<mutex, handle, callerPC, spawned, stopSignal, reported>>
    BY <1>19 DEF Exits
  <2>2. ~Publishing \/ w # spawned
    BY <1>19 DEF Exits
  <2> QED
    BY <2>1, <2>2, UnstoppedGoto
<1>20. CASE UNCHANGED vars
  BY <1>20 DEF vars
<1> QED
  BY <1>1, <1>2, <1>3, <1>4, <1>5, <1>6, <1>7, <1>8, <1>9, <1>10, <1>11,
     <1>12, <1>13, <1>14, <1>15, <1>16, <1>17, <1>18, <1>19, <1>20 DEF Next,
     CallerStep, WorkerStep

\* The status says inactive, or auto-locked, only when no worker works, or
\* holds the key.
LEMMA StatusStep ==
  ASSUME TypeOK, MutexInv, HandleInv, SupervisedInv, KeyInv, UnstoppedInv, StatusInv,
         [Next]_vars
  PROVE  StatusInv'
<1> USE NoCallerAssumption, BoundsAssumption DEF TypeOK, MutexInv, Holding,
       HandleInv, Publishing, Workers, NoWorker, UnstoppedInv, Working,
       StatusInv, SupervisedInv, KeyInv, Alive, managerVars, callerVars,
       workerVars, others, HandleTold, NotTold, KeyWiped, Candidate
<1>1. ASSUME NEW c \in Callers, Call(c) PROVE StatusInv'
  BY <1>1 DEF Call, Goto
<1>2. ASSUME NEW c \in Callers, StartTakesHandle(c) PROVE StatusInv'
  BY <1>2 DEF StartTakesHandle, TakeHandle, Goto
<1>3. ASSUME NEW c \in Callers, StartJoins(c) PROVE StatusInv'
  BY <1>3 DEF StartJoins, Goto, Joined
<1>4. ASSUME NEW c \in Callers, StartFails(c) PROVE StatusInv'
  BY <1>4 DEF StartFails, Finish, Goto
<1>5. ASSUME NEW c \in Callers, StartSpawns(c) PROVE StatusInv'
  BY <1>5 DEF StartSpawns, Goto
<1>6. ASSUME NEW c \in Callers, StartPublishes(c) PROVE StatusInv'
  BY <1>6 DEF StartPublishes, Finish, Goto
<1>7. ASSUME NEW c \in Callers, StopTakesHandle(c) PROVE StatusInv'
  BY <1>7 DEF StopTakesHandle, TakeHandle, Goto
<1>8. ASSUME NEW c \in Callers, StopPublishes(c) PROVE StatusInv'
  <2>1. mutex = c /\ handle = NoWorker /\ ~Publishing
    BY <1>8 DEF StopPublishes
  <2>2. \A w \in Workers : ~Alive(w)
    BY <1>8, <2>1 DEF StopPublishes, Joined
  <2> QED
    BY <1>8, <2>1, <2>2 DEF StopPublishes
<1>9. ASSUME NEW c \in Callers, StatusReturns(c) PROVE StatusInv'
  BY <1>9 DEF StatusReturns, Goto
<1>10. ASSUME NEW w \in Workers, SeesStop(w) PROVE StatusInv'
  BY <1>10 DEF SeesStop, WorkerGoto
<1>11. ASSUME NEW w \in Workers, TimesOut(w) PROVE StatusInv'
  BY <1>11 DEF TimesOut, WorkerGoto
<1>12. ASSUME NEW w \in Workers, PublishesAutoLock(w) PROVE StatusInv'
  <2>1. /\ mutex = NoCaller /\ mutex' = NoCaller
        /\ workerPC[w] = "autoLock" /\ UNCHANGED key
        /\ workerPC'[w] = "exit"
        /\ \A v \in Workers \ {w} : workerPC'[v] = workerPC[v]
    BY <1>12 DEF PublishesAutoLock, WorkerGoto
  <2>2. key[w] = "zeroized"
    BY <2>1
  <2>3. \A v \in Workers \ {w} : workerPC[v] \in {"unborn", "dead"}
    BY <2>1
  <2>4. \A v \in Workers \ {w} : key[v] # "live"
    BY <2>3
  <2> QED
    BY <2>1, <2>2, <2>3, <2>4
<1>13. ASSUME NEW w \in Workers, Collects(w) PROVE StatusInv'
  BY <1>13 DEF Collects, WorkerGoto
<1>14. ASSUME NEW w \in Workers, SkipsCandidate(w) PROVE StatusInv'
  BY <1>14 DEF SkipsCandidate
<1>15. ASSUME NEW w \in Workers, EncryptsCandidate(w) PROVE StatusInv'
  BY <1>15 DEF EncryptsCandidate, WorkerGoto
<1>16. ASSUME NEW w \in Workers, Records(w) PROVE StatusInv'
  BY <1>16 DEF Records, WorkerGoto
<1>17. ASSUME NEW w \in Workers, EndsPoll(w) PROVE StatusInv'
  BY <1>17 DEF EndsPoll, WorkerGoto
<1>18. ASSUME NEW w \in Workers, WakesUp(w) PROVE StatusInv'
  BY <1>18 DEF WakesUp, WorkerGoto
<1>19. ASSUME NEW w \in Workers, Exits(w) PROVE StatusInv'
  BY <1>19 DEF Exits, WorkerGoto
<1>20. CASE UNCHANGED vars
  BY <1>20 DEF vars
<1> QED
  BY <1>1, <1>2, <1>3, <1>4, <1>5, <1>6, <1>7, <1>8, <1>9, <1>10, <1>11,
     <1>12, <1>13, <1>14, <1>15, <1>16, <1>17, <1>18, <1>19, <1>20 DEF Next,
     CallerStep, WorkerStep

\* The status says active only when the worker in the handle works, a restart
\* with an unreadable keyfile excepted.
LEMMA ActiveStep ==
  ASSUME TypeOK, MutexInv, HandleInv, SupervisedInv, KeyInv, UnstoppedInv, ActiveInv,
         [Next]_vars
  PROVE  ActiveInv'
<1> USE NoCallerAssumption, BoundsAssumption DEF TypeOK, MutexInv, Holding,
       HandleInv, Publishing, Workers, NoWorker, UnstoppedInv, Working,
       ActiveInv, SupervisedInv, KeyInv, Alive, managerVars, callerVars,
       workerVars, others, HandleTold, NotTold, KeyWiped, Candidate
<1>1. ASSUME NEW c \in Callers, Call(c) PROVE ActiveInv'
  BY <1>1 DEF Call, Goto
<1>2. ASSUME NEW c \in Callers, StartTakesHandle(c) PROVE ActiveInv'
  BY <1>2 DEF StartTakesHandle, TakeHandle, Goto
<1>3. ASSUME NEW c \in Callers, StartJoins(c) PROVE ActiveInv'
  BY <1>3 DEF StartJoins, Goto, Joined
<1>4. ASSUME NEW c \in Callers, StartFails(c) PROVE ActiveInv'
  <2>1. mutex = c /\ handle = NoWorker /\ ~Publishing
    BY <1>4 DEF StartFails
  <2>2. \A w \in Workers : ~Alive(w)
    BY <1>4, <2>1 DEF StartFails
  <2> QED
    BY <1>4, <2>2 DEF StartFails, Finish
<1>5. ASSUME NEW c \in Callers, StartSpawns(c) PROVE ActiveInv'
  BY <1>5 DEF StartSpawns, Goto
<1>6. ASSUME NEW c \in Callers, StartPublishes(c) PROVE ActiveInv'
  BY <1>6 DEF StartPublishes, Finish, Goto
<1>7. ASSUME NEW c \in Callers, StopTakesHandle(c) PROVE ActiveInv'
  BY <1>7 DEF StopTakesHandle, TakeHandle, Goto
<1>8. ASSUME NEW c \in Callers, StopPublishes(c) PROVE ActiveInv'
  BY <1>8 DEF StopPublishes, Finish, Goto, Joined
<1>9. ASSUME NEW c \in Callers, StatusReturns(c) PROVE ActiveInv'
  BY <1>9 DEF StatusReturns, Goto
<1>10. ASSUME NEW w \in Workers, SeesStop(w) PROVE ActiveInv'
  BY <1>10 DEF SeesStop, WorkerGoto
<1>11. ASSUME NEW w \in Workers, TimesOut(w) PROVE ActiveInv'
  BY <1>11 DEF TimesOut, WorkerGoto
<1>12. ASSUME NEW w \in Workers, PublishesAutoLock(w) PROVE ActiveInv'
  BY <1>12 DEF PublishesAutoLock, WorkerGoto
<1>13. ASSUME NEW w \in Workers, Collects(w) PROVE ActiveInv'
  BY <1>13 DEF Collects, WorkerGoto
<1>14. ASSUME NEW w \in Workers, SkipsCandidate(w) PROVE ActiveInv'
  BY <1>14 DEF SkipsCandidate
<1>15. ASSUME NEW w \in Workers, EncryptsCandidate(w) PROVE ActiveInv'
  BY <1>15 DEF EncryptsCandidate, WorkerGoto
<1>16. ASSUME NEW w \in Workers, Records(w) PROVE ActiveInv'
  BY <1>16 DEF Records, WorkerGoto
<1>17. ASSUME NEW w \in Workers, EndsPoll(w) PROVE ActiveInv'
  BY <1>17 DEF EndsPoll, WorkerGoto
<1>18. ASSUME NEW w \in Workers, WakesUp(w) PROVE ActiveInv'
  BY <1>18 DEF WakesUp, WorkerGoto
<1>19. ASSUME NEW w \in Workers, Exits(w) PROVE ActiveInv'
  BY <1>19 DEF Exits, WorkerGoto
<1>20. CASE UNCHANGED vars
  BY <1>20 DEF vars
<1> QED
  BY <1>1, <1>2, <1>3, <1>4, <1>5, <1>6, <1>7, <1>8, <1>9, <1>10, <1>11,
     <1>12, <1>13, <1>14, <1>15, <1>16, <1>17, <1>18, <1>19, <1>20 DEF Next,
     CallerStep, WorkerStep

\* The log keeps matching the session in the status.
LEMMA LogStep ==
  ASSUME TypeOK, MutexInv, HandleInv, SupervisedInv, ReportInv, UnstoppedInv, LogInv,
         [Next]_vars
  PROVE  LogInv'
<1> USE NoCallerAssumption, BoundsAssumption DEF TypeOK, MutexInv, Holding,
       HandleInv, Publishing, Workers, NoWorker, LogInv, LogMatchesSession,
       managerVars, callerVars, workerVars, others, HandleTold, NotTold,
       KeyWiped, Candidate
<1>1. ASSUME NEW c \in Callers, Call(c) PROVE LogInv'
  BY <1>1 DEF Call, Goto
<1>2. ASSUME NEW c \in Callers, StartTakesHandle(c) PROVE LogInv'
  BY <1>2 DEF StartTakesHandle, TakeHandle, Goto
<1>3. ASSUME NEW c \in Callers, StartJoins(c) PROVE LogInv'
  BY <1>3 DEF StartJoins, Goto, Joined
<1>4. ASSUME NEW c \in Callers, StartFails(c) PROVE LogInv'
  BY <1>4 DEF StartFails, Finish, Goto
<1>5. ASSUME NEW c \in Callers, StartSpawns(c) PROVE LogInv'
  BY <1>5 DEF StartSpawns, Goto
<1>6. ASSUME NEW c \in Callers, StartPublishes(c) PROVE LogInv'
  <2>1. mutex = c /\ spawned \in Workers /\ reported[spawned] = 0
    BY <1>6 DEF StartPublishes, UnstoppedInv
  <2>2. auditLog' = << >> /\ processed' = 0
    BY <1>6 DEF StartPublishes
  <2>3. TrailOf(auditLog', spawned', 0)
    BY <2>2 DEF TrailOf
  <2> QED
    BY <1>6, <2>1, <2>2, <2>3 DEF StartPublishes
<1>7. ASSUME NEW c \in Callers, StopTakesHandle(c) PROVE LogInv'
  BY <1>7 DEF StopTakesHandle, TakeHandle, Goto
<1>8. ASSUME NEW c \in Callers, StopPublishes(c) PROVE LogInv'
  BY <1>8 DEF StopPublishes, Finish, Goto, Joined
<1>9. ASSUME NEW c \in Callers, StatusReturns(c) PROVE LogInv'
  BY <1>9 DEF StatusReturns, Goto
<1>10. ASSUME NEW w \in Workers, SeesStop(w) PROVE LogInv'
  BY <1>10 DEF SeesStop, WorkerGoto
<1>11. ASSUME NEW w \in Workers, TimesOut(w) PROVE LogInv'
  BY <1>11 DEF TimesOut, WorkerGoto
<1>12. ASSUME NEW w \in Workers, PublishesAutoLock(w) PROVE LogInv'
  BY <1>12 DEF PublishesAutoLock, WorkerGoto
<1>13. ASSUME NEW w \in Workers, Collects(w) PROVE LogInv'
  BY <1>13 DEF Collects, WorkerGoto
<1>14. ASSUME NEW w \in Workers, SkipsCandidate(w) PROVE LogInv'
  BY <1>14 DEF SkipsCandidate
<1>15. ASSUME NEW w \in Workers, EncryptsCandidate(w) PROVE LogInv'
  BY <1>15 DEF EncryptsCandidate, WorkerGoto
<1>16. ASSUME NEW w \in Workers, Records(w) PROVE LogInv'
  <2>1. w = spawned /\ LogMatchesSession
    BY <1>16 DEF Records, SupervisedInv, Alive
  <2>2. made[w] = processed + 1 /\ processed = reported[w]
    BY <1>16, <2>1 DEF Records, ReportInv
  <2>3. TrailOf(auditLog, w, processed) /\ [worker |-> w, nth |-> processed + 1] \in Entry
    BY <2>1, <2>2 DEF Entry
  <2>4. /\ auditLog' = LogWith(auditLog, [worker |-> w, nth |-> processed + 1])
        /\ processed' = processed + 1
        /\ reported'[w] = processed'
        /\ spawned' = spawned
    BY <1>16, <2>2 DEF Records
  <2>5. TrailOf(auditLog', spawned', processed')
    BY <2>1, <2>3, <2>4, TrailGrows
  <2> QED
    BY <2>1, <2>4, <2>5
<1>17. ASSUME NEW w \in Workers, EndsPoll(w) PROVE LogInv'
  BY <1>17 DEF EndsPoll, WorkerGoto
<1>18. ASSUME NEW w \in Workers, WakesUp(w) PROVE LogInv'
  BY <1>18 DEF WakesUp, WorkerGoto
<1>19. ASSUME NEW w \in Workers, Exits(w) PROVE LogInv'
  BY <1>19 DEF Exits, WorkerGoto
<1>20. CASE UNCHANGED vars
  BY <1>20 DEF vars
<1> QED
  BY <1>1, <1>2, <1>3, <1>4, <1>5, <1>6, <1>7, <1>8, <1>9, <1>10, <1>11,
     <1>12, <1>13, <1>14, <1>15, <1>16, <1>17, <1>18, <1>19, <1>20 DEF Next,
     CallerStep, WorkerStep

\* The inductive invariant holds initially.
LEMMA InitIInv == Init => IInv
<1> SUFFICES ASSUME Init PROVE IInv
  OBVIOUS
<1> USE NoCallerAssumption, BoundsAssumption DEF Init
<1> USE DEF Workers, NoWorker
<1>1. TypeOK
  <2>1. /\ processed \in Nat
        /\ spawned \in 0 .. MaxWorkers
        /\ todo \in [Workers -> 0 .. MaxBatch]
        /\ made \in [Workers -> 0 .. MaxFiles]
        /\ reported \in [Workers -> 0 .. MaxFiles]
    OBVIOUS
  <2>2. auditLog \in Seq(Entry)
    OBVIOUS
  <2> QED
    BY <2>1, <2>2 DEF TypeOK
<1>2. MutexInv /\ HandleInv /\ SupervisedInv
  BY DEF MutexInv, HandleInv, SupervisedInv, Publishing, Holding, Alive
<1>3. KeyInv /\ ReportInv /\ UnstoppedInv
  BY DEF KeyInv, ReportInv, UnstoppedInv, Publishing, Working
<1>4. StatusInv /\ ActiveInv
  BY DEF StatusInv, ActiveInv, Publishing, Working
<1>5. LogInv
  BY DEF LogInv, LogMatchesSession, TrailOf
<1> QED
  BY <1>1, <1>2, <1>3, <1>4, <1>5 DEF IInv

\* The inductive invariant is kept by every step.
LEMMA NextIInv == IInv /\ [Next]_vars => IInv'
BY TypeStep, MutexStep, HandleStep, SupervisedStep, KeyStep, ReportStep,
   UnstoppedStep, StatusStep, ActiveStep, LogStep DEF IInv

\* The inductive invariant of the folder watcher holds in every reachable state.
THEOREM Invariance == Spec => []IInv
<1>1. Init => IInv
  BY InitIInv
<1>2. IInv /\ [Next]_vars => IInv'
  BY NextIInv
<1> QED
  BY <1>1, <1>2, PTL DEF Spec

\* Every variable of the watcher keeps its type.
THEOREM TypeCorrect == Spec => []TypeOK
<1>1. IInv => TypeOK
  BY DEF IInv
<1> QED
  BY <1>1, Invariance, PTL

\* However starts, stops and auto-locks of any number of threads interleave, two
\* worker threads are never alive together.
THEOREM SingleWorker == Spec => []OneWorkerAtATime
<1>1. IInv => OneWorkerAtATime
  BY DEF IInv, SupervisedInv, OneWorkerAtATime
<1> QED
  BY <1>1, Invariance, PTL

\* No live worker is out of reach of a stop: it is in the handle, has been told
\* to stop, or is about to be stored in the handle.
THEOREM NoOrphan == Spec => []NoOrphanWorker
<1>1. IInv => NoOrphanWorker
  BY DEF IInv, SupervisedInv, NoOrphanWorker, Publishing
<1> QED
  BY <1>1, Invariance, PTL

\* Every reader of the status sees the audit trail of the current session, in
\* order and complete up to the capacity of the log.
THEOREM AuditTrail == Spec => []AuditTrailIsOfThisSession
<1>1. IInv => AuditTrailIsOfThisSession
  BY NoCallerAssumption DEF IInv, LogInv, AuditTrailIsOfThisSession, Publishing
<1> QED
  BY <1>1, Invariance, PTL

\* A worker that has ended has reported every container it made.
THEOREM NothingUnreported == Spec => []EveryContainerReported
<1>1. IInv => EveryContainerReported
  BY DEF IInv, ReportInv, EveryContainerReported
<1> QED
  BY <1>1, Invariance, PTL

\* A status that says inactive, or auto-locked, is never wrong about it.
THEOREM InactiveIsQuiet == Spec => []InactiveMeansQuiet
<1>1. IInv => InactiveMeansQuiet
  BY NoCallerAssumption DEF IInv, TypeOK, StatusInv, InactiveMeansQuiet,
     Publishing, Working
<1> QED
  BY <1>1, Invariance, PTL

\* A status that says active is wrong only after a restart whose keyfile failed.
THEOREM ActiveIsWatched == Spec => []ActiveMeansWatched
<1>1. ASSUME IInv, mutex = NoCaller, active, handle # NoWorker,
             workerPC[handle] \in Working \cup {"autoLock"}
      PROVE  Alive(handle) /\ (key[handle] = "live" \/ workerPC[handle] = "autoLock")
  BY <1>1 DEF IInv, TypeOK, KeyInv, Working, Alive
<1>2. IInv => ActiveMeansWatched
  BY <1>1 DEF IInv, ActiveInv, ActiveMeansWatched
<1> QED
  BY <1>2, Invariance, PTL

\* What a status says of the watcher is so.
THEOREM HonestStatus == Spec => []StatusIsHonest
<1>1. InactiveMeansQuiet /\ ActiveMeansWatched => StatusIsHonest
  BY DEF StatusIsHonest
<1> QED
  BY <1>1, InactiveIsQuiet, ActiveIsWatched, PTL

\* A worker told to stop collects no new candidates, and one without a key
\* makes no container.
LEMMA StopBoundsStep ==
  ASSUME IInv,
         [Next]_vars
  PROVE  WorkBounded
<1> USE NoCallerAssumption, BoundsAssumption DEF IInv, TypeOK, KeyInv,
       Working, Workers, WorkBounded, managerVars, callerVars, workerVars,
       others, HandleTold, NotTold, KeyWiped, Candidate
<1>1. ASSUME NEW c \in Callers, Call(c) PROVE WorkBounded
  BY <1>1 DEF Call, Goto
<1>2. ASSUME NEW c \in Callers, StartTakesHandle(c) PROVE WorkBounded
  BY <1>2 DEF StartTakesHandle, TakeHandle, Goto
<1>3. ASSUME NEW c \in Callers, StartJoins(c) PROVE WorkBounded
  BY <1>3 DEF StartJoins, Goto, Joined
<1>4. ASSUME NEW c \in Callers, StartFails(c) PROVE WorkBounded
  BY <1>4 DEF StartFails, Finish, Goto
<1>5. ASSUME NEW c \in Callers, StartSpawns(c) PROVE WorkBounded
  BY <1>5 DEF StartSpawns, Goto
<1>6. ASSUME NEW c \in Callers, StartPublishes(c) PROVE WorkBounded
  BY <1>6 DEF StartPublishes, Finish, Goto
<1>7. ASSUME NEW c \in Callers, StopTakesHandle(c) PROVE WorkBounded
  BY <1>7 DEF StopTakesHandle, TakeHandle, Goto
<1>8. ASSUME NEW c \in Callers, StopPublishes(c) PROVE WorkBounded
  BY <1>8 DEF StopPublishes, Finish, Goto, Joined
<1>9. ASSUME NEW c \in Callers, StatusReturns(c) PROVE WorkBounded
  BY <1>9 DEF StatusReturns, Goto
<1>10. ASSUME NEW w \in Workers, SeesStop(w) PROVE WorkBounded
  BY <1>10 DEF SeesStop, WorkerGoto
<1>11. ASSUME NEW w \in Workers, TimesOut(w) PROVE WorkBounded
  BY <1>11 DEF TimesOut, WorkerGoto
<1>12. ASSUME NEW w \in Workers, PublishesAutoLock(w) PROVE WorkBounded
  BY <1>12 DEF PublishesAutoLock, WorkerGoto
<1>13. ASSUME NEW w \in Workers, Collects(w) PROVE WorkBounded
  BY <1>13 DEF Collects, WorkerGoto
<1>14. ASSUME NEW w \in Workers, SkipsCandidate(w) PROVE WorkBounded
  BY <1>14 DEF SkipsCandidate
<1>15. ASSUME NEW w \in Workers, EncryptsCandidate(w) PROVE WorkBounded
  <2>1. key[w] = "live" /\ todo[w] > 0
    BY <1>15 DEF EncryptsCandidate
  <2>2. made'[w] = made[w] + 1 /\ todo'[w] = todo[w] - 1
    BY <1>15 DEF EncryptsCandidate
  <2>3. \A v \in Workers \ {w} : made'[v] = made[v] /\ todo'[v] = todo[v]
    BY <1>15 DEF EncryptsCandidate
  <2>4. made[w] \in Nat /\ todo[w] \in Nat
    OBVIOUS
  <2>5. made'[w] + todo'[w] <= made[w] + todo[w]
    BY <2>1, <2>2, <2>4
  <2>6. \A v \in Workers \ {w} : made'[v] + todo'[v] <= made[v] + todo[v]
    BY <2>3
  <2> QED
    BY <2>1, <2>3, <2>5, <2>6
<1>16. ASSUME NEW w \in Workers, Records(w) PROVE WorkBounded
  BY <1>16 DEF Records, WorkerGoto
<1>17. ASSUME NEW w \in Workers, EndsPoll(w) PROVE WorkBounded
  BY <1>17 DEF EndsPoll, WorkerGoto
<1>18. ASSUME NEW w \in Workers, WakesUp(w) PROVE WorkBounded
  BY <1>18 DEF WakesUp, WorkerGoto
<1>19. ASSUME NEW w \in Workers, Exits(w) PROVE WorkBounded
  BY <1>19 DEF Exits, WorkerGoto
<1>20. CASE UNCHANGED vars
  BY <1>20 DEF vars
<1> QED
  BY <1>1, <1>2, <1>3, <1>4, <1>5, <1>6, <1>7, <1>8, <1>9, <1>10, <1>11,
     <1>12, <1>13, <1>14, <1>15, <1>16, <1>17, <1>18, <1>19, <1>20 DEF Next,
     CallerStep, WorkerStep

\* What a worker still encrypts after it was told to stop is at most the rest of
\* its current poll, and it never encrypts with a key it has wiped.
THEOREM StopIsBounded == Spec => StopBoundsWork
<1>1. IInv /\ [Next]_vars => [WorkBounded]_vars
  BY StopBoundsStep
<1> QED
  BY <1>1, Invariance, PTL DEF Spec, StopBoundsWork

\* A live worker that stays alive leaves the set of running sessions alone.
LEMMA RunningKept ==
  ASSUME TypeOK, NEW w \in Workers, NEW pc, WorkerGoto(w, pc),
         Alive(w), pc \notin {"unborn", "dead"}
  PROVE  {v \in Workers : Alive(v)'} = {v \in Workers : Alive(v)}
<1>1. ASSUME NEW v \in Workers PROVE Alive(v)' <=> Alive(v)
  <2>1. CASE v = w
    BY <2>1 DEF WorkerGoto, TypeOK, Alive
  <2>2. CASE v # w
    BY <2>2 DEF WorkerGoto, TypeOK, Alive
  <2> QED
    BY <2>1, <2>2
<1> QED
  BY <1>1

\* Every step of the watcher is a step of the sessions it implements, or
\* changes nothing there.
LEMMA SessionsStep ==
  ASSUME IInv,
         [Next]_vars
  PROVE  [Sessions!SNext]_(Sessions!sVars)
<1> USE NoCallerAssumption, BoundsAssumption DEF IInv, TypeOK, MutexInv,
       Holding, HandleInv, SupervisedInv, ReportInv, Publishing, Alive,
       Workers, NoWorker, Sessions!SNext, Sessions!sVars, Sessions!Begin,
       Sessions!Produce, Sessions!Report, Sessions!End, managerVars,
       callerVars, workerVars, others, HandleTold, NotTold, KeyWiped,
       Candidate
<1>1. ASSUME NEW c \in Callers, Call(c) PROVE [Sessions!SNext]_(Sessions!sVars)
  BY <1>1 DEF Call, Goto
<1>2. ASSUME NEW c \in Callers, StartTakesHandle(c) PROVE [Sessions!SNext]_(Sessions!sVars)
  BY <1>2 DEF StartTakesHandle, TakeHandle, Goto
<1>3. ASSUME NEW c \in Callers, StartJoins(c) PROVE [Sessions!SNext]_(Sessions!sVars)
  BY <1>3 DEF StartJoins, Goto, Joined
<1>4. ASSUME NEW c \in Callers, StartFails(c) PROVE [Sessions!SNext]_(Sessions!sVars)
  BY <1>4 DEF StartFails, Finish, Goto
<1>5. ASSUME NEW c \in Callers, StartSpawns(c) PROVE [Sessions!SNext]_(Sessions!sVars)
  <2> DEFINE s == spawned + 1
  <2>1. s \in Workers /\ workerPC[s] = "unborn" /\ made[s] = 0
    BY <1>5 DEF StartSpawns
  <2>2. mutex = c /\ handle = NoWorker /\ ~Publishing
    BY <1>5 DEF StartSpawns
  <2>3. \A w \in Workers : ~Alive(w)
    BY <1>5, <2>2 DEF StartSpawns
  <2>4. {w \in Workers : Alive(w)} = {}
    BY <2>3
  <2>5. workerPC' = [workerPC EXCEPT ![s] = "loop"]
    BY <1>5 DEF StartSpawns
  <2>6. {w \in Workers : Alive(w)'} = {s}
    BY <2>1, <2>3, <2>5
  <2>7. made' = made /\ reported' = reported
    BY <1>5 DEF StartSpawns
  <2>8. Sessions!Begin(s)
    BY <2>1, <2>4, <2>6, <2>7
  <2> QED
    BY <2>1, <2>8
<1>6. ASSUME NEW c \in Callers, StartPublishes(c) PROVE [Sessions!SNext]_(Sessions!sVars)
  BY <1>6 DEF StartPublishes, Finish, Goto
<1>7. ASSUME NEW c \in Callers, StopTakesHandle(c) PROVE [Sessions!SNext]_(Sessions!sVars)
  BY <1>7 DEF StopTakesHandle, TakeHandle, Goto
<1>8. ASSUME NEW c \in Callers, StopPublishes(c) PROVE [Sessions!SNext]_(Sessions!sVars)
  BY <1>8 DEF StopPublishes, Finish, Goto, Joined
<1>9. ASSUME NEW c \in Callers, StatusReturns(c) PROVE [Sessions!SNext]_(Sessions!sVars)
  BY <1>9 DEF StatusReturns, Goto
<1>10. ASSUME NEW w \in Workers, SeesStop(w) PROVE [Sessions!SNext]_(Sessions!sVars)
  <2>1. /\ WorkerGoto(w, "exit") /\ Alive(w) /\ "exit" \notin {"unborn", "dead"}
        /\ UNCHANGED <<made, reported>>
    BY <1>10 DEF SeesStop
  <2>2. {v \in Workers : Alive(v)'} = {v \in Workers : Alive(v)}
    BY <2>1, RunningKept
  <2> QED
    BY <2>1, <2>2
<1>11. ASSUME NEW w \in Workers, TimesOut(w) PROVE [Sessions!SNext]_(Sessions!sVars)
  <2>1. /\ WorkerGoto(w, "autoLock") /\ Alive(w) /\ "autoLock" \notin {"unborn", "dead"}
        /\ UNCHANGED <<made, reported>>
    BY <1>11 DEF TimesOut
  <2>2. {v \in Workers : Alive(v)'} = {v \in Workers : Alive(v)}
    BY <2>1, RunningKept
  <2> QED
    BY <2>1, <2>2
<1>12. ASSUME NEW w \in Workers, PublishesAutoLock(w) PROVE [Sessions!SNext]_(Sessions!sVars)
  <2>1. /\ WorkerGoto(w, "exit") /\ Alive(w) /\ "exit" \notin {"unborn", "dead"}
        /\ UNCHANGED <<made, reported>>
    BY <1>12 DEF PublishesAutoLock
  <2>2. {v \in Workers : Alive(v)'} = {v \in Workers : Alive(v)}
    BY <2>1, RunningKept
  <2> QED
    BY <2>1, <2>2
<1>13. ASSUME NEW w \in Workers, Collects(w) PROVE [Sessions!SNext]_(Sessions!sVars)
  <2>1. /\ WorkerGoto(w, "scan") /\ Alive(w) /\ "scan" \notin {"unborn", "dead"}
        /\ UNCHANGED <<made, reported>>
    BY <1>13 DEF Collects
  <2>2. {v \in Workers : Alive(v)'} = {v \in Workers : Alive(v)}
    BY <2>1, RunningKept
  <2> QED
    BY <2>1, <2>2
<1>14. ASSUME NEW w \in Workers, SkipsCandidate(w) PROVE [Sessions!SNext]_(Sessions!sVars)
  BY <1>14 DEF SkipsCandidate
<1>15. ASSUME NEW w \in Workers, EncryptsCandidate(w) PROVE [Sessions!SNext]_(Sessions!sVars)
  <2>1. /\ WorkerGoto(w, "record") /\ Alive(w) /\ "record" \notin {"unborn", "dead"}
        /\ made' = [made EXCEPT ![w] = @ + 1]
        /\ UNCHANGED reported
    BY <1>15 DEF EncryptsCandidate
  <2>2. made[w] = reported[w]
    BY <1>15 DEF EncryptsCandidate
  <2>3. {v \in Workers : Alive(v)'} = {v \in Workers : Alive(v)}
    BY <2>1, RunningKept
  <2>4. Sessions!Produce(w)
    BY <2>1, <2>2, <2>3
  <2> QED
    BY <2>4
<1>16. ASSUME NEW w \in Workers, Records(w) PROVE [Sessions!SNext]_(Sessions!sVars)
  <2>1. /\ WorkerGoto(w, "scan") /\ Alive(w) /\ "scan" \notin {"unborn", "dead"}
        /\ reported' = [reported EXCEPT ![w] = @ + 1]
        /\ UNCHANGED made
    BY <1>16 DEF Records
  <2>2. reported[w] < made[w]
    BY <1>16 DEF Records
  <2>3. {v \in Workers : Alive(v)'} = {v \in Workers : Alive(v)}
    BY <2>1, RunningKept
  <2>4. Sessions!Report(w)
    BY <2>1, <2>2, <2>3
  <2> QED
    BY <2>4
<1>17. ASSUME NEW w \in Workers, EndsPoll(w) PROVE [Sessions!SNext]_(Sessions!sVars)
  <2>1. /\ WorkerGoto(w, "sleep") /\ Alive(w) /\ "sleep" \notin {"unborn", "dead"}
        /\ UNCHANGED <<made, reported>>
    BY <1>17 DEF EndsPoll
  <2>2. {v \in Workers : Alive(v)'} = {v \in Workers : Alive(v)}
    BY <2>1, RunningKept
  <2> QED
    BY <2>1, <2>2
<1>18. ASSUME NEW w \in Workers, WakesUp(w) PROVE [Sessions!SNext]_(Sessions!sVars)
  <2>1. /\ WorkerGoto(w, "loop") /\ Alive(w) /\ "loop" \notin {"unborn", "dead"}
        /\ UNCHANGED <<made, reported>>
    BY <1>18 DEF WakesUp
  <2>2. {v \in Workers : Alive(v)'} = {v \in Workers : Alive(v)}
    BY <2>1, RunningKept
  <2> QED
    BY <2>1, <2>2
<1>19. ASSUME NEW w \in Workers, Exits(w) PROVE [Sessions!SNext]_(Sessions!sVars)
  <2>1. Alive(w) /\ reported[w] = made[w] /\ UNCHANGED <<made, reported>>
    BY <1>19 DEF Exits
  <2>2. /\ workerPC'[w] = "dead"
        /\ \A v \in Workers \ {w} : workerPC'[v] = workerPC[v]
    BY <1>19 DEF Exits, WorkerGoto
  <2>3. \A v \in Workers : Alive(v) => v = w
    BY <2>1
  <2>4. \A v \in Workers : ~Alive(v)'
    BY <2>2, <2>3
  <2>5. {v \in Workers : Alive(v)} = {w}
    BY <2>1, <2>3
  <2>6. {v \in Workers : Alive(v)'} = {}
    BY <2>4
  <2>7. Sessions!End(w)
    BY <2>1, <2>5, <2>6
  <2> QED
    BY <2>7
<1>20. CASE UNCHANGED vars
  BY <1>20 DEF vars
<1> QED
  BY <1>1, <1>2, <1>3, <1>4, <1>5, <1>6, <1>7, <1>8, <1>9, <1>10, <1>11,
     <1>12, <1>13, <1>14, <1>15, <1>16, <1>17, <1>18, <1>19, <1>20 DEF Next,
     CallerStep, WorkerStep

\* The folder watcher implements sessions that never overlap and that end with
\* everything they made reported.
THEOREM Implementation == Spec => ImplementsSessions
<1>1. Init => Sessions!SInit
  BY DEF Init, Sessions!SInit, Alive
<1>2. IInv /\ [Next]_vars => [Sessions!SNext]_(Sessions!sVars)
  BY SessionsStep
<1> QED
  BY <1>1, <1>2, Invariance, PTL DEF Spec, ImplementsSessions, Sessions!SSpec

-----------------------------------------------------------------------------
(* The hang of a caller that joins, with the mutex in its hands, a worker   *)
(* that waits for the mutex: it lasts for ever, and nothing else keeps the  *)
(* mutex from being released, given that threads that can run do run.       *)

\* Caller c is in that hang, over worker w.
HangsOn(c, w) == /\ mutex = c
                 /\ callerPC[c] \in {"startJoin", "stopJoin"}
                 /\ joining[c] = w
                 /\ workerPC[w] \in {"record", "autoLock"}

\* Nothing of what the watcher's functions and threads would do is ever done.
StandsStill(c, w) == /\ HangsOn(c, w)'
                     /\ UNCHANGED <<mutex, managerVars, lastResult, spawned>>
                     /\ key'[w] = key[w]

HangStays == \A c \in Callers, w \in Workers : HangsOn(c, w) => StandsStill(c, w)
HangIsForever == [][HangStays]_vars

\* No step leads out of the hang: its caller waits for the worker, its worker
\* for the mutex, and whoever else wants the mutex waits as well.
LEMMA HangStep ==
  ASSUME TypeOK, MutexInv, HandleInv, NEW c \in Callers, NEW w \in Workers,
         HangsOn(c, w),
         [Next]_vars
  PROVE  StandsStill(c, w)
<1> USE NoCallerAssumption, BoundsAssumption DEF TypeOK, MutexInv, HandleInv,
       Holding, Workers, NoWorker, HangsOn, StandsStill, managerVars,
       callerVars, workerVars, others, HandleTold, NotTold, KeyWiped, Candidate
<1>1. ASSUME NEW d \in Callers, Call(d) PROVE StandsStill(c, w)
  BY <1>1 DEF Call, Goto
<1>2. ASSUME NEW d \in Callers, StartTakesHandle(d) PROVE StandsStill(c, w)
  BY <1>2 DEF StartTakesHandle, TakeHandle, Goto
<1>3. ASSUME NEW d \in Callers, StartJoins(d) PROVE StandsStill(c, w)
  BY <1>3 DEF StartJoins, Goto, Joined
<1>4. ASSUME NEW d \in Callers, StartFails(d) PROVE StandsStill(c, w)
  BY <1>4 DEF StartFails, Finish, Goto
<1>5. ASSUME NEW d \in Callers, StartSpawns(d) PROVE StandsStill(c, w)
  BY <1>5 DEF StartSpawns, Goto
<1>6. ASSUME NEW d \in Callers, StartPublishes(d) PROVE StandsStill(c, w)
  BY <1>6 DEF StartPublishes, Finish, Goto
<1>7. ASSUME NEW d \in Callers, StopTakesHandle(d) PROVE StandsStill(c, w)
  BY <1>7 DEF StopTakesHandle, TakeHandle, Goto
<1>8. ASSUME NEW d \in Callers, StopPublishes(d) PROVE StandsStill(c, w)
  BY <1>8 DEF StopPublishes, Finish, Goto, Joined
<1>9. ASSUME NEW d \in Callers, StatusReturns(d) PROVE StandsStill(c, w)
  BY <1>9 DEF StatusReturns, Goto
<1>10. ASSUME NEW v \in Workers, SeesStop(v) PROVE StandsStill(c, w)
  BY <1>10 DEF SeesStop, WorkerGoto
<1>11. ASSUME NEW v \in Workers, TimesOut(v) PROVE StandsStill(c, w)
  BY <1>11 DEF TimesOut, WorkerGoto
<1>12. ASSUME NEW v \in Workers, PublishesAutoLock(v) PROVE StandsStill(c, w)
  BY <1>12 DEF PublishesAutoLock, WorkerGoto
<1>13. ASSUME NEW v \in Workers, Collects(v) PROVE StandsStill(c, w)
  BY <1>13 DEF Collects, WorkerGoto
<1>14. ASSUME NEW v \in Workers, SkipsCandidate(v) PROVE StandsStill(c, w)
  BY <1>14 DEF SkipsCandidate
<1>15. ASSUME NEW v \in Workers, EncryptsCandidate(v) PROVE StandsStill(c, w)
  BY <1>15 DEF EncryptsCandidate, WorkerGoto
<1>16. ASSUME NEW v \in Workers, Records(v) PROVE StandsStill(c, w)
  BY <1>16 DEF Records, WorkerGoto
<1>17. ASSUME NEW v \in Workers, EndsPoll(v) PROVE StandsStill(c, w)
  BY <1>17 DEF EndsPoll, WorkerGoto
<1>18. ASSUME NEW v \in Workers, WakesUp(v) PROVE StandsStill(c, w)
  BY <1>18 DEF WakesUp, WorkerGoto
<1>19. ASSUME NEW v \in Workers, Exits(v) PROVE StandsStill(c, w)
  BY <1>19 DEF Exits, WorkerGoto
<1>20. CASE UNCHANGED vars
  BY <1>20 DEF vars
<1> QED
  BY <1>1, <1>2, <1>3, <1>4, <1>5, <1>6, <1>7, <1>8, <1>9, <1>10, <1>11, <1>12, <1>13, <1>14, <1>15, <1>16, <1>17, <1>18, <1>19, <1>20 DEF Next,
     CallerStep, WorkerStep

\* Once a caller is in the hang it never leaves it, no call of any caller ends,
\* the status stays as it is, and the key of a worker that was about to report
\* stays in memory.
THEOREM HangLasts == Spec => HangIsForever
<1>1. IInv /\ [Next]_vars => [HangStays]_vars
  BY HangStep DEF IInv, HangStays
<1> QED
  BY <1>1, Invariance, PTL DEF Spec, HangIsForever

\* Whoever holds the mutex can take its next step, or hangs, or joins a worker
\* that was told to stop and needs no mutex for its own next step.
HolderAdvances ==
  mutex # NoCaller =>
    \/ callerPC[mutex] \in {"startKey", "startPublish"}
    \/ Joined(mutex)
    \/ \E w \in Workers : HangsOn(mutex, w)
    \/ /\ stopSignal[joining[mutex]]
       /\ workerPC[joining[mutex]] \in {"loop", "scan", "sleep", "exit"}

\* A caller joins only workers that have been spawned.
JoiningSpawned == \A c \in Callers : joining[c] <= spawned

LEMMA JoiningStep ==
  ASSUME TypeOK, HandleInv, JoiningSpawned,
         [Next]_vars
  PROVE  JoiningSpawned'
<1> USE BoundsAssumption DEF TypeOK, HandleInv, JoiningSpawned, Workers, NoWorker,
       managerVars, callerVars, workerVars, others
<1>1. ASSUME NEW c \in Callers, Call(c) PROVE JoiningSpawned'
  BY <1>1 DEF Call, Goto
<1>2. ASSUME NEW c \in Callers, StartTakesHandle(c) PROVE JoiningSpawned'
  BY <1>2 DEF StartTakesHandle, TakeHandle, Goto
<1>3. ASSUME NEW c \in Callers, StartJoins(c) PROVE JoiningSpawned'
  BY <1>3 DEF StartJoins, Goto, Joined
<1>4. ASSUME NEW c \in Callers, StartFails(c) PROVE JoiningSpawned'
  BY <1>4 DEF StartFails, Finish, Goto
<1>5. ASSUME NEW c \in Callers, StartSpawns(c) PROVE JoiningSpawned'
  <2>1. spawned' = spawned + 1 /\ joining' = joining
    BY <1>5 DEF StartSpawns
  <2>2. \A d \in Callers : joining[d] \in Nat /\ joining[d] <= spawned
    OBVIOUS
  <2>3. spawned \in Nat
    OBVIOUS
  <2> QED
    BY <2>1, <2>2, <2>3
<1>6. ASSUME NEW c \in Callers, StartPublishes(c) PROVE JoiningSpawned'
  BY <1>6 DEF StartPublishes, Finish, Goto
<1>7. ASSUME NEW c \in Callers, StopTakesHandle(c) PROVE JoiningSpawned'
  BY <1>7 DEF StopTakesHandle, TakeHandle, Goto
<1>8. ASSUME NEW c \in Callers, StopPublishes(c) PROVE JoiningSpawned'
  BY <1>8 DEF StopPublishes, Finish, Goto, Joined
<1>9. ASSUME NEW c \in Callers, StatusReturns(c) PROVE JoiningSpawned'
  BY <1>9 DEF StatusReturns, Goto
<1>10. ASSUME NEW w \in Workers, WorkerStep(w) PROVE JoiningSpawned'
  BY <1>10 DEF WorkerStep, SeesStop, TimesOut, PublishesAutoLock, Collects,
     SkipsCandidate, EncryptsCandidate, Records, EndsPoll, WakesUp, Exits
<1>11. CASE UNCHANGED vars
  BY <1>11 DEF vars
<1> QED
  BY <1>1, <1>2, <1>3, <1>4, <1>5, <1>6, <1>7, <1>8, <1>9, <1>10, <1>11
     DEF Next, CallerStep

\* There is no other way to block the watcher than the hang: a caller that joins
\* joins a worker, and what that one waits for can only be the mutex.
THEOREM OnlyThisHang == Spec => []HolderAdvances
<1>1. ASSUME TypeOK, MutexInv, HandleInv, SupervisedInv, JoiningSpawned
      PROVE  HolderAdvances
  <2> SUFFICES ASSUME mutex # NoCaller,
                      callerPC[mutex] \notin {"startKey", "startPublish"},
                      ~Joined(mutex)
               PROVE  \/ \E w \in Workers : HangsOn(mutex, w)
                      \/ /\ stopSignal[joining[mutex]]
                         /\ workerPC[joining[mutex]] \in {"loop", "scan", "sleep", "exit"}
    BY DEF HolderAdvances
  <2> DEFINE w == joining[mutex]
  <2>1. mutex \in Callers /\ callerPC[mutex] \in {"startJoin", "stopJoin"}
    BY <1>1 DEF TypeOK, MutexInv, Holding
  <2>2. w \in Workers /\ workerPC[w] # "dead"
    BY DEF Joined
  <2>3. Alive(w)
    BY <1>1, <2>1, <2>2 DEF TypeOK, HandleInv, JoiningSpawned, Workers, NoWorker, Alive
  <2> QED
    BY <1>1, <2>1, <2>2, <2>3 DEF TypeOK, HandleInv, SupervisedInv, Publishing,
       Workers, NoWorker, Alive, HangsOn
<1>2. Init => JoiningSpawned
  <2>1. ASSUME Init, NEW c \in Callers PROVE joining[c] <= spawned
    BY <2>1 DEF Init, NoWorker
  <2> QED
    BY <2>1 DEF JoiningSpawned
<1>3. IInv /\ JoiningSpawned /\ [Next]_vars => JoiningSpawned'
  BY JoiningStep DEF IInv
<1>4. IInv /\ JoiningSpawned => HolderAdvances
  BY <1>1 DEF IInv
<1> QED
  BY <1>2, <1>3, <1>4, Invariance, PTL DEF Spec

\* What a worker that was told to stop still has before it: its way out, and two
\* steps at most for every candidate left in its poll.
Left(w) == CASE workerPC[w] = "dead"                -> 0
             [] workerPC[w] = "exit"                -> 1
             [] workerPC[w] \in {"loop", "autoLock"} -> 2
             [] workerPC[w] = "sleep"               -> 3
             [] workerPC[w] = "scan"                -> 4 + 2 * todo[w]
             [] workerPC[w] = "record"              -> 5 + 2 * todo[w]

\* Every step of such a worker brings it nearer to its end.
ToldWorkerNears ==
  \A w \in Workers : stopSignal[w] /\ WorkerStep(w) => /\ Left(w) \in Nat
                                                       /\ Left(w)' \in Nat
                                                       /\ Left(w)' < Left(w)
ToldWorkerEnds == [][ToldWorkerNears]_vars

\* What remains before a worker at each of its positions, as arithmetic.
LEMMA LeftAt ==
  ASSUME NEW w
  PROVE  /\ workerPC[w] = "dead" => Left(w) = 0
         /\ workerPC[w] = "exit" => Left(w) = 1
         /\ workerPC[w] \in {"loop", "autoLock"} => Left(w) = 2
         /\ workerPC[w] = "sleep" => Left(w) = 3
         /\ workerPC[w] = "scan" => Left(w) = 4 + 2 * todo[w]
         /\ workerPC[w] = "record" => Left(w) = 5 + 2 * todo[w]
  BY Zenon DEF Left

\* A worker that was told to stop takes no step that leads away from its end.
LEMMA NearsStep ==
  ASSUME TypeOK, NEW w \in Workers, stopSignal[w], WorkerStep(w)
  PROVE  Left(w) \in Nat /\ Left(w)' \in Nat /\ Left(w)' < Left(w)
<1>1. todo[w] \in Nat
  BY BoundsAssumption DEF TypeOK
<1>2. /\ workerPC[w] = "exit" => Left(w) = 1
      /\ workerPC[w] \in {"loop", "autoLock"} => Left(w) = 2
      /\ workerPC[w] = "sleep" => Left(w) = 3
      /\ workerPC[w] = "scan" => Left(w) = 4 + 2 * todo[w]
      /\ workerPC[w] = "record" => Left(w) = 5 + 2 * todo[w]
  BY LeftAt
<1>3. /\ workerPC'[w] = "dead" => Left(w)' = 0
      /\ workerPC'[w] = "exit" => Left(w)' = 1
      /\ workerPC'[w] \in {"loop", "autoLock"} => Left(w)' = 2
      /\ workerPC'[w] = "sleep" => Left(w)' = 3
      /\ workerPC'[w] = "scan" => Left(w)' = 4 + 2 * todo'[w]
      /\ workerPC'[w] = "record" => Left(w)' = 5 + 2 * todo'[w]
  BY Zenon DEF Left
<1> USE <1>1, <1>2, <1>3 DEF TypeOK, WorkerGoto, others
<1>4. CASE SeesStop(w)
  BY <1>4 DEF SeesStop
<1>5. CASE TimesOut(w)
  BY <1>5 DEF TimesOut, NotTold
<1>6. CASE PublishesAutoLock(w)
  BY <1>6 DEF PublishesAutoLock
<1>7. CASE Collects(w)
  BY <1>7 DEF Collects, NotTold
<1>8. CASE SkipsCandidate(w)
  BY <1>8 DEF SkipsCandidate, Candidate
<1>9. CASE EncryptsCandidate(w)
  BY <1>9 DEF EncryptsCandidate, Candidate
<1>10. CASE Records(w)
  BY <1>10 DEF Records
<1>11. CASE EndsPoll(w)
  BY <1>11 DEF EndsPoll
<1>12. CASE WakesUp(w)
  BY <1>12 DEF WakesUp
<1>13. CASE Exits(w)
  BY <1>13 DEF Exits
<1> QED
  BY <1>4, <1>5, <1>6, <1>7, <1>8, <1>9, <1>10, <1>11, <1>12, <1>13 DEF WorkerStep

\* A worker that was told to stop ends after as many steps as are left before it,
\* whatever the callers do meanwhile.
THEOREM ToldWorkersEnd == Spec => ToldWorkerEnds
<1>1. IInv /\ [Next]_vars => [ToldWorkerNears]_vars
  BY NearsStep DEF IInv, ToldWorkerNears
<1> QED
  BY <1>1, Invariance, PTL DEF Spec, ToldWorkerEnds
=============================================================================
