--------------------------- MODULE FileCommandsProofs ---------------------------
(***************************************************************************)
(* Theorems about FileCommands, for any number of commands, names, writes  *)
(* of other programs and failures.                                         *)
(***************************************************************************)
EXTENDS FileCommands, FiniteSetTheorems, FunctionTheorems, TLAPS

-----------------------------------------------------------------------------
(* The name that unique_output_path finds.                                  *)

\* A set of numbers up to a bound has a least one: that of the smallest of the
\* sets {k \in S : k <= i}.
LEMMA LeastNumber ==
  ASSUME NEW n \in Nat, NEW S \in SUBSET (1 .. n), S # {}
  PROVE  \E i \in S : \A k \in S : i <= k
<1> DEFINE UpTo(i) == {k \in S : k <= i}
           R == StrictSubsetOrdering(S)
           T == {UpTo(i) : i \in S}
<1>1. IsFiniteSet(S)
  <2>1. IsFiniteSet(1 .. n)
    BY FS_Interval
  <2> QED
    BY <2>1, FS_Subset
<1>2. IsWellFoundedOn(R, FiniteSubsetsOf(S))
  BY FS_StrictSubsetOrderingWellFounded
<1>3. T \subseteq FiniteSubsetsOf(S) /\ T # {}
  <2>1. FiniteSubsetsOf(S) = SUBSET S
    BY <1>1, FS_FiniteSubsetsOfFinite
  <2>2. \A i \in S : UpTo(i) \in SUBSET S
    OBVIOUS
  <2>3. T \subseteq SUBSET S
    BY <2>2
  <2>4. T # {}
    OBVIOUS
  <2> QED
    BY <2>1, <2>3, <2>4
<1>4. \E x \in T : \A y \in T : <<y, x>> \notin R
  <2> HIDE DEF R, T
  <2> QED
    BY <1>2, <1>3, WFMin
<1>5. PICK i \in S : \A k \in S : <<UpTo(k), UpTo(i)>> \notin R
  BY <1>4
<1>6. ASSUME NEW k \in S, ~(i <= k) PROVE FALSE
  <2>1. i \in UpTo(i) /\ i \notin UpTo(k) /\ UpTo(k) \subseteq UpTo(i)
    <3>1. i \in Nat /\ k \in Nat /\ k < i /\ \A m \in S : m \in Nat
      BY <1>6
    <3>2. ASSUME NEW m \in UpTo(k) PROVE m \in UpTo(i)
      BY <3>1
    <3>3. i \in UpTo(i) /\ i \notin UpTo(k)
      BY <3>1
    <3> QED
      BY <3>2, <3>3
  <2>2. <<UpTo(k), UpTo(i)>> \in R
    BY <2>1 DEF StrictSubsetOrdering
  <2> QED
    BY <1>5, <2>2
<1> QED
  BY <1>6

LEMMA UniqueName == \A n \in Names : UniqueOutputPath(n) \in Names
<1> SUFFICES ASSUME NEW n \in Names PROVE UniqueOutputPath(n) \in Names
  OBVIOUS
<1> DEFINE s == Siblings[n]
           free == {i \in 1 .. Len(s) : ~Exists(s[i])}
<1>1. s \in Seq(Names) /\ s # <<>> /\ Len(s) \in Nat /\ Len(s) \in 1 .. Len(s)
  BY OutputsAssumption
<1>2. CASE free = {}
  BY <1>1, <1>2 DEF UniqueOutputPath
<1>3. CASE free # {}
  <2>1. \E i \in free : \A k \in free : i <= k
    BY <1>1, <1>3, LeastNumber
  <2>2. (CHOOSE i \in free : \A k \in free : i <= k) \in 1 .. Len(s)
    BY <2>1
  <2>3. UniqueOutputPath(n) = s[CHOOSE i \in free : \A k \in free : i <= k]
    BY <1>3, Zenon DEF UniqueOutputPath
  <2>4. \A i \in 1 .. Len(s) : s[i] \in Names
    BY <1>1
  <2> HIDE DEF free
  <2> QED
    BY <2>2, <2>3, <2>4
<1> QED
  BY <1>2, <1>3

LEMMA DestinationName ==
  \A r \in Requests, n \in Names : Destination(r, n) \in Names
  BY UniqueName, RequestsAssumption DEF Destination

-----------------------------------------------------------------------------
(* Types.                                                                   *)

\* From the opening of the input to the end of the commit, where only the
\* commands that encrypt or decrypt are.
Streaming == {"open", "create", "keyfile", "transform", "cleanup", "name", "commit",
              "copy", "fill", "stat"}
WithFile == {"create", "keyfile", "transform", "fill"}
WithName == {"commit", "copy", "fill"}

\* What a stage works on is there.
JobOK(j) ==
  /\ pc[j] # "idle" => req[j] \in Requests
  /\ pc[j] \in Streaming => req[j].op \in {"encrypt", "decrypt"}
  /\ pc[j] \in Streaming /\ req[j].op = "encrypt" => out[j] \in Names
  /\ pc[j] \in WithFile => fd[j] \in Inodes
  /\ pc[j] \in WithName => out[j] \in Names
  /\ pc[j] = "name" => read[j].names # <<>>

TypeInv == TypeOK /\ \A j \in Jobs : JobOK(j)

LEMMA ContentTypes ==
  /\ Blank \in Contents /\ Wiped \in Contents
  /\ \A v \in 1 .. MaxWrites : Plain(v) \in Contents
  /\ Blank.origin = 0 /\ Wiped.origin = MaxWrites + 1
  /\ \A v \in 1 .. MaxWrites : Plain(v).origin = v
  BY BoundsAssumption DEF Blank, Wiped, Plain, Contents, Origins

LEMMA ResultType ==
  ASSUME NEW r \in Requests, r.op \in {"encrypt", "decrypt"}, NEW c \in Contents,
         r.op = "decrypt" => IsContainer(c)
  PROVE  Result(r, c) \in Contents /\ Result(r, c).origin = c.origin
<1>1. r.input \in Names
  BY RequestsAssumption
<1>2. c.names \in Seq(Names) /\ c.origin \in Origins
  BY DEF Contents
<1>3. CASE r.op = "encrypt"
  <2>1. Append(c.names, r.input) \in Seq(Names)
    BY <1>1, <1>2
  <2> QED
    BY <1>2, <1>3, <2>1 DEF Result, Contents
<1>4. CASE r.op = "decrypt"
  <2>1. SubSeq(c.names, 1, Len(c.names) - 1) \in Seq(Names)
    BY <1>2, <1>4 DEF IsContainer
  <2> QED
    BY <1>2, <1>4, <2>1 DEF Result, Contents
<1> QED
  BY <1>3, <1>4

LEMMA InodeTypes ==
  /\ \A j \in Jobs : Temp(j) \in Inodes /\ Copy(j) \in Inodes
  /\ \A v \in 1 .. MaxWrites : <<"write", v>> \in Inodes
  /\ \A j, k \in Jobs : Temp(j) # Copy(k) /\ (Temp(j) = Temp(k) => j = k)
  /\ \A j \in Jobs, v \in 1 .. MaxWrites : Temp(j) # <<"write", v>>
  /\ \A i \in Inodes : i # NoFile
  BY NoFileAssumption DEF Inodes, Temp, Copy

\* The files at the start.
LEMMA BeforeTypes ==
  \A n \in Filled : Before[n] \in Contents /\ Before[n].origin \in 1 .. MaxWrites
<1> SUFFICES ASSUME NEW n \in Filled
             PROVE  Before[n] \in Contents /\ Before[n].origin \in 1 .. MaxWrites
  OBVIOUS
<1>1. PICK k \in 0 .. MaxWrites : {Before[m].origin : m \in Filled} = 1 .. k
  BY BeforeAssumption
<1>2. Before[n].origin \in {Before[m].origin : m \in Filled}
  OBVIOUS
<1>3. Before[n].origin \in 1 .. k
  BY <1>1, <1>2
<1>4. Before[n] \in Contents
  BY BeforeAssumption
<1> QED
  BY <1>3, <1>4, BoundsAssumption

LEMMA InitTypeInv == Init => TypeInv
<1> SUFFICES ASSUME Init PROVE TypeInv
  OBVIOUS
<1>1. \A n \in Filled : Before[n] \in Contents /\ Before[n].origin \in 1 .. MaxWrites
  BY BeforeTypes
<1>2. dir \in [Names -> Inodes \cup {NoFile}]
  BY <1>1, InodeTypes DEF Init
<1>3. data \in [Inodes -> Contents]
  <2>1. ASSUME NEW i \in Inodes, \E n \in Names : dir[n] = i
        PROVE  Before[CHOOSE n \in Names : dir[n] = i] \in Contents
    <3> DEFINE m == CHOOSE n \in Names : dir[n] = i
    <3>1. m \in Names /\ dir[m] = i
      BY <2>1
    <3>2. m \in Filled
      BY <3>1, InodeTypes DEF Init
    <3> QED
      BY <1>1, <3>2
  <2> QED
    BY <2>1, ContentTypes DEF Init
<1>4. writes \in 0 .. MaxWrites /\ alone \in BOOLEAN
  BY BoundsAssumption DEF Init
<1>5. \A j \in Jobs : pc[j] = "idle"
  BY DEF Init
<1> QED
  BY <1>2, <1>3, <1>4, <1>5, ContentTypes
  DEF Init, TypeInv, TypeOK, JobOK, Resting, Streaming, WithFile, WithName

\* Steps of one command leave the others alone.
OthersRest(j) ==
  \A k \in Jobs \ {j} : /\ pc'[k] = pc[k] /\ req'[k] = req[k] /\ out'[k] = out[k]
                        /\ fd'[k] = fd[k] /\ read'[k] = read[k]

LEMMA StepType ==
  ASSUME TypeInv, NEW j \in Jobs, OthersRest(j), JobOK(j)', TypeOK'
  PROVE  TypeInv'
<1>1. ASSUME NEW k \in Jobs \ {j} PROVE JobOK(k)'
  BY DEF OthersRest, JobOK, TypeInv
<1> QED
  BY <1>1 DEF TypeInv

LEMMA BoundTypes ==
  ASSUME TypeInv, NEW kind, Fault(kind) \/ UNCHANGED boundVars
  PROVE  alone' \in BOOLEAN /\ writes' \in 0 .. MaxWrites /\ failed' \subseteq Faults
  BY DEF TypeInv, TypeOK, Fault, boundVars

LEMMA OriginTypes ==
  ASSUME TypeInv, NEW n \in Names, Exists(n)
  PROVE  dir[n] \in Inodes /\ Content(n) \in Contents /\ OriginsAt(n) \subseteq Origins
<1>1. dir[n] \in Inodes /\ Content(n) \in Contents
  BY DEF TypeInv, TypeOK, Exists, Content
<1>2. \A c \in Contents : c.origin \in Origins
  BY DEF Contents
<1>3. \A j \in Jobs : read[j] \in Contents
  BY DEF TypeInv, TypeOK
<1> QED
  BY <1>1, <1>2, <1>3 DEF OriginsAt

LEMMA ReplacesType ==
  ASSUME TypeInv, NEW j \in Jobs, out[j] \in Names, Replaces(j)
  PROVE  asked' \subseteq Origins /\ raced' \subseteq Origins
<1>1. (IF Exists(out[j]) THEN OriginsAt(out[j]) ELSE {}) \subseteq Origins
  BY OriginTypes
<1> QED
  BY <1>1 DEF Replaces, TypeInv, TypeOK

LEMMA DestroysType ==
  ASSUME TypeInv, NEW j \in Jobs, req[j].input \in Names, Exists(req[j].input),
         NEW c, Destroys(j, c)
  PROVE  asked' \subseteq Origins /\ raced' \subseteq Origins
<1>1. OriginsAt(req[j].input) \subseteq Origins
  BY OriginTypes
<1> QED
  BY <1>1 DEF Destroys, TypeInv, TypeOK

\* Stages that follow others without a change to what a command works on.
Moves(j) ==
  \/ CreatesTemp(j) \/ FailsToCreate(j) \/ AppliesKeyfiles(j) \/ KeyfileFails(j)
  \/ FailsToCleanUp(j) \/ RenameFails(j) \/ CopyFails(j) \/ Stats(j)
  \/ FailsToOverwrite(j) \/ FailsToUnlink(j) \/ Crash(j)

LEMMA MovesKeep ==
  ASSUME TypeInv, NEW j \in Jobs, Moves(j)
  PROVE  /\ UNCHANGED <<dir, data, req, out, fd, read, asked, raced>>
         /\ temps' \subseteq Jobs
         /\ alone' \in BOOLEAN /\ writes' \in 0 .. MaxWrites /\ failed' \subseteq Faults
<1>1. UNCHANGED <<dir, data, req, out, fd, read, asked, raced>>
  BY DEF Moves, CreatesTemp, FailsToCreate, AppliesKeyfiles, KeyfileFails, FailsToCleanUp,
     RenameFails, CopyFails, Stats, FailsToOverwrite, FailsToUnlink, Crash, diskVars,
     jobVars, historyVars
<1>2. temps' \in {temps, temps \cup {j}}
  BY DEF Moves, CreatesTemp, FailsToCreate, AppliesKeyfiles, KeyfileFails, FailsToCleanUp,
     RenameFails, CopyFails, Stats, FailsToOverwrite, FailsToUnlink, Crash, diskVars
<1>3. \E kind : Fault(kind) \/ UNCHANGED boundVars
  BY DEF Moves, CreatesTemp, FailsToCreate, AppliesKeyfiles, KeyfileFails, FailsToCleanUp,
     RenameFails, CopyFails, Stats, FailsToOverwrite, FailsToUnlink, Crash
<1>4. alone' \in BOOLEAN /\ writes' \in 0 .. MaxWrites /\ failed' \subseteq Faults
  BY <1>3, BoundTypes
<1> QED
  BY <1>1, <1>2, <1>4 DEF TypeInv, TypeOK

LEMMA MovesType ==
  ASSUME TypeInv, NEW j \in Jobs, Moves(j)
  PROVE  TypeInv'
<1>1. /\ UNCHANGED <<dir, data, req, out, fd, read, asked, raced>>
      /\ temps' \subseteq Jobs
      /\ alone' \in BOOLEAN /\ writes' \in 0 .. MaxWrites /\ failed' \subseteq Faults
  BY MovesKeep
<1>2. PICK stage \in Resting \cup Stages :
         /\ pc' = [pc EXCEPT ![j] = stage]
         /\ stage # "idle" /\ stage # "name"
         /\ stage \in Streaming => pc[j] \in Streaming
         /\ stage \in WithFile => pc[j] \in WithFile
         /\ stage \in WithName => pc[j] \in WithName
         /\ pc[j] # "idle"
  <2>1. CASE CreatesTemp(j)
    BY <2>1 DEF CreatesTemp, Goto, Resting, Stages, Streaming, WithFile, WithName
  <2>2. CASE FailsToCreate(j)
    BY <2>2 DEF FailsToCreate, Goto, Resting, Stages, Streaming, WithFile, WithName
  <2>3. CASE AppliesKeyfiles(j)
    BY <2>3 DEF AppliesKeyfiles, Goto, Resting, Stages, Streaming, WithFile, WithName
  <2>4. CASE KeyfileFails(j)
    BY <2>4 DEF KeyfileFails, Goto, Resting, Stages, Streaming, WithFile, WithName
  <2>5. CASE FailsToCleanUp(j)
    BY <2>5 DEF FailsToCleanUp, Goto, Resting, Stages, Streaming, WithFile, WithName
  <2>6. CASE RenameFails(j)
    BY <2>6 DEF RenameFails, Goto, Resting, Stages, Streaming, WithFile, WithName
  <2>7. CASE CopyFails(j)
    BY <2>7 DEF CopyFails, AfterFailure, Goto, Resting, Stages, Streaming, WithFile, WithName
  <2>8. CASE Stats(j)
    BY <2>8 DEF Stats, Goto, Resting, Stages, Streaming, WithFile, WithName
  <2>9. CASE FailsToOverwrite(j)
    BY <2>9 DEF FailsToOverwrite, Goto, Resting, Stages, Streaming, WithFile, WithName
  <2>10. CASE FailsToUnlink(j)
    BY <2>10 DEF FailsToUnlink, Goto, Resting, Stages, Streaming, WithFile, WithName
  <2>11. CASE Crash(j)
    BY <2>11 DEF Crash, Goto, Resting, Stages, Streaming, WithFile, WithName
  <2> QED
    BY <2>1, <2>2, <2>3, <2>4, <2>5, <2>6, <2>7, <2>8, <2>9, <2>10, <2>11 DEF Moves
<1>3. pc' \in [Jobs -> Resting \cup Stages] /\ pc'[j] = stage
  BY <1>2 DEF TypeInv, TypeOK
<1>4. TypeOK'
  BY <1>1, <1>3 DEF TypeInv, TypeOK
<1>5. OthersRest(j)
  BY <1>1, <1>2 DEF OthersRest, TypeInv, TypeOK
<1>6. JobOK(j)'
  BY <1>1, <1>2, <1>3 DEF JobOK, TypeInv
<1> QED
  BY <1>4, <1>5, <1>6, StepType

LEMMA CalledType ==
  ASSUME TypeInv, NEW j \in Jobs, NEW r \in Requests, Called(j, r)
  PROVE  TypeInv'
<1> DEFINE stage == pc'[j]
<1>0. r.op = "encrypt" => ContainerOf[r.input] \in Names
  BY OutputsAssumption
<1>1. /\ pc' \in [Jobs -> Resting \cup Stages]
      /\ stage \in {"failed", "shred", "open"}
      /\ stage = "open" => r.op # "shred"
      /\ \A k \in Jobs \ {j} : pc'[k] = pc[k]
  BY DEF Called, Goto, TypeInv, TypeOK, Resting, Stages
<1>2. req' = [req EXCEPT ![j] = r] /\ req'[j] = r
  BY DEF Called, TypeInv, TypeOK
<1>3. /\ out' \in [Jobs -> Names \cup {NoName}]
      /\ stage = "open" /\ r.op = "encrypt" => out'[j] \in Names
      /\ \A k \in Jobs \ {j} : out'[k] = out[k]
  BY <1>0, <1>1, DestinationName DEF Called, Goto, TypeInv, TypeOK
<1>4. UNCHANGED <<diskVars, fd, read, boundVars, historyVars>>
  BY DEF Called
<1>5. TypeOK'
  BY <1>1, <1>2, <1>3, <1>4 DEF TypeInv, TypeOK, diskVars, boundVars, historyVars
<1>6. OthersRest(j)
  BY <1>1, <1>2, <1>3, <1>4 DEF OthersRest, TypeInv, TypeOK
<1>7. r.op \in {"encrypt", "decrypt", "shred"}
  BY RequestsAssumption
<1>8. JobOK(j)'
  BY <1>1, <1>2, <1>3, <1>7 DEF JobOK, Streaming, WithFile, WithName
<1> QED
  BY <1>5, <1>6, <1>8, StepType

LEMMA OpensType ==
  ASSUME TypeInv, NEW j \in Jobs, Opens(j)
  PROVE  TypeInv'
<1>1. JobOK(j) /\ req[j].input \in Names /\ dir[req[j].input] \in Inodes \cup {NoFile}
  BY RequestsAssumption DEF TypeInv, TypeOK, JobOK, Opens
<1>2. /\ pc' \in [Jobs -> Resting \cup Stages]
      /\ pc'[j] = IF Exists(req[j].input) THEN "create" ELSE "failed"
      /\ \A k \in Jobs \ {j} : pc'[k] = pc[k]
  BY DEF Opens, Goto, TypeInv, TypeOK, Resting, Stages
<1>3. /\ fd' \in [Jobs -> Inodes \cup {NoFile}]
      /\ fd'[j] = dir[req[j].input]
      /\ \A k \in Jobs \ {j} : fd'[k] = fd[k]
  BY <1>1 DEF Opens, TypeInv, TypeOK
<1>4. UNCHANGED <<diskVars, req, out, read, boundVars, historyVars>>
  BY DEF Opens
<1>5. TypeOK'
  BY <1>2, <1>3, <1>4 DEF TypeInv, TypeOK, diskVars, boundVars, historyVars
<1>6. OthersRest(j)
  BY <1>2, <1>3, <1>4 DEF OthersRest
<1>7. pc'[j] = "create" => fd'[j] \in Inodes
  BY <1>1, <1>2, <1>3 DEF Exists
<1>8. pc[j] = "open"
  BY DEF Opens
<1>9. JobOK(j)'
  BY <1>1, <1>2, <1>4, <1>7, <1>8 DEF JobOK, Streaming, WithFile, WithName
<1> QED
  BY <1>5, <1>6, <1>9, StepType

\* What the stream makes of the input is a content, of the same origin.
LEMMA TransformedType ==
  ASSUME TypeInv, NEW j \in Jobs, pc[j] = "transform"
  PROVE  /\ fd[j] \in Inodes /\ data[fd[j]] \in Contents
         /\ req[j] \in Requests /\ req[j].op \in {"encrypt", "decrypt"}
         /\ (req[j].op = "decrypt" => IsContainer(data[fd[j]])) =>
              /\ Result(req[j], data[fd[j]]) \in Contents
              /\ Result(req[j], data[fd[j]]).origin = data[fd[j]].origin
<1>1. fd[j] \in Inodes /\ req[j] \in Requests /\ req[j].op \in {"encrypt", "decrypt"}
  BY DEF TypeInv, JobOK, Streaming, WithFile
<1>2. data[fd[j]] \in Contents
  BY <1>1 DEF TypeInv, TypeOK
<1> QED
  BY <1>1, <1>2, ResultType

LEMMA TransformsType ==
  ASSUME TypeInv, NEW j \in Jobs, Transforms(j)
  PROVE  TypeInv'
<1> DEFINE c == data[fd[j]]
<1>1. pc[j] = "transform" /\ (req[j].op = "decrypt" => IsContainer(c))
  BY DEF Transforms
<1>2. /\ c \in Contents /\ Result(req[j], c) \in Contents
      /\ req[j] \in Requests /\ req[j].op \in {"encrypt", "decrypt"}
  BY <1>1, TransformedType
<1>3. data' \in [Inodes -> Contents]
  BY <1>2, InodeTypes DEF Transforms, TypeInv, TypeOK
<1>4. read' \in [Jobs -> Contents] /\ read'[j] = c /\ \A k \in Jobs \ {j} : read'[k] = read[k]
  BY <1>2 DEF Transforms, TypeInv, TypeOK
<1>5. /\ pc' \in [Jobs -> Resting \cup Stages]
      /\ pc'[j] = IF req[j].op = "decrypt" THEN "name" ELSE "commit"
      /\ \A k \in Jobs \ {j} : pc'[k] = pc[k]
  BY DEF Transforms, Goto, TypeInv, TypeOK, Stages
<1>6. UNCHANGED <<dir, temps, req, out, fd, boundVars, historyVars>>
  BY DEF Transforms
<1>7. TypeOK'
  BY <1>3, <1>4, <1>5, <1>6 DEF TypeInv, TypeOK, boundVars, historyVars
<1>8. OthersRest(j)
  BY <1>4, <1>5, <1>6 DEF OthersRest
<1>9. req[j].op = "encrypt" => out[j] \in Names
  BY <1>1 DEF TypeInv, JobOK, Streaming
<1>10. JobOK(j)'
  BY <1>1, <1>2, <1>4, <1>5, <1>6, <1>9
  DEF JobOK, Streaming, WithFile, WithName, IsContainer
<1> QED
  BY <1>7, <1>8, <1>10, StepType

LEMMA TransformFailsType ==
  ASSUME TypeInv, NEW j \in Jobs, TransformFails(j)
  PROVE  TypeInv'
<1> DEFINE c == data[fd[j]]
<1>1. pc[j] = "transform"
  BY DEF TransformFails
<1>2. data' \in [Inodes -> Contents]
  <2>1. CASE req[j].op = "decrypt" /\ ~IsContainer(c)
    BY <2>1 DEF TransformFails, TypeInv, TypeOK
  <2>2. CASE ~(req[j].op = "decrypt" /\ ~IsContainer(c))
    <3>1. Result(req[j], c) \in Contents /\ data' = [data EXCEPT ![Temp(j)] = Result(req[j], c)]
      BY <1>1, <2>2, TransformedType DEF TransformFails
    <3> QED
      BY <3>1, InodeTypes DEF TypeInv, TypeOK
  <2> QED
    BY <2>1, <2>2
<1>3. /\ pc' \in [Jobs -> Resting \cup Stages]
      /\ pc'[j] = "cleanup"
      /\ \A k \in Jobs \ {j} : pc'[k] = pc[k]
  BY DEF TransformFails, AfterFailure, Goto, TypeInv, TypeOK, Stages
<1>4. UNCHANGED <<dir, temps, jobVars, historyVars>>
  BY DEF TransformFails
<1>5. Fault("transform") \/ UNCHANGED boundVars
  BY DEF TransformFails
<1>6. TypeOK'
  BY <1>2, <1>3, <1>4, <1>5, BoundTypes DEF TypeInv, TypeOK, jobVars, historyVars
<1>7. OthersRest(j)
  BY <1>3, <1>4 DEF OthersRest, jobVars
<1>8. JobOK(j)'
  BY <1>1, <1>3, <1>4 DEF TypeInv, JobOK, Streaming, WithFile, WithName, jobVars
<1> QED
  BY <1>6, <1>7, <1>8, StepType

LEMMA CleansUpType ==
  ASSUME TypeInv, NEW j \in Jobs, CleansUp(j)
  PROVE  TypeInv'
<1>1. /\ pc' \in [Jobs -> Resting \cup Stages]
      /\ pc'[j] = "failed" /\ pc[j] = "cleanup"
      /\ \A k \in Jobs \ {j} : pc'[k] = pc[k]
  BY DEF CleansUp, Goto, TypeInv, TypeOK, Resting
<1>2. UNCHANGED <<dir, jobVars, boundVars, historyVars>>
  BY DEF CleansUp
<1>3. data' \in [Inodes -> Contents] /\ temps' \subseteq Jobs
  BY ContentTypes, InodeTypes DEF CleansUp, TypeInv, TypeOK
<1>4. TypeOK'
  BY <1>1, <1>2, <1>3 DEF TypeInv, TypeOK, jobVars, boundVars, historyVars
<1>5. OthersRest(j) /\ JobOK(j)'
  BY <1>1, <1>2 DEF OthersRest, TypeInv, JobOK, Streaming, WithFile, WithName, jobVars
<1> QED
  BY <1>4, <1>5, StepType

LEMMA ChoosesNameType ==
  ASSUME TypeInv, NEW j \in Jobs, ChoosesName(j)
  PROVE  TypeInv'
<1>1. /\ pc[j] = "name" /\ pc'[j] = "commit"
      /\ pc' \in [Jobs -> Resting \cup Stages]
      /\ \A k \in Jobs \ {j} : pc'[k] = pc[k]
  BY DEF ChoosesName, Goto, TypeInv, TypeOK, Stages
<1>2. StoredName(read[j]) \in Names
  <2>1. read[j].names \in Seq(Names) /\ read[j].names # <<>>
    BY <1>1 DEF TypeInv, TypeOK, JobOK, Contents
  <2> QED
    BY <2>1 DEF StoredName
<1>3. /\ out' \in [Jobs -> Names \cup {NoName}]
      /\ out'[j] \in Names
      /\ \A k \in Jobs \ {j} : out'[k] = out[k]
  <2>1. req[j] \in Requests
    BY <1>1 DEF TypeInv, JobOK
  <2>2. Destination(req[j], StoredName(read[j])) \in Names
    BY <1>2, <2>1, DestinationName
  <2> QED
    BY <2>2 DEF ChoosesName, TypeInv, TypeOK
<1>4. UNCHANGED <<diskVars, req, fd, read, boundVars, historyVars>>
  BY DEF ChoosesName
<1>5. TypeOK'
  BY <1>1, <1>3, <1>4 DEF TypeInv, TypeOK, diskVars, boundVars, historyVars
<1>6. OthersRest(j) /\ JobOK(j)'
  BY <1>1, <1>3, <1>4 DEF OthersRest, TypeInv, JobOK, Streaming, WithFile, WithName
<1> QED
  BY <1>5, <1>6, StepType

\* Where a command goes from its commit, and what it has chosen stays.
LEMMA CommitTypes ==
  ASSUME TypeInv, NEW j \in Jobs, pc[j] \in WithName, Goto(j, AfterCommit(j)),
         UNCHANGED jobVars
  PROVE  /\ pc' \in [Jobs -> Resting \cup Stages]
         /\ pc'[j] \in {"stat", "shred", "done"}
         /\ OthersRest(j) /\ JobOK(j)'
<1>1. /\ pc' \in [Jobs -> Resting \cup Stages]
      /\ pc'[j] \in {"stat", "shred", "done"}
      /\ \A k \in Jobs \ {j} : pc'[k] = pc[k]
  BY DEF Goto, AfterCommit, TypeInv, TypeOK, Resting, Stages
<1>2. /\ req[j] \in Requests /\ req[j].op \in {"encrypt", "decrypt"}
      /\ out[j] \in Names
  BY DEF TypeInv, JobOK, Streaming, WithName
<1>3. OthersRest(j)
  BY <1>1 DEF OthersRest, jobVars
<1>4. JobOK(j)'
  BY <1>1, <1>2 DEF JobOK, Streaming, WithFile, WithName, jobVars
<1> QED
  BY <1>1, <1>3, <1>4

LEMMA CommitsByRenameType ==
  ASSUME TypeInv, NEW j \in Jobs, CommitsByRename(j)
  PROVE  TypeInv'
<1>1. pc[j] = "commit" /\ out[j] \in Names
  BY DEF CommitsByRename, TypeInv, JobOK, WithName
<1>2. /\ pc' \in [Jobs -> Resting \cup Stages]
      /\ OthersRest(j) /\ JobOK(j)'
  BY <1>1, CommitTypes DEF CommitsByRename, WithName
<1>3. asked' \subseteq Origins /\ raced' \subseteq Origins
  BY <1>1, ReplacesType DEF CommitsByRename
<1>4. dir' \in [Names -> Inodes \cup {NoFile}] /\ temps' \subseteq Jobs
  BY InodeTypes DEF CommitsByRename, TypeInv, TypeOK
<1>5. UNCHANGED <<data, jobVars, boundVars>>
  BY DEF CommitsByRename
<1>6. TypeOK'
  BY <1>2, <1>3, <1>4, <1>5 DEF TypeInv, TypeOK, jobVars, boundVars
<1> QED
  BY <1>2, <1>6, StepType

\* The inode that a copy goes to.
CopyTarget(j) == IF Exists(out[j]) THEN dir[out[j]] ELSE Copy(j)

LEMMA CopyStartsStep ==
  ASSUME TypeInv, NEW j \in Jobs, CopyStarts(j)
  PROVE  /\ pc[j] = "copy" /\ out[j] \in Names /\ req[j] \in Requests
         /\ req[j].op \in {"encrypt", "decrypt"}
         /\ CopyTarget(j) \in Inodes
         /\ dir' = [dir EXCEPT ![out[j]] = CopyTarget(j)]
         /\ data' = [data EXCEPT ![CopyTarget(j)] = Blank]
         /\ fd' = [fd EXCEPT ![j] = CopyTarget(j)]
<1>1. /\ pc[j] = "copy" /\ out[j] \in Names /\ req[j] \in Requests
      /\ req[j].op \in {"encrypt", "decrypt"}
  BY DEF CopyStarts, TypeInv, JobOK, WithName, Streaming
<1>2. CopyTarget(j) \in Inodes
  BY <1>1, InodeTypes DEF CopyTarget, TypeInv, TypeOK, Exists
<1> QED
  BY <1>1, <1>2 DEF CopyStarts, CopyTarget

LEMMA CopyStartsType ==
  ASSUME TypeInv, NEW j \in Jobs, CopyStarts(j)
  PROVE  TypeInv'
<1>1. /\ pc[j] = "copy" /\ out[j] \in Names /\ req[j] \in Requests
      /\ req[j].op \in {"encrypt", "decrypt"}
      /\ CopyTarget(j) \in Inodes
      /\ dir' = [dir EXCEPT ![out[j]] = CopyTarget(j)]
      /\ data' = [data EXCEPT ![CopyTarget(j)] = Blank]
      /\ fd' = [fd EXCEPT ![j] = CopyTarget(j)]
  BY CopyStartsStep
<1>2. /\ pc' \in [Jobs -> Resting \cup Stages] /\ pc'[j] = "fill"
      /\ \A k \in Jobs \ {j} : pc'[k] = pc[k]
  BY DEF CopyStarts, Goto, TypeInv, TypeOK, Stages
<1>3. UNCHANGED <<temps, req, out, read, boundVars>>
  BY DEF CopyStarts
<1>4. asked' \subseteq Origins /\ raced' \subseteq Origins
  BY <1>1, ReplacesType DEF CopyStarts
<1>5. /\ dir' \in [Names -> Inodes \cup {NoFile}]
      /\ data' \in [Inodes -> Contents]
      /\ fd' \in [Jobs -> Inodes \cup {NoFile}]
      /\ fd'[j] = CopyTarget(j)
      /\ \A k \in Jobs \ {j} : fd'[k] = fd[k]
  BY <1>1, ContentTypes DEF TypeInv, TypeOK
<1>6. TypeOK'
  BY <1>2, <1>3, <1>4, <1>5 DEF TypeInv, TypeOK, boundVars
<1>7. OthersRest(j)
  BY <1>2, <1>3, <1>5 DEF OthersRest
<1>8. JobOK(j)'
  BY <1>1, <1>2, <1>3, <1>5 DEF JobOK, Streaming, WithFile, WithName
<1> QED
  BY <1>6, <1>7, <1>8, StepType

LEMMA CopyEndsStep ==
  ASSUME TypeInv, NEW j \in Jobs, CopyEnds(j)
  PROVE  /\ pc[j] = "fill" /\ fd[j] \in Inodes
         /\ data' = [data EXCEPT ![fd[j]] = data[Temp(j)]]
         /\ temps' \in {temps, temps \ {j}}
         /\ alone' = alone /\ writes' = writes
         /\ failed' \subseteq Faults /\ failed \subseteq failed'
         /\ temps' = temps => "unlink" \in failed' \/ j \notin temps
<1>1. pc[j] = "fill" /\ fd[j] \in Inodes
  BY DEF CopyEnds, TypeInv, JobOK, WithFile
<1>2. CASE temps' = temps \ {j} /\ UNCHANGED boundVars
  BY <1>1, <1>2 DEF CopyEnds, TypeInv, TypeOK, boundVars
<1>3. CASE /\ "unlink" \in Faults
           /\ failed' = failed \cup {"unlink"}
           /\ UNCHANGED <<alone, writes, temps>>
  BY <1>1, <1>3 DEF CopyEnds, TypeInv, TypeOK
<1> QED
  BY <1>2, <1>3 DEF CopyEnds

LEMMA CopyEndsType ==
  ASSUME TypeInv, NEW j \in Jobs, CopyEnds(j)
  PROVE  TypeInv'
<1>1. /\ pc[j] = "fill" /\ fd[j] \in Inodes
      /\ data' = [data EXCEPT ![fd[j]] = data[Temp(j)]]
      /\ temps' \in {temps, temps \ {j}}
      /\ alone' = alone /\ writes' = writes /\ failed' \subseteq Faults
  BY CopyEndsStep
<1>2. /\ pc' \in [Jobs -> Resting \cup Stages]
      /\ OthersRest(j) /\ JobOK(j)'
  BY <1>1, CommitTypes DEF CopyEnds, WithName, jobVars
<1>3. data[fd[j]].origin \in Origins
  BY <1>1 DEF TypeInv, TypeOK, Contents
<1>4. raced' \subseteq Origins /\ UNCHANGED <<dir, jobVars, asked>>
  BY <1>3 DEF CopyEnds, TypeInv, TypeOK
<1>5. data' \in [Inodes -> Contents] /\ temps' \subseteq Jobs
  BY <1>1, InodeTypes DEF TypeInv, TypeOK
<1>6. TypeOK'
  BY <1>1, <1>2, <1>4, <1>5 DEF TypeInv, TypeOK, jobVars
<1> QED
  BY <1>2, <1>6, StepType

LEMMA OverwritesType ==
  ASSUME TypeInv, NEW j \in Jobs, Overwrites(j)
  PROVE  TypeInv'
<1>1. pc[j] = "shred" /\ Exists(req[j].input) /\ req[j] \in Requests
  BY DEF Overwrites, TypeInv, JobOK
<1>2. req[j].input \in Names
  BY <1>1, RequestsAssumption
<1>3. asked' \subseteq Origins /\ raced' \subseteq Origins
  BY <1>1, <1>2, DestroysType DEF Overwrites
<1>4. data' \in [Inodes -> Contents]
  BY <1>1, <1>2, OriginTypes, ContentTypes DEF Overwrites, TypeInv, TypeOK
<1>5. /\ pc' \in [Jobs -> Resting \cup Stages] /\ pc'[j] = "unlink"
      /\ \A k \in Jobs \ {j} : pc'[k] = pc[k]
  BY DEF Overwrites, Goto, TypeInv, TypeOK, Stages
<1>6. UNCHANGED <<dir, temps, jobVars, boundVars>>
  BY DEF Overwrites
<1>7. TypeOK'
  BY <1>3, <1>4, <1>5, <1>6 DEF TypeInv, TypeOK, jobVars, boundVars
<1>8. OthersRest(j)
  BY <1>5, <1>6 DEF OthersRest, jobVars
<1>9. JobOK(j)'
  BY <1>1, <1>5, <1>6 DEF JobOK, Streaming, WithFile, WithName, jobVars
<1> QED
  BY <1>7, <1>8, <1>9, StepType

LEMMA UnlinksType ==
  ASSUME TypeInv, NEW j \in Jobs, Unlinks(j)
  PROVE  TypeInv'
<1>1. pc[j] = "unlink" /\ Exists(req[j].input) /\ req[j] \in Requests
  BY DEF Unlinks, TypeInv, JobOK
<1>2. req[j].input \in Names
  BY <1>1, RequestsAssumption
<1>3. asked' \subseteq Origins /\ raced' \subseteq Origins
  BY <1>1, <1>2, DestroysType DEF Unlinks
<1>4. dir' \in [Names -> Inodes \cup {NoFile}]
  BY DEF Unlinks, TypeInv, TypeOK
<1>5. /\ pc' \in [Jobs -> Resting \cup Stages] /\ pc'[j] = "done"
      /\ \A k \in Jobs \ {j} : pc'[k] = pc[k]
  BY DEF Unlinks, Goto, TypeInv, TypeOK, Resting
<1>6. UNCHANGED <<data, temps, jobVars, boundVars>>
  BY DEF Unlinks
<1>7. TypeOK'
  BY <1>3, <1>4, <1>5, <1>6 DEF TypeInv, TypeOK, jobVars, boundVars
<1>8. OthersRest(j)
  BY <1>5, <1>6 DEF OthersRest, jobVars
<1>9. JobOK(j)'
  BY <1>1, <1>5, <1>6 DEF JobOK, Streaming, WithFile, WithName, jobVars
<1> QED
  BY <1>7, <1>8, <1>9, StepType

\* The inode that another program writes.
WriteTarget(n) == IF Exists(n) THEN dir[n] ELSE <<"write", writes'>>

LEMMA WriteStep ==
  ASSUME TypeInv, NEW n \in Names, Write(n)
  PROVE  /\ WriteTarget(n) \in Inodes /\ writes' \in 1 .. MaxWrites
         /\ dir' = [dir EXCEPT ![n] = WriteTarget(n)]
         /\ data' = [data EXCEPT ![WriteTarget(n)] = Plain(writes')]
         /\ UNCHANGED <<temps, pc, jobVars, alone, failed, raced>>
<1>1. writes' \in 1 .. MaxWrites
  BY BoundsAssumption DEF Write, TypeInv, TypeOK
<1>2. WriteTarget(n) \in Inodes
  BY <1>1, InodeTypes DEF WriteTarget, TypeInv, TypeOK, Exists
<1> QED
  BY <1>1, <1>2 DEF Write, WriteTarget

LEMMA WriteType ==
  ASSUME TypeInv, NEW n \in Names, Write(n)
  PROVE  TypeInv'
<1>1. /\ WriteTarget(n) \in Inodes /\ writes' \in 1 .. MaxWrites
      /\ dir' = [dir EXCEPT ![n] = WriteTarget(n)]
      /\ data' = [data EXCEPT ![WriteTarget(n)] = Plain(writes')]
      /\ UNCHANGED <<temps, pc, jobVars, alone, failed, raced>>
  BY WriteStep
<1>2. asked' \subseteq Origins
  BY OriginTypes DEF Write, TypeInv, TypeOK
<1>3. /\ dir' \in [Names -> Inodes \cup {NoFile}]
      /\ data' \in [Inodes -> Contents]
      /\ writes' \in 0 .. MaxWrites
  BY <1>1, ContentTypes DEF TypeInv, TypeOK
<1>4. TypeOK'
  BY <1>1, <1>2, <1>3 DEF TypeInv, TypeOK, jobVars
<1>5. \A j \in Jobs : JobOK(j)'
  BY <1>1 DEF TypeInv, JobOK, jobVars
<1> QED
  BY <1>4, <1>5 DEF TypeInv

LEMMA DeleteType ==
  ASSUME TypeInv, NEW n \in Names, Delete(n)
  PROVE  TypeInv'
<1>1. UNCHANGED <<data, temps, pc, jobVars, boundVars, raced>>
  BY DEF Delete
<1>2. asked' \subseteq Origins /\ dir' \in [Names -> Inodes \cup {NoFile}]
  BY OriginTypes DEF Delete, TypeInv, TypeOK
<1>3. TypeOK'
  BY <1>1, <1>2 DEF TypeInv, TypeOK, jobVars, boundVars
<1>4. \A j \in Jobs : JobOK(j)'
  BY <1>1 DEF TypeInv, JobOK, jobVars
<1> QED
  BY <1>3, <1>4 DEF TypeInv

LEMMA NextTypeInv == TypeInv /\ [Next]_vars => TypeInv'
<1> SUFFICES ASSUME TypeInv, [Next]_vars PROVE TypeInv'
  OBVIOUS
<1>1. CASE \E n \in Shared : Write(n) \/ Delete(n)
  BY <1>1, WriteType, DeleteType, NamesAssumption
<1>2. CASE \E j \in Jobs : JobStep(j) \/ Crash(j)
  BY <1>2, CalledType, OpensType, TransformsType, TransformFailsType, CleansUpType,
     ChoosesNameType, CommitsByRenameType, CopyStartsType, CopyEndsType,
     OverwritesType, UnlinksType, MovesType
  DEF JobStep, Moves
<1>3. CASE UNCHANGED vars
  BY <1>3 DEF vars, diskVars, jobVars, boundVars, historyVars, TypeInv, TypeOK, JobOK
<1> QED
  BY <1>1, <1>2, <1>3 DEF Next

\* Every variable keeps its type: the directory, the contents and what each
\* command knows of them (commands/mod.rs: the three commands and their commit).
THEOREM TypeCorrect == Spec => []TypeOK
<1>1. TypeInv => TypeOK
  BY DEF TypeInv
<1> QED
  BY <1>1, InitTypeInv, NextTypeInv, PTL DEF Spec

-----------------------------------------------------------------------------
(* No incomplete files.                                                     *)

\* As long as renames work, nothing is empty but what nobody can get at, and what
\* is going to be renamed is not.
TornInv ==
  /\ TypeInv
  /\ "rename" \notin failed =>
       /\ \A i \in Inodes : data[i].origin = 0 =>
            (\A n \in Names : dir[n] # i) /\ (\A j \in Jobs : fd[j] # i)
       /\ \A j \in Jobs : /\ pc[j] \in {"name", "commit"} => data[Temp(j)].origin # 0
                          /\ pc[j] \notin {"copy", "fill"}

LEMMA FaultsStay ==
  ASSUME TypeInv, [Next]_vars
  PROVE  failed \subseteq failed'
<1>1. CASE \E n \in Shared : Write(n) \/ Delete(n)
  BY <1>1 DEF Write, Delete, boundVars
<1>2. ASSUME NEW j \in Jobs, JobStep(j) \/ Crash(j) PROVE failed \subseteq failed'
  BY <1>2
  DEF JobStep, Called, Opens, CreatesTemp, FailsToCreate, AppliesKeyfiles, KeyfileFails,
      Transforms, TransformFails, CleansUp, FailsToCleanUp, ChoosesName, CommitsByRename,
      RenameFails, CopyStarts, CopyEnds, CopyFails, Stats, Overwrites, FailsToOverwrite,
      Unlinks, FailsToUnlink, Crash, Fault, boundVars
<1> QED
  BY <1>1, <1>2 DEF Next, vars, boundVars

LEMMA InitTornInv == Init => TornInv
<1> SUFFICES ASSUME Init PROVE TornInv
  OBVIOUS
<1>1. TypeInv
  BY InitTypeInv
<1>2. ASSUME NEW n \in Names, dir[n] \in Inodes PROVE data[dir[n]].origin # 0
  <2> DEFINE m == CHOOSE x \in Names : dir[x] = dir[n]
  <2>1. m \in Names /\ dir[m] = dir[n]
    OBVIOUS
  <2>2. m \in Filled
    BY <1>2, <2>1, InodeTypes DEF Init
  <2>3. data[dir[n]] = Before[m]
    BY <1>2 DEF Init
  <2> QED
    BY <2>2, <2>3, BeforeTypes
<1>3. \A j \in Jobs : fd[j] = NoFile /\ pc[j] = "idle"
  BY DEF Init
<1> QED
  BY <1>1, <1>2, <1>3, InodeTypes DEF TornInv

\* A step that writes into one inode.
PutsInto(i, c) ==
  /\ data' = [data EXCEPT ![i] = c]
  /\ fd' = fd
  /\ \A n \in Names : dir'[n] \in {dir[n], i, NoFile}
  /\ \A j \in Jobs : \/ pc'[j] = pc[j]
                     \/ pc'[j] \notin {"name", "commit", "copy", "fill"}
                     \/ i = Temp(j) /\ pc'[j] \in {"name", "commit"}

LEMMA WrittenTorn ==
  ASSUME TornInv, TypeInv', failed \subseteq failed',
         NEW i \in Inodes, NEW c \in Contents, c.origin # 0, PutsInto(i, c)
  PROVE  TornInv'
<1> SUFFICES ASSUME "rename" \notin failed'
             PROVE  /\ \A k \in Inodes : data'[k].origin = 0 =>
                         (\A n \in Names : dir'[n] # k) /\ (\A j \in Jobs : fd'[j] # k)
                    /\ \A j \in Jobs :
                         /\ pc'[j] \in {"name", "commit"} => data'[Temp(j)].origin # 0
                         /\ pc'[j] \notin {"copy", "fill"}
  BY DEF TornInv
<1>1. \A k \in Inodes : data'[k] = IF k = i THEN c ELSE data[k]
  BY DEF PutsInto, TornInv, TypeInv, TypeOK
<1>2. \A k \in Inodes : data'[k].origin = 0 => k # i /\ data[k].origin = 0
  BY <1>1
<1>3. \A k \in Inodes : k # NoFile
  BY InodeTypes
<1>4. \A k \in Inodes : data[k].origin = 0 =>
        (\A n \in Names : dir[n] # k) /\ (\A j \in Jobs : fd[j] # k)
  BY DEF TornInv
<1>5. \A j \in Jobs : Temp(j) \in Inodes
  BY InodeTypes
<1>6. ASSUME NEW j \in Jobs
      PROVE  /\ pc'[j] \in {"name", "commit"} => data'[Temp(j)].origin # 0
             /\ pc'[j] \notin {"copy", "fill"}
  BY <1>1, <1>2, <1>5 DEF PutsInto, TornInv
<1> QED
  BY <1>2, <1>3, <1>4, <1>6 DEF PutsInto

\* A step that writes nothing, and leads nobody to what is empty.
LEMMA UnwrittenTorn ==
  ASSUME TornInv, TypeInv', failed \subseteq failed',
         data' = data,
         \A n \in Names : \/ dir'[n] \in {dir[n], NoFile}
                          \/ \E j \in Jobs : pc[j] = "commit" /\ dir'[n] = Temp(j),
         \A j \in Jobs : fd'[j] = fd[j] \/ \E n \in Names : fd'[j] = dir[n],
         \A j \in Jobs : \/ pc'[j] = pc[j] \/ pc'[j] \notin {"name", "commit", "copy", "fill"}
                         \/ pc[j] = "name" /\ pc'[j] = "commit"
  PROVE  TornInv'
<1> SUFFICES ASSUME "rename" \notin failed'
             PROVE  /\ \A k \in Inodes : data[k].origin = 0 =>
                         (\A n \in Names : dir'[n] # k) /\ (\A j \in Jobs : fd'[j] # k)
                    /\ \A j \in Jobs :
                         /\ pc'[j] \in {"name", "commit"} => data[Temp(j)].origin # 0
                         /\ pc'[j] \notin {"copy", "fill"}
  BY DEF TornInv
<1>1. \A k \in Inodes : k # NoFile
  BY InodeTypes
<1>2. \A k \in Inodes : data[k].origin = 0 =>
        (\A n \in Names : dir[n] # k) /\ (\A j \in Jobs : fd[j] # k)
  BY DEF TornInv
<1>3. \A j \in Jobs : /\ pc[j] \in {"name", "commit"} => data[Temp(j)].origin # 0
                      /\ pc[j] \notin {"copy", "fill"}
  BY DEF TornInv
<1> QED
  BY <1>1, <1>2, <1>3

LEMMA NextTornInv == TornInv /\ [Next]_vars => TornInv'
<1> SUFFICES ASSUME TornInv, [Next]_vars PROVE TornInv'
  OBVIOUS
<1>1. TypeInv /\ TypeInv' /\ failed \subseteq failed'
  BY NextTypeInv, FaultsStay DEF TornInv
<1>2. ASSUME NEW n \in Shared, Write(n) PROVE TornInv'
  <2>1. /\ n \in Names
        /\ WriteTarget(n) \in Inodes /\ writes' \in 1 .. MaxWrites
        /\ dir' = [dir EXCEPT ![n] = WriteTarget(n)]
        /\ data' = [data EXCEPT ![WriteTarget(n)] = Plain(writes')]
        /\ UNCHANGED <<temps, pc, jobVars, alone, failed, raced>>
    BY <1>1, <1>2, WriteStep, NamesAssumption
  <2>2. Plain(writes') \in Contents /\ Plain(writes').origin # 0
    BY <2>1, ContentTypes
  <2>3. \A m \in Names : dir'[m] \in {dir[m], WriteTarget(n), NoFile}
    BY <1>1, <2>1 DEF TypeInv, TypeOK
  <2>4. PutsInto(WriteTarget(n), Plain(writes'))
    BY <2>1, <2>3 DEF PutsInto, jobVars
  <2> QED
    BY <1>1, <2>1, <2>2, <2>4, WrittenTorn
<1>3. ASSUME NEW n \in Shared, Delete(n) PROVE TornInv'
  <2>1. \A m \in Names : dir'[m] \in {dir[m], NoFile}
    BY <1>1, <1>3 DEF Delete, TypeInv, TypeOK
  <2>2. data' = data /\ pc' = pc /\ fd' = fd
    BY <1>3 DEF Delete, jobVars
  <2> QED
    BY <1>1, <2>1, <2>2, UnwrittenTorn
<1>4. ASSUME NEW j \in Jobs, NEW stage, stage \notin {"name", "commit", "copy", "fill"},
             Goto(j, stage), UNCHANGED <<dir, data>>,
             fd' = fd \/ \E n \in Names : fd' = [fd EXCEPT ![j] = dir[n]]
      PROVE  TornInv'
  <2>1. \A k \in Jobs : pc'[k] = pc[k] \/ pc'[k] \notin {"name", "commit", "copy", "fill"}
    BY <1>1, <1>4 DEF Goto, TypeInv, TypeOK
  <2>2. \A k \in Jobs : fd'[k] = fd[k] \/ \E n \in Names : fd'[k] = dir[n]
    BY <1>1, <1>4 DEF TypeInv, TypeOK
  <2> QED
    BY <1>1, <1>4, <2>1, <2>2, UnwrittenTorn
<1>5. ASSUME NEW j \in Jobs, NEW r \in Requests, Called(j, r) PROVE TornInv'
  BY <1>4, <1>5 DEF Called, diskVars
<1>6. ASSUME NEW j \in Jobs, Opens(j) PROVE TornInv'
  <2>1. req[j].input \in Names
    BY <1>1, <1>6, RequestsAssumption DEF TypeInv, JobOK, Opens
  <2> QED
    BY <1>4, <1>6, <2>1 DEF Opens, diskVars
<1>7. ASSUME NEW j \in Jobs, Moves(j) PROVE TornInv'
  <2>1. UNCHANGED <<dir, data, fd>>
    BY <1>1, <1>7, MovesKeep
  <2>2. CASE RenameFails(j)
    BY <1>1, <2>2 DEF RenameFails, Fault, TornInv
  <2>3. CASE CopyFails(j)
    BY <1>1, <2>3 DEF CopyFails, TornInv
  <2>4. CASE ~RenameFails(j) /\ ~CopyFails(j)
    <3>1. \E stage : stage \notin {"name", "commit", "copy", "fill"} /\ Goto(j, stage)
      BY <1>7, <2>4
      DEF Moves, CreatesTemp, FailsToCreate, AppliesKeyfiles, KeyfileFails, FailsToCleanUp,
          Stats, FailsToOverwrite, FailsToUnlink, Crash
    <3> QED
      BY <1>4, <2>1, <3>1
  <2> QED
    BY <2>2, <2>3, <2>4
<1>8. ASSUME NEW j \in Jobs, pc[j] = "transform", "rename" \notin failed,
             req[j].op = "decrypt" => IsContainer(data[fd[j]])
      PROVE  /\ Result(req[j], data[fd[j]]) \in Contents
             /\ Result(req[j], data[fd[j]]).origin # 0
  BY <1>1, <1>8, TransformedType DEF TornInv
<1>9. ASSUME NEW j \in Jobs, Transforms(j) PROVE TornInv'
  <2>1. /\ pc[j] = "transform" /\ UNCHANGED <<dir, fd>>
        /\ req[j].op = "decrypt" => IsContainer(data[fd[j]])
        /\ data' = [data EXCEPT ![Temp(j)] = Result(req[j], data[fd[j]])]
    BY <1>9 DEF Transforms
  <2>2. \A k \in Jobs : pc'[k] = pc[k] \/ (k = j /\ pc'[k] \in {"name", "commit"})
    <3>1. \E stage \in {"name", "commit"} : pc' = [pc EXCEPT ![j] = stage]
      BY <1>9 DEF Transforms, Goto
    <3> QED
      BY <1>1, <3>1 DEF TypeInv, TypeOK
  <2>3. CASE "rename" \notin failed
    <3>1. PutsInto(Temp(j), Result(req[j], data[fd[j]]))
      BY <2>1, <2>2 DEF PutsInto
    <3> QED
      BY <1>1, <1>8, <2>1, <2>3, <3>1, InodeTypes, WrittenTorn
  <2>4. CASE "rename" \in failed
    BY <1>1, <2>4 DEF TornInv
  <2> QED
    BY <2>3, <2>4
<1>10. ASSUME NEW j \in Jobs, TransformFails(j) PROVE TornInv'
  <2>1. pc[j] = "transform" /\ UNCHANGED <<dir, fd>> /\ Goto(j, "cleanup")
    BY <1>10 DEF TransformFails, AfterFailure, jobVars
  <2>2. \A k \in Jobs : pc'[k] = pc[k] \/ pc'[k] \notin {"name", "commit", "copy", "fill"}
    BY <1>1, <2>1 DEF Goto, TypeInv, TypeOK
  <2>3. CASE req[j].op = "decrypt" /\ ~IsContainer(data[fd[j]])
    BY <1>4, <1>10, <2>1, <2>3 DEF TransformFails
  <2>4. CASE /\ "rename" \notin failed
             /\ ~(req[j].op = "decrypt" /\ ~IsContainer(data[fd[j]]))
    <3>1. data' = [data EXCEPT ![Temp(j)] = Result(req[j], data[fd[j]])]
      BY <1>10, <2>4 DEF TransformFails
    <3>2. PutsInto(Temp(j), Result(req[j], data[fd[j]]))
      BY <2>1, <2>2, <3>1 DEF PutsInto
    <3> QED
      BY <1>1, <1>8, <2>1, <2>4, <3>2, InodeTypes, WrittenTorn
  <2>5. CASE "rename" \in failed
    BY <1>1, <2>5 DEF TornInv
  <2> QED
    BY <2>3, <2>4, <2>5
<1>11. ASSUME NEW j \in Jobs, CleansUp(j) PROVE TornInv'
  <2>1. /\ data' = [data EXCEPT ![Temp(j)] = Wiped] /\ UNCHANGED <<dir, fd>>
        /\ \A k \in Jobs : pc'[k] = pc[k] \/ pc'[k] = "failed"
    BY <1>1, <1>11 DEF CleansUp, Goto, TypeInv, TypeOK, jobVars
  <2>2. PutsInto(Temp(j), Wiped)
    BY <2>1 DEF PutsInto
  <2>3. Wiped \in Contents /\ Wiped.origin # 0
    BY ContentTypes, BoundsAssumption
  <2> QED
    BY <1>1, <2>2, <2>3, InodeTypes, WrittenTorn
<1>12. ASSUME NEW j \in Jobs, ChoosesName(j) PROVE TornInv'
  <2>1. /\ UNCHANGED <<dir, data, fd>>
        /\ \A k \in Jobs : pc'[k] = pc[k] \/ (pc[k] = "name" /\ pc'[k] = "commit")
    BY <1>1, <1>12 DEF ChoosesName, Goto, TypeInv, TypeOK, diskVars
  <2> QED
    BY <1>1, <2>1, UnwrittenTorn
<1>13. ASSUME NEW j \in Jobs, CommitsByRename(j) PROVE TornInv'
  <2>1. /\ UNCHANGED <<data, fd>> /\ pc[j] = "commit"
        /\ \A n \in Names : dir'[n] \in {dir[n], Temp(j)}
    BY <1>1, <1>13 DEF CommitsByRename, TypeInv, TypeOK, jobVars
  <2>2. \A k \in Jobs : pc'[k] = pc[k] \/ pc'[k] \notin {"name", "commit", "copy", "fill"}
    BY <1>1, <1>13 DEF CommitsByRename, AfterCommit, Goto, TypeInv, TypeOK
  <2> QED
    BY <1>1, <2>1, <2>2, UnwrittenTorn
<1>14. ASSUME NEW j \in Jobs, CopyStarts(j) \/ CopyEnds(j) PROVE TornInv'
  BY <1>1, <1>14 DEF CopyStarts, CopyEnds, TornInv
<1>15. ASSUME NEW j \in Jobs, Overwrites(j) PROVE TornInv'
  <2>1. req[j].input \in Names /\ dir[req[j].input] \in Inodes
    BY <1>1, <1>15, RequestsAssumption, OriginTypes DEF Overwrites, TypeInv, JobOK
  <2>2. /\ data' = [data EXCEPT ![dir[req[j].input]] = Wiped] /\ UNCHANGED <<dir, fd>>
        /\ \A k \in Jobs : pc'[k] = pc[k] \/ pc'[k] = "unlink"
    BY <1>1, <1>15 DEF Overwrites, Goto, TypeInv, TypeOK, jobVars
  <2>3. PutsInto(dir[req[j].input], Wiped)
    BY <2>2 DEF PutsInto
  <2>4. Wiped \in Contents /\ Wiped.origin # 0
    BY ContentTypes, BoundsAssumption
  <2> QED
    BY <1>1, <2>1, <2>3, <2>4, WrittenTorn
<1>16. ASSUME NEW j \in Jobs, Unlinks(j) PROVE TornInv'
  <2>1. /\ UNCHANGED <<data, fd>>
        /\ \A n \in Names : dir'[n] \in {dir[n], NoFile}
        /\ \A k \in Jobs : pc'[k] = pc[k] \/ pc'[k] = "done"
    BY <1>1, <1>16 DEF Unlinks, Goto, TypeInv, TypeOK, jobVars
  <2> QED
    BY <1>1, <2>1, UnwrittenTorn
<1>17. CASE UNCHANGED vars
  BY <1>1, <1>17 DEF vars, diskVars, jobVars, boundVars, TornInv
<1> QED
  BY <1>2, <1>3, <1>5, <1>6, <1>7, <1>9, <1>10, <1>11, <1>12, <1>13, <1>14, <1>15, <1>16,
     <1>17, NamesAssumption
  DEF Next, JobStep, Moves

\* commands/mod.rs, commit_file_atomic: as long as renames work, nobody sees an
\* incomplete file under a name, wherever commands fail, are interrupted by others
\* or crash.
THEOREM NoTornFile == Spec => []NeverTorn
<1>1. TornInv => NeverTorn
  <2> SUFFICES ASSUME TornInv, "rename" \notin failed, NEW n \in Names, Exists(n)
               PROVE  Content(n) # Blank
    BY DEF NeverTorn
  <2>1. dir[n] \in Inodes
    BY OriginTypes DEF TornInv
  <2> QED
    BY <2>1, ContentTypes DEF TornInv, Content
<1> QED
  BY <1>1, InitTornInv, NextTornInv, PTL DEF Spec

-----------------------------------------------------------------------------
(* No remnants.                                                             *)

Early == {"idle", "open", "create", "keyfile"}
Holding == {"keyfile", "transform", "cleanup", "name", "commit", "copy", "fill", "crashed"}

\* Nobody but its command can get at a temporary file.
Hidden(j) == (\A n \in Names : dir[n] # Temp(j)) /\ (\A k \in Jobs : fd[k] # Temp(j))

\* It is hidden as long as it has its own name, empty before it is filled, and as
\* long as files can be removed only a command that is at work on it or ended by a
\* crash has one, or one whose keyfile could not be read, with nothing in it.
TempOK(j) ==
  /\ j \in temps \/ pc[j] \in Early => Hidden(j)
  /\ pc[j] \in Early => data[Temp(j)] = Blank
  /\ pc[j] \in {"idle", "open", "create"} => j \notin temps
  /\ "unlink" \notin failed /\ j \in temps =>
       pc[j] \in Holding \/ (pc[j] = "failed" /\ data[Temp(j)] = Blank /\ "keyfile" \in failed)

RemnantInv == TypeInv /\ \A j \in Jobs : TempOK(j)

\* What a step does to a temporary file that is not its own.
Spares(k) == Hidden(k) => Hidden(k)' /\ data'[Temp(k)] = data[Temp(k)]

LEMMA InitRemnantInv == Init => RemnantInv
<1> SUFFICES ASSUME Init PROVE RemnantInv
  OBVIOUS
<1>1. TypeInv
  BY InitTypeInv
<1>2. ASSUME NEW j \in Jobs, NEW n \in Names PROVE dir[n] # Temp(j)
  <2>1. n \in Filled => Before[n].origin \in 1 .. MaxWrites
    BY BeforeTypes
  <2> QED
    BY <2>1, InodeTypes DEF Init
<1>3. ASSUME NEW j \in Jobs PROVE TempOK(j)
  <2>1. fd = [k \in Jobs |-> NoFile] /\ pc[j] = "idle" /\ temps = {}
    BY DEF Init
  <2>2. Hidden(j)
    BY <1>2, <2>1, InodeTypes DEF Hidden
  <2>3. data[Temp(j)] = Blank
    BY <1>2, InodeTypes DEF Init
  <2> QED
    BY <2>1, <2>2, <2>3 DEF TempOK
<1> QED
  BY <1>1, <1>3 DEF RemnantInv

\* A command whose own state stays and whose temporary file is spared.
LEMMA BystanderTemp ==
  ASSUME RemnantInv, failed \subseteq failed', NEW k \in Jobs, pc'[k] = pc[k],
         k \in temps' <=> k \in temps, Spares(k)
  PROVE  TempOK(k)'
  BY DEF RemnantInv, TempOK, Spares

\* Contents go only to what others can reach, and others come to reach only what
\* they could reach before or was made for them.
LEMMA SparingWrite ==
  ASSUME TypeInv, NEW k \in Jobs, NEW i \in Inodes, NEW c, i # Temp(k),
         data' = [data EXCEPT ![i] = c],
         \A n \in Names : dir'[n] \in {dir[n], i, NoFile},
         \A j \in Jobs : fd'[j] \in {fd[j], i}
  PROVE  Spares(k)
  BY InodeTypes DEF Spares, Hidden, TypeInv, TypeOK

LEMMA SparingMove ==
  ASSUME NEW k \in Jobs, data' = data,
         \A n \in Names : dir'[n] = dir[n] \/ dir'[n] # Temp(k),
         \A j \in Jobs : fd'[j] = fd[j] \/ \E n \in Names : fd'[j] = dir[n]
  PROVE  Spares(k)
  BY DEF Spares, Hidden

LEMMA WriteSpares ==
  ASSUME TypeInv, NEW n \in Names, Write(n), NEW k \in Jobs
  PROVE  Spares(k)
<1>1. /\ WriteTarget(n) \in Inodes /\ writes' \in 1 .. MaxWrites
      /\ dir' = [dir EXCEPT ![n] = WriteTarget(n)]
      /\ data' = [data EXCEPT ![WriteTarget(n)] = Plain(writes')]
      /\ UNCHANGED <<temps, pc, jobVars, alone, failed, raced>>
  BY WriteStep
<1>2. CASE WriteTarget(n) = Temp(k)
  BY <1>1, <1>2, InodeTypes DEF WriteTarget, Spares, Hidden
<1>3. CASE WriteTarget(n) # Temp(k)
  <2>1. \A m \in Names : dir'[m] \in {dir[m], WriteTarget(n), NoFile}
    BY <1>1 DEF TypeInv, TypeOK
  <2>2. \A j \in Jobs : fd'[j] \in {fd[j], WriteTarget(n)}
    BY <1>1 DEF jobVars
  <2> QED
    BY <1>1, <1>3, <2>1, <2>2, SparingWrite
<1> QED
  BY <1>2, <1>3

\* The steps of a command on its own temporary file.
LEMMA OwnWriteSpares ==
  ASSUME TypeInv, NEW j \in Jobs, Transforms(j) \/ TransformFails(j) \/ CleansUp(j),
         NEW k \in Jobs, k # j
  PROVE  Spares(k)
<1>1. dir' = dir /\ fd' = fd
  BY DEF Transforms, TransformFails, CleansUp, jobVars
<1>2. data' = data \/ \E c : data' = [data EXCEPT ![Temp(j)] = c]
  BY DEF Transforms, TransformFails, CleansUp
<1>3. Temp(j) # Temp(k) /\ Temp(j) \in Inodes
  BY InodeTypes
<1>4. CASE data' = data
  BY <1>1, <1>4, SparingMove
<1>5. CASE \E c : data' = [data EXCEPT ![Temp(j)] = c]
  BY <1>1, <1>3, <1>5 DEF Spares, Hidden, TypeInv, TypeOK
<1> QED
  BY <1>2, <1>4, <1>5

LEMMA CopySpares ==
  ASSUME TypeInv, NEW j \in Jobs, CopyStarts(j) \/ CopyEnds(j), NEW k \in Jobs
  PROVE  Spares(k)
<1>1. CASE CopyStarts(j)
  <2>1. /\ out[j] \in Names /\ CopyTarget(j) \in Inodes
        /\ dir' = [dir EXCEPT ![out[j]] = CopyTarget(j)]
        /\ data' = [data EXCEPT ![CopyTarget(j)] = Blank]
        /\ fd' = [fd EXCEPT ![j] = CopyTarget(j)]
    BY <1>1, CopyStartsStep
  <2>2. CASE CopyTarget(j) = Temp(k)
    BY <2>1, <2>2, InodeTypes DEF CopyTarget, Spares, Hidden
  <2>3. CASE CopyTarget(j) # Temp(k)
    <3>1. \A n \in Names : dir'[n] \in {dir[n], CopyTarget(j), NoFile}
      BY <2>1 DEF TypeInv, TypeOK
    <3>2. \A m \in Jobs : fd'[m] \in {fd[m], CopyTarget(j)}
      BY <2>1 DEF TypeInv, TypeOK
    <3> QED
      BY <2>1, <2>3, <3>1, <3>2, SparingWrite
  <2> QED
    BY <2>2, <2>3
<1>2. CASE CopyEnds(j)
  <2>1. /\ fd[j] \in Inodes /\ data' = [data EXCEPT ![fd[j]] = data[Temp(j)]]
        /\ dir' = dir /\ fd' = fd
    BY <1>2, CopyEndsStep DEF CopyEnds, jobVars
  <2>2. CASE fd[j] = Temp(k)
    BY <2>2 DEF Spares, Hidden
  <2>3. CASE fd[j] # Temp(k)
    BY <2>1, <2>3, SparingWrite
  <2> QED
    BY <2>2, <2>3
<1> QED
  BY <1>1, <1>2

LEMMA RestSpares ==
  ASSUME TypeInv, NEW j \in Jobs, NEW k \in Jobs,
         \/ \E r \in Requests : Called(j, r)
         \/ Opens(j) \/ ChoosesName(j) \/ Overwrites(j) \/ Unlinks(j) \/ Moves(j)
         \/ CommitsByRename(j) /\ k # j
  PROVE  Spares(k)
<1>1. CASE ChoosesName(j) \/ Moves(j) \/ \E r \in Requests : Called(j, r)
  <2>1. UNCHANGED <<dir, data, fd>>
    BY <1>1, MovesKeep DEF Called, ChoosesName, diskVars
  <2> QED
    BY <2>1, SparingMove
<1>2. CASE Opens(j)
  <2>1. req[j].input \in Names
    BY <1>2, RequestsAssumption DEF Opens, TypeInv, JobOK
  <2>2. /\ UNCHANGED <<dir, data>>
        /\ \A m \in Jobs : fd'[m] = fd[m] \/ \E n \in Names : fd'[m] = dir[n]
    BY <1>2, <2>1 DEF Opens, TypeInv, TypeOK, diskVars
  <2> QED
    BY <2>2, SparingMove
<1>3. CASE Overwrites(j)
  <2>1. req[j].input \in Names /\ dir[req[j].input] \in Inodes
    BY <1>3, RequestsAssumption, OriginTypes DEF Overwrites, TypeInv, JobOK
  <2>2. data' = [data EXCEPT ![dir[req[j].input]] = Wiped] /\ dir' = dir /\ fd' = fd
    BY <1>3 DEF Overwrites, jobVars
  <2>3. CASE dir[req[j].input] = Temp(k)
    BY <2>1, <2>3 DEF Spares, Hidden
  <2>4. CASE dir[req[j].input] # Temp(k)
    BY <2>1, <2>2, <2>4, SparingWrite
  <2> QED
    BY <2>3, <2>4
<1>4. CASE Unlinks(j)
  <2>1. /\ UNCHANGED <<data, fd>>
        /\ \A n \in Names : dir'[n] = dir[n] \/ dir'[n] = NoFile
    BY <1>4 DEF Unlinks, TypeInv, TypeOK, jobVars
  <2>2. Temp(k) # NoFile
    BY InodeTypes
  <2> QED
    BY <2>1, <2>2, SparingMove
<1>5. CASE CommitsByRename(j) /\ k # j
  <2>1. /\ UNCHANGED <<data, fd>>
        /\ \A n \in Names : dir'[n] = dir[n] \/ dir'[n] = Temp(j)
    BY <1>5 DEF CommitsByRename, TypeInv, TypeOK, jobVars
  <2>2. Temp(k) # Temp(j)
    BY <1>5, InodeTypes
  <2> QED
    BY <2>1, <2>2, SparingMove
<1> QED
  BY <1>1, <1>2, <1>3, <1>4, <1>5

\* The temporary file of the command that takes a step.
LEMMA OwnTemp ==
  ASSUME RemnantInv, TypeInv', failed \subseteq failed', NEW j \in Jobs, JobStep(j) \/ Crash(j)
  PROVE  TempOK(j)'
<1>0. TypeInv /\ TempOK(j)
  BY DEF RemnantInv
<1>1. ASSUME NEW stage, pc'[j] = stage, stage \notin Early, Spares(j),
             j \in temps' <=> j \in temps,
             "unlink" \notin failed' /\ j \in temps =>
               \/ stage \in Holding
               \/ stage = "failed" /\ data[Temp(j)] = Blank /\ "keyfile" \in failed'
      PROVE  TempOK(j)'
  BY <1>0, <1>1 DEF TempOK, Spares, Early
<1>2. ASSUME NEW stage, pc'[j] = stage, stage \notin Early, j \notin temps'
      PROVE  TempOK(j)'
  BY <1>2 DEF TempOK, Early
<1>3. ASSUME NEW r \in Requests, Called(j, r) PROVE TempOK(j)'
  <2>1. Spares(j)
    BY <1>0, <1>3, RestSpares
  <2>2. pc[j] = "idle" /\ pc'[j] \in {"open", "shred", "failed"} /\ temps' = temps
    BY <1>0, <1>3 DEF Called, Goto, TypeInv, TypeOK, diskVars
  <2> QED
    BY <1>0, <2>1, <2>2 DEF TempOK, Spares, Early
<1>4. CASE Opens(j)
  <2>1. Spares(j)
    BY <1>0, <1>4, RestSpares
  <2>2. pc[j] = "open" /\ pc'[j] \in {"create", "failed"} /\ temps' = temps
    BY <1>0, <1>4 DEF Opens, Goto, TypeInv, TypeOK, diskVars
  <2> QED
    BY <1>0, <2>1, <2>2 DEF TempOK, Spares, Early
<1>5. CASE Moves(j)
  <2>1. Spares(j)
    BY <1>0, <1>5, RestSpares
  <2>2. CASE CreatesTemp(j)
    <3>1. pc[j] = "create" /\ pc'[j] = "keyfile"
      BY <1>0, <2>2 DEF CreatesTemp, Goto, TypeInv, TypeOK
    <3> QED
      BY <1>0, <2>1, <3>1 DEF TempOK, Spares, Early, Holding
  <2>3. CASE FailsToCleanUp(j)
    <3>1. "unlink" \in failed' /\ pc'[j] = "failed" /\ temps' = temps
      BY <1>0, <2>3 DEF FailsToCleanUp, Goto, Fault, TypeInv, TypeOK, diskVars
    <3> QED
      BY <1>1, <2>1, <3>1 DEF Early
  <2>4. CASE KeyfileFails(j)
    <3>1. pc[j] = "keyfile" /\ pc'[j] = "failed" /\ temps' = temps /\ "keyfile" \in failed'
      BY <1>0, <2>4 DEF KeyfileFails, Goto, Fault, TypeInv, TypeOK, diskVars
    <3> QED
      BY <1>0, <1>1, <2>1, <3>1 DEF TempOK, Early
  <2>5. CASE AppliesKeyfiles(j) \/ RenameFails(j) \/ CopyFails(j) \/ Crash(j)
    <3>1. pc'[j] \in Holding \ Early /\ temps' = temps
      BY <1>0, <2>5
      DEF AppliesKeyfiles, RenameFails, CopyFails, Crash, AfterFailure, Goto, TypeInv, TypeOK,
          diskVars, Holding, Early
    <3> QED
      BY <1>1, <2>1, <3>1
  <2>6. CASE FailsToCreate(j) \/ Stats(j) \/ FailsToOverwrite(j) \/ FailsToUnlink(j)
    <3>1. /\ pc[j] \in {"create", "stat", "shred", "unlink"}
          /\ pc'[j] \in {"failed", "shred", "done"}
          /\ temps' = temps
      BY <1>0, <2>6
      DEF FailsToCreate, Stats, FailsToOverwrite, FailsToUnlink, Goto, TypeInv, TypeOK, diskVars
    <3>2. "unlink" \notin failed' => j \notin temps
      BY <1>0, <3>1 DEF TempOK, Holding
    <3> QED
      BY <1>1, <2>1, <3>1, <3>2 DEF Early
  <2> QED
    BY <1>5, <2>2, <2>3, <2>4, <2>5, <2>6 DEF Moves
<1>6. CASE Transforms(j) \/ TransformFails(j)
  <2>1. /\ pc[j] = "transform" /\ pc'[j] \in {"name", "commit", "cleanup"}
        /\ UNCHANGED <<dir, fd, temps>>
    BY <1>0, <1>6
    DEF Transforms, TransformFails, AfterFailure, Goto, TypeInv, TypeOK, jobVars
  <2> QED
    BY <1>0, <2>1 DEF TempOK, Hidden, Early, Holding
<1>7. CASE CleansUp(j) \/ CommitsByRename(j)
  <2>1. pc'[j] \in {"failed", "stat", "shred", "done"} /\ j \notin temps'
    BY <1>0, <1>7 DEF CleansUp, CommitsByRename, AfterCommit, Goto, TypeInv, TypeOK
  <2> QED
    BY <1>2, <2>1 DEF Early
<1>8. CASE ChoosesName(j)
  <2>1. Spares(j)
    BY <1>0, <1>8, RestSpares
  <2>2. pc'[j] = "commit" /\ temps' = temps
    BY <1>0, <1>8 DEF ChoosesName, Goto, TypeInv, TypeOK, diskVars
  <2> QED
    BY <1>1, <2>1, <2>2 DEF Early, Holding
<1>9. CASE CopyStarts(j)
  <2>1. Spares(j)
    BY <1>0, <1>9, CopySpares
  <2>2. pc'[j] = "fill" /\ temps' = temps
    BY <1>0, <1>9 DEF CopyStarts, Goto, TypeInv, TypeOK
  <2> QED
    BY <1>1, <2>1, <2>2 DEF Early, Holding
<1>10. CASE CopyEnds(j)
  <2>1. Spares(j)
    BY <1>0, <1>10, CopySpares
  <2>2. pc'[j] \in {"stat", "shred", "done"}
    BY <1>0, <1>10 DEF CopyEnds, AfterCommit, Goto, TypeInv, TypeOK
  <2>3. /\ temps' \in {temps, temps \ {j}}
        /\ temps' = temps => "unlink" \in failed' \/ j \notin temps
    BY <1>0, <1>10, CopyEndsStep
  <2> QED
    BY <1>1, <1>2, <2>1, <2>2, <2>3 DEF Early
<1>11. CASE Overwrites(j) \/ Unlinks(j)
  <2>1. Spares(j)
    BY <1>0, <1>11, RestSpares
  <2>2. /\ pc[j] \in {"shred", "unlink"} /\ pc'[j] \in {"unlink", "done"}
        /\ temps' = temps
    BY <1>0, <1>11 DEF Overwrites, Unlinks, Goto, TypeInv, TypeOK
  <2>3. "unlink" \notin failed' => j \notin temps
    BY <1>0, <2>2 DEF TempOK, Holding
  <2> QED
    BY <1>1, <2>1, <2>2, <2>3 DEF Early
<1> QED
  BY <1>3, <1>4, <1>5, <1>6, <1>7, <1>8, <1>9, <1>10, <1>11 DEF JobStep, Moves

\* The other commands while one takes a step.
LEMMA OthersKeep ==
  ASSUME TypeInv, NEW j \in Jobs, JobStep(j) \/ Crash(j), NEW k \in Jobs, k # j
  PROVE  pc'[k] = pc[k] /\ (k \in temps' <=> k \in temps) /\ Spares(k)
<1>1. \E stage : pc' = [pc EXCEPT ![j] = stage]
  BY DEF JobStep, Called, Opens, CreatesTemp, FailsToCreate, AppliesKeyfiles, KeyfileFails,
      Transforms, TransformFails, CleansUp, FailsToCleanUp, ChoosesName, CommitsByRename,
      RenameFails, CopyStarts, CopyEnds, CopyFails, Stats, Overwrites, FailsToOverwrite,
      Unlinks, FailsToUnlink, Crash, Goto
<1>2. temps' \in {temps, temps \cup {j}, temps \ {j}}
  BY DEF JobStep, Called, Opens, CreatesTemp, FailsToCreate, AppliesKeyfiles, KeyfileFails,
      Transforms, TransformFails, CleansUp, FailsToCleanUp, ChoosesName, CommitsByRename,
      RenameFails, CopyStarts, CopyEnds, CopyFails, Stats, Overwrites, FailsToOverwrite,
      Unlinks, FailsToUnlink, Crash, diskVars
<1>3. Spares(k)
  BY OwnWriteSpares, CopySpares, RestSpares DEF JobStep, Moves
<1> QED
  BY <1>1, <1>2, <1>3 DEF TypeInv, TypeOK

LEMMA NextRemnantInv == RemnantInv /\ [Next]_vars => RemnantInv'
<1> SUFFICES ASSUME RemnantInv, [Next]_vars PROVE RemnantInv'
  OBVIOUS
<1>1. TypeInv /\ TypeInv' /\ failed \subseteq failed'
  BY NextTypeInv, FaultsStay DEF RemnantInv
<1>2. ASSUME NEW n \in Shared, Write(n) \/ Delete(n), NEW k \in Jobs PROVE TempOK(k)'
  <2>1. pc' = pc /\ temps' = temps
    BY <1>2 DEF Write, Delete
  <2>2. CASE Write(n)
    BY <1>1, <2>1, <2>2, NamesAssumption, WriteSpares, BystanderTemp
  <2>3. CASE Delete(n)
    <3>1. /\ UNCHANGED <<data, fd>>
          /\ \A m \in Names : dir'[m] = dir[m] \/ dir'[m] = NoFile
      BY <1>1, <2>3 DEF Delete, TypeInv, TypeOK, jobVars
    <3>2. Temp(k) # NoFile
      BY InodeTypes
    <3>3. Spares(k)
      BY <3>1, <3>2, SparingMove
    <3> QED
      BY <1>1, <2>1, <3>3, BystanderTemp
  <2> QED
    BY <1>2, <2>2, <2>3
<1>3. ASSUME NEW j \in Jobs, JobStep(j) \/ Crash(j), NEW k \in Jobs PROVE TempOK(k)'
  <2>1. CASE k = j
    BY <1>1, <1>3, <2>1, OwnTemp
  <2>2. CASE k # j
    BY <1>1, <1>3, <2>2, OthersKeep, BystanderTemp
  <2> QED
    BY <2>1, <2>2
<1>4. CASE UNCHANGED vars
  BY <1>1, <1>4 DEF vars, diskVars, jobVars, boundVars, RemnantInv, TempOK, Hidden
<1> QED
  BY <1>1, <1>2, <1>3, <1>4 DEF Next, RemnantInv

\* commands/mod.rs: a command that has returned leaves no temporary file but an empty
\* one after a keyfile error (591), as long as files can be removed, whatever else
\* fails and whoever works in the directory at the same time.
THEOREM NoRemnantsStay == Spec => []NoRemnants
<1>1. RemnantInv => NoRemnants
  BY DEF RemnantInv, TypeInv, TypeOK, TempOK, NoRemnants, Returned, Holding
<1> QED
  BY <1>1, InitRemnantInv, NextRemnantInv, PTL DEF Spec

-----------------------------------------------------------------------------
(* Nothing is lost: what is where.                                          *)

\* The stages up to the copy, which may make an inode of its own, and those
\* between the stream and the end of the commit.
BeforeCopy == Early \cup {"transform", "name", "commit", "copy"}
Streamed == {"name", "commit", "copy", "fill"}

\* Origins that there are so far.
Known == (0 .. writes) \cup {MaxWrites + 1}

\* No file has two names, and inodes that are still to be made have none.
DirOK ==
  /\ \A m, n \in Names : Exists(m) /\ dir[m] = dir[n] => m = n
  /\ \A n \in Names, v \in 1 .. MaxWrites : dir[n] = <<"write", v>> => v <= writes

OriginsOK ==
  /\ \A i \in Inodes : data[i].origin \in Known
  /\ \A j \in Jobs : read[j].origin \in Known

\* A command has its temporary file until the commit is over, and in it what it
\* has made of what it has read.
PlaceOK(j) ==
  /\ pc[j] \in Holding \ {"crashed"} => j \in temps
  /\ pc[j] \in Streamed => data[Temp(j)].origin = read[j].origin
  /\ pc[j] \in BeforeCopy => \A n \in Names : dir[n] # Copy(j)

PlacesInv == RemnantInv /\ DirOK /\ OriginsOK /\ \A j \in Jobs : PlaceOK(j)

LEMMA InitPlacesInv == Init => PlacesInv
<1> SUFFICES ASSUME Init PROVE PlacesInv
  OBVIOUS
<1>1. RemnantInv /\ TypeInv
  BY InitRemnantInv, InitTypeInv
<1>2. \A n \in Filled : Before[n].origin \in 1 .. writes /\ writes \in 0 .. MaxWrites
  <2>1. {Before[n].origin : n \in Filled} = 1 .. writes /\ writes \in 0 .. MaxWrites
    BY DEF Init
  <2>2. \A n \in Filled : Before[n].origin \in {Before[m].origin : m \in Filled}
    OBVIOUS
  <2> QED
    BY <2>1, <2>2
<1>3. \A n \in Names : dir[n] = NoFile \/ (n \in Filled /\ dir[n] = <<"write", Before[n].origin>>)
  BY DEF Init
<1>4. DirOK
  <2>1. ASSUME NEW m \in Names, NEW n \in Names, Exists(m), dir[m] = dir[n] PROVE m = n
    <3>1. m \in Filled /\ n \in Filled /\ Before[m].origin = Before[n].origin
      BY <1>3, <2>1 DEF Exists
    <3> QED
      BY <3>1, BeforeAssumption
  <2>2. ASSUME NEW n \in Names, NEW v \in 1 .. MaxWrites, dir[n] = <<"write", v>>
        PROVE  v <= writes
    <3>1. dir[n] # NoFile
      BY <2>2, InodeTypes
    <3>2. n \in Filled /\ dir[n] = <<"write", Before[n].origin>>
      BY <1>3, <3>1
    <3>3. <<"write", Before[n].origin>>[2] = <<"write", v>>[2]
      BY <2>2, <3>2
    <3>4. Before[n].origin = v
      BY <3>3
    <3> QED
      BY <1>2, <3>2, <3>4
  <2> QED
    BY <2>1, <2>2 DEF DirOK
<1>5. OriginsOK
  <2>1. ASSUME NEW i \in Inodes PROVE data[i].origin \in Known
    <3>1. CASE \E n \in Names : dir[n] = i
      <4> DEFINE m == CHOOSE n \in Names : dir[n] = i
      <4>1. m \in Names /\ dir[m] = i
        BY <3>1
      <4>2. m \in Filled
        BY <1>3, <4>1, InodeTypes
      <4>3. data[i] = Before[m]
        BY <3>1 DEF Init
      <4> QED
        BY <1>2, <4>2, <4>3 DEF Known
    <3>2. CASE ~ \E n \in Names : dir[n] = i
      <4>1. data[i] = Blank
        BY <3>2 DEF Init
      <4> QED
        BY <1>1, <4>1, ContentTypes DEF Known, TypeInv, TypeOK
    <3> QED
      BY <3>1, <3>2
  <2>2. ASSUME NEW j \in Jobs PROVE read[j].origin \in Known
    BY <1>1, ContentTypes DEF Init, Known, TypeInv, TypeOK
  <2> QED
    BY <2>1, <2>2 DEF OriginsOK
<1>6. ASSUME NEW j \in Jobs PROVE PlaceOK(j)
  <2>1. pc[j] = "idle"
    BY DEF Init
  <2>2. \A n \in Names : dir[n] # Copy(j)
    BY <1>3, NoFileAssumption DEF Copy, Inodes
  <2> QED
    BY <2>1, <2>2 DEF PlaceOK, Holding, Streamed
<1> QED
  BY <1>1, <1>4, <1>5, <1>6 DEF PlacesInv

\* Steps that change no name.
LEMMA DirStays ==
  ASSUME DirOK, dir' = dir, writes' = writes
  PROVE  DirOK'
  BY DEF DirOK, Exists

\* A name that comes to lead to nothing, to where it led before, or to where no
\* name led.
Leads(n, i) ==
  /\ dir' = [dir EXCEPT ![n] = i]
  /\ i = NoFile \/ i = dir[n] \/ \A m \in Names : dir[m] # i
  /\ \A v \in 1 .. MaxWrites : i = <<"write", v>> => v <= writes'

LEMMA OneNameMoves ==
  ASSUME TypeInv, DirOK, NEW n \in Names, NEW i, Leads(n, i),
         writes' \in {writes, writes + 1}
  PROVE  DirOK'
<1>1. \A m \in Names : dir'[m] = IF m = n THEN i ELSE dir[m]
  BY DEF Leads, TypeInv, TypeOK
<1>2. ASSUME NEW m \in Names, NEW k \in Names, dir'[m] # NoFile, dir'[m] = dir'[k]
      PROVE  m = k
  BY <1>1, <1>2 DEF Leads, DirOK, Exists
<1>3. ASSUME NEW m \in Names, NEW v \in 1 .. MaxWrites, dir'[m] = <<"write", v>>
      PROVE  v <= writes'
  <2>1. CASE m = n
    BY <1>1, <1>3, <2>1 DEF Leads
  <2>2. CASE m # n
    <3>1. v <= writes
      BY <1>1, <1>3, <2>2 DEF DirOK
    <3>2. v \in Nat /\ writes \in Nat
      BY BoundsAssumption DEF TypeInv, TypeOK
    <3> QED
      BY <3>1, <3>2
  <2> QED
    BY <2>1, <2>2
<1> QED
  BY <1>2, <1>3 DEF DirOK, Exists

LEMMA NoWriteAtNoFile == \A v \in 1 .. MaxWrites : NoFile # <<"write", v>>
  BY InodeTypes

LEMMA NextDirOK ==
  ASSUME PlacesInv, [Next]_vars
  PROVE  DirOK'
<1>1. TypeInv /\ DirOK /\ writes \in Nat /\ \A j \in Jobs : TempOK(j) /\ PlaceOK(j)
  BY DEF PlacesInv, RemnantInv, TypeInv, TypeOK
<1>2. ASSUME NEW n \in Shared, Write(n) PROVE DirOK'
  <2>1. /\ n \in Names
        /\ dir' = [dir EXCEPT ![n] = WriteTarget(n)]
        /\ writes' = writes + 1 /\ writes' \in 1 .. MaxWrites
    BY <1>1, <1>2, WriteStep, NamesAssumption DEF Write
  <2>2. CASE Exists(n)
    <3>1. WriteTarget(n) = dir[n]
      BY <2>2 DEF WriteTarget
    <3>2. ASSUME NEW v \in 1 .. MaxWrites, dir[n] = <<"write", v>> PROVE v <= writes'
      <4>1. v <= writes
        BY <1>1, <2>1, <3>2 DEF DirOK
      <4> QED
        BY <1>1, <2>1, <4>1, BoundsAssumption
    <3>3. Leads(n, dir[n])
      BY <2>1, <3>1, <3>2 DEF Leads
    <3> QED
      BY <1>1, <2>1, <3>3, OneNameMoves
  <2>3. CASE ~Exists(n)
    <3>1. WriteTarget(n) = <<"write", writes'>>
      BY <2>3 DEF WriteTarget
    <3>2. ASSUME NEW m \in Names, dir[m] = <<"write", writes'>> PROVE FALSE
      <4>1. writes' <= writes
        BY <1>1, <2>1, <3>2 DEF DirOK
      <4> QED
        BY <1>1, <2>1, <4>1
    <3>3. ASSUME NEW v \in 1 .. MaxWrites, <<"write", writes'>> = <<"write", v>>
          PROVE  v <= writes'
      <4>1. <<"write", writes'>>[2] = <<"write", v>>[2]
        BY <3>3
      <4> QED
        BY <2>1, <4>1, BoundsAssumption
    <3>4. Leads(n, <<"write", writes'>>)
      BY <2>1, <3>1, <3>2, <3>3 DEF Leads
    <3> QED
      BY <1>1, <2>1, <3>4, OneNameMoves
  <2> QED
    BY <2>2, <2>3
<1>3. ASSUME NEW n \in Shared, Delete(n) PROVE DirOK'
  <2>1. n \in Names /\ dir' = [dir EXCEPT ![n] = NoFile] /\ writes' = writes
    BY <1>3, NamesAssumption DEF Delete, boundVars
  <2>2. Leads(n, NoFile)
    BY <2>1, NoWriteAtNoFile DEF Leads
  <2> QED
    BY <1>1, <2>1, <2>2, OneNameMoves
<1>4. ASSUME NEW j \in Jobs, CommitsByRename(j) PROVE DirOK'
  <2>1. /\ out[j] \in Names /\ pc[j] = "commit"
        /\ dir' = [dir EXCEPT ![out[j]] = Temp(j)] /\ writes' = writes
    BY <1>1, <1>4 DEF CommitsByRename, TypeInv, JobOK, WithName, boundVars
  <2>2. \A n \in Names : dir[n] # Temp(j)
    BY <1>1, <2>1 DEF PlaceOK, TempOK, Hidden, Holding
  <2>3. \A v \in 1 .. MaxWrites : Temp(j) # <<"write", v>>
    BY InodeTypes
  <2>4. Leads(out[j], Temp(j))
    BY <2>1, <2>2, <2>3 DEF Leads
  <2> QED
    BY <1>1, <2>1, <2>4, OneNameMoves
<1>5. ASSUME NEW j \in Jobs, CopyStarts(j) PROVE DirOK'
  <2>1. /\ out[j] \in Names /\ pc[j] = "copy" /\ writes' = writes
        /\ dir' = [dir EXCEPT ![out[j]] = CopyTarget(j)]
    BY <1>1, <1>5, CopyStartsStep DEF CopyStarts, boundVars
  <2>2. CASE Exists(out[j])
    <3>1. CopyTarget(j) = dir[out[j]]
      BY <2>2 DEF CopyTarget
    <3>2. Leads(out[j], dir[out[j]])
      BY <1>1, <2>1, <3>1 DEF Leads, DirOK
    <3> QED
      BY <1>1, <2>1, <3>2, OneNameMoves
  <2>3. CASE ~Exists(out[j])
    <3>1. CopyTarget(j) = Copy(j) /\ \A n \in Names : dir[n] # Copy(j)
      BY <1>1, <2>1, <2>3 DEF CopyTarget, PlaceOK, BeforeCopy
    <3>2. \A v \in 1 .. MaxWrites : Copy(j) # <<"write", v>>
      BY DEF Copy
    <3>3. Leads(out[j], Copy(j))
      BY <2>1, <3>1, <3>2 DEF Leads
    <3> QED
      BY <1>1, <2>1, <3>3, OneNameMoves
  <2> QED
    BY <2>2, <2>3
<1>6. ASSUME NEW j \in Jobs, Unlinks(j) PROVE DirOK'
  <2>1. req[j].input \in Names
    BY <1>1, <1>6, RequestsAssumption DEF Unlinks, TypeInv, JobOK
  <2>2. dir' = [dir EXCEPT ![req[j].input] = NoFile] /\ writes' = writes
    BY <1>6 DEF Unlinks, boundVars
  <2>3. Leads(req[j].input, NoFile)
    BY <2>2, NoWriteAtNoFile DEF Leads
  <2> QED
    BY <1>1, <2>1, <2>2, <2>3, OneNameMoves
<1>7. ASSUME NEW j \in Jobs, JobStep(j) \/ Crash(j),
             ~CommitsByRename(j), ~CopyStarts(j), ~Unlinks(j)
      PROVE  DirOK'
  <2>1. dir' = dir /\ writes' = writes
    BY <1>7
    DEF JobStep, Called, Opens, CreatesTemp, FailsToCreate, AppliesKeyfiles, KeyfileFails,
        Transforms, TransformFails, CleansUp, FailsToCleanUp, ChoosesName, RenameFails,
        CopyEnds, CopyFails, Stats, Overwrites, FailsToOverwrite, FailsToUnlink, Crash,
        Fault, diskVars, boundVars
  <2> QED
    BY <1>1, <2>1, DirStays
<1>8. CASE UNCHANGED vars
  BY <1>1, <1>8, DirStays DEF vars, diskVars, boundVars
<1> QED
  BY <1>2, <1>3, <1>4, <1>5, <1>6, <1>7, <1>8 DEF Next

\* Contents are made of what was read, of what is written, or of nothing.
LEMMA NextOriginsOK ==
  ASSUME PlacesInv, [Next]_vars
  PROVE  OriginsOK'
<1>1. /\ TypeInv /\ OriginsOK
      /\ writes \in Nat /\ MaxWrites \in Nat /\ writes' \in {writes, writes + 1}
  <2>1. TypeInv /\ OriginsOK /\ writes \in Nat /\ MaxWrites \in Nat
    BY BoundsAssumption DEF PlacesInv, RemnantInv, TypeInv, TypeOK
  <2>2. writes' \in {writes, writes + 1}
    BY DEF Next, Write, Delete, JobStep, Called, Opens, CreatesTemp, FailsToCreate,
        AppliesKeyfiles, KeyfileFails, Transforms, TransformFails, CleansUp, FailsToCleanUp,
        ChoosesName, CommitsByRename, RenameFails, CopyStarts, CopyEnds, CopyFails, Stats,
        Overwrites, FailsToOverwrite, Unlinks, FailsToUnlink, Crash, Fault, boundVars, vars
  <2> QED
    BY <2>1, <2>2
<1>2. Known \subseteq Known' /\ 0 \in Known' /\ MaxWrites + 1 \in Known' /\ writes' \in Known'
  BY <1>1 DEF Known
<1>3. ASSUME data' = data, read' = read PROVE OriginsOK'
  BY <1>1, <1>2, <1>3 DEF OriginsOK
<1>4. ASSUME NEW i \in Inodes, NEW c, c.origin \in Known', data' = [data EXCEPT ![i] = c],
             \A j \in Jobs : read'[j] = read[j] \/ read'[j] = c
      PROVE  OriginsOK'
  BY <1>1, <1>2, <1>4 DEF OriginsOK, TypeInv, TypeOK
<1>5. ASSUME NEW n \in Shared, Write(n) PROVE OriginsOK'
  <2>1. /\ WriteTarget(n) \in Inodes /\ writes' \in 1 .. MaxWrites
        /\ data' = [data EXCEPT ![WriteTarget(n)] = Plain(writes')] /\ read' = read
    BY <1>1, <1>5, WriteStep, NamesAssumption DEF jobVars
  <2>2. Plain(writes').origin \in Known'
    BY <1>2 DEF Plain
  <2> QED
    BY <1>4, <2>1, <2>2
<1>6. ASSUME NEW j \in Jobs, Transforms(j) PROVE OriginsOK'
  <2> DEFINE c == Result(req[j], data[fd[j]])
  <2>1. /\ pc[j] = "transform"
        /\ req[j].op = "decrypt" => IsContainer(data[fd[j]])
        /\ data' = [data EXCEPT ![Temp(j)] = c]
        /\ read' = [read EXCEPT ![j] = data[fd[j]]]
    BY <1>6 DEF Transforms
  <2>2. fd[j] \in Inodes /\ c.origin = data[fd[j]].origin /\ c.origin \in Known'
    BY <1>1, <1>2, <2>1, TransformedType DEF OriginsOK
  <2>3. \A i \in Inodes : data'[i] = data[i] \/ data'[i] = c
    BY <1>1, <2>1 DEF TypeInv, TypeOK
  <2>4. \A k \in Jobs : read'[k] = read[k] \/ read'[k] = data[fd[j]]
    BY <1>1, <2>1 DEF TypeInv, TypeOK
  <2> HIDE DEF c
  <2> QED
    BY <1>1, <1>2, <2>2, <2>3, <2>4 DEF OriginsOK
<1>7. ASSUME NEW j \in Jobs, TransformFails(j) PROVE OriginsOK'
  <2>1. pc[j] = "transform" /\ read' = read
    BY <1>7 DEF TransformFails, jobVars
  <2>2. CASE req[j].op = "decrypt" /\ ~IsContainer(data[fd[j]])
    BY <1>3, <1>7, <2>1, <2>2 DEF TransformFails
  <2>3. CASE ~(req[j].op = "decrypt" /\ ~IsContainer(data[fd[j]]))
    <3>1. data' = [data EXCEPT ![Temp(j)] = Result(req[j], data[fd[j]])]
      BY <1>7, <2>3 DEF TransformFails
    <3>2. Result(req[j], data[fd[j]]).origin \in Known'
      BY <1>1, <1>2, <2>1, <2>3, TransformedType DEF OriginsOK
    <3> QED
      BY <1>4, <2>1, <3>1, <3>2, InodeTypes
  <2> QED
    BY <2>2, <2>3
<1>8. ASSUME NEW j \in Jobs, CleansUp(j) PROVE OriginsOK'
  <2>1. data' = [data EXCEPT ![Temp(j)] = Wiped] /\ read' = read /\ Temp(j) \in Inodes
    BY <1>8, InodeTypes DEF CleansUp, jobVars
  <2> QED
    BY <1>2, <1>4, <2>1, ContentTypes
<1>9. ASSUME NEW j \in Jobs, CopyStarts(j) PROVE OriginsOK'
  <2>1. /\ CopyTarget(j) \in Inodes /\ data' = [data EXCEPT ![CopyTarget(j)] = Blank]
        /\ read' = read
    BY <1>1, <1>9, CopyStartsStep DEF CopyStarts
  <2> QED
    BY <1>2, <1>4, <2>1, ContentTypes
<1>10. ASSUME NEW j \in Jobs, CopyEnds(j) PROVE OriginsOK'
  <2>1. /\ fd[j] \in Inodes /\ data' = [data EXCEPT ![fd[j]] = data[Temp(j)]]
        /\ read' = read
    BY <1>1, <1>10, CopyEndsStep DEF CopyEnds, jobVars
  <2>2. data[Temp(j)].origin \in Known'
    BY <1>1, <1>2, InodeTypes DEF OriginsOK
  <2> QED
    BY <1>4, <2>1, <2>2
<1>11. ASSUME NEW j \in Jobs, Overwrites(j) PROVE OriginsOK'
  <2>1. req[j].input \in Names /\ dir[req[j].input] \in Inodes
    BY <1>1, <1>11, RequestsAssumption, OriginTypes DEF Overwrites, TypeInv, JobOK
  <2>2. data' = [data EXCEPT ![dir[req[j].input]] = Wiped] /\ read' = read
    BY <1>11 DEF Overwrites, jobVars
  <2> QED
    BY <1>2, <1>4, <2>1, <2>2, ContentTypes
<1>12. ASSUME NEW j \in Jobs, JobStep(j) \/ Crash(j), ~Transforms(j), ~TransformFails(j),
              ~CleansUp(j), ~CopyStarts(j), ~CopyEnds(j), ~Overwrites(j)
       PROVE  OriginsOK'
  <2>1. data' = data /\ read' = read
    BY <1>12
    DEF JobStep, Called, Opens, CreatesTemp, FailsToCreate, AppliesKeyfiles, KeyfileFails,
        FailsToCleanUp, ChoosesName, CommitsByRename, RenameFails, CopyFails, Stats,
        FailsToOverwrite, Unlinks, FailsToUnlink, Crash, diskVars, jobVars
  <2> QED
    BY <1>3, <2>1
<1>13. CASE (\E n \in Shared : Delete(n)) \/ UNCHANGED vars
  BY <1>3, <1>13 DEF Delete, vars, diskVars, jobVars
<1> QED
  BY <1>5, <1>6, <1>7, <1>8, <1>9, <1>10, <1>11, <1>12, <1>13 DEF Next

\* Only the command itself makes the inode of its copy.
LEMMA CopyUnnamed ==
  ASSUME TypeInv, Next, NEW k \in Jobs, ~CopyStarts(k), NEW n \in Names,
         \A m \in Names : dir[m] # Copy(k)
  PROVE  dir'[n] # Copy(k)
<1>1. ASSUME NEW m \in Names, NEW i, dir' = [dir EXCEPT ![m] = i], i # Copy(k)
      PROVE  dir'[n] # Copy(k)
  BY <1>1 DEF TypeInv, TypeOK
<1>2. /\ NoFile # Copy(k) /\ \A j \in Jobs : Temp(j) # Copy(k)
      /\ \A v \in 1 .. MaxWrites : <<"write", v>> # Copy(k)
  BY NoFileAssumption DEF Temp, Copy, Inodes
<1>3. ASSUME NEW m \in Shared, Write(m) PROVE dir'[n] # Copy(k)
  <2>1. /\ m \in Names /\ writes' \in 1 .. MaxWrites
        /\ dir' = [dir EXCEPT ![m] = WriteTarget(m)]
    BY <1>3, WriteStep, NamesAssumption
  <2> QED
    BY <1>1, <1>2, <2>1 DEF WriteTarget
<1>4. ASSUME NEW m \in Shared, Delete(m) PROVE dir'[n] # Copy(k)
  BY <1>1, <1>2, <1>4, NamesAssumption DEF Delete
<1>5. ASSUME NEW j \in Jobs, CommitsByRename(j) PROVE dir'[n] # Copy(k)
  BY <1>1, <1>2, <1>5 DEF CommitsByRename, TypeInv, TypeOK
<1>6. ASSUME NEW j \in Jobs, CopyStarts(j) PROVE dir'[n] # Copy(k)
  <2>1. out[j] \in Names /\ dir' = [dir EXCEPT ![out[j]] = CopyTarget(j)]
    BY <1>6, CopyStartsStep
  <2>2. Copy(j) # Copy(k)
    BY <1>6 DEF Copy
  <2> QED
    BY <1>1, <2>1, <2>2 DEF CopyTarget
<1>7. ASSUME NEW j \in Jobs, Unlinks(j) PROVE dir'[n] # Copy(k)
  BY <1>1, <1>2, <1>7 DEF Unlinks, TypeInv, TypeOK
<1>8. ASSUME NEW j \in Jobs, JobStep(j) \/ Crash(j),
             ~CommitsByRename(j), ~CopyStarts(j), ~Unlinks(j)
      PROVE  dir'[n] # Copy(k)
  BY <1>8
  DEF JobStep, Called, Opens, CreatesTemp, FailsToCreate, AppliesKeyfiles, KeyfileFails,
      Transforms, TransformFails, CleansUp, FailsToCleanUp, ChoosesName, RenameFails,
      CopyEnds, CopyFails, Stats, Overwrites, FailsToOverwrite, FailsToUnlink, Crash,
      diskVars
<1> QED
  BY <1>3, <1>4, <1>5, <1>6, <1>7, <1>8 DEF Next

\* A command in a step of others.
LEMMA BystanderPlace ==
  ASSUME PlacesInv, Next, NEW k \in Jobs, ~CopyStarts(k), pc'[k] = pc[k], read'[k] = read[k],
         k \in temps' <=> k \in temps, Spares(k)
  PROVE  PlaceOK(k)'
<1>1. TypeInv /\ TempOK(k) /\ PlaceOK(k)
  BY DEF PlacesInv, RemnantInv
<1>2. pc[k] \in Streamed => data'[Temp(k)] = data[Temp(k)]
  BY <1>1 DEF TempOK, PlaceOK, Spares, Streamed, Holding
<1>3. pc[k] \in BeforeCopy => \A n \in Names : dir'[n] # Copy(k)
  BY <1>1, CopyUnnamed DEF PlaceOK
<1> QED
  BY <1>1, <1>2, <1>3 DEF PlaceOK

\* The command that takes a step.
LEMMA OwnPlace ==
  ASSUME PlacesInv, NEW j \in Jobs, JobStep(j) \/ Crash(j), Next
  PROVE  PlaceOK(j)'
<1>1. TypeInv /\ TempOK(j) /\ PlaceOK(j)
  BY DEF PlacesInv, RemnantInv
<1>2. ASSUME ~CopyStarts(j), pc'[j] \in BeforeCopy => pc[j] \in BeforeCopy
      PROVE  pc'[j] \in BeforeCopy => \A n \in Names : dir'[n] # Copy(j)
  BY <1>1, <1>2, CopyUnnamed DEF PlaceOK
<1>3. ASSUME ~CopyStarts(j),
             pc'[j] \in {"open", "create", "stat", "shred", "unlink", "done", "failed", "crashed"},
             pc'[j] \in {"open", "create"} => pc[j] \in BeforeCopy
      PROVE  PlaceOK(j)'
  BY <1>2, <1>3 DEF PlaceOK, Holding, Streamed, BeforeCopy, Early
<1>4. ASSUME ~CopyStarts(j), pc[j] \in {"keyfile", "transform", "name", "commit", "copy", "fill"},
             pc'[j] \in {"transform", "cleanup"}, temps' = temps,
             pc'[j] = "transform" => pc[j] = "keyfile"
      PROVE  PlaceOK(j)'
  BY <1>1, <1>2, <1>4 DEF PlaceOK, Holding, Streamed, BeforeCopy, Early
<1>5. ASSUME pc[j] \in Streamed, pc'[j] \in Streamed, temps' = temps, read' = read, Spares(j)
      PROVE  /\ pc'[j] \in Holding \ {"crashed"} => j \in temps'
             /\ pc'[j] \in Streamed => data'[Temp(j)].origin = read'[j].origin
  BY <1>1, <1>5 DEF PlaceOK, TempOK, Spares, Holding, Streamed
<1>6. ASSUME NEW r \in Requests, Called(j, r) PROVE PlaceOK(j)'
  <2>1. pc[j] = "idle" /\ pc'[j] \in {"open", "shred", "failed"} /\ ~CopyStarts(j)
    BY <1>1, <1>6 DEF Called, CopyStarts, Goto, TypeInv, TypeOK
  <2> QED
    BY <1>3, <2>1 DEF BeforeCopy, Early
<1>7. CASE Opens(j)
  <2>1. pc[j] = "open" /\ pc'[j] \in {"create", "failed"} /\ ~CopyStarts(j)
    BY <1>1, <1>7 DEF Opens, CopyStarts, Goto, TypeInv, TypeOK
  <2> QED
    BY <1>3, <2>1 DEF BeforeCopy, Early
<1>8. CASE CreatesTemp(j)
  <2>1. pc[j] = "create" /\ pc'[j] = "keyfile" /\ ~CopyStarts(j) /\ j \in temps'
    BY <1>1, <1>8 DEF CreatesTemp, CopyStarts, Goto, TypeInv, TypeOK
  <2> QED
    BY <1>2, <2>1 DEF PlaceOK, BeforeCopy, Early, Streamed
<1>9. CASE AppliesKeyfiles(j) \/ CopyFails(j) \/ TransformFails(j)
  <2>1. /\ pc[j] \in {"keyfile", "transform", "copy", "fill"}
        /\ pc'[j] \in {"transform", "cleanup"} /\ temps' = temps
        /\ pc'[j] = "transform" => pc[j] = "keyfile"
    BY <1>1, <1>9
    DEF AppliesKeyfiles, CopyFails, TransformFails, AfterFailure, Goto, TypeInv, TypeOK, diskVars
  <2>2. ~CopyStarts(j)
    <3>1. CopyStarts(j) => pc'[j] = "fill"
      BY <1>1 DEF CopyStarts, Goto, TypeInv, TypeOK
    <3> QED
      BY <2>1, <3>1
  <2> QED
    BY <1>4, <2>1, <2>2
<1>10. CASE \/ FailsToCreate(j) \/ KeyfileFails(j) \/ CleansUp(j) \/ FailsToCleanUp(j)
            \/ CommitsByRename(j) \/ CopyEnds(j) \/ Stats(j)
            \/ Overwrites(j) \/ FailsToOverwrite(j) \/ Unlinks(j) \/ FailsToUnlink(j)
            \/ Crash(j)
  <2>1. pc'[j] \in {"failed", "crashed", "done", "stat", "shred", "unlink"}
    BY <1>1, <1>10
    DEF FailsToCreate, KeyfileFails, CleansUp, FailsToCleanUp, CommitsByRename, CopyEnds,
        Stats, Overwrites, FailsToOverwrite, Unlinks, FailsToUnlink, Crash, AfterCommit,
        Goto, TypeInv, TypeOK
  <2>2. ~CopyStarts(j)
    <3>1. CopyStarts(j) => pc'[j] = "fill"
      BY <1>1 DEF CopyStarts, Goto, TypeInv, TypeOK
    <3> QED
      BY <2>1, <3>1
  <2> QED
    BY <1>3, <2>1, <2>2
<1>11. CASE Transforms(j)
  <2>1. /\ pc[j] = "transform" /\ pc'[j] \in {"name", "commit"} /\ ~CopyStarts(j)
        /\ temps' = temps
        /\ req[j].op = "decrypt" => IsContainer(data[fd[j]])
        /\ data' = [data EXCEPT ![Temp(j)] = Result(req[j], data[fd[j]])]
        /\ read' = [read EXCEPT ![j] = data[fd[j]]]
    BY <1>1, <1>11 DEF Transforms, CopyStarts, Goto, TypeInv, TypeOK
  <2>2. /\ data'[Temp(j)] = Result(req[j], data[fd[j]])
        /\ read'[j] = data[fd[j]]
    BY <1>1, <2>1, InodeTypes DEF TypeInv, TypeOK
  <2>3. data'[Temp(j)].origin = read'[j].origin
    BY <1>1, <2>1, <2>2, TransformedType
  <2> QED
    BY <1>1, <1>2, <2>1, <2>3 DEF PlaceOK, Holding, BeforeCopy, Streamed
<1>12. CASE ChoosesName(j) \/ RenameFails(j)
  <2>1. /\ pc[j] \in {"name", "commit"} /\ pc'[j] \in {"commit", "copy"}
        /\ temps' = temps /\ read' = read /\ ~CopyStarts(j)
    BY <1>1, <1>12
    DEF ChoosesName, RenameFails, CopyStarts, Goto, TypeInv, TypeOK, diskVars, jobVars
  <2>2. Spares(j)
    BY <1>1, <1>12, RestSpares DEF Moves
  <2> QED
    BY <1>2, <1>5, <2>1, <2>2 DEF PlaceOK, BeforeCopy, Streamed
<1>13. CASE CopyStarts(j)
  <2>1. pc[j] = "copy" /\ pc'[j] = "fill" /\ temps' = temps /\ read' = read
    BY <1>1, <1>13 DEF CopyStarts, Goto, TypeInv, TypeOK
  <2>2. Spares(j)
    BY <1>1, <1>13, CopySpares
  <2> QED
    BY <1>5, <2>1, <2>2 DEF PlaceOK, BeforeCopy, Early, Streamed
<1> QED
  BY <1>6, <1>7, <1>8, <1>9, <1>10, <1>11, <1>12, <1>13 DEF JobStep


LEMMA OthersKeepRead ==
  ASSUME TypeInv, NEW j \in Jobs, JobStep(j) \/ Crash(j), NEW k \in Jobs, k # j
  PROVE  /\ pc'[k] = pc[k] /\ read'[k] = read[k] /\ req'[k] = req[k] /\ fd'[k] = fd[k]
         /\ ~CopyStarts(k)
<1>1. pc'[k] = pc[k]
  BY OthersKeep
<1>2. read' = read \/ \E c : read' = [read EXCEPT ![j] = c]
  BY DEF JobStep, Called, Opens, CreatesTemp, FailsToCreate, AppliesKeyfiles, KeyfileFails,
      Transforms, TransformFails, CleansUp, FailsToCleanUp, ChoosesName, CommitsByRename,
      RenameFails, CopyStarts, CopyEnds, CopyFails, Stats, Overwrites, FailsToOverwrite,
      Unlinks, FailsToUnlink, Crash, jobVars
<1>3. req' = req \/ \E r : req' = [req EXCEPT ![j] = r]
  BY DEF JobStep, Called, Opens, CreatesTemp, FailsToCreate, AppliesKeyfiles, KeyfileFails,
      Transforms, TransformFails, CleansUp, FailsToCleanUp, ChoosesName, CommitsByRename,
      RenameFails, CopyStarts, CopyEnds, CopyFails, Stats, Overwrites, FailsToOverwrite,
      Unlinks, FailsToUnlink, Crash, jobVars
<1>4. fd' = fd \/ \E i : fd' = [fd EXCEPT ![j] = i]
  BY DEF JobStep, Called, Opens, CreatesTemp, FailsToCreate, AppliesKeyfiles, KeyfileFails,
      Transforms, TransformFails, CleansUp, FailsToCleanUp, ChoosesName, CommitsByRename,
      RenameFails, CopyStarts, CopyEnds, CopyFails, Stats, Overwrites, FailsToOverwrite,
      Unlinks, FailsToUnlink, Crash, jobVars
<1>5. read'[k] = read[k] /\ req'[k] = req[k] /\ fd'[k] = fd[k]
  BY <1>2, <1>3, <1>4 DEF TypeInv, TypeOK
<1>6. CopyStarts(k) => pc'[k] = "fill" /\ pc[k] = "copy"
  BY DEF CopyStarts, Goto, TypeInv, TypeOK
<1> QED
  BY <1>1, <1>5, <1>6

LEMMA NextPlacesInv == PlacesInv /\ [Next]_vars => PlacesInv'
<1> SUFFICES ASSUME PlacesInv, [Next]_vars PROVE PlacesInv'
  OBVIOUS
<1>1. RemnantInv /\ TypeInv /\ RemnantInv' /\ DirOK' /\ OriginsOK'
  BY NextRemnantInv, NextDirOK, NextOriginsOK DEF PlacesInv, RemnantInv
<1>2. ASSUME NEW n \in Shared, Write(n) \/ Delete(n), NEW k \in Jobs PROVE PlaceOK(k)'
  <2>1. pc' = pc /\ temps' = temps /\ read' = read /\ Next
    BY <1>2 DEF Write, Delete, jobVars, Next
  <2>2. ~CopyStarts(k)
    BY <1>1, <2>1 DEF CopyStarts, Goto, TypeInv, TypeOK
  <2>3. CASE Write(n)
    <3>1. Spares(k)
      BY <1>1, <2>3, NamesAssumption, WriteSpares
    <3> QED
      BY <2>1, <2>2, <3>1, BystanderPlace
  <2>4. CASE Delete(n)
    <3>1. /\ UNCHANGED <<data, fd>>
          /\ \A m \in Names : dir'[m] = dir[m] \/ dir'[m] = NoFile
      BY <1>1, <2>4 DEF Delete, TypeInv, TypeOK, jobVars
    <3>2. Temp(k) # NoFile
      BY InodeTypes
    <3>3. Spares(k)
      BY <3>1, <3>2, SparingMove
    <3> QED
      BY <2>1, <2>2, <3>3, BystanderPlace
  <2> QED
    BY <1>2, <2>3, <2>4
<1>3. ASSUME NEW j \in Jobs, JobStep(j) \/ Crash(j), NEW k \in Jobs PROVE PlaceOK(k)'
  <2>1. Next
    BY <1>3 DEF Next
  <2>2. CASE k = j
    BY <1>3, <2>1, <2>2, OwnPlace
  <2>3. CASE k # j
    BY <1>1, <1>3, <2>1, <2>3, OthersKeep, OthersKeepRead, BystanderPlace
  <2> QED
    BY <2>2, <2>3
<1>4. CASE UNCHANGED vars
  BY <1>1, <1>4 DEF vars, diskVars, jobVars, boundVars, PlacesInv, PlaceOK
<1> QED
  BY <1>1, <1>2, <1>3, <1>4 DEF Next, PlacesInv

-----------------------------------------------------------------------------
(* Nothing is lost: files and commands are counted.                         *)

\* An origin that nobody has to answer for is held by some files, and waited for
\* by the commands that have delivered it and may now shred the input they took
\* it from: there is always a file more than there are such commands.
Live(v) == v \in 1 .. writes /\ v \notin asked \cup raced
Holders(v) == {n \in Names : Exists(n) /\ Content(n).origin = v}
Waiting(v) ==
  {j \in Jobs : pc[j] \in {"stat", "shred"} /\ req[j].op # "shred" /\ read[j].origin = v}
Enough(v) == Cardinality(Waiting(v)) < Cardinality(Holders(v))

\* What is being copied will be under a name.
LandsOK(j) == pc[j] = "fill" /\ Live(read[j].origin) => \E n \in Names : dir[n] = fd[j]

Counted == /\ \A j \in Jobs : LandsOK(j)
           /\ \A v \in Origins : Live(v) => Enough(v)
LossInv == PlacesInv /\ Counted

LEMMA FiniteCounts ==
  ASSUME NEW v
  PROVE  /\ IsFiniteSet(Holders(v)) /\ Cardinality(Holders(v)) \in Nat
         /\ IsFiniteSet(Waiting(v)) /\ Cardinality(Waiting(v)) \in Nat
         /\ IsFiniteSet(Holders(v)') /\ Cardinality(Holders(v)') \in Nat
         /\ IsFiniteSet(Waiting(v)') /\ Cardinality(Waiting(v)') \in Nat
<1>1. /\ Holders(v) \subseteq Names /\ Holders(v)' \subseteq Names
      /\ Waiting(v) \subseteq Jobs /\ Waiting(v)' \subseteq Jobs
  BY DEF Holders, Waiting
<1>2. /\ IsFiniteSet(Holders(v)) /\ IsFiniteSet(Waiting(v))
      /\ IsFiniteSet(Holders(v)') /\ IsFiniteSet(Waiting(v)')
  BY <1>1, FiniteAssumption, FS_Subset
<1> QED
  BY <1>2, FS_CardinalityType

\* Counts of finite sets.
LEMMA FewerOfMore ==
  ASSUME NEW H, NEW H2, NEW W, NEW W2, IsFiniteSet(H2), IsFiniteSet(W),
         H \subseteq H2, W2 \subseteq W, Cardinality(W) < Cardinality(H)
  PROVE  Cardinality(W2) < Cardinality(H2)
<1>1. /\ IsFiniteSet(H) /\ Cardinality(H) <= Cardinality(H2)
      /\ IsFiniteSet(W2) /\ Cardinality(W2) <= Cardinality(W)
  BY FS_Subset
<1>2. /\ Cardinality(H) \in Nat /\ Cardinality(H2) \in Nat
      /\ Cardinality(W) \in Nat /\ Cardinality(W2) \in Nat
  BY <1>1, FS_CardinalityType
<1> QED
  BY <1>1, <1>2

LEMMA OneMoreEach ==
  ASSUME NEW H, NEW W, NEW x, NEW j, IsFiniteSet(H), IsFiniteSet(W), x \notin H,
         Cardinality(W) < Cardinality(H)
  PROVE  Cardinality(W \cup {j}) < Cardinality(H \cup {x})
<1>1. /\ Cardinality(H \cup {x}) = Cardinality(H) + 1
      /\ Cardinality(W \cup {j}) \in {Cardinality(W), Cardinality(W) + 1}
  BY FS_AddElement
<1>2. Cardinality(H) \in Nat /\ Cardinality(W) \in Nat
  BY FS_CardinalityType
<1> QED
  BY <1>1, <1>2

LEMMA OneFewerEach ==
  ASSUME NEW H, NEW W, NEW x, NEW j, IsFiniteSet(H), IsFiniteSet(W), j \in W,
         Cardinality(W) < Cardinality(H)
  PROVE  Cardinality(W \ {j}) < Cardinality(H \ {x})
<1>1. /\ Cardinality(W \ {j}) = Cardinality(W) - 1
      /\ Cardinality(H \ {x}) \in {Cardinality(H), Cardinality(H) - 1}
  BY FS_RemoveElement
<1>2. Cardinality(H) \in Nat /\ Cardinality(W) \in Nat
  BY FS_CardinalityType
<1> QED
  BY <1>1, <1>2

\* A step that takes no holder away and lets nobody wait.
LEMMA CountStays ==
  ASSUME NEW v, Enough(v), Holders(v) \subseteq Holders(v)', Waiting(v)' \subseteq Waiting(v)
  PROVE  Enough(v)'
  BY FiniteCounts, FewerOfMore DEF Enough

\* A command delivers the origin under a name that did not hold it.
LEMMA CountDelivered ==
  ASSUME NEW v, Enough(v), NEW n, n \notin Holders(v), Holders(v) \cup {n} \subseteq Holders(v)',
         NEW j, Waiting(v)' \subseteq Waiting(v) \cup {j}
  PROVE  Enough(v)'
<1>1. Cardinality(Waiting(v) \cup {j}) < Cardinality(Holders(v) \cup {n})
  BY FiniteCounts, OneMoreEach DEF Enough
<1>2. IsFiniteSet(Waiting(v) \cup {j})
  BY FiniteCounts, FS_AddElement
<1> QED
  BY <1>1, <1>2, FiniteCounts, FewerOfMore DEF Enough

\* A command that has waited takes its holder away.
LEMMA CountConsumed ==
  ASSUME NEW v, Enough(v), NEW n, Holders(v) \ {n} \subseteq Holders(v)',
         NEW j, j \in Waiting(v), Waiting(v)' \subseteq Waiting(v) \ {j}
  PROVE  Enough(v)'
<1>1. Cardinality(Waiting(v) \ {j}) < Cardinality(Holders(v) \ {n})
  BY FiniteCounts, OneFewerEach DEF Enough
<1>2. IsFiniteSet(Waiting(v) \ {j})
  BY FiniteCounts, FS_RemoveElement
<1> QED
  BY <1>1, <1>2, FiniteCounts, FewerOfMore DEF Enough

LEMMA InitLossInv == Init => LossInv
<1> SUFFICES ASSUME Init PROVE LossInv
  OBVIOUS
<1>1. PlacesInv /\ TypeInv
  BY InitPlacesInv, InitTypeInv
<1>2. \A j \in Jobs : pc[j] = "idle"
  BY DEF Init
<1>3. ASSUME NEW v, Live(v) PROVE Enough(v)
  <2>1. PICK n \in Filled : Before[n].origin = v
    BY <1>3 DEF Init, Live
  <2>2. n \in Names /\ dir[n] = <<"write", v>> /\ dir[n] \in Inodes
    <3>1. v \in 1 .. MaxWrites
      BY <1>1, <1>3, BoundsAssumption DEF Live, TypeInv, TypeOK
    <3> QED
      BY <2>1, <3>1, BeforeAssumption, InodeTypes DEF Init
  <2>3. data[dir[n]] = Before[n]
    <3> DEFINE m == CHOOSE x \in Names : dir[x] = dir[n]
    <3>1. m \in Names /\ dir[m] = dir[n]
      BY <2>2
    <3>2. m = n
      BY <1>1, <2>2, <3>1, InodeTypes DEF PlacesInv, DirOK, Exists
    <3>3. data[dir[n]] = Before[m]
      BY <2>2 DEF Init
    <3> QED
      BY <3>2, <3>3
  <2>4. n \in Holders(v)
    BY <2>1, <2>2, <2>3, InodeTypes DEF Holders, Exists, Content
  <2>5. Waiting(v) = {}
    BY <1>2 DEF Waiting
  <2>6. Cardinality(Waiting(v)) = 0 /\ Cardinality(Holders(v)) # 0
    BY <2>4, <2>5, FiniteCounts, FS_EmptySet
  <2> QED
    BY <2>6, FiniteCounts DEF Enough
<1> QED
  BY <1>1, <1>2, <1>3 DEF LossInv, Counted, LandsOK

\* What the counts of a step with answers for more origins, but no new ones, are
\* about.
Answers == asked \subseteq asked' /\ raced \subseteq raced' /\ writes' = writes

LEMMA LiveBefore ==
  ASSUME Answers, NEW v, Live(v)'
  PROVE  Live(v) /\ v \notin asked' \cup raced'
  BY DEF Answers, Live

LEMMA LiveType ==
  ASSUME TypeInv, NEW v, Live(v)
  PROVE  v \in Nat /\ v # 0 /\ v # MaxWrites + 1
  BY BoundsAssumption DEF Live, TypeInv, TypeOK

\* Names that lead where they led, to contents of the same origin.
LEMMA HolderStays ==
  ASSUME NEW v, NEW n \in Holders(v), dir'[n] = dir[n],
         data'[dir[n]].origin = data[dir[n]].origin
  PROVE  n \in Holders(v)'
  BY DEF Holders, Exists, Content

LEMMA NotHolder ==
  ASSUME NEW v, NEW n \in Names, v \notin OriginsAt(n) \/ ~Exists(n)
  PROVE  n \notin Holders(v)
  BY DEF Holders, OriginsAt

LEMMA WaitingOthers ==
  ASSUME TypeInv, NEW j \in Jobs, JobStep(j) \/ Crash(j), NEW v
  PROVE  /\ Waiting(v)' \subseteq Waiting(v) \cup {j}
         /\ j \notin Waiting(v)' => Waiting(v)' \subseteq Waiting(v) \ {j}
<1>1. \A k \in Jobs \ {j} : pc'[k] = pc[k] /\ read'[k] = read[k] /\ req'[k] = req[k]
  BY OthersKeepRead
<1> QED
  BY <1>1 DEF Waiting

\* Steps that change no name and no content that has one.
LEMMA QuietCounted ==
  ASSUME LossInv, NEW j \in Jobs, JobStep(j) \/ Crash(j), dir' = dir, Answers,
         \A n \in Names : Exists(n) => data'[dir[n]] = data[dir[n]],
         pc'[j] # "fill",
         pc'[j] \in {"stat", "shred"} =>
           \/ pc[j] \in {"stat", "shred"} /\ req'[j] = req[j] /\ read'[j] = read[j]
           \/ req'[j].op = "shred"
  PROVE  Counted'
<1>1. TypeInv /\ Counted
  BY DEF LossInv, PlacesInv, RemnantInv
<1>2. ASSUME NEW k \in Jobs PROVE LandsOK(k)'
  <2>1. CASE k = j
    BY <2>1 DEF LandsOK
  <2>2. CASE k # j
    <3>1. pc'[k] = pc[k] /\ read'[k] = read[k] /\ fd'[k] = fd[k]
      BY <1>1, <2>2, OthersKeepRead
    <3> QED
      BY <1>1, <3>1, LiveBefore DEF LandsOK, Counted
  <2> QED
    BY <2>1, <2>2
<1>3. ASSUME NEW v \in Origins, Live(v)' PROVE Enough(v)'
  <2>1. Enough(v)
    BY <1>1, <1>3, LiveBefore DEF Counted
  <2>2. Holders(v) \subseteq Holders(v)'
    BY HolderStays DEF Holders
  <2>3. Waiting(v)' \subseteq Waiting(v)
    <3>1. j \in Waiting(v)' => j \in Waiting(v)
      BY DEF Waiting
    <3> QED
      BY <1>1, <3>1, WaitingOthers
  <2> QED
    BY <2>1, <2>2, <2>3, CountStays
<1> QED
  BY <1>2, <1>3 DEF Counted

\* A name that is taken away, with answers for all that goes with it.
LEMMA RemovalCounted ==
  ASSUME LossInv, NEW n \in Names, dir' = [dir EXCEPT ![n] = NoFile],
         UNCHANGED <<data, req, read, fd>>, Answers,
         \A v \in Origins : Live(v)' => v \notin OriginsAt(n),
         \A k \in Jobs : pc'[k] = pc[k] \/ pc'[k] = "done"
  PROVE  Counted'
<1>1. TypeInv /\ Counted
  BY DEF LossInv, PlacesInv, RemnantInv
<1>2. \A m \in Names : dir'[m] = IF m = n THEN NoFile ELSE dir[m]
  BY <1>1 DEF TypeInv, TypeOK
<1>3. ASSUME NEW k \in Jobs, NEW v \in Origins, pc[k] = "fill", v = read[k].origin, Live(v)'
      PROVE  \E m \in Names : dir'[m] = fd[k]
  <2>1. Live(v) /\ v \notin OriginsAt(n)
    BY <1>3, LiveBefore
  <2>2. PICK m \in Names : dir[m] = fd[k]
    BY <1>1, <1>3, <2>1 DEF Counted, LandsOK
  <2>3. m # n
    BY <1>3, <2>1, <2>2 DEF OriginsAt
  <2> QED
    BY <1>2, <2>2, <2>3
<1>5. ASSUME NEW k \in Jobs PROVE LandsOK(k)'
  <2>1. pc'[k] = "fill" => pc[k] = "fill"
    OBVIOUS
  <2>2. read[k].origin \in Origins
    BY <1>1 DEF TypeInv, TypeOK, Contents
  <2> QED
    BY <1>3, <2>1, <2>2 DEF LandsOK
<1>4. ASSUME NEW v \in Origins, Live(v)' PROVE Enough(v)'
  <2>1. Enough(v) /\ n \notin Holders(v)
    BY <1>1, <1>4, LiveBefore, NotHolder DEF Counted
  <2>2. Holders(v) \subseteq Holders(v)'
    BY <1>2, <2>1, HolderStays DEF Holders
  <2>3. Waiting(v)' \subseteq Waiting(v)
    BY DEF Waiting
  <2> QED
    BY <2>1, <2>2, <2>3, CountStays
<1> QED
  BY <1>4, <1>5 DEF Counted

LEMMA DeleteCounted ==
  ASSUME LossInv, NEW n \in Names, Delete(n)
  PROVE  Counted'
<1>1. /\ dir' = [dir EXCEPT ![n] = NoFile] /\ asked' = asked \cup OriginsAt(n)
      /\ UNCHANGED <<data, req, read, fd>> /\ pc' = pc
      /\ writes' = writes /\ raced' = raced
  BY DEF Delete, jobVars, boundVars
<1>2. Answers
  BY <1>1 DEF Answers
<1>3. \A v \in Origins : Live(v)' => v \notin OriginsAt(n)
  BY <1>1, <1>2, LiveBefore
<1> QED
  BY <1>1, <1>2, <1>3, RemovalCounted

LEMMA UnlinksCounted ==
  ASSUME LossInv, NEW j \in Jobs, Unlinks(j)
  PROVE  Counted'
<1>1. TypeInv
  BY DEF LossInv, PlacesInv, RemnantInv
<1>2. req[j].input \in Names
  BY <1>1, RequestsAssumption DEF Unlinks, TypeInv, JobOK
<1>3. /\ dir' = [dir EXCEPT ![req[j].input] = NoFile]
      /\ UNCHANGED <<data, req, read, fd>> /\ writes' = writes
      /\ \A k \in Jobs : pc'[k] = pc[k] \/ pc'[k] = "done"
  BY <1>1 DEF Unlinks, Goto, TypeInv, TypeOK, jobVars, boundVars
<1>4. /\ Answers
      /\ OriginsAt(req[j].input) \ {MaxWrites + 1} \subseteq asked' \cup raced'
  BY <1>3, ContentTypes DEF Unlinks, Destroys, Answers
<1>5. ASSUME NEW v \in Origins, Live(v)' PROVE v \notin OriginsAt(req[j].input)
  BY <1>1, <1>4, <1>5, LiveBefore, LiveType
<1> QED
  BY <1>2, <1>3, <1>4, <1>5, RemovalCounted

LEMMA WriteCounted ==
  ASSUME LossInv, NEW n \in Names, Write(n)
  PROVE  Counted'
<1>1. TypeInv /\ DirOK /\ OriginsOK /\ Counted
  BY DEF LossInv, PlacesInv, RemnantInv
<1>2. /\ WriteTarget(n) \in Inodes
      /\ writes' = writes + 1 /\ writes' \in 1 .. MaxWrites /\ writes \in Nat
      /\ dir' = [dir EXCEPT ![n] = WriteTarget(n)]
      /\ data' = [data EXCEPT ![WriteTarget(n)] = Plain(writes')]
      /\ UNCHANGED <<pc, req, read, fd, raced>>
      /\ asked' = IF Exists(n) THEN asked \cup OriginsAt(n) ELSE asked
  <2>1. /\ WriteTarget(n) \in Inodes /\ writes' \in 1 .. MaxWrites
        /\ dir' = [dir EXCEPT ![n] = WriteTarget(n)]
        /\ data' = [data EXCEPT ![WriteTarget(n)] = Plain(writes')]
        /\ UNCHANGED <<temps, pc, jobVars, alone, failed, raced>>
    BY <1>1, WriteStep
  <2>2. /\ writes' = writes + 1
        /\ asked' = IF Exists(n) THEN asked \cup OriginsAt(n) ELSE asked
    BY DEF Write
  <2>3. writes \in Nat
    BY <1>1 DEF TypeInv, TypeOK
  <2> QED
    BY <2>1, <2>2, <2>3 DEF jobVars
<1>3. /\ \A m \in Names : dir'[m] = IF m = n THEN WriteTarget(n) ELSE dir[m]
      /\ \A i \in Inodes \ {WriteTarget(n)} : data'[i] = data[i]
      /\ data'[WriteTarget(n)].origin = writes'
  BY <1>1, <1>2, ContentTypes DEF TypeInv, TypeOK
<1>4. ASSUME NEW m \in Names, m # n PROVE dir[m] # WriteTarget(n)
  <2>1. CASE Exists(n)
    BY <1>1, <1>4, <2>1 DEF DirOK, WriteTarget
  <2>2. CASE ~Exists(n)
    <3>1. dir[m] = <<"write", writes'>> => writes' <= writes
      BY <1>1, <1>2 DEF DirOK
    <3>2. ~(writes' <= writes)
      BY <1>2
    <3> QED
      BY <2>2, <3>1, <3>2 DEF WriteTarget
  <2> QED
    BY <2>1, <2>2
<1>5. \A k \in Jobs : read[k].origin # writes'
  BY <1>1, <1>2, BoundsAssumption DEF OriginsOK, Known
<1>6. ASSUME NEW v, Live(v)', v # writes'
      PROVE  Live(v) /\ (Exists(n) => v \notin OriginsAt(n))
  BY <1>2, <1>6 DEF Live
<1>7. ASSUME NEW k \in Jobs PROVE LandsOK(k)'
  <2> SUFFICES ASSUME NEW v, pc[k] = "fill", v = read[k].origin, Live(v)'
               PROVE  \E m \in Names : dir'[m] = fd[k]
    BY <1>2 DEF LandsOK
  <2>1. Live(v)
    BY <1>5, <1>6
  <2>2. PICK m \in Names : dir[m] = fd[k]
    BY <1>1, <2>1 DEF Counted, LandsOK
  <2>3. fd[k] \in Inodes
    BY <1>1 DEF TypeInv, JobOK, WithFile
  <2>4. dir'[m] = dir[m]
    BY <1>3, <2>2, <2>3, InodeTypes DEF WriteTarget, Exists
  <2> QED
    BY <2>2, <2>4
<1>8. ASSUME NEW v \in Origins, Live(v)' PROVE Enough(v)'
  <2>1. CASE v = writes'
    <3>1. Waiting(v)' = {}
      BY <1>2, <1>5, <2>1 DEF Waiting
    <3>2. n \in Holders(v)'
      BY <1>2, <1>3, <2>1, InodeTypes DEF Holders, Exists, Content
    <3>3. Cardinality(Waiting(v)') = 0 /\ Cardinality(Holders(v)') # 0
      BY <3>1, <3>2, FiniteCounts, FS_EmptySet
    <3> QED
      BY <3>3, FiniteCounts DEF Enough
  <2>2. CASE v # writes'
    <3>1. Enough(v) /\ n \notin Holders(v)
      BY <1>1, <1>6, <1>8, <2>2, NotHolder DEF Counted
    <3>2. ASSUME NEW m \in Holders(v) PROVE m \in Holders(v)'
      <4>1. m \in Names /\ m # n /\ dir[m] \in Inodes
        BY <1>1, <3>1, <3>2, OriginTypes DEF Holders
      <4> QED
        BY <1>3, <1>4, <3>2, <4>1, HolderStays
    <3>3. Waiting(v)' \subseteq Waiting(v)
      BY <1>2 DEF Waiting
    <3> QED
      BY <3>1, <3>2, <3>3, CountStays
  <2> QED
    BY <2>1, <2>2
<1> QED
  BY <1>7, <1>8 DEF Counted

\* The lost files of a commit are answered for.
LEMMA ReplacesAnswers ==
  ASSUME NEW j \in Jobs, Replaces(j), writes' = writes
  PROVE  /\ Answers
         /\ \A v : Live(v)' /\ Exists(out[j]) => v \notin OriginsAt(out[j])
  BY DEF Replaces, Answers, Live

LEMMA CommitCounted ==
  ASSUME LossInv, NEW j \in Jobs, CommitsByRename(j)
  PROVE  Counted'
<1>1. TypeInv /\ Counted /\ PlaceOK(j) /\ JobStep(j)
  BY DEF LossInv, PlacesInv, RemnantInv, JobStep
<1>2. /\ pc[j] = "commit" /\ out[j] \in Names
      /\ dir' = [dir EXCEPT ![out[j]] = Temp(j)]
      /\ data' = data /\ req' = req /\ read' = read /\ fd' = fd
      /\ pc'[j] # "fill"
  BY <1>1 DEF CommitsByRename, AfterCommit, Goto, TypeInv, TypeOK, JobOK, WithName, jobVars
<1>3. /\ Answers
      /\ \A v : Live(v)' /\ Exists(out[j]) => v \notin OriginsAt(out[j])
  BY ReplacesAnswers DEF CommitsByRename, boundVars
<1>4. \A m \in Names : dir'[m] = IF m = out[j] THEN Temp(j) ELSE dir[m]
  BY <1>1, <1>2 DEF TypeInv, TypeOK
<1>5. ASSUME NEW k \in Jobs PROVE LandsOK(k)'
  <2> SUFFICES ASSUME NEW v, pc'[k] = "fill", v = read[k].origin, Live(v)'
               PROVE  \E m \in Names : dir'[m] = fd[k]
    BY <1>2 DEF LandsOK
  <2>1. k # j /\ pc[k] = "fill"
    BY <1>1, <1>2, OthersKeepRead
  <2>2. Live(v)
    BY <1>3, LiveBefore
  <2>3. PICK m \in Names : dir[m] = fd[k]
    BY <1>1, <2>1, <2>2 DEF Counted, LandsOK
  <2>4. fd[k] \in Inodes
    BY <1>1, <2>1 DEF TypeInv, JobOK, WithFile
  <2>5. m # out[j]
    BY <1>3, <2>1, <2>3, <2>4, InodeTypes DEF OriginsAt, Exists
  <2> QED
    BY <1>4, <2>3, <2>5
<1>6. ASSUME NEW v \in Origins, Live(v)' PROVE Enough(v)'
  <2>1. Enough(v) /\ out[j] \notin Holders(v)
    BY <1>1, <1>2, <1>3, <1>6, LiveBefore, NotHolder DEF Counted
  <2>2. Holders(v) \subseteq Holders(v)'
    BY <1>2, <1>4, <2>1, HolderStays DEF Holders
  <2>3. CASE read[j].origin = v
    <3>1. dir'[out[j]] = Temp(j) /\ Temp(j) # NoFile
      BY <1>2, <1>4, InodeTypes
    <3>2. data[Temp(j)].origin = v
      BY <1>1, <1>2, <2>3 DEF PlaceOK, Streamed
    <3>3. out[j] \in Holders(v)'
      BY <1>2, <3>1, <3>2 DEF Holders, Exists, Content
    <3>4. Waiting(v)' \subseteq Waiting(v) \cup {j}
      BY <1>1, WaitingOthers
    <3> QED
      BY <2>1, <2>2, <3>3, <3>4, CountDelivered
  <2>4. CASE read[j].origin # v
    <3>1. Waiting(v)' \subseteq Waiting(v)
      <4>1. j \notin Waiting(v)'
        BY <1>2, <2>4 DEF Waiting
      <4> QED
        BY <1>1, <4>1, WaitingOthers
    <3> QED
      BY <2>1, <2>2, <3>1, CountStays
  <2> QED
    BY <2>3, <2>4
<1> QED
  BY <1>5, <1>6 DEF Counted

LEMMA CopyStartsCounted ==
  ASSUME LossInv, NEW j \in Jobs, CopyStarts(j)
  PROVE  Counted'
<1>1. TypeInv /\ DirOK /\ Counted /\ PlaceOK(j) /\ JobStep(j)
  BY DEF LossInv, PlacesInv, RemnantInv, JobStep
<1>2. /\ pc[j] = "copy" /\ out[j] \in Names /\ CopyTarget(j) \in Inodes
      /\ dir' = [dir EXCEPT ![out[j]] = CopyTarget(j)]
      /\ data' = [data EXCEPT ![CopyTarget(j)] = Blank]
      /\ fd' = [fd EXCEPT ![j] = CopyTarget(j)]
  BY <1>1, CopyStartsStep
<1>3. pc'[j] = "fill" /\ UNCHANGED <<req, read>> /\ writes' = writes
  BY <1>1 DEF CopyStarts, Goto, TypeInv, TypeOK, boundVars
<1>4. /\ Answers
      /\ \A v : Live(v)' /\ Exists(out[j]) => v \notin OriginsAt(out[j])
  BY <1>3, ReplacesAnswers DEF CopyStarts
<1>5. /\ \A m \in Names : dir'[m] = IF m = out[j] THEN CopyTarget(j) ELSE dir[m]
      /\ \A i \in Inodes \ {CopyTarget(j)} : data'[i] = data[i]
      /\ fd'[j] = CopyTarget(j)
  BY <1>1, <1>2 DEF TypeInv, TypeOK
<1>6. ASSUME NEW m \in Names, m # out[j] PROVE dir[m] # CopyTarget(j)
  BY <1>1, <1>2, <1>6 DEF DirOK, PlaceOK, BeforeCopy, CopyTarget
<1>7. ASSUME NEW k \in Jobs PROVE LandsOK(k)'
  <2>1. CASE k = j
    BY <1>2, <1>5, <2>1 DEF LandsOK
  <2>2. CASE k # j
    <3> SUFFICES ASSUME NEW v, pc'[k] = "fill", v = read[k].origin, Live(v)'
                 PROVE  \E m \in Names : dir'[m] = fd'[k]
      BY <1>3 DEF LandsOK
    <3>1. pc[k] = "fill" /\ fd'[k] = fd[k]
      BY <1>1, <2>2, OthersKeepRead
    <3>2. Live(v)
      BY <1>4, LiveBefore
    <3>3. PICK m \in Names : dir[m] = fd[k]
      BY <1>1, <3>1, <3>2 DEF Counted, LandsOK
    <3>4. fd[k] \in Inodes
      BY <1>1, <3>1 DEF TypeInv, JobOK, WithFile
    <3>5. dir'[m] = dir[m]
      BY <1>5, <3>3, <3>4, InodeTypes DEF CopyTarget, Exists
    <3> QED
      BY <3>1, <3>3, <3>5
  <2> QED
    BY <2>1, <2>2
<1>8. ASSUME NEW v \in Origins, Live(v)' PROVE Enough(v)'
  <2>1. Enough(v) /\ out[j] \notin Holders(v)
    BY <1>1, <1>2, <1>4, <1>8, LiveBefore, NotHolder DEF Counted
  <2>2. ASSUME NEW m \in Holders(v) PROVE m \in Holders(v)'
    <3>1. m \in Names /\ m # out[j] /\ dir[m] \in Inodes
      BY <1>1, <2>1, <2>2, OriginTypes DEF Holders
    <3> QED
      BY <1>5, <1>6, <2>2, <3>1, HolderStays
  <2>3. Waiting(v)' \subseteq Waiting(v)
    <3>1. j \notin Waiting(v)'
      BY <1>3 DEF Waiting
    <3> QED
      BY <1>1, <3>1, WaitingOthers
  <2> QED
    BY <2>1, <2>2, <2>3, CountStays
<1> QED
  BY <1>7, <1>8 DEF Counted

LEMMA CopyEndsCounted ==
  ASSUME LossInv, NEW j \in Jobs, CopyEnds(j)
  PROVE  Counted'
<1>1. TypeInv /\ DirOK /\ Counted /\ PlaceOK(j) /\ JobStep(j)
  BY DEF LossInv, PlacesInv, RemnantInv, JobStep
<1>2. /\ pc[j] = "fill" /\ fd[j] \in Inodes
      /\ data' = [data EXCEPT ![fd[j]] = data[Temp(j)]]
      /\ writes' = writes
  BY <1>1, CopyEndsStep
<1>3. /\ UNCHANGED <<dir, req, read, fd, asked>>
      /\ raced' = raced \cup {data[fd[j]].origin}
      /\ pc'[j] # "fill"
  BY <1>1 DEF CopyEnds, AfterCommit, Goto, TypeInv, TypeOK, jobVars
<1>4. Answers
  BY <1>2, <1>3 DEF Answers
<1>5. /\ data'[fd[j]].origin = read[j].origin
      /\ \A i \in Inodes \ {fd[j]} : data'[i] = data[i]
  BY <1>1, <1>2 DEF TypeInv, TypeOK, PlaceOK, Streamed
<1>6. ASSUME NEW k \in Jobs PROVE LandsOK(k)'
  <2> SUFFICES ASSUME NEW v, pc'[k] = "fill", v = read[k].origin, Live(v)'
               PROVE  \E m \in Names : dir[m] = fd[k]
    BY <1>3 DEF LandsOK
  <2>1. pc[k] = "fill"
    BY <1>1, <1>3, OthersKeepRead
  <2>2. Live(v)
    BY <1>4, LiveBefore
  <2> QED
    BY <1>1, <2>1, <2>2 DEF Counted, LandsOK
<1>7. ASSUME NEW v \in Origins, Live(v)' PROVE Enough(v)'
  <2>1. Live(v) /\ v # data[fd[j]].origin
    BY <1>3, <1>4, <1>7, LiveBefore
  <2>2. Enough(v)
    BY <1>1, <2>1 DEF Counted
  <2>3. ASSUME NEW m \in Holders(v) PROVE m \in Holders(v)'
    <3>1. dir[m] \in Inodes /\ dir[m] # fd[j]
      BY <1>1, <2>1, <2>3, OriginTypes DEF Holders, Content
    <3> QED
      BY <1>3, <1>5, <2>3, <3>1, HolderStays
  <2>4. CASE read[j].origin = v
    <3>1. PICK n \in Names : dir[n] = fd[j]
      BY <1>1, <1>2, <2>1, <2>4 DEF Counted, LandsOK
    <3>2. n \notin Holders(v)
      BY <2>1, <3>1 DEF Holders, Content
    <3>3. n \in Holders(v)'
      BY <1>2, <1>3, <1>5, <2>4, <3>1, InodeTypes DEF Holders, Exists, Content
    <3>4. Waiting(v)' \subseteq Waiting(v) \cup {j}
      BY <1>1, WaitingOthers
    <3> QED
      BY <2>2, <2>3, <3>2, <3>3, <3>4, CountDelivered
  <2>5. CASE read[j].origin # v
    <3>1. Waiting(v)' \subseteq Waiting(v)
      <4>1. j \notin Waiting(v)'
        BY <1>3, <2>5 DEF Waiting
      <4> QED
        BY <1>1, <4>1, WaitingOthers
    <3> QED
      BY <2>2, <2>3, <3>1, CountStays
  <2> QED
    BY <2>4, <2>5
<1> QED
  BY <1>6, <1>7 DEF Counted

LEMMA OverwritesCounted ==
  ASSUME LossInv, NEW j \in Jobs, Overwrites(j)
  PROVE  Counted'
<1>1. TypeInv /\ DirOK /\ Counted /\ JobStep(j)
  BY DEF LossInv, PlacesInv, RemnantInv, JobStep
<1> DEFINE n == req[j].input
<1>2. n \in Names /\ dir[n] \in Inodes /\ Exists(n)
  BY <1>1, RequestsAssumption, OriginTypes DEF Overwrites, TypeInv, JobOK
<1>3. /\ pc[j] = "shred" /\ pc'[j] = "unlink"
      /\ data' = [data EXCEPT ![dir[n]] = Wiped]
      /\ UNCHANGED <<dir, req, read, fd>> /\ writes' = writes
  BY <1>1 DEF Overwrites, Goto, TypeInv, TypeOK, jobVars, boundVars
<1>4. /\ Answers
      /\ \/ OriginsAt(n) \subseteq asked' \cup raced'
         \/ /\ req[j].op # "shred"
            /\ OriginsAt(n) \ {read[j].origin} \subseteq asked' \cup raced'
  BY <1>3 DEF Overwrites, Destroys, Answers
<1>5. ASSUME NEW m \in Names, m # n, Exists(m) PROVE data'[dir[m]] = data[dir[m]]
  <2>1. dir[m] \in Inodes /\ dir[m] # dir[n]
    BY <1>1, <1>2, <1>5, OriginTypes DEF DirOK
  <2> QED
    BY <1>1, <1>2, <1>3, <2>1 DEF TypeInv, TypeOK
<1>6. ASSUME NEW k \in Jobs PROVE LandsOK(k)'
  <2> SUFFICES ASSUME NEW v, pc'[k] = "fill", v = read[k].origin, Live(v)'
               PROVE  \E m \in Names : dir[m] = fd[k]
    BY <1>3 DEF LandsOK
  <2>1. pc[k] = "fill"
    BY <1>1, <1>3, OthersKeepRead
  <2>2. Live(v)
    BY <1>4, LiveBefore
  <2> QED
    BY <1>1, <2>1, <2>2 DEF Counted, LandsOK
<1>7. ASSUME NEW v \in Origins, Live(v)' PROVE Enough(v)'
  <2>1. Live(v) /\ Enough(v) /\ v \notin asked' \cup raced'
    BY <1>1, <1>4, <1>7, LiveBefore DEF Counted
  <2>2. Holders(v) \ {n} \subseteq Holders(v)'
    <3>1. ASSUME NEW m \in Holders(v), m # n PROVE m \in Holders(v)'
      <4>1. m \in Names /\ Exists(m)
        BY <3>1 DEF Holders
      <4> QED
        BY <1>3, <1>5, <3>1, <4>1, HolderStays
    <3> QED
      BY <3>1
  <2>3. Waiting(v)' \subseteq Waiting(v) \ {j}
    <3>1. j \notin Waiting(v)'
      BY <1>3 DEF Waiting
    <3> QED
      BY <1>1, <3>1, WaitingOthers
  <2>4. CASE v \notin OriginsAt(n)
    <3>1. n \notin Holders(v)
      BY <1>2, <2>4, NotHolder
    <3> QED
      BY <2>1, <2>2, <2>3, <3>1, CountStays
  <2>5. CASE v \in OriginsAt(n)
    <3>1. req[j].op # "shred" /\ v = read[j].origin
      BY <1>4, <2>1, <2>5
    <3>2. j \in Waiting(v)
      BY <1>3, <3>1 DEF Waiting
    <3> QED
      BY <2>1, <2>2, <2>3, <3>2, CountConsumed
  <2> QED
    BY <2>4, <2>5
<1> QED
  BY <1>6, <1>7 DEF Counted

\* The steps that leave what has a name as it is.
LEMMA RestCounted ==
  ASSUME LossInv, NEW j \in Jobs,
         \/ \E r \in Requests : Called(j, r)
         \/ Opens(j) \/ ChoosesName(j) \/ Moves(j)
         \/ Transforms(j) \/ TransformFails(j) \/ CleansUp(j)
  PROVE  Counted'
<1>1. /\ TypeInv /\ TempOK(j) /\ PlaceOK(j)
      /\ JobStep(j) \/ Crash(j)
  BY DEF LossInv, PlacesInv, RemnantInv, JobStep, Moves
<1>2. dir' = dir /\ asked' = asked /\ raced' = raced
  BY <1>1, MovesKeep
  DEF Called, Opens, ChoosesName, Transforms, TransformFails, CleansUp, diskVars, historyVars
<1>3. writes' = writes
  BY DEF Called, Opens, ChoosesName, Moves, CreatesTemp, FailsToCreate, AppliesKeyfiles,
      KeyfileFails, FailsToCleanUp, RenameFails, CopyFails, Stats, FailsToOverwrite,
      FailsToUnlink, Crash, Transforms, TransformFails, CleansUp, Fault, boundVars
<1>4. Answers
  BY <1>2, <1>3 DEF Answers
<1>5. ASSUME NEW n \in Names, Exists(n) PROVE data'[dir[n]] = data[dir[n]]
  <2>1. dir[n] \in Inodes
    BY <1>1, <1>5, OriginTypes
  <2>2. CASE \/ \E r \in Requests : Called(j, r)
             \/ Opens(j) \/ ChoosesName(j) \/ Moves(j)
    BY <1>1, <2>2, MovesKeep DEF Called, Opens, ChoosesName, diskVars
  <2>3. CASE Transforms(j) \/ TransformFails(j) \/ CleansUp(j)
    <3>1. pc[j] \in {"transform", "cleanup"}
      BY <2>3 DEF Transforms, TransformFails, CleansUp
    <3>2. dir[n] # Temp(j)
      BY <1>1, <3>1 DEF TempOK, PlaceOK, Hidden, Holding
    <3>3. data' = data \/ \E c : data' = [data EXCEPT ![Temp(j)] = c]
      BY <2>3 DEF Transforms, TransformFails, CleansUp
    <3> QED
      BY <1>1, <2>1, <3>2, <3>3 DEF TypeInv, TypeOK
  <2> QED
    BY <2>2, <2>3
<1>6. /\ pc'[j] # "fill"
      /\ pc'[j] \in {"stat", "shred"} =>
           \/ pc[j] \in {"stat", "shred"} /\ req'[j] = req[j] /\ read'[j] = read[j]
           \/ req'[j].op = "shred"
  <2>1. ASSUME NEW r \in Requests, Called(j, r)
        PROVE  pc'[j] # "fill" /\ pc'[j] # "stat" /\ (pc'[j] = "shred" => req'[j].op = "shred")
    BY <1>1, <2>1 DEF Called, Goto, TypeInv, TypeOK
  <2>2. CASE Stats(j)
    BY <1>1, <2>2 DEF Stats, Goto, TypeInv, TypeOK, jobVars
  <2>3. CASE \/ Opens(j) \/ ChoosesName(j)
             \/ Transforms(j) \/ TransformFails(j) \/ CleansUp(j)
             \/ Moves(j) /\ ~Stats(j)
    <3>1. pc'[j] \notin {"fill", "stat", "shred"}
      BY <1>1, <2>3
      DEF Opens, ChoosesName, Transforms, TransformFails, CleansUp, AfterFailure, Moves,
          CreatesTemp, FailsToCreate, AppliesKeyfiles, KeyfileFails, FailsToCleanUp,
          RenameFails, CopyFails, FailsToOverwrite, FailsToUnlink, Crash, Goto, TypeInv,
          TypeOK
    <3> QED
      BY <3>1
  <2> QED
    BY <2>1, <2>2, <2>3
<1> QED
  BY <1>1, <1>2, <1>4, <1>5, <1>6, QuietCounted

LEMMA NextLossInv == LossInv /\ [Next]_vars => LossInv'
<1> SUFFICES ASSUME LossInv, [Next]_vars PROVE LossInv'
  OBVIOUS
<1>1. PlacesInv'
  BY NextPlacesInv DEF LossInv
<1>2. CASE \E n \in Shared : Write(n) \/ Delete(n)
  BY <1>1, <1>2, NamesAssumption, WriteCounted, DeleteCounted DEF LossInv
<1>3. ASSUME NEW j \in Jobs, JobStep(j) \/ Crash(j) PROVE Counted'
  BY <1>3, RestCounted, CommitCounted, CopyStartsCounted, CopyEndsCounted, OverwritesCounted,
     UnlinksCounted
  DEF JobStep, Moves
<1>4. CASE UNCHANGED vars
  BY <1>1, <1>4
  DEF vars, diskVars, jobVars, boundVars, historyVars, LossInv, Counted, LandsOK, Live,
      Enough, Holders, Waiting, Exists, Content
<1> QED
  BY <1>1, <1>2, <1>3, <1>4 DEF Next, LossInv

\* commands/mod.rs: commands that run at once, while others write and delete in the
\* same directory, with failures and crashes at any point, lose nothing that was
\* written but what a user or another program destroyed or what others changed
\* meanwhile.
THEOREM NothingIsLost == Spec => [](~alone => NothingLost)
<1>1. LossInv => (~alone => NothingLost)
  <2> SUFFICES ASSUME LossInv, ~alone, NEW v \in 1 .. writes, v \notin asked \cup raced
               PROVE  v \in Kept
    BY DEF NothingLost
  <2>1. v \in Origins /\ Live(v)
    BY BoundsAssumption
    DEF Origins, Live, LossInv, PlacesInv, RemnantInv, TypeInv, TypeOK
  <2>2. Enough(v)
    BY <2>1 DEF LossInv, Counted
  <2>3. Holders(v) # {}
    BY <2>2, FiniteCounts, FS_EmptySet DEF Enough
  <2> QED
    BY <2>3 DEF Holders, Kept
<1> QED
  BY <1>1, InitLossInv, NextLossInv, PTL DEF Spec

-----------------------------------------------------------------------------
(* One command at a time: names are free when they are used.                *)

\* Whenever a name may be chosen, one of those to try is free: the name with a
\* random number, which the program falls back on, is not needed.
NamesLeft ==
  (\E j \in Jobs : pc[j] \in {"idle", "name"}) =>
    \A n \in Names : \E i \in 1 .. Len(Siblings[n]) : ~Exists(Siblings[n][i])

Moving(j) == pc[j] \in Stages
Chosen(j) == req[j].output = NoName

\* A destination has been chosen, and nothing has been put there yet.
AwaitsName(j) ==
  \/ req[j].op = "encrypt" /\ pc[j] \in {"open", "create", "keyfile", "transform"}
  \/ pc[j] \in {"commit", "copy"}

\* The input is to be as it was read.
Expects(j) ==
  /\ req[j].op # "shred"
  /\ \/ pc[j] \in {"name", "commit", "copy"}
     \/ pc[j] \in {"fill", "stat", "shred"} /\ out[j] # req[j].input

\* What a command that works by itself finds.
AloneOK(j) ==
  /\ Chosen(j) /\ AwaitsName(j) => ~Exists(out[j])
  /\ pc[j] \in {"create", "keyfile", "transform"} => fd[j] = dir[req[j].input]
  /\ Expects(j) => Exists(req[j].input) /\ Content(req[j].input) = read[j]
  /\ pc[j] = "fill" => fd[j] = dir[out[j]] /\ data[fd[j]] = Blank
  /\ pc[j] = "unlink" => Exists(req[j].input) /\ Content(req[j].input) = Wiped

AloneInv ==
  alone => /\ raced \subseteq {0}
           /\ \A j, k \in Jobs : Moving(j) /\ Moving(k) => j = k
           /\ \A j \in Jobs : Moving(j) => AloneOK(j)

LEMMA FreeName ==
  ASSUME NEW n \in Names, NEW m \in 1 .. Len(Siblings[n]), ~Exists(Siblings[n][m])
  PROVE  ~Exists(UniqueOutputPath(n))
<1> DEFINE s == Siblings[n]
           free == {i \in 1 .. Len(s) : ~Exists(s[i])}
<1>1. Len(s) \in Nat /\ m \in free
  BY OutputsAssumption
<1>2. \E i \in free : \A k \in free : i <= k
  BY <1>1, LeastNumber
<1>3. (CHOOSE i \in free : \A k \in free : i <= k) \in free
  BY <1>2
<1>4. UniqueOutputPath(n) = s[CHOOSE i \in free : \A k \in free : i <= k]
  BY <1>1, Zenon DEF UniqueOutputPath
<1> QED
  BY <1>3, <1>4

LEMMA FreeDestination ==
  ASSUME NamesLeft, NEW j \in Jobs, pc[j] \in {"idle", "name"},
         NEW r, r.output = NoName, NEW n \in Names
  PROVE  ~Exists(Destination(r, n))
<1>1. PICK i \in 1 .. Len(Siblings[n]) : ~Exists(Siblings[n][i])
  BY DEF NamesLeft
<1> QED
  BY <1>1, FreeName DEF Destination

\* What is not written to stays as it is.
LEMMA ContentStays ==
  ASSUME TypeInv, NEW n \in Names, Exists(n), dir'[n] = dir[n],
         NEW i \in Inodes, i # dir[n], NEW c, data' = [data EXCEPT ![i] = c]
  PROVE  Exists(n)' /\ Content(n)' = Content(n)
  BY OriginTypes DEF TypeInv, TypeOK, Exists, Content

\* A file takes nothing with it that is being copied, when nobody copies.
LEMMA OnlyItsContent ==
  ASSUME NEW n, \A k \in Jobs : pc[k] # "fill"
  PROVE  OriginsAt(n) = {Content(n).origin}
  BY DEF OriginsAt

LEMMA InitAloneInv == Init => AloneInv
  BY DEF Init, AloneInv, Moving, Stages

\* The command that takes a step, by stage.
LEMMA CalledAlone ==
  ASSUME PlacesInv, NamesLeft, NEW j \in Jobs, NEW r \in Requests, Called(j, r)
  PROVE  AloneOK(j)' /\ raced' = raced
<1>1. TypeInv
  BY DEF PlacesInv, RemnantInv
<1>2. /\ pc[j] = "idle" /\ req'[j] = r /\ UNCHANGED <<dir, data, fd, read, raced>>
      /\ pc'[j] \in {"failed", "shred", "open"}
      /\ pc'[j] = "shred" => r.op = "shred"
      /\ pc'[j] = "open" /\ r.op = "encrypt" => out'[j] = Destination(r, ContainerOf[r.input])
  BY <1>1 DEF Called, Goto, TypeInv, TypeOK, diskVars, historyVars
<1>3. r.op = "encrypt" /\ r.output = NoName => ~Exists(Destination(r, ContainerOf[r.input]))
  BY <1>2, FreeDestination, OutputsAssumption
<1>4. Chosen(j)' /\ AwaitsName(j)' => ~Exists(out[j])'
  BY <1>2, <1>3 DEF Chosen, AwaitsName, Exists
<1> QED
  BY <1>2, <1>4 DEF AloneOK, Expects

LEMMA OpensAlone ==
  ASSUME TypeInv, NEW j \in Jobs, AloneOK(j), Opens(j)
  PROVE  AloneOK(j)' /\ raced' = raced
<1>1. /\ pc[j] = "open" /\ fd'[j] = dir[req[j].input] /\ pc'[j] \in {"create", "failed"}
      /\ UNCHANGED <<dir, data, req, out, raced>>
  BY DEF Opens, Goto, TypeInv, TypeOK, diskVars, historyVars
<1> QED
  BY <1>1 DEF AloneOK, Chosen, AwaitsName, Expects, Exists

\* The steps that leave files and destination as they are.
LEMMA MovesAlone ==
  ASSUME TypeInv, NEW j \in Jobs, AloneOK(j), Moves(j)
  PROVE  AloneOK(j)' /\ raced' = raced
<1>1. UNCHANGED <<dir, data, req, out, fd, read, asked, raced>>
  BY MovesKeep
<1>2. \/ pc'[j] \in {"cleanup", "failed", "crashed", "done"}
      \/ pc[j] = "create" /\ pc'[j] = "keyfile"
      \/ pc[j] = "keyfile" /\ pc'[j] = "transform"
      \/ pc[j] = "commit" /\ pc'[j] = "copy"
      \/ pc[j] = "stat" /\ pc'[j] = "shred"
  BY DEF Moves, CreatesTemp, FailsToCreate, AppliesKeyfiles, KeyfileFails, FailsToCleanUp,
     RenameFails, CopyFails, Stats, FailsToOverwrite, FailsToUnlink, Crash, Goto,
     AfterFailure, TypeInv, TypeOK
<1>3. CASE pc'[j] \in {"cleanup", "failed", "crashed", "done"}
  BY <1>1, <1>3 DEF AloneOK, AwaitsName, Expects
<1>4. CASE \/ pc[j] = "create" /\ pc'[j] = "keyfile"
           \/ pc[j] = "keyfile" /\ pc'[j] = "transform"
  BY <1>1, <1>4 DEF AloneOK, Chosen, AwaitsName, Expects, Exists
<1>5. CASE \/ pc[j] = "commit" /\ pc'[j] = "copy"
           \/ pc[j] = "stat" /\ pc'[j] = "shred"
  BY <1>1, <1>5 DEF AloneOK, Chosen, AwaitsName, Expects, Exists, Content
<1> QED
  BY <1>2, <1>3, <1>4, <1>5

LEMMA TransformsAlone ==
  ASSUME PlacesInv, NEW j \in Jobs, AloneOK(j), Transforms(j)
  PROVE  AloneOK(j)' /\ raced' = raced
<1>1. TypeInv /\ TempOK(j) /\ PlaceOK(j) /\ JobOK(j)
  BY DEF PlacesInv, RemnantInv, TypeInv
<1>2. /\ pc[j] = "transform" /\ pc'[j] \in {"name", "commit"}
      /\ pc'[j] = "commit" => req[j].op = "encrypt"
      /\ data' = [data EXCEPT ![Temp(j)] = Result(req[j], data[fd[j]])]
      /\ read'[j] = data[fd[j]]
      /\ UNCHANGED <<dir, req, out, fd, raced>>
  <2>1. req[j].op \in {"encrypt", "decrypt"}
    BY <1>1 DEF JobOK, Streaming, Transforms
  <2> QED
    BY <1>1, <2>1 DEF Transforms, Goto, TypeInv, TypeOK, historyVars
<1>3. fd[j] = dir[req[j].input] /\ fd[j] \in Inodes /\ req[j].input \in Names
  BY <1>1, <1>2, RequestsAssumption DEF AloneOK, JobOK, WithFile
<1>4. Exists(req[j].input) /\ dir[req[j].input] # Temp(j)
  BY <1>1, <1>2, <1>3, NoFileAssumption DEF Exists, TempOK, PlaceOK, Hidden, Holding
<1>5. Exists(req[j].input)' /\ Content(req[j].input)' = read'[j]
  BY <1>1, <1>2, <1>3, <1>4, InodeTypes, ContentStays DEF Content, Exists
<1>6. Chosen(j)' /\ AwaitsName(j)' => ~Exists(out[j])'
  BY <1>2 DEF AloneOK, Chosen, AwaitsName, Exists
<1> QED
  BY <1>2, <1>5, <1>6 DEF AloneOK

\* A failed transformation and the clean-up write to the temporary file only.
LEMMA FailureAlone ==
  ASSUME TypeInv, NEW j \in Jobs, TransformFails(j) \/ CleansUp(j)
  PROVE  AloneOK(j)' /\ raced' = raced
<1>1. pc'[j] \in {"cleanup", "failed"} /\ raced' = raced
  BY DEF TransformFails, CleansUp, AfterFailure, Goto, TypeInv, TypeOK, historyVars
<1> QED
  BY <1>1 DEF AloneOK, AwaitsName, Expects

LEMMA ChoosesNameAlone ==
  ASSUME TypeInv, NamesLeft, NEW j \in Jobs, AloneOK(j), ChoosesName(j)
  PROVE  AloneOK(j)' /\ raced' = raced
<1>1. /\ pc[j] = "name" /\ pc'[j] = "commit"
      /\ out'[j] = Destination(req[j], StoredName(read[j]))
      /\ UNCHANGED <<dir, data, req, read, raced>>
  BY DEF ChoosesName, Goto, TypeInv, TypeOK, diskVars, historyVars
<1>2. StoredName(read[j]) \in Names
  <2>1. read[j].names \in Seq(Names) /\ read[j].names # <<>>
    BY <1>1 DEF TypeInv, TypeOK, JobOK, Contents
  <2> QED
    BY <2>1 DEF StoredName
<1>3. Chosen(j)' /\ AwaitsName(j)' => ~Exists(out[j])'
  BY <1>1, <1>2, FreeDestination DEF Chosen, Exists
<1> QED
  BY <1>1, <1>3 DEF AloneOK, Expects, Exists, Content

\* A destination that was chosen replaces nothing.
LEMMA ReplacesAlone ==
  ASSUME NEW j \in Jobs, AloneOK(j), pc[j] \in {"commit", "copy"}, Replaces(j)
  PROVE  raced' = raced
  BY DEF AloneOK, Chosen, AwaitsName, Replaces

LEMMA CommitAlone ==
  ASSUME PlacesInv, NEW j \in Jobs, AloneOK(j), CommitsByRename(j)
  PROVE  AloneOK(j)' /\ raced' = raced
<1>1. TypeInv /\ JobOK(j)
  BY DEF PlacesInv, RemnantInv, TypeInv
<1>2. /\ pc[j] = "commit" /\ pc'[j] \in {"stat", "shred", "done"}
      /\ dir' = [dir EXCEPT ![out[j]] = Temp(j)]
      /\ UNCHANGED <<data, req, out, fd, read>>
      /\ Replaces(j)
  BY <1>1 DEF CommitsByRename, AfterCommit, Goto, TypeInv, TypeOK, jobVars
<1>3. /\ req[j].op # "shred" /\ req[j].input \in Names
      /\ Exists(req[j].input) /\ Content(req[j].input) = read[j]
  BY <1>1, <1>2, RequestsAssumption DEF AloneOK, Expects, JobOK, Streaming
<1>4. out[j] # req[j].input => dir'[req[j].input] = dir[req[j].input]
  BY <1>1, <1>2, <1>3 DEF TypeInv, TypeOK
<1>5. Expects(j)' => Exists(req[j].input)' /\ Content(req[j].input)' = read'[j]
  BY <1>2, <1>3, <1>4 DEF Expects, Exists, Content
<1> QED
  BY <1>2, <1>5, ReplacesAlone DEF AloneOK, AwaitsName

LEMMA CopyStartsAlone ==
  ASSUME PlacesInv, NEW j \in Jobs, AloneOK(j), CopyStarts(j)
  PROVE  AloneOK(j)' /\ raced' = raced
<1>1. TypeInv /\ JobOK(j) /\ PlaceOK(j) /\ DirOK
  BY DEF PlacesInv, RemnantInv, TypeInv
<1>2. /\ pc[j] = "copy" /\ out[j] \in Names /\ req[j] \in Requests
      /\ req[j].op \in {"encrypt", "decrypt"}
      /\ CopyTarget(j) \in Inodes
      /\ dir' = [dir EXCEPT ![out[j]] = CopyTarget(j)]
      /\ data' = [data EXCEPT ![CopyTarget(j)] = Blank]
      /\ fd' = [fd EXCEPT ![j] = CopyTarget(j)]
  BY <1>1, CopyStartsStep
<1>3. pc'[j] = "fill" /\ UNCHANGED <<req, out, read>> /\ Replaces(j)
  BY <1>1 DEF CopyStarts, Goto, TypeInv, TypeOK
<1>4. /\ req[j].input \in Names
      /\ Exists(req[j].input) /\ Content(req[j].input) = read[j]
  BY <1>2, RequestsAssumption DEF AloneOK, Expects
<1>5. fd'[j] = dir'[out[j]] /\ data'[fd'[j]] = Blank
  BY <1>1, <1>2 DEF TypeInv, TypeOK
<1>6. ASSUME out[j] # req[j].input
      PROVE  Exists(req[j].input)' /\ Content(req[j].input)' = read'[j]
  <2>1. dir'[req[j].input] = dir[req[j].input]
    BY <1>1, <1>2, <1>4, <1>6 DEF TypeInv, TypeOK
  <2>2. CopyTarget(j) # dir[req[j].input]
    <3>1. CASE Exists(out[j])
      BY <1>1, <1>2, <1>4, <1>6, <3>1 DEF CopyTarget, DirOK
    <3>2. CASE ~Exists(out[j])
      BY <1>1, <1>2, <1>4, <3>2 DEF CopyTarget, PlaceOK, BeforeCopy
    <3> QED
      BY <3>1, <3>2
  <2> QED
    BY <1>1, <1>2, <1>3, <1>4, <2>1, <2>2, ContentStays DEF Exists, Content
<1> QED
  BY <1>2, <1>3, <1>5, <1>6, ReplacesAlone DEF AloneOK, AwaitsName, Expects

LEMMA CopyEndsAlone ==
  ASSUME PlacesInv, NEW j \in Jobs, AloneOK(j), CopyEnds(j)
  PROVE  AloneOK(j)' /\ raced' = raced \cup {0}
<1>1. TypeInv /\ JobOK(j) /\ DirOK
  BY DEF PlacesInv, RemnantInv, TypeInv
<1>2. /\ pc[j] = "fill" /\ fd[j] \in Inodes
      /\ data' = [data EXCEPT ![fd[j]] = data[Temp(j)]]
  BY <1>1, CopyEndsStep
<1>3. /\ pc'[j] \in {"stat", "shred", "done"}
      /\ UNCHANGED <<dir, req, out, fd, read>>
      /\ raced' = raced \cup {data[fd[j]].origin}
  BY <1>1 DEF CopyEnds, AfterCommit, Goto, TypeInv, TypeOK, jobVars
<1>4. fd[j] = dir[out[j]] /\ data[fd[j]] = Blank
  BY <1>2 DEF AloneOK
<1>5. /\ req[j].op # "shred" /\ req[j].input \in Names /\ out[j] \in Names
  BY <1>1, <1>2, RequestsAssumption DEF JobOK, Streaming, WithName
<1>6. ASSUME out[j] # req[j].input
      PROVE  Exists(req[j].input)' /\ Content(req[j].input)' = read'[j]
  <2>1. Exists(req[j].input) /\ Content(req[j].input) = read[j]
    BY <1>2, <1>5, <1>6 DEF AloneOK, Expects
  <2>2. dir[req[j].input] # fd[j]
    BY <1>1, <1>4, <1>5, <1>6, <2>1 DEF DirOK
  <2> QED
    BY <1>1, <1>2, <1>3, <1>5, <2>1, <2>2, ContentStays DEF Exists, Content
<1> QED
  BY <1>3, <1>4, <1>6, ContentTypes DEF AloneOK, AwaitsName, Expects

LEMMA OverwritesAlone ==
  ASSUME PlacesInv, NEW j \in Jobs, AloneOK(j), Overwrites(j),
         \A k \in Jobs : pc[k] # "fill"
  PROVE  AloneOK(j)' /\ raced' = raced
<1>1. TypeInv /\ JobOK(j)
  BY DEF PlacesInv, RemnantInv, TypeInv
<1>2. /\ pc[j] = "shred" /\ pc'[j] = "unlink" /\ Exists(req[j].input)
      /\ data' = [data EXCEPT ![dir[req[j].input]] = Wiped]
      /\ UNCHANGED <<dir, req, out, fd, read>>
      /\ Destroys(j, read[j])
  BY <1>1 DEF Overwrites, Goto, TypeInv, TypeOK, jobVars
<1>3. req[j].input \in Names
  BY <1>1, <1>2, RequestsAssumption DEF JobOK
<1>4. dir[req[j].input] \in Inodes
  BY <1>1, <1>2, <1>3, OriginTypes
<1>5. Exists(req[j].input)' /\ Content(req[j].input)' = Wiped
  BY <1>1, <1>2, <1>3, <1>4 DEF Exists, Content, TypeInv, TypeOK
<1>6. CASE req[j].op = "shred" \/ out[j] = req[j].input
  BY <1>2, <1>5, <1>6 DEF AloneOK, AwaitsName, Expects, Destroys
<1>7. CASE req[j].op # "shred" /\ out[j] # req[j].input
  <2>1. Content(req[j].input) = read[j]
    BY <1>2, <1>7 DEF AloneOK, Expects
  <2>2. OriginsAt(req[j].input) = {read[j].origin}
    BY <2>1, OnlyItsContent
  <2> QED
    BY <1>2, <1>5, <1>7, <2>2 DEF AloneOK, AwaitsName, Expects, Destroys
<1> QED
  BY <1>6, <1>7

LEMMA UnlinksAlone ==
  ASSUME TypeInv, NEW j \in Jobs, AloneOK(j), Unlinks(j), \A k \in Jobs : pc[k] # "fill"
  PROVE  AloneOK(j)' /\ raced' = raced
<1>1. pc[j] = "unlink" /\ pc'[j] = "done" /\ Destroys(j, Wiped)
  BY DEF Unlinks, Goto, TypeInv, TypeOK
<1>2. OriginsAt(req[j].input) = {Wiped.origin}
  BY <1>1, OnlyItsContent DEF AloneOK
<1> QED
  BY <1>1, <1>2 DEF AloneOK, AwaitsName, Expects, Destroys

\* Each step of a command but its call.
LEMMA OwnAlone ==
  ASSUME PlacesInv, NamesLeft, NEW j \in Jobs, AloneOK(j), JobStep(j) \/ Crash(j),
         \A r \in Requests : ~Called(j, r), \A k \in Jobs \ {j} : pc[k] # "fill"
  PROVE  AloneOK(j)' /\ raced' \subseteq raced \cup {0}
<1>1. TypeInv
  BY DEF PlacesInv, RemnantInv
<1>2. CASE Overwrites(j) \/ Unlinks(j)
  <2>1. \A k \in Jobs : pc[k] # "fill"
    BY <1>2 DEF Overwrites, Unlinks
  <2> QED
    BY <1>1, <1>2, <2>1, OverwritesAlone, UnlinksAlone
<1>3. CASE CopyEnds(j)
  BY <1>3, CopyEndsAlone
<1>4. CASE CommitsByRename(j) \/ CopyStarts(j)
  BY <1>4, CommitAlone, CopyStartsAlone
<1>5. CASE Transforms(j) \/ TransformFails(j) \/ CleansUp(j)
  BY <1>1, <1>5, TransformsAlone, FailureAlone
<1>6. CASE Opens(j) \/ ChoosesName(j) \/ Moves(j)
  BY <1>1, <1>6, OpensAlone, ChoosesNameAlone, MovesAlone
<1> QED
  BY <1>2, <1>3, <1>4, <1>5, <1>6 DEF JobStep, Moves

\* A command that takes a step other than its call is at a stage of its work.
LEMMA StepMoves ==
  ASSUME NEW j \in Jobs, JobStep(j) \/ Crash(j), \A r \in Requests : ~Called(j, r)
  PROVE  Moving(j)
  BY DEF JobStep, Opens, CreatesTemp, FailsToCreate, AppliesKeyfiles, KeyfileFails,
      Transforms, TransformFails, CleansUp, FailsToCleanUp, ChoosesName, CommitsByRename,
      RenameFails, CopyStarts, CopyEnds, CopyFails, Stats, Overwrites, FailsToOverwrite,
      Unlinks, FailsToUnlink, Crash, Moving, Stages

LEMMA AloneStays == [Next]_vars => alone' = alone
  BY DEF Next, JobStep, Write, Delete, Called, Opens, CreatesTemp, FailsToCreate,
      AppliesKeyfiles, KeyfileFails, Transforms, TransformFails, CleansUp, FailsToCleanUp,
      ChoosesName, CommitsByRename, RenameFails, CopyStarts, CopyEnds, CopyFails, Stats,
      Overwrites, FailsToOverwrite, Unlinks, FailsToUnlink, Crash, Fault, vars, boundVars

LEMMA NextAloneInv == PlacesInv /\ AloneInv /\ NamesLeft /\ [Next]_vars => AloneInv'
<1> SUFFICES ASSUME PlacesInv, AloneInv, NamesLeft, [Next]_vars, alone PROVE AloneInv'
  BY AloneStays DEF AloneInv
<1>1. /\ TypeInv /\ raced \subseteq {0}
      /\ \A j, k \in Jobs : Moving(j) /\ Moving(k) => j = k
      /\ \A j \in Jobs : Moving(j) => AloneOK(j)
  BY DEF PlacesInv, RemnantInv, AloneInv
<1>2. ASSUME \A j \in Jobs : ~Moving(j)', raced' = raced PROVE AloneInv'
  BY <1>1, <1>2 DEF AloneInv
<1>3. ASSUME Quiet PROVE \A j \in Jobs : ~Moving(j)
  BY <1>3 DEF Quiet, Moving, Resting, Stages
<1>4. CASE \E n \in Shared : Write(n) \/ Delete(n)
  <2>1. Quiet /\ pc' = pc /\ raced' = raced
    BY <1>4 DEF Write, Delete
  <2> QED
    BY <1>2, <1>3, <2>1 DEF Moving
<1>5. ASSUME NEW j \in Jobs, JobStep(j) \/ Crash(j) PROVE AloneInv'
  <2>1. \A k \in Jobs \ {j} : ~Moving(k) /\ pc'[k] = pc[k]
    <3>1. \A k \in Jobs \ {j} : pc'[k] = pc[k]
      BY <1>1, <1>5, OthersKeep
    <3>2. CASE \E r \in Requests : Called(j, r)
      BY <1>3, <3>1, <3>2 DEF Called
    <3>3. CASE \A r \in Requests : ~Called(j, r)
      BY <1>1, <1>5, <3>1, <3>3, StepMoves
    <3> QED
      BY <3>2, <3>3
  <2>2. AloneOK(j)' /\ raced' \subseteq {0}
    <3>1. CASE \E r \in Requests : Called(j, r)
      BY <1>1, <3>1, CalledAlone
    <3>2. CASE \A r \in Requests : ~Called(j, r)
      <4>1. AloneOK(j)
        BY <1>1, <1>5, <3>2, StepMoves
      <4>2. \A k \in Jobs \ {j} : pc[k] # "fill"
        BY <2>1 DEF Moving, Stages
      <4> QED
        BY <1>1, <1>5, <3>2, <4>1, <4>2, OwnAlone
    <3> QED
      BY <3>1, <3>2
  <2>3. \A k \in Jobs : Moving(k)' => k = j
    BY <2>1 DEF Moving
  <2> QED
    BY <2>2, <2>3 DEF AloneInv
<1>6. CASE UNCHANGED vars
  BY <1>1, <1>6
  DEF vars, diskVars, jobVars, boundVars, historyVars, AloneInv, AloneOK, Moving, Chosen,
      AwaitsName, Expects, Exists, Content
<1> QED
  BY <1>4, <1>5, <1>6 DEF Next

\* README ("Existing files are never overwritten"), commands/mod.rs: commands that run one
\* after the other replace no file when they choose the destination, whatever
\* fails, as long as one of the names to try is free whenever one is chosen.
THEOREM ChosenNamesAreFree == Spec /\ []NamesLeft => NoSilentOverwriteAlone
<1>1. PlacesInv /\ AloneInv => (alone => ReplacesNothing)
  <2> SUFFICES ASSUME PlacesInv, AloneInv, alone, NEW j \in Jobs,
                      pc[j] \in {"commit", "copy"}, req[j].output = NoName
               PROVE  ~Exists(out[j])
    BY DEF ReplacesNothing
  <2> QED
    BY DEF AloneInv, AloneOK, Moving, Stages, Chosen, AwaitsName
<1>2. PlacesInv /\ AloneInv => [alone => ReplacesNothing]_vars
  BY <1>1
<1> QED
  BY <1>2, InitPlacesInv, NextPlacesInv, InitAloneInv, NextAloneInv, PTL
  DEF Spec, NoSilentOverwriteAlone

\* commands/mod.rs: commands that run one after the other, while others write and
\* delete in between, lose nothing but what a user or another program
\* destroyed, whatever fails and wherever they crash.
THEOREM NothingIsLostAlone == Spec /\ []NamesLeft => []NothingLost
<1>1. LossInv /\ AloneInv => NothingLost
  <2> SUFFICES ASSUME LossInv, AloneInv, NEW v \in 1 .. writes, v \notin asked,
                      ~alone => v \notin raced
               PROVE  v \in Kept
    BY DEF NothingLost
  <2>1. v \in Nat /\ v # 0
    BY DEF LossInv, PlacesInv, RemnantInv, TypeInv, TypeOK
  <2>2. v \notin asked \cup raced
    BY <2>1 DEF AloneInv
  <2>3. v \in Origins /\ Live(v)
    BY <2>2, BoundsAssumption
    DEF Origins, Live, LossInv, PlacesInv, RemnantInv, TypeInv, TypeOK
  <2>4. Enough(v)
    BY <2>3 DEF LossInv, Counted
  <2>5. Holders(v) # {}
    BY <2>4, FiniteCounts, FS_EmptySet DEF Enough
  <2> QED
    BY <2>5 DEF Holders, Kept
<1>2. LossInv => PlacesInv
  BY DEF LossInv
<1> QED
  BY <1>1, <1>2, InitLossInv, NextLossInv, InitAloneInv, NextAloneInv, PTL DEF Spec

-----------------------------------------------------------------------------
(* When there are names left.                                               *)

\* What unique_output_path tries for a name, without the last resort.
Tried(n) == {Siblings[n][i] : i \in 1 .. Len(Siblings[n])}

\* More names are tried than there may be files: those that other programs write
\* and two for each command.
EnoughNames == \A n \in Names : MaxWrites + 2 * Cardinality(Jobs) < Cardinality(Tried(n))

LEMMA InodeCount ==
  /\ IsFiniteSet(Inodes) /\ Cardinality(Inodes) \in Nat
  /\ Cardinality(Inodes) <= MaxWrites + 2 * Cardinality(Jobs)
<1> DEFINE W == {"write"} \X (1 .. MaxWrites)
           C == {"temp", "copy"} \X Jobs
<1>1. IsFiniteSet({"write"}) /\ Cardinality({"write"}) = 1
  BY FS_Singleton
<1>2. IsFiniteSet({"temp", "copy"}) /\ Cardinality({"temp", "copy"}) = 2
  <2>1. IsFiniteSet({"temp"}) /\ Cardinality({"temp"}) = 1
    BY FS_Singleton
  <2>2. {"temp", "copy"} = {"temp"} \cup {"copy"} /\ "copy" \notin {"temp"}
    OBVIOUS
  <2> QED
    BY <2>1, <2>2, FS_AddElement
<1>3. IsFiniteSet(1 .. MaxWrites) /\ Cardinality(1 .. MaxWrites) = MaxWrites
  BY FS_Interval, BoundsAssumption
<1>4. IsFiniteSet(Jobs) /\ Cardinality(Jobs) \in Nat
  BY FiniteAssumption, FS_CardinalityType
<1>5. IsFiniteSet(W) /\ Cardinality(W) = MaxWrites
  <2>1. IsFiniteSet(W) /\ Cardinality(W) = 1 * MaxWrites
    BY <1>1, <1>3, FS_Product
  <2> QED
    BY <2>1, BoundsAssumption
<1>6. IsFiniteSet(C) /\ Cardinality(C) = 2 * Cardinality(Jobs)
  BY <1>2, <1>4, FS_Product
<1>7. /\ IsFiniteSet(W \cup C) /\ Cardinality(W \cup C) \in Nat
      /\ Cardinality(W \cup C) = Cardinality(W) + Cardinality(C) - Cardinality(W \cap C)
      /\ Cardinality(W \cap C) \in Nat
  <2>1. /\ IsFiniteSet(W \cup C)
        /\ Cardinality(W \cup C) = Cardinality(W) + Cardinality(C) - Cardinality(W \cap C)
    BY <1>5, <1>6, FS_Union
  <2>2. IsFiniteSet(W \cap C)
    BY <1>5, FS_Intersection
  <2> QED
    BY <2>1, <2>2, FS_CardinalityType
<1>8. Inodes = W \cup C
  BY DEF Inodes
<1> QED
  BY <1>4, <1>5, <1>6, <1>7, <1>8, BoundsAssumption

\* No file has two names, so that no more names are taken than there are inodes.
LEMMA TakenNames ==
  ASSUME PlacesInv, NEW S \in SUBSET Names, \A m \in S : Exists(m)
  PROVE  Cardinality(S) \in Nat /\ Cardinality(S) <= Cardinality(Inodes)
<1> DEFINE f == [m \in S |-> dir[m]]
<1>1. f \in Injection(S, Inodes)
  <2>1. f \in [S -> Inodes]
    BY OriginTypes DEF PlacesInv, RemnantInv
  <2>2. \A m, n \in S : f[m] = f[n] => m = n
    BY DEF PlacesInv, DirOK
  <2> HIDE DEF f
  <2> QED
    BY <2>1, <2>2, Fun_IsInj
<1>2. IsFiniteSet(S) /\ Cardinality(S) <= Cardinality(Inodes)
  BY <1>1, InodeCount, FS_Injection
<1> QED
  BY <1>2, FS_CardinalityType

\* commands/mod.rs, unique_output_path: a name to try is always free, if the
\* names to try (the name itself and 9999 with a number) are more than the files that
\* others write and two for each command: the condition of the theorems above.
THEOREM NamesNeverRunOut ==
  ASSUME EnoughNames
  PROVE  Spec => []NamesLeft
<1>1. PlacesInv => NamesLeft
  <2> SUFFICES ASSUME PlacesInv, NEW n \in Names,
                      \A i \in 1 .. Len(Siblings[n]) : Exists(Siblings[n][i])
               PROVE  FALSE
    BY DEF NamesLeft
  <2>1. Tried(n) \in SUBSET Names /\ \A m \in Tried(n) : Exists(m)
    BY OutputsAssumption DEF Tried
  <2>2. Cardinality(Tried(n)) \in Nat /\ Cardinality(Tried(n)) <= Cardinality(Inodes)
    BY <2>1, TakenNames
  <2>3. Cardinality(Jobs) \in Nat
    BY FiniteAssumption, FS_CardinalityType
  <2> QED
    BY <2>2, <2>3, InodeCount, BoundsAssumption DEF EnoughNames
<1> QED
  BY <1>1, InitPlacesInv, NextPlacesInv, PTL DEF Spec
=============================================================================
