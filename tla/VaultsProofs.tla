------------------------------ MODULE VaultsProofs ------------------------------
(***************************************************************************)
(* Theorems about Vaults, for all files, sizes and limits, and however     *)
(* many vaults are made and opened.  Four invariants: what is packed, what *)
(* stays behind, what the page knows, and what the extractions write.      *)
(***************************************************************************)
EXTENDS Vaults, FiniteSetTheorems, WellFoundedInduction, TLAPS

-----------------------------------------------------------------------------
(* What is packed and committed.                                            *)

Sealed == {"seal", "encrypt", "commit", "copy"}

PackInv ==
  /\ disk \in [Files -> Sizes \cup {Gone, Link}]
  /\ vault \in Archives \cup {NoVault, Torn}
  /\ sources \in Seq(Files)
  /\ next \in Nat
  /\ packed \in Archives
  /\ pc = "pack" => next >= 1
  /\ pc \in Sealed => WithinLimit
  /\ CommittedVaultOpens

LEMMA EntryType ==
  ASSUME PackInv, pc = "pack", next <= Len(sources), disk[Source] # Gone
  PROVE  EntryOf(Source) \in Entries
<1>1. Source \in Files
  BY DEF PackInv, Source
<1>2. disk[Source] \in Sizes \cup {Link}
  BY <1>1 DEF PackInv
<1> QED
  BY <1>1, <1>2 DEF EntryOf, Entries, Types

LEMMA InitPackInv == Init => PackInv
<1> SUFFICES ASSUME Init PROVE PackInv
  OBVIOUS
<1>1. disk \in [Files -> Sizes \cup {Gone, Link}]
  BY DEF Init
<1>2. vault \in Archives \cup {NoVault, Torn}
  BY VaultAssumption DEF Init
<1>3. vault \in Archives => Opens(vault)
  BY VaultAssumption DEF Init, Opens
<1> QED
  BY <1>1, <1>2, <1>3 DEF Init, PackInv, Sealed, CommittedVaultOpens, Archives

\* Steps that leave alone what is packed and committed.
LeavesPack == UNCHANGED <<vault, sources, next, packed>> /\ pc' = pc

LEMMA UnpackedSteps ==
  ASSUME PageStep \/ SessionStep \/ \E f \in Files : Change(f)
  PROVE  LeavesPack /\ (PackInv => disk' \in [Files -> Sizes \cup {Gone, Link}])
<1>1. CASE PageStep
  BY <1>1 DEF PageStep, ClickCreate, ClickOpen, ClickInSession, Receive, Call,
     createVars, LeavesPack, PackInv
<1>2. CASE SessionStep
  <2>1. UNCHANGED <<disk, vault, createVars>>
    BY <1>2 DEF SessionStep, OpensVault, FailsToOpen, ClosesVault, ExtractsAll,
       FailsToExtractAll, ExtractsEntry, FailsToExtract
  <2> QED
    BY <2>1 DEF createVars, LeavesPack, PackInv
<1>3. ASSUME NEW f \in Files, Change(f)
      PROVE  LeavesPack /\ (PackInv => disk' \in [Files -> Sizes \cup {Gone, Link}])
  BY <1>3 DEF Change, createVars, LeavesPack, PackInv
<1> QED
  BY <1>1, <1>2, <1>3

\* create_vault ends: nothing is packed any more.
LEMMA ReturnPackInv ==
  ASSUME PackInv, Return, UNCHANGED disk,
         vault' \in Archives \cup {NoVault, Torn}, vault' \in Archives => Opens(vault)'
  PROVE  PackInv'
<1>1. packed' \in Archives /\ sources' \in Seq(Files)
  BY DEF Return, Archives
<1>2. pc' = "idle" /\ next' = 0
  BY DEF Return, Goto
<1> QED
  BY <1>1, <1>2 DEF PackInv, Sealed, CommittedVaultOpens

LEMMA CreatePackInv == PackInv /\ CreateStep => PackInv'
<1> SUFFICES ASSUME PackInv, CreateStep PROVE PackInv'
  OBVIOUS
<1>1. UNCHANGED disk
  BY DEF CreateStep, Creates, Counts, CountsNothing, NotListed, Refuses, StartsPacking,
     Packs, PacksNothing, PackFails, Measures, CreatesTemp, KeyfileFails, Encrypts,
     GivesUp, Renames, RenameFails, Copies, CopyFails, Removes, RemoveFails, OnlyCreates
<1>2. CASE Creates
  <2>1. sources' \in Seq(Files) /\ next' \in Nat
    BY <1>2, FilesAssumption DEF Creates
  <2>2. pc' = "validate" /\ UNCHANGED <<vault, packed>>
    BY <1>2 DEF Creates, Goto
  <2> QED
    BY <1>1, <2>1, <2>2 DEF PackInv, Sealed, CommittedVaultOpens, Opens
<1>3. CASE Counts \/ CountsNothing
  <2>1. pc' = "validate" /\ next' \in Nat /\ UNCHANGED <<vault, sources, packed>>
    BY <1>3 DEF Counts, CountsNothing, NotListed, PackInv
  <2> QED
    BY <1>1, <2>1 DEF PackInv, Sealed, CommittedVaultOpens, Opens
<1>4. CASE Refuses \/ PackFails \/ KeyfileFails \/ CopyFails \/ Removes \/ RemoveFails
  <2>1. Return /\ UNCHANGED vault
    BY <1>4 DEF Refuses, PackFails, KeyfileFails, CopyFails, Removes, RemoveFails
  <2> QED
    BY <1>1, <2>1, ReturnPackInv DEF PackInv, CommittedVaultOpens, Opens
<1>5. CASE StartsPacking \/ PacksNothing
  <2>1. /\ pc' = "pack" /\ next' \in Nat /\ next' >= 1
        /\ UNCHANGED <<vault, sources, packed>>
    BY <1>5 DEF StartsPacking, PacksNothing, NotListed, PackInv, Goto
  <2> QED
    BY <1>1, <2>1 DEF PackInv, Sealed, CommittedVaultOpens, Opens
<1>6. CASE Packs
  <2>1. packed' \in Archives
    BY <1>6, EntryType DEF Packs, PackInv, Archives
  <2>2. pc' = "pack" /\ next' \in Nat /\ next' >= 1 /\ UNCHANGED <<vault, sources>>
    BY <1>6 DEF Packs, PackInv
  <2> QED
    BY <1>1, <2>1, <2>2 DEF PackInv, Sealed, CommittedVaultOpens, Opens
<1>7. CASE Measures
  <2>1. CASE WithinLimit
    <3>1. pc' = "seal" /\ UNCHANGED <<vault, sources, next, packed>>
      BY <1>7, <2>1 DEF Measures, Goto
    <3> QED
      BY <1>1, <2>1, <3>1 DEF PackInv, Sealed, CommittedVaultOpens, Opens, WithinLimit
  <2>2. CASE ~WithinLimit
    <3>1. Return /\ UNCHANGED vault
      BY <1>7, <2>2 DEF Measures
    <3> QED
      BY <1>1, <3>1, ReturnPackInv DEF PackInv, CommittedVaultOpens, Opens
  <2> QED
    BY <2>1, <2>2
<1>8. CASE CreatesTemp \/ Encrypts \/ RenameFails
  <2>1. /\ pc \in Sealed /\ pc' \in Sealed /\ pc' # "pack"
        /\ vault' \in {vault, Torn} /\ UNCHANGED <<sources, next, packed>>
    BY <1>8 DEF CreatesTemp, Encrypts, RenameFails, Goto, Sealed
  <2>2. WithinLimit'
    BY <2>1 DEF PackInv, WithinLimit
  <2>3. vault' \in Archives => Opens(vault)'
    BY <2>1, VaultAssumption DEF PackInv, CommittedVaultOpens, Opens
  <2> QED
    BY <1>1, <2>1, <2>2, <2>3 DEF PackInv, CommittedVaultOpens
<1>9. CASE Renames
  <2>1. pc \in Sealed /\ vault' = packed /\ Return
    BY <1>9 DEF Renames, Sealed
  <2>2. vault' \in Archives /\ Opens(vault)'
    BY <2>1 DEF PackInv, WithinLimit, Opens
  <2> QED
    BY <1>1, <2>1, <2>2, ReturnPackInv
<1>10. CASE GivesUp \/ Copies
  <2>1. /\ pc \in Sealed /\ pc' = "remove"
        /\ vault' \in {vault, packed} /\ UNCHANGED <<sources, next, packed>>
    BY <1>10 DEF GivesUp, Copies, Goto, Sealed
  <2>2. vault' \in Archives \cup {NoVault, Torn} /\ (vault' \in Archives => Opens(vault)')
    BY <2>1 DEF PackInv, WithinLimit, CommittedVaultOpens, Opens
  <2> QED
    BY <1>1, <2>1, <2>2 DEF PackInv, Sealed, CommittedVaultOpens
<1> QED
  BY <1>2, <1>3, <1>4, <1>5, <1>6, <1>7, <1>8, <1>9, <1>10 DEF CreateStep

LEMMA NextPackInv == PackInv /\ [Next]_vars => PackInv'
<1> SUFFICES ASSUME PackInv, [Next]_vars PROVE PackInv'
  OBVIOUS
<1>1. CASE CreateStep
  BY <1>1, CreatePackInv
<1>2. CASE PageStep \/ SessionStep \/ \E f \in Files : Change(f)
  <2>1. LeavesPack /\ disk' \in [Files -> Sizes \cup {Gone, Link}]
    BY <1>2, UnpackedSteps
  <2> QED
    BY <2>1 DEF LeavesPack, PackInv, CommittedVaultOpens, Opens, WithinLimit
<1>3. CASE Crash
  <2>1. Return /\ UNCHANGED <<disk, vault>>
    BY <1>3 DEF Crash
  <2> QED
    BY <2>1, ReturnPackInv DEF PackInv, CommittedVaultOpens, Opens
<1>4. CASE UNCHANGED vars
  BY <1>4 DEF vars, createVars, PackInv, CommittedVaultOpens, Opens, WithinLimit
<1> QED
  BY <1>1, <1>2, <1>3, <1>4 DEF Next

\* A vault that create_vault has committed is within the limit up to which
\* open_vault decrypts, whatever other programs do to the files meanwhile:
\* for all files, sizes and limits, and however often it is made.
THEOREM EveryVaultOpens == Spec => []CommittedVaultOpens
<1>1. Init => PackInv
  BY InitPackInv
<1>2. PackInv /\ [Next]_vars => PackInv'
  BY NextPackInv
<1>3. PackInv => CommittedVaultOpens
  BY DEF PackInv
<1> QED
  BY <1>1, <1>2, <1>3, PTL DEF Spec

-----------------------------------------------------------------------------
(* What stays behind.                                                       *)

Excused == failed \cap Leaving
InHand == IF pc \in {"encrypt", "commit", "copy", "remove"} THEN 1 ELSE 0

RemainsInv ==
  /\ temps \in Nat
  /\ InHand <= temps
  /\ NoRemains

LEMMA ExcusedSize == IsFiniteSet(Excused) /\ Cardinality(Excused) \in Nat
<1>1. IsFiniteSet(Leaving)
  <2>1. IsFiniteSet({"crash"})
    BY FS_Singleton
  <2>2. IsFiniteSet({"crash"} \cup {"copy"})
    BY <2>1, FS_AddElement
  <2>3. IsFiniteSet(({"crash"} \cup {"copy"}) \cup {"remove"})
    BY <2>2, FS_AddElement
  <2>4. Leaving = ({"crash"} \cup {"copy"}) \cup {"remove"}
    BY DEF Leaving
  <2> QED
    BY <2>3, <2>4
<1>2. Excused \subseteq Leaving
  BY DEF Excused
<1>3. IsFiniteSet(Excused)
  BY <1>1, <1>2, FS_Subset
<1> QED
  BY <1>3, FS_CardinalityType

\* A failure counts among the excuses just when it is one.
LEMMA FaultCounts ==
  ASSUME NEW kind, Fault(kind)
  PROVE  /\ kind \notin failed /\ failed' = failed \cup {kind}
         /\ Cardinality(Excused') \in Nat
         /\ Cardinality(Excused') >= Cardinality(Excused)
         /\ kind \in Leaving => Cardinality(Excused') = Cardinality(Excused) + 1
<1>1. kind \notin failed /\ failed' = failed \cup {kind}
  BY DEF Fault
<1>2. IsFiniteSet(Excused)
  BY ExcusedSize
<1>3. CASE kind \in Leaving
  <2>1. Excused' = Excused \cup {kind} /\ kind \notin Excused
    BY <1>1, <1>3 DEF Excused
  <2>2. Cardinality(Excused') = Cardinality(Excused) + 1
    BY <1>2, <2>1, FS_AddElement
  <2> QED
    BY <1>1, <2>2, ExcusedSize
<1>4. CASE kind \notin Leaving
  <2>1. Excused' = Excused
    BY <1>1, <1>4 DEF Excused
  <2> QED
    BY <1>1, <1>4, <2>1, ExcusedSize
<1> QED
  BY <1>3, <1>4

\* The same in the words of the invariant.
LEMMA RemainsMeans ==
  RemainsInv <=> /\ temps \in Nat
                 /\ InHand <= temps
                 /\ vault = Torn => "rename" \in failed
                 /\ temps <= Cardinality(Excused) + InHand
  BY DEF RemainsInv, NoRemains, Excused, InHand

LEMMA InitRemainsInv == Init => RemainsInv
<1> SUFFICES ASSUME Init PROVE RemainsInv
  OBVIOUS
<1>1. vault # Torn
  BY VaultAssumption DEF Init
<1>2. temps = 0 /\ InHand = 0
  BY DEF Init, InHand
<1> QED
  BY <1>1, <1>2, ExcusedSize, RemainsMeans

LEMMA NextRemainsInv == PackInv /\ RemainsInv /\ [Next]_vars => RemainsInv'
<1> SUFFICES ASSUME PackInv, RemainsInv, [Next]_vars PROVE RemainsInv'
  OBVIOUS
<1>0. /\ temps \in Nat /\ InHand <= temps
      /\ vault = Torn => "rename" \in failed
      /\ temps <= Cardinality(Excused) + InHand
  BY RemainsMeans
<1> SUFFICES /\ temps' \in Nat
             /\ InHand' <= temps'
             /\ vault' = Torn => "rename" \in failed'
             /\ temps' <= Cardinality(Excused') + InHand'
  BY DEF RemainsInv, NoRemains, Excused, InHand
<1>1. ASSUME UNCHANGED <<vault, temps, failed>>, InHand' = InHand
      PROVE  /\ temps' \in Nat
             /\ InHand' <= temps'
             /\ vault' = Torn => "rename" \in failed'
             /\ temps' <= Cardinality(Excused') + InHand'
  BY <1>0, <1>1 DEF Excused
<1>2. CASE PageStep \/ \E f \in Files : Change(f)
  <2>1. UNCHANGED <<vault, temps, failed>> /\ InHand' = InHand
    BY <1>2 DEF PageStep, ClickCreate, ClickOpen, ClickInSession, Receive, Call,
       Change, createVars, boundVars, InHand
  <2> QED
    BY <1>1, <2>1
<1>3. CASE SessionStep /\ ~FailsToExtractAll
  <2>1. UNCHANGED <<vault, temps, failed>> /\ InHand' = InHand
    BY <1>3 DEF SessionStep, OpensVault, FailsToOpen, ClosesVault, ExtractsAll,
       ExtractsEntry, FailsToExtract, createVars, boundVars, InHand
  <2> QED
    BY <1>1, <2>1
<1>4. CASE FailsToExtractAll
  <2>1. Fault("extract") /\ UNCHANGED <<vault, temps, pc>>
    BY <1>4 DEF FailsToExtractAll, createVars
  <2>2. InHand' = InHand /\ InHand \in Nat
    BY <2>1 DEF InHand
  <2> QED
    BY <1>0, <2>1, <2>2, FaultCounts, ExcusedSize
<1>5. CASE Creates \/ Counts \/ CountsNothing \/ Refuses \/ StartsPacking \/ Packs
             \/ PacksNothing \/ PackFails \/ Measures
  <2>1. UNCHANGED <<vault, temps, failed>>
    BY <1>5 DEF Creates, Counts, CountsNothing, NotListed, Refuses, StartsPacking, Packs,
       PacksNothing, PackFails, Measures, boundVars
  <2>2. InHand = 0 /\ InHand' = 0
    BY <1>5 DEF Creates, Handles, Counts, CountsNothing, NotListed, Refuses, StartsPacking,
       Packs, PacksNothing, PackFails, Measures, Return, Goto, InHand
  <2> QED
    BY <1>1, <2>1, <2>2
<1>6. CASE Encrypts
  <2>1. UNCHANGED <<vault, temps, failed>> /\ InHand' = InHand
    BY <1>6 DEF Encrypts, Goto, boundVars, InHand
  <2> QED
    BY <1>1, <2>1
<1>7. CASE CreatesTemp
  <2>1. /\ temps' = temps + 1 /\ UNCHANGED <<vault, failed>>
        /\ InHand = 0 /\ InHand' = 1
    BY <1>7 DEF CreatesTemp, Goto, boundVars, InHand
  <2>2. Excused' = Excused
    BY <2>1 DEF Excused
  <2> QED
    BY <1>0, <2>1, <2>2, ExcusedSize
<1>8. CASE KeyfileFails
  <2>1. /\ Fault("keyfile") /\ UNCHANGED <<vault, temps>>
        /\ InHand = 0 /\ InHand' = 0
    BY <1>8 DEF KeyfileFails, Return, Goto, InHand
  <2> QED
    BY <1>0, <2>1, FaultCounts, ExcusedSize
<1>9. CASE GivesUp
  <2>1. /\ Fault("encrypt") /\ UNCHANGED <<vault, temps>>
        /\ InHand = 1 /\ InHand' = 1
    BY <1>9 DEF GivesUp, Goto, InHand
  <2> QED
    BY <1>0, <2>1, FaultCounts, ExcusedSize
<1>10. CASE Renames \/ Copies
  <2>1. /\ vault' = packed /\ UNCHANGED failed /\ InHand = 1
        /\ \/ temps' = temps - 1 /\ InHand' = 0
           \/ temps' = temps /\ InHand' = 1
    BY <1>10 DEF Renames, Copies, Return, Goto, boundVars, InHand
  <2>2. vault' # Torn
    BY <2>1, VaultAssumption DEF PackInv
  <2>3. Excused' = Excused
    BY <2>1 DEF Excused
  <2> QED
    BY <1>0, <2>1, <2>2, <2>3, ExcusedSize
<1>11. CASE RenameFails
  <2>1. Fault("rename") /\ UNCHANGED temps /\ InHand = 1 /\ InHand' = 1
    BY <1>11 DEF RenameFails, Goto, InHand
  <2>2. "rename" \in failed'
    BY <2>1, FaultCounts
  <2> QED
    BY <1>0, <2>1, <2>2, FaultCounts, ExcusedSize
<1>12. CASE CopyFails
  <2>1. /\ Fault("copy") /\ UNCHANGED <<vault, temps>>
        /\ InHand = 1 /\ InHand' = 0
    BY <1>12 DEF CopyFails, Return, Goto, InHand
  <2> QED
    BY <1>0, <2>1, FaultCounts, ExcusedSize DEF Leaving
<1>13. CASE Crash
  <2>1. /\ Fault("crash") /\ UNCHANGED <<vault, temps>>
        /\ InHand \in {0, 1} /\ InHand' = 0
    BY <1>13 DEF Crash, Return, Goto, InHand
  <2> QED
    BY <1>0, <2>1, FaultCounts, ExcusedSize DEF Leaving
<1>14. CASE UNCHANGED vars
  <2>1. UNCHANGED <<vault, temps, failed>> /\ InHand' = InHand
    BY <1>14 DEF vars, createVars, boundVars, InHand
  <2> QED
    BY <1>1, <2>1
<1>15. CASE Removes
  <2>1. /\ temps' = temps - 1 /\ UNCHANGED <<vault, failed>>
        /\ InHand = 1 /\ InHand' = 0
    BY <1>15 DEF Removes, Return, Goto, boundVars, InHand
  <2>2. Excused' = Excused
    BY <2>1 DEF Excused
  <2> QED
    BY <1>0, <2>1, <2>2, ExcusedSize
<1>16. CASE RemoveFails
  <2>1. /\ Fault("remove") /\ UNCHANGED <<vault, temps>>
        /\ InHand = 1 /\ InHand' = 0
    BY <1>16 DEF RemoveFails, Return, Goto, InHand
  <2> QED
    BY <1>0, <2>1, FaultCounts, ExcusedSize DEF Leaving
<1> QED
  BY <1>2, <1>3, <1>4, <1>5, <1>6, <1>7, <1>8, <1>9, <1>10, <1>11, <1>12, <1>13, <1>14,
     <1>15, <1>16
  DEF Next, CreateStep

\* A container in parts has the vault's name only after a rename that failed,
\* and temporary containers outlive their creation no oftener than the process
\* ended, a copy failed or a removal failed, however many vaults are made.
THEOREM NothingElseRemains == Spec => []NoRemains
<1>1. Init => PackInv /\ RemainsInv
  BY InitPackInv, InitRemainsInv
<1>2. PackInv /\ RemainsInv /\ [Next]_vars => (PackInv /\ RemainsInv)'
  BY NextPackInv, NextRemainsInv
<1>3. RemainsInv => NoRemains
  BY DEF RemainsInv
<1> QED
  BY <1>1, <1>2, <1>3, PTL DEF Spec

-----------------------------------------------------------------------------
(* What the page knows.                                                     *)

PageType ==
  /\ vault \in Archives \cup {NoVault, Torn}
  /\ sessions \in [Sessions -> Archives \cup {NoContent}]
  /\ opened \in 0 .. MaxOpens
  /\ requests \in Seq(Messages)
  /\ answers \in Seq({"opened", "closed"} \X Sessions)
  /\ shown \in Sessions \cup {NoSession}

OpenAsked == \E i \in DOMAIN requests : requests[i][1] = "open"
OpenAnswered == \E i \in DOMAIN answers : answers[i][1] = "opened"
CloseAsked == \E i \in DOMAIN requests : requests[i][1] = "close"
CloseAnswered == \E i \in DOMAIN answers : answers[i][1] = "closed"

\* One vault is asked for at a time, while none is shown, and after it nothing
\* is closed until it is shown.
OneOpening ==
  /\ \A i, j \in DOMAIN requests : requests[i][1] = "open" /\ requests[j][1] = "open" => i = j
  /\ \A i, j \in DOMAIN answers : answers[i][1] = "opened" /\ answers[j][1] = "opened" => i = j
  /\ ~(OpenAsked /\ OpenAnswered)
  /\ OpenAsked \/ OpenAnswered => shown = NoSession
  /\ \A i, j \in DOMAIN requests : i < j /\ requests[i][1] = "open" => requests[j][1] # "close"
  /\ OpenAnswered => ~CloseAsked
  /\ \A i, j \in DOMAIN answers : i < j /\ answers[i][1] = "opened" => answers[j][1] # "closed"

\* A session in memory is shown or about to be, and none is left that was
\* closed.
KnownSession ==
  /\ \A s \in Sessions : sessions[s] # NoContent =>
       s = shown \/ \E i \in DOMAIN answers : answers[i] = <<"opened", s>>
  /\ CloseAnswered /\ shown # NoSession => \A s \in Sessions : sessions[s] = NoContent
  /\ \A i \in DOMAIN requests :
       requests[i][1] = "close" /\ shown # NoSession => requests[i][2] = shown

PageInv == PageType /\ (~impatient => OneOpening /\ KnownSession)

LEMMA SessionNumbers == NoSession \notin Sessions
  BY DEF NoSession, Sessions

\* What is left of a queue, and a longer one.
LEMMA TailAt ==
  ASSUME NEW S, NEW q \in Seq(S), q # <<>>
  PROVE  /\ Tail(q) \in Seq(S) /\ Head(q) = q[1] /\ q[1] \in S /\ 1 \in DOMAIN q
         /\ \A i \in DOMAIN Tail(q) : i + 1 \in DOMAIN q /\ Tail(q)[i] = q[i + 1]
         /\ \A i \in DOMAIN q : i # 1 => i - 1 \in DOMAIN Tail(q) /\ Tail(q)[i - 1] = q[i]
         /\ DOMAIN q \subseteq Nat /\ DOMAIN Tail(q) \subseteq Nat /\ \A i \in DOMAIN q : i >= 1
         /\ \A i \in DOMAIN Tail(q) : i >= 1
  OBVIOUS

LEMMA AppendAt ==
  ASSUME NEW S, NEW q \in Seq(S), NEW e \in S
  PROVE  /\ Append(q, e) \in Seq(S)
         /\ DOMAIN Append(q, e) = DOMAIN q \cup {Len(q) + 1} /\ Len(q) + 1 \notin DOMAIN q
         /\ \A i \in DOMAIN q : Append(q, e)[i] = q[i] /\ i < Len(q) + 1
         /\ Append(q, e)[Len(q) + 1] = e
         /\ DOMAIN q \subseteq Nat /\ Len(q) + 1 \in Nat
  OBVIOUS

LEMMA InitPageInv == Init => PageInv
<1> SUFFICES ASSUME Init PROVE PageInv
  OBVIOUS
<1>1. PageType
  BY BoundsAssumption, VaultAssumption DEF Init, PageType, Sessions, NoSession
<1>2. OneOpening
  BY DEF Init, OneOpening, OpenAsked, OpenAnswered, CloseAsked
<1>3. KnownSession
  BY DEF Init, KnownSession, CloseAnswered
<1> QED
  BY <1>1, <1>2, <1>3 DEF PageInv

\* The page asks for something that is neither opening nor, unless of what is
\* shown, closing.
LEMMA AskPageInv ==
  ASSUME PageInv, NEW message \in Messages,
         requests' = Append(requests, message),
         message[1] # "open",
         message[1] = "close" => shown # NoSession /\ message[2] = shown,
         UNCHANGED <<vault, sessions, opened, answers, shown, impatient>>
  PROVE  PageInv'
<1> DEFINE new == Len(requests) + 1
<1>1. /\ requests' \in Seq(Messages)
      /\ DOMAIN requests' = DOMAIN requests \cup {new}
      /\ \A i \in DOMAIN requests : requests'[i] = requests[i] /\ i < new
      /\ requests'[new] = message
      /\ DOMAIN requests \subseteq Nat /\ new \in Nat
  BY AppendAt DEF PageInv, PageType
<1> HIDE DEF new
<1>2. PageType'
  BY <1>1 DEF PageInv, PageType
<1>3. ASSUME ~impatient' PROVE OneOpening' /\ KnownSession'
  <2>1. OneOpening /\ KnownSession
    BY <1>3 DEF PageInv
  <2>2. OpenAsked' = OpenAsked /\ OpenAnswered' = OpenAnswered
    BY <1>1 DEF OpenAsked, OpenAnswered
  <2>3. CASE message[1] = "close"
    <3>1. ~OpenAsked /\ ~OpenAnswered
      BY <2>1, <2>3 DEF OneOpening
    <3> QED
      BY <1>1, <2>1, <2>2, <3>1 DEF OneOpening, KnownSession, OpenAsked, OpenAnswered, CloseAnswered
  <2>4. CASE message[1] # "close"
    <3>1. CloseAsked' = CloseAsked
      BY <1>1, <2>4 DEF CloseAsked
    <3>2. OneOpening'
      BY <1>1, <2>1, <2>2, <2>4, <3>1 DEF OneOpening
    <3>3. KnownSession'
      BY <1>1, <2>1, <2>4 DEF KnownSession, CloseAnswered
    <3> QED
      BY <3>2, <3>3
  <2> QED
    BY <2>3, <2>4
<1> QED
  BY <1>2, <1>3 DEF PageInv

LEMMA ClickOpenPageInv == PageInv /\ ClickOpen => PageInv'
<1> SUFFICES ASSUME PageInv, ClickOpen PROVE PageInv'
  OBVIOUS
<1> DEFINE new == Len(requests) + 1
<1>0. <<"open", NoSession>> \in Messages
  BY DEF Messages
<1>1. /\ requests' \in Seq(Messages)
      /\ DOMAIN requests' = DOMAIN requests \cup {new}
      /\ \A i \in DOMAIN requests : requests'[i] = requests[i] /\ i < new
      /\ requests'[new] = <<"open", NoSession>>
      /\ DOMAIN requests \subseteq Nat /\ new \in Nat
  BY <1>0, AppendAt DEF ClickOpen, Call, PageInv, PageType
<1> HIDE DEF new
<1>2. UNCHANGED <<vault, sessions, opened, answers, shown>> /\ shown = NoSession
  BY DEF ClickOpen, Call, sessionVars
<1>3. PageType'
  BY <1>1, <1>2 DEF PageInv, PageType
<1>4. ASSUME ~impatient' PROVE OneOpening' /\ KnownSession'
  <2>1. OneOpening /\ KnownSession /\ ~OpenAsked /\ ~OpenAnswered
    BY <1>4 DEF PageInv, ClickOpen, OpenUnderWay, OpenAsked, OpenAnswered
  <2>2. OneOpening'
    BY <1>1, <1>2, <2>1 DEF OneOpening, OpenAsked, OpenAnswered
  <2>3. KnownSession'
    BY <1>1, <1>2, <2>1 DEF KnownSession
  <2> QED
    BY <2>2, <2>3
<1> QED
  BY <1>3, <1>4 DEF PageInv

LEMMA ReceivePageInv == PageInv /\ Receive => PageInv'
<1> SUFFICES ASSUME PageInv, Receive PROVE PageInv'
  OBVIOUS
<1>1. /\ UNCHANGED <<vault, sessions, opened, requests, impatient>>
      /\ answers # <<>> /\ answers' = Tail(answers) /\ shown' = Shows(Head(answers))
  BY DEF Receive, sessionVars
<1>2. /\ answers' \in Seq({"opened", "closed"} \X Sessions)
      /\ Head(answers) = answers[1] /\ answers[1] \in {"opened", "closed"} \X Sessions
      /\ 1 \in DOMAIN answers
      /\ \A i \in DOMAIN answers' : i + 1 \in DOMAIN answers /\ answers'[i] = answers[i + 1]
      /\ \A i \in DOMAIN answers : i # 1 => i - 1 \in DOMAIN answers' /\ answers'[i - 1] = answers[i]
      /\ DOMAIN answers \subseteq Nat /\ DOMAIN answers' \subseteq Nat
      /\ \A i \in DOMAIN answers' : i >= 1
  BY <1>1, TailAt DEF PageInv, PageType
<1>3. PageType'
  BY <1>1, <1>2 DEF PageInv, PageType, Shows
<1>4. ASSUME ~impatient' PROVE OneOpening' /\ KnownSession'
  <2>1. OneOpening /\ KnownSession
    BY <1>1, <1>4 DEF PageInv
  <2>2. CASE answers[1][1] = "opened"
    <3>1. /\ OpenAnswered /\ ~OpenAsked /\ ~CloseAsked /\ shown = NoSession
          /\ shown' = answers[1][2]
      BY <1>1, <1>2, <2>1, <2>2 DEF OneOpening, OpenAnswered, Shows
    <3>2. ~OpenAnswered' /\ ~CloseAnswered'
      BY <1>2, <2>1, <2>2 DEF OneOpening, OpenAnswered, CloseAnswered
    <3>3. ~OpenAsked' /\ ~CloseAsked'
      BY <1>1, <3>1 DEF OpenAsked, CloseAsked
    <3>4. OneOpening'
      BY <3>2, <3>3 DEF OneOpening, OpenAsked, OpenAnswered
    <3>5. ASSUME NEW s \in Sessions, sessions'[s] # NoContent PROVE s = shown'
      <4>1. PICK i \in DOMAIN answers : answers[i] = <<"opened", s>>
        BY <1>1, <2>1, <3>1, <3>5, SessionNumbers DEF KnownSession
      <4>2. i = 1
        BY <1>2, <2>1, <2>2, <4>1 DEF OneOpening
      <4> QED
        BY <3>1, <4>1, <4>2
    <3> QED
      BY <3>2, <3>3, <3>4, <3>5 DEF KnownSession, CloseAsked
  <2>3. CASE answers[1][1] # "opened"
    <3>1. shown' = NoSession /\ answers[1][1] = "closed" /\ CloseAnswered
      BY <1>1, <1>2, <2>3 DEF Shows, CloseAnswered
    <3>2. OpenAsked' = OpenAsked /\ CloseAsked' = CloseAsked
      BY <1>1 DEF OpenAsked, CloseAsked
    <3>3. OpenAnswered' => OpenAnswered
      BY <1>2 DEF OpenAnswered
    <3>4. OneOpening'
      BY <1>1, <1>2, <2>1, <3>1, <3>2, <3>3 DEF OneOpening
    <3>5. ASSUME NEW s \in Sessions, sessions'[s] # NoContent
          PROVE  \E i \in DOMAIN answers' : answers'[i] = <<"opened", s>>
      <4>1. shown = NoSession
        BY <1>1, <2>1, <3>1, <3>5 DEF KnownSession
      <4>2. PICK i \in DOMAIN answers : answers[i] = <<"opened", s>>
        BY <1>1, <2>1, <4>1, <3>5, SessionNumbers DEF KnownSession
      <4>3. i # 1
        BY <2>3, <4>2
      <4> QED
        BY <1>2, <4>2, <4>3
    <3> QED
      BY <3>1, <3>4, <3>5 DEF KnownSession
  <2> QED
    BY <2>2, <2>3
<1> QED
  BY <1>3, <1>4 DEF PageInv

\* A call is handled that neither opens nor closes a session.
LEMMA HandledPageInv ==
  ASSUME PageInv, requests # <<>>, requests' = Tail(requests),
         UNCHANGED <<vault, sessions, opened, answers, shown, impatient>>
  PROVE  PageInv'
<1>1. /\ requests' \in Seq(Messages)
      /\ \A i \in DOMAIN requests' : i + 1 \in DOMAIN requests /\ requests'[i] = requests[i + 1]
      /\ DOMAIN requests \subseteq Nat /\ DOMAIN requests' \subseteq Nat
  BY TailAt DEF PageInv, PageType
<1>2. PageType'
  BY <1>1 DEF PageInv, PageType
<1>3. ASSUME ~impatient' PROVE OneOpening' /\ KnownSession'
  <2>1. OneOpening /\ KnownSession
    BY <1>3 DEF PageInv
  <2>2. /\ OpenAsked' => OpenAsked
        /\ CloseAsked' => CloseAsked
        /\ OpenAnswered' = OpenAnswered
    BY <1>1 DEF OpenAsked, CloseAsked, OpenAnswered
  <2>3. OneOpening'
    BY <1>1, <2>1, <2>2 DEF OneOpening
  <2>4. KnownSession'
    BY <1>1, <2>1 DEF KnownSession, CloseAnswered
  <2> QED
    BY <2>3, <2>4
<1> QED
  BY <1>2, <1>3 DEF PageInv

LEMMA OpensPageInv == PageInv /\ OpensVault => PageInv'
<1> SUFFICES ASSUME PageInv, OpensVault PROVE PageInv'
  OBVIOUS
<1> DEFINE answer == <<"opened", opened'>>
           new == Len(answers) + 1
<1>1. /\ UNCHANGED <<vault, shown, impatient>>
      /\ requests # <<>> /\ Head(requests)[1] = "open" /\ requests' = Tail(requests)
      /\ vault \in Archives /\ opened' = opened + 1
      /\ sessions' = [sessions EXCEPT ![opened'] = vault]
      /\ answers' = Append(answers, answer)
  BY DEF OpensVault, Handles, Opens
<1>2. opened' \in Sessions /\ opened' \in 0 .. MaxOpens
  BY BoundsAssumption DEF OpensVault, PageInv, PageType, Sessions
<1>3. answer \in {"opened", "closed"} \X Sessions
  BY <1>2
<1>4. /\ requests' \in Seq(Messages)
      /\ Head(requests) = requests[1] /\ 1 \in DOMAIN requests
      /\ \A i \in DOMAIN requests' : i + 1 \in DOMAIN requests /\ requests'[i] = requests[i + 1]
      /\ DOMAIN requests \subseteq Nat /\ DOMAIN requests' \subseteq Nat
      /\ \A i \in DOMAIN requests' : i >= 1
  BY <1>1, TailAt DEF PageInv, PageType
<1>5. /\ answers' \in Seq({"opened", "closed"} \X Sessions)
      /\ DOMAIN answers' = DOMAIN answers \cup {new}
      /\ \A i \in DOMAIN answers : answers'[i] = answers[i] /\ i < new
      /\ answers'[new] = answer
      /\ DOMAIN answers \subseteq Nat /\ new \in Nat
  BY <1>1, <1>3, AppendAt DEF PageInv, PageType
<1> HIDE DEF new
<1>6. PageType'
  BY <1>1, <1>2, <1>4, <1>5 DEF PageInv, PageType
<1>7. ASSUME ~impatient' PROVE OneOpening' /\ KnownSession'
  <2>1. OneOpening /\ KnownSession
    BY <1>1, <1>7 DEF PageInv
  <2>2. OpenAsked /\ ~OpenAnswered /\ shown = NoSession
    BY <1>1, <1>4, <2>1 DEF OneOpening, OpenAsked
  <2>3. ~OpenAsked' /\ ~CloseAsked'
    BY <1>1, <1>4, <2>1 DEF OneOpening, OpenAsked, CloseAsked
  <2>4. \A i, j \in DOMAIN answers' :
          answers'[i][1] = "opened" => i = new /\ (j = new \/ j < i)
    BY <1>5, <2>2 DEF OpenAnswered
  <2>5. OneOpening'
    <3>1. \A i, j \in DOMAIN answers' :
            answers'[i][1] = "opened" /\ answers'[j][1] = "opened" => i = j
      BY <2>4
    <3>2. \A i, j \in DOMAIN answers' :
            i < j /\ answers'[i][1] = "opened" => answers'[j][1] # "closed"
      BY <1>5, <2>4
    <3> QED
      BY <1>1, <2>2, <2>3, <3>1, <3>2 DEF OneOpening, OpenAsked
  <2>6. \A s \in Sessions : sessions[s] = NoContent
    BY <2>1, <2>2, SessionNumbers DEF KnownSession, OpenAnswered
  <2>7. \A s \in Sessions : sessions'[s] # NoContent => answers'[new] = <<"opened", s>>
    BY <1>1, <1>5, <2>6 DEF PageInv, PageType
  <2>8. KnownSession'
    BY <1>1, <1>5, <2>2, <2>7 DEF KnownSession
  <2> QED
    BY <2>5, <2>8
<1> QED
  BY <1>6, <1>7 DEF PageInv

LEMMA ClosesPageInv == PageInv /\ ClosesVault => PageInv'
<1> SUFFICES ASSUME PageInv, ClosesVault PROVE PageInv'
  OBVIOUS
<1> DEFINE of == requests[1][2]
           new == Len(answers) + 1
<1>0. requests # <<>> /\ requests \in Seq(Messages)
  BY DEF ClosesVault, Handles, PageInv, PageType
<1>1. /\ requests' \in Seq(Messages)
      /\ Head(requests) = requests[1] /\ 1 \in DOMAIN requests /\ requests[1] \in Messages
      /\ \A i \in DOMAIN requests' : i + 1 \in DOMAIN requests /\ requests'[i] = requests[i + 1]
      /\ DOMAIN requests \subseteq Nat /\ DOMAIN requests' \subseteq Nat
  BY <1>0, TailAt DEF ClosesVault, Handles
<1>2. /\ UNCHANGED <<vault, opened, shown, impatient>>
      /\ requests[1][1] = "close"
      /\ sessions' = [sessions EXCEPT ![of] = NoContent]
      /\ answers' = Append(answers, <<"closed", of>>)
  BY <1>1 DEF ClosesVault, Handles, Without, Of
<1>3. of \in Sessions
  BY <1>1, <1>2 DEF Messages
<1>4. <<"closed", of>> \in {"opened", "closed"} \X Sessions
  BY <1>3
<1>5. /\ answers' \in Seq({"opened", "closed"} \X Sessions)
      /\ DOMAIN answers' = DOMAIN answers \cup {new}
      /\ \A i \in DOMAIN answers : answers'[i] = answers[i] /\ i < new
      /\ answers'[new] = <<"closed", of>>
  BY <1>2, <1>4, AppendAt DEF PageInv, PageType
<1> HIDE DEF new, of
<1>6. PageType'
  BY <1>1, <1>2, <1>3, <1>5 DEF PageInv, PageType
<1>7. ASSUME ~impatient' PROVE OneOpening' /\ KnownSession'
  <2>1. OneOpening /\ KnownSession
    BY <1>2, <1>7 DEF PageInv
  <2>2. CloseAsked /\ ~OpenAnswered
    BY <1>1, <1>2, <2>1 DEF OneOpening, CloseAsked
  <2>3. ~OpenAnswered'
    BY <1>5, <2>2 DEF OpenAnswered
  <2>4. OpenAsked' => OpenAsked
    BY <1>1 DEF OpenAsked
  <2>5. OneOpening'
    BY <1>1, <1>2, <2>1, <2>3, <2>4 DEF OneOpening, OpenAnswered
  <2>6. \A s \in Sessions : sessions'[s] = NoContent
    <3> SUFFICES ASSUME NEW s \in Sessions, s # of PROVE sessions[s] = NoContent
      BY <1>2, <1>3 DEF PageInv, PageType
    <3>1. shown # NoSession => of = shown
      BY <1>1, <1>2, <2>1 DEF KnownSession, of
    <3>2. s # shown
      BY <3>1, SessionNumbers
    <3> QED
      BY <2>1, <2>2, <3>2 DEF KnownSession, OpenAnswered
  <2>7. \A i \in DOMAIN requests' :
          requests'[i][1] = "close" /\ shown' # NoSession => requests'[i][2] = shown'
    BY <1>1, <1>2, <2>1 DEF KnownSession
  <2>8. KnownSession'
    BY <2>6, <2>7 DEF KnownSession
  <2> QED
    BY <2>5, <2>8
<1> QED
  BY <1>6, <1>7 DEF PageInv

LEMMA NextPageInv == PackInv /\ PackInv' /\ PageInv /\ [Next]_vars => PageInv'
<1> SUFFICES ASSUME PackInv, PackInv', PageInv, [Next]_vars PROVE PageInv'
  OBVIOUS
<1>0. vault' \in Archives \cup {NoVault, Torn}
  BY DEF PackInv
<1>1. CASE ClickCreate
  <2>1. <<"create", NoSession>> \in Messages
    BY DEF Messages
  <2>2. requests' = Append(requests, <<"create", NoSession>>)
    BY <1>1 DEF ClickCreate, Call
  <2>3. UNCHANGED <<vault, sessions, opened, answers, shown, impatient>>
    BY <1>1 DEF ClickCreate, Call, sessionVars
  <2> QED
    BY <2>1, <2>2, <2>3, AskPageInv
<1>2. CASE ClickOpen
  BY <1>2, ClickOpenPageInv
<1>3. CASE ClickInSession
  <2>1. PICK op \in {"close", "extract", "extractAll"} : Call(op, shown)
    BY <1>3 DEF ClickInSession
  <2>2. shown # NoSession /\ shown \in Sessions
    BY <1>3 DEF ClickInSession, PageInv, PageType
  <2>3. <<op, shown>> \in Messages /\ op # "open"
    BY <2>2 DEF Messages
  <2>4. /\ requests' = Append(requests, <<op, shown>>)
        /\ UNCHANGED <<vault, sessions, opened, answers, shown, impatient>>
    BY <1>3, <2>1 DEF ClickInSession, Call, sessionVars
  <2> QED
    BY <2>2, <2>3, <2>4, AskPageInv
<1>4. CASE Receive
  BY <1>4, ReceivePageInv
<1>5. CASE Creates \/ FailsToOpen \/ ExtractsAll \/ FailsToExtractAll \/ ExtractsEntry
             \/ FailsToExtract
  <2>1. /\ requests # <<>> /\ requests' = Tail(requests)
        /\ UNCHANGED <<vault, sessions, opened, answers, shown, impatient>>
    BY <1>5 DEF Creates, FailsToOpen, ExtractsAll, FailsToExtractAll, ExtractsEntry,
       FailsToExtract, Handles, sessionVars
  <2> QED
    BY <2>1, HandledPageInv
<1>6. CASE OpensVault
  BY <1>6, OpensPageInv
<1>7. CASE ClosesVault
  BY <1>7, ClosesPageInv
<1>8. ASSUME UNCHANGED <<sessions, opened, requests, answers, shown, impatient>>
      PROVE  PageInv'
  BY <1>0, <1>8 DEF PageInv, PageType, OneOpening, KnownSession, OpenAsked, OpenAnswered,
     CloseAsked, CloseAnswered
<1>9. CASE CreateStep /\ ~Creates
  <2>1. UNCHANGED <<sessions, opened, requests, answers, shown, impatient>>
    BY <1>9 DEF CreateStep, Counts, CountsNothing, NotListed, Refuses, StartsPacking,
       Packs, PacksNothing, PackFails, Measures, CreatesTemp, KeyfileFails, Encrypts,
       GivesUp, Renames, RenameFails, Copies, CopyFails, Removes, RemoveFails,
       OnlyCreates, pageVars, sessionVars
  <2> QED
    BY <2>1, <1>8
<1>10. CASE (\E f \in Files : Change(f)) \/ UNCHANGED vars
  <2>1. UNCHANGED <<sessions, opened, requests, answers, shown, impatient>>
    BY <1>10 DEF Change, vars, pageVars, sessionVars
  <2> QED
    BY <2>1, <1>8
<1>11. CASE Crash
  <2>1. /\ sessions' = [s \in Sessions |-> NoContent]
        /\ requests' = <<>> /\ answers' = <<>> /\ shown' = NoSession
        /\ UNCHANGED <<opened, impatient>>
    BY <1>11 DEF Crash
  <2>2. PageType'
    BY <1>0, <2>1 DEF PageInv, PageType
  <2>3. OneOpening' /\ KnownSession'
    BY <2>1 DEF OneOpening, KnownSession, OpenAsked, OpenAnswered, CloseAsked, CloseAnswered
  <2> QED
    BY <2>2, <2>3 DEF PageInv
<1> QED
  BY <1>1, <1>2, <1>3, <1>4, <1>5, <1>6, <1>7, <1>9, <1>10, <1>11
  DEF Next, PageStep, SessionStep, CreateStep

\* When the page shows no vault and none is on its way, no decrypted archive is
\* in memory, however many vaults are opened and closed, however many calls are
\* pending, and even if a vault is locked twice - as long as nobody asked for a
\* vault while another was on its way.
THEOREM LockedIsClosed == Spec => []LockedMeansClosed
<1>1. Init => PackInv /\ PageInv
  BY InitPackInv, InitPageInv
<1>2. PackInv /\ PageInv /\ [Next]_vars => (PackInv /\ PageInv)'
  BY NextPackInv, NextPageInv
<1>3. PageInv => LockedMeansClosed
  BY SessionNumbers DEF PageInv, KnownSession, LockedMeansClosed, OpenUnderWay
<1> QED
  BY <1>1, <1>2, <1>3, PTL DEF Spec

-----------------------------------------------------------------------------
(* What is extracted.                                                       *)

\* Positions have a first and a last one.
LEMMA LeastNumber ==
  ASSUME NEW T, T \subseteq Nat, T # {}
  PROVE  \E i \in T : \A k \in T : i <= k
<1> DEFINE Less == OpToRel(<, Nat)
<1>1. \A i, k \in Nat : <<k, i>> \in Less <=> k < i
  BY DEF OpToRel
<1>2. IsWellFoundedOn(Less, Nat)
  BY NatLessThanWellFounded
<1> HIDE DEF Less
<1>3. PICK i \in T : \A k \in T : <<k, i>> \notin Less
  BY <1>2, WFMin
<1>4. i \in Nat /\ \A k \in T : k \in Nat /\ ~(k < i)
  BY <1>1, <1>3
<1> QED
  BY <1>3, <1>4

LEMMA FirstAndLast ==
  ASSUME NEW n \in Nat, NEW T, T \subseteq 1 .. n, T # {}
  PROVE  /\ (CHOOSE i \in T : \A k \in T : i <= k) \in T
         /\ (CHOOSE i \in T : \A k \in T : k <= i) \in T
<1>1. \E i \in T : \A k \in T : i <= k
  <2>1. T \subseteq Nat
    OBVIOUS
  <2> QED
    BY <2>1, LeastNumber
<1>2. \E i \in T : \A k \in T : k <= i
  <2> DEFINE FromEnd == {n - k : k \in T}
  <2>1. FromEnd \subseteq Nat /\ FromEnd # {}
    <3>1. \A k \in T : n - k \in Nat
      OBVIOUS
    <3>2. FromEnd # {}
      OBVIOUS
    <3> QED
      BY <3>1, <3>2
  <2>2. PICK m \in FromEnd : \A k \in FromEnd : m <= k
    BY <2>1, LeastNumber
  <2>3. PICK i \in T : m = n - i
    OBVIOUS
  <2>4. ASSUME NEW k \in T PROVE k <= i
    <3>1. n - i <= n - k
      BY <2>2, <2>3
    <3>2. i \in Nat /\ k \in Nat
      BY <2>3
    <3> QED
      BY <3>1, <3>2
  <2> QED
    BY <2>4
<1>3. (CHOOSE i \in T : \A k \in T : i <= k) \in T
  BY <1>1
<1>4. (CHOOSE i \in T : \A k \in T : k <= i) \in T
  BY <1>2
<1> QED
  BY <1>3, <1>4

LEMMA ArchiveAt ==
  ASSUME NEW archive \in Archives
  PROVE  /\ Len(archive) \in Nat /\ DOMAIN archive = 1 .. Len(archive)
         /\ \A i \in DOMAIN archive :
              archive[i] \in Entries /\ PathOf(archive[i]) \in Places
<1>1. /\ Len(archive) \in Nat /\ DOMAIN archive = 1 .. Len(archive)
      /\ \A i \in DOMAIN archive : archive[i] \in Entries
  BY DEF Archives
<1> QED
  BY <1>1 DEF Entries, PathOf, Places

\* extract_all_vault writes entries of the archive, at the places that there are.
LEMMA WrittenType ==
  ASSUME NEW archive \in Archives
  PROVE  Written(archive) \in [Places -> Entries \cup {NoContent}]
<1> DEFINE there(p) == {i \in Extractable(archive) : PathOf(archive[i]) = p}
           last(p) == CHOOSE i \in there(p) : \A k \in there(p) : k <= i
<1>1. ASSUME NEW p \in Places, there(p) # {} PROVE archive[last(p)] \in Entries
  <2>1. there(p) \subseteq 1 .. Len(archive) /\ Len(archive) \in Nat
    BY ArchiveAt DEF Extractable
  <2> HIDE DEF there
  <2>2. last(p) \in there(p)
    BY <1>1, <2>1, FirstAndLast
  <2> QED
    BY <2>1, <2>2, ArchiveAt
<1>2. Written(archive) = [p \in Places |-> IF there(p) = {} THEN NoContent ELSE archive[last(p)]]
  BY DEF Written
<1> HIDE DEF there, last
<1> QED
  BY <1>1, <1>2

\* extract_vault_entry finds one for each path of a listed entry.
LEMMA FirstAtType ==
  ASSUME NEW archive \in Archives, NEW i \in Extractable(archive)
  PROVE  LET entry == FirstAt(archive, PathOf(archive[i]))
         IN  entry \in Entries /\ PathOf(entry) \in Places
<1> DEFINE there == {k \in DOMAIN archive : PathOf(archive[k]) = PathOf(archive[i])}
           first == CHOOSE k \in there : \A m \in there : k <= m
<1>1. i \in there /\ there \subseteq 1 .. Len(archive) /\ Len(archive) \in Nat
  BY ArchiveAt DEF Extractable
<1>2. FirstAt(archive, PathOf(archive[i])) = archive[first]
  BY DEF FirstAt
<1> HIDE DEF there
<1>3. first \in there
  BY <1>1, FirstAndLast
<1> QED
  BY <1>1, <1>2, <1>3, ArchiveAt

\* No two entries of an archive that have the same path: each file is where it is
\* to be.
LEMMA WrittenDistinct ==
  ASSUME NEW archive \in Archives,
         \A i, j \in DOMAIN archive : PathOf(archive[i]) = PathOf(archive[j]) => i = j,
         NEW i \in DOMAIN archive, archive[i].type = "file"
  PROVE  Written(archive)[PathOf(archive[i])] = archive[i]
<1> DEFINE p == PathOf(archive[i])
           there == {k \in Extractable(archive) : PathOf(archive[k]) = p}
<1>1. there = {i} /\ i \in Nat /\ p \in Places
  BY ArchiveAt DEF Extractable
<1>2. (CHOOSE k \in there : \A m \in there : m <= k) = i
  BY <1>1
<1> QED
  BY <1>1, <1>2 DEF Written

-----------------------------------------------------------------------------
(* Types.                                                                   *)

\* A creation that will have a temporary container, and has none yet.
Coming == IF pc \in {"validate", "pack", "seal"} THEN 1 ELSE 0

\* The variables that no other invariant is about, and what they depend on: the
\* position among the sources, the temporary containers and the extraction.
RestInv ==
  /\ pc \in Stages
  /\ sources \in Selections \cup {<<>>}
  /\ next <= Len(sources) + 1
  /\ pc = "validate" => next <= Len(sources)
  /\ total \in Nat
  /\ temps + Coming <= creates
  /\ dest \in [Places -> Entries \cup {NoContent}]
  /\ unpacked \in Archives \cup {NoContent}
  /\ unpacked # NoContent => dest = Written(unpacked)
  /\ impatient \in BOOLEAN
  /\ changes \in 0 .. MaxChanges
  /\ creates \in 0 .. MaxCreates
  /\ failed \subseteq Faults

AllInv == PackInv /\ RemainsInv /\ PageInv /\ RestInv

LEMMA InitRestInv == Init => RestInv
<1> SUFFICES ASSUME Init PROVE RestInv
  OBVIOUS
<1>1. Empty \in [Places -> Entries \cup {NoContent}]
  BY DEF Empty
<1>2. /\ pc = "idle" /\ sources = <<>> /\ next = 0 /\ total = 0 /\ temps = 0 /\ dest = Empty
      /\ unpacked = NoContent /\ impatient = FALSE /\ changes = 0 /\ creates = 0 /\ failed = {}
  BY DEF Init
<1>3. 0 \in 0 .. MaxChanges /\ 0 \in 0 .. MaxCreates
  BY BoundsAssumption
<1>4. Coming = 0 /\ Len(sources) = 0
  BY <1>2 DEF Coming
<1>5. temps + Coming <= creates /\ next <= Len(sources) + 1
  BY <1>2, <1>4
<1>6. unpacked \in Archives \cup {NoContent} /\ sources \in Selections \cup {<<>>}
  BY <1>2
<1> QED
  BY <1>1, <1>2, <1>3, <1>5, <1>6 DEF RestInv, Stages

\* Nobody touches the variables of create_vault.
LEMMA PageRest ==
  ASSUME AllInv, PageStep \/ \E f \in Files : Change(f)
  PROVE  RestInv'
<1>1. UNCHANGED <<temps, createVars, sessionVars, creates, failed>>
  BY DEF PageStep, ClickCreate, ClickOpen, ClickInSession, Receive, Call, Change, boundVars
<1>2. impatient' \in BOOLEAN
  BY DEF PageStep, ClickCreate, ClickOpen, ClickInSession, Receive, Call, Change, pageVars,
     OpenUnderWay, AllInv, RestInv
<1>3. changes' \in 0 .. MaxChanges
  BY BoundsAssumption
  DEF PageStep, ClickCreate, ClickOpen, ClickInSession, Receive, Call, Change, boundVars,
      AllInv, RestInv
<1> QED
  BY <1>1, <1>2, <1>3 DEF AllInv, RestInv, Coming, createVars, sessionVars

\* A session is named by what is asked of it.
LEMMA SessionAsked ==
  ASSUME AllInv, NEW op \in {"extract", "extractAll"}, Handles(op)
  PROVE  Of \in Sessions /\ sessions[Of] \in Archives \cup {NoContent}
<1>1. requests # <<>> /\ requests \in Seq(Messages) /\ Head(requests)[1] = op
  BY DEF Handles, AllInv, PageInv, PageType
<1>2. Head(requests) \in Messages
  BY <1>1, TailAt
<1>3. Of \in Sessions
  BY <1>1, <1>2 DEF Messages, Of
<1> QED
  BY <1>3 DEF AllInv, PageInv, PageType

LEMMA SessionRest ==
  ASSUME AllInv, SessionStep
  PROVE  RestInv'
<1>1. /\ UNCHANGED <<temps, pc, sources, next, total, impatient, changes, creates>>
      /\ failed' \subseteq Faults
  BY DEF SessionStep, OpensVault, FailsToOpen, ClosesVault, ExtractsAll, FailsToExtractAll,
     ExtractsEntry, FailsToExtract, Handles, Fault, createVars, boundVars, AllInv, RestInv
<1>2. ASSUME /\ dest' \in [Places -> Entries \cup {NoContent}]
             /\ unpacked' \in Archives \cup {NoContent}
             /\ unpacked' # NoContent => dest' = Written(unpacked')
      PROVE  RestInv'
  BY <1>1, <1>2 DEF AllInv, RestInv, Coming
<1>3. CASE OpensVault \/ FailsToOpen \/ ClosesVault \/ FailsToExtract
  <2>1. UNCHANGED <<dest, unpacked>>
    BY <1>3 DEF OpensVault, FailsToOpen, ClosesVault, FailsToExtract, sessionVars
  <2> QED
    BY <1>2, <2>1 DEF AllInv, RestInv
<1>4. CASE ExtractsAll
  <2>1. sessions[Of] \in Archives
    BY <1>4, SessionAsked DEF ExtractsAll
  <2> QED
    BY <1>2, <1>4, <2>1, WrittenType DEF ExtractsAll
<1>5. CASE FailsToExtractAll
  <2>1. sessions[Of] \in Archives
    BY <1>5, SessionAsked DEF FailsToExtractAll
  <2>2. PICK n \in 0 .. Len(sessions[Of]) - 1 : dest' = Written(SubSeq(sessions[Of], 1, n))
    BY <1>5 DEF FailsToExtractAll
  <2>3. SubSeq(sessions[Of], 1, n) \in Archives
    BY <2>1 DEF Archives
  <2> QED
    BY <1>2, <1>5, <2>2, <2>3, WrittenType DEF FailsToExtractAll
<1>6. CASE ExtractsEntry
  <2>1. sessions[Of] \in Archives
    BY <1>6, SessionAsked DEF ExtractsEntry
  <2>2. PICK i \in Extractable(sessions[Of]) :
          LET entry == FirstAt(sessions[Of], PathOf(sessions[Of][i]))
          IN  dest' = [Empty EXCEPT ![PathOf(entry)] = entry]
    BY <1>6 DEF ExtractsEntry
  <2> DEFINE entry == FirstAt(sessions[Of], PathOf(sessions[Of][i]))
  <2>3. entry \in Entries /\ PathOf(entry) \in Places
    BY <2>1, FirstAtType
  <2>4. dest' = [Empty EXCEPT ![PathOf(entry)] = entry]
    BY <2>2
  <2> HIDE DEF entry
  <2>5. dest' \in [Places -> Entries \cup {NoContent}]
    BY <2>3, <2>4 DEF Empty
  <2> QED
    BY <1>2, <1>6, <2>5 DEF ExtractsEntry
<1> QED
  BY <1>3, <1>4, <1>5, <1>6 DEF SessionStep

LEMMA SelectionTypes ==
  \A s \in Selections \cup {<<>>} : s \in Seq(Files) /\ Len(s) \in Nat
<1>1. Selections \subseteq Seq(Files)
  BY FilesAssumption
<1>2. <<>> \in Seq(Files)
  OBVIOUS
<1>3. \A s \in Seq(Files) : Len(s) \in Nat
  OBVIOUS
<1> QED
  BY <1>1, <1>2, <1>3

\* create_vault returns: the temporary container is gone, or stays.
LEMMA ReturnRest ==
  ASSUME AllInv, Return, temps' \in Nat, temps' <= temps + Coming,
         UNCHANGED <<dest, unpacked, impatient, changes, creates>>, failed' \subseteq Faults
  PROVE  RestInv'
<1>1. /\ pc' = "idle" /\ sources' = <<>> /\ next' = 0 /\ total' = 0
  BY DEF Return, Goto
<1>2. Coming' = 0 /\ Coming \in Nat
  BY <1>1 DEF Coming
<1>3. temps' + Coming' <= creates'
  <2>1. temps \in Nat /\ temps + Coming <= creates /\ creates' = creates
    BY DEF AllInv, RestInv, RemainsInv
  <2>2. creates \in Nat
    BY BoundsAssumption DEF AllInv, RestInv
  <2>3. \A a, b, c, d \in Nat : a <= b + c /\ b + c <= d => a + 0 <= d
    OBVIOUS
  <2> QED
    BY <1>2, <2>1, <2>2, <2>3
<1>4. next' <= Len(sources') + 1 /\ sources' \in Selections \cup {<<>>} /\ total' \in Nat
  BY <1>1
<1>5. pc' \in Stages /\ pc' # "validate"
  BY <1>1 DEF Stages
<1> QED
  BY <1>3, <1>4, <1>5 DEF AllInv, RestInv

LEMMA CreateRest ==
  ASSUME AllInv, CreateStep
  PROVE  RestInv'
<1>1. UNCHANGED <<dest, unpacked, impatient, changes>> /\ failed' \subseteq Faults
  BY DEF CreateStep, Creates, Counts, CountsNothing, NotListed, Refuses, StartsPacking,
     Packs, PacksNothing, PackFails, Measures, CreatesTemp, KeyfileFails, Encrypts,
     GivesUp, Renames, RenameFails, Copies, CopyFails, Removes, RemoveFails,
     OnlyCreates, Fault, Handles, pageVars, sessionVars, boundVars, AllInv, RestInv
<1>2. /\ next \in Nat /\ Len(sources) \in Nat /\ total \in Nat /\ creates \in Nat
      /\ temps \in Nat /\ InHand <= temps
  BY SelectionTypes DEF AllInv, RestInv, PackInv, RemainsInv
<1>3. CASE Creates
  <2>1. /\ sources' \in Selections /\ next' = Len(sources') /\ pc = "idle" /\ pc' = "validate"
        /\ UNCHANGED <<temps, total>> /\ creates' = creates + 1 /\ creates' \in 0 .. MaxCreates
    BY <1>2, <1>3, BoundsAssumption DEF Creates, Handles, Goto, AllInv, RestInv
  <2>2. Len(sources') \in Nat
    BY <2>1, SelectionTypes
  <2>3. temps' + Coming' <= creates'
    BY <1>2, <2>1 DEF Coming, AllInv, RestInv
  <2> QED
    BY <1>1, <2>1, <2>2, <2>3 DEF AllInv, RestInv, Stages
<1>4. CASE Counts \/ CountsNothing
  <2>1. /\ pc = "validate" /\ pc' = "validate" /\ next' = next - 1 /\ next > 0
        /\ UNCHANGED <<temps, sources, creates>>
        /\ total' = total \/ (disk[Source] \in Sizes /\ total' = total + disk[Source])
    BY <1>4 DEF Counts, CountsNothing, NotListed, boundVars
  <2>2. total' \in Nat
    <3>1. \A size \in Sizes : size \in Nat
      BY SizesAssumption
    <3> QED
      BY <1>2, <2>1, <3>1
  <2>3. next' <= Len(sources')
    BY <1>2, <2>1 DEF AllInv, RestInv
  <2> QED
    BY <1>1, <1>2, <2>1, <2>2, <2>3 DEF AllInv, RestInv, Coming
<1>5. CASE StartsPacking \/ PacksNothing \/ Packs
  <2>1. /\ pc \in {"validate", "pack"} /\ pc' = "pack"
        /\ next' = 1 \/ (next <= Len(sources) /\ next' = next + 1)
        /\ UNCHANGED <<temps, sources, total, creates>>
    BY <1>5 DEF StartsPacking, PacksNothing, Packs, NotListed, Goto, boundVars
  <2> QED
    BY <1>1, <1>2, <2>1 DEF AllInv, RestInv, Coming, Stages
<1>6. CASE \/ Refuses \/ PackFails \/ KeyfileFails \/ CopyFails \/ RemoveFails
           \/ Measures /\ ~WithinLimit
  <2>1. Return /\ UNCHANGED <<temps, creates>>
    BY <1>6 DEF Refuses, PackFails, KeyfileFails, CopyFails, RemoveFails, Measures, Fault, boundVars
  <2> QED
    BY <1>1, <1>2, <2>1, ReturnRest DEF Coming
<1>7. CASE Renames \/ Removes
  <2>1. Return /\ temps' = temps - 1 /\ UNCHANGED creates /\ InHand = 1
    BY <1>7 DEF Renames, Removes, boundVars, InHand
  <2> QED
    BY <1>1, <1>2, <2>1, ReturnRest DEF Coming
<1>8. CASE (Measures /\ WithinLimit) \/ Encrypts \/ GivesUp \/ RenameFails \/ Copies
  <2>1. /\ \/ pc = "pack" /\ pc' = "seal"
           \/ pc \in {"encrypt", "commit", "copy"} /\ pc' \in {"commit", "copy", "remove"}
        /\ UNCHANGED <<temps, sources, next, total, creates>>
    BY <1>8 DEF Measures, Encrypts, GivesUp, RenameFails, Copies, Goto, Fault, boundVars
  <2> QED
    BY <1>1, <1>2, <2>1 DEF AllInv, RestInv, Coming, Stages
<1>9. CASE CreatesTemp
  <2>1. /\ pc = "seal" /\ pc' = "encrypt" /\ temps' = temps + 1
        /\ UNCHANGED <<sources, next, total, creates>>
    BY <1>9 DEF CreatesTemp, Goto, boundVars
  <2> QED
    BY <1>1, <1>2, <2>1 DEF AllInv, RestInv, Coming, Stages
<1> QED
  BY <1>3, <1>4, <1>5, <1>6, <1>7, <1>8, <1>9 DEF CreateStep

LEMMA NextRestInv == AllInv /\ [Next]_vars => RestInv'
<1> SUFFICES ASSUME AllInv, [Next]_vars PROVE RestInv'
  OBVIOUS
<1>1. CASE Crash
  <2>1. /\ Return /\ UNCHANGED <<temps, dest, unpacked, impatient, changes, creates>>
        /\ failed' \subseteq Faults
    BY <1>1 DEF Crash, Fault, AllInv, RestInv
  <2>2. temps \in Nat /\ Coming \in {0, 1}
    BY DEF AllInv, RemainsInv, Coming
  <2> QED
    BY <2>1, <2>2, ReturnRest
<1>2. CASE UNCHANGED vars
  BY <1>2 DEF vars, createVars, pageVars, sessionVars, boundVars, AllInv, RestInv, Coming
<1> QED
  BY <1>1, <1>2, PageRest, SessionRest, CreateRest DEF Next

LEMMA AllInvariant == Spec => []AllInv
<1>1. Init => AllInv
  BY InitPackInv, InitRemainsInv, InitPageInv, InitRestInv DEF AllInv
<1>2. AllInv /\ [Next]_vars => AllInv'
  BY NextPackInv, NextRemainsInv, NextPageInv, NextRestInv DEF AllInv
<1> QED
  BY <1>1, <1>2, PTL DEF Spec

\* Every variable keeps its type: in particular the position of create_vault stays
\* within its sources, no more temporary containers are left than vaults were
\* made, and what is extracted are entries at the places of files.
THEOREM TypeCorrect == Spec => []TypeOK
<1>1. AllInv => TypeOK
  <2> SUFFICES ASSUME AllInv PROVE TypeOK
    OBVIOUS
  <2>1. next \in 0 .. Len(sources) + 1
    BY SelectionTypes DEF AllInv, PackInv, RestInv
  <2>2. temps \in 0 .. MaxCreates
    <3>1. temps \in Nat /\ Coming \in {0, 1} /\ creates \in 0 .. MaxCreates
      BY DEF AllInv, RemainsInv, RestInv, Coming
    <3> QED
      BY <3>1, BoundsAssumption DEF AllInv, RestInv
  <2> QED
    BY <2>1, <2>2 DEF AllInv, PackInv, PageInv, PageType, RestInv, TypeOK
<1> QED
  BY <1>1, AllInvariant, PTL

\* "Extracts all entries from an open vault session" (vault/mod.rs): for every archive
\* in which no two entries have the same path, each of its files is at its path
\* afterwards.
THEOREM DistinctFilesArrive == Spec => []DistinctFilesExtracted
<1>1. AllInv => DistinctFilesExtracted
  BY WrittenDistinct DEF AllInv, RestInv, DistinctFilesExtracted, EveryFileExtracted
<1> QED
  BY <1>1, AllInvariant, PTL
=============================================================================
