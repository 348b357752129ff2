------------------------------ MODULE LaunchProofs ------------------------------
(***************************************************************************)
(* Theorems about Launch, for command lines of any length.                 *)
(***************************************************************************)
EXTENDS Launch, WellFoundedInduction, TLAPS

-----------------------------------------------------------------------------
(* Types.                                                                   *)

\* Until the password has been erased the words are those that were given, and a
\* command whose words are looked at is one that the program has.
ScanOK ==
  /\ stage \notin {"call", "error"} => args = line
  /\ stage = "start" => at = 3 /\ flags = {}
  /\ stage \in {"scan", "password", "call"} =>
       /\ Len(line) >= 2 /\ Len(args) = Len(line)
       /\ Command = line[1] /\ line[1] \in Operations
       /\ at \in 3 .. Len(line) + 1
  /\ stage \in {"password", "call"} => at = Len(line) + 1
  /\ stage = "password" => line[1] \in {"encrypt", "decrypt"}

TypeInv == TypeOK /\ ScanOK

LEMMA InitTypeInv == Init => TypeInv
<1> SUFFICES ASSUME Init PROVE TypeInv
  OBVIOUS
<1>1. line \in Seq(Words) /\ args = line
  BY WordsAssumption DEF Init
<1>2. /\ stage = "start" /\ at = 3 /\ flags = {}
      /\ options = [o \in AllOptions |-> Nothing]
      /\ other \in BOOLEAN /\ password = Nothing /\ initial = Nothing
      /\ page = "loading" /\ shown = Nothing /\ handed = FALSE /\ lost = FALSE
      /\ url \in FileNames \cup {Nothing}
  BY DEF Init
<1>3. TypeOK
  BY <1>1, <1>2 DEF TypeOK
<1>4. ScanOK
  BY <1>1, <1>2 DEF ScanOK
<1> QED
  BY <1>3, <1>4 DEF TypeInv

LEMMA WordTypes ==
  ASSUME TypeOK
  PROVE  /\ Len(args) \in Nat /\ Len(line) \in Nat
         /\ \A i \in 1 .. Len(args) : args[i] \in Words
         /\ args # <<>> => Len(args) >= 1
         /\ Empty \in Words /\ "typed" \in Words /\ FileNames \subseteq Words
<1>1. args \in Seq(Words) /\ line \in Seq(Words)
  BY DEF TypeOK
<1>2. Empty \in Words /\ "typed" \in Words /\ FileNames \subseteq Words
  BY DEF Words
<1>3. /\ Len(args) \in Nat /\ Len(line) \in Nat
      /\ \A i \in 1 .. Len(args) : args[i] \in Words
      /\ args # <<>> => Len(args) >= 1
  BY <1>1
<1> QED
  BY <1>2, <1>3

LEMMA ActionTypes == \A w : ActionOf(w) \in Actions /\ Nothing \in Actions
  BY DEF ActionOf, Actions

LEMMA ReadTypes ==
  /\ \A c, o : Default(c, o) \in Words \cup {Nothing}
  /\ \A o, before : \A word \in Words :
       before \in Words \cup {Nothing} => Reads(o, word, before) \in Words \cup {Nothing}
<1>1. {"768", "1024", "16", "3", "64"} \subseteq Words
  BY DEF Words
<1> QED
  BY <1>1 DEF Default, Reads

LEMMA StartType ==
  ASSUME TypeInv, StartsCommand \/ ShowsHelp \/ Unknown
  PROVE  TypeInv'
<1>1. CASE StartsCommand
  <2>1. args = line /\ at = 3 /\ Len(line) \in Nat
    BY <1>1, WordTypes DEF StartsCommand, TypeInv, ScanOK
  <2>2. stage' \in {"error", "scan"} /\ (stage' = "scan" => Len(args) # 1 /\ Command \in Operations)
    BY <1>1 DEF StartsCommand, Goto
  <2>3. Len(args) # 1 => Len(args) >= 2
    <3>1. args # <<>>
      BY <1>1 DEF StartsCommand
    <3>2. Len(args) \in Nat /\ Len(args) >= 1
      BY <3>1, WordTypes DEF TypeInv
    <3> QED
      BY <3>2
  <2>4. /\ UNCHANGED <<args, other, at, flags, password, guiVars>>
        /\ options' \in [AllOptions -> Words \cup {Nothing}]
    BY <1>1, ReadTypes DEF StartsCommand
  <2> QED
    BY <2>1, <2>2, <2>3, <2>4 DEF TypeInv, TypeOK, ScanOK, guiVars, Command
<1>2. CASE ShowsHelp \/ Unknown
  <2>1. args = line /\ stage' \in {"exit", "error"}
    BY <1>2 DEF ShowsHelp, Unknown, Goto, TypeInv, ScanOK
  <2>2. UNCHANGED <<args, other, scanVars, password, guiVars>>
    BY <1>2 DEF ShowsHelp, Unknown
  <2> QED
    BY <2>1, <2>2 DEF TypeInv, TypeOK, ScanOK, scanVars, guiVars
<1> QED
  BY <1>1, <1>2

LEMMA OpensWindowType ==
  ASSUME TypeInv, OpensWindow
  PROVE  TypeInv'
<1>1. args = line /\ stage' = "gui"
  BY DEF OpensWindow, Goto, TypeInv, ScanOK
<1>2. UNCHANGED <<args, other, scanVars, password, page, shown, handed, lost, line, url>>
  BY DEF OpensWindow
<1>3. initial' \in Opened \cup {Nothing}
  <2>1. \A i \in 1 .. Len(args) : args[i] \in Words
    BY WordTypes DEF TypeInv
  <2>2. CASE UNCHANGED initial
    BY <2>2 DEF TypeInv, TypeOK
  <2>3. CASE Len(args) > 1 /\ initial' = [file |-> Input, action |-> ActionOf(Command)]
    BY <2>1, <2>3, WordTypes, ActionTypes DEF Opened, Input, TypeInv
  <2>4. CASE args # <<>> /\ initial' = [file |-> Command, action |-> Nothing]
    BY <2>1, <2>4, WordTypes, ActionTypes DEF Opened, Command, TypeInv
  <2> QED
    BY <2>2, <2>3, <2>4 DEF OpensWindow
<1> QED
  BY <1>1, <1>2, <1>3 DEF TypeInv, TypeOK, ScanOK, scanVars

\* What the scan finds fits, and it goes on or is over.
LEMMA ScanType ==
  ASSUME TypeInv, TakesValue \/ TakesFlag \/ PassesOver
  PROVE  TypeInv'
<1>1. /\ stage = "scan" /\ at <= Len(args) /\ args = line
      /\ UNCHANGED <<args, other, stage, password, guiVars>>
      /\ at \in Nat /\ at >= 3 /\ Len(line) \in Nat /\ Len(line) >= 2
      /\ Command \in Operations
  BY WordTypes DEF TakesValue, TakesFlag, PassesOver, Scans, TypeInv, TypeOK, ScanOK
<1>2. /\ at' \in 3 .. Len(line) + 1
      /\ flags' \subseteq Flags
  BY <1>1 DEF TakesValue, TakesFlag, PassesOver, TypeInv, TypeOK
<1>3. options' \in [AllOptions -> Words \cup {Nothing}]
  <2>1. CASE TakesValue
    <3>1. args[at + 1] \in Words
      BY <1>1, <2>1, WordTypes DEF TakesValue, TypeInv
    <3>2. \A o \in AllOptions : Reads(o, args[at + 1], options[o]) \in Words \cup {Nothing}
      BY <3>1, ReadTypes DEF TypeInv, TypeOK
    <3>3. options' = [options EXCEPT ![Word] = Reads(Word, args[at + 1], options[Word])]
      BY <2>1 DEF TakesValue
    <3> QED
      BY <3>2, <3>3 DEF TypeInv, TypeOK
  <2>2. CASE TakesFlag \/ PassesOver
    BY <2>2 DEF TakesFlag, PassesOver, TypeInv, TypeOK
  <2> QED
    BY <2>1, <2>2
<1> QED
  BY <1>1, <1>2, <1>3 DEF TypeInv, TypeOK, ScanOK, guiVars, Command

LEMMA ScannedType ==
  ASSUME TypeInv, Scanned
  PROVE  TypeInv'
<1>1. /\ stage = "scan" /\ at > Len(args) /\ args = line
      /\ at \in Nat /\ at \in 3 .. Len(line) + 1 /\ Len(line) \in Nat
      /\ UNCHANGED <<args, other, scanVars, password, guiVars>>
      /\ stage' \in {"password", "call"}
      /\ stage' = "password" => Command \in {"encrypt", "decrypt"}
  BY WordTypes DEF Scanned, Goto, TypeInv, TypeOK, ScanOK
<1>2. at = Len(line) + 1
  BY <1>1
<1> QED
  BY <1>1, <1>2 DEF TypeInv, TypeOK, ScanOK, scanVars, guiVars, Command

LEMMA PasswordType ==
  ASSUME TypeInv, PasswordFromArgs \/ PasswordTyped
  PROVE  TypeInv'
<1>1. /\ stage = "password" /\ args = line /\ Len(line) \in Nat /\ Len(line) >= 2
      /\ UNCHANGED <<other, scanVars, guiVars>>
      /\ stage' \in {"error", "call"}
  BY WordTypes
  DEF PasswordFromArgs, PasswordTyped, Proceeds, Goto, TypeInv, TypeOK, ScanOK
<1>2. /\ password' \in Words \cup {Nothing}
      /\ args' \in Seq(Words) /\ Len(args') = Len(line) /\ args'[1] = line[1]
  <2>1. CASE PasswordFromArgs
    <3>1. PICK j \in FirstPassword(args) : password' = args[j + 1] /\ args' = [args EXCEPT ![j + 1] = Empty]
      BY <2>1 DEF PasswordFromArgs
    <3>2. j + 1 \in 3 .. Len(args)
      BY <1>1 DEF FirstPassword
    <3>3. args \in Seq(Words) /\ args[j + 1] \in Words /\ Empty \in Words
      BY <1>1, <3>2, WordTypes DEF TypeInv, TypeOK
    <3> QED
      BY <1>1, <3>1, <3>2, <3>3
  <2>2. CASE PasswordTyped
    BY <1>1, <2>2, WordTypes DEF PasswordTyped, TypeInv, TypeOK
  <2> QED
    BY <2>1, <2>2
<1> QED
  BY <1>1, <1>2 DEF TypeInv, TypeOK, ScanOK, scanVars, guiVars, Command

LEMMA EmitsType ==
  ASSUME TypeInv, NEW payload \in Opened, Emits(payload)
  PROVE  shown' \in Opened \cup {Nothing} /\ lost' \in BOOLEAN
  BY DEF Emits, TypeInv, TypeOK

LEMMA PayloadTypes ==
  ASSUME TypeInv
  PROVE  /\ \A w \in Words : PayloadOf(w) \in Opened
         /\ \A i \in 1 .. Len(args) : Payload(i) \in Opened
<1>1. \A w \in Words : PayloadOf(w) \in Opened
  BY DEF PayloadOf, Opened, Actions
<1>2. ASSUME NEW i \in 1 .. Len(args) PROVE Payload(i) \in Opened
  <2>1. CASE ActionOf(args[i]) # Nothing /\ i < Len(args)
    BY <1>2, <2>1, WordTypes, ActionTypes DEF Payload, Opened, TypeInv
  <2>2. CASE ~(ActionOf(args[i]) # Nothing /\ i < Len(args))
    BY <1>1, <1>2, <2>2, WordTypes DEF Payload, TypeInv
  <2> QED
    BY <2>1, <2>2
<1> QED
  BY <1>1, <1>2

LEMMA WindowType ==
  ASSUME TypeInv, Forwards \/ HandsOver \/ PageLoads \/ PageAsks
  PROVE  TypeInv'
<1>1. CASE Forwards
  <2>1. /\ stage = "gui" /\ stage' = "over" /\ args = line
        /\ UNCHANGED <<args, other, scanVars, password, initial, page, handed, line, url>>
    BY <1>1 DEF Forwards, Goto, TypeInv, ScanOK
  <2>2. \A i \in FirstUsable : Payload(i) \in Opened
    BY WordTypes, PayloadTypes DEF FirstUsable, TypeInv, TypeOK
  <2>3. shown' \in Opened \cup {Nothing} /\ lost' \in BOOLEAN
    BY <1>1, <2>2, EmitsType DEF Forwards, TypeInv, TypeOK
  <2> QED
    BY <2>1, <2>3 DEF TypeInv, TypeOK, ScanOK, scanVars
<1>4. CASE HandsOver
  <2>1. /\ handed' \in BOOLEAN
        /\ UNCHANGED <<args, other, stage, scanVars, password, initial, page, line, url>>
    BY <1>4 DEF HandsOver
  <2>2. PayloadOf(url) \in Opened /\ Emits(PayloadOf(url))
    BY <1>4, WordTypes, PayloadTypes DEF HandsOver, TypeInv, TypeOK
  <2>3. shown' \in Opened \cup {Nothing} /\ lost' \in BOOLEAN
    BY <2>2, EmitsType
  <2> QED
    BY <2>1, <2>3 DEF TypeInv, TypeOK, ScanOK, scanVars, Command
<1>2. CASE PageLoads
  BY <1>2 DEF PageLoads, TypeInv, TypeOK, ScanOK, scanVars, Command
<1>3. CASE PageAsks
  BY <1>3 DEF PageAsks, Goto, TypeInv, TypeOK, ScanOK, scanVars
<1> QED
  BY <1>1, <1>2, <1>3, <1>4

LEMMA NextTypeInv == TypeInv /\ [Next]_vars => TypeInv'
<1> SUFFICES ASSUME TypeInv, [Next]_vars PROVE TypeInv'
  OBVIOUS
<1>1. CASE UNCHANGED vars
  BY <1>1 DEF vars, scanVars, guiVars, TypeInv, TypeOK, ScanOK, Command
<1> QED
  BY <1>1, StartType, OpensWindowType, ScanType, ScannedType, PasswordType, WindowType DEF Next

\* Every variable keeps its type, on command lines of any length (cli.rs: the scans
\* never look past the last word).
THEOREM TypeCorrect == Spec => []TypeOK
<1>1. TypeInv => TypeOK
  BY DEF TypeInv
<1> QED
  BY <1>1, InitTypeInv, NextTypeInv, PTL DEF Spec

-----------------------------------------------------------------------------
(* Which words are values.                                                  *)

LEMMA LeastNumber ==
  ASSUME NEW T, T \subseteq Nat, T # {}
  PROVE  \E i \in T : \A k \in T : i <= k
<1> DEFINE Less == OpToRel(<, Nat)
<1>1. \A i, k \in Nat : <<k, i>> \in Less <=> k < i
  BY DEF OpToRel
<1>2. IsWellFoundedOn(Less, Nat)
  BY NatLessThanWellFounded
<1> HIDE DEF Less
<1>3. PICK i \in T : \A k \in T : <<k, i>> \notin Less
  BY <1>2, WFMin
<1>4. i \in Nat /\ \A k \in T : k \in Nat /\ ~(k < i)
  BY <1>1, <1>3
<1> QED
  BY <1>3, <1>4

\* A run of words that are options, from its first to the one before j.
Run(i, j) == /\ i = 3 \/ ~IsOption(i - 1)
             /\ \A k \in i .. j - 1 : IsOption(k)

LEMMA OneRun ==
  ASSUME NEW j \in Nat, NEW i \in 3 .. j, NEW h \in 3 .. j, Run(i, j), Run(h, j)
  PROVE  i = h
<1>1. ASSUME NEW a \in 3 .. j, NEW b \in 3 .. j, Run(a, j), Run(b, j), a < b PROVE FALSE
  <2>1. b # 3 /\ b - 1 \in a .. j - 1
    BY <1>1
  <2> QED
    BY <1>1, <2>1 DEF Run
<1>2. ~(i < h) /\ ~(h < i)
  BY <1>1
<1> QED
  BY <1>2

LEMMA EveryRun ==
  ASSUME NEW j \in Nat, j >= 3
  PROVE  \E i \in 3 .. j : Run(i, j)
<1> DEFINE T == {i \in 3 .. j : \A k \in i .. j - 1 : IsOption(k)}
<1>1. T \subseteq Nat /\ j \in T
  OBVIOUS
<1>2. PICK i \in T : \A k \in T : i <= k
  BY <1>1, LeastNumber
<1>3. CASE i = 3
  BY <1>2, <1>3 DEF Run
<1>4. CASE i # 3
  <2>1. i - 1 \in 3 .. j /\ i - 1 \notin T
    BY <1>2, <1>4
  <2>2. \A k \in (i - 1) .. j - 1 : k = i - 1 \/ k \in i .. j - 1
    BY <1>2
  <2>3. ~IsOption(i - 1)
    BY <1>2, <2>1, <2>2
  <2> QED
    BY <1>2, <2>3 DEF Run
<1> QED
  BY <1>3, <1>4

LEMMA ValueMeans ==
  ASSUME NEW j \in Nat, NEW i \in 3 .. j, Run(i, j)
  PROVE  IsValue(j) <=> (j - i) % 2 = 1
<1>1. ASSUME IsValue(j) PROVE (j - i) % 2 = 1
  <2>1. PICK h \in 3 .. j - 1 : Run(h, j) /\ (j - h) % 2 = 1
    BY <1>1 DEF IsValue, Run
  <2>2. h = i
    BY <2>1, OneRun
  <2> QED
    BY <2>1, <2>2
<1>2. ASSUME (j - i) % 2 = 1 PROVE IsValue(j)
  <2>1. i # j
    BY <1>2
  <2>2. i \in 3 .. j - 1
    BY <2>1
  <2> QED
    BY <1>2, <2>2 DEF IsValue, Run
<1> QED
  BY <1>1, <1>2

\* The word after an option that is no value itself is one, and no other word.
LEMMA NextValue ==
  /\ ~IsValue(3)
  /\ \A j \in Nat : j >= 3 => (IsValue(j + 1) <=> IsOption(j) /\ ~IsValue(j))
<1>1. ~IsValue(3)
  BY DEF IsValue
<1>2. ASSUME NEW j \in Nat, j >= 3 PROVE IsValue(j + 1) <=> IsOption(j) /\ ~IsValue(j)
  <2>1. CASE IsOption(j)
    <3>1. PICK i \in 3 .. j : Run(i, j)
      BY <1>2, EveryRun
    <3>2. i \in 3 .. j + 1 /\ Run(i, j + 1)
      <4>1. \A k \in i .. (j + 1) - 1 : k = j \/ k \in i .. j - 1
        OBVIOUS
      <4> QED
        BY <2>1, <3>1, <4>1 DEF Run
    <3>3. IsValue(j + 1) <=> ((j + 1) - i) % 2 = 1
      BY <3>2, ValueMeans
    <3>4. IsValue(j) <=> (j - i) % 2 = 1
      BY <3>1, ValueMeans
    <3>5. ((j + 1) - i) % 2 = 1 <=> (j - i) % 2 # 1
      OBVIOUS
    <3> QED
      BY <2>1, <3>3, <3>4, <3>5
  <2>2. CASE ~IsOption(j)
    <3>1. \A i \in 3 .. (j + 1) - 1 : j \in i .. (j + 1) - 1
      BY <1>2
    <3> QED
      BY <2>2, <3>1 DEF IsValue
  <2> QED
    BY <2>1, <2>2
<1> QED
  BY <1>1, <1>2

-----------------------------------------------------------------------------
(* Calls.                                                                   *)

\* Where a word stands among those looked at so far, and no value is it; where
\* it gives an option a value; and what has been found, which the last of them
\* says.
Seen(word) == {j \in 3 .. at - 1 : line[j] = word /\ ~IsValue(j)}
SeenGiven(o) == {j \in Seen(o) : j < Len(line) /\ (o = "-s" => Proper(o, line[j + 1]))}
Says(o, word) == IF Proper(o, word) THEN word ELSE Presumed(o)
Found(o) ==
  /\ SeenGiven(o) = {} => InEffect(o) = Presumed(o)
  /\ \A j \in SeenGiven(o) :
       (\A k \in SeenGiven(o) : k <= j) => InEffect(o) = Says(o, line[j + 1])
FoundFlag(f) == f \in flags <=> Seen(f) # {}

Sealing == line[1] \in {"encrypt", "decrypt"}

PasswordOK ==
  /\ Stands("--password-stdin") = {} => \A j \in FirstPassword(line) : password = line[j + 1]
  /\ password = Empty => options["-k"] # Nothing

CallInv ==
  /\ TypeInv
  /\ stage = "scan" /\ at <= Len(line) => ~IsValue(at)
  /\ stage \in {"scan", "password", "call"} =>
       /\ \A o \in ValueOptions[line[1]] : Found(o)
       /\ Sealing => \A f \in Flags : FoundFlag(f)
  /\ stage = "call" /\ Sealing => PasswordOK

LEMMA OptionTypes ==
  ASSUME NEW c \in Operations
  PROVE  /\ \A o \in ValueOptions[c] : o \in AllOptions /\ o \notin Flags
         /\ "-s" \in ValueOptions[c] => c = "keyfile"
         /\ "--pqc" \in ValueOptions[c] \/ "--chunk-size" \in ValueOptions[c] => c = "encrypt"
  BY DEF ValueOptions, AllOptions, Flags, Operations

LEMMA NothingIsNoWord ==
  Nothing \notin Words /\ {"768", "1024", "16", "3", "64"} \subseteq Words
  BY WordsAssumption DEF Words

\* What a handler makes of a word comes to what the word says.
LEMMA ReadsWhatItSays ==
  ASSUME Command \in Operations, NEW o \in ValueOptions[Command], NEW word \in Words, NEW before
  PROVE  IF o = "-s" /\ ~Proper(o, word)
         THEN Reads(o, word, before) = before
         ELSE Says(o, word) = IF Reads(o, word, before) = Nothing THEN Presumed(o)
                              ELSE Reads(o, word, before)
<1> DEFINE v == Reads(o, word, before)
<1>1. o \in AllOptions
  BY OptionTypes
<1>2. CASE o = "--pqc"
  <2>1. v = IF word = "1024" THEN "1024" ELSE "768"
    BY <1>2 DEF Reads, NumberOptions
  <2>2. Proper(o, word) <=> word \in {"768", "1024"}
    BY <1>2 DEF Proper, NumberOptions
  <2>3. Presumed(o) = "768" /\ o # "-s"
    BY <1>2 DEF Presumed
  <2>4. v # Nothing
    BY <2>1, NothingIsNoWord
  <2> QED
    BY <2>1, <2>2, <2>3, <2>4 DEF Says
<1>3. CASE o \in NumberOptions /\ word \notin Numbers[o]
  <2>1. v = (CASE Command = "keyfile" -> before [] Command = "shred" -> "3" [] OTHER -> Nothing)
    BY <1>3 DEF Reads, NumberOptions
  <2>2. ~Proper(o, word)
    BY <1>3 DEF Proper, NumberOptions
  <2>3. CASE o = "-s"
    <3>1. Command = "keyfile"
      BY <2>3, OptionTypes
    <3> QED
      BY <2>1, <2>2, <2>3, <3>1
  <2>4. CASE o # "-s"
    <3>1. Command # "keyfile"
      BY <2>4 DEF ValueOptions, Operations
    <3>2. Command = "shred" => o = "--passes"
      BY <1>3 DEF ValueOptions, Operations, NumberOptions
    <3>3. v = IF Command = "shred" THEN "3" ELSE Nothing
      BY <2>1, <3>1
    <3> QED
      BY <2>2, <2>4, <3>2, <3>3, NothingIsNoWord DEF Says, Presumed
  <2> QED
    BY <2>3, <2>4
<1>4. CASE o # "--pqc" /\ ~(o \in NumberOptions /\ word \notin Numbers[o])
  <2>1. v = word
    BY <1>4 DEF Reads
  <2>2. Proper(o, word)
    BY <1>4 DEF Proper
  <2> QED
    BY <2>1, <2>2, NothingIsNoWord DEF Says
<1> QED
  BY <1>2, <1>3, <1>4 DEF NumberOptions

LEMMA InitCallInv == Init => CallInv
  BY InitTypeInv DEF Init, CallInv

LEMMA StartCalls ==
  ASSUME CallInv, StartsCommand
  PROVE  CallInv'
<1>1. TypeInv /\ TypeInv'
  BY NextTypeInv DEF CallInv, Next
<1>2. /\ at = 3 /\ flags = {} /\ args = line
      /\ options' = [o \in AllOptions |-> Default(Command, o)]
      /\ UNCHANGED <<args, at, flags, line>> /\ stage' \in {"error", "scan"}
  BY <1>1 DEF StartsCommand, Goto, TypeInv, ScanOK, guiVars
<1>3. CASE stage' = "error"
  BY <1>1, <1>3 DEF CallInv
<1>4. CASE stage' = "scan"
  <2>1. line[1] \in Operations /\ Command = line[1]
    BY <1>1, <1>2, <1>4 DEF TypeInv, ScanOK, Command
  <2>2. \A w : Seen(w)' = {}
    BY <1>2 DEF Seen
  <2>3. ASSUME NEW o \in ValueOptions[line[1]] PROVE Found(o)'
    <3>1. o \in AllOptions /\ options'[o] = Default(line[1], o)
      BY <1>2, <2>1, OptionTypes
    <3>2. Default(line[1], o) \in {Nothing, Presumed(o)}
      BY DEF Default, Presumed
    <3>3. InEffect(o)' = Presumed(o)
      BY <3>1, <3>2 DEF InEffect, Presumed
    <3>4. SeenGiven(o)' = {} /\ Presumed(o)' = Presumed(o)
      BY <2>2 DEF SeenGiven, Presumed
    <3> QED
      BY <3>3, <3>4 DEF Found
  <2>4. ASSUME NEW f \in Flags PROVE FoundFlag(f)'
    BY <1>2, <2>2 DEF FoundFlag
  <2>5. ~IsValue(3)'
    BY DEF IsValue
  <2> QED
    BY <1>1, <1>2, <1>4, <2>3, <2>4, <2>5 DEF CallInv
<1> QED
  BY <1>2, <1>3, <1>4

\* One word, or an option and its value.
LEMMA ScanCalls ==
  ASSUME CallInv, TakesValue \/ TakesFlag \/ PassesOver
  PROVE  CallInv'
<1>1. TypeInv /\ TypeInv'
  BY NextTypeInv DEF CallInv, Next
<1>2. /\ stage = "scan" /\ stage' = "scan" /\ args = line /\ line' = line /\ args' = args
      /\ at \in Nat /\ at >= 3 /\ Len(line) \in Nat /\ at <= Len(line)
      /\ Word = line[at] /\ Command = line[1] /\ line[1] \in Operations
  BY <1>1, WordTypes
  DEF TakesValue, TakesFlag, PassesOver, Scans, TypeInv, TypeOK, ScanOK, guiVars, Word
<1>3. /\ \A o \in ValueOptions[line[1]] : Found(o)
      /\ Sealing => \A f \in Flags : FoundFlag(f)
      /\ ~IsValue(at)
  BY <1>2 DEF CallInv
<1>4. /\ \A j : IsValue(j)' <=> IsValue(j)
      /\ \A o : Presumed(o)' = Presumed(o) /\ \A w : Says(o, w)' = Says(o, w)
  BY <1>2 DEF IsValue, IsOption, Command, Presumed, Says, Proper
<1>5. IsOption(at) <=> line[at] \in ValueOptions[line[1]]
  BY <1>2 DEF IsOption
<1> SUFFICES /\ at' <= Len(line) => ~IsValue(at')
             /\ \A o \in ValueOptions[line[1]] : Found(o)'
             /\ Sealing => \A f \in Flags : FoundFlag(f)'
  BY <1>1, <1>2, <1>4 DEF CallInv, Sealing
<1>6. CASE TakesValue
  <2>1. /\ line[at] \in ValueOptions[line[1]] /\ at < Len(line)
        /\ options' = [options EXCEPT ![line[at]] = Reads(line[at], line[at + 1], options[line[at]])]
        /\ at' = at + 2 /\ flags' = flags
    BY <1>2, <1>6 DEF TakesValue
  <2>2. IsValue(at + 1) /\ ~IsValue(at + 2)
    <3>1. IsValue(at + 1)
      BY <1>2, <1>3, <1>5, <2>1, NextValue
    <3>2. (at + 1) + 1 = at + 2
      BY <1>2
    <3> QED
      BY <1>2, <3>1, <3>2, NextValue
  <2>3. \A w : Seen(w)' = IF line[at] = w THEN Seen(w) \cup {at} ELSE Seen(w)
    <3>1. 3 .. at' - 1 = (3 .. at - 1) \cup {at, at + 1}
      BY <1>2, <2>1
    <3> QED
      BY <1>2, <1>3, <1>4, <2>2, <3>1 DEF Seen
  <2>4. ASSUME NEW o \in ValueOptions[line[1]] PROVE Found(o)'
    <3>1. o \in AllOptions /\ line[at] \in AllOptions
      BY <1>2, <2>1, OptionTypes
    <3>2. CASE o # line[at]
      <4>1. options'[o] = options[o]
        BY <1>1, <2>1, <3>1, <3>2 DEF TypeInv, TypeOK
      <4>2. SeenGiven(o)' = SeenGiven(o)
        BY <1>2, <2>3, <3>2 DEF SeenGiven, Proper
      <4> QED
        BY <1>2, <1>3, <1>4, <4>1, <4>2 DEF Found, InEffect
    <3>3. CASE o = line[at]
      <4>1. options'[o] = Reads(o, line[at + 1], options[o])
        BY <1>1, <2>1, <3>1, <3>3 DEF TypeInv, TypeOK
      <4>2. line[at + 1] \in Words
        BY <1>1, <1>2, <2>1, WordTypes DEF TypeInv
      <4>3. CASE o = "-s" /\ ~Proper(o, line[at + 1])
        <5>1. options'[o] = options[o]
          BY <1>2, <4>1, <4>2, <4>3, ReadsWhatItSays
        <5>2. SeenGiven(o)' = SeenGiven(o)
          BY <1>2, <2>3, <3>3, <4>3 DEF SeenGiven, Proper
        <5> QED
          BY <1>2, <1>3, <1>4, <5>1, <5>2 DEF Found, InEffect
      <4>4. CASE ~(o = "-s" /\ ~Proper(o, line[at + 1]))
        <5>1. InEffect(o)' = Says(o, line[at + 1])
          BY <1>2, <1>4, <4>1, <4>2, <4>4, ReadsWhatItSays DEF InEffect
        <5>2. SeenGiven(o)' = SeenGiven(o) \cup {at}
          BY <1>2, <2>1, <2>3, <3>3, <4>4 DEF SeenGiven, Proper
        <5>3. \A k \in SeenGiven(o) : k \in Nat /\ k < at
          BY <1>2 DEF SeenGiven, Seen
        <5>4. ASSUME NEW j \in SeenGiven(o) \cup {at}, \A k \in SeenGiven(o) \cup {at} : k <= j
              PROVE  j = at
          <6>1. at <= j
            BY <5>4
          <6>2. CASE j \in SeenGiven(o)
            <7>1. j \in Nat /\ j < at
              BY <5>3, <6>2
            <7> QED
              BY <1>2, <6>1, <7>1
          <6> QED
            BY <5>4, <6>2
        <5> QED
          BY <1>2, <1>4, <5>1, <5>2, <5>4 DEF Found
      <4> QED
        BY <4>3, <4>4
    <3> QED
      BY <3>2, <3>3
  <2>5. ASSUME Sealing, NEW f \in Flags PROVE FoundFlag(f)'
    <3>1. line[at] # f
      BY <1>2, <2>1, OptionTypes
    <3> QED
      BY <1>3, <2>1, <2>3, <2>5, <3>1 DEF FoundFlag
  <2> QED
    BY <2>1, <2>2, <2>4, <2>5
<1>7. CASE TakesFlag \/ PassesOver
  <2>1. /\ at' = at + 1 /\ options' = options
        /\ ~(line[at] \in ValueOptions[line[1]] /\ at < Len(line))
        /\ IF line[at] \in Flags /\ Sealing THEN flags' = flags \cup {line[at]} ELSE flags' = flags
    <3>1. CASE TakesFlag
      <4>1. /\ line[at] \in Flags /\ Sealing
            /\ flags' = flags \cup {line[at]} /\ at' = at + 1 /\ options' = options
        BY <1>2, <3>1 DEF TakesFlag, Sealing
      <4> QED
        BY <1>2, <4>1, OptionTypes
    <3>2. CASE PassesOver
      BY <1>2, <3>2 DEF PassesOver, Sealing
    <3> QED
      BY <1>7, <3>1, <3>2
  <2>2. \A w : Seen(w)' = IF line[at] = w THEN Seen(w) \cup {at} ELSE Seen(w)
    <3>1. 3 .. at' - 1 = (3 .. at - 1) \cup {at}
      BY <1>2, <2>1
    <3> QED
      BY <1>2, <1>3, <1>4, <3>1 DEF Seen
  <2>3. at' <= Len(line) => ~IsValue(at')
    BY <1>2, <1>5, <2>1, NextValue
  <2>4. ASSUME NEW o \in ValueOptions[line[1]] PROVE Found(o)'
    <3>1. SeenGiven(o)' = SeenGiven(o)
      BY <1>2, <2>1, <2>2 DEF SeenGiven, Proper
    <3> QED
      BY <1>2, <1>3, <1>4, <2>1, <3>1 DEF Found, InEffect
  <2>5. ASSUME Sealing, NEW f \in Flags PROVE FoundFlag(f)'
    BY <1>3, <2>1, <2>2, <2>5 DEF FoundFlag
  <2> QED
    BY <2>3, <2>4, <2>5
<1> QED
  BY <1>6, <1>7

\* At the end every word has been looked at.
LEMMA AllSeen ==
  ASSUME TypeInv, stage \in {"password", "call"}
  PROVE  \A w : Seen(w) = Stands(w)
<1>1. at = Len(line) + 1 /\ Len(line) \in Nat
  BY WordTypes DEF TypeInv, ScanOK
<1>2. at - 1 = Len(line)
  BY <1>1
<1> QED
  BY <1>2 DEF Seen, Stands

LEMMA ReadyCalls ==
  ASSUME CallInv, Scanned \/ PasswordFromArgs \/ PasswordTyped
  PROVE  CallInv'
<1>1. TypeInv /\ TypeInv'
  BY NextTypeInv DEF CallInv, Next
<1>2. /\ stage \in {"scan", "password"} /\ UNCHANGED <<at, options, flags, line>>
      /\ stage' \in {"password", "call", "error"} /\ args = line
  BY <1>1 DEF Scanned, PasswordFromArgs, PasswordTyped, Proceeds, Goto, scanVars, guiVars,
     TypeInv, ScanOK
<1>3. CASE stage' = "error"
  BY <1>1, <1>3 DEF CallInv
<1>4. CASE stage' \in {"password", "call"}
  <2>1. Command' = Command /\ Command = line[1]
    BY <1>1, <1>2, <1>4 DEF TypeInv, ScanOK
  <2>2. /\ \A j : IsValue(j)' <=> IsValue(j)
        /\ \A o : Presumed(o)' = Presumed(o) /\ \A w : Says(o, w)' = Says(o, w)
    BY <1>2, <2>1 DEF IsValue, IsOption, Presumed, Says, Proper
  <2>3. /\ \A w : Seen(w)' = Seen(w) /\ Stands(w)' = Stands(w)
        /\ \A o : SeenGiven(o)' = SeenGiven(o)
    BY <1>2, <2>2 DEF Seen, Stands, SeenGiven, Proper
  <2>4. /\ \A o \in ValueOptions[line[1]] : Found(o)'
        /\ Sealing => \A f \in Flags : FoundFlag(f)'
    BY <1>2, <2>2, <2>3 DEF CallInv, Found, FoundFlag, InEffect
  <2>5. ASSUME stage' = "call", Sealing PROVE PasswordOK'
    <3>1. stage = "password" /\ (PasswordFromArgs \/ PasswordTyped)
      BY <1>2, <2>1, <2>5 DEF Scanned, PasswordFromArgs, PasswordTyped, Goto, Sealing
    <3>2. password' = Empty => options["-k"] # Nothing
      BY <2>5, <3>1 DEF PasswordFromArgs, PasswordTyped, Proceeds, Goto
    <3>3. "--password-stdin" \in flags <=> Stands("--password-stdin") # {}
      BY <1>1, <2>5, <3>1, AllSeen DEF CallInv, FoundFlag, Flags
    <3>4. ASSUME Stands("--password-stdin") = {}, NEW j \in FirstPassword(line)
          PROVE  password' = line[j + 1]
      <4>1. PasswordFromArgs
        BY <1>2, <3>1, <3>3, <3>4 DEF PasswordTyped
      <4>2. PICK i \in FirstPassword(line) : password' = line[i + 1]
        BY <1>2, <4>1 DEF PasswordFromArgs
      <4>3. i = j
        BY WordTypes, <1>1, <3>4, <4>2 DEF FirstPassword, TypeInv
      <4> QED
        BY <4>2, <4>3
    <3>5. FirstPassword(line)' = FirstPassword(line)
      BY <1>2 DEF FirstPassword
    <3> QED
      BY <1>2, <2>3, <3>2, <3>4, <3>5 DEF PasswordOK
  <2> QED
    BY <1>1, <1>2, <1>4, <2>4, <2>5 DEF CallInv, Sealing
<1> QED
  BY <1>2, <1>3, <1>4

\* The words, what was found in them and the stage stay.
LEMMA CallsStay ==
  ASSUME CallInv, TypeInv', UNCHANGED <<args, stage, scanVars, password, line>>
  PROVE  CallInv'
<1>1. /\ \A j : IsValue(j)' <=> IsValue(j)
      /\ \A o : Presumed(o)' = Presumed(o) /\ \A w : Says(o, w)' = Says(o, w)
  BY DEF IsValue, IsOption, Command, Presumed, Says, Proper
<1>2. /\ \A w : Seen(w)' = Seen(w) /\ Stands(w)' = Stands(w)
      /\ \A o : SeenGiven(o)' = SeenGiven(o)
  BY <1>1 DEF Seen, Stands, SeenGiven, Proper, scanVars
<1>3. \A o : Found(o)' <=> Found(o)
  BY <1>1, <1>2 DEF Found, InEffect, scanVars
<1>4. \A f : FoundFlag(f)' <=> FoundFlag(f)
  BY <1>2 DEF FoundFlag, scanVars
<1>5. PasswordOK' <=> PasswordOK
  BY <1>2 DEF PasswordOK, FirstPassword, scanVars
<1> QED
  BY <1>1, <1>3, <1>4, <1>5 DEF CallInv, Sealing, scanVars

LEMMA NextCallInv == CallInv /\ [Next]_vars => CallInv'
<1> SUFFICES ASSUME CallInv, [Next]_vars PROVE CallInv'
  OBVIOUS
<1>1. TypeInv /\ TypeInv'
  BY NextTypeInv DEF CallInv
<1>2. CASE ShowsHelp \/ Unknown \/ OpensWindow \/ Forwards \/ PageAsks
  BY <1>1, <1>2 DEF ShowsHelp, Unknown, OpensWindow, Forwards, PageAsks, Goto, CallInv
<1>3. CASE HandsOver \/ PageLoads \/ UNCHANGED vars
  BY <1>1, <1>3, CallsStay DEF HandsOver, PageLoads, vars, guiVars
<1> QED
  BY <1>2, <1>3, StartCalls, ScanCalls, ReadyCalls DEF Next

\* cli.rs: on a command line of any length, whatever is missing on it or looks like
\* something else, a command works with the last value that was given for each of
\* its options, or as if without it; a flag is set just when a word that is no
\* value is it; and to encrypt or decrypt there is the password that was given,
\* or a keyfile.
THEOREM CallsAreMeant == Spec => []CalledAsMeant
<1>1. CallInv => CalledAsMeant
  <2> SUFFICES ASSUME CallInv, stage = "call" PROVE CalledAsMeant
    BY DEF CalledAsMeant
  <2>1. Command = line[1] /\ line[1] \in Operations /\ \A w : Seen(w) = Stands(w)
    BY AllSeen DEF CallInv, TypeInv, ScanOK
  <2>2. ASSUME NEW o \in ValueOptions[line[1]] PROVE AsGiven(o)
    <3>1. SeenGiven(o) = Given(o)
      BY <2>1 DEF SeenGiven, Given
    <3>2. Found(o)
      BY DEF CallInv
    <3> QED
      BY <3>1, <3>2 DEF Found, AsGiven, LastGiven, Says
  <2>3. ASSUME Sealing, NEW f \in Flags PROVE f \in flags <=> Stands(f) # {}
    BY <2>1, <2>3 DEF CallInv, FoundFlag
  <2> QED
    BY <2>1, <2>2, <2>3 DEF CalledAsMeant, CallInv, PasswordOK, Sealing
<1> QED
  BY <1>1, InitCallInv, NextCallInv, PTL DEF Spec

-----------------------------------------------------------------------------
(* Files that are opened.                                                   *)

FromMenu == Len(line) > 1 /\ ActionOf(Command) \in {"encrypt", "decrypt"}
Opens == line # <<>> /\ Command # "gui" /\ OpenedFile \in FileNames

\* What was opened is kept for the own page, nothing else is, and neither page has
\* been told yet; what the system hands over comes without a command line.
WindowOK ==
  /\ stage # "over" /\ ~handed => ~lost
  /\ url # Nothing => line = <<>>
  /\ handed => url # Nothing
  /\ line = <<>> => initial = Nothing
  /\ stage = "gui" /\ Opens =>
       initial = [file |-> OpenedFile,
                  action |-> IF FromMenu THEN ActionOf(Command) ELSE Nothing]

OpenedTold == stage = "over" /\ Opens => ToldOf(OpenedFile, ActionOf(Command))
ArrivalInv == TypeInv /\ WindowOK /\ (~lost => OpenedTold /\ (handed => ToldOf(url, Nothing)))

\* A word with an action, or a file, is what somebody opens.
LEMMA MenuWords ==
  \A w : ActionOf(w) # Nothing => w \in {"--gui-encrypt", "--gui-decrypt", "--gui-inspect"}
  BY Zenon DEF ActionOf

LEMMA FilesAreNoOptions ==
  ASSUME NEW w \in FileNames
  PROVE  w \notin Dashed /\ ActionOf(w) = Nothing
  BY MenuWords, WordsAssumption

LEMMA NothingElse ==
  /\ Nothing \notin {"encrypt", "decrypt", "inspect"}
  /\ \A o \in Opened : o # Nothing
  BY WordsAssumption

\* What is opened without the menu is the first word.
LEMMA OpenedPlainly ==
  ASSUME Opens, ~FromMenu
  PROVE  /\ OpenedFile = Command /\ Command \in FileNames
         /\ ActionOf(Command) = Nothing /\ Command \notin Dashed
<1>1. OpenedFile = Command /\ Command \in FileNames
  BY DEF Opens, FromMenu, OpenedFile
<1> QED
  BY <1>1, FilesAreNoOptions

LEMMA InitArrivalInv == Init => ArrivalInv
  BY InitTypeInv DEF Init, ArrivalInv, WindowOK, OpenedTold

LEMMA OpensWindowArrives ==
  ASSUME ArrivalInv, OpensWindow
  PROVE  ArrivalInv'
<1>1. TypeInv /\ TypeInv'
  BY NextTypeInv DEF ArrivalInv, Next
<1>2. /\ stage' = "gui" /\ stage = "start" /\ args = line
      /\ UNCHANGED <<args, line, url, handed, lost, shown>>
  BY <1>1 DEF OpensWindow, Goto, TypeInv, ScanOK, ArrivalInv, WindowOK
<1>3. ASSUME Opens
      PROVE  initial' = [file |-> OpenedFile,
                         action |-> IF FromMenu THEN ActionOf(Command) ELSE Nothing]
  <2>1. CASE FromMenu
    <3>1. OpenedFile = Input
      BY <2>1 DEF OpenedFile, FromMenu
    <3>2. Command \in {"--gui-encrypt", "--gui-decrypt", "--gui-inspect"}
      BY <2>1, MenuWords, NothingElse DEF FromMenu
    <3>3. args # <<>> /\ Command # "gui" /\ Len(args) # 1
      BY <1>1, <1>2, <1>3, <2>1, WordTypes DEF FromMenu, Opens, TypeInv
    <3> QED
      BY <1>2, <2>1, <3>1, <3>3 DEF OpensWindow, FromMenu
  <2>2. CASE ~FromMenu
    <3>1. OpenedFile = Command /\ ActionOf(Command) = Nothing
      BY <1>3, <2>2, OpenedPlainly
    <3> QED
      BY <1>2, <1>3, <2>2, <3>1, NothingElse DEF OpensWindow, Opens
  <2> QED
    BY <2>1, <2>2
<1>4. line = <<>> => initial' = Nothing
  BY <1>2 DEF OpensWindow, ArrivalInv, WindowOK
<1> QED
  BY <1>1, <1>2, <1>3, <1>4
  DEF ArrivalInv, WindowOK, OpenedTold, ToldOf, Opens, OpenedFile, FromMenu, Command, Input, Tab

\* The running instance takes the first word, or the two of the menu.
LEMMA FirstWordUsable ==
  ASSUME TypeInv, args = line, Opens
  PROVE  /\ FirstUsable = {1}
         /\ Payload(1) \in Opened /\ Payload(1).file = OpenedFile
         /\ Tab(Payload(1)) = Tab([file |-> OpenedFile, action |-> ActionOf(Command)])
<1>1. Len(args) \in Nat /\ Len(args) >= 1 /\ args \in Seq(Words)
  BY WordTypes DEF Opens, TypeInv, TypeOK
<1>2. 1 \in DOMAIN args /\ 1 .. 0 = {} /\ args[1] = Command
  BY <1>1 DEF Command
<1>3. Usable(1)
  <2>1. CASE FromMenu
    BY <1>1, <1>2, <2>1, NothingElse DEF FromMenu, Usable
  <2>2. CASE ~FromMenu
    BY <1>2, <2>2, OpenedPlainly DEF Usable
  <2> QED
    BY <2>1, <2>2
<1>4. FirstUsable = {1}
  <2>1. 1 \in FirstUsable
    BY <1>2, <1>3 DEF FirstUsable
  <2>2. ASSUME NEW i \in FirstUsable PROVE i = 1
    <3>1. i \in 1 .. Len(args) /\ \A j \in 1 .. i - 1 : ~Usable(j)
      BY <1>1, <2>2 DEF FirstUsable
    <3> QED
      BY <1>1, <1>3, <3>1
  <2> QED
    BY <2>1, <2>2
<1>5. CASE FromMenu
  <2>1. Payload(1) = [file |-> Input, action |-> ActionOf(Command)]
    BY <1>1, <1>2, <1>5, NothingElse DEF FromMenu, Payload, Input
  <2>2. OpenedFile = Input /\ Input \in Words
    BY <1>1, <1>5 DEF OpenedFile, FromMenu, Input
  <2> QED
    BY <1>4, <2>1, <2>2, ActionTypes DEF Opened
<1>6. CASE ~FromMenu
  <2>1. /\ OpenedFile = Command /\ ActionOf(Command) = Nothing /\ Command \in Words
    BY <1>1, <1>2, <1>6, OpenedPlainly
  <2>2. Payload(1) = [file |-> Command,
                      action |-> IF Command \in Containers THEN "decrypt" ELSE "encrypt"]
    BY <1>2, <2>1 DEF Payload, PayloadOf
  <2>3. Tab(Payload(1)) = Tab([file |-> Command, action |-> Nothing])
    BY <2>2, NothingElse DEF Tab
  <2> QED
    BY <1>4, <2>1, <2>2, <2>3 DEF Opened, Actions
<1> QED
  BY <1>5, <1>6

LEMMA ForwardsArrives ==
  ASSUME ArrivalInv, Forwards
  PROVE  ArrivalInv'
<1>1. TypeInv /\ TypeInv'
  BY NextTypeInv DEF ArrivalInv, Next
<1>2. /\ stage = "gui" /\ stage' = "over" /\ args = line
      /\ UNCHANGED <<args, line, initial, url, handed>>
  BY <1>1 DEF Forwards, Goto, TypeInv, ScanOK
<1>3. CASE Opens
  <2>1. /\ FirstUsable = {1}
        /\ Payload(1) \in Opened /\ Payload(1).file = OpenedFile
        /\ Tab(Payload(1)) = Tab([file |-> OpenedFile, action |-> ActionOf(Command)])
    BY <1>1, <1>2, <1>3, FirstWordUsable
  <2>2. ~lost' => shown' = Payload(1)
    BY <1>2, <2>1 DEF Forwards, Emits
  <2>3. ~lost' => ToldOf(OpenedFile, ActionOf(Command))'
    BY <1>2, <2>1, <2>2, NothingElse
    DEF ToldOf, Tab, OpenedFile, Command, Input
  <2>4. ~handed'
    BY <1>2, <1>3 DEF ArrivalInv, WindowOK, Opens
  <2> QED
    BY <1>1, <1>2, <1>3, <2>3, <2>4
    DEF ArrivalInv, WindowOK, OpenedTold, Opens, OpenedFile, FromMenu, Command, Input
<1>4. CASE ~Opens
  <2>1. ~Opens'
    BY <1>2, <1>4 DEF Opens, OpenedFile, Command, Input
  <2>2. handed => FirstUsable = {} /\ UNCHANGED <<shown, lost>>
    <3>1. handed => args = <<>>
      BY <1>2 DEF ArrivalInv, WindowOK
    <3>2. args = <<>> => FirstUsable = {}
      BY DEF FirstUsable
    <3> QED
      BY <3>1, <3>2 DEF Forwards
  <2>3. ~lost' => ~lost \/ ~handed
    BY <2>2
  <2> QED
    BY <1>1, <1>2, <2>1, <2>2, <2>3
    DEF ArrivalInv, WindowOK, OpenedTold, ToldOf, Tab
<1> QED
  BY <1>3, <1>4

\* The page that listens is told; it would decide about the heading as the sender
\* of the event has.
LEMMA HandsOverArrives ==
  ASSUME ArrivalInv, HandsOver
  PROVE  ArrivalInv'
<1>1. TypeInv /\ TypeInv'
  BY NextTypeInv DEF ArrivalInv, Next
<1>2. /\ url # Nothing /\ line = <<>> /\ handed'
      /\ UNCHANGED <<args, stage, initial, line, url>>
  BY DEF HandsOver, ArrivalInv, WindowOK
<1>3. ~Opens'
  BY <1>2 DEF Opens
<1>4. PayloadOf(url) \in Opened
  BY <1>1, <1>2, WordTypes, PayloadTypes DEF TypeInv, TypeOK
<1>5. ~lost' => shown' = PayloadOf(url)
  BY DEF HandsOver, Emits
<1>6. PayloadOf(url).file = url /\ Tab(PayloadOf(url)) = Tab([file |-> url, action |-> Nothing])
  BY NothingElse DEF PayloadOf, Tab
<1>7. ~lost' => ToldOf(url, Nothing)'
  BY <1>2, <1>4, <1>5, <1>6, NothingElse DEF ToldOf, Tab
<1> QED
  BY <1>1, <1>2, <1>3, <1>7 DEF ArrivalInv, WindowOK, OpenedTold

LEMMA AsksArrives ==
  ASSUME ArrivalInv, PageAsks
  PROVE  ArrivalInv'
<1>1. TypeInv /\ TypeInv'
  BY NextTypeInv DEF ArrivalInv, Next
<1>2. /\ stage = "gui" /\ stage' = "over" /\ args = line /\ initial' = Nothing
      /\ shown' = IF initial = Nothing THEN shown ELSE initial
      /\ UNCHANGED <<args, line, lost, url, handed>>
  BY <1>1 DEF PageAsks, Goto, TypeInv, TypeOK, ScanOK
<1>3. ASSUME Opens
      PROVE  ToldOf(OpenedFile, ActionOf(Command))'
  <2>1. initial = [file |-> OpenedFile,
                   action |-> IF FromMenu THEN ActionOf(Command) ELSE Nothing]
    BY <1>2, <1>3 DEF ArrivalInv, WindowOK
  <2>2. OpenedFile \in Words
    <3>1. /\ args \in Seq(Words) /\ Len(args) \in Nat /\ Len(args) >= 1
      BY <1>1, <1>2, <1>3, WordTypes DEF Opens, TypeInv, TypeOK
    <3> QED
      BY <1>2, <3>1 DEF OpenedFile, Command, Input
  <2>3. initial \in Opened
    BY <2>1, <2>2, ActionTypes DEF Opened
  <2>4. ~FromMenu => ActionOf(Command) = Nothing
    BY <1>3, OpenedPlainly
  <2>5. shown' = initial /\ initial # Nothing
    BY <1>2, <2>3, NothingElse
  <2>6. OpenedFile' = OpenedFile /\ Command' = Command
    BY <1>2 DEF OpenedFile, Command, Input
  <2> QED
    BY <2>1, <2>4, <2>5, <2>6 DEF ToldOf, Tab
<1>4. Opens' <=> Opens
  BY <1>2 DEF Opens, OpenedFile, Command, Input
<1>5. handed /\ ~lost => ToldOf(url, Nothing)'
  BY <1>2 DEF ArrivalInv, WindowOK, ToldOf, Tab
<1> QED
  BY <1>1, <1>2, <1>3, <1>4, <1>5 DEF ArrivalInv, WindowOK, OpenedTold

LEMMA NextArrivalInv == ArrivalInv /\ [Next]_vars => ArrivalInv'
<1> SUFFICES ASSUME ArrivalInv, [Next]_vars PROVE ArrivalInv'
  OBVIOUS
<1>1. TypeInv /\ TypeInv'
  BY NextTypeInv DEF ArrivalInv
<1>2. CASE \/ StartsCommand \/ ShowsHelp \/ Unknown \/ TakesValue \/ TakesFlag \/ PassesOver
           \/ Scanned \/ PasswordFromArgs \/ PasswordTyped
  <2>1. /\ stage \notin {"gui", "over"} /\ stage' \notin {"gui", "over"}
        /\ UNCHANGED <<initial, shown, lost, handed, url, line>>
    BY <1>2
    DEF StartsCommand, ShowsHelp, Unknown, TakesValue, TakesFlag, PassesOver, Scans, Scanned,
        PasswordFromArgs, PasswordTyped, Proceeds, Goto, guiVars
  <2> QED
    BY <1>1, <2>1 DEF ArrivalInv, WindowOK, OpenedTold, ToldOf, Tab
<1>3. CASE PageLoads \/ UNCHANGED vars
  <2>1. UNCHANGED <<args, line, stage, initial, shown, lost, handed, url>>
    BY <1>3 DEF PageLoads, vars, guiVars
  <2> QED
    BY <1>1, <2>1
    DEF ArrivalInv, WindowOK, OpenedTold, ToldOf, Opens, OpenedFile, FromMenu, Command, Input, Tab
<1> QED
  BY <1>2, <1>3, OpensWindowArrives, ForwardsArrives, HandsOverArrives, AsksArrives DEF Next

\* cli.rs, main.rs: a file that is opened by its full name, plainly or from the context
\* menu, arrives at the page, and under the same heading whether the own page
\* asks for it or a running instance is sent the words; so does one that the
\* system hands over; unless an event was sent to a page not listening yet.
THEOREM OpenedFilesArrive == Spec => []OpenedArrives
<1>1. ArrivalInv => OpenedArrives
  BY DEF ArrivalInv, OpenedTold, Opens, OpenedArrives
<1> QED
  BY <1>1, InitArrivalInv, NextArrivalInv, PTL DEF Spec
=================================================================================
