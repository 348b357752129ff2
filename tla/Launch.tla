-------------------------------- MODULE Launch --------------------------------
(***************************************************************************)
(* How the program starts (cli.rs, main.rs): the words of the command line *)
(* become a call of a command, or a file for the page of the desktop       *)
(* application - the own page, which asks for it when it has loaded, or    *)
(* that of an instance that is running already and is sent the words.      *)
(*                                                                         *)
(* A behaviour is one start, or one file that the system hands to the      *)
(* application.  The two spellings of an option are one word, and options  *)
(* without influence on what is modelled are left out.  A number is the    *)
(* word that stands for it.                                                *)
(***************************************************************************)
EXTENDS Naturals, Sequences, SequencesExt

CONSTANTS Lines,         \* command lines, without the name of the program; none starts
                         \* with inspect or bench, which change nothing
          FileNames,     \* words that name a file from wherever one is
          LocalNames,    \* words that do so in the directory of the start only
          Containers,    \* those of both that end in ".wraith"
          Dashed,        \* words that begin with "-"
          Numbers,       \* the words that can be read as the number of each option
          Nothing        \* no word

Operations == {"encrypt", "decrypt", "shred", "keyfile"}
Flags == {"--shred", "--password-stdin"}
Actions == {"encrypt", "decrypt", "inspect", Nothing}

\* The options with a value that each handler looks for.
ValueOptions == [c \in Operations |->
  CASE c = "encrypt" -> {"-k", "-o", "--pqc", "--chunk-size", "--mode", "--passes"}
    [] c = "decrypt" -> {"-k", "-o", "--mode", "--passes"}
    [] c = "shred"   -> {"--passes", "--mode"}
    [] OTHER         -> {"-s"}]
AllOptions == {"-k", "-o", "--pqc", "--chunk-size", "--mode", "--passes", "-s"}
NumberOptions == {"--chunk-size", "--passes", "-s"}
Empty == ""   \* the word without a character
Words == (UNION {ToSet(l) : l \in Lines}) \cup FileNames
           \cup {Empty, "typed", "768", "1024", "16", "3", "64"}
Opened == [file : Words, action : Actions]

ASSUME WordsAssumption ==
  /\ \A l \in Lines : l \in Seq(Words)
  /\ FileNames \cap LocalNames = {}
  /\ Containers \subseteq FileNames \cup LocalNames
  /\ DOMAIN Numbers = NumberOptions
  /\ AllOptions \cup Flags \cup {"-p"} \subseteq Dashed
  /\ {"--gui-encrypt", "--gui-decrypt", "--gui-inspect"} \subseteq Dashed
  /\ FileNames \cap Dashed = {}   \* a full name begins with "/" or a drive
  /\ Nothing \notin Words \cup Opened \cup {"encrypt", "decrypt", "inspect"}

VARIABLES
  args,     \* the words, as far as they have not been erased
  other,    \* an instance is running already
  stage,    \* where the start is
  at,       \* i
  options,  \* the value found for each option
  flags,    \* the flags found
  password, \* password
  initial,  \* INITIAL_FILE
  page,     \* whether the page that counts listens already
  shown,    \* what the page has been told to show
  handed,   \* the system has handed over its file
  lost,     \* history: an event was sent while no page listened
  line,     \* history: the words as they were given
  url       \* history: the file that the system hands over

scanVars == <<at, options, flags>>
guiVars == <<initial, page, shown, handed, lost, line, url>>
vars == <<args, other, stage, scanVars, password, guiVars>>

Command == args[1]
Input == args[2]

TypeOK ==
  /\ args \in Seq(Words)
  /\ other \in BOOLEAN
  /\ stage \in {"start", "scan", "password", "call", "gui", "over", "exit", "error"}
  /\ at \in Nat
  /\ options \in [AllOptions -> Words \cup {Nothing}]
  /\ flags \subseteq Flags
  /\ password \in Words \cup {Nothing}
  /\ initial \in Opened \cup {Nothing}
  /\ page \in {"loading", "listening"}
  /\ shown \in Opened \cup {Nothing}
  /\ handed \in BOOLEAN
  /\ lost \in BOOLEAN
  /\ line \in Seq(Words)
  /\ url \in FileNames \cup {Nothing}

Init ==
  /\ line \in Lines /\ args = line
  /\ other \in BOOLEAN
  /\ stage = "start"
  /\ at = 3
  /\ options = [o \in AllOptions |-> Nothing]
  /\ flags = {}
  /\ password = Nothing
  /\ initial = Nothing
  /\ page = "loading" /\ shown = Nothing /\ handed = FALSE /\ lost = FALSE
  /\ url \in FileNames \cup {Nothing}
  /\ url # Nothing => line = <<>>

Goto(s) == stage' = s
Exists(word) == word \in FileNames \cup LocalNames

-----------------------------------------------------------------------------
(* run_cli.                                                                 *)

\* What a handler passes on for an option that is not there.
Default(c, o) == CASE o = "--pqc" -> "768"
                   [] o = "--chunk-size" -> "16"
                   [] o = "--passes" /\ c = "shred" -> "3"
                   [] o = "-s" -> "64"
                   [] OTHER -> Nothing

StartsCommand ==
  /\ stage = "start" /\ args # <<>> /\ Command \in Operations
  /\ IF Len(args) = 1 \/ (Command = "keyfile" /\ Input # "generate")
     THEN Goto("error") ELSE Goto("scan")
  /\ options' = [o \in AllOptions |-> Default(Command, o)]
  /\ UNCHANGED <<args, other, at, flags, password, guiVars>>

ShowsHelp ==
  /\ stage = "start" /\ args # <<>> /\ Command = "help"
  /\ Goto("exit")
  /\ UNCHANGED <<args, other, scanVars, password, guiVars>>

ActionOf(word) == CASE word = "--gui-encrypt" -> "encrypt"
                    [] word = "--gui-decrypt" -> "decrypt"
                    [] word = "--gui-inspect" -> "inspect"
                    [] OTHER -> Nothing

\* With a file to act on, with a file, or with neither.  What is no file may
\* pass for one if it does not begin with a dash.
OpensWindow ==
  /\ stage = "start"
  /\ \/ args = <<>> /\ UNCHANGED initial
     \/ args # <<>> /\ Command = "gui" /\ UNCHANGED initial
     \/ /\ Len(args) > 1 /\ ActionOf(Command) \in {"encrypt", "decrypt"}
        /\ initial' = [file |-> Input, action |-> ActionOf(Command)]
     \/ /\ args # <<>> /\ Command \notin Operations \cup {"gui", "help"}
        /\ Len(args) = 1 \/ ActionOf(Command) \notin {"encrypt", "decrypt"}
        /\ Command \notin Dashed \/ Exists(Command)
        /\ initial' = [file |-> Command, action |-> Nothing]
  /\ Goto("gui")
  /\ UNCHANGED <<args, other, scanVars, password, page, shown, handed, lost, line, url>>

Unknown ==
  /\ stage = "start" /\ args # <<>>
  /\ Command \in Dashed /\ ~Exists(Command)
  /\ Len(args) = 1 \/ ActionOf(Command) \notin {"encrypt", "decrypt"}
  /\ Goto("error")
  /\ UNCHANGED <<args, other, scanVars, password, guiVars>>

-----------------------------------------------------------------------------
(* handle_encrypt, handle_decrypt, handle_shred and handle_keyfile look at  *)
(* one word after the other.                                                *)

Word == args[at]
Scans == stage = "scan" /\ at <= Len(args)
         /\ UNCHANGED <<args, other, stage, password, guiVars>>

\* What a handler makes of the word after an option, given what it had before: a
\* number that cannot be read is dropped, and each does that in its own way.
Reads(o, word, before) ==
  CASE o = "--pqc" -> IF word = "1024" THEN "1024" ELSE "768"
    [] o \in NumberOptions /\ word \notin Numbers[o] ->
         CASE Command = "keyfile" -> before [] Command = "shred" -> "3" [] OTHER -> Nothing
    [] OTHER -> word

ValueStays ==   \* mutant: the value is looked at again
  /\ Scans
  /\ Word \in ValueOptions[Command] /\ at < Len(args)
  /\ options' = [options EXCEPT ![Word] = Reads(Word, args[at + 1], @)]
  /\ at' = at + 1
  /\ UNCHANGED flags
TakesValue ==
  /\ Scans
  /\ Word \in ValueOptions[Command] /\ at < Len(args)
  /\ options' = [options EXCEPT ![Word] = Reads(Word, args[at + 1], @)]
  /\ at' = at + 2
  /\ UNCHANGED flags

TakesFlag ==
  /\ Scans
  /\ Word \in Flags /\ Command \in {"encrypt", "decrypt"}
  /\ flags' = flags \cup {Word}
  /\ at' = at + 1
  /\ UNCHANGED options

\* Anything else is passed over, "-p" and then its value among it.
PassesOver ==
  /\ Scans
  /\ ~(Word \in ValueOptions[Command] /\ at < Len(args))
  /\ ~(Word \in Flags /\ Command \in {"encrypt", "decrypt"})
  /\ at' = at + 1
  /\ UNCHANGED <<options, flags>>

Scanned ==
  /\ stage = "scan" /\ at > Len(args)
  /\ IF Command \in {"encrypt", "decrypt"} THEN Goto("password") ELSE Goto("call")
  /\ UNCHANGED <<args, other, scanVars, password, guiVars>>

\* The first "-p" that a word follows, wherever it stands.
FirstPassword(words) ==
  LET there == {j \in 2 .. Len(words) - 1 : words[j] = "-p"}
  IN  {j \in there : \A k \in there : j <= k}

Proceeds(pwd) == IF pwd = Empty /\ options["-k"] = Nothing THEN Goto("error") ELSE Goto("call")

PasswordFromArgs ==
  /\ stage = "password" /\ "--password-stdin" \notin flags
  /\ \E j \in FirstPassword(args) :
       /\ password' = args[j + 1]
       /\ args' = [args EXCEPT ![j + 1] = Empty]
  /\ Proceeds(password')
  /\ UNCHANGED <<other, scanVars, guiVars>>

\* From standard input, or typed.
PasswordTyped ==
  /\ stage = "password"
  /\ "--password-stdin" \in flags \/ FirstPassword(args) = {}
  /\ password' \in {Empty, "typed"}
  /\ Proceeds(password')
  /\ UNCHANGED <<args, other, scanVars, guiVars>>

-----------------------------------------------------------------------------
(* The window.                                                              *)

\* What the running instance makes of the words, as soon as it sees one that it
\* can use; its own directory decides what exists.
Usable(i) == \/ ActionOf(args[i]) # Nothing /\ i < Len(args)
             \/ args[i] \notin Dashed /\ args[i] \in FileNames
FirstUsable == {i \in DOMAIN args : Usable(i) /\ \A j \in 1 .. i - 1 : ~Usable(j)}
AlwaysEncrypts(name) == [file |-> name, action |-> "encrypt"]   \* mutant
PayloadOf(name) == [file |-> name, action |-> IF name \in Containers THEN "decrypt" ELSE "encrypt"]
Payload(i) ==
  IF ActionOf(args[i]) # Nothing /\ i < Len(args)
  THEN [file |-> args[i + 1], action |-> ActionOf(args[i])]
  ELSE PayloadOf(args[i])

\* The event "open-file-payload".
Emits(payload) ==
  IF page = "listening" THEN shown' = payload /\ UNCHANGED lost
  ELSE lost' = TRUE /\ UNCHANGED shown

\* The running instance emits an event, and this process is over.
Forwards ==
  /\ stage = "gui" /\ other
  /\ Goto("over")
  /\ IF FirstUsable = {} THEN UNCHANGED <<shown, lost>>
     ELSE \E i \in FirstUsable : Emits(Payload(i))
  /\ UNCHANGED <<args, other, scanVars, password, initial, page, handed, line, url>>

\* RunEvent::Opened: macOS gives the file to the instance that runs, without a
\* command line.
HandsOver ==
  /\ url # Nothing /\ ~handed
  /\ other \/ stage \in {"gui", "over"}
  /\ handed' = TRUE
  /\ Emits(PayloadOf(url))
  /\ UNCHANGED <<args, other, stage, scanVars, password, initial, page, line, url>>

\* The page has registered its listeners; then it asks for the initial file.
PageLoads ==
  /\ page = "loading"
  /\ other \/ stage = "gui"
  /\ page' = "listening"
  /\ UNCHANGED <<args, other, stage, scanVars, password, initial, shown, handed, lost, line, url>>

\* get_initial_file_cmd takes the file, so that it is not handed out again.
PageAsks ==
  /\ page = "listening" /\ ~other
  /\ stage = "gui"
  /\ shown' = IF initial = Nothing THEN shown ELSE initial
  /\ initial' = Nothing
  /\ Goto("over")
  /\ UNCHANGED <<args, other, scanVars, password, page, handed, lost, line, url>>

Next ==
  \/ StartsCommand \/ ShowsHelp \/ OpensWindow \/ Unknown
  \/ TakesValue \/ TakesFlag \/ PassesOver \/ Scanned
  \/ PasswordFromArgs \/ PasswordTyped
  \/ Forwards \/ HandsOver \/ PageLoads \/ PageAsks

Spec == Init /\ [][Next]_vars

-----------------------------------------------------------------------------
(* Properties.                                                              *)

\* What handleIncomingFile does with a file.
Tab(opened) ==
  IF opened.action = "decrypt" \/ (opened.file \in Containers /\ opened.action # "encrypt")
  THEN "decrypt" ELSE "encrypt"

\* The words that are values: in a run of words that are options with a value,
\* every other one, and the word after it if that leaves an option without value.
IsOption(j) == line[j] \in ValueOptions[Command]
IsValue(j) == \E i \in 3 .. j - 1 : /\ i = 3 \/ ~IsOption(i - 1)
                                    /\ \A k \in i .. j - 1 : IsOption(k)
                                    /\ (j - i) % 2 = 1
Stands(word) == {j \in 3 .. Len(line) : line[j] = word /\ ~IsValue(j)}

\* What the commands do without an option: 768, 16 MB, three passes, 64 bytes.  A
\* number that was read they may still clamp to what they allow.
Presumed(o) == CASE o = "--pqc" -> "768" [] o = "--chunk-size" -> "16"
                 [] o = "--passes" -> "3" [] o = "-s" -> "64" [] OTHER -> Nothing
InEffect(o) == IF options[o] = Nothing THEN Presumed(o) ELSE options[o]

Proper(o, word) == CASE o = "--pqc" -> word \in {"768", "1024"}
                     [] o \in NumberOptions -> word \in Numbers[o]
                     [] OTHER -> TRUE

\* The places that count, and the last of them.  A size that is no number does
\* not; other options with a wrong value are as good as none.
Given(o) == {j \in Stands(o) : j < Len(line) /\ (o = "-s" => Proper(o, line[j + 1]))}
LastGiven(o) == {j \in Given(o) : \A k \in Given(o) : k <= j}
AsGiven(o) ==
  /\ Given(o) = {} => InEffect(o) = Presumed(o)
  /\ \A j \in LastGiven(o) :
       InEffect(o) = IF Proper(o, line[j + 1]) THEN line[j + 1] ELSE Presumed(o)

\* Whatever the order of the options, and whatever is missing or looks like
\* something else: a command works with the last value given for each option,
\* or without that option; it destroys its source if and only if a word that is
\* no value asks for that; its password is the word after the first "-p" unless
\* it is to be typed, and it has a password or a keyfile.
CalledAsMeant ==
  stage = "call" =>
    /\ \A o \in ValueOptions[Command] : AsGiven(o)
    /\ Command \in {"encrypt", "decrypt"} =>
         /\ \A f \in Flags : f \in flags <=> Stands(f) # {}
         /\ Stands("--password-stdin") = {} => \A j \in FirstPassword(line) : password = line[j + 1]
         /\ password = Empty => options["-k"] # Nothing

\* "-p, --password <PASS>" and "--shred" (help of cli.rs): the password is not
\* what asks for the destruction of the source.  This does not hold: the value of
\* "-p" is looked at like any other word.
PasswordIsNoFlag ==
  stage = "call" /\ "--shred" \in flags =>
    \E j \in Stands("--shred") : j - 1 \notin FirstPassword(line)

\* A file that is opened by its full name, plainly or from the context menu,
\* arrives at the page under the same heading whether or not an instance is
\* running, and so does one that the system hands over - unless the page was not
\* listening yet when the event was sent.
OpenedFile == IF Len(line) > 1 /\ ActionOf(Command) \in {"encrypt", "decrypt"}
              THEN Input ELSE Command
ToldOf(file, action) ==
  /\ shown # Nothing /\ shown.file = file
  /\ Tab(shown) = Tab([file |-> file, action |-> action])
OpenedArrives ==
  ~lost =>
    /\ stage = "over" /\ line # <<>> /\ Command # "gui" /\ OpenedFile \in FileNames
       => ToldOf(OpenedFile, ActionOf(Command))
    /\ handed => ToldOf(url, Nothing)
=============================================================================
