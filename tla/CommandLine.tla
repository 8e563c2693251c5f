------------------------------ MODULE CommandLine -----------------------------
(***************************************************************************)
(* The command lines of the daemon and of the client: the parse() of       *)
(* src/CommandLineParser.cpp, one turn of its getopt_long() loop at a      *)
(* time, and what main() makes of the result.                              *)
(*                                                                         *)
(* A word of argv is seen in three ways: as an option, by its name; as the *)
(* argument of the option before it, whatever it looks like; as an         *)
(* operand, which getopt_long() passes over.  "-5" can be the first two.   *)
(* The long forms, -p80 and grouped letters are other spellings of these.  *)
(***************************************************************************)
EXTENDS Integers, Sequences

CONSTANTS
  Words,     \* Words[p]: the words that are typed to program p
  MaxArgs,   \* bound: words in a command line
  None,      \* not an option; not decided yet
  NoNumber   \* std::stoi() throws: no number at the front, or not an int

Results == {"ok", "error", "throws"}
Outcomes == {"runs", "informed", "failed", "aborted"}

\* opt: the option a word is taken for; number: what std::stoi() reads at the
\* front of its text, whatever follows there.  None is no text, so it is none of
\* those that it is compared with.
ASSUME CommandLineAssumption ==
  /\ \A p \in {"server", "client"} :
       Words[p] \subseteq [text : STRING, opt : STRING \cup {None}, number : Int \cup {NoNumber}]
  /\ MaxArgs \in Nat
  /\ None \notin STRING /\ NoNumber \notin Int
  /\ None \notin Results \cup Outcomes \cup {"H", "p", "t", "i", "d", "--"}

VARIABLES
  prog,      \* the program that is run
  argv,      \* its arguments
  optind,    \* the next word getopt_long() looks at
  config,    \* config, with the fields of both programs
  ret,       \* what parse() has returned, or None while it runs
  status     \* how main() goes on

vars == <<prog, argv, optind, config, ret, status>>

\* The options that take an argument and those that do not.
Takes == IF prog = "server" THEN {"p", "t", "i", "d"} ELSE {"H", "p"}
Flags == IF prog = "server" THEN {"h", "v"} ELSE {"t", "u", "r", "a", "h", "v"}

MIN_UPDATE_INTERVAL == 100
MAX_UPDATE_INTERVAL == 60000
Ports == 1..65535
Counts == Nat \ {0}
Intervals == MIN_UPDATE_INTERVAL..MAX_UPDATE_INTERVAL
DEFAULT_BUS_PATH == "/dev/i2c-2"
All == {"TEMP", "PRESS", "HUMID"}
-------------------------------------------------------------------------------
(* getopt_long() *)

Options == {i \in optind..Len(argv) : argv[i].opt # None}
Here == CHOOSE i \in Options : \A j \in Options : i <= j
AtEnd == Options # {} => argv[Here].opt = "--"
Opt == argv[Here].opt
Optarg == argv[Here + 1]

\* It has found option o, with its argument if it takes one.
Getopt(o) ==
  /\ ret = None /\ ~AtEnd /\ Opt = o
  /\ o \in Takes => Here < Len(argv)
  /\ optind' = IF o \in Takes THEN Here + 2 ELSE Here + 1
  /\ UNCHANGED <<prog, argv, status>>

\* It returns '?': an option it does not know, or one without its argument.
GetoptFails ==
  /\ ret = None /\ ~AtEnd
  /\ Opt \in Takes \cup Flags => Opt \in Takes /\ Here = Len(argv)
  /\ ret' = "error"
  /\ UNCHANGED <<prog, argv, optind, config, status>>
-------------------------------------------------------------------------------
Defaults == [port |-> 3500, numThreads |-> 4, sensorInterval |-> 1000, deviceName |-> "",
             hostname |-> "localhost", request |-> {}, showHelp |-> FALSE, showVersion |-> FALSE]

Init ==
  /\ prog \in {"server", "client"}
  /\ argv \in UNION {[1..n -> Words[prog]] : n \in 0..MaxArgs}
  /\ optind = 1
  /\ config = Defaults
  /\ ret = None /\ status = None

Set(field, value) == config' = [config EXCEPT ![field] = value]

\* Mutant: a number that is out of range is reported, and kept.
NumberUnchecked(field, valid) ==
  \/ Optarg.number = NoNumber /\ ret' = "throws" /\ UNCHANGED config
  \/ Optarg.number # NoNumber /\ Set(field, Optarg.number) /\ UNCHANGED ret

\* A setting that must be a number of the set valid.
Number(field, valid) ==
  \/ Optarg.number = NoNumber /\ ret' = "throws" /\ UNCHANGED config
  \/ /\ Optarg.number # NoNumber
     /\ Set(field, Optarg.number)
     /\ ret' = IF Optarg.number \in valid THEN ret ELSE "error"

\* Mutant: the first of several settings is kept.
TextFirst(field) ==
  /\ Set(field, IF config[field] = Defaults[field] THEN Optarg.text ELSE config[field])
  /\ UNCHANGED ret

Text(field) == Set(field, Optarg.text) /\ UNCHANGED ret

\* Mutant: the loop goes on after -h and -v.
ShowGoesOn(field) == Set(field, TRUE) /\ UNCHANGED ret

\* -h and -v end the loop at once.
Show(field) == Set(field, TRUE) /\ ret' = "ok"

CommonOption ==
  \/ Getopt("p") /\ Number("port", Ports)
  \/ Getopt("h") /\ Show("showHelp")
  \/ Getopt("v") /\ Show("showVersion")

ServerOption ==
  /\ prog = "server"
  /\ \/ CommonOption
     \/ Getopt("t") /\ Number("numThreads", Counts)
     \/ Getopt("i") /\ Number("sensorInterval", Intervals)
     \/ Getopt("d") /\ Text("deviceName")

Ask(fields) == Set("request", config.request \cup fields) /\ UNCHANGED ret

ClientOption ==
  /\ prog = "client"
  /\ \/ CommonOption
     \/ Getopt("H") /\ Text("hostname")
     \/ Getopt("t") /\ Ask({"TEMP"})
     \/ Getopt("u") /\ Ask({"HUMID"})
     \/ Getopt("r") /\ Ask({"PRESS"})
     \/ Getopt("a") /\ Ask(All)

\* getopt_long() returns -1.  A client that asked for nothing asks for all.
EndOfOptions ==
  /\ ret = None /\ AtEnd
  /\ ret' = "ok"
  /\ IF prog = "client" /\ config.request = {} THEN Set("request", All) ELSE UNCHANGED config
  /\ UNCHANGED <<prog, argv, optind, status>>
-------------------------------------------------------------------------------
\* main() of either program, up to where it starts its work.  Nothing catches
\* what std::stoi() throws.
Main ==
  /\ ret # None /\ status = None
  /\ status' = CASE ret = "throws" -> "aborted"
                 [] ret = "error" -> "failed"
                 [] config.showHelp \/ config.showVersion -> "informed"
                 [] OTHER -> "runs"
  /\ UNCHANGED <<prog, argv, optind, config, ret>>

Done == status # None /\ UNCHANGED vars

\* The bus that a running server opens.
BusPath == IF config.deviceName = "" THEN DEFAULT_BUS_PATH ELSE config.deviceName

Next == ServerOption \/ ClientOption \/ GetoptFails \/ EndOfOptions \/ Main \/ Done
Spec == Init /\ [][Next]_vars
-------------------------------------------------------------------------------
(* Properties.  What a command line means is said here without the loop:   *)
(* a word is an argument when an odd number of options that take one come  *)
(* directly before it.                                                     *)

Argument(i) ==
  \E k \in 1 .. i - 1 :
    /\ k % 2 = 1
    /\ \A j \in i - k .. i - 1 : argv[j].opt \in Takes
    /\ k = i - 1 \/ argv[i - k - 1].opt \notin Takes

IsOption(i) ==
  /\ argv[i].opt \notin {None, "--"} /\ ~Argument(i)
  /\ \A j \in 1 .. i - 1 : argv[j].opt = "--" => Argument(j)

Valid(o) == CASE o = "p" -> Ports
              [] o = "t" -> Counts
              [] o = "i" -> Intervals

\* What option i leads to if the loop comes to it, None if it goes on.
Outcome(i) ==
  LET o == argv[i].opt
      numeric == o \in Takes \cap {"p", "t", "i"}
  IN CASE o \in {"h", "v"} -> "informed"
       [] o \notin Takes \cup Flags \/ (o \in Takes /\ i = Len(argv)) -> "failed"
       [] numeric /\ i < Len(argv) /\ argv[i + 1].number = NoNumber -> "aborted"
       [] numeric /\ i < Len(argv) /\ argv[i + 1].number \notin Valid(o) \cup {NoNumber} -> "failed"
       [] OTHER -> None

Deciding == {i \in DOMAIN argv : IsOption(i) /\ Outcome(i) # None}

\* The last argument that is written for option o, or the default.
Written(o, default) ==
  LET uses == {i \in DOMAIN argv : IsOption(i) /\ argv[i].opt = o}
  IN IF uses = {} THEN default
     ELSE LET last == CHOOSE i \in uses : \A j \in uses : j <= i IN argv[last + 1]

Named == {o \in Flags : \E i \in DOMAIN argv : IsOption(i) /\ argv[i].opt = o}

\* A program that starts its work has a port that fits the socket address, a
\* server also a positive number of workers and an interval that
\* BME280SensorManager::init() accepts, whatever was typed in which order.
InRange ==
  status = "runs" =>
    /\ config.port \in Ports
    /\ config.numThreads \in Counts
    /\ config.sensorInterval \in Intervals

\* The first option that is wrong, or asks for help or the version, decides what
\* the program does, whatever stands before or after it; a word after an option
\* that takes an argument is that argument, also when it looks like an option.
FirstDecides ==
  status # None =>
    status = IF Deciding = {} THEN "runs"
             ELSE Outcome(CHOOSE i \in Deciding : \A j \in Deciding : i <= j)

\* Of the same setting written several times the last one counts, of one that is
\* not written the default.  A client asks for the fields it was told, all of them
\* with -a or when it was told none: never for nothing, which
\* SsnpClient::buildRequest() refuses.
SettingsAsWritten ==
  LET number(field, o) == config[field] = Written(o, [number |-> Defaults[field]]).number
      text(field, o) == config[field] = Written(o, [text |-> Defaults[field]]).text
      asked == {CASE o = "t" -> "TEMP" [] o = "u" -> "HUMID" [] o = "r" -> "PRESS" : o \in Named \ {"a"}}
  IN status = "runs" =>
       /\ number("port", "p")
       /\ prog = "server" =>
            number("numThreads", "t") /\ number("sensorInterval", "i") /\ text("deviceName", "d")
       /\ prog = "client" =>
            /\ text("hostname", "H")
            /\ config.request = IF "a" \in Named \/ Named = {} THEN All ELSE asked

\* The usage text of the server: without --device the bus is /dev/i2c-1.
UsageDevice ==
  status = "runs" /\ prog = "server" /\ (\A i \in DOMAIN argv : argv[i].opt # "d") =>
    BusPath = "/dev/i2c-1"
===============================================================================
