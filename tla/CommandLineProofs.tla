-------------------------- MODULE CommandLineProofs ---------------------------
(***************************************************************************)
(* Theorems about CommandLine, for any words and command lines of any      *)
(* length: InRange, FirstDecides and SettingsAsWritten.                    *)
(***************************************************************************)
EXTENDS CommandLine, WellFoundedInduction, TLAPS

Fields == {"port", "numThreads", "sensorInterval", "deviceName", "hostname", "request",
           "showHelp", "showVersion"}

\* config is a function of the fields, whatever their values.
IsConfig == \E S : config \in [Fields -> S]

NumbersValid ==
  /\ config.port \in Ports
  /\ config.numThreads \in Counts
  /\ config.sensorInterval \in Intervals

\* As long as no error is returned every number is valid; only then main() goes
\* on.
IInv ==
  /\ IsConfig
  /\ ret \in {None, "ok", "error", "throws"}
  /\ ret \in {None, "ok"} => NumbersValid
  /\ status = "runs" => ret = "ok"

\* None is none of the values that ret and status take.
LEMMA NoneIsNone == None \notin {"ok", "error", "throws", "runs"}
BY CommandLineAssumption DEF Results, Outcomes

\* The invariant holds before the loop: the defaults are valid.
LEMMA InitIInv == Init => IInv
<1>1. ASSUME Init PROVE IsConfig
  <2>1. Defaults \in [Fields -> {Defaults[f] : f \in Fields}]
    BY DEF Defaults, Fields
  <2> QED
    BY <1>1, <2>1 DEF Init, IsConfig
<1>2. ASSUME Init PROVE NumbersValid
  <2>1. 3500 \in Ports /\ 4 \in Counts /\ 1000 \in Intervals
    BY DEF Ports, Counts, Intervals, MIN_UPDATE_INTERVAL, MAX_UPDATE_INTERVAL
  <2>2. Defaults.port = 3500 /\ Defaults.numThreads = 4 /\ Defaults.sensorInterval = 1000
    BY DEF Defaults
  <2> QED
    BY <1>2, <2>1, <2>2 DEF Init, NumbersValid
<1>3. ASSUME Init PROVE status # "runs" /\ ret = None
  BY <1>3, NoneIsNone DEF Init
<1> QED
  BY <1>1, <1>2, <1>3 DEF IInv

\* Setting a field leaves the others alone, and no field is added.
LEMMA SetKeeps ==
  ASSUME IsConfig, NEW field \in Fields, NEW value, Set(field, value)
  PROVE  /\ IsConfig'
         /\ config'[field] = value
         /\ \A f \in Fields \ {field} : config'[f] = config[f]
<1>1. PICK S : config \in [Fields -> S]
  BY DEF IsConfig
<1>2. config' = [config EXCEPT ![field] = value]
  BY DEF Set
<1>3. config' \in [Fields -> S \cup {value}]
  BY <1>1, <1>2
<1>4. IsConfig'
  BY <1>3 DEF IsConfig
<1> QED
  BY <1>1, <1>2, <1>4

\* A setting that is no number of the configuration cannot spoil one.
LEMMA SetOther ==
  ASSUME IsConfig, NumbersValid,
         NEW field \in {"deviceName", "hostname", "request", "showHelp", "showVersion"},
         NEW value, Set(field, value)
  PROVE  IsConfig' /\ NumbersValid'
<1>1. field \in Fields
  BY DEF Fields
<1>2. /\ IsConfig'
      /\ config'.port = config.port
      /\ config'.numThreads = config.numThreads
      /\ config'.sensorInterval = config.sensorInterval
  BY <1>1, SetKeeps DEF Fields
<1> QED
  BY <1>2 DEF NumbersValid

\* A numeric option leaves an error, or a valid number.
LEMMA NumberKeeps ==
  ASSUME IInv, ret = None, NEW field, NEW valid, Number(field, valid),
         \/ field = "port" /\ valid = Ports
         \/ field = "numThreads" /\ valid = Counts
         \/ field = "sensorInterval" /\ valid = Intervals
  PROVE  /\ ret' \in {None, "ok", "error", "throws"}
         /\ IsConfig' /\ (ret' \in {None, "ok"} => NumbersValid')
<1>1. IsConfig /\ NumbersValid /\ field \in Fields
  BY NoneIsNone DEF IInv, Fields
<1>0. ret' \in {None, "ok", "error", "throws"}
  BY NoneIsNone DEF Number
<1>2. CASE UNCHANGED config
  BY <1>1, <1>2, <1>0 DEF IsConfig, NumbersValid
<1>3. CASE Set(field, Optarg.number) /\ Optarg.number \in valid
  <2>1. /\ IsConfig'
        /\ config'[field] \in valid
        /\ \A f \in Fields \ {field} : config'[f] = config[f]
    BY <1>1, <1>3, SetKeeps
  <2> QED
    BY <1>0, <1>1, <2>1 DEF Fields, NumbersValid
<1>4. CASE Set(field, Optarg.number) /\ ret' = "error"
  <2>1. IsConfig'
    BY <1>1, <1>4, SetKeeps
  <2> QED
    BY <1>4, <2>1, NoneIsNone
<1> QED
  BY <1>0, <1>2, <1>3, <1>4 DEF Number

\* Every turn of the loop, and main(), keep the invariant.
LEMMA NextIInv == IInv /\ [Next]_vars => IInv'
<1> SUFFICES ASSUME IInv, [Next]_vars PROVE IInv'
  OBVIOUS
<1> USE NoneIsNone
<1>1. ASSUME ret = None, UNCHANGED status, ret' \in {None, "ok", "error", "throws"},
             IsConfig' /\ (ret' \in {None, "ok"} => NumbersValid')
      PROVE  IInv'
  BY <1>1 DEF IInv
<1>2. ASSUME CommonOption PROVE IInv'
  <2>1. ret = None /\ UNCHANGED status
    BY <1>2 DEF CommonOption, Getopt
  <2>2. CASE Number("port", Ports)
    BY <1>1, <2>1, <2>2, NumberKeeps
  <2>3. CASE Show("showHelp") \/ Show("showVersion")
    BY <1>1, <2>1, <2>3, SetOther DEF Show, IInv
  <2> QED
    BY <1>2, <2>2, <2>3 DEF CommonOption
<1>3. CASE ServerOption
  <2>1. CASE CommonOption
    BY <1>2, <2>1
  <2>2. CASE Getopt("t") /\ Number("numThreads", Counts)
    BY <1>1, <2>2, NumberKeeps DEF Getopt
  <2>3. CASE Getopt("i") /\ Number("sensorInterval", Intervals)
    BY <1>1, <2>3, NumberKeeps DEF Getopt
  <2>4. CASE Getopt("d") /\ Text("deviceName")
    BY <1>1, <2>4, SetOther DEF Getopt, Text, IInv
  <2> QED
    BY <1>3, <2>1, <2>2, <2>3, <2>4 DEF ServerOption
<1>4. CASE ClientOption
  <2>1. CASE CommonOption
    BY <1>2, <2>1
  <2>2. CASE Getopt("H") /\ Text("hostname")
    BY <1>1, <2>2, SetOther DEF Getopt, Text, IInv
  <2>3. ASSUME NEW o, NEW fields, Getopt(o), Ask(fields) PROVE IInv'
    BY <1>1, <2>3, SetOther DEF Getopt, Ask, IInv
  <2> QED
    BY <1>4, <2>1, <2>2, <2>3 DEF ClientOption
<1>5. CASE GetoptFails
  BY <1>1, <1>5 DEF GetoptFails, IInv, IsConfig
<1>6. CASE EndOfOptions
  <2>1. CASE UNCHANGED config
    BY <1>1, <1>6, <2>1 DEF EndOfOptions, IInv, IsConfig, NumbersValid
  <2>2. CASE Set("request", All)
    BY <1>1, <1>6, <2>2, SetOther DEF EndOfOptions, IInv
  <2> QED
    BY <1>6, <2>1, <2>2 DEF EndOfOptions
<1>7. CASE Main
  <2>1. UNCHANGED <<config, ret>> /\ (status' = "runs" => ret \notin {"throws", "error"})
    BY <1>7 DEF Main
  <2>2. ret = "ok" \/ status' # "runs"
    BY <1>7, <2>1 DEF Main, IInv
  <2> QED
    BY <2>1, <2>2 DEF IInv, IsConfig, NumbersValid
<1>8. CASE UNCHANGED vars
  BY <1>8 DEF vars, IInv, IsConfig, NumbersValid
<1> QED
  BY <1>3, <1>4, <1>5, <1>6, <1>7, <1>8 DEF Next, Done

\* A server or client that starts its work has a valid port, a server also a
\* number of workers and an interval that are valid (CommandLine!InRange).
THEOREM CommandLineInRange == Spec => []InRange
<1>1. IInv => InRange
  BY DEF IInv, NumbersValid, InRange
<1> QED
  BY InitIInv, NextIInv, <1>1, PTL DEF Spec
-------------------------------------------------------------------------------
(* What a word is taken for follows from the word before it.               *)

\* A nonempty set of natural numbers has a least element.
LEMMA LeastNumber ==
  ASSUME NEW N \in SUBSET Nat, N # {}
  PROVE  \E n \in N : \A m \in N : n <= m
<1> DEFINE R == {ss \in Nat \X Nat : ss[1] < ss[2]}
<1>1. IsWellFoundedOn(R, Nat)
  BY NatLessThanWellFounded DEF OpToRel
<1>2. PICK n \in N : \A m \in N : <<m, n>> \notin R
  BY <1>1, WFMin
<1>3. ASSUME NEW m \in N PROVE n <= m
  <2>1. <<m, n>> \in Nat \X Nat
    OBVIOUS
  <2>2. <<m, n>> \in R <=> m < n
    BY <2>1
  <2> QED
    BY <1>2, <2>1, <2>2
<1> QED
  BY <1>3

\* The words directly before i that are options with an argument: there is a
\* longest row of them.
LEMMA LongestRow ==
  ASSUME NEW i \in Nat \ {0}
  PROVE  \E r \in 0 .. i - 1 :
           /\ \A j \in i - r .. i - 1 : argv[j].opt \in Takes
           /\ r = i - 1 \/ argv[i - r - 1].opt \notin Takes
<1> DEFINE N == {n \in 0 .. i - 1 : n = i - 1 \/ argv[i - n - 1].opt \notin Takes}
<1>1. i - 1 \in N /\ N \subseteq Nat
  OBVIOUS
<1>2. PICK r \in N : \A m \in N : r <= m
  BY <1>1, LeastNumber
<1>3. ASSUME NEW j \in i - r .. i - 1 PROVE argv[j].opt \in Takes
  <2>1. i - j - 1 \in 0 .. i - 1 /\ i - j - 1 < r /\ i - (i - j - 1) - 1 = j
    OBVIOUS
  <2>2. ASSUME i - j - 1 \in N PROVE FALSE
    <3>1. r <= i - j - 1
      BY <1>2, <2>2
    <3> QED
      BY <2>1, <3>1
  <2> QED
    BY <2>1, <2>2
<1> QED
  BY <1>2, <1>3

\* A word is an argument when the word before it takes one and is none itself.
LEMMA ArgumentNext ==
  ASSUME NEW i \in Nat \ {0}
  PROVE  Argument(i + 1) <=> argv[i].opt \in Takes /\ ~Argument(i)
<1>1. ASSUME Argument(i + 1) PROVE argv[i].opt \in Takes /\ ~Argument(i)
  <2>1. PICK k \in 1 .. i :
          /\ k % 2 = 1
          /\ \A j \in i + 1 - k .. i : argv[j].opt \in Takes
          /\ k = i \/ argv[i - k].opt \notin Takes
    <3>1. (i + 1) - 1 = i /\ \A k \in 1 .. i : (i + 1) - k - 1 = i - k
      OBVIOUS
    <3> QED
      BY <1>1, <3>1 DEF Argument
  <2>2. ASSUME NEW m \in 1 .. i - 1, m % 2 = 1, \A j \in i - m .. i - 1 : argv[j].opt \in Takes,
               m = i - 1 \/ argv[i - m - 1].opt \notin Takes
        PROVE  FALSE
    <3>1. CASE m < k - 1
      <4>1. i - m - 1 \in i + 1 - k .. i
        BY <3>1
      <4> QED
        BY <2>1, <2>2, <3>1, <4>1
    <3>2. CASE m > k - 1
      <4>1. k # i /\ i - k \in i - m .. i - 1
        BY <3>2
      <4> QED
        BY <2>1, <2>2, <4>1
    <3>3. CASE m = k - 1
      BY <2>1, <2>2, <3>3
    <3> QED
      BY <3>1, <3>2, <3>3
  <2> QED
    BY <2>1, <2>2 DEF Argument
<1>2. ASSUME argv[i].opt \in Takes, ~Argument(i) PROVE Argument(i + 1)
  <2>1. PICK r \in 0 .. i - 1 :
          /\ \A j \in i - r .. i - 1 : argv[j].opt \in Takes
          /\ r = i - 1 \/ argv[i - r - 1].opt \notin Takes
    BY LongestRow
  <2>2. r % 2 # 1
    BY <1>2, <2>1 DEF Argument
  <2>3. (r + 1) % 2 = 1 /\ r + 1 \in 1 .. (i + 1) - 1
    BY <2>2
  <2>4. \A j \in (i + 1) - (r + 1) .. (i + 1) - 1 : argv[j].opt \in Takes
    BY <1>2, <2>1
  <2>5. r + 1 = (i + 1) - 1 \/ argv[(i + 1) - (r + 1) - 1].opt \notin Takes
    <3>1. (i + 1) - (r + 1) - 1 = i - r - 1
      OBVIOUS
    <3> QED
      BY <2>1, <3>1
  <2> QED
    BY <2>3, <2>4, <2>5 DEF Argument
<1> QED
  BY <1>1, <1>2
-------------------------------------------------------------------------------
(* What the loop has done when it comes to word n.                         *)

\* The places before n where option o is used.
Uses(o, n) == {i \in DOMAIN argv : i < n /\ IsOption(i) /\ argv[i].opt = o}

LastOf(places) == CHOOSE i \in places : \A j \in places : j <= i

\* Written, as far as the words before n go.
WrittenBefore(o, default, n) ==
  IF Uses(o, n) = {} THEN default ELSE argv[LastOf(Uses(o, n)) + 1]

\* No option before n decides, and none is the end of the options.
Passed(n) ==
  \A i \in DOMAIN argv : i < n =>
    /\ IsOption(i) => Outcome(i) = None
    /\ argv[i].opt = "--" => Argument(i)

Settings(n) ==
  LET number(field, o) == config[field] = WrittenBefore(o, [number |-> Defaults[field]], n).number
      text(field, o) == config[field] = WrittenBefore(o, [text |-> Defaults[field]], n).text
  IN /\ number("port", "p")
     /\ prog = "server" =>
          number("numThreads", "t") /\ number("sensorInterval", "i") /\ text("deviceName", "d")
     /\ prog = "client" => text("hostname", "H")

\* The fields that the client was told to ask for.
Asked(n) ==
  {f \in All : \/ Uses("a", n) # {}
               \/ f = "TEMP" /\ Uses("t", n) # {}
               \/ f = "HUMID" /\ Uses("u", n) # {}
               \/ f = "PRESS" /\ Uses("r", n) # {}}

Shown == config.showHelp \/ config.showVersion

\* How main() goes on after parse(), and how it should.
Follows ==
  CASE ret = "throws" -> "aborted"
    [] ret = "error" -> "failed"
    [] Shown -> "informed"
    [] OTHER -> "runs"

Decision ==
  IF Deciding = {} THEN "runs" ELSE Outcome(CHOOSE i \in Deciding : \A j \in Deciding : i <= j)

\* Before word optind, which is no argument, everything is as the words say.
Looping ==
  /\ status = None
  /\ config.showHelp = FALSE /\ config.showVersion = FALSE
  /\ Passed(optind) /\ Settings(optind)
  /\ prog = "client" => config.request = Asked(optind)

\* What is known when parse() returns and nothing keeps main() from its work.
Complete ==
  LET n == Len(argv) + 1 IN
    /\ Deciding = {} /\ Settings(n)
    /\ prog = "client" => config.request = IF Asked(n) = {} THEN All ELSE Asked(n)

LoopInv ==
  /\ prog \in {"server", "client"}
  /\ argv \in Seq(Words[prog])
  /\ optind \in 1 .. Len(argv) + 1 /\ ~Argument(optind)
  /\ IsConfig /\ ret \in {None, "ok", "error", "throws"}
  /\ ret = None => Looping
  /\ ret # None => Follows = Decision
  /\ ret = "ok" /\ ~Shown => Complete
  /\ status # None => ret # None /\ status = Follows

\* What is said of the words stays as it is: nothing changes argv.
LEMMA WordsKept ==
  ASSUME UNCHANGED <<prog, argv>>
  PROVE  /\ \A i : Argument(i)' <=> Argument(i)
         /\ \A i : IsOption(i)' <=> IsOption(i)
         /\ \A i : Outcome(i)' = Outcome(i)
         /\ \A o, n : Uses(o, n)' = Uses(o, n)
         /\ \A o, d, n : WrittenBefore(o, d, n)' = WrittenBefore(o, d, n)
         /\ Decision' = Decision /\ (Deciding' = {} <=> Deciding = {})
<1>1. prog' = prog /\ argv' = argv /\ Takes' = Takes /\ Flags' = Flags
  BY DEF Takes, Flags
<1>2. \A i : Argument(i)' <=> Argument(i)
  BY <1>1 DEF Argument
<1>3. \A i : IsOption(i)' <=> IsOption(i)
  BY <1>1, <1>2 DEF IsOption
<1>4. \A i : Outcome(i)' = Outcome(i)
  BY <1>1 DEF Outcome, Valid
<1>5. \A o, n : Uses(o, n)' = Uses(o, n)
  BY <1>1, <1>3 DEF Uses
<1>6. \A o, d, n : WrittenBefore(o, d, n)' = WrittenBefore(o, d, n)
  BY <1>1, <1>5 DEF WrittenBefore
<1>7. Deciding' = Deciding
  BY <1>1, <1>3, <1>4 DEF Deciding
<1>8. \A i : Deciding' = Deciding /\ Outcome(i)' = Outcome(i)
  BY <1>4, <1>7
<1>9. Decision' = Decision
  BY <1>7, <1>8 DEF Decision
<1> QED
  BY <1>2, <1>3, <1>4, <1>5, <1>6, <1>7, <1>9

\* None is not an option that takes an argument, nor the end of the options.
LEMMA NoneIsNoOption == None \notin Takes /\ None # "--"
BY CommandLineAssumption DEF Takes

\* The next option, if there is one, is the first word from optind on that is one,
\* and it is no argument.
LEMMA HereIs ==
  ASSUME LoopInv, Options # {}
  PROVE  /\ Here \in optind .. Len(argv) /\ Here \in Nat \ {0} /\ argv[Here].opt # None
         /\ \A j \in optind .. Here - 1 : argv[j].opt = None
         /\ ~Argument(Here)
<1>1. optind \in Nat \ {0} /\ Len(argv) \in Nat
  BY DEF LoopInv
<1>2. Options \subseteq Nat
  BY <1>1 DEF Options
<1>3. \E n \in Options : \A j \in Options : n <= j
  BY <1>2, LeastNumber
<1>4. Here \in Options /\ \A j \in Options : Here <= j
  BY <1>3 DEF Here
<1> DEFINE h == Here
<1>5. h \in optind .. Len(argv) /\ h \in Nat \ {0} /\ argv[h].opt # None
  BY <1>1, <1>4 DEF Options
<1> HIDE DEF h
<1>6. \A j \in optind .. h - 1 : argv[j].opt = None
  <2> SUFFICES ASSUME NEW j \in optind .. h - 1, argv[j].opt # None PROVE FALSE
    OBVIOUS
  <2>1. j \in Options
    BY <1>1, <1>5 DEF Options
  <2>2. h <= j
    BY <1>4, <2>1 DEF h
  <2> QED
    BY <1>1, <1>5, <2>2
<1>7. ~Argument(h)
  <2>1. CASE h = optind
    BY <2>1 DEF LoopInv
  <2>2. CASE h # optind
    <3>1. h - 1 \in Nat \ {0} /\ h - 1 \in optind .. h - 1 /\ (h - 1) + 1 = h
      BY <1>1, <1>5, <2>2
    <3>2. argv[h - 1].opt \notin Takes
      BY <1>6, <3>1, NoneIsNoOption
    <3>3. Argument((h - 1) + 1) <=> argv[h - 1].opt \in Takes /\ ~Argument(h - 1)
      BY <3>1, ArgumentNext
    <3> QED
      BY <3>1, <3>2, <3>3
  <2> QED
    BY <2>1, <2>2
<1> QED
  BY <1>5, <1>6, <1>7 DEF h

\* Unless the options are at their end the word there is one that counts.
LEMMA Found ==
  ASSUME LoopInv, ret = None, ~AtEnd
  PROVE  /\ Here \in optind .. Len(argv) /\ Here \in Nat \ {0} /\ Here \in DOMAIN argv
         /\ ~Argument(Here) /\ IsOption(Here)
         /\ \A j \in optind .. Here - 1 : argv[j].opt = None
<1>1. Options # {} /\ argv[Here].opt # "--"
  BY DEF AtEnd
<1>2. optind \in Nat \ {0} /\ Len(argv) \in Nat /\ DOMAIN argv = 1 .. Len(argv)
  BY DEF LoopInv
<1> DEFINE h == Here
<1>3. /\ h \in optind .. Len(argv) /\ h \in Nat \ {0} /\ argv[h].opt # None
      /\ \A j \in optind .. h - 1 : argv[j].opt = None
      /\ ~Argument(h)
  BY <1>1, HereIs
<1>4. argv[h].opt # "--"
  BY <1>1
<1> HIDE DEF h
<1>5. ASSUME NEW j \in 1 .. h - 1, argv[j].opt = "--" PROVE Argument(j)
  <2>1. CASE j < optind
    BY <1>2, <1>3, <1>5, <2>1 DEF LoopInv, Looping, Passed
  <2>2. CASE j >= optind
    BY <1>2, <1>3, <1>5, <2>2, NoneIsNoOption
  <2> QED
    BY <1>2, <2>1, <2>2
<1>6. IsOption(h)
  BY <1>3, <1>4, <1>5 DEF IsOption
<1> QED
  BY <1>2, <1>3, <1>6 DEF h

\* Behind an option getopt_long() goes on behind its argument, which it is.
LEMMA After ==
  ASSUME LoopInv, NEW o, Getopt(o)
  PROVE  /\ optind' \in Here + 1 .. Len(argv) + 1 /\ optind' \in 1 .. Len(argv) + 1
         /\ ~Argument(optind')
         /\ \A j \in Here + 1 .. optind' - 1 : Argument(j)
<1> DEFINE h == Here
<1>1. /\ h \in optind .. Len(argv) /\ h \in Nat \ {0} /\ ~Argument(h)
      /\ Len(argv) \in Nat /\ argv[h].opt = o
      /\ o \in Takes => h < Len(argv)
      /\ optind' = IF o \in Takes THEN h + 2 ELSE h + 1
  BY Found DEF Getopt, Opt, LoopInv
<1> HIDE DEF h
<1>2. Argument(h + 1) <=> o \in Takes
  BY <1>1, ArgumentNext
<1>3. h + 1 \in Nat \ {0} /\ (h + 1) + 1 = h + 2
  BY <1>1
<1>4. Argument((h + 1) + 1) <=> argv[h + 1].opt \in Takes /\ ~Argument(h + 1)
  BY <1>3, ArgumentNext
<1>5. o \in Takes => ~Argument(h + 2)
  BY <1>2, <1>3, <1>4
<1>6. optind' \in h + 1 .. Len(argv) + 1 /\ optind' \in 1 .. Len(argv) + 1
  BY <1>1
<1> QED
  BY <1>1, <1>2, <1>5, <1>6 DEF h

\* The option that was found is used there, and no other option is.
LEMMA UsesAfter ==
  ASSUME LoopInv, NEW o, Getopt(o), NEW q
  PROVE  /\ Uses(q, optind') = Uses(q, optind) \cup (IF q = o THEN {Here} ELSE {})
         /\ \A j \in Uses(q, optind) : j \in Nat /\ j < Here
<1> DEFINE h == Here
<1>1. /\ h \in optind .. Len(argv) /\ h \in Nat \ {0} /\ h \in DOMAIN argv
      /\ IsOption(h) /\ argv[h].opt = o
      /\ \A j \in optind .. h - 1 : argv[j].opt = None
  BY Found DEF Getopt, Opt
<1>2. /\ optind' \in h + 1 .. Len(argv) + 1
      /\ \A j \in h + 1 .. optind' - 1 : Argument(j)
  BY After
<1>3. optind \in Nat \ {0} /\ Len(argv) \in Nat /\ DOMAIN argv = 1 .. Len(argv)
  BY DEF LoopInv
<1> HIDE DEF h
<1>4. ASSUME NEW j \in DOMAIN argv, IsOption(j)
      PROVE  j < optind' <=> j < optind \/ j = h
  <2>1. j \notin optind .. h - 1
    BY <1>1, <1>4 DEF IsOption
  <2>2. j \notin h + 1 .. optind' - 1
    BY <1>2, <1>4 DEF IsOption
  <2> QED
    BY <1>1, <1>2, <1>3, <2>1, <2>2
<1>5. Uses(q, optind') = Uses(q, optind) \cup (IF q = o THEN {h} ELSE {})
  BY <1>1, <1>4 DEF Uses
<1>6. \A j \in Uses(q, optind) : j \in Nat /\ j < h
  BY <1>1, <1>3 DEF Uses
<1> QED
  BY <1>5, <1>6 DEF h

\* The argument of the option that was found is the last that is written for it.
LEMMA WrittenAfter ==
  ASSUME LoopInv, NEW o, Getopt(o), NEW q, NEW d
  PROVE  WrittenBefore(q, d, optind') = IF q = o THEN Optarg ELSE WrittenBefore(q, d, optind)
<1>1. CASE q # o
  <2>1. Uses(q, optind') = Uses(q, optind)
    BY <1>1, UsesAfter
  <2> QED
    BY <1>1, <2>1 DEF WrittenBefore
<1>2. CASE q = o
  <2> DEFINE h == Here
             U == Uses(q, optind')
  <2>1. h \in U /\ h \in Nat /\ \A j \in U : j \in Nat /\ j <= h
    BY <1>2, UsesAfter, Found DEF Getopt
  <2> HIDE DEF h, U
  <2>2. LastOf(U) = h
    <3>1. LastOf(U) \in U /\ \A j \in U : j <= LastOf(U)
      BY <2>1 DEF LastOf
    <3>2. LastOf(U) \in Nat /\ LastOf(U) <= h /\ h <= LastOf(U)
      BY <2>1, <3>1
    <3> QED
      BY <2>1, <3>2
  <2>3. U # {}
    BY <2>1
  <2> QED
    BY <1>2, <2>2, <2>3 DEF WrittenBefore, Optarg, h, U
<1> QED
  BY <1>1, <1>2

\* An option that does not decide is passed.
LEMMA PassedAfter ==
  ASSUME LoopInv, NEW o, Getopt(o), Outcome(Here) = None
  PROVE  Passed(optind')
<1> DEFINE h == Here
<1>1. /\ h \in optind .. Len(argv) /\ h \in Nat \ {0} /\ argv[h].opt # "--" /\ Outcome(h) = None
      /\ \A j \in optind .. h - 1 : argv[j].opt = None
  BY Found DEF Getopt, IsOption
<1>2. /\ optind' \in h + 1 .. Len(argv) + 1
      /\ \A j \in h + 1 .. optind' - 1 : Argument(j)
  BY After
<1>3. optind \in Nat \ {0} /\ Len(argv) \in Nat /\ DOMAIN argv = 1 .. Len(argv) /\ Passed(optind)
  BY DEF LoopInv, Looping, Getopt
<1> HIDE DEF h
<1> SUFFICES ASSUME NEW j \in DOMAIN argv, j < optind'
             PROVE  (IsOption(j) => Outcome(j) = None) /\ (argv[j].opt = "--" => Argument(j))
  BY DEF Passed
<1>4. CASE j < optind
  BY <1>3, <1>4 DEF Passed
<1>5. CASE j \in optind .. h - 1
  BY <1>1, <1>5, NoneIsNoOption DEF IsOption
<1>6. CASE j = h
  BY <1>1, <1>6
<1>7. CASE j \in h + 1 .. optind' - 1
  BY <1>2, <1>7 DEF IsOption
<1> QED
  BY <1>1, <1>2, <1>3, <1>4, <1>5, <1>6, <1>7

\* The first option that decides does so when the loop comes to it.
LEMMA DecidedHere ==
  ASSUME LoopInv, ret = None, ~AtEnd, Outcome(Here) # None
  PROVE  Decision = Outcome(Here)
<1> DEFINE h == Here
<1>1. /\ h \in optind .. Len(argv) /\ h \in DOMAIN argv /\ IsOption(h) /\ Outcome(h) # None
      /\ \A j \in optind .. h - 1 : argv[j].opt = None
  BY Found
<1>2. optind \in Nat \ {0} /\ Len(argv) \in Nat /\ DOMAIN argv = 1 .. Len(argv) /\ Passed(optind)
  BY DEF LoopInv, Looping
<1> HIDE DEF h
<1>3. h \in Deciding
  BY <1>1 DEF Deciding
<1>4. ASSUME NEW j \in Deciding PROVE j \in Nat /\ h <= j
  <2>1. j \in DOMAIN argv /\ IsOption(j) /\ Outcome(j) # None
    BY DEF Deciding
  <2>2. j >= optind
    BY <1>2, <2>1 DEF Passed
  <2>3. j \notin optind .. h - 1
    BY <1>1, <2>1 DEF IsOption
  <2> QED
    BY <1>1, <1>2, <2>1, <2>2, <2>3
<1>5. (CHOOSE i \in Deciding : \A j \in Deciding : i <= j) = h
  BY <1>1, <1>2, <1>3, <1>4
<1> QED
  BY <1>3, <1>5 DEF Decision, h

\* At the end of the options none is left.
LEMMA NoneLeft ==
  ASSUME LoopInv, ret = None, AtEnd, NEW j \in DOMAIN argv, j >= optind
  PROVE  ~IsOption(j)
<1>1. optind \in Nat \ {0} /\ Len(argv) \in Nat /\ DOMAIN argv = 1 .. Len(argv)
  BY DEF LoopInv
<1>2. CASE Options = {}
  BY <1>1, <1>2 DEF Options, IsOption
<1>3. CASE Options # {}
  <2> DEFINE h == Here
  <2>1. /\ h \in optind .. Len(argv) /\ h \in Nat \ {0} /\ argv[h].opt = "--"
        /\ \A i \in optind .. h - 1 : argv[i].opt = None
        /\ ~Argument(h)
    BY <1>3, HereIs DEF AtEnd
  <2> HIDE DEF h
  <2>2. CASE j < h
    BY <1>1, <2>1, <2>2 DEF IsOption
  <2>3. CASE j = h
    BY <2>1, <2>3 DEF IsOption
  <2>4. CASE j > h
    <3>1. h \in 1 .. j - 1
      BY <1>1, <2>1, <2>4
    <3> QED
      BY <2>1, <3>1 DEF IsOption
  <2> QED
    BY <1>1, <2>1, <2>2, <2>3, <2>4
<1> QED
  BY <1>2, <1>3
-------------------------------------------------------------------------------
(* One turn of the loop.                                                   *)

\* What an option that is found leads to.
LEMMA OutcomeHere ==
  ASSUME LoopInv, NEW o, Getopt(o)
  PROVE  /\ o \in {"h", "v"} => Outcome(Here) = "informed"
         /\ o \in {"t", "u", "r", "a"} /\ prog = "client" => Outcome(Here) = None
         /\ o \in {"d", "H"} /\ o \in Takes => Outcome(Here) = None
         /\ o \in {"p", "t", "i"} /\ o \in Takes =>
              Outcome(Here) = IF Optarg.number = NoNumber THEN "aborted"
                              ELSE IF Optarg.number \in Valid(o) THEN None ELSE "failed"
<1> DEFINE h == Here
<1>1. argv[h].opt = o /\ h \in Nat \ {0} /\ Len(argv) \in Nat /\ h <= Len(argv)
      /\ (o \in Takes => h < Len(argv))
  BY Found DEF Getopt, Opt, LoopInv
<1>2. prog \in {"server", "client"}
  BY DEF LoopInv
<1> HIDE DEF h
<1>3. CASE o \in {"h", "v"}
  BY <1>1, <1>2, <1>3 DEF Outcome, Takes, Flags, h
<1>4. CASE o \in {"t", "u", "r", "a"} /\ prog = "client"
  BY <1>1, <1>2, <1>4 DEF Outcome, Takes, Flags, h
<1>5. CASE o \in {"d", "H"} /\ o \in Takes
  BY <1>1, <1>2, <1>5 DEF Outcome, Flags, h
<1>6. CASE o \in {"p", "t", "i"} /\ o \in Takes
  <2>1. Optarg.number = argv[h + 1].number
    BY DEF Optarg, h
  <2>2. Outcome(h) = IF argv[h + 1].number = NoNumber THEN "aborted"
                     ELSE IF argv[h + 1].number \in Valid(o) THEN None ELSE "failed"
    <3>1. /\ argv[h].opt \notin {"h", "v"} /\ argv[h].opt \in Takes \cup Flags /\ h # Len(argv) /\ h < Len(argv)
          /\ argv[h].opt \in Takes \cap {"p", "t", "i"} /\ Valid(argv[h].opt) = Valid(o)
      BY <1>1, <1>6
    <3>2. CASE argv[h + 1].number = NoNumber
      BY <3>1, <3>2 DEF Outcome
    <3>3. CASE argv[h + 1].number # NoNumber /\ argv[h + 1].number \in Valid(o)
      BY <3>1, <3>3 DEF Outcome
    <3>4. CASE argv[h + 1].number # NoNumber /\ argv[h + 1].number \notin Valid(o)
      BY <3>1, <3>4 DEF Outcome
    <3> QED
      BY <3>2, <3>3, <3>4
  <2> QED
    BY <1>2, <1>6, <2>1, <2>2 DEF h, Takes
<1> QED
  BY <1>3, <1>4, <1>5, <1>6

\* An option that sets something sets it as it is written.
Assigns(o) ==
  \/ o = "p" /\ Set("port", Optarg.number)
  \/ prog = "server" /\ o = "t" /\ Set("numThreads", Optarg.number)
  \/ prog = "server" /\ o = "i" /\ Set("sensorInterval", Optarg.number)
  \/ prog = "server" /\ o = "d" /\ Set("deviceName", Optarg.text)
  \/ prog = "client" /\ o = "H" /\ Set("hostname", Optarg.text)

\* After it everything is as the words up to there say.
LEMMA SettingsAfter ==
  ASSUME LoopInv, NEW o, Getopt(o), Assigns(o)
  PROVE  /\ IsConfig' /\ Settings(optind)'
         /\ config'.showHelp = FALSE /\ config'.showVersion = FALSE /\ config'.request = config.request
         /\ prog = "client" => Asked(optind)' = Asked(optind)
<1>1. UNCHANGED <<prog, argv>> /\ Settings(optind) /\ IsConfig /\ prog \in {"server", "client"}
      /\ config.showHelp = FALSE /\ config.showVersion = FALSE
  BY DEF LoopInv, Looping, Getopt
<1>2. \A q, d : WrittenBefore(q, d, optind)' = IF q = o THEN Optarg ELSE WrittenBefore(q, d, optind)
  BY <1>1, WordsKept, WrittenAfter
<1>3. IsConfig' /\ config'.showHelp = FALSE /\ config'.showVersion = FALSE /\ config'.request = config.request
  BY <1>1, SetKeeps DEF Assigns, Fields
<1>4. Settings(optind)'
  <2>1. CASE o = "p" /\ Set("port", Optarg.number)
    <3>1. /\ config'.port = Optarg.number /\ config'.numThreads = config.numThreads
          /\ config'.sensorInterval = config.sensorInterval
          /\ config'.deviceName = config.deviceName /\ config'.hostname = config.hostname
      BY <1>1, <2>1, SetKeeps DEF Fields
    <3> QED
      BY <1>1, <1>2, <2>1, <3>1 DEF Settings
  <2>2. CASE prog = "server" /\ o = "t" /\ Set("numThreads", Optarg.number)
    <3>1. /\ config'.port = config.port /\ config'.numThreads = Optarg.number
          /\ config'.sensorInterval = config.sensorInterval
          /\ config'.deviceName = config.deviceName
      BY <1>1, <2>2, SetKeeps DEF Fields
    <3> QED
      BY <1>1, <1>2, <2>2, <3>1 DEF Settings
  <2>3. CASE prog = "server" /\ o = "i" /\ Set("sensorInterval", Optarg.number)
    <3>1. /\ config'.port = config.port /\ config'.numThreads = config.numThreads
          /\ config'.sensorInterval = Optarg.number
          /\ config'.deviceName = config.deviceName
      BY <1>1, <2>3, SetKeeps DEF Fields
    <3> QED
      BY <1>1, <1>2, <2>3, <3>1 DEF Settings
  <2>4. CASE prog = "server" /\ o = "d" /\ Set("deviceName", Optarg.text)
    <3>1. /\ config'.port = config.port /\ config'.numThreads = config.numThreads
          /\ config'.sensorInterval = config.sensorInterval
          /\ config'.deviceName = Optarg.text
      BY <1>1, <2>4, SetKeeps DEF Fields
    <3> QED
      BY <1>1, <1>2, <2>4, <3>1 DEF Settings
  <2>5. CASE prog = "client" /\ o = "H" /\ Set("hostname", Optarg.text)
    <3>1. config'.port = config.port /\ config'.hostname = Optarg.text
      BY <1>1, <2>5, SetKeeps DEF Fields
    <3> QED
      BY <1>1, <1>2, <2>5, <3>1 DEF Settings
  <2> QED
    BY <2>1, <2>2, <2>3, <2>4, <2>5 DEF Assigns
<1>5. prog = "client" => Asked(optind)' = Asked(optind)
  <2> SUFFICES ASSUME prog = "client" PROVE Asked(optind)' = Asked(optind)
    OBVIOUS
  <2>1. o \notin {"a", "t", "u", "r"}
    BY DEF Assigns
  <2>2. \A q : Uses(q, optind)' = Uses(q, optind) \cup (IF q = o THEN {Here} ELSE {})
    BY <1>1, WordsKept, UsesAfter
  <2> QED
    BY <2>1, <2>2 DEF Asked
<1> QED
  BY <1>3, <1>4, <1>5

\* A client asks for what it is told, and for nothing else.
LEMMA AskedAfter ==
  ASSUME LoopInv, prog = "client", NEW o, Getopt(o), NEW fields, Ask(fields),
         \/ o = "t" /\ fields = {"TEMP"}
         \/ o = "u" /\ fields = {"HUMID"}
         \/ o = "r" /\ fields = {"PRESS"}
         \/ o = "a" /\ fields = All
  PROVE  /\ IsConfig' /\ Settings(optind)'
         /\ config'.showHelp = FALSE /\ config'.showVersion = FALSE
         /\ config'.request = Asked(optind)'
<1>1. UNCHANGED <<prog, argv>> /\ Settings(optind) /\ IsConfig /\ config.request = Asked(optind)
      /\ config.showHelp = FALSE /\ config.showVersion = FALSE
  BY DEF LoopInv, Looping, Getopt
<1>2. /\ IsConfig' /\ config'.showHelp = FALSE /\ config'.showVersion = FALSE
      /\ config'.request = config.request \cup fields
      /\ config'.port = config.port /\ config'.hostname = config.hostname
  BY <1>1, SetKeeps DEF Ask, Fields
<1>3. \A q, d : WrittenBefore(q, d, optind)' = IF q = o THEN Optarg ELSE WrittenBefore(q, d, optind)
  BY <1>1, WordsKept, WrittenAfter
<1>4. Settings(optind)'
  BY <1>1, <1>2, <1>3 DEF Settings
<1>5. \A q : Uses(q, optind)' = Uses(q, optind) \cup (IF q = o THEN {Here} ELSE {})
  BY <1>1, WordsKept, UsesAfter
<1>6. Asked(optind)' = Asked(optind) \cup fields
  BY <1>5 DEF Asked, All
<1> QED
  BY <1>1, <1>2, <1>4, <1>6

\* The loop goes on behind an option that does not decide.
LEMMA GoOn ==
  ASSUME LoopInv, NEW o, Getopt(o), Outcome(Here) = None, UNCHANGED ret,
         IsConfig', Settings(optind)', config'.showHelp = FALSE, config'.showVersion = FALSE,
         prog = "client" => config'.request = Asked(optind)'
  PROVE  LoopInv'
<1>1. UNCHANGED <<prog, argv, status>> /\ ret = None /\ ret' = None /\ status = None
  BY DEF Getopt, LoopInv, Looping
<1>2. optind' \in 1 .. Len(argv) + 1 /\ ~Argument(optind')
  BY After
<1>3. ~Argument(optind)'
  BY <1>1, <1>2, WordsKept
<1>4. Passed(optind)'
  <2>1. Passed(optind')
    BY PassedAfter
  <2> QED
    BY <1>1, <2>1, WordsKept DEF Passed
<1>5. Looping'
  BY <1>1, <1>4 DEF LoopInv, Looping
<1> QED
  BY <1>1, <1>2, <1>3, <1>5, NoneIsNone DEF LoopInv

\* The first option that decides ends the loop, with the result it asks for.
LEMMA Stop ==
  ASSUME LoopInv, ret = None, ~AtEnd, Outcome(Here) # None, UNCHANGED <<prog, argv, status>>, IsConfig',
         optind' \in 1 .. Len(argv) + 1, ~Argument(optind'),
         \/ ret' = "throws" /\ ~Shown' /\ Outcome(Here) = "aborted"
         \/ ret' = "error" /\ ~Shown' /\ Outcome(Here) = "failed"
         \/ ret' = "ok" /\ Shown' /\ Outcome(Here) = "informed"
  PROVE  LoopInv'
<1>1. Follows' = Outcome(Here) /\ ret' \in {"ok", "error", "throws"}
  BY DEF Follows
<1>2. Decision' = Outcome(Here)
  BY DecidedHere, WordsKept
<1>3. ~Argument(optind)'
  BY WordsKept
<1>4. ret' # None /\ status = None
  BY <1>1, NoneIsNone DEF LoopInv, Looping
<1> QED
  BY <1>1, <1>2, <1>3, <1>4 DEF LoopInv

\* A setting that takes text, or a number that is valid, is no reason to stop; a
\* number that is none, or is out of range, is.
LEMMA AssignsInv ==
  ASSUME LoopInv, NEW o, Getopt(o),
         \/ o \in {"d", "H"} /\ Assigns(o) /\ UNCHANGED ret
         \/ /\ o \in {"p", "t", "i"} /\ Optarg.number = NoNumber
            /\ ret' = "throws" /\ UNCHANGED config
         \/ /\ o \in {"p", "t", "i"} /\ Optarg.number # NoNumber /\ Assigns(o)
            /\ ret' = IF Optarg.number \in Valid(o) THEN ret ELSE "error",
         o \in Takes
  PROVE  LoopInv'
<1>0. /\ UNCHANGED <<prog, argv, status>> /\ ret = None /\ ~AtEnd
      /\ optind' \in 1 .. Len(argv) + 1 /\ ~Argument(optind')
      /\ config.showHelp = FALSE /\ config.showVersion = FALSE /\ IsConfig
  BY After DEF Getopt, LoopInv, Looping
<1>a. ~Shown' /\ IsConfig'
  <2>1. CASE Assigns(o)
    BY <2>1, SettingsAfter DEF Shown
  <2>2. CASE UNCHANGED config
    BY <1>0, <2>2 DEF Shown, IsConfig
  <2> QED
    BY <2>1, <2>2
<1>1. ASSUME Assigns(o), UNCHANGED ret, Outcome(Here) = None PROVE LoopInv'
  <2>1. prog = "client" => config'.request = Asked(optind)'
    BY <1>0, <1>1, SettingsAfter DEF LoopInv, Looping
  <2> QED
    BY <1>1, <2>1, SettingsAfter, GoOn
<1>2. CASE o \in {"d", "H"} /\ Assigns(o) /\ UNCHANGED ret
  BY <1>1, <1>2, OutcomeHere
<1>3. CASE o \in {"p", "t", "i"} /\ Optarg.number = NoNumber /\ ret' = "throws"
  <2>1. Outcome(Here) = "aborted"
    BY <1>3, OutcomeHere
  <2>2. "aborted" # None
    BY CommandLineAssumption DEF Outcomes
  <2> QED
    BY <1>0, <1>a, <1>3, <2>1, <2>2, Stop
<1>4. CASE o \in {"p", "t", "i"} /\ Optarg.number # NoNumber /\ Optarg.number \in Valid(o)
           /\ Assigns(o) /\ UNCHANGED ret
  BY <1>1, <1>4, OutcomeHere
<1>5. CASE o \in {"p", "t", "i"} /\ Optarg.number # NoNumber /\ Optarg.number \notin Valid(o)
           /\ ret' = "error"
  <2>1. Outcome(Here) = "failed"
    BY <1>5, OutcomeHere
  <2>2. "failed" # None
    BY CommandLineAssumption DEF Outcomes
  <2> QED
    BY <1>0, <1>a, <1>5, <2>1, <2>2, Stop
<1> QED
  BY <1>2, <1>3, <1>4, <1>5

\* The options of both programs.
LEMMA CommonOptionLoopInv == LoopInv /\ CommonOption => LoopInv'
<1> SUFFICES ASSUME LoopInv, CommonOption PROVE LoopInv'
  OBVIOUS
<1>1. CASE Getopt("p") /\ Number("port", Ports)
  <2>1. "p" \in Takes /\ Valid("p") = Ports
    BY DEF Takes, Valid
  <2> QED
    BY <1>1, <2>1, AssignsInv DEF Number, Assigns
<1>2. ASSUME NEW o \in {"h", "v"}, NEW field \in {"showHelp", "showVersion"}, Getopt(o), Show(field)
      PROVE  LoopInv'
  <2>1. /\ UNCHANGED <<prog, argv, status>> /\ ret = None /\ ~AtEnd
        /\ optind' \in 1 .. Len(argv) + 1 /\ ~Argument(optind') /\ IsConfig
    BY <1>2, After DEF Getopt, LoopInv
  <2>2. Outcome(Here) = "informed" /\ "informed" # None
    BY <1>2, OutcomeHere, CommandLineAssumption DEF Outcomes
  <2>3. IsConfig' /\ Shown' /\ ret' = "ok"
    BY <1>2, <2>1, SetKeeps DEF Show, Fields, Shown
  <2> QED
    BY <2>1, <2>2, <2>3, Stop
<1> QED
  BY <1>1, <1>2 DEF CommonOption

\* The end of the options: what has been set is what is written.
LEMMA EndOfOptionsLoopInv == LoopInv /\ EndOfOptions => LoopInv'
<1> SUFFICES ASSUME LoopInv, EndOfOptions PROVE LoopInv'
  OBVIOUS
<1>1. /\ UNCHANGED <<prog, argv, optind, status>> /\ ret = None /\ AtEnd /\ ret' = "ok"
      /\ Looping /\ IsConfig /\ prog \in {"server", "client"}
      /\ optind \in Nat \ {0} /\ Len(argv) \in Nat /\ DOMAIN argv = 1 .. Len(argv)
  BY DEF EndOfOptions, LoopInv
<1> DEFINE n == Len(argv) + 1
<1>2. \A j \in DOMAIN argv : IsOption(j) => j < optind
  BY <1>1, NoneLeft
<1>3. Deciding = {}
  BY <1>1, <1>2 DEF Looping, Passed, Deciding
<1>4. \A q : Uses(q, n) = Uses(q, optind)
  BY <1>1, <1>2 DEF Uses
<1>5. \A q, d : WrittenBefore(q, d, n) = WrittenBefore(q, d, optind)
  BY <1>4 DEF WrittenBefore
<1>6. Asked(n) = Asked(optind)
  BY <1>4 DEF Asked
<1>7. /\ IsConfig' /\ config'.showHelp = FALSE /\ config'.showVersion = FALSE
      /\ config'.port = config.port /\ config'.numThreads = config.numThreads
      /\ config'.sensorInterval = config.sensorInterval
      /\ config'.deviceName = config.deviceName /\ config'.hostname = config.hostname
      /\ prog = "client" => config'.request = IF Asked(n) = {} THEN All ELSE Asked(n)
  <2>1. CASE UNCHANGED config /\ (prog = "client" => config.request # {})
    BY <1>1, <1>6, <2>1 DEF Looping, IsConfig
  <2>2. CASE prog = "client" /\ config.request = {} /\ Set("request", All)
    BY <1>1, <1>6, <2>2, SetKeeps DEF Looping, Fields
  <2> QED
    BY <2>1, <2>2 DEF EndOfOptions
<1> DEFINE m == Len(argv)' + 1
<1>8. n = m
  BY <1>1
<1>9. Settings(Len(argv) + 1)'
  <2>1. \A q, d : WrittenBefore(q, d, Len(argv) + 1)' = WrittenBefore(q, d, optind)
    BY <1>1, <1>5, <1>8, WordsKept
  <2> QED
    BY <1>1, <1>7, <2>1 DEF Settings, Looping
<1>10. Asked(Len(argv) + 1)' = Asked(n)
  <2>1. \A q : Uses(q, Len(argv) + 1)' = Uses(q, n)
    BY <1>1, <1>8, WordsKept
  <2> QED
    BY <2>1 DEF Asked
<1>11. Deciding' = {}
  BY <1>1, <1>3, WordsKept
<1>12. Complete'
  BY <1>1, <1>7, <1>9, <1>10, <1>11 DEF Complete
<1>13. Follows' = "runs" /\ Decision' = "runs"
  BY <1>1, <1>7, <1>11 DEF Follows, Shown, Decision
<1>14. ~Argument(optind)'
  BY <1>1, WordsKept DEF LoopInv
<1>15. ret' # None /\ status = None
  BY <1>1, NoneIsNone DEF Looping
<1> QED
  BY <1>1, <1>7, <1>12, <1>13, <1>14, <1>15 DEF LoopInv

\* Where parse() does nothing more, what is known of it stays known.
LEMMA ParseKept ==
  ASSUME LoopInv, UNCHANGED <<prog, argv, optind, config, ret>>
  PROVE  /\ Follows' = Follows /\ Shown' = Shown /\ IsConfig'
         /\ Decision' = Decision /\ ~Argument(optind)'
         /\ Complete => Complete'
         /\ Looping /\ UNCHANGED status => Looping'
<1>1. Follows' = Follows /\ Shown' = Shown /\ IsConfig'
  BY DEF LoopInv, Follows, Shown, IsConfig
<1>2. Decision' = Decision /\ ~Argument(optind)'
  BY WordsKept DEF LoopInv
<1>3. /\ \A q, d, n : WrittenBefore(q, d, n)' = WrittenBefore(q, d, n)
      /\ \A q, n : Uses(q, n)' = Uses(q, n)
      /\ Deciding' = {} <=> Deciding = {}
  BY WordsKept
<1>4. ASSUME Complete PROVE Complete'
  <2>1. Asked(Len(argv) + 1)' = Asked(Len(argv) + 1)
    BY <1>3 DEF Asked
  <2>2. Settings(Len(argv) + 1)'
    BY <1>3, <1>4 DEF Settings, Complete
  <2> QED
    BY <1>3, <1>4, <2>1, <2>2 DEF Complete
<1>5. ASSUME Looping, UNCHANGED status PROVE Looping'
  <2>1. Asked(optind)' = Asked(optind)
    BY <1>3 DEF Asked
  <2>2. Settings(optind)'
    BY <1>3, <1>5 DEF Settings, Looping
  <2>3. Passed(optind)'
    BY <1>5, WordsKept DEF Passed, Looping
  <2> QED
    BY <1>5, <2>1, <2>2, <2>3 DEF Looping
<1> QED
  BY <1>1, <1>2, <1>4, <1>5

\* main() does what parse() has decided.
LEMMA MainLoopInv == LoopInv /\ Main => LoopInv'
<1> SUFFICES ASSUME LoopInv, Main PROVE LoopInv'
  OBVIOUS
<1>1. UNCHANGED <<prog, argv, optind, config, ret>> /\ ret # None
  BY DEF Main
<1>2. status' = Follows
  BY DEF Main, Follows, Shown
<1> QED
  BY <1>1, <1>2, ParseKept DEF LoopInv

\* Before the loop no word has been passed.
LEMMA InitLoopInv == Init => LoopInv
<1> SUFFICES ASSUME Init PROVE LoopInv
  OBVIOUS
<1>1. argv \in Seq(Words[prog]) /\ prog \in {"server", "client"} /\ optind = 1
      /\ ret = None /\ status = None /\ config = Defaults
  BY DEF Init
<1>2. ~Argument(optind)
  BY <1>1 DEF Argument
<1>3. Len(argv) \in Nat /\ DOMAIN argv = 1 .. Len(argv)
  BY <1>1
<1>4. \A q : Uses(q, optind) = {}
  BY <1>1, <1>3 DEF Uses
<1>5. \A q, d : WrittenBefore(q, d, optind) = d
  BY <1>4 DEF WrittenBefore
<1>6. Settings(optind)
  <2>1. \A x : [number |-> x].number = x /\ [text |-> x].text = x
    OBVIOUS
  <2> QED
    BY <1>1, <1>5, <2>1 DEF Settings
<1>7. config.request = Asked(optind) /\ config.showHelp = FALSE /\ config.showVersion = FALSE
  BY <1>1, <1>4 DEF Asked, Defaults
<1>8. Passed(optind)
  BY <1>1, <1>3 DEF Passed
<1>9. IsConfig
  BY InitIInv DEF IInv
<1> QED
  BY <1>1, <1>2, <1>3, <1>6, <1>7, <1>8, <1>9, NoneIsNone DEF LoopInv, Looping

\* Every turn of the loop, and main(), keep the invariant.
LEMMA NextLoopInv == LoopInv /\ [Next]_vars => LoopInv'
<1> SUFFICES ASSUME LoopInv, [Next]_vars PROVE LoopInv'
  OBVIOUS
<1>1. CASE ServerOption
  <2>1. CASE CommonOption
    BY <2>1, CommonOptionLoopInv
  <2>2. CASE Getopt("t") /\ Number("numThreads", Counts)
    BY <1>1, <2>2, AssignsInv DEF Number, Assigns, ServerOption, Takes, Valid
  <2>3. CASE Getopt("i") /\ Number("sensorInterval", Intervals)
    BY <1>1, <2>3, AssignsInv DEF Number, Assigns, ServerOption, Takes, Valid
  <2>4. CASE Getopt("d") /\ Text("deviceName")
    BY <1>1, <2>4, AssignsInv DEF Text, Assigns, ServerOption, Takes
  <2> QED
    BY <1>1, <2>1, <2>2, <2>3, <2>4 DEF ServerOption
<1>2. CASE ClientOption
  <2>0. prog = "client"
    BY <1>2 DEF ClientOption
  <2>1. CASE CommonOption
    BY <2>1, CommonOptionLoopInv
  <2>2. CASE Getopt("H") /\ Text("hostname")
    BY <2>0, <2>2, AssignsInv DEF Text, Assigns, Takes
  <2>3. ASSUME NEW o, NEW fields, Getopt(o), Ask(fields),
               \/ o = "t" /\ fields = {"TEMP"}
               \/ o = "u" /\ fields = {"HUMID"}
               \/ o = "r" /\ fields = {"PRESS"}
               \/ o = "a" /\ fields = All
        PROVE  LoopInv'
    <3>1. Outcome(Here) = None /\ UNCHANGED ret
      BY <2>0, <2>3, OutcomeHere DEF Ask
    <3> QED
      BY <2>0, <2>3, <3>1, AskedAfter, GoOn
  <2> QED
    BY <1>2, <2>1, <2>2, <2>3 DEF ClientOption
<1>3. CASE GetoptFails
  <2>1. /\ ret = None /\ ~AtEnd /\ ret' = "error" /\ UNCHANGED <<prog, argv, optind, config, status>>
        /\ Opt \in Takes \cup Flags => Opt \in Takes /\ Here = Len(argv)
    BY <1>3 DEF GetoptFails
  <2>2. Outcome(Here) = "failed"
    <3>1. Opt \notin {"h", "v"}
      BY <2>1 DEF Takes, Flags, LoopInv
    <3> QED
      BY <2>1, <3>1 DEF Outcome, Opt
  <2>3. "failed" # None
    BY CommandLineAssumption DEF Outcomes
  <2>4. optind' \in 1 .. Len(argv) + 1 /\ ~Argument(optind') /\ IsConfig' /\ ~Shown'
    BY <2>1 DEF LoopInv, Looping, Shown, IsConfig
  <2> QED
    BY <2>1, <2>2, <2>3, <2>4, Stop
<1>4. CASE EndOfOptions
  BY <1>4, EndOfOptionsLoopInv
<1>5. CASE Main
  BY <1>5, MainLoopInv
<1>6. CASE UNCHANGED vars
  BY <1>6, ParseKept DEF vars, LoopInv
<1> QED
  BY <1>1, <1>2, <1>3, <1>4, <1>5, <1>6 DEF Next, Done

\* The invariant holds in every state.
LEMMA SpecLoopInv == Spec => []LoopInv
BY InitLoopInv, NextLoopInv, PTL DEF Spec

\* The first option that is wrong, or asks for help or the version, decides
\* (CommandLine!FirstDecides).
THEOREM CommandLineFirstDecides == Spec => []FirstDecides
<1>1. LoopInv => FirstDecides
  BY DEF LoopInv, Decision, FirstDecides
<1> QED
  BY SpecLoopInv, <1>1, PTL

\* What main() works with is what is said last, and by default what is not said
\* (CommandLine!SettingsAsWritten).
THEOREM CommandLineSettingsAsWritten == Spec => []SettingsAsWritten
<1>1. ASSUME LoopInv, status = "runs" PROVE Complete
  BY <1>1, NoneIsNone DEF LoopInv, Follows
<1>2. ASSUME LoopInv, Complete PROVE SettingsAsWritten
  <2> DEFINE n == Len(argv) + 1
  <2>1. DOMAIN argv = 1 .. Len(argv) /\ Len(argv) \in Nat /\ prog \in {"server", "client"}
    BY <1>2 DEF LoopInv
  <2>2. \A o : Uses(o, n) = {i \in DOMAIN argv : IsOption(i) /\ argv[i].opt = o}
    BY <2>1 DEF Uses
  <2>3. \A o, d : Written(o, d) = WrittenBefore(o, d, n)
    <3> SUFFICES ASSUME NEW o, NEW d PROVE Written(o, d) = WrittenBefore(o, d, n)
      OBVIOUS
    <3> DEFINE U == {i \in DOMAIN argv : IsOption(i) /\ argv[i].opt = o}
    <3>1. Written(o, d) = IF U = {} THEN d ELSE argv[LastOf(U) + 1]
      BY DEF Written, LastOf
    <3> QED
      BY <2>2, <3>1 DEF WrittenBefore
  <2>4. /\ config["port"] = Written("p", [number |-> Defaults["port"]]).number
        /\ prog = "server" =>
             /\ config["numThreads"] = Written("t", [number |-> Defaults["numThreads"]]).number
             /\ config["sensorInterval"] = Written("i", [number |-> Defaults["sensorInterval"]]).number
             /\ config["deviceName"] = Written("d", [text |-> Defaults["deviceName"]]).text
        /\ prog = "client" => config["hostname"] = Written("H", [text |-> Defaults["hostname"]]).text
    BY <1>2, <2>3 DEF Complete, Settings
  <2>5. ASSUME NEW o PROVE o \in Named <=> o \in Flags /\ Uses(o, n) # {}
    BY <2>2 DEF Named
  <2>6. ASSUME prog = "client", NEW o \in Named PROVE o \in {"t", "u", "r", "a"}
    <3>1. PICK i \in DOMAIN argv : IsOption(i) /\ argv[i].opt = o
      BY <2>6 DEF Named
    <3>2. ASSUME o \in {"h", "v"} PROVE FALSE
      <4>1. Outcome(i) = "informed" /\ "informed" # None
        BY <2>1, <3>1, <3>2, CommandLineAssumption DEF Outcome, Outcomes, Takes, Flags
      <4> QED
        BY <1>2, <3>1, <4>1 DEF Complete, Deciding
    <3> QED
      BY <2>6, <3>2 DEF Named, Flags
  <2> DEFINE field(o) == CASE o = "t" -> "TEMP" [] o = "u" -> "HUMID" [] o = "r" -> "PRESS"
             asked == {field(o) : o \in Named \ {"a"}}
  <2>7. ASSUME prog = "client"
        PROVE  config.request = IF "a" \in Named \/ Named = {} THEN All ELSE asked
    <3>1. \A o \in {"t", "u", "r", "a"} : o \in Named <=> Uses(o, n) # {}
      BY <2>5, <2>7 DEF Flags
    <3>2. config.request = IF Asked(n) = {} THEN All ELSE Asked(n)
      BY <1>2, <2>7 DEF Complete
    <3>3. CASE "a" \in Named
      <4>1. Asked(n) = All
        BY <3>1, <3>3 DEF Asked
      <4> QED
        BY <3>2, <3>3, <4>1
    <3>4. CASE Named = {}
      <4>1. Asked(n) = {}
        BY <3>1, <3>4 DEF Asked
      <4> QED
        BY <3>2, <3>4, <4>1
    <3>5. CASE "a" \notin Named /\ Named # {}
      <4>1. Asked(n) = asked
        <5>1. Asked(n) = {f \in All : \/ f = "TEMP" /\ "t" \in Named
                                      \/ f = "HUMID" /\ "u" \in Named
                                      \/ f = "PRESS" /\ "r" \in Named}
          BY <3>1, <3>5 DEF Asked
        <5>2. Named \subseteq {"t", "u", "r"}
          BY <2>6, <2>7, <3>5
        <5>3. field("t") = "TEMP" /\ field("u") = "HUMID" /\ field("r") = "PRESS"
          OBVIOUS
        <5> HIDE DEF field
        <5>4. ASSUME NEW f \in asked PROVE f \in Asked(n)
          BY <5>1, <5>2, <5>3 DEF All
        <5>5. ASSUME NEW f \in Asked(n) PROVE f \in asked
          BY <3>5, <5>1, <5>3
        <5> QED
          BY <5>4, <5>5
      <4>2. asked # {}
        BY <3>5
      <4> QED
        BY <3>2, <3>5, <4>1, <4>2
    <3> QED
      BY <3>3, <3>4, <3>5
  <2> QED
    BY <2>4, <2>7 DEF SettingsAsWritten
<1>3. LoopInv => SettingsAsWritten
  BY <1>1, <1>2 DEF SettingsAsWritten
<1> QED
  BY SpecLoopInv, <1>3, PTL
===============================================================================
