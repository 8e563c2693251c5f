--------------------------------- MODULE Ssnp ---------------------------------
(***************************************************************************)
(* src/SSNP.cpp: the text protocol, both sides, over one exchange.  A      *)
(* request is written by src/client.cpp or by anything else that speaks    *)
(* TCP; each side calls recv() once and parses what it was given, which on *)
(* a stream may be any beginning of what was sent.                         *)
(*                                                                         *)
(* A text is a sequence of symbols.  The names of the fields are symbols   *)
(* of their own; a number, a unit and a timestamp are several, so that a   *)
(* text can be cut inside them.                                            *)
(***************************************************************************)
EXTENDS Integers, SequencesExt

CONSTANTS
  Digits,     \* what a formatted number is made of
  Numbers,    \* the values of a sensor as they are formatted
  Timestamps, \* and its times
  MaxText     \* bound: the length of a request that is not written by client.cpp

VARIABLES
  stage,     \* who acts next
  want,      \* the fields client.cpp asks for; {} for another client
  sent,      \* the request as it was sent
  got,       \* the request as the server's recv() gave it
  parsed,    \* what parseRequest() makes of it
  data,      \* the sample that is answered
  response,  \* the response as it was sent
  seen,      \* the response as the client's recv() gave it
  outcome    \* what parseResponse() makes of it

vars == <<stage, want, sent, got, parsed, data, response, seen, outcome>>

Order == <<"TEMP", "PRESS", "HUMID">>
Fields == ToSet(Order)
Listed(flags) ==
  LET name(f) == IF f \in flags THEN <<f>> ELSE <<>>
  IN name("TEMP") \o name("PRESS") \o name("HUMID")

\* The signs between the parts of a text.
Comma == "comma"
Semicolon == "semicolon"

Unit(f) == CASE f = "TEMP" -> <<"C">> [] f = "PRESS" -> <<"h", "P", "a">> [] f = "HUMID" -> <<"percent">>

ASSUME ProtocolAssumption ==
  /\ MaxText \in Nat
  /\ Numbers \subseteq Seq(Digits) \ {<<>>}
  /\ Timestamps \subseteq Seq(Digits) \ {<<>>}
  /\ Digits \cap ({Comma, Semicolon, "C", "h", "P", "a", "percent"} \cup Fields) = {}

\* Where getline(ss, token, ',') begins a token: never behind a last comma.
Starts(text) == {i \in DOMAIN text : i = 1 \/ text[i - 1] = Comma}

\* The token that begins there: up to the next comma, or to the end.
Token(text, start) ==
  LET last == CHOOSE e \in start - 1 .. Len(text) :
                /\ e = Len(text) \/ text[e + 1] = Comma
                /\ \A i \in start .. e : text[i] # Comma
  IN SubSeq(text, start, last)

\* What is left of a text when its first token and the comma are read.
Behind(text) == SubSeq(text, Len(Token(text, 1)) + 2, Len(text))

\* The tokens, of which nobody reads more than four.
Tokens(text) ==
  LET rest == <<text, Behind(text), Behind(Behind(text)), Behind(Behind(Behind(text)))>>
  IN [k \in {n \in 1 .. 4 : rest[n] # <<>>} |-> Token(rest[k], 1)]

\* The names of the fields, with a comma before each but the first.
Header(flags) ==
  LET name(f, before) == IF f \notin flags THEN <<>>
                         ELSE IF before \cap flags = {} THEN <<f>> ELSE <<Comma, f>>
  IN name("TEMP", {}) \o name("PRESS", {"TEMP"}) \o name("HUMID", {"TEMP", "PRESS"})

\* stol() and stof(): the longest beginning that is a number.
Converted(token) ==
  LET last == CHOOSE e \in 0 .. Len(token) :
                /\ e = Len(token) \/ token[e + 1] \notin Digits
                /\ \A i \in 1 .. e : token[i] \in Digits
  IN SubSeq(token, 1, last)
-------------------------------------------------------------------------------
(* SsnpServer *)

Refused == [ret |-> -1, flags |-> {}, invalid |-> TRUE]

Parsed(body, bad) ==
  IF bad THEN Refused
  ELSE LET flags == {Token(body, s)[1] : s \in Starts(body)}
       IN [ret |-> 0, flags |-> flags, invalid |-> flags = {}]

\* Mutant: the same field may be asked for twice.
ParseRequestTwice(text) ==
  LET body == Front(text) IN
    Parsed(body,
      \/ text = <<>> \/ Last(text) # Semicolon
      \/ Cardinality(Starts(body)) > 3
      \/ \E s \in Starts(body) : Token(body, s) \notin {<<f>> : f \in Fields})

\* Every token must be a field that is not asked for yet.
ParseRequest(text) ==
  LET body == Front(text) IN
    Parsed(body,
      \/ text = <<>> \/ Last(text) # Semicolon
      \/ Cardinality(Starts(body)) > 3
      \/ \E s \in Starts(body) :
           \/ Token(body, s) \notin {<<f>> : f \in Fields}
           \/ \E t \in Starts(body) : t < s /\ Token(body, t) = Token(body, s))

Value(flags, sample, f) ==
  IF f \in flags THEN <<Comma>> \o sample.value[f] \o Unit(f) ELSE <<>>

\* Mutant: the values are not in the order of the header.
BuildResponseReversed(flags, sample) ==
  Header(flags) \o <<Semicolon>> \o sample.time
    \o Value(flags, sample, "HUMID") \o Value(flags, sample, "PRESS") \o Value(flags, sample, "TEMP")

BuildResponse(flags, sample) ==
  Header(flags) \o <<Semicolon>> \o sample.time
    \o Value(flags, sample, "TEMP") \o Value(flags, sample, "PRESS") \o Value(flags, sample, "HUMID")
-------------------------------------------------------------------------------
(* SsnpClient *)

\* Mutant: each field is closed with a semicolon.
BuildRequestClosed(flags) == FlattenSeq([i \in DOMAIN Listed(flags) |-> <<Listed(flags)[i], Semicolon>>])

BuildRequest(flags) == Header(flags) \o <<Semicolon>>

\* token.substr(0, token.length() - n) with n = Len(Unit(f)); a token shorter
\* than that is kept whole, because the difference wraps around.
WithoutUnit(f, token) ==
  IF Len(token) < Len(Unit(f)) THEN token ELSE SubSeq(token, 1, Len(token) - Len(Unit(f)))

Failed == [ret |-> "-1", values |-> <<>>, cut |-> <<>>]

\* The values in the order of the header, and what was cut off each of them.  A
\* missing value is an error; one without a digit throws.
ParseValues(list, tokens) ==
  LET count == IF Len(tokens) - 1 < Len(list) THEN Len(tokens) - 1 ELSE Len(list)
      value(i) == Converted(WithoutUnit(list[i], tokens[i + 1]))
      cut(i) == SubSeq(tokens[i + 1], Len(WithoutUnit(list[i], tokens[i + 1])) + 1, Len(tokens[i + 1]))
  IN IF Converted(tokens[1]) = <<>> \/ \E i \in 1..count : value(i) = <<>>
     THEN [Failed EXCEPT !.ret = "exception"]
     ELSE IF count < Len(list) THEN Failed
     ELSE [ret |-> "0", values |-> <<Converted(tokens[1])>> \o [i \in 1..count |-> value(i)],
           cut |-> [i \in 1..count |-> cut(i)]]

ParseResponse(text, flags) ==
  IF ~Contains(text, Semicolon) THEN Failed
  ELSE LET at == CHOOSE i \in DOMAIN text : text[i] = Semicolon /\ \A j \in 1 .. i - 1 : text[j] # Semicolon
           header == ToSet(SubSeq(text, 1, at - 1))
           tokens == Tokens(SubSeq(text, at + 1, Len(text)))
       IN IF Fields \cap header # flags \/ tokens = <<>> THEN Failed
          ELSE ParseValues(Listed(flags), tokens)
-------------------------------------------------------------------------------
Symbols == Fields \cup {Comma, Semicolon, "x"}
Beginnings(text) == {SubSeq(text, 1, n) : n \in 1..Len(text)}

NoData == [time |-> <<>>, value |-> [f \in Fields |-> <<>>]]

Init ==
  /\ stage = "request"
  /\ want = {} /\ sent = <<>> /\ got = <<>> /\ response = <<>> /\ seen = <<>>
  /\ parsed = Refused
  /\ data = NoData
  /\ outcome = Failed

\* client.cpp asks for the fields it was told to; its command line sees to it
\* that there is one.
Request ==
  /\ stage = "request"
  /\ want' \in SUBSET Fields \ {{}}
  /\ sent' = BuildRequest(want')
  /\ stage' = "server"
  /\ UNCHANGED <<got, parsed, data, response, seen, outcome>>

\* Another client sends anything, one symbol after the other.
Type ==
  /\ stage = "request"
  /\ \/ /\ Len(sent) < MaxText
        /\ \E ch \in Symbols : sent' = Append(sent, ch)
        /\ stage' = stage
     \/ sent # <<>> /\ stage' = "server" /\ sent' = sent
  /\ UNCHANGED <<want, got, parsed, data, response, seen, outcome>>

Serve ==
  /\ stage = "server"
  /\ got' \in Beginnings(sent)
  /\ parsed' = ParseRequest(got')
  /\ \/ \* Refused, or the sensor or the sending fails: no response.
        stage' = "done" /\ UNCHANGED <<data, response>>
     \/ /\ parsed'.ret >= 0 /\ ~parsed'.invalid
        /\ stage' = IF want = {} THEN "done" ELSE "client"
        /\ data' \in [time : Timestamps, value : [Fields -> Numbers]]
        /\ response' = BuildResponse(parsed'.flags, data')
  /\ UNCHANGED <<want, sent, seen, outcome>>

Receive ==
  /\ stage = "client"
  /\ seen' \in Beginnings(response)
  /\ outcome' = ParseResponse(seen', want)
  /\ stage' = "done"
  /\ UNCHANGED <<want, sent, got, parsed, data, response>>

Done == stage = "done" /\ UNCHANGED vars

Next == Request \/ Type \/ Serve \/ Receive \/ Done

Spec == Init /\ [][Next]_vars
-------------------------------------------------------------------------------
(* Properties *)

\* The requests there are: some of the fields, each once, in any order, with a
\* comma between each two; a comma after the last one does no harm.
Grammar ==
  LET listing(list) == [k \in 1 .. 2 * Len(list) - 1 |-> IF k % 2 = 1 THEN list[(k + 1) \div 2] ELSE Comma]
  IN {listing(list) \o comma \o <<Semicolon>> :
        list \in {l \in SeqOf(Fields, 3) : l # <<>> /\ IsInjective(l)}, comma \in {<<>>, <<Comma>>}}

\* The server accepts the requests of the grammar and no other text, and takes
\* the fields from them that they name.
AcceptsGrammar ==
  got # <<>> =>
    /\ parsed.ret = 0 /\ ~parsed.invalid <=> got \in Grammar
    /\ ~parsed.invalid => parsed.flags = ToSet(got) \cap Fields

\* A request that reaches the server in pieces is never answered as if its first
\* piece were the whole.
NoPartialRequest == want # {} /\ ~parsed.invalid => got = sent /\ parsed.flags = want

\* What the server writes, the client reads: the timestamp, and each value with
\* its unit removed.
RoundTrip ==
  stage = "done" /\ want # {} /\ seen = response /\ response # <<>> =>
    /\ outcome.ret = "0"
    /\ outcome.values =
         <<data.time>> \o [i \in DOMAIN Listed(want) |-> data.value[Listed(want)[i]]]

\* The comments of parseResponse(): "Remove 'C' suffix and convert", and so for
\* hPa and for the percent sign.
SuffixRemoved ==
  outcome.ret = "0" => \A i \in DOMAIN outcome.cut : outcome.cut[i] = Unit(Listed(want)[i])
===============================================================================
