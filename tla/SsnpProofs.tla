------------------------------ MODULE SsnpProofs ------------------------------
(***************************************************************************)
(* Theorems about Ssnp: AcceptsGrammar for requests of any length,         *)
(* NoPartialRequest, and RoundTrip for numbers of any digits and length.   *)
(***************************************************************************)
EXTENDS Ssnp, SequenceTheorems, FiniteSetTheorems, WellFoundedInduction, TLAPS

\* A nonempty set of natural numbers has a least element.
LEMMA LeastNumber ==
  ASSUME NEW N \in SUBSET Nat, N # {}
  PROVE  \E n \in N : \A m \in N : n <= m
<1> DEFINE R == {ss \in Nat \X Nat : ss[1] < ss[2]}
<1>1. IsWellFoundedOn(R, Nat)
  BY NatLessThanWellFounded DEF OpToRel
<1>2. PICK n \in N : \A m \in N : <<m, n>> \notin R
  BY <1>1, WFMin
<1>3. ASSUME NEW m \in N PROVE n <= m
  <2>1. <<m, n>> \in Nat \X Nat
    OBVIOUS
  <2>2. <<m, n>> \in R <=> m < n
    BY <2>1
  <2> QED
    BY <1>2, <2>1, <2>2
<1> QED
  BY <1>3

\* The fields by their names.
LEMMA FieldNames == Fields = {"TEMP", "PRESS", "HUMID"}
<1>1. DOMAIN Order = 1 .. 3 /\ Order[1] = "TEMP" /\ Order[2] = "PRESS" /\ Order[3] = "HUMID"
  BY DEF Order
<1> QED
  BY <1>1 DEF Fields, ToSet

-------------------------------------------------------------------------------
(* What getline() makes of a text, for texts of any length.                *)

\* The place where the token that begins at start ends.
EndOf(text, start) ==
  CHOOSE e \in start - 1 .. Len(text) :
    /\ e = Len(text) \/ text[e + 1] = Comma
    /\ \A i \in start .. e : text[i] # Comma

\* Every token has an end, and there is only one.
LEMMA TokenEnds ==
  ASSUME NEW S, NEW text \in Seq(S), NEW s \in 1 .. Len(text) + 1
  PROVE  /\ EndOf(text, s) \in s - 1 .. Len(text)
         /\ EndOf(text, s) = Len(text) \/ text[EndOf(text, s) + 1] = Comma
         /\ \A i \in s .. EndOf(text, s) : text[i] # Comma
         /\ Token(text, s) = SubSeq(text, s, EndOf(text, s))
<1>1. s \in 1 .. Len(text) + 1 /\ Len(text) \in Nat
  OBVIOUS
<1> DEFINE E == {e \in s - 1 .. Len(text) : e = Len(text) \/ text[e + 1] = Comma}
<1>2. E \subseteq Nat /\ Len(text) \in E
  BY <1>1
<1>3. PICK e \in E : \A m \in E : e <= m
  BY <1>2, LeastNumber
<1>4. ASSUME NEW i \in s .. e, text[i] = Comma PROVE FALSE
  <2>1. i - 1 \in s - 1 .. Len(text) /\ (i - 1) + 1 = i /\ i - 1 < e
    BY <1>1, <1>2, <1>3
  <2>2. i - 1 \in E
    BY <1>4, <2>1
  <2>3. e <= i - 1
    BY <1>3, <2>2
  <2> QED
    BY <1>2, <2>1, <2>3
<1>5. /\ e \in s - 1 .. Len(text)
      /\ e = Len(text) \/ text[e + 1] = Comma
      /\ \A i \in s .. e : text[i] # Comma
  BY <1>4
<1>6. /\ EndOf(text, s) \in s - 1 .. Len(text)
      /\ EndOf(text, s) = Len(text) \/ text[EndOf(text, s) + 1] = Comma
      /\ \A i \in s .. EndOf(text, s) : text[i] # Comma
  BY <1>5 DEF EndOf
<1> QED
  BY <1>6 DEF EndOf, Token

-------------------------------------------------------------------------------
(* Shape says what the tokens of an accepted request are without speaking  *)
(* of tokens: fields and commas in turn, and no field twice.               *)

Shape(body) ==
  /\ Len(body) \in 1 .. 6
  /\ \A i \in {1, 3, 5} : i <= Len(body) => body[i] \in Fields
  /\ \A i \in {2, 4, 6} : i <= Len(body) => body[i] = Comma
  /\ \A i, j \in {1, 3, 5} : i < j /\ j <= Len(body) => body[i] # body[j]

\* What parseRequest() demands of the tokens of a text.
Plain(body) ==
  /\ Starts(body) # {}
  /\ Cardinality(Starts(body)) <= 3
  /\ \A s \in Starts(body) : Token(body, s) \in {<<f>> : f \in Fields}
  /\ \A s \in Starts(body), t \in Starts(body) : t < s => Token(body, t) # Token(body, s)

\* A token of one symbol that is a field ends where it begins.
LEMMA FieldToken ==
  ASSUME NEW body \in Seq(Symbols), NEW s \in Starts(body),
         Token(body, s) \in {<<f>> : f \in Fields}
  PROVE  /\ s \in 1 .. Len(body)
         /\ body[s] \in Fields
         /\ Token(body, s) = <<body[s]>>
         /\ s = Len(body) \/ body[s + 1] = Comma
<1>1. s \in 1 .. Len(body) /\ Len(body) \in Nat
  BY DEF Starts
<1> DEFINE e == EndOf(body, s)
<1>2. /\ e \in s - 1 .. Len(body)
      /\ e = Len(body) \/ body[e + 1] = Comma
      /\ Token(body, s) = SubSeq(body, s, e)
  BY <1>1, TokenEnds
<1> HIDE DEF e
<1>3. PICK f \in Fields : Token(body, s) = <<f>>
  OBVIOUS
<1>4. Len(SubSeq(body, s, e)) = 1 /\ SubSeq(body, s, e)[1] = f
  BY <1>2, <1>3
<1>5. e = s
  BY <1>1, <1>2, <1>4
<1>6. body[s] = f
  BY <1>1, <1>4, <1>5
<1> QED
  BY <1>1, <1>2, <1>3, <1>5, <1>6

\* A field that begins a token, with a comma or nothing behind it, is the token.
LEMMA TokenOfField ==
  ASSUME NEW body \in Seq(Symbols), NEW s \in Starts(body),
         body[s] \in Fields, s = Len(body) \/ body[s + 1] = Comma
  PROVE  Token(body, s) = <<body[s]>>
<1>1. s \in 1 .. Len(body) /\ Len(body) \in Nat
  BY DEF Starts
<1> DEFINE e == EndOf(body, s)
<1>2. /\ e \in s - 1 .. Len(body)
      /\ e = Len(body) \/ body[e + 1] = Comma
      /\ \A i \in s .. e : body[i] # Comma
      /\ Token(body, s) = SubSeq(body, s, e)
  BY <1>1, TokenEnds
<1> HIDE DEF e
<1>3. body[s] # Comma
  BY FieldNames DEF Comma
<1>4. e = s
  BY <1>1, <1>2, <1>3
<1>5. /\ SubSeq(body, s, s) \in Seq(Symbols) /\ <<body[s]>> \in Seq(Symbols)
      /\ Len(SubSeq(body, s, s)) = 1 /\ SubSeq(body, s, s)[1] = body[s]
  BY <1>1
<1>6. Len(<<body[s]>>) = 1 /\ <<body[s]>>[1] = body[s]
  OBVIOUS
<1>7. SubSeq(body, s, s) = <<body[s]>>
  <2> DEFINE p == SubSeq(body, s, s)
             q == <<body[s]>>
  <2>1. p \in Seq(Symbols) /\ q \in Seq(Symbols) /\ Len(p) = Len(q)
    BY <1>5, <1>6
  <2>2. \A i \in 1 .. Len(p) : p[i] = q[i]
    BY <1>5, <1>6
  <2> HIDE DEF p, q
  <2>3. p = q
    BY <2>1, <2>2, SeqEqual
  <2> QED
    BY <2>3 DEF p, q
<1> QED
  BY <1>2, <1>4, <1>7

\* The tokens parseRequest() accepts make the shape.
LEMMA PlainHasShape ==
  ASSUME NEW body \in Seq(Symbols), Plain(body)
  PROVE  Shape(body)
<1>1. body # <<>> /\ Len(body) \in Nat \ {0} /\ DOMAIN body = 1 .. Len(body)
  BY DEF Plain, Starts
<1>2. \A s \in Starts(body) :
        /\ body[s] \in Fields
        /\ Token(body, s) = <<body[s]>>
        /\ s = Len(body) \/ body[s + 1] = Comma
  BY FieldToken DEF Plain
<1>3. \A s, t \in Starts(body) : t < s => body[t] # body[s]
  BY <1>2 DEF Plain
<1>4. \A i \in 1 .. Len(body) : i = 1 \/ body[i - 1] = Comma => i \in Starts(body)
  BY <1>1 DEF Starts
<1>5. 1 \in Starts(body)
  BY <1>1, <1>4
<1>6. 1 < Len(body) => body[2] = Comma
  BY <1>2, <1>5
<1>7. 3 <= Len(body) => 3 \in Starts(body)
  BY <1>1, <1>4, <1>6
<1>8. 3 < Len(body) => body[4] = Comma
  BY <1>1, <1>2, <1>7
<1>9. 5 <= Len(body) => 5 \in Starts(body)
  BY <1>1, <1>4, <1>8
<1>10. 5 < Len(body) => body[6] = Comma
  BY <1>1, <1>2, <1>9
<1>11. 7 <= Len(body) => 7 \in Starts(body)
  BY <1>1, <1>4, <1>10
<1>12. ~(7 <= Len(body))
  <2> SUFFICES ASSUME 7 <= Len(body) PROVE FALSE
    OBVIOUS
  <2>1. {1, 3, 5, 7} \subseteq Starts(body)
    BY <1>1, <1>5, <1>7, <1>9, <1>11
  <2>2. /\ body[1] # body[3] /\ body[1] # body[5] /\ body[1] # body[7]
        /\ body[3] # body[5] /\ body[3] # body[7] /\ body[5] # body[7]
    BY <1>3, <2>1
  <2> QED
    BY <1>2, <2>1, <2>2, FieldNames
<1>13. Len(body) \in 1 .. 6
  BY <1>1, <1>12
<1> QED
  BY <1>2, <1>3, <1>5, <1>6, <1>7, <1>8, <1>9, <1>10, <1>13 DEF Shape

\* Where the tokens of a text of that shape begin, and what they are.
LEMMA ShapeTokens ==
  ASSUME NEW body \in Seq(Symbols), Shape(body)
  PROVE  /\ Starts(body) = {i \in {1, 3, 5} : i <= Len(body)}
         /\ \A s \in Starts(body) : Token(body, s) = <<body[s]>> /\ body[s] \in Fields
<1>1. DOMAIN body = 1 .. Len(body) /\ Len(body) \in 1 .. 6
  BY DEF Shape
<1>2. \A i \in {1, 3, 5} : i <= Len(body) => body[i] \in Fields /\ body[i] # Comma
  BY FieldNames DEF Shape, Comma
<1>3. \A i \in {2, 4, 6} : i <= Len(body) => body[i] = Comma
  BY DEF Shape
<1>4. ASSUME NEW i \in 1 .. Len(body) PROVE i \in Starts(body) <=> i \in {1, 3, 5}
  <2>1. i \in Starts(body) <=> i = 1 \/ body[i - 1] = Comma
    BY <1>1 DEF Starts
  <2>2. i \in {1, 2, 3, 4, 5, 6}
    BY <1>1
  <2> QED
    BY <1>1, <1>2, <1>3, <2>1, <2>2
<1>5. Starts(body) = {i \in {1, 3, 5} : i <= Len(body)}
  <2>1. Starts(body) \subseteq 1 .. Len(body)
    BY <1>1 DEF Starts
  <2>2. {i \in {1, 3, 5} : i <= Len(body)} \subseteq 1 .. Len(body)
    BY <1>1
  <2> QED
    BY <1>4, <2>1, <2>2
<1>6. ASSUME NEW s \in Starts(body)
      PROVE  Token(body, s) = <<body[s]>> /\ body[s] \in Fields
  <2>1. s \in {1, 3, 5} /\ s <= Len(body)
    BY <1>5
  <2>2. s + 1 \in {2, 4, 6} /\ (s = Len(body) \/ s + 1 <= Len(body))
    <3>1. CASE s = 1
      BY <1>1, <2>1, <3>1
    <3>2. CASE s = 3
      BY <1>1, <2>1, <3>2
    <3>3. CASE s = 5
      BY <1>1, <2>1, <3>3
    <3> QED
      BY <2>1, <3>1, <3>2, <3>3
  <2>3. body[s] \in Fields
    BY <1>2, <2>1
  <2>4. s = Len(body) \/ body[s + 1] = Comma
    BY <1>3, <2>2
  <2> QED
    BY <2>3, <2>4, TokenOfField
<1> QED
  BY <1>5, <1>6

\* Three elements make a set of three at the most.
LEMMA ThreeAtMost ==
  ASSUME NEW a, NEW b, NEW c
  PROVE  IsFiniteSet({a, b, c}) /\ Cardinality({a, b, c}) \in 0 .. 3
<1> DEFINE A == {a}
           B == A \cup {b}
           C == B \cup {c}
<1>1. IsFiniteSet(A) /\ Cardinality(A) = 1
  BY FS_Singleton
<1>2. IsFiniteSet(B) /\ Cardinality(B) \in {1, 2}
  <2> HIDE DEF A
  <2>1. /\ IsFiniteSet(A \cup {b})
        /\ Cardinality(A \cup {b}) = IF b \in A THEN Cardinality(A) ELSE Cardinality(A) + 1
    BY <1>1, FS_AddElement
  <2> QED
    BY <1>1, <2>1
<1>3. IsFiniteSet(C) /\ Cardinality(C) \in {1, 2, 3}
  <2> HIDE DEF B
  <2>1. /\ IsFiniteSet(B \cup {c})
        /\ Cardinality(B \cup {c}) = IF c \in B THEN Cardinality(B) ELSE Cardinality(B) + 1
    BY <1>2, FS_AddElement
  <2> QED
    BY <1>2, <2>1
<1>4. C = {a, b, c}
  OBVIOUS
<1> QED
  BY <1>3, <1>4

\* The tokens of a text of that shape are those parseRequest() accepts.
LEMMA ShapeIsPlain ==
  ASSUME NEW body \in Seq(Symbols), Shape(body)
  PROVE  Plain(body)
<1>1. Len(body) \in 1 .. 6
  BY DEF Shape
<1>2. /\ Starts(body) = {i \in {1, 3, 5} : i <= Len(body)}
      /\ \A s \in Starts(body) : Token(body, s) = <<body[s]>> /\ body[s] \in Fields
  BY ShapeTokens
<1>3. 1 \in Starts(body)
  BY <1>1, <1>2
<1>4. Cardinality(Starts(body)) <= 3
  <2> DEFINE T == {1, 3, 5}
  <2>1. IsFiniteSet(T) /\ Cardinality(T) \in 0 .. 3
    BY ThreeAtMost
  <2>2. Starts(body) \in SUBSET T
    BY <1>2
  <2> HIDE DEF T
  <2>3. Cardinality(Starts(body)) <= Cardinality(T) /\ IsFiniteSet(Starts(body))
    BY <2>1, <2>2, FS_Subset
  <2>4. Cardinality(Starts(body)) \in Nat
    BY <2>3, FS_CardinalityType
  <2> QED
    BY <2>1, <2>3, <2>4
<1>5. ASSUME NEW s \in Starts(body), NEW t \in Starts(body), t < s
      PROVE  Token(body, t) # Token(body, s)
  <2>1. body[t] # body[s]
    BY <1>2, <1>5 DEF Shape
  <2> QED
    BY <1>2, <2>1
<1> QED
  BY <1>2, <1>3, <1>4, <1>5 DEF Plain

-------------------------------------------------------------------------------
(* The requests that are accepted, and what is taken from them.            *)

\* A text without its last symbol.
LEMMA FrontOf ==
  ASSUME NEW text \in Seq(Symbols), text # <<>>
  PROVE  /\ Front(text) \in Seq(Symbols)
         /\ Len(Front(text)) = Len(text) - 1
         /\ Len(text) \in Nat \ {0}
         /\ \A i \in 1 .. Len(text) - 1 : Front(text)[i] = text[i]
         /\ Last(text) = text[Len(text)]
<1>1. Len(text) \in Nat \ {0}
  BY EmptySeq
<1> DEFINE n == Len(text) - 1
<1>2. n \in Int /\ \A i \in 1 .. n : text[i] \in Symbols
  BY <1>1
<1> HIDE DEF n
<1>3. /\ SubSeq(text, 1, n) \in Seq(Symbols)
      /\ Len(SubSeq(text, 1, n)) = IF 1 <= n THEN n - 1 + 1 ELSE 0
      /\ \A i \in 1 .. n - 1 + 1 : SubSeq(text, 1, n)[i] = text[1 + i - 1]
  BY <1>2, SubSeqProperties
<1>4. n \in Nat /\ n = Len(text) - 1
  BY <1>1 DEF n
<1>5. /\ SubSeq(text, 1, n) \in Seq(Symbols)
      /\ Len(SubSeq(text, 1, n)) = n
      /\ \A i \in 1 .. n : SubSeq(text, 1, n)[i] = text[i]
  BY <1>3, <1>4
<1> QED
  BY <1>1, <1>4, <1>5 DEF Front, Last, n

\* The fields of a result.
LEMMA ResultFields ==
  ASSUME NEW r, NEW flags, r = [ret |-> 0, flags |-> flags, invalid |-> flags = {}]
  PROVE  r.ret = 0 /\ r.flags = flags /\ (r.invalid <=> flags = {})
  OBVIOUS

\* parseRequest() accepts what ends in a semicolon and has the shape before it.
LEMMA AcceptedShape ==
  ASSUME NEW text \in Seq(Symbols)
  PROVE  /\ ~ParseRequest(text).invalid <=>
              text # <<>> /\ Last(text) = Semicolon /\ Shape(Front(text))
         /\ ~ParseRequest(text).invalid =>
              /\ ParseRequest(text).ret = 0
              /\ ParseRequest(text).flags = {Token(Front(text), s)[1] : s \in Starts(Front(text))}
<1> DEFINE body == Front(text)
           flags == {Token(body, s)[1] : s \in Starts(body)}
           good == text # <<>> /\ Last(text) = Semicolon /\ Shape(body)
<1>1. CASE text = <<>> \/ Last(text) # Semicolon
  <2>1. ParseRequest(text) = Refused
    BY <1>1 DEF ParseRequest, Parsed
  <2> QED
    BY <1>1, <2>1 DEF Refused
<1>2. CASE text # <<>> /\ Last(text) = Semicolon
  <2>1. body \in Seq(Symbols)
    BY <1>2, FrontOf
  <2>2. IsFiniteSet(Starts(body)) /\ Cardinality(Starts(body)) \in Nat
    <3>1. Len(body) \in Nat /\ Starts(body) \in SUBSET (1 .. Len(body))
      BY <2>1 DEF Starts
    <3>2. IsFiniteSet(1 .. Len(body))
      BY <3>1, FS_Interval
    <3>3. IsFiniteSet(Starts(body))
      BY <3>1, <3>2, FS_Subset
    <3> QED
      BY <3>3, FS_CardinalityType
  <2> HIDE DEF body
  <2>3. ParseRequest(text) =
          Parsed(body, \/ Cardinality(Starts(body)) > 3
                       \/ \E s \in Starts(body) :
                            \/ Token(body, s) \notin {<<f>> : f \in Fields}
                            \/ \E t \in Starts(body) : t < s /\ Token(body, t) = Token(body, s))
    BY <1>2 DEF ParseRequest, Parsed, body
  <2>4. flags = {} <=> Starts(body) = {}
    OBVIOUS
  <2> HIDE DEF flags
  <2>5. CASE Plain(body)
    <3>1. ParseRequest(text) = [ret |-> 0, flags |-> flags, invalid |-> flags = {}]
      BY <2>2, <2>3, <2>5 DEF Plain, Parsed, flags
    <3>2. flags # {}
      BY <2>4, <2>5 DEF Plain
    <3>3. Shape(body)
      BY <2>1, <2>5, PlainHasShape
    <3>4. /\ ~ParseRequest(text).invalid /\ ParseRequest(text).ret = 0
          /\ ParseRequest(text).flags = flags
      BY <3>1, <3>2, ResultFields
    <3> QED
      BY <1>2, <3>3, <3>4 DEF body, flags
  <2>6. CASE ~Plain(body)
    <3>1. ~Shape(body)
      BY <2>1, <2>6, ShapeIsPlain
    <3>2. ParseRequest(text).invalid
      <4>1. CASE Starts(body) = {}
        <5>1. \/ ParseRequest(text) = Refused
              \/ ParseRequest(text) = [ret |-> 0, flags |-> flags, invalid |-> flags = {}]
          BY <2>3 DEF Parsed, flags
        <5>2. flags = {}
          BY <2>4, <4>1
        <5> QED
          BY <5>1, <5>2, ResultFields DEF Refused
      <4>2. CASE Starts(body) # {}
        <5>1. ParseRequest(text) = Refused
          BY <2>2, <2>3, <2>6, <4>2 DEF Plain, Parsed
        <5> QED
          BY <5>1 DEF Refused
      <4> QED
        BY <4>1, <4>2
    <3> QED
      BY <3>1, <3>2 DEF body
  <2> QED
    BY <2>5, <2>6
<1> QED
  BY <1>1, <1>2

\* The fields that are taken from an accepted request are those written in it.
LEMMA AcceptedFlags ==
  ASSUME NEW text \in Seq(Symbols), ~ParseRequest(text).invalid
  PROVE  ParseRequest(text).flags = ToSet(text) \cap Fields
<1> DEFINE body == Front(text)
<1>1. /\ text # <<>> /\ Last(text) = Semicolon /\ Shape(body)
      /\ ParseRequest(text).flags = {Token(body, s)[1] : s \in Starts(body)}
  BY AcceptedShape
<1>2. /\ body \in Seq(Symbols) /\ Len(body) = Len(text) - 1
      /\ Len(text) \in Nat \ {0} /\ DOMAIN text = 1 .. Len(text)
      /\ \A i \in 1 .. Len(text) - 1 : body[i] = text[i]
      /\ text[Len(text)] = Semicolon
  BY <1>1, FrontOf
<1>3. /\ Starts(body) = {i \in {1, 3, 5} : i <= Len(body)}
      /\ \A s \in Starts(body) : Token(body, s) = <<body[s]>> /\ body[s] \in Fields
  BY <1>1, <1>2, ShapeTokens
<1> HIDE DEF body
<1>4. ASSUME NEW s \in Starts(body)
      PROVE  Token(body, s)[1] \in ToSet(text) \cap Fields
  <2>1. Token(body, s)[1] = body[s] /\ s \in 1 .. Len(text) - 1
    BY <1>2, <1>3
  <2> QED
    BY <1>2, <1>3, <2>1 DEF ToSet
<1>5. ASSUME NEW f \in ToSet(text) \cap Fields
      PROVE  \E s \in Starts(body) : Token(body, s)[1] = f
  <2>1. PICK i \in 1 .. Len(text) : text[i] = f
    BY <1>2 DEF ToSet
  <2>2. f # Semicolon /\ f # Comma
    BY FieldNames DEF Semicolon, Comma
  <2>3. i \in 1 .. Len(body) /\ body[i] = f
    BY <1>2, <2>1, <2>2
  <2>4. i \notin {2, 4, 6}
    BY <1>1, <2>2, <2>3 DEF Shape
  <2>5. Len(body) \in 1 .. 6
    BY <1>1 DEF Shape
  <2>6. i \in {1, 3, 5}
    BY <2>3, <2>4, <2>5
  <2>7. i \in Starts(body)
    BY <1>3, <2>3, <2>6
  <2> QED
    BY <1>3, <2>3, <2>7
<1> QED
  BY <1>1, <1>4, <1>5

-------------------------------------------------------------------------------
(* The grammar and the shape are the same requests.                        *)

Listing(list) ==
  [k \in 1 .. 2 * Len(list) - 1 |-> IF k % 2 = 1 THEN list[(k + 1) \div 2] ELSE Comma]

\* A listing of at most three fields, symbol by symbol.
LEMMA ListingSymbols ==
  ASSUME NEW list \in Seq(Fields), Len(list) \in 1 .. 3
  PROVE  /\ Listing(list) \in Seq(Symbols)
         /\ Len(Listing(list)) = 2 * Len(list) - 1
         /\ Listing(list)[1] = list[1]
         /\ Len(list) > 1 => Listing(list)[2] = Comma /\ Listing(list)[3] = list[2]
         /\ Len(list) > 2 => Listing(list)[4] = Comma /\ Listing(list)[5] = list[3]
<1> DEFINE n == 2 * Len(list) - 1
           g == [k \in 1 .. n |-> IF k % 2 = 1 THEN list[(k + 1) \div 2] ELSE Comma]
<1>1. n \in Nat /\ g = Listing(list)
  BY DEF Listing
<1>2. ASSUME NEW k \in 1 .. n PROVE g[k] \in Symbols
  <2>1. k % 2 = 1 => (k + 1) \div 2 \in 1 .. Len(list)
    OBVIOUS
  <2>2. k % 2 = 1 => list[(k + 1) \div 2] \in Fields
    BY <2>1
  <2> QED
    BY <2>2 DEF Symbols
<1>3. g \in Seq(Symbols) /\ Len(g) = n
  BY <1>1, <1>2
<1>4. g[1] = list[1]
  <2>1. 1 % 2 = 1 /\ (1 + 1) \div 2 = 1 /\ 1 \in 1 .. n
    OBVIOUS
  <2> QED
    BY <2>1
<1>5. ASSUME Len(list) > 1 PROVE g[2] = Comma /\ g[3] = list[2]
  <2>1. 2 % 2 = 0 /\ 3 % 2 = 1 /\ (3 + 1) \div 2 = 2 /\ 2 \in 1 .. n /\ 3 \in 1 .. n
    BY <1>5
  <2> QED
    BY <2>1
<1>6. ASSUME Len(list) > 2 PROVE g[4] = Comma /\ g[5] = list[3]
  <2>1. 4 % 2 = 0 /\ 5 % 2 = 1 /\ (5 + 1) \div 2 = 3 /\ 4 \in 1 .. n /\ 5 \in 1 .. n
    BY <1>6
  <2> QED
    BY <2>1
<1> QED
  BY <1>1, <1>3, <1>4, <1>5, <1>6

\* The grammar, with the listing named.
LEMMA GrammarListings ==
  ASSUME NEW text
  PROVE  text \in Grammar <=>
           \E list \in Seq(Fields), comma \in {<<>>, <<Comma>>} :
             /\ Len(list) \in 1 .. 3
             /\ IsInjective(list)
             /\ text = Listing(list) \o comma \o <<Semicolon>>
<1>1. text \in Grammar <=>
        \E list \in SeqOf(Fields, 3), comma \in {<<>>, <<Comma>>} :
          /\ list # <<>> /\ IsInjective(list)
          /\ text = Listing(list) \o comma \o <<Semicolon>>
  <2> DEFINE
         L == {l \in SeqOf(Fields, 3) : l # <<>> /\ IsInjective(l)}
         C == {<<>>, <<Comma>>}
         written(list, comma) == Listing(list) \o comma \o <<Semicolon>>
  <2>1. Grammar = {written(list, comma) : list \in L, comma \in C}
    BY DEF Grammar, Listing
  <2>2. \A list : list \in L <=> list \in SeqOf(Fields, 3) /\ list # <<>> /\ IsInjective(list)
    OBVIOUS
  <2> HIDE DEF L, C, written
  <2>3. text \in Grammar <=> \E list \in L, comma \in C : text = written(list, comma)
    BY <2>1
  <2> QED
    BY <2>2, <2>3 DEF C, written
<1>2. ASSUME NEW list
      PROVE  list \in SeqOf(Fields, 3) /\ list # <<>> <=>
               list \in Seq(Fields) /\ Len(list) \in 1 .. 3
  <2>1. ASSUME list \in SeqOf(Fields, 3), list # <<>>
        PROVE  list \in Seq(Fields) /\ Len(list) \in 1 .. 3
    <3>1. PICK m \in 0 .. 3 : list \in [1 .. m -> Fields]
      BY <2>1 DEF SeqOf
    <3>2. list \in Seq(Fields) /\ Len(list) = m
      BY <3>1
    <3>3. Len(list) \in Nat \ {0}
      BY <2>1, <3>2, EmptySeq
    <3> QED
      BY <3>2, <3>3
  <2>2. ASSUME list \in Seq(Fields), Len(list) \in 1 .. 3
        PROVE  list \in SeqOf(Fields, 3) /\ list # <<>>
    <3>1. list \in [1 .. Len(list) -> Fields] /\ Len(list) \in 0 .. 3
      BY <2>2
    <3>2. list # <<>>
      BY <2>2, EmptySeq
    <3> QED
      BY <3>1, <3>2 DEF SeqOf
  <2> QED
    BY <2>1, <2>2
<1> QED
  BY <1>1, <1>2

\* A text and a symbol behind it.
LEMMA LastBehind ==
  ASSUME NEW p \in Seq(Symbols), NEW ch \in Symbols
  PROVE  /\ p \o <<ch>> \in Seq(Symbols)
         /\ p \o <<ch>> # <<>>
         /\ Len(p \o <<ch>>) = Len(p) + 1
         /\ Last(p \o <<ch>>) = ch
         /\ Front(p \o <<ch>>) = p
<1> DEFINE q == <<ch>>
           text == p \o q
<1>1. q \in Seq(Symbols) /\ Len(q) = 1 /\ q[1] = ch
  OBVIOUS
<1> HIDE DEF q
<1>2. /\ text \in Seq(Symbols) /\ Len(text) = Len(p) + Len(q)
      /\ \A i \in 1 .. Len(p) + Len(q) : text[i] = IF i <= Len(p) THEN p[i] ELSE q[i - Len(p)]
  BY <1>1, ConcatProperties
<1> HIDE DEF text
<1>3. Len(p) \in Nat
  OBVIOUS
<1>4. Len(text) = Len(p) + 1 /\ text # <<>>
  BY <1>1, <1>2, <1>3, EmptySeq
<1>5. text[Len(text)] = ch
  BY <1>1, <1>2, <1>3, <1>4
<1>6. /\ Front(text) \in Seq(Symbols) /\ Len(Front(text)) = Len(p)
      /\ \A i \in 1 .. Len(p) : Front(text)[i] = text[i]
      /\ Last(text) = text[Len(text)]
  BY <1>2, <1>3, <1>4, FrontOf
<1>7. \A i \in 1 .. Len(p) : text[i] = p[i]
  BY <1>1, <1>2, <1>3
<1>8. Front(text) = p
  BY <1>6, <1>7, SeqEqual
<1> QED
  BY <1>2, <1>4, <1>5, <1>6, <1>8 DEF text, q

\* A text is what is in front of its last symbol, and that symbol.
LEMMA FrontAndLast ==
  ASSUME NEW text \in Seq(Symbols), text # <<>>
  PROVE  text = Front(text) \o <<Last(text)>>
<1> DEFINE f == Front(text)
           q == <<Last(text)>>
           cat == f \o q
<1>1. /\ f \in Seq(Symbols) /\ Len(f) = Len(text) - 1 /\ Len(text) \in Nat \ {0}
      /\ \A i \in 1 .. Len(text) - 1 : f[i] = text[i]
      /\ Last(text) = text[Len(text)]
  BY FrontOf
<1>2. Last(text) \in Symbols
  BY <1>1, ElementOfSeq
<1>3. q \in Seq(Symbols) /\ Len(q) = 1 /\ q[1] = text[Len(text)]
  BY <1>1, <1>2
<1> HIDE DEF f, q
<1>4. /\ cat \in Seq(Symbols) /\ Len(cat) = Len(f) + Len(q)
      /\ \A i \in 1 .. Len(f) + Len(q) : cat[i] = IF i <= Len(f) THEN f[i] ELSE q[i - Len(f)]
  BY <1>1, <1>3, ConcatProperties
<1> HIDE DEF cat
<1>5. Len(cat) = Len(text)
  BY <1>1, <1>3, <1>4
<1>6. ASSUME NEW i \in 1 .. Len(text) PROVE cat[i] = text[i]
  BY <1>1, <1>3, <1>4
<1>7. cat = text
  BY <1>4, <1>5, <1>6, SeqEqual
<1> QED
  BY <1>7 DEF cat, f, q

\* The shape, symbol by symbol.
LEMMA ShapeOf ==
  ASSUME NEW body, Len(body) \in 1 .. 6, body[1] \in Fields,
         Len(body) >= 2 => body[2] = Comma,
         Len(body) >= 3 => body[3] \in Fields /\ body[3] # body[1],
         Len(body) >= 4 => body[4] = Comma,
         Len(body) >= 5 => body[5] \in Fields /\ body[5] # body[1] /\ body[5] # body[3],
         Len(body) = 6 => body[6] = Comma
  PROVE  Shape(body)
<1>1. \A i \in {1, 3, 5} : i <= Len(body) => body[i] \in Fields
  OBVIOUS
<1>2. \A i \in {2, 4, 6} : i <= Len(body) => body[i] = Comma
  OBVIOUS
<1>3. ASSUME NEW i \in {1, 3, 5}, NEW j \in {1, 3, 5}, i < j, j <= Len(body)
      PROVE  body[i] # body[j]
  <2>1. CASE j = 3
    BY <1>3, <2>1
  <2>2. CASE j = 5
    BY <1>3, <2>2
  <2> QED
    BY <1>3, <2>1, <2>2
<1> QED
  BY <1>1, <1>2, <1>3 DEF Shape

\* What the grammar writes has the shape.
LEMMA ListingHasShape ==
  ASSUME NEW list \in Seq(Fields), Len(list) \in 1 .. 3, IsInjective(list),
         NEW more \in Seq(Symbols), Len(more) \in 0 .. 1, Len(more) = 1 => more[1] = Comma
  PROVE  Listing(list) \o more \in Seq(Symbols) /\ Shape(Listing(list) \o more)
<1> DEFINE g == Listing(list)
           body == g \o more
<1>1. /\ g \in Seq(Symbols) /\ Len(g) = 2 * Len(list) - 1
      /\ g[1] = list[1]
      /\ Len(list) > 1 => g[2] = Comma /\ g[3] = list[2]
      /\ Len(list) > 2 => g[4] = Comma /\ g[5] = list[3]
  BY ListingSymbols
<1> HIDE DEF g
<1>3. /\ body \in Seq(Symbols) /\ Len(body) = Len(g) + Len(more)
      /\ \A i \in 1 .. Len(g) + Len(more) :
           body[i] = IF i <= Len(g) THEN g[i] ELSE more[i - Len(g)]
  BY <1>1, ConcatProperties
<1> HIDE DEF body
<1>8. Len(body) = Len(g) + Len(more)
  BY <1>3
<1> SUFFICES Shape(body)
  BY <1>3 DEF body, g
<1>4. /\ \A i \in 1 .. Len(list) : list[i] \in Fields
      /\ \A i, j \in 1 .. Len(list) : list[i] = list[j] => i = j
  BY DEF IsInjective
<1>5. CASE Len(list) = 1
  <2>1. Len(g) = 1 /\ Len(body) \in {1, 2} /\ body[1] = list[1]
    BY <1>1, <1>3, <1>5
  <2>2. ASSUME Len(body) = 2 PROVE body[2] = Comma
    <3>1. Len(more) = 1
      <4> DEFINE x == Len(g)
                 y == Len(more)
                 z == Len(body)
      <4>1. x \in Nat /\ y \in Nat /\ z = x + y
        BY <1>1, <1>8
      <4> HIDE DEF x, y, z
      <4>2. y = z - x
        BY ONLY <4>1
      <4> QED
        BY <2>1, <2>2, <4>2 DEF x, y, z
    <3>2. 2 \in 1 .. Len(g) + Len(more) /\ 2 - Len(g) = 1 /\ ~(2 <= Len(g))
      BY <2>1, <3>1
    <3> QED
      BY <1>3, <3>1, <3>2
  <2> QED
    BY <1>4, <1>5, <2>1, <2>2, ShapeOf
<1>6. CASE Len(list) = 2
  <2>1. /\ Len(g) = 3 /\ Len(body) \in {3, 4}
        /\ body[1] = list[1] /\ body[2] = Comma /\ body[3] = list[2]
    BY <1>1, <1>3, <1>6
  <2>2. ASSUME Len(body) = 4 PROVE body[4] = Comma
    <3>1. Len(more) = 1
      <4> DEFINE x == Len(g)
                 y == Len(more)
                 z == Len(body)
      <4>1. x \in Nat /\ y \in Nat /\ z = x + y
        BY <1>1, <1>8
      <4> HIDE DEF x, y, z
      <4>2. y = z - x
        BY ONLY <4>1
      <4> QED
        BY <2>1, <2>2, <4>2 DEF x, y, z
    <3>2. 4 \in 1 .. Len(g) + Len(more) /\ 4 - Len(g) = 1 /\ ~(4 <= Len(g))
      BY <2>1, <3>1
    <3> QED
      BY <1>3, <3>1, <3>2
  <2>3. body[1] \in Fields /\ body[3] \in Fields /\ body[1] # body[3]
    BY <1>4, <1>6, <2>1
  <2> QED
    BY <2>1, <2>2, <2>3, ShapeOf
<1>7. CASE Len(list) = 3
  <2>1. /\ Len(g) = 5 /\ Len(body) \in {5, 6}
        /\ body[1] = list[1] /\ body[2] = Comma /\ body[3] = list[2]
        /\ body[4] = Comma /\ body[5] = list[3]
    BY <1>1, <1>3, <1>7
  <2>2. ASSUME Len(body) = 6 PROVE body[6] = Comma
    <3>1. Len(more) = 1
      <4> DEFINE x == Len(g)
                 y == Len(more)
                 z == Len(body)
      <4>1. x \in Nat /\ y \in Nat /\ z = x + y
        BY <1>1, <1>8
      <4> HIDE DEF x, y, z
      <4>2. y = z - x
        BY ONLY <4>1
      <4> QED
        BY <2>1, <2>2, <4>2 DEF x, y, z
    <3>2. 6 \in 1 .. Len(g) + Len(more) /\ 6 - Len(g) = 1 /\ ~(6 <= Len(g))
      BY <2>1, <3>1
    <3> QED
      BY <1>3, <3>1, <3>2
  <2>3. /\ body[1] \in Fields /\ body[3] \in Fields /\ body[5] \in Fields
        /\ body[1] # body[3] /\ body[1] # body[5] /\ body[3] # body[5]
    BY <1>4, <1>7, <2>1
  <2> QED
    BY <2>1, <2>2, <2>3, ShapeOf
<1> QED
  BY <1>5, <1>6, <1>7

\* A text of that shape that does not end in a comma is a listing.
LEMMA ShapeIsListing ==
  ASSUME NEW body \in Seq(Symbols), Shape(body), Len(body) \in {1, 3, 5}
  PROVE  \E list \in Seq(Fields) :
           Len(list) \in 1 .. 3 /\ IsInjective(list) /\ body = Listing(list)
<1> DEFINE m == (Len(body) + 1) \div 2
           list == [k \in 1 .. m |-> body[2 * k - 1]]
<1>1. m \in 1 .. 3 /\ Len(body) = 2 * m - 1
  <2>1. CASE Len(body) = 1
    BY <2>1
  <2>2. CASE Len(body) = 3
    BY <2>2
  <2>3. CASE Len(body) = 5
    BY <2>3
  <2> QED
    BY <2>1, <2>2, <2>3
<1> HIDE DEF m
<1>2. ASSUME NEW k \in 1 .. m
      PROVE  2 * k - 1 \in {1, 3, 5} /\ 2 * k - 1 <= Len(body) /\ body[2 * k - 1] \in Fields
  <2>1. k \in {1, 2, 3}
    BY <1>1
  <2>2. 2 * k - 1 \in {1, 3, 5} /\ 2 * k - 1 <= Len(body)
    BY <1>1, <2>1
  <2> QED
    BY <2>2 DEF Shape
<1>3. list \in Seq(Fields) /\ Len(list) = m /\ DOMAIN list = 1 .. m
  BY <1>1, <1>2
<1>4. \A k \in 1 .. m : list[k] = body[2 * k - 1]
  OBVIOUS
<1> HIDE DEF list
<1>5. ASSUME NEW a \in 1 .. m, NEW b \in 1 .. m, a < b PROVE list[a] # list[b]
  <2>1. /\ 2 * a - 1 \in {1, 3, 5} /\ 2 * b - 1 \in {1, 3, 5}
        /\ 2 * a - 1 < 2 * b - 1 /\ 2 * b - 1 <= Len(body)
    BY <1>1, <1>2, <1>5
  <2>2. body[2 * a - 1] # body[2 * b - 1]
    BY <2>1 DEF Shape
  <2> QED
    BY <1>4, <2>2
<1>6. IsInjective(list)
  <2>1. \A a, b \in 1 .. m : a = b \/ a < b \/ b < a
    BY <1>1
  <2> QED
    BY <1>3, <1>5, <2>1 DEF IsInjective
<1> DEFINE g == Listing(list)
<1>7. /\ g \in Seq(Symbols) /\ Len(g) = 2 * m - 1 /\ g[1] = list[1]
      /\ m > 1 => g[2] = Comma /\ g[3] = list[2]
      /\ m > 2 => g[4] = Comma /\ g[5] = list[3]
  BY <1>1, <1>3, ListingSymbols
<1> HIDE DEF g
<1>8. ASSUME NEW i \in 1 .. Len(body) PROVE g[i] = body[i]
  <2>1. i \in {1, 2, 3, 4, 5}
    BY <1>1
  <2>2. CASE i = 1
    BY <1>1, <1>4, <1>7, <2>2
  <2>3. CASE i = 2
    BY <1>1, <1>7, <2>3 DEF Shape
  <2>4. CASE i = 3
    <3>1. m > 1 /\ 2 \in 1 .. m /\ 2 * 2 - 1 = 3
      BY <1>1, <2>4
    <3> QED
      BY <1>4, <1>7, <2>4, <3>1
  <2>5. CASE i = 4
    BY <1>1, <1>7, <2>5 DEF Shape
  <2>6. CASE i = 5
    <3>1. m > 2 /\ 3 \in 1 .. m /\ 2 * 3 - 1 = 5
      BY <1>1, <2>6
    <3> QED
      BY <1>4, <1>7, <2>6, <3>1
  <2> QED
    BY <2>1, <2>2, <2>3, <2>4, <2>5, <2>6
<1>9. body = g
  <2>1. Len(body) = Len(g)
    BY <1>1, <1>7
  <2> QED
    BY <1>7, <1>8, <2>1, SeqEqual
<1> QED
  BY <1>1, <1>3, <1>6, <1>9 DEF g

\* A text of that shape that ends in a comma is a listing and the comma.
LEMMA ShapeWithoutComma ==
  ASSUME NEW body \in Seq(Symbols), Shape(body), Len(body) \in {2, 4, 6}
  PROVE  /\ Front(body) \in Seq(Symbols) /\ Shape(Front(body)) /\ Len(Front(body)) \in {1, 3, 5}
         /\ body = Front(body) \o <<Comma>>
<1> DEFINE f == Front(body)
<1>1. body # <<>>
  <2> SUFFICES ASSUME body = <<>> PROVE FALSE
    OBVIOUS
  <2>1. Len(<<>>) = 0
    OBVIOUS
  <2> QED
    BY <2>1
<1>2. /\ f \in Seq(Symbols) /\ Len(f) = Len(body) - 1 /\ Last(body) = body[Len(body)]
      /\ \A i \in 1 .. Len(body) - 1 : f[i] = body[i]
      /\ body = f \o <<Last(body)>>
  BY <1>1, FrontOf, FrontAndLast
<1> HIDE DEF f
<1>3. Last(body) = Comma
  BY <1>2 DEF Shape
<1>4. Len(f) \in {1, 3, 5}
  BY <1>2
<1>5. Shape(f)
  <2>1. \A i \in {1, 2, 3, 4, 5, 6} : i <= Len(f) => f[i] = body[i] /\ i <= Len(body)
    BY <1>2, <1>4
  <2>2. Len(f) \in 1 .. 6
    BY <1>4
  <2>3. \A i \in {1, 3, 5} : i <= Len(f) => f[i] \in Fields
    BY <2>1 DEF Shape
  <2>4. \A i \in {2, 4, 6} : i <= Len(f) => f[i] = Comma
    BY <2>1 DEF Shape
  <2>5. ASSUME NEW i \in {1, 3, 5}, NEW j \in {1, 3, 5}, i < j, j <= Len(f)
        PROVE  f[i] # f[j]
    <3>1. j <= Len(body) /\ f[j] = body[j] /\ f[i] = body[i]
      BY <1>4, <2>1, <2>5
    <3> QED
      BY <2>5, <3>1 DEF Shape
  <2> QED
    BY <2>2, <2>3, <2>4, <2>5 DEF Shape
<1> QED
  BY <1>2, <1>3, <1>4, <1>5 DEF f

\* The requests of the grammar are the texts that end in a semicolon and have
\* the shape before it.
LEMMA GrammarShape ==
  ASSUME NEW text \in Seq(Symbols)
  PROVE  text \in Grammar <=> text # <<>> /\ Last(text) = Semicolon /\ Shape(Front(text))
<1>1. Semicolon \in Symbols /\ Comma \in Symbols
  BY DEF Symbols
<1>2. ASSUME text \in Grammar
      PROVE  text # <<>> /\ Last(text) = Semicolon /\ Shape(Front(text))
  <2>1. PICK list \in Seq(Fields), comma \in {<<>>, <<Comma>>} :
          /\ Len(list) \in 1 .. 3
          /\ IsInjective(list)
          /\ text = Listing(list) \o comma \o <<Semicolon>>
    BY <1>2, GrammarListings
  <2>2. comma \in Seq(Symbols) /\ Len(comma) \in 0 .. 1 /\ (Len(comma) = 1 => comma[1] = Comma)
    <3>1. CASE comma = <<>>
      BY <3>1, EmptySeq
    <3>2. CASE comma = <<Comma>>
      BY <1>1, <3>2
    <3> QED
      BY <3>1, <3>2
  <2>3. Listing(list) \o comma \in Seq(Symbols) /\ Shape(Listing(list) \o comma)
    BY <2>1, <2>2, ListingHasShape
  <2> QED
    BY <1>1, <2>1, <2>3, LastBehind
<1>3. ASSUME text # <<>>, Last(text) = Semicolon, Shape(Front(text))
      PROVE  text \in Grammar
  <2> DEFINE body == Front(text)
  <2>1. body \in Seq(Symbols) /\ text = body \o <<Semicolon>>
    BY <1>3, FrontOf, FrontAndLast
  <2>2. Len(body) \in {1, 2, 3, 4, 5, 6}
    BY <1>3 DEF Shape
  <2>3. CASE Len(body) \in {1, 3, 5}
    <3>1. PICK list \in Seq(Fields) :
            Len(list) \in 1 .. 3 /\ IsInjective(list) /\ body = Listing(list)
      BY <1>3, <2>1, <2>3, ShapeIsListing
    <3>2. Listing(list) \o <<>> = Listing(list)
      BY <2>1, <3>1, ConcatEmptySeq
    <3> QED
      BY <2>1, <3>1, <3>2, GrammarListings
  <2>4. CASE Len(body) \in {2, 4, 6}
    <3>1. /\ Front(body) \in Seq(Symbols) /\ Shape(Front(body)) /\ Len(Front(body)) \in {1, 3, 5}
          /\ body = Front(body) \o <<Comma>>
      BY <1>3, <2>1, <2>4, ShapeWithoutComma
    <3>2. PICK list \in Seq(Fields) :
            Len(list) \in 1 .. 3 /\ IsInjective(list) /\ Front(body) = Listing(list)
      BY <3>1, ShapeIsListing
    <3> QED
      BY <2>1, <3>1, <3>2, GrammarListings
  <2> QED
    BY <2>2, <2>3, <2>4
<1> QED
  BY <1>2, <1>3

-------------------------------------------------------------------------------
(* The request of client.cpp.                                              *)

\* The symbol is in the text.
Within(ch, text) == \E i \in 1 .. Len(text) : text[i] = ch

\* Its header has the fields that are wanted, commas and nothing else.
LEMMA HeaderSymbols ==
  ASSUME NEW flags \in SUBSET Fields
  PROVE  /\ Header(flags) \in Seq(flags \cup {Comma})
         /\ \A f \in flags : Within(f, Header(flags))
<1> DEFINE S == flags \cup {Comma}
           name(f, before) == IF f \notin flags THEN <<>>
                              ELSE IF before \cap flags = {} THEN <<f>> ELSE <<Comma, f>>
           t == name("TEMP", {})
           p == name("PRESS", {"TEMP"})
           h == name("HUMID", {"TEMP", "PRESS"})
<1>1. Header(flags) = t \o p \o h
  BY DEF Header
<1>2. ASSUME NEW f, NEW before
      PROVE  /\ name(f, before) \in Seq(S)
             /\ f \in flags => Within(f, name(f, before))
  <2>1. CASE f \notin flags
    BY <2>1 DEF Within
  <2>2. CASE f \in flags /\ before \cap flags = {}
    <3>1. name(f, before) = <<f>>
      BY <2>2
    <3> QED
      BY <2>2, <3>1 DEF Within
  <2>3. CASE f \in flags /\ before \cap flags # {}
    <3>1. name(f, before) = <<Comma, f>>
      BY <2>3
    <3> DEFINE q == <<Comma, f>>
    <3>2. q \in Seq(S) /\ 2 \in 1 .. Len(q) /\ q[2] = f
      BY <2>3
    <3> HIDE DEF q
    <3>3. name(f, before) = q
      BY <3>1 DEF q
    <3> HIDE DEF name
    <3> QED
      BY <3>2, <3>3 DEF Within
  <2> QED
    BY <2>1, <2>2, <2>3
<1>3. /\ t \in Seq(S) /\ p \in Seq(S) /\ h \in Seq(S)
      /\ "TEMP" \in flags => Within("TEMP", t)
      /\ "PRESS" \in flags => Within("PRESS", p)
      /\ "HUMID" \in flags => Within("HUMID", h)
  BY <1>2
<1> HIDE DEF t, p, h, S
<1>4. ASSUME NEW x \in Seq(S), NEW y \in Seq(S), NEW f
      PROVE  /\ x \o y \in Seq(S)
             /\ Within(f, x) \/ Within(f, y) => Within(f, x \o y)
  <2>1. /\ x \o y \in Seq(S) /\ Len(x \o y) = Len(x) + Len(y)
        /\ \A i \in 1 .. Len(x) + Len(y) : (x \o y)[i] = IF i <= Len(x) THEN x[i] ELSE y[i - Len(x)]
    BY ConcatProperties
  <2>2. Len(x) \in Nat /\ Len(y) \in Nat
    OBVIOUS
  <2>3. ASSUME NEW i \in 1 .. Len(x), x[i] = f
        PROVE  Within(f, x \o y)
    BY <2>1, <2>2, <2>3 DEF Within
  <2>4. ASSUME NEW i \in 1 .. Len(y), y[i] = f
        PROVE  Within(f, x \o y)
    <3>1. i + Len(x) \in 1 .. Len(x) + Len(y) /\ ~(i + Len(x) <= Len(x)) /\ i + Len(x) - Len(x) = i
      BY <2>2
    <3> QED
      BY <2>1, <2>4, <3>1 DEF Within
  <2> QED
    BY <2>1, <2>3, <2>4 DEF Within
<1>5. t \o p \in Seq(S) /\ (t \o p) \o h \in Seq(S)
  BY <1>3, <1>4
<1>6. ASSUME NEW f \in flags
      PROVE  Within(f, (t \o p) \o h)
  <2>1. \/ Within(f, t)
        \/ Within(f, p)
        \/ Within(f, h)
    BY <1>3, FieldNames
  <2>2. Within(f, t) \/ Within(f, p) => Within(f, t \o p)
    BY <1>3, <1>4
  <2>3. \/ Within(f, t \o p)
        \/ Within(f, h)
    BY <2>1, <2>2
  <2> QED
    BY <1>3, <1>4, <1>5, <2>3
<1> QED
  BY <1>1, <1>5, <1>6 DEF S

\* A beginning of it that is accepted is all of it, and names the fields wanted.
LEMMA OwnRequest ==
  ASSUME NEW flags \in SUBSET Fields, NEW text \in Beginnings(BuildRequest(flags)),
         ~ParseRequest(text).invalid
  PROVE  text = BuildRequest(flags) /\ ParseRequest(text).flags = flags
<1> DEFINE h == Header(flags)
           all == BuildRequest(flags)
<1>1. h \in Seq(flags \cup {Comma}) /\ \A f \in flags : Within(f, h)
  BY HeaderSymbols
<1>2. all = h \o <<Semicolon>>
  BY DEF BuildRequest
<1> HIDE DEF h, all
<1>3. h \in Seq(Symbols) /\ \A i \in 1 .. Len(h) : h[i] \in flags \cup {Comma}
  BY <1>1 DEF Symbols
<1> DEFINE q == <<Semicolon>>
<1>4. q \in Seq(Symbols) /\ Len(q) = 1 /\ q[1] = Semicolon
  BY DEF Symbols
<1> HIDE DEF q
<1>5. /\ all \in Seq(Symbols) /\ Len(all) = Len(h) + 1
      /\ \A i \in 1 .. Len(h) + 1 : all[i] = IF i <= Len(h) THEN h[i] ELSE q[i - Len(h)]
  BY <1>2, <1>3, <1>4, ConcatProperties DEF q
<1>6. Len(h) \in Nat /\ DOMAIN all = 1 .. Len(h) + 1
  BY <1>3, <1>5
<1>7. \A f \in Fields : f # Comma /\ f # Semicolon
  BY FieldNames DEF Comma, Semicolon
<1>8. \A i \in 1 .. Len(h) : all[i] \in flags \cup {Comma} /\ all[i] # Semicolon
  <2>1. \A i \in 1 .. Len(h) : all[i] = h[i]
    BY <1>5, <1>6
  <2>2. Comma # Semicolon
    BY DEF Comma, Semicolon
  <2> QED
    BY <1>3, <1>7, <2>1, <2>2
<1>9. all[Len(h) + 1] = Semicolon
  BY <1>4, <1>5, <1>6
<1>10. PICK n \in 1 .. Len(all) : text = SubSeq(all, 1, n)
  BY DEF Beginnings, all
<1>11. text \in Seq(Symbols) /\ Len(text) = n /\ text[n] = all[n]
  <2>1. n \in Int /\ \A i \in 1 .. n : all[i] \in Symbols
    BY <1>5, <1>6
  <2>2. /\ SubSeq(all, 1, n) \in Seq(Symbols)
        /\ Len(SubSeq(all, 1, n)) = IF 1 <= n THEN n - 1 + 1 ELSE 0
        /\ \A i \in 1 .. n - 1 + 1 : SubSeq(all, 1, n)[i] = all[1 + i - 1]
    BY <2>1, SubSeqProperties
  <2>3. n \in Nat \ {0}
    BY <1>5, <1>6
  <2> QED
    BY <1>10, <2>2, <2>3
<1>12. all[n] = Semicolon
  <2>1. text # <<>> /\ Last(text) = Semicolon
    BY <1>11, AcceptedShape
  <2> QED
    BY <1>11, <2>1, FrontOf
<1>13. n = Len(all)
  <2>1. n \in 1 .. Len(h) \/ n = Len(h) + 1
    BY <1>5, <1>6
  <2> QED
    BY <1>5, <1>8, <1>12, <2>1
<1>14. text = all
  BY <1>5, <1>10, <1>13, SubSeqFull
<1>15. ToSet(all) \cap Fields = flags
  <2>1. ASSUME NEW f \in ToSet(all) \cap Fields PROVE f \in flags
    <3>1. PICK i \in 1 .. Len(h) + 1 : all[i] = f
      BY <1>6 DEF ToSet
    <3>2. i \in 1 .. Len(h)
      BY <1>6, <1>7, <1>9, <3>1
    <3> QED
      BY <1>7, <1>8, <3>1, <3>2
  <2>2. ASSUME NEW f \in flags PROVE f \in ToSet(all)
    <3>1. PICK i \in 1 .. Len(h) : h[i] = f
      BY <1>1 DEF Within
    <3>2. i \in 1 .. Len(h) + 1 /\ all[i] = f
      BY <1>5, <1>6, <3>1
    <3> QED
      BY <1>6, <3>2 DEF ToSet
  <2> QED
    BY <2>1, <2>2
<1> QED
  BY <1>11, <1>14, <1>15, AcceptedFlags DEF all

-------------------------------------------------------------------------------
(* The response: what getline() reads of texts that are joined by commas.  *)

\* Two texts with a sign between them, and with a comma.
Between(a, sign, b) == a \o (<<sign>> \o b)
Joined(a, b) == Between(a, Comma, b)

\* No symbol of the text is a comma.
Whole(text) == \A i \in 1 .. Len(text) : text[i] # Comma

\* Two texts and the sign between them, symbol by symbol.
LEMMA BetweenSymbols ==
  ASSUME NEW S, NEW sign \in S, NEW a \in Seq(S), NEW b \in Seq(S)
  PROVE  /\ Between(a, sign, b) \in Seq(S)
         /\ Len(a) \in Nat /\ Len(b) \in Nat
         /\ Len(Between(a, sign, b)) = Len(a) + Len(b) + 1
         /\ \A i \in 1 .. Len(a) : Between(a, sign, b)[i] = a[i]
         /\ Between(a, sign, b)[Len(a) + 1] = sign
         /\ \A i \in 1 .. Len(b) : Between(a, sign, b)[Len(a) + 1 + i] = b[i]
<1> DEFINE q == <<sign>>
           p == q \o b
           j == a \o p
<1>1. q \in Seq(S) /\ Len(q) = 1 /\ q[1] = sign
  OBVIOUS
<1>2. Len(a) \in Nat /\ Len(b) \in Nat
  OBVIOUS
<1> HIDE DEF q
<1>3. /\ p \in Seq(S) /\ Len(p) = Len(q) + Len(b)
      /\ \A i \in 1 .. Len(q) + Len(b) : p[i] = IF i <= Len(q) THEN q[i] ELSE b[i - Len(q)]
  BY <1>1, ConcatProperties
<1> HIDE DEF p
<1>4. /\ a \o p \in Seq(S)
      /\ Len(a \o p) = Len(a) + Len(p)
      /\ \A i \in 1 .. Len(a) + Len(p) :
           (a \o p)[i] = IF i <= Len(a) THEN a[i] ELSE p[i - Len(a)]
  <2>1. a \in Seq(S) /\ p \in Seq(S)
    BY <1>3
  <2> QED
    BY ONLY <2>1, ConcatProperties
<1>5. j = Between(a, sign, b)
  BY DEF Between, p, q
<1> HIDE DEF j
<1>6. Len(p) = Len(b) + 1 /\ p[1] = sign /\ \A i \in 1 .. Len(b) : p[i + 1] = b[i]
  <2>1. Len(p) = Len(b) + 1 /\ p[1] = sign
    BY <1>1, <1>2, <1>3
  <2>2. ASSUME NEW i \in 1 .. Len(b) PROVE p[i + 1] = b[i]
    <3>1. i + 1 \in 1 .. Len(q) + Len(b) /\ ~(i + 1 <= Len(q)) /\ i + 1 - Len(q) = i
      BY <1>1, <1>2
    <3> QED
      BY <1>3, <3>1
  <2> QED
    BY <2>1, <2>2
<1>7. Len(j) = Len(a) + Len(b) + 1 /\ \A i \in 1 .. Len(a) : j[i] = a[i]
  BY <1>2, <1>4, <1>6 DEF j
<1>8. \A k \in 1 .. Len(p) : j[Len(a) + k] = p[k]
  <2> SUFFICES ASSUME NEW k \in 1 .. Len(p) PROVE j[Len(a) + k] = p[k]
    OBVIOUS
  <2>1. /\ Len(a) + k \in 1 .. Len(a) + Len(p)
        /\ ~(Len(a) + k <= Len(a)) /\ Len(a) + k - Len(a) = k
    BY <1>2, <1>6
  <2> QED
    BY <1>4, <2>1 DEF j
<1>9. j[Len(a) + 1] = sign
  <2>1. 1 \in 1 .. Len(p)
    BY <1>2, <1>6
  <2> QED
    BY <1>6, <1>8, <2>1
<1>10. ASSUME NEW i \in 1 .. Len(b) PROVE j[Len(a) + 1 + i] = b[i]
  <2>1. i + 1 \in 1 .. Len(p) /\ Len(a) + (i + 1) = Len(a) + 1 + i
    BY <1>2, <1>6
  <2> QED
    BY <1>6, <1>8, <2>1
<1> QED
  BY <1>2, <1>4, <1>5, <1>7, <1>9, <1>10 DEF j

\* What is before the sign, and what is behind it.
LEMMA BetweenParts ==
  ASSUME NEW S, NEW sign \in S, NEW a \in Seq(S), NEW b \in Seq(S)
  PROVE  LET j == Between(a, sign, b)
         IN SubSeq(j, 1, Len(a)) = a /\ SubSeq(j, Len(a) + 2, Len(j)) = b
<1> DEFINE j == Between(a, sign, b)
<1>1. /\ j \in Seq(S)
      /\ Len(a) \in Nat /\ Len(b) \in Nat
      /\ Len(j) = Len(a) + Len(b) + 1
      /\ \A i \in 1 .. Len(a) : j[i] = a[i]
      /\ \A i \in 1 .. Len(b) : j[Len(a) + 1 + i] = b[i]
  <2>1. j \in Seq(S) /\ Len(a) \in Nat /\ Len(b) \in Nat /\ Len(j) = Len(a) + Len(b) + 1
    BY BetweenSymbols
  <2>2. \A i \in 1 .. Len(a) : j[i] = a[i]
    BY BetweenSymbols
  <2>3. \A i \in 1 .. Len(b) : j[Len(a) + 1 + i] = b[i]
    BY BetweenSymbols
  <2> QED
    BY <2>1, <2>2, <2>3
<1> HIDE DEF j
<1>2. SubSeq(j, 1, Len(a)) = a
  <2> DEFINE t == SubSeq(j, 1, Len(a))
  <2>1. Len(a) \in Int /\ \A i \in 1 .. Len(a) : j[i] \in S
    BY <1>1
  <2>2. /\ t \in Seq(S) /\ Len(t) = IF 1 <= Len(a) THEN Len(a) - 1 + 1 ELSE 0
        /\ \A i \in 1 .. Len(a) - 1 + 1 : t[i] = j[1 + i - 1]
    BY <2>1, SubSeqProperties
  <2> HIDE DEF t
  <2>3. Len(t) = Len(a) /\ \A i \in 1 .. Len(a) : t[i] = a[i]
    BY <1>1, <2>2
  <2>4. t = a
    BY <2>2, <2>3, SeqEqual
  <2> QED
    BY <2>4 DEF t
<1>3. SubSeq(j, Len(a) + 2, Len(j)) = b
  <2> DEFINE m == Len(a) + 2
             n == Len(j)
             t == SubSeq(j, m, n)
  <2>1. m \in Int /\ n \in Int /\ \A i \in m .. n : j[i] \in S
    BY <1>1
  <2>2. n - m + 1 = Len(b) /\ m \in Int /\ n \in Int
    BY <1>1
  <2>3. \A i \in 1 .. Len(b) : m + i - 1 = Len(a) + 1 + i
    BY <1>1
  <2> HIDE DEF m, n
  <2>5. /\ t \in Seq(S) /\ Len(t) = IF m <= n THEN n - m + 1 ELSE 0
        /\ \A i \in 1 .. n - m + 1 : t[i] = j[m + i - 1]
    BY <2>1, SubSeqProperties
  <2> HIDE DEF t
  <2>6. Len(t) = Len(b)
    BY <1>1, <2>2, <2>5
  <2>7. \A i \in 1 .. Len(t) : t[i] = b[i]
    BY <1>1, <2>2, <2>3, <2>5, <2>6
  <2>8. t = b
    BY <2>5, <2>6, <2>7, SeqEqual
  <2> QED
    BY <2>8 DEF t, m, n
<1> QED
  BY <1>2, <1>3 DEF j

\* The same of a comma.
LEMMA JoinedSymbols ==
  ASSUME NEW S, Comma \in S, NEW a \in Seq(S), NEW b \in Seq(S)
  PROVE  /\ Joined(a, b) \in Seq(S)
         /\ Len(a) \in Nat /\ Len(b) \in Nat
         /\ Len(Joined(a, b)) = Len(a) + Len(b) + 1
         /\ \A i \in 1 .. Len(a) : Joined(a, b)[i] = a[i]
         /\ Joined(a, b)[Len(a) + 1] = Comma
<1> DEFINE j == Between(a, Comma, b)
<1>1. j = Joined(a, b)
  BY DEF Joined
<1>2. j \in Seq(S) /\ Len(a) \in Nat /\ Len(b) \in Nat /\ Len(j) = Len(a) + Len(b) + 1
  BY BetweenSymbols
<1>3. \A i \in 1 .. Len(a) : j[i] = a[i]
  BY BetweenSymbols
<1>4. j[Len(a) + 1] = Comma
  BY BetweenSymbols
<1> QED
  BY <1>1, <1>2, <1>3, <1>4

\* A text without a comma is one token, and nothing is behind it.
LEMMA LastToken ==
  ASSUME NEW S, NEW a \in Seq(S), Whole(a)
  PROVE  Token(a, 1) = a /\ Behind(a) = <<>>
<1>1. Len(a) \in Nat /\ 1 \in 1 .. Len(a) + 1
  OBVIOUS
<1>2. /\ EndOf(a, 1) \in 0 .. Len(a)
      /\ EndOf(a, 1) = Len(a) \/ a[EndOf(a, 1) + 1] = Comma
      /\ Token(a, 1) = SubSeq(a, 1, EndOf(a, 1))
  BY <1>1, TokenEnds
<1>3. EndOf(a, 1) = Len(a)
  BY <1>1, <1>2 DEF Whole
<1>4. Token(a, 1) = a
  BY <1>2, <1>3, SubSeqFull
<1>5. Behind(a) = <<>>
  BY <1>1, <1>4, SubSeqEmpty DEF Behind
<1> QED
  BY <1>4, <1>5

\* Nothing is behind an empty text.
LEMMA NothingBehind == Behind(<<>>) = <<>>
<1>1. <<>> \in Seq({}) /\ Len(<<>>) = 0
  OBVIOUS
<1>2. Whole(<<>>)
  BY <1>1 DEF Whole
<1> QED
  BY <1>1, <1>2, LastToken

\* The first token of a joined text, and what is behind it.
LEMMA FirstToken ==
  ASSUME NEW S, Comma \in S, NEW a \in Seq(S), NEW b \in Seq(S), Whole(a)
  PROVE  Token(Joined(a, b), 1) = a /\ Behind(Joined(a, b)) = b
<1> DEFINE j == Joined(a, b)
<1>1. /\ j \in Seq(S)
      /\ Len(a) \in Nat /\ Len(b) \in Nat
      /\ Len(j) = Len(a) + Len(b) + 1
      /\ \A i \in 1 .. Len(a) : j[i] = a[i]
      /\ j[Len(a) + 1] = Comma
  <2>1. j \in Seq(S) /\ Len(a) \in Nat /\ Len(b) \in Nat /\ Len(j) = Len(a) + Len(b) + 1
    BY JoinedSymbols
  <2>2. \A i \in 1 .. Len(a) : j[i] = a[i]
    BY JoinedSymbols
  <2>3. j[Len(a) + 1] = Comma
    BY JoinedSymbols
  <2> QED
    BY <2>1, <2>2, <2>3
<1>0. SubSeq(j, 1, Len(a)) = a /\ SubSeq(j, Len(a) + 2, Len(j)) = b
  BY BetweenParts DEF Joined
<1> HIDE DEF j
<1> DEFINE e == EndOf(j, 1)
<1>2. /\ e \in 0 .. Len(j)
      /\ e = Len(j) \/ j[e + 1] = Comma
      /\ \A i \in 1 .. e : j[i] # Comma
      /\ Token(j, 1) = SubSeq(j, 1, e)
  <2>1. 1 \in 1 .. Len(j) + 1
    BY <1>1
  <2>2. /\ e \in 1 - 1 .. Len(j)
        /\ e = Len(j) \/ j[e + 1] = Comma
        /\ \A i \in 1 .. e : j[i] # Comma
        /\ Token(j, 1) = SubSeq(j, 1, e)
    BY <1>1, <2>1, TokenEnds, Zenon
  <2> QED
    BY <2>2
<1> HIDE DEF e
<1>3. e = Len(a)
  <2>1. e <= Len(a)
    BY <1>1, <1>2
  <2>2. e < Len(a) => e + 1 \in 1 .. Len(a) /\ j[e + 1] = a[e + 1] /\ j[e + 1] = Comma
    BY <1>1, <1>2
  <2> QED
    BY <1>1, <1>2, <2>1, <2>2 DEF Whole
<1>4. Token(j, 1) = a
  BY <1>0, <1>2, <1>3
<1>5. Behind(j) = b
  BY <1>0, <1>4 DEF Behind
<1> QED
  BY <1>4, <1>5 DEF j

\* The tokens, by what is left of the text before each.
LEMMA TokensOf ==
  ASSUME NEW r1, NEW r2, NEW r3, NEW r4,
         r2 = Behind(r1), r3 = Behind(r2), r4 = Behind(r3),
         NEW m \in 1 .. 4, \A n \in 1 .. 4 : <<r1, r2, r3, r4>>[n] # <<>> <=> n \in 1 .. m
  PROVE  Tokens(r1) = [k \in 1 .. m |-> Token(<<r1, r2, r3, r4>>[k], 1)]
<1> DEFINE rest == <<r1, r2, r3, r4>>
<1>1. Tokens(r1) = [k \in {n \in 1 .. 4 : rest[n] # <<>>} |-> Token(rest[k], 1)]
  BY DEF Tokens
<1>2. \A n \in 1 .. 4 : rest[n] # <<>> <=> n \in 1 .. m
  OBVIOUS
<1> HIDE DEF rest
<1>3. {n \in 1 .. 4 : rest[n] # <<>>} = 1 .. m
  BY <1>2
<1>4. Tokens(r1) = [k \in 1 .. m |-> Token(rest[k], 1)]
  BY ONLY <1>1, <1>3
<1> QED
  BY <1>4 DEF rest

\* The tokens of up to four texts joined by commas are these texts.
LEMMA JoinedTokens ==
  ASSUME NEW S, Comma \in S, NEW a \in Seq(S), NEW b \in Seq(S), NEW c \in Seq(S), NEW d \in Seq(S),
         Whole(a), Whole(b), Whole(c), Whole(d),
         a # <<>>, b # <<>>, c # <<>>, d # <<>>
  PROVE  /\ Tokens(a) = <<a>>
         /\ Tokens(Joined(a, b)) = <<a, b>>
         /\ Tokens(Joined(a, Joined(b, c))) = <<a, b, c>>
         /\ Tokens(Joined(a, Joined(b, Joined(c, d)))) = <<a, b, c, d>>
<1>1. ASSUME NEW x \in Seq(S), NEW y \in Seq(S)
      PROVE  Joined(x, y) \in Seq(S) /\ Joined(x, y) # <<>>
  <2>1. Len(x) \in Nat /\ Len(y) \in Nat /\ Len(Joined(x, y)) = Len(x) + Len(y) + 1
    BY JoinedSymbols
  <2>2. Joined(x, y) \in Seq(S)
    BY JoinedSymbols
  <2>3. Len(<<>>) = 0
    OBVIOUS
  <2> QED
    BY <2>1, <2>2, <2>3
<1>2. ASSUME NEW x \in Seq(S), NEW y \in Seq(S), Whole(x)
      PROVE  Token(Joined(x, y), 1) = x /\ Behind(Joined(x, y)) = y
  BY <1>2, FirstToken
<1>3. ASSUME NEW x \in Seq(S), Whole(x) PROVE Token(x, 1) = x /\ Behind(x) = <<>>
  BY <1>3, LastToken
<1>4. Tokens(a) = <<a>>
  <2>1. \A n \in 1 .. 4 : <<a, <<>>, <<>>, <<>>>>[n] # <<>> <=> n \in 1 .. 1
    OBVIOUS
  <2>2. Tokens(a) = [k \in 1 .. 1 |-> Token(<<a, <<>>, <<>>, <<>>>>[k], 1)]
    <3>1. <<>> = Behind(a) /\ <<>> = Behind(<<>>) /\ 1 \in 1 .. 4
      BY <1>3, NothingBehind
    <3> QED
      BY ONLY <2>1, <3>1, TokensOf
  <2> QED
    BY <1>3, <2>2
<1>5. Tokens(Joined(a, b)) = <<a, b>>
  <2> DEFINE r == Joined(a, b)
  <2>1. \A n \in 1 .. 4 : <<r, b, <<>>, <<>>>>[n] # <<>> <=> n \in 1 .. 2
    BY <1>1
  <2>2. Behind(r) = b /\ Behind(b) = <<>> /\ Token(r, 1) = a /\ Token(b, 1) = b
    BY <1>2, <1>3
  <2> HIDE DEF r
  <2>3. Tokens(r) = [k \in 1 .. 2 |-> Token(<<r, b, <<>>, <<>>>>[k], 1)]
    <3>1. b = Behind(r) /\ <<>> = Behind(b) /\ <<>> = Behind(<<>>) /\ 2 \in 1 .. 4
      BY <2>2, NothingBehind
    <3> QED
      BY ONLY <2>1, <3>1, TokensOf
  <2> QED
    BY <2>2, <2>3 DEF r
<1>6. Tokens(Joined(a, Joined(b, c))) = <<a, b, c>>
  <2> DEFINE q == Joined(b, c)
             r == Joined(a, q)
  <2>1. \A n \in 1 .. 4 : <<r, q, c, <<>>>>[n] # <<>> <=> n \in 1 .. 3
    BY <1>1
  <2>2. /\ Behind(r) = q /\ Behind(q) = c /\ Behind(c) = <<>>
        /\ Token(r, 1) = a /\ Token(q, 1) = b /\ Token(c, 1) = c
    BY <1>1, <1>2, <1>3
  <2> HIDE DEF q, r
  <2>3. Tokens(r) = [k \in 1 .. 3 |-> Token(<<r, q, c, <<>>>>[k], 1)]
    <3>1. q = Behind(r) /\ c = Behind(q) /\ <<>> = Behind(c) /\ 3 \in 1 .. 4
      BY <2>2
    <3> QED
      BY ONLY <2>1, <3>1, TokensOf
  <2> QED
    BY <2>2, <2>3 DEF q, r
<1>7. Tokens(Joined(a, Joined(b, Joined(c, d)))) = <<a, b, c, d>>
  <2> DEFINE p == Joined(c, d)
             q == Joined(b, p)
             r == Joined(a, q)
  <2>1. \A n \in 1 .. 4 : <<r, q, p, d>>[n] # <<>> <=> n \in 1 .. 4
    BY <1>1
  <2>2. /\ Behind(r) = q /\ Behind(q) = p /\ Behind(p) = d
        /\ Token(r, 1) = a /\ Token(q, 1) = b /\ Token(p, 1) = c /\ Token(d, 1) = d
    BY <1>1, <1>2, <1>3
  <2> HIDE DEF p, q, r
  <2>3. Tokens(r) = [k \in 1 .. 4 |-> Token(<<r, q, p, d>>[k], 1)]
    <3>1. q = Behind(r) /\ p = Behind(q) /\ d = Behind(p) /\ 4 \in 1 .. 4
      BY <2>2
    <3> QED
      BY ONLY <2>1, <3>1, TokensOf
  <2> QED
    BY <2>2, <2>3 DEF p, q, r
<1> QED
  BY <1>4, <1>5, <1>6, <1>7

\* The comma before a text, and a text with another one behind it.
Put(b) == <<Comma>> \o b
Followed(a, b) == a \o b

\* Texts that are put one behind the other, with a comma before each, are joined.
LEMMA JoinedBehind ==
  ASSUME NEW S, Comma \in S
  PROVE  /\ \A a \in Seq(S) : Followed(a, <<>>) = a
         /\ \A a, b \in Seq(S) :
              Joined(a, b) \in Seq(S) /\ Followed(a, Put(b)) = Joined(a, b)
         /\ \A a, b, c \in Seq(S) :
              Followed(Joined(a, b), Put(c)) = Joined(a, Joined(b, c))
         /\ \A a, b, c, d \in Seq(S) :
              Followed(Joined(a, Joined(b, c)), Put(d)) = Joined(a, Joined(b, Joined(c, d)))
<1>1. ASSUME NEW a \in Seq(S), NEW b \in Seq(S), NEW c \in Seq(S)
      PROVE  Joined(a, b) \o c = Joined(a, b \o c)
  <2> DEFINE q == <<Comma>>
  <2>1. q \in Seq(S)
    OBVIOUS
  <2> HIDE DEF q
  <2> DEFINE p == q \o b
  <2>2. p \in Seq(S)
    BY <2>1, ConcatProperties
  <2> HIDE DEF p
  <2>3. (a \o p) \o c = a \o (p \o c)
    BY <2>2, ConcatAssociative
  <2>4. (q \o b) \o c = q \o (b \o c)
    BY <2>1, ConcatAssociative
  <2> QED
    BY <2>3, <2>4 DEF Joined, Between, p, q
<1>2. ASSUME NEW a \in Seq(S) PROVE Followed(a, <<>>) = a
  BY ConcatEmptySeq DEF Followed
<1>3. ASSUME NEW a \in Seq(S), NEW b \in Seq(S)
      PROVE  Joined(a, b) \in Seq(S) /\ Followed(a, Put(b)) = Joined(a, b)
  BY JoinedSymbols DEF Followed, Put, Joined, Between
<1>4. ASSUME NEW b \in Seq(S) PROVE Put(b) \in Seq(S)
  <2> DEFINE q == <<Comma>>
  <2>1. q \in Seq(S)
    OBVIOUS
  <2> HIDE DEF q
  <2>2. q \o b \in Seq(S)
    BY <2>1, ConcatProperties
  <2> QED
    BY <2>2 DEF q, Put
<1>5. ASSUME NEW a \in Seq(S), NEW b \in Seq(S), NEW c \in Seq(S)
      PROVE  Followed(Joined(a, b), c) = Joined(a, Followed(b, c))
  BY <1>1 DEF Followed
<1>6. ASSUME NEW a \in Seq(S), NEW b \in Seq(S), NEW c \in Seq(S)
      PROVE  Followed(Joined(a, b), Put(c)) = Joined(a, Joined(b, c))
  BY <1>3, <1>4, <1>5
<1>7. ASSUME NEW a \in Seq(S), NEW b \in Seq(S), NEW c \in Seq(S), NEW d \in Seq(S)
      PROVE  Followed(Joined(a, Joined(b, c)), Put(d)) = Joined(a, Joined(b, Joined(c, d)))
  <2>1. Joined(b, c) \in Seq(S) /\ Put(d) \in Seq(S)
    BY <1>3, <1>4
  <2>2. Followed(Joined(a, Joined(b, c)), Put(d)) = Joined(a, Followed(Joined(b, c), Put(d)))
    BY <1>5, <2>1
  <2> QED
    BY <1>6, <2>2
<1> QED
  BY <1>2, <1>3, <1>6, <1>7

\* A sequence and one element behind it.
LEMMA OneBehind ==
  ASSUME NEW S, NEW p \in Seq(S), NEW t \in Seq(S), NEW c \in S,
         Len(t) = Len(p) + 1, \A i \in 1 .. Len(p) : t[i] = p[i], t[Len(p) + 1] = c
  PROVE  p \o <<c>> = t
<1> DEFINE q == <<c>>
<1>1. q \in Seq(S) /\ Len(q) = 1 /\ q[1] = c
  OBVIOUS
<1> HIDE DEF q
<1>2. /\ p \o q \in Seq(S)
      /\ Len(p \o q) = Len(p) + Len(q)
      /\ \A i \in 1 .. Len(p) + Len(q) : (p \o q)[i] = IF i <= Len(p) THEN p[i] ELSE q[i - Len(p)]
  BY <1>1, ConcatProperties
<1>3. Len(p \o q) = Len(t) /\ Len(p) \in Nat
  BY <1>1, <1>2
<1>4. ASSUME NEW i \in 1 .. Len(t) PROVE (p \o q)[i] = t[i]
  BY <1>1, <1>2, <1>3
<1>5. p \o q = t
  BY <1>2, <1>3, <1>4, SeqEqual
<1> QED
  BY <1>5 DEF q

\* Short sequences.
LEMMA ShortConcat ==
  ASSUME NEW a, NEW b, NEW c
  PROVE  <<a>> \o <<b>> = <<a, b>> /\ <<a, b>> \o <<c>> = <<a, b, c>>
<1> DEFINE S == {a, b, c}
           o == <<a>>
           p == <<a, b>>
           t == <<a, b, c>>
<1>1. o \in Seq(S) /\ Len(o) = 1 /\ o[1] = a
  OBVIOUS
<1>2. p \in Seq(S) /\ Len(p) = 2 /\ p[1] = a /\ p[2] = b
  OBVIOUS
<1>3. t \in Seq(S) /\ Len(t) = 3 /\ t[1] = a /\ t[2] = b /\ t[3] = c
  OBVIOUS
<1>4. b \in S /\ c \in S
  OBVIOUS
<1> HIDE DEF S, o, p, t
<1>5. o \o <<b>> = p
  <2>1. Len(p) = Len(o) + 1 /\ (\A i \in 1 .. Len(o) : p[i] = o[i]) /\ p[Len(o) + 1] = b
    BY <1>1, <1>2
  <2> QED
    BY <1>1, <1>2, <1>4, <2>1, OneBehind
<1>6. p \o <<c>> = t
  <2>1. Len(t) = Len(p) + 1 /\ (\A i \in 1 .. Len(p) : t[i] = p[i]) /\ t[Len(p) + 1] = c
    BY <1>2, <1>3
  <2> QED
    BY <1>2, <1>3, <1>4, <2>1, OneBehind
<1> QED
  BY <1>5, <1>6 DEF o, p, t

\* The list of some fields, in their order.
LEMMA ListedCases ==
  ASSUME NEW flags \in SUBSET Fields
  PROVE  Listed(flags) =
           IF "TEMP" \in flags
           THEN IF "PRESS" \in flags
                THEN IF "HUMID" \in flags THEN <<"TEMP", "PRESS", "HUMID">> ELSE <<"TEMP", "PRESS">>
                ELSE IF "HUMID" \in flags THEN <<"TEMP", "HUMID">> ELSE <<"TEMP">>
           ELSE IF "PRESS" \in flags
                THEN IF "HUMID" \in flags THEN <<"PRESS", "HUMID">> ELSE <<"PRESS">>
                ELSE IF "HUMID" \in flags THEN <<"HUMID">> ELSE <<>>
<1> DEFINE name(f) == IF f \in flags THEN <<f>> ELSE <<>>
           tp == IF "TEMP" \in flags
                 THEN IF "PRESS" \in flags THEN <<"TEMP", "PRESS">> ELSE <<"TEMP">>
                 ELSE IF "PRESS" \in flags THEN <<"PRESS">> ELSE <<>>
<1>1. Listed(flags) = (name("TEMP") \o name("PRESS")) \o name("HUMID")
  BY DEF Listed
<1>2. name("TEMP") \o name("PRESS") = tp
  <2>1. CASE "TEMP" \in flags /\ "PRESS" \in flags
    <3>1. name("TEMP") = <<"TEMP">> /\ name("PRESS") = <<"PRESS">> /\ tp = <<"TEMP", "PRESS">>
      BY <2>1
    <3> HIDE DEF name, tp
    <3> QED
      BY ONLY <3>1, ShortConcat
  <2>2. CASE "TEMP" \in flags /\ "PRESS" \notin flags
    BY <2>2
  <2>3. CASE "TEMP" \notin flags /\ "PRESS" \in flags
    BY <2>3
  <2>4. CASE "TEMP" \notin flags /\ "PRESS" \notin flags
    BY <2>4
  <2> QED
    BY <2>1, <2>2, <2>3, <2>4
<1>3. Listed(flags) = tp \o name("HUMID")
  BY <1>1, <1>2
<1>4. CASE "HUMID" \notin flags
  BY <1>3, <1>4
<1>5. CASE "HUMID" \in flags
  <2>1. Listed(flags) = tp \o <<"HUMID">>
    BY <1>3, <1>5
  <2>2. CASE "TEMP" \in flags /\ "PRESS" \in flags
    <3>1. Listed(flags) = <<"TEMP", "PRESS">> \o <<"HUMID">>
      BY <2>1, <2>2
    <3>2. Listed(flags) = <<"TEMP", "PRESS", "HUMID">>
      BY ONLY <3>1, ShortConcat
    <3> QED
      BY <1>5, <2>2, <3>2
  <2>3. CASE "TEMP" \in flags /\ "PRESS" \notin flags
    <3>1. Listed(flags) = <<"TEMP">> \o <<"HUMID">>
      BY <2>1, <2>3
    <3>2. Listed(flags) = <<"TEMP", "HUMID">>
      BY ONLY <3>1, ShortConcat
    <3> QED
      BY <1>5, <2>3, <3>2
  <2>4. CASE "TEMP" \notin flags /\ "PRESS" \in flags
    <3>1. Listed(flags) = <<"PRESS">> \o <<"HUMID">>
      BY <2>1, <2>4
    <3>2. Listed(flags) = <<"PRESS", "HUMID">>
      BY ONLY <3>1, ShortConcat
    <3> QED
      BY <1>5, <2>4, <3>2
  <2>5. CASE "TEMP" \notin flags /\ "PRESS" \notin flags
    BY <1>5, <2>1, <2>5
  <2> QED
    BY <2>2, <2>3, <2>4, <2>5
<1> QED
  BY <1>4, <1>5

-------------------------------------------------------------------------------
(* What the server writes and what parseResponse() reads of it.            *)

Syms == Symbols \cup Digits \cup {"C", "h", "P", "a", "percent"}

Samples == [time : Timestamps, value : [Fields -> Numbers]]

\* A value with its unit, between two commas.
Shown(sample, f) == sample.value[f] \o Unit(f)

\* What is behind the semicolon.
DataPart(flags, sample) ==
  sample.time \o Value(flags, sample, "TEMP") \o Value(flags, sample, "PRESS")
    \o Value(flags, sample, "HUMID")

\* A number is a text of digits, and no digit is a comma.
LEMMA NumberIsText ==
  ASSUME NEW n \in Numbers \cup Timestamps
  PROVE  /\ n \in Seq(Syms) /\ n # <<>> /\ Len(n) \in Nat \ {0}
         /\ \A i \in 1 .. Len(n) : n[i] \in Digits
         /\ Whole(n)
<1>1. n \in Seq(Digits) /\ n # <<>>
  BY ProtocolAssumption
<1>2. n \in Seq(Syms)
  BY <1>1 DEF Syms
<1>3. Len(n) \in Nat \ {0}
  BY <1>1, EmptySeq
<1>4. \A i \in 1 .. Len(n) : n[i] \in Digits
  BY <1>1
<1>5. Comma \notin Digits
  BY ProtocolAssumption
<1> QED
  BY <1>1, <1>2, <1>3, <1>4, <1>5 DEF Whole

\* The units.
LEMMA UnitIsText ==
  ASSUME NEW f \in Fields
  PROVE  Unit(f) \in Seq(Syms) /\ Len(Unit(f)) \in Nat \ {0} /\ Whole(Unit(f))
<1>1. CASE f = "TEMP"
  <2> DEFINE u == <<"C">>
  <2>1. u \in Seq(Syms) /\ Len(u) = 1 /\ u[1] = "C"
    BY DEF Syms
  <2>2. Unit(f) = u
    BY <1>1 DEF Unit
  <2> HIDE DEF u
  <2>3. \A i \in 1 .. Len(u) : u[i] # Comma
    BY <2>1 DEF Comma
  <2>5. Whole(u) /\ Len(u) \in Nat \ {0}
    BY <2>1, <2>3 DEF Whole
  <2> QED
    BY ONLY <2>1, <2>2, <2>5
<1>2. CASE f = "PRESS"
  <2> DEFINE u == <<"h", "P", "a">>
  <2>1. u \in Seq(Syms) /\ Len(u) = 3 /\ u[1] = "h" /\ u[2] = "P" /\ u[3] = "a"
    BY DEF Syms
  <2>2. Unit(f) = u
    BY <1>2 DEF Unit
  <2> HIDE DEF u
  <2>3. \A i \in 1 .. 3 : u[i] \in {"h", "P", "a"}
    BY <2>1
  <2>4. \A i \in 1 .. Len(u) : u[i] # Comma
    BY <2>1, <2>3 DEF Comma
  <2>5. Whole(u) /\ Len(u) \in Nat \ {0}
    BY <2>1, <2>4 DEF Whole
  <2> QED
    BY ONLY <2>1, <2>2, <2>5
<1>3. CASE f = "HUMID"
  <2> DEFINE u == <<"percent">>
  <2>1. u \in Seq(Syms) /\ Len(u) = 1 /\ u[1] = "percent"
    BY DEF Syms
  <2>2. Unit(f) = u
    BY <1>3 DEF Unit
  <2> HIDE DEF u
  <2>3. \A i \in 1 .. Len(u) : u[i] # Comma
    BY <2>1 DEF Comma
  <2>5. Whole(u) /\ Len(u) \in Nat \ {0}
    BY <2>1, <2>3 DEF Whole
  <2> QED
    BY ONLY <2>1, <2>2, <2>5
<1> QED
  BY <1>1, <1>2, <1>3, FieldNames

\* A value with its unit is one token.
LEMMA ShownIsText ==
  ASSUME NEW sample \in Samples, NEW f \in Fields
  PROVE  /\ Shown(sample, f) \in Seq(Syms) /\ Whole(Shown(sample, f)) /\ Shown(sample, f) # <<>>
         /\ sample.value[f] \in Numbers
         /\ Len(Shown(sample, f)) = Len(sample.value[f]) + Len(Unit(f))
         /\ \A i \in 1 .. Len(sample.value[f]) : Shown(sample, f)[i] = sample.value[f][i]
<1> DEFINE v == sample.value[f]
           u == Unit(f)
           x == Shown(sample, f)
<1>1. v \in Numbers
  BY DEF Samples
<1>2. v \in Seq(Syms) /\ Len(v) \in Nat \ {0} /\ Whole(v)
  BY <1>1, NumberIsText
<1>3. u \in Seq(Syms) /\ Len(u) \in Nat \ {0} /\ Whole(u)
  BY UnitIsText
<1>4. x = v \o u
  BY DEF Shown
<1> HIDE DEF v, u, x
<1>5. /\ v \o u \in Seq(Syms)
      /\ Len(v \o u) = Len(v) + Len(u)
      /\ \A i \in 1 .. Len(v) + Len(u) : (v \o u)[i] = IF i <= Len(v) THEN v[i] ELSE u[i - Len(v)]
  BY <1>2, <1>3, ConcatProperties
<1>6. x \in Seq(Syms) /\ Len(x) = Len(v) + Len(u) /\ \A i \in 1 .. Len(v) : x[i] = v[i]
  BY <1>2, <1>3, <1>4, <1>5
<1>7. x # <<>>
  <2>1. Len(<<>>) = 0
    OBVIOUS
  <2> QED
    BY <1>2, <1>3, <1>6, <2>1
<1>8. Whole(x)
  <2> SUFFICES ASSUME NEW i \in 1 .. Len(x) PROVE x[i] # Comma
    BY DEF Whole
  <2>1. CASE i <= Len(v)
    BY <1>2, <1>6, <2>1 DEF Whole
  <2>2. CASE ~(i <= Len(v))
    <3>1. i - Len(v) \in 1 .. Len(u) /\ i \in 1 .. Len(v) + Len(u)
      BY <1>2, <1>3, <1>6, <2>2
    <3>2. x[i] = u[i - Len(v)]
      BY <1>4, <1>5, <2>2, <3>1
    <3> QED
      BY <1>3, <3>1, <3>2 DEF Whole
  <2> QED
    BY <2>1, <2>2
<1> QED
  BY <1>1, <1>6, <1>7, <1>8 DEF v, u, x

\* A value is written behind a comma, if it is asked for.
LEMMA ValueIs ==
  ASSUME NEW sample \in Samples, NEW f \in Fields, NEW flags
  PROVE  Value(flags, sample, f) = IF f \in flags THEN <<Comma>> \o Shown(sample, f) ELSE <<>>
<1> DEFINE q == <<Comma>>
           v == sample.value[f]
           u == Unit(f)
<1>1. v \in Seq(Syms) /\ u \in Seq(Syms)
  BY NumberIsText, UnitIsText DEF Samples
<1>2. q \in Seq(Syms)
  BY DEF Syms, Symbols
<1>3. (q \o v) \o u = Value(flags, sample, f) \/ f \notin flags
  BY DEF Value
<1>4. q \o (v \o u) = <<Comma>> \o Shown(sample, f)
  BY DEF Shown
<1>5. f \notin flags => Value(flags, sample, f) = <<>>
  BY DEF Value
<1> HIDE DEF q, v, u
<1>6. (q \o v) \o u = q \o (v \o u)
  BY <1>1, <1>2, ConcatAssociative
<1> QED
  BY <1>3, <1>4, <1>5, <1>6

\* What is behind the semicolon are the time and the values that are asked for, joined by
\* commas: getline() finds one token for each.
LEMMA ResponseTokens ==
  ASSUME NEW flags \in SUBSET Fields, NEW sample \in Samples
  PROVE  /\ DataPart(flags, sample) \in Seq(Syms)
         /\ Listed(flags) \in Seq(Fields)
         /\ Len(Tokens(DataPart(flags, sample))) = Len(Listed(flags)) + 1
         /\ Tokens(DataPart(flags, sample))[1] = sample.time
         /\ \A i \in 1 .. Len(Listed(flags)) :
              Tokens(DataPart(flags, sample))[i + 1] = Shown(sample, Listed(flags)[i])
<1> DEFINE n == sample.time
           t == Shown(sample, "TEMP")
           p == Shown(sample, "PRESS")
           h == Shown(sample, "HUMID")
           D == DataPart(flags, sample)
           L == Listed(flags)
           put(f, x) == IF f \in flags THEN Put(x) ELSE <<>>
<1>1. /\ n \in Seq(Syms) /\ t \in Seq(Syms) /\ p \in Seq(Syms) /\ h \in Seq(Syms)
      /\ Whole(n) /\ Whole(t) /\ Whole(p) /\ Whole(h)
      /\ n # <<>> /\ t # <<>> /\ p # <<>> /\ h # <<>>
  <2>1. n \in Timestamps
    BY DEF Samples
  <2> QED
    BY <2>1, NumberIsText, ShownIsText, FieldNames
<1>2. D = Followed(Followed(Followed(n, put("TEMP", t)), put("PRESS", p)), put("HUMID", h))
  BY ValueIs, FieldNames DEF DataPart, Followed, Put
<1>3. Comma \in Syms
  BY DEF Syms, Symbols
<1>4. /\ \A x \in Seq(Syms) : Followed(x, <<>>) = x
      /\ \A x, y \in Seq(Syms) : Joined(x, y) \in Seq(Syms) /\ Followed(x, Put(y)) = Joined(x, y)
  BY <1>3, JoinedBehind
<1>5. \A x, y, z \in Seq(Syms) : Followed(Joined(x, y), Put(z)) = Joined(x, Joined(y, z))
  BY <1>3, JoinedBehind
<1>6. \A x, y, z, w \in Seq(Syms) :
        Followed(Joined(x, Joined(y, z)), Put(w)) = Joined(x, Joined(y, Joined(z, w)))
  BY <1>3, JoinedBehind
<1> HIDE DEF n, t, p, h, D
<1>7. CASE "TEMP" \in flags /\ "PRESS" \in flags /\ "HUMID" \in flags
  <2>1. Followed(n, put("TEMP", t)) = Joined(n, t)
    BY <1>1, <1>4, <1>7
  <2>2. Followed(Joined(n, t), put("PRESS", p)) = Joined(n, Joined(t, p))
    BY <1>1, <1>4, <1>5, <1>7
  <2>3. Followed(Joined(n, Joined(t, p)), put("HUMID", h)) = Joined(n, Joined(t, Joined(p, h)))
    BY <1>1, <1>4, <1>5, <1>6, <1>7
  <2>4. D = Joined(n, Joined(t, Joined(p, h)))
    BY <1>2, <2>1, <2>2, <2>3
  <2>5. Tokens(D) = <<n, t, p, h>>
    BY <1>1, <1>3, <2>4, JoinedTokens
  <2>6. L = <<"TEMP", "PRESS", "HUMID">>
    BY <1>7, ListedCases
  <2>7. D \in Seq(Syms)
    BY <1>1, <1>4, <2>4
  <2> QED
    BY <2>5, <2>6, <2>7, FieldNames DEF n, t, p, h, D
<1>8. CASE "TEMP" \in flags /\ "PRESS" \in flags /\ "HUMID" \notin flags
  <2>1. Followed(n, put("TEMP", t)) = Joined(n, t)
    BY <1>1, <1>4, <1>8
  <2>2. Followed(Joined(n, t), put("PRESS", p)) = Joined(n, Joined(t, p))
    BY <1>1, <1>4, <1>5, <1>8
  <2>3. Followed(Joined(n, Joined(t, p)), put("HUMID", h)) = Joined(n, Joined(t, p))
    BY <1>1, <1>4, <1>5, <1>6, <1>8
  <2>4. D = Joined(n, Joined(t, p))
    BY <1>2, <2>1, <2>2, <2>3
  <2>5. Tokens(D) = <<n, t, p>>
    BY <1>1, <1>3, <2>4, JoinedTokens
  <2>6. L = <<"TEMP", "PRESS">>
    BY <1>8, ListedCases
  <2>7. D \in Seq(Syms)
    BY <1>1, <1>4, <2>4
  <2> QED
    BY <2>5, <2>6, <2>7, FieldNames DEF n, t, p, h, D
<1>9. CASE "TEMP" \in flags /\ "PRESS" \notin flags /\ "HUMID" \in flags
  <2>1. Followed(n, put("TEMP", t)) = Joined(n, t)
    BY <1>1, <1>4, <1>9
  <2>2. Followed(Joined(n, t), put("PRESS", p)) = Joined(n, t)
    BY <1>1, <1>4, <1>5, <1>9
  <2>3. Followed(Joined(n, t), put("HUMID", h)) = Joined(n, Joined(t, h))
    BY <1>1, <1>4, <1>5, <1>6, <1>9
  <2>4. D = Joined(n, Joined(t, h))
    BY <1>2, <2>1, <2>2, <2>3
  <2>5. Tokens(D) = <<n, t, h>>
    BY <1>1, <1>3, <2>4, JoinedTokens
  <2>6. L = <<"TEMP", "HUMID">>
    BY <1>9, ListedCases
  <2>7. D \in Seq(Syms)
    BY <1>1, <1>4, <2>4
  <2> QED
    BY <2>5, <2>6, <2>7, FieldNames DEF n, t, p, h, D
<1>10. CASE "TEMP" \in flags /\ "PRESS" \notin flags /\ "HUMID" \notin flags
  <2>1. Followed(n, put("TEMP", t)) = Joined(n, t)
    BY <1>1, <1>4, <1>10
  <2>2. Followed(Joined(n, t), put("PRESS", p)) = Joined(n, t)
    BY <1>1, <1>4, <1>5, <1>10
  <2>3. Followed(Joined(n, t), put("HUMID", h)) = Joined(n, t)
    BY <1>1, <1>4, <1>5, <1>6, <1>10
  <2>4. D = Joined(n, t)
    BY <1>2, <2>1, <2>2, <2>3
  <2>5. Tokens(D) = <<n, t>>
    BY <1>1, <1>3, <2>4, JoinedTokens
  <2>6. L = <<"TEMP">>
    BY <1>10, ListedCases
  <2>7. D \in Seq(Syms)
    BY <1>1, <1>4, <2>4
  <2> QED
    BY <2>5, <2>6, <2>7, FieldNames DEF n, t, p, h, D
<1>11. CASE "TEMP" \notin flags /\ "PRESS" \in flags /\ "HUMID" \in flags
  <2>1. Followed(n, put("TEMP", t)) = n
    BY <1>1, <1>4, <1>11
  <2>2. Followed(n, put("PRESS", p)) = Joined(n, p)
    BY <1>1, <1>4, <1>5, <1>11
  <2>3. Followed(Joined(n, p), put("HUMID", h)) = Joined(n, Joined(p, h))
    BY <1>1, <1>4, <1>5, <1>6, <1>11
  <2>4. D = Joined(n, Joined(p, h))
    BY <1>2, <2>1, <2>2, <2>3
  <2>5. Tokens(D) = <<n, p, h>>
    BY <1>1, <1>3, <2>4, JoinedTokens
  <2>6. L = <<"PRESS", "HUMID">>
    BY <1>11, ListedCases
  <2>7. D \in Seq(Syms)
    BY <1>1, <1>4, <2>4
  <2> QED
    BY <2>5, <2>6, <2>7, FieldNames DEF n, t, p, h, D
<1>12. CASE "TEMP" \notin flags /\ "PRESS" \in flags /\ "HUMID" \notin flags
  <2>1. Followed(n, put("TEMP", t)) = n
    BY <1>1, <1>4, <1>12
  <2>2. Followed(n, put("PRESS", p)) = Joined(n, p)
    BY <1>1, <1>4, <1>5, <1>12
  <2>3. Followed(Joined(n, p), put("HUMID", h)) = Joined(n, p)
    BY <1>1, <1>4, <1>5, <1>6, <1>12
  <2>4. D = Joined(n, p)
    BY <1>2, <2>1, <2>2, <2>3
  <2>5. Tokens(D) = <<n, p>>
    BY <1>1, <1>3, <2>4, JoinedTokens
  <2>6. L = <<"PRESS">>
    BY <1>12, ListedCases
  <2>7. D \in Seq(Syms)
    BY <1>1, <1>4, <2>4
  <2> QED
    BY <2>5, <2>6, <2>7, FieldNames DEF n, t, p, h, D
<1>13. CASE "TEMP" \notin flags /\ "PRESS" \notin flags /\ "HUMID" \in flags
  <2>1. Followed(n, put("TEMP", t)) = n
    BY <1>1, <1>4, <1>13
  <2>2. Followed(n, put("PRESS", p)) = n
    BY <1>1, <1>4, <1>5, <1>13
  <2>3. Followed(n, put("HUMID", h)) = Joined(n, h)
    BY <1>1, <1>4, <1>5, <1>6, <1>13
  <2>4. D = Joined(n, h)
    BY <1>2, <2>1, <2>2, <2>3
  <2>5. Tokens(D) = <<n, h>>
    BY <1>1, <1>3, <2>4, JoinedTokens
  <2>6. L = <<"HUMID">>
    BY <1>13, ListedCases
  <2>7. D \in Seq(Syms)
    BY <1>1, <1>4, <2>4
  <2> QED
    BY <2>5, <2>6, <2>7, FieldNames DEF n, t, p, h, D
<1>14. CASE "TEMP" \notin flags /\ "PRESS" \notin flags /\ "HUMID" \notin flags
  <2>1. Followed(n, put("TEMP", t)) = n
    BY <1>1, <1>4, <1>14
  <2>2. Followed(n, put("PRESS", p)) = n
    BY <1>1, <1>4, <1>5, <1>14
  <2>3. Followed(n, put("HUMID", h)) = n
    BY <1>1, <1>4, <1>5, <1>6, <1>14
  <2>4. D = n
    BY <1>2, <2>1, <2>2, <2>3
  <2>5. Tokens(D) = <<n>>
    BY <1>1, <1>3, <2>4, JoinedTokens
  <2>6. L = <<>>
    BY <1>14, ListedCases
  <2>7. D \in Seq(Syms)
    BY <1>1, <1>4, <2>4
  <2> QED
    BY <2>5, <2>6, <2>7, FieldNames DEF n, t, p, h, D
<1> QED
  BY <1>7, <1>8, <1>9, <1>10, <1>11, <1>12, <1>13, <1>14

\* It does not matter which of three texts are put together first.
LEMMA Associative ==
  ASSUME NEW S, NEW a \in Seq(S), NEW b \in Seq(S), NEW c \in Seq(S)
  PROVE  Followed(Followed(a, b), c) = Followed(a, Followed(b, c))
  BY ConcatAssociative DEF Followed

\* Nor which of six.
LEMMA Regrouped ==
  ASSUME NEW S, NEW a \in Seq(S), NEW b \in Seq(S), NEW c \in Seq(S),
         NEW d \in Seq(S), NEW e \in Seq(S), NEW f \in Seq(S)
  PROVE  Followed(Followed(Followed(Followed(Followed(a, b), c), d), e), f)
           = Followed(a, Followed(b, Followed(Followed(Followed(c, d), e), f)))
<1>1. \A x, y \in Seq(S) : Followed(x, y) \in Seq(S)
  BY ConcatProperties DEF Followed
<1>2. \A x, y, z \in Seq(S) : Followed(Followed(x, y), z) = Followed(x, Followed(y, z))
  BY Associative
<1>3. Followed(Followed(a, b), c) = Followed(a, Followed(b, c))
  BY <1>2
<1>4. ASSUME NEW x \in Seq(S), NEW y \in Seq(S)
      PROVE  Followed(Followed(a, Followed(b, x)), y) = Followed(a, Followed(b, Followed(x, y)))
  BY <1>1, <1>2
<1>5. Followed(c, d) \in Seq(S) /\ Followed(Followed(c, d), e) \in Seq(S)
  BY <1>1
<1> QED
  BY <1>3, <1>4, <1>5

\* A response is the header, the semicolon and the data.
LEMMA ResponseIs ==
  ASSUME NEW flags \in SUBSET Fields, NEW sample \in Samples
  PROVE  /\ Header(flags) \in Seq(Syms) /\ Semicolon \in Syms
         /\ BuildResponse(flags, sample) = Between(Header(flags), Semicolon, DataPart(flags, sample))
<1> DEFINE h == Header(flags)
           q == <<Semicolon>>
           n == sample.time
           v(f) == Value(flags, sample, f)
<1>1. h \in Seq(Syms)
  <2>1. h \in Seq(flags \cup {Comma}) /\ flags \cup {Comma} \subseteq Syms
    BY HeaderSymbols DEF Syms, Symbols
  <2> QED
    BY <2>1
<1>2. Semicolon \in Syms /\ q \in Seq(Syms)
  BY DEF Syms, Symbols
<1>3. n \in Seq(Syms)
  BY NumberIsText DEF Samples
<1>4. ASSUME NEW f \in Fields PROVE v(f) \in Seq(Syms)
  <2>1. Comma \in Syms /\ Shown(sample, f) \in Seq(Syms)
    BY ShownIsText DEF Syms, Symbols
  <2>2. <<Comma>> \o Shown(sample, f) \in Seq(Syms)
    <3> DEFINE c == <<Comma>>
    <3>1. c \in Seq(Syms)
      BY <2>1
    <3> HIDE DEF c
    <3>2. c \o Shown(sample, f) \in Seq(Syms)
      BY <2>1, <3>1, ConcatProperties
    <3> QED
      BY <3>2 DEF c
  <2>3. v(f) = IF f \in flags THEN <<Comma>> \o Shown(sample, f) ELSE <<>>
    BY ValueIs
  <2> QED
    BY <2>2, <2>3
<1>5. v("TEMP") \in Seq(Syms) /\ v("PRESS") \in Seq(Syms) /\ v("HUMID") \in Seq(Syms)
  BY <1>4, FieldNames
<1>6. BuildResponse(flags, sample)
        = Followed(Followed(Followed(Followed(Followed(h, q), n), v("TEMP")), v("PRESS")), v("HUMID"))
  BY DEF BuildResponse, Followed
<1>7. DataPart(flags, sample) = Followed(Followed(Followed(n, v("TEMP")), v("PRESS")), v("HUMID"))
  BY DEF DataPart, Followed
<1>8. Between(h, Semicolon, DataPart(flags, sample)) = Followed(h, Followed(q, DataPart(flags, sample)))
  BY DEF Between, Followed
<1> HIDE DEF h, q, n, v
<1>9. Followed(Followed(Followed(Followed(Followed(h, q), n), v("TEMP")), v("PRESS")), v("HUMID"))
        = Followed(h, Followed(q, Followed(Followed(Followed(n, v("TEMP")), v("PRESS")), v("HUMID"))))
  BY <1>1, <1>2, <1>3, <1>5, Regrouped
<1> QED
  BY <1>1, <1>2, <1>6, <1>7, <1>8, <1>9 DEF h

\* parse_header() finds the semicolon that is behind the header, and so the header and the data.
LEMMA ResponseSplit ==
  ASSUME NEW flags \in SUBSET Fields, NEW sample \in Samples
  PROVE  ParseResponse(BuildResponse(flags, sample), flags)
           = ParseValues(Listed(flags), Tokens(DataPart(flags, sample)))
<1> DEFINE text == BuildResponse(flags, sample)
           h == Header(flags)
           D == DataPart(flags, sample)
           at == CHOOSE i \in DOMAIN text : text[i] = Semicolon /\ \A j \in 1 .. i - 1 : text[j] # Semicolon
<1>1. h \in Seq(Syms) /\ D \in Seq(Syms) /\ Semicolon \in Syms /\ text = Between(h, Semicolon, D)
  BY ResponseIs, ResponseTokens
<1>2. h \in Seq(flags \cup {Comma}) /\ \A f \in flags : Within(f, h)
  BY HeaderSymbols
<1>3. Tokens(D) # <<>>
  <2>1. Len(Tokens(D)) = Len(Listed(flags)) + 1 /\ Listed(flags) \in Seq(Fields)
    BY ResponseTokens
  <2>2. Len(<<>>) = 0 /\ Len(Listed(flags)) \in Nat
    BY <2>1
  <2> QED
    BY <2>1, <2>2
<1>4. ParseResponse(text, flags) =
        IF ~Contains(text, Semicolon) THEN Failed
        ELSE IF \/ Fields \cap ToSet(SubSeq(text, 1, at - 1)) # flags
                \/ Tokens(SubSeq(text, at + 1, Len(text))) = <<>> THEN Failed
             ELSE ParseValues(Listed(flags), Tokens(SubSeq(text, at + 1, Len(text))))
  BY DEF ParseResponse
<1> HIDE DEF h, D, text
<1> DEFINE b == Between(h, Semicolon, D)
<1>5. /\ text \in Seq(Syms) /\ Len(h) \in Nat /\ Len(D) \in Nat /\ Len(text) = Len(h) + Len(D) + 1
      /\ text[Len(h) + 1] = Semicolon
  <2>1. b \in Seq(Syms) /\ Len(h) \in Nat /\ Len(D) \in Nat /\ Len(b) = Len(h) + Len(D) + 1
    BY <1>1, BetweenSymbols
  <2>2. b[Len(h) + 1] = Semicolon
    BY <1>1, BetweenSymbols
  <2> HIDE DEF b
  <2> QED
    BY <1>1, <2>1, <2>2 DEF b
<1>6. \A i \in 1 .. Len(h) : text[i] = h[i]
  <2>1. h \in Seq(Syms) /\ D \in Seq(Syms) /\ Semicolon \in Syms
    BY <1>1
  <2>2. \A i \in 1 .. Len(h) : b[i] = h[i]
    BY ONLY <2>1, BetweenSymbols
  <2> HIDE DEF b
  <2> QED
    BY <1>1, <2>2 DEF b
<1>7. SubSeq(text, 1, Len(h)) = h /\ SubSeq(text, Len(h) + 2, Len(text)) = D
  <2>1. SubSeq(b, 1, Len(h)) = h /\ SubSeq(b, Len(h) + 2, Len(b)) = D
    BY <1>1, BetweenParts
  <2> HIDE DEF b
  <2> QED
    BY <1>1, <2>1 DEF b
<1>8. \A i \in 1 .. Len(h) : h[i] \in flags \cup {Comma}
  BY <1>2
<1>9. Semicolon \notin flags \cup {Comma}
  BY FieldNames DEF Semicolon, Comma
<1>10. Len(h) + 1 \in 1 .. Len(text) /\ DOMAIN text = 1 .. Len(text)
  BY <1>5
<1>11. at = Len(h) + 1
  <2>1. \A j \in 1 .. (Len(h) + 1) - 1 : text[j] # Semicolon
    BY <1>5, <1>6, <1>8, <1>9
  <2>2. /\ at \in 1 .. Len(text) /\ text[at] = Semicolon
        /\ \A j \in 1 .. at - 1 : text[j] # Semicolon
    BY <1>5, <1>10, <2>1
  <2> HIDE DEF at
  <2>3. ~(at <= Len(h))
    BY <1>5, <1>6, <1>8, <1>9, <2>2
  <2>4. ~(at > Len(h) + 1)
    BY <1>5, <2>2
  <2> QED
    BY <1>5, <2>2, <2>3, <2>4
<1> HIDE DEF at
<1>12. Contains(text, Semicolon)
  BY <1>5, <1>10 DEF Contains
<1>13. at - 1 = Len(h) /\ at + 1 = Len(h) + 2
  BY <1>5, <1>11
<1>14. Fields \cap ToSet(h) = flags
  <2>1. ToSet(h) = {h[i] : i \in 1 .. Len(h)}
    BY <1>1 DEF ToSet
  <2>2. ToSet(h) \subseteq flags \cup {Comma}
    BY <1>8, <2>1
  <2>3. \A f \in flags : f \in ToSet(h)
    BY <1>2, <2>1 DEF Within
  <2>4. Comma \notin Fields
    BY FieldNames DEF Comma
  <2> QED
    BY <2>2, <2>3, <2>4
<1>15. ParseResponse(text, flags) = ParseValues(Listed(flags), Tokens(D))
  BY <1>3, <1>4, <1>7, <1>12, <1>13, <1>14
<1> QED
  BY <1>15 DEF text, D

\* stol() and stof() convert the whole of a number.
LEMMA NumberConverted ==
  ASSUME NEW n \in Numbers \cup Timestamps
  PROVE  Converted(n) = n
<1>1. n \in Seq(Syms) /\ Len(n) \in Nat /\ \A i \in 1 .. Len(n) : n[i] \in Digits
  BY NumberIsText
<1> DEFINE last == CHOOSE e \in 0 .. Len(n) :
                     /\ e = Len(n) \/ n[e + 1] \notin Digits
                     /\ \A i \in 1 .. e : n[i] \in Digits
<1>2. last \in 0 .. Len(n) /\ (last = Len(n) \/ n[last + 1] \notin Digits)
  <2>1. Len(n) \in 0 .. Len(n)
    BY <1>1
  <2> QED
    BY <1>1, <2>1
<1>3. Converted(n) = SubSeq(n, 1, last)
  BY DEF Converted
<1> HIDE DEF last
<1>4. last = Len(n)
  BY <1>1, <1>2
<1> QED
  BY <1>1, <1>3, <1>4, SubSeqFull

\* The unit that is cut off a value is the one that was written.
LEMMA UnitRemoved ==
  ASSUME NEW sample \in Samples, NEW f \in Fields
  PROVE  WithoutUnit(f, Shown(sample, f)) = sample.value[f]
<1> DEFINE v == sample.value[f]
           u == Unit(f)
           x == Shown(sample, f)
<1>1. /\ x \in Seq(Syms) /\ Len(x) = Len(v) + Len(u)
      /\ v \in Numbers
      /\ \A i \in 1 .. Len(v) : x[i] = v[i]
  BY ShownIsText
<1>2. v \in Seq(Syms) /\ Len(v) \in Nat /\ Len(u) \in Nat
  BY <1>1, NumberIsText, UnitIsText
<1>3. WithoutUnit(f, x) = IF Len(x) < Len(u) THEN x ELSE SubSeq(x, 1, Len(x) - Len(u))
  BY DEF WithoutUnit
<1> HIDE DEF v, u, x
<1> DEFINE n == Len(v)
           t == SubSeq(x, 1, n)
<1>4. WithoutUnit(f, x) = t
  BY <1>1, <1>2, <1>3
<1>5. n \in Nat /\ \A i \in 1 .. n : x[i] \in Syms
  BY <1>1, <1>2
<1>6. /\ t \in Seq(Syms) /\ Len(t) = IF 1 <= n THEN n - 1 + 1 ELSE 0
      /\ \A i \in 1 .. n - 1 + 1 : t[i] = x[1 + i - 1]
  BY <1>5, SubSeqProperties
<1> HIDE DEF t
<1>7. Len(t) = n /\ \A i \in 1 .. n : t[i] = v[i]
  BY <1>1, <1>5, <1>6
<1>8. t = v
  BY <1>2, <1>6, <1>7, SeqEqual
<1> QED
  BY <1>4, <1>8 DEF v, x

\* The client reads from a response what the server has written into it.
LEMMA ReadBack ==
  ASSUME NEW flags \in SUBSET Fields, NEW sample \in Samples, NEW r,
         r = ParseResponse(BuildResponse(flags, sample), flags)
  PROVE  /\ r.ret = "0"
         /\ r.values = <<sample.time>>
              \o [i \in DOMAIN Listed(flags) |-> sample.value[Listed(flags)[i]]]
<1> DEFINE list == Listed(flags)
           tokens == Tokens(DataPart(flags, sample))
           n == Len(list)
           count == IF Len(tokens) - 1 < Len(list) THEN Len(tokens) - 1 ELSE Len(list)
           value(i) == Converted(WithoutUnit(list[i], tokens[i + 1]))
           cut(i) == SubSeq(tokens[i + 1], Len(WithoutUnit(list[i], tokens[i + 1])) + 1, Len(tokens[i + 1]))
           read == [i \in DOMAIN list |-> sample.value[list[i]]]
<1>1. /\ list \in Seq(Fields) /\ Len(tokens) = Len(list) + 1
      /\ tokens[1] = sample.time
      /\ \A i \in 1 .. Len(list) : tokens[i + 1] = Shown(sample, list[i])
  BY ResponseTokens
<1>2. r = ParseValues(list, tokens)
  BY ResponseSplit
<1>3. r = IF Converted(tokens[1]) = <<>> \/ \E i \in 1..count : value(i) = <<>>
          THEN [Failed EXCEPT !.ret = "exception"]
          ELSE IF count < Len(list) THEN Failed
          ELSE [ret |-> "0", values |-> <<Converted(tokens[1])>> \o [i \in 1..count |-> value(i)],
                cut |-> [i \in 1..count |-> cut(i)]]
  BY <1>2 DEF ParseValues
<1> HIDE DEF list, tokens
<1>4. n \in Nat /\ DOMAIN list = 1 .. n /\ \A i \in 1 .. n : list[i] \in Fields
  BY <1>1
<1>5. count = n
  BY <1>1, <1>4
<1>6. Converted(tokens[1]) = sample.time /\ sample.time # <<>>
  <2>1. sample.time \in Timestamps
    BY DEF Samples
  <2> QED
    BY <1>1, <2>1, NumberConverted, NumberIsText
<1>7. ASSUME NEW i \in 1 .. n
      PROVE  value(i) = sample.value[list[i]] /\ value(i) # <<>>
  <2>1. list[i] \in Fields /\ tokens[i + 1] = Shown(sample, list[i])
    BY <1>1, <1>4
  <2>2. WithoutUnit(list[i], tokens[i + 1]) = sample.value[list[i]]
    BY <2>1, UnitRemoved
  <2>3. sample.value[list[i]] \in Numbers
    BY <2>1 DEF Samples
  <2> QED
    BY <2>2, <2>3, NumberConverted, NumberIsText
<1> HIDE DEF count, value, cut
<1>8. [i \in 1..count |-> value(i)] = read
  BY <1>4, <1>5, <1>7
<1> DEFINE all == <<sample.time>> \o [i \in 1..count |-> value(i)]
           cuts == [i \in 1..count |-> cut(i)]
<1>9. r = [ret |-> "0", values |-> all, cut |-> cuts]
  BY <1>3, <1>4, <1>5, <1>6, <1>7
<1>10. all = <<sample.time>> \o read
  BY <1>8
<1> HIDE DEF all, cuts, read
<1>11. r.ret = "0" /\ r.values = all
  BY <1>9
<1> QED
  BY <1>10, <1>11 DEF read, list

-------------------------------------------------------------------------------
(* The invariant of an exchange.                                           *)

\* Whatever stage it is in, parsed is what the server's parser makes of got, got is a
\* beginning of what was sent, and client.cpp sent the request for what it wants.
Exchange ==
  /\ want \in SUBSET Fields
  /\ sent \in Seq(Symbols)
  /\ stage = "request" => want = {}
  /\ want # {} => sent = BuildRequest(want)
  /\ stage \in {"request", "server"} => got = <<>>
  /\ got # <<>> => got \in Beginnings(sent)
  /\ parsed = ParseRequest(got)

\* The beginnings of a text are texts.
LEMMA BeginningsAreTexts ==
  ASSUME NEW text \in Seq(Symbols), NEW b \in Beginnings(text)
  PROVE  b \in Seq(Symbols) /\ b # <<>>
<1>1. PICK n \in 1 .. Len(text) : b = SubSeq(text, 1, n)
  BY DEF Beginnings
<1>2. n \in Int /\ n >= 1 /\ \A i \in 1 .. n : text[i] \in Symbols
  OBVIOUS
<1>3. /\ SubSeq(text, 1, n) \in Seq(Symbols)
      /\ Len(SubSeq(text, 1, n)) = IF 1 <= n THEN n - 1 + 1 ELSE 0
  BY <1>2, SubSeqProperties
<1>4. Len(b) # 0
  BY <1>1, <1>2, <1>3
<1>5. Len(<<>>) = 0
  OBVIOUS
<1> QED
  BY <1>1, <1>3, <1>4, <1>5

\* The request of client.cpp is a text.
LEMMA RequestIsText ==
  ASSUME NEW flags \in SUBSET Fields
  PROVE  BuildRequest(flags) \in Seq(Symbols)
<1>1. Header(flags) \in Seq(Symbols)
  <2>1. Header(flags) \in Seq(flags \cup {Comma})
    BY HeaderSymbols
  <2> QED
    BY <2>1 DEF Symbols
<1>2. Semicolon \in Symbols
  BY DEF Symbols
<1> QED
  BY <1>1, <1>2, LastBehind DEF BuildRequest

\* Exchange is an invariant.
LEMMA ExchangeInvariant == Spec => []Exchange
<1>1. Init => Exchange
  <2> SUFFICES ASSUME Init PROVE Exchange
    OBVIOUS
  <2>1. ParseRequest(<<>>) = Refused
    BY DEF ParseRequest, Parsed
  <2> QED
    BY <2>1 DEF Init, Exchange
<1>2. Exchange /\ [Next]_vars => Exchange'
  <2> SUFFICES ASSUME Exchange, [Next]_vars PROVE Exchange'
    OBVIOUS
  <2>1. CASE Request
    <3>1. BuildRequest(want') \in Seq(Symbols) /\ want' \in SUBSET Fields
      BY <2>1, RequestIsText DEF Request
    <3> QED
      BY <2>1, <3>1 DEF Request, Exchange
  <2>2. CASE Type
    <3>1. sent' \in Seq(Symbols)
      BY <2>2, AppendProperties DEF Type, Exchange
    <3>2. want' = {} /\ got' = <<>> /\ stage' \in {"request", "server"} /\ parsed' = parsed
      BY <2>2 DEF Type, Exchange
    <3> QED
      BY <2>2, <3>1, <3>2 DEF Type, Exchange
  <2>3. CASE Serve
    <3>1. stage' \in {"done", "client"}
      BY <2>3 DEF Serve
    <3> QED
      BY <2>3, <3>1 DEF Serve, Exchange
  <2>4. CASE Receive
    BY <2>4 DEF Receive, Exchange
  <2>5. CASE UNCHANGED vars
    BY <2>5 DEF vars, Exchange
  <2> QED
    BY <2>1, <2>2, <2>3, <2>4, <2>5 DEF Next, Done
<1> QED
  BY <1>1, <1>2, PTL DEF Spec

\* For requests of any length: the server accepts the requests of the grammar and
\* no other text (SSNP.cpp, parseRequest), and takes the fields from them that they name.
THEOREM SsnpAcceptsGrammar == Spec => []AcceptsGrammar
<1>1. Exchange => AcceptsGrammar
  <2> SUFFICES ASSUME Exchange, got # <<>> PROVE
        /\ parsed.ret = 0 /\ ~parsed.invalid <=> got \in Grammar
        /\ ~parsed.invalid => parsed.flags = ToSet(got) \cap Fields
    BY DEF AcceptsGrammar
  <2>1. got \in Seq(Symbols) /\ parsed = ParseRequest(got)
    BY BeginningsAreTexts DEF Exchange
  <2>2. /\ ~ParseRequest(got).invalid <=> got \in Grammar
        /\ ~ParseRequest(got).invalid => ParseRequest(got).ret = 0
    BY <2>1, AcceptedShape, GrammarShape
  <2>3. ~ParseRequest(got).invalid => ParseRequest(got).flags = ToSet(got) \cap Fields
    BY <2>1, AcceptedFlags
  <2> QED
    BY <2>1, <2>2, <2>3
<1> QED
  BY <1>1, ExchangeInvariant, PTL

\* A beginning of client.cpp's request that the server's one recv() may give is refused,
\* unless it is the whole, which is answered with the fields that were wanted.
THEOREM SsnpNoPartialRequest == Spec => []NoPartialRequest
<1>1. Exchange => NoPartialRequest
  <2> SUFFICES ASSUME Exchange, want # {}, ~parsed.invalid
               PROVE  got = sent /\ parsed.flags = want
    BY DEF NoPartialRequest
  <2>1. want \in SUBSET Fields /\ sent = BuildRequest(want) /\ parsed = ParseRequest(got)
    BY DEF Exchange
  <2>2. got # <<>>
    <3>1. ParseRequest(<<>>) = Refused
      BY DEF ParseRequest, Parsed
    <3> QED
      BY <2>1, <3>1 DEF Refused
  <2>3. got \in Beginnings(BuildRequest(want))
    BY <2>1, <2>2 DEF Exchange
  <2> QED
    BY <2>1, <2>3, OwnRequest
<1> QED
  BY <1>1, ExchangeInvariant, PTL
\* The response is what the server made of the request and the sample, and the client's
\* result is what parseResponse() makes of what recv() gave.
Answered ==
  /\ stage \in {"request", "server"} => response = <<>>
  /\ response # <<>> => /\ data \in Samples /\ ~parsed.invalid
                        /\ response = BuildResponse(parsed.flags, data)
  /\ stage # "done" => seen = <<>>
  /\ seen # <<>> => outcome = ParseResponse(seen, want)

\* Answered is an invariant.
LEMMA AnsweredInvariant == Spec => []Answered
<1>1. Init => Answered
  BY DEF Init, Answered
<1>2. Answered /\ [Next]_vars => Answered'
  <2> SUFFICES ASSUME Answered, [Next]_vars PROVE Answered'
    OBVIOUS
  <2>1. CASE Request
    BY <2>1 DEF Request, Answered
  <2>2. CASE Type
    BY <2>2 DEF Type, Answered
  <2>3. CASE Serve
    <3>1. stage' \in {"done", "client"} /\ seen' = <<>> /\ response = <<>>
      BY <2>3 DEF Serve, Answered
    <3>2. CASE UNCHANGED <<data, response>>
      BY <3>1, <3>2 DEF Answered
    <3>3. CASE /\ ~parsed'.invalid
               /\ data' \in [time : Timestamps, value : [Fields -> Numbers]]
               /\ response' = BuildResponse(parsed'.flags, data')
      BY <3>1, <3>3 DEF Answered, Samples
    <3> QED
      BY <2>3, <3>2, <3>3 DEF Serve
  <2>4. CASE Receive
    BY <2>4 DEF Receive, Answered
  <2>5. CASE UNCHANGED vars
    BY <2>5 DEF vars, Answered
  <2> QED
    BY <2>1, <2>2, <2>3, <2>4, <2>5 DEF Next, Done
<1> QED
  BY <1>1, <1>2, PTL DEF Spec

\* For any numbers and any fields: what buildResponse() writes, parseResponse() reads, the
\* timestamp and each value with its unit removed, if recv() gives it the whole.
THEOREM SsnpRoundTrip == Spec => []RoundTrip
<1>1. Exchange /\ NoPartialRequest /\ Answered => RoundTrip
  <2> SUFFICES ASSUME Exchange, NoPartialRequest, Answered,
                      stage = "done", want # {}, seen = response, response # <<>>
               PROVE  /\ outcome.ret = "0"
                      /\ outcome.values =
                           <<data.time>> \o [i \in DOMAIN Listed(want) |-> data.value[Listed(want)[i]]]
    BY DEF RoundTrip
  <2>1. want \in SUBSET Fields /\ data \in Samples /\ parsed.flags = want
    BY DEF Exchange, NoPartialRequest, Answered
  <2>2. outcome = ParseResponse(BuildResponse(want, data), want)
    BY <2>1 DEF Answered
  <2> QED
    BY <2>1, <2>2, ReadBack
<1> QED
  BY <1>1, ExchangeInvariant, SsnpNoPartialRequest, AnsweredInvariant, PTL
===============================================================================
